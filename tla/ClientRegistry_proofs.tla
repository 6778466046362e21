------------------------ MODULE ClientRegistry_proofs ------------------------
(***************************************************************************)
(* Proofs about ClientRegistry, for any number of clients, names, chains   *)
(* and devices, and with any loss and duplication.                         *)
(*                                                                         *)
(* RegistryInv follows one client from its first packet to its response;   *)
(* it carries what the datagrams under way say of the clients, but for the *)
(* responses to the process before, which say nothing.  LoadInv, RouteInv  *)
(* and ListInv order the replacements of my_address and devices.           *)
(***************************************************************************)
EXTENDS ClientRegistry, SequenceTheorems, TLAPS

(* What a client is, by its state and by the place of the tunnel thread.   *)
ClientInv ==
  \A c \in Clients :
    /\ state[c] = "UNUSED" =>
         /\ domain[c] = NoName /\ chains[c] = << >> /\ c \notin announced
         /\ c = tunClient => tunPc = "recv"
    /\ state[c] = "REGISTRED" =>
         /\ domain[c] # NoName
         /\ \/ \E b \in announced : domain[b] = domain[c]
            \/ ChainsSet(NoClient, domain[c]) \in Old
    /\ c \in announced => domain[c] # NoName /\ Len(chains[c]) = NumChains

TunnelInv ==
  /\ tunPc # "recv" => tunClient \notin announced
  /\ tunPc = "name" => domain[tunClient] = NoName /\ chains[tunClient] = << >>
  /\ tunPc \in {"entry", "hops", "seal", "send"} => domain[tunClient] # NoName
  /\ tunPc \in {"entry", "hops", "seal"} => Len(chains[tunClient]) < NumChains
  /\ tunPc = "send" => Len(chains[tunClient]) = NumChains

(* What a datagram under way proves.                                       *)
NetInv ==
  \A m \in net :
    /\ m.type \in {"setChainsRequest", "setChainsResponse"} =>
         (m.client \in announced /\ m.name = domain[m.client]) \/ m \in Old
    /\ m.type \in {"getDevicesRequest", "getDevicesResponse"} => myAddress # 0 \/ m \in Old

RegistryInv == ClientInv /\ TunnelInv /\ NetInv

(* The order of the loads: an address before any device list, a device     *)
(* list before any chain.                                                  *)
LoadInv ==
  /\ \A k \in DOMAIN devices : devices[k] = loads
  /\ devices # << >> => loads # 0
  /\ devPc = "fill" => loads # 0
  /\ devPc = "ask" => myAddress # 0
  /\ loads # 0 \/ devPc = "clear" => myAddress # 0 \/ inherited = TRUE
  /\ tunPc # "recv" => loads # 0
  /\ \A c \in Clients : chains[c] # << >> => loads # 0 /\ myAddress # 0

RouteInv ==
  /\ route # << >> =>
       route[1] \in 1 .. myAddress \/ (inherited = TRUE /\ route[1] = 0)
  /\ \A k \in DOMAIN route : k # 1 => route[k] \in 1 .. loads

(* The device list is complete but while it is replaced.                   *)
ListInv ==
  /\ devPc = "clear" => pending \in DeviceCounts
  /\ devPc = "fill" => Len(devices) + pending \in DeviceCounts
  /\ devPc \notin {"clear", "fill"} /\ loads # 0 => Len(devices) \in DeviceCounts

-----------------------------------------------------------------------------
(* Messages.                                                               *)

ChainsType == {"setChainsRequest", "setChainsResponse"}
ListType == {"getDevicesRequest", "getDevicesResponse"}

LEMMA MessageTypes ==
  /\ Hello \in Message /\ GetDevices \in Message
  /\ Hello.type \notin ChainsType \cup ListType
  /\ GetDevices.type \in ListType /\ GetDevices.type \notin ChainsType
  /\ \A s \in {OK, ERR} : /\ HelloResponse(s) \in Message
                          /\ HelloResponse(s).type \notin ChainsType \cup ListType
  /\ \A n \in DeviceCounts : /\ DeviceList(n) \in Message
                             /\ DeviceList(n).type \in ListType
                             /\ DeviceList(n).type \notin ChainsType
                             /\ DeviceList(n).count = n
<1> USE DEF Message, ChainsType, ListType
<1>1. Hello \in Message /\ Hello.type \notin ChainsType \cup ListType
  BY DEF Hello
<1>2. GetDevices \in Message /\ GetDevices.type \in ListType \ ChainsType
  BY DEF GetDevices
<1>3. ASSUME NEW s \in {OK, ERR}
      PROVE  /\ HelloResponse(s) \in Message
             /\ HelloResponse(s).type \notin ChainsType \cup ListType
  BY DEF HelloResponse, OldMessage
<1>4. ASSUME NEW n \in DeviceCounts
      PROVE  /\ DeviceList(n) \in Message
             /\ DeviceList(n).type \in ListType \ ChainsType
             /\ DeviceList(n).count = n
  <2>1. DeviceList(n) \in Message
    OBVIOUS
  <2>2. DeviceList(n).type = "getDevicesResponse" /\ DeviceList(n).count = n
    BY DEF DeviceList
  <2> QED BY <2>1, <2>2
<1> QED
  BY <1>1, <1>2, <1>3, <1>4

LEMMA ChainsMessages ==
  ASSUME NEW c \in Clients, NEW n \in Names
  PROVE  \A m \in {SetChains(c, n), ChainsSet(c, n)} :
           /\ m \in Message /\ m.type \in ChainsType /\ m.type \notin ListType
           /\ m.client = c /\ m.name = n
BY DEF Message, SetChains, ChainsSet, ChainsType, ListType

(* Responses to the process before: what they are not.                     *)
LEMMA OldOnes ==
  /\ Old \subseteq Message
  /\ \A m \in Old : m.type \in {"onDeviceConnectResponse", "getDevicesResponse",
                                 "setChainsResponse"}
  /\ \A n : DeviceList(n) \notin Old
  /\ \A b, n : ChainsSet(b, n) \in Old => b = NoClient /\ n \in Names
  /\ \A n : OldList(n).type = "getDevicesResponse" /\ OldList(n).old = TRUE
  /\ \A n \in DeviceCounts : OldList(n) \in Message
  /\ \A n : DeviceList(n).old = FALSE
<1>1. Old \subseteq OldMessage
  BY OldAssumption
<1>2. \A m \in OldMessage :
        \/ m.type = "onDeviceConnectResponse"
        \/ m.type = "getDevicesResponse" /\ m.old
        \/ m.type = "setChainsResponse" /\ m.client = NoClient /\ m.name \in Names
  BY DEF OldMessage, HelloResponse, OldList, ChainsSet
<1>3. /\ \A n : /\ DeviceList(n).type = "getDevicesResponse" /\ DeviceList(n).old = FALSE
               /\ OldList(n).type = "getDevicesResponse" /\ OldList(n).old = TRUE
      /\ \A b, n : /\ ChainsSet(b, n).type = "setChainsResponse"
                  /\ ChainsSet(b, n).client = b /\ ChainsSet(b, n).name = n
  BY DEF DeviceList, OldList, ChainsSet
<1>4. \A n \in DeviceCounts : OldList(n) \in Message
  BY DEF OldMessage, Message
<1>5. OldMessage \subseteq Message
  BY DEF Message
<1> QED BY <1>1, <1>2, <1>3, <1>4, <1>5

LEMMA OldUnanswered == \A m \in Old : Answers(m) = {}
<1> SUFFICES ASSUME NEW m \in Old PROVE Answers(m) = {}
  OBVIOUS
<1>1. m.type \in {"onDeviceConnectResponse", "getDevicesResponse", "setChainsResponse"}
  BY OldOnes
<1>2. m # Hello /\ m # GetDevices
  BY <1>1 DEF Hello, GetDevices
<1> QED BY <1>1, <1>2 DEF Answers

LEMMA AnswersAre ==
  ASSUME NEW m \in Message, NEW r \in Answers(m)
  PROVE  /\ r \in Message
         /\ r.type \in ChainsType =>
              m.type \in ChainsType /\ r.client = m.client /\ r.name = m.name
         /\ r.type \in ListType => m.type \in ListType
<1> USE DEF ChainsType, ListType
<1>1. CASE m = Hello
  <2>1. r \in {HelloResponse(s) : s \in {OK, ERR}}
    BY <1>1 DEF Answers, Hello, GetDevices
  <2> QED
    BY <2>1, MessageTypes
<1>2. CASE m = GetDevices
  <2>1. r \in {DeviceList(n) : n \in DeviceCounts}
    BY <1>2 DEF Answers, Hello, GetDevices
  <2> QED
    BY <1>2, <2>1, MessageTypes
<1>3. CASE m.type = "setChainsRequest"
  <2>1. PICK c \in Clients, n \in Names : m = SetChains(c, n)
    BY <1>3 DEF Message, OldMessage, Hello, GetDevices, HelloResponse, DeviceList, OldList,
                SetChains, ChainsSet
  <2>2. m # Hello /\ m # GetDevices
    BY <1>3 DEF Hello, GetDevices
  <2>3. r = ChainsSet(m.client, m.name)
    BY <1>3, <2>2 DEF Answers
  <2> QED
    BY <1>3, <2>1, <2>3, ChainsMessages
<1>4. CASE m # Hello /\ m # GetDevices /\ m.type # "setChainsRequest"
  BY <1>4 DEF Answers
<1> QED
  BY <1>1, <1>2, <1>3, <1>4

LEMMA ClientsAreNat == Clients \subseteq Nat /\ NoClient \notin Clients
BY DEF Clients, NoClient

-----------------------------------------------------------------------------
LEMMA TypeInit == Init => TypeOK
<1> SUFFICES ASSUME Init PROVE TypeOK
  OBVIOUS
<1>1. net \subseteq Message
  BY MessageTypes, OldOnes DEF Init
<1>2. << >> \in Seq(Nat) /\ << >> \in Seq(BOOLEAN)
  OBVIOUS
<1> QED
  BY <1>1, <1>2 DEF Init, TypeOK

LEMMA GoodIsBoolean == ASSUME NEW r PROVE Good(r) \in BOOLEAN
BY Zenon DEF Good, LiveAddress, LiveDevice

LEMMA SendTypes == ASSUME net \subseteq Message, NEW m \in Message, Send(m)
                   PROVE  net' \subseteq Message
BY DEF Send

LEMMA ReceiveTypes == ASSUME net \subseteq Message, NEW m, Receive(m)
                      PROVE  net' \subseteq Message /\ net' \subseteq net /\ m \in net
BY DEF Receive

LEMMA TypeStep == TypeOK /\ TunnelInv /\ [Next]_vars => TypeOK'
<1> SUFFICES ASSUME TypeOK, TunnelInv, [Next]_vars PROVE TypeOK'
  OBVIOUS
<1>0. NoClient \notin Clients
  BY ClientsAreNat
<1> USE DEF TypeOK
<1>2. ASSUME NEW c \in Clients, TunAllocate(c) PROVE TypeOK'
  BY <1>2 DEF TunAllocate, Allocatable, devVars
<1>3. ASSUME NEW n \in Names, TunName(n) PROVE TypeOK'
  BY <1>3 DEF TunName, devVars
<1>4. CASE TunEntry
  BY <1>4 DEF TunEntry, clientVars, devVars
<1>5. CASE TunHop
  <2>1. PICK k \in 1 .. Len(devices) - 1 : route' = Append(route, devices[k])
    BY <1>5 DEF TunHop
  <2>2. devices[k] \in Nat
    BY <2>1
  <2>3. route' \in Seq(Nat) /\ Len(route') = Len(route) + 1
    BY <2>1, <2>2
  <2>4. /\ Len(route) \in {1, 2}
        /\ tunPc' = IF Len(route') = 3 THEN "seal" ELSE "hops"
    BY <1>5 DEF TunHop, Complete
  <2>5. /\ tunPc' = "hops" => Len(route') \in {1, 2}
        /\ tunPc' = "seal" => Len(route') = 3
        /\ tunPc' \in {"hops", "seal"}
    <3>1. CASE Len(route) = 1
      BY <2>3, <2>4, <3>1
    <3>2. CASE Len(route) = 2
      BY <2>3, <2>4, <3>2
    <3> QED
      BY <2>4, <3>1, <3>2
  <2>6. tunClient' \in Clients
    BY <1>5 DEF TunHop
  <2> HIDE <2>1
  <2> QED
    BY <1>5, <2>3, <2>5, <2>6 DEF TunHop, clientVars, devVars
<1>6. CASE TunHopFails
  BY <1>6 DEF TunHopFails, clientVars, tunVars, devVars
<1>7. CASE TunSeal
  <2>1. Append(chains[tunClient], Good(route)) \in Seq(BOOLEAN)
    BY <1>7, GoodIsBoolean DEF TunSeal
  <2>2. chains' \in [Clients -> Seq(BOOLEAN)] /\ route' = << >> /\ tunPc' \in {"send", "entry"}
    BY <1>7, <2>1 DEF TunSeal
  <2> QED
    BY <1>7, <2>2 DEF TunSeal, devVars
<1>8. CASE TunSealFails
  BY <1>8 DEF TunSealFails, clientVars, tunVars, devVars
<1>9. CASE TunAnnounce
  <2>1. tunClient \in Clients /\ domain[tunClient] \in Names
    BY <1>9 DEF TunAnnounce, TunnelInv
  <2>2. net' \subseteq Message
    BY <1>9, <2>1, SendTypes, ChainsMessages DEF TunAnnounce
  <2> QED
    BY <1>9, <2>1, <2>2 DEF TunAnnounce, clientVars, devVars
<1>10. CASE DevRefused
  <2>1. net' \subseteq Message
    BY <1>10, ReceiveTypes DEF DevRefused
  <2> QED
    BY <1>10, <2>1 DEF DevRefused, clientVars, tunVars, devVars
<1>11. CASE DevConnected
  <2>1. net' \subseteq Message
    BY <1>11, ReceiveTypes DEF DevConnected
  <2> QED
    BY <1>11, <2>1 DEF DevConnected, clientVars, tunVars
<1>12. CASE DevAssign
  BY <1>12 DEF DevAssign, clientVars, tunVars
<1>13. CASE DevAsk
  <2>1. net' \subseteq Message
    BY <1>13, SendTypes, MessageTypes DEF DevAsk
  <2> QED
    BY <1>13, <2>1 DEF DevAsk, clientVars, tunVars
<1>14. ASSUME NEW n \in DeviceCounts, DevList(n) PROVE TypeOK'
  <2>1. n \in Nat
    BY NetworkAssumption
  <2>2. PICK m \in {DeviceList(n), OldList(n)} :
          Receive(m) /\ inherited' = (inherited \/ m.old)
    BY <1>14 DEF DevList
  <2>3. net' \subseteq Message
    BY <2>2, ReceiveTypes
  <2>4. m.old \in BOOLEAN
    BY OldOnes
  <2>5. inherited' \in BOOLEAN
    BY <2>2, <2>4
  <2> QED
    BY <1>14, <2>1, <2>3, <2>5 DEF DevList, clientVars, tunVars
<1>15. CASE DevClear
  BY <1>15 DEF DevClear, clientVars, tunVars
<1>16. CASE DevFill
  BY <1>16 DEF DevFill, Copy, clientVars, tunVars
<1>17. CASE DevFilled
  BY <1>17 DEF DevFilled, clientVars, tunVars
<1>18. ASSUME NEW b \in Clients \cup {NoClient}, NEW n \in Names, DevRegister(b, n)
       PROVE TypeOK'
  <2>1. net' \subseteq Message
    BY <1>18, ReceiveTypes DEF DevRegister
  <2> QED
    BY <1>18, <2>1 DEF DevRegister, tunVars, devVars
<1>19. ASSUME NEW m \in net, ServerReply(m) PROVE TypeOK'
  <2>1. PICK r \in Answers(m) : net' = (net \ {m}) \cup {r}
    BY <1>19 DEF ServerReply
  <2>2. net' \subseteq Message
    BY <2>1, AnswersAre
  <2> QED
    BY <1>19, <2>2 DEF ServerReply, clientVars, tunVars, devVars
<1>20. CASE UNCHANGED vars
  BY <1>20 DEF vars, clientVars, tunVars, devVars
<1> QED
  BY <1>2, <1>3, <1>4, <1>5, <1>6, <1>7, <1>8, <1>9, <1>10, <1>11, <1>12, <1>13,
     <1>14, <1>15, <1>16, <1>17, <1>18, <1>19, <1>20 DEF Next, Tunnel, Device

-----------------------------------------------------------------------------
(* Registration.                                                           *)

LEMMA RegistryInit == Init => RegistryInv
<1> SUFFICES ASSUME Init PROVE RegistryInv
  OBVIOUS
<1>1. \A m \in net : m \in Old \/ m.type \notin ChainsType \cup ListType
  BY MessageTypes DEF Init
<1> QED
  BY <1>1 DEF Init, RegistryInv, ClientInv, TunnelInv, NetInv, ChainsType, ListType

(* Steps that touch no client leave what is known of the clients alone.    *)
LEMMA ClientFrame ==
  ASSUME ClientInv, TunnelInv,
         UNCHANGED <<state, domain, chains, tunPc, tunClient, announced>>
  PROVE  ClientInv' /\ TunnelInv'
BY DEF ClientInv, TunnelInv

LEMMA NetFrame ==
  ASSUME NetInv, UNCHANGED domain, announced \subseteq announced',
         myAddress # 0 => myAddress' # 0,
         \A m \in net' : \/ m \in net
                       \/ /\ m.type \in ChainsType => m.client \in announced' /\ m.name = domain[m.client]
                          /\ m.type \in ListType => myAddress' # 0
  PROVE  NetInv'
<1> SUFFICES ASSUME NEW m \in net'
             PROVE /\ m.type \in {"setChainsRequest", "setChainsResponse"} =>
                        (m.client \in announced' /\ m.name = domain'[m.client]) \/ m \in Old
                   /\ m.type \in {"getDevicesRequest", "getDevicesResponse"} =>
                        myAddress' # 0 \/ m \in Old
  BY DEF NetInv
<1>1. CASE m \in net
  BY <1>1 DEF NetInv
<1>2. CASE m \notin net
  BY <1>2 DEF ChainsType, ListType
<1> QED
  BY <1>1, <1>2

LEMMA RegistryStep ==
  TypeOK /\ RegistryInv /\ (devPc = "ask" => myAddress # 0) /\ [Next]_vars => RegistryInv'
<1> SUFFICES ASSUME TypeOK, ClientInv, TunnelInv, NetInv, devPc = "ask" => myAddress # 0,
                    [Next]_vars
             PROVE ClientInv' /\ TunnelInv' /\ NetInv'
  BY DEF RegistryInv
<1>0. NoClient \notin Clients /\ NumChains \in Nat /\ NumChains # 0 /\ NoName \notin Names
  BY ClientsAreNat, ClientAssumption, NameAssumption
<1>a. /\ state \in [Clients -> {"UNUSED", "WAIT_RESPONSE", "REGISTRED"}]
      /\ domain \in [Clients -> Names \cup {NoName}]
      /\ chains \in [Clients -> Seq(BOOLEAN)]
      /\ tunPc # "recv" => tunClient \in Clients
      /\ net \subseteq Message /\ announced \subseteq Clients /\ myAddress \in Nat
  BY DEF TypeOK
<1>2. ASSUME NEW c \in Clients, TunAllocate(c) PROVE ClientInv' /\ TunnelInv' /\ NetInv'
  <2>1. c \notin announced /\ domain[c] = NoName /\ chains[c] = << >>
    BY <1>2 DEF TunAllocate, Allocatable, ClientInv
  <2>2. ClientInv'
    BY <1>2, <1>a, <2>1 DEF TunAllocate, Allocatable, ClientInv
  <2>3. TunnelInv'
    BY <1>2, <2>1 DEF TunAllocate, Allocatable, TunnelInv
  <2>4. NetInv'
    BY <1>2, NetFrame DEF TunAllocate, Allocatable, devVars
  <2> QED
    BY <2>2, <2>3, <2>4
<1>3. ASSUME NEW n \in Names, TunName(n) PROVE ClientInv' /\ TunnelInv' /\ NetInv'
  <2>1. /\ tunClient \in Clients /\ tunClient \notin announced /\ domain[tunClient] = NoName
        /\ chains[tunClient] = << >> /\ domain' = [domain EXCEPT ![tunClient] = n]
    BY <1>3, <1>a DEF TunName, TunnelInv
  <2>2. /\ state[tunClient] # "UNUSED" /\ state[tunClient] # "REGISTRED"
        /\ \A c \in announced : domain'[c] = domain[c]
    BY <1>3, <1>a, <2>1 DEF TunName, ClientInv
  <2>3. UNCHANGED <<state, chains, tunClient, announced, net, myAddress>>
    BY <1>3 DEF TunName, devVars
  <2>4. ClientInv'
    <3> SUFFICES ASSUME NEW c \in Clients
                 PROVE /\ state[c] = "UNUSED" =>
                            /\ domain'[c] = NoName /\ chains[c] = << >> /\ c \notin announced
                            /\ c = tunClient => tunPc' = "recv"
                       /\ state[c] = "REGISTRED" =>
                            /\ domain'[c] # NoName
                            /\ \/ \E b \in announced : domain'[b] = domain'[c]
                               \/ ChainsSet(NoClient, domain'[c]) \in Old
                       /\ c \in announced => domain'[c] # NoName /\ Len(chains[c]) = NumChains
      BY <2>3 DEF ClientInv
    <3>1. CASE c = tunClient
      BY <2>1, <2>2, <3>1
    <3>2. CASE c # tunClient
      <4>1. domain'[c] = domain[c]
        BY <2>1, <1>a, <3>2
      <4> QED
        BY <2>2, <3>2, <4>1 DEF ClientInv
    <3> QED
      BY <3>1, <3>2
  <2>5. TunnelInv'
    <3>1. tunPc' = "entry" /\ domain'[tunClient] # NoName /\ Len(chains[tunClient]) = 0
      BY <1>0, <1>3, <1>a, <2>1 DEF TunName
    <3> QED
      BY <1>0, <2>1, <2>3, <3>1 DEF TunnelInv
  <2>6. NetInv'
    BY <2>2, <2>3 DEF NetInv
  <2> QED
    BY <2>4, <2>5, <2>6
<1>4. ASSUME TunEntry \/ TunHop \/ TunHopFails \/ TunSealFails
      PROVE ClientInv' /\ TunnelInv' /\ NetInv'
  <2>1. /\ UNCHANGED <<state, domain, chains, tunClient, announced, net, myAddress>>
        /\ tunPc' = tunPc \/ {tunPc, tunPc'} \subseteq {"entry", "hops", "seal"}
    BY <1>4 DEF TunEntry, TunHop, TunHopFails, TunSealFails, clientVars, tunVars, devVars
  <2>2. ClientInv' /\ TunnelInv'
    BY <2>1 DEF ClientInv, TunnelInv
  <2>3. NetInv'
    BY <2>1 DEF NetInv
  <2> QED
    BY <2>2, <2>3
<1>5. CASE TunSeal
  <2>1. /\ tunClient \in Clients /\ tunClient \notin announced
        /\ domain[tunClient] # NoName /\ Len(chains[tunClient]) < NumChains
        /\ chains' = [chains EXCEPT ![tunClient] = Append(@, Good(route))]
        /\ tunPc' = IF Len(chains'[tunClient]) = NumChains THEN "send" ELSE "entry"
        /\ UNCHANGED <<state, domain, tunClient, announced, net, myAddress>>
    BY <1>5, <1>a DEF TunSeal, AllBuilt, TunnelInv, devVars
  <2>2. chains'[tunClient] = Append(chains[tunClient], Good(route))
    BY <2>1, <1>a
  <2>3. Len(chains'[tunClient]) = Len(chains[tunClient]) + 1 /\ Len(chains[tunClient]) \in Nat
    <3>1. chains[tunClient] \in Seq(BOOLEAN) /\ Good(route) \in BOOLEAN
      BY <2>1, <1>a, GoodIsBoolean
    <3> QED
      BY <2>2, <3>1, AppendProperties, LenProperties
  <2>4. \A c \in Clients \ {tunClient} : chains'[c] = chains[c]
    BY <2>1, <1>a
  <2>5. state[tunClient] # "UNUSED"
    BY <1>5, <2>1 DEF TunSeal, ClientInv
  <2>6. ClientInv'
    BY <2>1, <2>4, <2>5 DEF ClientInv
  <2>7. TunnelInv'
    BY <1>0, <2>1, <2>3 DEF TunnelInv
  <2>8. NetInv'
    BY <2>1 DEF NetInv
  <2> QED
    BY <2>6, <2>7, <2>8
<1>6. CASE TunAnnounce
  <2>1. /\ tunClient \in Clients /\ domain[tunClient] # NoName
        /\ Len(chains[tunClient]) = NumChains /\ announced' = announced \cup {tunClient}
        /\ tunPc' = "recv" /\ UNCHANGED <<state, domain, chains, myAddress>>
    BY <1>6, <1>a DEF TunAnnounce, TunnelInv, clientVars, devVars
  <2>2. state[tunClient] # "UNUSED"
    BY <1>6, <2>1 DEF TunAnnounce, ClientInv
  <2>3. ClientInv'
    BY <2>1, <2>2 DEF ClientInv
  <2>4. TunnelInv'
    BY <2>1 DEF TunnelInv
  <2>5. NetInv'
    <3>1. domain[tunClient] \in Names
      BY <2>1, <1>a
    <3>2. \A m \in net' : m \in net \/ m = SetChains(tunClient, domain[tunClient])
      BY <1>6 DEF TunAnnounce, Send
    <3> QED
      BY <2>1, <3>1, <3>2, ChainsMessages, NetFrame
  <2> QED
    BY <2>3, <2>4, <2>5
<1>7. ASSUME \/ DevRefused \/ DevConnected \/ DevAssign \/ DevAsk \/ DevClear
             \/ DevFill \/ DevFilled \/ \E n \in DeviceCounts : DevList(n)
      PROVE ClientInv' /\ TunnelInv' /\ NetInv'
  <2>1. UNCHANGED <<state, domain, chains, tunPc, tunClient, announced>>
    BY <1>7 DEF DevRefused, DevConnected, DevAssign, DevAsk, DevClear, DevFill, DevFilled,
                DevList, clientVars, tunVars
  <2>2. ClientInv' /\ TunnelInv'
    BY <2>1, ClientFrame
  <2>3. CASE DevAsk
    <3>1. myAddress # 0 /\ UNCHANGED myAddress /\ \A m \in net' : m \in net \/ m = GetDevices
      BY <2>3 DEF DevAsk, Send
    <3> QED
      BY <2>1, <2>2, <3>1, MessageTypes, NetFrame
  <2>4. CASE ~DevAsk
    <3>1. net' \subseteq net /\ (myAddress # 0 => myAddress' # 0)
      BY <1>7, <1>a, <2>4 DEF DevRefused, DevConnected, DevAssign, DevClear, DevFill, DevFilled,
                         DevList, Receive, devVars
    <3> QED
      BY <2>1, <2>2, <3>1, NetFrame
  <2> QED
    BY <2>3, <2>4
<1>8. ASSUME NEW b \in Clients \cup {NoClient}, NEW n \in Names, DevRegister(b, n)
      PROVE ClientInv' /\ TunnelInv' /\ NetInv'
  <2>1. /\ ChainsSet(b, n) \in net /\ net' \subseteq net
        /\ state' = [c \in Clients |-> IF FirstNamed(c, n) THEN "REGISTRED" ELSE state[c]]
        /\ UNCHANGED <<domain, chains, tunPc, tunClient, announced, myAddress>>
    BY <1>8 DEF DevRegister, Receive, tunVars, devVars
  <2>2. (b \in announced /\ domain[b] = n) \/ ChainsSet(NoClient, n) \in Old
    <3>1. /\ ChainsSet(b, n).type = "setChainsResponse"
          /\ ChainsSet(b, n).client = b /\ ChainsSet(b, n).name = n
      BY DEF ChainsSet
    <3> QED BY <2>1, <3>1, OldOnes DEF NetInv
  <2>3. ClientInv'
    <3> SUFFICES ASSUME NEW c \in Clients
                 PROVE /\ state'[c] = "UNUSED" =>
                            /\ domain[c] = NoName /\ chains[c] = << >> /\ c \notin announced
                            /\ c = tunClient => tunPc = "recv"
                       /\ state'[c] = "REGISTRED" =>
                            /\ domain[c] # NoName
                            /\ \/ \E a \in announced : domain[a] = domain[c]
                               \/ ChainsSet(NoClient, domain[c]) \in Old
                       /\ c \in announced => domain[c] # NoName /\ Len(chains[c]) = NumChains
      BY <2>1 DEF ClientInv
    <3>1. CASE FirstNamed(c, n)
      <4>1. state'[c] = "REGISTRED" /\ domain[c] = n
        BY <2>1, <3>1 DEF FirstNamed
      <4> QED
        BY <1>0, <2>2, <4>1 DEF ClientInv
    <3>2. CASE ~FirstNamed(c, n)
      <4>1. state'[c] = state[c]
        BY <2>1, <3>2
      <4> QED
        BY <4>1 DEF ClientInv
    <3> QED
      BY <3>1, <3>2
  <2>4. TunnelInv'
    BY <2>1 DEF TunnelInv
  <2>5. NetInv'
    BY <2>1, NetFrame
  <2> QED
    BY <2>3, <2>4, <2>5
<1>9. ASSUME NEW m \in net, ServerReply(m) PROVE ClientInv' /\ TunnelInv' /\ NetInv'
  <2>1. PICK r \in Answers(m) : net' = (net \ {m}) \cup {r}
    BY <1>9 DEF ServerReply
  <2>2. UNCHANGED <<state, domain, chains, tunPc, tunClient, announced, myAddress>>
    BY <1>9 DEF ServerReply, clientVars, tunVars, devVars
  <2>3. /\ r.type \in ChainsType =>
             m.type \in ChainsType /\ r.client = m.client /\ r.name = m.name
        /\ r.type \in ListType => m.type \in ListType
    BY <1>a, AnswersAre
  <2>4. /\ r.type \in ChainsType => r.client \in announced /\ r.name = domain[r.client]
        /\ r.type \in ListType => myAddress # 0
    <3>1. m \notin Old
      BY <2>1, OldUnanswered
    <3> QED BY <2>3, <3>1 DEF NetInv, ChainsType, ListType
  <2>5. \A d \in net' : d \in net \/ d = r
    BY <2>1
  <2>6. NetInv'
    BY <2>2, <2>4, <2>5, NetFrame
  <2> QED
    BY <2>2, <2>6, ClientFrame
<1>10. CASE UNCHANGED vars
  BY <1>10, ClientFrame, NetFrame DEF vars, clientVars, tunVars, devVars
<1> QED
  BY <1>2, <1>3, <1>4, <1>5, <1>6, <1>7, <1>8, <1>9, <1>10 DEF Next, Tunnel, Device

-----------------------------------------------------------------------------
(* The order of the loads.                                                 *)

LEMMA LoadInit == Init => LoadInv /\ RouteInv /\ ListInv
BY DEF Init, LoadInv, RouteInv, ListInv

LEMMA LoadStep == TypeOK /\ RegistryInv /\ LoadInv /\ RouteInv /\ [Next]_vars => LoadInv'
<1> SUFFICES ASSUME TypeOK, NetInv, LoadInv, RouteInv, [Next]_vars PROVE LoadInv'
  BY DEF RegistryInv
<1>a. /\ chains \in [Clients -> Seq(BOOLEAN)] /\ devices \in Seq(Nat)
      /\ myAddress \in Nat /\ loads \in Nat /\ pending \in Nat /\ net \subseteq Message
      /\ tunPc # "recv" => tunClient \in Clients
  BY DEF TypeOK
<1>1. ASSUME UNCHANGED <<devices, loads, myAddress, devPc, inherited, chains>>,
             tunPc' = "recv" \/ tunPc # "recv" \/ devices # << >>
      PROVE LoadInv'
  BY <1>1 DEF LoadInv
<1>2. ASSUME TunSeal PROVE LoadInv'
  <2>1. /\ UNCHANGED <<devices, loads, myAddress, devPc, inherited>> /\ loads # 0
    BY <1>2 DEF TunSeal, LoadInv, devVars
  <2>2. route # << >> /\ route[1] # 0
    <3>1. Len(route) = 3 /\ route[1] # 0
      BY <1>2 DEF TunSeal, TypeOK
    <3> QED BY <3>1
  <2>3. myAddress # 0
    BY <1>a, <2>2 DEF RouteInv
  <2> QED
    BY <2>1, <2>3 DEF LoadInv
<1>3. ASSUME UNCHANGED <<chains, tunPc, devices, loads>>,
             myAddress' # 0 \/ (inherited' = TRUE /\ UNCHANGED myAddress),
             devPc' \notin {"ask", "fill"} \/ (devPc' = "ask" /\ myAddress' # 0)
      PROVE LoadInv'
  <2>1. myAddress # 0 => myAddress' # 0
    BY <1>3
  <2>2. loads' # 0 \/ devPc' = "clear" => myAddress' # 0 \/ inherited' = TRUE
    BY <1>3
  <2>3. /\ \A k \in DOMAIN devices' : devices'[k] = loads'
        /\ devices' # << >> => loads' # 0
        /\ devPc' = "fill" => loads' # 0
        /\ devPc' = "ask" => myAddress' # 0
        /\ tunPc' # "recv" => loads' # 0
    BY <1>3 DEF LoadInv
  <2>4. \A c \in Clients : chains'[c] # << >> => loads' # 0 /\ myAddress' # 0
    BY <1>3, <2>1 DEF LoadInv
  <2> QED
    BY <2>2, <2>3, <2>4, Zenon DEF LoadInv
<1>4. CASE DevAssign
  <2>1. /\ UNCHANGED <<chains, tunPc, devices, loads>>
        /\ myAddress' # 0 /\ devPc' = "ask"
    BY <1>4, <1>a DEF DevAssign, clientVars, tunVars
  <2> QED
    BY <1>3, <2>1
<1>5. ASSUME NEW n \in DeviceCounts, DevList(n) PROVE LoadInv'
  <2>1. /\ UNCHANGED <<chains, tunPc, devices, loads, myAddress>> /\ devPc' = "clear"
    BY <1>5 DEF DevList, clientVars, tunVars
  <2>2. myAddress # 0 \/ inherited' = TRUE
    <3>1. PICK m \in {DeviceList(n), OldList(n)} :
            Receive(m) /\ inherited' = (inherited \/ m.old)
      BY <1>5 DEF DevList
    <3>2. CASE m = DeviceList(n)
      BY <3>1, <3>2, MessageTypes, OldOnes DEF NetInv, ListType, Receive
    <3>3. CASE m = OldList(n)
      <4>1. m.old = TRUE
        BY <3>3, OldOnes
      <4> QED BY <3>1, <4>1, Zenon
    <3> QED BY <3>1, <3>2, <3>3
  <2> QED
    BY <1>3, <2>1, <2>2
<1>6. CASE DevClear
  <2>1. (myAddress # 0 \/ inherited = TRUE) /\ UNCHANGED inherited /\ loads + 1 # 0
    BY <1>6, <1>a DEF DevClear, LoadInv
  <2> QED
    BY <1>6, <2>1 DEF DevClear, LoadInv, clientVars, tunVars
<1>7. CASE DevFill
  <2>1. /\ loads # 0 /\ devices' = Append(devices, loads)
        /\ UNCHANGED <<chains, tunPc, loads, myAddress, devPc, inherited>>
    BY <1>7 DEF DevFill, Copy, LoadInv, clientVars, tunVars
  <2>2. \A k \in DOMAIN devices' : devices'[k] = loads
    BY <1>a, <2>1 DEF LoadInv
  <2> QED
    BY <2>1, <2>2 DEF LoadInv
<1>8. ASSUME UNCHANGED <<chains, tunPc, devices, loads, myAddress, inherited>>, devPc' \in {"recv", "assign"}
      PROVE LoadInv'
  BY <1>8 DEF LoadInv
<1>9. CASE Tunnel
  <2>1. \/ UNCHANGED <<devices, loads, myAddress, devPc, inherited, chains>> /\
           (tunPc' = "recv" \/ tunPc # "recv" \/ devices # << >>)
        \/ TunSeal
    BY <1>9 DEF Tunnel, TunAllocate, Allocatable, TunName, TunEntry, TunHop, TunHopFails,
                TunSealFails, TunAnnounce, clientVars, tunVars, devVars
  <2> QED
    BY <1>1, <1>2, <2>1
<1>10. CASE Device
  <2>1. ASSUME DevRefused \/ DevConnected \/ DevAsk \/ DevFilled PROVE LoadInv'
    BY <1>8, <2>1 DEF DevRefused, DevConnected, DevAsk, DevFilled, clientVars, tunVars, devVars
  <2>2. ASSUME NEW b \in Clients \cup {NoClient}, NEW n \in Names, DevRegister(b, n) PROVE LoadInv'
    BY <1>8, <2>2 DEF DevRegister, tunVars, devVars
  <2> QED
    BY <1>4, <1>5, <1>6, <1>7, <1>10, <2>1, <2>2 DEF Device
<1>11. ASSUME NEW m \in net, ServerReply(m) PROVE LoadInv'
  BY <1>11 DEF ServerReply, LoadInv, clientVars, tunVars, devVars
<1>12. CASE UNCHANGED vars
  BY <1>12 DEF LoadInv, vars, clientVars, tunVars, devVars
<1> QED
  BY <1>9, <1>10, <1>11, <1>12 DEF Next

LEMMA RouteStep == TypeOK /\ LoadInv /\ RouteInv /\ [Next]_vars => RouteInv'
<1> SUFFICES ASSUME TypeOK, LoadInv, RouteInv, [Next]_vars PROVE RouteInv'
  OBVIOUS
<1>a. /\ devices \in Seq(Nat) /\ route \in Seq(Nat) /\ myAddress \in Nat /\ loads \in Nat
      /\ tunPc = "hops" => Len(route) \in {1, 2}
  BY DEF TypeOK
<1>1. CASE TunEntry
  <2>1. myAddress # 0 \/ inherited = TRUE
    BY <1>1 DEF TunEntry, LoadInv
  <2>2. route' = <<myAddress>> /\ UNCHANGED <<myAddress, loads, inherited>>
    BY <1>1 DEF TunEntry, devVars
  <2>3. route'[1] = myAddress /\ \A k \in DOMAIN route' : k = 1
    BY <2>2
  <2>4. route'[1] \in 1 .. myAddress' \/ (inherited' = TRUE /\ route'[1] = 0)
    <3>1. CASE myAddress # 0
      BY <1>a, <2>2, <2>3, <3>1
    <3>2. CASE myAddress = 0
      BY <2>1, <2>2, <2>3, <3>2
    <3> QED BY <3>1, <3>2
  <2> QED
    BY <2>3, <2>4 DEF RouteInv
<1>2. CASE TunHop
  <2>1. PICK k \in 1 .. Len(devices) - 1 : route' = Append(route, devices[k])
    BY <1>2 DEF TunHop
  <2>2. devices[k] = loads /\ loads # 0
    BY <1>a, <2>1 DEF LoadInv
  <2>3. UNCHANGED <<myAddress, loads, inherited>> /\ Len(route) \in Nat /\ Len(route) # 0
    BY <1>2, <1>a DEF TunHop, devVars
  <2>4. /\ route'[1] = route[1] /\ DOMAIN route' = 1 .. Len(route) + 1
        /\ \A j \in 1 .. Len(route) : route'[j] = route[j]
        /\ route'[Len(route) + 1] = loads
    BY <1>a, <2>1, <2>2, <2>3
  <2>5. route # << >> /\ DOMAIN route = 1 .. Len(route)
    BY <1>a, <2>3
  <2>6. route'[1] \in 1 .. myAddress \/ (inherited = TRUE /\ route'[1] = 0)
    BY <2>4, <2>5 DEF RouteInv
  <2>7. ASSUME NEW j \in 1 .. Len(route) + 1, j # 1 PROVE route'[j] \in 1 .. loads
    <3>1. CASE j \in 1 .. Len(route)
      BY <2>4, <2>5, <2>7, <3>1 DEF RouteInv
    <3>2. CASE j = Len(route) + 1
      BY <1>a, <2>2, <2>4, <3>2
    <3> QED
      BY <2>3, <3>1, <3>2
  <2> QED
    BY <2>3, <2>4, <2>6, <2>7 DEF RouteInv
<1>3. CASE TunSeal
  BY <1>3 DEF TunSeal, RouteInv
<1>4. ASSUME UNCHANGED route, myAddress' \in {myAddress, myAddress + 1}, loads' \in {loads, loads + 1},
             inherited = TRUE => inherited' = TRUE
      PROVE RouteInv'
  <2>1. 1 .. myAddress \subseteq 1 .. myAddress' /\ 1 .. loads \subseteq 1 .. loads'
    BY <1>4, <1>a
  <2> QED
    BY <1>4, <2>1 DEF RouteInv
<1>5. CASE Tunnel
  BY <1>1, <1>2, <1>3, <1>4, <1>5
     DEF Tunnel, TunAllocate, Allocatable, TunName, TunHopFails, TunSealFails, TunAnnounce,
         tunVars, devVars
<1>6. CASE Device
  BY <1>4, <1>6 DEF Device, DevRefused, DevConnected, DevAssign, DevAsk, DevList, DevClear,
                    DevFill, DevFilled, DevRegister, tunVars, devVars
<1>7. ASSUME NEW m \in net, ServerReply(m) PROVE RouteInv'
  BY <1>4, <1>7 DEF ServerReply, tunVars, devVars
<1>8. CASE UNCHANGED vars
  BY <1>4, <1>8 DEF vars, tunVars, devVars
<1> QED
  BY <1>5, <1>6, <1>7, <1>8 DEF Next

LEMMA ListStep == TypeOK /\ LoadInv /\ ListInv /\ [Next]_vars => ListInv'
<1> SUFFICES ASSUME TypeOK, LoadInv, ListInv, [Next]_vars PROVE ListInv'
  OBVIOUS
<1>a. devices \in Seq(Nat) /\ loads \in Nat /\ pending \in Nat
  BY DEF TypeOK
<1>1. ASSUME NEW n \in DeviceCounts, DevList(n) PROVE ListInv'
  BY <1>1 DEF DevList, ListInv
<1>2. CASE DevClear
  <2>1. pending \in DeviceCounts /\ devices' = << >> /\ devPc' = "fill" /\ pending' = pending
    BY <1>2 DEF DevClear, ListInv
  <2>2. Len(devices') + pending' = pending
    BY <1>a, <2>1
  <2> QED
    BY <2>1, <2>2 DEF ListInv
<1>3. CASE DevFill
  <2>1. /\ devPc = "fill" /\ devPc' = "fill" /\ pending > 0 /\ pending' = pending - 1
        /\ devices' = Append(devices, loads) /\ Len(devices) + pending \in DeviceCounts
    BY <1>3 DEF DevFill, Copy, ListInv
  <2>2. Len(devices') = Len(devices) + 1 /\ Len(devices) \in Nat
    BY <1>a, <2>1
  <2>3. Len(devices') + pending' = Len(devices) + pending
    BY <1>a, <2>1, <2>2
  <2> QED
    BY <2>1, <2>3 DEF ListInv
<1>4. CASE DevFilled
  <2>1. Len(devices) + 0 \in DeviceCounts /\ UNCHANGED devices /\ devPc' = "recv"
    BY <1>4 DEF DevFilled, ListInv
  <2> QED
    BY <1>a, <2>1 DEF ListInv
<1>5. ASSUME UNCHANGED <<devices, pending, loads>>,
             devPc' = devPc \/ {devPc, devPc'} \cap {"clear", "fill"} = {}
      PROVE ListInv'
  BY <1>5 DEF ListInv
<1>6. CASE Tunnel
  BY <1>5, <1>6 DEF Tunnel, TunAllocate, Allocatable, TunName, TunEntry, TunHop, TunHopFails,
                    TunSeal, TunSealFails, TunAnnounce, devVars
<1>7. CASE Device
  <2>1. CASE DevRefused \/ DevConnected \/ DevAssign \/ DevAsk
    BY <1>5, <2>1 DEF DevRefused, DevConnected, DevAssign, DevAsk, devVars
  <2>2. ASSUME NEW b \in Clients \cup {NoClient}, NEW n \in Names, DevRegister(b, n) PROVE ListInv'
    BY <1>5, <2>2 DEF DevRegister, devVars
  <2> QED
    BY <1>1, <1>2, <1>3, <1>4, <1>7, <2>1, <2>2 DEF Device
<1>8. ASSUME NEW m \in net, ServerReply(m) PROVE ListInv'
  BY <1>5, <1>8 DEF ServerReply, devVars
<1>9. CASE UNCHANGED vars
  BY <1>5, <1>9 DEF vars, devVars
<1> QED
  BY <1>6, <1>7, <1>8, <1>9 DEF Next

-----------------------------------------------------------------------------
(* The invariant and what it says.                                         *)

Inv == TypeOK /\ RegistryInv /\ LoadInv /\ RouteInv /\ ListInv

LEMMA InvHolds == Spec => []Inv
<1>1. Init => Inv
  BY TypeInit, RegistryInit, LoadInit DEF Inv
<1>2. Inv /\ [Next]_vars => Inv'
  <2> SUFFICES ASSUME Inv, [Next]_vars PROVE Inv'
    OBVIOUS
  <2>1. devPc = "ask" => myAddress # 0
    BY DEF Inv, LoadInv
  <2> QED
    BY <2>1, TypeStep, RegistryStep, LoadStep, RouteStep, ListStep DEF Inv, RegistryInv
<1> QED
  BY <1>1, <1>2, PTL DEF Spec

(* The two threads keep every object in its type; in particular the        *)
(* tunnel thread always knows the client it is allocating.                 *)
THEOREM TypeCorrect == Spec => []TypeOK
<1>1. Inv => TypeOK
  BY DEF Inv
<1> QED
  BY <1>1, InvHolds, PTL

(* No chain is built before my_address is set, although only devices is    *)
(* checked for it (getClientInfoById()).                                   *)
THEOREM EntryKnownCorrect == Spec => []EntryKnown
<1>1. Inv => EntryKnown
  BY DEF Inv, TypeOK, LoadInv, RouteInv, EntryKnown
<1> QED
  BY <1>1, InvHolds, PTL

(* A client becomes REGISTRED under a domain that was announced            *)
(* (the setChainsResponse branch of receiver()).                           *)
THEOREM RegisteredWasAnnouncedCorrect == Spec => []RegisteredWasAnnounced
<1>1. Inv => RegisteredWasAnnounced
  BY DEF Inv, RegistryInv, ClientInv, RegisteredWasAnnounced
<1> QED
  BY <1>1, InvHolds, PTL

(* What was announced is what the client keeps, in full, however late the  *)
(* announcement or its response is (getClientInfoById()).                  *)
THEOREM AnnouncedInFullCorrect == Spec => []AnnouncedInFull
<1>1. Inv => AnnouncedInFull
  <2> SUFFICES ASSUME Inv, NEW m \in net \ Old,
                      m.type \in {"setChainsRequest", "setChainsResponse"}
               PROVE /\ m.client \in announced /\ m.name = domain[m.client]
                     /\ Len(chains[m.client]) = NumChains
    BY DEF AnnouncedInFull
  <2>1. m.client \in announced /\ m.name = domain[m.client]
    BY DEF Inv, RegistryInv, NetInv
  <2> QED
    BY <2>1 DEF Inv, TypeOK, RegistryInv, ClientInv
<1> QED
  BY <1>1, InvHolds, PTL

(* Clients are named once, complete once announced, and stay registered    *)
(* (ClientObject in getClientInfoById() and receiver()).                   *)
THEOREM ClientsMoveForwardCorrect == Spec => ClientsMoveForward
<1> DEFINE Forward(c) ==
      /\ state[c] = "REGISTRED" => state'[c] = "REGISTRED"
      /\ state[c] # "UNUSED" => state'[c] # "UNUSED"
      /\ domain[c] # NoName => domain'[c] = domain[c]
      /\ c \in announced => chains'[c] = chains[c]
<1>1. Inv /\ [Next]_vars => \A c \in Clients : Forward(c)
  <2> SUFFICES ASSUME Inv, [Next]_vars, NEW c \in Clients PROVE Forward(c)
    OBVIOUS
  <2>a. /\ state \in [Clients -> {"UNUSED", "WAIT_RESPONSE", "REGISTRED"}]
        /\ domain \in [Clients -> Names \cup {NoName}]
        /\ chains \in [Clients -> Seq(BOOLEAN)]
        /\ TunnelInv
    BY DEF Inv, TypeOK, RegistryInv
  <2>1. ASSUME NEW d \in Clients, TunAllocate(d) PROVE Forward(c)
    BY <2>1, <2>a DEF TunAllocate, Allocatable
  <2>2. ASSUME NEW n \in Names, TunName(n) PROVE Forward(c)
    BY <2>2, <2>a DEF TunName, TunnelInv
  <2>3. CASE TunSeal
    BY <2>3, <2>a DEF TunSeal, TunnelInv
  <2>4. ASSUME NEW b \in Clients \cup {NoClient}, NEW n \in Names, DevRegister(b, n) PROVE Forward(c)
    BY <2>4, <2>a DEF DevRegister
  <2>5. ASSUME UNCHANGED <<state, domain, chains>> PROVE Forward(c)
    BY <2>5
  <2>6. CASE Tunnel
    BY <2>1, <2>2, <2>3, <2>5, <2>6
       DEF Tunnel, TunEntry, TunHop, TunHopFails, TunSealFails, TunAnnounce, clientVars
  <2>7. CASE Device
    BY <2>4, <2>5, <2>7 DEF Device, DevRefused, DevConnected, DevAssign, DevAsk, DevList,
                            DevClear, DevFill, DevFilled, clientVars
  <2>8. ASSUME NEW m \in net, ServerReply(m) PROVE Forward(c)
    BY <2>5, <2>8 DEF ServerReply, clientVars
  <2>9. CASE UNCHANGED vars
    BY <2>5, <2>9 DEF vars, clientVars
  <2> QED
    BY <2>6, <2>7, <2>8, <2>9 DEF Next
<1> QED
  BY <1>1, InvHolds, PTL DEF Spec, ClientsMoveForward

-----------------------------------------------------------------------------
(* Freed addresses.                                                        *)

Reloading == myAddress > 1 \/ loads > 1 \/ devPc \in {"assign", "clear"}

LEMMA ReloadingIsStable ==
  ASSUME TypeOK, Reloading, [Next]_vars, myAddress # 0, loads # 0
  PROVE  Reloading'
<1>a. myAddress \in Nat /\ loads \in Nat
  BY DEF TypeOK
<1>1. CASE DevAssign
  BY <1>1, <1>a DEF DevAssign, Reloading
<1>2. CASE DevClear
  BY <1>2, <1>a DEF DevClear, Reloading
<1>3. ASSUME UNCHANGED <<myAddress, loads>>,
             devPc' = devPc \/ devPc \notin {"assign", "clear"}
      PROVE Reloading'
  BY <1>3 DEF Reloading
<1>4. CASE Tunnel
  BY <1>3, <1>4 DEF Tunnel, TunAllocate, Allocatable, TunName, TunEntry, TunHop, TunHopFails,
                    TunSeal, TunSealFails, TunAnnounce, devVars
<1>5. CASE Device
  BY <1>1, <1>2, <1>3, <1>5 DEF Device, DevRefused, DevConnected, DevAsk, DevList, DevFill,
                                DevFilled, DevRegister, devVars
<1>6. ASSUME NEW m \in net, ServerReply(m) PROVE Reloading'
  BY <1>3, <1>6 DEF ServerReply, devVars
<1>7. CASE UNCHANGED vars
  BY <1>3, <1>7 DEF vars, devVars
<1> QED
  BY <1>4, <1>5, <1>6, <1>7 DEF Next

LEMMA SealedRoute ==
  ASSUME Inv, tunPc = "seal"
  PROVE  /\ myAddress \in Nat /\ loads \in Nat
         /\ route[1] \in 1 .. myAddress \/ (inherited = TRUE /\ route[1] = 0)
         /\ route[2] \in 1 .. loads /\ route[3] \in 1 .. loads
<1>1. /\ Len(route) = 3 /\ route \in Seq(Nat) /\ myAddress \in Nat /\ loads \in Nat
  BY DEF Inv, TypeOK
<1>2. DOMAIN route = 1 .. Len(route)
  BY <1>1
<1>3. DOMAIN route = 1 .. 3
  BY <1>1, <1>2
<1>4. route # << >>
  BY <1>3
<1> QED
  BY <1>1, <1>3, <1>4 DEF Inv, RouteInv

LEMMA GoodUnlessReloading ==
  ASSUME Inv, tunPc = "seal", route[1] # 0, ~Good(route)
  PROVE  Reloading
<1>1. CASE ~LiveAddress(route[1])
  <2>1. myAddress \in Nat /\ route[1] \in 1 .. myAddress
    BY SealedRoute
  <2>2. route[1] # myAddress => myAddress > 1
    BY <2>1
  <2> QED
    BY <1>1, <2>2 DEF LiveAddress, Reloading
<1>2. CASE ~LiveDevice(route[2]) \/ ~LiveDevice(route[3])
  BY <1>2, SealedRoute DEF LiveDevice, Reloading
<1> QED
  BY <1>1, <1>2 DEF Good

(* Only when an address or a device list is replaced by another can a      *)
(* chain be made of freed addresses.                                       *)
THEOREM StaleOnlyAfterReloadCorrect == Spec => []StaleOnlyAfterReload
<1> DEFINE Stale == \E c \in Clients : \E k \in DOMAIN chains[c] : ~chains[c][k]
<1>1. Init => StaleOnlyAfterReload
  BY DEF Init, StaleOnlyAfterReload
<1>2. Inv /\ StaleOnlyAfterReload /\ [Next]_vars => StaleOnlyAfterReload'
  <2> SUFFICES ASSUME Inv, StaleOnlyAfterReload, [Next]_vars, Stale' PROVE Reloading'
    BY DEF StaleOnlyAfterReload, Reloading
  <2>a. /\ chains \in [Clients -> Seq(BOOLEAN)]
        /\ tunPc # "recv" => tunClient \in Clients
    BY DEF Inv, TypeOK
  <2>1. CASE Stale
    <3>1. PICK c \in Clients : \E k \in DOMAIN chains[c] : ~chains[c][k]
      BY <2>1
    <3>2. chains[c] # << >>
      BY <3>1, <2>a
    <3>3. loads # 0 /\ myAddress # 0
      BY <3>2 DEF Inv, LoadInv
    <3> QED
      BY <2>1, <3>3, ReloadingIsStable DEF StaleOnlyAfterReload, Reloading, Inv
  <2>2. CASE ~Stale
    <3>1. chains' # chains
      BY <2>2
    <3>2. TunSeal
      BY <3>1 DEF Next, Tunnel, Device, TunAllocate, Allocatable, TunName, TunEntry, TunHop,
                  TunHopFails, TunSealFails, TunAnnounce, DevRefused, DevConnected, DevAssign,
                  DevAsk, DevList, DevClear, DevFill, DevFilled, DevRegister, ServerReply,
                  vars, clientVars
    <3>3. chains' = [chains EXCEPT ![tunClient] = Append(@, Good(route))]
          /\ tunPc = "seal" /\ route[1] # 0 /\ tunClient \in Clients
          /\ UNCHANGED <<myAddress, loads, devPc>>
      BY <3>2, <2>a DEF TunSeal, devVars
    <3>4. ASSUME Good(route) PROVE FALSE
      <4>1. PICK c \in Clients : \E k \in DOMAIN chains'[c] : ~chains'[c][k]
        OBVIOUS
      <4>2. c = tunClient
        BY <2>2, <2>a, <3>3, <4>1
      <4>a. Good(route) = TRUE
        BY <3>4, GoodIsBoolean, Zenon
      <4>b. chains'[c] = Append(chains[c], Good(route)) /\ chains[c] \in Seq(BOOLEAN)
        BY <2>a, <3>3, <4>2
      <4>3. chains'[c] = Append(chains[c], TRUE) /\ chains[c] \in Seq(BOOLEAN)
        BY <4>a, <4>b, Zenon
      <4>4. \A k \in DOMAIN chains[c] : chains[c][k]
        BY <2>2
      <4>5. \A k \in DOMAIN chains'[c] : chains'[c][k]
        BY <4>3, <4>4
      <4> QED
        BY <4>1, <4>5
    <3> QED
      BY <3>3, <3>4, GoodUnlessReloading DEF Reloading
  <2> QED
    BY <2>1, <2>2
<1> QED
  BY <1>1, <1>2, InvHolds, PTL DEF Spec

(* The process dies while building a chain only when the device list is    *)
(* being loaded or too short, or an address it holds was replaced          *)
(* (make_and_append_chain()).                                              *)
THEOREM CrashOnlyWhileLoadingCorrect == Spec => []CrashOnlyWhileLoading
<1>1. Init => CrashOnlyWhileLoading
  BY DEF Init, CrashOnlyWhileLoading
<1>2. Inv /\ CrashOnlyWhileLoading /\ [Next]_vars => CrashOnlyWhileLoading'
  <2> SUFFICES ASSUME Inv, CrashOnlyWhileLoading, [Next]_vars, crashed'
               PROVE CrashOnlyWhileLoading'
    BY DEF CrashOnlyWhileLoading
  <2>1. CASE UNCHANGED vars
    BY <2>1 DEF CrashOnlyWhileLoading, vars, devVars, tunVars
  <2>2. CASE TunHopFails
    <3>1. loads # 0 /\ Len(devices) < 2 /\ UNCHANGED devVars
      BY <2>2 DEF TunHopFails, Inv, LoadInv
    <3> QED
      BY <3>1 DEF CrashOnlyWhileLoading, Inv, ListInv, devVars
  <2>3. CASE TunSealFails
    <3>1. /\ tunPc = "seal" /\ UNCHANGED <<devVars, tunVars>>
          /\ route[1] = 0 \/ ~Good(route)
      BY <2>3 DEF TunSealFails
    <3>2. CASE route[1] = 0
      <4>1. inherited = TRUE
        BY <3>1, <3>2, SealedRoute
      <4> QED
        BY <3>1, <3>2, <4>1 DEF CrashOnlyWhileLoading, devVars, tunVars
    <3>3. CASE route[1] # 0
      <4>1. Reloading
        BY <3>1, <3>3, GoodUnlessReloading
      <4> QED
        BY <3>1, <4>1 DEF CrashOnlyWhileLoading, Reloading, devVars
    <3> QED BY <3>2, <3>3
  <2> QED
    BY <2>1, <2>2, <2>3
       DEF Next, Tunnel, Device, TunAllocate, Allocatable, TunName, TunEntry, TunHop, TunSeal,
           TunAnnounce, DevRefused, DevConnected, DevAssign, DevAsk, DevList, DevClear,
           DevFill, DevFilled, DevRegister, ServerReply
<1> QED
  BY <1>1, <1>2, InvHolds, PTL DEF Spec

-----------------------------------------------------------------------------
(* What is waited for is under way.  Nothing is sent twice, so that on a   *)
(* reliable network what the devices and the clients get in the end        *)
(* (DevicesLoad, RegisteredOrShadowed) rests on these two invariants.      *)

UnderWay(c) == SetChains(c, domain[c]) \in net \/ ChainsSet(c, domain[c]) \in net

(* A client that waits is still being announced, or its announcement or    *)
(* the response is under way, or a client in front of it has its name.     *)
Expected(c) == \/ c = tunClient /\ tunPc # "recv"
               \/ UnderWay(c)
               \/ Shadowed(c)

WaiterIsExpected == \A c \in Clients : state[c] = "WAIT_RESPONSE" => Expected(c)

(* A device that knows its address has a list, or is about to ask for it,  *)
(* or the request or the response is under way.                            *)
ListIsComing ==
  myAddress # 0 /\ loads = 0 =>
    \/ devPc \in {"ask", "clear"}
    \/ GetDevices \in net
    \/ \E n \in DeviceCounts : DeviceList(n) \in net

(* The messages of one kind tell their clients apart, and the kinds are    *)
(* different.                                                              *)
LEMMA MessagesDiffer ==
  ASSUME NEW c, NEW n, NEW b, NEW k
  PROVE  /\ ChainsSet(c, n) = ChainsSet(b, k) => c = b /\ n = k
         /\ SetChains(c, n) # ChainsSet(b, k)
         /\ SetChains(c, n).type = "setChainsRequest"
         /\ ChainsSet(c, n).type = "setChainsResponse"
         /\ SetChains(c, n).client = c /\ SetChains(c, n).name = n
         /\ GetDevices.type = "getDevicesRequest"
         /\ DeviceList(n).type = "getDevicesResponse"
         /\ \A s : HelloResponse(s).type = "onDeviceConnectResponse"
<1>1. ChainsSet(c, n) = ChainsSet(b, k) => c = b /\ n = k
  <2>1. /\ ChainsSet(c, n).client = c /\ ChainsSet(b, k).client = b
        /\ ChainsSet(c, n).name = n /\ ChainsSet(b, k).name = k
    BY DEF ChainsSet
  <2> QED BY <2>1
<1>2. /\ SetChains(c, n).type = "setChainsRequest" /\ ChainsSet(b, k).type = "setChainsResponse"
      /\ ChainsSet(c, n).type = "setChainsResponse"
      /\ SetChains(c, n).client = c /\ SetChains(c, n).name = n
  BY DEF SetChains, ChainsSet
<1>3. SetChains(c, n) # ChainsSet(b, k)
  BY <1>2
<1> QED BY <1>1, <1>2, <1>3 DEF GetDevices, DeviceList, HelloResponse

(* The RouteServer answers an announcement and a question for devices.     *)
LEMMA AnsweredInKind ==
  /\ \A c, n : \A r \in Answers(SetChains(c, n)) : r = ChainsSet(c, n)
  /\ \A r \in Answers(GetDevices) : \E n \in DeviceCounts : r = DeviceList(n)
  /\ \A c, n : Answers(ChainsSet(c, n)) = {}
  /\ \A n : Answers(DeviceList(n)) = {}
<1>1. Hello.type = "onDeviceConnectRequest" /\ GetDevices.type = "getDevicesRequest"
  BY DEF Hello, GetDevices
<1>2. ASSUME NEW c, NEW n, NEW r \in Answers(SetChains(c, n)) PROVE r = ChainsSet(c, n)
  <2>1. SetChains(c, n) # Hello /\ SetChains(c, n) # GetDevices
    BY DEF SetChains, Hello, GetDevices
  <2> QED BY <2>1, MessagesDiffer DEF Answers
<1>3. GetDevices # Hello
  BY <1>1
<1>4. ASSUME NEW r \in Answers(GetDevices) PROVE \E n \in DeviceCounts : r = DeviceList(n)
  <2>1. r \in {DeviceList(n) : n \in DeviceCounts}
    BY DEF Answers, Hello, GetDevices
  <2> QED BY <2>1
<1>5. ASSUME NEW c, NEW n PROVE Answers(ChainsSet(c, n)) = {}
  <2>1. ChainsSet(c, n) # Hello /\ ChainsSet(c, n) # GetDevices
    BY DEF ChainsSet, Hello, GetDevices
  <2> QED BY <2>1, MessagesDiffer DEF Answers
<1>6. ASSUME NEW n PROVE Answers(DeviceList(n)) = {}
  <2>1. DeviceList(n) # Hello /\ DeviceList(n) # GetDevices
    BY DEF DeviceList, Hello, GetDevices
  <2> QED BY <2>1, MessagesDiffer DEF Answers
<1> QED BY <1>2, <1>4, <1>5, <1>6

(* A name once drawn stays, and so does whoever drew it first.             *)
LEMMA ShadowStays ==
  ASSUME Inv, [Next]_vars, NEW c \in Clients
  PROVE  /\ domain[c] # NoName => domain'[c] = domain[c]
         /\ Shadowed(c) => Shadowed(c)'
<1>a. domain \in [Clients -> Names \cup {NoName}] /\ TunnelInv
  BY DEF Inv, TypeOK, RegistryInv
<1>1. ASSUME NEW b \in Clients, domain[b] # NoName PROVE domain'[b] = domain[b]
  <2>1. ASSUME NEW n \in Names, TunName(n) PROVE domain'[b] = domain[b]
    BY <1>1, <1>a, <2>1 DEF TunName, TunnelInv
  <2>2. ASSUME UNCHANGED domain PROVE domain'[b] = domain[b]
    BY <2>2
  <2> QED BY <2>1, <2>2
          DEF Next, Tunnel, Device, TunAllocate, TunEntry, TunHop, TunHopFails, TunSeal,
              TunSealFails, TunAnnounce, DevRefused, DevConnected, DevAssign, DevAsk, DevList,
              DevClear, DevFill, DevFilled, DevRegister, ServerReply, vars, clientVars
<1>2. Shadowed(c) => Shadowed(c)'
  <2> SUFFICES ASSUME NEW b \in 1 .. c - 1, domain[b] = domain[c], domain[b] # NoName
               PROVE  domain'[b] = domain'[c] /\ domain'[b] # NoName
    BY DEF Shadowed
  <2>1. b \in Clients
    BY ClientAssumption DEF Clients
  <2> QED BY <1>1, <2>1
<1> QED BY <1>1, <1>2

(* A client somebody waits for is waited for until it is registered.       *)
LEMMA ExpectedStays ==
  ASSUME ~Lossy, Inv, [Next]_vars, NEW c \in Clients,
         state[c] = "WAIT_RESPONSE", Expected(c)
  PROVE  state'[c] = "REGISTRED" \/ Expected(c)'
<1>a. /\ state \in [Clients -> {"UNUSED", "WAIT_RESPONSE", "REGISTRED"}]
      /\ domain \in [Clients -> Names \cup {NoName}]
      /\ TunnelInv /\ ClientInv /\ NetInv
      /\ tunPc # "recv" => tunClient \in Clients
  BY DEF Inv, TypeOK, RegistryInv
<1>b. Shadowed(c) => Shadowed(c)'
  BY ShadowStays
\* A step that keeps the datagrams and the client's name.
<1>c. ASSUME UNCHANGED <<tunClient, tunPc, domain>>, net \subseteq net' PROVE Expected(c)'
  BY <1>b, <1>c DEF Expected, UnderWay
<1>1. ASSUME NEW d \in Clients, TunAllocate(d) PROVE Expected(c)'
  <2>1. tunPc = "recv" /\ UNCHANGED <<domain, net>>
    BY <1>1 DEF TunAllocate
  <2> QED BY <1>b, <2>1 DEF Expected, UnderWay
<1>2. ASSUME NEW n \in Names, TunName(n) PROVE Expected(c)'
  <2>1. /\ tunPc' = "entry" /\ UNCHANGED <<tunClient, net>>
        /\ domain' = [domain EXCEPT ![tunClient] = n]
    BY <1>2 DEF TunName
  <2>2. CASE c = tunClient
    BY <2>1, <2>2 DEF Expected
  <2>3. CASE c # tunClient
    <3>1. domain'[c] = domain[c]
      BY <1>a, <2>1, <2>3
    <3> QED BY <1>b, <2>1, <2>3, <3>1 DEF Expected, UnderWay
  <2> QED BY <2>2, <2>3
<1>3. ASSUME TunEntry \/ TunHop \/ TunHopFails \/ TunSeal \/ TunSealFails PROVE Expected(c)'
  <2>1. tunPc # "recv" /\ tunPc' # "recv" /\ UNCHANGED <<tunClient, domain, net>>
    BY <1>3 DEF TunEntry, TunHop, TunHopFails, TunSeal, TunSealFails, clientVars, tunVars
  <2> QED BY <1>b, <2>1 DEF Expected, UnderWay
<1>4. CASE TunAnnounce
  <2>1. net' = net \cup {SetChains(tunClient, domain[tunClient])} /\ UNCHANGED domain
    BY <1>4 DEF TunAnnounce, Send, clientVars
  <2> QED BY <1>b, <2>1 DEF Expected, UnderWay
<1>5. ASSUME NEW m, Receive(m), m.type \notin ChainsType, UNCHANGED <<tunVars, domain>>
      PROVE  Expected(c)'
  <2>1. \A q \in net : q.type \in ChainsType => q \in net'
    BY <1>5 DEF Receive
  <2>2. UnderWay(c) => UnderWay(c)'
    BY <1>5, <2>1, MessagesDiffer DEF UnderWay, ChainsType
  <2> QED BY <1>b, <1>5, <2>2 DEF Expected, tunVars
<1>6. ASSUME NEW b \in Clients \cup {NoClient}, NEW n \in Names, DevRegister(b, n)
      PROVE  state'[c] = "REGISTRED" \/ Expected(c)'
  <2>1. /\ Receive(ChainsSet(b, n)) /\ UNCHANGED <<domain, tunVars>>
        /\ state'[c] = IF FirstNamed(c, n) THEN "REGISTRED" ELSE state[c]
    BY <1>6 DEF DevRegister
  <2>2. ASSUME b = c PROVE domain[b] = n /\ n # NoName
    <3>1. ChainsSet(b, n) \in net \ Old
      BY <2>1, <2>2, ClientsAreNat, OldOnes DEF Receive
    <3>2. /\ ChainsSet(b, n).type = "setChainsResponse" /\ ChainsSet(b, n).client = b
          /\ ChainsSet(b, n).name = n
      BY DEF ChainsSet
    <3> QED BY <1>a, <3>1, <3>2, NameAssumption DEF NetInv
  <2>3. CASE c = b
    <3>1. CASE FirstNamed(c, n)
      BY <2>1, <3>1
    <3>2. CASE ~FirstNamed(c, n)
      <4>1. Shadowed(c)
        BY <2>2, <2>3, <3>2 DEF FirstNamed, Shadowed
      <4> QED BY <1>b, <4>1 DEF Expected
    <3> QED BY <3>1, <3>2
  <2>4. CASE c # b
    <3>1. /\ SetChains(c, domain[c]) # ChainsSet(b, n)
          /\ ChainsSet(c, domain[c]) # ChainsSet(b, n)
      BY <2>4, MessagesDiffer
    <3>2. UnderWay(c) => UnderWay(c)'
      BY <2>1, <3>1 DEF UnderWay, Receive
    <3> QED BY <1>b, <2>1, <3>2 DEF Expected, tunVars
  <2> QED BY <2>3, <2>4
<1>7. ASSUME NEW m \in net, ServerReply(m) PROVE Expected(c)'
  <2>1. PICK r \in Answers(m) : net' = (net \ {m}) \cup {r}
    BY <1>7 DEF ServerReply
  <2>2. UNCHANGED <<domain, tunClient, tunPc>>
    BY <1>7 DEF ServerReply, clientVars, tunVars
  <2>3. UnderWay(c) => UnderWay(c)'
    <3>1. m # ChainsSet(c, domain[c])
      BY <2>1, AnsweredInKind
    <3>2. CASE m = SetChains(c, domain[c])
      <4>1. r = ChainsSet(c, domain[c])
        BY <2>1, <3>2, AnsweredInKind
      <4> QED BY <2>1, <2>2, <4>1 DEF UnderWay
    <3>3. CASE m # SetChains(c, domain[c])
      BY <2>1, <2>2, <3>1, <3>3 DEF UnderWay
    <3> QED BY <3>2, <3>3
  <2> QED BY <1>b, <2>2, <2>3 DEF Expected
<1>8. CASE Tunnel
  BY <1>1, <1>2, <1>3, <1>4, <1>8 DEF Tunnel
<1>9. CASE Device
  <2>1. CASE DevRefused
    <3>1. HelloResponse(ERR).type \notin ChainsType
      BY MessagesDiffer DEF ChainsType
    <3> QED BY <1>5, <2>1, <3>1 DEF DevRefused, clientVars
  <2>2. CASE DevConnected
    <3>1. HelloResponse(OK).type \notin ChainsType
      BY MessagesDiffer DEF ChainsType
    <3> QED BY <1>5, <2>2, <3>1 DEF DevConnected, clientVars
  <2>3. ASSUME NEW n \in DeviceCounts, DevList(n) PROVE Expected(c)'
    <3>1. PICK m \in {DeviceList(n), OldList(n)} : Receive(m)
      BY <2>3 DEF DevList
    <3>2. m.type = "getDevicesResponse"
      BY DEF DeviceList, OldList
    <3> QED BY <1>5, <2>3, <3>1, <3>2 DEF DevList, clientVars, ChainsType
  <2>4. CASE DevAssign \/ DevAsk \/ DevClear \/ DevFill \/ DevFilled
    <3>1. UNCHANGED <<tunClient, tunPc, domain>> /\ net \subseteq net'
      BY <2>4 DEF DevAssign, DevAsk, DevClear, DevFill, DevFilled, Send, clientVars, tunVars
    <3> QED BY <1>c, <3>1
  <2> QED BY <1>6, <1>9, <2>1, <2>2, <2>3, <2>4 DEF Device
<1>10. CASE UNCHANGED vars
  BY <1>c, <1>10 DEF vars, clientVars, tunVars
<1> QED BY <1>7, <1>8, <1>9, <1>10 DEF Next

(* While nothing is lost, a client in WAIT_RESPONSE is always one whose    *)
(* answer can still come, or one that has lost its domain to a client in   *)
(* front of it, and will wait for good (the loop over registred_clients in *)
(* the setChainsResponse branch of receiver()).                            *)
THEOREM WaiterIsExpectedCorrect ==
  ASSUME ~Lossy
  PROVE  Spec => []WaiterIsExpected
<1>1. Init => WaiterIsExpected
  BY DEF Init, WaiterIsExpected
<1>2. Inv /\ WaiterIsExpected /\ [Next]_vars => WaiterIsExpected'
  <2> SUFFICES ASSUME Inv, WaiterIsExpected, [Next]_vars, NEW c \in Clients,
                      state'[c] = "WAIT_RESPONSE"
               PROVE  Expected(c)'
    BY DEF WaiterIsExpected
  <2>1. CASE state[c] = "WAIT_RESPONSE"
    BY <2>1, ExpectedStays DEF WaiterIsExpected
  <2>2. CASE state[c] # "WAIT_RESPONSE"
    <3>1. PICK d \in Clients : TunAllocate(d)
      BY <2>2 DEF Next, Tunnel, Device, TunName, TunEntry, TunHop, TunHopFails, TunSeal,
                  TunSealFails, TunAnnounce, DevRefused, DevConnected, DevAssign, DevAsk, DevList,
                  DevClear, DevFill, DevFilled, DevRegister, ServerReply, vars, clientVars
    <3>2. c = d
      BY <2>2, <3>1 DEF TunAllocate, Inv, TypeOK
    <3> QED BY <3>1, <3>2 DEF TunAllocate, Expected
  <2> QED BY <2>1, <2>2
<1> QED BY <1>1, <1>2, InvHolds, PTL DEF Spec

(* While nothing is lost, a device that knows its address never waits for  *)
(* a list that cannot come: the question is asked after every address, and *)
(* neither it nor its answer is skipped (receiver()).                      *)
THEOREM ListIsComingCorrect ==
  ASSUME ~Lossy
  PROVE  Spec => []ListIsComing
<1>1. Init => ListIsComing
  BY DEF Init, ListIsComing
<1>2. Inv /\ ListIsComing /\ [Next]_vars => ListIsComing'
  <2> SUFFICES ASSUME Inv, ListIsComing, [Next]_vars, myAddress' # 0, loads' = 0
               PROVE  ListIsComing'
    BY DEF ListIsComing
  <2>a. loads \in Nat /\ myAddress \in Nat
    BY DEF Inv, TypeOK
  \* The question or the answer is under way.
  <2> DEFINE Question(n) == n = GetDevices \/ \E k \in DeviceCounts : n = DeviceList(k)
  <2>1. CASE DevAssign
    BY <2>1 DEF DevAssign, ListIsComing
  <2>2. CASE DevAsk
    BY <2>2 DEF DevAsk, Send, ListIsComing
  <2>3. ASSUME NEW n \in DeviceCounts, DevList(n) PROVE ListIsComing'
    BY <2>3 DEF DevList, ListIsComing
  <2>4. CASE DevClear
    BY <2>4, <2>a DEF DevClear
  <2>5. ASSUME UNCHANGED <<myAddress, loads>>, devPc \in {"ask", "clear"} => devPc' = devPc,
               \A q \in net : Question(q) => q \in net'
        PROVE  ListIsComing'
    BY <2>5 DEF ListIsComing
  <2>6. ASSUME NEW m, Receive(m), ~Question(m), UNCHANGED <<myAddress, loads>>,
               devPc = "recv"
        PROVE  ListIsComing'
    <3>1. \A q \in net : Question(q) => q \in net'
      BY <2>6 DEF Receive
    <3> QED BY <2>5, <2>6, <3>1
  <2>7. ASSUME NEW m \in net, ServerReply(m) PROVE ListIsComing'
    <3>1. PICK r \in Answers(m) : net' = (net \ {m}) \cup {r}
      BY <2>7 DEF ServerReply
    <3>2. UNCHANGED <<myAddress, loads, devPc>>
      BY <2>7 DEF ServerReply, devVars
    <3>3. \A k : m # DeviceList(k)
      BY <3>1, AnsweredInKind
    <3>4. CASE m = GetDevices
      <4>1. \E k \in DeviceCounts : DeviceList(k) \in net'
        BY <3>1, <3>4, AnsweredInKind
      <4> QED BY <4>1 DEF ListIsComing
    <3>5. CASE m # GetDevices
      <4>1. \A q \in net : Question(q) => q \in net'
        BY <3>1, <3>3, <3>5
      <4> QED BY <2>5, <3>2, <4>1
    <3> QED BY <3>4, <3>5
  <2>8. CASE Tunnel
    <3>1. UNCHANGED devVars /\ net \subseteq net'
      BY <2>8 DEF Tunnel, TunAllocate, TunName, TunEntry, TunHop, TunHopFails, TunSeal,
                  TunSealFails, TunAnnounce, Send
    <3> QED BY <2>5, <3>1 DEF devVars
  <2>9. CASE Device
    <3>1. CASE DevRefused
      <4>1. ~Question(HelloResponse(ERR))
        BY MessagesDiffer
      <4> HIDE DEF Question
      <4> QED BY <2>6, <3>1, <4>1 DEF DevRefused, devVars
    <3>2. CASE DevConnected
      <4>1. ~Question(HelloResponse(OK))
        BY DEF HelloResponse, GetDevices, DeviceList
      <4> HIDE DEF Question
      <4> QED BY <2>6, <3>2, <4>1 DEF DevConnected
    <3>3. ASSUME NEW b \in Clients \cup {NoClient}, NEW n \in Names, DevRegister(b, n) PROVE ListIsComing'
      <4>1. ~Question(ChainsSet(b, n))
        BY DEF ChainsSet, GetDevices, DeviceList
      <4> HIDE DEF Question
      <4> QED BY <2>6, <3>3, <4>1 DEF DevRegister, devVars
    <3>4. CASE DevFill \/ DevFilled
      <4>1. UNCHANGED <<myAddress, loads, net>> /\ devPc = "fill"
        BY <3>4 DEF DevFill, DevFilled
      <4> QED BY <2>5, <4>1
    <3> QED BY <2>1, <2>2, <2>3, <2>4, <2>9, <3>1, <3>2, <3>3, <3>4 DEF Device
  <2>10. CASE UNCHANGED vars
    BY <2>5, <2>10 DEF vars, devVars
  <2> QED BY <2>7, <2>8, <2>9, <2>10 DEF Next
<1> QED BY <1>1, <1>2, InvHolds, PTL DEF Spec
=============================================================================
