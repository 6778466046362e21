--------------------------- MODULE ClientRegistry ---------------------------
(***************************************************************************)
(* The registration half of RSServerCommunication: how a program behind    *)
(* the device, a client, gets a domain and return chains.                  *)
(*                                                                         *)
(* The device thread introduces the device to the RouteServer, learns the  *)
(* address it is seen under (my_address), asks for the list of devices and *)
(* replaces the old one by it, element by element.  The tunnel thread, on  *)
(* the first packet of a client, draws a domain for it, builds its chains  *)
(* from my_address and random devices, and announces them with one         *)
(* setChainsRequest.  The device thread marks the client REGISTRED when a  *)
(* response for its domain arrives.  The threads share everything and take *)
(* no lock; a step is one operation on one shared object.                  *)
(*                                                                         *)
(* Objects of the heap are known by the load that created them: what the   *)
(* tunnel thread holds may be freed before it is read.  The RouteServer    *)
(* and the network are external.  The socket has a fixed port, so that a   *)
(* process that is started again may receive responses to requests of the  *)
(* process before, which nothing in them tells from its own.               *)
(***************************************************************************)
EXTENDS Naturals, Sequences

CONSTANTS NumClients,    \* max_clients
          Names,         \* the domains "%x.ll" a client can draw
          NoName,        \* an empty local_domain
          NumChains,     \* chains built for a client, 5 in the code
          OK, ERR,       \* status of an onDeviceConnectResponse
          DeviceCounts,  \* lengths of the device lists the RouteServer sends
          Lossy,         \* may the network lose datagrams?
          Duplicates,    \* may it duplicate them?
          Old,           \* responses to the process before, under way
          MaxLoads       \* bound: times the address or the list is replaced

ASSUME ClientAssumption == NumClients \in Nat \ {0} /\ NumChains \in Nat \ {0}
ASSUME NameAssumption == NoName \notin Names
ASSUME NetworkAssumption ==
  /\ OK # ERR /\ DeviceCounts \subseteq Nat
  /\ Lossy \in BOOLEAN /\ Duplicates \in BOOLEAN /\ MaxLoads \in Nat

Clients == 1 .. NumClients  \* positions in registred_clients
NoClient == 0

VARIABLES
  state,      \* ClientObject::state
  domain,     \* ClientObject::local_domain
  chains,     \* ClientObject::chains: was each made of live addresses?
  tunPc, tunClient,  \* tunnel thread: place in getClientInfoById(), client
  route,      \* tunnel thread: loads of the addresses in the chain at hand
  myAddress,  \* my_address: how often it was loaded, 0 while it is NULL
  devices,    \* devices: the load each element comes from
  devPc, pending,    \* device thread: place in receiver(), devices to copy
  loads,      \* the load of the device list that is valid
  inherited,  \* history: has a list come that the process before asked for?
  net,        \* datagrams under way
  announced,  \* history: clients whose setChainsRequest was sent
  crashed     \* has the process died, or lost its defined behaviour?

clientVars == <<state, domain, chains>>
tunVars == <<tunPc, tunClient, route>>
devVars == <<myAddress, devices, devPc, pending, loads, inherited>>
vars == <<clientVars, tunVars, devVars, net, announced, crashed>>

Hello == [type |-> "onDeviceConnectRequest"]
HelloResponse(s) == [type |-> "onDeviceConnectResponse", status |-> s]
GetDevices == [type |-> "getDevicesRequest"]
SetChains(c, n) == [type |-> "setChainsRequest", client |-> c, name |-> n]
\* Not in the datagrams: whether it is the process before that asked for a
\* list, and the client of a response, which tells apart the responses to
\* two clients of one domain and, NoClient, those to the process before.
DeviceList(n) == [type |-> "getDevicesResponse", count |-> n, old |-> FALSE]
OldList(n) == [type |-> "getDevicesResponse", count |-> n, old |-> TRUE]
ChainsSet(c, n) == [type |-> "setChainsResponse", client |-> c, name |-> n]

OldMessage ==
  {HelloResponse(s) : s \in {OK, ERR}}
    \cup {OldList(n) : n \in DeviceCounts}
    \cup {ChainsSet(NoClient, n) : n \in Names}

ASSUME OldAssumption == Old \subseteq OldMessage

Message ==
  {Hello, GetDevices} \cup OldMessage
    \cup {DeviceList(n) : n \in DeviceCounts}
    \cup {SetChains(c, n) : c \in Clients, n \in Names}
    \cup {ChainsSet(c, n) : c \in Clients, n \in Names}

Send(m) == \/ net' = net \cup {m}
           \/ Lossy /\ UNCHANGED net

Receive(m) == /\ m \in net
              /\ \/ net' = net \ {m}
                 \/ Duplicates /\ UNCHANGED net

LiveAddress(load) == load = myAddress /\ devPc # "assign"
LiveDevice(load) == load = loads /\ devPc # "clear"

\* main() and onDeviceConnect(), the first thing the device thread does.
Init ==
  /\ state = [c \in Clients |-> "UNUSED"]
  /\ domain = [c \in Clients |-> NoName]
  /\ chains = [c \in Clients |-> << >>]
  /\ tunPc = "recv" /\ tunClient = NoClient /\ route = << >>
  /\ myAddress = 0 /\ devices = << >>
  /\ devPc = "recv" /\ pending = 0 /\ loads = 0 /\ inherited = FALSE
  /\ \/ net = {Hello} \cup Old
     \/ Lossy /\ net = Old
  /\ announced = {}
  /\ crashed = FALSE

-----------------------------------------------------------------------------
(* The tunnel thread: getClientInfoById() for the packets of a client.     *)
(* Those of a client in WAIT_RESPONSE, and of an UNUSED one while there    *)
(* are no devices, are dropped without effect; those of a registered one   *)
(* only set lastActivityTime, which nothing reads.                         *)

\* A client that gets a domain; mutations forget the devices or the state.
AllocatableUnchecked(c) == state[c] = "UNUSED"
AllocatableAgain(c) == state[c] # "REGISTRED" /\ devices # << >>

Allocatable(c) == state[c] = "UNUSED" /\ devices # << >>

\* The first packet of a client.
TunAllocate(c) ==
  /\ tunPc = "recv" /\ Allocatable(c)
  /\ state' = [state EXCEPT ![c] = "WAIT_RESPONSE"]
  /\ tunPc' = "name" /\ tunClient' = c
  /\ UNCHANGED <<domain, chains, route, devVars, net, announced, crashed>>

TunName(n) ==
  /\ tunPc = "name"
  /\ domain' = [domain EXCEPT ![tunClient] = n]
  /\ tunPc' = "entry"
  /\ UNCHANGED <<state, chains, tunClient, route, devVars, net, announced, crashed>>

\* make_and_append_chain(): the pointers are collected one by one.
TunEntry ==
  /\ tunPc = "entry"
  /\ route' = <<myAddress>>
  /\ tunPc' = "hops"
  /\ UNCHANGED <<clientVars, tunClient, devVars, net, announced, crashed>>

\* my_address and two devices; a mutation takes one more.
CompleteLate(r) == Len(r) = 4
Complete(r) == Len(r) = 3

\* devices[rand()%(devices.size()-1)]: never the last element.
TunHop ==
  /\ tunPc = "hops"
  /\ \E k \in 1 .. Len(devices) - 1 : route' = Append(route, devices[k])
  /\ tunPc' = IF Complete(route') THEN "seal" ELSE "hops"
  /\ UNCHANGED <<clientVars, tunClient, devVars, net, announced, crashed>>

\* The same with one device, a division by zero, or with none, an index
\* out of bounds.
TunHopFails ==
  /\ tunPc = "hops" /\ Len(devices) < 2
  /\ crashed' = TRUE
  /\ UNCHANGED <<clientVars, tunVars, devVars, net, announced>>

Good(r) == LiveAddress(r[1]) /\ LiveDevice(r[2]) /\ LiveDevice(r[3])

\* The loop over the chains; a mutation builds one more.
AllBuiltLate(cs) == Len(cs) = NumChains + 1
AllBuilt(cs) == Len(cs) = NumChains

\* The addresses are read and copied into a chain.
TunSeal ==
  /\ tunPc = "seal" /\ route[1] # 0
  /\ chains' = [chains EXCEPT ![tunClient] = Append(@, Good(route))]
  /\ route' = << >>
  /\ tunPc' = IF AllBuilt(chains'[tunClient]) THEN "send" ELSE "entry"
  /\ UNCHANGED <<state, domain, tunClient, devVars, net, announced, crashed>>

\* my_address is NULL, or an address was freed.
TunSealFails ==
  /\ tunPc = "seal" /\ (route[1] = 0 \/ ~Good(route))
  /\ crashed' = TRUE
  /\ UNCHANGED <<clientVars, tunVars, devVars, net, announced>>

\* Mutation: the client waits for a response to nothing.
TunAnnounceSilent ==
  /\ tunPc = "send"
  /\ announced' = announced \cup {tunClient}
  /\ tunPc' = "recv" /\ tunClient' = NoClient
  /\ UNCHANGED <<clientVars, route, devVars, net, crashed>>

TunAnnounce ==
  /\ tunPc = "send"
  /\ Send(SetChains(tunClient, domain[tunClient]))
  /\ announced' = announced \cup {tunClient}
  /\ tunPc' = "recv" /\ tunClient' = NoClient
  /\ UNCHANGED <<clientVars, route, devVars, crashed>>

-----------------------------------------------------------------------------
(* The device thread: receiver().                                          *)

DevRefused ==
  /\ devPc = "recv" /\ Receive(HelloResponse(ERR))
  /\ UNCHANGED <<clientVars, tunVars, devVars, announced, crashed>>

\* The old address is deleted ...
DevConnected ==
  /\ devPc = "recv" /\ Receive(HelloResponse(OK))
  /\ myAddress < MaxLoads
  /\ devPc' = "assign"
  /\ UNCHANGED <<clientVars, tunVars, myAddress, devices,
                 pending, loads, inherited, announced, crashed>>

\* ... and replaced, ...
DevAssign ==
  /\ devPc = "assign"
  /\ myAddress' = myAddress + 1
  /\ devPc' = "ask"
  /\ UNCHANGED <<clientVars, tunVars, devices,
                 pending, loads, inherited, net, announced, crashed>>

\* Mutation: nobody is asked.
DevAskSilent ==
  /\ devPc = "ask"
  /\ devPc' = "recv"
  /\ UNCHANGED <<clientVars, tunVars, myAddress, devices,
                 pending, loads, inherited, net, announced, crashed>>

\* ... and the device list is asked for.
DevAsk ==
  /\ devPc = "ask"
  /\ Send(GetDevices)
  /\ devPc' = "recv"
  /\ UNCHANGED <<clientVars, tunVars, myAddress, devices,
                 pending, loads, inherited, announced, crashed>>

\* A device list: the old devices are deleted, then their vector cleared,
\* then the new ones are appended one by one.
DevList(n) ==
  /\ devPc = "recv"
  /\ \E m \in {DeviceList(n), OldList(n)} :
       Receive(m) /\ inherited' = (inherited \/ m.old)
  /\ loads < MaxLoads
  /\ devPc' = "clear" /\ pending' = n
  /\ UNCHANGED <<clientVars, tunVars, myAddress, devices, loads, announced, crashed>>

DevClear ==
  /\ devPc = "clear"
  /\ devices' = << >> /\ loads' = loads + 1
  /\ devPc' = "fill"
  /\ UNCHANGED <<clientVars, tunVars, myAddress,
                 pending, inherited, net, announced, crashed>>

\* A copy of an object of the response; a mutation keeps the object, which
\* is freed with the response.
CopyNone == 0
Copy == loads

DevFill ==
  /\ devPc = "fill" /\ pending > 0
  /\ devices' = Append(devices, Copy)
  /\ pending' = pending - 1
  /\ UNCHANGED <<clientVars, tunVars, myAddress, devPc,
                 loads, inherited, net, announced, crashed>>

DevFilled ==
  /\ devPc = "fill" /\ pending = 0
  /\ devPc' = "recv"
  /\ UNCHANGED <<clientVars, tunVars, myAddress, devices,
                 pending, loads, inherited, net, announced, crashed>>

\* Mutation: the first client that waits is registered.
FirstWaiting(c, n) == /\ state[c] = "WAIT_RESPONSE"
                      /\ \A b \in 1 .. c - 1 : state[b] # "WAIT_RESPONSE"

FirstNamed(c, n) == domain[c] = n /\ \A b \in 1 .. c - 1 : domain[b] # n

\* A response for domain n: the first client of that name is registered,
\* whatever its state, and whatever the status of the response.
DevRegister(b, n) ==
  /\ devPc = "recv" /\ Receive(ChainsSet(b, n))
  /\ state' = [c \in Clients |-> IF FirstNamed(c, n) THEN "REGISTRED" ELSE state[c]]
  /\ UNCHANGED <<domain, chains, tunVars, devVars, announced, crashed>>

-----------------------------------------------------------------------------
(* External: the RouteServer.                                              *)

Answers(m) ==
  CASE m = Hello -> {HelloResponse(s) : s \in {OK, ERR}}
    [] m = GetDevices -> {DeviceList(n) : n \in DeviceCounts}
    [] m.type = "setChainsRequest" -> {ChainsSet(m.client, m.name)}
    [] OTHER -> {}

ServerReply(m) ==
  /\ m \in net
  /\ \E r \in Answers(m) : net' = (net \ {m}) \cup {r}
  /\ UNCHANGED <<clientVars, tunVars, devVars, announced, crashed>>

-----------------------------------------------------------------------------
Tunnel ==
  \/ \E c \in Clients : TunAllocate(c)
  \/ \E n \in Names : TunName(n)
  \/ TunEntry \/ TunHop \/ TunHopFails \/ TunSeal \/ TunSealFails \/ TunAnnounce

Device ==
  \/ DevRefused \/ DevConnected \/ DevAssign \/ DevAsk
  \/ \E n \in DeviceCounts : DevList(n)
  \/ DevClear \/ DevFill \/ DevFilled
  \/ \E b \in Clients \cup {NoClient}, n \in Names : DevRegister(b, n)

Next == ~crashed /\ (Tunnel \/ Device \/ \E m \in net : ServerReply(m))

Spec == Init /\ [][Next]_vars

(* The threads keep running once they have something to do, packets of a   *)
(* client are not promised to come; the RouteServer answers.               *)
Fairness ==
  /\ WF_vars(~crashed /\ tunPc # "recv" /\ Tunnel)
  /\ WF_vars(~crashed /\ Device)
  /\ \A m \in Message : WF_vars(~crashed /\ ServerReply(m))

FairSpec == Spec /\ Fairness

-----------------------------------------------------------------------------
(* What must hold.                                                         *)

(* The variables have the types of the objects they stand for; while a     *)
(* client is being allocated, the tunnel thread knows it and it waits in   *)
(* no other place.                                                         *)
TypeOK ==
  /\ state \in [Clients -> {"UNUSED", "WAIT_RESPONSE", "REGISTRED"}]
  /\ domain \in [Clients -> Names \cup {NoName}]
  /\ chains \in [Clients -> Seq(BOOLEAN)]
  /\ tunPc \in {"recv", "name", "entry", "hops", "seal", "send"}
  /\ tunClient \in Clients \cup {NoClient}
  /\ tunPc # "recv" => tunClient \in Clients
  /\ route \in Seq(Nat)
  /\ tunPc = "hops" => Len(route) \in {1, 2}
  /\ tunPc = "seal" => Len(route) = 3
  /\ myAddress \in Nat
  /\ devices \in Seq(Nat)
  /\ devPc \in {"recv", "assign", "ask", "clear", "fill"}
  /\ pending \in Nat
  /\ loads \in Nat
  /\ inherited \in BOOLEAN
  /\ net \subseteq Message
  /\ announced \subseteq Clients
  /\ crashed \in BOOLEAN

(* The chains of a client begin at an address the device has: the device   *)
(* list only comes after my_address is set, which no code checks           *)
(* (route.push_back(my_address) in make_and_append_chain()).  Nor does any *)
(* code ask whether a list is one the process asked for: only a list the   *)
(* process before asked for may come first.                                *)
EntryKnown ==
  inherited \/ /\ devices # << >> => myAddress # 0
               /\ route # << >> => route[1] # 0

(* A REGISTRED client sends under a domain that some client announced to   *)
(* the RouteServer, or that one announced before the restart.  Domains are *)
(* drawn from 255 names and the response is matched by name alone, so that *)
(* it may be another client's announcement; it is the client's own when no *)
(* other drew the name.                                                    *)
RegisteredWasAnnounced ==
  \A c \in Clients : state[c] = "REGISTRED" =>
    \/ \E b \in announced : domain[b] = domain[c]
    \/ ChainsSet(NoClient, domain[c]) \in Old

(* A setChainsRequest carries all the chains of its client and the domain  *)
(* the client keeps, although it is received long after it was sent.       *)
AnnouncedInFull ==
  \A m \in net \ Old : m.type \in {"setChainsRequest", "setChainsResponse"} =>
    /\ m.client \in announced
    /\ m.name = domain[m.client]
    /\ Len(chains[m.client]) = NumChains

(* A chain with an address read after it was freed needs a second address  *)
(* or device list: replacing my_address and devices for the first time     *)
(* takes nothing away that the tunnel thread may hold.                     *)
StaleOnlyAfterReload ==
  (\E c \in Clients : \E k \in DOMAIN chains[c] : ~chains[c][k]) =>
    myAddress > 1 \/ loads > 1 \/ devPc \in {"assign", "clear"}

(* The process dies for want of devices only while a list is being loaded, *)
(* when the RouteServer's list is that short, or after a reload: the check *)
(* of getClientInfoById(), that there are devices, holds up to the draw.   *)
(* It dies for want of my_address only by a list asked for before the      *)
(* restart.                                                                *)
CrashOnlyWhileLoading ==
  crashed => \/ devPc \in {"assign", "clear", "fill"}
             \/ Len(devices) < 2 /\ Len(devices) \in DeviceCounts
             \/ myAddress > 1 \/ loads > 1
             \/ inherited /\ tunPc = "seal" /\ route[1] = 0

(* A client is named once, its chains only grow until they are announced,  *)
(* and a registered client stays registered.                               *)
ClientsMoveForward ==
  [][\A c \in Clients :
       /\ state[c] = "REGISTRED" => state'[c] = "REGISTRED"
       /\ state[c] # "UNUSED" => state'[c] # "UNUSED"
       /\ domain[c] # NoName => domain'[c] = domain[c]
       /\ c \in announced => chains'[c] = chains[c]]_vars

(* On a reliable network the device, which introduces itself and asks for  *)
(* the list once each, has devices in the end, unless it is refused: no    *)
(* step of the exchange is repeated, so that none may be skipped.          *)
DevicesLoad == <>(devices # << >> \/ HelloResponse(ERR) \in net)

(* On a reliable network a client that has sent a packet is registered in  *)
(* the end, unless the process dies or a client in front of it has drawn   *)
(* the same domain and takes its response.                                 *)
Shadowed(c) == \E b \in 1 .. c - 1 : domain[b] = domain[c] /\ domain[b] # NoName

RegisteredOrShadowed ==
  \A c \in Clients :
    (state[c] = "WAIT_RESPONSE") ~> (state[c] = "REGISTRED" \/ Shadowed(c) \/ crashed)
=============================================================================
