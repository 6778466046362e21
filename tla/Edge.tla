-------------------------------- MODULE Edge --------------------------------
(***************************************************************************)
(* A device as the programs behind it see it: a name they look up becomes  *)
(* an address, packets to the address go to the name's domain, and packets *)
(* from a domain come from an address they can be answered at.             *)
(*                                                                         *)
(* Composed are the naming threads (ChainBinding), the DNS thread's wire   *)
(* (DNSWire), the address arithmetic of the tunnel thread (ChainAddress)   *)
(* and the checksum of a delivered header (Checksum).  The process may     *)
(* also be restarted: nothing is persisted, but the programs go on with    *)
(* the addresses they have learned.                                        *)
(*                                                                         *)
(* The parse of a query and the sum of a header work on locals of their    *)
(* thread; no other thread's step comes between theirs.                    *)
(***************************************************************************)
EXTENDS ChainBinding, DNSWire, Checksum

CONSTANTS UsersMajor, UsersMinor,  \* USERS_SUBNET_MAJOR and _MINOR
          NumClients,   \* max_clients: 250 in the code
          Recipients,   \* bound: the clients that packets are delivered to
          Packets,      \* packets read from the interface, but for dst
          Payloads,     \* lengths and protocols of the packets delivered
          VersionByte, DontFragment, TimeToLive,  \* 0x45, 0x40, 64
          MaxRestarts   \* bound: restarts

HeaderSize == 20  \* sizeof(ip4_t)
Clients == 0 .. NumClients - 1  \* positions in registred_clients

ASSUME EdgeAssumption ==
  /\ UsersMajor \in Byte /\ UsersMinor \in Byte /\ MaxRestarts \in Nat
  /\ NumClients \in Nat /\ NumClients < ByteBase /\ Recipients \subseteq Clients
  /\ {VersionByte, DontFragment, TimeToLive} \subseteq Byte
  /\ Payloads \subseteq [len : Byte \X Byte, proto : Byte]
  /\ Packets \subseteq [head : {"v4", "other"}, src : Address, read : Nat, total : Nat]

VARIABLES
  asked,       \* the datagram of each query (all_request)
  remembered,  \* what programs have learned before the last restart
  incoming,    \* the domain of the sender of the packet being delivered
  crossed,     \* history: the packet that crossed the interface last
  restarts

edgeVars == <<asked, remembered, incoming, crossed, restarts>>
allVars == <<vars, wireVars, sumVars, edgeVars>>

\* main(): the client's local_addr.
ClientAddress(c) == <<UsersMajor, UsersMinor, 0, c + 1>>

EdgeInit == /\ Init /\ WireInit /\ SumInit
            /\ asked = [q \in Queries |-> NoDatagram]
            /\ remembered = {} /\ incoming = NoDomain
            /\ crossed = {} /\ restarts = 0

\* No thread is in the middle of a parse or of a sum.
Quiet == wirePc = "recv" /\ sumPc = "idle"

-----------------------------------------------------------------------------
(* The naming threads.                                                     *)

\* dns_thread_function() receives, parses, and calls onDNSRequest() or not.
Query(m) ==
  /\ Quiet /\ dnsPc = "recv" /\ WireReceive(m) /\ crossed' = {}
  /\ UNCHANGED <<vars, sumVars, asked, remembered, incoming, restarts>>

Parse == WireNext /\ UNCHANGED <<vars, sumVars, edgeVars>>

OnDNSRequest(q) ==
  /\ Handled /\ WireDone
  /\ \E d \in Domains : d = address /\ (DnsHit(q, d) \/ DnsMiss(q, d))
  /\ asked' = [asked EXCEPT ![q] = message]
  /\ UNCHANGED <<sumVars, remembered, incoming, crossed, restarts>>

IgnoreQuery ==
  /\ ~Handled /\ WireDone
  /\ UNCHANGED <<vars, sumVars, edgeVars>>

\* The other steps of the naming threads, and the RouteServer's.
Name ==
  /\ Quiet /\ crossed' = {}
  /\ \/ DnsSend \/ DnsPush \/ DevAnswer
     \/ \E d \in Domains, s \in Statuses : DevReceive(d, s) \/ ServerReply(d, s)
  /\ UNCHANGED <<wireVars, sumVars, asked, remembered, incoming, restarts>>

-----------------------------------------------------------------------------
(* The interface.                                                          *)

\* What programs know: the addresses their queries were answered with, the
\* address a packet came from, and what they remember.
Answered(q) ==
  {[addr |-> a, dom |-> queried[q], old |-> FALSE] :
     a \in UNION {Learned(Response(asked[q], answers[q][k])) : k \in DOMAIN answers[q]}}

Known ==
  (UNION {Answered(q) : q \in Queries}) \cup remembered
    \cup {[addr |-> x.addr, dom |-> x.name, old |-> FALSE] :
            x \in {y \in crossed : y.way = "in"}}

\* tunnel_thread_function(): a packet of a client to one of the chains.
FromClient(p) ==
  /\ p.head = "v4" /\ p.read > HeaderSize
  /\ p.src[1] = UsersMajor /\ p.src[2] = UsersMinor
  /\ p.read >= p.total

(* A program sends a packet to an address it knows; its client is          *)
(* registered (ClientRegistry), or nothing would happen.  An index beyond  *)
(* the vectors drops the packet.                                           *)
TunnelSend(c, k, p) ==
  /\ Quiet
  /\ FromClient(p) /\ p.src = ClientAddress(c) /\ k.addr[1] = ChainsMajor
  /\ crossed' =
       {[way |-> "out", addr |-> k.addr, name |-> k.dom, old |-> k.old,
         dom |-> IF ClientId(p.src) < NumClients /\ ChainId(k.addr) < Len(bindedChains)
                 THEN bindedChains[ChainId(k.addr) + 1].dom ELSE NoDomain,
         client |-> c, sender |-> ClientId(p.src)]}
  /\ UNCHANGED <<vars, wireVars, sumVars, asked, remembered, incoming, restarts>>

\* The header of a packet that is delivered, its checksum still zero.
Header(p, src, dst) ==
  <<VersionByte, 0>> \o p.len \o <<0, 0, DontFragment, 0>>
    \o <<TimeToLive, p.proto, 0, 0>> \o src \o dst

(* A packet from domain d reaches client c: its source is the address that *)
(* is bound to d.  When none is, it is dropped and d is asked for.         *)
Deliver(c, d, p) ==
  /\ Quiet /\ Bound(d) /\ crossed' = {}
  /\ SumBegin(Header(p, bindedChains[BindingOf(d)].addr, ClientAddress(c)))
  /\ incoming' = d
  /\ UNCHANGED <<vars, wireVars, asked, remembered, restarts>>

Drop(d) ==
  /\ Quiet /\ Resolve(d) /\ crossed' = {}
  /\ UNCHANGED <<wireVars, sumVars, asked, remembered, incoming, restarts>>

Sum == SumNext /\ UNCHANGED <<vars, wireVars, edgeVars>>

Write ==
  /\ SumReset
  /\ crossed' = {[way |-> "in", addr |-> SubSeq(data, 13, 16), name |-> incoming]}
  /\ incoming' = NoDomain
  /\ UNCHANGED <<vars, wireVars, asked, remembered, restarts>>

-----------------------------------------------------------------------------
(* The process dies and is started again.  Datagrams of the RouteServer    *)
(* that were under way reach the new process: the port is the same.        *)
Restart ==
  /\ Quiet /\ restarts < MaxRestarts
  /\ restarts' = restarts + 1
  /\ remembered' = {[addr |-> k.addr, dom |-> k.dom, old |-> TRUE] : k \in Known}
  /\ bindedIp' = FirstAddress /\ bindedChains' = << >>
  /\ dnsRequests' = << >> /\ dnsPc' = "recv" /\ dnsReq' = NoRequest
  /\ devPc' = "recv" /\ devMsg' = NoMessage
  /\ queried' = [q \in Queries |-> NoDomain]
  /\ answers' = [q \in Queries |-> << >>]
  /\ asked' = [q \in Queries |-> NoDatagram]
  /\ crossed' = {}
  /\ UNCHANGED <<netVars, wireVars, sumVars, incoming>>

EdgeNext ==
  \/ \E m \in Datagrams : Query(m)
  \/ Parse
  \/ \E q \in Queries : OnDNSRequest(q)
  \/ IgnoreQuery
  \/ Name
  \/ \E c \in Clients, k \in Known, p \in Packets : TunnelSend(c, k, p)
  \/ \E c \in Recipients, d \in Domains, p \in Payloads : Deliver(c, d, p)
  \/ \E d \in Domains : Drop(d)
  \/ Sum
  \/ Write
  \/ Restart

EdgeSpec == EdgeInit /\ [][EdgeNext]_allVars

-----------------------------------------------------------------------------
(* What must hold.                                                         *)

(* The variables of the composition, and those of its parts that           *)
(* ChainBinding does not type, have the types of the code's.               *)
EdgeTypeOK ==
  /\ wirePc \in {"recv", "labels", "question"}
  /\ wirePc # "recv" => message \in Datagrams
  /\ address \in Seq(Byte)
  /\ sumPc \in {"idle", "words", "fold", "done"}
  /\ data \in Seq(Byte) /\ len \in 0 .. Len(data)
  /\ sum \in Nat /\ total \in Nat
  /\ asked \in [Queries -> Datagrams \cup {NoDatagram}]
  /\ remembered \subseteq [addr : Address, dom : Domains, old : {TRUE}]
  /\ incoming \in Domains \cup {NoDomain}
  /\ restarts \in 0 .. MaxRestarts

(* From the name to the wire: a packet that a program sends to an address  *)
(* it has looked up, or had a packet from, is not dropped, but goes over a *)
(* chain of the domain it knows the address by, under the domain of its    *)
(* own client; unless the address ends in zero or was learned before a     *)
(* restart.                                                                *)
SentToName ==
  \A x \in crossed : x.way = "out" =>
    /\ x.old \/ x.addr[4] = 0 \/ x.dom = x.name
    /\ x.sender = x.client
=============================================================================
