---------------------------- MODULE PacketRouting ----------------------------
(***************************************************************************)
(* A packet's way from one client to another, over several devices: the    *)
(* tunnel thread that puts it on its chain, apply_and_route_rss_packet()   *)
(* in every device it passes, and its delivery.                            *)
(*                                                                         *)
(* A chain is a row that holds an address and, encoded, the next row; here *)
(* it is the sequence of its addresses, outermost first.  A device that    *)
(* gets a packet looks at the outermost address.  If it is a device's, the *)
(* row inside takes the place of the chain and the packet is sent there;   *)
(* if it is the hash of one of its own clients, the packet is written to   *)
(* the interface, under the local address that is bound to the domain of   *)
(* its sender.                                                             *)
(*                                                                         *)
(* How a client registers is in ClientRegistry, how a domain is bound in   *)
(* ChainBinding; each is a step or two here.  Handling a packet is one     *)
(* step: what it reads only grows.                                         *)
(***************************************************************************)
EXTENDS Integers, FiniteSets, SequencesExt

CONSTANTS Devices, Clients, Domains,
          Relays,     \* the devices of the RouteServer's list but its last
          Home,       \* the device a client is behind
          DomainOf,   \* the domain a client draws; two may draw the same
          NumChains,  \* bound: chains of a client, 5 in the code
          Lossy,      \* may the network lose datagrams?
          Duplicates, \* may it duplicate them?
          Astray,     \* may a datagram go to a wrong device? (RouteSocket)
          MaxBound,   \* bound: bindings of a device
          MaxFlight   \* bound: data packets under way when one is sent

ASSUME HomeAssumption ==
  /\ Home \in [Clients -> Devices] /\ DomainOf \in [Clients -> Domains]
  /\ Devices \cap Clients = {} /\ Relays \subseteq Devices
ASSUME RoutingAssumption ==
  /\ NumChains \in Nat \ {0} /\ MaxBound \in Nat /\ MaxFlight \in Nat
  /\ Lossy \in BOOLEAN /\ Duplicates \in BOOLEAN /\ Astray \in BOOLEAN

VARIABLES
  published,   \* RouteServer: the chains announced for each client
  registered,  \* the clients that know they are registered
  bindings,    \* binded_chains of each device
  asked,       \* getChainsRequests under way, by device
  net,         \* data packets under way
  delivered    \* history: the packet written to an interface last

vars == <<published, registered, bindings, asked, net, delivered>>

(* make_and_append_chain(): the client, its own device, two others, each   *)
(* wrapped around the row before.                                          *)
ChainOf(c, r1, r2) == <<r2, r1, Home[c], c>>

Chains(c) == {ChainOf(c, r[1], r[2]) : r \in Relays \X Relays}
AllChains == UNION {Chains(c) : c \in Clients}

Binding == [dom : Domains, chain : AllChains]

\* What is left of a chain after one to three rows were peeled off.
Remainders == {SubSeq(ch, n, 4) : ch \in AllChains, n \in 2 .. 4}

\* data_packet_t; the binding's domain it was sent to is history.
Packet == [from : Clients, to : Domains, chain : Remainders, at : Devices]

\* getBindedChainByAddress(): 0 when the domain is not bound.
BindingOf(e, d) == SelectInSeq(bindings[e], LAMBDA b : b.dom = d)
Bound(e, d) == BindingOf(e, d) # 0

Init ==
  /\ published = [c \in Clients |-> {}]
  /\ registered = {}
  /\ bindings = [e \in Devices |-> << >>]
  /\ asked = [e \in Devices |-> {}]
  /\ net = {}
  /\ delivered = {}

-----------------------------------------------------------------------------
(* Registration and naming.                                                *)

\* A client's setChainsRequest reaches the RouteServer and is accepted.  A
\* client that is registered already was refused, or a namesake's response
\* has registered it.
Publish(c, S) ==
  /\ published[c] = {}
  /\ c \in registered =>
       \E b \in Clients \ {c} : Home[b] = Home[c] /\ DomainOf[b] = DomainOf[c]
  /\ published' = [published EXCEPT ![c] = S]
  /\ UNCHANGED <<registered, bindings, asked, net, delivered>>

\* A response for its domain reaches its device; the status in it is not
\* looked at, so that a client that was refused is registered like others.
Confirm(c) ==
  /\ c \notin registered
  /\ registered' = registered \cup {c}
  /\ UNCHANGED <<published, bindings, asked, net, delivered>>

\* A program asks for a name that is not bound.
Ask(e, d) ==
  /\ ~Bound(e, d) /\ d \notin asked[e]
  /\ asked' = [asked EXCEPT ![e] = @ \cup {d}]
  /\ UNCHANGED <<published, registered, bindings, net, delivered>>

Owners(d) == {c \in Clients : DomainOf[c] = d /\ published[c] # {}}

\* The RouteServer answers with a chain of a client of that domain.
Bind(e, d) ==
  /\ d \in asked[e] /\ Len(bindings[e]) < MaxBound
  /\ \E c \in Owners(d) : \E ch \in published[c] :
       bindings' = [bindings EXCEPT ![e] = Append(@, [dom |-> d, chain |-> ch])]
  /\ \/ asked' = [asked EXCEPT ![e] = @ \ {d}]
     \/ Duplicates /\ UNCHANGED asked
  /\ UNCHANGED <<published, registered, net, delivered>>

\* It refuses a domain that nobody has announced; or a datagram is lost.
Refuse(e, d) ==
  /\ d \in asked[e] /\ (Owners(d) = {} \/ Lossy)
  /\ asked' = [asked EXCEPT ![e] = @ \ {d}]
  /\ UNCHANGED <<published, registered, bindings, net, delivered>>

-----------------------------------------------------------------------------
(* Packets.                                                                *)

\* What handling p leaves of the packets under way.
Rest(p) == {net \ {p}} \cup (IF Duplicates THEN {net} ELSE {})

\* Mutation: the chain is sent as it was received.
PeeledNot(p) == p.chain
Peeled(p) == Tail(p.chain)

\* The first branch of apply_and_route_rss_packet().
Forward(p, rest) ==
  /\ Head(p.chain) \in Devices
  /\ \/ \E e \in Devices :
          /\ e = Head(p.chain) \/ Astray
          /\ net' = rest \cup {[p EXCEPT !.chain = Peeled(p), !.at = e]}
     \/ Lossy /\ net' = rest
  /\ UNCHANGED <<published, registered, bindings, asked, delivered>>

\* tunnel_thread_function(): a packet of client c to the address of a binding.
TunnelSend(c, k) ==
  /\ Cardinality(net) < MaxFlight
  /\ c \in registered /\ k \in DOMAIN bindings[Home[c]]
  /\ LET b == bindings[Home[c]][k] IN
       Forward([from |-> c, to |-> b.dom, chain |-> b.chain, at |-> Home[c]], net)

Relay(p) == \E rest \in Rest(p) : Forward(p, rest)

\* Mutation: the hash in the row is not compared with the clients' own.
LocalAnyClient(p) == {c \in Clients : Home[c] = p.at /\ Head(p.chain) \in Clients}

\* The client of this device that the outermost row names.
Local(p) == {c \in Clients : Home[c] = p.at /\ Head(p.chain) = c}

\* Mutation: the source address is looked up by the packet's destination.
ReturnDomainWrong(p) == p.to
ReturnDomain(p) == DomainOf[p.from]

\* The second branch: the innermost row is reached in its client's device.
Deliver(p) ==
  /\ \E c \in Local(p) :
       /\ Bound(p.at, ReturnDomain(p))
       /\ delivered' =
            {[client |-> c, from |-> p.from, to |-> p.to,
              ret |-> BindingOf(p.at, ReturnDomain(p))]}
  /\ net' \in Rest(p)
  /\ UNCHANGED <<published, registered, bindings, asked>>

\* Mutation: nobody is asked.
AskedForNobody(e, d) == {}
AskedFor(e, d) == {d}

\* There is no address to deliver it under: it is dropped and one asked for.
DropUnreturnable(p) ==
  /\ Local(p) # {} /\ ~Bound(p.at, ReturnDomain(p))
  /\ \/ asked' = [asked EXCEPT ![p.at] = @ \cup AskedFor(p.at, ReturnDomain(p))]
     \/ Lossy /\ UNCHANGED asked
  /\ net' \in Rest(p)
  /\ UNCHANGED <<published, registered, bindings, delivered>>

\* The innermost row is reached elsewhere.
DropStranger(p) ==
  /\ Head(p.chain) \in Clients /\ Local(p) = {}
  /\ net' \in Rest(p)
  /\ UNCHANGED <<published, registered, bindings, asked, delivered>>

-----------------------------------------------------------------------------
Receive(p) == Relay(p) \/ Deliver(p) \/ DropUnreturnable(p) \/ DropStranger(p)

Next ==
  \/ \E c \in Clients :
       \E f \in [1 .. NumChains -> Chains(c)] :
         Publish(c, {f[i] : i \in 1 .. NumChains})
  \/ \E c \in Clients : Confirm(c)
  \/ \E e \in Devices, d \in Domains : Ask(e, d) \/ Bind(e, d) \/ Refuse(e, d)
  \/ \E c \in Clients, k \in 1 .. MaxBound : TunnelSend(c, k)
  \/ \E p \in net : Receive(p)

Spec == Init /\ [][Next]_vars

(* Every device receives the packets of its queue in turn, and the         *)
(* RouteServer answers what it can.                                        *)
Fairness ==
  /\ \A c \in Clients, d \in Domains, n \in 1 .. 3 :
       WF_vars(\E p \in net : /\ p.from = c /\ p.to = d /\ Len(p.chain) = n
                            /\ Receive(p))
  /\ \A e \in Devices, d \in Domains : WF_vars(Bind(e, d))

FairSpec == Spec /\ Fairness

-----------------------------------------------------------------------------
(* What must hold.                                                         *)

(* The variables have the types of the objects they stand for.             *)
TypeOK ==
  /\ published \in [Clients -> SUBSET AllChains]
  /\ registered \subseteq Clients
  /\ bindings \in [Devices -> Seq(Binding)]
  /\ asked \in [Devices -> SUBSET Domains]
  /\ net \subseteq Packet
  /\ \A d \in delivered : d \in [client : Clients, from : Clients, to : Domains, ret : Nat]

(* A packet under way is on the chain of a binding its sender's device has *)
(* for the domain it was sent to: what is left of the chain is what        *)
(* follows the rows peeled off so far, and, unless a socket sent it        *)
(* elsewhere, it is at the device the last of them named.  Each device     *)
(* peels the row by parsing it into the object it came in.                 *)
OnRoute ==
  \A p \in net : \E k \in DOMAIN bindings[Home[p.from]], n \in 1 .. 3 :
    LET b == bindings[Home[p.from]][k] IN
      /\ b.dom = p.to
      /\ p.chain = SubSeq(b.chain, n + 1, 4)
      /\ Astray \/ p.at = b.chain[n]

(* A packet is delivered to nobody but a client of the domain it was sent  *)
(* to, even when a socket sent it to a wrong device on its way.            *)
DeliveredToAddressee == \A m \in delivered : DomainOf[m.client] = m.to

(* The address a packet is delivered under is bound, at the receiving      *)
(* device, to the domain of its sender, by a chain that leads to a client  *)
(* of that domain, and stays so: what is sent back to it, however late,    *)
(* goes the way of a packet to the sender's domain.                        *)
ReplyReachesSender ==
  \A m \in delivered :
    /\ m.ret \in DOMAIN bindings[Home[m.client]]
    /\ LET b == bindings[Home[m.client]][m.ret] IN
         /\ b.dom = DomainOf[m.from]
         /\ \E c \in Clients : b.chain[4] = c /\ b.chain[3] = Home[c]
                               /\ DomainOf[c] = b.dom

(* When nothing is lost or sent astray: after a packet from one client to  *)
(* a domain, a device of that domain can name its sender in the end, so    *)
(* that the packet, or the next one like it, is delivered; unless the      *)
(* RouteServer refused the sender's chains, of which its device takes no   *)
(* notice (the status of a setChainsResponse).                             *)
CanAnswer(d, c) == \E a \in Clients : DomainOf[a] = d /\ Bound(Home[a], DomainOf[c])

PacketTeaches ==
  \A c \in Clients, d \in Domains :
    (\E p \in net : p.from = c /\ p.to = d) ~>
      (CanAnswer(d, c) \/ Owners(DomainOf[c]) = {})

-----------------------------------------------------------------------------
(* The promise to the programs, implemented.                               *)
OnTheWay == {[from |-> p.from, to |-> p.to] : p \in net}

Received ==
  {[client |-> m.client, from |-> m.from,
    reply |-> bindings[Home[m.client]][m.ret].dom] : m \in delivered}

Pipe == INSTANCE DomainPipe WITH pipe <- OnTheWay, got <- Received

(* Every step of the devices is a step of DomainPipe or changes nothing in *)
(* it: what is delivered was sent, to a client of the domain it was sent   *)
(* to, and its return address is and stays one of the sender's domain.     *)
ImplementsPipe == Pipe!Spec
=============================================================================
