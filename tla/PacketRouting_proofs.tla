------------------------- MODULE PacketRouting_proofs -------------------------
(***************************************************************************)
(* Proofs about PacketRouting, for every set of devices and clients, every *)
(* choice of domains and chains, and every network, sockets that send      *)
(* astray included.                                                        *)
(***************************************************************************)
EXTENDS PacketRouting, SearchTheorems, SequenceTheorems, TLAPS

(* The chains the RouteServer knows, and those the devices bind, are of    *)
(* the shape make_and_append_chain() gives them and end in a client of the *)
(* domain they are bound to.                                               *)
LeadsTo(b, c) == DomainOf[c] = b.dom /\ b.chain \in Chains(c)

PublishedInv == \A c \in Clients : published[c] \subseteq Chains(c)
BindingsInv == \A e \in Devices : \A k \in DOMAIN bindings[e] :
                 \E c \in Clients : LeadsTo(bindings[e][k], c)

Grow == \A e \in Devices : \A k \in DOMAIN bindings[e] :
          k \in DOMAIN bindings'[e] /\ bindings'[e][k] = bindings[e][k]

Placed(q, bs) ==
  \E k \in DOMAIN bs[Home[q.from]], n \in 1 .. 3 :
    LET b == bs[Home[q.from]][k] IN
      /\ b.dom = q.to
      /\ q.chain = SubSeq(b.chain, n + 1, 4)
      /\ Astray \/ q.at = b.chain[n]

Inv == /\ TypeOK /\ PublishedInv /\ BindingsInv
       /\ OnRoute /\ DeliveredToAddressee /\ ReplyReachesSender

-----------------------------------------------------------------------------
(* Chains.                                                                 *)

(* A chain has four rows: two relays, the home and the client.             *)
LEMMA ChainRows ==
  ASSUME NEW c \in Clients, NEW ch \in Chains(c)
  PROVE  /\ ch \in Seq(Devices \cup Clients) /\ Len(ch) = 4
         /\ ch[1] \in Devices /\ ch[2] \in Devices
         /\ ch[3] = Home[c] /\ ch[4] = c
         /\ ch \in AllChains
<1>1. PICK r \in Relays \X Relays : ch = ChainOf(c, r[1], r[2])
  BY DEF Chains
<1>2. Home[c] \in Devices /\ r[1] \in Devices /\ r[2] \in Devices
  BY HomeAssumption
<1>3. ch = <<r[2], r[1], Home[c], c>>
  BY <1>1 DEF ChainOf
<1>4. ch \in AllChains
  BY DEF AllChains
<1> QED BY <1>2, <1>3, <1>4

(* What is left of a chain after n rows, and what peeling one more leaves. *)
LEMMA RemainderRows ==
  ASSUME NEW c \in Clients, NEW ch \in Chains(c), NEW n \in 1 .. 3
  PROVE  /\ SubSeq(ch, n + 1, 4) \in Remainders
         /\ Head(SubSeq(ch, n + 1, 4)) = ch[n + 1]
         /\ Tail(SubSeq(ch, n + 1, 4)) = SubSeq(ch, n + 2, 4)
<1>1. /\ ch \in Seq(Devices \cup Clients) /\ Len(ch) = 4 /\ ch \in AllChains
  BY ChainRows
<1>2. SubSeq(ch, n + 1, 4) \in Remainders
  <2>1. n + 1 \in 2 .. 4
    OBVIOUS
  <2> QED BY <1>1, <2>1 DEF Remainders
<1>3. n + 1 \in 1 .. Len(ch) /\ 4 \in n + 1 .. Len(ch)
  BY <1>1
<1>4. /\ Head(SubSeq(ch, n + 1, 4)) = ch[n + 1]
      /\ Tail(SubSeq(ch, n + 1, 4)) = SubSeq(ch, n + 2, 4)
  <2>1. (n + 1) + 1 = n + 2
    OBVIOUS
  <2> QED BY <1>1, <1>3, <2>1, HeadTailOfSubSeq
<1> QED BY <1>2, <1>4

(* The whole chain, of a packet that has not left its device.              *)
LEMMA WholeChain ==
  ASSUME NEW c \in Clients, NEW ch \in Chains(c)
  PROVE  /\ Head(ch) = ch[1] /\ Head(ch) \in Devices
         /\ Tail(ch) = SubSeq(ch, 2, 4)
<1>1. /\ ch \in Seq(Devices \cup Clients) /\ Len(ch) = 4 /\ ch[1] \in Devices
  BY ChainRows
<1>2. Tail(ch) = SubSeq(ch, 2, 4)
  <2>1. ch # << >>
    <3>1. Len(ch) # 0
      BY <1>1
    <3> QED BY <1>1, <3>1, EmptySeq
  <2>2. Tail(ch) = SubSeq(ch, 2, Len(ch))
    BY <1>1, <2>1, TailIsSubSeq
  <2> QED BY <1>1, <2>2
<1>3. Head(ch) = ch[1]
  BY <1>1
<1> QED BY <1>1, <1>2, <1>3

(* A lookup that succeeds returns a binding of the domain.                 *)
LEMMA BindingOfFinds ==
  ASSUME TypeOK, NEW e \in Devices, NEW d, Bound(e, d)
  PROVE  /\ BindingOf(e, d) \in DOMAIN bindings[e]
         /\ bindings[e][BindingOf(e, d)].dom = d
<1> DEFINE I == {i \in 1 .. Len(bindings[e]) : bindings[e][i].dom = d}
<1>1. BindingOf(e, d) = IF I # {} THEN Min(I) ELSE 0
  BY DEF BindingOf, SelectInSeq
<1>2. I # {}
  BY <1>1 DEF Bound
<1>3. I \in SUBSET Nat
  OBVIOUS
<1>4. Min(I) \in I
  BY <1>2, <1>3, MinOfNat
<1>5. bindings[e] \in Seq(Binding)
  BY DEF TypeOK
<1>6. DOMAIN bindings[e] = 1 .. Len(bindings[e])
  BY <1>5
<1> QED BY <1>1, <1>2, <1>4, <1>6

-----------------------------------------------------------------------------
(* Registration and naming.                                                *)

LEMMA InitInv == Init => Inv
<1> SUFFICES ASSUME Init PROVE Inv
  OBVIOUS
<1>1. TypeOK
  BY DEF Init, TypeOK
<1>2. PublishedInv /\ BindingsInv
  BY DEF Init, PublishedInv, BindingsInv
<1>3. OnRoute /\ DeliveredToAddressee /\ ReplyReachesSender
  BY DEF Init, OnRoute, DeliveredToAddressee, ReplyReachesSender
<1> QED BY <1>1, <1>2, <1>3 DEF Inv

(* What a device binds was published by a client of the domain.            *)
LEMMA BindKeeps ==
  ASSUME TypeOK, PublishedInv, BindingsInv,
         NEW e \in Devices, NEW d \in Domains, Bind(e, d)
  PROVE  bindings' \in [Devices -> Seq(Binding)] /\ BindingsInv' /\ Grow
<1>1. PICK c \in Owners(d) : \E ch \in published[c] :
         bindings' = [bindings EXCEPT ![e] = Append(@, [dom |-> d, chain |-> ch])]
  BY DEF Bind
<1>2. PICK ch \in published[c] :
         bindings' = [bindings EXCEPT ![e] = Append(@, [dom |-> d, chain |-> ch])]
  BY <1>1
<1> DEFINE b == [dom |-> d, chain |-> ch]
<1>3. c \in Clients /\ DomainOf[c] = d /\ ch \in Chains(c)
  BY <1>1 DEF Owners, PublishedInv
<1>4. b \in Binding /\ LeadsTo(b, c)
  BY <1>3, ChainRows DEF Binding, LeadsTo
<1>5. bindings \in [Devices -> Seq(Binding)]
  BY DEF TypeOK
<1> HIDE DEF b
<1>6. bindings' = [bindings EXCEPT ![e] = Append(bindings[e], b)]
  BY <1>2 DEF b
<1>7. bindings[e] \in Seq(Binding) /\ bindings'[e] = Append(bindings[e], b)
  BY <1>5, <1>6
<1>8. Append(bindings[e], b) \in Seq(Binding)
  BY <1>4, <1>7
<1>9. bindings' \in [Devices -> Seq(Binding)]
  BY <1>5, <1>6, <1>8
<1>10. \A x \in Devices : x # e => bindings'[x] = bindings[x]
  BY <1>5, <1>6
<1>11. /\ Len(bindings'[e]) = Len(bindings[e]) + 1
       /\ DOMAIN bindings[e] = 1 .. Len(bindings[e])
       /\ DOMAIN bindings'[e] = 1 .. Len(bindings[e]) + 1
       /\ Len(bindings[e]) \in Nat
       /\ \A i \in 1 .. Len(bindings[e]) : bindings'[e][i] = bindings[e][i]
       /\ bindings'[e][Len(bindings[e]) + 1] = b
  BY <1>4, <1>7, AppendProperties
<1>12. BindingsInv'
  <2> SUFFICES ASSUME NEW x \in Devices, NEW k \in DOMAIN bindings'[x]
               PROVE  \E a \in Clients : LeadsTo(bindings'[x][k], a)
    BY DEF BindingsInv, LeadsTo
  <2>1. CASE x # e
    BY <1>10, <2>1 DEF BindingsInv
  <2>2. CASE x = e /\ k = Len(bindings[e]) + 1
    BY <1>3, <1>4, <1>11, <2>2
  <2>3. CASE x = e /\ k \in 1 .. Len(bindings[e])
    BY <1>11, <2>3 DEF BindingsInv
  <2> QED BY <1>11, <2>1, <2>2, <2>3
<1>13. Grow
  <2> SUFFICES ASSUME NEW x \in Devices, NEW k \in DOMAIN bindings[x]
               PROVE  k \in DOMAIN bindings'[x] /\ bindings'[x][k] = bindings[x][k]
    BY DEF Grow
  <2>1. CASE x # e
    BY <1>10, <2>1
  <2>2. CASE x = e
    BY <1>11, <2>2
  <2> QED BY <2>1, <2>2
<1> QED BY <1>9, <1>12, <1>13

(* What the RouteServer knows and the devices bind keeps its shape, and    *)
(* bindings only grow, whatever the step.                                  *)
LEMMA StepNaming ==
  ASSUME Inv, [Next]_vars
  PROVE  /\ published' \in [Clients -> SUBSET AllChains] /\ registered' \subseteq Clients
         /\ bindings' \in [Devices -> Seq(Binding)]
         /\ asked' \in [Devices -> SUBSET Domains]
         /\ PublishedInv' /\ BindingsInv' /\ Grow
<1> USE DEF Inv
<1> DEFINE Types == /\ published' \in [Clients -> SUBSET AllChains]
                    /\ registered' \subseteq Clients
                    /\ asked' \in [Devices -> SUBSET Domains]
           Same == bindings' = bindings
           Bindings == bindings' \in [Devices -> Seq(Binding)] /\ BindingsInv' /\ Grow
<1>0. TypeOK /\ Home \in [Clients -> Devices] /\ DomainOf \in [Clients -> Domains]
  BY HomeAssumption
<1>s. Same => Bindings
  <2> SUFFICES ASSUME Same PROVE Bindings
    OBVIOUS
  <2>1. bindings' \in [Devices -> Seq(Binding)]
    BY DEF TypeOK
  <2>2. BindingsInv' /\ Grow
    BY DEF BindingsInv, LeadsTo, Grow
  <2> QED BY <2>1, <2>2
<1>p. UNCHANGED published => PublishedInv'
  BY DEF PublishedInv
<1>1. ASSUME NEW c \in Clients, NEW f \in [1 .. NumChains -> Chains(c)],
             Publish(c, {f[i] : i \in 1 .. NumChains})
      PROVE  Types /\ PublishedInv' /\ Bindings
  <2> DEFINE S == {f[i] : i \in 1 .. NumChains}
  <2>1. S \subseteq Chains(c)
    OBVIOUS
  <2>2. Chains(c) \subseteq AllChains
    BY DEF AllChains
  <2> HIDE DEF S
  <2>3. /\ published' = [published EXCEPT ![c] = S]
        /\ UNCHANGED <<registered, bindings, asked>>
    BY <1>1 DEF Publish, S
  <2>4. Types
    BY <2>1, <2>2, <2>3 DEF TypeOK
  <2>5. PublishedInv'
    BY <2>1, <2>3 DEF PublishedInv, TypeOK
  <2> QED BY <1>s, <2>3, <2>4, <2>5
<1>2. ASSUME NEW c \in Clients, Confirm(c)
      PROVE  Types /\ PublishedInv' /\ Bindings
  BY <1>2, <1>s, <1>p DEF Confirm, TypeOK
<1>3. ASSUME NEW e \in Devices, NEW d \in Domains, Ask(e, d) \/ Refuse(e, d)
      PROVE  Types /\ PublishedInv' /\ Bindings
  BY <1>3, <1>s, <1>p DEF Ask, Refuse, TypeOK
<1>4. ASSUME NEW e \in Devices, NEW d \in Domains, Bind(e, d)
      PROVE  Types /\ PublishedInv' /\ Bindings
  <2>1. Bindings
    BY <1>4, BindKeeps
  <2>2. Types /\ PublishedInv'
    BY <1>4, <1>p DEF Bind, TypeOK
  <2> QED BY <2>1, <2>2
<1>5. ASSUME NEW c \in Clients, NEW k \in 1 .. MaxBound, TunnelSend(c, k)
      PROVE  Types /\ PublishedInv' /\ Bindings
  <2>1. UNCHANGED <<published, registered, bindings, asked>>
    BY <1>5 DEF TunnelSend, Forward
  <2> QED BY <2>1, <1>s, <1>p DEF TypeOK
<1>6. ASSUME NEW p \in net, Receive(p)
      PROVE  Types /\ PublishedInv' /\ Bindings
  <2>1. UNCHANGED <<published, registered, bindings>>
    BY <1>6 DEF Receive, Relay, Forward, Deliver, DropUnreturnable, DropStranger
  <2>2. asked' \in [Devices -> SUBSET Domains]
    <3>1. CASE UNCHANGED asked
      BY <3>1 DEF TypeOK
    <3>2. CASE asked' = [asked EXCEPT ![p.at] = @ \cup AskedFor(p.at, ReturnDomain(p))]
      <4>1. p \in Packet
        BY DEF TypeOK
      <4>2. p.from \in Clients
        BY <4>1 DEF Packet
      <4>3. ReturnDomain(p) \in Domains
        BY <1>0, <4>2 DEF ReturnDomain
      <4> QED BY <3>2, <4>3 DEF TypeOK, AskedFor
    <3> QED BY <1>6, <3>1, <3>2
            DEF Receive, Relay, Forward, Deliver, DropUnreturnable, DropStranger
  <2> QED BY <2>1, <2>2, <1>s, <1>p DEF TypeOK
<1>7. ASSUME UNCHANGED vars
      PROVE  Types /\ PublishedInv' /\ Bindings
  BY <1>7, <1>s, <1>p DEF vars, TypeOK
<1> QED BY <1>1, <1>2, <1>3, <1>4, <1>5, <1>6, <1>7 DEF Next

-----------------------------------------------------------------------------
(* Packets under way.                                                      *)

(* A packet stays on its route when bindings grow.                         *)
LEMMA PlacedStays ==
  ASSUME Grow, Home \in [Clients -> Devices], NEW q \in Packet, Placed(q, bindings)
  PROVE  Placed(q, bindings')
<1>1. Home[q.from] \in Devices
  BY DEF Packet
<1>2. \A k \in DOMAIN bindings[Home[q.from]] :
        /\ k \in DOMAIN bindings'[Home[q.from]]
        /\ bindings'[Home[q.from]][k] = bindings[Home[q.from]][k]
  BY <1>1 DEF Grow
<1> QED BY <1>2 DEF Placed

(* A device that peels the row of a chain it is to pass on, the first or a *)
(* later one, sends the packet along that chain.                           *)
LEMMA ForwardKeeps ==
  ASSUME BindingsInv, NEW c \in Clients, NEW k \in DOMAIN bindings[Home[c]],
         NEW n \in 0 .. 3, NEW rest, NEW T,
         NEW p \in [from : Clients, to : Domains, chain : T, at : Devices],
         p.from = c, p.to = bindings[Home[c]][k].dom,
         Head(p.chain) = bindings[Home[c]][k].chain[n + 1],
         Tail(p.chain) = SubSeq(bindings[Home[c]][k].chain, n + 2, 4),
         Forward(p, rest)
  PROVE  \A q \in net' : q \in rest \/ (q \in Packet /\ Placed(q, bindings))
<1> DEFINE b == bindings[Home[c]][k]
<1>1. PICK a \in Clients : b.chain \in Chains(a)
  BY HomeAssumption DEF BindingsInv, LeadsTo
<1>2. b.chain[4] \in Clients
  BY <1>1, ChainRows
<1>3. Head(p.chain) \in Devices
  BY DEF Forward
<1>4. n # 3
  BY <1>2, <1>3, HomeAssumption
<1>5. n + 1 \in 1 .. 3 /\ (n + 1) + 1 = n + 2
  BY <1>4
<1>6. SubSeq(b.chain, n + 2, 4) \in Remainders
  BY <1>1, <1>5, RemainderRows
<1>7. ASSUME NEW e \in Devices, e = Head(p.chain) \/ Astray,
             NEW q, q = [p EXCEPT !.chain = Peeled(p), !.at = e]
      PROVE  q \in Packet /\ Placed(q, bindings)
  <2>1. q = [from |-> c, to |-> b.dom, chain |-> SubSeq(b.chain, n + 2, 4), at |-> e]
    BY <1>7 DEF Peeled
  <2>2. b.dom \in Domains
    OBVIOUS
  <2>3. q \in Packet
    BY <1>6, <2>1, <2>2 DEF Packet
  <2>4. /\ q.from = c /\ b.dom = q.to
        /\ q.chain = SubSeq(b.chain, (n + 1) + 1, 4)
        /\ Astray \/ q.at = b.chain[n + 1]
    <3>1. q.from = c /\ b.dom = q.to /\ q.at = e
      BY <2>1
    <3>2. q.chain = SubSeq(b.chain, (n + 1) + 1, 4)
      BY <1>5, <2>1
    <3>3. Astray \/ e = b.chain[n + 1]
      BY <1>7, Zenon
    <3> QED BY <3>1, <3>2, <3>3, Zenon
  <2>5. Placed(q, bindings)
    BY <1>5, <2>4 DEF Placed
  <2> QED BY <2>3, <2>5
<1> QED BY <1>7 DEF Forward

(* Packets under way have their type and are on their route.               *)
LEMMA StepNet ==
  ASSUME Inv, [Next]_vars
  PROVE  net' \subseteq Packet /\ OnRoute'
<1> USE DEF Inv
<1>1. Grow /\ Home \in [Clients -> Devices]
  BY StepNaming, HomeAssumption
<1>2. \A q \in net : q \in Packet /\ Placed(q, bindings)
  BY DEF TypeOK, OnRoute, Placed
<1> DEFINE New == \A q \in net' : q \in net \/ (q \in Packet /\ Placed(q, bindings))
<1>3. SUFFICES New
  <2> SUFFICES ASSUME New PROVE net' \subseteq Packet /\ OnRoute'
    OBVIOUS
  <2>1. \A q \in net' : q \in Packet /\ Placed(q, bindings)
    BY <1>2
  <2>2. \A q \in net' : Placed(q, bindings')
    BY <1>1, <2>1, PlacedStays
  <2> QED BY <2>1, <2>2 DEF OnRoute, Placed
<1>4. ASSUME NEW c \in Clients, NEW k \in 1 .. MaxBound, TunnelSend(c, k) PROVE New
  <2> DEFINE b == bindings[Home[c]][k]
             p == [from |-> c, to |-> b.dom, chain |-> b.chain, at |-> Home[c]]
  <2>1. k \in DOMAIN bindings[Home[c]] /\ Forward(p, net)
    BY <1>4 DEF TunnelSend
  <2>2. PICK a \in Clients : LeadsTo(b, a)
    BY <1>1, <2>1 DEF BindingsInv
  <2>3. /\ Head(b.chain) = b.chain[0 + 1]
        /\ Tail(b.chain) = SubSeq(b.chain, 0 + 2, 4)
    <3>1. b.chain \in Chains(a)
      BY <2>2 DEF LeadsTo
    <3>2. 0 + 1 = 1 /\ 0 + 2 = 2
      OBVIOUS
    <3> QED BY <3>1, <3>2, WholeChain
  <2>4. b.dom \in Domains
    BY <1>1, <2>2, HomeAssumption DEF LeadsTo
  <2>5. /\ p \in [from : Clients, to : Domains, chain : {b.chain}, at : Devices]
        /\ p.from = c /\ p.to = b.dom /\ p.chain = b.chain
    BY <1>1, <2>4
  <2> HIDE DEF p
  <2>6. 0 \in 0 .. 3
    OBVIOUS
  <2>7. \A q \in net' : q \in net \/ (q \in Packet /\ Placed(q, bindings))
    <3> DEFINE T == {b.chain}
               old == net
    <3>1. /\ p \in [from : Clients, to : Domains, chain : T, at : Devices]
          /\ p.from = c /\ p.to = bindings[Home[c]][k].dom
          /\ Head(p.chain) = bindings[Home[c]][k].chain[0 + 1]
          /\ Tail(p.chain) = SubSeq(bindings[Home[c]][k].chain, 0 + 2, 4)
          /\ Forward(p, old)
      BY <2>1, <2>3, <2>5
    <3> HIDE DEF T, old
    <3>2. \A q \in net' : q \in old \/ (q \in Packet /\ Placed(q, bindings))
      BY <1>1, <2>1, <2>6, <3>1, ForwardKeeps
    <3> QED BY <3>2 DEF old
  <2> QED BY <2>7
<1>5. ASSUME NEW p \in net, Relay(p) PROVE New
  <2>1. PICK rest \in Rest(p) : Forward(p, rest)
    BY <1>5 DEF Relay
  <2>2. rest \subseteq net
    BY <2>1 DEF Rest
  <2>3. p \in Packet /\ Placed(p, bindings)
    BY <1>2
  <2>4. PICK k \in DOMAIN bindings[Home[p.from]], n \in 1 .. 3 :
           /\ bindings[Home[p.from]][k].dom = p.to
           /\ p.chain = SubSeq(bindings[Home[p.from]][k].chain, n + 1, 4)
    BY <2>3 DEF Placed
  <2> DEFINE b == bindings[Home[p.from]][k]
  <2>5. p.from \in Clients /\ Home[p.from] \in Devices
    BY <1>1, <2>3 DEF Packet
  <2>6. PICK a \in Clients : LeadsTo(b, a)
    BY <2>5 DEF BindingsInv
  <2>7. /\ Head(p.chain) = b.chain[n + 1]
        /\ Tail(p.chain) = SubSeq(b.chain, n + 2, 4)
    BY <2>4, <2>6, RemainderRows DEF LeadsTo
  <2>8. p \in [from : Clients, to : Domains, chain : Remainders, at : Devices]
    BY <2>3 DEF Packet
  <2>9. n \in 0 .. 3
    OBVIOUS
  <2>10. \A q \in net' : q \in rest \/ (q \in Packet /\ Placed(q, bindings))
    BY <2>1, <2>4, <2>5, <2>7, <2>8, <2>9, ForwardKeeps
  <2> QED BY <2>2, <2>10
<1>6. ASSUME NEW p \in net, net' \in Rest(p) PROVE New
  BY <1>6 DEF Rest
<1>7. ASSUME UNCHANGED net PROVE New
  BY <1>7
<1>8. ASSUME NEW p \in net, Receive(p) PROVE New
  BY <1>5, <1>6, <1>8 DEF Receive, Deliver, DropUnreturnable, DropStranger
<1>9. CASE \E c \in Clients, k \in 1 .. MaxBound : TunnelSend(c, k)
  BY <1>4, <1>9
<1>10. CASE \E p \in net : Receive(p)
  BY <1>8, <1>10
<1> QED BY <1>7, <1>9, <1>10 DEF Next, Publish, Confirm, Ask, Bind, Refuse, vars

-----------------------------------------------------------------------------
(* Packets delivered.                                                      *)

(* A packet that reaches a client reaches the end of its chain, and the    *)
(* address it is delivered under is found for the domain of its sender.    *)
LEMMA DeliverKeeps ==
  ASSUME Inv, NEW p \in net, Deliver(p)
  PROVE  \E c \in Clients :
           /\ delivered' = {[client |-> c, from |-> p.from, to |-> p.to,
                             ret |-> BindingOf(p.at, ReturnDomain(p))]}
           /\ Home[c] = p.at /\ DomainOf[c] = p.to
           /\ Bound(p.at, ReturnDomain(p))
<1> USE DEF Inv
<1>1. PICK c \in Local(p) :
         /\ Bound(p.at, ReturnDomain(p))
         /\ delivered' = {[client |-> c, from |-> p.from, to |-> p.to,
                           ret |-> BindingOf(p.at, ReturnDomain(p))]}
  BY DEF Deliver
<1>2. c \in Clients /\ Home[c] = p.at /\ Head(p.chain) = c
  BY DEF Local
<1>3. p \in Packet /\ Home[p.from] \in Devices
  BY HomeAssumption DEF TypeOK, Packet
<1>4. PICK k \in DOMAIN bindings[Home[p.from]], n \in 1 .. 3 :
         /\ bindings[Home[p.from]][k].dom = p.to
         /\ p.chain = SubSeq(bindings[Home[p.from]][k].chain, n + 1, 4)
  BY DEF OnRoute
<1> DEFINE b == bindings[Home[p.from]][k]
<1>5. PICK a \in Clients : DomainOf[a] = b.dom /\ b.chain \in Chains(a)
  BY <1>3 DEF BindingsInv, LeadsTo
<1>6. c = b.chain[n + 1]
  BY <1>2, <1>4, <1>5, RemainderRows
<1>7. b.chain[2] \in Devices /\ b.chain[3] \in Devices /\ b.chain[4] = a
  BY <1>5, ChainRows, HomeAssumption
<1>8. n = 3
  <2>1. n = 1 => n + 1 = 2
    OBVIOUS
  <2>2. n = 2 => n + 1 = 3
    OBVIOUS
  <2>3. c \notin Devices
    BY <1>2, HomeAssumption
  <2> QED BY <1>6, <1>7, <2>1, <2>2, <2>3
<1>9. c = a
  BY <1>6, <1>7, <1>8
<1> QED BY <1>1, <1>2, <1>4, <1>5, <1>9

(* What was delivered was for its client, and can be answered.             *)
LEMMA StepDelivered ==
  ASSUME Inv, [Next]_vars
  PROVE  /\ \A m \in delivered' : m \in [client : Clients, from : Clients,
                                         to : Domains, ret : Nat]
         /\ DeliveredToAddressee' /\ ReplyReachesSender'
<1> USE DEF Inv
<1>1. Grow /\ bindings' \in [Devices -> Seq(Binding)] /\ BindingsInv'
  BY StepNaming
<1>2. Home \in [Clients -> Devices] /\ DomainOf \in [Clients -> Domains]
  BY HomeAssumption
<1> DEFINE Answerable(m) ==
             /\ m.ret \in DOMAIN bindings[Home[m.client]]
             /\ bindings[Home[m.client]][m.ret].dom = DomainOf[m.from]
           Good(m) ==
             /\ m \in [client : Clients, from : Clients, to : Domains, ret : Nat]
             /\ DomainOf[m.client] = m.to
             /\ Answerable(m)
<1>3. ASSUME UNCHANGED delivered PROVE \A m \in delivered' : Good(m)
  BY <1>3 DEF TypeOK, DeliveredToAddressee, ReplyReachesSender
<1>4. ASSUME NEW p \in net, Deliver(p) PROVE \A m \in delivered' : Good(m)
  <2>1. PICK c \in Clients :
           /\ delivered' = {[client |-> c, from |-> p.from, to |-> p.to,
                             ret |-> BindingOf(p.at, ReturnDomain(p))]}
           /\ Home[c] = p.at /\ DomainOf[c] = p.to
           /\ Bound(p.at, ReturnDomain(p))
    BY <1>4, DeliverKeeps
  <2>2. p.from \in Clients /\ p.to \in Domains /\ p.at \in Devices
    BY DEF TypeOK, Packet
  <2> DEFINE r == BindingOf(p.at, ReturnDomain(p))
  <2>3. r \in DOMAIN bindings[p.at] /\ bindings[p.at][r].dom = DomainOf[p.from]
    BY <2>1, <2>2, BindingOfFinds DEF ReturnDomain
  <2>4. r \in Nat
    <3>1. bindings[p.at] \in Seq(Binding)
      BY <2>2 DEF TypeOK
    <3>2. DOMAIN bindings[p.at] = 1 .. Len(bindings[p.at])
      BY <3>1
    <3> QED BY <2>3, <3>2
  <2> HIDE DEF r
  <2>5. delivered' = {[client |-> c, from |-> p.from, to |-> p.to, ret |-> r]}
    BY <2>1 DEF r
  <2> QED BY <2>1, <2>2, <2>3, <2>4, <2>5
<1>5. \A m \in delivered' : Good(m)
  <2>1. ASSUME NEW p \in net, Receive(p) PROVE \A m \in delivered' : Good(m)
    BY <1>3, <1>4, <2>1 DEF Receive, Relay, Forward, DropUnreturnable, DropStranger
  <2> HIDE DEF Good
  <2>2. CASE \E p \in net : Receive(p)
    BY <2>1, <2>2
  <2> QED BY <1>3, <2>2 DEF Next, Publish, Confirm, Ask, Bind, Refuse, TunnelSend, Forward, vars
<1>6. ReplyReachesSender'
  <2> SUFFICES ASSUME NEW m \in delivered'
      PROVE /\ m.ret \in DOMAIN bindings'[Home[m.client]]
            /\ LET b == bindings'[Home[m.client]][m.ret] IN
                 /\ b.dom = DomainOf[m.from]
                 /\ \E c \in Clients : b.chain[4] = c /\ b.chain[3] = Home[c]
                                       /\ DomainOf[c] = b.dom
    BY DEF ReplyReachesSender
  <2>1. Home[m.client] \in Devices /\ Answerable(m)
    BY <1>2, <1>5
  <2> DEFINE b == bindings'[Home[m.client]][m.ret]
  <2>2. m.ret \in DOMAIN bindings'[Home[m.client]] /\ b.dom = DomainOf[m.from]
    BY <1>1, <2>1 DEF Grow
  <2>3. PICK c \in Clients : DomainOf[c] = b.dom /\ b.chain \in Chains(c)
    BY <1>1, <2>1, <2>2 DEF BindingsInv, LeadsTo
  <2>4. b.chain[4] = c /\ b.chain[3] = Home[c]
    BY <2>3, ChainRows
  <2> QED BY <2>2, <2>3, <2>4
<1>7. DeliveredToAddressee'
  BY <1>5 DEF DeliveredToAddressee
<1> QED BY <1>5, <1>6, <1>7

-----------------------------------------------------------------------------
LEMMA InvHolds == Spec => []Inv
<1>1. Inv /\ [Next]_vars => Inv'
  <2> SUFFICES ASSUME Inv, [Next]_vars PROVE Inv'
    OBVIOUS
  <2>1. TypeOK'
    BY StepNaming, StepNet, StepDelivered DEF TypeOK
  <2> QED BY <2>1, StepNaming, StepNet, StepDelivered DEF Inv
<1> QED BY InitInv, <1>1, PTL DEF Spec

(* The variables of the devices keep their types, for any number of        *)
(* devices, clients and bindings.                                          *)
THEOREM TypeCorrect == Spec => []TypeOK
<1>1. Inv => TypeOK
  BY DEF Inv
<1> QED BY <1>1, InvHolds, PTL

(* What is left of a packet's chain is always the rest of a chain that is  *)
(* bound to its destination, however often a row was parsed in place.      *)
THEOREM OnRouteCorrect == Spec => []OnRoute
<1>1. Inv => OnRoute
  BY DEF Inv
<1> QED BY <1>1, InvHolds, PTL

(* A packet is delivered to a client of the domain it was sent to only,    *)
(* over sockets that send astray too.                                      *)
THEOREM AddresseeCorrect == Spec => []DeliveredToAddressee
<1>1. Inv => DeliveredToAddressee
  BY DEF Inv
<1> QED BY <1>1, InvHolds, PTL

(* The address a packet is delivered under stays bound to its sender's     *)
(* domain, by a chain that leads to a client of it.                        *)
THEOREM ReplyCorrect == Spec => []ReplyReachesSender
<1>1. Inv => ReplyReachesSender
  BY DEF Inv
<1> QED BY <1>1, InvHolds, PTL

-----------------------------------------------------------------------------
(* The promise of DomainPipe.                                              *)

PairOf(p) == [from |-> p.from, to |-> p.to]
PairsOf(ps) == {PairOf(p) : p \in ps}

LEMMA OnTheWayPairs == OnTheWay = PairsOf(net) /\ OnTheWay' = PairsOf(net')
BY DEF OnTheWay, PairsOf, PairOf

(* Taking a packet away, or not, loses its pair or nothing.                *)
LEMMA RestPairs ==
  ASSUME NEW p \in net, NEW r \in Rest(p)
  PROVE  /\ PairsOf(r) = PairsOf(net) \/ PairsOf(r) = PairsOf(net) \ {PairOf(p)}
         /\ PairsOf(r) \cup {PairOf(p)} = PairsOf(net)
<1>1. r = net \/ r = net \ {p}
  BY DEF Rest
<1>2. PairOf(p) \in PairsOf(net)
  BY DEF PairsOf
<1>3. CASE r = net
  BY <1>2, <1>3
<1>4. CASE r = net \ {p}
  <2>1. PairsOf(r) \cup {PairOf(p)} = PairsOf(net)
    BY <1>4 DEF PairsOf
  <2> QED BY <2>1
<1> QED BY <1>1, <1>3, <1>4

(* What was delivered stays answerable while bindings grow.                *)
LEMMA ReceivedStays ==
  ASSUME Inv, [Next]_vars, UNCHANGED delivered
  PROVE  Received' = Received
<1>1. Grow
  BY StepNaming DEF Inv
<1>2. \A m \in delivered :
        bindings'[Home[m.client]][m.ret].dom = bindings[Home[m.client]][m.ret].dom
  <2> TAKE m \in delivered
  <2>1. /\ m.client \in Clients
        /\ m.ret \in DOMAIN bindings[Home[m.client]]
    BY DEF Inv, TypeOK, ReplyReachesSender
  <2>2. Home[m.client] \in Devices
    BY <2>1, HomeAssumption
  <2> QED BY <1>1, <2>1, <2>2 DEF Grow
<1> QED BY <1>2 DEF Received

LEMMA InitPipe == Init => Pipe!Init
BY DEF Init, Pipe!Init, OnTheWay, Received

LEMMA LosePipe ==
  ASSUME NEW p \in net, PairsOf(net') = PairsOf(net) \ {PairOf(p)},
         UNCHANGED Received
  PROVE  Pipe!Next
<1>1. PairOf(p) \in OnTheWay
  BY OnTheWayPairs DEF PairsOf
<1>2. Pipe!Lose(PairOf(p))
  BY OnTheWayPairs DEF Pipe!Lose
<1> QED BY <1>1, <1>2 DEF Pipe!Next

LEMMA StepPipe ==
  ASSUME Inv, Inv', [Next]_vars
  PROVE  Pipe!Next \/ UNCHANGED <<OnTheWay, Received>>
<1> DEFINE Goal == Pipe!Next \/ UNCHANGED <<OnTheWay, Received>>
<1> SUFFICES Goal
  OBVIOUS
<1>1. ASSUME UNCHANGED <<net, delivered>> PROVE Goal
  BY <1>1, ReceivedStays, OnTheWayPairs
<1>2. ASSUME NEW c \in Clients, NEW k \in 1 .. MaxBound, TunnelSend(c, k)
      PROVE  Goal
  <2> DEFINE b == bindings[Home[c]][k]
             p == [from |-> c, to |-> b.dom, chain |-> b.chain, at |-> Home[c]]
  <2>1. k \in DOMAIN bindings[Home[c]] /\ Forward(p, net)
    BY <1>2 DEF TunnelSend
  <2>2. b.dom \in Domains
    <3>1. Home[c] \in Devices
      BY HomeAssumption
    <3>2. b \in Binding
      BY <2>1, <3>1 DEF Inv, TypeOK
    <3> QED BY <3>2 DEF Binding
  <2>3. UNCHANGED delivered
    BY <2>1 DEF Forward
  <2>4. UNCHANGED Received
    BY <2>3, ReceivedStays
  <2>5. CASE net' = net
    BY <1>1, <2>3, <2>5
  <2>6. CASE net' # net
    <3>1. PICK e \in Devices : net' = net \cup {[p EXCEPT !.chain = Peeled(p), !.at = e]}
      BY <2>1, <2>6 DEF Forward
    <3> DEFINE q == [p EXCEPT !.chain = Peeled(p), !.at = e]
    <3>2. /\ p \in [from : {c}, to : {b.dom}, chain : {b.chain}, at : {Home[c]}]
          /\ p.from = c /\ p.to = b.dom
      OBVIOUS
    <3> HIDE DEF p, b
    <3>3. PairOf(q) = [from |-> c, to |-> b.dom]
      BY <3>2 DEF PairOf
    <3> HIDE DEF q
    <3>4. net' = net \cup {q}
      BY <3>1 DEF q
    <3>5. PairsOf(net') = PairsOf(net) \cup {PairOf(q)}
      BY <3>4 DEF PairsOf
    <3>6. Pipe!Send(c, b.dom)
      BY <2>4, <3>3, <3>5, OnTheWayPairs DEF Pipe!Send
    <3> QED BY <2>2, <3>6 DEF Pipe!Next
  <2> QED BY <2>5, <2>6
<1>3. ASSUME NEW p \in net, Relay(p) PROVE Goal
  <2>1. PICK rest \in Rest(p) : Forward(p, rest)
    BY <1>3 DEF Relay
  <2>2. UNCHANGED Received
    BY <2>1, ReceivedStays DEF Forward
  <2>3. CASE net' = rest
    BY <2>2, <2>3, RestPairs, LosePipe, OnTheWayPairs
  <2>4. CASE net' # rest
    <3>1. PICK e \in Devices : net' = rest \cup {[p EXCEPT !.chain = Peeled(p), !.at = e]}
      BY <2>1, <2>4 DEF Forward
    <3> DEFINE q == [p EXCEPT !.chain = Peeled(p), !.at = e]
    <3>2. p \in Packet
      BY DEF Inv, TypeOK
    <3>3. PairOf(q) = PairOf(p)
      BY <3>2 DEF PairOf, Packet
    <3> HIDE DEF q
    <3>4. PairsOf(net') = PairsOf(rest) \cup {PairOf(q)}
      BY <3>1 DEF PairsOf, q
    <3>5. PairsOf(net') = PairsOf(net)
      BY <3>3, <3>4, RestPairs
    <3> QED BY <2>2, <3>5, OnTheWayPairs
  <2> QED BY <2>3, <2>4
<1>4. ASSUME NEW p \in net, net' \in Rest(p), UNCHANGED delivered PROVE Goal
  <2>1. UNCHANGED Received
    BY <1>4, ReceivedStays
  <2> QED BY <1>4, <2>1, RestPairs, LosePipe, OnTheWayPairs
<1>5. ASSUME NEW p \in net, Deliver(p) PROVE Goal
  <2>1. PICK c \in Clients :
          /\ delivered' = {[client |-> c, from |-> p.from, to |-> p.to,
                            ret |-> BindingOf(p.at, ReturnDomain(p))]}
          /\ Home[c] = p.at /\ DomainOf[c] = p.to
    BY <1>5, DeliverKeeps
  <2> DEFINE r == BindingOf(p.at, ReturnDomain(p))
             m == [client |-> c, from |-> p.from, to |-> p.to, ret |-> r]
  <2>2. delivered' = {m} /\ m.client = c /\ m.from = p.from
    BY <2>1
  <2> HIDE DEF m
  <2>3. bindings'[Home[m.client]][m.ret].dom = DomainOf[m.from]
    BY <2>2 DEF Inv, ReplyReachesSender
  <2>4. Received' = {[client |-> c, from |-> p.from, reply |-> DomainOf[p.from]]}
    BY <2>2, <2>3 DEF Received
  <2>5. /\ PairOf(p).from = p.from /\ PairOf(p).to = p.to
        /\ PairOf(p) \in OnTheWay
    BY OnTheWayPairs DEF PairOf, PairsOf
  <2>6. OnTheWay' = OnTheWay \ {PairOf(p)} \/ OnTheWay' = OnTheWay
    BY <1>5, RestPairs, OnTheWayPairs DEF Deliver
  <2>7. Pipe!Deliver(c, PairOf(p))
    BY <2>1, <2>4, <2>5, <2>6 DEF Pipe!Deliver
  <2> QED BY <2>5, <2>7 DEF Pipe!Next
<1>6. ASSUME NEW p \in net, Receive(p) PROVE Goal
  BY <1>3, <1>4, <1>5, <1>6 DEF Receive, DropUnreturnable, DropStranger
<1> HIDE DEF Goal
<1>7. CASE \E p \in net : Receive(p)
  BY <1>6, <1>7
<1>8. CASE \E c \in Clients, k \in 1 .. MaxBound : TunnelSend(c, k)
  BY <1>2, <1>8
<1> QED BY <1>1, <1>7, <1>8 DEF Next, Publish, Confirm, Ask, Bind, Refuse, vars

(* The devices keep the promise of DomainPipe, for any number of devices,  *)
(* clients and chains, and any loss, duplication and misdirection.         *)
THEOREM PipeImplemented == Spec => ImplementsPipe
<1>1. Inv /\ Inv' /\ [Next]_vars => [Pipe!Next]_<<OnTheWay, Received>>
  BY StepPipe
<1> QED BY InvHolds, InitPipe, <1>1, PTL DEF ImplementsPipe, Pipe!Spec, Spec

-----------------------------------------------------------------------------
(* What becomes of a packet while nothing is lost or sent astray.  The     *)
(* progress of PacketTeaches rests on these two properties of a step.      *)

(* It is one row further on its chain, or delivered by a device that can   *)
(* name its sender, or a device of the domain it was sent to has asked for *)
(* the domain of its sender.                                               *)
Followed(p) ==
  \/ \E q \in net' : q.from = p.from /\ q.to = p.to /\ q.chain = Tail(p.chain)
  \/ \E m \in delivered' : m.from = p.from /\ m.to = p.to /\ CanAnswer(p.to, p.from)
  \/ \E a \in Clients : DomainOf[a] = p.to /\ DomainOf[p.from] \in asked'[Home[a]]

NoPacketVanishes == [][\A p \in net : p \in net' \/ Followed(p)]_vars

(* A question is there until it is answered or nobody has the domain.      *)
QuestionsStand ==
  [][\A e \in Devices : \A d \in asked[e] :
       d \in asked'[e] \/ Bound(e, d)' \/ Owners(d) = {}]_vars

(* Where the rows of a chain end.                                          *)
LEMMA ChainEnds ==
  ASSUME Inv, NEW p \in net, Head(p.chain) \in Clients
  PROVE  /\ DomainOf[Head(p.chain)] = p.to
         /\ ~Astray => Head(p.chain) \in Local(p)
<1>1. PICK k \in DOMAIN bindings[Home[p.from]], n \in 1 .. 3 :
        /\ bindings[Home[p.from]][k].dom = p.to
        /\ p.chain = SubSeq(bindings[Home[p.from]][k].chain, n + 1, 4)
        /\ Astray \/ p.at = bindings[Home[p.from]][k].chain[n]
  BY DEF Inv, OnRoute
<1> DEFINE b == bindings[Home[p.from]][k]
<1>2. p.from \in Clients
  BY DEF Inv, TypeOK, Packet
<1>3. PICK c \in Clients : LeadsTo(b, c)
  BY <1>2, HomeAssumption DEF Inv, BindingsInv
<1>4. b.dom = p.to /\ p.chain = SubSeq(b.chain, n + 1, 4) /\ (Astray \/ p.at = b.chain[n])
  BY <1>1
<1> HIDE DEF b
<1>5. DomainOf[c] = b.dom /\ b.chain \in Chains(c)
  BY <1>3 DEF LeadsTo
<1>6. Head(p.chain) = b.chain[n + 1]
  BY <1>4, <1>5, RemainderRows
<1>7. /\ b.chain[2] \in Devices /\ b.chain[3] = Home[c] /\ b.chain[4] = c
      /\ Home[c] \in Devices /\ Devices \cap Clients = {}
  BY <1>5, ChainRows, HomeAssumption
<1>8. n = 3
  <2>1. CASE n = 1
    BY <1>6, <1>7, <2>1
  <2>2. CASE n = 2
    BY <1>6, <1>7, <2>2
  <2> QED BY <2>1, <2>2
<1>9. Head(p.chain) = c /\ (Astray \/ p.at = Home[c])
  BY <1>4, <1>6, <1>7, <1>8
<1> QED BY <1>4, <1>5, <1>9 DEF Local

(* While nothing is lost or sent astray no packet vanishes: it is relayed, *)
(* delivered, or dropped for want of an address that has been asked for;   *)
(* none reaches a device that does not know its addressee                  *)
(* (apply_and_route_rss_packet()).                                         *)
THEOREM NoPacketVanishesCorrect ==
  ASSUME ~Lossy, ~Astray
  PROVE  Spec => NoPacketVanishes
<1> DEFINE Kept(p) == p \in net' \/ Followed(p)
<1>1. Inv /\ [Next]_vars => \A p \in net : Kept(p)
  <2> SUFFICES ASSUME Inv, [Next]_vars, NEW p \in net PROVE Kept(p)
    OBVIOUS
  <2>a. net \subseteq Packet /\ asked \in [Devices -> SUBSET Domains]
    BY DEF Inv, TypeOK
  <2>1. ASSUME net \subseteq net' PROVE Kept(p)
    BY <2>1
  <2>2. ASSUME NEW q \in net, net' \in Rest(q), q # p PROVE Kept(p)
    BY <2>2 DEF Rest
  <2>3. ASSUME NEW q \in net, Relay(q) PROVE Kept(p)
    <3>1. PICK rest \in Rest(q) : Forward(q, rest)
      BY <2>3 DEF Relay
    <3>2. PICK e \in Devices : net' = rest \cup {[q EXCEPT !.chain = Peeled(q), !.at = e]}
      BY <3>1 DEF Forward
    <3>3. CASE q = p
      <4> DEFINE next == [p EXCEPT !.chain = Peeled(p), !.at = e]
      <4>1. next.from = p.from /\ next.to = p.to /\ next.chain = Tail(p.chain)
        BY <2>a DEF Packet, Peeled
      <4>2. next \in net'
        BY <3>2, <3>3
      <4> HIDE DEF next
      <4> QED BY <4>1, <4>2 DEF Followed
    <3>4. CASE q # p
      BY <3>1, <3>2, <3>4 DEF Rest
    <3> QED BY <3>3, <3>4
  <2>4. ASSUME NEW q \in net, Deliver(q) PROVE Kept(p)
    <3>1. PICK c \in Local(q) :
            /\ Bound(q.at, ReturnDomain(q))
            /\ delivered' = {[client |-> c, from |-> q.from, to |-> q.to,
                              ret |-> BindingOf(q.at, ReturnDomain(q))]}
      BY <2>4 DEF Deliver
    <3>2. c \in Clients /\ Home[c] = q.at /\ Head(q.chain) = c
      BY <3>1 DEF Local
    <3>3. DomainOf[c] = q.to
      BY <3>2, ChainEnds
    <3>4. CanAnswer(q.to, q.from)
      BY <3>1, <3>2, <3>3 DEF CanAnswer, ReturnDomain
    <3>5. Followed(q)
      BY <3>1, <3>4 DEF Followed
    <3>6. net' \in Rest(q)
      BY <2>4 DEF Deliver
    <3> QED BY <2>2, <3>5, <3>6
  <2>5. ASSUME NEW q \in net, DropUnreturnable(q) PROVE Kept(p)
    <3>1. PICK c \in Local(q) : TRUE
      BY <2>5 DEF DropUnreturnable
    <3>2. c \in Clients /\ Home[c] = q.at /\ Head(q.chain) = c /\ q.at \in Devices
      BY <2>a, <3>1 DEF Local, Packet
    <3>3. DomainOf[c] = q.to
      BY <3>2, ChainEnds
    <3>4. asked' = [asked EXCEPT ![q.at] = @ \cup {DomainOf[q.from]}]
      BY <2>5 DEF DropUnreturnable, AskedFor, ReturnDomain
    <3>5. DomainOf[q.from] \in asked'[Home[c]]
      BY <2>a, <3>2, <3>4
    <3>6. Followed(q)
      BY <3>2, <3>3, <3>5 DEF Followed
    <3>7. net' \in Rest(q)
      BY <2>5 DEF DropUnreturnable
    <3> QED BY <2>2, <3>6, <3>7
  <2>6. ASSUME NEW q \in net, DropStranger(q) PROVE Kept(p)
    BY <2>6, ChainEnds DEF DropStranger
  <2>7. ASSUME NEW c \in Clients, NEW k \in 1 .. MaxBound, TunnelSend(c, k) PROVE Kept(p)
    BY <2>7 DEF TunnelSend, Forward
  <2>8. ASSUME NEW c \in Clients, NEW S, Publish(c, S) PROVE Kept(p)
    BY <2>1, <2>8 DEF Publish
  <2>9. ASSUME NEW c \in Clients, Confirm(c) PROVE Kept(p)
    BY <2>1, <2>9 DEF Confirm
  <2>10. ASSUME NEW e \in Devices, NEW d \in Domains, Ask(e, d) \/ Bind(e, d) \/ Refuse(e, d)
         PROVE  Kept(p)
    BY <2>1, <2>10 DEF Ask, Bind, Refuse
  <2>11. CASE UNCHANGED vars
    BY <2>1, <2>11 DEF vars
  <2> HIDE DEF Kept
  <2> QED BY <2>3, <2>4, <2>5, <2>6, <2>7, <2>8, <2>9, <2>10, <2>11 DEF Next, Receive
<1> QED BY <1>1, InvHolds, PTL DEF Spec, NoPacketVanishes

(* What was appended is found.                                             *)
LEMMA BoundOnceAppended ==
  ASSUME TypeOK, NEW e \in Devices, NEW d \in Domains, Bind(e, d)
  PROVE  Bound(e, d)'
<1>1. PICK c \in Owners(d) : \E ch \in published[c] :
         bindings' = [bindings EXCEPT ![e] = Append(@, [dom |-> d, chain |-> ch])]
  BY DEF Bind
<1>2. PICK ch \in published[c] :
         bindings' = [bindings EXCEPT ![e] = Append(@, [dom |-> d, chain |-> ch])]
  BY <1>1
<1>3. bindings \in [Devices -> Seq(Binding)] /\ bindings[e] \in Seq(Binding)
  BY DEF TypeOK
<1> DEFINE b == [dom |-> d, chain |-> ch]
           n == Len(bindings[e]) + 1
           I == {i \in 1 .. Len(bindings'[e]) : bindings'[e][i].dom = d}
<1>4. b.dom = d
  OBVIOUS
<1>5. bindings'[e] = Append(bindings[e], b)
  BY <1>2, <1>3
<1> HIDE DEF b
<1>6. Len(bindings'[e]) = n /\ bindings'[e][n] = b /\ n \in 1 .. n
  BY <1>3, <1>5
<1>7. n \in I
  BY <1>4, <1>6
<1>8. I \in SUBSET Nat /\ 0 \notin I
  OBVIOUS
<1>9. Min(I) \in I
  BY <1>7, <1>8, MinOfNat
<1>10. BindingOf(e, d)' = IF I # {} THEN Min(I) ELSE 0
  BY DEF BindingOf, SelectInSeq
<1> HIDE DEF I
<1> QED BY <1>7, <1>8, <1>9, <1>10 DEF Bound

(* While nothing is lost a question to the RouteServer leaves the network  *)
(* with an address bound to its domain, or because no client has the       *)
(* domain (the getChainsRequest of apply_and_route_rss_packet() and of the *)
(* DNS thread).                                                            *)
THEOREM QuestionsStandCorrect ==
  ASSUME ~Lossy
  PROVE  Spec => QuestionsStand
<1> DEFINE Stands(e, d) == d \in asked'[e] \/ Bound(e, d)' \/ Owners(d) = {}
<1>1. Inv /\ [Next]_vars => \A e \in Devices : \A d \in asked[e] : Stands(e, d)
  <2> SUFFICES ASSUME Inv, [Next]_vars, NEW e \in Devices, NEW d \in asked[e] PROVE Stands(e, d)
    OBVIOUS
  <2>a. TypeOK /\ asked \in [Devices -> SUBSET Domains] /\ d \in Domains
    BY DEF Inv, TypeOK
  <2>1. ASSUME UNCHANGED asked PROVE Stands(e, d)
    BY <2>1
  <2>2. ASSUME NEW f \in Devices, NEW g \in Domains, Ask(f, g) PROVE Stands(e, d)
    BY <2>a, <2>2 DEF Ask
  <2>3. ASSUME NEW f \in Devices, NEW g \in Domains, Bind(f, g) PROVE Stands(e, d)
    <3>1. CASE f = e /\ g = d
      BY <2>a, <2>3, <3>1, BoundOnceAppended
    <3>2. CASE ~(f = e /\ g = d)
      BY <2>a, <2>3, <3>2 DEF Bind
    <3> QED BY <3>1, <3>2
  <2>4. ASSUME NEW f \in Devices, NEW g \in Domains, Refuse(f, g) PROVE Stands(e, d)
    BY <2>a, <2>4 DEF Refuse
  <2>5. ASSUME NEW q \in net, Receive(q) PROVE Stands(e, d)
    <3>1. CASE DropUnreturnable(q)
      BY <2>a, <3>1 DEF DropUnreturnable
    <3>2. CASE Relay(q) \/ Deliver(q) \/ DropStranger(q)
      BY <2>1, <3>2 DEF Relay, Forward, Deliver, DropStranger
    <3> QED BY <2>5, <3>1, <3>2 DEF Receive
  <2>6. ASSUME NEW c \in Clients, NEW k \in 1 .. MaxBound, TunnelSend(c, k) PROVE Stands(e, d)
    BY <2>1, <2>6 DEF TunnelSend, Forward
  <2>7. ASSUME NEW c \in Clients, NEW S, Publish(c, S) PROVE Stands(e, d)
    BY <2>1, <2>7 DEF Publish
  <2>8. ASSUME NEW c \in Clients, Confirm(c) PROVE Stands(e, d)
    BY <2>1, <2>8 DEF Confirm
  <2>9. CASE UNCHANGED vars
    BY <2>1, <2>9 DEF vars
  <2> HIDE DEF Stands
  <2> QED BY <2>2, <2>3, <2>4, <2>5, <2>6, <2>7, <2>8, <2>9 DEF Next
<1> QED BY <1>1, InvHolds, PTL DEF Spec, QuestionsStand
=============================================================================
