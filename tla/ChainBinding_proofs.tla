------------------------- MODULE ChainBinding_proofs -------------------------
(***************************************************************************)
(* Proofs about ChainBinding, for every set of domains and queries, every  *)
(* checksum function and every base of a byte.                             *)
(***************************************************************************)
EXTENDS ChainBinding, ChainAddress_proofs, SearchTheorems, SequenceTheorems

-----------------------------------------------------------------------------
(* Searching a vector.                                                     *)

LEMMA FirstForFinds ==
  ASSUME NEW S, NEW seq \in Seq(S), NEW d
  PROVE  /\ FirstFor(seq, d) \in 0 .. Len(seq)
         /\ FirstFor(seq, d) # 0 <=> \E i \in 1 .. Len(seq) : seq[i].dom = d
         /\ FirstFor(seq, d) # 0 =>
              /\ seq[FirstFor(seq, d)].dom = d
              /\ \A i \in 1 .. FirstFor(seq, d) - 1 : seq[i].dom # d
<1> DEFINE I == {i \in 1 .. Len(seq) : SameAddress(seq[i].dom, d)}
           k == FirstFor(seq, d)
<1>1. k = IF I # {} THEN Min(I) ELSE 0
  BY DEF FirstFor, SelectInSeq
<1>2. I # {} => Min(I) \in I /\ \A j \in I : Min(I) <= j
  <2>1. I \in SUBSET Nat
    OBVIOUS
  <2> QED BY <2>1, MinOfNat
<1>3. \A i \in 1 .. Len(seq) : i \in I <=> seq[i].dom = d
  BY DEF SameAddress
<1>4. I \subseteq 1 .. Len(seq) /\ Len(seq) \in Nat
  OBVIOUS
<1> HIDE DEF I, k
<1>5. CASE I = {}
  BY <1>1, <1>3, <1>4, <1>5 DEF k
<1>6. CASE I # {}
  <2>1. k \in I /\ \A j \in I : k <= j
    BY <1>1, <1>2, <1>6
  <2>2. k \in 1 .. Len(seq) /\ seq[k].dom = d
    BY <2>1, <1>3, <1>4
  <2>3. \A i \in 1 .. k - 1 : seq[i].dom # d
    BY <2>1, <2>2, <1>3, <1>4
  <2> QED BY <2>2, <2>3 DEF k
<1> QED BY <1>5, <1>6

LEMMA BindingOfFirst ==
  ASSUME TypeOK, NEW d, Bound(d)
  PROVE  /\ BindingOf(d) \in 1 .. Len(bindedChains)
         /\ bindedChains[BindingOf(d)].dom = d
<1>1. bindedChains \in Seq(Binding)
  BY DEF TypeOK
<1> QED BY <1>1, FirstForFinds DEF BindingOf, Bound

LEMMA WaiterForDomain ==
  ASSUME TypeOK, NEW d
  PROVE  /\ WaiterFor(d) \in 0 .. Len(dnsRequests)
         /\ WaiterFor(d) # 0 => dnsRequests[WaiterFor(d)].dom = d
<1>1. dnsRequests \in Seq(Request)
  BY DEF TypeOK
<1> QED BY <1>1, FirstForFinds DEF WaiterFor

LEMMA RemoveAtElements ==
  ASSUME NEW S, NEW s \in Seq(S), NEW i \in 1 .. Len(s)
  PROVE  /\ RemoveAt(s, i) \in Seq(S)
         /\ Len(RemoveAt(s, i)) = Len(s) - 1
         /\ \A k \in 1 .. Len(s) - 1 :
              RemoveAt(s, i)[k] = IF k < i THEN s[k] ELSE s[k + 1]
<1> DEFINE left == SubSeq(s, 1, i - 1)
           right == SubSeq(s, i + 1, Len(s))
<1>1. Len(s) \in Nat /\ \A j \in 1 .. Len(s) : s[j] \in S
  OBVIOUS
<1>2. /\ left \in Seq(S) /\ Len(left) = i - 1
      /\ \A k \in 1 .. i - 1 : left[k] = s[k]
  BY <1>1, SubSeqProperties
<1>3. /\ right \in Seq(S) /\ Len(right) = Len(s) - i
      /\ \A k \in 1 .. Len(s) - i : right[k] = s[i + k]
  BY <1>1, SubSeqProperties
<1> HIDE DEF left, right
<1>4. /\ left \o right \in Seq(S)
      /\ Len(left \o right) = Len(left) + Len(right)
      /\ \A k \in 1 .. Len(left) + Len(right) :
           (left \o right)[k] = IF k <= Len(left) THEN left[k]
                                                ELSE right[k - Len(left)]
  BY <1>2, <1>3, ConcatProperties, Zenon
<1>5. Len(left) + Len(right) = Len(s) - 1
  BY <1>1, <1>2, <1>3
<1>6. \A k \in 1 .. Len(s) - 1 :
        (left \o right)[k] = IF k < i THEN s[k] ELSE s[k + 1]
  <2> TAKE k \in 1 .. Len(s) - 1
  <2>1. k \in Int /\ i \in Int /\ Len(s) \in Int
    BY <1>1
  <2>2. CASE k < i
    <3>1. k <= Len(left) /\ k \in 1 .. i - 1
      BY <1>2, <2>1, <2>2
    <3> QED BY <3>1, <1>2, <1>4, <1>5, <2>2
  <2>3. CASE ~ (k < i)
    <3>1. ~ (k <= Len(left)) /\ k - Len(left) \in 1 .. Len(s) - i
      BY <1>1, <1>2, <2>1, <2>3
    <3>2. i + (k - Len(left)) = k + 1
      BY <1>2, <2>1
    <3>3. right[k - Len(left)] = s[k + 1]
      BY <3>1, <3>2, <1>3
    <3> QED BY <3>1, <3>3, <1>4, <1>5, <2>3
  <2> QED BY <2>2, <2>3
<1> QED BY <1>4, <1>5, <1>6 DEF RemoveAt, left, right

-----------------------------------------------------------------------------
(* Types.                                                                  *)

LEMMA InitTypeOK == Init => TypeOK
BY FirstIsAddress DEF Init, TypeOK, NoAddress

LEMMA SendType ==
  ASSUME TypeOK, NEW d \in Domains, SendGetChains(d)
  PROVE  requests' \in [Domains -> Nat] /\ responses' = responses
<1>1. /\ requests' = [requests EXCEPT ![d] = @ + 1] \/ requests' = requests
      /\ responses' = responses
  BY Zenon DEF SendGetChains
<1>2. requests \in [Domains -> Nat]
  BY DEF TypeOK
<1>3. [requests EXCEPT ![d] = @ + 1] \in [Domains -> Nat]
  BY <1>2
<1> QED BY <1>1, <1>2, <1>3, Zenon

LEMMA AnswerType ==
  ASSUME TypeOK, NEW q \in Queries, NEW a \in Address \cup {NoAddress}, Answer(q, a)
  PROVE  answers' \in [Queries -> Seq(Address \cup {NoAddress})]
<1>1. Append(answers[q], a) \in Seq(Address \cup {NoAddress})
  BY AppendProperties DEF TypeOK
<1> QED BY <1>1 DEF TypeOK, Answer

(* The device thread binds and answers with values of the right type.      *)
LEMMA DevReceiveType ==
  ASSUME TypeOK, NEW d \in Domains, NEW s \in Statuses, DevReceive(d, s)
  PROVE  TypeOK'
<1>1. responses' \in [Domains -> [Statuses -> Nat]]
  <2>1. /\ responses \in [Domains -> [Statuses -> Nat]]
        /\ responses[d][s] - 1 \in Nat
    BY DEF TypeOK, DevReceive
  <2>2. \/ responses' = [responses EXCEPT ![d][s] = @ - 1]
        \/ responses' = responses
    BY DEF DevReceive
  <2> QED BY <2>1, <2>2
<1>2. CASE s = OK
  <2>1. bindedIp' \in Address
    BY <1>2, IncIsAddress DEF TypeOK, DevReceive
  <2>2. [addr |-> bindedIp', dom |-> d] \in Binding
    BY <2>1 DEF Binding
  <2>3. bindedChains' \in Seq(Binding)
    <3>1. bindedChains \in Seq(Binding)
      BY DEF TypeOK
    <3>2. bindedChains' = Append(bindedChains, [addr |-> bindedIp', dom |-> d])
      BY <1>2 DEF DevReceive
    <3> QED BY <2>2, <3>1, <3>2, AppendProperties
  <2>4. devMsg' \in Message
    BY <1>2, <2>1 DEF DevReceive, Message
  <2> QED BY <1>1, <2>1, <2>3, <2>4
       DEF TypeOK, DevReceive, dnsVars
<1>3. CASE s # OK
  <2>1. devMsg' \in Message
    BY <1>3 DEF DevReceive, Message
  <2> QED BY <1>1, <1>3, <2>1 DEF TypeOK, DevReceive, dnsVars
<1> QED BY <1>2, <1>3

LEMMA DevAnswerType ==
  ASSUME TypeOK, DevAnswer
  PROVE  TypeOK'
<1> DEFINE i == WaiterFor(devMsg.dom)
<1>1. devMsg \in Message /\ dnsRequests \in Seq(Request)
  BY DEF TypeOK, DevAnswer
<1>2. i \in 0 .. Len(dnsRequests)
  BY <1>1, WaiterForDomain
<1>3. CASE i # 0
  <2>1. i \in 1 .. Len(dnsRequests) /\ dnsRequests[i].id \in Queries
    <3> HIDE DEF i
    <3>1. i \in 1 .. Len(dnsRequests)
      BY <1>1, <1>2, <1>3
    <3>2. dnsRequests[i] \in Request
      BY <1>1, <3>1
    <3> QED BY <3>1, <3>2 DEF Request
  <2>2. dnsRequests' \in Seq(Request)
    BY <1>1, <1>3, <2>1, RemoveAtElements DEF DevAnswer
  <2>3. answers' \in [Queries -> Seq(Address \cup {NoAddress})]
    BY <1>1, <1>3, <2>1, AnswerType DEF DevAnswer, Message
  <2> QED BY <2>2, <2>3 DEF TypeOK, DevAnswer, netVars
<1>4. CASE i = 0
  BY <1>4 DEF TypeOK, DevAnswer, netVars
<1> QED BY <1>3, <1>4

LEMMA StepTypeOK == TypeOK /\ [Next]_vars => TypeOK'
<1> SUFFICES ASSUME TypeOK, [Next]_vars PROVE TypeOK'
  OBVIOUS
<1>1. ASSUME NEW q \in Queries, NEW d \in Domains, DnsHit(q, d)
      PROVE  TypeOK'
  <2>1. bindedChains \in Seq(Binding) /\ Bound(d)
    BY <1>1 DEF TypeOK, DnsHit
  <2>2. BindingOf(d) \in 1 .. Len(bindedChains)
    BY <2>1, BindingOfFirst
  <2>3. bindedChains[BindingOf(d)].addr \in Address
    <3>1. bindedChains[BindingOf(d)] \in Binding
      BY <2>1, <2>2
    <3> QED BY <3>1 DEF Binding
  <2>4. answers' \in [Queries -> Seq(Address \cup {NoAddress})]
    BY <1>1, <2>3, AnswerType DEF DnsHit
  <2> QED BY <1>1, <2>4 DEF TypeOK, DnsHit, dnsVars, devVars, netVars
<1>2. ASSUME NEW q \in Queries, NEW d \in Domains, DnsMiss(q, d)
      PROVE  TypeOK'
  <2>1. dnsReq' \in Request
    BY <1>2 DEF DnsMiss, Request
  <2> QED BY <1>2, <2>1 DEF TypeOK, DnsMiss, devVars, netVars
<1>3. CASE DnsSend
  <2>1. dnsReq.dom \in Domains /\ SendGetChains(dnsReq.dom)
    BY <1>3 DEF TypeOK, DnsSend, Request
  <2> QED BY <1>3, <2>1, SendType DEF TypeOK, DnsSend, devVars
<1>4. CASE DnsPush
  <2>1. dnsRequests' \in Seq(Request)
    <3>1. dnsRequests \in Seq(Request) /\ dnsReq \in Request
      BY <1>4 DEF TypeOK, DnsPush
    <3> QED BY <1>4, <3>1, AppendProperties DEF DnsPush
  <2> QED BY <1>4, <2>1 DEF TypeOK, DnsPush, devVars, netVars
<1>5. ASSUME NEW d \in Domains, NEW s \in Statuses, DevReceive(d, s)
      PROVE  TypeOK'
  BY <1>5, DevReceiveType
<1>6. CASE DevAnswer
  BY <1>6, DevAnswerType
<1>7. ASSUME NEW d \in Domains, Resolve(d)
      PROVE  TypeOK'
  <2>1. SendGetChains(d)
    BY <1>7 DEF Resolve
  <2> QED BY <1>7, <2>1, SendType DEF TypeOK, Resolve, dnsVars, devVars
<1>8. ASSUME NEW d \in Domains, NEW s \in Statuses, ServerReply(d, s)
      PROVE  TypeOK'
  <2>1. requests' \in [Domains -> Nat]
    <3>1. requests \in [Domains -> Nat] /\ requests[d] - 1 \in Nat
      BY <1>8 DEF TypeOK, ServerReply
    <3> QED BY <1>8, <3>1 DEF ServerReply
  <2>2. responses' \in [Domains -> [Statuses -> Nat]]
    <3>1. responses \in [Domains -> [Statuses -> Nat]]
      BY DEF TypeOK
    <3> QED BY <1>8, <3>1 DEF ServerReply
  <2> QED BY <1>8, <2>1, <2>2 DEF TypeOK, ServerReply, dnsVars, devVars
<1>9. CASE UNCHANGED vars
  BY <1>9 DEF TypeOK, vars, dnsVars, devVars, netVars
<1> QED BY <1>1, <1>2, <1>3, <1>4, <1>5, <1>6, <1>7, <1>8, <1>9 DEF Next

(* The types of ChainBinding's variables hold in every reachable state.    *)
THEOREM TypeCorrect == Spec => []TypeOK
BY InitTypeOK, StepTypeOK, PTL DEF Spec

-----------------------------------------------------------------------------
(* The vector binded_chains only grows, by one binding of a fresh address  *)
(* at a time.                                                              *)

Bind(d) ==
  /\ Len(bindedChains) < MaxBound
  /\ bindedIp' = IncBinded(bindedIp)
  /\ bindedChains' = Append(bindedChains, [addr |-> bindedIp', dom |-> d])

LEMMA ChainsGrow ==
  ASSUME [Next]_vars
  PROVE  \/ UNCHANGED <<bindedIp, bindedChains>>
         \/ \E d \in Domains : Bind(d)
<1>1. ASSUME NEW d \in Domains, NEW s \in Statuses, DevReceive(d, s)
      PROVE  Bind(d) \/ UNCHANGED <<bindedIp, bindedChains>>
  BY <1>1 DEF DevReceive, Bind
<1>2. CASE UNCHANGED vars
  BY <1>2 DEF vars, devVars
<1> QED BY <1>1, <1>2 DEF Next, DnsHit, DnsMiss, DnsSend, DnsPush, DevAnswer,
             Resolve, ServerReply, devVars

AddrInv ==
  /\ Len(bindedChains) <= MaxBound
  /\ AddressValue(bindedIp) = AddressValue(FirstAddress) + Len(bindedChains)
  /\ \A i \in DOMAIN bindedChains :
       AddressValue(bindedChains[i].addr) = AddressValue(FirstAddress) + i

(* How a binding changes the vector, element by element.                   *)
LEMMA BindAppends ==
  ASSUME TypeOK, TypeOK', NEW d \in Domains, Bind(d)
  PROVE  /\ Len(bindedChains') = Len(bindedChains) + 1
         /\ DOMAIN bindedChains = 1 .. Len(bindedChains)
         /\ DOMAIN bindedChains' = 1 .. Len(bindedChains) + 1
         /\ \A i \in 1 .. Len(bindedChains) : bindedChains'[i] = bindedChains[i]
         /\ bindedChains'[Len(bindedChains) + 1] = [addr |-> bindedIp', dom |-> d]
<1>1. bindedChains \in Seq(Binding) /\ bindedChains' \in Seq(Binding)
  BY DEF TypeOK
<1>2. [addr |-> bindedIp', dom |-> d] \in Binding
  BY DEF TypeOK, Binding
<1>3. bindedChains' = Append(bindedChains, [addr |-> bindedIp', dom |-> d])
  BY DEF Bind
<1> QED BY <1>1, <1>2, <1>3, AppendProperties

(* The address given out next is still short of the end of the subnet, so  *)
(* that inc_binded() does not wrap.                                        *)
LEMMA BindCounts ==
  ASSUME TypeOK, AddrInv, NEW d \in Domains, Bind(d)
  PROVE  AddressValue(bindedIp') = AddressValue(bindedIp) + 1
<1> DEFINE Limit == AddressValue(LastInSubnet)
<1>1. bindedIp \in Address /\ Len(bindedChains) \in Nat
  BY DEF TypeOK
<1>2. AddressValue(FirstAddress) \in Nat /\ AddressValue(bindedIp) \in Nat
  BY <1>1, ValueIsNat, FirstIsAddress
<1>3. LastInSubnet \in Address /\ LastAddress \in Address
  BY ByteBaseAssumption, ChainsMajorAssumption
     DEF LastInSubnet, LastAddress, Address, Byte, TopByte
<1>4. Limit \in Nat /\ AddressValue(bindedIp) < Limit
  BY <1>1, <1>2, <1>3, ValueIsNat, BoundAssumption DEF AddrInv, Bind
<1>5. Limit <= AddressValue(LastAddress)
  <2> DEFINE T == ByteBase - 1
             B == ByteBase
  <2>1. AddressValue(LastAddress) = ((T * B + T) * B + T) * B + T
    BY DEF AddressValue, LastAddress, TopByte
  <2>2. Limit = ((ChainsMajor * B + T) * B + T) * B + T
    BY DEF AddressValue, LastInSubnet, TopByte
  <2>3. /\ B \in Nat /\ T \in Nat /\ ChainsMajor \in Nat /\ ChainsMajor <= T
    BY ByteBaseAssumption, ChainsMajorAssumption
  <2> HIDE DEF T, B, Limit
  <2>4. ChainsMajor * B <= T * B
    BY <2>3
  <2>5. (ChainsMajor * B + T) * B <= (T * B + T) * B
    BY <2>3, <2>4
  <2>6. ((ChainsMajor * B + T) * B + T) * B <= ((T * B + T) * B + T) * B
    BY <2>3, <2>5
  <2> QED BY <2>1, <2>2, <2>3, <2>6
<1>6. bindedIp # LastAddress
  BY <1>2, <1>3, <1>4, <1>5, ValueIsNat
<1>7. bindedIp' = IncBinded(bindedIp)
  BY DEF Bind
<1> QED BY <1>1, <1>6, <1>7, IncAddsOne

LEMMA InitAddrInv == Init => AddrInv
<1> SUFFICES ASSUME Init PROVE AddrInv
  OBVIOUS
<1>1. bindedIp = FirstAddress /\ bindedChains = << >>
  BY DEF Init
<1>2. AddressValue(FirstAddress) \in Nat
  BY ValueIsNat, FirstIsAddress
<1> QED BY <1>1, <1>2, BoundAssumption DEF AddrInv

LEMMA StepAddrInv == TypeOK /\ TypeOK' /\ AddrInv /\ [Next]_vars => AddrInv'
<1> SUFFICES ASSUME TypeOK, TypeOK', AddrInv, [Next]_vars PROVE AddrInv'
  OBVIOUS
<1>1. CASE UNCHANGED <<bindedIp, bindedChains>>
  BY <1>1 DEF AddrInv
<1>2. ASSUME NEW d \in Domains, Bind(d) PROVE AddrInv'
  <2> DEFINE n == Len(bindedChains)
  <2>1. n \in Nat /\ n < MaxBound /\ MaxBound \in Nat
    BY <1>2, BoundAssumption DEF TypeOK, Bind
  <2>2. AddressValue(FirstAddress) \in Nat
    BY ValueIsNat, FirstIsAddress
  <2>3. AddressValue(bindedIp') = AddressValue(FirstAddress) + (n + 1)
    BY <1>2, <2>1, <2>2, BindCounts DEF AddrInv
  <2>4. /\ Len(bindedChains') = n + 1
        /\ DOMAIN bindedChains = 1 .. n
        /\ DOMAIN bindedChains' = 1 .. n + 1
        /\ \A i \in 1 .. n : bindedChains'[i] = bindedChains[i]
        /\ bindedChains'[n + 1] = [addr |-> bindedIp', dom |-> d]
    BY <1>2, BindAppends, Zenon
  <2>5. ASSUME NEW i \in 1 .. n + 1
        PROVE  AddressValue(bindedChains'[i].addr) = AddressValue(FirstAddress) + i
    <3>1. CASE i \in 1 .. n
      BY <2>4, <3>1 DEF AddrInv
    <3>2. CASE i = n + 1
      BY <2>3, <2>4, <3>2
    <3> QED BY <2>1, <3>1, <3>2
  <2> HIDE DEF n
  <2> QED BY <2>1, <2>3, <2>4, <2>5 DEF AddrInv
<1> QED BY <1>1, <1>2, ChainsGrow

LEMMA AddrInvRoutes == TypeOK /\ AddrInv => RouteBack
<1> SUFFICES ASSUME TypeOK, AddrInv, NEW i \in DOMAIN bindedChains
             PROVE  LET a == bindedChains[i].addr IN
                      /\ a[1] = ChainsMajor
                      /\ ChainId(a) = (i - 1) + (IF a[4] = 0 THEN ByteBase ELSE 0)
  BY DEF RouteBack
<1> DEFINE a == bindedChains[i].addr
<1>1. i \in 1 .. Len(bindedChains) /\ Len(bindedChains) \in Nat
  BY DEF TypeOK
<1>2. a \in Address
  <2>1. bindedChains[i] \in Binding
    BY DEF TypeOK
  <2> QED BY <2>1 DEF Binding
<1>3. AddressValue(a) = AddressValue(FirstAddress) + i
  BY DEF AddrInv
<1>4. /\ AddressValue(FirstAddress) \in Nat /\ AddressValue(LastInSubnet) \in Nat
  <2>1. LastInSubnet \in Address
    BY ByteBaseAssumption, ChainsMajorAssumption
       DEF LastInSubnet, Address, Byte, TopByte
  <2> QED BY <2>1, ValueIsNat, FirstIsAddress
<1>5. /\ AddressValue(FirstAddress) <= AddressValue(a)
      /\ AddressValue(a) <= AddressValue(LastInSubnet)
  BY <1>1, <1>3, <1>4, BoundAssumption DEF AddrInv
<1> HIDE DEF a
<1>6. a[1] = ChainsMajor
  BY <1>2, <1>5, FirstByteFixed
<1>7. ByteBase \in Nat
  BY ByteBaseAssumption
<1>8. ChainId(a) = AddressValue(a) - AddressValue(FirstAddress) - 1
                     + (IF a[4] = 0 THEN ByteBase ELSE 0)
  BY <1>2, <1>6, ChainIdValue
<1>9. ChainId(a) = (i - 1) + (IF a[4] = 0 THEN ByteBase ELSE 0)
  BY <1>1, <1>3, <1>4, <1>7, <1>8
<1> QED BY <1>6, <1>9 DEF a

(* For every base of a byte and every number of bindings that fits the     *)
(* subnet, the tunnel thread's arithmetic finds the binding an address was *)
(* made for, off by exactly ByteBase when the address ends in a zero byte. *)
THEOREM RouteBackCorrect == Spec => []RouteBack
<1>1. Init => TypeOK /\ AddrInv
  BY InitTypeOK, InitAddrInv
<1>2. TypeOK /\ AddrInv /\ [Next]_vars => TypeOK' /\ AddrInv'
  BY StepTypeOK, StepAddrInv
<1> QED BY <1>1, <1>2, AddrInvRoutes, PTL DEF Spec

-----------------------------------------------------------------------------
(* The life of a query: it is named once, waits in at most one place, and  *)
(* has no reply while it waits.                                            *)

QueryInv ==
  /\ AnsweredOnce
  /\ \A i \in DOMAIN dnsRequests : dnsRequests[i].dom = queried[dnsRequests[i].id]
  /\ dnsPc # "recv" =>
       /\ dnsReq.dom = queried[dnsReq.id]
       /\ answers[dnsReq.id] = << >>
       /\ \A i \in DOMAIN dnsRequests : dnsRequests[i].id # dnsReq.id
  /\ \A q \in Queries : queried[q] = NoDomain => answers[q] = << >>

LEMMA InitQueryInv == Init => QueryInv
BY DEF Init, QueryInv, AnsweredOnce

(* What a waiting query looks like.                                        *)
LEMMA WaitingTyped ==
  ASSUME TypeOK, NEW i \in DOMAIN dnsRequests
  PROVE  /\ i \in 1 .. Len(dnsRequests)
         /\ dnsRequests[i].id \in Queries
         /\ dnsRequests[i].dom \in Domains
<1>1. dnsRequests[i] \in Request /\ i \in 1 .. Len(dnsRequests)
  BY DEF TypeOK
<1> QED BY <1>1 DEF Request

LEMMA DnsHitQuery ==
  ASSUME TypeOK, QueryInv, NEW q \in Queries, NEW d \in Domains, DnsHit(q, d)
  PROVE  QueryInv'
<1> DEFINE a == bindedChains[BindingOf(d)].addr
<1>1. /\ queried[q] = NoDomain /\ dnsPc = "recv" /\ answers[q] = << >>
      /\ queried' = [queried EXCEPT ![q] = d]
      /\ answers' = [answers EXCEPT ![q] = Append(@, a)]
      /\ dnsRequests' = dnsRequests /\ dnsPc' = dnsPc
  BY DEF DnsHit, QueryInv, Answer, dnsVars
<1> HIDE DEF a
<1>2. \A i \in DOMAIN dnsRequests :
        /\ dnsRequests[i].id \in Queries
        /\ dnsRequests[i].id # q
  BY <1>1, WaitingTyped, DomainAssumption DEF QueryInv
<1>3. answers'[q] = <<a>> /\ \A p \in Queries \ {q} : answers'[p] = answers[p]
  BY <1>1 DEF TypeOK
<1>4. queried'[q] = d /\ \A p \in Queries \ {q} : queried'[p] = queried[p]
  BY <1>1 DEF TypeOK
<1>5. AnsweredOnce'
  <2>1. \A p \in Queries : Len(answers'[p]) <= 1
    <3>1. Len(answers'[q]) <= 1
      BY <1>3
    <3>2. \A p \in Queries : Len(answers[p]) <= 1
      BY DEF QueryInv, AnsweredOnce
    <3>3. \A p \in Queries \ {q} : Len(answers'[p]) <= 1
      BY <1>3, <3>2
    <3>4. \A p \in Queries : p = q \/ p \in Queries \ {q}
      OBVIOUS
    <3> QED BY <3>1, <3>3, <3>4, Zenon
  <2> QED BY <1>1, <1>2, <1>3, <2>1 DEF QueryInv, AnsweredOnce
<1>6. \A i \in DOMAIN dnsRequests : dnsRequests[i].dom = queried'[dnsRequests[i].id]
  BY <1>2, <1>4 DEF QueryInv
<1>7. \A p \in Queries : queried'[p] = NoDomain => answers'[p] = << >>
  BY <1>3, <1>4, DomainAssumption DEF QueryInv
<1> QED BY <1>1, <1>5, <1>6, <1>7 DEF QueryInv

LEMMA DnsMissQuery ==
  ASSUME TypeOK, QueryInv, NEW q \in Queries, NEW d \in Domains, DnsMiss(q, d)
  PROVE  QueryInv'
<1>1. /\ queried[q] = NoDomain /\ answers[q] = << >>
      /\ queried' = [queried EXCEPT ![q] = d]
      /\ answers' = answers /\ dnsRequests' = dnsRequests
      /\ dnsReq' = [id |-> q, dom |-> d]
  BY DEF DnsMiss, QueryInv
<1>2. \A i \in DOMAIN dnsRequests :
        /\ dnsRequests[i].id \in Queries
        /\ dnsRequests[i].id # q
  BY <1>1, WaitingTyped, DomainAssumption DEF QueryInv
<1>3. queried'[q] = d /\ \A p \in Queries \ {q} : queried'[p] = queried[p]
  BY <1>1 DEF TypeOK
<1>4. AnsweredOnce'
  BY <1>1 DEF QueryInv, AnsweredOnce
<1>5. \A i \in DOMAIN dnsRequests : dnsRequests[i].dom = queried'[dnsRequests[i].id]
  BY <1>2, <1>3 DEF QueryInv
<1>6. \A p \in Queries : queried'[p] = NoDomain => answers'[p] = << >>
  BY <1>1, <1>3, DomainAssumption DEF QueryInv
<1>7. /\ dnsReq'.dom = queried'[dnsReq'.id]
      /\ answers'[dnsReq'.id] = << >>
      /\ \A i \in DOMAIN dnsRequests' : dnsRequests'[i].id # dnsReq'.id
  BY <1>1, <1>2, <1>3
<1> QED BY <1>1, <1>4, <1>5, <1>6, <1>7 DEF QueryInv

LEMMA DnsPushQuery ==
  ASSUME TypeOK, QueryInv, DnsPush
  PROVE  QueryInv'
<1> DEFINE n == Len(dnsRequests)
<1>1. /\ dnsPc # "recv" /\ dnsPc' = "recv"
      /\ dnsRequests' = Append(dnsRequests, dnsReq)
      /\ queried' = queried /\ answers' = answers
  BY DEF DnsPush
<1>2. dnsRequests \in Seq(Request) /\ dnsReq \in Request /\ n \in Nat
  BY <1>1 DEF TypeOK
<1>3. /\ DOMAIN dnsRequests = 1 .. n
      /\ DOMAIN dnsRequests' = 1 .. n + 1
      /\ \A i \in 1 .. n : dnsRequests'[i] = dnsRequests[i]
      /\ dnsRequests'[n + 1] = dnsReq
  BY <1>1, <1>2, AppendProperties
<1> HIDE DEF n
<1>4. \A i \in 1 .. n + 1 : i \in 1 .. n \/ i = n + 1
  BY <1>2
<1>5. /\ \A p \in Queries : Len(answers[p]) <= 1
      /\ \A i \in 1 .. n : /\ answers[dnsRequests[i].id] = << >>
                         /\ dnsRequests[i].dom = queried[dnsRequests[i].id]
                         /\ dnsRequests[i].id # dnsReq.id
      /\ \A i, j \in 1 .. n : dnsRequests[i].id = dnsRequests[j].id => i = j
      /\ answers[dnsReq.id] = << >> /\ dnsReq.dom = queried[dnsReq.id]
      /\ \A q \in Queries : queried[q] = NoDomain => answers[q] = << >>
  BY <1>1, <1>3 DEF QueryInv, AnsweredOnce
<1>6. \A i \in 1 .. n + 1 : /\ answers[dnsRequests'[i].id] = << >>
                           /\ dnsRequests'[i].dom = queried[dnsRequests'[i].id]
  BY <1>3, <1>4, <1>5
<1>7. \A i, j \in 1 .. n + 1 : dnsRequests'[i].id = dnsRequests'[j].id => i = j
  BY <1>3, <1>4, <1>5
<1> QED BY <1>1, <1>3, <1>5, <1>6, <1>7 DEF QueryInv, AnsweredOnce

LEMMA DevAnswerQuery ==
  ASSUME TypeOK, QueryInv, DevAnswer
  PROVE  QueryInv'
<1> DEFINE w == WaiterFor(devMsg.dom)
           n == Len(dnsRequests)
<1>1. /\ dnsPc' = dnsPc /\ dnsReq' = dnsReq /\ queried' = queried
  BY DEF DevAnswer
<1>2. CASE w = 0
  BY <1>1, <1>2 DEF DevAnswer, QueryInv, AnsweredOnce
<1>3. CASE w # 0
  <2>1. /\ dnsRequests' = RemoveAt(dnsRequests, w)
        /\ Answer(dnsRequests[w].id, devMsg.addr)
    BY <1>3 DEF DevAnswer
  <2>2. dnsRequests \in Seq(Request) /\ w \in 0 .. n /\ n \in Nat
    BY WaiterForDomain DEF TypeOK
  <2> HIDE DEF w
  <2>3. w \in 1 .. n /\ DOMAIN dnsRequests = 1 .. n
    BY <1>3, <2>2
  <2> DEFINE id == dnsRequests[w].id
             next(k) == IF k < w THEN k ELSE k + 1
  <2>4. /\ dnsRequests' \in Seq(Request)
        /\ Len(dnsRequests') = n - 1
        /\ \A k \in 1 .. n - 1 :
             dnsRequests'[k] = IF k < w THEN dnsRequests[k] ELSE dnsRequests[k + 1]
    BY <2>1, <2>2, <2>3, RemoveAtElements, Zenon
  <2> HIDE DEF n
  <2>5. /\ DOMAIN dnsRequests' = 1 .. n - 1
        /\ \A k \in 1 .. n - 1 : /\ next(k) \in 1 .. n /\ next(k) # w
                                /\ dnsRequests'[k] = dnsRequests[next(k)]
        /\ \A j, k \in 1 .. n - 1 : next(j) = next(k) => j = k
    BY <2>2, <2>3, <2>4
  <2> HIDE DEF next
  <2>6. id \in Queries /\ answers[id] = << >>
    BY <2>3, WaitingTyped DEF QueryInv, AnsweredOnce
  <2>7. /\ answers'[id] = <<devMsg.addr>>
        /\ \A q \in Queries \ {id} : answers'[q] = answers[q]
    BY <2>1, <2>6 DEF Answer, TypeOK
  <2>8. \A k \in 1 .. n : dnsRequests[k].id \in Queries
    BY <2>3, WaitingTyped
  <2>9. \A k \in 1 .. n : k # w => dnsRequests[k].id # id
    BY <2>3 DEF QueryInv, AnsweredOnce
  <2> HIDE DEF id
  <2>10. \A q \in Queries : Len(answers'[q]) <= 1
    <3>1. Len(answers'[id]) <= 1
      BY <2>7
    <3>2. \A q \in Queries : Len(answers[q]) <= 1
      BY DEF QueryInv, AnsweredOnce
    <3>3. \A q \in Queries \ {id} : Len(answers'[q]) <= 1
      BY <2>7, <3>2
    <3>4. \A q \in Queries : q = id \/ q \in Queries \ {id}
      OBVIOUS
    <3> QED BY <3>1, <3>3, <3>4, Zenon
  <2>11. \A k \in 1 .. n - 1 :
           /\ answers'[dnsRequests'[k].id] = << >>
           /\ dnsRequests'[k].dom = queried[dnsRequests'[k].id]
    BY <2>3, <2>5, <2>7, <2>8, <2>9 DEF QueryInv, AnsweredOnce
  <2>12. \A j, k \in 1 .. n - 1 : dnsRequests'[j].id = dnsRequests'[k].id => j = k
    BY <2>3, <2>5 DEF QueryInv, AnsweredOnce
  <2>13. dnsPc # "recv" =>
           /\ dnsReq.dom = queried[dnsReq.id]
           /\ answers'[dnsReq.id] = << >>
           /\ \A k \in 1 .. n - 1 : dnsRequests'[k].id # dnsReq.id
    <3> SUFFICES ASSUME dnsPc # "recv"
                 PROVE  /\ dnsReq.dom = queried[dnsReq.id]
                        /\ answers'[dnsReq.id] = << >>
                        /\ \A k \in 1 .. n - 1 : dnsRequests'[k].id # dnsReq.id
      OBVIOUS
    <3>1. dnsReq.id \in Queries
      BY DEF TypeOK, Request
    <3>2. \A k \in 1 .. n : dnsRequests[k].id # dnsReq.id
      BY <2>3 DEF QueryInv
    <3>3. dnsReq.id # id
      BY <3>2, <2>3 DEF id
    <3> QED BY <2>5, <2>7, <3>1, <3>2, <3>3 DEF QueryInv
  <2>14. \A q \in Queries : queried[q] = NoDomain => answers'[q] = << >>
    <3>1. queried[id] # NoDomain
      BY <2>3, WaitingTyped, DomainAssumption DEF QueryInv, id
    <3> QED BY <2>7, <3>1 DEF QueryInv
  <2> QED BY <1>1, <2>5, <2>10, <2>11, <2>12, <2>13, <2>14
       DEF QueryInv, AnsweredOnce
<1> QED BY <1>2, <1>3

LEMMA StepQueryInv == TypeOK /\ QueryInv /\ [Next]_vars => QueryInv'
<1> SUFFICES ASSUME TypeOK, QueryInv, [Next]_vars PROVE QueryInv'
  OBVIOUS
<1>1. ASSUME NEW q \in Queries, NEW d \in Domains, DnsHit(q, d)
      PROVE  QueryInv'
  BY <1>1, DnsHitQuery
<1>2. ASSUME NEW q \in Queries, NEW d \in Domains, DnsMiss(q, d)
      PROVE  QueryInv'
  BY <1>2, DnsMissQuery
<1>3. CASE DnsSend
  <2>1. /\ dnsPc # "recv" /\ dnsReq' = dnsReq /\ dnsRequests' = dnsRequests
        /\ queried' = queried /\ answers' = answers
    BY <1>3 DEF DnsSend
  <2> QED BY <2>1 DEF QueryInv, AnsweredOnce
<1>4. CASE DnsPush
  BY <1>4, DnsPushQuery
<1>5. CASE DevAnswer
  BY <1>5, DevAnswerQuery
<1>6. CASE \/ \E d \in Domains, s \in Statuses :
                 DevReceive(d, s) \/ ServerReply(d, s)
           \/ \E d \in Domains : Resolve(d)
           \/ UNCHANGED vars
  <2>1. /\ dnsPc' = dnsPc /\ dnsReq' = dnsReq /\ dnsRequests' = dnsRequests
        /\ queried' = queried /\ answers' = answers
    BY <1>6 DEF DevReceive, ServerReply, Resolve, vars, dnsVars
  <2> QED BY <2>1 DEF QueryInv, AnsweredOnce
<1> QED BY <1>1, <1>2, <1>3, <1>4, <1>5, <1>6 DEF Next

(* No query is replied to twice, and none that waits has been replied to,  *)
(* for any number of queries and any loss, duplication and reordering.     *)
THEOREM AnsweredOnceCorrect == Spec => []AnsweredOnce
<1>1. Init => TypeOK /\ QueryInv
  BY InitTypeOK, InitQueryInv
<1>2. TypeOK /\ QueryInv /\ [Next]_vars => TypeOK' /\ QueryInv'
  BY StepTypeOK, StepQueryInv
<1>3. QueryInv => AnsweredOnce
  BY DEF QueryInv
<1> QED BY <1>1, <1>2, <1>3, PTL DEF Spec

-----------------------------------------------------------------------------
(* Replies carry addresses of the domain that was asked for.               *)

(* Bindings are never changed or removed.                                  *)
LEMMA BindingsStay ==
  ASSUME TypeOK, TypeOK', [Next]_vars, NEW i \in DOMAIN bindedChains
  PROVE  i \in DOMAIN bindedChains' /\ bindedChains'[i] = bindedChains[i]
<1>1. ASSUME NEW d \in Domains, Bind(d)
      PROVE  i \in DOMAIN bindedChains' /\ bindedChains'[i] = bindedChains[i]
  <2>1. Len(bindedChains) \in Nat
    BY DEF TypeOK
  <2>2. /\ DOMAIN bindedChains = 1 .. Len(bindedChains)
        /\ DOMAIN bindedChains' = 1 .. Len(bindedChains) + 1
        /\ \A j \in 1 .. Len(bindedChains) : bindedChains'[j] = bindedChains[j]
    BY <1>1, BindAppends, Zenon
  <2> QED BY <2>1, <2>2
<1>2. CASE UNCHANGED <<bindedIp, bindedChains>>
  BY <1>2
<1> QED BY <1>1, <1>2, ChainsGrow

Holds(bs, b) == \E i \in DOMAIN bs : bs[i] = b

LEMMA HoldsStays ==
  ASSUME TypeOK, TypeOK', [Next]_vars, NEW b, Holds(bindedChains, b)
  PROVE  Holds(bindedChains', b)
<1>1. PICK i \in DOMAIN bindedChains : bindedChains[i] = b
  BY DEF Holds
<1> QED BY <1>1, BindingsStay DEF Holds

(* AnswerSound, and the local through which the device thread carries a    *)
(* new address to the query it replies to.                                 *)
SoundInv ==
  /\ AnswerSound
  /\ devPc = "answer" /\ devMsg.addr # NoAddress => Holds(bindedChains, devMsg)

(* One reply is appended; the replies already sent stay sound.             *)
LEMMA ReplySound ==
  ASSUME TypeOK, TypeOK', SoundInv, [Next]_vars,
         NEW q \in Queries, answers[q] = << >>,
         NEW a, answers' = [answers EXCEPT ![q] = Append(@, a)],
         \A p \in Queries \ {q} : queried'[p] = queried[p],
         a # NoAddress => Holds(bindedChains', [addr |-> a, dom |-> queried'[q]])
  PROVE  AnswerSound'
<1>1. answers'[q] = <<a>> /\ \A p \in Queries \ {q} : answers'[p] = answers[p]
  BY DEF TypeOK
<1>2. ASSUME NEW k \in DOMAIN answers'[q], answers'[q][k] # NoAddress
      PROVE  Holds(bindedChains', [addr |-> answers'[q][k], dom |-> queried'[q]])
  <2>1. answers'[q][k] = a
    BY <1>1
  <2> QED BY <1>2, <2>1
<1>3. ASSUME NEW p \in Queries \ {q}, NEW k \in DOMAIN answers'[p],
             answers'[p][k] # NoAddress
      PROVE  Holds(bindedChains', [addr |-> answers'[p][k], dom |-> queried'[p]])
  <2>1. Holds(bindedChains, [addr |-> answers[p][k], dom |-> queried[p]])
    BY <1>1, <1>3 DEF SoundInv, AnswerSound, Holds
  <2>2. Holds(bindedChains', [addr |-> answers[p][k], dom |-> queried[p]])
    BY <2>1, HoldsStays
  <2> QED BY <1>1, <1>3, <2>2
<1>4. \A p \in Queries : p = q \/ p \in Queries \ {q}
  OBVIOUS
<1> QED BY <1>2, <1>3, <1>4 DEF AnswerSound, Holds

(* No reply is sent.                                                       *)
LEMMA QuietSound ==
  ASSUME TypeOK, TypeOK', SoundInv, [Next]_vars, answers' = answers,
         \A p \in Queries : answers[p] # << >> => queried'[p] = queried[p]
  PROVE  AnswerSound'
<1> SUFFICES ASSUME NEW p \in Queries, NEW k \in DOMAIN answers[p],
                    answers[p][k] # NoAddress
             PROVE  Holds(bindedChains', [addr |-> answers[p][k], dom |-> queried'[p]])
  BY DEF AnswerSound, Holds
<1>1. Holds(bindedChains, [addr |-> answers[p][k], dom |-> queried[p]])
  BY DEF SoundInv, AnswerSound, Holds
<1>2. answers[p] # << >>
  OBVIOUS
<1> QED BY <1>1, <1>2, HoldsStays

LEMMA StepSoundInv ==
  TypeOK /\ TypeOK' /\ QueryInv /\ SoundInv /\ [Next]_vars => SoundInv'
<1> SUFFICES ASSUME TypeOK, TypeOK', QueryInv, SoundInv, [Next]_vars
             PROVE  SoundInv'
  OBVIOUS
<1> DEFINE MsgSound == devPc = "answer" /\ devMsg.addr # NoAddress
                         => Holds(bindedChains, devMsg)
<1>1. ASSUME devPc' = devPc, devMsg' = devMsg
      PROVE  MsgSound'
  <2>1. devPc = "answer" /\ devMsg.addr # NoAddress => Holds(bindedChains', devMsg)
    BY HoldsStays DEF SoundInv
  <2> QED BY <1>1, <2>1
<1>2. ASSUME NEW q \in Queries, NEW d \in Domains, DnsHit(q, d)
      PROVE  SoundInv'
  <2> DEFINE b == bindedChains[BindingOf(d)]
  <2>1. bindedChains \in Seq(Binding) /\ Bound(d)
    BY <1>2 DEF TypeOK, DnsHit
  <2>2. BindingOf(d) \in DOMAIN bindedChains /\ b.dom = d /\ b \in Binding
    <3>1. BindingOf(d) \in 1 .. Len(bindedChains) /\ b.dom = d
      BY <2>1, BindingOfFirst
    <3> QED BY <2>1, <3>1
  <2>3. /\ queried[q] = NoDomain /\ answers[q] = << >>
        /\ queried' = [queried EXCEPT ![q] = d]
        /\ answers' = [answers EXCEPT ![q] = Append(@, b.addr)]
        /\ bindedChains' = bindedChains /\ devPc' = devPc /\ devMsg' = devMsg
    BY <1>2 DEF DnsHit, QueryInv, Answer, devVars
  <2>4. queried'[q] = d /\ \A p \in Queries \ {q} : queried'[p] = queried[p]
    BY <2>3 DEF TypeOK
  <2>5. b = [addr |-> b.addr, dom |-> d]
    BY <2>2 DEF Binding
  <2>6. Holds(bindedChains', [addr |-> b.addr, dom |-> queried'[q]])
    BY <2>2, <2>3, <2>4, <2>5 DEF Holds
  <2> HIDE DEF b
  <2>7. AnswerSound'
    BY <2>3, <2>4, <2>6, ReplySound
  <2> QED BY <1>1, <2>3, <2>7 DEF SoundInv
<1>3. ASSUME NEW q \in Queries, NEW d \in Domains, DnsMiss(q, d)
      PROVE  SoundInv'
  <2>1. /\ queried[q] = NoDomain /\ answers[q] = << >> /\ answers' = answers
        /\ queried' = [queried EXCEPT ![q] = d]
        /\ devPc' = devPc /\ devMsg' = devMsg
    BY <1>3 DEF DnsMiss, QueryInv, devVars
  <2>2. \A p \in Queries \ {q} : queried'[p] = queried[p]
    BY <2>1 DEF TypeOK
  <2>3. AnswerSound'
    BY <2>1, <2>2, QuietSound
  <2> QED BY <1>1, <2>1, <2>3 DEF SoundInv
<1>4. ASSUME NEW d \in Domains, NEW s \in Statuses, DevReceive(d, s)
      PROVE  SoundInv'
  <2>1. AnswerSound'
    BY <1>4, QuietSound DEF DevReceive
  <2>2. MsgSound'
    <3>1. CASE s # OK
      BY <1>4, <3>1 DEF DevReceive
    <3>2. CASE s = OK
      <4>1. Bind(d) /\ devMsg' = [addr |-> bindedIp', dom |-> d]
        BY <1>4, <3>2 DEF DevReceive, Bind
      <4>2. Len(bindedChains) + 1 \in 1 .. Len(bindedChains) + 1
        BY DEF TypeOK
      <4>3. Holds(bindedChains', [addr |-> bindedIp', dom |-> d])
        BY <4>1, <4>2, BindAppends DEF Holds
      <4> QED BY <4>1, <4>3
    <3> QED BY <3>1, <3>2
  <2> QED BY <2>1, <2>2 DEF SoundInv
<1>5. CASE DevAnswer
  <2> DEFINE w == WaiterFor(devMsg.dom)
  <2>1. MsgSound'
    BY <1>5 DEF DevAnswer
  <2>2. AnswerSound'
    <3>1. CASE w = 0
      BY <1>5, <3>1, QuietSound DEF DevAnswer
    <3>2. CASE w # 0
      <4> DEFINE id == dnsRequests[w].id
      <4>1. dnsRequests \in Seq(Request)
        BY DEF TypeOK
      <4>2. w \in DOMAIN dnsRequests /\ dnsRequests[w].dom = devMsg.dom
        BY <3>2, <4>1, WaiterForDomain
      <4>3. id \in Queries /\ answers[id] = << >> /\ queried[id] = devMsg.dom
        BY <4>2, WaitingTyped DEF QueryInv, AnsweredOnce
      <4>4. /\ answers' = [answers EXCEPT ![id] = Append(@, devMsg.addr)]
            /\ queried' = queried /\ bindedChains' = bindedChains
            /\ devPc = "answer"
        BY <1>5, <3>2 DEF DevAnswer, Answer
      <4>5. devMsg = [addr |-> devMsg.addr, dom |-> devMsg.dom]
        BY <4>4 DEF TypeOK, Message
      <4>6. devMsg.addr # NoAddress =>
              Holds(bindedChains', [addr |-> devMsg.addr, dom |-> queried'[id]])
        BY <4>3, <4>4, <4>5 DEF SoundInv
      <4> HIDE DEF w, id
      <4> QED BY <4>3, <4>4, <4>6, ReplySound
    <3> QED BY <3>1, <3>2
  <2> QED BY <2>1, <2>2 DEF SoundInv
<1>6. CASE \/ DnsSend \/ DnsPush
           \/ \E d \in Domains : Resolve(d)
           \/ \E d \in Domains, s \in Statuses : ServerReply(d, s)
           \/ UNCHANGED vars
  <2>1. /\ queried' = queried /\ answers' = answers
        /\ devPc' = devPc /\ devMsg' = devMsg
    BY <1>6 DEF DnsSend, DnsPush, Resolve, ServerReply, vars, devVars
  <2>2. AnswerSound'
    BY <2>1, QuietSound
  <2> QED BY <1>1, <2>1, <2>2 DEF SoundInv
<1> QED BY <1>2, <1>3, <1>4, <1>5, <1>6 DEF Next

LEMMA InitSoundInv == Init => SoundInv
BY DEF Init, SoundInv, AnswerSound

(* A reply never carries an address of another domain than the one asked   *)
(* for, whatever the threads' interleaving and the network's behaviour.    *)
THEOREM AnswerSoundCorrect == Spec => []AnswerSound
<1>1. Init => TypeOK /\ QueryInv /\ SoundInv
  BY InitTypeOK, InitQueryInv, InitSoundInv
<1>2. TypeOK /\ QueryInv /\ SoundInv /\ [Next]_vars
        => TypeOK' /\ QueryInv' /\ SoundInv'
  BY StepTypeOK, StepQueryInv, StepSoundInv
<1>3. SoundInv => AnswerSound
  BY DEF SoundInv
<1> QED BY <1>1, <1>2, <1>3, PTL DEF Spec

-----------------------------------------------------------------------------
(* Lookups.                                                                *)

(* A binding made later never comes before the one a lookup finds.         *)
LEMMA StepLookupStable ==
  ASSUME TypeOK, TypeOK', [Next]_vars, NEW d \in Domains, Bound(d)
  PROVE  /\ BindingOf(d)' = BindingOf(d)
         /\ bindedChains'[BindingOf(d)] = bindedChains[BindingOf(d)]
         /\ Bound(d)'
<1> DEFINE k == FirstFor(bindedChains, d)
           m == FirstFor(bindedChains', d)
<1>1. bindedChains \in Seq(Binding) /\ bindedChains' \in Seq(Binding)
  BY DEF TypeOK
<1>2. /\ k \in 1 .. Len(bindedChains) /\ bindedChains[k].dom = d
      /\ \A i \in 1 .. k - 1 : bindedChains[i].dom # d
  BY <1>1, FirstForFinds DEF Bound, BindingOf
<1>3. \A i \in 1 .. Len(bindedChains) :
        i \in 1 .. Len(bindedChains') /\ bindedChains'[i] = bindedChains[i]
  <2>1. DOMAIN bindedChains = 1 .. Len(bindedChains)
    BY <1>1
  <2>2. DOMAIN bindedChains' = 1 .. Len(bindedChains')
    BY <1>1
  <2> QED BY <2>1, <2>2, BindingsStay
<1>4. \E i \in 1 .. Len(bindedChains') : bindedChains'[i].dom = d
  BY <1>2, <1>3
<1>5. /\ m \in 1 .. Len(bindedChains') /\ bindedChains'[m].dom = d
      /\ \A i \in 1 .. m - 1 : bindedChains'[i].dom # d
  BY <1>1, <1>4, FirstForFinds
<1>6. /\ Len(bindedChains) \in Nat /\ Len(bindedChains') \in Nat
  BY <1>1
<1> HIDE DEF k, m
<1>7. ~ (m < k)
  <2> SUFFICES ASSUME m < k PROVE FALSE
    OBVIOUS
  <2>1. m \in 1 .. k - 1 /\ m \in 1 .. Len(bindedChains)
    BY <1>2, <1>5, <1>6
  <2> QED BY <2>1, <1>2, <1>3, <1>5
<1>8. ~ (k < m)
  <2> SUFFICES ASSUME k < m PROVE FALSE
    OBVIOUS
  <2>1. k \in 1 .. m - 1
    BY <1>2, <1>5, <1>6
  <2> QED BY <2>1, <1>2, <1>3, <1>5
<1>9. m = k
  BY <1>2, <1>5, <1>6, <1>7, <1>8
<1> QED BY <1>2, <1>3, <1>5, <1>9 DEF k, m, Bound, BindingOf

(* Responses that come late, twice or unasked never move a domain that is  *)
(* bound to another address, for any number of domains and bindings.       *)
THEOREM LookupStableCorrect == Spec => LookupStable
<1>1. TypeOK /\ TypeOK' /\ [Next]_vars =>
        [\A d \in Domains : Bound(d) =>
           /\ BindingOf(d)' = BindingOf(d)
           /\ bindedChains'[BindingOf(d)] = bindedChains[BindingOf(d)]]_vars
  BY StepLookupStable
<1> QED BY <1>1, InitTypeOK, StepTypeOK, PTL DEF Spec, LookupStable

-----------------------------------------------------------------------------
(* The promise to the programs behind the device.                          *)

LEMMA AddressesDistinct ==
  ASSUME TypeOK, AddrInv, NEW i \in DOMAIN bindedChains, NEW j \in DOMAIN bindedChains,
         bindedChains[i].addr = bindedChains[j].addr
  PROVE  i = j
<1>1. i \in Nat /\ j \in Nat
  BY DEF TypeOK
<1>2. AddressValue(FirstAddress) \in Nat
  BY ValueIsNat, FirstIsAddress
<1>3. AddressValue(FirstAddress) + i = AddressValue(FirstAddress) + j
  BY DEF AddrInv
<1> QED BY <1>1, <1>2, <1>3

LEMMA OwnerOfBinding ==
  ASSUME TypeOK, AddrInv, NEW i \in DOMAIN bindedChains
  PROVE  /\ bindedChains[i].addr \in DOMAIN Owner
         /\ Owner[bindedChains[i].addr] = bindedChains[i].dom
<1> DEFINE a == bindedChains[i].addr
           k == CHOOSE j \in DOMAIN bindedChains : bindedChains[j].addr = a
<1>1. a \in BoundAddresses
  BY DEF BoundAddresses
<1>2. k \in DOMAIN bindedChains /\ bindedChains[k].addr = a
  OBVIOUS
<1>3. k = i
  BY <1>2, AddressesDistinct
<1>4. Owner[a] = bindedChains[k].dom /\ DOMAIN Owner = BoundAddresses
  BY <1>1 DEF Owner
<1> QED BY <1>1, <1>3, <1>4

LEMMA HoldsOwned ==
  ASSUME TypeOK, AddrInv, NEW a, NEW d, Holds(bindedChains, [addr |-> a, dom |-> d])
  PROVE  Promise!Owned(a, d)
<1>1. PICK i \in DOMAIN bindedChains : bindedChains[i] = [addr |-> a, dom |-> d]
  BY DEF Holds
<1>2. bindedChains[i].addr = a /\ bindedChains[i].dom = d
  BY <1>1
<1> QED BY <1>2, OwnerOfBinding DEF Promise!Owned

(* Binding a domain takes a new address for it.                            *)
LEMMA BindClaims ==
  ASSUME TypeOK, TypeOK', AddrInv, AddrInv', NEW d \in Domains, Bind(d)
  PROVE  /\ bindedIp' \notin DOMAIN Owner
         /\ Owner' = [b \in DOMAIN Owner \cup {bindedIp'} |->
                        IF b = bindedIp' THEN d ELSE Owner[b]]
<1> DEFINE n == Len(bindedChains)
           a == bindedIp'
           bs == bindedChains'
           own(b) == bs[CHOOSE j \in DOMAIN bs : bs[j].addr = b].dom
           taken == {bs[i].addr : i \in DOMAIN bs}
<1>1. /\ DOMAIN bindedChains = 1 .. n /\ DOMAIN bs = 1 .. n + 1
      /\ \A i \in 1 .. n : bs[i] = bindedChains[i]
      /\ bs[n + 1] = [addr |-> a, dom |-> d]
  BY BindAppends, Zenon
<1>2. n \in Nat /\ AddressValue(FirstAddress) \in Nat
  BY ValueIsNat, FirstIsAddress DEF TypeOK
<1>3. \A i, j \in 1 .. n + 1 : bs[i].addr = bs[j].addr => i = j
  <2>1. \A i \in 1 .. n + 1 : AddressValue(bs[i].addr) = AddressValue(FirstAddress) + i
    BY <1>1 DEF AddrInv
  <2> QED BY <1>2, <2>1
<1>4. bs[n + 1].addr = a /\ bs[n + 1].dom = d /\ n + 1 \in 1 .. n + 1
  BY <1>1, <1>2
<1>5. \A i \in 1 .. n : i \in 1 .. n + 1 /\ i # n + 1
  BY <1>2
<1>6. \A i \in 1 .. n : bindedChains[i].addr # a
  BY <1>1, <1>3, <1>4, <1>5
<1>7. a \notin BoundAddresses
  BY <1>1, <1>6 DEF BoundAddresses
<1>8. taken = BoundAddresses \cup {a}
  <2>1. \A i \in 1 .. n + 1 : i \in 1 .. n \/ i = n + 1
    BY <1>2
  <2> QED BY <1>1, <1>4, <1>5, <2>1 DEF BoundAddresses
<1>9. \A i \in 1 .. n + 1 : own(bs[i].addr) = bs[i].dom
  <2> TAKE i \in 1 .. n + 1
  <2> DEFINE k == CHOOSE j \in DOMAIN bs : bs[j].addr = bs[i].addr
  <2>1. k \in DOMAIN bs /\ bs[k].addr = bs[i].addr
    BY <1>1
  <2>2. k = i
    BY <1>1, <1>3, <2>1
  <2> QED BY <2>2
<1>10. own(a) = d
  BY <1>4, <1>9
<1>11. \A b \in BoundAddresses : own(b) = Owner[b]
  <2> TAKE b \in BoundAddresses
  <2>1. PICK i \in DOMAIN bindedChains : b = bindedChains[i].addr
    BY DEF BoundAddresses
  <2>2. Owner[b] = bindedChains[i].dom
    BY <2>1, OwnerOfBinding
  <2>3. own(bs[i].addr) = bs[i].dom /\ bs[i] = bindedChains[i]
    BY <1>1, <1>5, <1>9, <2>1
  <2> QED BY <2>1, <2>2, <2>3
<1>12. Owner' = [b \in taken |-> own(b)] /\ DOMAIN Owner = BoundAddresses
  BY DEF Owner, BoundAddresses
<1> HIDE DEF own, taken, a, bs
<1>13. Owner' = [b \in BoundAddresses \cup {a} |-> IF b = a THEN d ELSE Owner[b]]
  BY <1>7, <1>8, <1>10, <1>11, <1>12
<1> QED BY <1>7, <1>12, <1>13 DEF a

Inv == TypeOK /\ AddrInv /\ QueryInv /\ SoundInv

LEMMA InitInv == Init => Inv
BY InitTypeOK, InitAddrInv, InitQueryInv, InitSoundInv DEF Inv

LEMMA StepInv == Inv /\ [Next]_vars => Inv'
BY StepTypeOK, StepAddrInv, StepQueryInv, StepSoundInv DEF Inv

LEMMA InitRefines == Init => Promise!Init
<1> SUFFICES ASSUME Init PROVE Promise!Init
  OBVIOUS
<1>1. bindedChains = << >>
  BY DEF Init
<1>2. BoundAddresses = {}
  BY <1>1 DEF BoundAddresses
<1>3. Owner = << >>
  BY <1>2 DEF Owner
<1> QED BY <1>3 DEF Init, Promise!Init

LEMMA StepRefines == Inv /\ Inv' /\ [Next]_vars => [Promise!Next]_(Promise!vars)
<1> SUFFICES ASSUME Inv, Inv', [Next]_vars
             PROVE  [Promise!Next]_(Promise!vars)
  OBVIOUS
<1> USE DEF Inv
<1> DEFINE Stutter == Owner' = Owner /\ queried' = queried /\ answers' = answers
<1>0. ASSUME UNCHANGED bindedChains PROVE Owner' = Owner
  BY <1>0 DEF Owner, BoundAddresses
<1>1. ASSUME Stutter PROVE [Promise!Next]_(Promise!vars)
  BY <1>1 DEF Promise!vars
<1>2. ASSUME NEW q \in Queries, NEW d \in Domains, DnsHit(q, d)
      PROVE  Promise!Ask(q, d)
  <2> DEFINE b == bindedChains[BindingOf(d)]
  <2>1. /\ queried[q] = NoDomain /\ answers[q] = << >> /\ Bound(d)
        /\ queried' = [queried EXCEPT ![q] = d]
        /\ answers' = [answers EXCEPT ![q] = Append(@, b.addr)]
        /\ bindedChains' = bindedChains
    BY <1>2 DEF DnsHit, QueryInv, Answer, devVars
  <2>2. BindingOf(d) \in DOMAIN bindedChains /\ b.dom = d /\ b \in Binding
    <3>1. BindingOf(d) \in 1 .. Len(bindedChains) /\ b.dom = d
      BY <2>1, BindingOfFirst
    <3>2. bindedChains \in Seq(Binding)
      BY DEF TypeOK
    <3> QED BY <3>1, <3>2
  <2>3. Promise!Owned(b.addr, d) /\ b.addr \in Address
    BY <2>2, OwnerOfBinding DEF Promise!Owned, Binding
  <2> HIDE DEF b
  <2>4. answers' = [answers EXCEPT ![q] = <<b.addr>>]
    BY <2>1 DEF TypeOK
  <2> QED BY <1>0, <2>1, <2>3, <2>4 DEF Promise!Ask
<1>3. ASSUME NEW q \in Queries, NEW d \in Domains, DnsMiss(q, d)
      PROVE  Promise!Ask(q, d)
  <2>1. /\ queried[q] = NoDomain /\ queried' = [queried EXCEPT ![q] = d]
        /\ answers' = answers /\ bindedChains' = bindedChains
    BY <1>3 DEF DnsMiss, devVars
  <2> QED BY <1>0, <2>1 DEF Promise!Ask
<1>4. ASSUME NEW d \in Domains, NEW s \in Statuses, DevReceive(d, s)
      PROVE  Stutter \/ Promise!Claim(bindedIp', d)
  <2>1. queried' = queried /\ answers' = answers
    BY <1>4 DEF DevReceive
  <2>2. CASE s = OK
    <3>1. Bind(d)
      BY <1>4, <2>2 DEF DevReceive, Bind
    <3> QED BY <2>1, <3>1, BindClaims DEF Promise!Claim
  <2>3. CASE s # OK
    BY <1>0, <1>4, <2>1, <2>3 DEF DevReceive
  <2> QED BY <2>2, <2>3
<1>5. CASE DevAnswer
  <2> DEFINE w == WaiterFor(devMsg.dom)
             id == dnsRequests[w].id
  <2>1. bindedChains' = bindedChains /\ queried' = queried
    BY <1>5 DEF DevAnswer
  <2>2. CASE w = 0
    BY <1>0, <1>1, <1>5, <2>1, <2>2 DEF DevAnswer
  <2>3. CASE w # 0
    <3>1. w \in DOMAIN dnsRequests /\ dnsRequests[w].dom = devMsg.dom
      <4>1. dnsRequests \in Seq(Request)
        BY DEF TypeOK
      <4> QED BY <2>3, <4>1, WaiterForDomain
    <3>2. /\ id \in Queries /\ answers[id] = << >>
          /\ queried[id] = devMsg.dom /\ queried[id] # NoDomain
      BY <3>1, WaitingTyped, DomainAssumption DEF QueryInv, AnsweredOnce
    <3>3. answers' = [answers EXCEPT ![id] = <<devMsg.addr>>]
      BY <1>5, <2>3, <3>2 DEF DevAnswer, Answer, TypeOK
    <3>4. devMsg \in Message /\ devPc = "answer"
      BY <1>5 DEF DevAnswer, TypeOK
    <3>5. devMsg.addr \in Address \cup {NoAddress}
          /\ devMsg = [addr |-> devMsg.addr, dom |-> devMsg.dom]
      BY <3>4 DEF Message
    <3>6. devMsg.addr = NoAddress \/ Promise!Owned(devMsg.addr, queried[id])
      BY <3>2, <3>4, <3>5, HoldsOwned DEF SoundInv
    <3> HIDE DEF w, id
    <3>7. Promise!Reply(id, devMsg.addr)
      BY <1>0, <2>1, <3>2, <3>3, <3>6 DEF Promise!Reply
    <3> QED BY <3>2, <3>5, <3>7 DEF Promise!Next
  <2> QED BY <2>2, <2>3
<1>6. CASE \/ DnsSend \/ DnsPush
           \/ \E d \in Domains : Resolve(d)
           \/ \E d \in Domains, s \in Statuses : ServerReply(d, s)
           \/ UNCHANGED vars
  <2>1. bindedChains' = bindedChains /\ queried' = queried /\ answers' = answers
    BY <1>6 DEF DnsSend, DnsPush, Resolve, ServerReply, vars, devVars
  <2> QED BY <1>0, <1>1, <2>1
<1>7. bindedIp' \in Address
  BY DEF TypeOK
<1> QED BY <1>1, <1>2, <1>3, <1>4, <1>5, <1>6, <1>7 DEF Next, Promise!Next

(* The two threads keep the promise of NameBinding: an address belongs to  *)
(* one domain for ever, and a query is replied to at most once, with "none"*)
(* or with an address of its domain.                                       *)
THEOREM NameBindingImplemented == Spec => ImplementsNameBinding
<1>1. Spec => []Inv
  BY InitInv, StepInv, PTL DEF Spec
<1> QED BY <1>1, InitRefines, StepRefines, PTL
     DEF Spec, ImplementsNameBinding, Promise!Spec

-----------------------------------------------------------------------------
(* Without loss and refusals a waiting query is never stranded unbound.    *)

LEMMA SendAddsRequest ==
  ASSUME TypeOK, ~Lossy, NEW e \in Domains, SendGetChains(e)
  PROVE  /\ requests'[e] > 0
         /\ \A d \in Domains : requests[d] > 0 => requests'[d] > 0
         /\ responses' = responses
<1>1. requests' = [requests EXCEPT ![e] = @ + 1] /\ responses' = responses
  BY Zenon DEF SendGetChains
<1>2. requests \in [Domains -> Nat]
  BY DEF TypeOK
<1> QED BY <1>1, <1>2

LEMMA BoundStays ==
  ASSUME TypeOK, TypeOK', [Next]_vars, NEW d \in Domains, ~Bound(d)'
  PROVE  ~Bound(d)
BY StepLookupStable

(* A query that waits after a step waited before it or has just missed.    *)
LEMMA WaitingBefore ==
  ASSUME TypeOK, TypeOK', [Next]_vars, NEW d \in Domains, Waiting(d)'
  PROVE  Waiting(d) \/ (dnsPc' = "send" /\ dnsReq'.dom = d)
<1>1. ASSUME NEW q \in Queries, NEW e \in Domains, DnsMiss(q, e)
      PROVE  Waiting(d) \/ (dnsPc' = "send" /\ dnsReq'.dom = d)
  BY <1>1 DEF DnsMiss, Waiting
<1>2. CASE DnsSend
  BY <1>2 DEF DnsSend, Waiting
<1>3. CASE DnsPush
  <2>1. /\ dnsRequests \in Seq(Request) /\ dnsReq \in Request
        /\ dnsRequests' = Append(dnsRequests, dnsReq)
        /\ dnsPc = "push" /\ dnsPc' = "recv"
    BY <1>3 DEF DnsPush, TypeOK
  <2> DEFINE n == Len(dnsRequests)
  <2>2. /\ n \in Nat /\ DOMAIN dnsRequests = 1 .. n
        /\ DOMAIN dnsRequests' = 1 .. n + 1
        /\ \A i \in 1 .. n : dnsRequests'[i] = dnsRequests[i]
        /\ dnsRequests'[n + 1] = dnsReq
    BY <2>1, AppendProperties
  <2> HIDE DEF n
  <2>3. PICK i \in 1 .. n + 1 : dnsRequests'[i].dom = d
    BY <2>1, <2>2 DEF Waiting
  <2>4. i \in 1 .. n \/ i = n + 1
    BY <2>2
  <2> QED BY <2>1, <2>2, <2>3, <2>4 DEF Waiting
<1>4. CASE DevAnswer
  <2> DEFINE w == WaiterFor(devMsg.dom)
  <2>1. dnsPc' = dnsPc /\ dnsReq' = dnsReq
    BY <1>4 DEF DevAnswer
  <2>2. CASE w = 0
    BY <1>4, <2>1, <2>2 DEF DevAnswer, Waiting
  <2>3. CASE w # 0
    <3>1. dnsRequests \in Seq(Request) /\ dnsRequests' = RemoveAt(dnsRequests, w)
      BY <1>4, <2>3 DEF DevAnswer, TypeOK
    <3>2. w \in 1 .. Len(dnsRequests)
      BY <2>3, WaiterForDomain
    <3> HIDE DEF w
    <3>3. /\ dnsRequests' \in Seq(Request)
          /\ Len(dnsRequests') = Len(dnsRequests) - 1
          /\ \A k \in 1 .. Len(dnsRequests) - 1 : dnsRequests'[k] =
               IF k < w THEN dnsRequests[k] ELSE dnsRequests[k + 1]
      BY <3>1, <3>2, RemoveAtElements, Zenon
    <3>4. \A k \in DOMAIN dnsRequests' :
            \E i \in DOMAIN dnsRequests : dnsRequests'[k] = dnsRequests[i]
      BY <3>1, <3>2, <3>3
    <3> QED BY <2>1, <3>4 DEF Waiting
  <2> QED BY <2>2, <2>3
<1>5. CASE \/ \E q \in Queries, e \in Domains : DnsHit(q, e)
           \/ \E e \in Domains : Resolve(e)
           \/ \E e \in Domains, s \in Statuses :
                 DevReceive(e, s) \/ ServerReply(e, s)
           \/ UNCHANGED vars
  <2>1. dnsPc' = dnsPc /\ dnsReq' = dnsReq /\ dnsRequests' = dnsRequests
    BY <1>5 DEF DnsHit, Resolve, DevReceive, ServerReply, vars, dnsVars
  <2> QED BY <2>1 DEF Waiting
<1> QED BY <1>1, <1>2, <1>3, <1>4, <1>5 DEF Next

(* A request or response that was under way still is, or has bound its     *)
(* domain.                                                                 *)
LEMMA UnderWayStays ==
  ASSUME TypeOK, TypeOK', ~Lossy, Statuses = {OK}, [Next]_vars,
         NEW d \in Domains, UnderWay(d)
  PROVE  UnderWay(d)' \/ Bound(d)'
<1>0. /\ requests \in [Domains -> Nat]
      /\ responses \in [Domains -> [Statuses -> Nat]]
      /\ OK \in Statuses
  BY DEF TypeOK
<1>1. ASSUME NEW q \in Queries, NEW e \in Domains, DnsHit(q, e) \/ DnsMiss(q, e)
      PROVE  UnderWay(d)'
  BY <1>1 DEF DnsHit, DnsMiss, UnderWay, netVars, dnsVars
<1>2. CASE DnsSend
  <2>1. /\ dnsReq.dom \in Domains /\ SendGetChains(dnsReq.dom)
    BY <1>2 DEF DnsSend, TypeOK, Request
  <2>2. /\ requests'[dnsReq.dom] > 0 /\ responses' = responses
        /\ requests[d] > 0 => requests'[d] > 0
    BY <2>1, SendAddsRequest
  <2> QED BY <2>2 DEF UnderWay
<1>3. CASE DnsPush
  BY <1>3 DEF DnsPush, UnderWay, netVars
<1>4. ASSUME NEW e \in Domains, NEW s \in Statuses, DevReceive(e, s)
      PROVE  UnderWay(d)' \/ Bound(d)'
  <2>1. s = OK
    OBVIOUS
  <2>2. CASE e = d
    <3>1. Bind(d)
      BY <1>4, <2>1, <2>2 DEF DevReceive, Bind
    <3>2. /\ Len(bindedChains) + 1 \in 1 .. Len(bindedChains')
          /\ bindedChains'[Len(bindedChains) + 1].dom = d
      <4>1. Len(bindedChains) \in Nat
        BY DEF TypeOK
      <4>2. /\ Len(bindedChains') = Len(bindedChains) + 1
            /\ bindedChains'[Len(bindedChains) + 1] = [addr |-> bindedIp', dom |-> d]
        BY <3>1, BindAppends, Zenon
      <4> QED BY <4>1, <4>2
    <3>3. bindedChains' \in Seq(Binding)
      BY DEF TypeOK
    <3>4. FirstFor(bindedChains', d) # 0
      BY <3>2, <3>3, FirstForFinds
    <3> QED BY <3>4 DEF Bound, BindingOf
  <2>3. CASE e # d
    <3>1. /\ responses'[d] = responses[d] /\ requests' = requests
          /\ dnsPc' = dnsPc /\ dnsReq' = dnsReq
      BY <1>0, <1>4, <2>3 DEF DevReceive, dnsVars
    <3> QED BY <3>1 DEF UnderWay
  <2> QED BY <2>2, <2>3
<1>5. CASE DevAnswer
  BY <1>5 DEF DevAnswer, UnderWay, netVars
<1>6. ASSUME NEW e \in Domains, Resolve(e)
      PROVE  UnderWay(d)'
  <2>1. /\ SendGetChains(e) /\ dnsPc' = dnsPc /\ dnsReq' = dnsReq
    BY <1>6 DEF Resolve, dnsVars
  <2>2. responses' = responses /\ (requests[d] > 0 => requests'[d] > 0)
    BY <2>1, SendAddsRequest
  <2> QED BY <2>1, <2>2 DEF UnderWay
<1>7. ASSUME NEW e \in Domains, NEW s \in Statuses, ServerReply(e, s)
      PROVE  UnderWay(d)'
  <2>1. /\ requests' = [requests EXCEPT ![e] = @ - 1]
        /\ responses' = [responses EXCEPT ![e][s] = @ + 1]
        /\ dnsPc' = dnsPc /\ dnsReq' = dnsReq
    BY <1>7 DEF ServerReply, dnsVars
  <2>2. CASE e = d
    <3>1. responses'[d][s] > 0
      BY <1>0, <2>1, <2>2
    <3> QED BY <3>1 DEF UnderWay
  <2>3. CASE e # d
    <3>1. responses'[d] = responses[d] /\ requests'[d] = requests[d]
      BY <1>0, <2>1, <2>3
    <3> QED BY <2>1, <3>1 DEF UnderWay
  <2> QED BY <2>2, <2>3
<1>8. CASE UNCHANGED vars
  BY <1>8 DEF vars, dnsVars, netVars, UnderWay
<1> QED BY <1>1, <1>2, <1>3, <1>4, <1>5, <1>6, <1>7, <1>8 DEF Next

LEMMA StepWaiter ==
  ASSUME ~Lossy, Statuses = {OK}
  PROVE  TypeOK /\ TypeOK' /\ WaiterHasTraffic /\ [Next]_vars => WaiterHasTraffic'
<1> SUFFICES ASSUME TypeOK, TypeOK', WaiterHasTraffic, [Next]_vars,
                    NEW d \in Domains, Waiting(d)', ~Bound(d)'
             PROVE  UnderWay(d)'
  BY DEF WaiterHasTraffic
<1>1. CASE dnsPc' = "send" /\ dnsReq'.dom = d
  BY <1>1 DEF UnderWay
<1>2. CASE Waiting(d)
  <2>1. UnderWay(d)
    BY <1>2, BoundStays DEF WaiterHasTraffic
  <2> QED BY <2>1, UnderWayStays
<1> QED BY <1>1, <1>2, WaitingBefore

(* On a reliable network with a RouteServer that refuses nothing, no query *)
(* waits for a domain that is neither bound nor about to be.               *)
THEOREM WaiterHasTrafficCorrect ==
  ASSUME ~Lossy, Statuses = {OK}
  PROVE  Spec => []WaiterHasTraffic
<1>1. Init => WaiterHasTraffic
  BY DEF Init, WaiterHasTraffic, Waiting
<1> QED BY <1>1, InitTypeOK, StepTypeOK, StepWaiter, PTL DEF Spec
=============================================================================
