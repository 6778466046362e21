----------------------------- MODULE Edge_proofs -----------------------------
(***************************************************************************)
(* Proofs about Edge and the parts it is composed of, for every base of a  *)
(* byte, every set of domains, queries and datagrams, every checksum       *)
(* function, and any number of restarts.                                   *)
(***************************************************************************)
EXTENDS Edge, ChainBinding_proofs

-----------------------------------------------------------------------------
(* The label loop.                                                         *)

(* The variables of the wire are typed, and the loop is in the datagram.   *)
WireInv ==
  /\ wirePc \in {"recv", "labels", "question"}
  /\ wirePc # "recv" => message \in Datagrams
  /\ address \in Seq(Byte)
  /\ InDatagram

LEMMA BodyIsBytes ==
  ASSUME NEW m \in Datagrams
  PROVE  /\ m.body \in Seq(Byte) /\ Len(m.body) \in Nat
         /\ \A i \in 1 .. Len(m.body) : m.body[i] \in 0 .. ByteBase - 1
<1>1. m.body \in Seq(Byte)
  BY DatagramAssumption
<1>2. Len(m.body) \in Nat /\ \A i \in 1 .. Len(m.body) : m.body[i] \in Byte
  BY <1>1
<1> QED BY <1>1, <1>2 DEF Byte

(* A label that is not too long lies in the datagram, whatever its bytes.  *)
LEMMA LabelInside ==
  ASSUME WireInv, TakeLabel
  PROVE  /\ Nl \in Nat /\ at + 1 + Nl <= Len(message.body)
         /\ SubSeq(message.body, at + 2, at + 1 + Nl) \in Seq(Byte)
<1>1. /\ message \in Datagrams /\ at \in Nat /\ max \in Nat
      /\ at + max = Len(message.body) /\ max >= 1 /\ ~TooLong(Nl)
  BY DEF WireInv, TakeLabel, InDatagram
<1>2. Nl \in Nat
  BY <1>1, BodyIsBytes, ByteBaseAssumption DEF Nl
<1>3. at + 1 + Nl <= Len(message.body)
  BY <1>1, <1>2 DEF TooLong
<1>4. \A i \in at + 2 .. at + 1 + Nl : message.body[i] \in Byte
  <2>1. \A i \in at + 2 .. at + 1 + Nl : i \in 1 .. Len(message.body)
    BY <1>1, <1>2, <1>3, BodyIsBytes
  <2> QED BY <1>1, <2>1, BodyIsBytes DEF Byte
<1>5. at + 2 \in Int /\ at + 1 + Nl \in Int
  BY <1>1, <1>2
<1> QED BY <1>2, <1>3, <1>4, <1>5, SubSeqProperties

LEMMA JoinIsBytes ==
  ASSUME NEW name \in Seq(Byte), NEW label \in Seq(Byte)
  PROVE  JoinedWith(name, label) \in Seq(Byte)
<1>1. Append(name, Dot) \in Seq(Byte)
  BY DatagramAssumption, AppendProperties
<1>2. << >> \in Seq(Byte)
  OBVIOUS
<1>3. (IF name = << >> THEN << >> ELSE Append(name, Dot)) \in Seq(Byte)
  BY <1>1, <1>2
<1> QED BY <1>3, ConcatProperties DEF JoinedWith

LEMMA InitWire == EdgeInit => WireInv
BY DEF EdgeInit, WireInit, WireInv, InDatagram

LEMMA StepWireLoop == WireInv /\ WireNext => WireInv'
<1> SUFFICES ASSUME WireInv, WireNext PROVE WireInv'
  OBVIOUS
<1>1. /\ wirePc = "labels" /\ message \in Datagrams /\ message' = message
      /\ address \in Seq(Byte)
      /\ at \in Nat /\ max \in Nat /\ at + max = Len(message.body)
  BY DEF WireInv, InDatagram, WireNext, NoLabel, LabelCut, TakeLabel
<1>2. CASE NoLabel
  BY <1>1, <1>2 DEF NoLabel, WireInv, InDatagram
<1>3. CASE LabelCut
  BY <1>1, <1>3 DEF LabelCut, WireInv, InDatagram
<1>4. CASE TakeLabel
  <2>1. /\ Nl \in Nat /\ at + 1 + Nl <= Len(message.body)
        /\ SubSeq(message.body, at + 2, at + 1 + Nl) \in Seq(Byte)
    BY <1>4, LabelInside
  <2>2. address' \in Seq(Byte)
    BY <1>1, <1>4, <2>1, JoinIsBytes DEF TakeLabel
  <2>3. at' = at + 1 + Nl /\ max' = (max - 1) - Nl /\ wirePc' = "labels"
    BY <1>1, <1>4 DEF TakeLabel, Passed
  <2>4. at' \in Nat /\ max' \in Nat /\ at' + max' = Len(message.body)
    BY <1>1, <2>1, <2>3
  <2> QED BY <1>1, <2>2, <2>3, <2>4 DEF WireInv, InDatagram
<1> QED BY <1>2, <1>3, <1>4 DEF WireNext

LEMMA StepWire == WireInv /\ [EdgeNext]_allVars => WireInv'
<1> SUFFICES ASSUME WireInv, [EdgeNext]_allVars PROVE WireInv'
  OBVIOUS
<1>1. ASSUME NEW m \in Datagrams, Query(m) PROVE WireInv'
  BY <1>1, BodyIsBytes DEF Query, WireReceive, WireInv, InDatagram
<1>2. CASE Parse
  BY <1>2, StepWireLoop DEF Parse
<1>3. CASE WireDone
  BY <1>3 DEF WireDone, WireInv, InDatagram
<1>4. CASE UNCHANGED wireVars
  BY <1>4 DEF wireVars, WireInv, InDatagram
<1>5. \/ \E m \in Datagrams : Query(m)
      \/ Parse \/ WireDone \/ UNCHANGED wireVars
  BY DEF EdgeNext, OnDNSRequest, IgnoreQuery, Name, TunnelSend, Deliver, Drop,
         Sum, Write, Restart, allVars
<1> QED BY <1>1, <1>2, <1>3, <1>4, <1>5

(* The parser's pointer and its count agree on the end of the datagram,    *)
(* whatever a datagram holds and however long it is.                       *)
THEOREM InDatagramCorrect == EdgeSpec => []InDatagram
<1>1. WireInv => InDatagram
  BY DEF WireInv
<1> QED BY <1>1, InitWire, StepWire, PTL DEF EdgeSpec

(* The name of the first i - 1 labels of a question, read by places.       *)
LetterOrDot(q, mk, k) == IF \E j \in DOMAIN mk : mk[j] = k + 1 THEN Dot ELSE q[k + 1]
Upto(q, mk, i) == [k \in 1 .. mk[i] - 2 |-> LetterOrDot(q, mk, k)]

(* The loop is at a length byte of the question, and has the name of the   *)
(* labels before it.                                                       *)
AtLabel(i) ==
  /\ i \in 1 .. Len(message.marks)
  /\ at = message.marks[i] - 1 /\ at <= Len(message.body)
  /\ address = Upto(message.question, message.marks, i)

AskInv ==
  /\ wirePc = "labels" /\ message.marks # << >> => \E i \in Nat : AtLabel(i)
  /\ AsAsked

(* A question q with the length bytes at the places of mk, of which the    *)
(* bytes bd have arrived.                                                  *)
Question(q, mk, bd) ==
  LET n == Len(mk) IN
    /\ q \in Seq(Byte) /\ mk \in Seq(Nat) /\ n # 0
    /\ mk[1] = 1 /\ Len(q) = mk[n] + 4
    /\ \A i \in 1 .. n - 1 : mk[i + 1] = mk[i] + 1 + q[mk[i]]
    /\ \A i \in 1 .. n, j \in 1 .. n : i < j => mk[i] < mk[j]
    /\ \A k \in 1 .. mk[n] : q[k] = 0 <=> k = mk[n]
    /\ \E k \in 1 .. Len(q) : bd = SubSeq(q, 1, k)

LEMMA AreQuestions ==
  ASSUME NEW m \in Datagrams, m.marks # << >>
  PROVE  Question(m.question, m.marks, m.body)
<1>1. m.marks \in Seq(Nat)
  BY QuestionAssumption
<1>2. Len(m.marks) # 0
  BY <1>1, EmptySeq
<1> QED BY <1>2, QuestionAssumption DEF Question

(* What a question looks like, and what has arrived of it.                 *)
LEMMA QuestionShape ==
  ASSUME NEW q, NEW mk, NEW bd, Question(q, mk, bd)
  PROVE  /\ Len(mk) \in Nat \ {0} /\ DOMAIN mk = 1 .. Len(mk)
         /\ \A i \in 1 .. Len(mk) : mk[i] \in Nat \ {0} /\ mk[i] <= mk[Len(mk)]
         /\ Len(q) \in Nat /\ \A k \in 1 .. Len(q) : q[k] \in Byte
         /\ bd \in Seq(Byte) /\ Len(bd) \in 1 .. Len(q)
         /\ \A k \in 1 .. Len(bd) : bd[k] = q[k]
         /\ bd = q <=> Len(bd) = Len(q)
<1>1. /\ q \in Seq(Byte) /\ mk \in Seq(Nat) /\ mk[1] = 1 /\ Len(mk) # 0
      /\ \A i \in 1 .. Len(mk), j \in 1 .. Len(mk) : i < j => mk[i] < mk[j]
  BY DEF Question
<1>2. Len(mk) \in Nat \ {0} /\ DOMAIN mk = 1 .. Len(mk) /\ \A i \in 1 .. Len(mk) : mk[i] \in Nat
  BY <1>1, LenProperties, ElementOfSeq
<1>3. \A i \in 1 .. Len(mk) : mk[i] # 0 /\ mk[i] <= mk[Len(mk)]
  <2> SUFFICES ASSUME NEW i \in 1 .. Len(mk) PROVE mk[i] # 0 /\ mk[i] <= mk[Len(mk)]
    OBVIOUS
  <2>1. PICK n \in Nat : n = Len(mk)
    BY <1>2
  <2>2. 1 \in 1 .. n /\ n \in 1 .. n /\ i \in 1 .. n
    BY <1>2, <2>1
  <2>3. i = 1 \/ mk[1] < mk[i]
    BY <1>1, <2>1, <2>2
  <2>4. i = n \/ mk[i] < mk[n]
    BY <1>1, <2>1, <2>2
  <2>5. mk[i] \in Nat /\ mk[n] \in Nat
    BY <1>2, <2>1, <2>2
  <2>6. mk[i] # 0
    BY <1>1, <2>3, <2>5
  <2>7. mk[i] <= mk[n]
    BY <2>4, <2>5
  <2> QED BY <2>1, <2>6, <2>7
<1>4. PICK k \in 1 .. Len(q) : bd = SubSeq(q, 1, k)
  BY DEF Question
<1>5. (\A i \in 1 .. Len(q) : q[i] \in Byte) /\ Len(q) \in Nat
  BY <1>1, ElementOfSeq, LenProperties
<1>6. Len(bd) = k /\ bd \in Seq(Byte) /\ \A i \in 1 .. k : bd[i] = q[i]
  <2>1. k \in Int /\ \A i \in 1 .. k : q[i] \in Byte
    BY <1>5
  <2>2. /\ bd \in Seq(Byte) /\ Len(bd) = IF 1 <= k THEN k - 1 + 1 ELSE 0
        /\ \A i \in 1 .. k - 1 + 1 : bd[i] = q[1 + i - 1]
    BY <1>4, <2>1, SubSeqProperties
  <2>3. k \in Nat /\ 1 <= k
    BY <1>5
  <2> QED BY <2>2, <2>3
<1>7. bd = q <=> Len(bd) = Len(q)
  BY <1>1, <1>4, <1>6, SubSeqFull
<1> QED BY <1>2, <1>3, <1>5, <1>6, <1>7

(* What a length byte before the last says, and what lies behind it.       *)
LEMMA LabelShape ==
  ASSUME NEW q, NEW mk, NEW bd, Question(q, mk, bd), NEW i \in 1 .. Len(mk) - 1
  PROVE  /\ mk[i] \in Nat \ {0} /\ mk[i + 1] \in Nat /\ q[mk[i]] \in Nat \ {0}
         /\ mk[i + 1] = mk[i] + 1 + q[mk[i]] /\ mk[i + 1] <= mk[Len(mk)]
         /\ \A k \in 1 .. mk[i + 1] - 1 : q[k] # 0
         /\ \A j \in 1 .. Len(mk) : mk[j] <= mk[i] \/ mk[i + 1] <= mk[j]
<1>1. Len(mk) \in Nat /\ i \in 1 .. Len(mk) /\ i + 1 \in 1 .. Len(mk) /\ i < Len(mk)
  BY QuestionShape
<1>2. /\ mk[i] \in Nat \ {0} /\ mk[i + 1] \in Nat /\ mk[i + 1] <= mk[Len(mk)]
      /\ mk[Len(mk)] \in Nat /\ mk[i] < mk[i + 1] /\ mk[i + 1] = mk[i] + 1 + q[mk[i]]
      /\ \A k \in 1 .. mk[Len(mk)] : q[k] = 0 <=> k = mk[Len(mk)]
  <2>1. Len(mk) \in 1 .. Len(mk)
    BY <1>1
  <2>2. /\ \A x \in 1 .. Len(mk), y \in 1 .. Len(mk) : x < y => mk[x] < mk[y]
        /\ mk[i + 1] = mk[i] + 1 + q[mk[i]]
        /\ \A k \in 1 .. mk[Len(mk)] : q[k] = 0 <=> k = mk[Len(mk)]
    BY DEF Question
  <2>3. mk[i] < mk[i + 1]
    BY <1>1, <2>2
  <2> QED BY <1>1, <2>1, <2>2, <2>3, QuestionShape
<1>3. \A k \in 1 .. mk[i + 1] - 1 : q[k] # 0
  BY <1>2
<1>4. q[mk[i]] \in Nat \ {0}
  <2>1. mk[i] \in 1 .. mk[i + 1] - 1
    BY <1>2
  <2>2. mk[i] \in 1 .. Len(q)
    <3>1. Len(q) = mk[Len(mk)] + 4
      BY DEF Question
    <3> QED BY <1>2, <3>1
  <2>3. q[mk[i]] \in Byte
    BY <2>2, QuestionShape
  <2> QED BY <1>3, <2>1, <2>3, ByteBaseAssumption DEF Byte
<1>5. \A j \in 1 .. Len(mk) : mk[j] <= mk[i] \/ mk[i + 1] <= mk[j]
  <2> SUFFICES ASSUME NEW j \in 1 .. Len(mk) PROVE mk[j] <= mk[i] \/ mk[i + 1] <= mk[j]
    OBVIOUS
  <2>1. \A x \in 1 .. Len(mk), y \in 1 .. Len(mk) : x < y => mk[x] < mk[y]
    BY DEF Question
  <2>2. j < i \/ j = i \/ j = i + 1 \/ i + 1 < j
    BY <1>1
  <2>3. mk[j] \in Nat
    BY QuestionShape
  <2> QED BY <1>1, <1>2, <2>1, <2>2, <2>3
<1> QED BY <1>2, <1>3, <1>4, <1>5

LEMMA DotBetween ==
  ASSUME NEW q, NEW mk, NEW bd, Question(q, mk, bd), NEW i \in 1 .. Len(mk) - 1,
         NEW k \in Nat, mk[i] - 1 < k, k < mk[i + 1] - 1
  PROVE  ~ \E j \in DOMAIN mk : mk[j] = k + 1
<1> SUFFICES ASSUME NEW j \in DOMAIN mk, mk[j] = k + 1 PROVE FALSE
  OBVIOUS
<1>1. j \in 1 .. Len(mk) /\ mk[j] \in Nat
  BY QuestionShape
<1>2. mk[i] \in Nat /\ mk[i + 1] \in Nat /\ (mk[j] <= mk[i] \/ mk[i + 1] <= mk[j])
  BY <1>1, LabelShape
<1> QED BY <1>1, <1>2

(* The label behind a length byte, once it has arrived.                    *)
LEMMA LabelBytes ==
  ASSUME NEW q, NEW bd \in Seq(Byte), NEW a \in Nat, NEW b \in Nat,
         a # 0, a + 2 <= b, b - 1 <= Len(bd), \A k \in 1 .. Len(bd) : bd[k] = q[k]
  PROVE  LET label == SubSeq(bd, a + 1, b - 1) IN
           /\ label \in Seq(Byte) /\ Len(label) = b - a - 1
           /\ \A k \in 1 .. b - a - 1 : label[k] = q[a + k]
<1> DEFINE label == SubSeq(bd, a + 1, b - 1)
<1>1. Len(bd) \in Nat /\ \A k \in 1 .. Len(bd) : bd[k] \in Byte
  BY LenProperties, ElementOfSeq
<1>2. \A k \in a + 1 .. b - 1 : k \in 1 .. Len(bd) /\ bd[k] \in Byte
  BY <1>1
<1>3. a + 1 \in Int /\ b - 1 \in Int
  OBVIOUS
<1>4. /\ label \in Seq(Byte)
      /\ Len(label) = IF a + 1 <= b - 1 THEN (b - 1) - (a + 1) + 1 ELSE 0
      /\ \A k \in 1 .. (b - 1) - (a + 1) + 1 : label[k] = bd[(a + 1) + k - 1]
  BY <1>2, <1>3, SubSeqProperties
<1> HIDE DEF label
<1>5. Len(label) = b - a - 1
  BY <1>4
<1>6. ASSUME NEW k \in 1 .. b - a - 1
      PROVE  label[k] = q[a + k]
  <2>1. /\ k \in 1 .. (b - 1) - (a + 1) + 1 /\ (a + 1) + k - 1 = a + k
        /\ a + k \in a + 1 .. b - 1
    OBVIOUS
  <2>2. label[k] = bd[a + k]
    BY <1>4, <2>1
  <2> QED BY <1>2, <2>1, <2>2
<1> QED BY <1>4, <1>5, <1>6 DEF label

(* The names read by places are sequences of bytes.                        *)
LEMMA UptoBytes ==
  ASSUME NEW q, NEW mk, NEW bd, Question(q, mk, bd), NEW i \in 1 .. Len(mk), mk[i] >= 2
  PROVE  /\ Upto(q, mk, i) \in Seq(Byte) /\ Len(Upto(q, mk, i)) = mk[i] - 2
         /\ \A k \in 1 .. mk[i] - 2 : Upto(q, mk, i)[k] = LetterOrDot(q, mk, k)
<1>1. mk[i] \in Nat /\ mk[i] - 2 \in Nat /\ mk[i] <= Len(q) /\ Len(q) \in Nat
  <2>1. Len(q) = mk[Len(mk)] + 4
    BY DEF Question
  <2>2. Len(mk) \in 1 .. Len(mk)
    BY QuestionShape
  <2>3. mk[i] \in Nat /\ mk[i] <= mk[Len(mk)] /\ mk[Len(mk)] \in Nat
    BY <2>2, QuestionShape
  <2> QED BY <2>1, <2>3, QuestionShape
<1>2. ASSUME NEW k \in 1 .. mk[i] - 2 PROVE LetterOrDot(q, mk, k) \in Byte
  <2>1. k + 1 \in 1 .. Len(q)
    BY <1>1
  <2>2. q[k + 1] \in Byte
    BY <2>1, QuestionShape
  <2>3. Dot \in Byte
    BY DatagramAssumption
  <2> QED BY <2>2, <2>3 DEF LetterOrDot
<1>3. Upto(q, mk, i) \in [1 .. mk[i] - 2 -> Byte]
  BY <1>2 DEF Upto
<1>4. Upto(q, mk, i) \in Seq(Byte)
  BY <1>1, <1>3, SeqDef
<1>5. Len(Upto(q, mk, i)) = mk[i] - 2
  BY <1>1, <1>3, <1>4, LenProperties
<1> QED BY <1>4, <1>5 DEF Upto

(* The name before a label, a dot, and the label, place by place.          *)
LEMMA JoinPlaces ==
  ASSUME NEW this \in Seq(Byte), NEW label \in Seq(Byte), NEW next \in Seq(Byte),
         NEW a \in Nat, NEW b \in Nat, a > 2, a + 2 <= b,
         Len(this) = a - 2, Len(label) = b - a - 1, Len(next) = b - 2,
         \A k \in 1 .. a - 2 : next[k] = this[k],
         next[a - 1] = Dot,
         \A k \in 1 .. b - a - 1 : next[k + (a - 1)] = label[k]
  PROVE  JoinedWith(this, label) = next
<1> DEFINE pre == Append(this, Dot)
<1>1. this # << >>
  BY EmptySeq
<1>2. JoinedWith(this, label) = pre \o label
  BY <1>1 DEF JoinedWith
<1>3. /\ pre \in Seq(Byte) /\ Len(pre) = Len(this) + 1
      /\ \A k \in 1 .. Len(this) : pre[k] = this[k]
      /\ pre[Len(this) + 1] = Dot
  BY DatagramAssumption, AppendProperties
<1> HIDE DEF pre
<1>4. Len(pre) = a - 1 /\ (\A k \in 1 .. a - 2 : pre[k] = this[k]) /\ pre[a - 1] = Dot
  BY <1>3
<1>5. /\ pre \o label \in Seq(Byte) /\ Len(pre \o label) = Len(pre) + Len(label)
      /\ \A k \in 1 .. Len(pre) + Len(label) :
           (pre \o label)[k] = IF k <= Len(pre) THEN pre[k] ELSE label[k - Len(pre)]
  BY <1>3, ConcatProperties
<1> DEFINE whole == pre \o label
<1> HIDE DEF whole
<1>6. /\ whole \in Seq(Byte) /\ Len(whole) = b - 2
      /\ \A k \in 1 .. b - 2 : whole[k] = IF k <= a - 1 THEN pre[k] ELSE label[k - (a - 1)]
  BY <1>4, <1>5 DEF whole
<1>7. ASSUME NEW k \in 1 .. b - 2 PROVE whole[k] = next[k]
  <2>1. CASE k <= a - 2
    <3>1. k \in 1 .. a - 2 /\ k <= a - 1
      BY <2>1
    <3>2. whole[k] = pre[k] /\ pre[k] = this[k] /\ next[k] = this[k]
      BY <1>4, <1>6, <3>1
    <3> QED BY <3>2
  <2>2. CASE k = a - 1
    BY <1>4, <1>6, <2>2
  <2>3. CASE k > a - 1
    <3>1. k - (a - 1) \in 1 .. b - a - 1 /\ (k - (a - 1)) + (a - 1) = k /\ ~(k <= a - 1)
      BY <2>3
    <3> QED BY <1>6, <3>1
  <2> QED BY <2>1, <2>2, <2>3
<1>8. whole = next
  BY <1>6, <1>7, SeqEqual
<1> QED BY <1>2, <1>8 DEF whole

(* Joining the label behind the i-th length byte to the name before it is  *)
(* reading the name up to the next length byte.                            *)
LEMMA JoinedIsUpto ==
  ASSUME NEW q, NEW mk, NEW bd, Question(q, mk, bd), NEW i \in 1 .. Len(mk) - 1,
         mk[i + 1] - 1 <= Len(bd)
  PROVE  JoinedWith(Upto(q, mk, i), SubSeq(bd, mk[i] + 1, mk[i + 1] - 1))
           = Upto(q, mk, i + 1)
<1> DEFINE a == mk[i]
           b == mk[i + 1]
           label == SubSeq(bd, a + 1, b - 1)
           this == Upto(q, mk, i)
           next == Upto(q, mk, i + 1)
<1>1. /\ Len(mk) \in Nat /\ i \in 1 .. Len(mk) /\ i + 1 \in 1 .. Len(mk)
      /\ DOMAIN mk = 1 .. Len(mk)
  BY QuestionShape
<1>2. a \in Nat \ {0} /\ b \in Nat /\ a + 2 <= b
  <2>1. q[a] \in Nat \ {0} /\ b = a + 1 + q[a] /\ a \in Nat \ {0}
    BY LabelShape
  <2> HIDE DEF a, b
  <2> QED BY <2>1
<1>3. /\ label \in Seq(Byte) /\ Len(label) = b - a - 1
      /\ \A k \in 1 .. b - a - 1 : label[k] = q[a + k]
  <2>1. bd \in Seq(Byte) /\ \A k \in 1 .. Len(bd) : bd[k] = q[k]
    BY QuestionShape
  <2>2. b - 1 <= Len(bd)
    OBVIOUS
  <2> HIDE DEF a, b
  <2> QED BY <1>2, <2>1, <2>2, LabelBytes
<1>4. /\ next \in Seq(Byte) /\ Len(next) = b - 2
      /\ \A k \in 1 .. b - 2 : next[k] = LetterOrDot(q, mk, k)
  <2>1. mk[i + 1] >= 2
    <3> HIDE DEF a, b
    <3>1. b >= 2
      BY <1>2
    <3> QED BY <3>1 DEF b
  <2> QED BY <1>1, <2>1, UptoBytes
<1>5. \A k \in Nat : a - 1 < k /\ k < b - 1 => LetterOrDot(q, mk, k) = q[k + 1]
  BY DotBetween DEF LetterOrDot
<1>6. CASE a = 1
  <2>1. this = << >>
    <3>1. 1 .. mk[i] - 2 = {}
      BY <1>6
    <3> QED BY <3>1 DEF Upto
  <2>2. JoinedWith(this, label) = label
    BY <1>3, <2>1, ConcatEmptySeq DEF JoinedWith
  <2> HIDE DEF label, next, a, b
  <2>3. ASSUME NEW k \in 1 .. b - 2 PROVE label[k] = next[k]
    <3>1. /\ k \in 1 .. b - a - 1 /\ a + k = k + 1 /\ k \in Nat
          /\ a - 1 < k /\ k < b - 1
      BY <1>2, <1>6
    <3>2. label[k] = q[k + 1]
      BY <1>3, <3>1
    <3> QED BY <1>4, <1>5, <3>1, <3>2
  <2>4. Len(label) = b - 2
    BY <1>2, <1>3, <1>6
  <2>5. label = next
    BY <1>3, <1>4, <2>3, <2>4, SeqEqual
  <2> QED BY <2>2, <2>5 DEF label, next, a, b
<1>7. CASE a # 1
  <2>1. a > 2
    <3>1. mk[1] = 1 /\ i # 1
      BY <1>7 DEF Question
    <3>2. 1 \in 1 .. Len(mk) - 1
      BY <1>1, <3>1
    <3>3. mk[2] = 1 + 1 + q[1] /\ q[1] \in Nat \ {0} /\ mk[2] \in Nat
      BY <3>1, <3>2, LabelShape
    <3>4. mk[i] <= mk[1] \/ mk[1 + 1] <= mk[i]
      BY <1>1, <3>2, LabelShape
    <3>5. a <= 1 \/ mk[2] <= a
      BY <3>1, <3>4
    <3> HIDE DEF a, b
    <3> QED BY <1>2, <1>7, <3>3, <3>5
  <2>2. /\ this \in Seq(Byte) /\ Len(this) = a - 2
        /\ \A k \in 1 .. a - 2 : this[k] = LetterOrDot(q, mk, k)
    <3>1. mk[i] >= 2
      <4> HIDE DEF a, b
      <4>1. a >= 2
        BY <1>2, <2>1
      <4> QED BY <4>1 DEF a
    <3> QED BY <1>1, <3>1, UptoBytes
  <2>3. LetterOrDot(q, mk, a - 1) = Dot
    <3>1. i \in DOMAIN mk /\ mk[i] = (a - 1) + 1
      <4>1. i \in DOMAIN mk
        BY <1>1, QuestionShape
      <4>2. mk[i] = a
        OBVIOUS
      <4> HIDE DEF a, b
      <4>3. a = (a - 1) + 1
        BY <1>2
      <4> QED BY <4>1, <4>2, <4>3
    <3> HIDE DEF a, b
    <3> QED BY <3>1 DEF LetterOrDot
  <2> HIDE DEF label, this, next, a, b
  <2>4. \A k \in 1 .. a - 2 : next[k] = this[k]
    BY <1>2, <1>4, <2>2
  <2>5. next[a - 1] = Dot
    BY <1>2, <1>4, <2>1, <2>3
  <2>6. ASSUME NEW k \in 1 .. b - a - 1 PROVE next[k + (a - 1)] = label[k]
    <3>1. /\ k + (a - 1) \in 1 .. b - 2 /\ k + (a - 1) \in Nat /\ (k + (a - 1)) + 1 = a + k
          /\ a - 1 < k + (a - 1) /\ k + (a - 1) < b - 1
      BY <1>2
    <3>2. next[k + (a - 1)] = q[(k + (a - 1)) + 1]
      BY <1>4, <1>5, <3>1
    <3> QED BY <1>3, <3>1, <3>2
  <2>7. JoinedWith(this, label) = next
    BY <1>2, <1>3, <1>4, <2>1, <2>2, <2>4, <2>5, <2>6, JoinPlaces
  <2> QED BY <2>7 DEF label, this, next, a, b
<1> QED BY <1>6, <1>7

(* A length byte is zero when it is the last.                              *)
LEMMA ZeroIsLast ==
  ASSUME NEW q, NEW mk, NEW bd, Question(q, mk, bd), NEW i \in 1 .. Len(mk)
  PROVE  q[mk[i]] = 0 <=> i = Len(mk)
<1>1. Len(mk) \in Nat \ {0} /\ mk[i] \in Nat \ {0} /\ mk[i] <= mk[Len(mk)]
      /\ mk[Len(mk)] \in Nat
  <2>1. Len(mk) \in 1 .. Len(mk)
    BY QuestionShape
  <2> QED BY <2>1, QuestionShape
<1>2. q[mk[i]] = 0 <=> mk[i] = mk[Len(mk)]
  BY <1>1 DEF Question
<1>3. CASE i = Len(mk)
  BY <1>2, <1>3
<1>4. CASE i # Len(mk)
  <2>1. i \in 1 .. Len(mk) - 1
    BY <1>1, <1>4
  <2> QED BY <1>4, <2>1, LabelShape
<1> QED BY <1>3, <1>4

(* Where the loop is.                                                      *)
LEMMA AtPlace ==
  ASSUME WireInv, AskInv, wirePc = "labels", message.marks # << >>
  PROVE  \E i \in 1 .. Len(message.marks) :
           /\ AtLabel(i) /\ message.marks[i] = at + 1
           /\ max >= 1 => /\ Nl = message.question[message.marks[i]]
                          /\ Nl = 0 <=> i = Len(message.marks)
<1>1. PICK i \in Nat : AtLabel(i)
  BY DEF AskInv
<1>2. i \in 1 .. Len(message.marks) /\ at = message.marks[i] - 1
  BY <1>1 DEF AtLabel
<1>3. /\ message \in Datagrams /\ at \in Nat /\ max \in Nat /\ at + max = Len(message.body)
  BY DEF WireInv, InDatagram
<1>4. Question(message.question, message.marks, message.body)
  BY <1>3, AreQuestions
<1>5. message.marks[i] \in Nat
  BY <1>2, <1>4, QuestionShape
<1>6. message.marks[i] = at + 1
  BY <1>2, <1>5
<1>7. ASSUME max >= 1 PROVE Nl = message.question[message.marks[i]]
  <2>1. at + 1 \in 1 .. Len(message.body)
    BY <1>3, <1>7
  <2>2. message.body[at + 1] = message.question[at + 1]
    BY <1>4, <2>1, QuestionShape
  <2> QED BY <1>6, <2>2 DEF Nl
<1>8. message.question[message.marks[i]] = 0 <=> i = Len(message.marks)
  BY <1>2, <1>4, ZeroIsLast
<1> QED BY <1>1, <1>2, <1>6, <1>7, <1>8

LEMMA AskTake ==
  ASSUME WireInv, AskInv, TakeLabel, message.marks # << >>
  PROVE  \E i \in Nat : AtLabel(i)'
<1>1. /\ message \in Datagrams /\ at \in Nat /\ max \in Nat /\ at + max = Len(message.body)
      /\ wirePc = "labels"
  BY DEF WireInv, InDatagram, TakeLabel
<1>2. PICK i \in 1 .. Len(message.marks) :
        /\ AtLabel(i) /\ message.marks[i] = at + 1
        /\ max >= 1 => /\ Nl = message.question[message.marks[i]]
                       /\ Nl = 0 <=> i = Len(message.marks)
  BY <1>1, AtPlace
<1>3. Question(message.question, message.marks, message.body)
  BY <1>1, AreQuestions
<1>4. /\ Nl = message.question[message.marks[i]] /\ i # Len(message.marks)
      /\ ~TooLong(Nl) /\ message' = message
      /\ address' = JoinedWith(address, SubSeq(message.body, at + 2, at + 1 + Nl))
      /\ at' = at + 1 + Nl
  BY <1>2 DEF TakeLabel, Passed
<1>5. i \in 1 .. Len(message.marks) - 1 /\ i + 1 \in 1 .. Len(message.marks) /\ i + 1 \in Nat
  <2>1. Len(message.marks) \in Nat
    BY <1>3, QuestionShape
  <2> QED BY <1>4, <2>1
<1>6. Nl \in Nat /\ message.marks[i + 1] = message.marks[i] + 1 + Nl
  BY <1>3, <1>4, <1>5, LabelShape
<1>7. /\ message.marks[i + 1] - 1 <= Len(message.body)
      /\ at + 2 = message.marks[i] + 1 /\ at + 1 + Nl = message.marks[i + 1] - 1
  <2> DEFINE here == message.marks[i]
             there == message.marks[i + 1]
             size == Len(message.body)
             nl == Nl
  <2>1. /\ at \in Nat /\ max \in Nat /\ at + max = size /\ here = at + 1
        /\ nl \in Nat /\ there = here + 1 + nl /\ ~((max - 1) - nl < 0)
    BY <1>1, <1>2, <1>4, <1>6 DEF TooLong
  <2> HIDE DEF here, there, size, nl
  <2>2. there - 1 <= size /\ at + 2 = here + 1 /\ at + 1 + nl = there - 1
    BY <2>1
  <2> QED BY <2>2 DEF here, there, size, nl
<1>8. address = Upto(message.question, message.marks, i)
  BY <1>2 DEF AtLabel
<1>9. JoinedWith(Upto(message.question, message.marks, i),
                 SubSeq(message.body, message.marks[i] + 1, message.marks[i + 1] - 1))
        = Upto(message.question, message.marks, i + 1)
  BY <1>3, <1>5, <1>7, JoinedIsUpto
<1>10. address' = Upto(message.question, message.marks, i + 1)
  BY <1>4, <1>7, <1>8, <1>9
<1>11. AtLabel(i + 1)'
  BY <1>4, <1>5, <1>7, <1>10 DEF AtLabel
<1> QED BY <1>5, <1>11

(* A type begins with a zero: no letter of a name.                         *)
LEMMA CutIgnored ==
  ASSUME WireInv, AskInv, LabelCut, message.marks # << >>
  PROVE  AsAsked'
<1>1. /\ message \in Datagrams /\ at \in Nat /\ max \in Nat /\ at + max = Len(message.body)
      /\ wirePc = "labels"
  BY DEF WireInv, InDatagram, LabelCut
<1>2. PICK i \in 1 .. Len(message.marks) :
        /\ AtLabel(i) /\ message.marks[i] = at + 1
        /\ max >= 1 => /\ Nl = message.question[message.marks[i]]
                       /\ Nl = 0 <=> i = Len(message.marks)
  BY <1>1, AtPlace
<1>3. Question(message.question, message.marks, message.body)
  BY <1>1, AreQuestions
<1>4. /\ Nl = message.question[message.marks[i]] /\ i # Len(message.marks)
      /\ TooLong(Nl) /\ message' = message /\ at' = at + 1 /\ max' = max - 1
  BY <1>2 DEF LabelCut
<1>5. i \in 1 .. Len(message.marks) - 1
  <2>1. Len(message.marks) \in Nat
    BY <1>3, QuestionShape
  <2> QED BY <1>4, <2>1
<1>6. /\ Nl \in Nat \ {0} /\ message.marks[i + 1] = message.marks[i] + 1 + Nl
      /\ message.marks[i + 1] <= message.marks[Len(message.marks)]
      /\ \A k \in 1 .. message.marks[i + 1] - 1 : message.question[k] # 0
  <2> DEFINE q == message.question
             mk == message.marks
             bd == message.body
  <2>1. Question(q, mk, bd) /\ i \in 1 .. Len(mk) - 1 /\ Nl = q[mk[i]]
    BY <1>3, <1>4, <1>5
  <2> HIDE DEF q, mk, bd
  <2>2. /\ q[mk[i]] \in Nat \ {0} /\ mk[i + 1] = mk[i] + 1 + q[mk[i]]
        /\ mk[i + 1] <= mk[Len(mk)] /\ \A k \in 1 .. mk[i + 1] - 1 : q[k] # 0
    BY <2>1, LabelShape
  <2>3. Nl \in Nat \ {0} /\ mk[i + 1] = mk[i] + 1 + Nl
    BY <2>1, <2>2
  <2> QED BY <2>2, <2>3 DEF q, mk, bd
<1>7. message.body # message.question
  <2>1. Len(message.question) = message.marks[Len(message.marks)] + 4
    BY <1>3 DEF Question
  <2>2. message.marks[Len(message.marks)] \in Nat /\ Len(message.body) \in Nat
    <3>1. Len(message.marks) \in 1 .. Len(message.marks)
      BY <1>3, QuestionShape
    <3> QED BY <1>1, <1>3, <3>1, QuestionShape
  <2>3. Len(message.body) < Len(message.question)
    <3> DEFINE here == message.marks[i]
               there == message.marks[i + 1]
               last == message.marks[Len(message.marks)]
               size == Len(message.body)
               asks == Len(message.question)
               nl == Nl
    <3>1. /\ at \in Nat /\ max \in Nat /\ at + max = size /\ here = at + 1
          /\ nl \in Nat /\ there = here + 1 + nl /\ (max - 1) - nl < 0
          /\ there <= last /\ asks = last + 4 /\ last \in Nat /\ size \in Nat
      BY <1>1, <1>2, <1>4, <1>6, <2>1, <2>2 DEF TooLong
    <3> HIDE DEF here, there, last, size, asks, nl
    <3>2. size < asks
      BY <3>1
    <3> QED BY <3>2 DEF size, asks
  <2> QED BY <2>2, <2>3
<1>8. ~Handled'
  <2> SUFFICES ASSUME Handled' PROVE FALSE
    OBVIOUS
  <2>1. max - 1 >= 4 /\ SubSeq(message.body, (at + 1) + 1, (at + 1) + 2) \in {TypeA, TypeAny}
    <3>1. max' >= 4 /\ SubSeq(message'.body, at' + 1, at' + 2) \in {TypeA, TypeAny}
      BY DEF Handled
    <3>2. message' = message /\ at' = at + 1 /\ max' = max - 1
      BY <1>4
    <3> QED BY <3>1, <3>2
  <2>2. /\ at + 2 \in 1 .. Len(message.body) /\ at + 3 \in 1 .. Len(message.body)
        /\ at + 2 \in 1 .. message.marks[i + 1] - 1
    <3> DEFINE here == message.marks[i]
               there == message.marks[i + 1]
               size == Len(message.body)
               nl == Nl
    <3>1. /\ at \in Nat /\ max \in Nat /\ at + max = size /\ here = at + 1
          /\ nl \in Nat \ {0} /\ there = here + 1 + nl /\ max - 1 >= 4
      BY <1>1, <1>2, <1>6, <2>1
    <3> HIDE DEF here, there, size, nl
    <3>2. at + 2 \in 1 .. size /\ at + 3 \in 1 .. size /\ at + 2 \in 1 .. there - 1
      BY <3>1
    <3> QED BY <3>2 DEF there, size
  <2>3. message.body[at + 2] = message.question[at + 2] /\ message.question[at + 2] # 0
    <3> DEFINE q == message.question
               bd == message.body
    <3>1. \A k \in 1 .. Len(bd) : bd[k] = q[k]
      <4> HIDE DEF q, bd
      <4>1. Question(q, message.marks, bd)
        BY <1>3 DEF q, bd
      <4> QED BY <4>1, QuestionShape
    <3>2. bd[at + 2] = q[at + 2]
      <4> HIDE DEF q, bd
      <4>1. at + 2 \in 1 .. Len(bd)
        BY <2>2 DEF bd
      <4> QED BY <3>1, <4>1
    <3>3. q[at + 2] # 0
      BY <1>6, <2>2
    <3> QED BY <3>2, <3>3
  <2>4. message.body \in Seq(Byte) /\ \A k \in (at + 1) + 1 .. (at + 1) + 2 : message.body[k] \in Byte
    <3>1. message.body \in Seq(Byte)
      BY <1>3, QuestionShape
    <3>2. \A k \in 1 .. Len(message.body) : message.body[k] \in Byte
      BY <3>1, ElementOfSeq
    <3>3. \A k \in (at + 1) + 1 .. (at + 1) + 2 : k = at + 2 \/ k = at + 3
      BY <1>1
    <3> QED BY <2>2, <3>1, <3>2, <3>3
  <2>5. SubSeq(message.body, (at + 1) + 1, (at + 1) + 2)[1] = message.body[at + 2]
    <3>1. (at + 1) + 1 \in Int /\ (at + 1) + 2 \in Int
      BY <1>1
    <3>2. \A k \in 1 .. ((at + 1) + 2) - ((at + 1) + 1) + 1 :
            SubSeq(message.body, (at + 1) + 1, (at + 1) + 2)[k] = message.body[((at + 1) + 1) + k - 1]
      BY <2>4, <3>1, SubSeqProperties
    <3>3. 1 \in 1 .. ((at + 1) + 2) - ((at + 1) + 1) + 1 /\ ((at + 1) + 1) + 1 - 1 = at + 2
      BY <1>1
    <3> QED BY <3>2, <3>3
  <2>6. TypeA[1] = 0 /\ TypeAny[1] = 0
    BY DEF TypeA, TypeAny
  <2> QED BY <2>1, <2>3, <2>5, <2>6
<1>9. ~(wirePc' = "question" /\ message'.marks # << >>) \/ message'.body # message'.question
  BY <1>4, <1>7
<1> QED BY <1>4, <1>7, <1>8 DEF AsAsked

(* The bytes behind the name are a type and a class when all has arrived.  *)
LEMMA NameEnds ==
  ASSUME WireInv, AskInv, NoLabel, message.marks # << >>
  PROVE  AsAsked'
<1>1. /\ message \in Datagrams /\ at \in Nat /\ max \in Nat /\ at + max = Len(message.body)
      /\ wirePc = "labels" /\ message' = message /\ address' = address
  BY DEF WireInv, InDatagram, NoLabel
<1>2. PICK i \in 1 .. Len(message.marks) :
        /\ AtLabel(i) /\ message.marks[i] = at + 1
        /\ max >= 1 => /\ Nl = message.question[message.marks[i]]
                       /\ Nl = 0 <=> i = Len(message.marks)
  BY <1>1, AtPlace
<1>3. Question(message.question, message.marks, message.body)
  BY <1>1, AreQuestions
<1>4. /\ Len(message.question) = message.marks[Len(message.marks)] + 4
      /\ message.marks[Len(message.marks)] \in Nat \ {0} /\ Len(message.marks) \in Nat \ {0}
      /\ message.marks[i] <= message.marks[Len(message.marks)]
      /\ message.body = message.question <=> Len(message.body) = Len(message.question)
      /\ Len(message.body) \in Nat /\ Len(message.body) <= Len(message.question)
  <2>1. Len(message.marks) \in 1 .. Len(message.marks)
    BY <1>3, QuestionShape
  <2>2. Len(message.question) = message.marks[Len(message.marks)] + 4
    BY <1>3 DEF Question
  <2> QED BY <1>3, <2>1, <2>2, QuestionShape
<1>5. CASE max < 1
  <2>1. max' = max /\ max = 0
    BY <1>1, <1>5 DEF NoLabel
  <2>2. ~Handled'
    BY <2>1 DEF Handled
  <2>3. Len(message.body) < Len(message.question)
    BY <1>1, <1>2, <1>4, <2>1
  <2>4. message.body # message.question
    BY <1>4, <2>3
  <2> QED BY <1>1, <2>2, <2>4 DEF AsAsked
<1>6. CASE max >= 1
  <2>1. Nl = 0 /\ at' = at + 1 /\ max' = max - 1
    BY <1>1, <1>6 DEF NoLabel
  <2>2. i = Len(message.marks)
    BY <1>2, <1>6, <2>1
  <2>3. address = Spelled(message)
    BY <1>2, <2>2 DEF AtLabel, Upto, LetterOrDot, Spelled
  <2>4. address # << >> <=> Len(message.marks) > 1
    <3>1. CASE Len(message.marks) = 1
      <4>1. message.marks[i] = 1
        BY <1>3, <2>2, <3>1 DEF Question
      <4>2. address = Upto(message.question, message.marks, i)
        BY <1>2 DEF AtLabel
      <4>3. 1 .. message.marks[i] - 2 = {}
        BY <4>1
      <4>4. address = << >>
        BY <4>2, <4>3 DEF Upto
      <4> QED BY <3>1, <4>4
    <3>2. CASE Len(message.marks) # 1
      <4>1. Len(message.marks) > 1 /\ 1 \in 1 .. Len(message.marks) - 1
        <5>1. \A n \in Nat \ {0} : n # 1 => n > 1 /\ 1 \in 1 .. n - 1
          OBVIOUS
        <5> QED BY <1>4, <3>2, <5>1
      <4>2. /\ message.marks[1] = 1 /\ message.question[1] \in Nat \ {0}
            /\ message.marks[1 + 1] = 1 + 1 + message.question[1] /\ 1 + 1 = 2
        <5>1. message.marks[1] = 1
          BY <1>3 DEF Question
        <5> QED BY <1>3, <4>1, <5>1, LabelShape
      <4>3. message.marks[i] <= message.marks[1] \/ message.marks[1 + 1] <= message.marks[i]
        BY <1>2, <1>3, <4>1, LabelShape
      <4>4. message.marks[i] # 1
        <5>1. message.question[message.marks[i]] = 0
          BY <1>2, <1>6, <2>1
        <5> QED BY <4>2, <5>1
      <4>5. message.marks[i] \in Nat \ {0}
        BY <1>2, <1>3, QuestionShape
      <4>6. message.marks[i] > 2
        BY <4>2, <4>3, <4>4, <4>5
      <4>7. message.marks[i] >= 2 /\ message.marks[i] - 2 # 0
        BY <4>5, <4>6
      <4>8. address = Upto(message.question, message.marks, i)
        BY <1>2 DEF AtLabel
      <4>9. Len(address) # 0
        <5>1. Len(Upto(message.question, message.marks, i)) = message.marks[i] - 2
          BY <1>2, <1>3, <4>7, UptoBytes
        <5> QED BY <4>7, <4>8, <5>1
      <4> QED BY <4>1, <4>9, EmptySeq
    <3> QED BY <3>1, <3>2
  <2>5. max' >= 4 <=> message.body = message.question
    BY <1>1, <1>2, <1>4, <2>1, <2>2
  <2>6. message.body = message.question =>
          SubSeq(message.body, at' + 1, at' + 2) = TypeAsked(message)
    <3>1. /\ at + 1 + 1 = Len(message.question) - 3
          /\ at + 1 + 2 = Len(message.question) - 2
      <4> DEFINE last == message.marks[Len(message.marks)]
                 asks == Len(message.question)
      <4>1. asks = last + 4 /\ last = at + 1 /\ at \in Nat
        BY <1>1, <1>2, <1>4, <2>2
      <4> HIDE DEF last, asks
      <4>2. at + 1 + 1 = asks - 3 /\ at + 1 + 2 = asks - 2
        BY <4>1
      <4> QED BY <4>2 DEF asks
    <3>2. /\ at' + 1 = Len(message.question) - 3
          /\ at' + 2 = Len(message.question) - 2
      BY <2>1, <3>1
    <3> QED BY <3>2 DEF TypeAsked
  <2>7. Handled' <=> /\ address # << >> /\ max' >= 4
                     /\ SubSeq(message.body, at' + 1, at' + 2) \in {TypeA, TypeAny}
    BY <1>1 DEF Handled
  <2>8. Handled' <=> /\ message.body = message.question /\ Len(message.marks) > 1
                     /\ TypeAsked(message) \in {TypeA, TypeAny}
    BY <2>4, <2>5, <2>6, <2>7
  <2> QED BY <1>1, <2>3, <2>8 DEF AsAsked, TypeAsked, Spelled
<1> QED BY <1>1, <1>5, <1>6

LEMMA InitAsk == EdgeInit => AskInv
BY DEF EdgeInit, WireInit, AskInv, AsAsked

LEMMA BeginAsk ==
  ASSUME NEW m \in Datagrams, Query(m)
  PROVE  AskInv'
<1>1. wirePc' = "labels" /\ message' = m /\ at' = 0 /\ address' = << >>
  BY DEF Query, WireReceive
<1>2. ASSUME m.marks # << >> PROVE AtLabel(1)'
  <2>1. Question(m.question, m.marks, m.body)
    BY <1>2, AreQuestions
  <2>2. m.marks[1] = 1 /\ 1 \in 1 .. Len(m.marks) /\ Len(m.body) \in Nat
    <3>1. Len(m.marks) \in Nat \ {0} /\ Len(m.body) \in 1 .. Len(m.question) /\ Len(m.question) \in Nat
      BY <2>1, QuestionShape
    <3> QED BY <2>1, <3>1 DEF Question
  <2>3. Upto(m.question, m.marks, 1) = << >>
    <3>1. 1 .. m.marks[1] - 2 = {}
      BY <2>2
    <3> QED BY <3>1 DEF Upto
  <2>4. 0 <= Len(m.body) /\ 0 = m.marks[1] - 1
    BY <2>2
  <2> QED BY <1>1, <2>2, <2>3, <2>4 DEF AtLabel
<1> QED BY <1>1, <1>2 DEF AskInv, AsAsked

LEMMA StepAsk == WireInv /\ AskInv /\ [EdgeNext]_allVars => AskInv'
<1> SUFFICES ASSUME WireInv, AskInv, [EdgeNext]_allVars PROVE AskInv'
  OBVIOUS
<1>1. ASSUME NEW m \in Datagrams, Query(m) PROVE AskInv'
  BY <1>1, BeginAsk
<1>2. CASE NoLabel
  <2>1. wirePc' = "question" /\ message' = message
    BY <1>2 DEF NoLabel
  <2>2. message.marks # << >> => AsAsked'
    BY <1>2, NameEnds
  <2>3. message.marks = << >> => AsAsked'
    BY <2>1 DEF AsAsked
  <2> QED BY <2>1, <2>2, <2>3 DEF AskInv
<1>3. CASE LabelCut
  <2>1. wirePc' = "question" /\ message' = message
    BY <1>3 DEF LabelCut
  <2>2. message.marks # << >> => AsAsked'
    BY <1>3, CutIgnored
  <2>3. message.marks = << >> => AsAsked'
    BY <2>1 DEF AsAsked
  <2> QED BY <2>1, <2>2, <2>3 DEF AskInv
<1>4. CASE TakeLabel
  <2>1. wirePc' = "labels" /\ message' = message
    BY <1>4 DEF TakeLabel
  <2>2. message.marks # << >> => \E i \in Nat : AtLabel(i)'
    BY <1>4, AskTake
  <2> QED BY <2>1, <2>2 DEF AskInv, AsAsked
<1>5. CASE WireDone
  BY <1>5 DEF WireDone, AskInv, AsAsked
<1>6. CASE UNCHANGED wireVars
  BY <1>6 DEF wireVars, AskInv, AsAsked, AtLabel, Handled
<1>7. \/ \E m \in Datagrams : Query(m)
      \/ Parse \/ WireDone \/ UNCHANGED wireVars
  BY DEF EdgeNext, OnDNSRequest, IgnoreQuery, Name, TunnelSend, Deliver, Drop,
         Sum, Write, Restart, allVars
<1> QED BY <1>1, <1>2, <1>3, <1>4, <1>5, <1>6, <1>7 DEF Parse, WireNext

(* Whatever names are asked for and however little of a query arrives, the *)
(* loop of dns_thread_function() looks up the name that was asked for, or  *)
(* none.                                                                   *)
THEOREM AsAskedCorrect == EdgeSpec => []AsAsked
<1>1. AskInv => AsAsked
  BY DEF AskInv
<1> QED BY <1>1, InitWire, StepWire, InitAsk, StepAsk, PTL DEF EdgeSpec

-----------------------------------------------------------------------------
(* The checksum.                                                           *)

(* The words added up and the folded sum differ by a multiple of the word  *)
(* of ones.                                                                *)
Congruent == \E k \in Nat : total = sum + k * (WordBase - 1)

SumInv ==
  /\ sumPc \in {"idle", "words", "fold", "done"}
  /\ data \in Seq(Byte) /\ len \in 0 .. Len(data)
  /\ sum \in Nat /\ total \in Nat
  /\ sumPc = "done" => sum < WordBase
  /\ Congruent

LEMMA WordBaseType == WordBase \in Nat /\ WordBase > 3
<1>1. ByteBase \in Nat /\ ByteBase >= 2
  BY ByteBaseAssumption
<1>2. ByteBase * ByteBase >= 2 * ByteBase
  BY <1>1
<1> QED BY <1>1, <1>2 DEF WordBase

(* Folding takes off a multiple of the word of ones, and makes a sum that  *)
(* has a carry smaller.                                                    *)
LEMMA FoldCongruent ==
  ASSUME NEW s \in Nat
  PROVE  Fold(s) \in Nat /\ \E q \in Nat : s = Fold(s) + q * (WordBase - 1)
<1> DEFINE q == s \div WordBase
           r == s % WordBase
           W == WordBase
<1>1. W \in Nat \ {0}
  BY WordBaseType
<1> HIDE DEF W
<1>2. q \in Nat /\ r \in Nat /\ s = (W * q) + r
  BY <1>1 DEF W
<1> HIDE DEF q, r
<1>3. W * q = (q * (W - 1)) + q
  BY <1>1, <1>2
<1>4. s = (r + q) + q * (W - 1)
  BY <1>1, <1>2, <1>3
<1>5. Fold(s) = r + q
  BY DEF Fold, q, r
<1> QED BY <1>2, <1>4, <1>5 DEF W

LEMMA CongruenceAdds ==
  ASSUME NEW a \in Nat, NEW b \in Nat, NEW c \in Nat,
         \E k \in Nat : a = b + k * (WordBase - 1),
         \E q \in Nat : b = c + q * (WordBase - 1)
  PROVE  \E k \in Nat : a = c + k * (WordBase - 1)
<1> DEFINE V == WordBase - 1
<1>1. PICK k \in Nat : a = b + k * V
  OBVIOUS
<1>2. PICK q \in Nat : b = c + q * V
  OBVIOUS
<1>3. V \in Nat
  BY WordBaseType
<1> HIDE DEF V
<1>4. k * V + q * V = (k + q) * V /\ k + q \in Nat
  BY <1>3
<1>5. k * V \in Nat /\ q * V \in Nat
  BY <1>3
<1>6. a = c + (k + q) * V
  BY <1>1, <1>2, <1>4, <1>5
<1> QED BY <1>4, <1>6 DEF V

LEMMA FoldKeeps ==
  ASSUME NEW a \in Nat, NEW s \in Nat,
         \E k \in Nat : a = s + k * (WordBase - 1)
  PROVE  Fold(s) \in Nat /\ \E k \in Nat : a = Fold(s) + k * (WordBase - 1)
<1>1. Fold(s) \in Nat /\ \E q \in Nat : s = Fold(s) + q * (WordBase - 1)
  BY FoldCongruent
<1> QED BY <1>1, CongruenceAdds

LEMMA WordType ==
  ASSUME SumInv, len > 1
  PROVE  Word \in Nat
<1> DEFINE i == Len(data) - len
<1>1. data \in Seq(Byte) /\ len \in 0 .. Len(data) /\ Len(data) \in Nat
  BY DEF SumInv
<1>2. i + 1 \in 1 .. Len(data) /\ i + 2 \in 1 .. Len(data)
  BY <1>1
<1> HIDE DEF i
<1>3. data[i + 1] \in Byte /\ data[i + 2] \in Byte
  BY <1>1, <1>2
<1>4. ByteBase \in Nat /\ data[i + 1] \in Nat /\ data[i + 2] \in Nat
  BY <1>3, ByteBaseAssumption DEF Byte
<1>5. ByteBase * data[i + 2] \in Nat
  BY <1>4
<1>6. data[i + 1] + ByteBase * data[i + 2] \in Nat
  BY <1>4, <1>5
<1> QED BY <1>6 DEF Word, i

LEMMA InitSum == EdgeInit => SumInv
<1> SUFFICES ASSUME EdgeInit PROVE SumInv
  OBVIOUS
<1>1. total = sum + 0 * (WordBase - 1) /\ sum = 0 /\ total = 0
  BY WordBaseType DEF EdgeInit, SumInit
<1> QED BY <1>1 DEF EdgeInit, SumInit, SumInv, Congruent

(* Adding the same to both sums keeps them congruent.                      *)
LEMMA BothAdded ==
  ASSUME NEW x \in Nat, SumInv
  PROVE  \E k \in Nat : total + x = (sum + x) + k * (WordBase - 1)
<1>1. PICK k \in Nat : total = sum + k * (WordBase - 1)
  BY DEF SumInv, Congruent
<1>2. k * (WordBase - 1) \in Nat /\ sum \in Nat /\ total \in Nat
  BY WordBaseType DEF SumInv
<1>3. total + x = (sum + x) + k * (WordBase - 1)
  BY <1>1, <1>2
<1> QED BY <1>3

LEMMA StepSumLoop == SumInv /\ SumNext => SumInv'
<1> SUFFICES ASSUME SumInv, SumNext PROVE SumInv'
  OBVIOUS
<1>0. /\ data' = data /\ data \in Seq(Byte) /\ Len(data) \in Nat
      /\ len \in 0 .. Len(data) /\ sum \in Nat /\ total \in Nat
  BY DEF SumInv, SumNext, SumWord, SumTail, SumFold, SumEnd
<1>1. CASE SumWord
  <2> DEFINE x == Word
  <2>1. x \in Nat /\ sum + x \in Nat /\ total + x \in Nat
    BY <1>0, <1>1, WordType DEF SumWord
  <2>2. /\ total' = total + x /\ len' = len - 2 /\ len > 1 /\ sumPc' = "words"
        /\ sum' = IF sum + x >= FoldAt THEN Fold(sum + x) ELSE sum + x
    BY <1>1 DEF SumWord
  <2> HIDE DEF x
  <2>3. \E k \in Nat : total' = (sum + x) + k * (WordBase - 1)
    BY <2>1, <2>2, BothAdded
  <2>4. sum' \in Nat /\ \E k \in Nat : total' = sum' + k * (WordBase - 1)
    <3>1. CASE sum' = sum + x
      BY <2>1, <2>3, <3>1
    <3>2. CASE sum' = Fold(sum + x)
      BY <2>1, <2>2, <2>3, <3>2, FoldKeeps
    <3> QED BY <2>2, <3>1, <3>2
  <2>5. len' \in 0 .. Len(data)
    BY <1>0, <2>2
  <2> QED BY <1>0, <2>1, <2>2, <2>4, <2>5 DEF SumInv, Congruent
<1>2. CASE SumTail
  <2> DEFINE x == IF len = 1 THEN data[Len(data)] ELSE 0
  <2>1. x \in Nat
    <3>1. CASE len = 1
      <4>1. Len(data) \in 1 .. Len(data)
        BY <1>0, <3>1
      <4>2. data[Len(data)] \in Byte
        BY <1>0, <4>1
      <4> QED BY <3>1, <4>2, ByteBaseAssumption DEF Byte
    <3>2. CASE len # 1
      BY <3>2
    <3> QED BY <3>1, <3>2
  <2>2. sum' = sum + x /\ total' = total + x /\ sumPc' = "fold" /\ len' = len
    BY <1>2 DEF SumTail
  <2> HIDE DEF x
  <2>3. \E k \in Nat : total' = sum' + k * (WordBase - 1)
    BY <2>1, <2>2, BothAdded
  <2>4. sum' \in Nat /\ total' \in Nat
    BY <1>0, <2>1, <2>2
  <2> QED BY <1>0, <2>2, <2>3, <2>4 DEF SumInv, Congruent
<1>3. CASE SumFold
  <2>1. sum' = Fold(sum) /\ total' = total /\ sumPc' = "fold" /\ len' = len
    BY <1>3 DEF SumFold
  <2>2. sum' \in Nat /\ \E k \in Nat : total = sum' + k * (WordBase - 1)
    BY <1>0, <2>1, FoldKeeps DEF SumInv, Congruent
  <2> QED BY <1>0, <2>1, <2>2 DEF SumInv, Congruent
<1>4. CASE SumEnd
  BY <1>4 DEF SumEnd, SumInv, Congruent
<1> QED BY <1>1, <1>2, <1>3, <1>4 DEF SumNext

(* A sum is begun on bytes and with nothing added.                         *)
LEMMA BeginSum ==
  ASSUME NEW bytes \in Seq(Byte), SumBegin(bytes)
  PROVE  SumInv'
<1>1. 0 = 0 + 0 * (WordBase - 1)
  BY WordBaseType
<1>2. /\ sumPc' = "words" /\ data' = bytes /\ len' = Len(bytes)
      /\ sum' = 0 /\ total' = 0 /\ Len(bytes) \in Nat
  BY DEF SumBegin
<1> QED BY <1>1, <1>2 DEF SumInv, Congruent

LEMMA ResetSum ==
  ASSUME SumReset
  PROVE  SumInv'
<1>1. 0 = 0 + 0 * (WordBase - 1)
  BY WordBaseType
<1> QED BY <1>1 DEF SumReset, SumInv, Congruent

(* The complement makes the sum a positive multiple of the word of ones.   *)
LEMMA SumInvVerifies == SumInv => SumVerifies
<1> SUFFICES ASSUME SumInv, sumPc = "done" PROVE Verifies(total + Result)
  BY DEF SumVerifies
<1> DEFINE V == WordBase - 1
<1>1. PICK k \in Nat : total = sum + k * V
  BY DEF SumInv, Congruent
<1>2. /\ V \in Nat /\ V >= 1 /\ sum \in Nat /\ total \in Nat
      /\ Result = V - sum
  BY WordBaseType DEF SumInv, Result
<1> HIDE DEF V
<1>3. k * V \in Nat /\ (k + 1) * V = k * V + V
  BY <1>2
<1>4. total + Result = (k + 1) * V
  BY <1>1, <1>2, <1>3
<1>5. (k + 1) * V >= k + 1
  BY <1>2
<1>6. k + 1 \in 1 .. (k + 1) * V
  BY <1>2, <1>5
<1> QED BY <1>4, <1>6 DEF Verifies, V

-----------------------------------------------------------------------------
(* The naming threads, restarts included.                                  *)

(* Every step of the composition that is not a restart is a step of        *)
(* ChainBinding or changes nothing in it.                                  *)
LEMMA StepNames == [EdgeNext]_allVars => [Next]_vars \/ Restart
<1> SUFFICES ASSUME [EdgeNext]_allVars PROVE [Next]_vars \/ Restart
  OBVIOUS
<1>1. ASSUME NEW q \in Queries, OnDNSRequest(q) PROVE Next
  BY <1>1 DEF OnDNSRequest, Next
<1>2. CASE Name
  BY <1>2 DEF Name, Next
<1>3. ASSUME NEW d \in Domains, Drop(d) PROVE Next
  BY <1>3 DEF Drop, Next
<1>4. CASE UNCHANGED vars \/ Restart
  BY <1>4
<1>5. \/ \E q \in Queries : OnDNSRequest(q)
      \/ Name
      \/ \E d \in Domains : Drop(d)
      \/ UNCHANGED vars \/ Restart
  BY DEF EdgeNext, Query, Parse, IgnoreQuery, TunnelSend, Deliver, Sum, Write,
         allVars
<1> QED BY <1>1, <1>2, <1>3, <1>4, <1>5

(* A restart keeps what is under way and forgets the rest.                 *)
LEMMA RestartNames == Inv /\ Restart => Inv'
<1> SUFFICES ASSUME Inv, Restart PROVE Inv'
  OBVIOUS
<1>1. /\ bindedIp' = FirstAddress /\ bindedChains' = << >>
      /\ dnsRequests' = << >> /\ dnsPc' = "recv" /\ devPc' = "recv"
      /\ queried' = [q \in Queries |-> NoDomain]
      /\ answers' = [q \in Queries |-> << >>]
      /\ requests' = requests /\ responses' = responses
  BY DEF Restart, netVars
<1>2. /\ requests \in [Domains -> Nat]
      /\ responses \in [Domains -> [Statuses -> Nat]]
  BY DEF Inv, TypeOK
<1>3. TypeOK'
  BY <1>1, <1>2, FirstIsAddress DEF TypeOK
<1>4. AddrInv'
  <2>1. AddressValue(FirstAddress) \in Nat
    BY ValueIsNat, FirstIsAddress
  <2> QED BY <1>1, <2>1, BoundAssumption DEF AddrInv
<1>5. QueryInv'
  BY <1>1 DEF QueryInv, AnsweredOnce
<1>6. SoundInv'
  BY <1>1 DEF SoundInv, AnswerSound
<1> QED BY <1>3, <1>4, <1>5, <1>6 DEF Inv

LEMMA StepInvEdge == Inv /\ [EdgeNext]_allVars => Inv'
BY StepInv, RestartNames, StepNames

LEMMA InitInvEdge == EdgeInit => Inv
BY InitInv DEF EdgeInit

(* Between restarts bindings stay.                                         *)
LEMMA EdgeHoldsStays ==
  ASSUME Inv, Inv', [EdgeNext]_allVars, ~Restart,
         NEW b, Holds(bindedChains, b)
  PROVE  Holds(bindedChains', b)
BY StepNames, HoldsStays DEF Inv

(* What ChainBinding promises without restarts holds with them: addresses  *)
(* route back, queries are replied to once, and with an address that is    *)
(* bound to their domain.                                                  *)
THEOREM RestartKeepsPromises ==
  EdgeSpec => [](RouteBack /\ AnsweredOnce /\ AnswerSound)
<1>1. Inv => RouteBack /\ AnsweredOnce /\ AnswerSound
  BY AddrInvRoutes DEF Inv, QueryInv, SoundInv
<1> QED BY <1>1, InitInvEdge, StepInvEdge, PTL DEF EdgeSpec

-----------------------------------------------------------------------------
(* The header of a packet that is delivered.                               *)

LEMMA FourBytes ==
  ASSUME NEW a \in Address
  PROVE  a \in Seq(Byte) /\ Len(a) = 4
<1>1. a \in [1 .. 4 -> Byte]
  BY DEF Address
<1>2. a \in Seq(Byte)
  <2>1. 4 \in Nat
    OBVIOUS
  <2>2. a \in UNION {[1 .. n -> Byte] : n \in Nat}
    BY <1>1, <2>1, Zenon
  <2> QED BY <2>2, SeqDef, Zenon
<1>3. DOMAIN a = 1 .. 4
  BY <1>1
<1>4. Len(a) = 4
  BY <1>2, <1>3, LenProperties
<1> QED BY <1>2, <1>4

LEMMA ConcatLength ==
  ASSUME NEW S, NEW s \in Seq(S), NEW t \in Seq(S)
  PROVE  s \o t \in Seq(S) /\ Len(s \o t) = Len(s) + Len(t)
BY ConcatProperties, Zenon

LEMMA ClientAddressType ==
  ASSUME NEW c \in Clients
  PROVE  /\ ClientAddress(c) \in Address
         /\ ClientId(ClientAddress(c)) = c /\ ClientId(ClientAddress(c)) < NumClients
<1>1. /\ c \in Nat /\ c + 1 \in 1 .. ByteBase - 1 /\ c < NumClients
      /\ ByteBase \in Nat /\ 0 \in Byte
      /\ UsersMajor \in Byte /\ UsersMinor \in Byte
  BY EdgeAssumption, ByteBaseAssumption DEF Clients, Byte
<1>2. c + 1 \in Byte
  BY <1>1 DEF Byte
<1>3. ClientAddress(c) \in Address
  BY <1>1, <1>2 DEF ClientAddress, Address
<1>4. ClientId(ClientAddress(c)) = c
  BY <1>1 DEF ClientAddress, ClientId, DecByte
<1> QED BY <1>1, <1>3, <1>4

(* It consists of bytes, and the return address stands at its place.       *)
LEMMA HeaderType ==
  ASSUME NEW p \in Payloads, NEW src \in Address, NEW dst \in Address
  PROVE  /\ Header(p, src, dst) \in Seq(Byte)
         /\ SubSeq(Header(p, src, dst), 13, 16) = src
<1> DEFINE a == <<VersionByte, 0>>
           b == <<0, 0, DontFragment, 0>>
           e == <<TimeToLive, p.proto, 0, 0>>
           l == p.len
<1>1. /\ 0 \in Byte /\ VersionByte \in Byte /\ DontFragment \in Byte
      /\ TimeToLive \in Byte /\ p.proto \in Byte /\ l \in Byte \X Byte
  BY EdgeAssumption, ByteBaseAssumption DEF Byte
<1>2. /\ a \in Seq(Byte) /\ Len(a) = 2 /\ b \in Seq(Byte) /\ Len(b) = 4
      /\ e \in Seq(Byte) /\ Len(e) = 4 /\ l \in Seq(Byte) /\ Len(l) = 2
  <2>1. a \in Seq(Byte) /\ Len(a) = 2
    BY <1>1
  <2>2. b \in Seq(Byte) /\ Len(b) = 4
    BY <1>1
  <2>3. e \in Seq(Byte) /\ Len(e) = 4
    BY <1>1
  <2>4. l \in Seq(Byte) /\ Len(l) = 2
    <3>1. PICK x \in Byte, y \in Byte : l = <<x, y>>
      BY <1>1
    <3>2. <<x, y>> \in Seq(Byte) /\ Len(<<x, y>>) = 2
      OBVIOUS
    <3> HIDE DEF l
    <3> QED BY <3>1, <3>2
  <2> QED BY <2>1, <2>2, <2>3, <2>4
<1>3. src \in Seq(Byte) /\ Len(src) = 4 /\ dst \in Seq(Byte) /\ Len(dst) = 4
  BY FourBytes
<1> HIDE DEF a, b, e, l
<1>4. a \o l \in Seq(Byte) /\ Len(a \o l) = 4
  <2>1. a \o l \in Seq(Byte) /\ Len(a \o l) = Len(a) + Len(l)
    BY <1>2, ConcatLength, Zenon
  <2> QED BY <1>2, <2>1
<1>5. a \o l \o b \in Seq(Byte) /\ Len(a \o l \o b) = 8
  <2>1. a \o l \o b \in Seq(Byte) /\ Len(a \o l \o b) = Len(a \o l) + Len(b)
    BY <1>2, <1>4, ConcatLength, Zenon
  <2> QED BY <1>2, <1>4, <2>1
<1> DEFINE front == a \o l \o b \o e
<1>6. front \in Seq(Byte) /\ Len(front) = 12
  <2>1. front \in Seq(Byte) /\ Len(front) = Len(a \o l \o b) + Len(e)
    BY <1>2, <1>5, ConcatLength, Zenon
  <2> QED BY <1>2, <1>5, <2>1
<1> HIDE DEF front
<1> DEFINE upto == front \o src
<1>7. /\ upto \in Seq(Byte) /\ Len(upto) = 16
      /\ \A i \in 13 .. 16 : upto[i] = src[i - 12]
  <2>1. /\ upto \in Seq(Byte) /\ Len(upto) = Len(front) + Len(src)
        /\ \A i \in 1 .. Len(front) + Len(src) :
             upto[i] = IF i <= Len(front) THEN front[i] ELSE src[i - Len(front)]
    BY <1>3, <1>6, ConcatProperties
  <2> HIDE DEF upto
  <2>2. Len(upto) = 16
    BY <1>3, <1>6, <2>1
  <2>3. \A i \in 13 .. 16 : upto[i] = src[i - 12]
    <3>1. \A i \in 13 .. 16 : i \in 1 .. Len(front) + Len(src) /\ ~(i <= Len(front))
      BY <1>3, <1>6
    <3> QED BY <1>3, <1>6, <2>1, <3>1
  <2> QED BY <2>1, <2>2, <2>3
<1> HIDE DEF upto
<1> DEFINE all == upto \o dst
<1>8. /\ all \in Seq(Byte) /\ Len(all) = 20
      /\ \A i \in 13 .. 16 : all[i] = src[i - 12]
  <2>1. /\ all \in Seq(Byte) /\ Len(all) = Len(upto) + Len(dst)
        /\ \A i \in 1 .. Len(upto) + Len(dst) :
             all[i] = IF i <= Len(upto) THEN upto[i] ELSE dst[i - Len(upto)]
    BY <1>3, <1>7, ConcatProperties, Zenon
  <2>2. all \in Seq(Byte) /\ Len(all) = 20
    BY <1>3, <1>7, <2>1
  <2>3. \A i \in 13 .. 16 : all[i] = upto[i]
    <3>1. \A i \in 13 .. 16 : i \in 1 .. Len(upto) + Len(dst) /\ i <= Len(upto)
      BY <1>3, <1>7
    <3> HIDE DEF all
    <3> QED BY <2>1, <3>1
  <2> HIDE DEF all
  <2> QED BY <1>7, <2>2, <2>3
<1>9. Header(p, src, dst) = all
  BY DEF Header, all, upto, front, a, b, e, l
<1> HIDE DEF all
<1>10. \A i \in 13 .. 16 : all[i] \in Byte
  <2>1. \A i \in 13 .. 16 : i \in 1 .. Len(all)
    BY <1>8
  <2> QED BY <1>8, <2>1, ElementOfSeq
<1>11. /\ SubSeq(all, 13, 16) \in Seq(Byte) /\ Len(SubSeq(all, 13, 16)) = 4
       /\ \A i \in 1 .. 4 : SubSeq(all, 13, 16)[i] = all[12 + i]
  BY <1>10, SubSeqProperties
<1>12. \A i \in 1 .. 4 : SubSeq(all, 13, 16)[i] = src[i]
  BY <1>8, <1>11
<1>13. SubSeq(all, 13, 16) = src
  BY <1>3, <1>11, <1>12, SeqEqual
<1> QED BY <1>8, <1>9, <1>13

-----------------------------------------------------------------------------
(* Steps of the sum in the composition.                                    *)

LEMMA DeliverStart ==
  ASSUME TypeOK, NEW c \in Recipients, NEW d \in Domains, NEW p \in Payloads,
         Deliver(c, d, p)
  PROVE  /\ SumInv'
         /\ Holds(bindedChains, [addr |-> SubSeq(data', 13, 16), dom |-> d])
<1> DEFINE b == bindedChains[BindingOf(d)]
           h == Header(p, b.addr, ClientAddress(c))
<1>1. Bound(d) /\ SumBegin(h)
  BY DEF Deliver
<1>2. BindingOf(d) \in 1 .. Len(bindedChains) /\ b.dom = d
  BY <1>1, BindingOfFirst
<1>3. bindedChains \in Seq(Binding)
  BY DEF TypeOK
<1>4. BindingOf(d) \in DOMAIN bindedChains /\ b \in Binding
  BY <1>2, <1>3
<1>5. b.addr \in Address /\ b = [addr |-> b.addr, dom |-> d]
  BY <1>2, <1>4 DEF Binding
<1>6. Holds(bindedChains, [addr |-> b.addr, dom |-> d])
  BY <1>4, <1>5 DEF Holds
<1>7. ClientAddress(c) \in Address
  BY ClientAddressType, EdgeAssumption
<1> HIDE DEF b
<1>8. h \in Seq(Byte) /\ SubSeq(h, 13, 16) = b.addr
  BY <1>5, <1>7, HeaderType
<1> HIDE DEF h
<1>9. SumInv' /\ data' = h
  BY <1>1, <1>8, BeginSum DEF SumBegin
<1> QED BY <1>6, <1>8, <1>9

LEMMA StepSum == TypeOK /\ SumInv /\ [EdgeNext]_allVars => SumInv'
<1> SUFFICES ASSUME TypeOK, SumInv, [EdgeNext]_allVars PROVE SumInv'
  OBVIOUS
<1>1. ASSUME NEW c \in Recipients, NEW d \in Domains, NEW p \in Payloads,
             Deliver(c, d, p)
      PROVE  SumInv'
  BY <1>1, DeliverStart
<1>2. CASE Sum
  BY <1>2, StepSumLoop DEF Sum
<1>3. CASE Write
  BY <1>3, ResetSum DEF Write
<1>4. CASE UNCHANGED sumVars
  BY <1>4 DEF sumVars, SumInv, Congruent
<1>5. \/ \E c \in Recipients, d \in Domains, p \in Payloads : Deliver(c, d, p)
      \/ Sum \/ Write \/ UNCHANGED sumVars
  BY DEF EdgeNext, Query, Parse, OnDNSRequest, IgnoreQuery, Name, TunnelSend,
         Drop, Restart, allVars
<1> QED BY <1>1, <1>2, <1>3, <1>4, <1>5

(* Whatever is summed, and wherever a carry is folded early, a receiver    *)
(* that checks the header finds it correct.                                *)
THEOREM SumVerifiesCorrect == EdgeSpec => []SumVerifies
<1>1. EdgeInit => Inv /\ SumInv
  BY InitInvEdge, InitSum
<1>2. Inv /\ SumInv /\ [EdgeNext]_allVars => Inv' /\ SumInv'
  BY StepInvEdge, StepSum DEF Inv
<1> QED BY <1>1, <1>2, SumInvVerifies, PTL DEF EdgeSpec

-----------------------------------------------------------------------------
(* What programs know.                                                     *)

LEMMA HoldsTyped ==
  ASSUME TypeOK, NEW a, NEW d, Holds(bindedChains, [addr |-> a, dom |-> d])
  PROVE  a \in Address /\ d \in Domains
<1>1. PICK i \in DOMAIN bindedChains : bindedChains[i] = [addr |-> a, dom |-> d]
  BY DEF Holds
<1>2. bindedChains[i] \in Binding
  BY DEF TypeOK
<1> QED BY <1>1, <1>2 DEF Binding

(* A resolver learns the address of a response, or nothing.                *)
LEMMA LearnedIs ==
  ASSUME NEW m \in Datagrams \cup {NoDatagram},
         NEW a \in Address \cup {NoAddress}
  PROVE  Learned(Response(m, a)) =
           IF a # NoAddress /\ m.after = << >> THEN {a} ELSE {}
<1> DEFINE r == Response(m, a)
<1>1. CASE a = NoAddress
  <2>1. r.an = 0
    BY <1>1 DEF Response, NoAddress
  <2>2. AnswersIn(r) = {}
    BY <2>1 DEF AnswersIn
  <2> QED BY <1>1, <2>2 DEF Learned
<1>2. CASE a # NoAddress
  <2> DEFINE T == [type : {"OPT"}, addr : {<< >>}] \cup {ARecord(a)}
  <2>1. r.an = 1 /\ r.after = Append(m.after, ARecord(a))
    BY <1>2 DEF Response, NoAddress
  <2>2. m.after \in Seq([type : {"OPT"}, addr : {<< >>}])
    <3>1. CASE m = NoDatagram
      <4>1. m.after = << >>
        BY <3>1 DEF NoDatagram
      <4> QED BY <4>1, EmptySeq
    <3>2. CASE m \in Datagrams
      BY <3>2, DatagramAssumption
    <3> QED BY <3>1, <3>2
  <2>3. m.after \in Seq(T) /\ ARecord(a) \in T
    BY <2>2, SeqMonotonic
  <2>4. AnswersIn(r) = {r.after[1]}
    BY <2>1 DEF AnswersIn
  <2>5. CASE m.after = << >>
    <3>1. r.after = <<ARecord(a)>>
      BY <2>1, <2>5
    <3>2. AnswersIn(r) = {ARecord(a)}
      BY <2>4, <3>1
    <3>3. ARecord(a).type = "A" /\ ARecord(a).addr = a
      BY DEF ARecord
    <3>4. {y \in AnswersIn(r) : y.type = "A"} = {ARecord(a)}
      BY <3>2, <3>3
    <3>5. Learned(r) = {a}
      BY <3>3, <3>4 DEF Learned
    <3> QED BY <1>2, <2>5, <3>5
  <2>6. CASE m.after # << >>
    <3>1. 1 \in 1 .. Len(m.after)
      BY <2>2, <2>6
    <3>2. r.after[1] = m.after[1]
      BY <2>1, <2>3, <3>1, AppendProperties
    <3>3. m.after[1].type = "OPT"
      <4>1. m.after[1] \in [type : {"OPT"}, addr : {<< >>}]
        BY <2>2, <3>1, ElementOfSeq
      <4> QED BY <4>1
    <3>4. Learned(r) = {}
      BY <2>4, <3>2, <3>3 DEF Learned
    <3> QED BY <2>6, <3>4
  <2> QED BY <2>5, <2>6
<1> QED BY <1>1, <1>2

(* The variables of the composition, and where addresses come from.        *)
ProgramInv ==
  /\ asked \in [Queries -> Datagrams \cup {NoDatagram}]
  /\ remembered \subseteq [addr : Address, dom : Domains, old : {TRUE}]
  /\ incoming \in Domains \cup {NoDomain}
  /\ restarts \in 0 .. MaxRestarts
  /\ sumPc # "idle" =>
       Holds(bindedChains, [addr |-> SubSeq(data, 13, 16), dom |-> incoming])
  /\ \A x \in crossed : x.way = "in" =>
       Holds(bindedChains, [addr |-> x.addr, dom |-> x.name])
  /\ SentToName

(* An address that was not learned before a restart is bound to the domain *)
(* it is known by.                                                         *)
LEMMA KnownBound ==
  ASSUME Inv, ProgramInv, NEW k \in Known
  PROVE  /\ k.addr \in Address /\ k.dom \in Domains
         /\ ~k.old => Holds(bindedChains, [addr |-> k.addr, dom |-> k.dom])
<1>1. CASE k \in remembered
  <2>1. k \in [addr : Address, dom : Domains, old : {TRUE}]
    BY <1>1 DEF ProgramInv
  <2> QED BY <2>1
<1>2. ASSUME NEW a, NEW d, k = [addr |-> a, dom |-> d, old |-> FALSE],
             Holds(bindedChains, [addr |-> a, dom |-> d])
      PROVE  /\ k.addr \in Address /\ k.dom \in Domains
             /\ ~k.old => Holds(bindedChains, [addr |-> k.addr, dom |-> k.dom])
  <2>1. a \in Address /\ d \in Domains
    BY <1>2, HoldsTyped DEF Inv
  <2>2. k.addr = a /\ k.dom = d
    BY <1>2
  <2> QED BY <1>2, <2>1, <2>2
<1>3. ASSUME NEW q \in Queries, k \in Answered(q)
      PROVE  \E a, d : /\ k = [addr |-> a, dom |-> d, old |-> FALSE]
                       /\ Holds(bindedChains, [addr |-> a, dom |-> d])
  <2>0. PICK n \in DOMAIN answers[q] :
          \E a \in Learned(Response(asked[q], answers[q][n])) :
            k = [addr |-> a, dom |-> queried[q], old |-> FALSE]
    BY <1>3 DEF Answered
  <2>1. PICK a \in Learned(Response(asked[q], answers[q][n])) :
          k = [addr |-> a, dom |-> queried[q], old |-> FALSE]
    BY <2>0
  <2>2. answers[q] \in Seq(Address \cup {NoAddress})
    BY DEF Inv, TypeOK
  <2>3. /\ answers[q][n] \in Address \cup {NoAddress}
        /\ asked[q] \in Datagrams \cup {NoDatagram}
    BY <2>2 DEF ProgramInv
  <2>4. a = answers[q][n] /\ a # NoAddress
    BY <2>1, <2>3, LearnedIs
  <2>5. Holds(bindedChains, [addr |-> a, dom |-> queried[q]])
    BY <2>4 DEF Inv, SoundInv, AnswerSound, Holds
  <2> QED BY <2>1, <2>5
<1>4. ASSUME NEW x \in crossed, x.way = "in",
             k = [addr |-> x.addr, dom |-> x.name, old |-> FALSE]
      PROVE  \E a, d : /\ k = [addr |-> a, dom |-> d, old |-> FALSE]
                       /\ Holds(bindedChains, [addr |-> a, dom |-> d])
  BY <1>4 DEF ProgramInv
<1>5. \/ k \in remembered
      \/ \E q \in Queries : k \in Answered(q)
      \/ \E x \in crossed : /\ x.way = "in"
                            /\ k = [addr |-> x.addr, dom |-> x.name, old |-> FALSE]
  BY DEF Known
<1> QED BY <1>1, <1>2, <1>3, <1>4, <1>5

(* A packet sent to an address that is known goes to its domain.           *)
LEMMA SendsToName ==
  ASSUME Inv, ProgramInv, NEW c \in Clients, NEW k \in Known, NEW p \in Packets,
         TunnelSend(c, k, p)
  PROVE  SentToName' /\ \A x \in crossed' : x.way # "in"
<1> DEFINE to == IF ClientId(p.src) < NumClients /\ ChainId(k.addr) < Len(bindedChains)
                 THEN bindedChains[ChainId(k.addr) + 1].dom ELSE NoDomain
<1>1. /\ p.src = ClientAddress(c)
      /\ crossed' = {[way |-> "out", addr |-> k.addr, name |-> k.dom, old |-> k.old,
                      dom |-> to, client |-> c, sender |-> ClientId(p.src)]}
  BY DEF TunnelSend
<1>2. ClientId(p.src) = c /\ ClientId(p.src) < NumClients
  BY <1>1, ClientAddressType
<1>3. ASSUME ~k.old, k.addr[4] # 0 PROVE to = k.dom
  <2>1. PICK i \in DOMAIN bindedChains :
          bindedChains[i] = [addr |-> k.addr, dom |-> k.dom]
    BY <1>3, KnownBound DEF Holds
  <2>2. i \in 1 .. Len(bindedChains) /\ Len(bindedChains) \in Nat
    BY DEF Inv, TypeOK
  <2>3. ChainId(k.addr) = i - 1
    <3>1. RouteBack
      BY AddrInvRoutes DEF Inv
    <3>2. bindedChains[i].addr = k.addr
      BY <2>1
    <3>3. ChainId(k.addr) = (i - 1) + (IF k.addr[4] = 0 THEN ByteBase ELSE 0)
      BY <3>1, <3>2 DEF RouteBack
    <3> QED BY <1>3, <2>2, <3>3
  <2>4. ChainId(k.addr) < Len(bindedChains) /\ ChainId(k.addr) + 1 = i
    BY <2>2, <2>3
  <2>5. to = bindedChains[i].dom
    BY <1>2, <2>4
  <2> QED BY <2>1, <2>5
<1> HIDE DEF to
<1> QED BY <1>1, <1>2, <1>3 DEF SentToName

LEMMA InitProgram == EdgeInit => ProgramInv
BY EdgeAssumption DEF EdgeInit, SumInit, ProgramInv, SentToName

LEMMA RestartProgram ==
  ASSUME Inv, ProgramInv, Restart
  PROVE  ProgramInv'
<1>1. remembered' \subseteq [addr : Address, dom : Domains, old : {TRUE}]
  <2>1. remembered' = {[addr |-> k.addr, dom |-> k.dom, old |-> TRUE] : k \in Known}
    BY DEF Restart
  <2>2. \A k \in Known : k.addr \in Address /\ k.dom \in Domains
    BY KnownBound
  <2>3. \A k \in Known : [addr |-> k.addr, dom |-> k.dom, old |-> TRUE]
                           \in [addr : Address, dom : Domains, old : {TRUE}]
    BY <2>2
  <2> QED BY <2>1, <2>3
<1>2. restarts' \in 0 .. MaxRestarts
  BY EdgeAssumption DEF Restart, ProgramInv
<1>3. /\ asked' \in [Queries -> Datagrams \cup {NoDatagram}]
      /\ incoming' \in Domains \cup {NoDomain}
      /\ sumPc' = "idle" /\ crossed' = {}
  BY DEF Restart, Quiet, sumVars, ProgramInv
<1> QED BY <1>1, <1>2, <1>3 DEF ProgramInv, SentToName

(* Steps that leave alone what crossed, or forget it.                      *)
LEMMA QuietProgram ==
  ASSUME Inv, Inv', ProgramInv, [EdgeNext]_allVars, ~Restart,
         UNCHANGED <<remembered, restarts, incoming>>,
         asked' \in [Queries -> Datagrams \cup {NoDatagram}],
         crossed' = {} \/ crossed' = crossed,
         sumPc' # "idle" => sumPc # "idle" /\ data' = data
  PROVE  ProgramInv'
<1>1. /\ remembered' \subseteq [addr : Address, dom : Domains, old : {TRUE}]
      /\ incoming' \in Domains \cup {NoDomain}
      /\ restarts' \in 0 .. MaxRestarts
  BY DEF ProgramInv
<1>2. sumPc' # "idle" =>
        Holds(bindedChains', [addr |-> SubSeq(data', 13, 16), dom |-> incoming'])
  BY EdgeHoldsStays DEF ProgramInv
<1>3. \A x \in crossed' : x.way = "in" =>
        Holds(bindedChains', [addr |-> x.addr, dom |-> x.name])
  BY EdgeHoldsStays DEF ProgramInv
<1>4. SentToName'
  BY DEF ProgramInv, SentToName
<1> QED BY <1>1, <1>2, <1>3, <1>4 DEF ProgramInv

LEMMA StepProgram ==
  Inv /\ Inv' /\ WireInv /\ ProgramInv /\ [EdgeNext]_allVars => ProgramInv'
<1> SUFFICES ASSUME Inv, Inv', WireInv, ProgramInv, [EdgeNext]_allVars
             PROVE  ProgramInv'
  OBVIOUS
<1>0. asked \in [Queries -> Datagrams \cup {NoDatagram}]
  BY DEF ProgramInv
<1>1. CASE Restart
  BY <1>1, RestartProgram
<1>2. ASSUME ~Restart, NEW q \in Queries, OnDNSRequest(q)
      PROVE  ProgramInv'
  <2>1. message \in Datagrams
    BY <1>2 DEF OnDNSRequest, WireDone, WireInv
  <2>2. asked' \in [Queries -> Datagrams \cup {NoDatagram}]
    BY <1>0, <1>2, <2>1 DEF OnDNSRequest
  <2> QED BY <1>2, <2>2, QuietProgram DEF OnDNSRequest, sumVars
<1>3. ASSUME ~Restart, NEW c \in Clients, NEW k \in Known, NEW p \in Packets,
             TunnelSend(c, k, p)
      PROVE  ProgramInv'
  <2>1. SentToName' /\ \A x \in crossed' : x.way # "in"
    BY <1>3, SendsToName
  <2>2. /\ asked' = asked /\ remembered' = remembered /\ incoming' = incoming
        /\ restarts' = restarts /\ sumPc' = "idle"
    BY <1>3 DEF TunnelSend, Quiet, sumVars
  <2> QED BY <2>1, <2>2 DEF ProgramInv
<1>4. ASSUME NEW c \in Recipients, NEW d \in Domains, NEW p \in Payloads,
             Deliver(c, d, p)
      PROVE  ProgramInv'
  <2>1. Holds(bindedChains, [addr |-> SubSeq(data', 13, 16), dom |-> d])
    BY <1>4, DeliverStart DEF Inv
  <2>2. /\ asked' = asked /\ remembered' = remembered /\ incoming' = d
        /\ restarts' = restarts /\ crossed' = {} /\ bindedChains' = bindedChains
    BY <1>4 DEF Deliver, vars, devVars
  <2> QED BY <2>1, <2>2 DEF ProgramInv, SentToName
<1>5. CASE Write
  <2>1. /\ crossed' = {[way |-> "in", addr |-> SubSeq(data, 13, 16), name |-> incoming]}
        /\ asked' = asked /\ remembered' = remembered /\ incoming' = NoDomain
        /\ restarts' = restarts /\ bindedChains' = bindedChains
        /\ sumPc = "done" /\ sumPc' = "idle"
    BY <1>5 DEF Write, SumReset, vars, devVars
  <2>2. Holds(bindedChains, [addr |-> SubSeq(data, 13, 16), dom |-> incoming])
    BY <2>1 DEF ProgramInv
  <2>3. SentToName'
    BY <2>1 DEF SentToName
  <2>4. \A x \in crossed' : x.way = "in" =>
          Holds(bindedChains', [addr |-> x.addr, dom |-> x.name])
    BY <2>1, <2>2
  <2> QED BY <2>1, <2>3, <2>4 DEF ProgramInv
<1>6. CASE ~Restart /\ Sum
  <2>1. /\ UNCHANGED <<asked, remembered, incoming, crossed, restarts>>
        /\ sumPc # "idle" /\ data' = data
    BY <1>6 DEF Sum, edgeVars, SumNext, SumWord, SumTail, SumFold, SumEnd
  <2> QED BY <1>0, <1>6, <2>1, QuietProgram
<1>7. CASE /\ ~Restart
           /\ \/ \E m \in Datagrams : Query(m)
              \/ Parse \/ IgnoreQuery \/ Name
              \/ \E d \in Domains : Drop(d)
              \/ UNCHANGED allVars
  <2>1. /\ UNCHANGED <<asked, remembered, incoming, restarts, sumPc, data>>
        /\ crossed' = {} \/ crossed' = crossed
    BY <1>7 DEF Query, Parse, IgnoreQuery, Name, Drop, allVars, edgeVars, sumVars
  <2> QED BY <1>0, <1>7, <2>1, QuietProgram
<1> QED BY <1>1, <1>2, <1>3, <1>4, <1>5, <1>6, <1>7 DEF EdgeNext

-----------------------------------------------------------------------------
(* All of it.                                                              *)
EdgeInv == Inv /\ WireInv /\ SumInv /\ ProgramInv

LEMMA InitEdgeInv == EdgeInit => EdgeInv
BY InitInvEdge, InitWire, InitSum, InitProgram DEF EdgeInv

LEMMA StepEdgeInv == EdgeInv /\ [EdgeNext]_allVars => EdgeInv'
<1> SUFFICES ASSUME EdgeInv, [EdgeNext]_allVars PROVE EdgeInv'
  OBVIOUS
<1>1. Inv /\ TypeOK /\ WireInv /\ SumInv /\ ProgramInv
  BY DEF EdgeInv, Inv
<1>2. Inv'
  BY <1>1, StepInvEdge
<1> QED BY <1>1, <1>2, StepWire, StepSum, StepProgram DEF EdgeInv

(* The types of the composition hold in every reachable state.             *)
THEOREM EdgeTypeCorrect == EdgeSpec => []EdgeTypeOK
<1>1. EdgeInv => EdgeTypeOK
  BY DEF EdgeInv, WireInv, SumInv, ProgramInv, EdgeTypeOK
<1> QED BY <1>1, InitEdgeInv, StepEdgeInv, PTL DEF EdgeSpec

(* A packet for a name goes over a chain of its domain, whatever responses *)
(* bound the domain and whatever happened before, unless the address ends  *)
(* in zero or was learned before a restart.                                *)
THEOREM SentToNameCorrect == EdgeSpec => []SentToName
<1>1. EdgeInv => SentToName
  BY DEF EdgeInv, ProgramInv
<1> QED BY <1>1, InitEdgeInv, StepEdgeInv, PTL DEF EdgeSpec
=============================================================================
