------------------------------- MODULE DNSWire -------------------------------
(***************************************************************************)
(* The DNS thread's view of the wire: the loop of dns_thread_function()    *)
(* that takes the name out of a query, byte by byte, and the response that *)
(* sendDNSResponse() makes of the query and an address.                    *)
(*                                                                         *)
(* A datagram is the bytes of its first question, as many as have arrived, *)
(* and the records behind it.  The header before them has no field the     *)
(* loop reads; of the response's it is ANCOUNT that matters.  The loop     *)
(* works on a buffer of its own, so that a step is one turn of it.         *)
(***************************************************************************)
EXTENDS ChainAddress, SequencesExt

CONSTANTS Dot,       \* the byte that joins labels
          Datagrams  \* the queries that programs send

\* In a query no record behind the question is an answer.
ASSUME DatagramAssumption ==
  /\ Dot \in Byte \ {0}
  /\ \A m \in Datagrams : /\ m.body \in Seq(Byte) /\ m.body # << >>
                          /\ m.after \in Seq([type : {"OPT"}, addr : {<< >>}])

(* History: the question a program sent, of which a datagram may hold the  *)
(* first bytes only, and the places of its length bytes.  Each says where  *)
(* the next one is; the last is the zero that ends the name, and behind it *)
(* are a type and a class.  No letter of a name is zero.  What is no query *)
(* at all has no length bytes.                                             *)
ASSUME QuestionAssumption ==
  \A m \in Datagrams : m.marks # << >> =>
    LET n == Len(m.marks) IN
      /\ m.question \in Seq(Byte) /\ m.marks \in Seq(Nat)
      /\ m.marks[1] = 1 /\ Len(m.question) = m.marks[n] + 4
      /\ \A i \in 1 .. n - 1 : m.marks[i + 1] = m.marks[i] + 1 + m.question[m.marks[i]]
      /\ \A i \in 1 .. n, j \in 1 .. n : i < j => m.marks[i] < m.marks[j]
      /\ \A k \in 1 .. m.marks[n] : m.question[k] = 0 <=> k = m.marks[n]
      /\ \E k \in 1 .. Len(m.question) : m.body = SubSeq(m.question, 1, k)

VARIABLES wirePc,  \* place in dns_thread_function()
          message, \* buffer, rl: the datagram at hand
          at,      \* d: how many bytes the loop has passed
          max,     \* max: how many it believes are left
          address  \* the name so far

wireVars == <<wirePc, message, at, max, address>>

NoDatagram == [body |-> << >>, after |-> << >>]

WireInit == /\ wirePc = "recv"
            /\ message = NoDatagram
            /\ at = 0 /\ max = 0 /\ address = << >>

\* recvfrom() returns more than a header.
WireReceive(m) ==
  /\ wirePc = "recv"
  /\ wirePc' = "labels"
  /\ message' = m
  /\ at' = 0 /\ max' = Len(m.body) /\ address' = << >>

Nl == message.body[at + 1]

\* No byte is left, or the name ends.
NoLabel ==
  /\ wirePc = "labels"
  /\ \/ max < 1 /\ UNCHANGED <<at, max>>
     \/ max >= 1 /\ Nl = 0 /\ at' = at + 1 /\ max' = max - 1
  /\ wirePc' = "question"
  /\ UNCHANGED <<message, address>>

\* Mutation: the length byte itself is counted twice.
TooLongLate(nl) == max - nl < 0
TooLong(nl) == (max - 1) - nl < 0

\* The label is longer than what is left: the name ends before it.
LabelCut ==
  /\ wirePc = "labels" /\ max >= 1 /\ Nl # 0 /\ TooLong(Nl)
  /\ at' = at + 1 /\ max' = max - 1
  /\ wirePc' = "question"
  /\ UNCHANGED <<message, address>>

\* Mutation: the labels are not kept apart.
JoinedWithoutDot(name, label) == name \o label
JoinedWith(name, label) ==
  (IF name = << >> THEN << >> ELSE Append(name, Dot)) \o label

\* Mutation: the pointer stays in front of the last byte of the label.
PassedShort(nl) == at + nl
Passed(nl) == at + 1 + nl

TakeLabel ==
  /\ wirePc = "labels" /\ max >= 1 /\ Nl # 0 /\ ~TooLong(Nl)
  /\ address' = JoinedWith(address, SubSeq(message.body, at + 2, at + 1 + Nl))
  /\ at' = Passed(Nl) /\ max' = (max - 1) - Nl
  /\ UNCHANGED <<wirePc, message>>

TypeA == <<0, 1>>
TypeAny == <<0, TopByte>>

\* What onDNSRequest() acts on: a name, and behind it a type and a class,
\* the type A or ANY.  Others, AAAA among them, have no effect.
Handled ==
  /\ address # << >> /\ max >= 4
  /\ SubSeq(message.body, at + 1, at + 2) \in {TypeA, TypeAny}

WireDone ==
  /\ wirePc = "question"
  /\ wirePc' = "recv" /\ message' = NoDatagram
  /\ at' = 0 /\ max' = 0 /\ address' = << >>

WireNext ==
  NoLabel \/ LabelCut \/ TakeLabel

-----------------------------------------------------------------------------
(* The response.                                                           *)
ARecord(a) == [type |-> "A", addr |-> a]

(* sendDNSResponse(): the whole query, its ANCOUNT set, and at its end,    *)
(* behind an additional record if the query has one, the address, if there *)
(* is one.                                                                 *)
Response(m, a) ==
  IF a = << >> THEN [an |-> 0, after |-> m.after]
  ELSE [an |-> 1, after |-> Append(m.after, ARecord(a))]

(* External: a program's resolver takes the first ANCOUNT records behind   *)
(* the question for the answers.                                           *)
AnswersIn(r) == {r.after[i] : i \in 1 .. r.an}
Learned(r) == {x.addr : x \in {y \in AnswersIn(r) : y.type = "A"}}

-----------------------------------------------------------------------------
(* What must hold.                                                         *)

(* The pointer d and the count max, kept apart, agree on where the         *)
(* datagram ends, whatever its bytes are, so that neither the loop nor the *)
(* read of the type behind it leaves the datagram; max is not negative     *)
(* when it is compared with an unsigned size.                              *)
InDatagram ==
  wirePc # "recv" => max \in Nat /\ at \in Nat /\ at + max = Len(message.body)

\* Reference: a name is its labels joined by dots: the bytes between the
\* first length byte and the last, with a dot in the place of each other.
Spelled(m) ==
  [k \in 1 .. m.marks[Len(m.marks)] - 2 |->
     IF \E i \in DOMAIN m.marks : m.marks[i] = k + 1 THEN Dot ELSE m.question[k + 1]]

TypeAsked(m) == SubSeq(m.question, Len(m.question) - 3, Len(m.question) - 2)

(* The name looked up is the one the program asked for, and the queries    *)
(* looked up are those of type A or ANY that arrived whole: one that is    *)
(* cut short, in a label or behind it, is never taken for another name.    *)
AsAsked ==
  wirePc = "question" /\ message.marks # << >> =>
    /\ Handled <=> /\ message.body = message.question /\ Len(message.marks) > 1
                   /\ TypeAsked(message) \in {TypeA, TypeAny}
    /\ Handled => address = Spelled(message)
=============================================================================
