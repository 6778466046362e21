------------------------------- MODULE MCEdge -------------------------------
(***************************************************************************)
(* Edge on a small instance: bytes of three values, of which 1 is a letter *)
(* and 2 is the dot; two domains, "1.1" and "11", which differ in the dot. *)
(***************************************************************************)
EXTENDS Edge, Bitwise

CONSTANT q1

(* get_crc(), xor included. *)
GetCrc(bytes) == FoldLeft(+, Len(bytes), bytes) ^^ Len(bytes)

MCQueries == {q1}
MCDomains == {<<1, 2, 1>>, <<1, 1>>}
MCCrc == [d \in MCDomains |-> GetCrc(d)]

Labels(labels) == FlattenSeq([i \in DOMAIN labels |-> <<Len(labels[i])>> \o labels[i]])

Opt == [type |-> "OPT", addr |-> << >>]

\* A query for a name and a type, of which only the first n bytes arrive.
Cut(labels, type, n) ==
  LET question == Labels(labels) \o <<0>> \o type \o <<0, 1>> IN
    [question |-> question, body |-> SubSeq(question, 1, n), after |-> << >>,
     marks |-> [i \in 1 .. Len(labels) + 1 |-> Len(Labels(SubSeq(labels, 1, i - 1))) + 1]]

Whole(labels, type, after) ==
  [Cut(labels, type, Len(Labels(labels)) + 5) EXCEPT !.after = after]

\* What nobody meant as a query.
Noise(bytes) == [question |-> << >>, body |-> bytes, after |-> << >>, marks |-> << >>]

MCDatagrams ==
  {Whole(<<<<1>>, <<1>>>>, TypeA, << >>), Whole(<<<<1>>, <<1>>>>, TypeA, <<Opt>>),
   Whole(<<<<1, 1>>>>, TypeAny, << >>), Whole(<<<<1, 1>>>>, <<0, 0>>, << >>),
   Whole(<< >>, TypeA, << >>)}
   \cup {Cut(<<<<1>>, <<1, 1>>>>, TypeA, n) : n \in {1, 4, 7, 9}}
   \cup {Noise(<<2, 0, 0, 1, 0, 1>>)}

MCPackets ==
  [head : {"v4", "other"}, src : {ClientAddress(0), ClientAddress(1), <<2, 2, 0, 1>>},
   read : {20, 21}, total : {21}]
MCPayloads == {[len |-> <<1, 2>>, proto |-> 2]}
=============================================================================
