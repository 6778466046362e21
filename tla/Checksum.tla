------------------------------ MODULE Checksum ------------------------------
(***************************************************************************)
(* ip_sum(), the checksum that apply_and_route_rss_packet() puts into the  *)
(* header of a packet it delivers: the words of the header are added up,   *)
(* in the byte order of the machine, carries are folded back into the low  *)
(* word, and the result is the complement.                                 *)
(*                                                                         *)
(* A word is two bytes of ByteBase values; FoldAt stands for 0x80000000.   *)
(* A step is one turn of a loop.                                           *)
(***************************************************************************)
EXTENDS ChainAddress, Sequences

CONSTANT FoldAt  \* the sum at which a carry is folded early

WordBase == ByteBase * ByteBase

ASSUME FoldAssumption == FoldAt \in Nat /\ FoldAt >= WordBase

VARIABLES sumPc,  \* place in ip_sum()
          data,   \* what is summed
          len,    \* len: the bytes not yet added
          sum,    \* sum
          total   \* history: the words added up, nothing folded

sumVars == <<sumPc, data, len, sum, total>>

SumInit == /\ sumPc = "idle" /\ data = << >>
           /\ len = 0 /\ sum = 0 /\ total = 0

SumBegin(bytes) ==
  /\ sumPc = "idle"
  /\ sumPc' = "words" /\ data' = bytes
  /\ len' = Len(bytes) /\ sum' = 0 /\ total' = 0

\* Mutation: the carry is dropped.
FoldLost(s) == s % WordBase
Fold(s) == (s % WordBase) + (s \div WordBase)

Word == LET ip == Len(data) - len IN data[ip + 1] + ByteBase * data[ip + 2]

SumWord ==
  /\ sumPc = "words" /\ len > 1
  /\ sum' = (IF sum + Word >= FoldAt THEN Fold(sum + Word) ELSE sum + Word)
  /\ total' = total + Word
  /\ len' = len - 2
  /\ UNCHANGED <<sumPc, data>>

\* A byte that is left over is a word of its own.
SumTail ==
  /\ sumPc = "words" /\ len <= 1
  /\ LET rest == IF len = 1 THEN data[Len(data)] ELSE 0
     IN  sum' = sum + rest /\ total' = total + rest
  /\ sumPc' = "fold"
  /\ UNCHANGED <<data, len>>

SumFold ==
  /\ sumPc = "fold" /\ sum >= WordBase
  /\ sum' = Fold(sum)
  /\ UNCHANGED <<sumPc, data, len, total>>

SumEnd ==
  /\ sumPc = "fold" /\ sum < WordBase
  /\ sumPc' = "done"
  /\ UNCHANGED <<data, len, sum, total>>

SumNext == SumWord \/ SumTail \/ SumFold \/ SumEnd

SumReset == /\ sumPc = "done"
            /\ sumPc' = "idle" /\ data' = << >>
            /\ len' = 0 /\ sum' = 0 /\ total' = 0

Result == (WordBase - 1) - sum  \* ~sum, as an unsigned short

(* What a receiver checks: the words of the header, the checksum among     *)
(* them, add up to a multiple of 2^16 - 1 that is not zero, which folds    *)
(* into a word of ones.  The field was zero when ip_sum() ran, so that the *)
(* result adds exactly itself.                                             *)
Verifies(t) == \E k \in 1 .. t : t = k * (WordBase - 1)

SumVerifies == sumPc = "done" => Verifies(total + Result)
=============================================================================
