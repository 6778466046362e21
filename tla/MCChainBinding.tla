--------------------------- MODULE MCChainBinding ---------------------------
(***************************************************************************)
(* ChainBinding on small instances: two domains with the same checksum, so *)
(* that only the comparison of the addresses tells them apart, two queries *)
(* and bytes of two values, so that the second binding already carries.    *)
(***************************************************************************)
EXTENDS ChainBinding

CONSTANTS d1, d2, q1, q2

MCDomains == {d1, d2}
MCQueries == {q1, q2}
MCCrc == [d \in MCDomains |-> 7]
=============================================================================
