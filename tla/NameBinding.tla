----------------------------- MODULE NameBinding -----------------------------
(***************************************************************************)
(* What the naming service of a device promises to the programs behind it: *)
(* a local address, once taken for a domain, belongs to that domain for as *)
(* long as the service runs, and a name query is replied to at most once,  *)
(* either with an address its domain owns at that moment or with "none".   *)
(*                                                                         *)
(* Nothing is said of threads, of the RouteServer or of how addresses are  *)
(* chosen.  ChainBinding implements this specification.                    *)
(***************************************************************************)
CONSTANTS Domains, Queries, Address, NoDomain, NoAddress

VARIABLES owner,  \* the domain of every address taken so far
          asked,  \* the domain each query names, NoDomain before it is made
          reply   \* the replies sent to each query

vars == <<owner, asked, reply>>

Init == /\ owner = << >>
        /\ asked = [q \in Queries |-> NoDomain]
        /\ reply = [q \in Queries |-> << >>]

Owned(a, d) == a \in DOMAIN owner /\ owner[a] = d

(* A query arrives; one whose domain has an address may be replied to in   *)
(* the same step.                                                          *)
Ask(q, d) ==
  /\ asked[q] = NoDomain
  /\ asked' = [asked EXCEPT ![q] = d]
  /\ \/ reply' = reply
     \/ \E a \in Address : Owned(a, d) /\ reply' = [reply EXCEPT ![q] = <<a>>]
  /\ UNCHANGED owner

(* An address that no domain has is taken for d.                           *)
Claim(a, d) ==
  /\ a \notin DOMAIN owner
  /\ owner' = [b \in DOMAIN owner \cup {a} |-> IF b = a THEN d ELSE owner[b]]
  /\ UNCHANGED <<asked, reply>>

Reply(q, a) ==
  /\ asked[q] # NoDomain
  /\ reply[q] = << >>
  /\ a = NoAddress \/ Owned(a, asked[q])
  /\ reply' = [reply EXCEPT ![q] = <<a>>]
  /\ UNCHANGED <<owner, asked>>

Next == \/ \E q \in Queries, d \in Domains : Ask(q, d)
        \/ \E a \in Address, d \in Domains : Claim(a, d)
        \/ \E q \in Queries, a \in Address \cup {NoAddress} : Reply(q, a)

Spec == Init /\ [][Next]_vars
=============================================================================
