------------------------------ MODULE DomainPipe ------------------------------
(***************************************************************************)
(* What the chain network promises two programs that talk to each other,   *)
(* whatever happens between their devices: a packet that a client sends to *)
(* a domain is lost, or delivered, at any later time and any number of     *)
(* times, to a client of that domain, under an address at which the domain *)
(* of its sender is reached.                                               *)
(***************************************************************************)
CONSTANTS Clients, Domains,
          DomainOf  \* the domain a client has

VARIABLES
  pipe,  \* who has sent to which domain
  got    \* the last delivery: who got what, and where a reply goes

Init == pipe = {} /\ got = {}

Send(c, d) ==
  /\ pipe' = pipe \cup {[from |-> c, to |-> d]}
  /\ UNCHANGED got

Lose(p) ==
  /\ pipe' = pipe \ {p}
  /\ UNCHANGED got

Deliver(c, p) ==
  /\ DomainOf[c] = p.to
  /\ got' = {[client |-> c, from |-> p.from, reply |-> DomainOf[p.from]]}
  /\ pipe' = pipe \ {p} \/ UNCHANGED pipe

Next ==
  \/ \E c \in Clients, d \in Domains : Send(c, d)
  \/ \E p \in pipe : Lose(p) \/ \E c \in Clients : Deliver(c, p)

Spec == Init /\ [][Next]_<<pipe, got>>
=============================================================================
