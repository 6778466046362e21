--------------------------- MODULE MCPacketRouting ---------------------------
(***************************************************************************)
(* PacketRouting on small instances: two devices with a client each, every *)
(* chain of length four over them, so that a packet may pass a device      *)
(* twice, go back to where it came from, or end where it began.            *)
(***************************************************************************)
EXTENDS PacketRouting

CONSTANTS e1, e2, c1, c2

MCDevices == {e1, e2}
MCClients == {c1, c2}
MCHome == [c \in MCClients |-> IF c = c1 THEN e1 ELSE e2]
MCDomainOf == [c \in MCClients |-> IF c = c1 THEN "5.ll" ELSE "a.ll"]
MCDomains == {"5.ll", "a.ll"}
=============================================================================
