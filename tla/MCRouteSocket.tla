---------------------------- MODULE MCRouteSocket ----------------------------
(***************************************************************************)
(* RouteSocket with two devices, enough for a packet meant for one to go   *)
(* to the other.                                                           *)
(***************************************************************************)
EXTENDS RouteSocket
=============================================================================
