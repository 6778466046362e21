-------------------------- MODULE MCClientRegistry --------------------------
(***************************************************************************)
(* ClientRegistry on small instances: fewer clients, names and chains than *)
(* the code's, few enough names for two clients to draw the same.          *)
(***************************************************************************)
EXTENDS ClientRegistry

\* What the process before had asked for when it was ended.
MCOldList == {OldList(2)}
MCOldResponses == {ChainsSet(NoClient, "5.ll")}
=============================================================================
