----------------------------- MODULE MCRSSCodec -----------------------------
(* Every message of the protocol.                                          *)
EXTENDS RSSCodec

MCTypes == DOMAIN structs
MCChars == {3}
MCWords == {2, 15}
MCInts == {5, 127, 128}
MCStrings == {<< >>, <<2>>}
\* The string's NUL, and what the heap may hold after it.
MCBeyond == {<<0, 0, 0, 0, 0, 0, 0, 0>>, <<0, 1, 3, 0, 1, 0, 0, 0>>}
MCShort == {"getDevicesResponse"}
=============================================================================
