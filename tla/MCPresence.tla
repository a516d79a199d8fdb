------------------------------ MODULE MCPresence ------------------------------
(* Presence for TLC: a pile with two guns and a pile with one. The values of *)
(* the other constants are in the .cfg.                                      *)
EXTENDS Presence, Sequences

MCPileOf == <<1, 1, 2>>
=============================================================================
