----------------------------- MODULE MCMqSession -----------------------------
(* MqSession for TLC: one of the two piles may have two requests under way. *)
EXTENDS MqSession

MCMaxRequests == [p \in {"p", "q"} |-> IF p = "p" THEN 2 ELSE 1]
=============================================================================
