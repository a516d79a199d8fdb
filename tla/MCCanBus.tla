------------------------------ MODULE MCCanBus ------------------------------
(* CanBus for TLC: two buses with a pile on each. The commands are for the
   pile of the bus that is written last. *)
EXTENDS CanBus

MCBuses == <<"can0", "can1">>
MCBusOf == [p \in {"p", "q"} |-> IF p = "p" THEN "can0" ELSE "can1"]
MCMaxCommands == [p \in {"p", "q"} |-> IF p = "p" THEN 0 ELSE 2]
=============================================================================
