--------------------------- MODULE MCOrderReport ---------------------------
(* OrderReport for TLC. One VIN frame and one bill frame are enough here:  *)
(* the splitting into parts is checked with ChargeOrder.                   *)
EXTENDS OrderReport
=============================================================================
