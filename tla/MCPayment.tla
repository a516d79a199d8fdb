------------------------------ MODULE MCPayment ------------------------------
(* Payment for TLC. The values of the constants are in the .cfg files. *)
EXTENDS Payment
=============================================================================
