----------------------------- MODULE MCBooking -----------------------------
(* Booking for TLC: a type with a book order, one that is kept without a   *)
(* book order, and the card's type, which is not kept.                     *)
EXTENDS Booking
=============================================================================
