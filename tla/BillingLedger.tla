---------------------------- MODULE BillingLedger ----------------------------
(***************************************************************************)
(* What the settlement of one connector promises, without its frames,      *)
(* timers and flags: charging sessions are opened one after the other, at  *)
(* most one of them is open, an open session is closed by billing it, and  *)
(* only a crash of the gateway closes a session that was not billed.       *)
(* Sessions are counted here; the number one has at the pile is a time of  *)
(* day, and not always its own. ChargeOrder implements this ledger.        *)
(***************************************************************************)
EXTENDS Naturals

VARIABLES
  issued,   \* how many sessions have been opened
  open,     \* which session is open, 0 when none is
  billed,   \* the sessions that have an entry in the bill table
  crashes   \* how often the gateway has lost its memory

ledger == <<issued, open, billed, crashes>>

Init ==
  /\ issued = 0
  /\ open = 0
  /\ billed = {}
  /\ crashes = 0

Open ==
  /\ open = 0
  /\ issued' = issued + 1
  /\ open' = issued'
  /\ UNCHANGED <<billed, crashes>>

Bill ==
  /\ open # 0
  /\ open \notin billed
  /\ billed' = billed \union {open}
  /\ open' = 0
  /\ UNCHANGED <<issued, crashes>>

Crash ==
  /\ crashes' = crashes + 1
  /\ open' = 0
  /\ UNCHANGED <<issued, billed>>

Next == Open \/ Bill \/ Crash

Spec == Init /\ [][Next]_ledger
=============================================================================
