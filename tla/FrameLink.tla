------------------------------ MODULE FrameLink ------------------------------
(***************************************************************************)
(* What the gateway may rely on between its handlers and the piles: the    *)
(* frames of a pile reach the handlers one at a time, each at most once    *)
(* and in the order they were sent, and so do the commands on the bus of   *)
(* the pile; both may get lost, and nothing is said about the order        *)
(* between piles. Every module about a handler assumes this, and CanBus    *)
(* is shown to provide it.                                                 *)
(***************************************************************************)
EXTENDS Naturals

CONSTANT Piles

VARIABLES
  sent,     \* per pile: the number of its last frame
  handled,  \* per pile: the number of the last frame that was handled
  issued,   \* per pile: the number of the last command for it
  onBus     \* per pile: the number of the last command on its bus

vars == <<sent, handled, issued, onBus>>

PileSends(p) ==
  /\ sent' = [sent EXCEPT ![p] = @ + 1]
  /\ UNCHANGED <<handled, issued, onBus>>

Handle(p) ==
  /\ \E n \in handled[p] + 1 .. sent[p] : handled' = [handled EXCEPT ![p] = n]
  /\ UNCHANGED <<sent, issued, onBus>>

Issue(p) ==
  /\ issued' = [issued EXCEPT ![p] = @ + 1]
  /\ UNCHANGED <<sent, handled, onBus>>

PutOnBus(p) ==
  /\ \E n \in onBus[p] + 1 .. issued[p] : onBus' = [onBus EXCEPT ![p] = n]
  /\ UNCHANGED <<sent, handled, issued>>

Init ==
  /\ sent = [p \in Piles |-> 0]
  /\ handled = [p \in Piles |-> 0]
  /\ issued = [p \in Piles |-> 0]
  /\ onBus = [p \in Piles |-> 0]

Next ==
  \E p \in Piles : PileSends(p) \/ Handle(p) \/ Issue(p) \/ PutOnBus(p)

Spec == Init /\ [][Next]_vars

=============================================================================
