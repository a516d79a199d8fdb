------------------------------- MODULE CanBus -------------------------------
(***************************************************************************)
(* The two CAN buses (CanWrapper, CanWorkerThread and the device part of   *)
(* CManage). One thread per bus waits for frames on its socket and hands   *)
(* each on by a queued signal; the event loop of the main thread handles   *)
(* the frames of both and writes every command to both buses, because it   *)
(* does not know on which one a pile is. A bus may be missing at start,    *)
(* and fail and return at any time; a write that fails costs the event     *)
(* loop a pause of 100 ms and is not repeated.                             *)
(*                                                                         *)
(* Abstractions. Of a frame there is its pile, its number and whether the  *)
(* thread hands it on (an extended data frame of 8 bytes; error frames,    *)
(* remote requests, standard and shorter frames are dropped). What the     *)
(* handlers do is in the other modules; here they issue commands. A        *)
(* command a handler gives up half-way is one that is not issued. The      *)
(* threads are never stopped: nothing calls closeDevice.                   *)
(***************************************************************************)
EXTENDS Naturals, Sequences

CONSTANTS
  Buses,        \* the buses in the order commands are written, a sequence
  Piles,        \* the piles
  BusOf,        \* the bus each pile is on
  SocketSize,   \* frames the socket of a bus holds
  MaxFrames,    \* bound: frames of a pile
  MaxCommands,  \* bound: per pile, commands for it
  MaxFailures   \* bound: failures of a bus

BusSet == {Buses[i] : i \in DOMAIN Buses}

ASSUME BusAssumption == Buses \in Seq(BusSet) /\ BusOf \in [Piles -> BusSet]
ASSUME BoundAssumption ==
  /\ SocketSize \in Nat \ {0}
  /\ MaxFrames \in Nat
  /\ MaxCommands \in [Piles -> Nat]
  /\ MaxFailures \in Nat

VARIABLES
  m_initialized,  \* the buses whose socket could be opened
  up,             \* the buses that work now
  failed,         \* the buses that did not work at some time
  failures,       \* counter of the bound
  sent,           \* per pile: the number of its last frame
  socket,         \* per bus: frames the kernel holds for the thread
  msg,            \* per bus: the frame the thread has read, if any
  events,         \* signals posted to the event loop
  handled,        \* per pile: the number of the last frame handled
  issued,         \* per pile: the number of the last command
  command,        \* the pile whose command is being written, if any
  todo,           \* the buses it has still to be written to
  pausing,        \* usleep in sendReplyData
  onBus           \* per pile: the last command on the bus of the pile

busVars   == <<m_initialized, up, failed, failures>>
frameVars == <<sent, socket, msg, events, handled>>
sendVars  == <<issued, command, todo, pausing, onBus>>
vars == <<busVars, frameVars, sendVars>>

Frame == [pile : Piles, no : 1 .. MaxFrames, data : BOOLEAN]

-----------------------------------------------------------------------------
(* The buses and the piles *)

BusFails(b) ==
  /\ b \in up
  /\ failures < MaxFailures
  /\ failures' = failures + 1
  /\ up' = up \ {b}
  /\ failed' = failed \union {b}
  /\ UNCHANGED <<m_initialized, frameVars, sendVars>>

BusReturns(b) ==
  /\ b \notin up
  /\ up' = up \union {b}
  /\ UNCHANGED <<m_initialized, failed, failures, frameVars, sendVars>>

\* A pile puts a frame on its bus. It is lost if the bus does not work, if it
\* has no socket, or if the socket is full.
PileSends(p) ==
  LET b == BusOf[p] IN
  /\ sent[p] < MaxFrames
  /\ sent' = [sent EXCEPT ![p] = @ + 1]
  /\ IF b \in up \intersect m_initialized /\ Len(socket[b]) < SocketSize
     THEN \E data \in BOOLEAN :
            socket' = [socket EXCEPT
                         ![b] = Append(@, [pile |-> p, no |-> sent'[p], data |-> data])]
     ELSE UNCHANGED socket
  /\ UNCHANGED <<busVars, msg, events, handled, sendVars>>

-----------------------------------------------------------------------------
(* The thread of a bus: run *)

\* GetMsg: select and read, once the frame before has been passed on. A
\* timeout of select and an error of read only make the thread try again.
GetMsg(b) ==
  /\ msg[b] = <<>>
  /\ socket[b] # <<>>
  /\ msg' = [msg EXCEPT ![b] = <<Head(socket[b])>>]
  /\ socket' = [socket EXCEPT ![b] = Tail(@)]
  /\ UNCHANGED <<busVars, sent, events, handled, sendVars>>

EmitDefect(b) == events' = msg[b] \o events

\* emit sendCanMsg: the signal is queued, as the receiver is of another thread.
Emit(b) == events' = events \o msg[b]

\* run: the frame is handed on if it is a data frame, and dropped otherwise.
PassOn(b) ==
  /\ msg[b] # <<>>
  /\ IF Head(msg[b]).data THEN Emit(b) ELSE UNCHANGED events
  /\ msg' = [msg EXCEPT ![b] = <<>>]
  /\ UNCHANGED <<busVars, sent, socket, handled, sendVars>>

-----------------------------------------------------------------------------
(* The event loop *)

Idle == command = <<>>

\* setData and handleCanMsg: the next frame goes to the connector of its pile.
SetData ==
  /\ Idle
  /\ events # <<>>
  /\ handled' = [handled EXCEPT ![Head(events).pile] = Head(events).no]
  /\ events' = Tail(events)
  /\ UNCHANGED <<busVars, sent, socket, msg, sendVars>>

\* sendMsgToPile, called by a handler, a timer or a command of the platform.
\* Nothing else happens in the event loop until it returns.
SendMsgToPile(p) ==
  /\ Idle
  /\ issued[p] < MaxCommands[p]
  /\ issued' = [issued EXCEPT ![p] = @ + 1]
  /\ command' = <<p>>
  /\ todo' = Buses
  /\ UNCHANGED <<busVars, frameVars, pausing, onBus>>

\* SendMsg of CanWrapper to bus b: the pile of the command is reached if it is
\* on this bus. errorCode is set by a failed write, not by a missing socket.
Write(b) ==
  LET p == Head(command) IN
  IF b \in up \intersect m_initialized /\ BusOf[p] = b
  THEN onBus' = [onBus EXCEPT ![p] = issued[p]]
  ELSE UNCHANGED onBus

WriteError(b) == b \in m_initialized \ up

ReturnDefect == todo' = Tail(todo) /\ UNCHANGED command

\* The return from sendReplyData, to its caller if it was for the last bus.
Return ==
  /\ todo' = Tail(todo)
  /\ command' = IF todo' = <<>> THEN <<>> ELSE command

\* sendReplyData without an error.
SendReplyData ==
  /\ ~Idle
  /\ ~pausing
  /\ ~WriteError(Head(todo))
  /\ Write(Head(todo))
  /\ Return
  /\ UNCHANGED <<busVars, frameVars, issued, pausing>>

\* sendReplyData with an error: resetDevice, to which nothing is connected,
\* and a pause.
SendFails ==
  /\ ~Idle
  /\ ~pausing
  /\ WriteError(Head(todo))
  /\ pausing' = TRUE
  /\ UNCHANGED <<busVars, frameVars, issued, command, todo, onBus>>

AfterPauseDefectSkip == todo' = <<>> /\ command' = <<>>
AfterPauseDefectRetry == UNCHANGED <<todo, command>>

\* After the pause the frame is given up, and the next bus has its turn.
AfterPause == Return

PauseEnds ==
  /\ pausing
  /\ pausing' = FALSE
  /\ AfterPause
  /\ UNCHANGED <<busVars, frameVars, issued, onBus>>

-----------------------------------------------------------------------------
\* startSystem: a bus that cannot be opened is never tried again.
Init ==
  /\ m_initialized \in SUBSET BusSet
  /\ up \in {BusSet, m_initialized}
  /\ failed = BusSet \ up
  /\ failures = 0
  /\ sent = [p \in Piles |-> 0]
  /\ socket = [b \in BusSet |-> <<>>]
  /\ msg = [b \in BusSet |-> <<>>]
  /\ events = <<>>
  /\ handled = [p \in Piles |-> 0]
  /\ issued = [p \in Piles |-> 0]
  /\ command = <<>>
  /\ todo = <<>>
  /\ pausing = FALSE
  /\ onBus = [p \in Piles |-> 0]

Next ==
  \/ \E b \in BusSet : BusFails(b) \/ BusReturns(b) \/ GetMsg(b) \/ PassOn(b)
  \/ \E p \in Piles : PileSends(p) \/ SendMsgToPile(p)
  \/ SetData
  \/ SendReplyData
  \/ SendFails
  \/ PauseEnds

Spec == Init /\ [][Next]_vars

\* The threads run, pauses end, and Qt's event loop delivers posted events in
\* every round, so timers and network events never keep it from them for ever.
\* Nothing is assumed of the buses: one that fails may never return.
FairSpec ==
  /\ Spec
  /\ \A b \in BusSet : WF_vars(GetMsg(b)) /\ WF_vars(PassOn(b))
  /\ SF_vars(SetData)
  /\ WF_vars(SendReplyData)
  /\ WF_vars(SendFails)
  /\ WF_vars(PauseEnds)

-----------------------------------------------------------------------------
(* Properties *)

\* Every variable keeps its type, and a thread only holds frames of its bus.
TypeOK ==
  /\ m_initialized \in SUBSET BusSet
  /\ up \in SUBSET BusSet
  /\ failed \in SUBSET BusSet
  /\ failures \in 0 .. MaxFailures
  /\ sent \in [Piles -> 0 .. MaxFrames]
  /\ \A b \in BusSet :
       /\ socket[b] \in Seq(Frame)
       /\ Len(socket[b]) <= SocketSize
       /\ msg[b] \in Seq(Frame)
       /\ Len(msg[b]) <= 1
       /\ \A i \in DOMAIN socket[b] : BusOf[socket[b][i].pile] = b
  /\ events \in Seq(Frame)
  /\ \A p \in Piles :
       /\ handled[p] \in 0 .. sent[p]
       /\ onBus[p] \in 0 .. issued[p]
       /\ issued[p] \in 0 .. MaxCommands[p]
  /\ command \in Seq(Piles)
  /\ todo \in Seq(BusSet)
  /\ (command = <<>>) = (todo = <<>>)
  /\ pausing \in BOOLEAN

\* Two threads, two sockets and one event queue keep the frames of every pile
\* in order and hand none on twice, and commands reach the bus of the pile in
\* the order they were issued: what all other modules assume of the frames.
Link == INSTANCE FrameLink
ImplementsLink == Link!Spec

\* A bus that fails or is missing takes no command away from the piles of the
\* other one: when the event loop is free every command for a pile whose bus
\* always worked is on its bus.
OtherBusServed ==
  \A p \in Piles :
    Idle /\ BusOf[p] \in m_initialized \ failed => onBus[p] = issued[p]

\* A data frame that a thread has read is handled in the end, even if a bus
\* the gateway writes to never works again.
InThread(p, n) ==
  \E b \in BusSet : msg[b] = <<[pile |-> p, no |-> n, data |-> TRUE]>>

ReadIsHandled ==
  \A p \in Piles, n \in 1 .. MaxFrames : InThread(p, n) ~> handled[p] >= n

=============================================================================
