------------------------------- MODULE Presence -------------------------------
(***************************************************************************)
(* Which piles the gateway believes to be there (CConnectorManager and the *)
(* counter of CEnneagonConnector).                                         *)
(*                                                                         *)
(* Every tick of its timer the manager sends a heartbeat to all guns of    *)
(* one pile, goes on to the next pile, and counts for every gun how many   *)
(* ticks have passed since a frame of it was heard: after OfflineLimit     *)
(* ticks the gun is off line. A heartbeat of the platform is answered at   *)
(* the next tick with the lists of piles on and off line.                  *)
(*                                                                         *)
(* A gun that has power answers a heartbeat, at any time before it or      *)
(* after, unless a frame is lost; it may send other frames whenever it     *)
(* likes. It can lose and regain power.                                    *)
(*                                                                         *)
(* Abstractions. The guns are the positions of the list, numbered from 1;  *)
(* currIndex counts from 0 as in the code. m_dCounts stops one above the   *)
(* limit. What the frames say is in ConnectorStatus, what becomes of an    *)
(* answer to the platform when the queue is down is in MqSession.          *)
(***************************************************************************)
EXTENDS Naturals, FiniteSets

CONSTANTS
  Size,          \* the number of guns
  PileOf,        \* the pile of each gun
  OfflineLimit   \* ticks without a frame until a gun is off line (30)

Guns == 1 .. Size

\* The pile at the index i of the list.
PileAt(i) == PileOf[i + 1]
GunsOf(pile) == {g \in Guns : PileOf[g] = pile}
Piles == {PileOf[g] : g \in Guns}

ASSUME SizeAssumption == Size \in Nat \ {0}
\* queryPile: the guns of a pile are added together. The guns of a pile are
\* heard in turn, so that there may not be more piles than ticks.
ASSUME PileAssumption ==
  /\ PileOf \in [Guns -> Nat]
  /\ \A pile \in Piles : \E a, b \in Guns : GunsOf(pile) = a .. b
ASSUME LimitAssumption ==
  /\ OfflineLimit \in Nat
  /\ Cardinality(Piles) <= OfflineLimit

VARIABLES
  currIndex,             \* where the guns of the next pile begin
  m_bOnline,             \* the platform is heard
  m_bGetMsg,             \* a heartbeat of the platform is to be answered
  m_dCounts,             \* ticks since the last frame of a gun
  m_bConnectedToPile,    \* the guns that are believed to be there
  power,                 \* the guns that have power
  owes,                  \* guns that have not answered a heartbeat yet
  missed                 \* history: guns that did not before the next tick,
                         \* and were not heard since, or never

vars == <<currIndex, m_bOnline, m_bGetMsg, m_dCounts, m_bConnectedToPile, power,
          owes, missed>>

-----------------------------------------------------------------------------
(* The timer *)

\* The guns that are sent a heartbeat, with the gateway's state 1 or 2.
Polled == GunsOf(PileAt(currIndex))

NextIndexDefect == IF currIndex + 1 >= Size THEN 0 ELSE currIndex + 1

\* The index goes on by one for every gun that was polled.
NextIndex ==
  LET next == currIndex + Cardinality(Polled) IN
  IF next >= Size THEN 0 ELSE next

TooLongDefect(g) == m_dCounts[g] + 1 >= OfflineLimit

\* The counter is above the limit.
TooLong(g) == m_dCounts[g] + 1 > OfflineLimit

CountedDefect == IF m_bOnline THEN Guns ELSE {}

\* The guns that are counted: all of them at every tick.
Counted == Guns

\* updateCounts, of every gun.
UpdateCounts ==
  /\ m_dCounts' = [g \in Guns |-> IF g \in Counted /\ m_dCounts[g] <= OfflineLimit
                               THEN m_dCounts[g] + 1 ELSE m_dCounts[g]]
  /\ m_bConnectedToPile' = m_bConnectedToPile \ {g \in Counted : TooLong(g)}

\* packHeartBeatMsg: a pile may be in both lists.
OnLineArr == {PileOf[g] : g \in m_bConnectedToPile}
UnonLineArr == {PileOf[g] : g \in Guns \ m_bConnectedToPile}

\* handleTimeout. The platform is sent the lists if it has asked.
Tick ==
  /\ currIndex' = NextIndex
  /\ UpdateCounts
  /\ m_bGetMsg' = FALSE
  /\ missed' = missed \union owes
  /\ owes' = owes \union Polled
  /\ UNCHANGED <<m_bOnline, power>>

-----------------------------------------------------------------------------
(* Frames of the guns *)

\* decode, of any frame of gun g.
Heard(g) ==
  /\ g \in power
  /\ m_dCounts' = [m_dCounts EXCEPT ![g] = 0]
  /\ m_bConnectedToPile' = m_bConnectedToPile \union {g}
  /\ missed' = missed \ {g}
  /\ UNCHANGED <<currIndex, m_bOnline, m_bGetMsg, power>>

\* 0x0885: the answer to a heartbeat.
Answer(g) == g \in owes /\ owes' = owes \ {g} /\ Heard(g)

\* Any other frame.
OtherFrame(g) == Heard(g) /\ UNCHANGED owes

PowerFails(g) ==
  /\ g \in power
  /\ power' = power \ {g}
  /\ UNCHANGED <<currIndex, m_bOnline, m_bGetMsg, m_dCounts, m_bConnectedToPile,
                 owes, missed>>

PowerReturns(g) ==
  /\ g \notin power
  /\ power' = power \union {g}
  /\ UNCHANGED <<currIndex, m_bOnline, m_bGetMsg, m_dCounts, m_bConnectedToPile,
                 owes, missed>>

-----------------------------------------------------------------------------
(* The platform *)

\* setBOnline(true), by a heartbeat of the platform.
PlatformHeartbeat ==
  /\ m_bOnline' = TRUE
  /\ m_bGetMsg' = TRUE
  /\ UNCHANGED <<currIndex, m_dCounts, m_bConnectedToPile, power, owes, missed>>

\* setBOnline(false), when the platform was not heard for 60 s.
PlatformLost ==
  /\ m_bOnline' = FALSE
  /\ UNCHANGED <<currIndex, m_bGetMsg, m_dCounts, m_bConnectedToPile, power, owes,
                 missed>>

Init ==
  /\ currIndex = 0
  /\ m_bOnline = FALSE
  /\ m_bGetMsg = FALSE
  /\ m_dCounts = [g \in Guns |-> 0]
  /\ m_bConnectedToPile = {}
  /\ power \in SUBSET Guns
  /\ owes = {}
  /\ missed = Guns

Next ==
  \/ Tick
  \/ \E g \in Guns :
       \/ Answer(g)
       \/ OtherFrame(g)
       \/ PowerFails(g)
       \/ PowerReturns(g)
  \/ PlatformHeartbeat
  \/ PlatformLost

Spec == Init /\ [][Next]_vars

\* The timer of the manager never stops.
FairSpec == Spec /\ WF_vars(Tick)

-----------------------------------------------------------------------------
(* Properties *)

\* Every variable keeps its type, and the index is always at the first gun of
\* a pile: a poll reaches all guns of a pile, however many each pile has.
TypeOK ==
  /\ currIndex \in 0 .. Size - 1
  /\ currIndex # 0 => PileOf[currIndex] # PileAt(currIndex)
  /\ m_bOnline \in BOOLEAN
  /\ m_bGetMsg \in BOOLEAN
  /\ m_dCounts \in [Guns -> 0 .. OfflineLimit + 1]
  /\ m_bConnectedToPile \in SUBSET Guns
  /\ power \in SUBSET Guns
  /\ owes \in SUBSET Guns
  /\ missed \in SUBSET Guns

\* A pile all of whose guns answer every heartbeat before the next tick is
\* never among those the gateway reports as off line, however its answers
\* fall between the polls of the other piles. (With more piles than
\* OfflineLimit it would be.)
AnsweringListed ==
  [][m_bGetMsg /\ ~m_bGetMsg' =>
       \A pile \in Piles :
         GunsOf(pile) \intersect missed' = {} =>
           pile \in OnLineArr' \ UnonLineArr']_vars

\* A gun that has lost power for good is declared off line in the end, whether
\* or not the platform is heard.
SilentNoticed ==
  \A g \in Guns : <>[](g \notin power) => <>[](g \notin m_bConnectedToPile)

=============================================================================
