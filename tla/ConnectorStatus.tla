--------------------------- MODULE ConnectorStatus ---------------------------
(***************************************************************************)
(* What the gateway knows of one connector (CConnectorStatus): the state   *)
(* in the pile's heartbeat, the measurements in the data frames, and when  *)
(* they are sent to the platform and cleared.                              *)
(*                                                                         *)
(* A charging message goes out when a heartbeat and every required part    *)
(* have been received since the one before (the mask mRecv, 0x4ff). The    *)
(* pile sends heartbeats and data at any time: data of the charge under    *)
(* way, and late or repeated data of an earlier one. Each frame may be     *)
(* lost, or the pile not be heard for so long that the gateway declares it *)
(* off line.                                                               *)
(*                                                                         *)
(* Abstractions. A measurement is the charge of the pile it is from, 0     *)
(* when it is cleared. The values resetParam leaves alone (battery type,   *)
(* capacity, charging mode, protocol) and the alarms, whose lists are      *)
(* always empty, are left out. Parts are named by their frames.            *)
(***************************************************************************)
EXTENDS Naturals, FiniteSets

CONSTANTS
  IdleStates,   \* states in which the pile neither charges nor has charged
  CHARGING,     \* state 2: a charge is under way
  CHARGED,      \* state 3: it has ended, and the vehicle is still there
  Offline,      \* state 0
  Required,     \* the parts of a charging message
  Optional,     \* 0817 and 0818, which the mask does not wait for
  SocPart,      \* 0813, the part with the state of charge
  MaxCharges    \* bound: charges of the pile

ASSUME StatesAssumption ==
  /\ IdleStates # {}
  /\ CHARGING \notin IdleStates /\ CHARGED \notin IdleStates /\ CHARGED # CHARGING
  /\ Offline \notin IdleStates \union {CHARGING, CHARGED}
ASSUME PartsAssumption ==
  /\ SocPart \in Required
  /\ Required \intersect Optional = {}
  /\ {"0885", "startSoc"} \intersect (Required \union Optional) = {}
ASSUME BoundAssumption == MaxCharges \in Nat \ {0}

VARIABLES
  pileState,       \* the pile: its state
  plugged,         \* the pile: a vehicle is connected
  charge,          \* the pile: number of the charge, the last one or the one
                   \* under way
  chargerState,    \* the state heard last, or Offline
  connectorState,  \* what was heard of the plug
  value,           \* per part: the charge it is from, 0 if cleared
  m_dStartSoc,     \* the charge the start SoC is from, 0 if it is not set
  mRecv,           \* frames received since the last charging message
  missing,         \* history: required parts that were clear in the last
                   \* charging message
  idleHeard,       \* history: the last charge after which a state other than
                   \* CHARGING and CHARGED was heard
  late             \* history: what was received of such charges since

pileVars == <<pileState, plugged, charge>>
vars == <<pileVars, chargerState, connectorState, value, m_dStartSoc, mRecv,
          missing, idleHeard, late>>

BusyStates == {CHARGING, CHARGED}
States == IdleStates \union BusyStates
Parts == Required \union Optional
Cleared == [p \in Parts |-> 0]

-----------------------------------------------------------------------------
(* The pile *)

\* A change to CHARGING, from CHARGED too, is the beginning of a charge.
PileChanges(s) ==
  /\ s # pileState
  /\ pileState' = s
  /\ IF s = CHARGING
     THEN charge < MaxCharges /\ charge' = charge + 1
     ELSE UNCHANGED charge
  /\ UNCHANGED <<plugged, chargerState, connectorState, value, m_dStartSoc,
                 mRecv, missing, idleHeard, late>>

PlugMoves ==
  /\ plugged' = ~plugged
  /\ UNCHANGED <<pileState, charge, chargerState, connectorState, value,
                 m_dStartSoc, mRecv, missing, idleHeard, late>>

-----------------------------------------------------------------------------
(* The gateway *)

ResetParamDefect ==
  /\ value' = Cleared
  /\ m_dStartSoc' = 0
  /\ UNCHANGED mRecv

\* resetParam: the measurements and the mask are cleared.
ResetParam ==
  /\ value' = Cleared
  /\ m_dStartSoc' = 0
  /\ mRecv' = {}

SendIfCompleteDefect(received) == mRecv' = received /\ UNCHANGED missing

\* packChargingMsg: the charging message has the measurements there are; these
\* are the required ones that are clear in it.
PackChargingMsg == {p \in Required : value'[p] = 0}

\* The end of decodeCanMsg: the charging message goes out when it is complete.
SendIfComplete(received) ==
  IF Required \union {"0885"} \subseteq received
  THEN mRecv' = {} /\ missing' = PackChargingMsg
  ELSE mRecv' = received /\ UNCHANGED missing

\* bSocSet: the first state of charge above zero is the start SoC.
StartSoc(p, c) ==
  IF p = SocPart /\ m_dStartSoc = 0
  THEN m_dStartSoc' \in {0, c}
  ELSE UNCHANGED m_dStartSoc

\* A data frame of charge c. No state of the connector is looked at.
DataFrame(p, c) ==
  /\ value' = [value EXCEPT ![p] = c]
  /\ StartSoc(p, c)
  /\ SendIfComplete(mRecv \union {p})
  /\ late' = LET set == {p} \union (IF m_dStartSoc' # m_dStartSoc THEN {"startSoc"} ELSE {})
             IN IF c <= idleHeard THEN late \union set ELSE late \ set
  /\ UNCHANGED <<pileVars, chargerState, connectorState, idleHeard>>

\* The heartbeat differs from what was heard before.
Changed == pileState # chargerState \/ plugged # connectorState

\* handleHeartBeatMsg when nothing has changed.
HeartbeatSame ==
  /\ ~Changed
  /\ UNCHANGED <<value, m_dStartSoc>>
  /\ SendIfComplete(mRecv \union {"0885"})
  /\ UNCHANGED <<pileVars, chargerState, connectorState, idleHeard, late>>

KeepsDataDefect == pileState \in BusyStates \/ chargerState \in BusyStates

\* A change to CHARGING or CHARGED clears nothing.
KeepsData == pileState \in BusyStates

\* handleHeartBeatMsg when the state or the plug has changed: the platform is
\* told, which MqSession has, and the measurements are cleared unless the state
\* is one of these two.
HeartbeatChanged ==
  /\ Changed
  /\ chargerState' = pileState
  /\ connectorState' = plugged
  /\ IF KeepsData
     THEN /\ UNCHANGED <<value, m_dStartSoc>>
          /\ SendIfComplete(mRecv \union {"0885"})
     ELSE ResetParam /\ UNCHANGED missing
  /\ IF pileState \in BusyStates
     THEN UNCHANGED <<idleHeard, late>>
     ELSE idleHeard' = charge /\ late' = {}
  /\ UNCHANGED pileVars

\* setOfflineState: the pile was not heard for 30 ticks. Nobody is told.
SetOfflineState ==
  /\ chargerState # Offline
  /\ chargerState' = Offline
  /\ UNCHANGED <<pileVars, connectorState, value, m_dStartSoc, mRecv,
                 missing, idleHeard, late>>

\* A restart of the gateway. The constructor clears everything.
Restart ==
  /\ chargerState' = Offline
  /\ connectorState' = FALSE
  /\ value' = Cleared
  /\ m_dStartSoc' = 0
  /\ mRecv' = {}
  /\ late' = {}
  /\ UNCHANGED <<pileVars, missing, idleHeard>>

Init ==
  /\ pileState \in States
  /\ plugged \in BOOLEAN
  /\ charge = 1
  /\ chargerState = Offline
  /\ connectorState = FALSE
  /\ value = Cleared
  /\ m_dStartSoc = 0
  /\ mRecv = {}
  /\ missing = {}
  /\ idleHeard = 0
  /\ late = {}

Next ==
  \/ \E s \in States : PileChanges(s)
  \/ PlugMoves
  \/ \E p \in Parts, c \in 1 .. charge : DataFrame(p, c)
  \/ HeartbeatSame
  \/ HeartbeatChanged
  \/ SetOfflineState
  \/ Restart

Spec == Init /\ [][Next]_vars

-----------------------------------------------------------------------------
(* Properties *)

\* Every variable keeps its type; the mask is never complete between frames,
\* and no measurement is of a charge that has not begun.
TypeOK ==
  /\ pileState \in States
  /\ plugged \in BOOLEAN
  /\ charge \in 1 .. MaxCharges
  /\ chargerState \in States \union {Offline}
  /\ connectorState \in BOOLEAN
  /\ value \in [Parts -> 0 .. charge]
  /\ m_dStartSoc \in 0 .. charge
  /\ mRecv \in SUBSET (Parts \union {"0885"})
  /\ ~(Required \union {"0885"} \subseteq mRecv)
  /\ missing \in SUBSET Required
  /\ idleHeard \in 0 .. charge
  /\ late \in SUBSET (Parts \union {"startSoc"})

\* Once the gateway has heard, after a charge, a state other than CHARGING and
\* CHARGED, nothing it had of the charge reaches a later message or order, the
\* start SoC included, even if the pile was off line in between: what is left
\* of it came after that in a late frame. (If CHARGED is all that is heard
\* everything stays, and the next charging message and order mix the charges.)
IdleHeardForgotten ==
  /\ \A p \in Parts : value[p] # 0 => value[p] > idleHeard \/ p \in late
  /\ m_dStartSoc # 0 => m_dStartSoc > idleHeard \/ "startSoc" \in late

\* The mask and the measurements never disagree: no charging message goes out
\* with a required part that was cleared after it was received.
WholeMessage == missing = {}

-----------------------------------------------------------------------------
(* What does not hold *)

\* The connector never takes the start SoC of an earlier charge for the one
\* of the charge it hears is under way. (CHARGED clears nothing.)
OwnStartSoc == m_dStartSoc # 0 /\ chargerState = CHARGING => m_dStartSoc = charge
=============================================================================
