------------------------------ MODULE MqSession ------------------------------
(***************************************************************************)
(* The gateway's session with the platform's message queue (CRabbitMQ and  *)
(* the client part of CManage), the registration of the piles that says    *)
(* which broker to use (CRegHttp, keepRegTimeout), and what depends on the *)
(* session: the on-line flag of CConnectorManager, the status messages it  *)
(* sends again, and the clocks of the piles.                               *)
(*                                                                         *)
(* Everything runs on the event loop. The platform is the environment: it  *)
(* answers registrations late, never, or with a refusal, moves to another  *)
(* broker, and publishes heartbeats on every broker that is alive; a       *)
(* connection can break at any moment.                                     *)
(*                                                                         *)
(* Abstractions. The settings (address, port, user, password) of a broker  *)
(* are the broker. Of the status of a connector only its state is here,    *)
(* and of what the platform knows only what the queue has told it. The     *)
(* seconds of m_dLostCounts are counted as in the code, with a parameter   *)
(* for the limit. Commands and their answers belong to Booking, Payment    *)
(* and OrderReport; here only the set-up of the queues they come from.     *)
(***************************************************************************)
EXTENDS Naturals

CONSTANTS
  Piles,        \* the piles of the station
  Connectors,   \* the connectors of the piles
  States,       \* the states a pile reports
  Offline,      \* state 0, of a connector that is not heard
  Brokers,      \* message queue settings
  Alive,        \* the brokers on which the platform publishes
  Queues,       \* the queues of commands and heartbeats
  HeartQueue,   \* the queue of heartbeats, "hbEx"
  Answers,      \* the exchanges of answers and of status
  LostLimit,    \* seconds without a heartbeat until a reset (60 in the code)
  MaxRequests,  \* bound: per pile, registration requests under way
  MaxRejects,   \* bound: refused registrations
  MaxBreaks,    \* bound: broken connections
  MaxRestarts   \* bound: restarts of the gateway

ASSUME SetsAssumption ==
  /\ Alive \subseteq Brokers
  /\ Alive # {}
  /\ HeartQueue \in Queues
  /\ Queues \intersect Answers = {}
  /\ Offline \notin States
ASSUME BoundAssumption ==
  /\ LostLimit \in Nat
  /\ MaxRequests \in [Piles -> Nat]
  /\ MaxRejects \in Nat
  /\ MaxBreaks \in Nat
  /\ MaxRestarts \in Nat

VARIABLES
  info,           \* the table "info": the settings of the queue
  settings,       \* CApp: the settings of the queue
  broker,         \* the client: whom it connects to
  link,           \* the client's connection: "connecting", "up" or "broken"
  stage,          \* how far each queue is: 0, 1 (exchange), 2 (queue),
                  \* 3 (bound, messages are received)
  m_bConnected,   \* CRabbitMQ: messages are published
  m_dLostCounts,  \* CRabbitMQ: seconds since the last heartbeat
  m_bOnline,      \* CConnectorManager: the platform was heard
  m_bIsReg,       \* the piles that are registered
  regTimer,       \* m_regTimer runs
  requests,       \* registration requests under way, per pile
  m_bSyncTime,    \* the piles whose clock is set
  asked,          \* the piles that were sent the time and may answer
  chargerState,   \* CConnectorStatus: the state of each connector
  known,          \* the states the platform was sent last
  replaced,       \* history: a registration replaced the present client
  rejectedLate,   \* history: piles refused after the timer was stopped
  rejects, breaks, restarts  \* counters of the bounds

clientVars == <<broker, link, stage, m_bConnected, m_dLostCounts, replaced>>
regVars    == <<m_bIsReg, regTimer, requests, rejectedLate>>
syncVars   == <<m_bSyncTime, asked>>
countVars  == <<rejects, breaks, restarts>>
statusVars == <<chargerState, known>>
vars == <<info, settings, clientVars, m_bOnline, regVars, syncVars, statusVars,
          countVars>>

-----------------------------------------------------------------------------
(* The client *)

NewClientDefect(b) ==
  /\ broker' = b
  /\ UNCHANGED link
  /\ stage' = [q \in Queues \union Answers |-> 0]
  /\ m_bConnected' = FALSE
  /\ m_dLostCounts' = 0

\* A new CRabbitMQ, started with settings b.
NewClient(b) ==
  /\ broker' = b
  /\ link' = "connecting"
  /\ stage' = [q \in Queues \union Answers |-> 0]
  /\ m_bConnected' = FALSE
  /\ m_dLostCounts' = 0

\* connected(): the exchanges are declared.
ClientConnected ==
  /\ link = "connecting"
  /\ broker \in Alive
  /\ link' = "up"
  /\ m_bConnected' = TRUE
  /\ m_dLostCounts' = 0
  /\ UNCHANGED <<info, settings, broker, stage, replaced, m_bOnline, regVars,
                 syncVars, statusVars, countVars>>

\* disconnected() or an error of the socket. Nothing reconnects at once.
ConnectionBroken ==
  /\ link # "broken"
  /\ breaks < MaxBreaks
  /\ breaks' = breaks + 1
  /\ link' = "broken"
  /\ m_bConnected' = FALSE
  /\ UNCHANGED <<info, settings, broker, stage, m_dLostCounts, replaced,
                 m_bOnline, regVars, syncVars, statusVars, rejects, restarts>>

\* One slot of queue q, which is at stage n.
Advances(q, n) ==
  /\ link = "up"
  /\ stage[q] = n
  /\ stage' = [stage EXCEPT ![q] = n + 1]
  /\ UNCHANGED <<info, settings, broker, link, m_bConnected, m_dLostCounts,
                 replaced, m_bOnline, regVars, syncVars, statusVars, countVars>>

\* declared() of an exchange, declared() of its queue, and bound(), after which
\* messages are received.
ExchangeDeclared(q) == Advances(q, 0)
QueueDeclared(q) == Advances(q, 1)
QueueBound(q) == Advances(q, 2)

\* The queue of an answer is made but never declared: its stage stays 1, and
\* what the gateway publishes goes to queues others have bound.
AnswerExchangeDeclared(e) == Advances(e, 0)

GoOfflineDefect == UNCHANGED m_bOnline

\* setBOnline(false): the platform is not heard any more.
GoOffline == m_bOnline' = FALSE

\* The platform was not heard for the whole limit.
TimedOut == m_dLostCounts >= LostLimit

ResetMqDefect == NewClient(broker)

\* resetMq: a client with the settings CApp has now.
ResetMq == NewClient(settings)

\* countTimeout: one second, whatever state the connection is in; after the
\* limit the client is made anew.
CountTimeout ==
  /\ IF TimedOut
     THEN GoOffline /\ ResetMq /\ replaced' = FALSE
     ELSE /\ m_dLostCounts' = m_dLostCounts + 1
          /\ UNCHANGED <<m_bOnline, broker, link, stage, m_bConnected, replaced>>
  /\ UNCHANGED <<info, settings, regVars, syncVars, statusVars, countVars>>

\* sendStatusMsg: dropped unless the client is connected.
Published == link = "up" /\ m_bConnected

UnsyncedDefect == IF m_bOnline THEN {} ELSE Piles \ m_bSyncTime

\* syncChargerTime: the piles that are sent the time.
Unsynced == Piles \ m_bSyncTime

\* heartbeat_Msg_received: the piles without a clock are sent the time, and
\* all status is sent if the platform was not heard before.
HeartbeatReceived ==
  /\ Published
  /\ stage[HeartQueue] = 3
  /\ m_dLostCounts' = 0
  /\ asked' = asked \union Unsynced
  /\ known' = IF m_bOnline THEN known ELSE chargerState
  /\ m_bOnline' = TRUE
  /\ UNCHANGED <<info, settings, broker, link, stage, m_bConnected, replaced,
                 regVars, m_bSyncTime, chargerState, countVars>>

\* handleHeartBeatMsg: the state of connector c changes, and is sent.
StatusChanges(c, state) ==
  /\ state # chargerState[c]
  /\ chargerState' = [chargerState EXCEPT ![c] = state]
  /\ known' = IF Published THEN [known EXCEPT ![c] = state] ELSE known
  /\ UNCHANGED <<info, settings, clientVars, m_bOnline, regVars, syncVars, countVars>>

\* updateCounts and setOfflineState: connector c was not heard for 30 ticks.
\* Nothing is sent.
SetOfflineState(c) ==
  /\ chargerState[c] # Offline
  /\ chargerState' = [chargerState EXCEPT ![c] = Offline]
  /\ UNCHANGED <<info, settings, clientVars, m_bOnline, regVars, syncVars, known,
                 countVars>>

\* 0x0880: the pile has set its clock.
TimeSynced(p) ==
  /\ p \in asked
  /\ m_bSyncTime' = m_bSyncTime \union {p}
  /\ asked' = asked \ {p}
  /\ UNCHANGED <<info, settings, clientVars, m_bOnline, regVars, statusVars,
                 countVars>>

\* The frame with the time, or its answer, gets lost.
TimeLost(p) ==
  /\ p \in asked
  /\ asked' = asked \ {p}
  /\ UNCHANGED <<info, settings, clientVars, m_bOnline, regVars, m_bSyncTime,
                 statusVars, countVars>>

-----------------------------------------------------------------------------
(* Registration *)

AllRegisteredDefect == m_bIsReg # {}

\* getRegisteStatus
AllRegistered == Piles \subseteq m_bIsReg

\* registeSystem: a request for every pile that is not registered.
RegisteSystem ==
  [p \in Piles |-> IF p \in m_bIsReg \/ requests[p] = MaxRequests[p]
                   THEN requests[p] ELSE requests[p] + 1]

\* keepRegTimeout: the timer is stopped for good when all are registered.
KeepRegTimeout ==
  /\ regTimer
  /\ IF AllRegistered
     THEN regTimer' = FALSE /\ UNCHANGED requests
     ELSE requests' = RegisteSystem /\ UNCHANGED regTimer
  /\ UNCHANGED <<info, settings, clientVars, m_bOnline, m_bIsReg, rejectedLate,
                 syncVars, statusVars, countVars>>

\* updateMqInfo: the settings in the table.
UpdateMqInfo(b) == info' = b

\* updateMQConnectionInfo, and the lines after it: if the settings differ the
\* client is made anew, with the settings of before, which are stored next.
UseSettings(b) ==
  /\ IF b = settings
     THEN UNCHANGED <<info, clientVars>>
     ELSE UpdateMqInfo(b) /\ NewClient(settings) /\ replaced' = TRUE
  /\ settings' = b

\* The answer to a request takes it away.
Answered(p) ==
  /\ requests[p] > 0
  /\ requests' = [requests EXCEPT ![p] = @ - 1]

\* Status 200, with the settings of a broker.
Registered(p, b) ==
  /\ Answered(p)
  /\ UseSettings(b)
  /\ m_bIsReg' = m_bIsReg \union {p}
  /\ rejectedLate' = rejectedLate \ {p}
  /\ UNCHANGED <<m_bOnline, regTimer, syncVars, statusVars, countVars>>

\* Any other status, for a pile that may have been registered since.
Rejected(p) ==
  /\ Answered(p)
  /\ rejects < MaxRejects
  /\ rejects' = rejects + 1
  /\ m_bIsReg' = m_bIsReg \ {p}
  /\ rejectedLate' = IF regTimer THEN rejectedLate ELSE rejectedLate \union {p}
  /\ UNCHANGED <<info, settings, clientVars, m_bOnline, regTimer, syncVars,
                 statusVars, breaks, restarts>>

\* An empty answer, or none within 10 s.
RequestLost(p) ==
  /\ Answered(p)
  /\ UNCHANGED <<info, settings, clientVars, m_bOnline, m_bIsReg, regTimer,
                 rejectedLate, syncVars, statusVars, countVars>>

-----------------------------------------------------------------------------
\* getInstance: settings from the table, a client, and the first requests.
\* isReg in the table never changes; here no pile has it set.
StartUp ==
  /\ m_bOnline' = FALSE
  /\ settings' = info
  /\ NewClient(info)
  /\ replaced' = FALSE
  /\ m_bIsReg' = {}
  /\ regTimer' = TRUE
  /\ requests' = [p \in Piles |-> IF MaxRequests[p] > 0 THEN 1 ELSE 0]
  /\ rejectedLate' = {}
  /\ m_bSyncTime' = {}
  /\ asked' = {}
  /\ chargerState' = [c \in Connectors |-> Offline]

Restart ==
  /\ restarts < MaxRestarts
  /\ restarts' = restarts + 1
  /\ StartUp
  /\ UNCHANGED <<info, known, rejects, breaks>>

Init ==
  /\ info \in Brokers
  /\ settings = info
  /\ broker = info
  /\ link = "connecting"
  /\ stage = [q \in Queues \union Answers |-> 0]
  /\ m_bConnected = FALSE
  /\ m_dLostCounts = 0
  /\ replaced = FALSE
  /\ m_bOnline = FALSE
  /\ m_bIsReg = {}
  /\ regTimer = TRUE
  /\ requests = [p \in Piles |-> IF MaxRequests[p] > 0 THEN 1 ELSE 0]
  /\ rejectedLate = {}
  /\ m_bSyncTime = {}
  /\ asked = {}
  /\ chargerState = [c \in Connectors |-> Offline]
  /\ known = chargerState
  /\ rejects = 0
  /\ breaks = 0
  /\ restarts = 0

Next ==
  \/ ClientConnected
  \/ ConnectionBroken
  \/ \E q \in Queues : ExchangeDeclared(q) \/ QueueDeclared(q) \/ QueueBound(q)
  \/ \E e \in Answers : AnswerExchangeDeclared(e)
  \/ CountTimeout
  \/ HeartbeatReceived
  \/ \E c \in Connectors :
       \/ \E state \in States : StatusChanges(c, state)
       \/ SetOfflineState(c)
  \/ \E p \in Piles :
       \/ TimeSynced(p)
       \/ TimeLost(p)
       \/ \E b \in Alive : Registered(p, b)
       \/ Rejected(p)
       \/ RequestLost(p)
  \/ KeepRegTimeout
  \/ Restart

Spec == Init /\ [][Next]_vars

\* What the platform owes the gateway: a client that is made for a broker that
\* is alive, again and again, hears a heartbeat before its reset at some time.
PlatformHeard ==
  []<>(link = "connecting" /\ broker \in Alive) => []<><<HeartbeatReceived>>_vars

\* Timers expire, the platform accepts a pile that asks again and again, and a
\* pile that is sent the time again and again sets its clock.
FairSpec ==
  /\ Spec
  /\ WF_vars(CountTimeout)
  /\ WF_vars(KeepRegTimeout)
  /\ \A p \in Piles :
       SF_vars(TimeSynced(p)) /\ SF_vars(\E b \in Alive : Registered(p, b))
  /\ PlatformHeard

-----------------------------------------------------------------------------
(* Properties *)

\* Every variable keeps its type.
TypeOK ==
  /\ {info, settings, broker} \subseteq Brokers
  /\ link \in {"connecting", "up", "broken"}
  /\ stage \in [Queues \union Answers -> 0 .. 3]
  /\ m_bConnected \in BOOLEAN
  /\ m_dLostCounts \in 0 .. LostLimit
  /\ replaced \in BOOLEAN
  /\ m_bOnline \in BOOLEAN
  /\ m_bIsReg \in SUBSET Piles
  /\ regTimer \in BOOLEAN
  /\ requests \in [Piles -> Nat]
  /\ rejectedLate \in SUBSET Piles
  /\ m_bSyncTime \in SUBSET Piles
  /\ asked \in SUBSET Piles
  /\ chargerState \in [Connectors -> States \union {Offline}]
  /\ known \in [Connectors -> States \union {Offline}]
  /\ rejects \in Nat
  /\ breaks \in Nat
  /\ restarts \in Nat

\* A change of state that was dropped is sent again as soon as the platform is
\* heard: while messages are published and the gateway believes to be on line
\* the platform has the state of every connector. There are two exceptions: a
\* client that a registration answer has put in the place of another, because
\* that leaves m_bOnline set, and a connector that is off line, because
\* setOfflineState sends nothing.
StatusResent ==
  Published /\ m_bOnline /\ ~replaced =>
    \A c \in Connectors : chargerState[c] \in {known[c], Offline}

\* Unless a registration answer has replaced the client, which is done with the
\* settings of before, the client uses the settings of the table: whichever of
\* a reset, an answer and a restart came last, what the platform named last is
\* what the next reset and the next restart connect to.
StaleOnlyIfReplaced ==
  /\ settings = info
  /\ broker # settings => replaced

\* When the registration timer has been stopped, every pile is registered,
\* but for those an answer refused that came after the timer was stopped.
NobodyForgotten == ~regTimer => Piles \subseteq m_bIsReg \union rejectedLate

\* The platform is heard again and again: no broken connection, no client
\* that was made with the settings of a dead broker and no restart leaves the
\* gateway off line for ever.
BackOnline == []<>(Published /\ m_bOnline)

\* The clock of every pile is set in the end, although frames get lost.
ClocksSet == <>[](Piles \subseteq m_bSyncTime)

-----------------------------------------------------------------------------
(* What does not hold *)

\* The platform is told that a connector is off line. (It can only see it in
\* the lists it asks for, see Presence.)
OfflineTold == Published /\ m_bOnline /\ ~replaced => known = chargerState
=============================================================================
