--------------------------- MODULE MqSession_proofs ---------------------------
(***************************************************************************)
(* Proofs about MqSession, for any piles, brokers and queues, and for any  *)
(* number of requests, refusals, broken connections and restarts.          *)
(*                                                                         *)
(* The one addition that makes the invariants inductive is about the       *)
(* moment between a new client and its connection: only a client that a    *)
(* registration answer put in place begins while m_bOnline is set.         *)
(***************************************************************************)
EXTENDS MqSession, TLAPS

\* A client that connects was made by a registration answer or begins off line.
ConnectsOffline == link = "connecting" /\ m_bOnline => replaced

IInv ==
  /\ TypeOK
  /\ StatusResent
  /\ StaleOnlyIfReplaced
  /\ NobodyForgotten
  /\ ConnectsOffline

-----------------------------------------------------------------------------
\* The initial states satisfy the inductive invariant.
LEMMA InitInv == Init => IInv
<1>. SUFFICES ASSUME Init
              PROVE  IInv
  OBVIOUS
<1>1. requests \in [Piles -> Nat]
  BY BoundAssumption DEF Init
<1>2. /\ 0 \in 0 .. LostLimit
      /\ chargerState \in [Connectors -> States \union {Offline}]
      /\ known \in [Connectors -> States \union {Offline}]
  BY BoundAssumption DEF Init
<1>3. m_bConnected = FALSE /\ replaced = FALSE /\ m_bOnline = FALSE /\ regTimer = TRUE
  BY DEF Init
<1>4. {m_bConnected, replaced, m_bOnline, regTimer} \subseteq BOOLEAN
  BY <1>3
<1>5. m_dLostCounts \in 0 .. LostLimit /\ stage \in [Queues \union Answers -> 0 .. 3]
  BY <1>2 DEF Init
<1>6. TypeOK
  <2>1. link \in {"connecting", "up", "broken"} /\ {info, settings, broker} \subseteq Brokers
    BY DEF Init
  <2>2. rejects \in Nat /\ breaks \in Nat /\ restarts \in Nat
    BY DEF Init
  <2>3. {m_bIsReg, rejectedLate, m_bSyncTime, asked} \subseteq SUBSET Piles
    BY DEF Init
  <2>. QED  BY <1>1, <1>2, <1>4, <1>5, <2>1, <2>2, <2>3 DEF TypeOK
<1>. QED
  BY <1>3, <1>6
  DEF Init, IInv, StatusResent, Published, StaleOnlyIfReplaced, NobodyForgotten,
      ConnectsOffline

\* What a new client with settings of the gateway is like.
LEMMA NewClientFacts ==
  ASSUME NEW b \in Brokers, NewClient(b)
  PROVE  /\ broker' = b /\ broker' \in Brokers /\ link' = "connecting"
         /\ stage' \in [Queues \union Answers -> 0 .. 3]
         /\ m_bConnected' = FALSE /\ m_dLostCounts' = 0 /\ m_dLostCounts' \in 0 .. LostLimit
<1>1. 0 \in 0 .. LostLimit /\ 0 \in 0 .. 3
  BY BoundAssumption
<1>. QED  BY <1>1 DEF NewClient

\* The connection, the queues and the status of the connectors.
LEMMA ConnectionInv ==
  ASSUME IInv,
         \/ ClientConnected
         \/ ConnectionBroken
         \/ \E q \in Queues : ExchangeDeclared(q) \/ QueueDeclared(q) \/ QueueBound(q)
         \/ \E e \in Answers : AnswerExchangeDeclared(e)
         \/ HeartbeatReceived
         \/ \E c \in Connectors, state \in States : StatusChanges(c, state)
         \/ \E c \in Connectors : SetOfflineState(c)
  PROVE  IInv'
<1>. USE BoundAssumption DEF statusVars
<1>a. TypeOK /\ StatusResent /\ StaleOnlyIfReplaced /\ NobodyForgotten /\ ConnectsOffline
  BY DEF IInv
<1>1. CASE ClientConnected
  <2>1. m_bConnected' \in BOOLEAN /\ m_dLostCounts' \in 0 .. LostLimit
    BY <1>1 DEF ClientConnected
  <2>2. TypeOK'
    BY <1>1, <1>a, <2>1 DEF ClientConnected, TypeOK, regVars, syncVars, countVars
  <2>. QED
    BY <1>1, <1>a, <2>2 DEF ClientConnected, IInv, StatusResent, Published,
       StaleOnlyIfReplaced, NobodyForgotten, ConnectsOffline, regVars
<1>2. CASE ConnectionBroken
  <2>1. m_bConnected' \in BOOLEAN
    BY <1>2 DEF ConnectionBroken
  <2>2. TypeOK'
    BY <1>2, <1>a, <2>1 DEF ConnectionBroken, TypeOK, regVars, syncVars
  <2>. QED
    BY <1>2, <1>a, <2>2 DEF ConnectionBroken, IInv, StatusResent, Published,
       StaleOnlyIfReplaced, NobodyForgotten, ConnectsOffline, regVars
<1>3. ASSUME NEW q \in Queues \union Answers, NEW n \in 0 .. 2, Advances(q, n)
      PROVE  IInv'
  <2>1. stage' \in [Queues \union Answers -> 0 .. 3]
    BY <1>3, <1>a DEF Advances, TypeOK
  <2>2. TypeOK'
    BY <1>3, <1>a, <2>1 DEF Advances, TypeOK, regVars, syncVars, countVars
  <2>. QED
    BY <1>3, <1>a, <2>2 DEF Advances, IInv, StatusResent, Published,
       StaleOnlyIfReplaced, NobodyForgotten, ConnectsOffline, regVars
<1>4. CASE HeartbeatReceived
  <2>1. /\ chargerState' = chargerState
        /\ known' \in [Connectors -> States \union {Offline}]
        /\ known' = known \/ known' = chargerState
    BY <1>4, <1>a DEF HeartbeatReceived, TypeOK
  <2>2. asked' \in SUBSET Piles
    BY <1>4, <1>a DEF HeartbeatReceived, Unsynced, TypeOK
  <2>3. m_bOnline' \in BOOLEAN /\ m_dLostCounts' \in 0 .. LostLimit
    BY <1>4 DEF HeartbeatReceived
  <2>4. TypeOK'
    BY <1>4, <1>a, <2>1, <2>2, <2>3 DEF HeartbeatReceived, TypeOK, regVars, countVars
  <2>. QED
    BY <1>4, <1>a, <2>4 DEF HeartbeatReceived, IInv, StatusResent, Published,
       StaleOnlyIfReplaced, NobodyForgotten, ConnectsOffline, regVars
<1>5. ASSUME NEW c \in Connectors, NEW state \in States, StatusChanges(c, state)
      PROVE  IInv'
  <2>1. /\ chargerState' = [chargerState EXCEPT ![c] = state]
        /\ known' = IF Published THEN [known EXCEPT ![c] = state] ELSE known
        /\ UNCHANGED <<info, settings, clientVars, m_bOnline, regVars, syncVars, countVars>>
    BY <1>5 DEF StatusChanges
  <2>2. /\ chargerState' \in [Connectors -> States \union {Offline}]
        /\ known' \in [Connectors -> States \union {Offline}]
    BY <1>a, <2>1 DEF TypeOK
  <2>3. TypeOK'
    BY <1>a, <2>1, <2>2 DEF TypeOK, clientVars, regVars, syncVars, countVars
  <2>4. StatusResent'
    <3>1. (Published <=> Published') /\ m_bOnline' = m_bOnline /\ replaced' = replaced
      BY <2>1 DEF Published, clientVars
    <3>2. ASSUME Published, m_bOnline, ~replaced, NEW d \in Connectors
          PROVE  chargerState'[d] \in {known'[d], Offline}
      BY <1>a, <2>1, <3>2 DEF StatusResent, TypeOK
    <3>. QED  BY <3>1, <3>2 DEF StatusResent
  <2>. QED
    BY <1>a, <2>1, <2>3, <2>4 DEF IInv, StaleOnlyIfReplaced, NobodyForgotten,
       ConnectsOffline, clientVars, regVars
<1>8. ASSUME NEW c \in Connectors, SetOfflineState(c)
      PROVE  IInv'
  <2>1. /\ chargerState' = [chargerState EXCEPT ![c] = Offline]
        /\ UNCHANGED <<info, settings, clientVars, m_bOnline, regVars, syncVars, known,
                       countVars>>
    BY <1>8 DEF SetOfflineState
  <2>2. chargerState' \in [Connectors -> States \union {Offline}]
    BY <1>a, <2>1 DEF TypeOK
  <2>3. TypeOK'
    BY <1>a, <2>1, <2>2 DEF TypeOK, clientVars, regVars, syncVars, countVars
  <2>4. StatusResent'
    <3>1. (Published <=> Published') /\ m_bOnline' = m_bOnline /\ replaced' = replaced
      BY <2>1 DEF Published, clientVars
    <3>2. ASSUME Published, m_bOnline, ~replaced, NEW d \in Connectors
          PROVE  chargerState'[d] \in {known'[d], Offline}
      BY <1>a, <2>1, <3>2 DEF StatusResent, TypeOK
    <3>. QED  BY <3>1, <3>2 DEF StatusResent
  <2>. QED
    BY <1>a, <2>1, <2>3, <2>4 DEF IInv, StaleOnlyIfReplaced, NobodyForgotten,
       ConnectsOffline, clientVars, regVars
<1>6. ASSUME NEW q \in Queues, ExchangeDeclared(q) \/ QueueDeclared(q) \/ QueueBound(q)
      PROVE  IInv'
  <2>1. \E n \in 0 .. 2 : Advances(q, n)
    BY <1>6 DEF ExchangeDeclared, QueueDeclared, QueueBound
  <2>. QED  BY <1>3, <2>1
<1>7. ASSUME NEW e \in Answers, AnswerExchangeDeclared(e)
      PROVE  IInv'
  <2>1. Advances(e, 0)
    BY <1>7 DEF AnswerExchangeDeclared
  <2>. QED  BY <1>3, <2>1
<1>. QED  BY <1>1, <1>2, <1>4, <1>5, <1>6, <1>7, <1>8

\* A second passes without a heartbeat, and perhaps the client is made anew.
LEMMA CountTimeoutInv ==
  ASSUME IInv, CountTimeout
  PROVE  IInv'
<1>. USE BoundAssumption DEF statusVars
<1>a. TypeOK /\ StatusResent /\ StaleOnlyIfReplaced /\ NobodyForgotten /\ ConnectsOffline
  BY DEF IInv
<1>b. UNCHANGED <<info, settings, regVars, syncVars, statusVars, countVars>>
  BY DEF CountTimeout
<1>1. CASE TimedOut
  <2>1. m_bOnline' = FALSE /\ NewClient(settings) /\ replaced' = FALSE
    BY <1>1 DEF CountTimeout, GoOffline, ResetMq
  <2>2. settings \in Brokers
    BY <1>a DEF TypeOK
  <2>3. /\ broker' = settings /\ link' = "connecting" /\ stage' \in [Queues \union Answers -> 0 .. 3]
        /\ m_bConnected' = FALSE /\ m_dLostCounts' \in 0 .. LostLimit
    BY <2>1, <2>2, NewClientFacts
  <2>4. m_bConnected' \in BOOLEAN /\ m_bOnline' \in BOOLEAN /\ replaced' \in BOOLEAN
    BY <2>1, <2>3
  <2>5. TypeOK'
    BY <1>a, <1>b, <2>2, <2>3, <2>4 DEF TypeOK, regVars, syncVars, countVars
  <2>. QED
    BY <1>a, <1>b, <2>1, <2>3, <2>5 DEF IInv, StatusResent, Published,
       StaleOnlyIfReplaced, NobodyForgotten, ConnectsOffline, regVars
<1>2. CASE ~TimedOut
  <2>1. /\ m_dLostCounts' \in 0 .. LostLimit
        /\ UNCHANGED <<m_bOnline, broker, link, stage, m_bConnected, replaced>>
    BY <1>2, <1>a DEF CountTimeout, TimedOut, TypeOK
  <2>2. TypeOK'
    BY <1>a, <1>b, <2>1 DEF TypeOK, regVars, syncVars, countVars
  <2>. QED
    BY <1>a, <1>b, <2>1, <2>2 DEF IInv, StatusResent, Published, StaleOnlyIfReplaced,
       NobodyForgotten, ConnectsOffline, regVars
<1>. QED  BY <1>1, <1>2

\* The clocks and the registration of pile p.
LEMMA PileInv ==
  ASSUME IInv, NEW p \in Piles,
         \/ TimeSynced(p)
         \/ TimeLost(p)
         \/ \E b \in Alive : Registered(p, b)
         \/ Rejected(p)
         \/ RequestLost(p)
  PROVE  IInv'
<1>. USE BoundAssumption DEF statusVars
<1>a. TypeOK /\ StatusResent /\ StaleOnlyIfReplaced /\ NobodyForgotten /\ ConnectsOffline
  BY DEF IInv
<1>1. CASE TimeSynced(p) \/ TimeLost(p)
  <2>1. /\ m_bSyncTime' \in SUBSET Piles /\ asked' \in SUBSET Piles
        /\ UNCHANGED <<info, settings, clientVars, m_bOnline, regVars, statusVars,
                       countVars>>
    BY <1>1, <1>a DEF TimeSynced, TimeLost, TypeOK
  <2>2. TypeOK'
    BY <1>a, <2>1 DEF TypeOK, clientVars, regVars, countVars
  <2>. QED
    BY <1>a, <2>1, <2>2 DEF IInv, StatusResent, Published, StaleOnlyIfReplaced,
       NobodyForgotten, ConnectsOffline, clientVars, regVars
<1>2. ASSUME Answered(p)
      PROVE  requests' \in [Piles -> Nat]
  BY <1>2, <1>a DEF Answered, TypeOK
<1>3. ASSUME NEW b \in Alive, Registered(p, b)
      PROVE  IInv'
  <2>1. /\ UseSettings(b)
        /\ m_bIsReg' = m_bIsReg \union {p} /\ rejectedLate' = rejectedLate \ {p}
        /\ UNCHANGED <<m_bOnline, regTimer, syncVars, statusVars, countVars>>
        /\ requests' \in [Piles -> Nat]
    BY <1>2, <1>3 DEF Registered
  <2>2. b \in Brokers /\ settings \in Brokers /\ settings' = b
    BY <1>a, <2>1, SetsAssumption DEF UseSettings, TypeOK
  <2>3. NobodyForgotten'
    BY <1>a, <2>1 DEF NobodyForgotten
  <2>4. CASE b = settings
    <3>1. UNCHANGED <<info, settings, clientVars>>
      BY <2>1, <2>2, <2>4 DEF UseSettings
    <3>2. TypeOK'
      BY <1>a, <2>1, <3>1 DEF TypeOK, clientVars, syncVars, countVars
    <3>. QED
      BY <1>a, <2>1, <2>3, <3>1, <3>2 DEF IInv, StatusResent, Published,
         StaleOnlyIfReplaced, ConnectsOffline, clientVars
  <2>5. CASE b # settings
    <3>1. info' = b /\ NewClient(settings) /\ replaced' = TRUE
      BY <2>1, <2>5 DEF UseSettings, UpdateMqInfo
    <3>2. /\ broker' \in Brokers /\ link' = "connecting" /\ stage' \in [Queues \union Answers -> 0 .. 3]
          /\ m_bConnected' = FALSE /\ m_dLostCounts' \in 0 .. LostLimit
      BY <2>2, <3>1, NewClientFacts
    <3>3. m_bConnected' \in BOOLEAN /\ replaced' \in BOOLEAN
      BY <3>1, <3>2
    <3>4. TypeOK'
      BY <1>a, <2>1, <2>2, <3>1, <3>2, <3>3 DEF TypeOK, syncVars, countVars
    <3>. QED
      BY <2>1, <2>2, <2>3, <3>1, <3>2, <3>4 DEF IInv, StatusResent, Published,
         StaleOnlyIfReplaced, ConnectsOffline
  <2>. QED  BY <2>4, <2>5
<1>4. CASE Rejected(p)
  <2>1. /\ m_bIsReg' = m_bIsReg \ {p}
        /\ rejectedLate' = IF regTimer THEN rejectedLate ELSE rejectedLate \union {p}
        /\ requests' \in [Piles -> Nat]
        /\ rejects' = rejects + 1
        /\ UNCHANGED <<info, settings, clientVars, m_bOnline, regTimer, syncVars,
                       statusVars, breaks, restarts>>
    BY <1>2, <1>4 DEF Rejected
  <2>2. NobodyForgotten'
    BY <1>a, <2>1 DEF NobodyForgotten
  <2>3. TypeOK'
    BY <1>a, <2>1 DEF TypeOK, clientVars, syncVars
  <2>. QED
    BY <1>a, <2>1, <2>2, <2>3 DEF IInv, StatusResent, Published, StaleOnlyIfReplaced,
       ConnectsOffline, clientVars
<1>5. CASE RequestLost(p)
  <2>1. /\ requests' \in [Piles -> Nat]
        /\ UNCHANGED <<info, settings, clientVars, m_bOnline, m_bIsReg, regTimer,
                       rejectedLate, syncVars, statusVars, countVars>>
    BY <1>2, <1>5 DEF RequestLost
  <2>2. TypeOK'
    BY <1>a, <2>1 DEF TypeOK, clientVars, syncVars, countVars
  <2>. QED
    BY <1>a, <2>1, <2>2 DEF IInv, StatusResent, Published, StaleOnlyIfReplaced,
       NobodyForgotten, ConnectsOffline, clientVars
<1>. QED  BY <1>1, <1>3, <1>4, <1>5

\* The registration timer expires.
LEMMA KeepRegTimeoutInv ==
  ASSUME IInv, KeepRegTimeout
  PROVE  IInv'
<1>. USE BoundAssumption DEF statusVars
<1>a. TypeOK /\ StatusResent /\ StaleOnlyIfReplaced /\ NobodyForgotten /\ ConnectsOffline
  BY DEF IInv
<1>1. /\ UNCHANGED <<info, settings, clientVars, m_bOnline, m_bIsReg, rejectedLate,
                     syncVars, statusVars, countVars>>
      /\ \/ AllRegistered /\ regTimer' = FALSE /\ UNCHANGED requests
         \/ requests' = RegisteSystem /\ regTimer' = regTimer
  BY DEF KeepRegTimeout
<1>2. RegisteSystem \in [Piles -> Nat]
  BY <1>a DEF RegisteSystem, TypeOK
<1>3. requests' \in [Piles -> Nat] /\ regTimer' \in BOOLEAN
  BY <1>1, <1>2, <1>a DEF TypeOK
<1>4. TypeOK'
  BY <1>1, <1>3, <1>a DEF TypeOK, clientVars, syncVars, countVars
<1>5. NobodyForgotten'
  BY <1>1, <1>a DEF NobodyForgotten, AllRegistered
<1>. QED
  BY <1>1, <1>4, <1>5, <1>a DEF IInv, StatusResent, Published, StaleOnlyIfReplaced,
     ConnectsOffline, clientVars

\* The gateway is restarted.
LEMMA RestartInv ==
  ASSUME IInv, Restart
  PROVE  IInv'
<1>. USE BoundAssumption DEF statusVars
<1>a. TypeOK
  BY DEF IInv
<1>1. /\ m_bOnline' = FALSE /\ settings' = info /\ NewClient(info) /\ replaced' = FALSE
      /\ m_bIsReg' = {} /\ regTimer' = TRUE /\ rejectedLate' = {}
      /\ requests' = [p \in Piles |-> IF MaxRequests[p] > 0 THEN 1 ELSE 0]
      /\ m_bSyncTime' = {} /\ asked' = {} /\ restarts' = restarts + 1
      /\ chargerState' = [c \in Connectors |-> Offline]
      /\ UNCHANGED <<info, known, rejects, breaks>>
  BY DEF Restart, StartUp
<1>2. info \in Brokers
  BY <1>a DEF TypeOK
<1>3. /\ broker' = info /\ link' = "connecting" /\ stage' \in [Queues \union Answers -> 0 .. 3]
      /\ m_bConnected' = FALSE /\ m_dLostCounts' \in 0 .. LostLimit
  BY <1>1, <1>2, NewClientFacts
<1>4. {m_bConnected', m_bOnline', replaced', regTimer'} \subseteq BOOLEAN
  BY <1>1, <1>3
<1>5. requests' \in [Piles -> Nat]
  BY <1>1
<1>6. TypeOK'
  BY <1>1, <1>2, <1>3, <1>4, <1>5, <1>a DEF TypeOK
<1>. QED
  BY <1>1, <1>3, <1>6 DEF IInv, StatusResent, Published, StaleOnlyIfReplaced,
     NobodyForgotten, ConnectsOffline

\* A step that changes nothing keeps the invariant.
LEMMA StutterInv ==
  ASSUME IInv, UNCHANGED vars
  PROVE  IInv'
BY DEF vars, clientVars, regVars, syncVars, countVars, statusVars, IInv, TypeOK, StatusResent,
       Published, StaleOnlyIfReplaced, NobodyForgotten, ConnectsOffline

-----------------------------------------------------------------------------
\* The inductive invariant holds always.
THEOREM Inductive == Spec => []IInv
<1>1. IInv /\ [Next]_vars => IInv'
  BY ConnectionInv, CountTimeoutInv, PileInv, KeepRegTimeoutInv, RestartInv, StutterInv
  DEF Next
<1>. QED  BY InitInv, <1>1, PTL DEF Spec

\* The client, the registrations and the clocks keep their types.
THEOREM TypeCorrect == Spec => []TypeOK
<1>1. IInv => TypeOK
  BY DEF IInv
<1>. QED  BY Inductive, <1>1, PTL

\* Whenever the gateway believes to be on line the platform has the state of
\* every connector, but for those that are off line, of which setOfflineState
\* tells nobody, and unless a registration answer has replaced the client
\* (heartbeat_Msg_received, countTimeout, handleHeartBeatMsg).
THEOREM StatusIsResent == Spec => []StatusResent
<1>1. IInv => StatusResent
  BY DEF IInv
<1>. QED  BY Inductive, <1>1, PTL

\* The client uses the settings of the table, with the same exception
\* (updateMQConnectionInfo, resetMq, CRegHttp).
THEOREM StaleClientIsReplaced == Spec => []StaleOnlyIfReplaced
<1>1. IInv => StaleOnlyIfReplaced
  BY DEF IInv
<1>. QED  BY Inductive, <1>1, PTL

\* Once the registration timer is stopped every pile is registered or was
\* refused afterwards (keepRegTimeout).
THEOREM NobodyIsForgotten == Spec => []NobodyForgotten
<1>1. IInv => NobodyForgotten
  BY DEF IInv
<1>. QED  BY Inductive, <1>1, PTL
=============================================================================
