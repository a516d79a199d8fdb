------------------------- MODULE OrderReport_proofs -------------------------
(***************************************************************************)
(* Proofs about the order of a connector, for every number of VIN and bill *)
(* frames, times, charges, timers and restarts. The first part is about    *)
(* ChargeOrder. The second is about OrderReport, which adds variables to   *)
(* it without changing its steps, so that it has its invariants.           *)
(***************************************************************************)
EXTENDS OrderReport, FiniteSetTheorems, TLAPS

(*                              CHARGE ORDER                                *)


-----------------------------------------------------------------------------
(* Sequences *)

\* Appending keeps the entries of a sequence and adds one behind them.
LEMMA AppendFacts ==
  ASSUME NEW S, NEW s \in Seq(S), NEW e \in S
  PROVE  /\ Append(s, e) \in Seq(S)
         /\ Len(Append(s, e)) = Len(s) + 1
         /\ DOMAIN Append(s, e) = 1 .. Len(s) + 1
         /\ DOMAIN s = 1 .. Len(s)
         /\ \A i \in DOMAIN s : Append(s, e)[i] = s[i]
         /\ Append(s, e)[Len(s) + 1] = e
OBVIOUS

-----------------------------------------------------------------------------
(* Types *)

\* The empty amount is an amount.
LEMMA NoAmountType == NoAmount \in Amount
BY DEF NoAmount, Amount

\* saveOrder adds a row of the right type.
LEMMA ConsumeOrderType ==
  ASSUME TypeOK, NEW money \in Amount, ConsumeOrder(money)
  PROVE  bConsume' \in BOOLEAN /\ consume' \in Seq(Row)
<1>1. [connectorflowno |-> connectorFlowNo, session |-> session, amount |-> money] \in Row
  BY DEF TypeOK, Row
<1>2. QED
  BY <1>1, AppendFacts DEF TypeOK, ConsumeOrder, SaveOrder

\* A time is a second that is not 0, so a session has a number.
LEMMA SecondType == \A now \in Times : SecondOf(now) \in Nat \ {0}
BY TimesAssumption DEF SecondOf

\* Every step keeps the type of every variable; a timer that expires was armed.
THEOREM TypeCorrect == Spec => []TypeOK
<1>1. Init => TypeOK
  <2> SUFFICES ASSUME Init PROVE TypeOK
    OBVIOUS
  <2>1. bStartCharging \in BOOLEAN /\ bConsume \in BOOLEAN
    BY DEF Init
  <2>2. /\ mRecv = {} /\ m_consumeRecv = {} /\ pile = "idle"
        /\ amount = NoAmount /\ m_fAmount = NoAmount
        /\ charge = 0 /\ connectorFlowNo = 0 /\ session = 0 /\ sessions = 0 /\ restarts = 0
        /\ staleTimers = 0 /\ freshTimers = 0
    BY DEF Init
  <2>3. consume \in Seq(Row) /\ createOrder \in Seq(Nat)
    BY DEF Init
  <2>4. QED
    BY <2>1, <2>2, <2>3, NoAmountType DEF TypeOK
<1>2. TypeOK /\ [Next]_vars => TypeOK'
  <2> SUFFICES ASSUME TypeOK, [Next]_vars PROVE TypeOK'
    OBVIOUS
  <2> USE DEF TypeOK, pileVars, flagVars, recvVars, nameVars, moneyVars,
              timerVars, sentVars
  <2>1. ASSUME NEW now \in Times, StartFrameAccepted(now) PROVE TypeOK'
    <3>1. pile' \in {"idle", "charging", "stopped", "unheard"} /\ charge' \in Nat
      BY <2>1 DEF StartFrameAccepted, PileStarts
    <3>2. mRecv' \in SUBSET CreateParts /\ m_consumeRecv' \in SUBSET BillParts
      BY <2>1 DEF StartFrameAccepted, StartParts, CreateParts
    <3>3. bStartCharging' \in BOOLEAN /\ bConsume' \in BOOLEAN
      BY <2>1 DEF StartFrameAccepted
    <3>4. /\ connectorFlowNo' \in Nat /\ session' \in Nat /\ sessions' \in Nat
          /\ staleTimers' \in Nat /\ freshTimers' \in Nat
      BY <2>1, SecondType DEF StartFrameAccepted, CreateFlowNo
    <3>5. UNCHANGED <<moneyVars, sentVars, restarts>>
      BY <2>1 DEF StartFrameAccepted
    <3>6. QED
      BY <3>1, <3>2, <3>3, <3>4, <3>5
  <2>2. CASE StartFrameAnswered
    BY <2>2 DEF StartFrameAnswered, PileStarts
  <2>3. CASE StopFrame
    BY <2>3 DEF StopFrame, ReadyToFinishOrder, ArmTimer
  <2>4. CASE StopFrameLost
    BY <2>4 DEF StopFrameLost
  <2>5. ASSUME NEW part \in VinParts, VinFrame(part) PROVE TypeOK'
    <3>1. mRecv' \in SUBSET CreateParts
      BY <2>5 DEF VinFrame, RequestOrder, CreateParts
    <3>2. createOrder' \in Seq(Nat)
      <4>1. Append(createOrder, session) \in Seq(Nat)
        BY AppendFacts
      <4>2. createOrder' \in {createOrder, Append(createOrder, session)}
        BY <2>5 DEF VinFrame, RequestOrder
      <4>3. QED
        BY <4>1, <4>2
    <3>3. QED
      BY <2>5, <3>1, <3>2 DEF VinFrame
  <2>6. ASSUME NEW part \in BillParts, BillFrame(part) PROVE TypeOK'
    <3> DEFINE money == IF part = AmountPart
                        THEN [of |-> charge, kind |-> "bill"] ELSE amount
    <3>1. money \in Amount /\ amount' = money
      BY <2>6 DEF BillFrame, Amount
    <3>2. /\ bStartCharging' \in BOOLEAN
          /\ bConsume' \in BOOLEAN
          /\ m_consumeRecv' \in SUBSET BillParts
          /\ consume' \in Seq(Row)
      <4>1. CASE BillParts \subseteq m_consumeRecv \union {part} /\ bStartCharging /\ ~bConsume
        BY <2>6, <3>1, <4>1, ConsumeOrderType DEF BillFrame
      <4>2. CASE ~(BillParts \subseteq m_consumeRecv \union {part} /\ bStartCharging /\ ~bConsume)
        BY <2>6, <4>2 DEF BillFrame
      <4>3. QED BY <4>1, <4>2
    <3>3. QED
      BY <2>6, <3>1, <3>2 DEF BillFrame
  <2>7. CASE HeartBeatSettles
    BY <2>7 DEF HeartBeatSettles, ReadyToFinishOrder, ArmTimer
  <2>8. CASE HeartBeatClearsStatus
    BY <2>8, NoAmountType DEF HeartBeatClearsStatus
  <2>9. CASE MeterFrame
    BY <2>9 DEF MeterFrame, Amount
  <2>10. CASE CompleteOrder
    <3>1. bConsume' \in BOOLEAN /\ consume' \in Seq(Row)
      BY <2>10, ConsumeOrderType DEF CompleteOrder, Settle
    <3>2. staleTimers' \in Nat /\ freshTimers' \in Nat
      BY <2>10 DEF CompleteOrder, TimerExpires
    <3>3. QED
      BY <2>10, <3>1, <3>2, NoAmountType DEF CompleteOrder, ResetMainParam
  <2>11. CASE Restart
    <3>1. /\ pile' = pile /\ charge' = charge /\ sessions' = sessions
          /\ consume' = consume /\ createOrder' = createOrder
      BY <2>11 DEF Restart
    <3>2. /\ mRecv' = {} /\ m_consumeRecv' = {} /\ connectorFlowNo' = 0 /\ session' = 0
          /\ amount' = NoAmount /\ m_fAmount' = NoAmount /\ staleTimers' = 0 /\ freshTimers' = 0 /\ restarts' = restarts + 1
      BY <2>11 DEF Restart, ResetMainParam
    <3>3. bStartCharging' \in BOOLEAN /\ bConsume' \in BOOLEAN
      BY <2>11 DEF Restart, ResetMainParam
    <3>4. QED
      BY <3>1, <3>2, <3>3, NoAmountType
  <2>12. CASE UNCHANGED vars
    BY <2>12 DEF vars
  <2>13. QED
    BY <2>1, <2>2, <2>3, <2>4, <2>5, <2>6, <2>7, <2>8, <2>9, <2>10, <2>11, <2>12 DEF Next
<1>3. QED
  BY <1>1, <1>2, PTL DEF Spec

-----------------------------------------------------------------------------
(* The effect of a step on the session and the table. Every step of the    *)
(* model has one of five effects; the invariants are proved from these.    *)

RowOf(money) == [connectorflowno |-> connectorFlowNo, session |-> session, amount |-> money]

\* The session, its flags and the table stay as they are.
Quiet == UNCHANGED <<bStartCharging, bConsume, session, sessions, consume, restarts>>

Opens ==
  /\ ~bStartCharging /\ bStartCharging' /\ ~bConsume'
  /\ sessions' = sessions + 1 /\ session' = sessions + 1
  /\ UNCHANGED <<consume, restarts>>

Bills ==
  /\ ~bConsume /\ bConsume' /\ ~bStartCharging'
  /\ \E money \in Amount : consume' = Append(consume, RowOf(money))
  /\ session' \in {session, 0}
  /\ UNCHANGED <<sessions, restarts>>

Forgets ==
  /\ bConsume /\ bConsume' /\ ~bStartCharging'
  /\ session' = 0
  /\ UNCHANGED <<sessions, consume, restarts>>

Crashes ==
  /\ ~bStartCharging'
  /\ session' = 0
  /\ restarts' = restarts + 1
  /\ UNCHANGED <<sessions, consume>>

\* Every step has one of five effects on the session and the table.
LEMMA StepEffect ==
  ASSUME TypeOK, [Next]_vars
  PROVE  Quiet \/ Opens \/ Bills \/ Forgets \/ Crashes
<1> USE DEF pileVars, flagVars, recvVars, nameVars, moneyVars, timerVars, sentVars
<1>1. ASSUME NEW now \in Times, StartFrameAccepted(now) PROVE Opens
  BY <1>1 DEF StartFrameAccepted, NoOpenSession, CreateFlowNo, Opens
<1>2. CASE StartFrameAnswered
  BY <1>2 DEF StartFrameAnswered, Quiet
<1>3. CASE StopFrame
  BY <1>3 DEF StopFrame, Quiet
<1>4. CASE StopFrameLost
  BY <1>4 DEF StopFrameLost, Quiet
<1>5. ASSUME NEW part \in VinParts, VinFrame(part) PROVE Quiet
  BY <1>5 DEF VinFrame, Quiet
<1>6. ASSUME NEW part \in BillParts, BillFrame(part) PROVE Quiet \/ Bills
  <2> DEFINE money == IF part = AmountPart
                      THEN [of |-> charge, kind |-> "bill"] ELSE amount
             full  == BillParts \subseteq m_consumeRecv \union {part} /\ bStartCharging /\ ~bConsume
  <2>1. money \in Amount
    BY DEF TypeOK, Amount
  <2>2. CASE full
    <3>1. /\ ~bConsume
          /\ bConsume' = TRUE
          /\ bStartCharging' = FALSE
          /\ consume' = Append(consume, RowOf(money))
          /\ UNCHANGED <<nameVars, restarts>>
      BY <1>6, <2>2 DEF BillFrame, ConsumeOrder, SaveOrder, RowOf
    <3>2. QED
      BY <2>1, <3>1 DEF Bills
  <2>3. CASE ~full
    BY <1>6, <2>3 DEF BillFrame, Quiet
  <2>4. QED
    BY <2>2, <2>3
<1>7. CASE HeartBeatSettles
  BY <1>7 DEF HeartBeatSettles, Quiet
<1>8. CASE HeartBeatClearsStatus
  BY <1>8 DEF HeartBeatClearsStatus, Quiet
<1>9. CASE MeterFrame
  BY <1>9 DEF MeterFrame, Quiet
<1>10. CASE CompleteOrder
  <2>1. CASE bConsume
    BY <1>10, <2>1 DEF CompleteOrder, Settle, ResetMainParam, Forgets
  <2>2. CASE ~bConsume
    <3>1. /\ bConsume' = TRUE
          /\ consume' = Append(consume, RowOf(amount))
      BY <1>10, <2>2 DEF CompleteOrder, Settle, ConsumeOrder, SaveOrder, RowOf
    <3>2. QED
      BY <1>10, <2>2, <3>1 DEF CompleteOrder, ResetMainParam, Bills, TypeOK
  <2>3. QED
    BY <2>1, <2>2
<1>11. CASE Restart
  BY <1>11 DEF Restart, ResetMainParam, Crashes
<1>12. CASE UNCHANGED vars
  BY <1>12 DEF vars, Quiet
<1>13. QED
  BY <1>1, <1>2, <1>3, <1>4, <1>5, <1>6, <1>7, <1>8, <1>9, <1>10, <1>11, <1>12 DEF Next

-----------------------------------------------------------------------------
(* Billing *)

\* Why a session is billed at most once. The flags say whether the session
\* can still be billed: an open session is the latest one, for which there is
\* no row yet; a closed order that could still be billed (bConsume never set by
\* a session of this process) is of no session.
SessionInv ==
  /\ session <= sessions
  /\ bStartCharging => ~bConsume /\ session = sessions /\ sessions # 0
  /\ ~bStartCharging /\ ~bConsume => session = 0
  /\ \A i \in DOMAIN consume : consume[i].session <= sessions
  /\ bStartCharging => ~Billed(sessions)

\* Initially no session is open and the table is empty.
LEMMA SessionInit == Init => SessionInv
BY DEF Init, SessionInv, Billed

\* Every step keeps the open session the last one that was opened.
LEMMA SessionNext ==
  ASSUME TypeOK, SessionInv, [Next]_vars
  PROVE  SessionInv'
<1>1. CASE Quiet
  BY <1>1 DEF Quiet, SessionInv, Billed
<1>2. CASE Opens
  <2>1. \A i \in DOMAIN consume : consume[i].session <= sessions
    BY DEF SessionInv
  <2>2. \A i \in DOMAIN consume : consume[i].session \in Nat
    <3>1. \A i \in DOMAIN consume : consume[i] \in Row
      BY DEF TypeOK
    <3>2. QED
      BY <3>1 DEF Row
  <2>3. ~Billed(sessions)'
    BY <1>2, <2>1, <2>2 DEF Opens, Billed, TypeOK
  <2>4. \A i \in DOMAIN consume' : consume'[i].session <= sessions'
    BY <1>2, <2>1, <2>2 DEF Opens, TypeOK
  <2>5. QED
    BY <1>2, <2>3, <2>4 DEF Opens, SessionInv, TypeOK
<1>3. CASE Bills
  <2>1. PICK money \in Amount : consume' = Append(consume, RowOf(money))
    BY <1>3 DEF Bills
  <2>2. RowOf(money) \in Row
    BY DEF RowOf, Row, TypeOK
  <2>3. \A i \in DOMAIN consume' : consume'[i].session <= sessions'
    <3> SUFFICES ASSUME NEW i \in DOMAIN consume' PROVE consume'[i].session <= sessions
      BY <1>3 DEF Bills
    <3>1. CASE i \in DOMAIN consume
      BY <2>1, <2>2, <3>1, AppendFacts DEF SessionInv, TypeOK
    <3>2. CASE i = Len(consume) + 1
      BY <2>1, <2>2, <3>2, AppendFacts DEF SessionInv, TypeOK, RowOf
    <3>3. QED
      BY <2>1, <2>2, <3>1, <3>2, AppendFacts DEF TypeOK
  <2>4. QED
    BY <1>3, <2>3 DEF Bills, SessionInv, TypeOK
<1>4. CASE Forgets
  BY <1>4 DEF Forgets, SessionInv, TypeOK, Billed
<1>5. CASE Crashes
  BY <1>5 DEF Crashes, SessionInv, TypeOK, Billed
<1>6. QED
  BY <1>1, <1>2, <1>3, <1>4, <1>5, StepEffect

\* No step bills a session a second time.
LEMMA BilledOnceNext ==
  ASSUME TypeOK, SessionInv, BilledOnce, [Next]_vars
  PROVE  BilledOnce'
<1>1. CASE UNCHANGED consume
  BY <1>1 DEF BilledOnce
<1>2. CASE Bills
  <2>1. PICK money \in Amount : consume' = Append(consume, RowOf(money))
    BY <1>2 DEF Bills
  <2>2. RowOf(money) \in Row
    BY DEF RowOf, Row, TypeOK
  <2>3. /\ DOMAIN consume' = 1 .. Len(consume) + 1
        /\ DOMAIN consume = 1 .. Len(consume)
        /\ \A i \in DOMAIN consume : consume'[i] = consume[i]
        /\ consume'[Len(consume) + 1].session = session
    BY <2>1, <2>2, AppendFacts DEF TypeOK, RowOf
  <2>4. session = 0 \/ ~Billed(session)
    BY <1>2 DEF Bills, SessionInv
  <2>5. \A i \in DOMAIN consume :
          session = 0 \/ consume[i].session # session
    BY <2>4 DEF Billed
  <2>6. Len(consume) \in Nat
    BY DEF TypeOK
  <2>7. QED
    BY <2>3, <2>5, <2>6 DEF BilledOnce
<1>3. QED
  BY <1>1, <1>2, StepEffect DEF Quiet, Opens, Forgets, Crashes

\* Without a restart no step forgets a session that is not billed.
LEMMA NothingLostNext ==
  ASSUME TypeOK, SessionInv, NothingLost, [Next]_vars
  PROVE  NothingLost'
<1> SUFFICES ASSUME restarts' = 0, NEW n \in 1 .. sessions'
             PROVE  Billed(n)' \/ (bStartCharging' /\ session' = n)
  BY DEF NothingLost
<1>1. CASE Quiet
  BY <1>1 DEF Quiet, NothingLost, Billed
<1>2. CASE Opens
  <2>1. CASE n = sessions + 1
    BY <1>2, <2>1 DEF Opens
  <2>2. CASE n # sessions + 1
    <3>1. n \in 1 .. sessions
      BY <1>2, <2>2 DEF Opens, TypeOK
    <3>2. Billed(n)
      BY <1>2, <3>1 DEF Opens, NothingLost
    <3>3. QED
      BY <1>2, <3>2 DEF Opens, Billed
  <2>3. QED
    BY <2>1, <2>2
<1>3. CASE Bills
  <2>1. PICK money \in Amount : consume' = Append(consume, RowOf(money))
    BY <1>3 DEF Bills
  <2>2. RowOf(money) \in Row
    BY DEF RowOf, Row, TypeOK
  <2>3. /\ DOMAIN consume' = 1 .. Len(consume) + 1
        /\ DOMAIN consume = 1 .. Len(consume)
        /\ \A i \in DOMAIN consume : consume'[i] = consume[i]
        /\ consume'[Len(consume) + 1].session = session
        /\ Len(consume) \in Nat
    BY <2>1, <2>2, AppendFacts DEF TypeOK, RowOf
  <2>4. Billed(n) \/ session = n
    BY <1>3 DEF Bills, NothingLost
  <2>5. QED
    BY <2>3, <2>4 DEF Billed
<1>4. CASE Forgets
  BY <1>4 DEF Forgets, NothingLost, Billed, SessionInv
<1>5. CASE Crashes
  BY <1>5 DEF Crashes, TypeOK
<1>6. QED
  BY <1>1, <1>2, <1>3, <1>4, <1>5, StepEffect

\* The inductive invariant behind the billing theorems.
BillingInv == TypeOK /\ SessionInv /\ BilledOnce /\ NothingLost

THEOREM BillingInvariant == Spec => []BillingInv
<1>1. Init => SessionInv /\ BilledOnce /\ NothingLost
  BY SessionInit DEF Init, BilledOnce, NothingLost
<1>2. TypeOK /\ SessionInv /\ BilledOnce /\ NothingLost /\ [Next]_vars
        => SessionInv' /\ BilledOnce' /\ NothingLost'
  BY SessionNext, BilledOnceNext, NothingLostNext
<1>3. QED
  BY <1>1, <1>2, TypeCorrect, PTL DEF Spec, BillingInv

\* A session is billed at most once, whether or not another has its number.
THEOREM BilledAtMostOnce == Spec => []BilledOnce
BY BillingInvariant, PTL DEF BillingInv

\* Without a restart every session is billed or still open.
THEOREM NoSessionLost == Spec => []NothingLost
BY BillingInvariant, PTL DEF BillingInv

-----------------------------------------------------------------------------
(* Rows of no session *)

Anonymous == {i \in DOMAIN consume : consume[i].session = 0}

\* Why there are so few. Only an order that no session of this process has
\* billed can put such a row into the table; billing it sets bConsume, and
\* from then on only a restart can bring such an order back.
AnonymousInv ==
  Cardinality(Anonymous) + (IF ~bConsume /\ session = 0 THEN 1 ELSE 0)
    <= restarts + 1

\* The rows of a table are finitely many, and so are those without a number.
LEMMA AnonymousFinite ==
  ASSUME TypeOK
  PROVE  IsFiniteSet(Anonymous) /\ Cardinality(Anonymous) \in Nat
<1>1. DOMAIN consume = 1 .. Len(consume) /\ Len(consume) \in Nat
  BY DEF TypeOK
<1>2. IsFiniteSet(DOMAIN consume)
  BY <1>1, FS_Interval
<1>3. Anonymous \subseteq DOMAIN consume
  BY DEF Anonymous
<1> QED
  BY <1>2, <1>3, FS_Subset, FS_CardinalityType

\* Initially there is no row.
LEMMA AnonymousInit == Init => AnonymousInv
<1> SUFFICES ASSUME Init PROVE AnonymousInv
  OBVIOUS
<1>1. Anonymous = {} /\ restarts = 0
  BY DEF Init, Anonymous
<1> QED
  BY <1>1, FS_EmptySet DEF AnonymousInv

\* No step adds a row of no session that was not allowed for.
LEMMA AnonymousNext ==
  ASSUME TypeOK, SessionInv, AnonymousInv, [Next]_vars
  PROVE  AnonymousInv'
<1> USE AnonymousFinite
<1>1. CASE Quiet
  BY <1>1 DEF Quiet, AnonymousInv, Anonymous
<1>2. CASE Opens
  <2>1. Anonymous' = Anonymous /\ session' # 0 /\ restarts' = restarts
    BY <1>2 DEF Opens, Anonymous, TypeOK
  <2> QED
    BY <2>1 DEF AnonymousInv, TypeOK
<1>3. CASE Bills
  <2>1. PICK money \in Amount : consume' = Append(consume, RowOf(money))
    BY <1>3 DEF Bills
  <2>2. RowOf(money) \in Row
    BY DEF RowOf, Row, TypeOK
  <2>3. /\ DOMAIN consume' = 1 .. Len(consume) + 1
        /\ DOMAIN consume = 1 .. Len(consume)
        /\ Len(consume) \in Nat
        /\ \A i \in DOMAIN consume : consume'[i] = consume[i]
        /\ consume'[Len(consume) + 1].session = session
    BY <2>1, <2>2, AppendFacts DEF TypeOK, RowOf
  <2>4. ~bConsume /\ bConsume' /\ restarts' = restarts
    BY <1>3 DEF Bills
  <2>5. CASE session = 0
    <3>1. Anonymous' = Anonymous \union {Len(consume) + 1}
      BY <2>3, <2>5 DEF Anonymous
    <3>2. Len(consume) + 1 \notin Anonymous
      BY <2>3 DEF Anonymous
    <3>3. Cardinality(Anonymous') = Cardinality(Anonymous) + 1
      BY <3>1, <3>2, FS_AddElement
    <3> QED
      BY <2>4, <2>5, <3>3 DEF AnonymousInv, TypeOK
  <2>6. CASE session # 0
    <3>1. Anonymous' = Anonymous
      BY <2>3, <2>6 DEF Anonymous
    <3> QED
      BY <2>4, <2>6, <3>1 DEF AnonymousInv, TypeOK
  <2> QED
    BY <2>5, <2>6
<1>4. CASE Forgets
  <2>1. Anonymous' = Anonymous /\ bConsume' /\ bConsume /\ restarts' = restarts
    BY <1>4 DEF Forgets, Anonymous
  <2> QED
    BY <2>1 DEF AnonymousInv, TypeOK
<1>5. CASE Crashes
  <2>1. Anonymous' = Anonymous /\ restarts' = restarts + 1
    BY <1>5 DEF Crashes, Anonymous
  <2> QED
    BY <2>1 DEF AnonymousInv, TypeOK
<1> QED
  BY <1>1, <1>2, <1>3, <1>4, <1>5, StepEffect

\* The uninitialised bConsume adds at most one row of no session for every
\* time the process is started.
THEOREM AnonymousRowsBounded == Spec => []AnonymousOncePerRun
<1>1. TypeOK /\ AnonymousInv => AnonymousOncePerRun
  <2> SUFFICES ASSUME TypeOK, AnonymousInv, NEW S \in SUBSET DOMAIN consume,
                      \A i \in S : consume[i].session = 0
               PROVE  Cardinality(S) <= restarts + 1
    BY DEF AnonymousOncePerRun
  <2>1. S \subseteq Anonymous
    BY DEF Anonymous
  <2>2. IsFiniteSet(Anonymous) /\ Cardinality(Anonymous) \in Nat
    BY AnonymousFinite
  <2>3. Cardinality(S) <= Cardinality(Anonymous) /\ Cardinality(S) \in Nat
    BY <2>1, <2>2, FS_Subset, FS_CardinalityType
  <2> QED
    BY <2>2, <2>3 DEF AnonymousInv, TypeOK
<1>2. BillingInv /\ AnonymousInv /\ [Next]_vars => AnonymousInv'
  BY AnonymousNext DEF BillingInv
<1>3. BillingInv => TypeOK
  BY DEF BillingInv
<1> QED
  BY <1>1, <1>2, <1>3, AnonymousInit, BillingInvariant, PTL DEF Spec

-----------------------------------------------------------------------------
(* Timers and bill frames *)

\* Only a settlement timer takes a timer away, and it closes the session.
LEMMA SettlementArmedNext ==
  ASSUME TypeOK, SettlementArmed, [Next]_vars
  PROVE  SettlementArmed'
<1> USE DEF SettlementArmed, pileVars, flagVars, timerVars
<1>1. ASSUME NEW now \in Times, StartFrameAccepted(now) PROVE SettlementArmed'
  BY <1>1 DEF StartFrameAccepted, PileStarts
<1>2. CASE StartFrameAnswered
  BY <1>2 DEF StartFrameAnswered, PileStarts
<1>3. CASE StopFrame
  BY <1>3 DEF StopFrame, ReadyToFinishOrder, ArmTimer, TypeOK
<1>4. CASE StopFrameLost
  BY <1>4 DEF StopFrameLost
<1>5. ASSUME NEW part \in VinParts, VinFrame(part) PROVE SettlementArmed'
  BY <1>5 DEF VinFrame
<1>6. ASSUME NEW part \in BillParts, BillFrame(part) PROVE SettlementArmed'
  BY <1>6 DEF BillFrame, TypeOK
<1>7. CASE HeartBeatSettles
  BY <1>7 DEF HeartBeatSettles, ReadyToFinishOrder, ArmTimer, TypeOK
<1>8. CASE HeartBeatClearsStatus
  BY <1>8 DEF HeartBeatClearsStatus
<1>9. CASE MeterFrame
  BY <1>9 DEF MeterFrame
<1>10. CASE CompleteOrder
  BY <1>10 DEF CompleteOrder, ResetMainParam
<1>11. CASE Restart
  BY <1>11 DEF Restart, ResetMainParam
<1>12. CASE UNCHANGED vars
  BY <1>12 DEF vars
<1>13. QED
  BY <1>1, <1>2, <1>3, <1>4, <1>5, <1>6, <1>7, <1>8, <1>9, <1>10, <1>11, <1>12 DEF Next

\* A session whose stop frame was heard always has a pending timer.
THEOREM SettlementIsArmed == Spec => []SettlementArmed
<1>1. Init => SettlementArmed
  BY DEF Init, SettlementArmed
<1>2. TypeOK /\ SettlementArmed /\ [Next]_vars => SettlementArmed'
  BY SettlementArmedNext
<1>3. QED
  BY <1>1, <1>2, TypeCorrect, PTL DEF Spec

\* No step leaves a complete bill of an open session behind.
LEMMA TailQuietNext ==
  ASSUME TypeOK, TailQuiet, [Next]_vars
  PROVE  TailQuiet'
<1> USE DEF TailQuiet, flagVars, recvVars
<1>1. ASSUME NEW now \in Times, StartFrameAccepted(now) PROVE TailQuiet'
  BY <1>1, PartsAssumption DEF StartFrameAccepted, StartParts
<1>2. CASE StartFrameAnswered
  BY <1>2 DEF StartFrameAnswered
<1>3. CASE StopFrame
  BY <1>3, PartsAssumption DEF StopFrame
<1>4. CASE StopFrameLost
  BY <1>4 DEF StopFrameLost
<1>5. ASSUME NEW part \in VinParts, VinFrame(part) PROVE TailQuiet'
  BY <1>5 DEF VinFrame
<1>6. ASSUME NEW part \in BillParts, BillFrame(part) PROVE TailQuiet'
  BY <1>6, PartsAssumption DEF BillFrame
<1>7. CASE HeartBeatSettles
  BY <1>7 DEF HeartBeatSettles
<1>8. CASE HeartBeatClearsStatus
  BY <1>8 DEF HeartBeatClearsStatus
<1>9. CASE MeterFrame
  BY <1>9 DEF MeterFrame
<1>10. CASE CompleteOrder
  BY <1>10 DEF CompleteOrder, ResetMainParam
<1>11. CASE Restart
  BY <1>11 DEF Restart, ResetMainParam
<1>12. CASE UNCHANGED vars
  BY <1>12 DEF vars
<1>13. QED
  BY <1>1, <1>2, <1>3, <1>4, <1>5, <1>6, <1>7, <1>8, <1>9, <1>10, <1>11, <1>12 DEF Next

\* Between two frames no complete bill of an open session is left over.
THEOREM TailIsQuiet == Spec => []TailQuiet
<1>1. Init => TailQuiet
  BY PartsAssumption DEF Init, TailQuiet
<1>2. TypeOK /\ TailQuiet /\ [Next]_vars => TailQuiet'
  BY TailQuietNext
<1>3. QED
  BY <1>1, <1>2, TypeCorrect, PTL DEF Spec

-----------------------------------------------------------------------------
(* Order creation *)

\* Why an order is created once: as long as the start frame's bit is set in
\* mRecv, the open session has not been created yet; and VIN frames only come
\* while the pile charges, when that bit belongs to an open session.
CreationInv ==
  /\ \A i \in DOMAIN createOrder : createOrder[i] <= sessions
  /\ "start" \in mRecv /\ bStartCharging =>
       \A i \in DOMAIN createOrder : createOrder[i] # session
  /\ "start" \in mRecv /\ pile = "charging" => bStartCharging

\* Every step keeps the bits of the order creation within their session.
LEMMA CreationNext ==
  ASSUME TypeOK, SessionInv, CreationInv, [Next]_vars
  PROVE  CreationInv'
<1> USE DEF CreationInv, pileVars, flagVars, recvVars, nameVars, sentVars
<1>1. ASSUME NEW now \in Times, StartFrameAccepted(now) PROVE CreationInv'
  <2>1. \A i \in DOMAIN createOrder : createOrder[i] \in Nat
    BY DEF TypeOK
  <2>2. /\ createOrder' = createOrder /\ sessions' = sessions + 1
        /\ session' = sessions + 1 /\ bStartCharging'
    BY <1>1 DEF StartFrameAccepted, CreateFlowNo
  <2>3. QED
    BY <2>1, <2>2 DEF TypeOK
<1>2. CASE StartFrameAnswered
  BY <1>2 DEF StartFrameAnswered
<1>3. CASE StopFrame
  BY <1>3 DEF StopFrame
<1>4. CASE StopFrameLost
  BY <1>4 DEF StopFrameLost
<1>5. ASSUME NEW part \in VinParts, VinFrame(part) PROVE CreationInv'
  <2>1. UNCHANGED <<pile, bStartCharging, session, sessions>>
    BY <1>5 DEF VinFrame
  <2>2. CASE CreateParts \subseteq mRecv \union {part}
    <3>1. mRecv' = {} /\ createOrder' = Append(createOrder, session)
      BY <1>5, <2>2 DEF VinFrame, RequestOrder
    <3>2. \A i \in DOMAIN createOrder' : createOrder'[i] <= sessions
      BY <3>1, AppendFacts DEF SessionInv, TypeOK
    <3>3. QED
      BY <2>1, <3>1, <3>2
  <2>3. CASE ~(CreateParts \subseteq mRecv \union {part})
    <3>1. mRecv' = mRecv \union {part} /\ createOrder' = createOrder
      BY <1>5, <2>3 DEF VinFrame
    <3>2. "start" \in mRecv' => "start" \in mRecv
      BY <3>1, PartsAssumption
    <3>3. QED
      BY <2>1, <3>1, <3>2
  <2>4. QED
    BY <2>2, <2>3
<1>6. ASSUME NEW part \in BillParts, BillFrame(part) PROVE CreationInv'
  <2>1. /\ UNCHANGED <<pile, mRecv, session, sessions, createOrder>>
        /\ pile # "charging"
    BY <1>6 DEF BillFrame
  <2>2. bStartCharging' => bStartCharging
    BY <1>6 DEF BillFrame
  <2>3. QED
    BY <2>1, <2>2
<1>7. CASE HeartBeatSettles
  BY <1>7 DEF HeartBeatSettles
<1>8. CASE HeartBeatClearsStatus
  BY <1>8 DEF HeartBeatClearsStatus
<1>9. CASE MeterFrame
  BY <1>9 DEF MeterFrame
<1>10. CASE CompleteOrder
  BY <1>10 DEF CompleteOrder, ResetMainParam
<1>11. CASE Restart
  BY <1>11 DEF Restart, ResetMainParam
<1>12. CASE UNCHANGED vars
  BY <1>12 DEF vars
<1>13. QED
  BY <1>1, <1>2, <1>3, <1>4, <1>5, <1>6, <1>7, <1>8, <1>9, <1>10, <1>11, <1>12 DEF Next

\* What CreatedOnceBeforeBilled says of one step.
CreatedOnceStep ==
  createOrder' # createOrder =>
    LET n == createOrder'[Len(createOrder')] IN
    /\ n # 0
    /\ ~Billed(n)
    /\ \A i \in DOMAIN createOrder : createOrder[i] # n

\* A step that asks for an order asks for a session not asked for before.
LEMMA CreatedOnceNext ==
  ASSUME TypeOK, SessionInv, CreationInv, [Next]_vars
  PROVE  CreatedOnceStep
<1> USE DEF sentVars
<1>1. ASSUME NEW part \in VinParts, VinFrame(part) PROVE CreatedOnceStep
  <2>1. CASE createOrder' = createOrder
    BY <2>1 DEF CreatedOnceStep
  <2>2. CASE createOrder' # createOrder
    <3>1. /\ CreateParts \subseteq mRecv \union {part}
          /\ createOrder' = Append(createOrder, session)
      BY <1>1, <2>2 DEF VinFrame, RequestOrder
    <3>2. createOrder'[Len(createOrder')] = session
      BY <3>1, AppendFacts DEF TypeOK
    <3>3. "start" \in mRecv /\ bStartCharging
      BY <1>1, <3>1, PartsAssumption DEF VinFrame, CreateParts, CreationInv
    <3>4. QED
      BY <3>2, <3>3 DEF CreationInv, SessionInv, CreatedOnceStep
  <2>3. QED
    BY <2>1, <2>2
<1>2. CASE UNCHANGED createOrder
  BY <1>2 DEF CreatedOnceStep
<1>3. QED
  BY <1>1, <1>2 DEF Next, StartFrameAccepted, StartFrameAnswered, StopFrame,
     StopFrameLost, BillFrame, HeartBeatSettles, HeartBeatClearsStatus,
     MeterFrame, CompleteOrder, Restart, vars

\* The start frame's bit belongs to a session that has not been created.
THEOREM CreationInvariant == Spec => []CreationInv
<1>1. Init => CreationInv
  BY DEF Init, CreationInv
<1>2. TypeOK /\ SessionInv /\ CreationInv /\ [Next]_vars => CreationInv'
  BY CreationNext
<1>3. QED
  BY <1>1, <1>2, BillingInvariant, PTL DEF Spec, BillingInv

\* The platform is asked once per session to create the order, for an open
\* session and not after the session was billed.
THEOREM OrderCreatedOnce == Spec => CreatedOnceBeforeBilled
<1>1. TypeOK /\ SessionInv /\ CreationInv /\ [Next]_vars => CreatedOnceStep
  BY CreatedOnceNext
<1>2. QED
  BY <1>1, CreationInvariant, BillingInvariant, PTL
  DEF Spec, BillingInv, CreatedOnceBeforeBilled, CreatedOnceStep

-----------------------------------------------------------------------------
(* The ledger *)

BilledSessions == {n \in 1 .. sessions : Billed(n)}
OpenSession == IF bStartCharging THEN session ELSE 0

\* Initially the ledger is empty.
LEMMA LedgerInit == Init => Ledger!Init
BY DEF Init, Ledger!Init, Billed

\* Every step is a step of the ledger or leaves it alone.
LEMMA LedgerNext ==
  ASSUME TypeOK, SessionInv, [Next]_vars
  PROVE  [Ledger!Next]_(Ledger!ledger)
<1> USE DEF Ledger!Next, Ledger!ledger
<1>1. CASE Quiet
  BY <1>1 DEF Quiet, Billed
<1>2. CASE Opens
  <2>1. OpenSession = 0 /\ OpenSession' = sessions'
    BY <1>2 DEF Opens, OpenSession
  <2>2. \A n : Billed(n)' <=> Billed(n)
    BY <1>2 DEF Opens, Billed
  <2>3. ~Billed(sessions + 1)
    BY DEF SessionInv, Billed, TypeOK
  <2>4. BilledSessions' = BilledSessions
    BY <1>2, <2>2, <2>3 DEF Opens, BilledSessions, TypeOK
  <2>5. QED
    BY <1>2, <2>1, <2>4 DEF Opens, Ledger!Open, BilledSessions, OpenSession
<1>3. CASE Bills
  <2>1. PICK money \in Amount : consume' = Append(consume, RowOf(money))
    BY <1>3 DEF Bills
  <2>2. RowOf(money) \in Row
    BY DEF RowOf, Row, TypeOK
  <2>3. /\ DOMAIN consume' = 1 .. Len(consume) + 1
        /\ DOMAIN consume = 1 .. Len(consume)
        /\ \A i \in DOMAIN consume : consume'[i] = consume[i]
        /\ consume'[Len(consume) + 1].session = session
        /\ Len(consume) \in Nat
    BY <2>1, <2>2, AppendFacts DEF TypeOK, RowOf
  <2>4. \A n : Billed(n)' <=> Billed(n) \/ n = session
    BY <2>3 DEF Billed
  <2>5. sessions' = sessions /\ restarts' = restarts /\ OpenSession' = 0
    BY <1>3 DEF Bills, OpenSession
  <2>6. CASE bStartCharging
    <3>1. OpenSession = session /\ OpenSession \in 1 .. sessions
      BY <2>6 DEF OpenSession, SessionInv, TypeOK
    <3>2. OpenSession \notin BilledSessions
      BY <2>6, <3>1 DEF SessionInv, BilledSessions
    <3>3. BilledSessions' = BilledSessions \union {OpenSession}
      BY <2>4, <2>5, <3>1 DEF BilledSessions
    <3>4. OpenSession # 0
      BY <3>1 DEF TypeOK
    <3>5. QED
      BY <2>5, <3>2, <3>3, <3>4 DEF Ledger!Bill, BilledSessions, OpenSession
  <2>7. CASE ~bStartCharging
    <3>1. OpenSession = 0 /\ session = 0
      BY <1>3, <2>7 DEF Bills, SessionInv, OpenSession
    <3>2. BilledSessions' = BilledSessions
      BY <2>4, <2>5, <3>1 DEF BilledSessions, TypeOK
    <3>3. QED
      BY <2>5, <3>1, <3>2 DEF BilledSessions, OpenSession
  <2>8. QED
    BY <2>6, <2>7
<1>4. CASE Forgets
  BY <1>4 DEF Forgets, Billed, SessionInv
<1>5. CASE Crashes
  BY <1>5 DEF Crashes, Billed, Ledger!Crash
<1>6. QED
  BY <1>1, <1>2, <1>3, <1>4, <1>5, StepEffect

\* The order, its timers and the table implement the abstract ledger.
THEOREM OrderImplementsLedger == Spec => ImplementsLedger
<1>1. Init => Ledger!Init
  BY LedgerInit
<1>2. TypeOK /\ SessionInv /\ [Next]_vars => [Ledger!Next]_(Ledger!ledger)
  BY LedgerNext
<1>3. QED
  BY <1>1, <1>2, BillingInvariant, PTL DEF Spec, BillingInv, ImplementsLedger, Ledger!Spec

-----------------------------------------------------------------------------
(*                              ORDER REPORT                                *)


-----------------------------------------------------------------------------
(* Refinement *)

\* Every step of OrderReport is a step of ChargeOrder or leaves it alone.
LEMMA ReportStep == [ReportNext]_allVars => [Next]_vars
<1> SUFFICES ASSUME [ReportNext]_allVars PROVE [Next]_vars
  OBVIOUS
<1>0. ASSUME NEW now \in Times, ReportStart(now) PROVE Next
  BY <1>0 DEF ReportStart, Next
<1>1. CASE ReportComplete \/ ReportRestart \/ ReportQuiet
  BY <1>1 DEF ReportComplete, ReportRestart, ReportQuiet, Next
<1>2. ASSUME NEW part \in VinParts, ReportVin(part) PROVE Next
  BY <1>2 DEF ReportVin, Next
<1>3. ASSUME NEW part \in BillParts, ReportBill(part) PROVE Next
  BY <1>3 DEF ReportBill, Next
<1>4. CASE \/ RemoteStart \/ (\E type \in {"11", "other"} : SetChargeType(type))
           \/ (\E i \in updates : UpdateAccepted(i) \/ UpdateFailed(i))
  <2>1. UNCHANGED vars
    BY <1>4 DEF RemoteStart, SetChargeType, UpdateAccepted, UpdateFailed, AnswerOrder
  <2> QED
    BY <2>1
<1>5. CASE UNCHANGED allVars
  BY <1>5 DEF allVars
<1> QED
  BY <1>0, <1>1, <1>2, <1>3, <1>4, <1>5 DEF ReportNext, OrderNext

\* So its behaviours are behaviours of ChargeOrder.
LEMMA ReportIsOrder == ReportSpec => Spec
<1>1. ReportInit => Init
  BY DEF ReportInit
<1> QED
  BY <1>1, ReportStep, PTL DEF ReportSpec, Spec

\* The invariants of ChargeOrder hold in OrderReport.
CoreInv == BillingInv /\ CreationInv

\* The invariants of ChargeOrder hold with the order numbers added.
THEOREM CoreInvariant == ReportSpec => []CoreInv
BY ReportIsOrder, BillingInvariant, CreationInvariant, PTL DEF CoreInv

-----------------------------------------------------------------------------
(* The table grows by rows with their order number *)

\* A step adds at most one row.
LEMMA RowStep ==
  ASSUME TypeOK, [Next]_vars
  PROVE  \/ consume' = consume
         \/ Bills /\ \E money \in Amount :
              consume' = Append(consume, RowOf(money))
BY StepEffect DEF Quiet, Opens, Bills, Forgets, Crashes

\* A new row changes the length of the table.
LEMMA RowAdded ==
  ASSUME TypeOK, [Next]_vars, consume' # consume
  PROVE  /\ Bills
         /\ Len(consume') = Len(consume) + 1
         /\ DOMAIN consume = 1 .. Len(consume)
         /\ DOMAIN consume' = 1 .. Len(consume) + 1
         /\ Len(consume) \in Nat
         /\ \A i \in DOMAIN consume : consume'[i] = consume[i]
         /\ consume'[Len(consume) + 1].session = session
<1>1. PICK money \in Amount : consume' = Append(consume, RowOf(money))
  BY RowStep
<1>2. RowOf(money) \in Row
  BY DEF RowOf, Row, TypeOK
<1>3. Len(consume) \in Nat
  BY DEF TypeOK
<1> QED
  BY <1>1, <1>2, <1>3, RowStep, AppendFacts DEF TypeOK, RowOf

\* The empty order number is an order number.
LEMMA NoFlowType == NoFlow \in FlowNo
BY DEF NoFlow, FlowNo

\* The columns of the table grow together.
LEMMA RequestUpdateType ==
  ASSUME TypeOK, ReportTypeOK, [Next]_vars, RequestUpdate
  PROVE  /\ flowno' \in Seq(FlowNo)
         /\ Len(flowno') = Len(consume')
         /\ DOMAIN flowno \subseteq DOMAIN flowno'
         /\ updates' \in SUBSET DOMAIN flowno'
<1>1. CASE consume' = consume
  BY <1>1 DEF RequestUpdate, ReportTypeOK
<1>2. CASE consume' # consume
  <2>1. flowno' = Append(flowno, flowNo) /\ updates' = updates \union {Len(consume')}
    BY <1>2 DEF RequestUpdate
  <2>2. /\ Len(consume') = Len(consume) + 1 /\ Len(consume) \in Nat
    BY <1>2, RowAdded
  <2>3. /\ flowno' \in Seq(FlowNo)
        /\ Len(flowno') = Len(flowno) + 1
        /\ DOMAIN flowno' = 1 .. Len(flowno) + 1
        /\ DOMAIN flowno = 1 .. Len(flowno)
    BY <2>1, AppendFacts DEF ReportTypeOK
  <2>4. Len(flowno) = Len(consume)
    BY DEF ReportTypeOK
  <2>5. Len(consume') \in DOMAIN flowno'
    BY <2>2, <2>3, <2>4
  <2>6. DOMAIN flowno \subseteq DOMAIN flowno'
    BY <2>2, <2>3, <2>4
  <2>7. updates \subseteq DOMAIN flowno
    BY DEF ReportTypeOK
  <2> QED
    BY <2>1, <2>2, <2>3, <2>4, <2>5, <2>6, <2>7
<1> QED
  BY <1>1, <1>2

\* A creation request adds one number to each of the two histories.
LEMMA CreateStep ==
  ASSUME TypeOK, ReportTypeOK, NEW part \in VinParts, ReportVin(part)
  PROVE  /\ createFlow' \in Seq(FlowNo)
         /\ Len(createFlow') = Len(createOrder')
         /\ createOrder' # createOrder =>
              /\ createOrder' = Append(createOrder, session)
              /\ createFlow' = Append(createFlow, flowNo)
<1>1. VinFrame(part)
  BY DEF ReportVin
<1>2. createOrder' = createOrder \/ createOrder' = Append(createOrder, session)
  BY <1>1 DEF VinFrame, RequestOrder
<1>3. CASE createOrder' = createOrder
  BY <1>3 DEF ReportVin, ReportTypeOK
<1>4. CASE createOrder' # createOrder
  <2>1. /\ createOrder' = Append(createOrder, session)
        /\ createFlow' = Append(createFlow, flowNo)
    BY <1>2, <1>4 DEF ReportVin
  <2>2. createOrder \in Seq(Nat) /\ session \in Nat
    BY DEF TypeOK
  <2>3. Len(createOrder') = Len(createOrder) + 1
    BY <2>1, <2>2, AppendFacts
  <2>4. createFlow' \in Seq(FlowNo) /\ Len(createFlow') = Len(createFlow) + 1
    BY <2>1, AppendFacts DEF ReportTypeOK
  <2> QED
    BY <2>1, <2>3, <2>4 DEF ReportTypeOK
<1> QED
  BY <1>3, <1>4

-----------------------------------------------------------------------------
(* Types *)

\* Initially every variable has its type.
LEMMA ReportTypeInit == ReportInit => ReportTypeOK
BY NoFlowType DEF ReportInit, Init, ReportTypeOK

\* The rows of a number are rows of the table.
LEMMA RowsOfType == \A flow : RowsOf(flow) \subseteq DOMAIN flowno
BY DEF RowsOf

\* Every step keeps the types, and the columns of the table agree.
LEMMA ReportTypeNext ==
  ASSUME TypeOK, TypeOK', ReportTypeOK, [ReportNext]_allVars
  PROVE  ReportTypeOK'
<1> USE DEF reportVars, nameRest, answerVars
<1>0. [Next]_vars
  BY ReportStep
<1>. told' \in Nat
  BY DEF ReportNext, UpdateAccepted, UpdateFailed, AnswerOrder, ReportTypeOK, TypeOK, allVars
<1>1. ASSUME NEW now \in Times, ReportStart(now)
      PROVE  ReportTypeOK'
  <2>0. now \in Nat
    BY TimesAssumption
  <2>1. flowNo' \in FlowNo
    BY <1>1, <2>0 DEF ReportStart, NameOrder, ReportTypeOK, FlowNo
  <2>2. consume' = consume /\ createOrder' = createOrder
    BY <1>1 DEF ReportStart, StartFrameAccepted, sentVars
  <2> QED
    BY <1>1, <2>1, <2>2 DEF ReportStart, ReportTypeOK
<1>2. ASSUME NEW part \in VinParts, ReportVin(part)
      PROVE  ReportTypeOK'
  <2>1. consume' = consume
    BY <1>2 DEF ReportVin, VinFrame
  <2> QED
    BY <1>2, <2>1, CreateStep DEF ReportVin, ReportTypeOK
<1>3. ASSUME NEW part \in BillParts, ReportBill(part)
      PROVE  ReportTypeOK'
  <2>1. createOrder' = createOrder /\ RequestUpdate
    BY <1>3 DEF ReportBill, BillFrame
  <2> QED
    BY <1>0, <1>3, <2>1, RequestUpdateType DEF ReportBill, ReportTypeOK
<1>4. CASE ReportComplete
  <2>1. createOrder' = createOrder /\ RequestUpdate /\ flowNo' = NoFlow
    BY <1>4 DEF ReportComplete, CompleteOrder, ForgetName
  <2> QED
    BY <1>0, <1>4, <2>1, NoFlowType, RequestUpdateType
    DEF ReportComplete, ReportTypeOK, ForgetName
<1>5. CASE ReportRestart
  <2>1. consume' = consume /\ createOrder' = createOrder
    BY <1>5 DEF ReportRestart, Restart, sentVars
  <2> QED
    BY <1>5, <2>1, NoFlowType DEF ReportRestart, ReportTypeOK, ForgetName
<1>6. CASE ReportQuiet
  <2>1. consume' = consume /\ createOrder' = createOrder
    BY <1>6 DEF ReportQuiet, StartFrameAnswered, StopFrame, StopFrameLost,
       HeartBeatSettles, HeartBeatClearsStatus, MeterFrame, sentVars
  <2> QED
    BY <1>6, <2>1 DEF ReportQuiet, ReportTypeOK
<1>7. CASE RemoteStart
  <2>1. flowNo' \in FlowNo
    BY <1>7 DEF RemoteStart, ReportTypeOK, FlowNo
  <2>2. renamed' \in SUBSET Nat
    BY <1>7 DEF RemoteStart, ReportTypeOK, TypeOK
  <2> QED
    BY <1>7, <2>1, <2>2 DEF RemoteStart, ReportTypeOK, vars, sentVars
<1>8. ASSUME NEW type \in {"11", "other"}, SetChargeType(type)
      PROVE  ReportTypeOK'
  BY <1>8 DEF SetChargeType, ReportTypeOK, vars, sentVars
<1>9. ASSUME NEW i \in updates, UpdateAccepted(i)
      PROVE  ReportTypeOK'
  BY <1>9, RowsOfType
  DEF UpdateAccepted, AnswerOrder, MarkRows, ReportTypeOK, vars, sentVars
<1>10. ASSUME NEW i \in updates, UpdateFailed(i)
       PROVE  ReportTypeOK'
  BY <1>10 DEF UpdateFailed, AnswerOrder, ReportTypeOK, vars, sentVars
<1>11. CASE UNCHANGED allVars
  BY <1>11 DEF allVars, ReportTypeOK, vars, sentVars
<1> QED
  BY <1>1, <1>2, <1>3, <1>4, <1>5, <1>6, <1>7, <1>8, <1>9, <1>10, <1>11
  DEF ReportNext, OrderNext

\* The columns of the table, the requests and the order numbers keep their
\* types.
THEOREM ReportTypeCorrect == ReportSpec => []ReportTypeOK
<1>1. CoreInv /\ CoreInv' /\ ReportTypeOK /\ [ReportNext]_allVars => ReportTypeOK'
  BY ReportTypeNext DEF CoreInv, BillingInv
<1> QED
  BY <1>1, ReportTypeInit, CoreInvariant, PTL DEF ReportSpec

-----------------------------------------------------------------------------
(* One number for the created order and its row *)

\* Why they agree: as long as a created session is open, the order has the
\* number it was created with, unless a remote start replaced it.
NameInv ==
  /\ \A i \in DOMAIN createOrder : createOrder[i] # 0
  /\ bStartCharging =>
       \A i \in DOMAIN createOrder :
         createOrder[i] = session
           => createFlow[i] = flowNo \/ createOrder[i] \in renamed
  /\ CreateMatchesRow

\* What NameInv is about stays, but for the name of a closed order.
NameKept ==
  /\ UNCHANGED <<createOrder, createFlow, consume, flowno, renamed>>
  /\ \/ ~bStartCharging'
     \/ UNCHANGED <<bStartCharging, session, flowNo>>

\* A step that keeps the order and its histories keeps the numbers together.
LEMMA NameKeptInv == NameInv /\ NameKept => NameInv'
BY DEF NameInv, NameKept, CreateMatchesRow

\* The order number of a created session is added to the histories.
LEMMA NameCreated ==
  ASSUME CoreInv, ReportTypeOK, NameInv, NEW part \in VinParts, ReportVin(part),
         createOrder' # createOrder
  PROVE  NameInv'
<1>1. /\ createOrder' = Append(createOrder, session)
      /\ createFlow' = Append(createFlow, flowNo)
      /\ UNCHANGED <<consume, flowno, renamed, flowNo, session, bStartCharging>>
  BY CreateStep DEF CoreInv, BillingInv, ReportVin, VinFrame, nameVars, flagVars
<1>2. /\ createOrder \in Seq(Nat) /\ session \in Nat
      /\ createFlow \in Seq(FlowNo) /\ flowNo \in FlowNo
      /\ Len(createFlow) = Len(createOrder)
  BY DEF CoreInv, BillingInv, TypeOK, ReportTypeOK
<1>3. /\ DOMAIN createOrder' = 1 .. Len(createOrder) + 1
      /\ DOMAIN createOrder = 1 .. Len(createOrder)
      /\ \A i \in DOMAIN createOrder : createOrder'[i] = createOrder[i]
      /\ createOrder'[Len(createOrder) + 1] = session
      /\ Len(createOrder') = Len(createOrder) + 1
  BY <1>1, <1>2, AppendFacts
<1>4. /\ \A i \in DOMAIN createOrder : createFlow'[i] = createFlow[i]
      /\ createFlow'[Len(createOrder) + 1] = flowNo
  BY <1>1, <1>2, AppendFacts
<1>5. session # 0 /\ ~Billed(session)
  <2>1. CreatedOnceStep
    <3>1. [Next]_vars
      BY DEF ReportVin, Next
    <3> QED
      BY <3>1, CreatedOnceNext DEF CoreInv, BillingInv
  <2> QED
    BY <1>3, <2>1 DEF CreatedOnceStep
<1>6. \A j \in DOMAIN consume : consume[j].session # session
  BY <1>5 DEF Billed
<1>7. \A i \in DOMAIN createOrder' : i \in DOMAIN createOrder \/ i = Len(createOrder) + 1
  BY <1>2, <1>3
<1>8. \A i \in DOMAIN createOrder' : createOrder'[i] # 0
  BY <1>3, <1>5, <1>7 DEF NameInv
<1>9. ASSUME bStartCharging, NEW i \in DOMAIN createOrder',
             createOrder'[i] = session
      PROVE  createFlow'[i] = flowNo \/ createOrder'[i] \in renamed
  BY <1>3, <1>4, <1>7, <1>9 DEF NameInv
<1>10. ASSUME NEW i \in DOMAIN createOrder', NEW j \in DOMAIN consume,
              createOrder'[i] = consume[j].session
       PROVE  createFlow'[i] = flowno[j] \/ createOrder'[i] \in renamed
  BY <1>3, <1>4, <1>6, <1>7, <1>10 DEF NameInv, CreateMatchesRow
<1> QED
  BY <1>1, <1>8, <1>9, <1>10 DEF NameInv, CreateMatchesRow

\* A new row has the number of the order as it is.
LEMMA NameBilled ==
  ASSUME CoreInv, ReportTypeOK, NameInv, [Next]_vars, RequestUpdate,
         consume' # consume, ~bStartCharging',
         UNCHANGED <<createOrder, createFlow, renamed>>
  PROVE  NameInv'
<1>1. /\ Bills
      /\ DOMAIN consume = 1 .. Len(consume)
      /\ DOMAIN consume' = 1 .. Len(consume) + 1
      /\ Len(consume) \in Nat
      /\ \A j \in DOMAIN consume : consume'[j] = consume[j]
      /\ consume'[Len(consume) + 1].session = session
  BY RowAdded DEF CoreInv, BillingInv
<1>2. /\ \A j \in DOMAIN consume : flowno'[j] = flowno[j]
      /\ flowno'[Len(consume) + 1] = flowNo
  <2>1. flowno' = Append(flowno, flowNo)
    BY DEF RequestUpdate
  <2> QED
    BY <1>1, <2>1, AppendFacts DEF ReportTypeOK
<1>3. ASSUME NEW i \in DOMAIN createOrder, createOrder[i] = session
      PROVE  createFlow[i] = flowNo \/ createOrder[i] \in renamed
  <2>1. bStartCharging
    BY <1>1, <1>3 DEF Bills, CoreInv, BillingInv, SessionInv, NameInv
  <2> QED
    BY <1>3, <2>1 DEF NameInv
<1>4. ASSUME NEW i \in DOMAIN createOrder, NEW j \in DOMAIN consume',
             createOrder[i] = consume'[j].session
      PROVE  createFlow[i] = flowno'[j] \/ createOrder[i] \in renamed
  <2>1. CASE j \in DOMAIN consume
    BY <1>1, <1>2, <1>4, <2>1 DEF NameInv, CreateMatchesRow
  <2>2. CASE j = Len(consume) + 1
    BY <1>1, <1>2, <1>3, <1>4, <2>2
  <2> QED
    BY <1>1, <2>1, <2>2
<1> QED
  BY <1>4 DEF NameInv, CreateMatchesRow

\* Every step keeps the numbers together.
LEMMA NameNext ==
  ASSUME CoreInv, ReportTypeOK, NameInv, [ReportNext]_allVars
  PROVE  NameInv'
<1> USE DEF reportVars, nameRest, answerVars
<1>0. [Next]_vars
  BY ReportStep
<1>1. ASSUME NEW now \in Times, ReportStart(now)
      PROVE  NameInv'
  <2>1. /\ UNCHANGED <<createOrder, createFlow, consume, flowno, renamed>>
        /\ session' = sessions + 1
    BY <1>1 DEF ReportStart, StartFrameAccepted, CreateFlowNo, sentVars
  <2>2. \A i \in DOMAIN createOrder : createOrder[i] <= sessions /\ createOrder[i] \in Nat
    BY DEF CoreInv, CreationInv, BillingInv, TypeOK
  <2>3. \A i \in DOMAIN createOrder : createOrder[i] # session'
    BY <2>1, <2>2 DEF CoreInv, BillingInv, TypeOK
  <2> QED
    BY <2>1, <2>3 DEF NameInv, CreateMatchesRow
<1>2. ASSUME NEW part \in VinParts, ReportVin(part)
      PROVE  NameInv'
  <2>1. CASE createOrder' = createOrder
    <3>1. NameKept
      BY <1>2, <2>1 DEF ReportVin, VinFrame, NameKept, nameVars, flagVars
    <3> QED
      BY <3>1, NameKeptInv
  <2> QED
    BY <1>2, <2>1, NameCreated
<1>3. ASSUME NEW part \in BillParts, ReportBill(part)
      PROVE  NameInv'
  <2>1. UNCHANGED <<createOrder, createFlow, renamed, flowNo, session>>
    BY <1>3 DEF ReportBill, BillFrame, nameVars
  <2>2. CASE consume' = consume
    <3>1. flowno' = flowno
      BY <1>3, <2>2 DEF ReportBill, RequestUpdate
    <3>2. ~bStartCharging' \/ bStartCharging' = bStartCharging
      BY <1>3 DEF ReportBill, BillFrame, flagVars
    <3> QED
      BY <2>1, <2>2, <3>1, <3>2, NameKeptInv DEF NameKept
  <2>3. CASE consume' # consume
    <3>1. ~bStartCharging'
      BY <1>0, <2>3, RowAdded DEF Bills, CoreInv, BillingInv
    <3> QED
      BY <1>0, <1>3, <2>1, <2>3, <3>1, NameBilled DEF ReportBill
  <2> QED
    BY <2>2, <2>3
<1>4. CASE ReportComplete
  <2>1. UNCHANGED <<createOrder, createFlow, renamed>> /\ ~bStartCharging' /\ RequestUpdate
    BY <1>4 DEF ReportComplete, CompleteOrder, ResetMainParam
  <2>2. CASE consume' = consume
    BY <2>1, <2>2, NameKeptInv DEF NameKept, RequestUpdate
  <2> QED
    BY <1>0, <2>1, <2>2, NameBilled
<1>5. CASE ReportRestart
  <2>1. NameKept
    BY <1>5 DEF ReportRestart, Restart, ResetMainParam, NameKept, sentVars
  <2> QED
    BY <2>1, NameKeptInv
<1>6. CASE ReportQuiet
  <2>1. NameKept
    BY <1>6 DEF ReportQuiet, StartFrameAnswered, StopFrame, StopFrameLost,
       HeartBeatSettles, HeartBeatClearsStatus, MeterFrame, NameKept,
       sentVars, flagVars, nameVars
  <2> QED
    BY <2>1, NameKeptInv
<1>7. CASE RemoteStart
  <2>1. /\ UNCHANGED <<createOrder, createFlow, consume, flowno, bStartCharging,
                       session>>
        /\ renamed \subseteq renamed'
        /\ bStartCharging => session \in renamed'
    BY <1>7 DEF RemoteStart, vars, sentVars, flagVars, nameVars
  <2> QED
    BY <2>1 DEF NameInv, CreateMatchesRow
<1>8. CASE \/ \E type \in {"11", "other"} : SetChargeType(type)
           \/ \E i \in updates : UpdateAccepted(i) \/ UpdateFailed(i)
           \/ UNCHANGED allVars
  <2>1. NameKept
    BY <1>8 DEF SetChargeType, UpdateAccepted, UpdateFailed, AnswerOrder, allVars,
       vars, sentVars, flagVars, nameVars, NameKept
  <2> QED
    BY <2>1, NameKeptInv
<1> QED
  BY <1>1, <1>2, <1>3, <1>4, <1>5, <1>6, <1>7, <1>8 DEF ReportNext, OrderNext

\* The platform sees one order number for the created order and its bill,
\* unless a remote start replaced the number while the session was open.
THEOREM RowsMatchCreation == ReportSpec => []CreateMatchesRow
<1>1. ReportInit => NameInv
  BY DEF ReportInit, Init, NameInv, CreateMatchesRow
<1>2. CoreInv /\ ReportTypeOK /\ NameInv /\ [ReportNext]_allVars => NameInv'
  BY NameNext
<1>3. NameInv => CreateMatchesRow
  BY DEF NameInv
<1> QED
  BY <1>1, <1>2, <1>3, CoreInvariant, ReportTypeCorrect, PTL DEF ReportSpec

-----------------------------------------------------------------------------
(* The table *)

\* Why the rows and the order numbers stay within the bounds of the table: a
\* row needs a session, or a start of the process that left bConsume unset.
SessionBound == sessions <= MaxSessions /\ restarts <= MaxRestarts

RowBound == Len(consume) + (IF bConsume THEN 0 ELSE 1) <= sessions + restarts + 1

\* The order numbers that can occur.
TableFlowNo ==
  [by : {"nobody", "gateway", "platform"}, n : (0 .. MaxRemotes) \union Times]

TableInv ==
  /\ SessionBound
  /\ RowBound
  /\ remotes <= MaxRemotes
  /\ flowNo \in TableFlowNo

\* Initially nothing is counted.
LEMMA TableInvInit == ReportInit => TableInv
<1> SUFFICES ASSUME ReportInit PROVE TableInv
  OBVIOUS
<1>1. SessionBound /\ RowBound
  BY BoundAssumption DEF ReportInit, Init, SessionBound, RowBound
<1>2. flowNo \in TableFlowNo /\ remotes <= MaxRemotes
  BY RemoteAssumption DEF ReportInit, NoFlow, TableFlowNo
<1> QED
  BY <1>1, <1>2 DEF TableInv

\* A session is opened, and the process restarted, within the bounds only.
LEMMA SessionBoundNext ==
  ASSUME TypeOK, SessionBound, [Next]_vars
  PROVE  SessionBound'
<1> USE DEF SessionBound, nameVars
<1>1. ASSUME NEW now \in Times, StartFrameAccepted(now) PROVE SessionBound'
  BY <1>1, BoundAssumption DEF StartFrameAccepted, CreateFlowNo, TypeOK
<1>2. CASE Restart
  BY <1>2, BoundAssumption DEF Restart, TypeOK
<1>3. CASE UNCHANGED <<sessions, restarts>>
  BY <1>3
<1> QED
  BY <1>1, <1>2, <1>3 DEF Next, StartFrameAnswered, StopFrame, StopFrameLost, VinFrame,
     BillFrame, HeartBeatSettles, HeartBeatClearsStatus, MeterFrame, CompleteOrder, vars

\* Every row is counted against its session or a start of the process.
LEMMA RowBoundNext ==
  ASSUME TypeOK, RowBound, [Next]_vars
  PROVE  RowBound'
<1>1. Len(consume) \in Nat
  BY DEF TypeOK
<1>2. CASE Bills
  <2>1. PICK money \in Amount : consume' = Append(consume, RowOf(money))
    BY <1>2 DEF Bills
  <2>2. RowOf(money) \in Row
    BY DEF RowOf, Row, TypeOK
  <2>3. Len(consume') = Len(consume) + 1
    BY <2>1, <2>2, AppendFacts DEF TypeOK
  <2> QED
    BY <1>1, <1>2, <2>3 DEF Bills, RowBound, TypeOK
<1>3. CASE Quiet
  BY <1>3 DEF Quiet, RowBound
<1>4. CASE Opens \/ Forgets \/ Crashes
  BY <1>1, <1>4 DEF Opens, Forgets, Crashes, RowBound, TypeOK
<1> QED
  BY <1>2, <1>3, <1>4, StepEffect

\* The order has a number the table knows, whoever gave it.
LEMMA NumberBoundNext ==
  ASSUME TableInv, ReportTypeOK, [ReportNext]_allVars
  PROVE  remotes' <= MaxRemotes /\ flowNo' \in TableFlowNo
<1> USE DEF TableInv, nameRest
<1>1. NoFlow \in TableFlowNo
  BY RemoteAssumption DEF NoFlow, TableFlowNo
<1>2. ASSUME NEW now \in Times, ReportStart(now)
      PROVE  remotes' <= MaxRemotes /\ flowNo' \in TableFlowNo
  BY <1>2 DEF ReportStart, NameOrder, TableFlowNo
<1>3. CASE ReportComplete \/ ReportRestart
  BY <1>1, <1>3 DEF ReportComplete, ReportRestart, ForgetName
<1>4. CASE RemoteStart
  BY <1>4, RemoteAssumption DEF RemoteStart, TableFlowNo, ReportTypeOK
<1>5. ASSUME NEW type \in {"11", "other"}, SetChargeType(type)
      PROVE  remotes' <= MaxRemotes /\ flowNo' \in TableFlowNo
  BY <1>5, RemoteAssumption DEF SetChargeType, ReportTypeOK
<1>6. CASE \/ (\E part \in VinParts : ReportVin(part))
           \/ (\E part \in BillParts : ReportBill(part))
           \/ ReportQuiet
           \/ (\E i \in updates : UpdateAccepted(i) \/ UpdateFailed(i))
           \/ UNCHANGED allVars
  BY <1>6 DEF ReportVin, ReportBill, ReportQuiet, reportVars, UpdateAccepted, UpdateFailed,
              allVars
<1> QED
  BY <1>2, <1>3, <1>4, <1>5, <1>6 DEF ReportNext, OrderNext

\* The counts and numbers stay within the bounds of the table.
LEMMA TableInvNext ==
  ASSUME TypeOK, ReportTypeOK, TableInv, [ReportNext]_allVars
  PROVE  TableInv'
<1>1. [Next]_vars
  BY ReportStep
<1>2. SessionBound' /\ RowBound'
  BY <1>1, SessionBoundNext, RowBoundNext DEF TableInv
<1> QED
  BY <1>2, NumberBoundNext DEF TableInv

\* A new row of the connector is a new row of the table that is not marked.
LEMMA RowInserted ==
  ASSUME TypeOK, ReportTypeOK, TableInv, [Next]_vars, RequestUpdate,
         UNCHANGED send_success
  PROVE  [Table!UploadNext]_(Table!uploadVars)
<1>1. CASE consume' = consume
  BY <1>1 DEF RequestUpdate, Table!uploadVars
<1>2. CASE consume' # consume
  <2>1. flowno' = Append(flowno, flowNo)
    BY <1>2 DEF RequestUpdate
  <2>2. ~bConsume
    BY <1>2, RowAdded DEF Bills
  <2>3. Len(flowno) < MaxSessions + MaxRestarts + 1
    <3>1. Len(flowno) = Len(consume) /\ Len(consume) \in Nat
      BY DEF ReportTypeOK, TypeOK
    <3>2. sessions <= MaxSessions /\ restarts <= MaxRestarts
      BY DEF TableInv, SessionBound
    <3> QED
      BY <2>2, <3>1, <3>2, BoundAssumption DEF TableInv, RowBound, TypeOK
  <2>4. Table!InsertRow(flowNo)
    BY <2>1, <2>3 DEF Table!InsertRow
  <2> QED
    BY <2>4 DEF Table!UploadNext, TableInv, TableFlowNo
<1> QED
  BY <1>1, <1>2

\* Every step of the connector is one the table allows its users, or none.
LEMMA TableNext ==
  ASSUME TypeOK, ReportTypeOK, TableInv, [ReportNext]_allVars
  PROVE  [Table!UploadNext]_(Table!uploadVars)
<1> USE DEF answerVars, reportVars, Table!uploadVars
<1>1. ASSUME NEW part \in BillParts, ReportBill(part)
      PROVE  [Table!UploadNext]_(Table!uploadVars)
  BY <1>1, RowInserted DEF ReportBill, Next
<1>2. CASE ReportComplete
  BY <1>2, RowInserted DEF ReportComplete, Next
<1>3. ASSUME NEW i \in updates, UpdateAccepted(i)
      PROVE  Table!UploadNext
  <2>1. Table!UpdateAccepted(flowNo)
    BY <1>3 DEF UpdateAccepted, MarkRows, RowsOf, Table!UpdateAccepted, Table!MarkRows,
                Table!RowsOf
  <2> QED
    BY <2>1 DEF Table!UploadNext, TableInv, TableFlowNo
<1>4. CASE \/ (\E now \in Times : ReportStart(now))
           \/ (\E part \in VinParts : ReportVin(part))
           \/ ReportRestart
           \/ ReportQuiet
           \/ RemoteStart
           \/ (\E type \in {"11", "other"} : SetChargeType(type))
           \/ (\E i \in updates : UpdateFailed(i))
           \/ UNCHANGED allVars
  <2>1. UNCHANGED <<flowno, send_success>>
    BY <1>4 DEF ReportStart, ReportVin, ReportRestart, ReportQuiet, RemoteStart,
                SetChargeType, UpdateFailed, allVars
  <2> QED
    BY <2>1
<1> QED
  BY <1>1, <1>2, <1>3, <1>4 DEF ReportNext, OrderNext

\* What OrderUpload assumes of its constants holds for the connector's.
LEMMA TableAssumptions ==
  /\ NoFlow \in TableFlowNo
  /\ MaxSessions + MaxRestarts + 1 \in Nat
BY BoundAssumption, RemoteAssumption DEF NoFlow, TableFlowNo

\* The connector uses the table as the uploader expects of it: within its
\* bounds it adds unmarked rows at the end and marks all rows of one number,
\* whatever happens to its order in between. What is proved about the
\* uploader holds with this connector for an environment.
THEOREM ConnectorUsesTable == ReportSpec => UsesTable
<1>1. ReportInit => Table!UploadInit
  BY DEF ReportInit, Table!UploadInit
<1>2. CoreInv /\ CoreInv' /\ ReportTypeOK /\ TableInv /\ [ReportNext]_allVars
        => TableInv' /\ [Table!UploadNext]_(Table!uploadVars)
  BY TableInvNext, TableNext DEF CoreInv, BillingInv
<1> QED
  BY <1>1, <1>2, TableInvInit, CoreInvariant, ReportTypeCorrect, PTL
  DEF ReportSpec, UsesTable, Table!UploadSpec
=============================================================================
