----------------------------- MODULE ChargeOrder -----------------------------
(***************************************************************************)
(* The charging order of one connector: CConnectorOrder (mOrder), the      *)
(* settlement timers of CEnneagonConnector (readyToFinishOrder,            *)
(* completeOrder), the amount CConnectorStatus keeps for the settlement,   *)
(* and the rows saveOrder inserts into the table "consume".                *)
(*                                                                         *)
(* All handlers run on the thread of the Qt event loop, so each of them is *)
(* one action. The pile is the environment: it begins a charge, repeats    *)
(* frames, ends the charge, sends the bill and reports its state. A stop   *)
(* frame may get lost and the gateway may be restarted at any moment.      *)
(*                                                                         *)
(* A session number is the time of its start in seconds. Timers of earlier *)
(* starts can end several sessions within a second, and the platform sets  *)
(* the clock (adjustdate): a number may be used again. What identifies a   *)
(* session is the history variable "session".                              *)
(*                                                                         *)
(* Abstractions. Only the start of a session reads the clock, which shows  *)
(* any of "Times" then. A money value is its provenance: which charge it   *)
(* belongs to and whether the pile sent it as a running meter value or as  *)
(* the bill. The VIN and bill frames are sets of parts, the bits of mRecv  *)
(* and m_consumeRecv. The order number of the platform (flowNo) belongs to *)
(* OrderReport. bCreateSuccess is left out: getPlatformFlowRetMsg sets it  *)
(* on a copy of the order, so decodeCanMsg always finds it FALSE.          *)
(***************************************************************************)
EXTENDS Naturals, Sequences, FiniteSets

CONSTANTS
  VinParts,       \* the frames 0x0842 that carry the VIN (three in the code)
  BillParts,      \* the frames of a bill (eight bits of m_consumeRecv)
  AmountPart,     \* the bill frame with the money, 0x0823
  Times,          \* times the clock may show, in milliseconds
  MaxCharges,     \* bound: charges the pile begins
  MaxSessions,    \* bound: sessions opened
  MaxMetered,     \* bound: only the first charges report a running amount
  MaxTimers,      \* bound: settlement timers pending at once
  MaxRestarts     \* bound: restarts of the gateway

ASSUME PartsAssumption == AmountPart \in BillParts /\ "start" \notin VinParts
ASSUME TimesAssumption == Times \subseteq Nat \ (0 .. 999)
ASSUME BoundAssumption ==
  /\ MaxCharges \in Nat
  /\ MaxSessions \in Nat
  /\ MaxMetered \in Nat
  /\ MaxTimers \in Nat
  /\ MaxRestarts \in Nat

VARIABLES
  pile,             \* the pile: "idle", "charging", "stopped" (its stop frame
                    \* was heard) or "unheard" (its stop frame was lost)
  charge,           \* how many charges the pile has begun
  bStartCharging,   \* mOrder: a session is open
  bConsume,         \* mOrder: the session has been billed
  mRecv,            \* mOrder: parts of the order creation received
  m_consumeRecv,    \* mOrder: parts of the bill received
  connectorFlowNo,  \* mOrder: session number given to the pile, 0 for ""
  amount,           \* mOrder: the money that will be billed
  m_fAmount,        \* mStatus: the last running amount
  staleTimers,      \* completeOrder timers armed before the last start
  freshTimers,      \* completeOrder timers armed since the last start
  session,          \* history: which session the order is of, 0 for none
  sessions,         \* history: how many sessions have been opened
  consume,          \* rows of the table "consume", in the order of insertion
  createOrder,      \* order creation requests: the session each is of
  restarts          \* how often the gateway has been restarted

pileVars  == <<pile, charge>>
flagVars  == <<bStartCharging, bConsume>>
recvVars  == <<mRecv, m_consumeRecv>>
nameVars  == <<connectorFlowNo, session, sessions>>
moneyVars == <<amount, m_fAmount>>
timerVars == <<staleTimers, freshTimers>>
sentVars  == <<consume, createOrder>>
vars == <<pileVars, flagVars, recvVars, nameVars, moneyVars, timerVars,
          sentVars, restarts>>

-----------------------------------------------------------------------------
(* Data *)

Amount   == [of : Nat, kind : {"none", "meter", "bill"}]
NoAmount == [of |-> 0, kind |-> "none"]
Row      == [connectorflowno : Nat, session : Nat, amount : Amount]

\* The bits of mRecv that complete the order creation (0x0f).
CreateParts == {"start"} \union VinParts

\* The session number of a session that starts at this time, in seconds.
SecondOf(now) == now \div 1000

\* Session n has a row.
Billed(n) == \E i \in DOMAIN consume : consume[i].session = n

-----------------------------------------------------------------------------
(* Helpers of the handlers. A definition named "...Defect" is not part of   *)
(* the model: it is a plausible slip in the definition below it, put there *)
(* to test that the properties notice it.                                  *)

\* resetMainParam and resetParam: everything but bConsume.
ResetMainParam ==
  /\ bStartCharging' = FALSE
  /\ mRecv' = {}
  /\ m_consumeRecv' = {}
  /\ connectorFlowNo' = 0
  /\ session' = 0
  /\ amount' = NoAmount

\* saveOrder: the row of the order as it is.
SaveOrder(money) ==
  consume' = Append(consume, [connectorflowno |-> connectorFlowNo,
                              session |-> session, amount |-> money])

ConsumeOrderDefect(money) == UNCHANGED bConsume /\ SaveOrder(money)

\* consumeOrder: the order counts as billed from now on.
ConsumeOrder(money) == bConsume' = TRUE /\ SaveOrder(money)

\* createFlowNo: the session number is the current time, used before or not.
CreateFlowNo(now) ==
  /\ sessions < MaxSessions
  /\ connectorFlowNo' = SecondOf(now)
  /\ sessions' = sessions + 1
  /\ session' = sessions'

ArmTimerDefect == UNCHANGED freshTimers

\* QTimer::singleShot(10000, completeOrder): one more timer, none is stopped.
ArmTimer ==
  /\ staleTimers + freshTimers < MaxTimers
  /\ freshTimers' = freshTimers + 1

TimerExpiresDefect == freshTimers' = freshTimers - 1 /\ UNCHANGED staleTimers

\* All settlement timers run 10 s, so the one armed first expires first.
TimerExpires ==
  \/ staleTimers > 0 /\ staleTimers' = staleTimers - 1 /\ UNCHANGED freshTimers
  \/ /\ staleTimers = 0 /\ freshTimers > 0
     /\ freshTimers' = freshTimers - 1 /\ UNCHANGED staleTimers

\* readyToFinishOrder: copy the status into the order and arm a timer.
ReadyToFinishOrder == amount' = m_fAmount /\ ArmTimer

-----------------------------------------------------------------------------
(* Frames from the pile *)

\* The pile sends a start frame: for a new charge, or again for this one.
PileStarts ==
  \/ /\ pile # "charging"
     /\ charge < MaxCharges
     /\ pile' = "charging"
     /\ charge' = charge + 1
  \/ /\ pile = "charging"
     /\ UNCHANGED pileVars

NoOpenSessionDefect == TRUE

NoOpenSession == ~bStartCharging

\* A start frame is the first part of the order creation and clears the bill.
StartParts == mRecv' = {"start"} /\ m_consumeRecv' = {}

\* 0x0850 type 1 with no session open: a session begins.
StartFrameAccepted(now) ==
  /\ NoOpenSession
  /\ PileStarts
  /\ StartParts
  /\ CreateFlowNo(now)
  /\ bStartCharging' = TRUE
  /\ bConsume' = FALSE
  /\ staleTimers' = staleTimers + freshTimers
  /\ freshTimers' = 0
  /\ UNCHANGED <<moneyVars, sentVars, restarts>>

\* 0x0850 type 1 with a session open: only the number is sent back again.
StartFrameAnswered ==
  /\ bStartCharging
  /\ PileStarts
  /\ UNCHANGED <<flagVars, recvVars, nameVars, moneyVars, timerVars, sentVars, restarts>>

\* 0x0850 type 2: the session stays open until a settlement timer expires.
StopFrame ==
  /\ pile # "idle"
  /\ pile' = "stopped"
  /\ mRecv' = {}
  /\ m_consumeRecv' = {}
  /\ ReadyToFinishOrder
  /\ UNCHANGED <<charge, flagVars, nameVars, m_fAmount, staleTimers, sentVars, restarts>>

\* The charge ends and the gateway does not get the stop frame.
StopFrameLost ==
  /\ pile = "charging"
  /\ pile' = "unheard"
  /\ UNCHANGED <<charge, flagVars, recvVars, nameVars, moneyVars, timerVars,
                 sentVars, restarts>>

RequestOrderDefect(recv) ==
  mRecv' = recv /\ createOrder' = Append(createOrder, session)

\* All parts are there: the platform is asked to create the order.
RequestOrder(recv) ==
  mRecv' = {} /\ createOrder' = Append(createOrder, session)

\* 0x0842: one part of the VIN.
VinFrame(part) ==
  /\ pile = "charging"
  /\ LET recv == mRecv \union {part} IN
     IF CreateParts \subseteq recv
     THEN RequestOrder(recv)
     ELSE mRecv' = recv /\ UNCHANGED createOrder
  /\ UNCHANGED <<pileVars, flagVars, m_consumeRecv, nameVars, moneyVars,
                 timerVars, consume, restarts>>

\* The bill frames 0x0816, 0x0823, 0x081d, 0x0814, 0x081e and 0x0824.
BillFrame(part) ==
  LET recv == m_consumeRecv \union {part}
      money == IF part = AmountPart THEN [of |-> charge, kind |-> "bill"]
               ELSE amount
  IN
  /\ pile \in {"stopped", "unheard"}
  /\ amount' = money
  /\ IF BillParts \subseteq recv /\ bStartCharging /\ ~bConsume
     THEN /\ m_consumeRecv' = {}
          /\ bStartCharging' = FALSE
          /\ ConsumeOrder(money)
     ELSE /\ m_consumeRecv' = recv
          /\ UNCHANGED <<flagVars, consume>>
  /\ UNCHANGED <<pileVars, mRecv, nameVars, m_fAmount, timerVars, createOrder, restarts>>

\* 0x0885 in state 3, more than 120 s after the start of the open session
\* by a clock that may have been set since (isOrderNeedToConsume): the stop
\* frame is not waited for.
HeartBeatSettles ==
  /\ pile \in {"stopped", "unheard"}
  /\ bStartCharging /\ ~bConsume
  /\ ReadyToFinishOrder
  /\ UNCHANGED <<pileVars, flagVars, recvVars, nameVars, m_fAmount, staleTimers,
                 sentVars, restarts>>

\* 0x0885 with a change to a state other than 2 and 3: handleHeartBeatMsg
\* clears the status. Any other heartbeat leaves the modelled state alone.
HeartBeatClearsStatus ==
  /\ pile # "charging"
  /\ m_fAmount' = NoAmount
  /\ UNCHANGED <<pileVars, flagVars, recvVars, nameVars, amount, timerVars,
                 sentVars, restarts>>

\* 0x0812: the running amount of the charge, after its end too.
MeterFrame ==
  /\ pile # "idle"
  /\ charge <= MaxMetered
  /\ m_fAmount' = [of |-> charge, kind |-> "meter"]
  /\ UNCHANGED <<pileVars, flagVars, recvVars, nameVars, amount, timerVars,
                 sentVars, restarts>>

-----------------------------------------------------------------------------
(* Timer and restart *)

SettleDefectTwice == ConsumeOrder(amount)

SettleDefectResetFirst ==
  IF bConsume THEN UNCHANGED <<bConsume, consume>>
  ELSE /\ bConsume' = TRUE
       /\ consume' = Append(consume, [connectorflowno |-> 0, session |-> 0,
                                      amount |-> NoAmount])

\* The order is billed unless its bill has been completed by its frames.
Settle ==
  IF bConsume THEN UNCHANGED <<bConsume, consume>> ELSE ConsumeOrder(amount)

\* completeOrder: a settlement timer expires. Nothing compares the session it
\* was armed for with the session that is open now.
CompleteOrder ==
  /\ TimerExpires
  /\ Settle
  /\ ResetMainParam
  /\ UNCHANGED <<pileVars, m_fAmount, sessions, createOrder, restarts>>

\* The process ends and starts again: the memory is lost, the table stays.
\* The constructor leaves bConsume uninitialised.
Restart ==
  /\ restarts < MaxRestarts
  /\ restarts' = restarts + 1
  /\ ResetMainParam
  /\ bConsume' \in BOOLEAN
  /\ m_fAmount' = NoAmount
  /\ staleTimers' = 0
  /\ freshTimers' = 0
  /\ UNCHANGED <<pileVars, sessions, sentVars>>

-----------------------------------------------------------------------------
Init ==
  /\ pile = "idle"
  /\ charge = 0
  /\ bStartCharging = FALSE
  /\ bConsume \in BOOLEAN
  /\ mRecv = {}
  /\ m_consumeRecv = {}
  /\ connectorFlowNo = 0
  /\ session = 0
  /\ amount = NoAmount
  /\ m_fAmount = NoAmount
  /\ staleTimers = 0
  /\ freshTimers = 0
  /\ sessions = 0
  /\ consume = <<>>
  /\ createOrder = <<>>
  /\ restarts = 0

Next ==
  \/ \E now \in Times : StartFrameAccepted(now)
  \/ StartFrameAnswered
  \/ StopFrame
  \/ StopFrameLost
  \/ \E part \in VinParts : VinFrame(part)
  \/ \E part \in BillParts : BillFrame(part)
  \/ HeartBeatSettles
  \/ HeartBeatClearsStatus
  \/ MeterFrame
  \/ CompleteOrder
  \/ Restart

Spec == Init /\ [][Next]_vars

\* A single-shot timer expires as long as the event loop runs.
FairSpec == Spec /\ WF_vars(CompleteOrder)

-----------------------------------------------------------------------------
(* Properties *)

\* Every variable keeps its type; in particular a timer that expires was
\* armed.
TypeOK ==
  /\ pile \in {"idle", "charging", "stopped", "unheard"}
  /\ charge \in Nat
  /\ bStartCharging \in BOOLEAN
  /\ bConsume \in BOOLEAN
  /\ mRecv \in SUBSET CreateParts
  /\ m_consumeRecv \in SUBSET BillParts
  /\ connectorFlowNo \in Nat
  /\ session \in Nat
  /\ amount \in Amount
  /\ m_fAmount \in Amount
  /\ staleTimers \in Nat
  /\ freshTimers \in Nat
  /\ sessions \in Nat
  /\ consume \in Seq(Row)
  /\ createOrder \in Seq(Nat)
  /\ restarts \in Nat

\* A session is billed at most once, although its bill can be completed by
\* its last frame and by any of several timers, and although another session
\* may have its number: two rows of "consume" that were made for the same
\* session are the same row.
BilledOnce ==
  \A i, j \in DOMAIN consume :
    consume[i].session = consume[j].session => i = j \/ consume[i].session = 0

\* No session disappears while the process runs: without a restart, every
\* session that was opened has a row of its own or is the open one.
NothingLost ==
  restarts = 0 =>
    \A n \in 1 .. sessions : Billed(n) \/ (bStartCharging /\ session = n)

\* A session whose stop frame was heard waits for a settlement timer: it can
\* not stay open for ever because its bill never becomes complete.
SettlementArmed ==
  pile = "stopped" /\ bStartCharging => freshTimers > 0

\* decodeCanMsg tests for a complete bill after every frame. Between two
\* frames there is never a complete bill of an open session, so only a bill
\* frame can make that test succeed, and no session starts with the bill
\* frames of the one before.
TailQuiet ==
  BillParts \subseteq m_consumeRecv => ~bStartCharging \/ bConsume

\* The uninitialised bConsume can put a row of no session, with an empty
\* session number, into the table, but at most one per run of the process.
AnonymousOncePerRun ==
  \A S \in SUBSET DOMAIN consume :
    (\A i \in S : consume[i].session = 0) => Cardinality(S) <= restarts + 1

\* An order is created on the platform once per session, for a session that
\* is open, and not after the session was billed, however VIN frames, start
\* frames and timers are interleaved.
CreatedOnceBeforeBilled ==
  [][createOrder' # createOrder =>
       LET n == createOrder'[Len(createOrder')] IN
       /\ n # 0
       /\ ~Billed(n)
       /\ \A i \in DOMAIN createOrder : createOrder[i] # n]_vars

\* The connector implements the ledger: sessions are opened one at a time and
\* an open session ends by its row or by a restart.
Ledger == INSTANCE BillingLedger WITH
  issued  <- sessions,
  open    <- IF bStartCharging THEN session ELSE 0,
  billed  <- {n \in 1 .. sessions : Billed(n)},
  crashes <- restarts
ImplementsLedger == Ledger!Spec

\* A session whose stop frame was heard is billed in the end, unless the
\* process is restarted first.
Settles ==
  \A n \in 1 .. MaxSessions, r \in 0 .. MaxRestarts :
    (pile = "stopped" /\ bStartCharging /\ session = n /\ restarts = r)
      ~> (Billed(n) \/ restarts # r)

-----------------------------------------------------------------------------
(* What the comments promise and the code does not do *)

\* Comment in front of decodeCanMsg: orders are created, updated and reset by
\* what the pile reports. So one bill of the pile makes at most one row.
BillEnteredOnce ==
  \A i, j \in DOMAIN consume :
    consume[i].amount.kind = "bill" /\ consume[j].amount = consume[i].amount => i = j

\* Comment in the start frame's handler: charging begins, a flow number is
\* made. So every charge the pile begins gets a session number of its own.
ChargeGetsNumber == [][charge' # charge => sessions' = sessions + 1]_vars

-----------------------------------------------------------------------------
(* What else does not hold *)

\* Two rows with one session number are of one session. (A timer of an earlier
\* session and a repeated start frame make two sessions within a second, and
\* so does a clock that is put back.)
NumberNamesSession ==
  \A i, j \in DOMAIN consume :
    consume[i].connectorflowno = consume[j].connectorflowno
      => consume[i].session = consume[j].session
=============================================================================
