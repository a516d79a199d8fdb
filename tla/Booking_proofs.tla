--------------------------- MODULE Booking_proofs ---------------------------
(***************************************************************************)
(* Proofs about Booking, for any accounts, charge types and bounds. The    *)
(* safety properties follow from one inductive invariant: a kept booking   *)
(* has a timer of its own, and the account it can be taken over by is one  *)
(* that was named since it was made, or the empty account.                 *)
(***************************************************************************)
EXTENDS Booking, TLAPS

\* The account a kept booking compares with was named since it was made.
NamedAccount == m_bStartBook => personalUserId \in named \union {NoAccount}

BookingInv == TypeOK /\ KeptHasTimer /\ NamedAccount

-----------------------------------------------------------------------------
(* Type correctness. The flags and the other variables are kept apart.     *)

Flags == m_bStartBook \in BOOLEAN /\ settling \in BOOLEAN

Data ==
  /\ userChargeType \in Types \union {NoType}
  /\ personalUserId \in Accounts \union {NoAccount}
  /\ orderNo \in 0 .. created
  /\ timers \in SUBSET (1 .. booking)
  /\ chargerState \in 0 .. 2
  /\ asked \in Seq({"book", "cancel"})
  /\ created \in Nat
  /\ updated \in SUBSET (0 .. created)
  /\ booking \in Nat
  /\ holder \in Accounts \union {NoAccount}
  /\ named \in SUBSET Accounts

\* The type invariant consists of the flags and the other variables.
LEMMA TypeParts == TypeOK <=> Flags /\ Data
BY DEF TypeOK, Flags, Data

\* Initially nothing is booked.
LEMMA BookingInit == Init => BookingInv
<1> SUFFICES ASSUME Init PROVE BookingInv
  OBVIOUS
<1>1. Flags
  BY DEF Init, Flags
<1>2. Data
  <2>1. /\ orderNo = 0 /\ created = 0 /\ timers = {} /\ booking = 0
        /\ asked = <<>> /\ updated = {} /\ named = {} /\ chargerState = 0
        /\ holder = NoAccount /\ userChargeType = NoType /\ personalUserId = NoAccount
    BY DEF Init
  <2> QED
    BY <2>1 DEF Data
<1>3. ~m_bStartBook
  BY DEF Init
<1> QED
  BY <1>1, <1>2, <1>3, TypeParts DEF BookingInv, KeptHasTimer, NamedAccount

\* Every step sets the flags to truth values.
LEMMA FlagsNext == Flags /\ [Next]_vars => Flags'
BY DEF Flags, Next, vars, verifyVars, bookVars, pileVars, BookCharger, KeepBooking,
   CancelBooking, TakeControl, BookAnswered, CancelAnswered, AnswerLost,
   ReportState, ReadyToFinishOrder, CardFrame, CompleteOrder, CheckOverBookOrder,
   Restart

\* A command is added behind the commands the pile has not answered.
LEMMA SendType ==
  ASSUME Data, NEW command \in {"book", "cancel"}, SendToPile(command)
  PROVE  asked' \in Seq({"book", "cancel"})
BY DEF Data, SendToPile

\* The pile answers or loses the first of them.
LEMMA AnswerType ==
  ASSUME Data, asked # <<>>, asked' = Tail(asked)
  PROVE  asked' \in Seq({"book", "cancel"})
BY DEF Data

\* An update is sent for the order there is, or for none.
LEMMA UpdateType ==
  ASSUME Data, NEW type, CancleBookOrder(type)
  PROVE  updated' \in SUBSET (0 .. created)
BY DEF Data, CancleBookOrder

\* Clearing the booking fields keeps their types.
LEMMA ResetType ==
  ASSUME Data, ResetBookMsg, created' = created
  PROVE  /\ userChargeType' \in Types \union {NoType}
         /\ personalUserId' \in Accounts \union {NoAccount}
         /\ orderNo' \in 0 .. created'
BY DEF Data, ResetBookMsg

\* Every step keeps the types of the other variables: order numbers never
\* exceed the orders created, and timers never the bookings kept.
LEMMA DataNext == Data /\ [Next]_vars => Data'
<1> SUFFICES ASSUME Data, [Next]_vars PROVE Data'
  OBVIOUS
<1>1. ASSUME NEW type \in Types, NEW account \in Accounts,
             BookCharger(type, account)
      PROVE  Data'
  <2>1. /\ timers' \in SUBSET (1 .. booking')
        /\ booking' \in Nat
        /\ holder' \in Accounts \union {NoAccount}
        /\ named' \in SUBSET Accounts
    <3>1. CASE KeepBooking(account)
      BY <3>1 DEF Data, KeepBooking
    <3>2. CASE /\ named' = named \union {account}
               /\ UNCHANGED <<m_bStartBook, timers, booking, holder>>
      BY <3>2 DEF Data
    <3> QED
      BY <1>1, <3>1, <3>2 DEF BookCharger
  <2>2. /\ userChargeType' = type /\ personalUserId' = account
        /\ SendToPile("book")
        /\ UNCHANGED <<orderNo, chargerState, created, updated>>
    BY <1>1 DEF BookCharger, pileVars, orderVars
  <2> QED
    BY <2>1, <2>2, SendType DEF Data
<1>2. CASE CancelBooking
  <2>1. /\ SendToPile("cancel")
        /\ UNCHANGED <<userChargeType, personalUserId, orderNo, timers, booking,
                       holder, named, chargerState, created, updated>>
    BY <1>2 DEF CancelBooking, verifyVars, pileVars, orderVars
  <2> QED
    BY <2>1, SendType DEF Data
<1>3. ASSUME NEW type \in Types, NEW account \in Accounts \union {NoAccount},
             TakeControl(type, account)
      PROVE  Data'
  <2>1. updated' \in SUBSET (0 .. created)
    BY <1>3, UpdateType DEF TakeControl, Data
  <2>2. /\ userChargeType' = type
        /\ UNCHANGED <<personalUserId, orderNo, timers, booking, holder, named,
                       chargerState, asked, created>>
    BY <1>3 DEF TakeControl, pileVars
  <2> QED
    BY <2>1, <2>2 DEF Data
<1>4. CASE BookAnswered
  <2>1. asked' \in Seq({"book", "cancel"})
    BY <1>4, AnswerType DEF BookAnswered
  <2>2. /\ orderNo' \in 0 .. created'
        /\ created' \in Nat
        /\ updated' \in SUBSET (0 .. created')
    BY <1>4 DEF BookAnswered, CreateBookOrder, Data
  <2>3. UNCHANGED <<userChargeType, personalUserId, timers, booking, holder,
                    named, chargerState>>
    BY <1>4 DEF BookAnswered, bookVars, pileVars
  <2> QED
    BY <2>1, <2>2, <2>3 DEF Data
<1>5. CASE CancelAnswered
  <2>1. asked' \in Seq({"book", "cancel"})
    BY <1>5, AnswerType DEF CancelAnswered
  <2>2. UNCHANGED <<timers, booking, holder, named, chargerState, created>>
    BY <1>5 DEF CancelAnswered, bookVars, pileVars
  <2>3. CASE userChargeType \in Reported
    <3>1. CancleBookOrder(userChargeType) /\ ResetBookMsg
      BY <1>5, <2>3 DEF CancelAnswered
    <3> QED
      BY <2>1, <2>2, <3>1, UpdateType, ResetType DEF Data
  <2>4. CASE userChargeType \notin Reported
    <3>1. UNCHANGED <<userChargeType, personalUserId, orderNo, updated>>
      BY <1>5, <2>4 DEF CancelAnswered, verifyVars
    <3> QED
      BY <2>1, <2>2, <3>1 DEF Data
  <2> QED
    BY <2>3, <2>4
<1>6. CASE AnswerLost
  <2>1. asked' \in Seq({"book", "cancel"})
    BY <1>6, AnswerType DEF AnswerLost
  <2>2. UNCHANGED <<userChargeType, personalUserId, orderNo, timers, booking,
                    holder, named, chargerState, created, updated>>
    BY <1>6 DEF AnswerLost, verifyVars, bookVars, pileVars, orderVars
  <2> QED
    BY <2>1, <2>2 DEF Data
<1>7. ASSUME NEW state \in 0 .. 2, ReportState(state)
      PROVE  Data'
  BY <1>7 DEF ReportState, verifyVars, bookVars, orderVars, Data
<1>8. CASE ReadyToFinishOrder
  <2>1. UNCHANGED <<userChargeType, personalUserId, orderNo, timers, booking, asked,
                    holder, named, chargerState, created, updated>>
    BY <1>8 DEF ReadyToFinishOrder, verifyVars, bookVars, orderVars
  <2> QED
    BY <2>1 DEF Data
<1>9. CASE CardFrame
  <2>1. CardType \in Types
    BY TypesAssumption DEF Types
  <2> QED
    BY <1>9, <2>1 DEF CardFrame, bookVars, pileVars, orderVars, Data
<1>10. CASE CompleteOrder
  <2>1. /\ ResetBookMsg
        /\ UNCHANGED <<timers, booking, holder, named, chargerState, asked, created, updated>>
    BY <1>10 DEF CompleteOrder, bookVars, orderVars
  <2> QED
    BY <2>1, ResetType DEF Data
<1>11. ASSUME NEW b \in timers, CheckOverBookOrder(b)
       PROVE  Data'
  <2>1. updated' \in SUBSET (0 .. created)
    BY <1>11, UpdateType DEF CheckOverBookOrder, Data
  <2>2. /\ timers' = timers \ {b}
        /\ UNCHANGED <<userChargeType, personalUserId, orderNo, booking, holder,
                       named, chargerState, asked, created>>
    BY <1>11 DEF CheckOverBookOrder, verifyVars, pileVars
  <2> QED
    BY <2>1, <2>2 DEF Data
<1>12. CASE Restart
  <2>1. /\ ResetBookMsg /\ timers' = {} /\ chargerState' = 0
        /\ UNCHANGED <<booking, holder, named, asked, created, updated>>
    BY <1>12 DEF Restart, orderVars
  <2> QED
    BY <2>1, ResetType DEF Data
<1>13. CASE UNCHANGED vars
  BY <1>13 DEF vars, verifyVars, bookVars, pileVars, orderVars, Data
<1> QED
  BY <1>1, <1>2, <1>3, <1>4, <1>5, <1>6, <1>7, <1>8, <1>9, <1>10, <1>11, <1>12,
     <1>13 DEF Next

\* Every step keeps the type invariant.
LEMMA TypeNext == TypeOK /\ [Next]_vars => TypeOK'
<1>1. Flags' /\ Data' => TypeOK'
  BY DEF TypeOK, Flags, Data
<1> QED
  BY <1>1, TypeParts, FlagsNext, DataNext

-----------------------------------------------------------------------------
(* The timer of a kept booking *)

\* Only a step that ends the booking removes its timer, and a step that
\* replaces it arms a new one.
LEMMA TimerNext == TypeOK /\ KeptHasTimer /\ [Next]_vars => KeptHasTimer'
<1> SUFFICES ASSUME TypeOK, KeptHasTimer, [Next]_vars PROVE KeptHasTimer'
  OBVIOUS
<1> USE DEF KeptHasTimer
<1>1. ASSUME NEW type \in Types, NEW account \in Accounts,
             BookCharger(type, account)
      PROVE  KeptHasTimer'
  <2>1. CASE KeepBooking(account)
    <3>1. booking' \in timers'
      BY <2>1 DEF KeepBooking
    <3> QED
      BY <3>1
  <2>2. CASE UNCHANGED <<m_bStartBook, timers, booking, holder>>
    BY <2>2
  <2> QED
    BY <1>1, <2>1, <2>2 DEF BookCharger
<1>2. CASE CancelBooking
  BY <1>2 DEF CancelBooking
<1>3. ASSUME NEW type \in Types, NEW account \in Accounts \union {NoAccount},
             TakeControl(type, account)
      PROVE  KeptHasTimer'
  BY <1>3 DEF TakeControl
<1>4. CASE \/ BookAnswered \/ CancelAnswered \/ AnswerLost
           \/ (\E state \in 0 .. 2 : ReportState(state))
           \/ ReadyToFinishOrder \/ CardFrame \/ CompleteOrder \/ UNCHANGED vars
  <2>1. UNCHANGED bookVars
    BY <1>4 DEF BookAnswered, CancelAnswered, AnswerLost, ReportState,
       ReadyToFinishOrder, CardFrame, CompleteOrder, vars
  <2> QED
    BY <2>1 DEF bookVars
<1>5. ASSUME NEW b \in timers, CheckOverBookOrder(b)
      PROVE  KeptHasTimer'
  BY <1>5, m_bStartBook \in BOOLEAN DEF CheckOverBookOrder, TypeOK
<1>6. CASE Restart
  BY <1>6 DEF Restart
<1> QED
  BY <1>1, <1>2, <1>3, <1>4, <1>5, <1>6 DEF Next

\* The account of a kept booking changes by a booking command, which names
\* it, or is cleared.
LEMMA AccountNext == TypeOK /\ NamedAccount /\ [Next]_vars => NamedAccount'
<1> SUFFICES ASSUME TypeOK, NamedAccount, [Next]_vars PROVE NamedAccount'
  OBVIOUS
<1> USE DEF NamedAccount
<1>1. ASSUME NEW type \in Types, NEW account \in Accounts,
             BookCharger(type, account)
      PROVE  NamedAccount'
  BY <1>1 DEF BookCharger, KeepBooking
<1>2. CASE CancelBooking
  BY <1>2 DEF CancelBooking
<1>3. ASSUME NEW type \in Types, NEW account \in Accounts \union {NoAccount},
             TakeControl(type, account)
      PROVE  NamedAccount'
  BY <1>3 DEF TakeControl
<1>4. CASE CancelAnswered \/ CompleteOrder
  BY <1>4 DEF CancelAnswered, CompleteOrder, ResetBookMsg, verifyVars, bookVars
<1>5. CASE \/ BookAnswered \/ AnswerLost
           \/ (\E state \in 0 .. 2 : ReportState(state))
           \/ ReadyToFinishOrder \/ CardFrame \/ UNCHANGED vars
  BY <1>5 DEF BookAnswered, AnswerLost, ReportState, ReadyToFinishOrder,
     CardFrame, vars, verifyVars, bookVars
<1>6. ASSUME NEW b \in timers, CheckOverBookOrder(b)
      PROVE  NamedAccount'
  BY <1>6 DEF CheckOverBookOrder, verifyVars
<1>7. CASE Restart
  BY <1>7 DEF Restart
<1> QED
  BY <1>1, <1>2, <1>3, <1>4, <1>5, <1>6, <1>7 DEF Next

-----------------------------------------------------------------------------
(* Theorems *)

\* The inductive invariant holds in every state of the specification.
THEOREM BookingInvariant == Spec => []BookingInv
<1>1. BookingInv /\ [Next]_vars => BookingInv'
  BY TypeNext, TimerNext, AccountNext DEF BookingInv
<1> QED
  BY <1>1, BookingInit, PTL DEF Spec

\* bookCharger, takeControl and the timers keep the types of their variables.
THEOREM BookingTypeCorrect == Spec => []TypeOK
<1>1. BookingInv => TypeOK
  BY DEF BookingInv
<1> QED
  BY <1>1, BookingInvariant, PTL

\* A kept booking always has its own checkOverBookOrder timer pending.
THEOREM BookingHasTimer == Spec => []KeptHasTimer
<1>1. BookingInv => KeptHasTimer
  BY DEF BookingInv
<1> QED
  BY <1>1, BookingInvariant, PTL

\* takeControl lets no account through a kept booking that was not named by a
\* booking command since the booking was made.
THEOREM StrangersAreRefused == Spec => NoStranger
<1> DEFINE Refused ==
      \A type \in Types, account \in Accounts :
        TakeControl(type, account) /\ m_bStartBook /\ ~m_bStartBook'
          => account \in named
<1>1. BookingInv => Refused
  <2> SUFFICES ASSUME BookingInv, NEW type \in Types, NEW account \in Accounts,
                      TakeControl(type, account), m_bStartBook, ~m_bStartBook'
               PROVE  account \in named
    OBVIOUS
  <2>1. account = personalUserId
    BY DEF TakeControl, MayTake
  <2>2. personalUserId \in named \union {NoAccount}
    BY DEF BookingInv, NamedAccount
  <2> QED
    BY <2>1, <2>2, TypesAssumption
<1>2. BookingInv => [Refused]_vars
  BY <1>1
<1> QED
  BY <1>2, BookingInvariant, PTL DEF NoStranger
=============================================================================
