------------------------------ MODULE Booking ------------------------------
(***************************************************************************)
(* The booking of one connector: CEnneagonConnector (bookCharger,          *)
(* takeControl, checkOverBookOrder) and the booking fields of CVerify,     *)
(* which the settlement of an order, a card and the pile's answers to      *)
(* booking commands (0x1884) change too.                                   *)
(*                                                                         *)
(* The platform books, cancels and takes control at any time. A booking    *)
(* command may get no answer from the pile. A booking that is kept by the  *)
(* gateway has a single-shot timer of its own length, so timers can expire *)
(* in any order; none is ever stopped. "booking", "holder" and "named" are *)
(* history variables.                                                      *)
(***************************************************************************)
EXTENDS Naturals, Sequences, FiniteSets

CONSTANTS
  Accounts,       \* accounts of the platform's users
  NoAccount,      \* the empty account
  Reported,       \* charge types with a book order on the platform: 3, 4
  Kept,           \* charge types whose booking the gateway keeps: 3, 4, 7, 8, 9
  Plain,          \* other charge types, "2" of a card among them
  CardType,       \* the charge type of a card
  NoType,         \* the empty charge type
  MaxBookings,    \* bound: bookings the gateway has kept
  MaxAsked,       \* bound: booking commands the pile has not answered
  MaxCreated      \* bound: book orders created on the platform

Types == Kept \union Plain

ASSUME TypesAssumption ==
  /\ Reported \subseteq Kept
  /\ CardType \in Plain
  /\ NoType \notin Types
  /\ NoAccount \notin Accounts
ASSUME BoundAssumption ==
  MaxBookings \in Nat /\ MaxAsked \in Nat /\ MaxCreated \in Nat

VARIABLES
  m_bStartBook,     \* the gateway keeps a booking
  userChargeType,   \* mVerify: the charge type of the last command or card
  personalUserId,   \* mVerify: the account of the booking
  orderNo,          \* mVerify: the book order, 0 for ""
  timers,           \* pending checkOverBookOrder timers, by their booking
  chargerState,     \* mStatus: 0 is off line, 1 stands by, 2 for all others
  settling,         \* a settlement timer is pending
  asked,            \* booking commands the pile has not answered
  created,          \* how many book orders were created
  updated,          \* the orders an update was sent for
  booking,          \* the kept bookings so far
  holder,           \* the account that made the last kept booking
  named             \* the accounts booking commands named since then

verifyVars == <<userChargeType, personalUserId, orderNo>>
bookVars   == <<m_bStartBook, timers, booking, holder, named>>
pileVars   == <<chargerState, settling>>
orderVars  == <<created, updated>>
vars == <<verifyVars, bookVars, pileVars, asked, orderVars>>

-----------------------------------------------------------------------------
(* Helpers. A definition named "...Defect" is a plausible slip in the one   *)
(* below it, put there to test the properties.                             *)

\* resetBookMsg.
ResetBookMsg ==
  /\ userChargeType' = NoType
  /\ personalUserId' = NoAccount
  /\ orderNo' = 0

\* cancleBookOrder under a charge type: the platform's book order is updated
\* if the type is one that has a book order; "orderNo" is not cleared.
CancleBookOrder(type) ==
  updated' = IF type \in Reported THEN updated \union {orderNo} ELSE updated

\* packBookOrderMsg: the book order gets a new number and is sent.
CreateBookOrder == created' = created + 1 /\ orderNo' = created'

SendToPile(command) ==
  /\ Len(asked) < MaxAsked
  /\ asked' = Append(asked, command)

KeepBookingDefect(account) ==
  /\ booking < MaxBookings
  /\ m_bStartBook' = TRUE
  /\ booking' = booking + 1
  /\ timers' = IF m_bStartBook THEN timers ELSE timers \union {booking'}
  /\ holder' = account
  /\ named' = {account}

\* The gateway keeps the booking: a timer of the booking's length is armed.
KeepBooking(account) ==
  /\ booking < MaxBookings
  /\ m_bStartBook' = TRUE
  /\ booking' = booking + 1
  /\ timers' = timers \union {booking'}
  /\ holder' = account
  /\ named' = {account}

MayTakeDefect(account) == account = personalUserId \/ personalUserId = NoAccount

\* takeControl compares the account with the one of the booking.
MayTake(account) == account = personalUserId

-----------------------------------------------------------------------------
(* Commands of the platform *)

\* bookCharger, order 1. The account is replaced also if no booking is kept.
BookCharger(type, account) ==
  /\ userChargeType' = type
  /\ personalUserId' = account
  /\ SendToPile("book")
  /\ IF type \in Kept /\ chargerState = 1
     THEN KeepBooking(account)
     ELSE /\ named' = named \union {account}
          /\ UNCHANGED <<m_bStartBook, timers, booking, holder>>
  /\ UNCHANGED <<orderNo, pileVars, orderVars>>

\* bookCharger, order 2. The timer goes on.
CancelBooking ==
  /\ m_bStartBook' = FALSE
  /\ SendToPile("cancel")
  /\ UNCHANGED <<verifyVars, timers, booking, holder, named, pileVars,
                 orderVars>>

\* takeControl: the type is replaced first; a kept booking lets only its
\* account through and ends. A command may carry no account.
TakeControl(type, account) ==
  /\ userChargeType' = type
  /\ IF m_bStartBook /\ MayTake(account)
     THEN m_bStartBook' = FALSE /\ CancleBookOrder(type)
     ELSE UNCHANGED <<m_bStartBook, updated>>
  /\ UNCHANGED <<personalUserId, orderNo, timers, booking, holder, named,
                 pileVars, asked, created>>

-----------------------------------------------------------------------------
(* The pile *)

\* 0x1884, whatever result it carries: a book order is created.
BookAnswered ==
  /\ asked # <<>> /\ Head(asked) = "book"
  /\ asked' = Tail(asked)
  /\ IF userChargeType \in Reported
     THEN created < MaxCreated /\ CreateBookOrder
     ELSE UNCHANGED <<created, orderNo>>
  /\ UNCHANGED <<userChargeType, personalUserId, bookVars, pileVars, updated>>

\* 0x1884: the book order is updated and the booking fields are cleared.
CancelAnswered ==
  /\ asked # <<>> /\ Head(asked) = "cancel"
  /\ asked' = Tail(asked)
  /\ IF userChargeType \in Reported
     THEN CancleBookOrder(userChargeType) /\ ResetBookMsg
     ELSE UNCHANGED <<verifyVars, updated>>
  /\ UNCHANGED <<bookVars, pileVars, created>>

\* The command or its answer gets lost.
AnswerLost ==
  /\ asked # <<>>
  /\ asked' = Tail(asked)
  /\ UNCHANGED <<verifyVars, bookVars, pileVars, orderVars>>

\* 0x0885: the state of the charger; or no frame for 30 ticks (0).
ReportState(state) ==
  /\ chargerState' = state
  /\ UNCHANGED <<verifyVars, bookVars, settling, asked, orderVars>>

\* A charge ends, readyToFinishOrder arms a settlement timer.
ReadyToFinishOrder ==
  /\ settling' = TRUE
  /\ UNCHANGED <<verifyVars, bookVars, chargerState, asked, orderVars>>

\* The last frame of a card: packVerifyMsg.
CardFrame ==
  /\ userChargeType' = CardType
  /\ UNCHANGED <<personalUserId, orderNo, bookVars, pileVars, asked, orderVars>>

-----------------------------------------------------------------------------
(* Timers *)

\* completeOrder: mVerify is reset, a kept booking is not asked about.
CompleteOrder ==
  /\ settling
  /\ settling' = FALSE
  /\ ResetBookMsg
  /\ UNCHANGED <<bookVars, chargerState, asked, orderVars>>

CheckOverBookOrderDefect(b) ==
  /\ b \in timers
  /\ timers' = timers \ {b}
  /\ IF m_bStartBook /\ chargerState = 1
     THEN m_bStartBook' = FALSE /\ CancleBookOrder(userChargeType)
     ELSE UNCHANGED <<m_bStartBook, updated>>
  /\ UNCHANGED <<verifyVars, booking, holder, named, pileVars, asked, created>>

\* checkOverBookOrder: nothing compares the booking the timer was armed for
\* with the one that is kept now.
CheckOverBookOrder(b) ==
  /\ b \in timers
  /\ timers' = timers \ {b}
  /\ IF m_bStartBook
     THEN m_bStartBook' = FALSE /\ CancleBookOrder(userChargeType)
     ELSE UNCHANGED <<m_bStartBook, updated>>
  /\ UNCHANGED <<verifyVars, booking, holder, named, pileVars, asked, created>>

\* The process ends and starts again: the kept booking and its timers are
\* lost, the orders on the platform and the pile's answers are not.
Restart ==
  /\ m_bStartBook' = FALSE
  /\ timers' = {}
  /\ ResetBookMsg
  /\ chargerState' = 0
  /\ settling' = FALSE
  /\ UNCHANGED <<booking, holder, named, asked, orderVars>>

-----------------------------------------------------------------------------
Init ==
  /\ m_bStartBook = FALSE
  /\ userChargeType = NoType
  /\ personalUserId = NoAccount
  /\ orderNo = 0
  /\ timers = {}
  /\ chargerState = 0
  /\ settling = FALSE
  /\ asked = <<>>
  /\ created = 0
  /\ updated = {}
  /\ booking = 0
  /\ holder = NoAccount
  /\ named = {}

Next ==
  \/ \E type \in Types, account \in Accounts : BookCharger(type, account)
  \/ CancelBooking
  \/ \E type \in Types, account \in Accounts \union {NoAccount} : TakeControl(type, account)
  \/ BookAnswered
  \/ CancelAnswered
  \/ AnswerLost
  \/ \E state \in 0 .. 2 : ReportState(state)
  \/ ReadyToFinishOrder
  \/ CardFrame
  \/ CompleteOrder
  \/ \E b \in timers : CheckOverBookOrder(b)
  \/ Restart

Spec == Init /\ [][Next]_vars

\* A single-shot timer expires as long as the event loop runs.
FairSpec == Spec /\ \A b \in 1 .. MaxBookings : WF_vars(CheckOverBookOrder(b))

-----------------------------------------------------------------------------
(* Properties *)

\* Every variable keeps its type; an order number that is kept or updated is
\* the number of an order that was created, or empty.
TypeOK ==
  /\ m_bStartBook \in BOOLEAN
  /\ userChargeType \in Types \union {NoType}
  /\ personalUserId \in Accounts \union {NoAccount}
  /\ orderNo \in 0 .. created
  /\ timers \in SUBSET (1 .. booking)
  /\ chargerState \in 0 .. 2
  /\ settling \in BOOLEAN
  /\ asked \in Seq({"book", "cancel"})
  /\ created \in Nat
  /\ updated \in SUBSET (0 .. created)
  /\ booking \in Nat
  /\ holder \in Accounts \union {NoAccount}
  /\ named \in SUBSET Accounts

\* A kept booking has a timer of its own pending, however often the booking
\* was renewed, cancelled or ended by the timer of another one: no connector
\* can stay booked without a timer that will release it.
KeptHasTimer == m_bStartBook => booking \in timers

\* A kept booking is not taken over by a user whom no booking command has
\* named since it was made: after the settlement of an order or the answer to
\* a late cancel has cleared the account, no other user can take it over.
NoStranger ==
  [][\A type \in Types, account \in Accounts :
       TakeControl(type, account) /\ m_bStartBook /\ ~m_bStartBook'
         => account \in named]_vars

\* Every kept booking ends: it is taken over, cancelled, replaced, or released
\* by a timer.
Released ==
  \A b \in 1 .. MaxBookings :
    (m_bStartBook /\ booking = b) ~> (~m_bStartBook \/ booking # b)

-----------------------------------------------------------------------------
(* What the comments promise and the code does not do *)

\* Comment in checkOverBookOrder: the booking has begun and is over time, so
\* it is cancelled. So a timer cancels only the booking it was armed for.
OwnOverTime ==
  [][\A b \in timers : CheckOverBookOrder(b) /\ m_bStartBook => b = booking]_vars

\* Comment in takeControl: with a booking, the two accounts are compared, and
\* if they match the charge begins. So the account that made the kept booking
\* can take it over.
HolderServed ==
  [][\A type \in Kept :
       TakeControl(type, holder) /\ m_bStartBook => ~m_bStartBook']_vars
=============================================================================
