# EnneagonGateway: TLA+ models, checks and proofs

EnneagonGateway is a Qt program that stands between electric vehicle charging
piles (on two CAN buses) and a charging platform (HTTP requests and a RabbitMQ
queue). It turns the frames of a pile into charging orders, stores each order in
an SQLite table, reports it to the platform, and carries commands (start, stop,
book, cancel) the other way. This directory models what decides about money,
bookings, payers, presence and the connection to the platform, checks it with
TLC and proves the main results with TLAPS.

Paths below are relative to `src/`.

## How the program runs

All handlers run in one thread, that of the Qt event loop. Two reader threads
(`device/canworkerthread.cpp`), one per CAN bus, hand frames over by queued
signals; `CanBus` models the three threads, and shows that the rest may rely on
what `FrameLink` says: the frames of a pile reach the handlers one at a time, in
order, each at most once. So in all other modules one handler is one atomic
action, and concurrency means: *in which order* frames, timers, answers and
commands reach the loop. The hard behaviours all come from there: a
`QTimer::singleShot` cannot be stopped and does not know what it was armed for;
an answer comes after the state it is about has changed; `order()` and
`status()` of a connector return copies; messages to a queue that is not
connected are dropped; the process can be restarted with only the tables left.

## Inventory

| Component | State | Operations | Interacts with | What makes it correct | Model |
|---|---|---|---|---|---|
| Charging order (`pile/cconnectororder.cpp`, `cenneagonconnector.cpp`) | `bStartCharging`, `bConsume`, `mRecv`, `m_consumeRecv`, numbers, amounts, pending timers | frames 0x0850, 0x0842, the bill frames, 0x0885; `readyToFinishOrder`, `completeOrder` | status (amounts), table, platform | billed once, never lost, always settled, created once | `ChargeOrder`, `BillingLedger` |
| Naming and reporting (`cconnectororder.cpp`, `network/cconsumehttp.cpp`, `crabbitmq.cpp`) | `flowNo`, `userChargeType`, requests under way | remote start and stop, `createFlowNo`, `updateOrder` and its answer | order, table | an order and its row have one number; rows are marked by number only | `OrderReport` |
| Table and uploader (`utility/cdatahelper.cpp`, `cdatauploader.cpp`, `network/crecordhttp.cpp`) | rows of `consume`, `send_success`, upload under way | insert, mark, 30 s query, `hisOrder` and its answer | order, records, platform | in order, every row | `OrderUpload` |
| Booking (`cenneagonconnector.cpp`, `pile/cverify.cpp`) | `m_bStartBook`, account, type, `orderNo`, timers | `bookCharger`, `takeControl`, `checkOverBookOrder`, frame 0x1884 | order (settlement resets it), status, platform | a kept booking ends, and not to a stranger | `Booking` |
| Payer, card verification, refunds (`cconnectororder.cpp`, `cverify.cpp`, `network/ccardverifyhttphandler.cpp`, `cwechatrefund.cpp`, `calirefund.cpp`) | charge type, account and fee of the order; card frames; requests under way | commands, frames 0x0801, 0x0802, 0x0884, answers, timeouts, retries | order, booking, platform | account and type belong together; a refund goes to a named payer, one request at a time; only a card that was shown | `Payment` |
| Off-line records (`pile/crecordorder.cpp`) | `mRecv`, record fields, `vinStr` | frames 0x1001 to 0x100c, the confirmation, the row | live order, table, uploader | entered once, not mixed, not lost | `RecordOrder` |
| Measurements and state (`pile/cconnectorstatus.cpp`) | states, running values, `mRecv` | data frames, heartbeat, `setOfflineState`, `resetParam` | order, queue | nothing of a charge after which an idle state was heard in a later message; no half cleared message | `ConnectorStatus` |
| Presence and poll (`pile/cconnectormanager.cpp`) | `currIndex`, `m_dCounts`, `m_bConnectedToPile`, `m_bOnline` | `handleTimeout`, `updateCounts`, `decode`, the lists for the platform | all connectors, queue | silent piles are noticed, answering ones are not lost | `Presence` |
| Queue session (`network/crabbitmq.cpp`, `manage/cmanage.cpp`) | client, queues, `m_bConnected`, `m_dLostCounts`, `m_bOnline` | connect, set-up, lost, count, reset, heartbeat, status | all | comes back, and sends again what was dropped | `MqSession` |
| Registration and its settings (`network/creghttp.cpp`, `cmanage.cpp`, `capp.cpp`) | `bIsReg`, timer, settings in memory and table | request, answer, refusal, retry, restart | queue client | every pile registered; the newest settings are used | `MqSession` |
| CAN buses (`device/canworkerthread.cpp`, `canwrapper.cpp`) | sockets, frame read, event queue, command under way | `run`, `GetMsg`, `SendMsg`, `sendReplyData`, `sendMsgToPile` | all handlers | order, at most once; a dead bus does not stop the other | `CanBus`, `FrameLink` |

`PROJECT.json` lists the remaining parts with the reason for leaving them out
(see "Not modelled"), and, with line numbers, the hazards the properties aim at.

## Modules

```
CanBus  -- implements -->  FrameLink   (what all modules below assume of frames)

BillingLedger  <-- implemented by --  ChargeOrder  <-- extended by --  OrderReport
      ^                                                                    |
      +-- the live order of --  RecordOrder      OrderUpload <-- environment of

Booking    Payment    ConnectorStatus    Presence    MqSession
```

**BillingLedger** is the promise: sessions are opened one after the other, at
most one is open, an open session is closed by one bill or by a crash. It counts
sessions; what number they have at the pile is not its subject.

**ChargeOrder** is one connector's order. One action per frame, timer and
restart: `StartFrameAccepted`/`StartFrameAnswered` (0x0850 type 1),
`StopFrame` (type 2), `VinFrame`, `BillFrame`, `HeartBeatSettles` (0x0885 when
`isOrderNeedToConsume`), `HeartBeatClearsStatus`, `MeterFrame` (0x0812),
`CompleteOrder` (the slot) and `Restart`. The tests for a complete bill and for a
complete order creation at the end of `decodeCanMsg` are part of each frame's
action; `TailQuiet` states why only a bill frame can make the first succeed. The
pile is the environment: it may repeat frames, and its stop frame may get lost.
Timers are counted, in two groups: armed before or after the last start. They all
run 10 s, so they expire in the order they were armed. The session number
(`connectorFlowNo`) is the time of the start in seconds, by a clock that may show
any of `Times`, so sessions may share one; the history variables `session` and
`sessions` say which session the order really is of, and the properties are about
those. A value of money is
recorded as whose charge it is about and whether it is a running amount or the
bill, which is all the properties compare.

**OrderReport** EXTENDS ChargeOrder with the order number of the platform, the
commands that replace it, and the `updateOrder` requests. Each of its actions is
an action of ChargeOrder plus what happens to the new variables, or leaves
ChargeOrder's variables alone. The gateway's own order number is the time in
milliseconds and may repeat as well. An answer works on a copy of the order, but
the frames it sends reach the pile: `told` remembers which session was open when
the gateway told the pile that its transaction had ended.

**OrderUpload** is the table and the uploader. Its environment are all
connectors, also those of the off-line records: rows are added, and all rows of a
number are marked. `OrderReport!UsesTable` checks that a connector does no more
than that.

**Booking** is the booking of one connector with its timers, which have
different lengths and so expire in any order. The answers of the pile to booking
commands are in the order of the commands, and any may be lost.

**Payment** follows who pays: every writer of the order's charge type, account
and fee (remote start and stop, booking, cancel, card, settlement, restart; the
account of a command may be empty), the
card frames up to the verification and its answer or timeout, the pile's refusal
of a start command, and the requests of a refund. `CWeChatRefund` and
`CAliRefund` are alike but for the address. A request that was answered stays
until its 5 s timeout finds `m_flowRet` set (`RequestDeleted`), which is where a
second request could come from.

**RecordOrder** is `CRecordOrder` next to the live order of the same connector,
which appears as an instance of BillingLedger: the module uses the promise that
ChargeOrder is shown to keep. The handler of the last frame is split between the
confirmation (after which the pile deletes the record) and the row, because a
crash may fall between the two; `field` records of which record each field is.
`startType` and `stopType`, which only some records set and nothing resets, and
the VINs strung together are followed apart. The test `isOrderExisted` and the
table know session numbers, which two sessions may share; `insert` may fail and
the request `hisOrder`, sent once, may get lost (`reported`, `dropped`).

**ConnectorStatus** is the state and the measurements of a connector. A
measurement is the number of the charge it is from, so that "nothing of an ended
charge is left" can be stated. Data frames are taken in any state, late ones of
an earlier charge too; `late` remembers which they were, `idleHeard` the last
charge after which a state other than CHARGING (2) and CHARGED (3) was heard, and
`missing` what the last charging message lacked.

**Presence** is the manager's timer over all connectors: who is polled at which
tick, who is counted, and which piles are in the lists the platform is sent. The
guns answer late, never, or speak unasked.

**MqSession** is the queue client from connecting over the declaration of each
exchange and queue to the heartbeats, the counter that replaces a client that is
not heard, and the registration that tells which broker to use. `chargerState` is
the state of each connector, changed by its heartbeats, which are reported, and
by `setOfflineState`, which is not; `known` is what the platform was sent last.
`UseSettings` keeps the order of the code: the client is made anew first, the
new settings are stored afterwards.

**CanBus** has the kernel's socket and the thread of each bus, the event queue,
and the event loop that writes a command to one bus after the other, with the
100 ms pause after a failed write as a state of its own. **FrameLink** is the
abstract promise it implements.

In every module a definition named `...Defect` is not part of the model. It is a
plausible slip of the definition below it. `PROJECT.json` lists under "mutants"
which property each of them breaks: every property of every passing run is broken
by at least one.

## Runs

| Run | Bounds | Shows |
|---|---|---|
| `charge_order` | 2 charges (the first with a running amount), 3 sessions, all with one number, 2 VIN and 2 bill frames, 2 timers, 1 restart | `TypeOK`, `BilledOnce`, `NothingLost`, `SettlementArmed`, `AnonymousOncePerRun`, `CreatedOnceBeforeBilled`, `ImplementsLedger`, and under fairness `Settles` |
| `charge_order_stale` | as above with 1 VIN frame, 2 numbers, no restart | `BillEnteredOnce` does **not** hold: a leftover timer bills the next session with the old bill |
| `order_report` | 2 charges, 2 sessions, 2 times of the clock, 1 frame of each kind, 2 timers, 1 restart, 1 command (about 2 million states) | `CreateMatchesRow`, `UsesTable` |
| `order_upload` | 3 rows, 3 numbers, one of them empty | `InOrder`, `EveryRowSent` |
| `booking` | 2 accounts, 2 kept bookings, 2 unanswered commands, 1 book order, 3 charge types | `KeptHasTimer`, `NoStranger`, `Released` |
| `record_order` | 1 live session, 1 charge made off line, 2 numbers (they may share one), 3 frames (session number, card, reason of the end), of one record the card and the VIN and of the other the reason missing or unreadable, 2 VINs, 2 crashes | `TypeOK`, `RecordEnteredOnce`, `RowOfOneRecord`, `NothingLost` |
| `payment` | 2 accounts and none, 2 commands, 1 card, 2 card frames, 1 row, 1 refund, 1 answered request | `TypeOK`, `PayerConsistent`, `OneRequestPerRefund`, `RefundNamed`, `VerifiedWasShown` |
| `payment_refused` | same | `RefusedIsRefunded` does **not** hold: the refund goes to the payer the order has by then |
| `mq_session` | 2 piles, one with two requests under way, a dead and a live broker, 1 refusal, 1 broken connection, 1 connector with one reported state, 1 restart | `StatusResent`, `StaleOnlyIfReplaced`, `NobodyForgotten`, `BackOnline`, `ClocksSet` |
| `presence` | a pile with two guns, one with one gun, off line after 2 ticks | `TypeOK`, `AnsweringListed`, `SilentNoticed` |
| `connector_status` | an idle state, CHARGING and CHARGED, 2 required and 1 optional part, 2 charges | `TypeOK`, `IdleHeardForgotten`, `WholeMessage` |
| `can_bus` | 2 buses with a pile each, 2 frames per pile, 2 commands for the bus written last, 1 failure | `TypeOK`, `OtherBusServed`, `ImplementsLink`, `ReadIsHandled` |

The two runs that end in a violation each check a sentence of a comment in the
code; the sentence and the line are in `PROJECT.json` under "findings".

Other sentences of the comments do not hold either. Their definitions stand at
the end of the modules under "What the comments promise and the code does not
do": `ChargeGetsNumber` (a charge that begins in the settlement window has no
number), `AcceptedIsMarked` (an answer marks another number), `OthersAreSent`
(a number that is never answered blocks the table; needs it in `Silent`),
`MarkedIsAccepted` (a rejected row is marked), `OwnOverTime` (an old timer
releases a new booking), `HolderServed` (the holder is refused), `EnteredOnce`
(the live order adds its row after the record's).

What one might expect, though nothing in the repository says it, and what does
not hold, stands there under "What (else) does not hold": `NumberNamesSession`
and `OrderNumberNamesSession` (two sessions share a session number or an order
number), `OpenSessionUndisturbed` (an answer tells the pile to end a session that
it is not about), `OwnTypes` (a row has the start or stop type of an earlier
record), `OnlyCrashesLose` (a failed insert with a lost request, or a number used
twice, loses a charge without a crash), `OwnStartSoc` (the start SoC of a charge
is that of the one before, if only CHARGED was heard in between), `OfflineTold`
(the platform is not told of a connector declared off line) and `RefundComplete`
(a refund without account or fee).

To see a counterexample, put the name into the INVARIANTS or PROPERTIES line of
the module's configuration. They are not runs of their own: each is visible at
one line of the code, and the runs go to questions that are not.

Why the bounds are enough. The hazards of ChargeOrder are between one session
and the next: they need two charges, a timer of the first one that is still
pending in the second, and a second timer in the same session. Each charge can
open several sessions (a timer that expires during a charge closes its session
and a repeated start frame opens another one), so `MaxSessions` bounds them
apart. In `charge_order` the clock always shows the same second: the number of a
session decides nothing in this module but what is written into its row, so
numbers that differ allow no behaviour that is not there already, and numbers
that are all alike are the worst case. Two frames of a kind tell a complete set
from an incomplete one. OrderReport leaves the splitting into frames to
ChargeOrder and has one frame of each kind; the running amount is left out there
(`MaxMetered = 0`), no property of that run looks at it. A table with three rows
and three numbers has rows that share a number before, at and behind the row
under way. A booking timer interferes only with the next booking. Two records
can be mixed in every way that three can: one is broken off or repeated while
the other is received. One of them is of the live session, so that bill and
record race, the other of a session the gateway did not see, and the two may
have one number. Two commands are enough for one to replace the other's payer
before its refusal. Two brokers give an old and a new setting, and two requests
of one pile an answer before and one after the timer was stopped. The index of
Presence goes wrong where piles have different numbers of guns. For
OtherBusServed the command must have to pass the failing bus first, hence
commands for the bus written last. Every bound is a CONSTANT in a guard, and the
proofs hold for all their values.

Deadlock is checked in every run but two. In `record_order` sessions, VINs and
crashes are finitely many within the bounds, and in `can_bus` frames, commands
and failures: with all of them used up nothing is left to do. All other modules
have an action that is always possible, as the real system has.

## Fairness

* `ChargeOrder!FairSpec` and `Booking!FairSpec`: weak fairness of the timers'
  slots only. A single-shot timer that is armed expires as long as the event
  loop runs. Nothing is assumed of the pile: not that it sends the bill, a stop
  frame or a heartbeat.
* `OrderUpload!UploadFairSpec`: weak fairness of the 30 s timer and of the end of a
  request (10 s), and strong fairness of an answer that names the row's number,
  for numbers the platform does not ignore. The last is an assumption about the
  platform, not about the code, and is stated as such.
* `MqSession!FairSpec`: weak fairness of the one second counter and of the
  registration timer. Of the platform and the piles: one that is asked again and
  again accepts a registration, and sets its clock, at some time (strong
  fairness). `PlatformHeard` is what the platform owes the gateway: a client that
  is made for a live broker again and again is set up and hears a heartbeat
  before its reset at some time. Without it no client need ever be heard: the
  reset after `LostLimit` seconds could always win. What `BackOnline` then shows
  is about the code: that it always tries again, and with a broker that is alive.
* `Presence!FairSpec`: weak fairness of the timer. Nothing is assumed of guns or
  platform.
* `CanBus!FairSpec`: the reader threads run, pauses end, a command under way is
  written (weak fairness), and posted events are delivered although commands
  keep coming from timers (strong fairness of `SetData`: Qt handles posted events
  in every round of its loop). Nothing is assumed of a bus; one that fails may
  never return.

## Proofs

The theorems hold for all values of the constants that satisfy the named
assumptions (`PartsAssumption`, `TimesAssumption`, `BoundAssumption`,
`RemoteAssumption`, `NumbersAssumption`, `FlowNosAssumption`, `TypesAssumption`,
`ValuesAssumption`, `SetsAssumption`, `StatesAssumption`, `SizeAssumption`,
`PileAssumption`, `LimitAssumption`, `BusAssumption`): any number of frames,
charges, timers, restarts, rows, accounts, cards, guns, piles, buses and
brokers. Two of them say more than what kind of value a constant is: the guns of
a pile stand together, as `queryPile` adds them (`PileAssumption`), and there
are no more piles than ticks before a pile is off line (`LimitAssumption`).

* `OrderReport_proofs` is about ChargeOrder first. `TypeCorrect`, then
  `BillingInvariant`: BilledOnce and NothingLost are not inductive by themselves.
  They need `SessionInv`, which ties the two flags to the session: an open session
  is the newest one and has no row; an order that is closed and not billed is of
  no session, so that an expiring timer can only make a row of none. Nothing is
  assumed of the numbers: all of this holds if every session has the same. The
  lemma `StepEffect` reduces the actions to five effects (nothing, opens, bills,
  forgets, crashes), and the preservation proofs, as well as
  `OrderImplementsLedger`, go over those. `SettlementIsArmed`, `TailIsQuiet` and
  `OrderCreatedOnce` have invariants of their own; the last needs that the
  "start" bit of `mRecv` belongs to an open session that was not created yet
  (`CreationInv`). `AnonymousRowsBounded` counts: the rows of no session are
  at most the starts of the program so far, and one fewer as long as such a row
  can still be made in this run (`AnonymousInv`).
  Then OrderReport. Its steps are steps of ChargeOrder or leave the variables of
  ChargeOrder alone, so that ChargeOrder's invariants hold here without a new
  proof (the lemma `ReportIsOrder`). `RowsMatchCreation` adds `NameInv`: as long
  as a session is open and was not renamed, its order number is the one of its
  creation request.
  `ConnectorUsesTable` is the other refinement: a connector is an environment
  that OrderUpload allows. The difficulty is that the table is bounded there: the
  rows made are at most the sessions opened and the starts of the program
  (`TableInv`).
* `OrderTable_proofs` is about the other two users of the table. RecordOrder: the
  invariant adds to the four properties that a part whose bit is set is of the
  record being sent, and has set the start or stop type if that record sets it
  (`PartsOfSending`); that what is confirmed and not yet entered is one whole
  record (`EnteringWhole`), which does not ask whether fields that record leaves
  alone are old; that rows have the number of their session (`RowsNumbered`), so
  that a test of the number is a test of the session at least; and that a row of
  the live order is one the ledger has billed (`LiveRowsBilled`), so that a
  session that is billed again would contradict the ledger. One lemma per action.
  OrderUpload: `UploadTypeCorrect` and `SentInOrder`; the order follows because
  marks are never taken away and rows are only added at the end.
* `Booking_proofs`. `BookingHasTimer` and `StrangersAreRefused`; the latter rests
  on `NamedAccount`: the account kept is empty or was named by a command since
  the booking was made.
* `Payment_proofs`. The payer the order has was named by one command since it
  was cleared, or is nobody (`OrderNamed`); the card number CVerify holds was
  shown since it was cleared, or is none (`CardShown`). The two action
  properties, `RefundNamed` and `VerifiedWasShown`, follow from one step of that
  invariant.
* `MqSession_proofs`. One addition makes the three invariants inductive,
  `ConnectsOffline`: only a client that a registration answer put in place begins
  to connect while the gateway believes to be on line.
* `ConnectorStatus_proofs`. A part that is marked in the mask has a measurement
  (`MarkedHasValue`), which gives `WholeMessage`. `IdleHeardForgotten` is
  inductive with the types: whatever a data frame brings is of a charge after
  `idleHeard` or noted in `late`, and hearing an idle state clears all there is.
* `Presence_proofs`. `AnsweringPilesListed` bounds the count of a gun by the
  polls since its last answer. `Heads` are the first guns of the piles and `Rank`
  numbers them along the index, so that a tick raises the rank of the index by
  one until the round is over (`Round`, the number of piles). `AnswerInv` then
  says: a gun that has answered every heartbeat is counted no higher than the
  piles polled since its own. This is where `LimitAssumption` is used.
* `CanBus_proofs`. `FrameInv` orders the frames of a pile in each place they can
  be (socket, thread, event queue), and from each place to the next (`Before`),
  and puts all of them between the last frame handled and the last one sent
  (`Waiting`). Frames of one bus never overtake each other, as each has one
  thread, and frames of different buses are of different piles (`OfBus`), so
  that the shared event queue may mix them. `ServedInv` says where a command is
  that is not on the bus of its pile yet: still to be written to that bus, or the
  bus has failed; a pause is only ever about a bus that has failed. `BusInductive`
  gives the types, `OtherBusServed`, and `BusesAreALink`, the refinement of
  FrameLink: handling the head of the event queue is handling a frame that is
  sent and newer than the last one.

The type invariants of OrderReport, OrderUpload, Booking and MqSession are proved
and not among the properties of a run.

Only model-checked: the liveness properties (`Settles`, `EveryRowSent`,
`Released`, `BackOnline`, `ClocksSet`, `SilentNoticed`, `ReadIsHandled`), because
the provers do not handle fairness and ENABLED. Every other property of a passing
run, invariant, action property or refinement, is a theorem.

## Abstractions to be aware of

* The time is not modelled but for the numbers made of it: the clock may show any
  of `Times` at a start, also one it has shown before, and only starts read it.
  `HeartBeatSettles`, which the code allows 120 s after the start by a clock that
  may have been set since, is possible whenever the flags allow it.
* `bConsume` is never initialised in the code; `Init` and `Restart` allow both
  values.
* `bCreateSuccess` is left out: the answer that would set it is applied to a copy
  of the order.
* ChargeOrder, OrderReport, Booking, Payment, RecordOrder and ConnectorStatus are
  about one connector each. Connectors share the table (OrderUpload), the event
  loop (CanBus), the poll (Presence) and the queue (MqSession); they have no
  other state in common.
* What the charger sends is assumed to be in the order of its protocol: a bill
  comes after a charge has ended and before the next one begins; a VIN only while
  the connector charges; a record's frames are those of the record it announced
  last. Data frames come at any time (ConnectorStatus), running amounts at any
  time after the first charge has begun (ChargeOrder).
* A takeControl command may carry no account. It then passes the booking check
  when the kept booking has none either (a booking whose account was cleared),
  so `NoStranger` is about commands that do name an account.
* In Payment, whether a booking withholds a command (Booking) and when a bill is
  complete (ChargeOrder) is left open; either is possible at any time, which
  allows more than the program does. The payment channel is set with the account
  and left out.
* In ConnectorStatus the values `resetParam` leaves alone (battery type,
  capacity, mode, protocol) are left out, and so are the alarms, whose lists are
  always empty.
* Presence assumes no more piles than `OfflineLimit` (30): with more, a pile that
  answers every heartbeat is still off line for some ticks of each round.
* In RecordOrder a field of a record is the session of the record it came from;
  `insert` may fail, and its result is not looked at, as in the code. Whether the
  request `hisOrder` gets lost is chosen when it is sent, since nothing but the
  mark of a row waits for the outcome, and marks are OrderUpload's.
* Of the frames `setBConsume` sends, OrderReport keeps that they are sent and
  which session was open (`told`); what the pile does then is its own affair, and
  it may send a stop frame at any time of a charge.
* In MqSession the four settings of a broker are one value, and the status of all
  connectors is sent again in one step.

## Not modelled

The byte layout of the CAN frames (each frame is an input of some action instead;
the request for a record is modelled). Closing the devices, which nothing calls,
and the file `pileerr.txt`. Alarms: the lists are filled on a copy of the status
and stay empty, so they influence no message. The requests whose answers change
no state of the gateway (`cflownohttp.cpp`, `cstatehttp.cpp`,
`cbookorderhttp.cpp`, `cbookorderupdatehttp.cpp`): that they are sent is part of
ChargeOrder, ConnectorStatus and Booking. Settings that are read once at start.
JSON, encryption and `qamqp` (third-party), and the clients nothing instantiates
(`cremotesocket.cpp`, `cbookinghttp.cpp`).

## Plan

All components of the inventory have a module. What would come next:

1. A composition of `Booking`, `Payment` and `OrderReport` on one connector: the
   commands of the queue change all three and the settlement of one clears the
   others. Today each module allows the others' steps at any time.
2. What the pile does when it is told that its transaction has ended (`told`): the
   composition of OrderReport with the pile's stop frame.
