----------------------------- MODULE RecordOrder -----------------------------
(***************************************************************************)
(* The off-line records of one connector: CRecordOrder, which collects the *)
(* frames 0x1003 to 0x100c of a record the pile has kept, and enters the   *)
(* record into the table "consume" unless its session has a row.           *)
(*                                                                         *)
(* It shares the table with the live order of the connector, which appears *)
(* here as BillingLedger, the promise that ChargeOrder implements: issued, *)
(* open, billed and crashes are the variables of that module.              *)
(*                                                                         *)
(* The pile is the environment. It keeps a record of every charge, of a    *)
(* session the gateway numbered or of one it numbered itself while off     *)
(* line, until the gateway confirms it; frames and confirmations may get   *)
(* lost. All handlers run on one thread, but a crash can happen within a   *)
(* handler: the step between the confirmation and the row is split.        *)
(*                                                                         *)
(* A session number is the time in seconds, and clocks are set: two        *)
(* sessions may have one number. The table knows numbers only.             *)
(*                                                                         *)
(* Abstractions. A record is its session and a field of it is the record   *)
(* it came from. Whether the request hisOrder gets lost is chosen when it  *)
(* is sent: nothing waits for the outcome but the mark of a row, which is  *)
(* OrderUpload's, as the order number createFlowNo makes.                  *)
(***************************************************************************)
EXTENDS Naturals, Sequences

CONSTANTS
  Parts,         \* the frames of a record (thirteen bits of mRecv)
  FlowPart,      \* the frame 0x100b with the session number
  CardPart,      \* the frame 0x1003 with the card
  StopPart,      \* the frame 0x100c with the reason of the end
  PileSessions,  \* sessions the gateway did not number
  Numbers,       \* session numbers
  NoCard,        \* sessions whose record has no card
  NoStop,        \* sessions whose record has a reason no branch is for
  NoVin,         \* sessions whose VIN holds a byte that is no letter or digit
  MaxSessions,   \* bound: sessions the gateway numbers
  MaxVins,       \* bound: VINs strung together
  MaxCrashes     \* bound: crashes of the gateway

Sessions == (1 .. MaxSessions) \union PileSessions

ASSUME PartsAssumption == {FlowPart, CardPart, StopPart} \subseteq Parts
ASSUME NumbersAssumption ==
  /\ MaxSessions \in Nat
  /\ MaxVins \in Nat
  /\ MaxCrashes \in Nat
  /\ PileSessions \subseteq Nat \ (0 .. MaxSessions)
  /\ Numbers \subseteq Nat \ {0}

VARIABLES
  issued,     \* ledger: sessions the gateway has opened
  open,       \* ledger: the open session, 0 when there is none
  billed,     \* ledger: sessions the live order has billed
  crashes,    \* ledger: how often the gateway has lost its memory
  number,     \* the number of each session, 0 before it begins
  stored,     \* the pile: records it keeps
  offline,    \* the pile: sessions it has numbered itself
  sending,    \* the pile: the record whose frames it sends, 0 for none
  mRecv,      \* mRecordOrder: parts received
  field,      \* mRecordOrder: the record each of its fields came from
  startType,  \* mRecordOrder: the record the start type came from, 0 for none
  stopType,   \* mRecordOrder: the same for the stop type
  vinStr,     \* mRecordOrder: records whose VINs are strung together
  handler,    \* "idle", or "entering": confirmed, and not yet in the table
  consume,    \* rows of the table "consume", in the order of insertion
  reported,   \* history: records whose request hisOrder reaches the platform
  dropped,    \* history: records whose request gets lost
  cutOff      \* history: records confirmed by a handler that a crash ended

liveVars == <<issued, open, billed, crashes>>
pileVars == <<number, stored, offline, sending>>
typeVars == <<startType, stopType>>
recvVars == <<mRecv, field, typeVars, vinStr>>
httpVars == <<reported, dropped>>
vars == <<liveVars, pileVars, recvVars, handler, consume, httpVars, cutOff>>

Live == INSTANCE BillingLedger

-----------------------------------------------------------------------------
(* Data *)

Row == [connectorflowno : Nat, session : Nat, by : {"live", "record"},
        of : SUBSET Nat, startType : Nat, stopType : Nat, vin : Seq(Nat)]

\* isOrderExisted: the number has a row.
IsOrderExisted(no) == \E i \in DOMAIN consume : consume[i].connectorflowno = no

-----------------------------------------------------------------------------
(* The live order of the connector *)

\* A session begins at the time no, and the pile begins a record of it.
LiveStart(no) ==
  /\ handler = "idle"
  /\ issued < MaxSessions
  /\ Live!Open
  /\ number' = [number EXCEPT ![issued'] = no]
  /\ stored' = stored \union {issued'}
  /\ UNCHANGED <<offline, sending, recvVars, handler, consume, httpVars, cutOff>>

\* consumeOrder: nothing asks whether the session has a row.
LiveBill ==
  /\ handler = "idle"
  /\ Live!Bill
  /\ consume' = Append(consume,
       [connectorflowno |-> number[open], session |-> open, by |-> "live",
        of |-> {}, startType |-> 0, stopType |-> 0, vin |-> <<>>])
  /\ UNCHANGED <<pileVars, recvVars, handler, httpVars, cutOff>>

-----------------------------------------------------------------------------
(* Frames of a record *)

\* The pile charges while it can not reach the gateway.
PileChargesOffline(n, no) ==
  /\ n \notin offline
  /\ offline' = offline \union {n}
  /\ number' = [number EXCEPT ![n] = no]
  /\ stored' = stored \union {n}
  /\ UNCHANGED <<liveVars, sending, recvVars, handler, consume, httpVars, cutOff>>

BeginRecordDefect == UNCHANGED mRecv

\* A record begins: the bits of the one before are forgotten, its fields stay.
BeginRecord == mRecv' = {}

AskForRecordDefect(n) == sending' = n /\ stored' = stored \ {n}

\* 0x1002: the pile is asked to send the frames of the record.
AskForRecord(n) == sending' = n /\ UNCHANGED stored

\* 0x1001: the pile announces a record it keeps, for the first time or again.
RecordAnnounced(n) ==
  /\ handler = "idle"
  /\ n \in stored
  /\ BeginRecord
  /\ AskForRecord(n)
  /\ UNCHANGED <<liveVars, number, offline, field, typeVars, vinStr, handler,
                 consume, httpVars, cutOff>>

\* handleVin: the characters are appended to vinStr, which is cleared only by
\* a VIN with a bad character.
HandleVin ==
  /\ Len(vinStr) < MaxVins
  /\ vinStr' = IF sending \in NoVin THEN <<>> ELSE Append(vinStr, sending)

\* 0x1009: the pile deletes the record, unless the frame gets lost.
Confirm ==
  \/ stored' = stored \ {sending} /\ sending' = 0
  \/ UNCHANGED <<stored, sending>>

\* The start type is set by a card, and only by one; the stop type by a reason
\* that has a branch. Nothing ever clears them.
SetTypes(part) ==
  /\ startType' = IF part = CardPart /\ sending \notin NoCard THEN sending ELSE startType
  /\ stopType' = IF part = StopPart /\ sending \notin NoStop THEN sending ELSE stopType

\* 0x1003 to 0x100c: one part of the record; the last one confirms it.
RecordFrame(part) ==
  /\ handler = "idle"
  /\ sending # 0
  /\ field' = [field EXCEPT ![part] = sending]
  /\ SetTypes(part)
  /\ IF Parts \subseteq mRecv \union {part}
     THEN /\ mRecv' = {}
          /\ Confirm
          /\ HandleVin
          /\ handler' = "entering"
     ELSE /\ mRecv' = mRecv \union {part}
          /\ UNCHANGED <<stored, sending, vinStr, handler>>
  /\ UNCHANGED <<liveVars, number, offline, consume, httpVars, cutOff>>

\* The session of the record that is complete.
Received == field[FlowPart]

\* saveOrder: one more row. Nobody asks whether insert has failed.
SaveOrder ==
  \/ consume' = Append(consume,
       [connectorflowno |-> number[Received], session |-> Received, by |-> "record",
        of |-> {field[part] : part \in Parts}, startType |-> startType,
        stopType |-> stopType, vin |-> vinStr])
  \/ UNCHANGED consume

MustEnterDefect == TRUE

\* The record is entered if its number has no row.
MustEnter == ~IsOrderExisted(number[Received])

\* sendRecordMsgToNetwork: the request hisOrder is sent once, row or no row;
\* reqTimeout does not repeat it.
SendRecordMsg ==
  \/ reported' = reported \union {Received} /\ UNCHANGED dropped
  \/ dropped' = dropped \union {Received} /\ UNCHANGED reported

\* The rest of the handler.
EnterRecord ==
  /\ handler = "entering"
  /\ handler' = "idle"
  /\ IF MustEnter THEN SaveOrder /\ SendRecordMsg ELSE UNCHANGED <<consume, httpVars>>
  /\ UNCHANGED <<liveVars, pileVars, recvVars, cutOff>>

\* The gateway ends, in the middle of a handler too, and starts again. The
\* fields of the new object are of no record.
Restart ==
  /\ crashes < MaxCrashes
  /\ Live!Crash
  /\ mRecv' = {}
  /\ field' = [part \in Parts |-> 0]
  /\ startType' = 0
  /\ stopType' = 0
  /\ vinStr' = <<>>
  /\ handler' = "idle"
  /\ cutOff' = IF handler = "entering" THEN cutOff \union {Received} ELSE cutOff
  /\ UNCHANGED <<pileVars, consume, httpVars>>

-----------------------------------------------------------------------------
Init ==
  /\ Live!Init
  /\ number = [n \in Sessions |-> 0]
  /\ stored = {}
  /\ offline = {}
  /\ sending = 0
  /\ mRecv = {}
  /\ field = [part \in Parts |-> 0]
  /\ startType = 0
  /\ stopType = 0
  /\ vinStr = <<>>
  /\ handler = "idle"
  /\ consume = <<>>
  /\ reported = {}
  /\ dropped = {}
  /\ cutOff = {}

Next ==
  \/ \E no \in Numbers :
       LiveStart(no) \/ \E n \in PileSessions : PileChargesOffline(n, no)
  \/ LiveBill
  \/ \E n \in stored : RecordAnnounced(n)
  \/ \E part \in Parts : RecordFrame(part)
  \/ EnterRecord
  \/ Restart

Spec == Init /\ [][Next]_vars

-----------------------------------------------------------------------------
(* Properties *)

\* Every variable keeps its type; the pile sends frames of records it keeps,
\* and every record is of a session that has begun.
TypeOK ==
  /\ issued \in 0 .. MaxSessions
  /\ open \in 0 .. issued
  /\ billed \in SUBSET (1 .. issued)
  /\ crashes \in Nat
  /\ number \in [Sessions -> Nat]
  /\ stored \in SUBSET ((1 .. issued) \union offline)
  /\ offline \in SUBSET PileSessions
  /\ sending \in stored \union {0}
  /\ mRecv \in SUBSET Parts
  /\ field \in [Parts -> Sessions \union {0}]
  /\ startType \in Sessions \union {0}
  /\ stopType \in Sessions \union {0}
  /\ vinStr \in Seq(Nat)
  /\ handler \in {"idle", "entering"}
  /\ consume \in Seq(Row)
  /\ reported \in SUBSET Sessions
  /\ dropped \in SUBSET Sessions
  /\ cutOff \in SUBSET Sessions

\* However often the pile repeats a record because its confirmation got lost
\* or the gateway was restarted, the record makes no second row for its
\* session, and none for a number that has a row. (The live order may still
\* add its row after the record's.)
RecordEnteredOnce ==
  \A i, j \in DOMAIN consume :
    i < j =>
      /\ consume[i].connectorflowno = consume[j].connectorflowno
           => consume[j].by = "live"
      /\ consume[i].session = consume[j].session
           => consume[i].by = "record" /\ consume[j].by = "live"

\* The row of a record is never made of frames of two records, although the
\* fields of a record that was broken off stay in the order: all fields that a
\* frame always sets come from the record whose session number the row has,
\* and so do the start type and the stop type if that record sets them. The
\* VIN is empty exactly if the record's own VIN can not be read, and ends with
\* its own VIN otherwise. (A start or stop type the record does not set, and
\* what stands in front of its VIN, may be of earlier records, see OwnTypes.)
RowOfOneRecord ==
  \A i \in DOMAIN consume :
    LET row == consume[i] IN
    row.by = "record" =>
      /\ row.of = {row.session}
      /\ row.session \notin NoCard => row.startType = row.session
      /\ row.session \notin NoStop => row.stopType = row.session
      /\ IF row.session \in NoVin THEN row.vin = <<>>
         ELSE row.vin # <<>> /\ row.vin[Len(row.vin)] = row.session

\* A charge is lost in three ways only: a crash falls between the confirmation
\* of its record and its row (cutOff); the row was not inserted and the one
\* request that reports it got lost (dropped); or its number has the row of
\* another session. Any other charge has a row, is reported, or is still kept
\* by the pile, however records, bills, lost frames and restarts interleave.
NothingLost ==
  \A n \in (1 .. issued) \union offline :
    \/ IsOrderExisted(number[n])
    \/ n \in stored
    \/ handler = "entering" /\ Received = n
    \/ n \in reported
    \/ n \in dropped \union cutOff

-----------------------------------------------------------------------------
(* What the comments promise and the code does not do *)

\* Comment in front of the test in decodeCanMsg: "check if the order exist".
\* So a session has one row, whether it is entered live or from its record.
EnteredOnce ==
  \A i, j \in DOMAIN consume :
    consume[i].session = consume[j].session => i = j

-----------------------------------------------------------------------------
(* What else does not hold *)

\* The start and stop types of a row are of its own record, or of none. (A
\* record without a card, or with a reason no branch is for, is entered with
\* those of an earlier record.)
OwnTypes ==
  \A i \in DOMAIN consume :
    consume[i].by = "record" =>
      {consume[i].startType, consume[i].stopType} \subseteq {consume[i].session, 0}

\* Only a crash loses a charge: any other one has a row of its own, or is
\* reported or kept. (An insert that fails or a number that is used twice
\* loses one too.)
OnlyCrashesLose ==
  \A n \in (1 .. issued) \union offline :
    \/ \E i \in DOMAIN consume : consume[i].session = n
    \/ n \in stored
    \/ handler = "entering" /\ Received = n
    \/ n \in reported
    \/ n \in cutOff
=============================================================================
