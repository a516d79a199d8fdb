--------------------------- MODULE OrderTable_proofs ---------------------------
(***************************************************************************)
(* Proofs about the table "consume": about RecordOrder, which enters the   *)
(* records of the piles into it, for any frames, sessions, numbers and     *)
(* bounds; and about OrderUpload, which sends its rows, for any order      *)
(* numbers and any length of the table.                                    *)
(*                                                                         *)
(* The inductive invariant of RecordOrder adds to its properties: the      *)
(* parts received are of the record that is being sent, and so are the     *)
(* start and stop types they set; between the confirmation and the row all *)
(* fields are of one record, whose VIN stands last; every row has the      *)
(* number of its session; and every live row is in the ledger.             *)
(***************************************************************************)
EXTENDS RecordOrder, OrderUpload, TLAPS

-----------------------------------------------------------------------------
(* RecordOrder *)

\* The sessions that have begun.
Begun == (1 .. issued) \union offline

\* The parts that count as received are of the record under way.
PartsOfSending ==
  \A part \in mRecv :
    /\ field[part] = sending
    /\ part = CardPart /\ sending \notin NoCard => startType = sending
    /\ part = StopPart /\ sending \notin NoStop => stopType = sending

\* All fields are of the record n, and its VIN is at the end of the string.
WholeRecord(n) ==
  /\ n \in Begun
  /\ \A part \in Parts : field[part] = n
  /\ n \notin NoCard => startType = n
  /\ n \notin NoStop => stopType = n
  /\ IF n \in NoVin THEN vinStr = <<>>
     ELSE vinStr # <<>> /\ vinStr[Len(vinStr)] = n

\* What is about to be entered is one whole record.
EnteringWhole == handler = "entering" => WholeRecord(Received)

\* A row has the number of its session.
RowsNumbered ==
  \A i \in DOMAIN consume :
    /\ consume[i].session \in Begun
    /\ consume[i].connectorflowno = number[consume[i].session]

\* The live order bills a session once, and the ledger knows it.
LiveRowsBilled ==
  \A i \in DOMAIN consume : consume[i].by = "live" => consume[i].session \in billed

IInv ==
  /\ TypeOK
  /\ PartsOfSending
  /\ EnteringWhole
  /\ RowsNumbered
  /\ LiveRowsBilled
  /\ RecordEnteredOnce
  /\ RowOfOneRecord
  /\ NothingLost

-----------------------------------------------------------------------------
\* Appending keeps what a sequence holds and puts one element behind it.
LEMMA AppendFacts ==
  ASSUME NEW T, NEW s \in Seq(T), NEW e \in T
  PROVE  /\ Append(s, e) \in Seq(T)
         /\ Append(s, e) # <<>>
         /\ Len(Append(s, e)) = Len(s) + 1
         /\ DOMAIN Append(s, e) = DOMAIN s \union {Len(s) + 1}
         /\ DOMAIN s = 1 .. Len(s)
         /\ Len(s) \in Nat
         /\ \A i \in DOMAIN s : Append(s, e)[i] = s[i]
         /\ Append(s, e)[Len(s) + 1] = e
OBVIOUS

\* Sessions are numbers, 0 is none, and none of the pile's is the gateway's.
LEMMA SessionFacts ==
  ASSUME TypeOK
  PROVE  /\ Sessions \subseteq Nat \ {0}
         /\ Begun \subseteq Sessions
         /\ 1 .. MaxSessions \subseteq Sessions
         /\ PileSessions \subseteq Sessions
         /\ \A n \in 1 .. MaxSessions : n \notin PileSessions
         /\ sending \in Sessions \union {0}
BY NumbersAssumption DEF TypeOK, Sessions, Begun

\* The initial states satisfy the inductive invariant.
LEMMA InitInv == Init => IInv
<1>. SUFFICES ASSUME Init
              PROVE  IInv
  OBVIOUS
<1>1. issued = 0 /\ open = 0 /\ billed = {} /\ crashes = 0
  BY DEF Init, Live!Init
<1>2. field \in [Parts -> Sessions \union {0}] /\ number \in [Sessions -> Nat]
  BY DEF Init
<1>3. TypeOK
  BY <1>1, <1>2, NumbersAssumption DEF Init, TypeOK
<1>4. DOMAIN consume = {} /\ (1 .. issued) \union offline = {}
  BY <1>1 DEF Init
<1>. QED
  BY <1>3, <1>4
  DEF Init, IInv, PartsOfSending, EnteringWhole, RowsNumbered, LiveRowsBilled,
      RecordEnteredOnce, RowOfOneRecord, NothingLost

-----------------------------------------------------------------------------
(* Steps that leave the table alone.                                       *)

\* The properties of the rows depend on the table, the ledger and the numbers
\* of the sessions that have begun.
LEMMA SameRows ==
  ASSUME IInv, consume' = consume, billed' = billed, Begun \subseteq Begun',
         \A n \in Begun : number'[n] = number[n]
  PROVE  RowsNumbered' /\ LiveRowsBilled' /\ RecordEnteredOnce' /\ RowOfOneRecord'
<1>1. RowsNumbered'
  BY DEF IInv, RowsNumbered
<1>. QED
  BY <1>1 DEF IInv, LiveRowsBilled, RecordEnteredOnce, RowOfOneRecord

\* What is being entered stays as it is while its handler has not gone on.
LEMMA SameRecord ==
  ASSUME IInv, Begun \subseteq Begun', UNCHANGED <<sending, recvVars, handler>>
  PROVE  PartsOfSending' /\ EnteringWhole'
BY DEF IInv, PartsOfSending, EnteringWhole, WholeRecord, Received, recvVars, typeVars

\* The live order begins a session.
LEMMA LiveStartInv ==
  ASSUME IInv, NEW no \in Numbers, LiveStart(no)
  PROVE  IInv'
<1>1. /\ issued < MaxSessions /\ issued' = issued + 1 /\ open' = issued'
      /\ number' = [number EXCEPT ![issued'] = no]
      /\ stored' = stored \union {issued'}
      /\ UNCHANGED <<billed, crashes, offline, sending, mRecv, field, startType, stopType,
                     vinStr, handler, consume, reported, dropped, cutOff>>
  BY DEF LiveStart, Live!Open, recvVars, typeVars, httpVars
<1>2. /\ issued \in Nat /\ issued' \in 1 .. MaxSessions /\ no \in Nat
      /\ 1 .. issued' = (1 .. issued) \union {issued'}
  BY <1>1, NumbersAssumption DEF IInv, TypeOK
<1>3. issued' \in Sessions /\ issued' \notin Begun
  BY <1>1, <1>2, SessionFacts, NumbersAssumption DEF IInv, TypeOK, Begun
<1>4. number' \in [Sessions -> Nat] /\ \A n \in Begun : number'[n] = number[n]
  BY <1>1, <1>2, <1>3, SessionFacts DEF IInv, TypeOK
<1>5. TypeOK'
  BY <1>1, <1>2, <1>4, NumbersAssumption DEF IInv, TypeOK
<1>6. Begun' = Begun \union {issued'}
  BY <1>1, <1>2 DEF Begun
<1>7. NothingLost'
  <2>. SUFFICES ASSUME NEW n \in Begun', n \notin stored'
                PROVE  \/ IsOrderExisted(number[n])'
                       \/ (handler = "entering" /\ Received = n)'
                       \/ (n \in reported)' \/ (n \in dropped \union cutOff)'
    BY DEF NothingLost, Begun
  <2>1. n \in Begun /\ n \notin stored
    BY <1>1, <1>6
  <2>2. number'[n] = number[n]
    BY <1>4, <2>1
  <2>. QED  BY <1>1, <2>1, <2>2 DEF IInv, NothingLost, IsOrderExisted, Received, Begun
<1>. QED
  BY <1>1, <1>4, <1>5, <1>6, <1>7, SameRows, SameRecord DEF IInv, recvVars, typeVars

\* The pile charges off line.
LEMMA PileChargesInv ==
  ASSUME IInv, NEW n \in PileSessions, NEW no \in Numbers, PileChargesOffline(n, no)
  PROVE  IInv'
<1>1. /\ n \notin offline /\ offline' = offline \union {n}
      /\ number' = [number EXCEPT ![n] = no]
      /\ stored' = stored \union {n}
      /\ UNCHANGED <<issued, open, billed, crashes, sending, mRecv, field, startType,
                     stopType, vinStr, handler, consume, reported, dropped, cutOff>>
  BY DEF PileChargesOffline, liveVars, recvVars, typeVars, httpVars
<1>2. n \in Sessions /\ n \notin Begun /\ no \in Nat
  <2>1. 1 .. issued \subseteq 1 .. MaxSessions
    BY NumbersAssumption DEF IInv, TypeOK
  <2>. QED  BY <1>1, <2>1, SessionFacts, NumbersAssumption DEF IInv, Begun
<1>3. number' \in [Sessions -> Nat] /\ \A k \in Begun : number'[k] = number[k]
  BY <1>1, <1>2, SessionFacts DEF IInv, TypeOK
<1>4. TypeOK'
  BY <1>1, <1>2, <1>3 DEF IInv, TypeOK
<1>5. Begun' = Begun \union {n}
  BY <1>1 DEF Begun
<1>6. NothingLost'
  <2>. SUFFICES ASSUME NEW k \in Begun', k \notin stored'
                PROVE  \/ IsOrderExisted(number[k])'
                       \/ (handler = "entering" /\ Received = k)'
                       \/ (k \in reported)' \/ (k \in dropped \union cutOff)'
    BY DEF NothingLost, Begun
  <2>1. k \in Begun /\ k \notin stored
    BY <1>1, <1>5
  <2>2. number'[k] = number[k]
    BY <1>3, <2>1
  <2>. QED  BY <1>1, <2>1, <2>2 DEF IInv, NothingLost, IsOrderExisted, Received, Begun
<1>. QED
  BY <1>1, <1>3, <1>4, <1>5, <1>6, SameRows, SameRecord DEF IInv, recvVars, typeVars

\* A record is announced: no part of it has been received.
LEMMA RecordAnnouncedInv ==
  ASSUME IInv, NEW n \in stored, RecordAnnounced(n)
  PROVE  IInv'
<1>1. /\ handler = "idle" /\ mRecv' = {} /\ sending' = n
      /\ UNCHANGED <<issued, open, billed, crashes, number, stored, offline, field,
                     startType, stopType, vinStr, handler, consume, reported, dropped,
                     cutOff>>
  BY DEF RecordAnnounced, BeginRecord, AskForRecord, liveVars, typeVars, httpVars
<1>2. TypeOK'
  BY <1>1 DEF IInv, TypeOK
<1>3. Begun' = Begun
  BY <1>1 DEF Begun
<1>4. NothingLost'
  BY <1>1 DEF IInv, NothingLost, IsOrderExisted, Received
<1>. QED
  BY <1>1, <1>2, <1>3, <1>4, SameRows DEF IInv, PartsOfSending, EnteringWhole

\* The VIN of the record stands last, or nothing does.
LEMMA HandleVinFacts ==
  ASSUME vinStr \in Seq(Nat), sending \in Nat, HandleVin
  PROVE  /\ vinStr' \in Seq(Nat)
         /\ IF sending \in NoVin THEN vinStr' = <<>>
            ELSE vinStr' # <<>> /\ vinStr'[Len(vinStr')] = sending
<1>1. CASE sending \in NoVin
  BY <1>1 DEF HandleVin
<1>2. CASE sending \notin NoVin
  <2>1. vinStr' = Append(vinStr, sending)
    BY <1>2 DEF HandleVin
  <2>2. /\ vinStr' \in Seq(Nat) /\ vinStr' # <<>> /\ Len(vinStr') = Len(vinStr) + 1
        /\ vinStr'[Len(vinStr) + 1] = sending
    BY <2>1, AppendFacts
  <2>. QED  BY <1>2, <2>2
<1>. QED  BY <1>1, <1>2

\* After a frame, too, the parts received are of the record under way, and so
\* are the types they set.
LEMMA FrameFacts ==
  ASSUME TypeOK, PartsOfSending, NEW part \in Parts, RecordFrame(part)
  PROVE  /\ field' \in [Parts -> Sessions \union {0}]
         /\ startType' \in Sessions \union {0} /\ stopType' \in Sessions \union {0}
         /\ \A p \in mRecv \union {part} :
              /\ field'[p] = sending
              /\ p = CardPart /\ sending \notin NoCard => startType' = sending
              /\ p = StopPart /\ sending \notin NoStop => stopType' = sending
<1>1. field' = [field EXCEPT ![part] = sending] /\ SetTypes(part)
  BY DEF RecordFrame
<1>2. field \in [Parts -> Sessions \union {0}] /\ sending \in Sessions \union {0}
      /\ startType \in Sessions \union {0} /\ stopType \in Sessions \union {0}
      /\ mRecv \subseteq Parts
  BY SessionFacts DEF TypeOK
<1>. QED  BY <1>1, <1>2 DEF SetTypes, PartsOfSending

\* A part of a record arrives; with the last one the record is confirmed.
LEMMA RecordFrameInv ==
  ASSUME IInv, NEW part \in Parts, RecordFrame(part)
  PROVE  IInv'
<1>1. /\ handler = "idle" /\ sending # 0 /\ sending \in stored
      /\ UNCHANGED <<issued, open, billed, crashes, number, offline, consume, reported,
                     dropped, cutOff>>
  BY DEF RecordFrame, liveVars, httpVars, IInv, TypeOK
<1>2. Begun' = Begun /\ sending \in Begun /\ sending \in Nat
  BY <1>1, SessionFacts DEF IInv, TypeOK, Begun
<1>3. /\ field' \in [Parts -> Sessions \union {0}]
      /\ startType' \in Sessions \union {0} /\ stopType' \in Sessions \union {0}
      /\ \A p \in mRecv \union {part} :
           /\ field'[p] = sending
           /\ p = CardPart /\ sending \notin NoCard => startType' = sending
           /\ p = StopPart /\ sending \notin NoStop => stopType' = sending
  BY FrameFacts DEF IInv
<1>4. CASE Parts \subseteq mRecv \union {part}
  <2>1. mRecv' = {} /\ handler' = "entering" /\ Confirm /\ HandleVin
    BY <1>4 DEF RecordFrame
  <2>2. vinStr' \in Seq(Nat)
        /\ IF sending \in NoVin THEN vinStr' = <<>>
           ELSE vinStr' # <<>> /\ vinStr'[Len(vinStr')] = sending
    BY <1>2, <2>1, HandleVinFacts DEF IInv, TypeOK
  <2>3. stored' \subseteq stored /\ stored \subseteq stored' \union {sending}
        /\ sending' \in stored' \union {0}
    BY <1>1, <2>1 DEF Confirm, IInv, TypeOK
  <2>4. /\ \A p \in Parts : field'[p] = sending
        /\ Received' = sending
        /\ sending \notin NoCard => startType' = sending
        /\ sending \notin NoStop => stopType' = sending
    BY <1>3, <1>4, PartsAssumption DEF Received
  <2>5. TypeOK'
    BY <1>1, <1>3, <2>1, <2>2, <2>3 DEF IInv, TypeOK
  <2>6. EnteringWhole'
    BY <1>2, <2>2, <2>4 DEF EnteringWhole, WholeRecord
  <2>7. NothingLost'
    BY <1>1, <2>1, <2>3, <2>4 DEF IInv, NothingLost, IsOrderExisted
  <2>. QED  BY <1>1, <1>2, <2>1, <2>5, <2>6, <2>7, SameRows DEF IInv, PartsOfSending
<1>5. CASE ~(Parts \subseteq mRecv \union {part})
  <2>1. mRecv' = mRecv \union {part} /\ UNCHANGED <<stored, sending, vinStr, handler>>
    BY <1>5 DEF RecordFrame
  <2>2. TypeOK'
    BY <1>1, <1>3, <2>1 DEF IInv, TypeOK
  <2>3. NothingLost'
    BY <1>1, <2>1 DEF IInv, NothingLost, IsOrderExisted
  <2>4. PartsOfSending' /\ EnteringWhole'
    BY <1>1, <1>3, <2>1 DEF PartsOfSending, EnteringWhole
  <2>. QED
    BY <1>1, <1>2, <2>2, <2>3, <2>4, SameRows DEF IInv
<1>. QED  BY <1>4, <1>5

-----------------------------------------------------------------------------
(* Steps that add a row.                                                   *)

\* A new row keeps the old ones and their numbers.
LEMMA NewRow ==
  ASSUME TypeOK, NEW row \in Row, consume' = Append(consume, row)
  PROVE  /\ consume' \in Seq(Row)
         /\ DOMAIN consume' = DOMAIN consume \union {Len(consume) + 1}
         /\ \A i \in DOMAIN consume : consume'[i] = consume[i] /\ i < Len(consume) + 1
         /\ consume'[Len(consume) + 1] = row
         /\ \A i \in DOMAIN consume' : i \in Nat
         /\ \A n : IsOrderExisted(n) => IsOrderExisted(n)'
         /\ \A i, j \in DOMAIN consume' :
              i < j => i \in DOMAIN consume /\ (j \in DOMAIN consume \/ j = Len(consume) + 1)
<1>1. consume \in Seq(Row)
  BY DEF TypeOK
<1>2. /\ consume' \in Seq(Row)
      /\ DOMAIN consume' = DOMAIN consume \union {Len(consume) + 1}
      /\ DOMAIN consume = 1 .. Len(consume)
      /\ Len(consume) \in Nat
      /\ \A i \in DOMAIN consume : consume'[i] = consume[i]
      /\ consume'[Len(consume) + 1] = row
  BY <1>1, AppendFacts
<1>3. \A i \in DOMAIN consume : i \in Nat /\ i < Len(consume) + 1
  BY <1>2
<1>4. \A n : IsOrderExisted(n) => IsOrderExisted(n)'
  BY <1>2 DEF IsOrderExisted
<1>5. \A i, j \in DOMAIN consume' :
        i < j => i \in DOMAIN consume /\ (j \in DOMAIN consume \/ j = Len(consume) + 1)
  BY <1>2
<1>. QED  BY <1>2, <1>3, <1>4, <1>5

\* The live order bills its session.
LEMMA LiveBillInv == IInv /\ LiveBill => IInv'
<1>. SUFFICES ASSUME IInv, LiveBill
              PROVE  IInv'
  OBVIOUS
<1>. DEFINE row == [connectorflowno |-> number[open], session |-> open, by |-> "live",
                    of |-> {}, startType |-> 0, stopType |-> 0, vin |-> <<>>]
<1>1. /\ handler = "idle" /\ open # 0 /\ open \notin billed
      /\ billed' = billed \union {open} /\ open' = 0
      /\ consume' = Append(consume, row)
      /\ UNCHANGED <<issued, crashes, number, stored, offline, sending, mRecv, field,
                     startType, stopType, vinStr, handler, reported, dropped, cutOff>>
  BY DEF LiveBill, Live!Bill, pileVars, recvVars, typeVars, httpVars
<1>2. open \in Begun /\ open \in 1 .. issued /\ open \in Nat /\ number[open] \in Nat
  <2>1. issued \in Nat /\ open \in 0 .. issued /\ number \in [Sessions -> Nat]
    BY NumbersAssumption DEF IInv, TypeOK
  <2>2. open \in 1 .. issued /\ open \in Nat
    BY <1>1, <2>1
  <2>3. open \in Begun
    BY <2>2 DEF Begun
  <2>. QED  BY <2>1, <2>2, <2>3, SessionFacts DEF IInv
<1>3. row \in Row
  BY <1>2 DEF Row
<1>4. row.by = "live" /\ row.session = open /\ row.connectorflowno = number[open]
  OBVIOUS
<1>. HIDE DEF row
<1>5. /\ consume' \in Seq(Row)
      /\ DOMAIN consume' = DOMAIN consume \union {Len(consume) + 1}
      /\ \A i \in DOMAIN consume : consume'[i] = consume[i] /\ i < Len(consume) + 1
      /\ consume'[Len(consume) + 1] = row
      /\ \A n : IsOrderExisted(n) => IsOrderExisted(n)'
      /\ \A i, j \in DOMAIN consume' :
           i < j => i \in DOMAIN consume /\ (j \in DOMAIN consume \/ j = Len(consume) + 1)
  BY <1>1, <1>3, NewRow DEF IInv
<1>6. TypeOK'
  BY <1>1, <1>2, <1>5, NumbersAssumption DEF IInv, TypeOK
<1>7. LiveRowsBilled'
  BY <1>1, <1>4, <1>5 DEF IInv, LiveRowsBilled
<1>8. RowOfOneRecord'
  BY <1>4, <1>5 DEF IInv, RowOfOneRecord
<1>9. Begun' = Begun
  BY <1>1 DEF Begun
<1>10. RowsNumbered'
  BY <1>1, <1>2, <1>4, <1>5, <1>9 DEF IInv, RowsNumbered
<1>11. RecordEnteredOnce'
  <2>. SUFFICES ASSUME NEW i \in DOMAIN consume', NEW j \in DOMAIN consume', i < j
                PROVE  /\ consume'[i].connectorflowno = consume'[j].connectorflowno
                            => consume'[j].by = "live"
                       /\ consume'[i].session = consume'[j].session
                            => consume'[i].by = "record" /\ consume'[j].by = "live"
    BY DEF RecordEnteredOnce
  <2>1. i \in DOMAIN consume /\ consume[i] \in Row /\ consume'[i] = consume[i]
    BY <1>5 DEF IInv, TypeOK
  <2>2. CASE j \in DOMAIN consume
    BY <1>5, <2>1, <2>2 DEF IInv, RecordEnteredOnce
  <2>3. CASE j = Len(consume) + 1
    <3>1. consume'[j].by = "live" /\ consume'[j].session = open
      BY <1>4, <1>5, <2>3
    <3>2. consume[i].session = open => consume[i].by # "live"
      BY <1>1, <2>1 DEF IInv, LiveRowsBilled
    <3>. QED  BY <2>1, <3>1, <3>2 DEF Row
  <2>. QED  BY <1>5, <2>2, <2>3
<1>12. NothingLost'
  BY <1>1, <1>5 DEF IInv, NothingLost, Received
<1>13. PartsOfSending' /\ EnteringWhole'
  BY <1>1, <1>9, SameRecord DEF recvVars, typeVars
<1>. QED
  BY <1>6, <1>7, <1>8, <1>10, <1>11, <1>12, <1>13 DEF IInv

\* The rest of the handler enters the record, unless its number has a row.
LEMMA EnterRecordInv == IInv /\ EnterRecord => IInv'
<1>. SUFFICES ASSUME IInv, EnterRecord
              PROVE  IInv'
  OBVIOUS
<1>. DEFINE row == [connectorflowno |-> number[Received], session |-> Received,
                    by |-> "record", of |-> {field[part] : part \in Parts},
                    startType |-> startType, stopType |-> stopType, vin |-> vinStr]
<1>1. /\ handler = "entering" /\ handler' = "idle"
      /\ UNCHANGED <<issued, open, billed, crashes, number, stored, offline, sending,
                     mRecv, field, startType, stopType, vinStr, cutOff>>
  BY DEF EnterRecord, liveVars, pileVars, recvVars, typeVars
<1>2. /\ WholeRecord(Received) /\ Received \in Begun /\ Received \in Sessions
      /\ Received \in Nat /\ number[Received] \in Nat
  BY <1>1, SessionFacts DEF IInv, EnteringWhole, WholeRecord, TypeOK
<1>3. Begun' = Begun /\ Received' = Received
  BY <1>1 DEF Begun, Received
<1>4. PartsOfSending' /\ EnteringWhole'
  BY <1>1 DEF IInv, PartsOfSending, EnteringWhole
<1>5. /\ reported' \in SUBSET Sessions /\ dropped' \in SUBSET Sessions
      /\ reported \subseteq reported' /\ dropped \subseteq dropped'
      /\ MustEnter => Received \in reported' \union dropped'
  BY <1>2 DEF EnterRecord, SendRecordMsg, httpVars, IInv, TypeOK
<1>6. CASE ~MustEnter \/ consume' = consume
  <2>1. consume' = consume
    BY <1>6 DEF EnterRecord
  <2>2. TypeOK'
    BY <1>1, <1>5, <2>1 DEF IInv, TypeOK
  <2>3. NothingLost'
    BY <1>1, <1>3, <1>5, <2>1 DEF IInv, NothingLost, IsOrderExisted, MustEnter
  <2>. QED
    BY <1>1, <1>3, <1>4, <2>1, <2>2, <2>3, SameRows DEF IInv
<1>7. CASE MustEnter /\ consume' = Append(consume, row)
  <2>1. /\ row.by = "record" /\ row.session = Received
        /\ row.connectorflowno = number[Received] /\ row.vin = vinStr
        /\ row.startType = startType /\ row.stopType = stopType
        /\ row.of = {field[part] : part \in Parts}
    OBVIOUS
  <2>2. row.of = {Received}
    BY <1>2, <2>1, PartsAssumption DEF WholeRecord
  <2>3. row \in Row
    <3>1. startType \in Nat /\ stopType \in Nat /\ vinStr \in Seq(Nat)
      BY SessionFacts DEF IInv, TypeOK
    <3>2. {field[part] : part \in Parts} = {Received}
      BY <2>1, <2>2
    <3>. QED  BY <1>2, <3>1, <3>2 DEF Row
  <2>4. /\ Received \notin NoCard => row.startType = Received
        /\ Received \notin NoStop => row.stopType = Received
        /\ IF Received \in NoVin THEN row.vin = <<>>
           ELSE row.vin # <<>> /\ row.vin[Len(row.vin)] = Received
    BY <1>2, <2>1 DEF WholeRecord
  <2>. HIDE DEF row
  <2>5. /\ consume' \in Seq(Row)
        /\ DOMAIN consume' = DOMAIN consume \union {Len(consume) + 1}
        /\ \A i \in DOMAIN consume : consume'[i] = consume[i] /\ i < Len(consume) + 1
        /\ consume'[Len(consume) + 1] = row
        /\ \A k : IsOrderExisted(k) => IsOrderExisted(k)'
        /\ \A i, j \in DOMAIN consume' :
             i < j => i \in DOMAIN consume /\ (j \in DOMAIN consume \/ j = Len(consume) + 1)
    BY <1>7, <2>3, NewRow DEF IInv
  <2>6. TypeOK'
    BY <1>1, <1>5, <2>5 DEF IInv, TypeOK
  <2>7. LiveRowsBilled'
    BY <1>1, <2>1, <2>5 DEF IInv, LiveRowsBilled
  <2>8. RowOfOneRecord'
    BY <2>1, <2>2, <2>4, <2>5 DEF IInv, RowOfOneRecord
  <2>9. RowsNumbered'
    BY <1>1, <1>2, <1>3, <2>1, <2>5 DEF IInv, RowsNumbered
  <2>10. RecordEnteredOnce'
    <3>. SUFFICES ASSUME NEW i \in DOMAIN consume', NEW j \in DOMAIN consume', i < j
                  PROVE  /\ consume'[i].connectorflowno = consume'[j].connectorflowno
                              => consume'[j].by = "live"
                         /\ consume'[i].session = consume'[j].session
                              => consume'[i].by = "record" /\ consume'[j].by = "live"
      BY DEF RecordEnteredOnce
    <3>1. i \in DOMAIN consume /\ consume'[i] = consume[i]
      BY <2>5
    <3>2. CASE j \in DOMAIN consume
      BY <2>5, <3>1, <3>2 DEF IInv, RecordEnteredOnce
    <3>3. CASE j = Len(consume) + 1
      <4>1. consume[i].connectorflowno # number[Received]
        BY <1>7, <3>1 DEF MustEnter, IsOrderExisted
      <4>2. consume[i].connectorflowno = number[consume[i].session]
        BY <3>1 DEF IInv, RowsNumbered
      <4>. QED  BY <2>1, <2>5, <3>1, <3>3, <4>1, <4>2
    <3>. QED  BY <2>5, <3>2, <3>3
  <2>11. NothingLost'
    BY <1>1, <1>3, <1>5, <1>7, <2>5 DEF IInv, NothingLost
  <2>. QED
    BY <1>4, <2>6, <2>7, <2>8, <2>9, <2>10, <2>11 DEF IInv
<1>8. ~MustEnter \/ consume' = consume \/ (MustEnter /\ consume' = Append(consume, row))
  <2>1. CASE MustEnter
    <3>1. SaveOrder
      BY <2>1 DEF EnterRecord
    <3>. QED  BY <2>1, <3>1 DEF SaveOrder
  <2>. QED  BY <2>1
<1>. QED  BY ONLY <1>6, <1>7, <1>8

\* The gateway crashes; a record it was about to enter is cut off.
LEMMA RestartInv == IInv /\ Restart => IInv'
<1>. SUFFICES ASSUME IInv, Restart
              PROVE  IInv'
  OBVIOUS
<1>1. /\ crashes' = crashes + 1 /\ open' = 0 /\ mRecv' = {} /\ vinStr' = <<>>
      /\ field' = [part \in Parts |-> 0] /\ startType' = 0 /\ stopType' = 0
      /\ handler' = "idle"
      /\ cutOff' = IF handler = "entering" THEN cutOff \union {Received} ELSE cutOff
      /\ UNCHANGED <<issued, billed, number, stored, offline, sending, consume, reported,
                     dropped>>
  BY DEF Restart, Live!Crash, pileVars, httpVars
<1>2. handler = "entering" => Received \in Sessions
  BY SessionFacts DEF IInv, EnteringWhole, WholeRecord
<1>3. TypeOK'
  <2>1. cutOff' \in SUBSET Sessions
    BY <1>1, <1>2 DEF IInv, TypeOK
  <2>2. crashes' \in Nat /\ open' \in 0 .. issued
    BY <1>1 DEF IInv, TypeOK
  <2>3. vinStr' \in Seq(Nat) /\ field' \in [Parts -> Sessions \union {0}]
    BY <1>1
  <2>. QED  BY <1>1, <2>1, <2>2, <2>3 DEF IInv, TypeOK
<1>4. Begun' = Begun
  BY <1>1 DEF Begun
<1>5. NothingLost'
  BY <1>1 DEF IInv, NothingLost, IsOrderExisted
<1>. QED
  BY <1>1, <1>3, <1>4, <1>5, SameRows DEF IInv, PartsOfSending, EnteringWhole

\* A step that changes nothing keeps the invariant.
LEMMA StutterInv == IInv /\ UNCHANGED vars => IInv'
BY DEF vars, liveVars, pileVars, recvVars, typeVars, httpVars, IInv, TypeOK,
       PartsOfSending, EnteringWhole, WholeRecord, Begun, Received, RowsNumbered,
       LiveRowsBilled, RecordEnteredOnce, RowOfOneRecord, NothingLost, IsOrderExisted

-----------------------------------------------------------------------------
\* The inductive invariant holds always: the parts received are of the record
\* being sent, what a confirmed record enters is whole, a row has the number of
\* its session, and a live row is in the ledger.
THEOREM Inductive == Spec => []IInv
<1>1. IInv /\ [Next]_vars => IInv'
  BY LiveStartInv, LiveBillInv, PileChargesInv, RecordAnnouncedInv, RecordFrameInv,
     EnterRecordInv, RestartInv, StutterInv
  DEF Next
<1>. QED  BY InitInv, <1>1, PTL DEF Spec

\* Every variable of CRecordOrder, of the pile and of the table keeps its type.
THEOREM TypeCorrect == Spec => []TypeOK
BY Inductive, PTL DEF IInv

\* A record makes no second row for its session, and none for a number that
\* has a row.
THEOREM RecordsEnteredOnce == Spec => []RecordEnteredOnce
BY Inductive, PTL DEF IInv

\* Every field of a row that the frames of its record set is of that record.
THEOREM RowsOfOneRecord == Spec => []RowOfOneRecord
BY Inductive, PTL DEF IInv

\* A charge is lost by a crash between confirmation and row, by an insert that
\* fails together with a lost request, or by a number that has a row already.
THEOREM NoChargeLost == Spec => []NothingLost
BY Inductive, PTL DEF IInv

-----------------------------------------------------------------------------
(* OrderUpload *)

\* The rows of a number are rows of the table.
LEMMA RowsAreRows == \A flow : RowsOf(flow) \subseteq DOMAIN flowno
BY DEF RowsOf

\* Every step keeps the types: requests and marks are about rows there are.
LEMMA UploadTypeNext == UploadTypeOK /\ [UploadNext]_uploadVars => UploadTypeOK'
<1> SUFFICES ASSUME UploadTypeOK, [UploadNext]_uploadVars PROVE UploadTypeOK'
  OBVIOUS
<1>1. ASSUME NEW flow \in FlowNos, InsertRow(flow)
      PROVE  UploadTypeOK'
  BY <1>1, AppendFacts DEF InsertRow, UploadTypeOK
<1>2. ASSUME NEW flow \in FlowNos, UpdateAccepted(flow)
      PROVE  UploadTypeOK'
  BY <1>2, RowsAreRows DEF UpdateAccepted, MarkRows, UploadTypeOK
<1>3. CASE CheckTimeout
  BY <1>3 DEF CheckTimeout, Unsent, UploadTypeOK
<1>4. ASSUME NEW status \in {200, 500}, NEW flow \in FlowNos, RecordAnswered(status, flow)
      PROVE  UploadTypeOK'
  <2>1. upload \in DOMAIN flowno
    BY <1>4 DEF RecordAnswered, UploadTypeOK
  <2>2. accepted' \in SUBSET DOMAIN flowno
    BY <1>4, <2>1 DEF RecordAnswered, UploadTypeOK
  <2>3. send_success' \in SUBSET DOMAIN flowno
    BY <1>4, RowsAreRows DEF RecordAnswered, MarkRows, UploadTypeOK
  <2>4. upload' = 0 /\ flowno' = flowno
    BY <1>4 DEF RecordAnswered
  <2> QED
    BY <2>2, <2>3, <2>4 DEF UploadTypeOK
<1>5. CASE RecordFailed
  BY <1>5 DEF RecordFailed, UploadTypeOK
<1>6. CASE UNCHANGED uploadVars
  BY <1>6 DEF uploadVars, UploadTypeOK
<1> QED
  BY <1>1, <1>2, <1>3, <1>4, <1>5, <1>6 DEF UploadNext

\* A row under way stays behind marked rows only: new rows come behind it,
\* marks are never taken away, and a new request is for the first row.
LEMMA InOrderNext == UploadTypeOK /\ InOrder /\ [UploadNext]_uploadVars => InOrder'
<1> SUFFICES ASSUME UploadTypeOK, InOrder, [UploadNext]_uploadVars PROVE InOrder'
  OBVIOUS
<1>1. ASSUME NEW flow \in FlowNos, InsertRow(flow)
      PROVE  InOrder'
  <2>1. /\ flowno \in Seq(FlowNos)
        /\ upload \in DOMAIN flowno \union {0}
        /\ flowno' = Append(flowno, flow)
        /\ upload' = upload /\ send_success' = send_success
    BY <1>1 DEF InsertRow, UploadTypeOK
  <2>2. /\ DOMAIN flowno' = DOMAIN flowno \union {Len(flowno) + 1}
        /\ DOMAIN flowno = 1 .. Len(flowno) /\ Len(flowno) \in Nat
    BY <2>1, AppendFacts
  <2>3. \A j \in DOMAIN flowno' : j < upload => j \in DOMAIN flowno
    BY <2>1, <2>2
  <2> QED
    BY <2>1, <2>3 DEF InOrder
<1>2. ASSUME NEW flow \in FlowNos, UpdateAccepted(flow)
      PROVE  InOrder'
  BY <1>2 DEF UpdateAccepted, MarkRows, InOrder
<1>3. CASE CheckTimeout
  <2>1. PICK i \in Unsent : Queried(i) /\ upload' = i
    BY <1>3 DEF CheckTimeout
  <2>2. flowno' = flowno /\ send_success' = send_success
    BY <1>3 DEF CheckTimeout
  <2>3. DOMAIN flowno = 1 .. Len(flowno) /\ Len(flowno) \in Nat
    BY DEF UploadTypeOK
  <2>4. ASSUME NEW j \in DOMAIN flowno, j < i
        PROVE  j \in send_success
    <3>1. i \in DOMAIN flowno
      BY <2>1 DEF Unsent
    <3> QED
      BY <2>1, <2>3, <2>4, <3>1 DEF Queried, Unsent
  <2> QED
    BY <2>1, <2>2, <2>4 DEF InOrder
<1>4. CASE \/ \E status \in {200, 500}, flow \in FlowNos : RecordAnswered(status, flow)
           \/ RecordFailed
  <2>1. upload' = 0 /\ flowno' = flowno
    BY <1>4 DEF RecordAnswered, RecordFailed
  <2>2. \A j \in DOMAIN flowno : ~(j < 0)
    BY DEF UploadTypeOK
  <2> QED
    BY <2>1, <2>2 DEF InOrder
<1>5. CASE UNCHANGED uploadVars
  BY <1>5 DEF uploadVars, InOrder
<1> QED
  BY <1>1, <1>2, <1>3, <1>4, <1>5 DEF UploadNext

\* Initially the table is empty and nothing is under way.
LEMMA UploadInitInv == UploadInit => UploadTypeOK /\ InOrder
BY DEF UploadInit, UploadTypeOK, InOrder

-----------------------------------------------------------------------------
(* Theorems *)

\* The requests and marks of saveOrder, the uploader and the answers keep the
\* types of their variables.
THEOREM UploadTypeCorrect == UploadSpec => []UploadTypeOK
BY UploadInitInv, UploadTypeNext, PTL DEF UploadSpec

\* queryOrderList sends the table in the order of its rows.
THEOREM SentInOrder == UploadSpec => []InOrder
<1>1. UploadTypeOK /\ InOrder /\ [UploadNext]_uploadVars => (UploadTypeOK /\ InOrder)'
  BY UploadTypeNext, InOrderNext
<1> QED
  BY <1>1, UploadInitInv, PTL DEF UploadSpec
=============================================================================
