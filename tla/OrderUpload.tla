---------------------------- MODULE OrderUpload ----------------------------
(***************************************************************************)
(* The table "consume" and the uploader: every 30 s CDataUploader sends    *)
(* the first row that is not marked as "hisOrder", and CRecordHttp marks   *)
(* the rows of the answered order number.                                  *)
(*                                                                         *)
(* The connectors are the environment: they add rows (saveOrder) and mark  *)
(* the rows of an order number when updateOrder succeeds (setBConsume);    *)
(* OrderReport shows that they do no more than this. The off-line records  *)
(* of CRecordOrder do the same: they add rows, and their own hisOrder      *)
(* requests mark the rows of a number. The table outlives the process.     *)
(* "accepted" is a history variable.                                       *)
(***************************************************************************)
EXTENDS Naturals, Sequences

CONSTANTS
  FlowNos,        \* order numbers
  NoFlow,         \* the empty order number
  Silent,         \* numbers the platform never names in an answer
  MaxRows         \* bound: rows of the table

ASSUME FlowNosAssumption == NoFlow \in FlowNos /\ Silent \subseteq FlowNos
ASSUME BoundAssumption == MaxRows \in Nat

VARIABLES
  flowno,         \* the column "flowno" of the rows, in the order of insertion
  send_success,   \* the rows with send_success = '1'
  upload,         \* the row whose hisOrder request is not answered yet, or 0
  accepted        \* the rows the platform has answered with status 200

uploadVars == <<flowno, send_success, upload, accepted>>

-----------------------------------------------------------------------------
\* The rows "where flowno = flow", and those with send_success = '0'.
RowsOf(flow) == {i \in DOMAIN flowno : flowno[i] = flow}
Unsent       == DOMAIN flowno \ send_success

MarkRowsDefect(flow) ==
  send_success' = send_success \union {i \in RowsOf(flow) : i < Len(flowno)}

\* completeOrder(flow): every row of the number is marked.
MarkRows(flow) == send_success' = send_success \union RowsOf(flow)

QueriedDefect(i) == i \in Unsent /\ \A j \in Unsent : i >= j

\* queryOrderList: of the rows that are not marked, the first.
Queried(i) == i \in Unsent /\ \A j \in Unsent : i <= j

-----------------------------------------------------------------------------
(* The connectors *)

InsertRow(flow) ==
  /\ Len(flowno) < MaxRows
  /\ flowno' = Append(flowno, flow)
  /\ UNCHANGED <<send_success, upload, accepted>>

UpdateAccepted(flow) ==
  /\ MarkRows(flow)
  /\ UNCHANGED <<flowno, upload, accepted>>

-----------------------------------------------------------------------------
(* The uploader *)

\* The 30 s timer. The request of the tick before has ended, it is closed
\* after 10 s.
CheckTimeout ==
  /\ upload = 0
  /\ \E i \in Unsent : Queried(i) /\ upload' = i
  /\ UNCHANGED <<flowno, send_success, accepted>>

\* An answer that is not empty marks the rows of the number it names, or of
\* the empty number if it names none, whatever status it carries: the
\* comparison with 200 is commented out.
RecordAnswered(status, flow) ==
  /\ upload # 0
  /\ flow \in {NoFlow} \union ({flowno[upload]} \ Silent)
  /\ upload' = 0
  /\ MarkRows(flow)
  /\ accepted' = IF status = 200 THEN accepted \union {upload} ELSE accepted
  /\ UNCHANGED flowno

\* An empty answer, or 10 s without one; or the process is restarted and the
\* request is lost with it.
RecordFailed ==
  /\ upload # 0
  /\ upload' = 0
  /\ UNCHANGED <<flowno, send_success, accepted>>

-----------------------------------------------------------------------------
UploadInit ==
  /\ flowno = <<>>
  /\ send_success = {}
  /\ upload = 0
  /\ accepted = {}

UploadNext ==
  \/ \E flow \in FlowNos : InsertRow(flow) \/ UpdateAccepted(flow)
  \/ CheckTimeout
  \/ \E status \in {200, 500}, flow \in FlowNos : RecordAnswered(status, flow)
  \/ RecordFailed

UploadSpec == UploadInit /\ [][UploadNext]_uploadVars

\* The uploader's timer runs as long as the process does, every request ends
\* after 10 s, and a platform that is asked about a number again and again
\* names it in an answer in the end, unless the number is a silent one.
UploadFairSpec ==
  /\ UploadSpec
  /\ WF_uploadVars(CheckTimeout)
  /\ WF_uploadVars(RecordFailed)
  /\ SF_uploadVars(upload # 0 /\ \E status \in {200, 500} : RecordAnswered(status, flowno[upload]))

-----------------------------------------------------------------------------
(* Properties *)

\* Every variable keeps its type, and only rows there are can be marked or
\* under way.
UploadTypeOK ==
  /\ flowno \in Seq(FlowNos)
  /\ send_success \in SUBSET DOMAIN flowno
  /\ upload \in DOMAIN flowno \union {0}
  /\ accepted \in SUBSET DOMAIN flowno

\* The table is sent in the order of its rows: while the request of a row is
\* under way, every row before it has been marked, although rows are added
\* and marked by the connectors at any time.
InOrder == \A j \in DOMAIN flowno : j < upload => j \in send_success

\* Every row the platform answers is marked in the end, also if answers get
\* lost, answers do not name the row's number and the process is restarted,
\* as long as there is no silent number.
EveryRowSent ==
  \A i \in 1 .. MaxRows : (i \in DOMAIN flowno) ~> (i \in send_success)

-----------------------------------------------------------------------------
(* What the comments promise and the code does not do *)

\* Comment in front of CRecordHttp::reqReply: the database is updated if the
\* answer is a success. So the row under way is marked only if accepted.
MarkedIsAccepted ==
  [][\A i \in send_success' \ send_success : upload = i /\ upload' = 0 => i \in accepted']_uploadVars

\* Comment in queryOrderList: all charging data that has not been settled is
\* fetched. So a number the platform never names in an answer does not keep the
\* rows of other numbers from it.
OthersAreSent ==
  \A i \in 1 .. MaxRows :
    (i \in DOMAIN flowno /\ flowno[i] \notin Silent) ~> (i \in send_success)
=============================================================================
