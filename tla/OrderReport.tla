---------------------------- MODULE OrderReport ----------------------------
(***************************************************************************)
(* How a charging order is named and reported: the order number (flowNo)   *)
(* of CConnectorOrder, the commands of the platform that set it            *)
(* (CRabbitMQ, CConnectorManager), and the request "updateOrder" that each *)
(* billed order sends (CConsumeHttp). What becomes of a row that is not    *)
(* marked after that is the subject of OrderUpload.                        *)
(*                                                                         *)
(* Every action of ChargeOrder is taken over with what it does to the new  *)
(* variables. The gateway's own order number is the time in milliseconds,  *)
(* so two sessions may have one, as they may have one session number.      *)
(* The platform is the environment: it answers a request with status 200,  *)
(* with another status, or not at all before the request's 10 s are over.  *)
(* "createFlow" and "renamed" are history variables.                       *)
(***************************************************************************)
EXTENDS ChargeOrder

CONSTANT MaxRemotes     \* bound: commands that set the type of the order

ASSUME RemoteAssumption == MaxRemotes \in Nat

VARIABLES
  flowNo,           \* mOrder: the order number
  userChargeType,   \* mOrder: "11" (the platform numbers the order) or "other"
  flowno,           \* the column "flowno" of each row of consume
  send_success,     \* the rows with send_success = '1'
  updates,          \* the rows whose updateOrder request is not answered yet
  createFlow,       \* the order number of each order creation request
  renamed,          \* sessions whose order number was replaced while open
  remotes,          \* how many commands set the type of the order
  told              \* the session that is open while the gateway, in its last
                    \* step, has told the pile that its transaction has
                    \* ended; 0 if none is, or it has not

nameRest   == <<createFlow, renamed, remotes>>
answerVars == <<send_success, updates>>
reportVars == <<flowNo, userChargeType, flowno, nameRest, answerVars>>
allVars    == <<vars, reportVars, told>>

-----------------------------------------------------------------------------
(* Data *)

FlowNo       == [by : {"nobody", "gateway", "platform"}, n : Nat]
NoFlow       == [by |-> "nobody", n |-> 0]

\* The rows "where flowno = flow".
RowsOf(flow) == {i \in DOMAIN flowno : flowno[i] = flow}

-----------------------------------------------------------------------------
(* Helpers. A definition named "...Defect" is a plausible slip in the one   *)
(* below it, put there to test the properties.                             *)

\* createFlowNo: the gateway's own number, unless the platform gave one.
NameOrder(now) ==
  flowNo' = IF userChargeType = "11" THEN flowNo ELSE [by |-> "gateway", n |-> now]

\* resetMainParam: the part that names the order.
ForgetName == flowNo' = NoFlow /\ userChargeType' = "other"

RequestUpdateDefectLate ==
  IF consume' = consume THEN UNCHANGED <<flowno, updates>>
  ELSE /\ flowno' = Append(flowno, NoFlow)
       /\ updates' = updates \union {Len(consume')}

\* consumeOrder: the new row carries the order number, and the platform is
\* told. Without a new row nothing happens.
RequestUpdate ==
  IF consume' = consume THEN UNCHANGED <<flowno, updates>>
  ELSE /\ flowno' = Append(flowno, flowNo)
       /\ updates' = updates \union {Len(consume')}

MarkRowsDefect(flow) == send_success' = DOMAIN flowno

\* completeOrder(flow) of CPileDataHelper: every row of the number is marked.
MarkRows(flow) == send_success' = send_success \union RowsOf(flow)

\* getPlatformConsumeRetMsg: setBConsume works on the copy that order()
\* returns. The order of the connector stays as it is, but the frames it
\* sends, 0x08d0 (the transaction has ended) and 0x081d 100 ms later, reach
\* the pile whatever its session is.
AnswerOrder ==
  /\ told' = IF bStartCharging THEN session ELSE 0
  /\ UNCHANGED vars

-----------------------------------------------------------------------------
(* The actions of the connector *)

ReportStart(now) ==
  /\ StartFrameAccepted(now)
  /\ NameOrder(now)
  /\ UNCHANGED <<userChargeType, flowno, nameRest, answerVars>>

ReportVin(part) ==
  /\ VinFrame(part)
  /\ createFlow' = IF createOrder' = createOrder THEN createFlow
                   ELSE Append(createFlow, flowNo)
  /\ UNCHANGED <<flowNo, userChargeType, flowno, renamed, remotes, answerVars>>

ReportBill(part) ==
  /\ BillFrame(part)
  /\ RequestUpdate
  /\ UNCHANGED <<flowNo, userChargeType, nameRest, send_success>>

ReportComplete ==
  /\ CompleteOrder
  /\ RequestUpdate
  /\ ForgetName
  /\ UNCHANGED <<nameRest, send_success>>

\* The requests that are under way are lost with the process.
ReportRestart ==
  /\ Restart
  /\ ForgetName
  /\ updates' = {}
  /\ UNCHANGED <<flowno, nameRest, send_success>>

\* What does not touch the name of the order or its rows.
ReportQuiet ==
  /\ \/ StartFrameAnswered
     \/ StopFrame
     \/ StopFrameLost
     \/ HeartBeatSettles
     \/ HeartBeatClearsStatus
     \/ MeterFrame
  /\ UNCHANGED reportVars

-----------------------------------------------------------------------------
(* Commands of the platform, at any moment of a session *)

\* A remote start of type 11 (dictate 1): handleRemoteControlCommand sets the
\* type, setRemoteDetail the number the platform has chosen.
RemoteStart ==
  /\ remotes < MaxRemotes
  /\ remotes' = remotes + 1
  /\ userChargeType' = "11"
  /\ flowNo' = [by |-> "platform", n |-> remotes']
  /\ renamed' = IF bStartCharging THEN renamed \union {session} ELSE renamed
  /\ UNCHANGED <<vars, flowno, createFlow, answerVars>>

\* Any other command that sets the type: a remote start of another type, a
\* remote stop (of type 11 too), a booking or its end, a card's answer.
SetChargeType(type) ==
  /\ remotes < MaxRemotes
  /\ remotes' = remotes + 1
  /\ userChargeType' = type
  /\ UNCHANGED <<vars, flowNo, flowno, createFlow, renamed, answerVars>>

-----------------------------------------------------------------------------
(* Requests to the platform *)

\* CConsumeHttp, status 200: the number that is marked is the one the order
\* has now, not the one of the request.
UpdateAccepted(i) ==
  /\ i \in updates
  /\ updates' = updates \ {i}
  /\ MarkRows(flowNo)
  /\ AnswerOrder
  /\ UNCHANGED <<flowNo, userChargeType, flowno, nameRest>>

\* CConsumeHttp, another status, an empty answer, or 10 s without an answer.
UpdateFailed(i) ==
  /\ i \in updates
  /\ updates' = updates \ {i}
  /\ AnswerOrder
  /\ UNCHANGED <<flowNo, userChargeType, flowno, nameRest, send_success>>

-----------------------------------------------------------------------------
ReportInit ==
  /\ Init
  /\ flowNo = NoFlow
  /\ userChargeType = "other"
  /\ flowno = <<>>
  /\ send_success = {}
  /\ updates = {}
  /\ createFlow = <<>>
  /\ renamed = {}
  /\ remotes = 0
  /\ told = 0

\* Every step but an answer of the platform.
OrderNext ==
  \/ \E now \in Times : ReportStart(now)
  \/ \E part \in VinParts : ReportVin(part)
  \/ \E part \in BillParts : ReportBill(part)
  \/ ReportComplete
  \/ ReportRestart
  \/ ReportQuiet
  \/ RemoteStart
  \/ \E type \in {"11", "other"} : SetChargeType(type)

ReportNext ==
  \/ OrderNext /\ told' = 0
  \/ \E i \in updates : UpdateAccepted(i) \/ UpdateFailed(i)

ReportSpec == ReportInit /\ [][ReportNext]_allVars

-----------------------------------------------------------------------------
(* Properties *)

\* Every variable keeps its type, and the columns of the table and the
\* requests agree about the rows there are.
ReportTypeOK ==
  /\ flowNo \in FlowNo
  /\ userChargeType \in {"11", "other"}
  /\ flowno \in Seq(FlowNo)
  /\ Len(flowno) = Len(consume)
  /\ send_success \in SUBSET DOMAIN flowno
  /\ updates \in SUBSET DOMAIN flowno
  /\ createFlow \in Seq(FlowNo)
  /\ Len(createFlow) = Len(createOrder)
  /\ renamed \in SUBSET Nat
  /\ remotes \in Nat
  /\ told \in Nat

\* The order the platform was asked to create and the row of the same session
\* carry the same order number, unless a remote start replaced the number
\* while the session was open: neither a repeated start frame, nor a stale
\* timer, nor an answer that comes late separates the two.
CreateMatchesRow ==
  \A i \in DOMAIN createOrder, j \in DOMAIN consume :
    createOrder[i] = consume[j].session
      => createFlow[i] = flowno[j] \/ createOrder[i] \in renamed

\* The connector uses the table as OrderUpload expects of its environment:
\* it adds rows that are not marked and marks every row of one number.
Table == INSTANCE OrderUpload WITH
  FlowNos  <- [by : {"nobody", "gateway", "platform"}, n : (0 .. MaxRemotes) \union Times],
  Silent   <- {},
  NoFlow   <- NoFlow,
  MaxRows  <- MaxSessions + MaxRestarts + 1,
  upload   <- 0,
  accepted <- {}
UsesTable == Table!UploadSpec

-----------------------------------------------------------------------------
(* What the comments promise and the code does not do *)

\* Comment in front of CConsumeHttp::reqReply: if the platform answers with
\* success, the data is updated in the database. So the answer marks the row
\* it is about.
AcceptedIsMarked ==
  [][\A i \in updates : UpdateAccepted(i) => i \in send_success']_allVars

-----------------------------------------------------------------------------
(* What else does not hold *)

\* An answer leaves the pile's session alone. (It is told that its transaction
\* has ended, whichever session is open by then.)
OpenSessionUndisturbed == told = 0

\* An order number is given to one session. (Two sessions within a
\* millisecond, or a clock that is put back, make it name two; an answer then
\* marks the rows of both.)
OrderNumberNamesSession ==
  \A i, j \in DOMAIN flowno :
    flowno[i] = flowno[j] /\ flowno[i].by = "gateway"
      => consume[i].session = consume[j].session
=============================================================================
