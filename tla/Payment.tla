------------------------------- MODULE Payment -------------------------------
(***************************************************************************)
(* Who pays for an order of one connector: the charge type, account, fee   *)
(* and card number of CConnectorOrder, which remote commands, bookings,    *)
(* card verifications and settlements all write, and the refund of a       *)
(* prepaid start command that the pile refuses.                            *)
(*                                                                         *)
(* CVerify collects the frames of a card, CCardVerifyHttpHandler asks the  *)
(* platform and writes the order when the answer or its 5 s timeout comes; *)
(* CWeChatRefund and CAliRefund, alike but for the address, repeat a       *)
(* refund that failed or was not answered within 5 s.                      *)
(*                                                                         *)
(* All of it runs on the event loop: a handler is one action. The platform *)
(* and the pile are the environment: commands arrive at any time, answers  *)
(* and frames may get lost, the gateway may be restarted.                  *)
(*                                                                         *)
(* Abstractions. The fee of a command is its place in the history of       *)
(* commands. Whether a kept booking withholds a command is Booking's       *)
(* matter and either way is possible here; so is, with ChargeOrder, when a *)
(* session is open and when its bill is complete. Only the first card      *)
(* frame carries data that is used. The payment channel is set together    *)
(* with the account and left out.                                          *)
(***************************************************************************)
EXTENDS Naturals, Sequences, FiniteSets

CONSTANTS
  Accounts,     \* accounts that commands name
  NoAccount,    \* the empty account, which a command may name too
  Prepaid,      \* charge types that are refunded: "7" (WeChat), "9" (Ali)
  Postpaid,     \* other charge types of commands
  CardType,     \* the charge type "2" of a card
  NoType,       \* the empty charge type
  Cards,        \* card numbers, as far as a verification sends them
  NoCard,       \* the cleared card number
  LaterParts,   \* the card frames after the first one
  MaxCommands,  \* bound: commands of the platform
  MaxRows,      \* bound: rows of the table
  MaxRefunds,   \* bound: refunds that are begun
  MaxSpent      \* bound: rejected refund requests not deleted yet

ASSUME ValuesAssumption ==
  /\ NoAccount \notin Accounts
  /\ NoCard \notin Cards
  /\ Prepaid \intersect Postpaid = {}
  /\ CardType # NoType
  /\ {CardType, NoType} \intersect (Prepaid \union Postpaid) = {}
  /\ "first" \notin LaterParts
ASSUME BoundAssumption ==
  /\ MaxCommands \in Nat
  /\ MaxRows \in Nat
  /\ MaxRefunds \in Nat
  /\ MaxSpent \in Nat

VARIABLES
  commands,        \* history: who was named by starts, stops and bookings
  named,           \* history: commands since the order was last cleared
  shown,           \* history: cards read since CVerify was last cleared
  asked,           \* the pile: start commands it has not answered
  open,            \* mOrder: a session is open
  userChargeType,  \* mOrder: the charge type
  paymentAccount,  \* mOrder: the account
  payment,         \* mOrder: the fee, as the command that named it; 0 for none
  cardNO,          \* mOrder: the card number
  consume,         \* rows of the table "consume": who pays
  mRecv,           \* mVerify: card frames received
  cardNo,          \* mVerify: the card number of the first frame
  verifying,       \* cards whose verification is under way
  refunds          \* refunds begun, with their requests

histVars   == <<commands, named, shown>>
orderVars  == <<userChargeType, paymentAccount, payment, cardNO>>
rowVars    == <<open, consume>>
verifyVars == <<mRecv, cardNo, verifying>>
vars == <<histVars, asked, orderVars, rowVars, verifyVars, refunds>>

-----------------------------------------------------------------------------
(* Data *)

CommandTypes == Prepaid \union Postpaid
AnyAccount == Accounts \union {NoAccount}
Command == [type : CommandTypes, account : AnyAccount]
Row == [type : CommandTypes \union {CardType, NoType},
        account : AnyAccount,
        card : Cards \union {NoCard}]

\* A refund: to whom, of which fee, how many requests are under way, how many
\* were answered and wait for their deletion, and how it ended.
Refund == [type : Prepaid, account : AnyAccount, fee : Nat, underWay : Nat,
           spent : Nat, end : {"pending", "refunded", "empty"}]

VerifyParts == {"first"} \union LaterParts

-----------------------------------------------------------------------------
(* The payer of the order *)

SetStartTypeDefect(type, account) ==
  userChargeType' = type /\ UNCHANGED paymentAccount

\* setStartType, and the first lines of takeControl and bookCharger.
SetStartType(type, account) ==
  userChargeType' = type /\ paymentAccount' = account

\* A command of the platform names a charge type and an account. Neither is
\* checked: the account may be empty.
NamePayer(type, account) ==
  /\ Len(commands) < MaxCommands
  /\ commands' = Append(commands, [type |-> type, account |-> account])
  /\ named' = named \union {Len(commands')}
  /\ SetStartType(type, account)
  /\ UNCHANGED shown

\* takeControl, for a start or a stop: the order is overwritten before the
\* account is compared with that of a booking, which may withhold the command.
TakeControl(kind, type, account) ==
  /\ NamePayer(type, account)
  /\ payment' = Len(commands')
  /\ \/ kind = "start" /\ asked' = Append(asked, Len(commands'))
     \/ UNCHANGED asked
  /\ UNCHANGED <<cardNO, rowVars, verifyVars, refunds>>

\* bookCharger: the fee is sent to the pile only.
BookCharger(type, account) ==
  /\ NamePayer(type, account)
  /\ UNCHANGED <<asked, payment, cardNO, rowVars, verifyVars, refunds>>

\* bookCharger with order 2: the booking is cancelled.
CancelBooking ==
  /\ SetStartType(NoType, NoAccount)
  /\ UNCHANGED <<histVars, asked, payment, cardNO, rowVars, verifyVars, refunds>>

-----------------------------------------------------------------------------
(* Sessions *)

\* 0x0850 type 1 with no session open: the payer is what the order has.
SessionStarts ==
  /\ ~open
  /\ open' = TRUE
  /\ UNCHANGED <<histVars, asked, orderVars, consume, verifyVars, refunds>>

\* consumeOrder: the row of the open session.
ConsumeOrder ==
  /\ Len(consume) < MaxRows
  /\ consume' = Append(consume, [type |-> userChargeType,
                                 account |-> paymentAccount, card |-> cardNO])
  /\ open' = FALSE

\* The last bill frame: the row is made, and nothing is cleared.
BillCompleted ==
  /\ open
  /\ ConsumeOrder
  /\ UNCHANGED <<histVars, asked, orderVars, verifyVars, refunds>>

ResetMainParamDefect ==
  /\ UNCHANGED <<userChargeType, paymentAccount>>
  /\ payment' = 0
  /\ cardNO' = NoCard
  /\ named' = {}

\* resetMainParam: the payer is forgotten.
ResetMainParam ==
  /\ userChargeType' = NoType
  /\ paymentAccount' = NoAccount
  /\ payment' = 0
  /\ cardNO' = NoCard
  /\ named' = {}

VerifyResetDefect == mRecv' = {} /\ UNCHANGED cardNo /\ shown' = {}

\* CVerify::reset: sizeof(16) clears four bytes of the card number, which are
\* the four that a verification sends.
VerifyReset == mRecv' = {} /\ cardNo' = NoCard /\ shown' = {}

\* completeOrder: a settlement timer expires, of the open session or of one
\* whose bill was complete. Verifications and commands under way go on.
CompleteOrder ==
  /\ IF open THEN ConsumeOrder ELSE UNCHANGED rowVars
  /\ ResetMainParam
  /\ VerifyReset
  /\ UNCHANGED <<commands, asked, verifying, refunds>>

-----------------------------------------------------------------------------
(* Card verification *)

\* All parts are there: the platform is asked about the number there is.
Received(part) ==
  IF VerifyParts \subseteq mRecv \union {part}
  THEN mRecv' = {} /\ verifying' = verifying \union {cardNo'}
  ELSE mRecv' = mRecv \union {part} /\ UNCHANGED verifying

\* 0x0801 part 1 of a card.
CardFrame(card) ==
  /\ cardNo' = card
  /\ shown' = shown \union {card}
  /\ Received("first")
  /\ UNCHANGED <<commands, named, asked, orderVars, rowVars, refunds>>

\* 0x0801 part 1 of a user name: the card number stays what it was.
UserFrame ==
  /\ UNCHANGED <<cardNo, shown>>
  /\ Received("first")
  /\ UNCHANGED <<commands, named, asked, orderVars, rowVars, refunds>>

\* 0x0801 parts 2 to 4 and 0x0802.
LaterFrame(part) ==
  /\ UNCHANGED <<cardNo, shown>>
  /\ Received(part)
  /\ UNCHANGED <<commands, named, asked, orderVars, rowVars, refunds>>

\* getCardVerifyRetMsg: an answer with any status, an empty one, or 5 s
\* without one. All of them write the order as it is now.
CardVerified(card) ==
  /\ verifying' = verifying \ {card}
  /\ SetStartType(CardType, NoAccount)
  /\ cardNO' = card
  /\ UNCHANGED <<histVars, asked, payment, rowVars, mRecv, cardNo, refunds>>

-----------------------------------------------------------------------------
(* Start commands and refunds *)

\* 0x0884: the pile accepts the command, or its answer gets lost.
StartAccepted ==
  /\ asked # <<>>
  /\ asked' = Tail(asked)
  /\ UNCHANGED <<histVars, orderVars, rowVars, verifyVars, refunds>>

MustRefundDefect == TRUE

\* What decides about a refund is the charge type the order has now.
MustRefund == userChargeType \in Prepaid

\* 0x0884 with command 1 and result 0: the pile refuses. What is refunded is
\* what the order has now.
StartRefused ==
  /\ asked # <<>>
  /\ asked' = Tail(asked)
  /\ IF MustRefund
     THEN /\ Len(refunds) < MaxRefunds
          /\ refunds' = Append(refunds,
               [type |-> userChargeType, account |-> paymentAccount,
                fee |-> payment, underWay |-> 1, spent |-> 0, end |-> "pending"])
     ELSE UNCHANGED refunds
  /\ UNCHANGED <<histVars, orderVars, rowVars, verifyVars>>

RefundUnchanged ==
  UNCHANGED <<histVars, asked, orderVars, rowVars, verifyVars>>

\* A reply to the request of refund k, which is left to be deleted.
ReplyEnds(k, end) ==
  /\ refunds[k].underWay > 0
  /\ refunds' = [refunds EXCEPT ![k].underWay = @ - 1, ![k].spent = @ + 1,
                                ![k].end = end]
  /\ RefundUnchanged

\* Status 200: the refund is done.
RefundSucceeds(k) == ReplyEnds(k, "refunded")

\* An empty answer, a connection that fails among them: nothing is repeated.
RefundEmpty(k) == ReplyEnds(k, "empty")

\* Any other status: a new request with the same data.
RefundRejected(k) ==
  /\ refunds[k].underWay > 0
  /\ refunds[k].spent < MaxSpent
  /\ refunds' = [refunds EXCEPT ![k].spent = @ + 1]
  /\ RefundUnchanged

\* A new request takes the place of the one that timed out.
TimeoutRetry(k) == UNCHANGED refunds

\* 5 s have passed without a reply. The platform may have executed the
\* request all the same.
RefundTimeout(k) ==
  /\ refunds[k].underWay > 0
  /\ TimeoutRetry(k)
  /\ RefundUnchanged

SpentTimeoutDefect(k) ==
  refunds' = [refunds EXCEPT ![k].spent = @ - 1, ![k].underWay = @ + 1]

\* m_flowRet tells the timeout that there was a reply.
SpentTimeout(k) == refunds' = [refunds EXCEPT ![k].spent = @ - 1]

\* A request that was answered is deleted, perhaps after its timeout ran.
RequestDeleted(k) ==
  /\ refunds[k].spent > 0
  /\ SpentTimeout(k)
  /\ RefundUnchanged

-----------------------------------------------------------------------------
\* The gateway is restarted: refunds and verifications are forgotten.
Restart ==
  /\ open' = FALSE
  /\ ResetMainParam
  /\ VerifyReset
  /\ verifying' = {}
  /\ refunds' = <<>>
  /\ UNCHANGED <<commands, asked, consume>>

Init ==
  /\ commands = <<>>
  /\ named = {}
  /\ shown = {}
  /\ asked = <<>>
  /\ open = FALSE
  /\ userChargeType = NoType
  /\ paymentAccount = NoAccount
  /\ payment = 0
  /\ cardNO = NoCard
  /\ consume = <<>>
  /\ mRecv = {}
  /\ cardNo = NoCard
  /\ verifying = {}
  /\ refunds = <<>>

Next ==
  \/ \E type \in CommandTypes, account \in AnyAccount :
       \/ \E kind \in {"start", "stop"} : TakeControl(kind, type, account)
       \/ BookCharger(type, account)
  \/ CancelBooking
  \/ SessionStarts
  \/ BillCompleted
  \/ CompleteOrder
  \/ \E card \in Cards : CardFrame(card)
  \/ UserFrame
  \/ \E part \in LaterParts : LaterFrame(part)
  \/ \E card \in verifying : CardVerified(card)
  \/ StartAccepted
  \/ StartRefused
  \/ \E k \in DOMAIN refunds :
       \/ RefundSucceeds(k)
       \/ RefundEmpty(k)
       \/ RefundRejected(k)
       \/ RefundTimeout(k)
       \/ RequestDeleted(k)
  \/ Restart

Spec == Init /\ [][Next]_vars

-----------------------------------------------------------------------------
(* Properties *)

\* Every variable keeps its type; in particular the fee of a refund is that of
\* some command, or 0. (Neither that it has a fee and an account, nor that both
\* are of one command, is said: see RefundComplete and RefusedIsRefunded.)
TypeOK ==
  /\ commands \in Seq(Command)
  /\ named \in SUBSET DOMAIN commands
  /\ shown \in SUBSET Cards
  /\ asked \in Seq(DOMAIN commands)
  /\ open \in BOOLEAN
  /\ userChargeType \in CommandTypes \union {CardType, NoType}
  /\ paymentAccount \in AnyAccount
  /\ payment \in DOMAIN commands \union {0}
  /\ cardNO \in Cards \union {NoCard}
  /\ consume \in Seq(Row)
  /\ mRecv \in SUBSET VerifyParts
  /\ cardNo \in Cards \union {NoCard}
  /\ verifying \in SUBSET (Cards \union {NoCard})
  /\ refunds \in Seq(Refund)
  /\ \A k \in DOMAIN refunds : refunds[k].fee \in DOMAIN commands \union {0}

\* A command of the set S names this charge type and account.
NamedIn(S, type, account) ==
  \E c \in S : commands[c].type = type /\ commands[c].account = account

\* However commands, bookings, cards and settlements interleave, a row never
\* puts the account of one payer beside the charge type of another.
PayerConsistent ==
  \A i \in DOMAIN consume :
    IF consume[i].type \in CommandTypes
    THEN NamedIn(DOMAIN commands, consume[i].type, consume[i].account)
    ELSE consume[i].account = NoAccount

\* A refund goes to the account that some command has named, with that way of
\* payment, since the order was last settled: never to the payer of an order
\* that is settled. (If that command named none the refund has no account, and
\* whether it is the payer who was refused is another question again, see
\* RefundComplete and RefusedIsRefunded.)
RefundNamed ==
  [][Len(refunds') > Len(refunds) =>
       LET refund == refunds'[Len(refunds')] IN
       NamedIn(named, refund.type, refund.account)]_vars

\* A verification asks about a card that was read since the last settlement,
\* or about none, even if it is completed by frames of a user name or by
\* frames left over from a presentation that was broken off.
VerifiedWasShown ==
  [][verifying' \subseteq verifying \union shown' \union {NoCard}]_vars

\* A refund has one request under way until it ends, and none afterwards: the
\* 5 s timeout of a request never races with its reply.
OneRequestPerRefund ==
  \A k \in DOMAIN refunds :
    refunds[k].underWay = IF refunds[k].end = "pending" THEN 1 ELSE 0

-----------------------------------------------------------------------------
(* What the comments promise and the code does not do *)

\* Comment at case 0x0884 of CConnectorOrder: if a start command fails, the
\* refund is called according to the user's type. So a refused prepaid start
\* is refunded to its account, with its fee.
RefusedIsRefunded ==
  [][StartRefused /\ commands[Head(asked)].type \in Prepaid =>
       /\ Len(refunds') > Len(refunds)
       /\ refunds'[Len(refunds')].fee = Head(asked)
       /\ refunds'[Len(refunds')].account = commands[Head(asked)].account]_vars

-----------------------------------------------------------------------------
(* What does not hold *)

\* A refund names an account and a fee. (A command may name no account; and a
\* booking sets the charge type and the account but not the fee, so that after
\* a settlement, which clears it, an old refusal is refunded with none.)
RefundComplete ==
  \A k \in DOMAIN refunds : refunds[k].account # NoAccount /\ refunds[k].fee # 0
=============================================================================
