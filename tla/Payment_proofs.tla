---------------------------- MODULE Payment_proofs ----------------------------
(***************************************************************************)
(* Proofs about Payment, for all accounts, charge types and cards and any  *)
(* number of commands, rows, refunds and requests.                         *)
(*                                                                         *)
(* What makes the properties inductive: the charge type and the account of *)
(* the order are always those of one command since the order was cleared,  *)
(* or the account is empty; and the card number of CVerify is cleared or   *)
(* that of a card read since the last settlement.                          *)
(***************************************************************************)
EXTENDS Payment, SequenceTheorems, TLAPS

\* The payer of the order was named by one command since it was cleared.
OrderNamed ==
  IF userChargeType \in CommandTypes
  THEN NamedIn(named, userChargeType, paymentAccount)
  ELSE paymentAccount = NoAccount

\* The card number a verification would send was shown, or is none.
CardShown == cardNo \in shown \union {NoCard}

IInv == TypeOK /\ PayerConsistent /\ OneRequestPerRefund /\ OrderNamed /\ CardShown

-----------------------------------------------------------------------------
\* An element that is appended to a sequence.
LEMMA AppendFacts ==
  ASSUME NEW S, NEW s \in Seq(S), NEW x \in S
  PROVE  /\ Append(s, x) \in Seq(S)
         /\ Len(Append(s, x)) = Len(s) + 1
         /\ DOMAIN Append(s, x) = DOMAIN s \union {Len(s) + 1}
         /\ \A i \in DOMAIN s : Append(s, x)[i] = s[i]
         /\ Append(s, x)[Len(s) + 1] = x
         /\ Len(s) \in Nat
<1>1. DOMAIN s = 1 .. Len(s) /\ Len(s) \in Nat
  OBVIOUS
<1>2. DOMAIN Append(s, x) = 1 .. (Len(s) + 1)
  BY <1>1
<1>. QED  BY <1>1, <1>2, AppendProperties

\* An element of a sequence that is replaced by another.
LEMMA ReplaceFacts ==
  ASSUME NEW S, NEW s \in Seq(S), NEW k \in DOMAIN s, NEW x \in S
  PROVE  /\ s[k] \in S
         /\ [s EXCEPT ![k] = x] \in Seq(S)
         /\ Len([s EXCEPT ![k] = x]) = Len(s)
         /\ DOMAIN [s EXCEPT ![k] = x] = DOMAIN s
         /\ [s EXCEPT ![k] = x][k] = x
         /\ \A j \in DOMAIN s : j # k => [s EXCEPT ![k] = x][j] = s[j]
<1>1. k \in 1 .. Len(s)
  OBVIOUS
<1>2. s[k] \in S
  BY <1>1, ElementOfSeq
<1>3. /\ [s EXCEPT ![k] = x] \in Seq(S)
      /\ Len([s EXCEPT ![k] = x]) = Len(s)
  BY <1>1, ExceptSeq
<1>. QED  BY <1>2, <1>3

\* A command of the platform is added to the history, and what earlier
\* commands name stays named.
LEMMA CommandAdded ==
  ASSUME TypeOK, NEW type \in CommandTypes, NEW account \in AnyAccount,
         commands' = Append(commands, [type |-> type, account |-> account])
  PROVE  /\ commands' \in Seq(Command)
         /\ Len(commands') = Len(commands) + 1
         /\ Len(commands') \in DOMAIN commands'
         /\ DOMAIN commands \subseteq DOMAIN commands'
         /\ \A c \in DOMAIN commands : commands'[c] = commands[c]
         /\ commands'[Len(commands')].type = type
         /\ commands'[Len(commands')].account = account
<1>. DEFINE new == [type |-> type, account |-> account]
<1>1. new \in Command /\ new.type = type /\ new.account = account
  BY DEF Command
<1>. HIDE DEF new
<1>2. commands \in Seq(Command) /\ commands' = Append(commands, new)
  BY DEF TypeOK, new
<1>. QED  BY <1>1, <1>2

\* SetStartType with a command that has just been added keeps the payer named.
LEMMA NamePayerInv ==
  ASSUME TypeOK, PayerConsistent, NEW type \in CommandTypes, NEW account \in AnyAccount,
         NamePayer(type, account), UNCHANGED consume
  PROVE  /\ commands' \in Seq(Command)
         /\ named' \in SUBSET DOMAIN commands'
         /\ DOMAIN commands \subseteq DOMAIN commands'
         /\ Len(commands') \in DOMAIN commands'
         /\ userChargeType' = type /\ paymentAccount' = account /\ shown' = shown
         /\ OrderNamed'
         /\ PayerConsistent'
<1>1. /\ commands' = Append(commands, [type |-> type, account |-> account])
      /\ named' = named \union {Len(commands')}
      /\ userChargeType' = type /\ paymentAccount' = account /\ shown' = shown
  BY DEF NamePayer, SetStartType
<1>2. /\ commands' \in Seq(Command)
      /\ Len(commands') \in DOMAIN commands'
      /\ DOMAIN commands \subseteq DOMAIN commands'
      /\ \A c \in DOMAIN commands : commands'[c] = commands[c]
      /\ commands'[Len(commands')].type = type
      /\ commands'[Len(commands')].account = account
  BY <1>1, CommandAdded
<1>3. OrderNamed'
  BY <1>1, <1>2 DEF OrderNamed, NamedIn
<1>4. PayerConsistent'
  BY <1>2 DEF PayerConsistent, NamedIn
<1>5. named' \in SUBSET DOMAIN commands'
  BY <1>1, <1>2 DEF TypeOK
<1>. QED  BY <1>1, <1>2, <1>3, <1>4, <1>5

\* A row takes the payer of the order, so it is consistent too.
LEMMA ConsumeOrderInv ==
  ASSUME TypeOK, PayerConsistent, OrderNamed, ConsumeOrder, UNCHANGED commands
  PROVE  /\ consume' \in Seq(Row)
         /\ open' = FALSE
         /\ PayerConsistent'
<1>. DEFINE row == [type |-> userChargeType, account |-> paymentAccount, card |-> cardNO]
<1>1. row \in Row /\ row.type = userChargeType /\ row.account = paymentAccount
  BY DEF TypeOK, Row
<1>. HIDE DEF row
<1>2. consume \in Seq(Row) /\ consume' = Append(consume, row) /\ open' = FALSE
  BY DEF ConsumeOrder, TypeOK, row
<1>3. /\ consume' \in Seq(Row)
      /\ DOMAIN consume' = DOMAIN consume \union {Len(consume) + 1}
      /\ \A i \in DOMAIN consume : consume'[i] = consume[i]
      /\ consume'[Len(consume) + 1] = row
  BY <1>1, <1>2
<1>4. IF row.type \in CommandTypes THEN NamedIn(DOMAIN commands, row.type, row.account)
      ELSE row.account = NoAccount
  BY <1>1 DEF OrderNamed, NamedIn, TypeOK
<1>5. PayerConsistent'
  BY <1>3, <1>4 DEF PayerConsistent, NamedIn
<1>. QED  BY <1>2, <1>3, <1>5

\* A step that changes nothing but refunds keeps the rest of the invariant.
LEMMA OnlyRefunds ==
  ASSUME IInv, UNCHANGED <<histVars, orderVars, rowVars, verifyVars>>,
         asked' \in Seq(DOMAIN commands), refunds' \in Seq(Refund), OneRequestPerRefund',
         \A k \in DOMAIN refunds' : refunds'[k].fee \in DOMAIN commands \union {0}
  PROVE  IInv'
BY DEF IInv, TypeOK, PayerConsistent, NamedIn, OrderNamed, CardShown, histVars,
       orderVars, rowVars, verifyVars

\* A refund that is changed keeps its type if its counters and its end do.
LEMMA RefundChanged ==
  ASSUME IInv, NEW k \in DOMAIN refunds, NEW u \in Nat, NEW s \in Nat,
         NEW e \in {"pending", "refunded", "empty"},
         refunds' = [refunds EXCEPT ![k] =
                       [refunds[k] EXCEPT !.underWay = u, !.spent = s, !.end = e]],
         u = IF e = "pending" THEN 1 ELSE 0, RefundUnchanged
  PROVE  IInv' /\ Len(refunds') = Len(refunds)
<1>1. refunds \in Seq(Refund) /\ refunds[k] \in Refund
  BY ReplaceFacts DEF IInv, TypeOK
<1>. DEFINE r == [refunds[k] EXCEPT !.underWay = u, !.spent = s, !.end = e]
            new == [refunds EXCEPT ![k] = r]
<1>2. r \in Refund /\ r.underWay = u /\ r.end = e /\ r.fee = refunds[k].fee
  BY <1>1 DEF Refund
<1>3. refunds' = new
  OBVIOUS
<1>. HIDE DEF r
<1>4. /\ new \in Seq(Refund) /\ DOMAIN new = DOMAIN refunds /\ Len(new) = Len(refunds)
      /\ new[k] = r /\ \A j \in DOMAIN refunds : j # k => new[j] = refunds[j]
  BY ONLY <1>1, <1>2, k \in DOMAIN refunds
<1>. HIDE DEF new
<1>5. OneRequestPerRefund'
  <2>. SUFFICES ASSUME NEW j \in DOMAIN refunds
                PROVE  new[j].underWay = IF new[j].end = "pending" THEN 1 ELSE 0
    BY <1>3, <1>4 DEF OneRequestPerRefund
  <2>1. CASE j = k
    BY <1>2, <1>4, <2>1
  <2>2. CASE j # k
    BY <1>4, <2>2 DEF IInv, OneRequestPerRefund
  <2>. QED  BY <2>1, <2>2
<1>6. asked' \in Seq(DOMAIN commands)
  BY DEF IInv, TypeOK, RefundUnchanged
<1>7. ASSUME NEW j \in DOMAIN new
      PROVE  new[j].fee \in DOMAIN commands \union {0}
  <2>1. new[j].fee = refunds[j].fee
    BY <1>2, <1>4
  <2>. QED  BY <1>4, <2>1 DEF IInv, TypeOK
<1>. QED  BY <1>3, <1>4, <1>5, <1>6, <1>7, OnlyRefunds DEF RefundUnchanged

\* The requests of a refund under way, in numbers.
LEMMA RefundFacts ==
  ASSUME IInv, NEW k \in DOMAIN refunds
  PROVE  /\ refunds[k] \in Refund
         /\ refunds[k].underWay \in Nat /\ refunds[k].spent \in Nat
         /\ refunds[k].end \in {"pending", "refunded", "empty"}
         /\ refunds[k].underWay = IF refunds[k].end = "pending" THEN 1 ELSE 0
<1>1. refunds[k] \in Refund
  BY ReplaceFacts DEF IInv, TypeOK
<1>. QED  BY <1>1 DEF Refund, IInv, OneRequestPerRefund

-----------------------------------------------------------------------------
\* The initial states satisfy the inductive invariant.
LEMMA InitInv == Init => IInv
<1>. SUFFICES ASSUME Init
              PROVE  IInv
  OBVIOUS
<1>. USE ValuesAssumption
<1>1. TypeOK
  <2>1. /\ commands \in Seq(Command) /\ consume \in Seq(Row) /\ refunds \in Seq(Refund)
        /\ asked \in Seq(DOMAIN commands)
    BY DEF Init
  <2>2. open \in BOOLEAN
    BY DEF Init
  <2>3. DOMAIN refunds = {} /\ paymentAccount \in AnyAccount
    BY DEF Init, AnyAccount
  <2>. QED  BY <2>1, <2>2, <2>3 DEF Init, TypeOK
<1>2. OrderNamed /\ CardShown
  BY DEF Init, OrderNamed, CardShown, CommandTypes
<1>3. PayerConsistent /\ OneRequestPerRefund
  <2>1. DOMAIN consume = {} /\ DOMAIN refunds = {}
    BY DEF Init
  <2>. QED  BY <2>1 DEF PayerConsistent, OneRequestPerRefund
<1>. QED  BY <1>1, <1>2, <1>3 DEF IInv

\* takeControl and bookCharger.
LEMMA TakeControlInv ==
  ASSUME IInv, NEW type \in CommandTypes, NEW account \in AnyAccount,
         \/ \E kind \in {"start", "stop"} : TakeControl(kind, type, account)
         \/ BookCharger(type, account)
  PROVE  IInv' /\ refunds' = refunds /\ verifying' = verifying
<1>1. /\ NamePayer(type, account)
      /\ UNCHANGED <<cardNO, open, consume, mRecv, cardNo, verifying, refunds>>
      /\ payment' \in {payment, Len(commands')}
      /\ asked' = asked \/ asked' = Append(asked, Len(commands'))
  BY DEF TakeControl, BookCharger, rowVars, verifyVars
<1>2. TypeOK /\ PayerConsistent
  BY DEF IInv
<1>3. /\ commands' \in Seq(Command)
      /\ named' \in SUBSET DOMAIN commands'
      /\ DOMAIN commands \subseteq DOMAIN commands'
      /\ Len(commands') \in DOMAIN commands'
      /\ userChargeType' = type /\ paymentAccount' = account /\ shown' = shown
      /\ OrderNamed'
      /\ PayerConsistent'
  BY <1>1, <1>2, NamePayerInv
<1>4. asked' \in Seq(DOMAIN commands')
  <2>1. asked \in Seq(DOMAIN commands')
    BY <1>2, <1>3, SeqMonotonic DEF TypeOK
  <2>2. Append(asked, Len(commands')) \in Seq(DOMAIN commands')
    BY <1>3, <2>1, AppendFacts
  <2>. QED  BY <1>1, <2>1, <2>2
<1>5. TypeOK'
  <2>1. \A k \in DOMAIN refunds' : refunds'[k].fee \in DOMAIN commands' \union {0}
    BY <1>1, <1>2, <1>3 DEF TypeOK
  <2>. QED  BY <1>1, <1>2, <1>3, <1>4, <2>1 DEF TypeOK
<1>. QED
  BY <1>1, <1>3, <1>5 DEF IInv, OneRequestPerRefund, CardShown

\* The sessions: start, row, settlement, and a booking that is cancelled.
LEMMA SessionInv ==
  ASSUME IInv, CancelBooking \/ SessionStarts \/ BillCompleted \/ CompleteOrder
  PROVE  IInv' /\ refunds' = refunds /\ verifying' = verifying
<1>. USE ValuesAssumption
<1>a. TypeOK /\ PayerConsistent /\ OrderNamed
  BY DEF IInv
<1>1. CASE CancelBooking
  BY <1>1 DEF CancelBooking, SetStartType, AnyAccount, IInv, TypeOK, PayerConsistent, NamedIn,
     OneRequestPerRefund, OrderNamed, CardShown, CommandTypes, histVars, rowVars, verifyVars
<1>2. CASE SessionStarts
  BY <1>2 DEF SessionStarts, IInv, TypeOK, PayerConsistent, NamedIn, OneRequestPerRefund,
     OrderNamed, CardShown, histVars, orderVars, verifyVars
<1>3. CASE BillCompleted
  <2>1. ConsumeOrder /\ UNCHANGED <<histVars, asked, orderVars, verifyVars, refunds>>
    BY <1>3 DEF BillCompleted
  <2>2. consume' \in Seq(Row) /\ open' = FALSE /\ PayerConsistent'
    BY <1>a, <2>1, ConsumeOrderInv DEF histVars
  <2>. QED
    BY <2>1, <2>2 DEF IInv, TypeOK, NamedIn, OneRequestPerRefund, OrderNamed, CardShown,
       histVars, orderVars, verifyVars
<1>4. CASE CompleteOrder
  <2>1. /\ UNCHANGED <<commands, asked, verifying, refunds>>
        /\ userChargeType' = NoType /\ paymentAccount' = NoAccount /\ payment' = 0
        /\ cardNO' = NoCard /\ named' = {} /\ mRecv' = {} /\ cardNo' = NoCard
        /\ shown' = {}
    BY <1>4 DEF CompleteOrder, ResetMainParam, VerifyReset
  <2>2. consume' \in Seq(Row) /\ open' \in BOOLEAN /\ PayerConsistent'
    <3>1. CASE open
      BY <1>4, <1>a, <2>1, <3>1, ConsumeOrderInv DEF CompleteOrder
    <3>2. CASE ~open
      BY <1>4, <1>a, <2>1, <3>2 DEF CompleteOrder, TypeOK, PayerConsistent, NamedIn, rowVars
    <3>. QED  BY <3>1, <3>2
  <2>. QED
    BY <2>1, <2>2
    DEF AnyAccount, IInv, TypeOK, OneRequestPerRefund, OrderNamed, CardShown, CommandTypes
<1>. QED  BY <1>1, <1>2, <1>3, <1>4

\* Card frames and verifications.
LEMMA VerifyInv ==
  ASSUME IInv,
         \/ \E card \in Cards : CardFrame(card)
         \/ UserFrame
         \/ \E part \in LaterParts : LaterFrame(part)
         \/ \E card \in verifying : CardVerified(card)
  PROVE  /\ IInv'
         /\ refunds' = refunds
         /\ verifying' \subseteq verifying \union shown' \union {NoCard}
<1>. USE ValuesAssumption
<1>a. TypeOK
  BY DEF IInv
<1>1. ASSUME NEW part \in VerifyParts, Received(part), cardNo' \in shown' \union {NoCard},
             shown' \in SUBSET Cards,
             UNCHANGED <<commands, named, asked, orderVars, rowVars, refunds>>
      PROVE  /\ IInv'
             /\ refunds' = refunds
             /\ verifying' \subseteq verifying \union shown' \union {NoCard}
  <2>1. mRecv' \in SUBSET VerifyParts /\ verifying' \in {verifying, verifying \union {cardNo'}}
    BY <1>1, <1>a DEF Received, TypeOK
  <2>2. TypeOK'
    BY <1>1, <1>a, <2>1 DEF TypeOK, orderVars, rowVars
  <2>. QED
    BY <1>1, <2>1, <2>2 DEF IInv, PayerConsistent, NamedIn, OneRequestPerRefund, OrderNamed,
       CardShown, orderVars, rowVars
<1>2. ASSUME NEW card \in Cards, CardFrame(card)
      PROVE  /\ IInv'
             /\ refunds' = refunds
             /\ verifying' \subseteq verifying \union shown' \union {NoCard}
  <2>1. "first" \in VerifyParts
    BY DEF VerifyParts
  <2>. QED  BY <1>1, <1>2, <1>a, <2>1 DEF CardFrame, TypeOK
<1>3. CASE UserFrame
  <2>1. "first" \in VerifyParts
    BY DEF VerifyParts
  <2>. QED  BY <1>1, <1>3, <1>a, <2>1 DEF UserFrame, TypeOK, IInv, CardShown
<1>4. ASSUME NEW part \in LaterParts, LaterFrame(part)
      PROVE  /\ IInv'
             /\ refunds' = refunds
             /\ verifying' \subseteq verifying \union shown' \union {NoCard}
  <2>1. part \in VerifyParts
    BY DEF VerifyParts
  <2>. QED  BY <1>1, <1>4, <1>a, <2>1 DEF LaterFrame, TypeOK, IInv, CardShown
<1>5. ASSUME NEW card \in verifying, CardVerified(card)
      PROVE  /\ IInv'
             /\ refunds' = refunds
             /\ verifying' \subseteq verifying \union shown' \union {NoCard}
  BY <1>5, <1>a DEF CardVerified, SetStartType, AnyAccount, IInv, TypeOK, PayerConsistent, NamedIn,
     OneRequestPerRefund, OrderNamed, CardShown, CommandTypes, histVars, rowVars
<1>. QED  BY <1>2, <1>3, <1>4, <1>5

\* The answers of the pile to a start command.
LEMMA AnswerInv ==
  ASSUME IInv, StartAccepted \/ StartRefused
  PROVE  /\ IInv'
         /\ verifying' = verifying
         /\ Len(refunds') > Len(refunds) =>
              NamedIn(named, refunds'[Len(refunds')].type, refunds'[Len(refunds')].account)
<1>a. /\ TypeOK /\ OrderNamed
      /\ asked \in Seq(DOMAIN commands) /\ refunds \in Seq(Refund)
  BY DEF IInv, TypeOK
<1>1. /\ asked' = Tail(asked) /\ asked # <<>>
      /\ UNCHANGED <<histVars, orderVars, rowVars, verifyVars>>
  BY DEF StartAccepted, StartRefused
<1>2. asked' \in Seq(DOMAIN commands)
  BY <1>a, <1>1
<1>3. CASE refunds' = refunds
  <2>1. /\ OneRequestPerRefund'
        /\ \A j \in DOMAIN refunds' : refunds'[j].fee \in DOMAIN commands \union {0}
    BY <1>3 DEF IInv, TypeOK, OneRequestPerRefund
  <2>. QED  BY <1>1, <1>2, <1>3, <1>a, <2>1, OnlyRefunds DEF verifyVars
<1>4. CASE StartRefused /\ MustRefund
  <2>. DEFINE new == [type |-> userChargeType, account |-> paymentAccount, fee |-> payment,
                      underWay |-> 1, spent |-> 0, end |-> "pending"]
  <2>1. /\ userChargeType \in Prepaid
        /\ NamedIn(named, userChargeType, paymentAccount)
    BY <1>4, <1>a DEF MustRefund, OrderNamed, CommandTypes
  <2>2. /\ paymentAccount \in AnyAccount
        /\ payment \in Nat /\ payment \in DOMAIN commands \union {0}
    BY <1>a DEF TypeOK
  <2>3. /\ new \in Refund /\ new.underWay = 1 /\ new.end = "pending"
        /\ new.type = userChargeType /\ new.account = paymentAccount /\ new.fee = payment
    BY <2>1, <2>2 DEF Refund
  <2>4. refunds' = Append(refunds, new)
    BY <1>4 DEF StartRefused
  <2>. HIDE DEF new
  <2>5. /\ refunds' \in Seq(Refund)
        /\ Len(refunds') = Len(refunds) + 1
        /\ DOMAIN refunds' = DOMAIN refunds \union {Len(refunds')}
        /\ \A i \in DOMAIN refunds : refunds'[i] = refunds[i]
        /\ refunds'[Len(refunds')] = new
    <3>1. /\ Append(refunds, new) \in Seq(Refund)
          /\ Len(Append(refunds, new)) = Len(refunds) + 1
          /\ DOMAIN Append(refunds, new) = DOMAIN refunds \union {Len(refunds) + 1}
          /\ \A i \in DOMAIN refunds : Append(refunds, new)[i] = refunds[i]
          /\ Append(refunds, new)[Len(refunds) + 1] = new
      BY ONLY <1>a, <2>3
    <3>. QED  BY <2>4, <3>1
  <2>6. OneRequestPerRefund'
    BY <2>3, <2>5 DEF IInv, OneRequestPerRefund
  <2>7. \A j \in DOMAIN refunds' : refunds'[j].fee \in DOMAIN commands \union {0}
    BY <2>2, <2>3, <2>5 DEF IInv, TypeOK
  <2>. QED  BY <1>1, <1>2, <2>1, <2>3, <2>5, <2>6, <2>7, OnlyRefunds DEF verifyVars
<1>5. refunds' = refunds \/ (StartRefused /\ MustRefund)
  BY DEF StartAccepted, StartRefused
<1>. QED  BY <1>3, <1>4, <1>5

\* The requests of refund k.
LEMMA RequestInv ==
  ASSUME IInv, NEW k \in DOMAIN refunds,
         \/ RefundSucceeds(k) \/ RefundEmpty(k) \/ RefundRejected(k)
         \/ RefundTimeout(k) \/ RequestDeleted(k)
  PROVE  IInv' /\ verifying' = verifying /\ Len(refunds') = Len(refunds)
<1>. DEFINE r == refunds[k]
<1>1. /\ r \in Refund /\ r.underWay \in Nat /\ r.spent \in Nat
      /\ r.end \in {"pending", "refunded", "empty"}
      /\ r.underWay = IF r.end = "pending" THEN 1 ELSE 0
  BY RefundFacts
<1>2. RefundUnchanged /\ verifying' = verifying
  BY DEF RefundSucceeds, RefundEmpty, ReplyEnds, RefundRejected, RefundTimeout,
     RequestDeleted, RefundUnchanged, verifyVars
<1>3. ASSUME NEW e \in {"refunded", "empty"}, ReplyEnds(k, e)
      PROVE  IInv' /\ Len(refunds') = Len(refunds)
  <2>1. r.underWay - 1 = 0 /\ r.spent + 1 \in Nat
    BY <1>1, <1>3 DEF ReplyEnds
  <2>2. refunds' = [refunds EXCEPT ![k] =
                      [r EXCEPT !.underWay = 0, !.spent = r.spent + 1, !.end = e]]
    BY <1>1, <1>3, <2>1 DEF ReplyEnds, IInv, TypeOK, Refund
  <2>. QED  BY <1>2, <2>1, <2>2, RefundChanged
<1>4. ASSUME RefundRejected(k)
      PROVE  IInv' /\ Len(refunds') = Len(refunds)
  <2>1. r.spent + 1 \in Nat
    BY <1>1
  <2>2. refunds' = [refunds EXCEPT ![k] = [r EXCEPT !.underWay = r.underWay,
                      !.spent = r.spent + 1, !.end = r.end]]
    BY <1>1, <1>4 DEF RefundRejected, IInv, TypeOK, Refund
  <2>. QED  BY <1>1, <1>2, <2>1, <2>2, RefundChanged
<1>5. ASSUME RefundTimeout(k)
      PROVE  IInv' /\ Len(refunds') = Len(refunds)
  <2>1. refunds' = refunds
    BY <1>5 DEF RefundTimeout, TimeoutRetry
  <2>2. /\ asked' \in Seq(DOMAIN commands) /\ refunds' \in Seq(Refund)
        /\ OneRequestPerRefund'
        /\ \A j \in DOMAIN refunds' : refunds'[j].fee \in DOMAIN commands \union {0}
    BY <1>2, <2>1 DEF IInv, TypeOK, OneRequestPerRefund, RefundUnchanged
  <2>. QED  BY <1>2, <2>1, <2>2, OnlyRefunds DEF RefundUnchanged
<1>6. ASSUME RequestDeleted(k)
      PROVE  IInv' /\ Len(refunds') = Len(refunds)
  <2>1. r.spent - 1 \in Nat
    BY <1>1, <1>6 DEF RequestDeleted
  <2>2. refunds' = [refunds EXCEPT ![k] = [r EXCEPT !.underWay = r.underWay,
                      !.spent = r.spent - 1, !.end = r.end]]
    BY <1>1, <1>6 DEF RequestDeleted, SpentTimeout, IInv, TypeOK, Refund
  <2>. QED  BY <1>1, <1>2, <2>1, <2>2, RefundChanged
<1>. QED  BY <1>2, <1>3, <1>4, <1>5, <1>6 DEF RefundSucceeds, RefundEmpty

\* The gateway is restarted.
LEMMA RestartInv ==
  ASSUME IInv, Restart
  PROVE  IInv' /\ refunds' = <<>> /\ verifying' = {}
<1>. USE ValuesAssumption
<1>1. /\ UNCHANGED <<commands, asked, consume>> /\ open' = FALSE
      /\ userChargeType' = NoType /\ paymentAccount' = NoAccount /\ payment' = 0
      /\ cardNO' = NoCard /\ named' = {} /\ mRecv' = {} /\ cardNo' = NoCard
      /\ shown' = {} /\ verifying' = {} /\ refunds' = <<>>
  BY DEF Restart, ResetMainParam, VerifyReset
<1>2. TypeOK'
  <2>1. refunds' \in Seq(Refund) /\ asked' \in Seq(DOMAIN commands')
    BY <1>1 DEF IInv, TypeOK
  <2>2. open' \in BOOLEAN
    BY <1>1
  <2>3. DOMAIN refunds' = {} /\ paymentAccount' \in AnyAccount
    BY <1>1 DEF AnyAccount
  <2>. QED  BY <1>1, <2>1, <2>2, <2>3 DEF IInv, TypeOK
<1>3. OneRequestPerRefund'
  <2>1. DOMAIN refunds' = {}
    BY <1>1
  <2>. QED  BY <2>1 DEF OneRequestPerRefund
<1>4. PayerConsistent'
  BY <1>1 DEF IInv, PayerConsistent, NamedIn
<1>. QED
  BY <1>1, <1>2, <1>3, <1>4 DEF IInv, OrderNamed, CardShown, CommandTypes

\* A step that changes nothing keeps the invariant.
LEMMA StutterInv ==
  ASSUME IInv, UNCHANGED vars
  PROVE  IInv' /\ refunds' = refunds /\ verifying' = verifying
BY DEF vars, histVars, orderVars, rowVars, verifyVars, IInv, TypeOK, PayerConsistent,
       NamedIn, OneRequestPerRefund, OrderNamed, CardShown

\* Every step keeps the inductive invariant, a refund it adds is named, and a
\* verification it adds is of a card that was shown.
LEMMA StepInv ==
  ASSUME IInv, [Next]_vars
  PROVE  /\ IInv'
         /\ verifying' \subseteq verifying \union shown' \union {NoCard}
         /\ Len(refunds') > Len(refunds) =>
              NamedIn(named, refunds'[Len(refunds')].type, refunds'[Len(refunds')].account)
<1>1. Len(refunds) \in Nat
  BY DEF IInv, TypeOK
<1>2. ~(Len(<<>>) > Len(refunds)) /\ ~(Len(refunds) > Len(refunds))
  BY <1>1
<1>3. CASE \E type \in CommandTypes, account \in AnyAccount :
             \/ \E kind \in {"start", "stop"} : TakeControl(kind, type, account)
             \/ BookCharger(type, account)
  BY <1>2, <1>3, TakeControlInv
<1>4. CASE CancelBooking \/ SessionStarts \/ BillCompleted \/ CompleteOrder
  BY <1>2, <1>4, SessionInv
<1>5. CASE \/ \E card \in Cards : CardFrame(card)
           \/ UserFrame
           \/ \E part \in LaterParts : LaterFrame(part)
           \/ \E card \in verifying : CardVerified(card)
  BY <1>2, <1>5, VerifyInv
<1>6. CASE StartAccepted \/ StartRefused
  BY <1>6, AnswerInv
<1>7. CASE \E k \in DOMAIN refunds :
             \/ RefundSucceeds(k) \/ RefundEmpty(k) \/ RefundRejected(k)
             \/ RefundTimeout(k) \/ RequestDeleted(k)
  BY <1>1, <1>7, RequestInv
<1>8. CASE Restart
  BY <1>2, <1>8, RestartInv
<1>9. CASE UNCHANGED vars
  BY <1>2, <1>9, StutterInv
<1>. QED  BY <1>3, <1>4, <1>5, <1>6, <1>7, <1>8, <1>9 DEF Next

-----------------------------------------------------------------------------
\* The inductive invariant holds always.
THEOREM Inductive == Spec => []IInv
<1>1. IInv /\ [Next]_vars => IInv'
  BY StepInv
<1>. QED  BY InitInv, <1>1, PTL DEF Spec

\* The order, the rows, the verifications and the refunds keep their types, and
\* the fee of a refund is that of some command or 0.
THEOREM TypeCorrect == Spec => []TypeOK
<1>1. IInv => TypeOK
  BY DEF IInv
<1>. QED  BY Inductive, <1>1, PTL

\* No row of the table mixes the account of one payer with the charge type of
\* another (takeControl, bookCharger, getCardVerifyRetMsg, consumeOrder).
THEOREM PayersConsistent == Spec => []PayerConsistent
<1>1. IInv => PayerConsistent
  BY DEF IInv
<1>. QED  BY Inductive, <1>1, PTL

\* A refund has one request under way until it ends, and none afterwards
\* (CWeChatRefund, CAliRefund).
THEOREM OneRequest == Spec => []OneRequestPerRefund
<1>1. IInv => OneRequestPerRefund
  BY DEF IInv
<1>. QED  BY Inductive, <1>1, PTL

\* A refund goes to the account, which may be the empty one, that a command has
\* named since the order was last settled (case 0x0884 of CConnectorOrder).
THEOREM RefundsNamed == Spec => RefundNamed
<1>1. IInv /\ [Next]_vars =>
        [Len(refunds') > Len(refunds) =>
           LET refund == refunds'[Len(refunds')] IN
           NamedIn(named, refund.type, refund.account)]_vars
  BY StepInv
<1>. QED  BY Inductive, <1>1, PTL DEF Spec, RefundNamed

\* A verification asks about a card that was read since the last settlement,
\* or about none (CVerify).
THEOREM VerifiedShown == Spec => VerifiedWasShown
<1>1. IInv /\ [Next]_vars =>
        [verifying' \subseteq verifying \union shown' \union {NoCard}]_vars
  BY StepInv
<1>. QED  BY Inductive, <1>1, PTL DEF Spec, VerifiedWasShown
=============================================================================
