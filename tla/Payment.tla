------------------------------ MODULE Payment ------------------------------
(***************************************************************************)
(* The payment module: QR sessions (payment_attempts), the SePay webhook   *)
(* that reconciles incoming transfers with them, the confirmation by hand, *)
(* and the job that expires sessions.                                      *)
(***************************************************************************)
EXTENDS ShopTables

\* Mutant of Payable: a cancelled order can still be paid.
PayableUnlessPaid(o) == orders[o].paymentStatus = "unpaid"

\* assertOrderPayable: neither paid nor cancelled.
Payable(o) ==
  /\ orders[o].paymentStatus = "unpaid"
  /\ orders[o].status # "cancelled"

\* The session expires thirty minutes after it was issued: expires_at passes.
PassExpiry(a) ==
  /\ attempts[a].status = "PENDING"
  /\ ~attempts[a].overdue
  /\ attempts' = [attempts EXCEPT ![a].overdue = TRUE]
  /\ UNCHANGED <<orders, transactions, refunds, returns, account>>

\* The server restarts with another receiving account in its environment.
ChangeAccount ==
  /\ account' \in Accounts \ {account}
  /\ UNCHANGED <<orders, attempts, transactions, refunds, returns>>

-----------------------------------------------------------------------------
(* Sessions *)

NewAttempt(o) ==
  [order |-> o, status |-> "PENDING", overdue |-> FALSE, account |-> account]

PendingAttempts(o) == {a \in AttemptsOf(o) : attempts[a].status = "PENDING"}

\* createQr: an overdue session is expired and a new one inserted.  A session
\* that is still valid is handed out again, which changes nothing.
CreateQr(o) ==
  /\ Payable(o)
  /\ Total[o] > 0
  /\ \A a \in PendingAttempts(o) : attempts[a].overdue
  /\ \E new \in AttemptId :
       /\ IsNextAttempt(new)
       /\ attempts' =
            [a \in AttemptId |->
               IF a = new THEN NewAttempt(o)
               ELSE IF a \in PendingAttempts(o)
                    THEN [attempts[a] EXCEPT !.status = "EXPIRED"]
                    ELSE attempts[a]]
  /\ UNCHANGED <<orders, transactions, refunds, returns, account>>

\* Mutant of CreateQrAdmin: the new session is issued beside the pending one.
CreateQrBeside(o) ==
  /\ Payable(o)
  /\ \E new \in AttemptId :
       IsNextAttempt(new) /\ attempts' = [attempts EXCEPT ![new] = NewAttempt(o)]
  /\ UNCHANGED <<orders, transactions, refunds, returns, account>>

\* createQrAdmin: always a new session; the pending one expires at once.
CreateQrAdmin(o) ==
  /\ Payable(o)
  /\ Total[o] > 0
  /\ \E new \in AttemptId :
       /\ IsNextAttempt(new)
       /\ attempts' =
            [a \in AttemptId |->
               IF a = new THEN NewAttempt(o)
               ELSE IF a \in PendingAttempts(o)
                    THEN [attempts[a] EXCEPT !.status = "EXPIRED", !.overdue = TRUE]
                    ELSE attempts[a]]
  /\ UNCHANGED <<orders, transactions, refunds, returns, account>>

\* Mutant of Expirable: it only looks at orders the shop has not confirmed yet.
ExpirableOfPendingOrders ==
  {a \in AttemptId : /\ attempts[a].status = "PENDING"
                     /\ attempts[a].overdue
                     /\ orders[attempts[a].order].status = "pending"}

\* The sessions that expireOverdueAttempts updates: pending, overdue, and not
\* of a cancelled order.
Expirable ==
  {a \in AttemptId : /\ attempts[a].status = "PENDING"
                     /\ attempts[a].overdue
                     /\ orders[attempts[a].order].status # "cancelled"}

ExpireOverdueAttempts ==
  /\ Expirable # {}
  /\ attempts' = [a \in AttemptId |->
                    IF a \in Expirable
                    THEN [attempts[a] EXCEPT !.status = "EXPIRED"]
                    ELSE attempts[a]]
  /\ UNCHANGED <<orders, transactions, refunds, returns, account>>

\* The sessions after cancelPendingAttempts(o).
WithPendingCancelled(o) ==
  [a \in AttemptId |-> IF a \in PendingAttempts(o)
                       THEN [attempts[a] EXCEPT !.status = "CANCELLED"]
                       ELSE attempts[a]]

-----------------------------------------------------------------------------
(* Money arrives *)

\* markOrderPaid: the order is paid, and confirmed if it was pending.
MarkOrderPaid(o) ==
  [orders EXCEPT ![o].paymentStatus = "paid",
                 ![o].status = IF @ = "pending" THEN "confirmed" ELSE @]

\* Session a of order o received the money; applyOrderPaid.
PayWith(o, a) ==
  /\ orders' = MarkOrderPaid(o)
  /\ attempts' = [WithPendingCancelled(o) EXCEPT ![a].status = "PAID"]

\* Mutant of Verdict: nobody asks whether the order or the session was paid before.
VerdictWithoutDuplicates(a, amount) ==
  IF amount # Total[attempts[a].order] THEN "AMOUNT_MISMATCH"
  ELSE IF attempts[a].status = "EXPIRED" \/ attempts[a].overdue THEN "LATE"
  ELSE "MATCHED"

\* reconcile, from the checks on the session onwards, for an incoming transfer
\* to the configured account that names session a.  The checks are made in this
\* order on the locked rows.
Verdict(a, amount) ==
  LET attempt == attempts[a]
      order == orders[attempt.order]
  IN  IF attempt.account # account THEN "ACCOUNT_MISMATCH"
      ELSE IF attempt.status = "PAID" \/ order.paymentStatus # "unpaid"
           THEN "DUPLICATE_PAYMENT"
      ELSE IF order.status = "cancelled" \/ attempt.status = "CANCELLED"
           THEN "NOT_PAYABLE"
      ELSE IF amount # Total[attempt.order] THEN "AMOUNT_MISMATCH"
      ELSE IF attempt.status = "EXPIRED" \/ attempt.overdue THEN "LATE"
      ELSE "MATCHED"

Record(key, status, a, amount) ==
  transactions' =
    [transactions EXCEPT ![key] = [status |-> status, attempt |-> a, amount |-> amount]]

\* A transfer that is outgoing, went to another account, or names no session.
\* A second delivery of a recorded transfer changes nothing (DUPLICATE).
WebhookUnlinked(ref, status, amount) ==
  /\ transactions[<<"sepay", ref>>].status = "NONE"
  /\ status \in {"IGNORED", "ACCOUNT_MISMATCH", "UNMATCHED"}
  /\ Record(<<"sepay", ref>>, status, Null, amount)
  /\ UNCHANGED <<orders, attempts, refunds, returns, account>>

\* A transfer whose content names session a.  When it names several, the one
\* findOne returns is any of them, and so is a.
WebhookForAttempt(ref, a, amount) ==
  /\ transactions[<<"sepay", ref>>].status = "NONE"
  /\ attempts[a].order \in Orders
  /\ Record(<<"sepay", ref>>, Verdict(a, amount), a, amount)
  /\ \/ /\ Verdict(a, amount) = "MATCHED"
        /\ PayWith(attempts[a].order, a)
     \/ /\ Verdict(a, amount) = "LATE"
        /\ attempts' = [attempts EXCEPT ![a].status = "EXPIRED"]
        /\ UNCHANGED orders
     \/ /\ Verdict(a, amount) \notin {"MATCHED", "LATE"}
        /\ UNCHANGED <<orders, attempts>>
  /\ UNCHANGED <<refunds, returns, account>>

-----------------------------------------------------------------------------
(* An administrator confirms by hand (confirmPaymentAdmin) *)

Confirmable == {"UNMATCHED", "AMOUNT_MISMATCH", "LATE", "NOT_PAYABLE"}

\* The sum received is the one asked for, or the administrator accepts it.
AmountAccepted(o, amount, acceptMismatch) == amount = Total[o] \/ acceptMismatch

\* Mutant of ConfirmRecorded: assertOrderPayable is left out.
ConfirmRecordedAlways(o, key, a, acceptMismatch) ==
  /\ transactions[key].status \in Confirmable
  /\ a \in AttemptsOf(o)
  /\ transactions[key].attempt \in {Null, a}
  /\ AmountAccepted(o, transactions[key].amount, acceptMismatch)
  /\ PayWith(o, a)
  /\ Record(key, "MANUALLY_CONFIRMED", a, transactions[key].amount)
  /\ UNCHANGED <<refunds, returns, account>>

\* With a recorded transaction.  If it is linked to a session, that session is
\* the paid one and has to belong to the order; otherwise it is the session
\* whose code the administrator names, or the newest of the order: any of them.
ConfirmRecorded(o, key, a, acceptMismatch) ==
  /\ Payable(o)
  /\ transactions[key].status \in Confirmable
  /\ a \in AttemptsOf(o)
  /\ transactions[key].attempt \in {Null, a}
  /\ AmountAccepted(o, transactions[key].amount, acceptMismatch)
  /\ PayWith(o, a)
  /\ Record(key, "MANUALLY_CONFIRMED", a, transactions[key].amount)
  /\ UNCHANGED <<refunds, returns, account>>

\* With a transaction the administrator enters: it must not be recorded yet.
\* Without a bank reference it is entered under the code of the session.
ConfirmEntered(o, key, a, amount, acceptMismatch) ==
  /\ Payable(o)
  /\ transactions[key].status = "NONE"
  /\ a \in AttemptsOf(o)
  /\ key[2] \in Refs \cup {a}
  /\ amount > 0
  /\ AmountAccepted(o, amount, acceptMismatch)
  /\ PayWith(o, a)
  /\ Record(key, "MANUALLY_CONFIRMED", a, amount)
  /\ UNCHANGED <<refunds, returns, account>>

-----------------------------------------------------------------------------
\* receivedAmount: what the bank received for the session, and without a
\* transaction that settled it what the session asked for.
Settling == {"MATCHED", "MANUALLY_CONFIRMED"}
SettledBy(a) ==
  {k \in Keys : transactions[k].attempt = a /\ transactions[k].status \in Settling}

\* Mutant of ReceivedFor: the sum the session asked for is taken for received.
AskedFor(a, amount) == amount = Total[attempts[a].order]

ReceivedFor(a, amount) ==
  IF SettledBy(a) = {} THEN amount = Total[attempts[a].order]
  ELSE \E k \in SettledBy(a) : amount = transactions[k].amount

PaymentNext ==
  \/ \E a \in AttemptId : PassExpiry(a)
  \/ ChangeAccount
  \/ \E o \in Orders : CreateQr(o) \/ CreateQrAdmin(o)
  \/ ExpireOverdueAttempts
  \/ \E ref \in Refs, amount \in Amounts :
       \/ \E status \in VerificationStatuses : WebhookUnlinked(ref, status, amount)
       \/ \E a \in AttemptId : WebhookForAttempt(ref, a, amount)
  \/ \E o \in Orders, key \in Keys, a \in AttemptId, acceptMismatch \in BOOLEAN :
       \/ ConfirmRecorded(o, key, a, acceptMismatch)
       \/ \E amount \in Amounts : ConfirmEntered(o, key, a, amount, acceptMismatch)
=============================================================================
