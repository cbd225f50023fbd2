--------------------------- MODULE OrderLifecycle ---------------------------
(***************************************************************************)
(* An order from checkout to its last refund: the order, payment, refund   *)
(* and return modules acting on their common tables, one handler at a      *)
(* time, and what has to hold between those tables.                        *)
(***************************************************************************)
EXTENDS OrderStatus

Next == PaymentNext \/ RefundNext \/ ReturnNext \/ StatusNext

\* payment-expiry.scheduler runs the expiry job every minute and survives its
\* failures.  Nothing else is promised: people and banks may stop at any time.
Spec == Init /\ [][Next]_vars /\ WF_vars(ExpireOverdueAttempts)

-----------------------------------------------------------------------------
PaidAttempts(o) == {a \in AttemptsOf(o) : attempts[a].status = "PAID"}
SettlingKeys(o) ==
  {k \in Keys : /\ transactions[k].status \in Settling
                /\ transactions[k].attempt \in AttemptsOf(o)}
\* The money the bank received for a paid order.
Received(o) == transactions[CHOOSE k \in SettlingKeys(o) : TRUE].amount

\* The refunds of return request k that are in some status.
RefundsFor(k, status) ==
  {r \in RefundId : refunds[r].return = k /\ refunds[r].status = status}

-----------------------------------------------------------------------------
(* Payments *)

\* A session counts only while its order can be paid, and there is one at most:
\* UQ_payment_attempts_order_pending is never what stops a second session.
PendingOnlyWhilePayable ==
  \A o \in Orders : \A a \in PendingAttempts(o) :
    /\ Payable(o)
    /\ \A b \in PendingAttempts(o) : a = b

\* An order is paid, or refunded later, exactly when one of its sessions
\* received money, and never through two sessions; a cancelled session belongs
\* to an order that cannot be paid any more.
PaidThroughOneAttempt ==
  \A o \in Orders :
    /\ orders[o].paymentStatus = "unpaid" <=> PaidAttempts(o) = {}
    /\ \A a, b \in PaidAttempts(o) : a = b
    /\ \A a \in AttemptsOf(o) : attempts[a].status = "CANCELLED" => ~Payable(o)

\* Every payment has exactly one transaction as its evidence, linked to the
\* session that was paid; so one transfer never pays two orders and the sum that
\* refunds are computed from (receivedAmount) is never a matter of chance.
OneTransactionPerPayment ==
  /\ \A k \in Keys : transactions[k].status \in Settling =>
       \E o \in Orders : transactions[k].attempt \in PaidAttempts(o)
  /\ \A o \in Orders : orders[o].paymentStatus # "unpaid" =>
       \E k \in Keys : SettlingKeys(o) = {k}

-----------------------------------------------------------------------------
(* Refunds *)

\* Only a payment is refunded: every refund belongs to an order that was paid
\* and to the session that paid it, and at most one waits at a time.
RefundsOfPayments ==
  \A o \in Orders : \A r \in RefundsOf(o) :
    /\ refunds[r].attempt \in PaidAttempts(o)
    /\ refunds[r].status = "REQUESTED" =>
         /\ orders[o].paymentStatus = "paid"
         /\ \A s \in Requested(o) : s = r

\* What was refunded and what waits to be refunded is never more than the bank
\* received, and the order is marked refunded exactly when everything went back.
RefundsWithinReceived ==
  \A o \in Orders : orders[o].paymentStatus # "unpaid" =>
    /\ SumOf(Completed(o) \cup Requested(o)) <= Received(o)
    /\ orders[o].paymentStatus = "refunded" <=>
         /\ Completed(o) # {}
         /\ SumOf(Completed(o)) = Received(o)

\* A cancelled order whose money was kept has a refund on record (cancelLocked:
\* never an order that was cancelled and paid without a request to refund it),
\* and so has an order that counts as refunded.
CancelledPaidHasRefund ==
  \A o \in Orders :
    \/ orders[o].status = "cancelled" /\ orders[o].paymentStatus # "unpaid"
    \/ orders[o].paymentStatus = "refunded"
    => RefundsOf(o) # {}

\* No reference of the bank stands for two refunds, and exactly the completed
\* ones have one.
RefundReferences ==
  \A r \in RefundId :
    /\ refunds[r].status = "COMPLETED" <=> refunds[r].reference # NoRef
    /\ \A s \in RefundId :
         refunds[s].reference = refunds[r].reference /\ refunds[r].reference # NoRef => s = r

-----------------------------------------------------------------------------
(* Returns *)

\* A request stays received exactly as long as one refund for it waits, and is
\* refunded exactly when one was completed.  Both belong to the same order, which
\* was delivered and paid.
ReturnFollowsRefund ==
  /\ \A k \in ReturnId :
       /\ returns[k].status = "RECEIVED" <=> RefundsFor(k, "REQUESTED") # {}
       /\ returns[k].status = "REFUNDED" <=> RefundsFor(k, "COMPLETED") # {}
       /\ \A r, s \in RefundsFor(k, "COMPLETED") : r = s
       /\ returns[k].status # "NONE" =>
            /\ orders[returns[k].order].status \in Returnable
            /\ orders[returns[k].order].paymentStatus # "unpaid"
  /\ \A r \in RefundId : refunds[r].return # Null =>
       /\ returns[refunds[r].return].status # "NONE"
       /\ returns[refunds[r].return].order = refunds[r].order

\* What is sent back under all requests together was bought, the shipping fee is
\* given back once, and the refunds of the parcels received add up to the exact
\* part of the money that their value is, without a rounding error.
ReturnsAddUp ==
  \A o \in Orders :
    /\ \A l \in Lines : ActiveQuantity(o, l) <= Quantity[o][l]
    /\ \A j, k \in ReturnsOf(o) :
         returns[j].shippingRefunded /\ returns[k].shippingRefunded => j = k
    /\ ReturnsIn(o, WithAccepted) # {} =>
         /\ PreviousValue(o) <= Total[o]
         /\ SumOf(Completed(o) \cup Requested(o)) =
              Prorate(Received(o), PreviousValue(o), Total[o])

\* docs/modules/return.md, the table of transitions, and return.constant.ts:
\* a request is cancelled or rejected only before the parcel was received.
\* A parcel was received when a refund was ever requested for it.
ReceivedIsNotDropped ==
  \A r \in RefundId :
    refunds[r].return # Null =>
      returns[refunds[r].return].status \notin {"CANCELLED", "REJECTED"}

-----------------------------------------------------------------------------
\* The columns of rows that are not inserted, and of rows that are.
UnusedRows ==
  /\ \A r \in RefundId : IF refunds[r].status = "NONE" THEN refunds[r] = NoRefundRow
                          ELSE refunds[r].order \in Orders
  /\ \A k \in ReturnId : returns[k].status # "NONE" => returns[k].order \in Orders

\* The inductive invariant of the proofs: what the handlers rely on when they
\* find the rows of an order in some state.
IndInv ==
  /\ TypeOK
  /\ UnusedRows
  /\ PendingOnlyWhilePayable
  /\ PaidThroughOneAttempt
  /\ OneTransactionPerPayment
  /\ RefundsOfPayments
  /\ RefundReferences
  /\ CancelledPaidHasRefund
  /\ ReturnFollowsRefund

\* What the proofs about money need beyond that: what was booked is a sum that came
\* in; a refund is of something, and without a return it is of a cancelled order;
\* and for the requests that were refunded, the completed refunds alone add up.
SumsBooked ==
  /\ \A k \in Keys : transactions[k].status # "NONE" => transactions[k].amount \in Amounts
  /\ \A r \in RefundId : refunds[r].status # "NONE" =>
       /\ refunds[r].amount > 0
       /\ refunds[r].return = Null => orders[refunds[r].order].status = "cancelled"
CompletedAddUp ==
  \A o \in Orders :
    orders[o].status \in Returnable /\ orders[o].paymentStatus # "unpaid" =>
      SumOf(Completed(o)) =
        Prorate(Received(o), AcceptedValue(o, ReturnsIn(o, {"REFUNDED"})), Total[o])

\* The inductive invariant of the money.
MoneyInv ==
  /\ IndInv
  /\ SumsBooked
  /\ CompletedAddUp
  /\ RefundsWithinReceived
  /\ ReturnsAddUp

-----------------------------------------------------------------------------
\* What a step does to money that was booked.
StaysBooked ==
  /\ \A o \in Orders :
       /\ orders[o].paymentStatus # "unpaid" => orders'[o].paymentStatus # "unpaid"
       /\ orders[o].paymentStatus = "refunded" => orders'[o].paymentStatus = "refunded"
       /\ orders[o].status = "cancelled" =>
            /\ orders'[o].status = "cancelled"
            /\ orders[o].paymentStatus = "unpaid" => orders'[o].paymentStatus = "unpaid"
  /\ \A k \in Keys : transactions[k].status \in Settling => transactions'[k] = transactions[k]
  /\ \A a \in AttemptId : attempts[a].status = "PAID" => attempts'[a] = attempts[a]
  /\ \A r \in RefundId : refunds[r].status \in {"COMPLETED", "REJECTED"} =>
                           refunds'[r] = refunds[r]

\* Money that was booked stays booked: an order never becomes unpaid again, a
\* cancelled order is never paid or revived, and a transaction that settled a
\* payment, a paid session, and a finished refund never change.
BookedForGood == [][StaysBooked]_vars

\* Cancelling a paid order asks in the same step for everything that was
\* received and not yet refunded.
CancelRequestsTheRest ==
  [][ \A o \in Orders :
        orders[o].paymentStatus = "paid" /\ orders[o].status # "cancelled"
          /\ orders'[o].status = "cancelled" =>
            SumOf(Completed(o))' + SumOf(Requested(o))' = Received(o) ]_vars

\* A session that is overdue does not stay pending.
OverdueExpires ==
  \A a \in AttemptId :
    attempts[a].status = "PENDING" /\ attempts[a].overdue ~> attempts[a].status # "PENDING"

-----------------------------------------------------------------------------
\* Seen from the shop's books, each order is an entry of OrderLedger: the money
\* its transfer brought, the money its completed refunds took out again.
Ledger == INSTANCE OrderLedger WITH
  phase <- [o \in Orders |->
             CASE orders[o].paymentStatus = "refunded" -> "settled"
               [] orders[o].paymentStatus = "paid" ->
                    IF orders[o].status = "cancelled" THEN "owed" ELSE "sold"
               [] orders[o].paymentStatus = "unpaid" ->
                    IF orders[o].status = "cancelled" THEN "void" ELSE "open"],
  collected <- [o \in Orders |->
                 IF orders[o].paymentStatus = "unpaid" THEN 0 ELSE Received(o)],
  returned <- [o \in Orders |-> SumOf(Completed(o))]

\* The handlers keep the books of OrderLedger: they implement it step by step.
KeepsTheBooks == Ledger!Spec
=============================================================================
