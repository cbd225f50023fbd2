------------------------------ MODULE ShopViews ------------------------------
(***************************************************************************)
(* What customers and administrators are shown of the tables of            *)
(* OrderLifecycle: the state of a payment, the sessions of an order, the   *)
(* lists an administrator works through, and the counts on the menu.  The  *)
(* same question is answered in several places, in SQL and in TypeScript,  *)
(* from different rows; the property is that the answers agree.  The lists *)
(* are taken without their other filters; ListPages models the paging.     *)
(***************************************************************************)
EXTENDS OrderLifecycle

\* resolveAttemptStatus: what a session counts as now, whatever the expiry job
\* or a cancellation has written down so far.
ResolveAttemptStatus(a) ==
  CASE attempts[a].status # "PENDING" -> attempts[a].status
    [] attempts[a].status = "PENDING" ->
         IF orders[attempts[a].order].status = "cancelled" THEN "CANCELLED"
         ELSE IF attempts[a].overdue THEN "EXPIRED" ELSE "PENDING"

\* EFFECTIVE_ATTEMPT_STATUS_SQL, by which the list of sessions is filtered.
EffectiveStatus(a) ==
  IF attempts[a].status # "PENDING" THEN attempts[a].status
  ELSE IF orders[attempts[a].order].status = "cancelled" THEN "CANCELLED"
  ELSE IF attempts[a].overdue THEN "EXPIRED" ELSE "PENDING"

-----------------------------------------------------------------------------
(* The customer *)

\* getStatus: the newest session speaks for an order that is not paid.
PaymentState(o) ==
  IF orders[o].paymentStatus # "unpaid" THEN "PAID"
  ELSE IF AttemptsOf(o) = {} THEN "PAYMENT_ATTEMPT_NOT_FOUND"
  ELSE ResolveAttemptStatus(Max(AttemptsOf(o)))

\* listAttemptsForCustomer: each session with the transactions whose reference
\* it may show.  The code keeps one of them, whichever the query returns last.
ShownReferences(a) == IF attempts[a].status = "PAID" THEN SettledBy(a) ELSE {}

-----------------------------------------------------------------------------
(* The administrators *)

\* findAttemptsAdmin: it runs the expiry job first and reads afterwards.
SessionsListed(status) ==
  {a \in AttemptId : attempts[a].order \in Orders /\ EffectiveStatus(a) = status}

\* ORDER_NEEDS_ACTION_SQL
OrderNeedsAction(o) ==
  /\ orders[o].status \in {"pending", "confirmed"}
  /\ ~ /\ orders[o].status = "pending"
       /\ orders[o].paymentStatus = "unpaid"
       /\ \E a \in PendingAttempts(o) : ~attempts[a].overdue

\* TRANSACTION_NEEDS_REVIEW_SQL
TransactionNeedsReview(k) ==
  /\ transactions[k].status \in Confirmable
  /\ \/ transactions[k].attempt = Null
     \/ Payable(attempts[transactions[k].attempt].order)

\* findAdmin of refunds joins the order and the paid session of each.
RefundsListed(status) ==
  {r \in RefundId : /\ refunds[r].status = status
                    /\ refunds[r].order \in Orders
                    /\ refunds[r].attempt \in AttemptsOf(refunds[r].order)}

\* What findAdmin says was received: the sum of a settling transaction of the
\* session, and without one the sum that the session asked for.
ReceivedShown(r) == {amount \in Amounts \cup {Total[refunds[r].order]} :
                       ReceivedFor(refunds[r].attempt, amount)}

\* findAllAdmin of returns joins the order.
ReturnsListed(status) ==
  {k \in ReturnId : returns[k].status = status /\ returns[k].order \in Orders}

\* PendingCountService.get: a number for each part the caller may look at.
PendingCounts(permissions) ==
  [part \in {p \in {"orders", "payments", "refunds", "returns"} :
               \/ p = "orders" /\ "ORDER_ADMIN_VIEW" \in permissions
               \/ p \in {"payments", "refunds"} /\ "PAYMENT_ADMIN_VIEW" \in permissions
               \/ p = "returns" /\ "RETURN_ADMIN_VIEW" \in permissions} |->
     CASE part = "orders" -> Cardinality({o \in Orders : OrderNeedsAction(o)})
       [] part = "payments" -> Cardinality({k \in Keys : TransactionNeedsReview(k)})
       [] part = "refunds" -> Cardinality({r \in RefundId : refunds[r].status = "REQUESTED"})
       [] part = "returns" -> Cardinality({k \in ReturnId : returns[k].status = "REQUESTED"})]

-----------------------------------------------------------------------------
\* Customer and shop never contradict each other about a session: an order that
\* waits for its customer's transfer is kept off the list of orders to act on
\* (order-needs-action.util: any session) exactly while getStatus tells the
\* customer that the transfer is awaited (the newest session), and the filter of
\* the list of sessions finds what their rows display.
SessionViewsAgree ==
  /\ \A o \in Orders :
       orders[o].status = "pending" /\ orders[o].paymentStatus = "unpaid" =>
         (OrderNeedsAction(o) <=> PaymentState(o) # "PENDING")
  /\ \A a \in AttemptId : attempts[a].status # "NONE" =>
       a \in SessionsListed(ResolveAttemptStatus(a))

\* What is shown of money is definite.  The customer sees one bank reference for
\* each paid session; the sum an administrator is told to give back from is the
\* same whichever transaction the query returns last, and covers all refunds;
\* and the menu's numbers are the totals of the lists behind them, although the
\* lists join other tables and the counts do not (pending-count.service.ts).
MoneyViewsAgree ==
  /\ \A a \in AttemptId : attempts[a].status = "PAID" =>
       \E k \in Keys : ShownReferences(a) = {k}
  /\ \A r \in RefundId : refunds[r].status # "NONE" =>
       /\ Cardinality(ReceivedShown(r)) = 1
       /\ \A amount \in ReceivedShown(r) :
            SumOf(Completed(refunds[r].order) \cup Requested(refunds[r].order)) <= amount
  /\ LET counts == PendingCounts({"ORDER_ADMIN_VIEW", "PAYMENT_ADMIN_VIEW",
                                  "RETURN_ADMIN_VIEW"})
     IN  /\ counts["refunds"] = Cardinality(RefundsListed("REQUESTED"))
         /\ counts["returns"] = Cardinality(ReturnsListed("REQUESTED"))
=============================================================================
