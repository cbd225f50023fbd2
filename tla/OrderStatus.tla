---------------------------- MODULE OrderStatus ----------------------------
(***************************************************************************)
(* The status of an order on its way to the customer, and its             *)
(* cancellation, which reaches into the payment and refund tables.        *)
(***************************************************************************)
EXTENDS ReturnDesk

\* Mutant of Transitions: a cancelled order can be taken up again.
TransitionsWithReopening ==
  [pending   |-> {"confirmed", "cancelled"},
   confirmed |-> {"shipping", "cancelled"},
   shipping  |-> {"delivered"},
   delivered |-> {"completed"},
   completed |-> {},
   cancelled |-> {"pending"}]

\* ORDER_TRANSITIONS: what an administrator may do.
Transitions ==
  [pending   |-> {"confirmed", "cancelled"},
   confirmed |-> {"shipping", "cancelled"},
   shipping  |-> {"delivered"},
   delivered |-> {"completed"},
   completed |-> {},
   cancelled |-> {}]

\* Mutant of CancelLocked: the refund is left to an administrator.
CancelWithoutRefund(o) ==
  /\ orders' = [orders EXCEPT ![o].status = "cancelled"]
  /\ attempts' = WithPendingCancelled(o)
  /\ UNCHANGED <<transactions, refunds, returns, account>>

\* cancelLocked: the refund of a paid order is requested first; when that is
\* refused, nothing happens at all.
CancelLocked(o) ==
  /\ IF orders[o].paymentStatus = "paid"
     THEN CreateForCancelledOrder(o) ELSE UNCHANGED refunds
  /\ orders' = [orders EXCEPT ![o].status = "cancelled"]
  /\ attempts' = WithPendingCancelled(o)
  /\ UNCHANGED <<transactions, returns, account>>

\* cancel: the customer may give up an order that is pending and not paid.
CancelOrder(o) ==
  /\ orders[o].paymentStatus = "unpaid"
  /\ orders[o].status = "pending"
  /\ CancelLocked(o)

\* updateStatus
UpdateStatus(o, status) ==
  /\ status \in Transitions[orders[o].status]
  /\ \/ /\ status = "cancelled"
        /\ CancelLocked(o)
     \/ /\ status # "cancelled"
        /\ orders' = [orders EXCEPT ![o].status = status]
        /\ UNCHANGED <<attempts, transactions, refunds, returns, account>>

StatusNext ==
  \E o \in Orders : CancelOrder(o) \/ \E status \in OrderStatuses : UpdateStatus(o, status)
=============================================================================
