----------------------------- MODULE RefundDesk -----------------------------
(***************************************************************************)
(* The refund module.  A refund is a request to transfer money back; the   *)
(* shop transfers it at its bank and then records the bank's reference.    *)
(* Completing or rejecting the refund of a returned parcel also moves the  *)
(* return request (return-refund-state.util.ts).                           *)
(***************************************************************************)
EXTENDS Payment

\* prorateRefundAmount: the part of the money paid that stands for value out of
\* total, rounded half up as Math.round does.
Prorate(paid, value, total) ==
  IF total = 0 \/ value = 0 THEN 0
  ELSE IF value >= total THEN paid
  ELSE (2 * paid * value + total) \div (2 * total)

SumOf(rows) == SumFunctionOnSet([r \in RefundId |-> refunds[r].amount], rows)
Completed(o) == {r \in RefundsOf(o) : refunds[r].status = "COMPLETED"}
Requested(o) == {r \in RefundsOf(o) : refunds[r].status = "REQUESTED"}

\* Mutant of PaidAttempt: any session of the order will do.
AnyAttempt(o, a) == a \in AttemptsOf(o)

PaidAttempt(o, a) == a \in AttemptsOf(o) /\ attempts[a].status = "PAID"

\* insertRequest: one request at a time, for no more than what is left of the
\* money received.  Wanted(paid, remaining) is the sum the caller asks for.
InsertRequest(o, k, Wanted(_, _)) ==
  \E a \in AttemptId, r \in RefundId, paid \in Amounts \cup {Total[o]} :
    LET remaining == paid - SumOf(Completed(o))
    IN  /\ PaidAttempt(o, a)
        /\ Requested(o) = {}
        /\ ReceivedFor(a, paid)
        /\ SumOf(Completed(o)) < paid
        /\ \E amount \in 1 .. remaining :
             /\ amount = Min({Wanted(paid, remaining), remaining})
             /\ IsNextRefund(r)
             /\ refunds' = [refunds EXCEPT ![r] =
                  [order |-> o, status |-> "REQUESTED", attempt |-> a,
                   amount |-> amount, return |-> k, reference |-> NoRef]]

\* Mutant of CreateForCancelledOrder: it asks for the total of the order.
CreateForOrderTotal(o) ==
  InsertRequest(o, Null, LAMBDA paid, remaining : Total[o])

\* createForCancelledOrder asks for everything that is left.
CreateForCancelledOrder(o) ==
  InsertRequest(o, Null, LAMBDA paid, remaining : remaining)

\* Mutant of CreateForReturn: each return is rounded on its own.
CreateForReturnAlone(o, k, value, previous) ==
  InsertRequest(o, k, LAMBDA paid, remaining : Prorate(paid, value, Total[o]))

\* createForReturn asks for the part of what was received that the accepted
\* pieces are worth, as the difference of two cumulative amounts so that the
\* roundings of several returns cancel out.
CreateForReturn(o, k, value, previous) ==
  InsertRequest(o, k, LAMBDA paid, remaining :
    Prorate(paid, previous + value, Total[o]) - Prorate(paid, previous, Total[o]))

\* createAdmin: only for a cancelled order that is paid and not refunded.
CreateRefundAdmin(o) ==
  /\ orders[o].status = "cancelled"
  /\ orders[o].paymentStatus = "paid"
  /\ CreateForCancelledOrder(o)
  /\ UNCHANGED <<orders, attempts, transactions, returns, account>>

-----------------------------------------------------------------------------
\* Mutant of MarkReturnRefunded: it writes the status of the refund.
MarkReturnCompleted(k) ==
  [j \in ReturnId |->
     IF j = k /\ returns[j].status = "RECEIVED"
     THEN [returns[j] EXCEPT !.status = "COMPLETED"] ELSE returns[j]]

\* markReturnRefunded
MarkReturnRefunded(k) ==
  [j \in ReturnId |->
     IF j = k /\ returns[j].status = "RECEIVED"
     THEN [returns[j] EXCEPT !.status = "REFUNDED"] ELSE returns[j]]

\* reopenReturnAfterRefundRejected: the second UPDATE clears what was accepted
\* whatever the status of the request.
ReopenReturn(k) ==
  [j \in ReturnId |->
     IF j # k THEN returns[j]
     ELSE IF returns[j].status = "RECEIVED"
          THEN [returns[j] EXCEPT !.status = "APPROVED", !.accepted = NoPieces,
                                  !.shippingRefunded = FALSE]
          ELSE [returns[j] EXCEPT !.accepted = NoPieces]]

\* Mutants of CompleteRefund: the reference is not compared with earlier ones;
\* the order counts as refunded by its first refund.
CompleteWithAnyReference(r, reference) ==
  /\ refunds[r].status = "REQUESTED"
  /\ refunds' = [refunds EXCEPT ![r] =
                       [@ EXCEPT !.status = "COMPLETED", !.reference = reference]]
  /\ returns' = MarkReturnRefunded(refunds[r].return)
  /\ UNCHANGED <<orders, attempts, transactions, account>>
CompleteAndClose(r, reference) ==
  /\ refunds[r].status = "REQUESTED"
  /\ \A s \in RefundId : refunds[s].reference # reference
  /\ refunds' = [refunds EXCEPT ![r] =
                       [@ EXCEPT !.status = "COMPLETED", !.reference = reference]]
  /\ orders' = [orders EXCEPT ![refunds[r].order].paymentStatus = "refunded"]
  /\ returns' = MarkReturnRefunded(refunds[r].return)
  /\ UNCHANGED <<attempts, transactions, account>>

\* completeAdmin: the money went out under a reference not used before.  Once
\* everything received went back, the order is refunded (markOrderRefunded).
CompleteRefund(r, reference) ==
  LET o == refunds[r].order
      after == SumOf(Completed(o)) + refunds[r].amount
  IN  /\ refunds[r].status = "REQUESTED"
      /\ \A s \in RefundId : refunds[s].reference # reference
      /\ \E paid \in Amounts \cup {Total[o]} :
           /\ ReceivedFor(refunds[r].attempt, paid)
           /\ after <= paid
           /\ orders' = IF after = paid
                        THEN [orders EXCEPT ![o].paymentStatus = "refunded"] ELSE orders
      /\ refunds' = [refunds EXCEPT ![r] =
                       [@ EXCEPT !.status = "COMPLETED", !.reference = reference]]
      /\ returns' = MarkReturnRefunded(refunds[r].return)
      /\ UNCHANGED <<attempts, transactions, account>>

\* Mutant of RejectRefund: the return request is not reopened.
RejectRefundOnly(r) ==
  /\ refunds[r].status = "REQUESTED"
  /\ refunds' = [refunds EXCEPT ![r].status = "REJECTED"]
  /\ UNCHANGED <<orders, attempts, transactions, returns, account>>

\* rejectAdmin
RejectRefund(r) ==
  /\ refunds[r].status = "REQUESTED"
  /\ refunds' = [refunds EXCEPT ![r].status = "REJECTED"]
  /\ returns' = ReopenReturn(refunds[r].return)
  /\ UNCHANGED <<orders, attempts, transactions, account>>

RefundNext ==
  \/ \E o \in Orders : CreateRefundAdmin(o)
  \/ \E r \in RefundId : RejectRefund(r) \/ \E ref \in BankRefs : CompleteRefund(r, ref)
=============================================================================
