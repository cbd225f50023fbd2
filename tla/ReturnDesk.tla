----------------------------- MODULE ReturnDesk -----------------------------
(***************************************************************************)
(* The return module: a customer asks to send pieces of a delivered order  *)
(* back, the shop approves, receives and inspects the parcel, and a refund *)
(* of the accepted pieces is requested when it does.                       *)
(***************************************************************************)
EXTENDS RefundDesk

Active == {"REQUESTED", "APPROVED", "RECEIVED", "REFUNDED"}
CustomerCancellable == {"REQUESTED", "APPROVED"}
Rejectable == {"REQUESTED", "APPROVED"}
Returnable == {"delivered", "completed"}
WithAccepted == {"RECEIVED", "REFUNDED"}

ReturnsIn(o, statuses) == {k \in ReturnsOf(o) : returns[k].status \in statuses}

\* activeReturnQuantities: the pieces of line l in requests that still count.
ActiveQuantity(o, l) ==
  SumFunctionOnSet([k \in ReturnId |-> returns[k].quantity[l]], ReturnsIn(o, Active))

\* create, with computeReturnEligibility.  Time and the number of days in the
\* return policy are not modelled: the return window may be open at any time
\* after the delivery.  A piece count of 0 is a line the request does not list.
CreateReturn(o, quantity) ==
  /\ orders[o].paymentStatus = "paid"
  /\ orders[o].status \in Returnable
  /\ quantity # NoPieces
  /\ \A l \in Lines :
       quantity[l] > 0 => quantity[l] + ActiveQuantity(o, l) <= Quantity[o][l]
  /\ \E k \in ReturnId :
       /\ IsNextReturn(k)
       /\ returns' = [returns EXCEPT ![k] =
            [order |-> o, status |-> "REQUESTED", quantity |-> quantity,
             accepted |-> NoPieces, shippingRefunded |-> FALSE]]
  /\ UNCHANGED <<orders, attempts, transactions, refunds, account>>

\* A handler that only moves the status of a request.
MoveReturn(k, from, to) ==
  /\ returns[k].status \in from
  /\ returns' = [returns EXCEPT ![k].status = to]
  /\ UNCHANGED <<orders, attempts, transactions, refunds, account>>

CancelReturn(k) == MoveReturn(k, CustomerCancellable, "CANCELLED")
ApproveReturn(k) == MoveReturn(k, {"REQUESTED"}, "APPROVED")
RejectReturn(k) == MoveReturn(k, Rejectable, "REJECTED")

\* The value of the pieces accepted in some requests of o, and of its shipping fee.
AcceptedValue(o, requests) ==
  SumFunctionOnSet(
    [k \in ReturnId |-> ValueOf(returns[k].accepted)
                        + (IF returns[k].shippingRefunded THEN ShippingFee[o] ELSE 0)],
    requests)

\* The value of the returns of o received before.
PreviousValue(o) == AcceptedValue(o, ReturnsIn(o, WithAccepted))

\* receive: the parcel is here; accepted says how many pieces of each line the
\* shop takes back, and a refund of their value is requested.
ReceiveReturn(k, accepted, refundShipping) ==
  LET o == returns[k].order
      value == ValueOf(accepted) + (IF refundShipping THEN ShippingFee[o] ELSE 0)
  IN  /\ returns[k].status = "APPROVED"
      /\ orders[o].paymentStatus = "paid"
      /\ accepted # NoPieces
      /\ \A l \in Lines : accepted[l] <= returns[k].quantity[l]
      /\ refundShipping => \A j \in ReturnsOf(o) : ~returns[j].shippingRefunded
      /\ PreviousValue(o) + value <= Total[o]
      /\ CreateForReturn(o, k, value, PreviousValue(o))
      /\ returns' = [returns EXCEPT ![k] =
                       [@ EXCEPT !.status = "RECEIVED", !.accepted = accepted,
                                 !.shippingRefunded = refundShipping]]
      /\ UNCHANGED <<orders, attempts, transactions, account>>

\* The piece counts a request of order o can hold.
PiecesOf(o) == {q \in [Lines -> UNION {0 .. Quantity[o][l] : l \in Lines}] :
                  \A l \in Lines : q[l] <= Quantity[o][l]}

ReturnNext ==
  \/ \E o \in Orders : \E quantity \in PiecesOf(o) : CreateReturn(o, quantity)
  \/ \E k \in ReturnId :
       \/ CancelReturn(k) \/ ApproveReturn(k) \/ RejectReturn(k)
       \/ \E o \in Orders, refundShipping \in BOOLEAN : \E accepted \in PiecesOf(o) :
            returns[k].order = o /\ ReceiveReturn(k, accepted, refundShipping)
=============================================================================
