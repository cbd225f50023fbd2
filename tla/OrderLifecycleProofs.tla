------------------------ MODULE OrderLifecycleProofs ------------------------
(***************************************************************************)
(* The proofs that every handler keeps the columns of the tables in their  *)
(* types, one lemma per handler, and that IndInv is an inductive invariant *)
(* of OrderLifecycle.  For the second the handlers are grouped by what     *)
(* they do to the tables: those that deal in sessions, those that settle a *)
(* payment, those that record a transfer for review, those that insert a   *)
(* refund, that end one, that cancel an order, and those that touch the    *)
(* return requests only.  One lemma shows that a handler belongs to a      *)
(* group, another that the group keeps the invariant.                      *)
(***************************************************************************)
EXTENDS OrderLifecycle, TLAPS

-----------------------------------------------------------------------------
(* What the handlers write *)

\* The rows that are not inserted are rows of their tables.
LEMMA NoRows ==
  /\ NoAttemptRow \in PaymentAttempt
  /\ NoTransactionRow \in PaymentTransaction
  /\ NoRefundRow \in Refund
  /\ NoReturnRow \in ReturnRequest
<1>1. NoAttemptRow \in PaymentAttempt
  BY DEF NoAttemptRow, PaymentAttempt
<1>2. NoTransactionRow \in PaymentTransaction
  BY DEF NoTransactionRow, PaymentTransaction
<1>3. NoRefundRow \in Refund
  BY DEF NoRefundRow, Refund
<1>4. NoPieces \in Pieces
  BY DEF NoPieces, Pieces
<1>5. NoReturnRow \in ReturnRequest
  BY <1>4 DEF NoReturnRow, ReturnRequest
<1> QED BY <1>1, <1>2, <1>3, <1>5

\* Checkout leaves the tables well typed.
LEMMA TypeInit == Init => TypeOK
<1> SUFFICES ASSUME Init PROVE TypeOK
  OBVIOUS
<1>1. orders \in [Orders -> Order]
  BY DEF Init, Order, OrderStatuses, PaymentStatuses
<1> QED BY <1>1, NoRows DEF Init, TypeOK

\* A session becoming overdue keeps the types.
LEMMA PassExpiryType ==
  ASSUME TypeOK, NEW a \in AttemptId, PassExpiry(a) PROVE TypeOK'
BY DEF TypeOK, PassExpiry, PaymentAttempt

\* Issuing a session (createQr, createQrAdmin) keeps the types.
LEMMA CreateQrType ==
  ASSUME TypeOK, NEW o \in Orders, CreateQr(o) \/ CreateQrAdmin(o) PROVE TypeOK'
<1>1. NewAttempt(o) \in PaymentAttempt
  BY DEF TypeOK, NewAttempt, PaymentAttempt, AttemptStatuses
<1>2. ASSUME NEW a \in AttemptId
      PROVE /\ [attempts[a] EXCEPT !.status = "EXPIRED"] \in PaymentAttempt
            /\ [attempts[a] EXCEPT !.status = "EXPIRED", !.overdue = TRUE] \in PaymentAttempt
            /\ attempts[a] \in PaymentAttempt
  BY DEF TypeOK, PaymentAttempt, AttemptStatuses
<1>3. attempts' \in [AttemptId -> PaymentAttempt]
  BY <1>1, <1>2 DEF CreateQr, CreateQrAdmin
<1> QED BY <1>3 DEF TypeOK, CreateQr, CreateQrAdmin

\* The expiry job (expireOverdueAttempts) keeps the types.
LEMMA ExpireType == ASSUME TypeOK, ExpireOverdueAttempts PROVE TypeOK'
<1>1. ASSUME NEW a \in AttemptId
      PROVE /\ [attempts[a] EXCEPT !.status = "EXPIRED"] \in PaymentAttempt
            /\ attempts[a] \in PaymentAttempt
  BY DEF TypeOK, PaymentAttempt, AttemptStatuses
<1> QED BY <1>1 DEF TypeOK, ExpireOverdueAttempts

\* cancelPendingAttempts leaves sessions with a known status.
LEMMA CancelledType ==
  ASSUME TypeOK, NEW o \in Orders
  PROVE  WithPendingCancelled(o) \in [AttemptId -> PaymentAttempt]
<1>1. ASSUME NEW a \in AttemptId
      PROVE /\ [attempts[a] EXCEPT !.status = "CANCELLED"] \in PaymentAttempt
            /\ attempts[a] \in PaymentAttempt
  BY DEF TypeOK, PaymentAttempt, AttemptStatuses
<1> QED BY <1>1 DEF WithPendingCancelled

\* applyOrderPaid writes known statuses of the order and its sessions.
LEMMA PayWithType ==
  ASSUME TypeOK, NEW o \in Orders, NEW a \in AttemptId, PayWith(o, a)
  PROVE  /\ orders' \in [Orders -> Order]
         /\ attempts' \in [AttemptId -> PaymentAttempt]
<1>1. orders' \in [Orders -> Order]
  BY DEF TypeOK, PayWith, MarkOrderPaid, Order, OrderStatuses, PaymentStatuses
<1>2. WithPendingCancelled(o) \in [AttemptId -> PaymentAttempt]
  BY CancelledType
<1>3. [WithPendingCancelled(o)[a] EXCEPT !.status = "PAID"] \in PaymentAttempt
  BY <1>2 DEF PaymentAttempt, AttemptStatuses
<1>4. attempts' \in [AttemptId -> PaymentAttempt]
  BY <1>2, <1>3 DEF PayWith
<1> QED BY <1>1, <1>4

\* Recording a transaction writes a row of payment_transactions.
LEMMA RecordType ==
  ASSUME TypeOK, NEW key \in Keys, NEW status \in VerificationStatuses,
         NEW a \in {Null} \cup AttemptId, NEW amount \in Amounts \cup {0},
         Record(key, status, a, amount)
  PROVE  transactions' \in [Keys -> PaymentTransaction]
BY DEF TypeOK, Record, PaymentTransaction

\* Every branch of reconcile decides on a known verification status.
LEMMA VerdictType ==
  ASSUME NEW a, NEW amount PROVE Verdict(a, amount) \in VerificationStatuses
BY DEF Verdict, VerificationStatuses

\* A SePay transaction id is a key of payment_transactions.
LEMMA KeysType ==
  /\ \A ref \in Refs : <<"sepay", ref>> \in Keys
BY DEF Keys

\* A delivery of the webhook (handle, process, reconcile) keeps the types.
LEMMA WebhookType ==
  ASSUME TypeOK, NEW ref \in Refs, NEW amount \in Amounts,
         \/ \E status \in VerificationStatuses : WebhookUnlinked(ref, status, amount)
         \/ \E a \in AttemptId : WebhookForAttempt(ref, a, amount)
  PROVE  TypeOK'
<1>1. CASE \E status \in VerificationStatuses : WebhookUnlinked(ref, status, amount)
  <2>1. PICK status \in VerificationStatuses : WebhookUnlinked(ref, status, amount)
    BY <1>1
  <2>2. transactions' \in [Keys -> PaymentTransaction]
    BY <2>1, RecordType, KeysType DEF WebhookUnlinked
  <2> QED BY <2>1, <2>2 DEF TypeOK, WebhookUnlinked
<1>2. CASE \E a \in AttemptId : WebhookForAttempt(ref, a, amount)
  <2>1. PICK a \in AttemptId : WebhookForAttempt(ref, a, amount)
    BY <1>2
  <2>2. transactions' \in [Keys -> PaymentTransaction]
    BY <2>1, RecordType, KeysType, VerdictType DEF WebhookForAttempt
  <2>3. CASE Verdict(a, amount) = "MATCHED"
    <3>1. PayWith(attempts[a].order, a) /\ attempts[a].order \in Orders
      BY <2>1, <2>3 DEF WebhookForAttempt
    <3> QED BY <2>1, <2>2, <3>1, PayWithType DEF TypeOK, WebhookForAttempt
  <2>4. CASE Verdict(a, amount) = "LATE"
    <3>1. [attempts[a] EXCEPT !.status = "EXPIRED"] \in PaymentAttempt
      BY DEF TypeOK, PaymentAttempt, AttemptStatuses
    <3> QED BY <2>1, <2>2, <2>4, <3>1 DEF TypeOK, WebhookForAttempt
  <2>5. CASE Verdict(a, amount) \notin {"MATCHED", "LATE"}
    BY <2>1, <2>2, <2>5 DEF TypeOK, WebhookForAttempt
  <2> QED BY <2>3, <2>4, <2>5
<1> QED BY <1>1, <1>2

\* The effect of insertRequest on the table, without the sum of money.
Inserts(o, k) ==
  \E a \in AttemptId, r \in RefundId, amount \in Nat \ {0} :
    /\ PaidAttempt(o, a)
    /\ Requested(o) = {}
    /\ IsNextRefund(r)
    /\ refunds' = [refunds EXCEPT ![r] =
         [order |-> o, status |-> "REQUESTED", attempt |-> a,
          amount |-> amount, return |-> k, reference |-> NoRef]]

\* createForCancelledOrder and createForReturn, when they are not refused, insert
\* one refund request as Inserts says.
LEMMA RequestInserts ==
  ASSUME NEW o, NEW k, NEW value, NEW previous
  PROVE  /\ CreateForCancelledOrder(o) => Inserts(o, Null)
         /\ CreateForReturn(o, k, value, previous) => Inserts(o, k)
<1>1. \A i, j : j \in 1 .. i => j \in Nat \ {0}
  OBVIOUS
<1>2. CreateForCancelledOrder(o) => Inserts(o, Null)
  BY <1>1 DEF CreateForCancelledOrder, InsertRequest, Inserts
<1>3. CreateForReturn(o, k, value, previous) => Inserts(o, k)
  BY <1>1 DEF CreateForReturn, InsertRequest, Inserts
<1> QED BY <1>2, <1>3

\* A confirmation by hand (confirmPaymentAdmin) keeps the types.
LEMMA ConfirmType ==
  ASSUME TypeOK, NEW o \in Orders, NEW key \in Keys, NEW a \in AttemptId,
         NEW acceptMismatch,
         \/ ConfirmRecorded(o, key, a, acceptMismatch)
         \/ \E amount \in Amounts : ConfirmEntered(o, key, a, amount, acceptMismatch)
  PROVE  TypeOK'
<1>1. "MANUALLY_CONFIRMED" \in VerificationStatuses
  BY DEF VerificationStatuses
<1>2. transactions[key].amount \in Amounts \cup {0}
  BY DEF TypeOK, PaymentTransaction
<1>3. PayWith(o, a)
  BY DEF ConfirmRecorded, ConfirmEntered
<1>4. transactions' \in [Keys -> PaymentTransaction]
  BY <1>1, <1>2, RecordType DEF ConfirmRecorded, ConfirmEntered
<1>5. UNCHANGED <<refunds, returns, account>>
  BY DEF ConfirmRecorded, ConfirmEntered
<1> QED BY <1>3, <1>4, <1>5, PayWithType DEF TypeOK

\* An inserted refund request is a row of refunds.
LEMMA InsertsType ==
  ASSUME TypeOK, NEW o \in Orders, NEW k \in {Null} \cup ReturnId, Inserts(o, k)
  PROVE  refunds' \in [RefundId -> Refund]
BY DEF TypeOK, Inserts, Refund, RefundStatuses

\* Completing and rejecting a refund keep the types, those of the return
\* request that moves along included.
LEMMA RefundStepType ==
  ASSUME TypeOK, NEW r \in RefundId,
         RejectRefund(r) \/ \E ref \in BankRefs : CompleteRefund(r, ref)
  PROVE  TypeOK'
<1>1. \A j \in ReturnId : returns[j] \in ReturnRequest
  BY DEF TypeOK
<1>2. NoPieces \in Pieces
  BY DEF NoPieces, Pieces
<1>3. CASE RejectRefund(r)
  <2>1. refunds' \in [RefundId -> Refund]
    BY <1>3 DEF TypeOK, RejectRefund, Refund, RefundStatuses
  <2>2. ASSUME NEW j \in ReturnId
        PROVE  /\ [returns[j] EXCEPT !.status = "APPROVED", !.accepted = NoPieces,
                                     !.shippingRefunded = FALSE] \in ReturnRequest
               /\ [returns[j] EXCEPT !.accepted = NoPieces] \in ReturnRequest
    BY <1>1, <1>2 DEF ReturnRequest, ReturnStatuses
  <2>3. returns' \in [ReturnId -> ReturnRequest]
    BY <1>1, <1>3, <2>2 DEF RejectRefund, ReopenReturn
  <2> QED BY <1>3, <2>1, <2>3 DEF TypeOK, RejectRefund
<1>4. CASE \E ref \in BankRefs : CompleteRefund(r, ref)
  <2>1. PICK ref \in BankRefs : CompleteRefund(r, ref)
    BY <1>4
  <2>2. [refunds[r] EXCEPT !.status = "COMPLETED", !.reference = ref] \in Refund
    BY DEF TypeOK, Refund, RefundStatuses
  <2>3. refunds' \in [RefundId -> Refund]
    BY <2>1, <2>2 DEF TypeOK, CompleteRefund
  <2>4. ASSUME NEW j \in ReturnId
        PROVE  [returns[j] EXCEPT !.status = "REFUNDED"] \in ReturnRequest
    BY <1>1 DEF ReturnRequest, ReturnStatuses
  <2>5. returns' \in [ReturnId -> ReturnRequest]
    BY <1>1, <2>1, <2>4 DEF CompleteRefund, MarkReturnRefunded
  <2>6. orders' \in {orders, [orders EXCEPT ![refunds[r].order].paymentStatus = "refunded"]}
    BY <2>1 DEF CompleteRefund
  <2>7. orders' \in [Orders -> Order]
    BY <2>6 DEF TypeOK, Order, PaymentStatuses
  <2> QED BY <2>1, <2>3, <2>5, <2>7 DEF TypeOK, CompleteRefund
<1> QED BY <1>3, <1>4

\* A new return request (create) keeps the types.
LEMMA CreateReturnType ==
  ASSUME TypeOK, NEW o \in Orders, NEW quantity \in PiecesOf(o), CreateReturn(o, quantity)
  PROVE  TypeOK'
<1>1. quantity \in Pieces /\ NoPieces \in Pieces
  BY ConstantsAssumption DEF PiecesOf, Pieces, NoPieces
<1>2. [order |-> o, status |-> "REQUESTED", quantity |-> quantity,
       accepted |-> NoPieces, shippingRefunded |-> FALSE] \in ReturnRequest
  BY <1>1 DEF ReturnRequest, ReturnStatuses
<1>3. returns' \in [ReturnId -> ReturnRequest]
  BY <1>2 DEF TypeOK, CreateReturn
<1> QED BY <1>3 DEF TypeOK, CreateReturn

\* Cancelling, approving and rejecting a return request keep the types.
LEMMA MoveReturnType ==
  ASSUME TypeOK, NEW k \in ReturnId, CancelReturn(k) \/ ApproveReturn(k) \/ RejectReturn(k)
  PROVE  TypeOK'
BY DEF TypeOK, CancelReturn, ApproveReturn, RejectReturn, MoveReturn, ReturnRequest,
       ReturnStatuses

\* Receiving a parcel (receive) keeps the types.
LEMMA ReceiveReturnType ==
  ASSUME TypeOK, NEW k \in ReturnId, NEW o \in Orders, returns[k].order = o,
         NEW accepted \in PiecesOf(o), NEW refundShipping \in BOOLEAN,
         ReceiveReturn(k, accepted, refundShipping)
  PROVE  TypeOK'
<1>1. accepted \in Pieces
  BY ConstantsAssumption DEF PiecesOf, Pieces
<1>2. Inserts(o, k)
  BY RequestInserts DEF ReceiveReturn
<1>3. refunds' \in [RefundId -> Refund]
  BY <1>2, InsertsType
<1>4. [returns[k] EXCEPT !.status = "RECEIVED", !.accepted = accepted,
                         !.shippingRefunded = refundShipping] \in ReturnRequest
  BY <1>1 DEF TypeOK, ReturnRequest, ReturnStatuses
<1>5. returns' \in [ReturnId -> ReturnRequest]
  BY <1>4 DEF TypeOK, ReceiveReturn
<1> QED BY <1>3, <1>5 DEF TypeOK, ReceiveReturn

\* Cancelling an order (cancelLocked) keeps the types.
LEMMA CancelLockedType ==
  ASSUME TypeOK, NEW o \in Orders, CancelLocked(o) PROVE TypeOK'
<1>1. refunds' \in [RefundId -> Refund]
  BY RequestInserts, InsertsType DEF CancelLocked, TypeOK
<1>2. orders' \in [Orders -> Order]
  BY DEF TypeOK, CancelLocked, Order, OrderStatuses
<1>3. attempts' \in [AttemptId -> PaymentAttempt]
  BY CancelledType DEF CancelLocked
<1> QED BY <1>1, <1>2, <1>3 DEF TypeOK, CancelLocked

\* Moving an order on (updateStatus) keeps the types.
LEMMA UpdateStatusType ==
  ASSUME TypeOK, NEW o \in Orders, NEW status \in OrderStatuses, UpdateStatus(o, status)
  PROVE  TypeOK'
<1>1. CASE status = "cancelled"
  BY <1>1, CancelLockedType DEF UpdateStatus
<1>2. CASE status # "cancelled"
  BY <1>2 DEF TypeOK, UpdateStatus, Order
<1> QED BY <1>1, <1>2

\* Every handler keeps the types.
LEMMA TypeNext == TypeOK /\ [Next]_vars => TypeOK'
<1> SUFFICES ASSUME TypeOK, [Next]_vars PROVE TypeOK'
  OBVIOUS
<1>1. ASSUME PaymentNext PROVE TypeOK'
  <2>1. ASSUME ChangeAccount PROVE TypeOK'
    BY <2>1 DEF TypeOK, ChangeAccount
  <2> QED BY <1>1, <2>1, PassExpiryType, CreateQrType, ExpireType, WebhookType, ConfirmType
          DEF PaymentNext
<1>2. ASSUME RefundNext PROVE TypeOK'
  <2>1. ASSUME NEW o \in Orders, CreateRefundAdmin(o) PROVE TypeOK'
    BY <2>1, RequestInserts, InsertsType DEF TypeOK, CreateRefundAdmin
  <2> QED BY <1>2, <2>1, RefundStepType DEF RefundNext
<1>3. ASSUME ReturnNext PROVE TypeOK'
  BY <1>3, CreateReturnType, MoveReturnType, ReceiveReturnType DEF ReturnNext
<1>4. ASSUME StatusNext PROVE TypeOK'
  BY <1>4, CancelLockedType, UpdateStatusType DEF StatusNext, CancelOrder
<1>5. ASSUME UNCHANGED vars PROVE TypeOK'
  BY <1>5 DEF vars, TypeOK
<1> QED BY <1>1, <1>2, <1>3, <1>4, <1>5 DEF Next

\* The columns of all tables always hold values of their types: no handler of
\* the order, payment, refund and return modules writes anything else.
THEOREM TypeCorrect == Spec => []TypeOK
BY TypeInit, TypeNext, PTL DEF Spec

-----------------------------------------------------------------------------
(* Sessions and payments *)

\* What a handler that only deals in sessions does: a session keeps its order and
\* its status, or expires, or is inserted as the only pending one of its order.
SessionStep ==
  /\ UNCHANGED <<orders, transactions, refunds, returns>>
  /\ \A a \in AttemptId :
       \/ /\ attempts'[a].order = attempts[a].order
          /\ attempts'[a].status = attempts[a].status
          /\ attempts[a].status = "PAID" => attempts'[a] = attempts[a]
       \/ /\ attempts'[a].order = attempts[a].order
          /\ attempts[a].status = "PENDING"
          /\ attempts'[a].status = "EXPIRED"
       \/ /\ attempts[a].status = "NONE"
          /\ attempts'[a].status = "PENDING"
          /\ Payable(attempts'[a].order)
          /\ \A b \in AttemptId \ {a} :
               attempts'[b].order = attempts'[a].order => attempts'[b].status # "PENDING"

\* createQr, createQrAdmin, the expiry job, the passing of time and a change of
\* the configured account are such steps.
LEMMA SessionActions ==
  ASSUME IndInv,
         \/ \E a \in AttemptId : PassExpiry(a)
         \/ \E o \in Orders : CreateQr(o) \/ CreateQrAdmin(o)
         \/ ChangeAccount \/ ExpireOverdueAttempts
  PROVE  SessionStep
<1>1. attempts \in [AttemptId -> PaymentAttempt]
  BY DEF IndInv, TypeOK
<1>2. CASE (\E a \in AttemptId : PassExpiry(a)) \/ ChangeAccount
  BY <1>1, <1>2 DEF PassExpiry, ChangeAccount, SessionStep, PaymentAttempt
<1>3. CASE ExpireOverdueAttempts
  BY <1>1, <1>3 DEF ExpireOverdueAttempts, SessionStep, PaymentAttempt, Expirable
<1>4. ASSUME NEW o \in Orders, CreateQr(o) \/ CreateQrAdmin(o)
      PROVE  SessionStep
  <2>1. PICK new \in AttemptId, overdue \in BOOLEAN :
          /\ attempts[new].status = "NONE"
          /\ attempts' = [b \in AttemptId |->
               IF b = new THEN NewAttempt(o)
               ELSE IF b \in PendingAttempts(o)
                    THEN IF overdue
                         THEN [attempts[b] EXCEPT !.status = "EXPIRED", !.overdue = TRUE]
                         ELSE [attempts[b] EXCEPT !.status = "EXPIRED"]
                    ELSE attempts[b]]
    <3>1. CASE CreateQr(o)
      <4>1. PICK new \in AttemptId : IsNextAttempt(new) /\ attempts' =
              [b \in AttemptId |->
                 IF b = new THEN NewAttempt(o)
                 ELSE IF b \in PendingAttempts(o)
                      THEN [attempts[b] EXCEPT !.status = "EXPIRED"]
                      ELSE attempts[b]]
        BY <3>1 DEF CreateQr
      <4> QED BY <4>1 DEF IsNextAttempt
    <3>2. CASE CreateQrAdmin(o)
      <4>1. PICK new \in AttemptId : IsNextAttempt(new) /\ attempts' =
              [b \in AttemptId |->
                 IF b = new THEN NewAttempt(o)
                 ELSE IF b \in PendingAttempts(o)
                      THEN [attempts[b] EXCEPT !.status = "EXPIRED", !.overdue = TRUE]
                      ELSE attempts[b]]
        BY <3>2 DEF CreateQrAdmin
      <4> QED BY <4>1 DEF IsNextAttempt
    <3> QED BY <1>4, <3>1, <3>2
  <2>3. \A b \in AttemptId :
          IF b = new THEN attempts'[b].order = o /\ attempts'[b].status = "PENDING"
          ELSE IF b \in PendingAttempts(o)
               THEN attempts'[b].order = attempts[b].order /\ attempts'[b].status = "EXPIRED"
               ELSE attempts'[b] = attempts[b]
    BY <1>1, <2>1 DEF NewAttempt, PaymentAttempt
  <2>4. Payable(o)
    BY <1>4 DEF CreateQr, CreateQrAdmin
  <2>2. UNCHANGED <<orders, transactions, refunds, returns>>
    BY <1>4 DEF CreateQr, CreateQrAdmin
  <2> QED BY <2>1, <2>2, <2>3, <2>4 DEF SessionStep, PendingAttempts, AttemptsOf
<1> QED BY <1>2, <1>3, <1>4

\* Such a step leaves what the payments rely on: an expired session is not a paid
\* one, and a new session is issued only where no other is pending.
LEMMA SessionsKeepPayments ==
  ASSUME IndInv, SessionStep
  PROVE  /\ PendingOnlyWhilePayable'
         /\ PaidThroughOneAttempt'
         /\ OneTransactionPerPayment'
         /\ RefundsOfPayments'
<1>1. \A o \in Orders : PaidAttempts(o)' = PaidAttempts(o)
  BY DEF SessionStep, PaidAttempts, AttemptsOf
<1>2. PendingOnlyWhilePayable'
  BY DEF IndInv, SessionStep, PendingOnlyWhilePayable, PendingAttempts, AttemptsOf, Payable
<1>3. PaidThroughOneAttempt'
  BY <1>1 DEF IndInv, SessionStep, PaidThroughOneAttempt, AttemptsOf, Payable
<1>4. \A o \in Orders : SettlingKeys(o)' = SettlingKeys(o)
  BY DEF IndInv, SessionStep, OneTransactionPerPayment, SettlingKeys, PaidAttempts, AttemptsOf
<1>5. OneTransactionPerPayment'
  BY <1>1, <1>4 DEF IndInv, SessionStep, OneTransactionPerPayment
<1>6. RefundsOfPayments'
  BY <1>1 DEF IndInv, SessionStep, RefundsOfPayments, RefundsOf, Requested
<1> QED BY <1>2, <1>3, <1>5, <1>6

\* What a handler that settles a payment does: session a of the payable order o
\* is paid and transaction key is the evidence.
PaymentStep(o, a, key) ==
  /\ Payable(o)
  /\ a \in AttemptsOf(o)
  /\ PayWith(o, a)
  /\ transactions[key].status \notin Settling
  /\ \E status \in Settling : \E amount : Record(key, status, a, amount)
  /\ UNCHANGED <<refunds, returns>>

\* A confirmation by hand settles a payment, whichever transaction it names.
LEMMA ConfirmSteps ==
  ASSUME IndInv, NEW o \in Orders, NEW key \in Keys, NEW a \in AttemptId,
         NEW acceptMismatch,
         \/ ConfirmRecorded(o, key, a, acceptMismatch)
         \/ \E amount \in Amounts : ConfirmEntered(o, key, a, amount, acceptMismatch)
  PROVE  PaymentStep(o, a, key)
<1>1. "MANUALLY_CONFIRMED" \in Settling
  BY DEF Settling
<1>2. CASE ConfirmRecorded(o, key, a, acceptMismatch)
  <2>1. transactions[key].status \notin Settling
    BY <1>2 DEF ConfirmRecorded, Confirmable, Settling
  <2> QED BY <1>1, <1>2, <2>1 DEF ConfirmRecorded, PaymentStep
<1>3. CASE \E amount \in Amounts : ConfirmEntered(o, key, a, amount, acceptMismatch)
  <2>1. PICK amount \in Amounts : ConfirmEntered(o, key, a, amount, acceptMismatch)
    BY <1>3
  <2>2. transactions[key].status \notin Settling
    BY <2>1 DEF ConfirmEntered, Settling
  <2> QED BY <1>1, <2>1, <2>2 DEF ConfirmEntered, PaymentStep
<1> QED BY <1>2, <1>3

\* A transfer that names a session settles a payment, or it is only recorded, and
\* the session expires at most (LATE).
LEMMA WebhookSteps ==
  ASSUME IndInv, NEW ref \in Refs, NEW a \in AttemptId, NEW amount \in Amounts,
         WebhookForAttempt(ref, a, amount)
  PROVE  \/ PaymentStep(attempts[a].order, a, <<"sepay", ref>>) /\ attempts[a].order \in Orders
         \/ /\ transactions[<<"sepay", ref>>].status \notin Settling
            /\ \E status \in VerificationStatuses \ Settling :
                 Record(<<"sepay", ref>>, status, a, amount)
            /\ UNCHANGED <<orders, refunds, returns>>
            /\ \/ UNCHANGED attempts
               \/ /\ attempts[a].status \notin {"PAID", "CANCELLED"}
                  /\ attempts' = [attempts EXCEPT ![a].status = "EXPIRED"]
<1> DEFINE key == <<"sepay", ref>>
<1>1. /\ transactions[key].status \notin Settling
      /\ Record(key, Verdict(a, amount), a, amount)
      /\ UNCHANGED <<refunds, returns>>
      /\ attempts[a].order \in Orders
  BY DEF WebhookForAttempt, Settling
<1>2. Verdict(a, amount) \in VerificationStatuses
  BY VerdictType
<1>3. CASE Verdict(a, amount) = "MATCHED"
  <2>1. Payable(attempts[a].order) /\ a \in AttemptsOf(attempts[a].order)
    BY <1>3 DEF Verdict, Payable, AttemptsOf
  <2>2. PayWith(attempts[a].order, a)
    BY <1>3 DEF WebhookForAttempt
  <2>3. Verdict(a, amount) \in Settling
    BY <1>3 DEF Settling
  <2> QED BY <1>1, <2>1, <2>2, <2>3 DEF PaymentStep
<1>4. CASE Verdict(a, amount) = "LATE"
  <2>1. attempts[a].status \notin {"PAID", "CANCELLED"}
    BY <1>4 DEF Verdict
  <2>3. Verdict(a, amount) \notin Settling
    BY <1>4 DEF Settling
  <2> QED BY <1>1, <1>2, <1>4, <2>1, <2>3 DEF WebhookForAttempt
<1>5. CASE Verdict(a, amount) \notin {"MATCHED", "LATE"}
  <2>1. Verdict(a, amount) \notin Settling
    BY <1>5 DEF Verdict, Settling
  <2> QED BY <1>1, <1>2, <1>5, <2>1 DEF WebhookForAttempt
<1> QED BY <1>3, <1>4, <1>5

\* The rows after a payment was settled.
LEMMA PaymentEffects ==
  ASSUME IndInv, NEW o \in Orders, NEW a \in AttemptId, NEW key \in Keys,
         PaymentStep(o, a, key)
  PROVE  /\ orders'[o].paymentStatus = "paid"
         /\ orders'[o].status # "cancelled"
         /\ orders[o].status \in Returnable => orders'[o].status \in Returnable
         /\ \A p \in Orders \ {o} : orders'[p] = orders[p]
         /\ \A b \in AttemptId : attempts'[b].order = attempts[b].order
         /\ attempts'[a].status = "PAID"
         /\ \A b \in AttemptId \ {a} :
              IF b \in PendingAttempts(o) THEN attempts'[b].status = "CANCELLED"
                                         ELSE attempts'[b] = attempts[b]
         /\ transactions'[key].status \in Settling
         /\ transactions'[key].attempt = a
         /\ \A k \in Keys \ {key} : transactions'[k] = transactions[k]
         /\ transactions[key].status \notin Settling
         /\ UNCHANGED <<refunds, returns>>
<1>1. TypeOK
  BY DEF IndInv
<1>2. WithPendingCancelled(o) \in [AttemptId -> PaymentAttempt]
  BY <1>1, CancelledType
<1>3. \A b \in AttemptId :
        /\ WithPendingCancelled(o)[b].order = attempts[b].order
        /\ IF b \in PendingAttempts(o) THEN WithPendingCancelled(o)[b].status = "CANCELLED"
           ELSE WithPendingCancelled(o)[b] = attempts[b]
  BY <1>1 DEF WithPendingCancelled, TypeOK, PaymentAttempt
<1>4. attempts' = [WithPendingCancelled(o) EXCEPT ![a].status = "PAID"]
  BY DEF PaymentStep, PayWith
<1>5. /\ attempts'[a].status = "PAID"
      /\ \A b \in AttemptId : attempts'[b].order = attempts[b].order
      /\ \A b \in AttemptId \ {a} : attempts'[b] = WithPendingCancelled(o)[b]
  BY <1>2, <1>3, <1>4 DEF PaymentAttempt
<1>6. /\ orders'[o].paymentStatus = "paid"
      /\ orders'[o].status = IF orders[o].status = "pending" THEN "confirmed" ELSE orders[o].status
      /\ \A p \in Orders \ {o} : orders'[p] = orders[p]
  BY <1>1 DEF PaymentStep, PayWith, MarkOrderPaid, TypeOK, Order
<1>7. orders[o].status # "cancelled"
  BY DEF PaymentStep, Payable
<1>8. /\ transactions'[key].status \in Settling
      /\ transactions'[key].attempt = a
      /\ \A k \in Keys \ {key} : transactions'[k] = transactions[k]
  BY <1>1 DEF PaymentStep, Record, TypeOK
<1> QED BY <1>3, <1>5, <1>6, <1>7, <1>8 DEF PaymentStep, Returnable

\* Settling a payment (applyOrderPaid and the evidence with it) keeps the
\* invariant: the order had no paid session, so it has one now, with one transaction.
LEMMA PaymentKeepsInv ==
  ASSUME IndInv, NEW o \in Orders, NEW a \in AttemptId, NEW key \in Keys,
         PaymentStep(o, a, key), TypeOK'
  PROVE  IndInv'
<1> USE PaymentEffects
<1>1. Payable(o) /\ a \in AttemptsOf(o)
  BY DEF PaymentStep
<1>2. \A p \in Orders : AttemptsOf(p)' = AttemptsOf(p)
  BY DEF AttemptsOf
<1>3. PaidAttempts(o) = {} /\ PaidAttempts(o)' = {a}
  BY <1>1, <1>2 DEF IndInv, PaidThroughOneAttempt, Payable, PaidAttempts, AttemptsOf, PendingAttempts
<1>4. \A p \in Orders \ {o} : PaidAttempts(p)' = PaidAttempts(p)
  BY <1>1, <1>2 DEF PaidAttempts, AttemptsOf, PendingAttempts
<1>5. PendingOnlyWhilePayable'
  BY <1>1, <1>2 DEF IndInv, PendingOnlyWhilePayable, PendingAttempts, AttemptsOf, Payable
<1>6. PaidThroughOneAttempt'
  <2>1. ~Payable(o)'
    BY DEF Payable
  <2>2. ASSUME NEW p \in Orders \ {o}, NEW b \in AttemptsOf(p), attempts'[b].status = "CANCELLED"
        PROVE  ~Payable(p)'
    <3>1. attempts[b].status = "CANCELLED"
      BY <1>1, <2>2 DEF AttemptsOf, PendingAttempts
    <3> QED BY <3>1 DEF IndInv, PaidThroughOneAttempt, Payable
  <2>3. \A p \in Orders : orders'[p].paymentStatus = "unpaid" <=> PaidAttempts(p)' = {}
    BY <1>3, <1>4 DEF IndInv, PaidThroughOneAttempt
  <2>4. \A p \in Orders : \A b, c \in PaidAttempts(p)' : b = c
    BY <1>3, <1>4 DEF IndInv, PaidThroughOneAttempt
  <2> QED BY <1>2, <2>1, <2>2, <2>3, <2>4 DEF PaidThroughOneAttempt
<1>7. OneTransactionPerPayment'
  <2>1. SettlingKeys(o)' = {key}
    BY <1>1, <1>2, <1>3 DEF IndInv, OneTransactionPerPayment, SettlingKeys, PaidAttempts, AttemptsOf
  <2>2. \A p \in Orders \ {o} : SettlingKeys(p)' = SettlingKeys(p)
    BY <1>1, <1>2 DEF SettlingKeys, AttemptsOf
  <2> QED BY <2>1, <2>2, <1>3, <1>4 DEF IndInv, OneTransactionPerPayment
<1>8. RefundsOfPayments'
  BY <1>3, <1>4 DEF IndInv, RefundsOfPayments, RefundsOf, Requested
<1>9. CancelledPaidHasRefund'
  BY <1>1 DEF IndInv, CancelledPaidHasRefund, RefundsOf
<1>10. RefundReferences' /\ UnusedRows'
  BY DEF IndInv, RefundReferences, UnusedRows
<1>11. ReturnFollowsRefund'
  BY DEF IndInv, ReturnFollowsRefund, RefundsFor, UnusedRows
<1> QED BY <1>5, <1>6, <1>7, <1>8, <1>9, <1>10, <1>11 DEF IndInv
-----------------------------------------------------------------------------
\* A refund request is inserted for order o, which is and stays paid.
LEMMA InsertEffects ==
  ASSUME TypeOK, NEW o \in Orders, NEW k \in {Null} \cup ReturnId, Inserts(o, k)
  PROVE  \E r \in RefundId :
           /\ refunds[r].status = "NONE"
           /\ refunds'[r].order = o
           /\ refunds'[r].status = "REQUESTED"
           /\ refunds'[r].attempt \in PaidAttempts(o)
           /\ refunds'[r].return = k
           /\ refunds'[r].reference = NoRef
           /\ \A s \in RefundId \ {r} : refunds'[s] = refunds[s]
           /\ Requested(o) = {}
BY DEF TypeOK, Inserts, IsNextRefund, PaidAttempt, PaidAttempts

\* The request belongs to the payment, and it is the only one that waits.
LEMMA InsertKeepsRefunds ==
  ASSUME IndInv, NEW o \in Orders, NEW k \in {Null} \cup ReturnId, Inserts(o, k),
         orders[o].paymentStatus = "paid",
         \A p \in Orders : orders'[p].paymentStatus = orders[p].paymentStatus,
         \A p \in Orders : PaidAttempts(p)' = PaidAttempts(p)
  PROVE  /\ RefundsOfPayments'
         /\ RefundReferences'
         /\ \A r \in RefundId : IF refunds'[r].status = "NONE" THEN refunds'[r] = NoRefundRow
                                 ELSE refunds'[r].order \in Orders
         /\ RefundsOf(o)' # {}
         /\ \A p \in Orders : RefundsOf(p) \subseteq RefundsOf(p)'
<1>1. PICK r \in RefundId :
        /\ refunds[r].status = "NONE"
        /\ refunds'[r].order = o
        /\ refunds'[r].status = "REQUESTED"
        /\ refunds'[r].attempt \in PaidAttempts(o)
        /\ refunds'[r].return = k
        /\ refunds'[r].reference = NoRef
        /\ \A s \in RefundId \ {r} : refunds'[s] = refunds[s]
        /\ Requested(o) = {}
  BY InsertEffects DEF IndInv
<1>2. refunds[r] = NoRefundRow
  BY <1>1 DEF IndInv, UnusedRows
<1>3. RefundsOfPayments'
  BY <1>1 DEF IndInv, RefundsOfPayments, RefundsOf, Requested
<1>4. RefundReferences'
  BY <1>1 DEF IndInv, RefundReferences
<1>5. \A p \in Orders : RefundsOf(p) \subseteq RefundsOf(p)'
  BY <1>1, <1>2, ConstantsAssumption DEF RefundsOf, NoRefundRow
<1> QED BY <1>1, <1>3, <1>4, <1>5 DEF IndInv, UnusedRows, RefundsOf

-----------------------------------------------------------------------------

\* Checkout leaves an order that satisfies the invariant.
LEMMA InitInv == Init => IndInv
<1> SUFFICES ASSUME Init PROVE IndInv
  OBVIOUS
<1>1. TypeOK
  BY TypeInit
<1>2. /\ \A o \in Orders : orders[o].status = "pending" /\ orders[o].paymentStatus = "unpaid"
      /\ \A a \in AttemptId : attempts[a].status = "NONE"
      /\ \A k \in Keys : transactions[k].status = "NONE"
      /\ \A r \in RefundId : refunds[r] = NoRefundRow
      /\ \A k \in ReturnId : returns[k].status = "NONE"
  BY DEF Init, NoAttemptRow, NoTransactionRow, NoReturnRow
<1>3. /\ NoRefundRow.status = "NONE" /\ NoRefundRow.return = Null
      /\ NoRefundRow.reference = NoRef /\ NoRefundRow.order \notin Orders
  BY ConstantsAssumption DEF NoRefundRow
<1>4. UnusedRows
  BY <1>2, <1>3 DEF UnusedRows
<1>5. PendingOnlyWhilePayable /\ PaidThroughOneAttempt
  BY <1>2 DEF PendingOnlyWhilePayable, PaidThroughOneAttempt, PendingAttempts, PaidAttempts,
              AttemptsOf
<1>6. OneTransactionPerPayment
  BY <1>2 DEF OneTransactionPerPayment, Settling
<1>7. RefundsOfPayments /\ RefundReferences
  BY <1>2, <1>3 DEF RefundsOfPayments, RefundReferences, RefundsOf
<1>8. CancelledPaidHasRefund
  BY <1>2 DEF CancelledPaidHasRefund
<1>9. ReturnFollowsRefund
  BY <1>2, <1>3 DEF ReturnFollowsRefund, RefundsFor
<1> QED BY <1>1, <1>4, <1>5, <1>6, <1>7, <1>8, <1>9 DEF IndInv

\* Handlers that only deal in sessions keep the invariant.
LEMMA SessionKeepsInv ==
  ASSUME IndInv, SessionStep, TypeOK' PROVE IndInv'
<1>1. UnusedRows' /\ RefundReferences' /\ CancelledPaidHasRefund' /\ ReturnFollowsRefund'
  BY DEF IndInv, SessionStep, UnusedRows, RefundReferences, CancelledPaidHasRefund,
         ReturnFollowsRefund, RefundsOf, RefundsFor
<1> QED BY <1>1, SessionsKeepPayments DEF IndInv

\* What a delivery that settles nothing does: the transfer is recorded for review,
\* and the session it names may expire.
NoteStep(key) ==
  /\ transactions[key].status \notin Settling
  /\ transactions'[key].status \notin Settling
  /\ \A k \in Keys \ {key} : transactions'[k] = transactions[k]
  /\ UNCHANGED <<orders, refunds, returns>>
  /\ \A b \in AttemptId :
       \/ attempts'[b] = attempts[b]
       \/ /\ attempts'[b].order = attempts[b].order
          /\ attempts[b].status \notin {"PAID", "CANCELLED"}
          /\ attempts'[b].status = "EXPIRED"

\* The rows after a transaction was recorded.
LEMMA RecordEffects ==
  ASSUME TypeOK, NEW key \in Keys, NEW status, NEW a, NEW amount,
         Record(key, status, a, amount)
  PROVE  /\ transactions'[key].status = status
         /\ \A k \in Keys \ {key} : transactions'[k] = transactions[k]
BY DEF TypeOK, Record

\* Recording a transfer for review keeps the invariant.
LEMMA NoteKeepsInv ==
  ASSUME IndInv, NEW key \in Keys, NoteStep(key), TypeOK' PROVE IndInv'
<1>1. \A o \in Orders : AttemptsOf(o)' = AttemptsOf(o) /\ PaidAttempts(o)' = PaidAttempts(o)
  BY DEF NoteStep, PaidAttempts, AttemptsOf
<1>2. \A o \in Orders : SettlingKeys(o)' = SettlingKeys(o)
  BY <1>1 DEF NoteStep, SettlingKeys
<1>3. PendingOnlyWhilePayable'
  BY <1>1 DEF IndInv, NoteStep, PendingOnlyWhilePayable, PendingAttempts, AttemptsOf, Payable
<1>4. PaidThroughOneAttempt'
  BY <1>1 DEF IndInv, NoteStep, PaidThroughOneAttempt, AttemptsOf, Payable
<1>5. OneTransactionPerPayment'
  BY <1>1, <1>2 DEF IndInv, NoteStep, OneTransactionPerPayment
<1>6. RefundsOfPayments'
  BY <1>1 DEF IndInv, NoteStep, RefundsOfPayments, RefundsOf, Requested
<1>7. UnusedRows' /\ RefundReferences' /\ CancelledPaidHasRefund' /\ ReturnFollowsRefund'
  BY DEF IndInv, NoteStep, UnusedRows, RefundReferences, CancelledPaidHasRefund,
         ReturnFollowsRefund, RefundsOf, RefundsFor
<1> QED BY <1>3, <1>4, <1>5, <1>6, <1>7 DEF IndInv

\* Every delivery of the webhook settles a payment or is recorded for review.
LEMMA WebhookCases ==
  ASSUME IndInv, NEW ref \in Refs, NEW amount \in Amounts,
         \/ \E status \in VerificationStatuses : WebhookUnlinked(ref, status, amount)
         \/ \E a \in AttemptId : WebhookForAttempt(ref, a, amount)
  PROVE  \E key \in Keys :
           NoteStep(key) \/ \E o \in Orders, a \in AttemptId : PaymentStep(o, a, key)
<1> DEFINE key == <<"sepay", ref>>
<1>1. key \in Keys /\ TypeOK
  BY KeysType DEF IndInv
<1>2. CASE \E status \in VerificationStatuses : WebhookUnlinked(ref, status, amount)
  <2>1. PICK status \in VerificationStatuses : WebhookUnlinked(ref, status, amount)
    BY <1>2
  <2>2. transactions[key].status \notin Settling /\ status \notin Settling
    BY <2>1 DEF WebhookUnlinked, Settling
  <2>3. NoteStep(key)
    BY <1>1, <2>1, <2>2, RecordEffects DEF WebhookUnlinked, NoteStep
  <2> QED BY <1>1, <2>3
<1>3. CASE \E a \in AttemptId : WebhookForAttempt(ref, a, amount)
  <2>1. PICK a \in AttemptId : WebhookForAttempt(ref, a, amount)
    BY <1>3
  <2>2. CASE PaymentStep(attempts[a].order, a, key) /\ attempts[a].order \in Orders
    BY <1>1, <2>2
  <2>3. CASE /\ transactions[key].status \notin Settling
             /\ \E status \in VerificationStatuses \ Settling : Record(key, status, a, amount)
             /\ UNCHANGED <<orders, refunds, returns>>
             /\ \/ UNCHANGED attempts
                \/ /\ attempts[a].status \notin {"PAID", "CANCELLED"}
                   /\ attempts' = [attempts EXCEPT ![a].status = "EXPIRED"]
    <3>1. PICK status \in VerificationStatuses \ Settling : Record(key, status, a, amount)
      BY <2>3
    <3>2. \A b \in AttemptId :
            \/ attempts'[b] = attempts[b]
            \/ /\ attempts'[b].order = attempts[b].order
               /\ attempts[b].status \notin {"PAID", "CANCELLED"}
               /\ attempts'[b].status = "EXPIRED"
      BY <1>1, <2>3 DEF TypeOK, PaymentAttempt
    <3>3. NoteStep(key)
      BY <1>1, <2>3, <3>1, <3>2, RecordEffects DEF NoteStep
    <3> QED BY <1>1, <3>3
  <2> QED BY <2>1, <2>2, <2>3, WebhookSteps
<1> QED BY <1>2, <1>3

\* The webhook keeps the invariant.
LEMMA WebhookKeepsInv ==
  ASSUME IndInv, TypeOK', NEW ref \in Refs, NEW amount \in Amounts,
         \/ \E status \in VerificationStatuses : WebhookUnlinked(ref, status, amount)
         \/ \E a \in AttemptId : WebhookForAttempt(ref, a, amount)
  PROVE  IndInv'
BY WebhookCases, NoteKeepsInv, PaymentKeepsInv

-----------------------------------------------------------------------------

\* No payment is made or undone.
SamePayments ==
  /\ UNCHANGED transactions
  /\ \A o \in Orders : orders'[o].paymentStatus # "unpaid" <=> orders[o].paymentStatus # "unpaid"
  /\ \A a \in AttemptId : attempts'[a].order = attempts[a].order
  /\ \A o \in Orders : PaidAttempts(o)' = PaidAttempts(o)

\* Then every payment keeps its one transaction.
LEMMA SamePaymentsKeep ==
  ASSUME IndInv, SamePayments PROVE OneTransactionPerPayment'
<1>1. \A o \in Orders : SettlingKeys(o)' = SettlingKeys(o)
  BY DEF SamePayments, SettlingKeys, AttemptsOf
<1> QED BY <1>1 DEF IndInv, SamePayments, OneTransactionPerPayment

\* A refund requested by hand (createAdmin) keeps the invariant.
LEMMA CreateRefundAdminKeepsInv ==
  ASSUME IndInv, TypeOK', NEW o \in Orders, CreateRefundAdmin(o) PROVE IndInv'
<1>1. Inserts(o, Null) /\ orders[o].paymentStatus = "paid"
  BY RequestInserts DEF CreateRefundAdmin
<1>2. UNCHANGED <<orders, attempts, transactions, returns>>
  BY DEF CreateRefundAdmin
<1>3. SamePayments
  BY <1>2 DEF SamePayments, PaidAttempts, AttemptsOf
<1>4. /\ RefundsOfPayments' /\ RefundReferences' /\ UnusedRows'
      /\ \A p \in Orders : RefundsOf(p) \subseteq RefundsOf(p)'
  BY <1>1, <1>2, <1>3, InsertKeepsRefunds DEF SamePayments, IndInv, UnusedRows
<1>5. CancelledPaidHasRefund'
  BY <1>2, <1>4 DEF IndInv, CancelledPaidHasRefund
<1>6. PICK r \in RefundId : /\ refunds[r].status = "NONE"
                            /\ refunds'[r].return = Null
                            /\ \A s \in RefundId \ {r} : refunds'[s] = refunds[s]
  BY <1>1, InsertEffects DEF IndInv
<1>7. ReturnFollowsRefund'
  <2>1. refunds[r].return = Null
    BY <1>6 DEF IndInv, UnusedRows, NoRefundRow
  <2>2. \A k \in ReturnId : /\ RefundsFor(k, "REQUESTED")' = RefundsFor(k, "REQUESTED")
                            /\ RefundsFor(k, "COMPLETED")' = RefundsFor(k, "COMPLETED")
    BY <1>6, <2>1 DEF RefundsFor, Null, ReturnId
  <2> QED BY <1>2, <1>6, <2>2 DEF IndInv, ReturnFollowsRefund
<1>8. PendingOnlyWhilePayable' /\ PaidThroughOneAttempt'
  BY <1>2 DEF IndInv, PendingOnlyWhilePayable, PendingAttempts, PaidThroughOneAttempt,
              PaidAttempts, AttemptsOf, Payable
<1> QED BY <1>3, <1>4, <1>5, <1>7, <1>8, SamePaymentsKeep DEF IndInv

\* Cancelling an order that was not delivered keeps the invariant: nothing can have
\* been sent back yet, and if the order is paid its refund is requested with it.
LEMMA CancelKeepsInv ==
  ASSUME IndInv, TypeOK', NEW o \in Orders, CancelLocked(o),
         orders[o].status \notin Returnable
  PROVE  IndInv'
<1>1. /\ orders'[o].status = "cancelled"
      /\ orders'[o].paymentStatus = orders[o].paymentStatus
      /\ \A p \in Orders \ {o} : orders'[p] = orders[p]
      /\ UNCHANGED <<transactions, returns>>
  BY DEF CancelLocked, IndInv, TypeOK, Order
<1>2. \A a \in AttemptId :
        /\ attempts'[a].order = attempts[a].order
        /\ IF a \in PendingAttempts(o) THEN attempts'[a].status = "CANCELLED"
           ELSE attempts'[a] = attempts[a]
  BY DEF CancelLocked, WithPendingCancelled, IndInv, TypeOK, PaymentAttempt
<1>3. \A p \in Orders : PaidAttempts(p)' = PaidAttempts(p)
  BY <1>2 DEF PaidAttempts, AttemptsOf, PendingAttempts
<1>4. SamePayments
  BY <1>1, <1>2, <1>3 DEF SamePayments
<1>5. PendingOnlyWhilePayable'
  BY <1>1, <1>2 DEF IndInv, PendingOnlyWhilePayable, PendingAttempts, AttemptsOf, Payable
<1>6. PaidThroughOneAttempt'
  <2>1. ASSUME NEW p \in Orders, NEW b \in AttemptsOf(p)', attempts'[b].status = "CANCELLED"
        PROVE  ~Payable(p)'
    BY <1>1, <1>2, <2>1 DEF IndInv, PaidThroughOneAttempt, AttemptsOf, Payable, PendingAttempts
  <2> QED BY <1>1, <1>3, <2>1 DEF IndInv, PaidThroughOneAttempt
<1>7. CASE orders[o].paymentStatus = "paid"
  <2>1. Inserts(o, Null)
    BY <1>7, RequestInserts DEF CancelLocked
  <2>2. /\ RefundsOfPayments' /\ RefundReferences' /\ UnusedRows'
        /\ RefundsOf(o)' # {}
        /\ \A p \in Orders : RefundsOf(p) \subseteq RefundsOf(p)'
    BY <1>1, <1>3, <1>7, <2>1, InsertKeepsRefunds DEF IndInv, UnusedRows
  <2>3. CancelledPaidHasRefund'
    BY <1>1, <2>2 DEF IndInv, CancelledPaidHasRefund
  <2>4. PICK r \in RefundId : /\ refunds[r].status = "NONE"
                              /\ refunds'[r].return = Null
                              /\ \A s \in RefundId \ {r} : refunds'[s] = refunds[s]
    BY <2>1, InsertEffects DEF IndInv
  <2>5. refunds[r].return = Null
    BY <2>4 DEF IndInv, UnusedRows, NoRefundRow
  <2>6. \A k \in ReturnId : /\ RefundsFor(k, "REQUESTED")' = RefundsFor(k, "REQUESTED")
                            /\ RefundsFor(k, "COMPLETED")' = RefundsFor(k, "COMPLETED")
    BY <2>4, <2>5 DEF RefundsFor, Null, ReturnId
  <2>7. ReturnFollowsRefund'
    BY <1>1, <2>4, <2>6 DEF IndInv, ReturnFollowsRefund, UnusedRows
  <2> QED BY <1>4, <1>5, <1>6, <2>2, <2>3, <2>7, SamePaymentsKeep DEF IndInv
<1>8. CASE orders[o].paymentStatus # "paid"
  <2>1. UNCHANGED refunds
    BY <1>8 DEF CancelLocked
  <2>2. orders[o].paymentStatus \in {"unpaid", "refunded"}
    BY <1>8 DEF IndInv, TypeOK, Order, PaymentStatuses
  <2>3. RefundsOfPayments' /\ RefundReferences' /\ UnusedRows'
    BY <1>1, <1>3, <2>1 DEF IndInv, RefundsOfPayments, RefundReferences, UnusedRows,
                             RefundsOf, Requested
  <2>4. CancelledPaidHasRefund'
    BY <1>1, <2>1, <2>2 DEF IndInv, CancelledPaidHasRefund, RefundsOf
  <2>5. ReturnFollowsRefund'
    BY <1>1, <2>1 DEF IndInv, ReturnFollowsRefund, RefundsFor, UnusedRows
  <2> QED BY <1>4, <1>5, <1>6, <2>3, <2>4, <2>5, SamePaymentsKeep DEF IndInv
<1> QED BY <1>7, <1>8

\* ORDER_TRANSITIONS: nothing leaves cancelled, a delivered order is not cancelled
\* and stays one that pieces can be sent back from.
LEMMA TransitionFacts ==
  ASSUME NEW from \in OrderStatuses, NEW to \in Transitions[from]
  PROVE  /\ from # "cancelled"
         /\ to = "cancelled" => from \notin Returnable
         /\ from \in Returnable => to \in Returnable
BY DEF OrderStatuses, Transitions, Returnable

\* Cancelling an order and moving it on keep the invariant.
LEMMA StatusKeepsInv ==
  ASSUME IndInv, TypeOK', NEW o \in Orders,
         CancelOrder(o) \/ \E status \in OrderStatuses : UpdateStatus(o, status)
  PROVE  IndInv'
<1>1. orders[o].status \in OrderStatuses
  BY DEF IndInv, TypeOK, Order
<1>2. CASE CancelOrder(o)
  BY <1>2, CancelKeepsInv DEF CancelOrder, Returnable
<1>3. ASSUME NEW status \in OrderStatuses, UpdateStatus(o, status) PROVE IndInv'
  <2>1. /\ orders[o].status # "cancelled"
        /\ status = "cancelled" => orders[o].status \notin Returnable
        /\ orders[o].status \in Returnable => status \in Returnable
    BY <1>1, <1>3, TransitionFacts DEF UpdateStatus
  <2>2. CASE status = "cancelled"
    BY <1>3, <2>1, <2>2, CancelKeepsInv DEF UpdateStatus
  <2>3. CASE status # "cancelled"
    <3>1. /\ orders'[o].status = status
          /\ orders'[o].paymentStatus = orders[o].paymentStatus
          /\ \A p \in Orders \ {o} : orders'[p] = orders[p]
          /\ UNCHANGED <<attempts, transactions, refunds, returns>>
      BY <1>3, <2>3 DEF UpdateStatus, IndInv, TypeOK, Order
    <3>2. SamePayments
      BY <3>1 DEF SamePayments, PaidAttempts, AttemptsOf
    <3>3. PendingOnlyWhilePayable' /\ PaidThroughOneAttempt'
      BY <2>1, <2>3, <3>1 DEF IndInv, PendingOnlyWhilePayable, PendingAttempts,
        PaidThroughOneAttempt, PaidAttempts, AttemptsOf, Payable
    <3>4. RefundsOfPayments' /\ RefundReferences' /\ UnusedRows'
      BY <3>1 DEF IndInv, RefundsOfPayments, RefundReferences, UnusedRows, RefundsOf,
                  Requested, PaidAttempts, AttemptsOf
    <3>5. CancelledPaidHasRefund'
      BY <2>3, <3>1 DEF IndInv, CancelledPaidHasRefund, RefundsOf
    <3>6. ReturnFollowsRefund'
      BY <2>1, <3>1 DEF IndInv, ReturnFollowsRefund, RefundsFor, UnusedRows
    <3> QED BY <3>2, <3>3, <3>4, <3>5, <3>6, SamePaymentsKeep DEF IndInv
  <2> QED BY <2>2, <2>3
<1> QED BY <1>2, <1>3

-----------------------------------------------------------------------------

\* Refund r is no longer requested: it was completed or rejected, and the order it
\* belongs to may count as refunded.
RefundLeaves(r, status) ==
  /\ refunds[r].status = "REQUESTED"
  /\ refunds'[r].status = status
  /\ refunds'[r].order = refunds[r].order
  /\ refunds'[r].attempt = refunds[r].attempt
  /\ refunds'[r].return = refunds[r].return
  /\ \A s \in RefundId \ {r} : refunds'[s] = refunds[s]
  /\ UNCHANGED <<attempts, transactions>>
  /\ \A p \in Orders : orders'[p].status = orders[p].status
  /\ \A p \in Orders \ {refunds[r].order} : orders'[p] = orders[p]
  /\ orders'[refunds[r].order].paymentStatus \in
       {"refunded", orders[refunds[r].order].paymentStatus}

\* completeAdmin is such a step.
LEMMA CompleteLeaves ==
  ASSUME IndInv, NEW r \in RefundId, NEW reference \in BankRefs, CompleteRefund(r, reference)
  PROVE  /\ RefundLeaves(r, "COMPLETED")
         /\ refunds'[r].reference = reference
         /\ \A s \in RefundId : refunds[s].reference # reference
         /\ returns' = MarkReturnRefunded(refunds[r].return)
<1>1. TypeOK
  BY DEF IndInv
<1>2. orders' \in {orders, [orders EXCEPT ![refunds[r].order].paymentStatus = "refunded"]}
  BY DEF CompleteRefund
<1>3. refunds[r].order \in Orders
  BY DEF CompleteRefund, IndInv, UnusedRows
<1>4. /\ \A p \in Orders : orders'[p].status = orders[p].status
      /\ \A p \in Orders \ {refunds[r].order} : orders'[p] = orders[p]
      /\ orders'[refunds[r].order].paymentStatus \in
           {"refunded", orders[refunds[r].order].paymentStatus}
  BY <1>1, <1>2, <1>3 DEF TypeOK, Order
<1>5. refunds' = [refunds EXCEPT ![r] =
                    [@ EXCEPT !.status = "COMPLETED", !.reference = reference]]
  BY DEF CompleteRefund
<1>6. /\ refunds'[r].status = "COMPLETED"
      /\ refunds'[r].reference = reference
      /\ refunds'[r].order = refunds[r].order
      /\ refunds'[r].attempt = refunds[r].attempt
      /\ refunds'[r].return = refunds[r].return
      /\ \A s \in RefundId \ {r} : refunds'[s] = refunds[s]
  BY <1>1, <1>5 DEF TypeOK, Refund
<1> QED BY <1>4, <1>6 DEF CompleteRefund, RefundLeaves

\* rejectAdmin is such a step.
LEMMA RejectLeaves ==
  ASSUME IndInv, NEW r \in RefundId, RejectRefund(r)
  PROVE  /\ RefundLeaves(r, "REJECTED")
         /\ refunds'[r].reference = refunds[r].reference
         /\ returns' = ReopenReturn(refunds[r].return)
BY DEF RejectRefund, RefundLeaves, IndInv, TypeOK, Refund

\* When a refund was completed or rejected the order has no other request, and
\* what is known of payments and refunds is kept.
LEMMA LeavesKeepRefunds ==
  ASSUME IndInv, NEW r \in RefundId, NEW status \in {"COMPLETED", "REJECTED"},
         RefundLeaves(r, status)
  PROVE  /\ PendingOnlyWhilePayable'
         /\ PaidThroughOneAttempt'
         /\ OneTransactionPerPayment'
         /\ RefundsOfPayments'
         /\ CancelledPaidHasRefund'
         /\ \A s \in RefundId : IF refunds'[s].status = "NONE" THEN refunds'[s] = NoRefundRow
                                 ELSE refunds'[s].order \in Orders
<1> DEFINE o == refunds[r].order
<1>1. o \in Orders
  BY DEF RefundLeaves, IndInv, UnusedRows
<1>2. orders[o].paymentStatus = "paid" /\ \A s \in Requested(o) : s = r
  BY <1>1 DEF RefundLeaves, IndInv, RefundsOfPayments, RefundsOf, Requested
<1>3. \A p \in Orders : /\ PaidAttempts(p)' = PaidAttempts(p)
                        /\ AttemptsOf(p)' = AttemptsOf(p)
                        /\ PendingAttempts(p)' = PendingAttempts(p)
  BY DEF RefundLeaves, PaidAttempts, AttemptsOf, PendingAttempts
<1>4. \A p \in Orders : (orders'[p].paymentStatus = "unpaid" <=> orders[p].paymentStatus = "unpaid")
  BY <1>1, <1>2 DEF RefundLeaves
<1>5. PendingOnlyWhilePayable' /\ PaidThroughOneAttempt'
  BY <1>3, <1>4 DEF RefundLeaves, IndInv, PendingOnlyWhilePayable, PaidThroughOneAttempt, Payable
<1>6. OneTransactionPerPayment'
  <2>1. SamePayments
    BY <1>3, <1>4 DEF RefundLeaves, SamePayments
  <2> QED BY <2>1, SamePaymentsKeep
<1>7. RefundsOfPayments'
  <2>1. \A p \in Orders : RefundsOf(p)' = RefundsOf(p)
    BY DEF RefundLeaves, RefundsOf
  <2>2. Requested(o)' = {}
    BY <1>2, <2>1 DEF RefundLeaves, Requested, RefundsOf
  <2>3. \A p \in Orders \ {o} : Requested(p)' = Requested(p)
    BY DEF RefundLeaves, Requested, RefundsOf
  <2>4. ASSUME NEW p \in Orders, NEW s \in RefundsOf(p)
        PROVE  refunds'[s].attempt \in PaidAttempts(p)
    BY <2>4 DEF RefundLeaves, IndInv, RefundsOfPayments, RefundsOf
  <2>5. ASSUME NEW p \in Orders, NEW s \in RefundsOf(p), refunds'[s].status = "REQUESTED"
        PROVE  p # o /\ s \in Requested(p)
    <3>1. s # r /\ refunds[s] = refunds'[s]
      BY <2>5 DEF RefundLeaves, RefundsOf
    <3> QED BY <1>2, <2>5, <3>1 DEF Requested
  <2>6. ASSUME NEW p \in Orders \ {o}, NEW s \in Requested(p)
        PROVE  orders'[p].paymentStatus = "paid" /\ \A t \in Requested(p) : t = s
    BY <2>6 DEF RefundLeaves, IndInv, RefundsOfPayments, Requested
  <2> QED BY <1>3, <2>1, <2>3, <2>4, <2>5, <2>6 DEF RefundsOfPayments
<1>8. CancelledPaidHasRefund'
  BY <1>1 DEF RefundLeaves, IndInv, CancelledPaidHasRefund, RefundsOf
<1>9. \A s \in RefundId : IF refunds'[s].status = "NONE" THEN refunds'[s] = NoRefundRow
                          ELSE refunds'[s].order \in Orders
  BY <1>1 DEF RefundLeaves, IndInv, UnusedRows
<1> QED BY <1>5, <1>6, <1>7, <1>8, <1>9

\* The refund that leaves is the only request for its return.
LEMMA LeavesReturn ==
  ASSUME IndInv, NEW r \in RefundId, NEW status \in {"COMPLETED", "REJECTED"},
         RefundLeaves(r, status), NEW k \in ReturnId
  PROVE  IF k = refunds[r].return
         THEN /\ returns[k].status = "RECEIVED"
              /\ RefundsFor(k, "COMPLETED") = {}
              /\ RefundsFor(k, "REQUESTED")' = {}
              /\ RefundsFor(k, "COMPLETED")' = IF status = "COMPLETED" THEN {r} ELSE {}
         ELSE /\ RefundsFor(k, "REQUESTED")' = RefundsFor(k, "REQUESTED")
              /\ RefundsFor(k, "COMPLETED")' = RefundsFor(k, "COMPLETED")
<1>1. CASE k = refunds[r].return
  <2>1. r \in RefundsFor(k, "REQUESTED")
    BY <1>1 DEF RefundLeaves, RefundsFor
  <2>2. returns[k].status = "RECEIVED" /\ RefundsFor(k, "COMPLETED") = {}
    BY <2>1 DEF IndInv, ReturnFollowsRefund
  <2>3. refunds[r].order \in Orders
    BY DEF RefundLeaves, IndInv, UnusedRows
  <2>4. \A s \in RefundsFor(k, "REQUESTED") : refunds[s].order = refunds[r].order
    <3>1. k # Null
      BY DEF ReturnId, Null
    <3>2. ASSUME NEW s \in RefundId, refunds[s].return = k
          PROVE  returns[k].order = refunds[s].order
      BY <3>1, <3>2 DEF IndInv, ReturnFollowsRefund
    <3> QED BY <1>1, <3>2 DEF RefundsFor
  <2>5. \A s \in RefundsFor(k, "REQUESTED") : s = r
    BY <2>1, <2>3, <2>4 DEF IndInv, RefundsOfPayments, RefundsFor, RefundsOf, Requested
  <2>6. RefundsFor(k, "REQUESTED")' = {}
    BY <2>5 DEF RefundLeaves, RefundsFor
  <2>7. RefundsFor(k, "COMPLETED")' = IF status = "COMPLETED" THEN {r} ELSE {}
    BY <1>1, <2>2 DEF RefundLeaves, RefundsFor
  <2> QED BY <1>1, <2>2, <2>6, <2>7
<1>2. CASE k # refunds[r].return
  BY <1>2 DEF RefundLeaves, RefundsFor
<1> QED BY <1>1, <1>2

\* Because the return request moves in the same step, it still follows its refund.
LEMMA LeavesKeepReturns ==
  ASSUME IndInv, NEW r \in RefundId, NEW status \in {"COMPLETED", "REJECTED"},
         RefundLeaves(r, status),
         \A k \in ReturnId :
           /\ returns'[k].order = returns[k].order
           /\ returns'[k].status =
                IF k # refunds[r].return THEN returns[k].status
                ELSE IF status = "COMPLETED" THEN "REFUNDED" ELSE "APPROVED"
  PROVE  UnusedRows' /\ ReturnFollowsRefund'
<1>1. ASSUME NEW k \in ReturnId
      PROVE  /\ returns'[k].status = "RECEIVED" <=> RefundsFor(k, "REQUESTED")' # {}
             /\ returns'[k].status = "REFUNDED" <=> RefundsFor(k, "COMPLETED")' # {}
             /\ \A s, t \in RefundsFor(k, "COMPLETED")' : s = t
             /\ returns'[k].status # "NONE" <=> returns[k].status # "NONE"
  BY LeavesReturn DEF IndInv, ReturnFollowsRefund
<1>2. ASSUME NEW k \in ReturnId, returns'[k].status # "NONE"
      PROVE  /\ orders'[returns'[k].order].status \in Returnable
             /\ orders'[returns'[k].order].paymentStatus # "unpaid"
  <2>1. /\ returns[k].order \in Orders
        /\ orders[returns[k].order].status \in Returnable
        /\ orders[returns[k].order].paymentStatus # "unpaid"
    BY <1>1, <1>2 DEF IndInv, ReturnFollowsRefund, UnusedRows
  <2> QED BY <2>1 DEF RefundLeaves
<1>3. ASSUME NEW s \in RefundId, refunds'[s].return # Null
      PROVE  /\ returns'[refunds'[s].return].status # "NONE"
             /\ returns'[refunds'[s].return].order = refunds'[s].order
  <2>1. refunds'[s].return = refunds[s].return /\ refunds'[s].order = refunds[s].order
    BY DEF RefundLeaves
  <2>2. refunds[s].return \in ReturnId
    BY <1>3, <2>1 DEF IndInv, TypeOK, Refund
  <2> QED BY <1>1, <1>3, <2>1, <2>2 DEF IndInv, ReturnFollowsRefund
<1>4. UnusedRows'
  BY <1>1, LeavesKeepRefunds DEF IndInv, UnusedRows
<1> QED BY <1>1, <1>2, <1>3, <1>4 DEF ReturnFollowsRefund

\* Completing a refund keeps the invariant.
LEMMA CompleteKeepsInv ==
  ASSUME IndInv, TypeOK', NEW r \in RefundId, NEW reference \in BankRefs,
         CompleteRefund(r, reference)
  PROVE  IndInv'
<1> USE CompleteLeaves
<1>1. RefundReferences'
  BY ConstantsAssumption DEF RefundLeaves, IndInv, RefundReferences
<1>2. \A k \in ReturnId :
        /\ returns'[k].order = returns[k].order
        /\ returns'[k].status = IF k = refunds[r].return THEN "REFUNDED" ELSE returns[k].status
  BY LeavesReturn DEF MarkReturnRefunded, IndInv, TypeOK, ReturnRequest
<1>3. UnusedRows' /\ ReturnFollowsRefund'
  BY <1>2, LeavesKeepReturns
<1> QED BY <1>1, <1>3, LeavesKeepRefunds DEF IndInv

\* Rejecting a refund, which reopens its return request, keeps the invariant.
LEMMA RejectKeepsInv ==
  ASSUME IndInv, TypeOK', NEW r \in RefundId, RejectRefund(r)
  PROVE  IndInv'
<1> USE RejectLeaves
<1>1. RefundReferences'
  BY DEF RefundLeaves, IndInv, RefundReferences
<1>2. ASSUME NEW k \in ReturnId
      PROVE  /\ returns'[k].order = returns[k].order
             /\ returns'[k].status =
                  IF k = refunds[r].return THEN "APPROVED" ELSE returns[k].status
  <2>1. returns[k] \in ReturnRequest
    BY DEF IndInv, TypeOK
  <2>2. k = refunds[r].return => returns[k].status = "RECEIVED"
    BY LeavesReturn
  <2>3. returns'[k] = IF k # refunds[r].return THEN returns[k]
                      ELSE [returns[k] EXCEPT !.status = "APPROVED", !.accepted = NoPieces,
                                              !.shippingRefunded = FALSE]
    BY <2>2 DEF ReopenReturn
  <2> QED BY <2>1, <2>3 DEF ReturnRequest
<1>3. UnusedRows' /\ ReturnFollowsRefund'
  BY <1>2, LeavesKeepReturns
<1> QED BY <1>1, <1>3, LeavesKeepRefunds DEF IndInv
-----------------------------------------------------------------------------
\* A handler that touches only the return requests.
OnlyReturns == UNCHANGED <<orders, attempts, transactions, refunds>>

\* Such a handler cannot disturb payments and refunds.
LEMMA OnlyReturnsKeep ==
  ASSUME IndInv, TypeOK', OnlyReturns, UnusedRows', ReturnFollowsRefund'
  PROVE  IndInv'
<1>1. PendingOnlyWhilePayable' /\ PaidThroughOneAttempt'
  BY DEF OnlyReturns, IndInv, PendingOnlyWhilePayable, PendingAttempts, PaidThroughOneAttempt,
         PaidAttempts, AttemptsOf, Payable
<1>2. OneTransactionPerPayment'
  BY DEF OnlyReturns, IndInv, OneTransactionPerPayment, SettlingKeys, PaidAttempts, AttemptsOf
<1>3. RefundsOfPayments' /\ RefundReferences' /\ CancelledPaidHasRefund'
  BY DEF OnlyReturns, IndInv, RefundsOfPayments, RefundReferences, CancelledPaidHasRefund,
         RefundsOf, Requested, PaidAttempts, AttemptsOf
<1> QED BY <1>1, <1>2, <1>3 DEF IndInv

\* A new return request keeps the invariant: no refund refers to it yet.
LEMMA CreateReturnKeepsInv ==
  ASSUME IndInv, TypeOK', NEW o \in Orders, NEW quantity, CreateReturn(o, quantity)
  PROVE  IndInv'
<1>1. PICK k \in ReturnId :
        /\ returns[k].status = "NONE"
        /\ returns'[k].order = o
        /\ returns'[k].status = "REQUESTED"
        /\ \A j \in ReturnId \ {k} : returns'[j] = returns[j]
  BY DEF CreateReturn, IsNextReturn, IndInv, TypeOK
<1>2. OnlyReturns /\ orders[o].status \in Returnable /\ orders[o].paymentStatus # "unpaid"
  BY DEF CreateReturn, OnlyReturns
<1>3. \A j \in ReturnId : /\ RefundsFor(j, "REQUESTED")' = RefundsFor(j, "REQUESTED")
                          /\ RefundsFor(j, "COMPLETED")' = RefundsFor(j, "COMPLETED")
  BY <1>2 DEF OnlyReturns, RefundsFor
<1>4. \A r \in RefundId : refunds[r].return # k
  BY <1>1 DEF IndInv, ReturnFollowsRefund, ReturnId, Null
<1>5. RefundsFor(k, "REQUESTED") = {} /\ RefundsFor(k, "COMPLETED") = {}
  BY <1>4 DEF RefundsFor
<1>6. UnusedRows'
  BY <1>1, <1>2 DEF OnlyReturns, IndInv, UnusedRows
<1>7. ReturnFollowsRefund'
  <2>1. ASSUME NEW j \in ReturnId
        PROVE  /\ returns'[j].status = "RECEIVED" <=> RefundsFor(j, "REQUESTED")' # {}
               /\ returns'[j].status = "REFUNDED" <=> RefundsFor(j, "COMPLETED")' # {}
               /\ \A r, s \in RefundsFor(j, "COMPLETED")' : r = s
               /\ returns'[j].status # "NONE" =>
                    /\ orders[returns'[j].order].status \in Returnable
                    /\ orders[returns'[j].order].paymentStatus # "unpaid"
    BY <1>1, <1>2, <1>3, <1>5 DEF IndInv, ReturnFollowsRefund
  <2>2. ASSUME NEW r \in RefundId, refunds[r].return # Null
        PROVE  /\ returns'[refunds[r].return].status # "NONE"
               /\ returns'[refunds[r].return].order = refunds[r].order
    <3>1. refunds[r].return \in ReturnId \ {k}
      BY <1>4, <2>2 DEF IndInv, TypeOK, Refund
    <3> QED BY <1>1, <2>2, <3>1 DEF IndInv, ReturnFollowsRefund
  <2> QED BY <1>2, <2>1, <2>2 DEF OnlyReturns, ReturnFollowsRefund
<1> QED BY <1>2, <1>6, <1>7, OnlyReturnsKeep

\* Cancelling, approving and rejecting keep the invariant: no refund waits for a
\* request whose parcel is not here.
LEMMA MoveReturnKeepsInv ==
  ASSUME IndInv, TypeOK', NEW k \in ReturnId, NEW from, NEW to, MoveReturn(k, from, to),
         from \subseteq {"REQUESTED", "APPROVED"}, to \in {"APPROVED", "REJECTED", "CANCELLED"}
  PROVE  IndInv'
<1>1. /\ returns[k].status \in {"REQUESTED", "APPROVED"}
      /\ returns'[k].status \in {"APPROVED", "REJECTED", "CANCELLED"}
      /\ \A j \in ReturnId : returns'[j].order = returns[j].order
      /\ \A j \in ReturnId \ {k} : returns'[j] = returns[j]
      /\ OnlyReturns
  BY DEF MoveReturn, OnlyReturns, IndInv, TypeOK, ReturnRequest
<1>2. UnusedRows'
  BY <1>1 DEF OnlyReturns, IndInv, UnusedRows
<1>3. ReturnFollowsRefund'
  <2>1. \A j \in ReturnId : /\ RefundsFor(j, "REQUESTED")' = RefundsFor(j, "REQUESTED")
                            /\ RefundsFor(j, "COMPLETED")' = RefundsFor(j, "COMPLETED")
    BY <1>1 DEF OnlyReturns, RefundsFor
  <2>2. ASSUME NEW j \in ReturnId
        PROVE  /\ returns'[j].status = "RECEIVED" <=> RefundsFor(j, "REQUESTED")' # {}
               /\ returns'[j].status = "REFUNDED" <=> RefundsFor(j, "COMPLETED")' # {}
               /\ \A r, s \in RefundsFor(j, "COMPLETED")' : r = s
               /\ returns'[j].status # "NONE" <=> returns[j].status # "NONE"
    BY <1>1, <2>1 DEF IndInv, ReturnFollowsRefund
  <2>3. ASSUME NEW r \in RefundId, refunds[r].return # Null
        PROVE  /\ returns'[refunds[r].return].status # "NONE"
               /\ returns'[refunds[r].return].order = refunds[r].order
    <3>1. refunds[r].return \in ReturnId
      BY <2>3 DEF IndInv, TypeOK, Refund
    <3> QED BY <1>1, <2>2, <2>3, <3>1 DEF IndInv, ReturnFollowsRefund
  <2> QED BY <1>1, <2>2, <2>3 DEF OnlyReturns, IndInv, ReturnFollowsRefund
<1> QED BY <1>1, <1>2, <1>3, OnlyReturnsKeep

\* Receiving a parcel keeps the invariant: the refund is requested in the same step.
LEMMA ReceiveReturnKeepsInv ==
  ASSUME IndInv, TypeOK', NEW k \in ReturnId, NEW accepted, NEW refundShipping,
         ReceiveReturn(k, accepted, refundShipping)
  PROVE  IndInv'
<1> DEFINE o == returns[k].order
<1>1. /\ returns[k].status = "APPROVED"
      /\ orders[o].paymentStatus = "paid"
      /\ Inserts(o, k)
      /\ UNCHANGED <<orders, attempts, transactions>>
  BY RequestInserts DEF ReceiveReturn
<1>2. o \in Orders
  BY <1>1 DEF IndInv, UnusedRows
<1>3. /\ returns'[k].status = "RECEIVED"
      /\ \A j \in ReturnId : returns'[j].order = returns[j].order
      /\ \A j \in ReturnId \ {k} : returns'[j] = returns[j]
  BY DEF ReceiveReturn, IndInv, TypeOK, ReturnRequest
<1>4. SamePayments
  BY <1>1 DEF SamePayments, PaidAttempts, AttemptsOf
<1>5. /\ RefundsOfPayments' /\ RefundReferences' /\ UnusedRows'
      /\ \A p \in Orders : RefundsOf(p) \subseteq RefundsOf(p)'
  BY <1>1, <1>2, <1>3, <1>4, InsertKeepsRefunds DEF SamePayments, IndInv, UnusedRows
<1>6. PendingOnlyWhilePayable' /\ PaidThroughOneAttempt' /\ CancelledPaidHasRefund'
  BY <1>1, <1>5 DEF IndInv, PendingOnlyWhilePayable, PendingAttempts, PaidThroughOneAttempt,
         PaidAttempts, AttemptsOf, Payable, CancelledPaidHasRefund
<1>7. PICK r \in RefundId : /\ refunds[r].status = "NONE"
                            /\ refunds'[r].order = o
                            /\ refunds'[r].status = "REQUESTED"
                            /\ refunds'[r].return = k
                            /\ \A s \in RefundId \ {r} : refunds'[s] = refunds[s]
  BY <1>1, <1>2, InsertEffects DEF IndInv
<1>8. refunds[r].return = Null /\ k # Null
  BY <1>7 DEF IndInv, UnusedRows, NoRefundRow, ReturnId, Null
<1>9. ReturnFollowsRefund'
  <2>1. /\ RefundsFor(k, "REQUESTED")' # {}
        /\ RefundsFor(k, "COMPLETED")' = RefundsFor(k, "COMPLETED")
    BY <1>7 DEF RefundsFor
  <2>2. \A j \in ReturnId \ {k} :
          /\ RefundsFor(j, "REQUESTED")' = RefundsFor(j, "REQUESTED")
          /\ RefundsFor(j, "COMPLETED")' = RefundsFor(j, "COMPLETED")
    BY <1>7, <1>8 DEF RefundsFor, ReturnId, Null
  <2>3. ASSUME NEW j \in ReturnId
        PROVE  /\ returns'[j].status = "RECEIVED" <=> RefundsFor(j, "REQUESTED")' # {}
               /\ returns'[j].status = "REFUNDED" <=> RefundsFor(j, "COMPLETED")' # {}
               /\ \A s, t \in RefundsFor(j, "COMPLETED")' : s = t
               /\ returns'[j].status # "NONE" <=> returns[j].status # "NONE"
    BY <1>1, <1>3, <2>1, <2>2 DEF IndInv, ReturnFollowsRefund
  <2>4. ASSUME NEW s \in RefundId, refunds'[s].return # Null
        PROVE  /\ returns'[refunds'[s].return].status # "NONE"
               /\ returns'[refunds'[s].return].order = refunds'[s].order
    <3>1. CASE s = r
      BY <1>3, <1>7, <3>1
    <3>2. CASE s # r
      <4>1. refunds'[s] = refunds[s] /\ refunds[s].return \in ReturnId
        BY <1>7, <2>4, <3>2 DEF IndInv, TypeOK, Refund
      <4> QED BY <1>3, <2>3, <2>4, <4>1 DEF IndInv, ReturnFollowsRefund
    <3> QED BY <3>1, <3>2
  <2> QED BY <1>1, <1>3, <2>3, <2>4 DEF IndInv, ReturnFollowsRefund
<1> QED BY <1>4, <1>5, <1>6, <1>9, SamePaymentsKeep DEF IndInv

-----------------------------------------------------------------------------

\* Every handler keeps the invariant.
LEMMA NextInv == IndInv /\ [Next]_vars => IndInv'
<1> SUFFICES ASSUME IndInv, [Next]_vars PROVE IndInv'
  OBVIOUS
<1>1. TypeOK'
  BY TypeNext DEF IndInv
<1>2. ASSUME PaymentNext PROVE IndInv'
  <2>1. ASSUME \/ \E a \in AttemptId : PassExpiry(a)
               \/ \E o \in Orders : CreateQr(o) \/ CreateQrAdmin(o)
               \/ ChangeAccount \/ ExpireOverdueAttempts
        PROVE  IndInv'
    BY <1>1, <2>1, SessionActions, SessionKeepsInv
  <2>2. ASSUME NEW o \in Orders, NEW key \in Keys, NEW a \in AttemptId,
               NEW acceptMismatch \in BOOLEAN,
               \/ ConfirmRecorded(o, key, a, acceptMismatch)
               \/ \E amount \in Amounts : ConfirmEntered(o, key, a, amount, acceptMismatch)
        PROVE  IndInv'
    BY <1>1, <2>2, ConfirmSteps, PaymentKeepsInv
  <2> QED BY <1>1, <1>2, <2>1, <2>2, WebhookKeepsInv DEF PaymentNext
<1>3. ASSUME RefundNext PROVE IndInv'
  BY <1>1, <1>3, CreateRefundAdminKeepsInv, CompleteKeepsInv, RejectKeepsInv DEF RefundNext
<1>4. ASSUME ReturnNext PROVE IndInv'
  <2>1. ASSUME NEW k \in ReturnId, CancelReturn(k) \/ ApproveReturn(k) \/ RejectReturn(k)
        PROVE  IndInv'
    <3>1. PICK from \in SUBSET {"REQUESTED", "APPROVED"},
               to \in {"APPROVED", "REJECTED", "CANCELLED"} : MoveReturn(k, from, to)
      BY <2>1 DEF CancelReturn, ApproveReturn, RejectReturn, CustomerCancellable, Rejectable
    <3> QED BY <1>1, <3>1, MoveReturnKeepsInv
  <2> QED BY <1>1, <1>4, <2>1, CreateReturnKeepsInv, ReceiveReturnKeepsInv DEF ReturnNext
<1>5. ASSUME StatusNext PROVE IndInv'
  BY <1>1, <1>5, StatusKeepsInv DEF StatusNext
<1>6. ASSUME UNCHANGED vars PROVE IndInv'
  <2>1. SessionStep
    BY <1>6 DEF vars, SessionStep
  <2> QED BY <1>1, <2>1, SessionKeepsInv
<1> QED BY <1>2, <1>3, <1>4, <1>5, <1>6 DEF Next

\* The invariant holds for any number of orders, sessions, transfers, refunds and
\* returns, whatever the handlers do and in whatever order.
THEOREM Invariance == Spec => []IndInv
BY InitInv, NextInv, PTL DEF Spec
=============================================================================
