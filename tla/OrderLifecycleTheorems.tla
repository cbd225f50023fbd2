----------------------- MODULE OrderLifecycleTheorems -----------------------
(***************************************************************************)
(* What follows from the inductive invariant: the properties of the        *)
(* tables, and that no step undoes what was booked.                        *)
(***************************************************************************)
EXTENDS OrderMoneyProofs, ShopViews

\* Whatever the webhook, the confirmation by hand and the cancellation do, an
\* order is paid through at most one session ...
THEOREM OneSessionPays == Spec => []PaidThroughOneAttempt
BY Invariance, PTL DEF IndInv

\* ... and by exactly one transaction.
THEOREM OnePaymentPerOrder == Spec => []OneTransactionPerPayment
BY Invariance, PTL DEF IndInv

\* A session counts only while its order can be paid, and no order has two, for
\* any number of customers and administrators asking for sessions.
THEOREM OneOpenSession == Spec => []PendingOnlyWhilePayable
BY Invariance, PTL DEF IndInv

\* Refunds are of the one payment of their order, and one at a time waits.
THEOREM RefundsAreOfPayments == Spec => []RefundsOfPayments
BY Invariance, PTL DEF IndInv

\* A reference of the bank stands for one completed refund, for any number of
\* administrators who complete refunds.
THEOREM ReferencesCountOnce == Spec => []RefundReferences
BY Invariance, PTL DEF IndInv

\* No paid order is cancelled, by the customer or by the shop, without a refund on
\* record.
THEOREM CancelledMoneyIsOnRecord == Spec => []CancelledPaidHasRefund
BY Invariance, PTL DEF IndInv

\* A return request and the refunds requested for it never disagree, although
\* four handlers of two modules move them.
THEOREM ReturnsFollowRefunds == Spec => []ReturnFollowsRefund
BY Invariance, PTL DEF IndInv

-----------------------------------------------------------------------------

\* Settling a payment changes no payment that was settled before.
LEMMA PaymentBooked ==
  ASSUME IndInv, NEW o \in Orders, NEW a \in AttemptId, NEW key \in Keys,
         PaymentStep(o, a, key)
  PROVE  StaysBooked
<1> USE PaymentEffects
<1>1. Payable(o) /\ a \in AttemptsOf(o)
  BY DEF PaymentStep
<1>2. attempts[a].status # "PAID"
  BY <1>1 DEF IndInv, PaidThroughOneAttempt, Payable, PaidAttempts
<1>3. \A p \in Orders : \/ orders'[p] = orders[p]
                        \/ /\ orders[p].paymentStatus = "unpaid"
                           /\ orders[p].status # "cancelled"
  BY <1>1 DEF Payable
<1>4. \A b \in AttemptId : attempts[b].status = "PAID" => attempts'[b] = attempts[b]
  BY <1>2 DEF PendingAttempts
<1> QED BY <1>3, <1>4 DEF StaysBooked

\* Recording a transfer for review changes no payment.
LEMMA NoteBooked ==
  ASSUME IndInv, NEW key \in Keys, NoteStep(key) PROVE StaysBooked
BY DEF NoteStep, StaysBooked

\* Handlers that only deal in sessions change no payment.
LEMMA SessionBooked == ASSUME SessionStep PROVE StaysBooked
BY DEF SessionStep, StaysBooked

\* An INSERT into refunds leaves the finished refunds alone.
LEMMA InsertBooked ==
  ASSUME IndInv, NEW o \in Orders, NEW k \in {Null} \cup ReturnId, Inserts(o, k)
  PROVE  \A r \in RefundId : refunds[r].status \in {"COMPLETED", "REJECTED"} =>
                               refunds'[r] = refunds[r]
BY InsertEffects DEF IndInv

\* cancelLocked leaves what was booked alone.
LEMMA CancelBooked ==
  ASSUME IndInv, NEW o \in Orders, CancelLocked(o) PROVE StaysBooked
<1>1. /\ orders'[o].status = "cancelled"
      /\ orders'[o].paymentStatus = orders[o].paymentStatus
      /\ \A p \in Orders \ {o} : orders'[p] = orders[p]
      /\ UNCHANGED transactions
  BY DEF CancelLocked, IndInv, TypeOK, Order
<1>2. \A a \in AttemptId : attempts[a].status = "PAID" => attempts'[a] = attempts[a]
  BY DEF CancelLocked, WithPendingCancelled, PendingAttempts
<1>3. \A r \in RefundId : refunds[r].status \in {"COMPLETED", "REJECTED"} =>
                            refunds'[r] = refunds[r]
  BY RequestInserts, InsertBooked DEF CancelLocked
<1> QED BY <1>1, <1>2, <1>3 DEF StaysBooked

\* cancel and updateStatus leave what was booked alone.
LEMMA StatusBooked ==
  ASSUME IndInv, NEW o \in Orders,
         CancelOrder(o) \/ \E status \in OrderStatuses : UpdateStatus(o, status)
  PROVE  StaysBooked
<1>1. CASE CancelOrder(o)
  BY <1>1, CancelBooked DEF CancelOrder
<1>2. ASSUME NEW status \in OrderStatuses, UpdateStatus(o, status) PROVE StaysBooked
  <2>1. CASE status = "cancelled"
    BY <1>2, <2>1, CancelBooked DEF UpdateStatus
  <2>2. CASE status # "cancelled"
    <3>1. orders[o].status \in OrderStatuses
      BY DEF IndInv, TypeOK, Order
    <3>2. orders[o].status # "cancelled"
      BY <1>2, <3>1, TransitionFacts DEF UpdateStatus
    <3>3. /\ orders'[o].paymentStatus = orders[o].paymentStatus
          /\ \A p \in Orders \ {o} : orders'[p] = orders[p]
          /\ UNCHANGED <<attempts, transactions, refunds>>
      BY <1>2, <2>2 DEF UpdateStatus, IndInv, TypeOK, Order
    <3> QED BY <3>2, <3>3 DEF StaysBooked
  <2> QED BY <2>1, <2>2
<1> QED BY <1>1, <1>2

\* Completing or rejecting a refund changes the refund only, and the order from
\* paid to refunded at most.
LEMMA LeavesBooked ==
  ASSUME IndInv, NEW r \in RefundId, NEW status, RefundLeaves(r, status) PROVE StaysBooked
<1>1. refunds[r].order \in Orders
  BY DEF RefundLeaves, IndInv, UnusedRows
<1>2. orders[refunds[r].order].paymentStatus = "paid"
  BY <1>1 DEF RefundLeaves, IndInv, RefundsOfPayments, RefundsOf
<1> QED BY <1>1, <1>2 DEF RefundLeaves, StaysBooked

\* No handler undoes what was booked.
LEMMA NextBooked == IndInv /\ [Next]_vars => [StaysBooked]_vars
<1> SUFFICES ASSUME IndInv, Next PROVE StaysBooked
  OBVIOUS
<1>1. CASE PaymentNext
  <2>1. ASSUME \/ \E a \in AttemptId : PassExpiry(a)
               \/ \E o \in Orders : CreateQr(o) \/ CreateQrAdmin(o)
               \/ ChangeAccount \/ ExpireOverdueAttempts
        PROVE  StaysBooked
    BY <2>1, SessionActions, SessionBooked
  <2>2. ASSUME NEW o \in Orders, NEW key \in Keys, NEW a \in AttemptId,
               NEW acceptMismatch \in BOOLEAN,
               \/ ConfirmRecorded(o, key, a, acceptMismatch)
               \/ \E amount \in Amounts : ConfirmEntered(o, key, a, amount, acceptMismatch)
        PROVE  StaysBooked
    BY <2>2, ConfirmSteps, PaymentBooked
  <2>3. ASSUME NEW ref \in Refs, NEW amount \in Amounts,
               \/ \E status \in VerificationStatuses : WebhookUnlinked(ref, status, amount)
               \/ \E a \in AttemptId : WebhookForAttempt(ref, a, amount)
        PROVE  StaysBooked
    BY <2>3, WebhookCases, NoteBooked, PaymentBooked
  <2> QED BY <1>1, <2>1, <2>2, <2>3 DEF PaymentNext
<1>2. CASE RefundNext
  <2>1. ASSUME NEW o \in Orders, CreateRefundAdmin(o) PROVE StaysBooked
    BY <2>1, RequestInserts, InsertBooked DEF CreateRefundAdmin, StaysBooked
  <2>2. ASSUME NEW r \in RefundId,
               RejectRefund(r) \/ \E ref \in BankRefs : CompleteRefund(r, ref)
        PROVE  StaysBooked
    BY <2>2, CompleteLeaves, RejectLeaves, LeavesBooked
  <2> QED BY <1>2, <2>1, <2>2 DEF RefundNext
<1>3. CASE ReturnNext
  <2>1. ASSUME OnlyReturns PROVE StaysBooked
    BY <2>1 DEF OnlyReturns, StaysBooked
  <2>2. ASSUME NEW o \in Orders, NEW quantity \in PiecesOf(o), CreateReturn(o, quantity)
        PROVE  StaysBooked
    BY <2>1, <2>2 DEF CreateReturn, OnlyReturns
  <2>3. ASSUME NEW k \in ReturnId, CancelReturn(k) \/ ApproveReturn(k) \/ RejectReturn(k)
        PROVE  StaysBooked
    BY <2>1, <2>3 DEF CancelReturn, ApproveReturn, RejectReturn, MoveReturn, OnlyReturns
  <2>4. ASSUME NEW k \in ReturnId, NEW o \in Orders, NEW accepted \in PiecesOf(o),
               NEW refundShipping \in BOOLEAN, returns[k].order = o,
               ReceiveReturn(k, accepted, refundShipping)
        PROVE  StaysBooked
    <3>1. Inserts(o, k) /\ UNCHANGED <<orders, attempts, transactions>>
      BY <2>4, RequestInserts DEF ReceiveReturn
    <3> QED BY <3>1, InsertBooked DEF StaysBooked
  <2> QED BY <1>3, <2>2, <2>3, <2>4 DEF ReturnNext
<1>4. CASE StatusNext
  BY <1>4, StatusBooked DEF StatusNext
<1> QED BY <1>1, <1>2, <1>3, <1>4 DEF Next

\* Money that was booked stays booked, in every behaviour.
THEOREM NothingUnbooked == Spec => BookedForGood
BY Invariance, NextBooked, PTL DEF Spec, BookedForGood

-----------------------------------------------------------------------------
(* Money *)

\* Refunds never exceed the money received, and an order counts as refunded exactly when
\* all of it went back: for any sums transferred, refunded, rejected and asked for again.
THEOREM RefundsStayWithin == Spec => []RefundsWithinReceived
BY MoneyInvariance, PTL DEF MoneyInv

\* The refunds of several parcels add up to the part of the money that all accepted pieces
\* are worth, whatever is rounded on the way, and nothing is sent back twice.
THEOREM RefundsOfReturnsAddUp == Spec => []ReturnsAddUp
BY MoneyInvariance, PTL DEF MoneyInv

\* What CancelRequestsTheRest says of a step.
AsksForTheRest ==
  \A o \in Orders :
    orders[o].paymentStatus = "paid" /\ orders[o].status # "cancelled"
      /\ orders'[o].status = "cancelled" =>
        SumOf(Completed(o))' + SumOf(Requested(o))' = Received(o)

\* Only cancelLocked cancels an order.
LEMMA OnlyCancelLockedCancels ==
  ASSUME IndInv, Next, NEW o \in Orders, orders[o].status # "cancelled",
         orders'[o].status = "cancelled"
  PROVE  CancelLocked(o) /\ orders[o].status \notin Returnable
<1>0. TypeOK
  BY DEF IndInv
<1>1. CASE PaymentNext
  <2>1. ASSUME NEW p \in Orders, NEW a \in AttemptId, NEW key \in Keys, PaymentStep(p, a, key)
        PROVE  FALSE
    BY <2>1, PaymentEffects
  <2>2. ASSUME UNCHANGED orders PROVE FALSE
    BY <2>2
  <2>3. ASSUME \/ \E a \in AttemptId : PassExpiry(a)
               \/ \E p \in Orders : CreateQr(p) \/ CreateQrAdmin(p)
               \/ ChangeAccount \/ ExpireOverdueAttempts
        PROVE  FALSE
    BY <2>2, <2>3, SessionActions DEF SessionStep
  <2>4. ASSUME NEW p \in Orders, NEW key \in Keys, NEW a \in AttemptId,
               NEW acceptMismatch \in BOOLEAN,
               \/ ConfirmRecorded(p, key, a, acceptMismatch)
               \/ \E amount \in Amounts : ConfirmEntered(p, key, a, amount, acceptMismatch)
        PROVE  FALSE
    BY <2>1, <2>4, ConfirmSteps
  <2>5. ASSUME NEW ref \in Refs, NEW amount \in Amounts,
               \/ \E status \in VerificationStatuses : WebhookUnlinked(ref, status, amount)
               \/ \E a \in AttemptId : WebhookForAttempt(ref, a, amount)
        PROVE  FALSE
    BY <2>1, <2>2, <2>5, WebhookCases DEF NoteStep
  <2> QED BY <1>1, <2>3, <2>4, <2>5 DEF PaymentNext
<1>2. CASE RefundNext
  <2>1. ASSUME NEW r \in RefundId, NEW status, RefundLeaves(r, status) PROVE FALSE
    BY <2>1 DEF RefundLeaves
  <2> QED BY <1>2, <2>1, CompleteLeaves, RejectLeaves DEF RefundNext, CreateRefundAdmin
<1>3. CASE ReturnNext
  BY <1>3 DEF ReturnNext, CreateReturn, CancelReturn, ApproveReturn, RejectReturn, MoveReturn,
              ReceiveReturn
<1>4. CASE StatusNext
  <2>1. PICK p \in Orders : CancelOrder(p) \/ \E status \in OrderStatuses : UpdateStatus(p, status)
    BY <1>4 DEF StatusNext
  <2>2. orders[p].status \in OrderStatuses
    BY <1>0 DEF TypeOK, Order
  <2>3. ASSUME CancelLocked(p) PROVE p = o
    BY <1>0, <2>3 DEF CancelLocked, TypeOK, Order
  <2>4. CASE CancelOrder(p)
    BY <2>3, <2>4 DEF CancelOrder, Returnable
  <2>5. ASSUME NEW status \in OrderStatuses, UpdateStatus(p, status)
        PROVE  CancelLocked(o) /\ orders[o].status \notin Returnable
    <3>1. CASE status = "cancelled"
      <4>1. CancelLocked(p) /\ orders[p].status \notin Returnable
        BY <2>2, <2>5, <3>1, TransitionFacts DEF UpdateStatus
      <4> QED BY <2>3, <4>1
    <3>2. CASE status # "cancelled"
      BY <1>0, <2>5, <3>2 DEF UpdateStatus, TypeOK, Order
    <3> QED BY <3>1, <3>2
  <2> QED BY <2>1, <2>4, <2>5
<1> QED BY <1>1, <1>2, <1>3, <1>4 DEF Next

\* Every step that cancels a paid order asks for what is left of its money.
LEMMA CancelAsks == MoneyInv /\ [Next]_vars => [AsksForTheRest]_vars
<1> SUFFICES ASSUME MoneyInv, Next PROVE AsksForTheRest
  OBVIOUS
<1> SUFFICES ASSUME NEW o \in Orders, orders[o].paymentStatus = "paid",
                    orders[o].status # "cancelled", orders'[o].status = "cancelled"
             PROVE  SumOf(Completed(o))' + SumOf(Requested(o))' = Received(o)
  BY DEF AsksForTheRest
<1>1. CancelLocked(o) /\ orders[o].status \notin Returnable
  BY OnlyCancelLockedCancels DEF MoneyInv
<1>2. Returned(o)' + SumOf(Requested(o))' = Received(o)
  BY <1>1, CancelBooks
<1> QED BY <1>2 DEF Returned

\* A paid order is never cancelled without a request for all the money that was kept.
THEOREM CancellingAsksForTheRest == Spec => CancelRequestsTheRest
BY MoneyInvariance, CancelAsks, PTL DEF Spec, CancelRequestsTheRest, AsksForTheRest

-----------------------------------------------------------------------------
(* The books of OrderLedger *)

\* The entry of an order in the books.
Phase(o) ==
  CASE orders[o].paymentStatus = "refunded" -> "settled"
    [] orders[o].paymentStatus = "paid" ->
         IF orders[o].status = "cancelled" THEN "owed" ELSE "sold"
    [] orders[o].paymentStatus = "unpaid" ->
         IF orders[o].status = "cancelled" THEN "void" ELSE "open"
Collected(o) == IF orders[o].paymentStatus = "unpaid" THEN 0 ELSE Received(o)

\* What a step does to one entry.
SameEntry(o) ==
  Phase(o)' = Phase(o) /\ Collected(o)' = Collected(o) /\ Returned(o)' = Returned(o)
VoidEntry(o) ==
  /\ Phase(o) = "open" /\ Phase(o)' = "void"
  /\ Collected(o)' = Collected(o) /\ Returned(o)' = Returned(o)
CollectEntry(o) ==
  /\ Phase(o) = "open" /\ Phase(o)' = "sold"
  /\ Collected(o)' \in Amounts /\ Returned(o)' = Returned(o)
OweEntry(o) ==
  /\ Phase(o) = "sold" /\ Phase(o)' = "owed"
  /\ Returned(o) < Collected(o)
  /\ Collected(o)' = Collected(o) /\ Returned(o)' = Returned(o)
GiveBackEntry(o) ==
  /\ Phase(o) \in {"sold", "owed"}
  /\ \E amount \in 1 .. (Collected(o) - Returned(o)) :
       /\ Returned(o)' = Returned(o) + amount
       /\ Phase(o)' = IF Returned(o) + amount = Collected(o) THEN "settled" ELSE Phase(o)
  /\ Collected(o)' = Collected(o)

\* A step of the books concerns one order, if any.
LedgerStep ==
  \/ \A p \in Orders : SameEntry(p)
  \/ \E o \in Orders :
       /\ \A p \in Orders \ {o} : SameEntry(p)
       /\ VoidEntry(o) \/ CollectEntry(o) \/ OweEntry(o) \/ GiveBackEntry(o)

\* Such a step is one of OrderLedger.
LEMMA LedgerStepIs == LedgerStep => [Ledger!Next]_(Ledger!books)
<1> DEFINE phase == [o \in Orders |-> Phase(o)]
           collected == [o \in Orders |-> Collected(o)]
           returned == [o \in Orders |-> Returned(o)]
<1>1. ASSUME \A p \in Orders : SameEntry(p)
      PROVE  UNCHANGED Ledger!books
  <2>1. /\ \A p \in Orders : Phase(p)' = Phase(p)
        /\ \A p \in Orders : Collected(p)' = Collected(p)
        /\ \A p \in Orders : Returned(p)' = Returned(p)
    BY <1>1 DEF SameEntry
  <2>2. phase' = phase /\ collected' = collected /\ returned' = returned
    BY <2>1
  <2> QED BY <2>2 DEF Ledger!books, Phase, Collected, Returned
<1>2. ASSUME NEW o \in Orders, \A p \in Orders \ {o} : SameEntry(p),
             VoidEntry(o) \/ CollectEntry(o) \/ OweEntry(o) \/ GiveBackEntry(o)
      PROVE  Ledger!Next
  <2>1. /\ \A p \in Orders \ {o} : Phase(p)' = Phase(p)
        /\ \A p \in Orders \ {o} : Collected(p)' = Collected(p)
        /\ \A p \in Orders \ {o} : Returned(p)' = Returned(p)
    BY <1>2 DEF SameEntry
  <2>2. /\ phase' = [phase EXCEPT ![o] = Phase(o)']
        /\ collected' = [collected EXCEPT ![o] = Collected(o)']
        /\ returned' = [returned EXCEPT ![o] = Returned(o)']
        /\ phase[o] = Phase(o) /\ collected[o] = Collected(o) /\ returned[o] = Returned(o)
    BY <2>1
  <2>3. /\ Phase(o)' = Phase(o) => phase' = phase
        /\ Collected(o)' = Collected(o) => collected' = collected
        /\ Returned(o)' = Returned(o) => returned' = returned
    BY <2>1
  <2> HIDE DEF phase, collected, returned
  <2>4. CASE VoidEntry(o)
    <3>1. phase[o] = "open" /\ phase' = [phase EXCEPT ![o] = "void"] /\ UNCHANGED <<collected, returned>>
      BY <2>2, <2>3, <2>4 DEF VoidEntry
    <3>2. Ledger!Void(o)
      BY <3>1 DEF Ledger!Void, phase, collected, returned, Phase, Collected, Returned
    <3> QED BY <3>2 DEF Ledger!Next
  <2>5. CASE CollectEntry(o)
    <3>1. /\ phase[o] = "open"
          /\ \E amount \in Amounts :
               /\ phase' = [phase EXCEPT ![o] = "sold"]
               /\ collected' = [collected EXCEPT ![o] = amount]
          /\ UNCHANGED returned
      BY <2>2, <2>3, <2>5 DEF CollectEntry
    <3>2. Ledger!Collect(o)
      BY <3>1 DEF Ledger!Collect, phase, collected, returned, Phase, Collected, Returned
    <3> QED BY <3>2 DEF Ledger!Next
  <2>6. CASE OweEntry(o)
    <3>1. /\ phase[o] = "sold" /\ returned[o] < collected[o]
          /\ phase' = [phase EXCEPT ![o] = "owed"]
          /\ UNCHANGED <<collected, returned>>
      BY <2>2, <2>3, <2>6 DEF OweEntry
    <3>2. Ledger!Owe(o)
      BY <3>1 DEF Ledger!Owe, phase, collected, returned, Phase, Collected, Returned
    <3> QED BY <3>2 DEF Ledger!Next
  <2>7. CASE GiveBackEntry(o)
    <3>1. PICK amount \in 1 .. (Collected(o) - Returned(o)) :
            /\ Returned(o)' = Returned(o) + amount
            /\ Phase(o)' = IF Returned(o) + amount = Collected(o) THEN "settled" ELSE Phase(o)
      BY <2>7 DEF GiveBackEntry
    <3>2. amount \in 1 .. (collected[o] - returned[o])
      BY <2>2
    <3>3. returned' = [returned EXCEPT ![o] = @ + amount]
      BY <2>2, <3>1
    <3>4. phase' = IF returned[o] + amount = collected[o]
                   THEN [phase EXCEPT ![o] = "settled"] ELSE phase
      BY <2>2, <2>3, <3>1
    <3>5. phase[o] \in {"sold", "owed"} /\ UNCHANGED collected
      BY <2>2, <2>3, <2>7 DEF GiveBackEntry
    <3>6. Ledger!GiveBack(o)
      BY <3>2, <3>3, <3>4, <3>5
      DEF Ledger!GiveBack, phase, collected, returned, Phase, Collected, Returned
    <3> QED BY <3>6 DEF Ledger!Next
  <2> QED BY <1>2, <2>4, <2>5, <2>6, <2>7
<1> QED BY <1>1, <1>2 DEF LedgerStep

\* The books are opened with nothing in them.
LEMMA LedgerInit == Init => Ledger!Init
<1> SUFFICES ASSUME Init PROVE Ledger!Init
  OBVIOUS
<1>1. ASSUME NEW o \in Orders
      PROVE  Phase(o) = "open" /\ Collected(o) = 0 /\ Returned(o) = 0
  <2>1. orders[o].status = "pending" /\ orders[o].paymentStatus = "unpaid"
    BY DEF Init
  <2>2. Completed(o) = {}
    BY DEF Init, Completed, RefundsOf, NoRefundRow
  <2>3. Returned(o) = 0
    BY <2>2, SumEmpty DEF Returned, SumOf
  <2> QED BY <2>1, <2>3 DEF Phase, Collected
<1>2. /\ [o \in Orders |-> Phase(o)] = [o \in Orders |-> "open"]
      /\ [o \in Orders |-> Collected(o)] = [o \in Orders |-> 0]
      /\ [o \in Orders |-> Returned(o)] = [o \in Orders |-> 0]
  BY <1>1
<1> QED BY <1>2 DEF Ledger!Init, Phase, Collected, Returned

-----------------------------------------------------------------------------

\* An entry is the same when its order, its payment and its refunds are.
LEMMA SameEntryIf ==
  ASSUME IndInv, NEW o \in Orders, SameSettling(o), Returned(o)' = Returned(o),
         orders'[o].paymentStatus = orders[o].paymentStatus,
         orders'[o].status = "cancelled" <=> orders[o].status = "cancelled"
  PROVE  SameEntry(o)
<1>1. orders[o].paymentStatus # "unpaid" => Received(o)' = Received(o)
  BY SettlingFrame
<1> QED BY <1>1 DEF SameEntry, Phase, Collected

\* Sessions and transfers that settle nothing leave the books alone.
LEMMA QuietEntries ==
  ASSUME IndInv, UNCHANGED <<orders, refunds, returns>>, \A o \in Orders : SameSettling(o)
  PROVE  \A o \in Orders : SameEntry(o)
BY UnchangedRows, RefundFrame, SameEntryIf

\* A settled payment is collected.
LEMMA PaymentEntry ==
  ASSUME MoneyInv, MoneyInv', NEW o \in Orders, NEW a \in AttemptId, NEW key \in Keys,
         PaymentStep(o, a, key)
  PROVE  LedgerStep
<1>0. IndInv /\ IndInv' /\ SumsBooked'
  BY DEF MoneyInv
<1>1. /\ a \in AttemptsOf(o) /\ orders[o].paymentStatus = "unpaid"
      /\ orders[o].status # "cancelled"
  BY DEF PaymentStep, Payable
<1>2. /\ orders'[o].paymentStatus = "paid" /\ orders'[o].status # "cancelled"
      /\ \A p \in Orders \ {o} : orders'[p] = orders[p]
      /\ \A b \in AttemptId : attempts'[b].order = attempts[b].order
      /\ transactions'[key].attempt = a
      /\ transactions[key].status \notin Settling
      /\ \A k \in Keys \ {key} : transactions'[k] = transactions[k]
      /\ UNCHANGED <<refunds, returns>>
  BY <1>0, PaymentEffects
<1>3. \A p \in Orders : Returned(p)' = Returned(p)
  BY <1>2, UnchangedRows, RefundFrame
<1>4. ASSUME NEW p \in Orders \ {o} PROVE SameEntry(p)
  <2>1. SameSettling(p)
    BY <1>1, <1>2 DEF SameSettling, SettlingKeys, AttemptsOf
  <2> QED BY <1>0, <1>2, <1>3, <2>1, SameEntryIf
<1>5. CollectEntry(o)
  <2>1. Received(o)' \in Amounts
    BY <1>0, <1>2, ReceivedTypeNext
  <2>2. Phase(o) = "open" /\ Phase(o)' = "sold"
    BY <1>1, <1>2 DEF Phase
  <2>3. Collected(o)' = Received(o)'
    BY <1>2 DEF Collected
  <2> QED BY <1>3, <2>1, <2>2, <2>3 DEF CollectEntry
<1> QED BY <1>4, <1>5 DEF LedgerStep

\* Cancelling an order voids its entry, or the shop owes what it kept.
LEMMA CancelEntry ==
  ASSUME MoneyInv, NEW o \in Orders, CancelLocked(o), orders[o].status \notin Returnable,
         orders[o].status # "cancelled"
  PROVE  LedgerStep
<1>0. IndInv /\ SumsBooked /\ TypeOK
  BY DEF MoneyInv, IndInv
<1>1. /\ orders'[o].status = "cancelled"
      /\ orders'[o].paymentStatus = orders[o].paymentStatus
      /\ \A p \in Orders \ {o} : orders'[p] = orders[p]
      /\ UNCHANGED <<transactions, returns>>
  BY <1>0 DEF CancelLocked, TypeOK, Order
<1>2. \A a \in AttemptId : attempts'[a].order = attempts[a].order
  BY <1>0 DEF CancelLocked, WithPendingCancelled, TypeOK, PaymentAttempt
<1>3. \A p \in Orders : SameSettling(p)
  BY <1>1, <1>2 DEF SameSettling, SettlingKeys, AttemptsOf
<1>4. \A p \in Orders : Returned(p)' = Returned(p)
  <2>1. CASE orders[o].paymentStatus = "paid"
    <3>1. Returned(o) < Received(o) /\ Asks(o, Null, Received(o) - Returned(o))
      BY <1>0, <2>1, RequestAsks DEF CancelLocked
    <3>2. Received(o) - Returned(o) \in Nat
      BY <1>0, <2>1, <3>1, ReceivedType, OrderSums
    <3> QED BY <1>0, <3>1, <3>2, AskSums, RefundFrame
  <2>2. CASE orders[o].paymentStatus # "paid"
    <3>1. UNCHANGED refunds
      BY <2>2 DEF CancelLocked
    <3> QED BY <3>1, UnchangedRows, RefundFrame
  <2> QED BY <2>1, <2>2
<1>5. \A p \in Orders \ {o} : SameEntry(p)
  BY <1>0, <1>1, <1>3, <1>4, SameEntryIf
<1>6. orders[o].paymentStatus \in {"unpaid", "paid", "refunded"}
  BY <1>0 DEF TypeOK, Order, PaymentStatuses
<1>7. CASE orders[o].paymentStatus = "unpaid"
  <2>1. VoidEntry(o)
    BY <1>1, <1>4, <1>7 DEF VoidEntry, Phase, Collected
  <2> QED BY <1>5, <2>1 DEF LedgerStep
<1>8. CASE orders[o].paymentStatus = "paid"
  <2>1. Returned(o) < Received(o)
    BY <1>0, <1>8, RequestAsks DEF CancelLocked
  <2>2. Received(o)' = Received(o)
    BY <1>0, <1>3, <1>8, SettlingFrame
  <2>3. OweEntry(o)
    BY <1>1, <1>4, <1>8, <2>1, <2>2 DEF OweEntry, Phase, Collected
  <2> QED BY <1>5, <2>3 DEF LedgerStep
<1>9. CASE orders[o].paymentStatus = "refunded"
  <2>1. Received(o)' = Received(o)
    BY <1>0, <1>3, <1>9, SettlingFrame
  <2>2. SameEntry(o)
    BY <1>1, <1>4, <1>9, <2>1 DEF SameEntry, Phase, Collected
  <2> QED BY <1>5, <2>2 DEF LedgerStep
<1> QED BY <1>6, <1>7, <1>8, <1>9

\* The end of a refund concerns the entry of its order only.
LEMMA LeaveEntries ==
  ASSUME IndInv, NEW r \in RefundId, NEW status \in {"COMPLETED", "REJECTED"},
         RefundLeaves(r, status), refunds'[r].amount = refunds[r].amount,
         NEW o \in Orders, o = refunds[r].order
  PROVE  /\ \A p \in Orders : SameSettling(p)
         /\ \A p \in Orders \ {o} : SameEntry(p)
<1>1. \A p \in Orders : SameSettling(p)
  BY DEF RefundLeaves, SameSettling, SettlingKeys, AttemptsOf
<1>2. ASSUME NEW p \in Orders \ {o} PROVE SameEntry(p)
  <2>1. Returned(p)' = Returned(p)
    BY LeaveSums, RefundFrame
  <2>2. orders'[p] = orders[p]
    BY DEF RefundLeaves
  <2> QED BY <1>1, <2>1, <2>2, SameEntryIf
<1> QED BY <1>1, <1>2

\* A completed refund gives its amount back.
LEMMA CompleteEntry ==
  ASSUME MoneyInv, NEW r \in RefundId, NEW reference \in BankRefs, CompleteRefund(r, reference),
         NEW o \in Orders, o = refunds[r].order
  PROVE  LedgerStep
<1>0. IndInv /\ SumsBooked /\ TypeOK /\ Balanced(o)
  BY MoneyInvIs DEF IndInv
<1>1. RefundLeaves(r, "COMPLETED")
  BY <1>0, CompleteLeaves
<1>2. refunds'[r].amount = refunds[r].amount
  BY <1>0 DEF CompleteRefund, TypeOK, Refund
<1>3. orders[o].paymentStatus = "paid" /\ refunds[r].attempt \in PaidAttempts(o)
  BY <1>0, <1>1, WaitingRefund DEF RefundLeaves
<1>4. \A p \in Orders : SameSettling(p)
  BY <1>0, <1>1, <1>2, LeaveEntries
<1>5. \A p \in Orders \ {o} : SameEntry(p)
  BY <1>0, <1>1, <1>2, LeaveEntries
<1>6. Received(o)' = Received(o) /\ Received(o) \in Nat
  BY <1>0, <1>3, <1>4, SettlingFrame, ReceivedType
<1>7. /\ Promised(o) = Returned(o) + refunds[r].amount
      /\ Returned(o)' = Promised(o)
  BY <1>0, <1>1, <1>2, LeaveSums
<1>8. Promised(o) <= Received(o)
  BY <1>0, <1>3 DEF Balanced
<1>9. refunds[r].amount \in Nat /\ refunds[r].amount > 0 /\ Returned(o) \in Nat
  BY <1>0, <1>1, OrderSums DEF RefundLeaves, SumsBooked, TypeOK, Refund
<1>10. refunds[r].amount \in 1 .. (Received(o) - Returned(o))
  BY <1>6, <1>7, <1>8, <1>9
<1>11. orders'[o].paymentStatus = IF Promised(o) = Received(o) THEN "refunded" ELSE "paid"
  <2>1. PICK paid \in Amounts \cup {Total[o]} :
          /\ ReceivedFor(refunds[r].attempt, paid)
          /\ orders' = IF SumOf(Completed(o)) + refunds[r].amount = paid
                       THEN [orders EXCEPT ![o].paymentStatus = "refunded"] ELSE orders
    BY DEF CompleteRefund
  <2>2. paid = Received(o)
    BY <1>0, <1>3, <2>1, ReceivedFacts
  <2>3. orders \in [Orders -> Order]
    BY <1>0 DEF TypeOK
  <2> QED BY <1>3, <1>7, <2>1, <2>2, <2>3 DEF Returned, Order
<1>12. orders'[o].status = orders[o].status
  BY <1>1 DEF RefundLeaves
<1>13. Phase(o)' = IF Promised(o) = Received(o) THEN "settled" ELSE Phase(o)
  BY <1>3, <1>11, <1>12 DEF Phase
<1>14. Phase(o) \in {"sold", "owed"} /\ Collected(o) = Received(o)
  BY <1>3 DEF Phase, Collected
<1>15. Collected(o)' = Received(o)
  BY <1>6, <1>11 DEF Collected
<1>16. GiveBackEntry(o)
  BY <1>7, <1>10, <1>13, <1>14, <1>15 DEF GiveBackEntry
<1> QED BY <1>5, <1>16 DEF LedgerStep

\* A rejected refund was never in the books.
LEMMA RejectEntry ==
  ASSUME MoneyInv, NEW r \in RefundId, RejectRefund(r), NEW o \in Orders, o = refunds[r].order
  PROVE  \A p \in Orders : SameEntry(p)
<1>0. IndInv /\ TypeOK
  BY DEF MoneyInv, IndInv
<1>1. RefundLeaves(r, "REJECTED")
  BY <1>0, RejectLeaves
<1>2. refunds'[r].amount = refunds[r].amount
  BY <1>0 DEF RejectRefund, TypeOK, Refund
<1>3. \A p \in Orders : SameSettling(p)
  BY <1>0, <1>1, <1>2, LeaveEntries
<1>4. \A p \in Orders \ {o} : SameEntry(p)
  BY <1>0, <1>1, <1>2, LeaveEntries
<1>5. Returned(o)' = Returned(o)
  BY <1>0, <1>1, <1>2, LeaveSums
<1>6. orders'[o] = orders[o]
  BY DEF RejectRefund
<1>7. SameEntry(o)
  BY <1>0, <1>3, <1>5, <1>6, SameEntryIf
<1> QED BY <1>4, <1>7

\* A request for money gives nothing back yet.
LEMMA AskEntries ==
  ASSUME IndInv, NEW o \in Orders, NEW k, NEW amount \in Nat, Asks(o, k, amount),
         UNCHANGED <<orders, attempts, transactions>>
  PROVE  \A p \in Orders : SameEntry(p)
<1>1. \A p \in Orders : SameSettling(p)
  BY DEF SameSettling, SettlingKeys, AttemptsOf
<1>2. \A p \in Orders : Returned(p)' = Returned(p)
  BY AskSums, RefundFrame
<1> QED BY <1>1, <1>2, SameEntryIf

\* A step that deals in sessions only leaves the books alone.
LEMMA SessionEntries == ASSUME MoneyInv, SessionStep PROVE [Ledger!Next]_(Ledger!books)
<1>1. IndInv
  BY DEF MoneyInv
<1>2. UNCHANGED <<orders, refunds, returns>> /\ \A o \in Orders : SameSettling(o)
  BY <1>1, QuietSteps
<1>3. LedgerStep
  BY <1>1, <1>2, QuietEntries DEF LedgerStep
<1> QED BY <1>3, LedgerStepIs

\* Every handler makes a step of the books, or none.
LEMMA LedgerNext == MoneyInv /\ MoneyInv' /\ [Next]_vars => [Ledger!Next]_(Ledger!books)
<1> SUFFICES ASSUME MoneyInv, MoneyInv', [Next]_vars PROVE LedgerStep
  BY LedgerStepIs
<1>0. IndInv /\ SumsBooked /\ TypeOK
  BY DEF MoneyInv, IndInv
<1>1. ASSUME SessionStep \/ \E key \in Keys : NoteStep(key) PROVE LedgerStep
  BY <1>0, <1>1, QuietSteps, QuietEntries DEF LedgerStep
<1>2. ASSUME UNCHANGED <<orders, attempts, transactions, refunds>> PROVE LedgerStep
  <2>1. \A p \in Orders : SameSettling(p)
    BY <1>2 DEF SameSettling, SettlingKeys, AttemptsOf
  <2>2. \A p \in Orders : Returned(p)' = Returned(p)
    BY <1>2, UnchangedRows, RefundFrame
  <2> QED BY <1>0, <1>2, <2>1, <2>2, SameEntryIf DEF LedgerStep
<1>3. CASE PaymentNext
  <2>1. ASSUME \/ \E a \in AttemptId : PassExpiry(a)
               \/ \E o \in Orders : CreateQr(o) \/ CreateQrAdmin(o)
               \/ ChangeAccount \/ ExpireOverdueAttempts
        PROVE  LedgerStep
    BY <1>0, <1>1, <2>1, SessionActions
  <2>2. ASSUME NEW o \in Orders, NEW key \in Keys, NEW a \in AttemptId,
               NEW acceptMismatch \in BOOLEAN,
               \/ ConfirmRecorded(o, key, a, acceptMismatch)
               \/ \E amount \in Amounts : ConfirmEntered(o, key, a, amount, acceptMismatch)
        PROVE  LedgerStep
    BY <1>0, <2>2, ConfirmSteps, PaymentEntry
  <2>3. ASSUME NEW ref \in Refs, NEW amount \in Amounts,
               \/ \E status \in VerificationStatuses : WebhookUnlinked(ref, status, amount)
               \/ \E a \in AttemptId : WebhookForAttempt(ref, a, amount)
        PROVE  LedgerStep
    BY <1>0, <1>1, <2>3, WebhookCases, PaymentEntry
  <2> QED BY <1>3, <2>1, <2>2, <2>3 DEF PaymentNext
<1>4. CASE RefundNext
  <2>1. ASSUME NEW o \in Orders, CreateRefundAdmin(o) PROVE LedgerStep
    <3>1. Returned(o) < Received(o) /\ Asks(o, Null, Received(o) - Returned(o))
      BY <1>0, <2>1, RequestAsks DEF CreateRefundAdmin
    <3>2. Received(o) - Returned(o) \in Nat
      BY <1>0, <2>1, <3>1, ReceivedType, OrderSums DEF CreateRefundAdmin
    <3> QED BY <1>0, <2>1, <3>1, <3>2, AskEntries DEF LedgerStep, CreateRefundAdmin
  <2>2. ASSUME NEW r \in RefundId, RejectRefund(r) PROVE LedgerStep
    <3>1. refunds[r].order \in Orders
      BY <1>0, <2>2, WaitingRefund DEF RejectRefund
    <3> QED BY <2>2, <3>1, RejectEntry DEF LedgerStep
  <2>3. ASSUME NEW r \in RefundId, NEW ref \in BankRefs, CompleteRefund(r, ref) PROVE LedgerStep
    <3>1. refunds[r].order \in Orders
      BY <1>0, <2>3, WaitingRefund DEF CompleteRefund
    <3> QED BY <2>3, <3>1, CompleteEntry
  <2> QED BY <1>4, <2>1, <2>2, <2>3 DEF RefundNext
<1>5. CASE ReturnNext
  <2>1. ASSUME NEW o \in Orders, NEW quantity \in PiecesOf(o), CreateReturn(o, quantity)
        PROVE  LedgerStep
    BY <1>2, <2>1 DEF CreateReturn
  <2>2. ASSUME NEW k \in ReturnId, CancelReturn(k) \/ ApproveReturn(k) \/ RejectReturn(k)
        PROVE  LedgerStep
    BY <1>2, <2>2 DEF CancelReturn, ApproveReturn, RejectReturn, MoveReturn
  <2>3. ASSUME NEW k \in ReturnId, NEW o \in Orders, NEW accepted \in PiecesOf(o),
               NEW refundShipping \in BOOLEAN, returns[k].order = o,
               ReceiveReturn(k, accepted, refundShipping)
        PROVE  LedgerStep
    <3>1. PICK value, previous :
            /\ orders[o].paymentStatus = "paid"
            /\ CreateForReturn(o, k, value, previous)
            /\ UNCHANGED <<orders, attempts, transactions>>
      BY <2>3 DEF ReceiveReturn
    <3>2. PICK amount \in Nat \ {0} : Asks(o, k, amount)
      BY <1>0, <3>1, RequestAsks
    <3> QED BY <1>0, <3>1, <3>2, AskEntries DEF LedgerStep
  <2> QED BY <1>5, <2>1, <2>2, <2>3 DEF ReturnNext
<1>6. CASE StatusNext
  <2>1. PICK o \in Orders : CancelOrder(o) \/ \E status \in OrderStatuses : UpdateStatus(o, status)
    BY <1>6 DEF StatusNext
  <2>2. orders[o].status \in OrderStatuses
    BY <1>0 DEF TypeOK, Order
  <2>3. CASE CancelOrder(o)
    BY <2>3, CancelEntry DEF CancelOrder, Returnable
  <2>4. ASSUME NEW status \in OrderStatuses, UpdateStatus(o, status) PROVE LedgerStep
    <3>1. CASE status = "cancelled"
      <4>1. /\ CancelLocked(o) /\ orders[o].status \notin Returnable
            /\ orders[o].status # "cancelled"
        BY <2>2, <2>4, <3>1, TransitionFacts DEF UpdateStatus
      <4> QED BY <4>1, CancelEntry
    <3>2. CASE status # "cancelled"
      <4>1. orders[o].status # "cancelled"
        BY <2>2, <2>4, TransitionFacts DEF UpdateStatus
      <4>2. /\ orders'[o].paymentStatus = orders[o].paymentStatus
            /\ orders'[o].status = status
            /\ \A p \in Orders \ {o} : orders'[p] = orders[p]
            /\ UNCHANGED <<attempts, transactions, refunds, returns>>
        BY <1>0, <2>4, <3>2 DEF UpdateStatus, TypeOK, Order
      <4>3. \A p \in Orders : SameSettling(p)
        BY <4>2 DEF SameSettling, SettlingKeys, AttemptsOf
      <4>4. \A p \in Orders : Returned(p)' = Returned(p)
        BY <4>2, UnchangedRows, RefundFrame
      <4> QED BY <1>0, <3>2, <4>1, <4>2, <4>3, <4>4, SameEntryIf DEF LedgerStep
    <3> QED BY <3>1, <3>2
  <2> QED BY <2>1, <2>3, <2>4
<1>7. CASE UNCHANGED vars
  BY <1>2, <1>7 DEF vars
<1> QED BY <1>3, <1>4, <1>5, <1>6, <1>7 DEF Next

\* The handlers keep the books of OrderLedger: for any number of orders, whatever the
\* customers, the shop and the bank do, money comes in once for an order and goes back in
\* pieces, never more than came in, and the order is settled when all of it went back.
THEOREM ImplementsTheLedger == Spec => KeepsTheBooks
<1>1. MoneyInv /\ MoneyInv' /\ [Next]_vars => [Ledger!Next]_(Ledger!books)
  BY LedgerNext
<1>2. Ledger!Init /\ [][Ledger!Next]_(Ledger!books) => KeepsTheBooks
  BY DEF KeepsTheBooks, Ledger!Spec
<1> QED BY <1>1, <1>2, LedgerInit, MoneyInvariance, PTL DEF Spec

-----------------------------------------------------------------------------
(* What the shop shows *)

\* The rows of payment_attempts are filled in order, each for an order, and a session
\* that is still pending is the newest of its order.
SessionsInOrder ==
  /\ \A a \in AttemptId : attempts[a].order \in Orders <=> attempts[a].status # "NONE"
  /\ \A a, b \in AttemptId : b < a /\ attempts[a].status # "NONE" => attempts[b].status # "NONE"
  /\ \A o \in Orders : \A a \in PendingAttempts(o) : \A b \in AttemptsOf(o) : b <= a

\* A step that issues no session: none is inserted, and none becomes pending.
NoNewSession ==
  \A a \in AttemptId :
    /\ attempts'[a].order = attempts[a].order
    /\ attempts'[a].status = "NONE" <=> attempts[a].status = "NONE"
    /\ attempts'[a].status = "PENDING" => attempts[a].status = "PENDING"

\* Such a step keeps the sessions in order.
LEMMA NoNewSessionKeeps == ASSUME SessionsInOrder, NoNewSession PROVE SessionsInOrder'
BY DEF SessionsInOrder, NoNewSession, PendingAttempts, AttemptsOf

\* Paying through a session, and cancelling the pending ones, issues no session.
LEMMA PayAndCancelIssueNone ==
  ASSUME TypeOK, SessionsInOrder, NEW o \in Orders
  PROVE  /\ \A a \in AttemptsOf(o) : PayWith(o, a) => NoNewSession
         /\ attempts' = WithPendingCancelled(o) => NoNewSession
<1>1. \A a \in AttemptId :
        /\ WithPendingCancelled(o)[a].order = attempts[a].order
        /\ WithPendingCancelled(o)[a].status =
             IF a \in PendingAttempts(o) THEN "CANCELLED" ELSE attempts[a].status
  BY DEF TypeOK, PaymentAttempt, WithPendingCancelled
<1>2. \A a \in PendingAttempts(o) : attempts[a].status = "PENDING"
  BY DEF PendingAttempts
<1>3. WithPendingCancelled(o) \in [AttemptId -> PaymentAttempt]
  BY CancelledType
<1>4. ASSUME NEW a \in AttemptsOf(o), PayWith(o, a) PROVE NoNewSession
  <2>1. a \in AttemptId /\ attempts[a].status # "NONE"
    BY DEF SessionsInOrder, AttemptsOf
  <2>2. \A b \in AttemptId :
          /\ attempts'[b].order = attempts[b].order
          /\ attempts'[b].status = IF b = a THEN "PAID" ELSE WithPendingCancelled(o)[b].status
    BY <1>1, <1>3, <1>4, <2>1 DEF PayWith, PaymentAttempt
  <2> QED BY <1>1, <1>2, <2>1, <2>2 DEF NoNewSession
<1>5. ASSUME attempts' = WithPendingCancelled(o) PROVE NoNewSession
  BY <1>1, <1>2, <1>5 DEF NoNewSession
<1> QED BY <1>4, <1>5

\* A new session comes after all others, and its order has no other that is pending.
LEMMA NewSessionKeeps ==
  ASSUME TypeOK, SessionsInOrder, NEW o \in Orders, CreateQr(o) \/ CreateQrAdmin(o)
  PROVE  SessionsInOrder'
<1>1. PICK new \in AttemptId :
        /\ IsNextAttempt(new)
        /\ attempts'[new].order = o /\ attempts'[new].status = "PENDING"
        /\ \A a \in AttemptId \ {new} :
             /\ attempts'[a].order = attempts[a].order
             /\ attempts'[a].status =
                  IF a \in PendingAttempts(o) THEN "EXPIRED" ELSE attempts[a].status
  <2>1. CASE CreateQr(o)
    <3>1. PICK new \in AttemptId : IsNextAttempt(new) /\ attempts' =
            [a \in AttemptId |-> IF a = new THEN NewAttempt(o)
                                 ELSE IF a \in PendingAttempts(o)
                                      THEN [attempts[a] EXCEPT !.status = "EXPIRED"]
                                      ELSE attempts[a]]
      BY <2>1 DEF CreateQr
    <3> QED BY <3>1 DEF NewAttempt, TypeOK, PaymentAttempt
  <2>2. CASE CreateQrAdmin(o)
    <3>1. PICK new \in AttemptId : IsNextAttempt(new) /\ attempts' =
            [a \in AttemptId |-> IF a = new THEN NewAttempt(o)
                                 ELSE IF a \in PendingAttempts(o)
                                      THEN [attempts[a] EXCEPT !.status = "EXPIRED", !.overdue = TRUE]
                                      ELSE attempts[a]]
      BY <2>2 DEF CreateQrAdmin
    <3> QED BY <3>1 DEF NewAttempt, TypeOK, PaymentAttempt
  <2> QED BY <2>1, <2>2
<1>2. \A a \in AttemptId : attempts[a].status # "NONE" => a < new
  <2>1. SUFFICES ASSUME NEW a \in AttemptId, attempts[a].status # "NONE", ~ (a < new) PROVE FALSE
    OBVIOUS
  <2>2. a = new \/ new < a
    BY <2>1 DEF AttemptId
  <2> QED BY <1>1, <2>1, <2>2 DEF SessionsInOrder, IsNextAttempt
<1>3. \A a \in AttemptId \ {new} :
        /\ attempts'[a].status = "NONE" <=> attempts[a].status = "NONE"
        /\ attempts'[a].status = "PENDING" =>
             attempts[a].status = "PENDING" /\ attempts[a].order # o
  BY <1>1 DEF PendingAttempts, AttemptsOf
<1>4. \A a \in AttemptId : attempts'[a].order \in Orders <=> attempts'[a].status # "NONE"
  BY <1>1, <1>3 DEF SessionsInOrder
<1>5. \A a, b \in AttemptId : b < a /\ attempts'[a].status # "NONE" => attempts'[b].status # "NONE"
  <2>1. SUFFICES ASSUME NEW a \in AttemptId, NEW b \in AttemptId, b < a, attempts'[a].status # "NONE"
                 PROVE  attempts'[b].status # "NONE"
    OBVIOUS
  <2>2. CASE a = new
    BY <1>1, <1>3, <2>1, <2>2 DEF IsNextAttempt
  <2>3. CASE a # new
    BY <1>1, <1>3, <2>1, <2>3 DEF SessionsInOrder
  <2> QED BY <2>2, <2>3
<1>6. \A p \in Orders : \A a \in PendingAttempts(p)' : \A b \in AttemptsOf(p)' : b <= a
  <2>1. SUFFICES ASSUME NEW p \in Orders, NEW a \in AttemptId, NEW b \in AttemptId,
                        attempts'[a].order = p, attempts'[a].status = "PENDING",
                        attempts'[b].order = p
                 PROVE  b <= a
    BY DEF PendingAttempts, AttemptsOf
  <2>2. CASE a = new
    <3>1. b = new \/ b < new
      BY <1>1, <1>2, <2>1 DEF SessionsInOrder
    <3> QED BY <2>2, <3>1 DEF AttemptId
  <2>3. CASE a # new
    <3>1. attempts[a].order = p /\ attempts[a].status = "PENDING" /\ p # o
      BY <1>1, <1>3, <2>1, <2>3
    <3>2. b # new /\ attempts[b].order = p
      BY <1>1, <2>1, <3>1
    <3> QED BY <2>1, <3>1, <3>2 DEF SessionsInOrder, PendingAttempts, AttemptsOf
  <2> QED BY <2>2, <2>3
<1> QED BY <1>4, <1>5, <1>6 DEF SessionsInOrder

\* Every handler keeps the sessions in order.
LEMMA SessionsNext == TypeOK /\ SessionsInOrder /\ [Next]_vars => SessionsInOrder'
<1> SUFFICES ASSUME TypeOK, SessionsInOrder, [Next]_vars PROVE SessionsInOrder'
  OBVIOUS
<1>1. ASSUME UNCHANGED attempts PROVE NoNewSession
  BY <1>1 DEF NoNewSession
<1>2. CASE PaymentNext
  <2>1. ASSUME NEW a \in AttemptId, PassExpiry(a) PROVE NoNewSession
    BY <2>1 DEF PassExpiry, NoNewSession, TypeOK, PaymentAttempt
  <2>2. CASE ChangeAccount
    BY <1>1, <2>2, NoNewSessionKeeps DEF ChangeAccount
  <2>3. CASE ExpireOverdueAttempts
    <3>1. NoNewSession
      BY <2>3 DEF ExpireOverdueAttempts, Expirable, NoNewSession, TypeOK, PaymentAttempt
    <3> QED BY <3>1, NoNewSessionKeeps
  <2>4. ASSUME NEW ref \in Refs, NEW amount \in Amounts,
               \/ \E status \in VerificationStatuses : WebhookUnlinked(ref, status, amount)
               \/ \E a \in AttemptId : WebhookForAttempt(ref, a, amount)
        PROVE  NoNewSession
    <3>1. CASE \E status \in VerificationStatuses : WebhookUnlinked(ref, status, amount)
      BY <1>1, <3>1 DEF WebhookUnlinked
    <3>2. ASSUME NEW a \in AttemptId, WebhookForAttempt(ref, a, amount) PROVE NoNewSession
      <4>1. a \in AttemptsOf(attempts[a].order) /\ attempts[a].order \in Orders
            /\ attempts[a].status # "NONE"
        BY <3>2 DEF WebhookForAttempt, AttemptsOf, SessionsInOrder
      <4>2. CASE PayWith(attempts[a].order, a)
        BY <4>1, <4>2, PayAndCancelIssueNone
      <4>3. CASE attempts' = [attempts EXCEPT ![a].status = "EXPIRED"]
        BY <4>1, <4>3 DEF NoNewSession, TypeOK, PaymentAttempt
      <4> QED BY <1>1, <3>2, <4>2, <4>3 DEF WebhookForAttempt
    <3> QED BY <2>4, <3>1, <3>2
  <2>5. ASSUME NEW o \in Orders, NEW key \in Keys, NEW a \in AttemptId,
               NEW acceptMismatch \in BOOLEAN,
               \/ ConfirmRecorded(o, key, a, acceptMismatch)
               \/ \E amount \in Amounts : ConfirmEntered(o, key, a, amount, acceptMismatch)
        PROVE  NoNewSession
    BY <2>5, PayAndCancelIssueNone DEF ConfirmRecorded, ConfirmEntered
  <2> QED BY <1>2, <2>1, <2>2, <2>3, <2>4, <2>5, NoNewSessionKeeps, NewSessionKeeps DEF PaymentNext
<1>3. CASE RefundNext \/ ReturnNext
  <2>1. UNCHANGED attempts
    BY <1>3 DEF RefundNext, ReturnNext, CreateRefundAdmin, RejectRefund, CompleteRefund,
                CreateReturn, CancelReturn, ApproveReturn, RejectReturn, MoveReturn, ReceiveReturn
  <2> QED BY <1>1, <2>1, NoNewSessionKeeps
<1>4. CASE StatusNext
  <2>1. PICK o \in Orders : attempts' = WithPendingCancelled(o) \/ UNCHANGED attempts
    BY <1>4 DEF StatusNext, CancelOrder, UpdateStatus, CancelLocked
  <2> QED BY <1>1, <2>1, PayAndCancelIssueNone, NoNewSessionKeeps
<1>5. CASE UNCHANGED vars
  BY <1>1, <1>5, NoNewSessionKeeps DEF vars
<1> QED BY <1>2, <1>3, <1>4, <1>5 DEF Next

\* No session has been issued at checkout.
LEMMA SessionsInit == Init => SessionsInOrder
BY ConstantsAssumption DEF Init, SessionsInOrder, PendingAttempts, AttemptsOf, NoAttemptRow

\* Sessions stay in order, for any number of customers and administrators.
LEMMA SessionsInvariance == Spec => []SessionsInOrder
BY Invariance, SessionsInit, SessionsNext, PTL DEF Spec, IndInv

-----------------------------------------------------------------------------

\* A set of ids has a newest one.
LEMMA NewestExists ==
  ASSUME NEW S \in SUBSET AttemptId, S # {} PROVE \E a \in S : \A b \in S : a >= b
<1> DEFINE Good == {n \in Nat : \A T \in SUBSET (1 .. n) : T # {} => \E a \in T : \A b \in T : a >= b}
<1>1. 0 \in Good
  <2>1. 1 .. 0 = {}
    OBVIOUS
  <2> QED BY <2>1
<1>2. ASSUME NEW n \in Nat, n \in Good PROVE n + 1 \in Good
  <2>1. SUFFICES ASSUME NEW T \in SUBSET (1 .. (n + 1)), T # {}
                 PROVE  \E a \in T : \A b \in T : a >= b
    OBVIOUS
  <2>2. CASE n + 1 \in T
    BY <2>2
  <2>3. CASE n + 1 \notin T
    <3>1. T \in SUBSET (1 .. n)
      BY <2>3
    <3> QED BY <1>2, <2>1, <3>1
  <2> QED BY <2>2, <2>3
<1> HIDE DEF Good
<1>3. MaxAttempts \in Good
  BY <1>1, <1>2, NumberInduction, ConstantsAssumption
<1> QED BY <1>3 DEF Good, AttemptId

\* Max finds it.
LEMMA NewestIs ==
  ASSUME NEW S \in SUBSET AttemptId, NEW a \in S, \A b \in S : a >= b PROVE Max(S) = a
<1>1. \A c \in S : (\A b \in S : c >= b) => c = a
  BY DEF AttemptId
<1> QED BY <1>1 DEF Max

\* What the customer and the shop see of the sessions agrees.
LEMMA SessionsAgree == TypeOK /\ SessionsInOrder => SessionViewsAgree
<1> SUFFICES ASSUME TypeOK, SessionsInOrder PROVE SessionViewsAgree
  OBVIOUS
<1>1. ASSUME NEW o \in Orders, orders[o].status = "pending", orders[o].paymentStatus = "unpaid"
      PROVE  OrderNeedsAction(o) <=> PaymentState(o) # "PENDING"
  <2>1. OrderNeedsAction(o) <=> ~ \E a \in PendingAttempts(o) : ~attempts[a].overdue
    BY <1>1 DEF OrderNeedsAction
  <2>2. \A a \in AttemptsOf(o) :
          ResolveAttemptStatus(a) = "PENDING" <=> a \in PendingAttempts(o) /\ ~attempts[a].overdue
    BY <1>1 DEF ResolveAttemptStatus, PendingAttempts, AttemptsOf
  <2>3. CASE AttemptsOf(o) = {}
    BY <1>1, <2>1, <2>3 DEF PaymentState, PendingAttempts
  <2>4. CASE AttemptsOf(o) # {}
    <3>1. PICK a \in AttemptsOf(o) : \A b \in AttemptsOf(o) : a >= b
      BY <2>4, NewestExists DEF AttemptsOf
    <3>2. Max(AttemptsOf(o)) = a
      BY <3>1, NewestIs DEF AttemptsOf
    <3>3. PaymentState(o) = ResolveAttemptStatus(a)
      BY <1>1, <2>4, <3>2 DEF PaymentState
    <3>4. \A b \in PendingAttempts(o) : b = a
      BY <3>1 DEF SessionsInOrder, PendingAttempts, AttemptsOf, AttemptId
    <3> QED BY <2>1, <2>2, <3>1, <3>3, <3>4
  <2> QED BY <2>3, <2>4
<1>2. ASSUME NEW a \in AttemptId, attempts[a].status # "NONE"
      PROVE  a \in SessionsListed(ResolveAttemptStatus(a))
  BY <1>2 DEF SessionsListed, ResolveAttemptStatus, EffectiveStatus, SessionsInOrder
<1> QED BY <1>1, <1>2 DEF SessionViewsAgree

\* An order awaits its customer's transfer for the shop exactly while it does for the
\* customer, and the list of sessions finds them under the state that it displays.
THEOREM SessionsAreShownAlike == Spec => []SessionViewsAgree
BY Invariance, SessionsInvariance, SessionsAgree, PTL DEF IndInv

\* What is shown of money is definite, and the menu counts what the lists hold.
LEMMA MoneyAgrees == MoneyInv /\ SessionsInOrder => MoneyViewsAgree
<1> SUFFICES ASSUME MoneyInv, SessionsInOrder PROVE MoneyViewsAgree
  OBVIOUS
<1>0. IndInv /\ SumsBooked /\ RefundsWithinReceived
  BY DEF MoneyInv
<1>1. ASSUME NEW a \in AttemptId, attempts[a].status = "PAID"
      PROVE  \E k \in Keys : ShownReferences(a) = {k}
  <2>1. PICK o \in Orders : a \in PaidAttempts(o)
    BY <1>1 DEF SessionsInOrder, PaidAttempts, AttemptsOf
  <2>2. orders[o].paymentStatus # "unpaid"
    BY <1>0, <2>1 DEF IndInv, PaidThroughOneAttempt
  <2> QED BY <1>0, <1>1, <2>1, <2>2, ReceivedFacts DEF ShownReferences
<1>2. ASSUME NEW r \in RefundId, refunds[r].status # "NONE"
      PROVE  /\ Cardinality(ReceivedShown(r)) = 1
             /\ \A amount \in ReceivedShown(r) :
                  SumOf(Completed(refunds[r].order) \cup Requested(refunds[r].order)) <= amount
  <2>1. refunds[r].order \in Orders /\ refunds[r].attempt \in PaidAttempts(refunds[r].order)
    BY <1>0, <1>2 DEF IndInv, UnusedRows, RefundsOfPayments, RefundsOf
  <2>2. orders[refunds[r].order].paymentStatus # "unpaid"
    BY <1>0, <2>1 DEF IndInv, PaidThroughOneAttempt
  <2>3. ReceivedShown(r) = {Received(refunds[r].order)}
    BY <1>0, <2>1, <2>2, ReceivedFacts DEF ReceivedShown
  <2>4. SumOf(Completed(refunds[r].order) \cup Requested(refunds[r].order))
          <= Received(refunds[r].order)
    BY <1>0, <2>1, <2>2 DEF RefundsWithinReceived
  <2> QED BY <2>3, <2>4, FS_Singleton
<1>3. RefundsListed("REQUESTED") = {r \in RefundId : refunds[r].status = "REQUESTED"}
  BY <1>0 DEF IndInv, UnusedRows, RefundsOfPayments, RefundsOf, PaidAttempts, RefundsListed
<1>4. ReturnsListed("REQUESTED") = {k \in ReturnId : returns[k].status = "REQUESTED"}
  BY <1>0 DEF IndInv, UnusedRows, ReturnsListed
<1> DEFINE counts == PendingCounts({"ORDER_ADMIN_VIEW", "PAYMENT_ADMIN_VIEW", "RETURN_ADMIN_VIEW"})
<1>5. /\ counts["refunds"] = Cardinality({r \in RefundId : refunds[r].status = "REQUESTED"})
      /\ counts["returns"] = Cardinality({k \in ReturnId : returns[k].status = "REQUESTED"})
  BY DEF PendingCounts
<1> QED BY <1>1, <1>2, <1>3, <1>4, <1>5 DEF MoneyViewsAgree

\* Each paid session shows one bank reference, each refund one sum to be given back from,
\* which covers all refunds of its order; and the numbers on the menu are those of the
\* lists behind them.
THEOREM MoneyIsShownAlike == Spec => []MoneyViewsAgree
BY MoneyInvariance, SessionsInvariance, MoneyAgrees, PTL
=============================================================================
