-------------------------- MODULE OrderMoneyProofs --------------------------
(***************************************************************************)
(* The proof that MoneyInv is an inductive invariant of OrderLifecycle:    *)
(* the sums of the refunds of an order stay within the money the bank      *)
(* received for it, and are the exact part of it that the pieces sent back *)
(* are worth.  The handlers are grouped as in OrderLifecycleProofs; here   *)
(* each group says what it does to the sums of an order, and the sums      *)
(* decide whether the books of the order are in balance.                   *)
(***************************************************************************)
EXTENDS OrderLifecycleProofs, SumProofs

-----------------------------------------------------------------------------
(* The sums of an order *)

\* What went back to the customer, with what waits to go back too, and the value
\* of the pieces whose refunds these are.
Returned(o) == SumOf(Completed(o))
Promised(o) == SumOf(Completed(o) \cup Requested(o))
RefundedValue(o) == AcceptedValue(o, ReturnsIn(o, {"REFUNDED"}))

\* The value of one return request.
Value(o, k) == ValueOf(returns[k].accepted)
               + (IF returns[k].shippingRefunded THEN ShippingFee[o] ELSE 0)

\* The tables and the lines of an order are finite.
LEMMA FiniteTables == IsFiniteSet(RefundId) /\ IsFiniteSet(ReturnId) /\ IsFiniteSet(Lines)
BY ConstantsAssumption, FS_Interval DEF RefundId, ReturnId

\* The amounts of refunds add up.
LEMMA RefundSums ==
  TypeOK => \A S \in SUBSET RefundId :
              /\ SumOf(S) \in Nat
              /\ \A P \in SUBSET S : SumOf(S) = SumOf(P) + SumOf(S \ P)
              /\ \A r \in RefundId : r \notin S => SumOf(S \cup {r}) = SumOf(S) + refunds[r].amount
<1> SUFFICES ASSUME TypeOK, NEW S \in SUBSET RefundId
             PROVE  /\ SumOf(S) \in Nat
                    /\ \A P \in SUBSET S : SumOf(S) = SumOf(P) + SumOf(S \ P)
                    /\ \A r \in RefundId : r \notin S =>
                         SumOf(S \cup {r}) = SumOf(S) + refunds[r].amount
  OBVIOUS
<1> DEFINE f == [r \in RefundId |-> refunds[r].amount]
<1>1. \A r \in RefundId : f[r] \in Nat /\ f[r] = refunds[r].amount
  BY DEF TypeOK, Refund
<1>2. IsFiniteSet(S)
  BY FiniteTables, FS_Subset
<1>3. SumOf(S) = SumFunctionOnSet(f, S) /\ \A T : SumOf(T) = SumFunctionOnSet(f, T)
  BY DEF SumOf
<1> HIDE DEF f
<1>4. SumFunctionOnSet(f, S) \in Nat
  BY <1>1, <1>2, SumType
<1>5. \A P \in SUBSET S : SumFunctionOnSet(f, S) = SumFunctionOnSet(f, P) + SumFunctionOnSet(f, S \ P)
  BY <1>1, <1>2, SumSplit
<1>6. ASSUME NEW r \in RefundId, r \notin S
      PROVE  SumOf(S \cup {r}) = SumOf(S) + refunds[r].amount
  <2>1. SumFunctionOnSet(f, S \cup {r}) = f[r] + SumFunctionOnSet(f, S)
    BY <1>1, <1>2, <1>6, SumAdd
  <2>2. f[r] + SumFunctionOnSet(f, S) = SumFunctionOnSet(f, S) + f[r]
    BY <1>1, <1>4
  <2>3. SumOf(S \cup {r}) = SumFunctionOnSet(f, S \cup {r})
    BY <1>3
  <2> QED BY <1>1, <1>3, <2>1, <2>2, <2>3
<1>7. \A P \in SUBSET S : SumOf(S) = SumOf(P) + SumOf(S \ P)
  BY <1>3, <1>5
<1> QED BY <1>3, <1>4, <1>6, <1>7

\* A sum of refunds depends on their amounts only.
LEMMA SameRefundSums ==
  ASSUME NEW S \in SUBSET RefundId, \A r \in S : refunds'[r].amount = refunds[r].amount
  PROVE  SumOf(S)' = SumOf(S)
<1> DEFINE f == [r \in RefundId |-> refunds[r].amount]
           g == [r \in RefundId |-> refunds'[r].amount]
<1>1. IsFiniteSet(S) /\ \A r \in S : g[r] = f[r]
  BY FiniteTables, FS_Subset
<1>2. SumOf(S) = SumFunctionOnSet(f, S) /\ SumOf(S)' = SumFunctionOnSet(g, S)
  BY DEF SumOf
<1> HIDE DEF f, g
<1> QED BY <1>1, <1>2, SumSame

\* The value of pieces is a number.
LEMMA ValueType == \A pieces \in Pieces : ValueOf(pieces) \in Nat
<1> SUFFICES ASSUME NEW pieces \in Pieces PROVE ValueOf(pieces) \in Nat
  OBVIOUS
<1> DEFINE f == [l \in Lines |-> Price[l] * pieces[l]]
<1>1. \A l \in Lines : f[l] \in Nat
  BY ConstantsAssumption DEF Pieces
<1>2. SumFunctionOnSet(f, Lines) \in Nat
  <2> HIDE DEF f
  <2> QED BY <1>1, FiniteTables, SumType
<1> QED BY <1>2 DEF ValueOf

\* The value of the requests of an order is a number, the more requests the larger.
LEMMA ReturnSums ==
  TypeOK => \A o \in Orders : \A S \in SUBSET ReturnId :
              /\ AcceptedValue(o, S) \in Nat
              /\ AcceptedValue(o, {}) = 0
              /\ \A P \in SUBSET S : AcceptedValue(o, P) <= AcceptedValue(o, S)
              /\ \A k \in ReturnId : Value(o, k) \in Nat
              /\ \A k \in ReturnId : k \notin S =>
                   AcceptedValue(o, S \cup {k}) = AcceptedValue(o, S) + Value(o, k)
<1> SUFFICES ASSUME TypeOK, NEW o \in Orders, NEW S \in SUBSET ReturnId
             PROVE  /\ AcceptedValue(o, S) \in Nat
                    /\ AcceptedValue(o, {}) = 0
                    /\ \A P \in SUBSET S : AcceptedValue(o, P) <= AcceptedValue(o, S)
                    /\ \A k \in ReturnId : Value(o, k) \in Nat
                    /\ \A k \in ReturnId : k \notin S =>
                         AcceptedValue(o, S \cup {k}) = AcceptedValue(o, S) + Value(o, k)
  OBVIOUS
<1> DEFINE f == [k \in ReturnId |-> ValueOf(returns[k].accepted)
                       + (IF returns[k].shippingRefunded THEN ShippingFee[o] ELSE 0)]
<1>1. ASSUME NEW k \in ReturnId PROVE f[k] = Value(o, k) /\ f[k] \in Nat
  <2>1. ValueOf(returns[k].accepted) \in Nat
    BY ValueType DEF TypeOK, ReturnRequest
  <2>2. ShippingFee[o] \in Nat
    BY ConstantsAssumption
  <2> QED BY <2>1, <2>2 DEF Value
<1>2. IsFiniteSet(S)
  BY FiniteTables, FS_Subset
<1>3. \A T : AcceptedValue(o, T) = SumFunctionOnSet(f, T)
  BY DEF AcceptedValue
<1> HIDE DEF f
<1>4. SumFunctionOnSet(f, S) \in Nat
  BY <1>1, <1>2, SumType
<1>5. \A P \in SUBSET S : SumFunctionOnSet(f, P) <= SumFunctionOnSet(f, S)
  BY <1>1, <1>2, SumPart
<1>6. ASSUME NEW k \in ReturnId, k \notin S
      PROVE  SumFunctionOnSet(f, S \cup {k}) = f[k] + SumFunctionOnSet(f, S)
  BY <1>1, <1>2, <1>6, SumAdd
<1>7. SumFunctionOnSet(f, {}) = 0
  BY SumEmpty
<1> QED BY <1>1, <1>3, <1>4, <1>5, <1>6, <1>7

\* A sum of values depends on what was accepted only.
LEMMA SameReturnSums ==
  ASSUME NEW o \in Orders, NEW S \in SUBSET ReturnId,
         \A k \in S : /\ returns'[k].accepted = returns[k].accepted
                      /\ returns'[k].shippingRefunded = returns[k].shippingRefunded
  PROVE  AcceptedValue(o, S)' = AcceptedValue(o, S)
<1> DEFINE f == [k \in ReturnId |-> ValueOf(returns[k].accepted)
                       + (IF returns[k].shippingRefunded THEN ShippingFee[o] ELSE 0)]
           g == [k \in ReturnId |-> ValueOf(returns'[k].accepted)
                       + (IF returns'[k].shippingRefunded THEN ShippingFee[o] ELSE 0)]
<1>1. IsFiniteSet(S) /\ \A k \in S : g[k] = f[k]
  BY FiniteTables, FS_Subset
<1>2. AcceptedValue(o, S) = SumFunctionOnSet(f, S) /\ AcceptedValue(o, S)' = SumFunctionOnSet(g, S)
  BY DEF AcceptedValue, ValueOf
<1> HIDE DEF f, g
<1> QED BY <1>1, <1>2, SumSame

\* The part of what was paid that some value stands for is a sum within it.
LEMMA ProrateFacts ==
  ASSUME NEW paid \in Nat, NEW total \in Nat, NEW value \in Nat
  PROVE  /\ Prorate(paid, value, total) \in Nat
         /\ Prorate(paid, value, total) <= paid
         /\ Prorate(paid, 0, total) = 0
<1>1. CASE total = 0 \/ value = 0 \/ value >= total
  BY <1>1 DEF Prorate
<1>2. CASE total # 0 /\ value # 0 /\ value < total
  <2> DEFINE x == 2 * paid * value + total
             d == 2 * total
  <2>1. x \in Nat /\ d \in Nat /\ d > 0
    BY <1>2
  <2>2. paid * value + paid <= paid * total
    <3>1. paid * (total - value - 1) \in Nat
      BY <1>2
    <3>2. paid * (total - value - 1) = paid * total - paid * value - paid
      OBVIOUS
    <3> QED BY <3>1, <3>2
  <2>3. x < d * (paid + 1)
    <3>1. d * (paid + 1) = 2 * (paid * total) + 2 * total
      OBVIOUS
    <3>2. x = 2 * (paid * value) + total
      OBVIOUS
    <3> QED BY <3>1, <3>2, <2>2, <1>2
  <2> HIDE DEF x, d
  <2>4. x \div d \in Nat /\ d * (x \div d) <= x
    BY <2>1
  <2>5. x \div d <= paid
    <3>1. SUFFICES ASSUME x \div d >= paid + 1 PROVE FALSE
      BY <2>4
    <3>2. d * (x \div d) >= d * (paid + 1)
      BY <2>1, <2>4, <3>1
    <3> QED BY <3>2, <2>1, <2>3, <2>4
  <2> QED BY <1>2, <2>4, <2>5 DEF Prorate, x, d
<1> QED BY <1>1, <1>2

-----------------------------------------------------------------------------
(* The books of an order *)

\* The sums of an order are in balance: this is RefundsWithinReceived, the money part of
\* ReturnsAddUp, and CompletedAddUp, for one order.
Balanced(o) ==
  /\ orders[o].paymentStatus # "unpaid" =>
       /\ Promised(o) <= Received(o)
       /\ orders[o].paymentStatus = "refunded" <=>
            Completed(o) # {} /\ Returned(o) = Received(o)
  /\ ReturnsIn(o, WithAccepted) # {} =>
       /\ PreviousValue(o) <= Total[o]
       /\ Promised(o) = Prorate(Received(o), PreviousValue(o), Total[o])
  /\ orders[o].status \in Returnable /\ orders[o].paymentStatus # "unpaid" =>
       Returned(o) = Prorate(Received(o), RefundedValue(o), Total[o])

\* The other part of ReturnsAddUp: nothing is sent back twice.
Parcels(o) ==
  /\ \A l \in Lines : ActiveQuantity(o, l) <= Quantity[o][l]
  /\ \A j, k \in ReturnsOf(o) :
       returns[j].shippingRefunded /\ returns[k].shippingRefunded => j = k

\* MoneyInv, order by order.
LEMMA MoneyInvIs ==
  MoneyInv <=> IndInv /\ SumsBooked /\ \A o \in Orders : Balanced(o) /\ Parcels(o)
<1>1. RefundsWithinReceived /\ CompletedAddUp /\ ReturnsAddUp
        <=> \A o \in Orders : Balanced(o) /\ Parcels(o)
  BY DEF RefundsWithinReceived, CompletedAddUp, ReturnsAddUp, Balanced, Parcels, Returned,
         Promised, RefundedValue
<1> QED BY <1>1 DEF MoneyInv

\* The bank received one definite sum for a paid order, the one that receivedAmount finds
\* for the session that was paid.
LEMMA ReceivedFacts ==
  IndInv /\ SumsBooked =>
    \A o \in Orders : orders[o].paymentStatus # "unpaid" =>
      /\ \E k \in Keys : SettlingKeys(o) = {k} /\ Received(o) = transactions[k].amount
      /\ Received(o) \in Amounts /\ Received(o) \in Nat
      /\ \A a \in PaidAttempts(o) :
           SettledBy(a) = SettlingKeys(o) /\ \A x : ReceivedFor(a, x) <=> x = Received(o)
<1> SUFFICES ASSUME IndInv, SumsBooked, NEW o \in Orders, orders[o].paymentStatus # "unpaid"
             PROVE  /\ \E k \in Keys : SettlingKeys(o) = {k} /\ Received(o) = transactions[k].amount
                    /\ Received(o) \in Amounts /\ Received(o) \in Nat
                    /\ \A a \in PaidAttempts(o) :
                         /\ SettledBy(a) = SettlingKeys(o)
                         /\ \A x : ReceivedFor(a, x) <=> x = Received(o)
  OBVIOUS
<1>1. PICK k \in Keys : SettlingKeys(o) = {k}
  BY DEF IndInv, OneTransactionPerPayment
<1>2. Received(o) = transactions[k].amount
  BY <1>1 DEF Received
<1>3. transactions[k].status \in Settling /\ transactions[k].attempt \in AttemptsOf(o)
  BY <1>1 DEF SettlingKeys
<1>4. Received(o) \in Amounts
  BY <1>2, <1>3 DEF SumsBooked, Settling
<1>5. ASSUME NEW a \in PaidAttempts(o)
      PROVE  SettledBy(a) = SettlingKeys(o)
  <2>1. PICK p \in Orders : transactions[k].attempt \in PaidAttempts(p)
    BY <1>3 DEF IndInv, OneTransactionPerPayment
  <2>2. p = o
    BY <1>3, <2>1 DEF PaidAttempts, AttemptsOf
  <2>3. transactions[k].attempt = a
    BY <1>5, <2>1, <2>2 DEF IndInv, PaidThroughOneAttempt
  <2>4. SettledBy(a) \subseteq SettlingKeys(o)
    BY DEF SettledBy, SettlingKeys, PaidAttempts
  <2> QED BY <1>1, <1>3, <2>3, <2>4 DEF SettledBy
<1>6. ASSUME NEW a \in PaidAttempts(o), NEW x PROVE ReceivedFor(a, x) <=> x = Received(o)
  BY <1>1, <1>2, <1>5 DEF ReceivedFor
<1> QED BY <1>1, <1>2, <1>4, <1>5, <1>6, ConstantsAssumption

\* So it is a number, and one that a transfer may carry.
LEMMA ReceivedType ==
  IndInv /\ SumsBooked =>
    \A o \in Orders : orders[o].paymentStatus # "unpaid" =>
      Received(o) \in Nat /\ Received(o) \in Amounts
BY ReceivedFacts

\* After a step, too.
LEMMA ReceivedTypeNext ==
  ASSUME IndInv', SumsBooked'
  PROVE  \A o \in Orders : orders'[o].paymentStatus # "unpaid" =>
           Received(o)' \in Nat /\ Received(o)' \in Amounts
<1>1. (IndInv /\ SumsBooked =>
         \A o \in Orders : orders[o].paymentStatus # "unpaid" =>
           Received(o) \in Nat /\ Received(o) \in Amounts)'
  BY ReceivedType, PTL
<1> QED BY <1>1

\* It stays the same while no payment is made.
LEMMA SameReceived ==
  ASSUME NEW o \in Orders, SettlingKeys(o)' = SettlingKeys(o), SettlingKeys(o) # {},
         \A k \in SettlingKeys(o) : transactions'[k] = transactions[k]
  PROVE  Received(o)' = Received(o)
<1>1. (CHOOSE k \in SettlingKeys(o) : TRUE) \in SettlingKeys(o)
  OBVIOUS
<1> QED BY <1>1 DEF Received

\* Refunds are rows of their table, so their sums are numbers.
LEMMA OrderSums ==
  TypeOK => \A o \in Orders :
    /\ Returned(o) \in Nat /\ Promised(o) \in Nat
    /\ SumOf(Requested(o)) \in Nat
    /\ Promised(o) = Returned(o) + SumOf(Requested(o))
    /\ PreviousValue(o) \in Nat /\ RefundedValue(o) \in Nat
    /\ RefundedValue(o) <= PreviousValue(o)
    /\ SumOf({}) = 0 /\ AcceptedValue(o, {}) = 0
<1> SUFFICES ASSUME TypeOK, NEW o \in Orders
             PROVE  /\ Returned(o) \in Nat /\ Promised(o) \in Nat
                    /\ SumOf(Requested(o)) \in Nat
                    /\ Promised(o) = Returned(o) + SumOf(Requested(o))
                    /\ PreviousValue(o) \in Nat /\ RefundedValue(o) \in Nat
                    /\ RefundedValue(o) <= PreviousValue(o)
                    /\ SumOf({}) = 0 /\ AcceptedValue(o, {}) = 0
  OBVIOUS
<1>1. Completed(o) \in SUBSET RefundId /\ Requested(o) \in SUBSET RefundId
  BY DEF Completed, Requested, RefundsOf
<1>2. (Completed(o) \cup Requested(o)) \ Completed(o) = Requested(o)
  BY DEF Completed, Requested
<1>3. /\ Returned(o) \in Nat /\ Promised(o) \in Nat
      /\ SumOf(Requested(o)) \in Nat
      /\ Promised(o) = Returned(o) + SumOf(Requested(o))
  BY <1>1, <1>2, RefundSums DEF Returned, Promised
<1>4. /\ ReturnsIn(o, WithAccepted) \in SUBSET ReturnId
      /\ ReturnsIn(o, {"REFUNDED"}) \in SUBSET ReturnsIn(o, WithAccepted)
  BY DEF ReturnsIn, ReturnsOf, WithAccepted
<1>5. ReturnsIn(o, {"REFUNDED"}) \in SUBSET ReturnId
  BY <1>4
<1>6. /\ PreviousValue(o) \in Nat /\ RefundedValue(o) \in Nat
      /\ RefundedValue(o) <= PreviousValue(o)
      /\ AcceptedValue(o, {}) = 0
  BY <1>4, <1>5, ReturnSums DEF PreviousValue, RefundedValue
<1>7. SumOf({}) = 0
  BY SumEmpty DEF SumOf
<1> QED BY <1>3, <1>6, <1>7

-----------------------------------------------------------------------------
(* What a step leaves alone *)

\* The refunds of the order are the same, in the same state, of the same amounts.
SameRefundsOf(o) ==
  /\ Completed(o)' = Completed(o)
  /\ Requested(o)' = Requested(o)
  /\ \A r \in RefundsOf(o) : refunds'[r].amount = refunds[r].amount

\* The requests with something accepted are the same, and so is what was accepted.
SameReturnsOf(o) ==
  /\ ReturnsIn(o, WithAccepted)' = ReturnsIn(o, WithAccepted)
  /\ ReturnsIn(o, {"REFUNDED"})' = ReturnsIn(o, {"REFUNDED"})
  /\ \A k \in ReturnsIn(o, WithAccepted) :
       /\ returns'[k].accepted = returns[k].accepted
       /\ returns'[k].shippingRefunded = returns[k].shippingRefunded

\* Then what was refunded and what waits are the same sums.
LEMMA RefundFrame ==
  ASSUME NEW o \in Orders, SameRefundsOf(o)
  PROVE  Returned(o)' = Returned(o) /\ Promised(o)' = Promised(o)
<1>1. ASSUME NEW S \in SUBSET RefundsOf(o) PROVE SumOf(S)' = SumOf(S)
  BY <1>1, SameRefundSums DEF SameRefundsOf, RefundsOf
<1>2. SumOf(Completed(o))' = SumOf(Completed(o))
  BY <1>1 DEF SameRefundsOf, Completed
<1>3. SumOf(Completed(o) \cup Requested(o))' = SumOf(Completed(o) \cup Requested(o))
  BY <1>1 DEF SameRefundsOf, Completed, Requested
<1> QED BY <1>2, <1>3 DEF Returned, Promised

\* And so is the value of what was accepted.
LEMMA ReturnFrame ==
  ASSUME NEW o \in Orders, SameReturnsOf(o)
  PROVE  PreviousValue(o)' = PreviousValue(o) /\ RefundedValue(o)' = RefundedValue(o)
<1>1. ASSUME NEW S \in SUBSET ReturnsIn(o, WithAccepted)
      PROVE  AcceptedValue(o, S)' = AcceptedValue(o, S)
  BY <1>1, SameReturnSums DEF SameReturnsOf, ReturnsIn, ReturnsOf
<1>2. AcceptedValue(o, ReturnsIn(o, WithAccepted))' = AcceptedValue(o, ReturnsIn(o, WithAccepted))
  BY <1>1 DEF SameReturnsOf
<1>3. ReturnsIn(o, {"REFUNDED"}) \in SUBSET ReturnsIn(o, WithAccepted)
  BY DEF ReturnsIn, WithAccepted
<1>4. AcceptedValue(o, ReturnsIn(o, {"REFUNDED"}))' = AcceptedValue(o, ReturnsIn(o, {"REFUNDED"}))
  BY <1>1, <1>3 DEF SameReturnsOf
<1> QED BY <1>2, <1>4 DEF PreviousValue, RefundedValue

\* A request with something accepted belongs to an order that was paid and delivered.
LEMMA AcceptedIsPaid ==
  IndInv => \A o \in Orders : \A k \in ReturnsOf(o) : returns[k].status # "NONE" =>
              orders[o].status \in Returnable /\ orders[o].paymentStatus # "unpaid"
BY DEF IndInv, ReturnFollowsRefund, ReturnsOf

\* The books stay in balance while no sum changes.
LEMMA BooksFrame ==
  ASSUME IndInv, NEW o \in Orders, Balanced(o), SameRefundsOf(o), SameReturnsOf(o),
         orders'[o].paymentStatus = orders[o].paymentStatus,
         orders'[o].status \in Returnable => orders[o].status \in Returnable,
         orders[o].paymentStatus # "unpaid" => Received(o)' = Received(o)
  PROVE  Balanced(o)'
<1>1. ReturnsIn(o, WithAccepted) # {} => orders[o].paymentStatus # "unpaid"
  BY AcceptedIsPaid DEF ReturnsIn, WithAccepted
<1>2. /\ Returned(o)' = Returned(o) /\ Promised(o)' = Promised(o)
      /\ PreviousValue(o)' = PreviousValue(o) /\ RefundedValue(o)' = RefundedValue(o)
  BY RefundFrame, ReturnFrame
<1>3. /\ Completed(o)' = Completed(o)
      /\ ReturnsIn(o, WithAccepted)' = ReturnsIn(o, WithAccepted)
  BY DEF SameRefundsOf, SameReturnsOf
<1> QED BY <1>1, <1>2, <1>3 DEF Balanced

\* Rows that do not change leave the sums alone.
LEMMA UnchangedRows ==
  ASSUME NEW o \in Orders
  PROVE  /\ UNCHANGED refunds => SameRefundsOf(o)
         /\ UNCHANGED returns => SameReturnsOf(o) /\ (Parcels(o) => Parcels(o)')
<1>1. UNCHANGED refunds => SameRefundsOf(o)
  BY DEF SameRefundsOf, Completed, Requested, RefundsOf
<1>2. UNCHANGED returns => SameReturnsOf(o)
  BY DEF SameReturnsOf, ReturnsIn, ReturnsOf
<1>3. UNCHANGED returns => (Parcels(o) => Parcels(o)')
  BY DEF Parcels, ActiveQuantity, ReturnsIn, ReturnsOf
<1> QED BY <1>1, <1>2, <1>3

-----------------------------------------------------------------------------
(* What a refund does to the sums *)

\* A refund of amount is requested for order o, which had no other request.
Asks(o, k, amount) ==
  \E r \in RefundId :
    /\ refunds[r].status = "NONE"
    /\ refunds'[r].order = o
    /\ refunds'[r].status = "REQUESTED"
    /\ refunds'[r].amount = amount
    /\ refunds'[r].return = k
    /\ \A s \in RefundId \ {r} : refunds'[s] = refunds[s]
    /\ Requested(o) = {}

\* The smaller of two numbers.
LEMMA MinOfTwo ==
  ASSUME NEW a \in Int, NEW b \in Int
  PROVE  Min({a, b}) = IF a <= b THEN a ELSE b
BY DEF Min

\* createForCancelledOrder asks for all that is left of the money received, and
\* createForReturn for the part that the pieces are worth.
LEMMA RequestAsks ==
  ASSUME IndInv, SumsBooked, NEW o \in Orders, NEW k \in {Null} \cup ReturnId,
         orders[o].paymentStatus = "paid"
  PROVE  /\ CreateForCancelledOrder(o) =>
              Returned(o) < Received(o) /\ Asks(o, Null, Received(o) - Returned(o))
         /\ \A value, previous : CreateForReturn(o, k, value, previous) =>
              \E amount \in Nat \ {0} :
                /\ amount = Min({Prorate(Received(o), previous + value, Total[o])
                                   - Prorate(Received(o), previous, Total[o]),
                                 Received(o) - Returned(o)})
                /\ Asks(o, k, amount)
<1>1. /\ Received(o) \in Nat /\ Returned(o) \in Nat
      /\ \A a \in PaidAttempts(o) : \A x : ReceivedFor(a, x) <=> x = Received(o)
  BY ReceivedFacts, OrderSums DEF IndInv
<1>2. \A a \in AttemptId : PaidAttempt(o, a) => a \in PaidAttempts(o)
  BY DEF PaidAttempt, PaidAttempts
<1>3. refunds \in [RefundId -> Refund]
  BY DEF IndInv, TypeOK
<1>4. \A x : Min({x}) = x
  BY DEF Min
<1>5. ASSUME CreateForCancelledOrder(o)
      PROVE  Returned(o) < Received(o) /\ Asks(o, Null, Received(o) - Returned(o))
  <2>1. PICK a \in AttemptId, r \in RefundId, paid \in Amounts \cup {Total[o]} :
          LET remaining == paid - SumOf(Completed(o))
          IN  /\ PaidAttempt(o, a)
              /\ Requested(o) = {}
              /\ ReceivedFor(a, paid)
              /\ SumOf(Completed(o)) < paid
              /\ \E amount \in 1 .. remaining :
                   /\ amount = Min({remaining, remaining})
                   /\ IsNextRefund(r)
                   /\ refunds' = [refunds EXCEPT ![r] =
                        [order |-> o, status |-> "REQUESTED", attempt |-> a,
                         amount |-> amount, return |-> Null, reference |-> NoRef]]
    BY <1>5 DEF CreateForCancelledOrder, InsertRequest
  <2>2. paid = Received(o)
    BY <1>1, <1>2, <2>1
  <2>3. Returned(o) < Received(o)
    BY <2>1, <2>2 DEF Returned
  <2>4. refunds' = [refunds EXCEPT ![r] =
                     [order |-> o, status |-> "REQUESTED", attempt |-> a,
                      amount |-> Received(o) - Returned(o), return |-> Null, reference |-> NoRef]]
    BY <1>4, <2>1, <2>2 DEF Returned
  <2>5. Asks(o, Null, Received(o) - Returned(o))
    BY <1>3, <2>1, <2>4 DEF Asks, IsNextRefund
  <2> QED BY <2>3, <2>5
<1>6. ASSUME NEW value, NEW previous, CreateForReturn(o, k, value, previous)
      PROVE  \E amount \in Nat \ {0} :
                /\ amount = Min({Prorate(Received(o), previous + value, Total[o])
                                   - Prorate(Received(o), previous, Total[o]),
                                 Received(o) - Returned(o)})
                /\ Asks(o, k, amount)
  <2>1. PICK a \in AttemptId, r \in RefundId, paid \in Amounts \cup {Total[o]} :
          LET remaining == paid - SumOf(Completed(o))
          IN  /\ PaidAttempt(o, a)
              /\ Requested(o) = {}
              /\ ReceivedFor(a, paid)
              /\ SumOf(Completed(o)) < paid
              /\ \E amount \in 1 .. remaining :
                   /\ amount = Min({Prorate(paid, previous + value, Total[o])
                                      - Prorate(paid, previous, Total[o]), remaining})
                   /\ IsNextRefund(r)
                   /\ refunds' = [refunds EXCEPT ![r] =
                        [order |-> o, status |-> "REQUESTED", attempt |-> a,
                         amount |-> amount, return |-> k, reference |-> NoRef]]
    BY <1>6 DEF CreateForReturn, InsertRequest
  <2>2. paid = Received(o)
    BY <1>1, <1>2, <2>1
  <2>3. PICK amount \in 1 .. (Received(o) - Returned(o)) :
          /\ amount = Min({Prorate(Received(o), previous + value, Total[o])
                             - Prorate(Received(o), previous, Total[o]),
                           Received(o) - Returned(o)})
          /\ IsNextRefund(r)
          /\ refunds' = [refunds EXCEPT ![r] =
               [order |-> o, status |-> "REQUESTED", attempt |-> a,
                amount |-> amount, return |-> k, reference |-> NoRef]]
    BY <2>1, <2>2 DEF Returned
  <2>4. Asks(o, k, amount)
    BY <1>3, <2>1, <2>3 DEF Asks, IsNextRefund
  <2>5. amount \in Nat \ {0}
    BY <1>1
  <2> QED BY <2>3, <2>4, <2>5
<1> QED BY <1>5, <1>6

\* What was refunded stays, what is promised grows by the amount, and no other order
\* is concerned.
LEMMA AskSums ==
  ASSUME IndInv, NEW o \in Orders, NEW k, NEW amount \in Nat, Asks(o, k, amount)
  PROVE  /\ Completed(o)' = Completed(o)
         /\ Returned(o)' = Returned(o)
         /\ Promised(o)' = Returned(o) + amount
         /\ Requested(o)' # {} /\ SumOf(Requested(o))' = amount
         /\ \A p \in Orders \ {o} : SameRefundsOf(p)
<1>1. PICK r \in RefundId :
        /\ refunds[r].status = "NONE"
        /\ refunds'[r].order = o
        /\ refunds'[r].status = "REQUESTED"
        /\ refunds'[r].amount = amount
        /\ \A s \in RefundId \ {r} : refunds'[s] = refunds[s]
        /\ Requested(o) = {}
  BY DEF Asks
<1>2. refunds[r].order = NoOrder /\ refunds[r].order \notin Orders
  BY <1>1, ConstantsAssumption DEF IndInv, UnusedRows, NoRefundRow
<1>3. Completed(o)' = Completed(o) /\ Requested(o)' = {r} /\ r \notin Completed(o)
  BY <1>1, <1>2 DEF Completed, Requested, RefundsOf
<1>4. Completed(o) \in SUBSET RefundId
  BY DEF Completed, RefundsOf
<1>5. \A S \in SUBSET (RefundId \ {r}) : SumOf(S)' = SumOf(S)
  BY <1>1, SameRefundSums
<1>6. SumOf(Completed(o))' = SumOf(Completed(o))
  BY <1>3, <1>4, <1>5
<1>7. SumOf({r})' = amount
  <2> DEFINE g == [s \in RefundId |-> refunds'[s].amount]
  <2>1. g[r] = amount /\ amount + 0 = amount
    BY <1>1
  <2>2. SumOf({r})' = SumFunctionOnSet(g, {r})
    BY DEF SumOf
  <2> HIDE DEF g
  <2>3. SumFunctionOnSet(g, {} \cup {r}) = g[r] + SumFunctionOnSet(g, {})
    BY <2>1, SumAdd, FS_EmptySet
  <2> QED BY <2>1, <2>2, <2>3, SumEmpty
<1>8. SumOf(Completed(o) \cup {r})' = SumOf(Completed(o)) + amount
  <2> DEFINE g == [s \in RefundId |-> refunds'[s].amount]
             S == Completed(o)
  <2>1. /\ g[r] = amount /\ \A s \in S : g[s] = refunds[s].amount /\ refunds[s].amount \in Nat
        /\ IsFiniteSet(S)
    BY <1>1, <1>3, <1>4, FiniteTables, FS_Subset DEF IndInv, TypeOK, Refund
  <2>2. \A T : SumOf(T)' = SumFunctionOnSet(g, T)
    BY DEF SumOf
  <2> HIDE DEF g, S
  <2>3. SumFunctionOnSet(g, S \cup {r}) = g[r] + SumFunctionOnSet(g, S)
    BY <1>3, <2>1, SumAdd DEF S
  <2>4. SumFunctionOnSet(g, S) = SumOf(Completed(o))
    BY <1>3, <1>6, <2>2 DEF S
  <2>5. SumOf(Completed(o)) \in Nat
    BY <1>4, RefundSums DEF IndInv
  <2>6. SumFunctionOnSet(g, S \cup {r}) = SumOf(Completed(o)) + amount
    BY <2>1, <2>3, <2>4, <2>5
  <2> QED BY <1>3, <2>2, <2>6 DEF S
<1>9. \A p \in Orders \ {o} : SameRefundsOf(p)
  BY <1>1, <1>2 DEF SameRefundsOf, Completed, Requested, RefundsOf
<1> QED BY <1>3, <1>6, <1>7, <1>8, <1>9 DEF Returned, Promised

\* A completed refund was promised before; a rejected one no longer is.
LEMMA LeaveSums ==
  ASSUME IndInv, NEW r \in RefundId, NEW status \in {"COMPLETED", "REJECTED"},
         RefundLeaves(r, status), refunds'[r].amount = refunds[r].amount,
         NEW o \in Orders, o = refunds[r].order
  PROVE  /\ Promised(o) = Returned(o) + refunds[r].amount
         /\ Promised(o)' = Returned(o)'
         /\ status = "COMPLETED" => Returned(o)' = Promised(o) /\ Completed(o)' # {}
         /\ status = "REJECTED" => Returned(o)' = Returned(o) /\ Completed(o)' = Completed(o)
         /\ \A p \in Orders \ {o} : SameRefundsOf(p)
<1>1. Requested(o) = {r} /\ Requested(o)' = {}
  BY DEF RefundLeaves, IndInv, RefundsOfPayments, RefundsOf, Requested
<1>2. Completed(o)' = IF status = "COMPLETED" THEN Completed(o) \cup {r} ELSE Completed(o)
  BY DEF RefundLeaves, Completed, RefundsOf
<1>3. \A s \in RefundId : refunds'[s].amount = refunds[s].amount
  BY DEF RefundLeaves
<1>4. \A S \in SUBSET RefundId : SumOf(S)' = SumOf(S)
  BY <1>3, SameRefundSums
<1>5. Completed(o) \in SUBSET RefundId /\ r \notin Completed(o) /\ Completed(o) \cup {r} \in SUBSET RefundId
  BY DEF RefundLeaves, Completed, RefundsOf
<1>6. SumOf(Completed(o) \cup {r}) = SumOf(Completed(o)) + refunds[r].amount
  BY <1>5, RefundSums DEF IndInv
<1>7. Completed(o)' \in SUBSET RefundId /\ Completed(o)' \cup Requested(o)' = Completed(o)'
  BY <1>1, <1>2, <1>5
<1>8. SumOf(Completed(o))' = IF status = "COMPLETED" THEN SumOf(Completed(o) \cup {r})
                             ELSE SumOf(Completed(o))
  BY <1>2, <1>4, <1>5
<1>9. SumOf(Completed(o) \cup Requested(o))' = SumOf(Completed(o))'
  BY <1>7
<1>10. SumOf(Completed(o) \cup Requested(o)) = SumOf(Completed(o) \cup {r})
  BY <1>1
<1>11. \A p \in Orders \ {o} : SameRefundsOf(p)
  BY DEF RefundLeaves, SameRefundsOf, Completed, Requested, RefundsOf
<1> QED BY <1>2, <1>6, <1>8, <1>9, <1>10, <1>11 DEF Returned, Promised

-----------------------------------------------------------------------------
(* The handlers that deal in sessions and transfers *)

\* Every transfer on record carried a sum of money.
TransfersBooked ==
  \A k \in Keys : transactions[k].status # "NONE" => transactions[k].amount \in Amounts

\* Every refund is of something, and without a return it is of a cancelled order.
RefundsBooked ==
  \A r \in RefundId : refunds[r].status # "NONE" =>
    /\ refunds[r].amount > 0
    /\ refunds[r].return = Null => orders[refunds[r].order].status = "cancelled"

\* The two halves of SumsBooked.
LEMMA SumsBookedIs == SumsBooked <=> TransfersBooked /\ RefundsBooked
BY DEF SumsBooked, TransfersBooked, RefundsBooked

\* A confirmation and a delivery of the webhook record sums of money.
LEMMA RecordsBooked ==
  ASSUME IndInv, TransfersBooked,
         \/ \E o \in Orders, key \in Keys, a \in AttemptId, acceptMismatch \in BOOLEAN :
              \/ ConfirmRecorded(o, key, a, acceptMismatch)
              \/ \E amount \in Amounts : ConfirmEntered(o, key, a, amount, acceptMismatch)
         \/ \E ref \in Refs, amount \in Amounts :
              \/ \E status \in VerificationStatuses : WebhookUnlinked(ref, status, amount)
              \/ \E a \in AttemptId : WebhookForAttempt(ref, a, amount)
  PROVE  TransfersBooked'
<1>1. ASSUME NEW key \in Keys, NEW status, NEW a, NEW amount \in Amounts,
             Record(key, status, a, amount)
      PROVE  TransfersBooked'
  BY <1>1 DEF IndInv, TypeOK, Record, TransfersBooked
<1>2. ASSUME NEW o \in Orders, NEW key \in Keys, NEW a \in AttemptId,
             NEW acceptMismatch \in BOOLEAN, ConfirmRecorded(o, key, a, acceptMismatch)
      PROVE  TransfersBooked'
  <2>1. transactions[key].amount \in Amounts
    BY <1>2 DEF ConfirmRecorded, Confirmable, TransfersBooked
  <2> QED BY <1>1, <1>2, <2>1 DEF ConfirmRecorded
<1>3. ASSUME NEW o \in Orders, NEW key \in Keys, NEW a \in AttemptId,
             NEW acceptMismatch \in BOOLEAN, NEW amount \in Amounts,
             ConfirmEntered(o, key, a, amount, acceptMismatch)
      PROVE  TransfersBooked'
  BY <1>1, <1>3 DEF ConfirmEntered
<1>4. ASSUME NEW ref \in Refs, NEW amount \in Amounts, NEW status,
             WebhookUnlinked(ref, status, amount)
      PROVE  TransfersBooked'
  BY <1>1, <1>4, KeysType DEF WebhookUnlinked
<1>5. ASSUME NEW ref \in Refs, NEW amount \in Amounts, NEW a \in AttemptId,
             WebhookForAttempt(ref, a, amount)
      PROVE  TransfersBooked'
  BY <1>1, <1>5, KeysType DEF WebhookForAttempt
<1> QED BY <1>2, <1>3, <1>4, <1>5

\* The transactions that settled the payment of the order are the same.
SameSettling(o) ==
  /\ SettlingKeys(o)' = SettlingKeys(o)
  /\ \A k \in SettlingKeys(o) : transactions'[k] = transactions[k]

\* Then a paid order received the same sum.
LEMMA SettlingFrame ==
  ASSUME IndInv, NEW o \in Orders, SameSettling(o), orders[o].paymentStatus # "unpaid"
  PROVE  Received(o)' = Received(o)
<1>1. SettlingKeys(o) # {}
  BY DEF IndInv, OneTransactionPerPayment
<1> QED BY <1>1, SameReceived DEF SameSettling

\* A step that touches neither orders nor refunds nor returns, nor the transaction of a
\* payment, leaves the books in balance.
LEMMA QuietBooks ==
  ASSUME MoneyInv, UNCHANGED <<orders, refunds, returns>>, \A o \in Orders : SameSettling(o),
         NEW o \in Orders
  PROVE  Balanced(o)' /\ Parcels(o)'
<1>1. IndInv /\ SumsBooked /\ Balanced(o) /\ Parcels(o)
  BY MoneyInvIs
<1>2. orders[o].paymentStatus # "unpaid" => Received(o)' = Received(o)
  BY <1>1, SettlingFrame
<1>3. SameRefundsOf(o) /\ SameReturnsOf(o) /\ Parcels(o)'
  BY <1>1, UnchangedRows
<1> QED BY <1>1, <1>2, <1>3, BooksFrame

\* Sessions, the expiry job, and transfers recorded for review are such steps.
LEMMA QuietSteps ==
  ASSUME IndInv, SessionStep \/ \E key \in Keys : NoteStep(key)
  PROVE  UNCHANGED <<orders, refunds, returns>> /\ \A o \in Orders : SameSettling(o)
<1>1. CASE SessionStep
  BY <1>1 DEF IndInv, SessionStep, OneTransactionPerPayment, SameSettling, SettlingKeys,
              PaidAttempts, AttemptsOf
<1>2. ASSUME NEW key \in Keys, NoteStep(key)
      PROVE  UNCHANGED <<orders, refunds, returns>> /\ \A o \in Orders : SameSettling(o)
  BY <1>2 DEF NoteStep, SameSettling, SettlingKeys, AttemptsOf
<1> QED BY <1>1, <1>2

\* An order that was not paid has no refunds and no returns.
LEMMA UnpaidIsEmpty ==
  ASSUME IndInv, NEW o \in Orders, orders[o].paymentStatus = "unpaid"
  PROVE  /\ RefundsOf(o) = {}
         /\ \A k \in ReturnsOf(o) : returns[k].status = "NONE"
<1>1. RefundsOf(o) = {}
  BY DEF IndInv, RefundsOfPayments, PaidThroughOneAttempt
<1> QED BY <1>1, AcceptedIsPaid

\* A payment opens the books of its order with nothing to give back.
LEMMA PaymentBooks ==
  ASSUME MoneyInv, IndInv', TransfersBooked', NEW o \in Orders, NEW a \in AttemptId, NEW key \in Keys,
         PaymentStep(o, a, key)
  PROVE  RefundsBooked' /\ \A p \in Orders : Balanced(p)' /\ Parcels(p)'
<1> USE PaymentEffects
<1>0. IndInv /\ RefundsBooked /\ \A p \in Orders : Balanced(p) /\ Parcels(p)
  BY MoneyInvIs, SumsBookedIs
<1>1. a \in AttemptsOf(o) /\ orders[o].paymentStatus = "unpaid"
  BY DEF PaymentStep, Payable
<1>2. RefundsOf(o) = {} /\ \A k \in ReturnsOf(o) : returns[k].status = "NONE"
  BY <1>0, <1>1, UnpaidIsEmpty
<1>3. RefundsBooked'
  <2>1. \A r \in RefundId : refunds[r].status # "NONE" => refunds[r].order \in Orders \ {o}
    BY <1>0, <1>2 DEF IndInv, UnusedRows, RefundsOf
  <2> QED BY <1>0, <2>1 DEF RefundsBooked
<1>4. \A p \in Orders : Parcels(p)'
  BY <1>0, UnchangedRows
<1>5. ASSUME NEW p \in Orders \ {o} PROVE Balanced(p)'
  <2>1. SameSettling(p)
    BY <1>0, <1>1 DEF SameSettling, SettlingKeys, AttemptsOf
  <2>2. orders[p].paymentStatus # "unpaid" => Received(p)' = Received(p)
    BY <1>0, <2>1, SettlingFrame
  <2>3. SameRefundsOf(p) /\ SameReturnsOf(p) /\ orders'[p] = orders[p]
    BY <1>0, UnchangedRows
  <2> QED BY <1>0, <2>2, <2>3, BooksFrame
<1>6. Balanced(o)'
  <2>1. Completed(o)' = {} /\ (Completed(o) \cup Requested(o))' = {}
    BY <1>0, <1>2 DEF Completed, Requested, RefundsOf
  <2>2. Returned(o)' = 0 /\ Promised(o)' = 0
    BY <2>1, SumEmpty DEF Returned, Promised, SumOf
  <2>3. ReturnsIn(o, WithAccepted)' = {} /\ ReturnsIn(o, {"REFUNDED"})' = {}
    BY <1>0, <1>2 DEF ReturnsIn, WithAccepted, ReturnsOf
  <2>4. RefundedValue(o)' = 0
    BY <2>3, SumEmpty DEF RefundedValue, AcceptedValue
  <2>5. Received(o)' \in Nat
    <3>2. SumsBooked'
      BY <1>3, SumsBookedIs, PTL
    <3> QED BY <1>0, <3>2, ReceivedTypeNext
  <2>6. Prorate(Received(o)', 0, Total[o]) = 0
    BY DEF Prorate
  <2>7. orders'[o].paymentStatus = "paid"
    BY <1>0
  <2> QED BY <2>1, <2>2, <2>3, <2>4, <2>5, <2>6, <2>7 DEF Balanced
<1> QED BY <1>3, <1>4, <1>5, <1>6

-----------------------------------------------------------------------------
(* The handlers that cancel an order or move it on *)

\* An order that did not reach the customer has nothing to be sent back.
LEMMA NothingAccepted ==
  ASSUME IndInv, NEW o \in Orders, orders[o].status \notin Returnable
  PROVE  ReturnsIn(o, WithAccepted) = {} /\ ReturnsIn(o, {"REFUNDED"}) = {}
BY AcceptedIsPaid DEF ReturnsIn, WithAccepted

\* And unless it was cancelled no refund was ever requested for it.
LEMMA NothingRefunded ==
  ASSUME IndInv, RefundsBooked, NEW o \in Orders, orders[o].status \notin Returnable,
         orders[o].status # "cancelled"
  PROVE  RefundsOf(o) = {}
<1> SUFFICES ASSUME NEW r \in RefundsOf(o) PROVE FALSE
  OBVIOUS
<1>1. r \in RefundId /\ refunds[r].order = o /\ refunds[r].status # "NONE"
  BY ConstantsAssumption DEF RefundsOf, IndInv, UnusedRows, NoRefundRow
<1>2. refunds[r].return # Null
  BY <1>1 DEF RefundsBooked
<1>3. refunds[r].return \in ReturnId
  BY <1>1, <1>2 DEF IndInv, TypeOK, Refund
<1>4. refunds[r].return \in ReturnsOf(o) /\ returns[refunds[r].return].status # "NONE"
  BY <1>1, <1>2, <1>3 DEF IndInv, ReturnFollowsRefund, ReturnsOf
<1> QED BY <1>4, AcceptedIsPaid

\* A payment that is neither made nor undone keeps its transactions.
LEMMA SamePaymentsSettle ==
  ASSUME SamePayments PROVE \A o \in Orders : SameSettling(o)
BY DEF SamePayments, SameSettling, SettlingKeys, AttemptsOf

\* Asking for all that is left balances the books of a cancelled order: everything
\* received is refunded or waits to be.
LEMMA RestBooks ==
  ASSUME MoneyInv, NEW o \in Orders, orders[o].paymentStatus = "paid",
         orders[o].status \notin Returnable,
         Returned(o) < Received(o), Asks(o, Null, Received(o) - Returned(o)),
         orders'[o].status = "cancelled", orders'[o].paymentStatus = "paid",
         \A p \in Orders \ {o} : orders'[p] = orders[p],
         SamePayments, UNCHANGED returns
  PROVE  /\ RefundsBooked' /\ \A p \in Orders : Balanced(p)' /\ Parcels(p)'
         /\ Returned(o)' + SumOf(Requested(o))' = Received(o)
<1> DEFINE rest == Received(o) - Returned(o)
<1>1. IndInv /\ SumsBooked /\ RefundsBooked /\ \A p \in Orders : Balanced(p) /\ Parcels(p)
  BY MoneyInvIs, SumsBookedIs
<1>2. Received(o) \in Nat /\ Returned(o) \in Nat
  BY <1>1, ReceivedFacts, OrderSums DEF IndInv
<1>3. rest \in Nat /\ rest > 0 /\ Returned(o) + rest = Received(o)
  BY <1>2
<1>4. Asks(o, Null, rest)
  OBVIOUS
<1> HIDE DEF rest
<1>5. /\ Completed(o)' = Completed(o)
      /\ Returned(o)' = Returned(o)
      /\ Promised(o)' = Received(o)
      /\ SumOf(Requested(o))' = rest
      /\ \A p \in Orders \ {o} : SameRefundsOf(p)
  BY <1>1, <1>3, <1>4, AskSums
<1>6. RefundsBooked'
  <2>1. PICK r \in RefundId :
          /\ refunds'[r].order = o
          /\ refunds'[r].amount = rest
          /\ \A s \in RefundId \ {r} : refunds'[s] = refunds[s]
    BY <1>4 DEF Asks
  <2>2. \A s \in RefundId \ {r} : refunds[s].status # "NONE" => refunds[s].order \in Orders
    BY <1>1 DEF IndInv, UnusedRows
  <2> QED BY <1>1, <1>3, <2>1, <2>2 DEF RefundsBooked
<1>7. \A p \in Orders : /\ SameReturnsOf(p) /\ Parcels(p)'
                        /\ orders[p].paymentStatus # "unpaid" => Received(p)' = Received(p)
  BY <1>1, UnchangedRows, SamePaymentsSettle, SettlingFrame
<1>8. ASSUME NEW p \in Orders \ {o} PROVE Balanced(p)'
  BY <1>1, <1>5, <1>7, BooksFrame
<1>9. Balanced(o)'
  <2>1. ReturnsIn(o, WithAccepted)' = {}
    BY <1>1, <1>7, NothingAccepted DEF SameReturnsOf
  <2>2. Received(o)' = Received(o)
    BY <1>7
  <2>3. "cancelled" \notin Returnable
    BY DEF Returnable
  <2> QED BY <1>2, <1>5, <2>1, <2>2, <2>3 DEF Balanced
<1> QED BY <1>3, <1>5, <1>6, <1>7, <1>8, <1>9

\* Cancelling an order that did not reach the customer.
LEMMA CancelBooks ==
  ASSUME MoneyInv, NEW o \in Orders, CancelLocked(o), orders[o].status \notin Returnable
  PROVE  /\ RefundsBooked' /\ \A p \in Orders : Balanced(p)' /\ Parcels(p)'
         /\ orders[o].paymentStatus = "paid" =>
              Returned(o)' + SumOf(Requested(o))' = Received(o)
<1>0. IndInv /\ SumsBooked /\ RefundsBooked /\ \A p \in Orders : Balanced(p) /\ Parcels(p)
  BY MoneyInvIs, SumsBookedIs
<1>1. /\ orders'[o].status = "cancelled"
      /\ orders'[o].paymentStatus = orders[o].paymentStatus
      /\ \A p \in Orders \ {o} : orders'[p] = orders[p]
      /\ UNCHANGED <<transactions, returns>>
  BY <1>0 DEF CancelLocked, IndInv, TypeOK, Order
<1>2. \A a \in AttemptId :
        /\ attempts'[a].order = attempts[a].order
        /\ IF a \in PendingAttempts(o) THEN attempts'[a].status = "CANCELLED"
           ELSE attempts'[a] = attempts[a]
  BY <1>0 DEF CancelLocked, WithPendingCancelled, IndInv, TypeOK, PaymentAttempt
<1>3. \A p \in Orders : PaidAttempts(p)' = PaidAttempts(p)
  BY <1>2 DEF PaidAttempts, AttemptsOf, PendingAttempts
<1>4. SamePayments
  BY <1>1, <1>2, <1>3 DEF SamePayments
<1>5. CASE orders[o].paymentStatus = "paid"
  <2>1. Returned(o) < Received(o) /\ Asks(o, Null, Received(o) - Returned(o))
    BY <1>0, <1>5, RequestAsks DEF CancelLocked
  <2> QED BY <1>1, <1>4, <1>5, <2>1, RestBooks
<1>6. CASE orders[o].paymentStatus # "paid"
  <2>1. UNCHANGED refunds
    BY <1>6 DEF CancelLocked
  <2>2. RefundsBooked'
    <3>1. \A r \in RefundId : refunds[r].status # "NONE" => refunds[r].order \in Orders
      BY <1>0 DEF IndInv, UnusedRows
    <3> QED BY <1>0, <1>1, <2>1, <3>1 DEF RefundsBooked
  <2>3. \A p \in Orders :
          /\ SameRefundsOf(p) /\ SameReturnsOf(p) /\ Parcels(p)'
          /\ orders[p].paymentStatus # "unpaid" => Received(p)' = Received(p)
    BY <1>0, <1>1, <1>4, <2>1, UnchangedRows, SamePaymentsSettle, SettlingFrame
  <2>4. "cancelled" \notin Returnable
    BY DEF Returnable
  <2>5. \A p \in Orders : Balanced(p)'
    BY <1>0, <1>1, <2>3, <2>4, BooksFrame
  <2> QED BY <1>6, <2>2, <2>3, <2>5
<1> QED BY <1>5, <1>6

\* Moving an order on: when it is delivered nothing was refunded yet.
LEMMA MoveOrderBooks ==
  ASSUME MoneyInv, NEW o \in Orders, NEW status \in Transitions[orders[o].status],
         status # "cancelled", orders' = [orders EXCEPT ![o].status = status],
         UNCHANGED <<attempts, transactions, refunds, returns>>
  PROVE  RefundsBooked' /\ \A p \in Orders : Balanced(p)' /\ Parcels(p)'
<1>0. IndInv /\ SumsBooked /\ RefundsBooked /\ \A p \in Orders : Balanced(p) /\ Parcels(p)
  BY MoneyInvIs, SumsBookedIs
<1>1. /\ orders[o].status \in OrderStatuses
      /\ orders'[o].status = status
      /\ orders'[o].paymentStatus = orders[o].paymentStatus
      /\ \A p \in Orders \ {o} : orders'[p] = orders[p]
  BY <1>0 DEF IndInv, TypeOK, Order
<1>2. orders[o].status # "cancelled"
  BY <1>1, TransitionFacts
<1>3. RefundsBooked'
  <2>1. \A r \in RefundId : refunds[r].status # "NONE" => refunds[r].order \in Orders
    BY <1>0 DEF IndInv, UnusedRows
  <2> QED BY <1>0, <1>1, <1>2, <2>1 DEF RefundsBooked
<1>4. \A p \in Orders :
        /\ SameRefundsOf(p) /\ SameReturnsOf(p) /\ Parcels(p)'
        /\ orders[p].paymentStatus # "unpaid" => Received(p)' = Received(p)
  <2>1. SamePayments
    BY <1>1 DEF SamePayments, PaidAttempts, AttemptsOf
  <2> QED BY <1>0, <2>1, UnchangedRows, SamePaymentsSettle, SettlingFrame
<1>5. ASSUME NEW p \in Orders, p # o \/ orders[o].status \in Returnable PROVE Balanced(p)'
  BY <1>0, <1>1, <1>4, <1>5, BooksFrame
<1>6. CASE orders[o].status \notin Returnable
  <2>1. RefundsOf(o) = {} /\ ReturnsIn(o, WithAccepted) = {} /\ ReturnsIn(o, {"REFUNDED"}) = {}
    BY <1>0, <1>2, <1>6, NothingRefunded, NothingAccepted
  <2>2. Completed(o) = {} /\ Requested(o) = {}
    BY <2>1 DEF Completed, Requested
  <2>3. /\ Completed(o)' = {} /\ Returned(o)' = Returned(o) /\ Promised(o)' = Promised(o)
        /\ ReturnsIn(o, WithAccepted)' = {} /\ RefundedValue(o)' = RefundedValue(o)
    BY <1>4, <2>1, <2>2, RefundFrame, ReturnFrame DEF SameRefundsOf, SameReturnsOf
  <2>4. Returned(o) = 0 /\ Promised(o) = 0 /\ RefundedValue(o) = 0
    BY <1>0, <2>1, <2>2, OrderSums DEF Returned, Promised, RefundedValue, IndInv
  <2>5. Prorate(Received(o)', 0, Total[o]) = 0
    BY DEF Prorate
  <2>6. Balanced(o)'
    BY <1>0, <1>1, <1>4, <2>2, <2>3, <2>4, <2>5 DEF Balanced
  <2> QED BY <1>3, <1>4, <1>5, <2>6
<1> QED BY <1>3, <1>4, <1>5, <1>6

-----------------------------------------------------------------------------
(* The handlers that end a refund *)

\* Nothing more is sent back than before, so nothing is sent back twice.
LEMMA ParcelsFrame ==
  ASSUME TypeOK, NEW o \in Orders, Parcels(o), ReturnsOf(o)' = ReturnsOf(o),
         \A k \in ReturnsOf(o) :
           /\ returns'[k].quantity = returns[k].quantity
           /\ returns'[k].status \in Active => returns[k].status \in Active
           /\ returns'[k].shippingRefunded => returns[k].shippingRefunded
  PROVE  Parcels(o)'
<1>1. ASSUME NEW l \in Lines PROVE ActiveQuantity(o, l)' <= Quantity[o][l]
  <2> DEFINE f == [k \in ReturnId |-> returns[k].quantity[l]]
             g == [k \in ReturnId |-> returns'[k].quantity[l]]
             S == ReturnsIn(o, Active)
             P == ReturnsIn(o, Active)'
  <2>1. S \in SUBSET ReturnId /\ P \in SUBSET S
    BY DEF ReturnsIn, ReturnsOf
  <2>2. \A k \in S : f[k] \in Nat
    BY DEF TypeOK, ReturnRequest, Pieces, ReturnsIn, ReturnsOf
  <2>3. \A k \in P : g[k] = f[k]
    BY <2>1 DEF ReturnsIn, ReturnsOf
  <2>4. IsFiniteSet(S) /\ IsFiniteSet(P)
    BY <2>1, FiniteTables, FS_Subset
  <2>5. ActiveQuantity(o, l) = SumFunctionOnSet(f, S) /\ ActiveQuantity(o, l)' = SumFunctionOnSet(g, P)
    BY DEF ActiveQuantity
  <2>6. Quantity[o][l] \in Nat
    BY ConstantsAssumption DEF Pieces
  <2> HIDE DEF f, g, S, P
  <2>7. SumFunctionOnSet(g, P) = SumFunctionOnSet(f, P)
    BY <2>3, <2>4, SumSame
  <2>8. SumFunctionOnSet(f, P) <= SumFunctionOnSet(f, S)
    BY <2>1, <2>2, <2>4, SumPart
  <2>9. SumFunctionOnSet(f, P) \in Nat /\ SumFunctionOnSet(f, S) \in Nat
    BY <2>1, <2>2, <2>4, SumType
  <2>10. ActiveQuantity(o, l) <= Quantity[o][l]
    BY DEF Parcels
  <2> QED BY <2>5, <2>6, <2>7, <2>8, <2>9, <2>10
<1>2. \A j, k \in ReturnsOf(o)' :
        returns'[j].shippingRefunded /\ returns'[k].shippingRefunded => j = k
  BY DEF Parcels
<1> QED BY <1>1, <1>2 DEF Parcels

\* A parcel that is here waits for a requested refund of its order.
LEMMA ReceivedWaits ==
  ASSUME IndInv, NEW o \in Orders, NEW k \in ReturnsOf(o), returns[k].status = "RECEIVED"
  PROVE  \E r \in Requested(o) : refunds[r].return = k
<1>1. PICK r \in RefundsFor(k, "REQUESTED") : TRUE
  BY DEF IndInv, ReturnFollowsRefund, ReturnsOf
<1>2. refunds[r].return # Null
  BY <1>1 DEF RefundsFor, ReturnsOf, ReturnId, Null
<1>3. refunds[r].order = o
  BY <1>1, <1>2 DEF IndInv, ReturnFollowsRefund, RefundsFor, ReturnsOf
<1> QED BY <1>1, <1>3 DEF RefundsFor, Requested, RefundsOf

\* Facts about the order of a refund that waits.
LEMMA WaitingRefund ==
  ASSUME IndInv, NEW r \in RefundId, refunds[r].status = "REQUESTED"
  PROVE  /\ refunds[r].order \in Orders
         /\ orders[refunds[r].order].paymentStatus = "paid"
         /\ refunds[r].attempt \in PaidAttempts(refunds[r].order)
         /\ \A k \in ReturnsIn(refunds[r].order, {"RECEIVED"}) : k = refunds[r].return
<1>1. refunds[r].order \in Orders
  BY DEF IndInv, UnusedRows
<1>2. /\ orders[refunds[r].order].paymentStatus = "paid"
      /\ refunds[r].attempt \in PaidAttempts(refunds[r].order)
      /\ \A s \in Requested(refunds[r].order) : s = r
  BY <1>1 DEF IndInv, RefundsOfPayments, RefundsOf
<1>3. \A k \in ReturnsIn(refunds[r].order, {"RECEIVED"}) : k = refunds[r].return
  BY <1>1, <1>2, ReceivedWaits DEF ReturnsIn
<1> QED BY <1>1, <1>2, <1>3

\* The end of a refund keeps every refund booked.
LEMMA LeavesBookedSums ==
  ASSUME IndInv, RefundsBooked, NEW r \in RefundId, NEW status \in {"COMPLETED", "REJECTED"},
         RefundLeaves(r, status), refunds'[r].amount = refunds[r].amount
  PROVE  RefundsBooked'
<1>1. \A s \in RefundId : refunds[s].status # "NONE" => refunds[s].order \in Orders
  BY DEF IndInv, UnusedRows
<1> QED BY <1>1 DEF RefundLeaves, RefundsBooked

\* An order other than that of the refund is not concerned.
LEMMA LeavesOthers ==
  ASSUME MoneyInv, NEW r \in RefundId, NEW status \in {"COMPLETED", "REJECTED"},
         RefundLeaves(r, status), refunds'[r].amount = refunds[r].amount,
         \A k \in ReturnId : returns'[k].order = returns[k].order,
         \A k \in ReturnId : k # refunds[r].return => returns'[k] = returns[k]
  PROVE  \A p \in Orders \ {refunds[r].order} : Balanced(p)' /\ Parcels(p)'
<1> SUFFICES ASSUME NEW p \in Orders \ {refunds[r].order} PROVE Balanced(p)' /\ Parcels(p)'
  OBVIOUS
<1>0. IndInv /\ SumsBooked /\ Balanced(p) /\ Parcels(p) /\ TypeOK
  BY MoneyInvIs DEF IndInv
<1>1. refunds[r].order \in Orders
  BY <1>0, WaitingRefund DEF RefundLeaves
<1>2. SameRefundsOf(p)
  BY <1>0, <1>1, LeaveSums
<1>3. \A k \in ReturnsOf(p) : returns'[k] = returns[k]
  BY <1>0 DEF IndInv, ReturnFollowsRefund, ReturnsOf, Null, ReturnId
<1>4. ReturnsOf(p)' = ReturnsOf(p)
  BY DEF ReturnsOf
<1>5. SameReturnsOf(p)
  BY <1>3, <1>4 DEF SameReturnsOf, ReturnsIn
<1>6. Parcels(p)'
  BY <1>0, <1>3, <1>4, ParcelsFrame
<1>7. SameSettling(p)
  BY DEF RefundLeaves, SameSettling, SettlingKeys, AttemptsOf
<1>8. orders[p].paymentStatus # "unpaid" => Received(p)' = Received(p)
  BY <1>0, <1>7, SettlingFrame
<1>9. orders'[p] = orders[p]
  BY DEF RefundLeaves
<1> QED BY <1>0, <1>2, <1>5, <1>6, <1>8, <1>9, BooksFrame

\* Completing a refund: what was promised is returned now, and the order counts as
\* refunded exactly if that is all the money received.
LEMMA CompleteBooksOf ==
  ASSUME MoneyInv, NEW r \in RefundId, NEW reference \in BankRefs, CompleteRefund(r, reference),
         NEW o \in Orders, o = refunds[r].order, NEW k, k = refunds[r].return
  PROVE  Balanced(o)' /\ Parcels(o)'
<1>0. IndInv /\ SumsBooked /\ RefundsBooked /\ TypeOK
  BY MoneyInvIs, SumsBookedIs DEF IndInv
<1>1. /\ RefundLeaves(r, "COMPLETED")
      /\ returns' = MarkReturnRefunded(k)
  BY <1>0, CompleteLeaves
<1>2. refunds'[r].amount = refunds[r].amount
  BY <1>0 DEF CompleteRefund, TypeOK, Refund
<1>3. /\ o \in Orders
      /\ orders[o].paymentStatus = "paid"
      /\ refunds[r].attempt \in PaidAttempts(o)
      /\ \A j \in ReturnsIn(o, {"RECEIVED"}) : j = k
  BY <1>0, <1>1, WaitingRefund DEF RefundLeaves
<1>4. Balanced(o) /\ Parcels(o)
  BY <1>3, MoneyInvIs
<1>5. /\ Promised(o) = Returned(o) + refunds[r].amount
      /\ Promised(o)' = Returned(o)'
      /\ Returned(o)' = Promised(o) /\ Completed(o)' # {}
  BY <1>0, <1>1, <1>2, <1>3, LeaveSums
<1>6. ASSUME NEW j \in ReturnId
      PROVE  /\ returns'[j].order = returns[j].order
             /\ returns'[j].quantity = returns[j].quantity
             /\ returns'[j].accepted = returns[j].accepted
             /\ returns'[j].shippingRefunded = returns[j].shippingRefunded
             /\ returns'[j].status = IF j = k THEN "REFUNDED" ELSE returns[j].status
             /\ j = k => returns[j].status = "RECEIVED"
             /\ j # k => returns'[j] = returns[j]
  <2>1. returns[j] \in ReturnRequest
    BY <1>0 DEF TypeOK
  <2>2. j = k => returns[j].status = "RECEIVED"
    BY <1>0, <1>1, LeavesReturn
  <2>3. returns'[j] = IF j = k THEN [returns[j] EXCEPT !.status = "REFUNDED"] ELSE returns[j]
    BY <1>1, <2>2 DEF MarkReturnRefunded
  <2> QED BY <2>1, <2>2, <2>3 DEF ReturnRequest
<1>7. ReturnsOf(o)' = ReturnsOf(o)
  BY <1>6 DEF ReturnsOf
<1>8. Parcels(o)'
  <2>1. \A j \in ReturnsOf(o) :
          /\ returns'[j].quantity = returns[j].quantity
          /\ returns'[j].status \in Active => returns[j].status \in Active
          /\ returns'[j].shippingRefunded => returns[j].shippingRefunded
    BY <1>6 DEF ReturnsOf, Active
  <2> QED BY <1>0, <1>3, <1>4, <1>7, <2>1, ParcelsFrame
<1>9. /\ ReturnsIn(o, WithAccepted)' = ReturnsIn(o, WithAccepted)
      /\ ReturnsIn(o, {"REFUNDED"})' = ReturnsIn(o, WithAccepted)
  <2>1. \A j \in ReturnsOf(o) : j \in ReturnId
    BY DEF ReturnsOf
  <2>2. ReturnsIn(o, WithAccepted)' = ReturnsIn(o, WithAccepted)
    BY <1>6, <1>7, <2>1 DEF ReturnsIn, WithAccepted
  <2>3. ReturnsIn(o, {"REFUNDED"})' = ReturnsIn(o, WithAccepted)
    BY <1>3, <1>6, <1>7, <2>1 DEF ReturnsIn, WithAccepted
  <2> QED BY <2>2, <2>3
<1>10. PreviousValue(o)' = PreviousValue(o) /\ RefundedValue(o)' = PreviousValue(o)
  <2>1. ReturnsIn(o, WithAccepted) \in SUBSET ReturnId
    BY DEF ReturnsIn, ReturnsOf
  <2>2. AcceptedValue(o, ReturnsIn(o, WithAccepted))' = AcceptedValue(o, ReturnsIn(o, WithAccepted))
    <3>1. \A S \in SUBSET ReturnId : AcceptedValue(o, S)' = AcceptedValue(o, S)
      BY <1>3, <1>6, SameReturnSums
    <3> QED BY <1>9, <2>1, <3>1
  <2>3. AcceptedValue(o, ReturnsIn(o, {"REFUNDED"}))' = AcceptedValue(o, ReturnsIn(o, WithAccepted))
    <3>1. \A S \in SUBSET ReturnId : AcceptedValue(o, S)' = AcceptedValue(o, S)
      BY <1>3, <1>6, SameReturnSums
    <3> QED BY <1>9, <2>1, <3>1
  <2> QED BY <2>2, <2>3 DEF PreviousValue, RefundedValue
<1>11. Received(o)' = Received(o) /\ Received(o) \in Nat
  <2>1. SameSettling(o)
    BY <1>1 DEF RefundLeaves, SameSettling, SettlingKeys, AttemptsOf
  <2> QED BY <1>0, <1>3, <2>1, SettlingFrame, ReceivedType
<1>12. orders'[o].status = orders[o].status
  BY <1>1, <1>3 DEF RefundLeaves
<1>13. orders'[o].paymentStatus = IF Promised(o) = Received(o) THEN "refunded" ELSE "paid"
  <2>1. PICK paid \in Amounts \cup {Total[o]} :
          /\ ReceivedFor(refunds[r].attempt, paid)
          /\ orders' = IF SumOf(Completed(o)) + refunds[r].amount = paid
                       THEN [orders EXCEPT ![o].paymentStatus = "refunded"] ELSE orders
    BY DEF CompleteRefund
  <2>2. paid = Received(o)
    BY <1>0, <1>3, <2>1, ReceivedFacts
  <2>3. orders \in [Orders -> Order]
    BY <1>0 DEF TypeOK
  <2> QED BY <1>3, <1>5, <2>1, <2>2, <2>3 DEF Returned, Order
<1>14. Balanced(o)'
  <2>1. Promised(o)' <= Received(o)'
    BY <1>3, <1>4, <1>5, <1>11 DEF Balanced
  <2>2. orders'[o].paymentStatus = "refunded" <=> Completed(o)' # {} /\ Returned(o)' = Received(o)'
    BY <1>5, <1>11, <1>13
  <2>3. ReturnsIn(o, WithAccepted)' # {} =>
          /\ PreviousValue(o)' <= Total[o]
          /\ Promised(o)' = Prorate(Received(o)', PreviousValue(o)', Total[o])
    BY <1>4, <1>5, <1>9, <1>10, <1>11 DEF Balanced
  <2>4. orders[o].status \in Returnable =>
          Returned(o)' = Prorate(Received(o)', RefundedValue(o)', Total[o])
    <3>1. SUFFICES ASSUME orders[o].status \in Returnable
                   PROVE  Returned(o)' = Prorate(Received(o)', RefundedValue(o)', Total[o])
      OBVIOUS
    <3>2. k \in ReturnId
      <4>1. k # Null
        BY <1>0, <1>1, <3>1 DEF RefundsBooked, RefundLeaves, Returnable
      <4> QED BY <1>0, <4>1 DEF TypeOK, Refund
    <3>3. k \in ReturnsIn(o, WithAccepted)
      BY <1>0, <1>6, <3>2 DEF IndInv, ReturnFollowsRefund, ReturnsIn, ReturnsOf, WithAccepted,
                               ReturnId, Null
    <3> QED BY <1>4, <1>5, <1>10, <1>11, <3>3 DEF Balanced
  <2> QED BY <1>12, <2>1, <2>2, <2>3, <2>4 DEF Balanced
<1> QED BY <1>8, <1>14

\* No other order is concerned.
LEMMA CompleteBooks ==
  ASSUME MoneyInv, NEW r \in RefundId, NEW reference \in BankRefs, CompleteRefund(r, reference)
  PROVE  RefundsBooked' /\ \A p \in Orders : Balanced(p)' /\ Parcels(p)'
<1>0. IndInv /\ SumsBooked /\ RefundsBooked /\ TypeOK
  BY MoneyInvIs, SumsBookedIs DEF IndInv
<1>1. /\ RefundLeaves(r, "COMPLETED")
      /\ returns' = MarkReturnRefunded(refunds[r].return)
  BY <1>0, CompleteLeaves
<1>2. refunds'[r].amount = refunds[r].amount
  BY <1>0 DEF CompleteRefund, TypeOK, Refund
<1>3. ASSUME NEW j \in ReturnId
      PROVE  /\ returns'[j].order = returns[j].order
             /\ j # refunds[r].return => returns'[j] = returns[j]
  BY <1>0, <1>1 DEF MarkReturnRefunded, TypeOK, ReturnRequest
<1>4. \A p \in Orders \ {refunds[r].order} : Balanced(p)' /\ Parcels(p)'
  BY <1>1, <1>2, <1>3, LeavesOthers
<1>5. ASSUME NEW o \in Orders, o = refunds[r].order PROVE Balanced(o)' /\ Parcels(o)'
  BY <1>5, CompleteBooksOf
<1>6. RefundsBooked'
  BY <1>0, <1>1, <1>2, LeavesBookedSums
<1> QED BY <1>4, <1>5, <1>6

\* Rejecting a refund: nothing waits any more, what was accepted with the parcel is taken
\* back, and the refunds completed before still add up by themselves.
LEMMA RejectBooksOf ==
  ASSUME MoneyInv, NEW r \in RefundId, RejectRefund(r),
         NEW o \in Orders, o = refunds[r].order, NEW k, k = refunds[r].return,
         RefundLeaves(r, "REJECTED"), refunds'[r].amount = refunds[r].amount,
         \A j \in ReturnId :
           /\ returns'[j].order = returns[j].order
           /\ returns'[j].quantity = returns[j].quantity
           /\ returns'[j].status = IF j = k THEN "APPROVED" ELSE returns[j].status
           /\ returns'[j].shippingRefunded => returns[j].shippingRefunded
           /\ j = k => returns[j].status = "RECEIVED"
           /\ j # k => returns'[j] = returns[j]
  PROVE  Balanced(o)' /\ Parcels(o)'
<1>0. IndInv /\ SumsBooked /\ RefundsBooked /\ TypeOK /\ Balanced(o) /\ Parcels(o)
  BY MoneyInvIs, SumsBookedIs DEF IndInv
<1>1. /\ orders[o].paymentStatus = "paid"
      /\ \A j \in ReturnsIn(o, {"RECEIVED"}) : j = k
  BY <1>0, WaitingRefund DEF RefundLeaves
<1>2. /\ Promised(o) = Returned(o) + refunds[r].amount
      /\ Promised(o)' = Returned(o)'
      /\ Returned(o)' = Returned(o) /\ Completed(o)' = Completed(o)
  BY <1>0, LeaveSums
<1>3. ReturnsOf(o)' = ReturnsOf(o) /\ \A j \in ReturnsOf(o) : j \in ReturnId
  BY DEF ReturnsOf
<1>4. Parcels(o)'
  <2>1. \A j \in ReturnsOf(o) :
          /\ returns'[j].quantity = returns[j].quantity
          /\ returns'[j].status \in Active => returns[j].status \in Active
          /\ returns'[j].shippingRefunded => returns[j].shippingRefunded
    BY <1>3 DEF Active
  <2> QED BY <1>0, <1>3, <2>1, ParcelsFrame
<1>5. /\ ReturnsIn(o, WithAccepted)' = ReturnsIn(o, {"REFUNDED"})
      /\ ReturnsIn(o, {"REFUNDED"})' = ReturnsIn(o, {"REFUNDED"})
  <2>1. ReturnsIn(o, WithAccepted)' = ReturnsIn(o, {"REFUNDED"})
    BY <1>1, <1>3 DEF ReturnsIn, WithAccepted
  <2>2. ReturnsIn(o, {"REFUNDED"})' = ReturnsIn(o, {"REFUNDED"})
    BY <1>1, <1>3 DEF ReturnsIn
  <2> QED BY <2>1, <2>2
<1>6. PreviousValue(o)' = RefundedValue(o) /\ RefundedValue(o)' = RefundedValue(o)
  <2>1. \A S \in SUBSET ReturnsIn(o, {"REFUNDED"}) : AcceptedValue(o, S)' = AcceptedValue(o, S)
    <3>1. \A j \in ReturnsIn(o, {"REFUNDED"}) : j \in ReturnId /\ returns'[j] = returns[j]
      BY <1>3 DEF ReturnsIn
    <3> QED BY <3>1, SameReturnSums
  <2>2. AcceptedValue(o, ReturnsIn(o, WithAccepted))' = AcceptedValue(o, ReturnsIn(o, {"REFUNDED"}))
    BY <1>5, <2>1
  <2>3. AcceptedValue(o, ReturnsIn(o, {"REFUNDED"}))' = AcceptedValue(o, ReturnsIn(o, {"REFUNDED"}))
    BY <1>5, <2>1
  <2> QED BY <2>2, <2>3 DEF PreviousValue, RefundedValue
<1>7. Received(o)' = Received(o) /\ Received(o) \in Nat
  <2>1. SameSettling(o)
    BY DEF RefundLeaves, SameSettling, SettlingKeys, AttemptsOf
  <2> QED BY <1>0, <1>1, <2>1, SettlingFrame, ReceivedType
<1>8. orders'[o] = orders[o]
  BY DEF RejectRefund
<1>9. /\ Returned(o) \in Nat /\ Promised(o) \in Nat /\ Returned(o) <= Promised(o)
      /\ RefundedValue(o) <= PreviousValue(o)
      /\ RefundedValue(o) \in Nat /\ PreviousValue(o) \in Nat
      /\ Total[o] \in Nat
  BY <1>0, OrderSums, ConstantsAssumption
<1>10. Balanced(o)'
  <2>1. Promised(o)' <= Received(o)'
    <3>1. Promised(o) <= Received(o)
      BY <1>0, <1>1 DEF Balanced
    <3> QED BY <1>2, <1>7, <1>9, <3>1
  <2>2. orders'[o].paymentStatus = "refunded" <=> Completed(o)' # {} /\ Returned(o)' = Received(o)'
    BY <1>0, <1>1, <1>2, <1>7, <1>8 DEF Balanced
  <2>3. ASSUME ReturnsIn(o, WithAccepted)' # {}
        PROVE  /\ PreviousValue(o)' <= Total[o]
               /\ Promised(o)' = Prorate(Received(o)', PreviousValue(o)', Total[o])
    <3>1. PICK j \in ReturnsIn(o, {"REFUNDED"}) : TRUE
      BY <1>5, <2>3
    <3>2. j \in ReturnsIn(o, WithAccepted) /\ orders[o].status \in Returnable
      BY <1>0, AcceptedIsPaid DEF ReturnsIn, WithAccepted
    <3>3. PreviousValue(o) <= Total[o]
      BY <1>0, <3>2 DEF Balanced
    <3>4. Returned(o) = Prorate(Received(o), RefundedValue(o), Total[o])
      BY <1>0, <1>1, <3>2 DEF Balanced
    <3>5. RefundedValue(o) <= Total[o]
      BY <1>9, <3>3
    <3> QED BY <1>2, <1>6, <1>7, <3>4, <3>5
  <2>4. orders[o].status \in Returnable =>
          Returned(o)' = Prorate(Received(o)', RefundedValue(o)', Total[o])
    BY <1>0, <1>1, <1>2, <1>6, <1>7 DEF Balanced
  <2> QED BY <1>8, <2>1, <2>2, <2>3, <2>4 DEF Balanced
<1> QED BY <1>4, <1>10

\* No other order is concerned.
LEMMA RejectBooks ==
  ASSUME MoneyInv, NEW r \in RefundId, RejectRefund(r)
  PROVE  RefundsBooked' /\ \A p \in Orders : Balanced(p)' /\ Parcels(p)'
<1>0. IndInv /\ SumsBooked /\ RefundsBooked /\ TypeOK
  BY MoneyInvIs, SumsBookedIs DEF IndInv
<1>1. /\ RefundLeaves(r, "REJECTED")
      /\ returns' = ReopenReturn(refunds[r].return)
  BY <1>0, RejectLeaves
<1>2. refunds'[r].amount = refunds[r].amount
  BY <1>0 DEF RejectRefund, TypeOK, Refund
<1>3. ASSUME NEW j \in ReturnId
      PROVE  /\ returns'[j].order = returns[j].order
             /\ returns'[j].quantity = returns[j].quantity
             /\ returns'[j].status = IF j = refunds[r].return THEN "APPROVED" ELSE returns[j].status
             /\ returns'[j].shippingRefunded => returns[j].shippingRefunded
             /\ j = refunds[r].return => returns[j].status = "RECEIVED"
             /\ j # refunds[r].return => returns'[j] = returns[j]
  <2>1. returns[j] \in ReturnRequest
    BY <1>0 DEF TypeOK
  <2>2. j = refunds[r].return => returns[j].status = "RECEIVED"
    BY <1>0, <1>1, LeavesReturn
  <2>3. returns'[j] = IF j # refunds[r].return THEN returns[j]
                      ELSE [returns[j] EXCEPT !.status = "APPROVED", !.accepted = NoPieces,
                                              !.shippingRefunded = FALSE]
    BY <1>1, <2>2 DEF ReopenReturn
  <2> QED BY <2>1, <2>2, <2>3 DEF ReturnRequest
<1>4. \A p \in Orders \ {refunds[r].order} : Balanced(p)' /\ Parcels(p)'
  BY <1>1, <1>2, <1>3, LeavesOthers
<1>5. ASSUME NEW o \in Orders, o = refunds[r].order PROVE Balanced(o)' /\ Parcels(o)'
  BY <1>1, <1>2, <1>3, <1>5, RejectBooksOf
<1>6. RefundsBooked'
  BY <1>0, <1>1, <1>2, LeavesBookedSums
<1> QED BY <1>4, <1>5, <1>6

-----------------------------------------------------------------------------
(* The handlers of return requests *)

\* What is added to a request keeps within what was bought.
LEMMA CreateReturnBooks ==
  ASSUME MoneyInv, NEW o \in Orders, NEW quantity \in PiecesOf(o), CreateReturn(o, quantity)
  PROVE  RefundsBooked' /\ \A p \in Orders : Balanced(p)' /\ Parcels(p)'
<1>0. IndInv /\ TypeOK /\ RefundsBooked /\ \A p \in Orders : Balanced(p) /\ Parcels(p)
  BY MoneyInvIs, SumsBookedIs DEF IndInv
<1>1. PICK k \in ReturnId :
        /\ returns[k].status = "NONE"
        /\ returns' = [returns EXCEPT ![k] =
             [order |-> o, status |-> "REQUESTED", quantity |-> quantity,
              accepted |-> NoPieces, shippingRefunded |-> FALSE]]
  BY DEF CreateReturn, IsNextReturn
<1>2. /\ returns'[k].order = o /\ returns'[k].status = "REQUESTED"
      /\ returns'[k].quantity = quantity /\ returns'[k].shippingRefunded = FALSE
      /\ \A j \in ReturnId \ {k} : returns'[j] = returns[j]
  BY <1>0, <1>1 DEF TypeOK
<1>3. UNCHANGED <<orders, attempts, transactions, refunds, account>>
  BY DEF CreateReturn
<1>4. RefundsBooked'
  BY <1>0, <1>3 DEF RefundsBooked
<1>5. ASSUME NEW p \in Orders PROVE Balanced(p)'
  <2>1. SameRefundsOf(p)
    BY <1>3, UnchangedRows
  <2>2. SameReturnsOf(p)
    <3>1. k \notin ReturnsIn(p, WithAccepted) /\ k \notin ReturnsIn(p, {"REFUNDED"})
      BY <1>1 DEF ReturnsIn, WithAccepted
    <3>2. ReturnsIn(p, WithAccepted)' = ReturnsIn(p, WithAccepted)
      BY <1>2, <3>1 DEF ReturnsIn, ReturnsOf, WithAccepted
    <3>3. ReturnsIn(p, {"REFUNDED"})' = ReturnsIn(p, {"REFUNDED"})
      BY <1>2, <3>1 DEF ReturnsIn, ReturnsOf
    <3> QED BY <1>2, <3>1, <3>2, <3>3 DEF SameReturnsOf, ReturnsIn, ReturnsOf
  <2>3. orders[p].paymentStatus # "unpaid" => Received(p)' = Received(p)
    <3>1. SameSettling(p)
      BY <1>3 DEF SameSettling, SettlingKeys, AttemptsOf
    <3> QED BY <1>0, <3>1, SettlingFrame
  <2> QED BY <1>0, <1>3, <2>1, <2>2, <2>3, BooksFrame
<1>6. ASSUME NEW p \in Orders PROVE Parcels(p)'
  <2>1. \A i, j \in ReturnsOf(p)' :
          returns'[i].shippingRefunded /\ returns'[j].shippingRefunded => i = j
    BY <1>0, <1>2 DEF Parcels, ReturnsOf
  <2>2. ASSUME NEW l \in Lines PROVE ActiveQuantity(p, l)' <= Quantity[p][l]
    <3> DEFINE f == [j \in ReturnId |-> returns[j].quantity[l]]
               g == [j \in ReturnId |-> returns'[j].quantity[l]]
               S == ReturnsIn(p, Active)
               P == ReturnsIn(p, Active)'
    <3>1. /\ IsFiniteSet(S) /\ k \notin S
          /\ P = IF p = o THEN S \cup {k} ELSE S
          /\ \A j \in S : g[j] = f[j]
      <4>1. S \in SUBSET ReturnId
        BY DEF ReturnsIn, ReturnsOf
      <4>2. k \notin S
        BY <1>1 DEF ReturnsIn, Active
      <4>3. P = IF p = o THEN S \cup {k} ELSE S
        BY <1>2, <4>2 DEF ReturnsIn, ReturnsOf, Active
      <4> QED BY <1>2, <4>1, <4>2, <4>3, FiniteTables, FS_Subset
    <3>2. /\ \A j \in S : f[j] \in Nat
          /\ g[k] = quantity[l] /\ quantity[l] \in Nat
      <4>1. quantity[l] \in Nat
        BY ConstantsAssumption DEF PiecesOf, Pieces
      <4> QED BY <1>0, <1>2, <4>1 DEF TypeOK, ReturnRequest, Pieces, ReturnsIn, ReturnsOf
    <3>3. ActiveQuantity(p, l) = SumFunctionOnSet(f, S) /\ ActiveQuantity(p, l)' = SumFunctionOnSet(g, P)
      BY DEF ActiveQuantity
    <3>4. ActiveQuantity(p, l) <= Quantity[p][l] /\ Quantity[p][l] \in Nat
      BY <1>0, ConstantsAssumption DEF Parcels, Pieces
    <3>5. quantity[l] > 0 => quantity[l] + ActiveQuantity(o, l) <= Quantity[o][l]
      BY DEF CreateReturn
    <3> HIDE DEF f, g, S, P
    <3>6. SumFunctionOnSet(g, S) = SumFunctionOnSet(f, S) /\ SumFunctionOnSet(f, S) \in Nat
      BY <3>1, <3>2, SumSame, SumType
    <3>7. CASE p = o
      <4>1. P = S \cup {k}
        BY <3>1, <3>7
      <4>2. SumFunctionOnSet(g, P) = g[k] + SumFunctionOnSet(g, S)
        BY <3>1, <3>2, <4>1, SumAdd
      <4> QED BY <3>2, <3>3, <3>4, <3>5, <3>6, <3>7, <4>2
    <3>8. CASE p # o
      BY <3>1, <3>3, <3>4, <3>6, <3>8
    <3> QED BY <3>7, <3>8
  <2> QED BY <2>1, <2>2 DEF Parcels
<1> QED BY <1>4, <1>5, <1>6

\* Cancelling, approving and rejecting a request concern no money.
LEMMA MoveReturnBooks ==
  ASSUME MoneyInv, NEW k \in ReturnId, CancelReturn(k) \/ ApproveReturn(k) \/ RejectReturn(k)
  PROVE  RefundsBooked' /\ \A p \in Orders : Balanced(p)' /\ Parcels(p)'
<1>0. IndInv /\ TypeOK /\ RefundsBooked /\ \A p \in Orders : Balanced(p) /\ Parcels(p)
  BY MoneyInvIs, SumsBookedIs DEF IndInv
<1>1. PICK to \in {"APPROVED", "REJECTED", "CANCELLED"} :
        /\ returns[k].status \in {"REQUESTED", "APPROVED"}
        /\ returns' = [returns EXCEPT ![k].status = to]
        /\ UNCHANGED <<orders, attempts, transactions, refunds, account>>
  BY DEF CancelReturn, ApproveReturn, RejectReturn, MoveReturn, CustomerCancellable, Rejectable
<1>2. /\ returns'[k].status = to
      /\ \A j \in ReturnId : /\ returns'[j].order = returns[j].order
                             /\ returns'[j].quantity = returns[j].quantity
                             /\ returns'[j].shippingRefunded = returns[j].shippingRefunded
      /\ \A j \in ReturnId \ {k} : returns'[j] = returns[j]
  BY <1>0, <1>1 DEF TypeOK, ReturnRequest
<1>3. RefundsBooked'
  BY <1>0, <1>1 DEF RefundsBooked
<1>4. ASSUME NEW p \in Orders PROVE Parcels(p)'
  <2>1. ReturnsOf(p)' = ReturnsOf(p)
    BY <1>2 DEF ReturnsOf
  <2>2. \A j \in ReturnsOf(p) :
          /\ returns'[j].quantity = returns[j].quantity
          /\ returns'[j].status \in Active => returns[j].status \in Active
          /\ returns'[j].shippingRefunded => returns[j].shippingRefunded
    BY <1>1, <1>2 DEF ReturnsOf, Active
  <2> QED BY <1>0, <2>1, <2>2, ParcelsFrame
<1>5. ASSUME NEW p \in Orders PROVE Balanced(p)'
  <2>1. SameRefundsOf(p)
    BY <1>1, UnchangedRows
  <2>2. SameReturnsOf(p)
    <3>1. k \notin ReturnsIn(p, WithAccepted) /\ k \notin ReturnsIn(p, {"REFUNDED"})
      BY <1>1 DEF ReturnsIn, WithAccepted
    <3>2. ReturnsIn(p, WithAccepted)' = ReturnsIn(p, WithAccepted)
      BY <1>2, <3>1 DEF ReturnsIn, ReturnsOf, WithAccepted
    <3>3. ReturnsIn(p, {"REFUNDED"})' = ReturnsIn(p, {"REFUNDED"})
      BY <1>2, <3>1 DEF ReturnsIn, ReturnsOf
    <3> QED BY <1>2, <3>1, <3>2, <3>3 DEF SameReturnsOf, ReturnsIn, ReturnsOf
  <2>3. orders[p].paymentStatus # "unpaid" => Received(p)' = Received(p)
    <3>1. SameSettling(p)
      BY <1>1 DEF SameSettling, SettlingKeys, AttemptsOf
    <3> QED BY <1>0, <3>1, SettlingFrame
  <2> QED BY <1>0, <1>1, <2>1, <2>2, <2>3, BooksFrame
<1> QED BY <1>3, <1>4, <1>5

\* Receiving a parcel: the refunds completed so far are the part of the money that the
\* requests refunded so far are worth, so the new one makes up for all that was accepted.
LEMMA ReceiveBooks ==
  ASSUME MoneyInv, NEW k \in ReturnId, NEW o \in Orders, returns[k].order = o,
         NEW accepted \in PiecesOf(o), NEW refundShipping \in BOOLEAN,
         ReceiveReturn(k, accepted, refundShipping)
  PROVE  RefundsBooked' /\ \A p \in Orders : Balanced(p)' /\ Parcels(p)'
<1> DEFINE value == ValueOf(accepted) + (IF refundShipping THEN ShippingFee[o] ELSE 0)
<1>0. IndInv /\ TypeOK /\ SumsBooked /\ RefundsBooked /\ \A p \in Orders : Balanced(p) /\ Parcels(p)
  BY MoneyInvIs, SumsBookedIs DEF IndInv
<1>1. /\ returns[k].status = "APPROVED"
      /\ orders[o].paymentStatus = "paid"
      /\ refundShipping => \A j \in ReturnsOf(o) : ~returns[j].shippingRefunded
      /\ PreviousValue(o) + value <= Total[o]
      /\ CreateForReturn(o, k, value, PreviousValue(o))
      /\ returns' = [returns EXCEPT ![k] =
                       [@ EXCEPT !.status = "RECEIVED", !.accepted = accepted,
                                 !.shippingRefunded = refundShipping]]
      /\ UNCHANGED <<orders, attempts, transactions, account>>
  BY DEF ReceiveReturn
<1>2. value \in Nat
  <2>1. accepted \in Pieces
    BY ConstantsAssumption DEF PiecesOf, Pieces
  <2>2. ValueOf(accepted) \in Nat /\ ShippingFee[o] \in Nat
    BY <2>1, ValueType, ConstantsAssumption
  <2> QED BY <2>2
<1>3. /\ returns'[k].order = o /\ returns'[k].status = "RECEIVED"
      /\ returns'[k].accepted = accepted
      /\ returns'[k].shippingRefunded = refundShipping
      /\ returns'[k].quantity = returns[k].quantity
      /\ \A j \in ReturnId \ {k} : returns'[j] = returns[j]
  BY <1>0, <1>1 DEF TypeOK, ReturnRequest
<1>4. Value(o, k)' = value
  BY <1>3 DEF Value, ValueOf
<1> HIDE DEF value
<1>5. PICK amount \in Nat \ {0} :
        /\ amount = Min({Prorate(Received(o), PreviousValue(o) + value, Total[o])
                           - Prorate(Received(o), PreviousValue(o), Total[o]),
                         Received(o) - Returned(o)})
        /\ Asks(o, k, amount)
  BY <1>0, <1>1, RequestAsks
<1>6. /\ Received(o) \in Nat /\ Returned(o) \in Nat /\ Total[o] \in Nat
      /\ PreviousValue(o) \in Nat
  BY <1>0, <1>1, ReceivedType, OrderSums, ConstantsAssumption
<1>7. orders[o].status \in Returnable
  BY <1>0, <1>1, AcceptedIsPaid DEF ReturnsOf
<1>8. ReturnsIn(o, {"RECEIVED"}) = {}
  <2>1. Requested(o) = {}
    BY <1>5 DEF Asks
  <2> QED BY <1>0, <2>1, ReceivedWaits DEF ReturnsIn
<1>9. ReturnsIn(o, WithAccepted) = ReturnsIn(o, {"REFUNDED"})
  BY <1>8 DEF ReturnsIn, WithAccepted
<1>10. Returned(o) = Prorate(Received(o), PreviousValue(o), Total[o])
  BY <1>0, <1>1, <1>7, <1>9 DEF Balanced, PreviousValue, RefundedValue
<1>11. /\ Prorate(Received(o), PreviousValue(o) + value, Total[o]) \in Nat
       /\ Prorate(Received(o), PreviousValue(o) + value, Total[o]) <= Received(o)
  <2>1. PreviousValue(o) + value \in Nat
    BY <1>2, <1>6
  <2> QED BY <1>6, <2>1, ProrateFacts
<1>12. Returned(o) + amount = Prorate(Received(o), PreviousValue(o) + value, Total[o])
  <2> DEFINE due == Prorate(Received(o), PreviousValue(o) + value, Total[o])
  <2>1. amount = Min({due - Returned(o), Received(o) - Returned(o)})
    BY <1>5, <1>10
  <2>2. due \in Nat /\ due <= Received(o)
    BY <1>11
  <2> HIDE DEF due
  <2>3. amount = due - Returned(o)
    BY <1>6, <2>1, <2>2, MinOfTwo
  <2>4. Returned(o) + amount = due
    BY <1>6, <2>2, <2>3
  <2> QED BY <2>4 DEF due
<1>13. /\ Completed(o)' = Completed(o)
       /\ Returned(o)' = Returned(o)
       /\ Promised(o)' = Returned(o) + amount
       /\ \A p \in Orders \ {o} : SameRefundsOf(p)
  BY <1>0, <1>5, AskSums
<1>14. \A p \in Orders : orders[p].paymentStatus # "unpaid" => Received(p)' = Received(p)
  <2>1. \A p \in Orders : SameSettling(p)
    BY <1>1 DEF SameSettling, SettlingKeys, AttemptsOf
  <2> QED BY <1>0, <2>1, SettlingFrame
<1>15. /\ k \notin ReturnsIn(o, WithAccepted)
       /\ ReturnsIn(o, WithAccepted)' = ReturnsIn(o, WithAccepted) \cup {k}
       /\ ReturnsIn(o, {"REFUNDED"})' = ReturnsIn(o, WithAccepted)
  <2>1. k \notin ReturnsIn(o, WithAccepted)
    BY <1>1 DEF ReturnsIn, WithAccepted
  <2>2. ReturnsIn(o, WithAccepted)' = ReturnsIn(o, WithAccepted) \cup {k}
    BY <1>3, <2>1 DEF ReturnsIn, ReturnsOf, WithAccepted
  <2>3. ReturnsIn(o, {"REFUNDED"})' = ReturnsIn(o, {"REFUNDED"})
    BY <1>3, <1>9, <2>1 DEF ReturnsIn, ReturnsOf
  <2> QED BY <1>9, <2>1, <2>2, <2>3
<1>16. PreviousValue(o)' = PreviousValue(o) + value /\ RefundedValue(o)' = PreviousValue(o)
  <2>1. ReturnsIn(o, WithAccepted) \in SUBSET ReturnId
    BY DEF ReturnsIn, ReturnsOf
  <2>2. AcceptedValue(o, ReturnsIn(o, {"REFUNDED"}))' = AcceptedValue(o, ReturnsIn(o, WithAccepted))
    <3>1. \A S \in SUBSET ReturnId : k \notin S => AcceptedValue(o, S)' = AcceptedValue(o, S)
      BY <1>3, SameReturnSums
    <3> QED BY <1>15, <2>1, <3>1
  <2>3. AcceptedValue(o, ReturnsIn(o, WithAccepted))' = AcceptedValue(o, ReturnsIn(o, WithAccepted)) + value
    <3>1. ASSUME NEW S \in SUBSET ReturnId, k \notin S
          PROVE  AcceptedValue(o, S \cup {k})' = AcceptedValue(o, S) + value
      <4> DEFINE f == [j \in ReturnId |-> Value(o, j)]
                 g == [j \in ReturnId |-> Value(o, j)']
      <4>1. AcceptedValue(o, S) = SumFunctionOnSet(f, S)
        BY DEF AcceptedValue, Value
      <4>2. AcceptedValue(o, S \cup {k})' = SumFunctionOnSet(g, S \cup {k})
        BY DEF AcceptedValue, Value
      <4>3. IsFiniteSet(S)
        BY FiniteTables, FS_Subset
      <4>4. \A j \in S : g[j] = f[j] /\ f[j] \in Nat
        BY <1>0, <1>3, <3>1, ReturnSums DEF Value, ValueOf
      <4>5. g[k] = value
        BY <1>4
      <4> HIDE DEF f, g
      <4>6. SumFunctionOnSet(g, S) = SumFunctionOnSet(f, S) /\ SumFunctionOnSet(f, S) \in Nat
        BY <4>3, <4>4, SumSame, SumType
      <4>7. SumFunctionOnSet(g, S \cup {k}) = g[k] + SumFunctionOnSet(g, S)
        BY <1>2, <3>1, <4>3, <4>4, <4>5, SumAdd
      <4>8. SumFunctionOnSet(g, S \cup {k}) = SumFunctionOnSet(f, S) + value
        BY <1>2, <4>5, <4>6, <4>7
      <4> QED BY <4>1, <4>2, <4>8
    <3> QED BY <1>15, <2>1, <3>1
  <2> QED BY <2>2, <2>3 DEF PreviousValue, RefundedValue
<1>17. Balanced(o)'
  <2>1. Promised(o)' <= Received(o)'
    BY <1>1, <1>11, <1>12, <1>13, <1>14
  <2>2. orders'[o].paymentStatus = "refunded" <=> Completed(o)' # {} /\ Returned(o)' = Received(o)'
    BY <1>0, <1>1, <1>13, <1>14 DEF Balanced
  <2>3. PreviousValue(o)' <= Total[o] /\ Promised(o)' = Prorate(Received(o)', PreviousValue(o)', Total[o])
    <3>1. PreviousValue(o) + value <= Total[o]
      BY <1>1
    <3> QED BY <1>1, <1>12, <1>13, <1>14, <1>16, <3>1
  <2>4. Returned(o)' = Prorate(Received(o)', RefundedValue(o)', Total[o])
    BY <1>1, <1>10, <1>13, <1>14, <1>16
  <2> QED BY <2>1, <2>2, <2>3, <2>4 DEF Balanced
<1>18. ASSUME NEW p \in Orders \ {o} PROVE Balanced(p)'
  <2>1. SameReturnsOf(p)
    <3>1. /\ k \notin ReturnsOf(p) /\ ReturnsOf(p)' = ReturnsOf(p)
      BY <1>3 DEF ReturnsOf
    <3>2. \A j \in ReturnsOf(p) : returns'[j] = returns[j]
      BY <1>3, <3>1 DEF ReturnsOf
    <3> QED BY <3>1, <3>2 DEF SameReturnsOf, ReturnsIn
  <2> QED BY <1>0, <1>1, <1>13, <1>14, <2>1, BooksFrame
<1>19. ASSUME NEW p \in Orders PROVE Parcels(p)'
  <2>1. \A i, j \in ReturnsOf(p)' :
          returns'[i].shippingRefunded /\ returns'[j].shippingRefunded => i = j
    BY <1>0, <1>1, <1>3 DEF Parcels, ReturnsOf
  <2>2. ASSUME NEW l \in Lines PROVE ActiveQuantity(p, l)' <= Quantity[p][l]
    <3> DEFINE f == [j \in ReturnId |-> returns[j].quantity[l]]
               g == [j \in ReturnId |-> returns'[j].quantity[l]]
    <3>1. ReturnsIn(p, Active)' = ReturnsIn(p, Active)
      BY <1>1, <1>3 DEF ReturnsIn, ReturnsOf, Active
    <3>2. /\ ActiveQuantity(p, l) = SumFunctionOnSet(f, ReturnsIn(p, Active))
          /\ ActiveQuantity(p, l)' = SumFunctionOnSet(g, ReturnsIn(p, Active)')
      BY DEF ActiveQuantity
    <3>3. g = f
      BY <1>3
    <3>4. ActiveQuantity(p, l) <= Quantity[p][l]
      BY <1>0 DEF Parcels
    <3> HIDE DEF f, g
    <3> QED BY <3>1, <3>2, <3>3, <3>4
  <2> QED BY <2>1, <2>2 DEF Parcels
<1>20. RefundsBooked'
  <2>1. PICK r \in RefundId :
          /\ refunds'[r].amount = amount
          /\ refunds'[r].return = k
          /\ \A s \in RefundId \ {r} : refunds'[s] = refunds[s]
    BY <1>5 DEF Asks
  <2>2. k # Null /\ amount > 0
    BY DEF ReturnId, Null
  <2> QED BY <1>0, <1>1, <2>1, <2>2 DEF RefundsBooked
<1> QED BY <1>17, <1>18, <1>19, <1>20

-----------------------------------------------------------------------------
(* The theorem *)

\* Checkout opens the books with nothing in them.
LEMMA MoneyInit == Init => MoneyInv
<1> SUFFICES ASSUME Init PROVE MoneyInv
  OBVIOUS
<1>1. IndInv /\ TypeOK
  BY InitInv, TypeInit
<1>2. /\ \A o \in Orders : orders[o].status = "pending" /\ orders[o].paymentStatus = "unpaid"
      /\ \A k \in Keys : transactions[k].status = "NONE"
      /\ \A r \in RefundId : refunds[r].status = "NONE"
      /\ \A k \in ReturnId : returns[k].status = "NONE" /\ returns[k].shippingRefunded = FALSE
  BY DEF Init, NoTransactionRow, NoRefundRow, NoReturnRow
<1>3. SumsBooked
  BY <1>2 DEF SumsBooked
<1>4. ASSUME NEW o \in Orders PROVE Balanced(o) /\ Parcels(o)
  <2>1. ReturnsIn(o, WithAccepted) = {} /\ ReturnsIn(o, Active) = {}
    BY <1>2 DEF ReturnsIn, ReturnsOf, WithAccepted, Active
  <2>2. Balanced(o)
    BY <1>2, <2>1 DEF Balanced
  <2>3. \A l \in Lines : ActiveQuantity(o, l) = 0
    BY <2>1, SumEmpty DEF ActiveQuantity
  <2>4. \A l \in Lines : Quantity[o][l] \in Nat
    BY ConstantsAssumption DEF Pieces
  <2>5. \A l \in Lines : ActiveQuantity(o, l) <= Quantity[o][l]
    BY <2>3, <2>4
  <2>6. \A j, k \in ReturnsOf(o) :
          returns[j].shippingRefunded /\ returns[k].shippingRefunded => j = k
    BY <1>2 DEF ReturnsOf
  <2> QED BY <2>2, <2>5, <2>6 DEF Parcels
<1> QED BY <1>1, <1>3, <1>4, MoneyInvIs

\* A step that keeps the books of every order keeps MoneyInv.
LEMMA MoneyInvAfter ==
  ASSUME IndInv', TransfersBooked', RefundsBooked', \A o \in Orders : Balanced(o)' /\ Parcels(o)'
  PROVE  MoneyInv'
<1>1. SumsBooked'
  BY SumsBookedIs, PTL
<1>2. (MoneyInv <=> IndInv /\ SumsBooked /\ \A o \in Orders : Balanced(o) /\ Parcels(o))'
  BY MoneyInvIs, PTL
<1> QED BY <1>1, <1>2

\* The status handlers keep the books, and cancelling asks for the rest.
LEMMA StatusBooks ==
  ASSUME MoneyInv, NEW o \in Orders,
         CancelOrder(o) \/ \E status \in OrderStatuses : UpdateStatus(o, status)
  PROVE  RefundsBooked' /\ \A p \in Orders : Balanced(p)' /\ Parcels(p)'
<1>0. orders[o].status \in OrderStatuses
  BY DEF MoneyInv, IndInv, TypeOK, Order
<1>1. CASE CancelOrder(o)
  BY <1>1, CancelBooks DEF CancelOrder, Returnable
<1>2. ASSUME NEW status \in OrderStatuses, UpdateStatus(o, status)
      PROVE  RefundsBooked' /\ \A p \in Orders : Balanced(p)' /\ Parcels(p)'
  <2>1. CASE status = "cancelled"
    <3>1. CancelLocked(o) /\ orders[o].status \notin Returnable
      BY <1>0, <1>2, <2>1, TransitionFacts DEF UpdateStatus
    <3> QED BY <3>1, CancelBooks
  <2>2. CASE status # "cancelled"
    BY <1>2, <2>2, MoveOrderBooks DEF UpdateStatus
  <2> QED BY <2>1, <2>2
<1> QED BY <1>1, <1>2

\* A refund requested by hand is of a cancelled order, for all that is left.
LEMMA CreateRefundAdminBooks ==
  ASSUME MoneyInv, NEW o \in Orders, CreateRefundAdmin(o)
  PROVE  RefundsBooked' /\ \A p \in Orders : Balanced(p)' /\ Parcels(p)'
<1>1. IndInv /\ SumsBooked
  BY DEF MoneyInv
<1>2. /\ orders[o].status = "cancelled" /\ orders[o].paymentStatus = "paid"
      /\ CreateForCancelledOrder(o)
      /\ UNCHANGED <<orders, attempts, transactions, returns, account>>
  BY DEF CreateRefundAdmin
<1>3. Returned(o) < Received(o) /\ Asks(o, Null, Received(o) - Returned(o))
  BY <1>1, <1>2, RequestAsks
<1>4. orders[o].status \notin Returnable
  BY <1>2 DEF Returnable
<1>5. SamePayments
  BY <1>2 DEF SamePayments, PaidAttempts, AttemptsOf
<1> QED BY <1>2, <1>3, <1>4, <1>5, RestBooks

\* A step that deals in sessions only keeps the books.
LEMMA SessionBooks == ASSUME MoneyInv, IndInv', SessionStep PROVE MoneyInv'
<1>1. IndInv /\ TransfersBooked /\ RefundsBooked
  BY SumsBookedIs DEF MoneyInv
<1>2. UNCHANGED <<orders, refunds, returns>> /\ \A o \in Orders : SameSettling(o)
  BY <1>1, QuietSteps
<1>3. UNCHANGED transactions
  BY DEF SessionStep
<1>4. TransfersBooked' /\ RefundsBooked'
  BY <1>1, <1>2, <1>3 DEF TransfersBooked, RefundsBooked
<1> QED BY <1>2, <1>4, QuietBooks, MoneyInvAfter

\* Every handler keeps the books.
LEMMA MoneyNext == MoneyInv /\ [Next]_vars => MoneyInv'
<1> SUFFICES ASSUME MoneyInv, [Next]_vars PROVE MoneyInv'
  OBVIOUS
<1>0. IndInv /\ IndInv' /\ TransfersBooked /\ RefundsBooked
  BY NextInv, SumsBookedIs DEF MoneyInv
<1>1. ASSUME UNCHANGED transactions, RefundsBooked', \A o \in Orders : Balanced(o)' /\ Parcels(o)'
      PROVE  MoneyInv'
  <2>1. TransfersBooked'
    BY <1>0, <1>1 DEF TransfersBooked
  <2> QED BY <1>0, <1>1, <2>1, MoneyInvAfter
<1>2. ASSUME SessionStep PROVE MoneyInv'
  BY <1>0, <1>2, SessionBooks
<1>3. ASSUME TransfersBooked',
             \E key \in Keys :
               NoteStep(key) \/ \E o \in Orders, a \in AttemptId : PaymentStep(o, a, key)
      PROVE  MoneyInv'
  <2>1. PICK key \in Keys :
          NoteStep(key) \/ \E o \in Orders, a \in AttemptId : PaymentStep(o, a, key)
    BY <1>3
  <2>2. CASE NoteStep(key)
    <3>1. UNCHANGED <<orders, refunds, returns>> /\ \A o \in Orders : SameSettling(o)
      BY <1>0, <2>2, QuietSteps
    <3>2. RefundsBooked'
      BY <1>0, <3>1 DEF RefundsBooked
    <3> QED BY <1>0, <1>3, <3>1, <3>2, QuietBooks, MoneyInvAfter
  <2>3. CASE \E o \in Orders, a \in AttemptId : PaymentStep(o, a, key)
    BY <1>0, <1>3, <2>3, PaymentBooks, MoneyInvAfter
  <2> QED BY <2>1, <2>2, <2>3
<1>4. CASE PaymentNext
  <2>1. ASSUME \/ \E a \in AttemptId : PassExpiry(a)
               \/ \E o \in Orders : CreateQr(o) \/ CreateQrAdmin(o)
               \/ ChangeAccount \/ ExpireOverdueAttempts
        PROVE  MoneyInv'
    BY <1>0, <1>2, <2>1, SessionActions
  <2>2. ASSUME NEW o \in Orders, NEW key \in Keys, NEW a \in AttemptId,
               NEW acceptMismatch \in BOOLEAN,
               \/ ConfirmRecorded(o, key, a, acceptMismatch)
               \/ \E amount \in Amounts : ConfirmEntered(o, key, a, amount, acceptMismatch)
        PROVE  MoneyInv'
    <3>1. PaymentStep(o, a, key)
      BY <1>0, <2>2, ConfirmSteps
    <3>2. TransfersBooked'
      BY <1>0, <2>2, RecordsBooked
    <3> QED BY <1>3, <3>1, <3>2
  <2>3. ASSUME NEW ref \in Refs, NEW amount \in Amounts,
               \/ \E status \in VerificationStatuses : WebhookUnlinked(ref, status, amount)
               \/ \E a \in AttemptId : WebhookForAttempt(ref, a, amount)
        PROVE  MoneyInv'
    <3>1. \E key \in Keys :
            NoteStep(key) \/ \E o \in Orders, a \in AttemptId : PaymentStep(o, a, key)
      BY <1>0, <2>3, WebhookCases
    <3>2. TransfersBooked'
      BY <1>0, <2>3, RecordsBooked
    <3> QED BY <1>3, <3>1, <3>2
  <2> QED BY <1>4, <2>1, <2>2, <2>3 DEF PaymentNext
<1>5. CASE RefundNext
  <2>1. ASSUME NEW o \in Orders, CreateRefundAdmin(o) PROVE MoneyInv'
    <3>1. UNCHANGED transactions
      BY <2>1 DEF CreateRefundAdmin
    <3> QED BY <1>1, <2>1, <3>1, CreateRefundAdminBooks
  <2>2. ASSUME NEW r \in RefundId, RejectRefund(r) PROVE MoneyInv'
    <3>1. UNCHANGED transactions
      BY <2>2 DEF RejectRefund
    <3> QED BY <1>1, <2>2, <3>1, RejectBooks
  <2>3. ASSUME NEW r \in RefundId, NEW ref \in BankRefs, CompleteRefund(r, ref) PROVE MoneyInv'
    <3>1. UNCHANGED transactions
      BY <2>3 DEF CompleteRefund
    <3> QED BY <1>1, <2>3, <3>1, CompleteBooks
  <2> QED BY <1>5, <2>1, <2>2, <2>3 DEF RefundNext
<1>6. CASE ReturnNext
  <2>1. ASSUME NEW o \in Orders, NEW quantity \in PiecesOf(o), CreateReturn(o, quantity)
        PROVE  MoneyInv'
    <3>1. UNCHANGED transactions
      BY <2>1 DEF CreateReturn
    <3> QED BY <1>1, <2>1, <3>1, CreateReturnBooks
  <2>2. ASSUME NEW k \in ReturnId, CancelReturn(k) \/ ApproveReturn(k) \/ RejectReturn(k)
        PROVE  MoneyInv'
    <3>1. UNCHANGED transactions
      BY <2>2 DEF CancelReturn, ApproveReturn, RejectReturn, MoveReturn
    <3> QED BY <1>1, <2>2, <3>1, MoveReturnBooks
  <2>3. ASSUME NEW k \in ReturnId, NEW o \in Orders, NEW accepted \in PiecesOf(o),
               NEW refundShipping \in BOOLEAN, returns[k].order = o,
               ReceiveReturn(k, accepted, refundShipping)
        PROVE  MoneyInv'
    <3>1. UNCHANGED transactions
      BY <2>3 DEF ReceiveReturn
    <3> QED BY <1>1, <2>3, <3>1, ReceiveBooks
  <2> QED BY <1>6, <2>1, <2>2, <2>3 DEF ReturnNext
<1>7. CASE StatusNext
  <2>1. UNCHANGED transactions
    BY <1>7 DEF StatusNext, CancelOrder, UpdateStatus, CancelLocked
  <2> QED BY <1>1, <1>7, <2>1, StatusBooks DEF StatusNext
<1>8. CASE UNCHANGED vars
  <2>1. SessionStep
    BY <1>8 DEF vars, SessionStep
  <2> QED BY <1>2, <2>1
<1> QED BY <1>4, <1>5, <1>6, <1>7, <1>8 DEF Next

\* The books of every order are in balance, in every behaviour: for any number of orders,
\* lines, refunds and returns, any prices, and any sum an administrator accepted.
THEOREM MoneyInvariance == Spec => []MoneyInv
BY MoneyInit, MoneyNext, PTL DEF Spec
=============================================================================
