----------------------------- MODULE ShopTables -----------------------------
(***************************************************************************)
(* The rows that the order, payment, refund and return modules share in    *)
(* one Postgres database.  Every handler of those modules runs in one      *)
(* transaction that first takes SELECT ... FOR UPDATE on the row of its    *)
(* order, so each handler is one action over these tables.  PaymentRace    *)
(* looks at what happens inside the handlers.                              *)
(*                                                                         *)
(* A table is a function from the ids that may be used to rows, and a row  *)
(* whose status is "NONE" has not been inserted.  Ids are handed out in    *)
(* increasing order, so a larger id is a newer row.                        *)
(***************************************************************************)
EXTENDS Naturals, FiniteSets, FiniteSetsExt

CONSTANTS
  Orders,       \* the orders, all placed by checkout
  NoOrder,      \* the order column of a row that is not inserted
  Lines,        \* the lines (order_items) of an order
  Quantity,     \* Quantity[o][l]: pieces of line l that order o bought
  Price,        \* Price[l]: price of one piece when the order was placed
  ShippingFee,  \* ShippingFee[o]
  Total,        \* Total[o]: what the customer has to transfer
  Amounts,      \* the sums of money a bank transfer may carry
  Accounts,     \* bank accounts the shop may be configured with
  NoAccount,    \* the account column of a row that is not inserted
  Refs,         \* transaction ids of SePay and references of bank statements
  BankRefs,     \* references of the transfers that pay a refund out
  NoRef,        \* null in the bank_reference column
  MaxAttempts, MaxRefunds, MaxReturns   \* bounds on the rows of a table

VARIABLES
  orders,        \* table orders
  attempts,      \* table payment_attempts; the id stands for the transfer code
  transactions,  \* table payment_transactions, keyed by its unique columns
  refunds,       \* table refunds
  returns,       \* tables return_requests and return_request_items
  account        \* the receiving account in the configuration of the server

vars == <<orders, attempts, transactions, refunds, returns, account>>

-----------------------------------------------------------------------------
AttemptId == 1 .. MaxAttempts
RefundId == 1 .. MaxRefunds
ReturnId == 1 .. MaxReturns

\* 0 is null in a column that refers to another table.
Null == 0

OrderStatuses ==
  {"pending", "confirmed", "shipping", "delivered", "completed", "cancelled"}
PaymentStatuses == {"unpaid", "paid", "refunded"}
AttemptStatuses == {"PENDING", "PAID", "EXPIRED", "CANCELLED"}
VerificationStatuses ==
  {"MATCHED", "UNMATCHED", "ACCOUNT_MISMATCH", "AMOUNT_MISMATCH", "LATE",
   "NOT_PAYABLE", "DUPLICATE_PAYMENT", "IGNORED", "MANUALLY_CONFIRMED"}
RefundStatuses == {"REQUESTED", "COMPLETED", "REJECTED"}
ReturnStatuses ==
  {"REQUESTED", "APPROVED", "RECEIVED", "REFUNDED", "REJECTED", "CANCELLED"}

\* The unique columns (provider, provider_transaction_id).  The id is the one
\* SePay gave, a reference of a bank statement, or, when an administrator has
\* neither, the transfer code itself.
Keys == ({"sepay", "manual"} \X Refs) \cup ({"manual"} \X AttemptId)

\* Pieces per line, of a return request or of what the shop accepted.
Pieces == [Lines -> Nat]
NoPieces == [l \in Lines |-> 0]

Order == [status: OrderStatuses, paymentStatus: PaymentStatuses]
PaymentAttempt ==
  [order: Orders \cup {NoOrder}, status: AttemptStatuses \cup {"NONE"},
   overdue: BOOLEAN, account: Accounts \cup {NoAccount}]
PaymentTransaction ==
  [status: VerificationStatuses \cup {"NONE"}, attempt: {Null} \cup AttemptId,
   amount: Amounts \cup {0}]
Refund ==
  [order: Orders \cup {NoOrder}, status: RefundStatuses \cup {"NONE"},
   attempt: {Null} \cup AttemptId, amount: Nat,
   return: {Null} \cup ReturnId, reference: BankRefs \cup {NoRef}]
ReturnRequest ==
  [order: Orders \cup {NoOrder}, status: ReturnStatuses \cup {"NONE"},
   quantity: Pieces, accepted: Pieces, shippingRefunded: BOOLEAN]

NoAttemptRow ==
  [order |-> NoOrder, status |-> "NONE", overdue |-> FALSE, account |-> NoAccount]
NoTransactionRow == [status |-> "NONE", attempt |-> Null, amount |-> 0]
NoRefundRow ==
  [order |-> NoOrder, status |-> "NONE", attempt |-> Null, amount |-> 0,
   return |-> Null, reference |-> NoRef]
NoReturnRow ==
  [order |-> NoOrder, status |-> "NONE", quantity |-> NoPieces,
   accepted |-> NoPieces, shippingRefunded |-> FALSE]

-----------------------------------------------------------------------------
\* The value of some pieces at the prices of the order.
ValueOf(pieces) == SumFunctionOnSet([l \in Lines |-> Price[l] * pieces[l]], Lines)

ASSUME ConstantsAssumption ==
  /\ NoOrder \notin Orders
  /\ NoAccount \notin Accounts
  /\ NoRef \notin BankRefs
  /\ Total \in [Orders -> Nat]
  /\ ShippingFee \in [Orders -> Nat]
  /\ IsFiniteSet(Lines)
  /\ Price \in [Lines -> Nat]
  /\ Quantity \in [Orders -> Pieces]
  /\ Amounts \subseteq Nat
  /\ MaxAttempts \in Nat /\ MaxRefunds \in Nat /\ MaxReturns \in Nat

\* calculateTotals: the total of an order is its lines and the shipping fee.
ASSUME TotalAssumption ==
  \A o \in Orders : Total[o] = ValueOf(Quantity[o]) + ShippingFee[o]

-----------------------------------------------------------------------------
AttemptsOf(o) == {a \in AttemptId : attempts[a].order = o}
RefundsOf(o) == {r \in RefundId : refunds[r].order = o}
ReturnsOf(o) == {k \in ReturnId : returns[k].order = o}

\* The row an INSERT creates: the first id that is not in use.
IsNextAttempt(a) ==
  /\ attempts[a].status = "NONE"
  /\ \A b \in AttemptId : b < a => attempts[b].status # "NONE"
IsNextRefund(r) ==
  /\ refunds[r].status = "NONE"
  /\ \A s \in RefundId : s < r => refunds[s].status # "NONE"
IsNextReturn(k) ==
  /\ returns[k].status = "NONE"
  /\ \A j \in ReturnId : j < k => returns[j].status # "NONE"

-----------------------------------------------------------------------------
\* Checkout has placed the orders; nothing has been paid yet.
Init ==
  /\ orders = [o \in Orders |-> [status |-> "pending", paymentStatus |-> "unpaid"]]
  /\ attempts = [a \in AttemptId |-> NoAttemptRow]
  /\ transactions = [k \in Keys |-> NoTransactionRow]
  /\ refunds = [r \in RefundId |-> NoRefundRow]
  /\ returns = [k \in ReturnId |-> NoReturnRow]
  /\ account \in Accounts

TypeOK ==
  /\ orders \in [Orders -> Order]
  /\ attempts \in [AttemptId -> PaymentAttempt]
  /\ transactions \in [Keys -> PaymentTransaction]
  /\ refunds \in [RefundId -> Refund]
  /\ returns \in [ReturnId -> ReturnRequest]
  /\ account \in Accounts
=============================================================================
