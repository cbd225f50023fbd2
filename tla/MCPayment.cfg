SPECIFICATION Spec
CONSTANTS
  Orders = {o1}
  NoOrder = NoOrder
  Lines <- MCLines
  Quantity <- MCQuantity
  Price <- MCPrice
  ShippingFee <- MCShippingFee
  Total <- MCTotal
  Amounts = {0, 2, 3}
  Accounts = {bank1}
  NoAccount = NoAccount
  Refs = {r1, r2}
  BankRefs = {b1}
  NoRef = NoRef
  MaxAttempts = 3
  MaxRefunds = 2
  MaxReturns = 0
SYMMETRY MCSymmetry
INVARIANTS
  PendingOnlyWhilePayable
  RefundsOfPayments
  CancelledPaidHasRefund
  SessionViewsAgree
  MoneyViewsAgree
PROPERTIES
  BookedForGood
  CancelRequestsTheRest
  KeepsTheBooks
CHECK_DEADLOCK FALSE
