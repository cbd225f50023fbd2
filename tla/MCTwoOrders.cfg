SPECIFICATION Spec
CONSTANTS
  Orders = {o1, o2}
  NoOrder = NoOrder
  Lines <- MCLines
  Quantity <- MCQuantity
  Price <- MCPrice
  ShippingFee <- MCShippingFee
  Total <- MCTotal
  Amounts = {1, 2}
  Accounts = {bank1, bank2}
  NoAccount = NoAccount
  Refs = {r1}
  BankRefs = {b1}
  NoRef = NoRef
  MaxAttempts = 2
  MaxRefunds = 2
  MaxReturns = 0
SYMMETRY MCSymmetry
INVARIANTS
  PaidThroughOneAttempt
  OneTransactionPerPayment
  RefundReferences
CHECK_DEADLOCK FALSE
