SPECIFICATION Spec
CONSTANTS
  Orders = {o1}
  NoOrder = NoOrder
  Lines <- MCLines
  Quantity <- MCQuantity
  Price <- MCPrice
  ShippingFee <- MCShippingFee
  Total <- MCTotal
  Amounts = {3, 5}
  Accounts = {bank1}
  NoAccount = NoAccount
  Refs = {}
  BankRefs = {b1, b2}
  NoRef = NoRef
  MaxAttempts = 2
  MaxRefunds = 3
  MaxReturns = 2
INVARIANTS
  RefundsWithinReceived
  ReturnFollowsRefund
  ReturnsAddUp
PROPERTIES
  OverdueExpires
CHECK_DEADLOCK FALSE
