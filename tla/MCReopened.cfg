SPECIFICATION Spec
CONSTANTS
  Orders = {o1}
  NoOrder = NoOrder
  Lines <- MCLines
  Quantity <- MCQuantity
  Price <- MCPrice
  ShippingFee <- MCShippingFee
  Total <- MCTotal
  Amounts = {3, 5}
  Accounts = {bank1}
  NoAccount = NoAccount
  Refs = {}
  BankRefs = {b1, b2}
  NoRef = NoRef
  MaxAttempts = 1
  MaxRefunds = 3
  MaxReturns = 2
SYMMETRY MCSymmetry
INVARIANT ReceivedIsNotDropped
CHECK_DEADLOCK FALSE
