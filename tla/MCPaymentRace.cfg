SPECIFICATION RaceSpec
CONSTANTS
  Orders = {o1}
  NoOrder = NoOrder
  Lines <- MCLines
  Quantity <- MCQuantity
  Price <- MCPrice
  ShippingFee <- MCShippingFee
  Total <- MCTotal
  Amounts = {2}
  Accounts = {bank1}
  NoAccount = NoAccount
  Refs = {r1}
  BankRefs = {}
  NoRef = NoRef
  MaxAttempts = 2
  MaxRefunds = 0
  MaxReturns = 0
  Workers = {w1, w2, w3}
  NoWorker = NoWorker
  MaxFailures = 0
SYMMETRY MCSymmetry
INVARIANTS
  DeadlockOnlyByKey
PROPERTIES
  AtomicHandlers
CHECK_DEADLOCK FALSE
