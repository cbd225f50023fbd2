SPECIFICATION CartSpec
CONSTANTS
  Variants = {v1}
  NoVariant = NoVariant
  Workers = {w1, w2}
  MaxQuantity = 2
  Tries = 5
  MaxLines = 2
  MaxOrders = 1
PROPERTY AdditionKept
CHECK_DEADLOCK FALSE
