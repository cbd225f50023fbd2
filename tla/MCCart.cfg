SPECIFICATION CartSpec
CONSTANTS
  Variants = {v1, v2}
  NoVariant = NoVariant
  Workers = {w1, w2}
  MaxQuantity = 2
  Tries = 5
  MaxLines = 2
  MaxOrders = 1
SYMMETRY MCSymmetry
INVARIANTS
  QuantityLimit
  LimitJustified
  NoLineVanishes
CHECK_DEADLOCK FALSE
