SPECIFICATION ReviewSpec
CONSTANTS
  Items = {i1}
  Workers = {w1, w2}
  Stars = {1, 5}
  NoItem = NoItem
  Nobody = Nobody
SYMMETRY MCSymmetry
INVARIANT RatingMatches
CHECK_DEADLOCK FALSE
