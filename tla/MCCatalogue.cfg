SPECIFICATION MCSpec
\* r1, r2: connections; x1, x2, x3: categories, lines of orders or storage keys
CONSTANTS
  \* CategoryOrder
  Categories = {x1, x2, x3}
  Slugs = {s1}
  Garments = {g1}
  Editors = {e1}
  MaxSubs = 2
  MaxRank = 4
  \* ProductReviews
  Items = {x1, x2}
  Workers = {r1, r2}
  Stars = {1, 5}
  NoItem = NoItem
  Nobody = Nobody
  \* ProductShelf
  SubCategories = {"jeans", "shirts"}
  Parents = {"trousers", "tops"}
  ParentOf <- MCParentOf
  Amounts = {1, 2}
  Clerks = {r1, r2}
  \* ProductLists
  Wares = {"p1", "p2"}
  Requests = {r1, r2}
  \* MediaStore
  Keys = {x1, x2, x3}
  Uploaders = {r1, r2}
  NoKey = NoKey
  DayLimit = 1
  \* ListPages
  Rows = {1, 2, 3}
  Ranks = {1, 2}
  PageSizes = {2}
SYMMETRY MCSymmetry
INVARIANTS
  
  ShelfRefs
  RatingUnlessOverwritten
  HelpfulCountsVotes
  ProductFits
  WishNotRefused
  
  ObjectsAndRows
  
  PagesCover
PROPERTIES
  EditedOnce
\* The lines of an order and the storage keys run out.
CHECK_DEADLOCK FALSE
