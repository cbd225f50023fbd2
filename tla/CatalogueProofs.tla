-------------------------- MODULE CatalogueProofs ---------------------------
(***************************************************************************)
(* The proofs about what the shop offers: the order of the categories and  *)
(* the shelves of their products, the wishlist and the collections, the    *)
(* pictures and their daily limit, the reviews of a product with its       *)
(* rating, the product as its administration leaves it, and the paged      *)
(* lists, for any number of rows and of requests at once.                  *)
(***************************************************************************)
EXTENDS CategoryOrder, ProductLists, MediaStore, ProductReviews, ProductShelf, ListPages,
        SumProofs, SequenceTheorems, FiniteSetTheorems, TLAPS

-----------------------------------------------------------------------------
(* CategoryOrder *)

\* The proofs that the ranks of the categories are 1, 2, .., N without a
\* double, until an update that named no rank wrote an old one back, and
\* that products keep their subcategory, for any number of categories,
\* subcategories, products and administrators.

Edits == [category: Categories \cup {"none"}, priority: Nat, subs: [Slugs -> Nat]]

CategoryTypes ==
  /\ priority \in [Categories -> Nat]
  /\ subs \in [Categories -> [Slugs -> Nat]]
  /\ lastSub \in Nat
  /\ edit \in [Editors -> Edits]
  /\ strayed \in BOOLEAN

\* A row that an update read had a rank.
EditsHaveRank ==
  \A e \in Editors : edit[e] # NoEdit => edit[e].category \in Categories /\ edit[e].priority # 0

\* A category without a row has no subcategories.
SubsOfListed == \A c \in Categories : priority[c] = 0 => \A s \in Slugs : subs[c][s] = 0

\* A product that is on the shelf is there under a subcategory of a listed category.
OnListed ==
  /\ shelf \in [Garments -> [category: Categories \cup {"none"}, slug: Slugs \cup {"none"}, id: Nat]]
  /\ \A g \in Garments : shelf[g] # OffShelf =>
       /\ shelf[g].category \in Categories /\ shelf[g].slug \in Slugs
       /\ priority[shelf[g].category] # 0 /\ shelf[g].id # 0

CategoryInv ==
  CategoryTypes /\ EditsHaveRank /\ SubsOfListed /\ OnListed /\ ShelfRefs /\ DenseUnlessStale

-----------------------------------------------------------------------------
(* The ranks *)

\* Before the first gap: every number up to a taken rank is taken.
LEMMA RankBelow ==
  ASSUME RanksDense, NEW c \in Categories, priority[c] # 0, NEW place \in 1 .. priority[c]
  PROVE  \E d \in Categories : priority[d] = place /\ priority[d] # 0
BY DEF RanksDense, Listed

\* The ranks of the handlers under the advisory lock, from what they do to them.
LEMMA RanksOf ==
  ASSUME priority' \in [Categories -> Nat],
         \A d, e \in Categories : priority'[d] # 0 /\ priority'[d] = priority'[e] => d = e,
         ~strayed' => \A d \in Categories : \A place \in 1 .. priority'[d] :
                        \E e \in Categories : priority'[e] = place
  PROVE  DenseUnlessStale'
<1>1. RanksUnique'
  BY DEF RanksUnique, Listed
<1>2. ASSUME ~strayed' PROVE RanksDense'
  BY <1>2 DEF RanksDense, Listed
<1> QED BY <1>1, <1>2 DEF DenseUnlessStale

LEMMA CreateRanks ==
  ASSUME CategoryInv, NEW c \in Categories, NEW wanted \in SUBSET Slugs, CreateCategory(c, wanted)
  PROVE  DenseUnlessStale' /\ priority' \in [Categories -> Nat]
<1>1. PICK max \in RanksTaken : IsMax(max) /\ priority' = [priority EXCEPT ![c] = max + 1]
  BY DEF CreateCategory
<1>2. priority \in [Categories -> Nat] /\ max \in Nat /\ strayed' = strayed
      /\ \A d \in Categories : priority[d] <= max
  BY <1>1 DEF CategoryInv, CategoryTypes, RanksTaken, CreateCategory, IsMax
<1>3. priority' \in [Categories -> Nat]
  BY <1>1, <1>2
<1>4. ASSUME NEW d \in Categories, NEW e \in Categories, priority'[d] # 0, priority'[d] = priority'[e]
      PROVE  d = e
  BY <1>1, <1>2, <1>4 DEF CategoryInv, DenseUnlessStale, RanksUnique, Listed
<1>5. ASSUME ~strayed', NEW d \in Categories, NEW place \in 1 .. priority'[d]
      PROVE  \E e \in Categories : priority'[e] = place
  <2>1. priority[c] = 0 /\ RanksDense
    BY <1>2, <1>5 DEF CreateCategory, Listed, CategoryInv, DenseUnlessStale
  <2>2. CASE place = max + 1
    BY <1>1, <1>2, <2>2
  <2>3. CASE place # max + 1
    <3>1. place <= max /\ max # 0 /\ place # 0
      BY <1>1, <1>2, <1>5, <2>3
    <3>2. PICK b \in Categories : priority[b] = max
      BY <3>1 DEF RanksTaken
    <3>3. PICK e \in Categories : priority[e] = place
      BY <1>2, <2>1, <3>1, <3>2, RankBelow
    <3>4. e # c
      BY <2>1, <3>1, <3>3
    <3> QED BY <1>1, <1>2, <3>3, <3>4
  <2> QED BY <2>2, <2>3
<1> QED BY <1>3, <1>4, <1>5, RanksOf

LEMMA MoveRanks ==
  ASSUME CategoryInv, NEW c \in Categories, NEW target \in 1 .. MaxRank, MoveTo(c, target)
  PROVE  /\ DenseUnlessStale' /\ priority' \in [Categories -> Nat]
         /\ \A d \in Categories : priority'[d] = 0 <=> priority[d] = 0
<1>1. priority \in [Categories -> Nat] /\ priority[c] # 0 /\ target \in Nat /\ target # 0
      /\ strayed' = strayed
  BY CategoryAssumption DEF CategoryInv, CategoryTypes, MoveTo, Listed
<1>2. PICK b \in Categories : target <= priority[b]
  <2>1. PICK max \in RanksTaken : target \in 1 .. max
    BY DEF MoveTo
  <2>2. max # 0
    BY <1>1, <2>1
  <2> QED BY <2>1, <2>2 DEF RanksTaken
<1>3. ASSUME NEW d \in Categories
      PROVE  /\ priority[d] = 0 => priority'[d] = 0
             /\ d = c => priority'[d] = target
             /\ priority[d] # 0 /\ d # c /\ target <= priority[d] /\ priority[d] < priority[c] =>
                  priority'[d] = priority[d] + 1
             /\ priority[d] # 0 /\ d # c /\ priority[c] < priority[d] /\ priority[d] <= target =>
                  priority'[d] = priority[d] - 1
             /\ priority[d] # 0 /\ d # c
                /\ ~(target <= priority[d] /\ priority[d] < priority[c])
                /\ ~(priority[c] < priority[d] /\ priority[d] <= target) =>
                  priority'[d] = priority[d]
  <2>1. priority'[d] = IF priority[d] = 0 THEN 0 ELSE Moved(d, c, target)
    BY DEF MoveTo
  <2>2. priority[d] \in Nat /\ priority[c] \in Nat
    BY <1>1
  <2> QED BY <1>1, <2>1, <2>2 DEF Moved
<1>4. priority' \in [Categories -> Nat]
  <2>1. \A d \in Categories : priority'[d] \in Nat
    BY <1>1, <1>3
  <2> QED BY <2>1 DEF MoveTo
<1>5. \A d \in Categories : priority'[d] = 0 <=> priority[d] = 0
  BY <1>1, <1>3
<1>6. \A d \in Categories : d # c /\ priority[d] # 0 => priority[d] # priority[c]
  BY <1>1 DEF CategoryInv, DenseUnlessStale, RanksUnique, Listed
<1>7. ASSUME NEW d \in Categories, NEW e \in Categories, priority'[d] # 0, priority'[d] = priority'[e]
      PROVE  d = e
  <2>1. priority[d] # 0 /\ priority[e] # 0
    BY <1>5, <1>7
  <2>2. SUFFICES ASSUME d # e PROVE FALSE
    OBVIOUS
  <2>3. priority[d] # priority[e]
    BY <2>1, <2>2 DEF CategoryInv, DenseUnlessStale, RanksUnique, Listed
  <2>4. CASE d = c
    BY <1>1, <1>3, <1>6, <1>7, <2>1, <2>2, <2>3, <2>4
  <2>5. CASE e = c
    BY <1>1, <1>3, <1>6, <1>7, <2>1, <2>2, <2>3, <2>5
  <2>6. CASE d # c /\ e # c
    BY <1>1, <1>3, <1>6, <1>7, <2>1, <2>2, <2>3, <2>6
  <2> QED BY <2>4, <2>5, <2>6
<1>8. ASSUME ~strayed', NEW d \in Categories, NEW place \in 1 .. priority'[d]
      PROVE  \E e \in Categories : priority'[e] = place
  <2>1. RanksDense /\ place \in Nat /\ place # 0 /\ place <= priority'[d] /\ priority'[d] \in Nat
    BY <1>1, <1>4, <1>8 DEF CategoryInv, DenseUnlessStale
  <2>2. CASE place = target
    BY <1>3, <2>2
  <2>3. CASE target < place /\ place <= priority[c]
    <3>1. PICK e \in Categories : priority[e] = place - 1 /\ priority[e] # 0
      <4>1. place - 1 \in 1 .. priority[c]
        BY <1>1, <2>1, <2>3
      <4> QED BY <1>1, <2>1, <4>1, RankBelow
    <3>2. priority'[e] = place
      BY <1>1, <1>3, <2>1, <2>3, <3>1
    <3> QED BY <3>2
  <2>4. CASE priority[c] <= place /\ place < target
    <3>1. PICK e \in Categories : priority[e] = place + 1 /\ priority[e] # 0
      <4>1. place + 1 \in 1 .. priority[b] /\ priority[b] # 0
        BY <1>1, <1>2, <2>1, <2>4
      <4> QED BY <1>1, <2>1, <4>1, RankBelow
    <3>2. priority'[e] = place
      BY <1>1, <1>3, <2>1, <2>4, <3>1
    <3> QED BY <3>2
  <2>5. CASE /\ place # target /\ ~(target < place /\ place <= priority[c])
             /\ ~(priority[c] <= place /\ place < target)
    <3>1. place <= priority[d] \/ place <= priority[b] \/ place <= priority[c]
      BY <1>1, <1>2, <1>3, <2>1, <2>5
    <3>2. PICK e \in Categories : priority[e] = place /\ priority[e] # 0
      <4>1. PICK a \in {b, c, d} : place \in 1 .. priority[a] /\ priority[a] # 0
        BY <1>1, <2>1, <3>1
      <4> QED BY <2>1, <4>1, RankBelow
    <3>3. e # c
      BY <1>1, <2>1, <2>5, <3>2
    <3>4. priority'[e] = place
      BY <1>1, <1>3, <2>1, <2>5, <3>2, <3>3
    <3> QED BY <3>4
  <2> QED BY <1>1, <2>1, <2>2, <2>3, <2>4, <2>5
<1> QED BY <1>4, <1>5, <1>7, <1>8, RanksOf

LEMMA DeleteRanks ==
  ASSUME CategoryInv, NEW c \in Categories, DeleteCategory(c)
  PROVE  /\ DenseUnlessStale' /\ priority' \in [Categories -> Nat]
         /\ \A d \in Categories : d # c => (priority'[d] = 0 <=> priority[d] = 0)
         /\ priority'[c] = 0
<1>1. priority \in [Categories -> Nat] /\ priority[c] # 0 /\ strayed' = strayed
  BY DEF CategoryInv, CategoryTypes, DeleteCategory, Listed
<1>2. ASSUME NEW d \in Categories
      PROVE  /\ d = c => priority'[d] = 0
             /\ d # c /\ priority[d] > priority[c] => priority'[d] = priority[d] - 1
             /\ d # c /\ ~(priority[d] > priority[c]) => priority'[d] = priority[d]
  BY DEF DeleteCategory
<1>3. priority' \in [Categories -> Nat]
  <2>1. \A d \in Categories : priority'[d] \in Nat
    BY <1>1, <1>2
  <2> QED BY <2>1 DEF DeleteCategory
<1>4. \A d \in Categories : d # c => (priority'[d] = 0 <=> priority[d] = 0)
  BY <1>1, <1>2
<1>5. \A d \in Categories : d # c /\ priority[d] # 0 => priority[d] # priority[c]
  BY <1>1 DEF CategoryInv, DenseUnlessStale, RanksUnique, Listed
<1>6. ASSUME NEW d \in Categories, NEW e \in Categories, priority'[d] # 0, priority'[d] = priority'[e]
      PROVE  d = e
  <2>1. d # c /\ e # c /\ priority[d] # 0 /\ priority[e] # 0
    BY <1>2, <1>4, <1>6
  <2>2. priority[d] = priority[e] => d = e
    BY <2>1 DEF CategoryInv, DenseUnlessStale, RanksUnique, Listed
  <2> QED BY <1>1, <1>2, <1>5, <1>6, <2>1, <2>2
<1>7. ASSUME ~strayed', NEW d \in Categories, NEW place \in 1 .. priority'[d]
      PROVE  \E e \in Categories : priority'[e] = place
  <2>1. RanksDense /\ place \in Nat /\ place # 0 /\ place <= priority'[d] /\ priority'[d] \in Nat
    BY <1>1, <1>3, <1>7 DEF CategoryInv, DenseUnlessStale
  <2>2. d # c /\ priority[d] # 0
    BY <1>2, <1>4, <2>1
  <2>3. CASE place < priority[c]
    <3>1. PICK e \in Categories : priority[e] = place
      BY <1>1, <2>1, <2>3, RankBelow
    <3> QED BY <1>1, <1>2, <2>1, <2>3, <3>1
  <2>4. CASE priority[c] <= place
    <3>0. priority[d] \in Nat /\ priority[c] \in Nat
      BY <1>1
    <3>1. place + 1 \in 1 .. priority[d]
      <4>1. CASE priority[d] > priority[c]
        BY <1>2, <2>1, <2>2, <2>4, <3>0, <4>1
      <4>2. CASE ~(priority[d] > priority[c])
        <5>1. priority'[d] = priority[d] /\ place <= priority[d] /\ priority[d] = priority[c]
          BY <1>2, <2>1, <2>2, <2>4, <3>0, <4>2
        <5> QED BY <1>5, <2>2, <5>1
      <4> QED BY <4>1, <4>2
    <3>2. PICK e \in Categories : priority[e] = place + 1
      BY <2>1, <2>2, <3>1, RankBelow
    <3> QED BY <1>1, <1>2, <2>1, <2>4, <3>2
  <2> QED BY <1>1, <2>1, <2>3, <2>4
<1> QED BY <1>2, <1>3, <1>4, <1>6, <1>7, RanksOf

LEMMA ReorderRanks ==
  ASSUME CategoryInv, NEW order \in [Categories -> 0 .. MaxRank], Reorder(order)
  PROVE  /\ DenseUnlessStale' /\ priority' \in [Categories -> Nat]
         /\ \A d \in Categories : priority'[d] = 0 <=> priority[d] = 0
<1>1. priority' = order /\ order \in [Categories -> Nat]
      /\ \A d \in Categories : order[d] = 0 <=> priority[d] = 0
  BY DEF Reorder, Listed
<1>2. ASSUME NEW d \in Categories, NEW e \in Categories, priority'[d] # 0, priority'[d] = priority'[e]
      PROVE  d = e
  BY <1>1, <1>2 DEF Reorder, Listed
<1>3. ASSUME NEW d \in Categories, NEW place \in 1 .. priority'[d]
      PROVE  \E e \in Categories : priority'[e] = place
  <2>1. priority[d] # 0
    BY <1>1, <1>3
  <2> QED BY <1>1, <1>3, <2>1 DEF Reorder, Listed
<1> QED BY <1>1, <1>2, <1>3, RanksOf

LEMMA SaveRanks ==
  ASSUME CategoryInv, NEW e \in Editors, SaveCategory(e)
  PROVE  /\ DenseUnlessStale' /\ priority' \in [Categories -> Nat]
         /\ \A d \in Categories : priority[d] # 0 => priority'[d] # 0
<1> DEFINE c == edit[e].category
           place == edit[e].priority
<1>1. priority \in [Categories -> Nat] /\ c \in Categories /\ place \in Nat /\ place # 0
  BY DEF CategoryInv, CategoryTypes, EditsHaveRank, SaveCategory, Edits
<1>2. CASE UNCHANGED <<priority, strayed>>
  BY <1>1, <1>2 DEF CategoryInv, DenseUnlessStale, RanksUnique, RanksDense, Listed
<1>3. CASE /\ \A d \in Listed : d # c => priority[d] # place
           /\ priority' = [priority EXCEPT ![c] = place]
           /\ strayed' = (strayed \/ priority[c] # place)
  <2>1. priority' \in [Categories -> Nat]
    BY <1>1, <1>3
  <2>2. RanksUnique'
    BY <1>1, <1>3 DEF CategoryInv, DenseUnlessStale, RanksUnique, Listed
  <2>3. ASSUME ~strayed' PROVE RanksDense'
    <3>1. ~strayed /\ priority[c] = place
      BY <1>3, <2>3
    <3>2. priority' = priority
      BY <1>1, <1>3, <3>1
    <3> QED BY <3>1, <3>2 DEF CategoryInv, DenseUnlessStale, RanksDense, Listed
  <2> QED BY <1>1, <1>3, <2>1, <2>2, <2>3 DEF DenseUnlessStale
<1> QED BY <1>2, <1>3 DEF SaveCategory

-----------------------------------------------------------------------------
(* The subcategories and the products *)

\* What a change of categories has to respect: categories with products stay listed,
\* and their subcategories with products keep their rows.
RowsKept ==
  /\ shelf' = shelf
  /\ \A c \in Categories :
       (priority[c] # 0 /\ \E g \in Garments : shelf[g].category = c /\ shelf[g] # OffShelf)
         => priority'[c] # 0
  /\ \A g \in Garments : shelf[g] # OffShelf =>
       subs'[shelf[g].category][shelf[g].slug] = subs[shelf[g].category][shelf[g].slug]

LEMMA RowsKeptKeeps ==
  ASSUME OnListed, ShelfRefs, RowsKept
  PROVE  OnListed' /\ ShelfRefs'
<1>1. OnListed'
  BY DEF OnListed, RowsKept
<1>2. ShelfRefs'
  BY DEF ShelfRefs, OnListed, RowsKept
<1> QED BY <1>1, <1>2

\* The list of an update gives new rows to new slugs only.
LEMMA SetSubsKeeps ==
  ASSUME CategoryInv, NEW c \in Categories, NEW wanted \in SUBSET Slugs, SetSubs(c, wanted)
  PROVE  /\ subs' \in [Categories -> [Slugs -> Nat]] /\ lastSub' \in Nat
         /\ \A d \in Categories : d # c => subs'[d] = subs[d]
         /\ \A g \in Garments : shelf[g] # OffShelf =>
              subs'[shelf[g].category][shelf[g].slug] = subs[shelf[g].category][shelf[g].slug]
<1>1. subs \in [Categories -> [Slugs -> Nat]] /\ lastSub \in Nat
  BY DEF CategoryInv, CategoryTypes
<1>2. Reconciled(subs[c], wanted) \in [Slugs -> Nat]
  BY <1>1 DEF Reconciled
<1>3. subs' = [subs EXCEPT ![c] = Reconciled(subs[c], wanted)]
  BY DEF SetSubs
<1>4. lastSub' \in Nat
  BY <1>1 DEF SetSubs
<1>5. ASSUME NEW g \in Garments, shelf[g] # OffShelf
      PROVE  subs'[shelf[g].category][shelf[g].slug] = subs[shelf[g].category][shelf[g].slug]
  <2>1. /\ shelf[g].category \in Categories /\ shelf[g].slug \in Slugs /\ shelf[g].id # 0
        /\ subs[shelf[g].category][shelf[g].slug] = shelf[g].id
    BY <1>5 DEF CategoryInv, OnListed, ShelfRefs
  <2>2. CASE shelf[g].category = c
    <3>1. InUse(c, shelf[g].slug)
      BY <2>2 DEF InUse
    <3>2. shelf[g].slug \in wanted
      BY <2>1, <3>1 DEF SetSubs
    <3>3. Reconciled(subs[c], wanted)[shelf[g].slug] = subs[c][shelf[g].slug]
      BY <2>1, <2>2, <3>2 DEF Reconciled
    <3> QED BY <1>1, <1>3, <2>2, <3>3
  <2>3. CASE shelf[g].category # c
    BY <1>1, <1>3, <2>1, <2>3
  <2> QED BY <2>2, <2>3
<1> QED BY <1>1, <1>2, <1>3, <1>4, <1>5

\* The parts of the invariant, when the ranks are all right and no update was read.
LEMMA Together ==
  ASSUME CategoryInv, DenseUnlessStale', priority' \in [Categories -> Nat], RowsKept,
         subs' \in [Categories -> [Slugs -> Nat]], lastSub' \in Nat, strayed' \in BOOLEAN,
         SubsOfListed', edit' = edit
  PROVE  CategoryInv'
<1>1. CategoryTypes' /\ EditsHaveRank'
  BY DEF CategoryInv, CategoryTypes, EditsHaveRank
<1>2. OnListed' /\ ShelfRefs'
  BY RowsKeptKeeps DEF CategoryInv
<1> QED BY <1>1, <1>2 DEF CategoryInv

LEMMA CreateKeeps ==
  ASSUME CategoryInv, NEW c \in Categories, NEW wanted \in SUBSET Slugs, CreateCategory(c, wanted)
  PROVE  CategoryInv'
<1>1. DenseUnlessStale' /\ priority' \in [Categories -> Nat]
  BY CreateRanks
<1>2. SetSubs(c, wanted) /\ shelf' = shelf /\ edit' = edit /\ strayed' \in BOOLEAN
  BY DEF CreateCategory, CategoryInv, CategoryTypes
<1>3. priority[c] = 0 /\ priority'[c] # 0 /\ \A d \in Categories : d # c => priority'[d] = priority[d]
  <2>1. PICK max \in RanksTaken : priority' = [priority EXCEPT ![c] = max + 1]
    BY DEF CreateCategory
  <2>2. max \in Nat /\ priority \in [Categories -> Nat]
    BY DEF RanksTaken, CategoryInv, CategoryTypes
  <2> QED BY <2>1, <2>2 DEF CreateCategory, Listed
<1>4. SubsOfListed'
  BY <1>2, <1>3, SetSubsKeeps DEF CategoryInv, SubsOfListed
<1>5. RowsKept
  BY <1>2, <1>3, SetSubsKeeps DEF RowsKept
<1> QED BY <1>1, <1>2, <1>4, <1>5, SetSubsKeeps, Together

LEMMA MoveKeeps ==
  ASSUME CategoryInv, NEW c \in Categories, NEW target \in 1 .. MaxRank, MoveTo(c, target)
  PROVE  CategoryInv'
<1>1. /\ DenseUnlessStale' /\ priority' \in [Categories -> Nat]
      /\ \A d \in Categories : priority'[d] = 0 <=> priority[d] = 0
  BY MoveRanks
<1>2. shelf' = shelf /\ edit' = edit /\ strayed' \in BOOLEAN /\ priority[c] # 0
  BY DEF MoveTo, CategoryInv, CategoryTypes, Listed
<1>3. /\ subs' \in [Categories -> [Slugs -> Nat]] /\ lastSub' \in Nat
      /\ \A d \in Categories : d # c => subs'[d] = subs[d]
      /\ \A g \in Garments : shelf[g] # OffShelf =>
           subs'[shelf[g].category][shelf[g].slug] = subs[shelf[g].category][shelf[g].slug]
  <2>1. CASE UNCHANGED <<subs, lastSub>>
    BY <2>1 DEF CategoryInv, CategoryTypes
  <2>2. CASE \E wanted \in SUBSET Slugs : SetSubs(c, wanted)
    BY <2>2, SetSubsKeeps
  <2> QED BY <2>1, <2>2 DEF MoveTo
<1>4. SubsOfListed' /\ RowsKept
  BY <1>1, <1>2, <1>3 DEF CategoryInv, SubsOfListed, RowsKept
<1> QED BY <1>1, <1>2, <1>3, <1>4, Together

LEMMA ReorderKeeps ==
  ASSUME CategoryInv, NEW order \in [Categories -> 0 .. MaxRank], Reorder(order)
  PROVE  CategoryInv'
<1>1. /\ DenseUnlessStale' /\ priority' \in [Categories -> Nat]
      /\ \A d \in Categories : priority'[d] = 0 <=> priority[d] = 0
  BY ReorderRanks
<1>2. UNCHANGED <<subs, lastSub, shelf, edit>> /\ strayed' \in BOOLEAN
  BY DEF Reorder
<1>3. SubsOfListed' /\ RowsKept
  BY <1>1, <1>2 DEF CategoryInv, SubsOfListed, RowsKept
<1> QED BY <1>1, <1>2, <1>3, Together DEF CategoryInv, CategoryTypes

LEMMA DeleteKeeps ==
  ASSUME CategoryInv, NEW c \in Categories, DeleteCategory(c)
  PROVE  CategoryInv'
<1>1. /\ DenseUnlessStale' /\ priority' \in [Categories -> Nat]
      /\ \A d \in Categories : d # c => (priority'[d] = 0 <=> priority[d] = 0)
      /\ priority'[c] = 0
  BY DeleteRanks
<1>2. UNCHANGED <<lastSub, shelf, edit, strayed>> /\ subs' = [subs EXCEPT ![c] = NoSubs]
  BY DEF DeleteCategory
<1>3. subs \in [Categories -> [Slugs -> Nat]] /\ NoSubs \in [Slugs -> Nat]
  BY DEF CategoryInv, CategoryTypes, NoSubs
<1>4. ASSUME NEW g \in Garments, shelf[g] # OffShelf PROVE shelf[g].category # c
  BY <1>4 DEF CategoryInv, OnListed, DeleteCategory, InUse
<1>5. SubsOfListed'
  BY <1>1, <1>2, <1>3 DEF CategoryInv, SubsOfListed, NoSubs
<1>6. RowsKept
  BY <1>1, <1>2, <1>3, <1>4 DEF CategoryInv, OnListed, RowsKept
<1> QED BY <1>1, <1>2, <1>3, <1>5, <1>6, Together DEF CategoryInv, CategoryTypes

LEMMA ReadKeeps ==
  ASSUME CategoryInv, NEW e \in Editors, NEW c \in Categories, ReadCategory(e, c)
  PROVE  CategoryInv'
<1> DEFINE row == [category |-> c, priority |-> priority[c], subs |-> subs[c]]
<1>1. row \in Edits /\ row.category = c /\ row.priority # 0
  BY DEF CategoryInv, CategoryTypes, Edits, ReadCategory, Listed
<1>2. edit' = [edit EXCEPT ![e] = row] /\ UNCHANGED <<priority, subs, lastSub, shelf, strayed>>
  BY DEF ReadCategory
<1> HIDE DEF row
<1>3. CategoryTypes' /\ EditsHaveRank'
  BY <1>1, <1>2 DEF CategoryInv, CategoryTypes, EditsHaveRank
<1>4. SubsOfListed' /\ OnListed' /\ ShelfRefs'
  BY <1>2 DEF CategoryInv, SubsOfListed, OnListed, ShelfRefs
<1>5. DenseUnlessStale'
  BY <1>2 DEF CategoryInv, DenseUnlessStale, RanksUnique, RanksDense, Listed
<1> QED BY <1>3, <1>4, <1>5 DEF CategoryInv

LEMMA SaveKeeps ==
  ASSUME CategoryInv, NEW e \in Editors, SaveCategory(e)
  PROVE  CategoryInv'
<1> DEFINE c == edit[e].category
<1>1. /\ DenseUnlessStale' /\ priority' \in [Categories -> Nat]
      /\ \A d \in Categories : priority[d] # 0 => priority'[d] # 0
  BY SaveRanks
<1>2. c \in Categories /\ edit[e].priority \in Nat /\ edit[e].priority # 0
      /\ edit[e].subs \in [Slugs -> Nat] /\ shelf' = shelf
  BY DEF CategoryInv, CategoryTypes, EditsHaveRank, SaveCategory, Edits
<1>3. subs \in [Categories -> [Slugs -> Nat]] /\ lastSub \in Nat /\ priority \in [Categories -> Nat]
  BY DEF CategoryInv, CategoryTypes
<1>4. ASSUME NEW g \in Garments, shelf[g] # OffShelf
      PROVE  shelf[g].category \in Categories /\ priority[shelf[g].category] # 0
  BY <1>4 DEF CategoryInv, OnListed
<1>5. /\ subs' \in [Categories -> [Slugs -> Nat]] /\ lastSub' \in Nat
      /\ \A d \in Categories : d # c => subs'[d] = subs[d]
      /\ \A g \in Garments : shelf[g] # OffShelf =>
           subs'[shelf[g].category][shelf[g].slug] = subs[shelf[g].category][shelf[g].slug]
  <2>1. CASE UNCHANGED <<subs, lastSub>>
    BY <1>3, <2>1
  <2>2. CASE \E wanted \in SUBSET Slugs : SetSubs(c, wanted)
    BY <1>2, <2>2, SetSubsKeeps
  <2>3. CASE c \notin Listed /\ subs' = [subs EXCEPT ![c] = edit[e].subs] /\ UNCHANGED lastSub
    BY <1>2, <1>3, <1>4, <2>3 DEF Listed
  <2> QED BY <2>1, <2>2, <2>3 DEF SaveCategory
<1>6. SubsOfListed'
  <2>1. CASE UNCHANGED <<priority, subs>>
    BY <2>1 DEF CategoryInv, SubsOfListed
  <2>2. CASE priority' = [priority EXCEPT ![c] = edit[e].priority]
    BY <1>2, <1>3, <1>5, <2>2 DEF CategoryInv, SubsOfListed
  <2> QED BY <2>1, <2>2 DEF SaveCategory
<1>7. RowsKept
  BY <1>1, <1>2, <1>5 DEF RowsKept
<1>8. OnListed' /\ ShelfRefs'
  BY <1>7, RowsKeptKeeps DEF CategoryInv
<1>9. NoEdit \in Edits
  BY DEF NoEdit, NoSubs, Edits
<1>10. edit' = [edit EXCEPT ![e] = NoEdit]
  BY DEF SaveCategory
<1>11. edit' \in [Editors -> Edits] /\ EditsHaveRank'
  BY <1>9, <1>10 DEF CategoryInv, CategoryTypes, EditsHaveRank
<1>12. strayed' \in BOOLEAN
  BY DEF SaveCategory, CategoryInv, CategoryTypes
<1> QED BY <1>1, <1>5, <1>6, <1>8, <1>11, <1>12 DEF CategoryInv, CategoryTypes

\* A product is put on a shelf, or taken off it.
LEMMA ShelvingKeeps ==
  ASSUME CategoryInv, NEW g \in Garments,
         \/ \E c \in Categories, s \in Slugs : PutOnShelf(g, c, s)
         \/ TakeOffShelf(g)
  PROVE  CategoryInv'
<1>1. UNCHANGED <<priority, subs, lastSub, edit, strayed>>
  BY DEF PutOnShelf, TakeOffShelf
<1>2. CategoryTypes' /\ EditsHaveRank' /\ SubsOfListed'
  BY <1>1 DEF CategoryInv, CategoryTypes, EditsHaveRank, SubsOfListed
<1>3. DenseUnlessStale'
  BY <1>1 DEF CategoryInv, DenseUnlessStale, RanksUnique, RanksDense, Listed
<1>4. OnListed' /\ ShelfRefs'
  <2>1. CASE \E c \in Categories, s \in Slugs : PutOnShelf(g, c, s)
    <3>1. PICK c \in Categories, s \in Slugs : PutOnShelf(g, c, s)
      BY <2>1
    <3> DEFINE place == [category |-> c, slug |-> s, id |-> subs[c][s]]
    <3>2. subs[c][s] \in Nat /\ subs[c][s] # 0 /\ priority[c] # 0
      BY <3>1 DEF PutOnShelf, CategoryInv, CategoryTypes, SubsOfListed
    <3>3. shelf' = [shelf EXCEPT ![g] = place]
      BY <3>1 DEF PutOnShelf
    <3>4. place \in [category: Categories \cup {"none"}, slug: Slugs \cup {"none"}, id: Nat]
          /\ place.category = c /\ place.slug = s /\ place.id = subs[c][s]
      BY <3>2
    <3> HIDE DEF place
    <3>5. \A h \in Garments : shelf'[h] = IF h = g THEN place ELSE shelf[h]
      BY <3>3 DEF CategoryInv, OnListed
    <3>6. OnListed'
      BY <1>1, <3>2, <3>3, <3>4, <3>5 DEF CategoryInv, OnListed
    <3>7. ShelfRefs'
      BY <1>1, <3>4, <3>5 DEF CategoryInv, ShelfRefs
    <3> QED BY <3>6, <3>7
  <2>2. CASE TakeOffShelf(g)
    <3>1. OffShelf \in [category: Categories \cup {"none"}, slug: Slugs \cup {"none"}, id: Nat]
      BY DEF OffShelf
    <3>2. shelf' = [shelf EXCEPT ![g] = OffShelf]
      BY <2>2 DEF TakeOffShelf
    <3>3. \A h \in Garments : shelf'[h] = IF h = g THEN OffShelf ELSE shelf[h]
      BY <3>2 DEF CategoryInv, OnListed
    <3>4. OnListed'
      BY <1>1, <3>1, <3>2, <3>3 DEF CategoryInv, OnListed
    <3>5. ShelfRefs'
      BY <1>1, <3>3 DEF CategoryInv, ShelfRefs
    <3> QED BY <3>4, <3>5
  <2> QED BY <2>1, <2>2
<1> QED BY <1>2, <1>3, <1>4 DEF CategoryInv

-----------------------------------------------------------------------------
\* Every step keeps the invariant.
THEOREM CategoryInvariance == CategorySpec => []CategoryInv
<1>1. CategoryInit => CategoryInv
  <2>1. NoEdit \in Edits /\ OffShelf \in [category: Categories \cup {"none"},
                                          slug: Slugs \cup {"none"}, id: Nat]
    BY DEF NoEdit, NoSubs, Edits, OffShelf
  <2>2. CategoryInit => CategoryTypes /\ EditsHaveRank /\ SubsOfListed
    <3>1. CategoryInit => priority \in [Categories -> Nat] /\ subs \in [Categories -> [Slugs -> Nat]]
      BY DEF CategoryInit, NoSubs
    <3>2. CategoryInit => edit \in [Editors -> Edits] /\ EditsHaveRank
      BY <2>1 DEF CategoryInit, EditsHaveRank
    <3>3. CategoryInit => SubsOfListed
      BY DEF CategoryInit, SubsOfListed, NoSubs
    <3>4. CategoryInit => lastSub \in Nat
      BY DEF CategoryInit
    <3>5. CategoryInit => strayed \in BOOLEAN
      BY DEF CategoryInit
    <3> QED BY <3>1, <3>2, <3>3, <3>4, <3>5 DEF CategoryTypes
  <2>3. CategoryInit => OnListed /\ ShelfRefs
    <3>1. CategoryInit => \A g \in Garments : shelf[g] = OffShelf
      BY DEF CategoryInit
    <3>2. CategoryInit => shelf \in [Garments -> [category: Categories \cup {"none"},
                                                  slug: Slugs \cup {"none"}, id: Nat]]
      BY <2>1 DEF CategoryInit
    <3> QED BY <3>1, <3>2 DEF OnListed, ShelfRefs
  <2>4. CategoryInit => DenseUnlessStale
    BY DEF CategoryInit, DenseUnlessStale, RanksUnique, RanksDense, Listed
  <2> QED BY <2>2, <2>3, <2>4 DEF CategoryInv
<1>2. ASSUME CategoryInv, [CategoryNext]_categoryVars PROVE CategoryInv'
  <2>1. ASSUME NEW c \in Categories, NEW wanted \in SUBSET Slugs, CreateCategory(c, wanted)
        PROVE  CategoryInv'
    BY <1>2, <2>1, CreateKeeps
  <2>2. ASSUME NEW c \in Categories, NEW target \in 1 .. MaxRank, MoveTo(c, target)
        PROVE  CategoryInv'
    BY <1>2, <2>2, MoveKeeps
  <2>3. ASSUME NEW c \in Categories, DeleteCategory(c) PROVE CategoryInv'
    BY <1>2, <2>3, DeleteKeeps
  <2>4. ASSUME NEW c \in Categories, NEW e \in Editors, ReadCategory(e, c) PROVE CategoryInv'
    BY <1>2, <2>4, ReadKeeps
  <2>5. ASSUME NEW order \in [Categories -> 0 .. MaxRank], Reorder(order) PROVE CategoryInv'
    BY <1>2, <2>5, ReorderKeeps
  <2>6. ASSUME NEW e \in Editors, SaveCategory(e) PROVE CategoryInv'
    BY <1>2, <2>6, SaveKeeps
  <2>7. ASSUME NEW g \in Garments, NEW c \in Categories, NEW s \in Slugs, PutOnShelf(g, c, s)
        PROVE  CategoryInv'
    BY <1>2, <2>7, ShelvingKeeps
  <2>8. ASSUME NEW g \in Garments, TakeOffShelf(g) PROVE CategoryInv'
    BY <1>2, <2>8, ShelvingKeeps
  <2>9. CASE UNCHANGED categoryVars
    BY <1>2, <2>9 DEF categoryVars, CategoryInv, CategoryTypes, EditsHaveRank, SubsOfListed,
                      OnListed, ShelfRefs, DenseUnlessStale, RanksUnique, RanksDense, Listed
  <2> QED BY <1>2, <2>1, <2>2, <2>3, <2>4, <2>5, <2>6, <2>7, <2>8, <2>9 DEF CategoryNext
<1> QED BY <1>1, <1>2, PTL DEF CategorySpec

\* create, update with a rank, reorder and delete keep the ranks 1..N without a gap or a
\* double, and no update that overlaps them makes a double; a gap comes only from one
\* that wrote an old rank back.
THEOREM RanksWithoutGap == CategorySpec => []DenseUnlessStale
<1>1. CategoryInv => DenseUnlessStale
  BY DEF CategoryInv
<1> QED BY <1>1, CategoryInvariance, PTL

\* A product keeps the row of its subcategory through every update of the category:
\* reconcileSubCategories deletes and inserts only what the list changes.
THEOREM ProductsKeepSubcategory == CategorySpec => []ShelfRefs
<1>1. CategoryInv => ShelfRefs
  BY DEF CategoryInv
<1> QED BY <1>1, CategoryInvariance, PTL

-----------------------------------------------------------------------------
(* ProductLists *)

\* The proofs about the wishlist and the collections, for any number of
\* products and of requests at once.  That a click is not refused needs
\* what holds between its two statements: the product it read exists as
\* long as it did not leave the list, and the row that won a race is there
\* as long as nobody took it away.

Clicks == [step: {"idle", "insert", "raced", "failed"}, product: Wares \cup {"none"},
           left: BOOLEAN]
Updates == [step: {"idle", "save"}, products: SUBSET Wares, asked: BOOLEAN, stale: BOOLEAN]

\* What the request w about the wishlist relies on, when products exist and those of
\* list are on it.
Founded(w, products, list) ==
  /\ w.step # "idle" => w.product \in Wares
  /\ w.step = "insert" /\ ~w.left => w.product \in products
  /\ w.step = "raced" /\ ~w.left => w.product \in list
  /\ w.step = "failed" => w.left

\* The update e of a collection with products saves what it has.
Keeps(e, products) == e.step = "save" /\ ~e.asked /\ ~e.stale => e.products = products

WishInv ==
  /\ wares \subseteq Wares /\ wishlist \subseteq wares
  /\ wish \in [Requests -> Clicks]
  /\ \A r \in Requests : Founded(wish[r], wares, wishlist)

EditionInv ==
  /\ collection \in [exists: BOOLEAN, products: SUBSET Wares]
  /\ edition \in [Requests -> Updates]
  /\ \A r \in Requests : Keeps(edition[r], collection.products)

ListInv == WishInv /\ EditionInv

-----------------------------------------------------------------------------
(* The wishlist *)

\* One request goes on; the rows are the same, or its product was added.
LEMMA ClickKeeps ==
  ASSUME WishInv, NEW r \in Requests, NEW w \in Clicks, wish' = [wish EXCEPT ![r] = w],
         wares' = wares, wishlist \subseteq wishlist', wishlist' \subseteq wares,
         Founded(w, wares, wishlist')
  PROVE  WishInv'
<1>1. ASSUME NEW s \in Requests PROVE Founded(wish'[s], wares', wishlist')
  BY DEF WishInv, Founded
<1> QED BY <1>1 DEF WishInv

\* A product leaves the list, and perhaps the shop; the requests about it are told.
LEMMA LeavingKeeps ==
  ASSUME WishInv, NEW p \in Wares, wish' = Noted({p}), wishlist' = wishlist \ {p},
         wares' \in {wares, wares \ {p}}
  PROVE  WishInv'
<1>1. ASSUME NEW r \in Requests PROVE wish'[r] \in Clicks /\ Founded(wish'[r], wares', wishlist')
  <2>1. wish[r] \in Clicks /\ Founded(wish[r], wares, wishlist)
    BY DEF WishInv
  <2>2. CASE wish[r].product = p
    <3>1. wish'[r] = [wish[r] EXCEPT !.left = TRUE]
      BY <2>2 DEF Noted
    <3> QED BY <2>1, <3>1 DEF Clicks, Founded
  <2>3. CASE wish[r].product # p
    <3>1. wish'[r] = wish[r]
      BY <2>3 DEF Noted
    <3> QED BY <2>1, <2>3, <3>1 DEF Founded
  <2> QED BY <2>2, <2>3
<1>2. wish' \in [Requests -> Clicks]
  BY <1>1 DEF Noted
<1> QED BY <1>1, <1>2 DEF WishInv

LEMMA NoWishFounded ==
  /\ NoWish \in Clicks
  /\ \A products, list : Founded(NoWish, products, list)
BY DEF NoWish, Wish, Clicks, Founded

\* What becomes of one request, written as the row it has now.
LEMMA StepOf ==
  ASSUME WishInv, NEW r \in Requests, NEW step \in {"idle", "insert", "raced", "failed"}
  PROVE  LET w == [wish[r] EXCEPT !.step = step]
         IN  w \in Clicks /\ w.step = step /\ w.product = wish[r].product /\ w.left = wish[r].left
BY DEF WishInv, Clicks

LEMMA AddWishKeeps ==
  ASSUME WishInv, NEW r \in Requests, NEW p \in Wares, AddWish(r, p)
  PROVE  WishInv'
<1>1. Wish("insert", p, FALSE) \in Clicks /\ Founded(Wish("insert", p, FALSE), wares, wishlist)
  BY DEF AddWish, Wish, Clicks, Founded
<1>2. wishlist \subseteq wares
  BY DEF WishInv
<1> QED BY <1>1, <1>2, ClickKeeps DEF AddWish

LEMMA InsertWishKeeps ==
  ASSUME WishInv, NEW r \in Requests, InsertWish(r)
  PROVE  WishInv'
<1> DEFINE p == wish[r].product
<1>1. wish[r].step = "insert" /\ Founded(wish[r], wares, wishlist) /\ wares' = wares
      /\ wishlist \subseteq wares
  BY DEF InsertWish, WishInv
<1>2. CASE p \in wares /\ wishlist' = wishlist \cup {p} /\ wish' = [wish EXCEPT ![r] = NoWish]
  BY <1>1, <1>2, NoWishFounded, ClickKeeps
<1>3. CASE p \in wishlist /\ wish' = [wish EXCEPT ![r].step = "raced"] /\ UNCHANGED wishlist
  <2> DEFINE w == [wish[r] EXCEPT !.step = "raced"]
  <2>1. w \in Clicks /\ Founded(w, wares, wishlist)
    BY <1>1, <1>3, StepOf DEF Founded
  <2>2. wish' = [wish EXCEPT ![r] = w]
    BY <1>3
  <2> QED BY <1>1, <1>3, <2>1, <2>2, ClickKeeps
<1>4. CASE p \notin wares /\ wish' = [wish EXCEPT ![r].step = "failed"] /\ UNCHANGED wishlist
  <2> DEFINE w == [wish[r] EXCEPT !.step = "failed"]
  <2>1. w \in Clicks /\ Founded(w, wares, wishlist)
    BY <1>1, <1>4, StepOf DEF Founded
  <2>2. wish' = [wish EXCEPT ![r] = w]
    BY <1>4
  <2> QED BY <1>1, <1>4, <2>1, <2>2, ClickKeeps
<1> QED BY <1>2, <1>3, <1>4 DEF InsertWish

LEMMA FindRacedKeeps ==
  ASSUME WishInv, NEW r \in Requests, FindRaced(r)
  PROVE  WishInv'
<1>1. wish[r].step = "raced" /\ Founded(wish[r], wares, wishlist) /\ wares' = wares
      /\ wishlist' = wishlist /\ wishlist \subseteq wares
  BY DEF FindRaced, WishInv
<1>2. CASE wish[r].product \in wishlist
  BY <1>1, <1>2, NoWishFounded, ClickKeeps DEF FindRaced
<1>3. CASE wish[r].product \notin wishlist
  <2> DEFINE w == [wish[r] EXCEPT !.step = "failed"]
  <2>1. w \in Clicks /\ Founded(w, wares, wishlist)
    BY <1>1, <1>3, StepOf DEF Founded
  <2>2. wish' = [wish EXCEPT ![r] = w]
    BY <1>3 DEF FindRaced
  <2> QED BY <1>1, <2>1, <2>2, ClickKeeps
<1> QED BY <1>2, <1>3

LEMMA WishStepKeeps ==
  ASSUME WishInv, [ListNext]_listVars
  PROVE  WishInv'
<1>1. ASSUME NEW r \in Requests, NEW p \in Wares, AddWish(r, p) PROVE WishInv'
  BY <1>1, AddWishKeeps
<1>2. ASSUME NEW r \in Requests, InsertWish(r) PROVE WishInv'
  BY <1>2, InsertWishKeeps
<1>3. ASSUME NEW r \in Requests, FindRaced(r) PROVE WishInv'
  BY <1>3, FindRacedKeeps
<1>4. ASSUME NEW r \in Requests, AnswerWish(r) PROVE WishInv'
  <2>1. wishlist \subseteq wares
    BY DEF WishInv
  <2> QED BY <1>4, <2>1, NoWishFounded, ClickKeeps DEF AnswerWish
<1>5. ASSUME NEW p \in Wares, RemoveWish(p) PROVE WishInv'
  BY <1>5, LeavingKeeps DEF RemoveWish
<1>6. ASSUME NEW p \in Wares, DeleteWare(p) PROVE WishInv'
  BY <1>6, LeavingKeeps DEF DeleteWare
<1>7. ASSUME NEW p \in Wares, CreateWare(p) PROVE WishInv'
  BY <1>7 DEF CreateWare, WishInv, Founded
<1>8. ASSUME UNCHANGED <<wares, wishlist, wish>> PROVE WishInv'
  BY <1>8 DEF WishInv
<1> QED
  BY <1>1, <1>2, <1>3, <1>4, <1>5, <1>6, <1>7, <1>8
  DEF ListNext, listVars, SaveCollection, ReadCollection, CreateCollection, DeleteCollection

-----------------------------------------------------------------------------
(* The collection *)

\* An update is told when the collection it read becomes another.
LEMMA TellingKeeps ==
  ASSUME EditionInv, NEW others \in [Requests -> Updates],
         \A r \in Requests : Keeps(others[r], collection.products),
         collection' \in [exists: BOOLEAN, products: SUBSET Wares],
         edition' = [r \in Requests |->
           IF collection' # collection /\ others[r].step = "save"
           THEN [others[r] EXCEPT !.stale = TRUE] ELSE others[r]]
  PROVE  EditionInv'
<1>1. ASSUME NEW r \in Requests
      PROVE  edition'[r] \in Updates /\ Keeps(edition'[r], collection'.products)
  <2>1. others[r] \in Updates /\ Keeps(others[r], collection.products)
    OBVIOUS
  <2>2. CASE collection' # collection /\ others[r].step = "save"
    <3>1. edition'[r] = [others[r] EXCEPT !.stale = TRUE]
      BY <2>2
    <3> QED BY <2>1, <3>1 DEF Updates, Keeps
  <2>3. CASE ~(collection' # collection /\ others[r].step = "save")
    <3>1. edition'[r] = others[r]
      BY <2>3
    <3> QED BY <2>1, <2>3, <3>1 DEF Keeps
  <2> QED BY <2>2, <2>3
<1>2. edition' \in [Requests -> Updates]
  BY <1>1
<1> QED BY <1>1, <1>2 DEF EditionInv

LEMMA BecomesKeeps ==
  ASSUME EditionInv, NEW new \in [exists: BOOLEAN, products: SUBSET Wares], Becomes(new)
  PROVE  EditionInv'
<1>1. collection' = new
  BY DEF Becomes
<1>2. edition \in [Requests -> Updates] /\ \A r \in Requests : Keeps(edition[r], collection.products)
  BY DEF EditionInv
<1>3. edition' = [r \in Requests |->
         IF collection' # collection /\ edition[r].step = "save"
         THEN [edition[r] EXCEPT !.stale = TRUE] ELSE edition[r]]
  BY <1>1 DEF Becomes
<1> QED BY <1>1, <1>2, <1>3, TellingKeeps

LEMMA ReadCollectionKeeps ==
  ASSUME EditionInv, NEW r \in Requests, NEW asked \in BOOLEAN, NEW products \in SUBSET Wares,
         ReadCollection(r, asked, products)
  PROVE  EditionInv'
<1> DEFINE e == Edition("save", products, asked, FALSE)
<1>1. e \in Updates
  BY DEF Edition, Updates
<1>2. Keeps(e, collection.products)
  BY DEF Edition, Keeps, ReadCollection, Kept
<1>3. edition' = [edition EXCEPT ![r] = e] /\ collection' = collection
  BY DEF ReadCollection
<1> QED BY <1>1, <1>2, <1>3 DEF EditionInv

LEMMA SaveCollectionKeeps ==
  ASSUME EditionInv, NEW r \in Requests, SaveCollection(r)
  PROVE  EditionInv'
<1> DEFINE others == [edition EXCEPT ![r] = NoEdition]
           new == [exists |-> TRUE, products |-> edition[r].products]
<1>1. NoEdition \in Updates /\ \A products : Keeps(NoEdition, products)
  BY DEF NoEdition, Edition, Updates, Keeps
<1>2. others \in [Requests -> Updates] /\ \A s \in Requests : Keeps(others[s], collection.products)
  BY <1>1 DEF EditionInv
<1>3. new \in [exists: BOOLEAN, products: SUBSET Wares]
  BY DEF EditionInv, Updates
<1>4. CASE /\ collection' = new
           /\ edition' = [x \in Requests |->
                IF new # collection /\ others[x].step = "save"
                THEN [others[x] EXCEPT !.stale = TRUE] ELSE others[x]]
  BY <1>2, <1>3, <1>4, TellingKeeps
<1>5. CASE edition' = others /\ UNCHANGED collection
  BY <1>2, <1>5 DEF EditionInv
<1> QED BY <1>4, <1>5 DEF SaveCollection

LEMMA EditionStepKeeps ==
  ASSUME EditionInv, [ListNext]_listVars
  PROVE  EditionInv'
<1>1. ASSUME NEW r \in Requests, NEW asked \in BOOLEAN, NEW products \in SUBSET Wares,
             ReadCollection(r, asked, products)
      PROVE  EditionInv'
  BY <1>1, ReadCollectionKeeps
<1>2. ASSUME NEW r \in Requests, SaveCollection(r) PROVE EditionInv'
  BY <1>2, SaveCollectionKeeps
<1>3. ASSUME NEW products \in SUBSET Wares, CreateCollection(products) PROVE EditionInv'
  BY <1>3, BecomesKeeps DEF CreateCollection
<1>4. ASSUME DeleteCollection PROVE EditionInv'
  BY <1>4, BecomesKeeps DEF DeleteCollection
<1>5. ASSUME NEW p \in Wares, DeleteWare(p) PROVE EditionInv'
  <2>1. [collection EXCEPT !.products = @ \ {p}] \in [exists: BOOLEAN, products: SUBSET Wares]
    BY DEF EditionInv
  <2> QED BY <1>5, <2>1, BecomesKeeps DEF DeleteWare
<1>6. ASSUME UNCHANGED <<collection, edition>> PROVE EditionInv'
  BY <1>6 DEF EditionInv
<1> QED
  BY <1>1, <1>2, <1>3, <1>4, <1>5, <1>6
  DEF ListNext, listVars, AddWish, InsertWish, FindRaced, AnswerWish, RemoveWish, CreateWare

-----------------------------------------------------------------------------
\* Every step keeps the invariant.
THEOREM ListInvariance == ListSpec => []ListInv
<1>1. ListInit => ListInv
  <2>1. ListInit => WishInv
    BY NoWishFounded DEF ListInit, WishInv
  <2>2. NoEdition \in Updates /\ Keeps(NoEdition, {})
    BY DEF NoEdition, Edition, Updates, Keeps
  <2>3. ListInit => EditionInv
    BY <2>2 DEF ListInit, EditionInv
  <2> QED BY <2>1, <2>3 DEF ListInv
<1>2. ListInv /\ [ListNext]_listVars => ListInv'
  BY WishStepKeeps, EditionStepKeeps DEF ListInv
<1> QED BY <1>1, <1>2, PTL DEF ListSpec

\* A click on the wishlist is answered without an error unless its product left the
\* list meanwhile: addItem turns the error of the unique key into the row that won.
THEOREM ClicksAreNotRefused == ListSpec => []WishNotRefused
<1>1. ListInv => WishNotRefused
  BY DEF ListInv, WishInv, Founded, WishNotRefused
<1> QED BY <1>1, ListInvariance, PTL

\* An update of a collection that lists no products does not change its products,
\* unless they were changed between its read and its save.
THEOREM CollectionKeepsProducts == ListSpec => []ProductsKept
<1>1. ListInv => ProductsKept
  BY DEF ListInv, EditionInv, Keeps, ProductsKept
<1> QED BY <1>1, ListInvariance, PTL

-----------------------------------------------------------------------------
(* MediaStore *)

\* The proof that objects and rows agree, and that overlapping uploads
\* pass the daily limit by a bounded number, for any number of keys and of
\* connections.  ObjectsAndRows rests on keys being drawn once: the object
\* an upload deletes when its INSERT fails, or a deletion removes, belongs
\* to no other request; an upload that is still on its way to the storage
\* has no row; and the picture of a review is never asked to be removed.

Transfers == [step: {"idle", "post", "insert", "undo", "remove", "deleteRow"},
              key: Keys \cup {NoKey}, purpose: Purposes]

Uploads(t) == t.step \in {"post", "insert", "undo"}

\* What holds for the request t.
Rightful(t) ==
  /\ t \in Transfers
  /\ t.step # "idle" => t.key \in drawn
  /\ Uploads(t) => t.key \notin AllRows
  /\ t.step \in {"post", "insert"} => t.key \notin removing
  /\ t.step = "insert" => t.key \in objects
  /\ t.step \in {"insert", "undo", "remove", "deleteRow"} => t.key \notin sent
  /\ t.step = "deleteRow" => t.key \notin objects
  /\ t.step \in {"remove", "deleteRow"} => t.key \notin rows["REVIEW"]

\* The key of an upload is that of no other request.
Apart ==
  \A u, v \in Uploaders :
    u # v /\ Uploads(transfer[u]) /\ transfer[v].step # "idle" => transfer[u].key # transfer[v].key

Shelves ==
  /\ drawn \subseteq Keys
  /\ objects \subseteq drawn /\ sent \subseteq drawn /\ removing \subseteq drawn
  /\ rows \in [Purposes -> SUBSET drawn]
  /\ sent \cap objects = {} /\ sent \cap AllRows = {}
  /\ removing \cap rows["REVIEW"] = {} /\ rows["LIBRARY"] \cap rows["REVIEW"] = {}

MediaInv ==
  /\ transfer \in [Uploaders -> Transfers]
  /\ \A u \in Uploaders : Rightful(transfer[u])
  /\ Apart
  /\ Shelves
  /\ ObjectsAndRows

-----------------------------------------------------------------------------
\* One request changes: what the others are.
Changes(u, t) == transfer' = [transfer EXCEPT ![u] = t]

LEMMA ChangesOne ==
  ASSUME MediaInv, NEW u \in Uploaders, NEW t \in Transfers, Changes(u, t)
  PROVE  /\ transfer' \in [Uploaders -> Transfers]
         /\ transfer'[u] = t
         /\ \A v \in Uploaders : v # u => transfer'[v] = transfer[v]
BY DEF MediaInv, Changes

LEMMA GoingOn ==
  ASSUME MediaInv, NEW u \in Uploaders,
         NEW step \in {"idle", "post", "insert", "undo", "remove", "deleteRow"}, GoesOn(u, step)
  PROVE  /\ transfer' \in [Uploaders -> Transfers]
         /\ transfer'[u].step = step /\ transfer'[u].key = transfer[u].key
         /\ transfer'[u].purpose = transfer[u].purpose
         /\ \A v \in Uploaders : v # u => transfer'[v] = transfer[v]
<1> DEFINE t == [transfer[u] EXCEPT !.step = step]
<1>1. t \in Transfers /\ t.step = step /\ t.key = transfer[u].key /\ t.purpose = transfer[u].purpose
  BY DEF MediaInv, Transfers
<1>2. Changes(u, t)
  BY DEF GoesOn, Changes
<1> QED BY <1>1, <1>2, ChangesOne

LEMMA Finishing ==
  ASSUME MediaInv, NEW u \in Uploaders, Finishes(u)
  PROVE  /\ transfer' \in [Uploaders -> Transfers]
         /\ transfer'[u].step = "idle"
         /\ \A v \in Uploaders : v # u => transfer'[v] = transfer[v]
<1>1. NoTransfer \in Transfers /\ NoTransfer.step = "idle"
  BY DEF NoTransfer, Transfer, Transfers, Purposes
<1> QED BY <1>1, ChangesOne DEF Finishes, Changes

\* The parts of the invariant, from what a step does.
LEMMA TransfersTogether ==
  ASSUME transfer' \in [Uploaders -> Transfers],
         \A u \in Uploaders : Rightful(transfer[u])',
         Apart', Shelves', ObjectsAndRows'
  PROVE  MediaInv'
BY DEF MediaInv

-----------------------------------------------------------------------------
LEMMA UploadKeeps ==
  ASSUME MediaInv, NEW u \in Uploaders, NEW purpose \in Purposes, NEW k \in Keys,
         UploadMedia(u, purpose, k)
  PROVE  MediaInv'
<1> DEFINE t == Transfer("post", k, purpose)
<1>1. t \in Transfers /\ t.step = "post" /\ t.key = k
  BY DEF Transfer, Transfers
<1>2. transfer[u].step = "idle"
  BY DEF UploadMedia, NoTransfer, Transfer
<1>3. /\ transfer' \in [Uploaders -> Transfers]
      /\ transfer'[u] = t
      /\ \A v \in Uploaders : v # u => transfer'[v] = transfer[v]
  BY <1>1, ChangesOne DEF UploadMedia, Changes
<1> HIDE DEF t
<1>4. ASSUME NEW v \in Uploaders PROVE Rightful(transfer[v])'
  BY <1>1, <1>3 DEF MediaInv, Shelves, Rightful, UploadMedia, AllRows, Uploads, Purposes
<1>5. Apart'
  BY <1>1, <1>2, <1>3 DEF MediaInv, Apart, Rightful, UploadMedia, Uploads
<1>6. Shelves'
  BY DEF MediaInv, Shelves, UploadMedia, AllRows, Purposes
<1>7. ObjectsAndRows'
  BY <1>1, <1>2, <1>3 DEF MediaInv, ObjectsAndRows, UploadMedia, AllRows, Uploading
<1> QED BY <1>3, <1>4, <1>5, <1>6, <1>7, TransfersTogether

LEMMA StoredKeeps ==
  ASSUME MediaInv, NEW k \in sent, Stored(k)
  PROVE  MediaInv'
<1>1. ASSUME NEW v \in Uploaders PROVE Rightful(transfer[v])'
  BY DEF MediaInv, Rightful, Stored, AllRows, Uploads
<1>2. Apart' /\ Shelves' /\ ObjectsAndRows' /\ transfer' \in [Uploaders -> Transfers]
  BY DEF MediaInv, Apart, Shelves, ObjectsAndRows, Stored, AllRows, Uploading, Uploads
<1> QED BY <1>1, <1>2, TransfersTogether

LEMMA RefuseKeeps ==
  ASSUME MediaInv, NEW u \in Uploaders, RefuseMedia(u)
  PROVE  MediaInv'
<1>1. /\ transfer' \in [Uploaders -> Transfers]
      /\ transfer'[u].step = "idle"
      /\ \A v \in Uploaders : v # u => transfer'[v] = transfer[v]
  BY Finishing DEF RefuseMedia
<1>2. ASSUME NEW v \in Uploaders PROVE Rightful(transfer[v])'
  BY <1>1 DEF MediaInv, Rightful, RefuseMedia, AllRows, Uploads
<1>3. Apart' /\ Shelves'
  BY <1>1 DEF MediaInv, Apart, Shelves, RefuseMedia, AllRows, Uploads
<1>4. ObjectsAndRows'
  BY <1>1 DEF MediaInv, ObjectsAndRows, Shelves, RefuseMedia, AllRows, Uploading
<1> QED BY <1>1, <1>2, <1>3, <1>4, TransfersTogether

\* An upload goes on: its object is stored, or its INSERT failed.
LEMMA UploadGoesOn ==
  ASSUME MediaInv, NEW u \in Uploaders, GetsAnswer(u) \/ InsertFails(u)
  PROVE  MediaInv'
<1>1. /\ transfer' \in [Uploaders -> Transfers]
      /\ transfer'[u].step \in {"insert", "undo"} /\ transfer'[u].key = transfer[u].key
      /\ \A v \in Uploaders : v # u => transfer'[v] = transfer[v]
  BY GoingOn DEF GetsAnswer, InsertFails
<1>2. transfer[u].step \in {"post", "insert"} /\ transfer[u].key \in objects
  BY DEF GetsAnswer, InsertFails, MediaInv, Rightful
<1>3. UNCHANGED <<objects, sent, rows, drawn, gaveUp, removing>>
  BY DEF GetsAnswer, InsertFails
<1>4. ASSUME NEW v \in Uploaders PROVE Rightful(transfer[v])'
  BY <1>1, <1>2, <1>3 DEF MediaInv, Rightful, AllRows, Uploads, Shelves
<1>5. Apart' /\ Shelves'
  BY <1>1, <1>2, <1>3 DEF MediaInv, Apart, Shelves, AllRows, Uploads
<1>6. ObjectsAndRows'
  BY <1>1, <1>2, <1>3 DEF MediaInv, ObjectsAndRows, AllRows, Uploading
<1> QED BY <1>1, <1>4, <1>5, <1>6, TransfersTogether

LEMMA InsertRowKeeps ==
  ASSUME MediaInv, NEW u \in Uploaders, InsertRow(u)
  PROVE  MediaInv'
<1> DEFINE k == transfer[u].key
           p == transfer[u].purpose
<1>1. /\ transfer' \in [Uploaders -> Transfers]
      /\ transfer'[u].step = "idle"
      /\ \A v \in Uploaders : v # u => transfer'[v] = transfer[v]
  BY Finishing DEF InsertRow
<1>2. transfer[u].step = "insert" /\ Rightful(transfer[u]) /\ p \in {"LIBRARY", "REVIEW"}
  BY DEF InsertRow, MediaInv, Rightful, Transfers, Purposes
<1>3. /\ rows'["LIBRARY"] = IF p = "LIBRARY" THEN rows["LIBRARY"] \cup {k} ELSE rows["LIBRARY"]
      /\ rows'["REVIEW"] = IF p = "REVIEW" THEN rows["REVIEW"] \cup {k} ELSE rows["REVIEW"]
  BY <1>2 DEF InsertRow, MediaInv, Shelves, Purposes
<1>4. k \in drawn /\ k \notin AllRows /\ k \notin removing /\ k \in objects /\ k \notin sent
  BY <1>2 DEF Rightful, Uploads
<1>5. UNCHANGED <<objects, sent, drawn, gaveUp, removing>>
  BY DEF InsertRow
<1>6. AllRows' = AllRows \cup {k}
  BY <1>2, <1>3 DEF AllRows
<1>7. ASSUME NEW v \in Uploaders PROVE Rightful(transfer[v])'
  <2>1. CASE v = u
    BY <1>1, <2>1 DEF Rightful, Uploads
  <2>2. CASE v # u
    <3>1. Rightful(transfer[v]) /\ transfer'[v] = transfer[v]
      BY <1>1, <2>2 DEF MediaInv
    <3>2. transfer[v].step # "idle" => transfer[v].key # k
      BY <1>2, <2>2 DEF MediaInv, Apart, Uploads
    <3> QED BY <1>3, <1>5, <1>6, <3>1, <3>2 DEF Rightful, Uploads
  <2> QED BY <2>1, <2>2
<1>8. Apart'
  BY <1>1 DEF MediaInv, Apart, Uploads
<1>9. Shelves'
  <2>1. rows' \in [Purposes -> SUBSET drawn]
    BY <1>4 DEF InsertRow, MediaInv, Shelves
  <2>2. drawn \subseteq Keys /\ objects \subseteq drawn /\ sent \subseteq drawn
        /\ removing \subseteq drawn /\ sent \cap objects = {}
    BY DEF MediaInv, Shelves
  <2>3. sent \cap AllRows' = {}
    BY <1>4, <1>6 DEF MediaInv, Shelves
  <2>4. removing \cap rows'["REVIEW"] = {} /\ rows'["LIBRARY"] \cap rows'["REVIEW"] = {}
    BY <1>2, <1>3, <1>4 DEF MediaInv, Shelves, AllRows
  <2> QED BY <2>1, <2>2, <2>3, <2>4, <1>5 DEF Shelves
<1>10. ObjectsAndRows'
  BY <1>1, <1>3, <1>4, <1>5, <1>6 DEF MediaInv, ObjectsAndRows, Uploading
<1> QED BY <1>1, <1>7, <1>8, <1>9, <1>10, TransfersTogether

-----------------------------------------------------------------------------
LEMMA DeleteMediaKeeps ==
  ASSUME MediaInv, NEW u \in Uploaders, NEW k \in Keys, DeleteMedia(u, k)
  PROVE  MediaInv'
<1> DEFINE t == Transfer("remove", k, "LIBRARY")
<1>1. t \in Transfers /\ t.step = "remove" /\ t.key = k
  BY DEF Transfer, Transfers, Purposes
<1>2. transfer[u].step = "idle" /\ k \in rows["LIBRARY"] /\ k \in AllRows
  BY DEF DeleteMedia, NoTransfer, Transfer, AllRows
<1>3. /\ transfer' \in [Uploaders -> Transfers]
      /\ transfer'[u] = t
      /\ \A v \in Uploaders : v # u => transfer'[v] = transfer[v]
  BY <1>1, ChangesOne DEF DeleteMedia, Changes
<1> HIDE DEF t
<1>4. UNCHANGED <<objects, sent, rows, drawn, gaveUp, removing>>
  BY DEF DeleteMedia
<1>5. k \in drawn /\ k \notin sent /\ k \notin rows["REVIEW"]
  BY <1>2 DEF MediaInv, Shelves, Purposes
<1>6. ASSUME NEW v \in Uploaders PROVE Rightful(transfer[v])'
  BY <1>1, <1>3, <1>4, <1>5 DEF MediaInv, Rightful, AllRows, Uploads
<1>7. Apart'
  BY <1>1, <1>2, <1>3 DEF MediaInv, Apart, Rightful, Uploads
<1>8. Shelves'
  BY <1>4 DEF MediaInv, Shelves, AllRows
<1>9. ObjectsAndRows'
  BY <1>1, <1>2, <1>3, <1>4 DEF MediaInv, ObjectsAndRows, AllRows, Uploading
<1> QED BY <1>3, <1>6, <1>7, <1>8, <1>9, TransfersTogether

\* An object is deleted: by an upload that failed, or by a deletion.
LEMMA RemoveObjectKeeps ==
  ASSUME MediaInv, NEW u \in Uploaders, NEW answered \in BOOLEAN, RemoveObject(u, answered)
  PROVE  MediaInv'
<1> DEFINE k == transfer[u].key
<1>1. /\ transfer' \in [Uploaders -> Transfers]
      /\ \/ transfer'[u].step = "idle"
         \/ transfer[u].step = "remove" /\ transfer'[u].step = "deleteRow" /\ transfer'[u].key = k
      /\ \A v \in Uploaders : v # u => transfer'[v] = transfer[v]
  BY Finishing, GoingOn DEF RemoveObject
<1>2. /\ transfer[u].step \in {"undo", "remove"}
      /\ removing' = removing \cup {k} /\ objects' = objects \ {k}
      /\ UNCHANGED <<sent, rows, drawn, gaveUp>>
  BY DEF RemoveObject
<1>3. k \in drawn /\ k \notin sent /\ k \notin rows["REVIEW"]
  BY <1>2 DEF MediaInv, Rightful, Uploads, AllRows
<1>4. ASSUME NEW v \in Uploaders, v # u
      PROVE  transfer[v].step \in {"post", "insert"} => transfer[v].key # k
  BY <1>2, <1>4 DEF MediaInv, Apart, Uploads
<1>5. ASSUME NEW v \in Uploaders PROVE Rightful(transfer[v])'
  <2>1. CASE v = u
    BY <1>1, <1>2, <1>3, <2>1 DEF Rightful, Uploads
  <2>2. CASE v # u
    BY <1>1, <1>2, <1>4, <2>2 DEF MediaInv, Rightful, Uploads, AllRows
  <2> QED BY <2>1, <2>2
<1>6. Apart'
  BY <1>1, <1>2 DEF MediaInv, Apart, Uploads
<1>7. Shelves'
  BY <1>2, <1>3 DEF MediaInv, Shelves, AllRows
<1>8. ObjectsAndRows'
  BY <1>1, <1>2, <1>3 DEF MediaInv, ObjectsAndRows, AllRows, Uploading
<1> QED BY <1>1, <1>5, <1>6, <1>7, <1>8, TransfersTogether

LEMMA RemoveFailsKeeps ==
  ASSUME MediaInv, NEW u \in Uploaders, RemoveFails(u)
  PROVE  MediaInv'
<1> DEFINE k == transfer[u].key
<1>1. /\ transfer' \in [Uploaders -> Transfers]
      /\ transfer'[u].step = "idle"
      /\ \A v \in Uploaders : v # u => transfer'[v] = transfer[v]
  BY Finishing DEF RemoveFails
<1>2. /\ transfer[u].step \in {"undo", "remove"}
      /\ removing' = removing \cup {k}
      /\ gaveUp \subseteq gaveUp' /\ (transfer[u].step = "undo" => k \in gaveUp')
      /\ UNCHANGED <<objects, sent, rows, drawn>>
  BY DEF RemoveFails
<1>3. k \in drawn /\ k \notin rows["REVIEW"]
  BY <1>2 DEF MediaInv, Rightful, Uploads, AllRows
<1>4. ASSUME NEW v \in Uploaders, v # u
      PROVE  transfer[v].step \in {"post", "insert"} => transfer[v].key # k
  BY <1>2, <1>4 DEF MediaInv, Apart, Uploads
<1>5. ASSUME NEW v \in Uploaders PROVE Rightful(transfer[v])'
  BY <1>1, <1>2, <1>4 DEF MediaInv, Rightful, Uploads, AllRows
<1>6. Apart'
  BY <1>1 DEF MediaInv, Apart, Uploads
<1>7. Shelves'
  BY <1>2, <1>3 DEF MediaInv, Shelves, AllRows
<1>8. ObjectsAndRows'
  BY <1>1, <1>2 DEF MediaInv, ObjectsAndRows, AllRows, Uploading
<1> QED BY <1>1, <1>5, <1>6, <1>7, <1>8, TransfersTogether

LEMMA LateRemoveKeeps ==
  ASSUME MediaInv, NEW k \in removing, LateRemove(k)
  PROVE  MediaInv'
<1>1. ASSUME NEW v \in Uploaders PROVE Rightful(transfer[v])'
  BY DEF MediaInv, Rightful, LateRemove, AllRows, Uploads
<1>2. Apart' /\ Shelves' /\ transfer' \in [Uploaders -> Transfers]
  BY DEF MediaInv, Apart, Shelves, LateRemove, AllRows, Uploads
<1>3. ObjectsAndRows'
  BY DEF MediaInv, Shelves, ObjectsAndRows, LateRemove, AllRows, Uploading
<1> QED BY <1>1, <1>2, <1>3, TransfersTogether

LEMMA DeleteRowKeeps ==
  ASSUME MediaInv, NEW u \in Uploaders, DeleteRow(u)
  PROVE  MediaInv'
<1> DEFINE k == transfer[u].key
<1>1. /\ transfer' \in [Uploaders -> Transfers]
      /\ transfer'[u].step = "idle"
      /\ \A v \in Uploaders : v # u => transfer'[v] = transfer[v]
  BY Finishing DEF DeleteRow
<1>2. /\ rows'["LIBRARY"] = rows["LIBRARY"] \ {k}
      /\ rows'["REVIEW"] = rows["REVIEW"]
      /\ rows' \in [Purposes -> SUBSET drawn]
      /\ UNCHANGED <<objects, sent, drawn, gaveUp, removing>>
  BY DEF DeleteRow, MediaInv, Shelves, Purposes
<1>3. k \notin objects /\ k \notin sent
  BY DEF DeleteRow, MediaInv, Rightful
<1>4. ASSUME NEW v \in Uploaders PROVE Rightful(transfer[v])'
  BY <1>1, <1>2 DEF MediaInv, Rightful, Uploads, AllRows
<1>5. Apart'
  BY <1>1 DEF MediaInv, Apart, Uploads
<1>6. Shelves'
  BY <1>2 DEF MediaInv, Shelves, AllRows
<1>7. ObjectsAndRows'
  BY <1>1, <1>2, <1>3 DEF MediaInv, ObjectsAndRows, AllRows, Uploading, DeleteRow
<1> QED BY <1>1, <1>4, <1>5, <1>6, <1>7, TransfersTogether

LEMMA GiveUpKeeps ==
  ASSUME MediaInv, NEW u \in Uploaders, GiveUp(u)
  PROVE  MediaInv'
<1>1. /\ transfer' \in [Uploaders -> Transfers]
      /\ transfer'[u].step = "idle"
      /\ \A v \in Uploaders : v # u => transfer'[v] = transfer[v]
  BY Finishing DEF GiveUp
<1>2. /\ UNCHANGED <<objects, sent, rows, drawn, removing>>
      /\ gaveUp \subseteq gaveUp'
      /\ transfer[u].step \in {"post", "insert", "undo"} => transfer[u].key \in gaveUp'
  BY DEF GiveUp
<1>3. ASSUME NEW v \in Uploaders PROVE Rightful(transfer[v])'
  BY <1>1, <1>2 DEF MediaInv, Rightful, Uploads, AllRows
<1>4. Apart' /\ Shelves'
  BY <1>1, <1>2 DEF MediaInv, Apart, Uploads, Shelves, AllRows
<1>5. ObjectsAndRows'
  BY <1>1, <1>2 DEF MediaInv, ObjectsAndRows, AllRows, Uploading
<1> QED BY <1>1, <1>3, <1>4, <1>5, TransfersTogether

LEMMA NothingMovesKeeps ==
  ASSUME MediaInv, UNCHANGED <<objects, sent, rows, drawn, transfer, gaveUp, removing>>
  PROVE  MediaInv'
<1>1. ASSUME NEW v \in Uploaders PROVE Rightful(transfer[v])'
  BY DEF MediaInv, Rightful, AllRows, Uploads
<1>2. Apart' /\ Shelves' /\ ObjectsAndRows' /\ transfer' \in [Uploaders -> Transfers]
  BY DEF MediaInv, Apart, Shelves, ObjectsAndRows, AllRows, Uploading, Uploads
<1> QED BY <1>1, <1>2, TransfersTogether

-----------------------------------------------------------------------------
\* Every step keeps the invariant.
THEOREM MediaInvariance == MediaSpec => []MediaInv
<1>1. MediaInit => MediaInv
  <2>1. NoTransfer \in Transfers /\ NoTransfer.step = "idle"
    BY DEF NoTransfer, Transfer, Transfers, Purposes
  <2>2. MediaInit => Shelves
    BY DEF MediaInit, Shelves, AllRows, Purposes
  <2>3. MediaInit => ObjectsAndRows
    BY DEF MediaInit, ObjectsAndRows, AllRows, Purposes
  <2> QED BY <2>1, <2>2, <2>3 DEF MediaInit, MediaInv, Rightful, Apart, Uploads
<1>2. ASSUME MediaInv, [MediaNext]_mediaVars PROVE MediaInv'
  <2>1. ASSUME NEW u \in Uploaders, NEW k \in Keys,
               DeleteMedia(u, k) \/ \E purpose \in Purposes : UploadMedia(u, purpose, k)
        PROVE  MediaInv'
    BY <1>2, <2>1, DeleteMediaKeeps, UploadKeeps
  <2>2. ASSUME NEW u \in Uploaders,
               RefuseMedia(u) \/ GetsAnswer(u) \/ InsertRow(u) \/ InsertFails(u)
        PROVE  MediaInv'
    BY <1>2, <2>2, RefuseKeeps, UploadGoesOn, InsertRowKeeps
  <2>3. ASSUME NEW u \in Uploaders, NEW answered \in BOOLEAN, RemoveObject(u, answered)
        PROVE  MediaInv'
    BY <1>2, <2>3, RemoveObjectKeeps
  <2>4. ASSUME NEW u \in Uploaders, RemoveFails(u) \/ DeleteRow(u) \/ GiveUp(u)
        PROVE  MediaInv'
    BY <1>2, <2>4, RemoveFailsKeeps, DeleteRowKeeps, GiveUpKeeps
  <2>5. ASSUME NEW k \in sent, Stored(k) PROVE MediaInv'
    BY <1>2, <2>5, StoredKeeps
  <2>6. ASSUME NEW k \in removing, LateRemove(k) PROVE MediaInv'
    BY <1>2, <2>6, LateRemoveKeeps
  <2>7. ASSUME NEW k \in recent, DayPasses(k) PROVE MediaInv'
    BY <1>2, <2>7, NothingMovesKeeps DEF DayPasses
  <2>8. CASE UNCHANGED mediaVars
    BY <1>2, <2>8, NothingMovesKeeps DEF mediaVars
  <2> QED BY <1>2, <2>1, <2>2, <2>3, <2>4, <2>5, <2>6, <2>7, <2>8 DEF MediaNext
<1> QED BY <1>1, <1>2, PTL DEF MediaSpec

\* An object without a row belongs to an upload that runs or broke off, a row without an
\* object to a deletion that can be finished: upload and delete change the storage and
\* the table one after the other, whatever fails in between.
THEOREM RowsHaveObjects == MediaSpec => []ObjectsAndRows
<1>1. MediaInv => ObjectsAndRows
  BY DEF MediaInv
<1> QED BY <1>1, MediaInvariance, PTL

-----------------------------------------------------------------------------
(* The daily limit *)

Waiting == {u \in Uploading : transfer[u].purpose = "REVIEW"}

LimitInv == IsFiniteSet(recent) /\ LimitPassedByOverlap

LEMMA WaitingFinite ==
  /\ IsFiniteSet(Waiting) /\ Cardinality(Waiting) \in Nat
  /\ Cardinality(Uploaders) \in Nat /\ Cardinality(Waiting) <= Cardinality(Uploaders)
<1>1. Waiting \subseteq Uploaders
  BY DEF Waiting, Uploading
<1> QED BY <1>1, MediaAssumption, FS_Subset, FS_CardinalityType

\* As long as no picture is added to those of the day or to those on their way, the
\* sum does not grow.
LEMMA FewerKeeps ==
  ASSUME LimitInv, recent' \subseteq recent, Waiting' \subseteq Waiting
  PROVE  LimitInv'
<1> DEFINE n == Cardinality(Uploaders)
           m == Cardinality(recent)
           k == Cardinality(Waiting)
<1>1. m + k <= DayLimit + n - 1 /\ IsFiniteSet(recent)
  BY DEF LimitInv, LimitPassedByOverlap, Waiting
<1>2. /\ IsFiniteSet(recent') /\ Cardinality(recent') <= m
      /\ Cardinality(recent') \in Nat /\ m \in Nat
  BY <1>1, FS_Subset, FS_CardinalityType
<1>3. Cardinality(Waiting') <= k /\ Cardinality(Waiting') \in Nat /\ k \in Nat /\ n \in Nat
  BY WaitingFinite, FS_Subset, FS_CardinalityType
<1>4. Cardinality(recent') + Cardinality(Waiting') <= DayLimit + n - 1
  BY <1>1, <1>2, <1>3, MediaAssumption
<1> QED BY <1>2, <1>4 DEF LimitInv, LimitPassedByOverlap, Waiting

\* An upload begins below the limit, whatever the others are about.
LEMMA UploadWithinLimit ==
  ASSUME LimitInv, NEW u \in Uploaders, NEW k \in Keys, UploadMedia(u, "REVIEW", k)
  PROVE  LimitInv'
<1> DEFINE n == Cardinality(Uploaders)
           m == Cardinality(recent)
<1>1. recent' = recent /\ m < DayLimit
  BY DEF UploadMedia, WithinLimit
<1>2. Waiting' \subseteq Uploaders
  BY DEF Waiting, Uploading
<1>3. Cardinality(Waiting') \in Nat /\ Cardinality(Waiting') <= n /\ n \in Nat
  BY <1>2, MediaAssumption, FS_Subset, FS_CardinalityType
<1>4. m \in Nat
  BY FS_CardinalityType DEF LimitInv
<1>5. Cardinality(recent') + Cardinality(Waiting') <= DayLimit + n - 1
  BY <1>1, <1>3, <1>4, MediaAssumption
<1> QED BY <1>1, <1>5 DEF LimitInv, LimitPassedByOverlap, Waiting

\* A row is inserted: the picture is no longer on its way.
LEMMA InsertWithinLimit ==
  ASSUME MediaInv, LimitInv, NEW u \in Uploaders, InsertRow(u), transfer[u].purpose = "REVIEW"
  PROVE  LimitInv'
<1> DEFINE n == Cardinality(Uploaders)
           m == Cardinality(recent)
           k == Cardinality(Waiting)
<1>1. m + k <= DayLimit + n - 1 /\ IsFiniteSet(recent)
  BY DEF LimitInv, LimitPassedByOverlap, Waiting
<1>2. /\ transfer'[u].step = "idle"
      /\ \A v \in Uploaders : v # u => transfer'[v] = transfer[v]
  BY Finishing DEF InsertRow
<1>3. u \in Waiting /\ Waiting' \subseteq Waiting \ {u}
  BY <1>2 DEF InsertRow, Waiting, Uploading
<1>4. /\ Cardinality(Waiting \ {u}) = k - 1 /\ IsFiniteSet(Waiting \ {u})
  BY <1>3, WaitingFinite, FS_RemoveElement
<1>5. Cardinality(Waiting') <= k - 1 /\ Cardinality(Waiting') \in Nat /\ k \in Nat /\ n \in Nat
  BY <1>3, <1>4, WaitingFinite, FS_Subset, FS_CardinalityType
<1>6. recent' = recent \cup {transfer[u].key}
  BY DEF InsertRow
<1>7. /\ IsFiniteSet(recent') /\ Cardinality(recent') \in Nat /\ m \in Nat
      /\ Cardinality(recent') <= m + 1
  <2>1. m \in Nat
    BY <1>1, FS_CardinalityType
  <2>2. IsFiniteSet(recent') /\ Cardinality(recent') \in {m, m + 1}
    BY <1>1, <1>6, FS_AddElement
  <2> QED BY <2>1, <2>2
<1>8. Cardinality(recent') + Cardinality(Waiting') <= DayLimit + n - 1
  BY <1>1, <1>5, <1>7, MediaAssumption
<1> QED BY <1>7, <1>8 DEF LimitInv, LimitPassedByOverlap, Waiting

LEMMA LimitStep ==
  ASSUME MediaInv, LimitInv, [MediaNext]_mediaVars
  PROVE  LimitInv'
<1>1. ASSUME NEW u \in Uploaders, Finishes(u), recent' = recent PROVE LimitInv'
  <2>1. /\ transfer'[u].step = "idle"
        /\ \A v \in Uploaders : v # u => transfer'[v] = transfer[v]
    BY <1>1, Finishing
  <2>2. Waiting' \subseteq Waiting
    BY <2>1 DEF Waiting, Uploading
  <2> QED BY <1>1, <2>2, FewerKeeps
<1>2. ASSUME NEW u \in Uploaders, GetsAnswer(u) \/ InsertFails(u) PROVE LimitInv'
  <2>1. /\ transfer'[u].purpose = transfer[u].purpose
        /\ \A v \in Uploaders : v # u => transfer'[v] = transfer[v]
    BY <1>2, GoingOn DEF GetsAnswer, InsertFails
  <2>2. Waiting' \subseteq Waiting /\ recent' = recent
    BY <1>2, <2>1 DEF GetsAnswer, InsertFails, Waiting, Uploading
  <2> QED BY <2>2, FewerKeeps
<1>3. ASSUME NEW u \in Uploaders, NEW t \in Transfers, Changes(u, t), recent' = recent,
             Uploads(t) => t.purpose = "LIBRARY"
      PROVE  LimitInv'
  <2>1. transfer'[u] = t /\ \A v \in Uploaders : v # u => transfer'[v] = transfer[v]
    BY <1>3, ChangesOne
  <2>2. Waiting' \subseteq Waiting
    BY <1>3, <2>1 DEF Waiting, Uploading, Uploads
  <2> QED BY <1>3, <2>2, FewerKeeps
<1>4. ASSUME NEW u \in Uploaders, NEW k \in Keys, DeleteMedia(u, k) PROVE LimitInv'
  <2> DEFINE t == Transfer("remove", k, "LIBRARY")
  <2>1. t \in Transfers /\ ~Uploads(t)
    BY DEF Transfer, Transfers, Purposes, Uploads
  <2>2. Changes(u, t) /\ recent' = recent
    BY <1>4 DEF DeleteMedia, Changes
  <2> QED BY <1>3, <2>1, <2>2
<1>5. ASSUME NEW u \in Uploaders, NEW k \in Keys, NEW purpose \in Purposes,
             UploadMedia(u, purpose, k)
      PROVE  LimitInv'
  <2>1. CASE purpose = "REVIEW"
    BY <1>5, <2>1, UploadWithinLimit
  <2>2. CASE purpose = "LIBRARY"
    <3> DEFINE t == Transfer("post", k, "LIBRARY")
    <3>1. t \in Transfers /\ t.purpose = "LIBRARY"
      BY DEF Transfer, Transfers, Purposes
    <3>2. Changes(u, t) /\ recent' = recent
      BY <1>5, <2>2 DEF UploadMedia, Changes
    <3> QED BY <1>3, <3>1, <3>2
  <2> QED BY <2>1, <2>2 DEF Purposes
<1>6. ASSUME NEW u \in Uploaders, InsertRow(u) PROVE LimitInv'
  <2>1. CASE transfer[u].purpose = "REVIEW"
    BY <1>6, <2>1, InsertWithinLimit
  <2>2. CASE transfer[u].purpose # "REVIEW"
    BY <1>1, <1>6, <2>2 DEF InsertRow
  <2> QED BY <2>1, <2>2
<1>7. ASSUME NEW u \in Uploaders, NEW answered \in BOOLEAN, RemoveObject(u, answered)
      PROVE  LimitInv'
  <2>1. CASE Finishes(u)
    BY <1>1, <1>7, <2>1 DEF RemoveObject
  <2>2. CASE transfer[u].step = "remove" /\ GoesOn(u, "deleteRow")
    <3>1. /\ transfer'[u].step = "deleteRow"
          /\ \A v \in Uploaders : v # u => transfer'[v] = transfer[v]
      BY <2>2, GoingOn
    <3>2. Waiting' \subseteq Waiting /\ recent' = recent
      BY <1>7, <3>1 DEF RemoveObject, Waiting, Uploading
    <3> QED BY <3>2, FewerKeeps
  <2> QED BY <1>7, <2>1, <2>2 DEF RemoveObject
<1>8. ASSUME NEW u \in Uploaders,
             RefuseMedia(u) \/ RemoveFails(u) \/ DeleteRow(u) \/ GiveUp(u)
      PROVE  LimitInv'
  BY <1>1, <1>8 DEF RefuseMedia, RemoveFails, DeleteRow, GiveUp
<1>9. ASSUME transfer' = transfer, recent' \subseteq recent PROVE LimitInv'
  BY <1>9, FewerKeeps DEF Waiting, Uploading
<1> QED
  BY <1>2, <1>4, <1>5, <1>6, <1>7, <1>8, <1>9
  DEF MediaNext, mediaVars, Stored, LateRemove, DayPasses

\* Uploads at once count the pictures of the day before any of them has a row: they pass
\* the limit, by one less than the number of connections at most, for any limit.
THEOREM LimitPassedByFew == MediaSpec => []LimitPassedByOverlap
<1>1. MediaInit => LimitInv
  <2>1. MediaInit => recent = {} /\ Waiting = {}
    BY DEF MediaInit, Waiting, Uploading, NoTransfer, Transfer
  <2>2. IsFiniteSet({}) /\ Cardinality({}) = 0
    BY FS_EmptySet
  <2>3. Cardinality(Uploaders) \in Nat
    BY MediaAssumption, FS_CardinalityType
  <2>4. 0 + 0 <= DayLimit + Cardinality(Uploaders) - 1
    BY <2>3, MediaAssumption
  <2> QED BY <2>1, <2>2, <2>4 DEF LimitInv, LimitPassedByOverlap, Waiting
<1>2. MediaInv /\ LimitInv /\ [MediaNext]_mediaVars => LimitInv'
  BY LimitStep
<1>3. LimitInv => LimitPassedByOverlap
  BY DEF LimitInv
<1> QED BY <1>1, <1>2, <1>3, MediaInvariance, PTL DEF MediaSpec

-----------------------------------------------------------------------------
(* ProductReviews *)

\* A request that writes a review, between its first step and its COMMIT.
Writing(w) == task[w].step \in {"product", "rate", "commit", "commitRating"}

\* It changes a review it found and locked, or writes a new one.
Changing(w) == Writing(w) /\ reviewLock[task[w].item] = w

\* The votes on review i after a COMMIT that inserts or deletes some.
Voted(i, changed) == (votes[i] \ changed) \cup (changed \ votes[i])

\* The locks are those of the requests that took them.
LocksHeld ==
  /\ \A w \in Workers, i \in Items : reviewLock[i] = w => Writing(w) /\ task[w].item = i
  /\ \A w \in Workers : productLock = w <=> task[w].step \in {"rate", "commitRating", "delete"}

\* What a request is about to write still fits the review it locked.
Fitting(w) ==
  /\ Writing(w) => task[w].item \in Items
  /\ Changing(w) =>
       LET i == task[w].item
           row == task[w].row
       IN  /\ review[i] # NoReview
           /\ row.helpfulCount = Cardinality(Voted(i, task[w].votes))
           /\ i \notin task[w].votes
           /\ review[i].editedAt => row.rating = review[i].rating /\ row.editedAt
           /\ task[w].step = "commit" =>
                row.rating = review[i].rating /\ row.status = review[i].status
  /\ Writing(w) /\ ~Changing(w) =>
       /\ task[w].step # "commit"
       /\ task[w].row.helpfulCount = 0 /\ task[w].votes = {}

\* The rating it computed is still right while it holds the lock of the product.
Rated(w) ==
  /\ task[w].step = "commitRating" =>
       LET i == task[w].item
       IN  /\ reviewLock[i] = w \/ i \notin Written
           /\ task[w].rating = Aggregate([review EXCEPT ![i] = task[w].row])
  /\ task[w].step = "save" => task[w].rating # NoProduct

\* The inductive invariant of the reviews.
ReviewInv ==
  /\ ReviewTypeOK
  /\ LocksHeld
  /\ \A w \in Workers : Fitting(w) /\ Rated(w)
  /\ RatingUnlessOverwritten
  /\ HelpfulCountsVotes

-----------------------------------------------------------------------------
(* The rating *)

\* The rating computed from reviews has its type.
LEMMA AggregateType ==
  ASSUME ReviewTypeOK, NEW ratings \in [Items -> ReviewRow]
  PROVE  Aggregate(ratings) \in Rating
<1> DEFINE f == [i \in Items |-> ratings[i].rating]
           published == {i \in Items : ratings[i].status = "PUBLISHED"}
<1>1. IsFiniteSet(published) /\ \A i \in published : f[i] \in Nat
  BY FS_Subset, ReviewAssumption DEF ReviewRow
<1>2. Aggregate(ratings) = [count |-> Cardinality(published), sum |-> SumFunctionOnSet(f, published)]
  BY DEF Aggregate, RatingSum
<1> HIDE DEF f, published
<1>3. SumFunctionOnSet(f, published) \in Nat /\ Cardinality(published) \in Nat
  BY <1>1, SumType, FS_CardinalityType
<1> QED BY <1>2, <1>3 DEF Rating

\* It depends on the ratings and on what is published, and on nothing else.
LEMMA SameAggregate ==
  ASSUME NEW old, NEW new,
         \A i \in Items : new[i].rating = old[i].rating /\ new[i].status = old[i].status
  PROVE  Aggregate(new) = Aggregate(old)
<1>1. {i \in Items : new[i].status = "PUBLISHED"} = {i \in Items : old[i].status = "PUBLISHED"}
  OBVIOUS
<1>2. [i \in Items |-> new[i].rating] = [i \in Items |-> old[i].rating]
  OBVIOUS
<1> QED BY <1>1, <1>2 DEF Aggregate, RatingSum

-----------------------------------------------------------------------------
(* One request moves on *)

\* The request of w becomes t, and only w takes or releases locks.
Moves(w, t) ==
  /\ task' = [task EXCEPT ![w] = t]
  /\ \A x \in Workers \ {w} : \A i \in Items : reviewLock'[i] = x <=> reviewLock[i] = x
  /\ \A x \in Workers \ {w} : productLock' = x <=> productLock = x

\* Then the other requests are where they were.
LEMMA OthersStay ==
  ASSUME ReviewInv, NEW w \in Workers, NEW t, Moves(w, t)
  PROVE  \A x \in Workers \ {w} :
           /\ task'[x] = task[x]
           /\ Writing(x)' <=> Writing(x)
           /\ Changing(x)' <=> Changing(x)
<1> SUFFICES ASSUME NEW x \in Workers \ {w}
             PROVE  /\ task'[x] = task[x]
                    /\ Writing(x)' <=> Writing(x)
                    /\ Changing(x)' <=> Changing(x)
  OBVIOUS
<1>1. task'[x] = task[x]
  BY DEF Moves, ReviewInv, ReviewTypeOK
<1>2. Writing(x) => task[x].item \in Items
  BY DEF ReviewInv, Fitting
<1> QED BY <1>1, <1>2 DEF Moves, Writing, Changing

\* And what they hold and are about to write fits while no review changes.
LEMMA QuietKeeps ==
  ASSUME ReviewInv, NEW w \in Workers, NEW t, Moves(w, t), UNCHANGED <<review, votes>>
  PROVE  \A x \in Workers \ {w} : Fitting(x)' /\ Rated(x)'
<1> SUFFICES ASSUME NEW x \in Workers \ {w} PROVE Fitting(x)' /\ Rated(x)'
  OBVIOUS
<1>1. task'[x] = task[x] /\ (Writing(x)' <=> Writing(x)) /\ (Changing(x)' <=> Changing(x))
  BY OthersStay
<1>2. Fitting(x) /\ Rated(x)
  BY DEF ReviewInv
<1>3. Fitting(x)'
  BY <1>1, <1>2 DEF Fitting, Voted
<1>4. task[x].step = "commitRating" => task[x].item \in Items
  BY <1>2 DEF Fitting, Writing
<1>5. Written' = Written /\ \A ratings : Aggregate(ratings)' = Aggregate(ratings)
  BY DEF Written, Aggregate, RatingSum
<1>6. Rated(x)'
  BY <1>1, <1>2, <1>4, <1>5 DEF Rated, Moves
<1> QED BY <1>3, <1>6

\* The locks stay those of the requests that took them, if the one that moves fits.
LEMMA LocksStay ==
  ASSUME ReviewInv, NEW w \in Workers, NEW t, Moves(w, t),
         \A i \in Items : reviewLock'[i] = w => Writing(w)' /\ task'[w].item = i,
         productLock' = w <=> task'[w].step \in {"rate", "commitRating", "delete"}
  PROVE  LocksHeld'
<1>1. \A x \in Workers \ {w} : task'[x] = task[x] /\ (Writing(x)' <=> Writing(x))
  BY OthersStay
<1>2. ASSUME NEW x \in Workers, NEW i \in Items, reviewLock'[i] = x
      PROVE  Writing(x)' /\ task'[x].item = i
  <2>1. CASE x = w
    BY <1>2, <2>1
  <2>2. CASE x # w
    BY <1>1, <1>2, <2>2 DEF Moves, ReviewInv, LocksHeld
  <2> QED BY <2>1, <2>2
<1>3. ASSUME NEW x \in Workers
      PROVE  productLock' = x <=> task'[x].step \in {"rate", "commitRating", "delete"}
  <2>1. CASE x = w
    BY <2>1
  <2>2. CASE x # w
    BY <1>1, <2>2 DEF Moves, ReviewInv, LocksHeld
  <2> QED BY <2>1, <2>2
<1> QED BY <1>2, <1>3 DEF LocksHeld

\* A step that changes neither reviews nor the rating keeps the invariant, if the new
\* state of the one request it moves fits.
LEMMA MovesKeeps ==
  ASSUME ReviewInv, NEW w \in Workers, NEW t, Moves(w, t), ReviewTypeOK',
         UNCHANGED <<review, votes, product, overwritten>>,
         \A i \in Items : reviewLock'[i] = w => Writing(w)' /\ task'[w].item = i,
         productLock' = w <=> task'[w].step \in {"rate", "commitRating", "delete"},
         Fitting(w)', Rated(w)'
  PROVE  ReviewInv'
<1>1. \A x \in Workers : Fitting(x)' /\ Rated(x)'
  BY QuietKeeps
<1>2. LocksHeld'
  BY LocksStay
<1>3. RatingUnlessOverwritten' /\ HelpfulCountsVotes'
  BY DEF ReviewInv, RatingUnlessOverwritten, RatingMatches, Exists, HelpfulCountsVotes, Aggregate,
         RatingSum
<1> QED BY <1>1, <1>2, <1>3 DEF ReviewInv

-----------------------------------------------------------------------------
(* The steps *)

\* Every step keeps the types.
LEMMA ReviewTypes ==
  ASSUME ReviewTypeOK, [ReviewNext]_reviewVars
  PROVE  ReviewTypeOK'
<1> DEFINE Tasks ==
      [step: {"idle", "product", "rate", "commit", "commitRating", "save", "delete"},
       item: Items \cup {NoItem}, row: ReviewRow, votes: SUBSET Items, rating: Rating]
<1> USE DEF ReviewTypeOK
<1>a. NoReview \in ReviewRow /\ NoRating \in Rating /\ NoProduct \in Rating
  BY DEF NoReview, NoRating, NoProduct, ReviewRow, Rating
<1>b. \A i \in Items \cup {NoItem}, row \in ReviewRow, changed \in SUBSET Items,
          rating \in Rating, step \in {"idle", "product", "rate", "commit", "commitRating",
                                       "save", "delete"} :
        ReviewTask(step, i, row, changed, rating) \in Tasks
  BY DEF ReviewTask
<1>c. NoTask \in Tasks
  BY <1>a, <1>b DEF NoTask
<1>1. ASSUME NEW w \in Workers, NEW i \in Items, NEW stars \in Stars, WriteReview(w, i, stars)
      PROVE  ReviewTypeOK'
  BY <1>1, ReviewAssumption DEF WriteReview, ReviewTask, NoReview, NoRating, ReviewRow, Rating
<1>2. ASSUME NEW w \in Workers, NEW i \in Items, NEW step \in {"product", "commit"},
             NEW row \in ReviewRow, NEW changed \in SUBSET Items,
             ChangesReview(w, i, step, row, changed)
      PROVE  ReviewTypeOK'
  <2>1. ReviewTask(step, i, row, changed, NoRating) \in Tasks
    BY <1>a, <1>b
  <2>2. task' \in [Workers -> Tasks]
    BY <1>2, <2>1 DEF ChangesReview
  <2>3. reviewLock' \in [Items -> Workers \cup {Nobody}]
    BY <1>2 DEF ChangesReview, LocksReview
  <2> QED BY <1>2, <2>2, <2>3 DEF ChangesReview
<1>3. ASSUME NEW w \in Workers, NEW i \in Items, NEW stars \in Stars, EditReview(w, i, stars)
      PROVE  ReviewTypeOK'
  <2>1. \A row \in ReviewRow : [row EXCEPT !.rating = stars, !.editedAt = TRUE] \in ReviewRow
    <3>1. stars \in Nat
      BY ReviewAssumption
    <3> QED BY <3>1 DEF ReviewRow
  <2>2. [review[i] EXCEPT !.rating = stars, !.editedAt = TRUE] \in ReviewRow
    BY <2>1
  <2> QED BY <1>2, <1>3, <2>2 DEF EditReview
<1>4. ASSUME NEW w \in Workers, NEW i \in Items, HideReview(w, i) \/ PublishReview(w, i)
      PROVE  ReviewTypeOK'
  <2>1. \A s \in {"PUBLISHED", "HIDDEN"} : [review[i] EXCEPT !.status = s] \in ReviewRow
    BY DEF ReviewRow
  <2> QED BY <1>2, <1>4, <2>1 DEF HideReview, PublishReview
<1>5. ASSUME NEW w \in Workers, NEW i \in Items, ReplyReview(w, i)
      PROVE  ReviewTypeOK'
  BY <1>2, <1>5 DEF ReplyReview
<1>6. ASSUME NEW w \in Workers, NEW i \in Items, NEW voter \in Items, NEW voted \in BOOLEAN,
             SetVote(w, i, voter, voted)
      PROVE  ReviewTypeOK'
  <2> DEFINE helpful == IF voted THEN votes[i] \cup {voter} ELSE votes[i] \ {voter}
             changed == IF voted THEN {voter} \ votes[i] ELSE {voter} \cap votes[i]
  <2>1. helpful \subseteq Items /\ changed \subseteq Items
    OBVIOUS
  <2>2. ChangesReview(w, i, "commit", [review[i] EXCEPT !.helpfulCount = Cardinality(helpful)],
                      changed)
    BY <1>6 DEF SetVote
  <2> HIDE DEF helpful, changed
  <2>3. Cardinality(helpful) \in Nat
    BY <2>1, FS_Subset, FS_CardinalityType, ReviewAssumption
  <2>4. [review[i] EXCEPT !.helpfulCount = Cardinality(helpful)] \in ReviewRow
    BY <2>3 DEF ReviewRow
  <2> QED BY <1>2, <2>1, <2>2, <2>4
<1>7. ASSUME NEW w \in Workers, LockProduct(w)
      PROVE  ReviewTypeOK'
  BY <1>7 DEF LockProduct
<1>8. ASSUME NEW w \in Workers, Rate(w)
      PROVE  ReviewTypeOK'
  <2>1. [review EXCEPT ![task[w].item] = task[w].row] \in [Items -> ReviewRow]
    OBVIOUS
  <2>2. Aggregate([review EXCEPT ![task[w].item] = task[w].row]) \in Rating
    BY <2>1, AggregateType
  <2> DEFINE t == [task[w] EXCEPT !.step = "commitRating",
                     !.rating = Aggregate([review EXCEPT ![task[w].item] = task[w].row])]
  <2>3. t \in Tasks
    BY <2>2
  <2>4. task' = [task EXCEPT ![w] = t]
    BY <1>8 DEF Rate
  <2> HIDE DEF t
  <2>5. task' \in [Workers -> Tasks]
    BY <2>3, <2>4
  <2> QED BY <1>8, <2>5 DEF Rate
<1>9. ASSUME NEW w \in Workers, ReleasesLocks(w)
      PROVE  /\ reviewLock' \in [Items -> Workers \cup {Nobody}]
             /\ productLock' \in Workers \cup {Nobody}
             /\ task' \in [Workers ->
                  [step: {"idle", "product", "rate", "commit", "commitRating", "save", "delete"},
                   item: Items \cup {NoItem}, row: ReviewRow, votes: SUBSET Items,
                   rating: Rating]]
  BY <1>9 DEF ReleasesLocks, NoTask, ReviewTask, NoReview, NoRating, ReviewRow, Rating
<1>10. ASSUME NEW w \in Workers, CommitReview(w)
       PROVE  ReviewTypeOK'
  <2>1. review' \in [Items -> ReviewRow] /\ votes' \in [Items -> SUBSET Items]
    BY <1>10 DEF CommitReview
  <2>2. product' \in Rating /\ overwritten' \in BOOLEAN /\ reviewable' \subseteq Items
    BY <1>10 DEF CommitReview
  <2> QED BY <1>9, <1>10, <2>1, <2>2 DEF CommitReview
<1>11. ASSUME NEW w \in Workers, AbortReview(w)
       PROVE  ReviewTypeOK'
  BY <1>9, <1>11 DEF AbortReview
<1>12. ASSUME NEW w \in Workers, LoadProduct(w) \/ SaveProduct(w) \/ DeleteProduct(w)
       PROVE  ReviewTypeOK'
  <2>1. /\ ReviewTask("save", NoItem, NoReview, {}, product) \in Tasks
        /\ ReviewTask("delete", NoItem, NoReview, {}, NoRating) \in Tasks
    BY <1>a, <1>b
  <2>2. task' \in [Workers -> Tasks]
    BY <1>12, <1>c, <2>1 DEF LoadProduct, SaveProduct, DeleteProduct
  <2> QED BY <1>12, <2>2 DEF LoadProduct, SaveProduct, DeleteProduct
<1>13. ASSUME NEW w \in Workers, Cascade(w)
       PROVE  ReviewTypeOK'
  <2>1. NoReview \in ReviewRow /\ NoProduct \in Rating
    BY DEF NoReview, ReviewRow, NoProduct, Rating
  <2>2. /\ review' \in [Items -> ReviewRow] /\ votes' \in [Items -> SUBSET Items]
        /\ product' \in Rating /\ overwritten' \in BOOLEAN /\ reviewable' \subseteq Items
    BY <1>13, <2>1 DEF Cascade
  <2> QED BY <1>9, <1>13, <2>2 DEF Cascade
<1>14. ASSUME NEW i \in Items, CloseReview(i)
       PROVE  ReviewTypeOK'
  BY <1>14 DEF CloseReview
<1>15. CASE UNCHANGED reviewVars
  BY <1>15 DEF reviewVars
<1> QED BY <1>1, <1>3, <1>4, <1>5, <1>6, <1>7, <1>8, <1>10, <1>11, <1>12, <1>13, <1>14, <1>15
        DEF ReviewNext

\* A request that begins to change a review it locked.
LEMMA ChangingKeeps ==
  ASSUME ReviewInv, ReviewTypeOK', NEW w \in Workers, NEW i \in Items,
         NEW step \in {"product", "commit"}, NEW row \in ReviewRow, NEW changed \in SUBSET Items,
         ChangesReview(w, i, step, row, changed),
         row.helpfulCount = Cardinality(Voted(i, changed)), i \notin changed,
         review[i].editedAt => row.rating = review[i].rating /\ row.editedAt,
         step = "commit" => row.rating = review[i].rating /\ row.status = review[i].status
  PROVE  ReviewInv'
<1> DEFINE t == ReviewTask(step, i, row, changed, NoRating)
<1>1. task' = [task EXCEPT ![w] = t] /\ task'[w] = t
  BY DEF ChangesReview, ReviewInv, ReviewTypeOK
<1>2. Moves(w, t)
  BY <1>1, ReviewAssumption DEF Moves, ChangesReview, LocksReview, ReviewInv, ReviewTypeOK
<1>3. task[w].step = "idle" /\ t.step = step /\ t.item = i /\ t.row = row /\ t.votes = changed
  BY DEF ChangesReview, NoTask, ReviewTask
<1>4. \A j \in Items : reviewLock'[j] = w => Writing(w)' /\ task'[w].item = j
  BY <1>1, <1>3 DEF ChangesReview, LocksReview, ReviewInv, ReviewTypeOK, LocksHeld, Writing
<1>5. productLock' = w <=> task'[w].step \in {"rate", "commitRating", "delete"}
  BY <1>1, <1>3 DEF ChangesReview, ReviewInv, LocksHeld
<1>6. Changing(w)' /\ review[i] # NoReview
  BY <1>1, <1>3
     DEF Changing, Writing, ChangesReview, LocksReview, ReviewInv, ReviewTypeOK, Written
<1>7. UNCHANGED <<review, votes, product, overwritten>>
  BY DEF ChangesReview
<1>8. Fitting(w)' /\ Rated(w)'
  <2> HIDE DEF t
  <2> QED BY <1>1, <1>3, <1>6, <1>7 DEF Fitting, Rated, Voted
<1> HIDE DEF t
<1> QED BY <1>2, <1>4, <1>5, <1>7, <1>8, MovesKeeps

\* A request that takes no lock of a review, and none of the product but for itself.
LEMMA WritingKeeps ==
  ASSUME ReviewInv, ReviewTypeOK', NEW w \in Workers, NEW i \in Items, NEW stars \in Stars,
         WriteReview(w, i, stars)
  PROVE  ReviewInv'
<1> DEFINE row == [NoReview EXCEPT !.rating = stars, !.status = "PUBLISHED"]
           t == ReviewTask("product", i, row, {}, NoRating)
<1>1. task' = [task EXCEPT ![w] = t] /\ task'[w] = t
  BY DEF WriteReview, ReviewInv, ReviewTypeOK
<1>2. Moves(w, t)
  BY <1>1 DEF Moves, WriteReview
<1>a. row.helpfulCount = 0
  BY DEF NoReview
<1>3. /\ task[w].step = "idle"
      /\ t.step = "product" /\ t.item = i /\ t.row.helpfulCount = 0 /\ t.votes = {}
  <2> HIDE DEF row
  <2> QED BY <1>a DEF WriteReview, NoTask, ReviewTask
<1>4. \A j \in Items : reviewLock'[j] # w
  BY <1>3 DEF WriteReview, ReviewInv, LocksHeld, Writing
<1>5. productLock' = w <=> task'[w].step \in {"rate", "commitRating", "delete"}
  BY <1>1, <1>3 DEF WriteReview, ReviewInv, LocksHeld
<1>6. UNCHANGED <<review, votes, product, overwritten>>
  BY DEF WriteReview
<1>7. Fitting(w)' /\ Rated(w)'
  <2> HIDE DEF t
  <2> QED BY <1>1, <1>3, <1>4 DEF Fitting, Rated, Changing
<1> HIDE DEF t
<1> QED BY <1>2, <1>4, <1>5, <1>6, <1>7, MovesKeeps

\* A request locks the product, or computes its rating.
LEMMA RatingKeeps ==
  ASSUME ReviewInv, ReviewTypeOK', NEW w \in Workers, LockProduct(w) \/ Rate(w)
  PROVE  ReviewInv'
<1> PICK t : /\ task' = [task EXCEPT ![w] = t]
             /\ t.item = task[w].item /\ t.row = task[w].row /\ t.votes = task[w].votes
             /\ LockProduct(w) => t.step = "rate"
             /\ Rate(w) => /\ t.step = "commitRating"
                           /\ t.rating = Aggregate([review EXCEPT ![task[w].item] = task[w].row])
  <2>1. CASE LockProduct(w)
    <3> DEFINE t == [task[w] EXCEPT !.step = "rate"]
    <3>1. task' = [task EXCEPT ![w] = t] /\ ~Rate(w)
      BY <2>1 DEF LockProduct, Rate
    <3>2. t.step = "rate" /\ t.item = task[w].item /\ t.row = task[w].row /\ t.votes = task[w].votes
      BY DEF ReviewInv, ReviewTypeOK
    <3> QED BY <3>1, <3>2
  <2>2. CASE Rate(w)
    <3> DEFINE r == Aggregate([review EXCEPT ![task[w].item] = task[w].row])
               t == [task[w] EXCEPT !.step = "commitRating", !.rating = r]
    <3>1. task' = [task EXCEPT ![w] = t] /\ ~LockProduct(w)
      BY <2>2 DEF LockProduct, Rate
    <3>2. /\ t.step = "commitRating" /\ t.rating = r
          /\ t.item = task[w].item /\ t.row = task[w].row /\ t.votes = task[w].votes
      BY DEF ReviewInv, ReviewTypeOK
    <3> QED BY <3>1, <3>2
  <2> QED BY <2>1, <2>2
<1>1. task'[w] = t
  BY DEF ReviewInv, ReviewTypeOK
<1>2. Moves(w, t)
  BY ReviewAssumption DEF Moves, LockProduct, Rate
<1>3. /\ task[w].step \in {"product", "rate"} /\ t.step \in {"rate", "commitRating"}
      /\ UNCHANGED <<review, votes, reviewLock, product, overwritten>>
  BY DEF LockProduct, Rate
<1>4. /\ Writing(w) /\ Writing(w)' /\ (Changing(w)' <=> Changing(w))
      /\ t.step # "commit" /\ t.step # "save"
  BY <1>1, <1>3 DEF Writing, Changing
<1>5. \A j \in Items : reviewLock'[j] = w => Writing(w)' /\ task'[w].item = j
  BY <1>1, <1>3, <1>4 DEF ReviewInv, LocksHeld
<1>6. productLock' = w /\ task'[w].step \in {"rate", "commitRating", "delete"}
  BY <1>1, <1>3 DEF LockProduct, Rate, ReviewInv, LocksHeld
<1>7. Fitting(w)'
  BY <1>1, <1>3, <1>4 DEF ReviewInv, Fitting, Voted
<1>8. Rated(w)'
  <2>1. Written' = Written /\ \A ratings : Aggregate(ratings)' = Aggregate(ratings)
    BY <1>3 DEF Written, Aggregate, RatingSum
  <2>2. LockProduct(w) => t.step # "commitRating"
    OBVIOUS
  <2>3. Rate(w) => reviewLock[task[w].item] = w \/ task[w].item \notin Written
    BY DEF Rate
  <2>4. [review EXCEPT ![task[w].item] = task[w].row]' = [review EXCEPT ![t.item] = t.row]
    BY <1>1, <1>3
  <2> QED BY <1>1, <1>3, <1>4, <2>1, <2>2, <2>3, <2>4 DEF Rated
<1> QED BY <1>2, <1>3, <1>5, <1>6, <1>7, <1>8, MovesKeeps

\* A request that ends holds nothing any more.
LEMMA Released ==
  ASSUME ReviewInv, NEW w \in Workers, ReleasesLocks(w)
  PROVE  /\ Moves(w, NoTask)
         /\ task'[w] = NoTask /\ ~Writing(w)' /\ ~Changing(w)' /\ Fitting(w)' /\ Rated(w)'
         /\ \A i \in Items : reviewLock'[i] # w
         /\ productLock' # w
         /\ task'[w].step = "idle"
<1>1. task' = [task EXCEPT ![w] = NoTask] /\ task'[w] = NoTask
  BY DEF ReleasesLocks, ReviewInv, ReviewTypeOK
<1>2. /\ \A i \in Items : reviewLock'[i] = IF reviewLock[i] = w THEN Nobody ELSE reviewLock[i]
      /\ productLock' = IF productLock = w THEN Nobody ELSE productLock
  BY DEF ReleasesLocks
<1>3. Moves(w, NoTask) /\ (\A i \in Items : reviewLock'[i] # w) /\ productLock' # w
  BY <1>1, <1>2, ReviewAssumption DEF Moves
<1>4. task'[w].step = "idle"
  BY <1>1 DEF NoTask, ReviewTask
<1>5. ~Writing(w)' /\ ~Changing(w)'
  BY <1>4 DEF Writing, Changing
<1>6. Fitting(w)' /\ Rated(w)'
  BY <1>4, <1>5 DEF Fitting, Rated
<1> QED BY <1>1, <1>3, <1>4, <1>5, <1>6

\* A request is given up, a product is read, or locked to be deleted.
LEMMA QuietStepKeeps ==
  ASSUME ReviewInv, ReviewTypeOK', NEW w \in Workers,
         AbortReview(w) \/ LoadProduct(w) \/ DeleteProduct(w)
  PROVE  ReviewInv'
<1>1. CASE AbortReview(w)
  <2>1. ReleasesLocks(w) /\ UNCHANGED <<review, votes, product, overwritten>>
    BY <1>1 DEF AbortReview
  <2> QED BY <2>1, Released, MovesKeeps
<1>2. CASE LoadProduct(w) \/ DeleteProduct(w)
  <2> PICK t : /\ task' = [task EXCEPT ![w] = t] /\ t.step \in {"save", "delete"}
               /\ LoadProduct(w) => t.step = "save" /\ t.rating = product
               /\ DeleteProduct(w) => t.step = "delete"
               /\ t.step = "save" => LoadProduct(w)
    <3>1. CASE LoadProduct(w)
      <4> DEFINE t == ReviewTask("save", NoItem, NoReview, {}, product)
      <4>1. task' = [task EXCEPT ![w] = t] /\ productLock' = productLock
        BY <3>1 DEF LoadProduct
      <4>2. t.step = "save" /\ t.rating = product
        BY DEF ReviewTask
      <4>3. ~DeleteProduct(w)
        BY <4>1, ReviewAssumption DEF DeleteProduct
      <4> QED BY <3>1, <4>1, <4>2, <4>3
    <3>2. CASE DeleteProduct(w)
      <4> DEFINE t == ReviewTask("delete", NoItem, NoReview, {}, NoRating)
      <4>1. task' = [task EXCEPT ![w] = t] /\ productLock = Nobody /\ productLock' = w
        BY <3>2 DEF DeleteProduct
      <4>2. t.step = "delete"
        BY DEF ReviewTask
      <4>3. ~LoadProduct(w)
        BY <4>1, ReviewAssumption DEF LoadProduct
      <4> QED BY <3>2, <4>1, <4>2, <4>3
    <3> QED BY <1>2, <3>1, <3>2
  <2>1. task'[w] = t
    BY DEF ReviewInv, ReviewTypeOK
  <2>2. task[w].step = "idle"
    BY <1>2 DEF LoadProduct, DeleteProduct, NoTask, ReviewTask
  <2>3. UNCHANGED <<review, votes, reviewLock, product, overwritten>>
    BY <1>2 DEF LoadProduct, DeleteProduct
  <2>4. Moves(w, t)
    BY <1>2, <2>3, ReviewAssumption DEF Moves, LoadProduct, DeleteProduct
  <2>5. ~Writing(w)' /\ ~Changing(w)'
    BY <2>1 DEF Writing, Changing
  <2>6. \A i \in Items : reviewLock'[i] # w
    BY <2>2, <2>3 DEF ReviewInv, LocksHeld, Writing
  <2>7. productLock' = w <=> task'[w].step \in {"rate", "commitRating", "delete"}
    BY <1>2, <2>1, <2>2 DEF LoadProduct, DeleteProduct, ReviewInv, LocksHeld
  <2>8. Fitting(w)'
    BY <2>5 DEF Fitting
  <2>9. Rated(w)'
    BY <1>2, <2>1 DEF Rated, LoadProduct, Exists
  <2> QED BY <2>3, <2>4, <2>6, <2>7, <2>8, <2>9, MovesKeeps
<1> QED BY <1>1, <1>2

\* The time for reviews of a line ends, or nothing happens.
LEMMA ClosingKeeps ==
  ASSUME ReviewInv, ReviewTypeOK',
         UNCHANGED <<review, votes, product, reviewLock, productLock, task, overwritten>>
  PROVE  ReviewInv'
<1>1. LocksHeld'
  BY DEF ReviewInv, LocksHeld, Writing
<1>2. ASSUME NEW w \in Workers PROVE Fitting(w)' /\ Rated(w)'
  <2>1. Fitting(w) /\ Rated(w)
    BY DEF ReviewInv
  <2>2. Written' = Written /\ \A ratings : Aggregate(ratings)' = Aggregate(ratings)
    BY DEF Written, Aggregate, RatingSum
  <2>3. Fitting(w)'
    BY <2>1 DEF Fitting, Writing, Changing, Voted
  <2> QED BY <2>1, <2>2, <2>3 DEF Rated
<1>3. RatingUnlessOverwritten' /\ HelpfulCountsVotes'
  BY DEF ReviewInv, RatingUnlessOverwritten, RatingMatches, Exists, HelpfulCountsVotes, Aggregate,
         RatingSum
<1> QED BY <1>1, <1>2, <1>3 DEF ReviewInv

\* The product administration saves the product with the rating it read.
LEMMA SavingKeeps ==
  ASSUME ReviewInv, ReviewTypeOK', NEW w \in Workers, SaveProduct(w)
  PROVE  ReviewInv'
<1>1. /\ task' = [task EXCEPT ![w] = NoTask] /\ task[w].step = "save"
      /\ UNCHANGED <<review, votes, reviewLock, productLock>>
  BY DEF SaveProduct
<1>2. Moves(w, NoTask) /\ task'[w].step = "idle"
  BY <1>1 DEF Moves, NoTask, ReviewTask, ReviewInv, ReviewTypeOK
<1>3. ~Writing(w)' /\ ~Changing(w)' /\ ~Writing(w)
  BY <1>1, <1>2 DEF Writing, Changing
<1>4. Fitting(w)' /\ Rated(w)'
  BY <1>2, <1>3 DEF Fitting, Rated
<1>5. \A x \in Workers : Fitting(x)' /\ Rated(x)'
  BY <1>1, <1>2, <1>4, QuietKeeps
<1>6. /\ \A i \in Items : reviewLock'[i] # w
      /\ productLock' # w
  BY <1>1, <1>3 DEF ReviewInv, LocksHeld
<1>7. LocksHeld'
  BY <1>2, <1>6, LocksStay
<1>8. HelpfulCountsVotes'
  BY <1>1 DEF ReviewInv, HelpfulCountsVotes
<1>9. RatingUnlessOverwritten'
  <2>1. Aggregate(review)' = Aggregate(review)
    BY <1>1 DEF Aggregate, RatingSum
  <2>2. overwritten' = (overwritten \/ product # task[w].rating) /\ product' = task[w].rating
    BY DEF SaveProduct
  <2>3. overwritten \/ (Exists => product = Aggregate(review))
    BY DEF ReviewInv, RatingUnlessOverwritten, RatingMatches
  <2>4. ~overwritten' => product' = product
    BY <2>2
  <2> QED BY <2>1, <2>2, <2>3, <2>4 DEF RatingUnlessOverwritten, RatingMatches, Exists
<1> QED BY <1>5, <1>7, <1>8, <1>9 DEF ReviewInv

\* A COMMIT writes its review, and the rating it computed.
LEMMA CommittingKeeps ==
  ASSUME ReviewInv, ReviewTypeOK', NEW w \in Workers, CommitReview(w)
  PROVE  ReviewInv'
<1> DEFINE i == task[w].item
           row == task[w].row
<1>1. /\ ReleasesLocks(w) /\ task[w].step \in {"commit", "commitRating"}
      /\ review' = [review EXCEPT ![i] = row]
      /\ votes' = [votes EXCEPT ![i] = (@ \ task[w].votes) \cup (task[w].votes \ @)]
  BY DEF CommitReview
<1>2. Writing(w) /\ i \in Items /\ Fitting(w) /\ Rated(w)
  BY <1>1 DEF Writing, ReviewInv, Fitting
<1>3. /\ review'[i] = row /\ votes'[i] = Voted(i, task[w].votes)
      /\ \A j \in Items \ {i} : review'[j] = review[j] /\ votes'[j] = votes[j]
  BY <1>1, <1>2 DEF Voted, ReviewInv, ReviewTypeOK
<1>4. ~Changing(w) => task[w].step = "commitRating" /\ review[i] = NoReview
  BY <1>1, <1>2 DEF Fitting, Rated, Changing, Written
<1>5. /\ Moves(w, NoTask)
      /\ Fitting(w)' /\ Rated(w)'
      /\ \A j \in Items : reviewLock'[j] # w
      /\ productLock' # w /\ task'[w].step = "idle"
  BY <1>1, Released
<1>6. LocksHeld'
  BY <1>5, LocksStay
<1>7. ASSUME NEW x \in Workers \ {w}
      PROVE  Fitting(x)' /\ Rated(x)'
  <2> DEFINE k == task[x].item
  <2>1. /\ task'[x] = task[x] /\ (Writing(x)' <=> Writing(x)) /\ (Changing(x)' <=> Changing(x))
        /\ Fitting(x) /\ Rated(x)
    BY <1>5, <1>7, OthersStay DEF ReviewInv
  <2>2. Changing(x) => k \in Items /\ k # i
    BY <1>2, <1>4, <2>1 DEF Changing, Fitting
  <2>3. Changing(x) => review'[k] = review[k] /\ votes'[k] = votes[k]
    BY <1>3, <2>2
  <2>4. Fitting(x)'
    <3> HIDE DEF i, row
    <3>1. Writing(x)' => task'[x].item \in Items
      BY <2>1 DEF Fitting
    <3>2. Changing(x) => Voted(k, task[x].votes)' = Voted(k, task[x].votes)
      BY <2>1, <2>3 DEF Voted
    <3> QED BY <2>1, <2>3, <3>1, <3>2 DEF Fitting
  <2>5. Rated(x)'
    <3>1. CASE task[x].step = "commitRating"
      <4>1. productLock = x /\ task[w].step = "commit"
        BY <1>1, <1>7, <3>1 DEF ReviewInv, LocksHeld
      <4>2. /\ Changing(w) /\ review[i] # NoReview
            /\ row.rating = review[i].rating /\ row.status = review[i].status
        BY <1>2, <1>4, <4>1 DEF Fitting
      <4>3. Writing(x) /\ k \in Items
        BY <2>1, <3>1 DEF Writing, Fitting
      <4>4. (reviewLock[k] = x \/ k \notin Written) /\ k # i
        BY <2>1, <2>2, <3>1, <4>2, <4>3 DEF Rated, Changing, Written
      <4>5. reviewLock'[k] = x \/ k \notin Written'
        BY <1>3, <1>5, <1>7, <4>3, <4>4 DEF Written, Moves
      <4> DEFINE old == [review EXCEPT ![k] = task[x].row]
                 new == [review' EXCEPT ![k] = task[x].row]
      <4>6. \A j \in Items : new[j].rating = old[j].rating /\ new[j].status = old[j].status
        <5>1. \A j \in Items : review'[j].rating = review[j].rating
                               /\ review'[j].status = review[j].status
          BY <1>3, <4>2
        <5>2. review \in [Items -> ReviewRow] /\ review' \in [Items -> ReviewRow]
          BY DEF ReviewInv, ReviewTypeOK
        <5> QED BY <5>1, <5>2
      <4>7. Aggregate(new) = Aggregate(old)
        <5> HIDE DEF old, new
        <5> QED BY <4>6, SameAggregate
      <4>8. task'[x].rating = Aggregate([review' EXCEPT ![k] = task[x].row])
        BY <2>1, <3>1, <4>7 DEF Rated
      <4>9. Aggregate([review EXCEPT ![task[x].item] = task[x].row])'
              = Aggregate([review' EXCEPT ![k] = task[x].row])
        BY <2>1 DEF Aggregate, RatingSum
      <4> QED BY <2>1, <3>1, <4>5, <4>8, <4>9 DEF Rated
    <3>2. CASE task[x].step # "commitRating"
      BY <2>1, <3>2 DEF Rated
    <3> QED BY <3>1, <3>2
  <2> QED BY <2>4, <2>5
<1>8. RatingUnlessOverwritten'
  <2>1. CASE task[w].step = "commit"
    <3>1. product' = product /\ overwritten' = overwritten
      BY <2>1 DEF CommitReview
    <3>2. row.rating = review[i].rating /\ row.status = review[i].status
      BY <1>2, <1>4, <2>1 DEF Fitting
    <3>3. \A j \in Items : review'[j].rating = review[j].rating /\ review'[j].status = review[j].status
      BY <1>3, <3>2
    <3>4. Aggregate(review') = Aggregate(review)
      BY <3>3, SameAggregate
    <3>5. Aggregate(review)' = Aggregate(review')
      BY DEF Aggregate, RatingSum
    <3> QED BY <3>1, <3>4, <3>5
            DEF ReviewInv, RatingUnlessOverwritten, RatingMatches, Exists
  <2>2. CASE task[w].step = "commitRating"
    <3>1. product' = task[w].rating
      BY <2>2 DEF CommitReview
    <3>2. product' = Aggregate(review')
      BY <1>1, <1>2, <2>2, <3>1 DEF Rated
    <3>3. Aggregate(review)' = Aggregate(review')
      BY DEF Aggregate, RatingSum
    <3> QED BY <3>2, <3>3 DEF RatingUnlessOverwritten, RatingMatches
  <2> QED BY <1>1, <2>1, <2>2
<1>9. HelpfulCountsVotes'
  <2>1. HelpfulCountsVotes
    BY DEF ReviewInv
  <2>2. row.helpfulCount = Cardinality(votes'[i]) /\ i \notin votes'[i]
    <3>1. CASE Changing(w)
      BY <1>2, <1>3, <2>1, <3>1 DEF Fitting, Voted, HelpfulCountsVotes
    <3>2. CASE ~Changing(w)
      <4>1. row.helpfulCount = 0 /\ task[w].votes = {} /\ review[i].helpfulCount = 0
        BY <1>2, <1>4, <3>2 DEF Fitting, NoReview
      <4>2. votes'[i] = votes[i]
        BY <1>3, <4>1 DEF Voted
      <4> QED BY <1>2, <2>1, <4>1, <4>2 DEF HelpfulCountsVotes
    <3> QED BY <3>1, <3>2
  <2>3. \A j \in Items : review'[j].helpfulCount = Cardinality(votes'[j]) /\ j \notin votes'[j]
    BY <1>3, <2>1, <2>2 DEF HelpfulCountsVotes
  <2> QED BY <2>3 DEF HelpfulCountsVotes
<1>10. \A x \in Workers : Fitting(x)' /\ Rated(x)'
  BY <1>5, <1>7
<1> QED BY <1>6, <1>8, <1>9, <1>10 DEF ReviewInv

\* A product is deleted, and its reviews with it.
LEMMA DeletingKeeps ==
  ASSUME ReviewInv, ReviewTypeOK', NEW w \in Workers, Cascade(w)
  PROVE  ReviewInv'
<1>1. /\ ReleasesLocks(w) /\ task[w].step = "delete"
      /\ \A i \in Items : reviewLock[i] = Nobody
      /\ product' = NoProduct
      /\ review' = [i \in Items |-> NoReview] /\ votes' = [i \in Items |-> {}]
  BY DEF Cascade
<1>2. /\ Moves(w, NoTask)
      /\ Fitting(w)' /\ Rated(w)'
      /\ \A j \in Items : reviewLock'[j] # w
      /\ productLock' # w /\ task'[w].step = "idle"
  BY <1>1, Released
<1>3. LocksHeld'
  BY <1>2, LocksStay
<1>4. ASSUME NEW x \in Workers \ {w}
      PROVE  Fitting(x)' /\ Rated(x)'
  <2>1. /\ task'[x] = task[x] /\ (Writing(x)' <=> Writing(x)) /\ (Changing(x)' <=> Changing(x))
        /\ Fitting(x) /\ Rated(x)
    BY <1>2, <1>4, OthersStay DEF ReviewInv
  <2>2. ~Changing(x)
    BY <1>1, <2>1, ReviewAssumption DEF Changing, Fitting
  <2>3. task[x].step # "commitRating"
    BY <1>1, <1>4 DEF ReviewInv, LocksHeld
  <2>4. Fitting(x)'
    BY <2>1, <2>2 DEF Fitting
  <2> QED BY <2>1, <2>3, <2>4 DEF Rated
<1>5. RatingUnlessOverwritten'
  BY <1>1 DEF RatingUnlessOverwritten, RatingMatches, Exists
<1>6. HelpfulCountsVotes'
  <2>1. \A i \in Items : review'[i].helpfulCount = 0 /\ votes'[i] = {}
    BY <1>1 DEF NoReview
  <2>2. Cardinality({}) = 0
    BY FS_EmptySet
  <2> QED BY <2>1, <2>2 DEF HelpfulCountsVotes
<1>7. \A x \in Workers : Fitting(x)' /\ Rated(x)'
  BY <1>2, <1>4
<1> QED BY <1>3, <1>5, <1>6, <1>7 DEF ReviewInv

\* A request that changes a review it found keeps the invariant.
LEMMA ReviewChangesKeep ==
  ASSUME ReviewInv, ReviewTypeOK', NEW w \in Workers, NEW i \in Items,
         \/ \E stars \in Stars : EditReview(w, i, stars)
         \/ HideReview(w, i) \/ PublishReview(w, i) \/ ReplyReview(w, i)
         \/ \E voter \in Items, voted \in BOOLEAN : SetVote(w, i, voter, voted)
  PROVE  ReviewInv'
<1>1. /\ review[i] \in ReviewRow /\ votes[i] \subseteq Items
      /\ review[i].helpfulCount = Cardinality(votes[i]) /\ i \notin votes[i]
  BY DEF ReviewInv, ReviewTypeOK, HelpfulCountsVotes
<1>2. Voted(i, {}) = votes[i]
  BY DEF Voted
<1>3. ASSUME NEW stars \in Stars, EditReview(w, i, stars)
      PROVE  ReviewInv'
  <2> DEFINE row == [review[i] EXCEPT !.rating = stars, !.editedAt = TRUE]
  <2>1. stars \in Nat
    BY ReviewAssumption
  <2>2. /\ row \in ReviewRow /\ row.helpfulCount = review[i].helpfulCount
        /\ row.rating = stars /\ row.status = review[i].status
    BY <1>1, <2>1 DEF ReviewRow
  <2>3. /\ ~review[i].editedAt
        /\ \/ ChangesReview(w, i, "product", row, {})
           \/ stars = review[i].rating /\ ChangesReview(w, i, "commit", row, {})
    BY <1>3 DEF EditReview, EditBlocked
  <2> HIDE DEF row
  <2> QED BY <1>1, <1>2, <2>2, <2>3, ChangingKeeps
<1>4. ASSUME NEW s \in {"PUBLISHED", "HIDDEN"},
             ChangesReview(w, i, "product", [review[i] EXCEPT !.status = s], {})
      PROVE  ReviewInv'
  <2> DEFINE row == [review[i] EXCEPT !.status = s]
  <2>1. /\ row \in ReviewRow /\ row.helpfulCount = review[i].helpfulCount
        /\ row.rating = review[i].rating /\ row.editedAt = review[i].editedAt
    BY <1>1 DEF ReviewRow
  <2>2. ChangesReview(w, i, "product", row, {})
    BY <1>4
  <2> HIDE DEF row
  <2> QED BY <1>1, <1>2, <2>1, <2>2, ChangingKeeps
<1>5. ASSUME HideReview(w, i) \/ PublishReview(w, i)
      PROVE  ReviewInv'
  BY <1>4, <1>5 DEF HideReview, PublishReview
<1>6. ASSUME ReplyReview(w, i)
      PROVE  ReviewInv'
  <2>1. ChangesReview(w, i, "commit", review[i], {})
    BY <1>6 DEF ReplyReview
  <2> QED BY <1>1, <1>2, <2>1, ChangingKeeps
<1>7. ASSUME NEW voter \in Items, NEW voted \in BOOLEAN, SetVote(w, i, voter, voted)
      PROVE  ReviewInv'
  <2> DEFINE helpful == IF voted THEN votes[i] \cup {voter} ELSE votes[i] \ {voter}
             changed == IF voted THEN {voter} \ votes[i] ELSE {voter} \cap votes[i]
             row == [review[i] EXCEPT !.helpfulCount = Cardinality(helpful)]
  <2>1. ChangesReview(w, i, "commit", row, changed) /\ (voted => voter # i)
    BY <1>7 DEF SetVote
  <2>2. helpful \subseteq Items /\ changed \subseteq Items /\ i \notin changed
    BY <1>1, <2>1
  <2>3. helpful = Voted(i, changed)
    BY DEF Voted
  <2> HIDE DEF helpful, changed
  <2>4. Cardinality(helpful) \in Nat
    BY <2>2, FS_Subset, FS_CardinalityType, ReviewAssumption
  <2>5. /\ row \in ReviewRow /\ row.helpfulCount = Cardinality(helpful)
        /\ row.rating = review[i].rating /\ row.editedAt = review[i].editedAt
        /\ row.status = review[i].status
    BY <1>1, <2>4 DEF ReviewRow
  <2> HIDE DEF row
  <2> QED BY <2>1, <2>2, <2>3, <2>5, ChangingKeeps
<1> QED BY <1>3, <1>5, <1>6, <1>7

\* Every step keeps the invariant.
LEMMA ReviewStep == ReviewInv /\ [ReviewNext]_reviewVars => ReviewInv'
<1> SUFFICES ASSUME ReviewInv, [ReviewNext]_reviewVars PROVE ReviewInv'
  OBVIOUS
<1>1. ReviewTypeOK'
  BY ReviewTypes DEF ReviewInv
<1>2. ASSUME NEW w \in Workers, NEW i \in Items, NEW stars \in Stars, WriteReview(w, i, stars)
      PROVE  ReviewInv'
  BY <1>1, <1>2, WritingKeeps
<1>3. ASSUME NEW w \in Workers, NEW i \in Items,
             \/ \E stars \in Stars : EditReview(w, i, stars)
             \/ HideReview(w, i) \/ PublishReview(w, i) \/ ReplyReview(w, i)
             \/ \E voter \in Items, voted \in BOOLEAN : SetVote(w, i, voter, voted)
      PROVE  ReviewInv'
  BY <1>1, <1>3, ReviewChangesKeep
<1>4. ASSUME NEW w \in Workers, LockProduct(w) \/ Rate(w)
      PROVE  ReviewInv'
  BY <1>1, <1>4, RatingKeeps
<1>5. ASSUME NEW w \in Workers, CommitReview(w)
      PROVE  ReviewInv'
  BY <1>1, <1>5, CommittingKeeps
<1>6. ASSUME NEW w \in Workers, AbortReview(w) \/ LoadProduct(w) \/ DeleteProduct(w)
      PROVE  ReviewInv'
  BY <1>1, <1>6, QuietStepKeeps
<1>7. ASSUME NEW w \in Workers, SaveProduct(w)
      PROVE  ReviewInv'
  BY <1>1, <1>7, SavingKeeps
<1>8. ASSUME NEW w \in Workers, Cascade(w)
      PROVE  ReviewInv'
  BY <1>1, <1>8, DeletingKeeps
<1>9. ASSUME NEW i \in Items, CloseReview(i)
      PROVE  ReviewInv'
  BY <1>1, <1>9, ClosingKeeps DEF CloseReview
<1>10. CASE UNCHANGED reviewVars
  BY <1>1, <1>10, ClosingKeeps DEF reviewVars
<1>11. CASE ReviewNext
  <2>1. reviewable \subseteq Items
    BY DEF ReviewInv, ReviewTypeOK
  <2> QED BY <1>2, <1>3, <1>4, <1>5, <1>6, <1>7, <1>8, <1>9, <1>11, <2>1 DEF ReviewNext
<1> QED BY <1>10, <1>11

\* The invariant holds at first: there are no reviews, and the rating is that of none.
LEMMA ReviewStart == ReviewInit => ReviewInv
<1> SUFFICES ASSUME ReviewInit PROVE ReviewInv
  OBVIOUS
<1>1. \A w \in Workers : task[w].step = "idle"
  BY DEF ReviewInit, NoTask, ReviewTask
<1>2. ReviewTypeOK
  <2>1. NoReview \in ReviewRow /\ NoRating \in Rating
    BY DEF NoReview, ReviewRow, NoRating, Rating
  <2>2. NoTask \in [step: {"idle", "product", "rate", "commit", "commitRating", "save", "delete"},
                    item: Items \cup {NoItem}, row: ReviewRow, votes: SUBSET Items,
                    rating: Rating]
    BY <2>1 DEF NoTask, ReviewTask
  <2> QED BY <2>1, <2>2 DEF ReviewInit, ReviewTypeOK
<1>3. LocksHeld
  BY <1>1, ReviewAssumption DEF ReviewInit, LocksHeld
<1>4. \A w \in Workers : Fitting(w) /\ Rated(w)
  BY <1>1 DEF Fitting, Rated, Changing, Writing
<1>5. RatingUnlessOverwritten
  <2> DEFINE f == [i \in Items |-> review[i].rating]
  <2>1. {i \in Items : review[i].status = "PUBLISHED"} = {}
    BY DEF ReviewInit, NoReview
  <2>2. Aggregate(review) = [count |-> Cardinality({}), sum |-> SumFunctionOnSet(f, {})]
    BY <2>1 DEF Aggregate, RatingSum
  <2> HIDE DEF f
  <2>3. Cardinality({}) = 0 /\ SumFunctionOnSet(f, {}) = 0
    BY FS_EmptySet, SumEmpty
  <2>4. Aggregate(review) = NoRating
    BY <2>2, <2>3 DEF NoRating
  <2> QED BY <2>4 DEF ReviewInit, RatingUnlessOverwritten, RatingMatches
<1>6. HelpfulCountsVotes
  <2>1. Cardinality({}) = 0
    BY FS_EmptySet
  <2> QED BY <2>1 DEF ReviewInit, HelpfulCountsVotes, NoReview
<1> QED BY <1>2, <1>3, <1>4, <1>5, <1>6 DEF ReviewInv

\* The votes, the locks and the rating stay right in every state of the product reviews.
LEMMA ReviewInvariance == ReviewSpec => []ReviewInv
BY ReviewStart, ReviewStep, PTL DEF ReviewSpec

\* The rating stored with the product is that of its published reviews, unless the
\* product administration saved an older one over it: for every number of customers,
\* reviews and requests.
THEOREM RatingIsRight == ReviewSpec => []RatingUnlessOverwritten
<1>1. ReviewInv => RatingUnlessOverwritten
  BY DEF ReviewInv
<1> QED BY <1>1, ReviewInvariance, PTL

\* The count shown with a review is the number of votes for it, none of them by the
\* customer who wrote it.
THEOREM VotesAreCounted == ReviewSpec => []HelpfulCountsVotes
<1>1. ReviewInv => HelpfulCountsVotes
  BY DEF ReviewInv
<1> QED BY <1>1, ReviewInvariance, PTL

\* A COMMIT leaves the rating of a review that was edited before as it is.
LEMMA CommitKeepsEdited ==
  ASSUME ReviewInv, NEW w \in Workers, CommitReview(w), NEW i \in Items, review[i].editedAt
  PROVE  review'[i].rating = review[i].rating /\ review'[i].editedAt
<1> DEFINE k == task[w].item
<1>1. /\ task[w].step \in {"commit", "commitRating"}
      /\ review' = [review EXCEPT ![k] = task[w].row]
  BY DEF CommitReview
<1>2. Writing(w) /\ k \in Items /\ Fitting(w) /\ Rated(w)
  BY <1>1 DEF Writing, ReviewInv, Fitting
<1>3. CASE i = k
  <2>1. review[k] # NoReview
    BY <1>3 DEF NoReview
  <2>2. Changing(w)
    BY <1>1, <1>2, <2>1 DEF Fitting, Rated, Changing, Written
  <2>3. task[w].row.rating = review[k].rating /\ task[w].row.editedAt
    BY <1>2, <1>3, <2>2 DEF Fitting
  <2> QED BY <1>1, <1>2, <1>3, <2>3 DEF ReviewInv, ReviewTypeOK
<1>4. CASE i # k
  BY <1>1, <1>4 DEF ReviewInv, ReviewTypeOK
<1> QED BY <1>3, <1>4

\* A review that was edited keeps its rating for as long as it exists.
THEOREM ReviewEditedOnce == ReviewSpec => EditedOnce
<1> DEFINE Step == \A i \in Items :
             review[i].editedAt /\ review'[i] # NoReview =>
               review'[i].rating = review[i].rating /\ review'[i].editedAt
<1>1. ReviewInv /\ [ReviewNext]_reviewVars => [Step]_reviewVars
  <2> SUFFICES ASSUME ReviewInv, ReviewNext, NEW i \in Items, review[i].editedAt,
                      review'[i] # NoReview
               PROVE  review'[i].rating = review[i].rating /\ review'[i].editedAt
    OBVIOUS
  <2>a. ASSUME NEW w \in Workers, NEW j \in Items,
               \/ \E stars \in Stars : WriteReview(w, j, stars) \/ EditReview(w, j, stars)
               \/ HideReview(w, j) \/ PublishReview(w, j) \/ ReplyReview(w, j)
               \/ \E voter \in Items, voted \in BOOLEAN : SetVote(w, j, voter, voted)
        PROVE  review' = review
    <3>1. \A step, row, changed : ChangesReview(w, j, step, row, changed) => review' = review
      BY DEF ChangesReview
    <3> QED BY <2>a, <3>1
            DEF WriteReview, EditReview, HideReview, PublishReview, ReplyReview, SetVote
  <2>b. ASSUME NEW w \in Workers,
               \/ LockProduct(w) \/ Rate(w) \/ AbortReview(w)
               \/ LoadProduct(w) \/ SaveProduct(w) \/ DeleteProduct(w)
        PROVE  review' = review
    BY <2>b DEF LockProduct, Rate, AbortReview, LoadProduct, SaveProduct, DeleteProduct
  <2>c. \A j \in reviewable : CloseReview(j) => review' = review
    BY DEF CloseReview
  <2>1. \/ review' = review
        \/ \E w \in Workers : CommitReview(w)
        \/ \E w \in Workers : Cascade(w)
    BY <2>a, <2>b, <2>c DEF ReviewNext
  <2>2. ASSUME NEW w \in Workers, Cascade(w) PROVE FALSE
    BY <2>2 DEF Cascade
  <2> QED BY <2>1, <2>2, CommitKeepsEdited
<1> QED BY <1>1, ReviewInvariance, PTL DEF ReviewSpec, EditedOnce

-----------------------------------------------------------------------------
(* ProductShelf *)

\* What an update is about to save was checked, and save read a product or none.
UpdatesChecked ==
  \A k \in Clerks : change[k].step # "idle" =>
    change[k].product \in Goods /\ Belongs(change[k].product) /\ PriceFits(change[k].product)

\* The inductive invariant of the product administration.
ShelfInv == ShelfTypeOK /\ UpdatesChecked /\ (goods = NoGoods \/ torn \/ Belongs(goods))

\* A column of a request has a value of its own or the one of the row.
LEMMA GivenValue ==
  ASSUME NEW S, NEW value \in Optional(S), NEW old \in S
  PROVE  Given(value, old) \in S
<1>1. CASE value = {}
  BY <1>1 DEF Given
<1>2. CASE value # {}
  <2>1. PICK v \in S : value = {v}
    BY <1>2 DEF Optional
  <2>2. (CHOOSE x \in value : TRUE) \in value
    BY <2>1
  <2> QED BY <1>2, <2>1, <2>2 DEF Given
<1> QED BY <1>1, <1>2

\* The product a request makes of a row has the type of a product.
LEMMA AssignedType ==
  ASSUME NEW article \in Goods, NEW request \in ShelfRequest
  PROVE  Assigned(article, request) \in Goods
<1>1. /\ article.category \in Parents /\ article.subcategory \in SubCategories
      /\ article.price \in Amounts /\ article.originalPrice \in Amounts \cup {0}
  BY DEF Goods
<1>2. /\ request.category \in Optional(Parents) /\ request.subcategory \in Optional(SubCategories)
      /\ request.price \in Optional(Amounts)
      /\ request.originalPrice \in Optional(Amounts \cup {0})
  BY DEF ShelfRequest
<1>3. /\ Given(request.category, article.category) \in Parents
      /\ Given(request.subcategory, article.subcategory) \in SubCategories
      /\ Given(request.price, article.price) \in Amounts
      /\ Given(request.originalPrice, article.originalPrice) \in Amounts \cup {0}
  BY <1>1, <1>2, GivenValue
<1> QED BY <1>3 DEF Assigned, Goods

\* An UPDATE of a row that is as save read it writes the product that was checked.
LEMMA UpdatedUntorn ==
  ASSUME NEW article \in Goods, NEW row \in Goods
  PROVE  Updated(row, article, row) = article
BY DEF Updated, Goods

\* Whatever the row has become, an UPDATE leaves a product.
LEMMA UpdatedType ==
  ASSUME NEW article \in Goods, NEW row \in Goods, NEW old \in Goods
  PROVE  Updated(row, article, old) \in Goods
<1> DEFINE new == Updated(row, article, old)
<1>1. /\ DOMAIN article = {"category", "subcategory", "price", "originalPrice"}
      /\ article = [c \in DOMAIN article |-> article[c]]
  BY DEF Goods
<1>2. new = [category |-> new.category, subcategory |-> new.subcategory, price |-> new.price,
             originalPrice |-> new.originalPrice]
  BY <1>1 DEF Updated
<1>3. \A c \in DOMAIN article : new[c] \in {row[c], article[c]}
  BY <1>1 DEF Updated
<1>4. /\ new["category"] \in {row["category"], article["category"]}
      /\ new["subcategory"] \in {row["subcategory"], article["subcategory"]}
      /\ new["price"] \in {row["price"], article["price"]}
      /\ new["originalPrice"] \in {row["originalPrice"], article["originalPrice"]}
  <2> HIDE DEF new
  <2> QED BY <1>1, <1>3
<1>5. /\ new.category \in Parents /\ new.subcategory \in SubCategories
      /\ new.price \in Amounts /\ new.originalPrice \in Amounts \cup {0}
  <2> HIDE DEF new
  <2> QED BY <1>4 DEF Goods
<1>6. \A c \in Parents, u \in SubCategories, p \in Amounts, o \in Amounts \cup {0} :
        [category |-> c, subcategory |-> u, price |-> p, originalPrice |-> o] \in Goods
  BY DEF Goods
<1> HIDE DEF new
<1>7. new \in Goods
  BY <1>2, <1>5, <1>6
<1> QED BY <1>7 DEF new

\* Every step of an update keeps the invariant.
LEMMA WritingGoodsKeeps ==
  ASSUME ShelfInv, NEW k \in Clerks, WriteGoods(k)
  PROVE  ShelfInv'
<1> DEFINE c == change[k]
           new == IF c.row = NoGoods THEN c.product ELSE Updated(goods, c.product, c.row)
<1>1. /\ c.step = "write" /\ change' = [change EXCEPT ![k] = NoGoodsChange]
      /\ \/ /\ goods = NoGoods <=> c.row = NoGoods
            /\ goods' = new /\ torn' = (torn \/ c.row # goods)
         \/ UNCHANGED <<goods, torn>>
  BY DEF WriteGoods
<1>2. /\ c.product \in Goods /\ Belongs(c.product) /\ c.row \in Goods \cup {NoGoods}
      /\ goods \in Goods \cup {NoGoods}
  BY <1>1 DEF ShelfInv, ShelfTypeOK, UpdatesChecked
<1>3. NoGoodsChange \in [step: {"idle", "read", "write"}, product: Goods \cup {NoGoods},
                         row: Goods \cup {NoGoods}]
      /\ NoGoodsChange.step = "idle"
  BY DEF NoGoodsChange, GoodsChange
<1>4. UpdatesChecked'
  BY <1>1, <1>3 DEF ShelfInv, ShelfTypeOK, UpdatesChecked, Belongs, PriceFits
<1>5. CASE UNCHANGED <<goods, torn>>
  BY <1>1, <1>3, <1>4, <1>5 DEF ShelfInv, ShelfTypeOK, Belongs
<1>6. CASE /\ goods = NoGoods <=> c.row = NoGoods
           /\ goods' = new /\ torn' = (torn \/ c.row # goods)
  <2>1. new \in Goods
    BY <1>2, <1>6, UpdatedType
  <2>2. c.row = goods => new = c.product
    BY <1>2, UpdatedUntorn
  <2>3. torn' \/ Belongs(goods')
    BY <1>2, <1>6, <2>2
  <2>4. torn' \in BOOLEAN
    BY <1>6 DEF ShelfInv, ShelfTypeOK
  <2> QED BY <1>1, <1>3, <1>4, <1>6, <2>1, <2>3, <2>4 DEF ShelfInv, ShelfTypeOK, Belongs
<1> QED BY <1>1, <1>5, <1>6

\* Every step keeps the invariant.
LEMMA ShelfStep == ShelfInv /\ [ShelfNext]_shelfVars => ShelfInv'
<1> SUFFICES ASSUME ShelfInv, [ShelfNext]_shelfVars PROVE ShelfInv'
  OBVIOUS
<1> DEFINE UpdatesOfClerks == [step: {"idle", "read", "write"}, product: Goods \cup {NoGoods},
                               row: Goods \cup {NoGoods}]
<1>1. ASSUME NEW article \in Goods, CreateGoods(article)
      PROVE  ShelfInv'
  BY <1>1 DEF CreateGoods, ShelfInv, ShelfTypeOK, UpdatesChecked, Belongs
<1>2. ASSUME NEW k \in Clerks, NEW request \in ShelfRequest, CheckUpdate(k, request)
      PROVE  ShelfInv'
  <2> DEFINE article == Assigned(goods, request)
  <2>1. article \in Goods
    BY <1>2, AssignedType DEF CheckUpdate, ShelfInv, ShelfTypeOK
  <2>2. /\ change' = [change EXCEPT ![k] = GoodsChange("read", article, NoGoods)]
        /\ Belongs(article) /\ PriceFits(article) /\ UNCHANGED <<goods, torn>>
    BY <1>2 DEF CheckUpdate
  <2> HIDE DEF article
  <2> QED BY <2>1, <2>2
          DEF GoodsChange, ShelfInv, ShelfTypeOK, UpdatesChecked, Belongs, PriceFits
<1>3. ASSUME NEW k \in Clerks, ReadAgain(k)
      PROVE  ShelfInv'
  <2> DEFINE t == [change[k] EXCEPT !.step = "write", !.row = goods]
  <2>1. /\ change' = [change EXCEPT ![k] = t] /\ change[k].step = "read"
        /\ UNCHANGED <<goods, torn>>
    BY <1>3 DEF ReadAgain
  <2>2. t \in UpdatesOfClerks /\ t.step = "write" /\ t.product = change[k].product
    BY DEF ShelfInv, ShelfTypeOK
  <2> HIDE DEF t
  <2> QED BY <2>1, <2>2 DEF ShelfInv, ShelfTypeOK, UpdatesChecked, Belongs, PriceFits
<1>4. ASSUME NEW k \in Clerks, WriteGoods(k)
      PROVE  ShelfInv'
  BY <1>4, WritingGoodsKeeps
<1>5. CASE DeleteGoods
  BY <1>5 DEF DeleteGoods, ShelfInv, ShelfTypeOK, UpdatesChecked, Belongs
<1>6. CASE UNCHANGED shelfVars
  BY <1>6 DEF shelfVars, ShelfInv, ShelfTypeOK, UpdatesChecked, Belongs, PriceFits
<1> QED BY <1>1, <1>2, <1>3, <1>4, <1>5, <1>6 DEF ShelfNext

\* What a request is about to save was checked, in every state of the product administration.
LEMMA ShelfInvariance == ShelfSpec => []ShelfInv
<1>1. /\ NoGoodsChange.step = "idle"
      /\ NoGoodsChange \in [step: {"idle", "read", "write"}, product: Goods \cup {NoGoods},
                            row: Goods \cup {NoGoods}]
  BY DEF NoGoodsChange, GoodsChange
<1>2. ShelfInit => ShelfInv
  BY <1>1 DEF ShelfInit, ShelfInv, ShelfTypeOK, UpdatesChecked
<1> QED BY <1>2, ShelfStep, PTL DEF ShelfSpec

\* A product is in a subcategory of its own category, unless two updates were saved at
\* once; and an update that saves over the row it read does not fail at the CHECK of
\* the prices: for all categories, prices and clerks.
THEOREM ProductsFit == ShelfSpec => []ProductFits
<1>1. ShelfInv => ProductFits
  BY DEF ShelfInv, UpdatesChecked, ProductFits, PriceFits, CheckHolds
<1> QED BY <1>1, ShelfInvariance, PTL

-----------------------------------------------------------------------------
(* ListPages *)

\* The rows that come before a row of the list.
Earlier(ranking, list, r) ==
  {s \in Rows : /\ ranking[s] # Out
                /\ \/ ranking[s] < ranking[r]
                   \/ ranking[s] = ranking[r] /\ OrdersById(list) /\ s < r}
Place(ranking, list, r) == Cardinality(Earlier(ranking, list, r))

\* The query decides the order of all rows of the list.
Ordered(ranking, list) ==
  \/ OrdersById(list)
  \/ \A r, s \in Rows : ranking[r] # Out /\ ranking[r] = ranking[s] => r = s

RankTypes == rank \in [Rows -> Ranks \cup {Out}]

\* Then of two rows one comes before the other.
LEMMA OrderedRows ==
  ASSUME RankTypes, NEW list, Ordered(rank, list)
  PROVE  \A r, s \in Matching :
           /\ r # s => SortedBefore(list, r, s) \/ SortedBefore(list, s, r)
           /\ ~ (SortedBefore(list, r, s) /\ SortedBefore(list, s, r))
<1> SUFFICES ASSUME NEW r \in Matching, NEW s \in Matching
             PROVE  /\ r # s => SortedBefore(list, r, s) \/ SortedBefore(list, s, r)
                    /\ ~ (SortedBefore(list, r, s) /\ SortedBefore(list, s, r))
  OBVIOUS
<1>1. r \in Nat /\ s \in Nat /\ rank[r] \in Nat /\ rank[s] \in Nat
  BY PageAssumption DEF RankTypes, Matching, Out
<1>2. r # s => r < s \/ s < r
  BY <1>1
<1>3. rank[r] < rank[s] \/ rank[s] < rank[r] \/ rank[r] = rank[s]
  BY <1>1
<1>4. ~ (rank[r] < rank[s] /\ rank[s] < rank[r]) /\ ~ (r < s /\ s < r)
      /\ (rank[r] = rank[s] => ~ (rank[r] < rank[s]) /\ ~ (rank[s] < rank[r]))
  BY <1>1
<1>5. Ordered(rank, list) => OrdersById(list) \/ (rank[r] = rank[s] => r = s)
  BY DEF Ordered, Matching
<1> QED BY <1>2, <1>3, <1>4, <1>5, Zenon DEF SortedBefore

\* They are rows of the list.
LEMMA EarlierRows ==
  ASSUME NEW list, NEW r
  PROVE  Earlier(rank, list, r) = {s \in Matching : SortedBefore(list, s, r)}
BY DEF Earlier, Matching, SortedBefore

\* The list is finite.
LEMMA MatchingFinite == IsFiniteSet(Matching) /\ Cardinality(Matching) \in Nat
<1>1. Matching \in SUBSET Rows
  BY DEF Matching
<1> QED BY <1>1, PageAssumption, FS_Subset, FS_CardinalityType

\* So are the rows before a row.
LEMMA EarlierFinite ==
  ASSUME NEW list, NEW r
  PROVE  IsFiniteSet(Earlier(rank, list, r)) /\ Cardinality(Earlier(rank, list, r)) \in Nat
<1>1. Earlier(rank, list, r) \in SUBSET Matching
  BY EarlierRows
<1> QED BY <1>1, MatchingFinite, FS_Subset, FS_CardinalityType

\* A row has as many rows before it as there are places before its own.
LEMMA Places ==
  ASSUME RankTypes, NEW list, Ordered(rank, list), NEW order \in Sortings(list)
  PROVE  /\ order \in Seq(Matching) /\ Len(order) = Cardinality(Matching)
         /\ DOMAIN order = 1 .. Cardinality(Matching)
         /\ \A r \in Matching : \E j \in DOMAIN order : order[j] = r
         /\ \A j \in DOMAIN order :
              order[j] \in Matching /\ Cardinality(Earlier(rank, list, order[j])) = j - 1
<1> DEFINE n == Cardinality(Matching)
<1>1. /\ order \in [1 .. n -> Matching] /\ DOMAIN order = 1 .. n
      /\ \A i, j \in 1 .. n :
           i < j => order[i] # order[j] /\ ~ SortedBefore(list, order[j], order[i])
  BY DEF Sortings
<1>2. n \in Nat
  BY MatchingFinite
<1>3. order \in Seq(Matching) /\ Len(order) = n
  BY <1>1, <1>2
<1> HIDE DEF n
<1>4. \A i, j \in 1 .. n : order[i] = order[j] => i = j
  <2> SUFFICES ASSUME NEW i \in 1 .. n, NEW j \in 1 .. n, order[i] = order[j]
               PROVE  i = j
    OBVIOUS
  <2>1. i \in Int /\ j \in Int /\ (i < j \/ j < i \/ i = j)
    BY <1>2
  <2> QED BY <1>1, <2>1
<1>5. order \in Injection(1 .. n, Matching)
  BY <1>1, <1>4 DEF Injection, IsInjective
<1>6. order \in Surjection(1 .. n, Matching)
  <2>1. Cardinality(1 .. n) = n
    BY <1>2, FS_Interval
  <2> QED BY <1>5, <2>1, MatchingFinite, FS_Injection DEF n
<1>7. \A r \in Matching : \E j \in 1 .. n : order[j] = r
  BY <1>6 DEF Surjection
<1>8. \A i, j \in 1 .. n : i < j <=> SortedBefore(list, order[i], order[j])
  <2> SUFFICES ASSUME NEW i \in 1 .. n, NEW j \in 1 .. n
               PROVE  i < j <=> SortedBefore(list, order[i], order[j])
    OBVIOUS
  <2>1. i \in Int /\ j \in Int /\ (i < j \/ j < i \/ i = j)
    BY <1>2
  <2>2. order[i] \in Matching /\ order[j] \in Matching
    BY <1>1
  <2>3. CASE i < j
    <3>1. order[i] # order[j] /\ ~ SortedBefore(list, order[j], order[i])
      BY <1>1, <2>3
    <3> QED BY <2>2, <2>3, <3>1, OrderedRows
  <2>4. CASE j < i
    <3>1. order[i] # order[j] /\ ~ SortedBefore(list, order[i], order[j])
      BY <1>1, <2>4
    <3>2. ~ (i < j)
      BY <2>1, <2>4
    <3> QED BY <3>1, <3>2
  <2>5. CASE i = j
    <3>1. ~ (i < j) /\ ~ SortedBefore(list, order[i], order[j])
      BY <2>1, <2>2, <2>5, OrderedRows
    <3> QED BY <3>1
  <2> QED BY <2>1, <2>3, <2>4, <2>5
<1>9. ASSUME NEW j \in 1 .. n
      PROVE  Cardinality(Earlier(rank, list, order[j])) = j - 1
  <2> DEFINE f == [i \in 1 .. (j - 1) |-> order[i]]
             E == Earlier(rank, list, order[j])
  <2>1. j - 1 \in Nat /\ \A i \in 1 .. (j - 1) : i \in 1 .. n /\ i < j
    BY <1>2
  <2>2. \A i \in 1 .. n : i < j => i \in 1 .. (j - 1)
    BY <1>2
  <2>3. \A i \in 1 .. (j - 1) : order[i] \in E
    BY <1>1, <1>8, <2>1, EarlierRows
  <2>4. \A s \in E : \E i \in 1 .. (j - 1) : order[i] = s
    <3> SUFFICES ASSUME NEW s \in E PROVE \E i \in 1 .. (j - 1) : order[i] = s
      OBVIOUS
    <3>1. s \in Matching /\ SortedBefore(list, s, order[j])
      BY EarlierRows
    <3>2. PICK i \in 1 .. n : order[i] = s
      BY <1>7, <3>1
    <3>3. i < j
      BY <1>8, <3>1, <3>2
    <3> QED BY <2>2, <3>2, <3>3
  <2> HIDE DEF E
  <2>5. f \in Bijection(1 .. (j - 1), E)
    <3>1. f \in [1 .. (j - 1) -> E]
      BY <2>3
    <3>2. \A a, b \in 1 .. (j - 1) : f[a] = f[b] => a = b
      BY <1>4, <2>1
    <3>3. \A s \in E : \E i \in 1 .. (j - 1) : f[i] = s
      BY <2>4
    <3> QED BY <3>1, <3>2, <3>3 DEF Bijection, Injection, Surjection, IsInjective
  <2>6. Cardinality(E) = j - 1
    <3>1. ExistsBijection(1 .. (j - 1), E)
      BY <2>5 DEF ExistsBijection
    <3> QED BY <2>1, <3>1, FS_CountingElements
  <2> QED BY <2>6 DEF E
<1> QED BY <1>1, <1>3, <1>7, <1>9 DEF n

\* A page is a part of the answer, which has the rows of the list.
LEMMA PageType ==
  ASSUME NEW list, NEW order \in Sortings(list), NEW page \in Nat \ {0}, NEW limit \in Nat \ {0}
  PROVE  LET p == Page(order, page, limit)
             k == (page - 1) * limit
             last == IF page * limit < Cardinality(Matching) THEN page * limit
                     ELSE Cardinality(Matching)
         IN  /\ p \in Seq(Matching)
             /\ Len(p) = IF k + 1 <= last THEN last - (k + 1) + 1 ELSE 0
             /\ \A i \in 1 .. last - (k + 1) + 1 : p[i] = order[(k + 1) + i - 1]
<1> DEFINE n == Cardinality(Matching)
           k == (page - 1) * limit
           end == page * limit
           last == IF end < n THEN end ELSE n
           p == Page(order, page, limit)
<1>1. n \in Nat /\ k \in Nat /\ end \in Nat
  BY MatchingFinite
<1>2. order \in [1 .. n -> Matching] /\ order \in Seq(Matching) /\ Len(order) = n
  BY <1>1 DEF Sortings
<1>3. p = SubSeq(order, k + 1, last)
  BY <1>2 DEF Page
<1>4. last \in Nat /\ last <= n /\ k + 1 \in Int /\ last \in Int
  BY <1>1
<1>5. \A i \in (k + 1) .. last : order[i] \in Matching
  <2> HIDE DEF last, k, n
  <2> SUFFICES ASSUME NEW i \in (k + 1) .. last PROVE i \in 1 .. n
    BY <1>2
  <2> QED BY <1>1, <1>4
<1> HIDE DEF n, k, last, p
<1>6. /\ p \in Seq(Matching)
      /\ Len(p) = IF k + 1 <= last THEN last - (k + 1) + 1 ELSE 0
      /\ \A i \in 1 .. last - (k + 1) + 1 : p[i] = order[(k + 1) + i - 1]
  BY <1>3, <1>4, <1>5, SubSeqProperties
<1> QED BY <1>6 DEF n, k, last, p

\* A page has the rows of its places, each once; the rows of later places come later.
LEMMA PageRead ==
  ASSUME RankTypes, NEW list, Ordered(rank, list), NEW order \in Sortings(list),
         NEW page \in Nat \ {0}, NEW limit \in Nat \ {0}
  PROVE  LET p == Page(order, page, limit)
         IN  /\ p \in Seq(Matching)
             /\ \A i \in 1 .. Len(p) : /\ (page - 1) * limit <= Place(rank, list, p[i])
                                       /\ Place(rank, list, p[i]) < page * limit
             /\ \A i, j \in 1 .. Len(p) : p[i] = p[j] => i = j
             /\ \A r \in Matching : (page - 1) * limit <= Place(rank, list, r) =>
                  (\E i \in 1 .. Len(p) : p[i] = r) \/ page * limit <= Place(rank, list, r)
<1> DEFINE n == Cardinality(Matching)
           k == (page - 1) * limit
           end == page * limit
           last == IF end < n THEN end ELSE n
           p == Page(order, page, limit)
<1>1. n \in Nat /\ k \in Nat /\ end \in Nat /\ end = k + limit
  BY MatchingFinite
<1>2. /\ order \in Seq(Matching) /\ Len(order) = n /\ DOMAIN order = 1 .. n
      /\ \A r \in Matching : \E j \in 1 .. n : order[j] = r
      /\ \A j \in 1 .. n : order[j] \in Matching /\ Place(rank, list, order[j]) = j - 1
  BY Places DEF Place
<1>3. /\ p \in Seq(Matching)
      /\ Len(p) = IF k + 1 <= last THEN last - (k + 1) + 1 ELSE 0
      /\ \A i \in 1 .. last - (k + 1) + 1 : p[i] = order[(k + 1) + i - 1]
  BY PageType
<1>4. \A r : Place(rank, list, r) \in Nat
  BY EarlierFinite DEF Place
<1> HIDE DEF n, k, end, p
<1>5. /\ last \in Nat /\ last <= n /\ last <= end
      /\ \A j \in Nat : j <= n /\ j <= end => j <= last
  BY <1>1
<1> HIDE DEF last
<1>8. \A i \in 1 .. Len(p) : i \in Nat /\ k + i \in 1 .. n /\ k + i <= end /\ p[i] = order[k + i]
  BY <1>1, <1>5, <1>3
<1>9. ASSUME NEW i \in 1 .. Len(p)
      PROVE  Place(rank, list, p[i]) = k + i - 1
  <2>1. PICK j \in 1 .. n : j = k + i /\ p[i] = order[j]
    BY <1>8
  <2>2. Place(rank, list, p[i]) = j - 1
    BY <1>2, <2>1
  <2> QED BY <1>1, <1>8, <2>1, <2>2
<1>10. \A i \in 1 .. Len(p) : k <= Place(rank, list, p[i]) /\ Place(rank, list, p[i]) < end
  BY <1>1, <1>8, <1>9
<1>11. \A i, j \in 1 .. Len(p) : p[i] = p[j] => i = j
  BY <1>1, <1>8, <1>9
<1>12. ASSUME NEW r \in Matching, k <= Place(rank, list, r), ~ (end <= Place(rank, list, r))
       PROVE  \E i \in 1 .. Len(p) : p[i] = r
  <2>1. PICK j \in 1 .. n : order[j] = r
    BY <1>2
  <2>2. j \in Nat /\ k + 1 <= j /\ j <= end /\ j <= n
    BY <1>1, <1>2, <1>4, <1>12, <2>1
  <2>3. j <= last
    BY <1>5, <2>2
  <2>4. j - k \in 1 .. Len(p) /\ j - k \in 1 .. last - (k + 1) + 1
    BY <1>1, <1>5, <1>3, <2>2, <2>3
  <2>5. p[j - k] = order[(k + 1) + (j - k) - 1]
    BY <1>3, <2>4
  <2>6. (k + 1) + (j - k) - 1 = j
    BY <1>1, <2>2
  <2> QED BY <2>1, <2>4, <2>5, <2>6
<1>13. /\ p \in Seq(Matching)
       /\ \A i \in 1 .. Len(p) : k <= Place(rank, list, p[i]) /\ Place(rank, list, p[i]) < end
       /\ \A i, j \in 1 .. Len(p) : p[i] = p[j] => i = j
       /\ \A r \in Matching : k <= Place(rank, list, r) =>
            (\E i \in 1 .. Len(p) : p[i] = r) \/ end <= Place(rank, list, r)
  BY <1>3, <1>10, <1>11, <1>12
<1> QED BY <1>13 DEF k, end, p

-----------------------------------------------------------------------------
\* How many places of the list the pages that were read have covered.
Fetched(s) ==
  (IF s.at = "done" \/ (s.at = "count" /\ ~ s.list.first) THEN s.page ELSE s.page - 1) * s.limit

Scans == [list: Lists, limit: Nat, page: Nat, total: Nat,
          at: {"idle", "rows", "count", "done"}, read: Seq(Rows), before: SUBSET Rows]

PageTypes ==
  /\ RankTypes
  /\ moved \in SUBSET {"entered", "left"}
  /\ scan \in Scans
  /\ scan.at # "idle" => scan.limit # 0 /\ scan.page # 0

\* The order of the rows was decided for as long as the list was read.
Decided == OrdersById(scan.list) \/ (moved = {} /\ Ordered(rank, scan.list))

\* As long as rows only leave, every row that was read has one of the places that the
\* pages covered: no later page shows it again.
SeenFirst ==
  scan.at # "idle" /\ moved \subseteq {"left"} /\ Decided =>
    SeenOnce /\ \A r \in SeenRows \cap Matching : Place(rank, scan.list, r) < Fetched(scan)

\* As long as rows only enter, a row that was there and not read has a later place: some
\* page to come shows it.
UnseenLater ==
  scan.at # "idle" /\ moved \subseteq {"entered"} /\ Decided /\ (~ scan.list.first \/ moved = {}) =>
    \A r \in scan.before \ SeenRows :
      r \in Matching /\ scan.at # "done" /\ Fetched(scan) <= Place(rank, scan.list, r)

\* As long as nothing moves the list is what it was, and its total the number of its rows.
Unmoved ==
  scan.at # "idle" /\ moved = {} =>
    /\ scan.before = Matching /\ SeenRows \subseteq Matching
    /\ scan.at = "done" \/ (scan.list.first /\ scan.at = "rows") =>
         scan.total = Cardinality(Matching)

\* The inductive invariant of the reading of a list.
PageInv == PageTypes /\ SeenFirst /\ UnseenLater /\ Unmoved

\* The reader stops when the pages that were read have covered as many places as there
\* are rows.
LEMMA AnswerGiven ==
  ASSUME NEW s \in Scans, s.limit # 0, s.page # 0
  PROVE  LET a == Answered(s)
         IN  /\ a \in Scans /\ a.limit # 0 /\ a.page # 0
             /\ a.at = "done" \/ a.at = (IF s.list.first THEN "count" ELSE "rows")
             /\ a.list = s.list /\ a.limit = s.limit /\ a.total = s.total
             /\ a.read = s.read /\ a.before = s.before
             /\ Fetched(a) = s.page * s.limit
             /\ a.at = "done" => s.total <= s.page * s.limit
<1> DEFINE a == Answered(s)
           more == s.page < Pages(s.total, s.limit)
           t == IF s.list.first THEN "count" ELSE "rows"
<1>1. /\ s.page \in Nat /\ s.limit \in Nat /\ s.total \in Nat /\ s.limit > 0
  BY DEF Scans
<1>2. /\ a \in Scans
      /\ a.list = s.list /\ a.limit = s.limit /\ a.total = s.total
      /\ a.read = s.read /\ a.before = s.before
      /\ a.page = IF more THEN s.page + 1 ELSE s.page
      /\ a.at = IF more THEN t ELSE "done"
  <2>1. a = IF more THEN [s EXCEPT !.page = s.page + 1, !.at = t] ELSE [s EXCEPT !.at = "done"]
    BY DEF Answered
  <2>2. t \in {"rows", "count"}
    OBVIOUS
  <2> HIDE DEF a, more, t
  <2>3. CASE more
    <3>1. a = [s EXCEPT !.page = s.page + 1, !.at = t]
      BY <2>1, <2>3
    <3>2. s.page + 1 \in Nat
      BY <1>1
    <3>3. a \in Scans
      BY <2>2, <3>1, <3>2 DEF Scans
    <3>4. /\ a.list = s.list /\ a.limit = s.limit /\ a.total = s.total
          /\ a.read = s.read /\ a.before = s.before /\ a.page = s.page + 1 /\ a.at = t
      BY <3>1 DEF Scans
    <3> QED BY <2>3, <3>3, <3>4
  <2>4. CASE ~ more
    BY <1>1, <2>1, <2>4 DEF Scans
  <2> QED BY <2>3, <2>4
<1> HIDE DEF a, more
<1>3. Fetched(a) = s.page * s.limit
  <2>1. CASE more
    <3>1. ~ (a.at = "done" \/ (a.at = "count" /\ ~ a.list.first))
      BY <1>2, <2>1
    <3>2. Fetched(a) = (a.page - 1) * a.limit
      BY <3>1 DEF Fetched
    <3>3. a.page - 1 = s.page
      BY <1>1, <1>2, <2>1
    <3> QED BY <1>2, <3>2, <3>3
  <2>2. CASE ~ more
    BY <1>2, <2>2 DEF Fetched
  <2> QED BY <2>1, <2>2
<1>4. a.at = "done" => s.total <= s.page * s.limit
  <2>1. a.at = "done" => ~ more
    BY <1>2
  <2>2. ASSUME NEW p \in Nat, NEW l \in Nat, NEW n \in Nat, l > 0, ~ (p < (n + l - 1) \div l)
        PROVE  n <= p * l
    <3> DEFINE q == (n + l - 1) \div l
    <3>1. n + l - 1 \in Nat
      BY <2>2
    <3>2. q \in Nat /\ n + l - 1 < l * (q + 1)
      BY <2>2, <3>1
    <3> HIDE DEF q
    <3>3. l * (q + 1) = l * q + l
      BY <2>2, <3>2
    <3>4. n <= l * q
      BY <2>2, <3>2, <3>3
    <3>5. q <= p
      BY <2>2, <3>2 DEF q
    <3>6. l * q <= p * l
      BY <2>2, <3>2, <3>5
    <3> QED BY <2>2, <3>2, <3>4, <3>6
  <2> QED BY <1>1, <2>1, <2>2 DEF more, Pages
<1>5. a.page # 0
  BY <1>1, <1>2
<1> QED BY <1>2, <1>3, <1>4, <1>5 DEF a

\* What was read before stays read, and the rows of a page are read as well.
LEMMA SeenMore ==
  ASSUME NEW read \in Seq(Rows), NEW p \in Seq(Rows)
  PROVE  /\ read \o p \in Seq(Rows)
         /\ {(read \o p)[i] : i \in DOMAIN (read \o p)} =
              {read[i] : i \in DOMAIN read} \cup {p[i] : i \in DOMAIN p}
         /\ (\A i, j \in DOMAIN read : read[i] = read[j] => i = j)
              /\ (\A i, j \in DOMAIN p : p[i] = p[j] => i = j)
              /\ (\A i \in DOMAIN read, j \in DOMAIN p : read[i] # p[j]) =>
            \A i, j \in DOMAIN (read \o p) : (read \o p)[i] = (read \o p)[j] => i = j
<1> DEFINE c == read \o p
<1>1. /\ c \in Seq(Rows) /\ Len(c) = Len(read) + Len(p)
      /\ \A i \in 1 .. Len(read) + Len(p) :
           c[i] = IF i <= Len(read) THEN read[i] ELSE p[i - Len(read)]
  BY ConcatProperties
<1>2. /\ Len(read) \in Nat /\ Len(p) \in Nat /\ DOMAIN read = 1 .. Len(read)
      /\ DOMAIN p = 1 .. Len(p) /\ DOMAIN c = 1 .. Len(read) + Len(p)
  BY <1>1, LenProperties
<1> HIDE DEF c
<1>3. \A i \in DOMAIN c : \/ i \in DOMAIN read /\ c[i] = read[i]
                          \/ i - Len(read) \in DOMAIN p /\ i > Len(read) /\ c[i] = p[i - Len(read)]
  <2> SUFFICES ASSUME NEW i \in DOMAIN c
               PROVE  \/ i \in DOMAIN read /\ c[i] = read[i]
                      \/ i - Len(read) \in DOMAIN p /\ i > Len(read) /\ c[i] = p[i - Len(read)]
    OBVIOUS
  <2>1. CASE i <= Len(read)
    BY <1>1, <1>2, <2>1
  <2>2. CASE ~ (i <= Len(read))
    <3>1. i - Len(read) \in DOMAIN p /\ i > Len(read)
      BY <1>2, <2>2
    <3>2. c[i] = p[i - Len(read)]
      BY <1>1, <1>2, <2>2
    <3> QED BY <3>1, <3>2
  <2> QED BY <2>1, <2>2
<1>4. \A i \in DOMAIN read : i \in DOMAIN c /\ c[i] = read[i]
  BY <1>1, <1>2
<1>5. \A i \in DOMAIN p : Len(read) + i \in DOMAIN c /\ c[Len(read) + i] = p[i]
  <2> SUFFICES ASSUME NEW i \in DOMAIN p
               PROVE  Len(read) + i \in DOMAIN c /\ c[Len(read) + i] = p[i]
    OBVIOUS
  <2>1. Len(read) + i \in 1 .. Len(read) + Len(p) /\ ~ (Len(read) + i <= Len(read))
        /\ (Len(read) + i) - Len(read) = i
    BY <1>2
  <2>2. c[Len(read) + i] = p[(Len(read) + i) - Len(read)]
    BY <1>1, <2>1
  <2> QED BY <1>2, <2>1, <2>2
<1>6. {c[i] : i \in DOMAIN c} = {read[i] : i \in DOMAIN read} \cup {p[i] : i \in DOMAIN p}
  <2>1. ASSUME NEW x \in {c[i] : i \in DOMAIN c}
        PROVE  x \in {read[i] : i \in DOMAIN read} \cup {p[i] : i \in DOMAIN p}
    BY <1>3
  <2>2. ASSUME NEW x \in {read[i] : i \in DOMAIN read}
        PROVE  x \in {c[i] : i \in DOMAIN c}
    BY <1>4
  <2>3. ASSUME NEW x \in {p[i] : i \in DOMAIN p}
        PROVE  x \in {c[i] : i \in DOMAIN c}
    <3>1. PICK i \in DOMAIN p : x = p[i]
      OBVIOUS
    <3>2. PICK j \in DOMAIN c : c[j] = p[i]
      BY <1>5
    <3> QED BY <3>1, <3>2
  <2> QED BY <2>1, <2>2, <2>3
<1>7. ASSUME \A i, j \in DOMAIN read : read[i] = read[j] => i = j,
             \A i, j \in DOMAIN p : p[i] = p[j] => i = j,
             \A i \in DOMAIN read, j \in DOMAIN p : read[i] # p[j],
             NEW i \in DOMAIN c, NEW j \in DOMAIN c, c[i] = c[j]
      PROVE  i = j
  <2>1. i \in Int /\ j \in Int /\ Len(read) \in Int
    BY <1>2
  <2>2. CASE i \in DOMAIN read /\ c[i] = read[i]
    BY <1>3, <1>7, <2>2
  <2>3. CASE i - Len(read) \in DOMAIN p /\ i > Len(read) /\ c[i] = p[i - Len(read)]
    <3>1. j - Len(read) \in DOMAIN p /\ j > Len(read) /\ c[j] = p[j - Len(read)]
      BY <1>3, <1>7, <2>3
    <3>2. i - Len(read) = j - Len(read)
      BY <1>7, <2>3, <3>1
    <3> QED BY <2>1, <3>2
  <2> QED BY <1>3, <2>2, <2>3
<1> QED BY <1>1, <1>6, <1>7 DEF c

\* A row comes before no more rows than there are others.
LEMMA PlaceBelow ==
  ASSUME RankTypes, NEW list, NEW r \in Matching
  PROVE  Place(rank, list, r) \in Nat /\ Place(rank, list, r) < Cardinality(Matching)
<1>1. rank[r] \in Nat /\ r \in Nat
  BY PageAssumption DEF RankTypes, Matching, Out
<1>2. ~ (rank[r] < rank[r]) /\ ~ (r < r)
  BY <1>1
<1>3. r \notin Earlier(rank, list, r)
  BY <1>2 DEF Earlier
<1>4. Earlier(rank, list, r) \in SUBSET Matching /\ Earlier(rank, list, r) # Matching
  BY <1>3, EarlierRows
<1>5. /\ Cardinality(Earlier(rank, list, r)) \in Nat /\ Cardinality(Matching) \in Nat
      /\ Cardinality(Earlier(rank, list, r)) <= Cardinality(Matching)
      /\ Cardinality(Earlier(rank, list, r)) # Cardinality(Matching)
  BY <1>4, MatchingFinite, EarlierFinite, FS_Subset
<1> QED BY <1>5 DEF Place

\* Opening a list starts with nothing read.
LEMMA OpenKeeps ==
  ASSUME PageInv, NEW list \in Lists, NEW limit \in PageSizes, OpenList(list, limit)
  PROVE  PageInv'
<1> DEFINE t == IF list.first THEN "count" ELSE "rows"
<1>1. /\ scan' = [NoScan EXCEPT !.list = list, !.limit = limit, !.page = 1, !.at = t,
                                !.before = Matching]
      /\ moved' = {} /\ rank' = rank
  BY DEF OpenList
<1>2. t \in {"count", "rows"} /\ (t = "count" => list.first) /\ (t = "rows" => ~ list.first)
  OBVIOUS
<1>3. limit \in Nat /\ limit # 0 /\ Matching \in SUBSET Rows
  BY PageAssumption DEF Matching
<1> HIDE DEF t
<1>4. scan' = [list |-> list, limit |-> limit, page |-> 1, total |-> 0, at |-> t,
               read |-> <<>>, before |-> Matching]
  BY <1>1 DEF NoScan
<1>5. scan' \in Scans /\ scan'.limit # 0 /\ scan'.page # 0
  BY <1>2, <1>3, <1>4 DEF Scans
<1>6. Fetched(scan') = 0
  <2>1. Fetched(scan') = (1 - 1) * limit
    BY <1>2, <1>4 DEF Fetched
  <2> QED BY <1>3, <2>1
<1>7. SeenRows' = {} /\ SeenOnce'
  <2>1. DOMAIN scan'.read = {}
    BY <1>4
  <2> QED BY <2>1 DEF SeenRows, SeenOnce
<1>8. Matching' = Matching
  BY <1>1 DEF Matching
<1>12. PageTypes'
  BY <1>1, <1>5 DEF PageInv, PageTypes, RankTypes
<1>9. SeenFirst'
  BY <1>7 DEF SeenFirst
<1>10. UnseenLater'
  <2>1. \A r : Place(rank, list, r) \in Nat
    BY EarlierFinite DEF Place
  <2>2. \A r : Fetched(scan') <= Place(rank, list, r)
    BY <1>6, <2>1
  <2>3. \A r \in scan'.before :
           r \in Matching' /\ scan'.at # "done" /\ Fetched(scan') <= Place(rank', scan'.list, r)
    BY <1>1, <1>2, <1>4, <1>8, <2>2
  <2> QED BY <2>3 DEF UnseenLater
<1>11. Unmoved'
  BY <1>1, <1>2, <1>4, <1>7, <1>8 DEF Unmoved
<1> QED BY <1>9, <1>10, <1>11, <1>12 DEF PageInv

\* An answer that has all places of the list has all rows of it.
LEMMA AllPlaces ==
  ASSUME RankTypes, NEW list, NEW k \in Nat, Cardinality(Matching) <= k
  PROVE  \A r \in Matching : ~ (k <= Place(rank, list, r))
<1> SUFFICES ASSUME NEW r \in Matching PROVE ~ (k <= Place(rank, list, r))
  OBVIOUS
<1>1. Place(rank, list, r) \in Nat /\ Place(rank, list, r) < Cardinality(Matching)
  BY PlaceBelow
<1> QED BY <1>1, MatchingFinite

\* The rows of a page are read.
LEMMA ReadRowsKeeps ==
  ASSUME PageInv, ReadRows
  PROVE  PageInv'
<1> DEFINE list == scan.list
           k == (scan.page - 1) * scan.limit
           end == scan.page * scan.limit
<1>1. PICK order \in Sortings(list) :
        LET s == [scan EXCEPT !.read = @ \o Page(order, scan.page, scan.limit)]
        IN  scan' = IF s.list.first THEN Answered(s) ELSE [s EXCEPT !.at = "count"]
  BY DEF ReadRows
<1> DEFINE p == Page(order, scan.page, scan.limit)
           s == [scan EXCEPT !.read = @ \o p]
           fromRows == {p[i] : i \in 1 .. Len(p)}
<1>2. /\ scan' = IF s.list.first THEN Answered(s) ELSE [s EXCEPT !.at = "count"]
      /\ scan.at = "rows" /\ rank' = rank /\ moved' = moved
  BY <1>1 DEF ReadRows
<1>3. /\ RankTypes /\ scan \in Scans /\ scan.limit \in Nat \ {0} /\ scan.page \in Nat \ {0}
      /\ scan.read \in Seq(Rows) /\ moved \in SUBSET {"entered", "left"}
  BY <1>2 DEF PageInv, PageTypes, Scans
<1>4. p \in Seq(Matching) /\ p \in Seq(Rows)
  <2>1. p \in Seq(Matching)
    BY <1>3, PageType
  <2>2. Matching \subseteq Rows
    BY DEF Matching
  <2> QED BY <2>1, <2>2, SeqMonotonic
<1>5. DOMAIN p = 1 .. Len(p) /\ Len(p) \in Nat /\ fromRows \subseteq Matching
  BY <1>4, LenProperties, ElementOfSeq
<1> HIDE DEF p
<1>6. /\ s \in Scans /\ s.limit # 0 /\ s.page # 0 /\ s.at = "rows"
      /\ s.list = list /\ s.limit = scan.limit /\ s.page = scan.page /\ s.total = scan.total
      /\ s.read = scan.read \o p /\ s.before = scan.before
  <2>1. scan.read \o p \in Seq(Rows)
    BY <1>3, <1>4, SeenMore
  <2> QED BY <1>2, <1>3, <2>1 DEF Scans
<1> HIDE DEF s
<1>7. /\ scan' \in Scans /\ scan'.limit # 0 /\ scan'.page # 0
      /\ scan'.at = "count" \/ (scan'.at = "done" /\ list.first)
      /\ scan'.list = list /\ scan'.total = scan.total
      /\ scan'.read = scan.read \o p /\ scan'.before = scan.before
      /\ Fetched(scan') = end
      /\ scan'.at = "done" => scan.total <= end
  <2>1. CASE s.list.first
    <3>1. scan' = Answered(s)
      BY <1>2, <2>1
    <3> QED BY <1>6, <2>1, <3>1, AnswerGiven
  <2>2. CASE ~ s.list.first
    <3> DEFINE u == [s EXCEPT !.at = "count"]
    <3>1. scan' = u
      BY <1>2, <2>2
    <3>2. /\ u \in Scans /\ u.at = "count" /\ u.list = s.list /\ u.limit = s.limit
          /\ u.page = s.page /\ u.total = s.total /\ u.read = s.read /\ u.before = s.before
      BY <1>6 DEF Scans
    <3> HIDE DEF u
    <3>3. Fetched(u) = end
      BY <1>6, <2>2, <3>2 DEF Fetched
    <3> QED BY <1>6, <3>1, <3>2, <3>3
  <2> QED BY <2>1, <2>2
<1>8. Fetched(scan) = k
  BY <1>2 DEF Fetched
<1>9. Matching' = Matching /\ (Decided' <=> Decided)
  BY <1>2, <1>7 DEF Matching, Decided
<1>10. SeenRows' = SeenRows \cup fromRows
  <2>1. {(scan.read \o p)[i] : i \in DOMAIN (scan.read \o p)} =
          {scan.read[i] : i \in DOMAIN scan.read} \cup {p[i] : i \in DOMAIN p}
    BY <1>3, <1>4, SeenMore
  <2> QED BY <1>5, <1>7, <2>1 DEF SeenRows
<1>11. Decided =>
         /\ \A r \in fromRows : k <= Place(rank, list, r) /\ Place(rank, list, r) < end
         /\ \A i, j \in 1 .. Len(p) : p[i] = p[j] => i = j
         /\ \A r \in Matching : k <= Place(rank, list, r) => r \in fromRows \/ end <= Place(rank, list, r)
  <2> SUFFICES ASSUME Decided
               PROVE  /\ \A r \in fromRows : k <= Place(rank, list, r) /\ Place(rank, list, r) < end
                      /\ \A i, j \in 1 .. Len(p) : p[i] = p[j] => i = j
                      /\ \A r \in Matching : k <= Place(rank, list, r) =>
                           r \in fromRows \/ end <= Place(rank, list, r)
    OBVIOUS
  <2>1. Ordered(rank, list)
    BY DEF Decided, Ordered
  <2>2. /\ \A i \in 1 .. Len(p) : k <= Place(rank, list, p[i]) /\ Place(rank, list, p[i]) < end
        /\ \A i, j \in 1 .. Len(p) : p[i] = p[j] => i = j
        /\ \A r \in Matching : k <= Place(rank, list, r) =>
             (\E i \in 1 .. Len(p) : p[i] = r) \/ end <= Place(rank, list, r)
    BY <1>3, <2>1, PageRead DEF p
  <2> QED BY <2>2
<1>12. k \in Nat /\ end \in Nat /\ k <= end /\ \A r : Place(rank, list, r) \in Nat
  <2>1. \A r : Place(rank, list, r) \in Nat
    BY EarlierFinite DEF Place
  <2>2. \A a, b \in Nat \ {0} : (a - 1) * b \in Nat /\ a * b \in Nat /\ (a - 1) * b <= a * b
    <3> SUFFICES ASSUME NEW a \in Nat \ {0}, NEW b \in Nat \ {0}
                 PROVE  (a - 1) * b \in Nat /\ a * b \in Nat /\ (a - 1) * b <= a * b
      OBVIOUS
    <3>1. (a - 1) * b = a * b - b /\ a * b \in Nat /\ (a - 1) * b \in Nat
      OBVIOUS
    <3> QED BY <3>1
  <2> QED BY <1>3, <2>1, <2>2
<1> HIDE DEF k, end, fromRows, list
<1>13. SeenFirst'
  <2> SUFFICES ASSUME moved \subseteq {"left"}, Decided
               PROVE  /\ SeenOnce'
                      /\ \A r \in SeenRows' \cap Matching' :
                           Place(rank', scan'.list, r) < Fetched(scan')
    BY <1>2, <1>9 DEF SeenFirst
  <2>1. SeenOnce /\ \A r \in SeenRows \cap Matching : Place(rank, list, r) < k
    BY <1>2, <1>8 DEF PageInv, SeenFirst, list
  <2>2. \A r \in SeenRows \cap Matching : Place(rank, list, r) < end
    BY <1>12, <2>1
  <2>3. \A r \in SeenRows' \cap Matching' : Place(rank', scan'.list, r) < Fetched(scan')
    BY <1>2, <1>7, <1>9, <1>10, <1>11, <2>2
  <2>4. \A r \in fromRows : r \notin SeenRows
    BY <1>5, <1>11, <1>12, <2>1
  <2>5. \A i \in DOMAIN scan.read, j \in DOMAIN p : scan.read[i] # p[j]
    BY <1>5, <2>4 DEF SeenRows, fromRows
  <2>6. SeenOnce'
    <3>1. /\ \A i, j \in DOMAIN scan.read : scan.read[i] = scan.read[j] => i = j
          /\ \A i, j \in DOMAIN p : p[i] = p[j] => i = j
      BY <1>5, <1>11, <2>1 DEF SeenOnce
    <3>2. \A i, j \in DOMAIN (scan.read \o p) :
            (scan.read \o p)[i] = (scan.read \o p)[j] => i = j
      BY <1>3, <1>4, <2>5, <3>1, SeenMore
    <3> QED BY <1>7, <3>2 DEF SeenOnce
  <2> QED BY <2>3, <2>6
<1>14. UnseenLater'
  <2> SUFFICES ASSUME moved \subseteq {"entered"}, Decided, ~ list.first \/ moved = {},
                      NEW r \in scan.before, r \notin SeenRows, r \notin fromRows
               PROVE  r \in Matching /\ scan'.at # "done" /\ end <= Place(rank, list, r)
    BY <1>2, <1>7, <1>9, <1>10 DEF UnseenLater
  <2>1. r \in Matching /\ k <= Place(rank, list, r)
    BY <1>2, <1>8 DEF PageInv, UnseenLater, list
  <2>2. end <= Place(rank, list, r)
    BY <1>11, <2>1
  <2>3. scan'.at # "done"
    <3> SUFFICES ASSUME scan'.at = "done" PROVE FALSE
      OBVIOUS
    <3>1. list.first /\ moved = {} /\ scan.total <= end
      BY <1>7
    <3>2. scan.total = Cardinality(Matching)
      BY <1>2, <3>1 DEF PageInv, Unmoved, list
    <3> QED BY <1>3, <1>12, <2>1, <2>2, <3>1, <3>2, AllPlaces
  <2> QED BY <2>1, <2>2, <2>3
<1>15. Unmoved'
  <2> SUFFICES ASSUME moved = {}
               PROVE  /\ scan'.before = Matching' /\ SeenRows' \subseteq Matching'
                      /\ scan'.at = "done" \/ (scan'.list.first /\ scan'.at = "rows") =>
                           scan'.total = Cardinality(Matching')
    BY <1>2 DEF Unmoved
  <2>1. scan.before = Matching /\ SeenRows \subseteq Matching
        /\ (list.first => scan.total = Cardinality(Matching))
    BY <1>2 DEF PageInv, Unmoved, list
  <2> QED BY <1>5, <1>7, <1>9, <1>10, <2>1
<1>16. PageTypes'
  BY <1>2, <1>3, <1>7 DEF PageTypes, RankTypes
<1> QED BY <1>13, <1>14, <1>15, <1>16 DEF PageInv

\* The total is the number of the rows there are.
LEMMA CountKeeps ==
  ASSUME PageInv, CountRows
  PROVE  PageInv'
<1> DEFINE list == scan.list
           n == Cardinality(Matching)
           s == [scan EXCEPT !.total = n]
<1>1. /\ scan' = IF s.list.first THEN [s EXCEPT !.at = "rows"] ELSE Answered(s)
      /\ scan.at = "count" /\ rank' = rank /\ moved' = moved
  BY DEF CountRows
<1>2. RankTypes /\ scan \in Scans /\ scan.limit # 0 /\ scan.page # 0 /\ n \in Nat
      /\ moved \in SUBSET {"entered", "left"}
  BY <1>1, MatchingFinite DEF PageInv, PageTypes
<1>3. /\ s \in Scans /\ s.at = "count" /\ s.list = list /\ s.limit = scan.limit
      /\ s.page = scan.page /\ s.total = n /\ s.read = scan.read /\ s.before = scan.before
  BY <1>1, <1>2 DEF Scans
<1> HIDE DEF s
<1>4. /\ scan' \in Scans /\ scan'.limit # 0 /\ scan'.page # 0
      /\ scan'.list = list /\ scan'.total = n
      /\ scan'.read = scan.read /\ scan'.before = scan.before
      /\ scan'.at # "idle" /\ Fetched(scan') = Fetched(scan)
      /\ scan'.at = "done" => n <= Fetched(scan)
  <2>1. CASE ~ s.list.first
    <3>1. scan' = Answered(s)
      BY <1>1, <2>1
    <3>2. Fetched(scan) = s.page * s.limit
      BY <1>1, <1>3, <2>1 DEF Fetched
    <3> QED BY <1>2, <1>3, <2>1, <3>1, <3>2, AnswerGiven
  <2>2. CASE s.list.first
    <3> DEFINE u == [s EXCEPT !.at = "rows"]
    <3>1. scan' = u
      BY <1>1, <2>2
    <3>2. /\ u \in Scans /\ u.at = "rows" /\ u.list = s.list /\ u.limit = s.limit
          /\ u.page = s.page /\ u.total = s.total /\ u.read = s.read /\ u.before = s.before
      BY <1>3 DEF Scans
    <3> HIDE DEF u
    <3>3. Fetched(u) = (s.page - 1) * s.limit
      BY <3>2 DEF Fetched
    <3>4. Fetched(scan) = (s.page - 1) * s.limit
      BY <1>1, <1>3, <2>2 DEF Fetched
    <3> QED BY <1>2, <1>3, <3>1, <3>2, <3>3, <3>4
  <2> QED BY <2>1, <2>2
<1>5. /\ Matching' = Matching /\ SeenRows' = SeenRows /\ (SeenOnce' <=> SeenOnce)
      /\ (Decided' <=> Decided)
  BY <1>1, <1>4 DEF Matching, SeenRows, SeenOnce, Decided
<1>6. Fetched(scan) \in Nat
  <2>1. scan.page \in Nat \ {0} /\ scan.limit \in Nat
    BY <1>2 DEF Scans
  <2>2. \A a \in Nat \ {0}, b \in Nat : (a - 1) * b \in Nat /\ a * b \in Nat
    OBVIOUS
  <2> QED BY <2>1, <2>2 DEF Fetched
<1> HIDE DEF n
<1>7. SeenFirst'
  BY <1>1, <1>4, <1>5 DEF PageInv, SeenFirst
<1>8. UnseenLater'
  <2> SUFFICES ASSUME moved \subseteq {"entered"}, Decided, ~ list.first \/ moved = {},
                      NEW r \in scan.before, r \notin SeenRows
               PROVE  /\ r \in Matching /\ scan'.at # "done"
                      /\ Fetched(scan) <= Place(rank, list, r)
    BY <1>1, <1>4, <1>5 DEF UnseenLater
  <2>1. r \in Matching /\ Fetched(scan) <= Place(rank, list, r)
    BY <1>1 DEF PageInv, UnseenLater
  <2>2. scan'.at # "done"
    BY <1>2, <1>4, <1>6, <2>1, AllPlaces DEF n
  <2> QED BY <2>1, <2>2
<1>9. Unmoved'
  BY <1>1, <1>4, <1>5 DEF PageInv, Unmoved, n
<1>10. PageTypes'
  BY <1>1, <1>2, <1>4 DEF PageTypes, RankTypes
<1> QED BY <1>7, <1>8, <1>9, <1>10 DEF PageInv

\* A row that enters comes before others: their places do not become earlier.
LEMMA EnterKeeps ==
  ASSUME PageInv, NEW r \in Rows, NEW k \in Ranks, Enter(r, k)
  PROVE  PageInv'
<1>1. /\ rank[r] = Out /\ rank' = [rank EXCEPT ![r] = k] /\ scan' = scan
      /\ moved' = IF scan.at = "idle" THEN moved ELSE moved \cup {"entered"}
      /\ rank \in [Rows -> Ranks \cup {Out}]
  BY DEF Enter, PageInv, PageTypes, RankTypes
<1>2. PageTypes'
  BY <1>1 DEF PageInv, PageTypes, RankTypes
<1>3. CASE scan.at = "idle"
  BY <1>1, <1>2, <1>3 DEF PageInv, SeenFirst, UnseenLater, Unmoved
<1>4. CASE scan.at # "idle"
  <2>1. "entered" \in moved'
    BY <1>1, <1>4
  <2>2. SeenFirst' /\ Unmoved'
    BY <1>1, <2>1 DEF SeenFirst, Unmoved
  <2>3. UnseenLater'
    <3> SUFFICES ASSUME moved' \subseteq {"entered"}, OrdersById(scan.list), ~ scan.list.first,
                        NEW s \in scan.before, s \notin SeenRows
                 PROVE  /\ s \in Matching' /\ scan.at # "done"
                        /\ Fetched(scan) <= Place(rank', scan.list, s)
      BY <1>1, <2>1 DEF UnseenLater, Decided, SeenRows
    <3>1. s \in Matching /\ scan.at # "done" /\ Fetched(scan) <= Place(rank, scan.list, s)
      BY <1>1, <1>4 DEF PageInv, UnseenLater, Decided
    <3>2. s # r /\ s \in Matching'
      BY <1>1, <3>1 DEF Matching
    <3>3. Earlier(rank, scan.list, s) \subseteq Earlier(rank', scan.list, s)
      BY <1>1, <3>2 DEF Earlier
    <3>4. Earlier(rank', scan.list, s) \in SUBSET Rows
      BY DEF Earlier
    <3>5. /\ Place(rank, scan.list, s) <= Place(rank', scan.list, s)
          /\ Place(rank, scan.list, s) \in Nat /\ Place(rank', scan.list, s) \in Nat
      <4>1. IsFiniteSet(Earlier(rank', scan.list, s))
        BY <3>4, PageAssumption, FS_Subset
      <4> QED BY <3>3, <4>1, EarlierFinite, FS_Subset, FS_CardinalityType DEF Place
    <3>6. Fetched(scan) \in Int
      <4>1. scan.page \in Int /\ scan.limit \in Int
        BY DEF PageInv, PageTypes, Scans
      <4>2. \A a, b \in Int : (a - 1) * b \in Int /\ a * b \in Int
        OBVIOUS
      <4> QED BY <4>1, <4>2 DEF Fetched
    <3> QED BY <3>1, <3>2, <3>5, <3>6
  <2> QED BY <1>2, <2>2, <2>3 DEF PageInv
<1> QED BY <1>3, <1>4

\* When a row leaves no other gets a later place.
LEMMA LeaveKeeps ==
  ASSUME PageInv, NEW r \in Rows, Leave(r)
  PROVE  PageInv'
<1>1. /\ rank' = [rank EXCEPT ![r] = Out] /\ scan' = scan
      /\ moved' = IF scan.at = "idle" THEN moved ELSE moved \cup {"left"}
      /\ rank \in [Rows -> Ranks \cup {Out}]
  BY DEF Leave, PageInv, PageTypes, RankTypes
<1>2. PageTypes'
  BY <1>1 DEF PageInv, PageTypes, RankTypes
<1>3. CASE scan.at = "idle"
  BY <1>1, <1>2, <1>3 DEF PageInv, SeenFirst, UnseenLater, Unmoved
<1>4. CASE scan.at # "idle"
  <2>1. "left" \in moved'
    BY <1>1, <1>4
  <2>2. UnseenLater' /\ Unmoved'
    BY <1>1, <2>1 DEF UnseenLater, Unmoved
  <2>3. SeenFirst'
    <3> SUFFICES ASSUME moved' \subseteq {"left"}, OrdersById(scan.list)
                 PROVE  /\ SeenOnce
                        /\ \A s \in SeenRows \cap Matching' :
                             Place(rank', scan.list, s) < Fetched(scan)
      BY <1>1, <2>1 DEF SeenFirst, Decided, SeenOnce, SeenRows
    <3>1. /\ SeenOnce
          /\ \A s \in SeenRows \cap Matching : Place(rank, scan.list, s) < Fetched(scan)
      BY <1>1, <1>4 DEF PageInv, SeenFirst, Decided
    <3>2. ASSUME NEW s \in SeenRows \cap Matching'
          PROVE  Place(rank', scan.list, s) < Fetched(scan)
      <4>1. s \in SeenRows \cap Matching /\ s # r
        BY <1>1 DEF Matching
      <4>2. Earlier(rank', scan.list, s) \subseteq Earlier(rank, scan.list, s)
        BY <1>1, <4>1 DEF Earlier
      <4>3. /\ Place(rank', scan.list, s) <= Place(rank, scan.list, s)
            /\ Place(rank, scan.list, s) \in Nat /\ Place(rank', scan.list, s) \in Nat
        BY <4>2, EarlierFinite, FS_Subset, FS_CardinalityType DEF Place
      <4>4. Fetched(scan) \in Int
        <5>1. scan.page \in Int /\ scan.limit \in Int
          BY DEF PageInv, PageTypes, Scans
        <5>2. \A a, b \in Int : (a - 1) * b \in Int /\ a * b \in Int
          OBVIOUS
        <5> QED BY <5>1, <5>2 DEF Fetched
      <4> QED BY <3>1, <4>1, <4>3, <4>4
    <3> QED BY <3>1, <3>2
  <2> QED BY <1>2, <2>2, <2>3 DEF PageInv
<1> QED BY <1>3, <1>4

\* An idle reader reads nothing.
LEMMA NoScanTypes == NoScan \in Scans /\ NoScan.at = "idle"
<1>1. MediaLibrary \in Lists
  BY DEF Lists
<1> QED BY <1>1 DEF NoScan, Scans

\* Every step keeps the invariant.
LEMMA PageStep == PageInv /\ [PageNext]_pageVars => PageInv'
<1> SUFFICES ASSUME PageInv, [PageNext]_pageVars PROVE PageInv'
  OBVIOUS
<1>1. CASE CloseList
  <2>1. scan' = NoScan /\ moved' = {} /\ rank' = rank
    BY <1>1 DEF CloseList
  <2> QED BY <2>1, NoScanTypes
          DEF PageInv, PageTypes, RankTypes, SeenFirst, UnseenLater, Unmoved
<1>2. CASE UNCHANGED pageVars
  BY <1>2 DEF pageVars, PageInv, PageTypes, RankTypes, SeenFirst, UnseenLater, Unmoved,
              Decided, SeenRows, SeenOnce, Matching
<1> QED BY <1>1, <1>2, OpenKeeps, ReadRowsKeeps, CountKeeps, EnterKeeps, LeaveKeeps DEF PageNext

\* It holds in every state of the reading of a list.
LEMMA PageInvariance == PageSpec => []PageInv
<1>1. PageInit => PageInv
  BY NoScanTypes
     DEF PageInit, PageInv, PageTypes, RankTypes, SeenFirst, UnseenLater, Unmoved
<1> QED BY <1>1, PageStep, PTL DEF PageSpec

\* Reading a list to its end shows every row once while nothing moves, and its total; no
\* row twice while rows leave; every row that was there while rows enter: for lists, pages
\* and sort values of any number, in every order that Postgres may choose.
THEOREM PagesCoverTheList == PageSpec => []PagesCover
<1>1. PageInv => PagesCover
  <2> SUFFICES ASSUME PageInv, scan.at = "done"
               PROVE  PagesCover
    BY DEF PagesCover
  <2> DEFINE distinct == \A r, s \in Matching : rank[r] = rank[s] => r = s
  <2>1. distinct => Ordered(rank, scan.list)
    BY DEF Ordered, Matching
  <2>2. ASSUME moved = {}, OrdersById(scan.list) \/ distinct
        PROVE  SeenOnce /\ SeenRows = Matching /\ scan.total = Len(scan.read)
    <3>1. Decided
      BY <2>1, <2>2 DEF Decided, Ordered
    <3>2. SeenOnce /\ SeenRows = Matching /\ scan.total = Cardinality(Matching)
      BY <2>2, <3>1 DEF PageInv, SeenFirst, UnseenLater, Unmoved
    <3>3. /\ scan.read \in Seq(Rows) /\ Len(scan.read) \in Nat
          /\ scan.read \in [1 .. Len(scan.read) -> Rows]
          /\ DOMAIN scan.read = 1 .. Len(scan.read)
      BY LenProperties DEF PageInv, PageTypes, Scans
    <3>4. scan.read \in Bijection(1 .. Len(scan.read), SeenRows)
      <4>1. scan.read \in [1 .. Len(scan.read) -> SeenRows]
        BY <3>3 DEF SeenRows
      <4> QED BY <3>2, <3>3, <4>1 DEF SeenRows, SeenOnce, Bijection, Injection, Surjection,
                                      IsInjective
    <3>5. Cardinality(SeenRows) = Len(scan.read)
      BY <3>3, <3>4, FS_CountingElements DEF ExistsBijection
    <3> QED BY <3>2, <3>5
  <2>3. moved = {"left"} /\ OrdersById(scan.list) => SeenOnce
    BY DEF PageInv, SeenFirst, Decided
  <2>4. moved = {"entered"} /\ OrdersById(scan.list) /\ ~ scan.list.first =>
          scan.before \subseteq SeenRows
    BY DEF PageInv, UnseenLater, Decided
  <2> QED BY <2>2, <2>3, <2>4 DEF PagesCover
<1> QED BY <1>1, PageInvariance, PTL

=============================================================================
