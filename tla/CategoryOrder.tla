--------------------------- MODULE CategoryOrder ---------------------------
(***************************************************************************)
(* The categories of the shop, their display rank and their subcategories. *)
(* Requests that change ranks take an advisory lock and run one after      *)
(* another.  An update that names no rank takes none: it reads the row     *)
(* with its rank and saves it later, and what was changed meanwhile is     *)
(* overwritten.  Two such updates that both change the subcategories of    *)
(* one category at the same moment are left out: the subcategories are     *)
(* compared with the rows when the category is saved.                      *)
(***************************************************************************)
EXTENDS Naturals

CONSTANTS
  Categories,  \* the ids categories can have
  Slugs,       \* slugs of subcategories
  Garments,    \* products that refer to a subcategory
  Editors,     \* connections of administrators
  MaxSubs,     \* bound: requests that insert subcategories
  MaxRank      \* bound: the largest rank

VARIABLES
  priority,    \* priority[c]: the rank of category c, 0 when c has no row
  subs,        \* subs[c][s]: id of subcategory s of c, 0 when it has no row
  lastSub,     \* the id given last
  shelf,       \* shelf[g]: the category and subcategory of product g
  edit,        \* edit[e]: the row an update without a rank read
  strayed      \* history: such an update wrote an old rank back

categoryVars == <<priority, subs, lastSub, shelf, edit, strayed>>

ASSUME CategoryAssumption == MaxSubs \in Nat /\ MaxRank \in Nat

-----------------------------------------------------------------------------
Listed == {c \in Categories : priority[c] # 0}

NoSubs == [s \in Slugs |-> 0]
OffShelf == [category |-> "none", slug |-> "none", id |-> 0]
NoEdit == [category |-> "none", priority |-> 0, subs |-> NoSubs]

\* maxPriority: the largest rank, 0 when there is no category
IsMax(max) == \A c \in Categories : priority[c] <= max

RanksTaken == {0} \cup {priority[c] : c \in Categories}

\* A product refers to subcategory s of c (FK_products_subcategory).
InUse(c, s) == \E g \in Garments : shelf[g].category = c /\ shelf[g].slug = s

\* Mutant of Reconciled: all subcategories are deleted and inserted again.
Recreated(old, wanted) == [s \in Slugs |-> IF s \in wanted THEN lastSub + 1 ELSE 0]

\* reconcileSubCategories: a slug that stays keeps its row, a new one gets the next id.
Reconciled(old, wanted) ==
  [s \in Slugs |-> IF s \notin wanted THEN 0
                   ELSE IF old[s] # 0 THEN old[s] ELSE lastSub + 1]

\* The list of an update replaces the subcategories; those it drops are in use by
\* no product, or the update fails.
SetSubs(c, wanted) ==
  /\ \A s \in Slugs \ wanted : ~InUse(c, s)
  /\ subs' = [subs EXCEPT ![c] = Reconciled(subs[c], wanted)]
  /\ \/ (\A s \in wanted : subs[c][s] # 0) /\ UNCHANGED lastSub
     \/ (\E s \in wanted : subs[c][s] = 0) /\ lastSub < MaxSubs /\ lastSub' = lastSub + 1

-----------------------------------------------------------------------------
\* create: a new category comes last.
CreateCategory(c, wanted) ==
  /\ c \notin Listed
  /\ \E max \in RanksTaken :
       /\ IsMax(max) /\ max < MaxRank
       /\ priority' = [priority EXCEPT ![c] = max + 1]
  /\ SetSubs(c, wanted)
  /\ UNCHANGED <<shelf, edit, strayed>>

\* Mutant of Moved: the rows between are moved the wrong way.
MovedApart(d, c, target) ==
  CASE d = c -> target
    [] d # c /\ target <= priority[d] /\ priority[d] < priority[c] -> priority[d] - 1
    [] d # c /\ priority[c] < priority[d] /\ priority[d] <= target -> priority[d] + 1
    [] OTHER -> priority[d]

\* moveToPriority: the rows between the old and the new rank make room.
Moved(d, c, target) ==
  CASE d = c -> target
    [] d # c /\ target <= priority[d] /\ priority[d] < priority[c] -> priority[d] + 1
    [] d # c /\ priority[c] < priority[d] /\ priority[d] <= target -> priority[d] - 1
    [] OTHER -> priority[d]

\* update with a rank; the subcategories are changed too when it lists them.
MoveTo(c, target) ==
  /\ c \in Listed
  /\ \E max \in RanksTaken : IsMax(max) /\ target \in 1 .. max
  /\ priority' = [d \in Categories |-> IF priority[d] = 0 THEN 0 ELSE Moved(d, c, target)]
  /\ \/ UNCHANGED <<subs, lastSub>>
     \/ \E wanted \in SUBSET Slugs : SetSubs(c, wanted)
  /\ UNCHANGED <<shelf, edit, strayed>>

\* reorder: all categories once, in their new order.
Reorder(order) ==
  /\ order \in [Categories -> Nat]
  /\ \A c \in Categories : order[c] = 0 <=> c \notin Listed
  /\ \A c, d \in Listed : order[c] = order[d] => c = d
  /\ \A c \in Listed : \A rank \in 1 .. order[c] : \E d \in Listed : order[d] = rank
  /\ priority' = order
  /\ strayed' = FALSE
  /\ UNCHANGED <<subs, lastSub, shelf, edit>>

\* delete: refused while a product refers to the category; the others close up.
DeleteCategory(c) ==
  /\ c \in Listed
  /\ \A s \in Slugs : ~InUse(c, s)
  /\ priority' = [d \in Categories |->
                    IF d = c THEN 0
                    ELSE IF priority[d] > priority[c] THEN priority[d] - 1 ELSE priority[d]]
  /\ subs' = [subs EXCEPT ![c] = NoSubs]
  /\ UNCHANGED <<lastSub, shelf, edit, strayed>>

\* update without a rank: the row is read, and nothing is locked.
ReadCategory(e, c) ==
  /\ edit[e] = NoEdit
  /\ c \in Listed
  /\ edit' = [edit EXCEPT ![e] = [category |-> c, priority |-> priority[c], subs |-> subs[c]]]
  /\ UNCHANGED <<priority, subs, lastSub, shelf, strayed>>

\* save reads the row again and writes what differs, the rank included; a deleted
\* row is inserted again with its subcategories.  A rank that another category
\* holds by now fails the request at commit (UQ_categories_priority is deferred).
SaveCategory(e) ==
  LET c == edit[e].category
  IN  /\ edit[e] # NoEdit
      /\ edit' = [edit EXCEPT ![e] = NoEdit]
      /\ \/ /\ \E d \in Listed : d # c /\ priority[d] = edit[e].priority
            /\ UNCHANGED <<priority, subs, lastSub, strayed>>
         \/ /\ \A d \in Listed : d # c => priority[d] # edit[e].priority
            /\ priority' = [priority EXCEPT ![c] = edit[e].priority]
            /\ strayed' = (strayed \/ priority[c] # edit[e].priority)
            /\ IF c \in Listed
               THEN \/ UNCHANGED <<subs, lastSub>>
                    \/ \E wanted \in SUBSET Slugs : SetSubs(c, wanted)
               ELSE subs' = [subs EXCEPT ![c] = edit[e].subs] /\ UNCHANGED lastSub
      /\ UNCHANGED shelf

-----------------------------------------------------------------------------
\* A product is created in, or moved to, a subcategory; a product is deleted.
PutOnShelf(g, c, s) ==
  /\ subs[c][s] # 0
  /\ shelf' = [shelf EXCEPT ![g] = [category |-> c, slug |-> s, id |-> subs[c][s]]]
  /\ UNCHANGED <<priority, subs, lastSub, edit, strayed>>

TakeOffShelf(g) ==
  /\ shelf[g] # OffShelf
  /\ shelf' = [shelf EXCEPT ![g] = OffShelf]
  /\ UNCHANGED <<priority, subs, lastSub, edit, strayed>>

-----------------------------------------------------------------------------
CategoryInit ==
  /\ priority = [c \in Categories |-> 0]
  /\ subs = [c \in Categories |-> NoSubs]
  /\ lastSub = 0
  /\ shelf = [g \in Garments |-> OffShelf]
  /\ edit = [e \in Editors |-> NoEdit]
  /\ strayed = FALSE

CategoryNext ==
  \/ \E c \in Categories :
       \/ \E wanted \in SUBSET Slugs : CreateCategory(c, wanted)
       \/ \E target \in 1 .. MaxRank : MoveTo(c, target)
       \/ DeleteCategory(c)
       \/ \E e \in Editors : ReadCategory(e, c)
       \/ \E g \in Garments, s \in Slugs : PutOnShelf(g, c, s)
  \/ \E order \in [Categories -> 0 .. MaxRank] : Reorder(order)
  \/ \E e \in Editors : SaveCategory(e)
  \/ \E g \in Garments : TakeOffShelf(g)

CategorySpec == CategoryInit /\ [][CategoryNext]_categoryVars

-----------------------------------------------------------------------------
CategoryTypeOK ==
  /\ priority \in [Categories -> Nat]
  /\ subs \in [Categories -> [Slugs -> Nat]]
  /\ lastSub \in Nat
  /\ edit \in [Editors -> [category: Categories \cup {"none"}, priority: Nat,
                           subs: [Slugs -> Nat]]]
  /\ strayed \in BOOLEAN

\* No two categories have the same rank.
RanksUnique == \A c, d \in Listed : priority[c] = priority[d] => c = d

\* Every rank before a taken one is taken: the ranks are 1, 2, .., N.
RanksDense ==
  \A c \in Listed : \A rank \in 1 .. priority[c] : \E d \in Listed : priority[d] = rank

\* category.service.ts:93 promises ranks 1..N without a gap and without a double.
\* They are, whatever requests overlap, until an update that names no rank writes
\* an old one back; then a gap stays until the categories are reordered.
DenseUnlessStale == RanksUnique /\ (~strayed => RanksDense)

\* A subcategory with products keeps its row, with the id the products hold,
\* through every update of its category that still lists its slug.
ShelfRefs ==
  \A g \in Garments :
    shelf[g] # OffShelf => subs[shelf[g].category][shelf[g].slug] = shelf[g].id
=============================================================================
