--------------------------- MODULE ProductReviews ---------------------------
(***************************************************************************)
(* The reviews of one product, the votes on them, and the rating stored    *)
(* with the product.  Transactions of customers and moderators lock rows   *)
(* step by step: the review first, then the product; a new review locks    *)
(* the product.  The product administration reads the product, with its    *)
(* rating, and saves it later without a lock.                              *)
(***************************************************************************)
EXTENDS Naturals, FiniteSets, Functions

CONSTANTS
  Items,        \* delivered order lines of the product, each of another customer
  Workers,      \* connections, each serving one request
  Stars,        \* the ratings a review can give
  NoItem, Nobody

VARIABLES
  reviewable,         \* lines that may still be reviewed
  review,       \* review[i]: the review written for line i
  votes,        \* votes[i]: the lines whose customers find it helpful
  product,      \* the rating stored with the product, or NoProduct
  reviewLock,   \* reviewLock[i]: the connection that locks the review
  productLock,  \* the connection that locks the product
  task,         \* task[w]: the transaction of w, and its uncommitted writes
  overwritten   \* history: an old rating was saved with the product

reviewVars ==
  <<reviewable, review, votes, product, reviewLock, productLock, task, overwritten>>

ASSUME ReviewAssumption ==
  Stars \subseteq Nat /\ IsFiniteSet(Items) /\ Nobody \notin Workers

-----------------------------------------------------------------------------
NoReview == [rating |-> 0, status |-> "NONE", editedAt |-> FALSE, helpfulCount |-> 0]
NoRating == [count |-> 0, sum |-> 0]
NoProduct == [count |-> 0, sum |-> 1]

Written == {i \in Items : review[i] # NoReview}
Exists == product # NoProduct

\* A transaction: its next step, its line, the review it writes, the votes it inserts
\* or deletes, and the rating it computed, or read with the product.
ReviewTask(step, i, row, changed, rating) ==
  [step |-> step, item |-> i, row |-> row, votes |-> changed, rating |-> rating]
NoTask == ReviewTask("idle", NoItem, NoReview, {}, NoRating)

\* computeReviewEligibility: the order is paid and delivered, its 30 days are not
\* over, and the line still names its product.
Eligible(i) == i \in reviewable

\* Mutant of reviewEditBlock: a review can be edited again.
EditedAgain(row) == row.status # "PUBLISHED"

\* reviewEditBlock; whether the time for edits is over is left open: the refusal
\* changes nothing.
EditBlocked(row) == row.status # "PUBLISHED" \/ row.editedAt

-----------------------------------------------------------------------------
\* The sum of the ratings of a set of lines, and COUNT and AVG of the published ones.
\* The stored average is the quotient, rounded; sum and count determine it.
RatingSum(rows, lines) == SumFunctionOnSet([i \in Items |-> rows[i].rating], lines)

Aggregate(rows) ==
  LET published == {i \in Items : rows[i].status = "PUBLISHED"}
  IN  [count |-> Cardinality(published), sum |-> RatingSum(rows, published)]

-----------------------------------------------------------------------------
\* create: the checks, none of which locks anything.
WriteReview(w, i, stars) ==
  /\ task[w] = NoTask
  /\ Eligible(i)
  /\ i \notin Written
  /\ task' = [task EXCEPT ![w] =
       ReviewTask("product", i, [NoReview EXCEPT !.rating = stars, !.status = "PUBLISHED"],
            {}, NoRating)]
  /\ UNCHANGED <<reviewable, review, votes, product, reviewLock, productLock, overwritten>>

\* Mutant of LocksReview: the review is read and not locked.
ReadsOnly(w, i) == UNCHANGED reviewLock

\* findLocked of a review: SELECT ... FOR UPDATE
LocksReview(w, i) ==
  /\ reviewLock[i] = Nobody
  /\ reviewLock' = [reviewLock EXCEPT ![i] = w]

\* A transaction that found and locked the review, and changed it to row.
ChangesReview(w, i, step, row, changed) ==
  /\ task[w] = NoTask
  /\ i \in Written
  /\ LocksReview(w, i)
  /\ task' = [task EXCEPT ![w] = ReviewTask(step, i, row, changed, NoRating)]
  /\ UNCHANGED <<reviewable, review, votes, product, productLock, overwritten>>

\* update: a new rating needs the product too, a new text does not.
EditReview(w, i, stars) ==
  LET row == [review[i] EXCEPT !.rating = stars, !.editedAt = TRUE]
  IN  /\ ~EditBlocked(review[i])
      /\ \/ ChangesReview(w, i, "product", row, {})
         \/ stars = review[i].rating /\ ChangesReview(w, i, "commit", row, {})

HideReview(w, i) ==
  /\ review[i].status = "PUBLISHED"
  /\ ChangesReview(w, i, "product", [review[i] EXCEPT !.status = "HIDDEN"], {})

PublishReview(w, i) ==
  /\ review[i].status = "HIDDEN"
  /\ ChangesReview(w, i, "product", [review[i] EXCEPT !.status = "PUBLISHED"], {})

\* reply, removeReply: the row is saved with another reply, of which nothing depends.
ReplyReview(w, i) == ChangesReview(w, i, "commit", review[i], {})

\* setVote by the customer of line voter: the votes are counted anew.
SetVote(w, i, voter, voted) ==
  LET helpful == IF voted THEN votes[i] \cup {voter} ELSE votes[i] \ {voter}
      changed == IF voted THEN {voter} \ votes[i] ELSE {voter} \cap votes[i]
  IN  /\ review[i].status = "PUBLISHED"
      /\ voted => voter # i
      /\ ChangesReview(w, i, "commit",
                 [review[i] EXCEPT !.helpfulCount = Cardinality(helpful)], changed)

-----------------------------------------------------------------------------
\* Mutant of LockProduct: the rows are counted without the lock.
CountAtOnce(w) ==
  /\ task[w].step = "product"
  /\ Exists
  /\ task' = [task EXCEPT ![w].step = "rate"]
  /\ UNCHANGED <<reviewable, review, votes, product, reviewLock, productLock, overwritten>>

\* lockProduct
LockProduct(w) ==
  /\ task[w].step = "product"
  /\ Exists
  /\ productLock = Nobody
  /\ productLock' = w
  /\ task' = [task EXCEPT ![w].step = "rate"]
  /\ UNCHANGED <<reviewable, review, votes, product, reviewLock, overwritten>>

\* refreshProductRating sees what is committed, and the own change.  A second
\* review of a line fails here (unique order_item_id); it is rolled back.
Rate(w) ==
  /\ task[w].step = "rate"
  /\ reviewLock[task[w].item] = w \/ task[w].item \notin Written
  /\ task' = [task EXCEPT ![w].step = "commitRating",
       ![w].rating = Aggregate([review EXCEPT ![task[w].item] = task[w].row])]
  /\ UNCHANGED <<reviewable, review, votes, product, reviewLock, productLock, overwritten>>

\* The locks of w are released.
ReleasesLocks(w) ==
  /\ reviewLock' = [i \in Items |-> IF reviewLock[i] = w THEN Nobody ELSE reviewLock[i]]
  /\ productLock' = IF productLock = w THEN Nobody ELSE productLock
  /\ task' = [task EXCEPT ![w] = NoTask]

CommitReview(w) ==
  LET i == task[w].item
  IN  /\ task[w].step \in {"commit", "commitRating"}
      /\ review' = [review EXCEPT ![i] = task[w].row]
      /\ votes' = [votes EXCEPT ![i] = (@ \ task[w].votes) \cup (task[w].votes \ @)]
      /\ \/ task[w].step = "commit" /\ UNCHANGED <<product, overwritten>>
         \/ /\ task[w].step = "commitRating"
            /\ product' = task[w].rating
            /\ overwritten' = FALSE
      /\ ReleasesLocks(w)
      /\ UNCHANGED reviewable

\* The connection is lost, a check of a later step fails, or Postgres ends a deadlock.
AbortReview(w) ==
  /\ task[w] # NoTask
  /\ ReleasesLocks(w)
  /\ UNCHANGED <<reviewable, review, votes, product, overwritten>>

-----------------------------------------------------------------------------
\* update of the product administration: the product is read with its rating ...
LoadProduct(w) ==
  /\ task[w] = NoTask
  /\ Exists
  /\ task' = [task EXCEPT ![w] = ReviewTask("save", NoItem, NoReview, {}, product)]
  /\ UNCHANGED <<reviewable, review, votes, product, reviewLock, productLock, overwritten>>

\* ... and saved: what differs from the row is written, the rating included, and a
\* product that was deleted meanwhile is inserted again.
SaveProduct(w) ==
  /\ task[w].step = "save"
  /\ productLock = Nobody
  /\ product' = task[w].rating
  /\ overwritten' = (overwritten \/ product # task[w].rating)
  /\ task' = [task EXCEPT ![w] = NoTask]
  /\ UNCHANGED <<reviewable, review, votes, reviewLock, productLock>>

\* delete locks the product, then the reviews that go with it (ON DELETE
\* CASCADE); the order lines no longer name it (SET NULL).
DeleteProduct(w) ==
  /\ task[w] = NoTask
  /\ Exists
  /\ productLock = Nobody
  /\ productLock' = w
  /\ task' = [task EXCEPT ![w] = ReviewTask("delete", NoItem, NoReview, {}, NoRating)]
  /\ UNCHANGED <<reviewable, review, votes, product, reviewLock, overwritten>>

Cascade(w) ==
  /\ task[w].step = "delete"
  /\ \A i \in Items : reviewLock[i] = Nobody
  /\ product' = NoProduct
  /\ review' = [i \in Items |-> NoReview]
  /\ votes' = [i \in Items |-> {}]
  /\ overwritten' = FALSE
  /\ reviewable' = {}
  /\ ReleasesLocks(w)

\* The 30 days after the delivery are over.
CloseReview(i) ==
  /\ reviewable' = reviewable \ {i}
  /\ UNCHANGED <<review, votes, product, reviewLock, productLock, task, overwritten>>

-----------------------------------------------------------------------------
ReviewInit ==
  /\ reviewable = Items
  /\ review = [i \in Items |-> NoReview]
  /\ votes = [i \in Items |-> {}]
  /\ product = NoRating
  /\ reviewLock = [i \in Items |-> Nobody]
  /\ productLock = Nobody
  /\ task = [w \in Workers |-> NoTask]
  /\ overwritten = FALSE

ReviewNext ==
  \/ \E w \in Workers, i \in Items :
       \/ \E stars \in Stars : WriteReview(w, i, stars) \/ EditReview(w, i, stars)
       \/ HideReview(w, i) \/ PublishReview(w, i) \/ ReplyReview(w, i)
       \/ \E voter \in Items, voted \in BOOLEAN : SetVote(w, i, voter, voted)
  \/ \E w \in Workers :
       \/ LockProduct(w) \/ Rate(w) \/ CommitReview(w) \/ AbortReview(w)
       \/ LoadProduct(w) \/ SaveProduct(w) \/ DeleteProduct(w) \/ Cascade(w)
  \/ \E i \in reviewable : CloseReview(i)

ReviewSpec == ReviewInit /\ [][ReviewNext]_reviewVars

-----------------------------------------------------------------------------
ReviewRow ==
  [rating: Nat, status: {"NONE", "PUBLISHED", "HIDDEN"}, editedAt: BOOLEAN,
   helpfulCount: Nat]
Rating == [count: Nat, sum: Nat]

ReviewTypeOK ==
  /\ reviewable \subseteq Items
  /\ review \in [Items -> ReviewRow]
  /\ votes \in [Items -> SUBSET Items]
  /\ product \in Rating
  /\ reviewLock \in [Items -> Workers \cup {Nobody}]
  /\ productLock \in Workers \cup {Nobody}
  /\ task \in [Workers ->
       [step: {"idle", "product", "rate", "commit", "commitRating", "save", "delete"},
        item: Items \cup {NoItem}, row: ReviewRow, votes: SUBSET Items, rating: Rating]]
  /\ overwritten \in BOOLEAN

\* docs/modules/product.md:154 and :170: only the review module writes the rating of
\* a product, and it is the one of its published reviews.
RatingMatches == Exists => product = Aggregate(review)

\* The rating stored with a product is that of its published reviews, however
\* reviews are written, edited, hidden and shown at the same time, unless the
\* product administration saved an older one over it; the next change of a review
\* puts that right.
RatingUnlessOverwritten == overwritten \/ RatingMatches

\* The count shown with a review is the number of customers who voted for it, and
\* none of them wrote it, however votes, edits and replies overlap.
HelpfulCountsVotes ==
  \A i \in Items : review[i].helpfulCount = Cardinality(votes[i]) /\ i \notin votes[i]

\* The customer changes a review once at most: a review that was edited keeps its
\* rating for as long as it exists.
EditedOnce ==
  [][\A i \in Items :
       review[i].editedAt /\ review'[i] # NoReview =>
         review'[i].rating = review[i].rating /\ review'[i].editedAt]_reviewVars
=============================================================================
