---------------------------- MODULE ProductLists ----------------------------
(***************************************************************************)
(* Two lists of products: the wishlist of one customer, whose requests may *)
(* overlap (a double click), and one collection, whose updates read it     *)
(* with its products and save it with all of them.                         *)
(***************************************************************************)
EXTENDS Naturals

CONSTANTS
  Wares,     \* the products
  Requests   \* connections

VARIABLES
  wares,      \* the products that exist
  wishlist,   \* the products on the wishlist (unique per customer)
  wish,       \* wish[r]: the request about the wishlist, its step and its answer
  collection, \* the products of the collection, with exists = FALSE when it is gone
  edition     \* edition[r]: the update of the collection r makes

listVars == <<wares, wishlist, wish, collection, edition>>

-----------------------------------------------------------------------------
\* left: history, the product left the wishlist during the request.
Wish(step, p, left) == [step |-> step, product |-> p, left |-> left]
NoWish == Wish("idle", "none", FALSE)

\* asked: the request lists products; stale: history, the products of the collection
\* were changed by another request since it was read.
Edition(step, products, asked, stale) ==
  [step |-> step, products |-> products, asked |-> asked, stale |-> stale]
NoEdition == Edition("idle", {}, FALSE, FALSE)

Noted(products) ==
  [r \in Requests |-> IF wish[r].product \in products THEN [wish[r] EXCEPT !.left = TRUE]
                      ELSE wish[r]]

-----------------------------------------------------------------------------
\* add: the product exists, and is not on the list yet.
AddWish(r, p) ==
  /\ wish[r] = NoWish
  /\ p \in wares \ wishlist
  /\ wish' = [wish EXCEPT ![r] = Wish("insert", p, FALSE)]
  /\ UNCHANGED <<wares, wishlist, collection, edition>>

\* INSERT; the row may be there by now (unique key), or the product gone (foreign key).
InsertWish(r) ==
  LET p == wish[r].product
  IN  /\ wish[r].step = "insert"
      /\ \/ /\ p \in wares \ wishlist
            /\ wishlist' = wishlist \cup {p}
            /\ wish' = [wish EXCEPT ![r] = NoWish]
         \/ p \in wishlist /\ wish' = [wish EXCEPT ![r].step = "raced"] /\ UNCHANGED wishlist
         \/ p \notin wares /\ wish' = [wish EXCEPT ![r].step = "failed"] /\ UNCHANGED wishlist
      /\ UNCHANGED <<wares, collection, edition>>

\* Mutant of FindRaced: the error of the unique key is thrown on.
ThrowRaced(r) ==
  /\ wish[r].step = "raced"
  /\ wish' = [wish EXCEPT ![r].step = "failed"]
  /\ UNCHANGED <<wares, wishlist, collection, edition>>

\* The row that won the race is the answer, if it is still there.
FindRaced(r) ==
  /\ wish[r].step = "raced"
  /\ wish' = [wish EXCEPT ![r] =
                IF wish[r].product \in wishlist THEN NoWish ELSE [@ EXCEPT !.step = "failed"]]
  /\ UNCHANGED <<wares, wishlist, collection, edition>>

\* The error is answered.
AnswerWish(r) ==
  /\ wish[r].step = "failed"
  /\ wish' = [wish EXCEPT ![r] = NoWish]
  /\ UNCHANGED <<wares, wishlist, collection, edition>>

\* remove
RemoveWish(p) ==
  /\ p \in wishlist
  /\ wishlist' = wishlist \ {p}
  /\ wish' = Noted({p})
  /\ UNCHANGED <<wares, collection, edition>>

-----------------------------------------------------------------------------
\* The products of the collection become those of new; updates that read others
\* take notice (history).
Becomes(new) ==
  /\ collection' = new
  /\ edition' = [r \in Requests |->
       IF new # collection /\ edition[r].step = "save"
       THEN [edition[r] EXCEPT !.stale = TRUE] ELSE edition[r]]

\* resolveProducts: all the products of the request exist.  While an update of a
\* deleted collection is on its way, the next one would have another id.
CreateCollection(products) ==
  /\ ~collection.exists
  /\ \A r \in Requests : edition[r] = NoEdition
  /\ products \subseteq wares
  /\ Becomes([exists |-> TRUE, products |-> products])
  /\ UNCHANGED <<wares, wishlist, wish>>

\* Mutant of Kept: a request without products empties the collection.
KeptNone == {}

\* The products an update saves when the request lists none.
Kept == collection.products

\* update: the collection is read with its products ...
ReadCollection(r, asked, products) ==
  /\ edition[r] = NoEdition
  /\ collection.exists
  /\ IF asked THEN products \subseteq wares ELSE products = Kept
  /\ edition' = [edition EXCEPT ![r] = Edition("save", products, asked, FALSE)]
  /\ UNCHANGED <<wares, wishlist, wish, collection>>

\* ... and saved with those it has now: products that are missing are inserted (their
\* foreign key fails when they are deleted), the others removed, and a collection that
\* was deleted is inserted again.
SaveCollection(r) ==
  LET others == [edition EXCEPT ![r] = NoEdition]
      new == [exists |-> TRUE, products |-> edition[r].products]
  IN  /\ edition[r].step = "save"
      /\ \/ /\ edition[r].products \subseteq wares
            /\ collection' = new
            /\ edition' = [x \in Requests |->
                 IF new # collection /\ others[x].step = "save"
                 THEN [others[x] EXCEPT !.stale = TRUE] ELSE others[x]]
         \/ /\ ~(edition[r].products \subseteq wares)
            /\ edition' = others
            /\ UNCHANGED collection
      /\ UNCHANGED <<wares, wishlist, wish>>

DeleteCollection ==
  /\ collection.exists
  /\ Becomes([exists |-> FALSE, products |-> {}])
  /\ UNCHANGED <<wares, wishlist, wish>>

\* Deleting a product takes it from every list (ON DELETE CASCADE).
DeleteWare(p) ==
  /\ p \in wares
  /\ wares' = wares \ {p}
  /\ wishlist' = wishlist \ {p}
  /\ wish' = Noted({p})
  /\ Becomes([collection EXCEPT !.products = @ \ {p}])

CreateWare(p) ==
  /\ wares' = wares \cup {p}
  /\ UNCHANGED <<wishlist, wish, collection, edition>>

-----------------------------------------------------------------------------
ListInit ==
  /\ wares = {}
  /\ wishlist = {}
  /\ wish = [r \in Requests |-> NoWish]
  /\ collection = [exists |-> FALSE, products |-> {}]
  /\ edition = [r \in Requests |-> NoEdition]

ListNext ==
  \/ \E r \in Requests :
       \/ \E p \in Wares : AddWish(r, p)
       \/ InsertWish(r) \/ FindRaced(r) \/ AnswerWish(r) \/ SaveCollection(r)
       \/ \E products \in SUBSET Wares, asked \in BOOLEAN : ReadCollection(r, asked, products)
  \/ \E p \in Wares : RemoveWish(p) \/ DeleteWare(p) \/ (p \notin wares /\ CreateWare(p))
  \/ \E products \in SUBSET Wares : CreateCollection(products)
  \/ DeleteCollection

ListSpec == ListInit /\ [][ListNext]_listVars

-----------------------------------------------------------------------------
ListTypeOK ==
  /\ wares \subseteq Wares
  /\ wishlist \subseteq Wares
  /\ wish \in [Requests -> [step: {"idle", "insert", "raced", "failed"},
                            product: Wares \cup {"none"}, left: BOOLEAN]]
  /\ collection \in [exists: BOOLEAN, products: SUBSET Wares]
  /\ edition \in [Requests -> [step: {"idle", "save"}, products: SUBSET Wares,
                               asked: BOOLEAN, stale: BOOLEAN]]

\* A product is put on the wishlist without an error, also when a second click does
\* the same at the same moment, unless the product left the list meanwhile.
WishNotRefused == \A r \in Requests : wish[r].step = "failed" => wish[r].left

\* An update that lists no products saves the collection with the products it has,
\* unless another request changed them since the update read them.
ProductsKept ==
  \A r \in Requests :
    edition[r].step = "save" /\ ~edition[r].asked /\ ~edition[r].stale =>
      edition[r].products = collection.products
=============================================================================
