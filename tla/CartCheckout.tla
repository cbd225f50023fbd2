---------------------------- MODULE CartCheckout ----------------------------
(***************************************************************************)
(* The cart of one customer, and the checkout that turns lines of it into  *)
(* an order.  Requests of the same customer (several tabs, a double click) *)
(* run at once on several connections.  None of them locks the cart: each  *)
(* statement of the cart service is a transaction of its own, and the      *)
(* transaction of checkout reads the lines first and deletes them last.    *)
(***************************************************************************)
EXTENDS Naturals, Sequences, FiniteSets

CONSTANTS
  Variants,      \* a product in a size and a colour: a line of the cart
  NoVariant,
  Workers,       \* connections, each serving one request
  MaxQuantity,   \* CART_MAX_ITEM_QUANTITY
  Tries,         \* how often addQuantity tries
  MaxLines,      \* bound: rows inserted into cart_items
  MaxOrders      \* bound: orders placed

VARIABLES
  cart,      \* cart[v]: the row of cart_items that its unique key gives to v
  lastId,    \* the id of the row inserted last
  products,  \* the variants whose product is not deleted
  placed,    \* the orders, each the set of lines it was made of
  removed,   \* history: ids of the rows the customer or a cascade deleted
  job        \* job[w]: the request worker w serves, and how far it came

cartVars == <<cart, lastId, products, placed, removed, job>>

ASSUME CartAssumption ==
  /\ NoVariant \notin Variants
  /\ MaxQuantity \in Nat /\ MaxLines \in Nat /\ MaxOrders \in Nat
  /\ Tries \in Nat \ {0, 1}

-----------------------------------------------------------------------------
Ids == 1 .. MaxLines
NoRow == [id |-> 0, quantity |-> 0]
Line == [variant: Variants, id: Ids, quantity: Nat]

InCart == {v \in Variants : cart[v] # NoRow}

\* A request: the line it is about (row id and quantity), the next statement,
\* how often addQuantity tried and whether it saw the line; what checkout read.
\* The last field is history: the line was too full, or left the cart, meanwhile.
Request(step, v, id, quantity, lines) ==
  [step |-> step, variant |-> v, id |-> id, quantity |-> quantity, tries |-> 0,
   sawExistingLine |-> FALSE, lines |-> lines, short |-> FALSE]
Idle == Request("idle", NoVariant, 0, 0, {})

Goes(w, step) == job' = [job EXCEPT ![w].step = step]
Ends(w) == job' = [job EXCEPT ![w] = Idle]

\* The rows of gone are deleted; requests that add to them take notice (history).
Deleted(gone) == [v \in Variants |-> IF v \in gone THEN NoRow ELSE cart[v]]
Noticed(jobs, gone) ==
  [w \in Workers |->
     IF jobs[w].step \in {"update", "look", "insert"} /\ jobs[w].variant \in gone
     THEN [jobs[w] EXCEPT !.short = TRUE] ELSE jobs[w]]

-----------------------------------------------------------------------------
(* addItem *)

\* The product exists.  A product that is disabled or sold out refuses the request,
\* here and in checkout, which changes nothing; whether it is, is left open.
AddItem(w, v, quantity) ==
  /\ job[w] = Idle
  /\ v \in products
  /\ job' = [job EXCEPT ![w] = Request("update", v, 0, quantity, {})]
  /\ UNCHANGED <<cart, lastId, products, placed, removed>>

\* Mutant of Room: the UPDATE lost its last condition.
RoomForAny(row, quantity) == row # NoRow

\* The condition of the UPDATE: the line is there and stays within the limit.
Room(row, quantity) == row # NoRow /\ row.quantity + quantity <= MaxQuantity

\* UPDATE ... SET quantity = quantity + n WHERE ... AND quantity + n <= max
Increase(w) ==
  LET v == job[w].variant
      n == job[w].quantity
  IN  /\ job[w].step = "update"
      /\ \/ /\ Room(cart[v], n)
            /\ cart' = [cart EXCEPT ![v].quantity = @ + n]
            /\ Ends(w)
         \/ /\ ~Room(cart[v], n)
            /\ job' = [job EXCEPT ![w].step = "look", ![w].short = @ \/ cart[v] # NoRow]
            /\ UNCHANGED cart
      /\ UNCHANGED <<lastId, products, placed, removed>>

\* Nothing was done in this round: the next one starts, or the loop is over.
Again(w, saw) ==
  job' = [job EXCEPT ![w].tries = @ + 1, ![w].sawExistingLine = saw,
                     ![w].step = IF job[w].tries + 1 = Tries THEN "limit" ELSE "update"]

\* Mutant of Look: the limit is reported as soon as the line is seen.
LookOnce(w) ==
  /\ job[w].step = "look"
  /\ Goes(w, IF cart[job[w].variant] = NoRow THEN "insert" ELSE "limit")
  /\ UNCHANGED <<cart, lastId, products, placed, removed>>

\* SELECT EXISTS: only the second time the line is seen is it at its limit.
Look(w) ==
  /\ job[w].step = "look"
  /\ \/ cart[job[w].variant] = NoRow /\ Goes(w, "insert")
     \/ cart[job[w].variant] # NoRow /\ job[w].sawExistingLine /\ Goes(w, "limit")
     \/ cart[job[w].variant] # NoRow /\ ~job[w].sawExistingLine /\ Again(w, TRUE)
  /\ UNCHANGED <<cart, lastId, products, placed, removed>>

\* INSERT.  Another request may have inserted the line (UQ_cart_items_unique), and
\* the product may be gone (foreign key), which fails the request.
Insert(w) ==
  LET v == job[w].variant
  IN  /\ job[w].step = "insert"
      /\ \/ /\ cart[v] # NoRow
            /\ Again(w, job[w].sawExistingLine)
            /\ UNCHANGED <<cart, lastId>>
         \/ /\ cart[v] = NoRow
            /\ v \in products
            /\ lastId < MaxLines
            /\ lastId' = lastId + 1
            /\ cart' = [cart EXCEPT ![v] = [id |-> lastId + 1, quantity |-> job[w].quantity]]
            /\ Ends(w)
      /\ UNCHANGED <<products, placed, removed>>

\* The request is answered with CART_QUANTITY_LIMIT.
RefuseLimit(w) ==
  /\ job[w].step = "limit"
  /\ Ends(w)
  /\ UNCHANGED <<cart, lastId, products, placed, removed>>

-----------------------------------------------------------------------------
(* updateItem, removeItem, clearCart *)

\* The line is found by its id; quantity is assigned and the row saved.
UpdateItem(w, v, quantity) ==
  /\ job[w] = Idle
  /\ v \in InCart
  /\ job' = [job EXCEPT ![w] = Request("save", v, cart[v].id, quantity, {})]
  /\ UNCHANGED <<cart, lastId, products, placed, removed>>

\* save reads the row again: it updates what differs, and inserts what is gone.
Save(w) ==
  LET row == cart[job[w].variant]
  IN  /\ job[w].step = "save"
      /\ \/ row = [id |-> job[w].id, quantity |-> job[w].quantity] /\ Ends(w)
         \/ row.id = job[w].id /\ row.quantity # job[w].quantity /\ Goes(w, "write")
         \/ row.id # job[w].id /\ Goes(w, "restore")
      /\ UNCHANGED <<cart, lastId, products, placed, removed>>

\* UPDATE by id; it finds nothing when the row was deleted.
Write(w) ==
  LET v == job[w].variant
  IN  /\ job[w].step = "write"
      /\ cart' = IF cart[v].id = job[w].id
                 THEN [cart EXCEPT ![v].quantity = job[w].quantity] ELSE cart
      /\ Ends(w)
      /\ UNCHANGED <<lastId, products, placed, removed>>

\* INSERT of the deleted row, under its old id, unless the line was added anew.
Restore(w) ==
  LET v == job[w].variant
  IN  /\ job[w].step = "restore"
      /\ cart' = IF cart[v] = NoRow /\ v \in products
                 THEN [cart EXCEPT ![v] = [id |-> job[w].id, quantity |-> job[w].quantity]]
                 ELSE cart
      /\ Ends(w)
      /\ UNCHANGED <<lastId, products, placed, removed>>

\* DELETE of one line (removeItem) or of all of them (clearCart).
Discard(gone) ==
  /\ gone # {} /\ gone \subseteq InCart
  /\ cart' = Deleted(gone)
  /\ removed' = removed \cup {cart[v].id : v \in gone}
  /\ job' = Noticed(job, gone)

RemoveItems(gone) ==
  /\ gone = InCart \/ Cardinality(gone) = 1
  /\ Discard(gone)
  /\ UNCHANGED <<lastId, products, placed>>

-----------------------------------------------------------------------------
(* checkout *)

LineOf(v) == [variant |-> v, id |-> cart[v].id, quantity |-> cart[v].quantity]

\* loadSelectedItems: the chosen lines are in the cart; without a choice, all are.
Checkout(w, chosen) ==
  /\ job[w] = Idle
  /\ chosen # {} /\ chosen \subseteq InCart
  /\ job' = [job EXCEPT ![w] = Request("order", NoVariant, 0, 0, {LineOf(v) : v \in chosen})]
  /\ UNCHANGED <<cart, lastId, products, placed, removed>>

\* Mutant of Ordered: the whole cart is emptied.
OrderedAll(lines) == InCart

\* removeOrderedCartItems: the rows with the ids that were read.
Ordered(lines) == {v \in InCart : \E l \in lines : l.id = cart[v].id}

\* The order and its lines are inserted, the rows deleted, and all is committed.
\* An order line of a product that is gone by now fails (foreign key).
Place(w) ==
  LET gone == Ordered(job[w].lines)
  IN  /\ job[w].step = "order"
      /\ Len(placed) < MaxOrders
      /\ \A l \in job[w].lines : l.variant \in products
      /\ placed' = Append(placed, job[w].lines)
      /\ cart' = Deleted(gone)
      /\ job' = Noticed([job EXCEPT ![w] = Idle], gone)
      /\ UNCHANGED <<lastId, products, removed>>

-----------------------------------------------------------------------------
\* The request fails between two statements; checkout is rolled back.
Abandon(w) ==
  /\ job[w] # Idle
  /\ Ends(w)
  /\ UNCHANGED <<cart, lastId, products, placed, removed>>

\* Deleting a product deletes its lines in every cart (ON DELETE CASCADE).
DeleteProduct(v) ==
  /\ v \in products
  /\ products' = products \ {v}
  /\ IF v \in InCart THEN Discard({v}) ELSE UNCHANGED <<cart, removed, job>>
  /\ UNCHANGED <<lastId, placed>>

-----------------------------------------------------------------------------
CartInit ==
  /\ cart = [v \in Variants |-> NoRow]
  /\ lastId = 0
  /\ products = Variants
  /\ placed = <<>>
  /\ removed = {}
  /\ job = [w \in Workers |-> Idle]

CartNext ==
  \/ \E w \in Workers :
       \/ \E v \in Variants, n \in 1 .. MaxQuantity : AddItem(w, v, n) \/ UpdateItem(w, v, n)
       \/ Increase(w) \/ Look(w) \/ Insert(w) \/ RefuseLimit(w)
       \/ Save(w) \/ Write(w) \/ Restore(w)
       \/ \E chosen \in SUBSET Variants : Checkout(w, chosen)
       \/ Place(w) \/ Abandon(w)
  \/ \E gone \in SUBSET Variants : RemoveItems(gone)
  \/ \E v \in Variants : DeleteProduct(v)

CartSpec == CartInit /\ [][CartNext]_cartVars

-----------------------------------------------------------------------------
Steps == {"idle", "update", "look", "insert", "limit", "save", "write", "restore", "order"}

Job ==
  [step: Steps, variant: Variants \cup {NoVariant}, id: 0 .. MaxLines, quantity: Nat,
   tries: Nat, sawExistingLine: BOOLEAN, lines: SUBSET Line, short: BOOLEAN]

CartTypeOK ==
  /\ cart \in [Variants -> {NoRow} \cup [id: Ids, quantity: Nat]]
  /\ lastId \in 0 .. MaxLines
  /\ products \subseteq Variants
  /\ placed \in Seq(SUBSET Line)
  /\ removed \subseteq Ids
  /\ job \in [Workers -> Job]

\* No line ever holds more pieces than a customer may order of one thing, nor none
\* at all, whatever requests add to it and set it at the same time; and no order
\* does.  The CHECK constraints of the table are never what stops a request.
QuantityLimit ==
  /\ \A v \in InCart : cart[v].quantity \in 1 .. MaxQuantity
  /\ \A i \in 1 .. Len(placed) : \A l \in placed[i] : l.quantity \in 1 .. MaxQuantity

\* addQuantity reports the limit only when the line was too full at some moment
\* of the request, or a line was taken out of the cart and put back meanwhile; not
\* because another request created the line between two of its statements.
LimitJustified ==
  \A w \in Workers : job[w].step = "limit" => job[w].short

\* A line that is no longer in the cart was removed, or is part of an order: a
\* checkout never takes a line with it that was added after it read the cart.
NoLineVanishes ==
  \A id \in 1 .. lastId :
    \/ \E v \in Variants : cart[v].id = id
    \/ id \in removed
    \/ \E i \in 1 .. Len(placed) : \E l \in placed[i] : l.id = id

\* docs/modules/cart.md, section 4.4: no addition is lost when requests run at once
\* (order.md: checkout removes only what was ordered).  A row that leaves the cart
\* with an order is in the order with all its pieces, those added meanwhile too.
AdditionKept ==
  [][placed' # placed =>
       \A v \in InCart : cart'[v] = NoRow => LineOf(v) \in placed'[Len(placed')]]_cartVars

-----------------------------------------------------------------------------
\* What the statements of a request rely on.  A pending sum is within the limit;
\* and addQuantity only starts a second round while its line is in the cart,
\* unless the line was too full or left.
Sound(request, rows) ==
  /\ request.step = "limit" => request.short
  /\ request.step \in {"update", "look", "insert", "save", "write", "restore"} =>
       request.variant \in Variants /\ request.quantity \in 1 .. MaxQuantity
  /\ request.step \in {"save", "write", "restore"} => request.id \in Ids
  /\ \A l \in request.lines : l.quantity \in 1 .. MaxQuantity
  /\ request.step \in {"update", "look", "insert"} /\ ~request.short =>
       /\ request.sawExistingLine => request.tries > 0
       /\ request.tries > 0 => request.step = "update" /\ rows[request.variant] # NoRow

\* The inductive invariant of the proofs.
CartInv ==
  /\ CartTypeOK
  /\ QuantityLimit
  /\ NoLineVanishes
  /\ \A w \in Workers : Sound(job[w], cart)
=============================================================================
