------------------------- MODULE CartCheckoutProofs -------------------------
(***************************************************************************)
(* The proof that CartInv is an inductive invariant of CartCheckout, for   *)
(* any number of lines, requests and tries.  The handlers are grouped by   *)
(* their effect: those that only move a request on, those that write one   *)
(* row of the cart and end, and those that delete rows.                    *)
(***************************************************************************)
EXTENDS CartCheckout, TLAPS

\* A request of w goes on as request; nothing else happens.
MovesOn(w, request) ==
  /\ request \in Job
  /\ Sound(request, cart)
  /\ job' = [job EXCEPT ![w] = request]
  /\ UNCHANGED <<cart, lastId, products, placed, removed>>

\* w writes the row of line v and is done.  The row keeps its id, or the line was
\* not in the cart; ids of new rows are the next ones.
WritesRow(w, v, row) ==
  /\ v \in Variants
  /\ row \in [id: Ids, quantity: 1 .. MaxQuantity]
  /\ cart[v] = NoRow \/ cart[v].id = row.id
  /\ cart' = [cart EXCEPT ![v] = row]
  /\ job' = [job EXCEPT ![w] = Idle]
  /\ lastId' \in 0 .. MaxLines
  /\ \A id \in 1 .. lastId' : id \in 1 .. lastId \/ id = row.id
  /\ UNCHANGED <<products, placed, removed>>

\* The rows of gone are deleted; each was removed or ordered.
DeletesRows(jobs, gone) ==
  /\ gone \subseteq InCart
  /\ cart' = Deleted(gone)
  /\ jobs \in [Workers -> Job]
  /\ \A w \in Workers : Sound(jobs[w], cart)
  /\ job' = Noticed(jobs, gone)
  /\ lastId' = lastId
  /\ products' \subseteq Variants
  /\ placed' \in Seq(SUBSET Line)
  /\ removed' \subseteq Ids
  /\ removed \subseteq removed'
  /\ Len(placed) <= Len(placed')
  /\ \A i \in 1 .. Len(placed) : placed'[i] = placed[i]
  /\ \A i \in 1 .. Len(placed') : \A l \in placed'[i] : l.quantity \in 1 .. MaxQuantity
  /\ \A v \in gone :
       \/ cart[v].id \in removed'
       \/ \E i \in 1 .. Len(placed') : \E l \in placed'[i] : l.id = cart[v].id

-----------------------------------------------------------------------------
(* Each group keeps the invariant *)

\* An idle connection has nothing to keep.
LEMMA IdleSound ==
  /\ Idle \in Job
  /\ \A rows : Sound(Idle, rows)
<1>1. Idle \in Job
  BY CartAssumption DEF Idle, Request, Job, Steps
<1> QED BY <1>1 DEF Idle, Request, Sound

\* Moving a request on changes no row.
LEMMA MovesOnKeeps ==
  ASSUME CartInv, NEW w \in Workers, NEW request, MovesOn(w, request)
  PROVE  CartInv'
<1>1. CartTypeOK' /\ QuantityLimit' /\ NoLineVanishes'
  BY DEF CartInv, MovesOn, CartTypeOK, QuantityLimit, NoLineVanishes, InCart
<1>2. ASSUME NEW u \in Workers PROVE Sound(job[u], cart)'
  BY DEF CartInv, CartTypeOK, MovesOn, Sound
<1> QED BY <1>1, <1>2 DEF CartInv

\* Writing a row puts a line into the cart, or keeps it there.
LEMMA WritesRowKeeps ==
  ASSUME CartInv, NEW w \in Workers, NEW v, NEW row, WritesRow(w, v, row)
  PROVE  CartInv'
<1> USE CartAssumption
<1>1. CartTypeOK'
  BY IdleSound DEF CartInv, WritesRow, CartTypeOK
<1>2. QuantityLimit'
  BY DEF CartInv, WritesRow, CartTypeOK, QuantityLimit, InCart
<1>3. NoLineVanishes'
  <2>1. SUFFICES ASSUME NEW id \in 1 .. lastId' PROVE
          \/ \E u \in Variants : cart'[u].id = id
          \/ id \in removed'
          \/ \E i \in 1 .. Len(placed') : \E l \in placed'[i] : l.id = id
    BY DEF NoLineVanishes
  <2>2. CASE id = row.id
    BY <2>2 DEF CartInv, WritesRow, CartTypeOK
  <2>3. CASE id \in 1 .. lastId /\ id # row.id
    <3>1. \A u \in Variants : cart[u].id = id => cart'[u].id = id
      BY <2>3 DEF CartInv, WritesRow, CartTypeOK, NoRow
    <3> QED BY <2>3, <3>1 DEF CartInv, WritesRow, NoLineVanishes
  <2> QED BY <2>2, <2>3 DEF WritesRow
<1>4. ASSUME NEW u \in Workers PROVE Sound(job[u], cart)'
  <2>1. \A x \in Variants : cart[x] # NoRow => cart'[x] # NoRow
    BY DEF CartInv, WritesRow, CartTypeOK, NoRow, Ids
  <2>2. CASE u = w
    BY <2>2, IdleSound DEF CartInv, CartTypeOK, WritesRow
  <2>3. CASE u # w
    BY <2>1, <2>3 DEF CartInv, CartTypeOK, WritesRow, Sound
  <2> QED BY <2>2, <2>3
<1> QED BY <1>1, <1>2, <1>3, <1>4 DEF CartInv

\* A request that adds to a line that is deleted takes notice of it.
LEMMA DeletesRowsKeeps ==
  ASSUME CartInv, NEW jobs, NEW gone, DeletesRows(jobs, gone)
  PROVE  CartInv'
<1> USE CartAssumption
<1>1. CartTypeOK'
  <2>1. cart' \in [Variants -> {NoRow} \cup [id: Ids, quantity: Nat]]
    BY DEF CartInv, CartTypeOK, DeletesRows, Deleted
  <2>2. job' \in [Workers -> Job]
    <3>1. \A j \in Job : [j EXCEPT !.short = TRUE] \in Job
      BY DEF Job
    <3> QED BY <3>1 DEF DeletesRows, Noticed
  <2> QED BY <2>1, <2>2 DEF CartInv, CartTypeOK, DeletesRows
<1>2. QuantityLimit'
  BY DEF CartInv, CartTypeOK, DeletesRows, Deleted, QuantityLimit, InCart
<1>3. NoLineVanishes'
  <2>1. SUFFICES ASSUME NEW id \in 1 .. lastId PROVE
          \/ \E u \in Variants : cart'[u].id = id
          \/ id \in removed'
          \/ \E i \in 1 .. Len(placed') : \E l \in placed'[i] : l.id = id
    BY DEF NoLineVanishes, DeletesRows
  <2>2. CASE \E u \in Variants : cart[u].id = id
    BY <2>2 DEF DeletesRows, Deleted
  <2>3. CASE id \in removed
    BY <2>3 DEF DeletesRows
  <2>4. CASE \E i \in 1 .. Len(placed) : \E l \in placed[i] : l.id = id
    <3>1. Len(placed) \in Nat /\ Len(placed') \in Nat
      BY DEF CartInv, CartTypeOK, DeletesRows
    <3> QED BY <2>4, <3>1 DEF DeletesRows
  <2> QED BY <2>2, <2>3, <2>4 DEF CartInv, NoLineVanishes
<1>4. ASSUME NEW u \in Workers PROVE Sound(job[u], cart)'
  <2>1. Sound(jobs[u], cart) /\ jobs[u] \in Job
    BY DEF DeletesRows
  <2>2. CASE jobs[u].step \in {"update", "look", "insert"} /\ jobs[u].variant \in gone
    <3>1. job'[u] = [jobs[u] EXCEPT !.short = TRUE]
      BY <2>2 DEF DeletesRows, Noticed
    <3> QED BY <2>1, <3>1 DEF Sound, Job
  <2>3. CASE ~(jobs[u].step \in {"update", "look", "insert"} /\ jobs[u].variant \in gone)
    <3>1. job'[u] = jobs[u]
      BY <2>3 DEF DeletesRows, Noticed
    <3>2. \A x \in Variants \ gone : cart'[x] = cart[x]
      BY DEF DeletesRows, Deleted
    <3> QED BY <2>1, <2>3, <3>1, <3>2 DEF Sound
  <2> QED BY <2>2, <2>3
<1> QED BY <1>1, <1>2, <1>3, <1>4 DEF CartInv

-----------------------------------------------------------------------------
(* Each handler belongs to a group *)

\* addItem: a new request, and the rounds of addQuantity.
LEMMA AddItemKeeps ==
  ASSUME CartInv, NEW w \in Workers, NEW v \in Variants, NEW n \in 1 .. MaxQuantity,
         AddItem(w, v, n)
  PROVE  CartInv'
<1> DEFINE request == Request("update", v, 0, n, {})
<1>1. request \in Job /\ Sound(request, cart)
  BY CartAssumption DEF Request, Job, Steps, Sound
<1> QED BY <1>1, MovesOnKeeps DEF AddItem, MovesOn

LEMMA IncreaseKeeps ==
  ASSUME CartInv, NEW w \in Workers, Increase(w)
  PROVE  CartInv'
<1> USE CartAssumption
<1> DEFINE v == job[w].variant
           n == job[w].quantity
<1>1. /\ job[w] \in Job /\ v \in Variants /\ n \in 1 .. MaxQuantity
      /\ job[w].step = "update" /\ Sound(job[w], cart)
  BY DEF CartInv, CartTypeOK, Increase, Sound
<1>2. CASE Room(cart[v], n) /\ cart' = [cart EXCEPT ![v].quantity = @ + n] /\ Ends(w)
  <2> DEFINE row == [cart[v] EXCEPT !.quantity = @ + n]
  <2>1. cart[v] \in [id: Ids, quantity: Nat] /\ cart[v].quantity \in 1 .. MaxQuantity
    BY <1>1, <1>2 DEF Room, CartInv, CartTypeOK, QuantityLimit, InCart
  <2>2. row \in [id: Ids, quantity: 1 .. MaxQuantity] /\ row.id = cart[v].id
    BY <1>1, <1>2, <2>1 DEF Room
  <2>3. WritesRow(w, v, row)
    BY <1>1, <1>2, <2>2 DEF WritesRow, Increase, Ends, CartInv, CartTypeOK
  <2> QED BY <2>3, WritesRowKeeps
<1>3. CASE ~Room(cart[v], n) /\ UNCHANGED cart
           /\ job' = [job EXCEPT ![w].step = "look", ![w].short = @ \/ cart[v] # NoRow]
  <2> DEFINE request == [job[w] EXCEPT !.step = "look", !.short = @ \/ cart[v] # NoRow]
  <2>1. request \in Job
    BY <1>1 DEF Job, Steps
  <2>2. Sound(request, cart)
    BY <1>1 DEF Sound, Job
  <2>3. job' = [job EXCEPT ![w] = request]
    BY <1>3 DEF CartInv, CartTypeOK
  <2>4. MovesOn(w, request)
    BY <1>3, <2>1, <2>2, <2>3 DEF MovesOn, Increase
  <2> QED BY <2>4, MovesOnKeeps
<1> QED BY <1>2, <1>3 DEF Increase

LEMMA AgainKeeps ==
  ASSUME CartInv, NEW w \in Workers, NEW saw \in BOOLEAN,
         job[w].step \in {"look", "insert"},
         job[w].short \/ cart[job[w].variant] # NoRow,
         Again(w, saw), UNCHANGED <<cart, lastId, products, placed, removed>>
  PROVE  CartInv'
<1> USE CartAssumption
<1> DEFINE next == IF job[w].tries + 1 = Tries THEN "limit" ELSE "update"
           request == [job[w] EXCEPT !.tries = @ + 1, !.sawExistingLine = saw,
                                     !.step = next]
<1>1. job[w] \in Job /\ Sound(job[w], cart)
  BY DEF CartInv, CartTypeOK
<1>2. next \in {"limit", "update"}
  OBVIOUS
<1>3. request \in Job
  <2>1. \A r \in Job, t \in Nat, s \in Steps :
          [r EXCEPT !.tries = t, !.sawExistingLine = saw, !.step = s] \in Job
    BY DEF Job
  <2>2. job[w].tries + 1 \in Nat /\ next \in Steps
    BY <1>1, <1>2 DEF Job, Steps
  <2> QED BY <1>1, <2>1, <2>2
<1>4. job[w].tries = 0 \/ job[w].short
  BY <1>1 DEF Sound, Job
<1>5. Sound(request, cart)
  BY <1>1, <1>2, <1>4 DEF Sound, Job
<1>6. job' = [job EXCEPT ![w] = request]
  BY DEF Again, CartInv, CartTypeOK
<1> QED BY <1>3, <1>5, <1>6, MovesOnKeeps DEF MovesOn

LEMMA LookKeeps ==
  ASSUME CartInv, NEW w \in Workers, Look(w)
  PROVE  CartInv'
<1> USE CartAssumption
<1>1. job[w] \in Job /\ Sound(job[w], cart) /\ job[w].step = "look"
  BY DEF CartInv, CartTypeOK, Look
<1>2. CASE cart[job[w].variant] # NoRow /\ ~job[w].sawExistingLine /\ Again(w, TRUE)
  BY <1>1, <1>2, AgainKeeps DEF Look
<1>3. CASE cart[job[w].variant] = NoRow /\ Goes(w, "insert")
  <2> DEFINE request == [job[w] EXCEPT !.step = "insert"]
  <2>1. request \in Job /\ Sound(request, cart)
    BY <1>1, <1>3 DEF Sound, Job, Steps
  <2> QED BY <1>3, <2>1, MovesOnKeeps DEF MovesOn, Look, Goes, CartInv, CartTypeOK
<1>4. CASE job[w].sawExistingLine /\ Goes(w, "limit")
  <2> DEFINE request == [job[w] EXCEPT !.step = "limit"]
  <2>1. request \in Job /\ Sound(request, cart)
    BY <1>1, <1>4 DEF Sound, Job, Steps
  <2> QED BY <1>4, <2>1, MovesOnKeeps DEF MovesOn, Look, Goes, CartInv, CartTypeOK
<1> QED BY <1>2, <1>3, <1>4 DEF Look

LEMMA InsertKeeps ==
  ASSUME CartInv, NEW w \in Workers, Insert(w)
  PROVE  CartInv'
<1> USE CartAssumption
<1> DEFINE v == job[w].variant
<1>1. job[w] \in Job /\ Sound(job[w], cart) /\ job[w].step = "insert"
  BY DEF CartInv, CartTypeOK, Insert
<1>2. CASE cart[v] # NoRow /\ Again(w, job[w].sawExistingLine) /\ UNCHANGED <<cart, lastId>>
  <2>1. job[w].sawExistingLine \in BOOLEAN
    BY <1>1 DEF Job
  <2> QED BY <1>1, <1>2, <2>1, AgainKeeps DEF Insert
<1>3. CASE /\ cart[v] = NoRow /\ v \in products /\ lastId < MaxLines /\ lastId' = lastId + 1
           /\ cart' = [cart EXCEPT ![v] = [id |-> lastId + 1, quantity |-> job[w].quantity]]
           /\ Ends(w)
  <2> DEFINE row == [id |-> lastId + 1, quantity |-> job[w].quantity]
  <2>1. v \in Variants /\ row \in [id: Ids, quantity: 1 .. MaxQuantity]
    BY <1>1, <1>3 DEF CartInv, CartTypeOK, Sound, Ids
  <2>2. lastId' \in 0 .. MaxLines /\ \A id \in 1 .. lastId' : id \in 1 .. lastId \/ id = row.id
    BY <1>3 DEF CartInv, CartTypeOK
  <2>3. WritesRow(w, v, row)
    BY <1>3, <2>1, <2>2 DEF WritesRow, Insert, Ends
  <2> QED BY <2>3, WritesRowKeeps
<1> QED BY <1>2, <1>3 DEF Insert

\* A request that ends without a statement: refused, failed, or found nothing.
LEMMA EndsKeeps ==
  ASSUME CartInv, NEW w \in Workers, Ends(w),
         UNCHANGED <<cart, lastId, products, placed, removed>>
  PROVE  CartInv'
BY IdleSound, MovesOnKeeps DEF Ends, MovesOn

\* updateItem: the row is written as it was read, or not at all.
LEMMA UpdateItemKeeps ==
  ASSUME CartInv, NEW w \in Workers, NEW v \in Variants, NEW n \in 1 .. MaxQuantity,
         UpdateItem(w, v, n)
  PROVE  CartInv'
<1> DEFINE request == Request("save", v, cart[v].id, n, {})
<1>1. cart[v].id \in Ids
  BY DEF UpdateItem, InCart, CartInv, CartTypeOK
<1>2. request \in Job /\ Sound(request, cart)
  BY <1>1, CartAssumption DEF Request, Job, Steps, Sound, Ids
<1> QED BY <1>2, MovesOnKeeps DEF UpdateItem, MovesOn

LEMMA SaveKeeps ==
  ASSUME CartInv, NEW w \in Workers, Save(w)
  PROVE  CartInv'
<1>1. job[w] \in Job /\ Sound(job[w], cart) /\ job[w].step = "save"
  BY DEF CartInv, CartTypeOK, Save
<1>2. ASSUME NEW step \in {"write", "restore"}, Goes(w, step) PROVE CartInv'
  <2> DEFINE request == [job[w] EXCEPT !.step = step]
  <2>1. request \in Job /\ Sound(request, cart)
    BY <1>1 DEF Sound, Job, Steps
  <2> QED BY <1>2, <2>1, MovesOnKeeps DEF MovesOn, Save, Goes, CartInv, CartTypeOK
<1> QED BY <1>2, EndsKeeps DEF Save

LEMMA WriteKeeps ==
  ASSUME CartInv, NEW w \in Workers, Write(w)
  PROVE  CartInv'
<1> DEFINE v == job[w].variant
<1>1. /\ job[w] \in Job /\ Sound(job[w], cart) /\ job[w].step = "write"
      /\ v \in Variants /\ job[w].quantity \in 1 .. MaxQuantity /\ job[w].id \in Ids
  BY DEF CartInv, CartTypeOK, Write, Sound
<1>2. CASE cart[v].id = job[w].id
  <2> DEFINE row == [cart[v] EXCEPT !.quantity = job[w].quantity]
  <2>1. cart[v] \in [id: Ids, quantity: Nat]
    BY <1>1, <1>2, CartAssumption DEF CartInv, CartTypeOK, NoRow, Ids
  <2>2. WritesRow(w, v, row)
    BY <1>1, <1>2, <2>1 DEF WritesRow, Write, Ends, CartInv, CartTypeOK
  <2> QED BY <2>2, WritesRowKeeps
<1>3. CASE cart[v].id # job[w].id
  BY <1>3, EndsKeeps DEF Write
<1> QED BY <1>2, <1>3

LEMMA RestoreKeeps ==
  ASSUME CartInv, NEW w \in Workers, Restore(w)
  PROVE  CartInv'
<1> DEFINE v == job[w].variant
           row == [id |-> job[w].id, quantity |-> job[w].quantity]
<1>1. v \in Variants /\ row \in [id: Ids, quantity: 1 .. MaxQuantity]
  BY DEF CartInv, CartTypeOK, Restore, Sound
<1>2. CASE cart[v] = NoRow /\ v \in products
  <2>1. WritesRow(w, v, row)
    BY <1>1, <1>2 DEF WritesRow, Restore, Ends, CartInv, CartTypeOK
  <2> QED BY <2>1, WritesRowKeeps
<1>3. CASE ~(cart[v] = NoRow /\ v \in products)
  BY <1>3, EndsKeeps DEF Restore
<1> QED BY <1>2, <1>3

\* Removal: by the customer, with the product, with an order.
LEMMA DiscardKeeps ==
  ASSUME CartInv, NEW gone, Discard(gone),
         products' \subseteq Variants, UNCHANGED <<lastId, placed>>
  PROVE  CartInv'
<1>1. \A v \in gone : cart[v].id \in Ids
  BY DEF Discard, InCart, CartInv, CartTypeOK
<1>2. DeletesRows(job, gone)
  BY <1>1 DEF DeletesRows, Discard, CartInv, CartTypeOK, QuantityLimit
<1> QED BY <1>2, DeletesRowsKeeps

LEMMA DeleteProductKeeps ==
  ASSUME CartInv, NEW v \in Variants, DeleteProduct(v)
  PROVE  CartInv'
<1>1. products' \subseteq Variants
  BY DEF DeleteProduct, CartInv, CartTypeOK
<1>2. CASE v \in InCart
  BY <1>1, <1>2, DiscardKeeps DEF DeleteProduct
<1>3. CASE v \notin InCart
  BY <1>1, <1>3 DEF DeleteProduct, CartInv, CartTypeOK, QuantityLimit, NoLineVanishes,
                    InCart, Sound
<1> QED BY <1>2, <1>3

\* checkout: the lines it read had a legal quantity, and are what it deletes.
LEMMA CheckoutKeeps ==
  ASSUME CartInv, NEW w \in Workers, NEW chosen, Checkout(w, chosen)
  PROVE  CartInv'
<1> DEFINE lines == {LineOf(v) : v \in chosen}
           request == Request("order", NoVariant, 0, 0, lines)
<1>1. \A l \in lines : l \in Line /\ l.quantity \in 1 .. MaxQuantity
  BY DEF Checkout, InCart, LineOf, Line, CartInv, CartTypeOK, QuantityLimit
<1>2. request \in Job /\ Sound(request, cart)
  BY <1>1, CartAssumption DEF Request, Job, Steps, Sound
<1> QED BY <1>2, MovesOnKeeps DEF Checkout, MovesOn

LEMMA PlaceKeeps ==
  ASSUME CartInv, NEW w \in Workers, Place(w)
  PROVE  CartInv'
<1> DEFINE lines == job[w].lines
           gone == Ordered(lines)
           jobs == [job EXCEPT ![w] = Idle]
<1>1. job[w] \in Job /\ Sound(job[w], cart) /\ lines \in SUBSET Line
  BY DEF CartInv, CartTypeOK, Job
<1>2. jobs \in [Workers -> Job] /\ \A u \in Workers : Sound(jobs[u], cart)
  BY IdleSound DEF CartInv, CartTypeOK
<1>3. /\ placed' \in Seq(SUBSET Line) /\ Len(placed') = Len(placed) + 1
      /\ Len(placed) \in Nat
      /\ placed'[Len(placed')] = lines
      /\ \A i \in 1 .. Len(placed) : placed'[i] = placed[i]
  BY <1>1 DEF Place, CartInv, CartTypeOK
<1>4. \A i \in 1 .. Len(placed') : \A l \in placed'[i] : l.quantity \in 1 .. MaxQuantity
  BY <1>1, <1>3 DEF Sound, CartInv, QuantityLimit
<1>5. \A v \in gone : \E i \in 1 .. Len(placed') : \E l \in placed'[i] : l.id = cart[v].id
  BY <1>3 DEF Ordered
<1>6. DeletesRows(jobs, gone)
  BY <1>2, <1>3, <1>4, <1>5 DEF DeletesRows, Place, Ordered, CartInv, CartTypeOK
<1> QED BY <1>6, DeletesRowsKeeps

-----------------------------------------------------------------------------
(* The theorems *)

LEMMA CartInitInv == CartInit => CartInv
<1> SUFFICES ASSUME CartInit PROVE CartInv
  OBVIOUS
<1> USE CartAssumption DEF CartInit
<1>1. CartTypeOK
  BY IdleSound DEF CartTypeOK
<1>2. QuantityLimit /\ NoLineVanishes
  BY DEF QuantityLimit, NoLineVanishes, InCart
<1>3. ASSUME NEW w \in Workers PROVE Sound(job[w], cart)
  BY IdleSound
<1> QED BY <1>1, <1>2, <1>3 DEF CartInv

LEMMA CartStepInv == CartInv /\ [CartNext]_cartVars => CartInv'
<1> SUFFICES ASSUME CartInv, [CartNext]_cartVars PROVE CartInv'
  OBVIOUS
<1>1. ASSUME NEW w \in Workers, NEW v \in Variants, NEW n \in 1 .. MaxQuantity,
             AddItem(w, v, n) \/ UpdateItem(w, v, n)
      PROVE  CartInv'
  BY <1>1, AddItemKeeps, UpdateItemKeeps
<1>2. ASSUME NEW w \in Workers, Increase(w) \/ Look(w) \/ Insert(w) PROVE CartInv'
  BY <1>2, IncreaseKeeps, LookKeeps, InsertKeeps
<1>3. ASSUME NEW w \in Workers, Save(w) \/ Write(w) \/ Restore(w) PROVE CartInv'
  BY <1>3, SaveKeeps, WriteKeeps, RestoreKeeps
<1>4. ASSUME NEW w \in Workers, RefuseLimit(w) \/ Abandon(w) PROVE CartInv'
  BY <1>4, EndsKeeps DEF RefuseLimit, Abandon
<1>5. ASSUME NEW w \in Workers, NEW chosen, Checkout(w, chosen) PROVE CartInv'
  BY <1>5, CheckoutKeeps
<1>6. ASSUME NEW w \in Workers, Place(w) PROVE CartInv'
  BY <1>6, PlaceKeeps
<1>7. ASSUME NEW gone, RemoveItems(gone) PROVE CartInv'
  BY <1>7, DiscardKeeps DEF RemoveItems, CartInv, CartTypeOK
<1>8. ASSUME NEW v \in Variants, DeleteProduct(v) PROVE CartInv'
  BY <1>8, DeleteProductKeeps
<1>9. CASE UNCHANGED cartVars
  BY <1>9 DEF cartVars, CartInv, CartTypeOK, QuantityLimit, NoLineVanishes, InCart, Sound
<1> QED BY <1>1, <1>2, <1>3, <1>4, <1>5, <1>6, <1>7, <1>8, <1>9 DEF CartNext

\* Whatever requests of the customer run at once, in whatever order their statements
\* are executed, the cart, the orders and every open request stay as CartInv says.
THEOREM CartInvariance == CartSpec => []CartInv
BY CartInitInv, CartStepInv, PTL DEF CartSpec

\* No line and no order line exceeds the limit of pieces or is empty: additions,
\* assignments and checkouts that overlap cannot get past the condition of the UPDATE.
THEOREM QuantityLimitHolds == CartSpec => []QuantityLimit
<1>1. CartInv => QuantityLimit
  BY DEF CartInv
<1> QED BY <1>1, CartInvariance, PTL

\* A customer is told that the line is full only when it was, or when it was taken
\* out of the cart during the request; a lost race for the INSERT is no reason.
THEOREM LimitIsJustified == CartSpec => []LimitJustified
<1>1. CartInv => LimitJustified
  BY DEF CartInv, LimitJustified, Sound
<1> QED BY <1>1, CartInvariance, PTL

\* A line leaves the cart only when it is removed or is part of an order: checkout
\* deletes no line that it did not read.
THEOREM NoLineIsLost == CartSpec => []NoLineVanishes
<1>1. CartInv => NoLineVanishes
  BY DEF CartInv
<1> QED BY <1>1, CartInvariance, PTL
=============================================================================
