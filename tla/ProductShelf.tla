---------------------------- MODULE ProductShelf ----------------------------
(***************************************************************************)
(* The administration of one product.  An update reads the product, checks *)
(* the request against it, and saves it: save reads the row again and      *)
(* updates the columns in which the product differs from that row.  Other  *)
(* updates may run between any two of these statements.  The slug and the  *)
(* SKU, which have unique keys, and the descriptive columns are left out.  *)
(***************************************************************************)
EXTENDS Naturals

CONSTANTS
  SubCategories,  \* the subcategories products can be in
  Parents,        \* the categories
  ParentOf,       \* ParentOf[s]: the category of subcategory s
  Amounts,        \* prices, in VND
  Clerks          \* connections of administrators

VARIABLES
  goods,     \* the row of the product, or NoGoods
  change,    \* change[k]: the update clerk k makes, and how far it came
  torn       \* history: an update hit a row that had changed since save read it

shelfVars == <<goods, change, torn>>

ASSUME ShelfAssumption ==
  Amounts \subseteq Nat \ {0} /\ ParentOf \in [SubCategories -> Parents]

-----------------------------------------------------------------------------
\* No original price is 0.
Goods == [category: Parents, subcategory: SubCategories, price: Amounts,
          originalPrice: Amounts \cup {0}]
NoGoods == [category |-> "none", subcategory |-> "none", price |-> 0, originalPrice |-> 0]

GoodsChange(step, product, row) == [step |-> step, product |-> product, row |-> row]
NoGoodsChange == GoodsChange("idle", NoGoods, NoGoods)

\* validateSubcategoryBelongsToCategory
Belongs(product) == ParentOf[product.subcategory] = product.category

\* Mutant of PriceFits: nothing is checked.
PriceUnchecked(product) == TRUE

\* PRODUCT_INVALID_PRICE otherwise
PriceFits(product) == product.originalPrice = 0 \/ product.originalPrice >= product.price

\* CK_products_original_price
CheckHolds(product) == product.originalPrice = 0 \/ product.originalPrice >= product.price

\* A request gives some of the columns: the set of its value, or {}.
Given(value, old) == IF value = {} THEN old ELSE CHOOSE v \in value : TRUE

Assigned(product, request) ==
  [category |-> Given(request.category, product.category),
   subcategory |-> Given(request.subcategory, product.subcategory),
   price |-> Given(request.price, product.price),
   originalPrice |-> Given(request.originalPrice, product.originalPrice)]

-----------------------------------------------------------------------------
CreateGoods(product) ==
  /\ goods = NoGoods
  /\ PriceFits(product) /\ Belongs(product)
  /\ goods' = product
  /\ torn' = FALSE
  /\ UNCHANGED change

\* update: the product is read; the pair of the changed category and subcategory
\* and the prices are checked.
CheckUpdate(k, request) ==
  /\ change[k] = NoGoodsChange
  /\ goods # NoGoods
  /\ LET product == Assigned(goods, request)
     IN  /\ Belongs(product) /\ PriceFits(product)
         /\ change' = [change EXCEPT ![k] = GoodsChange("read", product, NoGoods)]
  /\ UNCHANGED <<goods, torn>>

\* save: SELECT of the row by its id
ReadAgain(k) ==
  /\ change[k].step = "read"
  /\ change' = [change EXCEPT ![k].step = "write", ![k].row = goods]
  /\ UNCHANGED <<goods, torn>>

\* The columns that differ from the row save read.
Updated(row, product, old) ==
  [column \in DOMAIN product |->
     IF product[column] = old[column] THEN row[column] ELSE product[column]]

\* save: UPDATE, or INSERT of a product that was gone when save read it.  An UPDATE
\* of a row that is gone by now changes nothing; one that breaks the CHECK fails.
WriteGoods(k) ==
  LET c == change[k]
      new == IF c.row = NoGoods THEN c.product ELSE Updated(goods, c.product, c.row)
  IN  /\ c.step = "write"
      /\ change' = [change EXCEPT ![k] = NoGoodsChange]
      /\ \/ /\ goods = NoGoods <=> c.row = NoGoods
            /\ CheckHolds(new)
            /\ goods' = new
            /\ torn' = (torn \/ c.row # goods)
         \/ /\ (goods = NoGoods) # (c.row = NoGoods) \/ ~CheckHolds(new)
            /\ UNCHANGED <<goods, torn>>

DeleteGoods ==
  /\ goods # NoGoods
  /\ goods' = NoGoods
  /\ UNCHANGED <<change, torn>>

-----------------------------------------------------------------------------
ShelfInit ==
  /\ goods = NoGoods
  /\ change = [k \in Clerks |-> NoGoodsChange]
  /\ torn = FALSE

Optional(S) == {{}} \cup {{v} : v \in S}
ShelfRequest == [category: Optional(Parents), subcategory: Optional(SubCategories),
                 price: Optional(Amounts), originalPrice: Optional(Amounts \cup {0})]

ShelfNext ==
  \/ \E product \in Goods : CreateGoods(product)
  \/ \E k \in Clerks :
       \/ \E request \in ShelfRequest : CheckUpdate(k, request)
       \/ ReadAgain(k) \/ WriteGoods(k)
  \/ DeleteGoods

ShelfSpec == ShelfInit /\ [][ShelfNext]_shelfVars

-----------------------------------------------------------------------------
ShelfTypeOK ==
  /\ goods \in Goods \cup {NoGoods}
  /\ change \in [Clerks -> [step: {"idle", "read", "write"},
                            product: Goods \cup {NoGoods}, row: Goods \cup {NoGoods}]]
  /\ torn \in BOOLEAN

\* A product is in a subcategory of its own category, unless two updates were saved
\* at once, each writing one half of the pair; and an update whose row stays as save
\* read it never fails at the CHECK of the prices, which the code checks before.
ProductFits ==
  /\ goods = NoGoods \/ torn \/ Belongs(goods)
  /\ \A k \in Clerks :
       change[k].step = "write" /\ change[k].row = goods =>
         CheckHolds(change[k].product)
=============================================================================
