-------------------------- MODULE SchemaMigrations --------------------------
(***************************************************************************)
(* The history of the database schema.  Each migration has an up and a     *)
(* down; a deployment runs every pending up in one transaction under an    *)
(* advisory lock, and an operator reverts the last migration, without that *)
(* lock.  Processes may stop at any point.                                 *)
(*                                                                         *)
(* The schema is a set of objects: tables, and of their columns, checks,   *)
(* keys, indexes and seeded rows those that some migration adds or removes *)
(* outside of CREATE TABLE and DROP TABLE.  A migration names the objects  *)
(* it adds and drops, and those that its IF [NOT] EXISTS clauses tolerate. *)
(***************************************************************************)
EXTENDS Naturals, Sequences, SequencesExt, FiniteSets

CONSTANTS
  Deployers,  \* processes that run or revert migrations
  NoDeployer,
  Releases,   \* how many migrations the deployed releases contain
  MaxFacts    \* bound: kinds of rows in the way of a migration at a time

VARIABLES
  schema,     \* the objects there are
  applied,    \* the rows of typeorm_migrations: numbers of migrations, oldest first
  lock,       \* who holds the advisory lock MIGRATION_LOCK_KEY
  deployer,   \* deployer[d]: what process d does, and the applied migrations it read
  facts,      \* rows that some migration cannot be run with
  overlapped  \* history: a revert overlapped another process

schemaVars == <<schema, applied, lock, deployer, facts, overlapped>>

ASSUME DeployerAssumption == NoDeployer \notin Deployers /\ Releases \subseteq 1..30 /\ MaxFacts \in Nat

-----------------------------------------------------------------------------
\* Objects are triples of a table, a name, and the table a foreign key refers to.
On(table, names) == {<<table, name, "">> : name \in names}
Refers(table, tables) == {<<table, "FK", other>> : other \in tables}
TableItself(table) == <<table, "table", "">>
Table(table, refs) == {TableItself(table)} \cup Refers(table, refs)
Tables(names) == {TableItself(t) : t \in names}

\* A direction of a migration: the objects it drops and those it drops if they exist,
\* those it adds and those it adds unless they exist, and the rows it fails with.
\* A dropped table takes its objects along.
Change(drop, lose, add, make, refuses) ==
  [drop |-> drop, lose |-> lose, add |-> add, make |-> make, refuses |-> refuses]
NoChange == Change({}, {}, {}, {}, {})
Migration(up, down) == [up |-> up, down |-> down]

-----------------------------------------------------------------------------
InitSchema == Migration(
  Change({}, {},
    Table("users", {}) \cup Table("categories", {}) \cup Table("collections", {})
      \cup Table("products", {}) \cup Table("subcategories", {"categories"})
      \cup Table("reviews", {"users"})
      \cup On("products", {"category", "category NOT NULL", "subcategory", "subcategory NOT NULL",
                           "IDX_products_category", "IDX_products_subcategory", "decimal price"})
      \cup On("subcategories", {"id INT"}) \cup On("collections", {"product_ids"}), {}, {}),
  Change({}, Tables({"users", "products", "categories", "subcategories", "collections", "reviews"}),
    {}, {}, {}))

SeedData ==
  LET rows == UNION {On(t, {"rows"}) :
        t \in {"products", "categories", "subcategories", "collections", "reviews"}}
  IN  Migration(Change({}, {}, {}, rows, {}), Change({}, rows, {}, {}, {}))

AddUserRole ==
  Migration(Change({}, {}, On("users", {"role"}), {}, {}),
            Change(On("users", {"role"}), {}, {}, {}, {}))

AddWishlistCartOrderAddress == Migration(
  Change({}, {},
    Table("addresses", {"users"}) \cup Table("wishlists", {"users", "products"})
      \cup Table("carts", {"users"}) \cup Table("cart_items", {"carts", "products"})
      \cup Table("orders", {"users"}) \cup Table("order_items", {"orders", "products"})
      \cup On("orders", {"user_id NOT NULL", "decimal amounts"})
      \cup On("order_items", {"decimal price"}), {}, {}),
  Change({}, Tables({"order_items", "orders", "cart_items", "carts", "wishlists", "addresses"}),
    {}, {}, {}))

AddUserPermissions ==
  Migration(Change({}, {}, On("users", {"permissions"}), {}, {}),
            Change(On("users", {"permissions"}), {}, {}, {}, {}))

\* down brings the two columns back without NOT NULL and without their indexes.
AddForeignKeyConstraints ==
  LET old == On("products", {"category", "subcategory"}) \cup On("collections", {"product_ids"})
      gone == On("products", {"category NOT NULL", "subcategory NOT NULL",
                              "IDX_products_category", "IDX_products_subcategory"})
      new == On("products", {"category_id", "subcategory_id INT"})
               \cup Refers("products", {"categories", "subcategories"})
               \cup Refers("reviews", {"products"})
      junction == Table("collection_products", {"collections", "products"})
  IN  Migration(Change(old, gone, new \cup junction, {}, {}),
                Change(new \cup {TableItself("collection_products")}, {}, old, {}, {}))

AddCheckConstraints ==
  LET checks ==
        On("products", {"CK_products_price_positive", "CK_products_original_price",
             "CK_products_status", "IDX_products_category_id", "IDX_products_subcategory_id"})
          \cup On("users", {"CK_users_role", "CK_users_status"})
          \cup On("orders", {"CK_orders_status", "CK_orders_subtotal", "CK_orders_shipping_fee",
                             "CK_orders_total"})
          \cup On("order_items", {"CK_order_items_price", "CK_order_items_quantity"})
          \cup On("subcategories", {"UQ_subcategories_category_slug"})
          \cup On("collection_products", {"IDX_cp_product_id"})
  IN  Migration(Change({}, {}, checks, {}, {}), Change({}, checks, {}, {}, {}))

FixOrderUserFKAndIndexes ==
  LET key == Refers("orders", {"users"})
      required == On("orders", {"user_id NOT NULL"})
      indexes == On("cart_items", {"IDX_cart_items_product_id"})
                   \cup On("order_items", {"IDX_order_items_product_id"})
  IN  Migration(Change(key, required, key \cup indexes, {}, {}),
                Change(key, indexes, key, required, {}))

AddProductArrayChecks ==
  LET checks == On("products", {"CK_products_sizes_not_empty", "CK_products_colors_not_empty",
                                "CK_products_images_not_empty"})
  IN  Migration(Change({}, {}, checks, {}, {}), Change({}, checks, {}, {}, {}))

FixRemainingConstraints ==
  LET checks ==
        On("wishlists", {"IDX_wishlists_product_id"})
          \cup On("subcategories", {"IDX_subcategories_category_id", "CK_subcategories_count"})
          \cup On("cart_items", {"UQ_cart_items_unique", "CK_cart_items_quantity_max"})
          \cup On("order_items", {"CK_order_items_price_positive"})
      required == On("products", {"subcategory_id NOT NULL"})
  IN  Migration(Change({}, {}, checks, required, {}),
                Change({}, checks \cup required, {}, {}, {}))

\* A dropped column takes its index and its NOT NULL along.  down cannot give a number
\* to a subcategory that was created after up.
MigrateSubcategoryToNanoid ==
  LET key == Refers("products", {"subcategories"})
      column == On("products", {"subcategory_id NOT NULL", "IDX_products_subcategory_id"})
      added == On("subcategories", {"_old_id", "created_at", "updated_at"})
      numbers == On("products", {"subcategory_id INT"}) \cup On("subcategories", {"id INT"})
      names == On("products", {"subcategory_id VARCHAR"}) \cup On("subcategories", {"id VARCHAR"})
  IN  Migration(
        Change(key \cup numbers, column, key \cup names \cup column \cup added, {}, {}),
        Change(key \cup names \cup added, column, key \cup numbers \cup column, {},
          {"new subcategory"}))

-----------------------------------------------------------------------------
\* The versions of the CHECKs that are redefined; DROP CONSTRAINT IF EXISTS names all.
ConfigTypes == On("site_configs", {"type BANNER", "type SHIPPING", "type CURRENCY"})
PaidChecks == On("orders", {"CK_orders_payment_status paid", "CK_orders_paid_at paid",
                            "CK_orders_payment_status refunded", "CK_orders_paid_at refunded"})
Verifications == On("payment_transactions", {"verification AUTOMATIC", "verification MANUAL"})

AddSiteConfig == Migration(
  Change({}, {}, Table("site_configs", {}) \cup On("site_configs", {"type BANNER"}), {}, {}),
  Change({TableItself("site_configs")}, {}, {}, {}, {}))

AddCategoryHeroImage ==
  Migration(Change({}, {}, On("categories", {"hero_image"}), {}, {}),
            Change(On("categories", {"hero_image"}), {}, {}, {}, {}))

AddMediaFiles ==
  LET media == Table("media_files", {}) \cup On("media_files", {"IDX_media_files_created_at"})
  IN  Migration(Change({}, {}, media, {}, {}), Change(media, {}, {}, {}, {}))

\* The default of the column goes with it.
AddCategoryPriority ==
  LET priority == On("categories", {"priority", "CHK_categories_priority 0",
                                    "IDX_categories_priority"})
      default == On("categories", {"priority DEFAULT"})
  IN  Migration(Change({}, {}, priority \cup default, {}, {}), Change(priority, default, {}, {}, {}))

MakeCategoryPriorityUnique ==
  LET before == On("categories", {"CHK_categories_priority 0", "IDX_categories_priority"})
      default == On("categories", {"priority DEFAULT"})
      after == On("categories", {"CHK_categories_priority 1", "UQ_categories_priority"})
  IN  Migration(Change(before, default, after, {}, {}), Change(after, {}, before, default, {}))

AddProductBadgeCheck ==
  LET check == On("products", {"CHK_products_badge"})
  IN  Migration(Change({}, {}, check, {}, {"unknown badge"}), Change(check, {}, {}, {}, {}))

\* down clears the badges that the old check does not know.
ExtendProductBadgeEnum ==
  LET before == On("products", {"CHK_products_badge"})
                  \cup On("categories", {"CHK_categories_priority 1"})
      after == On("products", {"CK_products_badge"})
                 \cup On("categories", {"CK_categories_priority 1"})
  IN  Migration(Change(before, {}, after, {}, {}), Change(after, {}, before, {}, {}))

AddPayments ==
  LET columns == On("orders", {"payment_status", "paid_at"})
      checks == On("orders", {"CK_orders_payment_status paid", "CK_orders_paid_at paid"})
      tables == Table("payment_attempts", {"orders"})
                  \cup Table("payment_transactions", {"payment_attempts"})
                  \cup On("payment_transactions", {"verification AUTOMATIC", "UQ reference"})
      grants == On("users", {"grants PAYMENT"})
  IN  Migration(
        Change({}, PaidChecks, checks, columns \cup tables \cup grants, {}),
        Change({}, PaidChecks \cup columns \cup grants
                     \cup Tables({"payment_transactions", "payment_attempts"}), {}, {}, {}))

AddShippingConfig ==
  LET row == On("site_configs", {"SHIPPING_CONFIG"})
  IN  Migration(
        Change({}, ConfigTypes, On("site_configs", {"type SHIPPING"}), row, {}),
        Change({}, ConfigTypes \cup row, On("site_configs", {"type BANNER"}), {}, {}))

AddPaymentConfirmation ==
  LET columns == On("payment_transactions", {"confirmed_by", "confirmed_at", "confirm_note"})
      checks == Refers("payment_transactions", {"users"})
                  \cup On("payment_transactions", {"CK_payment_transactions_confirmed"})
  IN  Migration(
        Change({}, checks \cup Verifications,
          checks \cup On("payment_transactions", {"verification MANUAL"}), columns, {}),
        Change({}, checks \cup Verifications \cup columns,
          On("payment_transactions", {"verification AUTOMATIC"}), {}, {}))

\* The references an administrator typed get their prefix back in down, so that those
\* of the two providers differ.
PaymentTransactionUniquePerProvider ==
  LET one == On("payment_transactions", {"UQ reference"})
      pair == On("payment_transactions", {"UQ provider, reference"})
  IN  Migration(Change({}, one \cup pair, pair, {}, {}), Change({}, pair, one, {}, {}))

\* Paid orders are confirmed; down is empty.
ConfirmPaidPendingOrders == Migration(NoChange, NoChange)

AddRefunds ==
  LET before == On("orders", {"CK_orders_payment_status paid", "CK_orders_paid_at paid"})
      after == On("orders", {"CK_orders_payment_status refunded", "CK_orders_paid_at refunded"})
      refunds == Table("refunds", {"orders", "payment_attempts", "users"})
                   \cup On("refunds", {"reason ADMIN_CANCELLED"})
  IN  Migration(Change({}, PaidChecks, after, refunds, {}),
                Change({}, PaidChecks \cup Tables({"refunds"}), before, {}, {}))

AddReturns ==
  LET columns == On("orders", {"delivered_at"})
                   \cup On("refunds", {"return_request_id", "IDX_refunds_return_request_id"})
      tables == Table("return_requests", {"orders", "users"})
                  \cup Table("return_request_items", {"return_requests", "order_items"})
      checks == On("orders", {"CK_orders_delivered_at"}) \cup Refers("refunds", {"return_requests"})
                  \cup On("refunds", {"reason RETURN", "CK_refunds_return_request"})
      before == On("refunds", {"reason ADMIN_CANCELLED"})
      grants == On("users", {"grants RETURN"})
  IN  Migration(
        Change({}, checks \cup before, checks, columns \cup tables \cup grants, {}),
        Change({}, checks \cup columns \cup grants \cup before
                     \cup Tables({"return_request_items", "return_requests"}),
          before, {}, {"return refund"}))

AddPaymentAttemptCreatedBy ==
  LET columns == On("payment_attempts", {"created_by", "IDX_payment_attempts_created_by"})
      key == Refers("payment_attempts", {"users"})
  IN  Migration(Change({}, key, key, columns, {}), Change({}, key \cup columns, {}, {}, {}))

AddReviewFeatures ==
  LET columns == On("reviews", {"order_item_id", "size", "color", "fit", "status", "helpful_count",
        "edited_at", "moderation_note", "moderated_by", "moderated_at", "reply", "replied_by",
        "replied_at", "IDX_reviews_status", "IDX_reviews_product_status_created",
        "IDX_reviews_moderated_by", "IDX_reviews_replied_by"})
      checks == Refers("reviews", {"order_items"})
        \cup On("reviews", {"FK_reviews_moderated_by", "FK_reviews_replied_by",
               "UQ_reviews_order_item_id", "CK_reviews_status", "CK_reviews_fit",
               "CK_reviews_helpful_count", "CK_reviews_hidden_note", "CK_reviews_reply"})
      grants == On("users", {"grants REVIEW"})
  IN  Migration(
        Change({}, checks, checks, columns \cup grants \cup Table("review_votes", {"reviews", "users"}),
          {}),
        Change({}, checks \cup columns \cup grants \cup Tables({"review_votes"}), {}, {},
          {"customer review"}))

AddReviewImagesAndProductRating ==
  LET columns == On("media_files", {"purpose", "uploaded_by", "IDX_media_files_purpose",
                                    "IDX_media_files_uploaded_by_purpose_created"})
        \cup On("reviews", {"images"})
        \cup On("products", {"rating_average", "rating_count", "IDX_products_rating_average"})
      checks == Refers("media_files", {"users"}) \cup On("media_files", {"CK_media_files_purpose"})
        \cup On("reviews", {"CK_reviews_images"})
        \cup On("products", {"CK_products_rating_average", "CK_products_rating_count",
                             "CK_products_rating_pair"})
  IN  Migration(Change({}, checks, checks, columns, {}),
                Change({}, checks \cup columns, {}, {}, {"review image"}))

\* down fails with amounts of more than 99 999 999.
VndBaseCurrency ==
  LET decimal == On("products", {"decimal price"}) \cup On("order_items", {"decimal price"})
                   \cup On("orders", {"decimal amounts"})
      bigint == On("products", {"bigint price"}) \cup On("order_items", {"bigint price"})
                  \cup On("orders", {"bigint amounts"})
      check == On("orders", {"CK_orders_exchange_rate"})
      rate == On("orders", {"exchange_rate"})
      rows == On("site_configs", {"EXCHANGE_RATE", "SHIPPING_CONFIG in VND"})
  IN  Migration(
        Change({}, decimal \cup check \cup ConfigTypes, check \cup On("site_configs", {"type CURRENCY"}),
          bigint \cup rate \cup rows, {}),
        Change({}, bigint \cup check \cup rate \cup rows \cup ConfigTypes,
          On("site_configs", {"type SHIPPING"}), decimal, {"large amount"}))

\* The prices are overwritten; down is empty.
SetAllProductPricesTo2000Vnd == Migration(NoChange, NoChange)

Migrations ==
  <<InitSchema, SeedData, AddUserRole, AddWishlistCartOrderAddress, AddUserPermissions,
    AddForeignKeyConstraints, AddCheckConstraints, FixOrderUserFKAndIndexes,
    AddProductArrayChecks, FixRemainingConstraints, MigrateSubcategoryToNanoid, AddSiteConfig,
    AddCategoryHeroImage, AddMediaFiles, AddCategoryPriority, MakeCategoryPriorityUnique,
    AddProductBadgeCheck, ExtendProductBadgeEnum, AddPayments, AddShippingConfig,
    AddPaymentConfirmation, PaymentTransactionUniquePerProvider, ConfirmPaidPendingOrders,
    AddRefunds, AddReturns, AddPaymentAttemptCreatedBy, AddReviewFeatures,
    AddReviewImagesAndProductRating, VndBaseCurrency, SetAllProductPricesTo2000Vnd>>

-----------------------------------------------------------------------------
\* What PostgreSQL makes of a change: the dropped tables take their objects along, and
\* CREATE TABLE IF NOT EXISTS adds nothing to a table that is there.
Result(c, s) ==
  LET dropped == {t \in {o[1] : o \in c.drop \cup c.lose} : TableItself(t) \in c.drop \cup c.lose}
      kept == {o \in s \ (c.drop \cup c.lose) : o[1] \notin dropped}
      made == {o \in c.make : ~(TableItself(o[1]) \in c.make \cap kept)}
  IN  kept \cup c.add \cup made

\* Every object is in a table there is and refers to one.
WellFormed(s) == \A o \in s : TableItself(o[1]) \in s /\ (o[3] # "" => TableItself(o[3]) \in s)

\* The statements of a change run: what they drop exists, what they add does not.
Runs(c, s) ==
  /\ c.drop \subseteq s
  /\ c.add \cap (s \ (c.drop \cup c.lose)) = {}
  /\ WellFormed(Result(c, s))

\* The rows in the way of a migration: where they are, and whether the schema allows them.
Facts == [
  badge    |-> [row |-> "unknown badge", table |-> "products"],
  nanoid   |-> [row |-> "new subcategory", table |-> "subcategories"],
  returned |-> [row |-> "return refund", table |-> "refunds"],
  bought   |-> [row |-> "customer review", table |-> "reviews"],
  image    |-> [row |-> "review image", table |-> "media_files"],
  amount   |-> [row |-> "large amount", table |-> "products"]]

Allowed(fact, s) ==
  CASE fact = Facts.badge -> <<"products", "CHK_products_badge", "">> \notin s
                               /\ <<"products", "CK_products_badge", "">> \notin s
    [] fact = Facts.nanoid -> <<"subcategories", "id VARCHAR", "">> \in s
    [] fact = Facts.returned -> <<"refunds", "reason RETURN", "">> \in s
    [] fact = Facts.bought -> <<"reviews", "order_item_id", "">> \in s
    [] fact = Facts.image -> <<"media_files", "purpose", "">> \in s
    [] fact = Facts.amount -> <<"products", "bigint price", "">> \in s

Refused(c) == \E fact \in facts : fact.row \in c.refuses

-----------------------------------------------------------------------------
Idle == [pc |-> "idle", release |-> 0, read |-> <<>>]

SchemaInit ==
  /\ schema = {} /\ applied = <<>> /\ lock = NoDeployer /\ facts = {}
  /\ deployer = [d \in Deployers |-> Idle] /\ overlapped = FALSE

\* An instance starts, or an operator enters yarn migration:run or migration:revert.
BeginRun(d) ==
  /\ deployer[d].pc = "idle"
  /\ \E n \in Releases : deployer' = [deployer EXCEPT ![d] = [Idle EXCEPT !.pc = "waits", !.release = n]]
  /\ UNCHANGED <<schema, applied, lock, facts, overlapped>>

\* Mutant of TakeLock: the run starts while another deployer holds the lock.
TakeNoLock(d) ==
  /\ deployer[d].pc = "waits"
  /\ deployer' = [deployer EXCEPT ![d].pc = "locked"]
  /\ UNCHANGED <<schema, applied, lock, facts, overlapped>>

\* pg_advisory_lock, on a connection of its own.
TakeLock(d) ==
  /\ deployer[d].pc = "waits"
  /\ lock = NoDeployer
  /\ lock' = d
  /\ deployer' = [deployer EXCEPT ![d].pc = "locked"]
  /\ UNCHANGED <<schema, applied, facts, overlapped>>

\* TypeORM reads typeorm_migrations, in a run and in a revert.
LoadApplied(d) ==
  /\ \/ /\ deployer[d].pc = "locked"
        /\ deployer' = [deployer EXCEPT ![d].pc = "runs", ![d].read = applied]
     \/ /\ deployer[d].pc = "idle"
        /\ \E n \in Releases : deployer' =
             [deployer EXCEPT ![d] = [pc |-> "reverts", release |-> n, read |-> applied]]
  /\ UNCHANGED <<schema, applied, lock, facts, overlapped>>

\* The up of migration i, if it is pending, and its row, after those before it made r.
WithUp(d, r, i) ==
  LET up == Migrations[i].up
  IN  IF i \in Range(deployer[d].read) THEN r
      ELSE [ok |-> r.ok /\ Runs(up, r.schema) /\ ~Refused(up),
            schema |-> Result(up, r.schema), applied |-> Append(r.applied, i)]

\* Schema and rows after the pending ups, in the order of their timestamps, unless one fails.
Upgraded(d) ==
  LET after[i \in 0..deployer[d].release] ==
        IF i = 0 THEN [ok |-> TRUE, schema |-> schema, applied |-> applied]
                 ELSE WithUp(d, after[i - 1], i)
  IN  after[deployer[d].release]

Ends(d) ==
  /\ deployer' = [deployer EXCEPT ![d] = Idle]
  /\ lock' = IF lock = d THEN NoDeployer ELSE lock

\* Another process has read typeorm_migrations and not written it yet.
OthersRead(d) == \E e \in Deployers \ {d} : deployer[e].pc \in {"runs", "reverts"}

\* runMigrations is one transaction: every pending up and its row, or none.
RunAll(d) ==
  /\ deployer[d].pc = "runs"
  /\ IF Upgraded(d).ok
       THEN schema' = Upgraded(d).schema /\ applied' = Upgraded(d).applied
       ELSE UNCHANGED <<schema, applied>>
  /\ Ends(d)
  /\ UNCHANGED <<facts, overlapped>>

\* undoLastMigration takes no lock.  A release that does not know the last migration, and
\* a down that fails, change nothing.  A migration has one row at most: a run holds the lock
\* from its read to its commit, and reverts only take rows away.
UndoLast(d) ==
  LET read == deployer[d].read
      last == Last(read)
      change == Migrations[last].down
      done == /\ read # <<>> /\ last <= deployer[d].release
              /\ Runs(change, schema) /\ ~Refused(change)
  IN  /\ deployer[d].pc = "reverts"
      /\ IF done
           THEN /\ schema' = Result(change, schema)
                /\ applied' = RemoveFirst(applied, last)
                /\ facts' = {f \in facts : TableItself(f.table) \in schema'}
                /\ overlapped' = (overlapped \/ read # applied \/ OthersRead(d))
           ELSE UNCHANGED <<schema, applied, facts, overlapped>>
      /\ Ends(d)

\* The process dies: its transaction rolls back and its session gives the lock back.
Dies(d) ==
  /\ deployer[d].pc # "idle"
  /\ Ends(d)
  /\ UNCHANGED <<schema, applied, facts, overlapped>>

\* The shop works on: rows that a migration refuses appear and disappear.
RowsChange ==
  /\ \E f \in Range(Facts) :
       \/ /\ f \notin facts /\ Cardinality(facts) < MaxFacts
          /\ TableItself(f.table) \in schema /\ Allowed(f, schema)
          /\ facts' = facts \cup {f}
       \/ facts' = facts \ {f} /\ f \in facts
  /\ UNCHANGED <<schema, applied, lock, deployer, overlapped>>

SchemaNext ==
  \/ \E d \in Deployers :
       BeginRun(d) \/ TakeLock(d) \/ LoadApplied(d) \/ RunAll(d) \/ UndoLast(d) \/ Dies(d)
  \/ RowsChange

SchemaSpec == SchemaInit /\ [][SchemaNext]_schemaVars

-----------------------------------------------------------------------------
\* The schema of a database on which the first n migrations ran once, in order, and the
\* one that is left when all later migrations ran too and were reverted.
Built[n \in 0..30] == IF n = 0 THEN {} ELSE Result(Migrations[n].up, Built[n - 1])
Reverted[n \in 0..30] ==
  IF n = 30 THEN Built[30] ELSE Result(Migrations[n + 1].down, Reverted[n + 1])

\* How many migrations are recorded, with what schema.
Histories == {<<n, Built[n]>> : n \in 0..30} \cup {<<n, Reverted[n]>> : n \in 0..30}

\* The change finds the schema it was written for, and makes one of n migrations of it.
Leads(c, s, n) == Runs(c, s) /\ <<n, Result(c, s)>> \in Histories

\* The rows that are allowed with the schema s and are not in the way of the change.
Spared(c, s) == {f \in Range(Facts) : f.row \notin c.refuses /\ Allowed(f, s)}

\* The migrations fit each other one by one: whatever was reverted before, each runs, and
\* leaves no rows that the new schema does not allow; a dropped table takes its rows along.
ASSUME MigrationsAssumption ==
  \A n \in 0..30 : \A s \in {Built[n], Reverted[n]} :
    /\ n = 0 => s = {}
    /\ n = 30 => s = Built[30]
    /\ n < 30 => LET up == Migrations[n + 1].up
                 IN  /\ Leads(up, s, n + 1)
                     /\ \A f \in Spared(up, s) : Allowed(f, Result(up, s))
    /\ n > 0 => LET down == Migrations[n].down
                IN  /\ Leads(down, s, n - 1)
                    /\ \A f \in Spared(down, s) :
                         TableItself(f.table) \in Result(down, s) => Allowed(f, Result(down, s))

\* As long as no revert overlapped another process, every migration is recorded at most
\* once and in order; the next up and the last down find the schema they were written for,
\* so that each fails on nothing but the rows it refuses; whatever was reverted before, the
\* first down leaves nothing and the last up the schema of a new database; and no revert took
\* the column or the check from under rows that need it (the refusals of down and the lock of
\* migrate.ts).
MigrationsFit ==
  ~overlapped =>
    /\ applied = [i \in 1..Len(applied) |-> i]
    /\ applied = <<>> => schema = {}
    /\ Len(applied) = 30 => schema = Built[30]
    /\ Len(applied) \in 1..29 => Runs(Migrations[Len(applied) + 1].up, schema)
    /\ applied # <<>> => Runs(Migrations[Last(applied)].down, schema)
    /\ \A f \in facts : Allowed(f, schema)
=============================================================================
