# Clothes-shop API: specification and verification

TLA+ models of this API: an order from checkout to its last refund, the cart, and the
components around them, wherever requests, processes or external services race with
each other. The modules are checked with TLC on small instances, and what matters most
is proved with TLAPS for instances of any size. File paths below are relative to
`src/src/modules/` unless they start with `src/`.

## 1. The system

A NestJS server over one Postgres database. State lives in tables; a handler that
changes several rows mostly runs in `dataSource.transaction` at READ COMMITTED. Three
mechanisms keep concurrent requests apart: row locks taken by `findLocked`
(`src/src/common/base/lock.util.ts`), unique keys, and advisory locks. Where none is
used, TypeORM's `save` reads the row again and writes the columns that differ. Around
the server are customers and administrators (HTTP), SePay (a webhook that repeats
deliveries until they are answered with success), the shop's bank, an object store,
Redis, one cron job, and the migration script that runs before each deployment.

| Component | State | Operations that change it | What makes it correct | Module |
|---|---|---|---|---|
| payment (`payment/`) | `payment_attempts` (QR sessions), `payment_transactions` (transfers) | create a session (customer, admin), webhook, confirm by hand, expire (cron, every minute) | an order is paid by one transfer through one session; a session counts only while its order can be paid; repeated and concurrent deliveries are one; no transfer is lost | `Payment`, `PaymentRace` |
| refund (`refund/`) | `refunds` | request for a cancelled order, for a return, by hand; complete; reject | never more back than came in; a bank reference counts once; cancelled money is on record | `RefundDesk` |
| return (`return/`) | `return_requests`, `return_request_items` | create, cancel, approve, reject, receive; moved by complete/reject of its refund | pieces returned were bought; request and refund agree; roundings add up | `ReturnDesk` |
| order status (`order/status/`) | `orders.status`, `orders.payment_status` | cancel (customer), transitions (admin); paid/refunded set by payment and refund | a paid order is not cancelled without a refund; nothing booked is undone | `OrderStatus` |
| order checkout (`order/checkout/`) | `orders`, `order_items`, the cart's lines | quote, checkout | an order holds what the cart held, and costs what the quote said; the pool of connections is not used up | `CartCheckout`, `CheckoutDesk` |
| cart (`cart/`) | `carts`, `cart_items` | add, set, remove, clear | no addition is lost, at most 99 pieces per line, the limit is reported only when it is reached | `CartCheckout` |
| category | `categories.priority`, `sub_categories` | create, update, reorder, delete, partly under an advisory lock | ranks are 1..N; products keep their subcategory | `CategoryOrder` |
| review | `reviews`, `review_votes`, the rating in `products` | write, edit, hide, publish, reply, vote | rating and vote counter match the rows they are computed from; one edit | `ProductReviews` |
| product | `products` | create, update, delete | category and subcategory, price and former price fit; the rating is not overwritten | `ProductShelf`, `ProductReviews` |
| wishlist, collection | `wishlist_items`, `collections` | add, remove; create, update, delete | a double click is no error; an update keeps what it does not name | `ProductLists` |
| media | `media_files` and objects of the store | upload, delete | rows and objects agree; upload limit | `MediaStore` |
| address | `addresses` | create, update, remove | one default address | `AddressBook` |
| user, auth | `users` | login, admin update | somebody can administer the accounts; a disabled account stays out | `UserAccounts` |
| site config, shipping, currency | `site_configs` | upsert, delete | what is stored is valid when used | `CheckoutDesk` |
| rate limit | Redis counters, memory on failure | count a request | a bounded number per window; whoever is refused is admitted again | `RateLimit` |
| lists and counters | none | reads | paged lists cover their rows; the pages of shop and customer agree | `ListPages`, `ShopViews` |
| migrations (`src/src/migrations/`, `src/scripts/migrate.ts`) | the schema, `typeorm_migrations` | run, revert | each migration finds the schema it was written for, also after reverts | `SchemaMigrations` |

How the parts interact: checkout creates the order that everything else hangs
on. Payment, refund, return and order status call each other inside one
transaction (cancel → refund request; receive → refund request; complete/reject
→ return request; webhook/confirm → order), and all of them lock the order row
first. The webhook is the exception that matters: it inserts the transfer before
it locks the order. Reviews write the rating of products, categories and collections
are referred to by products, and deleting a product cascades to its reviews, its places
on wish lists and in collections.

What is hard: two deliveries of one transfer; a transfer that races with a
cancellation, a second session, the expiry job or a confirmation by hand; a
crash after the insert and before the answer; locks taken in different orders;
partial refunds that are rounded; a refund that is rejected after the parcel
came back; entities that are read, kept in memory and saved whole; storage that
answers too late; a transaction that needs a second connection; Redis that comes and
goes; a migration that is reverted and run again. `PROJECT.json` lists each of these at
its line under `hazards`.

## 2. The modules

```
ShopTables        tables, columns, constants and their assumptions, Init
  Payment         sessions, webhook, confirmation, expiry job
    RefundDesk    refund requests, completion, rejection, rounding
      ReturnDesk  return requests up to the inspection of the parcel
        OrderStatus     cancellation, transitions
          OrderLifecycle   Next, Spec, properties, refinement of OrderLedger
            PaymentRace    the statements inside the payment handlers
            ShopViews      what the pages of shop and customer show of the tables
            OrderLifecycleProofs   the inductive invariant            (TLAPS)
              OrderMoneyProofs     the sums, on SumProofs             (TLAPS)
                OrderLifecycleTheorems  the properties, with ShopViews (TLAPS)
                  PaymentRaceProofs     with PaymentRace               (TLAPS)
OrderLedger       abstract: what the shop's books promise

CartCheckout      the lines of a cart, and the checkout that orders them
CheckoutDesk      quotes and checkouts, their settings, the pool of connections
CategoryOrder     categories, their ranks and subcategories
ProductReviews    reviews, votes, the rating of the product
ProductShelf      the administration of one product
ProductLists      a wish list, a collection
MediaStore        pictures: objects and rows
AddressBook       the addresses of one customer
UserAccounts      logins and updates of accounts
RateLimit         the counters of requests
ListPages         a paged list that is read while it changes
SchemaMigrations  the thirty migrations, run and reverted
  SumProofs         induction, sums, a sequence less an element    (TLAPS)
  CartCheckoutProofs                                               (TLAPS)
  CatalogueProofs   CategoryOrder, ProductLists, MediaStore, ProductReviews,
                    ProductShelf, ListPages                        (TLAPS)
  ServicesProofs    AddressBook, UserAccounts, CheckoutDesk, RateLimit,
                    SchemaMigrations                               (TLAPS)
```

Each module of the first group EXTENDS the one above it, as the services call each
other. The others stand beside them: checkout is where the lines of a cart become the
order that `Init` of `ShopTables` starts with, and nothing flows back; what the
components of the catalogue and of the customer share with each other (a product that
is deleted, a person who is logged in) appears in each module as an action of the
environment. `MCPayment`, `MCReturn`, `MCPaymentRace`, `MCCartCheckout`, `MCCatalogue`,
`MCServices` and `MCStaleRating` hold the constants of the instances. `MCCatalogue` and
`MCServices` join components in one run: the variable `served` chooses, in the initial
state, the component that moves, and the others rest. Since they share no variable, the
behaviours are exactly those of each component.

**ShopTables.** A table is a function from ids to rows; a row with status `NONE`
is not inserted. `transactions` is keyed by its unique columns (provider, id), so
the unique key is part of the shape. Columns nobody decides on (who, when, notes,
raw payloads) are left out. `Init` is what checkout leaves: unpaid, pending orders
whose total is the value of their lines plus the shipping fee
(`TotalAssumption`, from `calculateTotals`). `orders.total` is never written
again, so the amount of a session, copied from it, is `Total[o]`.

**Payment, RefundDesk, ReturnDesk, OrderStatus.** One action per handler. A handler
is one action because all of its reads that matter happen after the lock on the
order row; `PaymentRace` checks that this is sound for the payment handlers,
statement by statement. A refused request changes nothing and is a disabled
action. Data that the code draws from many rows is chosen freely: which of
several transfer codes the webhook finds, which session is the newest, the
amounts. Time is the flag `overdue` of a session. The days of the return policy
are left open: the window may or may not have passed at any time.

**OrderLedger** is the abstract specification: an entry is `open`, `void`, `sold`,
`owed` or `settled`, money is collected once and only goes back.
`OrderLifecycle!KeepsTheBooks` is `Ledger!Spec` under the mapping in that module
(the collected sum is the amount of the settling transaction, the returned sum
that of the completed refunds): every step of every handler is a step of the
books or leaves them alone.

**PaymentRace** splits the webhook, the confirmation, the creation of sessions,
the customer's cancellation and the expiry job into statements executed by
`Workers` (connections). It models what Postgres contributes: row locks until the
end of the transaction, an INSERT that waits for an uncommitted row with the same
key and then fails, SELECTs that see committed rows and the transaction's own,
rollback, deadlock detection. `AtomicHandlers` says that the tables only change
by steps of `OrderLifecycle!Next`; that is the bridge between the two levels.
`DeadlockOnlyByKey` says which circles of waiting transactions there are: each has a
confirmation by hand that enters a transfer (`keep`), whose key another member holds, a
webhook that waits for an order or a transaction about another order.
Simplifications: a worker's lock on a session stops `expires_at` from passing
until the commit (a verdict may use the time it read before); the insert of a
session and the commit right after it are one step; an UPDATE of several sessions locks
them in the order of their ids, which is the order they were inserted in, while Postgres
promises none; refund and return handlers are not split.

**CartCheckout** is written statement by statement from the start, because the
cart service takes no lock: `Workers` serve requests of one customer at the same
time. `cart[v]` is the row that the unique key gives to product, size and colour
`v`. `addQuantity` is `Increase` (the conditional UPDATE), `Look` (EXISTS) and
`Insert`, up to `Tries` times, then `RefuseLimit`. `updateItem` is `UpdateItem`, then
what TypeORM's `save` does: read the row again (`Save`), and update it (`Write`) or
insert it under its old id when it is gone (`Restore`). Removal is one DELETE. The
transaction of checkout reads the lines (`Checkout`) and later inserts the order
and deletes the rows with the ids it read (`Place`); between the two every other
statement may run. A request may fail at any point (`Abandon`). `removed`, and the
field `short` of a request, are history: which rows were deleted by wish, and
whether the line of an addition was too full or left the cart meanwhile.
Simplifications: one cart; whether a product is disabled or sold out is left open,
because it only refuses requests; `getOrCreateCart` is not modelled; the ids that
checkout is given are those of lines in the cart. The model shows two more things
that the code does: two checkouts that both read a line before one of them deletes
it order it twice, and `updateItem` puts a line back that was removed or ordered
after it read it. No doc says otherwise, so no property does; both are listed
as hazards.

**ShopViews** reads the tables of `OrderLifecycle`: the status that `getStatus` tells the
customer, the bank references it shows, the lists of sessions, transfers to review,
refunds and returns of the administration, and the numbers in its menu, each translated
from its own query.

**CheckoutDesk.** One customer, the settings, and `PoolSize` connections. A quote
borrows a connection for each of its three queries; a checkout holds one for its
transaction and reads the two settings through another. The stored settings are values
with a shape, so that a value that is missing, broken or invalid falls back to the
defaults as the parsers do. Fields `fresh` and the variable `quote` are history: they
are forgotten when anything a total depends on changes. Returns and other transactions
(`BeginReturn`, `BeginOther`) are there for the connections they hold.

**CategoryOrder.** Create, update with a rank, reorder and delete run under the advisory
lock and are one action each. An update without a rank takes none: `ReadCategory`, then
`SaveCategory`, which writes the rank back that was read. Two updates without a rank that
both change the subcategories of one category at the same moment are left out.

**ProductReviews.** The transactions statement by statement: `findLocked` of the review,
then of the product, the aggregate over what is committed and the own change, commit or
abort. A vote is a row of its own (`votes`), the counter a column written from a count.
The update of the product administration reads the product and saves it without a lock
(`LoadProduct`, `SaveProduct`); deletion locks the product and cascades.

**ProductShelf.** One product; `save` is its two statements, and the UPDATE writes the
columns that differ from the row it read. The CHECK constraint of the prices is part
of `WriteGoods`.

**ProductLists.** The wish list with the unique key and the foreign key at the INSERT, and
a collection whose update saves all its products.

**MediaStore.** An upload is sent, carried out, answered, and its row inserted; each
of these may fail or come late, and a deletion removes the object first. `sent` holds
uploads that the storage has not carried out, `removing` deletions it may carry out
later.

**AddressBook.** Every statement is an action, because the service uses no transaction:
the flag of the other addresses is cleared in one and the own written in another.
`crossed` is history and says that a default was written over one the writer had not
seen.

**UserAccounts.** A login finds or inserts the account of an e-mail address, refreshes
its profile and gives tokens; an update is admitted with the permissions the guard
reads, and saved later. `account` has the role, the status and whether a permission to
update accounts was granted by name.

**RateLimit.** A clock of `Window` ticks; `CountInRedis` is the script that counts and
sets the expiry in one step, `CountInMemory` what an instance does when Redis does not
answer, or its answer is lost after it counted.

**ListPages.** Which of two statements comes first, whether the query orders by the id
and whether it joins, for each of the nineteen lists; Postgres may order equal sort
values differently every time.

**SchemaMigrations.** A schema is a set of objects (tables, columns with what they may
hold, keys, indexes, checks); each migration is a pair of changes translated from its up
and down, with the rows it refuses. A run takes the lock, reads `typeorm_migrations` and
applies what is pending in one transaction (the default of TypeORM, which
`src/data-source.ts` leaves as it is; `src/docs/specs` 0016 speaks of one transaction
for each); a revert takes no lock. Modelling them showed some things that no doc
contradicts: `down` of `AddForeignKeyConstraints` leaves the columns of products nullable
and without their indexes until the next `up`; `down` of `AddRefunds` drops the refunds
without refusing; `up` of `VndBaseCurrency` converts the shipping prices again when it
runs again.

## 3. What is checked

| Run | Instance | Shows |
|---|---|---|
| `two_orders` | 2 orders, 2 sessions, 2 accounts, 1 transfer id, 1 bank reference, 2 refunds | a transfer pays one order once; bank references are not reused |
| `payment` | 1 order, 3 sessions, 2 transfers, amounts 0, exact and too much, 2 refunds | sessions, refunds and cancellation agree; nothing booked is undone; what is shown agrees; refinement of `OrderLedger` |
| `returns` | 1 order, 2 sessions, lines worth 1 and 3, fee 1, received 5 or 3, 2 returns, 3 refunds | refunds and requests agree; rounding adds up; overdue sessions expire |
| `race` | 1 order, 3 connections, 2 sessions, 1 transfer | handlers are atomic; transactions wait in a circle only over a key |
| `delivery` | 1 order, 2 connections, 1 failure | transfers are recorded, requests end |
| `cart` | 2 lines, 2 connections, at most 2 pieces, 5 tries, 2 inserted rows, 1 order | limit, refusals and removals under every interleaving |
| `catalogue` | 2 connections for each of 6 components; 3 categories, 2 reviews, 3 storage keys, 3 rows | ranks, references, rating, votes, prices, wish list, collection, pictures, pages |
| `services` | 2 connections or processes for each of 5 components; 3 addresses, 2 accounts, a pool of 2, 2 requests in 2 ticks, 30 migrations | default address, administrators, quotes, pool, rate limit, schema |
| `reopened` | 1 order, 1 session, 2 returns, 3 refunds | violation: finding 1 |
| `deadlock` | 2 connections | violation: finding 2 |
| `lost_addition` | 1 line, 2 connections | violation: finding 3 |
| `stale_rating` | 1 review, 2 connections | violation: finding 4 |

The bounds are named: `MaxAttempts`, `MaxRefunds`, `MaxReturns`, `MaxFailures`,
`MaxLines`, `MaxOrders`, `MaxSubs`, `MaxRank`, `MaxFacts`, and the sets the constants of
each cfg give. They are chosen so that what the properties are about happens: two orders
that want one transfer; a session that is superseded twice; a sum that is wrong, zero, or
such that the refunds of single pieces are rounded, up and down; a refund rejected and
requested again while another return waits; three transactions, because webhook,
confirmation and a third handler can meet on one order. In the cart two connections are
enough for a line that appears between two statements, for a limit of 2 pieces that two
additions exceed together, and, with lines that are put back, for five failed tries in a
row. Three categories have a rank between two others; with a daily limit of one, two
uploads pass it; a page of two rows and three rows make two pages, the second one
incomplete; a pool of two is filled by two checkouts; of a window of two ticks the first
and the second half differ; releases of 5, 18 and 30 migrations meet as a rolling
deployment does, and every migration is the last of some history, because reverts go one
by one. One kind of row in the way of migrations at a time is enough because each
migration refuses rows of its own. The constraint of `services` drops what follows
after a revert overlapped another process: `MigrationsFit` claims nothing from there on,
since a revert takes no lock, and the docs (`src/docs/modules/common.md`) say that it
needs none. Symmetry: connections, transfers, orders, accounts, lines under review are
alike.

Deadlock is checked where a component may go on for ever (`services`). In the other
instances it is off because they end: sessions, transfers, refunds, the lines that are
reviewed and storage keys run out, and the shop may rest at any time.

**Fairness.** `Spec` assumes weak fairness of the expiry job only: the scheduler
calls it every minute and catches its errors (`payment-expiry.scheduler.ts`), so
while a session stays overdue and pending the job runs again. Nothing is assumed
of people and banks. `RaceSpec` assumes that Postgres grants a lock that comes
free again and again to a transaction that waits for it (lock queues are first
come first served) and lets a transaction that can run do so (strong fairness of
`Serve`), that it aborts one transaction of a deadlock (weak fairness of
`AbortDeadlock`), and that SePay repeats a delivery until it is answered with
success and finds a connection free now and then (strong fairness of
`StartWebhook` while unacknowledged). `TransferRecorded` excepts the behaviours in
which somebody enters transfers by hand for ever: the deadlock of finding 2 could
then hit every delivery.

The safety properties of the other components need no fairness, and none is assumed.

**Findings.**

1. `reopened`: rejecting a refund moves the return request from `RECEIVED` back to
   `APPROVED`, where the customer may cancel it and the shop may reject it,
   although the parcel is in the shop. The docs and the comments of
   `return.constant.ts` allow both only before the goods arrived.
2. `deadlock`: the comments say that webhook and confirmation lock in the same
   order so as not to deadlock, but the webhook inserts the unique key first and the
   confirmation inserts it last. Postgres aborts one of the two; `delivery` shows
   that the transfer is still recorded and `race` that circles close in this way only.
3. `lost_addition`: checkout deletes the rows whose ids it read, whatever they hold
   by then. An addition in between is answered with success and its pieces are
   neither ordered nor in the cart. `docs/modules/cart.md` says that no addition is
   lost when requests run at once, `docs/modules/order.md` that only what was ordered
   leaves the cart.
4. `stale_rating`: an update of a product saves the rating it read with the product, so
   a rating that a review has changed meanwhile is overwritten, until the next change of
   a review. `docs/modules/product.md` says that only the review module writes it.

Some properties say under which condition they hold, because the code does not promise
more, and their history variables tell when it is left: an update of a category that
names no rank may write an old one back (`strayed`); overlapping requests can make two
default addresses (`crossed`); two updates of a product saved at once can tear category
and subcategory apart (`torn`); administrators who act at the same moment can demote each
other (`misplaced`), and somebody who may update accounts by a permission alone can give
it up (`resigned`); the pool stops for ever when as many checkouts as it has connections
each wait for a second one (`ProgressUnlessFilled`); the lists without a second sort key
cover their rows only while sort values differ (`PagesCover`); uploads at once exceed the
daily limit (`LimitPassedByOverlap`). No doc says otherwise, so they are hazards and not
findings.

## 4. What is proved

Every theorem holds for all constants that satisfy the assumption of its module
(`ConstantsAssumption`, `TotalAssumption`, `CartAssumption`, ...): any number of orders,
sessions, transfers, refunds, returns, lines, requests and connections, any amounts.

**Induction and sums (`SumProofs`).** Money, ratings and limits are sums over finite sets
of rows. The induction theorems of the library take an operator as a parameter, which the
provers cannot instantiate; `SumProofs` states induction for a set instead (`NumberInduction`:
a set of numbers that has 0 and each successor has them all; `SetInduction` the same for
finite sets), from the least element of a well-founded relation. From these it derives what
a fold of additions computes: a sum does not depend on the order, splits into disjoint
parts, grows with its terms, and changes by one term when one term changes.

**Orders and payments (`OrderLifecycleProofs`).** `TypeCorrect` is the type invariant,
`Invariance` the inductive invariant `IndInv`. `OrderLifecycleTheorems` derives
`OneSessionPays`, `OnePaymentPerOrder`, `OneOpenSession`, `RefundsAreOfPayments`,
`ReferencesCountOnce`, `CancelledMoneyIsOnRecord`, `ReturnsFollowRefunds` and the action
property `NothingUnbooked`.

None of these is inductive alone. That a refund belongs to the paid
session needs that there is one; that it may be completed and make the order
refunded needs that it was requested while the order was paid; that a return
request is received exactly while its refund waits needs that one refund waits at
a time; that a paid session stays paid needs that sessions are pending only while
the order can be paid, and that confirmation checks the order and not the
session. `IndInv` is the conjunction of these with the shape of rows that are not
inserted (`UnusedRows`). The argument groups the handlers by their effect: those
that deal in sessions (`SessionStep`), settle a payment (`PaymentStep`), record a
transfer for review (`NoteStep`), insert a refund (`Inserts`), end one, cancel an
order, or touch returns only. One lemma shows that a handler belongs to its group
and others that the group keeps each part of the invariant.

**The money (`OrderMoneyProofs`).** `RefundsStayWithin`, `RefundsOfReturnsAddUp`,
`CancellingAsksForTheRest` and `ImplementsTheLedger` are about sums. The invariant is
`MoneyInv`: `IndInv`, and

- `SumsBooked`: an order is refunded exactly when its completed refunds add up to what
  was received, and a waiting refund fits into what is left;
- `CompletedAddUp`: what is completed for an order that is still paid is the share of the
  pieces whose return was completed, rounded once. This is the reason why rounding every
  refund by itself loses nothing: a refund is the difference of two rounded shares, and
  the differences telescope;
- `RefundsWithinReceived` and `ReturnsAddUp` themselves.

`ImplementsTheLedger` is the refinement of `OrderLedger`, step by step: the initial tables
are an empty book, each handler is a step of the book of its order or leaves all books
alone. The steps in between rest on lemmas about the share of a set of pieces: it grows
with the pieces, is 0 for none, and is all the money for all of them.

**What is shown (`OrderLifecycleTheorems`).** `SessionsAreShownAlike` and
`MoneyIsShownAlike` state the properties of `ShopViews` from the same invariants: a
customer and the shop are shown the same session, one bank reference and one received sum,
and the menu counts what the lists show.

**The race (`PaymentRaceProofs`).** For any number of connections, orders, sessions and
transfers: `HandlersAreAtomic`, that every commit is a step of `OrderLifecycle!Next`
(or of the expiry job on some of the overdue sessions), and `OnlyKeysDeadlock`. A
transaction commits long after it read, so neither follows from what is committed alone.
The invariant is `RaceInv`: `IndInv`, and

- `JobFits`: what each transaction has written so far, compared with the tables as they
  are now, is what its handler writes up to that statement;
- `LocksFit`: which rows it holds at which step;
- `SessionsIssued`: sessions get their ids in the order of their inserts, and only the
  newest session of an order is pending;
- `TransfersFit`: the bank's transfers name sessions that were issued.

A statement changes the job and the locks of its own transaction; a commit changes tables
that others have read. The step that matters is that this disturbs nobody: what a
transaction relies on is a row it has locked, or a session of the order it has locked,
which others can only let expire (`Undisturbed`, and `OthersStay`, which shows `JobFits`
and `LocksFit` from it). Then each commit is compared with its handler, verdict by
verdict. Because `RaceInv` includes `IndInv`, the rules of payments hold below
the level of handlers too (`RaceKeepsPayments`).

With that the two refinements compose. A step of the race commits a step of
`OrderLifecycle!Next` or deals in sessions only (`CommitsAre`), and both keep `MoneyInv`
and the books; so the statements implement `OrderLedger` (`RaceKeepsTheBooks`), undo
nothing that was booked (`RaceUnbooksNothing`), and leave pages that agree
(`RaceIsShownAlike`). The race has payments and cancellations of unpaid orders; that
money goes back in the same books is `ImplementsTheLedger`. `AcknowledgedAreRecorded` is the safe half of `TransferRecorded`:
a delivery is answered with success only when its transfer is on record, because the
webhook commits before it answers and takes only the unique key for a duplicate; and a
row of `payment_transactions` is never deleted (`StaysRecorded`).

In a circle without a confirmation at `keep` everybody waits for a row whose holder is
further on: who holds a key that is awaited waits for its order, who holds an order waits
for a session, and who holds a session waits for a newer one (`WaitsForNewer`). Sessions
have a newest one, so the circle does not close.

**The cart (`CartCheckoutProofs`).** For any number of lines, requests, pieces, tries and
orders (two tries at least): `CartInvariance`, and from it
`QuantityLimitHolds`, `LimitIsJustified` and `NoLineIsLost`.
`QuantityLimit` needs that every pending quantity is legal, `LimitJustified` needs
the argument that the comment on `addQuantity` makes: as long as the line was
neither too full nor taken out, an addition fails at most once, and from then on
its line is in the cart (`Sound`). `NoLineVanishes` needs that ids are given once. The
handlers are grouped again: those that only move a request on (`MovesOn`), write
one row (`WritesRow`), or delete rows (`DeletesRows`).

**The catalogue (`CatalogueProofs`).**

- Categories: `RanksWithoutGap` shows for each handler which category holds a
  rank afterwards that another held before; `ProductsKeepSubcategory` needs that a
  category with products is listed and has a row for each of them.
- Lists of products: `ClicksAreNotRefused` needs that the product of a request about
  to insert exists, and that the row that won a race is there, unless the product left
  the list (`Founded`); `CollectionKeepsProducts` is inductive with the types.
- Pictures: `RowsHaveObjects` needs that keys are drawn once, so that the object
  a request deletes is no other's (`Apart`), and what a request may assume of its key at
  each of its steps (`Rightful`). `LimitPassedByFew` counts: an upload begins below the
  limit, and a row is inserted for one that no longer runs. It needs `MediaAssumption`
  (finitely many connections and keys).
- Reviews: `RatingIsRight`, `VotesAreCounted`, `ReviewEditedOnce`. `ReviewInv` says who
  holds which lock at which step (`LocksHeld`), that what a request is about to write still
  fits the review it locked (`Fitting`), and that the rating it computed stays right until
  its commit, because the lock of the product keeps every other review from being
  committed in between (`Rated`). The rating is a sum over the published reviews.
- The product: `ProductsFit` needs that what an update is about to save was checked
  together, and that save read the row it writes (`ShelfInv`, `torn`).
- Paged lists: `PagesCoverTheList`. The invariant `PageInv` gives every row its place, the
  number of rows before it. While rows only leave, a row that was read has one of the
  places the pages covered (`SeenFirst`), because places only get smaller; while rows only
  enter, one that was not read has a later place (`UnseenLater`); while nothing moves the
  total is the number of rows (`Unmoved`), so the reader stops at the end. That a page of
  an answer holds the rows of its places is a lemma about permutations (`Places`), proved
  by counting: the answers that Postgres may give are the bijections that respect the order.

**The customer and the deployment (`ServicesProofs`).**

- Addresses: `OneDefaultAddress`. The strengthening says what a request that
  writes a default relies on after it cleared the others: the only default there may be
  is the address it writes, as long as nobody wrote another since (`Covered`).
- Accounts: `AnAdminRemains`, `TheBarredStayOut`. `UserInv` says what a request holds of
  the account it read: a login that is not outdated has nothing to write but what the row
  holds already, an update by the owner no other role or status (`VisitFits`).
- Quotes and checkouts: `OrdersCostAsQuoted` and `OnlyCheckoutsFillThePool` need that what
  a request computed is right while no price and no setting changes, and that a request
  with lines is computing something (`DeskInv`).
- The rate limit: `PassesAreBounded`. `RateInv` relates the counter with what it let pass:
  in the ticks of its window at most as many as its hits, and before them, since Redis lost
  its counters, one window more (`CounterKnows`). The sums move with time, one tick out
  and one in (`PassedShifted`).
- Migrations: `EveryMigrationFits`, for any number of processes, any releases and any
  number of rows in the way at once. `SchemaInv` says that the first n migrations are
  recorded, that the schema is one of the two that n migrations can leave (`Built`: they
  ran once; `Reverted`: all later ones ran too and were reverted), that every row there is
  is allowed with it, and that a run holds the lock and finds what it read. That the steps
  between those schemas are as they should be, up and down, is `MigrationsAssumption`: a
  statement without constants or variables about the thirty migrations of the repository,
  which TLC evaluates when `services` begins. The theorem does the rest: no order of runs,
  reverts, crashes and rows leaves these schemas. A run is a recursive function of the
  migrations (`Upgraded`), and `RunFits` shows by `NumberInduction` what it commits.
  `NoneRecordedTwice` holds even where reverts overlap and the order is lost (`OnceInv`):
  since a run holds the lock, no other process has added a row after it read them.

**Only model-checked.**

- Liveness (`OverdueExpires`, `TransferRecorded`, `RequestsEnd`): the prover has no ENABLED.
- The four findings, which are violations.

## 5. Not modelled

- The framework: wiring, guards without state, exception filter, DTO validation, swagger.
  They keep no state that interacts; what validation excludes is excluded by the inputs
  the actions enumerate.
- Texts, pictures, slugs, SKUs, names and addresses copied into orders, e-mail, tokens:
  columns nobody decides on. Uniqueness of slugs is one INSERT with a unique key.
- The banner of the site configuration, a value nobody computes with; the size guide, a
  table of constants.
- `getOrCreateCart` (the cart of a customer has one row by a unique key, and the loser of
  the race reads the row of the winner, as in `ProductLists`).
- The handlers of refunds and returns below the level of transactions: all of them lock
  the order row first, the case `PaymentRace` shows to be sound for payment handlers.
- The values that data migrations write (`VndBaseCurrency` and others); only the schema
  they leave.
- `src/tools` and the tests, which do not run in the shop.
