---------------------------- MODULE CheckoutDesk ----------------------------
(***************************************************************************)
(* Quotes and checkouts of one customer, the settings they are computed    *)
(* with, and the connections to the database.  A transaction holds one     *)
(* connection of the pool until it ends; a query outside of one borrows a  *)
(* free connection for a moment.  A checkout reads two settings through    *)
(* other connections while its transaction holds one.                      *)
(***************************************************************************)
EXTENDS Integers, Sequences, FiniteSets, Functions

CONSTANTS
  Lines,           \* the lines the cart can hold, one product each
  Amount,          \* Amount[l]: the price of line l times its quantity, at full price
  Desks,           \* requests
  PoolSize,        \* connections of the pool
  ShippingInputs,  \* the values administrators send for SHIPPING_CONFIG
  RateInputs,      \* the values they send for EXCHANGE_RATE
  Asked,           \* bound: the shipping methods customers ask for
  Discounted,      \* bound: the lines whose price changes
  Withdrawn        \* bound: the lines whose product may stop being orderable

VARIABLES
  basket,    \* the lines in the cart
  offered,   \* offered[l]: the product of line l is "full" price, "reduced", or "gone"
  shipping,  \* the value stored for SHIPPING_CONFIG, or NoValue
  rate,      \* the value stored for EXCHANGE_RATE, or NoValue
  desk,      \* desk[d]: the request d serves, and how far it came
  quote      \* the last quote, unless what it depends on has changed since it began

deskVars == <<basket, offered, shipping, rate, desk, quote>>

ASSUME DeskAssumption ==
  Amount \in [Lines -> Nat] /\ PoolSize \in Nat \ {0} /\ IsFiniteSet(Desks)

-----------------------------------------------------------------------------
SHIPPING_METHOD_IDS == {"standard", "express", "store-pickup"}
MAX_MONEY_VND == 1000000000
MIN_VND_PER_USD == 1
MAX_VND_PER_USD == 1000000
DEFAULT_VND_PER_USD == 25000

DEFAULT_SHIPPING_CONFIG ==
  [threshold |-> {1500000},
   price |-> [m \in SHIPPING_METHOD_IDS |->
                CASE m = "standard" -> 30000 [] m = "express" -> 50000 [] OTHER -> 0]]

\* A stored value has a shape: nothing stored, JSON that does not fit, or a value that
\* was parsed when it was saved; the value is a threshold, the set {} for null, and a
\* sequence of methods, or a rate.
NoValue == [shape |-> "none"]
Broken == [shape |-> "broken"]

\* parseShippingConfig: is the value valid?
ParsesShipping(raw) ==
  /\ raw.shape = "json"
  /\ \A vnd \in raw.threshold : vnd \in 1 .. MAX_MONEY_VND
  /\ Len(raw.methods) = Cardinality(SHIPPING_METHOD_IDS)
  /\ \A i \in DOMAIN raw.methods :
       raw.methods[i].id \in SHIPPING_METHOD_IDS /\ raw.methods[i].price \in 0 .. MAX_MONEY_VND
  /\ \A m \in SHIPPING_METHOD_IDS : \E i \in DOMAIN raw.methods : raw.methods[i].id = m

\* ... its methods in their fixed order
ShippingConfig(raw) ==
  [threshold |-> raw.threshold,
   price |-> [m \in SHIPPING_METHOD_IDS |->
     raw.methods[CHOOSE i \in DOMAIN raw.methods : raw.methods[i].id = m].price]]

\* ShippingConfigService.get: a value that is missing or invalid is the default.
EffectiveShipping ==
  IF ParsesShipping(shipping) THEN ShippingConfig(shipping) ELSE DEFAULT_SHIPPING_CONFIG

\* parseExchangeRateConfig, CurrencyService.getVndPerUsd
ParsesRate(raw) ==
  raw.shape = "json" /\ raw.vndPerUsd \in MIN_VND_PER_USD .. MAX_VND_PER_USD
EffectiveRate == IF ParsesRate(rate) THEN rate.vndPerUsd ELSE DEFAULT_VND_PER_USD

-----------------------------------------------------------------------------
\* A request: the lines it is about, its method, the amount computed so far, the rate,
\* and whether nothing it depends on changed since it began (history).
Desk(step, lines, method, amount, fresh) ==
  [step |-> step, lines |-> lines, method |-> method, amount |-> amount,
   rate |-> 0, fresh |-> fresh]
NoDesk == Desk("idle", {}, "standard", 0, FALSE)

\* In its transaction, a request holds a connection; some need a second one there.
Holds(d) == desk[d].step \in {"shipping", "rate", "place", "return", "other"}
NeedsAnother(d) == desk[d].step \in {"shipping", "rate"}
Held == {d \in Desks : Holds(d)}
FreeConnection == Cardinality(Held) < PoolSize

NoQuote == [lines |-> {}, method |-> "standard", total |-> 0, rate |-> 0]

\* What quotes and orders depend on has changed: the old quote is forgotten, and of a
\* request that began before, the amounts.
Changed ==
  /\ quote' = NoQuote
  /\ desk' = [d \in Desks |->
       Desk(desk[d].step, desk[d].lines, "standard", 0, FALSE)]

Proceeds(d, new) ==
  /\ desk' = [desk EXCEPT ![d] = new]
  /\ UNCHANGED <<basket, offered, shipping, rate>>

PriceOf(l) == IF offered[l] = "full" THEN Amount[l] ELSE Amount[l] \div 2

Subtotal(lines) == SumFunctionOnSet([l \in Lines |-> PriceOf(l)], lines)

\* loadSelectedItems: the lines of the request, or the whole cart when it names none;
\* all of them are there and can be ordered.
Selected(ids) == IF ids = {} THEN basket ELSE ids
Orderable(lines) ==
  lines # {} /\ lines \subseteq basket /\ \A l \in lines : offered[l] # "gone"

\* Mutant of Total: shipping is free above the threshold only, and for the whole cart.
TotalOfCart(subtotal, method) ==
  LET free == \E vnd \in EffectiveShipping.threshold : Subtotal(basket) >= vnd
  IN  subtotal + IF free THEN 0 ELSE EffectiveShipping.price[method]

\* calculateTotals: the threshold for free shipping counts for every method.
Total(subtotal, method) ==
  LET free == \E vnd \in EffectiveShipping.threshold : subtotal >= vnd
  IN  subtotal + IF free THEN 0 ELSE EffectiveShipping.price[method]

Computed(d) == IF desk[d].fresh THEN Total(desk[d].amount, desk[d].method) ELSE 0

-----------------------------------------------------------------------------
\* quote: three queries, each through a connection of its own.
BeginQuote(d, ids, method) ==
  LET lines == Selected(ids)
  IN  /\ desk[d] = NoDesk
      /\ FreeConnection
      /\ Orderable(lines)
      /\ Proceeds(d, Desk("quoteShipping", lines, method, Subtotal(lines), TRUE))
      /\ UNCHANGED quote

QuoteShipping(d) ==
  /\ desk[d].step = "quoteShipping"
  /\ FreeConnection
  /\ Proceeds(d, [desk[d] EXCEPT !.step = "quoteRate",
       !.amount = Computed(d)])
  /\ UNCHANGED quote

QuoteRate(d) ==
  /\ desk[d].step = "quoteRate"
  /\ FreeConnection
  /\ Proceeds(d, NoDesk)
  /\ quote' = IF ~desk[d].fresh THEN NoQuote
              ELSE [lines |-> desk[d].lines, method |-> desk[d].method,
                    total |-> desk[d].amount, rate |-> EffectiveRate]

-----------------------------------------------------------------------------
\* checkout: the method and the recipient agree (resolveDelivery); the transaction takes
\* a connection and loads the lines and the address ...
BeginCheckout(d, ids, method) ==
  LET lines == Selected(ids)
  IN  /\ desk[d] = NoDesk
      /\ FreeConnection
      /\ Orderable(lines)
      /\ Proceeds(d, Desk("shipping", lines, method, Subtotal(lines), TRUE))
      /\ UNCHANGED quote

\* ... the two settings come through a second connection ...
CheckoutShipping(d) ==
  /\ desk[d].step = "shipping"
  /\ FreeConnection
  /\ Proceeds(d, [desk[d] EXCEPT !.step = "rate",
       !.amount = Computed(d)])
  /\ UNCHANGED quote

CheckoutRate(d) ==
  /\ desk[d].step = "rate"
  /\ FreeConnection
  /\ Proceeds(d, [desk[d] EXCEPT !.step = "place",
                                 !.rate = IF desk[d].fresh THEN EffectiveRate ELSE 0])
  /\ UNCHANGED quote

\* ... and the order takes the lines from the cart.
PlaceOrder(d) ==
  /\ desk[d].step = "place"
  /\ basket' = basket \ desk[d].lines
  /\ desk' = [desk EXCEPT ![d] = NoDesk]
  /\ UNCHANGED <<offered, shipping, rate, quote>>

-----------------------------------------------------------------------------
\* Mutant of ReadReturnPolicy: the setting is read in the transaction of the request.
ReadPolicyInside(d) ==
  /\ desk[d] = NoDesk
  /\ FreeConnection
  /\ Proceeds(d, Desk("shipping", {}, "standard", 0, FALSE))
  /\ UNCHANGED quote

\* A return request reads its setting before its transaction begins.
ReadReturnPolicy(d) ==
  /\ desk[d] = NoDesk
  /\ FreeConnection
  /\ Proceeds(d, Desk("policy", {}, "standard", 0, FALSE))
  /\ UNCHANGED quote

BeginReturn(d) ==
  /\ desk[d].step = "policy"
  /\ FreeConnection
  /\ Proceeds(d, Desk("return", {}, "standard", 0, FALSE))
  /\ UNCHANGED quote

\* The other transactions use one connection: payments, refunds, categories, reviews, ...
BeginOther(d) ==
  /\ desk[d] = NoDesk
  /\ FreeConnection
  /\ Proceeds(d, Desk("other", {}, "standard", 0, FALSE))
  /\ UNCHANGED quote

EndTransaction(d) ==
  /\ desk[d].step \in {"return", "other"}
  /\ Proceeds(d, NoDesk)
  /\ UNCHANGED quote

\* The process stops and starts again: transactions are rolled back, answers are lost.
Restart ==
  /\ \E d \in Desks : desk[d] # NoDesk
  /\ desk' = [d \in Desks |-> NoDesk]
  /\ UNCHANGED <<basket, offered, shipping, rate, quote>>

-----------------------------------------------------------------------------
\* upsert of a setting: the value is parsed.  Only the value is written, so requests at
\* once have the effect of one after the other, or fail (unique key).
UpsertShipping(raw) ==
  /\ FreeConnection
  /\ ParsesShipping(raw)
  /\ shipping' = raw
  /\ Changed
  /\ UNCHANGED <<basket, offered, rate>>

UpsertRate(raw) ==
  /\ FreeConnection
  /\ ParsesRate(raw)
  /\ rate' = raw
  /\ Changed
  /\ UNCHANGED <<basket, offered, shipping>>

\* delete of a setting, or a change of its row by hand
LoseShipping ==
  /\ FreeConnection
  /\ shipping' \in {NoValue, Broken}
  /\ Changed
  /\ UNCHANGED <<basket, offered, rate>>

LoseRate ==
  /\ FreeConnection
  /\ rate' \in {NoValue, Broken}
  /\ Changed
  /\ UNCHANGED <<basket, offered, shipping>>

\* The product of a line gets another price, or can no longer be ordered.
ChangeProduct(l, state) ==
  /\ FreeConnection
  /\ offered[l] # state
  /\ (state = "reduced" => l \in Discounted) /\ (state = "gone" => l \in Withdrawn)
  /\ offered' = [offered EXCEPT ![l] = state]
  /\ Changed
  /\ UNCHANGED <<basket, shipping, rate>>

PutInBasket(l) ==
  /\ FreeConnection
  /\ basket' = basket \cup {l}
  /\ UNCHANGED <<offered, shipping, rate, desk, quote>>

-----------------------------------------------------------------------------
DeskInit ==
  /\ basket = {}
  /\ offered = [l \in Lines |-> "full"]
  /\ shipping = NoValue
  /\ rate = NoValue
  /\ desk = [d \in Desks |-> NoDesk]
  /\ quote = NoQuote

DeskNext ==
  \/ \E d \in Desks :
       \/ \E ids \in SUBSET Lines, method \in Asked :
            BeginQuote(d, ids, method) \/ BeginCheckout(d, ids, method)
       \/ QuoteShipping(d) \/ QuoteRate(d)
       \/ CheckoutShipping(d) \/ CheckoutRate(d) \/ PlaceOrder(d)
       \/ ReadReturnPolicy(d) \/ BeginReturn(d) \/ BeginOther(d) \/ EndTransaction(d)
  \/ \E raw \in ShippingInputs : UpsertShipping(raw)
  \/ \E raw \in RateInputs : UpsertRate(raw)
  \/ LoseShipping \/ LoseRate
  \/ \E l \in Lines :
       \/ \E state \in {"full", "reduced", "gone"} : ChangeProduct(l, state)
       \/ PutInBasket(l)
  \/ Restart

DeskSpec == DeskInit /\ [][DeskNext]_deskVars

-----------------------------------------------------------------------------
\* Every request can go on, or waits for a connection that a transaction holds which
\* needs no other to end, unless as many checkouts as the pool has connections are in
\* their transactions: then they wait for each other, and all the rest for them, with
\* no timeout.  No other kind of request can bring the pool to a stop.
ProgressUnlessFilled ==
  \/ FreeConnection
  \/ \E d \in Held : ~NeedsAnother(d)
  \/ Cardinality({d \in Held : desk[d].lines # {}}) >= PoolSize

\* An order costs what the quote said, for the same lines and the same method, and has
\* the rate of the quote, unless a price or a setting was changed since the quote or
\* the checkout began, whatever else the cart holds and whichever requests overlap.
TotalAsQuoted ==
  \A d \in Desks :
    /\ desk[d].step = "place" /\ desk[d].fresh
    /\ quote.lines = desk[d].lines /\ quote.method = desk[d].method
    => desk[d].amount = quote.total /\ desk[d].rate = quote.rate
=============================================================================
