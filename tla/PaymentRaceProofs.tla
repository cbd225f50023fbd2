------------------------- MODULE PaymentRaceProofs -------------------------
(***************************************************************************)
(* The proofs that the payment handlers are atomic although their          *)
(* statements interleave, that they keep the books of OrderLedger and that *)
(* what is acknowledged is recorded, and that transactions wait in a       *)
(* circle only for the key of a transfer, for any number of connections,   *)
(* orders, sessions and transfers.                                         *)
(*                                                                         *)
(* RaceInv says of every transaction what it has written, compared with    *)
(* the committed tables (JobFits), and which rows it has locked            *)
(* (LocksFit).  What a transaction relies on is either locked by it, or    *)
(* belongs to the order it has locked and can only expire meanwhile        *)
(* (Undisturbed, OthersStay).  So the rows that it writes when it commits  *)
(* are those that the handler of OrderLifecycle writes in one step.        *)
(***************************************************************************)
EXTENDS PaymentRace, OrderLifecycleTheorems, NaturalsInduction

-----------------------------------------------------------------------------
(* The tables *)

OrderRow(o) == <<"order", o>>
AttemptRow(a) == <<"attempt", a>>

\* Sessions are inserted in the order of their ids, and only the newest of an order is
\* pending.
SessionsIssued ==
  \A a \in AttemptId :
    /\ IF attempts[a].status = "NONE" THEN attempts[a].order = NoOrder
       ELSE attempts[a].order \in Orders
    /\ \A b \in AttemptId :
         /\ b < a /\ attempts[a].status # "NONE" => attempts[b].status # "NONE"
         /\ attempts[a].status = "PENDING" /\ attempts[b].order = attempts[a].order => b <= a

\* The transfers of the bank name sessions that were issued.
TransfersFit ==
  /\ transfers \in [Refs -> [attempt: {Null} \cup AttemptId, amount: Amounts \cup {0}]]
  /\ \A ref \in Refs : transfers[ref] # NoTransfer =>
       /\ transfers[ref].amount \in Amounts
       /\ transfers[ref].attempt # Null => attempts[transfers[ref].attempt].status # "NONE"

-----------------------------------------------------------------------------
(* What the transactions wrote: the handlers of OrderLifecycle, taken apart *)

Cancelled(a) == [attempts[a] EXCEPT !.status = "CANCELLED"]
Expired(a) == [attempts[a] EXCEPT !.status = "EXPIRED"]
ExpiredNow(a) == [attempts[a] EXCEPT !.status = "EXPIRED", !.overdue = TRUE]
PaidRow(a) == [attempts[a] EXCEPT !.status = "PAID"]

OrderPaid(o) ==
  [orders[o] EXCEPT !.paymentStatus = "paid",
                    !.status = IF @ = "pending" THEN "confirmed" ELSE @]

\* The sessions of o that applyOrderPaid has written when a was paid.
PaidRows(o, a) ==
  Over([p \in PendingAttempts(o) \ {a} |-> Cancelled(p)], Only(a, PaidRow(a)))

Evidenced(w, status, a, amount) ==
  job[w].transactions =
    Only(job[w].key, [status |-> status, attempt |-> a, amount |-> amount])

NothingWritten(w) ==
  job[w].orders = Nothing /\ job[w].attempts = Nothing /\ job[w].transactions = Nothing

WebhookFits(w) ==
  /\ job[w].step \in {"check", "insert", "lockOrder", "lockAttempt", "cancelPending", "commit"}
  /\ \E ref \in Refs : job[w].key = <<"sepay", ref>>
  /\ job[w].amount \in Amounts
  /\ job[w].step \in {"check", "insert"} => NothingWritten(w)
  /\ job[w].step \in {"lockOrder", "lockAttempt"} \/ (job[w].step = "commit" /\ job[w].attempt = Null) =>
       /\ job[w].orders = Nothing /\ job[w].attempts = Nothing
       /\ Evidenced(w, "UNMATCHED", Null, job[w].amount)
  /\ job[w].step \notin {"check", "insert"} => transactions[job[w].key].status = "NONE"
  /\ job[w].attempt = Null => job[w].step \in {"check", "insert", "commit"}
  /\ job[w].attempt # Null =>
       /\ job[w].order \in Orders /\ job[w].attempt \in AttemptsOf(job[w].order)
       /\ job[w].step \in {"cancelPending", "commit"} =>
            Evidenced(w, Verdict(job[w].attempt, job[w].amount), job[w].attempt, job[w].amount)
       /\ job[w].step = "cancelPending" =>
            /\ Verdict(job[w].attempt, job[w].amount) = "MATCHED"
            /\ job[w].orders = Only(job[w].order, OrderPaid(job[w].order))
            /\ job[w].attempts = Only(job[w].attempt, PaidRow(job[w].attempt))
       /\ job[w].step = "commit" =>
            CASE Verdict(job[w].attempt, job[w].amount) = "MATCHED" ->
                   /\ job[w].orders = Only(job[w].order, OrderPaid(job[w].order))
                   /\ job[w].attempts = PaidRows(job[w].order, job[w].attempt)
              [] Verdict(job[w].attempt, job[w].amount) = "LATE" ->
                   /\ job[w].orders = Nothing
                   /\ job[w].attempts = Only(job[w].attempt, Expired(job[w].attempt))
              [] OTHER -> job[w].orders = Nothing /\ job[w].attempts = Nothing

\* The sum a confirmation takes for received.
ReceivedBy(w) == IF job[w].amount = 0 THEN transactions[job[w].key].amount ELSE job[w].amount

ConfirmFits(w) ==
  /\ job[w].step \in {"lockOrder", "evidence", "lockAttempt", "cancelPending", "keep", "commit"}
  /\ job[w].order \in Orders /\ job[w].attempt \in AttemptsOf(job[w].order)
  /\ job[w].key \in Keys /\ job[w].key[2] \in Refs \cup {job[w].attempt}
  /\ job[w].amount \in Amounts \cup {0}
  /\ job[w].step # "lockOrder" => Payable(job[w].order)
  /\ job[w].step \in {"lockOrder", "evidence", "lockAttempt"} => NothingWritten(w)
  /\ job[w].step \notin {"lockOrder", "evidence"} /\ job[w].amount = 0 =>
       transactions[job[w].key].status \in Confirmable
  /\ job[w].step = "commit" => EvidenceFits(w)
  /\ job[w].step \in {"cancelPending", "keep", "commit"} =>
       /\ job[w].amount = 0 => transactions[job[w].key].attempt \in {Null, job[w].attempt}
       /\ Evidenced(w, "MANUALLY_CONFIRMED", job[w].attempt, ReceivedBy(w))
       /\ job[w].orders = Only(job[w].order, OrderPaid(job[w].order))
  /\ job[w].step = "cancelPending" =>
       job[w].attempts = Only(job[w].attempt, PaidRow(job[w].attempt))
  /\ job[w].step \in {"keep", "commit"} =>
       job[w].attempts = PaidRows(job[w].order, job[w].attempt)

QrFits(w) ==
  /\ job[w].step \in {"lockOrder", "look", "expire", "issue"}
  /\ job[w].order \in Orders
  /\ job[w].orders = Nothing /\ job[w].transactions = Nothing
  /\ job[w].step # "lockOrder" => Payable(job[w].order)
  /\ job[w].step # "expire" => job[w].sessions = {}
  /\ job[w].step \in {"lockOrder", "look"} => job[w].attempts = Nothing
  /\ job[w].step = "expire" => job[w].sessions # {}
  /\ job[w].step \in {"expire", "issue"} =>
       /\ PendingAttempts(job[w].order) \subseteq DOMAIN job[w].attempts \cup job[w].sessions
       /\ job[w].sessions \subseteq AttemptsOf(job[w].order)
       /\ DOMAIN job[w].attempts \subseteq PendingAttempts(job[w].order)
       /\ job[w].handler = "createQr" =>
            \A p \in DOMAIN job[w].attempts \cup job[w].sessions : attempts[p].overdue
       /\ \A p \in DOMAIN job[w].attempts :
            job[w].attempts[p] = IF job[w].handler = "createQrAdmin" THEN ExpiredNow(p) ELSE Expired(p)

CancelFits(w) ==
  /\ job[w].step \in {"lockOrder", "cancelPending", "commit"}
  /\ job[w].order \in Orders
  /\ job[w].transactions = Nothing
  /\ job[w].step = "lockOrder" => job[w].orders = Nothing
  /\ job[w].step # "lockOrder" =>
       /\ orders[job[w].order] = [status |-> "pending", paymentStatus |-> "unpaid"]
       /\ job[w].orders =
            Only(job[w].order, [orders[job[w].order] EXCEPT !.status = "cancelled"])
  /\ job[w].step # "commit" => job[w].attempts = Nothing
  /\ job[w].step = "commit" =>
       job[w].attempts = [p \in PendingAttempts(job[w].order) |-> Cancelled(p)]

ExpiryFits(w) ==
  /\ job[w].step \in {"expire", "commit"}
  /\ job[w].orders = Nothing /\ job[w].transactions = Nothing
  /\ job[w].step = "expire" <=> job[w].sessions # {}
  /\ \A p \in job[w].sessions : attempts[p].status # "NONE" /\ attempts[p].overdue
  /\ \A p \in DOMAIN job[w].attempts :
       /\ attempts[p].status = "PENDING" /\ attempts[p].overdue
       /\ job[w].attempts[p] = Expired(p)

JobFields == {"handler", "step", "order", "attempt", "key", "amount", "sessions",
              "orders", "attempts", "transactions"}
Handlers == {"none", "webhook", "confirm", "createQr", "createQrAdmin", "cancel", "expiry"}

JobFits(w) ==
  /\ DOMAIN job[w] = JobFields
  /\ job[w].handler \in Handlers
  /\ job[w].attempt \in {Null} \cup AttemptId
  /\ job[w].sessions \in SUBSET AttemptId
  /\ DOMAIN job[w].attempts \in SUBSET AttemptId
  /\ job[w].attempts = [a \in DOMAIN job[w].attempts |-> job[w].attempts[a]]
  /\ job[w].handler = "none" => job[w] = Idle
  /\ job[w].handler = "webhook" => WebhookFits(w)
  /\ job[w].handler = "confirm" => ConfirmFits(w)
  /\ job[w].handler \in {"createQr", "createQrAdmin"} => QrFits(w)
  /\ job[w].handler = "cancel" => CancelFits(w)
  /\ job[w].handler = "expiry" => ExpiryFits(w)
  /\ job[w].handler \notin {"createQr", "createQrAdmin", "expiry"} => job[w].sessions = {}

-----------------------------------------------------------------------------
(* Locks *)

\* The steps at which a transaction has locked its order, and the key of its transfer.
OrderTaken(w) ==
  \/ /\ job[w].handler = "webhook" /\ job[w].attempt # Null
     /\ job[w].step \in {"lockAttempt", "cancelPending", "commit"}
  \/ /\ job[w].handler \in {"confirm", "createQr", "createQrAdmin", "cancel"}
     /\ job[w].step # "lockOrder"

KeyTaken(w) ==
  \/ job[w].handler = "webhook" /\ job[w].step \notin {"check", "insert"}
  \/ /\ job[w].handler = "confirm"
     /\ \/ job[w].step = "commit"
        \/ job[w].amount = 0 /\ job[w].step \in {"lockAttempt", "cancelPending", "keep"}

\* A session that w has locked is one of its order, or overdue; expire goes upwards.
AttemptTaken(w, a) ==
  /\ attempts[a].status # "NONE"
  /\ \/ /\ job[w].handler \in {"webhook", "confirm"}
        /\ job[w].step \in {"cancelPending", "keep", "commit"}
        /\ attempts[a].order = job[w].order
        /\ job[w].step = "cancelPending" => a = job[w].attempt
     \/ /\ job[w].handler = "cancel" /\ job[w].step = "commit"
        /\ attempts[a].order = job[w].order
     \/ /\ job[w].handler \in {"createQr", "createQrAdmin"}
        /\ job[w].step \in {"expire", "issue"}
        /\ attempts[a].order = job[w].order
        /\ \A s \in job[w].sessions : a < s
     \/ /\ job[w].handler = "expiry"
        /\ \A s \in job[w].sessions : a < s

LocksFit(w) ==
  /\ \A o \in Orders : owner[OrderRow(o)] = w <=> OrderTaken(w) /\ job[w].order = o
  /\ \A k \in Keys : owner[k] = w <=> KeyTaken(w) /\ job[w].key = k
  /\ \A a \in AttemptId :
       /\ owner[AttemptRow(a)] = w => AttemptTaken(w, a)
       /\ a \in DOMAIN job[w].attempts => owner[AttemptRow(a)] = w
       /\ /\ job[w].handler \in {"webhook", "confirm"}
          /\ job[w].step \in {"cancelPending", "keep", "commit"}
          /\ a = job[w].attempt
          => owner[AttemptRow(a)] = w

\* The inductive invariant of the race.
RaceInv ==
  /\ IndInv
  /\ SessionsIssued
  /\ TransfersFit
  /\ owner \in [Rows -> Workers \cup {NoWorker}]
  /\ job = [w \in Workers |-> job[w]]
  /\ \A w \in Workers : JobFits(w) /\ LocksFit(w)

-----------------------------------------------------------------------------
(* Rows, and tables written over *)

\* Rows of different tables are different, and so are rows of different ids.
LEMMA RowsApart ==
  /\ \A o \in Orders : OrderRow(o) \in Rows
  /\ \A a \in AttemptId : AttemptRow(a) \in Rows
  /\ \A k \in Keys : k \in Rows
  /\ \A o, p : OrderRow(o) = OrderRow(p) => o = p
  /\ \A a, b : AttemptRow(a) = AttemptRow(b) => a = b
  /\ \A o, a : OrderRow(o) # AttemptRow(a)
  /\ \A o : \A k \in Keys : OrderRow(o) # k /\ AttemptRow(o) # k
  /\ NoKey \notin Keys
BY DEF OrderRow, AttemptRow, Rows, Keys, NoKey

\* Every row is one of an order, a session or a transaction.
LEMMA RowKinds ==
  ASSUME NEW row \in Rows
  PROVE  \/ \E o \in Orders : row = OrderRow(o)
         \/ \E a \in AttemptId : row = AttemptRow(a)
         \/ row \in Keys
BY DEF OrderRow, AttemptRow, Rows

\* A table without rows, and one of a single row.
LEMMA OnlyRow ==
  /\ DOMAIN Nothing = {}
  /\ \A id, row : DOMAIN Only(id, row) = {id} /\ Only(id, row)[id] = row
BY DEF Nothing, Only

\* One row, or none, written over a table.
LEMMA OverOne ==
  ASSUME NEW S, NEW table, table = [id \in S |-> table[id]]
  PROVE  /\ Over(Nothing, table) = table
         /\ \A id \in S : \A row : Over(Only(id, row), table) = [table EXCEPT ![id] = row]
BY DEF Over, Nothing, Only

-----------------------------------------------------------------------------
(* What a transaction relies on stays while others act *)

\* The rows that v has locked stay as they are, and the sessions of the order it has
\* locked stay the same, although others may expire them.
Undisturbed(v) ==
  /\ job'[v] = job[v]
  /\ \A row \in Rows : owner'[row] = v <=> owner[row] = v
  /\ \A o \in Orders : owner[OrderRow(o)] = v =>
       /\ orders'[o] = orders[o]
       /\ \A a \in AttemptId :
            /\ attempts'[a].order = o <=> attempts[a].order = o
            /\ attempts'[a].order = o /\ attempts'[a].status = "PENDING" =>
                 attempts[a].status = "PENDING"
  /\ \A k \in Keys : owner[k] = v => transactions'[k] = transactions[k]
  /\ \A a \in AttemptId :
       /\ owner[AttemptRow(a)] = v => attempts'[a] = attempts[a]
       /\ attempts[a].status # "NONE" =>
            /\ attempts'[a].order = attempts[a].order /\ attempts'[a].status # "NONE"
            /\ attempts[a].overdue => attempts'[a].overdue
  /\ account' = account

\* The sessions of an order v has locked.
LEMMA SessionsStay ==
  ASSUME NEW v \in Workers, Undisturbed(v), NEW o \in Orders, owner[OrderRow(o)] = v
  PROVE  /\ AttemptsOf(o)' = AttemptsOf(o)
         /\ PendingAttempts(o)' \subseteq PendingAttempts(o)
         /\ \A a \in PendingAttempts(o) :
              owner[AttemptRow(a)] = v => a \in PendingAttempts(o)'
BY DEF Undisturbed, AttemptsOf, PendingAttempts

\* The rows that applyOrderPaid wrote stay the right ones.
LEMMA PaidRowsStay ==
  ASSUME NEW v \in Workers, Undisturbed(v), NEW o \in Orders, owner[OrderRow(o)] = v,
         NEW a \in AttemptId, owner[AttemptRow(a)] = v,
         \A p \in DOMAIN PaidRows(o, a) : p \in AttemptId /\ owner[AttemptRow(p)] = v
  PROVE  PaidRows(o, a)' = PaidRows(o, a)
<1> DEFINE f == [p \in PendingAttempts(o) \ {a} |-> Cancelled(p)]
<1>1. DOMAIN PaidRows(o, a) = (PendingAttempts(o) \ {a}) \cup {a}
  BY DEF PaidRows, Over, Only
<1>2. PendingAttempts(o)' = PendingAttempts(o)
  <2>1. \A p \in PendingAttempts(o) : owner[AttemptRow(p)] = v
    BY <1>1
  <2> QED BY <2>1, SessionsStay
<1>3. \A p \in PendingAttempts(o) \cup {a} : attempts'[p] = attempts[p]
  BY <1>1 DEF Undisturbed
<1>4. f' = f
  BY <1>2, <1>3 DEF Cancelled
<1>5. Only(a, PaidRow(a))' = Only(a, PaidRow(a))
  BY <1>3 DEF Only, PaidRow
<1> QED BY <1>4, <1>5 DEF PaidRows, Over

\* markOrderPaid changes the row of the order.
LEMMA PaidOrder ==
  ASSUME IndInv, NEW o \in Orders
  PROVE  /\ MarkOrderPaid(o) = [orders EXCEPT ![o] = OrderPaid(o)]
         /\ MarkOrderPaid(o)[o] = OrderPaid(o)
BY DEF MarkOrderPaid, OrderPaid, IndInv, TypeOK, Order

\* A verdict depends on the rows of the session and of its order.
LEMMA VerdictStays ==
  ASSUME NEW v \in Workers, Undisturbed(v), NEW o \in Orders, owner[OrderRow(o)] = v,
         NEW a \in AttemptsOf(o), owner[AttemptRow(a)] = v, NEW amount
  PROVE  Verdict(a, amount)' = Verdict(a, amount)
<1>1. attempts'[a] = attempts[a] /\ orders'[o] = orders[o] /\ account' = account
      /\ attempts[a].order = o
  BY DEF Undisturbed, AttemptsOf
<1> QED BY <1>1 DEF Verdict

\* A session of an order is one, and remains one.
LEMMA SessionStays ==
  ASSUME RaceInv, NEW v \in Workers, Undisturbed(v), NEW o \in Orders, NEW a \in AttemptsOf(o)
  PROVE  a \in AttemptId /\ attempts[a].status # "NONE" /\ a \in AttemptsOf(o)'
<1>1. a \in AttemptId /\ attempts[a].order = o
  BY DEF AttemptsOf
<1>2. attempts[a].status # "NONE"
  BY <1>1, ConstantsAssumption DEF RaceInv, SessionsIssued
<1> QED BY <1>1, <1>2 DEF Undisturbed, AttemptsOf

\* What fits a webhook goes on fitting while others act.
LEMMA WebhookStays ==
  ASSUME RaceInv, NEW v \in Workers, Undisturbed(v), job[v].handler = "webhook"
  PROVE  WebhookFits(v)'
<1> DEFINE j == job[v]
<1>1. WebhookFits(v) /\ JobFits(v) /\ LocksFit(v) /\ job'[v] = j
  BY DEF RaceInv, JobFits, Undisturbed
<1>2. j.key \in Keys
  BY <1>1 DEF WebhookFits, Keys
<1>3. j.step \notin {"check", "insert"} => transactions'[j.key].status = "NONE"
  BY <1>1, <1>2 DEF WebhookFits, LocksFit, KeyTaken, Undisturbed
<1>4. CASE j.attempt = Null
  BY <1>1, <1>3, <1>4 DEF WebhookFits, NothingWritten, Evidenced
<1>5. CASE j.attempt # Null
  <2>1. PICK o \in Orders, a \in AttemptId : o = j.order /\ a = j.attempt /\ a \in AttemptsOf(o)
    BY <1>1, <1>5 DEF WebhookFits, AttemptsOf
  <2>2. a \in AttemptsOf(o)'
    BY <2>1, SessionStays
  <2>3. CASE j.step \notin {"cancelPending", "commit"}
    BY <1>1, <1>3, <1>5, <2>1, <2>2, <2>3 DEF WebhookFits, NothingWritten, Evidenced
  <2>4. CASE j.step \in {"cancelPending", "commit"}
    <3>1. owner[OrderRow(o)] = v /\ owner[AttemptRow(a)] = v
      BY <1>1, <1>5, <2>1, <2>2, <2>4 DEF LocksFit, OrderTaken
    <3>2. orders'[o] = orders[o] /\ attempts'[a] = attempts[a]
      BY <2>1, <2>2, <3>1 DEF Undisturbed
    <3>3. \A amount : Verdict(a, amount)' = Verdict(a, amount)
      BY <2>1, <3>1, VerdictStays
    <3>4. OrderPaid(o)' = OrderPaid(o)
      BY <3>2 DEF OrderPaid
    <3>5. PaidRow(a)' = PaidRow(a) /\ Expired(a)' = Expired(a)
      BY <3>2 DEF PaidRow, Expired
    <3>6. j.step = "commit" /\ Verdict(a, j.amount) = "MATCHED" => PaidRows(o, a)' = PaidRows(o, a)
      <4> SUFFICES ASSUME j.step = "commit", Verdict(a, j.amount) = "MATCHED"
                   PROVE  PaidRows(o, a)' = PaidRows(o, a)
        OBVIOUS
      <4>1. j.attempts = PaidRows(o, a)
        BY <1>1, <1>5, <2>1 DEF WebhookFits
      <4>2. \A p \in DOMAIN PaidRows(o, a) : p \in AttemptId /\ owner[AttemptRow(p)] = v
        BY <1>1, <4>1 DEF JobFits, LocksFit
      <4> QED BY <2>1, <2>2, <3>1, <4>2, PaidRowsStay
    <3> QED BY <1>1, <1>3, <1>5, <2>1, <2>2, <2>4, <3>3, <3>4, <3>5, <3>6
            DEF WebhookFits, NothingWritten, Evidenced
  <2> QED BY <2>3, <2>4
<1> QED BY <1>4, <1>5

\* What fits a confirmation goes on fitting while others act.
LEMMA ConfirmStays ==
  ASSUME RaceInv, NEW v \in Workers, Undisturbed(v), job[v].handler = "confirm"
  PROVE  ConfirmFits(v)'
<1> DEFINE j == job[v]
<1>1. ConfirmFits(v) /\ JobFits(v) /\ LocksFit(v) /\ job'[v] = j
  BY DEF RaceInv, JobFits, Undisturbed
<1>2. PICK o \in Orders, a \in AttemptId, k \in Keys :
        o = j.order /\ a = j.attempt /\ k = j.key /\ a \in AttemptsOf(o)
  BY <1>1 DEF ConfirmFits, AttemptsOf
<1>3. a \in AttemptsOf(o)'
  BY <1>2, SessionStays
<1>4. j.step # "lockOrder" => owner[OrderRow(o)] = v /\ orders'[o] = orders[o]
  BY <1>1, <1>2 DEF LocksFit, OrderTaken, Undisturbed
<1>5. (j.step \notin {"lockOrder", "evidence"} /\ j.amount = 0) \/ j.step = "commit" =>
        transactions'[k] = transactions[k]
  BY <1>1, <1>2 DEF ConfirmFits, LocksFit, KeyTaken, Undisturbed
<1>6. j.step # "lockOrder" => OrderPaid(o)' = OrderPaid(o) /\ Payable(o)' = Payable(o)
  BY <1>4 DEF OrderPaid, Payable
<1>7. j.step \in {"cancelPending", "keep", "commit"} =>
        owner[AttemptRow(a)] = v /\ PaidRow(a)' = PaidRow(a)
  BY <1>1, <1>2 DEF LocksFit, Undisturbed, PaidRow
<1>8. j.step \in {"keep", "commit"} => PaidRows(o, a)' = PaidRows(o, a)
  <2> SUFFICES ASSUME j.step \in {"keep", "commit"} PROVE PaidRows(o, a)' = PaidRows(o, a)
    OBVIOUS
  <2>1. j.attempts = PaidRows(o, a)
    BY <1>1, <1>2 DEF ConfirmFits
  <2>2. \A p \in DOMAIN PaidRows(o, a) : p \in AttemptId /\ owner[AttemptRow(p)] = v
    BY <1>1, <2>1 DEF JobFits, LocksFit
  <2> QED BY <1>2, <1>4, <1>7, <2>2, PaidRowsStay
<1>9. j.step = "commit" => EvidenceFits(v)'
  BY <1>1, <1>2, <1>5 DEF ConfirmFits, EvidenceFits
<1>10. j.step \in {"cancelPending", "keep", "commit"} => ReceivedBy(v)' = ReceivedBy(v)
  BY <1>1, <1>2, <1>5 DEF ReceivedBy
<1> QED BY <1>1, <1>2, <1>3, <1>5, <1>6, <1>7, <1>8, <1>9, <1>10
        DEF ConfirmFits, NothingWritten, Evidenced

\* What fits the creation of a session goes on fitting: of the sessions it found pending
\* some may expire, none is added.
LEMMA QrStays ==
  ASSUME RaceInv, NEW v \in Workers, Undisturbed(v),
         job[v].handler \in {"createQr", "createQrAdmin"}
  PROVE  QrFits(v)'
<1> DEFINE j == job[v]
<1>1. QrFits(v) /\ JobFits(v) /\ LocksFit(v) /\ job'[v] = j
  BY DEF RaceInv, JobFits, Undisturbed
<1>2. PICK o \in Orders : o = j.order
  BY <1>1 DEF QrFits
<1>3. CASE j.step = "lockOrder"
  BY <1>1, <1>2, <1>3 DEF QrFits
<1>4. CASE j.step # "lockOrder"
  <2>1. owner[OrderRow(o)] = v
    BY <1>1, <1>2, <1>4 DEF LocksFit, OrderTaken
  <2>2. Payable(o)' = Payable(o)
    BY <2>1 DEF Payable, Undisturbed
  <2>3. PendingAttempts(o)' \subseteq PendingAttempts(o)
    BY <1>2, <2>1, SessionsStay
  <2>4. \A p \in DOMAIN j.attempts :
          p \in AttemptId /\ owner[AttemptRow(p)] = v /\ attempts'[p] = attempts[p]
    BY <1>1 DEF JobFits, LocksFit, Undisturbed
  <2>5. DOMAIN j.attempts \subseteq PendingAttempts(o) =>
          DOMAIN j.attempts \subseteq PendingAttempts(o)'
    BY <1>2, <2>1, <2>4, SessionsStay
  <2>6. \A p \in j.sessions : p \in AttemptsOf(o) =>
          p \in AttemptsOf(o)' /\ (attempts[p].overdue => attempts'[p].overdue)
    BY SessionStays DEF Undisturbed
  <2>7. \A p \in DOMAIN j.attempts :
          ExpiredNow(p)' = ExpiredNow(p) /\ Expired(p)' = Expired(p)
    BY <2>4 DEF ExpiredNow, Expired
  <2>8. j.step \in {"expire", "issue"} =>
          /\ PendingAttempts(o)' \subseteq DOMAIN j.attempts \cup j.sessions
          /\ j.sessions \subseteq AttemptsOf(o)'
          /\ DOMAIN j.attempts \subseteq PendingAttempts(o)'
          /\ j.handler = "createQr" =>
               \A p \in DOMAIN j.attempts \cup j.sessions : attempts'[p].overdue
    BY <1>1, <1>2, <2>3, <2>4, <2>5, <2>6 DEF QrFits
  <2>9. j.step \in {"expire", "issue"} => \A p \in DOMAIN j.attempts :
          j.attempts[p] = IF j.handler = "createQrAdmin" THEN ExpiredNow(p)' ELSE Expired(p)'
    BY <1>1, <2>7 DEF QrFits
  <2> QED BY <1>1, <1>2, <1>4, <2>2, <2>8, <2>9 DEF QrFits
<1> QED BY <1>3, <1>4

\* What fits a cancellation goes on fitting while others act.
LEMMA CancelStays ==
  ASSUME RaceInv, NEW v \in Workers, Undisturbed(v), job[v].handler = "cancel"
  PROVE  CancelFits(v)'
<1> DEFINE j == job[v]
<1>1. CancelFits(v) /\ JobFits(v) /\ LocksFit(v) /\ job'[v] = j
  BY DEF RaceInv, JobFits, Undisturbed
<1>2. PICK o \in Orders : o = j.order
  BY <1>1 DEF CancelFits
<1>3. CASE j.step = "lockOrder"
  BY <1>1, <1>2, <1>3 DEF CancelFits
<1>4. CASE j.step # "lockOrder"
  <2>1. owner[OrderRow(o)] = v /\ orders'[o] = orders[o]
    BY <1>1, <1>2, <1>4 DEF LocksFit, OrderTaken, Undisturbed
  <2>2. j.step = "commit" =>
          [p \in PendingAttempts(o) |-> Cancelled(p)]' = [p \in PendingAttempts(o) |-> Cancelled(p)]
    <3> SUFFICES ASSUME j.step = "commit"
                 PROVE  [p \in PendingAttempts(o) |-> Cancelled(p)]'
                          = [p \in PendingAttempts(o) |-> Cancelled(p)]
      OBVIOUS
    <3>1. DOMAIN j.attempts = PendingAttempts(o)
      BY <1>1, <1>2 DEF CancelFits
    <3>2. \A p \in PendingAttempts(o) : owner[AttemptRow(p)] = v /\ attempts'[p] = attempts[p]
      BY <1>1, <3>1 DEF JobFits, LocksFit, Undisturbed
    <3>3. PendingAttempts(o)' = PendingAttempts(o)
      BY <2>1, <3>2, SessionsStay
    <3> QED BY <3>2, <3>3 DEF Cancelled
  <2> QED BY <1>1, <1>2, <1>4, <2>1, <2>2 DEF CancelFits
<1> QED BY <1>3, <1>4

\* What fits the expiry job goes on fitting while others act.
LEMMA ExpiryStays ==
  ASSUME RaceInv, NEW v \in Workers, Undisturbed(v), job[v].handler = "expiry"
  PROVE  ExpiryFits(v)'
<1> DEFINE j == job[v]
<1>1. ExpiryFits(v) /\ JobFits(v) /\ LocksFit(v) /\ job'[v] = j
  BY DEF RaceInv, JobFits, Undisturbed
<1>2. \A p \in DOMAIN j.attempts : attempts'[p] = attempts[p] /\ Expired(p)' = Expired(p)
  BY <1>1 DEF JobFits, LocksFit, Undisturbed, Expired
<1>3. \A p \in j.sessions : p \in AttemptId
  BY <1>1 DEF JobFits
<1> QED BY <1>1, <1>2, <1>3 DEF ExpiryFits, Undisturbed

\* Its locks stay those that it took.
LEMMA LocksStay ==
  ASSUME RaceInv, NEW v \in Workers, Undisturbed(v)
  PROVE  LocksFit(v)'
<1>1. LocksFit(v) /\ job'[v] = job[v]
  BY DEF RaceInv, Undisturbed
<1>2. \A a \in AttemptId : AttemptTaken(v, a) => AttemptTaken(v, a)'
  BY <1>1 DEF AttemptTaken, Undisturbed
<1>3. OrderTaken(v)' = OrderTaken(v) /\ KeyTaken(v)' = KeyTaken(v)
  BY <1>1 DEF OrderTaken, KeyTaken
<1>4. \A row \in Rows : owner'[row] = v <=> owner[row] = v
  BY DEF Undisturbed
<1> QED BY <1>1, <1>2, <1>3, <1>4, RowsApart DEF LocksFit

\* So does everything else.
LEMMA OthersStay ==
  ASSUME RaceInv, NEW v \in Workers, Undisturbed(v)
  PROVE  JobFits(v)' /\ LocksFit(v)'
<1>1. JobFits(v) /\ job'[v] = job[v]
  BY DEF RaceInv, Undisturbed
<1>2. JobFits(v)'
  BY <1>1, WebhookStays, ConfirmStays, QrStays, CancelStays, ExpiryStays DEF JobFits, Idle, Request
<1> QED BY <1>2, LocksStay

-----------------------------------------------------------------------------
(* Steps inside a transaction *)

\* The step tells which handler is at work.
LEMMA HandlerAt ==
  ASSUME NEW w \in Workers, JobFits(w)
  PROVE  /\ job[w].step \in {"check", "insert"} => job[w].handler = "webhook"
         /\ job[w].step \in {"evidence", "keep"} => job[w].handler = "confirm"
         /\ job[w].step \in {"look", "issue"} => job[w].handler \in {"createQr", "createQrAdmin"}
         /\ job[w].step = "expire" => job[w].handler \in {"createQr", "createQrAdmin", "expiry"}
         /\ job[w].step = "cancelPending" => job[w].handler \in {"webhook", "confirm", "cancel"}
         /\ job[w].step = "lockAttempt" => job[w].handler \in {"webhook", "confirm"}
         /\ job[w].step = "lockOrder" =>
              job[w].handler \in {"webhook", "confirm", "createQr", "createQrAdmin", "cancel"}
<1>1. CASE job[w].handler = "none"
  BY <1>1 DEF JobFits, Idle, Request
<1>2. CASE job[w].handler = "webhook"
  BY <1>2 DEF JobFits, WebhookFits
<1>3. CASE job[w].handler = "confirm"
  BY <1>3 DEF JobFits, ConfirmFits
<1>4. CASE job[w].handler \in {"createQr", "createQrAdmin"}
  BY <1>4 DEF JobFits, QrFits
<1>5. CASE job[w].handler = "cancel"
  BY <1>5 DEF JobFits, CancelFits
<1>6. CASE job[w].handler = "expiry"
  BY <1>6 DEF JobFits, ExpiryFits
<1> QED BY <1>1, <1>2, <1>3, <1>4, <1>5, <1>6 DEF JobFits, Handlers

\* What the others rely on, w leaves alone; and what it did fits.
LEMMA StepKeeps ==
  ASSUME RaceInv, NEW w \in Workers,
         IndInv', SessionsIssued', TransfersFit',
         owner' \in [Rows -> Workers \cup {NoWorker}],
         job' = [v \in Workers |-> job'[v]],
         \A v \in Workers \ {w} : Undisturbed(v),
         JobFits(w)', LocksFit(w)'
  PROVE  RaceInv'
<1>1. \A v \in Workers : JobFits(v)' /\ LocksFit(v)'
  BY OthersStay
<1> QED BY <1>1 DEF RaceInv

\* When the tables stay as they are, so does what is known of them.
LEMMA TablesStay ==
  ASSUME RaceInv, UNCHANGED vars, UNCHANGED transfers
  PROVE  IndInv' /\ SessionsIssued' /\ TransfersFit'
<1>1. IndInv'
  BY NextInv DEF RaceInv
<1> QED BY <1>1 DEF RaceInv, SessionsIssued, TransfersFit, vars

\* Whoever is not asked for its rows is not disturbed when the tables stay.
LEMMA LeftAlone ==
  ASSUME NEW v \in Workers, UNCHANGED vars, job'[v] = job[v],
         \A row \in Rows : owner'[row] = v <=> owner[row] = v
  PROVE  Undisturbed(v)
BY DEF Undisturbed, vars

\* A statement takes the locks it needs from nobody.
LEMMA StatementEffects ==
  ASSUME RaceInv, NEW w \in Workers, NEW step, NEW next, Statement(w, step, next)
  PROVE  /\ job[w].step = step /\ job'[w] = next
         /\ \A row \in Rows : owner'[row] = w <=> row \in Needs(w) \/ owner[row] = w
         /\ \A v \in Workers \ {w} : Undisturbed(v)
         /\ owner' \in [Rows -> Workers \cup {NoWorker}]
         /\ job' = [v \in Workers |-> job'[v]]
         /\ UNCHANGED vars /\ UNCHANGED transfers
<1>1. job = [v \in Workers |-> job[v]] /\ owner \in [Rows -> Workers \cup {NoWorker}]
  BY DEF RaceInv
<1>2. /\ job[w].step = step /\ job'[w] = next
      /\ job' = [v \in Workers |-> job'[v]]
      /\ \A v \in Workers \ {w} : job'[v] = job[v]
  BY <1>1 DEF Statement
<1>3. owner' = [row \in Rows |-> IF row \in Needs(w) THEN w ELSE owner[row]]
  BY DEF Statement
<1>4. owner' \in [Rows -> Workers \cup {NoWorker}]
  BY <1>1, <1>3
<1>5. \A row \in Rows : owner'[row] = w <=> row \in Needs(w) \/ owner[row] = w
  BY <1>3
<1>6. ASSUME NEW v \in Workers \ {w} PROVE Undisturbed(v)
  <2>1. \A row \in Needs(w) : owner[row] # v
    BY DEF Statement, Blocked, Waits
  <2>2. \A row \in Rows : owner'[row] = v <=> owner[row] = v
    BY <1>3, <2>1
  <2> QED BY <1>2, <2>2, LeftAlone DEF Statement
<1> QED BY <1>2, <1>4, <1>5, <1>6 DEF Statement

\* A statement keeps the invariant when what it leaves behind fits.
LEMMA StatementKeeps ==
  ASSUME RaceInv, NEW w \in Workers, NEW step, NEW next, Statement(w, step, next),
         JobFits(w)', LocksFit(w)'
  PROVE  RaceInv'
BY StatementEffects, TablesStay, StepKeeps

\* The locks are released, and the others keep theirs.
LEMMA EndFits ==
  ASSUME RaceInv, NEW w \in Workers, owner' = Released(w), job' = [job EXCEPT ![w] = Idle]
  PROVE  /\ owner' \in [Rows -> Workers \cup {NoWorker}]
         /\ job' = [v \in Workers |-> job'[v]]
         /\ JobFits(w)' /\ LocksFit(w)'
         /\ \A v \in Workers \ {w} :
              /\ job'[v] = job[v]
              /\ \A row \in Rows : owner'[row] = v <=> owner[row] = v
<1>1. job = [v \in Workers |-> job[v]] /\ owner \in [Rows -> Workers \cup {NoWorker}]
  BY DEF RaceInv
<1>2. /\ job'[w] = Idle /\ job' = [v \in Workers |-> job'[v]]
      /\ \A v \in Workers \ {w} : job'[v] = job[v]
  BY <1>1
<1>3. owner' = [row \in Rows |-> IF owner[row] = w THEN NoWorker ELSE owner[row]]
  BY DEF Released
<1>4. owner' \in [Rows -> Workers \cup {NoWorker}]
  BY <1>1, <1>3
<1>5. \A v \in Workers \ {w}, row \in Rows : owner'[row] = v <=> owner[row] = v
  BY <1>3, RaceAssumption
<1>6. \A row \in Rows : owner'[row] # w
  BY <1>3, RaceAssumption
<1>7. JobFits(w)'
  BY <1>2 DEF JobFits, JobFields, Handlers, Idle, Request, Nothing
<1>8. LocksFit(w)'
  BY <1>2, <1>6, RowsApart DEF LocksFit, OrderTaken, KeyTaken, AttemptTaken, Idle, Request, Nothing
<1> QED BY <1>2, <1>4, <1>5, <1>7, <1>8

\* A transaction that is rolled back leaves nothing behind.
LEMMA RollbackKeeps ==
  ASSUME RaceInv, NEW w \in Workers, Rollback(w)
  PROVE  RaceInv'
<1>1. owner' = Released(w) /\ job' = [job EXCEPT ![w] = Idle] /\ UNCHANGED vars /\ UNCHANGED transfers
  BY DEF Rollback
<1>2. \A v \in Workers \ {w} : Undisturbed(v)
  BY <1>1, EndFits, LeftAlone
<1> QED BY <1>1, <1>2, EndFits, TablesStay, StepKeeps

\* The rows that the statements lock.
LEMMA NeedsAt ==
  ASSUME NEW w \in Workers
  PROVE  /\ job[w].step = "lockOrder" => Needs(w) = {OrderRow(job[w].order)}
         /\ job[w].step = "lockAttempt" => Needs(w) = {AttemptRow(job[w].attempt)}
         /\ job[w].step \in {"insert", "keep"} => Needs(w) = {job[w].key}
         /\ job[w].step = "evidence" =>
              Needs(w) = IF job[w].amount = 0 /\ transactions[job[w].key].status # "NONE"
                         THEN {job[w].key} ELSE {}
         /\ job[w].step = "cancelPending" => Needs(w) = SessionRows(PendingSeen(w))
         /\ job[w].step = "expire" => Needs(w) = SessionRows(FirstOf(job[w].sessions))
         /\ job[w].step \in {"check", "look", "issue", "commit"} => Needs(w) = {}
BY DEF Needs, Demand, OrderRow, AttemptRow

-----------------------------------------------------------------------------
(* Requests begin *)

\* A worker that begins to serve a request holds no lock.
LEMMA StartKeeps ==
  ASSUME RaceInv, NEW w \in Workers, job[w] = Idle,
         UNCHANGED <<vars, transfers, acknowledged, owner, failures>>,
         NEW request, job' = [job EXCEPT ![w] = request],
         JobFits(w)', ~OrderTaken(w)', ~KeyTaken(w)',
         request.attempts = Nothing, request.step \notin {"cancelPending", "keep", "commit"}
  PROVE  RaceInv'
<1>1. job = [v \in Workers |-> job[v]] /\ owner \in [Rows -> Workers \cup {NoWorker}]
      /\ LocksFit(w)
  BY DEF RaceInv
<1>2. /\ job'[w] = request /\ job' = [v \in Workers |-> job'[v]]
      /\ \A v \in Workers \ {w} : job'[v] = job[v]
  BY <1>1
<1>3. UNCHANGED vars /\ UNCHANGED transfers /\ owner' = owner
  OBVIOUS
<1>4. \A v \in Workers \ {w} : Undisturbed(v)
  BY <1>2, <1>3, LeftAlone
<1>5. \A row \in Rows : owner[row] # w
  <2>1. \A o \in Orders : owner[OrderRow(o)] # w
    BY <1>1 DEF LocksFit, OrderTaken, Idle, Request
  <2>2. \A k \in Keys : owner[k] # w
    BY <1>1 DEF LocksFit, KeyTaken, Idle, Request
  <2>3. \A a \in AttemptId : owner[AttemptRow(a)] # w
    BY <1>1 DEF LocksFit, AttemptTaken, Idle, Request
  <2> QED BY <2>1, <2>2, <2>3, RowKinds
<1>6. LocksFit(w)'
  BY <1>2, <1>3, <1>5, RowsApart DEF LocksFit, Nothing
<1> QED BY <1>1, <1>2, <1>3, <1>4, <1>6, TablesStay, StepKeeps

\* A delivery of SePay arrives.
LEMMA StartWebhookKeeps ==
  ASSUME RaceInv, NEW w \in Workers, NEW ref \in Refs, StartWebhook(w, ref)
  PROVE  RaceInv'
<1> DEFINE a == transfers[ref].attempt
           request == Request("webhook", "check", IF a = Null THEN NoOrder ELSE attempts[a].order,
                              a, <<"sepay", ref>>, transfers[ref].amount)
<1>1. job[w] = Idle /\ job' = [job EXCEPT ![w] = request]
      /\ UNCHANGED <<vars, transfers, acknowledged, owner, failures>>
  BY DEF StartWebhook
<1>2. job'[w] = request
  BY <1>1 DEF RaceInv
<1>3. a \in {Null} \cup AttemptId /\ transfers[ref].amount \in Amounts
      /\ (a # Null => attempts[a].status # "NONE")
  BY DEF RaceInv, TransfersFit, StartWebhook
<1>4. a # Null => attempts[a].order \in Orders /\ a \in AttemptsOf(attempts[a].order)
  BY <1>3 DEF RaceInv, SessionsIssued, AttemptsOf
<1>5. WebhookFits(w)'
  BY <1>1, <1>2, <1>3, <1>4 DEF WebhookFits, Request, NothingWritten, AttemptsOf, vars
<1>6. JobFits(w)'
  BY <1>2, <1>3, <1>5 DEF JobFits, JobFields, Handlers, Request, Nothing
<1>7. ~OrderTaken(w)' /\ ~KeyTaken(w)'
  BY <1>2 DEF OrderTaken, KeyTaken, Request
<1>8. request.attempts = Nothing /\ request.step = "check"
  BY DEF Request
<1> HIDE DEF request
<1> QED BY <1>1, <1>6, <1>7, <1>8, StartKeeps

\* The other requests begin with the lock on their order.
LEMMA StartHandlerKeeps ==
  ASSUME RaceInv, NEW w \in Workers,
         \/ \E o \in Orders, a \in AttemptId, key \in Keys, amount \in Amounts \cup {0} :
              StartConfirm(w, o, a, key, amount)
         \/ \E o \in Orders, handler \in {"createQr", "createQrAdmin"} : StartQr(w, o, handler)
         \/ \E o \in Orders : StartCancel(w, o)
  PROVE  RaceInv'
<1>1. PICK handler \in {"confirm", "createQr", "createQrAdmin", "cancel"}, o \in Orders,
           a \in {Null} \cup AttemptId, key \in Keys \cup {NoKey}, amount \in Amounts \cup {0} :
        /\ job[w] = Idle
        /\ UNCHANGED <<vars, transfers, acknowledged, owner, failures>>
        /\ job' = [job EXCEPT ![w] = Request(handler, "lockOrder", o, a, key, amount)]
        /\ handler = "confirm" => /\ a \in AttemptsOf(o) /\ key \in Keys
                                  /\ key[2] \in Refs \cup {a} /\ amount \in Amounts \cup {0}
  <2>1. CASE \E o \in Orders, a \in AttemptId, key \in Keys, amount \in Amounts \cup {0} :
               StartConfirm(w, o, a, key, amount)
    <3>1. PICK o \in Orders, a \in AttemptId, key \in Keys, amount \in Amounts \cup {0} :
            StartConfirm(w, o, a, key, amount)
      BY <2>1
    <3> QED BY <3>1 DEF StartConfirm
  <2>2. CASE \E o \in Orders, handler \in {"createQr", "createQrAdmin"} : StartQr(w, o, handler)
    <3>1. PICK o \in Orders, handler \in {"createQr", "createQrAdmin"} : StartQr(w, o, handler)
      BY <2>2
    <3> QED BY <3>1 DEF StartQr
  <2>3. CASE \E o \in Orders : StartCancel(w, o)
    <3>1. PICK o \in Orders : StartCancel(w, o)
      BY <2>3
    <3> QED BY <3>1 DEF StartCancel
  <2> QED BY <2>1, <2>2, <2>3
<1> DEFINE request == Request(handler, "lockOrder", o, a, key, amount)
<1>2. job'[w] = request
  BY <1>1 DEF RaceInv
<1>3. handler = "confirm" => ConfirmFits(w)'
  BY <1>1, <1>2 DEF ConfirmFits, Request, NothingWritten, AttemptsOf, vars
<1>4. handler \in {"createQr", "createQrAdmin"} => QrFits(w)'
  BY <1>1, <1>2 DEF QrFits, Request
<1>5. handler = "cancel" => CancelFits(w)'
  BY <1>1, <1>2 DEF CancelFits, Request
<1>6. JobFits(w)'
  BY <1>1, <1>2, <1>3, <1>4, <1>5 DEF JobFits, JobFields, Handlers, Request, Nothing
<1>7. ~OrderTaken(w)' /\ ~KeyTaken(w)'
  BY <1>1, <1>2 DEF OrderTaken, KeyTaken, Request
<1>8. request.attempts = Nothing /\ request.step = "lockOrder"
  BY DEF Request
<1>9. job' = [job EXCEPT ![w] = request]
  BY <1>1
<1> HIDE DEF request
<1> QED BY <1>1, <1>9, <1>6, <1>7, <1>8, StartKeeps

\* The expiry job begins with the sessions that are overdue.
LEMMA StartExpiryKeeps ==
  ASSUME RaceInv, NEW w \in Workers, StartExpiry(w)
  PROVE  RaceInv'
<1> DEFINE request == [Request("expiry", "expire", NoOrder, Null, NoKey, 0)
                         EXCEPT !.sessions = Expirable]
<1>1. job[w] = Idle /\ job' = [job EXCEPT ![w] = request] /\ Expirable # {}
      /\ UNCHANGED <<vars, transfers, acknowledged, owner, failures>>
  BY DEF StartExpiry
<1>2. job'[w] = request
  BY <1>1 DEF RaceInv
<1>3. Expirable \subseteq AttemptId
      /\ \A p \in Expirable : attempts[p].status = "PENDING" /\ attempts[p].overdue
  BY DEF Expirable
<1>4. ExpiryFits(w)'
  BY <1>1, <1>2, <1>3 DEF ExpiryFits, Request, Nothing, vars
<1>6. JobFits(w)'
  BY <1>2, <1>3, <1>4 DEF JobFits, JobFields, Handlers, Request, Nothing
<1>7. ~OrderTaken(w)' /\ ~KeyTaken(w)'
  BY <1>2 DEF OrderTaken, KeyTaken, Request
<1>8. request.attempts = Nothing /\ request.step = "expire"
  BY DEF Request
<1> HIDE DEF request
<1> QED BY <1>1, <1>6, <1>7, <1>8, StartKeeps

-----------------------------------------------------------------------------
(* The statements of the webhook *)

\* The next step of a request, with nothing else about it changed.
LEMMA StepFields ==
  ASSUME NEW w \in Workers, JobFits(w), NEW step
  PROVE  /\ DOMAIN To(w, step) = JobFields
         /\ To(w, step).step = step
         /\ To(w, step).handler = job[w].handler
         /\ To(w, step).order = job[w].order
         /\ To(w, step).attempt = job[w].attempt
         /\ To(w, step).key = job[w].key
         /\ To(w, step).amount = job[w].amount
         /\ To(w, step).sessions = job[w].sessions
         /\ To(w, step).orders = job[w].orders
         /\ To(w, step).attempts = job[w].attempts
         /\ To(w, step).transactions = job[w].transactions
BY DEF To, JobFits, JobFields

\* The first SELECT found no transfer of the key.
LEMMA CheckKeeps ==
  ASSUME RaceInv, NEW w \in Workers, Check(w)
  PROVE  RaceInv'
<1>1. JobFits(w) /\ LocksFit(w) /\ job[w].step = "check"
      /\ Statement(w, "check", To(w, "insert"))
  BY DEF RaceInv, Check
<1>2. job[w].handler = "webhook" /\ WebhookFits(w)
  BY <1>1, HandlerAt DEF JobFits
<1>3. job'[w] = To(w, "insert") /\ UNCHANGED vars
  BY <1>1, StatementEffects
<1>4. WebhookFits(w)'
  BY <1>1, <1>2, <1>3, StepFields DEF WebhookFits, NothingWritten, AttemptsOf, vars
<1>5. JobFits(w)'
  BY <1>1, <1>2, <1>3, <1>4, StepFields DEF JobFits, Handlers
<1>6. \A row \in Rows : owner'[row] = w <=> owner[row] = w
  BY <1>1, StatementEffects, NeedsAt
<1>7. \A a \in AttemptId : AttemptTaken(w, a) => AttemptTaken(w, a)'
  BY <1>1, <1>2, <1>3, StepFields DEF AttemptTaken
<1>8. OrderTaken(w)' = OrderTaken(w) /\ KeyTaken(w)' = KeyTaken(w)
  BY <1>1, <1>2, <1>3, StepFields DEF OrderTaken, KeyTaken
<1>9. LocksFit(w)'
  BY <1>1, <1>2, <1>3, <1>6, <1>7, <1>8, StepFields, RowsApart DEF LocksFit
<1> QED BY <1>1, <1>5, <1>9, StatementKeeps

\* The transfer is inserted; its key is locked from now on.
LEMMA InsertKeeps ==
  ASSUME RaceInv, NEW w \in Workers, InsertTransaction(w)
  PROVE  RaceInv'
<1> DEFINE row == [status |-> "UNMATCHED", attempt |-> Null, amount |-> job[w].amount]
           next == [job[w] EXCEPT !.step = IF job[w].attempt = Null THEN "commit" ELSE "lockOrder",
                                  !.transactions = Only(job[w].key, row)]
<1>1. JobFits(w) /\ LocksFit(w) /\ job[w].step = "insert" /\ Statement(w, "insert", next)
      /\ transactions[job[w].key].status = "NONE"
  BY DEF RaceInv, InsertTransaction
<1>2. job[w].handler = "webhook" /\ WebhookFits(w)
  BY <1>1, HandlerAt DEF JobFits
<1>3. job'[w] = next /\ UNCHANGED vars
  BY <1>1, StatementEffects
<1>4. /\ DOMAIN next = JobFields
      /\ next.step = IF job[w].attempt = Null THEN "commit" ELSE "lockOrder"
      /\ next.handler = "webhook" /\ next.order = job[w].order
      /\ next.attempt = job[w].attempt /\ next.key = job[w].key
      /\ next.amount = job[w].amount /\ next.sessions = job[w].sessions
      /\ next.orders = job[w].orders /\ next.attempts = job[w].attempts
      /\ next.transactions = Only(job[w].key, row)
  BY <1>1, <1>2 DEF JobFits, JobFields
<1>5. PICK k \in Keys : k = job[w].key
  BY <1>2 DEF WebhookFits, Keys
<1> HIDE DEF next
<1>6. WebhookFits(w)'
  <2>1. job'[w].transactions = Only(k, [status |-> "UNMATCHED", attempt |-> Null, amount |-> job'[w].amount])
    BY <1>3, <1>4, <1>5
  <2>2. transactions'[k].status = "NONE" /\ attempts' = attempts
    BY <1>1, <1>3, <1>5 DEF vars
  <2> QED BY <1>1, <1>2, <1>3, <1>4, <1>5, <2>1, <2>2
          DEF WebhookFits, NothingWritten, AttemptsOf, Evidenced
<1>7. JobFits(w)'
  BY <1>1, <1>2, <1>3, <1>4, <1>6 DEF JobFits, Handlers
<1>8. \A r \in Rows : owner'[r] = w <=> r = k \/ owner[r] = w
  BY <1>1, <1>5, StatementEffects, NeedsAt
<1>9. \A a \in AttemptId : AttemptTaken(w, a) => AttemptTaken(w, a)'
  BY <1>1, <1>2, <1>3, <1>4 DEF AttemptTaken
<1>10. ~OrderTaken(w)' /\ ~OrderTaken(w) /\ KeyTaken(w)'
  BY <1>1, <1>2, <1>3, <1>4 DEF OrderTaken, KeyTaken
<1>11. ~KeyTaken(w)
  BY <1>1, <1>2 DEF KeyTaken
<1>12. job'[w].attempts = job[w].attempts /\ job'[w].key = k /\ job'[w].handler = "webhook"
       /\ job'[w].step \in {"commit", "lockOrder"}
       /\ (job'[w].step = "commit" => job'[w].attempt = Null)
  BY <1>3, <1>4, <1>5
<1>13. LocksFit(w)'
  <2>1. \A o \in Orders : owner'[OrderRow(o)] # w
    BY <1>1, <1>5, <1>8, <1>10, RowsApart DEF LocksFit
  <2>2. \A l \in Keys : owner'[l] = w <=> l = k
    BY <1>1, <1>5, <1>8, <1>11, RowsApart DEF LocksFit
  <2>3. \A a \in AttemptId : owner'[AttemptRow(a)] = w <=> owner[AttemptRow(a)] = w
    BY <1>5, <1>8, RowsApart
  <2>4. \A a \in AttemptId : a # Null
    BY DEF AttemptId, Null
  <2> QED BY <1>1, <1>9, <1>10, <1>12, <2>1, <2>2, <2>3, <2>4 DEF LocksFit
<1> QED BY <1>1, <1>7, <1>13, StatementKeeps

\* A statement that locks some sessions leaves locks that fit.
LEMMA LocksAfter ==
  ASSUME NEW w \in Workers, LocksFit(w), NEW taken \in SUBSET AttemptId,
         \A row \in Rows : owner'[row] = w <=> row \in SessionRows(taken) \/ owner[row] = w,
         OrderTaken(w)' <=> OrderTaken(w), KeyTaken(w)' <=> KeyTaken(w),
         job'[w].order = job[w].order, job'[w].key = job[w].key,
         \A a \in AttemptId :
           /\ a \in taken \/ owner[AttemptRow(a)] = w => AttemptTaken(w, a)'
           /\ a \in DOMAIN job'[w].attempts => a \in taken \/ owner[AttemptRow(a)] = w
           /\ /\ job'[w].handler \in {"webhook", "confirm"}
              /\ job'[w].step \in {"cancelPending", "keep", "commit"}
              /\ a = job'[w].attempt
              => a \in taken \/ owner[AttemptRow(a)] = w
  PROVE  LocksFit(w)'
<1>1. \A a \in AttemptId :
        /\ AttemptRow(a) \in Rows
        /\ AttemptRow(a) \in SessionRows(taken) <=> a \in taken
  BY DEF AttemptRow, SessionRows, Rows
<1>2. \A o \in Orders : OrderRow(o) \in Rows /\ OrderRow(o) \notin SessionRows(taken)
  BY DEF OrderRow, SessionRows, Rows
<1>3. \A k \in Keys : k \in Rows /\ k \notin SessionRows(taken)
  BY DEF SessionRows, Rows, Keys
<1>4. \A a \in AttemptId :
        owner'[AttemptRow(a)] = w <=> a \in taken \/ owner[AttemptRow(a)] = w
  BY <1>1
<1>5. \A o \in Orders : owner'[OrderRow(o)] = w <=> OrderTaken(w)' /\ job'[w].order = o
  BY <1>2 DEF LocksFit
<1>6. \A k \in Keys : owner'[k] = w <=> KeyTaken(w)' /\ job'[w].key = k
  BY <1>3 DEF LocksFit
<1> QED BY <1>4, <1>5, <1>6 DEF LocksFit

\* reconcile has locked the session and judges the transfer.
LEMMA ReconcileKeeps ==
  ASSUME RaceInv, NEW w \in Workers, Reconcile(w)
  PROVE  RaceInv'
<1>1. JobFits(w) /\ LocksFit(w) /\ job[w].step = "lockAttempt" /\ job[w].handler = "webhook"
      /\ WebhookFits(w)
  <2>1. job[w].step = "lockAttempt" /\ job[w].handler = "webhook"
    BY DEF Reconcile, Statement
  <2> QED BY <2>1 DEF RaceInv, JobFits
<1>2. PICK o \in Orders, a \in AttemptId, k \in Keys, amount \in Amounts :
        /\ o = job[w].order /\ a = job[w].attempt /\ k = job[w].key /\ amount = job[w].amount
        /\ a \in AttemptsOf(o)
  BY <1>1 DEF WebhookFits, Keys, AttemptsOf
<1>0. PICK verdict : verdict = Verdict(a, amount)
  OBVIOUS
<1> DEFINE evidence == [status |-> verdict, attempt |-> a, amount |-> amount]
           Judged == [job[w] EXCEPT !.transactions = Only(k, evidence), !.step = "commit"]
           next == CASE verdict = "MATCHED" ->
                          [Judged EXCEPT !.step = "cancelPending",
                                         !.orders = Only(o, MarkOrderPaid(o)[o]),
                                         !.attempts = Only(a, [attempts[a] EXCEPT !.status = "PAID"])]
                     [] verdict = "LATE" ->
                          [Judged EXCEPT !.attempts = Only(a, [attempts[a] EXCEPT !.status = "EXPIRED"])]
                     [] OTHER -> Judged
<1>3. Statement(w, "lockAttempt", next)
  BY <1>0, <1>2 DEF Reconcile
<1>4. /\ DOMAIN next = JobFields
      /\ next.handler = "webhook" /\ next.order = o /\ next.attempt = a /\ next.key = k
      /\ next.amount = amount /\ next.sessions = job[w].sessions
      /\ next.transactions = Only(k, evidence)
  <2> HIDE DEF evidence
  <2> QED BY <1>1, <1>2 DEF JobFits, JobFields
<1>5. CASE verdict = "MATCHED"
  <2>1. /\ next.step = "cancelPending" /\ next.orders = Only(o, MarkOrderPaid(o)[o])
        /\ next.attempts = Only(a, PaidRow(a))
    <3> HIDE DEF evidence
    <3> QED BY <1>1, <1>2, <1>5 DEF JobFits, JobFields, PaidRow
  <2>2. next.orders = Only(o, OrderPaid(o))
    BY <2>1, PaidOrder DEF RaceInv
  <2> HIDE DEF next
  <2>3. job'[w] = next /\ UNCHANGED vars
    BY <1>3, StatementEffects
  <2>4. Verdict(a, amount)' = verdict /\ PaidRow(a)' = PaidRow(a) /\ OrderPaid(o)' = OrderPaid(o)
        /\ AttemptsOf(o)' = AttemptsOf(o) /\ transactions' = transactions
    BY <1>0, <2>3 DEF Verdict, PaidRow, OrderPaid, AttemptsOf, vars
  <2>5. WebhookFits(w)'
    <3>1. Evidenced(w, "MATCHED", a, amount)'
      BY <1>4, <1>5, <2>3 DEF Evidenced
    <3> QED BY <1>1, <1>2, <1>4, <1>5, <2>1, <2>2, <2>3, <2>4, <3>1 DEF WebhookFits, Null, AttemptId
  <2>6. DOMAIN next.attempts = {a} /\ next.attempts = [b \in {a} |-> next.attempts[b]]
    BY <2>1 DEF Only
  <2>7. JobFits(w)'
    BY <1>1, <1>2, <1>4, <2>3, <2>5, <2>6 DEF JobFits, Handlers
  <2>8. \A r \in Rows : owner'[r] = w <=> r \in SessionRows({a}) \/ owner[r] = w
    BY <1>1, <1>2, <1>3, StatementEffects, NeedsAt DEF SessionRows, AttemptRow
  <2>9. \A b \in AttemptId : owner[AttemptRow(b)] # w
    BY <1>1 DEF LocksFit, AttemptTaken
  <2>10. AttemptTaken(w, a)'
    <3>1. attempts'[a].status # "NONE" /\ attempts'[a].order = o
      BY <1>2, <2>3, ConstantsAssumption DEF RaceInv, SessionsIssued, AttemptsOf, vars
    <3> QED BY <1>4, <2>1, <2>3, <3>1 DEF AttemptTaken
  <2>11. OrderTaken(w) /\ OrderTaken(w)' /\ KeyTaken(w) /\ KeyTaken(w)'
    BY <1>1, <1>2, <1>4, <2>1, <2>3 DEF OrderTaken, KeyTaken, Null, AttemptId
  <2>12. LocksFit(w)'
    BY <1>1, <1>2, <1>4, <2>3, <2>6, <2>8, <2>9, <2>10, <2>11, LocksAfter
  <2> QED BY <1>3, <2>7, <2>12, StatementKeeps
<1>6. CASE verdict # "MATCHED"
  <2>1. /\ next.step = "commit" /\ next.orders = Nothing
        /\ next.attempts = IF verdict = "LATE" THEN Only(a, Expired(a)) ELSE Nothing
    <3>1. job[w].orders = Nothing /\ job[w].attempts = Nothing
      BY <1>1 DEF WebhookFits
    <3> HIDE DEF evidence
    <3>2. next = IF verdict = "LATE"
                 THEN [Judged EXCEPT !.attempts = Only(a, [attempts[a] EXCEPT !.status = "EXPIRED"])]
                 ELSE Judged
      BY <1>6
    <3> HIDE DEF next
    <3> QED BY <1>1, <1>2, <3>1, <3>2 DEF JobFits, JobFields, Expired
  <2> HIDE DEF next
  <2>3. job'[w] = next /\ UNCHANGED vars
    BY <1>3, StatementEffects
  <2>4. Verdict(a, amount)' = verdict /\ Expired(a)' = Expired(a)
        /\ AttemptsOf(o)' = AttemptsOf(o) /\ transactions' = transactions
    BY <1>0, <2>3 DEF Verdict, Expired, AttemptsOf, vars
  <2>5. WebhookFits(w)'
    <3>1. Evidenced(w, verdict, a, amount)'
      BY <1>4, <2>3 DEF Evidenced
    <3> QED BY <1>1, <1>2, <1>4, <1>6, <2>1, <2>3, <2>4, <3>1 DEF WebhookFits, Null, AttemptId
  <2>6. DOMAIN next.attempts \subseteq {a}
        /\ next.attempts = [b \in DOMAIN next.attempts |-> next.attempts[b]]
    BY <2>1 DEF Only, Nothing
  <2>7. JobFits(w)'
    BY <1>1, <1>2, <1>4, <2>3, <2>5, <2>6 DEF JobFits, Handlers
  <2>8. \A r \in Rows : owner'[r] = w <=> r \in SessionRows({a}) \/ owner[r] = w
    BY <1>1, <1>2, <1>3, StatementEffects, NeedsAt DEF SessionRows, AttemptRow
  <2>9. \A b \in AttemptId : owner[AttemptRow(b)] # w
    BY <1>1 DEF LocksFit, AttemptTaken
  <2>10. AttemptTaken(w, a)'
    <3>1. attempts'[a].status # "NONE" /\ attempts'[a].order = o
      BY <1>2, <2>3, ConstantsAssumption DEF RaceInv, SessionsIssued, AttemptsOf, vars
    <3> QED BY <1>4, <2>1, <2>3, <3>1 DEF AttemptTaken
  <2>11. OrderTaken(w) /\ OrderTaken(w)' /\ KeyTaken(w) /\ KeyTaken(w)'
    BY <1>1, <1>2, <1>4, <2>1, <2>3 DEF OrderTaken, KeyTaken, Null, AttemptId
  <2>12. LocksFit(w)'
    BY <1>1, <1>2, <1>4, <2>3, <2>6, <2>8, <2>9, <2>10, <2>11, LocksAfter
  <2> QED BY <1>3, <2>7, <2>12, StatementKeeps
<1> QED BY <1>5, <1>6

-----------------------------------------------------------------------------
(* The statements of the confirmation by hand *)

\* The evidence was found, and locked if it is recorded.
LEMMA EvidenceKeeps ==
  ASSUME RaceInv, NEW w \in Workers, EvidenceFits(w), Statement(w, "evidence", To(w, "lockAttempt"))
  PROVE  RaceInv'
<1>1. JobFits(w) /\ LocksFit(w) /\ job[w].step = "evidence"
  BY DEF RaceInv, Statement
<1>2. job[w].handler = "confirm" /\ ConfirmFits(w)
  BY <1>1, HandlerAt DEF JobFits
<1>3. PICK k \in Keys, o \in Orders : k = job[w].key /\ o = job[w].order
  BY <1>2 DEF ConfirmFits
<1>4. job'[w] = To(w, "lockAttempt") /\ UNCHANGED vars
  BY StatementEffects
<1>5. job[w].amount = 0 => transactions[k].status \in Confirmable /\ transactions[k].status # "NONE"
  BY <1>3 DEF EvidenceFits, Confirmable
<1>6. ConfirmFits(w)'
  <2>1. Payable(o)' = Payable(o) /\ AttemptsOf(o)' = AttemptsOf(o) /\ transactions' = transactions
    BY <1>4 DEF Payable, AttemptsOf, vars
  <2> QED BY <1>1, <1>2, <1>3, <1>4, <1>5, <2>1, StepFields DEF ConfirmFits, NothingWritten
<1>7. JobFits(w)'
  BY <1>1, <1>2, <1>4, <1>6, StepFields DEF JobFits, Handlers
<1>8. \A row \in Rows : owner'[row] = w <=> (job[w].amount = 0 /\ row = k) \/ owner[row] = w
  BY <1>1, <1>3, <1>5, StatementEffects, NeedsAt
<1>9. ~KeyTaken(w) /\ (KeyTaken(w)' <=> job[w].amount = 0) /\ OrderTaken(w) /\ OrderTaken(w)'
  BY <1>1, <1>2, <1>4, StepFields DEF KeyTaken, OrderTaken
<1>10. LocksFit(w)'
  <2>1. \A p \in Orders : owner'[OrderRow(p)] = w <=> job'[w].order = p
    BY <1>1, <1>3, <1>4, <1>8, <1>9, StepFields, RowsApart DEF LocksFit
  <2>2. \A l \in Keys : owner'[l] = w <=> KeyTaken(w)' /\ job'[w].key = l
    BY <1>1, <1>3, <1>4, <1>8, <1>9, StepFields, RowsApart DEF LocksFit
  <2>3. \A a \in AttemptId : owner'[AttemptRow(a)] = w <=> owner[AttemptRow(a)] = w
    BY <1>3, <1>8, RowsApart
  <2>4. \A a \in AttemptId : owner[AttemptRow(a)] # w
    BY <1>1, <1>2 DEF LocksFit, AttemptTaken
  <2>5. job'[w].attempts = Nothing /\ job'[w].step = "lockAttempt"
    BY <1>1, <1>2, <1>4, StepFields DEF ConfirmFits, NothingWritten
  <2> QED BY <1>9, <2>1, <2>2, <2>3, <2>4, <2>5 DEF LocksFit, Nothing
<1> QED BY <1>7, <1>10, StatementKeeps

\* The session is locked and gets the money.
LEMMA ConfirmSessionKeeps ==
  ASSUME RaceInv, NEW w \in Workers, ConfirmSession(w)
  PROVE  RaceInv'
<1> DEFINE evidence == [status |-> "MANUALLY_CONFIRMED", attempt |-> job[w].attempt,
                        amount |-> ReceivedBy(w)]
           next == [job[w] EXCEPT
                      !.step = "cancelPending",
                      !.orders = Only(job[w].order, MarkOrderPaid(job[w].order)[job[w].order]),
                      !.attempts = Only(job[w].attempt, [attempts[job[w].attempt] EXCEPT !.status = "PAID"]),
                      !.transactions = Only(job[w].key, evidence)]
<1>1. \/ Refuse(w, "lockAttempt")
      \/ /\ Statement(w, "lockAttempt", next)
         /\ job[w].amount = 0 => transactions[job[w].key].attempt \in {Null, job[w].attempt}
  BY DEF ConfirmSession, ReceivedBy
<1>2. CASE Refuse(w, "lockAttempt")
  BY <1>2, RollbackKeeps DEF Refuse
<1>3. CASE /\ Statement(w, "lockAttempt", next)
           /\ job[w].amount = 0 => transactions[job[w].key].attempt \in {Null, job[w].attempt}
  <2>1. JobFits(w) /\ LocksFit(w) /\ job[w].step = "lockAttempt" /\ job[w].handler = "confirm"
        /\ ConfirmFits(w)
    <3>1. job[w].step = "lockAttempt" /\ job[w].handler = "confirm"
      BY <1>3 DEF ConfirmSession, Statement
    <3> QED BY <3>1 DEF RaceInv, JobFits
  <2>2. PICK o \in Orders, a \in AttemptId, k \in Keys :
          /\ o = job[w].order /\ a = job[w].attempt /\ k = job[w].key /\ a \in AttemptsOf(o)
    BY <2>1 DEF ConfirmFits, AttemptsOf
  <2>3. /\ DOMAIN next = JobFields /\ next.handler = "confirm" /\ next.step = "cancelPending"
        /\ next.order = o /\ next.attempt = a /\ next.key = k
        /\ next.amount = job[w].amount /\ next.sessions = job[w].sessions
        /\ next.transactions = Only(k, evidence)
        /\ next.orders = Only(o, MarkOrderPaid(o)[o])
        /\ next.attempts = Only(a, PaidRow(a))
    <3> HIDE DEF evidence
    <3> QED BY <2>1, <2>2 DEF JobFits, JobFields, PaidRow
  <2>4. next.orders = Only(o, OrderPaid(o))
    BY <2>3, PaidOrder DEF RaceInv
  <2> HIDE DEF next
  <2>5. job'[w] = next /\ UNCHANGED vars
    BY <1>3, StatementEffects
  <2>6. /\ PaidRow(a)' = PaidRow(a) /\ OrderPaid(o)' = OrderPaid(o) /\ Payable(o)' = Payable(o)
        /\ AttemptsOf(o)' = AttemptsOf(o) /\ transactions' = transactions
    BY <2>5 DEF PaidRow, OrderPaid, Payable, AttemptsOf, vars
  <2>7. ReceivedBy(w)' = ReceivedBy(w)
    BY <2>2, <2>3, <2>5, <2>6 DEF ReceivedBy
  <2>8. Evidenced(w, "MANUALLY_CONFIRMED", a, ReceivedBy(w))'
    BY <2>2, <2>3, <2>5, <2>7 DEF Evidenced
  <2>9. ConfirmFits(w)'
    BY <1>3, <2>1, <2>2, <2>3, <2>4, <2>5, <2>6, <2>8 DEF ConfirmFits, Confirmable
  <2>10. DOMAIN next.attempts = {a} /\ next.attempts = [b \in {a} |-> next.attempts[b]]
    BY <2>3 DEF Only
  <2>11. JobFits(w)'
    BY <2>1, <2>2, <2>3, <2>5, <2>9, <2>10 DEF JobFits, Handlers
  <2>12. \A r \in Rows : owner'[r] = w <=> r \in SessionRows({a}) \/ owner[r] = w
    BY <1>3, <2>1, <2>2, StatementEffects, NeedsAt DEF SessionRows, AttemptRow
  <2>13. \A b \in AttemptId : owner[AttemptRow(b)] # w
    BY <2>1 DEF LocksFit, AttemptTaken
  <2>14. AttemptTaken(w, a)'
    <3>1. attempts'[a].status # "NONE" /\ attempts'[a].order = o
      BY <2>2, <2>5, ConstantsAssumption DEF RaceInv, SessionsIssued, AttemptsOf, vars
    <3> QED BY <2>3, <2>5, <3>1 DEF AttemptTaken
  <2>15. OrderTaken(w) /\ OrderTaken(w)' /\ (KeyTaken(w)' <=> KeyTaken(w))
    BY <2>1, <2>2, <2>3, <2>5 DEF OrderTaken, KeyTaken
  <2>16. LocksFit(w)'
    BY <2>1, <2>2, <2>3, <2>5, <2>10, <2>12, <2>13, <2>14, <2>15, LocksAfter
  <2> QED BY <1>3, <2>11, <2>16, StatementKeeps
<1> QED BY <1>1, <1>2, <1>3

\* The evidence is saved; its key is locked from now on if it was not before.
LEMMA KeepKeeps ==
  ASSUME RaceInv, NEW w \in Workers, EvidenceFits(w), Statement(w, "keep", To(w, "commit"))
  PROVE  RaceInv'
<1>1. JobFits(w) /\ LocksFit(w) /\ job[w].step = "keep"
  BY DEF RaceInv, Statement
<1>2. job[w].handler = "confirm" /\ ConfirmFits(w)
  BY <1>1, HandlerAt DEF JobFits
<1>3. PICK k \in Keys, o \in Orders, a \in AttemptId :
        k = job[w].key /\ o = job[w].order /\ a = job[w].attempt
  BY <1>2 DEF ConfirmFits, AttemptsOf
<1>4. job'[w] = To(w, "commit") /\ UNCHANGED vars
  BY StatementEffects
<1>5. ConfirmFits(w)'
  <2>1. /\ Payable(o)' = Payable(o) /\ AttemptsOf(o)' = AttemptsOf(o) /\ transactions' = transactions
        /\ OrderPaid(o)' = OrderPaid(o) /\ PaidRows(o, a)' = PaidRows(o, a)
    BY <1>4 DEF Payable, AttemptsOf, vars, OrderPaid, PaidRows, PaidRow, PendingAttempts, Cancelled
  <2>2. ReceivedBy(w)' = ReceivedBy(w) /\ EvidenceFits(w)'
    BY <1>1, <1>3, <1>4, <2>1, StepFields DEF ReceivedBy, EvidenceFits
  <2>3. Evidenced(w, "MANUALLY_CONFIRMED", a, ReceivedBy(w))'
    BY <1>1, <1>2, <1>3, <1>4, <2>2, StepFields DEF Evidenced, ConfirmFits
  <2> QED BY <1>1, <1>2, <1>3, <1>4, <2>1, <2>2, <2>3, StepFields DEF ConfirmFits
<1>6. JobFits(w)'
  BY <1>1, <1>2, <1>4, <1>5, StepFields DEF JobFits, Handlers
<1>7. \A row \in Rows : owner'[row] = w <=> row = k \/ owner[row] = w
  BY <1>1, <1>3, StatementEffects, NeedsAt
<1>8. KeyTaken(w)' /\ OrderTaken(w) /\ OrderTaken(w)'
  BY <1>1, <1>2, <1>4, StepFields DEF KeyTaken, OrderTaken
<1>9. LocksFit(w)'
  <2>1. \A p \in Orders : owner'[OrderRow(p)] = w <=> job'[w].order = p
    BY <1>1, <1>3, <1>4, <1>7, <1>8, StepFields, RowsApart DEF LocksFit
  <2>2. \A l \in Keys : owner'[l] = w <=> job'[w].key = l
    BY <1>1, <1>3, <1>4, <1>7, StepFields, RowsApart DEF LocksFit
  <2>3. \A b \in AttemptId : owner'[AttemptRow(b)] = w <=> owner[AttemptRow(b)] = w
    BY <1>3, <1>7, RowsApart
  <2>4. \A b \in AttemptId : AttemptTaken(w, b) => AttemptTaken(w, b)'
    BY <1>1, <1>2, <1>4, StepFields DEF AttemptTaken, vars
  <2> QED BY <1>1, <1>2, <1>4, <1>8, <2>1, <2>2, <2>3, <2>4, StepFields DEF LocksFit
<1> QED BY <1>6, <1>9, StatementKeeps

-----------------------------------------------------------------------------
(* The statements that lock the order, and those on sessions *)

\* What the check on the locked order allows, the order has to show.
LEMMA LockOrderKeeps ==
  ASSUME RaceInv, NEW w \in Workers, Allowed(w), Statement(w, "lockOrder", AfterOrder(w))
  PROVE  RaceInv'
<1>1. JobFits(w) /\ LocksFit(w) /\ job[w].step = "lockOrder"
  BY DEF RaceInv, Statement
<1>2. job[w].handler \in {"webhook", "confirm", "createQr", "createQrAdmin", "cancel"}
  BY <1>1, HandlerAt
<1>3. PICK o \in Orders : o = job[w].order
  BY <1>1, <1>2 DEF JobFits, WebhookFits, ConfirmFits, QrFits, CancelFits
<1>4. job'[w] = AfterOrder(w) /\ UNCHANGED vars
  BY StatementEffects
<1>5. /\ Payable(o)' = Payable(o) /\ AttemptsOf(o)' = AttemptsOf(o) /\ transactions' = transactions
      /\ orders' = orders
  BY <1>4 DEF Payable, AttemptsOf, vars
<1>6. \A r \in Rows : owner'[r] = w <=> r = OrderRow(o) \/ owner[r] = w
  BY <1>1, <1>3, StatementEffects, NeedsAt
<1>7. \A b \in AttemptId : owner[AttemptRow(b)] # w
  BY <1>1, <1>2 DEF LocksFit, AttemptTaken
<1>8. /\ DOMAIN job'[w] = JobFields
      /\ job'[w].handler = job[w].handler /\ job'[w].order = o
      /\ job'[w].attempt = job[w].attempt /\ job'[w].key = job[w].key
      /\ job'[w].amount = job[w].amount /\ job'[w].sessions = job[w].sessions
      /\ job'[w].attempts = job[w].attempts /\ job'[w].transactions = job[w].transactions
      /\ job'[w].orders = IF job[w].handler = "cancel"
                          THEN Only(o, [orders[o] EXCEPT !.status = "cancelled"]) ELSE job[w].orders
      /\ job'[w].step = CASE job[w].handler = "webhook" -> "lockAttempt"
                          [] job[w].handler = "confirm" -> "evidence"
                          [] job[w].handler = "cancel" -> "cancelPending"
                          [] OTHER -> "look"
  <2>1. CASE job[w].handler = "cancel"
    <3>1. job'[w] = [job[w] EXCEPT !.step = "cancelPending",
                            !.orders = Only(o, [orders[o] EXCEPT !.status = "cancelled"])]
      BY <1>3, <1>4, <2>1 DEF AfterOrder
    <3> QED BY <1>1, <1>3, <2>1, <3>1 DEF JobFits, JobFields
  <2>2. CASE job[w].handler # "cancel"
    BY <1>1, <1>2, <1>3, <1>4, <2>2, StepFields DEF AfterOrder
  <2> QED BY <2>1, <2>2
<1>9. JobFits(w)'
  <2>1. CASE job[w].handler = "webhook"
    <3>1. WebhookFits(w)'
      BY <1>1, <1>3, <1>5, <1>8, <2>1 DEF JobFits, WebhookFits, Evidenced
    <3> QED BY <1>1, <1>8, <2>1, <3>1 DEF JobFits, Handlers
  <2>2. CASE job[w].handler = "confirm"
    <3>1. Payable(o)
      BY <1>3, <2>2 DEF Allowed
    <3>2. ConfirmFits(w)'
      BY <1>1, <1>3, <1>5, <1>8, <2>2, <3>1 DEF JobFits, ConfirmFits, NothingWritten
    <3> QED BY <1>1, <1>8, <2>2, <3>2 DEF JobFits, Handlers
  <2>3. CASE job[w].handler \in {"createQr", "createQrAdmin"}
    <3>1. Payable(o)
      BY <1>3, <2>3 DEF Allowed
    <3>2. QrFits(w)'
      BY <1>1, <1>3, <1>5, <1>8, <2>3, <3>1 DEF JobFits, QrFits
    <3> QED BY <1>1, <1>8, <2>3, <3>2 DEF JobFits, Handlers
  <2>4. CASE job[w].handler = "cancel"
    <3>1. orders[o] = [status |-> "pending", paymentStatus |-> "unpaid"]
      BY <1>3, <2>4 DEF Allowed
    <3>2. CancelFits(w)'
      BY <1>1, <1>3, <1>5, <1>8, <2>4, <3>1 DEF JobFits, CancelFits
    <3> QED BY <1>1, <1>8, <2>4, <3>2 DEF JobFits, Handlers
  <2> QED BY <1>2, <2>1, <2>2, <2>3, <2>4
<1>10. ~OrderTaken(w) /\ OrderTaken(w)' /\ (KeyTaken(w)' <=> KeyTaken(w))
  <2>1. job[w].handler = "webhook" => job[w].attempt # Null
    BY <1>1 DEF JobFits, WebhookFits
  <2> QED BY <1>1, <1>2, <1>8, <2>1 DEF OrderTaken, KeyTaken
<1>11. LocksFit(w)'
  <2>1. \A p \in Orders : owner'[OrderRow(p)] = w <=> p = o
    BY <1>1, <1>6, <1>10, RowsApart DEF LocksFit
  <2>2. \A k \in Keys : owner'[k] = w <=> owner[k] = w
    BY <1>6, RowsApart
  <2>3. \A b \in AttemptId : owner'[AttemptRow(b)] # w
    BY <1>6, <1>7, RowsApart
  <2>4. job'[w].attempts = Nothing
    BY <1>1, <1>2, <1>8 DEF JobFits, WebhookFits, ConfirmFits, QrFits, CancelFits, NothingWritten
  <2>5. job'[w].handler \in {"webhook", "confirm"} => job'[w].step \notin {"cancelPending", "keep", "commit"}
    BY <1>8
  <2> QED BY <1>1, <1>8, <1>10, <2>1, <2>2, <2>3, <2>4, <2>5 DEF LocksFit, Nothing
<1> QED BY <1>9, <1>11, StatementKeeps

\* createQr and createQrAdmin find the sessions that are pending.
LEMMA LookKeeps ==
  ASSUME RaceInv, NEW w \in Workers, Look(w)
  PROVE  RaceInv'
<1> DEFINE pending == PendingAttempts(job[w].order)
           next == [job[w] EXCEPT !.sessions = pending,
                                  !.step = IF pending = {} THEN "issue" ELSE "expire"]
<1>1. \/ Refuse(w, "look")
      \/ /\ Statement(w, "look", next)
         /\ job[w].handler = "createQr" => \A a \in pending : attempts[a].overdue
  BY DEF Look
<1>2. CASE Refuse(w, "look")
  BY <1>2, RollbackKeeps DEF Refuse
<1>3. CASE /\ Statement(w, "look", next)
           /\ job[w].handler = "createQr" => \A a \in pending : attempts[a].overdue
  <2>1. JobFits(w) /\ LocksFit(w) /\ job[w].step = "look"
    BY <1>3 DEF RaceInv, Statement
  <2>2. job[w].handler \in {"createQr", "createQrAdmin"} /\ QrFits(w)
    BY <2>1, HandlerAt DEF JobFits
  <2>3. PICK o \in Orders : o = job[w].order
    BY <2>2 DEF QrFits
  <2>4. PICK P \in SUBSET AttemptId : P = PendingAttempts(o) /\ P = pending
    BY <2>3 DEF PendingAttempts, AttemptsOf
  <2>5. /\ DOMAIN next = JobFields /\ next.handler = job[w].handler
        /\ next.step = IF P = {} THEN "issue" ELSE "expire"
        /\ next.order = o /\ next.attempt = job[w].attempt /\ next.key = job[w].key
        /\ next.sessions = P
        /\ next.transactions = Nothing /\ next.orders = Nothing /\ next.attempts = Nothing
    <3> HIDE DEF pending
    <3> QED BY <2>1, <2>2, <2>3, <2>4 DEF JobFits, JobFields, QrFits
  <2> HIDE DEF next
  <2>6. job'[w] = next /\ UNCHANGED vars
    BY <1>3, StatementEffects
  <2>7. /\ Payable(o)' = Payable(o) /\ AttemptsOf(o)' = AttemptsOf(o)
        /\ PendingAttempts(o)' = P /\ attempts' = attempts
    BY <2>4, <2>6 DEF Payable, AttemptsOf, PendingAttempts, vars
  <2>8. P \subseteq AttemptsOf(o)
    BY <2>4 DEF PendingAttempts
  <2>9. QrFits(w)'
    <3>1. job[w].handler = "createQr" => \A a \in P : attempts[a].overdue
      BY <1>3, <2>4
    <3> HIDE DEF pending
    <3> QED BY <2>1, <2>2, <2>3, <2>5, <2>6, <2>7, <2>8, <3>1 DEF QrFits, Nothing
  <2>10. JobFits(w)'
    <3> HIDE DEF pending
    <3> QED BY <2>1, <2>2, <2>4, <2>5, <2>6, <2>9 DEF JobFits, Handlers, Nothing
  <2>11. \A r \in Rows : owner'[r] = w <=> r \in SessionRows({}) \/ owner[r] = w
    BY <1>3, <2>1, StatementEffects, NeedsAt DEF SessionRows
  <2>12. \A b \in AttemptId : owner[AttemptRow(b)] # w
    BY <2>1, <2>2 DEF LocksFit, AttemptTaken
  <2>13. OrderTaken(w) /\ OrderTaken(w)' /\ (KeyTaken(w)' <=> KeyTaken(w))
    BY <2>1, <2>2, <2>5, <2>6 DEF OrderTaken, KeyTaken
  <2>14. LocksFit(w)'
    <3>1. job'[w].order = job[w].order /\ job'[w].key = job[w].key /\ job'[w].attempts = Nothing
          /\ job'[w].handler \notin {"webhook", "confirm"}
      BY <2>2, <2>3, <2>5, <2>6
    <3> QED BY <2>1, <2>11, <2>12, <2>13, <3>1, LocksAfter DEF Nothing
  <2> QED BY <1>3, <2>10, <2>14, StatementKeeps
<1> QED BY <1>1, <1>2, <1>3

\* The first of some sessions is one of them, and no later than the others.
LEMMA FirstSession ==
  ASSUME NEW S \in SUBSET AttemptId, S # {}
  PROVE  /\ FirstOf(S) = {Min(S)} /\ Min(S) \in S
         /\ \A s \in S : Min(S) <= s
<1>1. S \in SUBSET Nat
  BY ConstantsAssumption DEF AttemptId
<1>2. PICK n \in S : \A m \in S : <<m, n>> \notin OpToRel(<, Nat)
  BY <1>1, NatLessThanWellFounded, WFMin
<1>3. ASSUME NEW m \in S PROVE n <= m
  <2>1. m \in Nat /\ n \in Nat
    BY <1>1
  <2>2. m < n => <<m, n>> \in OpToRel(<, Nat)
    BY <2>1 DEF OpToRel
  <2>3. ~(m < n)
    BY <1>2, <2>2
  <2> QED BY <2>1, <2>3
<1> QED BY <1>3 DEF Min, FirstOf

\* An UPDATE expires the next session if it is still pending.
LEMMA ExpireKeeps ==
  ASSUME RaceInv, NEW w \in Workers, Expire(w)
  PROVE  RaceInv'
<1>1. JobFits(w) /\ LocksFit(w) /\ job[w].step = "expire"
  BY DEF RaceInv, Expire, Statement
<1>2. job[w].handler \in {"createQr", "createQrAdmin", "expiry"}
  BY <1>1, HandlerAt
<1>3. PICK S \in SUBSET AttemptId : S = job[w].sessions /\ S # {}
  BY <1>1, <1>2 DEF JobFits, QrFits, ExpiryFits
<1>4. PICK a \in S : a = Min(S) /\ FirstOf(S) = {a} /\ \A s \in S : a <= s
  BY <1>3, FirstSession
<1> DEFINE rest == S \ {a}
<1>5. PICK expired : expired = IF job[w].handler = "createQrAdmin" THEN ExpiredNow(a) ELSE Expired(a)
  OBVIOUS
<1>6. [attempts[a] EXCEPT !.status = "EXPIRED",
                          !.overdue = @ \/ job[w].handler = "createQrAdmin"] = expired
  <2>1. attempts[a] \in PaymentAttempt /\ attempts[a].overdue \in BOOLEAN
    BY <1>3 DEF RaceInv, IndInv, TypeOK, PaymentAttempt
  <2>2. CASE job[w].handler = "createQrAdmin"
    <3>1. (attempts[a].overdue \/ job[w].handler = "createQrAdmin") = TRUE
      BY <2>2
    <3> QED BY <1>5, <2>2, <3>1 DEF ExpiredNow
  <2>3. CASE job[w].handler # "createQrAdmin"
    <3>1. (attempts[a].overdue \/ job[w].handler = "createQrAdmin") = attempts[a].overdue
      BY <2>1, <2>3
    <3>2. [attempts[a] EXCEPT !.status = "EXPIRED", !.overdue = attempts[a].overdue] = Expired(a)
      BY <2>1 DEF Expired, PaymentAttempt
    <3> QED BY <1>5, <2>3, <3>1, <3>2
  <2> QED BY <2>2, <2>3
<1>7. PICK written : /\ written = IF attempts[a].status = "PENDING" THEN Only(a, expired) ELSE Nothing
                     /\ DOMAIN written = IF attempts[a].status = "PENDING" THEN {a} ELSE {}
  BY OnlyRow
<1> DEFINE next == [job[w] EXCEPT
                      !.sessions = rest,
                      !.attempts = Over(written, @),
                      !.step = IF rest # {} THEN "expire"
                               ELSE IF job[w].handler = "expiry" THEN "commit" ELSE "issue"]
<1>8. Statement(w, "expire", next)
  BY <1>3, <1>4, <1>6, <1>7 DEF Expire
<1>9. PICK held : held = Over(written, job[w].attempts)
  OBVIOUS
<1>10. /\ DOMAIN held = DOMAIN job[w].attempts \cup (IF attempts[a].status = "PENDING" THEN {a} ELSE {})
       /\ held = [b \in DOMAIN held |-> held[b]]
       /\ attempts[a].status = "PENDING" => held[a] = expired
       /\ \A b \in DOMAIN job[w].attempts :
            (b = a /\ attempts[a].status = "PENDING") \/ held[b] = job[w].attempts[b]
  BY <1>7, <1>9 DEF Over, Only, Nothing
<1>11. /\ DOMAIN next = JobFields /\ next.handler = job[w].handler
       /\ next.step = IF rest # {} THEN "expire"
                      ELSE IF job[w].handler = "expiry" THEN "commit" ELSE "issue"
       /\ next.order = job[w].order /\ next.attempt = job[w].attempt /\ next.key = job[w].key
       /\ next.amount = job[w].amount
       /\ next.sessions = rest /\ next.transactions = job[w].transactions
       /\ next.orders = job[w].orders /\ next.attempts = held
  BY <1>1, <1>9 DEF JobFits, JobFields
<1> HIDE DEF next
<1>12. job'[w] = next /\ UNCHANGED vars
  BY <1>8, StatementEffects
<1>13. attempts' = attempts /\ (\A p : Expired(p)' = Expired(p) /\ ExpiredNow(p)' = ExpiredNow(p))
  BY <1>12 DEF vars, Expired, ExpiredNow
<1>14. \A p \in DOMAIN held : (p = a /\ attempts[a].status = "PENDING") \/ p \in DOMAIN job[w].attempts
  BY <1>10
<1>15. JobFits(w)' /\ attempts[a].status # "NONE"
  <2>1. CASE job[w].handler \in {"createQr", "createQrAdmin"}
    <3>1. QrFits(w)
      BY <1>1, <2>1 DEF JobFits
    <3>2. PICK o \in Orders : o = job[w].order
      BY <3>1 DEF QrFits
    <3>3. a \in AttemptsOf(o) /\ (attempts[a].status = "PENDING" <=> a \in PendingAttempts(o))
      BY <1>1, <1>3, <3>1, <3>2 DEF QrFits, PendingAttempts
    <3>4. attempts[a].status # "NONE"
      BY <1>3, <3>3, ConstantsAssumption DEF AttemptsOf, RaceInv, SessionsIssued
    <3>5. /\ Payable(o)' = Payable(o) /\ AttemptsOf(o)' = AttemptsOf(o)
          /\ PendingAttempts(o)' = PendingAttempts(o)
      BY <1>12 DEF Payable, AttemptsOf, PendingAttempts, vars
    <3>6. /\ PendingAttempts(o) \subseteq DOMAIN held \cup rest
          /\ rest \subseteq AttemptsOf(o)
          /\ DOMAIN held \subseteq PendingAttempts(o)
          /\ job[w].handler = "createQr" => \A p \in DOMAIN held \cup rest : attempts[p].overdue
      BY <1>1, <1>3, <1>10, <3>1, <3>2, <3>3 DEF QrFits
    <3>7. \A p \in DOMAIN held :
            held[p] = IF job[w].handler = "createQrAdmin" THEN ExpiredNow(p) ELSE Expired(p)
      BY <1>1, <1>5, <1>10, <3>1 DEF QrFits
    <3>8. QrFits(w)'
      BY <1>1, <1>3, <1>11, <1>12, <1>13, <2>1, <3>1, <3>2, <3>5, <3>6, <3>7 DEF QrFits
    <3>9. DOMAIN held \subseteq AttemptId
      BY <1>1, <1>3, <1>10 DEF JobFits
    <3> QED BY <1>1, <1>10, <1>11, <1>12, <2>1, <3>4, <3>8, <3>9 DEF JobFits, Handlers
  <2>2. CASE job[w].handler = "expiry"
    <3>1. ExpiryFits(w)
      BY <1>1, <2>2 DEF JobFits
    <3>2. attempts[a].status # "NONE" /\ attempts[a].overdue
      BY <1>3, <3>1 DEF ExpiryFits
    <3>3. \A p \in DOMAIN held : /\ attempts[p].status = "PENDING" /\ attempts[p].overdue
                                 /\ held[p] = Expired(p)
      BY <1>5, <1>10, <2>2, <3>1, <3>2 DEF ExpiryFits
    <3>4. ExpiryFits(w)'
      BY <1>3, <1>11, <1>12, <1>13, <2>2, <3>1, <3>3 DEF ExpiryFits
    <3>5. DOMAIN held \subseteq AttemptId
      BY <1>1, <1>3, <1>10 DEF JobFits
    <3> QED BY <1>1, <1>10, <1>11, <1>12, <2>2, <3>2, <3>4, <3>5 DEF JobFits, Handlers
  <2> QED BY <1>2, <2>1, <2>2
<1>16. \A r \in Rows : owner'[r] = w <=> r \in SessionRows({a}) \/ owner[r] = w
  <2>1. Needs(w) = SessionRows({a})
    BY <1>1, <1>3, <1>4, NeedsAt
  <2> QED BY <1>8, <2>1, StatementEffects
<1>17. \A s \in rest : a < s
  BY <1>3, <1>4, ConstantsAssumption DEF AttemptId
<1>18. AttemptTaken(w, a)'
  <2>1. job[w].handler \in {"createQr", "createQrAdmin"} => attempts[a].order = job[w].order
    BY <1>1, <1>3 DEF JobFits, QrFits, AttemptsOf
  <2>2. next.step \in {"expire", "issue", "commit"} /\ (job[w].handler # "expiry" => next.step # "commit")
    BY <1>11
  <2> QED BY <1>2, <1>11, <1>12, <1>13, <1>15, <1>17, <2>1, <2>2 DEF AttemptTaken
<1>19. \A b \in AttemptId : AttemptTaken(w, b) => AttemptTaken(w, b)'
  <2>2. next.step \in {"expire", "issue", "commit"} /\ (job[w].handler # "expiry" => next.step # "commit")
    BY <1>11
  <2> QED BY <1>1, <1>2, <1>3, <1>11, <1>12, <1>13, <2>2 DEF AttemptTaken
<1>20. (OrderTaken(w)' <=> OrderTaken(w)) /\ (KeyTaken(w)' <=> KeyTaken(w))
  BY <1>1, <1>2, <1>11, <1>12 DEF OrderTaken, KeyTaken
<1>21. LocksFit(w)'
  <2>1. /\ job'[w].order = job[w].order /\ job'[w].key = job[w].key
        /\ job'[w].handler \notin {"webhook", "confirm"} /\ job'[w].attempts = held
    BY <1>2, <1>11, <1>12
  <2>2. \A b \in AttemptId : owner[AttemptRow(b)] = w => AttemptTaken(w, b)'
    BY <1>1, <1>19 DEF LocksFit
  <2>3. \A b \in AttemptId : b \in DOMAIN held => b = a \/ owner[AttemptRow(b)] = w
    BY <1>1, <1>14 DEF LocksFit
  <2>4. {a} \in SUBSET AttemptId
    BY <1>3
  <2> QED BY <1>1, <1>16, <1>18, <1>20, <2>1, <2>2, <2>3, <2>4, LocksAfter
<1> QED BY <1>8, <1>15, <1>21, StatementKeeps

\* The sessions of the order that are pending still are cancelled.
LEMMA CancelPendingKeeps ==
  ASSUME RaceInv, NEW w \in Workers, CancelPending(w)
  PROVE  RaceInv'
<1>1. JobFits(w) /\ LocksFit(w) /\ job[w].step = "cancelPending"
  BY DEF RaceInv, CancelPending, Statement
<1>2. job[w].handler \in {"webhook", "confirm", "cancel"}
  BY <1>1, HandlerAt
<1>3. PICK o \in Orders : o = job[w].order
  BY <1>1, <1>2 DEF JobFits, WebhookFits, ConfirmFits, CancelFits, Null
<1>4. PICK P \in SUBSET AttemptId : P = PendingSeen(w)
  BY DEF PendingSeen, AttemptsOf
<1>5. PICK cancelled : cancelled = [a \in P |-> Cancelled(a)]
  OBVIOUS
<1>6. PICK held : held = Over(cancelled, job[w].attempts)
  OBVIOUS
<1> DEFINE next == [job[w] EXCEPT !.attempts = Over(cancelled, @),
                                  !.step = IF job[w].handler = "confirm" THEN "keep" ELSE "commit"]
<1>7. Statement(w, "cancelPending", next)
  BY <1>4, <1>5 DEF CancelPending, Cancelled
<1>8. /\ DOMAIN next = JobFields /\ next.handler = job[w].handler
      /\ next.step = IF job[w].handler = "confirm" THEN "keep" ELSE "commit"
      /\ next.order = o /\ next.attempt = job[w].attempt /\ next.key = job[w].key
      /\ next.amount = job[w].amount /\ next.sessions = job[w].sessions
      /\ next.transactions = job[w].transactions /\ next.orders = job[w].orders
      /\ next.attempts = held
  BY <1>1, <1>3, <1>6 DEF JobFits, JobFields
<1> HIDE DEF next
<1>9. job'[w] = next /\ UNCHANGED vars
  BY <1>7, StatementEffects
<1>10. /\ Payable(o)' = Payable(o) /\ AttemptsOf(o)' = AttemptsOf(o)
       /\ transactions' = transactions /\ orders' = orders /\ attempts' = attempts
       /\ PendingAttempts(o)' = PendingAttempts(o) /\ OrderPaid(o)' = OrderPaid(o)
  BY <1>9 DEF Payable, AttemptsOf, PendingAttempts, OrderPaid, vars
<1>11. /\ DOMAIN held = P \cup DOMAIN job[w].attempts
       /\ held = [b \in DOMAIN held |-> held[b]]
  BY <1>5, <1>6 DEF Over
<1>12. P \subseteq AttemptsOf(o)
  BY <1>3, <1>4 DEF PendingSeen
<1>13. \A r \in Rows : owner'[r] = w <=> r \in SessionRows(P) \/ owner[r] = w
  BY <1>1, <1>4, <1>7, StatementEffects, NeedsAt
<1>14. \A a \in P : attempts'[a].status # "NONE" /\ attempts'[a].order = o
  BY <1>10, <1>12, ConstantsAssumption DEF RaceInv, SessionsIssued, AttemptsOf
<1>15. CASE job[w].handler \in {"webhook", "confirm"}
  <2>1. PICK a \in AttemptId :
          /\ a = job[w].attempt /\ a \in AttemptsOf(o)
          /\ job[w].attempts = Only(a, PaidRow(a))
    BY <1>1, <1>3, <1>15 DEF JobFits, WebhookFits, ConfirmFits, AttemptsOf, Null, AttemptId
  <2>2. \A b \in AttemptId : Over(job[w].attempts, attempts)[b] = IF b = a THEN PaidRow(a) ELSE attempts[b]
    BY <2>1 DEF Over, Only, RaceInv, IndInv, TypeOK
  <2>3. PaidRow(a).status = "PAID"
    BY DEF PaidRow, RaceInv, IndInv, TypeOK, PaymentAttempt
  <2>4. P = PendingAttempts(o) \ {a}
    BY <1>3, <1>4, <2>2, <2>3 DEF PendingSeen, PendingAttempts, AttemptsOf
  <2>5. held = PaidRows(o, a) /\ PaidRows(o, a)' = PaidRows(o, a)
    <3>1. held = PaidRows(o, a)
      BY <1>5, <1>6, <2>1, <2>4 DEF PaidRows
    <3>2. PaidRow(a)' = PaidRow(a) /\ (\A p : Cancelled(p)' = Cancelled(p))
      BY <1>10 DEF PaidRow, Cancelled
    <3> QED BY <1>10, <3>1, <3>2 DEF PaidRows
  <2>6. JobFits(w)'
    <3>1. CASE job[w].handler = "webhook"
      <4>0. WebhookFits(w)
        BY <1>1, <3>1 DEF JobFits
      <4>1. PICK k \in Keys, amount \in Amounts : k = job[w].key /\ amount = job[w].amount
        BY <4>0 DEF WebhookFits, Keys
      <4>2. Verdict(a, amount)' = Verdict(a, amount)
        BY <1>9 DEF Verdict, vars
      <4>3. Verdict(a, amount) = "MATCHED" /\ job[w].orders = Only(o, OrderPaid(o))
            /\ transactions[k].status = "NONE"
            /\ Evidenced(w, "MATCHED", a, amount)
        BY <1>1, <1>3, <2>1, <4>0, <4>1 DEF WebhookFits, Null, AttemptId
      <4>4. Evidenced(w, "MATCHED", a, amount)'
        BY <1>8, <1>9, <4>3 DEF Evidenced
      <4>5. WebhookFits(w)'
        BY <1>8, <1>9, <1>10, <2>1, <2>5, <3>1, <4>0, <4>1, <4>2, <4>3, <4>4 DEF WebhookFits, Null, AttemptId
      <4> QED BY <1>1, <1>8, <1>9, <1>11, <1>12, <3>1, <4>5 DEF JobFits, Handlers, AttemptsOf
    <3>2. CASE job[w].handler = "confirm"
      <4>0. ConfirmFits(w)
        BY <1>1, <3>2 DEF JobFits
      <4>1. PICK k \in Keys : k = job[w].key
        BY <4>0 DEF ConfirmFits
      <4>2. ReceivedBy(w)' = ReceivedBy(w)
        BY <1>8, <1>9, <1>10, <4>1 DEF ReceivedBy
      <4>3. Evidenced(w, "MANUALLY_CONFIRMED", a, ReceivedBy(w))'
        BY <1>1, <1>8, <1>9, <2>1, <4>0, <4>2 DEF Evidenced, ConfirmFits
      <4>4. ConfirmFits(w)'
        BY <1>1, <1>3, <1>8, <1>9, <1>10, <2>1, <2>5, <3>2, <4>0, <4>1, <4>3 DEF ConfirmFits
      <4> QED BY <1>1, <1>8, <1>9, <1>11, <1>12, <3>2, <4>4 DEF JobFits, Handlers, AttemptsOf
    <3> QED BY <1>15, <3>1, <3>2
  <2>7. owner[AttemptRow(a)] = w /\ \A b \in AttemptId : owner[AttemptRow(b)] = w => b = a
    BY <1>1, <1>15, <2>1 DEF LocksFit, AttemptTaken
  <2>8. \A b \in AttemptId : b \in P \/ b = a => AttemptTaken(w, b)'
    <3>1. attempts'[a].status # "NONE" /\ attempts'[a].order = o
      BY <1>10, <2>1, ConstantsAssumption DEF RaceInv, SessionsIssued, AttemptsOf
    <3> QED BY <1>8, <1>9, <1>14, <1>15, <3>1 DEF AttemptTaken
  <2>9. (OrderTaken(w)' <=> OrderTaken(w)) /\ (KeyTaken(w)' <=> KeyTaken(w))
    BY <1>1, <1>8, <1>9, <1>15, <2>1 DEF OrderTaken, KeyTaken
  <2>10. LocksFit(w)'
    <3>1. /\ job'[w].order = job[w].order /\ job'[w].key = job[w].key
          /\ job'[w].attempt = a /\ job'[w].attempts = held
      BY <1>3, <1>8, <1>9, <2>1
    <3>2. DOMAIN held = P \cup {a}
      BY <1>11, <2>1 DEF Only
    <3> QED BY <1>1, <1>13, <2>7, <2>8, <2>9, <3>1, <3>2, LocksAfter
  <2> QED BY <1>7, <2>6, <2>10, StatementKeeps
<1>16. CASE job[w].handler = "cancel"
  <2>1. CancelFits(w) /\ job[w].attempts = Nothing
    BY <1>1, <1>16 DEF JobFits, CancelFits
  <2>2. Over(job[w].attempts, attempts) = attempts
    BY <2>1, OverOne DEF RaceInv, IndInv, TypeOK
  <2>3. P = PendingAttempts(o)
    BY <1>3, <1>4, <2>2 DEF PendingSeen, PendingAttempts
  <2>4. held = [p \in PendingAttempts(o) |-> Cancelled(p)]
    BY <1>5, <1>6, <2>1, <2>3 DEF Over, Nothing
  <2>5. [p \in PendingAttempts(o) |-> Cancelled(p)]' = [p \in PendingAttempts(o) |-> Cancelled(p)]
    BY <1>10 DEF Cancelled
  <2>6. JobFits(w)'
    <3>1. CancelFits(w)'
      BY <1>1, <1>3, <1>8, <1>9, <1>10, <1>16, <2>1, <2>4, <2>5 DEF CancelFits
    <3> QED BY <1>1, <1>8, <1>9, <1>11, <1>12, <1>16, <3>1 DEF JobFits, Handlers, AttemptsOf
  <2>7. \A b \in AttemptId : owner[AttemptRow(b)] # w
    BY <1>1, <1>16 DEF LocksFit, AttemptTaken
  <2>8. \A b \in P : AttemptTaken(w, b)'
    BY <1>8, <1>9, <1>14, <1>16 DEF AttemptTaken
  <2>9. (OrderTaken(w)' <=> OrderTaken(w)) /\ (KeyTaken(w)' <=> KeyTaken(w))
    BY <1>1, <1>8, <1>9, <1>16 DEF OrderTaken, KeyTaken
  <2>10. LocksFit(w)'
    <3>1. /\ job'[w].order = job[w].order /\ job'[w].key = job[w].key
          /\ job'[w].handler = "cancel" /\ job'[w].attempts = held
      BY <1>3, <1>8, <1>9, <1>16
    <3>2. DOMAIN held = P
      BY <2>3, <2>4
    <3> QED BY <1>1, <1>13, <2>7, <2>8, <2>9, <3>1, <3>2, LocksAfter
  <2> QED BY <1>7, <2>6, <2>10, StatementKeeps
<1> QED BY <1>2, <1>15, <1>16

-----------------------------------------------------------------------------
(* What happens outside of transactions *)

\* When nobody is disturbed and nobody moves, the rest is about the tables.
LEMMA OutsideKeeps ==
  ASSUME RaceInv, IndInv', SessionsIssued', TransfersFit', UNCHANGED <<owner, job>>,
         \A v \in Workers : Undisturbed(v)
  PROVE  RaceInv'
<1>1. \A v \in Workers : JobFits(v)' /\ LocksFit(v)'
  BY OthersStay
<1> QED BY <1>1 DEF RaceInv

\* The bank reports a transfer.
LEMMA BankTransferKeeps ==
  ASSUME RaceInv, NEW ref \in Refs, NEW a \in {Null} \cup AttemptId, NEW amount \in Amounts,
         BankTransfer(ref, a, amount)
  PROVE  RaceInv'
<1>1. UNCHANGED <<owner, job>> /\ UNCHANGED vars
      /\ transfers' = [transfers EXCEPT ![ref] = [attempt |-> a, amount |-> amount]]
      /\ (a # Null => attempts[a].status # "NONE")
  BY DEF BankTransfer
<1>2. \A v \in Workers : Undisturbed(v)
  BY <1>1, LeftAlone
<1>3. IndInv'
  BY <1>1, NextInv DEF RaceInv
<1>4. SessionsIssued' /\ attempts' = attempts
  BY <1>1 DEF RaceInv, SessionsIssued, vars
<1>5. TransfersFit'
  <2>1. [attempt |-> a, amount |-> amount] \in [attempt: {Null} \cup AttemptId, amount: Amounts \cup {0}]
    OBVIOUS
  <2>2. transfers' \in [Refs -> [attempt: {Null} \cup AttemptId, amount: Amounts \cup {0}]]
    BY <1>1, <2>1 DEF RaceInv, TransfersFit
  <2>3. ASSUME NEW r \in Refs, transfers'[r] # NoTransfer
        PROVE  /\ transfers'[r].amount \in Amounts
               /\ transfers'[r].attempt # Null => attempts'[transfers'[r].attempt].status # "NONE"
    <3>1. CASE r = ref
      <4>1. transfers'[r] = [attempt |-> a, amount |-> amount]
        BY <1>1, <3>1 DEF RaceInv, TransfersFit
      <4> QED BY <1>1, <1>4, <4>1
    <3>2. CASE r # ref
      <4>1. transfers'[r] = transfers[r]
        BY <1>1, <3>2 DEF RaceInv, TransfersFit
      <4> QED BY <1>4, <2>3, <4>1 DEF RaceInv, TransfersFit
    <3> QED BY <3>1, <3>2
  <2> QED BY <2>2, <2>3 DEF TransfersFit, NoTransfer
<1> QED BY <1>1, <1>2, <1>3, <1>4, <1>5, OutsideKeeps

\* A session that nobody has locked becomes overdue.
LEMMA SessionOverdueKeeps ==
  ASSUME RaceInv, NEW a \in AttemptId, SessionOverdue(a)
  PROVE  RaceInv' /\ Next
<1>1. /\ UNCHANGED <<owner, job>> /\ transfers' = transfers /\ PassExpiry(a)
      /\ owner[AttemptRow(a)] = NoWorker
  BY DEF SessionOverdue, AttemptRow
<1>2. /\ attempts'[a].order = attempts[a].order /\ attempts'[a].status = attempts[a].status
      /\ attempts'[a].overdue
      /\ \A b \in AttemptId \ {a} : attempts'[b] = attempts[b]
      /\ UNCHANGED <<orders, transactions, refunds, returns, account>>
  BY <1>1 DEF PassExpiry, RaceInv, IndInv, TypeOK, PaymentAttempt
<1>3. Next
  BY <1>1 DEF Next, PaymentNext
<1>4. IndInv'
  BY <1>3, NextInv DEF RaceInv
<1>5. \A v \in Workers : Undisturbed(v)
  <2> TAKE v \in Workers
  <2>1. owner[AttemptRow(a)] # v
    BY <1>1, RaceAssumption
  <2>2. \A b \in AttemptId : owner[AttemptRow(b)] = v => attempts'[b] = attempts[b]
    BY <1>2, <2>1
  <2>3. \A b \in AttemptId : attempts'[b].order = attempts[b].order
          /\ attempts'[b].status = attempts[b].status
          /\ (attempts[b].overdue => attempts'[b].overdue)
    BY <1>2
  <2> QED BY <1>1, <1>2, <2>2, <2>3 DEF Undisturbed
<1>6. \A b \in AttemptId : attempts'[b].order = attempts[b].order
        /\ attempts'[b].status = attempts[b].status
  BY <1>2
<1>7. SessionsIssued'
  BY <1>6 DEF RaceInv, SessionsIssued
<1>8. TransfersFit'
  <2>1. \A r \in Refs : transfers[r].attempt \in {Null} \cup AttemptId
    BY DEF RaceInv, TransfersFit
  <2> QED BY <1>1, <1>6, <2>1 DEF RaceInv, TransfersFit
<1> QED BY <1>1, <1>3, <1>4, <1>5, <1>7, <1>8, OutsideKeeps

-----------------------------------------------------------------------------
(* What a transaction wrote *)

\* The rows of sessions that the handlers write: a session is paid, expired or
\* cancelled, and remains what it was otherwise.
LEMMA WrittenRow ==
  ASSUME IndInv, NEW p \in AttemptId,
         NEW row \in {PaidRow(p), Expired(p), ExpiredNow(p), Cancelled(p)}
  PROVE  /\ row.order = attempts[p].order
         /\ row.status \in {"PAID", "EXPIRED", "CANCELLED"}
         /\ attempts[p].overdue => row.overdue
<1>1. attempts[p] \in PaymentAttempt
  BY DEF IndInv, TypeOK
<1>2. /\ PaidRow(p).order = attempts[p].order /\ PaidRow(p).status = "PAID"
      /\ PaidRow(p).overdue = attempts[p].overdue
      /\ Expired(p).order = attempts[p].order /\ Expired(p).status = "EXPIRED"
      /\ Expired(p).overdue = attempts[p].overdue
      /\ Cancelled(p).order = attempts[p].order /\ Cancelled(p).status = "CANCELLED"
      /\ Cancelled(p).overdue = attempts[p].overdue
  BY <1>1 DEF PaidRow, Expired, Cancelled, PaymentAttempt
<1>3. /\ ExpiredNow(p).order = attempts[p].order /\ ExpiredNow(p).status = "EXPIRED"
      /\ ExpiredNow(p).overdue = TRUE
  BY <1>1 DEF ExpiredNow, PaymentAttempt
<1>4. CASE row = ExpiredNow(p)
  BY <1>3, <1>4
<1>5. CASE row \in {PaidRow(p), Expired(p), Cancelled(p)}
  BY <1>2, <1>5
<1> QED BY <1>4, <1>5

\* What applyOrderPaid wrote.
LEMMA PaidRowsAre ==
  ASSUME NEW o, NEW a
  PROVE  /\ DOMAIN PaidRows(o, a) = PendingAttempts(o) \cup {a}
         /\ \A p \in DOMAIN PaidRows(o, a) :
              PaidRows(o, a)[p] = IF p = a THEN PaidRow(a) ELSE Cancelled(p)
BY DEF PaidRows, Over, Only

\* What the webhook and the confirmation write are such rows.
LEMMA PaymentRows ==
  ASSUME NEW o, NEW a, NEW rows,
         \/ rows = Nothing \/ rows = Only(a, PaidRow(a)) \/ rows = Only(a, Expired(a))
         \/ rows = PaidRows(o, a),
         NEW p \in DOMAIN rows
  PROVE  rows[p] \in {PaidRow(p), Expired(p), ExpiredNow(p), Cancelled(p)}
<1>1. rows # Nothing
  BY DEF Nothing
<1>2. CASE rows = Only(a, PaidRow(a))
  BY <1>2 DEF Only
<1>3. CASE rows = Only(a, Expired(a))
  BY <1>3 DEF Only
<1>4. CASE rows = PaidRows(o, a)
  <2>1. CASE p = a
    BY <1>4, <2>1, PaidRowsAre
  <2>2. CASE p # a
    <3>1. p \in DOMAIN PaidRows(o, a) /\ rows[p] = PaidRows(o, a)[p]
      BY <1>4
    <3>2. PaidRows(o, a)[p] = Cancelled(p)
      BY <2>2, <3>1, PaidRowsAre
    <3> QED BY <3>1, <3>2
  <2> QED BY <2>1, <2>2
<1> QED BY <1>1, <1>2, <1>3, <1>4

\* The sessions that a transaction wrote it has locked.
LEMMA WrittenAttempts ==
  ASSUME RaceInv, NEW w \in Workers, NEW p \in DOMAIN job[w].attempts
  PROVE  /\ p \in AttemptId /\ owner[AttemptRow(p)] = w /\ attempts[p].status # "NONE"
         /\ job[w].attempts[p].order = attempts[p].order
         /\ job[w].attempts[p].status \in {"PAID", "EXPIRED", "CANCELLED"}
         /\ attempts[p].overdue => job[w].attempts[p].overdue
<1>1. JobFits(w) /\ LocksFit(w) /\ IndInv
  BY DEF RaceInv
<1>2. p \in AttemptId /\ owner[AttemptRow(p)] = w
  BY <1>1 DEF JobFits, LocksFit
<1>3. attempts[p].status # "NONE"
  BY <1>1, <1>2 DEF LocksFit, AttemptTaken
<1>4. job[w].attempts[p] \in {PaidRow(p), Expired(p), ExpiredNow(p), Cancelled(p)}
  <2>1. CASE job[w].handler = "none"
    BY <1>1, <2>1 DEF JobFits, Idle, Request, Nothing
  <2>2. CASE job[w].handler = "webhook"
    <3>1. WebhookFits(w)
      BY <1>1, <2>2 DEF JobFits
    <3>2. \/ job[w].attempts = Nothing
          \/ job[w].attempts = Only(job[w].attempt, PaidRow(job[w].attempt))
          \/ job[w].attempts = Only(job[w].attempt, Expired(job[w].attempt))
          \/ job[w].attempts = PaidRows(job[w].order, job[w].attempt)
      BY <3>1 DEF WebhookFits, NothingWritten
    <3> QED BY <3>2, PaymentRows
  <2>3. CASE job[w].handler = "confirm"
    <3>1. ConfirmFits(w)
      BY <1>1, <2>3 DEF JobFits
    <3>2. \/ job[w].attempts = Nothing
          \/ job[w].attempts = Only(job[w].attempt, PaidRow(job[w].attempt))
          \/ job[w].attempts = PaidRows(job[w].order, job[w].attempt)
      BY <3>1 DEF ConfirmFits, NothingWritten
    <3> QED BY <3>2, PaymentRows
  <2>4. CASE job[w].handler \in {"createQr", "createQrAdmin"}
    <3>1. QrFits(w)
      BY <1>1, <2>4 DEF JobFits
    <3> QED BY <3>1 DEF QrFits, Nothing
  <2>5. CASE job[w].handler = "cancel"
    <3>1. CancelFits(w)
      BY <1>1, <2>5 DEF JobFits
    <3> QED BY <3>1 DEF CancelFits, Nothing
  <2>6. CASE job[w].handler = "expiry"
    BY <1>1, <2>6 DEF JobFits, ExpiryFits
  <2> QED BY <1>1, <2>1, <2>2, <2>3, <2>4, <2>5, <2>6 DEF JobFits, Handlers
<1> QED BY <1>1, <1>2, <1>3, <1>4, WrittenRow

\* So it has the order and the key that it wrote, at the latest when it commits.
LEMMA WrittenOthers ==
  ASSUME RaceInv, NEW w \in Workers, job[w].step \in {"commit", "issue"}
  PROVE  /\ \A o \in DOMAIN job[w].orders : o \in Orders /\ owner[OrderRow(o)] = w
         /\ \A k \in DOMAIN job[w].transactions : k \in Keys /\ owner[k] = w
<1>1. JobFits(w) /\ LocksFit(w)
  BY DEF RaceInv
<1>2. CASE job[w].handler = "webhook"
  <2>1. WebhookFits(w) /\ job[w].step = "commit"
    BY <1>1, <1>2, HandlerAt DEF JobFits
  <2>2. job[w].key \in Keys /\ KeyTaken(w)
    BY <1>2, <2>1 DEF WebhookFits, Keys, KeyTaken
  <2>3. DOMAIN job[w].transactions = {job[w].key}
    <3>1. PICK status, a, amount :
            job[w].transactions = Only(job[w].key, [status |-> status, attempt |-> a, amount |-> amount])
      BY <2>1 DEF WebhookFits, Evidenced
    <3> QED BY <3>1 DEF Only
  <2>4. \/ job[w].orders = Nothing
        \/ /\ job[w].attempt # Null
           /\ job[w].order \in Orders /\ job[w].orders = Only(job[w].order, OrderPaid(job[w].order))
    BY <2>1 DEF WebhookFits
  <2>5. job[w].attempt # Null => OrderTaken(w)
    BY <1>2, <2>1 DEF OrderTaken
  <2>6. \A o \in DOMAIN job[w].orders : job[w].attempt # Null /\ o = job[w].order /\ o \in Orders
    BY <2>4 DEF Only, Nothing
  <2> QED BY <1>1, <2>2, <2>3, <2>5, <2>6 DEF LocksFit
<1>3. CASE job[w].handler = "confirm"
  <2>1. ConfirmFits(w) /\ job[w].step = "commit"
    BY <1>1, <1>3, HandlerAt DEF JobFits
  <2>2. job[w].key \in Keys /\ KeyTaken(w) /\ job[w].order \in Orders /\ OrderTaken(w)
    BY <1>3, <2>1 DEF ConfirmFits, KeyTaken, OrderTaken
  <2>3. DOMAIN job[w].transactions = {job[w].key} /\ DOMAIN job[w].orders = {job[w].order}
    BY <2>1 DEF ConfirmFits, Evidenced, Only
  <2> QED BY <1>1, <2>2, <2>3 DEF LocksFit
<1>4. CASE job[w].handler = "cancel"
  <2>1. CancelFits(w) /\ job[w].step = "commit"
    BY <1>1, <1>4, HandlerAt DEF JobFits
  <2>2. job[w].order \in Orders /\ OrderTaken(w)
    BY <1>4, <2>1 DEF CancelFits, OrderTaken
  <2>3. DOMAIN job[w].transactions = {} /\ DOMAIN job[w].orders = {job[w].order}
    BY <2>1 DEF CancelFits, Nothing, Only
  <2> QED BY <1>1, <2>2, <2>3 DEF LocksFit
<1>5. CASE job[w].handler \in {"none", "createQr", "createQrAdmin", "expiry"}
  <2>1. job[w].orders = Nothing /\ job[w].transactions = Nothing
    BY <1>1, <1>5 DEF JobFits, QrFits, ExpiryFits, Idle, Request
  <2> QED BY <2>1 DEF Nothing
<1> QED BY <1>1, <1>2, <1>3, <1>4, <1>5 DEF JobFits, Handlers

-----------------------------------------------------------------------------
(* The commit *)

\* A commit, also of a session just issued, changes nothing that another
\* transaction has locked.
LEMMA EndDisturbsNobody ==
  ASSUME RaceInv, NEW w \in Workers, job[w].step \in {"commit", "issue"}, Ends(w),
         NEW fresh \in SUBSET AttemptId,
         \A p \in fresh : /\ attempts[p].status = "NONE"
                          /\ \E o \in Orders : /\ owner[OrderRow(o)] = w
                                               /\ attempts'[p] = NewAttempt(o),
         \A p \in DOMAIN job[w].attempts : attempts'[p] = job[w].attempts[p],
         \A p \in AttemptId \ (fresh \cup DOMAIN job[w].attempts) : attempts'[p] = attempts[p]
  PROVE  /\ \A v \in Workers \ {w} : Undisturbed(v)
         /\ TransfersFit'
<1>1. /\ orders' = Over(job[w].orders, orders)
      /\ transactions' = Over(job[w].transactions, transactions)
      /\ owner' = Released(w) /\ job' = [job EXCEPT ![w] = Idle]
      /\ UNCHANGED <<refunds, returns, account, transfers, failures>>
  BY DEF Ends
<1>2. IndInv /\ SessionsIssued /\ \A v \in Workers : JobFits(v) /\ LocksFit(v)
  BY DEF RaceInv
<1>3. \A p \in AttemptId : attempts[p].status # "NONE" =>
        /\ attempts'[p].order = attempts[p].order /\ attempts'[p].status # "NONE"
        /\ attempts[p].overdue => attempts'[p].overdue
        /\ attempts'[p].status = "PENDING" => attempts[p].status = "PENDING"
  <2> SUFFICES ASSUME NEW p \in AttemptId, attempts[p].status # "NONE"
               PROVE  /\ attempts'[p].order = attempts[p].order /\ attempts'[p].status # "NONE"
                      /\ attempts[p].overdue => attempts'[p].overdue
                      /\ attempts'[p].status = "PENDING" => attempts[p].status = "PENDING"
    OBVIOUS
  <2>1. CASE p \in DOMAIN job[w].attempts
    BY <2>1, WrittenAttempts
  <2>2. CASE p \notin DOMAIN job[w].attempts
    <3>1. attempts'[p] = attempts[p]
      BY <2>2
    <3> QED BY <3>1
  <2> QED BY <2>1, <2>2
<1>4. ASSUME NEW v \in Workers \ {w} PROVE Undisturbed(v)
  <2>1. job'[v] = job[v] /\ \A row \in Rows : owner'[row] = v <=> owner[row] = v
    BY <1>1, EndFits
  <2>2. ASSUME NEW o \in Orders, owner[OrderRow(o)] = v
        PROVE  /\ orders'[o] = orders[o]
               /\ \A a \in AttemptId :
                    /\ attempts'[a].order = o <=> attempts[a].order = o
                    /\ attempts'[a].order = o /\ attempts'[a].status = "PENDING" =>
                         attempts[a].status = "PENDING"
    <3>1. o \notin DOMAIN job[w].orders
      BY <2>2, WrittenOthers
    <3>2. orders'[o] = orders[o]
      BY <1>1, <1>2, <3>1 DEF Over, IndInv, TypeOK
    <3>3. ASSUME NEW a \in AttemptId, attempts[a].status = "NONE"
          PROVE  attempts'[a].order # o /\ attempts[a].order # o
      <4>1. attempts[a].order = NoOrder /\ NoOrder # o
        BY <1>2, <3>3, ConstantsAssumption DEF SessionsIssued
      <4>2. CASE a \in fresh
        <5>1. PICK p \in Orders : owner[OrderRow(p)] = w /\ attempts'[a] = NewAttempt(p)
          BY <4>2
        <5>2. p # o
          BY <2>2, <5>1
        <5> QED BY <4>1, <5>1, <5>2 DEF NewAttempt
      <4>3. CASE a \notin fresh
        <5>1. a \notin DOMAIN job[w].attempts
          BY <3>3, WrittenAttempts
        <5> QED BY <4>1, <4>3, <5>1
      <4> QED BY <4>2, <4>3
    <3> QED BY <1>3, <3>2, <3>3
  <2>3. ASSUME NEW k \in Keys, owner[k] = v PROVE transactions'[k] = transactions[k]
    <3>1. k \notin DOMAIN job[w].transactions
      BY <2>3, WrittenOthers
    <3> QED BY <1>1, <1>2, <3>1 DEF Over, IndInv, TypeOK
  <2>4. ASSUME NEW a \in AttemptId, owner[AttemptRow(a)] = v PROVE attempts'[a] = attempts[a]
    <3>1. a \notin DOMAIN job[w].attempts
      BY <2>4, WrittenAttempts
    <3>2. attempts[a].status # "NONE"
      BY <1>2, <2>4 DEF LocksFit, AttemptTaken
    <3> QED BY <3>1, <3>2
  <2> QED BY <1>1, <1>3, <2>1, <2>2, <2>3, <2>4 DEF Undisturbed
<1>5. TransfersFit'
  <2>1. \A r \in Refs : transfers[r].attempt \in {Null} \cup AttemptId
    BY DEF RaceInv, TransfersFit
  <2> QED BY <1>1, <1>3, <2>1 DEF RaceInv, TransfersFit
<1> QED BY <1>4, <1>5

\* The effect of a commit on the sessions.
LEMMA CommitRows ==
  ASSUME RaceInv, NEW w \in Workers, attempts' = Over(job[w].attempts, attempts)
  PROVE  /\ attempts' = [p \in AttemptId |-> IF p \in DOMAIN job[w].attempts
                                             THEN job[w].attempts[p] ELSE attempts[p]]
         /\ \A p \in DOMAIN job[w].attempts : attempts'[p] = job[w].attempts[p]
         /\ \A p \in AttemptId \ DOMAIN job[w].attempts : attempts'[p] = attempts[p]
<1>1. DOMAIN job[w].attempts \subseteq AttemptId /\ DOMAIN attempts = AttemptId
  BY DEF RaceInv, JobFits, IndInv, TypeOK
<1>2. DOMAIN job[w].attempts \cup DOMAIN attempts = AttemptId
  BY <1>1
<1>3. attempts' = [p \in AttemptId |-> IF p \in DOMAIN job[w].attempts
                                       THEN job[w].attempts[p] ELSE attempts[p]]
  BY <1>2 DEF Over
<1> QED BY <1>1, <1>3

\* A commit keeps the invariant when what it did to the tables does.
LEMMA CommitKeeps ==
  ASSUME RaceInv, NEW w \in Workers, Commit(w), IndInv'
  PROVE  RaceInv'
<1>1. Ends(w) /\ job[w].step = "commit" /\ attempts' = Over(job[w].attempts, attempts)
      /\ owner' = Released(w) /\ job' = [job EXCEPT ![w] = Idle]
  BY DEF Commit, Ends
<1>2. /\ \A p \in DOMAIN job[w].attempts : attempts'[p] = job[w].attempts[p]
      /\ \A p \in AttemptId \ DOMAIN job[w].attempts : attempts'[p] = attempts[p]
  BY <1>1, CommitRows
<1>3. (\A v \in Workers \ {w} : Undisturbed(v)) /\ TransfersFit'
  <2>1. {} \in SUBSET AttemptId /\ AttemptId \ ({} \cup DOMAIN job[w].attempts) = AttemptId \ DOMAIN job[w].attempts
    OBVIOUS
  <2> QED BY <1>1, <1>2, <2>1, EndDisturbsNobody
<1>4. \A p \in AttemptId :
        /\ attempts'[p].order = attempts[p].order
        /\ attempts'[p].status = "NONE" <=> attempts[p].status = "NONE"
        /\ attempts'[p].status = "PENDING" => attempts[p].status = "PENDING"
  <2> SUFFICES ASSUME NEW p \in AttemptId
               PROVE  /\ attempts'[p].order = attempts[p].order
                      /\ attempts'[p].status = "NONE" <=> attempts[p].status = "NONE"
                      /\ attempts'[p].status = "PENDING" => attempts[p].status = "PENDING"
    OBVIOUS
  <2>1. CASE p \in DOMAIN job[w].attempts
    BY <1>2, <2>1, WrittenAttempts
  <2>2. CASE p \notin DOMAIN job[w].attempts
    <3>1. attempts'[p] = attempts[p]
      BY <1>2, <2>2
    <3> QED BY <3>1
  <2> QED BY <2>1, <2>2
<1>5. SessionsIssued'
  BY <1>4 DEF RaceInv, SessionsIssued
<1> QED BY <1>1, <1>3, <1>5, EndFits, StepKeeps

\* applyOrderPaid, row by row, is PayWith.
LEMMA PaidRowsWritten ==
  ASSUME IndInv, NEW o \in Orders, NEW a \in AttemptId, NEW rows, rows = PaidRows(o, a),
         attempts' = [p \in AttemptId |-> IF p \in DOMAIN rows THEN rows[p] ELSE attempts[p]]
  PROVE  attempts' = [WithPendingCancelled(o) EXCEPT ![a].status = "PAID"]
<1>1. attempts[a] \in PaymentAttempt
  BY DEF IndInv, TypeOK
<1>2. PICK table : /\ table = WithPendingCancelled(o)
                   /\ table = [p \in AttemptId |-> IF p \in PendingAttempts(o) THEN Cancelled(p) ELSE attempts[p]]
  BY DEF WithPendingCancelled, Cancelled
<1>3. PICK row : row = [table[a] EXCEPT !.status = "PAID"]
  OBVIOUS
<1>4. row = PaidRow(a)
  <2>1. CASE a \in PendingAttempts(o)
    <3>1. row = [Cancelled(a) EXCEPT !.status = "PAID"]
      BY <1>2, <1>3, <2>1
    <3> QED BY <1>1, <3>1 DEF Cancelled, PaidRow, PaymentAttempt
  <2>2. CASE a \notin PendingAttempts(o)
    BY <1>2, <1>3, <2>2 DEF PaidRow
  <2> QED BY <2>1, <2>2
<1>5. [table EXCEPT ![a].status = "PAID"] = [table EXCEPT ![a] = row]
  BY <1>3
<1>6. [table EXCEPT ![a] = row]
        = [p \in AttemptId |-> IF p = a THEN row
                               ELSE IF p \in PendingAttempts(o) THEN Cancelled(p) ELSE attempts[p]]
  BY <1>2
<1>7. ASSUME NEW p \in AttemptId
      PROVE  (IF p \in DOMAIN rows THEN rows[p] ELSE attempts[p])
               = IF p = a THEN row
                 ELSE IF p \in PendingAttempts(o) THEN Cancelled(p) ELSE attempts[p]
  <2>1. p \in DOMAIN rows <=> p \in PendingAttempts(o) \/ p = a
    <3>1. DOMAIN PaidRows(o, a) = PendingAttempts(o) \cup {a}
      BY PaidRowsAre
    <3>2. DOMAIN rows = DOMAIN PaidRows(o, a)
      OBVIOUS
    <3> QED BY <3>1, <3>2
  <2>2. CASE p \in DOMAIN rows
    <3>1. rows[p] = IF p = a THEN PaidRow(a) ELSE Cancelled(p)
      BY <2>2, PaidRowsAre
    <3> QED BY <1>4, <2>1, <2>2, <3>1
  <2>3. CASE p \notin DOMAIN rows
    BY <2>1, <2>3
  <2> QED BY <2>2, <2>3
<1>8. attempts' = [table EXCEPT ![a] = row]
  BY <1>6, <1>7
<1> QED BY <1>2, <1>5, <1>8

\* What a commit wrote to the other tables.
LEMMA CommitTables ==
  ASSUME RaceInv, NEW w \in Workers, Ends(w)
  PROVE  /\ UNCHANGED <<refunds, returns, account>>
         /\ job[w].orders = Nothing => orders' = orders
         /\ \A o \in Orders : \A row : job[w].orders = Only(o, row) => orders' = [orders EXCEPT ![o] = row]
         /\ job[w].transactions = Nothing => transactions' = transactions
         /\ \A k \in Keys : \A row : job[w].transactions = Only(k, row) =>
              transactions' = [transactions EXCEPT ![k] = row]
<1>1. orders = [o \in Orders |-> orders[o]] /\ transactions = [k \in Keys |-> transactions[k]]
  BY DEF RaceInv, IndInv, TypeOK
<1>2. /\ orders' = Over(job[w].orders, orders)
      /\ transactions' = Over(job[w].transactions, transactions)
      /\ UNCHANGED <<refunds, returns, account>>
  BY DEF Ends
<1> QED BY <1>1, <1>2, OverOne

\* The webhook commits what it does at once in OrderLifecycle.
LEMMA WebhookCommits ==
  ASSUME RaceInv, NEW w \in Workers, Commit(w), job[w].handler = "webhook"
  PROVE  Next
<1>1. WebhookFits(w) /\ job[w].step = "commit" /\ Ends(w) /\ IndInv
      /\ attempts' = Over(job[w].attempts, attempts)
  BY DEF RaceInv, JobFits, Commit
<1>2. PICK ref \in Refs, amount \in Amounts : job[w].key = <<"sepay", ref>> /\ amount = job[w].amount
  BY <1>1 DEF WebhookFits
<1>3. PICK k \in Keys : k = job[w].key /\ transactions[k].status = "NONE"
  BY <1>1, <1>2, KeysType DEF WebhookFits
<1>4. attempts = [a \in AttemptId |-> attempts[a]]
  BY <1>1 DEF IndInv, TypeOK
<1>5. CASE job[w].attempt = Null
  <2>1. job[w].orders = Nothing /\ job[w].attempts = Nothing
        /\ job[w].transactions = Only(k, [status |-> "UNMATCHED", attempt |-> Null, amount |-> amount])
    BY <1>1, <1>2, <1>3, <1>5 DEF WebhookFits, Evidenced
  <2>2. attempts' = attempts
    BY <1>1, <1>4, <2>1, OverOne
  <2>3. WebhookUnlinked(ref, "UNMATCHED", amount)
    BY <1>1, <1>2, <1>3, <2>1, <2>2, CommitTables DEF WebhookUnlinked, Record
  <2> QED BY <2>3 DEF Next, PaymentNext, VerificationStatuses
<1>6. CASE job[w].attempt # Null
  <2>1. PICK o \in Orders, a \in AttemptId :
          o = job[w].order /\ a = job[w].attempt /\ attempts[a].order = o
    BY <1>1, <1>6 DEF WebhookFits, AttemptsOf
  <2>2. PICK verdict : verdict = Verdict(a, amount)
    OBVIOUS
  <2>3. job[w].transactions = Only(k, [status |-> verdict, attempt |-> a, amount |-> amount])
    BY <1>1, <1>2, <1>3, <1>6, <2>1, <2>2 DEF WebhookFits, Evidenced
  <2>4. /\ verdict = "MATCHED" => /\ job[w].orders = Only(o, OrderPaid(o))
                                  /\ job[w].attempts = PaidRows(o, a)
        /\ verdict = "LATE" => job[w].orders = Nothing /\ job[w].attempts = Only(a, Expired(a))
        /\ verdict \notin {"MATCHED", "LATE"} => job[w].orders = Nothing /\ job[w].attempts = Nothing
    BY <1>1, <1>2, <1>6, <2>1, <2>2 DEF WebhookFits
  <2>5. Record(k, verdict, a, amount) /\ UNCHANGED <<refunds, returns, account>>
    BY <1>1, <2>3, CommitTables DEF Record
  <2>6. CASE verdict = "MATCHED"
    <3>1. orders' = MarkOrderPaid(o)
      BY <1>1, <2>4, <2>6, CommitTables, PaidOrder
    <3>2. attempts' = [WithPendingCancelled(o) EXCEPT ![a].status = "PAID"]
      <4>1. attempts' = [p \in AttemptId |-> IF p \in DOMAIN job[w].attempts
                                             THEN job[w].attempts[p] ELSE attempts[p]]
        BY <1>1, CommitRows
      <4>2. job[w].attempts = PaidRows(o, a)
        BY <2>4, <2>6
      <4> QED BY <1>1, <4>1, <4>2, PaidRowsWritten
    <3>3. WebhookForAttempt(ref, a, amount)
      BY <1>2, <1>3, <2>1, <2>2, <2>5, <2>6, <3>1, <3>2 DEF WebhookForAttempt, PayWith
    <3> QED BY <3>3 DEF Next, PaymentNext
  <2>7. CASE verdict = "LATE"
    <3>1. orders' = orders
      BY <1>1, <2>4, <2>7, CommitTables
    <3>2. attempts' = [attempts EXCEPT ![a] = Expired(a)]
      BY <1>1, <1>4, <2>4, <2>7, OverOne
    <3>3. attempts' = [attempts EXCEPT ![a].status = "EXPIRED"]
      BY <3>2 DEF Expired
    <3>4. WebhookForAttempt(ref, a, amount)
      BY <1>2, <1>3, <2>1, <2>2, <2>5, <2>7, <3>1, <3>3 DEF WebhookForAttempt
    <3> QED BY <3>4 DEF Next, PaymentNext
  <2>8. CASE verdict \notin {"MATCHED", "LATE"}
    <3>1. orders' = orders
      BY <1>1, <2>4, <2>8, CommitTables
    <3>2. attempts' = attempts
      BY <1>1, <1>4, <2>4, <2>8, OverOne
    <3>3. WebhookForAttempt(ref, a, amount)
      BY <1>2, <1>3, <2>1, <2>2, <2>5, <2>8, <3>1, <3>2 DEF WebhookForAttempt
    <3> QED BY <3>3 DEF Next, PaymentNext
  <2> QED BY <2>6, <2>7, <2>8
<1> QED BY <1>5, <1>6

\* The confirmation commits what it does at once in OrderLifecycle.
LEMMA ConfirmCommits ==
  ASSUME RaceInv, NEW w \in Workers, Commit(w), job[w].handler = "confirm"
  PROVE  Next
<1>1. ConfirmFits(w) /\ job[w].step = "commit" /\ Ends(w) /\ IndInv
      /\ attempts' = Over(job[w].attempts, attempts)
  BY DEF RaceInv, JobFits, Commit
<1>2. PICK o \in Orders, a \in AttemptId, k \in Keys, amount \in {ReceivedBy(w)} :
        /\ o = job[w].order /\ a = job[w].attempt /\ k = job[w].key /\ amount = ReceivedBy(w)
        /\ a \in AttemptsOf(o)
  BY <1>1 DEF ConfirmFits, AttemptsOf
<1>3. /\ Payable(o) /\ EvidenceFits(w) /\ k[2] \in Refs \cup {a}
      /\ job[w].amount = 0 => transactions[k].attempt \in {Null, a}
      /\ job[w].transactions = Only(k, [status |-> "MANUALLY_CONFIRMED", attempt |-> a, amount |-> amount])
      /\ job[w].orders = Only(o, OrderPaid(o)) /\ job[w].attempts = PaidRows(o, a)
  BY <1>1, <1>2 DEF ConfirmFits, Evidenced
<1>4. PayWith(o, a)
  <2>1. orders' = MarkOrderPaid(o)
    BY <1>1, <1>3, CommitTables, PaidOrder
  <2>2. attempts' = [WithPendingCancelled(o) EXCEPT ![a].status = "PAID"]
    <3>1. attempts' = [p \in AttemptId |-> IF p \in DOMAIN job[w].attempts
                                           THEN job[w].attempts[p] ELSE attempts[p]]
      BY <1>1, CommitRows
    <3> QED BY <1>1, <1>3, <3>1, PaidRowsWritten
  <2> QED BY <2>1, <2>2 DEF PayWith
<1>5. Record(k, "MANUALLY_CONFIRMED", a, amount) /\ UNCHANGED <<refunds, returns, account>>
  BY <1>1, <1>3, CommitTables DEF Record
<1>6. CASE job[w].amount = 0
  <2>1. ConfirmRecorded(o, k, a, TRUE)
    BY <1>2, <1>3, <1>4, <1>5, <1>6 DEF ConfirmRecorded, EvidenceFits, AmountAccepted, ReceivedBy
  <2> QED BY <2>1 DEF Next, PaymentNext
<1>7. CASE job[w].amount # 0
  <2>1. amount \in Amounts /\ amount > 0
    <3>1. amount = job[w].amount /\ job[w].amount \in Amounts \cup {0}
      BY <1>1, <1>2, <1>7 DEF ConfirmFits, ReceivedBy
    <3>2. amount \in Amounts /\ amount # 0
      BY <1>7, <3>1
    <3> QED BY <3>2, ConstantsAssumption
  <2>2. ConfirmEntered(o, k, a, amount, TRUE)
    BY <1>2, <1>3, <1>4, <1>5, <1>7, <2>1 DEF ConfirmEntered, EvidenceFits, AmountAccepted
  <2> QED BY <2>1, <2>2 DEF Next, PaymentNext
<1> QED BY <1>6, <1>7

\* The cancellation commits what it does at once in OrderLifecycle.
LEMMA CancelCommits ==
  ASSUME RaceInv, NEW w \in Workers, Commit(w), job[w].handler = "cancel"
  PROVE  Next
<1>1. CancelFits(w) /\ job[w].step = "commit" /\ Ends(w) /\ IndInv
      /\ attempts' = Over(job[w].attempts, attempts)
  BY DEF RaceInv, JobFits, Commit
<1>2. PICK o \in Orders : o = job[w].order
  BY <1>1 DEF CancelFits
<1>3. /\ orders[o] = [status |-> "pending", paymentStatus |-> "unpaid"]
      /\ job[w].orders = Only(o, [orders[o] EXCEPT !.status = "cancelled"])
      /\ job[w].attempts = [p \in PendingAttempts(o) |-> Cancelled(p)]
      /\ job[w].transactions = Nothing
  BY <1>1, <1>2 DEF CancelFits
<1>4. orders' = [orders EXCEPT ![o].status = "cancelled"]
  BY <1>1, <1>3, CommitTables
<1>5. attempts' = WithPendingCancelled(o)
  <2>1. attempts' = [p \in AttemptId |-> IF p \in DOMAIN job[w].attempts
                                         THEN job[w].attempts[p] ELSE attempts[p]]
    BY <1>1, CommitRows
  <2> QED BY <1>3, <2>1 DEF WithPendingCancelled, Cancelled
<1>6. CancelOrder(o)
  BY <1>1, <1>3, <1>4, <1>5, CommitTables DEF CancelOrder, CancelLocked
<1> QED BY <1>6 DEF Next, StatusNext

\* The expiry job expires some of the sessions that it may expire.
LEMMA ExpiryCommits ==
  ASSUME RaceInv, NEW w \in Workers, Commit(w), job[w].handler = "expiry"
  PROVE  ExpireSome /\ IndInv'
<1>1. ExpiryFits(w) /\ job[w].step = "commit" /\ Ends(w) /\ IndInv /\ JobFits(w)
      /\ attempts' = Over(job[w].attempts, attempts)
  BY DEF RaceInv, JobFits, Commit
<1>2. PICK E \in SUBSET AttemptId : E = DOMAIN job[w].attempts
  BY <1>1 DEF JobFits
<1>3. \A p \in E : /\ attempts[p].status = "PENDING" /\ attempts[p].overdue
                   /\ job[w].attempts[p] = Expired(p)
  BY <1>1, <1>2 DEF ExpiryFits
<1>4. attempts' = [a \in AttemptId |-> IF a \in E THEN [attempts[a] EXCEPT !.status = "EXPIRED"]
                                       ELSE attempts[a]]
  BY <1>1, <1>2, <1>3, CommitRows DEF Expired
<1>5. UNCHANGED <<orders, transactions, refunds, returns, account>>
  BY <1>1, CommitTables DEF ExpiryFits
<1>6. E \subseteq Expirable
  <2> SUFFICES ASSUME NEW p \in E PROVE p \in Expirable
    OBVIOUS
  <2>1. p \in AttemptId /\ attempts[p].status = "PENDING" /\ attempts[p].overdue
    BY <1>3
  <2>2. attempts[p].order \in Orders
    BY <2>1 DEF RaceInv, SessionsIssued
  <2>3. p \in PendingAttempts(attempts[p].order)
    BY <2>1 DEF PendingAttempts, AttemptsOf
  <2>4. Payable(attempts[p].order)
    BY <1>1, <2>2, <2>3 DEF IndInv, PendingOnlyWhilePayable
  <2> QED BY <2>1, <2>4 DEF Expirable, Payable
<1>7. ExpireSome
  BY <1>4, <1>5, <1>6 DEF ExpireSome
<1>8. SessionStep
  BY <1>1, <1>3, <1>4, <1>5 DEF SessionStep, IndInv, TypeOK, PaymentAttempt
<1>9. TypeOK'
  <2>1. ASSUME NEW a \in AttemptId
        PROVE /\ [attempts[a] EXCEPT !.status = "EXPIRED"] \in PaymentAttempt
              /\ attempts[a] \in PaymentAttempt
    BY <1>1 DEF IndInv, TypeOK, PaymentAttempt, AttemptStatuses
  <2> QED BY <1>1, <1>4, <1>5, <2>1 DEF IndInv, TypeOK
<1> QED BY <1>1, <1>7, <1>8, <1>9, SessionKeepsInv

\* Every commit is a step of OrderLifecycle, or the expiry job's.
LEMMA CommitAtomic ==
  ASSUME RaceInv, NEW w \in Workers, Commit(w)
  PROVE  (Next \/ ExpireSome) /\ RaceInv'
<1>1. JobFits(w) /\ job[w] # Idle /\ job[w].step = "commit"
  BY DEF RaceInv, Commit
<1>2. job[w].handler \in {"webhook", "confirm", "cancel", "expiry"}
  BY <1>1 DEF JobFits, Handlers, QrFits
<1>3. (Next \/ ExpireSome) /\ IndInv'
  <2>1. CASE job[w].handler = "expiry"
    BY <2>1, ExpiryCommits
  <2>2. CASE job[w].handler # "expiry"
    <3>1. Next
      BY <1>2, <2>2, WebhookCommits, ConfirmCommits, CancelCommits
    <3> QED BY <3>1, NextInv DEF RaceInv
  <2> QED BY <2>1, <2>2
<1> QED BY <1>3, CommitKeeps

\* A session is issued as createQr and createQrAdmin do it at once in OrderLifecycle.
LEMMA IssueAtomic ==
  ASSUME RaceInv, NEW w \in Workers, Issue(w)
  PROVE  (Next \/ UNCHANGED vars) /\ RaceInv'
<1>1. \/ Refuse(w, "issue")
      \/ /\ Ends(w)
         /\ \E a \in AttemptId :
              /\ IsNextAttempt(a) /\ Total[job[w].order] > 0
              /\ attempts' = Over(Only(a, NewAttempt(job[w].order)), Over(job[w].attempts, attempts))
  BY DEF Issue
<1>2. CASE Refuse(w, "issue")
  BY <1>2, RollbackKeeps DEF Refuse, Rollback
<1>3. CASE /\ Ends(w)
           /\ \E a \in AttemptId :
                /\ IsNextAttempt(a) /\ Total[job[w].order] > 0
                /\ attempts' = Over(Only(a, NewAttempt(job[w].order)), Over(job[w].attempts, attempts))
  <2>1. JobFits(w) /\ LocksFit(w) /\ job[w].step = "issue" /\ IndInv /\ SessionsIssued
    BY DEF RaceInv, Issue
  <2>2. job[w].handler \in {"createQr", "createQrAdmin"} /\ QrFits(w)
    BY <2>1, HandlerAt DEF JobFits
  <2>3. PICK o \in Orders : o = job[w].order
    BY <2>2 DEF QrFits
  <2>4. PICK new \in AttemptId :
          /\ IsNextAttempt(new) /\ Total[o] > 0
          /\ attempts' = Over(Only(new, NewAttempt(o)), Over(job[w].attempts, attempts))
    BY <1>3, <2>3
  <2>5. PICK P \in SUBSET AttemptId :
          /\ P = PendingAttempts(o) /\ P = DOMAIN job[w].attempts
          /\ \A p \in P : /\ job[w].attempts[p] = IF job[w].handler = "createQrAdmin"
                                                  THEN ExpiredNow(p) ELSE Expired(p)
                          /\ job[w].handler = "createQr" => attempts[p].overdue
    BY <2>1, <2>2, <2>3 DEF QrFits, PendingAttempts, AttemptsOf
  <2>6. attempts[new].status = "NONE" /\ new \notin P
    BY <2>4, <2>5 DEF IsNextAttempt, PendingAttempts
  <2>7. attempts' = [a \in AttemptId |-> IF a = new THEN NewAttempt(o)
                                         ELSE IF a \in P THEN job[w].attempts[a] ELSE attempts[a]]
    <3>1. DOMAIN attempts = AttemptId
      BY <2>1 DEF IndInv, TypeOK
    <3>2. DOMAIN Over(job[w].attempts, attempts) = AttemptId
      BY <2>5, <3>1 DEF Over
    <3>3. {new} \cup AttemptId = AttemptId
      OBVIOUS
    <3>4. \A a \in AttemptId :
            Over(job[w].attempts, attempts)[a] = IF a \in P THEN job[w].attempts[a] ELSE attempts[a]
      BY <2>5, <3>1 DEF Over
    <3>5. attempts' = [a \in AttemptId |-> IF a = new THEN NewAttempt(o)
                                           ELSE Over(job[w].attempts, attempts)[a]]
      <4>1. DOMAIN Only(new, NewAttempt(o)) = {new} /\ Only(new, NewAttempt(o))[new] = NewAttempt(o)
        BY DEF Only
      <4> QED BY <2>4, <3>2, <3>3, <4>1 DEF Over
    <3> QED BY <3>4, <3>5
  <2>8. UNCHANGED <<orders, transactions, refunds, returns, account>>
    BY <1>3, <2>2, CommitTables DEF QrFits
  <2>9. Payable(o)
    BY <2>1, <2>2, <2>3 DEF QrFits
  <2>10. Next
    <3>1. CASE job[w].handler = "createQr"
      <4>1. attempts' = [a \in AttemptId |->
               IF a = new THEN NewAttempt(o)
               ELSE IF a \in PendingAttempts(o) THEN [attempts[a] EXCEPT !.status = "EXPIRED"]
                    ELSE attempts[a]]
        BY <2>5, <2>7, <3>1 DEF Expired
      <4>2. CreateQr(o)
        BY <2>4, <2>5, <2>8, <2>9, <3>1, <4>1 DEF CreateQr
      <4> QED BY <4>2 DEF Next, PaymentNext
    <3>2. CASE job[w].handler = "createQrAdmin"
      <4>1. attempts' = [a \in AttemptId |->
               IF a = new THEN NewAttempt(o)
               ELSE IF a \in PendingAttempts(o)
                    THEN [attempts[a] EXCEPT !.status = "EXPIRED", !.overdue = TRUE]
                    ELSE attempts[a]]
        BY <2>5, <2>7, <3>2 DEF ExpiredNow
      <4>2. CreateQrAdmin(o)
        BY <2>4, <2>8, <2>9, <4>1 DEF CreateQrAdmin
      <4> QED BY <4>2 DEF Next, PaymentNext
    <3> QED BY <2>2, <3>1, <3>2
  <2>11. IndInv'
    BY <2>1, <2>10, NextInv
  <2>12. (\A v \in Workers \ {w} : Undisturbed(v)) /\ TransfersFit'
    <3>1. owner[OrderRow(o)] = w
      BY <2>1, <2>2, <2>3 DEF LocksFit, OrderTaken
    <3>2. {new} \in SUBSET AttemptId
      OBVIOUS
    <3>3. \A p \in {new} : attempts[p].status = "NONE"
            /\ \E q \in Orders : owner[OrderRow(q)] = w /\ attempts'[p] = NewAttempt(q)
      BY <2>6, <2>7, <3>1
    <3>4. \A p \in DOMAIN job[w].attempts : attempts'[p] = job[w].attempts[p]
      BY <2>5, <2>6, <2>7
    <3>5. \A p \in AttemptId \ ({new} \cup DOMAIN job[w].attempts) : attempts'[p] = attempts[p]
      BY <2>5, <2>7
    <3> QED BY <1>3, <2>1, <3>2, <3>3, <3>4, <3>5, EndDisturbsNobody
  <2>13. SessionsIssued'
    <3>1. attempts'[new].order = o /\ attempts'[new].status = "PENDING"
      BY <2>7 DEF NewAttempt
    <3>2. \A p \in AttemptId \ {new} :
            /\ attempts'[p].order = attempts[p].order
            /\ attempts'[p].status = "NONE" <=> attempts[p].status = "NONE"
            /\ attempts'[p].status = "PENDING" =>
                 attempts[p].status = "PENDING" /\ attempts[p].order # o
      <4> SUFFICES ASSUME NEW p \in AttemptId \ {new}
                   PROVE  /\ attempts'[p].order = attempts[p].order
                          /\ attempts'[p].status = "NONE" <=> attempts[p].status = "NONE"
                          /\ attempts'[p].status = "PENDING" =>
                               attempts[p].status = "PENDING" /\ attempts[p].order # o
        OBVIOUS
      <4>1. CASE p \in P
        <5>1. attempts'[p] = job[w].attempts[p]
          BY <2>7, <4>1
        <5> QED BY <2>5, <4>1, <5>1, WrittenAttempts
      <4>2. CASE p \notin P
        <5>1. attempts'[p] = attempts[p]
          BY <2>7, <4>2
        <5>2. attempts[p].order = o => attempts[p].status # "PENDING"
          BY <2>5, <4>2 DEF PendingAttempts, AttemptsOf
        <5> QED BY <5>1, <5>2
      <4> QED BY <4>1, <4>2
    <3>3. \A p \in AttemptId : p < new => attempts[p].status # "NONE"
      BY <2>4 DEF IsNextAttempt
    <3>4. \A p \in AttemptId : attempts[p].status # "NONE" => p < new
      <4> SUFFICES ASSUME NEW p \in AttemptId, attempts[p].status # "NONE" PROVE p < new
        OBVIOUS
      <4>1. ~(new < p) /\ p # new
        BY <2>1, <2>6 DEF SessionsIssued
      <4> QED BY <4>1, ConstantsAssumption DEF AttemptId
    <3>5. ASSUME NEW a \in AttemptId
          PROVE  /\ IF attempts'[a].status = "NONE" THEN attempts'[a].order = NoOrder
                    ELSE attempts'[a].order \in Orders
                 /\ \A b \in AttemptId :
                      /\ b < a /\ attempts'[a].status # "NONE" => attempts'[b].status # "NONE"
                      /\ attempts'[a].status = "PENDING" /\ attempts'[b].order = attempts'[a].order => b <= a
      <4>1. CASE a = new
        <5>1. \A b \in AttemptId : attempts'[b].order = o => b <= new
          <6> SUFFICES ASSUME NEW b \in AttemptId, attempts'[b].order = o, b # new PROVE b <= new
            BY ConstantsAssumption DEF AttemptId
          <6>1. attempts[b].order = o
            BY <3>2
          <6>2. attempts[b].status # "NONE"
            BY <2>1, <6>1, ConstantsAssumption DEF SessionsIssued
          <6> QED BY <3>4, <6>2, ConstantsAssumption DEF AttemptId
        <5>2. \A b \in AttemptId : b < new => attempts'[b].status # "NONE"
          BY <3>2, <3>3, ConstantsAssumption DEF AttemptId
        <5> QED BY <3>1, <4>1, <5>1, <5>2
      <4>2. CASE a # new
        <5>1. IF attempts'[a].status = "NONE" THEN attempts'[a].order = NoOrder
              ELSE attempts'[a].order \in Orders
          BY <2>1, <3>2, <4>2 DEF SessionsIssued
        <5>2. ASSUME NEW b \in AttemptId, b < a, attempts'[a].status # "NONE"
              PROVE  attempts'[b].status # "NONE"
          BY <2>1, <3>1, <3>2, <4>2, <5>2 DEF SessionsIssued
        <5>3. ASSUME NEW b \in AttemptId, attempts'[a].status = "PENDING",
                     attempts'[b].order = attempts'[a].order
              PROVE  b <= a
          BY <2>1, <3>1, <3>2, <4>2, <5>3 DEF SessionsIssued
        <5> QED BY <5>1, <5>2, <5>3
      <4> QED BY <4>1, <4>2
    <3> QED BY <3>5 DEF SessionsIssued
  <2>14. owner' = Released(w) /\ job' = [job EXCEPT ![w] = Idle]
    BY <1>3 DEF Ends
  <2> QED BY <2>10, <2>11, <2>12, <2>13, <2>14, EndFits, StepKeeps
<1> QED BY <1>1, <1>2, <1>3

-----------------------------------------------------------------------------
(* Theorems *)

\* A transaction goes on.
LEMMA ServeStep ==
  ASSUME RaceInv, NEW w \in Workers, Serve(w)
  PROVE  RaceInv' /\ (Next \/ ExpireSome \/ UNCHANGED vars)
<1>1. CASE Check(w)
  BY <1>1, CheckKeeps DEF Check, Statement
<1>2. CASE InsertTransaction(w)
  BY <1>2, InsertKeeps DEF InsertTransaction, Statement
<1>3. CASE Duplicate(w)
  BY <1>3, RollbackKeeps DEF Duplicate, Rollback
<1>4. CASE Reconcile(w)
  BY <1>4, ReconcileKeeps DEF Reconcile, Statement
<1>5. CASE Evidence(w)
  <2>1. CASE Refuse(w, "evidence")
    BY <2>1, RollbackKeeps DEF Refuse, Rollback
  <2>2. CASE EvidenceFits(w) /\ Statement(w, "evidence", To(w, "lockAttempt"))
    BY <2>2, EvidenceKeeps DEF Statement
  <2> QED BY <1>5, <2>1, <2>2 DEF Evidence
<1>6. CASE ConfirmSession(w)
  BY <1>6, ConfirmSessionKeeps DEF ConfirmSession, Statement, Refuse, Rollback
<1>7. CASE Keep(w)
  <2>1. CASE Refuse(w, "keep")
    BY <2>1, RollbackKeeps DEF Refuse, Rollback
  <2>2. CASE EvidenceFits(w) /\ Statement(w, "keep", To(w, "commit"))
    BY <2>2, KeepKeeps DEF Statement
  <2> QED BY <1>7, <2>1, <2>2 DEF Keep
<1>8. CASE Look(w)
  BY <1>8, LookKeeps DEF Look, Statement, Refuse, Rollback
<1>9. CASE Expire(w)
  BY <1>9, ExpireKeeps DEF Expire, Statement
<1>10. CASE LockOrder(w)
  <2>1. CASE Refuse(w, "lockOrder")
    BY <2>1, RollbackKeeps DEF Refuse, Rollback
  <2>2. CASE Allowed(w) /\ Statement(w, "lockOrder", AfterOrder(w))
    BY <2>2, LockOrderKeeps DEF Statement
  <2> QED BY <1>10, <2>1, <2>2 DEF LockOrder
<1>11. CASE CancelPending(w)
  BY <1>11, CancelPendingKeeps DEF CancelPending, Statement
<1>12. CASE Commit(w)
  BY <1>12, CommitAtomic
<1>13. CASE Issue(w)
  BY <1>13, IssueAtomic
<1> QED BY <1>1, <1>2, <1>3, <1>4, <1>5, <1>6, <1>7, <1>8, <1>9, <1>10, <1>11, <1>12, <1>13
        DEF Serve

\* Every step of the race keeps the invariant, and is a step of OrderLifecycle or none.
LEMMA RaceStep ==
  ASSUME RaceInv, [RaceNext]_raceVars
  PROVE  RaceInv' /\ (Next \/ ExpireSome \/ UNCHANGED vars)
<1>1. ASSUME NEW w \in Workers, Start(w)
      PROVE  RaceInv' /\ UNCHANGED vars
  <2>1. RaceInv'
    BY <1>1, StartWebhookKeeps, StartHandlerKeeps, StartExpiryKeeps DEF Start
  <2>2. UNCHANGED vars
    BY <1>1 DEF Start, StartWebhook, StartConfirm, StartQr, StartCancel, StartExpiry
  <2> QED BY <2>1, <2>2
<1>2. ASSUME NEW w \in Workers, AbortDeadlock(w) \/ Fail(w)
      PROVE  RaceInv' /\ UNCHANGED vars
  BY <1>2, RollbackKeeps DEF AbortDeadlock, Fail, Rollback
<1>3. ASSUME NEW ref \in Refs, NEW a \in {Null} \cup AttemptId, NEW amount \in Amounts,
             BankTransfer(ref, a, amount)
      PROVE  RaceInv' /\ UNCHANGED vars
  BY <1>3, BankTransferKeeps DEF BankTransfer
<1>4. ASSUME NEW a \in AttemptId, SessionOverdue(a)
      PROVE  RaceInv' /\ Next
  BY <1>4, SessionOverdueKeeps
<1>5. CASE UNCHANGED raceVars
  <2>1. UNCHANGED vars /\ UNCHANGED transfers /\ UNCHANGED <<owner, job>>
    BY <1>5 DEF raceVars
  <2>2. \A v \in Workers : Undisturbed(v)
    BY <2>1, LeftAlone
  <2> QED BY <2>1, <2>2, TablesStay, OutsideKeeps
<1>6. CASE RaceNext
  <2>1. CASE \E w \in Workers : Serve(w) \/ Start(w) \/ AbortDeadlock(w) \/ Fail(w)
    <3>1. PICK w \in Workers : Serve(w) \/ Start(w) \/ AbortDeadlock(w) \/ Fail(w)
      BY <2>1
    <3> QED BY <1>1, <1>2, <3>1, ServeStep
  <2>2. CASE \E ref \in Refs, a \in {Null} \cup AttemptId, amount \in Amounts : BankTransfer(ref, a, amount)
    BY <1>3, <2>2
  <2>3. CASE \E a \in AttemptId : SessionOverdue(a)
    BY <1>4, <2>3
  <2> QED BY <1>6, <2>1, <2>2, <2>3 DEF RaceNext
<1> QED BY <1>5, <1>6

\* No row is locked and no session issued when the servers begin.
LEMMA RaceInitInv == RaceInit => RaceInv
<1> SUFFICES ASSUME RaceInit PROVE RaceInv
  OBVIOUS
<1>1. IndInv /\ (\A a \in AttemptId : attempts[a].status = "NONE" /\ attempts[a].order = NoOrder)
  BY InitInv DEF RaceInit, Init, NoAttemptRow
<1>2. SessionsIssued
  BY <1>1 DEF SessionsIssued
<1>3. TransfersFit
  BY DEF RaceInit, TransfersFit, NoTransfer
<1>4. owner \in [Rows -> Workers \cup {NoWorker}] /\ job = [w \in Workers |-> job[w]]
      /\ (\A row \in Rows : owner[row] = NoWorker) /\ (\A w \in Workers : job[w] = Idle)
  BY DEF RaceInit
<1>5. ASSUME NEW w \in Workers PROVE JobFits(w) /\ LocksFit(w)
  <2>1. JobFits(w)
    BY <1>4 DEF JobFits, JobFields, Handlers, Idle, Request, Nothing
  <2>2. \A row \in Rows : owner[row] # w
    BY <1>4, RaceAssumption
  <2>3. LocksFit(w)
    BY <1>4, <2>2, RowsApart DEF LocksFit, OrderTaken, KeyTaken, AttemptTaken, Idle, Request, Nothing
  <2> QED BY <2>1, <2>3
<1> QED BY <1>1, <1>2, <1>3, <1>4, <1>5 DEF RaceInv

\* However many connections serve requests at once, what every transaction wrote and
\* locked fits what it found, and the tables satisfy the invariant of OrderLifecycle.
THEOREM RaceInvariance == RaceSpec => []RaceInv
<1>1. RaceInv /\ [RaceNext]_raceVars => RaceInv'
  BY RaceStep
<1> QED BY <1>1, RaceInitInv, PTL DEF RaceSpec

\* The handlers are atomic: the locks and the unique keys make every commit look like
\* one step of OrderLifecycle, whatever other transactions do at the same time.
THEOREM HandlersAreAtomic == RaceSpec => AtomicHandlers
<1>1. RaceInv /\ [RaceNext]_raceVars => [Next \/ ExpireSome]_vars
  BY RaceStep
<1> QED BY <1>1, RaceInvariance, PTL DEF RaceSpec, AtomicHandlers

\* So the payment rules hold of what is committed, although transactions interleave.
THEOREM RaceKeepsPayments ==
  RaceSpec => [](PendingOnlyWhilePayable /\ PaidThroughOneAttempt /\ OneTransactionPerPayment)
<1>1. RaceInv => PendingOnlyWhilePayable /\ PaidThroughOneAttempt /\ OneTransactionPerPayment
  BY DEF RaceInv, IndInv
<1> QED BY <1>1, RaceInvariance, PTL

-----------------------------------------------------------------------------
(* The books, while statements interleave *)

\* The expiry job that leaves out sessions deals in sessions only.
LEMMA ExpireSomeSteps == ASSUME IndInv, ExpireSome PROVE SessionStep
<1>1. PICK expired \in SUBSET Expirable :
        attempts' = [a \in AttemptId |-> IF a \in expired
                                         THEN [attempts[a] EXCEPT !.status = "EXPIRED"]
                                         ELSE attempts[a]]
  BY DEF ExpireSome
<1>2. \A a \in expired : attempts[a].status = "PENDING"
  BY DEF Expirable
<1>3. UNCHANGED <<orders, transactions, refunds, returns>>
  BY DEF ExpireSome
<1> QED BY <1>1, <1>2, <1>3 DEF IndInv, TypeOK, PaymentAttempt, SessionStep

\* What a step of the race does to the committed tables.
LEMMA CommitsAre ==
  ASSUME RaceInv, [RaceNext]_raceVars
  PROVE  IndInv /\ IndInv' /\ ([Next]_vars \/ SessionStep)
<1>1. IndInv /\ IndInv' /\ (Next \/ ExpireSome \/ UNCHANGED vars)
  BY RaceStep DEF RaceInv
<1> QED BY <1>1, ExpireSomeSteps

\* Statements that interleave keep the books in balance.
LEMMA RaceBooks == RaceInv /\ MoneyInv /\ [RaceNext]_raceVars => MoneyInv'
BY CommitsAre, MoneyNext, SessionBooks

\* Every commit is a step of the books, or none.
LEMMA RaceLedger ==
  RaceInv /\ MoneyInv /\ MoneyInv' /\ [RaceNext]_raceVars => [Ledger!Next]_(Ledger!books)
BY CommitsAre, LedgerNext, SessionEntries

\* No commit undoes what was booked.
LEMMA RaceBooked == RaceInv /\ [RaceNext]_raceVars => [StaysBooked]_vars
BY CommitsAre, NextBooked, SessionBooked

\* The books of every order stay in balance, however the statements interleave.
THEOREM RaceMoneyInvariance == RaceSpec => []MoneyInv
<1>1. RaceInit => MoneyInv
  BY MoneyInit DEF RaceInit
<1> QED BY <1>1, RaceInvariance, RaceBooks, PTL DEF RaceSpec

\* The statements of the payment handlers implement OrderLedger: money comes in once for
\* an order and never for one that was given up, whatever transactions overlap, are
\* repeated, wait for each other, or are aborted on the way.
THEOREM RaceKeepsTheBooks == RaceSpec => KeepsTheBooks
<1>1. RaceInit => Ledger!Init
  BY LedgerInit DEF RaceInit
<1>2. Ledger!Init /\ [][Ledger!Next]_(Ledger!books) => KeepsTheBooks
  BY DEF KeepsTheBooks, Ledger!Spec
<1> QED BY <1>1, <1>2, RaceInvariance, RaceMoneyInvariance, RaceLedger, PTL DEF RaceSpec

\* Nor does any commit undo what another transaction booked.
THEOREM RaceUnbooksNothing == RaceSpec => BookedForGood
BY RaceInvariance, RaceBooked, PTL DEF RaceSpec, BookedForGood

\* What the pages show between two commits agrees as well.
THEOREM RaceIsShownAlike == RaceSpec => [](SessionViewsAgree /\ MoneyViewsAgree)
<1>1. RaceInv => SessionsInOrder /\ TypeOK
  BY ConstantsAssumption
     DEF RaceInv, IndInv, SessionsIssued, SessionsInOrder, PendingAttempts, AttemptsOf
<1> QED BY <1>1, RaceInvariance, RaceMoneyInvariance, SessionsAgree, MoneyAgrees, PTL

-----------------------------------------------------------------------------
(* What SePay is told *)

\* A transfer whose delivery was answered with success is on record: SePay repeats it
\* until then, and never after.
AcknowledgedIsRecorded ==
  \A ref \in acknowledged : transactions[<<"sepay", ref>>].status # "NONE"

\* A transaction that is recorded stays so.
LEMMA StaysRecorded ==
  ASSUME RaceInv, [RaceNext]_raceVars, NEW k \in Keys, transactions[k].status # "NONE"
  PROVE  transactions'[k].status # "NONE"
<1>1. IndInv /\ TypeOK /\ (Next \/ SessionStep \/ UNCHANGED vars)
  BY CommitsAre DEF IndInv
<1>2. CASE UNCHANGED transactions
  BY <1>2
<1>3. ASSUME NEW key \in Keys, NEW status, NEW a, NEW amount, status # "NONE",
             Record(key, status, a, amount)
      PROVE  transactions'[k].status # "NONE"
  BY <1>1, <1>3, RecordEffects
<1>4. CASE PaymentNext
  <2>1. ASSUME \/ \E a \in AttemptId : PassExpiry(a)
               \/ \E o \in Orders : CreateQr(o) \/ CreateQrAdmin(o)
               \/ ChangeAccount \/ ExpireOverdueAttempts
        PROVE  UNCHANGED transactions
    BY <1>1, <2>1, SessionActions DEF SessionStep
  <2>2. ASSUME NEW o \in Orders, NEW key \in Keys, NEW a \in AttemptId,
               NEW acceptMismatch \in BOOLEAN,
               \/ ConfirmRecorded(o, key, a, acceptMismatch)
               \/ \E amount \in Amounts : ConfirmEntered(o, key, a, amount, acceptMismatch)
        PROVE  transactions'[k].status # "NONE"
    <3>1. \E amount : Record(key, "MANUALLY_CONFIRMED", a, amount)
      BY <2>2 DEF ConfirmRecorded, ConfirmEntered
    <3> QED BY <1>3, <3>1
  <2>3. ASSUME NEW ref \in Refs, NEW amount \in Amounts,
               \/ \E status \in VerificationStatuses : WebhookUnlinked(ref, status, amount)
               \/ \E a \in AttemptId : WebhookForAttempt(ref, a, amount)
        PROVE  transactions'[k].status # "NONE"
    <3>1. transactions[<<"sepay", ref>>].status = "NONE" /\ <<"sepay", ref>> \in Keys
      BY <2>3, KeysType DEF WebhookUnlinked, WebhookForAttempt
    <3>2. \E status, a : Record(<<"sepay", ref>>, status, a, amount)
      BY <2>3 DEF WebhookUnlinked, WebhookForAttempt
    <3>3. transactions'[k] = transactions[k]
      BY <1>1, <3>1, <3>2, RecordEffects
    <3> QED BY <3>3
  <2> QED BY <1>2, <1>4, <2>1, <2>2, <2>3 DEF PaymentNext
<1>5. CASE RefundNext \/ ReturnNext \/ StatusNext
  <2>1. UNCHANGED transactions
    BY <1>5 DEF RefundNext, ReturnNext, StatusNext, CreateRefundAdmin, RejectRefund,
                CompleteRefund, CreateReturn, CancelReturn, ApproveReturn, RejectReturn,
                MoveReturn, ReceiveReturn, CancelOrder, UpdateStatus, CancelLocked
  <2> QED BY <1>2, <2>1
<1> QED BY <1>1, <1>2, <1>4, <1>5 DEF Next, SessionStep, vars

\* A webhook that commits has recorded its transfer.
LEMMA CommitRecords ==
  ASSUME RaceInv, NEW w \in Workers, Commit(w), job[w].handler = "webhook"
  PROVE  \E ref \in Refs : job[w].key = <<"sepay", ref>>
                             /\ transactions'[<<"sepay", ref>>].status # "NONE"
<1>1. WebhookFits(w) /\ job[w].step = "commit" /\ Ends(w) /\ IndInv
  BY DEF RaceInv, JobFits, Commit
<1>2. PICK ref \in Refs, k \in Keys : job[w].key = <<"sepay", ref>> /\ k = job[w].key
  BY <1>1, KeysType DEF WebhookFits
<1>3. PICK status, a, amount :
        /\ job[w].transactions = Only(k, [status |-> status, attempt |-> a, amount |-> amount])
        /\ status # "NONE"
  <2>1. CASE job[w].attempt = Null
    <3>1. job[w].transactions =
            Only(k, [status |-> "UNMATCHED", attempt |-> Null, amount |-> job[w].amount])
      BY <1>1, <1>2, <2>1 DEF WebhookFits, Evidenced
    <3>2. PICK status : status = "UNMATCHED"
      OBVIOUS
    <3>3. status # "NONE"
      BY <3>2
    <3> QED BY <3>1, <3>2, <3>3, Zenon
  <2>2. CASE job[w].attempt # Null
    <3>1. PICK verdict : verdict = Verdict(job[w].attempt, job[w].amount)
      OBVIOUS
    <3>2. verdict # "NONE"
      BY <3>1 DEF Verdict
    <3>3. job[w].transactions =
            Only(k, [status |-> verdict, attempt |-> job[w].attempt, amount |-> job[w].amount])
      BY <1>1, <1>2, <2>2, <3>1 DEF WebhookFits, Evidenced
    <3> QED BY <3>2, <3>3, Zenon
  <2> QED BY <2>1, <2>2
<1>4. transactions' = [transactions EXCEPT ![k] = [status |-> status, attempt |-> a, amount |-> amount]]
  BY <1>1, <1>3, CommitTables
<1>5. transactions'[k].status = status
  BY <1>1, <1>4 DEF IndInv, TypeOK
<1> QED BY <1>2, <1>3, <1>5

\* A delivery that is answered with success was recorded, by this one or by an earlier
\* one, whatever deliveries, confirmations and failures meet.
THEOREM AcknowledgedAreRecorded ==
  RaceSpec => [](acknowledged \subseteq Refs /\ AcknowledgedIsRecorded)
<1> DEFINE Answered == acknowledged \subseteq Refs /\ AcknowledgedIsRecorded
<1>1. RaceInit => Answered
  BY DEF RaceInit, AcknowledgedIsRecorded
<1>2. RaceInv /\ Answered /\ [RaceNext]_raceVars => Answered'
  <2> SUFFICES ASSUME RaceInv, Answered, [RaceNext]_raceVars PROVE Answered'
    OBVIOUS
  <2>1. \A ref \in acknowledged : transactions'[<<"sepay", ref>>].status # "NONE"
    BY StaysRecorded, KeysType DEF AcknowledgedIsRecorded
  <2>2. ASSUME NEW ref \in Refs, acknowledged' = acknowledged \cup {ref},
               transactions'[<<"sepay", ref>>].status # "NONE"
        PROVE  Answered'
    BY <2>1, <2>2 DEF AcknowledgedIsRecorded
  <2>3. CASE UNCHANGED acknowledged
    BY <2>1, <2>3 DEF AcknowledgedIsRecorded
  <2>4. ASSUME NEW w \in Workers, Duplicate(w) PROVE Answered'
    <3>1. JobFits(w) /\ job[w].handler = "webhook"
      BY <2>4 DEF RaceInv, Duplicate
    <3>2. PICK ref \in Refs : job[w].key = <<"sepay", ref>>
      BY <3>1 DEF JobFits, WebhookFits
    <3>3. /\ acknowledged' = acknowledged \cup {ref}
          /\ transactions[<<"sepay", ref>>].status # "NONE"
          /\ transactions' = transactions
      BY <2>4, <3>2 DEF Duplicate, Rollback, vars
    <3> QED BY <2>2, <3>3
  <2>5. ASSUME NEW w \in Workers, Commit(w) PROVE Answered'
    <3>1. CASE job[w].handler = "webhook"
      <4>1. PICK ref \in Refs : /\ job[w].key = <<"sepay", ref>>
                                /\ transactions'[<<"sepay", ref>>].status # "NONE"
        BY <2>5, <3>1, CommitRecords
      <4>2. acknowledged' = acknowledged \cup {ref}
        BY <2>5, <3>1, <4>1 DEF Commit
      <4> QED BY <2>2, <4>1, <4>2
    <3>2. CASE job[w].handler # "webhook"
      BY <2>3, <2>5, <3>2 DEF Commit
    <3> QED BY <3>1, <3>2
  <2>6. ASSUME NEW w \in Workers, Serve(w), ~Duplicate(w), ~Commit(w) PROVE UNCHANGED acknowledged
    BY <2>6 DEF Serve, Check, InsertTransaction, Reconcile, Evidence, ConfirmSession, Keep, Look,
                Expire, LockOrder, CancelPending, Issue, Statement, Refuse
  <2>7. ASSUME NEW w \in Workers, Start(w) \/ AbortDeadlock(w) \/ Fail(w)
        PROVE  UNCHANGED acknowledged
    BY <2>7 DEF Start, StartWebhook, StartConfirm, StartQr, StartCancel, StartExpiry,
                AbortDeadlock, Fail
  <2>8. CASE UNCHANGED raceVars
    BY <2>3, <2>8 DEF raceVars
  <2>9. CASE \/ \E ref \in Refs, a \in {Null} \cup AttemptId, amount \in Amounts :
                  BankTransfer(ref, a, amount)
             \/ \E a \in AttemptId : SessionOverdue(a)
    BY <2>3, <2>9 DEF BankTransfer, SessionOverdue
  <2> HIDE DEF Answered
  <2> QED BY <2>3, <2>4, <2>5, <2>6, <2>7, <2>8, <2>9 DEF RaceNext, Serve
<1> QED BY <1>1, <1>2, RaceInvariance, PTL DEF RaceSpec

-----------------------------------------------------------------------------
(* Circles of waiting transactions *)

\* What a transaction waits for: its order, its key, or a session.
LEMMA Waiting ==
  ASSUME RaceInv, NEW u \in Workers, NEW v \in Workers, Waits(u, v)
  PROVE  \/ /\ job[u].step = "lockOrder"
            /\ \E o \in Orders : job[u].order = o /\ owner[OrderRow(o)] = v
         \/ /\ job[u].step \in {"insert", "keep"}
            /\ job[u].key \in Keys /\ owner[job[u].key] = v
         \/ /\ job[u].step = "evidence"
            /\ job[u].key \in Keys /\ owner[job[u].key] = v
            /\ transactions[job[u].key].status # "NONE"
         \/ /\ job[u].step \in {"lockAttempt", "cancelPending", "expire"}
            /\ \E a \in AttemptId : AttemptRow(a) \in Needs(u) /\ owner[AttemptRow(a)] = v
<1>1. JobFits(u)
  BY DEF RaceInv
<1>2. PICK row \in Needs(u) : owner[row] = v
  BY DEF Waits
<1>3. job[u].step \in {"check", "insert", "lockOrder", "lockAttempt", "cancelPending", "commit",
                       "evidence", "keep", "look", "expire", "issue"}
  BY <1>1 DEF JobFits, Handlers, WebhookFits, ConfirmFits, QrFits, CancelFits, ExpiryFits, Idle, Request
<1>4. CASE job[u].step \in {"check", "look", "issue", "commit"}
  BY <1>2, <1>4, NeedsAt
<1>5. CASE job[u].step = "lockOrder"
  <2>1. job[u].handler \in {"webhook", "confirm", "createQr", "createQrAdmin", "cancel"}
    BY <1>1, <1>5, HandlerAt
  <2>2. job[u].order \in Orders
    BY <1>1, <1>5, <2>1 DEF JobFits, WebhookFits, ConfirmFits, QrFits, CancelFits
  <2>3. row = OrderRow(job[u].order)
    BY <1>2, <1>5, NeedsAt
  <2> QED BY <1>2, <1>5, <2>2, <2>3
<1>6. CASE job[u].step \in {"insert", "keep", "evidence"}
  <2>1. row = job[u].key /\ (job[u].step = "evidence" => transactions[job[u].key].status # "NONE")
    BY <1>2, <1>6, NeedsAt
  <2>2. job[u].handler \in {"webhook", "confirm"}
    BY <1>1, <1>6, HandlerAt
  <2>3. job[u].key \in Keys
    <3>1. CASE job[u].handler = "confirm"
      BY <1>1, <3>1 DEF JobFits, ConfirmFits
    <3>2. CASE job[u].handler = "webhook"
      <4>1. PICK ref \in Refs : job[u].key = <<"sepay", ref>>
        BY <1>1, <3>2 DEF JobFits, WebhookFits
      <4> QED BY <4>1, KeysType
    <3> QED BY <2>2, <3>1, <3>2
  <2> QED BY <1>2, <1>6, <2>1, <2>3
<1>7. CASE job[u].step = "lockAttempt"
  <2>1. job[u].handler \in {"webhook", "confirm"}
    BY <1>1, <1>7, HandlerAt
  <2>2. job[u].attempt \in AttemptId
    BY <1>1, <1>7, <2>1 DEF JobFits, WebhookFits, ConfirmFits, AttemptsOf
  <2>3. Needs(u) = {AttemptRow(job[u].attempt)}
    BY <1>7, NeedsAt
  <2> QED BY <1>2, <1>7, <2>2, <2>3
<1>8. CASE job[u].step = "cancelPending"
  <2>1. Needs(u) = SessionRows(PendingSeen(u))
    BY <1>8, NeedsAt
  <2>2. PICK a \in AttemptId : row = AttemptRow(a)
    BY <1>2, <2>1 DEF SessionRows, AttemptRow, PendingSeen, AttemptsOf
  <2> QED BY <1>2, <1>8, <2>2
<1>9. CASE job[u].step = "expire"
  <2>1. Needs(u) = SessionRows(FirstOf(job[u].sessions))
    BY <1>9, NeedsAt
  <2>2. job[u].sessions \in SUBSET AttemptId /\ job[u].sessions # {}
    BY <1>2, <2>1, <1>1 DEF JobFits, SessionRows, FirstOf
  <2>3. FirstOf(job[u].sessions) \subseteq AttemptId
    BY <2>2, FirstSession
  <2>4. PICK a \in AttemptId : row = AttemptRow(a)
    BY <1>2, <2>1, <2>3 DEF SessionRows, AttemptRow
  <2> QED BY <1>2, <1>9, <2>4
<1> QED BY <1>3, <1>4, <1>5, <1>6, <1>7, <1>8, <1>9

\* A transaction that holds a session and waits, waits for a newer session; unless it
\* is about to save evidence entered by hand.
LEMMA WaitsForNewer ==
  ASSUME RaceInv, NEW v \in Workers, NEW x \in Workers, Waits(v, x), job[v].step # "keep",
         NEW a \in AttemptId, owner[AttemptRow(a)] = v
  PROVE  /\ job[v].step \in {"cancelPending", "expire"}
         /\ \E b \in AttemptId : a < b /\ owner[AttemptRow(b)] = x
<1>1. JobFits(v) /\ LocksFit(v) /\ SessionsIssued /\ IndInv
  BY DEF RaceInv
<1>2. AttemptTaken(v, a)
  BY <1>1 DEF LocksFit
<1>3. job[v].step \notin {"commit", "issue", "look", "check"}
  BY Waiting
<1>4. PICK b \in AttemptId : AttemptRow(b) \in Needs(v) /\ owner[AttemptRow(b)] = x
  <2>1. job[v].step \in {"cancelPending", "expire"}
    <3>1. CASE job[v].handler = "expiry"
      BY <1>1, <1>3, <3>1 DEF JobFits, ExpiryFits
    <3> QED BY <1>2, <1>3, <3>1 DEF AttemptTaken
  <2> QED BY <2>1, Waiting
<1>5. CASE job[v].handler \in {"webhook", "confirm"}
  <2>1. job[v].step = "cancelPending" /\ attempts[a].order = job[v].order /\ a = job[v].attempt
    BY <1>2, <1>3, <1>5 DEF AttemptTaken
  <2>2. job[v].attempts = Only(a, PaidRow(a))
    BY <1>1, <1>5, <2>1 DEF JobFits, WebhookFits, ConfirmFits, Null, AttemptId
  <2>3. b \in PendingSeen(v)
    BY <1>4, <2>1, NeedsAt, RowsApart DEF SessionRows, AttemptRow
  <2>4. \A c \in AttemptId : Over(job[v].attempts, attempts)[c] = IF c = a THEN PaidRow(a) ELSE attempts[c]
    BY <1>1, <2>2 DEF Over, Only, IndInv, TypeOK
  <2>5. PaidRow(a).status = "PAID"
    BY <1>1 DEF PaidRow, IndInv, TypeOK, PaymentAttempt
  <2>6. b # a /\ attempts[b].status = "PENDING" /\ attempts[b].order = job[v].order
    BY <2>3, <2>4, <2>5 DEF PendingSeen, AttemptsOf
  <2>7. a <= b
    BY <1>1, <2>1, <2>6 DEF SessionsIssued
  <2>8. a < b
    BY <2>6, <2>7, ConstantsAssumption DEF AttemptId
  <2> QED BY <1>4, <2>1, <2>8
<1>6. CASE job[v].handler \notin {"webhook", "confirm"}
  <2>1. /\ job[v].step = "expire"
        /\ \A s \in job[v].sessions : a < s
    <3>1. job[v].handler # "cancel"
      BY <1>2, <1>3 DEF AttemptTaken
    <3>2. job[v].handler = "expiry" => job[v].step = "expire"
      BY <1>1, <1>3 DEF JobFits, ExpiryFits
    <3> QED BY <1>2, <1>3, <1>6, <3>1, <3>2 DEF AttemptTaken
  <2>2. b \in FirstOf(job[v].sessions)
    BY <1>4, <2>1, NeedsAt, RowsApart DEF SessionRows, AttemptRow
  <2>3. job[v].sessions \in SUBSET AttemptId /\ job[v].sessions # {}
    BY <1>1, <2>2 DEF JobFits, FirstOf
  <2>4. b \in job[v].sessions
    BY <2>2, <2>3, FirstSession
  <2> QED BY <1>4, <2>1, <2>4
<1> QED BY <1>5, <1>6

\* A set of sessions has a newest one.
LEMMA NewestSession ==
  ASSUME NEW S \in SUBSET AttemptId, S # {}
  PROVE  \E n \in S : \A s \in S : s <= n
<1> DEFINE T == {MaxAttempts + 1 - s : s \in S}
<1>1. T \in SUBSET AttemptId /\ T # {}
  <2>1. ASSUME NEW s \in S PROVE MaxAttempts + 1 - s \in AttemptId
    BY ConstantsAssumption DEF AttemptId
  <2>2. PICK s \in S : TRUE
    OBVIOUS
  <2>3. MaxAttempts + 1 - s \in T
    BY <2>2
  <2> QED BY <2>1, <2>3
<1>2. PICK m \in T : \A t \in T : m <= t
  <2> HIDE DEF T
  <2> QED BY <1>1, FirstSession
<1>3. PICK n \in S : m = MaxAttempts + 1 - n
  BY <1>2
<1>4. ASSUME NEW s \in S PROVE s <= n
  <2>1. MaxAttempts + 1 - n <= MaxAttempts + 1 - s
    BY <1>2, <1>3
  <2> QED BY <2>1, ConstantsAssumption DEF AttemptId
<1> QED BY <1>4

\* The one way into a circle.
LEMMA CirclesAreOfKeys ==
  ASSUME RaceInv PROVE DeadlockOnlyByKey
<1> SUFFICES ASSUME NEW circle \in SUBSET Workers, Deadlocked(circle)
             PROVE  \E w, v \in circle :
                      /\ job[v].handler = "confirm" /\ job[v].step = "keep"
                      /\ owner[job[v].key] = w
                      /\ \/ job[w].handler = "webhook" /\ job[w].step = "lockOrder"
                         \/ job[w].order # job[v].order
  BY DEF DeadlockOnlyByKey
<1>1. circle # {} /\ \A u \in circle : \E v \in circle : Waits(u, v)
  BY DEF Deadlocked
<1>2. \A u \in circle : JobFits(u) /\ LocksFit(u)
  BY DEF RaceInv
<1>3. \A u \in circle : job[u].step \notin {"check", "look", "issue", "commit"}
  <2> SUFFICES ASSUME NEW u \in circle
               PROVE  job[u].step \notin {"check", "look", "issue", "commit"}
    OBVIOUS
  <2>1. PICK v \in circle : Waits(u, v)
    BY <1>1
  <2> QED BY <2>1, Waiting
<1>4. CASE \E v \in circle : job[v].step = "keep"
  <2>1. PICK v \in circle : job[v].step = "keep"
    BY <1>4
  <2>2. PICK w \in circle : Waits(v, w)
    BY <1>1
  <2>3. job[v].key \in Keys /\ owner[job[v].key] = w /\ w # v
    BY <2>1, <2>2, Waiting DEF Waits
  <2>4. job[v].handler = "confirm" /\ ConfirmFits(v)
    BY <1>2, <2>1, HandlerAt DEF JobFits
  <2>5. KeyTaken(w)
    BY <1>2, <2>3 DEF LocksFit
  <2>6. owner[OrderRow(job[v].order)] = v /\ job[v].order \in Orders
    BY <1>2, <2>1, <2>4 DEF LocksFit, OrderTaken, ConfirmFits
  <2>7. ASSUME job[w].order = job[v].order
        PROVE  job[w].handler = "webhook" /\ job[w].step = "lockOrder"
    <3>1. ~OrderTaken(w)
      BY <1>2, <2>3, <2>6, <2>7 DEF LocksFit
    <3>2. CASE job[w].handler = "webhook"
      <4>1. WebhookFits(w) /\ job[w].step \in {"lockOrder", "lockAttempt", "cancelPending"}
        BY <1>2, <1>3, <2>5, <3>2 DEF JobFits, WebhookFits, KeyTaken
      <4>2. job[w].attempt # Null
        BY <4>1 DEF WebhookFits
      <4> QED BY <3>1, <3>2, <4>1, <4>2 DEF OrderTaken
    <3>3. CASE job[w].handler # "webhook"
      BY <2>5, <3>1, <3>3 DEF KeyTaken, OrderTaken
    <3> QED BY <3>2, <3>3
  <2> QED BY <2>1, <2>3, <2>4, <2>7
<1>5. CASE \A v \in circle : job[v].step # "keep"
  <2> DEFINE awaited == {a \in AttemptId : owner[AttemptRow(a)] \in circle}
  <2>1. ASSUME NEW u \in circle, job[u].step \in {"lockAttempt", "cancelPending", "expire"}
        PROVE  awaited # {}
    <3>1. PICK v \in circle : Waits(u, v)
      BY <1>1
    <3> QED BY <2>1, <3>1, Waiting
  <2>2. ASSUME NEW u \in circle, job[u].step = "evidence"
        PROVE  awaited # {}
    <3>1. PICK v \in circle : Waits(u, v)
      BY <1>1
    <3>2. /\ job[u].key \in Keys /\ owner[job[u].key] = v
          /\ transactions[job[u].key].status # "NONE"
      BY <2>2, <3>1, Waiting
    <3>3. KeyTaken(v) /\ job[v].key = job[u].key
      BY <1>2, <3>2 DEF LocksFit
    <3>4. job[v].handler # "webhook"
      BY <1>2, <3>2, <3>3 DEF JobFits, WebhookFits, KeyTaken
    <3>5. job[v].step \in {"lockAttempt", "cancelPending"}
      BY <1>3, <1>5, <3>3, <3>4 DEF KeyTaken
    <3> QED BY <2>1, <3>5
  <2>3. ASSUME NEW u \in circle, job[u].step = "lockOrder"
        PROVE  awaited # {}
    <3>1. PICK v \in circle : Waits(u, v)
      BY <1>1
    <3>2. PICK o \in Orders : owner[OrderRow(o)] = v
      BY <2>3, <3>1, Waiting
    <3>3. OrderTaken(v)
      BY <1>2, <3>2 DEF LocksFit
    <3>4. job[v].step \in {"evidence", "lockAttempt", "cancelPending", "expire"}
      BY <1>2, <1>3, <1>5, <3>3 DEF OrderTaken, JobFits, ConfirmFits, QrFits, CancelFits
    <3> QED BY <2>1, <2>2, <3>4
  <2>4. ASSUME NEW u \in circle, job[u].step = "insert"
        PROVE  awaited # {}
    <3>1. PICK v \in circle : Waits(u, v)
      BY <1>1
    <3>2. job[u].key \in Keys /\ owner[job[u].key] = v
      BY <2>4, <3>1, Waiting
    <3>3. KeyTaken(v)
      BY <1>2, <3>2 DEF LocksFit
    <3>4. job[v].step \in {"lockOrder", "lockAttempt", "cancelPending"}
      BY <1>2, <1>3, <1>5, <3>3 DEF KeyTaken, JobFits, WebhookFits
    <3> QED BY <2>1, <2>3, <3>4
  <2>5. awaited # {}
    <3>1. PICK u \in circle : TRUE
      BY <1>1
    <3>2. PICK v \in circle : Waits(u, v)
      BY <1>1
    <3>3. job[u].step \in {"insert", "evidence", "lockOrder", "lockAttempt", "cancelPending", "expire"}
      BY <1>5, <3>2, Waiting
    <3> QED BY <2>1, <2>2, <2>3, <2>4, <3>3
  <2>6. PICK n \in awaited : \A s \in awaited : s <= n
    <3>1. awaited \in SUBSET AttemptId
      OBVIOUS
    <3> HIDE DEF awaited
    <3> QED BY <2>5, <3>1, NewestSession
  <2>7. PICK v \in circle : owner[AttemptRow(n)] = v
    BY <2>6
  <2>8. PICK x \in circle : Waits(v, x)
    BY <1>1
  <2>9. PICK b \in AttemptId : n < b /\ owner[AttemptRow(b)] = x
    BY <1>5, <2>6, <2>7, <2>8, WaitsForNewer
  <2>10. b <= n
    BY <2>6, <2>9
  <2> QED BY <2>6, <2>9, <2>10, ConstantsAssumption DEF AttemptId
<1> QED BY <1>4, <1>5

\* Transactions wait in a circle only when evidence is entered by hand under a key that
\* another one holds: sessions are locked in the order of their ids, after their order.
THEOREM OnlyKeysDeadlock == RaceSpec => []DeadlockOnlyByKey
BY CirclesAreOfKeys, RaceInvariance, PTL
=============================================================================
