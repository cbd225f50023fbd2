---------------------------- MODULE PaymentRace ----------------------------
(***************************************************************************)
(* What happens inside the handlers that OrderLifecycle takes as one step. *)
(* Each handler is a transaction of several statements at READ COMMITTED.  *)
(* Row locks (findLocked, UPDATE) and the unique key of                    *)
(* payment_transactions (INSERT) make it wait for other transactions; what *)
(* it wrote is seen by others when it commits.  The tables of ShopTables   *)
(* are what is committed.                                                  *)
(***************************************************************************)
EXTENDS OrderLifecycle

CONSTANTS
  Workers,      \* database connections of the server, each serving one request
  NoWorker,
  MaxFailures   \* bound: transactions that fail for a reason of their own

ASSUME RaceAssumption == NoWorker \notin Workers

VARIABLES
  transfers,     \* transfers[ref]: the transfer the bank reported to SePay
  acknowledged,  \* transfers whose delivery was answered with success
  owner,         \* owner[row]: the worker whose transaction holds the lock
  job,           \* job[w]: the request worker w serves, and how far it came
  failures

raceVars == <<vars, transfers, acknowledged, owner, job, failures>>

Rows == ({"order"} \X Orders) \cup ({"attempt"} \X AttemptId) \cup Keys

\* Rows by their ids, and those written over a table.
Nothing == [id \in {} |-> Null]
Only(id, row) == [i \in {id} |-> row]
Over(written, table) ==
  [id \in DOMAIN written \cup DOMAIN table |->
     IF id \in DOMAIN written THEN written[id] ELSE table[id]]

NoTransfer == [attempt |-> Null, amount |-> 0]

\* A request: what it is about, the next statement, and what its transaction
\* wrote so far.  An amount of 0 stands for a recorded transaction.
Request(handler, step, o, a, key, amount) ==
  [handler |-> handler, step |-> step, order |-> o, attempt |-> a, key |-> key,
   amount |-> amount, sessions |-> {},
   orders |-> Nothing, attempts |-> Nothing, transactions |-> Nothing]
NoKey == <<"none", Null>>
Idle == Request("none", "commit", NoOrder, Null, NoKey, 0)

\* The pending sessions of its order as the transaction of w finds them: what it
\* wrote itself it sees.
PendingSeen(w) ==
  {a \in AttemptsOf(job[w].order) : Over(job[w].attempts, attempts)[a].status = "PENDING"}

-----------------------------------------------------------------------------
(* Locks *)

SessionRows(sessions) == {<<"attempt", a>> : a \in sessions}

\* UPDATE locks its rows one after the other, in the order it finds them.
FirstOf(sessions) == IF sessions = {} THEN {} ELSE {Min(sessions)}

\* The rows a statement has to lock.  A row that is not committed is found by an
\* INSERT of its key, but not by a SELECT.
Demand(w, step) ==
  CASE step = "lockOrder" -> {<<"order", job[w].order>>}
    [] step = "lockAttempt" -> {<<"attempt", job[w].attempt>>}
    [] step \in {"insert", "keep"} -> {job[w].key}
    [] step = "evidence" ->
         IF job[w].amount = 0 /\ transactions[job[w].key].status # "NONE"
         THEN {job[w].key} ELSE {}
    [] step = "cancelPending" -> SessionRows(PendingSeen(w))
    [] step = "expire" -> SessionRows(FirstOf(job[w].sessions))
    [] OTHER -> {}

\* Mutants of Needs: the webhook does not lock the order; it locks the order after
\* the session.
NeedsWithoutOrder(w) ==
  IF job[w].handler = "webhook" /\ job[w].step = "lockOrder"
  THEN {} ELSE Demand(w, job[w].step)
NeedsSessionFirst(w) ==
  IF job[w].handler = "webhook" /\ job[w].step \in {"lockOrder", "lockAttempt"}
  THEN Demand(w, IF job[w].step = "lockOrder" THEN "lockAttempt" ELSE "lockOrder")
  ELSE Demand(w, job[w].step)

\* The rows that the next statement of w has to lock.
Needs(w) == Demand(w, job[w].step)

Waits(w, v) == v # w /\ \E row \in Needs(w) : owner[row] = v
Blocked(w) == \E v \in Workers : Waits(w, v)

\* Transactions that wait for each other in a circle.
Deadlocked(circle) ==
  circle # {} /\ \A w \in circle : \E v \in circle : Waits(w, v)

\* The next statement of w is at step and gets its locks; w goes on to next.
Statement(w, step, next) ==
  /\ job[w].step = step
  /\ ~Blocked(w)
  /\ owner' = [row \in Rows |-> IF row \in Needs(w) THEN w ELSE owner[row]]
  /\ job' = [job EXCEPT ![w] = next]
  /\ UNCHANGED <<vars, transfers, acknowledged, failures>>

To(w, step) == [job[w] EXCEPT !.step = step]

\* Locks last until the end of the transaction.
Released(w) == [row \in Rows |-> IF owner[row] = w THEN NoWorker ELSE owner[row]]

\* Mutant of Rollback: the transaction is left open.
RollbackForgotten(w) ==
  /\ job' = [job EXCEPT ![w] = Idle]
  /\ UNCHANGED <<vars, transfers, owner>>

\* The transaction is rolled back and the request answered with an error.
Rollback(w) ==
  /\ owner' = Released(w)
  /\ job' = [job EXCEPT ![w] = Idle]
  /\ UNCHANGED <<vars, transfers>>

\* A check of the handler, made on what its statement returned, throws.
Refuse(w, step) ==
  /\ job[w].step = step
  /\ ~Blocked(w)
  /\ Rollback(w)
  /\ UNCHANGED <<acknowledged, failures>>

-----------------------------------------------------------------------------
(* The SePay webhook *)

StartWebhook(w, ref) ==
  /\ job[w] = Idle
  /\ transfers[ref] # NoTransfer
  /\ job' = [job EXCEPT ![w] =
       LET a == transfers[ref].attempt
       IN  Request("webhook", "check", IF a = Null THEN NoOrder ELSE attempts[a].order, a,
                   <<"sepay", ref>>, transfers[ref].amount)]
  /\ UNCHANGED <<vars, transfers, acknowledged, owner, failures>>

Check(w) ==
  /\ job[w].step = "check"
  /\ transactions[job[w].key].status = "NONE"
  /\ Statement(w, "check", To(w, "insert"))

InsertTransaction(w) ==
  LET row == [status |-> "UNMATCHED", attempt |-> Null, amount |-> job[w].amount]
  IN  /\ job[w].step = "insert"
      /\ transactions[job[w].key].status = "NONE"
      /\ Statement(w, "insert",
           [job[w] EXCEPT !.step = IF job[w].attempt = Null THEN "commit" ELSE "lockOrder",
                          !.transactions = Only(job[w].key, row)])

\* The transfer is recorded already: found by the first SELECT, or by the INSERT
\* that fails on the unique key.  Either way SePay is told that all is well.
Duplicate(w) ==
  /\ job[w].handler = "webhook"
  /\ job[w].step \in {"check", "insert"}
  /\ transactions[job[w].key].status # "NONE"
  /\ ~Blocked(w)
  /\ Rollback(w)
  /\ acknowledged' = acknowledged \cup {job[w].key[2]}
  /\ UNCHANGED failures

\* reconcile on the locked rows.
Reconcile(w) ==
  LET a == job[w].attempt
      o == job[w].order
      verdict == Verdict(a, job[w].amount)
      evidence == [status |-> verdict, attempt |-> a, amount |-> job[w].amount]
      Judged == [job[w] EXCEPT !.transactions = Only(job[w].key, evidence), !.step = "commit"]
  IN  /\ job[w].handler = "webhook"
      /\ Statement(w, "lockAttempt",
           CASE verdict = "MATCHED" ->
                  [Judged EXCEPT !.step = "cancelPending",
                                 !.orders = Only(o, MarkOrderPaid(o)[o]),
                                 !.attempts = Only(a, [attempts[a] EXCEPT !.status = "PAID"])]
             [] verdict = "LATE" ->
                  [Judged EXCEPT !.attempts = Only(a, [attempts[a] EXCEPT !.status = "EXPIRED"])]
             [] OTHER -> Judged)

-----------------------------------------------------------------------------
(* The confirmation by hand *)

StartConfirm(w, o, a, key, amount) ==
  /\ job[w] = Idle
  /\ a \in AttemptsOf(o)
  /\ key[2] \in Refs \cup {a}
  /\ job' = [job EXCEPT ![w] = Request("confirm", "lockOrder", o, a, key, amount)]
  /\ UNCHANGED <<vars, transfers, acknowledged, owner, failures>>

\* The recorded transaction can be confirmed, or the one entered is not recorded.
EvidenceFits(w) ==
  LET status == transactions[job[w].key].status
  IN  IF job[w].amount = 0 THEN status \in Confirmable ELSE status = "NONE"

Evidence(w) ==
  /\ job[w].step = "evidence"
  /\ \/ EvidenceFits(w) /\ Statement(w, "evidence", To(w, "lockAttempt"))
     \/ ~EvidenceFits(w) /\ Refuse(w, "evidence")

ConfirmSession(w) ==
  LET a == job[w].attempt
      o == job[w].order
      recorded == transactions[job[w].key]
      received == IF job[w].amount = 0 THEN recorded.amount ELSE job[w].amount
      Fits(acceptMismatch) ==
        /\ job[w].amount = 0 => recorded.attempt \in {Null, a}
        /\ AmountAccepted(o, received, acceptMismatch)
      evidence == [status |-> "MANUALLY_CONFIRMED", attempt |-> a, amount |-> received]
  IN  /\ job[w].handler = "confirm"
      /\ \E acceptMismatch \in BOOLEAN :
           \/ /\ Fits(acceptMismatch)
              /\ Statement(w, "lockAttempt",
                   [job[w] EXCEPT !.step = "cancelPending",
                                  !.orders = Only(o, MarkOrderPaid(o)[o]),
                                  !.attempts = Only(a, [attempts[a] EXCEPT !.status = "PAID"]),
                                  !.transactions = Only(job[w].key, evidence)])
           \/ ~Fits(acceptMismatch) /\ Refuse(w, "lockAttempt")

\* The evidence is saved: an UPDATE of the row it locked, or an INSERT.
Keep(w) ==
  /\ job[w].step = "keep"
  /\ \/ EvidenceFits(w) /\ Statement(w, "keep", To(w, "commit"))
     \/ ~EvidenceFits(w) /\ Refuse(w, "keep")

-----------------------------------------------------------------------------
(* Sessions, cancellation and the expiry job *)

StartQr(w, o, handler) ==
  /\ job[w] = Idle
  /\ job' = [job EXCEPT ![w] = Request(handler, "lockOrder", o, Null, NoKey, 0)]
  /\ UNCHANGED <<vars, transfers, acknowledged, owner, failures>>

\* createQr hands a session that is still valid out again, and is done.
Look(w) ==
  LET pending == PendingAttempts(job[w].order)
      valid == job[w].handler = "createQr" /\ \E a \in pending : ~attempts[a].overdue
  IN  \/ /\ ~valid
         /\ Statement(w, "look", [job[w] EXCEPT !.sessions = pending,
                                    !.step = IF pending = {} THEN "issue" ELSE "expire"])
      \/ valid /\ Refuse(w, "look")

StartCancel(w, o) ==
  /\ job[w] = Idle
  /\ job' = [job EXCEPT ![w] = Request("cancel", "lockOrder", o, Null, NoKey, 0)]
  /\ UNCHANGED <<vars, transfers, acknowledged, owner, failures>>

\* The rows that the UPDATE of the expiry job starts with.
StartExpiry(w) ==
  /\ job[w] = Idle
  /\ Expirable # {}
  /\ job' = [job EXCEPT ![w] =
       [Request("expiry", "expire", NoOrder, Null, NoKey, 0)
          EXCEPT !.sessions = Expirable]]
  /\ UNCHANGED <<vars, transfers, acknowledged, owner, failures>>

\* One row is locked and, if it is still pending then, expired.
Expire(w) ==
  LET a == Min(job[w].sessions)
      rest == job[w].sessions \ {a}
      expired == [attempts[a] EXCEPT !.status = "EXPIRED",
                                     !.overdue = @ \/ job[w].handler = "createQrAdmin"]
      written == IF attempts[a].status = "PENDING" THEN Only(a, expired) ELSE Nothing
  IN  Statement(w, "expire",
        [job[w] EXCEPT !.sessions = rest,
                       !.attempts = Over(written, @),
                       !.step = IF rest # {} THEN "expire"
                                ELSE IF job[w].handler = "expiry" THEN "commit" ELSE "issue"])

-----------------------------------------------------------------------------
(* Statements that several handlers share *)

\* The check that follows the lock on the order.
Allowed(w) ==
  CASE job[w].handler = "webhook" -> TRUE
    [] job[w].handler = "cancel" ->
         orders[job[w].order] = [status |-> "pending", paymentStatus |-> "unpaid"]
    [] OTHER -> Payable(job[w].order)

AfterOrder(w) ==
  CASE job[w].handler = "webhook" -> To(w, "lockAttempt")
    [] job[w].handler = "confirm" -> To(w, "evidence")
    [] job[w].handler = "cancel" ->
         LET o == job[w].order
         IN  [job[w] EXCEPT !.step = "cancelPending",
                            !.orders = Only(o, [orders[o] EXCEPT !.status = "cancelled"])]
    [] OTHER -> To(w, "look")

LockOrder(w) ==
  /\ job[w].step = "lockOrder"
  /\ \/ Allowed(w) /\ Statement(w, "lockOrder", AfterOrder(w))
     \/ ~Allowed(w) /\ Refuse(w, "lockOrder")

\* cancelPendingAttempts, and the same UPDATE in applyOrderPaid.
CancelPending(w) ==
  LET pending == PendingSeen(w)
      cancelled == [a \in pending |-> [attempts[a] EXCEPT !.status = "CANCELLED"]]
  IN  Statement(w, "cancelPending",
        [job[w] EXCEPT
           !.attempts = Over(cancelled, @),
           !.step = IF job[w].handler = "confirm" THEN "keep" ELSE "commit"])

Ends(w) ==
  /\ orders' = Over(job[w].orders, orders)
  /\ transactions' = Over(job[w].transactions, transactions)
  /\ owner' = Released(w)
  /\ job' = [job EXCEPT ![w] = Idle]
  /\ UNCHANGED <<refunds, returns, account, transfers, failures>>

Commit(w) ==
  /\ job[w] # Idle
  /\ job[w].step = "commit"
  /\ attempts' = Over(job[w].attempts, attempts)
  /\ acknowledged' = acknowledged \cup (IF job[w].handler = "webhook" THEN {job[w].key[2]} ELSE {})
  /\ Ends(w)

\* insertAttempt and the commit that follows at once.  toPayableAmount refuses a
\* total of zero; MaxAttempts is a bound of the model.
Issue(w) ==
  LET o == job[w].order
      Fits(a) == IsNextAttempt(a) /\ Total[o] > 0
  IN  /\ job[w].step = "issue"
      /\ \/ /\ \E a \in AttemptId :
                 Fits(a) /\ attempts' = Over(Only(a, NewAttempt(o)), Over(job[w].attempts, attempts))
            /\ UNCHANGED acknowledged
            /\ Ends(w)
         \/ /\ \A a \in AttemptId : ~Fits(a)
            /\ Refuse(w, "issue")

-----------------------------------------------------------------------------
(* What else happens *)

\* The bank reports a transfer, whose content names a session or none.
BankTransfer(ref, a, amount) ==
  /\ transfers[ref] = NoTransfer
  /\ a # Null => attempts[a].status # "NONE"
  /\ transfers' = [transfers EXCEPT ![ref] = [attempt |-> a, amount |-> amount]]
  /\ UNCHANGED <<vars, acknowledged, owner, job, failures>>

\* A session whose row is locked has its expires_at judged by the transaction
\* that locked it; if it passes before the commit, that counts as after it.
SessionOverdue(a) ==
  /\ owner[<<"attempt", a>>] = NoWorker
  /\ PassExpiry(a)
  /\ UNCHANGED <<transfers, acknowledged, owner, job, failures>>

\* Mutant of AbortDeadlock: the webhook takes every error for a duplicate.
AbortAndAcknowledge(w) ==
  /\ \E circle \in SUBSET Workers : w \in circle /\ Deadlocked(circle)
  /\ Rollback(w)
  /\ acknowledged' = acknowledged \cup (IF job[w].handler = "webhook" THEN {job[w].key[2]} ELSE {})
  /\ UNCHANGED failures

\* Postgres aborts one transaction of a circle; the webhook then answers with an
\* error, because only a violation of the unique key counts as a duplicate.
AbortDeadlock(w) ==
  /\ \E circle \in SUBSET Workers : w \in circle /\ Deadlocked(circle)
  /\ Rollback(w)
  /\ UNCHANGED <<acknowledged, failures>>

\* The connection breaks, or the server dies: the transaction is rolled back and
\* a delivery of SePay stays without the answer it needs.
Fail(w) ==
  /\ job[w] # Idle
  /\ failures < MaxFailures
  /\ failures' = failures + 1
  /\ Rollback(w)
  /\ UNCHANGED acknowledged

-----------------------------------------------------------------------------
RaceInit ==
  /\ Init
  /\ transfers = [ref \in Refs |-> NoTransfer]
  /\ acknowledged = {}
  /\ owner = [row \in Rows |-> NoWorker]
  /\ job = [w \in Workers |-> Idle]
  /\ failures = 0

Serve(w) ==
  \/ Check(w) \/ InsertTransaction(w) \/ Duplicate(w) \/ Reconcile(w)
  \/ Evidence(w) \/ ConfirmSession(w) \/ Keep(w)
  \/ Look(w) \/ Expire(w)
  \/ LockOrder(w) \/ CancelPending(w) \/ Commit(w) \/ Issue(w)

Start(w) ==
  \/ \E ref \in Refs : StartWebhook(w, ref)
  \/ \E o \in Orders, a \in AttemptId, key \in Keys, amount \in Amounts \cup {0} :
       StartConfirm(w, o, a, key, amount)
  \/ \E o \in Orders, handler \in {"createQr", "createQrAdmin"} : StartQr(w, o, handler)
  \/ \E o \in Orders : StartCancel(w, o)
  \/ StartExpiry(w)

RaceNext ==
  \/ \E w \in Workers : Serve(w) \/ Start(w) \/ AbortDeadlock(w) \/ Fail(w)
  \/ \E ref \in Refs, a \in {Null} \cup AttemptId, amount \in Amounts : BankTransfer(ref, a, amount)
  \/ \E a \in AttemptId : SessionOverdue(a)

\* Postgres gives a lock to the transaction that waited longest, so one that waits
\* for a lock that comes free again and again gets it; the rest it executes when
\* it can, and it resolves deadlocks.
\* SePay repeats a delivery until it is answered with success, and now and then
\* finds a connection free.
RaceSpec ==
  /\ RaceInit
  /\ [][RaceNext]_raceVars
  /\ \A w \in Workers : SF_raceVars(Serve(w)) /\ WF_raceVars(AbortDeadlock(w))
  /\ \A ref \in Refs :
       SF_raceVars(ref \notin acknowledged /\ \E w \in Workers : StartWebhook(w, ref))

-----------------------------------------------------------------------------
\* The expiry job leaves out what became overdue after it began.
ExpireSome ==
  /\ \E expired \in SUBSET Expirable :
       attempts' = [a \in AttemptId |-> IF a \in expired
                                        THEN [attempts[a] EXCEPT !.status = "EXPIRED"]
                                        ELSE attempts[a]]
  /\ UNCHANGED <<orders, transactions, refunds, returns, account>>

\* Every handler takes effect at once, when it commits, as an action of
\* OrderLifecycle: what it read and checked on the way still holds then.  The job
\* alone may leave out sessions.
AtomicHandlers == [][Next \/ ExpireSome]_vars

\* sepay-webhook.service.ts, at the locks of reconcile: "order, then session, as
\* in createQr, so as not to deadlock".  No transactions wait in a circle.
NoDeadlock == \A circle \in SUBSET Workers : ~Deadlocked(circle)

\* Transactions wait in a circle only when somebody enters a transfer by hand whose
\* key another transaction of the circle holds: a webhook that waits for the order,
\* or one that is about another order.  With one order only the first happens.
DeadlockOnlyByKey ==
  \A circle \in SUBSET Workers : Deadlocked(circle) =>
    \E w, v \in circle : /\ job[v].handler = "confirm" /\ job[v].step = "keep"
                         /\ owner[job[v].key] = w
                         /\ \/ job[w].handler = "webhook" /\ job[w].step = "lockOrder"
                            \/ job[w].order # job[v].order

\* A transfer that SePay reports is recorded in the end, although transactions
\* fail, deadlock and meet other deliveries of the same transfer; unless people
\* enter transfers by hand again and again for ever, and a delivery deadlocks with
\* each of them.
TransferRecorded ==
  \/ []<>(\E w \in Workers : job[w].handler = "confirm")
  \/ \A ref \in Refs :
       transfers[ref] # NoTransfer ~> transactions[<<"sepay", ref>>].status # "NONE"

\* No request waits for a lock for ever.
RequestsEnd == \A w \in Workers : job[w] # Idle ~> job[w] = Idle
=============================================================================
