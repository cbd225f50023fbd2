----------------------------- MODULE RateLimit -----------------------------
(***************************************************************************)
(* The counters of requests for one route and one caller.  All instances   *)
(* of the API count in Redis, in windows that begin with their first       *)
(* request; while Redis does not answer, each instance counts by itself.   *)
(***************************************************************************)
EXTENDS Naturals, Functions

CONSTANTS
  Instances,  \* processes of the API
  Redis,      \* the name of the shared store
  Limit,      \* requests per window
  Window      \* the length of a window, in ticks of the model's clock

VARIABLES
  counter,    \* the counter in Redis: its hits, and the ticks until it expires
  reachable,  \* does Redis answer?
  admitted,   \* admitted[s][n]: requests store s let pass, n - 1 ticks ago
  lost        \* ticks for which a loss of the counters of Redis has consequences

rateVars == <<counter, reachable, admitted, lost>>

ASSUME RateAssumption ==
  Limit \in Nat \ {0} /\ Window \in Nat \ {0} /\ Redis \notin Instances

-----------------------------------------------------------------------------
Stores == Instances \cup {Redis}
NoCounter == [hits |-> 0, ttl |-> 0]

\* The requests store s let pass in the last window's length.
Recent(s) == SumFunctionOnSet(admitted[s], 1 .. Window)

LetPass(s, passes) ==
  admitted' = IF passes THEN [admitted EXCEPT ![s][1] = @ + 1] ELSE admitted

\* Mutant of Counted: the expiry of a new counter is set by a second call, which is
\* lost when the instance stops between the two.
CountedOnly ==
  counter' \in {[hits |-> counter.hits + 1, ttl |-> IF counter.hits = 0 THEN ttl ELSE counter.ttl] :
                  ttl \in {0, Window}}

\* INCR_WITH_TTL: the first hit of a counter sets its expiry, in one step.  What
\* exceeds the limit need not be told apart.
Counted ==
  counter' = IF counter.hits > Limit THEN counter
             ELSE [hits |-> counter.hits + 1,
                   ttl |-> IF counter.hits = 0 THEN Window ELSE counter.ttl]

-----------------------------------------------------------------------------
\* A request is counted by Redis; it passes up to the limit.
CountInRedis ==
  /\ reachable
  /\ Counted
  /\ LetPass(Redis, counter.hits < Limit)
  /\ UNCHANGED <<reachable, lost>>

\* Redis does not answer, or its answer is lost after it counted: the instance counts
\* the hits of the last window itself.
CountInMemory(i) ==
  /\ \/ ~reachable /\ UNCHANGED counter
     \/ reachable /\ Counted
  /\ LetPass(i, Recent(i) < Limit)
  /\ UNCHANGED <<reachable, lost>>

ConnectionChanges ==
  /\ reachable' = ~reachable
  /\ UNCHANGED <<counter, admitted, lost>>

\* Redis starts again without its data.
RedisForgets ==
  /\ counter' = NoCounter
  /\ lost' = Window
  /\ UNCHANGED <<reachable, admitted>>

\* Time goes on: a counter expires with all its hits.
ClockTicks ==
  /\ counter' = IF counter.ttl > 1 THEN [counter EXCEPT !.ttl = @ - 1]
                ELSE IF counter.ttl = 1 THEN NoCounter ELSE counter
  /\ admitted' = [s \in Stores |-> [n \in 1 .. Window |-> IF n = 1 THEN 0 ELSE admitted[s][n - 1]]]
  /\ lost' = IF lost > 0 THEN lost - 1 ELSE 0
  /\ UNCHANGED reachable

-----------------------------------------------------------------------------
RateInit ==
  /\ counter = NoCounter
  /\ reachable = TRUE
  /\ admitted = [s \in Stores |-> [n \in 1 .. Window |-> 0]]
  /\ lost = 0

RateNext ==
  \/ CountInRedis
  \/ \E i \in Instances : CountInMemory(i)
  \/ ConnectionChanges
  \/ (lost = 0 /\ RedisForgets)
  \/ ClockTicks

RateSpec == RateInit /\ [][RateNext]_rateVars

-----------------------------------------------------------------------------
\* Whoever is refused is admitted again: a counter with hits expires.  And in no span
\* of a window's length do more requests pass than two windows of Redis and one of
\* each instance allow, though Redis comes and goes and its answers are lost, unless
\* Redis lost its counters in that time.
PassesBounded ==
  /\ counter.hits > 0 => counter.ttl > 0
  /\ lost = 0 => Recent(Redis) <= 2 * Limit
  /\ \A i \in Instances : Recent(i) <= Limit
=============================================================================
