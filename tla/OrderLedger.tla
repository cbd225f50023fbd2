---------------------------- MODULE OrderLedger ----------------------------
(***************************************************************************)
(* What the shop's books promise about the money of an order, whatever the *)
(* tables behind them look like.  Money comes in once, for an order that   *)
(* was not given up; it only goes back to the customer, and never more of  *)
(* it than came in; the entry is settled as soon as all of it went back.   *)
(***************************************************************************)
EXTENDS Naturals

CONSTANTS
  Orders,
  Amounts   \* the sums of money a transfer may carry

VARIABLES
  phase,      \* phase[o]: open, void, sold, owed (cancelled, money kept), settled
  collected,  \* collected[o]: money received for o
  returned    \* returned[o]: money given back

books == <<phase, collected, returned>>

Init ==
  /\ phase = [o \in Orders |-> "open"]
  /\ collected = [o \in Orders |-> 0]
  /\ returned = [o \in Orders |-> 0]

\* The customer, or the shop, gives up an order that nobody paid.
Void(o) ==
  /\ phase[o] = "open"
  /\ phase' = [phase EXCEPT ![o] = "void"]
  /\ UNCHANGED <<collected, returned>>

\* One transfer pays the order.  Its sum may be wrong, but somebody accepted it.
Collect(o) ==
  /\ phase[o] = "open"
  /\ \E amount \in Amounts :
       /\ phase' = [phase EXCEPT ![o] = "sold"]
       /\ collected' = [collected EXCEPT ![o] = amount]
  /\ UNCHANGED returned

\* The shop cancels a paid order and owes the customer what it kept.
Owe(o) ==
  /\ phase[o] = "sold"
  /\ returned[o] < collected[o]
  /\ phase' = [phase EXCEPT ![o] = "owed"]
  /\ UNCHANGED <<collected, returned>>

\* Money goes back, for the whole order or for pieces that were sent back.
GiveBack(o) ==
  /\ phase[o] \in {"sold", "owed"}
  /\ \E amount \in 1 .. (collected[o] - returned[o]) :
       /\ returned' = [returned EXCEPT ![o] = @ + amount]
       /\ phase' = IF returned[o] + amount = collected[o]
                   THEN [phase EXCEPT ![o] = "settled"] ELSE phase
  /\ UNCHANGED collected

Next == \E o \in Orders : Void(o) \/ Collect(o) \/ Owe(o) \/ GiveBack(o)

Spec == Init /\ [][Next]_books
=============================================================================
