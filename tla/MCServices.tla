----------------------------- MODULE MCServices -----------------------------
(***************************************************************************)
(* The components around the customer and the deployment, which share no   *)
(* table with each other in these models: addresses, accounts, the reads   *)
(* of checkout on the connection pool, the rate limit, and the migrations. *)
(* A behaviour is one of any of them; two connections or processes work at *)
(* the same time.                                                          *)
(***************************************************************************)
EXTENDS AddressBook, UserAccounts, CheckoutDesk, RateLimit, SchemaMigrations, TLC

CONSTANTS l1, l2  \* the lines of the cart

VARIABLE served   \* the component whose behaviour this is

vars == <<served, addressVars, userVars, deskVars, rateVars, schemaVars>>

-----------------------------------------------------------------------------
MCAmount == l1 :> 1000000 @@ l2 :> 600000

\* A threshold or none; a method named twice.
MCMethods(second, price) ==
  <<[id |-> "express", price |-> 40000], [id |-> second, price |-> price],
    [id |-> "store-pickup", price |-> 0]>>
MCShipping ==
  {[shape |-> "json", threshold |-> {}, methods |-> MCMethods("standard", 20000)],
   [shape |-> "json", threshold |-> {1000000}, methods |-> MCMethods("express", 20000)]}
MCRates == {[shape |-> "json", vndPerUsd |-> 26000], [shape |-> "json", vndPerUsd |-> 0]}

MCSymmetry == Permutations(Sessions)

\* After a revert that overlapped another process, MigrationsFit claims nothing any more.
MCConstraint == ~overlapped

-----------------------------------------------------------------------------
MCInit ==
  /\ served \in {"addresses", "users", "desk", "rate", "schema"}
  /\ AddressInit /\ UserInit /\ DeskInit /\ RateInit /\ SchemaInit

\* Only the component that is served changes.
Serves(component) ==
  /\ served = component /\ UNCHANGED served
  /\ component # "addresses" => UNCHANGED addressVars
  /\ component # "users" => UNCHANGED userVars
  /\ component # "desk" => UNCHANGED deskVars
  /\ component # "rate" => UNCHANGED rateVars
  /\ component # "schema" => UNCHANGED schemaVars

MCNext ==
  \/ Serves("addresses") /\ AddressNext
  \/ Serves("users") /\ UserNext
  \/ Serves("desk") /\ DeskNext
  \/ Serves("rate") /\ RateNext
  \/ Serves("schema") /\ SchemaNext

MCSpec == MCInit /\ [][MCNext]_vars
=============================================================================
