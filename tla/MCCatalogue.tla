----------------------------- MODULE MCCatalogue -----------------------------
(***************************************************************************)
(* What the shop offers and shows: the components around products, which   *)
(* share no table with each other in these models, and the paged lists.  A *)
(* behaviour is one of any of them; two connections work at the same time. *)
(***************************************************************************)
EXTENDS CategoryOrder, ProductReviews, ProductShelf, ProductLists, MediaStore, ListPages, TLC

VARIABLE served   \* the component whose behaviour this is

vars == <<served, categoryVars, reviewVars, shelfVars, listVars, mediaVars, pageVars>>

-----------------------------------------------------------------------------
MCParentOf == [s \in SubCategories |-> IF s = "jeans" THEN "trousers" ELSE "tops"]

\* The connections are alike, and so are the lines that are reviewed.
MCSymmetry == Permutations(Workers) \cup Permutations(Items)

MCInit ==
  /\ served \in {"categories", "reviews", "shelf", "lists", "media", "pages"}
  /\ CategoryInit /\ ReviewInit /\ ShelfInit /\ ListInit /\ MediaInit /\ PageInit

\* Only the component that is served changes.
Serves(component) ==
  /\ served = component /\ UNCHANGED served
  /\ component # "categories" => UNCHANGED categoryVars
  /\ component # "reviews" => UNCHANGED reviewVars
  /\ component # "shelf" => UNCHANGED shelfVars
  /\ component # "lists" => UNCHANGED listVars
  /\ component # "media" => UNCHANGED mediaVars
  /\ component # "pages" => UNCHANGED pageVars

MCNext ==
  \/ Serves("categories") /\ CategoryNext
  \/ Serves("reviews") /\ ReviewNext
  \/ Serves("shelf") /\ ShelfNext
  \/ Serves("lists") /\ ListNext
  \/ Serves("media") /\ MediaNext
  \/ Serves("pages") /\ PageNext

MCSpec == MCInit /\ [][MCNext]_vars
=============================================================================
