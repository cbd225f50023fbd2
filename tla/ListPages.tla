------------------------------ MODULE ListPages ------------------------------
(***************************************************************************)
(* The paged lists of the API.  A reader fetches a list page after page    *)
(* while rows enter it (inserted, or changed so that the filters match)    *)
(* and leave it.  A request runs two statements outside any transaction:   *)
(* the rows of the page and their total.  Postgres leaves the order of     *)
(* rows with equal sort values open, and may answer it differently each    *)
(* time, so whether pages cover the list hangs on a second sort key.       *)
(*                                                                         *)
(* A row is its id; rank[r] is the place of its sort value in the order    *)
(* asked for (direction and NULLS LAST included), Out when the filters and *)
(* the search do not match.  What a filter compares is not modelled.       *)
(***************************************************************************)
EXTENDS Naturals, Sequences, FiniteSets

CONSTANTS
  Rows,      \* ids, numbers in the order of the primary key
  Ranks,     \* places of sort values, numbers from 1
  PageSizes  \* limits a reader asks for

ASSUME PageAssumption ==
  /\ Rows \subseteq Nat /\ IsFiniteSet(Rows)
  /\ Ranks \subseteq Nat \ {0} /\ PageSizes \subseteq 1 .. 200

VARIABLES
  rank,   \* the list
  scan,   \* the reading of it
  moved   \* what happened to the list since the reading began

pageVars == <<rank, scan, moved>>

Out == 0
Matching == {r \in Rows : rank[r] # Out}

(* How a list is paged: whether the query orders by the id as well (tie),  *)
(* whether it joins other tables (joins), and whether the total is counted *)
(* before the page is read (first).                                        *)
Paging(tie, joins, first) == [tie |-> tie, joins |-> joins, first |-> first]

ProductsPublic     == Paging(TRUE, TRUE, FALSE)
ProductsAdmin      == Paging(TRUE, TRUE, FALSE)
ReviewsOfProduct   == Paging(TRUE, FALSE, FALSE)
ReviewsAdmin       == Paging(TRUE, TRUE, FALSE)
ReviewsMine        == Paging(TRUE, TRUE, FALSE)
ReviewsPending     == Paging(TRUE, TRUE, FALSE)
OrdersMine         == Paging(FALSE, TRUE, FALSE)
OrdersAdmin        == Paging(FALSE, TRUE, FALSE)
AttemptsAdmin      == Paging(FALSE, TRUE, FALSE)
TransactionsAdmin  == Paging(FALSE, TRUE, FALSE)
RefundsAdmin       == Paging(FALSE, TRUE, FALSE)
ReturnsAdmin       == Paging(FALSE, TRUE, FALSE)
ReturnsMine        == Paging(FALSE, TRUE, FALSE)
CollectionsPublic  == Paging(FALSE, FALSE, FALSE)
CollectionsAdmin   == Paging(FALSE, TRUE, FALSE)
CategoriesPublic   == Paging(FALSE, FALSE, FALSE)
CategoriesAdmin    == Paging(FALSE, TRUE, FALSE)
UsersAdmin         == Paging(FALSE, FALSE, FALSE)
MediaLibrary       == Paging(FALSE, FALSE, TRUE)

Lists == {ProductsPublic, ProductsAdmin, ReviewsOfProduct, ReviewsAdmin,
          ReviewsMine, ReviewsPending, OrdersMine, OrdersAdmin,
          AttemptsAdmin, TransactionsAdmin, RefundsAdmin, ReturnsAdmin,
          ReturnsMine, CollectionsPublic, CollectionsAdmin,
          CategoriesPublic, CategoriesAdmin, UsersAdmin, MediaLibrary}

(* When a query that joins pages with skip and take, TypeORM selects the   *)
(* distinct ids of the page first and appends the id to their order.       *)
OrdersById(list) == list.tie \/ list.joins

(* The row that comes before another, as far as the query decides it.      *)
SortedByKeyOnly(list, r, s) == rank[r] < rank[s]
SortedBefore(list, r, s) ==
  \/ rank[r] < rank[s]
  \/ rank[r] = rank[s] /\ OrdersById(list) /\ r < s

(* The answers Postgres may give to ORDER BY on the matching rows.         *)
Sortings(list) ==
  {order \in [1 .. Cardinality(Matching) -> Matching] :
     \A i, j \in DOMAIN order :
       i < j => order[i] # order[j] /\ ~ SortedBefore(list, order[j], order[i])}

NoScan == [list |-> MediaLibrary, limit |-> 0, page |-> 0, total |-> 0,
           at |-> "idle", read |-> <<>>, before |-> {}]

Page(order, page, limit) ==
  SubSeq(order, (page - 1) * limit + 1,
         IF page * limit < Len(order) THEN page * limit ELSE Len(order))
Pages(total, limit) == (total + limit - 1) \div limit

PageInit ==
  /\ rank = [r \in Rows |-> Out]
  /\ scan = NoScan /\ moved = {}

OpenList(list, limit) ==
  /\ scan.at = "idle"
  /\ scan' = [NoScan EXCEPT !.list = list, !.limit = limit, !.page = 1,
                            !.at = IF list.first THEN "count" ELSE "rows",
                            !.before = Matching]
  /\ moved' = {}
  /\ UNCHANGED rank

(* The answer goes out after the second statement; the reader asks for the *)
(* next page while the last answer says that there is one.                 *)
Answered(s) ==
  IF s.page < Pages(s.total, s.limit)
    THEN [s EXCEPT !.page = @ + 1, !.at = IF s.list.first THEN "count" ELSE "rows"]
    ELSE [s EXCEPT !.at = "done"]

ReadRows ==
  /\ scan.at = "rows"
  /\ \E order \in Sortings(scan.list) :
       LET s == [scan EXCEPT !.read = @ \o Page(order, scan.page, scan.limit)]
       IN  scan' = IF s.list.first THEN Answered(s) ELSE [s EXCEPT !.at = "count"]
  /\ UNCHANGED <<rank, moved>>

CountRows ==
  /\ scan.at = "count"
  /\ LET s == [scan EXCEPT !.total = Cardinality(Matching)]
     IN  scan' = IF s.list.first THEN [s EXCEPT !.at = "rows"] ELSE Answered(s)
  /\ UNCHANGED <<rank, moved>>

CloseList ==
  /\ scan.at = "done"
  /\ scan' = NoScan /\ moved' = {}
  /\ UNCHANGED rank

(* A change of the sort value is a row leaving and entering again.         *)
Enter(r, k) ==
  /\ rank[r] = Out
  /\ rank' = [rank EXCEPT ![r] = k]
  /\ moved' = IF scan.at = "idle" THEN moved ELSE moved \union {"entered"}
  /\ UNCHANGED scan

Leave(r) ==
  /\ rank[r] # Out
  /\ rank' = [rank EXCEPT ![r] = Out]
  /\ moved' = IF scan.at = "idle" THEN moved ELSE moved \union {"left"}
  /\ UNCHANGED scan

PageNext ==
  \/ \E list \in Lists, limit \in PageSizes : OpenList(list, limit)
  \/ ReadRows \/ CountRows \/ CloseList
  \/ \E r \in Rows : Leave(r) \/ \E k \in Ranks : Enter(r, k)

PageSpec == PageInit /\ [][PageNext]_pageVars

-----------------------------------------------------------------------------
SeenOnce == \A i, j \in DOMAIN scan.read : scan.read[i] = scan.read[j] => i = j
SeenRows == {scan.read[i] : i \in DOMAIN scan.read}

(* Reading a list to its end (pagination.util, typeormListQuery and the    *)
(* query of each list).  Where the query or its join orders by the id:     *)
(* with nothing moved meanwhile every row is read exactly once and the     *)
(* total is their number; rows leaving never make one appear twice; rows   *)
(* entering never hide one, except from the list that counts first.  The   *)
(* other lists cover their rows only while the sort values differ.         *)
PagesCover ==
  scan.at = "done" =>
    LET decided == \/ OrdersById(scan.list)
                   \/ \A r, s \in Matching : rank[r] = rank[s] => r = s
    IN  /\ moved = {} /\ decided =>
             SeenOnce /\ SeenRows = Matching /\ scan.total = Len(scan.read)
        /\ moved = {"left"} /\ OrdersById(scan.list) => SeenOnce
        /\ moved = {"entered"} /\ OrdersById(scan.list) /\ ~ scan.list.first =>
             scan.before \subseteq SeenRows
=============================================================================
