--------------------------- MODULE ServicesProofs ---------------------------
(***************************************************************************)
(* The proofs about the components around a customer and the deployment:   *)
(* the default address, the accounts and who may do what with them, the    *)
(* amounts that quotes and checkouts compute on a limited connection pool, *)
(* the rate limit, and the migrations of the schema.                       *)
(***************************************************************************)
EXTENDS AddressBook, UserAccounts, CheckoutDesk, RateLimit, SchemaMigrations,
        SumProofs, FiniteSetTheorems, TLAPS

-----------------------------------------------------------------------------
(* AddressBook *)

\* The proof that a customer has one default address, for any number of
\* addresses and of requests at once.  OneDefault is not inductive: a
\* request that writes a default relies on what it saw before.  The
\* strengthening says what that is: as long as no other request wrote a
\* default since, the only default there may be is the address it writes.

\* The request s may write a default: no other address is one.
Covered(s) ==
  s.step \in {"insert", "save", "write"} /\ s.mark = "default" /\ ~s.overtaken =>
    Defaults \subseteq {s.place}

\* A request that is not idle has an address.
Placed == \A r \in Callers : saving[r].step # "idle" => saving[r].place \in Places

Uncrossed ==
  /\ \A p, q \in Defaults : p = q
  /\ \A r \in Callers : Covered(saving[r])

AddressInv == AddressTypeOK /\ Placed /\ (~crossed => Uncrossed)

-----------------------------------------------------------------------------
LEMMA AddressInitially == AddressInit => AddressInv
<1>1. AddressInit => AddressTypeOK
  <2>1. NoSaving \in [step: {"idle", "insert", "clear", "save", "write"},
                     place: Places \cup {"none"}, mark: Marks, row: Marks, overtaken: BOOLEAN]
    BY DEF NoSaving, Saving, Marks
  <2>2. AddressInit => address \in [Places -> Marks]
    BY DEF AddressInit, Marks
  <2> QED BY <2>1, <2>2 DEF AddressInit, AddressTypeOK
<1>2. AddressInit => Placed /\ Uncrossed
  <2>1. AddressInit => Defaults = {}
    BY DEF AddressInit, Defaults
  <2>2. AddressInit => \A r \in Callers : saving[r] = NoSaving
    BY DEF AddressInit
  <2>3. NoSaving.step = "idle" /\ NoSaving.mark = "none"
    BY DEF NoSaving, Saving
  <2> QED BY <2>1, <2>2, <2>3 DEF Placed, Uncrossed, Covered
<1> QED BY <1>1, <1>2 DEF AddressInv

\* After the others were cleared there is no default at all.
LEMMA ClearedHasNone ==
  ASSUME AddressTypeOK
  PROVE  /\ Cleared \in [Places -> Marks]
         /\ \A p \in Places : Cleared[p] # "default"
BY DEF AddressTypeOK, Cleared, Marks

LEMMA ClearingKeeps ==
  ASSUME AddressTypeOK, address' = Cleared
  PROVE  Uncrossed'
BY ClearedHasNone DEF Uncrossed, Covered, Defaults

\* Writing a mark: a default that the writer saw alone stays alone, and every request
\* on its way is told.
LEMMA WroteKeeps ==
  ASSUME AddressInv, NEW r \in Callers, Wrote(r, saving[r].place, saving[r].mark),
         saving[r].step \in {"insert", "write"}
  PROVE  AddressInv'
<1> DEFINE p == saving[r].place
           mark == saving[r].mark
<1>1. p \in Places /\ mark \in Marks /\ address \in [Places -> Marks]
  BY DEF AddressInv, AddressTypeOK, Placed
<1>2. AddressTypeOK'
  <2>1. address' \in [Places -> Marks]
    BY <1>1 DEF Wrote
  <2>2. \A s \in Callers : saving'[s] \in
          [step: {"idle", "insert", "clear", "save", "write"}, place: Places \cup {"none"},
           mark: Marks, row: Marks, overtaken: BOOLEAN]
    BY DEF AddressInv, AddressTypeOK, Wrote, NoSaving, Saving, Marks
  <2>3. saving' \in [Callers -> [step: {"idle", "insert", "clear", "save", "write"},
           place: Places \cup {"none"}, mark: Marks, row: Marks, overtaken: BOOLEAN]]
    BY <2>2 DEF Wrote
  <2>4. crossed' \in BOOLEAN
    BY DEF Wrote
  <2> QED BY <2>1, <2>3, <2>4 DEF AddressTypeOK
<1>3. Placed'
  BY DEF AddressInv, AddressTypeOK, Placed, Wrote, NoSaving, Saving
<1>4. ASSUME ~crossed' PROVE Uncrossed'
  <2>1. ~crossed /\ Uncrossed
    BY <1>4 DEF AddressInv, Wrote
  <2>2. CASE mark = "default"
    <3>1. ~saving[r].overtaken
      BY <1>4, <2>2 DEF Wrote
    <3>2. Defaults \subseteq {p}
      BY <2>1, <2>2, <3>1 DEF Uncrossed, Covered
    <3>3. Defaults' \subseteq {p}
      BY <1>1, <3>2 DEF Wrote, Defaults
    <3>4. ASSUME NEW s \in Callers PROVE Covered(saving[s])'
      BY <2>2 DEF AddressInv, AddressTypeOK, Wrote, Covered, NoSaving, Saving
    <3> QED BY <3>3, <3>4 DEF Uncrossed
  <2>3. CASE mark # "default"
    <3>1. Defaults' \subseteq Defaults
      BY <1>1, <2>3 DEF Wrote, Defaults
    <3>2. ASSUME NEW s \in Callers PROVE saving'[s] \in {saving[s], NoSaving}
      BY <2>3 DEF Wrote
    <3>3. ASSUME NEW s \in Callers PROVE Covered(saving[s])'
      BY <2>1, <3>1, <3>2 DEF Uncrossed, Covered, NoSaving, Saving
    <3> QED BY <2>1, <3>1, <3>3 DEF Uncrossed
  <2> QED BY <2>2, <2>3
<1> QED BY <1>2, <1>3, <1>4 DEF AddressInv

-----------------------------------------------------------------------------
\* r goes on as request s, and no address changes.
GoesOnAs(r, s) ==
  /\ s \in [step: {"idle", "insert", "clear", "save", "write"}, place: Places \cup {"none"},
            mark: Marks, row: Marks, overtaken: BOOLEAN]
  /\ s.step # "idle" => s.place \in Places
  /\ ~crossed => Covered(s)
  /\ saving' = [saving EXCEPT ![r] = s]
  /\ UNCHANGED <<address, crossed>>

LEMMA GoingOnKeeps ==
  ASSUME AddressInv, NEW r \in Callers, NEW s, GoesOnAs(r, s)
  PROVE  AddressInv'
<1>1. AddressTypeOK' /\ Placed'
  BY DEF AddressInv, AddressTypeOK, Placed, GoesOnAs
<1>2. ASSUME ~crossed' PROVE Uncrossed'
  <2>1. Uncrossed /\ Covered(s) /\ Defaults' = Defaults
    BY <1>2 DEF AddressInv, GoesOnAs, Defaults
  <2>2. ASSUME NEW t \in Callers PROVE Covered(saving[t])'
    BY <2>1 DEF AddressInv, AddressTypeOK, GoesOnAs, Uncrossed, Covered
  <2> QED BY <2>1, <2>2 DEF Uncrossed
<1> QED BY <1>1, <1>2 DEF AddressInv

-----------------------------------------------------------------------------
LEMMA BeginAddressKeeps ==
  ASSUME AddressInv, NEW r \in Callers, NEW p \in Places, NEW asDefault \in BOOLEAN,
         BeginAddress(r, p, asDefault)
  PROVE  AddressInv'
<1>1. CASE asDefault
  <2>1. address' = Cleared /\ crossed' = FALSE
    BY <1>1 DEF BeginAddress
  <2>2. AddressTypeOK' /\ Placed'
    BY <1>1, <2>1, ClearedHasNone DEF AddressInv, AddressTypeOK, Placed, BeginAddress, Saving, Marks
  <2> QED BY <2>1, <2>2, ClearingKeeps DEF AddressInv
<1>2. CASE ~asDefault
  <2>1. GoesOnAs(r, Saving("insert", p, "plain", "none", FALSE))
    BY <1>2 DEF BeginAddress, GoesOnAs, Covered, Saving, Marks
  <2> QED BY <2>1, GoingOnKeeps
<1> QED BY <1>1, <1>2

LEMMA ReadAddressKeeps ==
  ASSUME AddressInv, NEW r \in Callers, NEW p \in Places, NEW mark \in {"plain", "default"},
         ReadAddress(r, p, mark)
  PROVE  AddressInv'
<1>1. ASSUME ~crossed PROVE Covered(Saving("save", p, mark, "none", FALSE))
  <2>1. CASE mark = "default"
    BY <1>1, <2>1 DEF AddressInv, Uncrossed, Covered, Defaults, ReadAddress, Saving
  <2> QED BY <2>1 DEF Covered, Saving
<1>2. GoesOnAs(r, Saving("save", p, mark, "none", FALSE))
  BY <1>1 DEF ReadAddress, GoesOnAs, Saving, Marks
<1> QED BY <1>2, GoingOnKeeps

LEMMA ReadForDefaultKeeps ==
  ASSUME AddressInv, NEW r \in Callers, NEW p \in Places, ReadForDefault(r, p)
  PROVE  AddressInv'
<1>1. GoesOnAs(r, Saving("clear", p, "default", "none", FALSE))
  BY DEF ReadForDefault, GoesOnAs, Covered, Saving, Marks
<1> QED BY <1>1, GoingOnKeeps

LEMMA ClearOthersKeeps ==
  ASSUME AddressInv, NEW r \in Callers, ClearOthers(r)
  PROVE  AddressInv'
<1>1. AddressTypeOK' /\ Placed'
  BY ClearedHasNone DEF AddressInv, AddressTypeOK, Placed, ClearOthers
<1> QED BY <1>1, ClearingKeeps DEF AddressInv, ClearOthers

LEMMA SelectAddressKeeps ==
  ASSUME AddressInv, NEW r \in Callers, SelectAddress(r)
  PROVE  AddressInv'
<1> DEFINE s == [saving[r] EXCEPT !.step = "write", !.row = address[saving[r].place]]
<1>1. saving[r].place \in Places /\ saving[r].step = "save"
  BY DEF AddressInv, Placed, SelectAddress
<1>2. address[saving[r].place] \in Marks
  BY <1>1 DEF AddressInv, AddressTypeOK
<1>3. s \in [step: {"idle", "insert", "clear", "save", "write"}, place: Places \cup {"none"},
             mark: Marks, row: Marks, overtaken: BOOLEAN]
  BY <1>2 DEF AddressInv, AddressTypeOK
<1>4. s.place = saving[r].place /\ s.mark = saving[r].mark /\ s.step = "write"
      /\ s.overtaken = saving[r].overtaken
  BY DEF AddressInv, AddressTypeOK
<1>5. ~crossed => Covered(s)
  BY <1>1, <1>4 DEF AddressInv, Uncrossed, Covered
<1>6. saving' = [saving EXCEPT ![r] = s] /\ UNCHANGED <<address, crossed>>
  BY DEF SelectAddress
<1>7. GoesOnAs(r, s)
  BY <1>1, <1>3, <1>4, <1>5, <1>6 DEF GoesOnAs
<1> QED BY <1>7, GoingOnKeeps

LEMMA IdleKeeps ==
  ASSUME AddressInv, NEW r \in Callers, saving' = [saving EXCEPT ![r] = NoSaving],
         UNCHANGED <<address, crossed>>
  PROVE  AddressInv'
<1>1. GoesOnAs(r, NoSaving)
  BY DEF GoesOnAs, Covered, NoSaving, Saving, Marks
<1> QED BY <1>1, GoingOnKeeps

LEMMA RemoveAddressKeeps ==
  ASSUME AddressInv, NEW p \in Places, RemoveAddress(p)
  PROVE  AddressInv'
<1>1. Defaults' \subseteq Defaults
  BY DEF AddressInv, AddressTypeOK, RemoveAddress, Defaults
<1> QED BY <1>1 DEF AddressInv, AddressTypeOK, Placed, Uncrossed, Covered, RemoveAddress, Marks

-----------------------------------------------------------------------------
\* Every step of every request keeps the invariant.
THEOREM AddressInvariance == AddressSpec => []AddressInv
<1>1. ASSUME AddressInv, [AddressNext]_addressVars PROVE AddressInv'
  <2>1. ASSUME NEW r \in Callers, NEW p \in Places,
               \/ \E asDefault \in BOOLEAN : BeginAddress(r, p, asDefault)
               \/ \E mark \in {"plain", "default"} : ReadAddress(r, p, mark)
               \/ ReadForDefault(r, p)
        PROVE  AddressInv'
    BY <1>1, <2>1, BeginAddressKeeps, ReadAddressKeeps, ReadForDefaultKeeps
  <2>2. ASSUME NEW r \in Callers, InsertAddress(r) PROVE AddressInv'
    BY <1>1, <2>2, WroteKeeps DEF InsertAddress
  <2>3. ASSUME NEW r \in Callers, ClearOthers(r) PROVE AddressInv'
    BY <1>1, <2>3, ClearOthersKeeps
  <2>4. ASSUME NEW r \in Callers, SelectAddress(r) PROVE AddressInv'
    BY <1>1, <2>4, SelectAddressKeeps
  <2>5. ASSUME NEW r \in Callers, UpdateAddress(r) PROVE AddressInv'
    BY <1>1, <2>5, WroteKeeps, IdleKeeps DEF UpdateAddress
  <2>6. ASSUME NEW r \in Callers, LoseRequest(r) PROVE AddressInv'
    BY <1>1, <2>6, IdleKeeps DEF LoseRequest
  <2>7. ASSUME NEW p \in Places, RemoveAddress(p) PROVE AddressInv'
    BY <1>1, <2>7, RemoveAddressKeeps
  <2>8. CASE UNCHANGED addressVars
    BY <1>1, <2>8 DEF addressVars, AddressInv, AddressTypeOK, Placed, Uncrossed, Covered, Defaults
  <2> QED BY <1>1, <2>1, <2>2, <2>3, <2>4, <2>5, <2>6, <2>7, <2>8 DEF AddressNext
<1> QED BY <1>1, AddressInitially, PTL DEF AddressSpec

\* A customer has one default address at most, however many requests overlap or break
\* off in clearDefault, create, update and remove, until one of them writes a default
\* over another that it has not seen.
THEOREM OneDefaultAddress == AddressSpec => []OneDefault
<1>1. AddressInv => OneDefault
  BY DEF AddressInv, Uncrossed, OneDefault
<1> QED BY <1>1, AddressInvariance, PTL

-----------------------------------------------------------------------------
(* UserAccounts *)

\* A request holds an account that is to be saved.
ToSave(v) == v.step \in {"profile", "save", "write", "token"}

\* It has the parts of a request; the columns in memory come from an account.
VisitShape(v) ==
  /\ DOMAIN v = {"step", "actor", "target", "memory", "outdated"}
  /\ v.step \in {"idle", "signup", "raced", "profile", "admitted", "save", "write", "token"}
  /\ v.actor \in People /\ v.target \in People /\ v.outdated \in BOOLEAN

MemoryFits(memory) ==
  /\ DOMAIN memory \subseteq {"role", "status", "manages"}
  /\ Overlaid(memory, NewAccount) \in Account

\* An account that is saved over the row it was read from: a login has nothing to write
\* but what the row holds already, and an update by the owner no other role or status.
VisitFits(v, rows) ==
  /\ ToSave(v) => rows[v.target] # NoAccount /\ MemoryFits(v.memory)
  /\ v.step = "profile" => v.memory.status = "active"
  /\ ToSave(v) /\ ~v.outdated =>
       \A c \in DOMAIN v.memory :
         \/ v.step \in {"profile", "token"}
         \/ v.actor = v.target /\ c \in {"role", "status"}
         => v.memory[c] = rows[v.target][c]

\* The inductive invariant of the accounts.
UserInv ==
  /\ account \in [People -> Account \cup {NoAccount}]
  /\ visit = [s \in Sessions |-> visit[s]]
  /\ \A s \in Sessions : VisitShape(visit[s]) /\ VisitFits(visit[s], account)
  /\ misplaced \in BOOLEAN /\ resigned \in BOOLEAN
  /\ AdminRemains

-----------------------------------------------------------------------------
\* Columns written over an account make an account.
LEMMA OverlaidType ==
  ASSUME NEW memory, MemoryFits(memory), NEW row \in Account
  PROVE  Overlaid(memory, row) \in Account
<1>1. /\ DOMAIN row = {"role", "status", "manages"}
      /\ DOMAIN NewAccount = {"role", "status", "manages"}
  BY DEF Account, NewAccount
<1> DEFINE new == Overlaid(memory, row)
           base == Overlaid(memory, NewAccount)
<1>2. \A c \in {"role", "status", "manages"} :
        new[c] \in {base[c], row[c]}
  BY <1>1 DEF Overlaid
<1>3. /\ base.role \in {"user", "admin"} /\ base.status \in {"active", "disabled"}
      /\ base.manages \in BOOLEAN
      /\ row.role \in {"user", "admin"} /\ row.status \in {"active", "disabled"}
      /\ row.manages \in BOOLEAN
  BY DEF MemoryFits, Account
<1>4. new = [role |-> new.role, status |-> new.status, manages |-> new.manages]
  BY <1>1 DEF Overlaid
<1> HIDE DEF new, base
<1>5. new.role \in {"user", "admin"} /\ new.status \in {"active", "disabled"}
  BY <1>2, <1>3
<1>6. new.manages \in BOOLEAN
  <2>1. new.manages \in {base.manages, row.manages}
    BY <1>2
  <2> QED BY <1>3, <2>1
<1>7. new \in Account
  BY <1>4, <1>5, <1>6 DEF Account
<1> QED BY <1>7 DEF new

\* An account fits in memory, and so does a part of what fits.
LEMMA RowFits ==
  ASSUME NEW row \in Account
  PROVE  MemoryFits(row)
<1>1. DOMAIN row = {"role", "status", "manages"} /\ row = [c \in DOMAIN row |-> row[c]]
  BY DEF Account
<1>2. DOMAIN NewAccount = {"role", "status", "manages"}
  BY DEF NewAccount
<1>3. Overlaid(row, NewAccount) = row
  BY <1>1, <1>2 DEF Overlaid
<1> QED BY <1>1, <1>3 DEF MemoryFits

\* A column of an account that a request laid over another account is a column of an account.
LEMMA PartFits ==
  ASSUME NEW memory, MemoryFits(memory), NEW C \in SUBSET DOMAIN memory
  PROVE  MemoryFits([c \in C |-> memory[c]])
<1> DEFINE part == [c \in C |-> memory[c]]
           new == Overlaid(part, NewAccount)
           base == Overlaid(memory, NewAccount)
<1>1. DOMAIN part = C /\ DOMAIN NewAccount = {"role", "status", "manages"}
  BY DEF NewAccount
<1>2. \A c \in {"role", "status", "manages"} :
        new[c] \in {base[c], NewAccount[c]}
  BY <1>1 DEF Overlaid
<1>3. /\ base.role \in {"user", "admin"} /\ base.status \in {"active", "disabled"}
      /\ base.manages \in BOOLEAN
  BY DEF MemoryFits, Account
<1>4. new = [role |-> new.role, status |-> new.status, manages |-> new.manages]
  BY <1>1 DEF Overlaid
<1>5. /\ NewAccount.role \in {"user", "admin"} /\ NewAccount.status \in {"active", "disabled"}
      /\ NewAccount.manages \in BOOLEAN
  BY DEF NewAccount
<1> HIDE DEF new, base
<1>6. new.role \in {"user", "admin"} /\ new.status \in {"active", "disabled"}
  BY <1>2, <1>3, <1>5
<1>7. new.manages \in BOOLEAN
  <2>1. new.manages \in {base.manages, NewAccount.manages}
    BY <1>2
  <2> QED BY <1>3, <1>5, <2>1
<1>8. new \in Account
  BY <1>4, <1>6, <1>7 DEF Account
<1> QED BY <1>1, <1>8 DEF new, MemoryFits

\* What a request writes to a row: what it holds in memory.
LEMMA OverlaidColumns ==
  ASSUME NEW memory, NEW row \in Account
  PROVE  /\ \A c \in {"role", "status", "manages"} :
              Overlaid(memory, row)[c] = IF c \in DOMAIN memory THEN memory[c] ELSE row[c]
         /\ (\A c \in DOMAIN memory : memory[c] = row[c]) => Overlaid(memory, row) = row
<1>1. DOMAIN row = {"role", "status", "manages"} /\ row = [c \in DOMAIN row |-> row[c]]
  BY DEF Account
<1> QED BY <1>1 DEF Overlaid

-----------------------------------------------------------------------------
\* A request goes on and touches no account.
LEMMA GoingKeeps ==
  ASSUME UserInv, NEW s \in Sessions, NEW new, Goes(s, new), VisitShape(new),
         VisitFits(new, account)
  PROVE  UserInv'
<1>1. /\ visit' = [visit EXCEPT ![s] = new]
      /\ UNCHANGED <<account, misplaced, resigned>>
  BY DEF Goes
<1>2. /\ visit' = [x \in Sessions |-> visit'[x]]
      /\ \A x \in Sessions : visit'[x] = IF x = s THEN new ELSE visit[x]
  BY <1>1 DEF UserInv
<1>3. \A x \in Sessions : VisitShape(visit'[x]) /\ VisitFits(visit'[x], account)
  BY <1>2 DEF UserInv
<1>4. \A x \in Sessions : VisitShape(visit[x])' /\ VisitFits(visit[x], account)'
  BY <1>1, <1>3 DEF VisitShape, VisitFits, ToSave
<1>5. AdminRemains'
  BY <1>1 DEF UserInv, AdminRemains, MayUpdate, Active
<1> QED BY <1>1, <1>2, <1>4, <1>5 DEF UserInv

\* A request that holds nothing to be saved.
LEMMA NotSaving ==
  ASSUME NEW step \in {"idle", "signup", "raced", "admitted"}, NEW actor \in People,
         NEW target \in People, NEW memory, NEW rows
  PROVE  /\ VisitShape(Visit(step, actor, target, memory))
         /\ VisitFits(Visit(step, actor, target, memory), rows)
BY DEF Visit, VisitShape, VisitFits, ToSave

\* An idle request holds nothing that could be written.
LEMMA NoVisitFits == VisitShape(NoVisit) /\ VisitFits(NoVisit, account)
BY UserAssumption, NotSaving DEF NoVisit

\* A login that holds the account as it is.
LEMMA ProfileFits ==
  ASSUME UserInv, NEW p \in People, Active(p)
  PROVE  /\ VisitShape(Visit("profile", p, p, account[p]))
         /\ VisitFits(Visit("profile", p, p, account[p]), account)
<1> DEFINE v == Visit("profile", p, p, account[p])
<1>1. /\ v.step = "profile" /\ v.actor = p /\ v.target = p /\ v.memory = account[p]
      /\ v.outdated = FALSE /\ VisitShape(v)
  BY DEF Visit, VisitShape
<1>2. account[p] \in Account /\ account[p].status = "active" /\ account[p] # NoAccount
  BY DEF UserInv, Active, NoAccount
<1>3. MemoryFits(v.memory)
  BY <1>1, <1>2, RowFits
<1> HIDE DEF v
<1>4. VisitFits(v, account)
  BY <1>1, <1>2, <1>3 DEF VisitFits
<1> QED BY <1>1, <1>4 DEF v

\* The lookups of a login.
LEMMA LookupKeeps ==
  ASSUME UserInv, NEW s \in Sessions,
         (\E p \in People : FindByEmail(s, p)) \/ FindAfterRace(s)
  PROVE  UserInv'
<1>1. ASSUME NEW p \in People, FindByEmail(s, p)
      PROVE  UserInv'
  BY <1>1, NotSaving, ProfileFits, NoVisitFits, GoingKeeps DEF FindByEmail
<1>2. CASE FindAfterRace(s)
  <2>1. visit[s].target \in People
    BY DEF UserInv, VisitShape
  <2> QED BY <1>2, <2>1, ProfileFits, NoVisitFits, GoingKeeps DEF FindAfterRace
<1> QED BY <1>1, <1>2

\* A new account, or the discovery that another login created it.
LEMMA SigningUpKeeps ==
  ASSUME UserInv, NEW s \in Sessions, SignUp(s)
  PROVE  UserInv'
<1> DEFINE v == visit[s]
           p == v.target
<1>1. VisitShape(v) /\ v.step = "signup" /\ p \in People
  BY DEF SignUp, UserInv, VisitShape
<1>2. CASE Goes(s, [v EXCEPT !.step = "raced"])
  <2> DEFINE new == [v EXCEPT !.step = "raced"]
  <2>1. /\ DOMAIN new = DOMAIN v /\ new.step = "raced" /\ new.actor = v.actor
        /\ new.target = v.target /\ new.outdated = v.outdated
    BY <1>1 DEF VisitShape
  <2>2. VisitShape(new) /\ VisitFits(new, account)
    <3> HIDE DEF new
    <3> QED BY <1>1, <2>1 DEF VisitShape, VisitFits, ToSave
  <2> HIDE DEF new
  <2>3. Goes(s, new)
    BY <1>2 DEF new
  <2> QED BY <2>2, <2>3, GoingKeeps
<1>3. CASE /\ account[p] = NoAccount /\ account' = [account EXCEPT ![p] = NewAccount]
           /\ visit' = [visit EXCEPT ![s] = NoVisit] /\ UNCHANGED <<misplaced, resigned>>
  <2>1. account' \in [People -> Account \cup {NoAccount}]
    BY <1>3 DEF UserInv, Account, NewAccount
  <2>2. \A q \in People \ {p} : account'[q] = account[q]
    BY <1>3 DEF UserInv
  <2>3. /\ visit' = [x \in Sessions |-> visit'[x]]
        /\ \A x \in Sessions : visit'[x] = IF x = s THEN NoVisit ELSE visit[x]
    BY <1>3 DEF UserInv
  <2>4. ASSUME NEW x \in Sessions
        PROVE  VisitShape(visit'[x]) /\ VisitFits(visit'[x], account')
    <3>1. CASE x = s
      BY <2>3, <3>1, UserAssumption, NotSaving DEF NoVisit
    <3>2. CASE x # s
      <4>1. VisitShape(visit[x]) /\ VisitFits(visit[x], account) /\ visit'[x] = visit[x]
        BY <2>3, <3>2 DEF UserInv
      <4>2. ToSave(visit[x]) => account'[visit[x].target] = account[visit[x].target]
        BY <1>3, <2>2, <4>1 DEF VisitFits, VisitShape
      <4> QED BY <4>1, <4>2 DEF VisitFits
    <3> QED BY <3>1, <3>2
  <2>5. \A x \in Sessions : VisitShape(visit[x])' /\ VisitFits(visit[x], account)'
    BY <2>4 DEF VisitShape, VisitFits, ToSave
  <2>6. AdminRemains'
    <3>1. ~MayUpdate(p)
      BY <1>3 DEF MayUpdate, Active, NoAccount
    <3>2. \A q \in People \ {p} : MayUpdate(q) => MayUpdate(q)'
      BY <2>2 DEF MayUpdate, Active
    <3> QED BY <1>3, <3>1, <3>2 DEF UserInv, AdminRemains
  <2> QED BY <1>3, <2>1, <2>3, <2>5, <2>6 DEF UserInv
<1> QED BY <1>2, <1>3 DEF SignUp


\* The next stage of a request, part by part.
LEMMA NextStage ==
  ASSUME NEW v, VisitShape(v), NEW step, NEW memory
  PROVE  /\ LET new == [v EXCEPT !.step = step, !.memory = memory]
            IN  /\ DOMAIN new = DOMAIN v /\ new.step = step /\ new.memory = memory
                /\ new.actor = v.actor /\ new.target = v.target /\ new.outdated = v.outdated
         /\ LET new == [v EXCEPT !.step = step, !.outdated = FALSE, !.memory = memory]
            IN  /\ DOMAIN new = DOMAIN v /\ new.step = step /\ new.memory = memory
                /\ new.actor = v.actor /\ new.target = v.target /\ new.outdated = FALSE
BY DEF VisitShape

-----------------------------------------------------------------------------
\* What a request gives a column: its own value, or that of the row.
LEMMA RequestValues ==
  ASSUME NEW request \in UpdateRequest, NEW row \in Account
  PROVE  /\ Provided(request.role, row.role) \in {"user", "admin"}
         /\ Provided(request.status, row.status) \in {"active", "disabled"}
         /\ Provided(request.manages, row.manages) \in BOOLEAN
<1>1. /\ row.role \in {"user", "admin"} /\ row.status \in {"active", "disabled"}
      /\ row.manages \in BOOLEAN
  BY DEF Account
<1>2. /\ request.role \in {{}, {"user"}, {"admin"}}
      /\ request.status \in {{}, {"active"}, {"disabled"}}
      /\ request.manages \in {{}, {TRUE}, {FALSE}}
  BY DEF UpdateRequest, Nothing
<1>3. \A x : (CHOOSE y \in {x} : TRUE) = x
  OBVIOUS
<1>4. Provided(request.role, row.role) \in {"user", "admin"}
  BY <1>1, <1>2, <1>3 DEF Provided
<1>5. Provided(request.status, row.status) \in {"active", "disabled"}
  BY <1>1, <1>2, <1>3 DEF Provided
<1>6. Provided(request.manages, row.manages) \in BOOLEAN
  BY <1>1, <1>2, <1>3, Zenon DEF Provided
<1> QED BY <1>4, <1>5, <1>6

\* The account an update is about is read and changed in memory.
LEMMA FindingKeeps ==
  ASSUME UserInv, NEW s \in Sessions, NEW request \in UpdateRequest, FindAccount(s, request)
  PROVE  UserInv'
<1> DEFINE v == visit[s]
           row == account[v.target]
           memory == [role |-> Provided(request.role, row.role),
                      status |-> Provided(request.status, row.status),
                      manages |-> Provided(request.manages, row.manages)]
           new == [v EXCEPT !.step = "save", !.outdated = FALSE, !.memory = memory]
<1>1. CASE Goes(s, NoVisit)
  BY <1>1, NoVisitFits, GoingKeeps
<1>2. CASE row # NoAccount /\ ~SelfBlocked(s, request) /\ Goes(s, new)
  <2>1. VisitShape(v) /\ row \in Account
    BY <1>2 DEF UserInv, VisitShape
  <2>2. memory \in Account
    <3> HIDE DEF row
    <3> QED BY <2>1, RequestValues DEF Account
  <2>3. MemoryFits(memory)
    <3> HIDE DEF memory
    <3> QED BY <2>2, RowFits
  <2>4. v.actor = v.target => memory.role = row.role /\ memory.status = row.status
    BY <1>2 DEF SelfBlocked, Provided
  <2>5. /\ DOMAIN new = DOMAIN v /\ new.step = "save" /\ new.memory = memory
        /\ new.actor = v.actor /\ new.target = v.target /\ new.outdated = FALSE
    <3> HIDE DEF memory, v
    <3> QED BY <2>1, NextStage
  <2> HIDE DEF memory
  <2>6. VisitShape(new) /\ VisitFits(new, account)
    <3> HIDE DEF new
    <3>1. VisitShape(new)
      BY <2>1, <2>5 DEF VisitShape
    <3>2. \A c \in {"role", "status"} : v.actor = v.target => memory[c] = row[c]
      BY <2>4
    <3>3. VisitFits(new, account)
      BY <1>2, <2>3, <2>5, <3>2 DEF VisitFits, ToSave
    <3> QED BY <3>1, <3>3
  <2>7. Goes(s, new)
    BY <1>2
  <2> HIDE DEF new
  <2> QED BY <2>6, <2>7, GoingKeeps
<1> QED BY <1>1, <1>2 DEF FindAccount

\* The SELECT of save keeps of the columns in memory those that differ from the row.
LEMMA SelectingKeeps ==
  ASSUME UserInv, NEW s \in Sessions, SelectAccount(s)
  PROVE  UserInv'
<1> DEFINE v == visit[s]
           row == account[v.target]
           differing == {c \in DOMAIN v.memory : v.memory[c] # row[c]}
           step == IF v.step = "save" THEN "write" ELSE "token"
           memory == [c \in differing |-> v.memory[c]]
           new == [v EXCEPT !.step = step, !.memory = memory]
<1>1. v.step \in {"profile", "save"} /\ Goes(s, new)
  BY DEF SelectAccount
<1>2. VisitShape(v) /\ VisitFits(v, account)
  BY DEF UserInv
<1>3. row # NoAccount /\ MemoryFits(v.memory)
  BY <1>1, <1>2 DEF VisitFits, ToSave
<1>4. MemoryFits(memory)
  <2>1. differing \subseteq DOMAIN v.memory
    OBVIOUS
  <2> HIDE DEF differing
  <2> QED BY <1>3, <2>1, PartFits
<1>5. \A c \in DOMAIN memory : c \in DOMAIN v.memory /\ memory[c] = v.memory[c] /\ memory[c] # row[c]
  OBVIOUS
<1>6. /\ DOMAIN new = DOMAIN v /\ new.step = step /\ new.memory = memory
      /\ new.actor = v.actor /\ new.target = v.target /\ new.outdated = v.outdated
  <2> HIDE DEF memory, step, v
  <2> QED BY <1>2, NextStage
<1>7. step \in {"write", "token"} /\ (step = "token" <=> v.step = "profile")
  BY <1>1
<1> HIDE DEF memory, step, new
<1>8. VisitShape(new)
  BY <1>2, <1>6, <1>7 DEF VisitShape
<1>9. ToSave(v)
  BY <1>1 DEF ToSave
<1>10. VisitFits(new, account)
  <2>1. ASSUME ~v.outdated, NEW c \in DOMAIN memory,
               step = "token" \/ (v.actor = v.target /\ c \in {"role", "status"})
        PROVE  FALSE
    <3>1. v.memory[c] = row[c]
      BY <1>2, <1>5, <1>7, <1>9, <2>1 DEF VisitFits
    <3> QED BY <1>5, <2>1, <3>1
  <2> QED BY <1>3, <1>4, <1>6, <1>7, <2>1 DEF VisitFits
<1> QED BY <1>1, <1>8, <1>10, GoingKeeps

\* An account that is saved keeps somebody who may update accounts, if the row is the
\* one that was read and the request is still allowed.
LEMMA SavingLeavesAdmin ==
  ASSUME UserInv, NEW s \in Sessions, SaveAccount(s)
  PROVE  AdminRemains'
<1> DEFINE v == visit[s]
           row == account[v.target]
           new == Overlaid(v.memory, row)
<1>1. /\ v.step \in {"write", "token"}
      /\ account' = [account EXCEPT ![v.target] = new]
      /\ misplaced' = (misplaced \/ (new # row /\ (v.outdated \/ (v.step = "write" /\ ~MayUpdate(v.actor)))))
      /\ resigned' = (resigned \/ (v.step = "write" /\ v.actor = v.target /\ row.manages /\ ~new.manages))
  BY DEF SaveAccount
<1>2. VisitShape(v) /\ VisitFits(v, account) /\ ToSave(v) /\ v.target \in People /\ v.actor \in People
  BY <1>1 DEF UserInv, ToSave, VisitShape
<1>3. row \in Account
  BY <1>2 DEF UserInv, VisitFits
<1>4. \A q \in People : account'[q] = IF q = v.target THEN new ELSE account[q]
  BY <1>1 DEF UserInv
<1>5. \A q \in People : q # v.target \/ new = row => (MayUpdate(q) => MayUpdate(q)')
  BY <1>4 DEF MayUpdate, Active
<1> SUFFICES ASSUME ~misplaced', ~resigned' PROVE \E p \in People : MayUpdate(p)'
  BY DEF AdminRemains
<1>6. /\ ~misplaced /\ ~resigned
      /\ new # row => ~v.outdated /\ (v.step = "write" => MayUpdate(v.actor))
      /\ v.step = "write" /\ v.actor = v.target => ~(row.manages /\ ~new.manages)
  <2>1. ~misplaced /\ (new # row => ~v.outdated /\ (v.step = "write" => MayUpdate(v.actor)))
    BY <1>1
  <2>2. ~resigned /\ (v.step = "write" /\ v.actor = v.target => ~(row.manages /\ ~new.manages))
    BY <1>1, Zenon
  <2> QED BY <2>1, <2>2
<1>7. PICK q \in People : MayUpdate(q)
  BY <1>6 DEF UserInv, AdminRemains
<1>8. CASE q # v.target \/ new = row
  BY <1>5, <1>7, <1>8
<1>9. CASE q = v.target /\ new # row
  <2>1. v.step = "write"
    <3>1. v.step = "token" => \A c \in DOMAIN v.memory : v.memory[c] = row[c]
      BY <1>2, <1>6, <1>9 DEF VisitFits
    <3> QED BY <1>1, <1>3, <1>9, <3>1, OverlaidColumns
  <2>2. CASE v.actor # v.target
    BY <1>2, <1>5, <1>6, <1>9, <2>1, <2>2
  <2>3. CASE v.actor = v.target
    <3>1. \A c \in {"role", "status"} : c \in DOMAIN v.memory => v.memory[c] = row[c]
      BY <1>2, <1>6, <1>9, <2>3 DEF VisitFits
    <3>2. \A c \in {"role", "status", "manages"} :
            new[c] = IF c \in DOMAIN v.memory THEN v.memory[c] ELSE row[c]
      BY <1>3, OverlaidColumns
    <3> HIDE DEF new
    <3>3. new.role = row.role /\ new.status = row.status
      BY <3>1, <3>2
    <3>4. row.manages => new.manages
      BY <1>6, <2>1, <2>3, Zenon
    <3>5. account'[v.target] = new /\ MayUpdate(v.target)
      BY <1>2, <1>4, <1>7, <1>9
    <3>6. row.status = "active" /\ (row.role = "admin" \/ row.manages)
      BY <3>5 DEF MayUpdate, Active
    <3>7. new.status = "active" /\ (new.role = "admin" \/ new.manages)
      BY <3>3, <3>4, <3>6, Zenon
    <3>8. Active(q)' /\ (account'[q].role = "admin" \/ account'[q].manages)
      BY <1>9, <3>5, <3>7, Zenon DEF Active
    <3>9. MayUpdate(q)'
      BY <3>8 DEF MayUpdate
    <3> QED BY <3>9
  <2> QED BY <2>2, <2>3
<1> QED BY <1>8, <1>9

\* The UPDATE of save, and what it means to the other requests about the same account.
LEMMA SavingAccountKeeps ==
  ASSUME UserInv, NEW s \in Sessions, SaveAccount(s)
  PROVE  UserInv'
<1> DEFINE v == visit[s]
           row == account[v.target]
           new == Overlaid(v.memory, row)
           Hit(x) == /\ visit[x].target = v.target /\ new # row
                     /\ visit[x].step \in {"profile", "save", "write", "token"}
<1>1. /\ v.step \in {"write", "token"}
      /\ account' = [account EXCEPT ![v.target] = new]
      /\ visit' = [x \in Sessions |->
           IF x = s THEN NoVisit
           ELSE IF Hit(x) THEN [visit[x] EXCEPT !.outdated = TRUE] ELSE visit[x]]
  BY DEF SaveAccount
<1>2. VisitShape(v) /\ VisitFits(v, account) /\ ToSave(v) /\ v.target \in People
  BY <1>1 DEF UserInv, ToSave, VisitShape
<1>3. row \in Account /\ MemoryFits(v.memory)
  BY <1>2 DEF UserInv, VisitFits
<1>4. new \in Account /\ new # NoAccount
  <2>1. new \in Account
    BY <1>3, OverlaidType
  <2> HIDE DEF new
  <2> QED BY <2>1 DEF Account, NoAccount
<1>5. account' \in [People -> Account \cup {NoAccount}]
      /\ \A q \in People : account'[q] = IF q = v.target THEN new ELSE account[q]
  BY <1>1, <1>4 DEF UserInv
<1>6. ASSUME NEW x \in Sessions
      PROVE  VisitShape(visit'[x]) /\ VisitFits(visit'[x], account')
  <2>1. VisitShape(visit[x]) /\ VisitFits(visit[x], account)
    BY DEF UserInv
  <2>2. CASE x = s
    BY <1>1, <2>2, UserAssumption, NotSaving DEF NoVisit
  <2>3. CASE x # s /\ Hit(x)
    <3> DEFINE y == [visit[x] EXCEPT !.outdated = TRUE]
    <3>1. /\ DOMAIN y = DOMAIN visit[x] /\ y.outdated = TRUE
          /\ y.step = visit[x].step /\ y.actor = visit[x].actor /\ y.target = visit[x].target
          /\ y.memory = visit[x].memory
      BY <2>1 DEF VisitShape
    <3>2. visit'[x] = y
      BY <1>1, <2>3
    <3> HIDE DEF y, new
    <3>3. VisitShape(y)
      BY <2>1, <3>1 DEF VisitShape
    <3>4. VisitFits(y, account')
      BY <1>2, <1>4, <1>5, <2>1, <2>3, <3>1 DEF VisitFits, ToSave
    <3> QED BY <3>2, <3>3, <3>4
  <2>4. CASE x # s /\ ~Hit(x)
    <3>1. visit'[x] = visit[x]
      BY <1>1, <2>4
    <3>2. ToSave(visit[x]) => account'[visit[x].target] = account[visit[x].target]
      <4> HIDE DEF new
      <4> QED BY <1>5, <2>1, <2>4 DEF ToSave, VisitShape
    <3>3. VisitFits(visit[x], account')
      BY <2>1, <3>2 DEF VisitFits
    <3> QED BY <2>1, <3>1, <3>3
  <2> QED BY <2>2, <2>3, <2>4
<1>7. \A x \in Sessions : VisitShape(visit[x])' /\ VisitFits(visit[x], account)'
  BY <1>6 DEF VisitShape, VisitFits, ToSave
<1>8. visit' = [x \in Sessions |-> visit'[x]]
  BY <1>1
<1>9. misplaced' \in BOOLEAN /\ resigned' \in BOOLEAN
  BY DEF SaveAccount
<1> QED BY <1>5, <1>7, <1>8, <1>9, SavingLeavesAdmin DEF UserInv

\* Every step keeps the invariant.
LEMMA UserStep == UserInv /\ [UserNext]_userVars => UserInv'
<1> SUFFICES ASSUME UserInv, [UserNext]_userVars PROVE UserInv'
  OBVIOUS
<1>1. ASSUME NEW s \in Sessions, NEW p \in People, FindByEmail(s, p)
      PROVE  UserInv'
  BY <1>1, LookupKeeps
<1>2. ASSUME NEW s \in Sessions, NEW actor \in People, NEW target \in People,
             AdmitUpdate(s, actor, target)
      PROVE  UserInv'
  BY <1>2, NotSaving, GoingKeeps DEF AdmitUpdate
<1>3. ASSUME NEW s \in Sessions, NEW request \in UpdateRequest, FindAccount(s, request)
      PROVE  UserInv'
  BY <1>3, FindingKeeps
<1>4. ASSUME NEW s \in Sessions, SignUp(s)
      PROVE  UserInv'
  BY <1>4, SigningUpKeeps
<1>5. ASSUME NEW s \in Sessions, FindAfterRace(s)
      PROVE  UserInv'
  BY <1>5, LookupKeeps
<1>6. ASSUME NEW s \in Sessions, SelectAccount(s)
      PROVE  UserInv'
  BY <1>6, SelectingKeeps
<1>7. ASSUME NEW s \in Sessions, SaveAccount(s)
      PROVE  UserInv'
  BY <1>7, SavingAccountKeeps
<1>8. CASE UNCHANGED userVars
  <2>1. \A x \in Sessions : VisitShape(visit[x])' /\ VisitFits(visit[x], account)'
    BY <1>8 DEF userVars, UserInv, VisitShape, VisitFits, ToSave
  <2>2. AdminRemains'
    BY <1>8 DEF userVars, UserInv, AdminRemains, MayUpdate, Active
  <2> QED BY <1>8, <2>1, <2>2 DEF userVars, UserInv
<1> QED BY <1>1, <1>2, <1>3, <1>4, <1>5, <1>6, <1>7, <1>8 DEF UserNext

\* At first the founder is the only one with an account.
LEMMA UserStart == UserInit => UserInv
<1> SUFFICES ASSUME UserInit PROVE UserInv
  OBVIOUS
<1>1. account \in [People -> Account \cup {NoAccount}]
  BY DEF UserInit, Account
<1>2. \A s \in Sessions : VisitShape(visit[s]) /\ VisitFits(visit[s], account)
  <2>1. \A s \in Sessions : visit[s] = NoVisit
    BY DEF UserInit
  <2> QED BY <2>1, NoVisitFits
<1>3. AdminRemains
  BY UserAssumption DEF UserInit, AdminRemains, MayUpdate, Active
<1> QED BY <1>1, <1>2, <1>3 DEF UserInit, UserInv

\* The accounts and what requests hold of them fit together in every state.
LEMMA UserInvariance == UserSpec => []UserInv
BY UserStart, UserStep, PTL DEF UserSpec

\* Somebody can always administer the accounts, unless two requests overlapped or somebody
\* gave up the permission: for every number of people and requests.
THEOREM AnAdminRemains == UserSpec => []AdminRemains
<1>1. UserInv => AdminRemains
  BY DEF UserInv
<1> QED BY <1>1, UserInvariance, PTL

\* A login whose account was active when it was read has nothing to write but that, unless
\* the row has changed since.
LEMMA SavesWhatDiffers ==
  ASSUME UserInv, NEW s \in Sessions, SaveAccount(s), NEW p \in People,
         account[p].status = "disabled", account'[p].status = "active"
  PROVE  /\ visit[s].target = p /\ "status" \in DOMAIN visit[s].memory
         /\ visit[s].step = "write" \/ visit[s].outdated
<1> DEFINE v == visit[s]
           row == account[v.target]
           new == Overlaid(v.memory, row)
<1>1. /\ v.step \in {"write", "token"}
      /\ account' = [account EXCEPT ![v.target] = new]
  BY DEF SaveAccount
<1>2. VisitShape(v) /\ VisitFits(v, account) /\ ToSave(v) /\ v.target \in People
  BY <1>1 DEF UserInv, ToSave, VisitShape
<1>3. row \in Account
  BY <1>2 DEF UserInv, VisitFits
<1>4. v.target = p
  BY <1>1 DEF UserInv
<1>5. account'[p] = new /\ new.status = "active" /\ row.status = "disabled"
  BY <1>1, <1>4 DEF UserInv
<1>6. /\ new["status"] = IF "status" \in DOMAIN v.memory THEN v.memory["status"] ELSE row["status"]
      /\ (\A c \in DOMAIN v.memory : v.memory[c] = row[c]) => new = row
  BY <1>3, OverlaidColumns
<1> HIDE DEF new
<1>7. "status" \in DOMAIN v.memory
  BY <1>5, <1>6
<1>8. v.step = "token" => v.outdated
  BY <1>2, <1>5, <1>6 DEF VisitFits, VisitShape
<1> QED BY <1>1, <1>4, <1>7, <1>8

\* A disabled account becomes active only by an update, or by the profile of a login that
\* read it before it was disabled.
THEOREM TheBarredStayOut == UserSpec => BarredStaysOut
<1> DEFINE ActiveProfiles == \A s \in Sessions :
             visit[s].step = "profile" => visit[s].memory.status = "active"
           Step == \A p \in People :
             account[p].status = "disabled" /\ account'[p].status = "active" =>
               \E s \in Sessions :
                 /\ visit[s].target = p
                 /\ "status" \in DOMAIN visit[s].memory
                 /\ visit[s].step = "write" \/ visit[s].outdated
<1>1. UserInv => ActiveProfiles
  BY DEF UserInv, VisitFits
<1>2. UserInv /\ [UserNext]_userVars => [Step]_userVars
  <2> SUFFICES ASSUME UserInv, UserNext, NEW p \in People,
                      account[p].status = "disabled", account'[p].status = "active"
               PROVE  \E s \in Sessions :
                        /\ visit[s].target = p
                        /\ "status" \in DOMAIN visit[s].memory
                        /\ visit[s].step = "write" \/ visit[s].outdated
    OBVIOUS
  <2>1. ASSUME NEW s \in Sessions, SignUp(s)
        PROVE  account'[p] = account[p]
    BY <2>1 DEF SignUp, Goes, NoAccount, UserInv
  <2>2. \/ account' = account
        \/ \E s \in Sessions : SignUp(s) \/ SaveAccount(s)
    BY DEF UserNext, FindByEmail, AdmitUpdate, FindAccount, FindAfterRace, SelectAccount, Goes
  <2> QED BY <2>1, <2>2, SavesWhatDiffers
<1> HIDE DEF ActiveProfiles, Step
<1>3. UserSpec => []ActiveProfiles /\ [][Step]_userVars
  BY <1>1, <1>2, UserInvariance, PTL DEF UserSpec
<1> QED BY <1>3 DEF BarredStaysOut, ActiveProfiles, Step

-----------------------------------------------------------------------------
(* CheckoutDesk *)

\* A request has the parts of a request; a transaction that needs a second connection,
\* or places an order, is about some lines.
DeskShape(v) ==
  /\ DOMAIN v = {"step", "lines", "method", "amount", "rate", "fresh"}
  /\ v.step \in {"shipping", "rate", "place"} => v.lines # {}

\* The amount it computed is right while nothing it depends on changes.
DeskRight(v) ==
  v.fresh =>
    /\ v.step \in {"quoteShipping", "shipping"} => v.amount = Subtotal(v.lines)
    /\ v.step \in {"quoteRate", "rate", "place"} => v.amount = Total(Subtotal(v.lines), v.method)
    /\ v.step = "place" => v.rate = EffectiveRate

QuoteRight ==
  quote.lines # {} =>
    quote.total = Total(Subtotal(quote.lines), quote.method) /\ quote.rate = EffectiveRate

\* The inductive invariant of quotes and checkouts.
DeskInv ==
  /\ desk = [d \in Desks |-> desk[d]]
  /\ \A d \in Desks : DeskShape(desk[d]) /\ DeskRight(desk[d])
  /\ QuoteRight

-----------------------------------------------------------------------------
\* While prices and settings stay, what they amount to stays.
LEMMA SameAmounts ==
  ASSUME UNCHANGED <<offered, shipping, rate>>
  PROVE  /\ \A lines : Subtotal(lines)' = Subtotal(lines)
         /\ \A lines, method :
              Total(Subtotal(lines), method)' = Total(Subtotal(lines), method)
         /\ EffectiveRate' = EffectiveRate
<1>1. \A lines : Subtotal(lines)' = Subtotal(lines)
  BY DEF Subtotal, PriceOf
<1>2. EffectiveShipping' = EffectiveShipping /\ EffectiveRate' = EffectiveRate
  BY DEF EffectiveShipping, EffectiveRate
<1>3. \A lines, method : Total(Subtotal(lines), method)' = Total(Subtotal(lines), method)
  BY <1>1, <1>2 DEF Total
<1> QED BY <1>1, <1>2, <1>3

\* Then the requests are right that were right.
LEMMA StaysRight ==
  ASSUME UNCHANGED <<offered, shipping, rate>>,
         \A d \in Desks : DeskRight(desk'[d])
  PROVE  \A d \in Desks : DeskRight(desk[d])'
BY SameAmounts DEF DeskRight

\* One request goes on.
LEMMA ProceedingKeeps ==
  ASSUME DeskInv, NEW d \in Desks, NEW new, Proceeds(d, new), DeskShape(new), DeskRight(new)
  PROVE  /\ desk' = [x \in Desks |-> desk'[x]]
         /\ \A x \in Desks : DeskShape(desk[x])' /\ DeskRight(desk[x])'
         /\ UNCHANGED quote => DeskInv'
<1>1. /\ desk' = [desk EXCEPT ![d] = new]
      /\ UNCHANGED <<basket, offered, shipping, rate>>
  BY DEF Proceeds
<1>2. /\ desk' = [x \in Desks |-> desk'[x]]
      /\ \A x \in Desks : desk'[x] = IF x = d THEN new ELSE desk[x]
  BY <1>1 DEF DeskInv
<1>3. \A x \in Desks : DeskShape(desk'[x]) /\ DeskRight(desk'[x])
  BY <1>2 DEF DeskInv
<1>4. \A x \in Desks : DeskRight(desk[x])'
  BY <1>1, <1>3, StaysRight
<1>5. \A x \in Desks : DeskShape(desk[x])'
  BY <1>3 DEF DeskShape
<1>6. UNCHANGED quote => QuoteRight'
  BY <1>1, SameAmounts DEF DeskInv, QuoteRight
<1> QED BY <1>2, <1>4, <1>5, <1>6 DEF DeskInv

\* A new request, or none.
LEMMA NewDeskFits ==
  ASSUME NEW step, NEW lines, NEW method, NEW amount, NEW fresh \in BOOLEAN,
         step \in {"shipping", "rate", "place"} => lines # {},
         fresh => step \in {"quoteShipping", "shipping"} /\ amount = Subtotal(lines)
  PROVE  /\ DeskShape(Desk(step, lines, method, amount, fresh))
         /\ DeskRight(Desk(step, lines, method, amount, fresh))
<1> DEFINE v == Desk(step, lines, method, amount, fresh)
<1>1. /\ DOMAIN v = {"step", "lines", "method", "amount", "rate", "fresh"}
      /\ v.step = step /\ v.lines = lines /\ v.method = method /\ v.amount = amount
      /\ v.fresh = fresh
  BY DEF Desk
<1> HIDE DEF v
<1>2. DeskShape(v) /\ DeskRight(v)
  BY <1>1 DEF DeskShape, DeskRight
<1> QED BY <1>2 DEF v

\* An idle request has computed nothing.
LEMMA NoDeskFits == DeskShape(NoDesk) /\ DeskRight(NoDesk)
BY NewDeskFits DEF NoDesk

\* A quote or a checkout begins with the lines it selected, at their prices.
LEMMA BeginningKeeps ==
  ASSUME DeskInv, NEW d \in Desks, NEW ids, NEW method,
         BeginQuote(d, ids, method) \/ BeginCheckout(d, ids, method)
  PROVE  DeskInv'
<1> DEFINE lines == Selected(ids)
<1>1. lines # {}
  BY DEF BeginQuote, BeginCheckout, Orderable
<1>2. PICK step \in {"quoteShipping", "shipping"} :
        Proceeds(d, Desk(step, lines, method, Subtotal(lines), TRUE)) /\ UNCHANGED quote
  BY DEF BeginQuote, BeginCheckout
<1> HIDE DEF lines
<1>3. /\ DeskShape(Desk(step, lines, method, Subtotal(lines), TRUE))
      /\ DeskRight(Desk(step, lines, method, Subtotal(lines), TRUE))
  BY <1>1, NewDeskFits
<1> QED BY <1>2, <1>3, ProceedingKeeps

\* The shipping setting is read, and the total computed.
LEMMA ShippingKeeps ==
  ASSUME DeskInv, NEW d \in Desks, QuoteShipping(d) \/ CheckoutShipping(d)
  PROVE  DeskInv'
<1> DEFINE v == desk[d]
<1>1. PICK step \in {"quoteRate", "rate"} :
        /\ Proceeds(d, [v EXCEPT !.step = step, !.amount = Computed(d)]) /\ UNCHANGED quote
        /\ v.step \in {"quoteShipping", "shipping"}
        /\ step = "rate" => v.step = "shipping"
  BY DEF QuoteShipping, CheckoutShipping
<1> DEFINE new == [v EXCEPT !.step = step, !.amount = Computed(d)]
<1>2. DeskShape(v) /\ DeskRight(v)
  BY DEF DeskInv
<1>3. /\ DOMAIN new = DOMAIN v /\ new.step = step /\ new.amount = Computed(d)
      /\ new.lines = v.lines /\ new.method = v.method /\ new.fresh = v.fresh
  BY <1>2 DEF DeskShape
<1>4. v.fresh => Computed(d) = Total(Subtotal(v.lines), v.method)
  BY <1>1, <1>2 DEF DeskRight, Computed
<1>5. Proceeds(d, new) /\ UNCHANGED quote
  BY <1>1
<1> HIDE DEF new
<1>6. DeskShape(new) /\ DeskRight(new)
  BY <1>1, <1>2, <1>3, <1>4 DEF DeskShape, DeskRight
<1> QED BY <1>5, <1>6, ProceedingKeeps

\* The rate is read: the quote is answered.
LEMMA QuotingKeeps ==
  ASSUME DeskInv, NEW d \in Desks, QuoteRate(d)
  PROVE  DeskInv'
<1> DEFINE v == desk[d]
<1>1. /\ v.step = "quoteRate" /\ Proceeds(d, NoDesk)
      /\ quote' = IF ~v.fresh THEN NoQuote
                  ELSE [lines |-> v.lines, method |-> v.method, total |-> v.amount,
                        rate |-> EffectiveRate]
  BY DEF QuoteRate
<1>2. /\ desk' = [x \in Desks |-> desk'[x]]
      /\ \A x \in Desks : DeskShape(desk[x])' /\ DeskRight(desk[x])'
  BY <1>1, NoDeskFits, ProceedingKeeps
<1>3. UNCHANGED <<offered, shipping, rate>>
  BY <1>1 DEF Proceeds
<1>4. quote'.lines # {} =>
        /\ quote'.total = Total(Subtotal(quote'.lines), quote'.method)
        /\ quote'.rate = EffectiveRate
  <2>1. CASE v.fresh
    BY <1>1, <2>1 DEF DeskInv, DeskRight
  <2>2. CASE ~v.fresh
    BY <1>1, <2>2 DEF NoQuote
  <2> QED BY <2>1, <2>2
<1>5. QuoteRight'
  BY <1>3, <1>4, SameAmounts DEF QuoteRight
<1> QED BY <1>2, <1>5 DEF DeskInv

\* The rate is read: the order can be placed.
LEMMA RatingOrderKeeps ==
  ASSUME DeskInv, NEW d \in Desks, CheckoutRate(d)
  PROVE  DeskInv'
<1> DEFINE v == desk[d]
           r == IF v.fresh THEN EffectiveRate ELSE 0
           new == [v EXCEPT !.step = "place", !.rate = r]
<1>1. v.step = "rate" /\ Proceeds(d, new) /\ UNCHANGED quote
  BY DEF CheckoutRate
<1>2. DeskShape(v) /\ DeskRight(v)
  BY DEF DeskInv
<1>3. /\ DOMAIN new = DOMAIN v /\ new.step = "place" /\ new.amount = v.amount /\ new.rate = r
      /\ new.lines = v.lines /\ new.method = v.method /\ new.fresh = v.fresh
  BY <1>2 DEF DeskShape
<1> HIDE DEF new
<1>4. DeskShape(new) /\ DeskRight(new)
  BY <1>1, <1>2, <1>3 DEF DeskShape, DeskRight
<1> QED BY <1>1, <1>4, ProceedingKeeps

\* A request of another kind, which reads no amounts.
LEMMA OtherKeeps ==
  ASSUME DeskInv, NEW d \in Desks,
         ReadReturnPolicy(d) \/ BeginReturn(d) \/ BeginOther(d) \/ EndTransaction(d)
  PROVE  DeskInv'
<1>1. \A step \in {"policy", "return", "other"} :
        /\ DeskShape(Desk(step, {}, "standard", 0, FALSE))
        /\ DeskRight(Desk(step, {}, "standard", 0, FALSE))
  BY NewDeskFits
<1>2. PICK new : Proceeds(d, new) /\ UNCHANGED quote /\ DeskShape(new) /\ DeskRight(new)
  BY <1>1, NoDeskFits DEF ReadReturnPolicy, BeginReturn, BeginOther, EndTransaction
<1> QED BY <1>2, ProceedingKeeps

\* Requests end or are given up, or only the cart changes.
LEMMA EndingKeeps ==
  ASSUME DeskInv, UNCHANGED <<offered, shipping, rate, quote>>,
         desk' = [x \in Desks |-> desk'[x]],
         \A x \in Desks : desk'[x] \in {desk[x], NoDesk}
  PROVE  DeskInv'
<1>1. \A x \in Desks : DeskShape(desk'[x]) /\ DeskRight(desk'[x])
  BY NoDeskFits DEF DeskInv
<1>2. \A x \in Desks : DeskRight(desk[x])'
  BY <1>1, StaysRight
<1>3. \A x \in Desks : DeskShape(desk[x])'
  BY <1>1 DEF DeskShape
<1>4. QuoteRight'
  BY SameAmounts DEF DeskInv, QuoteRight
<1> QED BY <1>2, <1>3, <1>4 DEF DeskInv

\* A price or a setting changes, and what was computed before is forgotten.
LEMMA ChangedKeeps ==
  ASSUME DeskInv, Changed
  PROVE  DeskInv'
<1>1. /\ desk' = [x \in Desks |-> desk'[x]] /\ quote' = NoQuote
      /\ \A x \in Desks : desk'[x] = Desk(desk[x].step, desk[x].lines, "standard", 0, FALSE)
  BY DEF Changed
<1>2. \A x \in Desks : /\ desk'[x].fresh = FALSE /\ desk'[x].step = desk[x].step
                       /\ desk'[x].lines = desk[x].lines
                       /\ DOMAIN desk'[x] = {"step", "lines", "method", "amount", "rate", "fresh"}
  BY <1>1 DEF Desk
<1>3. \A x \in Desks : DeskShape(desk[x])' /\ DeskRight(desk[x])'
  BY <1>2 DEF DeskInv, DeskShape, DeskRight
<1>4. QuoteRight'
  BY <1>1 DEF QuoteRight, NoQuote
<1> QED BY <1>1, <1>3, <1>4 DEF DeskInv

\* Every step keeps the invariant.
LEMMA DeskStep == DeskInv /\ [DeskNext]_deskVars => DeskInv'
<1> SUFFICES ASSUME DeskInv, [DeskNext]_deskVars PROVE DeskInv'
  OBVIOUS
<1>1. ASSUME NEW d \in Desks, NEW ids \in SUBSET Lines, NEW method \in Asked,
             BeginQuote(d, ids, method) \/ BeginCheckout(d, ids, method)
      PROVE  DeskInv'
  BY <1>1, BeginningKeeps
<1>2. ASSUME NEW d \in Desks, QuoteShipping(d) \/ CheckoutShipping(d)
      PROVE  DeskInv'
  BY <1>2, ShippingKeeps
<1>3. ASSUME NEW d \in Desks, QuoteRate(d)
      PROVE  DeskInv'
  BY <1>3, QuotingKeeps
<1>4. ASSUME NEW d \in Desks, CheckoutRate(d)
      PROVE  DeskInv'
  BY <1>4, RatingOrderKeeps
<1>5. ASSUME NEW d \in Desks, PlaceOrder(d)
      PROVE  DeskInv'
  BY <1>5, EndingKeeps DEF PlaceOrder, DeskInv
<1>6. ASSUME NEW d \in Desks,
             ReadReturnPolicy(d) \/ BeginReturn(d) \/ BeginOther(d) \/ EndTransaction(d)
      PROVE  DeskInv'
  BY <1>6, OtherKeeps
<1>7. CASE \/ \E raw \in ShippingInputs : UpsertShipping(raw)
           \/ \E raw \in RateInputs : UpsertRate(raw)
           \/ LoseShipping \/ LoseRate
           \/ \E l \in Lines, state \in {"full", "reduced", "gone"} : ChangeProduct(l, state)
  <2>1. Changed
    BY <1>7 DEF UpsertShipping, UpsertRate, LoseShipping, LoseRate, ChangeProduct
  <2> QED BY <2>1, ChangedKeeps
<1>8. ASSUME NEW l \in Lines, PutInBasket(l)
      PROVE  DeskInv'
  BY <1>8, EndingKeeps DEF PutInBasket, DeskInv
<1>9. CASE Restart
  BY <1>9, EndingKeeps DEF Restart
<1>10. CASE UNCHANGED deskVars
  BY <1>10, EndingKeeps DEF deskVars, DeskInv
<1>11. CASE DeskNext
  BY <1>1, <1>2, <1>3, <1>4, <1>5, <1>6, <1>7, <1>8, <1>9, <1>11 DEF DeskNext
<1> QED BY <1>10, <1>11

\* What the requests computed is right, and needs lines to be computed for, in every state.
LEMMA DeskInvariance == DeskSpec => []DeskInv
<1>1. DeskInit => DeskInv
  <2> SUFFICES ASSUME DeskInit PROVE DeskInv
    OBVIOUS
  <2>1. desk = [d \in Desks |-> desk[d]] /\ \A d \in Desks : desk[d] = NoDesk
    BY DEF DeskInit
  <2>2. QuoteRight
    BY DEF DeskInit, NoQuote, QuoteRight
  <2> QED BY <2>1, <2>2, NoDeskFits DEF DeskInv
<1> QED BY <1>1, DeskStep, PTL DEF DeskSpec

\* An order costs what the quote said, and has its rate, unless a price or a setting was
\* changed: for all lines, prices, settings and numbers of requests.
THEOREM OrdersCostAsQuoted == DeskSpec => []TotalAsQuoted
<1>1. DeskInv => TotalAsQuoted
  <2> SUFFICES ASSUME DeskInv, NEW d \in Desks, desk[d].step = "place", desk[d].fresh,
                      quote.lines = desk[d].lines, quote.method = desk[d].method
               PROVE  desk[d].amount = quote.total /\ desk[d].rate = quote.rate
    BY DEF TotalAsQuoted
  <2>1. DeskShape(desk[d]) /\ DeskRight(desk[d]) /\ QuoteRight
    BY DEF DeskInv
  <2> QED BY <2>1 DEF DeskShape, DeskRight, QuoteRight
<1> QED BY <1>1, DeskInvariance, PTL

\* The pool comes to a stop only when as many checkouts as it has connections are in their
\* transactions: for every size of the pool and every number of requests.
THEOREM OnlyCheckoutsFillThePool == DeskSpec => []ProgressUnlessFilled
<1>1. DeskInv => ProgressUnlessFilled
  <2> SUFFICES ASSUME DeskInv, ~FreeConnection, \A d \in Held : NeedsAnother(d)
               PROVE  Cardinality({d \in Held : desk[d].lines # {}}) >= PoolSize
    BY DEF ProgressUnlessFilled
  <2>1. \A d \in Held : desk[d].lines # {}
    BY DEF DeskInv, DeskShape, Held, NeedsAnother
  <2>2. {d \in Held : desk[d].lines # {}} = Held
    BY <2>1
  <2>3. Cardinality(Held) \in Nat
    BY FS_Subset, FS_CardinalityType, DeskAssumption DEF Held
  <2>4. Cardinality(Held) >= PoolSize
    BY <2>3, DeskAssumption DEF FreeConnection
  <2> QED BY <2>2, <2>4
<1> QED BY <1>1, DeskInvariance, PTL

-----------------------------------------------------------------------------
(* RateLimit *)

Ticks == [1 .. Window -> Nat]

\* The requests let pass in the present tick and the n - 1 before it.
Passed(f, n) == SumFunctionOnSet(f, 1 .. n)

\* The ticks since Redis lost its counters, and those of the present window: of the
\* last ones, the counter knows; before them only one window can have been.
Since(l) == Window - l
Present(ttl, l) ==
  IF Window - ttl + 1 <= Since(l) THEN Window - ttl + 1 ELSE Since(l)

CounterKnows(f, c, l) ==
  /\ c.hits = 0 => /\ Passed(f, Since(l)) <= Limit
                   /\ Since(l) >= 1 => Passed(f, 1) = 0
  /\ c.hits > 0 => /\ c.ttl \in 1 .. Window
                   /\ Passed(f, Present(c.ttl, l)) <= c.hits
                   /\ Passed(f, Present(c.ttl, l)) <= Limit
                   /\ Passed(f, Since(l)) <= Passed(f, Present(c.ttl, l)) + Limit

RateTypes ==
  /\ counter \in [hits: Nat, ttl: Nat]
  /\ counter.hits = 0 => counter.ttl = 0
  /\ reachable \in BOOLEAN
  /\ admitted \in [Stores -> Ticks]
  /\ lost \in 0 .. Window

\* The inductive invariant of the counters.
RateInv ==
  /\ RateTypes
  /\ CounterKnows(admitted[Redis], counter, lost)
  /\ \A i \in Instances : Passed(admitted[i], Window) <= Limit

-----------------------------------------------------------------------------
(* Requests in the last ticks *)

\* The first ticks are ticks of the window.
LEMMA FirstTicks ==
  ASSUME NEW n \in 0 .. Window
  PROVE  n \in Nat /\ 1 .. n \subseteq 1 .. Window /\ IsFiniteSet(1 .. n)
<1>1. n \in Int /\ n \in Nat /\ 1 .. n \subseteq 1 .. Window
  BY RateAssumption
<1> QED BY <1>1, FS_Interval

\* Their number is one.
LEMMA PassedType ==
  ASSUME NEW f \in Ticks, NEW n \in 0 .. Window
  PROVE  Passed(f, n) \in Nat /\ Passed(f, 0) = 0
<1>1. IsFiniteSet(1 .. n) /\ \A k \in 1 .. n : f[k] \in Nat
  BY FirstTicks DEF Ticks
<1>2. 1 .. 0 = {}
  OBVIOUS
<1> QED BY <1>1, <1>2, SumType, SumEmpty DEF Passed

\* More ticks, no fewer requests.
LEMMA PassedGrows ==
  ASSUME NEW f \in Ticks, NEW n \in 0 .. Window, NEW m \in 0 .. n
  PROVE  Passed(f, m) <= Passed(f, n)
<1>1. IsFiniteSet(1 .. n) /\ \A k \in 1 .. n : f[k] \in Nat
  BY FirstTicks DEF Ticks
<1>2. 1 .. m \subseteq 1 .. n
  BY RateAssumption
<1> QED BY <1>1, <1>2, SumPart DEF Passed

\* A request more in the present tick.
LEMMA PassedOneMore ==
  ASSUME NEW f \in Ticks, NEW n \in 0 .. Window
  PROVE  /\ [f EXCEPT ![1] = @ + 1] \in Ticks
         /\ Passed([f EXCEPT ![1] = @ + 1], n) = IF n = 0 THEN 0 ELSE Passed(f, n) + 1
<1> DEFINE g == [f EXCEPT ![1] = @ + 1]
<1>1. 1 \in 1 .. Window /\ g \in Ticks /\ g[1] = f[1] + 1 /\ f[1] \in Nat
      /\ \A k \in (1 .. Window) \ {1} : g[k] = f[k]
  BY RateAssumption DEF Ticks
<1> HIDE DEF g
<1>2. CASE n = 0
  <2>1. Passed(g, 0) = 0
    BY <1>1, PassedType
  <2> QED BY <1>1, <1>2, <2>1 DEF g
<1>3. CASE n # 0
  <2> DEFINE rest == (1 .. n) \ {1}
  <2>1. /\ IsFiniteSet(1 .. n) /\ IsFiniteSet(rest) /\ 1 \in 1 .. n
        /\ \A k \in 1 .. n : f[k] \in Nat /\ g[k] \in Nat
        /\ \A k \in rest : g[k] = f[k]
    <3>1. IsFiniteSet(1 .. n) /\ IsFiniteSet(rest) /\ 1 \in 1 .. n
      BY <1>3, FS_Interval, FS_Subset
    <3>2. 1 .. n \subseteq 1 .. Window
      BY RateAssumption
    <3> QED BY <1>1, <3>1, <3>2 DEF Ticks
  <2>2. SumFunctionOnSet(g, 1 .. n) = g[1] + SumFunctionOnSet(g, rest)
    BY <2>1, SumRemove
  <2>3. SumFunctionOnSet(f, 1 .. n) = f[1] + SumFunctionOnSet(f, rest)
    BY <2>1, SumRemove
  <2> HIDE DEF rest
  <2>4. SumFunctionOnSet(g, rest) = SumFunctionOnSet(f, rest)
    BY <2>1, SumSame
  <2>5. SumFunctionOnSet(f, rest) \in Nat
    <3>1. \A k \in rest : f[k] \in Nat
      BY <2>1 DEF rest
    <3> QED BY <2>1, <3>1, SumType
  <2>6. Passed(g, n) = Passed(f, n) + 1
    BY <1>1, <2>2, <2>3, <2>4, <2>5 DEF Passed
  <2> QED BY <1>1, <1>3, <2>6 DEF g
<1> QED BY <1>1, <1>2, <1>3 DEF g

\* The ticks after one more.
Shifted(f) == [n \in 1 .. Window |-> IF n = 1 THEN 0 ELSE f[n - 1]]

\* When time advances by a tick, what was let pass moves one tick back.
LEMMA PassedShifted ==
  ASSUME NEW f \in Ticks
  PROVE  /\ Shifted(f) \in Ticks
         /\ \A n \in 0 .. Window - 1 : Passed(Shifted(f), n + 1) = Passed(f, n)
<1> DEFINE g == Shifted(f)
           Good == {n \in Nat : n < Window => Passed(g, n + 1) = Passed(f, n)}
<1>1. g \in Ticks /\ g[1] = 0 /\ \A n \in 1 .. Window - 1 : g[n + 1] = f[n]
  BY RateAssumption DEF Shifted, Ticks
<1> HIDE DEF g
<1>2. 0 \in Good
  <2>1. 1 .. 1 = {} \cup {1} /\ 1 \in 1 .. Window
    BY RateAssumption
  <2>2. SumFunctionOnSet(g, {} \cup {1}) = g[1] + SumFunctionOnSet(g, {})
    BY <1>1, FS_EmptySet, SumAdd
  <2>3. Passed(g, 1) = 0
    BY <1>1, <2>1, <2>2, SumEmpty DEF Passed
  <2>4. Passed(f, 0) = 0
    BY PassedType, RateAssumption
  <2> QED BY <2>3, <2>4
<1>3. ASSUME NEW n \in Nat, n \in Good PROVE n + 1 \in Good
  <2> SUFFICES ASSUME n + 1 < Window PROVE Passed(g, n + 2) = Passed(f, n + 1)
    OBVIOUS
  <2>1. n \in 0 .. Window /\ n + 1 \in 1 .. Window - 1 /\ n + 2 \in 1 .. Window
    BY RateAssumption
  <2>2. 1 .. n + 2 = (1 .. n + 1) \cup {n + 2} /\ n + 2 \notin 1 .. n + 1
    BY <2>1
  <2>3. 1 .. n + 1 = (1 .. n) \cup {n + 1} /\ n + 1 \notin 1 .. n
    BY <2>1
  <2>4. IsFiniteSet(1 .. n + 1) /\ IsFiniteSet(1 .. n)
    BY FS_Interval
  <2>5. \A k \in 1 .. Window : f[k] \in Nat /\ g[k] \in Nat
    BY <1>1 DEF Ticks
  <2>6. Passed(g, n + 2) = g[n + 2] + Passed(g, n + 1)
    <3>1. \A k \in (1 .. n + 1) \cup {n + 2} : g[k] \in Nat
      BY <2>1, <2>5, RateAssumption
    <3> QED BY <2>2, <2>4, <3>1, SumAdd DEF Passed
  <2>7. Passed(f, n + 1) = f[n + 1] + Passed(f, n)
    <3>1. \A k \in (1 .. n) \cup {n + 1} : f[k] \in Nat
      BY <2>1, <2>5, RateAssumption
    <3> QED BY <2>3, <2>4, <3>1, SumAdd DEF Passed
  <2>8. g[n + 2] = f[n + 1]
    BY <1>1, <2>1
  <2>9. Passed(g, n + 1) = Passed(f, n)
    <3>1. n < Window
      BY <2>1, RateAssumption
    <3> QED BY <1>3, <3>1
  <2> QED BY <2>6, <2>7, <2>8, <2>9
<1>4. \A n \in Nat : n \in Good
  <2> HIDE DEF Good
  <2> QED BY <1>2, <1>3, NumberInduction
<1>5. \A n \in 0 .. Window - 1 : Passed(g, n + 1) = Passed(f, n)
  BY <1>4, RateAssumption
<1> QED BY <1>1, <1>5 DEF g

-----------------------------------------------------------------------------
(* The counter in Redis *)

CountedFrom(c) ==
  IF c.hits > Limit THEN c
  ELSE [hits |-> c.hits + 1, ttl |-> IF c.hits = 0 THEN Window ELSE c.ttl]

TickedFrom(c) ==
  IF c.ttl > 1 THEN [c EXCEPT !.ttl = @ - 1] ELSE IF c.ttl = 1 THEN NoCounter ELSE c

\* The spans of time that the invariant speaks of are numbers of ticks.
LEMMA SpanTypes ==
  ASSUME NEW l \in 0 .. Window, NEW ttl \in 1 .. Window
  PROVE  /\ Since(l) \in 0 .. Window
         /\ Present(ttl, l) \in 0 .. Since(l) /\ Present(ttl, l) \in 0 .. Window
         /\ Present(ttl, l) = 0 <=> Since(l) = 0
BY RateAssumption DEF Since, Present

\* A hit that begins a window finds nothing of it in the ticks before.
LEMMA FirstHit ==
  ASSUME NEW l \in 0 .. Window
  PROVE  Present(Window, l) = IF Since(l) = 0 THEN 0 ELSE 1
BY RateAssumption DEF Since, Present

\* A hit that is counted, though it does not pass here.
LEMMA CountedKnows ==
  ASSUME NEW f \in Ticks, NEW c \in [hits: Nat, ttl: Nat], NEW l \in 0 .. Window,
         CounterKnows(f, c, l)
  PROVE  CounterKnows(f, CountedFrom(c), l)
<1> DEFINE d == CountedFrom(c)
<1>1. CASE c.hits > Limit
  BY <1>1 DEF CountedFrom
<1>2. CASE c.hits = 0
  <2>1. d.hits = 1 /\ d.ttl = Window
    BY <1>2, RateAssumption DEF CountedFrom
  <2>2. Window \in 1 .. Window
    BY RateAssumption
  <2>3. Passed(f, Since(l)) <= Limit /\ (Since(l) >= 1 => Passed(f, 1) = 0)
    BY <1>2 DEF CounterKnows
  <2>4. Since(l) \in 0 .. Window
    BY <2>2, SpanTypes
  <2>5. Passed(f, Present(Window, l)) = 0
    <3>1. Passed(f, 0) = 0
      BY <2>4, PassedType
    <3> QED BY <2>3, <2>4, <3>1, FirstHit
  <2>6. Passed(f, Since(l)) \in Nat
    BY <2>4, PassedType
  <2> HIDE DEF d
  <2>7. CounterKnows(f, d, l)
    BY <2>1, <2>2, <2>3, <2>5, <2>6, RateAssumption DEF CounterKnows
  <2> QED BY <2>7 DEF d
<1>3. CASE c.hits > 0 /\ c.hits <= Limit
  <2>1. d.hits = c.hits + 1 /\ d.ttl = c.ttl
    BY <1>3, RateAssumption DEF CountedFrom
  <2>2. /\ c.ttl \in 1 .. Window
        /\ Passed(f, Present(c.ttl, l)) <= c.hits
        /\ Passed(f, Present(c.ttl, l)) <= Limit
        /\ Passed(f, Since(l)) <= Passed(f, Present(c.ttl, l)) + Limit
    BY <1>3 DEF CounterKnows
  <2>3. Passed(f, Present(c.ttl, l)) \in Nat
    BY <2>2, SpanTypes, PassedType
  <2> HIDE DEF d
  <2>4. CounterKnows(f, d, l)
    BY <2>1, <2>2, <2>3 DEF CounterKnows
  <2> QED BY <2>4 DEF d
<1> QED BY <1>1, <1>2, <1>3, RateAssumption

\* A hit that passes, too.
LEMMA PassedKnows ==
  ASSUME NEW f \in Ticks, NEW c \in [hits: Nat, ttl: Nat], NEW l \in 0 .. Window,
         CounterKnows(f, c, l), c.hits < Limit
  PROVE  CounterKnows([f EXCEPT ![1] = @ + 1], CountedFrom(c), l)
<1> DEFINE d == CountedFrom(c)
           g == [f EXCEPT ![1] = @ + 1]
           m == Since(l)
<1>1. d.hits = c.hits + 1 /\ d.ttl = IF c.hits = 0 THEN Window ELSE c.ttl
  BY RateAssumption DEF CountedFrom
<1>2. Window \in 1 .. Window
  BY RateAssumption
<1>3. m \in 0 .. Window
  BY <1>2, SpanTypes
<1>4. \A n \in 0 .. Window : /\ Passed(g, n) = IF n = 0 THEN 0 ELSE Passed(f, n) + 1
                             /\ Passed(f, n) \in Nat
  BY PassedOneMore, PassedType
<1> HIDE DEF d, g, m
<1>5. CASE c.hits = 0
  <2>1. Passed(f, m) <= Limit /\ (m >= 1 => Passed(f, 1) = 0)
    BY <1>5 DEF CounterKnows, m
  <2>2. Present(Window, l) = IF m = 0 THEN 0 ELSE 1
    BY FirstHit DEF m
  <2>3. CASE m = 0
    <3>1. Passed(g, Present(Window, l)) = 0 /\ Passed(g, m) = 0
      BY <1>3, <1>4, <2>2, <2>3
    <3> QED BY <1>1, <1>2, <1>5, <3>1, RateAssumption DEF CounterKnows, d, g, m
  <2>4. CASE m # 0
    <3>1. Passed(g, Present(Window, l)) = 1 /\ Passed(g, m) = Passed(f, m) + 1
      <4>1. 1 \in 0 .. Window /\ m >= 1
        BY <1>2, <1>3, <2>4
      <4> QED BY <1>3, <1>4, <2>1, <2>2, <2>4, <4>1
    <3>2. Passed(f, m) \in Nat
      BY <1>3, <1>4
    <3>3. CounterKnows(g, d, l)
      BY <1>1, <1>2, <1>5, <2>1, <3>1, <3>2, RateAssumption DEF CounterKnows, m
    <3> QED BY <3>3 DEF d, g
  <2> QED BY <2>3, <2>4
<1>6. CASE c.hits > 0
  <2> DEFINE e == Present(c.ttl, l)
  <2>1. /\ c.ttl \in 1 .. Window
        /\ Passed(f, e) <= c.hits
        /\ Passed(f, m) <= Passed(f, e) + Limit
    BY <1>6 DEF CounterKnows, m
  <2>2. e \in 0 .. Window /\ (e = 0 <=> m = 0)
    BY <2>1, SpanTypes DEF m
  <2>3. Passed(f, e) \in Nat /\ Passed(f, m) \in Nat /\ Passed(g, e) \in Nat
    BY <1>3, <1>4, <2>2
  <2>4. /\ Passed(g, e) <= Passed(f, e) + 1
        /\ Passed(g, m) <= Passed(g, e) + Limit
    BY <1>3, <1>4, <2>1, <2>2, <2>3, RateAssumption
  <2> HIDE DEF e
  <2>5. Passed(g, e) <= c.hits + 1 /\ Passed(g, e) <= Limit
    BY <2>1, <2>3, <2>4, RateAssumption
  <2>6. CounterKnows(g, d, l)
    BY <1>1, <1>6, <2>1, <2>4, <2>5 DEF CounterKnows, m, e
  <2> QED BY <2>6 DEF d, g
<1> QED BY <1>5, <1>6

\* A tick later.
LEMMA TickedKnows ==
  ASSUME NEW f \in Ticks, NEW c \in [hits: Nat, ttl: Nat], NEW l \in 0 .. Window,
         NEW k \in 0 .. Window, k = (IF l > 0 THEN l - 1 ELSE 0),
         c.hits = 0 => c.ttl = 0, CounterKnows(f, c, l)
  PROVE  CounterKnows(Shifted(f), TickedFrom(c), k)
<1> DEFINE d == TickedFrom(c)
           g == Shifted(f)
           m == Since(l)
           n == Since(k)
<1>1. m \in 0 .. Window /\ n \in 0 .. Window /\ n >= 1 /\ n <= m + 1 /\ (l > 0 => n = m + 1)
      /\ (l = 0 => m = Window /\ n = Window)
  BY RateAssumption DEF Since
<1>2. g \in Ticks /\ \A i \in 0 .. Window - 1 : Passed(g, i + 1) = Passed(f, i)
  BY PassedShifted
<1>3. \A i \in 0 .. Window : Passed(f, i) \in Nat /\ Passed(g, i) \in Nat
  BY <1>2, PassedType
<1>4. Passed(g, n) <= Passed(f, m)
  <2>1. n - 1 \in 0 .. Window - 1 /\ n - 1 \in 0 .. m /\ (n - 1) + 1 = n
    BY <1>1, RateAssumption
  <2>2. Passed(g, n) = Passed(f, n - 1)
    BY <1>2, <2>1
  <2>3. Passed(f, n - 1) <= Passed(f, m)
    BY <1>1, <2>1, PassedGrows
  <2> QED BY <2>2, <2>3
<1>5. Passed(g, 1) = 0
  <2>1. 0 \in 0 .. Window - 1 /\ 0 \in 0 .. Window
    BY RateAssumption
  <2>2. Passed(g, 0 + 1) = Passed(f, 0) /\ Passed(f, 0) = 0
    BY <1>2, <2>1, PassedType
  <2> QED BY <2>2
<1>6. Passed(g, n) \in Nat /\ Passed(f, m) \in Nat
  BY <1>1, <1>3
<1> HIDE DEF d, g, m, n
<1>7. CASE c.hits = 0
  <2>1. d = c
    BY <1>7 DEF TickedFrom, d
  <2>2. Passed(f, m) <= Limit
    BY <1>7 DEF CounterKnows, m
  <2>3. Passed(g, n) <= Limit
    BY <1>4, <1>6, <2>2, RateAssumption
  <2>4. CounterKnows(g, d, k)
    BY <1>5, <1>7, <2>1, <2>3 DEF CounterKnows, n
  <2> QED BY <2>4 DEF d, g
<1>8. CASE c.hits > 0
  <2> DEFINE e == Present(c.ttl, l)
  <2>1. /\ c.ttl \in 1 .. Window
        /\ Passed(f, e) <= c.hits /\ Passed(f, e) <= Limit
        /\ Passed(f, m) <= Passed(f, e) + Limit
    BY <1>8 DEF CounterKnows, m
  <2>2. e \in 0 .. m /\ e \in 0 .. Window
    BY <2>1, SpanTypes DEF m
  <2>3. CASE c.ttl = 1
    <3>1. d = NoCounter /\ d.hits = 0
      BY <2>3 DEF TickedFrom, NoCounter, d
    <3>2. e = m
      BY <2>3, RateAssumption DEF Present, Since, m
    <3>3. Passed(g, n) <= Limit
      BY <1>4, <1>6, <2>1, <3>2, RateAssumption
    <3>4. CounterKnows(g, d, k)
      BY <1>5, <3>1, <3>3 DEF CounterKnows, n
    <3> QED BY <3>4 DEF d, g
  <2>4. CASE c.ttl # 1
    <3>1. d.hits = c.hits /\ d.ttl = c.ttl - 1 /\ d.ttl \in 1 .. Window
      <4>1. c.ttl > 1 /\ c.ttl - 1 \in 1 .. Window
        BY <2>1, <2>4, RateAssumption
      <4>2. d = [c EXCEPT !.ttl = @ - 1]
        BY <4>1 DEF TickedFrom, d
      <4>3. d.hits = c.hits /\ d.ttl = c.ttl - 1
        BY <4>2
      <4> QED BY <4>1, <4>3
    <3> DEFINE h == Present(c.ttl - 1, k)
    <3>2. h \in 0 .. n /\ h \in 0 .. Window
      BY <3>1, SpanTypes DEF n
    <3>3. h = e + 1 /\ e \in 0 .. Window - 1
      BY <2>1, <2>4, RateAssumption DEF Present, Since
    <3>4. Passed(g, h) = Passed(f, e)
      BY <1>2, <3>3
    <3>5. Passed(g, n) <= Passed(g, h) + Limit
      BY <1>1, <1>3, <1>4, <1>6, <2>1, <2>2, <3>4, RateAssumption
    <3> HIDE DEF h
    <3>6. CounterKnows(g, d, k)
      BY <1>8, <2>1, <3>1, <3>4, <3>5 DEF CounterKnows, n, h
    <3> QED BY <3>6 DEF d, g
  <2> QED BY <2>3, <2>4
<1> QED BY <1>7, <1>8

-----------------------------------------------------------------------------
(* The steps *)

\* What a store lets pass.
LEMMA LettingPass ==
  ASSUME RateTypes, NEW s \in Stores, NEW passes \in BOOLEAN, LetPass(s, passes)
  PROVE  /\ admitted' \in [Stores -> Ticks]
         /\ admitted'[s] = IF passes THEN [admitted[s] EXCEPT ![1] = @ + 1] ELSE admitted[s]
         /\ \A t \in Stores \ {s} : admitted'[t] = admitted[t]
<1>1. CASE passes
  <2> DEFINE f == admitted[s]
             g == [f EXCEPT ![1] = @ + 1]
  <2>1. admitted \in [Stores -> Ticks] /\ f \in Ticks
    BY DEF RateTypes
  <2>2. 0 \in 0 .. Window
    BY RateAssumption
  <2>3. g \in Ticks
    BY <2>1, <2>2, PassedOneMore
  <2>4. admitted' = [admitted EXCEPT ![s] = g]
    BY <1>1 DEF LetPass
  <2> HIDE DEF g
  <2>5. /\ admitted' \in [Stores -> Ticks] /\ admitted'[s] = g
        /\ \A t \in Stores \ {s} : admitted'[t] = admitted[t]
    BY <2>1, <2>3, <2>4
  <2> QED BY <1>1, <2>5 DEF g
<1>2. CASE ~passes
  BY <1>2 DEF LetPass, RateTypes
<1> QED BY <1>1, <1>2

\* The counter, counted or not.
LEMMA CountedType ==
  ASSUME RateTypes, Counted
  PROVE  /\ counter' = CountedFrom(counter) /\ counter' \in [hits: Nat, ttl: Nat]
         /\ counter'.hits # 0
<1>1. counter' = CountedFrom(counter)
  BY DEF Counted, CountedFrom
<1>2. CASE counter.hits > Limit
  BY <1>1, <1>2, RateAssumption DEF CountedFrom, RateTypes
<1>3. CASE ~(counter.hits > Limit)
  <2>1. counter' = [hits |-> counter.hits + 1,
                    ttl |-> IF counter.hits = 0 THEN Window ELSE counter.ttl]
    BY <1>1, <1>3 DEF CountedFrom
  <2> QED BY <1>1, <2>1, RateAssumption DEF RateTypes
<1> QED BY <1>2, <1>3

\* A request that Redis counts.
LEMMA RedisCountKeeps ==
  ASSUME RateInv, CountInRedis
  PROVE  RateInv'
<1>1. RateTypes /\ Counted /\ LetPass(Redis, counter.hits < Limit)
      /\ UNCHANGED <<reachable, lost>>
  BY DEF RateInv, CountInRedis
<1>2. Redis \in Stores /\ (counter.hits < Limit) \in BOOLEAN /\ admitted[Redis] \in Ticks
  BY <1>1 DEF Stores, RateTypes
<1>3. /\ admitted' \in [Stores -> Ticks]
      /\ admitted'[Redis] = IF counter.hits < Limit
                              THEN [admitted[Redis] EXCEPT ![1] = @ + 1] ELSE admitted[Redis]
      /\ \A t \in Stores \ {Redis} : admitted'[t] = admitted[t]
  BY <1>1, <1>2, LettingPass
<1>4. /\ counter' = CountedFrom(counter) /\ counter' \in [hits: Nat, ttl: Nat]
      /\ counter'.hits # 0
  BY <1>1, CountedType
<1>5. RateTypes'
  BY <1>1, <1>3, <1>4 DEF RateTypes
<1>6. CounterKnows(admitted[Redis], counter, lost)
      /\ lost \in 0 .. Window /\ counter \in [hits: Nat, ttl: Nat]
  BY <1>1 DEF RateInv, RateTypes
<1>7. CounterKnows(admitted'[Redis], counter', lost)
  BY <1>2, <1>3, <1>4, <1>6, PassedKnows, CountedKnows
<1>8. \A i \in Instances : Passed(admitted'[i], Window) <= Limit
  BY <1>3, RateAssumption DEF RateInv, Stores
<1> QED BY <1>1, <1>5, <1>7, <1>8 DEF RateInv, CounterKnows, Passed, Since, Present

\* A request that an instance counts by itself.
LEMMA MemoryCountKeeps ==
  ASSUME RateInv, NEW i \in Instances, CountInMemory(i)
  PROVE  RateInv'
<1>1. RateTypes /\ (counter' = counter \/ Counted) /\ LetPass(i, Recent(i) < Limit)
      /\ UNCHANGED <<reachable, lost>>
  BY DEF RateInv, CountInMemory
<1>2. /\ i \in Stores /\ (Recent(i) < Limit) \in BOOLEAN /\ admitted[Redis] \in Ticks
      /\ i # Redis /\ Redis \in Stores
  BY <1>1, RateAssumption DEF Stores, RateTypes
<1>3. /\ admitted' \in [Stores -> Ticks]
      /\ admitted'[i] = IF Recent(i) < Limit
                          THEN [admitted[i] EXCEPT ![1] = @ + 1] ELSE admitted[i]
      /\ \A t \in Stores \ {i} : admitted'[t] = admitted[t]
  BY <1>1, <1>2, LettingPass
<1>4. counter' = counter \/ (/\ counter' = CountedFrom(counter)
                             /\ counter' \in [hits: Nat, ttl: Nat] /\ counter'.hits # 0)
  BY <1>1, CountedType
<1>5. RateTypes'
  BY <1>1, <1>3, <1>4 DEF RateTypes
<1>6. CounterKnows(admitted[Redis], counter, lost)
      /\ lost \in 0 .. Window /\ counter \in [hits: Nat, ttl: Nat]
  BY <1>1 DEF RateInv, RateTypes
<1>7. CounterKnows(admitted'[Redis], counter', lost)
  BY <1>2, <1>3, <1>4, <1>6, CountedKnows
<1>8. ASSUME NEW j \in Instances PROVE Passed(admitted'[j], Window) <= Limit
  <2>1. CASE j # i
    BY <1>3, <2>1 DEF RateInv, Stores
  <2>2. CASE j = i
    <3>1. Window \in 0 .. Window /\ Window # 0 /\ admitted[i] \in Ticks
      BY <1>1, <1>2, RateAssumption DEF RateTypes
    <3>2. Passed([admitted[i] EXCEPT ![1] = @ + 1], Window) = Passed(admitted[i], Window) + 1
      BY <3>1, PassedOneMore
    <3>3. Passed(admitted[i], Window) \in Nat /\ Recent(i) = Passed(admitted[i], Window)
      BY <3>1, PassedType DEF Recent, Passed
    <3>4. CASE Recent(i) < Limit
      <4>1. Passed(admitted'[i], Window) = Passed(admitted[i], Window) + 1
        BY <1>3, <3>2, <3>4
      <4> QED BY <2>2, <3>3, <3>4, <4>1, RateAssumption
    <3>5. CASE ~(Recent(i) < Limit)
      BY <1>3, <2>2, <3>5 DEF RateInv
    <3> QED BY <3>4, <3>5
  <2> QED BY <2>1, <2>2
<1> QED BY <1>1, <1>5, <1>7, <1>8 DEF RateInv, CounterKnows, Passed, Since, Present

\* Redis loses its counters, with consequences for a window's length.
LEMMA ForgettingKeeps ==
  ASSUME RateInv, RedisForgets
  PROVE  RateInv'
<1>1. counter' = NoCounter /\ lost' = Window /\ UNCHANGED <<reachable, admitted>> /\ RateTypes
  BY DEF RedisForgets, RateInv
<1>2. NoCounter \in [hits: Nat, ttl: Nat] /\ NoCounter.hits = 0 /\ NoCounter.ttl = 0
  BY DEF NoCounter
<1>3. RateTypes'
  BY <1>1, <1>2, RateAssumption DEF RateTypes
<1>4. Since(Window) = 0 /\ 0 \in 0 .. Window
  BY RateAssumption DEF Since
<1>5. Passed(admitted[Redis], 0) = 0
  BY <1>1, <1>4, PassedType DEF RateTypes, Stores
<1>6. CounterKnows(admitted[Redis], NoCounter, Window)
  BY <1>2, <1>4, <1>5, RateAssumption DEF CounterKnows
<1>7. \A i \in Instances : Passed(admitted'[i], Window) <= Limit
  BY <1>1 DEF RateInv
<1> QED BY <1>1, <1>3, <1>6, <1>7 DEF RateInv, CounterKnows, Passed, Since, Present

\* Time goes on.
LEMMA TickKeeps ==
  ASSUME RateInv, ClockTicks
  PROVE  RateInv'
<1>1. /\ counter' = TickedFrom(counter)
      /\ admitted' = [s \in Stores |-> Shifted(admitted[s])]
      /\ lost' = (IF lost > 0 THEN lost - 1 ELSE 0)
      /\ UNCHANGED reachable /\ RateTypes
  BY DEF ClockTicks, TickedFrom, Shifted, RateInv
<1>2. /\ \A s \in Stores : admitted[s] \in Ticks
      /\ lost \in 0 .. Window /\ lost' \in 0 .. Window
      /\ counter \in [hits: Nat, ttl: Nat] /\ (counter.hits = 0 => counter.ttl = 0)
  BY <1>1, RateAssumption DEF RateTypes
<1>3. \A s \in Stores : Shifted(admitted[s]) \in Ticks
  BY <1>2, PassedShifted
<1>4. counter' \in [hits: Nat, ttl: Nat] /\ (counter'.hits = 0 => counter'.ttl = 0)
  <2>1. CASE counter.ttl > 1
    <3>1. counter' = [counter EXCEPT !.ttl = @ - 1]
      BY <1>1, <2>1 DEF TickedFrom
    <3>2. counter.ttl - 1 \in Nat /\ counter.hits # 0
      BY <1>2, <2>1
    <3> QED BY <1>2, <3>1, <3>2
  <2>2. CASE ~(counter.ttl > 1)
    BY <1>1, <1>2, <2>2 DEF TickedFrom, NoCounter
  <2> QED BY <2>1, <2>2
<1>5. RateTypes'
  BY <1>1, <1>2, <1>3, <1>4 DEF RateTypes
<1>6. CounterKnows(admitted'[Redis], counter', lost')
  <2>1. admitted'[Redis] = Shifted(admitted[Redis]) /\ Redis \in Stores
    BY <1>1 DEF Stores
  <2> QED BY <1>1, <1>2, <2>1, TickedKnows DEF RateInv
<1>7. ASSUME NEW i \in Instances PROVE Passed(admitted'[i], Window) <= Limit
  <2>1. i \in Stores /\ admitted'[i] = Shifted(admitted[i]) /\ admitted[i] \in Ticks
    BY <1>1, <1>2 DEF Stores
  <2>2. Window - 1 \in 0 .. Window - 1 /\ Window - 1 \in 0 .. Window /\ Window \in 0 .. Window
        /\ (Window - 1) + 1 = Window
    BY RateAssumption
  <2>3. Passed(Shifted(admitted[i]), Window) = Passed(admitted[i], Window - 1)
    BY <2>1, <2>2, PassedShifted
  <2>4. /\ Passed(admitted[i], Window - 1) <= Passed(admitted[i], Window)
        /\ Passed(admitted[i], Window - 1) \in Nat /\ Passed(admitted[i], Window) \in Nat
    BY <2>1, <2>2, PassedGrows, PassedType
  <2>5. Passed(admitted[i], Window) <= Limit
    BY DEF RateInv
  <2> QED BY <2>1, <2>3, <2>4, <2>5, RateAssumption
<1> QED BY <1>5, <1>6, <1>7 DEF RateInv, CounterKnows, Passed, Since, Present

\* Every step keeps the invariant.
LEMMA RateStep == RateInv /\ [RateNext]_rateVars => RateInv'
<1> SUFFICES ASSUME RateInv, [RateNext]_rateVars PROVE RateInv'
  OBVIOUS
<1>1. ASSUME counter' = counter, admitted' = admitted, lost' = lost, reachable' \in BOOLEAN
      PROVE  RateInv'
  BY <1>1 DEF RateInv, RateTypes, CounterKnows, Passed, Since, Present
<1>2. CASE ConnectionChanges
  <2>1. (~reachable) \in BOOLEAN
    OBVIOUS
  <2> QED BY <1>1, <1>2, <2>1 DEF ConnectionChanges
<1>3. CASE UNCHANGED rateVars
  BY <1>1, <1>3 DEF rateVars, RateInv, RateTypes
<1> QED BY <1>2, <1>3, RedisCountKeeps, MemoryCountKeeps, ForgettingKeeps, TickKeeps
        DEF RateNext

\* In the initial states nothing was let pass.
LEMMA RateStart == RateInit => RateInv
<1> SUFFICES ASSUME RateInit PROVE RateInv
  OBVIOUS
<1>1. /\ counter = NoCounter /\ lost = 0 /\ reachable = TRUE
      /\ admitted = [s \in Stores |-> [n \in 1 .. Window |-> 0]]
  BY DEF RateInit
<1>2. NoCounter \in [hits: Nat, ttl: Nat] /\ NoCounter.hits = 0 /\ NoCounter.ttl = 0
  BY DEF NoCounter
<1> DEFINE f == [n \in 1 .. Window |-> 0]
<1>3. f \in Ticks
  BY DEF Ticks
<1>4. RateTypes
  BY <1>1, <1>2, <1>3, RateAssumption DEF RateTypes
<1>5. \A n \in 0 .. Window : Passed(f, n) = 0
  <2> DEFINE Good == {n \in Nat : n <= Window => Passed(f, n) = 0}
  <2>1. 0 \in Good
    BY <1>3, PassedType, RateAssumption
  <2>2. ASSUME NEW n \in Nat, n \in Good PROVE n + 1 \in Good
    <3> SUFFICES ASSUME n + 1 <= Window PROVE Passed(f, n + 1) = 0
      OBVIOUS
    <3>1. /\ n <= Window /\ n + 1 \in 1 .. Window
          /\ 1 .. n + 1 = (1 .. n) \cup {n + 1} /\ n + 1 \notin 1 .. n
      BY RateAssumption
    <3>2. IsFiniteSet(1 .. n)
      BY FS_Interval
    <3>3. \A k \in 1 .. Window : f[k] = 0
      OBVIOUS
    <3>4. \A k \in (1 .. n) \cup {n + 1} : f[k] \in Nat
      BY <3>1, <3>3, RateAssumption
    <3>5. Passed(f, n + 1) = f[n + 1] + Passed(f, n)
      <4> HIDE DEF f
      <4> QED BY <3>1, <3>2, <3>4, SumAdd DEF Passed
    <3> QED BY <2>2, <3>1, <3>3, <3>5
  <2>3. \A n \in Nat : n \in Good
    <3> HIDE DEF Good
    <3> QED BY <2>1, <2>2, NumberInduction
  <2> QED BY <2>3, RateAssumption
<1>6. \A s \in Stores : admitted[s] = f
  BY <1>1
<1> HIDE DEF f
<1>7. Since(0) = Window /\ Window \in 0 .. Window /\ 1 \in 0 .. Window /\ Redis \in Stores
      /\ Instances \subseteq Stores
  BY RateAssumption DEF Since, Stores
<1>8. CounterKnows(admitted[Redis], counter, lost)
  BY <1>1, <1>2, <1>5, <1>6, <1>7, RateAssumption DEF CounterKnows
<1>9. \A i \in Instances : Passed(admitted[i], Window) <= Limit
  BY <1>5, <1>6, <1>7, RateAssumption
<1> QED BY <1>4, <1>8, <1>9 DEF RateInv

\* In no span of a window's length do more requests pass than two windows of Redis and one
\* of each instance allow, and a counter with hits expires: for every limit, every length
\* of the window and every number of instances.
THEOREM PassesAreBounded == RateSpec => []PassesBounded
<1>1. RateInv => PassesBounded
  <2> SUFFICES ASSUME RateInv PROVE PassesBounded
    OBVIOUS
  <2>1. RateTypes /\ CounterKnows(admitted[Redis], counter, lost)
    BY DEF RateInv
  <2>2. counter.hits > 0 => counter.ttl > 0
    <3>1. counter.hits > 0 => counter.ttl \in 1 .. Window
      BY <2>1 DEF CounterKnows
    <3> QED BY <3>1, RateAssumption
  <2>3. ASSUME lost = 0 PROVE Recent(Redis) <= 2 * Limit
    <3>1. Since(lost) = Window /\ Recent(Redis) = Passed(admitted[Redis], Window)
          /\ Window \in 0 .. Window /\ lost \in 0 .. Window
      BY <2>3, RateAssumption DEF Since, Recent, Passed
    <3>2. admitted[Redis] \in Ticks
      BY <2>1 DEF RateTypes, Stores
    <3>3. Passed(admitted[Redis], Window) \in Nat
      BY <3>1, <3>2, PassedType
    <3>4. CASE counter.hits = 0
      <4>1. Passed(admitted[Redis], Window) <= Limit
        BY <2>1, <3>1, <3>4 DEF CounterKnows
      <4> QED BY <3>1, <3>3, <4>1, RateAssumption
    <3>5. CASE counter.hits > 0
      <4> DEFINE e == Present(counter.ttl, lost)
      <4>1. /\ counter.ttl \in 1 .. Window
            /\ Passed(admitted[Redis], e) <= Limit
            /\ Passed(admitted[Redis], Window) <= Passed(admitted[Redis], e) + Limit
        BY <2>1, <3>1, <3>5 DEF CounterKnows
      <4>2. e \in 0 .. Window
        BY <3>1, <4>1, SpanTypes
      <4> HIDE DEF e
      <4>3. Passed(admitted[Redis], e) \in Nat
        BY <3>2, <4>2, PassedType
      <4> QED BY <3>1, <3>3, <4>1, <4>3, RateAssumption
    <3> QED BY <2>1, <3>4, <3>5 DEF RateTypes
  <2>4. \A i \in Instances : Recent(i) <= Limit
    BY DEF RateInv, Recent, Passed
  <2> QED BY <2>2, <2>3, <2>4 DEF PassesBounded
<1> QED BY <1>1, RateStart, RateStep, PTL DEF RateSpec

-----------------------------------------------------------------------------
(* SchemaMigrations *)

\* The proof that the migrations fit in every order of runs and reverts, for any number
\* of processes and of rows, and any releases.  What single migrations do is the
\* assumption, a fact about thirty constants that TLC evaluates.

\* The first n migrations are recorded.
FirstRows(n) == [i \in 1..n |-> i]

\* The table of schemas and rows that a run computes is g, and what it holds for i.
Ran(d, g, i) ==
  IF i = 0 THEN [ok |-> TRUE, schema |-> schema, applied |-> applied]
           ELSE WithUp(d, g[i - 1], i)
IsRun(d, g) == g = [i \in 0..deployer[d].release |-> Ran(d, g, i)]

\* Recorded are the first migrations, with a schema they make; the rows fit.
Fits(rows, s) ==
  /\ \E n \in 0..30 : rows = FirstRows(n) /\ s \in {Built[n], Reverted[n]}
  /\ \A f \in facts : Allowed(f, s)

\* Who holds the lock is in a run, and what a run read is still so.
SchemaInv ==
  /\ deployer = [d \in Deployers |-> deployer[d]]
  /\ \A d \in Deployers :
       /\ DOMAIN deployer[d] = {"pc", "release", "read"}
       /\ deployer[d].pc \in {"idle", "waits", "locked", "runs", "reverts"}
       /\ deployer[d].release \in 0..30
       /\ deployer[d].pc \in {"locked", "runs"} <=> lock = d
  /\ overlapped \in BOOLEAN
  /\ facts \subseteq Range(Facts)
  /\ ~overlapped =>
       /\ Fits(applied, schema)
       /\ \A d \in Deployers : deployer[d].pc = "runs" => deployer[d].read = applied

\* The last of the first rows, and what is left without it.
LEMMA FirstRowsLast ==
  ASSUME NEW n \in 1..30
  PROVE  /\ Last(FirstRows(n)) = n
         /\ RemoveFirst(FirstRows(n), n) = FirstRows(n - 1)
<1> DEFINE s == FirstRows(n)
           I == {i \in 1..Len(s) : s[i] = n}
<1>1. Len(s) = n /\ s \in Seq(Nat) /\ \A i \in 1..n : s[i] = i
  BY DEF FirstRows
<1>2. I = {n}
  BY <1>1
<1>3. SelectInSeq(s, LAMBDA v : v = n) = n
  <2>1. (CHOOSE x \in {n} : \A y \in {n} : x <= y) = n
    OBVIOUS
  <2> QED BY <1>2, <2>1 DEF SelectInSeq, Min
<1>4. RemoveAt(s, n) = FirstRows(n - 1)
  BY <1>1 DEF RemoveAt, FirstRows
<1>5. Last(s) = n
  BY <1>1 DEF Last
<1>6. \E i \in 1..Len(s) : s[i] = n
  BY <1>1
<1>7. RemoveFirst(s, n) = RemoveAt(s, n)
  <2> HIDE DEF s
  <2> QED BY <1>3, <1>6 DEF RemoveFirst
<1> QED BY <1>4, <1>5, <1>7

\* The schemas of n migrations.
LEMMA SchemasOf ==
  ASSUME NEW n \in 0..30, NEW s, <<n, s>> \in Histories
  PROVE  s \in {Built[n], Reverted[n]}
BY DEF Histories

\* What is assumed of the next up.
LEMMA UpLeads ==
  ASSUME NEW n \in 0..29, NEW s \in {Built[n], Reverted[n]}
  PROVE  /\ Leads(Migrations[n + 1].up, s, n + 1)
         /\ \A f \in Spared(Migrations[n + 1].up, s) : Allowed(f, Result(Migrations[n + 1].up, s))
<1>1. n \in 0..30 /\ n < 30
  OBVIOUS
<1> QED BY <1>1, MigrationsAssumption, Zenon

\* What is assumed of the last down.
LEMMA DownLeads ==
  ASSUME NEW n \in 1..30, NEW s \in {Built[n], Reverted[n]}
  PROVE  /\ Leads(Migrations[n].down, s, n - 1)
         /\ \A f \in Spared(Migrations[n].down, s) :
              TableItself(f.table) \in Result(Migrations[n].down, s) =>
                Allowed(f, Result(Migrations[n].down, s))
<1>1. n \in 0..30 /\ n > 0
  OBVIOUS
<1> QED BY <1>1, MigrationsAssumption, Zenon

\* The next up keeps rows and schema fitting.
LEMMA UpFits ==
  ASSUME NEW n \in 0..29, NEW s \in {Built[n], Reverted[n]}, facts \subseteq Range(Facts),
         \A f \in facts : Allowed(f, s), ~Refused(Migrations[n + 1].up)
  PROVE  Fits(FirstRows(n + 1), Result(Migrations[n + 1].up, s))
<1> DEFINE up == Migrations[n + 1].up
<1>1. /\ <<n + 1, Result(up, s)>> \in Histories
      /\ \A f \in Spared(up, s) : Allowed(f, Result(up, s))
  BY UpLeads DEF Leads
<1>2. facts \subseteq Spared(up, s)
  BY DEF Spared, Refused
<1> QED BY <1>1, <1>2, SchemasOf DEF Fits

\* The last down takes the schema back by one migration.
LEMMA DownFits ==
  ASSUME NEW n \in 1..30, NEW s \in {Built[n], Reverted[n]}, facts \subseteq Range(Facts),
         \A f \in facts : Allowed(f, s), ~Refused(Migrations[n].down)
  PROVE  /\ Result(Migrations[n].down, s) \in {Built[n - 1], Reverted[n - 1]}
         /\ \A f \in facts : TableItself(f.table) \in Result(Migrations[n].down, s) =>
              Allowed(f, Result(Migrations[n].down, s))
<1> DEFINE down == Migrations[n].down
<1>1. /\ <<n - 1, Result(down, s)>> \in Histories
      /\ \A f \in Spared(down, s) :
           TableItself(f.table) \in Result(down, s) => Allowed(f, Result(down, s))
  BY DownLeads DEF Leads
<1>2. facts \subseteq Spared(down, s)
  BY DEF Spared, Refused
<1> QED BY <1>1, <1>2, SchemasOf

\* The table a run computes exists.
LEMMA RunExists ==
  ASSUME NEW d \in Deployers, deployer[d].release \in Nat
  PROVE  \E g : IsRun(d, g)
<1> DEFINE Good == {n \in Nat : \E g : \A i \in 0..n : g[i] = Ran(d, g, i)}
<1>1. 0 \in Good
  <2> DEFINE h == [i \in {0} |-> [ok |-> TRUE, schema |-> schema, applied |-> applied]]
  <2>1. \A i \in 0..0 : h[i] = Ran(d, h, i)
    BY DEF Ran
  <2> QED BY <2>1
<1>2. ASSUME NEW n \in Nat, n \in Good PROVE n + 1 \in Good
  <2>1. PICK g : \A i \in 0..n : g[i] = Ran(d, g, i)
    BY <1>2
  <2> DEFINE h == [i \in 0..(n + 1) |-> IF i <= n THEN g[i] ELSE Ran(d, g, i)]
  <2>2. ASSUME NEW i \in 0..(n + 1) PROVE h[i] = Ran(d, h, i)
    <3>1. h[i] = Ran(d, g, i)
      BY <2>1
    <3>2. i # 0 => h[i - 1] = g[i - 1]
      OBVIOUS
    <3> QED BY <3>1, <3>2 DEF Ran
  <2>3. \E k : \A i \in 0..(n + 1) : k[i] = Ran(d, k, i)
    <3> HIDE DEF h
    <3> QED BY <2>2
  <2> QED BY <2>3
<1>3. deployer[d].release \in Good
  <2> HIDE DEF Good
  <2> QED BY <1>1, <1>2, NumberInduction
<1>4. PICK g : \A i \in 0..deployer[d].release : g[i] = Ran(d, g, i)
  BY <1>3
<1> DEFINE h == [i \in 0..deployer[d].release |-> g[i]]
<1>5. ASSUME NEW i \in 0..deployer[d].release PROVE h[i] = Ran(d, h, i)
  <2>1. i # 0 => h[i - 1] = g[i - 1]
    OBVIOUS
  <2> QED BY <1>4, <2>1 DEF Ran
<1>6. IsRun(d, h)
  BY <1>5 DEF IsRun
<1> QED BY <1>6

\* What a run commits fits, when all its migrations ran.
LEMMA RunFits ==
  ASSUME NEW d \in Deployers, deployer[d].release \in 0..30, deployer[d].read = applied,
         facts \subseteq Range(Facts), Fits(applied, schema), Upgraded(d).ok
  PROVE  Fits(Upgraded(d).applied, Upgraded(d).schema)
<1> DEFINE r == deployer[d].release
           g == CHOOSE g : IsRun(d, g)
<1>1. Upgraded(d) = g[r]
  BY DEF Upgraded, IsRun, Ran
<1>2. IsRun(d, g)
  BY RunExists
<1> HIDE DEF g
<1>3. \A i \in 0..r : g[i] = Ran(d, g, i)
  BY <1>2 DEF IsRun
<1>4. PICK n \in 0..30 : applied = FirstRows(n) /\ schema \in {Built[n], Reverted[n]}
  BY DEF Fits
<1>5. \A i \in Nat : i \in Range(deployer[d].read) <=> i \in 1..n
  BY <1>4 DEF FirstRows, Range
<1> DEFINE rows(i) == IF i <= n THEN n ELSE i
           Good == {i \in Nat : i <= r /\ g[i].ok =>
                       /\ g[i].applied = FirstRows(rows(i))
                       /\ g[i].schema \in {Built[rows(i)], Reverted[rows(i)]}
                       /\ \A f \in facts : Allowed(f, g[i].schema)}
<1>6. 0 \in Good
  <2>1. g[0] = [ok |-> TRUE, schema |-> schema, applied |-> applied]
    <3>1. g[0] = Ran(d, g, 0)
      BY <1>3
    <3> QED BY <3>1, Zenon DEF Ran
  <2> QED BY <1>4, <2>1 DEF Fits
<1>7. ASSUME NEW i \in Nat, i \in Good PROVE i + 1 \in Good
  <2> SUFFICES ASSUME i + 1 <= r, g[i + 1].ok
               PROVE  /\ g[i + 1].applied = FirstRows(rows(i + 1))
                      /\ g[i + 1].schema \in {Built[rows(i + 1)], Reverted[rows(i + 1)]}
                      /\ \A f \in facts : Allowed(f, g[i + 1].schema)
    OBVIOUS
  <2>1. g[i + 1] = WithUp(d, g[i], i + 1)
    BY <1>3 DEF Ran
  <2>2. CASE i + 1 <= n
    <3>1. g[i + 1] = g[i]
      BY <1>5, <2>1, <2>2 DEF WithUp
    <3> QED BY <1>7, <2>2, <3>1
  <2>3. CASE ~(i + 1 <= n)
    <3> DEFINE up == Migrations[i + 1].up
    <3>1. g[i + 1] = [ok |-> g[i].ok /\ Runs(up, g[i].schema) /\ ~Refused(up),
                      schema |-> Result(up, g[i].schema), applied |-> Append(g[i].applied, i + 1)]
      BY <1>5, <2>1, <2>3 DEF WithUp
    <3>2. g[i].ok /\ ~Refused(up)
      <4> DEFINE ok == g[i].ok /\ Runs(up, g[i].schema) /\ ~Refused(up)
                 new == Result(up, g[i].schema)
                 rest == Append(g[i].applied, i + 1)
      <4>1. g[i + 1] = [ok |-> ok, schema |-> new, applied |-> rest]
        BY <3>1
      <4>2. ok
        <5> HIDE DEF ok, new, rest
        <5> QED BY <4>1
      <4> QED BY <4>2
    <3>3. rows(i) = i /\ rows(i + 1) = i + 1 /\ i \in 0..29
      BY <2>3
    <3>4. /\ g[i].applied = FirstRows(i) /\ g[i].schema \in {Built[i], Reverted[i]}
          /\ \A f \in facts : Allowed(f, g[i].schema)
      BY <1>7, <3>2, <3>3
    <3>5. Append(FirstRows(i), i + 1) = FirstRows(i + 1)
      BY <3>3 DEF FirstRows
    <3>6. PICK s \in {Built[i], Reverted[i]} : s = g[i].schema
      BY <3>4
    <3>7. Fits(FirstRows(i + 1), Result(up, s))
      BY <3>2, <3>3, <3>4, <3>6, UpFits
    <3>8. /\ g[i + 1].applied = FirstRows(i + 1)
          /\ g[i + 1].schema = Result(up, s)
      BY <3>1, <3>4, <3>5, <3>6
    <3>9. g[i + 1].schema \in {Built[i + 1], Reverted[i + 1]}
      <4>1. <<i + 1, Result(up, s)>> \in Histories
        BY <3>3, <3>6, UpLeads DEF Leads
      <4> QED BY <3>3, <3>8, <4>1, SchemasOf
    <3> QED BY <3>3, <3>7, <3>8, <3>9 DEF Fits
  <2> QED BY <2>2, <2>3
<1>8. r \in Good
  <2> HIDE DEF Good
  <2> QED BY <1>6, <1>7, NumberInduction
<1>9. rows(r) \in 0..30
  OBVIOUS
<1>10. /\ g[r].applied = FirstRows(rows(r))
       /\ g[r].schema \in {Built[rows(r)], Reverted[rows(r)]}
       /\ \A f \in facts : Allowed(f, g[r].schema)
  <2>1. g[r].ok /\ r <= r
    BY <1>1
  <2> QED BY <1>8, <2>1
<1> HIDE DEF rows, Good
<1> QED BY <1>1, <1>9, <1>10 DEF Fits

\* An empty database has an empty history.
LEMMA SchemaInitially == SchemaInit => SchemaInv
<1> SUFFICES ASSUME SchemaInit PROVE SchemaInv
  OBVIOUS
<1>1. FirstRows(0) = <<>>
  BY DEF FirstRows
<1>2. {} \in {Built[0], Reverted[0]}
  <2>1. Built[0] \in {Built[0], Reverted[0]} /\ 0 \in 0..30
    OBVIOUS
  <2>2. Built[0] = {}
    BY <2>1, MigrationsAssumption, Zenon
  <2> QED BY <2>2
<1>3. Fits(applied, schema)
  <2>1. applied = FirstRows(0) /\ schema \in {Built[0], Reverted[0]} /\ 0 \in 0..30
    BY <1>1, <1>2 DEF SchemaInit
  <2> QED BY <2>1 DEF SchemaInit, Fits
<1>4. /\ deployer = [d \in Deployers |-> deployer[d]]
      /\ \A d \in Deployers : deployer[d] = Idle /\ lock # d
      /\ overlapped \in BOOLEAN /\ facts \subseteq Range(Facts)
  BY DeployerAssumption DEF SchemaInit
<1>5. Idle.pc = "idle" /\ Idle.release \in 0..30 /\ DOMAIN Idle = {"pc", "release", "read"}
  BY DEF Idle
<1> QED BY <1>3, <1>4, <1>5 DEF SchemaInv

\* The process d ends: it is idle, and gives back the lock it may hold.
LEMMA EndsLocks ==
  ASSUME SchemaInv, NEW d \in Deployers, Ends(d)
  PROVE  /\ deployer' = [e \in Deployers |-> deployer'[e]]
         /\ deployer'[d] = Idle /\ \A e \in Deployers \ {d} : deployer'[e] = deployer[e]
         /\ \A e \in Deployers :
              /\ DOMAIN deployer'[e] = {"pc", "release", "read"}
              /\ deployer'[e].pc \in {"idle", "waits", "locked", "runs", "reverts"}
              /\ deployer'[e].release \in 0..30
              /\ deployer'[e].pc \in {"locked", "runs"} <=> lock' = e
<1>1. /\ deployer' = [e \in Deployers |-> deployer'[e]]
      /\ deployer'[d] = Idle /\ \A e \in Deployers \ {d} : deployer'[e] = deployer[e]
  BY DEF Ends, SchemaInv
<1>2. deployer'[d].pc = "idle" /\ deployer'[d].release = 0
      /\ DOMAIN deployer'[d] = {"pc", "release", "read"}
  BY <1>1 DEF Idle
<1>3. \A e \in Deployers \ {d} : lock' = e <=> lock = e
  BY DeployerAssumption DEF Ends
<1>4. lock' # d
  BY DeployerAssumption DEF Ends
<1> QED BY <1>1, <1>2, <1>3, <1>4 DEF SchemaInv

\* The process d goes on to its next step without touching the schema.
LEMMA GoesOn ==
  ASSUME SchemaInv, NEW d \in Deployers, BeginRun(d) \/ TakeLock(d) \/ LoadApplied(d)
  PROVE  SchemaInv'
<1>1. UNCHANGED <<schema, applied, facts, overlapped>> /\ Fits(applied, schema)' = Fits(applied, schema)
  BY DEF BeginRun, TakeLock, LoadApplied, Fits, FirstRows
<1>2. /\ deployer' = [e \in Deployers |-> deployer'[e]]
      /\ \A e \in Deployers \ {d} : deployer'[e] = deployer[e]
  BY DEF BeginRun, TakeLock, LoadApplied, SchemaInv
<1>3. /\ DOMAIN deployer'[d] = {"pc", "release", "read"}
      /\ deployer'[d].pc \in {"waits", "locked", "runs", "reverts"}
      /\ deployer'[d].release \in 0..30
      /\ deployer'[d].pc = "runs" => deployer'[d].read = applied
      /\ deployer'[d].pc \in {"locked", "runs"} <=> lock' = d
      /\ \A e \in Deployers \ {d} : lock' = e <=> lock = e
  <2>1. CASE BeginRun(d)
    <3>1. PICK n \in Releases : deployer' = [deployer EXCEPT ![d] = [Idle EXCEPT !.pc = "waits", !.release = n]]
      BY <2>1 DEF BeginRun
    <3>2. n \in 0..30
      BY DeployerAssumption
    <3>3. deployer'[d] = [pc |-> "waits", release |-> n, read |-> <<>>]
      BY <3>1 DEF SchemaInv, Idle
    <3>4. lock' = lock /\ lock # d
      BY <2>1 DEF BeginRun, SchemaInv
    <3> QED BY <3>2, <3>3, <3>4
  <2>2. CASE TakeLock(d)
    <3>1. deployer'[d] = [deployer[d] EXCEPT !.pc = "locked"]
      BY <2>2 DEF TakeLock, SchemaInv
    <3>2. lock' = d /\ \A e \in Deployers : lock # e
      BY <2>2, DeployerAssumption DEF TakeLock
    <3> QED BY <3>1, <3>2 DEF SchemaInv
  <2>3. CASE LoadApplied(d)
    <3>1. CASE deployer[d].pc = "locked"
      <4>1. deployer'[d] = [deployer[d] EXCEPT !.pc = "runs", !.read = applied]
        BY <2>3, <3>1 DEF LoadApplied, SchemaInv
      <4>2. lock' = lock /\ lock = d
        BY <2>3, <3>1 DEF LoadApplied, SchemaInv
      <4> QED BY <4>1, <4>2 DEF SchemaInv
    <3>2. CASE deployer[d].pc # "locked"
      <4>1. PICK n \in Releases :
              deployer' = [deployer EXCEPT ![d] = [pc |-> "reverts", release |-> n, read |-> applied]]
        BY <2>3, <3>2 DEF LoadApplied
      <4>2. n \in 0..30
        BY DeployerAssumption
      <4>3. deployer'[d] = [pc |-> "reverts", release |-> n, read |-> applied]
        BY <4>1 DEF SchemaInv
      <4>4. lock' = lock /\ lock # d
        BY <2>3, <3>2 DEF LoadApplied, SchemaInv
      <4> QED BY <4>2, <4>3, <4>4
    <3> QED BY <3>1, <3>2
  <2> QED BY <2>1, <2>2, <2>3
<1> QED BY <1>1, <1>2, <1>3 DEF SchemaInv

\* A run commits every pending up, or nothing.
LEMMA RunAllKeeps ==
  ASSUME SchemaInv, NEW d \in Deployers, RunAll(d)
  PROVE  SchemaInv'
<1>1. UNCHANGED <<facts, overlapped>> /\ Ends(d) /\ deployer[d].pc = "runs"
  BY DEF RunAll
<1>2. \A e \in Deployers \ {d} : deployer[e].pc # "runs"
  BY <1>1 DEF SchemaInv
<1>3. ASSUME ~overlapped PROVE Fits(applied', schema')
  <2>1. CASE Upgraded(d).ok
    <3>1. schema' = Upgraded(d).schema /\ applied' = Upgraded(d).applied
      BY <2>1 DEF RunAll
    <3>2. Fits(Upgraded(d).applied, Upgraded(d).schema)
      BY <1>1, <1>3, <2>1, RunFits DEF SchemaInv
    <3> QED BY <3>1, <3>2
  <2>2. CASE ~Upgraded(d).ok
    BY <1>3, <2>2 DEF RunAll, SchemaInv
  <2> QED BY <2>1, <2>2
<1>4. ~overlapped => Fits(applied, schema)'
  BY <1>1, <1>3 DEF Fits, FirstRows
<1> QED BY <1>1, <1>2, <1>4, EndsLocks DEF SchemaInv, Idle

\* A revert takes the last migration back, or changes nothing.
LEMMA UndoLastKeeps ==
  ASSUME SchemaInv, NEW d \in Deployers, UndoLast(d)
  PROVE  SchemaInv'
<1> DEFINE read == deployer[d].read
           last == Last(read)
           change == Migrations[last].down
           done == /\ read # <<>> /\ last <= deployer[d].release
                   /\ Runs(change, schema) /\ ~Refused(change)
<1>1. Ends(d) /\ deployer[d].pc = "reverts"
  BY DEF UndoLast
<1>2. CASE ~done
  <2>1. UNCHANGED <<schema, applied, facts, overlapped>>
    BY <1>2 DEF UndoLast
  <2>2. Fits(applied, schema)' = Fits(applied, schema)
    BY <2>1 DEF Fits, FirstRows
  <2> QED BY <1>1, <2>1, <2>2, EndsLocks DEF SchemaInv, Idle
<1>3. CASE done
  <2>1. /\ schema' = Result(change, schema)
        /\ applied' = RemoveFirst(applied, last)
        /\ facts' = {f \in facts : TableItself(f.table) \in schema'}
        /\ overlapped' = (overlapped \/ read # applied \/ OthersRead(d))
    BY <1>3 DEF UndoLast
  <2>2. facts' \subseteq Range(Facts) /\ overlapped' \in BOOLEAN
    <3>1. facts' \subseteq facts
      BY <2>1
    <3>2. overlapped' \in BOOLEAN
      <4> HIDE DEF read
      <4> QED BY <2>1
    <3> QED BY <3>1, <3>2 DEF SchemaInv
  <2>3. ASSUME ~overlapped'
        PROVE  /\ Fits(applied, schema)'
               /\ \A e \in Deployers \ {d} : deployer[e].pc # "runs"
    <3>1. ~overlapped /\ read = applied /\ ~OthersRead(d)
      <4> HIDE DEF read
      <4> QED BY <2>1, <2>3
    <3>2. PICK n \in 0..30 : applied = FirstRows(n) /\ schema \in {Built[n], Reverted[n]}
      BY <3>1 DEF SchemaInv, Fits
    <3>3. n \in 1..30
      <4>1. FirstRows(0) = <<>>
        BY DEF FirstRows
      <4>2. n # 0
        BY <1>3, <3>1, <3>2, <4>1
      <4> QED BY <4>2
    <3>4. last = n /\ applied' = FirstRows(n - 1)
      BY <2>1, <3>1, <3>2, <3>3, FirstRowsLast
    <3>5. /\ schema' \in {Built[n - 1], Reverted[n - 1]}
          /\ \A f \in facts : TableItself(f.table) \in schema' => Allowed(f, schema')
      <4>1. ~Refused(Migrations[n].down) /\ schema' = Result(Migrations[n].down, schema)
        BY <1>3, <2>1, <3>4
      <4>2. facts \subseteq Range(Facts) /\ \A f \in facts : Allowed(f, schema)
        BY <3>1 DEF SchemaInv, Fits
      <4> QED BY <3>2, <3>3, <4>1, <4>2, DownFits
    <3>6. Fits(applied, schema)'
      <4>1. n - 1 \in 0..30 /\ \A f \in facts' : Allowed(f, schema')
        BY <2>1, <3>3, <3>5
      <4>2. \E m \in 0..30 : applied' = FirstRows(m) /\ schema' \in {Built[m], Reverted[m]}
        BY <3>4, <3>5, <4>1
      <4> QED BY <4>1, <4>2 DEF Fits, FirstRows
    <3>7. \A e \in Deployers \ {d} : deployer[e].pc # "runs"
      BY <3>1 DEF OthersRead
    <3> QED BY <3>6, <3>7
  <2> HIDE DEF read, last, change, done
  <2> QED BY <1>1, <2>2, <2>3, EndsLocks DEF SchemaInv, Idle
<1> QED BY <1>2, <1>3

\* Every step of a process and of the shop keeps the invariant.
LEMMA SchemaStep == SchemaInv /\ [SchemaNext]_schemaVars => SchemaInv'
<1> SUFFICES ASSUME SchemaInv, [SchemaNext]_schemaVars PROVE SchemaInv'
  OBVIOUS
<1>1. ASSUME NEW d \in Deployers, BeginRun(d) \/ TakeLock(d) \/ LoadApplied(d) PROVE SchemaInv'
  BY <1>1, GoesOn
<1>2. ASSUME NEW d \in Deployers, Dies(d) PROVE SchemaInv'
  <2>1. UNCHANGED <<schema, applied, facts, overlapped>> /\ Ends(d)
    BY <1>2 DEF Dies
  <2>2. Fits(applied, schema)' = Fits(applied, schema)
    BY <2>1 DEF Fits, FirstRows
  <2> QED BY <2>1, <2>2, EndsLocks DEF SchemaInv, Idle
<1>3. CASE RowsChange
  <2>1. UNCHANGED <<schema, applied, lock, deployer, overlapped>>
    BY <1>3 DEF RowsChange
  <2>2. PICK f \in Range(Facts) : (Allowed(f, schema) /\ facts' = facts \cup {f}) \/ facts' = facts \ {f}
    BY <1>3 DEF RowsChange
  <2>3. facts' \subseteq Range(Facts) /\ \A g \in facts' : g \in facts \/ Allowed(g, schema)
    BY <2>2 DEF SchemaInv
  <2>4. Fits(applied, schema) => Fits(applied, schema)'
    BY <2>1, <2>3 DEF Fits, FirstRows
  <2> QED BY <2>1, <2>3, <2>4 DEF SchemaInv
<1>4. CASE UNCHANGED schemaVars
  <2>1. Fits(applied, schema)' = Fits(applied, schema)
    BY <1>4 DEF schemaVars, Fits, FirstRows
  <2> QED BY <1>4, <2>1 DEF schemaVars, SchemaInv
<1> QED BY <1>1, <1>2, <1>3, <1>4, RunAllKeeps, UndoLastKeeps DEF SchemaNext

\* Unless a revert overlapped another process the first migrations are recorded, with a
\* schema that they make, and a run reads what it will find.
THEOREM SchemaInvariance == SchemaSpec => []SchemaInv
BY SchemaInitially, SchemaStep, PTL DEF SchemaSpec

\* Every up and every down finds the schema it was written for, in every order of runs and
\* reverts that do not overlap, with any number of processes and any releases.
THEOREM EveryMigrationFits == SchemaSpec => []MigrationsFit
<1>1. SchemaInv => MigrationsFit
  <2> SUFFICES ASSUME SchemaInv, ~overlapped
               PROVE  /\ applied = [i \in 1..Len(applied) |-> i]
                      /\ applied = <<>> => schema = {}
                      /\ Len(applied) = 30 => schema = Built[30]
                      /\ Len(applied) \in 1..29 => Runs(Migrations[Len(applied) + 1].up, schema)
                      /\ applied # <<>> => Runs(Migrations[Last(applied)].down, schema)
                      /\ \A f \in facts : Allowed(f, schema)
    BY DEF MigrationsFit
  <2>1. PICK n \in 0..30 : applied = FirstRows(n) /\ schema \in {Built[n], Reverted[n]}
    BY DEF SchemaInv, Fits
  <2>2. Len(applied) = n /\ (applied = <<>> <=> n = 0)
    <3>1. FirstRows(n) \in Seq(Nat) /\ Len(FirstRows(n)) = n
      BY DEF FirstRows
    <3>2. n = 0 => FirstRows(n) = <<>>
      BY DEF FirstRows
    <3> QED BY <2>1, <3>1, <3>2
  <2>3. n = 0 => schema = {}
    BY <2>1, MigrationsAssumption, Zenon
  <2>4. n = 30 => schema = Built[30]
    BY <2>1, MigrationsAssumption, Zenon
  <2>5. n \in 1..29 => Runs(Migrations[n + 1].up, schema)
    <3>1. n \in 0..29 => Leads(Migrations[n + 1].up, schema, n + 1)
      BY <2>1, UpLeads
    <3> QED BY <3>1 DEF Leads
  <2>6. applied # <<>> => Runs(Migrations[Last(applied)].down, schema)
    <3>1. n \in 1..30 => Leads(Migrations[n].down, schema, n - 1) /\ Last(applied) = n
      BY <2>1, DownLeads, FirstRowsLast
    <3> QED BY <2>2, <3>1 DEF Leads
  <2>7. \A f \in facts : Allowed(f, schema)
    BY DEF SchemaInv, Fits
  <2> QED BY <2>1, <2>2, <2>3, <2>4, <2>5, <2>6, <2>7 DEF FirstRows
<1> QED BY <1>1, SchemaInvariance, PTL

\* A sequence of migrations that names none twice.
NamesOnce(rows) ==
  rows \in Seq(Nat) /\ \A i, j \in 1..Len(rows) : rows[i] = rows[j] => i = j

\* Whatever overlaps, no migration is recorded twice: a run holds the lock since it read
\* the rows, and others only take rows away meanwhile.
OnceInv ==
  /\ SchemaInv
  /\ NamesOnce(applied)
  /\ \A d \in Deployers :
       deployer[d].pc = "runs" => Range(applied) \subseteq Range(deployer[d].read)

\* The rows of a migration that is removed.
LEMMA RemovedOnce ==
  ASSUME NEW rows, NamesOnce(rows), NEW n
  PROVE  NamesOnce(RemoveFirst(rows, n)) /\ Range(RemoveFirst(rows, n)) \subseteq Range(rows)
<1>1. rows \in Seq(Nat)
  BY DEF NamesOnce
<1>2. CASE ~ \E i \in 1..Len(rows) : rows[i] = n
  BY <1>2 DEF RemoveFirst
<1>3. CASE \E i \in 1..Len(rows) : rows[i] = n
  <2>1. PICK k \in 1..Len(rows) : rows[k] = n
    BY <1>3
  <2>2. {i \in 1..Len(rows) : rows[i] = n} = {k}
    BY <2>1 DEF NamesOnce
  <2>3. SelectInSeq(rows, LAMBDA v : v = n) = k
    <3>1. (CHOOSE x \in {k} : \A y \in {k} : x <= y) = k
      BY <1>1, <2>1
    <3> QED BY <2>2, <3>1 DEF SelectInSeq, Min
  <2>4. RemoveFirst(rows, n) = RemoveAt(rows, k)
    BY <1>3, <2>3 DEF RemoveFirst
  <2> DEFINE rest == [m \in 1..(Len(rows) - 1) |-> IF m < k THEN rows[m] ELSE rows[m + 1]]
  <2>5. RemoveAt(rows, k) = rest
    BY <1>1, <2>1, WithoutOne DEF RemoveAt
  <2>6. rest \in Seq(Nat) /\ Len(rest) = Len(rows) - 1
    BY <1>1, <2>1
  <2>7. \A i, j \in 1..(Len(rows) - 1) : rest[i] = rest[j] => i = j
    BY <1>1, <2>1 DEF NamesOnce
  <2>8. \A i \in 1..(Len(rows) - 1) : rest[i] \in Range(rows)
    BY <1>1, <2>1 DEF Range
  <2>9. Range(rest) \subseteq Range(rows)
    BY <2>8 DEF Range
  <2> HIDE DEF rest
  <2> QED BY <2>4, <2>5, <2>6, <2>7, <2>9 DEF NamesOnce
<1> QED BY <1>2, <1>3

\* What a run commits names no migration twice.
LEMMA RunOnce ==
  ASSUME NEW d \in Deployers, deployer[d].release \in 0..30, NamesOnce(applied),
         Range(applied) \subseteq Range(deployer[d].read)
  PROVE  NamesOnce(Upgraded(d).applied)
<1> DEFINE r == deployer[d].release
           g == CHOOSE g : IsRun(d, g)
           read == Range(deployer[d].read)
<1>1. Upgraded(d) = g[r]
  BY DEF Upgraded, IsRun, Ran
<1>2. IsRun(d, g)
  BY RunExists
<1> HIDE DEF g
<1>3. \A i \in 0..r : g[i] = Ran(d, g, i)
  BY <1>2 DEF IsRun
<1> DEFINE Good == {i \in Nat : i <= r =>
                      /\ NamesOnce(g[i].applied)
                      /\ \A m \in 1..Len(g[i].applied) :
                           g[i].applied[m] \in read \/ g[i].applied[m] <= i}
<1>4. 0 \in Good
  <2>1. g[0].applied = applied
    BY <1>3 DEF Ran
  <2>2. \A m \in 1..Len(applied) : applied[m] \in read
    <3>1. \A m \in 1..Len(applied) : applied[m] \in Range(applied)
      BY DEF Range, NamesOnce
    <3> QED BY <3>1
  <2> HIDE DEF read
  <2> QED BY <2>1, <2>2
<1>5. ASSUME NEW i \in Nat, i \in Good PROVE i + 1 \in Good
  <2> SUFFICES ASSUME i + 1 <= r
               PROVE  /\ NamesOnce(g[i + 1].applied)
                      /\ \A m \in 1..Len(g[i + 1].applied) :
                           g[i + 1].applied[m] \in read \/ g[i + 1].applied[m] <= i + 1
    OBVIOUS
  <2>1. g[i + 1] = WithUp(d, g[i], i + 1)
    BY <1>3 DEF Ran
  <2> DEFINE old == g[i].applied
  <2>2. /\ NamesOnce(old)
        /\ \A m \in 1..Len(old) : old[m] \in read \/ old[m] <= i
    <3>1. i <= r
      OBVIOUS
    <3> HIDE DEF read
    <3> QED BY <1>5, <3>1
  <2>3. CASE i + 1 \in read
    <3>1. g[i + 1].applied = old
      BY <2>1, <2>3 DEF WithUp
    <3> HIDE DEF old
    <3> QED BY <2>2, <3>1 DEF NamesOnce
  <2>4. CASE i + 1 \notin read
    <3>1. g[i + 1].applied = Append(old, i + 1)
      BY <2>1, <2>4 DEF WithUp
    <3> HIDE DEF old, read
    <3>2. old \in Seq(Nat) /\ \A m \in 1..Len(old) : old[m] # i + 1
      BY <2>2, <2>4 DEF NamesOnce
    <3> QED BY <2>2, <3>1, <3>2 DEF NamesOnce
  <2> QED BY <2>3, <2>4
<1>6. r \in Good
  <2> HIDE DEF Good
  <2> QED BY <1>4, <1>5, NumberInduction
<1> QED BY <1>1, <1>6

\* Every step keeps the rows apart.
LEMMA OnceStep == OnceInv /\ [SchemaNext]_schemaVars => OnceInv'
<1> SUFFICES ASSUME OnceInv, [SchemaNext]_schemaVars PROVE OnceInv'
  OBVIOUS
<1>1. SchemaInv /\ SchemaInv'
  BY SchemaStep DEF OnceInv
<1>2. ASSUME applied' = applied,
             \A d \in Deployers : deployer'[d].pc = "runs" =>
               deployer'[d] = deployer[d] \/ deployer'[d].read = applied
      PROVE  OnceInv'
  <2>1. NamesOnce(applied)'
    BY <1>2 DEF OnceInv, NamesOnce
  <2>2. ASSUME NEW d \in Deployers, deployer'[d].pc = "runs"
        PROVE  Range(applied') \subseteq Range(deployer'[d].read)
    BY <1>2, <2>2 DEF OnceInv
  <2> QED BY <1>1, <2>1, <2>2 DEF OnceInv
<1>3. ASSUME NEW d \in Deployers, BeginRun(d) \/ TakeLock(d) PROVE OnceInv'
  <2>1. applied' = applied /\ \A e \in Deployers \ {d} : deployer'[e] = deployer[e]
    BY <1>1, <1>3 DEF SchemaInv, BeginRun, TakeLock
  <2>2. deployer'[d].pc # "runs"
    BY <1>1, <1>3 DEF SchemaInv, BeginRun, TakeLock, Idle
  <2> QED BY <1>2, <2>1, <2>2
<1>4. ASSUME NEW d \in Deployers, LoadApplied(d) PROVE OnceInv'
  <2>1. applied' = applied /\ \A e \in Deployers \ {d} : deployer'[e] = deployer[e]
    BY <1>1, <1>4 DEF SchemaInv, LoadApplied
  <2>2. deployer'[d].read = applied
    <3>1. CASE deployer[d].pc = "locked"
      <4>1. deployer'[d] = [deployer[d] EXCEPT !.pc = "runs", !.read = applied]
        BY <1>1, <1>4, <3>1 DEF SchemaInv, LoadApplied
      <4> QED BY <1>1, <4>1 DEF SchemaInv
    <3>2. CASE deployer[d].pc # "locked"
      <4>1. PICK n \in Releases :
              deployer' = [deployer EXCEPT ![d] = [pc |-> "reverts", release |-> n, read |-> applied]]
        BY <1>4, <3>2 DEF LoadApplied
      <4>2. deployer'[d] = [pc |-> "reverts", release |-> n, read |-> applied]
        BY <1>1, <4>1 DEF SchemaInv
      <4> QED BY <4>2
    <3> QED BY <3>1, <3>2
  <2> QED BY <1>2, <2>1, <2>2
<1>5. ASSUME NEW d \in Deployers, Ends(d), applied' = applied PROVE OnceInv'
  <2>1. deployer'[d].pc # "runs" /\ \A e \in Deployers \ {d} : deployer'[e] = deployer[e]
    BY <1>1, <1>5, EndsLocks DEF Idle
  <2> QED BY <1>2, <1>5, <2>1
<1>6. ASSUME NEW d \in Deployers, RunAll(d) PROVE OnceInv'
  <2>1. Ends(d) /\ deployer[d].pc = "runs"
    BY <1>6 DEF RunAll
  <2>2. CASE ~Upgraded(d).ok
    BY <1>5, <1>6, <2>1, <2>2 DEF RunAll
  <2>3. CASE Upgraded(d).ok
    <3>1. NamesOnce(Upgraded(d).applied)
      BY <1>1, <2>1, RunOnce DEF OnceInv, SchemaInv
    <3>2. NamesOnce(applied)'
      BY <1>6, <2>3, <3>1 DEF RunAll, NamesOnce
    <3>3. \A e \in Deployers : deployer'[e].pc # "runs"
      BY <1>1, <2>1, EndsLocks DEF SchemaInv, Idle
    <3> QED BY <1>1, <3>2, <3>3 DEF OnceInv
  <2> QED BY <2>2, <2>3
<1>7. ASSUME NEW d \in Deployers, UndoLast(d) PROVE OnceInv'
  <2>1. Ends(d)
    BY <1>7 DEF UndoLast
  <2>2. PICK n : applied' = applied \/ applied' = RemoveFirst(applied, n)
    BY <1>7 DEF UndoLast
  <2>3. NamesOnce(applied)' /\ Range(applied') \subseteq Range(applied)
    BY <2>2, RemovedOnce DEF OnceInv, NamesOnce
  <2>4. \A e \in Deployers : deployer'[e].pc = "runs" => deployer'[e] = deployer[e]
    BY <1>1, <2>1, EndsLocks DEF Idle
  <2> QED BY <1>1, <2>3, <2>4 DEF OnceInv
<1>8. ASSUME NEW d \in Deployers, Dies(d) PROVE OnceInv'
  BY <1>5, <1>8 DEF Dies
<1>9. CASE RowsChange \/ UNCHANGED schemaVars
  BY <1>2, <1>9 DEF RowsChange, schemaVars
<1> QED BY <1>3, <1>4, <1>6, <1>7, <1>8, <1>9 DEF SchemaNext

\* No migration is recorded twice, even when reverts overlap runs and each other; so a
\* revert that deletes the row of the last migration leaves none of it.
THEOREM NoneRecordedTwice ==
  SchemaSpec => [](\A i, j \in 1..Len(applied) : applied[i] = applied[j] => i = j)
<1>1. SchemaInit => OnceInv
  <2>1. SchemaInit => NamesOnce(applied) /\ \A d \in Deployers : deployer[d].pc # "runs"
    BY DEF SchemaInit, NamesOnce, Idle
  <2> QED BY <2>1, SchemaInitially DEF OnceInv
<1>2. OnceInv => \A i, j \in 1..Len(applied) : applied[i] = applied[j] => i = j
  BY DEF OnceInv, NamesOnce
<1> QED BY <1>1, <1>2, OnceStep, PTL DEF SchemaSpec
=============================================================================
