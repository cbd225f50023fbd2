---------------------------- MODULE UserAccounts ----------------------------
(***************************************************************************)
(* The accounts: logins with Google, which create an account or refresh    *)
(* its profile, and updates by administrators of role, status and          *)
(* permissions.  Every save reads the row once more and writes the columns *)
(* in which the account it holds differs: the one it read at the beginning *)
(* of the request.  Of the permissions only the right to update accounts   *)
(* is told apart.  Accounts are never deleted.                             *)
(***************************************************************************)
EXTENDS Naturals

CONSTANTS
  People,    \* the e-mail addresses, one account each
  Founder,   \* the first administrator
  Sessions   \* connections, each serving one request

VARIABLES
  account,    \* account[p]: the row of p, or NoAccount
  visit,      \* visit[s]: the request of connection s, and how far it came
  misplaced,  \* history: an account was saved over a row that had changed since it was
              \* read, or by somebody who has lost the right meanwhile
  resigned    \* history: somebody took the right to update accounts from themselves

userVars == <<account, visit, misplaced, resigned>>

ASSUME UserAssumption == Founder \in People

-----------------------------------------------------------------------------
Account ==
  [role: {"user", "admin"}, status: {"active", "disabled"}, manages: BOOLEAN]
NoAccount == [role |-> "none", status |-> "none", manages |-> FALSE]

\* Google's account of a new customer
NewAccount == [role |-> "user", status |-> "active", manages |-> FALSE]

Active(p) == account[p].status = "active"

\* JwtStrategy, then PermissionsGuard on the route of the update
MayUpdate(p) == Active(p) /\ (account[p].role = "admin" \/ account[p].manages)

\* A request of actor about the account of target: the account in memory, of which the
\* columns to be written remain after the SELECT of save, and whether another request
\* has changed the row since it was read first (history).
Visit(step, actor, target, memory) ==
  [step |-> step, actor |-> actor, target |-> target, memory |-> memory, outdated |-> FALSE]
NoVisit == Visit("idle", Founder, Founder, NoAccount)

Goes(s, new) ==
  /\ visit' = [visit EXCEPT ![s] = new]
  /\ UNCHANGED <<account, misplaced, resigned>>

-----------------------------------------------------------------------------
\* googleLogin: the account of the e-mail address is looked up; a disabled one is
\* refused, an active one gets its profile refreshed.
FindByEmail(s, p) ==
  /\ visit[s] = NoVisit
  /\ \/ account[p] = NoAccount
        /\ Goes(s, Visit("signup", p, p, NewAccount))
     \/ Active(p) /\ Goes(s, Visit("profile", p, p, account[p]))
     \/ account[p].status = "disabled" /\ Goes(s, NoVisit)

\* INSERT of a new account, unless another login of the same customer came first
\* (unique e-mail address).
SignUp(s) ==
  LET p == visit[s].target
  IN  /\ visit[s].step = "signup"
      /\ \/ /\ account[p] = NoAccount
            /\ account' = [account EXCEPT ![p] = NewAccount]
            /\ visit' = [visit EXCEPT ![s] = NoVisit]
            /\ UNCHANGED <<misplaced, resigned>>
         \/ account[p] # NoAccount /\ Goes(s, [visit[s] EXCEPT !.step = "raced"])

\* Mutant of FindAfterRace: the account that won the race is taken as it is.
TakeAfterRace(s) ==
  LET p == visit[s].target
  IN  /\ visit[s].step = "raced"
      /\ Goes(s, Visit("profile", p, p, account[p]))

\* The account that won the race; it may have been disabled by now.
FindAfterRace(s) ==
  LET p == visit[s].target
  IN  /\ visit[s].step = "raced"
      /\ \/ Active(p) /\ Goes(s, Visit("profile", p, p, account[p]))
         \/ ~Active(p) /\ Goes(s, NoVisit)

-----------------------------------------------------------------------------
\* update: the guards admit the actor ...
AdmitUpdate(s, actor, target) ==
  /\ visit[s] = NoVisit
  /\ MayUpdate(actor)
  /\ Goes(s, Visit("admitted", actor, target, NoAccount))

\* Mutant of SelfBlocked: role and status can be changed in one's own account.
NeverBlocked(s, request) == FALSE

\* Nobody changes their own role or status.
SelfBlocked(s, request) ==
  visit[s].actor = visit[s].target /\ (request.role # {} \/ request.status # {})

Provided(value, old) == IF value = {} THEN old ELSE CHOOSE v \in value : TRUE

\* ... the account is read, and gets the columns the request names.
FindAccount(s, request) ==
  LET row == account[visit[s].target]
  IN  /\ visit[s].step = "admitted"
      /\ \/ /\ row = NoAccount \/ SelfBlocked(s, request)
            /\ Goes(s, NoVisit)
         \/ /\ row # NoAccount /\ ~SelfBlocked(s, request)
            /\ Goes(s, [visit[s] EXCEPT !.step = "save", !.outdated = FALSE,
                 !.memory = [role |-> Provided(request.role, row.role),
                             status |-> Provided(request.status, row.status),
                             manages |-> Provided(request.manages, row.manages)]])

\* save, also of a login's profile: SELECT of the row, to find what differs ...
SelectAccount(s) ==
  LET v == visit[s]
      differing == {column \in DOMAIN v.memory : v.memory[column] # account[v.target][column]}
  IN  /\ v.step \in {"profile", "save"}
      /\ Goes(s, [v EXCEPT !.step = IF v.step = "save" THEN "write" ELSE "token",
                           !.memory = [column \in differing |-> v.memory[column]]])

\* The columns to be written, and the others as they are in the row.
Overlaid(memory, row) ==
  [column \in DOMAIN row |-> IF column \in DOMAIN memory THEN memory[column] ELSE row[column]]

\* ... and UPDATE of these columns; a login then gets its tokens.
SaveAccount(s) ==
  LET v == visit[s]
      new == Overlaid(v.memory, account[v.target])
  IN  /\ v.step \in {"write", "token"}
      /\ account' = [account EXCEPT ![v.target] = new]
      /\ misplaced' = (misplaced \/
           /\ new # account[v.target]
           /\ v.outdated \/ (v.step = "write" /\ ~MayUpdate(v.actor)))
      /\ resigned' = (resigned \/
           /\ v.step = "write" /\ v.actor = v.target
           /\ account[v.target].manages /\ ~new.manages)
      /\ visit' = [x \in Sessions |->
           IF x = s THEN NoVisit
           ELSE IF visit[x].target = v.target /\ new # account[v.target]
                   /\ visit[x].step \in {"profile", "save", "write", "token"}
           THEN [visit[x] EXCEPT !.outdated = TRUE]
           ELSE visit[x]]

-----------------------------------------------------------------------------
UserInit ==
  /\ account = [p \in People |->
       IF p = Founder THEN [role |-> "admin", status |-> "active", manages |-> FALSE]
       ELSE NoAccount]
  /\ visit = [s \in Sessions |-> NoVisit]
  /\ misplaced = FALSE
  /\ resigned = FALSE

\* Bound: a request changes one column.
Nothing == [role |-> {}, status |-> {}, manages |-> {}]
UpdateRequest ==
  {[Nothing EXCEPT !.role = {role}] : role \in {"user", "admin"}}
    \cup {[Nothing EXCEPT !.status = {status}] : status \in {"active", "disabled"}}
    \cup {[Nothing EXCEPT !.manages = {manages}] : manages \in BOOLEAN}

UserNext ==
  \E s \in Sessions :
    \/ \E p \in People : FindByEmail(s, p)
    \/ \E actor, target \in People : AdmitUpdate(s, actor, target)
    \/ \E request \in UpdateRequest : FindAccount(s, request)
    \/ SignUp(s) \/ FindAfterRace(s) \/ SelectAccount(s) \/ SaveAccount(s)

UserSpec == UserInit /\ [][UserNext]_userVars

-----------------------------------------------------------------------------
UserTypeOK ==
  /\ account \in [People -> Account \cup {NoAccount}]
  /\ \A s \in Sessions :
       /\ visit[s].step \in {"idle", "signup", "raced", "profile", "admitted", "save",
                             "write", "token"}
       /\ visit[s].actor \in People /\ visit[s].target \in People
       /\ visit[s].outdated \in BOOLEAN
       /\ DOMAIN visit[s].memory \subseteq DOMAIN NewAccount
       /\ Overlaid(visit[s].memory, NewAccount) \in Account \cup {NoAccount}
  /\ misplaced \in BOOLEAN /\ resigned \in BOOLEAN

\* Somebody can always administer the accounts: the last one cannot be disabled or
\* demoted, because nobody does that to themselves, unless two requests overlap, or a
\* person who may update accounts by a permission alone gives that permission up.
AdminRemains == misplaced \/ resigned \/ \E p \in People : MayUpdate(p)

\* auth.service.ts:113: a disabled account gets no tokens and no new profile.  A login
\* under way holds an account that was active when it was last read, also after it lost
\* the race for a new account; so a disabled account becomes active only by an update,
\* or by the profile of a login that read it before it was disabled.
BarredStaysOut ==
  /\ [](\A s \in Sessions :
          visit[s].step = "profile" => visit[s].memory.status = "active")
  /\ [][\A p \in People :
          account[p].status = "disabled" /\ account'[p].status = "active" =>
            \E s \in Sessions :
              /\ visit[s].target = p
              /\ "status" \in DOMAIN visit[s].memory
              /\ visit[s].step = "write" \/ visit[s].outdated]_userVars
=============================================================================
