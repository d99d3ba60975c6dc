------------------------------- MODULE Users -------------------------------
(***************************************************************************)
(* Users of korauth: the requests of internal/handler/user.go, the         *)
(* operations of UserService (internal/service/user.go) they call, the     *)
(* statements of UserStore (internal/store/user.go) those run, and the     *)
(* reset-admin-password command (cmd/korauth-cli/main.go), which works on  *)
(* the same tables.                                                        *)
(*                                                                         *)
(* PostgreSQL runs at READ COMMITTED.  A single statement is one action;   *)
(* the role change, the only transaction of several statements, is one     *)
(* action per statement, with the row locks its statements take and wait   *)
(* for.  The users are those of one tenant, and a user's id is its place   *)
(* in the order of creation.                                               *)
(***************************************************************************)
EXTENDS Integers, Sequences, FiniteSets

CONSTANTS
  Reqs,         \* the requests and command runs, each served once
  Ids,          \* the user ids that requests name, 0 for one that no user has
  Callers,      \* the users whose access tokens carry the admin role
  Names,        \* usernames
  Emails,       \* e-mail addresses
  Passwords,    \* [chars, bytes, classes] of a plain text
  Roles,        \* the rows of auth.roles
  RoleLists,    \* the role lists a request can carry
  Pages,        \* the page and per_page parameters a request can carry
  InitialRows,  \* the tables before the first request
  Admin,        \* the role "admin"
  AdminName,    \* the username "admin"
  DefaultPer,   \* page size when none, or a bad one, is asked for (50)
  MaxPer,       \* largest page size (100)
  Half,         \* the first integer beyond an int of the server (2^63)
  None,         \* an absent field or parameter
  MaxAborts     \* bound on the requests that end early with an error

ASSUME IdsAssumption == Ids \subseteq Nat
ASSUME RoleListsAssumption == RoleLists \subseteq Seq(STRING)
ASSUME SizesAssumption == DefaultPer \in Nat \ {0} /\ MaxPer \in Nat
ASSUME HalfAssumption == Half \in Nat \ {0}
ASSUME MaxAbortsAssumption == MaxAborts \in Nat

VARIABLES
  rows,    \* auth.users with auth.user_roles
  arg,     \* the request each process serves, None before it begins
  pc,      \* the statement each process is about to send
  target,  \* the id of the user each process works on, 0 before it is known
  tx,      \* the open role transaction of each process
  found,   \* what a listing has read: the count, then the ids on the page
  ans,     \* the status each process has answered, 0 before
  wrote,   \* history: what each process has committed
  aborts   \* requests that ended early so far

locals == <<arg, pc, target, tx, found, ans, wrote>>
vars == <<rows, locals, aborts>>

Elems(s) == {s[i] : i \in DOMAIN s}

Row == [name : Names, email : Emails \cup {None}, pwd : Passwords,
        roles : SUBSET Roles, deleted : BOOLEAN]

CreateArgs == [op : {"create"}, name : Names, email : Emails \cup {None},
               pwd : Passwords, roles : RoleLists]
UpdateArgs == [op : {"update"}, id : Ids, name : Names \cup {None},
               email : Emails \cup {None}, pwd : Passwords \cup {None}]
AssignArgs == [op : {"assign"}, id : Ids, caller : Callers, roles : RoleLists]
IdArgs == [op : {"get", "delete"}, id : Ids]
ResetArgs == [op : {"reset"}, pwd : Passwords]
ListArgs == [op : {"list"}, page : Pages, per : Pages]
Args == CreateArgs \cup UpdateArgs \cup AssignArgs \cup IdArgs \cup ResetArgs \cup ListArgs

ASSUME NoneAssumption == None \notin Args

\* No two live rows of the table t share a username or an e-mail address.
Unique(t) ==
  \A u, v \in DOMAIN t :
    u # v /\ ~t[u].deleted /\ ~t[v].deleted =>
      /\ t[u].name # t[v].name
      /\ t[u].email = None \/ t[u].email # t[v].email

\* The tables the requests find: everybody has a role, and the callers that of admins.
ASSUME InitialRowsAssumption ==
  \A t \in InitialRows :
    /\ t \in Seq(Row) /\ Unique(t)
    /\ \A u \in DOMAIN t : t[u].roles # {}
    /\ \A u \in Callers : u \in DOMAIN t /\ Admin \in t[u].roles

PC == {"new", "insert", "created", "begin", "clear", "link", "profile", "password",
       "delete", "revoke", "lookup", "count", "page", "reread", "done"}
Statuses == {0, 200, 201, 204, 400, 403, 404, 409, 500}

\* A role transaction: the rows its DELETE has found and nobody else has deleted,
\* those it has deleted, those it has inserted, and the place in the list of the
\* next INSERT.
Tx == [seen : SUBSET Roles, del : SUBSET Roles, ins : SUBSET Roles, next : Nat]

\* Variant with a bug: the loop over the list skips its first name.
NoTxSkipsFirst == [seen |-> {}, del |-> {}, ins |-> {}, next |-> 2]

NoTx == [seen |-> {}, del |-> {}, ins |-> {}, next |-> 1]
NotFound == [total |-> 0, ids |-> <<>>]

Init ==
  /\ rows \in InitialRows
  /\ arg = [r \in Reqs |-> None]
  /\ pc = [r \in Reqs |-> "new"]
  /\ target = [r \in Reqs |-> 0]
  /\ tx = [r \in Reqs |-> NoTx]
  /\ found = [r \in Reqs |-> NotFound]
  /\ ans = [r \in Reqs |-> 0]
  /\ wrote = [r \in Reqs |-> {}]
  /\ aborts = 0

-----------------------------------------------------------------------------
(* Checks that need no state *)

\* len() counts bytes; the three classes are looked for rune by rune.
Validate(p) == p.bytes >= 8 /\ p.classes = {"upper", "digit", "special"}

\* SELECT COUNT(*) ... name = ANY(list) is compared with the length of the list:
\* a name that is unknown, or given twice, makes the list invalid.
IsValid(list) == Cardinality(Elems(list) \cap Roles) = Len(list)

\* Gin's binding tags: min=8 of the password counts characters.
CreateBinds(a) == a.pwd.chars >= 8 /\ a.roles # <<>>

\* Variant with a bug: any role list will do for the caller.
MayAssignAny(a) == TRUE

\* The caller keeps the admin role when it changes its own roles.
MayAssign(a) == a.id = a.caller => Admin \in Elems(a.roles)

\* isPgUniqueViolation looks at the error itself: UserStore.Create has wrapped
\* it by then (store/user.go:90), UpdateUser has not.
CreateConflict == 500
UpdateConflict == 409

\* A number that is no int is as good as none; a page number has no other limit.
PageOf(v) == IF v \in 1..(Half - 1) THEN v ELSE 1
PerPageOf(v) == IF v \in 1..MaxPer THEN v ELSE DefaultPer

-----------------------------------------------------------------------------
(* Steps of a process *)

Live(u) == u \in DOMAIN rows /\ ~rows[u].deleted

\* Variant with a bug: there is no index on e-mail addresses.
TakenName(name, email, u) ==
  \E v \in DOMAIN rows \ {u} : Live(v) /\ rows[v].name = name

\* The partial unique indexes on (tenant_id, username) and on email: no live row
\* other than u's has this name or address.
Taken(name, email, u) ==
  \E v \in DOMAIN rows \ {u} :
    /\ Live(v)
    /\ rows[v].name = name \/ (email # None /\ rows[v].email = email)

RolesOf(u) == IF u \in DOMAIN rows THEN rows[u].roles ELSE {}

\* The process reads its request and goes on to the statement at label.  Ids are
\* random: a client names one it has seen, or one that no user will ever have.
Begin(r, a, label, u) ==
  /\ u \in DOMAIN rows \cup {0}
  /\ arg' = [arg EXCEPT ![r] = a]
  /\ pc' = [pc EXCEPT ![r] = label]
  /\ target' = [target EXCEPT ![r] = u]
  /\ UNCHANGED <<rows, tx, found, ans, wrote, aborts>>

\* The handler refuses the request before any statement; it leaves no trace.
Refuse(r, status) ==
  /\ pc' = [pc EXCEPT ![r] = "done"]
  /\ ans' = [ans EXCEPT ![r] = status]
  /\ UNCHANGED <<rows, arg, target, tx, found, wrote, aborts>>

Goto(r, label) == pc' = [pc EXCEPT ![r] = label] /\ UNCHANGED ans

Answer(r, status) ==
  /\ pc' = [pc EXCEPT ![r] = "done"]
  /\ ans' = [ans EXCEPT ![r] = status]

Wrote(r, what) == wrote' = [wrote EXCEPT ![r] = @ \cup {what}]

-----------------------------------------------------------------------------
(* UserService.Create, up to its role transaction *)

StartCreate(r) ==
  \E a \in CreateArgs :
    LET bad == ~CreateBinds(a) \/ ~Validate(a.pwd) IN
    \/ bad /\ Refuse(r, 400)
    \/ ~bad /\ ~IsValid(a.roles) /\ Refuse(r, 404)
    \/ ~bad /\ IsValid(a.roles) /\ Begin(r, a, "insert", 0)

NewRow(a) == [name |-> a.name, email |-> a.email, pwd |-> a.pwd, roles |-> {},
              deleted |-> FALSE]

InsertUser(r) ==
  LET a == arg[r] IN
  /\ pc[r] = "insert"
  /\ \/ /\ Taken(a.name, a.email, 0)
        /\ Answer(r, CreateConflict)
        /\ UNCHANGED <<rows, target, wrote>>
     \/ /\ ~Taken(a.name, a.email, 0)
        /\ rows' = Append(rows, NewRow(a))
        /\ target' = [target EXCEPT ![r] = Len(rows) + 1]
        /\ Wrote(r, "row")
        /\ Goto(r, "created")
  /\ UNCHANGED <<arg, tx, found, aborts>>

\* The new row is read back.  If it has been deleted since, the store returns no
\* user and no error, and user.ID panics: gin.Recovery answers 500.
ReadCreated(r) ==
  /\ pc[r] = "created"
  /\ \/ Live(target[r]) /\ Goto(r, "begin")
     \/ ~Live(target[r]) /\ Answer(r, 500)
  /\ UNCHANGED <<rows, arg, target, tx, found, wrote, aborts>>

-----------------------------------------------------------------------------
(* UserStore.SetRoles, for UserService.Create and UserService.AssignRoles *)

StartAssign(r) ==
  \E a \in AssignArgs :
    LET bad == a.roles = <<>> IN
    /\ a.caller \in DOMAIN rows
    /\ \/ bad /\ Refuse(r, 400)
       \/ ~bad /\ ~IsValid(a.roles) /\ Refuse(r, 404)
       \/ ~bad /\ IsValid(a.roles) /\ ~MayAssign(a) /\ Refuse(r, 403)
       \/ ~bad /\ IsValid(a.roles) /\ MayAssign(a) /\ Begin(r, a, "begin", a.id)

\* BEGIN, and the snapshot of the DELETE: the committed rows of the user.
BeginRoles(r) ==
  /\ pc[r] = "begin"
  /\ tx' = [tx EXCEPT ![r].seen = RolesOf(target[r])]
  /\ Goto(r, "clear")
  /\ UNCHANGED <<rows, arg, target, found, wrote, aborts>>

NextRole(r) == arg[r].roles[tx[r].next]

\* The open transactions whose locks the next statement of r waits for: deletions
\* of rows its DELETE has found, and rows with the key of its INSERT.
Blockers(r) ==
  {s \in Reqs \ {r} : target[s] = target[r] /\
     \/ pc[r] = "clear" /\ tx[s].del \cap tx[r].seen # {}
     \/ /\ pc[r] = "link"
        /\ tx[r].next <= Len(arg[r].roles)
        /\ NextRole(r) \in tx[s].del \cup tx[s].ins}

\* The DELETE returns.  It has removed the rows of its snapshot that are still there,
\* and none that was committed after it.
ClearRoles(r) ==
  /\ pc[r] = "clear"
  /\ Blockers(r) = {}
  /\ tx' = [tx EXCEPT ![r].del = tx[r].seen]
  /\ Goto(r, "link")
  /\ UNCHANGED <<rows, arg, target, found, wrote, aborts>>

\* Variant with a bug: an error leaves the transaction open.
FailKeepsLocks(r, status) ==
  /\ Answer(r, status)
  /\ UNCHANGED tx

\* The deferred Rollback, and the answer.
Fail(r, status) ==
  /\ tx' = [tx EXCEPT ![r] = NoTx]
  /\ Answer(r, status)

\* One INSERT: refused by the foreign key when there is no such user, and by the
\* primary key when the row is there already.
LinkRole(r) ==
  /\ pc[r] = "link"
  /\ tx[r].next <= Len(arg[r].roles)
  /\ Blockers(r) = {}
  /\ LET refused == \/ target[r] \notin DOMAIN rows
                    \/ NextRole(r) \in (RolesOf(target[r]) \ tx[r].del) \cup tx[r].ins
     IN \/ refused /\ Fail(r, 500)
        \/ /\ ~refused
           /\ tx' = [tx EXCEPT ![r].ins = @ \cup {NextRole(r)}, ![r].next = @ + 1]
           /\ UNCHANGED <<pc, ans>>
  /\ UNCHANGED <<rows, arg, target, found, wrote, aborts>>

\* The transaction is over.  What it has deleted is gone for every DELETE under way:
\* a row that it has inserted with the same key is another one.
Close(r) ==
  tx' = [s \in Reqs |->
          IF s = r THEN NoTx
          ELSE IF target[s] = target[r] THEN [tx[s] EXCEPT !.seen = @ \ tx[r].del]
          ELSE tx[s]]

\* Variant with a bug: the roles of the list are added to the user's.
CommitAdds(r) ==
  /\ rows' = [rows EXCEPT ![target[r]].roles = @ \cup tx[r].ins]
  /\ Close(r)

\* Variant with a bug: the DELETE has no WHERE clause.
CommitClearsAll(r) ==
  /\ rows' = [u \in DOMAIN rows |->
               [rows[u] EXCEPT !.roles = IF u = target[r] THEN tx[r].ins ELSE {}]]
  /\ Close(r)

Commit(r) ==
  /\ rows' = [rows EXCEPT ![target[r]].roles = (@ \ tx[r].del) \cup tx[r].ins]
  /\ Close(r)

CommitRoles(r) ==
  /\ pc[r] = "link"
  /\ tx[r].next > Len(arg[r].roles)
  /\ Commit(r)
  /\ Wrote(r, "roles")
  /\ Goto(r, "reread")
  /\ UNCHANGED <<arg, target, found, aborts>>

\* PostgreSQL ends one of the transactions that wait for each other.
DeadlockVictim(r) ==
  /\ \E D \in SUBSET Reqs : r \in D /\ \A d \in D : Blockers(d) \cap D # {}
  /\ Fail(r, 500)
  /\ UNCHANGED <<rows, arg, target, found, wrote, aborts>>

-----------------------------------------------------------------------------
(* UserService.Update, and UpdatePassword of the reset command *)

\* What follows the profile: the password, if one is given, after its check.
AfterProfile(r, pwd) ==
  \/ pwd = None /\ Goto(r, "reread")
  \/ pwd # None /\ ~Validate(pwd) /\ Answer(r, 400)
  \/ pwd # None /\ Validate(pwd) /\ Goto(r, "password")

StartUpdate(r) ==
  \E a \in UpdateArgs :
    LET profile == a.name # None \/ a.email # None
        refused == ~profile /\ a.pwd \notin {p \in Passwords : Validate(p)}
    IN \/ refused /\ Refuse(r, 400)
       \/ profile /\ Begin(r, a, "profile", a.id)
       \/ ~profile /\ ~refused /\ Begin(r, a, "password", a.id)

\* Variant with a bug: absent fields are set to NULL.
WithNulls(row, a) == [row EXCEPT !.name = a.name, !.email = a.email]

\* COALESCE: an absent field keeps its value.
WithProfile(row, a) ==
  [row EXCEPT !.name = IF a.name = None THEN @ ELSE a.name,
              !.email = IF a.email = None THEN @ ELSE a.email]

\* An update of no live row is no error, and the request goes on.
UpdateProfile(r) ==
  LET u == target[r]
      row == WithProfile(rows[u], arg[r])
  IN
  /\ pc[r] = "profile"
  /\ \/ /\ Live(u) /\ Taken(row.name, row.email, u)
        /\ Answer(r, UpdateConflict)
        /\ UNCHANGED <<rows, wrote>>
     \/ /\ Live(u) /\ ~Taken(row.name, row.email, u)
        /\ rows' = [rows EXCEPT ![u] = row]
        /\ Wrote(r, "profile")
        /\ AfterProfile(r, arg[r].pwd)
     \/ /\ ~Live(u)
        /\ AfterProfile(r, arg[r].pwd)
        /\ UNCHANGED <<rows, wrote>>
  /\ UNCHANGED <<arg, target, tx, found, aborts>>

\* Variant with a bug: the statement has no condition on deleted_at.
PasswordMatchesAny(u) == u \in DOMAIN rows

\* WHERE id = $3 AND deleted_at IS NULL.
PasswordMatches(u) == Live(u)

UpdatePassword(r) ==
  LET u == target[r] IN
  /\ pc[r] = "password"
  /\ \/ /\ PasswordMatches(u)
        /\ rows' = [rows EXCEPT ![u].pwd = arg[r].pwd]
        /\ Wrote(r, "password")
     \/ /\ ~PasswordMatches(u)
        /\ UNCHANGED <<rows, wrote>>
  /\ \/ arg[r].op = "reset" /\ Answer(r, 200)
     \/ arg[r].op = "update" /\ Goto(r, "reread")
  /\ UNCHANGED <<arg, target, tx, found, aborts>>

\* The command checks the password before it opens the database.
StartReset(r) ==
  \E a \in ResetArgs :
    \/ ~Validate(a.pwd) /\ Refuse(r, 400)
    \/ Validate(a.pwd) /\ Begin(r, a, "lookup", 0)

\* It looks for the live user named "admin", whatever the seed was configured as.
ResetLookup(r) ==
  LET admins == {u \in DOMAIN rows : Live(u) /\ rows[u].name = AdminName} IN
  /\ pc[r] = "lookup"
  /\ \/ \E u \in admins : target' = [target EXCEPT ![r] = u] /\ Goto(r, "password")
     \/ admins = {} /\ Answer(r, 404) /\ UNCHANGED target
  /\ UNCHANGED <<rows, arg, tx, found, wrote, aborts>>

-----------------------------------------------------------------------------
(* UserService.Delete, GetByID and List *)

StartById(r) ==
  \E a \in IdArgs : Begin(r, a, IF a.op = "get" THEN "reread" ELSE "delete", a.id)

SoftDelete(r) ==
  LET u == target[r] IN
  /\ pc[r] = "delete"
  /\ \/ /\ Live(u)
        /\ rows' = [rows EXCEPT ![u].deleted = TRUE]
        /\ Wrote(r, "deleted")
        /\ Goto(r, "revoke")
     \/ /\ ~Live(u)
        /\ Answer(r, 404)
        /\ UNCHANGED <<rows, wrote>>
  /\ UNCHANGED <<arg, target, tx, found, aborts>>

\* RevokeAllForUser works on Redis only (see Sessions), and the answer follows.
Revoked(r) ==
  /\ pc[r] = "revoke"
  /\ Answer(r, 204)
  /\ UNCHANGED <<rows, arg, target, tx, found, wrote, aborts>>

\* Variant with a bug: Create looks for its user too, and answers 404.
RereadNotFound(r) ==
  LET status == IF ~Live(target[r]) THEN 404 ELSE IF arg[r].op = "create" THEN 201 ELSE 200 IN
  /\ pc[r] = "reread"
  /\ Answer(r, status)
  /\ UNCHANGED <<rows, arg, target, tx, found, wrote, aborts>>

\* The GetByID that ends Get, Create, Update and AssignRoles.  Only Create does
\* not look whether it found a user: it answers 201 with null when it did not.
Reread(r) ==
  LET create == arg[r].op = "create" IN
  /\ pc[r] = "reread"
  /\ \/ create /\ Answer(r, 201)
     \/ ~create /\ Live(target[r]) /\ Answer(r, 200)
     \/ ~create /\ ~Live(target[r]) /\ Answer(r, 404)
  /\ UNCHANGED <<rows, arg, target, tx, found, wrote, aborts>>

StartList(r) == \E a \in ListArgs : Begin(r, a, "count", 0)

\* The live users, the latest first.
Listing ==
  LET At(i) == CHOOSE u \in DOMAIN rows :
                 Live(u) /\ Cardinality({v \in DOMAIN rows : Live(v) /\ v >= u}) = i
  IN [i \in 1..Cardinality({u \in DOMAIN rows : Live(u)}) |-> At(i)]

CountUsers(r) ==
  /\ pc[r] = "count"
  /\ found' = [found EXCEPT ![r].total = Len(Listing)]
  /\ Goto(r, "page")
  /\ UNCHANGED <<rows, arg, target, tx, wrote, aborts>>

\* What an int of the server makes of x.
Wrap(x) == ((x + Half) % (2 * Half)) - Half

\* How many users come before the page asked for.
Before(a) == (PageOf(a.page) - 1) * PerPageOf(a.per)

\* Variant with a bug: pages are numbered from zero.
OffsetFromZero(a) == Wrap(PageOf(a.page) * PerPageOf(a.per))

\* The product of two ints is an int again, so that of a huge page number is any.
Offset(a) == Wrap(Before(a))

\* LIMIT and OFFSET on what is there now, in a snapshot of its own.  PostgreSQL
\* refuses a negative OFFSET.
PageUsers(r) ==
  LET from == Offset(arg[r])
      to == from + PerPageOf(arg[r].per)
  IN
  /\ pc[r] = "page"
  /\ \/ /\ from >= 0
        /\ found' = [found EXCEPT ![r].ids =
                       SubSeq(Listing, from + 1, IF to < Len(Listing) THEN to ELSE Len(Listing))]
        /\ Answer(r, 200)
     \/ /\ from < 0
        /\ Answer(r, 500)
        /\ UNCHANGED found
  /\ UNCHANGED <<rows, arg, target, tx, wrote, aborts>>

-----------------------------------------------------------------------------

\* A statement fails, the client goes away or the replica stops: what has been
\* committed stays, an open transaction is rolled back.
Abort(r) ==
  /\ pc[r] \notin {"new", "done"}
  /\ aborts < MaxAborts
  /\ aborts' = aborts + 1
  /\ Fail(r, 500)
  /\ UNCHANGED <<rows, arg, target, found, wrote>>

Start(r) ==
  /\ pc[r] = "new"
  /\ \/ StartCreate(r) \/ StartAssign(r) \/ StartUpdate(r) \/ StartReset(r)
     \/ StartById(r) \/ StartList(r)

Continue(r) ==
  \/ InsertUser(r) \/ ReadCreated(r)
  \/ BeginRoles(r) \/ ClearRoles(r) \/ LinkRole(r) \/ CommitRoles(r) \/ DeadlockVictim(r)
  \/ UpdateProfile(r) \/ UpdatePassword(r) \/ ResetLookup(r)
  \/ SoftDelete(r) \/ Revoked(r) \/ Reread(r) \/ CountUsers(r) \/ PageUsers(r)

Next == \E r \in Reqs : Start(r) \/ Continue(r) \/ Abort(r)

Spec == Init /\ [][Next]_vars

\* The process goes on: every statement returns or fails within the timeouts of
\* the server, and PostgreSQL grants a lock that becomes free.
FairSpec == Spec /\ \A r \in Reqs : WF_vars(Continue(r))

-----------------------------------------------------------------------------
(* Properties *)

TypeOK ==
  /\ rows \in Seq(Row)
  /\ arg \in [Reqs -> Args \cup {None}]
  /\ pc \in [Reqs -> PC]
  /\ target \in [Reqs -> Nat]
  /\ tx \in [Reqs -> Tx]
  /\ found \in [Reqs -> [total : Nat, ids : Seq(Nat)]]
  /\ ans \in [Reqs -> Statuses]
  /\ wrote \in [Reqs -> SUBSET {"row", "roles", "profile", "password", "deleted"}]
  /\ aborts \in 0..MaxAborts

\* No two live users share a username or an e-mail address, although names and
\* addresses are set by three statements and freed by deletions and renamings
\* (migrations/001_init.up.sql:22, 002_add_user_fields.up.sql:7).
LiveNamesUnique == Unique(rows)

\* What an accepted request asked for, in the row it was about.
Stored(r) ==
  LET a == arg[r]
      row == rows[target[r]]
  IN CASE a.op = "create" -> row = [NewRow(a) EXCEPT !.roles = Elems(a.roles)]
       [] a.op = "update" -> /\ a.name # None => row.name = a.name
                             /\ a.email # None => row.email = a.email
                             /\ a.pwd # None => row.pwd = a.pwd
       [] a.op = "assign" -> row.roles = Elems(a.roles)
       [] a.op = "delete" -> row.deleted
       [] a.op = "reset" -> row.pwd = a.pwd
       [] a.op \in {"get", "list"} -> TRUE

\* What a request that was answered with success asked for is what the tables
\* hold, whatever requests about other users ran beside it: no step works on the
\* row, or waits for the transaction, of another user.
AcceptedIsStored ==
  \A r \in Reqs :
    ans[r] \in {200, 201, 204} /\ (\A s \in Reqs \ {r} : target[s] # target[r]) => Stored(r)

\* A request answered 4xx has committed nothing, but for two cases: Update commits
\* the profile before it looks at the password (service/user.go:84, 93), and the
\* row written by Update or SetRoles belongs to a user deleted before the answer.
RefusedRequestsWriteNothing ==
  \A r \in Reqs :
    ans[r] \in 400..499 /\ wrote[r] # {} =>
      \/ ans[r] = 400 /\ arg[r].op = "update" /\ wrote[r] = {"profile"}
      \/ ans[r] = 404 /\ arg[r].op \in {"update", "assign"} /\ rows[target[r]].deleted

\* A user without any role is one whose creation is not done or was answered 500:
\* the row and its roles are two transactions (service/user.go:43, 51), and no
\* overlap of role changes removes the last role.
RolelessOnlyAfterFailure ==
  \A u \in DOMAIN rows :
    rows[u].roles = {} =>
      \E r \in Reqs : arg[r] # None /\ arg[r].op = "create" /\ target[r] = u
                        /\ (pc[r] # "done" \/ ans[r] = 500)

\* Once the roles of a user have been changed they are the lists of some of the
\* committed changes, whole: an overlap may add lists up (store/user.go:179), but
\* no list takes effect in part.
RolesFromCommits ==
  \A u \in DOMAIN rows :
    LET Changes == {r \in Reqs : target[r] = u /\ "roles" \in wrote[r]}
    IN Changes # {} =>
         \E C \in (SUBSET Changes) \ {{}} : rows[u].roles = UNION {Elems(arg[r].roles) : r \in C}

\* An admin that has lost the role lost it to a request of somebody else, whatever
\* its own requests did meanwhile (service/user.go:129).  Two admins can still take
\* the role from each other.
AdminRoleTakenByAnother ==
  \A u \in DOMAIN rows :
    u \in Callers /\ Admin \notin rows[u].roles =>
      \E r \in Reqs : arg[r] # None /\ arg[r].op = "assign" /\ target[r] = u
                        /\ arg[r].caller # u /\ "roles" \in wrote[r]

\* Name, address and password of a deleted user stay as they were and it is never
\* live again: an update that was on its way when the deletion committed finds no
\* row (store/user.go:146, 155).
DeletedRowsFrozen ==
  [][\A u \in DOMAIN rows :
       rows[u].deleted => rows'[u] = [rows[u] EXCEPT !.roles = rows'[u].roles]]_vars

\* The length of a page follows from the total beside it, but for the users created
\* and deleted by others since the total was read (store/user.go:99, 105), and no
\* user is on a page twice.  The first part is about pages that begin within the
\* range of an int: beyond it the offset wraps around (store/user.go:96), and what
\* is answered with success is another page.
ListCountsAgree ==
  \A r \in Reqs :
    arg[r] # None /\ arg[r].op = "list" /\ ans[r] = 200 =>
      LET per == PerPageOf(arg[r].per)
          rest == found[r].total - Before(arg[r])
          due == IF rest < 0 THEN 0 ELSE IF rest < per THEN rest ELSE per
          ids == found[r].ids
          Others == {s \in Reqs \ {r} : wrote[s] \cap {"row", "deleted"} # {}}
      IN /\ Before(arg[r]) < Half =>
              Len(ids) - due \in -Cardinality(Others)..Cardinality(Others)
         /\ \A i, j \in DOMAIN ids : i < j => ids[i] > ids[j]

\* Every request is answered: locks are released by whatever ends a transaction,
\* also by an error (store/user.go:177), and PostgreSQL breaks up deadlocks.
EveryRequestAnswered == \A r \in Reqs : pc[r] # "new" ~> pc[r] = "done"
=============================================================================
