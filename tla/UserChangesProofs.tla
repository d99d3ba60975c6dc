-------------------------- MODULE UserChangesProofs --------------------------
(***************************************************************************)
(* Proofs about what the changes of Users leave in the tables: that of an  *)
(* accepted request which nobody else's met, the roles that the            *)
(* overlapping changes of one user's roles end up with, and the pages of   *)
(* the listings that run beside them.                                      *)
(***************************************************************************)
EXTENDS UsersProofs

-----------------------------------------------------------------------------
(* Steps of the other processes *)

\* A step leaves the row of every user but its own alone.
LEMMA OtherRowsStay ==
  ASSUME TypeInv, NEW r \in Reqs, Start(r) \/ Continue(r) \/ Abort(r), NEW u \in DOMAIN rows,
         u # target[r] \/ pc[r] \in {"new", "insert", "lookup"}
  PROVE  u \in DOMAIN rows' /\ rows'[u] = rows[u]
<1>1. /\ rows \in Seq(Row) /\ \A v \in DOMAIN rows : rows[v] \in Row
      /\ DOMAIN rows = 1..Len(rows) /\ Len(rows) \in Nat
  BY DEF TypeInv, TypeOK
<1>2. CASE pc[r] = "insert" /\ rows' = Append(rows, NewRow(arg[r]))
  <2>1. arg[r] \in CreateArgs
    BY <1>2 DEF TypeInv, Task
  <2>2. NewRow(arg[r]) \in Row
    BY <2>1 DEF NewRow, CreateArgs, Row
  <2> QED
    BY <1>1, <1>2, <2>2
<1>3. CASE \E row : pc[r] \in {"link", "profile", "password", "delete"}
                    /\ rows' = [rows EXCEPT ![target[r]] = row]
  BY <1>1, <1>3
<1>4. CommitRoles(r) => pc[r] = "link"
  BY DEF CommitRoles
<1> QED
  BY <1>2, <1>3, <1>4, TableStep

\* A transaction notices only commits of the same user's roles.
LEMMA TxStays ==
  ASSUME TypeInv, NEW r \in Reqs, Start(r) \/ Continue(r) \/ Abort(r), NEW s \in Reqs \ {r},
         CommitRoles(r) => target[s] # target[r]
  PROVE  tx'[s] = tx[s]
<1>1. tx \in [Reqs -> Tx]
  BY DEF TypeInv, TypeOK
<1>2. CASE CommitRoles(r)
  BY <1>1, <1>2 DEF CommitRoles, Commit, Close
<1>3. CASE tx' = tx \/ \E x : tx' = [tx EXCEPT ![r] = x]
  BY <1>1, <1>3
<1>4. CASE Start(r)
  <2>1. tx' = tx
    BY <1>4 DEF Start, StartCreate, StartAssign, StartUpdate, StartReset, StartById, StartList, Refuse, Begin
  <2> QED
    BY <1>3, <2>1
<1>5. BeginRoles(r) \/ ClearRoles(r) \/ LinkRole(r) \/ DeadlockVictim(r) \/ Abort(r)
        => tx' = tx \/ \E x : tx' = [tx EXCEPT ![r] = x]
  BY DEF BeginRoles, ClearRoles, LinkRole, DeadlockVictim, Abort, Fail
<1>6. InsertUser(r) \/ ReadCreated(r) \/ UpdateProfile(r) \/ UpdatePassword(r) \/ ResetLookup(r)
      \/ SoftDelete(r) \/ Revoked(r) \/ Reread(r) \/ CountUsers(r) \/ PageUsers(r) => tx' = tx
  BY DEF InsertUser, ReadCreated, UpdateProfile, UpdatePassword, ResetLookup, SoftDelete, Revoked,
         Reread, CountUsers, PageUsers
<1> QED
  BY <1>2, <1>3, <1>4, <1>5, <1>6 DEF Continue

\* A process that has begun does not begin again.
LEMMA Onward ==
  ASSUME TypeInv, NEW r \in Reqs, Continue(r) \/ Abort(r)
  PROVE  pc'[r] \notin {"new", "insert", "lookup"}
<1>1. pc \in [Reqs -> PC]
  BY DEF TypeInv, TypeOK
<1>2. ASSUME NEW label, Goto(r, label) PROVE pc'[r] = label
  BY <1>1, <1>2 DEF Goto
<1>3. ASSUME NEW status, Answer(r, status) \/ Fail(r, status) PROVE pc'[r] = "done"
  BY <1>1, <1>3 DEF Answer, Fail
<1>4. CASE InsertUser(r) \/ ReadCreated(r) \/ BeginRoles(r) \/ ClearRoles(r) \/ CommitRoles(r)
           \/ DeadlockVictim(r) \/ Abort(r) \/ ResetLookup(r) \/ SoftDelete(r)
  BY <1>2, <1>3, <1>4 DEF InsertUser, ReadCreated, BeginRoles, ClearRoles, CommitRoles, DeadlockVictim,
                          Abort, ResetLookup, SoftDelete
<1>5. CASE LinkRole(r)
  BY <1>3, <1>5 DEF LinkRole
<1>6. CASE UpdateProfile(r) \/ UpdatePassword(r) \/ Revoked(r) \/ Reread(r) \/ CountUsers(r) \/ PageUsers(r)
  BY <1>2, <1>3, <1>6 DEF UpdateProfile, AfterProfile, UpdatePassword, Revoked, Reread, CountUsers, PageUsers
<1> QED
  BY <1>4, <1>5, <1>6 DEF Continue

-----------------------------------------------------------------------------
(* What an accepted request asked for *)

\* A request knows its user from its first statement on, but for the creation, from
\* the INSERT, and the command, from its lookup.
Unplaced(r) == pc[r] \in {"new", "insert", "lookup"} => target[r] = 0

\* Nobody else works on the user of r.
Undisturbed(r) == target[r] = 0 \/ \A s \in Reqs \ {r} : target[s] # target[r]

Known(r) == target[r] \in DOMAIN rows

\* What an undisturbed request finds and has done when it comes to a statement.
Progress(r) ==
  /\ pc[r] \in {"created", "begin", "clear", "link"} /\ arg[r].op = "create" =>
       Known(r) /\ rows[target[r]] = NewRow(arg[r])
  /\ pc[r] \in {"clear", "link"} => tx[r].seen = RolesOf(target[r])
  /\ pc[r] = "link" => tx[r].del = RolesOf(target[r])
  /\ pc[r] = "password" /\ arg[r].op = "update" /\ Live(target[r]) =>
       /\ arg[r].name # None => rows[target[r]].name = arg[r].name
       /\ arg[r].email # None => rows[target[r]].email = arg[r].email
  /\ pc[r] = "password" /\ arg[r].op = "reset" => Live(target[r])
  /\ pc[r] = "delete" => arg[r].op = "delete"
  /\ pc[r] = "revoke" => arg[r].op = "delete" /\ Known(r) /\ rows[target[r]].deleted
  /\ pc[r] = "reread" =>
       /\ arg[r].op # "delete"
       /\ arg[r].op \in {"create", "assign"} => Known(r) /\ Stored(r)
       /\ arg[r].op = "update" /\ Live(target[r]) => Stored(r)
  /\ ans[r] \in {200, 201, 204} => arg[r].op \in {"get", "list"} \/ (Known(r) /\ Stored(r))

ProgressInv == \A r \in Reqs : Unplaced(r) /\ (Undisturbed(r) => Progress(r))

\* The step of another request, after which r is undisturbed, has not disturbed it.
LEMMA ProgressOthers ==
  ASSUME TypeInv, NEW r \in Reqs, Start(r) \/ Continue(r) \/ Abort(r), Unplaced(r),
         NEW s \in Reqs \ {r}, Unplaced(s), Undisturbed(s) => Progress(s), Undisturbed(s)'
  PROVE  Unplaced(s)' /\ Progress(s)'
<1>1. /\ arg'[s] = arg[s] /\ pc'[s] = pc[s] /\ target'[s] = target[s] /\ ans'[s] = ans[s]
      /\ \A q \in Reqs \ {r} : target'[q] = target[q]
  BY TypeStays DEF Others
<1>2. target[r] # 0 => target'[r] = target[r] /\ pc[r] \notin {"new", "insert", "lookup"}
  BY Moves DEF Unplaced
<1>3. Undisturbed(s)
  BY <1>1, <1>2 DEF Undisturbed
<1>4. 0 \notin DOMAIN rows /\ 0 \notin DOMAIN rows' /\ target[s] \in DOMAIN rows \cup {0}
  <2>1. rows \in Seq(Row) /\ rows' \in Seq(Row)
    BY TypeStays DEF TypeInv, TypeOK
  <2> QED
    BY <2>1 DEF TypeInv, Task
<1>5. target[s] = 0 \/ target[s] # target[r] \/ pc[r] \in {"new", "insert", "lookup"}
  BY <1>1, <1>2 DEF Undisturbed
<1>6. /\ Known(s)' <=> Known(s)
      /\ Known(s) => rows'[target[s]] = rows[target[s]]
  BY <1>1, <1>4, <1>5, OtherRowsStay DEF Known
<1>7. tx'[s] = tx[s]
  <2>1. CommitRoles(r) => target[s] # target[r]
    BY ZenonT(40), <1>4, <1>5, CommitFacts DEF CommitRoles
  <2> QED
    BY <2>1, TxStays
<1>8. /\ RolesOf(target[s])' = RolesOf(target[s])
      /\ Live(target[s])' <=> Live(target[s])
      /\ Live(target[s]) => Known(s)
  BY <1>1, <1>6 DEF RolesOf, Live, Known
<1>9. Known(s) => (Stored(s)' <=> Stored(s))
  BY <1>1, <1>6 DEF Stored, NewRow
<1>10. Unplaced(s)'
  BY <1>1 DEF Unplaced
<1>11. Progress(s)'
  BY <1>1, <1>3, <1>6, <1>7, <1>8, <1>9 DEF Progress, NewRow
<1> QED
  BY <1>10, <1>11

\* The request's own step.
LEMMA ProgressOwn ==
  ASSUME TypeInv, NEW r \in Reqs, Start(r) \/ Continue(r) \/ Abort(r), Clean(r), Unplaced(r), Progress(r)
  PROVE  Unplaced(r)' /\ Progress(r)'
<1>t. /\ pc \in [Reqs -> PC] /\ arg \in [Reqs -> Args \cup {None}] /\ target \in [Reqs -> Nat]
      /\ ans \in [Reqs -> Statuses] /\ tx \in [Reqs -> Tx]
      /\ rows \in Seq(Row) /\ \A u \in DOMAIN rows : rows[u] \in Row
  BY DEF TypeInv, TypeOK
<1>k. Task(arg[r], pc[r], target[r], tx[r], DOMAIN rows)
  BY DEF TypeInv
<1>m. pc[r] # "done" /\ ans[r] = 0
  BY Moves DEF Clean
<1>o. pc[r] # "new" => arg'[r] = arg[r]
  BY Moves
<1>p. pc[r] \notin {"new", "insert", "lookup"} => target'[r] = target[r]
  BY Moves
\* It ends without success.
<1>a. ASSUME NEW status \in {400, 403, 404, 409, 500}, pc'[r] = "done", ans'[r] = status
      PROVE Unplaced(r)' /\ Progress(r)'
  BY <1>a DEF Unplaced, Progress
<1>f. ASSUME NEW status, Answer(r, status) \/ Fail(r, status)
      PROVE pc'[r] = "done" /\ ans'[r] = status
  BY <1>f, <1>t DEF Answer, Fail
<1>g. ASSUME NEW label, Goto(r, label)
      PROVE pc'[r] = label /\ ans'[r] = 0
  BY <1>g, <1>m, <1>t DEF Goto
<1>1. CASE Start(r)
  <2>1. pc[r] = "new"
    BY <1>1 DEF Start
  <2>2. ASSUME NEW status \in {400, 403, 404}, Refuse(r, status) PROVE Unplaced(r)' /\ Progress(r)'
    <3>1. pc'[r] = "done" /\ ans'[r] = status
      BY <1>t, <2>2 DEF Refuse
    <3> QED
      BY <1>a, <3>1
  <2>3. ASSUME NEW a, NEW label, NEW u, Begin(r, a, label, u)
        PROVE pc'[r] = label /\ ans'[r] = 0 /\ arg'[r] = a /\ target'[r] = u
    BY <1>m, <1>t, <2>3 DEF Begin
  <2>4. CASE StartCreate(r)
    <3>1. ASSUME NEW a, Begin(r, a, "insert", 0) PROVE Unplaced(r)' /\ Progress(r)'
      BY <2>3, <3>1 DEF Unplaced, Progress
    <3> QED
      BY <2>2, <2>4, <3>1 DEF StartCreate
  <2>5. CASE StartAssign(r)
    <3>1. ASSUME NEW a \in AssignArgs, Begin(r, a, "begin", a.id) PROVE Unplaced(r)' /\ Progress(r)'
      <4>1. a.op = "assign"
        BY DEF AssignArgs
      <4> QED
        BY <2>3, <3>1, <4>1 DEF Unplaced, Progress
    <3> QED
      BY <2>2, <2>5, <3>1 DEF StartAssign
  <2>6. CASE StartUpdate(r)
    <3>1. ASSUME NEW a \in UpdateArgs, Begin(r, a, "profile", a.id) PROVE Unplaced(r)' /\ Progress(r)'
      BY <2>3, <3>1 DEF Unplaced, Progress
    <3>2. ASSUME NEW a \in UpdateArgs, Begin(r, a, "password", a.id), a.name = None, a.email = None
          PROVE Unplaced(r)' /\ Progress(r)'
      <4>1. a.op = "update"
        BY DEF UpdateArgs
      <4> QED
        BY <2>3, <3>2, <4>1 DEF Unplaced, Progress
    <3> QED
      BY <2>2, <2>6, <3>1, <3>2 DEF StartUpdate
  <2>7. CASE StartReset(r)
    <3>1. ASSUME NEW a, Begin(r, a, "lookup", 0) PROVE Unplaced(r)' /\ Progress(r)'
      BY <2>3, <3>1 DEF Unplaced, Progress
    <3> QED
      BY <2>2, <2>7, <3>1 DEF StartReset
  <2>8. CASE StartById(r)
    <3>1. PICK a \in IdArgs : Begin(r, a, IF a.op = "get" THEN "reread" ELSE "delete", a.id)
      BY <2>8 DEF StartById
    <3>2. a.op \in {"get", "delete"}
      BY DEF IdArgs
    <3>3. arg'[r] = a /\ ans'[r] = 0 /\ pc'[r] = IF a.op = "get" THEN "reread" ELSE "delete"
      BY <2>3, <3>1
    <3> QED
      BY <3>2, <3>3 DEF Unplaced, Progress
  <2>9. CASE StartList(r)
    <3>1. ASSUME NEW a, Begin(r, a, "count", 0) PROVE Unplaced(r)' /\ Progress(r)'
      BY <2>3, <3>1 DEF Unplaced, Progress
    <3> QED
      BY <2>9, <3>1 DEF StartList
  <2> QED
    BY <1>1, <2>4, <2>5, <2>6, <2>7, <2>8, <2>9 DEF Start
<1>2. CASE InsertUser(r)
  <2>1. CASE Answer(r, CreateConflict)
    BY <1>a, <1>f, <2>1 DEF CreateConflict
  <2>2. CASE /\ rows' = Append(rows, NewRow(arg[r])) /\ target' = [target EXCEPT ![r] = Len(rows) + 1]
             /\ Goto(r, "created")
    <3>1. arg[r] \in CreateArgs /\ arg'[r] = arg[r]
      BY <1>2, <1>k, <1>o DEF InsertUser, Task
    <3>2. NewRow(arg[r]) \in Row
      BY <3>1 DEF NewRow, CreateArgs, Row
    <3>3. target'[r] \in DOMAIN rows' /\ rows'[target'[r]] = NewRow(arg[r])
      BY <1>t, <2>2, <3>2
    <3>4. pc'[r] = "created" /\ ans'[r] = 0
      BY <1>g, <2>2
    <3> QED
      BY <3>1, <3>3, <3>4 DEF Unplaced, Progress, Known, NewRow
  <2> QED
    BY <1>2, <2>1, <2>2 DEF InsertUser
<1>3. CASE ReadCreated(r)
  <2>1. CASE Answer(r, 500)
    BY <1>a, <1>f, <2>1
  <2>2. CASE Goto(r, "begin")
    <3>1. /\ pc[r] = "created" /\ pc'[r] = "begin" /\ ans'[r] = 0 /\ rows' = rows
          /\ arg'[r] = arg[r] /\ target'[r] = target[r]
      BY <1>3, <1>g, <1>o, <1>p, <2>2 DEF ReadCreated
    <3> QED
      BY <3>1 DEF Unplaced, Progress, Known, NewRow
  <2> QED
    BY <1>3, <2>1, <2>2 DEF ReadCreated
<1>4. CASE BeginRoles(r)
  <2>1. /\ pc[r] = "begin" /\ pc'[r] = "clear" /\ ans'[r] = 0 /\ rows' = rows
        /\ arg'[r] = arg[r] /\ target'[r] = target[r]
    BY <1>4, <1>g, <1>o, <1>p DEF BeginRoles
  <2>2. tx'[r].seen = RolesOf(target[r])
    BY <1>4, <1>t DEF BeginRoles, Tx
  <2>3. RolesOf(target[r])' = RolesOf(target[r])
    BY <2>1 DEF RolesOf
  <2> QED
    BY <2>1, <2>2, <2>3 DEF Unplaced, Progress, Known, NewRow
<1>5. CASE ClearRoles(r)
  <2>1. /\ pc[r] = "clear" /\ pc'[r] = "link" /\ ans'[r] = 0 /\ rows' = rows
        /\ arg'[r] = arg[r] /\ target'[r] = target[r]
    BY <1>5, <1>g, <1>o, <1>p DEF ClearRoles
  <2>2. tx'[r].seen = tx[r].seen /\ tx'[r].del = tx[r].seen
    BY <1>5, <1>t DEF ClearRoles, Tx
  <2>3. RolesOf(target[r])' = RolesOf(target[r])
    BY <2>1 DEF RolesOf
  <2> QED
    BY <2>1, <2>2, <2>3 DEF Unplaced, Progress, Known, NewRow
<1>6. CASE LinkRole(r)
  <2>1. CASE Fail(r, 500)
    BY <1>a, <1>f, <2>1
  <2>2. CASE /\ tx' = [tx EXCEPT ![r].ins = @ \cup {NextRole(r)}, ![r].next = @ + 1]
             /\ UNCHANGED <<pc, ans>>
    <3>1. /\ pc[r] = "link" /\ pc'[r] = "link" /\ ans'[r] = 0 /\ rows' = rows
          /\ arg'[r] = arg[r] /\ target'[r] = target[r]
      BY <1>6, <1>m, <1>o, <1>p, <2>2 DEF LinkRole
    <3>2. tx'[r].seen = tx[r].seen /\ tx'[r].del = tx[r].del
      BY <1>t, <2>2 DEF Tx
    <3>3. RolesOf(target[r])' = RolesOf(target[r])
      BY <3>1 DEF RolesOf
    <3> QED
      BY <3>1, <3>2, <3>3 DEF Unplaced, Progress, Known, NewRow
  <2> QED
    BY <1>6, <2>1, <2>2 DEF LinkRole
<1>7. CASE CommitRoles(r)
  <2>1. /\ pc[r] = "link" /\ pc'[r] = "reread" /\ ans'[r] = 0
        /\ arg'[r] = arg[r] /\ target'[r] = target[r]
    BY <1>7, <1>g, <1>o, <1>p DEF CommitRoles
  <2>2. /\ target[r] \in DOMAIN rows /\ tx[r].ins = Elems(arg[r].roles)
        /\ rows' = [rows EXCEPT ![target[r]].roles = (@ \ tx[r].del) \cup tx[r].ins]
    BY <1>7, CommitFacts
  <2>3. tx[r].del = rows[target[r]].roles
    BY <2>1, <2>2 DEF Progress, RolesOf
  <2>4. PICK R : R = (rows[target[r]].roles \ tx[r].del) \cup tx[r].ins
    OBVIOUS
  <2>5. rows' = [rows EXCEPT ![target[r]] = [rows[target[r]] EXCEPT !.roles = R]] /\ R = Elems(arg[r].roles)
    BY <2>2, <2>3, <2>4
  <2>6. target[r] \in DOMAIN rows' /\ rows'[target[r]] = [rows[target[r]] EXCEPT !.roles = Elems(arg[r].roles)]
    BY <1>t, <2>2, <2>5
  <2>7. arg[r].op \in {"create", "assign"}
    BY <1>k, <2>1 DEF Task, CreateArgs, AssignArgs
  <2>8. arg[r].op = "create" => rows[target[r]] = NewRow(arg[r])
    BY <2>1 DEF Progress
  <2>9. Stored(r)'
    <3>1. CASE arg[r].op = "create"
      <4>1. rows'[target[r]] = [NewRow(arg[r]) EXCEPT !.roles = Elems(arg[r].roles)]
        BY <2>6, <2>8, <3>1
      <4> QED
        BY <2>1, <3>1, <4>1 DEF Stored, NewRow, Elems
    <3>2. CASE arg[r].op = "assign"
      <4>1. rows'[target[r]].roles = Elems(arg[r].roles)
        BY <1>t, <2>2, <2>6 DEF Row
      <4> QED
        BY <2>1, <3>2, <4>1 DEF Stored, Elems
    <3> QED
      BY <2>7, <3>1, <3>2
  <2> QED
    BY <2>1, <2>6, <2>7, <2>9 DEF Unplaced, Progress, Known
<1>8. CASE DeadlockVictim(r) \/ Abort(r)
  BY <1>a, <1>f, <1>8 DEF DeadlockVictim, Abort
<1>9. CASE UpdateProfile(r)
  <2>1. /\ pc[r] = "profile" /\ arg[r] \in UpdateArgs /\ arg[r].op = "update"
        /\ arg'[r] = arg[r] /\ target'[r] = target[r]
    BY <1>9, <1>k, <1>o, <1>p DEF UpdateProfile, Task, UpdateArgs
  <2>2. Answer(r, 409) \/ Answer(r, 400) => Unplaced(r)' /\ Progress(r)'
    BY <1>a, <1>f
  <2>3. Goto(r, "password") \/ Goto(r, "reread") => pc'[r] \in {"password", "reread"} /\ ans'[r] = 0
    BY <1>g
  <2>4. Goto(r, "reread") /\ AfterProfile(r, arg[r].pwd) => arg[r].pwd = None \/ pc'[r] = "password"
    BY <1>f, <1>g DEF AfterProfile
  <2>5. CASE Live(target[r]) /\ AfterProfile(r, arg[r].pwd)
             /\ rows' = [rows EXCEPT ![target[r]] = WithProfile(rows[target[r]], arg[r])]
    <3>1. target[r] \in DOMAIN rows' /\ rows'[target[r]] = WithProfile(rows[target[r]], arg[r])
      BY <1>t, <2>5 DEF Live
    <3>2. rows[target[r]] \in Row
      BY <1>t, <2>5 DEF Live
    <3>3. /\ arg[r].name # None => rows'[target[r]].name = arg[r].name
          /\ arg[r].email # None => rows'[target[r]].email = arg[r].email
      BY <3>1, <3>2 DEF WithProfile, Row
    <3>4. CASE arg[r].pwd = None /\ Goto(r, "reread")
      <4>1. Stored(r)'
        BY <2>1, <3>3, <3>4 DEF Stored
      <4>2. pc'[r] = "reread" /\ ans'[r] = 0
        BY <1>g, <3>4
      <4> QED
        BY <2>1, <4>1, <4>2 DEF Unplaced, Progress
    <3>5. CASE Goto(r, "password")
      <4>1. pc'[r] = "password" /\ ans'[r] = 0
        BY <1>g, <3>5
      <4> QED
        BY <2>1, <3>3, <4>1 DEF Unplaced, Progress
    <3> QED
      BY <2>2, <2>5, <3>4, <3>5 DEF AfterProfile
  <2>6. CASE ~Live(target[r]) /\ AfterProfile(r, arg[r].pwd) /\ rows' = rows
    <3>1. ~Live(target[r])'
      BY <2>1, <2>6 DEF Live
    <3>2. CASE Goto(r, "password") \/ Goto(r, "reread")
      BY <2>1, <2>3, <3>1, <3>2 DEF Unplaced, Progress
    <3> QED
      BY <2>2, <2>6, <3>2 DEF AfterProfile
  <2> QED
    BY <1>9, <2>2, <2>5, <2>6 DEF UpdateProfile, UpdateConflict
<1>10. CASE UpdatePassword(r)
  <2>1. /\ pc[r] = "password" /\ arg[r].op \in {"update", "reset"}
        /\ arg'[r] = arg[r] /\ target'[r] = target[r]
    BY <1>10, <1>k, <1>o, <1>p DEF UpdatePassword, Task, UpdateArgs, ResetArgs
  <2>2. arg[r].op = "reset" => Live(target[r])
    BY <2>1 DEF Progress
  <2>3. CASE Live(target[r])
    <3>1. rows' = [rows EXCEPT ![target[r]].pwd = arg[r].pwd] /\ rows[target[r]] \in Row
      BY <1>10, <1>t, <2>3 DEF UpdatePassword, PasswordMatches, Live
    <3>2. target[r] \in DOMAIN rows' /\ rows'[target[r]] = [rows[target[r]] EXCEPT !.pwd = arg[r].pwd]
      BY <1>t, <2>3, <3>1 DEF Live
    <3>3. /\ rows'[target[r]].pwd = arg[r].pwd
          /\ rows'[target[r]].name = rows[target[r]].name
          /\ rows'[target[r]].email = rows[target[r]].email
      BY <3>1, <3>2 DEF Row
    <3>4. arg[r].op = "update" => /\ arg[r].name # None => rows[target[r]].name = arg[r].name
                                  /\ arg[r].email # None => rows[target[r]].email = arg[r].email
      BY <2>1, <2>3 DEF Progress
    <3>5. Stored(r)'
      BY <2>1, <3>3, <3>4 DEF Stored
    <3>6. (pc'[r] = "done" \/ (pc'[r] = "reread" /\ ans'[r] = 0 /\ arg[r].op = "update"))
      BY <1>10, <1>f, <1>g DEF UpdatePassword
    <3> QED
      BY <2>1, <3>2, <3>5, <3>6 DEF Unplaced, Progress, Known
  <2>4. CASE ~Live(target[r])
    <3>1. arg[r].op = "update" /\ rows' = rows
      BY <1>10, <2>1, <2>2, <2>4 DEF UpdatePassword, PasswordMatches
    <3>2. pc'[r] = "reread" /\ ans'[r] = 0
      BY <1>10, <1>g, <3>1 DEF UpdatePassword
    <3>3. ~Live(target[r])'
      BY <2>1, <2>4, <3>1 DEF Live
    <3> QED
      BY <2>1, <3>1, <3>2, <3>3 DEF Unplaced, Progress
  <2> QED
    BY <2>3, <2>4
<1>11. CASE ResetLookup(r)
  <2>1. arg[r].op = "reset" /\ arg'[r] = arg[r] /\ rows' = rows
    BY <1>11, <1>k, <1>o DEF ResetLookup, Task, ResetArgs
  <2>2. CASE Answer(r, 404)
    BY <1>a, <1>f, <2>2
  <2>3. CASE \E u \in DOMAIN rows : Live(u) /\ target' = [target EXCEPT ![r] = u] /\ Goto(r, "password")
    <3>1. pc'[r] = "password" /\ ans'[r] = 0
      BY <1>g, <2>3
    <3>2. Live(target[r])'
      BY <1>t, <2>1, <2>3 DEF Live
    <3> QED
      BY <2>1, <3>1, <3>2 DEF Unplaced, Progress
  <2> QED
    BY <1>11, <2>2, <2>3 DEF ResetLookup
<1>12. CASE SoftDelete(r)
  <2>1. pc[r] = "delete" /\ arg[r].op = "delete" /\ arg'[r] = arg[r] /\ target'[r] = target[r]
    BY <1>12, <1>o, <1>p DEF SoftDelete, Progress
  <2>2. CASE Answer(r, 404)
    BY <1>a, <1>f, <2>2
  <2>3. CASE Live(target[r]) /\ rows' = [rows EXCEPT ![target[r]].deleted = TRUE] /\ Goto(r, "revoke")
    <3>1. target[r] \in DOMAIN rows /\ rows[target[r]] \in Row
      BY <1>t, <2>3 DEF Live
    <3>2. target[r] \in DOMAIN rows' /\ rows'[target[r]] = [rows[target[r]] EXCEPT !.deleted = TRUE]
      BY <1>t, <2>3, <3>1
    <3>3. rows'[target[r]].deleted
      BY <3>1, <3>2 DEF Row
    <3>4. pc'[r] = "revoke" /\ ans'[r] = 0
      BY <1>g, <2>3
    <3> QED
      BY <2>1, <3>2, <3>3, <3>4 DEF Unplaced, Progress, Known
  <2> QED
    BY <1>12, <2>2, <2>3 DEF SoftDelete
<1>13. CASE Revoked(r)
  <2>1. /\ pc[r] = "revoke" /\ pc'[r] = "done" /\ rows' = rows
        /\ arg'[r] = arg[r] /\ target'[r] = target[r]
    BY <1>13, <1>f, <1>o, <1>p DEF Revoked
  <2>2. arg[r].op = "delete" /\ Known(r) /\ rows[target[r]].deleted
    BY <2>1 DEF Progress
  <2>3. Known(r)' /\ Stored(r)'
    BY <2>1, <2>2 DEF Known, Stored
  <2> QED
    BY <2>1, <2>3 DEF Unplaced, Progress
<1>14. CASE Reread(r)
  <2>1. /\ pc[r] = "reread" /\ rows' = rows /\ arg'[r] = arg[r] /\ target'[r] = target[r]
    BY <1>14, <1>o, <1>p DEF Reread
  <2>2. CASE Answer(r, 404)
    BY <1>a, <1>f, <2>2
  <2>3. CASE arg[r].op = "create" \/ Live(target[r])
    <3>1. arg[r].op \in {"create", "assign", "update", "get"}
      BY <1>k, <2>1 DEF Task, CreateArgs, AssignArgs, UpdateArgs, IdArgs, Progress
    <3>2. arg[r].op = "get" \/ (Known(r) /\ Stored(r))
      BY <2>1, <2>3, <3>1 DEF Progress, Live, Known
    <3>3. Known(r) /\ Stored(r) => Known(r)' /\ Stored(r)'
      BY <2>1 DEF Known, Stored, NewRow
    <3>4. pc'[r] = "done"
      BY <1>14, <1>f DEF Reread
    <3> QED
      BY <2>1, <3>2, <3>3, <3>4 DEF Unplaced, Progress
  <2> QED
    BY <1>14, <2>2, <2>3 DEF Reread
<1>15. CASE CountUsers(r)
  <2>1. pc'[r] = "page" /\ ans'[r] = 0
    BY <1>15, <1>g DEF CountUsers
  <2> QED
    BY <2>1 DEF Unplaced, Progress
<1>16. CASE PageUsers(r)
  <2>1. pc[r] = "page" /\ pc'[r] = "done" /\ arg'[r] = arg[r]
    BY <1>16, <1>f, <1>o DEF PageUsers
  <2>2. arg[r].op = "list"
    BY <1>k, <2>1 DEF Task, ListArgs
  <2> QED
    BY <2>1, <2>2 DEF Unplaced, Progress
<1> QED
  BY <1>1, <1>2, <1>3, <1>4, <1>5, <1>6, <1>7, <1>8, <1>9, <1>10, <1>11, <1>12, <1>13, <1>14, <1>15, <1>16 DEF Continue

\* What an accepted request asked for is stored, whatever the others do beside it.
THEOREM AcceptedIsStoredCorrect == Spec => []AcceptedIsStored
<1> DEFINE Cleans == \A r \in Reqs : Clean(r) /\ RefusedWroteNothing(r)
<1>1. Init => Cleans /\ ProgressInv
  BY DEF Init, Clean, RefusedWroteNothing, ProgressInv, Unplaced, Progress
<1>2. TypeInv /\ Cleans /\ ProgressInv /\ [Next]_vars => Cleans' /\ ProgressInv'
  <2>1. ASSUME Cleans, ProgressInv, UNCHANGED vars PROVE Cleans' /\ ProgressInv'
    <3>1. Cleans'
      BY <2>1 DEF vars, locals, Clean, RefusedWroteNothing
    <3>2. ASSUME NEW r \in Reqs
          PROVE /\ Unplaced(r)' <=> Unplaced(r)
                /\ Undisturbed(r)' <=> Undisturbed(r)
                /\ Known(r)' <=> Known(r)
                /\ Live(target[r])' <=> Live(target[r])
                /\ Stored(r)' <=> Stored(r)
      BY <2>1 DEF vars, locals, Unplaced, Undisturbed, Known, Live, Stored, NewRow
    <3>3. ASSUME NEW r \in Reqs PROVE Progress(r)' <=> Progress(r)
      BY <2>1, <3>2 DEF vars, locals, Progress, RolesOf, NewRow
    <3> QED
      BY <2>1, <3>1, <3>2, <3>3 DEF ProgressInv
  <2> SUFFICES ASSUME TypeInv, Cleans, ProgressInv, NEW r \in Reqs, Start(r) \/ Continue(r) \/ Abort(r)
               PROVE Cleans' /\ ProgressInv'
    BY <2>1 DEF Next
  <2>2. Cleans'
    BY CleanOthers, CleanStep
  <2>3. Unplaced(r) /\ (Undisturbed(r) => Progress(r))
    BY DEF ProgressInv
  <2>4. ASSUME NEW s \in Reqs \ {r} PROVE Unplaced(s)' /\ (Undisturbed(s)' => Progress(s)')
    <3>1. Unplaced(s) /\ (Undisturbed(s) => Progress(s))
      BY DEF ProgressInv
    <3>2. arg'[s] = arg[s] /\ pc'[s] = pc[s] /\ target'[s] = target[s]
      BY TypeStays DEF Others
    <3>3. Unplaced(s)'
      BY <3>1, <3>2 DEF Unplaced
    <3> QED
      BY <2>3, <3>1, <3>3, ProgressOthers
  <2>5. Unplaced(r)' /\ (Undisturbed(r)' => Progress(r)')
    <3>1. CASE Undisturbed(r)
      BY <2>3, <3>1, ProgressOwn
    <3>2. CASE ~Undisturbed(r)
      <4>1. pc[r] \notin {"new", "insert", "lookup"} /\ target'[r] = target[r]
        BY <2>3, <3>2, Moves DEF Undisturbed, Unplaced
      <4>2. \A s \in Reqs \ {r} : target'[s] = target[s]
        BY TypeStays DEF Others
      <4>3. ~Undisturbed(r)'
        BY <3>2, <4>1, <4>2 DEF Undisturbed
      <4>4. pc'[r] \notin {"new", "insert", "lookup"}
        BY <4>1, Onward DEF Start
      <4> QED
        BY <4>3, <4>4 DEF Unplaced
    <3> QED
      BY <3>1, <3>2
  <2> QED
    BY <2>2, <2>4, <2>5 DEF ProgressInv
<1>3. ProgressInv => AcceptedIsStored
  BY ZenonT(40) DEF ProgressInv, Undisturbed, Progress, AcceptedIsStored, Stored
<1> QED
  BY <1>1, <1>2, <1>3, TypeCorrect, PTL DEF Spec
-----------------------------------------------------------------------------
(* Overlapping changes of roles *)

\* Only the commit of a change writes a user's roles.
LEMMA RolesStay ==
  ASSUME TypeInv, NEW r \in Reqs, Start(r) \/ Continue(r) \/ Abort(r), NEW u \in DOMAIN rows,
         CommitRoles(r) => u # target[r]
  PROVE  u \in DOMAIN rows' /\ rows'[u].roles = rows[u].roles
<1>1. rows \in Seq(Row)
  BY DEF TypeInv, TypeOK
<1>2. CASE u # target[r] \/ pc[r] \in {"new", "insert", "lookup"}
  BY <1>2, OtherRowsStay
<1>3. CASE \E row : rows' = [rows EXCEPT ![target[r]] = row] /\ row.roles = rows[target[r]].roles
  BY <1>1, <1>3
<1> QED
  BY <1>2, <1>3, TableStep

\* The list of r is committed once its transaction is over.
Committed(r) == "roles" \in wrote[r] => pc[r] \in {"reread", "done"}

\* No other step is taken for the commit of a list.
LEMMA CommittedStep ==
  ASSUME TypeInv, NEW r \in Reqs, Start(r) \/ Continue(r) \/ Abort(r), Committed(r)
  PROVE  /\ Committed(r)'
         /\ ~CommitRoles(r) => ("roles" \in wrote'[r] <=> "roles" \in wrote[r])
         /\ CommitRoles(r) => "roles" \in wrote'[r]
<1>t. pc \in [Reqs -> PC] /\ wrote \in [Reqs -> SUBSET Commits]
  BY DEF TypeInv, TypeOK, Commits
<1>1. CASE CommitRoles(r)
  BY <1>1, <1>t DEF CommitRoles, Wrote, Goto, Committed
<1>2. CASE ~CommitRoles(r)
  <2>1. wrote' = wrote \/ \E w \in Commits \ {"roles"} : Wrote(r, w)
    <3>1. Start(r) => wrote' = wrote
      BY DEF Start, StartCreate, StartAssign, StartUpdate, StartReset, StartById, StartList, Refuse, Begin
    <3>2. InsertUser(r) \/ UpdateProfile(r) \/ UpdatePassword(r) \/ SoftDelete(r)
            => wrote' = wrote \/ \E w \in Commits \ {"roles"} : Wrote(r, w)
      BY DEF InsertUser, UpdateProfile, UpdatePassword, SoftDelete, Commits
    <3>3. ReadCreated(r) \/ BeginRoles(r) \/ ClearRoles(r) \/ LinkRole(r) \/ DeadlockVictim(r) \/ Abort(r)
          \/ ResetLookup(r) \/ Revoked(r) \/ Reread(r) \/ CountUsers(r) \/ PageUsers(r) => wrote' = wrote
      BY DEF ReadCreated, BeginRoles, ClearRoles, LinkRole, DeadlockVictim, Abort, ResetLookup, Revoked,
             Reread, CountUsers, PageUsers
    <3> QED
      BY <1>2, <3>1, <3>2, <3>3 DEF Continue
  <2>2. "roles" \in wrote'[r] <=> "roles" \in wrote[r]
    BY <1>t, <2>1 DEF Wrote
  <2>3. pc[r] = "reread" => pc'[r] = "done"
    <3>1. pc[r] = "reread" => Reread(r) \/ DeadlockVictim(r) \/ Abort(r)
      BY DEF Start, Continue, InsertUser, ReadCreated, BeginRoles, ClearRoles, LinkRole, CommitRoles,
             UpdateProfile, UpdatePassword, ResetLookup, SoftDelete, Revoked, CountUsers, PageUsers
    <3> QED
      BY <1>t, <3>1 DEF Reread, DeadlockVictim, Abort, Fail, Answer
  <2>4. pc[r] # "done"
    BY Moves
  <2> QED
    BY <1>2, <2>2, <2>3, <2>4 DEF Committed
<1> QED
  BY <1>1, <1>2

ListOf(r) == Elems(arg[r].roles)
Lists(C) == UNION {ListOf(r) : r \in C}
Disjoint(C) == \A c, d \in C : c # d => ListOf(c) \cap ListOf(d) = {}

\* The committed changes of u's roles, and the transactions that are changing them.
ChangesOf(u) == {r \in Reqs : target[r] = u /\ "roles" \in wrote[r]}
InTx(r, u) == target[r] = u /\ pc[r] \in {"clear", "link"}

\* The roles of u are the lists of the changes in C, no two of which share a role,
\* and whatever a DELETE has found is some of these lists.
Blocks(u, C) ==
  /\ rows[u].roles = Lists(C)
  /\ Disjoint(C)
  /\ \A r \in Reqs : InTx(r, u) => \E B \in SUBSET C : tx[r].seen = Lists(B)

\* Before the first change has been committed, a DELETE finds all roles.
Whole(u) ==
  /\ ChangesOf(u) = {} => \A r \in Reqs : InTx(r, u) => tx[r].seen = rows[u].roles
  /\ ChangesOf(u) # {} => \E C \in SUBSET ChangesOf(u) : C # {} /\ Blocks(u, C)

\* What a transaction has locked: rows that are there, and keys that are not.
Locked(r) ==
  /\ Committed(r)
  /\ pc[r] \in {"clear", "link"} => tx[r].seen \subseteq RolesOf(target[r])
  /\ pc[r] = "link" => /\ tx[r].del = tx[r].seen
                       /\ tx[r].ins \cap (RolesOf(target[r]) \ tx[r].del) = {}
  /\ pc[r] # "link" => tx[r].del = {} /\ tx[r].ins = {}

\* Two transactions about the same user have locked different rows and keys.
Apart(r, s) ==
  target[r] = target[s] =>
    /\ tx[r].del \cap tx[s].del = {}
    /\ tx[r].ins \cap tx[s].ins = {}
    /\ tx[r].ins \cap tx[s].del = {}
    /\ tx[s].ins \cap tx[r].del = {}

LocksInv ==
  /\ \A r \in Reqs : Locked(r)
  /\ \A r, s \in Reqs : r # s => Apart(r, s)

\* Whole lists less whole lists are whole lists.
LEMMA ListsLess ==
  ASSUME NEW C, Disjoint(C), NEW A \in SUBSET C, NEW B \in SUBSET C
  PROVE  Lists(A) \ Lists(B) = Lists(A \ B)
<1>1. ASSUME NEW x, x \in Lists(A), x \notin Lists(B) PROVE x \in Lists(A \ B)
  <2>1. PICK c \in A : x \in ListOf(c)
    BY <1>1 DEF Lists
  <2>2. c \notin B
    BY <1>1, <2>1 DEF Lists
  <2> QED
    BY <2>1, <2>2 DEF Lists
<1>2. ASSUME NEW x, x \in Lists(A \ B) PROVE x \in Lists(A) /\ x \notin Lists(B)
  <2>1. PICK c \in A \ B : x \in ListOf(c)
    BY <1>2 DEF Lists
  <2>2. \A d \in B : x \notin ListOf(d)
    BY <2>1 DEF Disjoint
  <2> QED
    BY <2>1, <2>2 DEF Lists
<1> QED
  BY <1>1, <1>2

\* What the request's own step makes of its transaction: nothing, or it begins it,
\* or the DELETE returns, or a role that is free is inserted.
LEMMA TxStep ==
  ASSUME TypeInv, NEW r \in Reqs, Start(r) \/ Continue(r) \/ Abort(r), pc'[r] \in {"clear", "link"}
  PROVE  /\ target'[r] = target[r] /\ rows' = rows
         /\ \/ /\ pc'[r] = "clear" /\ tx'[r].seen = RolesOf(target[r])
               /\ tx'[r].del = {} /\ tx'[r].ins = {}
            \/ /\ pc[r] = "clear" /\ pc'[r] = "link" /\ tx'[r].seen = tx[r].seen
               /\ tx'[r].del = tx[r].seen /\ tx'[r].ins = {}
               /\ \A s \in Reqs \ {r} : target[s] = target[r] => tx[s].del \cap tx[r].seen = {}
            \/ /\ pc[r] = "link" /\ pc'[r] = "link"
               /\ tx'[r].seen = tx[r].seen /\ tx'[r].del = tx[r].del
               /\ tx'[r].ins = tx[r].ins \cup {NextRole(r)}
               /\ NextRole(r) \notin RolesOf(target[r]) \ tx[r].del
               /\ \A s \in Reqs \ {r} : target[s] = target[r] => NextRole(r) \notin tx[s].del \cup tx[s].ins
<1>t. /\ pc \in [Reqs -> PC] /\ tx \in [Reqs -> Tx] /\ Task(arg[r], pc[r], target[r], tx[r], DOMAIN rows)
  BY DEF TypeInv, TypeOK
<1>g. ASSUME NEW label, Goto(r, label) PROVE pc'[r] = label
  BY <1>t, <1>g DEF Goto
<1>f. ASSUME NEW status, Answer(r, status) \/ Fail(r, status) PROVE pc'[r] = "done"
  BY <1>f, <1>t DEF Answer, Fail
<1>1. BeginRoles(r) \/ ClearRoles(r) \/ LinkRole(r)
  <2>1. ~Start(r)
    <3>1. ASSUME NEW status, Refuse(r, status) PROVE pc'[r] = "done"
      BY <1>t, <3>1 DEF Refuse
    <3>2. ASSUME NEW a, NEW label, NEW u, Begin(r, a, label, u) PROVE pc'[r] = label
      BY <1>t, <3>2 DEF Begin
    <3> QED
      BY <3>1, <3>2 DEF Start, StartCreate, StartAssign, StartUpdate, StartReset, StartById, StartList
  <2>2. ~(InsertUser(r) \/ ReadCreated(r) \/ CommitRoles(r) \/ DeadlockVictim(r) \/ Abort(r))
    BY <1>f, <1>g DEF InsertUser, ReadCreated, CommitRoles, DeadlockVictim, Abort
  <2>3. ~(UpdateProfile(r) \/ UpdatePassword(r) \/ ResetLookup(r) \/ SoftDelete(r))
    BY <1>f, <1>g DEF UpdateProfile, AfterProfile, UpdatePassword, ResetLookup, SoftDelete
  <2>4. ~(Revoked(r) \/ Reread(r) \/ CountUsers(r) \/ PageUsers(r))
    BY <1>f, <1>g DEF Revoked, Reread, CountUsers, PageUsers
  <2> QED
    BY <2>1, <2>2, <2>3, <2>4 DEF Continue
<1>2. target'[r] = target[r] /\ rows' = rows
  BY <1>1 DEF BeginRoles, ClearRoles, LinkRole
<1>3. CASE BeginRoles(r)
  <2>1. pc[r] = "begin" /\ tx[r] = NoTx /\ pc'[r] = "clear"
    BY <1>3, <1>g, <1>t DEF BeginRoles, Task
  <2>2. tx'[r] = [NoTx EXCEPT !.seen = RolesOf(target[r])]
    BY <1>3, <1>t, <2>1 DEF BeginRoles
  <2> QED
    BY <1>2, <2>1, <2>2 DEF NoTx
<1>4. CASE ClearRoles(r)
  <2>1. pc[r] = "clear" /\ pc'[r] = "link" /\ tx[r].ins = {} /\ Blockers(r) = {}
    BY <1>4, <1>g, <1>t DEF ClearRoles, Task
  <2>2. tx'[r] = [tx[r] EXCEPT !.del = tx[r].seen] /\ tx[r] \in Tx
    BY <1>4, <1>t DEF ClearRoles
  <2>3. \A s \in Reqs \ {r} : target[s] = target[r] => tx[s].del \cap tx[r].seen = {}
    BY <2>1 DEF Blockers
  <2> QED
    BY <1>2, <2>1, <2>2, <2>3 DEF Tx
<1>5. CASE LinkRole(r)
  <2>1. /\ pc[r] = "link" /\ pc'[r] = "link" /\ Blockers(r) = {} /\ tx[r].next <= Len(arg[r].roles)
        /\ tx' = [tx EXCEPT ![r].ins = @ \cup {NextRole(r)}, ![r].next = @ + 1]
        /\ NextRole(r) \notin RolesOf(target[r]) \ tx[r].del
    BY ZenonT(40), <1>5, <1>f DEF LinkRole
  <2>2. tx[r] \in Tx /\ tx'[r] = [tx[r] EXCEPT !.ins = tx[r].ins \cup {NextRole(r)}, !.next = tx[r].next + 1]
    BY <1>t, <2>1
  <2>3. \A s \in Reqs \ {r} : target[s] = target[r] => NextRole(r) \notin tx[s].del \cup tx[s].ins
    BY <2>1 DEF Blockers
  <2>4. tx'[r].seen = tx[r].seen /\ tx'[r].del = tx[r].del /\ tx'[r].ins = tx[r].ins \cup {NextRole(r)}
    BY <2>2 DEF Tx
  <2> QED
    BY <1>2, <2>1, <2>3, <2>4
<1> QED
  BY <1>1, <1>3, <1>4, <1>5

\* The other transactions lose what the commit has deleted, and nothing else.
LEMMA CloseFacts ==
  ASSUME TypeInv, NEW r \in Reqs, CommitRoles(r)
  PROVE  /\ tx'[r] = NoTx /\ pc'[r] = "reread" /\ UNCHANGED <<arg, target>>
         /\ \A s \in Reqs \ {r} : /\ pc'[s] = pc[s] /\ tx'[s].del = tx[s].del /\ tx'[s].ins = tx[s].ins
                                  /\ target[s] # target[r] => tx'[s].seen = tx[s].seen
                                  /\ target[s] = target[r] => tx'[s].seen = tx[s].seen \ tx[r].del
         /\ target[r] \in DOMAIN rows /\ target[r] \in DOMAIN rows'
         /\ tx[r].ins = ListOf(r)
         /\ rows'[target[r]].roles = (rows[target[r]].roles \ tx[r].del) \cup tx[r].ins
<1>t. /\ pc \in [Reqs -> PC] /\ tx \in [Reqs -> Tx] /\ rows \in Seq(Row)
      /\ \A u \in DOMAIN rows : rows[u] \in Row
  BY DEF TypeInv, TypeOK
<1>1. tx'[r] = NoTx /\ pc'[r] = "reread" /\ UNCHANGED <<arg, target>> /\ \A s \in Reqs \ {r} : pc'[s] = pc[s]
  BY <1>t DEF CommitRoles, Commit, Close, Goto
<1>2. ASSUME NEW s \in Reqs \ {r}
      PROVE /\ tx'[s].del = tx[s].del /\ tx'[s].ins = tx[s].ins
            /\ target[s] # target[r] => tx'[s].seen = tx[s].seen
            /\ target[s] = target[r] => tx'[s].seen = tx[s].seen \ tx[r].del
  <2>1. tx[s] \in Tx
    BY <1>t
  <2>2. tx'[s] = IF target[s] = target[r] THEN [tx[s] EXCEPT !.seen = tx[s].seen \ tx[r].del] ELSE tx[s]
    BY DEF CommitRoles, Commit, Close
  <2> QED
    BY <2>1, <2>2 DEF Tx
<1>3. /\ target[r] \in DOMAIN rows /\ tx[r].ins = ListOf(r)
      /\ rows' = [rows EXCEPT ![target[r]].roles = (@ \ tx[r].del) \cup tx[r].ins]
  BY CommitFacts DEF ListOf
<1>4. PICK R : R = (rows[target[r]].roles \ tx[r].del) \cup tx[r].ins
  OBVIOUS
<1>5. rows' = [rows EXCEPT ![target[r]] = [rows[target[r]] EXCEPT !.roles = R]]
  BY <1>3, <1>4
<1>6. target[r] \in DOMAIN rows' /\ rows'[target[r]] = [rows[target[r]] EXCEPT !.roles = R]
  BY <1>t, <1>3, <1>5
<1>7. rows'[target[r]].roles = R
  <2>1. rows[target[r]] \in Row
    BY <1>t, <1>3
  <2> QED
    BY <1>6, <2>1 DEF Row
<1> QED
  BY <1>1, <1>2, <1>3, <1>4, <1>6, <1>7

\* The locks of a user's transactions keep them apart.
LEMMA LocksStep ==
  ASSUME TypeInv, LocksInv, NEW r \in Reqs, Start(r) \/ Continue(r) \/ Abort(r)
  PROVE  LocksInv'
<1>l. \A s \in Reqs : Locked(s)
  BY DEF LocksInv
<1>a. \A s, q \in Reqs : s # q => Apart(s, q)
  BY DEF LocksInv
<1>o. ASSUME NEW s \in Reqs \ {r}
      PROVE pc'[s] = pc[s] /\ target'[s] = target[s] /\ wrote'[s] = wrote[s]
  BY TypeStays DEF Others
<1>d. ASSUME NEW s \in Reqs
      PROVE target[s] \in DOMAIN rows \cup {0} /\ 0 \notin DOMAIN rows /\ 0 \notin DOMAIN rows'
  <2>1. rows \in Seq(Row) /\ rows' \in Seq(Row)
    BY TypeStays DEF TypeInv, TypeOK
  <2> QED
    BY <2>1 DEF TypeInv, Task
<1>c. Committed(r)'
  BY <1>l, CommittedStep DEF Locked
<1>r. ASSUME NEW s \in Reqs, CommitRoles(r) => target[s] # target[r]
      PROVE RolesOf(target[s]) = IF target[s] \in DOMAIN rows' THEN rows'[target[s]].roles ELSE {}
  <2>1. CASE target[s] \in DOMAIN rows
    BY <1>r, <2>1, RolesStay DEF RolesOf
  <2>2. CASE target[s] = 0
    BY <1>d, <2>2 DEF RolesOf
  <2> QED
    BY <1>d, <2>1, <2>2
<1>1. CASE CommitRoles(r)
  <2>1. Locked(r)'
    BY <1>1, <1>c, CloseFacts DEF Locked, NoTx
  <2>2. ASSUME NEW s \in Reqs \ {r} PROVE Locked(s)'
    <3>1. Committed(s)'
      BY <1>l, <1>o DEF Locked, Committed
    <3>2. CASE target[s] # target[r]
      <4>1. RolesOf(target[s])' = RolesOf(target[s])
        BY <1>o, <1>r, <3>2 DEF RolesOf
      <4>2. tx'[s].seen = tx[s].seen /\ tx'[s].del = tx[s].del /\ tx'[s].ins = tx[s].ins
        BY <1>1, <3>2, CloseFacts
      <4> QED
        BY <1>l, <1>o, <3>1, <4>1, <4>2 DEF Locked
    <3>3. CASE target[s] = target[r]
      <4>1. /\ RolesOf(target[s])' = (RolesOf(target[s]) \ tx[r].del) \cup tx[r].ins
            /\ tx'[s].seen = tx[s].seen \ tx[r].del /\ tx'[s].del = tx[s].del /\ tx'[s].ins = tx[s].ins
        BY <1>1, <1>o, <3>3, CloseFacts DEF RolesOf
      <4>2. tx[s].del \cap tx[r].del = {} /\ tx[s].ins \cap tx[r].ins = {}
        BY <1>a, <3>3 DEF Apart
      <4>3. Locked(s)
        BY <1>l
      <4> QED
        BY <1>o, <3>1, <4>1, <4>2, <4>3 DEF Locked
    <3> QED
      BY <3>2, <3>3
  <2>3. ASSUME NEW s \in Reqs, NEW q \in Reqs, s # q PROVE Apart(s, q)'
    <3>1. tx'[r].del = {} /\ tx'[r].ins = {}
      BY <1>1, CloseFacts DEF NoTx
    <3>2. \A p \in Reqs \ {r} : tx'[p].del = tx[p].del /\ tx'[p].ins = tx[p].ins
      BY <1>1, CloseFacts
    <3>3. target' = target /\ Apart(s, q)
      BY <1>1, <1>a, <2>3, CloseFacts
    <3> QED
      BY <3>1, <3>2, <3>3 DEF Apart
  <2> QED
    BY <2>1, <2>2, <2>3 DEF LocksInv
<1>2. CASE ~CommitRoles(r)
  <2>1. ASSUME NEW s \in Reqs \ {r} PROVE tx'[s] = tx[s] /\ Locked(s)'
    <3>1. tx'[s] = tx[s]
      BY <1>2, TxStays
    <3>2. Committed(s)'
      BY <1>l, <1>o DEF Locked, Committed
    <3>3. RolesOf(target[s])' = RolesOf(target[s])
      BY <1>2, <1>o, <1>r DEF RolesOf
    <3> QED
      BY <1>l, <1>o, <3>1, <3>2, <3>3 DEF Locked
  <2>2. CASE pc'[r] \notin {"clear", "link"}
    <3>1. tx'[r] = NoTx
      BY <2>2, TypeStays DEF TypeInv, Task
    <3>2. tx'[r].del = {} /\ tx'[r].ins = {}
      BY <3>1 DEF NoTx
    <3>3. Locked(r)'
      BY <1>c, <2>2, <3>2 DEF Locked
    <3>4. ASSUME NEW s \in Reqs, NEW q \in Reqs, s # q PROVE Apart(s, q)'
      <4>1. Apart(s, q)
        BY <1>a, <3>4
      <4> QED
        BY <1>o, <2>1, <3>2, <3>4, <4>1 DEF Apart
    <3> QED
      BY <2>1, <3>3, <3>4 DEF LocksInv
  <2>3. CASE pc'[r] \in {"clear", "link"}
    <3>1. target'[r] = target[r] /\ RolesOf(target[r])' = RolesOf(target[r])
      BY <1>2, <1>r, <2>3, TxStep DEF RolesOf
    <3>2. Locked(r)'
      <4>1. Locked(r)
        BY <1>l
      <4> QED
        BY <1>c, <2>3, <3>1, <4>1, TxStep DEF Locked
    <3>3. ASSUME NEW s \in Reqs \ {r}, target[s] = target[r]
          PROVE /\ tx'[r].del \cap tx[s].del = {} /\ tx'[r].ins \cap tx[s].ins = {}
                /\ tx'[r].ins \cap tx[s].del = {} /\ tx[s].ins \cap tx'[r].del = {}
      <4>1. Locked(r) /\ Locked(s) /\ Apart(r, s)
        BY <1>l, <1>a
      <4>2. /\ tx[r].del \cap tx[s].del = {} /\ tx[r].ins \cap tx[s].ins = {}
            /\ tx[r].ins \cap tx[s].del = {} /\ tx[s].ins \cap tx[r].del = {}
        BY <3>3, <4>1 DEF Apart
      <4>3. pc[r] = "clear" /\ tx[s].del \cap tx[r].seen = {} => tx[s].ins \cap tx[r].seen = {}
        <5>1. pc[r] = "clear" => tx[r].seen \subseteq RolesOf(target[s])
          BY <3>3, <4>1 DEF Locked
        <5>2. tx[s].ins \cap (RolesOf(target[s]) \ tx[s].del) = {}
          BY <4>1 DEF Locked
        <5> QED
          BY <5>1, <5>2
      <4> QED
        BY <2>3, <3>3, <4>2, <4>3, TxStep
    <3>4. ASSUME NEW s \in Reqs, NEW q \in Reqs, s # q PROVE Apart(s, q)'
      <4>1. Apart(s, q)
        BY <1>a, <3>4
      <4>2. CASE s # r /\ q # r
        BY <1>o, <2>1, <4>1, <4>2 DEF Apart
      <4>3. CASE s = r
        BY <1>o, <2>1, <3>1, <3>3, <3>4, <4>3 DEF Apart
      <4>4. CASE q = r
        BY <1>o, <2>1, <3>1, <3>3, <3>4, <4>4 DEF Apart
      <4> QED
        BY <4>2, <4>3, <4>4
    <3> QED
      BY <2>1, <3>2, <3>4 DEF LocksInv
  <2> QED
    BY <2>2, <2>3
<1> QED
  BY <1>1, <1>2

\* A list stays what it is from its commit on, and so do the committed changes of a
\* user until the next one.
LEMMA ListsStay ==
  ASSUME TypeInv, LocksInv, NEW r \in Reqs, Start(r) \/ Continue(r) \/ Abort(r), NEW u
  PROVE  /\ \A c \in ChangesOf(u) : ListOf(c)' = ListOf(c)
         /\ ChangesOf(u)' = IF CommitRoles(r) /\ target[r] = u THEN ChangesOf(u) \cup {r} ELSE ChangesOf(u)
<1>1. ASSUME NEW s \in Reqs \ {r}
      PROVE arg'[s] = arg[s] /\ target'[s] = target[s] /\ wrote'[s] = wrote[s]
  BY TypeStays DEF Others
<1>2. Committed(r)
  BY DEF LocksInv, Locked
<1>3. "roles" \in wrote'[r] => pc[r] \notin {"new", "insert", "lookup"}
  <2>1. CASE CommitRoles(r)
    BY <2>1 DEF CommitRoles
  <2>2. CASE ~CommitRoles(r)
    BY <1>2, <2>2, CommittedStep DEF Committed
  <2> QED
    BY <2>1, <2>2
<1>4. "roles" \in wrote[r] => "roles" \in wrote'[r]
  BY Moves
<1>5. "roles" \in wrote'[r] => arg'[r] = arg[r] /\ target'[r] = target[r]
  BY <1>3, Moves
<1>6. ASSUME NEW c \in ChangesOf(u) PROVE ListOf(c)' = ListOf(c)
  BY <1>1, <1>4, <1>5 DEF ChangesOf, ListOf, Elems
<1>7. "roles" \in wrote'[r] <=> CommitRoles(r) \/ "roles" \in wrote[r]
  BY <1>2, <1>4, CommittedStep
<1>8. ChangesOf(u)' = IF CommitRoles(r) /\ target[r] = u THEN ChangesOf(u) \cup {r} ELSE ChangesOf(u)
  BY <1>1, <1>5, <1>7 DEF ChangesOf
<1> QED
  BY <1>6, <1>8

\* A committed change replaces the lists that its DELETE has found by its own.
LEMMA WholeCommit ==
  ASSUME TypeInv, LocksInv, NEW r \in Reqs, CommitRoles(r), NEW u, u = target[r], Whole(u)
  PROVE  Whole(u)'
<1>s. Start(r) \/ Continue(r) \/ Abort(r)
  BY DEF Continue
<1>1. /\ target' = target /\ pc'[r] = "reread"
      /\ rows'[u].roles = (rows[u].roles \ tx[r].del) \cup ListOf(r)
      /\ \A s \in Reqs \ {r} : /\ pc'[s] = pc[s]
                               /\ target[s] = u => tx'[s].seen = tx[s].seen \ tx[r].del
  BY CloseFacts
<1>2. /\ InTx(r, u) /\ tx[r].del = tx[r].seen /\ r \notin ChangesOf(u)
      /\ ListOf(r) \cap (RolesOf(u) \ tx[r].del) = {}
  <2>1. pc[r] = "link"
    BY DEF CommitRoles
  <2>2. Locked(r) /\ tx[r].ins = ListOf(r)
    BY CloseFacts DEF LocksInv
  <2> QED
    BY <2>1, <2>2 DEF Locked, Committed, InTx, ChangesOf
<1>3. RolesOf(u) = rows[u].roles
  BY CloseFacts DEF RolesOf
<1>4. ListOf(r)' = ListOf(r)
  BY CloseFacts DEF ListOf, Elems
<1>5. ChangesOf(u)' = ChangesOf(u) \cup {r}
  BY <1>s, ListsStay
<1>6. ASSUME NEW B \in SUBSET (ChangesOf(u) \cup {r})
      PROVE Lists(B)' = Lists(B)
  <2>1. ASSUME NEW c \in B PROVE ListOf(c)' = ListOf(c)
    BY <1>s, <1>4, ListsStay
  <2> QED
    BY <2>1 DEF Lists
<1>7. ASSUME NEW s \in Reqs, InTx(s, u)'
      PROVE s # r /\ InTx(s, u) /\ tx'[s].seen = tx[s].seen \ tx[r].del
  BY <1>1, <1>7 DEF InTx
\* It is enough to name the lists that are left.
<1>8. ASSUME NEW A \in SUBSET ChangesOf(u), rows[u].roles \ tx[r].del = Lists(A), Disjoint(A),
             \A s \in Reqs : s # r /\ InTx(s, u) => \E B \in SUBSET A : tx[s].seen \ tx[r].del = Lists(B)
      PROVE Whole(u)'
  <2> DEFINE C == A \cup {r}
  <2>1. rows'[u].roles = Lists(C)'
    <3>1. Lists(C)' = Lists(C)
      BY <1>6
    <3>2. Lists(C) = Lists(A) \cup ListOf(r)
      BY DEF Lists
    <3> QED
      BY <1>1, <1>8, <3>1, <3>2
  <2>2. Disjoint(C)'
    <3>1. ASSUME NEW c \in C, NEW d \in C, c # d PROVE ListOf(c)' \cap ListOf(d)' = {}
      <4>1. ListOf(c)' = ListOf(c) /\ ListOf(d)' = ListOf(d)
        BY <1>s, <1>4, ListsStay
      <4>2. \A a \in A : ListOf(a) \cap ListOf(r) = {}
        <5>1. \A a \in A : ListOf(a) \subseteq rows[u].roles \ tx[r].del
          BY <1>8 DEF Lists
        <5> QED
          BY <1>2, <1>3, <5>1
      <4>3. ListOf(c) \cap ListOf(d) = {}
        BY <1>8, <3>1, <4>2 DEF Disjoint
      <4> QED
        BY <4>1, <4>3
    <3> QED
      BY <3>1 DEF Disjoint
  <2>3. ASSUME NEW s \in Reqs, InTx(s, u)'
        PROVE \E B \in SUBSET C : tx'[s].seen = Lists(B)'
    <3>1. s # r /\ InTx(s, u) /\ tx'[s].seen = tx[s].seen \ tx[r].del
      BY <1>7, <2>3
    <3>2. PICK B \in SUBSET A : tx[s].seen \ tx[r].del = Lists(B)
      BY <1>8, <3>1
    <3>3. B \in SUBSET C /\ Lists(B)' = Lists(B)
      BY <1>6, <3>2
    <3> QED
      BY <3>1, <3>2, <3>3
  <2>4. C \in SUBSET ChangesOf(u)' /\ C # {}
    BY <1>5
  <2> HIDE DEF C
  <2>5. Blocks(u, C)'
    BY <2>1, <2>2, <2>3 DEF Blocks
  <2> QED
    BY <2>4, <2>5 DEF Whole
<1>9. CASE ChangesOf(u) = {}
  <2>1. \A s \in Reqs : InTx(s, u) => tx[s].seen = rows[u].roles
    BY <1>9 DEF Whole
  <2>2. tx[r].del = rows[u].roles
    BY <1>2, <2>1
  <2>3. Lists({}) = {} /\ Disjoint({})
    BY DEF Lists, Disjoint
  <2>4. \A s \in Reqs : s # r /\ InTx(s, u) => \E B \in SUBSET {} : tx[s].seen \ tx[r].del = Lists(B)
    <3>1. \A s \in Reqs : InTx(s, u) => tx[s].seen \ tx[r].del = {}
      BY <2>1, <2>2
    <3>2. {} \in SUBSET {}
      OBVIOUS
    <3> QED
      BY <2>3, <3>1, <3>2
  <2>5. rows[u].roles \ tx[r].del = Lists({}) /\ {} \in SUBSET ChangesOf(u)
    BY <2>2, <2>3
  <2> QED
    BY <1>8, <2>3, <2>4, <2>5
<1>10. CASE ChangesOf(u) # {}
  <2>1. PICK C \in SUBSET ChangesOf(u) : C # {} /\ Blocks(u, C)
    BY <1>10 DEF Whole
  <2>2. PICK F \in SUBSET C : tx[r].seen = Lists(F)
    BY <1>2, <2>1 DEF Blocks
  <2>3. Disjoint(C) /\ rows[u].roles = Lists(C)
    BY <2>1 DEF Blocks
  <2>4. rows[u].roles \ tx[r].del = Lists(C \ F)
    BY <1>2, <2>2, <2>3, ListsLess
  <2>5. Disjoint(C \ F)
    BY <2>3 DEF Disjoint
  <2>6. ASSUME NEW s \in Reqs, s # r, InTx(s, u)
        PROVE \E B \in SUBSET (C \ F) : tx[s].seen \ tx[r].del = Lists(B)
    <3>1. PICK B \in SUBSET C : tx[s].seen = Lists(B)
      BY <2>1, <2>6 DEF Blocks
    <3>2. tx[s].seen \ tx[r].del = Lists(B \ F)
      BY <1>2, <2>2, <2>3, <3>1, ListsLess
    <3>3. B \ F \in SUBSET (C \ F)
      BY <3>1
    <3> QED
      BY <3>2, <3>3
  <2>7. C \ F \in SUBSET ChangesOf(u)
    BY <2>1
  <2> QED
    BY <1>8, <2>4, <2>5, <2>6, <2>7
<1> QED
  BY <1>9, <1>10

\* Every other step leaves the roles, the committed changes and the snapshots of the
\* DELETEs alone, but for a DELETE that takes its own.
LEMMA WholeStays ==
  ASSUME TypeInv, LocksInv, NEW r \in Reqs, Start(r) \/ Continue(r) \/ Abort(r),
         NEW u \in DOMAIN rows, CommitRoles(r) => u # target[r], Whole(u)
  PROVE  Whole(u)'
<1>1. rows'[u].roles = rows[u].roles
  BY RolesStay
<1>2. ChangesOf(u)' = ChangesOf(u)
  BY ListsStay
<1>3. ASSUME NEW B \in SUBSET ChangesOf(u) PROVE Lists(B)' = Lists(B)
  <2>1. ASSUME NEW c \in B PROVE ListOf(c)' = ListOf(c)
    BY ListsStay
  <2> QED
    BY <2>1 DEF Lists
<1>4. ASSUME NEW s \in Reqs, InTx(s, u)'
      PROVE tx'[s].seen = rows[u].roles \/ (InTx(s, u) /\ tx'[s].seen = tx[s].seen)
  <2>1. CASE s # r
    <3>1. pc'[s] = pc[s] /\ target'[s] = target[s]
      BY <2>1, TypeStays DEF Others
    <3>2. InTx(s, u)
      BY <1>4, <3>1 DEF InTx
    <3>3. tx'[s] = tx[s]
      BY <2>1, <3>2, TxStays DEF InTx
    <3> QED
      BY <3>2, <3>3
  <2>2. CASE s = r
    <3>1. pc'[r] \in {"clear", "link"} /\ target'[r] = u
      BY <1>4, <2>2 DEF InTx
    <3>2. target[r] = u /\ (tx'[r].seen = RolesOf(u) \/ (pc[r] \in {"clear", "link"} /\ tx'[r].seen = tx[r].seen))
      BY <3>1, TxStep
    <3> QED
      BY <2>2, <3>2 DEF InTx, RolesOf
  <2> QED
    BY <2>1, <2>2
<1>5. CASE ChangesOf(u) = {}
  BY <1>1, <1>2, <1>4, <1>5 DEF Whole
<1>6. CASE ChangesOf(u) # {}
  <2>1. PICK C \in SUBSET ChangesOf(u) : C # {} /\ Blocks(u, C)
    BY <1>6 DEF Whole
  <2>2. rows'[u].roles = Lists(C)'
    BY <1>1, <1>3, <2>1 DEF Blocks
  <2>3. Disjoint(C)'
    <3>1. ASSUME NEW c \in C, NEW d \in C, c # d PROVE ListOf(c)' \cap ListOf(d)' = {}
      <4>1. ListOf(c)' = ListOf(c) /\ ListOf(d)' = ListOf(d)
        BY ListsStay
      <4>2. ListOf(c) \cap ListOf(d) = {}
        BY <2>1, <3>1 DEF Blocks, Disjoint
      <4> QED
        BY <4>1, <4>2
    <3> QED
      BY <3>1 DEF Disjoint
  <2>4. ASSUME NEW s \in Reqs, InTx(s, u)' PROVE \E B \in SUBSET C : tx'[s].seen = Lists(B)'
    <3>1. \E B \in SUBSET C : tx'[s].seen = Lists(B)
      BY <1>4, <2>1, <2>4 DEF Blocks
    <3>2. PICK B \in SUBSET C : tx'[s].seen = Lists(B)
      BY <3>1
    <3>3. Lists(B)' = Lists(B)
      BY <1>3, <3>2
    <3> QED
      BY <3>2, <3>3
  <2>5. Blocks(u, C)'
    BY <2>2, <2>3, <2>4 DEF Blocks
  <2> QED
    BY <1>2, <2>1, <2>5 DEF Whole
<1> QED
  BY <1>5, <1>6

\* Nobody has changed the roles of a user that is just created.
LEMMA WholeNew ==
  ASSUME TypeInv, LocksInv, NEW r \in Reqs, Start(r) \/ Continue(r) \/ Abort(r),
         NEW u \in DOMAIN rows', u \notin DOMAIN rows
  PROVE  Whole(u)'
<1>1. /\ rows \in Seq(Row) /\ rows' \in Seq(Row) /\ 0 \notin DOMAIN rows'
  BY TypeStays DEF TypeInv, TypeOK
<1>2. \A s \in Reqs : target[s] # u
  BY <1>1 DEF TypeInv, Task
<1>3. pc'[r] = "created"
  <2>1. CASE \E row : rows' = [rows EXCEPT ![target[r]] = row]
    BY <1>1, <2>1
  <2> QED
    BY <2>1, TableStep
<1>4. ~(CommitRoles(r) /\ target[r] = u)
  BY <1>2
<1>5. ChangesOf(u)' = {}
  BY <1>2, <1>4, ListsStay DEF ChangesOf
<1>6. \A s \in Reqs : ~InTx(s, u)'
  BY <1>2, <1>3, TypeStays DEF InTx, Others
<1> QED
  BY <1>5, <1>6 DEF Whole

\* No list takes effect in part, however role changes overlap.
THEOREM RolesFromCommitsCorrect == Spec => []RolesFromCommits
<1> DEFINE Inv == LocksInv /\ \A u \in DOMAIN rows : Whole(u)
<1>1. Init => Inv
  <2> SUFFICES ASSUME Init PROVE Inv
    OBVIOUS
  <2>1. \A r \in Reqs : pc[r] = "new" /\ tx[r] = NoTx /\ wrote[r] = {}
    BY DEF Init
  <2>2. LocksInv
    BY <2>1 DEF LocksInv, Locked, Committed, Apart, NoTx
  <2>3. \A u \in DOMAIN rows : Whole(u)
    BY <2>1 DEF Whole, ChangesOf, InTx
  <2> QED
    BY <2>2, <2>3
<1>2. TypeInv /\ Inv /\ [Next]_vars => Inv'
  <2>1. ASSUME Inv, UNCHANGED vars PROVE Inv'
    <3>1. LocksInv'
      BY <2>1 DEF vars, locals, LocksInv, Locked, Committed, Apart, RolesOf
    <3>2. ASSUME NEW u \in DOMAIN rows PROVE Whole(u)'
      <4>1. ASSUME NEW C PROVE Blocks(u, C)' <=> Blocks(u, C)
        BY <2>1 DEF vars, locals, Blocks, Lists, ListOf, Elems, Disjoint, InTx
      <4>2. ChangesOf(u)' = ChangesOf(u)
        BY <2>1 DEF vars, locals, ChangesOf
      <4>3. Whole(u)
        BY <2>1
      <4> QED
        BY <2>1, <4>1, <4>2, <4>3 DEF vars, locals, Whole, InTx
    <3> QED
      BY <2>1, <3>1, <3>2 DEF vars
  <2> SUFFICES ASSUME TypeInv, Inv, NEW r \in Reqs, Start(r) \/ Continue(r) \/ Abort(r)
               PROVE Inv'
    BY <2>1 DEF Next
  <2>2. LocksInv'
    BY LocksStep
  <2>3. ASSUME NEW u \in DOMAIN rows' PROVE Whole(u)'
    BY <2>3, WholeCommit, WholeStays, WholeNew
  <2> QED
    BY <2>2, <2>3
<1>3. Inv => RolesFromCommits
  <2> SUFFICES ASSUME Inv, NEW u \in DOMAIN rows, ChangesOf(u) # {}
               PROVE \E C \in (SUBSET ChangesOf(u)) \ {{}} : rows[u].roles = UNION {Elems(arg[r].roles) : r \in C}
    BY DEF RolesFromCommits, ChangesOf
  <2>1. PICK C \in SUBSET ChangesOf(u) : C # {} /\ Blocks(u, C)
    BY DEF Whole
  <2>2. rows[u].roles = UNION {Elems(arg[r].roles) : r \in C}
    BY <2>1 DEF Blocks, Lists, ListOf
  <2>3. C \in (SUBSET ChangesOf(u)) \ {{}}
    BY <2>1
  <2> QED
    BY <2>2, <2>3
<1> QED
  BY <1>1, <1>2, <1>3, TypeCorrect, PTL DEF Spec
-----------------------------------------------------------------------------
(* Listings *)

LiveIds == {u \in DOMAIN rows : Live(u)}

\* The requests that have created or deleted a user, and those among them beside r.
Writing == {s \in Reqs : wrote[s] \cap {"row", "deleted"} # {}}
Writers(r) == Writing \ {r}

Near(m, n, k) == m - n \in -k..k

\* How much of a list of length total a page of length per holds behind the first from.
Cut(total, from, per) ==
  LET rest == total - from IN IF rest < 0 THEN 0 ELSE IF rest < per THEN rest ELSE per

\* ListCountsAgree, of one request.
PageAgrees(r) ==
  arg[r] # None /\ arg[r].op = "list" /\ ans[r] = 200 =>
    /\ Before(arg[r]) < Half =>
         Near(Len(found[r].ids), Cut(found[r].total, Before(arg[r]), PerPageOf(arg[r].per)), Cardinality(Writers(r)))
    /\ \A i, j \in DOMAIN found[r].ids : i < j => found[r].ids[i] > found[r].ids[j]

\* As many users as have come or gone since the count was read have been written by
\* others, which are finitely many.
ListInv ==
  /\ IsFiniteSet(Writing)
  /\ \A r \in Reqs : Clean(r)
  /\ \A r \in Reqs : pc[r] = "page" => Near(Cardinality(LiveIds), found[r].total, Cardinality(Writers(r)))
  /\ \A r \in Reqs : PageAgrees(r)

\* Pages of two lists differ by no more than the lists.
LEMMA CutNear ==
  ASSUME NEW m \in Nat, NEW n \in Nat, NEW from \in Nat, NEW per \in Nat, NEW k \in Nat, Near(m, n, k)
  PROVE  Near(Cut(m, from, per), Cut(n, from, per), k)
  BY DEF Near, Cut

\* Whoever creates or deletes a user is then among the writers.
LEMMA WritingStep ==
  ASSUME TypeInv, NEW r \in Reqs, Start(r) \/ Continue(r) \/ Abort(r)
  PROVE  Writing \subseteq Writing' /\ Writing' \subseteq Writing \cup {r}
<1>1. \A s \in Reqs \ {r} : wrote'[s] = wrote[s]
  BY TypeStays DEF Others
<1>2. wrote[r] \subseteq wrote'[r]
  BY Moves
<1> QED
  BY <1>1, <1>2 DEF Writing

\* The live users are those before the step, or it has created or deleted one.
LEMMA LiveStep ==
  ASSUME TypeInv, NEW r \in Reqs, Start(r) \/ Continue(r) \/ Abort(r), Clean(r)
  PROVE  \/ LiveIds' = LiveIds
         \/ /\ pc[r] \in {"insert", "delete"} /\ r \notin Writing /\ r \in Writing'
            /\ \/ \E u : u \notin LiveIds /\ LiveIds' = LiveIds \cup {u}
               \/ \E u \in LiveIds : LiveIds' = LiveIds \ {u}
<1>t. /\ rows \in Seq(Row) /\ DOMAIN rows = 1..Len(rows) /\ Len(rows) \in Nat
      /\ \A u \in DOMAIN rows : rows[u] \in Row
      /\ wrote \in [Reqs -> SUBSET Commits]
  BY DEF TypeInv, TypeOK, Commits
<1>s. ASSUME NEW row, target[r] \in DOMAIN rows, rows' = [rows EXCEPT ![target[r]] = row],
             row.deleted <=> rows[target[r]].deleted
      PROVE LiveIds' = LiveIds
  <2>1. DOMAIN rows' = DOMAIN rows /\ \A u \in DOMAIN rows : rows'[u].deleted <=> rows[u].deleted
    BY <1>t, <1>s
  <2> QED
    BY <2>1 DEF LiveIds, Live
<1>u. rows' = rows => LiveIds' = LiveIds
  BY DEF LiveIds, Live
<1>1. CASE InsertUser(r)
  <2>1. CASE rows' = rows
    BY <1>u, <2>1
  <2>2. CASE rows' = Append(rows, NewRow(arg[r])) /\ Wrote(r, "row")
    <3>1. pc[r] = "insert" /\ arg[r] \in CreateArgs
      BY <1>1 DEF InsertUser, TypeInv, Task
    <3>2. NewRow(arg[r]) \in Row /\ ~NewRow(arg[r]).deleted
      BY <3>1 DEF NewRow, CreateArgs, Row
    <3>3. PICK n : n = Len(rows) + 1
      OBVIOUS
    <3>4. /\ DOMAIN rows' = DOMAIN rows \cup {n} /\ n \notin DOMAIN rows /\ rows'[n] = NewRow(arg[r])
          /\ \A u \in DOMAIN rows : rows'[u] = rows[u]
      BY <1>t, <2>2, <3>2, <3>3
    <3>5. n \notin LiveIds /\ LiveIds' = LiveIds \cup {n}
      BY <3>2, <3>4 DEF LiveIds, Live
    <3>6. r \notin Writing /\ r \in Writing'
      <4>1. wrote[r] = {}
        BY <3>1 DEF Clean
      <4>2. "row" \in wrote'[r]
        BY <1>t, <2>2 DEF Wrote
      <4> QED
        BY <4>1, <4>2 DEF Writing
    <3> QED
      BY <3>1, <3>5, <3>6
  <2> QED
    BY <1>1, <2>1, <2>2 DEF InsertUser
<1>2. CASE SoftDelete(r)
  <2>1. CASE rows' = rows
    BY <1>u, <2>1
  <2>2. CASE Live(target[r]) /\ rows' = [rows EXCEPT ![target[r]].deleted = TRUE] /\ Wrote(r, "deleted")
    <3>1. pc[r] = "delete" /\ target[r] \in DOMAIN rows
      BY <1>2, <2>2 DEF SoftDelete, Live
    <3>2. PICK row : row = [rows[target[r]] EXCEPT !.deleted = TRUE]
      OBVIOUS
    <3>3. rows[target[r]] \in Row
      BY <1>t, <3>1
    <3>4. row.deleted
      BY <3>2, <3>3 DEF Row
    <3>5. /\ DOMAIN rows' = DOMAIN rows /\ rows'[target[r]].deleted
          /\ \A u \in DOMAIN rows \ {target[r]} : rows'[u] = rows[u]
      BY <1>t, <2>2, <3>1, <3>2, <3>4
    <3>6. target[r] \in LiveIds /\ LiveIds' = LiveIds \ {target[r]}
      BY <2>2, <3>5 DEF LiveIds, Live
    <3>7. r \notin Writing /\ r \in Writing'
      <4>1. wrote[r] = {}
        BY <3>1 DEF Clean
      <4>2. "deleted" \in wrote'[r]
        BY <1>t, <2>2 DEF Wrote
      <4> QED
        BY <4>1, <4>2 DEF Writing
    <3> QED
      BY <3>1, <3>6, <3>7
  <2> QED
    BY <1>2, <2>1, <2>2 DEF SoftDelete
<1>3. CASE UpdateProfile(r)
  <2>1. CASE Live(target[r]) /\ rows' = [rows EXCEPT ![target[r]] = WithProfile(rows[target[r]], arg[r])]
    <3>1. target[r] \in DOMAIN rows /\ rows[target[r]] \in Row
      BY <1>t, <2>1 DEF Live
    <3>2. PICK row : row = WithProfile(rows[target[r]], arg[r])
      OBVIOUS
    <3>3. row.deleted = rows[target[r]].deleted
      BY <3>1, <3>2 DEF WithProfile, Row
    <3> QED
      BY <1>s, <2>1, <3>1, <3>2, <3>3
  <2> QED
    BY <1>3, <1>u, <2>1 DEF UpdateProfile
<1>4. CASE UpdatePassword(r)
  <2>1. CASE Live(target[r]) /\ rows' = [rows EXCEPT ![target[r]].pwd = arg[r].pwd]
    <3>1. target[r] \in DOMAIN rows /\ rows[target[r]] \in Row
      BY <1>t, <2>1 DEF Live
    <3>2. PICK row : row = [rows[target[r]] EXCEPT !.pwd = arg[r].pwd]
      OBVIOUS
    <3>3. row.deleted = rows[target[r]].deleted
      BY <3>1, <3>2 DEF Row
    <3> QED
      BY <1>s, <2>1, <3>1, <3>2, <3>3
  <2> QED
    BY <1>4, <1>u, <2>1 DEF UpdatePassword, PasswordMatches
<1>5. CASE CommitRoles(r)
  <2>1. PICK R : R = (rows[target[r]].roles \ tx[r].del) \cup tx[r].ins
    OBVIOUS
  <2>2. PICK row : row = [rows[target[r]] EXCEPT !.roles = R]
    OBVIOUS
  <2>3. target[r] \in DOMAIN rows /\ rows' = [rows EXCEPT ![target[r]] = row]
    BY <1>5, <2>1, <2>2, CommitFacts
  <2>4. row.deleted = rows[target[r]].deleted
    <3>1. rows[target[r]] \in Row
      BY <1>t, <2>3
    <3> QED
      BY <2>2, <3>1 DEF Row
  <2> QED
    BY <1>s, <2>3, <2>4
<1>6. CASE Start(r) \/ Abort(r) \/ DeadlockVictim(r)
  BY <1>6, <1>u DEF Start, StartCreate, StartAssign, StartUpdate, StartReset, StartById, StartList, Refuse, Begin,
                    Abort, DeadlockVictim
<1>7. CASE ReadCreated(r) \/ BeginRoles(r) \/ ClearRoles(r) \/ LinkRole(r) \/ ResetLookup(r)
           \/ Revoked(r) \/ Reread(r) \/ CountUsers(r) \/ PageUsers(r)
  BY <1>7, <1>u DEF ReadCreated, BeginRoles, ClearRoles, LinkRole, ResetLookup, Revoked, Reread, CountUsers, PageUsers
<1> QED
  BY <1>1, <1>2, <1>3, <1>4, <1>5, <1>6, <1>7 DEF Continue

\* What another request has read stays near to what is there.
LEMMA ListOthers ==
  ASSUME TypeInv, ListInv, NEW r \in Reqs, Start(r) \/ Continue(r) \/ Abort(r), NEW s \in Reqs \ {r}
  PROVE  /\ pc'[s] = "page" => Near(Cardinality(LiveIds'), found'[s].total, Cardinality(Writers(s)'))
         /\ PageAgrees(s)'
<1>1. arg'[s] = arg[s] /\ pc'[s] = pc[s] /\ found'[s] = found[s] /\ ans'[s] = ans[s]
  BY TypeStays DEF Others
<1>2. IsFiniteSet(Writing) /\ IsFiniteSet(Writing')
  <2>1. IsFiniteSet(Writing \cup {r})
    BY FS_AddElement DEF ListInv
  <2> QED
    BY <2>1, WritingStep, FS_Subset DEF ListInv
<1>3. /\ IsFiniteSet(Writers(s)) /\ IsFiniteSet(Writers(s)')
      /\ Cardinality(Writers(s)) \in Nat /\ Cardinality(Writers(s)') \in Nat
      /\ Cardinality(Writers(s)) <= Cardinality(Writers(s)')
  <2>1. IsFiniteSet(Writers(s)) /\ IsFiniteSet(Writers(s)')
    BY <1>2, FS_RemoveElement DEF Writers
  <2>2. Writers(s) \in SUBSET (Writers(s)')
    BY WritingStep DEF Writers
  <2> QED
    BY <2>1, <2>2, FS_Subset, FS_CardinalityType
<1>4. IsFiniteSet(LiveIds) /\ Cardinality(LiveIds) \in Nat
  BY ListingType, FS_CardinalityType DEF LiveIds, TypeInv, TypeOK
<1>5. found[s].total \in Nat
  BY DEF TypeInv, TypeOK
<1>6. PageAgrees(s)'
  <2>1. PageAgrees(s)
    BY DEF ListInv
  <2>2. ASSUME NEW m \in Int, NEW n \in Int, Near(m, n, Cardinality(Writers(s)))
        PROVE Near(m, n, Cardinality(Writers(s)'))
    BY <1>3, <2>2 DEF Near
  <2>3. ASSUME arg[s] \in ListArgs, ans[s] = 200
        PROVE Cut(found[s].total, Before(arg[s]), PerPageOf(arg[s].per)) \in Int
    BY <1>5, OffsetWraps DEF Cut
  <2>4. arg[s] # None /\ arg[s].op = "list" => arg[s] \in ListArgs
    BY DEF TypeInv, TypeOK, Args, CreateArgs, UpdateArgs, AssignArgs, IdArgs, ResetArgs
  <2>5. Len(found[s].ids) \in Int
    BY DEF TypeInv, TypeOK
  <2> QED
    BY <1>1, <2>1, <2>2, <2>3, <2>4, <2>5 DEF PageAgrees
<1>7. ASSUME pc[s] = "page"
      PROVE Near(Cardinality(LiveIds'), found[s].total, Cardinality(Writers(s)'))
  <2>1. Near(Cardinality(LiveIds), found[s].total, Cardinality(Writers(s)))
    BY <1>7 DEF ListInv
  <2>2. CASE LiveIds' = LiveIds
    BY <1>3, <1>4, <1>5, <2>1, <2>2 DEF Near
  <2>3. CASE /\ r \notin Writing /\ r \in Writing'
             /\ \/ \E u : u \notin LiveIds /\ LiveIds' = LiveIds \cup {u}
                \/ \E u \in LiveIds : LiveIds' = LiveIds \ {u}
    <3>1. Cardinality(LiveIds') - Cardinality(LiveIds) \in -1..1 /\ Cardinality(LiveIds') \in Int
      <4>1. ASSUME NEW u, u \notin LiveIds, LiveIds' = LiveIds \cup {u}
            PROVE Cardinality(LiveIds') = Cardinality(LiveIds) + 1
        BY <1>4, <4>1, FS_AddElement
      <4>2. ASSUME NEW u, u \in LiveIds, LiveIds' = LiveIds \ {u}
            PROVE Cardinality(LiveIds') = Cardinality(LiveIds) - 1
        BY <1>4, <4>2, FS_RemoveElement
      <4> QED
        BY <1>4, <2>3, <4>1, <4>2
    <3>2. Cardinality(Writers(s)') = Cardinality(Writers(s)) + 1
      <4>1. Writers(s)' = Writers(s) \cup {r} /\ r \notin Writers(s)
        BY <2>3, WritingStep DEF Writers
      <4> QED
        BY <1>3, <4>1, FS_AddElement
    <3> QED
      BY <1>3, <1>4, <1>5, <2>1, <3>1, <3>2 DEF Near
  <2>4. Clean(r)
    BY DEF ListInv
  <2> QED
    BY <2>2, <2>3, <2>4, LiveStep
<1> QED
  BY <1>1, <1>6, <1>7

\* The request's own step: it counts, or takes its page from what is there now.
LEMMA ListOwn ==
  ASSUME TypeInv, ListInv, NEW r \in Reqs, Start(r) \/ Continue(r) \/ Abort(r)
  PROVE  /\ pc'[r] = "page" => Near(Cardinality(LiveIds'), found'[r].total, Cardinality(Writers(r)'))
         /\ PageAgrees(r)'
<1>t. /\ pc \in [Reqs -> PC] /\ ans \in [Reqs -> Statuses] /\ found \in [Reqs -> Listed]
      /\ rows \in Seq(Row) /\ Task(arg[r], pc[r], target[r], tx[r], DOMAIN rows)
  BY DEF TypeInv, TypeOK, Listed
<1>m. pc[r] # "done" /\ ans[r] = 0
  BY Moves DEF ListInv, Clean
<1>g. ASSUME NEW label, Goto(r, label) PROVE pc'[r] = label /\ ans'[r] = 0
  BY <1>g, <1>m, <1>t DEF Goto
<1>f. ASSUME NEW status, Answer(r, status) \/ Fail(r, status) PROVE pc'[r] = "done" /\ ans'[r] = status
  BY <1>f, <1>t DEF Answer, Fail
<1>w. Writers(r)' = Writers(r) /\ IsFiniteSet(Writers(r)) /\ Cardinality(Writers(r)) \in Nat
  <2>1. Writers(r)' = Writers(r)
    BY WritingStep DEF Writers
  <2>2. IsFiniteSet(Writers(r))
    BY FS_RemoveElement DEF ListInv, Writers
  <2> QED
    BY <2>1, <2>2, FS_CardinalityType
<1>1. CASE CountUsers(r)
  <2>1. pc'[r] = "page" /\ ans'[r] = 0 /\ rows' = rows
    BY <1>1, <1>g DEF CountUsers
  <2>2. found'[r].total = Len(Listing)
    <3>1. found[r] \in Listed
      BY <1>t
    <3>2. found'[r] = [found[r] EXCEPT !.total = Len(Listing)]
      BY <1>1, <1>t DEF CountUsers
    <3> QED
      BY <3>1, <3>2 DEF Listed
  <2>3. LiveIds' = LiveIds /\ Len(Listing) = Cardinality(LiveIds) /\ Cardinality(LiveIds) \in Nat
    <3>1. LiveIds' = LiveIds
      BY <2>1 DEF LiveIds, Live
    <3>2. Len(Listing) = Cardinality(LiveIds) /\ Len(Listing) \in Nat
      BY <1>t, ListingType DEF LiveIds
    <3> QED
      BY <3>1, <3>2
  <2>4. Near(Cardinality(LiveIds'), found'[r].total, Cardinality(Writers(r)'))
    BY <1>w, <2>2, <2>3 DEF Near
  <2> QED
    BY <2>1, <2>4 DEF PageAgrees
<1>2. CASE PageUsers(r) /\ Offset(arg[r]) < 0
  <2>1. ~(Offset(arg[r]) >= 0)
    <3>1. Offset(arg[r]) \in Int
      BY OffsetWraps
    <3> QED
      BY <1>2, <3>1
  <2>2. Answer(r, 500)
    BY <1>2, <2>1 DEF PageUsers
  <2>3. pc'[r] # "page" /\ ans'[r] # 200
    BY <1>f, <1>g, <2>2
  <2> QED
    BY <2>3 DEF PageAgrees
<1>3. CASE PageUsers(r) /\ Offset(arg[r]) >= 0
  <2> DEFINE from == Offset(arg[r])
             per == PerPageOf(arg[r].per)
             to == from + per
             end == IF to < Len(Listing) THEN to ELSE Len(Listing)
             n == Len(Listing)
             m == found[r].total
             k == Cardinality(Writers(r))
  <2>1. /\ pc[r] = "page" /\ pc'[r] = "done" /\ arg'[r] = arg[r]
    BY <1>3, <1>f, Moves DEF PageUsers
  <2>2. /\ from \in Nat /\ per \in Nat /\ n \in Nat /\ m \in Nat /\ k \in Nat
    <3>1. from \in Nat /\ per \in Nat
      BY <1>3, OffsetWraps
    <3> QED
      BY <1>t, <1>w, <3>1, ListingType DEF Listed
  <2>3. Near(n, m, k)
    <3>1. n = Cardinality(LiveIds)
      BY <1>t, ListingType DEF LiveIds
    <3> QED
      BY <2>1, <3>1 DEF ListInv
  <2>4. found'[r].ids = SubSeq(Listing, from + 1, end) /\ found'[r].total = m
    <3>1. found[r] \in Listed
      BY <1>t
    <3>2. found'[r] = [found[r] EXCEPT !.ids = SubSeq(Listing, from + 1, end)]
      <4>1. ~(from < 0)
        BY <1>3, <2>2
      <4>2. found' = [found EXCEPT ![r].ids = SubSeq(Listing, from + 1, end)]
        BY <1>3, <4>1 DEF PageUsers
      <4> QED
        BY <1>t, <4>2
    <3> HIDE DEF from, end
    <3> QED
      BY <3>1, <3>2 DEF Listed
  <2>5. \A i \in 1..n : Listing[i] \in Nat
    BY <1>t, ListingType
  <2>6. \A i, j \in 1..n : i < j => Listing[i] > Listing[j]
    BY <1>t, ListingType
  <2>7. end \in Int /\ end <= n /\ end = IF from + per < n THEN from + per ELSE n
    BY <2>2
  <2>o. Before(arg[r]) < Half => from = Before(arg[r])
    BY OffsetWraps
  <2> HIDE DEF from, per, to, end, n, m, k
  <2>8. /\ Len(SubSeq(Listing, from + 1, end)) = IF from + 1 <= end THEN end - (from + 1) + 1 ELSE 0
        /\ \A i \in 1..(end - (from + 1) + 1) : SubSeq(Listing, from + 1, end)[i] = Listing[from + 1 + i - 1]
        /\ SubSeq(Listing, from + 1, end) \in Seq(Nat)
    <3>1. \A i \in (from + 1)..end : Listing[i] \in Nat
      BY <2>2, <2>5, <2>7
    <3>2. from + 1 \in Int
      BY <2>2
    <3> QED
      BY <2>7, <3>1, <3>2, SubSeqProperties
  <2>9. Len(found'[r].ids) = Cut(n, from, per)
    <3>1. Len(found'[r].ids) = IF from + 1 <= end THEN end - (from + 1) + 1 ELSE 0
      BY <2>4, <2>8
    <3>2. (IF from + 1 <= end THEN end - (from + 1) + 1 ELSE 0) = Cut(n, from, per)
      <4>1. CASE from + per < n
        BY <2>2, <2>7, <4>1 DEF Cut
      <4>2. CASE ~(from + per < n)
        <5>1. end = n
          BY <2>7, <4>2
        <5> QED
          BY <2>2, <4>2, <5>1 DEF Cut
      <4> QED
        BY <4>1, <4>2
    <3> QED
      BY <3>1, <3>2
  <2>10. Near(Cut(n, from, per), Cut(m, from, per), k)
    BY <2>2, <2>3, CutNear
  <2>11. ASSUME NEW i \in DOMAIN found'[r].ids, NEW j \in DOMAIN found'[r].ids, i < j
         PROVE found'[r].ids[i] > found'[r].ids[j]
    <3>1. i \in 1..(end - (from + 1) + 1) /\ j \in 1..(end - (from + 1) + 1) /\ i \in Nat /\ j \in Nat
      <4>1. DOMAIN found'[r].ids = 1..Len(found'[r].ids)
        BY <2>4, <2>8
      <4> QED
        BY <2>2, <2>4, <2>7, <2>8, <2>11, <4>1
    <3>2. found'[r].ids[i] = Listing[from + 1 + i - 1] /\ found'[r].ids[j] = Listing[from + 1 + j - 1]
      BY <2>4, <2>8, <3>1
    <3>3. /\ from + 1 + i - 1 \in 1..n /\ from + 1 + j - 1 \in 1..n
          /\ from + 1 + i - 1 < from + 1 + j - 1
      BY <2>2, <2>7, <2>11, <3>1
    <3> QED
      BY <2>6, <3>2, <3>3
  <2>12. Before(arg'[r]) < Half =>
           Near(Len(found'[r].ids), Cut(found'[r].total, Before(arg'[r]), PerPageOf(arg'[r].per)), Cardinality(Writers(r)'))
    BY <1>w, <2>1, <2>o, <2>4, <2>9, <2>10 DEF per, m, k
  <2> QED
    BY <2>1, <2>11, <2>12 DEF PageAgrees
<1>4. CASE ~CountUsers(r) /\ ~PageUsers(r)
  <2>1. CASE Start(r)
    <3>1. ASSUME NEW status, Refuse(r, status) PROVE pc'[r] = "done" /\ ans'[r] = status
      BY <1>t, <3>1 DEF Refuse
    <3>2. ASSUME NEW a, NEW label, NEW u, Begin(r, a, label, u) PROVE pc'[r] = label /\ ans'[r] = 0
      BY <1>m, <1>t, <3>2 DEF Begin
    <3>3. pc'[r] # "page" /\ ans'[r] # 200
      BY <2>1, <3>1, <3>2 DEF Start, StartCreate, StartAssign, StartUpdate, StartReset, StartById, StartList
    <3> QED
      BY <3>3 DEF PageAgrees
  <2>2. CASE UpdatePassword(r) \/ Reread(r)
    <3>1. pc'[r] # "page"
      BY <1>f, <1>g, <2>2 DEF UpdatePassword, Reread
    <3>2. arg'[r] = arg[r] /\ arg[r].op # "list"
      BY <1>t, <2>2 DEF UpdatePassword, Reread, Task, CreateArgs, AssignArgs, UpdateArgs, IdArgs, ResetArgs
    <3> QED
      BY <3>1, <3>2 DEF PageAgrees
  <2>3. CASE InsertUser(r) \/ ReadCreated(r) \/ BeginRoles(r) \/ ClearRoles(r) \/ CommitRoles(r)
             \/ DeadlockVictim(r) \/ Abort(r)
    <3>1. pc'[r] # "page" /\ ans'[r] # 200
      BY <1>f, <1>g, <2>3 DEF InsertUser, CreateConflict, ReadCreated, BeginRoles, ClearRoles, CommitRoles,
                              DeadlockVictim, Abort
    <3> QED
      BY <3>1 DEF PageAgrees
  <2>4. CASE LinkRole(r)
    <3>1. pc'[r] # "page" /\ ans'[r] # 200
      BY <1>f, <1>m, <2>4 DEF LinkRole
    <3> QED
      BY <3>1 DEF PageAgrees
  <2>5. CASE UpdateProfile(r) \/ ResetLookup(r) \/ SoftDelete(r) \/ Revoked(r)
    <3>1. pc'[r] # "page" /\ ans'[r] # 200
      BY <1>f, <1>g, <2>5 DEF UpdateProfile, UpdateConflict, AfterProfile, ResetLookup, SoftDelete, Revoked
    <3> QED
      BY <3>1 DEF PageAgrees
  <2> QED
    BY <1>4, <2>1, <2>2, <2>3, <2>4, <2>5 DEF Continue
<1> QED
  BY <1>1, <1>2, <1>3, <1>4, OffsetWraps

\* A page and the total beside it differ by the changes of others only.
THEOREM ListCountsAgreeCorrect == Spec => []ListCountsAgree
<1> DEFINE Inv == ListInv /\ \A r \in Reqs : RefusedWroteNothing(r)
<1>1. Init => Inv
  <2> SUFFICES ASSUME Init PROVE Inv
    OBVIOUS
  <2>1. Writing = {}
    BY DEF Init, Writing
  <2>2. \A r \in Reqs : Clean(r) /\ RefusedWroteNothing(r) /\ pc[r] # "page" /\ PageAgrees(r)
    BY DEF Init, Clean, RefusedWroteNothing, PageAgrees
  <2> QED
    BY <2>1, <2>2, FS_EmptySet DEF ListInv
<1>2. TypeInv /\ Inv /\ [Next]_vars => Inv'
  <2>1. ASSUME Inv, UNCHANGED vars PROVE Inv'
    <3>1. Writing' = Writing /\ LiveIds' = LiveIds
      BY <2>1 DEF vars, locals, Writing, LiveIds, Live
    <3>2. ASSUME NEW r \in Reqs
          PROVE /\ Clean(r)' <=> Clean(r)
                /\ RefusedWroteNothing(r)' <=> RefusedWroteNothing(r)
                /\ Writers(r)' = Writers(r)
      BY <2>1, <3>1 DEF vars, locals, Clean, RefusedWroteNothing, Writers
    <3>3. ASSUME NEW r \in Reqs PROVE PageAgrees(r)' <=> PageAgrees(r)
      BY <2>1, <3>2 DEF vars, locals, PageAgrees
    <3> QED
      BY <2>1, <3>1, <3>2, <3>3 DEF vars, locals, ListInv
  <2> SUFFICES ASSUME TypeInv, Inv, NEW r \in Reqs, Start(r) \/ Continue(r) \/ Abort(r)
               PROVE Inv'
    BY <2>1 DEF Next
  <2>2. IsFiniteSet(Writing')
    <3>1. IsFiniteSet(Writing \cup {r})
      BY FS_AddElement DEF ListInv
    <3> QED
      BY <3>1, WritingStep, FS_Subset
  <2>3. \A s \in Reqs : Clean(s)' /\ RefusedWroteNothing(s)'
    BY CleanOthers, CleanStep DEF ListInv
  <2>4. ASSUME NEW s \in Reqs
        PROVE /\ pc'[s] = "page" => Near(Cardinality(LiveIds'), found'[s].total, Cardinality(Writers(s)'))
              /\ PageAgrees(s)'
    BY ListOthers, ListOwn
  <2> QED
    BY <2>2, <2>3, <2>4 DEF ListInv
<1>3. TypeInv /\ Inv => ListCountsAgree
  <2> SUFFICES ASSUME TypeInv, Inv, NEW r \in Reqs, arg[r] # None, arg[r].op = "list", ans[r] = 200
               PROVE LET per == PerPageOf(arg[r].per)
                         rest == found[r].total - Before(arg[r])
                         due == IF rest < 0 THEN 0 ELSE IF rest < per THEN rest ELSE per
                         ids == found[r].ids
                         Theirs == {s \in Reqs \ {r} : wrote[s] \cap {"row", "deleted"} # {}}
                     IN /\ Before(arg[r]) < Half =>
                             Len(ids) - due \in -Cardinality(Theirs)..Cardinality(Theirs)
                        /\ \A i, j \in DOMAIN ids : i < j => ids[i] > ids[j]
    BY DEF ListCountsAgree
  <2>1. PageAgrees(r)
    BY DEF ListInv
  <2>2. {s \in Reqs \ {r} : wrote[s] \cap {"row", "deleted"} # {}} = Writers(r)
    BY DEF Writers, Writing
  <2> QED
    BY <2>1, <2>2 DEF PageAgrees, Near, Cut
<1> QED
  BY <1>1, <1>2, <1>3, TypeCorrect, PTL DEF Spec
=============================================================================
