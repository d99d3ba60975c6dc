---------------------------- MODULE StartupProofs ----------------------------
(***************************************************************************)
(* Proofs about Startup, for any number of replicas, migrations, requests  *)
(* and events, and any environments.                                       *)
(***************************************************************************)
EXTENDS Startup, SequenceTheorems, TLAPS

\* What the types of the database and of the processes are.
DbType ==
  /\ schema \in BOOLEAN /\ table \in BOOLEAN
  /\ applied \subseteq Versions /\ recorded \subseteq Versions
  /\ tenants \subseteq Tenants
  /\ users \in Seq(User)

ProcessType ==
  /\ known \in [Replicas -> SUBSET Versions]
  /\ tx \in [Replicas -> [ddl : SUBSET Versions, rec : SUBSET Versions]]
  /\ made \in [Replicas -> Nat]
  /\ seeded \subseteq Tenants

\* A replica goes on, with its new state in the types.
LEMMA ProceedType ==
  ASSUME TypeOK, NEW r \in Replicas, NEW step \in Steps, Proceed(r, step),
         DbType', ProcessType', DOMAIN users \subseteq DOMAIN users',
         \A s \in Replicas \ {r} : made'[s] = made[s],
         step \in {"reread", "roles"} => made'[r] \in DOMAIN users'
  PROVE  TypeOK'
<1>1. /\ pc' \in [Replicas -> Steps] /\ pc'[r] = step
      /\ \A s \in Replicas \ {r} : pc'[s] = pc[s]
  BY DEF Proceed, Goto, TypeOK
<1>2. \A s \in Replicas : pc'[s] \in {"reread", "roles"} => made'[s] \in DOMAIN users'
  BY <1>1 DEF TypeOK
<1> QED
  BY <1>1, <1>2 DEF Proceed, TypeOK, DbType, ProcessType

\* A replica goes on, and leaves everything else as it is.
LEMMA PassType ==
  ASSUME TypeOK, NEW r \in Replicas, NEW step \in Steps, Pass(r, step),
         step \in {"reread", "roles"} => made[r] \in DOMAIN users
  PROVE  TypeOK'
<1>1. Proceed(r, step) /\ UNCHANGED <<db, known, tx, made, seeded>>
  BY DEF Pass
<1>2. DbType' /\ ProcessType'
  BY <1>1 DEF TypeOK, DbType, ProcessType, db
<1>3. users' = users /\ made' = made
  BY <1>1 DEF db
<1> QED
  BY <1>1, <1>2, <1>3, ProceedType

\* A process ends.
LEMMA EndType ==
  ASSUME TypeOK, NEW r \in Replicas, NEW step \in {"exited", "stopped"}, End(r, step),
         UNCHANGED <<env, db, ans, history>>, events' \in 0..MaxEvents
  PROVE  TypeOK'
<1>1. /\ pc' \in [Replicas -> Steps] /\ pc'[r] = step
      /\ \A s \in Replicas \ {r} : pc'[s] = pc[s]
  BY DEF End, Goto, TypeOK, Steps
<1>2. made' \in [Replicas -> Nat] /\ \A s \in Replicas \ {r} : made'[s] = made[s]
  BY DEF End, TypeOK
<1>3. users' = users
  BY DEF db
<1>4. \A s \in Replicas : pc'[s] \in {"reread", "roles"} => made'[s] \in DOMAIN users'
  BY <1>1, <1>2, <1>3 DEF TypeOK
<1>5. known' \in [Replicas -> SUBSET Versions]
  BY DEF End, TypeOK
<1>6. tx' \in [Replicas -> [ddl : SUBSET Versions, rec : SUBSET Versions]]
  BY DEF End, TypeOK, NoTx
<1>7. post' \in [Posts -> Post \cup {Unsent}]
  <2> SUFFICES ASSUME NEW p \in Posts PROVE post'[p] \in Post \cup {Unsent}
    BY DEF End
  <2>1. post'[p] = post[p] \/ (post[p] \in Post /\ post'[p] = [post[p] EXCEPT !.step = "done"])
    BY DEF End, TypeOK
  <2> QED
    <3>1. CASE post[p] \in Post /\ post'[p] = [post[p] EXCEPT !.step = "done"]
      BY <3>1 DEF Post
    <3> QED
      BY <2>1, <3>1 DEF TypeOK
<1>8. lost' \subseteq Nat
  BY DEF End, TypeOK
<1> QED
  BY <1>1, <1>2, <1>3, <1>4, <1>5, <1>6, <1>7, <1>8 DEF TypeOK, db, history

\* A process gives up.
LEMMA ExitType ==
  ASSUME TypeOK, NEW r \in Replicas, Exit(r)
  PROVE  TypeOK'
  BY EndType DEF Exit, TypeOK

\* A request is served, or sent.
LEMMA PostedType ==
  ASSUME TypeOK, NEW p \in Posts, NEW value \in Post, Posted(p, value),
         tenants' \subseteq Tenants, ans' \in [Posts -> {0, 201, 409, 500}],
         failed' \subseteq Posts, events' \in 0..MaxEvents
  PROVE  TypeOK'
  BY DEF Posted, TypeOK, history

\* A user made through the API has the next row.
LEMMA CreatedRow ==
  ASSUME TypeOK, NEW t \in Tenants, CreateUser(t)
  PROVE  /\ users' \in Seq(User) /\ DOMAIN users' = DOMAIN users \cup {Len(users) + 1}
         /\ Len(users) + 1 \in Nat /\ Len(users) + 1 \notin DOMAIN users
         /\ \A u \in DOMAIN users : users'[u] = users[u]
<1>1. PICK a \in BOOLEAN :
        users' = Append(users, [tenant |-> t, state |-> "here", admin |-> a, own |-> TRUE])
  BY Zenon DEF CreateUser
<1> DEFINE row == [tenant |-> t, state |-> "here", admin |-> a, own |-> TRUE]
<1>2. row \in User
  BY <1>1 DEF User
<1>3. users \in Seq(User) /\ Len(users) \in Nat /\ DOMAIN users = 1..Len(users)
  BY DEF TypeOK
<1> HIDE DEF row
<1>4. users' = Append(users, row)
  BY <1>1 DEF row
<1> QED
  BY <1>2, <1>3, <1>4

\* A user is created or changed through the API.
LEMMA ByApiType ==
  ASSUME TypeOK, NEW u \in Nat, ByApi(u), users' \in Seq(User), DOMAIN users \subseteq DOMAIN users'
  PROVE  TypeOK'
<1>1. events' \in 0..MaxEvents
  BY MaxEventsAssumption DEF ByApi, TypeOK
<1>2. \A r \in Replicas : pc'[r] \in {"reread", "roles"} => made'[r] \in DOMAIN users'
  BY DEF ByApi, TypeOK
<1> QED
  BY <1>1, <1>2 DEF ByApi, TypeOK

\* The type invariant is inductive.
LEMMA TypeStays == TypeOK /\ [Next]_vars => TypeOK'
<1> SUFFICES ASSUME TypeOK, [Next]_vars PROVE TypeOK'
  OBVIOUS
<1>1. ASSUME NEW r \in Replicas, Load(r) PROVE TypeOK'
  BY <1>1, PassType, ExitType DEF Load, Steps
<1>2. ASSUME NEW r \in Replicas,
             \/ LookSchema(r) \/ LookTable(r) \/ Clients(r) \/ SeedTenant(r) \/ SeedUser(r)
             \/ Restart(r) \/ Resume(r)
      PROVE TypeOK'
  <2>1. PICK step \in Steps \ {"reread", "roles"} : Pass(r, step)
    BY <1>2 DEF LookSchema, LookTable, Clients, SeedTenant, SeedUser, Restart, Resume, Steps
  <2> QED
    BY <2>1, PassType
<1>3. ASSUME NEW r \in Replicas, CreateSchema(r) \/ CreateTable(r) \/ ReadApplied(r) PROVE TypeOK'
  <2>1. CASE Exit(r)
    BY <2>1, ExitType
  <2>2. CASE ~Exit(r)
    <3>1. \E step \in Steps \ {"reread", "roles"} : Proceed(r, step)
      BY <1>3, <2>2 DEF CreateSchema, CreateTable, ReadApplied, Steps
    <3>2. DbType' /\ ProcessType' /\ users' = users /\ made' = made
      <4>1. CASE CreateSchema(r) \/ CreateTable(r)
        <5>1. schema' \in BOOLEAN /\ table' \in BOOLEAN
          <6>1. schema \in BOOLEAN /\ table \in BOOLEAN
            BY DEF TypeOK
          <6> QED
            BY <2>2, <4>1, <6>1, Zenon DEF CreateSchema, CreateTable
        <5>2. UNCHANGED <<applied, recorded, tenants, users, known, tx, made, seeded>>
          BY <2>2, <4>1 DEF CreateSchema, CreateTable
        <5> QED
          BY <5>1, <5>2 DEF TypeOK, DbType, ProcessType
      <4>2. CASE ReadApplied(r)
        BY <4>2 DEF ReadApplied, TypeOK, DbType, ProcessType, db
      <4> QED
        BY <1>3, <4>1, <4>2
    <3> QED
      BY <3>1, <3>2, ProceedType
  <2> QED
    BY <2>1, <2>2
<1>4. ASSUME NEW r \in Replicas, Apply(r) \/ Record(r) \/ CommitMigration(r) PROVE TypeOK'
  <2>1. CASE Exit(r)
    BY <2>1, ExitType
  <2>2. CASE Pass(r, "clients")
    BY <2>2, PassType DEF Steps
  <2>3. CASE ~Exit(r) /\ ~Pass(r, "clients")
    <3>1. \E step \in Steps \ {"reread", "roles"} : Proceed(r, step)
      BY <1>4, <2>3 DEF Apply, Record, CommitMigration, Steps
    <3>2. tx[r] \in [ddl : SUBSET Versions, rec : SUBSET Versions] /\ known[r] \subseteq Versions
      BY DEF TypeOK
    <3>3. ProcessType'
      <4>1. CASE Apply(r)
        <5>1. PICK v \in Versions : tx' = [tx EXCEPT ![r].ddl = {v}]
          BY <2>3, <4>1 DEF Apply
        <5>2. UNCHANGED <<known, made, seeded>>
          BY <2>3, <4>1 DEF Apply
        <5> QED
          <6>1. tx' \in [Replicas -> [ddl : SUBSET Versions, rec : SUBSET Versions]]
            <7>1. tx' = [tx EXCEPT ![r] = [tx[r] EXCEPT !.ddl = {v}]]
              BY <5>1
            <7>2. [tx[r] EXCEPT !.ddl = {v}] \in [ddl : SUBSET Versions, rec : SUBSET Versions]
              BY <3>2, <5>1
            <7> QED
              BY <7>1, <7>2 DEF TypeOK
          <6> QED
            BY <5>2, <6>1 DEF TypeOK, ProcessType
      <4>2. CASE Record(r)
        <5>1. tx' = [tx EXCEPT ![r].rec = tx[r].ddl] /\ UNCHANGED <<known, made, seeded>>
          BY <2>3, <4>2 DEF Record
        <5> QED
          BY <3>2, <5>1 DEF TypeOK, ProcessType
      <4>3. CASE CommitMigration(r)
        BY <3>2, <4>3 DEF CommitMigration, TypeOK, ProcessType, NoTx
      <4> QED
        BY <1>4, <4>1, <4>2, <4>3
    <3>4. DbType' /\ users' = users /\ made' = made
      BY <1>4, <2>3, <3>2 DEF Apply, Record, CommitMigration, TypeOK, DbType, db
    <3> QED
      BY <3>1, <3>3, <3>4, ProceedType
  <2> QED
    BY <2>1, <2>2, <2>3
<1>5. ASSUME NEW r \in Replicas, SeedNewTenant(r) PROVE TypeOK'
  <2>1. CASE Exit(r)
    BY <2>1, ExitType
  <2>2. CASE ~Exit(r)
    <3>1. Proceed(r, "user") /\ users' = users /\ made' = made
      BY <1>5, <2>2 DEF SeedNewTenant
    <3>2. env[r].tenant \in Tenants
      BY EnvironmentsAssumption DEF TypeOK
    <3>3. DbType' /\ ProcessType'
      BY <1>5, <2>2, <3>2 DEF SeedNewTenant, TypeOK, DbType, ProcessType
    <3> QED
      BY <3>1, <3>3, ProceedType DEF Steps
  <2> QED
    BY <2>1, <2>2
<1>6. ASSUME NEW r \in Replicas, SeedNewUser(r) PROVE TypeOK'
  <2>1. CASE Exit(r)
    BY <2>1, ExitType
  <2>2. CASE ~Exit(r)
    <3> DEFINE row == [tenant |-> env[r].tenant, state |-> "here", admin |-> FALSE, own |-> FALSE]
    <3>1. /\ Proceed(r, "reread") /\ users' = Append(users, row)
          /\ made' = [made EXCEPT ![r] = Len(users) + 1]
          /\ UNCHANGED <<schema, table, applied, recorded, tenants, known, tx, seeded>>
      BY <1>6, <2>2 DEF SeedNewUser
    <3>2. row \in User
      BY EnvironmentsAssumption DEF TypeOK, User
    <3> HIDE DEF row
    <3>3. users \in Seq(User) /\ Len(users) \in Nat
      BY DEF TypeOK
    <3>4. users' \in Seq(User) /\ DOMAIN users' = 1..(Len(users) + 1) /\ DOMAIN users = 1..Len(users)
      BY <3>1, <3>2, <3>3
    <3>5. made' \in [Replicas -> Nat] /\ made'[r] = Len(users) + 1
          /\ \A s \in Replicas \ {r} : made'[s] = made[s]
      BY <3>1, <3>3 DEF TypeOK
    <3>6. DbType' /\ ProcessType'
      BY <3>1, <3>4, <3>5 DEF TypeOK, DbType, ProcessType
    <3>7. DOMAIN users \subseteq DOMAIN users' /\ made'[r] \in DOMAIN users'
      BY <3>3, <3>4, <3>5
    <3> QED
      BY <3>1, <3>5, <3>6, <3>7, ProceedType DEF Steps
  <2> QED
    BY <2>1, <2>2
<1>7. ASSUME NEW r \in Replicas, SeedReread(r) PROVE TypeOK'
  BY <1>7, PassType, ExitType DEF SeedReread, Steps, TypeOK
<1>8. ASSUME NEW r \in Replicas, SeedRoles(r) PROVE TypeOK'
  <2>1. made[r] \in DOMAIN users /\ users \in Seq(User)
    BY <1>8 DEF SeedRoles, TypeOK
  <2>2. [users[made[r]] EXCEPT !.admin = TRUE] \in User
    <3>1. users[made[r]] \in User
      BY <2>1
    <3> QED
      BY <3>1 DEF User
  <2>3. users' = [users EXCEPT ![made[r]] = [users[made[r]] EXCEPT !.admin = TRUE]]
    BY <1>8 DEF SeedRoles
  <2>4. users' \in Seq(User) /\ DOMAIN users' = DOMAIN users
    BY <2>1, <2>2, <2>3, ExceptSeq
  <2>5. DbType' /\ ProcessType' /\ made' = made /\ Proceed(r, "serve")
    BY <1>8, <2>4 DEF SeedRoles, TypeOK, DbType, ProcessType
  <2> QED
    BY <2>4, <2>5, ProceedType DEF Steps
<1>9. ASSUME NEW r \in Replicas, Stop(r) PROVE TypeOK'
  <2>1. events' \in 0..MaxEvents
    BY <1>9, MaxEventsAssumption DEF Stop, TypeOK
  <2>2. CASE End(r, "stopped")
    BY <1>9, <2>1, <2>2, EndType DEF Stop
  <2>3. CASE pc[r] = "serve" /\ Goto(r, "drain") /\ UNCHANGED <<known, tx, made, post, lost>>
    <3>1. pc' \in [Replicas -> Steps] /\ pc'[r] = "drain" /\ \A s \in Replicas \ {r} : pc'[s] = pc[s]
      BY <2>3 DEF Goto, TypeOK, Steps
    <3> QED
      BY <1>9, <2>1, <2>3, <3>1 DEF Stop, TypeOK, db, history
  <2> QED
    BY <1>9, <2>2, <2>3 DEF Stop
<1>10. ASSUME NEW r \in Replicas, Drain(r) PROVE TypeOK'
  BY <1>10, EndType DEF Drain, TypeOK
<1>11. ASSUME NEW r \in Replicas, Fault(r) PROVE TypeOK'
  <2>1. events' \in 0..MaxEvents
    BY <1>11, MaxEventsAssumption DEF Fault, TypeOK
  <2> QED
    BY <1>11, <2>1, EndType DEF Fault
<1>12. ASSUME NEW p \in Posts, SendPost(p) PROVE TypeOK'
  <2>1. PICK r \in Replicas, t \in PostNames : Posted(p, [step |-> "lookup", at |-> r, name |-> t])
    BY <1>12 DEF SendPost
  <2>2. [step |-> "lookup", at |-> r, name |-> t] \in Post
    BY PostNamesAssumption DEF Post
  <2> QED
    BY <1>12, <2>1, <2>2, PostedType DEF SendPost, TypeOK
<1>13. ASSUME NEW p \in Posts, PostLookup(p) \/ PostInsert(p) \/ PostFails(p) PROVE TypeOK'
  <2>1. post[p] \in Post
    BY <1>13 DEF PostLookup, PostInsert, PostFails, TypeOK, Unsent
  <2>2. \A step \in {"insert", "done"} : [post[p] EXCEPT !.step = step] \in Post
    BY <2>1 DEF Post
  <2>3. \E step \in {"insert", "done"} : Posted(p, [post[p] EXCEPT !.step = step])
    BY <1>13 DEF PostLookup, PostInsert, PostFails, Answer, PostStep
  <2>4. post[p].name \in Tenants
    BY <2>1 DEF Post
  <2>5. tenants' \subseteq Tenants
    BY <1>13, <2>4 DEF PostLookup, PostInsert, PostFails, Answer, TypeOK
  <2>6. ans' \in [Posts -> {0, 201, 409, 500}]
    <3>1. ans' = ans \/ \E status \in {201, 409, 500} : ans' = [ans EXCEPT ![p] = status]
      BY <1>13 DEF PostLookup, PostInsert, PostFails, Answer
    <3> QED
      <4>1. ASSUME NEW status \in {201, 409, 500}, ans' = [ans EXCEPT ![p] = status]
            PROVE ans' \in [Posts -> {0, 201, 409, 500}]
        BY <4>1 DEF TypeOK
      <4> QED
        BY <3>1, <4>1 DEF TypeOK
  <2>7. failed' \subseteq Posts
    BY <1>13 DEF PostLookup, PostInsert, PostFails, TypeOK
  <2>8. events' \in 0..MaxEvents
    BY <1>13, MaxEventsAssumption DEF PostLookup, PostInsert, PostFails, TypeOK
  <2> QED
    BY <2>2, <2>3, <2>5, <2>6, <2>7, <2>8, PostedType
<1>14. ASSUME NEW u \in DOMAIN users, ChangeUser(u) PROVE TypeOK'
  <2>1. users \in Seq(User) /\ users[u] \in User /\ u \in Nat
    BY <1>14 DEF TypeOK
  <2>2. PICK row \in User : users' = [users EXCEPT ![u] = row]
    <3>1. \A s \in {"here", "renamed", "deleted"} : [users[u] EXCEPT !.state = s] \in User
      BY <2>1 DEF User
    <3>2. \A a \in BOOLEAN : [users[u] EXCEPT !.admin = a] \in User
      BY <2>1 DEF User
    <3>3. [users[u] EXCEPT !.own = TRUE] \in User
      BY <2>1 DEF User
    <3> QED
      BY <1>14, <3>1, <3>2, <3>3 DEF ChangeUser
  <2>3. users' \in Seq(User) /\ DOMAIN users' = DOMAIN users
    BY <2>1, <2>2, <1>14, ExceptSeq
  <2> QED
    BY <1>14, <2>1, <2>3, ByApiType DEF ChangeUser
<1>15. ASSUME NEW t \in Tenants, CreateUser(t) PROVE TypeOK'
  <2>1. /\ users' \in Seq(User) /\ DOMAIN users \subseteq DOMAIN users'
        /\ Len(users) + 1 \in Nat
    BY <1>15, CreatedRow DEF TypeOK
  <2> QED
    BY <1>15, <2>1, ByApiType DEF CreateUser
<1>16. ASSUME NEW r \in Replicas, ReadCutShort(r) PROVE TypeOK'
  <2>1. pc' \in [Replicas -> Steps] /\ pc'[r] = "apply" /\ \A s \in Replicas \ {r} : pc'[s] = pc[s]
    BY <1>16 DEF ReadCutShort, Goto, TypeOK, Steps
  <2>2. known' \in [Replicas -> SUBSET Versions]
    BY <1>16 DEF ReadCutShort, TypeOK
  <2>3. events' \in 0..MaxEvents
    BY <1>16, MaxEventsAssumption DEF ReadCutShort, TypeOK
  <2> QED
    BY <1>16, <2>1, <2>2, <2>3 DEF ReadCutShort, TypeOK, db, history
<1>17. CASE UNCHANGED vars
  BY <1>17 DEF vars, db, history, TypeOK
<1> QED
  BY <1>1, <1>2, <1>3, <1>4, <1>5, <1>6, <1>7, <1>8, <1>9, <1>10, <1>11, <1>12, <1>13, <1>14, <1>15, <1>16, <1>17
  DEF Next, Continue, Serve

\* The state stays within its types, for every instance.
THEOREM TypeCorrect == Spec => []TypeOK
<1>1. Init => TypeOK
  <2> SUFFICES ASSUME Init PROVE TypeOK
    OBVIOUS
  <2>1. users \in Seq(User)
    BY DEF Init
  <2>2. tx \in [Replicas -> [ddl : SUBSET Versions, rec : SUBSET Versions]]
    BY DEF Init, NoTx
  <2>3. known \in [Replicas -> SUBSET Versions] /\ made \in [Replicas -> Nat]
    BY DEF Init
  <2>4. post \in [Posts -> Post \cup {Unsent}] /\ ans \in [Posts -> {0, 201, 409, 500}]
    BY DEF Init
  <2>5. pc \in [Replicas -> Steps] /\ \A r \in Replicas : pc[r] = "load"
    BY DEF Init, Steps
  <2>6. env \in [Replicas -> Environments] /\ events \in 0..MaxEvents
    BY MaxEventsAssumption DEF Init
  <2>7. schema \in BOOLEAN /\ table \in BOOLEAN
    BY Zenon DEF Init
  <2>8. /\ applied = {} /\ recorded = {} /\ tenants = {} /\ lost = {} /\ touched = {} /\ seeded = {}
        /\ failed = {}
    BY DEF Init
  <2> QED
    BY <2>1, <2>2, <2>3, <2>4, <2>5, <2>6, <2>7, <2>8 DEF TypeOK
<1> QED
  BY <1>1, TypeStays, PTL DEF Spec

-----------------------------------------------------------------------------
(* Rows of users *)

\* What a step may do to the rows of users.
LEMMA UsersStep ==
  ASSUME [Next]_vars
  PROVE  \/ users' = users
         \/ \E r \in Replicas : SeedNewUser(r) /\ ~Exit(r)
         \/ \E r \in Replicas : SeedRoles(r)
         \/ \E t \in Tenants : CreateUser(t)
         \/ \E u \in DOMAIN users : ChangeUser(u)
<1> SUFFICES ASSUME users' # users,
                    ~\E r \in Replicas : SeedNewUser(r) /\ ~Exit(r),
                    ~\E r \in Replicas : SeedRoles(r),
                    ~\E t \in Tenants : CreateUser(t),
                    ~\E u \in DOMAIN users : ChangeUser(u)
             PROVE  FALSE
  OBVIOUS
<1>1. \A r \in Replicas : ~Exit(r) /\ \A step \in Steps : ~Pass(r, step)
  BY DEF Exit, Pass, db
<1>2. ASSUME NEW r \in Replicas PROVE ~Load(r) /\ ~LookSchema(r) /\ ~LookTable(r) /\ ~Clients(r)
                                      /\ ~SeedTenant(r) /\ ~SeedUser(r) /\ ~SeedReread(r)
                                      /\ ~Restart(r) /\ ~Resume(r)
  BY <1>1 DEF Load, LookSchema, LookTable, Clients, SeedTenant, SeedUser, SeedReread, Restart, Resume, Steps
<1>3. ASSUME NEW r \in Replicas PROVE ~CreateSchema(r) /\ ~CreateTable(r) /\ ~ReadApplied(r) /\ ~ReadCutShort(r)
                                      /\ ~SeedNewTenant(r)
  BY <1>1 DEF CreateSchema, CreateTable, ReadApplied, ReadCutShort, SeedNewTenant, db
<1>4. ASSUME NEW r \in Replicas PROVE ~Apply(r) /\ ~Record(r) /\ ~CommitMigration(r)
  BY <1>1 DEF Apply, Record, CommitMigration, db, Steps
<1>5. ASSUME NEW r \in Replicas PROVE ~Stop(r) /\ ~Drain(r) /\ ~Fault(r)
  BY DEF Stop, Drain, Fault, db
<1>6. ASSUME NEW p \in Posts PROVE ~Serve(p)
  BY DEF Serve, SendPost, PostLookup, PostInsert, PostFails, Answer, PostStep, Posted
<1>7. ~UNCHANGED vars
  BY DEF vars, db
<1> QED
  BY <1>1, <1>2, <1>3, <1>4, <1>5, <1>6, <1>7 DEF Next, Continue

\* Rows stay where they are, and in their tenant, and keep a password of their own.
LEMMA RowsStay ==
  ASSUME TypeOK, [Next]_vars, NEW u \in DOMAIN users
  PROVE  /\ u \in DOMAIN users'
         /\ users'[u].tenant = users[u].tenant
         /\ users[u].own => users'[u].own
<1>0. users \in Seq(User) /\ users[u] \in User /\ u \in 1..Len(users) /\ Len(users) \in Nat
  BY DEF TypeOK
<1>1. CASE users' = users
  BY <1>1
<1>2. ASSUME NEW r \in Replicas, SeedNewUser(r), ~Exit(r)
      PROVE u \in DOMAIN users' /\ users'[u] = users[u]
  <2> DEFINE row == [tenant |-> env[r].tenant, state |-> "here", admin |-> FALSE, own |-> FALSE]
  <2>1. users' = Append(users, row)
    BY <1>2 DEF SeedNewUser
  <2>2. row \in User
    BY EnvironmentsAssumption DEF TypeOK, User
  <2> HIDE DEF row
  <2> QED
    BY <1>0, <2>1, <2>2
<1>3. ASSUME NEW r \in Replicas, SeedRoles(r)
      PROVE u \in DOMAIN users' /\ users'[u].tenant = users[u].tenant /\ users'[u].own = users[u].own
  <2>1. users' = [users EXCEPT ![made[r]] = [users[made[r]] EXCEPT !.admin = TRUE]]
    BY <1>3 DEF SeedRoles
  <2>2. users'[u] = users[u] \/ users'[u] = [users[u] EXCEPT !.admin = TRUE]
    BY <1>0, <2>1
  <2> QED
    BY <1>0, <2>1, <2>2 DEF User
<1>4. ASSUME NEW w \in DOMAIN users, ChangeUser(w)
      PROVE u \in DOMAIN users' /\ users'[u].tenant = users[u].tenant /\ (users'[u].own = users[u].own \/ users'[u].own = TRUE)
  <2>1. \/ \E s \in {"here", "renamed", "deleted"} : users' = [users EXCEPT ![w] = [users[w] EXCEPT !.state = s]]
        \/ \E a \in BOOLEAN : users' = [users EXCEPT ![w] = [users[w] EXCEPT !.admin = a]]
        \/ users' = [users EXCEPT ![w] = [users[w] EXCEPT !.own = TRUE]]
    BY <1>4 DEF ChangeUser
  <2>2. \/ users'[u] = users[u]
        \/ \E s \in {"here", "renamed", "deleted"} : users'[u] = [users[u] EXCEPT !.state = s]
        \/ \E a \in BOOLEAN : users'[u] = [users[u] EXCEPT !.admin = a]
        \/ users'[u] = [users[u] EXCEPT !.own = TRUE]
    BY <1>0, <2>1
  <2> QED
    BY <1>0, <2>1, <2>2 DEF User
<1>5. ASSUME NEW t \in Tenants, CreateUser(t) PROVE u \in DOMAIN users' /\ users'[u] = users[u]
  BY <1>5, CreatedRow
<1> QED
  BY <1>1, <1>2, <1>3, <1>4, <1>5, UsersStep

\* No start of any replica, and nothing else, sets back the password of a user who
\* has changed it.
THEOREM OwnPasswordKeptCorrect == Spec => OwnPasswordKept
<1>1. TypeOK /\ [Next]_vars => [\A u \in DOMAIN users : users[u].own => users'[u].own]_vars
  BY RowsStay
<1> QED
  BY <1>1, TypeCorrect, PTL DEF Spec, OwnPasswordKept

-----------------------------------------------------------------------------
(* Migrations *)

Ready == {"clients", "tenant", "newTenant", "user", "newUser", "reread", "roles", "serve", "drain"}

\* What is applied is recorded, without a gap; an open transaction holds one
\* migration, which is the next one and no other transaction's; and whoever has
\* left the migrations behind has seen them all.
Migrated ==
  /\ applied = recorded
  /\ \A v \in applied : 1..v \subseteq applied
  /\ \A r \in Replicas : known[r] \subseteq recorded
  /\ \A r \in Replicas : pc[r] \notin {"record", "commit"} => tx[r] = NoTx
  /\ \A r \in Replicas : pc[r] = "record" => tx[r].rec = {}
  /\ \A r \in Replicas : pc[r] = "commit" => tx[r].rec = tx[r].ddl
  /\ \A r \in Replicas : pc[r] \in {"record", "commit"} =>
       \E v \in Versions : tx[r].ddl = {v} /\ Applicable(v)
  /\ \A r, s \in Replicas : r # s => tx[r].ddl \cap tx[s].ddl = {}
  /\ \A r \in Replicas : pc[r] \in Ready => Versions \subseteq applied

\* A replica moves, or ends, with no transaction open.
LEMMA ElsewhereMigrated ==
  ASSUME TypeOK, Migrated, NEW r \in Replicas, UNCHANGED <<applied, recorded>>,
         \A s \in Replicas \ {r} : pc'[s] = pc[s] /\ tx'[s] = tx[s] /\ known'[s] = known[s],
         pc'[r] \notin {"record", "commit"}, tx'[r] = NoTx, known'[r] \subseteq recorded,
         pc'[r] \in Ready => Versions \subseteq applied
  PROVE  Migrated'
<1>1. \A s, t \in Replicas : s # t => tx'[s].ddl \cap tx'[t].ddl = {}
  BY DEF Migrated, NoTx
<1>2. \A s \in Replicas : pc'[s] \in {"record", "commit"} => s # r
  OBVIOUS
<1>3. \A s \in Replicas : pc'[s] \in {"record", "commit"} =>
        \E v \in Versions : tx'[s].ddl = {v} /\ Applicable(v)'
  BY <1>2 DEF Migrated, Applicable
<1> QED
  BY <1>1, <1>2, <1>3 DEF Migrated

\* A process that ends leaves the migrations as they are.
LEMMA EndMigrated ==
  ASSUME TypeOK, Migrated, NEW r \in Replicas, NEW step \in {"exited", "stopped"}, End(r, step),
         UNCHANGED <<applied, recorded>>
  PROVE  Migrated'
<1>1. /\ pc'[r] = step /\ tx'[r] = NoTx /\ known'[r] = {}
      /\ \A s \in Replicas \ {r} : pc'[s] = pc[s] /\ tx'[s] = tx[s] /\ known'[s] = known[s]
  BY DEF End, Goto, TypeOK
<1> QED
  BY <1>1, ElsewhereMigrated DEF Ready

\* So does one that only goes on.
LEMMA ProceedMigrated ==
  ASSUME TypeOK, Migrated, NEW r \in Replicas, NEW step \in Steps \ {"record", "commit"},
         pc[r] \notin {"record", "commit"}, Proceed(r, step),
         UNCHANGED <<applied, recorded, known, tx>>,
         step \in Ready => Versions \subseteq applied
  PROVE  Migrated'
<1>1. pc'[r] = step /\ \A s \in Replicas \ {r} : pc'[s] = pc[s]
  BY DEF Proceed, Goto, TypeOK
<1>2. tx[r] = NoTx /\ known[r] \subseteq recorded
  BY DEF Migrated
<1> QED
  BY <1>1, <1>2, ElsewhereMigrated

\* And one that leaves no trace but its place.
LEMMA PassMigrated ==
  ASSUME TypeOK, Migrated, NEW r \in Replicas, NEW step \in Steps \ {"record", "commit"},
         pc[r] \notin {"record", "commit"}, Pass(r, step),
         step \in Ready => Versions \subseteq applied
  PROVE  Migrated'
  BY ProceedMigrated DEF Pass, db

\* No step breaks it.
LEMMA MigratedStays == TypeOK /\ Migrated /\ [Next]_vars => Migrated'
<1> SUFFICES ASSUME TypeOK, Migrated, [Next]_vars PROVE Migrated'
  OBVIOUS
<1>e. ASSUME NEW r \in Replicas, Exit(r) PROVE Migrated'
  BY <1>e, EndMigrated DEF Exit, db
<1>1. ASSUME NEW r \in Replicas, Load(r) \/ LookSchema(r) \/ LookTable(r) \/ Restart(r) \/ Resume(r)
      PROVE Migrated'
  <2>1. CASE Exit(r)
    BY <2>1, <1>e
  <2>2. CASE ~Exit(r)
    <3>1. /\ pc[r] \notin {"record", "commit"}
          /\ \E step \in Steps \ ({"record", "commit"} \cup Ready) : Pass(r, step)
      BY <1>1, <2>2 DEF Load, LookSchema, LookTable, Restart, Resume, Steps, Ready
    <3> QED
      BY <3>1, PassMigrated
  <2> QED
    BY <2>1, <2>2
<1>2. ASSUME NEW r \in Replicas, Clients(r) \/ SeedTenant(r) \/ SeedUser(r) \/ SeedReread(r)
      PROVE Migrated'
  <2>1. CASE Exit(r)
    BY <2>1, <1>e
  <2>2. CASE ~Exit(r)
    <3>1. /\ pc[r] \in Ready
          /\ \E step \in Steps \ {"record", "commit"} : Pass(r, step)
      BY <1>2, <2>2 DEF Clients, SeedTenant, SeedUser, SeedReread, Steps, Ready
    <3>2. Versions \subseteq applied /\ pc[r] \notin {"record", "commit"}
      BY <3>1 DEF Migrated, Ready
    <3> QED
      BY <3>1, <3>2, PassMigrated
  <2> QED
    BY <2>1, <2>2
<1>3. ASSUME NEW r \in Replicas, SeedNewTenant(r) \/ SeedNewUser(r) \/ SeedRoles(r)
      PROVE Migrated'
  <2>1. CASE Exit(r)
    BY <2>1, <1>e
  <2>2. CASE ~Exit(r)
    <3>1. /\ pc[r] \in Ready /\ UNCHANGED <<applied, recorded, known, tx>>
          /\ \E step \in Steps \ {"record", "commit"} : Proceed(r, step)
      BY <1>3, <2>2 DEF SeedNewTenant, SeedNewUser, SeedRoles, Steps, Ready
    <3>2. Versions \subseteq applied /\ pc[r] \notin {"record", "commit"}
      BY <3>1 DEF Migrated, Ready
    <3> QED
      BY <3>1, <3>2, ProceedMigrated
  <2> QED
    BY <2>1, <2>2
<1>4. ASSUME NEW r \in Replicas, CreateSchema(r) \/ CreateTable(r)
      PROVE Migrated'
  <2>1. CASE Exit(r)
    BY <2>1, <1>e
  <2>2. CASE ~Exit(r)
    <3>1. /\ pc[r] \notin {"record", "commit"} /\ UNCHANGED <<applied, recorded, known, tx>>
          /\ \E step \in Steps \ ({"record", "commit"} \cup Ready) : Proceed(r, step)
      BY <1>4, <2>2 DEF CreateSchema, CreateTable, Steps, Ready
    <3> QED
      BY <3>1, ProceedMigrated
  <2> QED
    BY <2>1, <2>2
<1>5. ASSUME NEW r \in Replicas, ReadApplied(r) PROVE Migrated'
  <2>1. /\ pc[r] = "applied" /\ pc'[r] = "apply" /\ \A s \in Replicas \ {r} : pc'[s] = pc[s]
        /\ UNCHANGED <<applied, recorded, tx>>
    BY <1>5 DEF ReadApplied, Proceed, Goto, TypeOK, db
  <2>2. known'[r] = recorded /\ \A s \in Replicas \ {r} : known'[s] = known[s]
    BY <1>5 DEF ReadApplied, TypeOK
  <2>3. tx[r] = NoTx
    BY <2>1 DEF Migrated
  <2> QED
    BY <2>1, <2>2, <2>3, ElsewhereMigrated DEF Ready
<1>6. ASSUME NEW r \in Replicas, Apply(r) PROVE Migrated'
  <2>1. CASE Exit(r)
    BY <2>1, <1>e
  <2>2. CASE Versions \subseteq known[r] /\ Pass(r, "clients")
    <3>1. Versions \subseteq applied
      BY <2>2 DEF Migrated
    <3> QED
      BY <1>6, <2>2, <3>1, PassMigrated DEF Apply, Steps
  <2>3. ASSUME NEW v \in Versions, ~Held(v, r), Applicable(v), tx' = [tx EXCEPT ![r].ddl = {v}],
               Proceed(r, "record"), UNCHANGED <<db, known, made, seeded>>
        PROVE Migrated'
    <3>1. pc[r] = "apply" /\ tx[r] = NoTx
      BY <1>6 DEF Apply, Migrated
    <3>2. /\ pc'[r] = "record" /\ \A s \in Replicas \ {r} : pc'[s] = pc[s]
          /\ UNCHANGED <<applied, recorded, known>>
      BY <2>3 DEF Proceed, Goto, TypeOK, db
    <3>3. tx'[r].ddl = {v} /\ tx'[r].rec = {} /\ \A s \in Replicas \ {r} : tx'[s] = tx[s]
      BY <2>3, <3>1 DEF TypeOK, NoTx
    <3>4. \A s \in Replicas \ {r} : v \notin tx[s].ddl
      BY <2>3 DEF Held
    <3>5. \A s, t \in Replicas : s # t => tx'[s].ddl \cap tx'[t].ddl = {}
      BY <3>3, <3>4 DEF Migrated
    <3>6. \A s \in Replicas : pc'[s] \in {"record", "commit"} =>
            \E w \in Versions : tx'[s].ddl = {w} /\ Applicable(w)'
      BY <2>3, <3>2, <3>3 DEF Migrated, Applicable
    <3> QED
      BY <3>2, <3>3, <3>5, <3>6 DEF Migrated, Ready
  <2> QED
    BY <1>6, <2>1, <2>2, <2>3 DEF Apply
<1>7. ASSUME NEW r \in Replicas, Record(r) PROVE Migrated'
  <2>1. CASE Exit(r)
    BY <2>1, <1>e
  <2>2. CASE ~Exit(r)
    <3>1. /\ pc[r] = "record" /\ pc'[r] = "commit" /\ \A s \in Replicas \ {r} : pc'[s] = pc[s]
          /\ UNCHANGED <<applied, recorded, known>>
      BY <1>7, <2>2 DEF Record, Proceed, Goto, TypeOK, db
    <3>2. /\ tx'[r].ddl = tx[r].ddl /\ tx'[r].rec = tx[r].ddl
          /\ \A s \in Replicas \ {r} : tx'[s] = tx[s]
      BY <1>7, <2>2 DEF Record, TypeOK
    <3>3. \A s, t \in Replicas : s # t => tx'[s].ddl \cap tx'[t].ddl = {}
      BY <3>2 DEF Migrated
    <3>4. \A s \in Replicas : pc'[s] \in {"record", "commit"} =>
            \E w \in Versions : tx'[s].ddl = {w} /\ Applicable(w)'
      BY <3>1, <3>2 DEF Migrated, Applicable
    <3> QED
      BY <3>1, <3>2, <3>3, <3>4 DEF Migrated, Ready
  <2> QED
    BY <2>1, <2>2
<1>8. ASSUME NEW r \in Replicas, CommitMigration(r) PROVE Migrated'
  <2>1. /\ pc[r] = "commit" /\ pc'[r] = "apply" /\ \A s \in Replicas \ {r} : pc'[s] = pc[s]
        /\ applied' = applied \cup tx[r].ddl /\ recorded' = recorded \cup tx[r].rec
    BY <1>8 DEF CommitMigration, Proceed, Goto, TypeOK
  <2>2. tx'[r] = NoTx /\ \A s \in Replicas \ {r} : tx'[s] = tx[s]
    BY <1>8 DEF CommitMigration, TypeOK
  <2>3. known'[r] = known[r] \cup tx[r].ddl /\ \A s \in Replicas \ {r} : known'[s] = known[s]
    BY <1>8 DEF CommitMigration, TypeOK
  <2>4. PICK v \in Versions : tx[r].ddl = {v} /\ Applicable(v)
    BY <2>1 DEF Migrated
  <2>5. tx[r].rec = {v}
    BY <2>1, <2>4 DEF Migrated
  <2>6. applied' = recorded' /\ applied \subseteq applied' /\ \A s \in Replicas : known'[s] \subseteq recorded'
    BY <2>1, <2>3, <2>4, <2>5 DEF Migrated
  <2>7. \A w \in applied' : 1..w \subseteq applied'
    <3>1. 1..v = (1..(v - 1)) \cup {v}
      BY NVersionsAssumption DEF Versions
    <3>2. 1..(v - 1) \subseteq applied
      BY <2>4 DEF Applicable
    <3>3. \A w \in applied : 1..w \subseteq applied
      BY DEF Migrated
    <3> QED
      BY <2>1, <2>4, <3>1, <3>2, <3>3
  <2>8. \A s, t \in Replicas : s # t => tx'[s].ddl \cap tx'[t].ddl = {}
    BY <2>2 DEF Migrated, NoTx
  <2>9. \A s \in Replicas : pc'[s] \in {"record", "commit"} =>
          \E w \in Versions : tx'[s].ddl = {w} /\ Applicable(w)'
    <3> SUFFICES ASSUME NEW s \in Replicas, pc'[s] \in {"record", "commit"}
                 PROVE \E w \in Versions : tx'[s].ddl = {w} /\ Applicable(w)'
      OBVIOUS
    <3>1. s # r /\ pc[s] \in {"record", "commit"} /\ tx'[s] = tx[s]
      BY <2>1, <2>2
    <3>2. PICK w \in Versions : tx[s].ddl = {w} /\ Applicable(w)
      BY <3>1 DEF Migrated
    <3>3. w # v
      BY <2>4, <3>1, <3>2 DEF Migrated
    <3>4. w \notin applied' /\ 1..(w - 1) \subseteq applied'
      BY <2>1, <2>4, <3>2, <3>3 DEF Applicable
    <3> QED
      BY <3>1, <3>2, <3>4 DEF Applicable
  <2> QED
    BY <2>1, <2>2, <2>6, <2>7, <2>8, <2>9 DEF Migrated, Ready
<1>9. ASSUME NEW r \in Replicas, Stop(r) \/ Drain(r) \/ Fault(r) PROVE Migrated'
  <2>1. CASE pc[r] = "serve" /\ Goto(r, "drain") /\ UNCHANGED <<db, known, tx>>
    <3>1. pc'[r] = "drain" /\ \A s \in Replicas \ {r} : pc'[s] = pc[s]
      BY <2>1 DEF Goto, TypeOK
    <3>2. tx[r] = NoTx /\ known[r] \subseteq recorded /\ Versions \subseteq applied
      BY <2>1 DEF Migrated, Ready
    <3> QED
      BY <2>1, <3>1, <3>2, ElsewhereMigrated DEF db
  <2>2. CASE \E step \in {"exited", "stopped"} : End(r, step)
    BY <1>9, <2>2, EndMigrated DEF Stop, Drain, Fault, db
  <2> QED
    BY <1>9, <2>1, <2>2 DEF Stop, Drain, Fault
<1>10. CASE UNCHANGED <<applied, recorded, known, tx, pc>>
  BY <1>10 DEF Migrated, Applicable
<1>11. ASSUME NEW p \in Posts, Serve(p) PROVE UNCHANGED <<applied, recorded, known, tx, pc>>
  BY <1>11 DEF Serve, SendPost, PostLookup, PostInsert, PostFails, Answer, PostStep, Posted
<1>12. ASSUME NEW u, ByApi(u) PROVE UNCHANGED <<applied, recorded, known, tx, pc>>
  BY <1>12 DEF ByApi
<1>13. CASE UNCHANGED vars
  BY <1>10, <1>13 DEF vars, db
<1>14. ASSUME NEW r \in Replicas, ReadCutShort(r) PROVE Migrated'
  <2>1. /\ pc[r] = "applied" /\ pc'[r] = "apply" /\ \A s \in Replicas \ {r} : pc'[s] = pc[s]
        /\ UNCHANGED <<applied, recorded, tx>>
    BY <1>14 DEF ReadCutShort, Goto, TypeOK, db
  <2>2. known'[r] \subseteq recorded /\ \A s \in Replicas \ {r} : known'[s] = known[s]
    BY <1>14 DEF ReadCutShort, TypeOK
  <2>3. tx'[r] = NoTx
    BY <2>1 DEF Migrated
  <2> QED
    BY <2>1, <2>2, <2>3, ElsewhereMigrated DEF Ready
<1>15. (\E t \in Tenants : CreateUser(t)) \/ (\E u \in DOMAIN users : ChangeUser(u)) => \E u : ByApi(u)
  BY DEF CreateUser, ChangeUser
<1> QED
  BY <1>1, <1>2, <1>3, <1>4, <1>5, <1>6, <1>7, <1>8, <1>9, <1>10, <1>11, <1>12, <1>13, <1>14, <1>15 DEF Next, Continue

\* Every reachable state satisfies it.
LEMMA MigratedCorrect == Spec => []Migrated
<1>1. Init => Migrated
  BY DEF Init, Migrated, NoTx, Ready
<1> QED
  BY <1>1, TypeCorrect, MigratedStays, PTL DEF Spec

\* schema_migrations names what is in the schema, whoever races and stops.
THEOREM SchemaRecordedCorrect == Spec => []SchemaRecorded
<1>1. Migrated => SchemaRecorded
  BY DEF Migrated, SchemaRecorded
<1> QED
  BY <1>1, MigratedCorrect, PTL

\* No replica seeds or serves on a schema that is not complete.
THEOREM MigratedBeforeUseCorrect == Spec => []MigratedBeforeUse
<1>1. TypeOK /\ Migrated => MigratedBeforeUse
  <2>1. TypeOK => (Versions \subseteq applied => applied = Versions)
    BY ZenonT(40) DEF TypeOK
  <2> QED
    BY <2>1 DEF Migrated, MigratedBeforeUse, Ready
<1> QED
  BY <1>1, TypeCorrect, MigratedCorrect, PTL

-----------------------------------------------------------------------------
(* The admin of a seed *)

Making(s, u) == pc[s] \in {"reread", "roles"} /\ made[s] = u

\* Every user is an admin, about to become one, or excused; the user a replica makes
\* is of its tenant; and whoever serves has found or made a user of its tenant.
Admins ==
  /\ \A u \in DOMAIN users :
       \/ users[u].admin /\ users[u].state = "here"
       \/ \E s \in Replicas : Making(s, u)
       \/ u \in lost \cup touched
  /\ \A u \in DOMAIN users : users[u].state = "here" \/ u \in touched
  /\ \A s \in Replicas : pc[s] \in {"reread", "roles"} => users[made[s]].tenant = env[s].tenant
  /\ \A r \in Replicas : pc[r] = "serve" => \E u \in DOMAIN users : users[u].tenant = env[r].tenant

\* A step that leaves the rows alone, and takes a replica r to another place.
LEMMA ElsewhereAdmins ==
  ASSUME TypeOK, Admins, NEW r \in Replicas, UNCHANGED <<env, users, touched>>,
         \A s \in Replicas \ {r} : pc'[s] = pc[s] /\ made'[s] = made[s],
         lost \subseteq lost',
         pc[r] \in {"reread", "roles"} =>
           (pc'[r] = "roles" /\ made'[r] = made[r]) \/ made[r] \in lost',
         pc'[r] \in {"reread", "roles"} => pc[r] \in {"reread", "roles"} /\ made'[r] = made[r],
         pc'[r] = "serve" => \E u \in DOMAIN users : users[u].tenant = env[r].tenant
  PROVE  Admins'
<1>1. ASSUME NEW u \in DOMAIN users, NEW s \in Replicas, Making(s, u)
      PROVE u \in lost' \/ \E t \in Replicas : Making(t, u)'
  BY <1>1 DEF Making
<1>2. \A u \in DOMAIN users' :
        \/ users'[u].admin /\ users'[u].state = "here"
        \/ \E s \in Replicas : Making(s, u)'
        \/ u \in lost' \cup touched'
  BY <1>1 DEF Admins
<1>3. \A s \in Replicas : pc'[s] \in {"reread", "roles"} => users'[made'[s]].tenant = env'[s].tenant
  BY DEF Admins
<1>4. \A s \in Replicas : pc'[s] = "serve" => \E u \in DOMAIN users' : users'[u].tenant = env'[s].tenant
  BY DEF Admins
<1> QED
  BY <1>2, <1>3, <1>4 DEF Admins

\* A process that ends excuses the user it was making.
LEMMA EndAdmins ==
  ASSUME TypeOK, Admins, NEW r \in Replicas, NEW step \in {"exited", "stopped"}, End(r, step),
         UNCHANGED <<env, users, touched>>
  PROVE  Admins'
<1>1. /\ pc'[r] = step /\ \A s \in Replicas \ {r} : pc'[s] = pc[s] /\ made'[s] = made[s]
      /\ lost \subseteq lost' /\ (pc[r] \in {"reread", "roles"} => made[r] \in lost')
  BY DEF End, Goto, TypeOK
<1> QED
  BY <1>1, ElsewhereAdmins

\* One that goes on before it makes a user leaves the users as they are.
LEMMA ProceedAdmins ==
  ASSUME TypeOK, Admins, NEW r \in Replicas, NEW step \in Steps \ {"reread", "roles", "serve"},
         pc[r] \notin {"reread", "roles"}, Proceed(r, step), UNCHANGED <<users, made>>
  PROVE  Admins'
<1>1. pc'[r] = step /\ \A s \in Replicas \ {r} : pc'[s] = pc[s]
  BY DEF Proceed, Goto, TypeOK
<1> QED
  BY <1>1, ElsewhereAdmins DEF Proceed

\* No step breaks it.
LEMMA AdminsStay == TypeOK /\ Admins /\ [Next]_vars => Admins'
<1> SUFFICES ASSUME TypeOK, Admins, [Next]_vars PROVE Admins'
  OBVIOUS
<1>e. ASSUME NEW r \in Replicas, Exit(r) PROVE Admins'
  BY <1>e, EndAdmins DEF Exit, db, history
<1>p. ASSUME NEW r \in Replicas, NEW step \in Steps \ {"reread", "roles", "serve"},
             pc[r] \notin {"reread", "roles"}, Pass(r, step)
      PROVE Admins'
  BY <1>p, ProceedAdmins DEF Pass, db
<1>1. ASSUME NEW r \in Replicas,
             \/ Load(r) \/ LookSchema(r) \/ LookTable(r) \/ Restart(r) \/ Resume(r)
             \/ Clients(r) \/ SeedTenant(r)
      PROVE Admins'
  <2>1. CASE Exit(r)
    BY <2>1, <1>e
  <2>2. CASE ~Exit(r)
    <3>1. /\ pc[r] \notin {"reread", "roles"}
          /\ \E step \in Steps \ {"reread", "roles", "serve"} : Pass(r, step)
      BY <1>1, <2>2 DEF Load, LookSchema, LookTable, Restart, Resume, Clients, SeedTenant, Steps
    <3> QED
      BY <3>1, <1>p
  <2> QED
    BY <2>1, <2>2
<1>2. ASSUME NEW r \in Replicas,
             \/ CreateSchema(r) \/ CreateTable(r) \/ ReadApplied(r) \/ CommitMigration(r)
             \/ SeedNewTenant(r) \/ Record(r)
      PROVE Admins'
  <2>1. CASE Exit(r)
    BY <2>1, <1>e
  <2>2. CASE ~Exit(r)
    <3>1. /\ pc[r] \notin {"reread", "roles"} /\ UNCHANGED <<users, made>>
          /\ \E step \in Steps \ {"reread", "roles", "serve"} : Proceed(r, step)
      BY <1>2, <2>2 DEF CreateSchema, CreateTable, ReadApplied, CommitMigration, SeedNewTenant,
        Record, Steps, db
    <3> QED
      BY <3>1, ProceedAdmins
  <2> QED
    BY <2>1, <2>2
<1>3. ASSUME NEW r \in Replicas, Apply(r) PROVE Admins'
  <2>1. CASE Exit(r)
    BY <2>1, <1>e
  <2>2. CASE Pass(r, "clients")
    BY <1>3, <2>2, <1>p DEF Apply, Steps
  <2>3. CASE ~Exit(r) /\ ~Pass(r, "clients")
    <3>1. pc[r] = "apply" /\ UNCHANGED <<users, made>> /\ Proceed(r, "record")
      BY <1>3, <2>3 DEF Apply, db
    <3> QED
      BY <3>1, ProceedAdmins DEF Steps
  <2> QED
    BY <2>1, <2>2, <2>3
<1>4. ASSUME NEW r \in Replicas, SeedUser(r) PROVE Admins'
  <2>1. CASE Here(env[r].tenant) = {}
    BY <1>4, <2>1, <1>p DEF SeedUser, Steps
  <2>2. CASE Here(env[r].tenant) # {}
    <3>1. \E u \in DOMAIN users : users[u].tenant = env[r].tenant
      BY <2>2 DEF Here
    <3>2. /\ pc[r] = "user" /\ pc'[r] = "serve" /\ \A s \in Replicas \ {r} : pc'[s] = pc[s]
          /\ UNCHANGED <<env, users, touched, made, lost>>
      BY <1>4, <2>2 DEF SeedUser, Pass, Proceed, Goto, TypeOK, db
    <3> QED
      BY <3>1, <3>2, ElsewhereAdmins
  <2> QED
    BY <2>1, <2>2
<1>5. ASSUME NEW r \in Replicas, SeedNewUser(r) PROVE Admins'
  <2>1. CASE Exit(r)
    BY <2>1, <1>e
  <2>2. CASE ~Exit(r)
    <3> DEFINE row == [tenant |-> env[r].tenant, state |-> "here", admin |-> FALSE, own |-> FALSE]
    <3>0. PICK new : new = Len(users) + 1
      OBVIOUS
    <3>1. /\ pc[r] = "newUser" /\ users' = Append(users, row)
          /\ UNCHANGED <<env, lost, touched>>
      BY <1>5, <2>2 DEF SeedNewUser, Proceed
    <3>2. row \in User /\ row.tenant = env[r].tenant /\ row.state = "here"
      BY EnvironmentsAssumption DEF TypeOK, User
    <3> HIDE DEF row
    <3>3. users \in Seq(User) /\ Len(users) \in Nat /\ DOMAIN users = 1..Len(users)
      BY DEF TypeOK
    <3>4. /\ DOMAIN users' = DOMAIN users \cup {new} /\ new \notin DOMAIN users /\ users'[new] = row
          /\ \A u \in DOMAIN users : users'[u] = users[u]
      BY <3>0, <3>1, <3>2, <3>3
    <3>5. /\ pc'[r] = "reread" /\ made'[r] = new
          /\ \A s \in Replicas \ {r} : pc'[s] = pc[s] /\ made'[s] = made[s]
      BY <1>5, <2>2, <3>0 DEF SeedNewUser, Proceed, Goto, TypeOK
    <3>6. \A u \in DOMAIN users : \A s \in Replicas : Making(s, u) => Making(s, u)'
      BY <3>1, <3>5 DEF Making
    <3>7. Making(r, new)'
      BY <3>5 DEF Making
    <3>8. \A u \in DOMAIN users' :
            \/ users'[u].admin /\ users'[u].state = "here"
            \/ \E s \in Replicas : Making(s, u)'
            \/ u \in lost' \cup touched'
      BY <3>1, <3>4, <3>6, <3>7 DEF Admins
    <3>9. \A s \in Replicas : pc'[s] \in {"reread", "roles"} => users'[made'[s]].tenant = env'[s].tenant
      BY <3>1, <3>2, <3>4, <3>5 DEF Admins, TypeOK
    <3>10. \A s \in Replicas : pc'[s] = "serve" =>
             \E u \in DOMAIN users' : users'[u].tenant = env'[s].tenant
      BY <3>1, <3>4, <3>5 DEF Admins
    <3>11. \A u \in DOMAIN users' : users'[u].state = "here" \/ u \in touched'
      BY <3>1, <3>2, <3>4 DEF Admins
    <3> QED
      BY <3>8, <3>9, <3>10, <3>11 DEF Admins
  <2> QED
    BY <2>1, <2>2
<1>6. ASSUME NEW r \in Replicas, SeedReread(r) PROVE Admins'
  <2>1. CASE Exit(r)
    BY <2>1, <1>e
  <2>2. CASE ~Exit(r)
    <3>1. /\ pc[r] = "reread" /\ pc'[r] = "roles" /\ \A s \in Replicas \ {r} : pc'[s] = pc[s]
          /\ UNCHANGED <<env, users, touched, made, lost>>
      BY <1>6, <2>2 DEF SeedReread, Pass, Proceed, Goto, TypeOK, db
    <3> QED
      BY <3>1, ElsewhereAdmins
  <2> QED
    BY <2>1, <2>2
<1>7. ASSUME NEW r \in Replicas, SeedRoles(r) PROVE Admins'
  <2> DEFINE row == [users[made[r]] EXCEPT !.admin = TRUE]
  <2>1. /\ made[r] \in DOMAIN users /\ users[made[r]] \in User /\ users \in Seq(User)
        /\ pc[r] = "roles"
    BY <1>7 DEF SeedRoles, TypeOK
  <2>2. /\ users' = [users EXCEPT ![made[r]] = row]
        /\ UNCHANGED <<env, lost, touched, made>>
    BY <1>7 DEF SeedRoles, Proceed
  <2>3. row.tenant = users[made[r]].tenant /\ row.state = users[made[r]].state
    BY <2>1 DEF User
  <2>4. row.admin
    BY <2>1 DEF User
  <2> HIDE DEF row
  <2>5. /\ DOMAIN users' = DOMAIN users /\ users'[made[r]] = row
        /\ \A u \in DOMAIN users : u # made[r] => users'[u] = users[u]
    BY <2>1, <2>2
  <2>6. pc'[r] = "serve" /\ \A s \in Replicas \ {r} : pc'[s] = pc[s]
    BY <1>7 DEF SeedRoles, Proceed, Goto, TypeOK
  <2>7. \A u \in DOMAIN users : u # made[r] =>
          \A s \in Replicas : Making(s, u) => Making(s, u)'
    BY <2>2, <2>6 DEF Making
  <2>8. \A u \in DOMAIN users' : users'[u].state = "here" \/ u \in touched'
    BY <2>2, <2>3, <2>5 DEF Admins
  <2>9. \A u \in DOMAIN users' :
          \/ users'[u].admin /\ users'[u].state = "here"
          \/ \E s \in Replicas : Making(s, u)'
          \/ u \in lost' \cup touched'
    BY <2>2, <2>4, <2>5, <2>7, <2>8 DEF Admins
  <2>10. \A u \in DOMAIN users : users'[u].tenant = users[u].tenant
    BY <2>3, <2>5
  <2>11. \A s \in Replicas : pc'[s] \in {"reread", "roles"} => users'[made'[s]].tenant = env'[s].tenant
    BY <2>2, <2>6, <2>10 DEF Admins, TypeOK
  <2>12. \A s \in Replicas : pc'[s] = "serve" =>
           \E u \in DOMAIN users' : users'[u].tenant = env'[s].tenant
    BY <2>1, <2>2, <2>5, <2>6, <2>10 DEF Admins
  <2> QED
    BY <2>8, <2>9, <2>11, <2>12 DEF Admins
<1>8. ASSUME NEW r \in Replicas, Stop(r) \/ Drain(r) \/ Fault(r) PROVE Admins'
  <2>1. UNCHANGED <<env, users, touched>>
    BY <1>8 DEF Stop, Drain, Fault, db, history
  <2>2. CASE pc[r] = "serve" /\ Goto(r, "drain") /\ UNCHANGED <<made, lost>>
    <3>1. pc'[r] = "drain" /\ \A s \in Replicas \ {r} : pc'[s] = pc[s]
      BY <2>2 DEF Goto, TypeOK
    <3> QED
      BY <2>1, <2>2, <3>1, ElsewhereAdmins
  <2>3. CASE \E step \in {"exited", "stopped"} : End(r, step)
    BY <2>1, <2>3, EndAdmins
  <2> QED
    BY <1>8, <2>2, <2>3 DEF Stop, Drain, Fault
<1>9. ASSUME UNCHANGED <<env, users, pc, made, lost, touched>> PROVE Admins'
  BY <1>9 DEF Admins, Making
<1>10. ASSUME NEW p \in Posts, Serve(p) PROVE Admins'
  BY <1>9, <1>10 DEF Serve, SendPost, PostLookup, PostInsert, PostFails, Answer, PostStep, Posted
<1>11. CASE UNCHANGED vars
  BY <1>9, <1>11 DEF vars, db, history
<1>12. ASSUME NEW u \in DOMAIN users, ChangeUser(u) PROVE Admins'
  <2>1. UNCHANGED <<env, pc, made, lost>> /\ touched' = touched \cup {u} /\ users \in Seq(User)
    BY <1>12 DEF ChangeUser, ByApi, TypeOK
  <2>2. DOMAIN users' = DOMAIN users /\ \A w \in DOMAIN users \ {u} : users'[w] = users[w]
    BY <1>12, <2>1 DEF ChangeUser
  <2>3. \A w \in DOMAIN users : users'[w].tenant = users[w].tenant
    BY RowsStay
  <2>4. \A w \in DOMAIN users : \A s \in Replicas : Making(s, w) => Making(s, w)'
    BY <2>1 DEF Making
  <2>5. \A w \in DOMAIN users' :
          \/ users'[w].admin /\ users'[w].state = "here"
          \/ \E s \in Replicas : Making(s, w)'
          \/ w \in lost' \cup touched'
    BY <2>1, <2>2, <2>4 DEF Admins
  <2>6. \A w \in DOMAIN users' : users'[w].state = "here" \/ w \in touched'
    BY <2>1, <2>2 DEF Admins
  <2>7. \A s \in Replicas : pc'[s] \in {"reread", "roles"} => users'[made'[s]].tenant = env'[s].tenant
    BY <2>1, <2>3 DEF Admins, TypeOK
  <2>8. \A s \in Replicas : pc'[s] = "serve" =>
          \E w \in DOMAIN users' : users'[w].tenant = env'[s].tenant
    BY <2>1, <2>2, <2>3 DEF Admins
  <2> QED
    BY <2>5, <2>6, <2>7, <2>8 DEF Admins
<1>13. ASSUME NEW t \in Tenants, CreateUser(t) PROVE Admins'
  <2>0. PICK new : new = Len(users) + 1
    OBVIOUS
  <2>1. UNCHANGED <<env, pc, made, lost>> /\ touched' = touched \cup {new}
    BY <1>13, <2>0 DEF CreateUser, ByApi
  <2>2. DOMAIN users' = DOMAIN users \cup {new} /\ \A w \in DOMAIN users : users'[w] = users[w]
    BY <1>13, <2>0, CreatedRow
  <2>3. \A w \in DOMAIN users : \A s \in Replicas : Making(s, w) => Making(s, w)'
    BY <2>1 DEF Making
  <2>4. \A w \in DOMAIN users' :
          \/ users'[w].admin /\ users'[w].state = "here"
          \/ \E s \in Replicas : Making(s, w)'
          \/ w \in lost' \cup touched'
    BY <2>1, <2>2, <2>3 DEF Admins
  <2>5. \A w \in DOMAIN users' : users'[w].state = "here" \/ w \in touched'
    BY <2>1, <2>2 DEF Admins
  <2>6. \A s \in Replicas : pc'[s] \in {"reread", "roles"} => users'[made'[s]].tenant = env'[s].tenant
    BY <2>1, <2>2 DEF Admins, TypeOK
  <2>7. \A s \in Replicas : pc'[s] = "serve" =>
          \E w \in DOMAIN users' : users'[w].tenant = env'[s].tenant
    BY <2>1, <2>2 DEF Admins
  <2> QED
    BY <2>4, <2>5, <2>6, <2>7 DEF Admins
<1>14. ASSUME NEW r \in Replicas, ReadCutShort(r) PROVE Admins'
  <2>1. /\ pc[r] = "applied" /\ pc'[r] = "apply" /\ \A s \in Replicas \ {r} : pc'[s] = pc[s]
        /\ UNCHANGED <<env, users, touched, made, lost>>
    BY <1>14 DEF ReadCutShort, Goto, TypeOK, db, history
  <2> QED
    BY <2>1, ElsewhereAdmins
<1> QED
  BY <1>1, <1>2, <1>3, <1>4, <1>5, <1>6, <1>7, <1>8, <1>10, <1>11, <1>12, <1>13, <1>14 DEF Next, Continue

\* Whoever serves has an admin, but for a lost creator, or a user whom an admin has
\* made or changed.
THEOREM ServingHasAdminCorrect == Spec => []ServingHasAdmin
<1>1. Init => Admins
  BY DEF Init, Admins
<1>2. Admins => ServingHasAdmin
  BY DEF Admins, ServingHasAdmin, Making
<1> QED
  BY <1>1, <1>2, TypeCorrect, AdminsStay, PTL DEF Spec

-----------------------------------------------------------------------------
(* Answers *)

\* An answered request is over; a tenant has one creator.
Answered ==
  /\ seeded \subseteq tenants
  /\ \A p \in Posts : ans[p] # 0 => post[p] \in Post /\ post[p].step = "done"
  /\ TenantAnswers

\* No step breaks it.
LEMMA AnsweredStays == TypeOK /\ Answered /\ [Next]_vars => Answered'
<1> SUFFICES ASSUME TypeOK, Answered, [Next]_vars PROVE Answered'
  OBVIOUS
<1>t. ans \in [Posts -> {0, 201, 409, 500}]
  BY DEF TypeOK
<1>1. ASSUME UNCHANGED <<ans, failed>>, seeded' \subseteq tenants', tenants \subseteq tenants',
             seeded' \ seeded \subseteq tenants' \ tenants,
             \A p \in Posts : ans[p] # 0 =>
               post'[p] \in Post /\ post'[p].step = "done" /\ post'[p].name = post[p].name
      PROVE Answered'
  BY <1>1 DEF Answered, TenantAnswers
<1>2. CASE UNCHANGED <<ans, failed, seeded, tenants, post>>
  BY <1>1, <1>2 DEF Answered
<1>3. ASSUME NEW r \in Replicas, NEW step, End(r, step), UNCHANGED <<ans, failed, seeded, tenants>>
      PROVE Answered'
  <2>1. ASSUME NEW p \in Posts, ans[p] # 0
        PROVE post'[p] \in Post /\ post'[p].step = "done" /\ post'[p].name = post[p].name
    <3>1. post[p] \in Post /\ post[p].step = "done"
      BY <2>1 DEF Answered
    <3>2. post'[p] = post[p] \/ post'[p] = [post[p] EXCEPT !.step = "done"]
      BY <1>3 DEF End
    <3>3. CASE post'[p] = [post[p] EXCEPT !.step = "done"]
      BY <3>1, <3>3 DEF Post
    <3> QED
      BY <3>1, <3>2, <3>3
  <2> QED
    BY <1>1, <1>3, <2>1 DEF Answered
<1>4. ASSUME NEW r \in Replicas, Exit(r) PROVE Answered'
  BY <1>3, <1>4 DEF Exit, db, history
<1>5. ASSUME NEW r \in Replicas, Continue(r), ~Exit(r), ~Drain(r), ~SeedNewTenant(r)
      PROVE Answered'
  <2>1. CASE \E step \in Steps : Pass(r, step)
    BY <1>2, <2>1 DEF Pass, Proceed, db
  <2>2. ASSUME ~\E step \in Steps : Pass(r, step)
        PROVE UNCHANGED <<ans, failed, seeded, tenants, post>>
    <3>1. \/ CreateSchema(r) \/ CreateTable(r) \/ ReadApplied(r) \/ Apply(r) \/ Record(r)
          \/ CommitMigration(r) \/ SeedNewUser(r) \/ SeedRoles(r)
      BY <1>5, <2>2 DEF Continue, Load, LookSchema, LookTable, Clients, SeedTenant, SeedUser,
        SeedReread, Restart, Steps
    <3> QED
      BY <1>5, <2>2, <3>1 DEF CreateSchema, CreateTable, ReadApplied, Apply, Record, CommitMigration,
        SeedNewUser, SeedRoles, Proceed, db, Steps
  <2> QED
    BY <1>2, <2>1, <2>2
<1>6. ASSUME NEW r \in Replicas, SeedNewTenant(r), ~Exit(r) PROVE Answered'
  <2>1. /\ env[r].tenant \notin tenants /\ tenants' = tenants \cup {env[r].tenant}
        /\ seeded' = seeded \cup {env[r].tenant} /\ UNCHANGED <<ans, failed, post>>
    BY <1>6 DEF SeedNewTenant, Proceed
  <2> QED
    BY <1>1, <2>1 DEF Answered
<1>7. ASSUME NEW r \in Replicas, Stop(r) \/ Drain(r) \/ Fault(r) PROVE Answered'
  <2>1. UNCHANGED <<ans, failed, seeded, tenants>>
    BY <1>7 DEF Stop, Drain, Fault, db, history
  <2> QED
    BY <1>2, <1>3, <1>7, <2>1 DEF Stop, Drain, Fault
<1>8. ASSUME NEW r \in Replicas, Resume(r) PROVE Answered'
  BY <1>2, <1>8 DEF Resume, Pass, Proceed, db
<1>9. ASSUME NEW p \in Posts, SendPost(p) PROVE Answered'
  <2>1. ans[p] = 0
    BY <1>9 DEF SendPost, Answered, Unsent
  <2>2. \A q \in Posts \ {p} : post'[q] = post[q]
    BY <1>9 DEF SendPost, Posted, TypeOK
  <2> QED
    BY <1>1, <1>9, <2>1, <2>2 DEF SendPost, Posted, history, Answered
<1>10. ASSUME NEW p \in Posts, PostLookup(p) \/ PostInsert(p) \/ PostFails(p) PROVE Answered'
  <2>1. post[p] \in Post /\ post[p].step # "done" /\ ans[p] = 0
    BY <1>10 DEF PostLookup, PostInsert, PostFails, TypeOK, Unsent, Answered
  <2>2. /\ \A q \in Posts \ {p} : post'[q] = post[q] /\ ans'[q] = ans[q]
        /\ seeded' = seeded /\ failed \subseteq failed'
    BY <1>10 DEF PostLookup, PostInsert, PostFails, Answer, PostStep, Posted, TypeOK
  <2>3. CASE ans' = ans
    <3>1. UNCHANGED <<tenants, failed>> \/ ans'[p] # 0
      BY <1>10, <2>3 DEF PostLookup, PostInsert, PostFails, Answer, TypeOK
    <3> QED
      BY <1>1, <2>1, <2>2, <2>3, <3>1 DEF Answered
  <2>4. ASSUME NEW status \in {201, 409, 500}, Answer(p, status), tenants \subseteq tenants',
               \/ post[p].name \in tenants'
               \/ status = 500 /\ p \in failed',
               status = 201 => post[p].name \notin tenants
        PROVE Answered'
    <3>1. post'[p] \in Post /\ post'[p].step = "done" /\ post'[p].name = post[p].name
      <4>1. post'[p] = [post[p] EXCEPT !.step = "done"]
        BY <2>4 DEF Answer, PostStep, Posted, TypeOK
      <4> QED
        BY <2>1, <4>1 DEF Post
    <3>2. ans'[p] = status
      BY <2>4 DEF Answer, TypeOK
    <3>3. \A q \in Posts : post'[q].name = post[q].name \/ ans[q] = 0
      BY <2>2, <3>1
    <3>4. TenantAnswers
      BY DEF Answered
    <3>5. ASSUME NEW q \in Posts
          PROVE  /\ ans'[q] \in {201, 409} => post'[q].name \in tenants'
                 /\ ans'[q] = 500 => post'[q].name \in tenants' \/ q \in failed'
      BY <2>1, <2>2, <2>4, <3>1, <3>2, <3>4 DEF TenantAnswers
    <3>6. ASSUME NEW q \in Posts, ans'[q] = 201 PROVE post'[q].name \notin seeded'
      BY <2>1, <2>2, <2>4, <3>1, <3>2, <3>4, <3>6 DEF Answered, TenantAnswers
    <3>7. ASSUME NEW q \in Posts, NEW o \in Posts \ {q}, ans'[q] = 201, ans'[o] = 201
          PROVE  post'[o].name # post'[q].name
      BY <2>1, <2>2, <2>4, <3>1, <3>2, <3>4, <3>7 DEF TenantAnswers
    <3>8. TenantAnswers'
      BY <3>5, <3>6, <3>7 DEF TenantAnswers
    <3> QED
      BY <2>1, <2>2, <2>4, <3>1, <3>8 DEF Answered
  <2>5. ans' = ans \/ \E status \in {201, 409, 500} :
          /\ Answer(p, status) /\ tenants \subseteq tenants'
          /\ post[p].name \in tenants' \/ (status = 500 /\ p \in failed')
          /\ status = 201 => post[p].name \notin tenants
    BY <1>10 DEF PostLookup, PostInsert, PostFails
  <2> QED
    BY <2>3, <2>4, <2>5
<1>11. ASSUME NEW u, ByApi(u) PROVE Answered'
  BY <1>2, <1>11 DEF ByApi
<1>12. CASE UNCHANGED vars
  BY <1>2, <1>12 DEF vars, db, history
<1>13. ASSUME NEW r \in Replicas, ReadCutShort(r) PROVE Answered'
  BY <1>2, <1>13 DEF ReadCutShort, db, history
<1>14. (\E t \in Tenants : CreateUser(t)) \/ (\E u \in DOMAIN users : ChangeUser(u)) => \E u : ByApi(u)
  BY DEF CreateUser, ChangeUser
<1> QED
  BY <1>4, <1>5, <1>6, <1>7, <1>8, <1>9, <1>10, <1>11, <1>12, <1>13, <1>14 DEF Next, Serve

\* A tenant has one creator, and nobody is told of a conflict without one, or of a
\* failure that is none.
THEOREM TenantAnswersCorrect == Spec => []TenantAnswers
<1>1. Init => Answered
  BY DEF Init, Answered, TenantAnswers
<1>2. Answered => TenantAnswers
  BY DEF Answered
<1> QED
  BY <1>1, <1>2, TypeCorrect, AnsweredStays, PTL DEF Spec
=============================================================================
