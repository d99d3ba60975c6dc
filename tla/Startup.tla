------------------------------ MODULE Startup ------------------------------
(***************************************************************************)
(* Replicas of korauth that start, crash, restart and stop beside each     *)
(* other on one database (cmd/korauth/main.go): configuration, migrations  *)
(* (internal/db/db.go), seed (internal/seed/seed.go), and what requests to *)
(* the replicas that serve already do to the tables that the seed looks    *)
(* at: they create tenants (internal/service/tenant.go), and create and    *)
(* change users (internal/service/user.go).                                *)
(*                                                                         *)
(* Every statement is one action.  CREATE ... IF NOT EXISTS is two, a look *)
(* and a creation: PostgreSQL does not make them one.  Any failure before  *)
(* the server listens ends the process, and its supervisor starts it       *)
(* again.  SetRoles is one step here (Users has its statements).           *)
(***************************************************************************)
EXTENDS Integers, Sequences, FiniteSets

CONSTANTS
  Replicas,
  Posts,         \* requests to create a tenant, each sent at most once
  Tenants,       \* tenant names
  PostNames,     \* those that requests ask for
  Required,      \* the variables that have no default
  Durations,     \* the texts that time.ParseDuration accepts
  Environments,  \* the environments a replica may have been given
  NVersions,     \* the migrations are numbered in the order of their names
  MaxEvents      \* bound on crashes and failed statements, on SIGTERMs and on
                 \* users created and changed through the API, together

ASSUME NVersionsAssumption == NVersions \in Nat
ASSUME MaxEventsAssumption == MaxEvents \in Nat
ASSUME PostNamesAssumption == PostNames \subseteq Tenants
ASSUME EnvironmentsAssumption == \A e \in Environments : e.tenant \in Tenants

VARIABLES
  env,       \* the environment of each replica
  schema,    \* the schema auth exists
  table,     \* the table auth.schema_migrations exists
  applied,   \* the migrations whose statements have been committed
  recorded,  \* the rows of auth.schema_migrations
  tenants,   \* the rows of auth.tenants
  users,     \* the users that have had the seed's username, the first one first
  pc,        \* the step of main each replica is about to do
  known,     \* the migrations a replica takes for applied
  tx,        \* what the open transaction of a replica has done
  made,      \* the id a replica has for the user it creates, 0 for none
  post,      \* the requests: step, replica and name
  ans,       \* their answers, 0 for none
  lost,      \* history: users whose creator stopped before SetRoles
  touched,   \* history: users created or changed through the API
  seeded,    \* history: tenants created by seeds
  failed,    \* history: requests of which a statement has failed
  events     \* what MaxEvents bounds

db == <<schema, table, applied, recorded, tenants, users>>
history == <<touched, seeded, failed>>
vars == <<env, db, pc, known, tx, made, post, ans, lost, history, events>>

Versions == 1..NVersions

\* A row of auth.users: live under the seed's username or another one, or deleted;
\* with the admin role; with a password other than the seed's.
User == [tenant : Tenants, state : {"here", "renamed", "deleted"},
         admin : BOOLEAN, own : BOOLEAN]

NoTx == [ddl |-> {}, rec |-> {}]
Steps == {"load", "schema", "newSchema", "table", "newTable", "applied",
          "apply", "record", "commit", "clients", "tenant", "newTenant",
          "user", "newUser", "reread", "roles", "serve", "drain", "exited", "stopped"}

Post == [step : {"lookup", "insert", "done"}, at : Replicas, name : Tenants]
Unsent == [step |-> "unsent"]

Init ==
  /\ env \in [Replicas -> Environments]
  /\ schema = FALSE /\ table = FALSE
  /\ applied = {} /\ recorded = {} /\ tenants = {} /\ users = <<>>
  /\ pc = [r \in Replicas |-> "load"]
  /\ known = [r \in Replicas |-> {}]
  /\ tx = [r \in Replicas |-> NoTx]
  /\ made = [r \in Replicas |-> 0]
  /\ post = [p \in Posts |-> Unsent]
  /\ ans = [p \in Posts |-> 0]
  /\ lost = {} /\ touched = {} /\ seeded = {} /\ failed = {}
  /\ events = 0

-----------------------------------------------------------------------------
(* Processes *)

Goto(r, step) == pc' = [pc EXCEPT ![r] = step]

\* The process ends: its transaction is rolled back, its requests are cut off, and
\* a user it has created stays as it is.
End(r, step) ==
  /\ Goto(r, step)
  /\ known' = [known EXCEPT ![r] = {}]
  /\ tx' = [tx EXCEPT ![r] = NoTx]
  /\ made' = [made EXCEPT ![r] = 0]
  /\ post' = [p \in Posts |-> IF post[p] # Unsent /\ post[p].at = r
                                THEN [post[p] EXCEPT !.step = "done"] ELSE post[p]]
  /\ lost' = IF pc[r] \in {"reread", "roles"} THEN lost \cup {made[r]} ELSE lost

Exit(r) == End(r, "exited") /\ UNCHANGED <<env, db, ans, history, events>>

\* The process goes on, and nothing but the database and its own state changes.
Proceed(r, step) ==
  /\ Goto(r, step)
  /\ UNCHANGED <<env, post, ans, lost, touched, failed, events>>

\* A step that leaves no trace but the place it goes to.
Pass(r, step) == Proceed(r, step) /\ UNCHANGED <<db, known, tx, made, seeded>>

\* All required variables are set and both lifetimes are durations.
Loadable(e) == e.unset = {} /\ e.access \in Durations /\ e.refresh \in Durations

\* The configuration, and the ping of the database.
Load(r) ==
  /\ pc[r] = "load"
  /\ \/ Loadable(env[r]) /\ Pass(r, "schema")
     \/ ~Loadable(env[r]) /\ Exit(r)

-----------------------------------------------------------------------------
(* db.Migrate *)

LookSchema(r) ==
  /\ pc[r] = "schema"
  /\ Pass(r, IF schema THEN "table" ELSE "newSchema")

\* Another replica may have created it since: unique violation in the catalog.
CreateSchema(r) ==
  /\ pc[r] = "newSchema"
  /\ \/ schema /\ Exit(r)
     \/ /\ ~schema
        /\ schema' = TRUE
        /\ Proceed(r, "table")
        /\ UNCHANGED <<table, applied, recorded, tenants, users, known, tx, made, seeded>>

LookTable(r) ==
  /\ pc[r] = "table"
  /\ Pass(r, IF table THEN "applied" ELSE "newTable")

CreateTable(r) ==
  /\ pc[r] = "newTable"
  /\ \/ table /\ Exit(r)
     \/ /\ ~table
        /\ table' = TRUE
        /\ Proceed(r, "applied")
        /\ UNCHANGED <<schema, applied, recorded, tenants, users, known, tx, made, seeded>>

ReadApplied(r) ==
  /\ pc[r] = "applied"
  /\ known' = [known EXCEPT ![r] = recorded]
  /\ Proceed(r, "apply")
  /\ UNCHANGED <<db, tx, made, seeded>>

\* The connection breaks while the rows come in, in the order of the versions: the
\* loop ends as if they had been all, and rows.Err() is not looked at.
ReadCutShort(r) ==
  /\ pc[r] = "applied"
  /\ events < MaxEvents
  /\ events' = events + 1
  /\ \E v \in recorded : known' = [known EXCEPT ![r] = {w \in recorded : w < v}]
  /\ Goto(r, "apply")
  /\ UNCHANGED <<env, db, tx, made, post, ans, lost, history>>

IsFirst(v, r) == v \in Versions \ known[r] /\ \A w \in Versions \ known[r] : v <= w

\* The statements of v have been run by another transaction that is still open.
Held(v, r) == \E s \in Replicas \ {r} : v \in tx[s].ddl

\* A migration runs on what the ones before it have made.
Applicable(v) == v \notin applied /\ 1..(v - 1) \subseteq applied

\* Variant with a bug: a migration that another replica is running is skipped.
ApplySkipsHeld(r) ==
  /\ pc[r] = "apply"
  /\ \/ Versions \subseteq known[r] /\ Pass(r, "clients")
     \/ \E v \in Versions :
          /\ IsFirst(v, r)
          /\ \/ /\ Held(v, r)
                /\ known' = [known EXCEPT ![r] = @ \cup {v}]
                /\ Proceed(r, "apply")
                /\ UNCHANGED <<db, tx, made, seeded>>
             \/ ~Held(v, r) /\ ~Applicable(v) /\ Exit(r)
             \/ /\ ~Held(v, r) /\ Applicable(v)
                /\ tx' = [tx EXCEPT ![r].ddl = {v}]
                /\ Proceed(r, "record")
                /\ UNCHANGED <<db, known, made, seeded>>

\* The next migration in a transaction of its own.  It waits for the locks of a
\* transaction that runs the same one, and fails once that has committed: on an
\* object that exists, or (001, written with IF NOT EXISTS) on the key it records.
Apply(r) ==
  /\ pc[r] = "apply"
  /\ \/ Versions \subseteq known[r] /\ Pass(r, "clients")
     \/ \E v \in Versions :
          /\ IsFirst(v, r)
          /\ ~Held(v, r)
          /\ \/ ~Applicable(v) /\ Exit(r)
             \/ /\ Applicable(v)
                /\ tx' = [tx EXCEPT ![r].ddl = {v}]
                /\ Proceed(r, "record")
                /\ UNCHANGED <<db, known, made, seeded>>

\* Variant with a bug: the statements of the migration are not in the transaction.
RecordOutside(r) ==
  /\ pc[r] = "record"
  /\ applied' = applied \cup tx[r].ddl
  /\ tx' = [tx EXCEPT ![r].rec = tx[r].ddl]
  /\ Proceed(r, "commit")
  /\ UNCHANGED <<schema, table, recorded, tenants, users, known, made, seeded>>

Record(r) ==
  /\ pc[r] = "record"
  /\ \/ tx[r].ddl \cap recorded # {} /\ Exit(r)
     \/ /\ tx[r].ddl \cap recorded = {}
        /\ tx' = [tx EXCEPT ![r].rec = tx[r].ddl]
        /\ Proceed(r, "commit")
        /\ UNCHANGED <<db, known, made, seeded>>

CommitMigration(r) ==
  /\ pc[r] = "commit"
  /\ applied' = applied \cup tx[r].ddl
  /\ recorded' = recorded \cup tx[r].rec
  /\ known' = [known EXCEPT ![r] = @ \cup tx[r].ddl]
  /\ tx' = [tx EXCEPT ![r] = NoTx]
  /\ Proceed(r, "apply")
  /\ UNCHANGED <<schema, table, tenants, users, made, seeded>>

\* The ping of Redis and the two key files (see AccessTokens).
Clients(r) == pc[r] = "clients" /\ Pass(r, "tenant")

-----------------------------------------------------------------------------
(* seed.Run *)

SeedTenant(r) ==
  /\ pc[r] = "tenant"
  /\ Pass(r, IF env[r].tenant \in tenants THEN "user" ELSE "newTenant")

SeedNewTenant(r) ==
  /\ pc[r] = "newTenant"
  /\ \/ env[r].tenant \in tenants /\ Exit(r)
     \/ /\ env[r].tenant \notin tenants
        /\ tenants' = tenants \cup {env[r].tenant}
        /\ seeded' = seeded \cup {env[r].tenant}
        /\ Proceed(r, "user")
        /\ UNCHANGED <<schema, table, applied, recorded, users, known, tx, made>>

\* Who is live under the seed's username in the tenant t, whoever created it.
Here(t) == {u \in DOMAIN users : users[u].tenant = t /\ users[u].state = "here"}

\* Variant with a bug: the password of the environment is set again.
SeedUserResets(r) ==
  /\ pc[r] = "user"
  /\ \/ Here(env[r].tenant) = {} /\ Pass(r, "newUser")
     \/ /\ Here(env[r].tenant) # {}
        /\ users' = [u \in DOMAIN users |-> [users[u] EXCEPT !.own =
                       IF u \in Here(env[r].tenant) THEN FALSE ELSE @]]
        /\ Proceed(r, "serve")
        /\ UNCHANGED <<schema, table, applied, recorded, tenants, known, tx, made, seeded>>

SeedUser(r) ==
  /\ pc[r] = "user"
  /\ Pass(r, IF Here(env[r].tenant) = {} THEN "newUser" ELSE "serve")

\* Variant with a bug: the id that the INSERT returns is not kept.
SeedNewUserLosesId(r) ==
  /\ pc[r] = "newUser"
  /\ Here(env[r].tenant) = {}
  /\ users' = Append(users, [tenant |-> env[r].tenant, state |-> "here",
                             admin |-> FALSE, own |-> FALSE])
  /\ Proceed(r, "reread")
  /\ UNCHANGED <<schema, table, applied, recorded, tenants, known, tx, made, seeded>>

SeedNewUser(r) ==
  /\ pc[r] = "newUser"
  /\ \/ Here(env[r].tenant) # {} /\ Exit(r)
     \/ /\ Here(env[r].tenant) = {}
        /\ users' = Append(users, [tenant |-> env[r].tenant, state |-> "here",
                                   admin |-> FALSE, own |-> FALSE])
        /\ made' = [made EXCEPT ![r] = Len(users) + 1]
        /\ Proceed(r, "reread")
        /\ UNCHANGED <<schema, table, applied, recorded, tenants, known, tx, seeded>>

\* UserStore.Create reads the new row back; if it is deleted by then the result is
\* nil, and user.ID panics.
SeedReread(r) ==
  /\ pc[r] = "reread"
  /\ \/ users[made[r]].state = "deleted" /\ Exit(r)
     \/ users[made[r]].state # "deleted" /\ Pass(r, "roles")

\* Variant with a bug: the server listens before the role is committed.
SeedRolesNever(r) == pc[r] = "roles" /\ Pass(r, "serve")

SeedRoles(r) ==
  /\ pc[r] = "roles"
  /\ users' = [users EXCEPT ![made[r]].admin = TRUE]
  /\ Proceed(r, "serve")
  /\ UNCHANGED <<schema, table, applied, recorded, tenants, known, tx, made, seeded>>

-----------------------------------------------------------------------------
(* Serving *)

\* SIGTERM ends a process at once until it listens, and then lets it drain.
Stop(r) ==
  /\ pc[r] \notin {"drain", "exited", "stopped"}
  /\ events < MaxEvents
  /\ events' = events + 1
  /\ \/ pc[r] = "serve" /\ Goto(r, "drain") /\ UNCHANGED <<known, tx, made, post, lost>>
     \/ pc[r] # "serve" /\ End(r, "stopped")
  /\ UNCHANGED <<env, db, ans, history>>

\* Shutdown waits for the requests, 10 s at most; main returns.
Drain(r) ==
  /\ pc[r] = "drain"
  /\ End(r, "stopped")
  /\ UNCHANGED <<env, db, ans, history, events>>

\* A statement of the start fails, or the process or its machine crashes.
Fault(r) ==
  /\ pc[r] \notin {"exited", "stopped"}
  /\ events < MaxEvents
  /\ events' = events + 1
  /\ End(r, "exited")
  /\ UNCHANGED <<env, db, ans, history>>

\* restart: unless-stopped, Restart=on-failure.
Restart(r) == pc[r] = "exited" /\ Pass(r, "load")

\* The operator starts a stopped replica.
Resume(r) == pc[r] = "stopped" /\ Pass(r, "load")

Posted(p, value) ==
  /\ post' = [post EXCEPT ![p] = value]
  /\ UNCHANGED <<env, schema, table, applied, recorded, users, pc, known, tx, made,
                 lost, touched, seeded>>

PostStep(p, step) == Posted(p, [post[p] EXCEPT !.step = step])

Answer(p, status) == ans' = [ans EXCEPT ![p] = status] /\ PostStep(p, "done")

\* Somebody holds an access token with the admin role.  Who has lost the role, or
\* the account, keeps the token until it expires.
AdminAround == \E u \in DOMAIN users : users[u].admin \/ u \in touched

\* An admin sends the request to a replica that serves.
SendPost(p) ==
  /\ post[p] = Unsent
  /\ AdminAround
  /\ \E r \in Replicas, t \in PostNames :
       pc[r] = "serve" /\ Posted(p, [step |-> "lookup", at |-> r, name |-> t])
  /\ UNCHANGED <<tenants, ans, failed, events>>

PostLookup(p) ==
  /\ post[p].step = "lookup"
  /\ \/ post[p].name \in tenants /\ Answer(p, 409)
     \/ post[p].name \notin tenants /\ PostStep(p, "insert") /\ UNCHANGED ans
  /\ UNCHANGED <<tenants, failed, events>>

\* Variant with a bug: an existing row is returned as if it were new.
PostInsertAnyway(p) ==
  /\ post[p].step = "insert"
  /\ Answer(p, 201)
  /\ tenants' = tenants \cup {post[p].name}
  /\ UNCHANGED <<failed, events>>

\* The loser of the unique index is told 500: no error of the store is a conflict.
PostInsert(p) ==
  /\ post[p].step = "insert"
  /\ \/ /\ post[p].name \in tenants
        /\ Answer(p, 500)
        /\ UNCHANGED tenants
     \/ /\ post[p].name \notin tenants
        /\ Answer(p, 201)
        /\ tenants' = tenants \cup {post[p].name}
  /\ UNCHANGED <<failed, events>>

\* A statement of the request fails, or has been executed and only its reply is
\* lost: 500, and the replica goes on serving.
PostFails(p) ==
  /\ post[p].step \in {"lookup", "insert"}
  /\ events < MaxEvents
  /\ events' = events + 1
  /\ failed' = failed \cup {p}
  /\ Answer(p, 500)
  /\ \/ UNCHANGED tenants
     \/ post[p].step = "insert" /\ tenants' = tenants \cup {post[p].name}

\* An admin changes a user through a replica that serves.
ByApi(u) ==
  /\ AdminAround
  /\ \E r \in Replicas : pc[r] = "serve"
  /\ events < MaxEvents
  /\ events' = events + 1
  /\ touched' = touched \cup {u}
  /\ UNCHANGED <<env, schema, table, applied, recorded, tenants, pc, known, tx, made,
                 post, ans, lost, seeded, failed>>

\* A user made through the API, with any role, gets the seed's username in any tenant
\* where it is free: it is created with it, or renamed to it.
CreateUser(t) ==
  /\ t \in tenants
  /\ Here(t) = {}
  /\ \E a \in BOOLEAN :
       users' = Append(users, [tenant |-> t, state |-> "here", admin |-> a, own |-> TRUE])
  /\ ByApi(Len(users) + 1)

\* A user is deleted, renamed, also back to the seed's username where that is free,
\* promoted, demoted or given another password.
ChangeUser(u) ==
  /\ users[u].state # "deleted"
  /\ \/ \E s \in {"renamed", "deleted"} : users' = [users EXCEPT ![u].state = s]
     \/ Here(users[u].tenant) = {} /\ users' = [users EXCEPT ![u].state = "here"]
     \/ \E a \in BOOLEAN : users' = [users EXCEPT ![u].admin = a]
     \/ users' = [users EXCEPT ![u].own = TRUE]
  /\ ByApi(u)

-----------------------------------------------------------------------------

Continue(r) ==
  \/ Load(r)
  \/ LookSchema(r) \/ CreateSchema(r) \/ LookTable(r) \/ CreateTable(r)
  \/ ReadApplied(r) \/ Apply(r) \/ Record(r) \/ CommitMigration(r)
  \/ Clients(r)
  \/ SeedTenant(r) \/ SeedNewTenant(r) \/ SeedUser(r) \/ SeedNewUser(r)
  \/ SeedReread(r) \/ SeedRoles(r)
  \/ Drain(r) \/ Restart(r)

Serve(p) == SendPost(p) \/ PostLookup(p) \/ PostInsert(p) \/ PostFails(p)

Next ==
  \/ \E r \in Replicas : Continue(r) \/ Stop(r) \/ Fault(r) \/ Resume(r) \/ ReadCutShort(r)
  \/ \E p \in Posts : Serve(p)
  \/ \E t \in Tenants : CreateUser(t)
  \/ \E u \in DOMAIN users : ChangeUser(u)

Spec == Init /\ [][Next]_vars

\* Statements return, PostgreSQL grants a lock that becomes free, and the
\* supervisor starts a process that has exited.
FairSpec == Spec /\ \A r \in Replicas : WF_vars(Continue(r))

-----------------------------------------------------------------------------
(* Properties *)

TypeOK ==
  /\ env \in [Replicas -> Environments]
  /\ schema \in BOOLEAN /\ table \in BOOLEAN
  /\ applied \subseteq Versions /\ recorded \subseteq Versions
  /\ tenants \subseteq Tenants
  /\ users \in Seq(User)
  /\ pc \in [Replicas -> Steps]
  /\ known \in [Replicas -> SUBSET Versions]
  /\ tx \in [Replicas -> [ddl : SUBSET Versions, rec : SUBSET Versions]]
  /\ made \in [Replicas -> Nat]
  /\ \A r \in Replicas : pc[r] \in {"reread", "roles"} => made[r] \in DOMAIN users
  /\ post \in [Posts -> Post \cup {Unsent}]
  /\ ans \in [Posts -> {0, 201, 409, 500}]
  /\ lost \subseteq Nat /\ touched \subseteq Nat
  /\ seeded \subseteq Tenants /\ failed \subseteq Posts
  /\ events \in 0..MaxEvents

\* However many replicas migrate at once and wherever they stop, schema_migrations
\* names exactly the migrations that are in the schema, and those without a gap
\* (db.go:80-96).
SchemaRecorded ==
  /\ applied = recorded
  /\ \A v \in applied : 1..v \subseteq applied

\* No replica seeds or serves before every migration has been committed, whoever
\* committed it (main.go:46).
MigratedBeforeUse ==
  \A r \in Replicas :
    pc[r] \in {"tenant", "newTenant", "user", "newUser", "reread", "roles", "serve", "drain"}
      => applied = Versions

\* While a replica serves, its tenant has an admin, or the user it took for one is
\* about to get the role from the replica that made it, lost that replica between
\* Create and SetRoles (seed.go:41, 46), was changed through the API, or comes from
\* there itself: the seed takes whoever has its username, with any role
\* (seed.go:26-32).
ServingHasAdmin ==
  \A r \in Replicas :
    pc[r] = "serve" =>
      \E u \in DOMAIN users :
        /\ users[u].tenant = env[r].tenant
        /\ \/ users[u].admin /\ users[u].state = "here"
           \/ \E s \in Replicas : pc[s] \in {"reread", "roles"} /\ made[s] = u
           \/ u \in lost \cup touched

\* A request is told that it created a tenant only if it alone did, that there is a
\* conflict only if the tenant exists, and that it failed only if the tenant exists
\* or a statement of its own failed, although seeds and other requests create tenants
\* between its two statements (service/tenant.go:22, 29).
TenantAnswers ==
  \A p \in Posts :
    /\ ans[p] \in {201, 409} => post[p].name \in tenants
    /\ ans[p] = 500 => post[p].name \in tenants \/ p \in failed
    /\ ans[p] = 201 => /\ post[p].name \notin seeded
                       /\ \A q \in Posts \ {p} : ans[q] = 201 => post[q].name # post[p].name

\* No start of any replica sets back the password of an admin who has changed it
\* (seed.go:30).
OwnPasswordKept ==
  [][\A u \in DOMAIN users : users[u].own => users'[u].own]_vars

\* Replicas that can load their environment serve in the end, whatever races they
\* lose and wherever they crash, until they are stopped.
EventuallyServes ==
  \A r \in Replicas :
    Loadable(env[r]) => <>[](pc[r] \in {"serve", "drain", "stopped"})
=============================================================================
