# A verification development for korauth

korauth is the authentication service of OpenKor: it checks passwords, hands out
RS256 access tokens and opaque refresh tokens, and keeps users, roles and tenants.
This directory holds TLA+ models of it, the TLC runs that check them on small
instances, and TLAPS proofs for every size. Source paths below are relative to
`src/internal/` unless they say otherwise.

## 1. Inventory

All state is in PostgreSQL and Redis. A replica keeps only its configuration and its
key pair, so several replicas serve requests against the same stores, and the requests
of one replica and of several interleave in the same way: at every call to a store.

| Part | State | Operations | Correct when |
| --- | --- | --- | --- |
| Refresh tokens (`service/auth.go`, `handler/auth.go`) | Redis `refresh:<jti>` and `user_tokens:<id>` | Login, Refresh, Logout, makePair, RevokeAllForUser | a token that was exchanged, logged out or revoked is dead for good; the set of a user lets a revocation find every token |
| Brute-force counter (`service/auth.go`) | Redis `brute:<tenant>:<username>` | check, INCR, EXPIRE, DEL | failures lock the account, and the lock opens |
| Users (`service/user.go`, `store/user.go`) | `auth.users`, `auth.user_roles` | Create, Update, Delete, AssignRoles, List | one live row for a name, requests that fail change nothing, an admin remains |
| Tenants, roles (`service/tenant.go`, `service/role.go`) | `auth.tenants`, `auth.roles` | Create, List, IsValid | one row for a name, conflicts are reported as conflicts |
| Start (`cmd/korauth/main.go`, `db/db.go`, `seed/seed.go`) | `auth.schema_migrations`, seed rows | Migrate, Run | every replica gets through, each migration is applied once, an admin exists |
| Access tokens (`token/token.go`, `middleware/`, `handler/jwks.go`) | the key pair | Generate, Parse, RequireRole, JWKS | a role counts only while a token that carries it is valid |
| Passwords (`password/password.go`) | none | Hash, Verify, Validate | the policy is what the documents say |
| Command line tool (`cmd/korauth-cli`) | `auth.users` | reset-admin-password | works next to running replicas |

How they interact: `AuthService` reads users through `UserStore` and signs with
`token.Service`; `UserService.Delete` calls `AuthService.RevokeAllForUser` after its own
commit; the middleware trusts the roles in the access token and never asks a store.

What makes the behaviour hard:

* no lock or transaction spans two calls to Redis, nor Redis and PostgreSQL;
* several results of Redis calls are dropped (`auth.go` 76, 96, 97, 132, 146, 192, 194);
* keys expire between any two calls, each with a life of its own;
* the Redis client sends a call again when its reply is lost, on its own and up to three
  times;
* the context of a request is cancelled when its client goes away, at any point;
* a replica can stop at any point, and nothing repairs what is half done.

`PROJECT.json` lists each hazard at its line, with the properties that cover it.

## 2. Plan

| Module | Part | Abstract specification | Proofs |
| --- | --- | --- | --- |
| `Sessions` | refresh tokens, deletion of users | `TokenContract`: a token is unborn, live or dead, and once a client holds it never comes back | `SessionsProofs`, `RevocationProofs` |
| `Lockout` | brute-force counter | | `LockoutProofs` |
| `Users` | requests about users, roles, the reset command | `Stored`: what an accepted request promises of the tables | `UsersProofs`, `UserChangesProofs` |
| `Startup` | migrations, seed, tenants, crash and restart of replicas | | `StartupProofs` |
| `AccessTokens` | signing, acceptance and key set | | `AccessTokensProofs` |

An `MC` module gives the constants of each of them a small instance (`Lockout` needs
none). The models share the tables but no state: each keeps what its properties tell
apart and takes the effect of the others as a step of its environment. `ChangeRoles` in
`Sessions`, `ChangeUser` in `AccessTokens`, and `CreateUser` and `ChangeUser` in
`Startup` are the commits that `Users` shows statement by statement; `Revoked` in `Users`
is what `Sessions` shows of `RevokeAllForUser`; `Clients` in `Startup` is what
`AccessTokens` shows of the key files.

What is left: a composition of `Sessions` with `AccessTokens` for the whole life of a
session of a deleted user (`DeletedUserOnlyLosesSessions` bounds the one half and
`StaleAuthorityBounded` the other), and a refinement of `Users` by requests that are
atomic where no two of them meet.

## 3. The models

### Sessions

The processes are request slots `Reqs`; `req[r]` holds the step a request is at and the
local variables of its Go function. Every call to a store is one action, and an action
takes with it the Go code up to the next call.

| Actions | Code |
| --- | --- |
| `StartLogin`, `LoginLookup`, `LoginReject` | `Login`, from the lookup on (`auth.go` 58-77) |
| `StartRefresh`, `RefreshGet`, `RefreshDel`, `RefreshSRem`, `RefreshReread`, `RefreshReject` | `Refresh` (80-118) |
| `PipeSet`, `PipeSAdd`, `PipeExpire`, `Grant` | `makePair` (151-189): the pipeline is one round trip but no MULTI, so each command is an action |
| `StartLogout`, `LogoutGet`, `LogoutSRem`, `LogoutDel` | `Logout` (120-136) and its 204 |
| `StartDelete`, `SoftDelete`, `SMembers`, `RevokeDel`, `DropSet` | `UserService.Delete` and `RevokeAllForUser` (139-149) and its 204 |
| `ChangeRoles` | the commit of `UserStore.SetRoles` |
| `Tick` | time: every Redis key loses one tick of life |
| `SkipCall` | a call whose error is dropped fails and the request goes on |
| `Resend` | the reply of a call is lost and the Redis client sends the call again (`MaxRetries`) |
| `Abort` | a checked call fails, the client goes away, the replica stops |

State: `users` (PostgreSQL), `refresh`, `index` and `idxTTL` (Redis). A Redis key without
expiry has life 0. `TTL` is the lifetime in ticks, of which `Second` make a second: SET
takes milliseconds (PX) for a lifetime with a fraction, but EXPIRE whole seconds, so the
life of the set is `SetLife` and it can end before its token by `CutOff` (a lifetime
below a second is a whole one for EXPIRE). `TTL` may be 0 too, as the configuration takes
`REFRESH_TOKEN_TTL=0s` (or a negative value, which go-redis treats the same way): the SET
then has no expiry and the EXPIRE deletes the set, whose members count as `lost`.
`owner`, `issued`, `spent`, `loggedOut`, `revoked`, `late` and `lost` are history: what
clients have been answered. No action reads `issued` except to let a client present only
tokens it was given, and none reads the others except `owner`, which keeps `Fresh` from
drawing a token twice.

Abstractions: access tokens are signed locally and leave no state, so a pair is its
refresh token and the roles it carries; a password is right or wrong as the client
chooses; tenants are part of the user. A call that is sent once is executed by Redis
between its sending and its return, or not at all; a call that the client sends again is
executed again. The pipeline of `makePair` goes again as a whole, whatever of it has been
executed, so its SET can run after a revocation's DEL (`ResendPair`); a revocation can
repeat a DEL (`ResendDel`, `ResendDropSet`). The GETs and SMEMBERS change nothing when
they are repeated, so the reply that counts is one of a single call; the DEL and SREM of
a refresh or a logout concern a token whose pipeline is over, so that repeating them does
what the last of them does. A call that timed out, is not sent again and is executed
later is not modelled. `Logout` needs a valid access token, which is left out: more
clients can log out in the model than in the program.

### TokenContract

What `Sessions` is for, without requests, index or stores: `Mint`, `Give`, `End` and
`Close` of tokens that go from unborn to live to dead. The refinement mapping is in
`Sessions` (`Contract`): a token is unborn while it has no owner, live while its key is
in Redis, and dead otherwise; `given` is `issued` and `closed` is `loggedOut`. Steps of
the index and of the lookups are stutters, `PipeSet` mints (again when its pipeline is
sent again, and only before `Grant`), `Grant` gives, `LogoutGet`
(on a missing key) and `LogoutDel` close, and `RefreshDel`, `RevokeDel` and `Tick` end
tokens. `EveryTokenEnds` is the contract's liveness, stated as a leads-to because TLC
cannot evaluate `ENABLED` through a mapping to an expression.

### Lockout

`count` and `life` are the counter of each (tenant, username) and its remaining life.
`Check` is the GET and its comparison, `Verify` the lookup and the password, `Clear`
the DEL, `Incr` and `Expire` are `incBrute`. `SkipCall` is a dropped error (a failed INCR
may or may not have been executed), `RetriedIncr` an INCR that the Redis client sends
again because the reply was lost.

### Users

The processes are the requests of `handler/user.go` and runs of the reset command, each
served once: `pc[r]` is the statement a process sends next, `arg[r]` its parsed request,
`target[r]` the user it works on, `ans[r]` the status it answered and `wrote[r]` the
history of what it committed. `rows` is `auth.users` with `auth.user_roles`, of one
tenant; a user's id is its place in the order of creation. Every statement is an action.

| Actions | Code |
| --- | --- |
| `StartCreate`, `InsertUser`, `ReadCreated` | `UserHandler.Create`, `UserService.Create` (25-49), `UserStore.Create` (82-92) |
| `StartAssign`, `BeginRoles`, `ClearRoles`, `LinkRole`, `CommitRoles` | `AssignRoles` (119-145), `UserStore.SetRoles` (172-192), also the second half of `Create` |
| `DeadlockVictim` | PostgreSQL ends a transaction in a cycle of waits |
| `StartUpdate`, `UpdateProfile`, `UpdatePassword` | `UserService.Update` (81-105) |
| `StartReset`, `ResetLookup`, `UpdatePassword` | `cmd/korauth-cli/main.go` (36-105) |
| `StartById`, `SoftDelete`, `Revoked`, `Reread` | `Delete` (107-117), `GetByID` (58-67) |
| `StartList`, `CountUsers`, `PageUsers` | `UserStore.List` (95-135), `paginationQuery` |
| `Abort` | a statement fails, the client goes away, the replica stops |

A role transaction `tx[r]` has the rows its DELETE has found (`seen`), has deleted (`del`)
and has inserted (`ins`). At READ COMMITTED the DELETE takes its snapshot when it
starts, waits for the transactions that have deleted one of those rows, and then removes
the ones that are still there; an INSERT waits for a transaction that has deleted or
inserted the same key, and fails if the key is there afterwards. That is what `Blockers`,
`ClearRoles` and `LinkRole` say. What the DELETE has seen are row versions, not names: a
row that a commit has deleted is gone for the transactions that saw it, also when a row
with the same role has been inserted since. `Close`, which is part of every commit, takes
such rows out of their `seen`. Checks that read one constant table (`IsValid`) are part
of the action that starts the request, as nothing can change in between.

Integers: `store/user.go:96` multiplies the page number, which has no limit, in an `int`.
`Half` is half of what an `int` can hold (2^63), `Wrap` the product that wraps, and
`Offset` what is sent; PostgreSQL refuses a negative OFFSET, and the client is told 500.

Abstractions: names, addresses and passwords are members of small sets; a password is
its length in characters, its length in bytes and the classes in it, so `Validate` and
`CreateBinds` are the comparisons of the code; hashes are the passwords; first and last
names and `force_password_change` (stored, never read) are left out; a client names ids
that exist, or one that does not, or not yet.

### Startup

The processes are replicas, whose `pc[r]` is the next step of `main`, and requests to
create a tenant, served by a replica that listens. The tables are `schema`, `table`
(`auth.schema_migrations`), `applied` (what the committed statements of migrations made),
`recorded` (the rows), `tenants`, and `users`: everybody who has had the seed's username,
made by a seed or through the API, as that is who `GetByUsernameAndTenant` finds.

| Actions | Code |
| --- | --- |
| `Load` | `config.Load`, `db.New` (`main.go` 28-43) |
| `LookSchema`, `CreateSchema`, `LookTable`, `CreateTable`, `ReadApplied`, `ReadCutShort`, `Apply`, `Record`, `CommitMigration` | `db.Migrate` (`db.go` 29-97): `IF NOT EXISTS` is a look and a creation; `rows.Err()` is not looked at, so a read may be cut short |
| `Clients` | Redis and the key files (`main.go` 52-66) |
| `SeedTenant`, `SeedNewTenant`, `SeedUser`, `SeedNewUser`, `SeedReread`, `SeedRoles` | `seed.Run` |
| `Stop`, `Drain` | SIGTERM before and after the server listens (`main.go` 126-136) |
| `Fault`, `Restart`, `Resume` | a failure ends the process; the supervisor starts it again (`systemd/korauth.service`, `docker-compose.yml`), and an operator one that was stopped |
| `SendPost`, `PostLookup`, `PostInsert`, `PostFails` | `TenantHandler.Create`, `TenantService.Create`; a statement that fails is a 500, and the replica serves on |
| `CreateUser`, `ChangeUser` | an admin creates a user with the seed's username in any tenant, or changes a user, through a replica that serves (`handler/user.go` 73-185) |

An admin is whoever holds a token with that role (`AdminAround`): a user who has it, or
one from whom the API took it. `Fault` is a failure of the start or a crash; the failure
of a request's statement is `PostFails`. `lost`, `touched`, `seeded` and `failed` are
history. Statements of an open migration are visible to others only as locks (`Held`): a
second replica that runs the same migration waits, and fails once the first has
committed. Environments stand for replicas of one deployment, of two deployments that
share a database, and for incomplete ones.

### AccessTokens

A key is a number that stands for its pair; `files` are the keys in the two files,
`pair[r]` the halves a replica has loaded, `tokens` the signed tokens with what they say
of their user, the key that signed them, the kid they name and the ticks to their `exp`.
`req[p]` is a login or refresh between the read of the row and the signature, `cache[v]`
the key a verifier has and `shared` the reply of the JWKS endpoint in an HTTP cache.

| Actions | Code |
| --- | --- |
| `ReadUser`, `MakePair`, `Fail` | the lookup of `Login` and `Refresh` (`auth.go` 58, 108), `Generate` in `makePair` (151-160) |
| `LoadPrivate`, `LoadPublic`, `Restart` | `token.NewService` (47-69) |
| `WritePrivate`, `WritePublic` | the operator replaces one file, then the other, in either order |
| `Fetch` | a verifier asks for the key set (`docs/TOKEN.md`, section 5); a cache may answer (`jwks.go` 20) |
| `ChangeUser` | a role change or a deletion commits |
| `Tick` | time |

`Status` is what the middleware answers (`middleware/auth.go`, `rbac.go`): the signature
under the one key of the replica, the expiry with its leeway, and the role.
`Verifies` is the same for another service, from the documentation of its side.
`since[u]` is history: how long a user has not been an admin.

## 4. The runs

| Run | Instance | Shows |
| --- | --- | --- |
| `sessions_faults` | 1 user, 2 requests at once, 3 tokens, a life of 3 ticks that are a second and a half, one failure of any kind (dropped error, abort, call sent again) | `LogoutIsFinal`, `SpentTokenIsDead`, `IssuedTokenIsIndexed`, `IndexOutlivesTokens`, `DeleteRevokesEarlierTokens`, `IndexHasExpiry`, `OnlyHolderEndsSession` |
| `sessions_users` | 2 users, 2 requests, 2 tokens, 2 role sets, no expiry (life 0), one failure of any kind | `FreshGrant`, `IndexHoldsOwnTokens`, `OnlyHolderEndsSession`, `DeletedUserOnlyLosesSessions`, `ImplementsContract` |
| `sessions_drain` | 1 user, 2 requests, 2 tokens, one failure of any kind, fair | `EveryTokenEnds` |
| `lockout_counter` | 3 logins at once, limit 5 as in the code, window 2, one failure of each kind, fair | `OvershootBound`, `CounterWillExpire`, `LockOpens` |
| `users_requests` | any 2 of all requests and command runs about 2 admins and the users they create, 3 roles, lists of both orders of two of them and of the third alone, pages 0, 2 and 7 with ints of 4 bits (`Half` = 8), one abort, fair | `LiveNamesUnique`, `AcceptedIsStored`, `RefusedRequestsWriteNothing`, `RolelessOnlyAfterFailure`, `RolesFromCommits`, `AdminRoleTakenByAnother`, `ListCountsAgree`, `DeletedRowsFrozen`, `EveryRequestAnswered` |
| `startup_replicas` | 2 replicas of 1 or 2 deployments on an empty database, 2 migrations, 2 requests for one tenant, 2 events (crash, stop, failing statement, a user created or changed), fair | `SchemaRecorded`, `MigratedBeforeUse`, `ServingHasAdmin`, `TenantAnswers`, `OwnPasswordKept`, `EventuallyServes` |
| `access_tokens` | 2 replicas, 1 verifier behind a cache, 1 user, 2 keys, a life of 2 ticks or none, leeway 1, fair | `StaleAuthorityBounded`, `UnexpiredAccepted`, `RotationSettles` |
| `sessions_single_use` | 2 refreshes | **violated**: two refreshes of one token both succeed |
| `sessions_rotation` | 1 request, one dropped error | **violated**: the presented token survives its exchange |
| `sessions_cleanup` | a login and a deletion | **violated**: a token appears after the revocation |
| `lockout_stuck` | 1 login at a time, one abort | **violated**: a lock that never opens |
| `lockout_window` | 1 login at a time | **violated**: a lock shorter than 15 minutes |

The last five check sentences of `api/openapi.yaml` and `docs/TOKEN.md`; `PROJECT.json`
quotes them under `findings`.

Why the bounds are enough to be of use: every race in this code is between two requests
that share a token or a user, so two slots meet all of them, while a slot that returns to
idle can serve any later request. Three tokens are a token, its successor, and either a
concurrent session or the successor's successor. With a life of two or three ticks a key
can be new, old, or gone, and a set and its member can differ in age; with three ticks of
half a second the set's expiry is shorter than the token's. `TokenLeft` starts a request
that may mint a token only while one is left, so the bound on tokens never leaves a
request stuck half-way. What `sessions_users` checks is about users and rows, so that run
is the one whose tokens do not expire. `TokenContract` says little of stores and much of
requests, so its run is the smaller one too. `MaxFaults` bounds dropped errors, aborts
and repeated calls together: one of them is the smallest number that matters, and the
proofs remove the bound. Users, requests, tokens and role sets are interchangeable, so
the safety runs use their symmetry; the liveness runs do not. In `Lockout` the count
would pass the limit by at most the logins served at once, so three of them show the
overshoot; the violation runs use a limit of 2 to keep the traces short, and nothing in
them depends on it.

In `Users` an overlap is of two requests about one user: the two processes meet every
pair of operations at every statement, and one of them may be the creation of the user
the other is about. Two roles, in lists of both orders and of one or two names, are what
a deadlock, a conflict of keys and a union need, and the third is one that neither of two
overlapping lists holds. Three requests overlap no further unless one waits for two
others; the invariants are proved for any number of them (section 5). With ints of 4 bits
and pages of 2 or 3 users, page 7 begins at 12 or 18, which wrap to -4 and 2: the one is
refused and the other a page that is not the one asked for. In `Startup` two
replicas meet in every step, two migrations are a first one and one that needs it, and
two events let a crash follow a crash. In `AccessTokens` the life, the leeway, the age of
the cache and the longest handling are the smallest that are all different from zero and
leave room for "just before" and "just after".

Deadlock is checked in the runs of `Sessions`, `Lockout` and `AccessTokens`, where an
idle slot or time can always go on. In `Users` every request is served once, and in
`Startup` every replica may end up serving with nothing left to ask for, so there the
models stop by themselves (`CHECK_DEADLOCK FALSE`); `EveryRequestAnswered` and
`EventuallyServes` are what rules out a real deadlock.

Fairness, in `FairSpec` only: a handler that has begun goes on (`WF` of `Continue`), as
every store call returns or fails within the client's timeouts, and time passes (`WF` of
`Tick`). No fairness is assumed of clients, dropped errors or aborts. In `Users` the same
holds of statements, and of locks: PostgreSQL wakes a waiting transaction when the lock
is free and ends one of a cycle, so a statement that stays possible is executed. In
`Startup` the supervisor restarts a process that has exited by an error (`Restart` is
part of `Continue`), and nobody is bound to start a stopped one. In `AccessTokens` no
fairness is assumed of operators or verifiers, so `RotationSettles` has the condition
that every replica has the new pair in the end.

Each property of a passing run has a mutant: the definitions marked "variant with a bug"
stand next to the action they change, and with one of them in place the run fails.

## 5. The proofs

Assumptions: the life of a refresh token and the bounds on failures are natural numbers,
a second has a positive number of ticks, the range of an int, the window and the limit of
`Lockout` are positive, `None` is no user, token, role set or payload, and in `Lockout`
the set of requests is finite. Users, requests, tokens and role sets are otherwise
arbitrary, also infinite in `Sessions`. In `Users` ids are numbers, role lists are
sequences of names, and the tables at the start have unique names, a role for everybody
and the role admin for the callers of role changes; in `Startup` the tenants of requests
and environments are tenants; in `AccessTokens` lifetimes are integers, and leeway, cache
age and handling natural numbers. Requests, replicas, verifiers, names and keys are
arbitrary in number.

* `TypeOKCorrect`. `TypeOK` alone is not inductive: that a step reads a user or a token
  needs `Locals`, what the local variables hold at each step.
* `MintedCorrect`. From its draw to its delivery a token is known to one request only,
  and a client holds only stored tokens. Everything below rests on it: it is why the SET
  of one request cannot bring back the token of another, and, with the fact that a
  pipeline is over when its token is given, why sending it again cannot either.
* `LogoutIsFinalCorrect` and `SpentTokenIsDeadCorrect`. The only action that makes a key
  appear is `PipeSet`, for a token that no client holds (`KeysAppear`), also when it is
  sent again. `Rotated` carries
  a refreshed token's death from its DEL to the answer.
* `IndexHoldsOwnTokensCorrect`, strengthened by `TodoOwned`: what a revocation has
  fetched is its user's as well.
* `IndexOutlivesTokensCorrect`. The invariant is false while a token is between SADD and
  EXPIRE, so it is stated for `Held` tokens: those a client has or is about to receive.
  It bounds by `CutOff` how much earlier the set ends, for any lifetime and fraction, and
  a token whose pipeline is sent again counts only once that has run to its end.
* `IndexHasExpiryCorrect` is inductive by itself, once the steps that can follow each
  label are known (`LabelAfter`, `SelfAfter`, `Leaving`, `Arriving`).
* `OnlyHolderEndsSessionCorrect`. Four actions remove keys; that `RevokeDel` is not one
  of them for a live user needs `DeletionsAreReal`: a request revokes only for a user it
  has deleted itself, no two revoke for the same one, and no deletion is taken back.
* `IssuedTokenIsIndexedCorrect` and `DeleteRevokesEarlierTokensCorrect` are two views of
  `Tracked`: while nothing has failed, a live token that counts (received, or about to be,
  from a live user) is where the deletion of its user will look. Before the SMEMBERS that
  is the set, afterwards what the loop has left to do; the two exceptions, a set that
  expired and a logout between SREM and DEL, are part of it (`Findable`). Tokens that
  a client received after the deletion (`late`) do not count.
* `DeletedUserOnlyLosesSessionsCorrect`. A key appears by a `PipeSet`, and a request is at
  its SET only after a read of a live user or because the pipeline is sent again
  (`PairFollowsRead`), which the sessions under way count.
* `FreshGrantCorrect`, strengthened by `Current`: until a request has read its user, the
  rows it has seen include the present one, whoever changes it.
* `ImplementsContractCorrect`. Each step maps to one of the contract or a stutter: a
  token is unborn in the contract exactly while it has no owner (`LivePhase`, from
  `Owned`), and `KeysAppear` leaves only `PipeSet` to make one live: an unborn one, or
  a dead one of the same holder that no client has.
* `OvershootBoundCorrect`. The inductive form counts the logins that passed the check
  and have not counted their failure: `count[k]` plus their number stays within the
  bound, because a login only joins them when it found the counter below the limit.
* `CounterWillExpireCorrect` is inductive by itself.
* `Users`. `TypeInv` is `TypeOK` with `Task`: what request, user and transaction a process
  has at each statement, in particular that a role transaction has inserted exactly the
  names before its place in the list, and that it inserts only for a user that exists.
  `ValidLists` is where `IsValid` matters: a count that equals the length leaves no
  unknown name. `TableStep` says what any step can do to the tables, and each invariant
  follows from it: `LiveNamesUnique` directly, as an INSERT or UPDATE only goes through
  when the index is free; `DeletedRowsFrozen` because only `SetRoles` writes to a row
  that is not live; `RolelessOnlyAfterFailure` from `Roleless`, which names the creation
  that every user without roles belongs to, because a commit always leaves the roles of
  a list that is not empty; `RefusedRequestsWriteNothing` from `Clean`, what a
  request can have committed at each statement; `AdminRoleTakenByAnother` from
  `AdminsKept`, because the check of the caller's own role still holds at the commit of
  its transaction whatever has happened to its row in between.
* `AcceptedIsStoredCorrect` (`UserChangesProofs`). `ProgressInv` says of each request what
  it has found and done when it comes to a statement, as long as nobody else works on its
  user. That a request can have been disturbed before and be undisturbed now is ruled
  out, as a request that has its user never changes it (`Unplaced`, `ProgressOthers`).
* `RolesFromCommitsCorrect`. The invariant has to describe every overlap of any number of
  role transactions. `LocksInv`: rows a DELETE has taken are still there, and no two
  transactions hold a row or a key in common. `Whole`: the roles are the lists of some
  committed changes, which share no role, and what each open DELETE has seen is some of
  these lists, whole. Then a commit takes whole lists away (`ListsLess`) and adds one that
  is disjoint from the rest (`WholeCommit`), as the INSERTs went through. The attempt to
  prove this first failed, and with a third role TLC had a counterexample: the model let a
  DELETE take a row that somebody else had inserted after its snapshot, because a row with
  the same role had been there before. PostgreSQL does not, and `Close` now says so.
* `ListCountsAgreeCorrect`. While a listing is between its two queries, the live users
  differ from its total by at most the other requests that have created or deleted one
  (`ListInv`); each such request does so once, and `CutNear` carries the bound from lists
  to their pages. `Writing` is finite in every state even if the requests are not. For a
  page that begins within an int the offset is what it should be (`OffsetWraps`); for the
  others only the order of a page's users is claimed.
* `Startup`. `SchemaRecorded` and `MigratedBeforeUse` follow from `Migrated`: an open
  transaction has run a migration nobody has committed, no two have run the same, and
  what a replica knows is recorded. `ServingHasAdmin` follows from `Admins`, which says
  of every user who has had the seed's username whether it is admin, about to be, lost,
  or made or changed through the API, and `TenantAnswers` from `Answered`, by which a 500
  comes from a tenant that is there or from a statement that has failed.
  `OwnPasswordKept` needs only what steps do to a row.
* `AccessTokens`. `StaleAuthorityBounded` follows from `Attested`: the ticks a token or a
  request in progress has left bound the time since its user was an admin.
  `UnexpiredAccepted` follows from `OneKey`: until the files change, every pair loaded
  and every token signed is of the first key.

Every safety property of a passing run is a theorem. Only model-checked is liveness
(`EveryTokenEnds`, `LockOpens`, `EveryRequestAnswered`,
`EventuallyServes`, `RotationSettles`), which is out of the prover's reach; those of
`Sessions` need a positive `TTL`, as a token that never expires has to be ended by
somebody.

## 6. Where the documents and the code differ

The five violation runs of section 4 show a sentence of the documents refuted. The
models also carry these differences, which need no run to be seen:

* `api/openapi.yaml:634` promises 409 for a username that exists. `UserStore.Create` wraps
  the error (`store/user.go:90`) and `isPgUniqueViolation` looks at the outermost one
  (`service/user.go:148`), so the answer is 500 (`CreateConflict`); `Update` does answer
  409. Of two creations of one tenant that overlap, the loser is told 500 as well
  (`PostInsert`).
* `docs/TOKEN.md` 4 and 4.1 describe a key set with the old and the new key. `jwkSet` has
  one key (`token.go:66`): tokens signed before a change are rejected from the restart of
  a replica on, and `RotationSettles` is what remains true. The two key files are never
  compared.
* `docs/TOKEN.md` 2.2 calls an empty list of roles invalid. `Generate` signs one for a user
  whose creation stopped between its two transactions (`RolelessOnlyAfterFailure`).
* A creation that meets the deletion of its user answers 500 or 201 with `null`
  (`ReadCreated`, `Reread`).
* `docs/TOKEN.md:180` asks for 8 characters; `Validate` counts bytes. The binding of
  `POST /users` counts characters, that of the update does not look at the length.
* The comment at `seed.go:40` says the seeded password must be changed at the first login.
  `force_password_change` is stored and read by nobody, and the seed does not call
  `Validate`. A seed that stops between `Create` and `SetRoles` leaves an admin
  without the role for good (`lost` in `Startup`).
* The seed takes any live user with its username for the admin it should make
  (`seed.go:26-32`). A viewer of that name, made through another deployment's API in the
  tenant before a replica seeds it, leaves the tenant without an admin (`CreateUser` and
  the exception of `ServingHasAdmin`).
* Page numbers have no limit and their product with the page length wraps
  (`store/user.go:96`, `store/tenant.go:66`): a page far past the end is answered with an
  earlier one, or with 500 when the offset is negative (`Offset`, `PageUsers`).
* A refresh token's lifetime may have a fraction of a second (`config.go:66`), which SET
  keeps and EXPIRE cuts off (`auth.go:176-178`): the set may expire up to a second before
  a token in it, and a deletion in that second does not find the token (`CutOff`).
* A revoked token that no client has received yet comes back when the pipeline of its
  login or refresh is sent again (`ResendPair`); it cannot be exchanged, as its user is
  deleted, and expires.
* `reset-admin-password` looks for the username "admin" (`korauth-cli/main.go:80`), also
  when `SEED_ADMIN_USERNAME` is another one (`ResetLookup`).

## 7. Not modelled

Signatures, Argon2 and random numbers (a fresh token is one nobody has), JSON, logging,
request ids, the documentation pages and health check, first and last names, the list
of roles and single reads of tenants, which change nothing, and deployment files but for
their restart policy.
