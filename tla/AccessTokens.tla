---------------------------- MODULE AccessTokens ----------------------------
(***************************************************************************)
(* Access tokens: who signs them with which key (internal/token/token.go,  *)
(* called by makePair of internal/service/auth.go), who accepts them       *)
(* (internal/middleware/auth.go and rbac.go), and how the other services   *)
(* learn the key (internal/handler/jwks.go).                               *)
(*                                                                         *)
(* A token cannot be taken back: what it says of its user is as old as the *)
(* read of the row it was made from, and the key it was signed with may    *)
(* have been replaced.  Time passes in ticks.  A key stands for its pair;  *)
(* a signature is valid under the public half of the key that made it and  *)
(* under no other.                                                         *)
(***************************************************************************)
EXTENDS Integers, FiniteSets

CONSTANTS
  Replicas,
  Verifiers,   \* services that check tokens with the key set of korauth
  Users,
  Requests,    \* logins and refreshes served at the same time
  TTLs,        \* values of ACCESS_TOKEN_TTL in ticks: any duration is taken
  Leeway,      \* 30 s
  CacheAge,    \* 3600 s: how long anyone may keep a reply with the key set
  Handling,    \* longest time between the read of a user and the signature
  MaxKeys,     \* bound on the keys the operator makes
  MaxTokens    \* bound on the tokens that are about at the same time

ASSUME LeewayAssumption == Leeway \in Nat
ASSUME CacheAgeAssumption == CacheAge \in Nat
ASSUME HandlingAssumption == Handling \in Nat
ASSUME TTLsAssumption == TTLs \subseteq Int
ASSUME MaxKeysAssumption == MaxKeys \in Nat \ {0}

VARIABLES
  ttl,      \* ACCESS_TOKEN_TTL, the same for all replicas
  isAdmin,  \* the users that are live and have the role admin
  since,    \* history: ticks since a user last was one, as far as it matters
  files,    \* the keys in the two key files
  pair,     \* the keys a replica has loaded, 0 before
  req,      \* the login or refresh each process serves, Idle before and after
  tokens,   \* the tokens that have not long expired
  cache,    \* the key each verifier has, 0 for none
  shared    \* the reply of the JWKS endpoint in an HTTP cache: key, and age

vars == <<ttl, isAdmin, since, files, pair, req, tokens, cache, shared>>

Keys == 1..MaxKeys
Idle == [at |-> "nowhere"]
Request == [at : Replicas, user : Users, admin : BOOLEAN, age : 0..Handling]

\* life: ticks to the time in the claim exp.  kid: the key the header names.
Token == [user : Users, admin : BOOLEAN, key : Keys, kid : Keys, life : Int]

Init ==
  /\ ttl \in TTLs
  /\ isAdmin \in SUBSET Users
  /\ since = [u \in Users |-> 0]
  /\ files = [priv |-> 1, pub |-> 1]
  /\ pair = [r \in Replicas |-> [priv |-> 0, pub |-> 0]]
  /\ req = [p \in Requests |-> Idle]
  /\ tokens = {}
  /\ cache = [v \in Verifiers |-> 0]
  /\ shared = [key |-> 0, age |-> 0]

-----------------------------------------------------------------------------
(* Acceptance *)

\* Variant with a bug: requests are served while the keys are loaded.
ServesEarly(r) == pair[r].priv = 0 \/ pair[r].pub # 0

\* Only a replica that has loaded both keys serves requests.
Serves(r) == pair[r].priv # 0 /\ pair[r].pub # 0

\* Variant with a bug: the leeway shortens the life of a token.
NotExpiredEarly(t) == t.life > Leeway

\* The validator compares the present with exp plus the leeway.
NotExpired(t) == t.life > -Leeway

\* The signature is checked with the one key of the replica, whatever the kid.
Parse(r, t) == t.key = pair[r].pub /\ NotExpired(t)

Auth(r, t) == IF Parse(r, t) THEN 200 ELSE 401

RequireRole(t) == IF t.admin THEN 200 ELSE 403

\* The middleware of a route: Auth, then RequireRole on the routes for admins.
Status(r, t, adminOnly) ==
  IF Auth(r, t) = 200 /\ adminOnly THEN RequireRole(t) ELSE Auth(r, t)

\* The key set of a replica.
JWKS(r) == pair[r].pub

\* A verifier finds the key by the kid, and asks for the key set once if it has not
\* got it.  What it is told may come from a cache on the way.
Known(v, t) == cache[v] = t.kid

Fetched(key) ==
  \/ shared.key # 0 /\ key = shared.key
  \/ shared.key = 0 /\ \E r \in Replicas : Serves(r) /\ key = JWKS(r)

\* The keys that v may have by then for the kid of t.
KeysFor(v, t) == IF Known(v, t) THEN {t.kid} ELSE {key \in Keys : Fetched(key)}

Verifies(key, t) == key = t.kid /\ t.key = key /\ NotExpired(t)

-----------------------------------------------------------------------------
(* Keys *)

\* The operator replaces the two files, one after the other and in any order.
WritePrivate ==
  /\ files.priv < MaxKeys /\ files.priv <= files.pub
  /\ files' = [files EXCEPT !.priv = @ + 1]
  /\ UNCHANGED <<ttl, isAdmin, since, pair, req, tokens, cache, shared>>

WritePublic ==
  /\ files.pub < MaxKeys /\ files.pub <= files.priv
  /\ files' = [files EXCEPT !.pub = @ + 1]
  /\ UNCHANGED <<ttl, isAdmin, since, pair, req, tokens, cache, shared>>

\* A replica stops and starts again: what it was serving is cut off.
Restart(r) ==
  /\ pair[r].priv # 0
  /\ pair' = [pair EXCEPT ![r] = [priv |-> 0, pub |-> 0]]
  /\ req' = [p \in Requests |-> IF req[p].at = r THEN Idle ELSE req[p]]
  /\ UNCHANGED <<ttl, isAdmin, since, files, tokens, cache, shared>>

LoadPrivate(r) ==
  /\ pair[r].priv = 0
  /\ pair' = [pair EXCEPT ![r].priv = files.priv]
  /\ UNCHANGED <<ttl, isAdmin, since, files, req, tokens, cache, shared>>

\* Nothing compares the public key with the private one.
LoadPublic(r) ==
  /\ pair[r].priv # 0 /\ pair[r].pub = 0
  /\ pair' = [pair EXCEPT ![r].pub = files.pub]
  /\ UNCHANGED <<ttl, isAdmin, since, files, req, tokens, cache, shared>>

\* A verifier meets a token with a kid it does not know, or starts.
Fetch(v) ==
  /\ cache[v] = 0 \/ \E t \in tokens : ~Known(v, t)
  /\ \E key \in Keys :
       /\ Fetched(key)
       /\ cache' = [cache EXCEPT ![v] = key]
       /\ shared' = IF shared.key = 0 THEN [key |-> key, age |-> 0] ELSE shared
  /\ UNCHANGED <<ttl, isAdmin, since, files, pair, req, tokens>>

-----------------------------------------------------------------------------
(* Users and tokens *)

\* A role change or a deletion takes effect, or a user gets the role.
ChangeUser(u) ==
  /\ isAdmin' = IF u \in isAdmin THEN isAdmin \ {u} ELSE isAdmin \cup {u}
  /\ since' = [since EXCEPT ![u] = 0]
  /\ UNCHANGED <<ttl, files, pair, req, tokens, cache, shared>>

\* Variant with a bug: a refresh takes the roles of an earlier token.
ReadUserOnce(p) ==
  /\ req[p] = Idle
  /\ \E r \in Replicas, u \in Users :
       /\ Serves(r)
       /\ \E a \in {u \in isAdmin} \cup {t.admin : t \in {t \in tokens : t.user = u}} :
            req' = [req EXCEPT ![p] = [at |-> r, user |-> u, admin |-> a, age |-> 0]]
  /\ UNCHANGED <<ttl, isAdmin, since, files, pair, tokens, cache, shared>>

\* Login and Refresh read the row of the user, with its roles of that moment.
ReadUser(p) ==
  /\ req[p] = Idle
  /\ \E r \in Replicas, u \in Users :
       /\ Serves(r)
       /\ req' = [req EXCEPT ![p] =
                   [at |-> r, user |-> u, admin |-> u \in isAdmin, age |-> 0]]
  /\ UNCHANGED <<ttl, isAdmin, since, files, pair, tokens, cache, shared>>

\* exp counts from the signature, not from the read.
Generate(r, user, admin) ==
  [user |-> user, admin |-> admin, key |-> pair[r].priv, kid |-> pair[r].pub, life |-> ttl]

MakePair(p) ==
  LET q == req[p] IN
  /\ q # Idle
  /\ Cardinality(tokens) < MaxTokens
  /\ tokens' = tokens \cup {Generate(q.at, q.user, q.admin)}
  /\ req' = [req EXCEPT ![p] = Idle]
  /\ UNCHANGED <<ttl, isAdmin, since, files, pair, cache, shared>>

\* The request fails before its token is sent.
Fail(p) ==
  /\ req[p] # Idle
  /\ req' = [req EXCEPT ![p] = Idle]
  /\ UNCHANGED <<ttl, isAdmin, since, files, pair, tokens, cache, shared>>

-----------------------------------------------------------------------------
(* Time *)

\* What matters of since: a longer time than any token may attest.
Horizon == Handling + (IF ttl > 0 THEN ttl ELSE 0) + Leeway

Later(u) ==
  IF u \in isAdmin \/ since[u] = Horizon THEN since[u] ELSE since[u] + 1

Aged(t) == [t EXCEPT !.life = @ - 1]

\* Tokens are kept one tick longer than anybody should accept them.
Lasting(t) == t.life >= -Leeway

\* Variant with a bug: a reply with the key set may be kept for ever.
SharedKept == shared

SharedAged ==
  IF shared.key # 0 /\ shared.age < CacheAge THEN [shared EXCEPT !.age = @ + 1]
  ELSE [key |-> 0, age |-> 0]

Tick ==
  /\ \A p \in Requests : req[p] # Idle => req[p].age < Handling
  /\ since' = [u \in Users |-> Later(u)]
  /\ req' = [p \in Requests |-> IF req[p] = Idle THEN Idle ELSE [req[p] EXCEPT !.age = @ + 1]]
  /\ tokens' = {t \in {Aged(t) : t \in tokens} : Lasting(t)}
  /\ shared' = SharedAged
  /\ UNCHANGED <<ttl, isAdmin, files, pair, cache>>

Next ==
  \/ WritePrivate \/ WritePublic \/ Tick
  \/ \E r \in Replicas : Restart(r) \/ LoadPrivate(r) \/ LoadPublic(r)
  \/ \E v \in Verifiers : Fetch(v)
  \/ \E u \in Users : ChangeUser(u)
  \/ \E p \in Requests : ReadUser(p) \/ MakePair(p) \/ Fail(p)

Spec == Init /\ [][Next]_vars

\* Time passes, and no request takes for ever.
FairSpec ==
  /\ Spec
  /\ WF_vars(Tick)
  /\ \A p \in Requests : WF_vars(MakePair(p) \/ Fail(p))

-----------------------------------------------------------------------------
(* Properties *)

TypeOK ==
  /\ ttl \in TTLs
  /\ isAdmin \subseteq Users
  /\ since \in [Users -> 0..Horizon]
  /\ files \in [priv : Keys, pub : Keys]
  /\ pair \in [Replicas -> [priv : Keys \cup {0}, pub : Keys \cup {0}]]
  /\ req \in [Requests -> Request \cup {Idle}]
  /\ \A p \in Requests : req[p] # Idle => Serves(req[p].at)
  /\ tokens \subseteq Token
  /\ cache \in [Verifiers -> Keys \cup {0}]
  /\ shared \in [key : Keys \cup {0}, age : 0..CacheAge]

\* Whoever acts as an admin was one less than the life of a token, the leeway and
\* the time a login takes ago: a demotion or deletion takes effect by then, however
\* the token was come by and whoever checks it (middleware/auth.go:27,
\* token.go:78, 96; service/auth.go:108 reads the roles again).
StaleAuthorityBounded ==
  \A t \in tokens :
    since[t.user] >= Handling + ttl + Leeway =>
      /\ \A r \in Replicas : Serves(r) => Status(r, t, TRUE) # 200
      /\ \A v \in Verifiers : \A key \in KeysFor(v, t) : ~(t.admin /\ Verifies(key, t))

\* As long as the key files stay as they are, every replica accepts the tokens of
\* every other until they expire, across restarts (token.go:93).
UnexpiredAccepted ==
  files = [priv |-> 1, pub |-> 1] =>
    \A t \in tokens, r \in Replicas :
      Serves(r) /\ t.life > 0 => Status(r, t, FALSE) = 200

Settled == files.priv = files.pub /\ \A r \in Replicas : pair[r] = files

\* No service turns away a token that has not expired.
AllAccept ==
  \A t \in tokens :
    t.life > 0 => /\ \A r \in Replicas : Status(r, t, FALSE) = 200
                  /\ \A v \in Verifiers : \A key \in KeysFor(v, t) : Verifies(key, t)

\* Replacing the keys turns tokens away for a time: those signed before, those of a
\* replica that has not restarted, or has loaded halves that do not match, and new
\* ones at a verifier behind a cache (token.go:48, 66; handler/jwks.go:20).  Once
\* every replica has loaded the new pair that ends, and without any other step.
RotationSettles == <>[]Settled => <>[]AllAccept
=============================================================================
