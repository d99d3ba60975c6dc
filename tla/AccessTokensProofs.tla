------------------------- MODULE AccessTokensProofs -------------------------
(***************************************************************************)
(* Proofs about AccessTokens, for any lifetimes, leeway, number of users,  *)
(* replicas, verifiers, requests and keys.                                 *)
(***************************************************************************)
EXTENDS AccessTokens, TLAPS

\* The horizon is a number, whatever the lifetime.
LEMMA HorizonType == ttl \in TTLs => Horizon \in Nat /\ ttl \in Int
  BY LeewayAssumption, HandlingAssumption, TTLsAssumption DEF Horizon

\* The type invariant is inductive.
LEMMA TypeStays == TypeOK /\ [Next]_vars => TypeOK'
<1> SUFFICES ASSUME TypeOK, [Next]_vars PROVE TypeOK'
  OBVIOUS
<1> USE LeewayAssumption, HandlingAssumption, TTLsAssumption, CacheAgeAssumption, MaxKeysAssumption
<1>h. ttl \in Int /\ Horizon \in Nat /\ (ttl' = ttl => Horizon' = Horizon)
  BY HorizonType DEF TypeOK, Horizon
<1>1. CASE WritePrivate \/ WritePublic
  BY <1>1, <1>h DEF WritePrivate, WritePublic, TypeOK, Keys, Serves
<1>2. CASE Tick
  <2>1. since' \in [Users -> 0..Horizon]
    <3>1. \A u \in Users : since[u] \in 0..Horizon
      BY DEF TypeOK
    <3>2. \A u \in Users : Later(u) \in 0..Horizon
      BY <3>1, <1>h DEF Later
    <3> QED
      BY <1>2, <3>2 DEF Tick
  <2>2. req' \in [Requests -> Request \cup {Idle}]
    BY <1>2 DEF Tick, TypeOK, Request
  <2>3. \A p \in Requests : req'[p] # Idle => req[p] # Idle /\ req'[p].at = req[p].at
    BY <1>2 DEF Tick, TypeOK, Request
  <2>4. tokens' \subseteq Token
    BY <1>2 DEF Tick, TypeOK, Token, Aged
  <2>5. shared' \in [key : Keys \cup {0}, age : 0..CacheAge]
    BY <1>2 DEF Tick, TypeOK, SharedAged
  <2> QED
    BY <1>2, <1>h, <2>1, <2>2, <2>3, <2>4, <2>5 DEF Tick, TypeOK, Serves
<1>3. ASSUME NEW r \in Replicas, Restart(r) PROVE TypeOK'
  <2>1. \A p \in Requests : req'[p] # Idle => req'[p] = req[p] /\ req[p].at # r
    BY <1>3 DEF Restart, TypeOK
  <2> QED
    BY <1>3, <1>h, <2>1 DEF Restart, TypeOK, Serves, Request
<1>4. ASSUME NEW r \in Replicas, LoadPrivate(r) \/ LoadPublic(r) PROVE TypeOK'
  <2>1. UNCHANGED <<ttl, isAdmin, since, files, req, tokens, cache, shared>>
    BY <1>4 DEF LoadPrivate, LoadPublic
  <2>2. pair' \in [Replicas -> [priv : Keys \cup {0}, pub : Keys \cup {0}]]
    BY <1>4 DEF LoadPrivate, LoadPublic, TypeOK
  <2>3. \A s \in Replicas : Serves(s) => pair'[s] = pair[s]
    BY <1>4 DEF LoadPrivate, LoadPublic, TypeOK, Serves
  <2>4. \A q \in Requests : req[q] # Idle => Serves(req[q].at) /\ req[q].at \in Replicas
    BY DEF TypeOK, Request
  <2> QED
    BY <1>h, <2>1, <2>2, <2>3, <2>4 DEF TypeOK, Serves
<1>5. ASSUME NEW v \in Verifiers, Fetch(v) PROVE TypeOK'
  BY <1>5, <1>h DEF Fetch, TypeOK, Serves
<1>6. ASSUME NEW u \in Users, ChangeUser(u) PROVE TypeOK'
  BY <1>6, <1>h DEF ChangeUser, TypeOK, Serves
<1>7. ASSUME NEW p \in Requests, ReadUser(p) PROVE TypeOK'
  BY <1>7, <1>h DEF ReadUser, TypeOK, Serves, Request
<1>8. ASSUME NEW p \in Requests, MakePair(p) PROVE TypeOK'
  <2>1. Generate(req[p].at, req[p].user, req[p].admin) \in Token
    BY <1>8, <1>h DEF MakePair, TypeOK, Serves, Request, Token, Generate
  <2> QED
    BY <1>8, <1>h, <2>1 DEF MakePair, TypeOK, Serves
<1>9. ASSUME NEW p \in Requests, Fail(p) PROVE TypeOK'
  BY <1>9, <1>h DEF Fail, TypeOK, Serves
<1>10. CASE UNCHANGED vars
  BY <1>10, <1>h DEF vars, TypeOK, Serves
<1> QED
  BY <1>1, <1>2, <1>3, <1>4, <1>5, <1>6, <1>7, <1>8, <1>9, <1>10 DEF Next

\* The state stays within its types, for every instance.
THEOREM TypeCorrect == Spec => []TypeOK
<1>1. Init => TypeOK
  BY LeewayAssumption, HandlingAssumption, TTLsAssumption, CacheAgeAssumption, MaxKeysAssumption, HorizonType
  DEF Init, TypeOK, Keys
<1> QED
  BY <1>1, TypeStays, PTL DEF Spec

-----------------------------------------------------------------------------
(* Stale authority *)

\* A user is an admin now, or was one when the row was read: what a request and a
\* token say of a user is not older than themselves.
Attested ==
  /\ \A u \in isAdmin : since[u] = 0
  /\ \A p \in Requests : req[p] # Idle /\ req[p].admin => since[req[p].user] <= req[p].age
  /\ \A t \in tokens : t.life <= ttl
  /\ \A t \in tokens : t.admin => since[t.user] <= Handling + (ttl - t.life)

\* No step lets a request or a token attest more than that.
LEMMA AttestedStays == TypeOK /\ Attested /\ [Next]_vars => Attested'
<1> SUFFICES ASSUME TypeOK, Attested, [Next]_vars PROVE Attested'
  OBVIOUS
<1> USE LeewayAssumption, HandlingAssumption, TTLsAssumption
<1>h. ttl \in Int /\ Horizon \in Nat
  BY HorizonType DEF TypeOK
<1>1. CASE Tick
  <2>1. \A u \in Users : since'[u] <= since[u] + 1 /\ (u \in isAdmin => since'[u] = since[u])
    BY <1>1, <1>h DEF Tick, Later, TypeOK
  <2>2. \A p \in Requests : req'[p] # Idle =>
          req[p] # Idle /\ req'[p] = [req[p] EXCEPT !.age = @ + 1]
    BY <1>1 DEF Tick, TypeOK
  <2>3. \A t \in tokens' : \E s \in tokens : t = [s EXCEPT !.life = @ - 1]
    BY <1>1 DEF Tick, Aged
  <2>4. \A p \in Requests : req'[p] # Idle /\ req'[p].admin => since'[req'[p].user] <= req'[p].age
    <3> SUFFICES ASSUME NEW p \in Requests, req'[p] # Idle, req'[p].admin
                 PROVE since'[req'[p].user] <= req'[p].age
      OBVIOUS
    <3>1. req[p] \in Request /\ req[p] # Idle /\ req'[p] = [req[p] EXCEPT !.age = @ + 1]
      BY <2>2 DEF TypeOK
    <3>a. req[p] = [at |-> req[p].at, user |-> req[p].user, admin |-> req[p].admin, age |-> req[p].age]
          /\ req[p].user \in Users /\ req[p].age \in 0..Handling
      BY <3>1 DEF Request
    <3>b. req'[p].user = req[p].user /\ req'[p].age = req[p].age + 1
      BY <3>1, <3>a
    <3>c. req'[p].admin = req[p].admin
      BY <3>1, <3>a, Zenon
    <3>d. req[p].admin
      BY <3>c
    <3>2. /\ req'[p].user = req[p].user /\ req'[p].age = req[p].age + 1
          /\ req[p].user \in Users /\ req[p].age \in Nat
      BY <3>a, <3>b
    <3>3. since[req[p].user] <= req[p].age /\ since[req[p].user] \in Nat
      BY <3>1, <3>2, <3>d, <1>h DEF Attested, TypeOK
    <3>4. since'[req[p].user] <= since[req[p].user] + 1 /\ since'[req[p].user] \in Int
      BY <2>1, <3>2, <1>1, <1>h DEF Tick, Later, TypeOK
    <3> QED
      BY <3>2, <3>3, <3>4
  <2>5. \A t \in tokens' : t.life <= ttl' /\ (t.admin => since'[t.user] <= Handling + (ttl' - t.life))
    <3> SUFFICES ASSUME NEW t \in tokens'
                 PROVE t.life <= ttl' /\ (t.admin => since'[t.user] <= Handling + (ttl' - t.life))
      OBVIOUS
    <3>1. PICK s \in tokens : t = [s EXCEPT !.life = @ - 1]
      BY <2>3
    <3>2. /\ s.user \in Users /\ s.life \in Int
          /\ t.user = s.user /\ t.admin = s.admin /\ t.life = s.life - 1
      BY <3>1 DEF TypeOK, Token
    <3>3. s.life <= ttl /\ (s.admin => since[s.user] <= Handling + (ttl - s.life))
          /\ since[s.user] \in Nat /\ ttl' = ttl
      BY <3>2, <1>1, <1>h DEF Attested, TypeOK, Tick
    <3>4. since'[s.user] <= since[s.user] + 1 /\ since'[s.user] \in Int
      BY <2>1, <3>2, <1>1, <1>h DEF Tick, Later, TypeOK
    <3> QED
      BY <1>h, <3>2, <3>3, <3>4
  <2>6. \A u \in isAdmin' : since'[u] = 0
    BY <1>1, <2>1 DEF Tick, Attested, TypeOK
  <2> QED
    BY <2>4, <2>5, <2>6 DEF Attested
<1>2. ASSUME NEW u \in Users, ChangeUser(u) PROVE Attested'
  <2>1. \A w \in Users : since'[w] = IF w = u THEN 0 ELSE since[w]
    BY <1>2 DEF ChangeUser, TypeOK
  <2>2. \A t \in tokens : t.user \in Users /\ t.life \in Int
    BY DEF TypeOK, Token
  <2>3. \A p \in Requests : req[p] # Idle => req[p].user \in Users /\ req[p].age \in Nat
    BY DEF TypeOK, Request
  <2>4. UNCHANGED <<ttl, req, tokens>> /\ isAdmin' \subseteq isAdmin \cup {u} /\ isAdmin \subseteq Users
    BY <1>2 DEF ChangeUser, TypeOK
  <2> QED
    BY <1>h, <2>1, <2>2, <2>3, <2>4 DEF Attested
<1>3. ASSUME NEW p \in Requests, ReadUser(p) PROVE Attested'
  <2>1. PICK r \in Replicas, u \in Users :
          req' = [req EXCEPT ![p] = [at |-> r, user |-> u, admin |-> u \in isAdmin, age |-> 0]]
    BY <1>3 DEF ReadUser
  <2>2. UNCHANGED <<ttl, isAdmin, since, tokens>>
    BY <1>3 DEF ReadUser
  <2>3. \A q \in Requests \ {p} : req'[q] = req[q]
    BY <2>1 DEF TypeOK
  <2>4. req'[p] = [at |-> r, user |-> u, admin |-> u \in isAdmin, age |-> 0]
    BY <2>1 DEF TypeOK
  <2>5. req'[p].admin => since[req'[p].user] <= req'[p].age
    <3>1. req'[p].user = u /\ req'[p].age = 0
      BY <2>4
    <3>a. \A a : [at |-> r, user |-> u, admin |-> a, age |-> 0].admin = a
      OBVIOUS
    <3>b. req'[p].admin = (u \in isAdmin)
      BY <2>4, <3>a, Zenon
    <3>2. req'[p].admin => u \in isAdmin
      BY <3>b, Zenon
    <3> QED
      BY <3>1, <3>2 DEF Attested
  <2> QED
    BY <2>2, <2>3, <2>5 DEF Attested
<1>4. ASSUME NEW p \in Requests, MakePair(p) PROVE Attested'
  <2> DEFINE g == Generate(req[p].at, req[p].user, req[p].admin)
  <2>1. req[p] \in Request /\ req[p] # Idle
    BY <1>4 DEF MakePair, TypeOK
  <2>2. g.user = req[p].user /\ g.admin = req[p].admin /\ g.life = ttl
    BY Zenon DEF Generate
  <2>3. g.admin => since[g.user] <= Handling + (ttl - g.life)
    <3>1. req[p].admin => since[req[p].user] <= req[p].age
      BY <2>1 DEF Attested
    <3>2. req[p].age \in 0..Handling /\ req[p].user \in Users /\ since[req[p].user] \in Nat
      BY <2>1, <1>h DEF Request, TypeOK
    <3>3. g.admin => req[p].admin
      BY <2>2
    <3>4. g.user = req[p].user /\ g.life = ttl
      BY <2>2
    <3> HIDE DEF g
    <3> QED
      BY <1>h, <3>1, <3>2, <3>3, <3>4
  <2>4. /\ UNCHANGED <<ttl, isAdmin, since>> /\ tokens' = tokens \cup {g}
        /\ req' = [req EXCEPT ![p] = Idle]
    BY <1>4 DEF MakePair
  <2>5. \A q \in Requests : req'[q] # Idle => req'[q] = req[q]
    BY <2>4 DEF TypeOK
  <2> HIDE DEF g
  <2> QED
    BY <1>h, <2>2, <2>3, <2>4, <2>5 DEF Attested
<1>5. ASSUME UNCHANGED <<ttl, isAdmin, since, tokens>>,
             \A q \in Requests : req'[q] # Idle => req'[q] = req[q]
      PROVE Attested'
  BY <1>5 DEF Attested
<1>6. ASSUME NEW p \in Requests, Fail(p) PROVE Attested'
  BY <1>5, <1>6 DEF Fail, TypeOK
<1>7. ASSUME NEW r \in Replicas, Restart(r) PROVE Attested'
  BY <1>5, <1>7 DEF Restart, TypeOK
<1>8. CASE WritePrivate \/ WritePublic \/ UNCHANGED vars
  BY <1>5, <1>8 DEF WritePrivate, WritePublic, vars
<1>9. ASSUME NEW r \in Replicas, LoadPrivate(r) \/ LoadPublic(r) PROVE Attested'
  BY <1>5, <1>9 DEF LoadPrivate, LoadPublic
<1>10. ASSUME NEW v \in Verifiers, Fetch(v) PROVE Attested'
  BY <1>5, <1>10 DEF Fetch
<1> QED
  BY <1>1, <1>2, <1>3, <1>4, <1>6, <1>7, <1>8, <1>9, <1>10 DEF Next

\* An admin request is accepted only on the word of a row that was true less than
\* the handling time, the life of a token and the leeway ago.
THEOREM StaleAuthorityBoundedCorrect == Spec => []StaleAuthorityBounded
<1>1. Init => Attested
  BY DEF Init, Attested
<1>2. TypeOK /\ Attested => StaleAuthorityBounded
  <2> SUFFICES ASSUME TypeOK, Attested, NEW t \in tokens,
                      since[t.user] >= Handling + ttl + Leeway, t.admin
               PROVE ~NotExpired(t)
    BY DEF StaleAuthorityBounded, Status, Auth, RequireRole, Parse, Verifies
  <2>1. ttl \in Int /\ Horizon \in Nat
    BY HorizonType DEF TypeOK
  <2>2. t.life \in Int /\ since[t.user] \in Nat
    BY <2>1 DEF TypeOK, Token
  <2>3. since[t.user] <= Handling + (ttl - t.life)
    BY DEF Attested
  <2> QED
    BY <2>1, <2>2, <2>3, LeewayAssumption, HandlingAssumption DEF NotExpired
<1> QED
  BY <1>1, <1>2, TypeCorrect, AttestedStays, PTL DEF Spec

-----------------------------------------------------------------------------
(* One key *)

\* Before the first replacement there is only one key.
OneKey ==
  files = [priv |-> 1, pub |-> 1] =>
    /\ \A r \in Replicas : pair[r].priv \in {0, 1} /\ pair[r].pub \in {0, 1}
    /\ \A t \in tokens : t.key = 1

\* No step but a replacement brings in another key.
LEMMA OneKeyStays == TypeOK /\ OneKey /\ [Next]_vars => OneKey'
<1> SUFFICES ASSUME TypeOK, OneKey, [Next]_vars, files' = [priv |-> 1, pub |-> 1]
             PROVE /\ \A r \in Replicas : pair'[r].priv \in {0, 1} /\ pair'[r].pub \in {0, 1}
                   /\ \A t \in tokens' : t.key = 1
  BY DEF OneKey
<1>1. ~WritePrivate /\ ~WritePublic
  BY DEF WritePrivate, WritePublic, TypeOK, Keys
<1>2. files' = files => /\ \A r \in Replicas : pair[r].priv \in {0, 1} /\ pair[r].pub \in {0, 1}
                        /\ \A t \in tokens : t.key = 1
  BY DEF OneKey
<1>3. CASE Tick
  BY <1>2, <1>3 DEF Tick, Aged, TypeOK, Token
<1>4. ASSUME NEW r \in Replicas, Restart(r) \/ LoadPrivate(r) \/ LoadPublic(r)
      PROVE /\ files' = files /\ tokens' = tokens
            /\ \A s \in Replicas : pair'[s].priv \in {0, 1} /\ pair'[s].pub \in {0, 1}
  BY <1>2, <1>4 DEF Restart, LoadPrivate, LoadPublic, TypeOK
<1>5. ASSUME NEW p \in Requests, MakePair(p)
      PROVE /\ files' = files /\ pair' = pair /\ \A t \in tokens' : t.key = 1
  <2>1. req[p] \in Request /\ Serves(req[p].at)
    BY <1>5 DEF MakePair, TypeOK
  <2>2. pair[req[p].at].priv = 1
    BY <1>2, <1>5, <2>1 DEF MakePair, Serves, Request
  <2> QED
    BY <1>2, <1>5, <2>2 DEF MakePair, Generate
<1>6. ASSUME UNCHANGED <<files, pair, tokens>>
      PROVE /\ \A r \in Replicas : pair'[r].priv \in {0, 1} /\ pair'[r].pub \in {0, 1}
            /\ \A t \in tokens' : t.key = 1
  BY <1>2, <1>6
<1>7. CASE UNCHANGED vars
  BY <1>6, <1>7 DEF vars
<1>8. ASSUME NEW v \in Verifiers, Fetch(v) PROVE UNCHANGED <<files, pair, tokens>>
  BY <1>8 DEF Fetch
<1>9. ASSUME NEW u \in Users, ChangeUser(u) PROVE UNCHANGED <<files, pair, tokens>>
  BY <1>9 DEF ChangeUser
<1>10. ASSUME NEW p \in Requests, ReadUser(p) \/ Fail(p) PROVE UNCHANGED <<files, pair, tokens>>
  BY <1>10 DEF ReadUser, Fail
<1> QED
  BY <1>1, <1>2, <1>3, <1>4, <1>5, <1>6, <1>7, <1>8, <1>9, <1>10 DEF Next, Tick

\* Restarts alone make no replica turn away a token that has not expired.
THEOREM UnexpiredAcceptedCorrect == Spec => []UnexpiredAccepted
<1>1. Init => OneKey
  BY DEF Init, OneKey
<1>2. TypeOK /\ OneKey => UnexpiredAccepted
  BY LeewayAssumption DEF OneKey, UnexpiredAccepted, Serves, Status, Auth, Parse, NotExpired, TypeOK, Token
<1> QED
  BY <1>1, <1>2, TypeCorrect, OneKeyStays, PTL DEF Spec
=============================================================================
