------------------------------ MODULE Sessions ------------------------------
(***************************************************************************)
(* Refresh tokens of korauth: AuthService.Login (after its brute-force     *)
(* check, see Lockout), Refresh, Logout, makePair and RevokeAllForUser in  *)
(* internal/service/auth.go, and UserService.Delete and the role change    *)
(* of UserService.AssignRoles in internal/service/user.go.                 *)
(*                                                                         *)
(* The processes are the HTTP requests being served, by one replica or by  *)
(* several: a replica keeps no state of its own, all of it is in           *)
(* PostgreSQL and Redis.  Every call to either store is one atomic action, *)
(* and the calls of different requests interleave freely.  Time is the     *)
(* remaining life of each Redis key, which Tick counts down.               *)
(***************************************************************************)
EXTENDS Integers, FiniteSets

CONSTANTS
  Users,      \* user ids
  Reqs,       \* request slots: a bound on the requests served at once
  Jtis,       \* refresh tokens newJTI can return: a bound on their number
  Roles,      \* the role sets a user can be given
  None,       \* a missing row, key or value
  TTL,        \* refresh-token lifetime in ticks (REFRESH_TOKEN_TTL); 0 also stands
              \* for a negative one, which config.go:66 accepts as well
  Second,     \* ticks in a second
  MaxFaults   \* bound on the failures of a behaviour, of all kinds together

ASSUME TTLAssumption == TTL \in Nat /\ Second \in Nat \ {0}
ASSUME BoundsAssumption == MaxFaults \in Nat
ASSUME NoneAssumption == None \notin Users /\ None \notin Jtis /\ None \notin Roles

VARIABLES
  users,      \* PostgreSQL: auth.users.deleted_at and the user's roles
  refresh,    \* Redis: the refresh:<jti> keys, None when the key is missing
  index,      \* Redis: the user_tokens:<id> sets, {} when the key is missing
  idxTTL,     \* Redis: remaining life of each set, 0 when it does not expire
  req,        \* the requests in progress and their local variables
  owner,      \* history: the user each stored token was minted for
  issued,     \* history: tokens a client has received
  spent,      \* history: tokens exchanged for a pair that the client received
  loggedOut,  \* history: tokens whose logout was answered 204
  revoked,    \* history: users whose deletion was answered 204
  late,       \* history: tokens received by the client of a deleted user
  lost,       \* history: tokens that were in an index set when it expired
  skips,      \* ignored errors so far: calls that failed and were not checked
  aborts,     \* requests that ended early with an error or a crash so far
  resends     \* calls the Redis client sent again so far

stores == <<users, refresh, index, idxTTL>>
history == <<owner, issued, spent, loggedOut, revoked, late, lost>>
faults == <<skips, aborts, resends>>
vars == <<stores, req, history, faults>>

\* EXPIRE takes whole seconds: the client cuts the fraction of a lifetime off, but
\* sends a second for less than one.  SET keeps the fraction (PX).
CutOff == IF TTL < Second THEN 0 ELSE TTL % Second
SetLife == IF 0 < TTL /\ TTL < Second THEN Second ELSE TTL - CutOff

Row == [deleted : BOOLEAN, roles : Roles]
Payload == [user : Users, roles : Roles, ttl : 0..TTL]

ASSUME PayloadAssumption == None \notin Payload

LoginPC == {"lookup"}
RefreshPC == {"get", "del", "srem", "reread"}
PairPC == {"set", "sadd", "expire", "reply"}
LogoutPC == {"logoutGet", "logoutSRem", "logoutDel"}
DeletePC == {"softDelete", "smembers", "revoke", "dropSet"}
PC == {"idle"} \cup LoginPC \cup RefreshPC \cup PairPC \cup LogoutPC \cup DeletePC

\* tok is the refresh token the request presents, new the one it mints, roles
\* the roles read for the pair, todo the SMEMBERS answer still to be deleted and
\* seen (history) the rows the user has had since the request knew its user.
Request == [pc : PC, user : Users \cup {None}, tok : Jtis \cup {None},
            new : Jtis \cup {None}, roles : Roles \cup {None},
            todo : SUBSET Jtis, seen : SUBSET Row]

Idle == [pc |-> "idle", user |-> None, tok |-> None, new |-> None,
         roles |-> None, todo |-> {}, seen |-> {}]

Init ==
  /\ users \in [Users -> [deleted : {FALSE}, roles : Roles]]
  /\ refresh = [t \in Jtis |-> None]
  /\ index = [u \in Users |-> {}]
  /\ idxTTL = [u \in Users |-> 0]
  /\ req = [r \in Reqs |-> Idle]
  /\ owner = [t \in Jtis |-> None]
  /\ issued = {}
  /\ spent = {}
  /\ loggedOut = {}
  /\ revoked = {}
  /\ late = {}
  /\ lost = {}
  /\ skips = 0
  /\ aborts = 0
  /\ resends = 0

-----------------------------------------------------------------------------
(* Steps of a request *)

At(r, label) == req[r].pc = label

Live(t) == refresh[t] # None

\* The handler returns.
Finish(r) == req' = [req EXCEPT ![r] = Idle]

\* Tokens that 32 fresh random bytes can still turn out to be.
Fresh == {t \in Jtis : owner[t] = None /\ \A r \in Reqs : req[r].new # t}

\* A request that may mint a token starts only while a token is left for it.
\* This bounds the model, not the program.
TokenLeft ==
  Cardinality({r \in Reqs : req[r].pc \in LoginPC \cup RefreshPC}) < Cardinality(Fresh)

\* SREM and DEL of members of a set: Redis drops a set with its last member, and
\* the expiry of the key with it.
RemoveFromIndex(u, tokens) ==
  /\ index' = [index EXCEPT ![u] = @ \ tokens]
  /\ idxTTL' = [idxTTL EXCEPT ![u] = IF index[u] \subseteq tokens THEN 0 ELSE @]

\* The rows a request's user has had since the request began to serve it.
Witness(u, row) ==
  [r \in Reqs |-> IF req[r].user = u /\ req[r].seen # {}
                    THEN [req[r] EXCEPT !.seen = @ \cup {row}]
                    ELSE req[r]]

-----------------------------------------------------------------------------
(* Login: the brute-force counter was below its limit *)

StartLogin(r, u) ==
  /\ At(r, "idle")
  /\ TokenLeft
  /\ req' = [req EXCEPT ![r].pc = "lookup", ![r].user = u, ![r].seen = {users[u]}]
  /\ UNCHANGED <<stores, history, faults>>

\* Variant with a bug: the lookups do not filter on deleted_at.
ReadAnyUserAndMint(r) ==
  /\ \E t \in Fresh :
       req' = [req EXCEPT ![r].pc = "set", ![r].new = t,
                          ![r].roles = users[req[r].user].roles]
  /\ UNCHANGED <<stores, history, faults>>

\* Variant with a bug: a refresh stores the presented token again.
KeepTokenOnRefresh(r) ==
  LET u == req[r].user IN
  /\ ~users[u].deleted
  /\ \E t \in IF req[r].tok = None THEN Fresh ELSE {req[r].tok} :
       req' = [req EXCEPT ![r].pc = "set", ![r].new = t, ![r].roles = users[u].roles]
  /\ UNCHANGED <<stores, history, faults>>

\* Both lookups return the live row with its roles; makePair then draws a token.
ReadUserAndMint(r) ==
  LET u == req[r].user IN
  /\ ~users[u].deleted
  /\ \E t \in Fresh :
       req' = [req EXCEPT ![r].pc = "set", ![r].new = t, ![r].roles = users[u].roles]
  /\ UNCHANGED <<stores, history, faults>>

LoginLookup(r) ==
  /\ At(r, "lookup")
  /\ ReadUserAndMint(r)

\* No such live user, a wrong password, or a locked account.
LoginReject(r) ==
  /\ At(r, "lookup")
  /\ Finish(r)
  /\ UNCHANGED <<stores, history, faults>>

-----------------------------------------------------------------------------
(* Refresh *)

StartRefresh(r, t) ==
  /\ At(r, "idle")
  /\ t \in issued
  /\ TokenLeft
  /\ req' = [req EXCEPT ![r].pc = "get", ![r].tok = t]
  /\ UNCHANGED <<stores, history, faults>>

RefreshGet(r) ==
  LET t == req[r].tok IN
  /\ At(r, "get")
  /\ IF Live(t)
       THEN LET u == refresh[t].user IN
            req' = [req EXCEPT ![r].pc = "del", ![r].user = u, ![r].seen = {users[u]}]
       ELSE Finish(r)
  /\ UNCHANGED <<stores, history, faults>>

\* Variant with a bug: the DEL misses the key it should delete.
RefreshDelMisses(r) ==
  /\ At(r, "del")
  /\ req' = [req EXCEPT ![r].pc = "srem"]
  /\ UNCHANGED <<stores, history, faults>>

\* Variant with a bug: a refresh ends every session of its user.
RefreshDelAll(r) ==
  /\ At(r, "del")
  /\ refresh' = [t \in Jtis |-> IF t \in index[req[r].user] THEN None ELSE refresh[t]]
  /\ req' = [req EXCEPT ![r].pc = "srem"]
  /\ UNCHANGED <<users, index, idxTTL, history, faults>>

RefreshDel(r) ==
  /\ At(r, "del")
  /\ refresh' = [refresh EXCEPT ![req[r].tok] = None]
  /\ req' = [req EXCEPT ![r].pc = "srem"]
  /\ UNCHANGED <<users, index, idxTTL, history, faults>>

\* Variant with a bug: DEL of the set in place of SREM of the token.
RefreshDropSet(r) ==
  /\ At(r, "srem")
  /\ RemoveFromIndex(req[r].user, index[req[r].user])
  /\ req' = [req EXCEPT ![r].pc = "reread"]
  /\ UNCHANGED <<users, refresh, history, faults>>

RefreshSRem(r) ==
  /\ At(r, "srem")
  /\ RemoveFromIndex(req[r].user, {req[r].tok})
  /\ req' = [req EXCEPT ![r].pc = "reread"]
  /\ UNCHANGED <<users, refresh, history, faults>>

RefreshReread(r) ==
  /\ At(r, "reread")
  /\ ReadUserAndMint(r)

RefreshReject(r) ==
  /\ At(r, "reread")
  /\ users[req[r].user].deleted
  /\ Finish(r)
  /\ UNCHANGED <<stores, history, faults>>

-----------------------------------------------------------------------------
(* makePair: the pipeline of SET, SADD and EXPIRE is sent at once but is not *)
(* a MULTI, so the commands of other requests can come between its own       *)

\* Variant with a bug: SET without an expiry.
PayloadForever(r) == [user |-> req[r].user, roles |-> req[r].roles, ttl |-> 0]

NewPayload(r) == [user |-> req[r].user, roles |-> req[r].roles, ttl |-> TTL]

PipeSet(r) ==
  /\ At(r, "set")
  /\ refresh' = [refresh EXCEPT ![req[r].new] = NewPayload(r)]
  /\ owner' = [owner EXCEPT ![req[r].new] = req[r].user]
  /\ req' = [req EXCEPT ![r].pc = "sadd"]
  /\ UNCHANGED <<users, index, idxTTL, issued, spent, loggedOut, revoked, late, lost, faults>>

\* Variant with a bug: the set's key does not depend on the user.
PipeSAddShared(r) ==
  /\ At(r, "sadd")
  /\ index' = [u \in Users |-> index[u] \cup {req[r].new}]
  /\ req' = [req EXCEPT ![r].pc = "expire"]
  /\ UNCHANGED <<users, refresh, idxTTL, history, faults>>

\* Variant with a bug: no EXPIRE after SADD.
PipeSAddOnly(r) ==
  /\ At(r, "sadd")
  /\ index' = [index EXCEPT ![req[r].user] = @ \cup {req[r].new}]
  /\ req' = [req EXCEPT ![r].pc = "reply"]
  /\ UNCHANGED <<users, refresh, idxTTL, history, faults>>

\* SADD creates a missing set without an expiry and keeps that of an old one.
PipeSAdd(r) ==
  /\ At(r, "sadd")
  /\ index' = [index EXCEPT ![req[r].user] = @ \cup {req[r].new}]
  /\ req' = [req EXCEPT ![r].pc = "expire"]
  /\ UNCHANGED <<users, refresh, idxTTL, history, faults>>

\* Variant with a bug: the expiry is set with the first token only, as incBrute
\* does for its counter.
PipeExpireFirst(r) ==
  LET u == req[r].user IN
  /\ At(r, "expire")
  /\ idxTTL' = [idxTTL EXCEPT ![u] = IF index[u] # {} /\ @ = 0 THEN SetLife ELSE @]
  /\ req' = [req EXCEPT ![r].pc = "reply"]
  /\ UNCHANGED <<users, refresh, index, history, faults>>

\* EXPIRE deletes the key when the expiry is not positive; SET then sets none.
PipeExpire(r) ==
  LET u == req[r].user IN
  /\ At(r, "expire")
  /\ idxTTL' = [idxTTL EXCEPT ![u] = IF index[u] = {} THEN 0 ELSE SetLife]
  /\ IF TTL = 0
       THEN /\ index' = [index EXCEPT ![u] = {}]
            /\ lost' = lost \cup index[u]
       ELSE UNCHANGED <<index, lost>>
  /\ req' = [req EXCEPT ![r].pc = "reply"]
  /\ UNCHANGED <<users, refresh, owner, issued, spent, loggedOut, revoked, late, faults>>

Grant(r) ==
  LET me == req[r] IN
  /\ At(r, "reply")
  /\ issued' = issued \cup {me.new}
  /\ spent' = spent \cup ({me.tok} \ {None})
  /\ late' = IF users[me.user].deleted THEN late \cup {me.new} ELSE late
  /\ Finish(r)
  /\ UNCHANGED <<stores, owner, loggedOut, revoked, lost, faults>>

-----------------------------------------------------------------------------
(* Logout *)

StartLogout(r, t) ==
  /\ At(r, "idle")
  /\ t \in issued
  /\ req' = [req EXCEPT ![r].pc = "logoutGet", ![r].tok = t]
  /\ UNCHANGED <<stores, history, faults>>

\* The answer is 204 whether the token was found or not.
AnswerLogout(r) ==
  /\ loggedOut' = loggedOut \cup {req[r].tok}
  /\ Finish(r)
  /\ UNCHANGED <<owner, issued, spent, revoked, late, lost>>

LogoutGet(r) ==
  LET t == req[r].tok IN
  /\ At(r, "logoutGet")
  /\ \/ /\ Live(t)
        /\ req' = [req EXCEPT ![r].pc = "logoutSRem", ![r].user = refresh[t].user]
        /\ UNCHANGED history
     \/ /\ ~Live(t)
        /\ AnswerLogout(r)
  /\ UNCHANGED <<stores, faults>>

LogoutSRem(r) ==
  /\ At(r, "logoutSRem")
  /\ RemoveFromIndex(req[r].user, {req[r].tok})
  /\ req' = [req EXCEPT ![r].pc = "logoutDel"]
  /\ UNCHANGED <<users, refresh, history, faults>>

\* Variant with a bug: the error of the last DEL is dropped.
LogoutDelUnchecked(r) ==
  /\ At(r, "logoutDel")
  /\ refresh' \in {refresh, [refresh EXCEPT ![req[r].tok] = None]}
  /\ AnswerLogout(r)
  /\ UNCHANGED <<users, index, idxTTL, faults>>

LogoutDel(r) ==
  /\ At(r, "logoutDel")
  /\ refresh' = [refresh EXCEPT ![req[r].tok] = None]
  /\ AnswerLogout(r)
  /\ UNCHANGED <<users, index, idxTTL, faults>>

-----------------------------------------------------------------------------
(* Delete of a user, and RevokeAllForUser *)

StartDelete(r, u) ==
  /\ At(r, "idle")
  /\ req' = [req EXCEPT ![r].pc = "softDelete", ![r].user = u]
  /\ UNCHANGED <<stores, history, faults>>

SoftDelete(r) ==
  LET u == req[r].user
      gone == [users[u] EXCEPT !.deleted = TRUE]
  IN
  /\ At(r, "softDelete")
  /\ IF users[u].deleted
       THEN Finish(r) /\ UNCHANGED users    \* no row updated: ErrNotFound
       ELSE /\ users' = [users EXCEPT ![u] = gone]
            /\ req' = [Witness(u, gone) EXCEPT ![r].pc = "smembers"]
  /\ UNCHANGED <<refresh, index, idxTTL, history, faults>>

SMembers(r) ==
  /\ At(r, "smembers")
  /\ req' = [req EXCEPT ![r].todo = index[req[r].user],
                        ![r].pc = IF index[req[r].user] = {} THEN "dropSet" ELSE "revoke"]
  /\ UNCHANGED <<stores, history, faults>>

\* Variant with a bug: the loop ends after one member.
FirstMemberOnly(r, t) ==
  req' = [req EXCEPT ![r].todo = {}, ![r].pc = "dropSet"]

\* The loop moves on to the next member, whether the DEL succeeded or not.
NextMember(r, t) ==
  req' = [req EXCEPT ![r].todo = @ \ {t},
                     ![r].pc = IF req[r].todo = {t} THEN "dropSet" ELSE "revoke"]

RevokeDel(r) ==
  /\ At(r, "revoke")
  /\ \E t \in req[r].todo :
       /\ refresh' = [refresh EXCEPT ![t] = None]
       /\ NextMember(r, t)
  /\ UNCHANGED <<users, index, idxTTL, history, faults>>

DropSet(r) ==
  LET u == req[r].user IN
  /\ At(r, "dropSet")
  /\ RemoveFromIndex(u, index[u])
  /\ revoked' = revoked \cup {u}
  /\ Finish(r)
  /\ UNCHANGED <<users, refresh, owner, issued, spent, loggedOut, late, lost, faults>>

-----------------------------------------------------------------------------
(* The environment: role changes, time, and failures *)

\* The commit of UserStore.SetRoles, which does not look at deleted_at.
ChangeRoles(u) ==
  \E s \in Roles \ {users[u].roles} :
    LET row == [users[u] EXCEPT !.roles = s] IN
    /\ users' = [users EXCEPT ![u] = row]
    /\ req' = Witness(u, row)
    /\ UNCHANGED <<refresh, index, idxTTL, history, faults>>

\* Variant with a bug: a key stays when its life ends.
AgedPastEnd(p) ==
  IF p = None THEN None ELSE [p EXCEPT !.ttl = @ - 1]

Aged(p) ==
  IF p = None THEN None
  ELSE IF p.ttl = 0 THEN p                     \* a key without expiry
  ELSE IF p.ttl = 1 THEN None
  ELSE [p EXCEPT !.ttl = @ - 1]

\* Sets whose life ends with this tick.
Expiring == {u \in Users : idxTTL[u] = 1}

Tick ==
  /\ refresh' = [t \in Jtis |-> Aged(refresh[t])]
  /\ index' = [u \in Users |-> IF u \in Expiring THEN {} ELSE index[u]]
  /\ idxTTL' = [u \in Users |-> IF idxTTL[u] = 0 THEN 0 ELSE idxTTL[u] - 1]
  /\ lost' = lost \cup UNION {index[u] : u \in Expiring}
  /\ UNCHANGED <<users, req, owner, issued, spent, loggedOut, revoked, late, faults>>

FaultLeft == skips + aborts + resends < MaxFaults

\* The calls whose error the code drops: they fail without an effect on Redis,
\* and the request continues as if they had succeeded.
Ignored(r) ==
  \/ At(r, "del") /\ req' = [req EXCEPT ![r].pc = "srem"]
  \/ At(r, "srem") /\ req' = [req EXCEPT ![r].pc = "reread"]
  \/ At(r, "logoutSRem") /\ req' = [req EXCEPT ![r].pc = "logoutDel"]
  \/ At(r, "revoke") /\ \E t \in req[r].todo : NextMember(r, t)

SkipCall(r) ==
  /\ FaultLeft
  /\ Ignored(r)
  /\ skips' = skips + 1
  /\ UNCHANGED <<stores, history, aborts, resends>>

\* The Redis client sends a call again when its reply is lost (MaxRetries).  The
\* pipeline of makePair goes again as a whole, with some or all of it executed.
ResendPair(r) ==
  /\ req[r].pc \in {"sadd", "expire", "reply"}
  /\ req' = [req EXCEPT ![r].pc = "set"]
  /\ UNCHANGED <<refresh, index, idxTTL>>

\* Of the single calls a repetition matters for those of a revocation: the DEL of
\* a token whose own pipeline may be sent again, and that of a set which others
\* may fill again.  A refresh or a logout that repeats a call does no more than one
\* call would at either time: its token is a client's, and the token's pipeline over.
ResendDel(r) ==
  /\ At(r, "revoke")
  /\ \E t \in req[r].todo : refresh' = [refresh EXCEPT ![t] = None]
  /\ UNCHANGED <<index, idxTTL, req>>

ResendDropSet(r) ==
  /\ At(r, "dropSet")
  /\ RemoveFromIndex(req[r].user, index[req[r].user])
  /\ UNCHANGED <<refresh, req>>

Resend(r) ==
  /\ FaultLeft
  /\ ResendPair(r) \/ ResendDel(r) \/ ResendDropSet(r)
  /\ resends' = resends + 1
  /\ UNCHANGED <<users, history, skips, aborts>>

\* A checked call fails, the client goes away and its context is cancelled, the
\* reply is lost, or the replica crashes: what is done stays, nothing follows.
Abort(r) ==
  /\ FaultLeft
  /\ ~At(r, "idle")
  /\ Finish(r)
  /\ aborts' = aborts + 1
  /\ UNCHANGED <<stores, history, skips, resends>>

-----------------------------------------------------------------------------

Start(r) ==
  \/ \E u \in Users : StartLogin(r, u) \/ StartDelete(r, u)
  \/ \E t \in Jtis : StartRefresh(r, t) \/ StartLogout(r, t)

\* What the handler of a request does next.
Continue(r) ==
  \/ LoginLookup(r) \/ LoginReject(r)
  \/ RefreshGet(r) \/ RefreshDel(r) \/ RefreshSRem(r) \/ RefreshReread(r) \/ RefreshReject(r)
  \/ PipeSet(r) \/ PipeSAdd(r) \/ PipeExpire(r) \/ Grant(r)
  \/ LogoutGet(r) \/ LogoutSRem(r) \/ LogoutDel(r)
  \/ SoftDelete(r) \/ SMembers(r) \/ RevokeDel(r) \/ DropSet(r)

Next ==
  \/ \E r \in Reqs : Start(r) \/ Continue(r) \/ SkipCall(r) \/ Abort(r) \/ Resend(r)
  \/ \E u \in Users : ChangeRoles(u)
  \/ Tick

Spec == Init /\ [][Next]_vars

\* Store calls return within their timeouts, so a handler that has begun goes
\* on, and time passes.  Nothing obliges a client to send a request.
Fairness ==
  /\ \A r \in Reqs : WF_vars(Continue(r))
  /\ WF_vars(Tick)

FairSpec == Spec /\ Fairness

-----------------------------------------------------------------------------
(* Properties *)

TypeOK ==
  /\ users \in [Users -> Row]
  /\ refresh \in [Jtis -> Payload \cup {None}]
  /\ index \in [Users -> SUBSET Jtis]
  /\ idxTTL \in [Users -> 0..SetLife]
  /\ req \in [Reqs -> Request]
  /\ owner \in [Jtis -> Users \cup {None}]
  /\ issued \subseteq Jtis
  /\ spent \subseteq Jtis
  /\ loggedOut \subseteq Jtis
  /\ revoked \subseteq Users
  /\ late \subseteq Jtis
  /\ lost \subseteq Jtis
  /\ <<skips, aborts, resends>> \in Nat \X Nat \X Nat
  /\ skips + aborts + resends <= MaxFaults

NoFaults == skips = 0 /\ aborts = 0

LogoutUnderWay(t) == \E r \in Reqs : At(r, "logoutDel") /\ req[r].tok = t

\* A pair is made from a row its user really had while the request was being
\* served, and a live one: neither the roles nor the user come from the token's
\* payload or from before the request (service/auth.go:108-117, 47-78).
FreshGrant ==
  \A r \in Reqs : req[r].pc \in PairPC =>
    [deleted |-> FALSE, roles |-> req[r].roles] \in req[r].seen

\* Once a logout is answered 204 the token is not in Redis again, whatever the
\* other requests that hold it are doing and whatever fails (auth.go:120-136).
LogoutIsFinal == \A t \in loggedOut : ~Live(t)

\* A token whose exchange the client has seen is dead, as long as no ignored
\* error kept the DEL of auth.go:96 from running.
SpentTokenIsDead == skips = 0 => \A t \in spent : ~Live(t)

\* RevokeAllForUser can find every token a client holds: it is in its user's
\* set, unless the user is already deleted, the set expired under it (between SADD
\* and EXPIRE, or by the fraction of a second that EXPIRE cuts off), or its logout
\* is between SREM and DEL (auth.go:130-135).
IssuedTokenIsIndexed ==
  NoFaults =>
    \A t \in issued : Live(t) =>
      \/ t \in index[owner[t]]
      \/ users[owner[t]].deleted
      \/ t \in lost
      \/ LogoutUnderWay(t)

\* The set of a user expires before a token in it that a client holds by no more
\* than the fraction of a second that EXPIRE cuts off, so not at all when the
\* lifetime is in whole seconds, and no failure changes that (auth.go:176-178).
IndexOutlivesTokens ==
  \A u \in Users : \A t \in index[u] \cap issued :
    Live(t) => idxTTL[u] = 0 \/ idxTTL[u] + CutOff >= refresh[t].ttl

\* A user's set holds only that user's tokens, so a revocation cannot end the
\* session of somebody else (auth.go:141-147, 177).
IndexHoldsOwnTokens ==
  /\ \A u \in Users : \A t \in index[u] : owner[t] = u
  /\ \A r \in Reqs : \A t \in req[r].todo : owner[t] = req[r].user

\* After the deletion of a user is answered 204, the tokens the user's clients
\* had before are gone, if nothing failed on the way (auth.go:139-149,
\* user.go:107-117).
DeleteRevokesEarlierTokens ==
  NoFaults =>
    \A t \in issued \ late :
      owner[t] \in revoked => ~Live(t) \/ t \in lost \/ LogoutUnderWay(t)

\* A token that a client holds, of a user who is not deleted, leaves Redis only
\* when its time is up or when a request that presents it takes it out.
OnlyHolderEndsSession ==
  [][\A t \in issued :
       (Live(t) /\ refresh'[t] = None /\ ~users[owner[t]].deleted) =>
         \/ refresh[t].ttl = 1
         \/ \E r \in Reqs : req[r].tok = t /\ req[r].pc \in {"del", "logoutDel"}]_vars

\* Sessions of a user: those in Redis, and those whose user a request has read and
\* whose pipeline is still to be sent, or may be sent again.
SessionsOf(u) ==
  {t \in Jtis : owner[t] = u /\ Live(t)}
    \cup {req[r].new : r \in {s \in Reqs : req[s].pc \in PairPC /\ req[s].user = u}}

\* From its deletion on a user only loses sessions: what a request had under way may
\* still arrive in Redis, but no login or refresh begins another, whatever token it
\* presents (auth.go:58-63, 108-112).
DeletedUserOnlyLosesSessions ==
  [][\A u \in Users : users[u].deleted => SessionsOf(u)' \subseteq SessionsOf(u)]_vars

\* An expiry is set on the index of every user once the requests that fill it
\* have run to their end (auth.go:177-178).
IndexHasExpiry ==
  aborts = 0 =>
    \A u \in Users : index[u] # {} /\ idxTTL[u] = 0 =>
      \E r \in Reqs : req[r].pc \in {"set", "sadd", "expire"} /\ req[r].user = u

-----------------------------------------------------------------------------
(* The life of a token, as its clients see it *)

PhaseOf(t) ==
  IF owner[t] = None THEN "unborn" ELSE IF Live(t) THEN "live" ELSE "dead"

Contract == INSTANCE TokenContract
  WITH Tokens <- Jtis, phase <- [t \in Jtis |-> PhaseOf(t)],
       holder <- owner, given <- issued, closed <- loggedOut

\* A token is minted for one user and reaches one client.  Once a client holds it
\* it never comes back from its end, whatever requests present it and whatever
\* fails; before that, only the pipeline that minted it can store it again.
ImplementsContract == Contract!Spec

\* And every token that is stored ends, also when its request was aborted, its
\* index is gone or nobody ever received it (auth.go:176, the TTL of the SET).
EveryTokenEnds == Contract!TokensEnd

-----------------------------------------------------------------------------
(* What the documents say and the program does not do *)

\* api/openapi.yaml: "the used refresh token is invalidated".  Of two requests
\* that present one token, at most one receives a pair.
SingleUse ==
  [][\A r \in Reqs : Grant(r) => req[r].tok \notin spent]_vars

\* docs/TOKEN.md 3.2: "Current jti is deleted from Redis", for the answered
\* exchanges and with the ignored error of auth.go:96.
SpentTokenIsDeleted == \A t \in spent : ~Live(t)

\* api/openapi.yaml: "Active refresh tokens of the deleted user are cleaned from
\* Redis", read when the deletion is answered and no request is in progress.
DeletedUserHasNoTokens ==
  (\A r \in Reqs : At(r, "idle")) =>
    \A t \in issued : owner[t] \in revoked => ~Live(t)
=============================================================================
