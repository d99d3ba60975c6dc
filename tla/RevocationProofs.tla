-------------------------- MODULE RevocationProofs --------------------------
(***************************************************************************)
(* Proofs about what the deletion of a user can revoke: every token that a *)
(* client holds is in its user's set, the set has an expiry, deleting the  *)
(* user ends the tokens it lists and nobody else's, and a deleted user     *)
(* gets no other session.                                                  *)
(***************************************************************************)
EXTENDS SessionsProofs

USE DEF LoginPC, RefreshPC, PairPC, LogoutPC, DeletePC

-----------------------------------------------------------------------------
(* Where the steps of a request lead *)

\* A request that a step changes takes that step itself.
LEMMA WhoMoves ==
  ASSUME TypeInv, [Next]_vars, NEW s \in Reqs
  PROVE  Keeps(s) \/ Start(s) \/ Continue(s) \/ SkipCall(s) \/ Abort(s) \/ ResendPair(s)
  BY OthersKeep, EnvironmentKeeps DEF Next, Resend, ResendDel, ResendDropSet, Keeps

\* The label after each step of a request.
LEMMA LabelAfter ==
  ASSUME TypeInv, NEW s \in Reqs
  PROVE  /\ Finish(s) => req'[s] = Idle
         /\ Start(s) => req'[s].pc \in {"lookup", "softDelete", "get", "logoutGet"}
         /\ LoginLookup(s) \/ RefreshReread(s) => req'[s].pc = "set"
         /\ RefreshGet(s) => Finish(s) \/ req'[s].pc = "del"
         /\ RefreshDel(s) => req'[s].pc = "srem"
         /\ RefreshSRem(s) => req'[s].pc = "reread"
         /\ PipeSet(s) => req'[s].pc = "sadd"
         /\ LogoutGet(s) => Finish(s) \/ req'[s].pc = "logoutSRem"
         /\ LogoutSRem(s) => req'[s].pc = "logoutDel"
         /\ ResendPair(s) => req'[s].pc = "set"
         /\ SkipCall(s) => \/ req[s].pc = "revoke" /\ \E t \in req[s].todo : NextMember(s, t)
                           \/ req'[s].pc \in {"srem", "reread", "logoutDel"}
<1>0. req \in [Reqs -> Request]
  BY DEF TypeInv, TypeOK
<1>1. Start(s) => req'[s].pc \in {"lookup", "softDelete", "get", "logoutGet"}
  <2>1. \A u \in Users : StartLogin(s, u) \/ StartDelete(s, u)
                           => req'[s].pc \in {"lookup", "softDelete"}
    BY <1>0 DEF StartLogin, StartDelete, Request
  <2>2. \A t \in Jtis : StartRefresh(s, t) \/ StartLogout(s, t)
                          => req'[s].pc \in {"get", "logoutGet"}
    BY <1>0 DEF StartRefresh, StartLogout, Request
  <2> QED
    BY <2>1, <2>2 DEF Start
<1>2. LoginLookup(s) \/ RefreshReread(s) => req'[s].pc = "set"
  <2>1. ASSUME LoginLookup(s) \/ RefreshReread(s) PROVE req'[s].pc = "set"
    <3>1. PICK t : req' = [req EXCEPT ![s].pc = "set", ![s].new = t,
                                      ![s].roles = users[req[s].user].roles]
      BY <2>1 DEF LoginLookup, RefreshReread, ReadUserAndMint
    <3> QED
      BY <1>0, <3>1 DEF Request
  <2> QED
    BY <2>1
<1>3. SkipCall(s) => \/ req[s].pc = "revoke" /\ \E t \in req[s].todo : NextMember(s, t)
                     \/ req'[s].pc \in {"srem", "reread", "logoutDel"}
  BY <1>0 DEF SkipCall, Ignored, At, Request
<1>4. /\ RefreshGet(s) => Finish(s) \/ req'[s].pc = "del"
      /\ LogoutGet(s) => Finish(s) \/ req'[s].pc = "logoutSRem"
  BY <1>0 DEF RefreshGet, LogoutGet, AnswerLogout, Request
<1> QED
  BY <1>0, <1>1, <1>2, <1>3, <1>4
  DEF RefreshDel, RefreshSRem, PipeSet, LogoutSRem, ResendPair, Finish, Request

\* What a request does to itself while it fills the set and while it revokes.
LEMMA SelfAfter ==
  ASSUME TypeInv, NEW s \in Reqs
  PROVE  /\ PipeSet(s) \/ ResendPair(s) => /\ req'[s].pc \in {"set", "sadd"}
                                            /\ req'[s].new = req[s].new
                                            /\ req'[s].user = req[s].user
         /\ PipeSAdd(s) => /\ req'[s].pc = "expire" /\ req'[s].new = req[s].new
                           /\ req'[s].user = req[s].user /\ req'[s].todo = req[s].todo
         /\ PipeExpire(s) => /\ req'[s].pc = "reply" /\ req'[s].new = req[s].new
                             /\ req'[s].user = req[s].user /\ req'[s].todo = req[s].todo
         /\ SMembers(s) => /\ req'[s].todo = index[req[s].user]
                           /\ req'[s].pc = IF index[req[s].user] = {} THEN "dropSet"
                                                                      ELSE "revoke"
                           /\ req'[s].user = req[s].user
         /\ \A t : NextMember(s, t) =>
              /\ req'[s].todo = req[s].todo \ {t}
              /\ req'[s].pc = IF req[s].todo = {t} THEN "dropSet" ELSE "revoke"
              /\ req'[s].user = req[s].user
         /\ LogoutSRem(s) => /\ req'[s].pc = "logoutDel" /\ req'[s].tok = req[s].tok
         /\ SoftDelete(s) => \/ /\ Finish(s) /\ UNCHANGED users
                                /\ users[req[s].user].deleted
                             \/ /\ req'[s].pc = "smembers" /\ req'[s].user = req[s].user
                                /\ ~users[req[s].user].deleted
                                /\ users' = [users EXCEPT ![req[s].user] =
                                               [users[req[s].user] EXCEPT !.deleted = TRUE]]
<1>0. req \in [Reqs -> Request]
  BY DEF TypeInv, TypeOK
<1>1. ASSUME SoftDelete(s), ~users[req[s].user].deleted
      PROVE  req'[s].pc = "smembers" /\ req'[s].user = req[s].user
  <2>1. req[s].user \in Users /\ users[req[s].user] \in Row
    BY <1>1 DEF SoftDelete, At, TypeInv, TypeOK, Locals
  <2>2. PICK row \in Row : req' = [Witness(req[s].user, row) EXCEPT ![s].pc = "smembers"]
    BY <1>1, <2>1, RowUpdate DEF SoftDelete
  <2> QED
    BY <2>1, <2>2, WitnessType DEF TypeInv, Request
<1>2. SoftDelete(s) => \/ Finish(s) /\ UNCHANGED users /\ users[req[s].user].deleted
                       \/ /\ req'[s].pc = "smembers" /\ req'[s].user = req[s].user
                          /\ ~users[req[s].user].deleted
                          /\ users' = [users EXCEPT ![req[s].user] =
                                         [users[req[s].user] EXCEPT !.deleted = TRUE]]
  BY <1>1 DEF SoftDelete
<1>3. \A t : NextMember(s, t) =>
        /\ req'[s].todo = req[s].todo \ {t}
        /\ req'[s].pc = IF req[s].todo = {t} THEN "dropSet" ELSE "revoke"
        /\ req'[s].user = req[s].user
  BY <1>0 DEF NextMember, Request
<1> QED
  BY <1>0, <1>2, <1>3
  DEF PipeSet, PipeSAdd, PipeExpire, ResendPair, SMembers, LogoutSRem, Request

\* The one step that takes a request on from each of the labels that matter here.
LEMMA Leaving ==
  ASSUME TypeInv, [Next]_vars, NEW s \in Reqs
  PROVE  /\ At(s, "set") => Keeps(s) \/ PipeSet(s) \/ Abort(s)
         /\ At(s, "sadd") => Keeps(s) \/ PipeSAdd(s) \/ ResendPair(s) \/ Abort(s)
         /\ At(s, "expire") => Keeps(s) \/ PipeExpire(s) \/ ResendPair(s) \/ Abort(s)
         /\ At(s, "reply") => Keeps(s) \/ Grant(s) \/ ResendPair(s) \/ Abort(s)
         /\ At(s, "logoutDel") => Keeps(s) \/ LogoutDel(s) \/ Abort(s)
         /\ At(s, "smembers") => Keeps(s) \/ SMembers(s) \/ Abort(s)
         /\ At(s, "revoke") => Keeps(s) \/ RevokeDel(s) \/ SkipCall(s) \/ Abort(s)
  BY WhoMoves
  DEF Start, StartLogin, StartDelete, StartRefresh, StartLogout, Continue, LoginLookup,
      LoginReject, RefreshGet, RefreshDel, RefreshSRem, RefreshReread, RefreshReject, PipeSet,
      PipeSAdd, PipeExpire, Grant, LogoutGet, LogoutSRem, LogoutDel, SoftDelete, SMembers,
      RevokeDel, DropSet, SkipCall, Ignored, ResendPair, At

\* Steps that end with the handler's return.
LEMMA Returns ==
  ASSUME NEW s \in Reqs,
         \/ LoginReject(s) \/ RefreshReject(s) \/ Grant(s) \/ LogoutDel(s) \/ DropSet(s)
         \/ Abort(s)
  PROVE  Finish(s)
  BY DEF LoginReject, RefreshReject, Grant, LogoutDel, AnswerLogout, DropSet, Abort

Revoking == {"smembers", "revoke", "dropSet"}

\* How a request comes to have a pair stored, or to revoke.
LEMMA Arriving ==
  ASSUME TypeInv, [Next]_vars, NEW s \in Reqs
  PROVE  /\ req'[s].pc \in {"expire", "reply"} =>
              /\ req'[s].new = req[s].new /\ req'[s].user = req[s].user
              /\ \/ req'[s].pc = req[s].pc
                 \/ PipeSAdd(s) /\ req'[s].pc = "expire"
                 \/ PipeExpire(s) /\ req'[s].pc = "reply"
         /\ req'[s].pc \in Revoking =>
              /\ req'[s].user = req[s].user
              /\ req[s].pc \in Revoking \/ (SoftDelete(s) /\ req'[s].pc = "smembers")
<1> DEFINE Goal == /\ req'[s].pc \in {"expire", "reply"} =>
                        /\ req'[s].new = req[s].new /\ req'[s].user = req[s].user
                        /\ \/ req'[s].pc = req[s].pc
                           \/ PipeSAdd(s) /\ req'[s].pc = "expire"
                           \/ PipeExpire(s) /\ req'[s].pc = "reply"
                   /\ req'[s].pc \in Revoking =>
                        /\ req'[s].user = req[s].user
                        /\ req[s].pc \in Revoking \/ (SoftDelete(s) /\ req'[s].pc = "smembers")
<1>1. CASE Keeps(s)
  BY <1>1 DEF Keeps
<1>2. ASSUME req'[s].pc \notin {"expire", "reply"} \cup Revoking PROVE Goal
  BY <1>2
<1>3. CASE Finish(s)
  BY <1>2, <1>3, LabelAfter DEF Idle, Revoking
<1>4. CASE \/ Start(s) \/ LoginLookup(s) \/ RefreshReread(s) \/ RefreshGet(s) \/ RefreshDel(s)
           \/ RefreshSRem(s) \/ PipeSet(s) \/ LogoutGet(s) \/ LogoutSRem(s) \/ ResendPair(s)
  BY <1>2, <1>3, <1>4, LabelAfter DEF Revoking
<1>5. CASE PipeSAdd(s) \/ PipeExpire(s)
  BY <1>5, SelfAfter DEF Revoking
<1>6. CASE SMembers(s)
  <2>1. req[s].pc = "smembers"
    BY <1>6 DEF SMembers, At
  <2>2. req'[s].pc \in {"dropSet", "revoke"} /\ req'[s].user = req[s].user
    BY <1>6, SelfAfter
  <2> QED
    BY <2>1, <2>2 DEF Revoking
<1>7. ASSUME NEW t, NextMember(s, t), req[s].pc = "revoke" PROVE Goal
  BY <1>7, SelfAfter DEF Revoking
<1>8. CASE SoftDelete(s)
  BY <1>3, <1>8, SelfAfter DEF Revoking
<1>9. CASE RevokeDel(s)
  BY <1>7, <1>9 DEF RevokeDel, At
<1>10. CASE SkipCall(s)
  BY <1>2, <1>7, <1>10, LabelAfter DEF Revoking
<1>11. CASE Continue(s)
  BY <1>3, <1>4, <1>5, <1>6, <1>8, <1>9, <1>11, Returns DEF Continue
<1> QED
  BY <1>1, <1>3, <1>4, <1>10, <1>11, WhoMoves, Returns

\* A deletion that goes on to revoke found the user alive.
LEMMA Deleting ==
  ASSUME TypeInv, NEW s \in Reqs, SoftDelete(s), req'[s].pc \in Revoking
  PROVE  /\ req[s].user \in Users /\ ~users[req[s].user].deleted
         /\ users' = [users EXCEPT ![req[s].user] =
                        [users[req[s].user] EXCEPT !.deleted = TRUE]]
<1>1. req[s].user \in Users
  BY DEF SoftDelete, At, TypeInv, Locals
<1>2. ~Finish(s)
  <2>1. Idle.pc \notin Revoking
    BY DEF Idle, Revoking
  <2> QED
    BY <2>1, LabelAfter
<1> QED
  BY <1>1, <1>2, SelfAfter

-----------------------------------------------------------------------------
(* Deletions *)

\* A request revokes only for a user it deleted itself, and that user's deletion
\* is not answered before the request has run to its end.
DeletionsAreReal ==
  /\ \A r \in Reqs : req[r].pc \in Revoking =>
       /\ users[req[r].user].deleted
       /\ req[r].user \notin revoked
       /\ \A s \in Reqs \ {r} : req[s].pc \in Revoking => req[s].user # req[r].user
  /\ \A u \in revoked : users[u].deleted
  /\ \A t \in late : owner[t] # None /\ users[owner[t]].deleted

\* Nothing takes a deletion back.
LEMMA DeletedStaysDeleted ==
  ASSUME TypeInv, [Next]_vars, NEW u \in Users
  PROVE  /\ users[u].deleted => users'[u].deleted
         /\ users'[u].deleted => \/ users[u].deleted
                                 \/ \E r \in Reqs : /\ SoftDelete(r) /\ u = req[r].user
                                                    /\ req'[r].pc = "smembers"
<1>0. users \in [Users -> Row]
  BY DEF TypeInv, TypeOK
<1>1. ASSUME NEW v \in Users, ChangeRoles(v) PROVE users'[u].deleted = users[u].deleted
  <2>1. PICK m : users' = [users EXCEPT ![v] = [users[v] EXCEPT !.roles = m]]
    BY <1>1 DEF ChangeRoles
  <2> QED
    BY <1>0, <2>1 DEF Row
<1>2. ASSUME NEW r \in Reqs, SoftDelete(r) 
      PROVE  /\ users[u].deleted => users'[u].deleted
             /\ users'[u].deleted => \/ users[u].deleted
                                     \/ u = req[r].user /\ req'[r].pc = "smembers"
  <2>1. req[r].user \in Users
    BY <1>2 DEF SoftDelete, At, TypeInv, Locals
  <2>2. users[req[r].user] \in Row
    BY <1>0, <2>1
  <2> QED
    BY <1>0, <1>2, <2>1, <2>2, SelfAfter, Zenon DEF Row
<1>3. (\E r \in Reqs : SoftDelete(r)) \/ (\E v \in Users : ChangeRoles(v)) \/ UNCHANGED users
  BY Frame, EnvironmentFrame DEF Next, Continue, vars, stores
<1> QED
  BY <1>1, <1>2, <1>3

\* Deletions stay what they are at every step.
LEMMA DeletionsStay ==
  TypeInv /\ Minted /\ DeletionsAreReal /\ [Next]_vars => DeletionsAreReal'
<1> SUFFICES ASSUME TypeInv, Minted, DeletionsAreReal, [Next]_vars PROVE DeletionsAreReal'
  OBVIOUS
<1>0. /\ req \in [Reqs -> Request] /\ late \subseteq Jtis /\ revoked \subseteq Users
      /\ owner \in [Jtis -> Users \cup {None}]
      /\ \A r \in Reqs : req[r].pc \in Revoking \cup PairPC => req[r].user \in Users
  BY DEF TypeInv, TypeOK, Locals, Revoking
<1>1. ASSUME NEW r \in Reqs, req'[r].pc \in Revoking
      PROVE  /\ users'[req'[r].user].deleted
             /\ req'[r].user \notin revoked'
             /\ \A s \in Reqs \ {r} : req'[s].pc \in Revoking => req'[s].user # req'[r].user
  <2> DEFINE u == req[r].user
  <2>1. req'[r].user = u /\ u \in Users
    BY <1>0, <1>1, Arriving DEF SoftDelete, At, TypeInv, Locals
  <2>2. users'[u].deleted
    <3>1. CASE req[r].pc \in Revoking
      BY <2>1, <3>1, DeletedStaysDeleted DEF DeletionsAreReal
    <3>2. ASSUME SoftDelete(r), req'[r].pc = "smembers" PROVE users'[u].deleted
      <4>1. users' = [users EXCEPT ![u] = [users[u] EXCEPT !.deleted = TRUE]]
        BY <1>1, <3>2, Deleting
      <4>2. users \in [Users -> Row] /\ users[u] \in Row
        BY <2>1 DEF TypeInv, TypeOK
      <4> QED
        BY <2>1, <4>1, <4>2 DEF Row
    <3> QED
      BY <1>1, <3>1, <3>2, Arriving
  <2>3. u \notin revoked'
    <3>1. u \notin revoked
      <4>1. CASE req[r].pc \in Revoking
        BY <4>1 DEF DeletionsAreReal
      <4>2. ASSUME SoftDelete(r), req'[r].pc = "smembers" PROVE ~users[u].deleted
        BY <1>1, <4>2, Deleting
      <4> QED
        BY <1>1, <4>1, <4>2, Arriving DEF DeletionsAreReal
    <3>2. ASSUME NEW q \in Reqs, DropSet(q), req[q].user = u PROVE FALSE
      <4>1. req[q].pc \in Revoking /\ req'[q] = Idle
        BY <3>2, LabelAfter, Returns DEF DropSet, At, Revoking
      <4>2. q # r
        BY <1>1, <4>1 DEF Idle, Revoking
      <4>3. ~SoftDelete(r)
        <5>1. users[u].deleted
          BY <3>2, <4>1 DEF DeletionsAreReal
        <5> QED
          BY <1>1, <5>1, Deleting
      <4> QED
        BY <1>1, <3>2, <4>1, <4>2, <4>3, Arriving DEF DeletionsAreReal
    <3>3. (\E q \in Reqs : DropSet(q)) \/ UNCHANGED revoked
      BY Frame, EnvironmentFrame DEF Next, Continue, vars, history
    <3> QED
      BY <3>1, <3>2, <3>3 DEF DropSet
  <2>4. ASSUME NEW s \in Reqs \ {r}, req'[s].pc \in Revoking, req'[s].user = u PROVE FALSE
    <3>1. req[s].user = u
      BY <2>4, Arriving
    <3>2. ASSUME req[r].pc \notin Revoking PROVE FALSE
      <4>1. SoftDelete(r) /\ ~users[u].deleted
        BY <1>1, <3>2, Arriving, Deleting
      <4>2. Keeps(s)
        BY <4>1, OthersKeep DEF Continue
      <4> QED
        BY <2>4, <3>1, <4>1, <4>2 DEF Keeps, DeletionsAreReal
    <3>3. ASSUME req[s].pc \notin Revoking PROVE FALSE
      <4>1. SoftDelete(s) /\ ~users[u].deleted
        BY <2>4, <3>1, <3>3, Arriving, Deleting
      <4>2. Keeps(r)
        BY <4>1, OthersKeep DEF Continue
      <4> QED
        BY <1>1, <4>1, <4>2 DEF Keeps, DeletionsAreReal
    <3> QED
      BY <3>1, <3>2, <3>3 DEF DeletionsAreReal
  <2> QED
    BY <2>1, <2>2, <2>3, <2>4
<1>2. ASSUME NEW u \in revoked' PROVE users'[u].deleted
  <2>1. ASSUME NEW r \in Reqs, DropSet(r), u = req[r].user PROVE u \in Users /\ users[u].deleted
    BY <1>0, <2>1 DEF DropSet, At, Revoking, DeletionsAreReal
  <2>2. (\E r \in Reqs : DropSet(r)) \/ UNCHANGED revoked
    BY Frame, EnvironmentFrame DEF Next, Continue, vars, history
  <2>3. u \in Users /\ users[u].deleted
    BY <1>0, <1>2, <2>1, <2>2 DEF DropSet, DeletionsAreReal
  <2> QED
    BY <2>3, DeletedStaysDeleted
<1>3. ASSUME NEW t \in late' PROVE owner'[t] # None /\ users'[owner'[t]].deleted
  <2>1. /\ t \in Jtis /\ owner[t] # None /\ users[owner[t]].deleted
    <3>1. ASSUME NEW r \in Reqs, Grant(r), t = req[r].new, t \notin late
          PROVE  t \in Jtis /\ owner[t] # None /\ users[owner[t]].deleted
      <4>1. t \in Jtis /\ req[r].user \in Users /\ t # None /\ owner[t] = req[r].user
        BY <3>1, NoneAssumption DEF Grant, At, TypeInv, Locals, Minted
      <4>2. users[req[r].user].deleted
        BY <1>3, <3>1 DEF Grant
      <4> QED
        BY <4>1, <4>2, NoneAssumption
    <3>2. (\E r \in Reqs : Grant(r)) \/ UNCHANGED late
      BY Frame, EnvironmentFrame DEF Next, Continue, vars, history
    <3> QED
      BY <1>0, <1>3, <3>1, <3>2 DEF Grant, DeletionsAreReal
  <2>2. owner'[t] = owner[t]
    BY <2>1, OwnerStays
  <2> QED
    BY <1>0, <2>1, <2>2, DeletedStaysDeleted
<1> QED
  BY <1>1, <1>2, <1>3 DEF DeletionsAreReal

\* A user whose deletion was answered is deleted for good, and so is the user of
\* a request that revokes.
LEMMA DeletionsHold == Spec => []DeletionsAreReal
<1>1. Init => DeletionsAreReal
  BY DEF Init, DeletionsAreReal, Idle, Revoking
<1> QED
  BY <1>1, DeletionsStay, TypeCorrect, MintedCorrect, PTL DEF Spec

\* The loop of a revocation deletes members of the set of its own, deleted user.
LEMMA RevokedOwner ==
  ASSUME TypeInv, IndexInv, DeletionsAreReal, NEW r \in Reqs, RevokeDel(r) \/ ResendDel(r),
         NEW t \in Jtis, Live(t), ~Live(t)'
  PROVE  users[owner[t]].deleted
<1>1. PICK m \in req[r].todo : refresh' = [refresh EXCEPT ![m] = None]
  BY DEF RevokeDel, ResendDel
<1>2. t = m
  BY <1>1 DEF TypeInv, TypeOK, Live
<1> QED
  BY <1>1, <1>2 DEF RevokeDel, ResendDel, At, Revoking, DeletionsAreReal, IndexInv, TodoOwned

\* A token a client holds, of a user who is not deleted, is taken out of Redis by
\* time or by a request that presents it, and by nothing else.
THEOREM OnlyHolderEndsSessionCorrect == Spec => OnlyHolderEndsSession
<1>1. TypeInv /\ Minted /\ IndexInv /\ DeletionsAreReal /\ [Next]_vars =>
        [\A t \in issued :
           (Live(t) /\ refresh'[t] = None /\ ~users[owner[t]].deleted) =>
             \/ refresh[t].ttl = 1
             \/ \E r \in Reqs : req[r].tok = t /\ req[r].pc \in {"del", "logoutDel"}]_vars
  <2> SUFFICES ASSUME TypeInv, Minted, IndexInv, DeletionsAreReal, [Next]_vars,
                      NEW t \in issued,
                      Live(t), refresh'[t] = None, ~users[owner[t]].deleted
               PROVE  \/ refresh[t].ttl = 1
                      \/ \E r \in Reqs : req[r].tok = t /\ req[r].pc \in {"del", "logoutDel"}
    OBVIOUS
  <2>0. /\ refresh \in [Jtis -> Payload \cup {None}]
        /\ t \in Jtis /\ refresh[t] # None /\ ~Live(t)'
    BY DEF TypeInv, TypeOK, Live
  <2>1. ASSUME NEW r \in Reqs, RefreshDel(r) \/ LogoutDel(r)
        PROVE  req[r].tok = t /\ req[r].pc \in {"del", "logoutDel"}
    BY <2>0, <2>1 DEF RefreshDel, LogoutDel, At
  <2>2. ASSUME NEW r \in Reqs, PipeSet(r) PROVE FALSE
    <3>1. NewPayload(r) \in Payload
      BY <2>2, TTLAssumption DEF PipeSet, At, TypeInv, Locals, NewPayload, Payload
    <3> QED
      BY <2>0, <2>2, <3>1, PayloadAssumption DEF PipeSet
  <2>3. ASSUME NEW r \in Reqs, RevokeDel(r) \/ ResendDel(r) PROVE FALSE
    BY <2>0, <2>3, RevokedOwner
  <2>4. ASSUME Tick PROVE refresh[t].ttl = 1
    <3>1. refresh[t] \in Payload /\ Aged(refresh[t]) = None
      BY <2>0, <2>4 DEF Tick
    <3>2. ASSUME refresh[t].ttl # 1 PROVE Aged(refresh[t]) \in Payload
      BY <2>0, <3>1, <3>2, TTLAssumption DEF Aged, Payload
    <3> QED
      BY <3>1, <3>2, PayloadAssumption
  <2>5. \/ \E r \in Reqs : \/ PipeSet(r) \/ RefreshDel(r) \/ LogoutDel(r) \/ RevokeDel(r)
                          \/ ResendDel(r)
        \/ Tick \/ UNCHANGED refresh
    BY Frame, EnvironmentFrame DEF Next, Continue, vars, stores
  <2> QED
    BY <2>0, <2>1, <2>2, <2>3, <2>4, <2>5
<1> QED
  BY <1>1, TypeCorrect, MintedCorrect, IndexInvHolds, DeletionsHold, PTL
  DEF Spec, OnlyHolderEndsSession

-----------------------------------------------------------------------------
(* Every set has an expiry, or a request that is about to set it *)

\* The steps at which an EXPIRE is still to come.
Filling == {"set", "sadd", "expire"}

\* While no request was aborted, a set without an expiry is one whose EXPIRE is
\* still to come.
LEMMA ExpiryStays == TypeInv /\ IndexHasExpiry /\ [Next]_vars => IndexHasExpiry'
<1> SUFFICES ASSUME TypeInv, IndexHasExpiry, [Next]_vars, aborts' = 0,
                    NEW u \in Users, index'[u] # {}, idxTTL'[u] = 0
             PROVE  \E r \in Reqs : req'[r].pc \in Filling /\ req'[r].user = u
  BY DEF IndexHasExpiry, Filling
<1>0. /\ index \in [Users -> SUBSET Jtis] /\ idxTTL \in [Users -> 0..SetLife]
      /\ aborts \in Nat
  BY BoundsAssumption DEF TypeInv, TypeOK
<1>1. aborts = 0 /\ \A r \in Reqs : ~Abort(r)
  <2>1. \A r \in Reqs : Abort(r) => aborts' = aborts + 1
    BY DEF Abort
  <2>2. (\E r \in Reqs : Abort(r)) \/ UNCHANGED aborts
    BY Frame, EnvironmentFrame DEF Next, Continue, vars, faults
  <2> QED
    BY <1>0, <2>1, <2>2
<1>2. ASSUME NEW r \in Reqs, PipeExpire(r) PROVE req[r].user # u
  BY <1>0, <1>2, Lives DEF PipeExpire
<1>3. ASSUME NEW r \in Reqs, req[r].pc \in Filling, req[r].user = u
      PROVE  req'[r].pc \in Filling /\ req'[r].user = u
  <2>1. Keeps(r) \/ PipeSet(r) \/ PipeSAdd(r) \/ ResendPair(r)
    BY <1>1, <1>2, <1>3, Leaving DEF At, Filling
  <2> QED
    BY <1>3, <2>1, SelfAfter DEF Keeps, Filling
<1>4. ASSUME NEW r \in Reqs, PipeSAdd(r), req[r].user = u
      PROVE  req'[r].pc \in Filling /\ req'[r].user = u
  BY <1>4, SelfAfter DEF Filling
<1>5. ASSUME \A r \in Reqs : PipeSAdd(r) => req[r].user # u
      PROVE  index[u] # {} /\ idxTTL[u] = 0
  <2>1. index[u] # {}
    BY <1>5, IndexGrows
  <2>2. ASSUME Tick PROVE idxTTL[u] = 0
    BY <1>0, <2>2 DEF Tick, Expiring
  <2> QED
    BY <1>2, <2>1, <2>2, ExpiryChanges
<1> QED
  BY <1>1, <1>3, <1>4, <1>5 DEF IndexHasExpiry, Filling

\* While no request was aborted, the set of a user gets an expiry with every pair.
THEOREM IndexHasExpiryCorrect == Spec => []IndexHasExpiry
<1>1. Init => IndexHasExpiry
  BY DEF Init, IndexHasExpiry
<1> QED
  BY <1>1, ExpiryStays, TypeCorrect, PTL DEF Spec

-----------------------------------------------------------------------------
(* A deletion finds every token that was handed out before it *)

\* Tokens a client received, or is about to receive, from a user who is alive.
Counted(t) ==
  \/ t \in issued \ late
  \/ \E r \in Reqs : /\ req[r].pc \in {"expire", "reply"} /\ req[r].new = t
                     /\ ~users[req[r].user].deleted

\* Where such a token is as long as it lives: in its user's set until the SMEMBERS
\* of that user's deletion, then in what this deletion has left to do.  Time can
\* take it from the set, and its own logout does so before it deletes the key.
Findable(t) ==
  \/ t \in lost
  \/ LogoutUnderWay(t)
  \/ /\ t \in index[owner[t]]
     /\ \/ ~users[owner[t]].deleted
        \/ \E r \in Reqs : At(r, "smembers") /\ req[r].user = owner[t]
  \/ \E r \in Reqs : At(r, "revoke") /\ t \in req[r].todo

Tracked == NoFaults => \A t \in Jtis : Live(t) /\ Counted(t) => Findable(t)

\* What takes a token out of a set.
LEMMA IndexShrinks ==
  ASSUME TypeInv, [Next]_vars, NEW u \in Users, NEW t \in index[u], t \notin index'[u]
  PROVE  \/ \E r \in Reqs : RefreshSRem(r) /\ req[r].tok = t
         \/ \E r \in Reqs : LogoutSRem(r) /\ req[r].tok = t
         \/ \E r \in Reqs : (DropSet(r) \/ ResendDropSet(r)) /\ req[r].user = u
         \/ t \in lost'
<1>0. index \in [Users -> SUBSET Jtis]
  BY DEF TypeInv, TypeOK
<1>1. ASSUME NEW r \in Reqs, RefreshSRem(r) \/ LogoutSRem(r) PROVE req[r].tok = t
  BY <1>0, <1>1 DEF RefreshSRem, LogoutSRem, RemoveFromIndex
<1>2. ASSUME NEW r \in Reqs, DropSet(r) \/ ResendDropSet(r) PROVE req[r].user = u
  BY <1>0, <1>2 DEF DropSet, ResendDropSet, RemoveFromIndex
<1>3. ASSUME NEW r \in Reqs, PipeSAdd(r) PROVE FALSE
  BY <1>0, <1>3 DEF PipeSAdd
<1>4. ASSUME Tick PROVE t \in lost'
  BY <1>0, <1>4 DEF Tick
<1>5. ASSUME NEW r \in Reqs, PipeExpire(r) PROVE t \in lost'
  BY <1>0, <1>5 DEF PipeExpire
<1>6. \/ \E r \in Reqs : PipeSAdd(r) \/ PipeExpire(r) \/ RefreshSRem(r) \/ LogoutSRem(r)
                         \/ DropSet(r) \/ ResendDropSet(r)
      \/ Tick \/ UNCHANGED index
  BY Frame, EnvironmentFrame DEF Next, Continue, vars, stores
<1> QED
  BY <1>1, <1>2, <1>3, <1>4, <1>5, <1>6

\* A token comes to count with the SADD that puts it in the set of a live user.
LEMMA CountedAppears ==
  ASSUME TypeInv, [Next]_vars, NEW t \in Jtis, Counted(t)'
  PROVE  \/ Counted(t)
         \/ \E r \in Reqs : PipeSAdd(r) /\ t = req[r].new /\ ~users[req[r].user].deleted
<1>1. CASE t \in issued' \ late'
  <2>1. ASSUME NEW r \in Reqs, Grant(r) PROVE Counted(t)
    <3>1. t \in issued \ late \/ (t = req[r].new /\ ~users[req[r].user].deleted)
      BY <1>1, <2>1 DEF Grant
    <3> QED
      BY <2>1, <3>1 DEF Grant, At, Counted
  <2>2. (\E r \in Reqs : Grant(r)) \/ UNCHANGED <<issued, late>>
    BY Frame, EnvironmentFrame DEF Next, Continue, vars, history
  <2> QED
    BY <1>1, <2>1, <2>2 DEF Counted
<1>2. ASSUME NEW r \in Reqs, req'[r].pc \in {"expire", "reply"}, req'[r].new = t,
             ~users'[req'[r].user].deleted
      PROVE  \/ Counted(t)
             \/ PipeSAdd(r) /\ t = req[r].new /\ ~users[req[r].user].deleted
  <2>1. req'[r].new = req[r].new /\ req'[r].user = req[r].user
    BY <1>2, Arriving
  <2>2. req[r].user \in Users
    <3>1. TypeInv'
      BY TypeStays
    <3> QED
      BY <1>2, <2>1, <3>1 DEF TypeInv, Locals
  <2>3. ~users[req[r].user].deleted
    BY <1>2, <2>1, <2>2, DeletedStaysDeleted
  <2>4. \/ PipeSAdd(r) \/ req[r].pc \in {"expire", "reply"}
    BY <1>2, Arriving DEF PipeExpire, At
  <2> QED
    BY <1>2, <2>1, <2>3, <2>4 DEF Counted
<1> QED
  BY <1>1, <1>2 DEF Counted

\* No failure so far means none with the next step either way.
LEMMA NoFaultStep ==
  ASSUME TypeInv, [Next]_vars, NoFaults'
  PROVE  NoFaults /\ \A r \in Reqs : ~SkipCall(r) /\ ~Abort(r)
<1>0. skips \in Nat /\ aborts \in Nat
  BY BoundsAssumption DEF TypeInv, TypeOK
<1>1. skips' = 0 /\ aborts' = 0 /\ skips' # skips + 1 /\ aborts' # aborts + 1
  BY <1>0 DEF NoFaults
<1>2. (\E r \in Reqs : SkipCall(r) \/ Abort(r)) \/ UNCHANGED <<skips, aborts>>
  BY Frame, EnvironmentFrame DEF Next, Continue, vars, faults
<1>3. ASSUME NEW r \in Reqs PROVE ~SkipCall(r) /\ ~Abort(r)
  BY <1>1 DEF SkipCall, Abort
<1>4. skips' = skips /\ aborts' = aborts
  BY <1>2, <1>3 DEF faults
<1>5. NoFaults
  BY <1>4 DEF NoFaults
<1> QED
  BY <1>3, <1>5

\* As long as it lives, a token that counts can be found where its user's deletion
\* looks for it.
LEMMA TrackedStays ==
  /\ TypeInv /\ Minted /\ KeysInv /\ IndexInv /\ DeletionsAreReal
  /\ Tracked /\ [Next]_vars
  => Tracked'
<1> SUFFICES ASSUME TypeInv, Minted, KeysInv, IndexInv, DeletionsAreReal, Tracked, [Next]_vars,
                    NoFaults', NEW t \in Jtis, Live(t)', Counted(t)'
             PROVE  Findable(t)'
  BY DEF Tracked
<1>0. NoFaults /\ \A r \in Reqs : ~SkipCall(r) /\ ~Abort(r)
  BY NoFaultStep
<1> DEFINE u == owner[t]
<1>1. ASSUME NEW r \in Reqs, PipeSAdd(r), t = req[r].new, ~users[req[r].user].deleted
      PROVE  Findable(t)'
  <2>1. u = req[r].user /\ u \in Users
    BY <1>1, NoneAssumption DEF PipeSAdd, At, Minted, TypeInv, Locals
  <2>2. t \in index'[u] /\ users' = users /\ owner' = owner
    BY <1>1, <2>1 DEF PipeSAdd, history, TypeInv, TypeOK
  <2> QED
    BY <1>1, <2>1, <2>2 DEF Findable
<1>2. ASSUME Counted(t)
      PROVE  u \in Users /\ owner'[t] = u /\ Live(t)
  <2>1. u \in Users
    BY <1>2, NoneAssumption DEF Counted, Minted, TypeInv, TypeOK, Locals
  <2>2. \A r \in Reqs : PipeSet(r) => t # req[r].new
    BY <1>2, <2>1, NoneAssumption DEF Counted, PipeSet, At, TypeInv, Locals, Minted
  <2> QED
    BY <2>1, <2>2, OwnersAppear, KeysAppear
<1>3. ASSUME t \in lost PROVE Findable(t)'
  <2>1. lost \subseteq lost'
    BY Frame, EnvironmentFrame DEF Next, Continue, PipeExpire, Tick, vars, history
  <2> QED
    BY <1>3, <2>1 DEF Findable
<1>4. ASSUME NEW r \in Reqs, At(r, "logoutDel"), req[r].tok = t PROVE Findable(t)'
  <2>1. ~LogoutDel(r)
    BY <1>4 DEF LogoutDel, Live, TypeInv, TypeOK
  <2>2. Keeps(r)
    BY <1>0, <1>4, <2>1, Leaving
  <2> QED
    BY <1>4, <2>2 DEF Keeps, At, Findable, LogoutUnderWay
<1>5. ASSUME NEW r \in Reqs, At(r, "revoke"), t \in req[r].todo PROVE Findable(t)'
  <2>1. CASE Keeps(r)
    BY <1>5, <2>1 DEF Keeps, At, Findable
  <2>2. CASE RevokeDel(r)
    <3>1. PICK m \in req[r].todo : refresh' = [refresh EXCEPT ![m] = None] /\ NextMember(r, m)
      BY <2>2 DEF RevokeDel
    <3>2. m # t
      BY <3>1 DEF Live, TypeInv, TypeOK
    <3>3. t \in req[r].todo \ {m} /\ req[r].todo # {m}
      BY <1>5, <3>2
    <3>4. req'[r].pc = "revoke" /\ t \in req'[r].todo
      BY <3>1, <3>3, SelfAfter
    <3> QED
      BY <3>4 DEF At, Findable
  <2> QED
    BY <1>0, <1>5, <2>1, <2>2, Leaving
<1>6. ASSUME Counted(t), t \in index[u],
             \/ ~users[u].deleted
             \/ \E r \in Reqs : At(r, "smembers") /\ req[r].user = u
      PROVE  Findable(t)'
  <2>1. u \in Users /\ owner'[t] = u /\ Live(t)
    BY <1>2, <1>6
  <2>2. ASSUME t \in index'[u] PROVE Findable(t)'
    <3>1. CASE ~users'[u].deleted
      BY <2>1, <2>2, <3>1 DEF Findable
    <3>2. ASSUME NEW r \in Reqs, req'[r].pc = "smembers", req'[r].user = u
          PROVE  Findable(t)'
      BY <2>1, <2>2, <3>2 DEF Findable, At
    <3>3. ASSUME NEW r \in Reqs, SoftDelete(r), u = req[r].user, req'[r].pc = "smembers"
          PROVE  Findable(t)'
      BY <3>2, <3>3, Arriving DEF Revoking
    <3>4. ASSUME NEW r \in Reqs, At(r, "smembers"), req[r].user = u PROVE Findable(t)'
      <4>1. CASE Keeps(r)
        BY <3>2, <3>4, <4>1 DEF Keeps, At
      <4>2. CASE SMembers(r)
        <5>1. req'[r].pc = "revoke" /\ t \in req'[r].todo
          BY <1>6, <3>4, <4>2, SelfAfter
        <5> QED
          BY <5>1 DEF Findable, At
      <4> QED
        BY <1>0, <3>4, <4>1, <4>2, Leaving
    <3> QED
      BY <1>6, <2>1, <3>1, <3>3, <3>4, DeletedStaysDeleted
  <2>3. ASSUME NEW r \in Reqs, RefreshSRem(r), req[r].tok = t PROVE FALSE
    BY <1>0, <2>1, <2>3, NoneAssumption DEF RefreshSRem, At, NoFaults, KeysInv, Rotated
  <2>4. ASSUME NEW r \in Reqs, LogoutSRem(r), req[r].tok = t PROVE Findable(t)'
    BY <2>4, SelfAfter DEF Findable, LogoutUnderWay, At
  <2>5. ASSUME NEW r \in Reqs, DropSet(r) \/ ResendDropSet(r), req[r].user = u PROVE FALSE
    <3>1. req[r].pc = "dropSet" /\ users[u].deleted
      BY <2>5 DEF DropSet, ResendDropSet, At, Revoking, DeletionsAreReal
    <3>2. PICK q \in Reqs : req[q].pc = "smembers" /\ req[q].user = u
      BY <1>6, <3>1 DEF At
    <3> QED
      BY <2>5, <3>1, <3>2 DEF Revoking, DeletionsAreReal
  <2>6. ASSUME t \in lost' PROVE Findable(t)'
    BY <2>6 DEF Findable
  <2> QED
    BY <1>6, <2>1, <2>2, <2>3, <2>4, <2>5, <2>6, IndexShrinks
<1>7. ASSUME Counted(t) PROVE Findable(t)
  BY <1>0, <1>2, <1>7 DEF Tracked
<1> QED
  BY <1>1, <1>3, <1>4, <1>5, <1>6, <1>7, CountedAppears DEF Findable, LogoutUnderWay

\* In every behaviour, a token that counts can be found as long as it lives.
LEMMA TrackedHolds == Spec => []Tracked
<1>1. Init => Tracked
  BY DEF Init, Tracked, Live
<1> QED
  BY <1>1, TrackedStays, TypeCorrect, MintedCorrect, KeysInvHolds, IndexInvHolds, DeletionsHold,
     PTL DEF Spec

\* If nothing failed, a token that a client holds is in the set of its user, unless
\* the user is deleted, the set expired under it or its logout is under way.
THEOREM IssuedTokenIsIndexedCorrect == Spec => []IssuedTokenIsIndexed
<1>1. TypeInv /\ Tracked /\ IndexInv /\ DeletionsAreReal => IssuedTokenIsIndexed
  <2> SUFFICES ASSUME TypeInv, Tracked, IndexInv, DeletionsAreReal, NoFaults,
                      NEW t \in issued, Live(t)
               PROVE  \/ t \in index[owner[t]] \/ users[owner[t]].deleted
                      \/ t \in lost \/ LogoutUnderWay(t)
    BY DEF IssuedTokenIsIndexed
  <2>1. CASE t \in late
    BY <2>1 DEF DeletionsAreReal
  <2>2. CASE t \notin late
    <3>1. Findable(t)
      BY <2>2 DEF Tracked, Counted, TypeInv, TypeOK
    <3>2. ASSUME NEW r \in Reqs, At(r, "revoke"), t \in req[r].todo
          PROVE  users[owner[t]].deleted
      BY <3>2 DEF At, Revoking, DeletionsAreReal, IndexInv, TodoOwned
    <3> QED
      BY <3>1, <3>2 DEF Findable
  <2> QED
    BY <2>1, <2>2
<1> QED
  BY <1>1, TypeCorrect, TrackedHolds, IndexInvHolds, DeletionsHold, PTL

\* If nothing failed, a deletion that was answered has ended every token its user's
\* clients received before, but those time or their own logout took from the set.
THEOREM DeleteRevokesEarlierTokensCorrect == Spec => []DeleteRevokesEarlierTokens
<1>1. TypeInv /\ Tracked /\ IndexInv /\ DeletionsAreReal => DeleteRevokesEarlierTokens
  <2> SUFFICES ASSUME TypeInv, Tracked, IndexInv, DeletionsAreReal, NoFaults,
                      NEW t \in issued \ late, owner[t] \in revoked, Live(t)
               PROVE  t \in lost \/ LogoutUnderWay(t)
    BY DEF DeleteRevokesEarlierTokens
  <2>1. Findable(t)
    BY DEF Tracked, Counted, TypeInv, TypeOK
  <2>2. users[owner[t]].deleted
    BY DEF DeletionsAreReal
  <2>3. ASSUME NEW r \in Reqs, req[r].pc \in {"smembers", "revoke"}, req[r].user = owner[t]
        PROVE  FALSE
    BY <2>3 DEF Revoking, DeletionsAreReal
  <2>4. ASSUME NEW r \in Reqs, At(r, "revoke"), t \in req[r].todo PROVE req[r].user = owner[t]
    BY <2>4 DEF IndexInv, TodoOwned
  <2> QED
    BY <2>1, <2>2, <2>3, <2>4 DEF Findable, At
<1> QED
  BY <1>1, TypeCorrect, TrackedHolds, IndexInvHolds, DeletionsHold, PTL

-----------------------------------------------------------------------------
(* A deleted user gets no new session *)

\* A request has a pair to store right after it has read its user, and from there on.
LEMMA PairFollowsRead ==
  ASSUME TypeInv, [Next]_vars, NEW s \in Reqs, req'[s].pc \in PairPC
  PROVE  \/ LoginLookup(s) \/ RefreshReread(s)
         \/ req[s].pc \in PairPC /\ req'[s].new = req[s].new /\ req'[s].user = req[s].user
<1> DEFINE Goal == \/ LoginLookup(s) \/ RefreshReread(s)
                   \/ /\ req[s].pc \in PairPC
                      /\ req'[s].new = req[s].new /\ req'[s].user = req[s].user
<1>1. CASE Finish(s)
  BY <1>1, LabelAfter DEF Idle
<1>2. CASE \/ Start(s) \/ RefreshGet(s) \/ RefreshDel(s) \/ RefreshSRem(s) \/ LogoutGet(s)
           \/ LogoutSRem(s)
  BY <1>1, <1>2, LabelAfter
<1>3. ASSUME NEW t, NextMember(s, t), req[s].pc = "revoke" PROVE FALSE
  BY <1>3, SelfAfter
<1>4. CASE SMembers(s) \/ SoftDelete(s) \/ RevokeDel(s)
  BY <1>1, <1>3, <1>4, SelfAfter DEF RevokeDel, At
<1>5. CASE SkipCall(s)
  BY <1>3, <1>5, LabelAfter
<1>6. CASE PipeSet(s) \/ PipeSAdd(s) \/ PipeExpire(s) \/ ResendPair(s)
  <2>1. req[s].pc \in PairPC
    BY <1>6 DEF PipeSet, PipeSAdd, PipeExpire, ResendPair, At
  <2> QED
    BY <1>6, <2>1, SelfAfter
<1>7. CASE Keeps(s)
  BY <1>7 DEF Keeps
<1>8. CASE Continue(s)
  BY <1>1, <1>2, <1>4, <1>6, <1>8, Returns DEF Continue
<1> HIDE DEF Goal
<1>9. Goal
  BY <1>1, <1>2, <1>5, <1>6, <1>7, <1>8, WhoMoves, Returns DEF Goal
<1> QED
  BY <1>9 DEF Goal

\* From its deletion on a user has only the sessions it had, and those that a request
\* had under way: none of them is exchanged for another.
THEOREM DeletedUserOnlyLosesSessionsCorrect == Spec => DeletedUserOnlyLosesSessions
<1>1. TypeInv /\ [Next]_vars =>
        [\A u \in Users : users[u].deleted => SessionsOf(u)' \subseteq SessionsOf(u)]_vars
  <2> SUFFICES ASSUME TypeInv, [Next]_vars, NEW u \in Users, users[u].deleted,
                      NEW t \in SessionsOf(u)'
               PROVE  t \in SessionsOf(u)
    OBVIOUS
  <2>1. ASSUME NEW r \in Reqs, PipeSet(r), t = req[r].new, owner'[t] = u
        PROVE  t \in SessionsOf(u)
    <3>1. t \in Jtis /\ owner' = [owner EXCEPT ![t] = req[r].user]
      BY <2>1 DEF PipeSet, At, TypeInv, Locals
    <3>2. req[r].user = u
      BY <2>1, <3>1 DEF TypeInv, TypeOK
    <3> QED
      BY <2>1, <3>2 DEF PipeSet, At, SessionsOf
  <2>2. ASSUME t \in Jtis, Live(t)', owner'[t] = u PROVE t \in SessionsOf(u)
    <3>1. ASSUME ~\E r \in Reqs : PipeSet(r) /\ t = req[r].new
          PROVE  owner[t] = u /\ Live(t)
      BY <2>2, <3>1, KeysAppear, OwnersAppear
    <3> QED
      BY <2>1, <2>2, <3>1 DEF SessionsOf
  <2>3. ASSUME NEW r \in Reqs, req'[r].pc \in PairPC, req'[r].user = u, t = req'[r].new
        PROVE  t \in SessionsOf(u)
    <3>1. CASE req[r].pc \in PairPC /\ req'[r].new = req[r].new /\ req'[r].user = req[r].user
      BY <2>3, <3>1 DEF SessionsOf
    <3>2. ASSUME LoginLookup(r) \/ RefreshReread(r) PROVE FALSE
      <4>1. req'[r].user = req[r].user
        <5>1. PICK j : req' = [req EXCEPT ![r].pc = "set", ![r].new = j,
                                          ![r].roles = users[req[r].user].roles]
          BY <3>2 DEF LoginLookup, RefreshReread, ReadUserAndMint
        <5> QED
          BY <5>1 DEF TypeInv, TypeOK, Request
      <4> QED
        BY <2>3, <3>2, <4>1 DEF LoginLookup, RefreshReread, ReadUserAndMint
    <3> QED
      BY <2>3, <3>1, <3>2, PairFollowsRead
  <2> QED
    BY <2>2, <2>3 DEF SessionsOf, At
<1> QED
  BY <1>1, TypeCorrect, PTL DEF Spec, DeletedUserOnlyLosesSessions
=============================================================================
