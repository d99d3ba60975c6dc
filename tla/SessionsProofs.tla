--------------------------- MODULE SessionsProofs ---------------------------
(***************************************************************************)
(* Proofs about Sessions, for every number of users, requests and tokens,  *)
(* every lifetime and every number of failures.                            *)
(***************************************************************************)
EXTENDS Sessions, TLAPS

\* What the local variables of a request hold at each of its steps.
Locals ==
  \A r \in Reqs :
    /\ req[r].pc \in {"lookup", "del", "srem", "reread", "logoutSRem", "logoutDel"}
                       \cup PairPC \cup DeletePC => req[r].user \in Users
    /\ req[r].pc \in RefreshPC \cup LogoutPC => req[r].tok \in Jtis
    /\ req[r].pc \in PairPC => req[r].new \in Jtis /\ req[r].roles \in Roles

TypeInv == TypeOK /\ Locals

USE DEF LoginPC, RefreshPC, PairPC, LogoutPC, DeletePC

\* A set lives for whole seconds: longer than nothing, and no shorter than a token
\* but for the fraction that is cut off.
LEMMA Lives ==
  /\ CutOff \in Nat /\ SetLife \in Nat
  /\ SetLife = 0 <=> TTL = 0
  /\ TTL <= SetLife + CutOff
<1>1. TTL \in Nat /\ Second \in Nat /\ Second >= 1
  BY TTLAssumption
<1>2. CASE TTL < Second
  BY <1>1, <1>2 DEF CutOff, SetLife
<1>3. CASE TTL >= Second
  <2>1. TTL % Second \in 0..(Second - 1)
    BY <1>1
  <2>2. CutOff = TTL % Second /\ SetLife = TTL - CutOff
    BY <1>1, <1>3 DEF CutOff, SetLife
  <2> QED
    BY <1>1, <1>3, <2>1, <2>2
<1> QED
  BY <1>1, <1>2, <1>3

\* Every label of the requests is a pc, and an idle slot is a request.
LEMMA Labels ==
  /\ \A l \in {"idle", "lookup", "get", "del", "srem", "reread", "set", "sadd", "expire",
               "reply", "logoutGet", "logoutSRem", "logoutDel", "softDelete", "smembers",
               "revoke", "dropSet"} : l \in PC
  /\ Idle \in Request
  BY DEF PC, Idle, Request

\* A tick leaves a payload or removes the key.
LEMMA AgedType == \A p \in Payload \cup {None} : Aged(p) \in Payload \cup {None}
  BY TTLAssumption DEF Payload, Aged

\* A soft delete and a role change leave a row.
LEMMA RowUpdate ==
  ASSUME NEW row \in Row
  PROVE  /\ [row EXCEPT !.deleted = TRUE] \in Row
         /\ \A s \in Roles : [row EXCEPT !.roles = s] \in Row
  BY DEF Row

\* A row joins the rows seen; nothing else of a request changes.
LEMMA WitnessType ==
  ASSUME TypeOK, NEW u \in Users, NEW row \in Row
  PROVE  /\ Witness(u, row) \in [Reqs -> Request]
         /\ \A r \in Reqs : /\ Witness(u, row)[r].pc = req[r].pc
                            /\ Witness(u, row)[r].user = req[r].user
                            /\ Witness(u, row)[r].tok = req[r].tok
                            /\ Witness(u, row)[r].new = req[r].new
                            /\ Witness(u, row)[r].roles = req[r].roles
                            /\ Witness(u, row)[r].todo = req[r].todo
<1>1. \A r \in Reqs : req[r].seen \cup {row} \in SUBSET Row
  BY DEF TypeOK, Request
<1> QED
  BY <1>1 DEF TypeOK, Witness, Request

\* The local variables of the requests keep their types.
LEMMA RequestsStayTyped == TypeInv /\ [Next]_vars => req' \in [Reqs -> Request]
<1> SUFFICES ASSUME TypeInv, [Next]_vars PROVE req' \in [Reqs -> Request]
  OBVIOUS
<1>0. /\ req \in [Reqs -> Request]
      /\ users \in [Users -> Row]
      /\ index \in [Users -> SUBSET Jtis]
      /\ refresh \in [Jtis -> Payload \cup {None}]
      /\ \A u \in Users : {users[u]} \in SUBSET Row
  BY DEF TypeInv, TypeOK
<1>1. ASSUME NEW r \in Reqs, Start(r) PROVE req' \in [Reqs -> Request]
  <2>1. ASSUME NEW u \in Users, StartLogin(r, u) PROVE req' \in [Reqs -> Request]
    <3>1. ASSUME NEW rows \in SUBSET Row
          PROVE  [req[r] EXCEPT !.pc = "lookup", !.user = u, !.seen = rows] \in Request
      BY <1>0, Labels DEF Request
    <3>2. PICK rows \in SUBSET Row :
            req' = [req EXCEPT ![r].pc = "lookup", ![r].user = u, ![r].seen = rows]
      BY <1>0, <2>1 DEF StartLogin
    <3> QED
      BY <1>0, <3>1, <3>2
  <2>2. ASSUME NEW u \in Users, StartDelete(r, u) PROVE req' \in [Reqs -> Request]
    <3>1. [req[r] EXCEPT !.pc = "softDelete", !.user = u] \in Request
      BY <1>0, Labels DEF Request
    <3> QED
      BY <1>0, <2>2, <3>1 DEF StartDelete
  <2>3. ASSUME NEW t \in Jtis, StartRefresh(r, t) \/ StartLogout(r, t)
        PROVE  req' \in [Reqs -> Request]
    <3>1. ASSUME NEW l \in PC PROVE [req[r] EXCEPT !.pc = l, !.tok = t] \in Request
      BY ZenonT(40), <1>0 DEF Request
    <3>2. PICK l \in PC : req' = [req EXCEPT ![r].pc = l, ![r].tok = t]
      BY <2>3, Labels DEF StartRefresh, StartLogout
    <3> QED
      BY <1>0, <3>1, <3>2
  <2> QED
    BY <1>1, <2>1, <2>2, <2>3 DEF Start
<1>2. ASSUME NEW r \in Reqs, Finish(r) PROVE req' \in [Reqs -> Request]
  BY <1>0, <1>2, Labels DEF Finish
<1>3. ASSUME NEW r \in Reqs, LoginLookup(r) \/ RefreshReread(r)
      PROVE  req' \in [Reqs -> Request]
  <2>1. users[req[r].user].roles \in Roles
    BY <1>0, <1>3 DEF TypeInv, Locals, LoginLookup, RefreshReread, At, Row
  <2>2. PICK t \in Jtis :
          req' = [req EXCEPT ![r].pc = "set", ![r].new = t,
                             ![r].roles = users[req[r].user].roles]
    BY <1>3 DEF LoginLookup, RefreshReread, ReadUserAndMint, Fresh
  <2>3. ASSUME NEW s \in Roles
        PROVE  [req[r] EXCEPT !.pc = "set", !.new = t, !.roles = s] \in Request
    BY <1>0, Labels DEF Request
  <2> QED
    BY <1>0, <2>1, <2>2, <2>3
<1>4. ASSUME NEW r \in Reqs, RefreshGet(r) PROVE req' \in [Reqs -> Request]
  <2>1. CASE Live(req[r].tok)
    <3>1. req[r].tok \in Jtis
      BY <1>4 DEF RefreshGet, At, TypeInv, Locals
    <3>2. refresh[req[r].tok].user \in Users
      BY <1>0, <2>1, <3>1 DEF Live, Payload
    <3> QED
      BY <1>0, <1>4, <2>1, <3>2, Labels DEF RefreshGet, Request
  <2>2. CASE ~Live(req[r].tok)
    BY <1>2, <1>4, <2>2 DEF RefreshGet
  <2> QED
    BY <2>1, <2>2
<1>5. ASSUME NEW r \in Reqs,
             \/ RefreshDel(r) \/ RefreshSRem(r) \/ PipeSet(r) \/ PipeSAdd(r) \/ PipeExpire(r)
             \/ LogoutSRem(r)
      PROVE  req' \in [Reqs -> Request]
  BY <1>0, <1>5, Labels
  DEF RefreshDel, RefreshSRem, PipeSet, PipeSAdd, PipeExpire, LogoutSRem, Request
<1>6. ASSUME NEW r \in Reqs, LogoutGet(r) PROVE req' \in [Reqs -> Request]
  <2>1. CASE Live(req[r].tok)
    <3>1. req[r].tok \in Jtis
      BY <1>6 DEF LogoutGet, At, TypeInv, Locals
    <3>2. refresh[req[r].tok].user \in Users
      BY <1>0, <2>1, <3>1 DEF Live, Payload
    <3> QED
      BY SMTT(30), <1>0, <1>6, <2>1, <3>2, Labels DEF LogoutGet, Request
  <2>2. CASE ~Live(req[r].tok)
    BY <1>2, <1>6, <2>2 DEF LogoutGet, AnswerLogout
  <2> QED
    BY <2>1, <2>2
<1>7. ASSUME NEW r \in Reqs, SoftDelete(r) PROVE req' \in [Reqs -> Request]
  <2> DEFINE u == req[r].user
             gone == [users[u] EXCEPT !.deleted = TRUE]
  <2>1. u \in Users
    BY <1>7 DEF SoftDelete, At, TypeInv, Locals
  <2>2. gone \in Row
    BY <1>0, <2>1 DEF Row
  <2>3. Witness(u, gone) \in [Reqs -> Request]
    BY <2>1, <2>2, WitnessType DEF TypeInv
  <2>4. Finish(r) \/ req' = [Witness(u, gone) EXCEPT ![r].pc = "smembers"]
    BY <1>7 DEF SoftDelete
  <2> HIDE DEF u, gone
  <2> QED
    BY <1>2, <2>3, <2>4, Labels DEF Request
<1>8. ASSUME NEW r \in Reqs, SMembers(r) PROVE req' \in [Reqs -> Request]
  <2>1. index[req[r].user] \in SUBSET Jtis
    BY <1>0, <1>8 DEF SMembers, At, TypeInv, Locals
  <2>2. ASSUME NEW l \in PC, NEW m \in SUBSET Jtis
        PROVE  [req[r] EXCEPT !.todo = m, !.pc = l] \in Request
    BY ZenonT(40), <1>0 DEF Request
  <2>3. PICK l \in PC : req' = [req EXCEPT ![r].todo = index[req[r].user], ![r].pc = l]
    BY <1>8, Labels DEF SMembers
  <2> QED
    BY <1>0, <2>1, <2>2, <2>3
<1>9. ASSUME NEW r \in Reqs, NEW t, NextMember(r, t) PROVE req' \in [Reqs -> Request]
  <2>1. req[r].todo \ {t} \in SUBSET Jtis
    BY <1>0 DEF Request
  <2>2. ASSUME NEW l \in PC, NEW m \in SUBSET Jtis
        PROVE  [req[r] EXCEPT !.todo = m, !.pc = l] \in Request
    BY ZenonT(40), <1>0 DEF Request
  <2>3. PICK l \in PC : req' = [req EXCEPT ![r].todo = @ \ {t}, ![r].pc = l]
    BY <1>9, Labels DEF NextMember
  <2> QED
    BY <1>0, <2>1, <2>2, <2>3
<1>10. ASSUME NEW r \in Reqs, SkipCall(r) PROVE req' \in [Reqs -> Request]
  <2>1. ASSUME NEW l \in PC, req' = [req EXCEPT ![r].pc = l] PROVE req' \in [Reqs -> Request]
    BY <1>0, <2>1 DEF Request
  <2> QED
    BY <1>9, <1>10, <2>1, Labels DEF SkipCall, Ignored
<1>11. ASSUME NEW u \in Users, ChangeRoles(u) PROVE req' \in [Reqs -> Request]
  <2>1. PICK s \in Roles : req' = Witness(u, [users[u] EXCEPT !.roles = s])
    BY <1>11 DEF ChangeRoles
  <2>2. [users[u] EXCEPT !.roles = s] \in Row
    BY <1>0 DEF Row
  <2> QED
    BY <2>1, <2>2, WitnessType DEF TypeInv
<1>12. CASE UNCHANGED req
  BY <1>0, <1>12
<1>13. ASSUME NEW r \in Reqs, Resend(r) PROVE req' \in [Reqs -> Request]
  BY <1>0, <1>12, <1>13, Labels
  DEF Resend, ResendPair, ResendDel, ResendDropSet, Request
<1> QED
  BY <1>1, <1>2, <1>3, <1>4, <1>5, <1>6, <1>7, <1>8, <1>9, <1>10, <1>11, <1>12, <1>13
  DEF Next, Continue, LoginReject, RefreshReject, Grant, LogoutDel, AnswerLogout, RevokeDel,
      DropSet, Abort, Tick, vars

\* A request goes to a step only with the local variables that the step reads.
LEMMA LocalsStay == TypeInv /\ [Next]_vars => Locals'
<1> SUFFICES ASSUME TypeInv, [Next]_vars PROVE Locals'
  OBVIOUS
<1>0. /\ req \in [Reqs -> Request]
      /\ refresh \in [Jtis -> Payload \cup {None}]
      /\ Locals
  BY DEF TypeInv, TypeOK
<1> DEFINE L(q) ==
      /\ q.pc \in {"lookup", "del", "srem", "reread", "logoutSRem", "logoutDel"}
                    \cup PairPC \cup DeletePC => q.user \in Users
      /\ q.pc \in RefreshPC \cup LogoutPC => q.tok \in Jtis
      /\ q.pc \in PairPC => q.new \in Jtis /\ q.roles \in Roles
<1>1. SUFFICES ASSUME NEW r \in Reqs PROVE L(req'[r])
  BY DEF Locals
<1>2. L(req[r]) /\ req[r] \in Request
  BY <1>0 DEF Locals
<1>3. CASE req'[r] = req[r]
  BY <1>2, <1>3
<1>4. CASE Finish(r)
  BY <1>0, <1>4 DEF Finish, Idle
<1>5. CASE Start(r)
  <2>1. ASSUME NEW u \in Users, StartLogin(r, u) \/ StartDelete(r, u) PROVE L(req'[r])
    BY <1>0, <1>2, <2>1 DEF StartLogin, StartDelete, Request
  <2>2. ASSUME NEW t \in Jtis, StartRefresh(r, t) \/ StartLogout(r, t) PROVE L(req'[r])
    BY <1>0, <1>2, <2>2 DEF StartRefresh, StartLogout, Request
  <2> QED
    BY <1>5, <2>1, <2>2 DEF Start
<1>6. CASE LoginLookup(r) \/ RefreshReread(r)
  <2>1. users[req[r].user].roles \in Roles /\ req[r].user \in Users
    BY <1>2, <1>6 DEF TypeInv, TypeOK, LoginLookup, RefreshReread, At, Row
  <2>2. PICK t \in Jtis :
          req' = [req EXCEPT ![r].pc = "set", ![r].new = t,
                             ![r].roles = users[req[r].user].roles]
    BY <1>6 DEF LoginLookup, RefreshReread, ReadUserAndMint, Fresh
  <2> QED
    BY <1>0, <1>2, <2>1, <2>2 DEF Request
<1>7. CASE RefreshGet(r) \/ LogoutGet(r)
  <2>1. Live(req[r].tok) => refresh[req[r].tok].user \in Users
    BY <1>0, <1>2, <1>7 DEF Live, Payload, RefreshGet, LogoutGet, At
  <2> QED
    BY <1>0, <1>2, <1>4, <1>7, <2>1
    DEF RefreshGet, LogoutGet, AnswerLogout, At, Request
<1>8. CASE \/ RefreshDel(r) \/ RefreshSRem(r) \/ PipeSet(r) \/ PipeSAdd(r) \/ PipeExpire(r)
           \/ LogoutSRem(r) \/ SMembers(r)
  BY <1>0, <1>2, <1>8
  DEF RefreshDel, RefreshSRem, PipeSet, PipeSAdd, PipeExpire, LogoutSRem, SMembers, At, Request
<1>9. CASE RevokeDel(r) \/ SkipCall(r)
  <2>1. ASSUME NEW t, NextMember(r, t), req[r].pc = "revoke" PROVE L(req'[r])
    BY <1>0, <1>2, <2>1 DEF NextMember, Request
  <2>2. ASSUME At(r, "del"), req' = [req EXCEPT ![r].pc = "srem"] PROVE L(req'[r])
    BY <1>0, <1>2, <2>2 DEF At, Request
  <2>3. ASSUME At(r, "srem"), req' = [req EXCEPT ![r].pc = "reread"] PROVE L(req'[r])
    BY <1>0, <1>2, <2>3 DEF At, Request
  <2>4. ASSUME At(r, "logoutSRem"), req' = [req EXCEPT ![r].pc = "logoutDel"] PROVE L(req'[r])
    BY <1>0, <1>2, <2>4 DEF At, Request
  <2> QED
    BY <1>9, <2>1, <2>2, <2>3, <2>4 DEF RevokeDel, SkipCall, Ignored, At
<1>10. ASSUME NEW s \in Reqs, SoftDelete(s) PROVE L(req'[r])
  <2> DEFINE u == req[s].user
             gone == [users[u] EXCEPT !.deleted = TRUE]
  <2>1. u \in Users /\ gone \in Row
    BY <1>0, <1>10, RowUpdate DEF SoftDelete, At, Locals, TypeInv, TypeOK
  <2>2. \/ Finish(s)
        \/ req' = [Witness(u, gone) EXCEPT ![s].pc = "smembers"] /\ req[s].pc = "softDelete"
    BY <1>10 DEF SoftDelete, At
  <2> HIDE DEF gone
  <2>3. CASE Finish(s)
    BY <1>0, <1>2, <2>3 DEF Finish, Idle
  <2>4. CASE /\ req' = [Witness(u, gone) EXCEPT ![s].pc = "smembers"]
             /\ req[s].pc = "softDelete"
    BY <1>0, <1>2, <2>1, <2>4, WitnessType DEF TypeInv, Request, Locals
  <2> QED
    BY <2>2, <2>3, <2>4
<1>11. ASSUME NEW u \in Users, ChangeRoles(u) PROVE L(req'[r])
  <2>1. PICK s \in Roles : req' = Witness(u, [users[u] EXCEPT !.roles = s])
    BY <1>11 DEF ChangeRoles
  <2>2. [users[u] EXCEPT !.roles = s] \in Row
    BY DEF Row, TypeInv, TypeOK
  <2> QED
    BY <1>2, <2>1, <2>2, WitnessType DEF TypeInv
<1>12. ASSUME NEW s \in Reqs, s # r, Start(s) \/ Continue(s) \/ SkipCall(s) \/ Abort(s) \/ Resend(s),
              ~SoftDelete(s)
       PROVE  req'[r] = req[r]
  BY <1>0, <1>12
  DEF Start, StartLogin, StartDelete, StartRefresh, StartLogout, Continue, LoginLookup,
      LoginReject, RefreshGet, RefreshDel, RefreshSRem, RefreshReread, RefreshReject,
      ReadUserAndMint, PipeSet, PipeSAdd, PipeExpire, Grant, LogoutGet, LogoutSRem, LogoutDel,
      AnswerLogout, SMembers, RevokeDel, NextMember, DropSet, SkipCall, Ignored, Abort, Resend,
      ResendPair, ResendDel, ResendDropSet, Finish
<1>13. CASE UNCHANGED req
  BY <1>3, <1>13
<1>14. CASE Resend(r)
  BY <1>0, <1>2, <1>3, <1>14 DEF Resend, ResendPair, ResendDel, ResendDropSet, Request
<1> QED
  BY <1>3, <1>4, <1>5, <1>6, <1>7, <1>8, <1>9, <1>10, <1>11, <1>12, <1>13, <1>14
  DEF Next, Continue, LoginReject, RefreshReject, Grant, LogoutDel, AnswerLogout, DropSet,
      Abort, Tick, vars

\* The type invariant is inductive.
LEMMA TypeStays == TypeInv /\ [Next]_vars => TypeInv'
<1> SUFFICES ASSUME TypeInv, [Next]_vars PROVE TypeInv'
  OBVIOUS
<1>0. req' \in [Reqs -> Request] /\ Locals'
  BY RequestsStayTyped, LocalsStay
<1> USE DEF TypeInv, TypeOK, stores, history, faults
<1>1. ASSUME NEW r \in Reqs, Start(r) PROVE TypeInv'
  BY <1>0, <1>1 DEF Start, StartLogin, StartDelete, StartRefresh, StartLogout
<1>2. ASSUME NEW r \in Reqs,
             \/ LoginLookup(r) \/ LoginReject(r) \/ RefreshGet(r) \/ RefreshReread(r)
             \/ RefreshReject(r) \/ SMembers(r)
      PROVE  TypeInv'
  BY <1>0, <1>2
  DEF LoginLookup, LoginReject, RefreshGet, RefreshReread, RefreshReject, ReadUserAndMint,
      SMembers
<1>3. ASSUME NEW r \in Reqs, RefreshDel(r) \/ RevokeDel(r) PROVE TypeInv'
  BY <1>0, <1>3 DEF RefreshDel, RevokeDel
<1>4. ASSUME NEW r \in Reqs, RefreshSRem(r) \/ LogoutSRem(r) PROVE TypeInv'
  BY <1>0, <1>4, Lives DEF RefreshSRem, LogoutSRem, RemoveFromIndex
<1>5. ASSUME NEW r \in Reqs, PipeSet(r) PROVE TypeInv'
  <2>1. NewPayload(r) \in Payload /\ req[r].user \in Users
    BY <1>5, TTLAssumption DEF PipeSet, At, Locals, NewPayload, Payload
  <2> QED
    BY <1>0, <1>5, <2>1 DEF PipeSet
<1>6. ASSUME NEW r \in Reqs, PipeSAdd(r) \/ PipeExpire(r) PROVE TypeInv'
  BY <1>0, <1>6, Lives DEF PipeSAdd, PipeExpire, At, Locals
<1>7. ASSUME NEW r \in Reqs, Grant(r) PROVE TypeInv'
  BY <1>0, <1>7 DEF Grant, At, Locals, Request
<1>8. ASSUME NEW r \in Reqs, LogoutGet(r) \/ LogoutDel(r) PROVE TypeInv'
  BY <1>0, <1>8 DEF LogoutGet, LogoutDel, AnswerLogout, At, Locals
<1>9. ASSUME NEW r \in Reqs, SoftDelete(r) PROVE TypeInv'
  <2>1. req[r].user \in Users
    BY <1>9 DEF SoftDelete, At, Locals
  <2>2. [users[req[r].user] EXCEPT !.deleted = TRUE] \in Row
    BY <2>1, RowUpdate
  <2> QED
    BY <1>0, <1>9, <2>1, <2>2 DEF SoftDelete
<1>10. ASSUME NEW r \in Reqs, DropSet(r) PROVE TypeInv'
  BY <1>0, <1>10, Lives DEF DropSet, RemoveFromIndex, At, Locals
<1>11. ASSUME NEW r \in Reqs, SkipCall(r) \/ Abort(r) PROVE TypeInv'
  <2>1. /\ <<skips, aborts, resends>>' \in Nat \X Nat \X Nat
        /\ skips' + aborts' + resends' <= MaxFaults
    <3>1. CASE skips' = skips + 1 /\ UNCHANGED <<aborts, resends>> /\ FaultLeft
      BY <3>1, BoundsAssumption DEF FaultLeft
    <3>2. CASE aborts' = aborts + 1 /\ UNCHANGED <<skips, resends>> /\ FaultLeft
      BY <3>2, BoundsAssumption DEF FaultLeft
    <3> QED
      BY <1>11, <3>1, <3>2 DEF SkipCall, Abort
  <2>2. UNCHANGED <<stores, history>>
    BY <1>11 DEF SkipCall, Abort
  <2> QED
    BY <1>0, <2>1, <2>2
<1>12. ASSUME NEW u \in Users, ChangeRoles(u) PROVE TypeInv'
  <2>1. PICK s \in Roles : users' = [users EXCEPT ![u] = [users[u] EXCEPT !.roles = s]]
    BY <1>12 DEF ChangeRoles
  <2>2. [users[u] EXCEPT !.roles = s] \in Row
    BY RowUpdate
  <2> QED
    BY <1>0, <1>12, <2>1, <2>2 DEF ChangeRoles
<1>13. CASE Tick
  BY <1>0, <1>13, AgedType, Lives DEF Tick, Expiring
<1>14. CASE UNCHANGED vars
  BY <1>0, <1>14 DEF vars
<1>15. ASSUME NEW r \in Reqs, Resend(r) PROVE TypeInv'
  <2>1. /\ <<skips, aborts, resends>>' \in Nat \X Nat \X Nat
        /\ skips' + aborts' + resends' <= MaxFaults
    BY <1>15, BoundsAssumption DEF Resend, FaultLeft
  <2>2. CASE ResendPair(r)
    BY <1>0, <1>15, <2>1, <2>2 DEF Resend, ResendPair
  <2>3. CASE ResendDel(r)
    BY <1>0, <1>15, <2>1, <2>3 DEF Resend, ResendDel
  <2>4. CASE ResendDropSet(r)
    <3>1. /\ index' \in [Users -> SUBSET Jtis] /\ idxTTL' \in [Users -> 0..SetLife]
          /\ UNCHANGED refresh
      BY <2>4, Lives DEF ResendDropSet, RemoveFromIndex, At, Locals
    <3> QED
      BY <1>0, <1>15, <2>1, <3>1 DEF Resend
  <2> QED
    BY <1>15, <2>2, <2>3, <2>4 DEF Resend
<1> QED
  BY <1>1, <1>2, <1>3, <1>4, <1>5, <1>6, <1>7, <1>8, <1>9, <1>10, <1>11, <1>12, <1>13, <1>14,
     <1>15
  DEF Next, Continue

\* The state stays within its types.
THEOREM TypeCorrect == Spec => []TypeInv
<1>1. Init => TypeInv
  <2> SUFFICES ASSUME Init PROVE TypeInv
    OBVIOUS
  <2>1. users \in [Users -> Row]
    BY DEF Init, Row
  <2>2. Locals
    BY DEF Init, Locals, Idle
  <2> QED
    BY <2>1, <2>2, Lives, BoundsAssumption, Labels DEF Init, TypeInv, TypeOK
<1> QED
  BY <1>1, TypeStays, PTL DEF Spec

\* The part of it that the runs check.
THEOREM TypeOKCorrect == Spec => []TypeOK
  BY TypeCorrect, PTL DEF TypeInv

-----------------------------------------------------------------------------
(* Minted tokens: who draws, stores and receives each token *)

\* Nothing but the rows seen changes in request s.
Keeps(s) ==
  /\ req'[s].pc = req[s].pc
  /\ req'[s].user = req[s].user
  /\ req'[s].tok = req[s].tok
  /\ req'[s].new = req[s].new
  /\ req'[s].roles = req[s].roles
  /\ req'[s].todo = req[s].todo

\* A step of one request is no step of another.
LEMMA OthersKeep ==
  ASSUME TypeInv, NEW r \in Reqs, Start(r) \/ Continue(r) \/ SkipCall(r) \/ Abort(r) \/ Resend(r)
  PROVE  \A s \in Reqs \ {r} : Keeps(s)
<1>0. req \in [Reqs -> Request]
  BY DEF TypeInv, TypeOK
<1>1. CASE SoftDelete(r)
  <2> DEFINE u == req[r].user
             gone == [users[u] EXCEPT !.deleted = TRUE]
  <2>1. u \in Users /\ gone \in Row
    BY <1>1, RowUpdate DEF SoftDelete, At, TypeInv, TypeOK, Locals
  <2>2. Finish(r) \/ req' = [Witness(u, gone) EXCEPT ![r].pc = "smembers"]
    BY <1>1 DEF SoftDelete
  <2> HIDE DEF gone
  <2> QED
    BY <1>0, <2>1, <2>2, WitnessType DEF TypeInv, Finish, Keeps
<1>2. CASE ~SoftDelete(r)
  BY <1>0, <1>2
  DEF Keeps, Start, StartLogin, StartDelete, StartRefresh, StartLogout, Continue, LoginLookup,
      LoginReject, RefreshGet, RefreshDel, RefreshSRem, RefreshReread, RefreshReject,
      ReadUserAndMint, PipeSet, PipeSAdd, PipeExpire, Grant, LogoutGet, LogoutSRem, LogoutDel,
      AnswerLogout, SMembers, RevokeDel, NextMember, DropSet, SkipCall, Ignored, Abort, Resend,
      ResendPair, ResendDel, ResendDropSet, Finish
<1> QED
  BY <1>1, <1>2

\* Role changes and time keep every request where it is.
LEMMA EnvironmentKeeps ==
  ASSUME TypeInv, (\E u \in Users : ChangeRoles(u)) \/ Tick \/ UNCHANGED vars
  PROVE  \A s \in Reqs : Keeps(s)
<1>1. ASSUME NEW u \in Users, ChangeRoles(u) PROVE \A s \in Reqs : Keeps(s)
  <2>1. PICK s \in Roles : req' = Witness(u, [users[u] EXCEPT !.roles = s])
    BY <1>1 DEF ChangeRoles
  <2>2. [users[u] EXCEPT !.roles = s] \in Row
    BY RowUpdate DEF TypeInv, TypeOK
  <2> QED
    BY <2>1, <2>2, WitnessType DEF TypeInv, Keeps
<1> QED
  BY <1>1 DEF Tick, vars, Keeps

\* A token drawn by a request is that request's alone until its client gets it,
\* and whatever a client can present was once received.
Minted ==
  /\ \A r \in Reqs : req[r].new # None =>
       /\ req[r].pc \in PairPC
       /\ req[r].new \notin issued
       /\ \/ owner[req[r].new] = req[r].user
          \/ owner[req[r].new] = None /\ req[r].pc = "set"
       /\ \A s \in Reqs \ {r} : req[s].new # req[r].new
  /\ \A r \in Reqs : req[r].tok # None => req[r].tok \in issued
  /\ \A t \in issued : owner[t] # None
  /\ spent \subseteq issued
  /\ loggedOut \subseteq issued

\* No two requests draw the same token, and a client holds only stored ones.
THEOREM MintedCorrect == Spec => []Minted
<1>1. Init => Minted
  BY DEF Init, Minted, Idle
<1>2. TypeInv /\ Minted /\ [Next]_vars => Minted'
  <2> SUFFICES ASSUME TypeInv, Minted, [Next]_vars PROVE Minted'
    OBVIOUS
  <2>0. /\ req \in [Reqs -> Request] /\ req' \in [Reqs -> Request]
        /\ owner \in [Jtis -> Users \cup {None}]
        /\ issued \subseteq Jtis
    BY RequestsStayTyped DEF TypeInv, TypeOK
  <2>1. ASSUME \A s \in Reqs : Keeps(s), UNCHANGED <<owner, issued, spent, loggedOut>>
        PROVE  Minted'
    BY <2>1 DEF Minted, Keeps
  <2>2. ASSUME NEW r \in Reqs, Start(r) \/ Continue(r) \/ SkipCall(r) \/ Abort(r) \/ Resend(r),
               req'[r].new = None, req'[r].tok # None => req'[r].tok \in issued,
               UNCHANGED <<owner, issued>>, spent' = spent,
               loggedOut' \subseteq issued
        PROVE  Minted'
    BY <2>0, <2>2, OthersKeep DEF Minted, Keeps
  <2>3. ASSUME NEW r \in Reqs, Start(r) \/ Continue(r) \/ SkipCall(r) \/ Abort(r) \/ Resend(r),
               req'[r].new = req[r].new, req'[r].tok = req[r].tok,
               req[r].pc \in {"sadd", "expire", "reply"},
               req'[r].pc \in {"set", "expire", "reply"},
               req'[r].user = req[r].user,
               UNCHANGED <<owner, issued, spent, loggedOut>>
        PROVE  Minted'
    BY <2>0, <2>3, OthersKeep DEF Minted, Keeps
  <2>4. ASSUME NEW r \in Reqs, Start(r) PROVE Minted'
    <3>1. req'[r].new = None /\ (req'[r].tok # None => req'[r].tok \in issued)
      <4>1. req[r].new = None
        BY <2>4
        DEF Start, StartLogin, StartDelete, StartRefresh, StartLogout, At, Minted
      <4>2. ASSUME NEW u \in Users, StartLogin(r, u) \/ StartDelete(r, u)
            PROVE  req'[r].new = None /\ req'[r].tok = req[r].tok
        BY <2>0, <4>1, <4>2 DEF StartLogin, StartDelete, Request
      <4>3. ASSUME NEW t \in Jtis, StartRefresh(r, t) \/ StartLogout(r, t)
            PROVE  req'[r].new = None /\ req'[r].tok \in issued
        BY <2>0, <4>1, <4>3 DEF StartRefresh, StartLogout, Request
      <4> QED
        BY <2>4, <4>2, <4>3 DEF Start, Minted
    <3> QED
      BY <2>2, <2>4, <3>1
      DEF Start, StartLogin, StartDelete, StartRefresh, StartLogout, history, Minted
  <2>5. ASSUME NEW r \in Reqs, Finish(r), UNCHANGED <<owner, issued, spent>>,
               loggedOut' \subseteq issued, Continue(r) \/ Abort(r)
        PROVE  Minted'
    BY <2>0, <2>2, <2>5 DEF Finish, Idle
  <2>6. ASSUME NEW r \in Reqs, LoginLookup(r) \/ RefreshReread(r) PROVE Minted'
    <3>1. PICK t \in Fresh : req'[r] = [req[r] EXCEPT !.pc = "set", !.new = t,
                                                      !.roles = users[req[r].user].roles]
      BY <2>0, <2>6 DEF LoginLookup, RefreshReread, ReadUserAndMint
    <3>2. UNCHANGED <<owner, issued, spent, loggedOut>>
      BY <2>6 DEF LoginLookup, RefreshReread, ReadUserAndMint, history
    <3>3. /\ t \in Jtis /\ t # None /\ owner[t] = None /\ t \notin issued
          /\ \A s \in Reqs : req[s].new # t
      BY <3>1, NoneAssumption DEF Fresh, Minted
    <3>4. /\ req'[r].pc = "set" /\ req'[r].new = t /\ req'[r].tok = req[r].tok
      BY <2>0, <3>1 DEF Request
    <3> QED
      BY <2>0, <2>6, <3>2, <3>3, <3>4, OthersKeep DEF Minted, Keeps, Continue
  <2>7. ASSUME NEW r \in Reqs, \/ RefreshGet(r) \/ RefreshDel(r) \/ RefreshSRem(r)
                               \/ LogoutGet(r) \/ LogoutSRem(r) \/ SMembers(r)
                               \/ RevokeDel(r) \/ SkipCall(r)
        PROVE  Minted'
    <3>1. req[r].new = None
      BY <2>0, <2>7
      DEF RefreshGet, RefreshDel, RefreshSRem, LogoutGet, LogoutSRem, SMembers, RevokeDel,
          SkipCall, Ignored, At, Minted, Request
    <3>2. req'[r].new = None /\ req'[r].tok \in {None, req[r].tok}
      <4>1. CASE Finish(r)
        BY <2>0, <4>1 DEF Finish, Idle
      <4>2. ASSUME NEW t, NextMember(r, t) PROVE req'[r].new = None /\ req'[r].tok = req[r].tok
        <5>1. PICK l : req' = [req EXCEPT ![r].todo = @ \ {t}, ![r].pc = l]
          BY <4>2 DEF NextMember
        <5> QED
          BY <2>0, <3>1, <5>1 DEF Request
      <4>3. CASE RefreshGet(r) \/ LogoutGet(r)
        BY <2>0, <3>1, <4>1, <4>3 DEF RefreshGet, LogoutGet, AnswerLogout, Request
      <4>4. CASE RefreshDel(r) \/ RefreshSRem(r) \/ LogoutSRem(r) \/ SMembers(r)
        BY <2>0, <3>1, <4>4 DEF RefreshDel, RefreshSRem, LogoutSRem, SMembers, Request
      <4>5. CASE RevokeDel(r)
        BY <4>2, <4>5 DEF RevokeDel
      <4>6. CASE SkipCall(r)
        BY <2>0, <3>1, <4>2, <4>6 DEF SkipCall, Ignored, Request
      <4> QED
        BY <2>7, <4>3, <4>4, <4>5, <4>6
    <3>3. UNCHANGED <<owner, issued, spent>> /\ loggedOut' \subseteq issued
      BY <2>7, NoneAssumption
      DEF RefreshGet, RefreshDel, RefreshSRem, LogoutGet, LogoutSRem, SMembers, RevokeDel,
          SkipCall, AnswerLogout, history, Minted, At, TypeInv, Locals
    <3> QED
      BY <2>2, <2>7, <3>2, <3>3 DEF Continue, Minted
  <2>8. ASSUME NEW r \in Reqs, PipeSet(r) PROVE Minted'
    <3>1. req[r].new \in Jtis /\ req[r].user \in Users /\ req[r].new # None
      BY <2>8, NoneAssumption DEF PipeSet, At, TypeInv, Locals
    <3>2. /\ req'[r].pc = "sadd" /\ req'[r].new = req[r].new /\ req'[r].tok = req[r].tok
          /\ req'[r].user = req[r].user
      BY <2>0, <2>8 DEF PipeSet, Request
    <3> QED
      BY <2>0, <2>8, <3>1, <3>2, NoneAssumption, OthersKeep
      DEF PipeSet, At, Minted, Keeps, Continue
  <2>9. ASSUME NEW r \in Reqs, PipeSAdd(r) \/ PipeExpire(r) PROVE Minted'
    <3>1. /\ req[r].pc \in {"sadd", "expire"} /\ req'[r].pc \in {"expire", "reply"}
          /\ req'[r].new = req[r].new /\ req'[r].tok = req[r].tok /\ req'[r].user = req[r].user
      BY <2>0, <2>9 DEF PipeSAdd, PipeExpire, At, Request
    <3>2. UNCHANGED <<owner, issued, spent, loggedOut>>
      BY <2>9 DEF PipeSAdd, PipeExpire, history
    <3> QED
      BY <2>3, <2>9, <3>1, <3>2 DEF Continue
  <2>10. ASSUME NEW r \in Reqs, Grant(r) PROVE Minted'
    <3>1. req[r].new \in Jtis /\ req[r].new # None /\ owner[req[r].new] # None
      BY <2>10, NoneAssumption DEF Grant, At, Minted, TypeInv, Locals
    <3>2. req'[r] = Idle
      BY <2>0, <2>10 DEF Grant, Finish
    <3> QED
      <4>1. \A s \in Reqs \ {r} : Keeps(s)
        BY <2>10, OthersKeep DEF Continue
      <4>2. /\ owner' = owner /\ loggedOut' = loggedOut
            /\ issued' = issued \cup {req[r].new}
            /\ spent' \subseteq issued \cup ({req[r].tok} \ {None})
        BY <2>10 DEF Grant, Minted
      <4>3. req[r].tok # None => req[r].tok \in issued
        BY DEF Minted
      <4>4. /\ spent' \subseteq issued' /\ loggedOut' \subseteq issued'
            /\ \A t \in issued' : owner'[t] # None
        BY <3>1, <4>2, <4>3 DEF Minted
      <4>5. \A s \in Reqs : req'[s].tok # None => req'[s].tok \in issued'
        BY <3>2, <4>1, <4>2 DEF Minted, Keeps, Idle
      <4>6. ASSUME NEW s \in Reqs, req'[s].new # None
            PROVE  /\ s # r /\ req'[s].pc = req[s].pc /\ req'[s].user = req[s].user
                   /\ req'[s].new = req[s].new /\ req[s].new # req[r].new
        BY <3>1, <3>2, <4>1, <4>6 DEF Idle, Keeps, Minted
      <4>7. \A s, q \in Reqs : s # q /\ req'[s].new # None => req'[q].new # req'[s].new
        BY <3>2, <4>1, <4>6 DEF Idle, Keeps, Minted
      <4> QED
        BY <4>2, <4>4, <4>5, <4>6, <4>7 DEF Minted
  <2>11. ASSUME NEW r \in Reqs, SoftDelete(r) PROVE Minted'
    <3> DEFINE u == req[r].user
               gone == [users[u] EXCEPT !.deleted = TRUE]
    <3>1. u \in Users /\ gone \in Row /\ req[r].new = None
      BY <2>0, <2>11, RowUpdate DEF SoftDelete, At, TypeInv, TypeOK, Locals, Minted
    <3>2. Finish(r) \/ req' = [Witness(u, gone) EXCEPT ![r].pc = "smembers"]
      BY <2>11 DEF SoftDelete
    <3>3. UNCHANGED <<owner, issued, spent, loggedOut>>
      BY <2>11 DEF SoftDelete, history
    <3> HIDE DEF gone
    <3>4. req'[r].new = None /\ req'[r].tok \in {None, req[r].tok}
      <4>1. CASE Finish(r)
        BY <2>0, <4>1 DEF Finish, Idle
      <4>2. CASE req' = [Witness(u, gone) EXCEPT ![r].pc = "smembers"]
        <5>1. /\ Witness(u, gone) \in [Reqs -> Request]
              /\ Witness(u, gone)[r].new = None
              /\ Witness(u, gone)[r].tok = req[r].tok
          BY <3>1, WitnessType DEF TypeInv
        <5> QED
          BY <4>2, <5>1 DEF Request
      <4> QED
        BY <3>2, <4>1, <4>2
    <3> QED
      BY <2>2, <2>11, <3>3, <3>4 DEF Continue, Minted
  <2>12. ASSUME NEW r \in Reqs, \/ LoginReject(r) \/ RefreshReject(r) \/ LogoutDel(r)
                                \/ DropSet(r) \/ Abort(r)
         PROVE  Minted'
    <3>1. UNCHANGED <<owner, issued, spent>> /\ Finish(r) /\ loggedOut' \subseteq issued
      BY <2>12, NoneAssumption
      DEF LoginReject, RefreshReject, LogoutDel, DropSet, Abort, AnswerLogout, history, Minted,
          At, TypeInv, Locals
    <3> QED
      BY <2>5, <2>12, <3>1 DEF Continue
  <2>13. CASE (\E u \in Users : ChangeRoles(u)) \/ Tick \/ UNCHANGED vars
    BY <2>1, <2>13, EnvironmentKeeps DEF ChangeRoles, Tick, vars, history
  <2>14. ASSUME NEW r \in Reqs, Resend(r) PROVE Minted'
    <3>1. UNCHANGED <<owner, issued, spent, loggedOut>>
      BY <2>14 DEF Resend, history
    <3>2. CASE ResendPair(r)
      BY <2>0, <2>3, <2>14, <3>1, <3>2 DEF ResendPair, Request
    <3>3. CASE UNCHANGED req
      BY <2>1, <3>1, <3>3 DEF Keeps
    <3> QED
      BY <2>14, <3>2, <3>3 DEF Resend, ResendDel, ResendDropSet
  <2> QED
    BY <2>4, <2>6, <2>7, <2>8, <2>9, <2>10, <2>11, <2>12, <2>13, <2>14 DEF Next, Continue
<1> QED
  BY <1>1, <1>2, TypeCorrect, PTL DEF Spec

-----------------------------------------------------------------------------
(* The refresh:<jti> keys: what can appear, and what stays away *)

\* What the steps of a request leave alone.
LEMMA Frame ==
  ASSUME NEW r \in Reqs
  PROVE  /\ Start(r) \/ LoginLookup(r) \/ LoginReject(r) \/ RefreshGet(r) \/ RefreshReread(r)
              \/ RefreshReject(r) \/ SMembers(r) => UNCHANGED <<stores, history, faults>>
         /\ RefreshDel(r) \/ RevokeDel(r) => UNCHANGED <<users, index, idxTTL, history, faults>>
         /\ RefreshSRem(r) \/ LogoutSRem(r) => UNCHANGED <<users, refresh, history, faults>>
         /\ PipeSet(r) => UNCHANGED <<users, index, idxTTL, issued, spent, loggedOut, revoked,
                                      late, lost, faults>>
         /\ PipeSAdd(r) => UNCHANGED <<users, refresh, idxTTL, history, faults>>
         /\ PipeExpire(r) => UNCHANGED <<users, refresh, owner, issued, spent, loggedOut, revoked,
                                         late, faults>>
         /\ Grant(r) => UNCHANGED <<stores, owner, loggedOut, revoked, lost, faults>>
         /\ LogoutGet(r) => UNCHANGED <<stores, owner, issued, spent, revoked, late, lost, faults>>
         /\ LogoutDel(r) => UNCHANGED <<users, index, idxTTL, owner, issued, spent, revoked, late,
                                        lost, faults>>
         /\ SoftDelete(r) => UNCHANGED <<refresh, index, idxTTL, history, faults>>
         /\ DropSet(r) => UNCHANGED <<users, refresh, owner, issued, spent, loggedOut, late, lost,
                                      faults>>
         /\ SkipCall(r) => UNCHANGED <<stores, history, aborts>> /\ skips' = skips + 1
         /\ Abort(r) => UNCHANGED <<stores, history, skips>>
         /\ Resend(r) => /\ UNCHANGED <<users, history, skips, aborts>>
                         /\ UNCHANGED refresh \/ ResendDel(r)
                         /\ UNCHANGED <<index, idxTTL>> \/ ResendDropSet(r)
<1>1. Start(r) => UNCHANGED <<stores, history, faults>>
  BY DEF Start, StartLogin, StartDelete, StartRefresh, StartLogout
<1>2. LogoutGet(r) => UNCHANGED <<stores, owner, issued, spent, revoked, late, lost, faults>>
  BY DEF LogoutGet, AnswerLogout, history
<1>3. LogoutDel(r) => UNCHANGED <<users, index, idxTTL, owner, issued, spent, revoked, late,
                                  lost, faults>>
  BY DEF LogoutDel, AnswerLogout
<1> QED
  BY <1>1, <1>2, <1>3
  DEF LoginLookup, LoginReject, RefreshGet, RefreshReread, RefreshReject, ReadUserAndMint,
      SMembers, RefreshDel, RevokeDel, RefreshSRem, LogoutSRem, PipeSet, PipeSAdd, PipeExpire,
      Grant, SoftDelete, DropSet, SkipCall, Abort, Resend, ResendPair, ResendDel, ResendDropSet

\* What role changes and time leave alone.
LEMMA EnvironmentFrame ==
  /\ \A u \in Users : ChangeRoles(u) => UNCHANGED <<refresh, index, idxTTL, history, faults>>
  /\ Tick => UNCHANGED <<users, req, owner, issued, spent, loggedOut, revoked, late, faults>>
  BY DEF ChangeRoles, Tick

\* Only the SET of a pair makes a key appear; nothing but time changes it after.
LEMMA KeysAppear ==
  ASSUME TypeInv, [Next]_vars, NEW t \in Jtis, Live(t)'
  PROVE  \/ Live(t) /\ refresh'[t] = refresh[t]
         \/ /\ Tick /\ Live(t)
            /\ refresh'[t] = Aged(refresh[t]) /\ refresh'[t].user = refresh[t].user
         \/ \E r \in Reqs : PipeSet(r) /\ t = req[r].new
<1>0. refresh \in [Jtis -> Payload \cup {None}]
  BY DEF TypeInv, TypeOK
<1>1. CASE Tick
  <2>1. refresh'[t] = Aged(refresh[t])
    BY <1>1 DEF Tick
  <2> QED
    BY <1>0, <1>1, <2>1, TTLAssumption DEF Aged, Live, Payload
<1>2. ASSUME NEW r \in Reqs, PipeSet(r), t # req[r].new
      PROVE  Live(t) /\ refresh'[t] = refresh[t]
  BY <1>0, <1>2 DEF PipeSet, Live
<1>3. ASSUME NEW r \in Reqs, RefreshDel(r) \/ LogoutDel(r) \/ RevokeDel(r) \/ ResendDel(r)
      PROVE  Live(t) /\ refresh'[t] = refresh[t]
  BY <1>0, <1>3 DEF RefreshDel, LogoutDel, RevokeDel, ResendDel, Live
<1>4. CASE UNCHANGED refresh
  BY <1>4 DEF Live
<1>5. (\E r \in Reqs : \/ PipeSet(r) \/ RefreshDel(r) \/ LogoutDel(r) \/ RevokeDel(r)
                       \/ ResendDel(r))
        \/ Tick \/ UNCHANGED refresh
  BY Frame, EnvironmentFrame DEF Next, Continue, vars, stores
<1> QED
  BY <1>1, <1>2, <1>3, <1>4, <1>5

\* A token's owner is set when it is stored and never after.
LEMMA OwnersAppear ==
  ASSUME TypeInv, [Next]_vars, NEW t \in Jtis
  PROVE  \/ owner'[t] = owner[t]
         \/ \E r \in Reqs : PipeSet(r) /\ t = req[r].new
<1>1. ASSUME NEW r \in Reqs, PipeSet(r), t # req[r].new PROVE owner'[t] = owner[t]
  BY <1>1 DEF PipeSet, TypeInv, TypeOK
<1>2. (\E r \in Reqs : PipeSet(r)) \/ UNCHANGED owner
  BY Frame, EnvironmentFrame DEF Next, Continue, vars, history
<1> QED
  BY <1>1, <1>2

\* A pipeline that is sent again stores its token for the same user.
LEMMA OwnerStays ==
  ASSUME TypeInv, Minted, [Next]_vars, NEW t \in Jtis, owner[t] # None
  PROVE  owner'[t] = owner[t]
<1>1. ASSUME NEW r \in Reqs, PipeSet(r), t = req[r].new PROVE owner'[t] = owner[t]
  <2>1. owner[t] = req[r].user
    BY <1>1, NoneAssumption DEF PipeSet, At, TypeInv, Locals, Minted
  <2> QED
    BY <1>1, <2>1 DEF PipeSet, TypeInv, TypeOK
<1> QED
  BY <1>1, OwnersAppear

\* While no error was ignored, the token a refresh presented is dead from its DEL on.
Rotated ==
  /\ \A r \in Reqs : req[r].pc \in {"idle", "lookup"} => req[r].tok = None
  /\ skips = 0 =>
       \A r \in Reqs : (req[r].pc \in {"srem", "reread"} \cup PairPC /\ req[r].tok # None) =>
         ~Live(req[r].tok)

Owned == \A t \in Jtis : Live(t) => owner[t] = refresh[t].user

KeysInv == Owned /\ LogoutIsFinal /\ Rotated /\ SpentTokenIsDead

\* What holds of the refresh keys is kept by every step.
LEMMA KeysStay == TypeInv /\ Minted /\ KeysInv /\ [Next]_vars => KeysInv'
<1> SUFFICES ASSUME TypeInv, Minted, KeysInv, [Next]_vars PROVE KeysInv'
  OBVIOUS
<1>0. /\ req \in [Reqs -> Request] /\ req' \in [Reqs -> Request]
      /\ refresh \in [Jtis -> Payload \cup {None}]
      /\ issued \subseteq Jtis /\ spent \subseteq issued /\ loggedOut \subseteq issued
  BY RequestsStayTyped DEF TypeInv, TypeOK, Minted
<1>1. \A t \in issued : Live(t)' => Live(t)
  <2> SUFFICES ASSUME NEW t \in issued, Live(t)' PROVE Live(t)
    OBVIOUS
  <2>1. \A r \in Reqs : PipeSet(r) => t # req[r].new
    BY NoneAssumption DEF PipeSet, At, TypeInv, Locals, Minted
  <2> QED
    BY <1>0, <2>1, KeysAppear
<1>2. skips \in Nat /\ (skips' = 0 => skips = 0) /\ (skips' = skips \/ skips' = skips + 1)
  <2>1. skips' = skips \/ skips' = skips + 1
    BY Frame, EnvironmentFrame DEF Next, Continue, vars, faults
  <2> QED
    BY <2>1, BoundsAssumption DEF TypeInv, TypeOK
<1>3. Owned'
  <2> SUFFICES ASSUME NEW t \in Jtis, Live(t)' PROVE owner'[t] = refresh'[t].user
    BY DEF Owned, Live
  <2>1. ASSUME NEW r \in Reqs, PipeSet(r), t = req[r].new
        PROVE  owner'[t] = refresh'[t].user
    BY <1>0, <2>1 DEF PipeSet, NewPayload, TypeInv, TypeOK
  <2>2. ASSUME \A r \in Reqs : PipeSet(r) => t # req[r].new
        PROVE  owner'[t] = refresh'[t].user
    BY <2>2, KeysAppear, OwnersAppear DEF KeysInv, Owned
  <2> QED
    BY <2>1, <2>2
<1>4. LogoutIsFinal'
  <2>1. ASSUME NEW r \in Reqs, LogoutGet(r) \/ LogoutDel(r), NEW t \in loggedOut',
               t \notin loggedOut
        PROVE  ~Live(t)'
    <3>1. t = req[r].tok
      BY <2>1 DEF LogoutGet, LogoutDel, AnswerLogout, history
    <3>2. CASE LogoutGet(r)
      BY <1>0, <2>1, <3>1, <3>2 DEF LogoutGet, Live, stores, history
    <3>3. CASE LogoutDel(r)
      BY <1>0, <3>1, <3>3 DEF LogoutDel, Live, At, TypeInv, Locals
    <3> QED
      BY <2>1, <3>2, <3>3
  <2>2. (\E r \in Reqs : LogoutGet(r) \/ LogoutDel(r)) \/ UNCHANGED loggedOut
    BY Frame, EnvironmentFrame DEF Next, Continue, vars, history
  <2>3. \A t \in loggedOut : ~Live(t)'
    BY <1>0, <1>1 DEF KeysInv, LogoutIsFinal
  <2> QED
    BY <2>1, <2>2, <2>3 DEF LogoutIsFinal
<1>5. \A s \in Reqs : req[s].tok # None /\ refresh[req[s].tok] = None => refresh'[req[s].tok] = None
  BY <1>1 DEF Minted, Live
<1>6. Rotated'
  <2> DEFINE Past == {"srem", "reread"} \cup PairPC
             R(s) == /\ req'[s].pc \in {"idle", "lookup"} => req'[s].tok = None
                     /\ skips' = 0 /\ req'[s].pc \in Past /\ req'[s].tok # None
                          => refresh'[req'[s].tok] = None
  <2>1. SUFFICES ASSUME NEW s \in Reqs PROVE R(s)
    BY DEF Rotated, Live
  <2>2. /\ req[s].pc \in {"idle", "lookup"} => req[s].tok = None
        /\ skips' = 0 /\ req[s].pc \in Past /\ req[s].tok # None
             => refresh'[req[s].tok] = None
    BY <1>2, <1>5 DEF KeysInv, Rotated, Live
  <2>3. ASSUME req'[s].pc = req[s].pc, req'[s].tok = req[s].tok PROVE R(s)
    BY <2>2, <2>3
  <2>4. ASSUME req'[s] = Idle PROVE R(s)
    BY <2>4 DEF Idle
  <2>5. ASSUME req'[s].tok = req[s].tok, req[s].pc \in Past, req'[s].pc \in Past PROVE R(s)
    BY <2>2, <2>5
  <2>6. ASSUME req'[s].pc \notin Past \cup {"idle", "lookup"} PROVE R(s)
    BY <2>6
  <2>7. CASE Finish(s)
    BY <1>0, <2>4, <2>7 DEF Finish
  <2>8. ASSUME NEW u \in Users, StartLogin(s, u) \/ StartDelete(s, u) PROVE R(s)
    BY <1>0, <2>2, <2>8 DEF StartLogin, StartDelete, At, Request
  <2>9. ASSUME NEW t \in Jtis, StartRefresh(s, t) \/ StartLogout(s, t) PROVE R(s)
    BY <1>0, <2>6, <2>9 DEF StartRefresh, StartLogout, Request
  <2>10. CASE LoginLookup(s)
    <3>1. PICK t : req'[s] = [req[s] EXCEPT !.pc = "set", !.new = t,
                                            !.roles = users[req[s].user].roles]
      BY <1>0, <2>10 DEF LoginLookup, ReadUserAndMint
    <3>2. req'[s].tok = req[s].tok /\ req'[s].pc = "set"
      BY <1>0, <3>1 DEF Request
    <3> QED
      BY <2>2, <2>10, <3>2 DEF LoginLookup, At
  <2>11. CASE RefreshReread(s)
    <3>1. PICK t : req'[s] = [req[s] EXCEPT !.pc = "set", !.new = t,
                                            !.roles = users[req[s].user].roles]
      BY <1>0, <2>11 DEF RefreshReread, ReadUserAndMint
    <3> QED
      BY <1>0, <2>5, <2>11, <3>1 DEF RefreshReread, At, Request
  <2>12. CASE RefreshGet(s) \/ LogoutGet(s)
    BY <1>0, <2>6, <2>7, <2>12 DEF RefreshGet, LogoutGet, AnswerLogout, Request
  <2>13. CASE RefreshDel(s)
    BY <1>0, <2>13 DEF RefreshDel, At, Request, TypeInv, Locals
  <2>14. CASE RefreshSRem(s) \/ PipeSet(s) \/ PipeSAdd(s) \/ PipeExpire(s)
    BY <1>0, <2>5, <2>14 DEF RefreshSRem, PipeSet, PipeSAdd, PipeExpire, At, Request
  <2>15. CASE LogoutSRem(s)
    BY <1>0, <2>6, <2>15 DEF LogoutSRem, Request
  <2>16. CASE SMembers(s)
    <3>1. req'[s].pc \in {"dropSet", "revoke"}
      BY <1>0, <2>16 DEF SMembers, Request
    <3> QED
      BY <2>6, <3>1
  <2>17. ASSUME NEW t, NextMember(s, t) PROVE R(s)
    <3>1. req'[s].pc \in {"dropSet", "revoke"}
      BY <1>0, <2>17 DEF NextMember, Request
    <3> QED
      BY <2>6, <3>1
  <2>18. CASE SoftDelete(s)
    <3>1. req[s].user \in Users /\ users[req[s].user] \in Row
      BY <2>18 DEF SoftDelete, At, TypeInv, TypeOK, Locals
    <3>2. \/ Finish(s)
          \/ \E row \in Row : req' = [Witness(req[s].user, row) EXCEPT ![s].pc = "smembers"]
      BY <2>18, <3>1, RowUpdate DEF SoftDelete
    <3>3. ASSUME NEW row \in Row, req' = [Witness(req[s].user, row) EXCEPT ![s].pc = "smembers"]
          PROVE  req'[s].pc = "smembers"
      BY <3>1, <3>3, WitnessType DEF TypeInv, Request
    <3> QED
      BY <2>6, <2>7, <3>2, <3>3
  <2>19. CASE SkipCall(s)
    <3>1. skips' # 0
      BY <1>2, <2>19 DEF SkipCall
    <3>2. \/ \E t : NextMember(s, t)
          \/ \E l \in {"srem", "reread", "logoutDel"} : req' = [req EXCEPT ![s].pc = l]
      BY <2>19 DEF SkipCall, Ignored
    <3> QED
      BY <1>0, <2>17, <3>1, <3>2 DEF Request
  <2>20. ASSUME NEW r \in Reqs, r # s, Start(r) \/ Continue(r) \/ SkipCall(r) \/ Abort(r) \/ Resend(r)
         PROVE  R(s)
    BY <2>3, <2>20, OthersKeep DEF Keeps
  <2>21. CASE (\E u \in Users : ChangeRoles(u)) \/ Tick \/ UNCHANGED vars
    BY <2>3, <2>21, EnvironmentKeeps DEF Keeps
  <2>22. CASE Resend(s)
    <3>1. CASE ResendPair(s)
      BY <1>0, <2>5, <3>1 DEF ResendPair, Request
    <3>2. CASE UNCHANGED req
      BY <2>3, <3>2
    <3> QED
      BY <2>22, <3>1, <3>2 DEF Resend, ResendDel, ResendDropSet
  <2> HIDE DEF R, Past
  <2> QED
    BY <2>7, <2>8, <2>9, <2>10, <2>11, <2>12, <2>13, <2>14, <2>15, <2>16, <2>17, <2>18, <2>19,
       <2>20, <2>21, <2>22
    DEF Next, Start, Continue, LoginReject, RefreshReject, Grant, LogoutDel, AnswerLogout,
        RevokeDel, DropSet, Abort
<1>7. SpentTokenIsDead'
  <2>1. SUFFICES ASSUME skips' = 0, NEW t \in spent' PROVE ~Live(t)'
    BY DEF SpentTokenIsDead
  <2>2. CASE t \in spent
    BY <1>0, <1>1, <1>2, <2>1, <2>2 DEF KeysInv, SpentTokenIsDead
  <2>3. ASSUME NEW r \in Reqs, Grant(r), t = req[r].tok, t # None PROVE ~Live(t)'
    BY <1>2, <2>1, <2>3 DEF Grant, At, KeysInv, Rotated, Live, stores
  <2>4. (\E r \in Reqs : Grant(r)) \/ UNCHANGED spent
    BY Frame, EnvironmentFrame DEF Next, Continue, vars, history
  <2> QED
    BY <2>2, <2>3, <2>4 DEF Grant
<1> QED
  BY <1>3, <1>4, <1>6, <1>7 DEF KeysInv

\* What holds of the refresh keys holds in every behaviour.
LEMMA KeysInvHolds == Spec => []KeysInv
<1>1. Init => KeysInv
  BY DEF Init, KeysInv, Owned, LogoutIsFinal, Rotated, SpentTokenIsDead, Live, Idle
<1> QED
  BY <1>1, KeysStay, TypeCorrect, MintedCorrect, PTL DEF Spec

\* A token whose logout was answered is never in Redis again.
THEOREM LogoutIsFinalCorrect == Spec => []LogoutIsFinal
  BY KeysInvHolds, PTL DEF KeysInv

\* While no error was ignored, a token the client exchanged is never in Redis again.
THEOREM SpentTokenIsDeadCorrect == Spec => []SpentTokenIsDead
  BY KeysInvHolds, PTL DEF KeysInv

-----------------------------------------------------------------------------
(* The user_tokens:<id> sets *)

\* Only the SADD of a pair puts a token in a set.
LEMMA IndexGrows ==
  ASSUME TypeInv, [Next]_vars, NEW u \in Users, NEW t \in index'[u]
  PROVE  \/ t \in index[u]
         \/ \E r \in Reqs : PipeSAdd(r) /\ u = req[r].user /\ t = req[r].new
<1>0. index \in [Users -> SUBSET Jtis]
  BY DEF TypeInv, TypeOK
<1>1. ASSUME NEW r \in Reqs, PipeSAdd(r), ~(u = req[r].user /\ t = req[r].new)
      PROVE  t \in index[u]
  BY <1>0, <1>1 DEF PipeSAdd
<1>2. ASSUME NEW r \in Reqs, RefreshSRem(r) \/ LogoutSRem(r) \/ DropSet(r) \/ ResendDropSet(r)
      PROVE  t \in index[u]
  BY <1>0, <1>2 DEF RefreshSRem, LogoutSRem, DropSet, ResendDropSet, RemoveFromIndex
<1>3. CASE Tick
  BY <1>0, <1>3 DEF Tick
<1>4. ASSUME NEW r \in Reqs, PipeExpire(r) PROVE t \in index[u]
  BY <1>0, <1>4 DEF PipeExpire
<1>5. \/ \E r \in Reqs : PipeSAdd(r) \/ PipeExpire(r) \/ RefreshSRem(r) \/ LogoutSRem(r)
                         \/ DropSet(r) \/ ResendDropSet(r)
      \/ Tick \/ UNCHANGED index
  BY Frame, EnvironmentFrame DEF Next, Continue, vars, stores
<1> QED
  BY <1>1, <1>2, <1>3, <1>4, <1>5

\* The members a revocation still has to delete are tokens of its user.
TodoOwned ==
  \A r \in Reqs :
    /\ req[r].pc # "revoke" => req[r].todo = {}
    /\ \A t \in req[r].todo : owner[t] = req[r].user

IndexInv == IndexHoldsOwnTokens /\ TodoOwned

\* The members of the sets stay tokens of their user.
LEMMA IndexStays == TypeInv /\ Minted /\ IndexInv /\ [Next]_vars => IndexInv'
<1> SUFFICES ASSUME TypeInv, Minted, IndexInv, [Next]_vars PROVE IndexInv'
  OBVIOUS
<1>0. /\ req \in [Reqs -> Request] /\ req' \in [Reqs -> Request]
      /\ index \in [Users -> SUBSET Jtis] /\ index' \in [Users -> SUBSET Jtis]
  <2>1. TypeInv'
    BY TypeStays
  <2> QED
    BY <2>1 DEF TypeInv, TypeOK
<1>1. \A t \in Jtis : owner[t] # None => owner'[t] = owner[t]
  BY OwnerStays
<1>2. ASSUME NEW u \in Users, NEW t \in index'[u] PROVE owner'[t] = u
  <2>1. owner[t] = u
    <3>1. CASE t \in index[u]
      BY <3>1 DEF IndexInv, IndexHoldsOwnTokens
    <3>2. ASSUME NEW r \in Reqs, PipeSAdd(r), u = req[r].user, t = req[r].new
          PROVE  owner[t] = u
      BY <3>2, NoneAssumption DEF PipeSAdd, At, Minted, TypeInv, Locals
    <3> QED
      BY <3>1, <3>2, IndexGrows
  <2> QED
    BY <1>0, <1>1, <2>1, NoneAssumption
<1>3. TodoOwned'
  <2> DEFINE T(s) == /\ req'[s].pc # "revoke" => req'[s].todo = {}
                     /\ \A t \in req'[s].todo : owner'[t] = req'[s].user
  <2>1. SUFFICES ASSUME NEW s \in Reqs PROVE T(s)
    BY DEF TodoOwned
  <2>2. /\ req[s] \in Request
        /\ req[s].pc # "revoke" => req[s].todo = {}
        /\ \A t \in req[s].todo : owner[t] = req[s].user
    BY <1>0 DEF IndexInv, TodoOwned
  <2>3. \A t \in req[s].todo : owner'[t] = req[s].user
    BY <1>1, <2>2, NoneAssumption DEF TypeInv, Locals, Request
  <2>4. ASSUME req'[s].todo = {} PROVE T(s)
    BY <2>4
  <2>5. CASE Finish(s)
    BY <1>0, <2>4, <2>5 DEF Finish, Idle
  <2>6. ASSUME Keeps(s) PROVE T(s)
    BY <2>2, <2>3, <2>6 DEF Keeps
  <2>7. ASSUME req[s].pc # "revoke", req'[s].todo = req[s].todo PROVE T(s)
    BY <2>2, <2>4, <2>7
  <2>8. ASSUME NEW u \in Users, StartLogin(s, u) \/ StartDelete(s, u) PROVE T(s)
    BY <1>0, <2>7, <2>8 DEF StartLogin, StartDelete, At, Request
  <2>9. ASSUME NEW t \in Jtis, StartRefresh(s, t) \/ StartLogout(s, t) PROVE T(s)
    BY <1>0, <2>7, <2>9 DEF StartRefresh, StartLogout, At, Request
  <2>10. CASE LoginLookup(s) \/ RefreshReread(s)
    <3>1. PICK t : req'[s] = [req[s] EXCEPT !.pc = "set", !.new = t,
                                            !.roles = users[req[s].user].roles]
      BY <1>0, <2>10 DEF LoginLookup, RefreshReread, ReadUserAndMint
    <3>2. req'[s].todo = req[s].todo
      BY <1>0, <3>1 DEF Request
    <3> QED
      BY <2>7, <2>10, <3>2 DEF LoginLookup, RefreshReread, At
  <2>11. CASE RefreshGet(s) \/ LogoutGet(s)
    BY <1>0, <2>5, <2>7, <2>11 DEF RefreshGet, LogoutGet, AnswerLogout, At, Request
  <2>12. CASE RefreshDel(s) \/ RefreshSRem(s) \/ LogoutSRem(s)
    BY <1>0, <2>7, <2>12 DEF RefreshDel, RefreshSRem, LogoutSRem, At, Request
  <2>13. CASE PipeSet(s) \/ PipeSAdd(s) \/ PipeExpire(s)
    BY <1>0, <2>7, <2>13 DEF PipeSet, PipeSAdd, PipeExpire, At, Request
  <2>14. CASE SMembers(s)
    <3>1. /\ req'[s].todo = index[req[s].user]
          /\ req'[s].pc = IF index[req[s].user] = {} THEN "dropSet" ELSE "revoke"
          /\ req'[s].user = req[s].user
      BY ZenonT(40), <1>0, <2>14 DEF SMembers, Request
    <3>2. req[s].user \in Users
      BY <2>14 DEF SMembers, At, TypeInv, Locals
    <3>3. \A t \in index[req[s].user] : t \in Jtis /\ owner[t] = req[s].user
      BY <1>0, <3>2 DEF IndexInv, IndexHoldsOwnTokens
    <3> QED
      BY <1>1, <3>1, <3>2, <3>3, NoneAssumption
  <2>15. ASSUME NEW t, NextMember(s, t) PROVE T(s)
    <3>1. /\ req'[s].todo = req[s].todo \ {t}
          /\ req'[s].pc = IF req[s].todo = {t} THEN "dropSet" ELSE "revoke"
          /\ req'[s].user = req[s].user
      BY ZenonT(40), <1>0, <2>15 DEF NextMember, Request
    <3> QED
      BY <2>3, <3>1
  <2>16. CASE SoftDelete(s)
    <3>1. req[s].user \in Users /\ users[req[s].user] \in Row
      BY <2>16 DEF SoftDelete, At, TypeInv, TypeOK, Locals
    <3>2. \/ Finish(s)
          \/ \E row \in Row : req' = [Witness(req[s].user, row) EXCEPT ![s].pc = "smembers"]
      BY <2>16, <3>1, RowUpdate DEF SoftDelete
    <3>3. ASSUME NEW row \in Row, req' = [Witness(req[s].user, row) EXCEPT ![s].pc = "smembers"]
          PROVE  req'[s].todo = req[s].todo
      BY <3>1, <3>3, WitnessType DEF TypeInv, Request
    <3> QED
      BY <2>5, <2>7, <2>16, <3>2, <3>3 DEF SoftDelete, At
  <2>17. CASE SkipCall(s)
    <3>1. ASSUME NEW l, req[s].pc # "revoke", req' = [req EXCEPT ![s].pc = l] PROVE T(s)
      BY <1>0, <2>7, <3>1 DEF Request
    <3> QED
      BY <2>15, <2>17, <3>1 DEF SkipCall, Ignored, At
  <2>18. ASSUME NEW r \in Reqs, r # s, Start(r) \/ Continue(r) \/ SkipCall(r) \/ Abort(r) \/ Resend(r)
         PROVE  T(s)
    BY <2>6, <2>18, OthersKeep
  <2>19. CASE (\E u \in Users : ChangeRoles(u)) \/ Tick \/ UNCHANGED vars
    BY <2>6, <2>19, EnvironmentKeeps
  <2>20. CASE Resend(s)
    <3>1. CASE ResendPair(s)
      BY <1>0, <2>7, <3>1 DEF ResendPair, Request
    <3>2. CASE UNCHANGED req
      BY <2>6, <3>2 DEF Keeps
    <3> QED
      BY <2>20, <3>1, <3>2 DEF Resend, ResendDel, ResendDropSet
  <2> HIDE DEF T
  <2> QED
    BY <2>5, <2>8, <2>9, <2>10, <2>11, <2>12, <2>13, <2>14, <2>15, <2>16, <2>17, <2>18, <2>19,
       <2>20
    DEF Next, Start, Continue, LoginReject, RefreshReject, Grant, LogoutDel, AnswerLogout,
        RevokeDel, DropSet, Abort
<1> QED
  BY <1>2, <1>3 DEF IndexInv, IndexHoldsOwnTokens, TodoOwned

\* What holds of the sets holds in every behaviour.
LEMMA IndexInvHolds == Spec => []IndexInv
<1>1. Init => IndexInv
  BY DEF Init, IndexInv, IndexHoldsOwnTokens, TodoOwned, Idle
<1> QED
  BY <1>1, IndexStays, TypeCorrect, MintedCorrect, PTL DEF Spec

\* A user's set, and what a deletion takes from it, are tokens of that user.
THEOREM IndexHoldsOwnTokensCorrect == Spec => []IndexHoldsOwnTokens
  BY IndexInvHolds, PTL DEF IndexInv

-----------------------------------------------------------------------------
(* The expiry of the sets *)

\* Tokens a client holds or is about to be handed.
Held(t) == t \in issued \/ \E r \in Reqs : At(r, "reply") /\ req[r].new = t

Outlives ==
  /\ \A t \in Jtis : Live(t) => refresh[t].ttl >= 1 \/ TTL = 0
  /\ \A u \in Users : \A t \in index[u] :
       Live(t) /\ Held(t) => idxTTL[u] = 0 \/ idxTTL[u] + CutOff >= refresh[t].ttl

\* The life of a set that keeps a member changes with time and with EXPIRE only.
LEMMA ExpiryChanges ==
  ASSUME TypeInv, [Next]_vars, NEW u \in Users, index'[u] # {}
  PROVE  \/ idxTTL'[u] = idxTTL[u]
         \/ Tick
         \/ \E r \in Reqs : PipeExpire(r) /\ u = req[r].user
<1>0. index \in [Users -> SUBSET Jtis] /\ idxTTL \in [Users -> 0..SetLife]
  BY DEF TypeInv, TypeOK
<1>1. ASSUME NEW r \in Reqs, PipeExpire(r), u # req[r].user PROVE idxTTL'[u] = idxTTL[u]
  BY <1>0, <1>1 DEF PipeExpire
<1>2. ASSUME NEW v, NEW tokens, RemoveFromIndex(v, tokens) PROVE idxTTL'[u] = idxTTL[u]
  BY <1>0, <1>2 DEF RemoveFromIndex
<1>3. ASSUME NEW r \in Reqs, RefreshSRem(r) \/ LogoutSRem(r) \/ DropSet(r) \/ ResendDropSet(r)
      PROVE  idxTTL'[u] = idxTTL[u]
  BY <1>2, <1>3 DEF RefreshSRem, LogoutSRem, DropSet, ResendDropSet
<1>4. \/ \E r \in Reqs : \/ PipeExpire(r) \/ RefreshSRem(r) \/ LogoutSRem(r) \/ DropSet(r)
                        \/ ResendDropSet(r)
      \/ Tick \/ UNCHANGED idxTTL
  BY Frame, EnvironmentFrame DEF Next, Continue, vars, stores
<1> QED
  BY <1>1, <1>3, <1>4

\* A token comes to be held by the EXPIRE that ends its pipeline, and only so.
LEMMA HeldAppears ==
  ASSUME TypeInv, [Next]_vars, NEW t \in Jtis, Held(t)'
  PROVE  Held(t) \/ \E r \in Reqs : PipeExpire(r) /\ req[r].new = t
<1>0. req \in [Reqs -> Request] /\ req' \in [Reqs -> Request]
  BY RequestsStayTyped DEF TypeInv, TypeOK
<1>1. CASE t \in issued'
  <2>1. (\E r \in Reqs : Grant(r)) \/ UNCHANGED issued
    BY Frame, EnvironmentFrame DEF Next, Continue, vars, history
  <2> QED
    BY <1>1, <2>1 DEF Grant, Held
<1>2. ASSUME NEW s \in Reqs, req'[s].pc = "reply", req'[s].new = t
      PROVE  Held(t) \/ \E r \in Reqs : PipeExpire(r) /\ req[r].new = t
  <2>1. CASE Keeps(s)
    BY <1>2, <2>1 DEF Keeps, Held, At
  <2>2. CASE PipeExpire(s)
    BY <1>0, <1>2, <2>2 DEF PipeExpire, Request
  <2>4. CASE Finish(s)
    BY <1>0, <1>2, <2>4 DEF Finish, Idle
  <2>5. ~Start(s)
    <3>1. \A u \in Users : ~StartLogin(s, u) /\ ~StartDelete(s, u)
      BY <1>0, <1>2 DEF StartLogin, StartDelete, Request
    <3>2. \A m \in Jtis : ~StartRefresh(s, m) /\ ~StartLogout(s, m)
      BY <1>0, <1>2 DEF StartRefresh, StartLogout, Request
    <3> QED
      BY <3>1, <3>2 DEF Start
  <2>6. ~(LoginLookup(s) \/ RefreshReread(s))
    <3>1. ASSUME LoginLookup(s) \/ RefreshReread(s) PROVE FALSE
      <4>1. PICK t2 : req' = [req EXCEPT ![s].pc = "set", ![s].new = t2,
                                        ![s].roles = users[req[s].user].roles]
        BY <3>1 DEF LoginLookup, RefreshReread, ReadUserAndMint
      <4> QED
        BY <1>0, <1>2, <4>1 DEF Request
    <3> QED
      BY <3>1
  <2>7. RefreshGet(s) \/ LogoutGet(s) => Finish(s)
    BY <1>0, <1>2 DEF RefreshGet, LogoutGet, AnswerLogout, Request
  <2>8. ~(RefreshDel(s) \/ RefreshSRem(s) \/ LogoutSRem(s) \/ PipeSet(s) \/ PipeSAdd(s))
    BY <1>0, <1>2 DEF RefreshDel, RefreshSRem, LogoutSRem, PipeSet, PipeSAdd, Request
  <2>9. ~SMembers(s) /\ \A m : ~NextMember(s, m)
    BY <1>0, <1>2 DEF SMembers, NextMember, Request
  <2>10. SoftDelete(s) => Finish(s)
    <3>1. ASSUME SoftDelete(s), ~Finish(s) PROVE FALSE
      <4>1. req[s].user \in Users /\ users[req[s].user] \in Row
        BY <3>1 DEF SoftDelete, At, TypeInv, TypeOK, Locals
      <4>2. PICK row \in Row : req' = [Witness(req[s].user, row) EXCEPT ![s].pc = "smembers"]
        BY <3>1, <4>1, RowUpdate DEF SoftDelete
      <4> QED
        BY <1>2, <4>1, <4>2, WitnessType DEF TypeInv, Request
    <3> QED
      BY <3>1
  <2>11. ~SkipCall(s)
    BY <1>0, <1>2, <2>9 DEF SkipCall, Ignored, Request
  <2>14. Resend(s) => Keeps(s)
    BY <1>0, <1>2 DEF Resend, ResendPair, ResendDel, ResendDropSet, Request, Keeps
  <2>12. ASSUME NEW r \in Reqs, r # s, Start(r) \/ Continue(r) \/ SkipCall(r) \/ Abort(r) \/ Resend(r)
         PROVE  Keeps(s)
    BY <2>12, OthersKeep
  <2>13. CASE (\E u \in Users : ChangeRoles(u)) \/ Tick \/ UNCHANGED vars
    BY <2>1, <2>13, EnvironmentKeeps
  <2> QED
    BY <2>1, <2>2, <2>4, <2>5, <2>6, <2>7, <2>8, <2>9, <2>10, <2>11, <2>12, <2>13, <2>14
    DEF Next, Continue, LoginReject, RefreshReject, Grant, LogoutDel, AnswerLogout, RevokeDel,
        DropSet, Abort
<1> QED
  BY <1>1, <1>2 DEF Held, At

\* The life of a set and that of its members keep their order at every step.
LEMMA OutlivesStays ==
  TypeInv /\ Minted /\ IndexInv /\ Outlives /\ [Next]_vars => Outlives'
<1> SUFFICES ASSUME TypeInv, Minted, IndexInv, Outlives, [Next]_vars PROVE Outlives'
  OBVIOUS
<1>0. /\ refresh \in [Jtis -> Payload \cup {None}] /\ refresh' \in [Jtis -> Payload \cup {None}]
      /\ index \in [Users -> SUBSET Jtis] /\ index' \in [Users -> SUBSET Jtis]
      /\ idxTTL \in [Users -> 0..SetLife] /\ idxTTL' \in [Users -> 0..SetLife]
      /\ req \in [Reqs -> Request] /\ req' \in [Reqs -> Request]
  <2>1. TypeInv'
    BY TypeStays
  <2> QED
    BY <2>1 DEF TypeInv, TypeOK
<1>1. ASSUME NEW t \in Jtis, Live(t)' PROVE refresh'[t].ttl >= 1 \/ TTL = 0
  <2>1. ASSUME NEW r \in Reqs, PipeSet(r), t = req[r].new
        PROVE  refresh'[t].ttl >= 1 \/ TTL = 0
    BY <1>0, <2>1, TTLAssumption DEF PipeSet, NewPayload
  <2>2. ASSUME Live(t), refresh'[t] = Aged(refresh[t])
        PROVE  refresh'[t].ttl >= 1 \/ TTL = 0
    BY <1>0, <1>1, <2>2, TTLAssumption DEF Aged, Live, Payload, Outlives
  <2> QED
    BY <1>1, <2>1, <2>2, KeysAppear DEF Outlives
<1>2. ASSUME NEW u \in Users, NEW t \in index'[u], Live(t)', Held(t)'
      PROVE  idxTTL'[u] = 0 \/ idxTTL'[u] + CutOff >= refresh'[t].ttl
  <2>0. t \in Jtis
    BY <1>0
  <2>1. ASSUME NEW r \in Reqs, PipeExpire(r), u = req[r].user
        PROVE  idxTTL'[u] + CutOff >= refresh'[t].ttl
    <3>1. idxTTL'[u] = SetLife
      BY <1>0, <2>1 DEF PipeExpire
    <3>2. refresh'[t] \in Payload
      BY <1>0, <1>2, <2>0 DEF Live
    <3> QED
      BY <3>1, <3>2, TTLAssumption, Lives DEF Payload
  <2>2. ASSUME \A r \in Reqs : PipeExpire(r) => u # req[r].user
        PROVE  Held(t) /\ t \in index[u]
    <3>1. t \in index[u]
      <4>1. ASSUME NEW r \in Reqs, PipeSAdd(r), t = req[r].new PROVE FALSE
        <5>1. t # None /\ req[r].pc = "sadd"
          BY <2>0, <4>1, NoneAssumption DEF PipeSAdd, At
        <5>2. ~Held(t)
          BY <4>1, <5>1 DEF Held, At, Minted
        <5>3. \A q \in Reqs : ~PipeExpire(q) \/ req[q].new # t
          BY <4>1, <5>1 DEF Minted, PipeExpire, At
        <5> QED
          BY <1>2, <2>0, <5>2, <5>3, HeldAppears
      <4> QED
        BY <4>1, IndexGrows
    <3>2. ASSUME NEW r \in Reqs, PipeExpire(r), req[r].new = t PROVE FALSE
      <4>1. owner[t] = req[r].user
        BY <2>0, <3>2, NoneAssumption DEF Minted, PipeExpire, At
      <4>2. owner[t] = u
        BY <3>1 DEF IndexInv, IndexHoldsOwnTokens
      <4> QED
        BY <2>2, <3>2, <4>1, <4>2
    <3> QED
      BY <1>2, <2>0, <3>1, <3>2, HeldAppears
  <2>3. ASSUME Held(t) PROVE Live(t) /\ (refresh'[t] = refresh[t] \/ Tick)
    <3>1. ASSUME NEW r \in Reqs, PipeSet(r), t = req[r].new PROVE FALSE
      BY <2>0, <2>3, <3>1, NoneAssumption DEF PipeSet, At, Minted, Held
    <3> QED
      BY <1>2, <2>0, <3>1, KeysAppear
  <2>4. ASSUME Held(t), t \in index[u], Tick
        PROVE  idxTTL'[u] = 0 \/ idxTTL'[u] + CutOff >= refresh'[t].ttl
    <3>1. idxTTL[u] = 0 \/ idxTTL[u] + CutOff >= refresh[t].ttl
      BY <2>3, <2>4 DEF Outlives
    <3>2. refresh[t] \in Payload /\ refresh'[t] = Aged(refresh[t])
      BY <1>0, <2>0, <2>3, <2>4 DEF Live, Tick
    <3>3. (refresh[t].ttl >= 1 \/ TTL = 0) /\ refresh'[t] # None
      BY <1>2, <2>0, <2>3, <2>4 DEF Outlives, Live
    <3> SUFFICES ASSUME TTL # 0 PROVE idxTTL'[u] + CutOff >= refresh'[t].ttl \/ idxTTL'[u] = 0
      BY <1>0, Lives
    <3>4. refresh'[t].ttl = refresh[t].ttl - 1
      BY <3>2, <3>3, TTLAssumption DEF Aged, Payload
    <3>5. idxTTL'[u] = IF idxTTL[u] = 0 THEN 0 ELSE idxTTL[u] - 1
      BY <2>4 DEF Tick
    <3> QED
      BY <1>0, <3>1, <3>2, <3>4, <3>5, TTLAssumption, Lives DEF Payload
  <2> QED
    BY <1>2, <2>1, <2>2, <2>3, <2>4, ExpiryChanges DEF Outlives
<1> QED
  BY <1>1, <1>2 DEF Outlives

\* A user's set expires before a token in it that a client holds by no more than the
\* fraction of a second that EXPIRE cuts off.
THEOREM IndexOutlivesTokensCorrect == Spec => []IndexOutlivesTokens
<1>1. Init => IndexInv /\ Outlives
  BY DEF Init, IndexInv, IndexHoldsOwnTokens, TodoOwned, Idle, Outlives, Live
<1>2. Outlives => IndexOutlivesTokens
  BY DEF Outlives, IndexOutlivesTokens, Held
<1> QED
  BY <1>1, <1>2, IndexStays, OutlivesStays, TypeCorrect, MintedCorrect, PTL DEF Spec

-----------------------------------------------------------------------------
(* The row a pair is made from *)

\* Until a request has read the user, the rows it has seen hold the current one.
Current ==
  \A r \in Reqs : req[r].pc \in {"lookup", "del", "srem", "reread"} =>
    users[req[r].user] \in req[r].seen

FreshInv == FreshGrant /\ Current

\* Whoever changes a row, the other requests that serve its user have seen it.
LEMMA RowsAreSeen ==
  ASSUME TypeInv, [Next]_vars, NEW s \in Reqs, Keeps(s),
         \/ \E r \in Reqs \ {s} : Start(r) \/ Continue(r) \/ SkipCall(r) \/ Abort(r) \/ Resend(r)
         \/ (\E u \in Users : ChangeRoles(u)) \/ Tick \/ UNCHANGED vars
  PROVE  /\ req[s].seen \subseteq req'[s].seen
         /\ req[s].user \in Users /\ users[req[s].user] \in req[s].seen
              => users'[req'[s].user] \in req'[s].seen
<1> DEFINE Goal == /\ req[s].seen \subseteq req'[s].seen
                   /\ req[s].user \in Users /\ users[req[s].user] \in req[s].seen
                        => users'[req'[s].user] \in req'[s].seen
<1>0. req \in [Reqs -> Request] /\ users \in [Users -> Row]
  BY DEF TypeInv, TypeOK
<1>1. ASSUME NEW u \in Users, NEW row \in Row, req'[s] = Witness(u, row)[s],
             users' = [users EXCEPT ![u] = row]
      PROVE  Goal
  <2>1. req'[s] = IF req[s].user = u /\ req[s].seen # {}
                    THEN [req[s] EXCEPT !.seen = @ \cup {row}] ELSE req[s]
    BY <1>1 DEF Witness
  <2>2. req'[s].seen = IF req[s].user = u /\ req[s].seen # {}
                         THEN req[s].seen \cup {row} ELSE req[s].seen
    BY <1>0, <2>1 DEF Request
  <2>3. req'[s].user = req[s].user
    BY DEF Keeps
  <2>4. ASSUME req[s].user \in Users, users[req[s].user] \in req[s].seen
        PROVE  users'[req'[s].user] \in req'[s].seen
    BY <1>0, <1>1, <2>2, <2>3, <2>4
  <2> QED
    BY <2>2, <2>4
<1>2. ASSUME users' = users, req'[s] = req[s] PROVE Goal
  BY <1>2
<1>3. ASSUME NEW r \in Reqs, SoftDelete(r), r # s PROVE Goal
  <2>1. req[r].user \in Users
    BY <1>3 DEF SoftDelete, At, TypeInv, Locals
  <2>2. CASE Finish(r) /\ UNCHANGED users
    BY <1>0, <1>2, <1>3, <2>2 DEF Finish
  <2>3. CASE /\ users' = [users EXCEPT ![req[r].user] =
                             [users[req[r].user] EXCEPT !.deleted = TRUE]]
             /\ req' = [Witness(req[r].user, [users[req[r].user] EXCEPT !.deleted = TRUE])
                          EXCEPT ![r].pc = "smembers"]
    <3>1. PICK row \in Row : row = [users[req[r].user] EXCEPT !.deleted = TRUE]
      BY <1>0, <2>1, RowUpdate
    <3>2. req'[s] = Witness(req[r].user, row)[s]
      BY <1>3, <2>1, <2>3, <3>1, WitnessType DEF TypeInv
    <3> QED
      BY <1>1, <2>1, <2>3, <3>1, <3>2
  <2> QED
    BY <1>3, <2>2, <2>3 DEF SoftDelete
<1>4. ASSUME NEW u \in Users, ChangeRoles(u) PROVE Goal
  <2>1. PICK m \in Roles : /\ users' = [users EXCEPT ![u] = [users[u] EXCEPT !.roles = m]]
                           /\ req' = Witness(u, [users[u] EXCEPT !.roles = m])
    BY <1>4 DEF ChangeRoles
  <2>2. [users[u] EXCEPT !.roles = m] \in Row
    BY <1>0, RowUpdate
  <2> QED
    BY <1>1, <2>1, <2>2
<1>5. ASSUME NEW r \in Reqs, r # s, ~SoftDelete(r),
             Start(r) \/ Continue(r) \/ SkipCall(r) \/ Abort(r) \/ Resend(r)
      PROVE  users' = users /\ req'[s] = req[s]
  <2>1. users' = users
    BY <1>5, Frame DEF Continue, stores
  <2>2. req'[s] = req[s]
    BY <1>0, <1>5
    DEF Start, StartLogin, StartDelete, StartRefresh, StartLogout, Continue, LoginLookup,
        LoginReject, RefreshGet, RefreshDel, RefreshSRem, RefreshReread, RefreshReject,
        ReadUserAndMint, PipeSet, PipeSAdd, PipeExpire, Grant, LogoutGet, LogoutSRem, LogoutDel,
        AnswerLogout, SMembers, RevokeDel, NextMember, DropSet, SkipCall, Ignored, Abort, Resend,
        ResendPair, ResendDel, ResendDropSet, Finish
  <2> QED
    BY <2>1, <2>2
<1>6. ASSUME Tick \/ UNCHANGED vars PROVE Goal
  BY <1>2, <1>6 DEF Tick, vars, stores
<1> HIDE DEF Goal
<1>7. ASSUME NEW r \in Reqs \ {s}, Start(r) \/ Continue(r) \/ SkipCall(r) \/ Abort(r) \/ Resend(r)
      PROVE  Goal
  <2>1. CASE SoftDelete(r)
    BY <1>3, <2>1
  <2>2. CASE ~SoftDelete(r)
    BY <1>2, <1>5, <1>7, <2>2
  <2> QED
    BY <2>1, <2>2
<1>8. Goal
  BY <1>4, <1>6, <1>7
<1> QED
  BY <1>8 DEF Goal

\* Every step leaves each request with the rows it has to have seen.
LEMMA FreshStays == TypeInv /\ FreshInv /\ [Next]_vars => FreshInv'
<1> SUFFICES ASSUME TypeInv, FreshInv, [Next]_vars PROVE FreshInv'
  OBVIOUS
<1>0. /\ req \in [Reqs -> Request] /\ req' \in [Reqs -> Request]
      /\ users \in [Users -> Row]
  BY RequestsStayTyped DEF TypeInv, TypeOK
<1> DEFINE Before == {"lookup", "del", "srem", "reread"}
           F(s) == /\ req'[s].pc \in PairPC =>
                        [deleted |-> FALSE, roles |-> req'[s].roles] \in req'[s].seen
                   /\ req'[s].pc \in Before => users'[req'[s].user] \in req'[s].seen
<1>1. SUFFICES ASSUME NEW s \in Reqs PROVE F(s)
  BY DEF FreshInv, FreshGrant, Current
<1>2. /\ req[s].pc \in PairPC => [deleted |-> FALSE, roles |-> req[s].roles] \in req[s].seen
      /\ req[s].pc \in Before => users[req[s].user] \in req[s].seen /\ req[s].user \in Users
  BY DEF FreshInv, FreshGrant, Current, TypeInv, Locals
<1>3. ASSUME req'[s].pc \notin PairPC \cup Before PROVE F(s)
  BY <1>3
<1>4. ASSUME req[s].pc \in PairPC, req'[s].pc \in PairPC, req'[s].roles = req[s].roles,
             req'[s].seen = req[s].seen
      PROVE  F(s)
  BY <1>2, <1>4
<1>5. ASSUME req[s].pc \in Before, req'[s].pc \in Before, req'[s].user = req[s].user,
             req'[s].seen = req[s].seen, users' = users
      PROVE  F(s)
  BY <1>2, <1>5
<1>6. CASE Finish(s)
  BY <1>0, <1>3, <1>6 DEF Finish, Idle
<1>7. ASSUME NEW u \in Users, StartLogin(s, u) PROVE F(s)
  BY <1>0, <1>7 DEF StartLogin, stores, Request
<1>8. ASSUME NEW u \in Users, StartDelete(s, u) PROVE F(s)
  BY <1>0, <1>3, <1>8 DEF StartDelete, Request
<1>9. ASSUME NEW t \in Jtis, StartRefresh(s, t) \/ StartLogout(s, t) PROVE F(s)
  BY <1>0, <1>3, <1>9 DEF StartRefresh, StartLogout, Request
<1>10. CASE LoginLookup(s) \/ RefreshReread(s)
  <2>1. PICK t : req' = [req EXCEPT ![s].pc = "set", ![s].new = t,
                                    ![s].roles = users[req[s].user].roles]
    BY <1>10 DEF LoginLookup, RefreshReread, ReadUserAndMint
  <2>2. /\ req'[s].pc = "set" /\ req'[s].roles = users[req[s].user].roles
        /\ req'[s].seen = req[s].seen
    BY <1>0, <2>1 DEF Request
  <2>3. users[req[s].user] \in req[s].seen /\ users[req[s].user] \in Row
    BY <1>0, <1>2, <1>10 DEF LoginLookup, RefreshReread, At
  <2>4. users[req[s].user].deleted = FALSE
    BY <1>10, <2>3 DEF LoginLookup, RefreshReread, ReadUserAndMint, Row
  <2>5. [deleted |-> FALSE, roles |-> users[req[s].user].roles] = users[req[s].user]
    BY <2>3, <2>4 DEF Row
  <2> QED
    BY <2>2, <2>3, <2>5
<1>11. CASE RefreshGet(s)
  BY <1>0, <1>6, <1>11 DEF RefreshGet, stores, Request
<1>12. CASE RefreshDel(s) \/ RefreshSRem(s)
  BY <1>0, <1>5, <1>12 DEF RefreshDel, RefreshSRem, At, Request
<1>13. CASE PipeSet(s) \/ PipeSAdd(s) \/ PipeExpire(s)
  BY <1>0, <1>4, <1>13 DEF PipeSet, PipeSAdd, PipeExpire, At, Request
<1>14. CASE LogoutGet(s) \/ LogoutSRem(s) \/ LogoutDel(s)
  BY <1>0, <1>3, <1>6, <1>14 DEF LogoutGet, LogoutSRem, LogoutDel, AnswerLogout, Request
<1>15. CASE SoftDelete(s)
  <2>1. req[s].user \in Users /\ users[req[s].user] \in Row
    BY <1>15 DEF SoftDelete, At, TypeInv, TypeOK, Locals
  <2>2. \/ Finish(s)
        \/ \E row \in Row : req' = [Witness(req[s].user, row) EXCEPT ![s].pc = "smembers"]
    BY <1>15, <2>1, RowUpdate DEF SoftDelete
  <2>3. ASSUME NEW row \in Row, req' = [Witness(req[s].user, row) EXCEPT ![s].pc = "smembers"]
        PROVE  req'[s].pc = "smembers"
    BY <2>1, <2>3, WitnessType DEF TypeInv, Request
  <2> QED
    BY <1>3, <1>6, <2>2, <2>3
<1>16. CASE SMembers(s) \/ \E t : NextMember(s, t)
  <2>1. ASSUME SMembers(s) PROVE req'[s].pc \in {"dropSet", "revoke"}
    <3>1. PICK l \in {"dropSet", "revoke"} :
            req' = [req EXCEPT ![s].todo = index[req[s].user], ![s].pc = l]
      BY <2>1 DEF SMembers
    <3> QED
      BY <1>0, <3>1 DEF Request
  <2>2. ASSUME NEW t, NextMember(s, t) PROVE req'[s].pc \in {"dropSet", "revoke"}
    BY <1>0, <2>2 DEF NextMember, Request
  <2> QED
    BY <1>3, <1>16, <2>1, <2>2
<1>17. CASE SkipCall(s)
  <2>1. UNCHANGED users
    BY <1>17 DEF SkipCall, stores
  <2>2. \/ \E t : NextMember(s, t)
        \/ req[s].pc = "del" /\ req' = [req EXCEPT ![s].pc = "srem"]
        \/ req[s].pc = "srem" /\ req' = [req EXCEPT ![s].pc = "reread"]
        \/ req' = [req EXCEPT ![s].pc = "logoutDel"]
    BY <1>17 DEF SkipCall, Ignored, At
  <2> QED
    BY <1>0, <1>3, <1>5, <1>16, <2>1, <2>2 DEF Request
<1>18. ASSUME Keeps(s),
              \/ \E r \in Reqs \ {s} : Start(r) \/ Continue(r) \/ SkipCall(r) \/ Abort(r) \/ Resend(r)
              \/ (\E u \in Users : ChangeRoles(u)) \/ Tick \/ UNCHANGED vars
       PROVE  F(s)
  BY <1>2, <1>18, RowsAreSeen DEF Keeps
<1>19. ASSUME NEW r \in Reqs, r # s, Start(r) \/ Continue(r) \/ SkipCall(r) \/ Abort(r) \/ Resend(r)
       PROVE  F(s)
  BY <1>18, <1>19, OthersKeep
<1>20. CASE (\E u \in Users : ChangeRoles(u)) \/ Tick \/ UNCHANGED vars
  BY <1>18, <1>20, EnvironmentKeeps
<1>21. CASE Resend(s)
  <2>1. CASE ResendPair(s)
    BY <1>0, <1>4, <2>1 DEF ResendPair, Request
  <2>2. CASE UNCHANGED <<req, users>>
    BY <1>2, <2>2
  <2> QED
    BY <1>21, <2>1, <2>2 DEF Resend, ResendDel, ResendDropSet
<1> HIDE DEF F, Before
<1> QED
  BY <1>6, <1>7, <1>8, <1>9, <1>10, <1>11, <1>12, <1>13, <1>14, <1>15, <1>16, <1>17, <1>19,
     <1>20, <1>21
  DEF Next, Start, Continue, LoginReject, RefreshReject, Grant, RevokeDel, DropSet, Abort

\* A pair is made from a row its user had, live, while the request was served.
THEOREM FreshGrantCorrect == Spec => []FreshGrant
<1>1. Init => FreshInv
  BY DEF Init, FreshInv, FreshGrant, Current, Idle
<1>2. FreshInv => FreshGrant
  BY DEF FreshInv
<1> QED
  BY <1>1, <1>2, FreshStays, TypeCorrect, PTL DEF Spec

-----------------------------------------------------------------------------
(* The contract of a token *)

\* A stored token was minted, so it is alive in the contract as well.
LEMMA LivePhase ==
  ASSUME TypeInv, Owned
  PROVE  /\ \A t \in Jtis : Live(t) <=> PhaseOf(t) = "live"
         /\ \A t \in Jtis : PhaseOf(t) = "unborn" <=> owner[t] = None
<1>1. \A t \in Jtis : Live(t) => owner[t] # None
  BY NoneAssumption DEF TypeInv, TypeOK, Owned, Live, Payload
<1> QED
  BY <1>1 DEF PhaseOf

\* What ends some tokens, or nothing, and leaves the rest alone is a step of the contract.
LEMMA EndIsAllowed ==
  ASSUME TypeInv, Owned, UNCHANGED <<owner, issued, loggedOut>>,
         \A t \in Jtis : Live(t)' => Live(t)
  PROVE  Contract!Next
<1> DEFINE ends == {t \in Jtis : Live(t) /\ ~Live(t)'}
<1>1. \A t \in ends : PhaseOf(t) = "live"
  BY LivePhase
<1>2. \A t \in Jtis : PhaseOf(t)' = IF t \in ends THEN "dead" ELSE PhaseOf(t)
  BY LivePhase DEF PhaseOf
<1>3. Contract!End(ends)
  BY <1>1, <1>2 DEF Contract!End
<1> QED
  BY <1>3 DEF Contract!Next

\* Every step of a request, and time, is a step that the contract allows.
LEMMA StepIsAllowed ==
  TypeInv /\ Minted /\ Owned /\ [Next]_vars => [Contract!Next]_(Contract!vars)
<1> SUFFICES ASSUME TypeInv, Minted, Owned, [Next]_vars PROVE Contract!Next
  OBVIOUS
<1>0. /\ owner \in [Jtis -> Users \cup {None}]
      /\ refresh \in [Jtis -> Payload \cup {None}]
      /\ Locals
  BY DEF TypeInv, TypeOK
<1>1. ASSUME NEW r \in Reqs, PipeSet(r) PROVE Contract!Next
  <2> DEFINE new == req[r].new
  <2>1. /\ new \in Jtis /\ req[r].user \in Users
        /\ owner[new] \in {None, req[r].user} /\ new \notin issued
    BY <1>0, <1>1, NoneAssumption DEF PipeSet, At, Locals, Minted
  <2>2. /\ owner' = [owner EXCEPT ![new] = req[r].user]
        /\ refresh' = [refresh EXCEPT ![new] = NewPayload(r)]
        /\ UNCHANGED <<issued, loggedOut>>
    BY <1>1 DEF PipeSet
  <2>3. NewPayload(r) # None
    <3>1. NewPayload(r) \in Payload
      BY <1>1, TTLAssumption DEF PipeSet, At, TypeInv, Locals, NewPayload, Payload
    <3> QED
      BY <3>1, PayloadAssumption
  <2> HIDE DEF new
  <2>4. \A t \in Jtis : PhaseOf(t)' = IF t = new THEN "live" ELSE PhaseOf(t)
    BY <1>0, <2>1, <2>2, <2>3, NoneAssumption DEF PhaseOf, Live
  <2>5. CASE PhaseOf(new) # "live"
    <3>1. PhaseOf(new) = "unborn" \/ (PhaseOf(new) = "dead" /\ owner[new] = req[r].user)
      BY <2>1, <2>5 DEF PhaseOf
    <3>2. Contract!Mint(new, req[r].user)
      BY <2>1, <2>2, <2>4, <3>1 DEF Contract!Mint
    <3> QED
      BY <2>1, <3>2 DEF Contract!Next
  <2>6. CASE PhaseOf(new) = "live"
    <3>1. owner' = owner /\ Live(new)
      BY <1>0, <2>1, <2>2, <2>6 DEF PhaseOf
    <3>2. \A t \in Jtis : Live(t)' => Live(t)
      BY <1>0, <2>2, <3>1 DEF Live
    <3> QED
      BY <2>2, <3>1, <3>2, EndIsAllowed
  <2> QED
    BY <2>5, <2>6
<1>2. ASSUME NEW r \in Reqs, Grant(r) PROVE Contract!Next
  <2> DEFINE new == req[r].new
  <2>1. new \in Jtis /\ owner[new] # None /\ new \notin issued
    BY <1>0, <1>2, NoneAssumption DEF Grant, At, Locals, Minted
  <2>2. issued' = issued \cup {new} /\ UNCHANGED <<refresh, owner, loggedOut>>
    BY <1>2 DEF Grant, stores
  <2> HIDE DEF new
  <2>3. PhaseOf(new) # "unborn" /\ \A t \in Jtis : PhaseOf(t)' = PhaseOf(t)
    BY <2>1, <2>2 DEF PhaseOf, Live
  <2>4. Contract!Give(new)
    BY <2>1, <2>2, <2>3 DEF Contract!Give
  <2> QED
    BY <2>1, <2>4 DEF Contract!Next
<1>3. ASSUME NEW t \in Jtis, t \in issued, loggedOut' = loggedOut \cup {t},
             UNCHANGED <<owner, issued>>, ~Live(t)',
             \A s \in Jtis \ {t} : Live(s)' <=> Live(s)
      PROVE  Contract!Next
  <2>1. owner[t] # None
    BY <1>3 DEF Minted
  <2>2. \A s \in Jtis : PhaseOf(s)' = IF s = t THEN "dead" ELSE PhaseOf(s)
    BY <1>3, <2>1 DEF PhaseOf
  <2>3. Contract!Close(t)
    BY <1>3, <2>2 DEF Contract!Close
  <2> QED
    BY <2>3 DEF Contract!Next
<1>4. ASSUME NEW r \in Reqs, At(r, "logoutGet") \/ At(r, "logoutDel")
      PROVE  req[r].tok \in Jtis /\ req[r].tok \in issued
  BY <1>0, <1>4, NoneAssumption DEF At, Locals, Minted
<1>5. ASSUME NEW r \in Reqs, LogoutDel(r) PROVE Contract!Next
  <2>1. /\ refresh' = [refresh EXCEPT ![req[r].tok] = None]
        /\ loggedOut' = loggedOut \cup {req[r].tok}
        /\ UNCHANGED <<owner, issued>> /\ At(r, "logoutDel")
    BY <1>5 DEF LogoutDel, AnswerLogout
  <2>2. req[r].tok \in Jtis /\ req[r].tok \in issued
    BY <1>4, <2>1
  <2>3. ASSUME NEW t \in Jtis, refresh' = [refresh EXCEPT ![t] = None]
        PROVE  ~Live(t)' /\ \A s \in Jtis \ {t} : Live(s)' <=> Live(s)
    BY <1>0, <2>3 DEF Live
  <2> QED
    BY <1>3, <2>1, <2>2, <2>3
<1>6. ASSUME UNCHANGED <<owner, issued, loggedOut, refresh>> PROVE Contract!Next
  BY <1>6, EndIsAllowed DEF Live
<1>7. ASSUME NEW r \in Reqs, LogoutGet(r) PROVE Contract!Next
  <2>1. CASE Live(req[r].tok)
    BY <1>6, <1>7, <2>1 DEF LogoutGet, history, stores
  <2>2. CASE ~Live(req[r].tok)
    BY <1>3, <1>4, <1>7, <2>2 DEF LogoutGet, AnswerLogout, stores, Live
  <2> QED
    BY <2>1, <2>2
<1>8. ASSUME UNCHANGED <<owner, issued, loggedOut>>, \A r \in Reqs : ~PipeSet(r)
      PROVE  Contract!Next
  BY <1>8, KeysAppear, EndIsAllowed
<1>9. \/ \E r \in Reqs : PipeSet(r) \/ Grant(r) \/ LogoutDel(r) \/ LogoutGet(r)
      \/ UNCHANGED <<owner, issued, loggedOut>>
  BY Frame, EnvironmentFrame DEF Next, Continue, vars, history
<1> QED
  BY <1>1, <1>2, <1>5, <1>7, <1>8, <1>9

\* Every behaviour of the service is one that the contract of its tokens allows.
THEOREM ImplementsContractCorrect == Spec => ImplementsContract
<1>1. Init => Contract!Init
  BY DEF Init, Contract!Init, PhaseOf
<1>2. KeysInv => Owned
  BY DEF KeysInv
<1> QED
  BY <1>1, <1>2, StepIsAllowed, TypeCorrect, MintedCorrect, KeysInvHolds, PTL
  DEF Spec, ImplementsContract, Contract!Spec
=============================================================================
