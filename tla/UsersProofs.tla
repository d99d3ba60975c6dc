----------------------------- MODULE UsersProofs -----------------------------
(***************************************************************************)
(* Proofs about Users, for any number of requests, users, names, roles and *)
(* role lists, and any tables at the start.                                *)
(***************************************************************************)
EXTENDS Users, SequenceTheorems, FiniteSetTheorems, TLAPS

-----------------------------------------------------------------------------
(* Role lists and listings *)

\* A list that passes the count names roles only.
LEMMA ValidLists ==
  ASSUME NEW list \in RoleLists, IsValid(list)
  PROVE  Elems(list) \subseteq Roles
<1>1. list \in Seq(STRING) /\ Len(list) \in Nat /\ DOMAIN list = 1..Len(list)
  BY RoleListsAssumption
<1>2. list \in Surjection(1..Len(list), Elems(list))
  <2>1. list \in [1..Len(list) -> Elems(list)]
    BY <1>1 DEF Elems
  <2>2. \A e \in Elems(list) : \E i \in 1..Len(list) : list[i] = e
    BY <1>1 DEF Elems
  <2> QED
    BY <2>1, <2>2 DEF Surjection
<1>3. IsFiniteSet(1..Len(list))
  BY <1>1, FS_Interval
<1>4. IsFiniteSet(Elems(list)) /\ Cardinality(Elems(list)) <= Len(list)
  <2>1. IsFiniteSet(Elems(list))
    BY <1>2, <1>3, FS_Surjection
  <2>2. Cardinality(Elems(list)) <= Len(list)
    BY <1>1, <1>2, FS_SurjCardinalityBound DEF ExistsSurjection
  <2> QED
    BY <2>1, <2>2
<1>5. Cardinality(Elems(list) \cap Roles) = Len(list)
  BY DEF IsValid
<1>6. /\ Elems(list) \cap Roles \in SUBSET Elems(list)
      /\ Cardinality(Elems(list) \cap Roles) <= Cardinality(Elems(list))
      /\ Cardinality(Elems(list)) = Cardinality(Elems(list) \cap Roles)
           => Elems(list) = Elems(list) \cap Roles
  BY <1>4, FS_Subset
<1>7. Cardinality(Elems(list)) \in Nat
  BY <1>4, FS_CardinalityType
<1>8. Elems(list) = Elems(list) \cap Roles
  BY <1>1, <1>4, <1>5, <1>6, <1>7
<1> QED
  BY <1>8

\* The offset is an int: the number of users before the page, as long as that is one.
LEMMA OffsetWraps ==
  ASSUME NEW a
  PROVE  /\ PerPageOf(a.per) \in Nat /\ Before(a) \in Nat /\ Offset(a) \in Int
         /\ Before(a) < Half => Offset(a) = Before(a)
<1>1. /\ PageOf(a.page) - 1 \in Nat /\ PerPageOf(a.per) \in Nat
  BY SizesAssumption, HalfAssumption DEF PageOf, PerPageOf
<1>2. Before(a) \in Nat
  BY <1>1 DEF Before
<1>3. ASSUME NEW d \in Nat \ {0}, NEW y \in Nat
      PROVE  y % d \in Int
  OBVIOUS
<1>4. ASSUME NEW d \in Nat \ {0}, NEW y \in Nat, y < d
      PROVE  y % d = y
  <2>1. y \div d = 0
    BY <1>4
  <2>2. y = (d * (y \div d)) + (y % d)
    BY <1>4
  <2> QED
    BY <2>1, <2>2
<1> HIDE DEF Before
<1>5. /\ Before(a) + Half \in Nat /\ 2 * Half \in Nat \ {0} /\ Half \in Nat
      /\ Before(a) < Half => Before(a) + Half < 2 * Half
  BY <1>2, HalfAssumption
<1>6. (Before(a) + Half) % (2 * Half) \in Int
  BY <1>3, <1>5
<1>7. Before(a) < Half => (Before(a) + Half) % (2 * Half) = Before(a) + Half
  BY <1>4, <1>5
<1> QED
  BY <1>1, <1>2, <1>5, <1>6, <1>7 DEF Offset, Wrap

\* The places of a listing are taken by live users, one each, the latest first: how
\* many live users have an id of at least u's differs from user to user.
LEMMA ListingType ==
  ASSUME rows \in Seq(Row)
  PROVE  /\ Len(Listing) \in Nat
         /\ \A i \in 1..Len(Listing) : Listing[i] \in DOMAIN rows
         /\ \A i, j \in 1..Len(Listing) : i < j => Listing[i] > Listing[j]
         /\ IsFiniteSet({u \in DOMAIN rows : Live(u)})
         /\ Len(Listing) = Cardinality({u \in DOMAIN rows : Live(u)})
<1> DEFINE L == {u \in DOMAIN rows : Live(u)}
           Above(u) == {v \in DOMAIN rows : Live(v) /\ v >= u}
           n == Cardinality(L)
           At(i) == CHOOSE u \in DOMAIN rows : Live(u) /\ Cardinality(Above(u)) = i
<1>1. DOMAIN rows = 1..Len(rows) /\ Len(rows) \in Nat /\ DOMAIN rows \subseteq Nat
  OBVIOUS
<1>2. IsFiniteSet(L) /\ n \in Nat
  <2>1. IsFiniteSet(DOMAIN rows)
    BY <1>1, FS_Interval
  <2>2. IsFiniteSet(L)
    BY <2>1, FS_Subset
  <2> QED
    BY <2>2, FS_CardinalityType
<1>3. \A u \in L : Above(u) \in SUBSET L /\ u \in Above(u)
  BY <1>1
<1>4. \A u \in L : IsFiniteSet(Above(u)) /\ Cardinality(Above(u)) \in 1..n
  <2> SUFFICES ASSUME NEW u \in L PROVE IsFiniteSet(Above(u)) /\ Cardinality(Above(u)) \in 1..n
    OBVIOUS
  <2>1. IsFiniteSet(Above(u)) /\ Cardinality(Above(u)) <= n
    BY <1>2, <1>3, FS_Subset
  <2>2. Cardinality(Above(u)) \in Nat /\ Cardinality(Above(u)) # 0
    BY <1>3, <2>1, FS_CardinalityType, FS_EmptySet
  <2> QED
    BY <1>2, <2>1, <2>2
<1>5. \A u, v \in L : u < v => Cardinality(Above(u)) # Cardinality(Above(v))
  <2> SUFFICES ASSUME NEW u \in L, NEW v \in L, u < v
               PROVE Cardinality(Above(u)) # Cardinality(Above(v))
    OBVIOUS
  <2>1. Above(v) \in SUBSET Above(u) /\ u \in Above(u) /\ u \notin Above(v)
    BY <1>1
  <2>2. Above(u) # Above(v)
    BY <2>1
  <2> QED
    BY <1>4, <2>1, <2>2, FS_Subset
<1> DEFINE f == [u \in L |-> Cardinality(Above(u))]
<1>6. f \in Injection(L, 1..n)
  <2>1. f \in [L -> 1..n]
    BY <1>4
  <2>2. \A u, v \in L : f[u] = f[v] => u = v
    BY <1>1, <1>5
  <2> QED
    BY <2>1, <2>2 DEF Injection, IsInjective
<1>7. f \in Surjection(L, 1..n)
  <2>1. IsFiniteSet(1..n) /\ Cardinality(1..n) = n
    BY <1>2, FS_Interval
  <2> HIDE DEF f, n
  <2> QED
    BY <1>6, <2>1, FS_Injection DEF n
<1>8. \A i \in 1..n : \E u \in DOMAIN rows : Live(u) /\ Cardinality(Above(u)) = i
  BY <1>7 DEF Surjection
<1>9. \A i \in 1..n : At(i) \in DOMAIN rows /\ Live(At(i)) /\ Cardinality(Above(At(i))) = i
  BY <1>8
<1>10. Listing = [i \in 1..n |-> At(i)]
  BY DEF Listing
<1>11. ASSUME NEW i \in 1..n, NEW j \in 1..n, i < j PROVE At(i) > At(j)
  <2> DEFINE u == At(i)
             v == At(j)
  <2>1. /\ u \in L /\ v \in L /\ u \in Nat /\ v \in Nat
        /\ Cardinality(Above(u)) = i /\ Cardinality(Above(v)) = j
    BY <1>1, <1>9
  <2>2. IsFiniteSet(Above(u))
    BY <1>4, <2>1
  <2> HIDE DEF n, At, u, v
  <2>3. u <= v => Above(v) \in SUBSET Above(u)
    BY <1>1, <2>1
  <2>4. u <= v => j <= i
    BY <2>1, <2>2, <2>3, FS_Subset
  <2>5. u > v
    BY <1>2, <1>11, <2>1, <2>4
  <2> QED
    BY <2>5 DEF u, v
<1>12. n = Cardinality({u \in DOMAIN rows : Live(u)}) /\ IsFiniteSet({u \in DOMAIN rows : Live(u)})
  BY <1>2
<1>13. n \in Nat /\ \A i \in 1..n : At(i) \in DOMAIN rows
  BY <1>2, <1>9
<1> HIDE DEF n, At
<1>14. /\ Len(Listing) = n
       /\ \A i \in 1..n : Listing[i] = At(i) /\ At(i) \in DOMAIN rows
  BY <1>10, <1>13
<1>15. \A i, j \in 1..n : i < j => Listing[i] > Listing[j]
  BY <1>11, <1>14
<1> QED
  BY <1>12, <1>13, <1>14, <1>15

-----------------------------------------------------------------------------
(* Types *)

\* What a process at the statement p works on: its request a, the user t, its
\* transaction x, when the ids in D have been given.
Task(a, p, t, x, D) ==
  /\ t \in D \cup {0}
  /\ p \in {"insert", "created"} => a \in CreateArgs
  /\ p \in {"begin", "clear", "link"} => a \in CreateArgs \cup AssignArgs
  /\ p \in {"insert", "created", "begin", "clear", "link"} =>
       a.roles \in RoleLists /\ a.roles # <<>> /\ Elems(a.roles) \subseteq Roles
  /\ p = "profile" => a \in UpdateArgs
  /\ p = "password" => a \in UpdateArgs \cup ResetArgs /\ a.pwd \in Passwords
  /\ p \in {"delete", "revoke"} => a \in IdArgs
  /\ p = "lookup" => a \in ResetArgs
  /\ p \in {"count", "page"} => a \in ListArgs
  /\ p = "reread" => a \in CreateArgs \cup AssignArgs \cup UpdateArgs \cup IdArgs
  /\ p = "created" => t \in D
  /\ p \notin {"clear", "link"} => x = NoTx
  /\ p = "clear" => x.next = 1 /\ x.ins = {}
  /\ p = "link" => /\ x.next \in 1..(Len(a.roles) + 1)
                   /\ x.ins = {a.roles[i] : i \in 1..(x.next - 1)}
                   /\ x.next > 1 => t \in D

TypeInv ==
  /\ TypeOK
  /\ \A r \in Reqs : Task(arg[r], pc[r], target[r], tx[r], DOMAIN rows)

\* The transaction x is as it was, but for rows that somebody else has deleted.
SameTx(x, old) ==
  /\ x.seen \subseteq old.seen
  /\ x.del = old.del /\ x.ins = old.ins /\ x.next = old.next

\* A step of one process, of which the others notice the tables only.
Others(r) ==
  /\ \A s \in Reqs \ {r} : /\ arg'[s] = arg[s] /\ pc'[s] = pc[s] /\ target'[s] = target[s]
                           /\ SameTx(tx'[s], tx[s]) /\ found'[s] = found[s] /\ ans'[s] = ans[s]
                           /\ wrote'[s] = wrote[s]

\* A process that has its new task leaves those of the others valid.
LEMMA TaskStep ==
  ASSUME TypeInv, NEW r \in Reqs, Others(r), TypeOK', DOMAIN rows \subseteq DOMAIN rows',
         Task(arg'[r], pc'[r], target'[r], tx'[r], DOMAIN rows')
  PROVE  TypeInv'
<1>1. ASSUME NEW s \in Reqs \ {r}
      PROVE Task(arg'[s], pc'[s], target'[s], tx'[s], DOMAIN rows')
  <2>1. Task(arg[s], pc[s], target[s], tx[s], DOMAIN rows)
    BY DEF TypeInv
  <2>2. arg'[s] = arg[s] /\ pc'[s] = pc[s] /\ target'[s] = target[s] /\ SameTx(tx'[s], tx[s])
    BY DEF Others
  <2>3. tx[s] = NoTx => tx'[s] = NoTx
    <3>1. tx'[s] \in Tx
      BY DEF TypeOK
    <3>2. tx[s] = NoTx => tx'[s].seen = {} /\ tx'[s].del = {} /\ tx'[s].ins = {} /\ tx'[s].next = 1
      BY <2>2 DEF SameTx, NoTx
    <3> QED
      BY <3>1, <3>2 DEF NoTx, Tx
  <2> HIDE DEF Others
  <2> QED
    BY <2>1, <2>2, <2>3 DEF Task, SameTx
<1> QED
  BY <1>1 DEF TypeInv

\* A request is refused at once.
LEMMA RefuseType ==
  ASSUME TypeInv, NEW r \in Reqs, NEW status \in Statuses, Refuse(r, status), pc[r] = "new"
  PROVE  TypeInv' /\ Others(r)
<1>1. Others(r)
  BY DEF Refuse, Others, SameTx, TypeInv, TypeOK
<1>2. TypeOK' /\ rows' = rows
  BY DEF Refuse, TypeInv, TypeOK, PC
<1>3. Task(arg'[r], pc'[r], target'[r], tx'[r], DOMAIN rows')
  <2>1. pc'[r] = "done" /\ UNCHANGED <<rows, arg, target, tx>>
    BY DEF Refuse, TypeInv, TypeOK
  <2> QED
    BY <2>1 DEF TypeInv, Task
<1> QED
  BY <1>1, <1>2, <1>3, TaskStep

\* A request begins.
LEMMA BeginType ==
  ASSUME TypeInv, NEW r \in Reqs, NEW a \in Args, NEW label \in PC, NEW u, Begin(r, a, label, u),
         pc[r] = "new", Task(a, label, u, NoTx, DOMAIN rows)
  PROVE  TypeInv' /\ Others(r)
<1>1. Others(r)
  BY DEF Begin, Others, SameTx, TypeInv, TypeOK
<1>2. u \in Nat
  BY DEF Begin, TypeInv, TypeOK
<1>3. TypeOK' /\ rows' = rows
  BY <1>2 DEF Begin, TypeInv, TypeOK
<1>4. Task(arg'[r], pc'[r], target'[r], tx'[r], DOMAIN rows')
  <2>1. tx[r] = NoTx
    BY DEF TypeInv, Task
  <2>2. arg'[r] = a /\ pc'[r] = label /\ target'[r] = u /\ tx'[r] = NoTx /\ rows' = rows
    BY <2>1 DEF Begin, TypeInv, TypeOK
  <2> QED
    BY <2>2
<1> QED
  BY <1>1, <1>3, <1>4, TaskStep

\* The starts of all requests.
LEMMA StartType ==
  ASSUME TypeInv, NEW r \in Reqs, Start(r)
  PROVE  TypeInv' /\ Others(r)
<1>n. pc[r] = "new"
  BY DEF Start
<1>c. \A status \in {400, 403, 404} : status \in Statuses
  BY DEF Statuses
<1>1. CASE StartCreate(r)
  <2>1. PICK a \in CreateArgs : \/ \E status \in {400, 404} : Refuse(r, status)
                                \/ CreateBinds(a) /\ IsValid(a.roles) /\ Begin(r, a, "insert", 0)
    BY <1>1 DEF StartCreate
  <2>2. CASE CreateBinds(a) /\ IsValid(a.roles) /\ Begin(r, a, "insert", 0)
    <3>1. a \in Args /\ a.roles \in RoleLists /\ a.roles # <<>>
      BY <2>2 DEF Args, CreateArgs, CreateBinds
    <3>2. Elems(a.roles) \subseteq Roles
      BY <2>2, <3>1, ValidLists
    <3>3. Task(a, "insert", 0, NoTx, DOMAIN rows)
      BY <3>1, <3>2 DEF Task
    <3> QED
      BY <1>n, <2>2, <3>1, <3>3, BeginType DEF PC
  <2> QED
    BY <1>n, <1>c, <2>1, <2>2, RefuseType
<1>2. CASE StartAssign(r)
  <2>1. PICK a \in AssignArgs : \/ \E status \in {400, 403, 404} : Refuse(r, status)
                                \/ a.roles # <<>> /\ IsValid(a.roles) /\ Begin(r, a, "begin", a.id)
    BY <1>2 DEF StartAssign
  <2>2. CASE a.roles # <<>> /\ IsValid(a.roles) /\ Begin(r, a, "begin", a.id)
    <3>1. a \in Args /\ a.roles \in RoleLists
      BY DEF Args, AssignArgs
    <3>2. Elems(a.roles) \subseteq Roles
      BY <2>2, <3>1, ValidLists
    <3>3. Task(a, "begin", a.id, NoTx, DOMAIN rows)
      BY <2>2, <3>1, <3>2 DEF Task, Begin
    <3> QED
      BY <1>n, <2>2, <3>1, <3>3, BeginType DEF PC
  <2> QED
    BY <1>n, <1>c, <2>1, <2>2, RefuseType
<1>3. CASE StartUpdate(r)
  <2>1. PICK a \in UpdateArgs : \/ Refuse(r, 400)
                                \/ Begin(r, a, "profile", a.id)
                                \/ a.pwd \in Passwords /\ Begin(r, a, "password", a.id)
    BY <1>3 DEF StartUpdate
  <2>2. a \in Args
    BY DEF Args
  <2>3. CASE Begin(r, a, "profile", a.id)
    <3>1. Task(a, "profile", a.id, NoTx, DOMAIN rows)
      BY <2>3 DEF Task, Begin
    <3> QED
      BY <1>n, <2>2, <2>3, <3>1, BeginType DEF PC
  <2>4. CASE a.pwd \in Passwords /\ Begin(r, a, "password", a.id)
    <3>1. Task(a, "password", a.id, NoTx, DOMAIN rows)
      BY <2>4 DEF Task, Begin
    <3> QED
      BY <1>n, <2>2, <2>4, <3>1, BeginType DEF PC
  <2> QED
    BY <1>n, <1>c, <2>1, <2>3, <2>4, RefuseType
<1>4. CASE StartReset(r)
  <2>1. PICK a \in ResetArgs : Refuse(r, 400) \/ Begin(r, a, "lookup", 0)
    BY <1>4 DEF StartReset
  <2>2. a \in Args /\ Task(a, "lookup", 0, NoTx, DOMAIN rows)
    BY DEF Args, Task
  <2> QED
    BY <1>n, <1>c, <2>1, <2>2, RefuseType, BeginType DEF PC
<1>5. CASE StartById(r)
  <2>1. PICK a \in IdArgs, label \in {"reread", "delete"} : Begin(r, a, label, a.id)
    BY <1>5 DEF StartById
  <2>2. a \in Args /\ Task(a, label, a.id, NoTx, DOMAIN rows)
    BY <2>1 DEF Args, Task, Begin
  <2> QED
    BY <1>n, <2>1, <2>2, BeginType DEF PC
<1>6. CASE StartList(r)
  <2>1. PICK a \in ListArgs : Begin(r, a, "count", 0)
    BY <1>6 DEF StartList
  <2>2. a \in Args /\ Task(a, "count", 0, NoTx, DOMAIN rows)
    BY DEF Args, Task
  <2> QED
    BY <1>n, <2>1, <2>2, BeginType DEF PC
<1> QED
  BY <1>1, <1>2, <1>3, <1>4, <1>5, <1>6 DEF Start

Listed == [total : Nat, ids : Seq(Nat)]
Commits == {"row", "roles", "profile", "password", "deleted"}

\* A process that goes on has its own variables changed only.
LEMMA LocalsStep ==
  ASSUME TypeInv, NEW r \in Reqs, rows' \in Seq(Row), UNCHANGED arg,
         (\E label \in PC : Goto(r, label)) \/ (\E status \in Statuses : Answer(r, status)),
         target' = target \/ \E u \in Nat : target' = [target EXCEPT ![r] = u],
         tx' = tx \/ (\E x \in Tx : tx' = [tx EXCEPT ![r] = x]) \/ Close(r),
         found' = found \/ \E f \in Listed : found' = [found EXCEPT ![r] = f],
         wrote' = wrote \/ \E w \in Commits : Wrote(r, w),
         aborts' \in 0..MaxAborts
  PROVE  TypeOK' /\ Others(r)
<1>1. /\ pc' \in [Reqs -> PC] /\ ans' \in [Reqs -> Statuses]
      /\ \A s \in Reqs \ {r} : pc'[s] = pc[s] /\ ans'[s] = ans[s]
  <2>0. pc \in [Reqs -> PC] /\ ans \in [Reqs -> Statuses] /\ "done" \in PC
    BY DEF TypeInv, TypeOK, PC
  <2>1. ASSUME NEW label \in PC, Goto(r, label)
        PROVE /\ pc' \in [Reqs -> PC] /\ ans' \in [Reqs -> Statuses]
              /\ \A s \in Reqs \ {r} : pc'[s] = pc[s] /\ ans'[s] = ans[s]
    BY <2>0, <2>1 DEF Goto
  <2>2. ASSUME NEW status \in Statuses, Answer(r, status)
        PROVE /\ pc' \in [Reqs -> PC] /\ ans' \in [Reqs -> Statuses]
              /\ \A s \in Reqs \ {r} : pc'[s] = pc[s] /\ ans'[s] = ans[s]
    BY <2>0, <2>2 DEF Answer
  <2> QED
    BY <2>1, <2>2
<1>2. target' \in [Reqs -> Nat] /\ \A s \in Reqs \ {r} : target'[s] = target[s]
  BY DEF TypeInv, TypeOK
<1>3. tx' \in [Reqs -> Tx] /\ \A s \in Reqs \ {r} : SameTx(tx'[s], tx[s])
  <2>1. tx \in [Reqs -> Tx]
    BY DEF TypeInv, TypeOK
  <2>2. CASE tx' = tx \/ \E x \in Tx : tx' = [tx EXCEPT ![r] = x]
    BY <2>1, <2>2 DEF SameTx
  <2>3. CASE Close(r)
    <3>1. NoTx \in Tx
      BY DEF NoTx, Tx
    <3>2. ASSUME NEW s \in Reqs \ {r}
          PROVE tx'[s] \in Tx /\ SameTx(tx'[s], tx[s])
      <4>1. tx[s] \in Tx
        BY <2>1
      <4>2. tx'[s] = tx[s] \/ tx'[s] = [tx[s] EXCEPT !.seen = tx[s].seen \ tx[r].del]
        BY <2>3 DEF Close
      <4> QED
        BY <4>1, <4>2 DEF Tx, SameTx
    <3> QED
      BY <2>3, <3>1, <3>2 DEF Close
  <2> QED
    BY <2>2, <2>3
<1>4. found' \in [Reqs -> Listed] /\ \A s \in Reqs \ {r} : found'[s] = found[s]
  BY DEF TypeInv, TypeOK, Listed
<1>5. wrote' \in [Reqs -> SUBSET Commits] /\ \A s \in Reqs \ {r} : wrote'[s] = wrote[s]
  <2>1. wrote \in [Reqs -> SUBSET Commits]
    BY DEF TypeInv, TypeOK, Commits
  <2>2. ASSUME NEW w \in Commits, Wrote(r, w)
        PROVE wrote' \in [Reqs -> SUBSET Commits] /\ \A s \in Reqs \ {r} : wrote'[s] = wrote[s]
    BY <2>1, <2>2 DEF Wrote
  <2> QED
    BY <2>1, <2>2
<1> QED
  BY <1>1, <1>2, <1>3, <1>4, <1>5 DEF TypeInv, TypeOK, Others, Listed, Commits

\* A row of the table is replaced.
LEMMA RowChange ==
  ASSUME rows \in Seq(Row), NEW u \in DOMAIN rows, NEW row \in Row,
         rows' = [rows EXCEPT ![u] = row]
  PROVE  /\ rows' \in Seq(Row) /\ DOMAIN rows' = DOMAIN rows /\ rows'[u] = row
         /\ \A v \in DOMAIN rows \ {u} : rows'[v] = rows[v]
  BY ExceptSeq

\* The steps that leave the tables alone, but for those of the role transaction.
LEMMA ReadType ==
  ASSUME TypeInv, NEW r \in Reqs,
         \/ ReadCreated(r) \/ ResetLookup(r) \/ Revoked(r) \/ Reread(r) \/ CountUsers(r) \/ PageUsers(r)
  PROVE  TypeInv' /\ Others(r)
<1>t. Task(arg[r], pc[r], target[r], tx[r], DOMAIN rows)
  BY DEF TypeInv
<1>d. DOMAIN rows \subseteq Nat /\ rows \in Seq(Row) /\ aborts \in 0..MaxAborts
  BY DEF TypeInv, TypeOK
<1>1. CASE ReadCreated(r) \/ Revoked(r) \/ Reread(r)
  <2>1. /\ UNCHANGED <<rows, arg, target, tx, found, wrote, aborts>>
        /\ (\E label \in PC : Goto(r, label)) \/ (\E status \in Statuses : Answer(r, status))
    BY <1>1 DEF ReadCreated, Revoked, Reread, PC, Statuses
  <2>2. TypeOK' /\ Others(r)
    BY <1>d, <2>1, LocalsStep
  <2>3. \/ pc'[r] = "done" /\ pc[r] \notin {"clear", "link"}
        \/ pc[r] = "created" /\ pc'[r] = "begin"
    BY <1>1 DEF ReadCreated, Revoked, Reread, Goto, Answer, TypeInv, TypeOK
  <2>4. Task(arg'[r], pc'[r], target'[r], tx'[r], DOMAIN rows')
    BY <1>t, <2>1, <2>3 DEF Task
  <2> QED
    BY <2>1, <2>2, <2>4, TaskStep
<1>2. CASE ResetLookup(r)
  <2>1. /\ UNCHANGED <<rows, arg, tx, found, wrote, aborts>>
        /\ \/ \E u \in DOMAIN rows : target' = [target EXCEPT ![r] = u] /\ Goto(r, "password")
           \/ target' = target /\ Answer(r, 404)
    BY <1>2 DEF ResetLookup
  <2>2. TypeOK' /\ Others(r)
    BY <1>d, <2>1, LocalsStep DEF PC, Statuses
  <2>3. pc[r] = "lookup" /\ target'[r] \in DOMAIN rows \cup {0} /\ pc'[r] \in {"password", "done"}
    BY <1>2, <1>t, <2>1 DEF ResetLookup, Task, Goto, Answer, TypeInv, TypeOK
  <2>4. Task(arg'[r], pc'[r], target'[r], tx'[r], DOMAIN rows')
    BY <1>t, <2>1, <2>3 DEF Task, ResetArgs
  <2> QED
    BY <2>1, <2>2, <2>4, TaskStep
<1>3. CASE CountUsers(r)
  <2>1. /\ UNCHANGED <<rows, arg, target, tx, wrote, aborts>> /\ Goto(r, "page") /\ pc[r] = "count"
        /\ found' = [found EXCEPT ![r].total = Len(Listing)]
    BY <1>3 DEF CountUsers
  <2>2. \E f \in Listed : found' = [found EXCEPT ![r] = f]
    <3>1. Len(Listing) \in Nat /\ found[r] \in Listed
      BY <1>d, ListingType DEF TypeInv, TypeOK, Listed
    <3>2. [found[r] EXCEPT !.total = Len(Listing)] \in Listed
      BY <3>1 DEF Listed
    <3> QED
      BY <2>1, <3>2
  <2>3. TypeOK' /\ Others(r)
    BY <1>d, <2>1, <2>2, LocalsStep DEF PC
  <2>4. pc'[r] = "page"
    BY <2>1 DEF Goto, TypeInv, TypeOK
  <2>5. Task(arg'[r], pc'[r], target'[r], tx'[r], DOMAIN rows')
    BY <1>t, <2>1, <2>4 DEF Task
  <2> QED
    BY <2>1, <2>3, <2>5, TaskStep
<1>4. CASE PageUsers(r)
  <2> DEFINE from == Offset(arg[r])
             to == from + PerPageOf(arg[r].per)
             end == IF to < Len(Listing) THEN to ELSE Len(Listing)
  <2>1. /\ UNCHANGED <<rows, arg, target, tx, wrote, aborts>> /\ pc[r] = "page"
        /\ \/ /\ from >= 0 /\ Answer(r, 200)
              /\ found' = [found EXCEPT ![r].ids = SubSeq(Listing, from + 1, end)]
           \/ Answer(r, 500) /\ found' = found
    BY <1>4 DEF PageUsers
  <2>2. \E f \in Listed : found' = [found EXCEPT ![r] = f]
    <3>a. CASE found' = found
      BY <3>a DEF TypeInv, TypeOK, Listed
    <3>b. CASE from >= 0 /\ found' = [found EXCEPT ![r].ids = SubSeq(Listing, from + 1, end)]
      <4>1. /\ PerPageOf(arg[r].per) \in Nat
            /\ Len(Listing) \in Nat /\ \A i \in 1..Len(Listing) : Listing[i] \in Nat
        BY <1>d, OffsetWraps, ListingType
      <4>2. from \in Nat
        BY <3>b, OffsetWraps
      <4>3. end \in Int /\ end <= Len(Listing)
        BY <4>1, <4>2
      <4>4. \A i \in (from + 1)..end : Listing[i] \in Nat
        BY <4>1, <4>2, <4>3
      <4> HIDE DEF from, to, end
      <4>5. SubSeq(Listing, from + 1, end) \in Seq(Nat)
        BY <4>2, <4>3, <4>4, SubSeqProperties
      <4>6. found[r] \in Listed
        BY DEF TypeInv, TypeOK, Listed
      <4>7. [found[r] EXCEPT !.ids = SubSeq(Listing, from + 1, end)] \in Listed
        BY <4>5, <4>6 DEF Listed
      <4> QED
        BY <3>b, <4>7
    <3> QED
      BY <2>1, <3>a, <3>b
  <2> HIDE DEF from, to, end
  <2>3. TypeOK' /\ Others(r)
    <3>1. \E status \in Statuses : Answer(r, status)
      BY <2>1 DEF Statuses
    <3>2. /\ rows' \in Seq(Row) /\ aborts' \in 0..MaxAborts
          /\ UNCHANGED arg /\ target' = target /\ tx' = tx /\ wrote' = wrote
      BY <1>d, <2>1
    <3> QED
      BY <2>2, <3>1, <3>2, LocalsStep
  <2>4. pc'[r] = "done"
    BY <2>1 DEF Answer, TypeInv, TypeOK
  <2>5. Task(arg'[r], pc'[r], target'[r], tx'[r], DOMAIN rows')
    BY <1>t, <2>1, <2>4 DEF Task
  <2> QED
    BY <2>1, <2>3, <2>5, TaskStep
<1> QED
  BY <1>1, <1>2, <1>3, <1>4

\* The steps of the role transaction.
LEMMA RolesType ==
  ASSUME TypeInv, NEW r \in Reqs,
         BeginRoles(r) \/ ClearRoles(r) \/ LinkRole(r) \/ CommitRoles(r) \/ DeadlockVictim(r) \/ Abort(r)
  PROVE  TypeInv' /\ Others(r)
<1>t. Task(arg[r], pc[r], target[r], tx[r], DOMAIN rows)
  BY DEF TypeInv
<1>d. /\ rows \in Seq(Row) /\ DOMAIN rows \subseteq Nat \ {0} /\ aborts \in 0..MaxAborts /\ tx[r] \in Tx
      /\ NoTx \in Tx /\ 500 \in Statuses /\ pc[r] \in PC
  BY DEF TypeInv, TypeOK, NoTx, Tx, Statuses
<1>r. \A u : RolesOf(u) \subseteq Roles
  <2>1. \A u \in DOMAIN rows : rows[u] \in Row
    BY <1>d
  <2>2. \A u \in DOMAIN rows : rows[u].roles \subseteq Roles
    BY <2>1 DEF Row
  <2> QED
    BY <2>2 DEF RolesOf
<1>f. ASSUME Fail(r, 500), UNCHANGED <<rows, arg, target, found, wrote>>, aborts' \in 0..MaxAborts
      PROVE TypeInv' /\ Others(r)
  <2>1. TypeOK' /\ Others(r)
    BY <1>d, <1>f, LocalsStep DEF Fail
  <2>2. pc'[r] = "done" /\ tx'[r] = NoTx
    BY <1>f DEF Fail, Answer, TypeInv, TypeOK
  <2>3. Task(arg'[r], pc'[r], target'[r], tx'[r], DOMAIN rows')
    BY <1>t, <1>f, <2>2 DEF Task
  <2> QED
    BY <1>f, <2>1, <2>3, TaskStep
<1>1. CASE BeginRoles(r)
  <2>1. /\ UNCHANGED <<rows, arg, target, found, wrote, aborts>> /\ Goto(r, "clear") /\ pc[r] = "begin"
        /\ tx' = [tx EXCEPT ![r].seen = RolesOf(target[r])]
    BY <1>1 DEF BeginRoles
  <2>2. tx[r] = NoTx
    BY <1>t, <2>1 DEF Task
  <2>3. [tx[r] EXCEPT !.seen = RolesOf(target[r])] \in Tx
    BY <1>d, <1>r DEF Tx
  <2>4. TypeOK' /\ Others(r)
    BY <1>d, <2>1, <2>3, LocalsStep DEF PC
  <2>5. pc'[r] = "clear" /\ tx'[r].next = 1 /\ tx'[r].ins = {}
    BY <2>1, <2>2 DEF Goto, TypeInv, TypeOK, NoTx, Tx
  <2>6. Task(arg'[r], pc'[r], target'[r], tx'[r], DOMAIN rows')
    BY <1>t, <2>1, <2>5 DEF Task
  <2> QED
    BY <2>1, <2>4, <2>6, TaskStep
<1>2. CASE ClearRoles(r)
  <2>1. /\ UNCHANGED <<rows, arg, target, found, wrote, aborts>> /\ Goto(r, "link") /\ pc[r] = "clear"
        /\ tx' = [tx EXCEPT ![r].del = tx[r].seen]
    BY <1>2 DEF ClearRoles
  <2>2. tx[r].next = 1 /\ tx[r].ins = {}
    BY <1>t, <2>1 DEF Task
  <2>3. [tx[r] EXCEPT !.del = tx[r].seen] \in Tx
    BY <1>d DEF Tx
  <2>4. TypeOK' /\ Others(r)
    BY <1>d, <2>1, <2>3, LocalsStep DEF PC
  <2>5. pc'[r] = "link" /\ tx'[r].next = 1 /\ tx'[r].ins = {}
    BY <1>d, <2>1, <2>2 DEF Goto, TypeInv, TypeOK, Tx
  <2>6. Len(arg[r].roles) \in Nat
    BY <1>t, <2>1, RoleListsAssumption DEF Task
  <2>7. Task(arg'[r], pc'[r], target'[r], tx'[r], DOMAIN rows')
    BY <1>t, <2>1, <2>5, <2>6 DEF Task
  <2> QED
    BY <2>1, <2>4, <2>7, TaskStep
<1>3. CASE LinkRole(r)
  <2>1. /\ UNCHANGED <<rows, arg, target, found, wrote, aborts>> /\ pc[r] = "link"
        /\ tx[r].next <= Len(arg[r].roles)
        /\ \/ Fail(r, 500)
           \/ /\ target[r] \in DOMAIN rows
              /\ tx' = [tx EXCEPT ![r].ins = @ \cup {NextRole(r)}, ![r].next = @ + 1]
              /\ UNCHANGED <<pc, ans>>
    BY <1>3 DEF LinkRole
  <2>2. CASE Fail(r, 500)
    BY <1>d, <1>f, <2>1, <2>2
  <2>3. CASE /\ target[r] \in DOMAIN rows /\ UNCHANGED <<pc, ans>>
             /\ tx' = [tx EXCEPT ![r].ins = @ \cup {NextRole(r)}, ![r].next = @ + 1]
    <3>1. /\ arg[r].roles \in Seq(STRING) /\ Elems(arg[r].roles) \subseteq Roles
          /\ tx[r].next \in 1..Len(arg[r].roles) /\ Len(arg[r].roles) \in Nat
          /\ tx[r].ins = {arg[r].roles[i] : i \in 1..(tx[r].next - 1)}
      BY <1>t, <2>1, RoleListsAssumption DEF Task
    <3>2. NextRole(r) \in Roles /\ NextRole(r) = arg[r].roles[tx[r].next]
      BY <3>1 DEF NextRole, Elems
    <3>3. /\ tx' = [tx EXCEPT ![r] = tx'[r]]
          /\ tx'[r] = [tx[r] EXCEPT !.ins = tx[r].ins \cup {NextRole(r)}, !.next = tx[r].next + 1]
      BY <2>3 DEF TypeInv, TypeOK
    <3>4. tx'[r] \in Tx /\ tx'[r].next = tx[r].next + 1 /\ tx'[r].ins = tx[r].ins \cup {NextRole(r)}
      <4>1. tx[r].ins \cup {NextRole(r)} \subseteq Roles /\ tx[r].next + 1 \in Nat
        BY <1>d, <3>2 DEF Tx
      <4> DEFINE i == tx[r].ins \cup {NextRole(r)}
                 k == tx[r].next + 1
      <4>2. tx'[r] = [tx[r] EXCEPT !.ins = i, !.next = k] /\ i \subseteq Roles /\ k \in Nat
        BY <3>3, <4>1
      <4> HIDE DEF i, k
      <4>3. tx'[r] \in Tx /\ tx'[r].next = k /\ tx'[r].ins = i
        BY <1>d, <4>2 DEF Tx
      <4> QED
        BY <4>3 DEF i, k
    <3>5. tx' \in [Reqs -> Tx] /\ \A s \in Reqs \ {r} : SameTx(tx'[s], tx[s])
      BY <3>3, <3>4 DEF TypeInv, TypeOK, SameTx
    <3>6. TypeOK' /\ Others(r)
      BY <2>1, <2>3, <3>5 DEF TypeInv, TypeOK, Others
    <3>7. 1..(tx'[r].next - 1) = (1..(tx[r].next - 1)) \cup {tx[r].next}
      BY <3>1, <3>4
    <3>8. tx'[r].ins = {arg[r].roles[i] : i \in 1..(tx'[r].next - 1)}
      BY <3>1, <3>2, <3>4, <3>7
    <3>9. tx'[r].next \in 1..(Len(arg[r].roles) + 1)
      BY <3>1, <3>4
    <3>10. Task(arg'[r], pc'[r], target'[r], tx'[r], DOMAIN rows')
      BY ZenonT(40), <1>t, <2>1, <2>3, <3>8, <3>9 DEF Task
    <3> QED
      BY <2>1, <3>6, <3>10, TaskStep
  <2> QED
    BY <2>1, <2>2, <2>3
<1>4. CASE CommitRoles(r)
  <2>1. /\ UNCHANGED <<arg, target, found, aborts>> /\ Goto(r, "reread") /\ pc[r] = "link"
        /\ rows' = [rows EXCEPT ![target[r]].roles = (@ \ tx[r].del) \cup tx[r].ins]
        /\ Close(r) /\ Wrote(r, "roles")
    BY <1>4 DEF CommitRoles, Commit
  <2>2. rows' \in Seq(Row) /\ DOMAIN rows' = DOMAIN rows
    <3>1. CASE target[r] \notin DOMAIN rows
      <4>1. DOMAIN rows' = 1..Len(rows) /\ \A v \in 1..Len(rows) : rows'[v] = rows[v]
        BY <1>d, <2>1, <3>1
      <4>2. \A v \in 1..Len(rows) : rows[v] \in Row
        BY <1>d
      <4>3. rows' = [v \in 1..Len(rows) |-> rows'[v]]
        <5> DEFINE X == [rows[target[r]] EXCEPT !.roles = (rows[target[r]].roles \ tx[r].del) \cup tx[r].ins]
        <5>1. rows' = [rows EXCEPT ![target[r]] = X]
          BY <2>1
        <5> HIDE DEF X
        <5>2. rows' = [v \in DOMAIN rows |-> IF v = target[r] THEN X ELSE rows[v]]
          BY <5>1
        <5>3. DOMAIN rows = 1..Len(rows)
          BY <1>d
        <5> QED
          BY <5>2, <5>3, Zenon
      <4>4. rows' \in [1..Len(rows) -> Row] /\ Len(rows) \in Nat
        BY <1>d, <4>1, <4>2, <4>3
      <4> QED
        BY <1>d, <4>1, <4>4
    <3>2. CASE target[r] \in DOMAIN rows
      <4>1. rows[target[r]] \in Row
        BY <1>d, <3>2
      <4>2. [rows[target[r]] EXCEPT !.roles = (rows[target[r]].roles \ tx[r].del) \cup tx[r].ins] \in Row
        BY <1>d, <4>1 DEF Row, Tx
      <4> QED
        BY <1>d, <2>1, <3>2, <4>2, RowChange
    <3> QED
      BY <3>1, <3>2
  <2>3. TypeOK' /\ Others(r)
    BY <1>d, <2>1, <2>2, LocalsStep DEF PC, Commits
  <2>4. pc'[r] = "reread" /\ tx'[r] = NoTx
    BY <2>1 DEF Goto, Close, TypeInv, TypeOK
  <2>5. Task(arg'[r], pc'[r], target'[r], tx'[r], DOMAIN rows')
    BY <1>t, <2>1, <2>2, <2>4 DEF Task
  <2> QED
    BY <2>2, <2>3, <2>5, TaskStep
<1>5. CASE DeadlockVictim(r)
  BY <1>d, <1>f, <1>5 DEF DeadlockVictim
<1>6. CASE Abort(r)
  <2>1. aborts' \in 0..MaxAborts
    BY <1>d, <1>6, MaxAbortsAssumption DEF Abort
  <2> QED
    BY <1>f, <1>6, <2>1 DEF Abort
<1> QED
  BY <1>1, <1>2, <1>3, <1>4, <1>5, <1>6

\* The steps that write a row.
LEMMA WriteType ==
  ASSUME TypeInv, NEW r \in Reqs,
         InsertUser(r) \/ UpdateProfile(r) \/ UpdatePassword(r) \/ SoftDelete(r)
  PROVE  TypeInv' /\ Others(r)
<1>t. Task(arg[r], pc[r], target[r], tx[r], DOMAIN rows)
  BY DEF TypeInv
<1>d. /\ rows \in Seq(Row) /\ DOMAIN rows = 1..Len(rows) /\ Len(rows) \in Nat
      /\ aborts \in 0..MaxAborts
  BY DEF TypeInv, TypeOK
<1>1. CASE InsertUser(r)
  <2>0. pc[r] = "insert" /\ arg[r] \in CreateArgs /\ UNCHANGED <<arg, tx, found, aborts>>
    BY <1>t, <1>1 DEF Task, InsertUser
  <2>1. CASE Answer(r, CreateConflict) /\ UNCHANGED <<rows, target, wrote>>
    <3>1. TypeOK' /\ Others(r)
      BY <1>d, <2>0, <2>1, LocalsStep DEF Statuses, CreateConflict
    <3>2. pc'[r] = "done"
      BY <2>1 DEF Answer, TypeInv, TypeOK
    <3>3. Task(arg'[r], pc'[r], target'[r], tx'[r], DOMAIN rows')
      BY <1>t, <2>0, <2>1, <3>2 DEF Task
    <3> QED
      BY <2>1, <3>1, <3>3, TaskStep
  <2>2. CASE /\ rows' = Append(rows, NewRow(arg[r])) /\ target' = [target EXCEPT ![r] = Len(rows) + 1]
             /\ Wrote(r, "row") /\ Goto(r, "created")
    <3>1. NewRow(arg[r]) \in Row
      BY <2>0 DEF NewRow, CreateArgs, Row
    <3>2. rows' \in Seq(Row) /\ DOMAIN rows' = 1..(Len(rows) + 1)
      BY <1>d, <2>2, <3>1
    <3>c. \E u \in Nat : target' = [target EXCEPT ![r] = u]
      <4>1. Len(rows) + 1 \in Nat
        BY <1>d
      <4> QED
        BY <2>2, <4>1
    <3>p. (\E label \in PC : Goto(r, label)) /\ (\E w \in Commits : Wrote(r, w))
      BY <2>2 DEF PC, Commits
    <3>3. TypeOK' /\ Others(r)
      BY <1>d, <2>0, <3>2, <3>c, <3>p, LocalsStep
    <3>4. pc'[r] = "created" /\ target'[r] = Len(rows) + 1
      BY <1>d, <2>2 DEF Goto, TypeInv, TypeOK
    <3>5. Task(arg'[r], pc'[r], target'[r], tx'[r], DOMAIN rows')
      BY <1>t, <1>d, <2>0, <3>2, <3>4 DEF Task
    <3> QED
      BY <1>d, <3>2, <3>3, <3>5, TaskStep
  <2> QED
    BY <1>1, <2>1, <2>2 DEF InsertUser
<1>2. CASE UpdateProfile(r)
  <2> DEFINE u == target[r]
             row == WithProfile(rows[u], arg[r])
  <2>0. pc[r] = "profile" /\ arg[r] \in UpdateArgs /\ UNCHANGED <<arg, target, tx, found, aborts>>
    BY <1>t, <1>2 DEF Task, UpdateProfile
  <2>1. \/ rows' = rows /\ wrote' = wrote
        \/ u \in DOMAIN rows /\ rows' = [rows EXCEPT ![u] = row] /\ Wrote(r, "profile")
    BY <1>2 DEF UpdateProfile, Live
  <2>2. u \in DOMAIN rows => row \in Row
    <3>1. u \in DOMAIN rows => rows[u] \in Row
      BY <1>d
    <3> QED
      BY <2>0, <3>1 DEF WithProfile, Row, UpdateArgs
  <2> HIDE DEF row
  <2>3. rows' \in Seq(Row) /\ DOMAIN rows' = DOMAIN rows
    BY <1>d, <2>1, <2>2, RowChange
  <2>4. \/ Answer(r, 409) \/ Answer(r, 400) \/ Goto(r, "reread")
        \/ arg[r].pwd # None /\ Goto(r, "password")
    BY <1>2 DEF UpdateProfile, AfterProfile, UpdateConflict
  <2>5. TypeOK' /\ Others(r)
    BY <1>d, <2>0, <2>1, <2>3, <2>4, LocalsStep DEF PC, Statuses, Commits
  <2>6. pc'[r] \in {"done", "reread"} \/ (pc'[r] = "password" /\ arg[r].pwd # None)
    BY <2>4 DEF Answer, Goto, TypeInv, TypeOK
  <2>7. arg[r].pwd # None => arg[r].pwd \in Passwords
    BY <2>0 DEF UpdateArgs
  <2>8. Task(arg'[r], pc'[r], target'[r], tx'[r], DOMAIN rows')
    BY <1>t, <2>0, <2>3, <2>6, <2>7 DEF Task
  <2> QED
    BY <2>3, <2>5, <2>8, TaskStep
<1>3. CASE UpdatePassword(r)
  <2> DEFINE u == target[r]
             row == [rows[u] EXCEPT !.pwd = arg[r].pwd]
  <2>0. /\ pc[r] = "password" /\ arg[r].pwd \in Passwords /\ UNCHANGED <<arg, target, tx, found, aborts>>
        /\ arg[r] \in UpdateArgs \cup ResetArgs
    BY <1>t, <1>3 DEF Task, UpdatePassword
  <2>1. \/ rows' = rows /\ wrote' = wrote
        \/ u \in DOMAIN rows /\ rows' = [rows EXCEPT ![u] = row] /\ Wrote(r, "password")
    BY <1>3 DEF UpdatePassword, PasswordMatches, Live
  <2>2. u \in DOMAIN rows => row \in Row
    <3>1. u \in DOMAIN rows => rows[u] \in Row
      BY <1>d
    <3> QED
      BY <2>0, <3>1 DEF Row
  <2> HIDE DEF row
  <2>3. rows' \in Seq(Row) /\ DOMAIN rows' = DOMAIN rows
    BY <1>d, <2>1, <2>2, RowChange
  <2>4. Answer(r, 200) \/ (arg[r].op = "update" /\ Goto(r, "reread"))
    BY <1>3 DEF UpdatePassword
  <2>5. TypeOK' /\ Others(r)
    BY <1>d, <2>0, <2>1, <2>3, <2>4, LocalsStep DEF PC, Statuses, Commits
  <2>6. pc'[r] = "done" \/ (pc'[r] = "reread" /\ arg[r] \in UpdateArgs)
    BY <2>0, <2>4 DEF Answer, Goto, TypeInv, TypeOK, ResetArgs
  <2>7. Task(arg'[r], pc'[r], target'[r], tx'[r], DOMAIN rows')
    BY <1>t, <2>0, <2>3, <2>6 DEF Task
  <2> QED
    BY <2>3, <2>5, <2>7, TaskStep
<1>4. CASE SoftDelete(r)
  <2> DEFINE u == target[r]
             row == [rows[u] EXCEPT !.deleted = TRUE]
  <2>0. pc[r] = "delete" /\ UNCHANGED <<arg, target, tx, found, aborts>>
    BY <1>4 DEF SoftDelete
  <2>1. \/ rows' = rows /\ wrote' = wrote /\ Answer(r, 404)
        \/ u \in DOMAIN rows /\ rows' = [rows EXCEPT ![u] = row] /\ Wrote(r, "deleted") /\ Goto(r, "revoke")
    BY <1>4 DEF SoftDelete, Live
  <2>2. u \in DOMAIN rows => row \in Row
    <3>1. u \in DOMAIN rows => rows[u] \in Row
      BY <1>d
    <3> QED
      BY <3>1 DEF Row
  <2> HIDE DEF row
  <2>3. rows' \in Seq(Row) /\ DOMAIN rows' = DOMAIN rows
    BY <1>d, <2>1, <2>2, RowChange
  <2>4. TypeOK' /\ Others(r)
    BY <1>d, <2>0, <2>1, <2>3, LocalsStep DEF PC, Statuses, Commits
  <2>5. pc'[r] \in {"done", "revoke"}
    BY <2>1 DEF Answer, Goto, TypeInv, TypeOK
  <2>6. Task(arg'[r], pc'[r], target'[r], tx'[r], DOMAIN rows')
    BY <1>t, <2>0, <2>3, <2>5 DEF Task
  <2> QED
    BY <2>3, <2>4, <2>6, TaskStep
<1> QED
  BY <1>1, <1>2, <1>3, <1>4

\* The type invariant is inductive, and a step is one of one process.
LEMMA TypeStays ==
  ASSUME TypeInv, NEW r \in Reqs, Start(r) \/ Continue(r) \/ Abort(r)
  PROVE  TypeInv' /\ Others(r)
  BY StartType, ReadType, RolesType, WriteType DEF Continue

\* The state stays within its types, and a process has the request its step needs.
THEOREM TypeCorrect == Spec => []TypeInv
<1>1. Init => TypeInv
  <2> SUFFICES ASSUME Init PROVE TypeInv
    OBVIOUS
  <2>1. rows \in Seq(Row) /\ aborts \in 0..MaxAborts
    BY InitialRowsAssumption, MaxAbortsAssumption DEF Init
  <2>2. NoTx \in Tx /\ NotFound \in [total : Nat, ids : Seq(Nat)] /\ "new" \in PC /\ 0 \in Statuses
    BY DEF NoTx, Tx, NotFound, PC, Statuses
  <2>3. TypeOK
    BY <2>1, <2>2 DEF Init, TypeOK
  <2>4. \A r \in Reqs : Task(arg[r], pc[r], target[r], tx[r], DOMAIN rows)
    BY DEF Init, Task
  <2> QED
    BY <2>3, <2>4 DEF TypeInv
<1>2. TypeInv /\ [Next]_vars => TypeInv'
  <2>1. TypeInv /\ UNCHANGED vars => TypeInv'
    BY DEF TypeInv, TypeOK, vars, locals
  <2> QED
    BY <2>1, TypeStays DEF Next
<1> QED
  BY <1>1, <1>2, PTL DEF Spec

\* The type invariant of the run, for every instance.
THEOREM TypeOKCorrect == Spec => []TypeOK
<1>1. TypeInv => TypeOK
  BY DEF TypeInv
<1> QED
  BY <1>1, TypeCorrect, PTL
-----------------------------------------------------------------------------
(* Steps *)

\* What every step of a process keeps.  Once it has begun, a request has its
\* arguments, and from the INSERT or the lookup on its user, until it is done.
LEMMA Moves ==
  ASSUME TypeInv, NEW r \in Reqs, Start(r) \/ Continue(r) \/ Abort(r)
  PROVE  /\ pc[r] # "done"
         /\ pc[r] # "new" => arg'[r] = arg[r]
         /\ pc[r] \notin {"new", "insert", "lookup"} => target'[r] = target[r]
         /\ pc[r] = "new" => wrote'[r] = wrote[r]
         /\ wrote[r] \subseteq wrote'[r]
<1>t. /\ pc \in [Reqs -> PC] /\ wrote \in [Reqs -> SUBSET Commits] /\ arg \in [Reqs -> Args \cup {None}]
      /\ target \in [Reqs -> Nat]
  BY DEF TypeInv, TypeOK, Commits
<1>w. ASSUME NEW w, Wrote(r, w) PROVE wrote[r] \subseteq wrote'[r]
  BY <1>t, <1>w DEF Wrote
<1>1. CASE Start(r)
  <2>1. pc[r] = "new" /\ wrote' = wrote
    BY <1>1 DEF Start, StartCreate, StartAssign, StartUpdate, StartReset, StartById, StartList, Refuse, Begin
  <2> QED
    BY <2>1
<1>2. CASE InsertUser(r)
  BY <1>2, <1>t, <1>w DEF InsertUser
<1>3. CASE ReadCreated(r) \/ BeginRoles(r) \/ ClearRoles(r) \/ LinkRole(r)
  BY <1>3 DEF ReadCreated, BeginRoles, ClearRoles, LinkRole
<1>4. CASE CommitRoles(r)
  BY <1>4, <1>w DEF CommitRoles
<1>5. CASE DeadlockVictim(r)
  <2>1. PICK D \in SUBSET Reqs : r \in D /\ Blockers(r) \cap D # {}
    BY <1>5 DEF DeadlockVictim
  <2>2. pc[r] \in {"clear", "link"}
    BY <2>1 DEF Blockers
  <2> QED
    BY <1>5, <2>2 DEF DeadlockVictim
<1>6. CASE UpdateProfile(r)
  BY <1>6, <1>w DEF UpdateProfile
<1>7. CASE UpdatePassword(r) \/ SoftDelete(r)
  BY <1>7, <1>w DEF UpdatePassword, SoftDelete
<1>8. CASE ResetLookup(r) \/ Revoked(r) \/ Reread(r) \/ CountUsers(r) \/ PageUsers(r)
  BY <1>8 DEF ResetLookup, Revoked, Reread, CountUsers, PageUsers
<1>9. CASE Abort(r)
  BY <1>9 DEF Abort
<1> QED
  BY <1>1, <1>2, <1>3, <1>4, <1>5, <1>6, <1>7, <1>8, <1>9 DEF Continue

\* A role change that commits has inserted its list, and its user exists.
LEMMA CommitFacts ==
  ASSUME TypeInv, NEW r \in Reqs, CommitRoles(r)
  PROVE  /\ target[r] \in DOMAIN rows /\ tx[r].ins = Elems(arg[r].roles) /\ tx[r].ins # {}
         /\ rows' = [rows EXCEPT ![target[r]].roles = (@ \ tx[r].del) \cup tx[r].ins]
<1>1. Task(arg[r], "link", target[r], tx[r], DOMAIN rows) /\ tx[r].next > Len(arg[r].roles)
  BY DEF CommitRoles, TypeInv
<1>2. arg[r].roles \in Seq(STRING) /\ arg[r].roles # <<>> /\ tx[r].next \in 1..(Len(arg[r].roles) + 1)
  BY <1>1, RoleListsAssumption DEF Task
<1>3. /\ Len(arg[r].roles) \in Nat \ {0} /\ tx[r].next = Len(arg[r].roles) + 1
      /\ DOMAIN arg[r].roles = 1..Len(arg[r].roles)
  BY <1>1, <1>2
<1>4. target[r] \in DOMAIN rows
  BY <1>1, <1>3 DEF Task
<1>5. tx[r].ins = {arg[r].roles[i] : i \in DOMAIN arg[r].roles}
  BY <1>1, <1>3 DEF Task
<1>6. 1 \in DOMAIN arg[r].roles
  BY <1>3
<1> QED
  BY <1>4, <1>5, <1>6 DEF CommitRoles, Commit, Elems

\* What a step does to the tables: it adds a row whose name and address are free,
\* replaces the roles of a row by some, or changes a live row but for its roles.
LEMMA TableStep ==
  ASSUME TypeInv, NEW r \in Reqs, Start(r) \/ Continue(r) \/ Abort(r)
  PROVE  \/ rows' = rows
         \/ /\ pc[r] = "insert" /\ rows' = Append(rows, NewRow(arg[r]))
            /\ target'[r] = Len(rows) + 1 /\ pc'[r] = "created"
            /\ ~Taken(arg[r].name, arg[r].email, 0)
         \/ /\ CommitRoles(r) /\ target[r] \in DOMAIN rows
            /\ \E R \in SUBSET Roles :
                 /\ R # {} /\ Elems(arg[r].roles) \subseteq R
                 /\ rows' = [rows EXCEPT ![target[r]] = [rows[target[r]] EXCEPT !.roles = R]]
         \/ /\ pc[r] \in {"profile", "password", "delete"} /\ Live(target[r])
            /\ \E row \in Row :
                 /\ rows' = [rows EXCEPT ![target[r]] = row]
                 /\ row.roles = rows[target[r]].roles
                 /\ \/ row.deleted
                    \/ /\ row.name = rows[target[r]].name
                       /\ row.email = rows[target[r]].email
                    \/ ~Taken(row.name, row.email, target[r])
<1>t. Task(arg[r], pc[r], target[r], tx[r], DOMAIN rows)
  BY DEF TypeInv
<1>d. /\ rows \in Seq(Row) /\ \A u \in DOMAIN rows : rows[u] \in Row
      /\ tx[r] \in Tx
  BY DEF TypeInv, TypeOK
<1>1. CASE Start(r)
  <2>1. rows' = rows
    BY <1>1 DEF Start, StartCreate, StartAssign, StartUpdate, StartReset, StartById, StartList, Refuse, Begin
  <2> QED
    BY <2>1
<1>2. CASE InsertUser(r)
  BY <1>2 DEF InsertUser, Goto, TypeInv, TypeOK
<1>3. CASE ReadCreated(r) \/ BeginRoles(r) \/ ClearRoles(r) \/ LinkRole(r) \/ DeadlockVictim(r)
  BY <1>3 DEF ReadCreated, BeginRoles, ClearRoles, LinkRole, DeadlockVictim
<1>4. CASE CommitRoles(r)
  <2>1. PICK R : R = (rows[target[r]].roles \ tx[r].del) \cup tx[r].ins
    OBVIOUS
  <2>2. /\ target[r] \in DOMAIN rows /\ tx[r].ins = Elems(arg[r].roles) /\ tx[r].ins # {}
        /\ rows' = [rows EXCEPT ![target[r]] = [rows[target[r]] EXCEPT !.roles = R]]
    BY <1>4, <2>1, CommitFacts
  <2>3. R \in SUBSET Roles
    BY <1>d, <2>1, <2>2 DEF Row, Tx
  <2> QED
    BY <1>4, <2>1, <2>2, <2>3
<1>5. CASE UpdateProfile(r)
  <2>1. \/ rows' = rows
        \/ /\ Live(target[r]) /\ rows' = [rows EXCEPT ![target[r]] = WithProfile(rows[target[r]], arg[r])]
           /\ ~Taken(WithProfile(rows[target[r]], arg[r]).name, WithProfile(rows[target[r]], arg[r]).email, target[r])
    BY <1>5 DEF UpdateProfile
  <2>2. ASSUME Live(target[r])
        PROVE /\ WithProfile(rows[target[r]], arg[r]) \in Row
              /\ WithProfile(rows[target[r]], arg[r]).roles = rows[target[r]].roles
    <3>1. pc[r] = "profile" /\ arg[r] \in UpdateArgs /\ rows[target[r]] \in Row
      BY <1>d, <1>t, <1>5, <2>2 DEF UpdateProfile, Task, Live
    <3> QED
      BY <3>1 DEF WithProfile, Row, UpdateArgs
  <2> QED
    BY <1>5, <2>1, <2>2 DEF UpdateProfile
<1>6. CASE UpdatePassword(r)
  <2>1. PICK row : row = [rows[target[r]] EXCEPT !.pwd = arg[r].pwd]
    OBVIOUS
  <2>2. rows' = rows \/ (Live(target[r]) /\ rows' = [rows EXCEPT ![target[r]] = row])
    BY <1>6, <2>1 DEF UpdatePassword, PasswordMatches
  <2>3. pc[r] = "password" /\ arg[r].pwd \in Passwords
    BY <1>t, <1>6 DEF UpdatePassword, Task
  <2>4. Live(target[r]) => /\ row \in Row /\ row.roles = rows[target[r]].roles
                           /\ row.name = rows[target[r]].name /\ row.email = rows[target[r]].email
    <3>1. Live(target[r]) => rows[target[r]] \in Row
      BY <1>d DEF Live
    <3> QED
      BY <2>1, <2>3, <3>1 DEF Row
  <2> QED
    BY <2>2, <2>3, <2>4
<1>7. CASE SoftDelete(r)
  <2>1. PICK row : row = [rows[target[r]] EXCEPT !.deleted = TRUE]
    OBVIOUS
  <2>2. pc[r] = "delete" /\ (rows' = rows \/ (Live(target[r]) /\ rows' = [rows EXCEPT ![target[r]] = row]))
    BY <1>7, <2>1 DEF SoftDelete
  <2>3. Live(target[r]) => row \in Row /\ row.roles = rows[target[r]].roles /\ row.deleted
    <3>1. Live(target[r]) => rows[target[r]] \in Row
      BY <1>d DEF Live
    <3> QED
      BY <2>1, <3>1 DEF Row
  <2> QED
    BY <2>2, <2>3
<1>8. CASE ResetLookup(r) \/ Revoked(r) \/ Reread(r) \/ CountUsers(r) \/ PageUsers(r) \/ Abort(r)
  BY <1>8 DEF ResetLookup, Revoked, Reread, CountUsers, PageUsers, Abort
<1> QED
  BY <1>1, <1>2, <1>3, <1>4, <1>5, <1>6, <1>7, <1>8 DEF Continue

-----------------------------------------------------------------------------
(* The tables *)

\* Deleted rows are never written but for their roles.
THEOREM DeletedRowsFrozenCorrect == Spec => DeletedRowsFrozen
<1> DEFINE Frozen == \A u \in DOMAIN rows :
                       rows[u].deleted => rows'[u] = [rows[u] EXCEPT !.roles = rows'[u].roles]
<1>1. TypeInv /\ [Next]_vars => [Frozen]_vars
  <2> SUFFICES ASSUME TypeInv, NEW r \in Reqs, Start(r) \/ Continue(r) \/ Abort(r),
                      NEW u \in DOMAIN rows, rows[u].deleted
               PROVE rows'[u] = [rows[u] EXCEPT !.roles = rows'[u].roles]
    BY DEF Next
  <2>1. rows \in Seq(Row) /\ rows[u] \in Row
    BY DEF TypeInv, TypeOK
  <2>2. rows[u] = [rows[u] EXCEPT !.roles = rows[u].roles]
    BY <2>1 DEF Row
  <2>3. CASE rows'[u] = rows[u]
    BY <2>2, <2>3
  <2>4. CASE \E row \in Row : rows' = Append(rows, row)
    BY <2>1, <2>2, <2>4
  <2>5. CASE \E R : rows' = [rows EXCEPT ![target[r]] = [rows[target[r]] EXCEPT !.roles = R]]
    <3>1. CASE u = target[r]
      <4>1. PICK R : rows' = [rows EXCEPT ![u] = [rows[u] EXCEPT !.roles = R]]
        BY <2>5, <3>1
      <4>2. rows'[u] = [rows[u] EXCEPT !.roles = R] /\ rows'[u].roles = R
        BY <2>1, <4>1 DEF Row
      <4> QED
        BY <4>2
    <3>2. CASE u # target[r]
      BY <2>3, <2>5, <3>2
    <3> QED
      BY <3>1, <3>2
  <2>6. CASE Live(target[r]) /\ \E row \in Row : rows' = [rows EXCEPT ![target[r]] = row]
    <3>1. u # target[r]
      BY <2>6 DEF Live
    <3> QED
      BY <2>3, <2>6, <3>1
  <2>7. pc[r] = "insert" => NewRow(arg[r]) \in Row
    <3>1. pc[r] = "insert" => arg[r] \in CreateArgs
      BY DEF TypeInv, Task
    <3> QED
      BY <3>1 DEF NewRow, CreateArgs, Row
  <2> QED
    BY <2>3, <2>4, <2>5, <2>6, <2>7, TableStep
<1> QED
  BY <1>1, TypeCorrect, PTL DEF Spec, DeletedRowsFrozen

\* The partial unique indexes hold for every table the requests make.
THEOREM LiveNamesUniqueCorrect == Spec => []LiveNamesUnique
<1>1. Init => LiveNamesUnique
  BY InitialRowsAssumption DEF Init, LiveNamesUnique
<1>2. TypeInv /\ LiveNamesUnique /\ [Next]_vars => LiveNamesUnique'
  <2> SUFFICES ASSUME TypeInv, LiveNamesUnique, [Next]_vars PROVE LiveNamesUnique'
    OBVIOUS
  <2>0. CASE rows' = rows
    BY <2>0 DEF LiveNamesUnique, Unique
  <2> SUFFICES ASSUME NEW r \in Reqs, Start(r) \/ Continue(r) \/ Abort(r) PROVE LiveNamesUnique'
    BY <2>0 DEF Next, vars
  <2>1. /\ rows \in Seq(Row) /\ \A u \in DOMAIN rows : rows[u] \in Row
        /\ DOMAIN rows = 1..Len(rows) /\ Len(rows) \in Nat
    BY DEF TypeInv, TypeOK
  <2>2. CASE /\ pc[r] = "insert" /\ rows' = Append(rows, NewRow(arg[r]))
             /\ ~Taken(arg[r].name, arg[r].email, 0)
    <3>1. arg[r] \in CreateArgs
      BY <2>2 DEF TypeInv, Task
    <3>2. NewRow(arg[r]) \in Row /\ NewRow(arg[r]).name = arg[r].name /\ NewRow(arg[r]).email = arg[r].email
      BY <3>1 DEF NewRow, CreateArgs, Row
    <3>3. /\ DOMAIN rows' = DOMAIN rows \cup {Len(rows) + 1} /\ rows'[Len(rows) + 1] = NewRow(arg[r])
          /\ \A u \in DOMAIN rows : rows'[u] = rows[u]
      BY <2>1, <2>2, <3>2
    <3>4. \A v \in DOMAIN rows : ~rows[v].deleted =>
            /\ rows[v].name # NewRow(arg[r]).name
            /\ NewRow(arg[r]).email = None \/ rows[v].email # NewRow(arg[r]).email
      BY <2>1, <2>2, <3>2 DEF Taken, Live
    <3> QED
      BY <3>3, <3>4 DEF LiveNamesUnique, Unique
  <2>3. ASSUME NEW u \in DOMAIN rows, NEW row \in Row, rows' = [rows EXCEPT ![u] = row],
               \/ row.deleted
               \/ /\ ~rows[u].deleted
                  /\ (row.name = rows[u].name /\ row.email = rows[u].email) \/ ~Taken(row.name, row.email, u)
               \/ /\ row.name = rows[u].name /\ row.email = rows[u].email
                  /\ rows[u].deleted => row.deleted
        PROVE LiveNamesUnique'
    <3>1. DOMAIN rows' = DOMAIN rows /\ rows'[u] = row /\ \A v \in DOMAIN rows \ {u} : rows'[v] = rows[v]
      BY <2>1, <2>3, RowChange
    <3>2. \A v \in DOMAIN rows \ {u} : ~rows[v].deleted /\ ~row.deleted =>
            /\ rows[v].name # row.name
            /\ row.email = None \/ rows[v].email # row.email
      BY <2>3 DEF Taken, Live, LiveNamesUnique, Unique
    <3> QED
      BY <3>1, <3>2 DEF LiveNamesUnique, Unique
  <2>4. CASE /\ target[r] \in DOMAIN rows
             /\ \E R \in SUBSET Roles :
                  rows' = [rows EXCEPT ![target[r]] = [rows[target[r]] EXCEPT !.roles = R]]
    <3>1. PICK R \in SUBSET Roles :
                  rows' = [rows EXCEPT ![target[r]] = [rows[target[r]] EXCEPT !.roles = R]]
      BY <2>4
    <3>2. PICK row : row = [rows[target[r]] EXCEPT !.roles = R]
      OBVIOUS
    <3>3. rows[target[r]] \in Row
      BY <2>1, <2>4
    <3>4. /\ row \in Row /\ row.name = rows[target[r]].name /\ row.email = rows[target[r]].email
          /\ rows[target[r]].deleted => row.deleted
      BY <3>2, <3>3 DEF Row
    <3> QED
      BY <2>3, <2>4, <3>1, <3>2, <3>4
  <2>5. CASE /\ Live(target[r])
             /\ \E row \in Row :
                  /\ rows' = [rows EXCEPT ![target[r]] = row]
                  /\ \/ row.deleted
                     \/ row.name = rows[target[r]].name /\ row.email = rows[target[r]].email
                     \/ ~Taken(row.name, row.email, target[r])
    BY <2>3, <2>5 DEF Live
  <2> QED
    BY <2>0, <2>2, <2>4, <2>5, TableStep
<1> QED
  BY <1>1, <1>2, TypeCorrect, PTL DEF Spec
-----------------------------------------------------------------------------
(* Refused requests *)

\* What a request has committed when it comes to a statement.
Clean(r) ==
  /\ ans[r] # 0 => pc[r] = "done"
  /\ pc[r] \in {"new", "insert", "profile", "delete", "lookup", "count", "page"} => wrote[r] = {}
  /\ pc[r] \in {"begin", "clear", "link"} /\ arg[r].op = "assign" => wrote[r] = {}
  /\ pc[r] = "password" => wrote[r] \subseteq {"profile"}
  /\ pc[r] = "reread" /\ arg[r].op \in {"get", "delete"} => wrote[r] = {}
  /\ wrote[r] # {} => target[r] \in DOMAIN rows

\* RefusedRequestsWriteNothing, of one request.
RefusedWroteNothing(r) ==
  ans[r] \in 400..499 /\ wrote[r] # {} =>
    \/ ans[r] = 400 /\ arg[r].op = "update" /\ wrote[r] = {"profile"}
    \/ ans[r] = 404 /\ arg[r].op \in {"update", "assign"} /\ rows[target[r]].deleted

\* The tables only grow, and a deleted user stays deleted.
LEMMA TablesGrow ==
  ASSUME TypeInv, NEW r \in Reqs, Start(r) \/ Continue(r) \/ Abort(r)
  PROVE  /\ DOMAIN rows \subseteq DOMAIN rows'
         /\ \A u \in DOMAIN rows : rows[u].deleted => rows'[u].deleted
<1>1. /\ rows \in Seq(Row) /\ \A u \in DOMAIN rows : rows[u] \in Row
      /\ DOMAIN rows = 1..Len(rows) /\ Len(rows) \in Nat
  BY DEF TypeInv, TypeOK
<1>2. CASE rows' = rows
  BY <1>2
<1>3. CASE pc[r] = "insert" /\ rows' = Append(rows, NewRow(arg[r]))
  <2>1. arg[r] \in CreateArgs
    BY <1>3 DEF TypeInv, Task
  <2>2. NewRow(arg[r]) \in Row
    BY <2>1 DEF NewRow, CreateArgs, Row
  <2> QED
    BY <1>1, <1>3, <2>2
<1>4. CASE /\ target[r] \in DOMAIN rows
           /\ \E R \in SUBSET Roles :
                rows' = [rows EXCEPT ![target[r]] = [rows[target[r]] EXCEPT !.roles = R]]
  <2>1. PICK R \in SUBSET Roles : rows' = [rows EXCEPT ![target[r]] = [rows[target[r]] EXCEPT !.roles = R]]
    BY <1>4
  <2>2. PICK row : row = [rows[target[r]] EXCEPT !.roles = R]
    OBVIOUS
  <2>3. rows[target[r]] \in Row
    BY <1>1, <1>4
  <2>4. row \in Row /\ (rows[target[r]].deleted => row.deleted)
    BY <2>2, <2>3 DEF Row
  <2> QED
    BY <1>1, <1>4, <2>1, <2>2, <2>4, RowChange
<1>5. CASE Live(target[r]) /\ \E row \in Row : rows' = [rows EXCEPT ![target[r]] = row]
  BY <1>1, <1>5, RowChange DEF Live
<1> QED
  BY <1>2, <1>3, <1>4, <1>5, TableStep

\* Another request's step changes nothing of this.
LEMMA CleanOthers ==
  ASSUME TypeInv, NEW r \in Reqs, Start(r) \/ Continue(r) \/ Abort(r),
         NEW s \in Reqs \ {r}, Clean(s), RefusedWroteNothing(s)
  PROVE  Clean(s)' /\ RefusedWroteNothing(s)'
<1>1. /\ arg'[s] = arg[s] /\ pc'[s] = pc[s] /\ target'[s] = target[s]
      /\ ans'[s] = ans[s] /\ wrote'[s] = wrote[s]
  BY TypeStays DEF Others
<1>2. /\ DOMAIN rows \subseteq DOMAIN rows'
      /\ \A u \in DOMAIN rows : rows[u].deleted => rows'[u].deleted
  BY TablesGrow
<1>3. Clean(s)'
  BY <1>1, <1>2 DEF Clean
<1>4. RefusedWroteNothing(s)'
  BY <1>1, <1>2 DEF Clean, RefusedWroteNothing
<1> QED
  BY <1>3, <1>4

\* The request's own step.
LEMMA CleanStep ==
  ASSUME TypeInv, NEW r \in Reqs, Clean(r), RefusedWroteNothing(r),
         Start(r) \/ Continue(r) \/ Abort(r)
  PROVE  Clean(r)' /\ RefusedWroteNothing(r)'
<1>t. /\ pc \in [Reqs -> PC] /\ wrote \in [Reqs -> SUBSET Commits] /\ arg \in [Reqs -> Args \cup {None}]
      /\ target \in [Reqs -> Nat] /\ ans \in [Reqs -> Statuses]
  BY DEF TypeInv, TypeOK, Commits
<1>k. Task(arg[r], pc[r], target[r], tx[r], DOMAIN rows)
  BY DEF TypeInv
<1>g. DOMAIN rows \subseteq DOMAIN rows'
  BY TablesGrow
<1>m. pc[r] # "done" /\ ans[r] = 0
  BY Moves DEF Clean
\* It ends, with a status that is no refusal or with nothing committed.
<1>a. ASSUME NEW status, Answer(r, status), UNCHANGED <<arg, target, wrote>>,
             status \notin 400..499 \/ wrote[r] = {}
      PROVE  Clean(r)' /\ RefusedWroteNothing(r)'
  <2>1. /\ pc'[r] = "done" /\ ans'[r] = status /\ arg'[r] = arg[r] /\ target'[r] = target[r]
        /\ wrote'[r] = wrote[r]
    BY <1>t, <1>a DEF Answer
  <2> QED
    BY <1>a, <1>g, <2>1 DEF Clean, RefusedWroteNothing
<1>1. CASE Start(r)
  <2>1. pc[r] = "new" /\ wrote[r] = {}
    BY <1>1 DEF Start, Clean
  <2>2. ASSUME NEW status, Refuse(r, status) PROVE Clean(r)' /\ RefusedWroteNothing(r)'
    BY <1>a, <2>1, <2>2 DEF Refuse, Answer
  <2>3. ASSUME NEW a, NEW label, NEW u, Begin(r, a, label, u), label # "done"
        PROVE Clean(r)' /\ RefusedWroteNothing(r)'
    <3>1. ans'[r] = 0 /\ wrote'[r] = {}
      BY <1>m, <2>1, <2>3 DEF Begin
    <3> QED
      BY <3>1 DEF Clean, RefusedWroteNothing
  <2> QED
    BY <1>1, <2>2, <2>3 DEF Start, StartCreate, StartAssign, StartUpdate, StartReset, StartById, StartList
\* It goes on.
<1>b. ASSUME NEW label, Goto(r, label), UNCHANGED arg
      PROVE  pc'[r] = label /\ ans'[r] = 0 /\ RefusedWroteNothing(r)' /\ arg'[r] = arg[r]
  <2>1. pc'[r] = label /\ ans'[r] = 0 /\ arg'[r] = arg[r]
    BY <1>b, <1>m, <1>t DEF Goto
  <2> QED
    BY <2>1 DEF RefusedWroteNothing
<1>2. CASE InsertUser(r)
  <2>1. CASE Answer(r, CreateConflict) /\ UNCHANGED <<arg, target, wrote>>
    BY <1>a, <2>1 DEF CreateConflict
  <2>2. CASE /\ rows' = Append(rows, NewRow(arg[r])) /\ target' = [target EXCEPT ![r] = Len(rows) + 1]
             /\ Wrote(r, "row") /\ Goto(r, "created") /\ UNCHANGED arg
    <3>1. arg[r] \in CreateArgs
      BY <1>2, <1>k DEF InsertUser, Task
    <3>2. NewRow(arg[r]) \in Row /\ rows \in Seq(Row)
      BY <3>1 DEF NewRow, CreateArgs, Row, TypeInv, TypeOK
    <3>3. target'[r] \in DOMAIN rows'
      BY <1>t, <2>2, <3>2
    <3>4. pc'[r] = "created" /\ ans'[r] = 0 /\ RefusedWroteNothing(r)'
      BY <1>b, <2>2
    <3> QED
      BY <3>3, <3>4 DEF Clean
  <2> QED
    BY <1>2, <2>1, <2>2 DEF InsertUser
<1>3. CASE ReadCreated(r)
  <2>1. CASE Answer(r, 500)
    BY <1>3, <1>a, <2>1 DEF ReadCreated
  <2>2. CASE Goto(r, "begin")
    <3>1. /\ pc'[r] = "begin" /\ ans'[r] = 0 /\ RefusedWroteNothing(r)' /\ arg'[r] = arg[r]
          /\ wrote'[r] = wrote[r] /\ target'[r] = target[r]
      BY <1>3, <1>b, <2>2 DEF ReadCreated
    <3>2. arg[r].op = "create"
      BY <1>3, <1>k DEF ReadCreated, Task, CreateArgs
    <3> QED
      BY <1>g, <3>1, <3>2 DEF Clean
  <2> QED
    BY <1>3, <2>1, <2>2 DEF ReadCreated
<1>4. CASE BeginRoles(r) \/ ClearRoles(r)
  <2>1. /\ pc[r] \in {"begin", "clear"} /\ \E label \in {"clear", "link"} : Goto(r, label)
        /\ UNCHANGED <<arg, target, wrote>>
    BY <1>4 DEF BeginRoles, ClearRoles
  <2>2. pc'[r] \in {"clear", "link"} /\ ans'[r] = 0 /\ RefusedWroteNothing(r)' /\ arg'[r] = arg[r]
    BY <1>b, <2>1
  <2> QED
    BY <1>g, <2>1, <2>2 DEF Clean
<1>f. ASSUME Fail(r, 500), UNCHANGED <<arg, target, wrote>>
      PROVE Clean(r)' /\ RefusedWroteNothing(r)'
  BY <1>a, <1>f DEF Fail
<1>5. CASE LinkRole(r)
  <2>1. CASE Fail(r, 500)
    BY <1>5, <1>f, <2>1 DEF LinkRole
  <2>2. CASE UNCHANGED <<pc, ans>>
    BY ZenonT(40), <1>5, <1>g, <1>m, <2>2 DEF LinkRole, Clean, RefusedWroteNothing
  <2> QED
    BY <1>5, <2>1, <2>2 DEF LinkRole
<1>6. CASE CommitRoles(r)
  <2>1. pc'[r] = "reread" /\ ans'[r] = 0 /\ RefusedWroteNothing(r)' /\ arg'[r] = arg[r] /\ target'[r] = target[r]
    BY <1>6, <1>b DEF CommitRoles
  <2>2. target[r] \in DOMAIN rows
    BY <1>6, CommitFacts
  <2>3. arg[r].op \in {"create", "assign"}
    BY <1>6, <1>k DEF CommitRoles, Task, CreateArgs, AssignArgs
  <2> QED
    BY <1>g, <2>1, <2>2, <2>3 DEF Clean
<1>7. CASE DeadlockVictim(r) \/ Abort(r)
  BY <1>7, <1>f DEF DeadlockVictim, Abort
<1>8. CASE UpdateProfile(r)
  <2>1. pc[r] = "profile" /\ wrote[r] = {} /\ arg[r] \in UpdateArgs /\ UNCHANGED <<arg, target>>
    BY <1>8, <1>k DEF UpdateProfile, Clean, Task
  <2>2. arg[r].op = "update" /\ arg'[r] = arg[r] /\ target'[r] = target[r]
    BY <2>1 DEF UpdateArgs
  <2>3. CASE Answer(r, UpdateConflict) /\ UNCHANGED wrote
    BY <1>a, <2>1, <2>3
  <2>4. CASE wrote' = wrote \/ (Live(target[r]) /\ Wrote(r, "profile"))
    <3>1. wrote'[r] \subseteq {"profile"} /\ (wrote'[r] # {} => target[r] \in DOMAIN rows)
      BY <1>t, <2>1, <2>4 DEF Wrote, Live
    <3>2. CASE Goto(r, "reread") \/ Goto(r, "password")
      <4>1. pc'[r] \in {"reread", "password"} /\ ans'[r] = 0 /\ RefusedWroteNothing(r)'
        BY <1>b, <2>1, <3>2
      <4> QED
        BY <1>g, <2>2, <3>1, <4>1 DEF Clean
    <3>3. CASE Answer(r, 400)
      <4>1. pc'[r] = "done" /\ ans'[r] = 400
        BY <1>t, <3>3 DEF Answer
      <4>2. wrote'[r] = {} \/ wrote'[r] = {"profile"}
        BY <3>1
      <4> QED
        BY <1>g, <2>2, <3>1, <4>1, <4>2 DEF Clean, RefusedWroteNothing
    <3> QED
      BY <1>8, <2>3, <3>2, <3>3 DEF UpdateProfile, AfterProfile
  <2> QED
    BY <1>8, <2>3, <2>4 DEF UpdateProfile
<1>9. CASE UpdatePassword(r)
  <2>1. /\ pc[r] = "password" /\ UNCHANGED <<arg, target>> /\ arg'[r] = arg[r] /\ target'[r] = target[r]
        /\ wrote' = wrote \/ (Live(target[r]) /\ Wrote(r, "password"))
    BY <1>9 DEF UpdatePassword, PasswordMatches
  <2>2. wrote'[r] # {} => target[r] \in DOMAIN rows
    BY <1>t, <2>1 DEF Clean, Live
  <2>3. CASE Answer(r, 200)
    <3>1. pc'[r] = "done" /\ ans'[r] = 200
      BY <1>t, <2>3 DEF Answer
    <3> QED
      BY <1>g, <2>1, <2>2, <3>1 DEF Clean, RefusedWroteNothing
  <2>4. CASE arg[r].op = "update" /\ Goto(r, "reread")
    <3>1. pc'[r] = "reread" /\ ans'[r] = 0 /\ RefusedWroteNothing(r)'
      BY <1>b, <2>1, <2>4
    <3> QED
      BY <1>g, <2>1, <2>2, <2>4, <3>1 DEF Clean
  <2> QED
    BY <1>9, <2>3, <2>4 DEF UpdatePassword
<1>10. CASE ResetLookup(r)
  <2>1. pc[r] = "lookup" /\ wrote[r] = {} /\ UNCHANGED <<arg, wrote>>
    BY <1>10 DEF ResetLookup, Clean
  <2>2. CASE Answer(r, 404) /\ UNCHANGED target
    BY <1>a, <2>1, <2>2
  <2>3. CASE Goto(r, "password")
    <3>1. pc'[r] = "password" /\ ans'[r] = 0 /\ RefusedWroteNothing(r)' /\ wrote'[r] = {}
      BY <1>b, <2>1, <2>3
    <3> QED
      BY <3>1 DEF Clean
  <2> QED
    BY <1>10, <2>2, <2>3 DEF ResetLookup
<1>11. CASE SoftDelete(r)
  <2>1. pc[r] = "delete" /\ wrote[r] = {} /\ UNCHANGED <<arg, target>>
    BY <1>11 DEF SoftDelete, Clean
  <2>2. CASE Answer(r, 404) /\ UNCHANGED wrote
    BY <1>a, <2>1, <2>2
  <2>3. CASE Live(target[r]) /\ Goto(r, "revoke")
    <3>1. pc'[r] = "revoke" /\ ans'[r] = 0 /\ RefusedWroteNothing(r)' /\ target'[r] = target[r]
      BY <1>b, <2>1, <2>3
    <3> QED
      BY <1>g, <2>3, <3>1 DEF Clean, Live
  <2> QED
    BY <1>11, <2>2, <2>3 DEF SoftDelete
<1>12. CASE Revoked(r) \/ PageUsers(r)
  <2>1. (Answer(r, 204) \/ Answer(r, 200) \/ Answer(r, 500)) /\ UNCHANGED <<arg, target, wrote>>
    BY <1>12 DEF Revoked, PageUsers
  <2> QED
    BY <1>a, <2>1
<1>13. CASE Reread(r)
  <2>1. pc[r] = "reread" /\ UNCHANGED <<rows, arg, target, wrote>>
    BY <1>13 DEF Reread
  <2>2. CASE Answer(r, 201) \/ Answer(r, 200)
    BY <1>a, <2>1, <2>2
  <2>3. CASE arg[r].op # "create" /\ ~Live(target[r]) /\ Answer(r, 404)
    <3>1. pc'[r] = "done" /\ ans'[r] = 404
      BY <1>t, <2>3 DEF Answer
    <3>2. arg[r].op \in {"assign", "update", "get", "delete"}
      BY <1>k, <2>1, <2>3 DEF Task, CreateArgs, AssignArgs, UpdateArgs, IdArgs
    <3>3. wrote[r] # {} => arg[r].op \in {"assign", "update"} /\ rows[target[r]].deleted
      BY <2>1, <2>3, <3>2 DEF Clean, Live
    <3> QED
      BY <2>1, <3>1, <3>3 DEF Clean, RefusedWroteNothing
  <2> QED
    BY <1>13, <2>2, <2>3 DEF Reread
<1>14. CASE CountUsers(r)
  <2>1. pc[r] = "count" /\ wrote'[r] = {} /\ pc'[r] = "page" /\ ans'[r] = 0 /\ RefusedWroteNothing(r)'
    BY <1>14, <1>b DEF CountUsers, Clean
  <2> QED
    BY <2>1 DEF Clean
<1> QED
  BY <1>1, <1>2, <1>3, <1>4, <1>5, <1>6, <1>7, <1>8, <1>9, <1>10, <1>11, <1>12, <1>13, <1>14 DEF Continue

\* A refused request has committed nothing but in the two cases of the code.
THEOREM RefusedRequestsWriteNothingCorrect == Spec => []RefusedRequestsWriteNothing
<1> DEFINE Inv == \A r \in Reqs : Clean(r) /\ RefusedWroteNothing(r)
<1>1. Init => Inv
  BY DEF Init, Clean, RefusedWroteNothing
<1>2. TypeInv /\ Inv /\ [Next]_vars => Inv'
  <2>1. TypeInv /\ Inv /\ UNCHANGED vars => Inv'
    BY DEF vars, locals, Clean, RefusedWroteNothing
  <2> QED
    BY <2>1, CleanOthers, CleanStep DEF Next
<1>3. Inv => RefusedRequestsWriteNothing
  BY DEF RefusedWroteNothing, RefusedRequestsWriteNothing
<1> QED
  BY <1>1, <1>2, <1>3, TypeCorrect, PTL DEF Spec
-----------------------------------------------------------------------------
(* Roles *)

\* A creation whose user has no roles yet, or never will.
Unfinished(r, u) ==
  /\ arg[r] # None /\ arg[r].op = "create" /\ target[r] = u
  /\ pc[r] \in {"created", "begin", "clear", "link"} \/ (pc[r] = "done" /\ ans[r] = 500)

Roleless == \A u \in DOMAIN rows : rows[u].roles = {} => \E r \in Reqs : Unfinished(r, u)

\* A creation stays unfinished until its roles are committed.
LEMMA UnfinishedStays ==
  ASSUME TypeInv, NEW r \in Reqs, Start(r) \/ Continue(r) \/ Abort(r), ~CommitRoles(r),
         NEW s \in Reqs, NEW u, Unfinished(s, u)
  PROVE  Unfinished(s, u)'
<1>1. CASE s # r
  <2>1. arg'[s] = arg[s] /\ pc'[s] = pc[s] /\ target'[s] = target[s] /\ ans'[s] = ans[s]
    BY <1>1, TypeStays DEF Others
  <2> QED
    BY <2>1 DEF Unfinished
<1>2. CASE s = r
  <2>1. pc[r] \in {"created", "begin", "clear", "link"}
    BY <1>2, Moves DEF Unfinished
  <2>2. arg'[r] = arg[r] /\ target'[r] = target[r]
    BY <2>1, Moves
  <2>3. pc'[r] \in {"begin", "clear", "link"} \/ (pc'[r] = "done" /\ ans'[r] = 500)
    <3>0. pc \in [Reqs -> PC] /\ ans \in [Reqs -> Statuses]
      BY DEF TypeInv, TypeOK
    <3>1. ReadCreated(r) \/ BeginRoles(r) \/ ClearRoles(r) \/ LinkRole(r) \/ DeadlockVictim(r) \/ Abort(r)
      BY <2>1 DEF Start, Continue, InsertUser, UpdateProfile, UpdatePassword, ResetLookup, SoftDelete,
                  Revoked, Reread, CountUsers, PageUsers
    <3> QED
      BY <2>1, <3>0, <3>1 DEF ReadCreated, BeginRoles, ClearRoles, LinkRole, DeadlockVictim, Abort,
                              Fail, Answer, Goto
  <2> QED
    BY <1>2, <2>2, <2>3 DEF Unfinished
<1> QED
  BY <1>1, <1>2

\* Overlapping role changes never leave a user without roles; a creation that
\* stopped between its two transactions does.
THEOREM RolelessOnlyAfterFailureCorrect == Spec => []RolelessOnlyAfterFailure
<1>1. Init => Roleless
  BY InitialRowsAssumption DEF Init, Roleless
<1>2. TypeInv /\ Roleless /\ [Next]_vars => Roleless'
  <2>1. TypeInv /\ Roleless /\ UNCHANGED vars => Roleless'
    BY DEF vars, locals, Roleless, Unfinished
  <2> SUFFICES ASSUME TypeInv, Roleless, NEW r \in Reqs, Start(r) \/ Continue(r) \/ Abort(r)
               PROVE Roleless'
    BY <2>1 DEF Next
  <2>2. /\ rows \in Seq(Row) /\ \A u \in DOMAIN rows : rows[u] \in Row
        /\ DOMAIN rows = 1..Len(rows) /\ Len(rows) \in Nat
    BY DEF TypeInv, TypeOK
  <2>3. CASE CommitRoles(r)
    <3>0. PICK R : R = (rows[target[r]].roles \ tx[r].del) \cup tx[r].ins
      OBVIOUS
    <3>1. /\ target[r] \in DOMAIN rows /\ R # {} /\ R \in SUBSET Roles
          /\ rows' = [rows EXCEPT ![target[r]] = [rows[target[r]] EXCEPT !.roles = R]]
      <4>1. /\ target[r] \in DOMAIN rows /\ tx[r].ins # {} /\ tx[r] \in Tx
            /\ rows' = [rows EXCEPT ![target[r]].roles = (@ \ tx[r].del) \cup tx[r].ins]
        BY <2>3, CommitFacts DEF TypeInv, TypeOK
      <4>2. rows[target[r]].roles \subseteq Roles
        BY <2>2, <4>1 DEF Row
      <4> QED
        BY <3>0, <4>1, <4>2 DEF Tx
    <3>2. target[r] \in DOMAIN rows /\ rows[target[r]] \in Row
      BY <2>2, <2>3, CommitFacts
    <3>3. PICK row : row = [rows[target[r]] EXCEPT !.roles = R]
      OBVIOUS
    <3>4. row \in Row /\ row.roles = R
      BY <3>1, <3>2, <3>3 DEF Row
    <3>5. /\ DOMAIN rows' = DOMAIN rows /\ rows'[target[r]].roles # {}
          /\ \A v \in DOMAIN rows \ {target[r]} : rows'[v] = rows[v]
      BY <2>2, <3>1, <3>2, <3>3, <3>4, RowChange
    <3>6. ASSUME NEW s \in Reqs, NEW u \in DOMAIN rows, u # target[r], Unfinished(s, u)
          PROVE Unfinished(s, u)'
      <4>1. s # r
        BY <3>6 DEF Unfinished
      <4>2. arg'[s] = arg[s] /\ pc'[s] = pc[s] /\ target'[s] = target[s] /\ ans'[s] = ans[s]
        BY <4>1, TypeStays DEF Others
      <4> QED
        BY <3>6, <4>2 DEF Unfinished
    <3> QED
      BY <3>5, <3>6 DEF Roleless
  <2>4. CASE ~CommitRoles(r) /\ DOMAIN rows' = DOMAIN rows /\ \A u \in DOMAIN rows : rows'[u].roles = rows[u].roles
    BY <2>4, UnfinishedStays DEF Roleless
  <2>5. CASE /\ pc[r] = "insert" /\ rows' = Append(rows, NewRow(arg[r]))
             /\ target'[r] = Len(rows) + 1 /\ pc'[r] = "created"
    <3>1. ~CommitRoles(r) /\ arg[r] \in CreateArgs
      BY <2>5 DEF CommitRoles, TypeInv, Task
    <3>2. NewRow(arg[r]) \in Row
      BY <3>1 DEF NewRow, CreateArgs, Row
    <3>3. DOMAIN rows' = DOMAIN rows \cup {Len(rows) + 1} /\ \A u \in DOMAIN rows : rows'[u] = rows[u]
      BY <2>2, <2>5, <3>2
    <3>4. arg'[r] = arg[r]
      BY <2>5, Moves
    <3>5. PICK n : n = Len(rows) + 1
      OBVIOUS
    <3>6. Unfinished(r, n)'
      <4>1. arg[r] # None
        BY <3>1, NoneAssumption DEF Args
      <4>2. arg[r].op = "create"
        BY <3>1 DEF CreateArgs
      <4> QED
        BY <2>5, <3>4, <3>5, <4>1, <4>2 DEF Unfinished
    <3>7. \A u \in DOMAIN rows : rows'[u].roles = {} => \E s \in Reqs : Unfinished(s, u)'
      BY <3>1, <3>3, UnfinishedStays DEF Roleless
    <3> QED
      BY <3>3, <3>5, <3>6, <3>7 DEF Roleless
  <2>6. CASE \E row \in Row : /\ pc[r] \in {"profile", "password", "delete"} /\ Live(target[r])
                              /\ rows' = [rows EXCEPT ![target[r]] = row]
                              /\ row.roles = rows[target[r]].roles
    <3>1. ~CommitRoles(r)
      BY <2>6 DEF CommitRoles
    <3>2. DOMAIN rows' = DOMAIN rows /\ \A u \in DOMAIN rows : rows'[u].roles = rows[u].roles
      BY <2>2, <2>6, RowChange DEF Live
    <3> QED
      BY <2>4, <3>1, <3>2
  <2>7. rows' = rows \/ CommitRoles(r)
        \/ /\ pc[r] = "insert" /\ rows' = Append(rows, NewRow(arg[r]))
           /\ target'[r] = Len(rows) + 1 /\ pc'[r] = "created"
        \/ \E row \in Row : /\ pc[r] \in {"profile", "password", "delete"} /\ Live(target[r])
                            /\ rows' = [rows EXCEPT ![target[r]] = row]
                            /\ row.roles = rows[target[r]].roles
    BY TableStep
  <2>8. CASE rows' = rows
    BY <2>3, <2>4, <2>8
  <2> QED
    BY <2>3, <2>5, <2>6, <2>7, <2>8
<1>3. Roleless => RolelessOnlyAfterFailure
  BY DEF Roleless, RolelessOnlyAfterFailure, Unfinished
<1> QED
  BY <1>1, <1>2, <1>3, TypeCorrect, PTL DEF Spec

\* What a role change may do: that of a creation is about a user of its own, that
\* of an assignment has passed the check of the caller's own role.
Allowed(r) ==
  /\ pc[r] \in {"created", "begin", "clear", "link"} /\ arg[r] \in CreateArgs => target[r] \notin Callers
  /\ pc[r] \in {"begin", "clear", "link"} /\ arg[r] \in AssignArgs =>
       target[r] = arg[r].id /\ MayAssign(arg[r])
  /\ pc[r] \in {"new", "insert", "lookup"} => wrote[r] = {}

\* The request r has taken the role of u.
Takes(r, u) ==
  arg[r] # None /\ arg[r].op = "assign" /\ target[r] = u /\ arg[r].caller # u /\ "roles" \in wrote[r]

AdminsKept ==
  /\ \A r \in Reqs : Allowed(r)
  /\ \A u \in Callers : u \in DOMAIN rows /\ (Admin \in rows[u].roles \/ \E r \in Reqs : Takes(r, u))

\* A request's own step leaves it with a role change that is allowed.
LEMMA AllowedStep ==
  ASSUME TypeInv, AdminsKept, NEW r \in Reqs, Start(r) \/ Continue(r) \/ Abort(r)
  PROVE  Allowed(r)'
<1>t. /\ pc \in [Reqs -> PC] /\ arg \in [Reqs -> Args \cup {None}] /\ target \in [Reqs -> Nat]
      /\ wrote \in [Reqs -> SUBSET Commits] /\ rows \in Seq(Row)
  BY DEF TypeInv, TypeOK, Commits
<1>a. Allowed(r)
  BY DEF AdminsKept
<1>k. Task(arg[r], pc[r], target[r], tx[r], DOMAIN rows)
  BY DEF TypeInv
<1>1. CASE Start(r)
  <2>1. pc[r] = "new" /\ wrote'[r] = {}
    BY <1>1, <1>a, Moves DEF Start, Allowed
  <2>2. ASSUME NEW status, Refuse(r, status) PROVE Allowed(r)'
    <3>1. pc'[r] = "done"
      BY <1>t, <2>2 DEF Refuse
    <3> QED
      BY <3>1 DEF Allowed
  <2>3. ASSUME NEW a, NEW label, NEW u, Begin(r, a, label, u), label \notin {"created", "begin", "clear", "link"}
        PROVE Allowed(r)'
    <3>1. pc'[r] = label
      BY <1>t, <2>3 DEF Begin
    <3> QED
      BY <2>1, <2>3, <3>1 DEF Allowed
  <2>4. ASSUME NEW a \in AssignArgs, MayAssign(a), Begin(r, a, "begin", a.id) PROVE Allowed(r)'
    <3>1. pc'[r] = "begin" /\ arg'[r] = a /\ target'[r] = a.id
      BY <1>t, <2>4 DEF Begin
    <3>2. a \notin CreateArgs
      BY DEF CreateArgs, AssignArgs
    <3> QED
      BY <2>4, <3>1, <3>2 DEF Allowed
  <2> QED
    BY <1>1, <2>2, <2>3, <2>4 DEF Start, StartCreate, StartAssign, StartUpdate, StartReset, StartById, StartList
<1>2. CASE InsertUser(r)
  <2>1. pc'[r] = "done" \/ (pc'[r] = "created" /\ target'[r] = Len(rows) + 1)
    BY <1>2, <1>t DEF InsertUser, Answer, Goto
  <2>2. Len(rows) + 1 \notin DOMAIN rows
    BY <1>t
  <2>3. Len(rows) + 1 \notin Callers
    BY <2>2 DEF AdminsKept
  <2> QED
    BY <2>1, <2>3 DEF Allowed
<1>3. CASE pc[r] \in {"created", "begin", "clear", "link"}
  <2>1. arg'[r] = arg[r] /\ target'[r] = target[r]
    BY <1>3, Moves
  <2>2. pc'[r] \in {"begin", "clear", "link", "reread", "done"}
    <3>1. ReadCreated(r) \/ BeginRoles(r) \/ ClearRoles(r) \/ LinkRole(r) \/ CommitRoles(r)
          \/ DeadlockVictim(r) \/ Abort(r)
      BY <1>3 DEF Start, Continue, InsertUser, UpdateProfile, UpdatePassword, ResetLookup, SoftDelete,
                  Revoked, Reread, CountUsers, PageUsers
    <3> QED
      BY <1>3, <1>t, <3>1 DEF ReadCreated, BeginRoles, ClearRoles, LinkRole, CommitRoles, DeadlockVictim, Abort,
                              Fail, Answer, Goto
  <2>3. pc[r] = "created" => arg[r] \notin AssignArgs
    <3>1. pc[r] = "created" => arg[r] \in CreateArgs
      BY <1>k DEF Task
    <3> QED
      BY <3>1 DEF CreateArgs, AssignArgs
  <2> QED
    BY <1>3, <1>a, <2>1, <2>2, <2>3 DEF Allowed
<1>4. CASE pc[r] \notin {"new", "insert", "created", "begin", "clear", "link"}
  <2>1. pc'[r] \in {"password", "reread", "revoke", "page", "done"}
    <3>1. UpdateProfile(r) \/ UpdatePassword(r) \/ ResetLookup(r) \/ SoftDelete(r) \/ Revoked(r)
          \/ Reread(r) \/ CountUsers(r) \/ PageUsers(r) \/ DeadlockVictim(r) \/ Abort(r)
      BY <1>4 DEF Start, Continue, InsertUser, ReadCreated, BeginRoles, ClearRoles, LinkRole, CommitRoles
    <3> QED
      BY <1>t, <3>1 DEF UpdateProfile, AfterProfile, UpdatePassword, ResetLookup, SoftDelete, Revoked, Reread,
                        CountUsers, PageUsers, DeadlockVictim, Abort, Fail, Answer, Goto
  <2> QED
    BY <2>1 DEF Allowed
<1>5. CASE pc[r] = "new" \/ pc[r] = "insert"
  <2>1. Start(r) \/ InsertUser(r) \/ (pc[r] = "insert" /\ (DeadlockVictim(r) \/ Abort(r)))
    BY <1>5, SMTT(30) DEF Continue, ReadCreated, BeginRoles, ClearRoles, LinkRole, CommitRoles, DeadlockVictim, Blockers,
                UpdateProfile, UpdatePassword, ResetLookup, SoftDelete, Revoked, Reread, CountUsers, PageUsers, Abort
  <2>2. CASE DeadlockVictim(r) \/ Abort(r)
    <3>1. pc'[r] = "done"
      BY <1>t, <2>2 DEF DeadlockVictim, Abort, Fail, Answer
    <3> QED
      BY <3>1 DEF Allowed
  <2> QED
    BY <1>1, <1>2, <2>1, <2>2
<1> QED
  BY <1>3, <1>4, <1>5

\* A request that has taken a role has done so for good.
LEMMA TakesStays ==
  ASSUME TypeInv, AdminsKept, NEW r \in Reqs, Start(r) \/ Continue(r) \/ Abort(r),
         NEW s \in Reqs, NEW u, Takes(s, u)
  PROVE  Takes(s, u)'
<1>1. CASE s # r
  <2>1. arg'[s] = arg[s] /\ target'[s] = target[s] /\ wrote'[s] = wrote[s]
    BY <1>1, TypeStays DEF Others
  <2> QED
    BY <2>1 DEF Takes
<1>2. CASE s = r
  <2>1. pc[r] \notin {"new", "insert", "lookup"}
    BY <1>2 DEF Takes, AdminsKept, Allowed
  <2>2. arg'[r] = arg[r] /\ target'[r] = target[r] /\ wrote[r] \subseteq wrote'[r]
    BY <2>1, Moves
  <2> QED
    BY <1>2, <2>2 DEF Takes
<1> QED
  BY <1>1, <1>2

\* No overlap of an admin's own requests takes the admin role from it.
THEOREM AdminRoleTakenByAnotherCorrect == Spec => []AdminRoleTakenByAnother
<1>1. Init => AdminsKept
  <2> SUFFICES ASSUME Init PROVE AdminsKept
    OBVIOUS
  <2>1. \A r \in Reqs : pc[r] = "new" /\ wrote[r] = {}
    BY DEF Init
  <2> QED
    BY <2>1, InitialRowsAssumption DEF Init, AdminsKept, Allowed
<1>2. TypeInv /\ AdminsKept /\ [Next]_vars => AdminsKept'
  <2>1. TypeInv /\ AdminsKept /\ UNCHANGED vars => AdminsKept'
    BY DEF vars, locals, AdminsKept, Allowed, Takes
  <2> SUFFICES ASSUME TypeInv, AdminsKept, NEW r \in Reqs, Start(r) \/ Continue(r) \/ Abort(r)
               PROVE AdminsKept'
    BY <2>1 DEF Next
  <2>2. /\ rows \in Seq(Row) /\ \A u \in DOMAIN rows : rows[u] \in Row
        /\ DOMAIN rows = 1..Len(rows) /\ Len(rows) \in Nat
    BY DEF TypeInv, TypeOK
  <2>3. ASSUME NEW s \in Reqs PROVE Allowed(s)'
    <3>1. CASE s # r
      <4>1. /\ arg'[s] = arg[s] /\ pc'[s] = pc[s] /\ target'[s] = target[s] /\ wrote'[s] = wrote[s]
            /\ Allowed(s)
        BY <3>1, TypeStays DEF Others, AdminsKept
      <4> QED
        BY <4>1 DEF Allowed
    <3> QED
      BY <3>1, AllowedStep
  <2>4. ASSUME NEW u \in Callers
        PROVE u \in DOMAIN rows' /\ (Admin \in rows'[u].roles \/ \E s \in Reqs : Takes(s, u)')
    <3>1. u \in DOMAIN rows /\ (Admin \in rows[u].roles \/ \E s \in Reqs : Takes(s, u))
      BY DEF AdminsKept
    <3>2. u \in DOMAIN rows'
      BY <3>1, TablesGrow
    <3>3. CASE rows'[u].roles = rows[u].roles
      BY <3>1, <3>2, <3>3, TakesStays
    <3>4. CASE CommitRoles(r) /\ u = target[r]
      <4>1. /\ pc[r] = "link" /\ Wrote(r, "roles") /\ UNCHANGED <<arg, target>>
            /\ arg[r] \in AssignArgs
        <5>1. arg[r] \in CreateArgs \cup AssignArgs /\ pc[r] = "link"
          BY <3>4 DEF CommitRoles, TypeInv, Task
        <5>2. arg[r] \notin CreateArgs
          BY <3>4, <5>1 DEF AdminsKept, Allowed
        <5> QED
          BY <3>4, <5>1, <5>2 DEF CommitRoles
      <4>2. u = arg[r].id /\ MayAssign(arg[r])
        BY <3>4, <4>1 DEF AdminsKept, Allowed
      <4>3. CASE arg[r].caller = u
        <5>1. Admin \in tx[r].ins
          BY <3>4, <4>2, <4>3, CommitFacts DEF MayAssign
        <5>2. PICK R : R = (rows[u].roles \ tx[r].del) \cup tx[r].ins
          OBVIOUS
        <5>3. rows' = [rows EXCEPT ![u] = [rows[u] EXCEPT !.roles = R]]
          BY <3>4, <5>2, CommitFacts
        <5>4. rows'[u] = [rows[u] EXCEPT !.roles = R] /\ rows[u] \in Row
          BY <2>2, <3>1, <5>3
        <5>5. rows'[u].roles = R
          BY <5>4 DEF Row
        <5> QED
          BY <3>2, <5>1, <5>2, <5>5
      <4>4. CASE arg[r].caller # u
        <5>1. arg'[r] = arg[r] /\ target'[r] = u /\ "roles" \in wrote'[r]
          BY <3>4, <4>1 DEF Wrote, TypeInv, TypeOK
        <5>2. arg[r] # None
          BY <4>1, NoneAssumption DEF Args
        <5>3. arg[r].op = "assign"
          BY <4>1 DEF AssignArgs
        <5> QED
          BY <3>2, <4>4, <5>1, <5>2, <5>3 DEF Takes
      <4> QED
        BY <4>3, <4>4
    <3>5. rows'[u].roles = rows[u].roles \/ (CommitRoles(r) /\ u = target[r])
      <4>1. CASE rows' = Append(rows, NewRow(arg[r])) /\ pc[r] = "insert"
        <5>1. arg[r] \in CreateArgs
          BY <4>1 DEF TypeInv, Task
        <5>2. NewRow(arg[r]) \in Row
          BY <5>1 DEF NewRow, CreateArgs, Row
        <5> QED
          BY <2>2, <3>1, <4>1, <5>2
      <4>2. CASE CommitRoles(r) /\ u # target[r]
        <5>1. rows'[u] = rows[u]
          BY <2>2, <3>1, <4>2, CommitFacts
        <5> QED
          BY <5>1
      <4>3. CASE \E row \in Row : rows' = [rows EXCEPT ![target[r]] = row] /\ row.roles = rows[target[r]].roles
        BY <2>2, <3>1, <4>3
      <4> QED
        BY <4>1, <4>2, <4>3, TableStep
    <3> QED
      BY <3>3, <3>4, <3>5
  <2> QED
    BY <2>3, <2>4 DEF AdminsKept
<1>3. AdminsKept => AdminRoleTakenByAnother
  BY DEF AdminsKept, AdminRoleTakenByAnother, Takes
<1> QED
  BY <1>1, <1>2, <1>3, TypeCorrect, PTL DEF Spec
=============================================================================
