--------------------------- MODULE LockoutProofs ----------------------------
(***************************************************************************)
(* Proofs about Lockout, for every limit, window, number of accounts and   *)
(* number of logins served at once, and any number of failures.            *)
(***************************************************************************)
EXTENDS Lockout, FiniteSetTheorems, TLAPS

\* Every step of a request, as the locations its pc goes through.
LEMMA PCType == \A l \in {"idle", "check", "verify", "clear", "incr", "expire"} : l \in PC
  BY DEF PC

\* The type invariant is inductive.
LEMMA TypeStays == TypeOK /\ [Next]_vars => TypeOK'
<1> SUFFICES ASSUME TypeOK, [Next]_vars PROVE TypeOK'
  OBVIOUS
<1> USE PCType DEF TypeOK
<1>1. ASSUME NEW r \in Reqs, NEW k \in Keys, Start(r, k) PROVE TypeOK'
  BY <1>1 DEF Start, stores, faults
<1>2. ASSUME NEW r \in Reqs, Check(r) \/ Verify(r) PROVE TypeOK'
  BY <1>2 DEF Check, Verify, Goto, Finish, stores, faults
<1>3. ASSUME NEW r \in Reqs, Clear(r) PROVE TypeOK'
  BY <1>3, LimitAssumption DEF Clear, Finish, faults
<1>4. ASSUME NEW r \in Reqs, Incr(r) PROVE TypeOK'
  BY <1>4 DEF Incr, Goto, Finish, faults
<1>5. ASSUME NEW r \in Reqs, Expire(r) PROVE TypeOK'
  BY <1>5, LimitAssumption DEF Expire, Finish, faults
<1>6. ASSUME NEW r \in Reqs, SkipCall(r) PROVE TypeOK'
  BY <1>6, BoundsAssumption DEF SkipCall, Finish
<1>10. ASSUME NEW r \in Reqs, RetriedIncr(r) PROVE TypeOK'
  BY <1>10, BoundsAssumption DEF RetriedIncr, Finish
<1>7. ASSUME NEW r \in Reqs, Abort(r) PROVE TypeOK'
  BY <1>7, BoundsAssumption DEF Abort, Finish, stores
<1>8. CASE Tick
  BY <1>8, LimitAssumption DEF Tick, faults
<1>9. CASE UNCHANGED vars
  BY <1>9 DEF vars, stores, faults
<1> QED
  BY <1>1, <1>2, <1>3, <1>4, <1>5, <1>6, <1>7, <1>8, <1>9, <1>10 DEF Next, Continue

\* The state stays within its types.
THEOREM TypeCorrect == Spec => []TypeOK
<1>1. Init => TypeOK
  BY LimitAssumption, BoundsAssumption, PCType DEF Init, TypeOK
<1> QED
  BY <1>1, TypeStays, PTL DEF Spec

-----------------------------------------------------------------------------
(* The overshoot *)

\* Logins that passed the check and may still count a failure.
InFlight(k) == {r \in Reqs : pc[r] \in {"verify", "incr"} /\ key[r] = k}

\* A failure that is counted was in flight before, and only logins that found
\* the counter below the limit come in flight.
Bounded == \A k \in Keys : count[k] + Cardinality(InFlight(k)) <= Limit - 1 + Cardinality(Reqs) + skips

\* The number of logins served at once is a number.
LEMMA ReqsCount == Cardinality(Reqs) \in Nat
  BY ReqsAssumption, FS_CardinalityType

\* How many logins are in flight, before and after one of them moves.
LEMMA InFlightCount ==
  ASSUME NEW S \in SUBSET Reqs, NEW T \in SUBSET Reqs
  PROVE  /\ Cardinality(S) \in Nat /\ Cardinality(S) <= Cardinality(Reqs)
         /\ S \subseteq T => Cardinality(S) <= Cardinality(T)
         /\ \A r \in T : S = T \ {r} => Cardinality(S) = Cardinality(T) - 1
<1>1. IsFiniteSet(S) /\ IsFiniteSet(T)
  BY ReqsAssumption, FS_Subset
<1> QED
  BY <1>1, ReqsAssumption, FS_Subset, FS_CardinalityType, FS_RemoveElement

\* No step takes the counted and the coming failures past the bound.
LEMMA BoundedStays == TypeOK /\ Bounded /\ [Next]_vars => Bounded'
<1> SUFFICES ASSUME TypeOK, Bounded, [Next]_vars, NEW k \in Keys
             PROVE  count'[k] + Cardinality(InFlight(k)') <= Limit - 1 + Cardinality(Reqs) + skips'
  BY DEF Bounded
<1>0. /\ count \in [Keys -> Nat] /\ count'[k] \in Nat
      /\ InFlight(k) \in SUBSET Reqs /\ InFlight(k)' \in SUBSET Reqs
      /\ count[k] + Cardinality(InFlight(k)) <= Limit - 1 + Cardinality(Reqs) + skips
      /\ Cardinality(Reqs) \in Nat /\ Limit \in Nat
      /\ pc \in [Reqs -> PC] /\ key \in [Reqs -> Keys \cup {None}]
      /\ skips \in Nat /\ skips' \in Nat
  BY TypeStays, ReqsCount, LimitAssumption, BoundsAssumption DEF TypeOK, Bounded, InFlight
<1>r. skips' >= skips
  BY <1>0, BoundsAssumption
  DEF Next, Continue, Start, Check, Verify, Clear, Incr, Expire, SkipCall, RetriedIncr, Abort,
      Tick, vars, faults
<1>1. ASSUME count'[k] <= count[k], InFlight(k)' \subseteq InFlight(k)
      PROVE  count'[k] + Cardinality(InFlight(k)') <= Limit - 1 + Cardinality(Reqs) + skips'
  BY <1>0, <1>r, <1>1, InFlightCount
<1>2. ASSUME count'[k] < Limit
      PROVE  count'[k] + Cardinality(InFlight(k)') <= Limit - 1 + Cardinality(Reqs) + skips'
  BY <1>0, <1>2, InFlightCount
<1>3. ASSUME NEW r \in Reqs, NEW j \in Keys, Start(r, j)
      PROVE  count'[k] <= count[k] /\ InFlight(k)' \subseteq InFlight(k)
  BY <1>0, <1>3 DEF Start, InFlight, stores
<1>4. ASSUME NEW r \in Reqs, Check(r)
      PROVE  \/ count'[k] < Limit
             \/ count'[k] <= count[k] /\ InFlight(k)' \subseteq InFlight(k)
  <2>1. CASE key[r] = k /\ ~Locked(k)
    BY <1>0, <1>4, <2>1 DEF Check, Locked, stores
  <2>2. CASE ~(key[r] = k /\ ~Locked(k))
    BY <1>0, <1>4, <2>2 DEF Check, Goto, Finish, InFlight, stores
  <2> QED
    BY <2>1, <2>2
<1>5. ASSUME NEW r \in Reqs, Verify(r) \/ Clear(r) \/ Expire(r) \/ Abort(r)
      PROVE  count'[k] <= count[k] /\ InFlight(k)' \subseteq InFlight(k)
  BY <1>0, <1>5 DEF Verify, Clear, Expire, Abort, Goto, Finish, InFlight, stores
<1>6. ASSUME NEW r \in Reqs, pc[r] = "incr", count' = [count EXCEPT ![key[r]] = @ + 1],
             pc'[r] \notin {"verify", "incr"}, key' = key \/ key' = [key EXCEPT ![r] = None],
             \A s \in Reqs \ {r} : pc'[s] = pc[s]
      PROVE  count'[k] + Cardinality(InFlight(k)') <= Limit - 1 + Cardinality(Reqs) + skips'
  <2>1. CASE key[r] = k
    <3>1. InFlight(k)' = InFlight(k) \ {r} /\ r \in InFlight(k)
      BY <1>0, <1>6, <2>1 DEF InFlight
    <3>2. count'[k] = count[k] + 1
      BY <1>0, <1>6, <2>1
    <3>3. Cardinality(InFlight(k)') = Cardinality(InFlight(k)) - 1
      BY <1>0, <3>1, InFlightCount
    <3> QED
      BY <1>0, <1>r, <3>2, <3>3, InFlightCount
  <2>2. CASE key[r] # k
    <3>1. InFlight(k)' \subseteq InFlight(k) /\ count'[k] = count[k]
      BY <1>0, <1>6, <2>2 DEF InFlight
    <3> QED
      BY <1>0, <1>1, <3>1
  <2> QED
    BY <2>1, <2>2
<1>7. ASSUME NEW r \in Reqs, Incr(r)
      PROVE  count'[k] + Cardinality(InFlight(k)') <= Limit - 1 + Cardinality(Reqs) + skips'
  BY <1>0, <1>6, <1>7 DEF Incr, Goto, Finish
<1>8. ASSUME NEW r \in Reqs, SkipCall(r)
      PROVE  count'[k] + Cardinality(InFlight(k)') <= Limit - 1 + Cardinality(Reqs) + skips'
  <2>1. CASE UNCHANGED count
    <3>1. count'[k] <= count[k] /\ InFlight(k)' \subseteq InFlight(k)
      BY <1>0, <1>8, <2>1 DEF SkipCall, Finish, InFlight
    <3> QED
      BY <1>1, <3>1
  <2>2. CASE pc[r] = "incr" /\ count' = [count EXCEPT ![key[r]] = @ + 1]
    BY <1>0, <1>6, <1>8, <2>2 DEF SkipCall, Finish
  <2> QED
    BY <1>8, <2>1, <2>2 DEF SkipCall
<1>11. ASSUME NEW r \in Reqs, RetriedIncr(r)
       PROVE  count'[k] + Cardinality(InFlight(k)') <= Limit - 1 + Cardinality(Reqs) + skips'
  <2>1. CASE key[r] = k
    <3>1. InFlight(k)' = InFlight(k) \ {r} /\ r \in InFlight(k)
      BY <1>0, <1>11, <2>1 DEF InFlight, RetriedIncr, Finish
    <3>2. count'[k] = count[k] + 2 /\ skips' = skips + 1
      BY <1>0, <1>11, <2>1 DEF RetriedIncr, TypeOK
    <3>3. Cardinality(InFlight(k)') = Cardinality(InFlight(k)) - 1
      BY <1>0, <3>1, InFlightCount
    <3> QED
      BY <1>0, <3>2, <3>3, InFlightCount
  <2>2. CASE key[r] # k
    <3>1. InFlight(k)' \subseteq InFlight(k) /\ count'[k] <= count[k]
      BY <1>0, <1>11, <2>2 DEF InFlight, RetriedIncr, Finish
    <3> QED
      BY <1>1, <3>1
  <2> QED
    BY <2>1, <2>2
<1>9. CASE Tick
  <2>1. count'[k] <= count[k] /\ InFlight(k)' \subseteq InFlight(k)
    BY <1>0, <1>9 DEF Tick, InFlight
  <2> QED
    BY <1>1, <2>1
<1>10. CASE UNCHANGED vars
  <2>1. count'[k] <= count[k] /\ InFlight(k)' \subseteq InFlight(k)
    BY <1>0, <1>10 DEF vars, stores, InFlight
  <2> QED
    BY <1>1, <2>1
<1> QED
  BY <1>1, <1>2, <1>3, <1>4, <1>5, <1>7, <1>8, <1>9, <1>10, <1>11
  DEF Next, Continue

\* Failures that overlap pass the limit by less than the logins served at once,
\* plus one for each INCR sent twice.
THEOREM OvershootBoundCorrect == Spec => []OvershootBound
<1>1. Init => Bounded
  <2> SUFFICES ASSUME Init, NEW k \in Keys
               PROVE  count[k] + Cardinality(InFlight(k)) <= Limit - 1 + Cardinality(Reqs) + skips
    BY DEF Bounded
  <2>1. InFlight(k) = {} /\ count[k] = 0
    BY DEF Init, InFlight
  <2> QED
    BY <2>1, FS_EmptySet, ReqsCount, LimitAssumption DEF Init
<1>2. TypeOK /\ Bounded => OvershootBound
  <2> SUFFICES ASSUME TypeOK, Bounded, NEW k \in Keys
               PROVE  count[k] <= Limit - 1 + Cardinality(Reqs) + skips
    BY DEF OvershootBound
  <2>1. Cardinality(InFlight(k)) \in Nat
    BY InFlightCount DEF InFlight
  <2> QED
    BY <2>1, ReqsCount, LimitAssumption, BoundsAssumption DEF TypeOK, Bounded
<1> QED
  BY <1>1, <1>2, BoundedStays, TypeCorrect, PTL DEF Spec

-----------------------------------------------------------------------------
(* The expiry of the counters *)

\* While nothing fails, a counter that does not expire has the request that
\* created it still before its EXPIRE.
THEOREM CounterWillExpireCorrect == Spec => []CounterWillExpire
<1>1. Init => CounterWillExpire
  BY DEF Init, CounterWillExpire
<1>2. TypeOK /\ CounterWillExpire /\ [Next]_vars => CounterWillExpire'
  <2> SUFFICES ASSUME TypeOK, CounterWillExpire, [Next]_vars, NoFaults',
                      NEW k \in Keys, count'[k] > 0, life'[k] = 0
               PROVE  \E r \in Reqs : pc'[r] = "expire" /\ key'[r] = k
    BY DEF CounterWillExpire
  <2> USE DEF TypeOK
  <2>1. NoFaults /\ \A r \in Reqs : ~SkipCall(r) /\ ~RetriedIncr(r) /\ ~Abort(r)
    BY BoundsAssumption
    DEF NoFaults, Next, Continue, Start, Check, Verify, Clear, Incr, Expire, Tick, SkipCall,
        RetriedIncr, Abort, vars, faults
  <2>2. ASSUME count[k] > 0, life[k] = 0, \A r \in Reqs : pc[r] = "expire" =>
                                            pc'[r] = pc[r] /\ key'[r] = key[r]
        PROVE  \E r \in Reqs : pc'[r] = "expire" /\ key'[r] = k
    BY <2>1, <2>2 DEF CounterWillExpire
  <2>3. ASSUME NEW r \in Reqs, NEW j \in Keys, Start(r, j)
        PROVE  \E s \in Reqs : pc'[s] = "expire" /\ key'[s] = k
    BY <2>2, <2>3 DEF Start, stores
  <2>4. ASSUME NEW r \in Reqs, Check(r) \/ Verify(r)
        PROVE  \E s \in Reqs : pc'[s] = "expire" /\ key'[s] = k
    BY <2>2, <2>4 DEF Check, Verify, Goto, Finish, stores
  <2>5. ASSUME NEW r \in Reqs, Clear(r)
        PROVE  \E s \in Reqs : pc'[s] = "expire" /\ key'[s] = k
    <3>1. key[r] # k
      BY <2>5 DEF Clear
    <3> QED
      BY <2>2, <2>5, <3>1 DEF Clear, Finish
  <2>6. ASSUME NEW r \in Reqs, Incr(r)
        PROVE  \E s \in Reqs : pc'[s] = "expire" /\ key'[s] = k
    <3>1. CASE key[r] = k /\ count[k] = 0
      BY <2>6, <3>1 DEF Incr, Goto
    <3>2. CASE ~(key[r] = k /\ count[k] = 0)
      <4>1. count[k] > 0 /\ life[k] = 0
        BY <2>6, <3>2 DEF Incr
      <4> QED
        BY <2>2, <2>6, <4>1 DEF Incr, Goto, Finish
    <3> QED
      BY <3>1, <3>2
  <2>7. ASSUME NEW r \in Reqs, Expire(r)
        PROVE  \E s \in Reqs : pc'[s] = "expire" /\ key'[s] = k
    <3>1. key[r] # k
      BY <2>7, LimitAssumption DEF Expire
    <3>2. count[k] > 0 /\ life[k] = 0
      BY <2>7, <3>1 DEF Expire
    <3>3. PICK s \in Reqs : pc[s] = "expire" /\ key[s] = k
      BY <2>1, <3>2 DEF CounterWillExpire
    <3> QED
      BY <2>7, <3>1, <3>3 DEF Expire, Finish
  <2>8. CASE Tick
    BY <2>2, <2>8, LimitAssumption DEF Tick
  <2>9. CASE UNCHANGED vars
    BY <2>2, <2>9 DEF vars, stores
  <2> QED
    BY <2>1, <2>3, <2>4, <2>5, <2>6, <2>7, <2>8, <2>9 DEF Next, Continue
<1> QED
  BY <1>1, <1>2, TypeCorrect, PTL DEF Spec
=============================================================================
