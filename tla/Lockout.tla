------------------------------ MODULE Lockout -------------------------------
(***************************************************************************)
(* The brute-force counter of AuthService.Login and incBrute               *)
(* (internal/service/auth.go): one Redis key brute:<tenant>:<username> per *)
(* account name, read before the password is looked at and incremented or  *)
(* deleted after, by requests that interleave at every Redis call.  What a *)
(* successful login does next is in Sessions.                              *)
(***************************************************************************)
EXTENDS Integers, FiniteSets

CONSTANTS
  Reqs,       \* login requests served at once: a bound, and a limit that matters
  Keys,       \* (tenant, username) pairs
  None,       \* no key
  Limit,      \* bruteForceLimit, 5 in the code
  Window,     \* bruteForceTTL in ticks, 15 minutes in the code
  MaxSkips,   \* bound on the ignored errors and the calls sent twice
  MaxAborts   \* bound on the requests that end early

ASSUME ReqsAssumption == IsFiniteSet(Reqs)
ASSUME LimitAssumption == Limit \in Nat \ {0} /\ Window \in Nat \ {0}
ASSUME BoundsAssumption == MaxSkips \in Nat /\ MaxAborts \in Nat
ASSUME NoneAssumption == None \notin Keys

VARIABLES
  count,      \* Redis: value of each counter, 0 when the key is missing
  life,       \* Redis: remaining life of each counter, 0 when it has no expiry
  pc,         \* what each request does next
  key,        \* the account each request tries to log in to
  skips,      \* ignored errors and calls sent twice so far
  aborts      \* aborted requests so far

stores == <<count, life>>
faults == <<skips, aborts>>
vars == <<stores, pc, key, faults>>

PC == {"idle", "check", "verify", "clear", "incr", "expire"}

Init ==
  /\ count = [k \in Keys |-> 0]
  /\ life = [k \in Keys |-> 0]
  /\ pc = [r \in Reqs |-> "idle"]
  /\ key = [r \in Reqs |-> None]
  /\ skips = 0
  /\ aborts = 0

Locked(k) == count[k] >= Limit

NoFaults == skips = 0 /\ aborts = 0

Goto(r, label) ==
  /\ pc' = [pc EXCEPT ![r] = label]
  /\ UNCHANGED key

Finish(r) ==
  /\ pc' = [pc EXCEPT ![r] = "idle"]
  /\ key' = [key EXCEPT ![r] = None]

-----------------------------------------------------------------------------
(* Steps of a login *)

Start(r, k) ==
  /\ pc[r] = "idle"
  /\ pc' = [pc EXCEPT ![r] = "check"]
  /\ key' = [key EXCEPT ![r] = k]
  /\ UNCHANGED <<stores, faults>>

\* Variant with a bug: the counter is compared with > in place of >=.
CheckLate(r) ==
  /\ pc[r] = "check"
  /\ \/ /\ count[key[r]] <= Limit
        /\ Goto(r, "verify")
     \/ /\ count[key[r]] > Limit
        /\ Finish(r)
  /\ UNCHANGED <<stores, faults>>

\* GET of the counter; a locked account is refused with ErrAccountLocked.
Check(r) ==
  /\ pc[r] = "check"
  /\ \/ /\ ~Locked(key[r])
        /\ Goto(r, "verify")
     \/ /\ Locked(key[r])
        /\ Finish(r)
  /\ UNCHANGED <<stores, faults>>

\* The user is looked up and the password verified: the outcome is the client's.
Verify(r) ==
  /\ pc[r] = "verify"
  /\ \E outcome \in {"clear", "incr"} : Goto(r, outcome)
  /\ UNCHANGED <<stores, faults>>

\* DEL of the counter after the right password.
Clear(r) ==
  /\ pc[r] = "clear"
  /\ count' = [count EXCEPT ![key[r]] = 0]
  /\ life' = [life EXCEPT ![key[r]] = 0]
  /\ Finish(r)
  /\ UNCHANGED faults

\* Variant with a bug: the expiry is set by the second failure.
IncrSecond(r) ==
  /\ pc[r] = "incr"
  /\ count' = [count EXCEPT ![key[r]] = @ + 1]
  /\ IF count[key[r]] = 1 THEN Goto(r, "expire") ELSE Finish(r)
  /\ UNCHANGED <<life, faults>>

\* Variant with a bug: the answer of INCR is taken for the value before it.
IncrZero(r) ==
  /\ pc[r] = "incr"
  /\ count' = [count EXCEPT ![key[r]] = @ + 1]
  /\ IF count'[key[r]] = 0 THEN Goto(r, "expire") ELSE Finish(r)
  /\ UNCHANGED <<life, faults>>

\* INCR; only the request that created the key goes on to set its expiry.
Incr(r) ==
  /\ pc[r] = "incr"
  /\ count' = [count EXCEPT ![key[r]] = @ + 1]
  /\ IF count[key[r]] = 0 THEN Goto(r, "expire") ELSE Finish(r)
  /\ UNCHANGED <<life, faults>>

\* Variant with a bug: EXPIRE with no look at the key leaves its life behind.
ExpireMissing(r) ==
  /\ pc[r] = "expire"
  /\ life' = [life EXCEPT ![key[r]] = @ + Window]
  /\ Finish(r)
  /\ UNCHANGED <<count, faults>>

\* EXPIRE, which does nothing to a key that has gone in the meantime.
Expire(r) ==
  LET k == key[r] IN
  /\ pc[r] = "expire"
  /\ life' = [life EXCEPT ![k] = IF count[k] = 0 THEN 0 ELSE Window]
  /\ Finish(r)
  /\ UNCHANGED <<count, faults>>

-----------------------------------------------------------------------------
(* Time and failures *)

Tick ==
  /\ count' = [k \in Keys |-> IF life[k] = 1 THEN 0 ELSE count[k]]
  /\ life' = [k \in Keys |-> IF life[k] = 0 THEN 0 ELSE life[k] - 1]
  /\ UNCHANGED <<pc, key, faults>>

\* The errors of DEL, INCR and EXPIRE are dropped.  A failed INCR answers 0,
\* whether Redis executed it or not, so no EXPIRE follows.
SkipCall(r) ==
  /\ skips < MaxSkips
  /\ pc[r] \in {"clear", "incr", "expire"}
  /\ \/ UNCHANGED count
     \/ pc[r] = "incr" /\ count' = [count EXCEPT ![key[r]] = @ + 1]
  /\ Finish(r)
  /\ skips' = skips + 1
  /\ UNCHANGED <<life, aborts>>

\* The reply of an INCR is lost and the Redis client sends it again, as it does
\* by default after a network error: a failure counts twice, and the code sees
\* only the second answer.
RetriedIncr(r) ==
  /\ skips < MaxSkips
  /\ pc[r] = "incr"
  /\ count' = [count EXCEPT ![key[r]] = @ + 2]
  /\ Finish(r)
  /\ skips' = skips + 1
  /\ UNCHANGED <<life, aborts>>

\* A checked call fails, the context is cancelled or the replica crashes.
Abort(r) ==
  /\ aborts < MaxAborts
  /\ pc[r] # "idle"
  /\ Finish(r)
  /\ aborts' = aborts + 1
  /\ UNCHANGED <<stores, skips>>

Continue(r) == Check(r) \/ Verify(r) \/ Clear(r) \/ Incr(r) \/ Expire(r)

Next ==
  \/ \E r \in Reqs :
       \/ \E k \in Keys : Start(r, k)
       \/ Continue(r)
       \/ SkipCall(r) \/ RetriedIncr(r)
       \/ Abort(r)
  \/ Tick

Spec == Init /\ [][Next]_vars

\* A login that has begun goes on, and time passes.
FairSpec == Spec /\ (\A r \in Reqs : WF_vars(Continue(r))) /\ WF_vars(Tick)

-----------------------------------------------------------------------------
(* Properties *)

TypeOK ==
  /\ count \in [Keys -> Nat]
  /\ life \in [Keys -> 0..Window]
  /\ pc \in [Reqs -> PC]
  /\ key \in [Reqs -> Keys \cup {None}]
  /\ \A r \in Reqs : pc[r] # "idle" => key[r] \in Keys
  /\ skips \in 0..MaxSkips
  /\ aborts \in 0..MaxAborts

\* The check and the increment are two calls, so failures that overlap can pass
\* the limit: by one for each other request in progress and each INCR sent twice,
\* however requests, expiries, successful logins and failures fall (auth.go:50-73).
OvershootBound == \A k \in Keys : count[k] <= Limit - 1 + Cardinality(Reqs) + skips

\* A counter without an expiry has a request about to set it: no lock can last
\* for ever while nothing fails (auth.go:191-196).
CounterWillExpire ==
  NoFaults =>
    \A k \in Keys : count[k] > 0 /\ life[k] = 0 =>
      \E r \in Reqs : pc[r] = "expire" /\ key[r] = k

\* A lock opens by itself while nothing fails, whatever logins are under way
\* when it is reached (auth.go:54-56, 191-196).
LockOpens ==
  \A k \in Keys : (Locked(k) /\ NoFaults) ~> (~Locked(k) \/ ~NoFaults)

-----------------------------------------------------------------------------
(* What the documents say and the program does not do *)

\* api/openapi.yaml: "the account is locked for 15 minutes".  When the limit is
\* reached, the lock has the whole window before it.
LockLastsWindow ==
  [][\A k \in Keys : ~Locked(k) /\ Locked(k)' => life'[k] = Window]_vars

\* docs/TOKEN.md 6: "Lock duration 15 min, Auto unlock".  Every lock opens, also
\* when a request stops between INCR and EXPIRE (auth.go:192-194).
AutoUnlock == \A k \in Keys : Locked(k) ~> ~Locked(k)
=============================================================================
