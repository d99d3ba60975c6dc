---------------------------- MODULE TokenContract ----------------------------
(***************************************************************************)
(* What korauth promises about a refresh token, as its clients see it: it  *)
(* is minted for one user, handed to one client, works until it ends and   *)
(* never works again after that; and it does end.  There are no requests,  *)
(* no index and no stores here: Sessions implements this with all of them. *)
(***************************************************************************)
CONSTANTS
  Tokens,     \* values a refresh token can have
  Users,      \* user ids
  None        \* no user

VARIABLES
  phase,      \* where each token is in its life
  holder,     \* the user each token stands for, None before it is minted
  given,      \* tokens handed to a client
  closed      \* tokens whose logout was confirmed to the client

vars == <<phase, holder, given, closed>>

Init ==
  /\ phase = [t \in Tokens |-> "unborn"]
  /\ holder = [t \in Tokens |-> None]
  /\ given = {}
  /\ closed = {}

\* Minting is repeated when the store's answer is lost, for the same user; a token
\* that ended meanwhile works then, but only as long as no client has seen it.
Mint(t, u) ==
  /\ \/ phase[t] = "unborn"
     \/ phase[t] = "dead" /\ t \notin given /\ holder[t] = u
  /\ phase' = [phase EXCEPT ![t] = "live"]
  /\ holder' = [holder EXCEPT ![t] = u]
  /\ UNCHANGED <<given, closed>>

\* The token may have ended on the way to its client.
Give(t) ==
  /\ phase[t] # "unborn"
  /\ t \notin given
  /\ given' = given \cup {t}
  /\ UNCHANGED <<phase, holder, closed>>

\* Tokens end by exchange, logout, revocation or expiry, several at once when
\* time passes.
End(ends) ==
  /\ \A t \in ends : phase[t] = "live"
  /\ phase' = [t \in Tokens |-> IF t \in ends THEN "dead" ELSE phase[t]]
  /\ UNCHANGED <<holder, given, closed>>

\* A logout is confirmed: the token has ended, now or before.
Close(t) ==
  /\ t \in given
  /\ phase' = [phase EXCEPT ![t] = "dead"]
  /\ closed' = closed \cup {t}
  /\ UNCHANGED <<holder, given>>

Next ==
  \/ \E t \in Tokens : Give(t) \/ Close(t) \/ \E u \in Users : Mint(t, u)
  \/ \E ends \in SUBSET Tokens : End(ends)

Spec == Init /\ [][Next]_vars

\* No token lives for ever.
TokensEnd == \A t \in Tokens : phase[t] = "live" ~> phase[t] = "dead"
=============================================================================
