\* Two requests at a time, three tokens of one user, one failure of any kind,
\* a lifetime of one second and a half.
CONSTANTS
  Users = {u1}
  Reqs = {r1, r2}
  Jtis = {t1, t2, t3}
  Roles = {admin}
  None = None
  TTL = 3
  Second = 2
  MaxFaults = 1
SPECIFICATION Spec
SYMMETRY Symmetry
INVARIANTS
  TypeOK
  LogoutIsFinal
  SpentTokenIsDead
  IssuedTokenIsIndexed
  IndexOutlivesTokens
  DeleteRevokesEarlierTokens
  IndexHasExpiry
PROPERTY OnlyHolderEndsSession
