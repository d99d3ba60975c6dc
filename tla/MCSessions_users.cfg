\* Two users whose roles change and who are deleted while requests are served, with
\* tokens that never expire (REFRESH_TOKEN_TTL=0s) and one failure.
CONSTANTS
  Users = {u1, u2}
  Reqs = {r1, r2}
  Jtis = {t1, t2}
  Roles = {admin, viewer}
  None = None
  TTL = 0
  Second = 1
  MaxFaults = 1
SPECIFICATION Spec
SYMMETRY Symmetry
INVARIANTS
  FreshGrant
  IndexHoldsOwnTokens
PROPERTIES
  OnlyHolderEndsSession
  DeletedUserOnlyLosesSessions
  ImplementsContract
