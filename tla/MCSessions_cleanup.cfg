\* A login overlaps the deletion of its user, nothing fails.
CONSTANTS
  Users = {u1}
  Reqs = {r1, r2}
  Jtis = {t1}
  Roles = {admin}
  None = None
  TTL = 2
  Second = 1
  MaxFaults = 0
SPECIFICATION Spec
INVARIANT DeletedUserHasNoTokens
