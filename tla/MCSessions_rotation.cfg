\* One request at a time, one ignored error.
CONSTANTS
  Users = {u1}
  Reqs = {r1}
  Jtis = {t1, t2}
  Roles = {admin}
  None = None
  TTL = 2
  Second = 1
  MaxFaults = 1
SPECIFICATION Spec
INVARIANT SpentTokenIsDeleted
