\* Two refreshes of one token, nothing fails.
CONSTANTS
  Users = {u1}
  Reqs = {r1,r2}
  Jtis = {t1, t2, t3}
  Roles = {admin}
  None = None
  TTL = 2
  Second = 1
  MaxFaults = 0
SPECIFICATION Spec
PROPERTY SingleUse
