\* Progress under fairness, with one failure of any kind.
CONSTANTS
  Users = {u1}
  Reqs = {r1, r2}
  Jtis = {t1, t2}
  Roles = {admin}
  None = None
  TTL = 2
  Second = 1
  MaxFaults = 1
SPECIFICATION FairSpec
PROPERTY EveryTokenEnds
