\* The limit of the code, three logins at once, one failure of each kind.
CONSTANTS
  Reqs = {r1, r2, r3}
  Keys = {k1}
  None = None
  Limit = 5
  Window = 2
  MaxSkips = 1
  MaxAborts = 1
SPECIFICATION FairSpec
INVARIANTS
  TypeOK
  OvershootBound
  CounterWillExpire
PROPERTY LockOpens
