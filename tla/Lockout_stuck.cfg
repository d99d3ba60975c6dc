\* A login may stop between INCR and EXPIRE.
CONSTANTS
  Reqs = {r1}
  Keys = {k1}
  None = None
  Limit = 2
  Window = 2
  MaxSkips = 0
  MaxAborts = 1
SPECIFICATION FairSpec
PROPERTY AutoUnlock
