\* Failures spread over the window.
CONSTANTS
  Reqs = {r1}
  Keys = {k1}
  None = None
  Limit = 2
  Window = 2
  MaxSkips = 0
  MaxAborts = 0
SPECIFICATION Spec
PROPERTY LockLastsWindow
