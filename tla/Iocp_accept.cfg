\* One client that connects and resets its connection at once.
SPECIFICATION Spec
CONSTANTS
  c1 = c1
  Clients = {c1}
  MaxUnits = 1
  BufSize = 1
INVARIANT AlwaysAccepting
CHECK_DEADLOCK FALSE
