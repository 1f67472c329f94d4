\* One client that sends a message and closes its side before the reply.
SPECIFICATION Spec
CONSTANTS
  rude = rude
  Clients = {rude}
  Polite = {}
  MaxUnits = 1
  BufSize = 1
  Room = 1
  ShortSends = FALSE
INVARIANT SendsOnLiveConnections
CHECK_DEADLOCK FALSE
