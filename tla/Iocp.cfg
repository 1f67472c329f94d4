\* Two clients that send, leave and reset as they like.
SPECIFICATION FairSpec
CONSTANTS
  c1 = c1
  c2 = c2
  Clients = {c1, c2}
  MaxUnits = 3
  BufSize = 2
INVARIANTS TypeOK OneOperation OneAccept EchoIsPrefix DownOnlyByReset
PROPERTIES FirstUnitEchoed ImplementsEcho
CHECK_DEADLOCK FALSE
