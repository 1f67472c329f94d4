\* A polite client next to two that pipeline, leave early and are sent short.
SPECIFICATION FairSpec
CONSTANTS
  polite = polite
  rude = rude
  Clients = {polite, rude}
  Polite = {polite}
  MaxUnits = 3
  BufSize = 2
  Room = 2
  ShortSends = TRUE
INVARIANTS TypeOK EchoInOrder PoliteLoseNothing DownOnlyByUnsentReply
PROPERTIES PoliteAreServed ImplementsEcho
CHECK_DEADLOCK FALSE
