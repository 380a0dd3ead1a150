CONSTANTS
  Clients = {c1, c2}
  Server = server
  Strangers = {q}
  MaxDatagram = 2
  MaxWrite = 2
  MaxRead = 2
  MaxSent = 2
  MaxFlight = 2
  QueueCap = 2
  Modes = {TRUE, FALSE}
SPECIFICATION FairSpec
INVARIANTS TypeOK Whole TargetsKept
PROPERTIES QueuedIsRead PollEnds
