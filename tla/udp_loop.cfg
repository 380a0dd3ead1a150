CONSTANTS
  Clients = {c1}
  Server = server
  Strangers = {q}
  MaxDatagram = 2
  MaxWrite = 2
  MaxRead = 2
  MaxSent = 2
  MaxFlight = 2
  QueueCap = 2
  Modes = {FALSE}
SPECIFICATION FairSpec
PROPERTY LoopEnds
