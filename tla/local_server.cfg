CONSTANTS
  Servers = {s1, s2, s3}
  Clients = {c1, c2}
  NonBlocking = {c2}
  Backlog = 0
  CallerClears = TRUE
  Faults = {"bind", "listen", "accept"}
SPECIFICATION FairSpec
INVARIANTS TypeOK UndisturbedServes
PROPERTIES TurnedAwayRightly IsRendezvous ServedOrTold
