CONSTANTS
  Threads = {t1, t2}
  Slots <- Pair
  SlotType <- Pairs
  Kinds = {"tcp_socket"}
  MaxFd = 1
  Inherited = {0}
  MaxAddrs = 2
  CallerClears = TRUE
  Faults = {}
SPECIFICATION FairSpec
PROPERTIES CallsReturn
