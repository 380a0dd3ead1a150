CONSTANTS
  Threads = {t1, t2}
  Slots <- Pair
  SlotType <- Pairs
  Kinds = {"file", "udp_socket"}
  MaxFd = 2
  Inherited = {0}
  MaxAddrs = 1
  CallerClears = FALSE
  Faults = {"open", "socket", "io"}
SPECIFICATION FairSpec
INVARIANTS ObjectsOwn StrangersKept
PROPERTIES Undisturbed CallsAdvance CallsReturn
