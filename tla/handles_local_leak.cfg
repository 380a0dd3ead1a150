CONSTANTS
  Threads = {t1, t2}
  Slots <- Pair
  SlotType <- Pairs
  Kinds = {"local_socket"}
  MaxFd = 2
  Inherited = {0}
  MaxAddrs = 1
  CallerClears = TRUE
  Faults = {"local connect"}
SPECIFICATION Spec
INVARIANTS NoLeak
SYMMETRY ThreadSymmetry
