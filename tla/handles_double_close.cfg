CONSTANTS
  Threads = {t1, t2}
  Slots <- Pair
  SlotType <- Pairs
  Kinds = {"file", "tcp_socket"}
  MaxFd = 2
  Inherited = {0}
  MaxAddrs = 1
  CallerClears = FALSE
  Faults = {"connect"}
SPECIFICATION Spec
PROPERTIES Undisturbed
SYMMETRY ThreadSymmetry
