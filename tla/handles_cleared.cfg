CONSTANTS
  Threads = {t1, t2}
  Slots <- EveryType
  SlotType <- EveryTypes
  Kinds = {"file", "local_socket", "local_server", "tcp_socket", "tcp_server", "udp_socket", "udp_server"}
  MaxFd = 2
  Inherited = {0}
  MaxAddrs = 1
  CallerClears = TRUE
  Faults = {"open", "socket", "connect", "bind", "listen", "accept", "io"}
SPECIFICATION Spec
INVARIANTS TypeOK Exclusive NoLeak Ready
PROPERTIES Undisturbed IsOwnership
SYMMETRY ThreadSymmetry
