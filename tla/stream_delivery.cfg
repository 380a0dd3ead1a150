CONSTANTS
  Byte = {a, b}
  Capacity = 2
  MaxMessage = 3
  MaxRead = 2
  MaxSent = 4
  IntMax = 7
  Interrupts = TRUE
  Breaks = TRUE
SPECIFICATION FairSpec
INVARIANTS TypeOK NothingLost WriteCounts ZeroIsEnd PendingMeansData
PROPERTIES IsByteStream WritesReturn AllArrives
CHECK_DEADLOCK FALSE
