CONSTANTS
  Byte = {a}
  Capacity = 1
  MaxMessage = 2
  MaxRead = 1
  MaxSent = 2
  IntMax = 7
  Interrupts = FALSE
  Breaks = FALSE
SPECIFICATION WriterSpec
PROPERTIES NonBlockingReturns
CHECK_DEADLOCK FALSE
