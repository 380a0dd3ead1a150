CONSTANTS
  MaxSize = 5
  SizeMod = 8
  MaxChunk = 3
  MaxPut = 7
SPECIFICATION FairSpec
INVARIANTS TypeOK InOrder
PROPERTIES IsByteStream ReadingEnds UnreadIsRead
CHECK_DEADLOCK FALSE
