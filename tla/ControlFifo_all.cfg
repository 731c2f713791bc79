SPECIFICATION FairSpec
CONSTANTS
  Writers = {x1, x2, x3}
  LineLen = 3
  Chunk = 4
INVARIANTS
  HandledInOrder
  TokensOfOneLine
PROPERTIES
  FifoStaysUsable
  UnracedLinesHandled
