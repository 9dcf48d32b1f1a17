SPECIFICATION FairSpec
CONSTANTS
  Chars <- PlainChars
  MaxChunk = 3
  MaxInput = 6
  LineWrap = 3
INVARIANT NothingLost
INVARIANT NoLineKept
INVARIANT ClosedEmpty
INVARIANT GapsShow
PROPERTY KeepsLines
PROPERTY CallsReturn
CHECK_DEADLOCK FALSE
