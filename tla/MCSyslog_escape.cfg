SPECIFICATION Spec
CONSTANTS
  Chars <- EscChars
  MaxChunk = 2
  MaxInput = 3
  LineWrap = 3
INVARIANT EscapeFreeLines
CHECK_DEADLOCK FALSE
