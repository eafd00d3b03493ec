SPECIFICATION InputSpec
CONSTANTS
  MaxPart = 3
  Alphabet = {"x", "newline"}
  MaxLength = 5
  MaxLines = 3
  Sizes = {0, 16}
CHECK_DEADLOCK FALSE
INVARIANT LinesAsWritten
