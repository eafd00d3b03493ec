SPECIFICATION InputSpec
CONSTANTS
  MaxPart = 3
  Alphabet = {"x", ".", " ", "newline", "return", "<", "long"}
  MaxLength = 5
  MaxLines = 2
  Sizes = {0, 16}
CHECK_DEADLOCK FALSE
INVARIANT SpokenAsSaid
INVARIANT ResumesAtMarks
