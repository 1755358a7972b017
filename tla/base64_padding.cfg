SPECIFICATION TokenSpec
CONSTANTS
  Bytes = {0, 255}
  Chars = {0}
  MaxBytes = 3
  MaxChars = 0
INVARIANTS
  PaddingRemoved
CHECK_DEADLOCK FALSE
