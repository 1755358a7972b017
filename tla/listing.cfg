\* Three rows, one of them torn; a result set of three rows; documents of up
\* to three accounts that are shorter than the buffer, of its size and longer.
SPECIFICATION Spec
CONSTANTS
  Ids = {"0", "1"}
  Balances = {"0.000", "0", "5"}
  NumberOf <- BalanceNumbers
  RS_MAX_ROWS = 3
  MaxInserts = 3
  JSON_BUF_SIZE = 24
  IdWidth <- IdWidths
  BalanceWidth <- NumberWidths
INVARIANTS SelectsRelation FindsOwn ListingWhole
\* A print outside of the buffer ends a behaviour.
CHECK_DEADLOCK FALSE
