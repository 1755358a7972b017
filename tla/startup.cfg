\* Small sizes, so that the line's buffer doubles twice and the table of
\* secrets grows; nine routes in an array of eight. The process may die.
SPECIFICATION Spec
CONSTANTS
  Line <- SmallLines
  Files <- SmallFiles
  NoName = "no name"
  NoValue = "no value"
  LINE_SIZE = 2
  ALLOC_SIZE = 2
  Table <- RealTable
  NONE = "none"
  Requests <- SomeRequests
  FIRST_CAPACITY = 8
INVARIANTS StartUpFits FirstDefinition TableServed
PROPERTIES Starts
CHECK_DEADLOCK FALSE
