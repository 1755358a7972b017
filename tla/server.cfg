\* Every way through the loop, partial reads, and clients that hang up.
SPECIFICATION Spec
CONSTANTS
  Clients = {c1, c2}
  NoClient = NoClient
  Requests <- AnyRequests
  FdMax = 3
  Backlog = 2
  RS_MAX_ROWS = 1
  MaxLines = 1
  Segmented = TRUE
  Hangups = TRUE
SYMMETRY Symmetry
INVARIANTS
  TypeOK
  AuthGate
  NoSocketLeft
  ClosesOwn
PROPERTIES
  AnsweredBeforeClose
