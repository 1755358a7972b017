\* A server and a process started beside it, three ids, one fault.
SPECIFICATION Spec
CONSTANTS
  Processes = {p1, p2}
  MaxIssued = 3
  MaxFaults = 1
SYMMETRY Symmetry
INVARIANTS NoIdTwice IdentityReadable
PROPERTIES OnlyServerCounts
