SPECIFICATION Spec
CONSTANTS
  Emails = {ana, bia}
  NoEmail = NoEmail
  Faults = {"insert"}
  MaxFaults = 1
INVARIANTS
  AckMeansCreated
