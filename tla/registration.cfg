\* Every kind of fault, up to two of them, with three customers.
SPECIFICATION FairSpec
CONSTANTS
  Emails = {ana, bia, caio}
  NoEmail = NoEmail
  Faults = {"crash", "insert", "tmp", "full", "torn"}
  MaxFaults = 2
INVARIANTS
  TypeOK
  EmailsUnique
  TailIsLast
  IdsUnique
  OneAccountEach
  AckDurable
  IdentityDefined
  HandleCurrent
PROPERTIES
  CountersAdvance
  ImplementsBank
  ReadyAgain
