CONSTANTS
  FirstBlk = 3
  EndBlk = 10
  MaxCnt = 3
SPECIFICATION Spec
INVARIANTS
  TypeOK
  IndexWellFormed
  Conservation
  Accounting
  HonestRefusals
PROPERTIES
  ImplementsPool
