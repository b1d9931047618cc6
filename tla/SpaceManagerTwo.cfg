CONSTANTS
  Thread = {t1, t2}
  NoThread = NoThread
  EndBlk = 7
  MinBlk = 0
  MaxBlk = 1
  SpaceCap = 20
  BaseCap = 20
SPECIFICATION Spec
INVARIANTS
  Accounting
PROPERTIES
  CallsEnd
