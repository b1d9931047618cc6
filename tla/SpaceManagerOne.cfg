CONSTANTS
  Thread = {t1}
  NoThread = NoThread
  EndBlk = 11
  MinBlk = 1
  MaxBlk = 3
  SpaceCap = 20
  BaseCap = 20
SPECIFICATION Spec
INVARIANTS
  TypeOK
  BlocksConserved
