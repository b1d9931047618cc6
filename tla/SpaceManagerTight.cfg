CONSTANTS
  Thread = {t1}
  NoThread = NoThread
  EndBlk = 9
  MinBlk = 0
  MaxBlk = 2
  SpaceCap = 1
  BaseCap = 2
SPECIFICATION Spec
INVARIANTS
  NoBlockTwice
