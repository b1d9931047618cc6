CONSTANTS
  Thread = {t1}
  NoThread = NoThread
  EndBlk = 10
  MinBlk = 0
  MaxBlk = 2
  SpaceCap = 2
  BaseCap = 20
SPECIFICATION Spec
INVARIANTS
  NoSpaceIsTrue
