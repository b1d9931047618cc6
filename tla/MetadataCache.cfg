CONSTANTS
  Objects = {1, 2}
  Values = {0, 1}
  LastBlk = 5
SPECIFICATION Spec
INVARIANTS
  TypeOK
  EachBlockCachedOnce
PROPERTIES
  ImplementsStore
  CloseSaves
