CONSTANTS
  Objects = {1, 2}
  Values = {0, 1}
  LastBlk = 6
SPECIFICATION Spec
INVARIANT
  NoNumberTwice
