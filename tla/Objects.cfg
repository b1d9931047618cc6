CONSTANTS
  Names = {c1}
  Ids = {o1, o2}
  Workers = {w1, w2}
  Console = console
  NoThread = nobody
  MaxRef = 2
SPECIFICATION Spec
INVARIANTS
  TypeOK
  HeldIsLive
  ListedOnce
PROPERTIES
  
  CallsReturn
CHECK_DEADLOCK FALSE
