CONSTANTS
  Keys = {1, 2, 3, 4, 5, 6, 7, 8, 9, 10, 11, 12, 13, 14}
  FewKeys = {7, 8, 9, 10, 11, 12}
  FillKeys = {6, 7, 8, 9, 10, 11, 12, 13, 14}
  GrowKeys = {1, 2, 3, 4, 5, 6, 7, 8, 9, 10}
  EntryLen <- Falling
  EndLen = 1
  VbnLen = 1
  Blocks = {1, 2, 3, 4, 5, 6, 7, 8, 9, 10, 11, 12, 13, 14, 15, 16}
  RootRoom = 8
  NodeRoom = 20
  MaxDepth = 4
  Sessions = 2
SPECIFICATION MCSpec
INVARIANTS
  TypeOK
  TreeIsTable
  SearchStopsNear
  NodesFit
  LinkedOnce
  LeavesAreEven
  DirtyUpToRoot
PROPERTIES
  CallsReturn

