CONSTANTS
  Keys = {1, 2, 3, 4, 5, 6, 7, 8, 9, 10, 11, 12}
  FewKeys = {}
  FillKeys = {}
  GrowKeys = {1, 2, 3, 4, 5, 6, 7, 8, 9, 10, 11, 12}
  EntryLen <- Uneven
  EndLen = 1
  VbnLen = 1
  Blocks = {1, 2, 3, 4, 5, 6, 7, 8, 9, 10, 11, 12, 13, 14, 15, 16}
  RootRoom = 8
  NodeRoom = 20
  MaxDepth = 4
  Sessions = 1
SPECIFICATION GrowSpec
INVARIANT
  TreeIsTable
