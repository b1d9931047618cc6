CONSTANTS
  Values = {1, 2, 3, 4, 5, 6, 7, 8, 9, 10, 11, 12}
  Few = {1, 2, 3, 4, 5, 6, 7, 8}
  Base = 2
  Width = 3
  Letters <- Codes
SPECIFICATION MCSpec
INVARIANTS
  SearchTree
  Balanced
  NearestFound
  WalkVisitsAll
  DestroyGivesAll
  NamesOrdered
  NumbersCompare
  ExtentsOrdered
