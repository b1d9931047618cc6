CONSTANTS
  Slots = 4
  SeqMod = 12
  None = None
SPECIFICATION Spec
INVARIANTS
  TypeOK
  ReadsNewest
PROPERTIES
  NeverSetBack
