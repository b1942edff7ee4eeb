\* A restart, a lost answer and a repeated key, up to three entries at a time.
SPECIFICATION Spec
CONSTANTS
  Ids = {a, b, c, d}
  Keys = {k}
  None = None
  MaxQueue = 3
  MaxRestarts = 1
  MaxLost = 1
  MaxRepeats = 1
SYMMETRY Symmetry
INVARIANTS
  TypeOK
  MirrorMatchesRows
  ExecutedIsGone
  MirrorInOrder
PROPERTY
  StoreKeepsOrder
\* Every id can be used up.
CHECK_DEADLOCK FALSE
