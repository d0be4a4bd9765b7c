SPECIFICATION Spec
CONSTANTS
  None = None
  Proc = {p1, p2, p3}
  Ofd = {o1, o2, o3}
  File <- Files
  MaxReplaced = 2
  Attempts = 2
SYMMETRY Symmetry
INVARIANTS OwnerKeepsLock NoOrphanLock FreeMeansFree
PROPERTIES SuccessionSpec
CHECK_DEADLOCK FALSE
