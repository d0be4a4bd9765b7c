SPECIFICATION Spec
CONSTANTS
  None = None
  Proc = {p1, p2}
  Ofd = {o1, o2, o3, o4}
  Caller = {tool, login}
  File <- Files
  MaxReplaced = 2
  Attempts = 3
  ReplaceHeld = FALSE
SYMMETRY Symmetry
INVARIANTS NoOrphanLock CallersCovered
PROPERTIES OwnershipSpec AnnouncedWaiterSeen
CHECK_DEADLOCK FALSE
