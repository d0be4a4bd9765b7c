SPECIFICATION Spec
CONSTANTS
  None = None
  Proc = {s, t, c}
  Cli = {c}
  MaxCalls = 1
  MaxKept = 1
  MaxSessions = 1
  HttpProbe = TRUE
SYMMETRY Symmetry
PROPERTIES PageSafeFromOthers OwnershipSpec
