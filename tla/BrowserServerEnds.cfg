SPECIFICATION FairSpec
CONSTANTS
  None = None
  Proc = {s, c}
  Cli = {c}
  MaxCalls = 2
  MaxKept = 1
  MaxSessions = 1
  HttpProbe = FALSE
INVARIANTS LeaseAccounted
PROPERTIES CallsAndLoginsEnd
