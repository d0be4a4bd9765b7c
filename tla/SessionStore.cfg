SPECIFICATION Spec
CONSTANTS
  Proc = {"server", "cli"}
  Kinds <- AllKinds
  MaxSessions = 3
  Boxes = {1, 2}
  MaxFaults = 2
  MaxDeaths = 1
INVARIANTS SessionWhole OneDevice RestoredUnlessCommitted LogoutClears
CHECK_DEADLOCK FALSE
