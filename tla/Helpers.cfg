SPECIFICATION Spec
CONSTANTS
  Client = {c1, c2, c3}
  MaxIds = 3
  Pools = 2
  MaxConnections = 2
  Request = {r1, r2, r3, r4}
  BatchSize = 2
  MaxQueue = 3
  NoRequest = NoRequest
  Operation = {o1, o2, o3}
  MaxConcurrent = 2
  MaxRetries = 2
  Anchor <- MCAnchor
  Permalink <- MCPermalink
  Caps <- MCCaps
  MaxAnchors = 3
  MaxUnwrap = 5
  MaxLabel = 80
  MaxShown = 4
  MaxPages = 2
INVARIANTS NoSharing LimitKept ReferencesRight
PROPERTIES InUseKept BatchServes NothingStalls
CHECK_DEADLOCK FALSE
