SPECIFICATION Spec
CONSTANTS
  ann = ann
  anna = anna
  main = main
  more = more
  None = None
  Person = {ann, anna}
  Section = {main, more}
  Main = main
  Order <- Sections
  Longer <- PartNames
  Within <- PartNames
  Text = {t1}
  Listed = {ann}
  Reachable = {ann}
  MaxCalls = 2
  Urns = {None, ann}
  Relations <- AllRelations
INVARIANT WritesRequested
CHECK_DEADLOCK FALSE
