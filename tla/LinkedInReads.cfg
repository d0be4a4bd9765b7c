SPECIFICATION Spec
CONSTANTS
  ann = ann
  anna = anna
  ben = ben
  main = main
  more = more
  j1 = j1
  j2 = j2
  j3 = j3
  None = None
  Person = {ann, anna, ben}
  Section = {main, more}
  Main = main
  Order <- Sections
  Job = {j1, j2, j3}
  Saved = ben
  Listing <- Jobs
  Pages <- Counts
  Inbox <- Newest
  Found <- Finds
  NameOf <- Names
  MaxScrolls = 4
  MaxStale = 2
  BatchWait = 2
  Posts = 2
  Me = ann
  Wants = {1, 3}
  MaxCalls = 2
INVARIANTS FiledAsAsked ConversationAsked OwnRowsClicked StaleMeansQuiet
PROPERTIES EveryCallEnds
CHECK_DEADLOCK FALSE
