SPECIFICATION FairSpec
CONSTANTS
  o1 = o1
  Device <- OneUnit
  Unit = o1
  Free = Free
  SwapsFail = TRUE
  Edits = 3
INVARIANTS
  ModeBusyBacked
PROPERTIES
  StaysPublished
  InSyncInTheEnd
