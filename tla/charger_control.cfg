SPECIFICATION FairSpec
CONSTANTS
  c1 = c1
  c2 = c2
  Device <- TwoChargers
  Free = Free
  Level <- TwoLevels
  Deadband = 2
  Asked <- Paths
  Shows <- States
  Switchable <- Second
  Fault <- Failing
INVARIANTS
  NoStrandedWrite
  PollFlagBacked
  StateTellsControl
PROPERTIES
  OneSession
  ServedInTheEnd
