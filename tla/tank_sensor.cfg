SPECIFICATION FairSpec
CONSTANTS
  Reading <- Depths
  Cm = 10
  Step = 10
  Empty <- ZeroOrMisset
  Full = 200
  TopDown = FALSE
  Shape <- Shapes
  Remote <- EmptyRemote
  Side <- Both
  Active <- Actives
  Restore <- Restores
  Delay <- Delays
  Heartbeat = 3
  Edits = 3
  QueueBound = 2
PROPERTIES
  ShownInTheEnd
  AlarmsSettle
