SPECIFICATION FairSpec
CONSTANTS
  c1 = c1
  c2 = c2
  Device <- OneCharger
  Limit <- TwoLimits
  Hiccup <- AllHiccups
  CallBound = 2
INVARIANTS
  HeldIsControlled
  CacheNeverLies
PROPERTY
  LimitsArrive
