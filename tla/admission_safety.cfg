SPECIFICATION Spec
CONSTANTS
  m1 = m1
  m2 = m2
  Mac <- TwoMacs
  Item <- Failures
  KnownTTL = 2
  IgnoredTTL = 2
  QueueBound = 1
SYMMETRY
  Swap
INVARIANTS
  TypeOK
  GateIsSafe
  DisabledInStep
PROPERTY
  OnlyDiscoveryAdds
