SPECIFICATION OnAirSpec
CONSTANTS
  m1 = m1
  m2 = m2
  Mac <- OneMac
  Item <- Interleaved
  KnownTTL = 2
  IgnoredTTL = 2
  QueueBound = 1
PROPERTIES
  DeviceIsHeard
  ConfiguredComesBack
