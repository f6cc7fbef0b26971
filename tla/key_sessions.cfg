SPECIFICATION FairSpec
CONSTANTS
  d1 = d1
  d2 = d2
  ka = ka
  kb = kb
  Device <- TwoDevices
  Free = Free
  Fleet <- Fleets
  Key <- Keys
  NoKey = NoKey
  Issued <- FirstKeys
  Speaks <- Dialects
  Gated <- OneDevice
  MaxAttempts = 2
  MaxTrouble = 1
INVARIANTS
  FlagsBacked
  RejectedKeyRests
PROPERTIES
  KeyInTheEnd
  PvWithdrawn
