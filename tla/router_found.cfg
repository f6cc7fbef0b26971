SPECIFICATION FairSpec
CONSTANTS
  s1 = s1
  s2 = s2
  a1 = a1
  a2 = a2
  k1 = k1
  k2 = k2
  Service <- TwoServices
  RouterName = RouterName
  Address <- Addresses
  Maker <- Makers
  Prefix <- Names
  Product <- Products
  NoProduct = NoProduct
  Path <- Paths
  Internal <- OneMaker
  Configured <- OneAddress
  Discovery = FALSE
  InboxBound = 2
INVARIANTS
  TypeOK
  NoneMissed
  EveryConsumerServed
PROPERTY
  FoundInTheEnd
