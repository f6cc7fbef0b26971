SPECIFICATION FairSpec
CONSTANTS
  h0 = h0
  h1 = h1
  h9 = h9
  Card <- Three
  Own <- Two
  Nowhere = Nowhere
  Edits = 3
  QueueBound = 2
INVARIANTS
  LinkOnOwnCard
  ActiveBacked
PROPERTY
  ShownInTheEnd
CHECK_DEADLOCK FALSE
