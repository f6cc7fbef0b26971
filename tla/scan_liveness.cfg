SPECIFICATION FairSpec
CONSTANTS
  Card <- ThreeCards
  Contested <- FirstCard
  NoCard = NoCard
  EnableOutcomes <- MayFail
  DisableOutcomes <- Obeys
  TapOutcomes <- Obeys
  ClaimsMayFail = FALSE
  CanExit = FALSE
INVARIANT
  OneListener
PROPERTIES
  ExclusiveInTheEnd
  BackOnAir
  EveryCardListens
  DeadTapRestarted
