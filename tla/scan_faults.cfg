SPECIFICATION Spec
CONSTANTS
  Card <- TwoCards
  Contested <- FirstCard
  NoCard = NoCard
  EnableOutcomes <- MayRaise
  DisableOutcomes <- MayRaise
  TapOutcomes <- MayFail
  ClaimsMayFail = TRUE
  CanExit = TRUE
INVARIANTS
  TypeOK
  MarkersBacked
