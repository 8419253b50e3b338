\* Campaigns without end over the fifteen names and the four rounds without one; a short period.
CONSTANTS
  Listed = 15
  Wrap = 19
  Period = 3
  MaxActs = 3
SPECIFICATION FairSpec
INVARIANTS
  StaleActsFollow
  HandsOverTheFailure
PROPERTIES
  WholeTurns
  EveryoneGetsTurns
