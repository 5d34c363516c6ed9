SPECIFICATION Spec
CONSTANTS
  App = {a1, a2}
  NoApp = none
  Tries = 2
  MaxDeaths = 1
INVARIANT
  TriesUntilRoundFinishes
CHECK_DEADLOCK FALSE
