SPECIFICATION Spec
CONSTANTS
  App = {a1, a2}
  NoApp = none
  Tries = 3
  MaxDeaths = 2
INVARIANTS
  OneStarter
  RoundOnThisPlay
  StoppedRoundIsRetried
PROPERTY
  RunAllFinishes
CHECK_DEADLOCK FALSE
