SPECIFICATION Spec
CONSTANTS
  Probe <- MCProbe
  Mark = {"shown", "clicked", "done", "fail"}
  Passing <- MCPassing
  Failing <- MCFailing
  TapMark <- MCTapMark
  Contract = {"egl"}
  Prints <- MCPrints
  Hilogged = {"gl"}
  Commit = {"c1", "c2"}
  Own = "own"
  MaxPolls = 2
  MaxSuites = 2
  MaxDrops = 1
INVARIANTS
  PassIsEarned
  FailIsTheProbes
PROPERTIES
  KeepsOtherResults
  SuiteEnds
CHECK_DEADLOCK FALSE
