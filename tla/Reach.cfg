SPECIFICATION Spec
CONSTANTS
  Class <- MCClass
  NoClass = "none"
  Object = "Object"
  Sig = {"init", "go", "run", "tap"}
  Defined <- MCDefined
  Super <- MCSuper
  Ifaces <- MCIfaces
  Index <- MCIndex
  Declared <- MCDeclared
  Static = {}
  Code <- MCDeclared
  InitSig = {"init"}
  UserInput = {"tap"}
  NoMethod <- MCNoMethod
  Graphs <- MCGraphs
INVARIANTS
  ReachIsExact
  NeedsNoLater
  DispatchIsComplete
PROPERTY
  Terminates
CHECK_DEADLOCK FALSE
