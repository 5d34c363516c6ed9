SPECIFICATION Spec
CONSTANTS
  None = None
  CxxInternal = {"typeinfo"}
  SurfaceOf <- MCSurfaceOf
  Costs <- MCCosts
  Declared = {"gets"}
  Budget = 3
  BootClassPath <- MCBootClassPath
  Apps <- MCApps
  Owner = {"B", "C", "D", "I", "P"}
  Framework = {"B", "C", "D", "I"}
  Init_ = "<init>"
  CallDepth = 3
  Bridge <- MCBridge
  System <- MCSystem
  UpstreamJars = {}
  WestlakeJars = {"stub"}
  Reference <- MCReference
  Object = "Object"
  Reg = {0, 1}
  Strings = {"a", "b"}
  Classes = {"K"}
  Outlines = {"K"}
  Accessors = {"account"}
  Reserved = {"b"}
  Window = 3
  Nothing = Nothing
  X = {0, 1, 3, 31}
  Reach = 3
  TlsReach = 4
  Relocations <- MCRelocations
  Plt <- MCPlt
  TlsSlots = {0, 8}
  Mutexes <- MCMutexes
  Instructions <- MCInstructions
  MaxCode = 4
  NoAddress = NoAddress
  MaxWalk = 5
  NotNamed = NotNamed
  Portfolios <- MCPortfolios
  Lines <- MCLines
  MaxEvents = 2
INVARIANTS
  SaidIsPassed
  
  UnresolvedIsFound
  BoundIsNotAbsent
  ResolversAgree
  JoinedToItsOwn
CHECK_DEADLOCK FALSE
