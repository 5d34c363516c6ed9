SPECIFICATION GapSpec
CONSTANTS
  Record <- MCRecord
  AppClass = {"Main"}
  Calls <- MCCalls
  Jar <- MCJar
  Slot = 24
  Generated = {}
  Android <- MCAndroid
  A <- MCA
  W <- MCW
  Mapped = {"alarm"}
  ReferenceLevel = 34
  AreaOf <- MCAreaOf
  OhOf <- MCOhOf
  PmBinder <- MCNone
  Deep = {"queryIntentServices"}
  HostGuarded <- MCHostGuarded
  BoardLibs <- MCBoardLibs
  Staged <- MCStaged
  Ndk <- MCNdk
  NdkLibraries = {"libandroid"}
  WeldEffort <- MCWeldEffort
  PartOf <- MCPartOf
  Policy <- MCPolicy
  PolicyImports <- MCPolicyImports
  Sdks <- MCSdks
  EnvSdks <- MCEnvSdks
  Runtime <- MCRuntime
  Registers = {}
  JniExports = {}
  Strings_ = {}
  CxxInternal = {}
  SurfaceOf <- MCNone
  Costs <- MCNone
  Declared <- MCDeclared
  Budget = 1
  None = None
  SearchedFirst = {"libcxx"}
  NamespaceLibs <- MCNamespaceLibs
  RuntimeLibs <- MCRuntimeLibs
  Apps <- MCApps_
  Trees <- MCTrees_
  Traces <- MCTraces_
  TraceMethods <- MCMethods
  TraceThreads = {"main"}
  Heads <- MCHeads
  Documents <- MCDocuments
  Fixes <- MCFixes
  Contracts <- MCContracts
  MaxResults = 1
  Blockers <- MCBlockers
  NativeLibs = {"libeffect"}
  MaxSamples = 1
INVARIANT
  EveryRemedyIsApplied
CHECK_DEADLOCK FALSE
