SPECIFICATION Spec
CONSTANTS
  Day = 20
  Year = 2
  Nothing = Nothing
  AppFiles = {"liba", "libb"}
  NoFile = "none"
  Unknown = "unknown"
  Musl = "musl"
  Pages = {"grey", "black"}
  Logs <- MCLogs
  Starts <- MCStarts
  Lines <- MCLines
  MaxLines = 2
  Dumps <- MCDumps
  Shots <- MCShots
  Threads <- MCThreads
  Sampled <- MCSampled
INVARIANTS
  ScreenDecides
  OwnDumpIsNotExplainedAway
  DeathIsItsOwn
  StaleDumpChangesNothing
  DeathNeverReadsAsProgress
CHECK_DEADLOCK FALSE
