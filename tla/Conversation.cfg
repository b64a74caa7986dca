SPECIFICATION Spec
CONSTANTS
  MaxSessions = 2
  MaxTurns = 5
  MaxTools = 1
  MaxCrashes = 1
  KeepTurns = 2
  FreshTurns = 2
  Threshold = 6
  ChunkTokens = 3
  ToolTokens = 3
CHECK_DEADLOCK FALSE
INVARIANTS
  HistoryRemembered
  InOrder
  ToolsAnswered
  RecentVerbatim
  RawMissesCompressed
PROPERTIES
  NothingForgotten
