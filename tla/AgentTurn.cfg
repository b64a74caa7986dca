SPECIFICATION Spec
CONSTANTS
  Skills = {"style", "build", "history_reader"}
  TypeOf <- MCTypeOf
  Tools = {"tool"}
  NoTool = "no_tool"
  MaxIterations = 3
  RetryCount = 1
  MaxIter <- MCMaxIter
  MaxChars = 3
  SuffixLen = 2
  Lengths = {1, 5}
  ErrorLen = 1
  PageCap = 3
  MaxCalls = 3
  Edited = {"style"}
  MaxVersion = 2
  MaxHistory = 7
INVARIANTS
  RequestWellFormed
  RanOnce
  PostsBounded
  OneVersionPerTurn
  PagesCover
PROPERTY TurnEnds
CHECK_DEADLOCK FALSE
