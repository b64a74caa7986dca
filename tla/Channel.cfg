SPECIFICATION Spec
CONSTANTS
  Msgs = {"m1", "m3", "m5"}
  Event <- MCEvent
  AllowedChats = {"team"}
  None = "none"
  MaxRetries = 2
  MaxPushes = 2
  Repeated = {"m3"}
  MaxHuman = 1
  MaxCrashes = 1
INVARIANTS
  CopiesTakeLostAnswers
  ShownIsLogged
  SwallowedByChain
  
PROPERTY Settled
CHECK_DEADLOCK FALSE
