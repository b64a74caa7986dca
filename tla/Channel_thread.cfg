SPECIFICATION Spec
CONSTANTS
  Msgs = {"m2", "m3", "m4"}
  Event <- MCEvent
  AllowedChats = {"team"}
  None = "none"
  MaxRetries = 2
  MaxPushes = 2
  Repeated = {"m3"}
  MaxHuman = 1
  MaxCrashes = 1
INVARIANT EveryReplyShown
CHECK_DEADLOCK FALSE
