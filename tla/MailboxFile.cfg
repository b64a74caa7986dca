SPECIFICATION Spec
CONSTANTS
  m1 = m1
  m2 = m2
  h1 = h1
  h2 = h2
  c1 = c1
  none = none
  Mails <- MCMails
  Host <- MCHosts
  Cli <- MCCli
  NoOne = none
  CliOverlaps = FALSE
  StaleAfter = 1
  MaxTime = 4
  MaxResets = 1
  MaxCrashes = 1
CHECK_DEADLOCK FALSE
SYMMETRY MCSymmetry
INVARIANTS
  DeliveryLedger
  SharedOnlyAfterReset
  LossTakesACrash
PROPERTIES
  OnlyACrashTears
  ImplementsMailbox
