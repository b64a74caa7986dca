SPECIFICATION ProjectSpec
CONSTANTS
  w1 = w1
  w2 = w2
  e1 = e1
  e2 = e2
  e3 = e3
  e4 = e4
  none = none
  Writers <- MCWriters
  Events <- MCEvents
  Odd <- MCOdd
  CreateOverlaps = FALSE
  MaxCreates = 2
  MaxCrashes = 2
  NoOne = none
CHECK_DEADLOCK FALSE
INVARIANTS
  SeqsIncrease
  OneLossPerCrash
  CreatedIsWritten
PROPERTIES
  AppendOnly
