SPECIFICATION FairSpec
CONSTANTS
  w1 = w1
  w2 = w2
  j1 = j1
  j2 = j2
  j3 = j3
  b1 = b1
  k1 = k1
  k2 = k2
  none = none
  Writers <- MCWriters
  Wakes <- MCWakes
  Beats <- MCBeats
  Keys <- MCKeys
  KeyOf <- MCKeyOf
  NoOne = none
  Overlap = FALSE
  MaxCrashes = 2
CHECK_DEADLOCK FALSE
INVARIANTS
  TasksWhole
  RefireTakesACrash
  JobsSeen
PROPERTIES
  ImplementsBook
  WakeFires
