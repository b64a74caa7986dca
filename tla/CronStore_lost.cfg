SPECIFICATION Spec
CONSTANTS
  w1 = w1
  w2 = w2
  j1 = j1
  j2 = j2
  j3 = j3
  b1 = b1
  k1 = k1
  k2 = k2
  none = none
  Writers <- MCOneWriter
  Wakes <- MCTwoWakes
  Beats <- MCBeats
  Keys <- MCKeys
  KeyOf <- MCKeyOf
  NoOne = none
  Overlap = TRUE
  MaxCrashes = 0
CHECK_DEADLOCK FALSE
INVARIANT OwedWakesStored
