SPECIFICATION Spec
CONSTANTS
  a1 = a1
  a2 = a2
  a3 = a3
  b1 = b1
  b2 = b2
  none = none
  p2p = p2p
  pm = pm
  t1 = t1
  t2 = t2
  t3 = t3
  Msgs <- MCMsgs
  Keys <- MCKeys
  TeamKeys <- MCTeamKeys
  KeyOf <- MCKeyOf
  KindOf <- MCKindOf
  Tasks <- MCTasks
  NoOne = none
CHECK_DEADLOCK FALSE
INVARIANT NoneStranded
