SPECIFICATION Spec
CONSTANTS
  m1 = m1
  m2 = m2
  r1 = r1
  r2 = r2
  Mails <- MCMails
  Readers <- MCReaders
  StaleAfter = 1
  MaxTime = 4
  MaxResets = 2
SYMMETRY MCSymmetry
INVARIANT DeliveryLedger
CHECK_DEADLOCK FALSE
