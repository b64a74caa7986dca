SPECIFICATION FairSpec
CONSTANTS
  assign = assign
  review = review
  report = report
  manager = manager
  pm = pm
  qa = qa
  p2p = p2p
  none = none
  Mails <- MCThreeMails
  Roles <- MCRoles
  Manager = manager
  P2P = p2p
  From <- MCFrom
  To <- MCTo
  MaxAsks = 2
  MaxFailures = 1
  MaxCrashes = 1
  NoOne = none
CHECK_DEADLOCK FALSE
INVARIANTS
  UnreadIsCovered
PROPERTIES
  PartsKeepPromise
  MailDone
