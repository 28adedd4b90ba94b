\* One administrator's sessions, two users' requests, two pages of the workbench.
SPECIFICATION Spec
CONSTANTS
  Offices <- MCOffices
  Users <- MCUsers
  Operations <- MCOperations
  Present <- MCPresent
  Admins <- MCPresent
  AccessTTL <- MCAccessTTL
  RefreshTTL <- MCRefreshTTL
  Margin <- MCMargin
  Throttle <- MCThrottle
  Online <- MCOnline
  Patience <- MCPatience
  MaxNow <- MCMaxNow
  Pages = {anna, kofi}
  MaxSaves = 2
  MaxOpens = 2
  anna = anna
  kofi = kofi
VIEW MCView
CHECK_DEADLOCK FALSE
INVARIANTS TypeOK  AppliedOnce
PROPERTIES  SubmittedWasSaved
