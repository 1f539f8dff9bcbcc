SPECIFICATION FollowSpec
CONSTANTS
  Pushers = {p1}
  Sweeper = Sweeper
  MaxInvoices = 2
  TestInvoices = {1}
  MaxTries = 2
  MaxStops = 1
  Numbers = {n1}
  Fixed = {}
  MaxValue = 2
  Cats = {1}
  Runners = {r1}
  CorrectionLimit = 1
  MaxChanges = 2
  MaxHand = 1
  MaxFailures = 1
  Whims = FALSE
INVARIANTS FollowOK
PROPERTIES ImportsLeaveNoGhost IssuedIsTold HandWorkIsKept TmsIsFollowedThere
CHECK_DEADLOCK FALSE
