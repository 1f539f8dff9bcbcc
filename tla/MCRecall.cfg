SPECIFICATION RecallSpec
CONSTANTS
  o1 = o1
  a1 = a1
  u1 = u1
  t1 = t1
  Orders = {o1}
  Assets = {a1}
  Users = {u1}
  Admins = {}
  Reviews = {}
  MaxWid = 2
  Tickets = {t1}
  HandStatuses = {}
  AllowDuplicate = FALSE
  NoOne = NoOne
  Tracker = Tracker
  NoOrder = NoOrder
  NoAsset = NoAsset
  NoTicket = NoTicket
INVARIANTS ReturningIsAwaited CollectingIsAwaitedInTurn
PROPERTY ReturnedGoesOut
CHECK_DEADLOCK FALSE
