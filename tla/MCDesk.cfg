SPECIFICATION DeskSpec
CONSTANTS
  o1 = o1
  o2 = o2
  a1 = a1
  a2 = a2
  u1 = u1
  u2 = u2
  Orders = {o1, o2}
  Assets = {a1, a2}
  Users = {u1, u2}
  Admins = {u2}
  Reviews = {}
  MaxWid = 0
  Tickets = {}
  HandStatuses = {"repair", "ready", "scrapped"}
  AllowDuplicate = FALSE
  NoOne = NoOne
  Tracker = Tracker
  NoOrder = NoOrder
  NoAsset = NoAsset
  NoTicket = NoTicket
INVARIANTS ReservedIsHeld InspectedIsProduced CancelledHoldsNothing UsedIsLinked VoidIsRework NoDoubleSale ShippedIsOut
PROPERTY ClaimIsKept
CHECK_DEADLOCK FALSE
SYMMETRY Alike
