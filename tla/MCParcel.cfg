SPECIFICATION ParcelSpec
CONSTANTS
  o1 = o1
  a1 = a1
  u1 = u1
  Waits = TRUE
  Orders = {o1}
  Assets = {a1}
  Users = {u1}
  Admins = {}
  Reviews = {o1}
  MaxWid = 3
  Tickets = {}
  HandStatuses = {}
  AllowDuplicate = FALSE
  NoOne = NoOne
  Tracker = Tracker
  NoOrder = NoOrder
  NoAsset = NoAsset
  NoTicket = NoTicket
INVARIANTS TypeOK OneShipment TrackingIsAlive
PROPERTIES CalmRequestsEnd OnlyOldNewsRevives
CHECK_DEADLOCK FALSE
