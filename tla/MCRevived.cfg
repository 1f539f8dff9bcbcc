SPECIFICATION ParcelSpec
CONSTANTS
  o1 = o1
  a1 = a1
  u1 = u1
  Waits = FALSE
  Orders = {o1}
  Assets = {a1}
  Users = {u1}
  Admins = {}
  Reviews = {o1}
  MaxWid = 2
  Tickets = {}
  HandStatuses = {}
  AllowDuplicate = FALSE
  NoOne = NoOne
  Tracker = Tracker
  NoOrder = NoOrder
  NoAsset = NoAsset
  NoTicket = NoTicket
PROPERTY CancelledStaysCancelled
CHECK_DEADLOCK FALSE
