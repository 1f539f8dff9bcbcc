SPECIFICATION HouseSpec
CONSTANTS
  o1 = o1
  a1 = a1
  a2 = a2
  u1 = u1
  b1 = b1
  b2 = b2
  t1 = t1
  r1 = r1
  Orders = {o1}
  Assets = {a1, a2}
  Users = {u1}
  Admins = {}
  Reviews = {}
  MaxWid = 0
  Tickets = {t1}
  HandStatuses = {"repair"}
  AllowDuplicate = FALSE
  NoOne = NoOne
  Tracker = Tracker
  NoOrder = NoOrder
  NoAsset = NoAsset
  NoTicket = NoTicket
  MaxCid = 2
  Twins = {a1}
  SoldRecords = {}
  Slips = {b1, b2}
  MaxSlipNo = 3
  MaxAmount = 1
  NoSlip = NoSlip
  Unbought = Unbought
  PartSizes = {1, 2}
  Storage = FALSE
  Sold = Sold
  SoldSize = 2
  BaseSize = 1
  NoOption = NoOption
  MaxRows = 2
  OwsSales = {s1}
  TmsSales = {s2}
  Rentals = {}
  TmsRevives = FALSE
  Units = {a1, a2}
  Requests = {r1}
  FirstNo = 2
  LastNo = 4
  Odd = Odd
  Unregistered = Unregistered
INVARIANTS HouseOK NumbersComeOnce ArrivedWithItsSlip SlipsKeepTheirParts PartsAreConserved OptionCostIsCurrent SoldOnOneSlip
PROPERTIES HandoverKept HandoverIsClear
CHECK_DEADLOCK FALSE
