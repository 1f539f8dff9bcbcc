SPECIFICATION OutsideSpec
CONSTANTS
  MallOrders = {"k1", "k2"}
  MadeUp = "made up"
  NoNumber = "no number"
  Values <- MCValues
  Blank = ""
  Coupang = "coupang"
  Coarse <- MCCoarse
  Plain = {}
  Digits = {"123"}
  Shaped = {"A_B_C"}
  NoKey = "no key"
  Told <- MCTold
  Lines <- MCLines
  Addresses = {"d1", "d2"}
  Tick = Tick
  People = {p1}
  MaxLines = 1
  MaxRows = 2
  Staff = {p1, p2}
  Perms = {"users.manage"}
  Callers = {c1, c2}
  Nobody = Nobody
  Scanners = {r1, r2}
  MaxFeed = 2
  MaxDate = 2
  PageSize = 1
  MaxSaves = 2
  Patient = TRUE
  Words = {1, 2}
  Spellings = {upper, lower}
  Kinds = {buy}
  ModelNames = {1, 2}
  MaxColumn = 0
  MaxModelColumn = 1
  MaxSuppliers = 3
  MaxModels = 3
  MaxPartners = 2
  MaxModelKeys = 2
  Machines = {n1}
  Categories = {x, y, z}
  Owned = {}
  NoCat = NoCat
  Runs = {1, 2}
  MaxChoices = 2
  MaxTurns = 1
  Malls = {m1}
  Qcs = {q1, q2}
  Gear = {g1, g2}
  Score <- MCScore
  MinScore = 3
  Amount <- MCAmount
  GearOf <- MCGearOf
  NoRow = NoRow
  QcRuns = {1}
  MaxWrites = 3
  Buys = {1, 2}
  Extras = {1}
  MaxWon = 2
  Rates = {0, 1}
  ShopOf <- MCShopOf
INVARIANTS OutsideOK AdminRemains LateInputIsListed MastersAgree FeeIsExplained
PROPERTIES ImportsAddOnce ImportsKeepWork HandCategoryStays FollowUpSettles MergesLoseNothing
CHECK_DEADLOCK FALSE
