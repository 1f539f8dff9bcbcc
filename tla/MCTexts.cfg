SPECIFICATION TextSpec
CONSTANTS
  Events = {e1}
  Texters = {t1, t2}
  DailyCap = 2
  MaxRounds = 2
  Buys = {1}
  Extras = {1}
  MaxWon = 1
  Rates = {0, 1}
  ShopOf <- MCShopOf
  Malls = {m1}
  Qcs = {q1, q2}
  Gear = {g1, g2}
  Score <- MCScore
  MinScore = 3
  Amount <- MCAmount
  GearOf <- MCGearOf
  NoRow = NoRow
  QcRuns = {1}
  MaxWrites = 3
PROPERTY OneTextEach
CHECK_DEADLOCK FALSE
