SPECIFICATION FairSpec
CONSTANTS
  u1 = u1  u2 = u2  c1 = c1  c2 = c2
  Users = {u1, u2}
  NoUser = NoUser
  Companies = {c1}
  DefaultCompany = c1
  NoCompany = NoCompany
  tenant1 = c1  tenant2 = c1  purse1 = 2  purse2 = 2
  CompanyOf <- Tenants
  InitialBalance <- Balances
  NoRow = NoRow
  MaxId = 2
  SeedLots = 1
  PoolIds = {}
  Admins = {adm}
  Scheduler = sched
  MaxRequests = 1
  StartPrices = {0}
  FixedPrice = 0
  MinIncrement = 1
  MaxPrice = 2
  Times = {2, 3}
  MaxTime = 5
  SnipeWindow = 1
  SnipeExtend = 2

INVARIANTS TypeOK PointsConserved
PROPERTIES CreatedOpens OpenSettles
