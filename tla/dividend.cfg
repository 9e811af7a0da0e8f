SPECIFICATION FairAloneSpec
CONSTANTS
  Members = {1, 2, 3}
  NoLeader = 0
  Companies = {1, 2}
  NoCompany = none
  DefaultCompany = 1
  company2 = 2
  company3 = none
  purse = 2
  CompanyOf <- CompanyOfThree
  InitialBalance <- EqualPurses
  Admins = {adm}
  Scheduler = sched
  MaxPrice = 2
  MaxBids = 2
  MaxAborts = 1
  Days = {0, 1, 2}
INVARIANTS TypeOK WalletsFollowLedger
PROPERTIES EscrowPaidOut PaidOnce SharesAreFair ForecastMatches EveryCompanyPaid
