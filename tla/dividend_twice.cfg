SPECIFICATION Spec
CONSTANTS
  Members = {1, 2, 3}
  NoLeader = 0
  Companies = {1}
  NoCompany = none
  DefaultCompany = 1
  company2 = 1
  company3 = 1
  purse = 3
  CompanyOf <- CompanyOfThree
  InitialBalance <- EqualPurses
  Admins = {adm}
  Scheduler = sched
  MaxPrice = 3
  MaxBids = 1
  MaxAborts = 0
  Days = {1}
INVARIANTS EscrowNotOverdrawn
