SPECIFICATION SteadySpec
CONSTANTS
  Users = {1, 2}
  Admins = {adm}
  Collector = collector
  Releaser = releaser
  Granted = {0, 1, 3}
  Policies <- AnyPolicy
  YearLength = 2
  MaxClock = 2
  MaxUses = 1
  MaxReboots = 1
  MaxRequests = 2
INVARIANTS TypeOK PoolBalanced RateKept
PROPERTIES TakenInTurn
CHECK_DEADLOCK FALSE
