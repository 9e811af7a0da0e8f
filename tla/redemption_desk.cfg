\* The user may stop: every request is decided and the bounds are used up.
SPECIFICATION Spec
CONSTANTS
  Members = {u1, u2}
  Admins = {}
  ChargeIds = {}
  Amounts = {}
  Corrections <- Taken
  MaxCorrections = 1
  None = None
  Items = {book, wish}
  Wish = wish
  Ids = {r1, r2, r3}
  Prices = {1, 2}
  Stocks = {0, 2}
  InitialStock <- OneOfEach
  Unlimited = NULL
  WishLimited = FALSE
  MaxEdits = 2
  purse = 3
  InitialBalance <- EqualPurses
INVARIANTS TypeOK WalletsFollowLedger SpentOnRequests StockBalanced
SYMMETRY Symmetry
CHECK_DEADLOCK FALSE
