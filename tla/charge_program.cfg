\* The user may stop: every request is decided and the bounds are used up.
SPECIFICATION Spec
CONSTANTS
  Members = {u1, u2}
  Admins = {a1, a2}
  ChargeIds = {1, 2}
  Amounts = {1, 2}
  Corrections <- Corrected
  MaxCorrections = 2
  None = None
  Items = {wish}
  Wish = wish
  Ids = {r1}
  Prices = {2}
  Stocks = {}
  InitialStock <- OneOfEach
  Unlimited = NULL
  WishLimited = FALSE
  MaxEdits = 0
  purse = 1
  InitialBalance <- EqualPurses
INVARIANTS WalletsFollowLedger CreditedOnce
CHECK_DEADLOCK FALSE
