\* The user may stop: every bound is used up.
SPECIFICATION Spec
CONSTANTS
  super = super
  worker = worker
  Emails = {worker, novice}
  OfCompany = {worker, novice}
  Listable = {worker, novice}
  Seeded <- OldTable
  Logins = {}
  Editors = {}
  MaxSyncs = 2
  MaxEdits = 0
  MaxMoves = 0
  byLaw = 1
  Atmc <- EqualLaw
  Regular <- OldLeave
  Lots = 1
  MaxWins = 1
  MaxUse = 2
  MaxReconciles = 1
  None = None
INVARIANTS NothingOverdrawn
PROPERTIES UsedInOrder ReconciledAgrees
CHECK_DEADLOCK FALSE
