\* The user may stop: every bound is used up.
SPECIFICATION Spec
CONSTANTS
  super = super
  worker = worker
  Emails = {super, worker, visitor, lent}
  OfCompany = {worker}
  Listable = {worker, lent}
  Seeded <- NewTable
  Logins = {l1, l2}
  Editors = {a1}
  MaxSyncs = 1
  MaxEdits = 1
  MaxMoves = 1
  byLaw = 0
  Atmc <- EqualLaw
  Regular <- NoLeave
  Lots = 0
  MaxWins = 0
  MaxUse = 1
  MaxReconciles = 0
  None = None
INVARIANTS CompanyFollowsRole
PROPERTIES DemotedOnlyByOthers
CHECK_DEADLOCK FALSE
