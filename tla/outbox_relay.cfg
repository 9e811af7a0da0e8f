SPECIFICATION FairSpec
CONSTANTS
  Messages = {m1, m2, m3}
  Users = {u1, u2}
  NoEmail = {u2}
  Batch = 2
  MaxAttempts = 2
  MaxAccidents = 1
  MaxSyncs = 1
  None = None
INVARIANTS DeadOnlyAfterRetries SentDaysArrived
PROPERTIES NoticesClose KeepsNoticePromise
CHECK_DEADLOCK FALSE
