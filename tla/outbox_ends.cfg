\* One dispatcher and every fault it may meet by itself.
CONSTANTS
  Workers = {w1}
  Issued = {}
  Reminders = {m1}
  Notices = {}
  Replies = {r1}
  MaxAttempts = 2
  Batch = 2
  Limit = 2
  Faults = {"crash", "lost_answer", "db_error"}
  MaxFaults = 2
  MaxDeferrals = 1
  NoItem = NoItem
  Hours = 24
  LastDay = 3
  MaxSteps = 1
  Ordered = 1
SPECIFICATION FairSpec
CHECK_DEADLOCK FALSE
INVARIANT DuplicatesNeedFaults
INVARIANT NoDunningAfterPayment
PROPERTY EveryMessageEnds
