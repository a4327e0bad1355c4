\* Two dispatchers, crashes, lost answers and slow batches.
CONSTANTS
  Workers = {w1, w2}
  Issued = {m1}
  Reminders = {m2}
  Notices = {n1}
  Replies = {}
  MaxAttempts = 2
  Batch = 2
  Limit = 1
  Faults = {"crash", "lost_answer", "slow"}
  MaxFaults = 1
  MaxDeferrals = 0
  NoItem = NoItem
  Hours = 24
  LastDay = 3
  MaxSteps = 6
  Ordered = 2
SPECIFICATION Spec
CHECK_DEADLOCK FALSE
SYMMETRY Symmetry
INVARIANT OneWorkerPerMessage
INVARIANT ToldOnce
INVARIANT StopHonoured
INVARIANT AlertsTrue
INVARIANT RulesAgree
PROPERTY ImplementsMessageLife
