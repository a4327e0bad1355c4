SPECIFICATION Spec
CONSTANTS
  Companies = {c1, c2}
  Subs = {s1, s2, s3}
  Email <- OwnEmail
  Phone <- SharedPhone
  Riders = {1, 2}
  Followed = {c1}
  Plans = {"small", "large"}
  Length <- Lengths
  Limit <- Limits
  TrialDays = 1
  TrialLimit = 1
  Soon = 1
  Decisions = {"active", "inactive"}
  Requests = {r1}
  Overlapping = {"activate"}
  MaxWrites = 6
  MaxDay = 3
  PlanEdits <- Edits
  Milestones = {1, 3, 7}
  ReminderDays = 10
SYMMETRY Alike
CHECK_DEADLOCK FALSE
INVARIANT PaidTimeHonoured
INVARIANT OneTrialEach
INVARIANT RidersWithinPlan
PROPERTY RoadKeepsSeats
INVARIANT BillingTold
