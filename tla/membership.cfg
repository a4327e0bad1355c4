SPECIFICATION MembershipSpec
CONSTANTS
  Users = {u1, u2, u3}
  Companies = {k1, k2}
  Passwords = {p1, p2}
  MaxStaff = 1
  MaxAttempts = 1
  MaxTokens = 3
  MaxCodes = 2
  MaxChanges = 7
SYMMETRY Alike
CHECK_DEADLOCK FALSE
INVARIANT OwnerRemains
INVARIANT KeptPasswordOpens
INVARIANT SignedOutStaysOut
