CONSTANTS
  Ids = {u1, u2}
  Emails = {e1}
  Passwords = {p1, p2}
  Browsers = {b1, b2}
  Reqs = {r1, r2}
  Null = Null
  JWT_EXPIRES_IN = 1
  DefaultQuota = 1
  MaxTime = 1
  QUOTA_MAX = 2
  QUOTA_REFILL_HOURS = 1
  DbFaults = TRUE
SPECIFICATION QuotaSpec
SYMMETRY Symmetry
INVARIANTS QuotaTypeOK MeAnswersItsOwner GenerationsArePaidFor RefusedUntilLater
