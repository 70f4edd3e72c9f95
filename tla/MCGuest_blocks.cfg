SPECIFICATION GuestSpec
CONSTANTS
  Messages = {1, 2}
  Posts = {"guest", "host"}
  MaxClock = 2
  Throttle = 1
  ReviewBookings = {b1, b2}
  Writers = {w1, w2}
  Scores = {4}
  PhotoKeys = {k1}
  Flags = {1}
  Panels = {p1, p2}
  MAX_ITERATIONS = 2
  DailyLimit = 2
  TokenCeiling = 2
  Budget = 2
  Rate = 3
  MaxRows = 6
  Tabs = {t1, t2}
  Phones = {n1}
  MAX_ATTEMPTS = 2
  MaxCodes = 2
  MaxFootprint = 1
  Villas = {v1, v2, v3}
  Asks <- MCAsks
  BlockDays <- MCArrival
  OtherStays <- MCOther
  Capacity = 2
  MaxChanges = 1
SYMMETRY MCSymmetry
CHECK_DEADLOCK FALSE
INVARIANT FreeIsUnblocked
