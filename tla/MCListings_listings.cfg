SPECIFICATION FairListingsSpec
CONSTANTS
  Submissions = {1}
  Calls = {1, 2}
  Admins = {1, 2}
CHECK_DEADLOCK FALSE
INVARIANTS
  ListingsInv
  GateHolds
PROPERTIES
  ReviewGoesOn
