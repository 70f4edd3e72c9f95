SPECIFICATION FairStaysSpec
CONSTANTS
  LastDay = 2
  StayChoices <- MCStayChoices
  Bookings = {1, 2}
  Drafts = {d1}
  Submits = {1, 2}
  EarlierStrikes = {1}
  Strikers = {1, 2}
  MaxStrikes = 4
CHECK_DEADLOCK FALSE
INVARIANTS
  NoDoubleBooking
  StaysInv
PROPERTIES
  ConsumedDraftRests
  NightsPromised
  WaitingEnds
