SPECIFICATION FairSpec
CONSTANTS
  TotalSatang = 5
  CommissionSatang = 1
  Days = {0, 3, 7, 14}
  RefundPcts = {0, 40}
  OpnEvents = {e1, e2}
  Reports = {k1}
  MaxHolds = 1
INVARIANTS
  CacheMatchesLedger
  EscrowFitsStatus
  RefundRowMatchesLedger
  HostFaultMakesGuestWhole
  MoneyLeavesOnce
  GatewayWithinLedger
  BookingInv
  OffersAreTaken
  TakesIsEnabled
  NothingDueIsHidden
PROPERTIES
  StatusGraph
  PromiseKept
  SweepsMoveOn
