SPECIFICATION PaySpec
CONSTANTS
  TotalSatang = 2
  CommissionSatang = 1
  Days = {14}
  RefundPcts = {50}
  OpnEvents = {1, 2}
  Reports = {k1}
  MaxHolds = 0
  Charges = {1, 2}
  Deliveries = {1, 2}
  NoCharge = 0
  MaxCrashes = 1
CHECK_DEADLOCK FALSE
INVARIANTS
  HonouredChargeIsKept
