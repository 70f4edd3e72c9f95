SPECIFICATION TxSpec
CONSTANTS
  TotalSatang = 6
  CommissionSatang = 1
  Days = {0}
  RefundPcts = {50}
  OpnEvents = {e1}
  Reports = {k1}
  MaxHolds = 1
  MaxOvertaken = 2
  Slow = {"refundBookingToGuest"}
INVARIANTS
  GatewayWithinLedger
