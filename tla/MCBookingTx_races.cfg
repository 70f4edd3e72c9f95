SPECIFICATION TxSpec
CONSTANTS
  TotalSatang = 6
  CommissionSatang = 1
  Days = {0}
  RefundPcts = {50}
  OpnEvents = {e1, e2}
  Reports = {k1}
  MaxHolds = 0
  MaxOvertaken = 2
  Slow = {"accept", "expire", "confirm", "complete", "cancelByGuest", "cancelByHost",
          "resolveDispute", "appealDispute", "resolveAppeal", "acceptIntoReview",
          "markPaid", "refundBookingToGuest"}
CHECK_DEADLOCK FALSE
SYMMETRY EventSymmetry
INVARIANTS
  ChargedOnce
  PaidOutOnce
  TxInv
