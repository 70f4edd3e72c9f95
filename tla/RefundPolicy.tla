---------------------------- MODULE RefundPolicy ----------------------------
(***************************************************************************)
(* Cancellation refund arithmetic (lib/booking/refund.ts): integer satang, *)
(* the guest's share rounded up, the retained rest split 90/10.            *)
(***************************************************************************)
EXTENDS Integers

CancellationTier == {"FLEXIBLE", "MODERATE", "STRICT"}

HOST_RETAINED_PCT == 90

\* guestRefundPct: the share of the total a guest gets back, in percent.
GuestRefundPct(tier, days) ==
  CASE days >= 14          -> 100
    [] days < 14 /\ tier = "FLEXIBLE" -> IF days >= 3 THEN 100 ELSE 50
    [] days < 14 /\ tier = "MODERATE" -> IF days >= 7 THEN 100
                                         ELSE IF days >= 3 THEN 50 ELSE 0
    [] days < 14 /\ tier = "STRICT"   -> IF days >= 7 THEN 50 ELSE 0

\* refundSatangForPct: pct percent of total, rounded up, clamped at both ends.
RefundSatangForPct(total, pct) ==
  IF pct >= 100 THEN total
  ELSE IF pct <= 0 THEN 0
  ELSE (total * pct + 99) \div 100

\* breakdown: the host's and the platform's parts of what is not refunded.
RetainedHost(total, refund) == ((total - refund) * HOST_RETAINED_PCT) \div 100
RetainedPlatform(total, refund) == (total - refund) - RetainedHost(total, refund)
=============================================================================
