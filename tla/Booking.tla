------------------------------ MODULE Booking -------------------------------
(***************************************************************************)
(* One booking and every row that hangs off it: the Booking row, its       *)
(* escrow log, the single Refund, Dispute and Payout rows, the Opn events  *)
(* claimed for it, the reports filed about it and its manual payout holds. *)
(* The handlers are those of lib/booking, lib/ledger, lib/admin and of the *)
(* refund half of lib/payments.                                            *)
(*                                                                         *)
(* A handler first reads the rows it decides on and writes later.  Every   *)
(* action therefore takes what was read as a parameter: `r` is the value   *)
(* of Rows its checks ran against and `p` the escrow position its ledger   *)
(* move starts from.  Here both are the current rows, so that a handler is *)
(* one step (Spec, FairSpec); BookingTx runs the same actions with reads   *)
(* that other transactions may have made stale.                            *)
(***************************************************************************)
EXTENDS Escrow, RefundPolicy

CONSTANTS
  TotalSatang,       \* snapshotted price of the booking
  CommissionSatang,  \* snapshotted commission
  Days,              \* lead times (days before check-in) a guest cancels at
  RefundPcts,        \* percentages an admin grants on a partial resolution
  OpnEvents,         \* ids of the webhook events Opn sends for the charge
  Reports,           \* reports that may be filed about the booking
  MaxHolds           \* bound: manual payout holds active at once

ASSUME AmountsAssumption ==
  /\ TotalSatang \in Nat \ {0}
  /\ CommissionSatang \in 0..TotalSatang
ASSUME ChoicesAssumption ==
  /\ Days \subseteq Nat
  /\ RefundPcts \subseteq 0..100
  /\ MaxHolds \in Nat

VARIABLES
  status,   \* Booking.status, "NONE" before the row exists
  timer,    \* has respondBy / payBy, whichever is in force, passed?
  stay,     \* where the clock stands: before check-in, after it, after checkout
  escrow,   \* Booking.escrowState, the cache of the ledger
  ledger,   \* the booking's LedgerEntry log, folded
  claimed,  \* WebhookEvent rows
  refund,   \* the Refund row; `sent` is opnRefundId # null
  gateway,  \* satang Opn has sent back to the guest on account of the Refund row
  calling,  \* a cancel action still owes its refundBookingToGuest call
  dispute,  \* the Dispute row; `appealed` holds the sides with an *AppealedAt
  strikes,  \* HostStrike rows lib/booking has written for this booking
  report,   \* Report.status per report
  holds,    \* PayoutHold rows with releasedAt null covering the booking
  payout    \* Payout.hostAmountSatang, NoPayout without a row

money == <<escrow, ledger>>
guestRefund == <<refund, gateway, calling>>
admin == <<report, holds, payout>>
vars == <<status, timer, stay, money, claimed, guestRefund, dispute, strikes, admin>>

BookingStatus ==
  {"NONE", "REQUESTED", "AWAITING_PAYMENT", "DECLINED", "EXPIRED", "CONFIRMED",
   "CHECKED_IN", "COMPLETED", "DISPUTED", "CANCELLED_BY_GUEST", "CANCELLED_BY_HOST"}
RESOLVED_DISPUTE_STATUSES == {"RESOLVED_RELEASED", "RESOLVED_PARTIAL", "RESOLVED_REFUNDED"}
DisputeStatus == {"NONE", "OPEN"} \cup RESOLVED_DISPUTE_STATUSES
ReportStatus == {"NONE", "RECEIVED", "IN_REVIEW", "CLOSED"}  \* CLOSED: RESOLVED or DISMISSED
Sides == {"GUEST", "HOST"}
NoPayout == -1

DisputeResolution ==
  {[kind |-> k, pct |-> 0] : k \in {"RELEASED", "REFUNDED"}}
    \cup {[kind |-> "PARTIAL", pct |-> n] : n \in RefundPcts}

\* What findUnique returns of the rows a handler decides on.
Rows == [status |-> status, timer |-> timer, escrow |-> escrow, frozen |-> InEscrow(ledger),
         refund |-> refund, dispute |-> dispute, report |-> report, holds |-> holds]

\* Mutant: the position's amount is all that was charged, not what is left.
PositionOfCharge == [state |-> escrow, amount |-> Received(ledger)]

\* currentPosition: the cached state and the satang the log leaves in escrow.
CurrentPosition == [state |-> escrow, amount |-> InEscrow(ledger)]

-----------------------------------------------------------------------------
(* The escrow write layer (lib/ledger/apply.ts): append, refresh the cache.  *)

RecordCharge ==
  /\ ChargeOk(CurrentPosition, TotalSatang)
  /\ ledger' = FoldMove(ledger, "NONE", "HELD", TotalSatang)
  /\ escrow' = "HELD"

Release ==
  /\ ReleaseOk(CurrentPosition)
  /\ ledger' = FoldMove(ledger, "HELD", "RELEASABLE", InEscrow(ledger))
  /\ escrow' = "RELEASABLE"

\* Mutant: the log moves, the cache is not refreshed.
FreezeLogOnly(p) ==
  /\ FreezeOk(p)
  /\ ledger' = FoldMove(ledger, p.state, "FROZEN", p.amount)
  /\ escrow' = escrow

Freeze(p) ==
  /\ FreezeOk(p)
  /\ ledger' = FoldMove(ledger, p.state, "FROZEN", p.amount)
  /\ escrow' = "FROZEN"

\* Mutant: the payout moves the price, not what is left of it.
PayPrice(p) ==
  /\ PayOk(p)
  /\ ledger' = FoldMove(ledger, "RELEASABLE", "PAID", TotalSatang)
  /\ escrow' = "PAID"

Pay(p) ==
  /\ PayOk(p)
  /\ ledger' = FoldMove(ledger, "RELEASABLE", "PAID", p.amount)
  /\ escrow' = "PAID"

Settle(p, satang) ==
  /\ SettleOk(p, satang)
  /\ ledger' = Settled(ledger, p, satang)
  /\ escrow' = SettledState(p, satang)

\* refund.create: the Refund row is unique per booking.
RecordRefund(satang) ==
  /\ ~refund.exists
  /\ refund' = [exists |-> TRUE, satang |-> satang, sent |-> FALSE]

\* Mutant: only the slice of this decision is written.
UpsertSlice(r, share) ==
  refund' = [refund EXCEPT !.exists = TRUE, !.satang = share]

\* Mutant: the cumulative amount is added to the row that holds it already.
UpsertIncrement(r, share) ==
  refund' = [refund EXCEPT !.exists = TRUE, !.satang = @ + r.refund.satang + share]

\* Mutant: the row is created, as a first decision does, and not upserted.
UpsertCreates(r, share) == RecordRefund(r.refund.satang + share)

\* upsertRefund, given the cumulative amount; opnRefundId is kept.
UpsertRefund(r, share) ==
  refund' = [refund EXCEPT !.exists = TRUE, !.satang = r.refund.satang + share]

-----------------------------------------------------------------------------
(* Requests, payment and the timers                                          *)

\* No action compares the dates asked for with today.
Request ==
  /\ status = "NONE"
  /\ status' = "REQUESTED"
  /\ UNCHANGED <<timer, stay, money, claimed, guestRefund, dispute, strikes, admin>>

InstantHold ==
  /\ status = "NONE"
  /\ status' = "AWAITING_PAYMENT"
  /\ UNCHANGED <<timer, stay, money, claimed, guestRefund, dispute, strikes, admin>>

\* The payment window starts when the host accepts, however late that is.
Accept(r) ==
  /\ r.status = "REQUESTED"
  /\ status' = "AWAITING_PAYMENT"
  /\ timer' = "running"
  /\ UNCHANGED <<stay, money, claimed, guestRefund, dispute, strikes, admin>>

\* Mutant: a request the host has accepted can still be declined.
DeclineLate(r) ==
  /\ r.status \in {"REQUESTED", "AWAITING_PAYMENT"}
  /\ status' = "DECLINED"
  /\ UNCHANGED <<timer, stay, money, claimed, guestRefund, dispute, strikes, admin>>

Decline(r) ==
  /\ r.status = "REQUESTED"
  /\ status' = "DECLINED"
  /\ UNCHANGED <<timer, stay, money, claimed, guestRefund, dispute, strikes, admin>>

\* Mutant: only the deadline is looked at.
ExpireByDeadline(r) ==
  /\ r.timer = "elapsed"
  /\ status' = "EXPIRED"
  /\ UNCHANGED <<timer, stay, money, claimed, guestRefund, dispute, strikes, admin>>

\* Mutant: the payment deadline has no sweep.
ExpireRequests(r) ==
  /\ r.status = "REQUESTED"
  /\ r.timer = "elapsed"
  /\ status' = "EXPIRED"
  /\ UNCHANGED <<timer, stay, money, claimed, guestRefund, dispute, strikes, admin>>

Expire(r) ==
  /\ r.status \in {"REQUESTED", "AWAITING_PAYMENT"}
  /\ r.timer = "elapsed"
  /\ status' = "EXPIRED"
  /\ UNCHANGED <<timer, stay, money, claimed, guestRefund, dispute, strikes, admin>>

\* A replayed event, and one for a booking in another state, change nothing:
\* the transaction that claimed it returns early or rolls back.
ConfirmFromWebhook(r, event) ==
  /\ event \notin claimed
  /\ r.status = "AWAITING_PAYMENT"
  /\ claimed' = claimed \cup {event}
  /\ status' = "CONFIRMED"
  /\ RecordCharge
  /\ UNCHANGED <<timer, stay, guestRefund, dispute, strikes, admin>>

\* Mutant: the sweep picks the bookings that check in today, not those due.
CheckInToday(r) ==
  /\ stay = "checkedIn"
  /\ r.status = "CONFIRMED"
  /\ status' = "CHECKED_IN"
  /\ UNCHANGED <<timer, stay, money, claimed, guestRefund, dispute, strikes, admin>>

\* Swept at 15:00 of the check-in date, and later if that sweep was missed.
CheckIn(r) ==
  /\ stay # "before"
  /\ r.status = "CONFIRMED"
  /\ status' = "CHECKED_IN"
  /\ UNCHANGED <<timer, stay, money, claimed, guestRefund, dispute, strikes, admin>>

\* Swept at 11:00 of the checkout date; only HELD escrow is released.
Complete(r) ==
  /\ stay = "checkedOut"
  /\ r.status = "CHECKED_IN"
  /\ status' = "COMPLETED"
  /\ IF r.escrow = "HELD" THEN Release ELSE UNCHANGED money
  /\ UNCHANGED <<timer, stay, claimed, guestRefund, dispute, strikes, admin>>

TimerElapses ==
  /\ status \in {"REQUESTED", "AWAITING_PAYMENT"}
  /\ timer = "running"
  /\ timer' = "elapsed"
  /\ UNCHANGED <<status, stay, money, claimed, guestRefund, dispute, strikes, admin>>

StayAdvances ==
  /\ stay # "checkedOut"
  /\ stay' = IF stay = "before" THEN "checkedIn" ELSE "checkedOut"
  /\ UNCHANGED <<status, timer, money, claimed, guestRefund, dispute, strikes, admin>>

-----------------------------------------------------------------------------
(* Cancellations and the refund they send through Opn                        *)

\* daysUntil(checkIn, now), clamped at 0 once check-in has passed.
LeadDays == IF stay = "before" THEN Days ELSE {0}

\* cancelByGuest; from CONFIRMED the tier decides the refund and the caller
\* goes on to refundBookingToGuest.
CancelByGuest(r, tier, days) ==
  /\ r.status \in {"REQUESTED", "AWAITING_PAYMENT", "CONFIRMED"}
  /\ status' = "CANCELLED_BY_GUEST"
  /\ IF r.status = "CONFIRMED"
       THEN LET satang == RefundSatangForPct(TotalSatang, GuestRefundPct(tier, days))
            IN  RecordRefund(satang) /\ Settle(CurrentPosition, satang) /\ calling' = TRUE
       ELSE UNCHANGED <<money, refund, calling>>
  /\ UNCHANGED <<timer, stay, claimed, gateway, dispute, strikes, admin>>

CancelByHost(r) ==
  /\ r.status = "CONFIRMED"
  /\ status' = "CANCELLED_BY_HOST"
  /\ RecordRefund(TotalSatang)
  /\ Settle(CurrentPosition, TotalSatang)
  /\ strikes' = strikes + 1
  /\ calling' = TRUE
  /\ UNCHANGED <<timer, stay, claimed, gateway, dispute, admin>>

\* Opn refunds a charge in several parts, up to its amount.
OpnAccepts(satang) == gateway + satang <= TotalSatang

\* Mutant: opnRefundId is not looked at before the call.
SendRefundAgain(r) ==
  /\ r.refund.satang > 0
  /\ OpnAccepts(r.refund.satang)
  /\ gateway' = gateway + r.refund.satang
  /\ refund' = [refund EXCEPT !.sent = TRUE]

\* refundBookingToGuest: the amount on the row, once.
SendRefund(r) ==
  /\ r.refund.satang > 0 /\ ~r.refund.sent
  /\ OpnAccepts(r.refund.satang)
  /\ gateway' = gateway + r.refund.satang
  /\ refund' = [refund EXCEPT !.sent = TRUE]

\* The call after a cancellation is made once and swallows a failure.
RefundAfterCancel(r) ==
  /\ calling
  /\ calling' = FALSE
  /\ SendRefund(r) \/ UNCHANGED <<refund, gateway>>
  /\ UNCHANGED <<status, timer, stay, money, claimed, dispute, strikes, admin>>

\* An admin sends the refund of a dispute once no decision is pending.
FinalizeDisputeRefund(r) ==
  /\ r.dispute.status \notin {"NONE", "OPEN"}
  /\ r.escrow # "FROZEN"
  /\ SendRefund(r)
  /\ UNCHANGED <<status, timer, stay, money, claimed, calling, dispute, strikes, admin>>

-----------------------------------------------------------------------------
(* Disputes and appeals                                                      *)

DisputeOpened(r) ==
  /\ r.status = "CHECKED_IN"
  /\ dispute.status = "NONE"
  /\ status' = "DISPUTED"
  /\ dispute' = [dispute EXCEPT !.status = "OPEN"]
  /\ Freeze(CurrentPosition)

\* openDisputeAction goes on to file the guest's evidence as a report of its own
\* (CreateBookingReport); a crash may come between the two.
OpenDispute(r) ==
  /\ DisputeOpened(r)
  /\ UNCHANGED <<timer, stay, claimed, guestRefund, strikes, admin>>

\* What a decision gives the guest out of a pot, where it leaves the booking.
GuestShare(pot, res) ==
  CASE res.kind = "RELEASED" -> 0
    [] res.kind = "PARTIAL"  -> RefundSatangForPct(pot, res.pct)
    [] res.kind = "REFUNDED" -> pot
ResolvedStatus(res) ==
  CASE res.kind = "RELEASED" -> "RESOLVED_RELEASED"
    [] res.kind = "PARTIAL"  -> "RESOLVED_PARTIAL"
    [] res.kind = "REFUNDED" -> "RESOLVED_REFUNDED"
\* Mutant: every decision that refunds the guest costs the host a strike.
DecideAlwaysStriking(res) ==
  /\ dispute' = [dispute EXCEPT !.status = ResolvedStatus(res)]
  /\ status' = IF res.kind = "REFUNDED" THEN "CANCELLED_BY_HOST" ELSE "COMPLETED"
  /\ strikes' = IF res.kind = "RELEASED" THEN strikes ELSE strikes + 1

Decide(res) ==
  /\ dispute' = [dispute EXCEPT !.status = ResolvedStatus(res)]
  /\ status' = IF res.kind = "REFUNDED" THEN "CANCELLED_BY_HOST" ELSE "COMPLETED"
  /\ strikes' = IF res.kind = "REFUNDED" THEN strikes + 1 ELSE strikes

ResolveDispute(r, p, res) ==
  /\ r.status = "DISPUTED"
  /\ r.dispute.status = "OPEN"
  /\ Decide(res)
  /\ IF res.kind = "RELEASED" THEN UNCHANGED refund
     ELSE RecordRefund(GuestShare(TotalSatang, res))
  /\ Settle(p, GuestShare(TotalSatang, res))
  /\ UNCHANGED <<timer, stay, claimed, gateway, calling, admin>>

AppealDispute(r, p, side) ==
  /\ r.dispute.status \in RESOLVED_DISPUTE_STATUSES
  /\ side \notin r.dispute.appealed
  /\ r.escrow \in FREEZABLE
  /\ ~r.refund.sent
  /\ dispute' = [dispute EXCEPT !.appealed = @ \cup {side}]
  /\ Freeze(p)
  /\ UNCHANGED <<status, timer, stay, claimed, guestRefund, strikes, admin>>

\* The final decision shares out the frozen pot; the Refund row stays the
\* cumulative amount owed.  Only the escrow state says an appeal is pending.
ResolveAppeal(r, p, res) ==
  /\ r.dispute.status # "NONE"
  /\ r.escrow = "FROZEN"
  /\ Decide(res)
  /\ LET share == GuestShare(r.frozen, res)
     IN  /\ IF res.kind = "RELEASED" THEN UNCHANGED refund
            ELSE UpsertRefund(r, share)
         /\ Settle(p, share)
  /\ UNCHANGED <<timer, stay, claimed, gateway, calling, admin>>

-----------------------------------------------------------------------------
(* Reports on the booking (lib/reports, lib/admin/report-review.ts)          *)

CreateBookingReport(k) ==
  /\ status # "NONE"
  /\ report[k] = "NONE"
  /\ report' = [report EXCEPT ![k] = "RECEIVED"]
  /\ UNCHANGED <<status, timer, stay, money, claimed, guestRefund, dispute, strikes, holds, payout>>

AcceptIntoReview(r, p, k) ==
  /\ r.report[k] = "RECEIVED"
  /\ report' = [report EXCEPT ![k] = "IN_REVIEW"]
  /\ IF r.escrow \in FREEZABLE THEN Freeze(p) ELSE UNCHANGED money
  /\ UNCHANGED <<status, timer, stay, claimed, guestRefund, dispute, strikes, holds, payout>>

\* resolveReport and dismissReport; neither touches the escrow.
CloseReport(r, k) ==
  /\ r.report[k] \in {"RECEIVED", "IN_REVIEW"}
  /\ report' = [report EXCEPT ![k] = "CLOSED"]
  /\ UNCHANGED <<status, timer, stay, money, claimed, guestRefund, dispute, strikes, holds, payout>>

\* openDispute, then the report's own transaction (a crash between the two is
\* OpenDispute); the report's status is not checked.
EscalateToDispute(r, k) ==
  /\ r.report[k] # "NONE"
  /\ DisputeOpened(r)
  /\ report' = [report EXCEPT ![k] = "IN_REVIEW"]
  /\ UNCHANGED <<timer, stay, claimed, guestRefund, strikes, holds, payout>>

-----------------------------------------------------------------------------
(* Payouts and manual holds (lib/admin/payout.ts)                            *)

PlaceHold ==
  /\ status # "NONE"
  /\ holds < MaxHolds
  /\ holds' = holds + 1
  /\ UNCHANGED <<status, timer, stay, money, claimed, guestRefund, dispute, strikes, report, payout>>

ReleaseHold ==
  /\ holds > 0
  /\ holds' = holds - 1
  /\ UNCHANGED <<status, timer, stay, money, claimed, guestRefund, dispute, strikes, report, payout>>

\* Mutant: Payout.bookingId is not unique.
MarkPaidAgain(r, p) ==
  /\ r.escrow = "RELEASABLE"
  /\ r.holds = 0
  /\ Pay(p)
  /\ payout' = TotalSatang - CommissionSatang
  /\ UNCHANGED <<status, timer, stay, claimed, guestRefund, dispute, strikes, report, holds>>

\* The payout account and the reconciliation gate are taken as in order.
MarkPaid(r, p) ==
  /\ r.escrow = "RELEASABLE"
  /\ r.holds = 0
  /\ Pay(p)
  /\ payout = NoPayout
  /\ payout' = TotalSatang - CommissionSatang
  /\ UNCHANGED <<status, timer, stay, claimed, guestRefund, dispute, strikes, report, holds>>

-----------------------------------------------------------------------------
Init ==
  /\ status = "NONE"
  /\ timer = "running"
  /\ stay = "before"
  /\ escrow = "NONE"
  /\ ledger = EMPTY_BUCKETS
  /\ claimed = {}
  /\ refund = [exists |-> FALSE, satang |-> 0, sent |-> FALSE]
  /\ gateway = 0
  /\ calling = FALSE
  /\ dispute = [status |-> "NONE", appealed |-> {}]
  /\ strikes = 0
  /\ report = [k \in Reports |-> "NONE"]
  /\ holds = 0
  /\ payout = NoPayout

Clock == TimerElapses \/ StayAdvances
Sweeps == Expire(Rows) \/ CheckIn(Rows) \/ Complete(Rows)

Guest ==
  \/ Request \/ InstantHold
  \/ \E tier \in CancellationTier, d \in LeadDays : CancelByGuest(Rows, tier, d)
  \/ OpenDispute(Rows)
  \/ RefundAfterCancel(Rows)

Host == Accept(Rows) \/ Decline(Rows) \/ CancelByHost(Rows)

Opn == \E e \in OpnEvents : ConfirmFromWebhook(Rows, e)

Decisions ==
  \E res \in DisputeResolution :
    ResolveDispute(Rows, CurrentPosition, res) \/ ResolveAppeal(Rows, CurrentPosition, res)

Admin ==
  \/ Decisions
  \/ FinalizeDisputeRefund(Rows)
  \/ MarkPaid(Rows, CurrentPosition)
  \/ PlaceHold \/ ReleaseHold
  \/ \E k \in Reports :
       \/ AcceptIntoReview(Rows, CurrentPosition, k)
       \/ CloseReport(Rows, k)
       \/ EscalateToDispute(Rows, k)

Parties ==
  \/ \E side \in Sides : AppealDispute(Rows, CurrentPosition, side)
  \/ \E k \in Reports : CreateBookingReport(k)

Next == Clock \/ Sweeps \/ Guest \/ Host \/ Opn \/ Admin \/ Parties

Spec == Init /\ [][Next]_vars

(* Time passes and the scheduler runs every sweep each minute, forever; what *)
(* people do is never fair.                                                  *)
FairSpec ==
  /\ Spec
  /\ WF_vars(TimerElapses) /\ WF_vars(StayAdvances)
  /\ WF_vars(Expire(Rows)) /\ WF_vars(CheckIn(Rows)) /\ WF_vars(Complete(Rows))

-----------------------------------------------------------------------------
(* Properties                                                                *)

\* Every variable stays in its domain: no amount is negative, the Refund row
\* never exceeds the price (upsertRefund accumulates it over the appeals).
TypeOK ==
  /\ status \in BookingStatus
  /\ timer \in {"running", "elapsed"}
  /\ stay \in {"before", "checkedIn", "checkedOut"}
  /\ escrow \in EscrowState
  /\ ledger \in Ledger
  /\ claimed \subseteq OpnEvents
  /\ refund \in [exists : BOOLEAN, satang : 0..TotalSatang, sent : BOOLEAN]
  /\ gateway \in Nat
  /\ calling \in BOOLEAN
  /\ dispute \in [status : DisputeStatus, appealed : SUBSET Sides]
  /\ strikes \in Nat
  /\ report \in [Reports -> ReportStatus]
  /\ holds \in 0..MaxHolds
  /\ payout \in {NoPayout, TotalSatang - CommissionSatang}

\* "Every satang is in exactly one state": all that is left in escrow lies in
\* the bucket that the escrowState cache names, and none is left once the
\* cache says the money is gone.  Payout and refund decisions read the cache,
\* the amounts they move come from the log.
CacheMatchesLedger ==
  /\ \A s \in {"HELD", "RELEASABLE", "FROZEN"} :
       IF s = escrow THEN ledger[s] > 0 ELSE ledger[s] = 0
  /\ InvariantHolds(ledger)

\* The booking status and the escrow state are written by different code, in
\* the same transaction: a booking that died unpaid holds no money, a stay in
\* progress is backed by escrow, a disputed one is frozen, and a booking lost
\* by the host's fault has been given back.
EscrowFitsStatus ==
  /\ status \in {"NONE", "REQUESTED", "AWAITING_PAYMENT", "DECLINED", "EXPIRED"}
       => escrow = "NONE"
  /\ status \in {"CONFIRMED", "CHECKED_IN"} => escrow \in {"HELD", "FROZEN"}
  /\ status = "DISPUTED" => escrow = "FROZEN"
  /\ status = "COMPLETED" => escrow \in {"RELEASABLE", "FROZEN", "PAID", "REVERSED"}
  /\ status = "CANCELLED_BY_GUEST" => escrow # "HELD"
  /\ status = "CANCELLED_BY_HOST" => escrow = "REVERSED"

\* The Refund row is what the gateway path pays out, the log is what the
\* reconciliation counts: across a cancellation, a resolution and any number
\* of appeals they state the same amount.
RefundRowMatchesLedger == refund.satang = Refunded(ledger)

\* A host at fault costs exactly one strike and gives the guest everything
\* back, also when the decision comes on appeal after a partial refund.
HostFaultMakesGuestWhole ==
  /\ strikes = IF status = "CANCELLED_BY_HOST" THEN 1 ELSE 0
  /\ status = "CANCELLED_BY_HOST" => Refunded(ledger) = TotalSatang

\* Money leaves once: refunds and payouts together never exceed what was
\* charged, and the Payout row exists exactly when the escrow was paid out.
MoneyLeavesOnce ==
  /\ Received(ledger) \in {0, TotalSatang}
  /\ Refunded(ledger) + PaidOut(ledger) <= Received(ledger)
  /\ payout # NoPayout <=> escrow = "PAID"

\* Opn never sends the guest more than the ledger recorded as refunded, though
\* the call is made after the transaction and the amount can grow on appeal.
GatewayWithinLedger == gateway <= Refunded(ledger)

\* What makes the properties above inductive: the whole price is in the log
\* once anything is, money is paid out only under PAID, and neither a Refund
\* row that does not exist nor a refund that was not sent has an amount.
MoneyInv ==
  /\ ledger \in Ledger /\ escrow \in EscrowState
  /\ CacheMatchesLedger
  /\ Received(ledger) = IF escrow = "NONE" THEN 0 ELSE TotalSatang
  /\ Refunded(ledger) >= 0 /\ PaidOut(ledger) >= 0
  /\ PaidOut(ledger) > 0 => escrow = "PAID"

RefundRowInv ==
  /\ ~refund.exists => refund.satang = 0 /\ ~refund.sent
  /\ ~refund.sent => gateway = 0

\* The inductive invariant of the booking's handlers: status, cache, log,
\* Refund row, Payout row, strikes and gateway agree after every handler.
BookingInv ==
  /\ TypeOK
  /\ MoneyInv
  /\ RefundRowInv
  /\ EscrowFitsStatus
  /\ RefundRowMatchesLedger
  /\ HostFaultMakesGuestWhole
  /\ MoneyLeavesOnce
  /\ GatewayWithinLedger

\* The transition table of the product flows (section 2.1) and, last, the
\* re-decision of an appeal (section 5.3).
DocumentedSteps ==
  {<<"NONE", "REQUESTED">>, <<"NONE", "AWAITING_PAYMENT">>,
   <<"REQUESTED", "AWAITING_PAYMENT">>, <<"REQUESTED", "DECLINED">>,
   <<"REQUESTED", "EXPIRED">>, <<"REQUESTED", "CANCELLED_BY_GUEST">>,
   <<"AWAITING_PAYMENT", "CONFIRMED">>, <<"AWAITING_PAYMENT", "EXPIRED">>,
   <<"AWAITING_PAYMENT", "CANCELLED_BY_GUEST">>,
   <<"CONFIRMED", "CHECKED_IN">>, <<"CONFIRMED", "CANCELLED_BY_GUEST">>,
   <<"CONFIRMED", "CANCELLED_BY_HOST">>,
   <<"CHECKED_IN", "COMPLETED">>, <<"CHECKED_IN", "DISPUTED">>,
   <<"DISPUTED", "COMPLETED">>, <<"DISPUTED", "CANCELLED_BY_HOST">>,
   <<"COMPLETED", "CANCELLED_BY_HOST">>}

\* The booking follows the transition table, whatever order the guest, the
\* host, the sweeps, Opn and the admins come in.
StatusGraph == [][status' # status => <<status, status'>> \in DocumentedSteps]_vars

\* PAID and REVERSED are final: no later decision, appeal, report or
\* cancellation moves a satang again.
SpentEscrowIsFinal == [][(escrow \in {"PAID", "REVERSED"}) => UNCHANGED money]_vars

\* What the handlers do to the money is what EscrowPromise allows, read off the
\* log and the cache: taken once, shared out in full, never to the host while
\* it is frozen.
Promise == INSTANCE EscrowPromise WITH
  Price <- TotalSatang, kept <- InEscrow(ledger), toGuest <- Refunded(ledger),
  toHost <- PaidOut(ledger), frozen <- escrow = "FROZEN"
PromiseKept == Promise!PromiseSpec

\* An unanswered request and an unpaid booking always end: the sweep expires
\* them if nobody else acts.
UnpaidBookingEnds ==
  status \in {"REQUESTED", "AWAITING_PAYMENT"} ~> status \notin {"REQUESTED", "AWAITING_PAYMENT"}

\* Money in HELD never stays there: the check-in and checkout sweeps alone
\* carry a paid booking to the payout list unless someone settles it before.
HeldMoneyMovesOn == escrow = "HELD" ~> escrow # "HELD"

\* What the sweeps promise together: no booking waits forever, unpaid or paid.
SweepsMoveOn == UnpaidBookingEnds /\ HeldMoneyMovesOn

\* The product flows (2.3): what a partial refund retains is split 90/10, so
\* the host is paid a share of what the ledger pays out of escrow.
PayoutWithinEscrow == payout # NoPayout => payout <= PaidOut(ledger)
=============================================================================
