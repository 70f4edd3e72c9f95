------------------------------ MODULE Screens -------------------------------
(***************************************************************************)
(* The pages on which people act on a booking: the guest's trips and       *)
(* dispute pages, the host's requests and bookings, and the admins'        *)
(* dispute, payout and report consoles.  A page reads the rows and offers  *)
(* buttons; what a button may do is decided again by its handler, which is *)
(* an action of Booking.  The two sides repeat the same conditions in      *)
(* different files, and this module compares them, in every state the      *)
(* booking can reach.                                                      *)
(***************************************************************************)
EXTENDS Booking

Shown(button, when) == IF when THEN {button} ELSE {}
Pending == {"REQUESTED", "AWAITING_PAYMENT"}

-----------------------------------------------------------------------------
(* The guest (trips)                                                         *)

\* The tab of the trips list a booking is on.
TripsTab(r) ==
  CASE r.status \in {"CONFIRMED", "CHECKED_IN"} -> "upcoming"
    [] r.status \in Pending -> "pending"
    [] OTHER -> "past"

\* What the list shows on a booking's card; `open` leads to the trip's page.
TripCard(r) ==
  Shown("pay", r.status = "AWAITING_PAYMENT")
    \cup Shown("open", r.status \in Pending \cup {"CONFIRMED", "CHECKED_IN"})
    \cup Shown("withdraw", r.status \in Pending)

\* The trip's page; `case` leads to the dispute page.
TripPage(r) ==
  Shown("pay", r.status = "AWAITING_PAYMENT")
    \cup Shown("withdraw", r.status \in Pending)
    \cup Shown("cancel", r.status = "CONFIRMED")
    \cup Shown("case", r.dispute.status # "NONE" \/ r.status = "CHECKED_IN")
    \cup Shown("report", r.status \notin {"DECLINED", "EXPIRED", "CANCELLED_BY_GUEST", "CANCELLED_BY_HOST"})

DisputePage(r) ==
  IF r.status = "CHECKED_IN" /\ r.dispute.status = "NONE" THEN {"dispute"}
  ELSE Shown("appeal", r.dispute.status \in RESOLVED_DISPUTE_STATUSES
                       /\ "GUEST" \notin r.dispute.appealed)

-----------------------------------------------------------------------------
(* The host                                                                  *)

\* Mutant: the inbox keeps the requests the host has accepted.
HostRequestsKept(r) == IF r.status \in Pending THEN {"accept", "decline"} ELSE {}

HostRequests(r) == IF r.status = "REQUESTED" THEN {"accept", "decline"} ELSE {}

HostBookings(r) == IF r.status \in {"CONFIRMED", "CHECKED_IN"} THEN {"hostCancel", "report"} ELSE {}

-----------------------------------------------------------------------------
(* The admins                                                                *)

\* Mutant: the queue lists open disputes only.
QueueOpenOnly(r) == r.dispute.status = "OPEN"

\* The dispute queue: open disputes, and resolved ones with an appeal armed.
ListOpenDisputes(r) ==
  \/ r.dispute.status = "OPEN"
  \/ /\ r.dispute.status \in RESOLVED_DISPUTE_STATUSES
     /\ r.dispute.appealed # {}
     /\ r.escrow = "FROZEN"

\* The page of one case; without a dispute there is none.
DisputeCasePage(r) ==
  LET isOpen == r.dispute.status = "OPEN"
      awaitingAppeal == ~isOpen /\ r.escrow = "FROZEN"
  IN IF r.dispute.status = "NONE" THEN {}
     ELSE Shown("resolveDispute", isOpen)
            \cup Shown("resolveAppeal", awaitingAppeal)
            \cup Shown("finalizeRefund", ~isOpen /\ ~awaitingAppeal
                                         /\ r.refund.satang > 0 /\ ~r.refund.sent)

\* The due list: every RELEASABLE booking, with the hold that covers it, if any.
LoadPayoutDueList(r) == r.escrow = "RELEASABLE"

\* Payable total of the host's group: held bookings stay listed and count nothing.
GroupTotal(r) ==
  IF LoadPayoutDueList(r) /\ r.holds = 0 THEN TotalSatang - CommissionSatang ELSE 0

\* The payouts page, with the account there and the reconciliation in order.
PayoutsPage(r) ==
  IF ~LoadPayoutDueList(r) THEN {}
  ELSE IF r.holds > 0 THEN {"releaseHold"} ELSE {"markPaid", "placeHold"}

\* The page of a booking's report.
ReportDetailPage(r, k) ==
  IF r.report[k] \notin {"RECEIVED", "IN_REVIEW"} THEN {}
  ELSE Shown("acceptReport", r.report[k] = "RECEIVED") \cup {"escalate", "resolve", "dismiss"}

\* The reports queue, whose order is left out.
ReportsQueue(r) == {k \in Reports : r.report[k] \in {"RECEIVED", "IN_REVIEW"}}

-----------------------------------------------------------------------------
\* What a handler is given beside the button: the tier and the lead time of a
\* cancellation, the decision of an admin.
Choices(button) ==
  CASE button \in {"withdraw", "cancel"} -> [tier : CancellationTier, days : LeadDays]
    [] button \in {"resolveDispute", "resolveAppeal"} -> DisputeResolution
    [] OTHER -> {"none"}

\* The handler behind a button, of a report k.
Handler(button, k, c) ==
  \/ button \in {"withdraw", "cancel"} /\ CancelByGuest(Rows, c.tier, c.days)
  \/ button = "dispute" /\ OpenDispute(Rows)
  \/ button = "appeal" /\ AppealDispute(Rows, CurrentPosition, "GUEST")
  \/ button = "accept" /\ Accept(Rows)
  \/ button = "decline" /\ Decline(Rows)
  \/ button = "hostCancel" /\ CancelByHost(Rows)
  \/ button = "resolveDispute" /\ ResolveDispute(Rows, CurrentPosition, c)
  \/ button = "resolveAppeal" /\ ResolveAppeal(Rows, CurrentPosition, c)
  \/ button = "finalizeRefund" /\ FinalizeDisputeRefund(Rows)
  \/ button = "markPaid" /\ MarkPaid(Rows, CurrentPosition)
  \/ button = "placeHold" /\ PlaceHold
  \/ button = "releaseHold" /\ ReleaseHold
  \/ button = "acceptReport" /\ AcceptIntoReview(Rows, CurrentPosition, k)
  \/ button = "escalate" /\ EscalateToDispute(Rows, k)
  \/ button \in {"resolve", "dismiss"} /\ CloseReport(Rows, k)

\* The first refund of a booking passes the unique Refund row and the reducer.
FirstRefundOk(satang) == ~refund.exists /\ SettleOk(CurrentPosition, satang)

CancelTaken ==
  \/ status \in Pending
  \/ status = "CONFIRMED" /\ \A tier \in CancellationTier, d \in LeadDays :
       FirstRefundOk(RefundSatangForPct(TotalSatang, GuestRefundPct(tier, d)))

DisputeTaken == status = "CHECKED_IN" /\ dispute.status = "NONE" /\ FreezeOk(CurrentPosition)

AppealTaken ==
  /\ dispute.status \in RESOLVED_DISPUTE_STATUSES /\ "GUEST" \notin dispute.appealed
  /\ ~refund.sent /\ FreezeOk(CurrentPosition)

ResolveTaken(res) ==
  /\ status = "DISPUTED" /\ dispute.status = "OPEN"
  /\ res.kind # "RELEASED" => ~refund.exists
  /\ SettleOk(CurrentPosition, GuestShare(TotalSatang, res))

ReResolveTaken(res) ==
  /\ dispute.status # "NONE" /\ escrow = "FROZEN"
  /\ SettleOk(CurrentPosition, GuestShare(InEscrow(ledger), res))

FinalizeTaken ==
  /\ dispute.status \notin {"NONE", "OPEN"} /\ escrow # "FROZEN"
  /\ refund.satang > 0 /\ ~refund.sent /\ OpnAccepts(refund.satang)

\* What lets a press through: the checks of the handler, then those of the reducer,
\* of the unique rows and of Opn, which would roll it back.  A cancellation and a
\* decision have to pass whatever the lead time and the verdict are.
Takes(button, k) ==
  CASE button \in {"withdraw", "cancel"} -> CancelTaken
    [] button = "dispute" -> DisputeTaken
    [] button = "appeal" -> AppealTaken
    [] button \in {"accept", "decline"} -> status = "REQUESTED"
    [] button = "hostCancel" -> status = "CONFIRMED" /\ FirstRefundOk(TotalSatang)
    [] button = "resolveDispute" -> \A res \in DisputeResolution : ResolveTaken(res)
    [] button = "resolveAppeal" -> \A res \in DisputeResolution : ReResolveTaken(res)
    [] button = "finalizeRefund" -> FinalizeTaken
    [] button = "markPaid" -> holds = 0 /\ PayOk(CurrentPosition) /\ payout = NoPayout
    [] button = "placeHold" -> status # "NONE" /\ holds < MaxHolds
    [] button = "releaseHold" -> holds > 0
    [] button = "acceptReport" -> report[k] = "RECEIVED"
    [] button = "escalate" -> report[k] # "NONE" /\ DisputeTaken
    [] button \in {"resolve", "dismiss"} -> report[k] \in {"RECEIVED", "IN_REVIEW"}

Buttons ==
  {"withdraw", "cancel", "dispute", "appeal", "accept", "decline", "hostCancel",
   "resolveDispute", "resolveAppeal", "finalizeRefund", "markPaid", "placeHold",
   "releaseHold", "acceptReport", "escalate", "resolve", "dismiss"}

GuestButtons(r) == (TripCard(r) \cup TripPage(r) \cup DisputePage(r)) \ {"pay", "open", "case", "report"}
HostButtons(r) == (HostRequests(r) \cup HostBookings(r)) \ {"report"}
AdminButtons(r, k) == DisputeCasePage(r) \cup PayoutsPage(r) \cup ReportDetailPage(r, k)

-----------------------------------------------------------------------------
(* Properties                                                                *)

\* Takes is exactly when the handler can complete, for each choice it may be given:
\* no lead time and no verdict makes the difference, and nothing else rolls it back.
TakesIsEnabled ==
  \A k \in Reports, b \in Buttons : \A c \in Choices(b) : Takes(b, k) <=> ENABLED Handler(b, k, c)

\* A report was accepted: an admin froze the payout of this booking, or would have.
UnderReport == \E k \in Reports : report[k] \in {"IN_REVIEW", "CLOSED"}
MoneyMovedOn == escrow \in {"PAID", "REVERSED"} \/ refund.sent \/ UnderReport
                \/ dispute.appealed # {}

\* A button on a page that was just loaded does what it says.  The exceptions: a
\* host may press cancel during a stay, a dispute is refused when a report froze the
\* money, an appeal when the money has moved on, and an escalation without a stay to
\* dispute.
OffersAreTaken ==
  \A k \in Reports :
    \A b \in GuestButtons(Rows) \cup HostButtons(Rows) \cup AdminButtons(Rows, k) :
      ~Takes(b, k) =>
        \/ b = "hostCancel" /\ status = "CHECKED_IN"
        \/ b = "dispute" /\ UnderReport
        \/ b = "appeal" /\ MoneyMovedOn
        \/ b = "escalate" /\ (status # "CHECKED_IN" \/ UnderReport)

\* What a guest reaches from the card of a trip by following the links.
Reached(r) ==
  LET page == IF "open" \in TripCard(r) THEN TripPage(r) ELSE {}
  IN TripCard(r) \cup page \cup (IF "case" \in page THEN DisputePage(r) ELSE {})

\* Nothing that is due is hidden.  A guest reaches every move open to her from the
\* trips list until the trip is on its last tab; each decision an admin can take is on
\* the queue, and the page of the case has its button and no other; money due to the
\* host is on the due list, payable or held; an owed refund has its button.
NothingDueIsHidden ==
  \A k \in Reports :
    /\ TripsTab(Rows) # "past" =>
         \A b \in {"withdraw", "cancel", "dispute"} :
           Takes(b, k) => b \in Reached(Rows) \/ (b \in {"withdraw", "cancel"}
                                                  /\ Reached(Rows) \cap {"withdraw", "cancel"} # {})
    /\ ListOpenDisputes(Rows) <=>
         Takes("resolveDispute", k) \/ (Takes("resolveAppeal", k) /\ dispute.appealed # {})
    /\ ListOpenDisputes(Rows) =>
         \E b \in {"resolveDispute", "resolveAppeal"} : DisputeCasePage(Rows) = {b} /\ Takes(b, k)
    /\ Takes("finalizeRefund", k) /\ dispute.status # "NONE" => "finalizeRefund" \in DisputeCasePage(Rows)
    /\ GroupTotal(Rows) > 0 <=> Takes("markPaid", k)
    /\ escrow = "RELEASABLE" => PayoutsPage(Rows) # {}
    /\ Takes("acceptReport", k) => k \in ReportsQueue(Rows) /\ "acceptReport" \in ReportDetailPage(Rows, k)
=============================================================================
