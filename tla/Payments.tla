------------------------------ MODULE Payments ------------------------------
(***************************************************************************)
(* How a booking is paid: the charges opened for it at Opn, the Payment    *)
(* rows that remember them, and the webhook deliveries that confirm the    *)
(* booking or send a stranded charge back (lib/payments, the pay page, the *)
(* webhook route, the charge of the concierge).  The booking itself is the *)
(* one of Booking: confirmation, expiry and cancellation are its actions.  *)
(*                                                                         *)
(* Neither createChargeForBooking nor applyChargeEvent is a transaction:   *)
(* each of their effects is a step of its own, several deliveries run at   *)
(* once, and a crash of the server ends them all where they stand.         *)
(***************************************************************************)
EXTENDS Booking, FiniteSets

CONSTANTS
  Charges,     \* charges that may be opened for the booking, in this order
  Deliveries,  \* bound: webhook requests being handled at once
  NoCharge,    \* the charge of an event Opn has not sent yet
  MaxCrashes   \* bound: crashes of the server

\* Charges, events and deliveries are numbered in the order they come into being.
ASSUME PaymentsAssumption ==
  /\ Charges \subseteq Nat /\ OpnEvents \subseteq Nat /\ Deliveries \subseteq Nat
  /\ NoCharge \notin Charges /\ MaxCrashes \in Nat

VARIABLES
  opn,      \* the status of each charge at Opn
  opening,  \* how far the handler that opens the charge has come
  row,      \* Payment.status per charge
  sentBack, \* charges Opn refunded in full on behalf of refundStrandedCharge
  about,    \* the charge each webhook event is about
  unacked,  \* events Opn goes on delivering, since no 200 reached it
  run,      \* the deliveries in progress: event, status re-fetched, progress
  receipts, \* PAYMENT_RECEIVED notifications sent
  told,     \* charges whose guest was sent PAYMENT_REFUNDED
  crashes   \* how often the server went down

payVars == <<opn, opening, row, sentBack, about, unacked, run, receipts, told, crashes>>
allVars == <<vars, payVars>>

ChargeStatus == {"none", "pending", "successful", "failed", "expired"}
PaymentStatus == {"none", "PENDING", "SUCCESSFUL", "FAILED", "EXPIRED", "REFUNDED"}
Idle == [at |-> "idle"]

PayInit ==
  /\ Init
  /\ opn = [c \in Charges |-> "none"]
  /\ opening = [c \in Charges |-> "no"]
  /\ row = [c \in Charges |-> "none"]
  /\ sentBack = {} /\ told = {}
  /\ about = [e \in OpnEvents |-> NoCharge]
  /\ unacked = {}
  /\ run = [d \in Deliveries |-> Idle]
  /\ receipts = 0 /\ crashes = 0

-----------------------------------------------------------------------------
(* Opening a charge                                                          *)

\* Mutant: the event does not carry the charge's id.
AnnounceUnnamed(e, c) ==
  /\ about[e] = NoCharge
  /\ unacked' = unacked \cup {e}
  /\ UNCHANGED about

\* Opn sends event e about charge c, until it gets an answer.
Announce(e, c) ==
  /\ about[e] = NoCharge
  /\ \A f \in OpnEvents : f < e => about[f] # NoCharge
  /\ about' = [about EXCEPT ![e] = c]
  /\ unacked' = unacked \cup {e}

\* What a charge that was created pending is announced by, if Opn sends it here.
AnnounceCreated(e, c, outcome) ==
  Announce(e, c) \/ (outcome = "pending" /\ UNCHANGED <<about, unacked>>)

Unopened(c) == opening[c] = "no" /\ \A d \in Charges : d < c => opening[d] # "no"

\* getPromptPayCharge and payWithCard: nothing is opened while a QR is still
\* good, unless the guest asks for a new one.  A card without 3DS is charged
\* before the answer comes; then its event may be handled before the row is there.
OpenCharge(c, method, regenerate, outcome, e) ==
  /\ status = "AWAITING_PAYMENT"
  /\ Unopened(c)
  /\ method = "PROMPTPAY" =>
       /\ outcome = "pending"
       /\ regenerate \/ \A d \in Charges : ~(row[d] = "PENDING" /\ opn[d] = "pending")
  /\ opn' = [opn EXCEPT ![c] = outcome]
  /\ opening' = [opening EXCEPT ![c] = "charged"]
  /\ AnnounceCreated(e, c, outcome)
  /\ UNCHANGED <<vars, row, sentBack, run, receipts, told, crashes>>

\* The charge was paid and confirmed nothing, and no event is left whose handler
\* will find that it was.
Missed(c) ==
  /\ opn[c] = "successful"
  /\ \A e \in OpnEvents : about[e] = c =>
       \/ e \notin unacked \cup claimed
       \/ \E d \in Deliveries : run[d] # Idle /\ run[d].event = e /\ run[d].saw # "successful"

\* payment.create.  ("late" is history: no event is left to find the row.)
SavePayment(c) ==
  /\ opening[c] = "charged"
  /\ opening' = [opening EXCEPT ![c] = IF Missed(c) THEN "late" ELSE "done"]
  /\ row' = [row EXCEPT ![c] = "PENDING"]
  /\ UNCHANGED <<vars, opn, sentBack, about, unacked, run, receipts, told, crashes>>

\* submitDraft opens the charge of an instant booking itself, and no Payment row.
ConciergeCharge(c, e) ==
  /\ InstantHold
  /\ Unopened(c)
  /\ opn' = [opn EXCEPT ![c] = "pending"]
  /\ opening' = [opening EXCEPT ![c] = "done"]
  /\ AnnounceCreated(e, c, "pending")
  /\ UNCHANGED <<row, sentBack, run, receipts, told, crashes>>

\* The guest pays or does not, or the QR runs out; Opn sends charge.complete.
ChargeCompletes(c, outcome, e) ==
  /\ opn[c] = "pending"
  /\ opn' = [opn EXCEPT ![c] = outcome]
  /\ Announce(e, c)
  /\ UNCHANGED <<vars, opening, row, sentBack, run, receipts, told, crashes>>

-----------------------------------------------------------------------------
(* Handling an event (applyChargeEvent)                                      *)

\* Mutant: the event is believed, the charge is not fetched again.
FetchedFromEvent(c) == "successful"

\* retrieveCharge: the status the handler acts on.
Fetched(c) == opn[c]

Deliver(d, e) ==
  /\ run[d] = Idle /\ \A f \in Deliveries : f < d => run[f] # Idle
  /\ e \in unacked
  /\ run' = [run EXCEPT ![d] = [at |-> "fetched", event |-> e, charge |-> about[e],
                                saw |-> Fetched(about[e]), fresh |-> FALSE]]
  /\ UNCHANGED <<vars, opn, opening, row, sentBack, about, unacked, receipts, told, crashes>>

\* The answer 200 may get lost, and then Opn delivers the event again.
Answer200(d) ==
  /\ run' = [run EXCEPT ![d] = Idle]
  /\ \/ unacked' = unacked \ {run[d].event}
     \/ UNCHANGED unacked

\* Mutant: a charge that finds the booking no longer waiting is marked like any other.
ConfirmSwallowing(d) ==
  /\ run[d].at = "fetched" /\ run[d].saw = "successful"
  /\ \/ /\ ConfirmFromWebhook(Rows, run[d].event)
        /\ run' = [run EXCEPT ![d].at = "mark", ![d].fresh = TRUE]
     \/ /\ run[d].event \in claimed \/ status # "AWAITING_PAYMENT"
        /\ run' = [run EXCEPT ![d].at = "mark"]
        /\ UNCHANGED vars
  /\ UNCHANGED <<opn, opening, row, sentBack, about, unacked, receipts, told, crashes>>

\* The transaction of confirmFromWebhook: it confirms the booking, or finds
\* the event claimed already, or refuses a booking that is not waiting.
Confirm(d) ==
  /\ run[d].at = "fetched" /\ run[d].saw = "successful"
  /\ \/ /\ ConfirmFromWebhook(Rows, run[d].event)
        /\ run' = [run EXCEPT ![d].at = "mark", ![d].fresh = TRUE]
     \/ /\ run[d].event \in claimed
        /\ run' = [run EXCEPT ![d].at = "mark"]
        /\ UNCHANGED vars
     \/ /\ run[d].event \notin claimed /\ status # "AWAITING_PAYMENT"
        /\ run' = [run EXCEPT ![d].at = "stranded"]
        /\ UNCHANGED vars
  /\ UNCHANGED <<opn, opening, row, sentBack, about, unacked, receipts, told, crashes>>

\* markPayment writes a row if there is one.
Marked(c, st) == IF row[c] = "none" THEN row ELSE [row EXCEPT ![c] = st]

\* The receipt goes out for a fresh confirmation only.
MarkSuccessful(d) ==
  /\ run[d].at = "mark"
  /\ row' = Marked(run[d].charge, "SUCCESSFUL")
  /\ receipts' = IF run[d].fresh THEN receipts + 1 ELSE receipts
  /\ Answer200(d)
  /\ UNCHANGED <<vars, opn, opening, sentBack, about, told, crashes>>

MarkUnsuccessful(d) ==
  /\ run[d].at = "fetched" /\ run[d].saw \in {"failed", "expired"}
  /\ row' = Marked(run[d].charge, IF run[d].saw = "failed" THEN "FAILED" ELSE "EXPIRED")
  /\ Answer200(d)
  /\ UNCHANGED <<vars, opn, opening, sentBack, about, receipts, told, crashes>>

IgnorePending(d) ==
  /\ run[d].at = "fetched" /\ run[d].saw = "pending"
  /\ Answer200(d)
  /\ UNCHANGED <<vars, opn, opening, row, sentBack, about, receipts, told, crashes>>

\* Mutant: a charge that is not PENDING any more is refunded as well.
ClaimAnyCharge(d) ==
  /\ run[d].at = "stranded"
  /\ row[run[d].charge] # "none"
  /\ row' = [row EXCEPT ![run[d].charge] = "REFUNDED"]
  /\ run' = [run EXCEPT ![d].at = "refund"]
  /\ UNCHANGED <<vars, opn, opening, sentBack, about, unacked, receipts, told, crashes>>

\* Mutant: the guest is told before Opn is called.
ClaimAndTell(d) ==
  /\ run[d].at = "stranded"
  /\ row[run[d].charge] = "PENDING"
  /\ row' = [row EXCEPT ![run[d].charge] = "REFUNDED"]
  /\ told' = told \cup {run[d].charge}
  /\ run' = [run EXCEPT ![d].at = "refund"]
  /\ UNCHANGED <<vars, opn, opening, sentBack, about, unacked, receipts, crashes>>

\* refundStrandedCharge claims the charge by the status of its row; a delivery
\* that finds nothing to claim takes the refund for done.
ClaimRefund(d) ==
  /\ run[d].at = "stranded"
  /\ IF row[run[d].charge] = "PENDING"
       THEN /\ row' = [row EXCEPT ![run[d].charge] = "REFUNDED"]
            /\ run' = [run EXCEPT ![d].at = "refund"]
            /\ UNCHANGED unacked
       ELSE Answer200(d) /\ UNCHANGED row
  /\ UNCHANGED <<vars, opn, opening, sentBack, about, receipts, told, crashes>>

OpnRefundsWhole(c) == c \notin sentBack /\ (row[c] = "SUCCESSFUL" => gateway = 0)

\* The whole charge, then PAYMENT_REFUNDED to the guest.
RefundCall(d) ==
  /\ run[d].at = "refund"
  /\ OpnRefundsWhole(run[d].charge)
  /\ sentBack' = sentBack \cup {run[d].charge}
  /\ told' = told \cup {run[d].charge}
  /\ Answer200(d)
  /\ UNCHANGED <<vars, opn, opening, row, about, receipts, crashes>>

\* Mutant: the claim is not rolled back.
KeepClaim(c) == row

\* The claim goes back to PENDING for the retry.
Unclaimed(c) == IF row[c] = "REFUNDED" THEN [row EXCEPT ![c] = "PENDING"] ELSE row

\* The call throws: the route answers 500.  Opn may have refunded all the same.
RefundCallFails(d) ==
  /\ run[d].at = "refund"
  /\ \/ OpnRefundsWhole(run[d].charge) /\ sentBack' = sentBack \cup {run[d].charge}
     \/ UNCHANGED sentBack
  /\ row' = Unclaimed(run[d].charge)
  /\ run' = [run EXCEPT ![d] = Idle]
  /\ UNCHANGED <<vars, opn, opening, about, unacked, receipts, told, crashes>>

-----------------------------------------------------------------------------
(* The rest of the booking's life, as far as payments see it                 *)

\* refundBookingToGuest: the amount of the Refund row, against the charge whose
\* Payment row is SUCCESSFUL.
RefundAgainstPayment ==
  /\ calling
  /\ calling' = FALSE
  /\ \/ /\ \E c \in Charges : row[c] = "SUCCESSFUL" /\ c \notin sentBack
        /\ SendRefund(Rows)
     \/ UNCHANGED <<refund, gateway>>
  /\ UNCHANGED <<status, timer, stay, money, claimed, dispute, strikes, admin, payVars>>

BookingStep ==
  /\ \/ InstantHold \/ TimerElapses \/ Expire(Rows)
     \/ \E d \in LeadDays : CancelByGuest(Rows, "FLEXIBLE", d)
  /\ UNCHANGED payVars

\* Every handler in progress is gone; a cancellation's refund call as well.
\* (A crash that finds nothing in progress changes nothing.)
Crash ==
  /\ crashes < MaxCrashes
  /\ \/ calling \/ \E d \in Deliveries : run[d] # Idle
     \/ \E c \in Charges : opening[c] = "charged"
  /\ crashes' = crashes + 1
  /\ run' = [d \in Deliveries |-> Idle]
  /\ opening' = [c \in Charges |-> IF opening[c] = "charged" THEN "done" ELSE opening[c]]
  /\ calling' = FALSE
  /\ UNCHANGED <<status, timer, stay, money, claimed, refund, gateway, dispute, strikes, admin,
                 opn, row, sentBack, about, unacked, receipts, told>>

Opening ==
  \E c \in Charges :
    \/ \E e \in OpnEvents :
         \/ \E method \in {"PROMPTPAY", "CARD"}, regenerate \in BOOLEAN,
              outcome \in {"pending", "successful", "failed"} :
                OpenCharge(c, method, regenerate, outcome, e)
         \/ ConciergeCharge(c, e)
         \/ \E outcome \in {"successful", "failed", "expired"} : ChargeCompletes(c, outcome, e)
    \/ SavePayment(c)

\* What a delivery does next when nothing fails.
Handle(d) ==
  \/ Confirm(d) \/ MarkSuccessful(d) \/ MarkUnsuccessful(d) \/ IgnorePending(d)
  \/ ClaimRefund(d) \/ RefundCall(d)

Delivering ==
  \E d \in Deliveries :
    \/ \E e \in OpnEvents : Deliver(d, e)
    \/ Handle(d) \/ RefundCallFails(d)

PayNext == Opening \/ Delivering \/ BookingStep \/ RefundAgainstPayment \/ Crash

PaySpec == PayInit /\ [][PayNext]_allVars

(* Opn repeats an event until it is answered, a handler that runs gets on,   *)
(* and a refund that Opn can make is made in the end.                        *)
FairPaySpec ==
  /\ PaySpec
  /\ \A e \in OpnEvents : WF_allVars(\E d \in Deliveries : Deliver(d, e))
  /\ \A d \in Deliveries : WF_allVars(Handle(d)) /\ SF_allVars(RefundCall(d))
-----------------------------------------------------------------------------
(* Properties                                                                *)

PayTypeOK ==
  /\ TypeOK
  /\ opn \in [Charges -> ChargeStatus]
  /\ opening \in [Charges -> {"no", "charged", "done", "late"}]
  /\ row \in [Charges -> PaymentStatus]
  /\ sentBack \subseteq Charges /\ told \subseteq Charges
  /\ about \in [OpnEvents -> Charges \cup {NoCharge}]
  /\ unacked \subseteq {e \in OpnEvents : about[e] # NoCharge}
  /\ \A d \in Deliveries :
       run[d].at \in {"idle", "fetched", "mark", "stranded", "refund"}
  /\ receipts \in Nat /\ crashes \in 0..MaxCrashes

Confirming(c) == \E e \in claimed : about[e] = c

\* "Re-fetch, not signatures": whatever events arrive early, late or twice, a
\* booking is confirmed only for a charge that Opn says was paid, and for one.
ConfirmedByPaidCharge ==
  /\ \A e \in claimed : opn[about[e]] = "successful"
  /\ Cardinality(claimed) = IF Received(ledger) = 0 THEN 0 ELSE 1

\* refundBookingToGuest refunds against the first SUCCESSFUL row it finds: no
\* delivery, redelivery or stranded charge may make a second one, and the one
\* there is belongs to the charge that confirmed the booking.
OneSuccessfulPayment == \A c \in Charges : row[c] = "SUCCESSFUL" => Confirming(c)

\* "Fires exactly once across webhook re-deliveries": two deliveries never both
\* hold the claim to refund one charge, though the claim can be rolled back.
OneRefundClaim ==
  \A d, f \in Deliveries :
    (d # f /\ run[d].at = "refund" /\ run[f].at = "refund") => run[d].charge # run[f].charge

\* Several charges, their events and their deliveries come to one confirmation, one
\* successful row and one refund each.
PaymentInv == PayTypeOK /\ ConfirmedByPaidCharge /\ OneSuccessfulPayment /\ OneRefundClaim

\* "The guest is only notified once it truly is" refunded; and is sent one
\* receipt at most, for a booking that was confirmed.
GuestIsToldTheTruth ==
  /\ told \subseteq sentBack
  /\ receipts \in 0..Cardinality(claimed)

OneDeliveryPerEvent ==
  \A d, f \in Deliveries :
    (d # f /\ run[d] # Idle /\ run[f] # Idle) => run[d].event # run[f].event

\* A crash came between the claim of charge c and its refund: nothing takes the
\* claim up again (charge.ts:163).
CutOff(c) ==
  /\ crashes > 0 /\ row[c] = "REFUNDED" /\ c \notin sentBack
  /\ \A d \in Deliveries : run[d].at = "refund" => run[d].charge # c

\* A charge whose Payment row is there when an event finds it paid never strands:
\* it confirms the booking or Opn sends it back, whichever deadline, cancellation,
\* other paid charge, other event, failed call or crash comes between - unless the
\* crash cuts its refund off from the claim, or Opn repeats an event while it is
\* being handled.
PaidChargeIsSettled ==
  []OneDeliveryPerEvent =>
    <>[](\A c \in Charges :
           opn[c] = "successful" /\ row[c] # "none" /\ opening[c] = "done"
             => Confirming(c) \/ c \in sentBack \/ CutOff(c))

\* The comment on the paid race: a charge is sent back because the guest was
\* charged for something that cannot be honoured.
HonouredChargeIsKept == \A c \in sentBack : ~Confirming(c)
=============================================================================
