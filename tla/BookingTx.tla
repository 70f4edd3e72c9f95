------------------------------ MODULE BookingTx -----------------------------
(***************************************************************************)
(* The handlers of Booking as Postgres runs them: READ COMMITTED           *)
(* transactions whose checks use rows that others may change before the    *)
(* writes are committed.  One handler at a time is slow; the others run in *)
(* its gaps, so that every handler is overtaken by every other one.        *)
(*                                                                         *)
(* An UPDATE of the Booking row takes its lock until commit.  A handler    *)
(* that updates the status before it moves money holds that lock when      *)
(* currentPosition reads the escrow, so its position is the one at commit. *)
(* The others (ReadsPositionFirst) compute the position first, and the     *)
(* escrow may change before they append to the ledger.                     *)
(***************************************************************************)
EXTENDS Booking, FiniteSets

CONSTANTS
  Slow,         \* the handlers that may be overtaken while they run
  MaxOvertaken  \* bound: steps of others during one slow handler

VARIABLE slow  \* the slow handler: its name, its progress, what it has read

txVars == <<vars, slow>>

Handlers ==
  {"accept", "decline", "expire", "confirm", "checkIn", "complete", "cancelByGuest",
   "cancelByHost", "openDispute", "resolveDispute", "appealDispute", "resolveAppeal",
   "acceptIntoReview", "markPaid", "refundBookingToGuest"}

ASSUME SlowAssumption == Slow \subseteq Handlers /\ MaxOvertaken \in Nat

ReadsPositionFirst ==
  {"resolveDispute", "appealDispute", "resolveAppeal", "acceptIntoReview", "markPaid"}

\* These update the Dispute row before they read the position: its lock keeps
\* them from passing each other between that read and the commit.
DisputeWriters == {"resolveDispute", "appealDispute", "resolveAppeal"}

Nothing == [op |-> "none"]

\* Mutant: the Dispute row is written after the money has moved.
DisputeUnlocked == FALSE

DisputeLocked == slow # Nothing /\ slow.op \in DisputeWriters /\ slow.at # "read"

\* The writes of one handler, from the rows `r` and the position `p` it read.
Run(op, r, p) ==
  \/ op = "accept" /\ Accept(r)
  \/ op = "decline" /\ Decline(r)
  \/ op = "expire" /\ Expire(r)
  \/ op = "confirm" /\ \E e \in OpnEvents : ConfirmFromWebhook(r, e)
  \/ op = "checkIn" /\ CheckIn(r)
  \/ op = "complete" /\ Complete(r)
  \/ /\ op = "cancelByGuest"
     /\ \E tier \in CancellationTier, d \in LeadDays : CancelByGuest(r, tier, d)
  \/ op = "cancelByHost" /\ CancelByHost(r)
  \/ op = "openDispute" /\ OpenDispute(r)
  \/ op = "openDispute" /\ \E k \in Reports : EscalateToDispute(r, k)
  \/ op = "resolveDispute" /\ \E res \in DisputeResolution : ResolveDispute(r, p, res)
  \/ op = "appealDispute" /\ \E side \in Sides : AppealDispute(r, p, side)
  \/ op = "resolveAppeal" /\ \E res \in DisputeResolution : ResolveAppeal(r, p, res)
  \/ op = "acceptIntoReview" /\ \E k \in Reports : AcceptIntoReview(r, p, k)
  \/ op = "markPaid" /\ MarkPaid(r, p)

-----------------------------------------------------------------------------
\* Everyone else goes on while the slow handler, if there is one, is not done.
Overtake ==
  /\ slow # Nothing => slow.left > 0
  /\ slow' = IF slow = Nothing THEN Nothing ELSE [slow EXCEPT !.left = @ - 1]

\* A handler that nobody overtakes.
Quick ==
  /\ \/ \E op \in Handlers :
          /\ op \in DisputeWriters => ~DisputeLocked
          /\ Run(op, Rows, CurrentPosition)
     \/ RefundAfterCancel(Rows) \/ FinalizeDisputeRefund(Rows)
     \/ PlaceHold \/ ReleaseHold
     \/ \E k \in Reports : CloseReport(Rows, k)
  /\ Overtake

\* Time and new rows change nothing that a handler has read.
Surroundings ==
  /\ slow = Nothing
  /\ \/ Clock \/ Request \/ InstantHold
     \/ \E k \in Reports : CreateBookingReport(k)
  /\ UNCHANGED slow

Started(op) ==
  [op |-> op, at |-> "read", read |-> Rows, pos |-> CurrentPosition, left |-> MaxOvertaken]

\* A handler that would fail even if nobody overtook it is not started.
Begin(op) ==
  /\ slow = Nothing
  /\ ENABLED Run(op, Rows, CurrentPosition)
  /\ slow' = Started(op)
  /\ UNCHANGED vars

\* currentPosition reads the cached state and the log in two statements.
TakeState ==
  /\ slow # Nothing /\ slow.op \in ReadsPositionFirst /\ slow.at = "read"
  /\ slow' = [slow EXCEPT !.at = "half", !.pos.state = escrow]
  /\ UNCHANGED vars

TakeAmount ==
  /\ slow # Nothing /\ slow.at = "half"
  /\ slow' = [slow EXCEPT !.at = "ready", !.pos.amount = InEscrow(ledger)]
  /\ UNCHANGED vars

Commit ==
  /\ slow # Nothing
  /\ IF slow.op \in ReadsPositionFirst
       THEN slow.at = "ready" /\ Run(slow.op, slow.read, slow.pos)
       ELSE Run(slow.op, slow.read, CurrentPosition)
  /\ slow' = Nothing

\* A check or a constraint fails, or the server goes down: nothing is written.
Abort ==
  /\ slow # Nothing
  /\ slow' = Nothing
  /\ UNCHANGED vars

-----------------------------------------------------------------------------
(* refundBookingToGuest is no transaction: it reads the Refund row, calls    *)
(* Opn and then writes opnRefundId.  An abort before the call is a refusal   *)
(* by Opn, one after it is a crash or a failed write.                        *)

BeginRefund ==
  /\ slow = Nothing
  /\ "refundBookingToGuest" \in Slow
  /\ \/ calling /\ calling' = FALSE
     \/ /\ dispute.status \notin {"NONE", "OPEN"} /\ escrow # "FROZEN"
        /\ UNCHANGED calling
  /\ refund.satang > 0 /\ ~refund.sent
  /\ slow' = Started("refundBookingToGuest")
  /\ UNCHANGED <<status, timer, stay, money, claimed, refund, gateway, dispute, strikes, admin>>

CallOpn ==
  /\ slow # Nothing /\ slow.op = "refundBookingToGuest" /\ slow.at = "read"
  /\ OpnAccepts(slow.read.refund.satang)
  /\ gateway' = gateway + slow.read.refund.satang
  /\ slow' = [slow EXCEPT !.at = "ready"]
  /\ UNCHANGED <<status, timer, stay, money, claimed, refund, calling, dispute, strikes, admin>>

StoreRefundId ==
  /\ slow # Nothing /\ slow.op = "refundBookingToGuest" /\ slow.at = "ready"
  /\ refund' = [refund EXCEPT !.sent = TRUE]
  /\ slow' = Nothing
  /\ UNCHANGED <<status, timer, stay, money, claimed, gateway, calling, dispute, strikes, admin>>

-----------------------------------------------------------------------------
TxInit == Init /\ slow = Nothing

TxNext ==
  \/ Quick \/ Surroundings
  \/ \E op \in Slow : Begin(op)
  \/ TakeState \/ TakeAmount \/ Commit \/ Abort
  \/ BeginRefund \/ CallOpn \/ StoreRefundId

TxSpec == TxInit /\ [][TxNext]_txVars
-----------------------------------------------------------------------------
(* Properties that no race of two handlers breaks: what holds them up is a    *)
(* unique row, a row lock or the reducer, not the check made beforehand.     *)

\* The rows stay in their domains and a slow handler in its program.
TxTypeOK ==
  /\ TypeOK
  /\ slow # Nothing =>
       /\ slow.op \in Slow
       /\ slow.at \in {"read", "half", "ready"}
       /\ slow.left \in 0..MaxOvertaken

\* "Idempotent": however many webhook events Opn sends for a charge, and
\* whichever transactions they race, the booking is charged for one of them.
ChargedOnce ==
  /\ Received(ledger) \in {0, TotalSatang}
  /\ Cardinality(claimed) = IF Received(ledger) = 0 THEN 0 ELSE 1

\* Double-pay is structurally impossible: two admins who mark the same booking
\* paid, from one stale due list, pay the host once.
PaidOutOnce ==
  /\ PaidOut(ledger) \in 0..TotalSatang
  /\ PaidOut(ledger) > 0 => payout # NoPayout

\* Two decisions taken at once on one dispute, or a host cancelling twice, cost
\* one strike (the third one suspends the host).
OneStrike == strikes <= 1

\* Whatever decisions and cancellations meet, the log never refunds a guest
\* more than was charged.
RefundedWithinCharge == Refunded(ledger) <= Received(ledger)

\* What no race of two decisions does to the host's record or to the log.
TxInv == TxTypeOK /\ OneStrike /\ RefundedWithinCharge
=============================================================================
