--------------------------- MODULE PaymentsProofs --------------------------
(***************************************************************************)
(* However many charges, webhook events and deliveries there are, a booking*)
(* is confirmed by one paid charge, one delivery refunds a stranded one,   *)
(* and the guest is told what happened.                                    *)
(***************************************************************************)
EXTENDS Payments, BookingProofs, FiniteSetTheorems

\* A delivery being handled.
Work == [at : {"fetched", "mark", "stranded", "refund"}, event : OpnEvents, charge : Charges,
         saw : ChargeStatus, fresh : BOOLEAN]

\* Where a charge, its row and the booking's claim stand to each other.
ChargeInv ==
  /\ \A c \in Charges : opening[c] = "no" => opn[c] = "none"
  /\ \A c \in Charges : opening[c] \notin {"done", "late"} => row[c] = "none"
  /\ \A e \in claimed : about[e] \in Charges /\ opn[about[e]] = "successful"
  /\ claimed = {} <=> escrow = "NONE"
  /\ \A e, f \in claimed : e = f

\* What a delivery may rely on: a final status at Opn is the one it saw, what it marks
\* was claimed, and what it is to refund is still out of a second claimant's reach.
DeliveryInv(d) ==
  /\ about[run[d].event] = run[d].charge
  /\ run[d].saw \in {"successful", "failed", "expired"} => opn[run[d].charge] = run[d].saw
  /\ run[d].at # "fetched" => run[d].saw = "successful"
  /\ run[d].at = "mark" => run[d].event \in claimed
  /\ run[d].at = "refund" => row[run[d].charge] \in {"REFUNDED", "SUCCESSFUL"}
  /\ run[d].fresh => run[d].at = "mark" /\ receipts = 0

\* A receipt is sent, or owed by one delivery, but not both.
ReceiptInv ==
  /\ receipts \in {0, 1}
  /\ receipts = 1 => claimed # {}
  /\ \A d, f \in Deliveries :
       run[d] # Idle /\ run[f] # Idle /\ run[d].fresh /\ run[f].fresh => d = f

\* The inductive invariant of the payments of a booking.
PayIInv ==
  /\ BookingInv
  /\ PayTypeOK
  /\ run \in [Deliveries -> {Idle} \cup Work]
  /\ ChargeInv
  /\ \A d \in Deliveries : run[d] # Idle => DeliveryInv(d)
  /\ ReceiptInv
  /\ OneSuccessfulPayment
  /\ OneRefundClaim
  /\ told \subseteq sentBack

-----------------------------------------------------------------------------
(* Helpers                                                                   *)

LEMMA WorkFields ==
  ASSUME NEW w \in {Idle} \cup Work
  PROVE  /\ w = Idle <=> w.at = "idle"
         /\ w # Idle => /\ w.at \in {"fetched", "mark", "stranded", "refund"}
                        /\ w.event \in OpnEvents /\ w.charge \in Charges
                        /\ w.saw \in ChargeStatus /\ w.fresh \in BOOLEAN
BY DEF Idle, Work

\* What the booking's own invariant needs of a step: one of its handlers, or none.
LEMMA BookingKept ==
  ASSUME PayIInv, [Next]_vars
  PROVE  BookingInv'
BY StepKeeps DEF PayIInv

\* Opn speaks of a charge for the first time in an event: no other event is touched.
LEMMA AnnounceKeeps ==
  ASSUME PayIInv, NEW e \in OpnEvents, NEW c \in Charges,
         Announce(e, c) \/ UNCHANGED <<about, unacked>>
  PROVE  /\ about' \in [OpnEvents -> Charges \cup {NoCharge}]
         /\ unacked' \subseteq {f \in OpnEvents : about'[f] # NoCharge}
         /\ \A f \in OpnEvents : about[f] \in Charges => about'[f] = about[f]
<1>1. /\ about \in [OpnEvents -> Charges \cup {NoCharge}] /\ NoCharge \notin Charges
      /\ unacked \subseteq {f \in OpnEvents : about[f] # NoCharge}
  BY PaymentsAssumption DEF PayIInv, PayTypeOK
<1>2. CASE Announce(e, c)
  <2>1. about[e] = NoCharge /\ about' = [about EXCEPT ![e] = c] /\ unacked' = unacked \cup {e}
    BY <1>2 DEF Announce
  <2> QED BY <1>1, <2>1
<1> QED BY <1>1, <1>2

\* An answer ends a delivery, and takes nothing from the other ones.
LEMMA AnswerKeeps ==
  ASSUME PayIInv, NEW d \in Deliveries, Answer200(d), about' = about
  PROVE  /\ run' = [run EXCEPT ![d] = Idle]
         /\ run' \in [Deliveries -> {Idle} \cup Work]
         /\ unacked' \subseteq {f \in OpnEvents : about'[f] # NoCharge}
BY DEF PayIInv, PayTypeOK, Answer200

\* Claims, the charges of events and final statuses at Opn are never taken back.
Forward ==
  /\ claimed \subseteq claimed'
  /\ \A e \in OpnEvents : about[e] \in Charges => about'[e] = about[e]
  /\ \A c \in Charges : opn[c] \in {"successful", "failed", "expired"} => opn'[c] = opn[c]

\* So a delivery that goes on as it was may still rely on what it relied on.
LEMMA DeliveryKeeps ==
  ASSUME PayIInv, Forward, NEW d \in Deliveries, run[d] # Idle, run'[d] = run[d],
         run[d].fresh => receipts' = receipts,
         run[d].at = "refund" => row'[run[d].charge] \in {"REFUNDED", "SUCCESSFUL"}
  PROVE  DeliveryInv(d)'
<1>1. DeliveryInv(d) /\ run[d] \in {Idle} \cup Work
  BY DEF PayIInv
<1>2. run[d].event \in OpnEvents /\ run[d].charge \in Charges
  BY <1>1, WorkFields
<1> QED BY <1>1, <1>2 DEF DeliveryInv, Forward

\* A step that leaves every delivery where it is.
LEMMA DeliveriesKeep ==
  ASSUME PayIInv, Forward, UNCHANGED <<run, receipts>>,
         \A c \in Charges : row[c] \in {"REFUNDED", "SUCCESSFUL"} => row'[c] = row[c]
  PROVE  /\ \A d \in Deliveries : run'[d] # Idle => DeliveryInv(d)'
         /\ ReceiptInv' /\ OneRefundClaim'
         /\ run' \in [Deliveries -> {Idle} \cup Work]
<1>1. ASSUME NEW d \in Deliveries, run'[d] # Idle PROVE DeliveryInv(d)'
  <2>1. DeliveryInv(d) /\ run[d] \in {Idle} \cup Work /\ run[d] # Idle
    BY <1>1 DEF PayIInv
  <2>2. run[d].charge \in Charges
    BY <2>1, WorkFields
  <2>3. run[d].at = "refund" => row'[run[d].charge] \in {"REFUNDED", "SUCCESSFUL"}
    BY <2>1, <2>2 DEF DeliveryInv
  <2>4. run'[d] = run[d] /\ (run[d].fresh => receipts' = receipts)
    OBVIOUS
  <2> QED BY <2>1, <2>3, <2>4, DeliveryKeeps
<1>2. ReceiptInv'
  BY DEF PayIInv, ReceiptInv, Forward
<1>3. OneRefundClaim' /\ run' \in [Deliveries -> {Idle} \cup Work]
  BY DEF PayIInv, OneRefundClaim
<1> QED BY <1>1, <1>2, <1>3

\* A delivery that ends: the others keep what they rely on.
LEMMA DeliveryEnds ==
  ASSUME PayIInv, Forward, NEW d \in Deliveries, run' = [run EXCEPT ![d] = Idle],
         \A f \in Deliveries \ {d} : run[f] # Idle =>
           /\ run[f].fresh => receipts' = receipts
           /\ run[f].at = "refund" => row'[run[f].charge] \in {"REFUNDED", "SUCCESSFUL"}
  PROVE  /\ \A f \in Deliveries : run'[f] # Idle => DeliveryInv(f)'
         /\ OneRefundClaim' /\ run' \in [Deliveries -> {Idle} \cup Work]
         /\ \A f, g \in Deliveries :
              (run'[f] # Idle /\ run'[g] # Idle /\ run'[f].fresh /\ run'[g].fresh) => f = g
<1>1. /\ run \in [Deliveries -> {Idle} \cup Work] /\ OneRefundClaim /\ ReceiptInv
      /\ \A f \in Deliveries : f # d => run'[f] = run[f]
      /\ run'[d] = Idle
  BY DEF PayIInv
<1>2. ASSUME NEW f \in Deliveries, run'[f] # Idle PROVE DeliveryInv(f)'
  <2>1. f # d /\ run'[f] = run[f] /\ run[f] # Idle
    BY <1>1, <1>2
  <2>2. /\ run[f].fresh => receipts' = receipts
        /\ run[f].at = "refund" => row'[run[f].charge] \in {"REFUNDED", "SUCCESSFUL"}
    BY <2>1
  <2> QED BY <2>1, <2>2, DeliveryKeeps
<1>3. Idle.at # "refund"
  BY DEF Idle
<1>4. OneRefundClaim'
  BY <1>1, <1>3 DEF OneRefundClaim
<1>5. run' \in [Deliveries -> {Idle} \cup Work]
  BY <1>1
<1>6. \A f, g \in Deliveries :
        (run'[f] # Idle /\ run'[g] # Idle /\ run'[f].fresh /\ run'[g].fresh) => f = g
  BY <1>1 DEF ReceiptInv
<1> QED BY <1>2, <1>4, <1>5, <1>6

-----------------------------------------------------------------------------
(* PayIInv is inductive.                                                     *)

LEMMA PayInitEstablishes == PayInit => PayIInv
<1> SUFFICES ASSUME PayInit PROVE PayIInv
  OBVIOUS
<1>1. BookingInv /\ TypeOK /\ claimed = {} /\ escrow = "NONE"
  BY InitEstablishes DEF PayInit, Init, BookingInv
<1>2. PayTypeOK
  <2>1. \A d \in Deliveries : run[d].at = "idle"
    BY DEF PayInit, Idle
  <2> QED BY <1>1, <2>1, PaymentsAssumption DEF PayInit, PayTypeOK, ChargeStatus, PaymentStatus
<1>3. ChargeInv
  BY <1>1 DEF PayInit, ChargeInv
<1>4. /\ run \in [Deliveries -> {Idle} \cup Work]
      /\ \A d \in Deliveries : run[d] = Idle
  BY DEF PayInit
<1>5. ReceiptInv /\ OneSuccessfulPayment /\ told \subseteq sentBack
  BY <1>4 DEF PayInit, ReceiptInv, OneSuccessfulPayment
<1>6. OneRefundClaim
  BY <1>4 DEF OneRefundClaim, Idle
<1> QED BY <1>1, <1>2, <1>3, <1>4, <1>5, <1>6 DEF PayIInv

\* News of a charge whose status was not final: no delivery saw it, and no row knows.
LEMMA NewsKeeps ==
  ASSUME PayIInv, NEW c \in Charges, NEW e \in OpnEvents, NEW outcome \in ChargeStatus,
         BookingInv', claimed' = claimed, escrow' = escrow,
         Announce(e, c) \/ UNCHANGED <<about, unacked>>, opn[c] \in {"none", "pending"}, opn' = [opn EXCEPT ![c] = outcome],
         opening' \in [Charges -> {"no", "charged", "done", "late"}], opening'[c] # "no",
         \A d \in Charges \ {c} : opening'[d] = opening[d],
         opening'[c] \notin {"done", "late"} => row[c] = "none",
         UNCHANGED <<row, sentBack, run, receipts, told, crashes>>
  PROVE  PayIInv'
<1>1. /\ about' \in [OpnEvents -> Charges \cup {NoCharge}]
      /\ unacked' \subseteq {f \in OpnEvents : about'[f] # NoCharge}
      /\ \A f \in OpnEvents : about[f] \in Charges => about'[f] = about[f]
  BY AnnounceKeeps
<1>2. opn \in [Charges -> ChargeStatus] /\ claimed \subseteq OpnEvents
  BY DEF PayIInv, PayTypeOK, TypeOK
<1>3. PayTypeOK'
  <2>1. opn' \in [Charges -> ChargeStatus] /\ TypeOK'
    BY <1>2 DEF BookingInv
  <2> QED BY <1>1, <2>1 DEF PayIInv, PayTypeOK
<1>4. Forward
  BY <1>1, <1>2 DEF Forward
<1>5. \A f \in claimed : about'[f] = about[f] /\ about[f] \in Charges /\ opn[about[f]] = "successful"
  BY <1>1, <1>2 DEF PayIInv, ChargeInv
<1>6. ChargeInv'
  <2>1. \A f \in claimed : about'[f] \in Charges /\ opn'[about'[f]] = "successful"
    BY <1>2, <1>5
  <2>2. \A d \in Charges : opening'[d] = "no" => opn'[d] = "none"
    BY <1>2 DEF PayIInv, ChargeInv
  <2>3. \A d \in Charges : opening'[d] \notin {"done", "late"} => row'[d] = "none"
    BY DEF PayIInv, ChargeInv
  <2> QED BY <2>1, <2>2, <2>3 DEF PayIInv, ChargeInv
<1>7. OneSuccessfulPayment'
  BY <1>5 DEF PayIInv, OneSuccessfulPayment, Confirming
<1>8. UNCHANGED <<run, receipts>> /\ \A d \in Charges : row'[d] = row[d]
  OBVIOUS
<1>9. /\ \A d \in Deliveries : run'[d] # Idle => DeliveryInv(d)'
      /\ ReceiptInv' /\ OneRefundClaim'
      /\ run' \in [Deliveries -> {Idle} \cup Work]
  BY <1>4, <1>8, DeliveriesKeep
<1>10. told' \subseteq sentBack'
  BY DEF PayIInv
<1> QED BY <1>3, <1>6, <1>7, <1>9, <1>10 DEF PayIInv

\* A step of the handler of delivery d that marks nothing and claims nothing: only the
\* delivery moves on, or a payment row takes the status a final charge has at Opn.
LEMMA HandlerKeeps ==
  ASSUME PayIInv, UNCHANGED <<vars, opn, opening, about>>,
         \A c \in Charges : row'[c] # row[c] => row[c] # "none" /\ row'[c] # "none",
         \A c \in Charges : row'[c] = "SUCCESSFUL" => row[c] = "SUCCESSFUL" \/ Confirming(c),
         row' \in [Charges -> PaymentStatus]
  PROVE  /\ BookingInv' /\ ChargeInv' /\ OneSuccessfulPayment' /\ Forward
         /\ TypeOK' /\ opn' \in [Charges -> ChargeStatus]
         /\ opening' \in [Charges -> {"no", "charged", "done", "late"}]
         /\ about' \in [OpnEvents -> Charges \cup {NoCharge}]
<1>1. BookingInv' /\ claimed' = claimed /\ escrow' = escrow
  BY BookingKept DEF vars, money
<1>2. ChargeInv'
  BY <1>1 DEF PayIInv, ChargeInv
<1>3. OneSuccessfulPayment'
  BY <1>1 DEF PayIInv, OneSuccessfulPayment, Confirming
<1>4. Forward
  BY <1>1 DEF Forward
<1> QED BY <1>1, <1>2, <1>3, <1>4 DEF PayIInv, PayTypeOK, BookingInv

\* Confirmation: the event is claimed for a charge that is paid at Opn.
LEMMA ConfirmKeeps ==
  ASSUME PayIInv, NEW d \in Deliveries, Confirm(d)
  PROVE  PayIInv'
<1>1. /\ run \in [Deliveries -> {Idle} \cup Work] /\ run[d] # Idle /\ DeliveryInv(d)
      /\ run[d].at = "fetched" /\ run[d].saw = "successful"
      /\ UNCHANGED <<opn, opening, row, sentBack, about, unacked, receipts, told, crashes>>
  BY DEF PayIInv, Confirm, Idle
<1>2. /\ run[d] \in Work /\ run[d].event \in OpnEvents /\ run[d].charge \in Charges
      /\ run[d].fresh = FALSE
  BY <1>1, WorkFields DEF DeliveryInv
<1>3. opn[run[d].charge] = "successful" /\ about[run[d].event] = run[d].charge
  BY <1>1 DEF DeliveryInv
<1>4. CASE ConfirmFromWebhook(Rows, run[d].event)
             /\ run' = [run EXCEPT ![d].at = "mark", ![d].fresh = TRUE]
  <2>1. BookingInv'
    <3>1. Next
      BY <1>2, <1>4 DEF Next, Opn
    <3> QED BY <3>1, BookingKept
  <2>2. /\ claimed' = claimed \cup {run[d].event} /\ escrow = "NONE" /\ escrow' = "HELD"
    BY <1>4 DEF ConfirmFromWebhook, RecordCharge, ChargeOk, CurrentPosition
  <2>3. claimed = {} /\ claimed' = {run[d].event} /\ receipts = 0
    BY <2>2 DEF PayIInv, ChargeInv, ReceiptInv
  <2>4. /\ run'[d] = [run[d] EXCEPT !.at = "mark", !.fresh = TRUE]
        /\ \A f \in Deliveries : f # d => run'[f] = run[f]
    BY <1>1, <1>4
  <2>5. /\ run'[d] \in Work /\ run'[d].at = "mark" /\ run'[d].fresh = TRUE
        /\ run'[d].event = run[d].event /\ run'[d].charge = run[d].charge
        /\ run'[d].saw = "successful"
    BY <1>1, <1>2, <2>4 DEF Work
  <2>6. run' \in [Deliveries -> {Idle} \cup Work]
    BY <1>1, <1>4, <2>4, <2>5
  <2>7. ChargeInv'
    BY <1>1, <1>2, <1>3, <2>2, <2>3 DEF PayIInv, ChargeInv
  <2>8. Forward
    BY <1>1, <2>2 DEF Forward
  <2>9. \A f \in Deliveries : run[f] # Idle => ~run[f].fresh
    BY <2>3 DEF PayIInv, DeliveryInv
  <2>10. ASSUME NEW f \in Deliveries, run'[f] # Idle PROVE DeliveryInv(f)'
    <3>1. CASE f = d
      BY <1>1, <1>2, <1>3, <2>3, <2>5, <3>1 DEF DeliveryInv
    <3>2. CASE f # d
      <4>1. run'[f] = run[f] /\ run[f] # Idle /\ DeliveryInv(f) /\ receipts' = receipts
        BY <1>1, <2>4, <2>10, <3>2 DEF PayIInv
      <4>2. run[f].at = "refund" => row'[run[f].charge] \in {"REFUNDED", "SUCCESSFUL"}
        BY <1>1, <4>1 DEF DeliveryInv
      <4> QED BY <2>8, <4>1, <4>2, DeliveryKeeps
    <3> QED BY <3>1, <3>2
  <2>11. ReceiptInv'
    BY <1>1, <2>3, <2>4, <2>9 DEF ReceiptInv
  <2>12. OneSuccessfulPayment'
    BY <1>1, <2>2 DEF PayIInv, OneSuccessfulPayment, Confirming
  <2>13. OneRefundClaim'
    <3>1. \A f \in Deliveries : run'[f].at = "refund" => run'[f] = run[f]
      BY <2>4, <2>5
    <3>2. OneRefundClaim
      BY DEF PayIInv
    <3> QED BY <3>1, <3>2 DEF OneRefundClaim
  <2>14. PayTypeOK'
    <3>1. \A f \in Deliveries : run'[f].at \in {"idle", "fetched", "mark", "stranded", "refund"}
      BY <2>4, <2>5 DEF PayIInv, PayTypeOK
    <3> QED BY <1>1, <2>1, <3>1 DEF PayIInv, PayTypeOK, BookingInv
  <2> QED BY <1>1, <2>1, <2>6, <2>7, <2>10, <2>11, <2>12, <2>13, <2>14 DEF PayIInv
<1>5. ASSUME NEW at \in {"mark", "stranded"}, run' = [run EXCEPT ![d].at = at], UNCHANGED vars,
             at = "mark" => run[d].event \in claimed
      PROVE  PayIInv'
  <2>1. /\ BookingInv' /\ ChargeInv' /\ OneSuccessfulPayment' /\ Forward
        /\ TypeOK' /\ opn' \in [Charges -> ChargeStatus]
        /\ opening' \in [Charges -> {"no", "charged", "done", "late"}]
        /\ about' \in [OpnEvents -> Charges \cup {NoCharge}]
    <3>1. row' = row /\ row \in [Charges -> PaymentStatus]
      BY <1>1 DEF PayIInv, PayTypeOK
    <3> QED BY <1>1, <1>5, <3>1, HandlerKeeps
  <2>2. claimed' = claimed
    BY <1>5 DEF vars
  <2>3. /\ run'[d] = [run[d] EXCEPT !.at = at]
        /\ \A f \in Deliveries : f # d => run'[f] = run[f]
    BY <1>1, <1>5
  <2>4. /\ run'[d] \in Work /\ run'[d].at = at /\ run'[d].fresh = FALSE
        /\ run'[d].event = run[d].event /\ run'[d].charge = run[d].charge
        /\ run'[d].saw = "successful"
    BY <1>1, <1>2, <2>3 DEF Work
  <2>5. run' \in [Deliveries -> {Idle} \cup Work]
    BY <1>1, <1>5, <2>3, <2>4
  <2>6. ASSUME NEW f \in Deliveries, run'[f] # Idle PROVE DeliveryInv(f)'
    <3>1. CASE f = d
      BY <1>1, <1>3, <1>5, <2>2, <2>4, <3>1 DEF DeliveryInv
    <3>2. CASE f # d
      <4>1. run'[f] = run[f] /\ run[f] # Idle /\ DeliveryInv(f) /\ receipts' = receipts
        BY <1>1, <2>3, <2>6, <3>2 DEF PayIInv
      <4>2. run[f].at = "refund" => row'[run[f].charge] \in {"REFUNDED", "SUCCESSFUL"}
        BY <1>1, <4>1 DEF DeliveryInv
      <4> QED BY <2>1, <4>1, <4>2, DeliveryKeeps
    <3> QED BY <3>1, <3>2
  <2>7. ReceiptInv'
    BY <1>1, <2>2, <2>3, <2>4 DEF PayIInv, ReceiptInv
  <2>8. OneRefundClaim'
    <3>1. \A f \in Deliveries : run'[f].at = "refund" => run'[f] = run[f]
      BY <2>3, <2>4
    <3>2. OneRefundClaim
      BY DEF PayIInv
    <3> QED BY <3>1, <3>2 DEF OneRefundClaim
  <2>9. PayTypeOK'
    <3>1. \A f \in Deliveries : run'[f].at \in {"idle", "fetched", "mark", "stranded", "refund"}
      BY <2>3, <2>4 DEF PayIInv, PayTypeOK
    <3> QED BY <1>1, <2>1, <3>1 DEF PayIInv, PayTypeOK
  <2> QED BY <1>1, <2>1, <2>5, <2>6, <2>7, <2>8, <2>9 DEF PayIInv
<1> QED BY <1>4, <1>5 DEF Confirm

\* A delivery of an event that Opn has sent begins with the status it fetches.
LEMMA DeliverKeeps ==
  ASSUME PayIInv, NEW d \in Deliveries, NEW e \in OpnEvents, Deliver(d, e)
  PROVE  PayIInv'
<1>1. /\ run \in [Deliveries -> {Idle} \cup Work] /\ e \in unacked
      /\ UNCHANGED <<vars, opn, opening, row, sentBack, about, unacked, receipts, told, crashes>>
  BY DEF PayIInv, Deliver
<1>2. about[e] \in Charges /\ opn[about[e]] \in ChargeStatus
  BY <1>1 DEF PayIInv, PayTypeOK
<1>3. /\ run'[d] = [at |-> "fetched", event |-> e, charge |-> about[e],
                     saw |-> opn[about[e]], fresh |-> FALSE]
      /\ \A f \in Deliveries : f # d => run'[f] = run[f]
      /\ run' = [run EXCEPT ![d] = run'[d]]
  BY <1>1 DEF Deliver, Fetched
<1>4. /\ run'[d] \in Work /\ run'[d].at = "fetched" /\ run'[d].fresh = FALSE
      /\ run'[d].event = e /\ run'[d].charge = about[e] /\ run'[d].saw = opn[about[e]]
  BY <1>2, <1>3 DEF Work
<1>5. /\ BookingInv' /\ ChargeInv' /\ OneSuccessfulPayment' /\ Forward
      /\ TypeOK' /\ opn' \in [Charges -> ChargeStatus]
      /\ opening' \in [Charges -> {"no", "charged", "done", "late"}]
      /\ about' \in [OpnEvents -> Charges \cup {NoCharge}]
  <2>1. row' = row /\ row \in [Charges -> PaymentStatus]
    BY <1>1 DEF PayIInv, PayTypeOK
  <2> QED BY <1>1, <2>1, HandlerKeeps
<1>6. run' \in [Deliveries -> {Idle} \cup Work]
  BY <1>1, <1>3, <1>4
<1>7. ASSUME NEW f \in Deliveries, run'[f] # Idle PROVE DeliveryInv(f)'
  <2>1. CASE f = d
    BY <1>1, <1>4, <2>1 DEF DeliveryInv
  <2>2. CASE f # d
    <3>1. run'[f] = run[f] /\ run[f] # Idle /\ DeliveryInv(f) /\ receipts' = receipts
      BY <1>1, <1>3, <1>7, <2>2 DEF PayIInv
    <3>2. run[f].at = "refund" => row'[run[f].charge] \in {"REFUNDED", "SUCCESSFUL"}
      BY <1>1, <3>1 DEF DeliveryInv
    <3> QED BY <1>5, <3>1, <3>2, DeliveryKeeps
  <2> QED BY <2>1, <2>2
<1>8. ReceiptInv'
  BY <1>1, <1>3, <1>4 DEF PayIInv, ReceiptInv, vars
<1>9. OneRefundClaim'
  <2>1. \A f \in Deliveries : run'[f].at = "refund" => run'[f] = run[f]
    BY <1>3, <1>4
  <2>2. OneRefundClaim
    BY DEF PayIInv
  <2> QED BY <2>1, <2>2 DEF OneRefundClaim
<1>10. PayTypeOK'
  <2>1. \A f \in Deliveries : run'[f].at \in {"idle", "fetched", "mark", "stranded", "refund"}
    BY <1>3, <1>4 DEF PayIInv, PayTypeOK
  <2> QED BY <1>1, <1>5, <2>1 DEF PayIInv, PayTypeOK
<1> QED BY <1>1, <1>5, <1>6, <1>7, <1>8, <1>9, <1>10 DEF PayIInv

\* A delivery that is answered, or fails, and leaves a row that is right.
LEMMA EndKeeps ==
  ASSUME PayIInv, NEW d \in Deliveries, run[d] # Idle,
         run' = [run EXCEPT ![d] = Idle], UNCHANGED <<vars, opn, opening, about, crashes>>,
         unacked' \subseteq unacked,
         row' \in [Charges -> PaymentStatus],
         \A c \in Charges : row'[c] # row[c] => row[c] # "none" /\ row'[c] # "none",
         \A c \in Charges : row'[c] = "SUCCESSFUL" => row[c] = "SUCCESSFUL" \/ Confirming(c),
         \A f \in Deliveries \ {d} : run[f] # Idle =>
           /\ run[f].fresh => receipts' = receipts
           /\ run[f].at = "refund" => row'[run[f].charge] \in {"REFUNDED", "SUCCESSFUL"},
         receipts' \in {0, 1}, receipts' = 1 => claimed # {},
         sentBack' \subseteq Charges, told' \subseteq sentBack'
  PROVE  PayIInv'
<1>1. /\ BookingInv' /\ ChargeInv' /\ OneSuccessfulPayment' /\ Forward
      /\ TypeOK' /\ opn' \in [Charges -> ChargeStatus]
      /\ opening' \in [Charges -> {"no", "charged", "done", "late"}]
      /\ about' \in [OpnEvents -> Charges \cup {NoCharge}]
  BY HandlerKeeps
<1>2. /\ \A f \in Deliveries : run'[f] # Idle => DeliveryInv(f)'
      /\ OneRefundClaim' /\ run' \in [Deliveries -> {Idle} \cup Work]
      /\ \A f, g \in Deliveries :
           (run'[f] # Idle /\ run'[g] # Idle /\ run'[f].fresh /\ run'[g].fresh) => f = g
  BY <1>1, DeliveryEnds
<1>3. claimed' = claimed
  BY DEF vars
<1>4. ReceiptInv'
  BY <1>2, <1>3 DEF ReceiptInv
<1>5. PayTypeOK'
  <2>1. \A f \in Deliveries : run'[f].at \in {"idle", "fetched", "mark", "stranded", "refund"}
    BY <1>2, WorkFields
  <2>2. unacked' \subseteq {e \in OpnEvents : about'[e] # NoCharge}
    BY DEF PayIInv, PayTypeOK
  <2>3. receipts' \in Nat /\ crashes' \in 0..MaxCrashes /\ told' \subseteq Charges
    BY DEF PayIInv, PayTypeOK
  <2> QED BY <1>1, <2>1, <2>2, <2>3 DEF PayTypeOK
<1> QED BY <1>1, <1>2, <1>4, <1>5 DEF PayIInv

\* What is known of a delivery d that is not idle, and of any other one beside it.
LEMMA AtWork ==
  ASSUME PayIInv, NEW d \in Deliveries, run[d].at # "idle"
  PROVE  /\ run[d] # Idle /\ DeliveryInv(d) /\ run[d] \in Work
         /\ run[d].charge \in Charges /\ run[d].event \in OpnEvents
         /\ \A f \in Deliveries : run[f] # Idle => DeliveryInv(f) /\ run[f].charge \in Charges
         /\ row \in [Charges -> PaymentStatus]
         /\ told \subseteq sentBack /\ sentBack \subseteq Charges
         /\ receipts \in {0, 1} /\ (receipts = 1 => claimed # {})
<1>1. /\ run \in [Deliveries -> {Idle} \cup Work]
      /\ \A f \in Deliveries : run[f] # Idle => DeliveryInv(f)
  BY DEF PayIInv
<1>2. run[d] # Idle /\ run[d] \in Work
  BY <1>1, WorkFields
<1>3. \A f \in Deliveries : run[f] # Idle =>
        DeliveryInv(f) /\ run[f].charge \in Charges /\ run[f].event \in OpnEvents
  BY <1>1, WorkFields
<1> QED BY <1>2, <1>3 DEF PayIInv, PayTypeOK, ReceiptInv

\* The receipt goes out once: the delivery that confirmed is the only fresh one.
LEMMA MarkSuccessfulKeeps ==
  ASSUME PayIInv, NEW d \in Deliveries, MarkSuccessful(d)
  PROVE  PayIInv'
<1>1. run[d].at = "mark" /\ run[d].at # "idle" /\ Answer200(d)
  BY DEF MarkSuccessful
<1>2. /\ run[d] # Idle /\ DeliveryInv(d) /\ run[d].charge \in Charges
      /\ \A f \in Deliveries : run[f] # Idle => DeliveryInv(f) /\ run[f].charge \in Charges
      /\ row \in [Charges -> PaymentStatus]
      /\ told \subseteq sentBack /\ sentBack \subseteq Charges
      /\ receipts \in {0, 1} /\ (receipts = 1 => claimed # {})
  BY <1>1, AtWork
<1>3. run[d].event \in claimed /\ Confirming(run[d].charge)
  BY <1>1, <1>2 DEF DeliveryInv, Confirming
<1>4. row' = row \/ (row[run[d].charge] # "none" /\ row' = [row EXCEPT ![run[d].charge] = "SUCCESSFUL"])
  BY DEF MarkSuccessful, Marked
<1>5. \A c \in Charges : row'[c] = row[c]
        \/ (row[c] # "none" /\ row'[c] = "SUCCESSFUL" /\ c = run[d].charge)
  BY <1>2, <1>4
<1>6. row' \in [Charges -> PaymentStatus]
  BY <1>2, <1>4 DEF PaymentStatus
<1>7. /\ \A c \in Charges : row'[c] # row[c] => row[c] # "none" /\ row'[c] # "none"
      /\ \A c \in Charges : row'[c] = "SUCCESSFUL" => row[c] = "SUCCESSFUL" \/ Confirming(c)
  BY <1>3, <1>5
<1>8. \A f \in Deliveries \ {d} : run[f] # Idle =>
        /\ run[f].fresh => receipts' = receipts
        /\ run[f].at = "refund" => row'[run[f].charge] \in {"REFUNDED", "SUCCESSFUL"}
  <2>1. ASSUME NEW f \in Deliveries \ {d}, run[f] # Idle, run[f].fresh PROVE receipts' = receipts
    <3>1. ~run[d].fresh
      BY <1>2, <2>1 DEF PayIInv, ReceiptInv
    <3> QED BY <3>1 DEF MarkSuccessful
  <2>2. ASSUME NEW f \in Deliveries \ {d}, run[f] # Idle, run[f].at = "refund"
        PROVE  row'[run[f].charge] \in {"REFUNDED", "SUCCESSFUL"}
    BY <1>2, <1>5, <2>2 DEF DeliveryInv
  <2> QED BY <2>1, <2>2
<1>9. receipts' \in {0, 1} /\ (receipts' = 1 => claimed # {})
  <2>1. CASE run[d].fresh
    BY <1>2, <1>3, <2>1 DEF MarkSuccessful, DeliveryInv
  <2>2. CASE ~run[d].fresh
    BY <1>2, <2>2 DEF MarkSuccessful
  <2> QED BY <2>1, <2>2
<1>10. /\ run' = [run EXCEPT ![d] = Idle] /\ unacked' \subseteq unacked
       /\ UNCHANGED <<vars, opn, opening, about, crashes>>
       /\ sentBack' \subseteq Charges /\ told' \subseteq sentBack'
  BY <1>1, <1>2 DEF MarkSuccessful, Answer200
<1> QED BY <1>2, <1>6, <1>7, <1>8, <1>9, <1>10, EndKeeps

\* A charge that failed is nobody's to refund.
LEMMA MarkUnsuccessfulKeeps ==
  ASSUME PayIInv, NEW d \in Deliveries, MarkUnsuccessful(d)
  PROVE  PayIInv'
<1>1. run[d].at = "fetched" /\ run[d].at # "idle" /\ Answer200(d) /\ run[d].saw \in {"failed", "expired"}
  BY DEF MarkUnsuccessful
<1>2. /\ run[d] # Idle /\ DeliveryInv(d) /\ run[d].charge \in Charges
      /\ \A f \in Deliveries : run[f] # Idle => DeliveryInv(f) /\ run[f].charge \in Charges
      /\ row \in [Charges -> PaymentStatus]
      /\ told \subseteq sentBack /\ sentBack \subseteq Charges
      /\ receipts \in {0, 1} /\ (receipts = 1 => claimed # {})
  BY <1>1, AtWork
<1>3. opn[run[d].charge] \in {"failed", "expired"}
  BY <1>1, <1>2 DEF DeliveryInv
<1>4. PICK st \in {"FAILED", "EXPIRED"} : row' = Marked(run[d].charge, st)
  BY DEF MarkUnsuccessful
<1>5. row' = row \/ (row[run[d].charge] # "none" /\ row' = [row EXCEPT ![run[d].charge] = st])
  BY <1>4 DEF Marked
<1>6. \A c \in Charges : row'[c] = row[c]
        \/ (row[c] # "none" /\ row'[c] = st /\ c = run[d].charge)
  BY <1>2, <1>5
<1>7. row' \in [Charges -> PaymentStatus]
  BY <1>2, <1>5 DEF PaymentStatus
<1>8. /\ \A c \in Charges : row'[c] # row[c] => row[c] # "none" /\ row'[c] # "none"
      /\ \A c \in Charges : row'[c] = "SUCCESSFUL" => row[c] = "SUCCESSFUL" \/ Confirming(c)
  BY <1>6
<1>9. UNCHANGED <<vars, opn, opening, sentBack, about, receipts, told, crashes>>
  BY DEF MarkUnsuccessful
<1>10. \A f \in Deliveries \ {d} : run[f] # Idle =>
        /\ run[f].fresh => receipts' = receipts
        /\ run[f].at = "refund" => row'[run[f].charge] \in {"REFUNDED", "SUCCESSFUL"}
  <2>1. ASSUME NEW f \in Deliveries \ {d}, run[f] # Idle, run[f].at = "refund"
        PROVE  row'[run[f].charge] \in {"REFUNDED", "SUCCESSFUL"}
    <3>1. opn[run[f].charge] = "successful" /\ row[run[f].charge] \in {"REFUNDED", "SUCCESSFUL"}
      BY <1>2, <2>1 DEF DeliveryInv
    <3> QED BY <1>2, <1>3, <1>6, <2>1, <3>1
  <2> QED BY <1>9, <2>1
<1>11. /\ run' = [run EXCEPT ![d] = Idle] /\ unacked' \subseteq unacked
       /\ sentBack' \subseteq Charges /\ told' \subseteq sentBack'
       /\ receipts' \in {0, 1} /\ (receipts' = 1 => claimed # {})
  BY <1>1, <1>2, <1>9 DEF Answer200
<1> QED BY <1>2, <1>7, <1>8, <1>9, <1>10, <1>11, EndKeeps

\* A delivery that ends with every row as it was.
LEMMA QuietEndKeeps ==
  ASSUME PayIInv, NEW d \in Deliveries, run[d].at # "idle",
         run' = [run EXCEPT ![d] = Idle], unacked' \subseteq unacked,
         UNCHANGED <<vars, opn, opening, row, about, receipts, crashes>>,
         sentBack' \subseteq Charges, told' \subseteq sentBack'
  PROVE  PayIInv'
<1>1. /\ run[d] # Idle
      /\ \A f \in Deliveries : run[f] # Idle => DeliveryInv(f) /\ run[f].charge \in Charges
      /\ row \in [Charges -> PaymentStatus]
      /\ receipts \in {0, 1} /\ (receipts = 1 => claimed # {})
  BY AtWork
<1>2. \A f \in Deliveries \ {d} : run[f] # Idle =>
        /\ run[f].fresh => receipts' = receipts
        /\ run[f].at = "refund" => row'[run[f].charge] \in {"REFUNDED", "SUCCESSFUL"}
  BY <1>1 DEF DeliveryInv
<1>3. /\ row' \in [Charges -> PaymentStatus] /\ receipts' \in {0, 1} /\ (receipts' = 1 => claimed # {})
      /\ \A c \in Charges : row'[c] = row[c]
  BY <1>1
<1> QED BY <1>1, <1>2, <1>3, EndKeeps

\* A stranded charge is claimed by the row that is still PENDING: nobody else holds it.
LEMMA ClaimRefundKeeps ==
  ASSUME PayIInv, NEW d \in Deliveries, ClaimRefund(d)
  PROVE  PayIInv'
<1>1. /\ run[d].at = "stranded" /\ run[d].at # "idle"
      /\ UNCHANGED <<vars, opn, opening, sentBack, about, receipts, told, crashes>>
  BY DEF ClaimRefund
<1>2. /\ run[d] # Idle /\ DeliveryInv(d) /\ run[d] \in Work
      /\ run[d].charge \in Charges /\ run[d].event \in OpnEvents
      /\ \A f \in Deliveries : run[f] # Idle => DeliveryInv(f) /\ run[f].charge \in Charges
      /\ row \in [Charges -> PaymentStatus]
      /\ told \subseteq sentBack /\ sentBack \subseteq Charges
  BY <1>1, AtWork
<1>3. CASE row[run[d].charge] # "PENDING"
  <2>1. /\ run' = [run EXCEPT ![d] = Idle] /\ unacked' \subseteq unacked /\ row' = row
        /\ sentBack' \subseteq Charges /\ told' \subseteq sentBack'
    BY <1>1, <1>2, <1>3 DEF ClaimRefund, Answer200
  <2> QED BY <1>1, <2>1, QuietEndKeeps
<1>4. CASE row[run[d].charge] = "PENDING"
  <2>1. /\ row' = [row EXCEPT ![run[d].charge] = "REFUNDED"]
        /\ run' = [run EXCEPT ![d].at = "refund"] /\ unacked' = unacked
    BY <1>4 DEF ClaimRefund
  <2>2. /\ row' \in [Charges -> PaymentStatus] /\ row'[run[d].charge] = "REFUNDED"
        /\ \A c \in Charges : c # run[d].charge => row'[c] = row[c]
    BY <1>2, <2>1 DEF PaymentStatus
  <2>3. /\ BookingInv' /\ ChargeInv' /\ OneSuccessfulPayment' /\ Forward
        /\ TypeOK' /\ opn' \in [Charges -> ChargeStatus]
        /\ opening' \in [Charges -> {"no", "charged", "done", "late"}]
        /\ about' \in [OpnEvents -> Charges \cup {NoCharge}]
    <3>1. \A c \in Charges : row'[c] # row[c] => row[c] # "none" /\ row'[c] # "none"
      BY <1>4, <2>2
    <3>2. \A c \in Charges : row'[c] = "SUCCESSFUL" => row[c] = "SUCCESSFUL" \/ Confirming(c)
      BY <2>2
    <3> QED BY <1>1, <2>2, <3>1, <3>2, HandlerKeeps
  <2>4. /\ run \in [Deliveries -> {Idle} \cup Work]
        /\ run'[d] = [run[d] EXCEPT !.at = "refund"]
        /\ \A f \in Deliveries : f # d => run'[f] = run[f]
    BY <2>1 DEF PayIInv
  <2>5. /\ run'[d] \in Work /\ run'[d].at = "refund" /\ run'[d].fresh = run[d].fresh
        /\ run'[d].event = run[d].event /\ run'[d].charge = run[d].charge
        /\ run'[d].saw = run[d].saw
    BY <1>2, <2>4 DEF Work
  <2>6. run' \in [Deliveries -> {Idle} \cup Work]
    BY <2>1, <2>4, <2>5
  <2>7. \A f \in Deliveries \ {d} : run[f].at = "refund" => run[f].charge # run[d].charge
    <3>1. \A f \in Deliveries : run[f].at = "refund" => run[f] # Idle
      BY DEF Idle
    <3> QED BY <1>2, <1>4, <3>1 DEF DeliveryInv
  <2>8. ASSUME NEW f \in Deliveries, run'[f] # Idle PROVE DeliveryInv(f)'
    <3>1. CASE f = d
      BY <1>1, <1>2, <2>2, <2>5, <3>1 DEF DeliveryInv
    <3>2. CASE f # d
      <4>1. run'[f] = run[f] /\ run[f] # Idle /\ DeliveryInv(f) /\ receipts' = receipts
        BY <1>1, <1>2, <2>4, <2>8, <3>2
      <4>2. run[f].at = "refund" => row'[run[f].charge] \in {"REFUNDED", "SUCCESSFUL"}
        BY <1>2, <2>2, <2>7, <3>2, <4>1 DEF DeliveryInv
      <4> QED BY <2>3, <4>1, <4>2, DeliveryKeeps
    <3> QED BY <3>1, <3>2
  <2>9. ReceiptInv'
    <3>1. ~run'[d].fresh
      BY <1>1, <1>2, <2>5 DEF DeliveryInv
    <3> QED BY <1>1, <2>4, <3>1 DEF PayIInv, ReceiptInv, vars
  <2>10. OneRefundClaim'
    <3>1. OneRefundClaim
      BY DEF PayIInv
    <3>2. ASSUME NEW f \in Deliveries, NEW g \in Deliveries, f # g,
                 run'[f].at = "refund", run'[g].at = "refund"
          PROVE  run'[f].charge # run'[g].charge
      <4>1. CASE f = d
        BY <2>4, <2>5, <2>7, <3>2, <4>1
      <4>2. CASE g = d
        BY <2>4, <2>5, <2>7, <3>2, <4>2
      <4>3. CASE f # d /\ g # d
        BY <2>4, <3>1, <3>2, <4>3 DEF OneRefundClaim
      <4> QED BY <4>1, <4>2, <4>3
    <3> QED BY <3>2 DEF OneRefundClaim
  <2>11. PayTypeOK'
    <3>1. \A f \in Deliveries : run'[f].at \in {"idle", "fetched", "mark", "stranded", "refund"}
      BY <2>6, WorkFields
    <3> QED BY <1>1, <2>1, <2>2, <2>3, <3>1 DEF PayIInv, PayTypeOK
  <2>12. told' \subseteq sentBack'
    BY <1>1, <1>2
  <2> QED BY <2>3, <2>6, <2>8, <2>9, <2>10, <2>11, <2>12 DEF PayIInv
<1> QED BY <1>3, <1>4

\* A refund call that throws puts its own claim back, which no other delivery holds.
LEMMA RefundCallFailsKeeps ==
  ASSUME PayIInv, NEW d \in Deliveries, RefundCallFails(d)
  PROVE  PayIInv'
<1>1. /\ run[d].at = "refund" /\ run[d].at # "idle" /\ run' = [run EXCEPT ![d] = Idle]
      /\ UNCHANGED <<vars, opn, opening, about, unacked, receipts, told, crashes>>
  BY DEF RefundCallFails
<1>2. /\ run[d] # Idle /\ DeliveryInv(d) /\ run[d].charge \in Charges
      /\ \A f \in Deliveries : run[f] # Idle => DeliveryInv(f) /\ run[f].charge \in Charges
      /\ row \in [Charges -> PaymentStatus]
      /\ told \subseteq sentBack /\ sentBack \subseteq Charges
      /\ receipts \in {0, 1} /\ (receipts = 1 => claimed # {})
  BY <1>1, AtWork
<1>3. /\ row' \in [Charges -> PaymentStatus]
      /\ \A c \in Charges : row'[c] = row[c]
           \/ (row[c] = "REFUNDED" /\ row'[c] = "PENDING" /\ c = run[d].charge)
  BY <1>2 DEF RefundCallFails, Unclaimed, PaymentStatus
<1>4. /\ \A c \in Charges : row'[c] # row[c] => row[c] # "none" /\ row'[c] # "none"
      /\ \A c \in Charges : row'[c] = "SUCCESSFUL" => row[c] = "SUCCESSFUL" \/ Confirming(c)
  BY <1>3
<1>5. \A f \in Deliveries \ {d} : run[f] # Idle =>
        /\ run[f].fresh => receipts' = receipts
        /\ run[f].at = "refund" => row'[run[f].charge] \in {"REFUNDED", "SUCCESSFUL"}
  <2>1. ASSUME NEW f \in Deliveries \ {d}, run[f] # Idle, run[f].at = "refund"
        PROVE  row'[run[f].charge] \in {"REFUNDED", "SUCCESSFUL"}
    <3>1. row[run[f].charge] \in {"REFUNDED", "SUCCESSFUL"} /\ run[f].charge \in Charges
      BY <1>2, <2>1 DEF DeliveryInv
    <3>2. run[f].charge # run[d].charge
      BY <1>1, <2>1 DEF PayIInv, OneRefundClaim
    <3> QED BY <1>3, <3>1, <3>2
  <2> QED BY <1>1, <2>1
<1>6. sentBack' \subseteq Charges /\ told' \subseteq sentBack'
  BY <1>1, <1>2 DEF RefundCallFails
<1>7. receipts' \in {0, 1} /\ (receipts' = 1 => claimed # {}) /\ unacked' \subseteq unacked
  BY <1>1, <1>2
<1> QED BY <1>1, <1>2, <1>3, <1>4, <1>5, <1>6, <1>7, EndKeeps

\* payment.create: the row is new, so no claim and no success hangs on it.
LEMMA SavePaymentKeeps ==
  ASSUME PayIInv, NEW c \in Charges, SavePayment(c)
  PROVE  PayIInv'
<1>1. /\ opening[c] = "charged" /\ row' = [row EXCEPT ![c] = "PENDING"]
      /\ UNCHANGED <<vars, opn, sentBack, about, unacked, run, receipts, told, crashes>>
      /\ \E to \in {"done", "late"} : opening' = [opening EXCEPT ![c] = to]
  BY DEF SavePayment
<1>2. /\ opening \in [Charges -> {"no", "charged", "done", "late"}] /\ row \in [Charges -> PaymentStatus]
      /\ row[c] = "none"
  BY <1>1 DEF PayIInv, PayTypeOK, ChargeInv
<1>3. BookingInv' /\ TypeOK' /\ claimed' = claimed /\ escrow' = escrow
  BY <1>1, BookingKept DEF vars, money, BookingInv
<1>4. PayTypeOK'
  <2>1. /\ opening' \in [Charges -> {"no", "charged", "done", "late"}] /\ row' \in [Charges -> PaymentStatus]
    BY <1>1, <1>2 DEF PaymentStatus
  <2> QED BY <1>1, <1>3, <2>1 DEF PayIInv, PayTypeOK
<1>5. ChargeInv'
  <2>1. \A d \in Charges : opening'[d] = "no" => opn'[d] = "none"
    BY <1>1, <1>2 DEF PayIInv, ChargeInv
  <2>2. \A d \in Charges : opening'[d] \notin {"done", "late"} => row'[d] = "none"
    BY <1>1, <1>2 DEF PayIInv, ChargeInv
  <2> QED BY <1>1, <1>3, <2>1, <2>2 DEF PayIInv, ChargeInv
<1>6. OneSuccessfulPayment'
  BY <1>1, <1>2, <1>3 DEF PayIInv, OneSuccessfulPayment, Confirming
<1>7. Forward
  BY <1>1, <1>3 DEF Forward
<1>8. /\ UNCHANGED <<run, receipts>>
      /\ \A d \in Charges : row[d] \in {"REFUNDED", "SUCCESSFUL"} => row'[d] = row[d]
  BY <1>1, <1>2
<1>9. /\ \A d \in Deliveries : run'[d] # Idle => DeliveryInv(d)'
      /\ ReceiptInv' /\ OneRefundClaim'
      /\ run' \in [Deliveries -> {Idle} \cup Work]
  BY <1>7, <1>8, DeliveriesKeep
<1>10. told' \subseteq sentBack'
  BY <1>1 DEF PayIInv
<1> QED BY <1>3, <1>4, <1>5, <1>6, <1>9, <1>10 DEF PayIInv

\* A step of the booking: no claim is made, and money that was charged stays charged.
LEMMA BookingStepKeeps ==
  ASSUME PayIInv, BookingInv', UNCHANGED payVars, claimed' = claimed,
         escrow' = "NONE" <=> escrow = "NONE"
  PROVE  PayIInv'
<1>1. UNCHANGED <<opn, opening, row, sentBack, about, unacked, run, receipts, told, crashes>>
  BY DEF payVars
<1>2. PayTypeOK' /\ ChargeInv' /\ OneSuccessfulPayment' /\ Forward /\ told' \subseteq sentBack'
  <2>1. TypeOK'
    BY DEF BookingInv
  <2>2. PayTypeOK'
    BY <1>1, <2>1 DEF PayIInv, PayTypeOK
  <2>3. ChargeInv'
    BY <1>1 DEF PayIInv, ChargeInv
  <2>4. OneSuccessfulPayment' /\ Forward /\ told' \subseteq sentBack'
    BY <1>1 DEF PayIInv, OneSuccessfulPayment, Confirming, Forward
  <2> QED BY <2>2, <2>3, <2>4
<1>3. UNCHANGED <<run, receipts>> /\ \A c \in Charges : row'[c] = row[c]
  BY <1>1
<1>4. /\ \A d \in Deliveries : run'[d] # Idle => DeliveryInv(d)'
      /\ ReceiptInv' /\ OneRefundClaim'
      /\ run' \in [Deliveries -> {Idle} \cup Work]
  BY <1>2, <1>3, DeliveriesKeep
<1> QED BY <1>2, <1>4 DEF PayIInv

\* The crash ends every delivery and the cancellation that waits for its refund call.
LEMMA CrashKeeps ==
  ASSUME PayIInv, Crash
  PROVE  PayIInv'
<1>1. /\ crashes < MaxCrashes /\ crashes' = crashes + 1 /\ calling' = FALSE
      /\ run' = [d \in Deliveries |-> Idle]
      /\ opening' = [c \in Charges |-> IF opening[c] = "charged" THEN "done" ELSE opening[c]]
      /\ UNCHANGED <<status, timer, stay, money, claimed, refund, gateway, dispute, strikes, admin>>
      /\ UNCHANGED <<opn, row, sentBack, about, unacked, receipts, told>>
  BY DEF Crash
<1>2. BookingInv /\ TypeOK /\ EscrowFitsStatus
  BY DEF PayIInv, BookingInv
<1>3. BookingInv'
  <2>1. TypeOK'
    BY <1>1, <1>2 DEF TypeOK, money, admin
  <2>2. EscrowFitsStatus'
    BY <1>1, <1>2 DEF EscrowFitsStatus, money
  <2>3. /\ UNCHANGED <<money, refund, gateway, strikes, payout>>
        /\ status' = "CANCELLED_BY_HOST" <=> status = "CANCELLED_BY_HOST"
    BY <1>1 DEF admin
  <2> QED BY <1>2, <2>1, <2>2, <2>3, QuietStep
<1>4. claimed' = claimed /\ escrow' = escrow
  BY <1>1 DEF money
<1>5. \A d \in Deliveries : run'[d] = Idle /\ run'[d].at = "idle"
  BY <1>1 DEF Idle
<1>6. PayTypeOK'
  <2>1. crashes' \in 0..MaxCrashes
    BY <1>1, PaymentsAssumption DEF PayIInv, PayTypeOK
  <2>2. opening' \in [Charges -> {"no", "charged", "done", "late"}]
    BY <1>1 DEF PayIInv, PayTypeOK
  <2> QED BY <1>1, <1>3, <1>5, <2>1, <2>2 DEF PayIInv, PayTypeOK, BookingInv
<1>7. ChargeInv'
  <2>1. \A c \in Charges : opening'[c] = "no" => opn'[c] = "none"
    BY <1>1 DEF PayIInv, ChargeInv
  <2>2. \A c \in Charges : opening'[c] \notin {"done", "late"} => row'[c] = "none"
    BY <1>1 DEF PayIInv, ChargeInv
  <2> QED BY <1>1, <1>4, <2>1, <2>2 DEF PayIInv, ChargeInv
<1>8. ReceiptInv'
  BY <1>1, <1>4, <1>5 DEF PayIInv, ReceiptInv
<1>9. OneSuccessfulPayment'
  BY <1>1, <1>4 DEF PayIInv, OneSuccessfulPayment, Confirming
<1>10. OneRefundClaim' /\ run' \in [Deliveries -> {Idle} \cup Work] /\ told' \subseteq sentBack'
  BY <1>1, <1>5 DEF PayIInv, OneRefundClaim
<1> QED BY <1>3, <1>5, <1>6, <1>7, <1>8, <1>9, <1>10 DEF PayIInv

\* Every step of the payments keeps PayIInv.
LEMMA PayStepKeeps == PayIInv /\ [PayNext]_allVars => PayIInv'
<1> SUFFICES ASSUME PayIInv, [PayNext]_allVars PROVE PayIInv'
  OBVIOUS
<1>1. ASSUME NEW c \in Charges, NEW e \in OpnEvents, NEW method \in {"PROMPTPAY", "CARD"},
             NEW regenerate \in BOOLEAN, NEW outcome \in {"pending", "successful", "failed"},
             OpenCharge(c, method, regenerate, outcome, e)
      PROVE  PayIInv'
  <2>1. /\ UNCHANGED <<vars, row, sentBack, run, receipts, told, crashes>>
        /\ opening[c] = "no" /\ (Announce(e, c) \/ UNCHANGED <<about, unacked>>)
        /\ opn' = [opn EXCEPT ![c] = outcome] /\ opening' = [opening EXCEPT ![c] = "charged"]
    BY <1>1 DEF OpenCharge, Unopened, AnnounceCreated
  <2>2. BookingInv' /\ claimed' = claimed /\ escrow' = escrow
    BY <2>1, BookingKept DEF vars, money
  <2>3. opn[c] = "none" /\ row[c] = "none" /\ outcome \in ChargeStatus
    BY <2>1 DEF PayIInv, ChargeInv, ChargeStatus
  <2>4. /\ opening' \in [Charges -> {"no", "charged", "done", "late"}] /\ opening'[c] = "charged"
        /\ \A d \in Charges \ {c} : opening'[d] = opening[d]
    BY <2>1 DEF PayIInv, PayTypeOK
  <2> QED BY <2>1, <2>2, <2>3, <2>4, NewsKeeps
<1>2. ASSUME NEW c \in Charges, NEW e \in OpnEvents, ConciergeCharge(c, e) PROVE PayIInv'
  <2>1. /\ UNCHANGED <<row, sentBack, run, receipts, told, crashes>>
        /\ opening[c] = "no" /\ (Announce(e, c) \/ UNCHANGED <<about, unacked>>) /\ InstantHold
        /\ opn' = [opn EXCEPT ![c] = "pending"] /\ opening' = [opening EXCEPT ![c] = "done"]
    BY <1>2 DEF ConciergeCharge, Unopened, AnnounceCreated
  <2>2. BookingInv' /\ claimed' = claimed /\ escrow' = escrow
    <3>1. Next
      BY <2>1 DEF Next, Guest
    <3> QED BY <2>1, <3>1, BookingKept DEF InstantHold, money
  <2>3. opn[c] = "none" /\ "pending" \in ChargeStatus
    BY <2>1 DEF PayIInv, ChargeInv, ChargeStatus
  <2>4. /\ opening' \in [Charges -> {"no", "charged", "done", "late"}] /\ opening'[c] = "done"
        /\ \A d \in Charges \ {c} : opening'[d] = opening[d]
    BY <2>1 DEF PayIInv, PayTypeOK
  <2> QED BY <2>1, <2>2, <2>3, <2>4, NewsKeeps
<1>3. ASSUME NEW c \in Charges, NEW e \in OpnEvents,
             NEW outcome \in {"successful", "failed", "expired"}, ChargeCompletes(c, outcome, e)
      PROVE  PayIInv'
  <2>1. /\ UNCHANGED <<vars, opening, row, sentBack, run, receipts, told, crashes>>
        /\ opn[c] = "pending" /\ Announce(e, c) /\ opn' = [opn EXCEPT ![c] = outcome]
    BY <1>3 DEF ChargeCompletes
  <2>2. BookingInv' /\ claimed' = claimed /\ escrow' = escrow
    BY <2>1, BookingKept DEF vars, money
  <2>3. opening'[c] # "no" /\ outcome \in ChargeStatus /\ (opening'[c] \notin {"done", "late"} => row[c] = "none")
    BY <2>1 DEF PayIInv, ChargeInv, ChargeStatus
  <2>4. /\ opening' \in [Charges -> {"no", "charged", "done", "late"}]
        /\ \A d \in Charges \ {c} : opening'[d] = opening[d]
    BY <2>1 DEF PayIInv, PayTypeOK
  <2> QED BY <2>1, <2>2, <2>3, <2>4, NewsKeeps
<1>4. CASE Opening
  BY <1>1, <1>2, <1>3, <1>4, SavePaymentKeeps DEF Opening
<1>5. ASSUME NEW d \in Deliveries, IgnorePending(d) \/ RefundCall(d) PROVE PayIInv'
  <2>1. /\ run[d].at # "idle" /\ Answer200(d)
        /\ UNCHANGED <<vars, opn, opening, row, about, receipts, crashes>>
    BY <1>5 DEF IgnorePending, RefundCall
  <2>2. run[d].charge \in Charges /\ told \subseteq sentBack /\ sentBack \subseteq Charges
    BY <2>1, AtWork
  <2>3. sentBack' \subseteq Charges /\ told' \subseteq sentBack'
    BY <1>5, <2>2 DEF IgnorePending, RefundCall
  <2>4. run' = [run EXCEPT ![d] = Idle] /\ unacked' \subseteq unacked
    BY <2>1 DEF Answer200
  <2> QED BY <2>1, <2>3, <2>4, QuietEndKeeps
<1>6. CASE Delivering
  BY <1>5, <1>6, DeliverKeeps, ConfirmKeeps, MarkSuccessfulKeeps, MarkUnsuccessfulKeeps,
     ClaimRefundKeeps, RefundCallFailsKeeps DEF Delivering, Handle
<1>7. CASE BookingStep
  <2>1. Next
    <3>1. "FLEXIBLE" \in CancellationTier
      BY DEF CancellationTier
    <3> QED BY <1>7, <3>1 DEF BookingStep, Next, Guest, Clock, Sweeps
  <2>2. BookingInv' /\ UNCHANGED payVars
    BY <1>7, <2>1, BookingKept DEF BookingStep
  <2>3. CASE InstantHold \/ TimerElapses \/ Expire(Rows)
    <3>1. claimed' = claimed /\ escrow' = escrow
      BY <2>3 DEF InstantHold, TimerElapses, Expire, money
    <3> QED BY <2>2, <3>1, BookingStepKeeps
  <2>4. ASSUME NEW d \in LeadDays, CancelByGuest(Rows, "FLEXIBLE", d) PROVE PayIInv'
    <3>1. claimed' = claimed
      BY <2>4 DEF CancelByGuest
    <3>2. escrow' = "NONE" <=> escrow = "NONE"
      <4>1. CASE status = "CONFIRMED"
        BY <2>4, <4>1 DEF CancelByGuest, Rows, Settle, SettleOk, SettledState, CurrentPosition
      <4>2. CASE status # "CONFIRMED"
        BY <2>4, <4>2 DEF CancelByGuest, Rows, money
      <4> QED BY <4>1, <4>2
    <3> QED BY <2>2, <3>1, <3>2, BookingStepKeeps
  <2> QED BY <1>7, <2>3, <2>4 DEF BookingStep
<1>8. CASE RefundAgainstPayment
  <2>1. RefundAfterCancel(Rows)
    BY <1>8 DEF RefundAgainstPayment, RefundAfterCancel
  <2>2. Next
    BY <2>1 DEF Next, Guest
  <2>3. BookingInv' /\ UNCHANGED payVars /\ claimed' = claimed /\ escrow' = escrow
    BY <1>8, <2>2, BookingKept DEF RefundAgainstPayment, money
  <2> QED BY <2>3, BookingStepKeeps
<1>9. CASE UNCHANGED allVars
  <2>1. UNCHANGED vars /\ UNCHANGED payVars
    BY <1>9 DEF allVars
  <2>2. BookingInv' /\ claimed' = claimed /\ escrow' = escrow
    BY <2>1, BookingKept DEF vars, money
  <2> QED BY <2>1, <2>2, BookingStepKeeps
<1> QED BY <1>4, <1>6, <1>7, <1>8, <1>9, CrashKeeps DEF PayNext

-----------------------------------------------------------------------------
(* Theorems                                                                  *)

\* However charges, events and deliveries interleave, and wherever the server goes
\* down, the rows of the payments and of the booking stay in agreement (PayIInv).
THEOREM PaymentsInvariant == PaySpec => []PayIInv
<1>1. PayInit => PayIInv
  BY PayInitEstablishes
<1>2. PayIInv /\ [PayNext]_allVars => PayIInv'
  BY PayStepKeeps
<1> QED BY <1>1, <1>2, PTL DEF PaySpec

\* At most one event is ever claimed, and one is exactly when the price was received.
LEMMA OneClaim ==
  ASSUME PayIInv
  PROVE  /\ Cardinality(claimed) = IF Received(ledger) = 0 THEN 0 ELSE 1
         /\ claimed = {} => Cardinality(claimed) = 0
         /\ claimed # {} => Cardinality(claimed) = 1
<1>1. Received(ledger) = IF claimed = {} THEN 0 ELSE TotalSatang
  BY DEF PayIInv, BookingInv, MoneyInv, ChargeInv
<1>2. CASE claimed = {}
  BY <1>1, <1>2, FS_EmptySet
<1>3. CASE claimed # {}
  <2>1. PICK e \in claimed : TRUE
    BY <1>3
  <2>2. claimed = {e}
    BY <2>1 DEF PayIInv, ChargeInv
  <2>3. Cardinality({e}) = 1
    BY FS_Singleton
  <2>4. TotalSatang # 0
    BY AmountsAssumption
  <2> QED BY <1>1, <1>3, <2>2, <2>3, <2>4
<1> QED BY <1>2, <1>3

\* Only a charge that Opn says was paid confirms the booking, only one does; its row
\* alone is SUCCESSFUL, and no two deliveries refund one stranded charge.
THEOREM PaymentsAreRight == PaySpec => []PaymentInv
<1>1. PayIInv => PaymentInv
  BY OneClaim DEF PayIInv, ChargeInv, PaymentInv, ConfirmedByPaidCharge
<1> QED BY <1>1, PaymentsInvariant, PTL

\* The guest hears of a refund only once Opn has made it, and gets a receipt at most
\* once, for a booking that was confirmed.
THEOREM GuestHearsTheTruth == PaySpec => []GuestIsToldTheTruth
<1>1. PayIInv => GuestIsToldTheTruth
  <2> SUFFICES ASSUME PayIInv PROVE GuestIsToldTheTruth
    OBVIOUS
  <2>1. receipts \in {0, 1} /\ (receipts = 1 => claimed # {})
    BY DEF PayIInv, ReceiptInv
  <2>2. receipts \in 0..Cardinality(claimed)
    BY <2>1, OneClaim
  <2> QED BY <2>2 DEF PayIInv, GuestIsToldTheTruth
<1> QED BY <1>1, PaymentsInvariant, PTL

-----------------------------------------------------------------------------
(* Payments implements Booking, its variables taken as they are: whatever    *)
(* the payments do, the booking sees one of its own handlers or nothing.     *)

\* The refund call of a cancellation, and the crash that spares it, are
\* RefundAfterCancel; a step about charges and deliveries leaves the booking alone.
LEMMA PayStepRefines ==
  ASSUME PayIInv, [PayNext]_allVars
  PROVE  [Next]_vars
<1>1. calling \in BOOLEAN
  BY DEF PayIInv, BookingInv, TypeOK
<1>2. CASE Opening
  <2>1. ASSUME NEW c \in Charges, NEW e \in OpnEvents, NEW method \in {"PROMPTPAY", "CARD"},
               NEW regenerate \in BOOLEAN, NEW outcome \in {"pending", "successful", "failed"},
               OpenCharge(c, method, regenerate, outcome, e)
        PROVE  UNCHANGED vars
    BY <2>1 DEF OpenCharge
  <2>2. ASSUME NEW c \in Charges, NEW e \in OpnEvents, ConciergeCharge(c, e)
        PROVE  InstantHold
    BY <2>2 DEF ConciergeCharge
  <2>3. ASSUME NEW c \in Charges, NEW e \in OpnEvents,
               NEW outcome \in {"successful", "failed", "expired"}, ChargeCompletes(c, outcome, e)
        PROVE  UNCHANGED vars
    BY <2>3 DEF ChargeCompletes
  <2>4. ASSUME NEW c \in Charges, SavePayment(c)
        PROVE  UNCHANGED vars
    BY <2>4 DEF SavePayment
  <2> QED BY <1>2, <2>1, <2>2, <2>3, <2>4 DEF Opening, Next, Guest
<1>3. CASE Delivering
  <2>1. PICK d \in Deliveries :
          (\E e \in OpnEvents : Deliver(d, e)) \/ Handle(d) \/ RefundCallFails(d)
    BY <1>3 DEF Delivering
  <2>2. CASE Confirm(d)
    <3>1. run[d].event \in OpnEvents
      <4>1. run[d] \in {Idle} \cup Work /\ run[d] # Idle
        BY <2>2 DEF PayIInv, Confirm, Idle
      <4> QED BY <4>1, WorkFields
    <3>2. ConfirmFromWebhook(Rows, run[d].event) \/ UNCHANGED vars
      BY <2>2 DEF Confirm
    <3> QED BY <3>1, <3>2 DEF Next, Opn
  <2>3. CASE ~Confirm(d)
    BY <2>1, <2>3 DEF Handle, Deliver, MarkSuccessful, MarkUnsuccessful, IgnorePending, ClaimRefund,
       RefundCall, RefundCallFails
  <2> QED BY <2>2, <2>3
<1>4. CASE BookingStep
  <2>1. "FLEXIBLE" \in CancellationTier
    BY DEF CancellationTier
  <2> QED BY <1>4, <2>1 DEF BookingStep, Next, Guest, Clock, Sweeps
<1>5. CASE RefundAgainstPayment
  <2>1. RefundAfterCancel(Rows)
    BY <1>5 DEF RefundAgainstPayment, RefundAfterCancel
  <2> QED BY <2>1 DEF Next, Guest
<1>6. CASE Crash
  <2>1. CASE calling
    <3>1. RefundAfterCancel(Rows)
      BY <1>6, <2>1 DEF Crash, RefundAfterCancel
    <3> QED BY <3>1 DEF Next, Guest
  <2>2. CASE ~calling
    <3>1. calling' = calling
      BY <1>1, <1>6, <2>2 DEF Crash
    <3> QED BY <1>6, <3>1 DEF Crash, vars, guestRefund
  <2> QED BY <2>1, <2>2
<1>7. CASE UNCHANGED allVars
  BY <1>7 DEF allVars
<1> QED BY <1>2, <1>3, <1>4, <1>5, <1>6, <1>7 DEF PayNext

\* Charges, deliveries, redeliveries, failing calls and crashes add nothing to what a
\* booking may do: every behaviour of the payments is one of Booking, so whatever is
\* proved of Spec holds under it.
THEOREM PaymentsImplementBooking == PaySpec => Spec
<1>1. PayInit => Init
  BY DEF PayInit
<1>2. PayIInv /\ [PayNext]_allVars => [Next]_vars
  BY PayStepRefines
<1> QED BY <1>1, <1>2, PaymentsInvariant, PTL DEF PaySpec, Spec

\* The money of a booking keeps the promise of the escrow, and its status the
\* documented table, however it is paid.
THEOREM PaidBookingKeepsPromise == PaySpec => PromiseKept /\ StatusGraph
BY PaymentsImplementBooking, BookingKeepsPromise, BookingFollowsTable, PTL

-----------------------------------------------------------------------------
(* What the payments never take back.                                        *)

RowsForward ==
  /\ \A c \in Charges : row[c] = "SUCCESSFUL" => row'[c] = "SUCCESSFUL"
  /\ claimed \subseteq claimed' /\ sentBack \subseteq sentBack' /\ told \subseteq told'

LEMMA RowsStep ==
  ASSUME PayIInv, [PayNext]_allVars
  PROVE  RowsForward
<1>1. row \in [Charges -> PaymentStatus]
  BY DEF PayIInv, PayTypeOK
<1>2. ASSUME NEW c \in Charges, row[c] = "SUCCESSFUL"
      PROVE  opn[c] = "successful" /\ opening[c] \in {"done", "late"}
  BY <1>2 DEF PayIInv, OneSuccessfulPayment, Confirming, ChargeInv
<1>3. CASE UNCHANGED <<row, sentBack, told>> /\ claimed \subseteq claimed'
  BY <1>3 DEF RowsForward
<1>4. CASE Opening
  <2>1. ASSUME NEW c \in Charges, NEW e \in OpnEvents, NEW method \in {"PROMPTPAY", "CARD"},
               NEW regenerate \in BOOLEAN, NEW outcome \in {"pending", "successful", "failed"},
               OpenCharge(c, method, regenerate, outcome, e)
        PROVE  RowsForward
    BY <1>3, <2>1 DEF OpenCharge, vars
  <2>2. ASSUME NEW c \in Charges, NEW e \in OpnEvents, ConciergeCharge(c, e)
        PROVE  RowsForward
    BY <1>3, <2>2 DEF ConciergeCharge, InstantHold
  <2>3. ASSUME NEW c \in Charges, NEW e \in OpnEvents,
               NEW outcome \in {"successful", "failed", "expired"}, ChargeCompletes(c, outcome, e)
        PROVE  RowsForward
    BY <1>3, <2>3 DEF ChargeCompletes, vars
  <2>4. ASSUME NEW c \in Charges, SavePayment(c)
        PROVE  RowsForward
    <3>1. /\ row[c] # "SUCCESSFUL" /\ row' = [row EXCEPT ![c] = "PENDING"]
          /\ UNCHANGED <<claimed, sentBack, told>>
      BY <1>2, <2>4 DEF SavePayment, vars
    <3> QED BY <1>1, <3>1 DEF RowsForward
  <2> QED BY <1>4, <2>1, <2>2, <2>3, <2>4 DEF Opening
<1>5. ASSUME NEW d \in Deliveries, (\E e \in OpnEvents : Deliver(d, e)) \/ Handle(d) \/ RefundCallFails(d)
      PROVE  RowsForward
  <2>1. CASE \/ \E e \in OpnEvents : Deliver(d, e)
             \/ IgnorePending(d)
    BY <1>3, <2>1 DEF Deliver, IgnorePending, vars
  <2>2. CASE Confirm(d)
    BY <1>3, <2>2 DEF Confirm, ConfirmFromWebhook, vars
  <2>3. CASE MarkSuccessful(d)
    <3>1. /\ UNCHANGED <<claimed, sentBack, told>>
          /\ row' = row \/ row' = [row EXCEPT ![run[d].charge] = "SUCCESSFUL"]
      BY <2>3 DEF MarkSuccessful, Marked, vars
    <3> QED BY <1>1, <3>1 DEF RowsForward
  <2>4. CASE MarkUnsuccessful(d)
    <3>1. DeliveryInv(d) /\ run[d].saw \in {"failed", "expired"}
      BY <2>4 DEF PayIInv, MarkUnsuccessful, Idle
    <3>2. run[d].charge \in Charges => row[run[d].charge] # "SUCCESSFUL"
      BY <1>2, <3>1 DEF DeliveryInv
    <3>3. /\ UNCHANGED <<claimed, sentBack, told>>
          /\ \E st : row' = row \/ row' = [row EXCEPT ![run[d].charge] = st]
      BY <2>4 DEF MarkUnsuccessful, Marked, vars
    <3> QED BY <1>1, <3>2, <3>3 DEF RowsForward
  <2>5. CASE ClaimRefund(d)
    <3>1. /\ UNCHANGED <<claimed, sentBack, told>>
          /\ \/ row' = row
             \/ row[run[d].charge] = "PENDING" /\ row' = [row EXCEPT ![run[d].charge] = "REFUNDED"]
      BY <2>5 DEF ClaimRefund, vars
    <3> QED BY <1>1, <3>1 DEF RowsForward
  <2>6. CASE RefundCall(d)
    BY <2>6 DEF RefundCall, RowsForward, vars
  <2>7. CASE RefundCallFails(d)
    <3>1. /\ UNCHANGED <<claimed, told>> /\ sentBack \subseteq sentBack'
          /\ \/ row' = row
             \/ row[run[d].charge] = "REFUNDED" /\ row' = [row EXCEPT ![run[d].charge] = "PENDING"]
      BY <2>7 DEF RefundCallFails, Unclaimed, vars
    <3> QED BY <1>1, <3>1 DEF RowsForward
  <2> QED BY <1>5, <2>1, <2>2, <2>3, <2>4, <2>5, <2>6, <2>7 DEF Handle
<1>6. CASE BookingStep
  BY <1>3, <1>6 DEF BookingStep, payVars, InstantHold, TimerElapses, Expire, CancelByGuest
<1>7. CASE RefundAgainstPayment \/ Crash \/ UNCHANGED allVars
  BY <1>3, <1>7 DEF RefundAgainstPayment, Crash, allVars, payVars, vars
<1> QED BY <1>4, <1>5, <1>6, <1>7 DEF PayNext, Delivering

\* refundBookingToGuest refunds against the SUCCESSFUL row: once a charge has it, no
\* late event, stranded delivery or rolled-back claim takes it away; nor is a claimed
\* event, a refund Opn made or a word to the guest ever taken back.
THEOREM PaidRowStaysPaid == PaySpec => [][RowsForward]_allVars
<1>1. PayIInv /\ [PayNext]_allVars => [RowsForward]_allVars
  BY RowsStep
<1> QED BY <1>1, PaymentsInvariant, PTL DEF PaySpec
=============================================================================
