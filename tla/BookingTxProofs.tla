-------------------------- MODULE BookingTxProofs --------------------------
(***************************************************************************)
(* What no race of two handlers breaks, for every price, every set of      *)
(* handlers that are slow and every number of handlers that overtake one.  *)
(***************************************************************************)
EXTENDS BookingTx, BookingProofs, FiniteSetTheorems

-----------------------------------------------------------------------------
(* The inductive invariant                                                   *)

\* The log balances, whatever stale amounts were moved: it knows of one charge, of
\* no more refunds than that, and of a payout only with a Payout row.
LogInv ==
  /\ InvariantHolds(ledger)
  /\ Received(ledger) = IF escrow = "NONE" THEN 0 ELSE TotalSatang
  /\ Refunded(ledger) \in 0..Received(ledger)
  /\ PaidOut(ledger) \in 0..TotalSatang
  /\ payout = NoPayout => PaidOut(ledger) = 0

\* The unique rows: one claim once there was a charge, and a Refund row before the
\* log refunds anything.
UniqueRowsInv ==
  /\ claimed = {} <=> escrow = "NONE"
  /\ \A e, f \in claimed : e = f
  /\ refund.satang <= Refunded(ledger)
  /\ ~refund.exists => Refunded(ledger) = 0

\* A strike took all that was in escrow; a booking is disputed once it was charged
\* and after it was confirmed.
StrikeInv ==
  /\ strikes \in {0, 1}
  /\ strikes = 1 => escrow # "NONE" /\ InEscrow(ledger) <= 0
  /\ status = "CONFIRMED" => dispute.status = "NONE"
  /\ dispute.status # "NONE" => escrow # "NONE"

AgreeInv == LogInv /\ UniqueRowsInv /\ StrikeInv
RowsInv == TypeOK /\ AgreeInv

\* What stale rows still say about the current ones.
ReadInv(r) ==
  /\ r.refund.satang \in Nat /\ r.frozen \in Int
  /\ r.refund.satang <= Refunded(ledger)
  /\ r.escrow # "NONE" => escrow # "NONE" /\ r.frozen >= InEscrow(ledger)
  /\ r.dispute.status # "NONE" => dispute.status # "NONE"

\* A position names a charged booking only if there is one.
PositionInv(p) ==
  /\ p \in Position
  /\ p.state # "NONE" => escrow # "NONE"

\* A position that may still be settled: no one has refunded or struck since.
Settleable(p) ==
  /\ p.amount <= Received(ledger) - Refunded(ledger)
  /\ p.amount > 0 => strikes = 0

\* A position that may still be paid out.
Payable(p) == payout = NoPayout => p.amount \in 0..TotalSatang

SlowHandlers ==
  [op : Slow, at : {"read", "half", "ready"}, read : {slow.read}, pos : Position,
   left : 0..MaxOvertaken]

SlowInv ==
  slow # Nothing =>
    /\ slow \in SlowHandlers
    /\ ReadInv(slow.read) /\ PositionInv(slow.pos)
    /\ slow.at = "ready" /\ slow.op \in DisputeWriters /\ slow.read.dispute.status # "NONE"
         => Settleable(slow.pos)
    /\ slow.at = "ready" /\ slow.op = "markPaid" => Payable(slow.pos)

TxIInv == RowsInv /\ SlowInv

-----------------------------------------------------------------------------
(* What a handler may do to the rows others have read                        *)

\* Refunds grow, what is in escrow shrinks, and no row goes away.
Forward ==
  /\ Refunded(ledger') >= Refunded(ledger)
  /\ escrow # "NONE" => escrow' # "NONE" /\ InEscrow(ledger') <= InEscrow(ledger)
  /\ dispute.status # "NONE" => dispute'.status # "NONE"
  /\ payout # NoPayout => payout' # NoPayout

\* No one has refunded or struck.
Undecided == Refunded(ledger') = Refunded(ledger) /\ strikes' = strikes

-----------------------------------------------------------------------------
(* The totals of a log after each kind of move                               *)

LEMMA Buckets ==
  ASSUME NEW b \in Ledger
  PROVE  /\ b["NONE"] \in Int /\ b["HELD"] \in Int /\ b["RELEASABLE"] \in Int
         /\ b["FROZEN"] \in Int /\ b["PAID"] \in Int /\ b["REVERSED"] \in Int
         /\ Received(b) \in Int /\ Refunded(b) \in Int /\ PaidOut(b) \in Int
         /\ InEscrow(b) \in Int
<1>1. /\ b["NONE"] \in Int /\ b["HELD"] \in Int /\ b["RELEASABLE"] \in Int
      /\ b["FROZEN"] \in Int /\ b["PAID"] \in Int /\ b["REVERSED"] \in Int
  BY DEF Ledger, EscrowState
<1> QED BY <1>1 DEF Received, Refunded, PaidOut, InEscrow

\* A move within escrow, of whatever amount, changes no total.
LEMMA TransferTotals ==
  ASSUME NEW b \in Ledger, NEW amount \in Int,
         NEW from \in {"HELD", "RELEASABLE", "FROZEN"},
         NEW to \in {"HELD", "RELEASABLE", "FROZEN"}, from # to
  PROVE  LET m == FoldMove(b, from, to, amount)
         IN  /\ m \in Ledger
             /\ Received(m) = Received(b) /\ Refunded(m) = Refunded(b)
             /\ PaidOut(m) = PaidOut(b) /\ InEscrow(m) = InEscrow(b)
<1> DEFINE m == FoldMove(b, from, to, amount)
<1>1. from \in EscrowState /\ to \in EscrowState
  BY DEF EscrowState
<1>2. /\ m \in Ledger /\ m[from] = b[from] - amount /\ m[to] = b[to] + amount
      /\ \A s \in EscrowState : s # from /\ s # to => m[s] = b[s]
  BY <1>1, FoldMoveMoves
<1> HIDE DEF m
<1>3. m["NONE"] = b["NONE"] /\ m["PAID"] = b["PAID"] /\ m["REVERSED"] = b["REVERSED"]
  BY <1>2 DEF EscrowState
<1>4. /\ b["HELD"] \in Int /\ b["RELEASABLE"] \in Int /\ b["FROZEN"] \in Int
      /\ "HELD" \in EscrowState /\ "RELEASABLE" \in EscrowState /\ "FROZEN" \in EscrowState
  BY Buckets DEF EscrowState
<1>5. InEscrow(m) = InEscrow(b)
  <2>1. CASE from = "HELD" /\ to = "RELEASABLE"
    BY <1>2, <1>4, <2>1 DEF InEscrow
  <2>2. CASE from = "HELD" /\ to = "FROZEN"
    BY <1>2, <1>4, <2>2 DEF InEscrow
  <2>3. CASE from = "RELEASABLE" /\ to = "HELD"
    BY <1>2, <1>4, <2>3 DEF InEscrow
  <2>4. CASE from = "RELEASABLE" /\ to = "FROZEN"
    BY <1>2, <1>4, <2>4 DEF InEscrow
  <2>5. CASE from = "FROZEN" /\ to = "HELD"
    BY <1>2, <1>4, <2>5 DEF InEscrow
  <2>6. CASE from = "FROZEN" /\ to = "RELEASABLE"
    BY <1>2, <1>4, <2>6 DEF InEscrow
  <2> QED BY <2>1, <2>2, <2>3, <2>4, <2>5, <2>6
<1> QED BY <1>2, <1>3, <1>5 DEF m, Received, Refunded, PaidOut

\* A settlement refunds the guest's part out of escrow, whatever amount the
\* position was believed to have.
LEMMA SettleTotals ==
  ASSUME NEW b \in Ledger, NEW p \in Position, NEW satang, SettleOk(p, satang)
  PROVE  LET m == Settled(b, p, satang)
         IN  /\ m \in Ledger
             /\ Received(m) = Received(b) /\ Refunded(m) = Refunded(b) + satang
             /\ PaidOut(m) = PaidOut(b) /\ InEscrow(m) = InEscrow(b) - satang
<1> DEFINE m == Settled(b, p, satang)
<1>1. /\ p.state \in {"HELD", "FROZEN"} /\ p.amount \in Int /\ satang \in Int
  BY DEF SettleOk, Position
<1>2. /\ m \in Ledger /\ m[p.state] = b[p.state] - p.amount
      /\ m["REVERSED"] = b["REVERSED"] + satang
      /\ m["RELEASABLE"] = b["RELEASABLE"] + (p.amount - satang)
      /\ \A s \in EscrowState : s # p.state /\ s # "REVERSED" /\ s # "RELEASABLE" => m[s] = b[s]
  BY <1>1, SettledMoves
<1> HIDE DEF m
<1>3. m["NONE"] = b["NONE"] /\ m["PAID"] = b["PAID"]
  BY <1>1, <1>2 DEF EscrowState
<1>4. b["HELD"] \in Int /\ b["RELEASABLE"] \in Int /\ b["FROZEN"] \in Int
  BY Buckets
<1>5. InEscrow(m) = InEscrow(b) - satang
  <2>1. CASE p.state = "HELD"
    <3>1. m["FROZEN"] = b["FROZEN"]
      BY <1>2, <2>1 DEF EscrowState
    <3> QED BY <1>1, <1>2, <1>4, <2>1, <3>1 DEF InEscrow
  <2>2. CASE p.state = "FROZEN"
    <3>1. m["HELD"] = b["HELD"]
      BY <1>2, <2>2 DEF EscrowState
    <3> QED BY <1>1, <1>2, <1>4, <2>2, <3>1 DEF InEscrow
  <2> QED BY <1>1, <2>1, <2>2
<1> QED BY <1>2, <1>3, <1>5 DEF m, Received, Refunded, PaidOut

\* The payout and the charge.
LEMMA PayTotals ==
  ASSUME NEW b \in Ledger, NEW amount \in Int
  PROVE  LET m == FoldMove(b, "RELEASABLE", "PAID", amount)
         IN  /\ m \in Ledger
             /\ Received(m) = Received(b) /\ Refunded(m) = Refunded(b)
             /\ PaidOut(m) = PaidOut(b) + amount /\ InEscrow(m) = InEscrow(b) - amount
<1> DEFINE m == FoldMove(b, "RELEASABLE", "PAID", amount)
<1>1. /\ m \in Ledger /\ m["RELEASABLE"] = b["RELEASABLE"] - amount
      /\ m["PAID"] = b["PAID"] + amount
      /\ \A s \in EscrowState : s # "RELEASABLE" /\ s # "PAID" => m[s] = b[s]
  BY FoldMoveMoves DEF EscrowState
<1> HIDE DEF m
<1>2. /\ m["NONE"] = b["NONE"] /\ m["REVERSED"] = b["REVERSED"]
      /\ m["HELD"] = b["HELD"] /\ m["FROZEN"] = b["FROZEN"]
  BY <1>1 DEF EscrowState
<1>3. b["HELD"] \in Int /\ b["RELEASABLE"] \in Int /\ b["FROZEN"] \in Int
  BY Buckets
<1>4. InEscrow(m) = InEscrow(b) - amount
  BY <1>1, <1>2, <1>3 DEF InEscrow
<1> QED BY <1>1, <1>2, <1>4 DEF m, Received, Refunded, PaidOut

LEMMA ChargeTotals ==
  ASSUME NEW b \in Ledger, NEW amount \in Int
  PROVE  LET m == FoldMove(b, "NONE", "HELD", amount)
         IN  /\ m \in Ledger
             /\ Received(m) = Received(b) + amount /\ Refunded(m) = Refunded(b)
             /\ PaidOut(m) = PaidOut(b) /\ InEscrow(m) = InEscrow(b) + amount
<1> DEFINE m == FoldMove(b, "NONE", "HELD", amount)
<1>1. /\ m \in Ledger /\ m["NONE"] = b["NONE"] - amount /\ m["HELD"] = b["HELD"] + amount
      /\ \A s \in EscrowState : s # "NONE" /\ s # "HELD" => m[s] = b[s]
  BY FoldMoveMoves DEF EscrowState
<1> HIDE DEF m
<1>2. /\ m["PAID"] = b["PAID"] /\ m["REVERSED"] = b["REVERSED"]
      /\ m["RELEASABLE"] = b["RELEASABLE"] /\ m["FROZEN"] = b["FROZEN"]
  BY <1>1 DEF EscrowState
<1>3. /\ b["HELD"] \in Int /\ b["RELEASABLE"] \in Int /\ b["FROZEN"] \in Int /\ b["NONE"] \in Int
  BY Buckets
<1>4. InEscrow(m) = InEscrow(b) + amount /\ Received(m) = Received(b) + amount
  BY <1>1, <1>2, <1>3 DEF InEscrow, Received
<1> QED BY <1>1, <1>2, <1>4 DEF m, Refunded, PaidOut

-----------------------------------------------------------------------------
(* What each kind of handler does to the agreement of the rows               *)

\* What the totals are under AgreeInv.
LEMMA Totals ==
  ASSUME RowsInv
  PROVE  /\ ledger \in Ledger /\ TotalSatang \in Nat /\ TotalSatang > 0
         /\ Received(ledger) \in {0, TotalSatang}
         /\ Refunded(ledger) \in Nat /\ Refunded(ledger) <= Received(ledger)
         /\ PaidOut(ledger) \in Nat /\ InEscrow(ledger) \in Int
         /\ InEscrow(ledger) = Received(ledger) - Refunded(ledger) - PaidOut(ledger)
<1>1. ledger \in Ledger
  BY DEF RowsInv, TypeOK
<1>2. TotalSatang \in Nat /\ TotalSatang > 0
  BY AmountsAssumption
<1>3. /\ InvariantHolds(ledger) /\ Received(ledger) = IF escrow = "NONE" THEN 0 ELSE TotalSatang
      /\ Refunded(ledger) \in 0..Received(ledger) /\ PaidOut(ledger) \in 0..TotalSatang
  BY DEF RowsInv, AgreeInv, LogInv
<1> QED BY <1>1, <1>2, <1>3, Buckets DEF InvariantHolds

\* The rows the properties compare are left alone.
LEMMA QuietAgrees ==
  ASSUME RowsInv, UNCHANGED <<ledger, escrow, claimed, strikes, payout>>,
         refund'.exists = refund.exists, refund'.satang = refund.satang,
         dispute' = dispute, status' # "CONFIRMED" \/ status' = status
  PROVE  AgreeInv' /\ Forward /\ Undecided
<1>1. LogInv'
  BY DEF RowsInv, AgreeInv, LogInv
<1>2. UniqueRowsInv'
  BY DEF RowsInv, AgreeInv, UniqueRowsInv
<1>3. StrikeInv'
  BY DEF RowsInv, AgreeInv, StrikeInv
<1>4. Forward /\ Undecided
  BY Totals DEF Forward, Undecided
<1> QED BY <1>1, <1>2, <1>3, <1>4 DEF AgreeInv

\* A release or a freeze moves money within escrow.
LEMMA TransferAgrees ==
  ASSUME RowsInv, NEW amount \in Int,
         NEW from \in {"HELD", "RELEASABLE", "FROZEN"},
         NEW to \in {"HELD", "RELEASABLE", "FROZEN"}, from # to,
         ledger' = FoldMove(ledger, from, to, amount), escrow # "NONE", escrow' = to,
         UNCHANGED <<claimed, refund, strikes, payout>>,
         dispute.status # "NONE" => dispute'.status # "NONE",
         status' = "CONFIRMED" => status' = status /\ dispute'.status = dispute.status
  PROVE  AgreeInv' /\ Forward /\ Undecided /\ ledger' \in Ledger
<1> DEFINE m == FoldMove(ledger, from, to, amount)
<1>a. ledger \in Ledger
  BY Totals
<1>b. /\ m \in Ledger
      /\ Received(m) = Received(ledger) /\ Refunded(m) = Refunded(ledger)
      /\ PaidOut(m) = PaidOut(ledger) /\ InEscrow(m) = InEscrow(ledger)
  BY <1>a, TransferTotals
<1>c. ledger' = m
  OBVIOUS
<1> HIDE DEF m
<1>1. /\ ledger' \in Ledger
      /\ Received(ledger') = Received(ledger) /\ Refunded(ledger') = Refunded(ledger)
      /\ PaidOut(ledger') = PaidOut(ledger) /\ InEscrow(ledger') = InEscrow(ledger)
  BY <1>b, <1>c
<1>2. escrow' # "NONE"
  OBVIOUS
<1>3. LogInv'
  BY <1>1, <1>2 DEF RowsInv, AgreeInv, LogInv, InvariantHolds
<1>4. UniqueRowsInv'
  BY <1>1, <1>2 DEF RowsInv, AgreeInv, UniqueRowsInv
<1>5. StrikeInv'
  BY <1>1, <1>2 DEF RowsInv, AgreeInv, StrikeInv
<1>6. Forward /\ Undecided
  BY <1>1, <1>2, Totals DEF Forward, Undecided
<1> QED BY <1>1, <1>3, <1>4, <1>5, <1>6 DEF AgreeInv

\* A settlement of a position that may still be settled: the refund fits what was
\* charged, the Refund row fits the log, and a strike takes all there is.
LEMMA SettleAgrees ==
  ASSUME RowsInv, NEW p, NEW satang, PositionInv(p), Settleable(p), Settle(p, satang),
         UNCHANGED <<claimed, payout>>,
         \/ refund' = refund /\ satang = 0
         \/ refund'.exists /\ refund'.satang <= Refunded(ledger) + satang,
         \/ strikes' = strikes
         \/ strikes' = strikes + 1 /\ satang >= InEscrow(ledger),
         dispute.status # "NONE" => dispute'.status # "NONE",
         status' # "CONFIRMED"
  PROVE  AgreeInv' /\ Forward /\ ledger' \in Ledger /\ escrow' \in EscrowState /\ escrow # "NONE"
<1>1. /\ p \in Position /\ SettleOk(p, satang) /\ ledger' = Settled(ledger, p, satang)
      /\ escrow' = SettledState(p, satang) /\ escrow # "NONE" /\ ledger \in Ledger
  BY Totals DEF PositionInv, Settle, SettleOk
<1>2. /\ ledger' \in Ledger
      /\ Received(ledger') = Received(ledger) /\ Refunded(ledger') = Refunded(ledger) + satang
      /\ PaidOut(ledger') = PaidOut(ledger) /\ InEscrow(ledger') = InEscrow(ledger) - satang
  BY <1>1, SettleTotals
<1>3. /\ satang \in Nat /\ satang <= p.amount /\ p.amount > 0 /\ p.amount \in Int
      /\ p.amount <= Received(ledger) - Refunded(ledger) /\ strikes = 0
  BY <1>1 DEF SettleOk, Position, Settleable
<1>4. escrow' \in EscrowState /\ escrow' # "NONE"
  BY <1>1 DEF SettledState, EscrowState
<1>5. LogInv'
  <2>1. InvariantHolds(ledger')
    BY <1>2, <1>3, Totals DEF InvariantHolds
  <2>2. Refunded(ledger') \in 0..Received(ledger')
    BY <1>2, <1>3, Totals
  <2> QED BY <1>1, <1>2, <1>4, <2>1, <2>2 DEF RowsInv, AgreeInv, LogInv
<1>6. UniqueRowsInv'
  <2>1. refund'.satang <= Refunded(ledger')
    BY <1>2, <1>3, Totals DEF RowsInv, AgreeInv, UniqueRowsInv
  <2>2. ~refund'.exists => Refunded(ledger') = 0
    BY <1>2, <1>3, Totals DEF RowsInv, AgreeInv, UniqueRowsInv
  <2> QED BY <1>1, <1>4, <2>1, <2>2 DEF RowsInv, AgreeInv, UniqueRowsInv
<1>7. StrikeInv'
  <2>1. strikes' \in {0, 1} /\ (strikes' = 1 => InEscrow(ledger') <= 0)
    BY <1>2, <1>3, Totals
  <2> QED BY <1>4, <2>1 DEF StrikeInv
<1>8. Forward
  BY <1>2, <1>3, <1>4, Totals DEF Forward
<1> QED BY <1>1, <1>2, <1>4, <1>5, <1>6, <1>7, <1>8 DEF AgreeInv

-----------------------------------------------------------------------------
(* The handlers, from whatever rows and position they read                   *)

\* What is read now is neither stale nor spent.
LEMMA Current ==
  ASSUME RowsInv
  PROVE  /\ ReadInv(Rows) /\ PositionInv(CurrentPosition)
         /\ Settleable(CurrentPosition) /\ Payable(CurrentPosition)
<1>1. /\ refund.satang \in Nat /\ refund.satang <= Refunded(ledger) /\ escrow \in EscrowState
      /\ strikes \in {0, 1} /\ (strikes = 1 => InEscrow(ledger) <= 0)
      /\ (payout = NoPayout => PaidOut(ledger) = 0)
  BY AmountsAssumption DEF RowsInv, TypeOK, AgreeInv, UniqueRowsInv, StrikeInv, LogInv
<1>2. ReadInv(Rows)
  BY <1>1, Totals DEF ReadInv, Rows
<1>3. PositionInv(CurrentPosition)
  BY <1>1, Totals DEF PositionInv, CurrentPosition, Position
<1>4. Settleable(CurrentPosition)
  BY <1>1, Totals DEF Settleable, CurrentPosition
<1>5. Payable(CurrentPosition)
  BY <1>1, Totals DEF Payable, CurrentPosition
<1> QED BY <1>2, <1>3, <1>4, <1>5

\* accept, decline, expire and checkIn only ever write the status.
LEMMA StatusStepKeeps ==
  ASSUME RowsInv, NEW r, Accept(r) \/ Decline(r) \/ Expire(r) \/ CheckIn(r)
  PROVE  RowsInv' /\ Forward /\ Undecided
<1>1. /\ UNCHANGED <<money, claimed, refund, dispute, strikes, payout>>
      /\ status' # "CONFIRMED"
  BY DEF Accept, Decline, Expire, CheckIn, guestRefund, admin
<1>2. AgreeInv' /\ Forward /\ Undecided
  BY <1>1, QuietAgrees DEF money
<1>3. TypeOK'
  BY DEF RowsInv, TypeOK, BookingStatus, Accept, Decline, Expire, CheckIn, money, guestRefund, admin
<1> QED BY <1>2, <1>3 DEF RowsInv

\* The clock, a new booking, a report filed or closed and a hold write none of
\* the rows compared.
LEMMA SurroundingStepKeeps ==
  ASSUME RowsInv, NEW r,
         \/ Clock \/ Request \/ InstantHold \/ PlaceHold \/ ReleaseHold
         \/ \E k \in Reports : CreateBookingReport(k) \/ CloseReport(r, k)
  PROVE  RowsInv' /\ Forward /\ Undecided
<1>1. /\ UNCHANGED <<money, claimed, refund, dispute, strikes, payout>>
      /\ status' # "CONFIRMED" \/ status' = status
  BY DEF Clock, TimerElapses, StayAdvances, Request, InstantHold, PlaceHold, ReleaseHold,
     CreateBookingReport, CloseReport, guestRefund, admin
<1>2. AgreeInv' /\ Forward /\ Undecided
  BY <1>1, QuietAgrees DEF money
<1>3. CASE Clock \/ Request \/ InstantHold
  <2>1. TypeOK'
    BY <1>3 DEF RowsInv, TypeOK, BookingStatus, Clock, TimerElapses, StayAdvances, Request,
       InstantHold, money, guestRefund, admin
  <2> QED BY <1>2, <2>1 DEF RowsInv
<1>4. CASE PlaceHold \/ ReleaseHold
  <2>1. holds' \in 0..MaxHolds
    BY <1>4, ChoicesAssumption DEF RowsInv, TypeOK, PlaceHold, ReleaseHold
  <2>2. TypeOK'
    BY <1>4, <2>1 DEF RowsInv, TypeOK, PlaceHold, ReleaseHold, money, guestRefund
  <2> QED BY <1>2, <2>2 DEF RowsInv
<1>5. CASE \E k \in Reports : CreateBookingReport(k) \/ CloseReport(r, k)
  <2>1. PICK k \in Reports : CreateBookingReport(k) \/ CloseReport(r, k)
    BY <1>5
  <2>2. TypeOK'
    BY <2>1 DEF RowsInv, TypeOK, ReportStatus, CreateBookingReport, CloseReport, money, guestRefund
  <2> QED BY <1>2, <2>2 DEF RowsInv
<1> QED BY <1>3, <1>4, <1>5

\* ConfirmFromWebhook: the position at the moment of the charge is not stale, so
\* the event it claims is the first one.
LEMMA ConfirmKeeps ==
  ASSUME RowsInv, NEW r, NEW e \in OpnEvents, ConfirmFromWebhook(r, e)
  PROVE  RowsInv' /\ Forward /\ Undecided
<1> DEFINE m == FoldMove(ledger, "NONE", "HELD", TotalSatang)
<1>1. /\ escrow = "NONE" /\ escrow' = "HELD" /\ ledger' = m
      /\ claimed' = claimed \cup {e} /\ status' = "CONFIRMED"
      /\ UNCHANGED <<timer, stay, guestRefund, dispute, strikes, admin>>
  BY DEF ConfirmFromWebhook, RecordCharge, ChargeOk, CurrentPosition
<1>2. ledger \in Ledger /\ TotalSatang \in Int
  BY Totals
<1>3. /\ m \in Ledger
      /\ Received(m) = Received(ledger) + TotalSatang /\ Refunded(m) = Refunded(ledger)
      /\ PaidOut(m) = PaidOut(ledger) /\ InEscrow(m) = InEscrow(ledger) + TotalSatang
  BY <1>2, ChargeTotals
<1> HIDE DEF m
<1>4. /\ ledger' \in Ledger
      /\ Received(ledger') = Received(ledger) + TotalSatang
      /\ Refunded(ledger') = Refunded(ledger) /\ PaidOut(ledger') = PaidOut(ledger)
      /\ InEscrow(ledger') = InEscrow(ledger) + TotalSatang
  BY <1>1, <1>3
<1>5. /\ Received(ledger) = 0 /\ claimed = {} /\ strikes = 0 /\ dispute.status = "NONE"
  BY <1>1 DEF RowsInv, AgreeInv, LogInv, UniqueRowsInv, StrikeInv
<1>6. LogInv'
  <2>1. InvariantHolds(ledger')
    BY <1>4, Totals DEF InvariantHolds
  <2>2. Received(ledger') = TotalSatang /\ Refunded(ledger') \in 0..Received(ledger')
    BY <1>4, <1>5, Totals
  <2>3. PaidOut(ledger') \in 0..TotalSatang /\ (payout' = NoPayout => PaidOut(ledger') = 0)
    BY <1>1, <1>4 DEF RowsInv, AgreeInv, LogInv, admin
  <2> QED BY <1>1, <2>1, <2>2, <2>3 DEF LogInv
<1>7. UniqueRowsInv'
  BY <1>1, <1>4, <1>5 DEF RowsInv, AgreeInv, UniqueRowsInv, guestRefund
<1>8. StrikeInv'
  BY <1>1, <1>5 DEF StrikeInv
<1>9. TypeOK'
  BY <1>1, <1>4 DEF RowsInv, TypeOK, BookingStatus, EscrowState, guestRefund, admin
<1>10. Forward /\ Undecided
  BY <1>1, <1>4, Totals DEF Forward, Undecided, admin
<1> QED BY <1>6, <1>7, <1>8, <1>9, <1>10 DEF RowsInv, AgreeInv

\* complete releases what is held, also when its view of the status is stale.
LEMMA CompleteKeeps ==
  ASSUME RowsInv, NEW r, Complete(r)
  PROVE  RowsInv' /\ Forward /\ Undecided
<1>1. /\ status' = "COMPLETED"
      /\ UNCHANGED <<timer, stay, claimed, guestRefund, dispute, strikes, admin>>
  BY DEF Complete
<1>2. CASE r.escrow = "HELD"
  <2>1. /\ escrow = "HELD" /\ escrow' = "RELEASABLE"
        /\ ledger' = FoldMove(ledger, "HELD", "RELEASABLE", InEscrow(ledger))
    BY <1>2 DEF Complete, Release, ReleaseOk, CurrentPosition
  <2>2. InEscrow(ledger) \in Int
    BY Totals
  <2>3. UNCHANGED <<claimed, refund, strikes, payout, dispute>>
    BY <1>1 DEF guestRefund, admin
  <2>4. AgreeInv' /\ Forward /\ Undecided /\ ledger' \in Ledger
    BY <1>1, <2>1, <2>2, <2>3, TransferAgrees
  <2>5. TypeOK'
    BY <1>1, <2>1, <2>4 DEF RowsInv, TypeOK, BookingStatus, EscrowState, guestRefund, admin
  <2> QED BY <2>4, <2>5 DEF RowsInv
<1>3. CASE r.escrow # "HELD"
  <2>1. UNCHANGED money
    BY <1>3 DEF Complete
  <2>2. AgreeInv' /\ Forward /\ Undecided
    BY <1>1, <2>1, QuietAgrees DEF money, guestRefund, admin
  <2>3. TypeOK'
    BY <1>1, <2>1 DEF RowsInv, TypeOK, BookingStatus, money, guestRefund, admin
  <2> QED BY <2>2, <2>3 DEF RowsInv
<1> QED BY <1>2, <1>3

\* Every freeze: of a dispute that opens, of an appeal, of a report accepted.
LEMMA FreezeAgrees ==
  ASSUME RowsInv, NEW p, PositionInv(p), Freeze(p),
         UNCHANGED <<claimed, refund, strikes, payout>>,
         dispute.status # "NONE" => dispute'.status # "NONE",
         status' = "CONFIRMED" => status' = status /\ dispute'.status = dispute.status
  PROVE  AgreeInv' /\ Forward /\ Undecided /\ ledger' \in Ledger /\ escrow' \in EscrowState
<1>1. /\ p.state \in {"HELD", "RELEASABLE", "FROZEN"} /\ p.state # "FROZEN"
      /\ p.amount \in Int /\ escrow # "NONE"
      /\ ledger' = FoldMove(ledger, p.state, "FROZEN", p.amount) /\ escrow' = "FROZEN"
  BY DEF Freeze, FreezeOk, FREEZABLE, PositionInv, Position
<1>2. AgreeInv' /\ Forward /\ Undecided /\ ledger' \in Ledger
  BY <1>1, TransferAgrees
<1> QED BY <1>1, <1>2 DEF EscrowState

LEMMA DisputeOpensKeeps ==
  ASSUME RowsInv, NEW r, OpenDispute(r) \/ \E k \in Reports : EscalateToDispute(r, k)
  PROVE  RowsInv' /\ Forward /\ Undecided
<1>1. /\ DisputeOpened(r) /\ UNCHANGED <<timer, stay, claimed, guestRefund, strikes, holds, payout>>
      /\ report' \in [Reports -> ReportStatus]
  BY DEF OpenDispute, EscalateToDispute, RowsInv, TypeOK, ReportStatus, admin
<1>2. /\ status' = "DISPUTED" /\ dispute' = [dispute EXCEPT !.status = "OPEN"]
      /\ Freeze(CurrentPosition)
  BY <1>1 DEF DisputeOpened
<1>3. dispute' \in [status : DisputeStatus, appealed : SUBSET Sides] /\ dispute'.status = "OPEN"
  BY <1>2 DEF RowsInv, TypeOK, DisputeStatus
<1>4. UNCHANGED <<claimed, refund, strikes, payout>>
  BY <1>1 DEF guestRefund
<1>5. AgreeInv' /\ Forward /\ Undecided /\ ledger' \in Ledger /\ escrow' \in EscrowState
  BY <1>2, <1>3, <1>4, Current, FreezeAgrees
<1>6. TypeOK'
  BY <1>1, <1>2, <1>3, <1>5 DEF RowsInv, TypeOK, BookingStatus, guestRefund
<1> QED BY <1>5, <1>6 DEF RowsInv

LEMMA AppealKeeps ==
  ASSUME RowsInv, NEW r, NEW p, PositionInv(p), NEW side \in Sides, AppealDispute(r, p, side)
  PROVE  RowsInv' /\ Forward /\ Undecided
<1>1. /\ dispute' = [dispute EXCEPT !.appealed = @ \cup {side}] /\ Freeze(p)
      /\ UNCHANGED <<status, timer, stay, claimed, guestRefund, strikes, admin>>
  BY DEF AppealDispute
<1>2. /\ dispute' \in [status : DisputeStatus, appealed : SUBSET Sides]
      /\ dispute'.status = dispute.status
  BY <1>1 DEF RowsInv, TypeOK
<1>3. UNCHANGED <<claimed, refund, strikes, payout>>
  BY <1>1 DEF guestRefund, admin
<1>4. AgreeInv' /\ Forward /\ Undecided /\ ledger' \in Ledger /\ escrow' \in EscrowState
  BY <1>1, <1>2, <1>3, FreezeAgrees
<1>5. TypeOK'
  BY <1>1, <1>2, <1>4 DEF RowsInv, TypeOK, guestRefund, admin
<1> QED BY <1>4, <1>5 DEF RowsInv

LEMMA AcceptReportKeeps ==
  ASSUME RowsInv, NEW r, NEW p, PositionInv(p), NEW k \in Reports, AcceptIntoReview(r, p, k)
  PROVE  RowsInv' /\ Forward /\ Undecided
<1>1. UNCHANGED <<status, timer, stay, claimed, guestRefund, dispute, strikes, holds, payout>>
  BY DEF AcceptIntoReview
<1>2. report' \in [Reports -> ReportStatus]
  BY DEF AcceptIntoReview, RowsInv, TypeOK, ReportStatus
<1>3. CASE r.escrow \in FREEZABLE
  <2>1. Freeze(p)
    BY <1>3 DEF AcceptIntoReview
  <2>2. UNCHANGED <<claimed, refund, strikes, payout, dispute, status>>
    BY <1>1 DEF guestRefund
  <2>3. AgreeInv' /\ Forward /\ Undecided /\ ledger' \in Ledger /\ escrow' \in EscrowState
    BY <2>1, <2>2, FreezeAgrees
  <2>4. TypeOK'
    BY <1>1, <1>2, <2>3 DEF RowsInv, TypeOK, guestRefund
  <2> QED BY <2>3, <2>4 DEF RowsInv
<1>4. CASE r.escrow \notin FREEZABLE
  <2>1. UNCHANGED money
    BY <1>4 DEF AcceptIntoReview
  <2>2. AgreeInv' /\ Forward /\ Undecided
    BY <1>1, <2>1, QuietAgrees DEF money, guestRefund
  <2>3. TypeOK'
    BY <1>1, <1>2, <2>1 DEF RowsInv, TypeOK, money, guestRefund
  <2> QED BY <2>2, <2>3 DEF RowsInv
<1> QED BY <1>3, <1>4

\* markPaid: the Payout row is the first, so nothing was paid out before.
LEMMA MarkPaidKeeps ==
  ASSUME RowsInv, NEW r, NEW p, PositionInv(p), Payable(p), MarkPaid(r, p)
  PROVE  RowsInv' /\ Forward /\ Undecided
<1> DEFINE m == FoldMove(ledger, "RELEASABLE", "PAID", p.amount)
<1>1. /\ p.state = "RELEASABLE" /\ ledger' = m /\ escrow' = "PAID" /\ payout = NoPayout
      /\ payout' = TotalSatang - CommissionSatang
      /\ UNCHANGED <<status, timer, stay, claimed, guestRefund, dispute, strikes, report, holds>>
  BY DEF MarkPaid, Pay, PayOk
<1>2. /\ escrow # "NONE" /\ p.amount \in Nat /\ p.amount <= TotalSatang /\ ledger \in Ledger
      /\ PaidOut(ledger) = 0 /\ TotalSatang \in Nat
  BY <1>1, Totals DEF PositionInv, Payable, RowsInv, AgreeInv, LogInv
<1>3. payout' # NoPayout
  BY <1>1, AmountsAssumption DEF NoPayout
<1>4. /\ m \in Ledger
      /\ Received(m) = Received(ledger) /\ Refunded(m) = Refunded(ledger)
      /\ PaidOut(m) = PaidOut(ledger) + p.amount /\ InEscrow(m) = InEscrow(ledger) - p.amount
  BY <1>2, PayTotals
<1> HIDE DEF m
<1>5. /\ ledger' \in Ledger
      /\ Received(ledger') = Received(ledger) /\ Refunded(ledger') = Refunded(ledger)
      /\ PaidOut(ledger') = p.amount /\ InEscrow(ledger') = InEscrow(ledger) - p.amount
  BY <1>1, <1>2, <1>4
<1>6. LogInv'
  <2>1. InvariantHolds(ledger')
    BY <1>2, <1>5, Totals DEF InvariantHolds
  <2> QED BY <1>1, <1>2, <1>3, <1>5, <2>1 DEF RowsInv, AgreeInv, LogInv
<1>7. UniqueRowsInv'
  BY <1>1, <1>2, <1>5 DEF RowsInv, AgreeInv, UniqueRowsInv, guestRefund
<1>8. StrikeInv'
  <2>1. strikes' = 1 => InEscrow(ledger') <= 0
    BY <1>1, <1>2, <1>5, Totals DEF RowsInv, AgreeInv, StrikeInv
  <2> QED BY <1>1, <1>2, <2>1 DEF RowsInv, AgreeInv, StrikeInv
<1>9. TypeOK'
  BY <1>1, <1>5 DEF RowsInv, TypeOK, EscrowState, guestRefund
<1>10. Forward /\ Undecided
  BY <1>1, <1>2, <1>3, <1>5, Totals DEF Forward, Undecided
<1> QED BY <1>6, <1>7, <1>8, <1>9, <1>10 DEF RowsInv, AgreeInv

\* The Refund row never holds more than was charged.
LEMMA RefundRowFits ==
  ASSUME AgreeInv', ledger' \in Ledger, refund'.satang \in Nat
  PROVE  refund'.satang \in 0..TotalSatang
<1>1. /\ refund'.satang <= Refunded(ledger') /\ Refunded(ledger') \in 0..Received(ledger')
      /\ Received(ledger') \in {0, TotalSatang}
  BY DEF AgreeInv, UniqueRowsInv, LogInv
<1>2. Refunded(ledger') \in Int /\ Received(ledger') \in Int /\ TotalSatang \in Nat
  BY Buckets, AmountsAssumption
<1> QED BY <1>1, <1>2

\* Only a cancellation of a confirmed booking decides about money, and such a
\* booking is not disputed.
LEMMA CancelByGuestKeeps ==
  ASSUME RowsInv, NEW r, NEW tier, NEW d, CancelByGuest(r, tier, d)
  PROVE  RowsInv' /\ Forward /\ (r.status # "CONFIRMED" => Undecided)
<1>1. /\ status' = "CANCELLED_BY_GUEST"
      /\ UNCHANGED <<timer, stay, claimed, gateway, dispute, strikes, admin>>
  BY DEF CancelByGuest
<1>2. CASE r.status = "CONFIRMED"
  <2> DEFINE satang == RefundSatangForPct(TotalSatang, GuestRefundPct(tier, d))
  <2>1. RecordRefund(satang) /\ Settle(CurrentPosition, satang) /\ calling' = TRUE
    BY <1>2 DEF CancelByGuest
  <2> HIDE DEF satang
  <2>2. /\ refund' = [exists |-> TRUE, satang |-> satang, sent |-> FALSE] /\ ~refund.exists
        /\ satang \in Nat
    BY <2>1, Totals DEF RecordRefund, Settle, SettleOk, CurrentPosition
  <2>3. refund'.satang <= Refunded(ledger) + satang /\ refund'.exists
    BY <2>2, Totals
  <2>4. UNCHANGED <<claimed, payout>>
    BY <1>1 DEF admin
  <2>5. AgreeInv' /\ Forward /\ ledger' \in Ledger /\ escrow' \in EscrowState
    BY <1>1, <2>1, <2>3, <2>4, Current, SettleAgrees
  <2>6. refund' \in [exists : BOOLEAN, satang : 0..TotalSatang, sent : BOOLEAN]
    <3>1. refund'.satang \in 0..TotalSatang
      BY <2>2, <2>5, RefundRowFits
    <3> QED BY <2>2, <3>1
  <2>7. TypeOK'
    BY <1>1, <2>1, <2>5, <2>6 DEF RowsInv, TypeOK, BookingStatus, admin
  <2> QED BY <1>2, <2>5, <2>7 DEF RowsInv
<1>3. CASE r.status # "CONFIRMED"
  <2>1. UNCHANGED <<money, refund, calling>>
    BY <1>3 DEF CancelByGuest
  <2>2. AgreeInv' /\ Forward /\ Undecided
    BY <1>1, <2>1, QuietAgrees DEF money, admin
  <2>3. TypeOK'
    BY <1>1, <2>1 DEF RowsInv, TypeOK, BookingStatus, money, admin
  <2> QED BY <2>2, <2>3 DEF RowsInv
<1> QED BY <1>2, <1>3

LEMMA CancelByHostKeeps ==
  ASSUME RowsInv, NEW r, CancelByHost(r)
  PROVE  RowsInv' /\ Forward
<1>1. /\ status' = "CANCELLED_BY_HOST" /\ strikes' = strikes + 1 /\ calling' = TRUE
      /\ RecordRefund(TotalSatang) /\ Settle(CurrentPosition, TotalSatang)
      /\ UNCHANGED <<timer, stay, claimed, gateway, dispute, admin>>
  BY DEF CancelByHost
<1>2. refund' = [exists |-> TRUE, satang |-> TotalSatang, sent |-> FALSE]
  BY <1>1 DEF RecordRefund
<1>3. /\ refund'.satang <= Refunded(ledger) + TotalSatang /\ refund'.exists
      /\ TotalSatang >= InEscrow(ledger)
  BY <1>2, Totals
<1>4. UNCHANGED <<claimed, payout>>
  BY <1>1 DEF admin
<1>5. AgreeInv' /\ Forward /\ ledger' \in Ledger /\ escrow' \in EscrowState
  BY <1>1, <1>3, <1>4, Current, SettleAgrees
<1>6. refund' \in [exists : BOOLEAN, satang : 0..TotalSatang, sent : BOOLEAN]
  BY <1>2, Totals
<1>7. TypeOK'
  BY <1>1, <1>5, <1>6 DEF RowsInv, TypeOK, BookingStatus, admin
<1> QED BY <1>5, <1>7 DEF RowsInv

LEMMA DecideWrites ==
  ASSUME RowsInv, NEW res \in DisputeResolution, Decide(res)
  PROVE  /\ dispute' \in [status : DisputeStatus, appealed : SUBSET Sides]
         /\ dispute'.status # "NONE"
         /\ status' \in BookingStatus /\ status' # "CONFIRMED"
         /\ strikes' = IF res.kind = "REFUNDED" THEN strikes + 1 ELSE strikes
<1>1. res.kind \in {"RELEASED", "PARTIAL", "REFUNDED"}
  BY DEF DisputeResolution
<1>2. ResolvedStatus(res) \in RESOLVED_DISPUTE_STATUSES
  BY <1>1 DEF ResolvedStatus, RESOLVED_DISPUTE_STATUSES
<1>3. /\ dispute' \in [status : DisputeStatus, appealed : SUBSET Sides]
      /\ dispute'.status = ResolvedStatus(res)
  BY <1>2 DEF Decide, RowsInv, TypeOK, DisputeStatus
<1> QED BY <1>2, <1>3 DEF Decide, BookingStatus, RESOLVED_DISPUTE_STATUSES

\* Two decisions on one dispute: the lock on its row leaves the second a position
\* that may still be settled, or none.
LEMMA ResolveKeeps ==
  ASSUME RowsInv, NEW r, NEW p, NEW res \in DisputeResolution, PositionInv(p), Settleable(p),
         ResolveDispute(r, p, res)
  PROVE  RowsInv' /\ Forward
<1> DEFINE satang == GuestShare(TotalSatang, res)
<1>1. /\ Decide(res) /\ Settle(p, satang)
      /\ (res.kind = "RELEASED" => refund' = refund)
      /\ (res.kind # "RELEASED" => RecordRefund(satang))
      /\ UNCHANGED <<timer, stay, claimed, gateway, calling, admin>>
  BY DEF ResolveDispute
<1>2. /\ (res.kind = "RELEASED" => satang = 0) /\ (res.kind = "REFUNDED" => satang = TotalSatang)
      /\ res.kind \in {"RELEASED", "PARTIAL", "REFUNDED"}
  BY DEF GuestShare, DisputeResolution
<1> HIDE DEF satang
<1>3. satang \in Nat
  BY <1>1 DEF Settle, SettleOk, PositionInv, Position
<1>4. \/ refund' = refund /\ satang = 0
      \/ refund' = [exists |-> TRUE, satang |-> satang, sent |-> FALSE]
  BY <1>1, <1>2 DEF RecordRefund
<1>5. \/ refund' = refund /\ satang = 0
      \/ refund'.exists /\ refund'.satang <= Refunded(ledger) + satang
  BY <1>3, <1>4, Totals
<1>6. \/ strikes' = strikes
      \/ strikes' = strikes + 1 /\ satang >= InEscrow(ledger)
  BY <1>1, <1>2, Totals, DecideWrites
<1>7. UNCHANGED <<claimed, payout>>
  BY <1>1 DEF admin
<1>8. dispute'.status # "NONE" /\ status' # "CONFIRMED"
  BY <1>1, DecideWrites
<1>9. AgreeInv' /\ Forward /\ ledger' \in Ledger /\ escrow' \in EscrowState
  BY <1>1, <1>5, <1>6, <1>7, <1>8, SettleAgrees
<1>10. refund' \in [exists : BOOLEAN, satang : 0..TotalSatang, sent : BOOLEAN]
  <2>1. CASE refund' = refund
    BY <2>1 DEF RowsInv, TypeOK
  <2>2. CASE refund' = [exists |-> TRUE, satang |-> satang, sent |-> FALSE]
    <3>1. refund'.satang \in 0..TotalSatang
      BY <1>3, <1>9, <2>2, RefundRowFits
    <3> QED BY <2>2, <3>1
  <2> QED BY <1>4, <2>1, <2>2
<1>11. strikes' \in Nat
  BY <1>9 DEF AgreeInv, StrikeInv
<1>12. TypeOK'
  BY <1>1, <1>9, <1>10, <1>11, DecideWrites DEF RowsInv, TypeOK, admin
<1> QED BY <1>9, <1>12 DEF RowsInv

\* A final decision on a stale pot: it is at least what is left in escrow.
LEMMA ResolveAppealKeeps ==
  ASSUME RowsInv, NEW r, ReadInv(r), NEW p, NEW res \in DisputeResolution, PositionInv(p),
         Settleable(p), ResolveAppeal(r, p, res)
  PROVE  RowsInv' /\ Forward
<1> DEFINE share == GuestShare(r.frozen, res)
<1>1. /\ Decide(res) /\ Settle(p, share) /\ r.escrow = "FROZEN"
      /\ (res.kind = "RELEASED" => refund' = refund)
      /\ (res.kind # "RELEASED" => UpsertRefund(r, share))
      /\ UNCHANGED <<timer, stay, claimed, gateway, calling, admin>>
  BY DEF ResolveAppeal
<1>2. /\ (res.kind = "RELEASED" => share = 0) /\ (res.kind = "REFUNDED" => share = r.frozen)
      /\ res.kind \in {"RELEASED", "PARTIAL", "REFUNDED"}
  BY DEF GuestShare, DisputeResolution
<1> HIDE DEF share
<1>3. share \in Nat
  BY <1>1 DEF Settle, SettleOk, PositionInv, Position
<1>4. /\ r.refund.satang \in Nat /\ r.refund.satang <= Refunded(ledger)
      /\ r.frozen \in Int /\ r.frozen >= InEscrow(ledger)
  BY <1>1 DEF ReadInv
<1>5. refund \in [exists : BOOLEAN, satang : 0..TotalSatang, sent : BOOLEAN]
  BY DEF RowsInv, TypeOK
<1>6. \/ refund' = refund /\ share = 0
      \/ refund' = [refund EXCEPT !.exists = TRUE, !.satang = r.refund.satang + share]
  BY <1>1, <1>2 DEF UpsertRefund
<1>7. \/ refund' = refund /\ share = 0
      \/ refund'.exists /\ refund'.satang <= Refunded(ledger) + share
  <2>1. CASE refund' = [refund EXCEPT !.exists = TRUE, !.satang = r.refund.satang + share]
    <3>1. refund'.exists /\ refund'.satang = r.refund.satang + share
      BY <1>5, <2>1
    <3> QED BY <1>3, <1>4, <3>1, Totals
  <2> QED BY <1>6, <2>1
<1>8. \/ strikes' = strikes
      \/ strikes' = strikes + 1 /\ share >= InEscrow(ledger)
  BY <1>1, <1>2, <1>4, DecideWrites
<1>9. UNCHANGED <<claimed, payout>>
  BY <1>1 DEF admin
<1>10. dispute'.status # "NONE" /\ status' # "CONFIRMED"
  BY <1>1, DecideWrites
<1>11. AgreeInv' /\ Forward /\ ledger' \in Ledger /\ escrow' \in EscrowState
  BY <1>1, <1>7, <1>8, <1>9, <1>10, SettleAgrees
<1>12. refund' \in [exists : BOOLEAN, satang : 0..TotalSatang, sent : BOOLEAN]
  <2>1. CASE refund' = refund
    BY <1>5, <2>1
  <2>2. CASE refund' = [refund EXCEPT !.exists = TRUE, !.satang = r.refund.satang + share]
    <3>1. refund'.satang = r.refund.satang + share
      BY <1>5, <2>2
    <3>2. refund'.satang \in 0..TotalSatang
      BY <1>3, <1>4, <1>11, <3>1, RefundRowFits
    <3> QED BY <1>5, <2>2, <3>1, <3>2
  <2> QED BY <1>6, <2>1, <2>2
<1>13. strikes' \in Nat
  BY <1>11 DEF AgreeInv, StrikeInv
<1>14. TypeOK'
  BY <1>1, <1>11, <1>12, <1>13, DecideWrites DEF RowsInv, TypeOK, admin
<1> QED BY <1>11, <1>14 DEF RowsInv

\* The calls to Opn write the Refund row's opnRefundId, never its amount.
LEMMA SendKeeps ==
  ASSUME RowsInv, NEW r, ReadInv(r), RefundAfterCancel(r) \/ FinalizeDisputeRefund(r)
  PROVE  RowsInv' /\ Forward /\ Undecided
<1>1. /\ UNCHANGED <<status, timer, stay, money, claimed, dispute, strikes, admin>>
      /\ calling' \in BOOLEAN
      /\ \/ UNCHANGED <<refund, gateway>>
         \/ refund' = [refund EXCEPT !.sent = TRUE] /\ gateway' = gateway + r.refund.satang
  BY DEF RefundAfterCancel, FinalizeDisputeRefund, SendRefund, RowsInv, TypeOK
<1>a. /\ refund \in [exists : BOOLEAN, satang : 0..TotalSatang, sent : BOOLEAN]
      /\ gateway \in Nat /\ r.refund.satang \in Nat
  BY DEF RowsInv, TypeOK, ReadInv
<1>2. /\ refund' \in [exists : BOOLEAN, satang : 0..TotalSatang, sent : BOOLEAN]
      /\ refund'.exists = refund.exists /\ refund'.satang = refund.satang /\ gateway' \in Nat
  <2>1. CASE UNCHANGED <<refund, gateway>>
    BY <1>a, <2>1
  <2>2. CASE refund' = [refund EXCEPT !.sent = TRUE] /\ gateway' = gateway + r.refund.satang
    <3>1. gateway' \in Nat
      BY <1>a, <2>2
    <3> QED BY <1>a, <2>2, <3>1
  <2> QED BY <1>1, <2>1, <2>2
<1>3. AgreeInv' /\ Forward /\ Undecided
  BY <1>1, <1>2, QuietAgrees DEF money, admin
<1>4. TypeOK'
  BY <1>1, <1>2 DEF RowsInv, TypeOK, money, admin
<1> QED BY <1>3, <1>4 DEF RowsInv

\* Every handler, from whatever it read, keeps the rows in agreement; but for a
\* cancellation of a confirmed booking and the two decisions, none decides.
LEMMA RunKeeps ==
  ASSUME RowsInv, NEW op, NEW r, ReadInv(r), NEW p, PositionInv(p),
         op \in DisputeWriters /\ r.dispute.status # "NONE" => Settleable(p),
         op = "markPaid" => Payable(p),
         Run(op, r, p)
  PROVE  /\ RowsInv' /\ Forward
         /\ op \notin DisputeWriters /\ r.status # "CONFIRMED" => Undecided
<1>1. CASE op = "confirm" /\ \E e \in OpnEvents : ConfirmFromWebhook(r, e)
  BY <1>1, ConfirmKeeps
<1>2. CASE op = "complete" /\ Complete(r)
  BY <1>2, CompleteKeeps
<1>3. CASE op = "cancelByGuest"
           /\ \E tier \in CancellationTier, d \in LeadDays : CancelByGuest(r, tier, d)
  <2>1. PICK tier, d : CancelByGuest(r, tier, d)
    BY <1>3
  <2> QED BY <2>1, CancelByGuestKeeps
<1>4. CASE op = "cancelByHost" /\ CancelByHost(r)
  <2>1. r.status = "CONFIRMED"
    BY <1>4 DEF CancelByHost
  <2>2. RowsInv' /\ Forward
    BY <1>4, CancelByHostKeeps
  <2> QED BY <2>1, <2>2
<1>5. CASE op = "openDispute" /\ OpenDispute(r)
  BY <1>5, DisputeOpensKeeps
<1>6. CASE op = "resolveDispute" /\ \E res \in DisputeResolution : ResolveDispute(r, p, res)
  <2>1. PICK res \in DisputeResolution : ResolveDispute(r, p, res)
    BY <1>6
  <2>2. op \in DisputeWriters /\ r.dispute.status # "NONE"
    BY <1>6, <2>1 DEF ResolveDispute, DisputeWriters
  <2>3. RowsInv' /\ Forward
    BY <2>1, <2>2, ResolveKeeps
  <2> QED BY <2>2, <2>3
<1>7. CASE op = "appealDispute" /\ \E side \in Sides : AppealDispute(r, p, side)
  BY <1>7, AppealKeeps
<1>8. CASE op = "resolveAppeal" /\ \E res \in DisputeResolution : ResolveAppeal(r, p, res)
  <2>1. PICK res \in DisputeResolution : ResolveAppeal(r, p, res)
    BY <1>8
  <2>2. op \in DisputeWriters /\ r.dispute.status # "NONE"
    BY <1>8, <2>1 DEF ResolveAppeal, DisputeWriters
  <2>3. RowsInv' /\ Forward
    BY <2>1, <2>2, ResolveAppealKeeps
  <2> QED BY <2>2, <2>3
<1>9. CASE op = "acceptIntoReview" /\ \E k \in Reports : AcceptIntoReview(r, p, k)
  BY <1>9, AcceptReportKeeps
<1>10. CASE op = "markPaid" /\ MarkPaid(r, p)
  BY <1>10, MarkPaidKeeps
<1>11. CASE op = "openDispute" /\ \E k \in Reports : EscalateToDispute(r, k)
  BY <1>11, DisputeOpensKeeps
<1>12. CASE op = "accept" /\ Accept(r)
  BY <1>12, StatusStepKeeps
<1>13. CASE op = "decline" /\ Decline(r)
  BY <1>13, StatusStepKeeps
<1>14. CASE op = "expire" /\ Expire(r)
  BY <1>14, StatusStepKeeps
<1>15. CASE op = "checkIn" /\ CheckIn(r)
  BY <1>15, StatusStepKeeps
<1> QED
  BY <1>1, <1>2, <1>3, <1>4, <1>5, <1>6, <1>7, <1>8,
     <1>9, <1>10, <1>11, <1>12, <1>13, <1>14, <1>15 DEF Run

-----------------------------------------------------------------------------
(* The slow handler                                                          *)

\* What others do leaves a stale read behind the rows, never ahead of them.
LEMMA ReadStaysBehind ==
  ASSUME RowsInv, RowsInv', Forward, NEW r, ReadInv(r)
  PROVE  ReadInv(r)'
<1>1. Refunded(ledger') \in Int /\ Refunded(ledger) \in Int /\ InEscrow(ledger') \in Int
      /\ InEscrow(ledger) \in Int
  BY Buckets DEF RowsInv, TypeOK
<1> QED BY <1>1 DEF ReadInv, Forward

\* SlowInv, taken apart: what a slow handler must satisfy.
SlowAgrees ==
  /\ slow \in SlowHandlers
  /\ ReadInv(slow.read) /\ PositionInv(slow.pos)
  /\ slow.at = "ready" /\ slow.op \in DisputeWriters /\ slow.read.dispute.status # "NONE"
       => Settleable(slow.pos)
  /\ slow.at = "ready" /\ slow.op = "markPaid" => Payable(slow.pos)

LEMMA SlowProgram ==
  ASSUME SlowInv, slow # Nothing
  PROVE  /\ SlowAgrees
         /\ slow.op \in Slow /\ slow.at \in {"read", "half", "ready"}
         /\ slow.pos \in Position /\ slow.left \in 0..MaxOvertaken
  BY DEF SlowInv, SlowAgrees, SlowHandlers

\* The position a slow handler has read stays settleable, and payable, while
\* others run: the lock on the Dispute row holds off the other decisions.
LEMMA OvertakenKeeps ==
  ASSUME RowsInv, RowsInv', SlowInv, Forward, slow # Nothing,
         slow.left > 0, slow' = [slow EXCEPT !.left = @ - 1],
         DisputeLocked /\ dispute.status # "NONE" => Undecided
  PROVE  SlowInv'
<1>1. /\ SlowAgrees /\ slow \in SlowHandlers /\ slow.pos \in Position
      /\ slow.left \in 0..MaxOvertaken /\ MaxOvertaken \in Nat
  BY SlowProgram, SlowAssumption DEF SlowAgrees
<1>2. /\ slow'.op = slow.op /\ slow'.at = slow.at /\ slow'.read = slow.read /\ slow'.pos = slow.pos
      /\ slow' \in SlowHandlers'
  BY <1>1 DEF SlowHandlers
<1>3. PICK r, p : r = slow.read /\ p = slow.pos
  OBVIOUS
<1>4. ReadInv(r) /\ PositionInv(p)
  BY <1>1, <1>3 DEF SlowAgrees
<1>5. ReadInv(r)'
  BY <1>4, ReadStaysBehind
<1>6. PositionInv(p)'
  BY <1>4 DEF PositionInv, Forward
<1>7. ASSUME slow.at = "ready", slow.op \in DisputeWriters, r.dispute.status # "NONE"
      PROVE  Settleable(p)'
  <2>1. Settleable(p)
    BY <1>1, <1>3, <1>7 DEF SlowAgrees
  <2>2. dispute.status # "NONE"
    BY <1>4, <1>7 DEF ReadInv
  <2>3. Undecided
    BY <1>7, <2>2 DEF DisputeLocked
  <2>4. escrow # "NONE" /\ escrow' # "NONE"
    BY <2>2 DEF RowsInv, AgreeInv, StrikeInv, Forward
  <2>5. Received(ledger') = Received(ledger)
    BY <2>4 DEF RowsInv, AgreeInv, LogInv
  <2> QED BY <2>1, <2>3, <2>5 DEF Settleable, Undecided
<1>8. ASSUME slow.at = "ready", slow.op = "markPaid"
      PROVE  Payable(p)'
  <2>1. Payable(p)
    BY <1>1, <1>3, <1>8 DEF SlowAgrees
  <2> QED BY <2>1 DEF Payable, Forward
<1>9. /\ slow'.read = r /\ slow'.pos = p /\ slow'.op = slow.op /\ slow'.at = slow.at
  BY <1>2, <1>3
<1>10. ReadInv(slow.read)' /\ PositionInv(slow.pos)'
  BY <1>5, <1>6, <1>9 DEF ReadInv, PositionInv
<1>11. /\ slow'.at = "ready" /\ slow'.op \in DisputeWriters /\ slow'.read.dispute.status # "NONE"
            => Settleable(slow.pos)'
       /\ slow'.at = "ready" /\ slow'.op = "markPaid" => Payable(slow.pos)'
  BY <1>7, <1>8, <1>9 DEF Settleable, Payable
<1> QED BY <1>2, <1>10, <1>11 DEF SlowInv

\* A handler that starts, and one that reads on, reads what is there.
LEMMA ReadingKeeps ==
  ASSUME RowsInv, SlowInv, UNCHANGED vars,
         TakeState \/ TakeAmount \/ \E op \in Slow : slow' = Started(op)
  PROVE  RowsInv' /\ SlowInv'
<1>1. RowsInv'
  BY DEF vars, money, guestRefund, admin, RowsInv, TypeOK, AgreeInv, LogInv, UniqueRowsInv, StrikeInv
<1>2. /\ ledger' = ledger /\ escrow' = escrow /\ dispute' = dispute /\ strikes' = strikes
      /\ payout' = payout
  BY DEF vars, money, admin
<1>3. CASE \E op \in Slow : slow' = Started(op)
  <2>1. PICK op \in Slow : slow' = Started(op)
    BY <1>3
  <2>2. ReadInv(Rows) /\ PositionInv(CurrentPosition)
    BY Current
  <2>3. /\ slow'.read = Rows /\ slow'.pos = CurrentPosition /\ slow'.at = "read"
        /\ slow' \in SlowHandlers'
    BY <2>1, <2>2, SlowAssumption DEF Started, SlowHandlers, PositionInv
  <2>4. ReadInv(slow.read)' /\ PositionInv(slow.pos)'
    BY <1>2, <2>2, <2>3 DEF ReadInv, PositionInv
  <2> QED BY <1>1, <2>3, <2>4 DEF SlowInv
<1>4. CASE TakeState
  <2>1. /\ slow # Nothing /\ slow' = [slow EXCEPT !.at = "half", !.pos.state = escrow]
    BY <1>4 DEF TakeState
  <2>2. /\ SlowAgrees /\ slow \in SlowHandlers /\ slow.pos \in Position /\ escrow \in EscrowState
    BY <2>1, SlowProgram DEF SlowAgrees, RowsInv, TypeOK
  <2>3. /\ slow'.at = "half" /\ slow'.read = slow.read /\ slow'.op = slow.op
        /\ slow'.pos = [slow.pos EXCEPT !.state = escrow] /\ slow'.left = slow.left
    BY <2>1, <2>2 DEF SlowHandlers
  <2>4. slow'.pos \in Position /\ slow'.pos.state = escrow
    BY <2>2, <2>3 DEF Position
  <2>5. slow' \in SlowHandlers'
    BY <2>1, <2>2, <2>3, <2>4 DEF SlowHandlers
  <2>6. ReadInv(slow.read)' /\ PositionInv(slow.pos)'
    BY <1>2, <2>2, <2>3, <2>4 DEF ReadInv, PositionInv, SlowAgrees
  <2> QED BY <1>1, <2>3, <2>5, <2>6 DEF SlowInv
<1>5. CASE TakeAmount
  <2>1. /\ slow # Nothing /\ slow' = [slow EXCEPT !.at = "ready", !.pos.amount = InEscrow(ledger)]
    BY <1>5 DEF TakeAmount
  <2>2. /\ SlowAgrees /\ slow \in SlowHandlers /\ slow.pos \in Position /\ InEscrow(ledger) \in Int
    BY <2>1, SlowProgram, Totals DEF SlowAgrees
  <2>3. /\ slow'.at = "ready" /\ slow'.read = slow.read /\ slow'.op = slow.op
        /\ slow'.pos = [slow.pos EXCEPT !.amount = InEscrow(ledger)] /\ slow'.left = slow.left
    BY <2>1, <2>2 DEF SlowHandlers
  <2>4. /\ slow'.pos \in Position /\ slow'.pos.state = slow.pos.state
        /\ slow'.pos.amount = InEscrow(ledger)
    BY <2>2, <2>3 DEF Position
  <2>5. slow' \in SlowHandlers'
    BY <2>1, <2>2, <2>3, <2>4 DEF SlowHandlers
  <2>6. ReadInv(slow.read)' /\ PositionInv(slow.pos)'
    BY <1>2, <2>2, <2>3, <2>4 DEF ReadInv, PositionInv, SlowAgrees
  <2>7. Settleable(CurrentPosition) /\ Payable(CurrentPosition)
    BY Current
  <2>8. Settleable(slow.pos)' /\ Payable(slow.pos)'
    BY <1>2, <2>4, <2>7 DEF Settleable, Payable, CurrentPosition
  <2> QED BY <1>1, <2>5, <2>6, <2>8 DEF SlowInv
<1> QED BY <1>3, <1>4, <1>5

-----------------------------------------------------------------------------
(* The steps                                                                 *)

\* A quick step while a decision holds the Dispute row's lock decides nothing.
LEMMA QuickStep ==
  ASSUME RowsInv, Quick
  PROVE  RowsInv' /\ Forward /\ (DisputeLocked /\ dispute.status # "NONE" => Undecided)
<1>1. ReadInv(Rows)
  BY Current
<1>2. ASSUME NEW op \in Handlers, op \in DisputeWriters => ~DisputeLocked,
             Run(op, Rows, CurrentPosition)
      PROVE  RowsInv' /\ Forward /\ (DisputeLocked /\ dispute.status # "NONE" => Undecided)
  <2>1. /\ RowsInv' /\ Forward
        /\ op \notin DisputeWriters /\ Rows.status # "CONFIRMED" => Undecided
    BY <1>2, Current, RunKeeps
  <2>2. dispute.status # "NONE" => Rows.status # "CONFIRMED"
    BY DEF RowsInv, AgreeInv, StrikeInv, Rows
  <2> QED BY <1>2, <2>1, <2>2
<1>3. CASE RefundAfterCancel(Rows) \/ FinalizeDisputeRefund(Rows)
  BY <1>1, <1>3, SendKeeps
<1>4. CASE PlaceHold \/ ReleaseHold \/ \E k \in Reports : CloseReport(Rows, k)
  <2>1. \/ PlaceHold \/ ReleaseHold
        \/ \E k \in Reports : CreateBookingReport(k) \/ CloseReport(Rows, k)
    BY <1>4
  <2> QED BY <2>1, SurroundingStepKeeps
<1> QED BY <1>2, <1>3, <1>4 DEF Quick

LEMMA QuickKeeps ==
  ASSUME RowsInv, SlowInv, Quick
  PROVE  RowsInv' /\ SlowInv'
<1>1. RowsInv' /\ Forward /\ (DisputeLocked /\ dispute.status # "NONE" => Undecided)
  BY QuickStep
<1>2. CASE slow = Nothing
  BY <1>1, <1>2 DEF Quick, Overtake, SlowInv
<1>3. CASE slow # Nothing
  <2>1. slow.left > 0 /\ slow' = [slow EXCEPT !.left = @ - 1]
    BY <1>3 DEF Quick, Overtake
  <2> QED BY <1>1, <1>3, <2>1, OvertakenKeeps
<1> QED BY <1>2, <1>3

LEMMA SurroundingsKeep ==
  ASSUME RowsInv, Surroundings
  PROVE  RowsInv' /\ SlowInv'
<1>1. \/ Clock \/ Request \/ InstantHold \/ PlaceHold \/ ReleaseHold
      \/ \E k \in Reports : CreateBookingReport(k) \/ CloseReport(Rows, k)
  BY DEF Surroundings
<1>2. RowsInv'
  BY <1>1, SurroundingStepKeeps
<1> QED BY <1>2 DEF Surroundings, SlowInv

\* A handler commits from rows that others may have left behind.
LEMMA CommitKeeps ==
  ASSUME RowsInv, SlowInv, Commit
  PROVE  RowsInv' /\ SlowInv'
<1>1. slow # Nothing /\ slow' = Nothing /\ SlowAgrees
  BY SlowProgram DEF Commit
<1>2. CASE slow.op \in ReadsPositionFirst
  <2>1. slow.at = "ready" /\ Run(slow.op, slow.read, slow.pos)
    BY <1>2 DEF Commit
  <2>2. PICK op, r, p : op = slow.op /\ r = slow.read /\ p = slow.pos
    OBVIOUS
  <2>3. /\ Run(op, r, p) /\ ReadInv(r) /\ PositionInv(p)
        /\ op \in DisputeWriters /\ r.dispute.status # "NONE" => Settleable(p)
        /\ op = "markPaid" => Payable(p)
    BY <1>1, <2>1, <2>2 DEF SlowAgrees
  <2>4. RowsInv'
    BY <2>3, RunKeeps
  <2> QED BY <1>1, <2>4 DEF SlowInv
<1>3. CASE slow.op \notin ReadsPositionFirst
  <2>1. Run(slow.op, slow.read, CurrentPosition) /\ ReadInv(slow.read)
    BY <1>1, <1>3 DEF Commit, SlowAgrees
  <2>2. RowsInv'
    BY <2>1, Current, RunKeeps
  <2> QED BY <1>1, <2>2 DEF SlowInv
<1> QED BY <1>2, <1>3

\* refundBookingToGuest: its three steps write what no one else compares.
LEMMA RefundingKeeps ==
  ASSUME RowsInv, SlowInv, BeginRefund \/ CallOpn \/ StoreRefundId
  PROVE  RowsInv' /\ SlowInv'
<1>1. /\ refund \in [exists : BOOLEAN, satang : 0..TotalSatang, sent : BOOLEAN]
      /\ gateway \in Nat /\ calling \in BOOLEAN
  BY DEF RowsInv, TypeOK
<1>2. CASE BeginRefund
  <2>1. /\ calling' \in BOOLEAN
        /\ UNCHANGED <<status, timer, stay, money, claimed, refund, gateway, dispute, strikes, admin>>
        /\ slow' = Started("refundBookingToGuest") /\ "refundBookingToGuest" \in Slow
    BY <1>1, <1>2 DEF BeginRefund
  <2>2. AgreeInv'
    BY <2>1, QuietAgrees DEF money, admin
  <2>3. RowsInv'
    BY <2>1, <2>2 DEF RowsInv, TypeOK, money, admin
  <2>4. ReadInv(Rows) /\ PositionInv(CurrentPosition)
    BY Current
  <2>5. /\ slow'.read = Rows /\ slow'.pos = CurrentPosition /\ slow'.at = "read"
        /\ slow' \in SlowHandlers'
    BY <2>1, <2>4, SlowAssumption DEF Started, SlowHandlers, PositionInv
  <2>6. ReadInv(slow.read)' /\ PositionInv(slow.pos)'
    BY <2>1, <2>4, <2>5 DEF ReadInv, PositionInv, money
  <2> QED BY <2>3, <2>5, <2>6 DEF SlowInv
<1>3. CASE CallOpn
  <2>1. /\ slow # Nothing /\ slow.op = "refundBookingToGuest"
        /\ gateway' = gateway + slow.read.refund.satang
        /\ slow' = [slow EXCEPT !.at = "ready"]
        /\ UNCHANGED <<status, timer, stay, money, claimed, refund, calling, dispute, strikes, admin>>
    BY <1>3 DEF CallOpn
  <2>2. SlowAgrees /\ slow \in SlowHandlers /\ ReadInv(slow.read) /\ PositionInv(slow.pos)
    BY <2>1, SlowProgram DEF SlowAgrees
  <2>3. gateway' \in Nat
    BY <1>1, <2>1, <2>2 DEF ReadInv
  <2>4. AgreeInv'
    BY <2>1, QuietAgrees DEF money, admin
  <2>5. RowsInv'
    BY <2>1, <2>3, <2>4 DEF RowsInv, TypeOK, money, admin
  <2>6. /\ slow'.op = "refundBookingToGuest" /\ slow'.read = slow.read /\ slow'.pos = slow.pos
        /\ slow' \in SlowHandlers'
    BY <2>1, <2>2 DEF SlowHandlers
  <2>7. ReadInv(slow.read)' /\ PositionInv(slow.pos)'
    BY <2>1, <2>2, <2>6 DEF ReadInv, PositionInv, money
  <2>8. slow'.op \notin DisputeWriters /\ slow'.op # "markPaid"
    BY <2>6 DEF DisputeWriters
  <2> QED BY <2>5, <2>6, <2>7, <2>8 DEF SlowInv
<1>4. CASE StoreRefundId
  <2>1. /\ refund' = [refund EXCEPT !.sent = TRUE] /\ slow' = Nothing
        /\ UNCHANGED <<status, timer, stay, money, claimed, gateway, calling, dispute, strikes, admin>>
    BY <1>4 DEF StoreRefundId
  <2>2. /\ refund' \in [exists : BOOLEAN, satang : 0..TotalSatang, sent : BOOLEAN]
        /\ refund'.exists = refund.exists /\ refund'.satang = refund.satang
    BY <1>1, <2>1
  <2>3. AgreeInv'
    BY <2>1, <2>2, QuietAgrees DEF money, admin
  <2>4. RowsInv'
    BY <2>1, <2>2, <2>3 DEF RowsInv, TypeOK, money, admin
  <2> QED BY <2>1, <2>4 DEF SlowInv
<1> QED BY <1>2, <1>3, <1>4

LEMMA TxInitEstablishes == TxInit => TxIInv
<1> SUFFICES ASSUME TxInit PROVE TxIInv
  OBVIOUS
<1>1. /\ ledger \in Ledger /\ Received(ledger) = 0 /\ Refunded(ledger) = 0 /\ PaidOut(ledger) = 0
      /\ InEscrow(ledger) = 0
  BY DEF TxInit, Init, Ledger, EMPTY_BUCKETS, EscrowState, Received, Refunded, PaidOut, InEscrow
<1>2. TypeOK
  <2>1. refund \in [exists : BOOLEAN, satang : 0..TotalSatang, sent : BOOLEAN]
    BY AmountsAssumption DEF TxInit, Init
  <2>2. /\ dispute \in [status : DisputeStatus, appealed : SUBSET Sides]
        /\ report \in [Reports -> ReportStatus]
    BY DEF TxInit, Init, DisputeStatus, ReportStatus
  <2>3. holds \in 0..MaxHolds
    BY ChoicesAssumption DEF TxInit, Init
  <2> QED BY <1>1, <2>1, <2>2, <2>3 DEF TxInit, Init, TypeOK, BookingStatus, EscrowState
<1>3. AgreeInv
  BY <1>1, AmountsAssumption
    DEF TxInit, Init, AgreeInv, LogInv, UniqueRowsInv, StrikeInv, InvariantHolds
<1> QED BY <1>2, <1>3 DEF TxIInv, RowsInv, SlowInv, TxInit

LEMMA TxStepKeeps == TxIInv /\ [TxNext]_txVars => TxIInv'
<1> SUFFICES ASSUME RowsInv, SlowInv, [TxNext]_txVars
             PROVE  RowsInv' /\ SlowInv'
  BY DEF TxIInv
<1>1. CASE Quick
  BY <1>1, QuickKeeps
<1>2. CASE Surroundings
  BY <1>2, SurroundingsKeep
<1>3. CASE \E op \in Slow : Begin(op)
  <2>1. PICK op \in Slow : slow' = Started(op) /\ UNCHANGED vars
    BY <1>3 DEF Begin
  <2> QED BY <2>1, ReadingKeeps
<1>4. CASE TakeState \/ TakeAmount
  <2>1. UNCHANGED vars
    BY <1>4 DEF TakeState, TakeAmount
  <2> QED BY <1>4, <2>1, ReadingKeeps
<1>5. CASE Commit
  BY <1>5, CommitKeeps
<1>6. CASE Abort
  <2>1. slow' = Nothing /\ UNCHANGED vars
    BY <1>6 DEF Abort
  <2> QED
    BY <2>1 DEF vars, money, guestRefund, admin, RowsInv, TypeOK, AgreeInv, LogInv,
       UniqueRowsInv, StrikeInv, SlowInv
<1>7. CASE BeginRefund \/ CallOpn \/ StoreRefundId
  BY <1>7, RefundingKeeps
<1>8. CASE UNCHANGED txVars
  BY <1>8 DEF txVars, vars, money, guestRefund, admin, RowsInv, TypeOK, AgreeInv, LogInv,
     UniqueRowsInv, StrikeInv, SlowInv, SlowHandlers, ReadInv, PositionInv, Settleable, Payable
<1> QED BY <1>1, <1>2, <1>3, <1>4, <1>5, <1>6, <1>7, <1>8 DEF TxNext

-----------------------------------------------------------------------------
(* The theorems                                                              *)

\* The rows stay in agreement, and no slow handler gets ahead of them, whichever
\* handlers are slow and however many others pass them (lib/booking, lib/ledger,
\* lib/admin under READ COMMITTED).
THEOREM RacesInvariant == TxSpec => []TxIInv
  BY TxInitEstablishes, TxStepKeeps, PTL DEF TxSpec

\* However many webhook events race each other and the other handlers, the booking
\* is charged for one of them (confirmFromWebhook).
THEOREM RacesChargeOnce == TxSpec => []ChargedOnce
<1>1. TxIInv => ChargedOnce
  <2> SUFFICES ASSUME TxIInv PROVE ChargedOnce
    OBVIOUS
  <2>1. RowsInv
    BY DEF TxIInv
  <2>2. /\ Received(ledger) = IF escrow = "NONE" THEN 0 ELSE TotalSatang
        /\ claimed = {} <=> escrow = "NONE"
        /\ \A e, f \in claimed : e = f
    BY <2>1 DEF RowsInv, AgreeInv, LogInv, UniqueRowsInv
  <2>3. CASE claimed = {}
    BY <2>2, <2>3, FS_EmptySet DEF ChargedOnce
  <2>4. CASE claimed # {}
    <3>1. PICK e : claimed = {e}
      BY <2>2, <2>4
    <3>2. Cardinality(claimed) = 1
      BY <3>1, FS_Singleton
    <3>3. Received(ledger) = TotalSatang /\ TotalSatang # 0
      BY <2>2, <2>4, AmountsAssumption
    <3> QED BY <3>2, <3>3 DEF ChargedOnce
  <2> QED BY <2>3, <2>4
<1> QED BY <1>1, RacesInvariant, PTL

\* Two admins who mark one booking paid, from lists that are both stale, pay the
\* host once and never more than the price (markPaid).
THEOREM RacesPayOnce == TxSpec => []PaidOutOnce
<1>1. TxIInv => PaidOutOnce
  <2> SUFFICES ASSUME TxIInv PROVE PaidOutOnce
    OBVIOUS
  <2>1. PaidOut(ledger) \in 0..TotalSatang /\ (payout = NoPayout => PaidOut(ledger) = 0)
    BY DEF TxIInv, RowsInv, AgreeInv, LogInv
  <2> QED BY <2>1 DEF PaidOutOnce
<1> QED BY <1>1, RacesInvariant, PTL

\* Whatever decisions, cancellations and appeals meet, the host has one strike at
\* most and the log refunds no more than was charged (lib/booking/disputes.ts,
\* transitions.ts).
THEOREM RacesStrikeOnce == TxSpec => []TxInv
<1>1. TxIInv => TxInv
  <2> SUFFICES ASSUME TxIInv PROVE TxInv
    OBVIOUS
  <2>1. RowsInv /\ SlowInv
    BY DEF TxIInv
  <2>2. TxTypeOK
    BY <2>1, SlowProgram DEF TxTypeOK, RowsInv
  <2>3. OneStrike
    BY <2>1 DEF OneStrike, RowsInv, AgreeInv, StrikeInv
  <2>4. RefundedWithinCharge
    BY <2>1, Totals DEF RefundedWithinCharge
  <2> QED BY <2>2, <2>3, <2>4 DEF TxInv
<1> QED BY <1>1, RacesInvariant, PTL

-----------------------------------------------------------------------------
(* What no stale handler takes back                                          *)

\* Claims, refunds and strikes only grow, and once there is a Payout row neither it
\* nor what the log has paid out ever changes.
MoneyForward ==
  /\ claimed \subseteq claimed' /\ strikes' >= strikes
  /\ Refunded(ledger') >= Refunded(ledger)
  /\ payout # NoPayout => payout' = payout /\ PaidOut(ledger') = PaidOut(ledger)

\* No move but the payout reaches PAID.
LEMMA OthersPayNothing ==
  ASSUME RowsInv, NEW p, PositionInv(p),
         UNCHANGED ledger \/ RecordCharge \/ Release \/ Freeze(p) \/ \E satang : Settle(p, satang)
  PROVE  PaidOut(ledger') = PaidOut(ledger)
<1>1. ledger \in Ledger /\ TotalSatang \in Int /\ InEscrow(ledger) \in Int
  BY Totals
<1>2. CASE RecordCharge
  <2>1. ledger' = FoldMove(ledger, "NONE", "HELD", TotalSatang)
    BY <1>2 DEF RecordCharge
  <2> QED BY <1>1, <2>1, ChargeTotals
<1>3. CASE Release
  <2>1. ledger' = FoldMove(ledger, "HELD", "RELEASABLE", InEscrow(ledger))
    BY <1>3 DEF Release
  <2> QED BY <1>1, <2>1, TransferTotals
<1>4. CASE Freeze(p)
  <2>1. /\ ledger' = FoldMove(ledger, p.state, "FROZEN", p.amount)
        /\ p.state \in {"HELD", "RELEASABLE"} /\ p.amount \in Int
    BY <1>4 DEF Freeze, FreezeOk, FREEZABLE, PositionInv, Position
  <2>2. p.state \in {"HELD", "RELEASABLE", "FROZEN"} /\ p.state # "FROZEN"
    BY <2>1
  <2> QED BY <1>1, <2>1, <2>2, TransferTotals
<1>5. CASE \E satang : Settle(p, satang)
  <2>1. PICK satang : SettleOk(p, satang) /\ ledger' = Settled(ledger, p, satang)
    BY <1>5 DEF Settle
  <2> QED BY <1>1, <2>1, SettleTotals DEF PositionInv
<1> QED BY <1>2, <1>3, <1>4, <1>5

\* A handler, from whatever it read, claims more or as much, strikes more or as much,
\* and pays out only with the first Payout row.
LEMMA RunMovesForward ==
  ASSUME RowsInv, NEW op, NEW r, NEW p, PositionInv(p), Run(op, r, p)
  PROVE  /\ claimed \subseteq claimed' /\ strikes' >= strikes
         /\ payout # NoPayout => payout' = payout /\ PaidOut(ledger') = PaidOut(ledger)
<1>1. strikes \in Nat /\ PositionInv(CurrentPosition)
  BY Current DEF RowsInv, TypeOK
<1>2. CASE MarkPaid(r, p)
  BY <1>1, <1>2 DEF MarkPaid
<1>3. CASE \E e \in OpnEvents : ConfirmFromWebhook(r, e)
  <2>1. claimed \subseteq claimed' /\ UNCHANGED <<strikes, payout>> /\ RecordCharge
    BY <1>3 DEF ConfirmFromWebhook, admin
  <2> QED BY <1>1, <2>1, OthersPayNothing
<1>4. CASE Accept(r) \/ Decline(r) \/ Expire(r) \/ CheckIn(r)
  <2>1. UNCHANGED <<claimed, strikes, payout, ledger>>
    BY <1>4 DEF Accept, Decline, Expire, CheckIn, money, admin
  <2> QED BY <1>1, <2>1
<1>5. CASE Complete(r)
  <2>1. UNCHANGED <<claimed, strikes, payout>> /\ (Release \/ UNCHANGED ledger)
    BY <1>5 DEF Complete, money, admin
  <2> QED BY <1>1, <2>1, OthersPayNothing
<1>6. CASE \E tier \in CancellationTier, d \in LeadDays : CancelByGuest(r, tier, d)
  <2>1. /\ UNCHANGED <<claimed, strikes, payout>>
        /\ UNCHANGED ledger \/ \E satang : Settle(CurrentPosition, satang)
    BY <1>6 DEF CancelByGuest, money, admin
  <2> QED BY <1>1, <2>1, OthersPayNothing
<1>7. CASE CancelByHost(r)
  <2>1. /\ UNCHANGED <<claimed, payout>> /\ strikes' = strikes + 1
        /\ \E satang : Settle(CurrentPosition, satang)
    BY <1>7 DEF CancelByHost, admin
  <2> QED BY <1>1, <2>1, OthersPayNothing
<1>8. CASE OpenDispute(r) \/ \E k \in Reports : EscalateToDispute(r, k)
  <2>1. UNCHANGED <<claimed, strikes, payout>> /\ Freeze(CurrentPosition)
    BY <1>8 DEF OpenDispute, EscalateToDispute, DisputeOpened, admin
  <2> QED BY <1>1, <2>1, OthersPayNothing
<1>9. CASE \E res \in DisputeResolution : ResolveDispute(r, p, res) \/ ResolveAppeal(r, p, res)
  <2>1. /\ UNCHANGED <<claimed, payout>> /\ strikes' \in {strikes, strikes + 1}
        /\ \E satang : Settle(p, satang)
    BY <1>9 DEF ResolveDispute, ResolveAppeal, Decide, admin
  <2> QED BY <1>1, <2>1, OthersPayNothing
<1>10. CASE \E side \in Sides : AppealDispute(r, p, side)
  <2>1. UNCHANGED <<claimed, strikes, payout>> /\ Freeze(p)
    BY <1>10 DEF AppealDispute, admin
  <2> QED BY <1>1, <2>1, OthersPayNothing
<1>11. CASE \E k \in Reports : AcceptIntoReview(r, p, k)
  <2>1. UNCHANGED <<claimed, strikes, payout>> /\ (Freeze(p) \/ UNCHANGED ledger)
    BY <1>11 DEF AcceptIntoReview, money
  <2> QED BY <1>1, <2>1, OthersPayNothing
<1> QED
  BY <1>2, <1>3, <1>4, <1>5, <1>6, <1>7, <1>8, <1>9, <1>10, <1>11 DEF Run

\* Whatever leaves the rows of the money alone.
LEMMA IdleMovesForward ==
  ASSUME RowsInv, UNCHANGED <<ledger, claimed, strikes, payout>>
  PROVE  MoneyForward
<1>1. strikes \in Nat /\ Refunded(ledger) \in Nat
  BY Totals DEF RowsInv, TypeOK
<1> QED BY <1>1 DEF MoneyForward

LEMMA TxStepForward ==
  ASSUME TxIInv, [TxNext]_txVars
  PROVE  MoneyForward
<1>1. RowsInv /\ SlowInv /\ ReadInv(Rows) /\ PositionInv(CurrentPosition)
  BY Current DEF TxIInv
<1>2. CASE Quick
  <2>1. Forward
    BY <1>1, <1>2, QuickStep
  <2>2. CASE \E op \in Handlers : Run(op, Rows, CurrentPosition)
    BY <1>1, <2>1, <2>2, RunMovesForward DEF MoneyForward, Forward
  <2>3. CASE \/ RefundAfterCancel(Rows) \/ FinalizeDisputeRefund(Rows) \/ PlaceHold \/ ReleaseHold
             \/ \E k \in Reports : CloseReport(Rows, k)
    <3>1. UNCHANGED <<ledger, claimed, strikes, payout>>
      BY <2>3 DEF RefundAfterCancel, FinalizeDisputeRefund, PlaceHold, ReleaseHold, CloseReport,
         money, admin
    <3> QED BY <1>1, <3>1, IdleMovesForward
  <2> QED BY <1>2, <2>2, <2>3 DEF Quick
<1>3. CASE Surroundings
  <2>1. UNCHANGED <<ledger, claimed, strikes, payout>>
    BY <1>3 DEF Surroundings, Clock, TimerElapses, StayAdvances, Request, InstantHold,
       CreateBookingReport, money, admin
  <2> QED BY <1>1, <2>1, IdleMovesForward
<1>4. CASE Commit
  <2>1. slow # Nothing /\ SlowAgrees
    BY <1>1, <1>4, SlowProgram DEF Commit
  <2>2. PICK op, r, p :
          /\ Run(op, r, p) /\ ReadInv(r) /\ PositionInv(p)
          /\ op \in DisputeWriters /\ r.dispute.status # "NONE" => Settleable(p)
          /\ op = "markPaid" => Payable(p)
    <3>1. CASE slow.op \in ReadsPositionFirst
      <4>1. slow.at = "ready" /\ Run(slow.op, slow.read, slow.pos)
        BY <1>4, <3>1 DEF Commit
      <4> QED BY <2>1, <4>1 DEF SlowAgrees
    <3>2. CASE slow.op \notin ReadsPositionFirst
      <4>1. Run(slow.op, slow.read, CurrentPosition)
        BY <1>4, <3>2 DEF Commit
      <4> QED BY <1>1, <2>1, <4>1, Current DEF SlowAgrees
    <3> QED BY <3>1, <3>2
  <2>3. Forward
    BY <1>1, <2>2, RunKeeps
  <2> QED BY <1>1, <2>2, <2>3, RunMovesForward DEF MoneyForward, Forward
<1>5. CASE \/ \E op \in Slow : Begin(op)
           \/ TakeState \/ TakeAmount \/ Abort \/ BeginRefund \/ CallOpn \/ StoreRefundId
           \/ UNCHANGED txVars
  <2>1. UNCHANGED <<ledger, claimed, strikes, payout>>
    BY <1>5 DEF Begin, TakeState, TakeAmount, Abort, BeginRefund, CallOpn, StoreRefundId,
       txVars, vars, money, admin
  <2> QED BY <1>1, <2>1, IdleMovesForward
<1> QED BY <1>2, <1>3, <1>4, <1>5 DEF TxNext

\* However stale a handler's reads are, it takes back no claim, no refund and no
\* strike, and after the first Payout row the log pays out nothing more.
THEOREM RacesTakeNothingBack == TxSpec => [][MoneyForward]_txVars
<1>1. TxIInv /\ [TxNext]_txVars => [MoneyForward]_txVars
  BY TxStepForward
<1> QED BY <1>1, RacesInvariant, PTL DEF TxSpec

-----------------------------------------------------------------------------
(* Handlers that nobody overtakes are those of Booking                       *)

\* A slow handler that nobody passes has read the rows as they are.
UpToDate ==
  slow # Nothing =>
    /\ slow.op \in Slow /\ slow.left = 0 /\ slow.read = Rows
    /\ slow.at \in {"half", "ready"} => slow.pos.state = CurrentPosition.state
    /\ slow.at = "ready" => slow.pos = CurrentPosition

LEMMA RunIsNext ==
  ASSUME NEW op, Run(op, Rows, CurrentPosition)
  PROVE  Next
  BY DEF Run, Next, Guest, Host, Sweeps, Opn, Admin, Decisions, Parties

LEMMA UnovertakenStep ==
  ASSUME MaxOvertaken = 0, "refundBookingToGuest" \notin Slow,
         TxIInv, UpToDate, [TxNext]_txVars
  PROVE  [Next]_vars /\ UpToDate'
<1>1. CASE Quick
  <2>1. slow = Nothing /\ slow' = Nothing
    BY <1>1 DEF Quick, Overtake, UpToDate
  <2>2. Next
    BY <1>1, RunIsNext DEF Quick, Next, Guest, Admin
  <2> QED BY <2>1, <2>2 DEF UpToDate
<1>2. CASE Surroundings
  BY <1>2 DEF Surroundings, UpToDate, Next, Guest, Parties
<1>3. CASE Commit
  <2>1. Run(slow.op, Rows, CurrentPosition) /\ slow' = Nothing
    BY <1>3 DEF Commit, UpToDate
  <2> QED BY <2>1, RunIsNext DEF UpToDate
<1>4. CASE UNCHANGED vars
  <2>1. Rows' = Rows /\ CurrentPosition' = CurrentPosition
    BY <1>4 DEF Rows, CurrentPosition, vars, money, guestRefund, admin
  <2>2. CASE \E op \in Slow : Begin(op)
    <3>1. PICK op \in Slow : slow' = Started(op)
      BY <2>2 DEF Begin
    <3> QED BY <1>4, <2>1, <3>1 DEF UpToDate, Started
  <2>3. CASE TakeState \/ TakeAmount
    <3>1. slow # Nothing /\ slow \in SlowHandlers
      BY <2>3 DEF TakeState, TakeAmount, TxIInv, SlowInv
    <3>2. CASE TakeState
      <4>1. slow' = [slow EXCEPT !.at = "half", !.pos.state = escrow]
        BY <3>2 DEF TakeState
      <4>2. /\ slow'.op = slow.op /\ slow'.left = slow.left /\ slow'.read = slow.read
            /\ slow'.at = "half" /\ slow'.pos.state = escrow
        BY <3>1, <4>1 DEF SlowHandlers, Position
      <4> QED BY <1>4, <2>1, <3>1, <4>2 DEF UpToDate, CurrentPosition
    <3>3. CASE TakeAmount
      <4>1. slow.at = "half" /\ slow' = [slow EXCEPT !.at = "ready", !.pos.amount = InEscrow(ledger)]
        BY <3>3 DEF TakeAmount
      <4>2. /\ slow'.op = slow.op /\ slow'.left = slow.left /\ slow'.read = slow.read
            /\ slow'.at = "ready"
            /\ slow'.pos = [slow.pos EXCEPT !.amount = InEscrow(ledger)]
        BY <3>1, <4>1 DEF SlowHandlers
      <4>3. slow.pos \in Position /\ slow.pos.state = escrow
        BY <3>1, <4>1 DEF SlowHandlers, UpToDate, CurrentPosition
      <4>4. slow'.pos = CurrentPosition
        BY <4>2, <4>3 DEF Position, CurrentPosition
      <4> QED BY <1>4, <2>1, <3>1, <4>2, <4>4 DEF UpToDate
    <3> QED BY <2>3, <3>2, <3>3
  <2>4. CASE slow' = Nothing
    BY <1>4, <2>4 DEF UpToDate
  <2>5. CASE UNCHANGED slow
    BY <1>4, <2>1, <2>5 DEF UpToDate
  <2>6. CASE Quick \/ Surroundings \/ Commit
    BY <1>1, <1>2, <1>3, <2>6
  <2>7. ~BeginRefund /\ ~CallOpn /\ ~StoreRefundId
    BY DEF BeginRefund, CallOpn, StoreRefundId, UpToDate
  <2> QED BY <2>2, <2>3, <2>4, <2>5, <2>6, <2>7 DEF TxNext, Abort, txVars
<1>5. CASE \/ \E op \in Slow : Begin(op)
           \/ TakeState \/ TakeAmount \/ Abort \/ UNCHANGED txVars
  BY <1>4, <1>5 DEF Begin, TakeState, TakeAmount, Abort, txVars
<1>6. ~BeginRefund /\ ~CallOpn /\ ~StoreRefundId
  BY DEF BeginRefund, CallOpn, StoreRefundId, UpToDate
<1> QED BY <1>1, <1>2, <1>3, <1>5, <1>6 DEF TxNext

\* The two levels agree: as long as nobody passes a handler between its reads and its
\* commit, a transaction that reads first and writes later is one step of Booking, and
\* all that is proved of Spec holds.  refundBookingToGuest is no transaction and is
\* left out.
THEOREM UnovertakenIsBooking ==
  ASSUME MaxOvertaken = 0, "refundBookingToGuest" \notin Slow
  PROVE  TxSpec => Spec
<1>1. TxInit => Init /\ UpToDate
  BY DEF TxInit, UpToDate
<1>2. TxIInv /\ UpToDate /\ [TxNext]_txVars => [Next]_vars /\ UpToDate'
  BY UnovertakenStep
<1> QED BY <1>1, <1>2, RacesInvariant, PTL DEF TxSpec, Spec
=============================================================================
