---------------------------- MODULE BookingProofs ---------------------------
(***************************************************************************)
(* The invariants of Booking hold for every price, commission, lead time,  *)
(* set of events and set of reports.                                       *)
(***************************************************************************)
EXTENDS Screens, TLAPS

-----------------------------------------------------------------------------
(* What the operators of the escrow reducer do to a log, and the range of the refund
   arithmetic, for every amount.                                             *)

\* A move out of a state still owed to somebody and not back to NONE changes the
\* two states it names, by opposite amounts, and no other.
LEMMA FoldMoveMoves ==
  ASSUME NEW b \in Ledger, NEW from \in EscrowState, NEW to \in EscrowState, from # to,
         from # "PAID", from # "REVERSED", to # "NONE", NEW amount \in Int
  PROVE  /\ FoldMove(b, from, to, amount) \in Ledger
         /\ FoldMove(b, from, to, amount)[from] = b[from] - amount
         /\ FoldMove(b, from, to, amount)[to] = b[to] + amount
         /\ \A s \in EscrowState : s # from /\ s # to => FoldMove(b, from, to, amount)[s] = b[s]
<1>1. /\ b \in [EscrowState -> Int] /\ amount \in Int
      /\ from \in EscrowState /\ from # "PAID" /\ from # "REVERSED"
      /\ to \in EscrowState /\ to # "NONE" /\ from # to
  BY DEF Ledger
<1> QED BY <1>1 DEF FoldMove, Ledger

\* A settlement empties its amount out of the position's bucket: the refund
\* reaches REVERSED, the rest RELEASABLE, nothing else changes.
LEMMA SettledMoves ==
  ASSUME NEW b \in Ledger, NEW p \in Position, p.state \in {"HELD", "FROZEN"},
         NEW refunded \in Int
  PROVE  /\ Settled(b, p, refunded) \in Ledger
         /\ Settled(b, p, refunded)[p.state] = b[p.state] - p.amount
         /\ Settled(b, p, refunded)["REVERSED"] = b["REVERSED"] + refunded
         /\ Settled(b, p, refunded)["RELEASABLE"] = b["RELEASABLE"] + (p.amount - refunded)
         /\ \A s \in EscrowState : s # p.state /\ s # "REVERSED" /\ s # "RELEASABLE" =>
              Settled(b, p, refunded)[s] = b[s]
<1> DEFINE from == p.state
           rest == p.amount - refunded
           m == FoldMove(b, from, "REVERSED", refunded)
           n == FoldMove(m, from, "RELEASABLE", rest)
<1>1. /\ from \in EscrowState /\ "REVERSED" \in EscrowState /\ from # "REVERSED"
      /\ from # "PAID" /\ "REVERSED" # "NONE" /\ "RELEASABLE" # "NONE"
      /\ "RELEASABLE" \in EscrowState /\ from # "RELEASABLE"
      /\ p.amount \in Int /\ rest \in Int /\ b[from] \in Int
  BY DEF EscrowState, Position, Ledger
<1>2. n = Settled(b, p, refunded)
  BY DEF Settled
<1>3. p.state = from /\ p.amount = rest + refunded
  BY <1>1
<1> HIDE DEF from, rest
<1>4. /\ m \in Ledger
      /\ m[from] = b[from] - refunded /\ m["REVERSED"] = b["REVERSED"] + refunded
      /\ \A s \in EscrowState : s # from /\ s # "REVERSED" => m[s] = b[s]
  BY <1>1, FoldMoveMoves
<1> HIDE DEF m
<1>5. m \in Ledger
  BY <1>4
<1>6. /\ n \in Ledger
      /\ n[from] = m[from] - rest /\ n["RELEASABLE"] = m["RELEASABLE"] + rest
      /\ \A s \in EscrowState : s # from /\ s # "RELEASABLE" => n[s] = m[s]
  BY <1>1, <1>5, FoldMoveMoves
<1> HIDE DEF n
<1>7. n[from] = b[from] - (rest + refunded)
  BY <1>1, <1>4, <1>6
<1>8. n["REVERSED"] = b["REVERSED"] + refunded /\ n["RELEASABLE"] = b["RELEASABLE"] + rest
  BY <1>1, <1>4, <1>6
<1>9. \A s \in EscrowState : s # from /\ s # "REVERSED" /\ s # "RELEASABLE" => n[s] = b[s]
  BY <1>4, <1>6
<1>10. p.amount - refunded = rest
  BY DEF rest
<1> QED BY <1>2, <1>3, <1>6, <1>7, <1>8, <1>9, <1>10

\* refundSatangForPct never refunds less than nothing or more than the total,
\* whatever the rounding, so a settlement never rejects a tier's refund.
THEOREM RefundInRange ==
  ASSUME NEW total \in Nat, NEW pct \in Int
  PROVE  RefundSatangForPct(total, pct) \in 0..total
<1>1. CASE pct >= 100 \/ pct <= 0
  BY <1>1 DEF RefundSatangForPct
<1>2. CASE pct \in 1..99
  <2>1. total * pct \in Nat /\ total * pct <= 99 * total
    BY <1>2
  <2> DEFINE n == total * pct
  <2>2. n \in Nat /\ n <= 99 * total
    BY <2>1
  <2> HIDE DEF n
  <2>3. (n + 99) \div 100 \in 0..total
    BY <2>2
  <2> QED BY <1>2, <2>3 DEF RefundSatangForPct, n
<1> QED BY <1>1, <1>2

\* The refund is at least the exact percentage and less than one satang above
\* it: rounding favours the guest, and by less than a satang.
THEOREM RefundRoundsUp ==
  ASSUME NEW total \in Nat, NEW pct \in 0..100
  PROVE  /\ RefundSatangForPct(total, pct) * 100 >= total * pct
         /\ RefundSatangForPct(total, pct) * 100 < total * pct + 100
<1>1. CASE pct = 100
  BY <1>1 DEF RefundSatangForPct
<1>2. CASE pct = 0
  BY <1>2 DEF RefundSatangForPct
<1>3. CASE pct \in 1..99
  <2> DEFINE n == total * pct
  <2>1. n \in Nat
    BY <1>3
  <2> HIDE DEF n
  <2>2. ((n + 99) \div 100) * 100 >= n /\ ((n + 99) \div 100) * 100 < n + 100
    BY <2>1
  <2>3. RefundSatangForPct(total, pct) = (n + 99) \div 100
    BY <1>3 DEF RefundSatangForPct, n
  <2> QED BY <2>2, <2>3 DEF n
<1> QED BY <1>1, <1>2, <1>3

\* breakdown loses no satang: what is not refunded is shared out between host
\* and platform, nobody's part is negative, and the host's is 90% rounded down.
THEOREM RetainedSplit ==
  ASSUME NEW total \in Nat, NEW refunded \in 0..total
  PROVE  /\ refunded + RetainedHost(total, refunded) + RetainedPlatform(total, refunded) = total
         /\ RetainedHost(total, refunded) >= 0 /\ RetainedPlatform(total, refunded) >= 0
         /\ 10 * RetainedHost(total, refunded) <= 9 * (total - refunded)
         /\ 9 * (total - refunded) < 10 * RetainedHost(total, refunded) + 10
<1> DEFINE kept == total - refunded
<1>1. kept \in Nat
  OBVIOUS
<1>2. RetainedHost(total, refunded) = (kept * 90) \div 100
  BY DEF RetainedHost, HOST_RETAINED_PCT
<1> HIDE DEF kept
<1>3. /\ (kept * 90) \div 100 \in Nat
      /\ 100 * ((kept * 90) \div 100) <= 90 * kept
      /\ 90 * kept < 100 * ((kept * 90) \div 100) + 100
  BY <1>1
<1>4. /\ 10 * RetainedHost(total, refunded) <= 9 * kept
      /\ 9 * kept < 10 * RetainedHost(total, refunded) + 10
      /\ RetainedHost(total, refunded) >= 0 /\ RetainedHost(total, refunded) <= kept
      /\ RetainedHost(total, refunded) \in Int
  BY <1>1, <1>2, <1>3
<1> QED BY <1>1, <1>4 DEF RetainedPlatform, kept

\* A position backed by its log: the escrow invariant holds and all the money
\* still in escrow is the position's amount, in the position's state.
Backed(b, p) ==
  /\ InvariantHolds(b)
  /\ InEscrow(b) = p.amount
  /\ \A s \in {"HELD", "RELEASABLE", "FROZEN"} : s # p.state => b[s] = 0

\* A move of `reduce` that takes `amount` of the position's money from its state
\* to another state of escrow, out of escrow or into it, keeps the balance.
LEMMA MoveIsBacked ==
  ASSUME NEW b \in Ledger, NEW p \in Position, Backed(b, p),
         NEW from \in {"NONE", "HELD", "RELEASABLE"}, from = p.state,
         NEW to \in {"HELD", "RELEASABLE", "FROZEN", "PAID"}, from # to,
         NEW amount \in Int, from # "NONE" => amount = p.amount,
         from = "NONE" => to # "PAID"
  PROVE  Backed(FoldMove(b, from, to, amount),
                [state |-> to, amount |-> IF to = "PAID" THEN 0 ELSE amount])
<1> DEFINE m == FoldMove(b, from, to, amount)
           q == [state |-> to, amount |-> IF to = "PAID" THEN 0 ELSE amount]
<1>1. /\ m \in Ledger /\ m[from] = b[from] - amount /\ m[to] = b[to] + amount
      /\ \A s \in EscrowState : s # from /\ s # to => m[s] = b[s]
  <2>1. /\ from \in EscrowState /\ to \in EscrowState /\ from # "PAID" /\ from # "REVERSED"
        /\ to # "NONE"
    BY DEF EscrowState
  <2> QED BY <2>1, FoldMoveMoves
<1>2. /\ b["NONE"] \in Int /\ b["HELD"] \in Int /\ b["RELEASABLE"] \in Int
      /\ b["FROZEN"] \in Int /\ b["PAID"] \in Int /\ b["REVERSED"] \in Int
  BY DEF Ledger, EscrowState
<1>3. /\ b["HELD"] + b["RELEASABLE"] + b["FROZEN"] = p.amount
      /\ p.amount = (0 - b["NONE"]) - b["REVERSED"] - b["PAID"]
      /\ \A s \in {"HELD", "RELEASABLE", "FROZEN"} : s # from => b[s] = 0
  BY DEF Backed, InvariantHolds, InEscrow, Received, Refunded, PaidOut
<1>4. q.state = to /\ q.amount = IF to = "PAID" THEN 0 ELSE amount
  OBVIOUS
<1> HIDE DEF m, q
<1>5. from # "NONE" => b[from] = p.amount
  BY <1>2, <1>3
<1>6. \A s \in {"HELD", "RELEASABLE", "FROZEN"} :
        m[s] = IF s = to THEN amount ELSE 0
  <2>1. ASSUME NEW s \in {"HELD", "RELEASABLE", "FROZEN"}
        PROVE  m[s] = IF s = to THEN amount ELSE 0
    <3>1. s \in EscrowState /\ b[s] \in Int /\ p.amount \in Int
      BY <1>2 DEF EscrowState, Position
    <3>2. CASE s = to
      BY <1>1, <1>3, <3>1, <3>2
    <3>3. CASE s = from
      BY <1>1, <1>3, <1>5, <3>1, <3>3
    <3>4. CASE s # from /\ s # to
      BY <1>1, <1>3, <3>1, <3>4
    <3> QED BY <3>2, <3>3, <3>4
  <2> QED BY <2>1
<1>7. m["HELD"] + m["RELEASABLE"] + m["FROZEN"] = q.amount
  BY <1>4, <1>6
<1>8. /\ m["NONE"] = IF from = "NONE" THEN b["NONE"] - amount ELSE b["NONE"]
      /\ m["PAID"] = IF to = "PAID" THEN b["PAID"] + amount ELSE b["PAID"]
      /\ m["REVERSED"] = b["REVERSED"]
  BY <1>1, <1>2 DEF EscrowState
<1>9. from = "NONE" => p.amount = 0
  BY <1>2, <1>3
<1>10. q.amount = (0 - m["NONE"]) - m["REVERSED"] - m["PAID"]
  <2>1. CASE from = "NONE"
    <3>1. /\ m["NONE"] = b["NONE"] - amount /\ m["REVERSED"] = b["REVERSED"]
          /\ m["PAID"] = b["PAID"] /\ q.amount = amount
      BY <1>4, <1>8, <2>1
    <3>2. 0 = (0 - b["NONE"]) - b["REVERSED"] - b["PAID"]
      BY <1>3, <1>9, <2>1
    <3> QED BY <1>2, <3>1, <3>2
  <2>2. CASE from # "NONE"
    <3>1. p.amount \in Int /\ amount = p.amount
      BY <2>2 DEF Position
    <3>2. CASE to = "PAID"
      <4>1. /\ m["NONE"] = b["NONE"] /\ m["REVERSED"] = b["REVERSED"]
            /\ m["PAID"] = b["PAID"] + p.amount /\ q.amount = 0
        BY <1>4, <1>8, <2>2, <3>1, <3>2
      <4> QED BY <1>2, <1>3, <3>1, <4>1
    <3>3. CASE to # "PAID"
      <4>1. /\ m["NONE"] = b["NONE"] /\ m["REVERSED"] = b["REVERSED"]
            /\ m["PAID"] = b["PAID"] /\ q.amount = p.amount
        BY <1>4, <1>8, <2>2, <3>1, <3>3
      <4> QED BY <1>2, <1>3, <3>1, <4>1
    <3> QED BY <3>2, <3>3
  <2> QED BY <2>1, <2>2
<1>11. Backed(m, q)
  BY <1>4, <1>6, <1>7, <1>10 DEF Backed, InvariantHolds, InEscrow, Received, Refunded, PaidOut
<1> QED BY <1>11 DEF m, q

\* The settlement splits the position's amount between the guest and the host.
LEMMA SettlementIsBacked ==
  ASSUME NEW b \in Ledger, NEW p \in Position, Backed(b, p), NEW back, SettleOk(p, back)
  PROVE  Backed(Settled(b, p, back),
                [state |-> SettledState(p, back), amount |-> p.amount - back])
<1> DEFINE m == Settled(b, p, back)
           q == [state |-> SettledState(p, back), amount |-> p.amount - back]
<1>1. /\ p.state \in {"HELD", "FROZEN"} /\ p.amount \in Int /\ back \in Int
      /\ back >= 0 /\ back <= p.amount
  BY DEF SettleOk, Position
<1>2. /\ m \in Ledger /\ m[p.state] = b[p.state] - p.amount
      /\ m["REVERSED"] = b["REVERSED"] + back
      /\ m["RELEASABLE"] = b["RELEASABLE"] + (p.amount - back)
      /\ \A s \in EscrowState : s # p.state /\ s # "REVERSED" /\ s # "RELEASABLE" => m[s] = b[s]
  BY <1>1, SettledMoves
<1>3. /\ b["NONE"] \in Int /\ b["HELD"] \in Int /\ b["RELEASABLE"] \in Int
      /\ b["FROZEN"] \in Int /\ b["PAID"] \in Int /\ b["REVERSED"] \in Int
  BY DEF Ledger, EscrowState
<1>4. /\ b["HELD"] + b["RELEASABLE"] + b["FROZEN"] = p.amount
      /\ p.amount = (0 - b["NONE"]) - b["REVERSED"] - b["PAID"]
      /\ \A s \in {"HELD", "RELEASABLE", "FROZEN"} : s # p.state => b[s] = 0
  BY DEF Backed, InvariantHolds, InEscrow, Received, Refunded, PaidOut
<1>5. q.amount = p.amount - back /\ q.state = SettledState(p, back)
  OBVIOUS
<1> HIDE DEF m, q
<1>6. b[p.state] = p.amount
  BY <1>1, <1>3, <1>4
<1>7. /\ m["HELD"] = 0 /\ m["FROZEN"] = 0 /\ m["RELEASABLE"] = p.amount - back
  <2>1. b["RELEASABLE"] = 0
    BY <1>1, <1>4
  <2>2. CASE p.state = "HELD"
    <3>1. /\ m["FROZEN"] = b["FROZEN"] /\ b["FROZEN"] = 0
      BY <1>2, <1>4, <2>2 DEF EscrowState
    <3> QED BY <1>1, <1>2, <1>6, <2>1, <2>2, <3>1
  <2>3. CASE p.state = "FROZEN"
    <3>1. /\ m["HELD"] = b["HELD"] /\ b["HELD"] = 0
      BY <1>2, <1>4, <2>3 DEF EscrowState
    <3> QED BY <1>1, <1>2, <1>6, <2>1, <2>3, <3>1
  <2> QED BY <1>1, <2>2, <2>3
<1>8. m["NONE"] = b["NONE"] /\ m["PAID"] = b["PAID"] /\ m["REVERSED"] = b["REVERSED"] + back
  BY <1>1, <1>2 DEF EscrowState
<1>9. \A s \in {"HELD", "RELEASABLE", "FROZEN"} : s # q.state => m[s] = 0
  BY <1>1, <1>5, <1>7 DEF SettledState
<1>10. /\ m["HELD"] + m["RELEASABLE"] + m["FROZEN"] = q.amount
       /\ q.amount = (0 - m["NONE"]) - m["REVERSED"] - m["PAID"]
  BY <1>1, <1>3, <1>4, <1>5, <1>7, <1>8
<1>11. Backed(m, q)
  BY <1>9, <1>10 DEF Backed, InvariantHolds, InEscrow, Received, Refunded, PaidOut
<1> QED BY <1>11 DEF m, q

\* What the moves of `reduce` do to the log and the position it returns go together,
\* for each of its events: a position backed by its log gives one backed by its
\* log.  (A move out of PAID or REVERSED would break this; `reduce` makes none.)
THEOREM ReduceKeepsBalance ==
  ASSUME NEW b \in Ledger, NEW p \in Position, Backed(b, p)
  PROVE  /\ \A amount \in Int : ChargeOk(p, amount) =>
              Backed(FoldMove(b, "NONE", "HELD", amount), [state |-> "HELD", amount |-> amount])
         /\ ReleaseOk(p) => Backed(FoldMove(b, p.state, "RELEASABLE", p.amount),
                                   [state |-> "RELEASABLE", amount |-> p.amount])
         /\ FreezeOk(p) => Backed(FoldMove(b, p.state, "FROZEN", p.amount),
                                  [state |-> "FROZEN", amount |-> p.amount])
         /\ PayOk(p) => Backed(FoldMove(b, p.state, "PAID", p.amount),
                               [state |-> "PAID", amount |-> 0])
         /\ \A back \in Int : SettleOk(p, back) =>
              Backed(Settled(b, p, back),
                     [state |-> SettledState(p, back), amount |-> p.amount - back])
<1>1. p.amount \in Int
  BY DEF Position
<1>2. ASSUME NEW amount \in Int, ChargeOk(p, amount)
      PROVE  Backed(FoldMove(b, "NONE", "HELD", amount), [state |-> "HELD", amount |-> amount])
  BY <1>2, MoveIsBacked DEF ChargeOk
<1>3. ASSUME ReleaseOk(p)
      PROVE  Backed(FoldMove(b, p.state, "RELEASABLE", p.amount),
                    [state |-> "RELEASABLE", amount |-> p.amount])
  BY <1>1, <1>3, MoveIsBacked DEF ReleaseOk
<1>4. ASSUME FreezeOk(p)
      PROVE  Backed(FoldMove(b, p.state, "FROZEN", p.amount),
                    [state |-> "FROZEN", amount |-> p.amount])
  BY <1>1, <1>4, MoveIsBacked DEF FreezeOk, FREEZABLE
<1>5. ASSUME PayOk(p)
      PROVE  Backed(FoldMove(b, p.state, "PAID", p.amount), [state |-> "PAID", amount |-> 0])
  BY <1>1, <1>5, MoveIsBacked DEF PayOk
<1> QED BY <1>2, <1>3, <1>4, <1>5, SettlementIsBacked

-----------------------------------------------------------------------------
(* The escrow write layer keeps MoneyInv.                                    *)

\* MoneyInv read bucket by bucket.
LEMMA MoneyByBucket ==
  ASSUME MoneyInv
  PROVE  /\ ledger \in Ledger /\ escrow \in EscrowState
         /\ \A s \in EscrowState : ledger[s] \in Int
         /\ \A s \in {"HELD", "RELEASABLE", "FROZEN"} :
              IF s = escrow THEN ledger[s] > 0 ELSE ledger[s] = 0
         /\ ledger["NONE"] = IF escrow = "NONE" THEN 0 ELSE 0 - TotalSatang
         /\ ledger["REVERSED"] >= 0 /\ ledger["PAID"] >= 0
         /\ ledger["PAID"] > 0 => escrow = "PAID"
         /\ ledger["HELD"] + ledger["RELEASABLE"] + ledger["FROZEN"]
              + ledger["REVERSED"] + ledger["PAID"] + ledger["NONE"] = 0
<1>1. /\ ledger \in Ledger /\ escrow \in EscrowState
      /\ \A s \in EscrowState : ledger[s] \in Int
  BY DEF MoneyInv, Ledger
<1>2. /\ ledger["NONE"] \in Int /\ ledger["HELD"] \in Int /\ ledger["RELEASABLE"] \in Int
      /\ ledger["FROZEN"] \in Int /\ ledger["PAID"] \in Int /\ ledger["REVERSED"] \in Int
  BY <1>1 DEF EscrowState
<1>3. TotalSatang \in Int
  BY AmountsAssumption
<1>4. 0 - ledger["NONE"] = IF escrow = "NONE" THEN 0 ELSE TotalSatang
  BY DEF MoneyInv, Received
<1>5. ledger["NONE"] = IF escrow = "NONE" THEN 0 ELSE 0 - TotalSatang
  BY <1>2, <1>3, <1>4
<1>6. ledger["HELD"] + ledger["RELEASABLE"] + ledger["FROZEN"]
        = (0 - ledger["NONE"]) - ledger["REVERSED"] - ledger["PAID"]
  BY <1>2
    DEF MoneyInv, CacheMatchesLedger, InvariantHolds, InEscrow, Received, Refunded, PaidOut
<1> QED
  BY <1>1, <1>2, <1>5, <1>6 DEF MoneyInv, CacheMatchesLedger, Refunded, PaidOut

\* And back: a log whose buckets add up satisfies MoneyInv.
LEMMA BucketsMakeMoney ==
  ASSUME ledger' \in Ledger, escrow' \in EscrowState,
         \A s \in {"HELD", "RELEASABLE", "FROZEN"} :
           IF s = escrow' THEN ledger'[s] > 0 ELSE ledger'[s] = 0,
         ledger'["NONE"] = IF escrow' = "NONE" THEN 0 ELSE 0 - TotalSatang,
         ledger'["REVERSED"] >= 0, ledger'["PAID"] >= 0,
         ledger'["PAID"] > 0 => escrow' = "PAID",
         ledger'["HELD"] + ledger'["RELEASABLE"] + ledger'["FROZEN"]
           + ledger'["REVERSED"] + ledger'["PAID"] + ledger'["NONE"] = 0
  PROVE  MoneyInv'
<1>1. /\ ledger'["NONE"] \in Int /\ ledger'["HELD"] \in Int /\ ledger'["RELEASABLE"] \in Int
      /\ ledger'["FROZEN"] \in Int /\ ledger'["PAID"] \in Int /\ ledger'["REVERSED"] \in Int
  BY DEF EscrowState, Ledger
<1>2. TotalSatang \in Int
  BY AmountsAssumption
<1>3. 0 - ledger'["NONE"] = IF escrow' = "NONE" THEN 0 ELSE TotalSatang
  BY <1>1, <1>2
<1>4. ledger'["HELD"] + ledger'["RELEASABLE"] + ledger'["FROZEN"]
        = (0 - ledger'["NONE"]) - ledger'["REVERSED"] - ledger'["PAID"]
  BY <1>1
<1> QED
  BY <1>1, <1>3, <1>4 DEF MoneyInv, CacheMatchesLedger, InvariantHolds, InEscrow, Received,
     Refunded, PaidOut

\* While the cache names one of the three escrow buckets, that bucket holds all
\* of what is in escrow.
LEMMA PositionIsBucket ==
  ASSUME MoneyInv, escrow \in {"HELD", "RELEASABLE", "FROZEN"}
  PROVE  /\ InEscrow(ledger) = ledger[escrow]
         /\ CurrentPosition.state = escrow /\ CurrentPosition.amount = ledger[escrow]
         /\ ledger[escrow] > 0 /\ ledger["PAID"] = 0
         /\ ledger[escrow] + ledger["REVERSED"] = TotalSatang
<1>1. /\ ledger["HELD"] \in Int /\ ledger["RELEASABLE"] \in Int /\ ledger["FROZEN"] \in Int
      /\ ledger["PAID"] \in Int /\ ledger["REVERSED"] \in Int /\ TotalSatang \in Int
  BY MoneyByBucket, AmountsAssumption DEF EscrowState
<1>2. ledger["HELD"] + ledger["RELEASABLE"] + ledger["FROZEN"] = ledger[escrow]
  BY <1>1, MoneyByBucket
<1>3. ledger["PAID"] = 0 /\ ledger["NONE"] = 0 - TotalSatang
  BY <1>1, MoneyByBucket
<1>4. InEscrow(ledger) = ledger[escrow]
  BY <1>2 DEF InEscrow
<1>5. ledger[escrow] \in Int /\ ledger[escrow] > 0
  BY <1>1, MoneyByBucket
<1>6. ledger[escrow] + ledger["REVERSED"] + ledger["PAID"] + ledger["NONE"] = 0
  BY <1>1, <1>2, MoneyByBucket
<1>7. ledger[escrow] + ledger["REVERSED"] = TotalSatang
  BY <1>1, <1>3, <1>5, <1>6
<1>8. CurrentPosition.state = escrow /\ CurrentPosition.amount = ledger[escrow]
  BY <1>4 DEF CurrentPosition
<1> QED BY <1>3, <1>4, <1>5, <1>7, <1>8

\* A move of a whole bucket within escrow keeps every total of the log.
LEMMA MoveKeepsMoney ==
  ASSUME MoneyInv, NEW from \in {"HELD", "RELEASABLE", "FROZEN"}, escrow = from,
         NEW to \in {"HELD", "RELEASABLE", "FROZEN"} \ {from},
         escrow' = to, ledger' = FoldMove(ledger, from, to, ledger[from])
  PROVE  MoneyInv' /\ Refunded(ledger') = Refunded(ledger)
<1>1. /\ from \in EscrowState /\ to \in EscrowState /\ from # to /\ ledger \in Ledger
      /\ from # "PAID" /\ from # "REVERSED" /\ to # "NONE"
  BY MoneyByBucket DEF EscrowState
<1>2. ledger[from] \in Int
  BY <1>1, MoneyByBucket
<1>3. /\ ledger' \in Ledger
      /\ ledger'[from] = ledger[from] - ledger[from] /\ ledger'[to] = ledger[to] + ledger[from]
      /\ \A s \in EscrowState : s # from /\ s # to => ledger'[s] = ledger[s]
  BY <1>1, <1>2, FoldMoveMoves
<1>4. ledger[from] > 0 /\ ledger'[from] = 0 /\ ledger'[to] = ledger[from]
  BY <1>1, <1>2, <1>3, MoneyByBucket
<1>5. /\ ledger'["NONE"] = ledger["NONE"] /\ ledger'["PAID"] = ledger["PAID"]
      /\ ledger'["REVERSED"] = ledger["REVERSED"]
  BY <1>3 DEF EscrowState
<1>6. \A s \in {"HELD", "RELEASABLE", "FROZEN"} :
        IF s = escrow' THEN ledger'[s] > 0 ELSE ledger'[s] = 0
  BY <1>3, <1>4, MoneyByBucket DEF EscrowState
<1>7. ledger'["HELD"] + ledger'["RELEASABLE"] + ledger'["FROZEN"]
        = ledger["HELD"] + ledger["RELEASABLE"] + ledger["FROZEN"]
  BY <1>2, <1>4, <1>6, MoneyByBucket
<1>8. ledger'["HELD"] + ledger'["RELEASABLE"] + ledger'["FROZEN"]
        + ledger'["REVERSED"] + ledger'["PAID"] + ledger'["NONE"] = 0
  BY <1>5, <1>7, MoneyByBucket
<1>9. MoneyInv'
  BY <1>1, <1>3, <1>5, <1>6, <1>8, MoneyByBucket, BucketsMakeMoney
<1> QED BY <1>5, <1>9 DEF Refunded

\* freeze: the whole position goes to FROZEN.
LEMMA FreezeKeepsMoney ==
  ASSUME MoneyInv, Freeze(CurrentPosition)
  PROVE  /\ MoneyInv' /\ Refunded(ledger') = Refunded(ledger)
         /\ escrow \in FREEZABLE /\ escrow' = "FROZEN"
<1>1. escrow \in FREEZABLE /\ escrow' = "FROZEN"
  BY DEF Freeze, FreezeOk, CurrentPosition
<1>2. ledger' = FoldMove(ledger, escrow, "FROZEN", ledger[escrow])
  BY <1>1, PositionIsBucket DEF Freeze, FREEZABLE
<1> QED BY <1>1, <1>2, MoveKeepsMoney DEF FREEZABLE

\* release: checkout moves all of HELD to RELEASABLE.
LEMMA ReleaseKeepsMoney ==
  ASSUME MoneyInv, Release
  PROVE  /\ MoneyInv' /\ Refunded(ledger') = Refunded(ledger)
         /\ escrow = "HELD" /\ escrow' = "RELEASABLE"
<1>1. escrow = "HELD" /\ escrow' = "RELEASABLE"
  BY DEF Release, ReleaseOk, CurrentPosition
<1>2. ledger' = FoldMove(ledger, "HELD", "RELEASABLE", ledger["HELD"])
  BY <1>1, PositionIsBucket DEF Release
<1> QED BY <1>1, <1>2, MoveKeepsMoney

\* recordCharge: the whole price enters HELD.
LEMMA ChargeKeepsMoney ==
  ASSUME MoneyInv, RecordCharge
  PROVE  /\ MoneyInv' /\ Refunded(ledger') = Refunded(ledger)
         /\ escrow = "NONE" /\ escrow' = "HELD"
<1>1. escrow = "NONE" /\ escrow' = "HELD"
  BY DEF RecordCharge, ChargeOk, CurrentPosition
<1>2. TotalSatang \in Int /\ TotalSatang > 0
  BY AmountsAssumption
<1>3. /\ "NONE" \in EscrowState /\ "HELD" \in EscrowState /\ "NONE" # "HELD"
      /\ "NONE" # "PAID" /\ "NONE" # "REVERSED"
      /\ ledger \in Ledger
  BY MoneyByBucket DEF EscrowState
<1>4. ledger' = FoldMove(ledger, "NONE", "HELD", TotalSatang)
  BY DEF RecordCharge
<1>5. /\ ledger' \in Ledger
      /\ ledger'["NONE"] = ledger["NONE"] - TotalSatang
      /\ ledger'["HELD"] = ledger["HELD"] + TotalSatang
      /\ \A s \in EscrowState : s # "NONE" /\ s # "HELD" => ledger'[s] = ledger[s]
  BY <1>2, <1>3, <1>4, FoldMoveMoves
<1>6. ledger["NONE"] = 0 /\ ledger["HELD"] = 0
  BY <1>1, MoneyByBucket
<1>7. ledger'["NONE"] = 0 - TotalSatang /\ ledger'["HELD"] = TotalSatang
  BY <1>2, <1>5, <1>6
<1>8. /\ ledger'["RELEASABLE"] = 0 /\ ledger'["FROZEN"] = 0
      /\ ledger'["PAID"] = ledger["PAID"] /\ ledger'["REVERSED"] = ledger["REVERSED"]
  BY <1>1, <1>5, MoneyByBucket DEF EscrowState
<1>9. /\ ledger["REVERSED"] \in Int /\ ledger["PAID"] \in Int
      /\ ledger["REVERSED"] + ledger["PAID"] = 0
      /\ ledger["REVERSED"] >= 0 /\ ledger["PAID"] >= 0
  <2>1. ledger["REVERSED"] \in Int /\ ledger["PAID"] \in Int
    BY MoneyByBucket DEF EscrowState
  <2>2. ledger["HELD"] = 0 /\ ledger["RELEASABLE"] = 0 /\ ledger["FROZEN"] = 0
    BY <1>1, MoneyByBucket
  <2> QED BY <1>6, <2>1, <2>2, MoneyByBucket
<1>10. ledger'["PAID"] = 0 /\ ledger'["REVERSED"] = 0
  BY <1>8, <1>9
<1>11. MoneyInv'
  BY <1>1, <1>2, <1>5, <1>7, <1>8, <1>10, BucketsMakeMoney DEF EscrowState
<1> QED BY <1>1, <1>8, <1>11 DEF Refunded

\* pay: everything in RELEASABLE is paid out.
LEMMA PayKeepsMoney ==
  ASSUME MoneyInv, Pay(CurrentPosition)
  PROVE  /\ MoneyInv' /\ Refunded(ledger') = Refunded(ledger)
         /\ escrow = "RELEASABLE" /\ escrow' = "PAID"
<1>1. escrow = "RELEASABLE" /\ escrow' = "PAID"
  BY DEF Pay, PayOk, CurrentPosition
<1>2. /\ ledger["RELEASABLE"] \in Int /\ ledger["RELEASABLE"] > 0 /\ ledger["PAID"] = 0
      /\ ledger["RELEASABLE"] + ledger["REVERSED"] = TotalSatang
  BY <1>1, MoneyByBucket, PositionIsBucket DEF EscrowState
<1>3. /\ "RELEASABLE" \in EscrowState /\ "PAID" \in EscrowState /\ "RELEASABLE" # "PAID"
      /\ ledger \in Ledger
  BY MoneyByBucket DEF EscrowState
<1>4. ledger' = FoldMove(ledger, "RELEASABLE", "PAID", ledger["RELEASABLE"])
  BY <1>1, PositionIsBucket DEF Pay
<1>5. /\ ledger' \in Ledger
      /\ ledger'["RELEASABLE"] = ledger["RELEASABLE"] - ledger["RELEASABLE"]
      /\ ledger'["PAID"] = ledger["PAID"] + ledger["RELEASABLE"]
      /\ \A s \in EscrowState : s # "RELEASABLE" /\ s # "PAID" => ledger'[s] = ledger[s]
  BY <1>2, <1>3, <1>4, FoldMoveMoves
<1>6. ledger'["RELEASABLE"] = 0 /\ ledger'["PAID"] = ledger["RELEASABLE"]
  BY <1>2, <1>5
<1>7. /\ ledger'["HELD"] = 0 /\ ledger'["FROZEN"] = 0
      /\ ledger'["REVERSED"] = ledger["REVERSED"] /\ ledger'["NONE"] = 0 - TotalSatang
  BY <1>1, <1>5, MoneyByBucket DEF EscrowState
<1>8. TotalSatang \in Int /\ ledger["REVERSED"] \in Int /\ ledger["REVERSED"] >= 0
  BY AmountsAssumption, MoneyByBucket DEF EscrowState
<1>9. ledger'["HELD"] + ledger'["RELEASABLE"] + ledger'["FROZEN"]
        + ledger'["REVERSED"] + ledger'["PAID"] + ledger'["NONE"] = 0
  BY <1>2, <1>6, <1>7, <1>8
<1>10. MoneyInv'
  BY <1>1, <1>2, <1>5, <1>6, <1>7, <1>8, <1>9, BucketsMakeMoney DEF EscrowState
<1> QED BY <1>1, <1>7, <1>10 DEF Refunded

\* settle: the refund is reversed, the rest becomes releasable, and the bucket
\* the money came from is empty.
LEMMA SettleKeepsMoney ==
  ASSUME MoneyInv, NEW satang, Settle(CurrentPosition, satang)
  PROVE  /\ MoneyInv' /\ Refunded(ledger') = Refunded(ledger) + satang
         /\ InEscrow(ledger) \in Int /\ satang \in 0..InEscrow(ledger)
         /\ InEscrow(ledger) + Refunded(ledger) = TotalSatang
         /\ escrow \in {"HELD", "FROZEN"}
         /\ escrow' = IF satang = InEscrow(ledger) THEN "REVERSED" ELSE "RELEASABLE"
<1>1. escrow \in {"HELD", "FROZEN"}
  BY DEF Settle, SettleOk, CurrentPosition
<1>2. /\ InEscrow(ledger) = ledger[escrow] /\ ledger[escrow] \in Int /\ ledger[escrow] > 0
      /\ ledger["PAID"] = 0 /\ ledger[escrow] + ledger["REVERSED"] = TotalSatang
      /\ CurrentPosition.state = escrow /\ CurrentPosition.amount = ledger[escrow]
  BY <1>1, MoneyByBucket, PositionIsBucket DEF EscrowState
<1>3. satang \in 0..ledger[escrow]
  BY <1>2 DEF Settle, SettleOk
<1>4. /\ CurrentPosition \in Position /\ ledger \in Ledger /\ satang \in Int
      /\ CurrentPosition.state \in {"HELD", "FROZEN"}
  BY <1>1, <1>2, <1>3, MoneyByBucket DEF Position, CurrentPosition
<1>5. ledger' = Settled(ledger, CurrentPosition, satang)
  BY DEF Settle
<1>6. /\ ledger' \in Ledger
       /\ ledger'[CurrentPosition.state]
             = ledger[CurrentPosition.state] - CurrentPosition.amount
       /\ ledger'["REVERSED"] = ledger["REVERSED"] + satang
       /\ ledger'["RELEASABLE"] = ledger["RELEASABLE"] + (CurrentPosition.amount - satang)
       /\ \A s \in EscrowState :
            s # CurrentPosition.state /\ s # "REVERSED" /\ s # "RELEASABLE"
              => ledger'[s] = ledger[s]
  BY <1>4, <1>5, SettledMoves
<1>7. /\ ledger' \in Ledger
      /\ ledger'[escrow] = ledger[escrow] - ledger[escrow]
      /\ ledger'["REVERSED"] = ledger["REVERSED"] + satang
      /\ ledger'["RELEASABLE"] = ledger["RELEASABLE"] + (ledger[escrow] - satang)
      /\ \A s \in EscrowState : s # escrow /\ s # "REVERSED" /\ s # "RELEASABLE"
           => ledger'[s] = ledger[s]
  BY <1>2, <1>6
<1>8. /\ ledger["RELEASABLE"] = 0 /\ ledger["NONE"] = 0 - TotalSatang
      /\ \A s \in {"HELD", "FROZEN"} \ {escrow} : ledger[s] = 0
  BY <1>1, MoneyByBucket
<1>9. /\ ledger'["NONE"] = 0 - TotalSatang /\ ledger'["PAID"] = 0
      /\ \A s \in {"HELD", "FROZEN"} \ {escrow} : ledger'[s] = 0
  BY <1>1, <1>2, <1>7, <1>8 DEF EscrowState
<1>10. ledger'[escrow] = 0 /\ ledger'["RELEASABLE"] = ledger[escrow] - satang
  BY <1>2, <1>3, <1>7, <1>8
<1>11. \A s \in {"HELD", "FROZEN"} : ledger'[s] = 0
  BY <1>9, <1>10
<1>12. escrow' = IF satang = ledger[escrow] THEN "REVERSED" ELSE "RELEASABLE"
  BY <1>2, <1>3 DEF Settle, SettledState
<1>13. TotalSatang \in Int /\ ledger["REVERSED"] \in Int /\ ledger["REVERSED"] >= 0
  BY AmountsAssumption, MoneyByBucket DEF EscrowState
<1>14. /\ ledger'["HELD"] + ledger'["RELEASABLE"] + ledger'["FROZEN"]
            + ledger'["REVERSED"] + ledger'["PAID"] + ledger'["NONE"] = 0
       /\ ledger'["REVERSED"] >= 0
  BY <1>2, <1>3, <1>7, <1>9, <1>10, <1>11, <1>13
<1>15. \A s \in {"HELD", "RELEASABLE", "FROZEN"} :
         IF s = escrow' THEN ledger'[s] > 0 ELSE ledger'[s] = 0
  BY <1>2, <1>3, <1>10, <1>11, <1>12
<1>16. escrow' \in EscrowState /\ escrow' # "NONE"
  BY <1>12 DEF EscrowState
<1>17. MoneyInv'
  BY <1>7, <1>9, <1>14, <1>15, <1>16, BucketsMakeMoney
<1> QED BY <1>1, <1>2, <1>3, <1>7, <1>12, <1>17 DEF Refunded

-----------------------------------------------------------------------------
(* BookingInv is inductive.                                                  *)

\* Never more leaves than was received, and that is nothing or the price.
LeavesAtMostTheCharge ==
  /\ Received(ledger) \in {0, TotalSatang}
  /\ Refunded(ledger) + PaidOut(ledger) <= Received(ledger)

\* MoneyInv bounds what can have left escrow.
LEMMA MoneyBounds == MoneyInv => LeavesAtMostTheCharge
<1> SUFFICES ASSUME MoneyInv PROVE LeavesAtMostTheCharge
  OBVIOUS
<1>1. /\ ledger["NONE"] \in Int /\ ledger["HELD"] \in Int /\ ledger["RELEASABLE"] \in Int
      /\ ledger["FROZEN"] \in Int /\ ledger["PAID"] \in Int /\ ledger["REVERSED"] \in Int
  BY MoneyByBucket DEF EscrowState
<1>2. ledger["HELD"] >= 0 /\ ledger["RELEASABLE"] >= 0 /\ ledger["FROZEN"] >= 0
  <2>1. \A s \in {"HELD", "RELEASABLE", "FROZEN"} : ledger[s] > 0 \/ ledger[s] = 0
    BY MoneyByBucket
  <2> QED BY <1>1, <2>1
<1>3. ledger["REVERSED"] + ledger["PAID"] <= 0 - ledger["NONE"]
  BY <1>1, <1>2, MoneyByBucket
<1> QED BY <1>3, AmountsAssumption
  DEF LeavesAtMostTheCharge, MoneyInv, Received, Refunded, PaidOut

\* A step that moves no satang to the guest, leaves the Refund row and the
\* strikes alone and does not cross the host-at-fault status.
LEMMA KeepingStep ==
  ASSUME BookingInv, TypeOK', MoneyInv', EscrowFitsStatus',
         Refunded(ledger') = Refunded(ledger),
         UNCHANGED <<refund, gateway, strikes>>,
         status' = "CANCELLED_BY_HOST" <=> status = "CANCELLED_BY_HOST",
         payout' # NoPayout <=> escrow' = "PAID"
  PROVE  BookingInv'
<1>1. RefundRowInv' /\ RefundRowMatchesLedger' /\ GatewayWithinLedger'
  BY DEF BookingInv, RefundRowInv, RefundRowMatchesLedger, GatewayWithinLedger
<1>2. HostFaultMakesGuestWhole'
  BY DEF BookingInv, HostFaultMakesGuestWhole
<1>3. LeavesAtMostTheCharge'
  BY MoneyBounds, PTL
<1>4. MoneyLeavesOnce'
  BY <1>3 DEF MoneyLeavesOnce, LeavesAtMostTheCharge
<1> QED BY <1>1, <1>2, <1>4 DEF BookingInv

\* A step that touches neither the money nor the Refund row.
LEMMA QuietStep ==
  ASSUME BookingInv, TypeOK', EscrowFitsStatus',
         UNCHANGED <<money, refund, gateway, strikes, payout>>,
         status' = "CANCELLED_BY_HOST" <=> status = "CANCELLED_BY_HOST"
  PROVE  BookingInv'
<1>1. MoneyInv'
  BY DEF BookingInv, MoneyInv, CacheMatchesLedger, money
<1>2. Refunded(ledger') = Refunded(ledger)
  BY DEF money
<1>3. payout' # NoPayout <=> escrow' = "PAID"
  BY DEF BookingInv, MoneyLeavesOnce, money
<1> QED BY <1>1, <1>2, <1>3, KeepingStep

\* A settlement whose amount is added to the Refund row.
LEMMA SettlingStep ==
  ASSUME BookingInv, TypeOK', EscrowFitsStatus',
         NEW satang, Settle(CurrentPosition, satang),
         refund'.satang = refund.satang + satang,
         RefundRowInv', HostFaultMakesGuestWhole',
         UNCHANGED <<gateway, payout>>
  PROVE  BookingInv'
<1>1. /\ MoneyInv' /\ Refunded(ledger') = Refunded(ledger) + satang
      /\ satang \in 0..InEscrow(ledger)
      /\ escrow \in {"HELD", "FROZEN"} /\ escrow' \in {"RELEASABLE", "REVERSED"}
  BY SettleKeepsMoney DEF BookingInv
<1>2. RefundRowMatchesLedger'
  BY <1>1 DEF BookingInv, RefundRowMatchesLedger
<1>3. GatewayWithinLedger'
  <2>1. satang \in Int /\ satang >= 0 /\ gateway \in Int /\ refund.satang \in Int
    BY <1>1 DEF BookingInv, TypeOK
  <2>2. Refunded(ledger) \in Int
    BY <2>1 DEF BookingInv, RefundRowMatchesLedger
  <2> QED BY <1>1, <2>1, <2>2 DEF BookingInv, GatewayWithinLedger
<1>4. payout' # NoPayout <=> escrow' = "PAID"
  BY <1>1 DEF BookingInv, MoneyLeavesOnce
<1>5. LeavesAtMostTheCharge'
  BY <1>1, MoneyBounds, PTL
<1>6. MoneyLeavesOnce'
  BY <1>4, <1>5 DEF MoneyLeavesOnce, LeavesAtMostTheCharge
<1> QED BY <1>1, <1>2, <1>3, <1>6 DEF BookingInv

\* The gateway call: what Opn sends is what the ledger has refunded.
LEMMA SendingStep ==
  ASSUME BookingInv, SendRefund(Rows),
         UNCHANGED <<status, timer, stay, money, claimed, dispute, strikes, admin>>,
         calling' \in BOOLEAN
  PROVE  BookingInv'
<1>1. /\ refund' = [refund EXCEPT !.sent = TRUE] /\ gateway' = gateway + refund.satang
      /\ gateway = 0 /\ refund \in [exists : BOOLEAN, satang : 0..TotalSatang, sent : BOOLEAN]
      /\ refund.satang > 0 /\ TotalSatang \in Int
  BY AmountsAssumption DEF SendRefund, Rows, BookingInv, RefundRowInv, TypeOK
<1>2. /\ refund'.satang = refund.satang /\ refund'.sent /\ refund'.exists = refund.exists
      /\ refund' \in [exists : BOOLEAN, satang : 0..TotalSatang, sent : BOOLEAN]
      /\ gateway' = refund.satang /\ refund.satang \in Nat
  <2>1. /\ refund.exists \in BOOLEAN /\ refund.satang \in 0..TotalSatang
        /\ refund' = [exists |-> refund.exists, satang |-> refund.satang, sent |-> TRUE]
    BY <1>1
  <2>2. refund.satang \in Nat /\ gateway' = refund.satang
    BY <1>1, <2>1
  <2> QED BY <2>1, <2>2
<1>3. TypeOK'
  BY <1>2 DEF BookingInv, TypeOK, money, admin
<1>4. RefundRowInv' /\ RefundRowMatchesLedger' /\ GatewayWithinLedger'
  BY <1>1, <1>2
    DEF BookingInv, RefundRowInv, RefundRowMatchesLedger, GatewayWithinLedger, money
<1>5. MoneyInv' /\ EscrowFitsStatus' /\ HostFaultMakesGuestWhole' /\ MoneyLeavesOnce'
  BY DEF BookingInv, MoneyInv, CacheMatchesLedger, EscrowFitsStatus, HostFaultMakesGuestWhole,
     MoneyLeavesOnce, money, admin
<1> QED BY <1>3, <1>4, <1>5 DEF BookingInv

\* The booking's handlers start in, and never leave, BookingInv.
LEMMA InitEstablishes == Init => BookingInv
<1> SUFFICES ASSUME Init PROVE BookingInv
  OBVIOUS
<1>1. TypeOK
  <2>1. ledger \in Ledger /\ escrow \in EscrowState
    BY DEF Init, EscrowState, Ledger, EMPTY_BUCKETS
  <2>2. refund \in [exists : BOOLEAN, satang : 0..TotalSatang, sent : BOOLEAN]
    BY AmountsAssumption DEF Init
  <2>3. dispute \in [status : DisputeStatus, appealed : SUBSET Sides]
    BY DEF Init, DisputeStatus
  <2>4. report \in [Reports -> ReportStatus]
    BY DEF Init, ReportStatus
  <2>5. holds \in 0..MaxHolds /\ gateway \in Nat /\ strikes \in Nat
    BY ChoicesAssumption DEF Init
  <2>6. /\ calling \in BOOLEAN /\ claimed \subseteq OpnEvents
        /\ payout \in {NoPayout, TotalSatang - CommissionSatang}
    BY DEF Init
  <2>7. /\ status \in BookingStatus /\ timer \in {"running", "elapsed"}
        /\ stay \in {"before", "checkedIn", "checkedOut"}
    BY DEF Init, BookingStatus
  <2> QED BY <2>1, <2>2, <2>3, <2>4, <2>5, <2>6, <2>7 DEF TypeOK
<1>2. /\ Received(ledger) = 0 /\ Refunded(ledger) = 0 /\ PaidOut(ledger) = 0
      /\ InEscrow(ledger) = 0
  <2>1. /\ ledger["NONE"] = 0 /\ ledger["HELD"] = 0 /\ ledger["RELEASABLE"] = 0
        /\ ledger["FROZEN"] = 0 /\ ledger["PAID"] = 0 /\ ledger["REVERSED"] = 0
    BY DEF Init, EMPTY_BUCKETS, EscrowState
  <2>2. 0 - ledger["NONE"] = 0
    BY <2>1
  <2> QED BY <2>1, <2>2 DEF Received, Refunded, PaidOut, InEscrow
<1>3. MoneyInv
  BY <1>1, <1>2 DEF MoneyInv, TypeOK, CacheMatchesLedger, InvariantHolds, Init,
     EMPTY_BUCKETS, EscrowState
<1>4. /\ RefundRowInv /\ RefundRowMatchesLedger /\ HostFaultMakesGuestWhole
      /\ GatewayWithinLedger /\ EscrowFitsStatus
  BY <1>2 DEF Init, RefundRowInv, RefundRowMatchesLedger, HostFaultMakesGuestWhole,
     GatewayWithinLedger, EscrowFitsStatus
<1>5. MoneyLeavesOnce
  BY <1>2 DEF Init, MoneyLeavesOnce
<1> QED BY <1>1, <1>3, <1>4, <1>5 DEF BookingInv

\* Every handler keeps BookingInv: one step per action of Next.
LEMMA StepKeeps == BookingInv /\ [Next]_vars => BookingInv'
<1> SUFFICES ASSUME BookingInv, [Next]_vars PROVE BookingInv'
  OBVIOUS
<1>1. /\ TypeOK /\ MoneyInv /\ RefundRowInv /\ EscrowFitsStatus /\ RefundRowMatchesLedger
      /\ HostFaultMakesGuestWhole /\ MoneyLeavesOnce /\ GatewayWithinLedger
  BY DEF BookingInv
<1>2. ASSUME Request PROVE BookingInv'
  <2>1. TypeOK'
    BY <1>1, <1>2 DEF Request, TypeOK, BookingStatus, money, guestRefund, admin
  <2>2. EscrowFitsStatus'
    BY <1>1, <1>2 DEF Request, EscrowFitsStatus, Rows, money, guestRefund, admin
  <2>3. /\ UNCHANGED <<money, refund, gateway, strikes, payout>>
        /\ status' = "CANCELLED_BY_HOST" <=> status = "CANCELLED_BY_HOST"
    BY <1>2 DEF Request, Rows, money, guestRefund, admin
  <2> QED BY <2>1, <2>2, <2>3, QuietStep
<1>3. ASSUME InstantHold PROVE BookingInv'
  <2>1. TypeOK'
    BY <1>1, <1>3 DEF InstantHold, TypeOK, BookingStatus, money, guestRefund, admin
  <2>2. EscrowFitsStatus'
    BY <1>1, <1>3 DEF InstantHold, EscrowFitsStatus, Rows, money, guestRefund, admin
  <2>3. /\ UNCHANGED <<money, refund, gateway, strikes, payout>>
        /\ status' = "CANCELLED_BY_HOST" <=> status = "CANCELLED_BY_HOST"
    BY <1>3 DEF InstantHold, Rows, money, guestRefund, admin
  <2> QED BY <2>1, <2>2, <2>3, QuietStep
<1>4. ASSUME Accept(Rows) PROVE BookingInv'
  <2>1. TypeOK'
    BY <1>1, <1>4 DEF Accept, TypeOK, BookingStatus, money, guestRefund, admin
  <2>2. EscrowFitsStatus'
    BY <1>1, <1>4 DEF Accept, EscrowFitsStatus, Rows, money, guestRefund, admin
  <2>3. /\ UNCHANGED <<money, refund, gateway, strikes, payout>>
        /\ status' = "CANCELLED_BY_HOST" <=> status = "CANCELLED_BY_HOST"
    BY <1>4 DEF Accept, Rows, money, guestRefund, admin
  <2> QED BY <2>1, <2>2, <2>3, QuietStep
<1>5. ASSUME Decline(Rows) PROVE BookingInv'
  <2>1. TypeOK'
    BY <1>1, <1>5 DEF Decline, TypeOK, BookingStatus, money, guestRefund, admin
  <2>2. EscrowFitsStatus'
    BY <1>1, <1>5 DEF Decline, EscrowFitsStatus, Rows, money, guestRefund, admin
  <2>3. /\ UNCHANGED <<money, refund, gateway, strikes, payout>>
        /\ status' = "CANCELLED_BY_HOST" <=> status = "CANCELLED_BY_HOST"
    BY <1>5 DEF Decline, Rows, money, guestRefund, admin
  <2> QED BY <2>1, <2>2, <2>3, QuietStep
<1>6. ASSUME Expire(Rows) PROVE BookingInv'
  <2>1. TypeOK'
    BY <1>1, <1>6 DEF Expire, TypeOK, BookingStatus, money, guestRefund, admin
  <2>2. EscrowFitsStatus'
    BY <1>1, <1>6 DEF Expire, EscrowFitsStatus, Rows, money, guestRefund, admin
  <2>3. /\ UNCHANGED <<money, refund, gateway, strikes, payout>>
        /\ status' = "CANCELLED_BY_HOST" <=> status = "CANCELLED_BY_HOST"
    BY <1>6 DEF Expire, Rows, money, guestRefund, admin
  <2> QED BY <2>1, <2>2, <2>3, QuietStep
<1>7. ASSUME CheckIn(Rows) PROVE BookingInv'
  <2>1. TypeOK'
    BY <1>1, <1>7 DEF CheckIn, TypeOK, BookingStatus, money, guestRefund, admin
  <2>2. EscrowFitsStatus'
    BY <1>1, <1>7 DEF CheckIn, EscrowFitsStatus, Rows, money, guestRefund, admin
  <2>3. /\ UNCHANGED <<money, refund, gateway, strikes, payout>>
        /\ status' = "CANCELLED_BY_HOST" <=> status = "CANCELLED_BY_HOST"
    BY <1>7 DEF CheckIn, Rows, money, guestRefund, admin
  <2> QED BY <2>1, <2>2, <2>3, QuietStep
<1>8. ASSUME TimerElapses PROVE BookingInv'
  <2>1. TypeOK'
    BY <1>1, <1>8 DEF TimerElapses, TypeOK, money, guestRefund, admin
  <2>2. EscrowFitsStatus'
    BY <1>1, <1>8 DEF TimerElapses, EscrowFitsStatus, Rows, money, guestRefund, admin
  <2>3. /\ UNCHANGED <<money, refund, gateway, strikes, payout>>
        /\ status' = "CANCELLED_BY_HOST" <=> status = "CANCELLED_BY_HOST"
    BY <1>8 DEF TimerElapses, Rows, money, guestRefund, admin
  <2> QED BY <2>1, <2>2, <2>3, QuietStep
<1>9. ASSUME StayAdvances PROVE BookingInv'
  <2>1. TypeOK'
    BY <1>1, <1>9 DEF StayAdvances, TypeOK, money, guestRefund, admin
  <2>2. EscrowFitsStatus'
    BY <1>1, <1>9 DEF StayAdvances, EscrowFitsStatus, Rows, money, guestRefund, admin
  <2>3. /\ UNCHANGED <<money, refund, gateway, strikes, payout>>
        /\ status' = "CANCELLED_BY_HOST" <=> status = "CANCELLED_BY_HOST"
    BY <1>9 DEF StayAdvances, Rows, money, guestRefund, admin
  <2> QED BY <2>1, <2>2, <2>3, QuietStep
<1>10. ASSUME PlaceHold PROVE BookingInv'
  <2>1. TypeOK'
    BY <1>1, <1>10, ChoicesAssumption DEF PlaceHold, TypeOK, money, guestRefund, admin
  <2>2. EscrowFitsStatus'
    BY <1>1, <1>10 DEF PlaceHold, EscrowFitsStatus, Rows, money, guestRefund, admin
  <2>3. /\ UNCHANGED <<money, refund, gateway, strikes, payout>>
        /\ status' = "CANCELLED_BY_HOST" <=> status = "CANCELLED_BY_HOST"
    BY <1>10 DEF PlaceHold, Rows, money, guestRefund, admin
  <2> QED BY <2>1, <2>2, <2>3, QuietStep
<1>11. ASSUME ReleaseHold PROVE BookingInv'
  <2>1. TypeOK'
    BY <1>1, <1>11, ChoicesAssumption DEF ReleaseHold, TypeOK, money, guestRefund, admin
  <2>2. EscrowFitsStatus'
    BY <1>1, <1>11 DEF ReleaseHold, EscrowFitsStatus, Rows, money, guestRefund, admin
  <2>3. /\ UNCHANGED <<money, refund, gateway, strikes, payout>>
        /\ status' = "CANCELLED_BY_HOST" <=> status = "CANCELLED_BY_HOST"
    BY <1>11 DEF ReleaseHold, Rows, money, guestRefund, admin
  <2> QED BY <2>1, <2>2, <2>3, QuietStep
<1>12. ASSUME NEW k \in Reports, CreateBookingReport(k) PROVE BookingInv'
  <2>1. TypeOK'
    BY <1>1, <1>12 DEF CreateBookingReport, TypeOK, ReportStatus, money, guestRefund, admin
  <2>2. EscrowFitsStatus'
    BY <1>1, <1>12 DEF CreateBookingReport, EscrowFitsStatus, Rows, money, guestRefund, admin
  <2>3. /\ UNCHANGED <<money, refund, gateway, strikes, payout>>
        /\ status' = "CANCELLED_BY_HOST" <=> status = "CANCELLED_BY_HOST"
    BY <1>12 DEF CreateBookingReport, Rows, money, guestRefund, admin
  <2> QED BY <2>1, <2>2, <2>3, QuietStep
<1>13. ASSUME NEW k \in Reports, CloseReport(Rows, k) PROVE BookingInv'
  <2>1. TypeOK'
    BY <1>1, <1>13 DEF CloseReport, TypeOK, ReportStatus, money, guestRefund, admin
  <2>2. EscrowFitsStatus'
    BY <1>1, <1>13 DEF CloseReport, EscrowFitsStatus, Rows, money, guestRefund, admin
  <2>3. /\ UNCHANGED <<money, refund, gateway, strikes, payout>>
        /\ status' = "CANCELLED_BY_HOST" <=> status = "CANCELLED_BY_HOST"
    BY <1>13 DEF CloseReport, Rows, money, guestRefund, admin
  <2> QED BY <2>1, <2>2, <2>3, QuietStep
<1>14. ASSUME NEW e \in OpnEvents, ConfirmFromWebhook(Rows, e) PROVE BookingInv'
  <2>1. RecordCharge
    BY <1>14 DEF ConfirmFromWebhook
  <2>2. /\ MoneyInv' /\ Refunded(ledger') = Refunded(ledger)
        /\ escrow = "NONE" /\ escrow' = "HELD"
    BY <1>1, <2>1, ChargeKeepsMoney
  <2>3. TypeOK'
    BY <1>1, <1>14, <2>2
      DEF ConfirmFromWebhook, TypeOK, BookingStatus, money, guestRefund, admin, MoneyInv
  <2>4. EscrowFitsStatus'
    BY <1>1, <1>14, <2>2 DEF ConfirmFromWebhook, EscrowFitsStatus, Rows, FREEZABLE
  <2>5. UNCHANGED <<refund, gateway, strikes>>
    BY <1>14 DEF ConfirmFromWebhook, guestRefund
  <2>6. status' = "CANCELLED_BY_HOST" <=> status = "CANCELLED_BY_HOST"
    BY <1>14 DEF ConfirmFromWebhook, Rows
  <2>7. payout' # NoPayout <=> escrow' = "PAID"
    BY <1>1, <1>14, <2>2, AmountsAssumption
      DEF ConfirmFromWebhook, MoneyLeavesOnce, FREEZABLE, admin, NoPayout
  <2> QED BY <2>2, <2>3, <2>4, <2>5, <2>6, <2>7, KeepingStep
<1>15. ASSUME Complete(Rows), escrow = "HELD" PROVE BookingInv'
  <2>1. Release
    BY <1>15 DEF Complete, Rows
  <2>2. /\ MoneyInv' /\ Refunded(ledger') = Refunded(ledger)
        /\ escrow = "HELD" /\ escrow' = "RELEASABLE"
    BY <1>1, <2>1, ReleaseKeepsMoney
  <2>3. TypeOK'
    BY <1>1, <1>15, <2>2
      DEF Complete, Rows, TypeOK, BookingStatus, money, guestRefund, admin, MoneyInv
  <2>4. EscrowFitsStatus'
    BY <1>1, <1>15, <2>2 DEF Complete, Rows, EscrowFitsStatus, Rows, FREEZABLE
  <2>5. UNCHANGED <<refund, gateway, strikes>>
    BY <1>15 DEF Complete, Rows, guestRefund
  <2>6. status' = "CANCELLED_BY_HOST" <=> status = "CANCELLED_BY_HOST"
    BY <1>15 DEF Complete, Rows, Rows
  <2>7. payout' # NoPayout <=> escrow' = "PAID"
    BY <1>1, <1>15, <2>2, AmountsAssumption
      DEF Complete, Rows, MoneyLeavesOnce, FREEZABLE, admin, NoPayout
  <2> QED BY <2>2, <2>3, <2>4, <2>5, <2>6, <2>7, KeepingStep
<1>16. ASSUME Complete(Rows), escrow # "HELD" PROVE BookingInv'
  <2>1. TypeOK'
    BY <1>1, <1>16 DEF Complete, Rows, TypeOK, BookingStatus, money, guestRefund, admin
  <2>2. EscrowFitsStatus'
    BY <1>1, <1>16 DEF Complete, EscrowFitsStatus, Rows, money, guestRefund, admin
  <2>3. /\ UNCHANGED <<money, refund, gateway, strikes, payout>>
        /\ status' = "CANCELLED_BY_HOST" <=> status = "CANCELLED_BY_HOST"
    BY <1>16 DEF Complete, Rows, money, guestRefund, admin
  <2> QED BY <2>1, <2>2, <2>3, QuietStep
<1>17. ASSUME OpenDispute(Rows) PROVE BookingInv'
  <2>1. Freeze(CurrentPosition)
    BY <1>17 DEF OpenDispute, DisputeOpened
  <2>2. /\ MoneyInv' /\ Refunded(ledger') = Refunded(ledger)
        /\ escrow \in FREEZABLE /\ escrow' = "FROZEN"
    BY <1>1, <2>1, FreezeKeepsMoney
  <2>3. TypeOK'
    BY <1>1, <1>17, <2>2
      DEF OpenDispute, DisputeOpened, TypeOK, BookingStatus, DisputeStatus, money, guestRefund,
          admin, MoneyInv
  <2>4. EscrowFitsStatus'
    BY <1>1, <1>17, <2>2 DEF OpenDispute, DisputeOpened, EscrowFitsStatus, Rows, FREEZABLE
  <2>5. UNCHANGED <<refund, gateway, strikes>>
    BY <1>17 DEF OpenDispute, DisputeOpened, guestRefund
  <2>6. status' = "CANCELLED_BY_HOST" <=> status = "CANCELLED_BY_HOST"
    BY <1>17 DEF OpenDispute, DisputeOpened, Rows
  <2>7. payout' # NoPayout <=> escrow' = "PAID"
    BY <1>1, <1>17, <2>2, AmountsAssumption
      DEF OpenDispute, DisputeOpened, MoneyLeavesOnce, FREEZABLE, admin, NoPayout
  <2> QED BY <2>2, <2>3, <2>4, <2>5, <2>6, <2>7, KeepingStep
<1>18. ASSUME NEW k \in Reports, EscalateToDispute(Rows, k) PROVE BookingInv'
  <2>1. Freeze(CurrentPosition)
    BY <1>18 DEF EscalateToDispute, DisputeOpened
  <2>2. /\ MoneyInv' /\ Refunded(ledger') = Refunded(ledger)
        /\ escrow \in FREEZABLE /\ escrow' = "FROZEN"
    BY <1>1, <2>1, FreezeKeepsMoney
  <2>3. TypeOK'
    BY <1>1, <1>18, <2>2
      DEF EscalateToDispute, DisputeOpened, TypeOK, BookingStatus, DisputeStatus, ReportStatus,
          money, guestRefund, admin, MoneyInv
  <2>4. EscrowFitsStatus'
    BY <1>1, <1>18, <2>2
      DEF EscalateToDispute, DisputeOpened, EscrowFitsStatus, Rows, FREEZABLE
  <2>5. UNCHANGED <<refund, gateway, strikes>>
    BY <1>18 DEF EscalateToDispute, DisputeOpened, guestRefund
  <2>6. status' = "CANCELLED_BY_HOST" <=> status = "CANCELLED_BY_HOST"
    BY <1>18 DEF EscalateToDispute, DisputeOpened, Rows
  <2>7. payout' # NoPayout <=> escrow' = "PAID"
    BY <1>1, <1>18, <2>2, AmountsAssumption
      DEF EscalateToDispute, DisputeOpened, MoneyLeavesOnce, FREEZABLE, admin, NoPayout
  <2> QED BY <2>2, <2>3, <2>4, <2>5, <2>6, <2>7, KeepingStep
<1>19. ASSUME NEW side \in Sides, AppealDispute(Rows, CurrentPosition, side) PROVE BookingInv'
  <2>1. Freeze(CurrentPosition)
    BY <1>19 DEF AppealDispute
  <2>2. /\ MoneyInv' /\ Refunded(ledger') = Refunded(ledger)
        /\ escrow \in FREEZABLE /\ escrow' = "FROZEN"
    BY <1>1, <2>1, FreezeKeepsMoney
  <2>3. TypeOK'
    BY <1>1, <1>19, <2>2 DEF AppealDispute, TypeOK, money, guestRefund, admin, MoneyInv
  <2>4. EscrowFitsStatus'
    BY <1>1, <1>19, <2>2 DEF AppealDispute, EscrowFitsStatus, Rows, FREEZABLE
  <2>5. UNCHANGED <<refund, gateway, strikes>>
    BY <1>19 DEF AppealDispute, guestRefund
  <2>6. status' = "CANCELLED_BY_HOST" <=> status = "CANCELLED_BY_HOST"
    BY <1>19 DEF AppealDispute, Rows
  <2>7. payout' # NoPayout <=> escrow' = "PAID"
    BY <1>1, <1>19, <2>2, AmountsAssumption
      DEF AppealDispute, MoneyLeavesOnce, FREEZABLE, admin, NoPayout
  <2> QED BY <2>2, <2>3, <2>4, <2>5, <2>6, <2>7, KeepingStep
<1>20. ASSUME NEW k \in Reports, AcceptIntoReview(Rows, CurrentPosition, k),
                    escrow \in FREEZABLE
             PROVE  BookingInv'
  <2>1. Freeze(CurrentPosition)
    BY <1>20 DEF AcceptIntoReview, Rows
  <2>2. /\ MoneyInv' /\ Refunded(ledger') = Refunded(ledger)
        /\ escrow \in FREEZABLE /\ escrow' = "FROZEN"
    BY <1>1, <2>1, FreezeKeepsMoney
  <2>3. TypeOK'
    BY <1>1, <1>20, <2>2
      DEF AcceptIntoReview, Rows, TypeOK, ReportStatus, money, guestRefund, admin, MoneyInv
  <2>4. EscrowFitsStatus'
    BY <1>1, <1>20, <2>2 DEF AcceptIntoReview, Rows, EscrowFitsStatus, Rows, FREEZABLE
  <2>5. UNCHANGED <<refund, gateway, strikes>>
    BY <1>20 DEF AcceptIntoReview, Rows, guestRefund
  <2>6. status' = "CANCELLED_BY_HOST" <=> status = "CANCELLED_BY_HOST"
    BY <1>20 DEF AcceptIntoReview, Rows, Rows
  <2>7. payout' # NoPayout <=> escrow' = "PAID"
    BY <1>1, <1>20, <2>2, AmountsAssumption
      DEF AcceptIntoReview, Rows, MoneyLeavesOnce, FREEZABLE, admin, NoPayout
  <2> QED BY <2>2, <2>3, <2>4, <2>5, <2>6, <2>7, KeepingStep
<1>21. ASSUME NEW k \in Reports, AcceptIntoReview(Rows, CurrentPosition, k),
                    escrow \notin FREEZABLE
             PROVE  BookingInv'
  <2>1. TypeOK'
    BY <1>1, <1>21 DEF AcceptIntoReview, Rows, TypeOK, ReportStatus, money, guestRefund, admin
  <2>2. EscrowFitsStatus'
    BY <1>1, <1>21 DEF AcceptIntoReview, EscrowFitsStatus, Rows, money, guestRefund, admin
  <2>3. /\ UNCHANGED <<money, refund, gateway, strikes, payout>>
        /\ status' = "CANCELLED_BY_HOST" <=> status = "CANCELLED_BY_HOST"
    BY <1>21 DEF AcceptIntoReview, Rows, money, guestRefund, admin
  <2> QED BY <2>1, <2>2, <2>3, QuietStep
<1>22. ASSUME MarkPaid(Rows, CurrentPosition) PROVE BookingInv'
  <2>1. Pay(CurrentPosition)
    BY <1>22 DEF MarkPaid
  <2>2. /\ MoneyInv' /\ Refunded(ledger') = Refunded(ledger)
        /\ escrow = "RELEASABLE" /\ escrow' = "PAID"
    BY <1>1, <2>1, PayKeepsMoney
  <2>3. TypeOK'
    BY <1>1, <1>22, <2>2 DEF MarkPaid, TypeOK, money, guestRefund, admin, MoneyInv
  <2>4. EscrowFitsStatus'
    BY <1>1, <1>22, <2>2 DEF MarkPaid, EscrowFitsStatus, Rows, FREEZABLE
  <2>5. UNCHANGED <<refund, gateway, strikes>>
    BY <1>22 DEF MarkPaid, guestRefund
  <2>6. status' = "CANCELLED_BY_HOST" <=> status = "CANCELLED_BY_HOST"
    BY <1>22 DEF MarkPaid, Rows
  <2>7. payout' # NoPayout <=> escrow' = "PAID"
    BY <1>1, <1>22, <2>2, AmountsAssumption
      DEF MarkPaid, MoneyLeavesOnce, FREEZABLE, admin, NoPayout
  <2> QED BY <2>2, <2>3, <2>4, <2>5, <2>6, <2>7, KeepingStep
<1>23. ASSUME NEW tier \in CancellationTier, NEW d \in LeadDays,
           CancelByGuest(Rows, tier, d), status # "CONFIRMED" PROVE BookingInv'
  <2>1. TypeOK'
    BY <1>1, <1>23 DEF CancelByGuest, Rows, TypeOK, BookingStatus, money, guestRefund, admin
  <2>2. EscrowFitsStatus'
    BY <1>1, <1>23 DEF CancelByGuest, EscrowFitsStatus, Rows, money, guestRefund, admin
  <2>3. /\ UNCHANGED <<money, refund, gateway, strikes, payout>>
        /\ status' = "CANCELLED_BY_HOST" <=> status = "CANCELLED_BY_HOST"
    BY <1>23 DEF CancelByGuest, Rows, money, guestRefund, admin
  <2> QED BY <2>1, <2>2, <2>3, QuietStep
<1>24. ASSUME NEW tier \in CancellationTier, NEW d \in LeadDays,
           CancelByGuest(Rows, tier, d), status = "CONFIRMED" PROVE BookingInv'
  <2> DEFINE satang == RefundSatangForPct(TotalSatang, GuestRefundPct(tier, d))
  <2>1. Settle(CurrentPosition, satang) /\ RecordRefund(satang)
    BY <1>24 DEF CancelByGuest, Rows
  <2> HIDE DEF satang
  <2>2. /\ MoneyInv' /\ Refunded(ledger') = Refunded(ledger) + satang
        /\ InEscrow(ledger) \in Int /\ satang \in 0..InEscrow(ledger)
        /\ InEscrow(ledger) + Refunded(ledger) = TotalSatang
        /\ escrow' = IF satang = InEscrow(ledger) THEN "REVERSED" ELSE "RELEASABLE"
    BY <1>1, <2>1, SettleKeepsMoney
  <2>3. /\ Refunded(ledger) \in Int /\ InEscrow(ledger) \in Int
        /\ refund.satang \in 0..TotalSatang
        /\ refund.satang = Refunded(ledger) /\ TotalSatang \in Int
    BY <1>1, <2>2, AmountsAssumption DEF TypeOK, RefundRowMatchesLedger
  <2>4. refund.satang + satang \in 0..TotalSatang
    BY <2>2, <2>3
  <2>5. /\ refund'.satang = refund.satang + satang /\ RefundRowInv'
        /\ refund' \in [exists : BOOLEAN, satang : 0..TotalSatang, sent : BOOLEAN]
    BY <1>1, <1>24, <2>1, <2>2, <2>3, <2>4
      DEF RecordRefund, RefundRowInv, TypeOK, CancelByGuest
  <2>6. TypeOK'
    BY <1>1, <1>24, <2>2, <2>5
      DEF CancelByGuest, TypeOK, BookingStatus, money, guestRefund, admin, MoneyInv
  <2>7. EscrowFitsStatus'
    BY <1>24, <2>2 DEF CancelByGuest, EscrowFitsStatus, Rows
  <2>8. HostFaultMakesGuestWhole'
    BY <1>1, <1>24 DEF CancelByGuest, HostFaultMakesGuestWhole, Rows
  <2>9. UNCHANGED <<gateway, payout>>
    BY <1>24 DEF CancelByGuest, admin
  <2> QED BY <2>1, <2>5, <2>6, <2>7, <2>8, <2>9, SettlingStep
<1>25. ASSUME CancelByHost(Rows) PROVE BookingInv'
  <2> DEFINE satang == TotalSatang
  <2>1. Settle(CurrentPosition, satang) /\ RecordRefund(satang)
    BY <1>25 DEF CancelByHost, Rows
  <2> HIDE DEF satang
  <2>2. /\ MoneyInv' /\ Refunded(ledger') = Refunded(ledger) + satang
        /\ InEscrow(ledger) \in Int /\ satang \in 0..InEscrow(ledger)
        /\ InEscrow(ledger) + Refunded(ledger) = TotalSatang
        /\ escrow' = IF satang = InEscrow(ledger) THEN "REVERSED" ELSE "RELEASABLE"
    BY <1>1, <2>1, SettleKeepsMoney
  <2>3. /\ Refunded(ledger) \in Int /\ InEscrow(ledger) \in Int
        /\ refund.satang \in 0..TotalSatang
        /\ refund.satang = Refunded(ledger) /\ TotalSatang \in Int
    BY <1>1, <2>2, AmountsAssumption DEF TypeOK, RefundRowMatchesLedger
  <2>4. refund.satang + satang \in 0..TotalSatang
    BY <2>2, <2>3
  <2>5. /\ refund'.satang = refund.satang + satang /\ RefundRowInv'
        /\ refund' \in [exists : BOOLEAN, satang : 0..TotalSatang, sent : BOOLEAN]
    BY <1>1, <1>25, <2>1, <2>2, <2>3, <2>4 DEF RecordRefund, RefundRowInv, TypeOK, CancelByHost
  <2>6. TypeOK'
    BY <1>1, <1>25, <2>2, <2>5
      DEF CancelByHost, TypeOK, BookingStatus, money, guestRefund, admin, MoneyInv
  <2>7. satang = InEscrow(ledger) /\ Refunded(ledger') = TotalSatang
    BY <1>1, <2>2, <2>3 DEF satang, TypeOK
  <2>8. EscrowFitsStatus'
    BY <1>25, <2>2, <2>7 DEF CancelByHost, EscrowFitsStatus, Rows
  <2>9. HostFaultMakesGuestWhole'
    BY <1>1, <1>25, <2>7 DEF CancelByHost, HostFaultMakesGuestWhole, Rows
  <2>10. UNCHANGED <<gateway, payout>>
    BY <1>25 DEF CancelByHost, admin
  <2> QED BY <2>1, <2>5, <2>6, <2>7, <2>8, <2>9, <2>10, SettlingStep
<1>26. ASSUME NEW res \in DisputeResolution,
           ResolveDispute(Rows, CurrentPosition, res) PROVE BookingInv'
  <2> DEFINE satang == GuestShare(TotalSatang, res)
  <2>1. res.kind \in {"RELEASED", "PARTIAL", "REFUNDED"}
    BY <1>26 DEF DisputeResolution
  <2>2. Settle(CurrentPosition, satang)
    BY <1>26 DEF ResolveDispute, Rows
  <2>3. /\ res.kind = "RELEASED" => satang = 0
        /\ res.kind = "REFUNDED" => satang = TotalSatang
    BY DEF GuestShare
  <2> HIDE DEF satang
  <2>4. /\ MoneyInv' /\ Refunded(ledger') = Refunded(ledger) + satang
        /\ InEscrow(ledger) \in Int /\ satang \in 0..InEscrow(ledger)
        /\ InEscrow(ledger) + Refunded(ledger) = TotalSatang
        /\ escrow' = IF satang = InEscrow(ledger) THEN "REVERSED" ELSE "RELEASABLE"
    BY <1>1, <2>2, SettleKeepsMoney
  <2>5. /\ Refunded(ledger) \in Int /\ InEscrow(ledger) \in Int
        /\ refund.satang \in 0..TotalSatang
        /\ refund.satang = Refunded(ledger) /\ TotalSatang \in Int
    BY <1>1, <2>4, AmountsAssumption DEF TypeOK, RefundRowMatchesLedger
  <2>6. refund.satang + satang \in 0..TotalSatang
    BY <2>4, <2>5
  <2>7. /\ refund'.satang = refund.satang + satang /\ RefundRowInv'
        /\ refund' \in [exists : BOOLEAN, satang : 0..TotalSatang, sent : BOOLEAN]
    <3>1. CASE res.kind = "RELEASED"
      <4>1. refund' = refund /\ gateway' = gateway /\ satang = 0
        BY <1>26, <2>3, <3>1 DEF ResolveDispute
      <4> QED BY <1>1, <2>5, <4>1 DEF RefundRowInv, TypeOK
    <3>2. CASE res.kind # "RELEASED"
      <4>1. RecordRefund(satang) /\ gateway' = gateway
        BY <1>26, <3>2 DEF ResolveDispute, satang
      <4> QED BY <1>1, <2>4, <2>5, <2>6, <4>1 DEF RecordRefund, RefundRowInv, TypeOK
    <3> QED BY <3>1, <3>2
  <2>8. dispute' \in [status : DisputeStatus, appealed : SUBSET Sides]
    BY <1>1, <1>26, <2>1 DEF ResolveDispute, Decide, ResolvedStatus, TypeOK, DisputeStatus,
       RESOLVED_DISPUTE_STATUSES
  <2>9. TypeOK'
    BY <1>1, <1>26, <2>4, <2>7, <2>8
      DEF ResolveDispute, Decide, TypeOK, BookingStatus, money, guestRefund, admin, MoneyInv
  <2>10. res.kind = "REFUNDED" => satang = InEscrow(ledger) /\ Refunded(ledger') = TotalSatang
    BY <1>1, <2>3, <2>4, <2>5 DEF TypeOK
  <2>11. EscrowFitsStatus'
    BY <1>26, <2>4, <2>10 DEF ResolveDispute, Decide, EscrowFitsStatus
  <2>12. status # "CANCELLED_BY_HOST"
    BY <1>1, <1>26 DEF ResolveDispute, Rows, EscrowFitsStatus
  <2>13. HostFaultMakesGuestWhole'
    BY <1>1, <1>26, <2>10, <2>12 DEF ResolveDispute, Decide, HostFaultMakesGuestWhole
  <2>14. UNCHANGED <<gateway, payout>>
    BY <1>26 DEF ResolveDispute, admin
  <2> QED BY <2>2, <2>7, <2>9, <2>11, <2>13, <2>14, SettlingStep
<1>27. ASSUME NEW res \in DisputeResolution,
           ResolveAppeal(Rows, CurrentPosition, res) PROVE BookingInv'
  <2> DEFINE satang == GuestShare(InEscrow(ledger), res)
  <2>1. res.kind \in {"RELEASED", "PARTIAL", "REFUNDED"}
    BY <1>27 DEF DisputeResolution
  <2>2. Settle(CurrentPosition, satang)
    BY <1>27 DEF ResolveAppeal, Rows
  <2>3. /\ res.kind = "RELEASED" => satang = 0
        /\ res.kind = "REFUNDED" => satang = InEscrow(ledger)
    BY DEF GuestShare
  <2> HIDE DEF satang
  <2>4. /\ MoneyInv' /\ Refunded(ledger') = Refunded(ledger) + satang
        /\ InEscrow(ledger) \in Int /\ satang \in 0..InEscrow(ledger)
        /\ InEscrow(ledger) + Refunded(ledger) = TotalSatang
        /\ escrow' = IF satang = InEscrow(ledger) THEN "REVERSED" ELSE "RELEASABLE"
    BY <1>1, <2>2, SettleKeepsMoney
  <2>5. /\ Refunded(ledger) \in Int /\ InEscrow(ledger) \in Int
        /\ refund.satang \in 0..TotalSatang
        /\ refund.satang = Refunded(ledger) /\ TotalSatang \in Int
    BY <1>1, <2>4, AmountsAssumption DEF TypeOK, RefundRowMatchesLedger
  <2>6. refund.satang + satang \in 0..TotalSatang
    BY <2>4, <2>5
  <2>7. /\ refund'.satang = refund.satang + satang /\ RefundRowInv'
        /\ refund' \in [exists : BOOLEAN, satang : 0..TotalSatang, sent : BOOLEAN]
    <3>1. CASE res.kind = "RELEASED"
      <4>1. refund' = refund /\ gateway' = gateway /\ satang = 0
        BY <1>27, <2>3, <3>1 DEF ResolveAppeal
      <4> QED BY <1>1, <2>5, <4>1 DEF RefundRowInv, TypeOK
    <3>2. CASE res.kind # "RELEASED"
      <4>1. /\ refund' = [refund EXCEPT !.exists = TRUE, !.satang = refund.satang + satang]
            /\ gateway' = gateway
        BY <1>27, <3>2 DEF ResolveAppeal, UpsertRefund, Rows, satang
      <4> QED BY <1>1, <2>5, <2>6, <4>1 DEF RefundRowInv, TypeOK
    <3> QED BY <3>1, <3>2
  <2>8. dispute' \in [status : DisputeStatus, appealed : SUBSET Sides]
    BY <1>1, <1>27, <2>1 DEF ResolveAppeal, Decide, ResolvedStatus, TypeOK, DisputeStatus,
       RESOLVED_DISPUTE_STATUSES
  <2>9. TypeOK'
    BY <1>1, <1>27, <2>4, <2>7, <2>8
      DEF ResolveAppeal, Decide, TypeOK, BookingStatus, money, guestRefund, admin, MoneyInv
  <2>10. res.kind = "REFUNDED" => satang = InEscrow(ledger) /\ Refunded(ledger') = TotalSatang
    BY <1>1, <2>3, <2>4, <2>5 DEF TypeOK
  <2>11. EscrowFitsStatus'
    BY <1>27, <2>4, <2>10 DEF ResolveAppeal, Decide, EscrowFitsStatus
  <2>12. status # "CANCELLED_BY_HOST"
    BY <1>1, <1>27 DEF ResolveAppeal, Rows, EscrowFitsStatus
  <2>13. HostFaultMakesGuestWhole'
    BY <1>1, <1>27, <2>10, <2>12 DEF ResolveAppeal, Decide, HostFaultMakesGuestWhole
  <2>14. UNCHANGED <<gateway, payout>>
    BY <1>27 DEF ResolveAppeal, admin
  <2> QED BY <2>2, <2>7, <2>9, <2>11, <2>13, <2>14, SettlingStep
<1>28. ASSUME RefundAfterCancel(Rows), SendRefund(Rows) PROVE BookingInv'
  BY <1>28, SendingStep DEF RefundAfterCancel
<1>29. ASSUME RefundAfterCancel(Rows), UNCHANGED <<refund, gateway>> PROVE BookingInv'
  <2>1. TypeOK'
    BY <1>1, <1>29 DEF RefundAfterCancel, TypeOK, money, guestRefund, admin
  <2>2. EscrowFitsStatus'
    BY <1>1, <1>29 DEF RefundAfterCancel, EscrowFitsStatus, Rows, money, guestRefund, admin
  <2>3. /\ UNCHANGED <<money, refund, gateway, strikes, payout>>
        /\ status' = "CANCELLED_BY_HOST" <=> status = "CANCELLED_BY_HOST"
    BY <1>29 DEF RefundAfterCancel, Rows, money, guestRefund, admin
  <2> QED BY <2>1, <2>2, <2>3, QuietStep
<1>30. ASSUME FinalizeDisputeRefund(Rows) PROVE BookingInv'
  BY <1>1, <1>30, SendingStep DEF FinalizeDisputeRefund, TypeOK
<1>31. ASSUME UNCHANGED vars PROVE BookingInv'
  BY <1>1, <1>31 DEF vars, money, guestRefund, admin, BookingInv, TypeOK, MoneyInv,
     CacheMatchesLedger, RefundRowInv, EscrowFitsStatus, RefundRowMatchesLedger,
     HostFaultMakesGuestWhole, MoneyLeavesOnce, GatewayWithinLedger
<1> QED
  BY <1>2, <1>3, <1>4, <1>5, <1>6, <1>7, <1>8, <1>9, <1>10, <1>11, <1>12, <1>13, <1>14,
     <1>15, <1>16, <1>17, <1>18, <1>19, <1>20, <1>21, <1>22, <1>23, <1>24, <1>25, <1>26,
     <1>27, <1>28, <1>29, <1>30, <1>31
  DEF Next, Clock, Sweeps, Guest, Host, Opn, Admin, Decisions, Parties, RefundAfterCancel

-----------------------------------------------------------------------------
(* Theorems                                                                  *)

\* Whatever the guest, the host, Opn, the sweeps and the admins do, in whatever
\* order, every handler leaves the rows of a booking in agreement (BookingInv).
THEOREM BookingInvariant == Spec => []BookingInv
<1>1. Init => BookingInv
  BY InitEstablishes
<1>2. BookingInv /\ [Next]_vars => BookingInv'
  BY StepKeeps
<1> QED BY <1>1, <1>2, PTL DEF Spec

\* Every variable stays in its domain: no amount of the booking turns negative
\* and the Refund row stays within the price.
THEOREM TypeCorrect == Spec => []TypeOK
<1>1. BookingInv => TypeOK
  BY DEF BookingInv
<1> QED BY <1>1, BookingInvariant, PTL

\* The escrowState cache names the bucket that holds everything in escrow, and
\* the ledger balances.
THEOREM CacheIsRight == Spec => []CacheMatchesLedger
<1>1. BookingInv => CacheMatchesLedger
  BY DEF BookingInv, MoneyInv
<1> QED BY <1>1, BookingInvariant, PTL

\* The booking status and the escrow state never contradict each other.
THEOREM StatusAndEscrowAgree == Spec => []EscrowFitsStatus
<1>1. BookingInv => EscrowFitsStatus
  BY DEF BookingInv
<1> QED BY <1>1, BookingInvariant, PTL

\* The Refund row is what the ledger refunded, also when an appeal adds to it.
THEOREM RefundsAreRight == Spec => []RefundRowMatchesLedger
<1>1. BookingInv => RefundRowMatchesLedger
  BY DEF BookingInv
<1> QED BY <1>1, BookingInvariant, PTL

\* A host at fault is struck once and gives the whole price back, whoever decides
\* it and however often: a cancellation, a dispute, its appeal.
THEOREM HostFaultIsPaidFor == Spec => []HostFaultMakesGuestWhole
<1>1. BookingInv => HostFaultMakesGuestWhole
  BY DEF BookingInv
<1> QED BY <1>1, BookingInvariant, PTL

\* No satang leaves twice: refunds and payouts stay within the charge, and the
\* Payout row exists exactly under PAID.
THEOREM MoneyIsSpentOnce == Spec => []MoneyLeavesOnce
<1>1. BookingInv => MoneyLeavesOnce
  BY DEF BookingInv
<1> QED BY <1>1, BookingInvariant, PTL

\* As long as no call of refundBookingToGuest overlaps another, Opn sends no more
\* than the ledger refunded.
THEOREM GatewayMatchesLedger == Spec => []GatewayWithinLedger
<1>1. BookingInv => GatewayWithinLedger
  BY DEF BookingInv
<1> QED BY <1>1, BookingInvariant, PTL

\* A step taken once the escrow is paid out or reversed moves no money: every
\* reducer event that any handler would apply is refused.
LEMMA SpentStep ==
  ASSUME escrow \in {"PAID", "REVERSED"}, [Next]_vars
  PROVE  UNCHANGED money
<1>1. /\ ~RecordCharge /\ ~Release /\ ~Freeze(CurrentPosition) /\ ~Pay(CurrentPosition)
      /\ \A satang : ~Settle(CurrentPosition, satang)
  BY DEF RecordCharge, Release, Freeze, Pay, Settle, ChargeOk, ReleaseOk, FreezeOk, PayOk,
     SettleOk, FREEZABLE, CurrentPosition
<1>2. Rows.escrow = escrow /\ escrow # "HELD" /\ escrow \notin FREEZABLE
  BY DEF Rows, FREEZABLE
<1>3. CASE Clock \/ UNCHANGED vars
  BY <1>3 DEF Clock, TimerElapses, StayAdvances, vars
<1>4. CASE Sweeps
  BY <1>2, <1>4 DEF Sweeps, Expire, CheckIn, Complete
<1>5. CASE Guest
  BY <1>1, <1>5 DEF Guest, Request, InstantHold, CancelByGuest, OpenDispute, DisputeOpened,
     RefundAfterCancel
<1>6. CASE Host
  BY <1>1, <1>6 DEF Host, Accept, Decline, CancelByHost
<1>7. CASE Opn
  BY <1>1, <1>7 DEF Opn, ConfirmFromWebhook
<1>8. CASE Admin
  <2>1. CASE Decisions
    BY <1>1, <2>1 DEF Decisions, ResolveDispute, ResolveAppeal
  <2>2. CASE FinalizeDisputeRefund(Rows) \/ MarkPaid(Rows, CurrentPosition)
             \/ PlaceHold \/ ReleaseHold
    BY <1>1, <2>2 DEF FinalizeDisputeRefund, MarkPaid, PlaceHold, ReleaseHold
  <2>3. ASSUME NEW k \in Reports,
               \/ AcceptIntoReview(Rows, CurrentPosition, k)
               \/ CloseReport(Rows, k)
               \/ EscalateToDispute(Rows, k)
        PROVE  UNCHANGED money
    BY <1>1, <1>2, <2>3 DEF AcceptIntoReview, CloseReport, EscalateToDispute, DisputeOpened
  <2> QED BY <1>8, <2>1, <2>2, <2>3 DEF Admin
<1>9. CASE Parties
  BY <1>1, <1>9 DEF Parties, AppealDispute, CreateBookingReport
<1> QED BY <1>3, <1>4, <1>5, <1>6, <1>7, <1>8, <1>9 DEF Next

\* PAID and REVERSED are final for every price, report and webhook event.
THEOREM SpentEscrowStaysSpent == Spec => SpentEscrowIsFinal
<1>1. [Next]_vars => [(escrow \in {"PAID", "REVERSED"}) => UNCHANGED money]_vars
  BY SpentStep
<1> QED BY <1>1, PTL DEF Spec, SpentEscrowIsFinal

-----------------------------------------------------------------------------
(* The transition table                                                      *)

\* Only a stay in dispute, or one whose dispute was decided, has a Dispute row.
DisputeFollowsStay ==
  dispute.status # "NONE" => status \in {"DISPUTED", "COMPLETED", "CANCELLED_BY_HOST"}

GraphInv == BookingInv /\ DisputeFollowsStay

\* Every handler walks along an edge of the table; an appeal is decided only for a
\* stay that is over, since a booking with a Dispute row never goes back.
LEMMA GraphStep ==
  ASSUME GraphInv, [Next]_vars
  PROVE  /\ DisputeFollowsStay'
         /\ status' # status => <<status, status'>> \in DocumentedSteps
<1> DEFINE Goal == /\ DisputeFollowsStay'
                   /\ status' # status => <<status, status'>> \in DocumentedSteps
<1>1. /\ dispute.status # "NONE" => status \in {"DISPUTED", "COMPLETED", "CANCELLED_BY_HOST"}
      /\ status = "CANCELLED_BY_HOST" => escrow = "REVERSED"
      /\ Rows.status = status /\ Rows.dispute = dispute /\ Rows.escrow = escrow
  BY DEF GraphInv, BookingInv, EscrowFitsStatus, DisputeFollowsStay, Rows
<1>2. CASE UNCHANGED <<status, dispute>>
  BY <1>2, <1>1 DEF DisputeFollowsStay
<1>3. CASE Clock \/ UNCHANGED vars
  BY <1>2, <1>3 DEF Clock, TimerElapses, StayAdvances, vars
<1>4. CASE Sweeps
  BY <1>1, <1>4 DEF Sweeps, Expire, CheckIn, Complete, DisputeFollowsStay, DocumentedSteps
<1>5. CASE Guest
  <2>1. CASE Request \/ InstantHold
    BY <1>1, <2>1 DEF Request, InstantHold, DisputeFollowsStay, DocumentedSteps
  <2>2. CASE \E tier \in CancellationTier, d \in LeadDays : CancelByGuest(Rows, tier, d)
    BY <1>1, <2>2 DEF CancelByGuest, DisputeFollowsStay, DocumentedSteps
  <2>3. CASE OpenDispute(Rows)
    BY <1>1, <2>3 DEF OpenDispute, DisputeOpened, DisputeFollowsStay, DocumentedSteps
  <2>4. CASE RefundAfterCancel(Rows)
    BY <1>2, <2>4 DEF RefundAfterCancel
  <2> QED BY <1>5, <2>1, <2>2, <2>3, <2>4 DEF Guest
<1>6. CASE Host
  BY <1>1, <1>6 DEF Host, Accept, Decline, CancelByHost, DisputeFollowsStay, DocumentedSteps
<1>7. CASE Opn
  BY <1>1, <1>7 DEF Opn, ConfirmFromWebhook, DisputeFollowsStay, DocumentedSteps
<1>8. CASE Admin
  <2>1. ASSUME NEW res \in DisputeResolution,
               \/ ResolveDispute(Rows, CurrentPosition, res)
               \/ ResolveAppeal(Rows, CurrentPosition, res)
        PROVE  Goal
    <3>1. Decide(res) /\ status \in {"DISPUTED", "COMPLETED"}
      BY <1>1, <2>1 DEF ResolveDispute, ResolveAppeal
    <3> QED BY <3>1 DEF Decide, DisputeFollowsStay, DocumentedSteps
  <2>2. CASE FinalizeDisputeRefund(Rows) \/ MarkPaid(Rows, CurrentPosition)
             \/ PlaceHold \/ ReleaseHold
    BY <1>2, <2>2 DEF FinalizeDisputeRefund, MarkPaid, PlaceHold, ReleaseHold
  <2>3. ASSUME NEW k \in Reports,
               AcceptIntoReview(Rows, CurrentPosition, k) \/ CloseReport(Rows, k)
        PROVE  Goal
    BY <1>2, <2>3 DEF AcceptIntoReview, CloseReport
  <2>4. ASSUME NEW k \in Reports, EscalateToDispute(Rows, k)
        PROVE  Goal
    BY <1>1, <2>4 DEF EscalateToDispute, DisputeOpened, DisputeFollowsStay, DocumentedSteps
  <2> QED BY <1>8, <2>1, <2>2, <2>3, <2>4 DEF Admin, Decisions
<1>9. CASE \E k \in Reports : CreateBookingReport(k)
  BY <1>2, <1>9 DEF CreateBookingReport
<1>10. CASE \E side \in Sides : AppealDispute(Rows, CurrentPosition, side)
  <2>1. PICK side \in Sides : AppealDispute(Rows, CurrentPosition, side)
    BY <1>10
  <2>2. status' = status /\ dispute.status # "NONE"
    BY <1>1, <2>1 DEF AppealDispute, RESOLVED_DISPUTE_STATUSES
  <2> QED BY <1>1, <2>2 DEF DisputeFollowsStay
<1> QED BY <1>3, <1>4, <1>5, <1>6, <1>7, <1>8, <1>9, <1>10 DEF Next, Parties

\* The booking follows the documented transition table, for every price, every lead
\* time and every order of the handlers, appeals included.
THEOREM BookingFollowsTable == Spec => StatusGraph
<1>1. Init => GraphInv
  BY InitEstablishes DEF GraphInv, DisputeFollowsStay, Init
<1>2. GraphInv /\ [Next]_vars => GraphInv'
  BY StepKeeps, GraphStep DEF GraphInv
<1>3. GraphInv /\ [Next]_vars => [status' # status => <<status, status'>> \in DocumentedSteps]_vars
  BY GraphStep
<1> QED BY <1>1, <1>2, <1>3, PTL DEF Spec, StatusGraph

-----------------------------------------------------------------------------
(* Booking implements EscrowPromise: each handler makes at most one move of  *)
(* the write layer, and each move is one the promise allows or one it does   *)
(* not see (a release stays within escrow).                                  *)

\* What a handler may do to the money.
Move ==
  \/ RecordCharge \/ Release \/ Freeze(CurrentPosition) \/ Pay(CurrentPosition)
  \/ \E satang : Settle(CurrentPosition, satang)
  \/ UNCHANGED money

\* What the promise sees of a state in which the rows agree.
SeenMoney ==
  /\ InEscrow(ledger) \in Int /\ Refunded(ledger) \in Int /\ PaidOut(ledger) \in Int
  /\ Refunded(ledger) >= 0 /\ PaidOut(ledger) >= 0
  /\ InEscrow(ledger) + Refunded(ledger) + PaidOut(ledger)
       = IF escrow = "NONE" THEN 0 ELSE TotalSatang
  /\ escrow # "PAID" => PaidOut(ledger) = 0
  /\ IF escrow \in {"HELD", "RELEASABLE", "FROZEN"} THEN InEscrow(ledger) > 0
     ELSE InEscrow(ledger) = 0

LEMMA MoneyIsSeen == MoneyInv => SeenMoney
<1> SUFFICES ASSUME MoneyInv PROVE SeenMoney
  OBVIOUS
<1>1. /\ ledger["NONE"] \in Int /\ ledger["HELD"] \in Int /\ ledger["RELEASABLE"] \in Int
      /\ ledger["FROZEN"] \in Int /\ ledger["PAID"] \in Int /\ ledger["REVERSED"] \in Int
      /\ TotalSatang \in Int
  BY MoneyByBucket, AmountsAssumption DEF EscrowState
<1>2. ledger["REVERSED"] >= 0 /\ ledger["PAID"] >= 0
  BY MoneyByBucket
<1>3. ledger["HELD"] + ledger["RELEASABLE"] + ledger["FROZEN"]
        + ledger["REVERSED"] + ledger["PAID"] = IF escrow = "NONE" THEN 0 ELSE TotalSatang
  <2>1. ledger["NONE"] = IF escrow = "NONE" THEN 0 ELSE 0 - TotalSatang
    BY MoneyByBucket
  <2>2. ledger["HELD"] + ledger["RELEASABLE"] + ledger["FROZEN"]
          + ledger["REVERSED"] + ledger["PAID"] + ledger["NONE"] = 0
    BY MoneyByBucket
  <2>3. CASE escrow = "NONE"
    BY <1>1, <2>1, <2>2, <2>3
  <2>4. CASE escrow # "NONE"
    BY <1>1, <2>1, <2>2, <2>4
  <2> QED BY <2>3, <2>4
<1>4. escrow # "PAID" => ledger["PAID"] = 0
  BY <1>1, <1>2, MoneyByBucket
<1>5. IF escrow \in {"HELD", "RELEASABLE", "FROZEN"}
        THEN ledger["HELD"] + ledger["RELEASABLE"] + ledger["FROZEN"] > 0
        ELSE ledger["HELD"] + ledger["RELEASABLE"] + ledger["FROZEN"] = 0
  BY <1>1, MoneyByBucket
<1> QED BY <1>1, <1>2, <1>3, <1>4, <1>5 DEF SeenMoney, InEscrow, Refunded, PaidOut

\* Every step is at most one move of the write layer.
LEMMA StepMoves ==
  ASSUME [Next]_vars
  PROVE  Move
<1>1. CASE Clock \/ UNCHANGED vars
  BY <1>1 DEF Clock, TimerElapses, StayAdvances, vars, Move
<1>2. CASE Sweeps
  BY <1>2 DEF Sweeps, Expire, CheckIn, Complete, Move
<1>3. CASE Guest
  BY <1>3 DEF Guest, Request, InstantHold, CancelByGuest, OpenDispute, DisputeOpened,
     RefundAfterCancel, SendRefund, Move
<1>4. CASE Host
  BY <1>4 DEF Host, Accept, Decline, CancelByHost, Move
<1>5. CASE Opn
  BY <1>5 DEF Opn, ConfirmFromWebhook, Move
<1>6. CASE Admin
  <2>1. CASE Decisions
    BY <2>1 DEF Decisions, ResolveDispute, ResolveAppeal, Move
  <2>2. CASE FinalizeDisputeRefund(Rows) \/ MarkPaid(Rows, CurrentPosition)
             \/ PlaceHold \/ ReleaseHold
    BY <2>2 DEF FinalizeDisputeRefund, SendRefund, MarkPaid, PlaceHold, ReleaseHold, Move
  <2>3. ASSUME NEW k \in Reports,
               \/ AcceptIntoReview(Rows, CurrentPosition, k)
               \/ CloseReport(Rows, k)
               \/ EscalateToDispute(Rows, k)
        PROVE  Move
    BY <2>3 DEF AcceptIntoReview, CloseReport, EscalateToDispute, DisputeOpened, Move
  <2> QED BY <1>6, <2>1, <2>2, <2>3 DEF Admin
<1>7. CASE Parties
  BY <1>7 DEF Parties, AppealDispute, CreateBookingReport, Move
<1> QED BY <1>1, <1>2, <1>3, <1>4, <1>5, <1>6, <1>7 DEF Next

\* Every move is one that the promise allows, or one that it does not see.
LEMMA MovePromised ==
  ASSUME MoneyInv, Move
  PROVE  [Promise!PromiseNext]_Promise!promise
<1> USE DEF Promise!promise
<1>1. SeenMoney
  BY MoneyIsSeen
<1>2. MoneyInv' => SeenMoney'
  BY MoneyIsSeen, PTL
<1>3. TotalSatang \in Int /\ TotalSatang > 0
  BY AmountsAssumption
<1>4. CASE RecordCharge
  <2>1. escrow = "NONE" /\ escrow' = "HELD" /\ Refunded(ledger') = Refunded(ledger) /\ MoneyInv'
    BY <1>4, ChargeKeepsMoney
  <2>2. /\ InEscrow(ledger) = 0 /\ Refunded(ledger) = 0 /\ PaidOut(ledger) = 0
    BY <1>1, <2>1 DEF SeenMoney
  <2>3. /\ InEscrow(ledger') = TotalSatang /\ Refunded(ledger') = 0 /\ PaidOut(ledger') = 0
    BY <1>2, <1>3, <2>1, <2>2 DEF SeenMoney
  <2>4. Promise!Take
    BY <2>1, <2>2, <2>3 DEF Promise!Take
  <2> QED BY <2>4 DEF Promise!PromiseNext
<1>5. CASE Release
  <2>1. /\ escrow = "HELD" /\ escrow' = "RELEASABLE"
        /\ Refunded(ledger') = Refunded(ledger) /\ MoneyInv'
    BY <1>5, ReleaseKeepsMoney
  <2>2. InEscrow(ledger') = InEscrow(ledger) /\ PaidOut(ledger') = PaidOut(ledger)
    BY <1>1, <1>2, <1>3, <2>1 DEF SeenMoney
  <2> QED BY <2>1, <2>2
<1>6. CASE Freeze(CurrentPosition)
  <2>1. /\ escrow \in FREEZABLE /\ escrow' = "FROZEN"
        /\ Refunded(ledger') = Refunded(ledger) /\ MoneyInv'
    BY <1>6, FreezeKeepsMoney
  <2>2. escrow \in {"HELD", "RELEASABLE"}
    BY <2>1 DEF FREEZABLE
  <2>3. InEscrow(ledger) > 0 /\ InEscrow(ledger') = InEscrow(ledger) /\ PaidOut(ledger') = PaidOut(ledger)
    BY <1>1, <1>2, <1>3, <2>1, <2>2 DEF SeenMoney
  <2>4. Promise!Withhold
    BY <2>1, <2>2, <2>3 DEF Promise!Withhold
  <2> QED BY <2>4 DEF Promise!PromiseNext
<1>7. CASE Pay(CurrentPosition)
  <2>1. /\ escrow = "RELEASABLE" /\ escrow' = "PAID"
        /\ Refunded(ledger') = Refunded(ledger) /\ MoneyInv'
    BY <1>7, PayKeepsMoney
  <2>2. InEscrow(ledger) > 0 /\ InEscrow(ledger') = 0 /\ PaidOut(ledger') = InEscrow(ledger)
    BY <1>1, <1>2, <1>3, <2>1 DEF SeenMoney
  <2>3. Promise!PayOut
    BY <2>1, <2>2 DEF Promise!PayOut
  <2> QED BY <2>3 DEF Promise!PromiseNext
<1>8. ASSUME NEW satang, Settle(CurrentPosition, satang)
      PROVE  Promise!PromiseNext
  <2>1. /\ MoneyInv' /\ Refunded(ledger') = Refunded(ledger) + satang
        /\ InEscrow(ledger) \in Int /\ satang \in 0..InEscrow(ledger)
        /\ escrow \in {"HELD", "FROZEN"} /\ escrow' \in {"REVERSED", "RELEASABLE"}
    BY <1>8, SettleKeepsMoney
  <2>2. /\ InEscrow(ledger) > 0 /\ InEscrow(ledger') = InEscrow(ledger) - satang
        /\ PaidOut(ledger') = PaidOut(ledger)
    BY <1>1, <1>2, <1>3, <2>1 DEF SeenMoney
  <2>3. Promise!GiveBack(satang)
    BY <2>1, <2>2 DEF Promise!GiveBack
  <2> QED BY <2>1, <2>3 DEF Promise!PromiseNext
<1>9. CASE UNCHANGED money
  BY <1>9 DEF money
<1> QED BY <1>4, <1>5, <1>6, <1>7, <1>8, <1>9 DEF Move

LEMMA PromiseStarts == Init => Promise!PromiseInit
BY DEF Init, Promise!PromiseInit, InEscrow, Refunded, PaidOut, EMPTY_BUCKETS, EscrowState

\* The handlers keep the promise about the guest's money, for every price and every
\* order of guest, host, sweeps, webhook, reports and admins: Booking implements
\* EscrowPromise under the mapping that reads the log and the cached state.
THEOREM BookingKeepsPromise == Spec => PromiseKept
<1>1. Init => Promise!PromiseInit
  BY PromiseStarts
<1>2. BookingInv /\ [Next]_vars => [Promise!PromiseNext]_Promise!promise
  <2> SUFFICES ASSUME BookingInv, [Next]_vars
               PROVE  [Promise!PromiseNext]_Promise!promise
    OBVIOUS
  <2>1. MoneyInv
    BY DEF BookingInv
  <2>2. Move
    BY StepMoves
  <2> QED BY <2>1, <2>2, MovePromised
<1> QED BY <1>1, <1>2, BookingInvariant, PTL DEF Spec, PromiseKept, Promise!PromiseSpec

-----------------------------------------------------------------------------
(* The pages: what they offer is taken, and what is due is offered.  Both    *)
(* need more than BookingInv says: why money is frozen, and where a booking  *)
(* with an open dispute or with a Refund row stands.                         *)

FrozenFor ==
  \/ dispute.status = "OPEN"
  \/ dispute.status # "NONE" /\ dispute.appealed # {}
  \/ UnderReport

ScreenInv ==
  /\ dispute.status = "OPEN" => status = "DISPUTED"
  /\ refund.exists => status \in {"COMPLETED", "CANCELLED_BY_GUEST", "CANCELLED_BY_HOST"}
  /\ escrow = "FROZEN" => FrozenFor

\* A report that was accepted or closed stays so.
LEMMA UnderReportStays ==
  ASSUME TypeOK, UnderReport, [Next]_vars
  PROVE  UnderReport'
<1>1. PICK k \in Reports : report[k] \in {"IN_REVIEW", "CLOSED"}
  BY DEF UnderReport
<1>2. Rows.report = report /\ report \in [Reports -> ReportStatus]
  BY DEF Rows, TypeOK
<1>3. report'[k] \in {"IN_REVIEW", "CLOSED"}
  <2>1. CASE UNCHANGED report
    BY <1>1, <2>1
  <2>2. ASSUME NEW j \in Reports,
               \/ AcceptIntoReview(Rows, CurrentPosition, j) \/ CloseReport(Rows, j)
               \/ EscalateToDispute(Rows, j) \/ CreateBookingReport(j)
        PROVE  report'[k] \in {"IN_REVIEW", "CLOSED"}
    <3>1. PICK v \in {"IN_REVIEW", "CLOSED", "RECEIVED"} :
            /\ report' = [report EXCEPT ![j] = v]
            /\ v = "RECEIVED" => report[j] = "NONE"
      BY <2>2 DEF AcceptIntoReview, CloseReport, EscalateToDispute, CreateBookingReport
    <3> QED BY <1>1, <1>2, <3>1
  <2>3. \/ UNCHANGED report
        \/ \E j \in Reports :
             \/ AcceptIntoReview(Rows, CurrentPosition, j) \/ CloseReport(Rows, j)
             \/ EscalateToDispute(Rows, j) \/ CreateBookingReport(j)
    <3>1. CASE Clock \/ UNCHANGED vars
      BY <3>1 DEF Clock, TimerElapses, StayAdvances, vars, admin
    <3>2. CASE Sweeps \/ Host \/ Opn
      BY <3>2 DEF Sweeps, Expire, CheckIn, Complete, Host, Accept, Decline, CancelByHost,
         Opn, ConfirmFromWebhook, admin
    <3>3. CASE Guest
      BY <3>3 DEF Guest, Request, InstantHold, CancelByGuest, OpenDispute, RefundAfterCancel, admin
    <3>4. CASE Admin
      BY <3>4 DEF Admin, Decisions, ResolveDispute, ResolveAppeal, FinalizeDisputeRefund,
         MarkPaid, PlaceHold, ReleaseHold, admin
    <3>5. CASE Parties
      BY <3>5 DEF Parties, AppealDispute, admin
    <3> QED BY <3>1, <3>2, <3>3, <3>4, <3>5 DEF Next
  <2> QED BY <2>1, <2>2, <2>3
<1> QED BY <1>3 DEF UnderReport

LEMMA ScreenStep ==
  ASSUME GraphInv, ScreenInv, [Next]_vars
  PROVE  ScreenInv'
<1>1. /\ TypeOK /\ EscrowFitsStatus
      /\ dispute.status = "OPEN" => status = "DISPUTED"
      /\ refund.exists => status \in {"COMPLETED", "CANCELLED_BY_GUEST", "CANCELLED_BY_HOST"}
      /\ escrow = "FROZEN" => FrozenFor
      /\ dispute.status # "NONE" => status \in {"DISPUTED", "COMPLETED", "CANCELLED_BY_HOST"}
      /\ refund \in [exists : BOOLEAN, satang : 0..TotalSatang, sent : BOOLEAN]
      /\ dispute \in [status : DisputeStatus, appealed : SUBSET Sides]
      /\ report \in [Reports -> ReportStatus]
      /\ Rows.status = status /\ Rows.dispute = dispute /\ Rows.escrow = escrow
      /\ Rows.refund = refund /\ Rows.report = report
      /\ CurrentPosition.state = escrow
  BY DEF GraphInv, BookingInv, TypeOK, ScreenInv, DisputeFollowsStay, Rows, CurrentPosition
<1>2. UnderReport => UnderReport'
  BY <1>1, UnderReportStays
<1>3. CASE UNCHANGED <<status, refund, dispute>> /\ (UNCHANGED escrow \/ escrow' # "FROZEN")
  BY <1>1, <1>2, <1>3 DEF ScreenInv, FrozenFor
<1>4. CASE Clock \/ UNCHANGED vars
  BY <1>3, <1>4 DEF Clock, TimerElapses, StayAdvances, vars, money, guestRefund
<1>5. CASE Sweeps
  BY <1>1, <1>2, <1>5 DEF Sweeps, Expire, CheckIn, Complete, Release, ScreenInv, FrozenFor, money, guestRefund
<1>6. CASE Guest
  <2>1. CASE Request \/ InstantHold
    BY <1>1, <1>2, <2>1 DEF Request, InstantHold, ScreenInv, FrozenFor, money, guestRefund
  <2>2. ASSUME NEW tier \in CancellationTier, NEW d \in LeadDays, CancelByGuest(Rows, tier, d)
        PROVE  ScreenInv'
    <3>1. /\ UNCHANGED dispute /\ status' = "CANCELLED_BY_GUEST"
          /\ status \in {"REQUESTED", "AWAITING_PAYMENT", "CONFIRMED"}
      BY <1>1, <2>2 DEF CancelByGuest
    <3>2. UNCHANGED escrow \/ escrow' \in {"RELEASABLE", "REVERSED"}
      BY <2>2 DEF CancelByGuest, Settle, SettledState, money
    <3> QED BY <1>1, <1>2, <3>1, <3>2 DEF ScreenInv, FrozenFor
  <2>3. CASE OpenDispute(Rows)
    <3>1. /\ UNCHANGED refund /\ status' = "DISPUTED" /\ dispute'.status = "OPEN"
          /\ status = "CHECKED_IN"
      BY <1>1, <2>3 DEF OpenDispute, DisputeOpened, guestRefund
    <3> QED BY <1>1, <3>1 DEF ScreenInv, FrozenFor
  <2>4. CASE RefundAfterCancel(Rows)
    <3>1. UNCHANGED <<status, escrow, dispute>>
      BY <2>4 DEF RefundAfterCancel, money
    <3>2. refund'.exists = refund.exists
      BY <1>1, <2>4 DEF RefundAfterCancel, SendRefund
    <3> QED BY <1>1, <1>2, <3>1, <3>2 DEF ScreenInv, FrozenFor
  <2> QED BY <1>6, <2>1, <2>2, <2>3, <2>4 DEF Guest
<1>7. CASE Host
  <2>1. CASE Accept(Rows) \/ Decline(Rows)
    BY <1>1, <1>2, <2>1 DEF Accept, Decline, ScreenInv, FrozenFor, money, guestRefund
  <2>2. CASE CancelByHost(Rows)
    <3>1. UNCHANGED dispute /\ status = "CONFIRMED" /\ status' = "CANCELLED_BY_HOST"
      BY <1>1, <2>2 DEF CancelByHost
    <3>2. escrow' \in {"RELEASABLE", "REVERSED"}
      BY <2>2 DEF CancelByHost, Settle, SettledState
    <3> QED BY <1>1, <3>1, <3>2 DEF ScreenInv
  <2> QED BY <1>7, <2>1, <2>2 DEF Host
<1>8. CASE Opn
  <2>1. /\ UNCHANGED <<dispute, refund>> /\ status = "AWAITING_PAYMENT"
        /\ status' = "CONFIRMED" /\ escrow' = "HELD"
    BY <1>1, <1>8 DEF Opn, ConfirmFromWebhook, RecordCharge, guestRefund
  <2> QED BY <1>1, <2>1 DEF ScreenInv
<1>9. CASE Admin
  <2>1. ASSUME NEW res \in DisputeResolution,
               \/ ResolveDispute(Rows, CurrentPosition, res)
               \/ ResolveAppeal(Rows, CurrentPosition, res)
        PROVE  ScreenInv'
    <3>1. Decide(res) /\ (\E satang : Settle(CurrentPosition, satang))
      BY <2>1 DEF ResolveDispute, ResolveAppeal
    <3>2. /\ status' \in {"COMPLETED", "CANCELLED_BY_HOST"}
          /\ escrow' \in {"RELEASABLE", "REVERSED"}
      BY <3>1 DEF Decide, Settle, SettledState
    <3>3. dispute'.status = ResolvedStatus(res)
      BY <1>1, <3>1 DEF Decide
    <3>4. res.kind \in {"RELEASED", "PARTIAL", "REFUNDED"}
      BY DEF DisputeResolution
    <3>5. dispute'.status # "OPEN"
      BY <3>3, <3>4 DEF ResolvedStatus
    <3> QED BY <3>2, <3>5 DEF ScreenInv
  <2>2. CASE FinalizeDisputeRefund(Rows)
    <3>1. UNCHANGED <<status, escrow, dispute>> /\ refund'.exists = refund.exists
      BY <1>1, <2>2 DEF FinalizeDisputeRefund, SendRefund, money
    <3> QED BY <1>1, <1>2, <3>1 DEF ScreenInv, FrozenFor
  <2>3. CASE MarkPaid(Rows, CurrentPosition) \/ PlaceHold \/ ReleaseHold
    BY <1>3, <2>3 DEF MarkPaid, Pay, PlaceHold, ReleaseHold, money, guestRefund
  <2>4. ASSUME NEW k \in Reports, AcceptIntoReview(Rows, CurrentPosition, k)
        PROVE  ScreenInv'
    <3>1. UnderReport' /\ UNCHANGED <<status, refund, dispute>>
      BY <1>1, <2>4 DEF AcceptIntoReview, UnderReport, guestRefund
    <3> QED BY <1>1, <3>1 DEF ScreenInv, FrozenFor
  <2>5. ASSUME NEW k \in Reports, CloseReport(Rows, k)
        PROVE  ScreenInv'
    BY <1>3, <2>5 DEF CloseReport, money, guestRefund
  <2>6. ASSUME NEW k \in Reports, EscalateToDispute(Rows, k)
        PROVE  ScreenInv'
    <3>1. /\ UNCHANGED refund /\ status' = "DISPUTED" /\ dispute'.status = "OPEN"
          /\ status = "CHECKED_IN"
      BY <1>1, <2>6 DEF EscalateToDispute, DisputeOpened, guestRefund
    <3> QED BY <1>1, <3>1 DEF ScreenInv, FrozenFor
  <2> QED BY <1>9, <2>1, <2>2, <2>3, <2>4, <2>5, <2>6 DEF Admin, Decisions
<1>10. CASE Parties
  <2>1. ASSUME NEW k \in Reports, CreateBookingReport(k)
        PROVE  ScreenInv'
    BY <1>3, <2>1 DEF CreateBookingReport, money, guestRefund
  <2>2. ASSUME NEW side \in Sides, AppealDispute(Rows, CurrentPosition, side)
        PROVE  ScreenInv'
    <3>1. UNCHANGED <<status, refund>> /\ dispute' = [dispute EXCEPT !.appealed = @ \cup {side}]
      BY <2>2 DEF AppealDispute, guestRefund
    <3>2. dispute'.status = dispute.status /\ side \in dispute'.appealed
      BY <1>1, <3>1
    <3>3. dispute.status # "NONE"
      BY <1>1, <2>2 DEF AppealDispute, RESOLVED_DISPUTE_STATUSES
    <3> QED BY <1>1, <3>1, <3>2, <3>3 DEF ScreenInv, FrozenFor
  <2> QED BY <1>10, <2>1, <2>2 DEF Parties
<1> QED BY <1>4, <1>5, <1>6, <1>7, <1>8, <1>9, <1>10 DEF Next

-----------------------------------------------------------------------------
(* Under the invariants a handler whose checks pass is never rolled back.    *)

\* Before its first refund a booking has its whole price in escrow.
LEMMA FirstRefund ==
  ASSUME GraphInv, ScreenInv, status \in {"CONFIRMED", "CHECKED_IN", "DISPUTED"}
  PROVE  /\ ~refund.exists /\ escrow \in {"HELD", "FROZEN"}
         /\ CurrentPosition.amount = TotalSatang /\ TotalSatang > 0
         /\ \A satang \in 0..TotalSatang : SettleOk(CurrentPosition, satang)
<1>1. BookingInv /\ MoneyInv /\ TotalSatang \in Nat \ {0}
  BY AmountsAssumption DEF GraphInv, BookingInv
<1>2. ~refund.exists
  BY <1>1 DEF ScreenInv, BookingInv, TypeOK
<1>3. escrow \in {"HELD", "FROZEN"}
  BY <1>1 DEF BookingInv, EscrowFitsStatus
<1>4. ledger["REVERSED"] = 0
  BY <1>1, <1>2 DEF BookingInv, RefundRowInv, RefundRowMatchesLedger, Refunded
<1>5. CurrentPosition.amount = TotalSatang /\ CurrentPosition.state = escrow
  <2>1. /\ CurrentPosition.state = escrow /\ CurrentPosition.amount = ledger[escrow]
        /\ ledger[escrow] + ledger["REVERSED"] = TotalSatang
    BY <1>1, <1>3, PositionIsBucket
  <2>2. ledger[escrow] \in Int
    BY <1>1, <1>3, MoneyByBucket DEF EscrowState
  <2> QED BY <1>4, <2>1, <2>2
<1>6. \A satang \in 0..TotalSatang : SettleOk(CurrentPosition, satang)
  BY <1>1, <1>3, <1>5 DEF SettleOk
<1> QED BY <1>1, <1>2, <1>3, <1>5, <1>6

\* What a decision gives the guest lies in the pot.
LEMMA ShareInPot ==
  ASSUME NEW pot \in Nat, NEW res \in DisputeResolution
  PROVE  GuestShare(pot, res) \in 0..pot
<1>1. CASE res.kind = "RELEASED"
  BY <1>1 DEF GuestShare
<1>2. CASE res.kind = "REFUNDED"
  BY <1>2 DEF GuestShare
<1>3. CASE res.kind = "PARTIAL"
  <2>1. res.pct \in Int
    BY <1>3, ChoicesAssumption DEF DisputeResolution
  <2> QED BY <1>3, <2>1, RefundInRange DEF GuestShare
<1> QED BY <1>1, <1>2, <1>3 DEF DisputeResolution

LEMMA CancelIsTaken ==
  ASSUME GraphInv, ScreenInv, status \in Pending \cup {"CONFIRMED"}
  PROVE  CancelTaken
<1>1. ASSUME status = "CONFIRMED", NEW tier \in CancellationTier, NEW d \in LeadDays
      PROVE  FirstRefundOk(RefundSatangForPct(TotalSatang, GuestRefundPct(tier, d)))
  <2>1. d \in Int /\ TotalSatang \in Nat
    BY ChoicesAssumption, AmountsAssumption DEF LeadDays
  <2>2. GuestRefundPct(tier, d) \in {0, 50, 100}
    BY <2>1 DEF GuestRefundPct, CancellationTier
  <2>3. GuestRefundPct(tier, d) \in Int
    BY <2>2
  <2>4. RefundSatangForPct(TotalSatang, GuestRefundPct(tier, d)) \in 0..TotalSatang
    BY <2>1, <2>3, RefundInRange
  <2> QED BY <1>1, <2>4, FirstRefund DEF FirstRefundOk
<1> QED BY <1>1 DEF CancelTaken

\* A host's cancellation gives back the whole price.
LEMMA HostCancelIsTaken ==
  ASSUME GraphInv, ScreenInv, status = "CONFIRMED"
  PROVE  FirstRefundOk(TotalSatang)
<1>1. TotalSatang \in 0..TotalSatang
  BY AmountsAssumption
<1> QED BY <1>1, FirstRefund DEF FirstRefundOk

LEMMA DisputeIsTaken ==
  ASSUME GraphInv, ScreenInv, status = "CHECKED_IN", ~UnderReport
  PROVE  DisputeTaken
<1>1. dispute.status = "NONE"
  BY DEF GraphInv, DisputeFollowsStay
<1>2. escrow = "HELD"
  BY <1>1, FirstRefund DEF ScreenInv, FrozenFor
<1> QED BY <1>1, <1>2 DEF DisputeTaken, FreezeOk, FREEZABLE, CurrentPosition

LEMMA AppealIsTaken ==
  ASSUME GraphInv, ScreenInv, dispute.status \in RESOLVED_DISPUTE_STATUSES,
         "GUEST" \notin dispute.appealed, ~MoneyMovedOn
  PROVE  AppealTaken
<1>1. /\ dispute.status \notin {"NONE", "OPEN"}
      /\ escrow \notin {"PAID", "REVERSED"} /\ ~refund.sent
      /\ ~UnderReport /\ dispute.appealed = {}
  BY DEF MoneyMovedOn, RESOLVED_DISPUTE_STATUSES
<1>2. escrow # "FROZEN"
  BY <1>1 DEF ScreenInv, FrozenFor
<1>3. escrow \in {"RELEASABLE", "FROZEN", "PAID", "REVERSED"}
  BY <1>1 DEF GraphInv, DisputeFollowsStay, BookingInv, EscrowFitsStatus
<1> QED BY <1>1, <1>2, <1>3 DEF AppealTaken, FreezeOk, FREEZABLE, CurrentPosition

\* Every verdict on an open dispute goes through.
LEMMA ResolveIsTaken ==
  ASSUME GraphInv, ScreenInv, dispute.status = "OPEN"
  PROVE  /\ status = "DISPUTED" /\ escrow = "FROZEN"
         /\ \A res \in DisputeResolution : ResolveTaken(res)
<1>1. status = "DISPUTED"
  BY DEF ScreenInv
<1>2. escrow = "FROZEN"
  BY <1>1 DEF GraphInv, BookingInv, EscrowFitsStatus
<1>3. ASSUME NEW res \in DisputeResolution
      PROVE  SettleOk(CurrentPosition, GuestShare(TotalSatang, res))
  BY <1>1, FirstRefund, ShareInPot, AmountsAssumption
<1> QED BY <1>1, <1>2, <1>3, FirstRefund DEF ResolveTaken

\* And so does every verdict on a frozen pot.
LEMMA ReResolveIsTaken ==
  ASSUME GraphInv, ScreenInv, dispute.status # "NONE", escrow = "FROZEN"
  PROVE  \A res \in DisputeResolution : ReResolveTaken(res)
<1>1. MoneyInv
  BY DEF GraphInv, BookingInv
<1>2. InEscrow(ledger) = ledger["FROZEN"] /\ ledger["FROZEN"] > 0 /\ ledger["FROZEN"] \in Int
  BY <1>1, PositionIsBucket, MoneyByBucket DEF EscrowState
<1>3. ASSUME NEW res \in DisputeResolution
      PROVE  SettleOk(CurrentPosition, GuestShare(InEscrow(ledger), res))
  <2>1. GuestShare(InEscrow(ledger), res) \in 0..InEscrow(ledger)
    BY <1>2, ShareInPot
  <2> QED BY <1>2, <2>1 DEF SettleOk, CurrentPosition
<1> QED BY <1>3 DEF ReResolveTaken

\* Opn has not refunded anything before the one call the Refund row allows.
LEMMA FinalizeIsTaken ==
  ASSUME GraphInv, dispute.status \notin {"NONE", "OPEN"}, escrow # "FROZEN",
         refund.satang > 0, ~refund.sent
  PROVE  FinalizeTaken
<1>1. gateway = 0 /\ refund.satang \in 0..TotalSatang
  BY DEF GraphInv, BookingInv, RefundRowInv, TypeOK
<1> QED BY <1>1, AmountsAssumption DEF FinalizeTaken, OpnAccepts

-----------------------------------------------------------------------------
(* Offers are taken.                                                         *)

\* The pages side by side with the rows: which state offers which button.
LEMMA OfferedWhen ==
  ASSUME NEW k \in Reports,
         NEW b \in GuestButtons(Rows) \cup HostButtons(Rows) \cup AdminButtons(Rows, k)
  PROVE  \/ b \in {"withdraw", "cancel"} /\ status \in Pending \cup {"CONFIRMED"}
         \/ b = "dispute" /\ status = "CHECKED_IN" /\ dispute.status = "NONE"
         \/ b = "appeal" /\ dispute.status \in RESOLVED_DISPUTE_STATUSES
              /\ "GUEST" \notin dispute.appealed
         \/ b \in {"accept", "decline"} /\ status = "REQUESTED"
         \/ b = "hostCancel" /\ status \in {"CONFIRMED", "CHECKED_IN"}
         \/ b = "resolveDispute" /\ dispute.status = "OPEN"
         \/ b = "resolveAppeal" /\ dispute.status # "NONE" /\ escrow = "FROZEN"
         \/ b = "finalizeRefund" /\ dispute.status \notin {"NONE", "OPEN"} /\ escrow # "FROZEN"
              /\ refund.satang > 0 /\ ~refund.sent
         \/ b \in {"markPaid", "placeHold"} /\ escrow = "RELEASABLE" /\ ~(holds > 0)
         \/ b = "releaseHold" /\ holds > 0
         \/ b = "acceptReport" /\ report[k] = "RECEIVED"
         \/ b \in {"escalate", "resolve", "dismiss"} /\ report[k] \in {"RECEIVED", "IN_REVIEW"}
<1>1. /\ Rows.status = status /\ Rows.dispute = dispute /\ Rows.escrow = escrow
      /\ Rows.refund = refund /\ Rows.report = report /\ Rows.holds = holds
  BY DEF Rows
<1>2. CASE b \in GuestButtons(Rows)
  BY <1>1, <1>2 DEF GuestButtons, TripCard, TripPage, DisputePage, Shown
<1>3. CASE b \in HostButtons(Rows)
  BY <1>1, <1>3 DEF HostButtons, HostRequests, HostBookings
<1>4. CASE b \in DisputeCasePage(Rows)
  BY <1>1, <1>4 DEF DisputeCasePage, Shown
<1>5. CASE b \in PayoutsPage(Rows)
  BY <1>1, <1>5 DEF PayoutsPage, LoadPayoutDueList
<1>6. CASE b \in ReportDetailPage(Rows, k)
  BY <1>1, <1>6 DEF ReportDetailPage, Shown
<1> QED BY <1>2, <1>3, <1>4, <1>5, <1>6 DEF AdminButtons

LEMMA OffersGoThrough ==
  ASSUME GraphInv, ScreenInv, MaxHolds > 0
  PROVE  OffersAreTaken
<1> SUFFICES ASSUME NEW k \in Reports,
                    NEW b \in GuestButtons(Rows) \cup HostButtons(Rows) \cup AdminButtons(Rows, k)
             PROVE  \/ Takes(b, k)
                    \/ b = "hostCancel" /\ status = "CHECKED_IN"
                    \/ b = "dispute" /\ UnderReport
                    \/ b = "appeal" /\ MoneyMovedOn
                    \/ b = "escalate" /\ (status # "CHECKED_IN" \/ UnderReport)
  BY DEF OffersAreTaken
<1>1. holds \in 0..MaxHolds /\ MaxHolds \in Nat
  BY ChoicesAssumption DEF GraphInv, BookingInv, TypeOK
<1>2. CASE b \in {"withdraw", "cancel"} /\ status \in Pending \cup {"CONFIRMED"}
  BY <1>2, CancelIsTaken DEF Takes
<1>3. CASE b = "dispute" /\ status = "CHECKED_IN" /\ dispute.status = "NONE"
  BY <1>3, DisputeIsTaken DEF Takes
<1>4. CASE b = "appeal" /\ dispute.status \in RESOLVED_DISPUTE_STATUSES
             /\ "GUEST" \notin dispute.appealed
  BY <1>4, AppealIsTaken DEF Takes
<1>5. CASE b \in {"accept", "decline"} /\ status = "REQUESTED"
  BY <1>5 DEF Takes
<1>6. CASE b = "hostCancel" /\ status \in {"CONFIRMED", "CHECKED_IN"}
  BY <1>6, HostCancelIsTaken DEF Takes
<1>7. CASE b = "resolveDispute" /\ dispute.status = "OPEN"
  BY <1>7, ResolveIsTaken DEF Takes
<1>8. CASE b = "resolveAppeal" /\ dispute.status # "NONE" /\ escrow = "FROZEN"
  BY <1>8, ReResolveIsTaken DEF Takes
<1>9. CASE b = "finalizeRefund" /\ dispute.status \notin {"NONE", "OPEN"} /\ escrow # "FROZEN"
             /\ refund.satang > 0 /\ ~refund.sent
  BY <1>9, FinalizeIsTaken DEF Takes
<1>10. CASE b \in {"markPaid", "placeHold"} /\ escrow = "RELEASABLE" /\ ~(holds > 0)
  <2>1. holds = 0 /\ holds < MaxHolds
    BY <1>1, <1>10
  <2>2. payout = NoPayout /\ status # "NONE"
    BY <1>10 DEF GraphInv, BookingInv, MoneyLeavesOnce, EscrowFitsStatus
  <2> QED BY <1>10, <2>1, <2>2 DEF Takes, PayOk, CurrentPosition
<1>11. CASE b = "releaseHold" /\ holds > 0
  BY <1>11 DEF Takes
<1>12. CASE b = "acceptReport" /\ report[k] = "RECEIVED"
  BY <1>12 DEF Takes
<1>13. CASE b \in {"resolve", "dismiss"} /\ report[k] \in {"RECEIVED", "IN_REVIEW"}
  BY <1>13 DEF Takes
<1>14. CASE b = "escalate" /\ report[k] \in {"RECEIVED", "IN_REVIEW"}
  BY <1>14, DisputeIsTaken DEF Takes
<1> QED
  BY OfferedWhen, <1>2, <1>3, <1>4, <1>5, <1>6, <1>7, <1>8, <1>9, <1>10, <1>11, <1>12, <1>13, <1>14

-----------------------------------------------------------------------------
(* Nothing due is hidden.                                                    *)

\* The moves a guest reaches from the card of a trip.
LEMMA GuestReaches ==
  ASSUME GraphInv
  PROVE  /\ status \in Pending => "withdraw" \in Reached(Rows)
         /\ status = "CONFIRMED" => "cancel" \in Reached(Rows)
         /\ DisputeTaken => "dispute" \in Reached(Rows)
<1>1. Rows.status = status /\ Rows.dispute = dispute
  BY DEF Rows
<1>2. status \in Pending => "withdraw" \in TripCard(Rows)
  BY <1>1 DEF TripCard, Shown
<1>3. status \in {"CONFIRMED", "CHECKED_IN"} => "open" \in TripCard(Rows)
  BY <1>1 DEF TripCard, Shown
<1>4. status = "CONFIRMED" => "cancel" \in TripPage(Rows)
  BY <1>1 DEF TripPage, Shown
<1>5. DisputeTaken => "case" \in TripPage(Rows) /\ "dispute" \in DisputePage(Rows)
  BY <1>1 DEF DisputeTaken, TripPage, DisputePage, Shown
<1> QED BY <1>2, <1>3, <1>4, <1>5 DEF Reached, DisputeTaken

\* The queue of disputes is the decisions an admin can take, one button each.
LEMMA QueueIsWork ==
  ASSUME GraphInv, ScreenInv, NEW k \in Reports
  PROVE  /\ ListOpenDisputes(Rows) <=>
              Takes("resolveDispute", k) \/ (Takes("resolveAppeal", k) /\ dispute.appealed # {})
         /\ ListOpenDisputes(Rows) =>
              \E b \in {"resolveDispute", "resolveAppeal"} : DisputeCasePage(Rows) = {b} /\ Takes(b, k)
<1>1. Rows.status = status /\ Rows.dispute = dispute /\ Rows.escrow = escrow /\ Rows.refund = refund
  BY DEF Rows
<1>2. dispute.status \in DisputeStatus
  BY DEF GraphInv, BookingInv, TypeOK
<1>3. /\ Takes("resolveDispute", k) <=> \A res \in DisputeResolution : ResolveTaken(res)
      /\ Takes("resolveAppeal", k) <=> \A res \in DisputeResolution : ReResolveTaken(res)
  BY DEF Takes
<1>4. \E res : res \in DisputeResolution
  <2>1. [kind |-> "RELEASED", pct |-> 0] \in DisputeResolution
    BY DEF DisputeResolution
  <2> QED BY <2>1
<1>5. Takes("resolveDispute", k) <=> dispute.status = "OPEN"
  BY <1>3, <1>4, ResolveIsTaken DEF ResolveTaken
<1>6. Takes("resolveAppeal", k) <=> dispute.status # "NONE" /\ escrow = "FROZEN"
  BY <1>3, <1>4, ReResolveIsTaken DEF ReResolveTaken
<1>7. ListOpenDisputes(Rows) <=>
        \/ dispute.status = "OPEN"
        \/ dispute.status \in RESOLVED_DISPUTE_STATUSES /\ dispute.appealed # {} /\ escrow = "FROZEN"
  BY <1>1 DEF ListOpenDisputes
<1>8. ASSUME dispute.status = "OPEN"
      PROVE  DisputeCasePage(Rows) = {"resolveDispute"}
  BY <1>1, <1>8 DEF DisputeCasePage, Shown
<1>9. ASSUME dispute.status \in RESOLVED_DISPUTE_STATUSES, escrow = "FROZEN"
      PROVE  DisputeCasePage(Rows) = {"resolveAppeal"}
  BY <1>1, <1>9 DEF DisputeCasePage, Shown, RESOLVED_DISPUTE_STATUSES
<1>10. dispute.status # "NONE" => dispute.status = "OPEN" \/ dispute.status \in RESOLVED_DISPUTE_STATUSES
  BY <1>2 DEF DisputeStatus
<1>11. dispute.status \in RESOLVED_DISPUTE_STATUSES => dispute.status \notin {"NONE", "OPEN"}
  BY DEF RESOLVED_DISPUTE_STATUSES
<1> QED BY <1>5, <1>6, <1>7, <1>8, <1>9, <1>10, <1>11

LEMMA DueIsShown ==
  ASSUME GraphInv, ScreenInv, CommissionSatang < TotalSatang
  PROVE  NothingDueIsHidden
<1> SUFFICES ASSUME NEW k \in Reports
             PROVE  /\ TripsTab(Rows) # "past" =>
                          \A b \in {"withdraw", "cancel", "dispute"} :
                            Takes(b, k) => b \in Reached(Rows) \/ (b \in {"withdraw", "cancel"}
                                             /\ Reached(Rows) \cap {"withdraw", "cancel"} # {})
                    /\ Takes("finalizeRefund", k) /\ dispute.status # "NONE"
                         => "finalizeRefund" \in DisputeCasePage(Rows)
                    /\ GroupTotal(Rows) > 0 <=> Takes("markPaid", k)
                    /\ escrow = "RELEASABLE" => PayoutsPage(Rows) # {}
                    /\ Takes("acceptReport", k)
                         => k \in ReportsQueue(Rows) /\ "acceptReport" \in ReportDetailPage(Rows, k)
  BY QueueIsWork DEF NothingDueIsHidden
<1>1. /\ Rows.status = status /\ Rows.dispute = dispute /\ Rows.escrow = escrow
      /\ Rows.refund = refund /\ Rows.report = report /\ Rows.holds = holds
  BY DEF Rows
<1>2. /\ Takes("withdraw", k) <=> CancelTaken
      /\ Takes("cancel", k) <=> CancelTaken
      /\ Takes("dispute", k) <=> DisputeTaken
      /\ Takes("finalizeRefund", k) <=> FinalizeTaken
      /\ Takes("markPaid", k) <=> holds = 0 /\ PayOk(CurrentPosition) /\ payout = NoPayout
      /\ Takes("acceptReport", k) <=> report[k] = "RECEIVED"
  BY DEF Takes
<1>3. CancelTaken => status \in Pending \cup {"CONFIRMED"}
  BY DEF CancelTaken
<1>4. \A b \in {"withdraw", "cancel", "dispute"} :
        Takes(b, k) => b \in Reached(Rows) \/ (b \in {"withdraw", "cancel"}
                         /\ Reached(Rows) \cap {"withdraw", "cancel"} # {})
  BY <1>2, <1>3, GuestReaches
<1>5. FinalizeTaken => "finalizeRefund" \in DisputeCasePage(Rows)
  BY <1>1 DEF FinalizeTaken, DisputeCasePage, Shown
<1>6. GroupTotal(Rows) > 0 <=> holds = 0 /\ PayOk(CurrentPosition) /\ payout = NoPayout
  <2>1. TotalSatang - CommissionSatang > 0
    BY AmountsAssumption
  <2>2. escrow = "RELEASABLE" => payout = NoPayout
    BY DEF GraphInv, BookingInv, MoneyLeavesOnce
  <2> QED BY <1>1, <2>1, <2>2 DEF GroupTotal, LoadPayoutDueList, PayOk, CurrentPosition
<1>7. escrow = "RELEASABLE" => PayoutsPage(Rows) # {}
  BY <1>1 DEF PayoutsPage, LoadPayoutDueList
<1>8. report[k] = "RECEIVED"
        => k \in ReportsQueue(Rows) /\ "acceptReport" \in ReportDetailPage(Rows, k)
  BY <1>1 DEF ReportsQueue, ReportDetailPage, Shown
<1> QED BY <1>2, <1>4, <1>5, <1>6, <1>7, <1>8

\* The invariants the two properties rest on hold of every behaviour.
LEMMA ScreenInvariant == Spec => [](GraphInv /\ ScreenInv)
<1>1. Init => GraphInv /\ ScreenInv
  BY InitEstablishes DEF GraphInv, DisputeFollowsStay, Init, ScreenInv
<1>2. GraphInv /\ ScreenInv /\ [Next]_vars => (GraphInv /\ ScreenInv)'
  BY StepKeeps, GraphStep, ScreenStep DEF GraphInv
<1> QED BY <1>1, <1>2, PTL DEF Spec

\* Whatever the price, the commission, the lead times, the verdicts and the reports:
\* a button on a page that was just loaded goes through, but in four cases: the host's
\* cancellation during the stay, a dispute under an accepted report, an appeal once the
\* money moved on, and an escalation outside the stay or under a report.
\* Manual holds are bounded by MaxHolds, which has to allow one.
THEOREM PagesOfferWhatIsTaken ==
  ASSUME MaxHolds > 0
  PROVE  Spec => []OffersAreTaken
<1>1. GraphInv /\ ScreenInv => OffersAreTaken
  BY OffersGoThrough
<1> QED BY <1>1, ScreenInvariant, PTL

\* Whatever is due has a button on a page someone reaches.  Where the commission is the
\* whole price the host is owed nothing, and the due list shows no payable total.
THEOREM DueWorkIsShown ==
  ASSUME CommissionSatang < TotalSatang
  PROVE  Spec => []NothingDueIsHidden
<1>1. GraphInv /\ ScreenInv => NothingDueIsHidden
  BY DueIsShown
<1> QED BY <1>1, ScreenInvariant, PTL
=============================================================================
