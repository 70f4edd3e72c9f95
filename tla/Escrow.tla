------------------------------- MODULE Escrow -------------------------------
(***************************************************************************)
(* The pure escrow reducer (lib/ledger/escrow.ts).                         *)
(*                                                                         *)
(* The append-only log of a booking is abstracted to its fold: a balance   *)
(* per escrow state.  Money received is what left NONE, money refunded is  *)
(* what reached REVERSED and money paid out is what reached PAID.  A       *)
(* settlement appends a refund move and a release move; the code drops a   *)
(* move of amount 0, which the fold cannot tell from appending it.         *)
(***************************************************************************)
EXTENDS Integers

EscrowState == {"NONE", "HELD", "RELEASABLE", "FROZEN", "PAID", "REVERSED"}

Ledger == [EscrowState -> Int]

EMPTY_BUCKETS == [s \in EscrowState |-> 0]

Received(b) == 0 - b["NONE"]
Refunded(b) == b["REVERSED"]
PaidOut(b)  == b["PAID"]

\* The satang a booking still has in escrow, in whichever bucket.
InEscrow(b) == b["HELD"] + b["RELEASABLE"] + b["FROZEN"]

\* foldMove: a move out of `from` and into `to`.  No total counts what leaves
\* PAID or REVERSED, nor what reaches NONE.
FoldMove(b, from, to, amount) ==
  [s \in EscrowState |->
     b[s] - (IF s = from /\ s \notin {"PAID", "REVERSED"} THEN amount ELSE 0)
          + (IF s = to /\ s # "NONE" THEN amount ELSE 0)]

\* The escrow invariant the module documents and the payout gate re-checks.
InvariantHolds(b) == InEscrow(b) = Received(b) - Refunded(b) - PaidOut(b)

-----------------------------------------------------------------------------
(* reduce(position, event): for each event, when a position accepts it and   *)
(* what the position's log and cached state become.                          *)

Position == [state : EscrowState, amount : Int]

\* Mutant: money already paid out can be frozen.
FreezablePaid == {"HELD", "RELEASABLE", "PAID"}

FREEZABLE == {"HELD", "RELEASABLE"}

\* Mutant: a charge is accepted whatever the state.
ChargeAlways(p, amount) == amount > 0

ChargeOk(p, amount) == p.state = "NONE" /\ amount > 0
ReleaseOk(p)        == p.state = "HELD"
FreezeOk(p)         == p.state \in FREEZABLE
PayOk(p)            == p.state = "RELEASABLE"
SettleOk(p, refund) ==
  p.state \in {"HELD", "FROZEN"} /\ p.amount > 0 /\ refund \in 0..p.amount

\* Mutant: the refund is not taken off what is released.
SettledTwice(b, p, refund) ==
  FoldMove(FoldMove(b, p.state, "REVERSED", refund), p.state, "RELEASABLE", p.amount)

Settled(b, p, refund) ==
  FoldMove(FoldMove(b, p.state, "REVERSED", refund),
           p.state, "RELEASABLE", p.amount - refund)

SettledState(p, refund) == IF refund < p.amount THEN "RELEASABLE" ELSE "REVERSED"
=============================================================================
