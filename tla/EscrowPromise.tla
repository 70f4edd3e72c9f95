--------------------------- MODULE EscrowPromise ----------------------------
(***************************************************************************)
(* What U-Rest promises about the money of one booking, without statuses,  *)
(* rows or handlers: it is taken once and in full, it lies in escrow until *)
(* it is shared out, the guest may get parts of it as decisions fall, the  *)
(* host gets all that is left or nothing, once, and not while the money is *)
(* frozen.  Booking implements it (PromiseKept there).                     *)
(***************************************************************************)
EXTENDS Integers

CONSTANT Price  \* what the guest is charged

VARIABLES
  kept,     \* satang in escrow
  toGuest,  \* satang given back
  toHost,   \* satang paid out
  frozen    \* is the money withheld from the host?

promise == <<kept, toGuest, toHost, frozen>>

PromiseInit == kept = 0 /\ toGuest = 0 /\ toHost = 0 /\ frozen = FALSE

Take ==
  /\ kept + toGuest + toHost = 0
  /\ kept' = Price
  /\ UNCHANGED <<toGuest, toHost, frozen>>

\* A dispute, an appeal or a report.
Withhold ==
  /\ kept > 0 /\ ~frozen
  /\ frozen' = TRUE
  /\ UNCHANGED <<kept, toGuest, toHost>>

\* A cancellation or a decision; it ends the withholding.
GiveBack(satang) ==
  /\ kept > 0
  /\ kept' = kept - satang
  /\ toGuest' = toGuest + satang
  /\ frozen' = FALSE
  /\ UNCHANGED toHost

PayOut ==
  /\ kept > 0 /\ ~frozen
  /\ kept' = 0
  /\ toHost' = kept
  /\ UNCHANGED <<toGuest, frozen>>

PromiseNext ==
  Take \/ Withhold \/ PayOut \/ \E satang \in 0..kept : GiveBack(satang)

PromiseSpec == PromiseInit /\ [][PromiseNext]_promise
=============================================================================
