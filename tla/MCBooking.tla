------------------------------ MODULE MCBooking -----------------------------
(***************************************************************************)
(* Booking on a small instance.  The price is odd, so that every half of   *)
(* it rounds, and the lead times are one of each band of the refund table. *)
(***************************************************************************)
EXTENDS Screens, TLC

\* The webhook events are interchangeable.
EventSymmetry == Permutations(OpnEvents)
=============================================================================
