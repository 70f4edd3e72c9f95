----------------------------- MODULE MCBookingTx ----------------------------
(***************************************************************************)
(* BookingTx on small instances: the sets of handlers that race.           *)
(***************************************************************************)
EXTENDS BookingTx, TLC

\* The webhook events are interchangeable.
EventSymmetry == Permutations(OpnEvents)
=============================================================================
