----------------------------- MODULE MCPayments -----------------------------
(***************************************************************************)
(* Payments on a small instance: two charges and two events, so that one   *)
(* event can be handled twice at once, one charge can have two events, and *)
(* two charges can be paid.                                                *)
(***************************************************************************)
EXTENDS Payments, TLC
=============================================================================
