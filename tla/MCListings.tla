----------------------------- MODULE MCListings -----------------------------
(***************************************************************************)
(* Listings on a small instance.                                           *)
(***************************************************************************)
EXTENDS Listings, TLC
=============================================================================
