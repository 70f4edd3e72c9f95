------------------------------ MODULE MCStays ------------------------------
(***************************************************************************)
(* Stays on a small instance: two nights, a stay over both and one over    *)
(* the second, so that bookings conflict for a whole or a part of a stay.  *)
(***************************************************************************)
EXTENDS Stays, TLC

MCStayChoices == {<<0, 2>>, <<1, 2>>}
=============================================================================
