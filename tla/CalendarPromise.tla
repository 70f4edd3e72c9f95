-------------------------- MODULE CalendarPromise --------------------------
(***************************************************************************)
(* What the calendar of a villa promises, without requests, drafts, calls  *)
(* or statuses: a booking takes the nights of its stay in one piece and    *)
(* only while nobody else holds one of them, keeps them as they are, and   *)
(* gives them back all at once.  A night passes from one booking to        *)
(* another only through being free.  Stays implements it (NightsPromised   *)
(* there).                                                                 *)
(***************************************************************************)
EXTENDS Integers

CONSTANTS Nights, Bookings

VARIABLE held  \* the nights each booking holds

CalendarInit == held = [b \in Bookings |-> {}]

Take(b, first, last) ==
  /\ held[b] = {} /\ first <= last
  /\ \A c \in Bookings : held[c] \cap (first .. last) = {}
  /\ held' = [held EXCEPT ![b] = first .. last]

GiveBack(b) ==
  /\ held[b] # {}
  /\ held' = [held EXCEPT ![b] = {}]

CalendarNext ==
  \E b \in Bookings : GiveBack(b) \/ \E first, last \in Nights : Take(b, first, last)

CalendarSpec == CalendarInit /\ [][CalendarNext]_held
=============================================================================
