----------------------------- MODULE StaysProofs ----------------------------
(***************************************************************************)
(* No night of a villa is held twice, no draft of the concierge holds its  *)
(* nights twice or lets a submit through once it is consumed, for any      *)
(* number of bookings, drafts and open calls.                              *)
(***************************************************************************)
EXTENDS Stays, FiniteSetTheorems, TLAPS

BookingRows == [stay : StayChoices, status : StayStatus, from : Drafts \cup {None}]
DraftRows ==
  [stay : StayChoices, status : {"open", "confirmed"}, consumed : Bookings \cup {NoBooking}]
Reads == [at : {"read"}, draft : Drafts]
Books == [at : {"booked"}, draft : Drafts, booking : Bookings]

\* The rows keep their shape, and a call that goes on has its draft.
RowsInv ==
  /\ booking \in [Bookings -> {Unmade} \cup BookingRows]
  /\ draft \in [Drafts -> {Unmade} \cup DraftRows]
  /\ submit \in [Submits -> {Idle} \cup Reads \cup Books]
  /\ striker \in [Strikers -> [counted : Nat, booking : Bookings \cup {NoBooking}]]
  /\ strikes \in Nat
  /\ \A p \in Submits : submit[p] # Idle => draft[submit[p].draft] # Unmade
  /\ \A t \in Strikers : striker[t].booking \in Bookings => striker[t].booking \in Made

\* A booking that a draft gave has the draft's nights.
FromDraftInv ==
  \A b \in Made : booking[b].from # None =>
    draft[booking[b].from] # Unmade /\ booking[b].stay = draft[booking[b].from].stay

NightsInv == RowsInv /\ FromDraftInv /\ NoDoubleBooking

-----------------------------------------------------------------------------
(* What the two ways of writing a booking do to the others.                  *)

LEMMA MadeRow ==
  ASSUME RowsInv, NEW b \in Bookings
  PROVE  /\ b \in Made <=> booking[b] \in BookingRows
         /\ b \notin Made <=> booking[b] = Unmade
<1>1. booking[b] \in {Unmade} \cup BookingRows
  BY DEF RowsInv
<1>2. Unmade.status = None
  BY DEF Unmade
<1>3. \A r \in BookingRows : r.status # None
  BY DEF BookingRows, StayStatus, None
<1> QED BY <1>1, <1>2, <1>3 DEF Made

LEMMA OverlapSymmetric == \A s, t : Overlap(s, t) <=> Overlap(t, s)
BY DEF Overlap

\* A new booking stands in an active status only over free nights.
LEMMA CreateKeeps ==
  ASSUME RowsInv, NoDoubleBooking, NEW b \in Bookings, NEW s \in StayChoices,
         NEW first \in {"REQUESTED", "AWAITING_PAYMENT"}, NEW from \in Drafts \cup {None},
         Create(b, s, first, from)
  PROVE  /\ booking' \in [Bookings -> {Unmade} \cup BookingRows]
         /\ booking'[b] = [stay |-> s, status |-> first, from |-> from]
         /\ \A c \in Bookings \ {b} : booking'[c] = booking[c]
         /\ b \notin Made /\ Made' = Made \cup {b}
         /\ NoDoubleBooking'
<1> DEFINE new == [stay |-> s, status |-> first, from |-> from]
<1>1. new \in BookingRows /\ new.stay = s /\ new.status = first
  BY DEF BookingRows, StayStatus
<1>2. /\ booking[b] = Unmade /\ booking' = [booking EXCEPT ![b] = new]
      /\ first = "AWAITING_PAYMENT" => Free(b, s)
  BY DEF Create
<1>3. booking \in [Bookings -> {Unmade} \cup BookingRows]
  BY DEF RowsInv
<1> HIDE DEF new
<1>4. booking' \in [Bookings -> {Unmade} \cup BookingRows] /\ booking'[b] = new
  BY <1>1, <1>2, <1>3
<1>5. \A c \in Bookings \ {b} : booking'[c] = booking[c]
  BY <1>2, <1>3
<1>6. b \notin Made
  BY <1>2, MadeRow
<1>7. first # None
  BY DEF None
<1>8. Made' = Made \cup {b}
  BY <1>1, <1>4, <1>5, <1>6, <1>7 DEF Made
<1>9. NoDoubleBooking'
  <2> SUFFICES ASSUME NEW c \in Made', NEW d \in Made', c # d,
                      booking'[c].status \in ActiveStatuses, booking'[d].status \in ActiveStatuses
               PROVE  ~Overlap(booking'[c].stay, booking'[d].stay)
    BY DEF NoDoubleBooking
  <2>1. CASE c # b /\ d # b
    <3>1. c \in Made /\ d \in Made /\ booking'[c] = booking[c] /\ booking'[d] = booking[d]
      BY <1>5, <1>8, <2>1 DEF Made
    <3> QED BY <3>1 DEF NoDoubleBooking
  <2>2. ASSUME NEW other \in Made, other # b, first \in ActiveStatuses,
               booking[other].status \in ActiveStatuses
        PROVE  ~Overlap(booking[other].stay, s)
    BY <1>2, <2>2 DEF Free, ActiveStatuses
  <2>3. CASE c = b
    <3>1. d \in Made /\ d # b /\ booking'[d] = booking[d] /\ first \in ActiveStatuses
      BY <1>1, <1>4, <1>5, <1>8, <2>3 DEF Made
    <3> QED BY <1>1, <1>4, <2>2, <2>3, <3>1, OverlapSymmetric
  <2>4. CASE d = b
    <3>1. c \in Made /\ c # b /\ booking'[c] = booking[c] /\ first \in ActiveStatuses
      BY <1>1, <1>4, <1>5, <1>8, <2>4 DEF Made
    <3> QED BY <1>1, <1>4, <2>2, <2>4, <3>1
  <2> QED BY <2>1, <2>3, <2>4
<1> QED BY <1>4, <1>5, <1>6, <1>8, <1>9 DEF new

\* A booking that is moved on enters an active status only over free nights.
LEMMA BecomesKeeps ==
  ASSUME RowsInv, NoDoubleBooking, NEW b \in Made, NEW st \in StayStatus,
         booking' = [booking EXCEPT ![b].status = st],
         st \in ActiveStatuses => Free(b, booking[b].stay)
  PROVE  /\ booking' \in [Bookings -> {Unmade} \cup BookingRows]
         /\ Made' = Made
         /\ \A c \in Made : booking'[c].stay = booking[c].stay /\ booking'[c].from = booking[c].from
         /\ NoDoubleBooking'
<1>1. b \in Bookings /\ booking[b] \in BookingRows
  BY MadeRow DEF Made
<1>2. booking \in [Bookings -> {Unmade} \cup BookingRows]
  BY DEF RowsInv
<1>3. booking'[b] = [booking[b] EXCEPT !.status = st]
  BY <1>1, <1>2
<1>4. /\ booking'[b] \in BookingRows
      /\ booking'[b].status = st /\ booking'[b].stay = booking[b].stay
      /\ booking'[b].from = booking[b].from
  BY <1>1, <1>3 DEF BookingRows
<1>5. \A c \in Bookings \ {b} : booking'[c] = booking[c]
  BY <1>2
<1>6. booking' \in [Bookings -> {Unmade} \cup BookingRows]
  BY <1>1, <1>2, <1>4, <1>5
<1>7. st # None
  BY DEF StayStatus, None
<1>8. Made' = Made
  BY <1>4, <1>5, <1>7 DEF Made
<1>9. \A c \in Made : booking'[c].stay = booking[c].stay /\ booking'[c].from = booking[c].from
  BY <1>4, <1>5 DEF Made
<1>10. NoDoubleBooking'
  <2> SUFFICES ASSUME NEW c \in Made, NEW d \in Made, c # d,
                      booking'[c].status \in ActiveStatuses, booking'[d].status \in ActiveStatuses
               PROVE  ~Overlap(booking'[c].stay, booking'[d].stay)
    BY <1>8 DEF NoDoubleBooking
  <2>1. ASSUME NEW other \in Made, other # b, st \in ActiveStatuses,
               booking[other].status \in ActiveStatuses
        PROVE  ~Overlap(booking[other].stay, booking[b].stay)
    BY <2>1 DEF Free
  <2>2. CASE c # b /\ d # b
    BY <1>5, <2>2 DEF NoDoubleBooking, Made
  <2>3. CASE c = b
    <3>1. d # b /\ booking'[d] = booking[d] /\ st \in ActiveStatuses
      BY <1>4, <1>5, <2>3 DEF Made
    <3> QED BY <1>4, <2>1, <2>3, <3>1, OverlapSymmetric
  <2>4. CASE d = b
    <3>1. c # b /\ booking'[c] = booking[c] /\ st \in ActiveStatuses
      BY <1>4, <1>5, <2>4 DEF Made
    <3> QED BY <1>4, <2>1, <2>4, <3>1
  <2> QED BY <2>2, <2>3, <2>4
<1> QED BY <1>6, <1>8, <1>9, <1>10

-----------------------------------------------------------------------------
(* What a handler does to the rows, once its booking is written.             *)

BookingsKept ==
  /\ booking' \in [Bookings -> {Unmade} \cup BookingRows]
  /\ Made \subseteq Made'
  /\ FromDraftInv'
  /\ NoDoubleBooking'

LEMMA NewBookingKeeps ==
  ASSUME NightsInv, NEW b \in Bookings, NEW s \in StayChoices,
         NEW first \in {"REQUESTED", "AWAITING_PAYMENT"}, NEW from \in Drafts \cup {None},
         Create(b, s, first, from),
         from # None => draft[from] # Unmade /\ draft[from].stay = s,
         UNCHANGED draft
  PROVE  BookingsKept
<1>1. /\ booking' \in [Bookings -> {Unmade} \cup BookingRows]
      /\ booking'[b] = [stay |-> s, status |-> first, from |-> from]
      /\ \A c \in Bookings \ {b} : booking'[c] = booking[c]
      /\ Made' = Made \cup {b}
      /\ NoDoubleBooking'
  BY CreateKeeps DEF NightsInv
<1>2. FromDraftInv'
  <2> SUFFICES ASSUME NEW c \in Made', booking'[c].from # None
               PROVE  /\ draft[booking'[c].from] # Unmade
                      /\ booking'[c].stay = draft[booking'[c].from].stay
    BY DEF FromDraftInv
  <2>1. CASE c = b
    BY <1>1, <2>1
  <2>2. CASE c # b
    BY <1>1, <2>2 DEF NightsInv, FromDraftInv, Made
  <2> QED BY <2>1, <2>2
<1> QED BY <1>1, <1>2 DEF BookingsKept

LEMMA MovedBookingKeeps ==
  ASSUME NightsInv, NEW b \in Made, NEW st \in StayStatus,
         booking' = [booking EXCEPT ![b].status = st],
         st \in ActiveStatuses => Free(b, booking[b].stay),
         UNCHANGED draft
  PROVE  BookingsKept
<1>1. /\ booking' \in [Bookings -> {Unmade} \cup BookingRows]
      /\ Made' = Made
      /\ \A c \in Made : booking'[c].stay = booking[c].stay /\ booking'[c].from = booking[c].from
      /\ NoDoubleBooking'
  BY BecomesKeeps DEF NightsInv
<1>2. FromDraftInv'
  BY <1>1 DEF NightsInv, FromDraftInv
<1> QED BY <1>1, <1>2 DEF BookingsKept

\* A status that a handler finds belongs to a booking that was made.
LEMMA FoundIsMade ==
  ASSUME NEW b \in Bookings, NEW old \in SUBSET StayStatus, booking[b].status \in old
  PROVE  b \in Made
BY DEF Made, StayStatus, None

\* Every way of moving a booking on, of whoever moves it.
LEMMA BecomesIsKept ==
  ASSUME NightsInv, NEW b \in Bookings, NEW old \in SUBSET StayStatus, NEW st \in StayStatus,
         Becomes(b, old, st), UNCHANGED draft
  PROVE  BookingsKept
<1>1. /\ booking[b].status \in old
      /\ st \in ActiveStatuses => Free(b, booking[b].stay)
      /\ booking' = [booking EXCEPT ![b].status = st]
  BY DEF Becomes
<1>2. b \in Made
  BY <1>1, FoundIsMade
<1> QED BY <1>1, <1>2, MovedBookingKeeps

\* A handler that writes no row but a booking.
LEMMA OnlyBookingKeeps ==
  ASSUME NightsInv, BookingsKept, OnlyBooking
  PROVE  NightsInv'
<1>1. RowsInv'
  BY DEF NightsInv, RowsInv, BookingsKept, OnlyBooking
<1> QED BY <1>1 DEF NightsInv, BookingsKept

\* A handler that writes no booking, and leaves every draft its nights.
DraftsKept ==
  /\ draft' \in [Drafts -> {Unmade} \cup DraftRows]
  /\ \A d \in Drafts : draft[d] # Unmade => draft'[d] # Unmade /\ draft'[d].stay = draft[d].stay

LEMMA SameBookingsKeep ==
  ASSUME NightsInv, UNCHANGED booking, DraftsKept
  PROVE  Made' = Made /\ FromDraftInv' /\ NoDoubleBooking'
<1>1. Made' = Made
  BY DEF Made
<1>2. NoDoubleBooking'
  BY <1>1 DEF NightsInv, NoDoubleBooking
<1>3. FromDraftInv'
  <2> SUFFICES ASSUME NEW b \in Made, booking[b].from # None
               PROVE  /\ draft'[booking[b].from] # Unmade
                      /\ booking[b].stay = draft'[booking[b].from].stay
    BY <1>1 DEF FromDraftInv
  <2>1. booking[b].from \in Drafts
    <3>1. booking[b] \in BookingRows
      BY MadeRow DEF NightsInv, Made
    <3> QED BY <3>1 DEF BookingRows
  <2>2. draft[booking[b].from] # Unmade /\ booking[b].stay = draft[booking[b].from].stay
    BY DEF NightsInv, FromDraftInv
  <2> QED BY <2>1, <2>2 DEF DraftsKept
<1> QED BY <1>1, <1>2, <1>3

\* A draft's row changes its status or its booking, and not its nights.
LEMMA DraftWriteKeeps ==
  ASSUME NightsInv, UNCHANGED booking, NEW d \in Drafts, draft[d] # Unmade,
         NEW st \in {"open", "confirmed"}, NEW b \in Bookings \cup {NoBooking},
         draft' = [draft EXCEPT ![d] = [stay |-> draft[d].stay, status |-> st, consumed |-> b]]
  PROVE  DraftsKept
<1>1. draft \in [Drafts -> {Unmade} \cup DraftRows] /\ draft[d] \in DraftRows
  BY DEF NightsInv, RowsInv
<1> DEFINE new == [stay |-> draft[d].stay, status |-> st, consumed |-> b]
<1>2. new \in DraftRows /\ new.stay = draft[d].stay /\ draft' = [draft EXCEPT ![d] = new]
  BY <1>1 DEF DraftRows
<1>3. \A r \in DraftRows : r.status # None
  BY DEF DraftRows, None
<1>4. new # Unmade
  BY <1>2, <1>3 DEF Unmade
<1> HIDE DEF new
<1> QED BY <1>1, <1>2, <1>4 DEF DraftsKept

LEMMA InitEstablishes ==
  ASSUME StaysInit PROVE NightsInv
<1>1. Made = {}
  BY DEF StaysInit, Made, Unmade
<1>2. FromDraftInv /\ NoDoubleBooking
  BY <1>1 DEF FromDraftInv, NoDoubleBooking
<1>3. NoStrike \in [counted : Nat, booking : Bookings \cup {NoBooking}]
  BY DEF NoStrike
<1>4. strikes \in Nat
  BY StaysAssumption DEF StaysInit
<1>5. \A t \in Strikers : striker[t].booking \notin Bookings
  BY StaysAssumption DEF StaysInit, NoStrike, NoBooking
<1>6. RowsInv
  BY <1>3, <1>4, <1>5 DEF StaysInit, RowsInv
<1> QED BY <1>2, <1>6 DEF NightsInv

\* The actions that write the row of a booking and nothing else.
LEMMA BookingStepKeeps ==
  ASSUME NightsInv, NEW b \in Bookings,
         \/ \E s \in StayChoices : RequestStay(b, s) \/ InstantStay(b, s)
         \/ Accept(b) \/ Decline(b) \/ Cancel(b) \/ Paid(b) \/ CheckIn(b) \/ Complete(b)
         \/ OpenDispute(b) \/ Expire(b)
  PROVE  NightsInv'
<1>1. BookingsKept /\ OnlyBooking
  <2>1. CASE \E s \in StayChoices : RequestStay(b, s) \/ InstantStay(b, s)
    <3>1. PICK s \in StayChoices, first \in {"REQUESTED", "AWAITING_PAYMENT"} :
            Create(b, s, first, None) /\ OnlyBooking
      BY <2>1 DEF RequestStay, InstantStay
    <3>2. UNCHANGED draft
      BY <3>1 DEF OnlyBooking
    <3> QED BY <3>1, <3>2, NewBookingKeeps
  <2>2. CASE \/ Accept(b) \/ Decline(b) \/ Cancel(b) \/ Paid(b) \/ CheckIn(b) \/ Complete(b)
             \/ OpenDispute(b) \/ Expire(b)
    <3>1. PICK old \in SUBSET StayStatus, st \in StayStatus : Becomes(b, old, st) /\ OnlyBooking
      <4>1. /\ {"REQUESTED"} \in SUBSET StayStatus /\ {"AWAITING_PAYMENT"} \in SUBSET StayStatus
            /\ {"CONFIRMED"} \in SUBSET StayStatus /\ {"CHECKED_IN"} \in SUBSET StayStatus
            /\ {"REQUESTED", "AWAITING_PAYMENT"} \in SUBSET StayStatus
            /\ {"REQUESTED", "AWAITING_PAYMENT", "CONFIRMED"} \in SUBSET StayStatus
        BY DEF StayStatus
      <4>2. /\ "AWAITING_PAYMENT" \in StayStatus /\ "CONFIRMED" \in StayStatus
            /\ "CHECKED_IN" \in StayStatus /\ "DISPUTED" \in StayStatus /\ "OVER" \in StayStatus
        BY DEF StayStatus
      <4> QED BY <2>2, <4>1, <4>2
           DEF Accept, Decline, Cancel, Paid, CheckIn, Complete, OpenDispute, Expire
    <3>2. UNCHANGED draft
      BY <3>1 DEF OnlyBooking
    <3> QED BY <3>1, <3>2, BecomesIsKept
  <2> QED BY <2>1, <2>2
<1> QED BY <1>1, OnlyBookingKeeps

\* Strikes: the transaction that counts, and the one that commits.
LEMMA StrikeStepKeeps ==
  ASSUME NightsInv, NEW t \in Strikers,
         (\E b \in Bookings \cup {NoBooking} : StrikeCounts(t, b)) \/ StrikeCommits(t)
  PROVE  NightsInv'
<1> DEFINE Open == [counted : Nat, booking : Bookings \cup {NoBooking}]
<1>1. strikes \in Nat /\ strikes + 1 \in Nat /\ striker \in [Strikers -> Open]
  BY DEF NightsInv, RowsInv
<1>2. CASE \E b \in Bookings \cup {NoBooking} : StrikeCounts(t, b)
  <2>1. PICK b \in Bookings \cup {NoBooking} : StrikeCounts(t, b)
    BY <1>2
  <2>2. b \in Bookings => b \in Made
    BY <2>1, StaysAssumption DEF StrikeCounts, NoBooking
  <2>3. /\ striker' = [striker EXCEPT ![t] = [counted |-> strikes + 1, booking |-> b]]
        /\ UNCHANGED <<booking, draft, submit, strikes>>
    BY <2>1 DEF StrikeCounts
  <2>4. striker' \in [Strikers -> Open]
    BY <1>1, <2>3
  <2>5. DraftsKept
    BY <2>3 DEF DraftsKept, NightsInv, RowsInv
  <2>6. Made' = Made /\ FromDraftInv' /\ NoDoubleBooking'
    BY <2>3, <2>5, SameBookingsKeep
  <2>7. \A u \in Strikers : striker'[u].booking \in Bookings => striker'[u].booking \in Made
    BY <1>1, <2>2, <2>3 DEF NightsInv, RowsInv
  <2>8. RowsInv'
    BY <2>3, <2>4, <2>6, <2>7 DEF NightsInv, RowsInv
  <2> QED BY <2>6, <2>8 DEF NightsInv
<1>3. CASE StrikeCommits(t)
  <2> DEFINE b == striker[t].booking
  <2>1. /\ booking' = IF b = NoBooking THEN booking ELSE [booking EXCEPT ![b].status = "OVER"]
        /\ strikes' = strikes + 1 /\ striker' = [striker EXCEPT ![t] = NoStrike]
        /\ UNCHANGED <<draft, submit>>
    BY <1>3 DEF StrikeCommits
  <2>2. DraftsKept
    BY <2>1 DEF DraftsKept, NightsInv, RowsInv
  <2>3. Made \subseteq Made' /\ FromDraftInv' /\ NoDoubleBooking'
        /\ booking' \in [Bookings -> {Unmade} \cup BookingRows]
    <3>1. CASE b = NoBooking
      <4>1. UNCHANGED booking
        BY <2>1, <3>1
      <4>2. Made' = Made /\ FromDraftInv' /\ NoDoubleBooking'
        BY <2>2, <4>1, SameBookingsKeep
      <4> QED BY <4>1, <4>2 DEF NightsInv, RowsInv
    <3>2. CASE b # NoBooking
      <4>1. b \in Made
        BY <1>1, <3>2 DEF NightsInv, RowsInv
      <4>2. booking' = [booking EXCEPT ![b].status = "OVER"]
        BY <2>1, <3>2
      <4>3. "OVER" \in StayStatus /\ "OVER" \notin ActiveStatuses
        BY DEF StayStatus, ActiveStatuses
      <4>4. BookingsKept
        BY <2>1, <4>1, <4>2, <4>3, MovedBookingKeeps
      <4> QED BY <4>4 DEF BookingsKept
    <3> QED BY <3>1, <3>2
  <2>4. NoStrike \in Open /\ NoStrike.booking \notin Bookings
    BY StaysAssumption DEF NoStrike, NoBooking
  <2>5. striker' \in [Strikers -> Open]
        /\ \A u \in Strikers : striker'[u].booking \in Bookings => striker'[u].booking \in Made
    BY <1>1, <2>1, <2>4 DEF NightsInv, RowsInv
  <2>6. RowsInv'
    BY <1>1, <2>1, <2>3, <2>5 DEF NightsInv, RowsInv
  <2> QED BY <2>3, <2>6 DEF NightsInv
<1> QED BY <1>2, <1>3

\* What is left of the rows, for a handler that writes drafts and calls only.
LEMMA CallsKeep ==
  ASSUME NightsInv, UNCHANGED <<booking, strikes, striker>>, DraftsKept,
         submit' \in [Submits -> {Idle} \cup Reads \cup Books],
         \A p \in Submits : submit'[p] # Idle => draft[submit'[p].draft] # Unmade
  PROVE  NightsInv'
<1>1. Made' = Made /\ FromDraftInv' /\ NoDoubleBooking'
  BY SameBookingsKeep
<1>2. \A p \in Submits : submit'[p] # Idle => submit'[p].draft \in Drafts
  BY DEF Reads, Books
<1>3. RowsInv'
  BY <1>1, <1>2 DEF NightsInv, RowsInv, DraftsKept
<1> QED BY <1>1, <1>3 DEF NightsInv

LEMMA DraftStepKeeps ==
  ASSUME NightsInv, NEW d \in Drafts,
         ConfirmDraft(d) \/ WindowCloses(d) \/ \E s \in StayChoices : CreateDraft(d, s)
  PROVE  NightsInv'
<1>1. draft \in [Drafts -> {Unmade} \cup DraftRows] /\ UNCHANGED <<booking, submit, strikes, striker>>
  BY DEF NightsInv, RowsInv, ConfirmDraft, WindowCloses, CreateDraft
<1>2. DraftsKept
  <2>1. CASE ConfirmDraft(d) \/ WindowCloses(d)
    <3>1. draft[d] # Unmade
      BY <2>1 DEF ConfirmDraft, WindowCloses, Unmade, None
    <3>2. draft[d] \in DraftRows
      BY <1>1, <3>1
    <3>3. PICK st \in {"open", "confirmed"} : draft' = [draft EXCEPT ![d].status = st]
      BY <2>1 DEF ConfirmDraft, WindowCloses
    <3>4. [draft[d] EXCEPT !.status = st]
            = [stay |-> draft[d].stay, status |-> st, consumed |-> draft[d].consumed]
      BY <3>2 DEF DraftRows
    <3>5. /\ draft' = [draft EXCEPT ![d] =
                        [stay |-> draft[d].stay, status |-> st, consumed |-> draft[d].consumed]]
          /\ draft[d].consumed \in Bookings \cup {NoBooking}
      BY <3>2, <3>3, <3>4 DEF DraftRows
    <3> QED BY <1>1, <3>1, <3>5, DraftWriteKeeps
  <2>2. CASE \E s \in StayChoices : CreateDraft(d, s)
    <3>1. PICK s \in StayChoices : CreateDraft(d, s)
      BY <2>2
    <3> DEFINE new == [stay |-> s, status |-> "open", consumed |-> NoBooking]
    <3>2. draft[d] = Unmade /\ draft' = [draft EXCEPT ![d] = new] /\ new \in DraftRows
      BY <3>1 DEF CreateDraft, DraftRows
    <3> QED BY <1>1, <3>2 DEF DraftsKept
  <2> QED BY <2>1, <2>2
<1>3. \A p \in Submits : submit'[p] # Idle => draft[submit'[p].draft] # Unmade
  BY <1>1 DEF NightsInv, RowsInv
<1>4. submit' \in [Submits -> {Idle} \cup Reads \cup Books]
  BY <1>1 DEF NightsInv, RowsInv
<1> QED BY <1>1, <1>2, <1>3, <1>4, CallsKeep

\* submitDraft, one statement of it at a time.
LEMMA SubmitStepKeeps ==
  ASSUME NightsInv, NEW p \in Submits,
         \/ \E d \in Drafts : SubmitReads(p, d)
         \/ SubmitConsumes(p) \/ SubmitStops(p)
         \/ \E b \in Bookings, first \in {"REQUESTED", "AWAITING_PAYMENT"} : SubmitBooks(p, b, first)
  PROVE  NightsInv'
<1>1. /\ draft \in [Drafts -> {Unmade} \cup DraftRows]
      /\ submit \in [Submits -> {Idle} \cup Reads \cup Books]
      /\ \A q \in Submits : submit[q] # Idle => draft[submit[q].draft] # Unmade
  BY DEF NightsInv, RowsInv
<1>2. CASE \E d \in Drafts : SubmitReads(p, d)
  <2>1. PICK d \in Drafts : SubmitReads(p, d)
    BY <1>2
  <2> DEFINE call == [at |-> "read", draft |-> d]
  <2>2. /\ draft[d] # Unmade /\ submit' = [submit EXCEPT ![p] = call]
        /\ UNCHANGED <<booking, draft, strikes, striker>>
    BY <2>1 DEF SubmitReads, Unmade, None
  <2>3. call \in Reads /\ call.draft = d
    BY DEF Reads
  <2>4. DraftsKept
    BY <1>1, <2>2 DEF DraftsKept
  <2> HIDE DEF call
  <2>5. submit' \in [Submits -> {Idle} \cup Reads \cup Books]
        /\ \A q \in Submits : submit'[q] # Idle => draft[submit'[q].draft] # Unmade
    BY <1>1, <2>2, <2>3
  <2> QED BY <2>2, <2>4, <2>5, CallsKeep
<1>3. CASE SubmitConsumes(p)
  <2>1. submit[p] \in Books
    BY <1>1, <1>3 DEF SubmitConsumes, Idle, Reads
  <2> DEFINE d == submit[p].draft
             b == submit[p].booking
  <2>2. d \in Drafts /\ b \in Bookings /\ submit[p] # Idle
    BY <2>1 DEF Books, Idle
  <2>3. draft[d] # Unmade /\ draft[d] \in DraftRows
    BY <1>1, <2>2
  <2>4. /\ draft' = [draft EXCEPT ![d].consumed = b] /\ submit' = [submit EXCEPT ![p] = Idle]
        /\ UNCHANGED <<booking, strikes, striker>>
    BY <1>3 DEF SubmitConsumes
  <2>5. [draft[d] EXCEPT !.consumed = b]
          = [stay |-> draft[d].stay, status |-> draft[d].status, consumed |-> b]
        /\ draft[d].status \in {"open", "confirmed"}
    BY <2>3 DEF DraftRows
  <2> HIDE DEF d, b
  <2>6. draft' = [draft EXCEPT ![d] = [stay |-> draft[d].stay, status |-> draft[d].status, consumed |-> b]]
    BY <2>4, <2>5
  <2>7. DraftsKept
    BY <2>2, <2>3, <2>4, <2>5, <2>6, DraftWriteKeeps
  <2>8. submit' \in [Submits -> {Idle} \cup Reads \cup Books]
        /\ \A q \in Submits : submit'[q] # Idle => draft[submit'[q].draft] # Unmade
    BY <1>1, <2>4
  <2> QED BY <2>4, <2>7, <2>8, CallsKeep
<1>4. CASE SubmitStops(p)
  <2>1. submit' = [submit EXCEPT ![p] = Idle] /\ UNCHANGED <<booking, draft, strikes, striker>>
    BY <1>4 DEF SubmitStops
  <2>2. DraftsKept
    BY <1>1, <2>1 DEF DraftsKept
  <2>3. submit' \in [Submits -> {Idle} \cup Reads \cup Books]
        /\ \A q \in Submits : submit'[q] # Idle => draft[submit'[q].draft] # Unmade
    BY <1>1, <2>1
  <2> QED BY <2>1, <2>2, <2>3, CallsKeep
<1>5. CASE \E b \in Bookings, first \in {"REQUESTED", "AWAITING_PAYMENT"} : SubmitBooks(p, b, first)
  <2>1. PICK b \in Bookings, first \in {"REQUESTED", "AWAITING_PAYMENT"} : SubmitBooks(p, b, first)
    BY <1>5
  <2> DEFINE d == submit[p].draft
             call == [at |-> "booked", draft |-> d, booking |-> b]
  <2>2. /\ submit[p].at = "read" /\ Create(b, draft[d].stay, first, d)
        /\ submit' = [submit EXCEPT ![p] = call] /\ UNCHANGED <<draft, strikes, striker>>
    BY <2>1 DEF SubmitBooks
  <2>3. submit[p] \in Reads /\ submit[p] # Idle
    BY <1>1, <2>2 DEF Idle, Books
  <2>4. d \in Drafts /\ draft[d] # Unmade
    BY <1>1, <2>3 DEF Reads
  <2>5. draft[d].stay \in StayChoices
    BY <1>1, <2>4 DEF DraftRows
  <2>6. call \in Books /\ call.draft = d
    BY <2>4 DEF Books
  <2> HIDE DEF d, call
  <2>7. BookingsKept
    BY <2>2, <2>4, <2>5, NewBookingKeeps
  <2>8. submit' \in [Submits -> {Idle} \cup Reads \cup Books]
        /\ \A q \in Submits : submit'[q] # Idle => draft[submit'[q].draft] # Unmade
    BY <1>1, <2>2, <2>4, <2>6
  <2>9. RowsInv'
    BY <2>2, <2>7, <2>8 DEF NightsInv, RowsInv, BookingsKept
  <2> QED BY <2>7, <2>9 DEF NightsInv, BookingsKept
<1> QED BY <1>2, <1>3, <1>4, <1>5

LEMMA StepKeeps ==
  ASSUME NightsInv, [StaysNext]_stayVars PROVE NightsInv'
<1>1. CASE Handling
  BY <1>1, BookingStepKeeps, StrikeStepKeeps, DraftStepKeeps, SubmitStepKeeps DEF Handling
<1>2. CASE \E b \in Bookings : Expire(b)
  BY <1>2, BookingStepKeeps
<1>3. CASE \E t \in Strikers : StrikeCommits(t)
  BY <1>3, StrikeStepKeeps
<1>4. CASE UNCHANGED stayVars
  <2>1. UNCHANGED <<booking, draft, submit, strikes, striker>>
    BY <1>4 DEF stayVars
  <2>2. Made' = Made /\ FromDraftInv' /\ NoDoubleBooking'
    BY <2>1 DEF NightsInv, Made, FromDraftInv, NoDoubleBooking
  <2> QED BY <2>1, <2>2 DEF NightsInv, RowsInv
<1> QED BY <1>1, <1>2, <1>3, <1>4 DEF StaysNext

-----------------------------------------------------------------------------
(* Strikes                                                                   *)

\* The open transactions that counted too few strikes to suspend the host.
Early == {t \in Striking : ~Suspends(striker[t].counted)}

\* A transaction that counted too few did so while at most one strike was
\* committed: each of them adds one strike at most, whatever the others do.
StrikesInv ==
  /\ suspended \in BOOLEAN
  /\ \A t \in Strikers : striker[t].counted <= MaxStrikes
  /\ strikes + Cardinality(Striking) <= MaxStrikes
  /\ suspended \/ strikes + Cardinality(Early) <= (Threshold - 1) + (Cardinality(Strikers) - 1)

LEMMA StrikersCounted ==
  /\ IsFiniteSet(Strikers) /\ Cardinality(Strikers) \in Nat /\ Cardinality(Strikers) >= 1
  /\ IsFiniteSet(Striking) /\ Cardinality(Striking) \in Nat
  /\ Cardinality(Striking) <= Cardinality(Strikers)
  /\ IsFiniteSet(Early) /\ Cardinality(Early) \in Nat
  /\ Cardinality(Early) <= Cardinality(Strikers)
<1>1. IsFiniteSet(Strikers) /\ Strikers # {}
  BY StaysAssumption
<1>2. Striking \in SUBSET Strikers /\ Early \in SUBSET Strikers
  BY DEF Striking, Early
<1>3. Cardinality(Strikers) \in Nat /\ Cardinality(Strikers) # 0
  BY <1>1, FS_CardinalityType, FS_EmptySet
<1>4. IsFiniteSet(Striking) /\ Cardinality(Striking) <= Cardinality(Strikers)
  BY <1>1, <1>2, FS_Subset
<1>5. IsFiniteSet(Early) /\ Cardinality(Early) <= Cardinality(Strikers)
  BY <1>1, <1>2, FS_Subset
<1>6. Cardinality(Striking) \in Nat /\ Cardinality(Early) \in Nat
  BY <1>4, <1>5, FS_CardinalityType
<1> QED BY <1>1, <1>3, <1>4, <1>5, <1>6

LEMMA InitStrikes ==
  ASSUME StaysInit PROVE StrikesInv
<1>1. Striking = {} /\ Early = {}
  BY DEF StaysInit, Striking, Early
<1>2. Cardinality(Striking) = 0 /\ Cardinality(Early) = 0
  BY <1>1, FS_EmptySet
<1>3. strikes \in 0 .. 2 /\ strikes \in 0 .. MaxStrikes /\ MaxStrikes \in Nat /\ suspended \in BOOLEAN
  BY StaysAssumption DEF StaysInit
<1>4. \A t \in Strikers : striker[t].counted = 0
  BY DEF StaysInit, NoStrike
<1> QED BY <1>2, <1>3, <1>4, StrikersCounted DEF StrikesInv, Threshold

LEMMA CountKeepsStrikes ==
  ASSUME NightsInv, StrikesInv, NEW t \in Strikers, NEW b \in Bookings \cup {NoBooking},
         StrikeCounts(t, b)
  PROVE  StrikesInv'
<1> DEFINE new == [counted |-> strikes + 1, booking |-> b]
<1>1. /\ striker[t] = NoStrike /\ strikes + Cardinality(Striking) < MaxStrikes
      /\ striker' = [striker EXCEPT ![t] = new] /\ UNCHANGED <<strikes, suspended>>
  BY DEF StrikeCounts
<1>2. /\ strikes \in Nat /\ MaxStrikes \in Nat
      /\ striker \in [Strikers -> [counted : Nat, booking : Bookings \cup {NoBooking}]]
  BY StaysAssumption DEF NightsInv, RowsInv
<1>3. new.counted = strikes + 1 /\ new # NoStrike
  <2>1. NoStrike.counted = 0
    BY DEF NoStrike
  <2> QED BY <1>2, <2>1
<1> HIDE DEF new
<1>4. striker'[t] = new /\ \A u \in Strikers \ {t} : striker'[u] = striker[u]
  BY <1>1, <1>2
<1>5. t \notin Striking /\ Striking' = Striking \cup {t}
  BY <1>1, <1>3, <1>4 DEF Striking
<1>6. Cardinality(Striking') = Cardinality(Striking) + 1
  BY <1>5, StrikersCounted, FS_AddElement
<1>7. \A u \in Strikers : striker'[u].counted <= MaxStrikes
  BY <1>1, <1>2, <1>3, <1>4, StrikersCounted DEF StrikesInv
<1>8. ASSUME ~suspended
      PROVE  strikes + Cardinality(Early') <= (Threshold - 1) + (Cardinality(Strikers) - 1)
  <2>1. CASE Suspends(strikes + 1)
    <3>1. Early' = Early
      BY <1>3, <1>4, <1>5, <2>1 DEF Early, Striking
    <3> QED BY <1>8, <3>1 DEF StrikesInv
  <2>2. CASE ~Suspends(strikes + 1)
    <3>1. strikes <= 1
      BY <1>2, <2>2 DEF Suspends, Threshold
    <3>2. Early' \in SUBSET Strikers
      BY DEF Early, Striking
    <3>3. Cardinality(Early') \in Nat /\ Cardinality(Early') <= Cardinality(Strikers)
      BY <3>2, StrikersCounted, FS_Subset, FS_CardinalityType
    <3> QED BY <1>2, <3>1, <3>3, StrikersCounted DEF Threshold
  <2> QED BY <2>1, <2>2
<1>9. strikes + Cardinality(Striking') <= MaxStrikes
  BY <1>1, <1>2, <1>6, StrikersCounted
<1> QED BY <1>1, <1>7, <1>8, <1>9 DEF StrikesInv

LEMMA CommitKeepsStrikes ==
  ASSUME NightsInv, StrikesInv, NEW t \in Strikers, StrikeCommits(t)
  PROVE  StrikesInv'
<1>1. /\ striker[t] # NoStrike /\ striker' = [striker EXCEPT ![t] = NoStrike]
      /\ strikes' = strikes + 1 /\ suspended' = (suspended \/ Suspends(striker[t].counted))
  BY DEF StrikeCommits
<1>2. /\ strikes \in Nat /\ MaxStrikes \in Nat
      /\ striker \in [Strikers -> [counted : Nat, booking : Bookings \cup {NoBooking}]]
  BY StaysAssumption DEF NightsInv, RowsInv
<1>3. striker'[t] = NoStrike /\ \A u \in Strikers \ {t} : striker'[u] = striker[u]
  BY <1>1, <1>2
<1>4. t \in Striking /\ Striking' = Striking \ {t}
  BY <1>1, <1>3 DEF Striking
<1>5. Cardinality(Striking') = Cardinality(Striking) - 1
  BY <1>4, StrikersCounted, FS_RemoveElement
<1>6. \A u \in Strikers : striker'[u].counted <= MaxStrikes
  <2>1. NoStrike.counted = 0
    BY DEF NoStrike
  <2> QED BY <1>2, <1>3, <2>1 DEF StrikesInv
<1>7. ASSUME ~suspended, ~Suspends(striker[t].counted)
      PROVE  strikes + 1 + Cardinality(Early') <= (Threshold - 1) + (Cardinality(Strikers) - 1)
  <2>1. t \in Early /\ Early' = Early \ {t}
    BY <1>3, <1>4, <1>7 DEF Early, Striking, Suspends, Threshold
  <2>2. Cardinality(Early') = Cardinality(Early) - 1
    BY <2>1, StrikersCounted, FS_RemoveElement
  <2> QED BY <1>2, <1>7, <2>2, StrikersCounted DEF StrikesInv, Threshold
<1>8. strikes + 1 + Cardinality(Striking') <= MaxStrikes
  BY <1>2, <1>5, StrikersCounted DEF StrikesInv
<1>9. suspended' \in BOOLEAN
  BY <1>1
<1>10. suspended' \/ strikes' + Cardinality(Early') <= (Threshold - 1) + (Cardinality(Strikers) - 1)
  BY <1>1, <1>7
<1> QED BY <1>1, <1>6, <1>8, <1>9, <1>10 DEF StrikesInv

LEMMA StepKeepsStrikes ==
  ASSUME NightsInv, StrikesInv, [StaysNext]_stayVars PROVE StrikesInv'
<1>1. CASE \E t \in Strikers, b \in Bookings \cup {NoBooking} : StrikeCounts(t, b)
  BY <1>1, CountKeepsStrikes
<1>2. CASE \E t \in Strikers : StrikeCommits(t)
  BY <1>2, CommitKeepsStrikes
<1>3. CASE UNCHANGED <<strikes, suspended, striker>>
  BY <1>3 DEF StrikesInv, Early, Striking
<1>4. CASE Handling
  BY <1>1, <1>3, <1>4
     DEF Handling, OnlyBooking, RequestStay, InstantStay, Accept, Decline, Cancel, Paid, CheckIn,
         Complete, OpenDispute, CreateDraft, ConfirmDraft, WindowCloses, SubmitReads, SubmitBooks,
         SubmitConsumes, SubmitStops
<1>5. CASE \E b \in Bookings : Expire(b)
  BY <1>3, <1>5 DEF Expire, OnlyBooking
<1>6. CASE UNCHANGED stayVars
  BY <1>3, <1>6 DEF stayVars
<1> QED BY <1>2, <1>4, <1>5, <1>6 DEF StaysNext

-----------------------------------------------------------------------------
(* The theorems                                                              *)

LEMMA NightsFromDraft ==
  ASSUME NightsInv PROVE DraftHoldsOnce
<1> SUFFICES ASSUME NEW b \in Made, NEW c \in Made, b # c, booking[b].from # None,
                    booking[b].from = booking[c].from,
                    booking[b].status \in ActiveStatuses, booking[c].status \in ActiveStatuses
             PROVE  FALSE
  BY DEF DraftHoldsOnce
<1>1. booking[b].stay = booking[c].stay
  BY DEF NightsInv, FromDraftInv
<1>2. booking[b].stay \in StayChoices
  BY MadeRow DEF NightsInv, Made, BookingRows
<1>3. \A s \in StayChoices : Overlap(s, s)
  BY StaysAssumption DEF Overlap
<1>4. ~Overlap(booking[b].stay, booking[c].stay)
  BY DEF NightsInv, NoDoubleBooking
<1> QED BY <1>1, <1>2, <1>3, <1>4

\* No two active bookings of a villa overlap, however requests, accepts, instant
\* holds, drafts and strikes interleave (migration.sql:417, transitions.ts:129).
THEOREM NoNightTwice == StaysSpec => []NoDoubleBooking
<1>1. NightsInv => NoDoubleBooking
  BY DEF NightsInv
<1> QED BY <1>1, InitEstablishes, StepKeeps, PTL DEF StaysSpec

\* Of the bookings that submits of one draft gave, at most one is active, for any
\* number of submits (concierge/booking.ts:215); and a host that is not suspended
\* has fewer strikes than the threshold and the transactions open beside the last
\* one together, for any number of them (strikes.ts:24-27).
THEOREM DraftsAndStrikes == StaysSpec => []StaysInv
<1>1. ASSUME NightsInv, StrikesInv PROVE StaysInv
  <2>1. StaysTypeOK
    <3>1. \A b \in Made : booking[b] \in BookingRows
      BY <1>1, MadeRow DEF NightsInv, Made
    <3>2. \A d \in Drafts : draft[d] # Unmade => draft[d] \in DraftRows
      BY <1>1 DEF NightsInv, RowsInv
    <3>3. strikes \in 0 .. MaxStrikes
      BY <1>1, StaysAssumption, StrikersCounted DEF NightsInv, RowsInv, StrikesInv
    <3>4. striker \in [Strikers -> [counted : 0 .. MaxStrikes, booking : Bookings \cup {NoBooking}]]
      BY <1>1, StaysAssumption DEF NightsInv, RowsInv, StrikesInv
    <3> QED BY <1>1, <3>1, <3>2, <3>3, <3>4 DEF StaysTypeOK, BookingRows, DraftRows, StrikesInv
  <2>2. SuspensionComes
    BY <1>1, StrikersCounted DEF NightsInv, RowsInv, StrikesInv, SuspensionComes, Threshold
  <2> QED BY <1>1, <2>1, <2>2, NightsFromDraft DEF StaysInv
<1> QED BY <1>1, InitEstablishes, InitStrikes, StepKeeps, StepKeepsStrikes, PTL DEF StaysSpec

-----------------------------------------------------------------------------
(* A consumed draft gives what was under way, and no more.                   *)

\* What a step does to a draft that is consumed: it stays so, no submit gets past the
\* gate, and a booking it still gives uses up a submit that had.
DraftRests(d) ==
  /\ Consumed(d)'
  /\ MayBook(d)' \subseteq MayBook(d)
  /\ \A b \in GivenBy(d)' \ GivenBy(d) :
       GivenBy(d)' = GivenBy(d) \cup {b} /\ MayBook(d)' # MayBook(d)

DraftsMove == \A d \in Drafts : Consumed(d) => DraftRests(d)

\* A booking that is moved on stays the booking of its draft.
LEMMA StatusKeepsGiven ==
  ASSUME NightsInv, NEW d \in Drafts, NEW b \in Made, NEW st \in StayStatus,
         booking' = [booking EXCEPT ![b].status = st]
  PROVE  GivenBy(d)' = GivenBy(d)
<1>1. /\ booking \in [Bookings -> {Unmade} \cup BookingRows]
      /\ b \in Bookings /\ booking[b] \in BookingRows
  BY MadeRow DEF NightsInv, RowsInv, Made
<1>2. booking'[b] = [booking[b] EXCEPT !.status = st]
  BY <1>1
<1>3. booking'[b].status = st /\ booking'[b].from = booking[b].from
  BY <1>1, <1>2 DEF BookingRows
<1>4. \A c \in Bookings \ {b} : booking'[c] = booking[c]
  BY <1>1
<1>5. st # None
  BY DEF StayStatus, None
<1>6. Made' = Made
  BY <1>3, <1>4, <1>5 DEF Made
<1>7. \A c \in Made : booking'[c].from = booking[c].from
  BY <1>3, <1>4 DEF Made
<1> QED BY <1>6, <1>7 DEF GivenBy

\* A new booking is the draft's it was made from.
LEMMA CreateGives ==
  ASSUME NightsInv, NEW d \in Drafts, NEW b \in Bookings, NEW s \in StayChoices,
         NEW first \in {"REQUESTED", "AWAITING_PAYMENT"}, NEW from \in Drafts \cup {None},
         Create(b, s, first, from)
  PROVE  /\ from = d => GivenBy(d)' = GivenBy(d) \cup {b}
         /\ from # d => GivenBy(d)' = GivenBy(d)
<1>1. /\ booking'[b] = [stay |-> s, status |-> first, from |-> from]
      /\ \A c \in Bookings \ {b} : booking'[c] = booking[c]
      /\ b \notin Made /\ Made' = Made \cup {b}
  BY CreateKeeps DEF NightsInv
<1>2. booking'[b].from = from
  BY <1>1
<1>3. \A c \in Made : c # b /\ booking'[c].from = booking[c].from
  BY <1>1 DEF Made
<1> QED BY <1>1, <1>2, <1>3 DEF GivenBy

\* A step that lets no submit through and gives the draft no booking.
LEMMA RestsAnyhow ==
  ASSUME NEW d \in Drafts, Consumed(d), Consumed(d)', GivenBy(d)' = GivenBy(d),
         \A p \in Submits : submit'[p].at = "read" => submit'[p] = submit[p]
  PROVE  DraftRests(d)
BY DEF DraftRests, MayBook

\* What the bookings' handlers and the strikes do.
LEMMA BookingRests ==
  ASSUME NightsInv, NEW d \in Drafts, Consumed(d), UNCHANGED <<draft, submit>>,
         GivenBy(d)' = GivenBy(d)
  PROVE  DraftRests(d)
BY RestsAnyhow DEF Consumed

LEMMA ReadMoves ==
  ASSUME NightsInv, NEW p \in Submits, NEW d \in Drafts, SubmitReads(p, d)
  PROVE  DraftsMove
<1>1. submit \in [Submits -> {Idle} \cup Reads \cup Books]
  BY DEF NightsInv, RowsInv
<1>2. /\ draft[d].consumed = NoBooking /\ UNCHANGED <<booking, draft>>
      /\ submit' = [submit EXCEPT ![p] = [at |-> "read", draft |-> d]]
  BY DEF SubmitReads
<1>3. ASSUME NEW e \in Drafts, Consumed(e) PROVE DraftRests(e)
  <2>1. e # d
    BY <1>2, <1>3 DEF Consumed
  <2>2. \A q \in Submits : submit'[q].at = "read" /\ submit'[q].draft = e => submit'[q] = submit[q]
    BY <1>1, <1>2, <2>1
  <2>3. MayBook(e)' \subseteq MayBook(e)
    BY <2>2 DEF MayBook
  <2>4. GivenBy(e)' = GivenBy(e) /\ Consumed(e)'
    BY <1>2, <1>3 DEF GivenBy, Made, Consumed
  <2> QED BY <2>3, <2>4 DEF DraftRests
<1> QED BY <1>3 DEF DraftsMove

LEMMA WriteMoves ==
  ASSUME NightsInv, NEW d \in Drafts,
         ConfirmDraft(d) \/ WindowCloses(d) \/ \E s \in StayChoices : CreateDraft(d, s)
  PROVE  DraftsMove
<1>1. draft \in [Drafts -> {Unmade} \cup DraftRows]
  BY DEF NightsInv, RowsInv
<1>2. UNCHANGED <<booking, submit>>
  BY DEF ConfirmDraft, WindowCloses, CreateDraft
<1>3. ASSUME NEW e \in Drafts, Consumed(e) PROVE Consumed(e)'
  <2>1. CASE e # d
    <3>1. draft'[e] = draft[e]
      BY <1>1, <2>1 DEF ConfirmDraft, WindowCloses, CreateDraft
    <3> QED BY <1>3, <3>1 DEF Consumed
  <2>2. CASE e = d
    <3>1. draft[d] # Unmade /\ draft[d] \in DraftRows /\ draft[d].consumed # NoBooking
      BY <1>1, <1>3, <2>2 DEF Consumed
    <3>2. \A st \in {"open", "confirmed"} :
            [draft EXCEPT ![d].status = st][d].consumed = draft[d].consumed
            /\ [draft EXCEPT ![d].status = st][d].status = st
      BY <1>1, <3>1 DEF DraftRows
    <3>3. PICK st \in {"open", "confirmed"} : draft' = [draft EXCEPT ![d].status = st]
      BY <3>1 DEF ConfirmDraft, WindowCloses, CreateDraft
    <3>4. draft'[d].consumed # NoBooking /\ draft'[d].status = st
      BY <3>1, <3>2, <3>3
    <3>5. draft'[d] # Unmade
      BY <3>4 DEF Unmade, None
    <3> QED BY <2>2, <3>4, <3>5 DEF Consumed
  <2> QED BY <2>1, <2>2
<1>4. ASSUME NEW e \in Drafts, Consumed(e) PROVE DraftRests(e)
  <2>1. GivenBy(e)' = GivenBy(e) /\ submit' = submit
    BY <1>2 DEF GivenBy, Made
  <2> QED BY <1>3, <1>4, <2>1, RestsAnyhow
<1> QED BY <1>4 DEF DraftsMove

LEMMA ConsumeMoves ==
  ASSUME NightsInv, NEW p \in Submits, SubmitConsumes(p)
  PROVE  DraftsMove
<1>1. /\ draft \in [Drafts -> {Unmade} \cup DraftRows] /\ submit[p] \in Books
      /\ submit \in [Submits -> {Idle} \cup Reads \cup Books]
      /\ draft[submit[p].draft] # Unmade
  BY DEF NightsInv, RowsInv, SubmitConsumes, Reads, Idle
<1>2. PICK d \in Drafts, b \in Bookings : d = submit[p].draft /\ b = submit[p].booking
  BY <1>1 DEF Books
<1>3. /\ draft' = [draft EXCEPT ![d].consumed = b] /\ UNCHANGED booking
      /\ submit' = [submit EXCEPT ![p] = Idle]
  BY <1>2 DEF SubmitConsumes
<1>4. \A q \in Submits : submit'[q].at = "read" => submit'[q] = submit[q]
  BY <1>1, <1>3 DEF Idle
<1>5. draft[d] \in DraftRows
  BY <1>1, <1>2
<1>6. draft'[d].consumed = b /\ draft'[d].status \in {"open", "confirmed"}
  BY <1>1, <1>3, <1>5 DEF DraftRows
<1>7. draft'[d] # Unmade /\ b # NoBooking
  BY <1>6, StaysAssumption DEF Unmade, None, NoBooking
<1>8. \A e \in Drafts \ {d} : draft'[e] = draft[e]
  BY <1>1, <1>3
<1>9. \A e \in Drafts : Consumed(e) => Consumed(e)'
  BY <1>6, <1>7, <1>8 DEF Consumed
<1>10. \A e \in Drafts : GivenBy(e)' = GivenBy(e)
  BY <1>3 DEF GivenBy, Made
<1> QED BY <1>4, <1>9, <1>10, RestsAnyhow DEF DraftsMove

\* The booking that a submit makes is the one it had left to make.
LEMMA BookMoves ==
  ASSUME NightsInv, NEW p \in Submits, NEW b \in Bookings,
         NEW first \in {"REQUESTED", "AWAITING_PAYMENT"}, SubmitBooks(p, b, first)
  PROVE  DraftsMove
<1>1. /\ submit \in [Submits -> {Idle} \cup Reads \cup Books] /\ submit[p] \in Reads
      /\ draft \in [Drafts -> {Unmade} \cup DraftRows] /\ draft[submit[p].draft] # Unmade
  BY DEF NightsInv, RowsInv, SubmitBooks, Books, Idle
<1>2. PICK d \in Drafts : d = submit[p].draft /\ draft[d].stay \in StayChoices
  BY <1>1 DEF Reads, DraftRows
<1>3. /\ submit[p].at = "read" /\ Create(b, draft[d].stay, first, d) /\ UNCHANGED draft
      /\ submit' = [submit EXCEPT ![p] = [at |-> "booked", draft |-> d, booking |-> b]]
  BY <1>2 DEF SubmitBooks
<1>4. \A q \in Submits : submit'[q].at = "read" => submit'[q] = submit[q]
  BY <1>1, <1>3
<1>5. ASSUME NEW e \in Drafts, Consumed(e) PROVE DraftRests(e)
  <2>1. Consumed(e)' /\ MayBook(e)' \subseteq MayBook(e)
    BY <1>3, <1>4, <1>5 DEF Consumed, MayBook
  <2>2. CASE e # d
    <3>1. GivenBy(e)' = GivenBy(e)
      BY <1>2, <1>3, <2>2, CreateGives
    <3> QED BY <2>1, <3>1 DEF DraftRests
  <2>3. CASE e = d
    <3>1. GivenBy(e)' = GivenBy(e) \cup {b}
      BY <1>2, <1>3, <2>3, CreateGives
    <3>2. p \in MayBook(e) /\ p \notin MayBook(e)'
      BY <1>1, <1>2, <1>3, <2>3 DEF MayBook
    <3> QED BY <2>1, <3>1, <3>2 DEF DraftRests
  <2> QED BY <2>2, <2>3
<1> QED BY <1>5 DEF DraftsMove

LEMMA DraftsMoveOn == NightsInv /\ [StaysNext]_stayVars => DraftsMove
<1> SUFFICES ASSUME NightsInv, [StaysNext]_stayVars PROVE DraftsMove
  OBVIOUS
<1>0. submit \in [Submits -> {Idle} \cup Reads \cup Books]
  BY DEF NightsInv, RowsInv
<1>1. ASSUME UNCHANGED <<draft, submit>>, \A d \in Drafts : GivenBy(d)' = GivenBy(d)
      PROVE  DraftsMove
  BY <1>1, BookingRests DEF DraftsMove
<1>2. ASSUME NEW b \in Bookings,
             \/ Accept(b) \/ Decline(b) \/ Cancel(b) \/ Paid(b) \/ CheckIn(b)
             \/ Complete(b) \/ OpenDispute(b) \/ Expire(b)
      PROVE  DraftsMove
  <2>1. PICK st \in StayStatus :
          /\ booking[b].status \in StayStatus /\ booking' = [booking EXCEPT ![b].status = st]
          /\ UNCHANGED <<draft, submit>>
    BY <1>2 DEF Becomes, Accept, Decline, Cancel, Paid, CheckIn, Complete, OpenDispute, Expire,
                OnlyBooking, StayStatus
  <2>2. b \in Made
    BY <2>1, FoundIsMade
  <2> QED BY <1>1, <2>1, <2>2, StatusKeepsGiven
<1>3. ASSUME NEW b \in Bookings, NEW s \in StayChoices, RequestStay(b, s) \/ InstantStay(b, s)
      PROVE  DraftsMove
  <2>1. PICK first \in {"REQUESTED", "AWAITING_PAYMENT"} :
          Create(b, s, first, None) /\ UNCHANGED <<draft, submit>>
    BY <1>3 DEF RequestStay, InstantStay, OnlyBooking
  <2>2. \A d \in Drafts : GivenBy(d)' = GivenBy(d)
    BY <2>1, CreateGives, StaysAssumption
  <2> QED BY <1>1, <2>1, <2>2
<1>4. ASSUME UNCHANGED booking, UNCHANGED <<draft, submit>> PROVE DraftsMove
  BY <1>1, <1>4 DEF GivenBy, Made
<1>5. ASSUME NEW t \in Strikers, NEW b \in Bookings \cup {NoBooking}, StrikeCounts(t, b)
      PROVE  DraftsMove
  BY <1>4, <1>5 DEF StrikeCounts
<1>6. ASSUME NEW t \in Strikers, StrikeCommits(t) PROVE DraftsMove
  <2> DEFINE b == striker[t].booking
  <2>1. UNCHANGED <<draft, submit>>
    BY <1>6 DEF StrikeCommits
  <2>2. CASE b = NoBooking
    BY <1>4, <1>6, <2>1, <2>2 DEF StrikeCommits
  <2>3. CASE b # NoBooking
    <3>1. b \in Made
      BY <2>3 DEF NightsInv, RowsInv
    <3>2. booking' = [booking EXCEPT ![b].status = "OVER"] /\ "OVER" \in StayStatus
      BY <1>6, <2>3 DEF StrikeCommits, StayStatus
    <3> HIDE DEF b
    <3> QED BY <1>1, <2>1, <3>1, <3>2, StatusKeepsGiven
  <2> QED BY <2>2, <2>3
<1>7. ASSUME NEW p \in Submits, SubmitStops(p) PROVE DraftsMove
  <2>1. UNCHANGED <<booking, draft>> /\ submit' = [submit EXCEPT ![p] = Idle]
    BY <1>7 DEF SubmitStops
  <2>2. \A q \in Submits : submit'[q].at = "read" => submit'[q] = submit[q]
    BY <1>0, <2>1 DEF Idle
  <2>3. \A d \in Drafts : GivenBy(d)' = GivenBy(d) /\ (Consumed(d) => Consumed(d)')
    BY <2>1 DEF GivenBy, Made, Consumed
  <2> QED BY <2>2, <2>3, RestsAnyhow DEF DraftsMove
<1>8. CASE UNCHANGED stayVars
  BY <1>4, <1>8 DEF stayVars
<1>9. CASE Handling
  BY <1>2, <1>3, <1>5, <1>7, <1>9, ReadMoves, WriteMoves, ConsumeMoves, BookMoves DEF Handling
<1> QED BY <1>2, <1>6, <1>8, <1>9 DEF StaysNext

LEMMA NightsInvariant == StaysSpec => []NightsInv
BY InitEstablishes, StepKeeps, PTL DEF StaysSpec

\* Once a draft is consumed it gives at most the bookings of the submits that were past
\* the gate by then, one each, for any number of calls that come to their end, stop
\* half way or are repeated (concierge/booking.ts:177, :215).
THEOREM LateSubmitsBookOnce == StaysSpec => ConsumedDraftRests
<1> DEFINE Rests(d) ==
      /\ MayBook(d)' \subseteq MayBook(d)
      /\ \A b \in GivenBy(d)' \ GivenBy(d) :
           GivenBy(d)' = GivenBy(d) \cup {b} /\ MayBook(d)' # MayBook(d)
<1>1. ASSUME NightsInv, [StaysNext]_stayVars
      PROVE  [\A d \in Drafts : Consumed(d) => Rests(d)]_stayVars
  BY <1>1, DraftsMoveOn DEF DraftsMove, DraftRests
<1> QED BY <1>1, NightsInvariant, PTL DEF StaysSpec, ConsumedDraftRests

\* Nor is the mark ever taken back: a consumed draft stays consumed, though a call that read
\* it before may replace the booking it names.
THEOREM ConsumedForGood == StaysSpec => [][\A d \in Drafts : Consumed(d) => Consumed(d)']_stayVars
<1>1. ASSUME NightsInv, [StaysNext]_stayVars
      PROVE  [\A d \in Drafts : Consumed(d) => Consumed(d)']_stayVars
  BY <1>1, DraftsMoveOn DEF DraftsMove, DraftRests
<1> QED BY <1>1, NightsInvariant, PTL DEF StaysSpec

-----------------------------------------------------------------------------
(* The calendar keeps its promise.                                           *)

\* A step writes the row of one booking at most, and never its nights.
OneBookingMoves ==
  \E b \in Bookings :
    /\ \A c \in Bookings \ {b} : booking'[c] = booking[c]
    /\ b \in Made => booking'[b].stay = booking[b].stay

LEMMA CreateMovesOne ==
  ASSUME NightsInv, NEW b \in Bookings, NEW s, NEW first, NEW from, Create(b, s, first, from)
  PROVE  OneBookingMoves
<1>1. booking \in [Bookings -> {Unmade} \cup BookingRows]
  BY DEF NightsInv, RowsInv
<1>2. b \notin Made
  BY DEF Create, Made, Unmade
<1>3. \A c \in Bookings \ {b} : booking'[c] = booking[c]
  BY <1>1 DEF Create
<1> QED BY <1>2, <1>3 DEF OneBookingMoves

LEMMA StatusMovesOne ==
  ASSUME NightsInv, NEW b \in Bookings, NEW st, booking' = [booking EXCEPT ![b].status = st]
  PROVE  OneBookingMoves
<1>1. booking \in [Bookings -> {Unmade} \cup BookingRows]
  BY DEF NightsInv, RowsInv
<1>2. \A c \in Bookings \ {b} : booking'[c] = booking[c]
  BY <1>1
<1>3. ASSUME b \in Made PROVE booking'[b].stay = booking[b].stay
  <2>1. booking[b] \in BookingRows
    BY <1>3, MadeRow DEF NightsInv
  <2>2. booking'[b] = [booking[b] EXCEPT !.status = st]
    BY <1>1
  <2> QED BY <2>1, <2>2 DEF BookingRows
<1> QED BY <1>2, <1>3 DEF OneBookingMoves

LEMMA StepMovesOne ==
  ASSUME NightsInv, [StaysNext]_stayVars
  PROVE  UNCHANGED booking \/ OneBookingMoves
<1>1. CASE Handling
  <2>1. ASSUME NEW b \in Bookings, NEW s \in StayChoices, RequestStay(b, s) \/ InstantStay(b, s)
        PROVE  OneBookingMoves
    BY <2>1, CreateMovesOne DEF RequestStay, InstantStay
  <2>2. ASSUME NEW b \in Bookings,
               \/ Accept(b) \/ Decline(b) \/ Cancel(b) \/ Paid(b) \/ CheckIn(b)
               \/ Complete(b) \/ OpenDispute(b)
        PROVE  OneBookingMoves
    BY <2>2, StatusMovesOne DEF Becomes, Accept, Decline, Cancel, Paid, CheckIn, Complete, OpenDispute
  <2>3. ASSUME NEW t \in Strikers, NEW b \in Bookings \cup {NoBooking}, StrikeCounts(t, b)
        PROVE  UNCHANGED booking
    BY <2>3 DEF StrikeCounts
  <2>4. ASSUME NEW d \in Drafts,
               \/ ConfirmDraft(d) \/ WindowCloses(d)
               \/ \E s \in StayChoices : CreateDraft(d, s)
               \/ \E p \in Submits : SubmitReads(p, d)
        PROVE  UNCHANGED booking
    BY <2>4 DEF ConfirmDraft, WindowCloses, CreateDraft, SubmitReads
  <2>5. ASSUME NEW p \in Submits, SubmitConsumes(p) \/ SubmitStops(p)
        PROVE  UNCHANGED booking
    BY <2>5 DEF SubmitConsumes, SubmitStops
  <2>6. ASSUME NEW p \in Submits, NEW b \in Bookings,
               NEW first \in {"REQUESTED", "AWAITING_PAYMENT"}, SubmitBooks(p, b, first)
        PROVE  OneBookingMoves
    BY <2>6, CreateMovesOne DEF SubmitBooks
  <2> QED BY <1>1, <2>1, <2>2, <2>3, <2>4, <2>5, <2>6 DEF Handling
<1>2. ASSUME NEW b \in Bookings, Expire(b) PROVE OneBookingMoves
  BY <1>2, StatusMovesOne DEF Becomes, Expire
<1>3. ASSUME NEW t \in Strikers, StrikeCommits(t) PROVE UNCHANGED booking \/ OneBookingMoves
  <2>1. striker[t].booking \in Bookings \cup {NoBooking}
    BY DEF NightsInv, RowsInv
  <2> QED BY <1>3, <2>1, StatusMovesOne DEF StrikeCommits
<1>4. CASE UNCHANGED stayVars
  BY <1>4 DEF stayVars
<1> QED BY <1>1, <1>2, <1>3, <1>4 DEF StaysNext

\* Who holds nights holds those of a stay, and no night of another booking.
HeldApart ==
  \A b \in Bookings :
    /\ HeldNights(b) # {} => b \in Made
    /\ b \in Made => booking[b].stay \in StayChoices
    /\ booking[b].status \in ActiveStatuses => HeldNights(b) # {}
    /\ \A c \in Bookings \ {b} : HeldNights(b) \cap HeldNights(c) = {}

LEMMA NightsApart == NightsInv => HeldApart
<1> SUFFICES ASSUME NightsInv, NEW b \in Bookings
             PROVE  /\ HeldNights(b) # {} => b \in Made
                    /\ b \in Made => booking[b].stay \in StayChoices
                    /\ booking[b].status \in ActiveStatuses => HeldNights(b) # {}
                    /\ \A c \in Bookings \ {b} : HeldNights(b) \cap HeldNights(c) = {}
  BY DEF HeldApart
<1>1. \A d \in Bookings : booking[d].status \in ActiveStatuses => d \in Made
  BY DEF Made, ActiveStatuses, None
<1>2. \A d \in Made : booking[d].stay \in StayChoices
  BY MadeRow DEF NightsInv, Made, BookingRows
<1>3. \A s \in StayChoices : s[1] \in Int /\ s[2] \in Int /\ s[1] < s[2]
  BY StaysAssumption
<1>4. booking[b].status \in ActiveStatuses => HeldNights(b) # {}
  BY <1>1, <1>2, <1>3 DEF HeldNights
<1>5. ASSUME NEW c \in Bookings \ {b} PROVE HeldNights(b) \cap HeldNights(c) = {}
  <2>1. CASE booking[b].status \in ActiveStatuses /\ booking[c].status \in ActiveStatuses
    <3>1. ~Overlap(booking[b].stay, booking[c].stay)
      BY <1>1, <1>5, <2>1 DEF NightsInv, NoDoubleBooking
    <3>2. booking[b].stay \in StayChoices /\ booking[c].stay \in StayChoices
      BY <1>1, <1>2, <1>5, <2>1
    <3>3. booking[c].stay[1] >= booking[b].stay[2] \/ booking[b].stay[1] >= booking[c].stay[2]
      BY <1>3, <3>1, <3>2 DEF Overlap
    <3> QED BY <1>3, <2>1, <3>2, <3>3 DEF HeldNights
  <2>2. CASE ~(booking[b].status \in ActiveStatuses /\ booking[c].status \in ActiveStatuses)
    BY <2>2 DEF HeldNights
  <2> QED BY <2>1, <2>2
<1> QED BY <1>1, <1>2, <1>4, <1>5 DEF HeldNights

\* The only step on the calendar is that of one booking which takes or gives back.
LEMMA CalendarStep ==
  ASSUME NightsInv, NightsInv', [StaysNext]_stayVars
  PROVE  [Calendar!CalendarNext]_([b \in Bookings |-> HeldNights(b)])
<1> DEFINE held == [b \in Bookings |-> HeldNights(b)]
<1>0. HeldApart /\ HeldApart'
  BY NightsApart, PTL
<1>1. CASE UNCHANGED booking
  BY <1>1 DEF HeldNights
<1>2. CASE OneBookingMoves
  <2>1. PICK b \in Bookings :
          /\ \A c \in Bookings \ {b} : booking'[c] = booking[c]
          /\ b \in Made => booking'[b].stay = booking[b].stay
    BY <1>2 DEF OneBookingMoves
  <2>2. \A c \in Bookings \ {b} : HeldNights(c)' = HeldNights(c)
    BY <2>1 DEF HeldNights
  <2>3. held' = [held EXCEPT ![b] = HeldNights(b)']
    BY <2>2
  <2>4. CASE HeldNights(b)' = HeldNights(b)
    BY <2>3, <2>4
  <2>5. CASE HeldNights(b) # {} /\ HeldNights(b)' = {}
    BY <2>3, <2>5 DEF Calendar!CalendarNext, Calendar!GiveBack
  <2>6. CASE HeldNights(b) # {} /\ HeldNights(b)' # {}
    <3>1. HeldNights(b)' = HeldNights(b)
      BY <1>0, <2>1, <2>6 DEF HeldNights, HeldApart
    <3> QED BY <2>4, <3>1
  <2>7. CASE HeldNights(b) = {} /\ HeldNights(b)' # {}
    <3> DEFINE first == booking'[b].stay[1]
               last == booking'[b].stay[2] - 1
    <3>1. HeldNights(b)' = first .. last
      BY <2>7 DEF HeldNights
    <3>2. booking'[b].stay \in StayChoices
      BY <1>0, <2>7 DEF HeldApart
    <3>3. first \in 0 .. LastDay - 1 /\ last \in 0 .. LastDay - 1 /\ first <= last
      BY <3>2, StaysAssumption
    <3>4. \A c \in Bookings \ {b} : HeldNights(b)' \cap HeldNights(c)' = {}
      BY <1>0 DEF HeldApart
    <3>5. \A c \in Bookings : held[c] \cap (first .. last) = {}
      BY <2>2, <2>7, <3>1, <3>4
    <3> HIDE DEF first, last
    <3>6. Calendar!Take(b, first, last)
      BY <2>3, <2>7, <3>1, <3>3, <3>5 DEF Calendar!Take
    <3> QED BY <3>3, <3>6 DEF Calendar!CalendarNext
  <2> QED BY <2>4, <2>5, <2>6, <2>7
<1> QED BY <1>1, <1>2, StepMovesOne

\* Stays implements CalendarPromise, for any number of bookings, drafts, submits and
\* strikes: no handler takes a part of a stay, moves it, or takes a night that is held.
THEOREM StaysKeepPromise == StaysSpec => NightsPromised
<1>1. StaysInit => Calendar!CalendarInit
  BY DEF StaysInit, Calendar!CalendarInit, HeldNights, Unmade, ActiveStatuses, None
<1>2. NightsInv /\ NightsInv' /\ [StaysNext]_stayVars
        => [Calendar!CalendarNext]_([b \in Bookings |-> HeldNights(b)])
  BY CalendarStep
<1> QED BY <1>1, <1>2, NightsInvariant, PTL DEF StaysSpec, NightsPromised, Calendar!CalendarSpec
=============================================================================
