------------------------------- MODULE Stays -------------------------------
(***************************************************************************)
(* The nights of one villa: requests, instant holds and concierge drafts   *)
(* that compete for them, the exclusion constraint that settles the        *)
(* competition, and the strikes that end in the host's suspension.         *)
(*                                                                         *)
(* Several bookings exist here, each reduced to its nights and its status; *)
(* the money of one booking is in Booking.  A stay is the pair of its      *)
(* check-in and check-out day, check-out excluded.  Whether the listing is *)
(* published, and its booking mode, are the host's and the admin's to      *)
(* change at any moment (Listings): a handler that reads them reads        *)
(* either value.  Statuses that no code here tells apart are one, "OVER":  *)
(* COMPLETED, DECLINED, EXPIRED, CANCELLED_BY_GUEST, CANCELLED_BY_HOST.    *)
(***************************************************************************)
EXTENDS Integers, FiniteSets

None == "none"

CONSTANTS
  LastDay,       \* bound: days are 0 .. LastDay
  StayChoices,   \* the stays guests ask for
  Bookings,      \* bound: bookings ever made, numbered in order of creation
  Drafts,        \* ConciergeBookingDraft rows
  Submits,       \* bound: submitDraft calls in progress at once
  EarlierStrikes, \* strikes the host may have from other bookings
  Strikers,       \* bound: transactions that strike the host, open at once
  MaxStrikes      \* bound: strikes ever given

ASSUME StaysAssumption ==
  /\ None \notin Drafts /\ Submits \subseteq Nat /\ Strikers \subseteq Nat
  /\ LastDay \in Nat /\ Bookings \subseteq Nat \ {0}
  /\ IsFiniteSet(Strikers) /\ Strikers # {} /\ MaxStrikes \in Nat
  /\ EarlierStrikes \subseteq 0 .. 2 /\ EarlierStrikes \subseteq 0 .. MaxStrikes
  /\ StayChoices \subseteq {s \in (0 .. LastDay) \X (0 .. LastDay) : s[1] < s[2]}

VARIABLES
  booking,    \* the stay and status of each booking, and the draft it came from
  draft,      \* each draft: its stay, the confirmation window, consumedBookingId
  submit,     \* the submitDraft calls in progress
  strikes,    \* HostStrike rows of the host
  suspended,  \* User.suspendedAt of the host is set
  striker     \* the striking transactions in progress: what they counted, for which booking

stayVars == <<booking, draft, submit, strikes, suspended, striker>>

NoBooking == 0
Unmade == [status |-> None]
NoStrike == [counted |-> 0, booking |-> NoBooking]
Idle == [at |-> "idle"]
Threshold == 3

StayStatus ==
  {"REQUESTED", "AWAITING_PAYMENT", "CONFIRMED", "CHECKED_IN", "DISPUTED", "OVER"}
Made == {b \in Bookings : booking[b].status # None}

StaysInit ==
  /\ booking = [b \in Bookings |-> Unmade]
  /\ draft = [d \in Drafts |-> Unmade]
  /\ submit = [p \in Submits |-> Idle]
  /\ strikes \in EarlierStrikes
  /\ suspended = FALSE
  /\ striker = [t \in Strikers |-> NoStrike]

-----------------------------------------------------------------------------
(* The exclusion constraint                                                  *)

ActiveStatuses == {"AWAITING_PAYMENT", "CONFIRMED", "CHECKED_IN"}

\* daterange(checkIn, checkOut) && daterange(...): check-out excluded.
Overlap(s, t) == s[1] < t[2] /\ t[1] < s[2]

\* Mutant: the constraint watches paid bookings only.
FreePaid(b, s) ==
  \A c \in Made \ {b} : booking[c].status \in {"CONFIRMED", "CHECKED_IN"} => ~Overlap(booking[c].stay, s)

\* booking_no_double_booking lets b stand in an active status over the nights s.
Free(b, s) ==
  \A c \in Made \ {b} : booking[c].status \in ActiveStatuses => ~Overlap(booking[c].stay, s)

\* A transaction that strikes the host holds the booking's row.
Unlocked(b) == \A t \in Strikers : striker[t].booking # b

Create(b, s, first, from) ==
  /\ booking[b] = Unmade /\ \A c \in Bookings : c < b => c \in Made
  /\ first = "AWAITING_PAYMENT" => Free(b, s)
  /\ booking' = [booking EXCEPT ![b] = [stay |-> s, status |-> first, from |-> from]]

\* Mutant: the constraint looks at new rows only.
BecomesUnchecked(b, old, new) ==
  /\ booking[b].status \in old /\ Unlocked(b)
  /\ booking' = [booking EXCEPT ![b].status = new]

Becomes(b, old, new) ==
  /\ booking[b].status \in old /\ Unlocked(b)
  /\ new \in ActiveStatuses => Free(b, booking[b].stay)
  /\ booking' = [booking EXCEPT ![b].status = new]

OnlyBooking == UNCHANGED <<draft, submit, strikes, suspended, striker>>

-----------------------------------------------------------------------------
(* Guests, host and sweeps                                                   *)

\* createBookingRequest: neither the calendar nor the dates are looked at.
RequestStay(b, s) ==
  /\ Create(b, s, "REQUESTED", None)
  /\ OnlyBooking

\* createInstantBooking
InstantStay(b, s) ==
  /\ Create(b, s, "AWAITING_PAYMENT", None)
  /\ OnlyBooking

\* acceptRequest: when the nights are taken the update throws, and the request stays.
Accept(b) ==
  /\ ~suspended
  /\ Becomes(b, {"REQUESTED"}, "AWAITING_PAYMENT")
  /\ OnlyBooking

Decline(b) ==
  /\ ~suspended
  /\ Becomes(b, {"REQUESTED"}, "OVER")
  /\ OnlyBooking

Cancel(b) == Becomes(b, {"REQUESTED", "AWAITING_PAYMENT", "CONFIRMED"}, "OVER") /\ OnlyBooking
Paid(b) == Becomes(b, {"AWAITING_PAYMENT"}, "CONFIRMED") /\ OnlyBooking
CheckIn(b) == Becomes(b, {"CONFIRMED"}, "CHECKED_IN") /\ OnlyBooking
Complete(b) == Becomes(b, {"CHECKED_IN"}, "OVER") /\ OnlyBooking
OpenDispute(b) == Becomes(b, {"CHECKED_IN"}, "DISPUTED") /\ OnlyBooking

\* Mutant: the sweep forgets the requests nobody answered.
ExpireUnpaid(b) == Becomes(b, {"AWAITING_PAYMENT"}, "OVER") /\ OnlyBooking

\* sweepOverdueRequests and sweepOverduePayments, one row of theirs.
Expire(b) == Becomes(b, {"REQUESTED", "AWAITING_PAYMENT"}, "OVER") /\ OnlyBooking

-----------------------------------------------------------------------------
(* The concierge's draft                                                     *)

\* createDraft: no active booking over the stay.  (Nor a calendar block inside
\* it, which the host may add or remove at any time: see Tools.)
CreateDraft(d, s) ==
  /\ draft[d] = Unmade
  /\ \A c \in Made : booking[c].status \in ActiveStatuses => ~Overlap(booking[c].stay, s)
  /\ draft' = [draft EXCEPT ![d] = [stay |-> s, status |-> "open", consumed |-> NoBooking]]
  /\ UNCHANGED <<booking, submit, strikes, suspended, striker>>

\* confirmDraft: the guest's tap opens the ten-minute window, again if need be.
ConfirmDraft(d) ==
  /\ draft[d].status = "open" /\ draft[d].consumed = NoBooking
  /\ draft' = [draft EXCEPT ![d].status = "confirmed"]
  /\ UNCHANGED <<booking, submit, strikes, suspended, striker>>

\* The window closes, and the guest has to tap again; the draft itself runs
\* out when no tap comes any more.
WindowCloses(d) ==
  /\ draft[d].status = "confirmed"
  /\ draft' = [draft EXCEPT ![d].status = "open"]
  /\ UNCHANGED <<booking, submit, strikes, suspended, striker>>

\* Mutant: a draft that gave a booking already is submitted again.
SubmitReadsAgain(p, d) ==
  /\ submit[p] = Idle /\ \A q \in Submits : q < p => submit[q] # Idle
  /\ draft[d].status = "confirmed"
  /\ submit' = [submit EXCEPT ![p] = [at |-> "read", draft |-> d]]
  /\ UNCHANGED <<booking, draft, strikes, suspended, striker>>

\* submitDraft's gate.  The listing's mode is read here too; as it may be either,
\* SubmitBooks chooses it.  Neither calendar nor listing status is looked at again.
SubmitReads(p, d) ==
  /\ submit[p] = Idle /\ \A q \in Submits : q < p => submit[q] # Idle
  /\ draft[d].status = "confirmed" /\ draft[d].consumed = NoBooking
  /\ submit' = [submit EXCEPT ![p] = [at |-> "read", draft |-> d]]
  /\ UNCHANGED <<booking, draft, strikes, suspended, striker>>

\* instantHold or request; a constraint that fires is DATES_TAKEN.
SubmitBooks(p, b, first) ==
  LET d == submit[p].draft IN
  /\ submit[p].at = "read"
  /\ Create(b, draft[d].stay, first, d)
  /\ submit' = [submit EXCEPT ![p] = [at |-> "booked", draft |-> d, booking |-> b]]
  /\ UNCHANGED <<draft, strikes, suspended, striker>>

SubmitConsumes(p) ==
  /\ submit[p].at = "booked"
  /\ draft' = [draft EXCEPT ![submit[p].draft].consumed = submit[p].booking]
  /\ submit' = [submit EXCEPT ![p] = Idle]
  /\ UNCHANGED <<booking, strikes, suspended, striker>>

\* DATES_TAKEN, or a crash of the server between two of the writes.
SubmitStops(p) ==
  /\ submit[p] # Idle
  /\ submit' = [submit EXCEPT ![p] = Idle]
  /\ UNCHANGED <<booking, draft, strikes, suspended, striker>>

-----------------------------------------------------------------------------
(* Strikes                                                                   *)

Striking == {t \in Strikers : striker[t] # NoStrike}

\* issueStrike inside cancelByHost, the host-fault decision of a dispute or
\* strikeHostFromReport (no booking): insert, then count what is committed and
\* the row of one's own.
StrikeCounts(t, b) ==
  /\ striker[t] = NoStrike /\ \A u \in Strikers : u < t => striker[u] # NoStrike
  /\ strikes + Cardinality(Striking) < MaxStrikes
  /\ \/ b = NoBooking
     \/ b \in Made /\ Unlocked(b) /\ booking[b].status = "CONFIRMED" /\ ~suspended
     \/ b \in Made /\ Unlocked(b) /\ booking[b].status = "DISPUTED"
  /\ striker' = [striker EXCEPT ![t] = [counted |-> strikes + 1, booking |-> b]]
  /\ UNCHANGED <<booking, draft, submit, strikes, suspended>>

\* Mutant: only the third strike itself suspends.
SuspendsExactly(n) == n = Threshold

Suspends(n) == n >= Threshold

StrikeCommits(t) ==
  LET b == striker[t].booking IN
  /\ striker[t] # NoStrike
  /\ booking' = IF b = NoBooking THEN booking ELSE [booking EXCEPT ![b].status = "OVER"]
  /\ strikes' = strikes + 1
  /\ suspended' = (suspended \/ Suspends(striker[t].counted))
  /\ striker' = [striker EXCEPT ![t] = NoStrike]
  /\ UNCHANGED <<draft, submit>>

-----------------------------------------------------------------------------
Handling ==
  \/ \E b \in Bookings, s \in StayChoices : RequestStay(b, s) \/ InstantStay(b, s)
  \/ \E b \in Bookings :
       \/ Accept(b) \/ Decline(b) \/ Cancel(b) \/ Paid(b) \/ CheckIn(b) \/ Complete(b)
       \/ OpenDispute(b)
  \/ \E t \in Strikers, b \in Bookings \cup {NoBooking} : StrikeCounts(t, b)
  \/ \E d \in Drafts :
       \/ ConfirmDraft(d) \/ WindowCloses(d)
       \/ \E s \in StayChoices : CreateDraft(d, s)
       \/ \E p \in Submits : SubmitReads(p, d)
  \/ \E p \in Submits :
       \/ SubmitConsumes(p) \/ SubmitStops(p)
       \/ \E b \in Bookings, first \in {"REQUESTED", "AWAITING_PAYMENT"} : SubmitBooks(p, b, first)

StaysNext == Handling \/ (\E b \in Bookings : Expire(b)) \/ \E t \in Strikers : StrikeCommits(t)

StaysSpec == StaysInit /\ [][StaysNext]_stayVars

\* The minute tick expires what is overdue; a transaction ends.
StaysFairness ==
  /\ \A b \in Bookings : WF_stayVars(Expire(b))
  /\ \A t \in Strikers : WF_stayVars(StrikeCommits(t))
FairStaysSpec == StaysSpec /\ StaysFairness

-----------------------------------------------------------------------------
(* Properties                                                                *)

\* Every variable holds a value of its type.
StaysTypeOK ==
  /\ suspended \in BOOLEAN
  /\ \A b \in Made : /\ booking[b].status \in StayStatus /\ booking[b].stay \in StayChoices
                     /\ booking[b].from \in Drafts \cup {None}
  /\ \A d \in Drafts : draft[d] # Unmade =>
       /\ draft[d].status \in {"open", "confirmed"}
       /\ draft[d].consumed \in Bookings \cup {NoBooking}
  /\ strikes \in 0 .. MaxStrikes
  /\ striker \in [Strikers -> [counted : 0 .. MaxStrikes, booking : Bookings \cup {NoBooking}]]

\* No night is held twice: whatever requests, accepts, instant holds and drafts
\* do, two bookings in an active status never overlap (migration.sql:417).
NoDoubleBooking ==
  \A b, c \in Made :
    /\ b # c /\ booking[b].status \in ActiveStatuses /\ booking[c].status \in ActiveStatuses
    => ~Overlap(booking[b].stay, booking[c].stay)

\* What becomes of the nights is what CalendarPromise allows: those of a stay are taken
\* together, from nobody, kept as they are and given back together, whichever of
\* the bookings' handlers, drafts and strikes does it.
HeldNights(b) ==
  IF booking[b].status \in ActiveStatuses
  THEN booking[b].stay[1] .. booking[b].stay[2] - 1
  ELSE {}
Calendar == INSTANCE CalendarPromise WITH
  Nights <- 0 .. LastDay - 1, held <- [b \in Bookings |-> HeldNights(b)]
NightsPromised == Calendar!CalendarSpec

\* One draft never holds its nights twice, though two submits of it may run at
\* once: of the bookings it gave, at most one is in an active status.
DraftHoldsOnce ==
  \A b, c \in Made :
    /\ b # c /\ booking[b].from # None /\ booking[b].from = booking[c].from
    => ~(booking[b].status \in ActiveStatuses /\ booking[c].status \in ActiveStatuses)

\* A consumed draft gives no more bookings than submits of it were already past the
\* gate: from then on no other submit gets through, and each booking that one of
\* those still makes is its last.  So a repeat of the call after the first one came to
\* its end is safe; two calls at once may both book, if the nights let them
\* (concierge/booking.ts:177, :215).
Consumed(d) == draft[d] # Unmade /\ draft[d].consumed # NoBooking
MayBook(d) == {p \in Submits : submit[p].at = "read" /\ submit[p].draft = d}
GivenBy(d) == {b \in Made : booking[b].from = d}
ConsumedDraftRests ==
  [][\A d \in Drafts : Consumed(d) =>
       /\ MayBook(d)' \subseteq MayBook(d)
       /\ \A b \in GivenBy(d)' \ GivenBy(d) :
            GivenBy(d)' = GivenBy(d) \cup {b} /\ MayBook(d)' # MayBook(d)]_stayVars

\* Strikes counted by transactions that overlap miss each other, so a host may
\* reach the threshold unsuspended; but no further strikes pass than there were
\* transactions open beside the last one (strikes.ts:24-27).
SuspensionComes == ~suspended => strikes <= (Threshold - 1) + (Cardinality(Strikers) - 1)

\* What the submits of one draft, and the strikes of one host, come to when they overlap.
StaysInv == StaysTypeOK /\ DraftHoldsOnce /\ SuspensionComes

\* Nothing waits for ever: every request and every unpaid hold is answered, paid,
\* withdrawn or expired, and its nights come free, even when the host is
\* suspended and can neither accept nor decline.
WaitingEnds ==
  \A b \in Bookings : booking[b].status \in {"REQUESTED", "AWAITING_PAYMENT"}
    ~> booking[b].status \notin {"REQUESTED", "AWAITING_PAYMENT"}
=============================================================================
