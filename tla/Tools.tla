------------------------------- MODULE Tools -------------------------------
(***************************************************************************)
(* The tools with which the concierge answers a guest about one villa      *)
(* (concierge/tools.ts, concierge/booking.ts), while its host, an admin    *)
(* and other guests change it: search, availability, details, attractions  *)
(* nearby, saved villas, the draft and its submission.  What search_       *)
(* listings, check_availability and create_booking_draft say of one stay   *)
(* comes from three different queries.                                     *)
(*                                                                         *)
(* A price is the villa's price level and the number of guests: the quote  *)
(* is in Catalogue, the draft's token in Stays, the turn in Concierge.     *)
(***************************************************************************)
EXTENDS Naturals, FiniteSets

CONSTANTS
  Asks,        \* what a guest asks for: records of check-in, check-out and guests
  BlockDays,   \* bound: the pairs of first and last day a host may block
  OtherStays,  \* bound: the pairs of check-in and check-out of other bookings
  Capacity,    \* maxGuests
  MaxChanges   \* bound: changes of the villa by others

ASSUME ToolsAssumption ==
  /\ Asks \subseteq [in : Nat, out : Nat, guests : Nat \ {0}]
  /\ BlockDays \subseteq Nat \X Nat /\ OtherStays \subseteq Nat \X Nat
  /\ Capacity \in Nat /\ MaxChanges \in Nat

VARIABLES
  villaRow,  \* status, booking mode and price of the Listing row
  blocked,   \* its CalendarBlock rows
  taken,     \* the stays that other bookings hold
  bookmarked,\* whether the guest has saved it
  answers,   \* the last two answers, as long as nothing has changed since
  run,       \* the tool running
  proposal,  \* the ConciergeBookingDraft
  made,      \* the booking made from it
  changes

toolVars == <<villaRow, blocked, taken, bookmarked, answers, run, proposal, made, changes>>

Nobody == [tool |-> "none"]
Unsaid == [last |-> Nobody, before |-> Nobody]
NoRun == [at |-> "none"]
NoProposal == [at |-> "none"]
NoBooking == [at |-> "none"]

ToolsInit ==
  /\ villaRow \in [published : BOOLEAN, mode : {"REQUEST", "INSTANT"}, price : {1}]
  /\ blocked \in SUBSET BlockDays
  /\ taken \in {{}} \cup {{s} : s \in OtherStays}
  /\ bookmarked \in BOOLEAN
  /\ answers = Unsaid
  /\ run = NoRun /\ proposal = NoProposal /\ made = NoBooking
  /\ changes = 0

Quote(v, ask) == <<v.price, ask.guests>>

-----------------------------------------------------------------------------
(* What others do meanwhile                                                  *)

\* What was said is of before the change.
Changed ==
  /\ changes < MaxChanges
  /\ changes' = changes + 1
  /\ answers' = Unsaid
  /\ run' = IF run.at = "none" THEN run ELSE [run EXCEPT !.clean = FALSE]
  /\ UNCHANGED <<bookmarked, proposal, made>>

HostEdits ==
  /\ \/ villaRow' = [villaRow EXCEPT !.published = ~@]
     \/ villaRow' = [villaRow EXCEPT !.price = 3 - @]
     \/ villaRow' = [villaRow EXCEPT !.mode = IF @ = "INSTANT" THEN "REQUEST" ELSE "INSTANT"]
  /\ Changed /\ UNCHANGED <<blocked, taken>>

\* addCalendarBlock and removeCalendarBlock, from a tap on the host's calendar.
HostBlocks ==
  /\ \E b \in BlockDays : blocked' = IF b \in blocked THEN blocked \ {b} ELSE blocked \cup {b}
  /\ Changed /\ UNCHANGED <<villaRow, taken>>

\* Another guest's booking takes its nights, or gives them back.
OthersBook ==
  /\ \E s \in OtherStays : taken' = IF s \in taken THEN taken \ {s} ELSE {s}
  /\ Changed /\ UNCHANGED <<villaRow, blocked>>

\* The heart on the villa's page.
Bookmark ==
  /\ run = NoRun
  /\ bookmarked' = ~bookmarked
  /\ answers' = Unsaid
  /\ UNCHANGED <<villaRow, blocked, taken, run, proposal, made, changes>>

-----------------------------------------------------------------------------
(* The queries                                                               *)

\* Mutant: the search looks at the first night only.
BlockHidesArrival(b, ask) == b[1] <= ask.in /\ b[2] >= ask.in

\* searchListings: a block on the check-out day hides the villa too.
BlockHides(b, ask) == b[1] <= ask.out /\ b[2] >= ask.in

\* check_availability's and createDraft's calendarConflict.
BlockConflicts(b, ask) == b[1] < ask.out /\ b[2] > ask.in

BookingConflicts(s, ask) == s[1] < ask.out /\ s[2] > ask.in

\* searchListings: bookings are not looked at.
SearchListings(ask) ==
  villaRow.published /\ Capacity >= ask.guests /\ \A b \in blocked : ~BlockHides(b, ask)

Say(what) == answers' = [last |-> what, before |-> answers.last]
AtOnce(what) == run = NoRun /\ Say(what)

-----------------------------------------------------------------------------
(* Tools of one query                                                        *)

\* search_listings; a budget is compared with the base price, and leaves the villa out.
SearchTool(ask, within) ==
  /\ AtOnce([tool |-> "search", ask |-> ask, listed |-> SearchListings(ask) /\ within])
  /\ UNCHANGED <<villaRow, blocked, taken, bookmarked, run, proposal, made, changes>>

\* The search page, with the dates and the guests of its address, and perhaps for
\* instant booking only.
SearchPage(ask, instantOnly) ==
  /\ AtOnce([tool |-> "search", ask |-> ask,
       listed |-> SearchListings(ask) /\ (instantOnly => villaRow.mode = "INSTANT")])
  /\ UNCHANGED <<villaRow, blocked, taken, bookmarked, run, proposal, made, changes>>

GetListingDetails ==
  /\ AtOnce([tool |-> "details", known |-> villaRow.published,
             price |-> IF villaRow.published THEN villaRow.price ELSE 0])
  /\ UNCHANGED <<villaRow, blocked, taken, bookmarked, run, proposal, made, changes>>

GetNearbyAttractions ==
  /\ AtOnce([tool |-> "nearby", known |-> villaRow.published])
  /\ UNCHANGED <<villaRow, blocked, taken, bookmarked, run, proposal, made, changes>>

GetSavedListings ==
  /\ AtOnce([tool |-> "saved", listed |-> bookmarked /\ villaRow.published])
  /\ UNCHANGED <<villaRow, blocked, taken, bookmarked, run, proposal, made, changes>>

-----------------------------------------------------------------------------
(* Availability and draft: one read after another                            *)

\* A tool that began before a change answers of both worlds.
Finish(what) ==
  /\ IF run.clean THEN Say(what) ELSE UNCHANGED answers
  /\ run' = NoRun

No(why) == [tool |-> run.tool, ask |-> run.ask, free |-> FALSE, why |-> why]
Yes == [tool |-> run.tool, ask |-> run.ask, free |-> TRUE, total |-> Quote(run.read, run.ask)]

\* checkAvailabilityHandler and createDraft load the listing.
ReadListing(tool, ask) ==
  /\ run = NoRun /\ (tool = "draft" => proposal = NoProposal)
  /\ run' = [at |-> "listing", tool |-> tool, ask |-> ask, read |-> villaRow, clean |-> TRUE]
  /\ UNCHANGED <<villaRow, blocked, taken, bookmarked, answers, proposal, made, changes>>

\* Unpublished, or too small.
Refuses ==
  /\ run.at = "listing" /\ ~(run.read.published /\ run.ask.guests <= Capacity)
  /\ Finish(No(IF run.read.published THEN "capacity" ELSE "unknown"))
  /\ UNCHANGED <<villaRow, blocked, taken, bookmarked, proposal, made, changes>>

ReadCalendar ==
  /\ run.at = "listing" /\ run.read.published /\ run.ask.guests <= Capacity
  /\ IF \E b \in blocked : BlockConflicts(b, run.ask)
     THEN Finish(No("blocked"))
     ELSE run' = [run EXCEPT !.at = "calendar"] /\ UNCHANGED answers
  /\ UNCHANGED <<villaRow, blocked, taken, bookmarked, proposal, made, changes>>

ReadBookings ==
  /\ run.at = "calendar"
  /\ IF \E s \in taken : BookingConflicts(s, run.ask)
     THEN Finish(No("booked"))
     ELSE run' = [run EXCEPT !.at = "bookings"] /\ UNCHANGED answers
  /\ UNCHANGED <<villaRow, blocked, taken, bookmarked, proposal, made, changes>>

\* The quote is made from the listing as it was read.
CheckAvailability ==
  /\ run.at = "bookings" /\ run.tool = "availability"
  /\ Finish(Yes)
  /\ UNCHANGED <<villaRow, blocked, taken, bookmarked, proposal, made, changes>>

CreateBookingDraft ==
  /\ run.at = "bookings" /\ run.tool = "draft"
  /\ proposal' = [at |-> "draft", ask |-> run.ask, total |-> Quote(run.read, run.ask)]
  /\ Finish(Yes)
  /\ UNCHANGED <<villaRow, blocked, taken, bookmarked, made, changes>>

-----------------------------------------------------------------------------
(* The draft                                                                 *)

\* The guest taps confirm on the card.
ConfirmDraft ==
  /\ run = NoRun /\ proposal.at = "draft"
  /\ proposal' = [proposal EXCEPT !.at = "confirmed"]
  /\ UNCHANGED <<villaRow, blocked, taken, bookmarked, answers, run, made, changes>>

\* submitDraft loads the draft, and the mode of the listing; its status and its
\* calendar are not looked at again.
SubmitReads ==
  /\ run = NoRun /\ proposal.at = "confirmed"
  /\ run' = [at |-> "submit", mode |-> villaRow.mode, clean |-> TRUE]
  /\ UNCHANGED <<villaRow, blocked, taken, bookmarked, answers, proposal, made, changes>>

\* Mutant: the submission prices the stay again.
SubmitRequoted ==
  /\ run.at = "submit"
  /\ made' = [at |-> run.mode, ask |-> proposal.ask, total |-> Quote(villaRow, proposal.ask),
              shown |-> proposal.total, over |-> \E s \in taken : BookingConflicts(s, proposal.ask)]
  /\ proposal' = NoProposal
  /\ run' = NoRun
  /\ UNCHANGED <<villaRow, blocked, taken, bookmarked, answers, changes>>

\* instantHold or request, with the terms of the draft; an instant hold on nights
\* that are taken is refused by the database.
SubmitBookingRequest ==
  /\ run.at = "submit"
  /\ LET over == \E s \in taken : BookingConflicts(s, proposal.ask) IN
     IF run.mode = "INSTANT" /\ over
     THEN UNCHANGED <<made, proposal>>
     ELSE /\ made' = [at |-> run.mode, ask |-> proposal.ask, total |-> proposal.total,
                      shown |-> proposal.total, over |-> over]
          /\ proposal' = NoProposal
  /\ run' = NoRun
  /\ UNCHANGED <<villaRow, blocked, taken, bookmarked, answers, changes>>

\* Its half hour, or that of the confirmation, is over.
DraftExpires ==
  /\ run = NoRun /\ proposal # NoProposal
  /\ proposal' = NoProposal
  /\ UNCHANGED <<villaRow, blocked, taken, bookmarked, answers, run, made, changes>>

-----------------------------------------------------------------------------
ToolsNext ==
  \/ HostEdits \/ HostBlocks \/ OthersBook \/ Bookmark
  \/ \E ask \in Asks, narrow \in BOOLEAN : SearchTool(ask, narrow) \/ SearchPage(ask, narrow)
  \/ GetListingDetails \/ GetNearbyAttractions \/ GetSavedListings
  \/ \E tool \in {"availability", "draft"}, ask \in Asks : ReadListing(tool, ask)
  \/ Refuses \/ ReadCalendar \/ ReadBookings \/ CheckAvailability \/ CreateBookingDraft
  \/ ConfirmDraft \/ SubmitReads \/ SubmitBookingRequest \/ DraftExpires

ToolsSpec == ToolsInit /\ [][ToolsNext]_toolVars

-----------------------------------------------------------------------------
(* Properties                                                                *)

\* The last two answers, whichever came first.
Said2(a, b) == {a, b} = {answers.last.tool, answers.before.tool}
Of(tool) == IF answers.last.tool = tool THEN answers.last ELSE answers.before

\* As long as nothing changes, a stay that check_availability calls free can be
\* drafted, at the price it named, and one it refuses is refused for the same reason.
DraftFollowsAvailability ==
  LET says == Of("availability") does == Of("draft") IN
  Said2("availability", "draft") /\ says.ask = does.ask
    => says = [does EXCEPT !.tool = "availability"]

\* A villa the search offers for a stay is at worst taken by another booking.
SearchFollowsAvailability ==
  LET found == Of("search") says == Of("availability") IN
  Said2("search", "availability") /\ found.ask = says.ask /\ found.listed /\ ~says.free
    => says.why = "booked"

\* The search never offers a stay with a night the villa's own calendar shows as
\* blocked: both ends of a block are blocked days, the check-out day is no night.
SearchHidesBlockedNights ==
  \A a \in {answers.last, answers.before} :
    a.tool = "search" /\ a.listed => \A b \in blocked : ~(b[1] < a.ask.out /\ b[2] >= a.ask.in)

\* The tools agree on whether there is a villa to speak of, and on its price.
OneVilla ==
  /\ Said2("details", "nearby") => Of("details").known = Of("nearby").known
  /\ Said2("details", "saved") /\ Of("saved").listed => Of("details").known
  /\ Said2("details", "availability") /\ Of("availability").free
       => Of("details").price = Of("availability").total[1]

\* The booking has the price on the card that the guest confirmed, whatever the host
\* has changed since; and an instant one never lies over another booking.
BookedAsDrafted ==
  made # NoBooking => made.total = made.shown /\ (made.at = "INSTANT" => ~made.over)

\* What one tool says another keeps (concierge/tools.ts:168-689).
ToolsAgree ==
  /\ DraftFollowsAvailability /\ SearchFollowsAvailability /\ SearchHidesBlockedNights
  /\ OneVilla /\ BookedAsDrafted

\* calendar.ts:29: "Add a self-block over `[startDate, endDate]` (inclusive `@db.Date`
\* range)".  A stay that starts on the last day of a block is called free.
FreeIsUnblocked ==
  \A a \in {answers.last, answers.before} :
    a.tool \in {"availability", "draft"} /\ a.free
      => \A b \in blocked : ~(b[1] < a.ask.out /\ b[2] >= a.ask.in)
=============================================================================
