----------------------------- MODULE Catalogue -----------------------------
(***************************************************************************)
(* What one published villa costs: the price of a night, the edits of      *)
(* rates, seasons and booking mode, and the screens on which a guest is    *)
(* shown a price before a request or an instant hold fixes it.             *)
(*                                                                         *)
(* Days are numbers, and the night n ends on the day n + 1.  Every screen, *)
(* and every action behind one, reads the villa again and prices the stay  *)
(* by itself; the host's save of the pricing form is three transactions.   *)
(* Whether the nights are taken by other bookings is in Stays; a villa     *)
(* that is unpublished meanwhile (Listings) only ends what is open here;   *)
(* its calendar of blocked days, and what the concierge says of it, are in *)
(* Tools.                                                                  *)
(***************************************************************************)
EXTENDS Integers, FiniteSets

CONSTANTS
  LastDay,      \* bound: days are 0 .. LastDay
  Weekend,      \* the nights of a Friday or a Saturday
  Holidays,     \* the dates of the ThaiHoliday table
  Stays,        \* the stays asked for: pairs of check-in and check-out
  Forms,        \* what a host may enter in the pricing form: mode, rates, seasons
  Parties,      \* numbers of guests
  Saves         \* bound: saves of the pricing form, each made once

NoRate == -1
Amount == Nat \ {0}
Modes == {"REQUEST", "INSTANT"}

\* What step5Schema and seasonInputSchema let through: every price is positive.
Rates == [weekday : Amount, weekend : Amount, holiday : Amount \cup {NoRate},
          included : Nat \ {0}, fee : Nat]
Season == [first : Nat, last : Nat, weekday : Amount, weekend : Amount, row : Nat]

ASSUME CatalogueAssumption ==
  /\ LastDay \in Nat /\ Saves \subseteq Nat /\ Parties \subseteq Nat \ {0}
  /\ Weekend \subseteq Nat /\ Holidays \subseteq Nat
  /\ Forms \subseteq [mode : Modes, rates : Rates, list : SUBSET Season]
  /\ Stays \subseteq {s \in (0 .. LastDay) \X (0 .. LastDay) : s[1] < s[2]}

VARIABLES
  villa,    \* the Listing row: mode, ack (instantAckAt is set), rates, seasons
  save,     \* the saves of the pricing form in progress
  screen    \* what the guest's browser shows, in the end the booking made from it

catVars == <<villa, save, screen>>

Nothing == [at |-> "none"]
Days == 0 .. LastDay

-----------------------------------------------------------------------------
(* Prices (quote.ts)                                                         *)

\* eachNight: the check-out day is no night of the stay.
Nights(stay) == stay[1] .. stay[2] - 1

InSeason(season, night) == season.first <= night /\ night <= season.last

\* Mutant: the eve of a holiday counts as an ordinary night.
PriceNightNoEve(v, night) ==
  LET season == {s \in v.seasons : InSeason(s, night)}
      layer == IF season # {} THEN CHOOSE s \in season : TRUE ELSE v.rates IN
  IF v.rates.holiday # NoRate /\ night \in Holidays THEN v.rates.holiday
  ELSE IF night \in Weekend THEN layer.weekend ELSE layer.weekday

\* Holiday, or the eve of one, before season before base.
PriceNight(v, night) ==
  LET season == {s \in v.seasons : InSeason(s, night)}
      layer == IF season # {} THEN CHOOSE s \in season : TRUE ELSE v.rates IN
  IF v.rates.holiday # NoRate /\ (night \in Holidays \/ night + 1 \in Holidays)
  THEN v.rates.holiday
  ELSE IF night \in Weekend THEN layer.weekend ELSE layer.weekday

ExtraGuests(v, guests) == IF guests > v.rates.included THEN guests - v.rates.included ELSE 0

\* Mutant: the commission is cut off instead of rounded.
CommissionCut(total) == total \div 10

\* Math.round(total / 10), which rounds a half up.
Commission(total) == (total + 5) \div 10

HostEarnings(total) == total - Commission(total)

\* sumSatang over the nights: what the nights before the day d add up to.
Subtotal(v, stay) ==
  LET sum[d \in stay[1] .. stay[2]] ==
        IF d = stay[1] THEN 0 ELSE sum[d - 1] + PriceNight(v, d - 1)
  IN  sum[stay[2]]

\* Mutant: the extra guests' fee is charged once for the stay.
TotalFlatFee(v, stay, guests) == Subtotal(v, stay) + ExtraGuests(v, guests) * v.rates.fee

Total(v, stay, guests) ==
  Subtotal(v, stay) + ExtraGuests(v, guests) * v.rates.fee * Cardinality(Nights(stay))

-----------------------------------------------------------------------------
(* The pricing form                                                          *)

Disjoint(seasons) ==
  \A s, t \in seasons : s # t => ~(s.first <= t.last /\ t.first <= s.last)

\* The wizard's submit goes through the same schema and the same comparison of seasons.
CatalogueInit ==
  /\ \E f \in Forms :
       /\ Disjoint(f.list)
       /\ villa = [mode |-> f.mode, ack |-> f.mode = "INSTANT", rates |-> f.rates, seasons |-> f.list]
  /\ save = [h \in Saves |-> Nothing]
  /\ screen = Nothing

\* editPricingAction, up to setBookingMode's load of the listing.
SaveStarts(h, form, ack) ==
  /\ save[h] = Nothing /\ \A k \in Saves : k < h => save[k] # Nothing
  /\ form.mode = "INSTANT" => villa.ack \/ ack
  /\ save' = [save EXCEPT ![h] = [at |-> "mode", mode |-> form.mode, acked |-> villa.ack,
                                  rates |-> form.rates, list |-> form.list]]
  /\ UNCHANGED <<villa, screen>>

\* The update of setBookingMode: the acknowledgment goes back as it was read.
SaveMode(h) ==
  LET form == save[h] IN
  /\ form.at = "mode"
  /\ villa' = [villa EXCEPT !.mode = form.mode, !.ack = form.acked \/ form.mode = "INSTANT"]
  /\ save' = [save EXCEPT ![h].at = "rates"]
  /\ UNCHANGED <<screen>>

\* The price on the guest's confirmation page is of before a save.
Outdated == IF screen.at = "confirm" THEN [screen EXCEPT !.fresh = FALSE] ELSE screen

\* editOperational with the rates.
SaveRates(h) ==
  /\ save[h].at = "rates"
  /\ villa' = [villa EXCEPT !.rates = save[h].rates]
  /\ screen' = Outdated
  /\ save' = [save EXCEPT ![h].at = "seasons"]

\* writeSeasons: deleteMany deletes the rows it sees.
SeasonsDeleted(h) ==
  /\ save[h].at = "seasons" /\ Disjoint(save[h].list)
  /\ save' = [save EXCEPT ![h] = [at |-> "deleted", seen |-> villa.seasons, list |-> save[h].list]]
  /\ UNCHANGED <<villa, screen>>

Rows(h, list) == {[s EXCEPT !.row = h] : s \in list}

\* Mutant: nothing in the database keeps the seasons apart.
SeasonsWrittenFreely(h) ==
  LET rows == (villa.seasons \ save[h].seen) \cup Rows(h, save[h].list) IN
  /\ save[h].at = "deleted"
  /\ villa' = [villa EXCEPT !.seasons = rows]
  /\ screen' = Outdated
  /\ save' = [save EXCEPT ![h] = [at |-> "done"]]

\* createMany and the commit: rows that another save wrote in the meantime stay,
\* unless season_no_overlap refuses the new ones beside them.
SeasonsWritten(h) ==
  LET rows == (villa.seasons \ save[h].seen) \cup Rows(h, save[h].list) IN
  /\ save[h].at = "deleted" /\ Disjoint(rows)
  /\ villa' = [villa EXCEPT !.seasons = rows]
  /\ screen' = Outdated
  /\ save' = [save EXCEPT ![h] = [at |-> "done"]]

\* A refused list, a season_no_overlap violation, or a crash: what the earlier
\* transactions of the save wrote stays written.
SaveStops(h) ==
  /\ save[h].at \in {"mode", "rates", "seasons", "deleted"}
  /\ save' = [save EXCEPT ![h] = [at |-> "done"]]
  /\ UNCHANGED <<villa, screen>>

-----------------------------------------------------------------------------
(* The guest                                                                 *)

\* The listing page with its reserve card; the guest picks dates and a party.
\* The card prices the stay from what the page loaded.
OpenListing(stay, guests) ==
  /\ screen' = [at |-> "card", stay |-> stay, guests |-> guests, mode |-> villa.mode]
  /\ UNCHANGED <<villa, save>>

\* The request or instant page the card leads to: it goes back to the listing
\* when the mode is another one by now.
OpenConfirm ==
  /\ screen.at = "card"
  /\ screen' = IF screen.mode # villa.mode THEN Nothing
               ELSE [at |-> "confirm", stay |-> screen.stay, guests |-> screen.guests,
                     mode |-> screen.mode, fresh |-> TRUE,
                     total |-> Total(villa, screen.stay, screen.guests)]
  /\ UNCHANGED <<villa, save>>

\* Mutant: the action prices the stay without the holidays.
SubmitWithoutHolidays ==
  LET plain == [villa EXCEPT !.rates.holiday = NoRate] IN
  /\ screen.at = "confirm" /\ screen.mode = villa.mode
  /\ screen' = [at |-> "booked", shown |-> screen.total, fresh |-> screen.fresh,
                total |-> Total(plain, screen.stay, screen.guests)]
  /\ UNCHANGED <<villa, save>>

\* createBookingRequest and createInstantBooking: neither the calendar nor the
\* number of guests is looked at.
Submit ==
  /\ screen.at = "confirm" /\ screen.mode = villa.mode
  /\ screen' = [at |-> "booked", shown |-> screen.total, fresh |-> screen.fresh,
                total |-> Total(villa, screen.stay, screen.guests)]
  /\ UNCHANGED <<villa, save>>

-----------------------------------------------------------------------------
CatalogueNext ==
  \/ \E h \in Saves :
       \/ \E form \in Forms, ack \in BOOLEAN : SaveStarts(h, form, ack)
       \/ SaveMode(h) \/ SaveRates(h) \/ SeasonsDeleted(h) \/ SeasonsWritten(h) \/ SaveStops(h)
  \/ \E stay \in Stays, guests \in Parties : OpenListing(stay, guests)
  \/ OpenConfirm \/ Submit

CatalogueSpec == CatalogueInit /\ [][CatalogueNext]_catVars

-----------------------------------------------------------------------------
(* Properties                                                                *)

\* Every variable holds a value of its type; a price shown is an amount.
CatalogueTypeOK ==
  /\ screen.at = "confirm" => screen.total \in Nat \ {0}
  /\ villa.mode \in Modes /\ villa.ack \in BOOLEAN
  /\ villa.rates \in {f.rates : f \in Forms}
  /\ screen.at \in {"none", "card", "confirm", "booked"}

\* No night has two seasons, though two saves of the form may overlap and then
\* leave a mixture of both lists; so the order in which seasons are read never
\* decides a price (quote.ts:135, "Seasons never overlap").
OneSeasonPerNight ==
  \A night \in Days : Cardinality({s \in villa.seasons : InSeason(s, night)}) <= 1

\* A villa is instantly bookable only with the host's acknowledgment on record,
\* also when saves that read different acknowledgments overlap (edit.ts:80-107).
InstantIsAcknowledged == villa.mode = "INSTANT" => villa.ack

\* What a guest commits to is exactly what the last screen showed, unless the
\* host's save came between (request/actions.ts:23-25).
BookedAsShown ==
  screen.at = "booked" /\ screen.fresh => screen.total = screen.shown

\* A stay costs the same in one booking as in two that follow each other: nights and
\* the fee for extra guests are charged per night (quote.ts:162-171).
PricesAdd ==
  \A s, t \in Stays, guests \in Parties :
    s[2] = t[1] =>
      Total(villa, <<s[1], t[2]>>, guests) = Total(villa, s, guests) + Total(villa, t, guests)

\* The eve of a holiday costs what the holiday costs (quote.ts:122).
EveCostsAsHoliday ==
  \A night \in Holidays : night > 0 => PriceNight(villa, night - 1) = PriceNight(villa, night)
    \/ villa.rates.holiday = NoRate

\* The commission is the nearest whole satang to a tenth: ten of it are at most
\* five satang off the total, and it never exceeds what the guest pays.
CommissionIsATenth ==
  \A stay \in Stays, guests \in Parties :
    LET total == Total(villa, stay, guests) IN
    /\ 10 * Commission(total) - total \in -4 .. 5
    /\ HostEarnings(total) >= 0

\* The villa that is shown and booked: no night has two prices, an instant booking is
\* acknowledged, the price shown is charged, and whatever mixture of rates and seasons
\* two saves have left, it adds up and is shared ten to ninety.
CatalogueInv ==
  /\ CatalogueTypeOK
  /\ OneSeasonPerNight /\ InstantIsAcknowledged /\ BookedAsShown
  /\ PricesAdd /\ EveCostsAsHoliday /\ CommissionIsATenth
=============================================================================
