# U-Rest in TLA+

U-Rest is a villa booking service: a Next.js application over Postgres
(Prisma) that takes a guest's payment through Opn, keeps it in escrow until the
stay is over and lets an admin pay the host out. Around that core stand a
listing review with KYC, a host's editing pages, a message thread, reviews, an
AI concierge that can draft a booking, notifications with retries, and a phone
verification. Guests, hosts, admins, Opn's webhook and one cron process drive
all of it at the same time, mostly by server actions that read, decide and write
in separate statements. This directory models these parts, checks the models
with TLC and proves the safety of the core with TLAPS. Paths below are relative
to `src/src` of the repository (`lib/...`) unless they start with `prisma/`;
`PROJECT.json` gives every path in full and maps every definition to its lines.

## Inventory

| Component | State | Operations | What makes it correct | Hard because |
|---|---|---|---|---|
| Booking state machine (`lib/booking/transitions.ts`, `request.ts`) | `Booking.status`, timers | request, instantHold, accept, decline, expire, confirmFromWebhook, checkIn, complete, cancelBy*, openDispute, resolveDispute, appealDispute, resolveAppeal | follows the transition table; status and escrow agree; unpaid bookings end | accept, decline, expire and checkIn check and write in two statements without a transaction |
| Escrow (`lib/ledger`) | LedgerEntry log, `Booking.escrowState` cache | CHARGE, RELEASE, FREEZE, PAY, SETTLE | cache and log agree; money leaves once | the position is read in two statements, without a lock |
| Refund arithmetic (`lib/booking/refund.ts`) | none | computeRefund, splitRetained | in range, rounded in the guest's favour, nothing lost | rounding repeats on appeal |
| Charges and webhook (`lib/payments`) | Payment, WebhookEvent rows; Opn's charges | createChargeForBooking, applyChargeEvent, refundStrandedCharge, refundBookingToGuest | a paid charge confirms a booking or goes back, once | redelivery, several charges, crashes around Opn calls |
| Disputes, appeals, reports, payouts (`lib/admin`, `lib/reports`) | Dispute, Report, Payout, PayoutHold, HostStrike rows | resolve, appeal, accept/close/escalate a report, markPaid, hold | money under review is held; paid once | FROZEN means "disputed", "appealed" and "reported" |
| Calendar and strikes (`prisma/migrations`, `lib/booking/strikes.ts`) | bookings of a villa, exclusion constraint, HostStrike rows | insert and update of bookings, issueStrike | no night held twice; three strikes suspend | concurrent inserts, uncommitted counts |
| Listings and KYC (`lib/listing`, `lib/kyc`, `lib/admin/listing-review.ts`) | Listing.status, KycSubmission, KycDocument | submit, approve, reject, needs-info, resubmit, edit, unlist, purge | public only if reviewed; what is sent back can be fixed | two rows with a status each, no transactions |
| Wizard and edit page | tab state, draft, photos | steps, uploads, five cards | what is shown as saved is stored | saves and uploads overlap and fail |
| Prices (`lib/pricing`, `lib/listing/edit.ts`) | rates, seasons, booking mode | quote, save, submit | one price per night; price shown is price charged | three transactions per save |
| Notifications (`lib/notifications`, `lib/jobs`) | NotificationLog, prefs | notify, retry sweep, reminder | each send is a counted attempt; essentials cannot be switched off | two instances, lost answers, crashes |
| Concierge (`lib/concierge`, chat route) | sessions, transcript, usage, draft | turn, tools, draft, confirm, submit | caps hold; tools agree; a draft books once | panels share a session; every row changes meanwhile |
| Phone and account (`lib/otp`, `lib/account`) | PhoneOtp, User | send, verify, delete | bounded guesses; nothing survives an erasure | several tabs |
| Messaging (`lib/messaging`) | Message, throttle, audit | post, read, reveal | no contact before money is held | mask decided on an earlier read |
| Reviews (`lib/reviews`) | Review, aggregate, flags | publish, remove, flag, resolve | aggregate heals; a resolved flag's review is gone | aggregate read inside each writer |
| Questions, saved villas | their rows, optimistic screens | suggest, answer; heart, undo | decided once; the grid is what is saved | two admins; calls that fail |

The components interact through the database: server actions, the webhook route
and the sweeps call `lib/booking`, which calls `lib/ledger` with its own
transaction and is followed, outside the transaction, by calls to Opn and to the
notification drivers. A page repeats, in its own file, conditions that its handler
checks again. `PROJECT.json` lists every component with its status and every
hazard at its line.

## Modules

| Module | What it is | Composed with |
|---|---|---|
| `Escrow` | the pure reducer: the log as a balance per escrow state, when an event is accepted, what it moves | used by `Booking` |
| `RefundPolicy` | tier table, rounding, 90/10 split | used by `Booking` |
| `EscrowPromise` | the abstract specification: taken once, shared out in full, never to the host while frozen | implemented by `Booking` |
| `Booking` | one booking with every row that hangs off it, one action per handler | |
| `Screens` | what each page offers for a booking, compared with what `Booking`'s handlers accept | over `Booking` |
| `BookingTx` | the same handlers as READ COMMITTED transactions that others overtake | extends `Booking` |
| `Payments` | charges, Payment rows, deliveries of webhook events, crashes | extends `Booking` |
| `CalendarPromise` | the abstract specification of a villa's nights: taken together from nobody, kept, given back together | implemented by `Stays` |
| `Stays` | several bookings of a villa under the exclusion constraint, concierge drafts, strikes | |
| `Listings` | a listing and its submissions, host calls and admin desks that overlap | |
| `Outbox` | notify, the minute tick in two instances, reminder, preferences | |
| `Threads`, `Reviews`, `Concierge`, `Accounts`, `Saved`, `Tools` | what a guest uses | `MCGuest` |
| `Wizard`, `EditPage`, `Faq`, `Catalogue` | what a host works on | `MCHost` |
| `MC*` | small instances for TLC | |
| `BookingProofs` | theorems about `Escrow`, `RefundPolicy`, `Booking`, `EscrowPromise` and `Screens` | |
| `BookingTxProofs`, `PaymentsProofs` | theorems about the overlapping handlers and the payments | over `BookingProofs` |
| `StaysProofs`, `OutboxProofs`, `ListingsProofs` | theorems about the module of that name | |
| `GuestProofs`, `HostProofs` | theorems about the components of a guest, and of a host, a section each | |

### How state and actions correspond to the code

**The log.** The code never reads a ledger entry but to fold it, so `ledger` is
the fold: `FoldMove` takes an amount out of one state and adds it to another;
what left NONE is received, what reached REVERSED refunded, what reached PAID
paid out. Entries of amount 0 leave no trace in a fold.

**Reads and writes of a booking.** Every handler takes the rows its checks use
(`r`) and the escrow position its move starts from (`p`). Checks read `r`; writes,
unique constraints and reads made under a lock use the variables. `Booking!Next`
passes the current rows, so a handler is one step. `BookingTx` lets one handler be
*slow*: it reads at one moment (`Begin`), computes its position later if it reads
it before it holds the Booking row's lock (`TakeState`, `TakeAmount`, the two
statements of `currentPosition`) and commits later still (`Commit`), while at most
`MaxOvertaken` handlers of others run. `DisputeLocked` is the lock of the Dispute
row, which resolveDispute, appealDispute and resolveAppeal take before they
compute the position. `Abort` is a failed check or a crash. refundBookingToGuest is
no transaction: `BeginRefund`, `CallOpn` and `StoreRefundId` are its three effects.

**Payments.** A charge has a status at Opn (`opn`), a Payment row (`row`) and a
handler that opens it in two effects (`opening`: the charge, then the row). An
event is delivered until a 200 reaches Opn (`unacked`); each delivery re-fetches
the charge, confirms, marks the row, or claims and makes the refund of a stranded
charge, one effect a step (`run`). A crash ends them all where they stand. The
booking in it is `Booking`'s, with its expiry and cancellation. Events may come
early, late, twice or never, and a charge that is created pending need not be
announced before it completes (`AnnounceCreated`), so that two charges may be open,
have their rows and both be paid. `opening` tells a row that was there for an event to
find ("done") from one that came after the last event that could (`Missed`, "late").

**Stays.** A booking is its nights and its status. `Create` and `Becomes` are the
two ways of writing one, both subject to `Free`, the exclusion constraint of
`prisma/migrations/20260616000000_booking_ledger_slice/migration.sql:417`;
submitDraft is three steps (read, book, consume) that two calls interleave; `MayBook`
are the calls that have read the draft and not yet booked, `GivenBy` the bookings a
draft gave. A striking transaction counts when it opens and suspends when it commits.

**Listings.** No handler reads and writes in one transaction, so each is a read
that opens a call (`call`, `desk`) and a write that ends it. The two state
machines, of the listing and of its submission, are two variables, as in the
code. What the gate of the submission counts is one flag, `complete`: a save or a photo
completes the draft, and a photo removed takes that back, in a call that was let in
while it was a draft and may land at any time after (`RemovePhoto`, `DeletePhoto`).
`strayed`, `early` and `overtaken` are history: a published listing whose location was
edited waits for review with nothing queued, an admin can decide on a DRAFT, and a photo
can go after the gate has counted it.

**Outbox.** A row is written QUEUED, sent, and updated; the driver may deliver and
still report an error. The tick of each instance lists the `Batch` oldest failed rows
(`made` is the order of their creation), skips those that settings or a missing address
stop, which stay as they are, claims the others by compare-and-swap on `attempts`, and
sends. The user has an address per channel or not, preferences per event group, and
loses both when the account is deleted. `Restart` clears the running latch.

**What a guest uses.** `Threads`: post reads the mask, stores the message and
claims the push in three steps; the confirmation and the other party come between.
`Reviews`: a write is a transaction that counts first and updates the aggregate
later; flags are resolved by two transactions. `Concierge`: the route reads each
cap, saves the question, loops over the model and the tools, saves the answer and
the usage, with other panels between any two statements; what the model says is
left out. `Accounts`: codes, guesses and the deletion, a step per statement. The
deletion counts the rows that refer to the person and erases or scrubs later; a row
written in between stops the erasure if its foreign key does ("tied": a booking, a
message), and loses its person if it does not ("loose": `Report` is SET NULL,
`HostStrike` and `PayoutHold` CASCADE).
`Saved`: hearts and the grid change before the server answers. `Tools`: each tool
is its own query over the villa's rows, with host, admin and other guests changing
them between two tools; `answers` keeps what the guest was told last.

**What a host works on.** `Wizard`: Next saves the step; an upload, of a photo or of a
document, is row, PUT and removal on failure; an answer puts back the list its call was
made from. A reload (`Resume`) ends the client's part of what is under way and no more:
the server actions it called run on (`Orphan`), a save or a submit of the page that is
gone lands or fails later (`late`), and the new page may have been read while a removal
was still to land (`behind`). `EditPage`: one save per card, the pricing card three
transactions. `Faq`: the admins' suggest is a read, a conditional update and an
insert. `Catalogue`: `PriceNight` follows priceNight's order (a holiday or its eve when
the villa has a holiday rate, then the season, then the base; of the last two the weekend
or the weekday rate), `Subtotal` adds the nights up day by day, every screen prices
the stay anew, the host's save is three transactions. A villa starts as a form that
passes the schema and the comparison of seasons, which each save passes too.

**Abstractions.** The clock of a booking is whether the current deadline has
passed (`timer`) and where the stay is (`stay`). People, texts, wording, layout and
most audit rows are left out; ownership checks are taken to succeed, since each
actor acts only on its own. A payout account exists and reconciliation is in
order. `OpnAccepts` is the one rule of Opn: it refunds a charge in parts up to its
amount. Statuses that no code of a module tells apart are one. What a slow handler
reads for its checks it reads at one moment, though the code may use two
statements. The concierge's route reads the session and the daily count in two
statements (`app/api/concierge/chat/route.ts:44`, `:49`), which `Admit` makes one.

## Runs

| Run | Result | Shows |
|---|---|---|
| `booking` | holds | when handlers do not overlap: status, cache, log, Refund, Payout, strikes and gateway agree, the escrow promise is implemented, unpaid bookings end and held money moves on by the sweeps alone, and the pages offer what the handlers accept and hide nothing that is due. `TakesIsEnabled` checks the reading of the handlers' conditions that the pages are compared with (`Takes`) against ENABLED of the handler itself, for each tier, lead time and verdict; `SweepsMoveOn` is the conjunction of the two liveness properties of `Booking` |
| `races` | holds | what still holds when handlers overtake each other: one charge, one payout within the price, one strike, no refund beyond the charge |
| `payments` | holds | two charges, which may both be paid, events early, late, twice or never, a failing refund call, a crash: one confirmation, one claim to refund, truthful notices; every paid charge whose row is there when an event finds it paid is settled, crashes included, unless the crash cuts its refund off from the claim |
| `stays` | holds | no night held twice, the promise of the calendar is implemented, one draft holds its nights once and once consumed gives one booking at most for each submit already past the check, bounded late suspension, nothing waits for ever |
| `listings` | holds | public only if reviewed, sent back only if it can be fixed, out of the wizard only if complete, but for two ways round its gate that are named; submitted things get decided and doomed documents go (`ReviewGoesOn`) |
| `outbox` | holds | each send is an attempt, one reminder, no silenced essential notice; a failed essential email is retried unless older rows that are skipped keep it out of the batch |
| `guest` | holds | threads, reviews, concierge, account, saved villas, tools: see the properties in each module |
| `host` | holds | wizard, edit page, questions, prices: see the properties in each module |
| `payout` | violated | after a partial refund the host is paid the full price minus commission |
| `resend` | violated | a partial refund is sent to the guest twice |
| `kept` | violated | a second event of the confirming charge sends a confirmed booking's money back |
| `blocks` | violated | a stay that starts on the last blocked day is called free |

Each violated property quotes what a document or a comment of the repository says;
the findings in `PROJECT.json` give the quote and the steps.

**Bounds, and why they are enough.** `booking`: price 5 with commission 1, so that
40 % of it rounds; lead times 0, 3, 7 and 14 days, one per band of the tier table;
a resolution that refunds nothing through PARTIAL and one that leaves a remainder
to appeal; two webhook events, so that one can be redelivered and another can
follow; one report and one hold. Appeals, decisions and freezes repeat as often as
the code allows. `races`: price 6, `MaxOvertaken` 2, since two overtaking handlers
are what it takes for an appeal to be lodged and decided during one markPaid;
twelve handlers are slow, those that move money and those that stand for the
status-only ones; it has no manual holds, which none of its properties mentions.
`payments`: two charges and two deliveries, so that a charge is stranded by the
other and one event is handled twice at once; two events, one for each charge that
completes or two for one; one crash, which may come anywhere. `stays`: two nights, a
stay over both and one over the second; two bookings, two submits of one draft, two
striking transactions over a host with one strike, so that the third is reached by
transactions that miss each other. `listings`: one submission, two calls and two
admins, enough for every pair of overlapping decisions. `outbox`: two settings, since neither
hazard needs the other: two instances that overlap on the rows of one call, on both
channels, with lost answers and the reminder; and a batch of one shared by the emails of
two calls, one essential and one optional, so that a skipped row stands before a newer
one. Two attempts in both. `guest` and `host`: two of each actor (tabs, panels, writers, admins, posts), since
the hazards are pairs; caps of 2, so that they are reached and overshot; of the four
pricing forms one has seasons that overlap, which is refused, and two have seasons
that overlap each other's; two rows that refer to a person. The wizard is checked in two
settings: two photos whose calls cross and outlive their page, without documents and
late saves; and one call at a time, with one photo, documents, late saves and a late
submit. The
components of these two share no row one of them writes, so each behaviour is of
one component (`alone`), and the state space is their sum. Symmetry is used for
webhook events (`races`, `payout`), tabs (`guest`) and admins (`host`), never in a
run with fairness.

Deadlock is not checked where the system really may stop: a booking that is over
without reports or holds, every counter of calls, codes or rows at its bound.

**Fairness.** `FairSpec` assumes that time passes and that each sweep that has
something to do for the booking eventually does it: `startScheduler` runs all
sweeps every minute, each in its own try block, and each row in its own
(`forEachRow`). `StaysFairness` is the same for expiry, and a transaction that
opened ends. `MCSpec` of `MCOutbox`: a call runs on unless the server stops, the tick of
a server at work comes every minute, and now and then a tick is not cut off by a restart
(strong fairness of its sweep's end and of its claims; a skipped row is not a claim, so
nothing is assumed for a row the batch never reaches). `FairPaySpec`: Opn repeats an event until it is answered,
a handler gets on, and a refund that can be made is made in the end (strong, since a
failing call is retried by the next delivery); `PaidChargeIsSettled` assumes beside it
only that Opn does not deliver an event twice at once, and excepts what a crash cut off.
`ListingsFairness`: admins work through their queue,
which the page's SLA promises and no code enforces, and the daily purge runs. None
covers a sweep that never returns, which would keep the `running` latch set. No
guest, no host and, but for the queue, no admin is fair.

## Theorems

`BookingProofs` proves, for every price, commission, set of lead times,
percentages, events, reports and bound on holds (the named assumptions of
`Booking`), that `BookingInv` is an invariant of `Spec`, and from it `TypeOK`,
`CacheMatchesLedger`, `EscrowFitsStatus`, `RefundRowMatchesLedger`,
`HostFaultMakesGuestWhole`, `MoneyLeavesOnce`, `GatewayWithinLedger` and the
action property `SpentEscrowIsFinal`. The properties are not inductive one by one.
That an appeal's new refund keeps the Refund row within the price needs the row to
equal the log's refunds; that money is not paid twice needs the cache to name the
only bucket with money in it; and both need the whole price to be in the log once
anything is, which no property says. `MoneyInv` and `RefundRowInv` add that. The
proof first shows that each operation of the write layer (`Freeze`, `Release`,
`RecordCharge`, `Pay`, `Settle`) keeps `MoneyInv`, then that the steps fall into
four patterns: `QuietStep` (no money, no Refund row), `KeepingStep` (money moves
within escrow or to the host), `SettlingStep` (a refund is recorded and settled)
and `SendingStep` (the gateway). `StepKeeps` has one step per action of `Next`.

Its last part proves the refinement `BookingKeepsPromise`: under the mapping that
reads the log and the cached state, the initial states of `Booking` map to those of
`EscrowPromise`, and every step of every handler maps to `Take`, `Withhold`,
`GiveBack`, `PayOut` or a stutter. It first classifies each step of `Next` by the
one operation of the write layer it makes (`Move`), then maps each of these, with
`MoneyInv` for the amounts. `BookingFollowsTable` proves `StatusGraph` with
one fact more, `DisputeFollowsStay`: a booking with a Dispute row is in dispute or is
over, so a decision or an appeal never meets a status the table has no edge from. The
first part is about the operators alone: no event of `reduce` takes a position backed by
its log to one that is not (`ReduceKeepsBalance`; a move out of PAID would, and it makes
none), a percentage refund is in range and rounded up by less than a satang
(`RefundInRange`, `RefundRoundsUp`), and
the retained split loses nothing (`RetainedSplit`).

The last section is about the pages (`Screens`). `PagesOfferWhatIsTaken` and
`DueWorkIsShown` prove `OffersAreTaken` and `NothingDueIsHidden`. The first has four
exceptions, which are divergences listed below: the host's cancellation during the stay,
a dispute under an accepted report, an appeal once the money has moved on (paid out,
refunded, under report or appealed), and an escalation outside the stay or under a
report. `Takes` states when a
handler can complete as a condition on the rows: its own checks, then what would roll it
back, the reducer, the unique Refund and Payout rows and Opn. Three facts about the way
a booking came to its state are needed beside `BookingInv` (`ScreenInv`): money is
frozen only for an open dispute, an appeal or an accepted report (`FrozenFor`), or a
case might be decidable that no queue lists; an open dispute means a booking in dispute;
and a Refund row means that the stay is over, or the first cancellation or decision
might find the unique row taken. One lemma per button then shows the reducer takes the
move whatever the percentage and the lead time (`CancelIsTaken`, `HostCancelIsTaken`,
`DisputeIsTaken`, `AppealIsTaken`, `ResolveIsTaken`, `ReResolveIsTaken`,
`FinalizeIsTaken`), and three more put the pages beside them (`OffersGoThrough`,
`GuestReaches`, `QueueIsWork`). The first theorem takes `MaxHolds` to be positive,
because the bound on manual holds is the model's own; the second takes the commission to
be less than the price, which a tenth of it always is (`lib/pricing/quote.ts`): were it
all, the due list would show a total of zero.

`BookingTxProofs` proves `ChargedOnce`, `PaidOutOnce` and `TxInv` for handlers that
act on what they read long ago. `BookingInv` does not hold there (a stale position
may move money that is gone), so `TxIInv` keeps only what no race breaks: a log that
balances and knows one charge, no more refunds than that, and a payout only with its
row (`LogInv`); one claim and one Refund row (`UniqueRowsInv`); that a strike took all
that was in escrow (`StrikeInv`). `SlowInv` says what the slow handler's stale rows and
position still tell of the current ones: amounts refunded have only grown, money in
escrow only shrunk, a position taken under the Dispute row's lock can still be settled
(`Settleable`), and a payout's position is within the price or the Payout row is there
to stop it (`Payable`).

Two more theorems place the races. `RacesTakeNothingBack` is an action property: no
handler, however stale its reads, takes back a claimed event, a refund in the log or a
strike, and once there is a Payout row neither it nor what the log paid out changes. It
rests on the same `TxIInv`, with `OthersPayNothing`: only the payout move reaches PAID.
`UnovertakenIsBooking` is the refinement between the two levels: where nobody overtakes,
what a slow handler has read is what the rows still say (`UpToDate`), its commit is the
step `Booking` makes, and all that is proved of `Booking` holds of the transactions. So
the properties that `races` does not list are lost to overtaking alone, not to the way
the transactions are written down. refundBookingToGuest is no transaction and is left
out.

`PaymentsProofs` proves `PaymentInv` and `GuestIsToldTheTruth` for any number of
charges, events, deliveries and crashes. `PayIInv` follows a charge through its places
(opened, paid, row written, claimed, sent back) and says what a delivery in progress may
still do at each effect; that two deliveries of one event do not both refund rests on
the claim being a unique row that no step takes back. `PaymentsImplementBooking` proves
that the module implements `Booking`, its variables taken as they are: a confirmation is
`ConfirmFromWebhook` or nothing, a concierge charge is `InstantHold`, and the refund
call of a cancellation, made or cut off by a crash, is `RefundAfterCancel`. With it
`PaidBookingKeepsPromise` carries the escrow promise and the status table over to a
booking that is paid with repeated events and crashes around it. `PaidRowStaysPaid` is
the action property refundBookingToGuest needs: the SUCCESSFUL row it refunds against
stays so, and claims, refunds made and notices only accumulate.

`StaysProofs` proves, for any number of bookings, drafts, submits and (finitely
many) striking transactions, `NoDoubleBooking` and `StaysInv`. `NightsInv` adds to
the constraint's promise that the rows keep their shape, that a submit in progress
has its draft, and that a booking a draft gave has the draft's nights (drafts never
change theirs); `DraftHoldsOnce` follows because a stay overlaps itself.
`StrikesInv` is what makes the suspension bound inductive: while the host is not
suspended, committed strikes plus open transactions that counted too few never
exceed two strikes and the other transactions, since each of these counted while at
most one strike was committed. `LateSubmitsBookOnce` proves the action property
`ConsumedDraftRests`, and `ConsumedForGood` that no step takes the mark back
(`DraftsMove` says both of a step, and has a lemma per way of touching a draft).
`StaysKeepPromise` proves the refinement of `CalendarPromise`. What a booking holds is
read off its status and stay; a step writes the row of one booking at most and never its
nights (`OneBookingMoves`), so it takes a stay, gives one back or leaves the calendar
alone, and `NightsInv` says that what it takes nobody holds (`HeldApart`). The promise does
not say that a booking takes its nights once: an accept that races an expiry may revive
it (see the divergences of `Booking`).

`OutboxProofs` proves `OutboxInv` for any number of calls, instances (finitely many) and
attempts. `AttemptsInv` is the strengthening of `EachSendIsAnAttempt`: what was
delivered and what instances are sending at this moment, together, stay within the
attempts of the row, so a claim that wins raises both sides and an answer moves one from
"sending" to "delivered". `LoopInv` ties a row to the loop of its call (a channel still
to do has no row), which gives `EssentialEmailIsLogged` and that no tick takes a row its
call still sends. The action property `LogOnlyAdvances` rests on both: an instance that
reports late has an attempt in the row, so its report never meets a row that is new, and
what was SENT stays as it is. `SavingKeepsMeaning` is a fact of the settings alone, for
every set of templates.

`ListingsProofs` proves `ListingsInv` and `GateHolds` for any number of submissions,
open calls and admins. `Backed` says that the status stands on a submission that fits
it, and is inductive because no write touches a submission's status without setting
the listing's. `GateInv` carries "complete, decided early, or overtaken by the removal of a photo"
from the gate, which a call about to submit has passed already (`Behind`), to all that
comes after it: a decided submission, a report, and a call that read either.

`GuestProofs` and `HostProofs` have a section per component.

- *Threads*: `ThreadInv` and `ReadByTheRecipient` for any number of messages (finite)
  and any throttle. `ContactInv` holds because the confirmation is never taken back,
  so what a slow post read of it is still true when it stores; `PushInv` adds to
  `PushesAreApart` that there is a latest push, which `lastNotifiedAt` is; `AuditInv`
  gives each page on its way an audit row of its own.
- *Reviews*: `ReviewInv` and `RatingHeals` for any number of bookings, flags and
  moderators. `WritesInv` says what a transaction that has counted will write,
  `FlagsInv` that a flag about to be resolved by a removal has its review removed
  already, `FormInv` that an open form holds photos that were stored.
- *Concierge*: `ConciergeInv` for any number of panels. `CapsInv` is an account of each
  cap: what is used, plus what every turn that has passed the cap may still use, stays
  within the cap and one turn's use per panel. A turn enters the account when it passes
  the check, while there is room, and leaves it when it is counted or fails
  (`CapStays`). `TurnInv` says what a turn has left in the transcript by where it is.
- *Accounts*: `AccountInv` for any number of tabs and codes. `CountedInv` bounds the
  comparisons by the row's own counter; `ErasedInv` says that a call which outlives the
  deletion knows only of codes that are gone (`Harmless`), so that it verifies nothing;
  `UnseenInv` that a deletion which counted no row can have missed only rows written
  since, so that these are all that may lose their person.
- *Tools*: `ToolsAgree` for any calendar, stays and parties. `AnswersInv` says of each of
  the last two answers that it is what its query finds now (`StillSo`), or that
  something has changed since.
- *Saved*: `GridIsSaved` for any number of villas (finite). `QueueOK` says that of one
  villa at most an undo and then a tap wait for the server, and `VillaInv` that a villa
  is in the grid exactly when it has its row, or an unanswered undo has put it there.
- *Wizard*: `WizardInv` for any number of steps, operations and photos (finite).
  `StepsInv` says that what was typed in an earlier step is saved, given up or under way;
  `PhotosInv` says what the one operation under way has left of its work on the draft
  (`ServerSide`, whatever page called it) and between the draft and the screen (`TabSide`,
  unless the page was read while a removal was still to land), as long as no two have
  crossed.
- *EditPage*: `SavedMeansStored` for every set of cards: no group of fields is on two
  cards (`FieldsApart`), and `StoredSoFar` says which parts of the pricing card its
  transactions have written, so that the last one finds the others still there.
- *Faq*: `DecidedOnce` needs little more than the shape of the rows, since the
  conditional update of a suggestion touches open questions only.
- *Catalogue*: `CatalogueInv` for every set of forms the schema lets through, of stays,
  weekends and holidays, and of overlapping saves. `PageIsPriced` says of a page that is
  fresh what `BookedAsShown` says of the booking it leads to. The totals rest on lemmas
  about `Subtotal`: it is the sum it defines (`SubtotalIsSum`), an amount
  (`SubtotalIsAmount`), and that of two stays that meet is that of the whole (`SumsContinue`).

Three definitions compute over data of any length: `Subtotal` over the nights of a stay,
and the `Without` of `Wizard` and of `Saved`, a filter over a list. They are recursive
functions, and what is proved of them is proved by the least counterexample: `LeastOf`
gives a set of naturals its least element, and the function's equation contradicts it.

Assumed of the constants are only the named assumptions of each module: sets that are
finite where they are counted, bounds that are numbers, values that stand for nothing
kept out of the sets they are compared with. `Catalogue` takes the forms as
`step5Schema` (`lib/listing/validation.ts:77`) parses them: whole amounts, every rate
positive. `Concierge` takes its caps to be positive, as `lib/env.ts:88` parses them; for a
cap of zero the overshoot would be one more. What the model is given (`History`) is a
set of rows, since no property depends on their order.

Only model-checked, and why: the liveness properties (`SweepsMoveOn`, `WaitingEnds`,
`PaidChargeIsSettled`, `ReviewGoesOn`, `FailedEmailIsRetried`), because liveness under
fairness is out of the prover's reach, and `TakesIsEnabled`, which ties `Takes` to
ENABLED. What the theorems about the pages say of the handlers is therefore said of
`Takes`, and that `Takes` is the handlers' own condition is checked by TLC on the bounds
of `booking`. Every other invariant and every action property of a passing run is also a
theorem. No module with a theorem uses a RECURSIVE operator.

## Known divergences

What the models show the code to do, and no property that holds can be said of.
Each is a behaviour of the module named; four of them are the violation runs.

*Money of a booking* (`Booking`, `BookingTx`, `Payments`): the freeze of an accepted
report is never lifted (`lib/admin/report-review.ts:100`), keeps the guest from
disputing and, after a decision, keeps a deferred refund from being sent; a payout
can go out while a report is under review or an appeal is lodged between the check
and the append (`lib/admin/payout.ts:132`); the payout ignores a partial refund
(run `payout`); accept revives a request withdrawn or expired in between
(`lib/booking/transitions.ts:129`) and a confirmation that races expire leaves an
EXPIRED booking with money in escrow (`:164`); a partial refund can be sent twice
(run `resend`); a second event of the confirming charge sends its money back (run
`kept`); concurrent deliveries of one event, or a crash after the REFUNDED claim
(`lib/payments/charge.ts:163`), strand a refund; a crash between the Opn charge and
its row (`:57`), or a row written after the last event for its charge, leaves a charge
that no refund path finds.

*Pages* (`Screens`): the host's page offers cancel during a stay, which is refused; the
trip's page offers a dispute that an accepted report makes `openDispute` refuse
(`lib/booking/transitions.ts:317`), and an appeal after the money has moved on;
decided disputes drop off the queue, so a deferred refund is reached by URL only; the
trips list has no link to a disputed or completed trip; the host has no page to
appeal from; the report page offers an escalation that is refused; a report freeze
after a decision shows a decision form for a case that is not queued; the cancel
button shows the refund computed when the page was loaded; the last step of the
trip's escrow bar is shown for COMPLETED though the payout may not be made.

*Calendar and strikes* (`Stays`): the constraint covers neither DISPUTED nor
CANCELLED_BY_HOST, though a disputed guest is still there; strikes counted by
concurrent transactions miss each other (`lib/booking/strikes.ts:24`).

*Listings* (`Listings`): a location edit puts a published listing into review with
no submission, where nothing decides it (`lib/listing/edit.ts:115`); an admin can decide
on the submission of a DRAFT, and a resubmission then passes the gate; a photo removed
between the gate's count and the write that follows it
(`lib/listing/transitions.ts:174-181`, `app/[locale]/(protected)/(host)/listings/new/actions.ts:246`)
leaves a submitted listing with fewer photos than the minimum; unlisting
from a report is unconditional and so can lead a REJECTED listing back; an approval
after a rejection keeps the purge date, and the approved documents go; a stale
markItemSatisfied overwrites a newer checklist; two concurrent first steps create
two submissions; a document added after the rejection is never purged; a
suspended host's listing can still be booked.

*Wizard and edit page*: a step that is left and entered again forgets an upload
under way; what is typed during a save is lost; two uploads at once tie in their
order or make two covers; a failed pricing save may have stored mode and rates;
a card says saved although its form changed meanwhile; a crash in the first save
leaves an orphan draft. After a reload with a server action running, a photo shown may
be gone, a late save puts back what the new page has overwritten or the other way round,
the listing may be submitted while the page shows a draft, and the row of a photo whose
PUT the reload cut off stays, though `Step2Photos.tsx:63` says that none is orphaned.

*Prices* (`Catalogue`): two saves may store a mixture of two season lists; a mode
saved from a stale read erases the acknowledgment that `lib/listing/edit.ts:83` says
is kept; the price may change between the screen and the submit; request and instant
booking look neither at the host's blocked days nor at maxGuests.

*Notifications* (`Outbox`): `notify` throws when its row cannot be written, though
`lib/notifications/index.ts:5` says it never does; a row left QUEUED by a crash is not
retried; `retry.ts:8`'s "never double-dispatch" does not hold when a driver's answer is
lost; a reminder claimed before a crash is never sent; the sweep's batch is the 100
oldest failed rows (`retry.ts:23-28`), and rows that it skips (`:32-47`: switched off, no
address, user gone) stay FAILED at its head, so that 100 of them keep every newer email
from being retried; the preference groups
(`prefs.ts:48`) miss the four DISPUTE keys.

*Concierge and tools*: a draft confirmed while a turn streams is not told to the
model; a nudge is dropped when another panel's row is last; failed turns are not
counted; the caps are overshot by calls at work together; a turn that runs out of
iterations answers nothing; the search does not look at bookings
(`lib/listing/queries.ts:51`); a block that ends on the day of arrival is overlooked
(run `blocks`); the submission checks neither status nor calendar again, and a
request-mode draft submitted twice makes two requests.

*Account* (`Accounts`): an SMS that fails leaves the cooldown without a message; an
older code becomes valid again when a newer one is consumed; writes in flight survive
an anonymization; the verification date is not cleared; a report, a strike or a hold
written between the deletion's count and its delete (`lib/account/delete.ts:39-58`) does
not stop it, and loses its person (SET NULL) or goes with it (CASCADE).

*Saved villas* (`Saved`): an unsaved villa leaves the grid at once
(`SavedGrid.tsx:41-52`), though `PRODUCT_FLOWS.md:153` says "card stays until reload";
`GridIsSaved` states what the code does.

*Threads, reviews, questions*: opening a thread marks messages read that arrived
after it was rendered; text typed while a post runs is cleared; a notification that
throws after the message was stored invites a duplicate; the flag of a review that
was removed for another flag cannot be resolved by removing it, and a stale KEEP
overwrites a RESOLVED; the rating drifts under concurrent writers until the next
undisturbed write; two admins can suggest one question twice.

## Not modelled

- *Ratings of guests*: one insert under a unique key; a second rating throws.
- *Authentication, sessions, TOTP*: library glue and cryptography; the guard every
  action starts with is part of `Accounts`.
- *Storage, encryption, environment*: calls to an object store and a cipher without
  state of their own; a call that fails is modelled where it is made.
- *Account export, audit log page*: reads of rows that other components write. The
  audit row of the thread's reveal is in `Threads`.
- *Public pages and the UI kit*: rendering without decisions of its own.
- *Seeds, scripts, evaluations, end-to-end harness*: not part of the running system.
- Parts of modelled components: the reconciliation total over all bookings, the
  daily limit of a reporter, payout accounts, the purges of messages and transcripts
  by age, the language model's words. The patterns of maskBody are text.

## Plan

1. Several bookings under one reconciliation gate and holds on a host (`Payouts`).
