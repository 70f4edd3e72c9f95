------------------------------- MODULE Outbox -------------------------------
(***************************************************************************)
(* Notifications: the NotificationLog rows that notify() writes, one for   *)
(* each channel, the minute tick that retries the failed ones, the payment *)
(* reminder the same tick sends, and the preferences that gate a channel.  *)
(*                                                                         *)
(* A handler that notifies is a call; the tick runs in every instance of   *)
(* the server, and two instances overlap when one replaces the other.  A   *)
(* driver may deliver and still report an error, and an instance may stop  *)
(* between any two of its steps.  One user with an essential and an        *)
(* optional event group is enough: rows meet only in the batch that a tick *)
(* reads, the oldest failed ones first, where an optional row can stand    *)
(* before an essential one.                                                *)
(***************************************************************************)
EXTENDS Naturals, Sequences, FiniteSets

CONSTANTS
  Calls,        \* bound: calls of notify, numbered
  Instances,    \* the server processes, each with its minute tick
  Keys,         \* the keys of the templates that are sent
  LostAnswers,  \* a driver may deliver and still report an error
  MaxAttempts,  \* MAX_ATTEMPTS
  Batch         \* BATCH

ASSUME OutboxAssumption ==
  /\ MaxAttempts \in Nat \ {0} /\ Calls \subseteq Nat /\ LostAnswers \in BOOLEAN
  /\ IsFiniteSet(Instances) /\ Batch \in Nat \ {0}

VARIABLES
  notice,     \* the calls of notify
  row,        \* the NotificationLog row of each call and channel
  made,       \* the rows in the order of their creation
  delivered,  \* how often the driver delivered a row
  tick,       \* the tick of each instance: the running latch and where it is
  prefs,      \* User.notificationPrefs, for each group
  address,    \* the channels the user has an address for; none once the account is deleted
  reminded    \* how often one booking's payment reminder was claimed

outVars == <<notice, row, made, delivered, tick, prefs, address, reminded>>

EMAIL == "EMAIL"
LINE == "LINE"
Channels == {EMAIL, LINE}
Rows == Calls \X Channels
Unwritten == [status |-> "none", attempts |-> 0]
Resting == [at |-> "idle"]

\* What the settings store: nothing, or every group (see Normalize).
Absent == "absent"
Switch == {"on", "off"}
Cell == Switch \cup {Absent}
Groups == {"essential", "optional"}
NoPrefs == [g \in Groups |-> [email |-> Absent, line |-> Absent]]
Matrix == [Groups -> [email : Switch, line : Switch]]

-----------------------------------------------------------------------------
(* The templates (templates.ts) and their groups (prefs.ts)                  *)

BookingTemplates ==
  {"BOOKING_REQUESTED", "REQUEST_ACCEPTED", "REQUEST_DECLINED", "REQUEST_EXPIRED",
   "PAYMENT_RECEIVED_GUEST", "PAYMENT_RECEIVED_HOST", "PAYMENT_EXPIRED_HOST",
   "PAYMENT_REMINDER_GUEST", "PAYMENT_REFUNDED_GUEST", "BOOKING_CANCELLED_BY_GUEST",
   "BOOKING_CANCELLED_BY_HOST"}

ReviewTemplates ==
  {"LISTING_APPROVED", "LISTING_NEEDS_INFO", "LISTING_REJECTED", "REPORT_RECEIVED",
   "REPORT_RESOLVED", "REPORT_DISMISSED", "MESSAGE_NEW", "PAYOUT_PAID_HOST",
   "PAYOUT_HOLD_CREATED", "PAYOUT_HOLD_RELEASED", "DISPUTE_OPENED_GUEST",
   "DISPUTE_OPENED_HOST", "DISPUTE_RESOLVED", "DISPUTE_APPEAL_RESOLVED",
   "REVIEW_RECEIVED_HOST"}

\* Not pushed over LINE.
EmailOnly ==
  {"REQUEST_DECLINED", "REQUEST_EXPIRED", "BOOKING_CANCELLED_BY_GUEST", "REPORT_DISMISSED"}

\* The keys of no group, which no setting reaches: those of disputes.
Ungrouped ==
  {"DISPUTE_OPENED_GUEST", "DISPUTE_OPENED_HOST", "DISPUTE_RESOLVED", "DISPUTE_APPEAL_RESOLVED"}

\* The groups MESSAGES and REVIEWS_REPORTS; the others are essential.
OptionalKeys ==
  {"MESSAGE_NEW", "REVIEW_RECEIVED_HOST", "REPORT_RECEIVED", "REPORT_RESOLVED", "REPORT_DISMISSED"}

Template(key) ==
  LET known == key \in BookingTemplates \cup ReviewTemplates
      grouped == known /\ key \notin Ungrouped IN
  [known |-> known, grouped |-> grouped,
   essential |-> grouped /\ key \notin OptionalKeys,
   priority |-> known /\ key \notin EmailOnly]

Templates == {Template(key) : key \in Keys}

OutboxInit ==
  /\ notice = [c \in Calls |-> Resting]
  /\ row = [r \in Rows |-> Unwritten]
  /\ made = <<>>
  /\ delivered = [r \in Rows |-> 0]
  /\ tick = [i \in Instances |-> Resting]
  /\ prefs = NoPrefs
  /\ address \in SUBSET Channels \ {{}}
  /\ reminded = 0

-----------------------------------------------------------------------------
(* Preferences (prefs.ts)                                                    *)

IsOn(cell) == cell # "off"

\* Mutant: the settings decide about the channel of record too.
ChannelAllowedByPrefs(p, template, channel) ==
  ~template.grouped \/ IsOn(IF channel = EMAIL THEN p.email ELSE p.line)

ChannelAllowed(p, template, channel) ==
  \/ ~template.grouped
  \/ channel = EMAIL /\ template.essential
  \/ IsOn(IF channel = EMAIL THEN p.email ELSE p.line)

\* Mutant: what the form leaves out is stored as off.
NormalizeStrictly(raw, essential) ==
  [email |-> IF essential \/ raw.email = "on" THEN "on" ELSE "off",
   line |-> IF raw.line = "on" THEN "on" ELSE "off"]

\* normalizePrefs, for one group that the form sends.
Normalize(raw, essential) ==
  [email |-> IF essential \/ IsOn(raw.email) THEN "on" ELSE "off",
   line |-> IF IsOn(raw.line) THEN "on" ELSE "off"]

\* saveNotifPrefsAction: the form sends the whole matrix (notification-prefs.tsx).
SavePrefs(raw) ==
  /\ prefs' = [g \in Groups |-> Normalize(raw[g], g = "essential")]
  /\ prefs' # prefs /\ address # {}
  /\ UNCHANGED <<notice, row, made, delivered, tick, address, reminded>>

-----------------------------------------------------------------------------
(* notify (index.ts)                                                         *)

\* resolveSend: the user has a channel's address and the template uses it.
CanSend(template, channel) == channel \in address /\ (channel = LINE => template.priority)

Group(template) == IF template.essential THEN "essential" ELSE "optional"

\* Preferences and addresses let the template out on a channel.
Sendable(template, channel) ==
  ChannelAllowed(prefs[Group(template)], template, channel) /\ CanSend(template, channel)

\* What is left of notify's loop over the channels, from the user read once.
Plan(template) == {ch \in Channels : template.known /\ Sendable(template, ch)}

\* A handler calls notify; email comes before LINE.
Notify(c, template) ==
  /\ notice[c] = Resting /\ \A d \in Calls : d < c => notice[d] # Resting
  /\ notice' = [notice EXCEPT ![c] =
       [at |-> "next", template |-> template, todo |-> Plan(template), addressed |-> address]]
  /\ UNCHANGED <<row, made, delivered, tick, prefs, address, reminded>>

Turn(c) == IF EMAIL \in notice[c].todo THEN EMAIL ELSE LINE

\* dispatch: the row is written first.
Queue(c) ==
  LET ch == Turn(c) IN
  /\ notice[c].at = "next" /\ notice[c].todo # {}
  /\ row' = [row EXCEPT ![<<c, ch>>] = [status |-> "QUEUED", attempts |-> 0]]
  /\ made' = Append(made, <<c, ch>>)
  /\ notice' = [notice EXCEPT ![c].at = "send"]
  /\ UNCHANGED <<delivered, tick, prefs, address, reminded>>

\* The driver delivers or not, and reports an error or not; an error after a
\* delivery is a lost answer, or a stop before the row was updated.
Answer(r, ok, reached) ==
  /\ ok => reached
  /\ reached => ok \/ LostAnswers
  /\ delivered' = IF reached THEN [delivered EXCEPT ![r] = @ + 1] ELSE delivered

\* Mutant: a failed first send is not counted.
OutcomeUncounted(c, ok, reached) ==
  LET r == <<c, Turn(c)>> IN
  /\ notice[c].at = "send" /\ Answer(r, ok, reached)
  /\ row' = [row EXCEPT ![r] = IF ok THEN [status |-> "SENT", attempts |-> 1]
                                     ELSE [status |-> "FAILED", attempts |-> 0]]
  /\ notice' = [notice EXCEPT ![c].at = "next", ![c].todo = @ \ {Turn(c)}]
  /\ UNCHANGED <<made, tick, prefs, address, reminded>>

\* send() and the update of the row.
Outcome(c, ok, reached) ==
  LET r == <<c, Turn(c)>> IN
  /\ notice[c].at = "send" /\ Answer(r, ok, reached)
  /\ row' = [row EXCEPT ![r] = [status |-> IF ok THEN "SENT" ELSE "FAILED", attempts |-> 1]]
  /\ notice' = [notice EXCEPT ![c].at = "next", ![c].todo = @ \ {Turn(c)}]
  /\ UNCHANGED <<made, tick, prefs, address, reminded>>

Returns(c) ==
  /\ notice[c].at = "next" /\ notice[c].todo = {}
  /\ notice' = [notice EXCEPT ![c].at = "returned"]
  /\ UNCHANGED <<row, made, delivered, tick, prefs, address, reminded>>

\* The server stops while notify runs, or the database refuses the row (create
\* stands outside the try): the caller never gets to what comes after notify.
NotifyDies(c) ==
  /\ notice[c].at \in {"next", "send"}
  /\ notice' = [notice EXCEPT ![c].at = "died"]
  /\ UNCHANGED <<row, made, delivered, tick, prefs, address, reminded>>

-----------------------------------------------------------------------------
(* The minute tick (scheduler.ts); its sweeps of bookings are in Booking     *)

\* A tick is skipped while the previous one runs.
TickStarts(i) ==
  /\ tick[i] = Resting
  /\ tick' = [tick EXCEPT ![i] = [at |-> "remind"]]
  /\ UNCHANGED <<notice, row, made, delivered, prefs, address, reminded>>

\* sweepPaymentReminders reads the bookings that are due and not reminded.
RemindReads(i) ==
  /\ tick[i].at = "remind" /\ reminded = 0
  /\ tick' = [tick EXCEPT ![i] = [at |-> "claim"]]
  /\ UNCHANGED <<notice, row, made, delivered, prefs, address, reminded>>

\* Mutant: the reminder is claimed by id alone.
RemindClaimsById(i) ==
  /\ tick[i].at = "claim"
  /\ reminded' = reminded + 1
  /\ tick' = [tick EXCEPT ![i] = [at |-> "remind"]]
  /\ UNCHANGED <<notice, row, made, delivered, prefs, address>>

\* The claim by compare-and-swap; the winner notifies, as any handler does.
RemindClaims(i) ==
  /\ tick[i].at = "claim"
  /\ reminded' = IF reminded = 0 THEN 1 ELSE reminded
  /\ tick' = [tick EXCEPT ![i] = [at |-> "remind"]]
  /\ UNCHANGED <<notice, row, made, delivered, prefs, address>>

\* The failed rows below the cap, and those of them that are older than a row.
Due == {r \in Rows : row[r].status = "FAILED" /\ row[r].attempts < MaxAttempts}
Older(q, r) == \E j, k \in DOMAIN made : j < k /\ made[j] = q /\ made[k] = r
Ahead(r) == {q \in Due : Older(q, r)}

\* The oldest of them, with the attempts that were read.
Listing(due) == {<<r, row[r].attempts>> : r \in {q \in due : Cardinality(Ahead(q)) < Batch}}

\* Mutant: the cap is held against the attempt to come.
SweepEndsShort(i) ==
  /\ tick[i].at = "remind"
  /\ tick' = [tick EXCEPT ![i] =
       [at |-> "retry", todo |-> Listing({r \in Due : row[r].attempts + 1 < MaxAttempts})]]
  /\ UNCHANGED <<notice, row, made, delivered, prefs, address, reminded>>

\* Nothing is due, or the sweep threw: a failure of one sweep does not reach the
\* next.  The retry sweep reads its batch of failed rows.
SweepEnds(i) ==
  /\ tick[i].at = "remind"
  /\ tick' = [tick EXCEPT ![i] = [at |-> "retry", todo |-> Listing(Due)]]
  /\ UNCHANGED <<notice, row, made, delivered, prefs, address, reminded>>

Listed(i, r, n) == tick[i].at = "retry" /\ <<r, n>> \in tick[i].todo

\* The user's settings or addresses stop the retry of a row: it stays FAILED as it is,
\* and is read again by the next tick.
SkipRow(i, r, n) ==
  /\ Listed(i, r, n)
  /\ ~Sendable(notice[r[1]].template, r[2])
  /\ tick' = [tick EXCEPT ![i].todo = @ \ {<<r, n>>}]
  /\ UNCHANGED <<notice, row, made, delivered, prefs, address, reminded>>

\* Mutant: the attempt is claimed by id alone.
ClaimById(i, r, n) ==
  /\ Listed(i, r, n)
  /\ Sendable(notice[r[1]].template, r[2])
  /\ row' = [row EXCEPT ![r].attempts = n + 1]
  /\ tick' = [tick EXCEPT ![i] = [at |-> "resend", row |-> r, todo |-> @.todo \ {<<r, n>>}]]
  /\ UNCHANGED <<notice, made, delivered, prefs, address, reminded>>

\* Claim the attempt by compare-and-swap; the loser goes on to the next row.
Claim(i, r, n) ==
  LET won == row[r].status = "FAILED" /\ row[r].attempts = n IN
  /\ Listed(i, r, n)
  /\ Sendable(notice[r[1]].template, r[2])
  /\ row' = IF won THEN [row EXCEPT ![r].attempts = n + 1] ELSE row
  /\ tick' = [tick EXCEPT ![i] =
       IF won THEN [at |-> "resend", row |-> r, todo |-> @.todo \ {<<r, n>>}]
       ELSE [at |-> "retry", todo |-> @.todo \ {<<r, n>>}]]
  /\ UNCHANGED <<notice, made, delivered, prefs, address, reminded>>

Resend(i, ok, reached) ==
  LET r == tick[i].row IN
  /\ tick[i].at = "resend" /\ Answer(r, ok, reached)
  /\ row' = IF ok THEN [row EXCEPT ![r].status = "SENT"] ELSE row
  /\ tick' = [tick EXCEPT ![i] = [at |-> "retry", todo |-> @.todo]]
  /\ UNCHANGED <<notice, made, prefs, address, reminded>>

TickEnds(i) ==
  /\ tick[i].at = "retry" /\ tick[i].todo = {}
  /\ tick' = [tick EXCEPT ![i] = Resting]
  /\ UNCHANGED <<notice, row, made, delivered, prefs, address, reminded>>

\* The instance restarts: the latch is a variable of the process.
Restart(i) ==
  /\ tick[i] # Resting
  /\ tick' = [tick EXCEPT ![i] = Resting]
  /\ UNCHANGED <<notice, row, made, delivered, prefs, address, reminded>>

-----------------------------------------------------------------------------
\* deleteAccount: no address is left, and no preferences (account/delete.ts).
DeleteAccount ==
  /\ address # {}
  /\ address' = {}
  /\ prefs' = NoPrefs
  /\ UNCHANGED <<notice, row, made, delivered, tick, reminded>>

Sends(c) == Queue(c) \/ Returns(c) \/ \E ok, reached \in BOOLEAN : Outcome(c, ok, reached)

Ticks(i) ==
  \/ TickStarts(i) \/ RemindReads(i) \/ RemindClaims(i) \/ SweepEnds(i) \/ TickEnds(i)
  \/ \E p \in (IF tick[i].at = "retry" THEN tick[i].todo ELSE {}) :
       Claim(i, p[1], p[2]) \/ SkipRow(i, p[1], p[2])
  \/ \E ok, reached \in BOOLEAN : Resend(i, ok, reached)

OutboxNext ==
  \/ \E c \in Calls :
       \/ Sends(c) \/ NotifyDies(c)
       \/ \E t \in Templates : Notify(c, t)
  \/ \E i \in Instances : Ticks(i) \/ Restart(i)
  \/ \E raw \in Matrix : SavePrefs(raw)
  \/ DeleteAccount

OutboxSpec == OutboxInit /\ [][OutboxNext]_outVars

\* The tick claims the attempt of a row that it listed.
Claims(i) == \E p \in (IF tick[i].at = "retry" THEN tick[i].todo ELSE {}) : Claim(i, p[1], p[2])

-----------------------------------------------------------------------------
(* Properties                                                                *)

\* Every variable holds a value of its type; no row is tried beyond the cap.
OutboxTypeOK ==
  /\ \A r \in Rows : row[r] # Unwritten =>
       row[r].status \in {"QUEUED", "SENT", "FAILED"} /\ row[r].attempts \in 0 .. MaxAttempts
  /\ delivered \in [Rows -> Nat] /\ prefs \in {NoPrefs} \cup Matrix /\ reminded \in Nat /\ made \in Seq(Rows)

\* Every send is an attempt of its own: however ticks of two instances overlap,
\* stop and lose answers, no row goes out more often than it has attempts
\* (retry.ts:6-10).
EachSendIsAnAttempt ==
  \A r \in Rows : row[r] # Unwritten =>
    delivered[r] <= row[r].attempts + (IF row[r].status = "QUEUED" THEN 1 ELSE 0)

\* The payment reminder of a booking is claimed once, also when the ticks of two
\* instances find it due together (sweeps.ts:79-83).
OneReminder == reminded <= 1

\* A user cannot miss an essential notice by a setting: once notify returned, the email of
\* an essential template has its row if there was an email address to send it to, whatever
\* settings were stored or saved meanwhile.
EssentialEmailIsLogged ==
  \A c \in Calls :
    /\ notice[c].at = "returned" /\ notice[c].template.known /\ notice[c].template.essential
    /\ EMAIL \in notice[c].addressed
    => row[<<c, EMAIL>>] # Unwritten

\* Saving the form without a change changes nothing: what normalizePrefs stores
\* lets the same notices through as what it was given.
NormalizeKeepsMeaning ==
  \A email, line \in Cell, t \in Templates, ch \in Channels :
    LET raw == [email |-> email, line |-> line] IN
    ChannelAllowed(Normalize(raw, t.essential), t, ch) = ChannelAllowed(raw, t, ch)

\* However ticks, crashes and settings mix: no send without its attempt, one reminder,
\* and no setting that silences an essential notice or changes by being saved.
OutboxInv ==
  OutboxTypeOK /\ EachSendIsAnAttempt /\ OneReminder /\ EssentialEmailIsLogged /\ NormalizeKeepsMeaning

\* A row behind a full batch of older ones that settings or addresses stop.
Starved(r) == Cardinality({q \in Ahead(r) : ~Sendable(notice[q[1]].template, q[2])}) >= Batch

\* A failed email that the user may not switch off is tried until it is sent, has used
\* up its attempts or has no address any more, however ticks stop and overlap, settings
\* change and other rows fail; but for a row that again and again is behind a full batch
\* of older ones that are skipped, which the sweep never gets to (retry.ts:23-47).
FailedEmailIsRetried ==
  \A c \in Calls :
    LET r == <<c, EMAIL>> IN
    <>[]~Starved(r) =>
      ((row[r].status = "FAILED" /\ notice[c].template.essential)
       ~> (row[r].status = "SENT" \/ row[r].attempts = MaxAttempts \/ EMAIL \notin address))
=============================================================================
