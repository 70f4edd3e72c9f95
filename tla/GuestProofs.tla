----------------------------- MODULE GuestProofs -----------------------------
(***************************************************************************)
(* What the components a guest works with promise, for any number of       *)
(* messages, posts, reports, panels, tabs, calls and retries: the thread   *)
(* of a booking, the review and its flags, the concierge's chat and tools, *)
(* phone codes and the deletion of the account, the page of saved villas.  *)
(***************************************************************************)
EXTENDS Threads, Reviews, Concierge, Accounts, Tools, Saved, FiniteSetTheorems, WellFoundedInduction, TLAPS

-----------------------------------------------------------------------------
(* Threads                                                                  *)

Stored == [at : {"stored"}, sender : Posts, read : BOOLEAN, contact : BOOLEAN]
Sending == [at : {"read", "stored"}, open : BOOLEAN, now : 0 .. MaxClock]
Reveals == [at : {"idle", "read", "audited"}, audited : Nat, shown : Nat]

ShapeInv ==
  /\ clock \in 0 .. MaxClock /\ unmasked \in BOOLEAN
  /\ message \in [Messages -> {Vacant} \cup Stored]
  /\ post \in [Posts -> {Waiting} \cup Sending]
  /\ view \in [Sides -> {"idle", "loaded"}]
  /\ notified \subseteq 0 .. MaxClock
  /\ reveal \in Reveals

\* What a post read of the booking is still true when it stores its message.
ContactInv ==
  /\ \A m \in Messages : message[m] # Vacant /\ message[m].contact => unmasked
  /\ \A p \in Posts : post[p] # Waiting /\ post[p].open => unmasked

\* There is a latest push, which lastNotifiedAt is, and the others are well before it.
IsLatest(t) == t \in notified /\ \A u \in notified : u <= t
PushInv ==
  /\ \A t, u \in notified : t < u => t + Throttle < u
  /\ notified # {} => \E t \in notified : IsLatest(t)

\* A page is on its way only with an audit row of its own.
AuditInv ==
  /\ reveal.shown <= reveal.audited
  /\ reveal.at = "audited" => reveal.shown < reveal.audited

PromiseInv == ShapeInv /\ ContactInv /\ PushInv /\ AuditInv

-----------------------------------------------------------------------------
LEMMA InitEstablishes ==
  ASSUME ThreadsInit PROVE PromiseInv
<1>1. ShapeInv
  <2>1. 0 \in 0 .. MaxClock
    BY ThreadsAssumption
  <2>2. reveal \in Reveals
    BY DEF ThreadsInit, Reveals
  <2> QED BY <2>1, <2>2 DEF ThreadsInit, ShapeInv
<1>2. ContactInv /\ PushInv /\ AuditInv
  BY DEF ThreadsInit, ContactInv, PushInv, AuditInv
<1> QED BY <1>1, <1>2 DEF PromiseInv

\* A step that touches none of messages, posts and the confirmation keeps what is known
\* of contact details; and so on for the other parts.
LEMMA ClockKeeps ==
  ASSUME PromiseInv, Tick PROVE PromiseInv'
<1>1. clock' \in 0 .. MaxClock /\ UNCHANGED <<unmasked, message, post, view, notified, reveal>>
  BY ThreadsAssumption DEF Tick, PromiseInv, ShapeInv
<1> QED BY <1>1 DEF PromiseInv, ShapeInv, ContactInv, PushInv, IsLatest, AuditInv

LEMMA UnmaskKeeps ==
  ASSUME PromiseInv, Unmask PROVE PromiseInv'
<1>1. unmasked' = TRUE /\ UNCHANGED <<clock, message, post, view, notified, reveal>>
  BY DEF Unmask
<1> QED BY <1>1 DEF PromiseInv, ShapeInv, ContactInv, PushInv, IsLatest, AuditInv

LEMMA WaitingIsNone == \A s \in Sending : s # Waiting
BY DEF Sending, Waiting

LEMMA PostKeeps ==
  ASSUME PromiseInv, NEW p \in Posts, Post(p) PROVE PromiseInv'
<1> DEFINE s == [at |-> "read", open |-> unmasked, now |-> clock]
<1>1. post' = [post EXCEPT ![p] = s] /\ UNCHANGED <<clock, unmasked, message, view, notified, reveal>>
  BY DEF Post
<1>2. s \in Sending /\ s.open = unmasked
  BY DEF PromiseInv, ShapeInv, Sending
<1> HIDE DEF s
<1>3. post' \in [Posts -> {Waiting} \cup Sending] /\ post'[p] = s
      /\ \A q \in Posts \ {p} : post'[q] = post[q]
  BY <1>1, <1>2 DEF PromiseInv, ShapeInv
<1>4. ShapeInv' /\ PushInv' /\ AuditInv'
  BY <1>1, <1>3 DEF PromiseInv, ShapeInv, PushInv, IsLatest, AuditInv
<1>5. ContactInv'
  BY <1>1, <1>2, <1>3 DEF PromiseInv, ContactInv
<1> QED BY <1>4, <1>5 DEF PromiseInv

LEMMA StoreKeeps ==
  ASSUME PromiseInv, NEW p \in Posts, NEW m \in Messages, Store(p, m) PROVE PromiseInv'
<1> DEFINE w == [at |-> "stored", sender |-> p, read |-> FALSE, contact |-> post[p].open]
           s == [post[p] EXCEPT !.at = "stored"]
<1>1. /\ post[p].at = "read" /\ message' = [message EXCEPT ![m] = w]
      /\ post' = [post EXCEPT ![p].at = "stored"]
      /\ UNCHANGED <<clock, unmasked, view, notified, reveal>>
  BY DEF Store
<1>2. post[p] \in Sending /\ post[p] # Waiting
  BY <1>1, WaitingIsNone DEF PromiseInv, ShapeInv, Waiting
<1>3. w \in Stored /\ w.contact = post[p].open
  BY <1>2 DEF Stored, Sending
<1>4. s \in Sending /\ s.open = post[p].open /\ post' = [post EXCEPT ![p] = s]
  BY <1>1, <1>2 DEF Sending, PromiseInv, ShapeInv
<1> HIDE DEF w, s
<1>5. /\ message' \in [Messages -> {Vacant} \cup Stored] /\ message'[m] = w
      /\ \A n \in Messages \ {m} : message'[n] = message[n]
  BY <1>1, <1>3 DEF PromiseInv, ShapeInv
<1>6. /\ post' \in [Posts -> {Waiting} \cup Sending] /\ post'[p] = s
      /\ \A q \in Posts \ {p} : post'[q] = post[q]
  BY <1>4 DEF PromiseInv, ShapeInv
<1>7. ShapeInv' /\ PushInv' /\ AuditInv'
  BY <1>1, <1>5, <1>6 DEF PromiseInv, ShapeInv, PushInv, IsLatest, AuditInv
<1>8. ContactInv'
  BY <1>1, <1>2, <1>3, <1>4, <1>5, <1>6 DEF PromiseInv, ContactInv
<1> QED BY <1>7, <1>8 DEF PromiseInv

\* The call of p ends, after a push or without one.
LEMMA EndedPost ==
  ASSUME PromiseInv, NEW p \in Posts, post' = [post EXCEPT ![p] = Waiting],
         UNCHANGED <<clock, unmasked, message, view, reveal>>
  PROVE  /\ post' \in [Posts -> {Waiting} \cup Sending] /\ ContactInv'
         /\ AuditInv'
<1>1. \A q \in Posts : post'[q] # Waiting => post'[q] = post[q]
  BY DEF PromiseInv, ShapeInv
<1> QED BY <1>1 DEF PromiseInv, ShapeInv, ContactInv, AuditInv

LEMMA LatestIsLast ==
  ASSUME NEW t \in notified, IsLatest(t) PROVE IsLatest(LastNotified)
BY DEF LastNotified, IsLatest

LEMMA ClaimPushKeeps ==
  ASSUME PromiseInv, NEW p \in Posts, ClaimPush(p) PROVE PromiseInv'
<1> DEFINE now == post[p].now
<1>1. /\ post[p].at = "stored" /\ post' = [post EXCEPT ![p] = Waiting]
      /\ notified' = IF Quiet(now) THEN notified \cup {now} ELSE notified
      /\ UNCHANGED <<clock, unmasked, message, view, reveal>>
  BY DEF ClaimPush
<1>2. now \in 0 .. MaxClock
  BY <1>1 DEF PromiseInv, ShapeInv, Waiting, Sending
<1> HIDE DEF now
<1>3. notified' \subseteq 0 .. MaxClock /\ notified \subseteq Nat /\ now \in Nat
  BY <1>1, <1>2, ThreadsAssumption DEF PromiseInv, ShapeInv
<1>4. PushInv'
  <2>1. CASE notified' = notified
    BY <2>1 DEF PromiseInv, PushInv, IsLatest
  <2>2. CASE Quiet(now) /\ notified = {} /\ notified' = {now}
    BY <1>3, <2>2 DEF PushInv, IsLatest
  <2>3. CASE Quiet(now) /\ notified # {} /\ notified' = notified \cup {now}
    <3>1. IsLatest(LastNotified)
      BY <2>3, LatestIsLast DEF PromiseInv, PushInv
    <3>2. LastNotified + Throttle < now
      BY <2>3 DEF Quiet
    <3>3. \A u \in notified : u + Throttle < now /\ u < now
      BY <1>3, <3>1, <3>2, ThreadsAssumption DEF IsLatest
    <3>4. \A t, u \in notified' : t < u => t + Throttle < u
      BY <1>3, <2>3, <3>3 DEF PromiseInv, PushInv
    <3>5. now \in notified' /\ \A u \in notified' : u <= now
      BY <1>3, <2>3, <3>3
    <3> QED BY <3>4, <3>5 DEF PushInv, IsLatest
  <2> QED BY <1>1, <2>1, <2>2, <2>3
<1>5. ShapeInv' /\ ContactInv' /\ AuditInv'
  BY <1>1, <1>3, EndedPost DEF PromiseInv, ShapeInv
<1> QED BY <1>4, <1>5 DEF PromiseInv

LEMMA PostFailsKeeps ==
  ASSUME PromiseInv, NEW p \in Posts, PostFails(p) PROVE PromiseInv'
<1>1. /\ post' = [post EXCEPT ![p] = Waiting]
      /\ UNCHANGED <<clock, unmasked, message, view, notified, reveal>>
  BY DEF PostFails
<1>2. ShapeInv' /\ ContactInv' /\ AuditInv'
  BY <1>1, EndedPost DEF PromiseInv, ShapeInv
<1>3. PushInv'
  BY <1>1 DEF PromiseInv, PushInv, IsLatest
<1> QED BY <1>2, <1>3 DEF PromiseInv

LEMMA ViewKeeps ==
  ASSUME PromiseInv, NEW p \in Sides, OpenThread(p) \/ MarkRead(p) PROVE PromiseInv'
<1>1. UNCHANGED <<clock, unmasked, post, notified, reveal>>
  BY DEF OpenThread, MarkRead
<1>2. view' \in [Sides -> {"idle", "loaded"}]
  BY DEF OpenThread, MarkRead, PromiseInv, ShapeInv
<1>3. /\ message' \in [Messages -> {Vacant} \cup Stored]
      /\ \A m \in Messages : message'[m] # Vacant =>
           message[m] # Vacant /\ message'[m].contact = message[m].contact
  <2>1. CASE OpenThread(p)
    BY <2>1 DEF OpenThread, PromiseInv, ShapeInv
  <2>2. CASE MarkRead(p)
    <3> SUFFICES ASSUME NEW m \in Messages
                 PROVE  /\ message'[m] \in {Vacant} \cup Stored
                        /\ message'[m] # Vacant =>
                             message[m] # Vacant /\ message'[m].contact = message[m].contact
      BY <2>2 DEF MarkRead
    <3>1. \/ message'[m] = message[m]
          \/ m \in Kept /\ message'[m] = [message[m] EXCEPT !.read = TRUE]
      BY <2>2 DEF MarkRead
    <3>2. m \in Kept => message[m] \in Stored /\ message[m] # Vacant
      BY DEF Kept, PromiseInv, ShapeInv, Vacant
    <3>3. message[m] \in {Vacant} \cup Stored
      BY DEF PromiseInv, ShapeInv
    <3> QED BY <3>1, <3>2, <3>3 DEF Stored
  <2> QED BY <2>1, <2>2
<1>4. ShapeInv' /\ PushInv' /\ AuditInv'
  BY <1>1, <1>2, <1>3 DEF PromiseInv, ShapeInv, PushInv, IsLatest, AuditInv
<1>5. ContactInv'
  BY <1>1, <1>3 DEF PromiseInv, ContactInv
<1> QED BY <1>4, <1>5 DEF PromiseInv

LEMMA RevealKeeps ==
  ASSUME PromiseInv, Reveal \/ Audit \/ RevealShown \/ RevealStops PROVE PromiseInv'
<1>1. UNCHANGED <<clock, unmasked, message, post, view, notified>>
  BY DEF Reveal, Audit, RevealShown, RevealStops
<1>2. reveal \in Reveals /\ AuditInv
  BY DEF PromiseInv, ShapeInv
<1>3. reveal' \in Reveals /\ AuditInv'
  <2>1. reveal.shown \in Nat /\ reveal.audited \in Nat /\ reveal.at \in {"idle", "read", "audited"}
    BY <1>2 DEF Reveals
  <2>2. CASE Reveal
    <3>1. reveal' = [reveal EXCEPT !.at = "read"]
      BY <2>2 DEF Reveal
    <3> QED BY <1>2, <3>1 DEF Reveals, AuditInv
  <2>3. CASE Audit
    <3>1. reveal' = [reveal EXCEPT !.at = "audited", !.audited = @ + 1]
      BY <2>3 DEF Audit
    <3>2. reveal'.audited = reveal.audited + 1 /\ reveal'.shown = reveal.shown
      BY <1>2, <3>1 DEF Reveals
    <3>3. reveal.audited + 1 \in Nat
      BY <2>1
    <3>4. reveal' \in Reveals
      BY <1>2, <3>1, <3>3 DEF Reveals
    <3> QED BY <1>2, <2>1, <3>2, <3>4 DEF AuditInv
  <2>4. CASE RevealShown
    <3>1. reveal.at = "audited" /\ reveal' = [reveal EXCEPT !.at = "idle", !.shown = @ + 1]
      BY <2>4 DEF RevealShown
    <3>2. reveal'.at = "idle" /\ reveal'.audited = reveal.audited /\ reveal'.shown = reveal.shown + 1
      BY <1>2, <3>1 DEF Reveals
    <3>3. reveal.shown + 1 \in Nat
      BY <2>1
    <3>4. reveal' \in Reveals
      BY <1>2, <3>1, <3>3 DEF Reveals
    <3> QED BY <1>2, <2>1, <3>1, <3>2, <3>4 DEF AuditInv
  <2>5. CASE RevealStops
    <3>1. reveal' = [reveal EXCEPT !.at = "idle"]
      BY <2>5 DEF RevealStops
    <3> QED BY <1>2, <3>1 DEF Reveals, AuditInv
  <2> QED BY <2>2, <2>3, <2>4, <2>5
<1> QED BY <1>1, <1>3 DEF PromiseInv, ShapeInv, ContactInv, PushInv, IsLatest

LEMMA StepKeeps ==
  ASSUME PromiseInv, [ThreadsNext]_thrVars PROVE PromiseInv'
<1>1. CASE ThreadsNext
  BY <1>1, ClockKeeps, UnmaskKeeps, PostKeeps, StoreKeeps, ClaimPushKeeps, PostFailsKeeps, ViewKeeps,
     RevealKeeps DEF ThreadsNext
<1>2. CASE UNCHANGED thrVars
  BY <1>2 DEF thrVars, PromiseInv, ShapeInv, ContactInv, PushInv, IsLatest, AuditInv
<1> QED BY <1>1, <1>2

LEMMA PromiseInvariant == ThreadsSpec => []PromiseInv
BY InitEstablishes, StepKeeps, PTL DEF ThreadsSpec

LEMMA PromiseInvImplies == PromiseInv => ThreadInv
<1> SUFFICES ASSUME PromiseInv PROVE ThreadInv
  OBVIOUS
<1>1. ASSUME NEW p \in Sides
      PROVE  Unread(p) <= Cardinality({m \in Kept : message[m].sender # p})
  <2> DEFINE All == {m \in Kept : message[m].sender # p}
             New == {m \in Kept : message[m].sender # p /\ ~message[m].read}
  <2>1. IsFiniteSet(All)
    <3>1. All \in SUBSET Messages /\ IsFiniteSet(Messages)
      BY ThreadsAssumption DEF Kept
    <3> QED BY <3>1, FS_Subset
  <2>2. New \in SUBSET All
    OBVIOUS
  <2>3. Cardinality(New) <= Cardinality(All)
    BY <2>1, <2>2, FS_Subset
  <2> QED BY <2>3 DEF Unread
<1>2. \A m \in Messages : message[m] # Vacant =>
        message[m].sender \in Posts /\ message[m].contact \in BOOLEAN
  BY DEF PromiseInv, ShapeInv, Stored
<1>3. ThreadsTypeOK
  BY <1>1, <1>2 DEF PromiseInv, ShapeInv, ThreadsTypeOK
<1>4. ContactOnlyAfterConfirmation /\ PushesAreApart /\ RevealIsAudited
  BY DEF PromiseInv, ContactInv, PushInv, AuditInv, ContactOnlyAfterConfirmation, PushesAreApart,
         RevealIsAudited
<1> QED BY <1>3, <1>4 DEF ThreadInv

\* However posts, views and the confirmation interleave: no contact detail before money
\* is held, no two pushes within the throttle, no reading by an admin without its audit
\* row (lib/messages/thread.ts, lib/messages/admin.ts).
THEOREM ThreadKeepsPromises == ThreadsSpec => []ThreadInv
BY PromiseInvariant, PromiseInvImplies, PTL

\* Only the recipient's own opening takes a message off the badge (loadThreadForViewer).
THEOREM OnlyRecipientsRead == ThreadsSpec => ReadByTheRecipient
<1> DEFINE ByRecipient == \A m \in Kept : message'[m].read # message[m].read =>
             message'[m].read /\ view[Other(message[m].sender)] = "loaded"
<1>1. ASSUME PromiseInv, [ThreadsNext]_thrVars PROVE ByRecipient
  <2> SUFFICES ASSUME NEW m \in Kept, message'[m].read # message[m].read
               PROVE  message'[m].read /\ view[Other(message[m].sender)] = "loaded"
    OBVIOUS
  <2>1. m \in Messages /\ message[m] \in Stored /\ message[m] # Vacant
    BY <1>1 DEF Kept, PromiseInv, ShapeInv, Vacant
  <2>2. ASSUME NEW p \in Sides, MarkRead(p)
        PROVE  message'[m].read /\ view[Other(message[m].sender)] = "loaded"
    <3>1. /\ view[p] = "loaded"
          /\ message'[m] = IF m \in Kept /\ message[m].sender # p
                           THEN [message[m] EXCEPT !.read = TRUE] ELSE message[m]
      BY <2>1, <2>2 DEF MarkRead
    <3>2. message[m].sender # p /\ message'[m].read
      BY <2>1, <3>1 DEF Stored
    <3>3. message[m].sender \in Sides
      BY <2>1, ThreadsAssumption DEF Stored, Sides
    <3> QED BY <3>1, <3>2, <3>3 DEF Other, Sides
  <2>3. ASSUME NEW p \in Posts, NEW n \in Messages, Store(p, n) PROVE FALSE
    BY <1>1, <2>1, <2>3 DEF Store, PromiseInv, ShapeInv
  <2>4. ASSUME message' = message PROVE FALSE
    BY <2>4
  <2> QED BY <1>1, <2>2, <2>3, <2>4 DEF ThreadsNext, thrVars, Tick, Unmask, Post, ClaimPush, PostFails,
             OpenThread, Reveal, Audit, RevealShown, RevealStops
<1>2. PromiseInv /\ [ThreadsNext]_thrVars => [ByRecipient]_thrVars
  BY <1>1
<1> QED BY <1>2, PromiseInvariant, PTL DEF ThreadsSpec, ReadByTheRecipient

-----------------------------------------------------------------------------
(* Reviews                                                                  *)

Rows == [at : {"published", "removed"}, score : Scores, photos : SUBSET PhotoKeys]
Reports == [at : {"RECEIVED", "DISMISSED", "RESOLVED"}, b : ReviewBookings]
NoFlag == [at |-> "none"]

RowsShape ==
  /\ form \in [ReviewBookings -> SUBSET PhotoKeys] /\ uploaded \in [ReviewBookings -> SUBSET PhotoKeys]
  /\ review \in [ReviewBookings -> {NoReview} \cup Rows] /\ flag \in [Flags -> {NoFlag} \cup Reports]
  /\ write = [w \in Writers |-> write[w]]

\* Each place a write can be at, and what it took from the rows that is still so.
Raised(F, b) == \A f \in F : flag[f] \in Reports /\ flag[f].b = b
Checked(c) == /\ c.b \in ReviewBookings /\ c.score \in Scores
              /\ c.photos \in SUBSET PhotoKeys /\ c.photos \subseteq uploaded[c.b]
Removing(c) == c.b \in ReviewBookings /\ c.flag \in Flags /\ Raised({c.flag}, c.b)
Counted(c) ==
  /\ c.b \in ReviewBookings /\ c.row \in Rows /\ c.row.photos \subseteq uploaded[c.b]
  /\ c.flag \in SUBSET Flags /\ Raised(c.flag, c.b)
  /\ IF c.flag = {} THEN review[c.b] = NoReview ELSE c.row.at = "removed"
  /\ c.rating = Count([c.base EXCEPT ![c.b] = c.row])
Resolving(c) ==
  /\ c.flag \in SUBSET Flags
  /\ \A f \in c.flag : flag[f] \in Reports /\ review[flag[f].b].at = "removed"

Sound(c) ==
  /\ c.at \in {"idle", "checked", "removing", "counted", "resolve"}
  /\ c.at = "checked" => Checked(c)
  /\ c.at = "removing" => Removing(c)
  /\ c.at = "counted" => Counted(c)
  /\ c.at = "resolve" => Resolving(c)

WritesInv ==
  /\ \A w \in Writers : Sound(write[w])
  /\ \A v, w \in Writers : v # w /\ write[v].at = "counted" /\ write[w].at = "counted" => write[v].b # write[w].b

FlagsInv == \A f \in Flags : flag[f] # NoFlag => review[flag[f].b] # NoReview
FormInv == \A b \in ReviewBookings : form[b] \subseteq uploaded[b]

ReviewIInv == RowsShape /\ FormInv /\ WritesInv /\ FlagsInv /\ ReviewInv

-----------------------------------------------------------------------------
\* What no step takes back: a stored photo, the booking of a flag, a removal.
Monotone ==
  /\ \A b \in ReviewBookings : uploaded[b] \subseteq uploaded'[b]
  /\ \A f \in Flags : flag[f] \in Reports => flag'[f] \in Reports /\ flag'[f].b = flag[f].b
  /\ \A b \in ReviewBookings : review[b].at = "removed" => review'[b].at = "removed"

LEMMA SoundStays ==
  ASSUME NEW c, Sound(c), Monotone, c.at = "counted" => review'[c.b] = review[c.b]
  PROVE  Sound(c)'
<1>1. Checked(c) => Checked(c)'
  BY DEF Checked, Monotone
<1>2. Removing(c) => Removing(c)'
  BY DEF Removing, Raised, Monotone
<1>3. c.at = "counted" => Counted(c)'
  <2> SUFFICES ASSUME c.at = "counted" PROVE Counted(c)'
    OBVIOUS
  <2>1. Counted(c) /\ review'[c.b] = review[c.b]
    BY DEF Sound
  <2>2. Raised(c.flag, c.b)'
    BY <2>1 DEF Counted, Raised, Monotone
  <2>3. c.row.photos \subseteq uploaded'[c.b]
    BY <2>1 DEF Counted, Monotone
  <2> QED BY <2>1, <2>2, <2>3 DEF Counted
<1>4. Resolving(c) => Resolving(c)'
  BY DEF Resolving, Reports, Monotone
<1> QED BY <1>1, <1>2, <1>3, <1>4 DEF Sound

\* The call of w goes on to r, and the others stand.
LEMMA OthersStand ==
  ASSUME ReviewIInv, Monotone, NEW w \in Writers, NEW r, write' = [write EXCEPT ![w] = r], Sound(r)',
         \A v \in Writers \ {w} : write[v].at = "counted" =>
           review'[write[v].b] = review[write[v].b] /\ (r.at = "counted" => write[v].b # r.b)
  PROVE  WritesInv' /\ write' = [v \in Writers |-> write'[v]]
<1>1. write'[w] = r /\ \A v \in Writers \ {w} : write'[v] = write[v]
  BY DEF ReviewIInv, RowsShape
<1>2. write' = [v \in Writers |-> write'[v]]
  BY DEF ReviewIInv, RowsShape
<1>3. ASSUME NEW v \in Writers PROVE Sound(write[v])'
  <2>1. CASE v = w
    BY <1>1, <2>1 DEF Sound, Checked, Removing, Raised, Counted, Resolving
  <2>2. CASE v # w
    <3> PICK c : c = write[v]
      OBVIOUS
    <3>1. Sound(c) /\ write'[v] = c /\ (c.at = "counted" => review'[c.b] = review[c.b])
      BY <1>1, <2>2 DEF ReviewIInv, WritesInv
    <3>2. Sound(c)'
      BY <3>1, SoundStays
    <3> QED BY <3>1, <3>2 DEF Sound, Checked, Removing, Raised, Counted, Resolving
  <2> QED BY <2>1, <2>2
<1>4. ASSUME NEW u \in Writers, NEW v \in Writers, u # v, write'[u].at = "counted", write'[v].at = "counted"
      PROVE  write'[u].b # write'[v].b
  <2>1. CASE u = w
    BY <1>1, <1>4, <2>1
  <2>2. CASE v = w
    BY <1>1, <1>4, <2>2
  <2>3. CASE u # w /\ v # w
    BY <1>1, <1>4, <2>3 DEF ReviewIInv, WritesInv
  <2> QED BY <2>1, <2>2, <2>3
<1> QED BY <1>2, <1>3, <1>4 DEF WritesInv

LEMMA AllStand ==
  ASSUME ReviewIInv, Monotone, UNCHANGED <<review, write>> PROVE WritesInv'
<1>1. ASSUME NEW v \in Writers PROVE Sound(write[v])'
  <2> PICK c : c = write[v]
    OBVIOUS
  <2>1. Sound(c) /\ write'[v] = c
    BY DEF ReviewIInv, WritesInv
  <2>2. Sound(c)'
    BY <2>1, SoundStays
  <2> QED BY <2>1, <2>2 DEF Sound, Checked, Removing, Raised, Counted, Resolving
<1> QED BY <1>1 DEF ReviewIInv, WritesInv

LEMMA OnlyTheWrite ==
  ASSUME ReviewIInv, NEW w \in Writers, NEW r, write' = [write EXCEPT ![w] = r], Sound(r),
         UNCHANGED <<form, uploaded, review, flag>>,
         r.at = "counted" => \A v \in Writers \ {w} : write[v].at = "counted" => write[v].b # r.b
  PROVE  ReviewIInv'
<1>1. Monotone
  BY DEF Monotone
<1>2. Sound(r)'
  BY <1>1, SoundStays
<1>3. WritesInv' /\ write' = [v \in Writers |-> write'[v]]
  BY <1>1, <1>2, OthersStand
<1> QED BY <1>3 DEF ReviewIInv, RowsShape, FormInv, FlagsInv, ReviewInv, ReviewShowsStoredPhotos,
           ResolvedMeansRemoved

LEMMA UploadKeeps ==
  ASSUME ReviewIInv, NEW b \in ReviewBookings, NEW k \in PhotoKeys, Upload(b, k) PROVE ReviewIInv'
<1>1. /\ uploaded' = [uploaded EXCEPT ![b] = @ \cup {k}]
      /\ form' \in {form, [form EXCEPT ![b] = @ \cup {k}]}
      /\ UNCHANGED <<review, write, flag>>
  BY DEF Upload
<1>2. /\ uploaded \in [ReviewBookings -> SUBSET PhotoKeys] /\ form \in [ReviewBookings -> SUBSET PhotoKeys]
      /\ \A a \in ReviewBookings : form[a] \subseteq uploaded[a]
  BY DEF ReviewIInv, RowsShape, FormInv
<1>3. /\ uploaded' \in [ReviewBookings -> SUBSET PhotoKeys]
      /\ \A a \in ReviewBookings : uploaded[a] \subseteq uploaded'[a]
      /\ k \in uploaded'[b]
  BY <1>1, <1>2
<1>4. /\ form' \in [ReviewBookings -> SUBSET PhotoKeys]
      /\ \A a \in ReviewBookings : form'[a] \subseteq uploaded'[a]
  <2>1. CASE form' = form
    BY <1>2, <1>3, <2>1
  <2>2. CASE form' = [form EXCEPT ![b] = @ \cup {k}]
    BY <1>2, <1>3, <2>2
  <2> QED BY <1>1, <2>1, <2>2
<1>5. Monotone
  BY <1>1, <1>3 DEF Monotone
<1>6. WritesInv'
  BY <1>1, <1>5, AllStand
<1>7. ReviewShowsStoredPhotos'
  BY <1>1, <1>3 DEF ReviewIInv, ReviewInv, ReviewShowsStoredPhotos
<1> QED BY <1>1, <1>3, <1>4, <1>6, <1>7
        DEF ReviewIInv, RowsShape, FormInv, FlagsInv, ReviewInv, ResolvedMeansRemoved

LEMMA SubmitReviewKeeps ==
  ASSUME ReviewIInv, NEW w \in Writers, NEW b \in ReviewBookings, NEW s \in Scores,
         NEW photos \in {{}, form[b]}, SubmitReview(w, b, s, photos)
  PROVE  ReviewIInv'
<1> PICK r : r = [at |-> "checked", b |-> b, score |-> s, photos |-> photos]
  OBVIOUS
<1>1. write' = [write EXCEPT ![w] = r] /\ UNCHANGED <<form, uploaded, review, flag>>
  BY DEF SubmitReview
<1>2. photos \in SUBSET PhotoKeys /\ photos \subseteq uploaded[b]
  BY DEF ReviewIInv, RowsShape, FormInv
<1>3. Sound(r)
  BY <1>2 DEF Sound, Checked
<1> QED BY <1>1, <1>3, OnlyTheWrite

\* What the transaction of w leaves when it has counted: nobody else holds the booking.
LEMMA CountsKeep ==
  ASSUME ReviewIInv, NEW w \in Writers, NEW row \in Rows, Counts(w, row), ~Locked(w, write[w].b),
         write[w].at \in {"checked", "removing"}, row.photos \subseteq uploaded[write[w].b],
         IF write[w].at = "checked" THEN review[write[w].b] = NoReview ELSE row.at = "removed",
         UNCHANGED <<form, uploaded, review, flag>>
  PROVE  ReviewIInv'
<1> PICK c : c = write[w]
  OBVIOUS
<1> PICK F : F = IF c.at = "removing" THEN {c.flag} ELSE {}
  OBVIOUS
<1> PICK r : r = [at |-> "counted", b |-> c.b, row |-> row, base |-> review,
                  rating |-> Count([review EXCEPT ![c.b] = row]), flag |-> F]
  OBVIOUS
<1>1. write' = [write EXCEPT ![w] = r]
  BY DEF Counts
<1>2. Sound(c) /\ c.b \in ReviewBookings
  BY DEF ReviewIInv, WritesInv, Sound, Checked, Removing
<1>3. /\ r.at = "counted" /\ r.b = c.b /\ r.row = row /\ r.flag = F /\ r.base = review
      /\ r.rating = Count([review EXCEPT ![c.b] = row])
  OBVIOUS
<1>4. F \in SUBSET Flags /\ Raised(F, c.b) /\ (F = {} <=> c.at # "removing")
  BY <1>2 DEF Sound, Removing, Raised
<1>5. Counted(r)
  BY <1>2, <1>3, <1>4 DEF Counted
<1>6. Sound(r)
  BY <1>3, <1>5 DEF Sound
<1>7. \A v \in Writers \ {w} : write[v].at = "counted" => write[v].b # r.b
  BY <1>3 DEF Locked
<1> QED BY <1>1, <1>6, <1>7, OnlyTheWrite

LEMMA RestKeeps ==
  ASSUME ReviewIInv, NEW w \in Writers, write' = [write EXCEPT ![w] = AtRest],
         UNCHANGED <<form, uploaded, review, flag>>
  PROVE  ReviewIInv'
<1>1. Sound(AtRest) /\ AtRest.at # "counted"
  BY DEF Sound, AtRest
<1> QED BY <1>1, OnlyTheWrite

LEMMA CreateReviewKeeps ==
  ASSUME ReviewIInv, NEW w \in Writers, CreateReview(w) PROVE ReviewIInv'
<1> PICK row : row = [at |-> "published", score |-> write[w].score, photos |-> write[w].photos]
  OBVIOUS
<1>1. Checked(write[w])
  BY DEF CreateReview, ReviewIInv, WritesInv, Sound
<1>2. row \in Rows /\ row.photos \subseteq uploaded[write[w].b]
  BY <1>1 DEF Checked, Rows
<1>3. CASE review[write[w].b] = NoReview
  BY <1>2, <1>3, CountsKeep DEF CreateReview
<1>4. CASE review[write[w].b] # NoReview
  BY <1>4, RestKeeps DEF CreateReview
<1> QED BY <1>3, <1>4

LEMMA DeleteReviewKeeps ==
  ASSUME ReviewIInv, NEW w \in Writers, DeleteReview(w) PROVE ReviewIInv'
<1> PICK b : b = write[w].b
  OBVIOUS
<1> PICK row : row = [review[b] EXCEPT !.at = "removed"]
  OBVIOUS
<1>1. Removing(write[w]) /\ write[w].at = "removing"
  BY DEF DeleteReview, ReviewIInv, WritesInv, Sound
<1>2. b \in ReviewBookings /\ review[b] \in Rows
  <2>1. b \in ReviewBookings /\ write[w].flag \in Flags /\ flag[write[w].flag].b = b
        /\ flag[write[w].flag] \in Reports
    BY <1>1 DEF Removing, Raised
  <2>2. flag[write[w].flag] # NoFlag
    BY <2>1 DEF Reports, NoFlag
  <2> QED BY <2>1, <2>2 DEF ReviewIInv, RowsShape, FlagsInv
<1>3. row \in Rows /\ row.at = "removed" /\ row.photos = review[b].photos
  BY <1>2 DEF Rows
<1>4. review[b].photos \subseteq uploaded[b]
  <2>1. review[b] # NoReview
    BY <1>2 DEF Rows, NoReview
  <2> QED BY <1>2, <2>1 DEF ReviewIInv, ReviewInv, ReviewShowsStoredPhotos
<1> QED BY <1>1, <1>3, <1>4, CountsKeep DEF DeleteReview

\* The row reaches everybody: it is a first one, or takes a review away for good.
LEMMA CommitKeeps ==
  ASSUME ReviewIInv, NEW w \in Writers, Commit(w) PROVE ReviewIInv'
<1> PICK c : c = write[w]
  OBVIOUS
<1> PICK r : r = IF c.flag = {} THEN AtRest ELSE [at |-> "resolve", flag |-> c.flag]
  OBVIOUS
<1>1. /\ c.at = "counted" /\ review' = [review EXCEPT ![c.b] = c.row]
      /\ write' = [write EXCEPT ![w] = r] /\ UNCHANGED <<form, uploaded, flag>>
  BY DEF Commit
<1>2. Counted(c)
  BY <1>1 DEF ReviewIInv, WritesInv, Sound
<1>3. /\ review \in [ReviewBookings -> {NoReview} \cup Rows] /\ c.b \in ReviewBookings /\ c.row \in Rows
      /\ review' \in [ReviewBookings -> {NoReview} \cup Rows]
      /\ review'[c.b] = c.row /\ \A b \in ReviewBookings \ {c.b} : review'[b] = review[b]
  BY <1>1, <1>2 DEF ReviewIInv, RowsShape, Counted
<1>4. Monotone
  <2>1. review[c.b].at = "removed" => c.row.at = "removed"
    BY <1>2 DEF Counted, NoReview
  <2> QED BY <1>1, <1>3, <2>1 DEF Monotone
<1>5. Sound(r)'
  <2>1. CASE c.flag = {}
    BY <2>1 DEF Sound, AtRest
  <2>2. CASE c.flag # {}
    <3>1. c.flag \in SUBSET Flags /\ \A f \in c.flag : flag[f] \in Reports /\ flag[f].b = c.b
      BY <1>2 DEF Counted, Raised
    <3>2. c.row.at = "removed"
      BY <1>2, <2>2 DEF Counted
    <3>3. r.at = "resolve" /\ r.flag = c.flag
      BY <2>2
    <3>4. Resolving(r)'
      BY <1>1, <1>3, <3>1, <3>2, <3>3 DEF Resolving
    <3> QED BY <3>3, <3>4 DEF Sound
  <2> QED BY <2>1, <2>2
<1>6. r.at # "counted"
  BY DEF AtRest
<1>7. \A v \in Writers \ {w} : write[v].at = "counted" => review'[write[v].b] = review[write[v].b]
  <2> SUFFICES ASSUME NEW v \in Writers \ {w}, write[v].at = "counted"
               PROVE  review'[write[v].b] = review[write[v].b]
    OBVIOUS
  <2>1. write[v].b # c.b /\ write[v].b \in ReviewBookings
    BY <1>1 DEF ReviewIInv, WritesInv, Sound, Counted
  <2> QED BY <1>3, <2>1
<1>8. WritesInv' /\ write' = [v \in Writers |-> write'[v]]
  BY <1>1, <1>4, <1>5, <1>6, <1>7, OthersStand
<1>9. \A b \in ReviewBookings : review[b] # NoReview => review'[b] # NoReview
  <2>1. c.row # NoReview
    BY <1>3 DEF Rows, NoReview
  <2> QED BY <1>3, <2>1
<1>10. \A f \in Flags : flag[f] # NoFlag => flag[f].b \in ReviewBookings
  BY DEF ReviewIInv, RowsShape, Reports
<1>11. ReviewShowsStoredPhotos'
  <2>1. c.row.photos \subseteq uploaded[c.b]
    BY <1>2 DEF Counted
  <2> QED BY <1>1, <1>3, <2>1 DEF ReviewIInv, ReviewInv, ReviewShowsStoredPhotos
<1>12. ResolvedMeansRemoved' /\ FlagsInv'
  <2>1. \A f \in Flags : flag[f].at = "RESOLVED" => flag[f] # NoFlag
    BY DEF NoFlag
  <2> QED BY <1>1, <1>4, <1>9, <1>10, <2>1
          DEF ReviewIInv, ReviewInv, ResolvedMeansRemoved, FlagsInv, Monotone
<1> QED BY <1>1, <1>3, <1>8, <1>11, <1>12 DEF ReviewIInv, RowsShape, FormInv, ReviewInv

LEMMA RemoveReviewKeeps ==
  ASSUME ReviewIInv, NEW w \in Writers, NEW f \in Flags, RemoveReview(w, f) PROVE ReviewIInv'
<1> PICK r : r = [at |-> "removing", b |-> flag[f].b, flag |-> f]
  OBVIOUS
<1>1. flag[f] \in Reports
  BY DEF RemoveReview, ReviewIInv, RowsShape, NoFlag
<1>2. Sound(r) /\ r.at # "counted"
  BY <1>1 DEF Sound, Removing, Raised, Reports
<1> QED BY <1>2, OnlyTheWrite DEF RemoveReview

\* A step on flags keeps their bookings; one is RESOLVED when its review is gone.
LEMMA FlagStepKeeps ==
  ASSUME ReviewIInv, flag' \in [Flags -> {NoFlag} \cup Reports], UNCHANGED <<form, uploaded, review>>,
         \A f \in Flags : flag[f] \in Reports => flag'[f] \in Reports /\ flag'[f].b = flag[f].b,
         \A f \in Flags : flag'[f] # NoFlag => review[flag'[f].b] # NoReview,
         \A f \in Flags : flag'[f].at = "RESOLVED" => review[flag'[f].b].at = "removed",
         UNCHANGED write \/ \E w \in Writers : write' = [write EXCEPT ![w] = AtRest]
  PROVE  ReviewIInv'
<1>1. Monotone
  BY DEF Monotone
<1>2. WritesInv' /\ write' = [v \in Writers |-> write'[v]]
  <2>1. CASE UNCHANGED write
    BY <1>1, <2>1, AllStand DEF ReviewIInv, RowsShape
  <2>2. ASSUME NEW w \in Writers, write' = [write EXCEPT ![w] = AtRest]
        PROVE  WritesInv' /\ write' = [v \in Writers |-> write'[v]]
    <3>1. Sound(AtRest)' /\ AtRest.at # "counted"
      BY DEF Sound, AtRest
    <3> QED BY <1>1, <2>2, <3>1, OthersStand
  <2> QED BY <2>1, <2>2
<1> QED BY <1>2 DEF ReviewIInv, RowsShape, FormInv, FlagsInv, ReviewInv, ReviewShowsStoredPhotos,
           ResolvedMeansRemoved

LEMMA FlagReviewKeeps ==
  ASSUME ReviewIInv, NEW b \in ReviewBookings, NEW f \in Flags, FlagReview(f, b) PROVE ReviewIInv'
<1> PICK r : r = [at |-> "RECEIVED", b |-> b]
  OBVIOUS
<1>1. /\ flag' = [flag EXCEPT ![f] = r] /\ UNCHANGED <<form, uploaded, review, write>>
      /\ flag[f].at = "none" /\ review[b] # NoReview
  BY DEF FlagReview
<1>2. r \in Reports /\ r.b = b /\ r.at # "RESOLVED" /\ r # NoFlag
  BY DEF Reports, NoFlag
<1>3. /\ flag' \in [Flags -> {NoFlag} \cup Reports] /\ flag'[f] = r
      /\ \A g \in Flags \ {f} : flag'[g] = flag[g]
  BY <1>1, <1>2 DEF ReviewIInv, RowsShape
<1>4. flag[f] \notin Reports
  BY <1>1 DEF Reports
<1>5. /\ \A g \in Flags : flag[g] \in Reports => flag'[g] \in Reports /\ flag'[g].b = flag[g].b
      /\ \A g \in Flags : flag'[g] # NoFlag => review[flag'[g].b] # NoReview
      /\ \A g \in Flags : flag'[g].at = "RESOLVED" => review[flag'[g].b].at = "removed"
  BY <1>1, <1>2, <1>3, <1>4 DEF ReviewIInv, FlagsInv, ReviewInv, ResolvedMeansRemoved
<1> QED BY <1>1, <1>3, <1>5, FlagStepKeeps

\* Flags take another status; those that become RESOLVED have their review removed.
LEMMA StatusKeeps ==
  ASSUME ReviewIInv, NEW F \in SUBSET Flags, NEW s \in {"DISMISSED", "RESOLVED"},
         flag' = [g \in Flags |-> IF g \in F THEN [flag[g] EXCEPT !.at = s] ELSE flag[g]],
         \A f \in F : flag[f] \in Reports /\ (s = "RESOLVED" => review[flag[f].b].at = "removed"),
         UNCHANGED <<form, uploaded, review>>,
         UNCHANGED write \/ \E w \in Writers : write' = [write EXCEPT ![w] = AtRest]
  PROVE  ReviewIInv'
<1>1. ASSUME NEW f \in F PROVE flag'[f] \in Reports /\ flag'[f].b = flag[f].b /\ flag'[f].at = s
  <2>1. flag'[f] = [flag[f] EXCEPT !.at = s] /\ flag[f] \in Reports
    OBVIOUS
  <2> QED BY <2>1 DEF Reports
<1>2. \A f \in Flags \ F : flag'[f] = flag[f]
  OBVIOUS
<1>3. flag \in [Flags -> {NoFlag} \cup Reports]
  BY DEF ReviewIInv, RowsShape
<1>4. \A f \in Flags : flag'[f] \in {NoFlag} \cup Reports
  BY <1>1, <1>2, <1>3
<1>5. flag' \in [Flags -> {NoFlag} \cup Reports]
  BY <1>4
<1>6. \A f \in F : flag[f] # NoFlag
  BY DEF Reports, NoFlag
<1>7. /\ \A f \in Flags : flag[f] \in Reports => flag'[f] \in Reports /\ flag'[f].b = flag[f].b
      /\ \A f \in Flags : flag'[f] # NoFlag => review[flag'[f].b] # NoReview
      /\ \A f \in Flags : flag'[f].at = "RESOLVED" => review[flag'[f].b].at = "removed"
  BY <1>1, <1>2, <1>6 DEF ReviewIInv, FlagsInv, ReviewInv, ResolvedMeansRemoved
<1> QED BY <1>5, <1>7, FlagStepKeeps

LEMMA ModerationKeeps ==
  ASSUME ReviewIInv,
         (\E f \in Flags : KeepReview(f)) \/ (\E w \in Writers : ResolveFlag(w))
  PROVE  ReviewIInv'
<1>1. flag \in [Flags -> {NoFlag} \cup Reports]
  BY DEF ReviewIInv, RowsShape
<1>2. ASSUME NEW f \in Flags, KeepReview(f) PROVE ReviewIInv'
  <2>1. flag[f] \in Reports
    BY <1>1, <1>2 DEF KeepReview, NoFlag
  <2>2. flag' = [g \in Flags |-> IF g \in {f} THEN [flag[g] EXCEPT !.at = "DISMISSED"] ELSE flag[g]]
    BY <1>1, <1>2 DEF KeepReview
  <2>3. {f} \in SUBSET Flags /\ UNCHANGED <<form, uploaded, review, write>>
    BY <1>2 DEF KeepReview
  <2> QED BY <2>1, <2>2, <2>3, StatusKeeps
<1>3. ASSUME NEW w \in Writers, ResolveFlag(w) PROVE ReviewIInv'
  <2> PICK F : F = write[w].flag
    OBVIOUS
  <2>1. Resolving(write[w])
    BY <1>3 DEF ResolveFlag, ReviewIInv, WritesInv, Sound
  <2>2. F \in SUBSET Flags /\ \A f \in F : flag[f] \in Reports /\ review[flag[f].b].at = "removed"
    BY <2>1 DEF Resolving
  <2>3. /\ flag' = [g \in Flags |-> IF g \in F THEN [flag[g] EXCEPT !.at = "RESOLVED"] ELSE flag[g]]
        /\ write' = [write EXCEPT ![w] = AtRest] /\ UNCHANGED <<form, uploaded, review>>
    BY <1>3 DEF ResolveFlag
  <2> QED BY <2>2, <2>3, StatusKeeps
<1> QED BY <1>2, <1>3

LEMMA ReviewsInitKeeps ==
  ASSUME ReviewsInit PROVE ReviewIInv
<1>1. RowsShape
  BY DEF ReviewsInit, RowsShape, NoFlag
<1>2. WritesInv
  BY DEF ReviewsInit, WritesInv, Sound, AtRest
<1>3. FormInv /\ FlagsInv /\ ReviewInv
  BY DEF ReviewsInit, FormInv, FlagsInv, ReviewInv, ReviewShowsStoredPhotos, ResolvedMeansRemoved, NoFlag
<1> QED BY <1>1, <1>2, <1>3 DEF ReviewIInv

LEMMA SameRows ==
  ASSUME ReviewIInv, UNCHANGED <<form, uploaded, review, write, flag>> PROVE ReviewIInv'
<1>1. Monotone
  BY DEF Monotone
<1>2. WritesInv'
  BY <1>1, AllStand
<1> QED BY <1>2 DEF ReviewIInv, RowsShape, FormInv, FlagsInv, ReviewInv, ReviewShowsStoredPhotos,
           ResolvedMeansRemoved

LEMMA ReviewStep ==
  ASSUME ReviewIInv, [ReviewsNext]_revVars PROVE ReviewIInv'
<1>1. CASE ReviewsNext
  <2>1. ASSUME NEW b \in ReviewBookings, StayMoves(b) PROVE ReviewIInv'
    BY <2>1, SameRows DEF StayMoves
  <2>2. ASSUME NEW w \in Writers, WriterStops(w) PROVE ReviewIInv'
    BY <2>2, RestKeeps DEF WriterStops
  <2>3. ASSUME NEW w \in Writers,
               \/ \E b \in ReviewBookings, s \in Scores : \E photos \in {{}, form[b]} : SubmitReview(w, b, s, photos)
               \/ \E f \in Flags : RemoveReview(w, f)
               \/ CreateReview(w) \/ DeleteReview(w) \/ Commit(w)
        PROVE  ReviewIInv'
    BY <2>3, SubmitReviewKeeps, RemoveReviewKeeps, CreateReviewKeeps, DeleteReviewKeeps, CommitKeeps
  <2> QED BY <1>1, <2>1, <2>2, <2>3, UploadKeeps, FlagReviewKeeps, ModerationKeeps DEF ReviewsNext
<1>2. CASE UNCHANGED revVars
  BY <1>2, SameRows DEF revVars
<1> QED BY <1>1, <1>2

LEMMA ReviewInvariant == ReviewsSpec => []ReviewIInv
BY ReviewsInitKeeps, ReviewStep, PTL DEF ReviewsSpec

\* Whatever uploads fail, whichever of two forms is sent, and however two moderators and a crash
\* interleave: a review shows stored photos, and a flag is RESOLVED only when its review is gone
\* (lib/reviews, review-form.tsx, the admin's flagged-reviews actions).
THEOREM ReviewsSaySo == ReviewsSpec => []ReviewInv
<1>1. ReviewIInv => ReviewInv
  BY DEF ReviewIInv
<1> QED BY <1>1, ReviewInvariant, PTL

\* A write that nothing overtook leaves the villa's rating exact (recomputeAggregate), whatever
\* overtaken writes before it left.
THEOREM RatingIsRepaired == ReviewsSpec => RatingHeals
<1> DEFINE Heals ==
      \A w \in Writers :
        write[w].at = "counted" /\ write'[w] # write[w] /\ review' # review /\ write[w].base = review =>
          rating'.count = Cardinality(Published(review'))
          /\ rating'.sum = MapThenSumSet(LAMBDA b : review'[b].score, Published(review'))
<1>1. ASSUME ReviewIInv, [ReviewsNext]_revVars PROVE Heals
  <2> SUFFICES ASSUME NEW w \in Writers, write[w].at = "counted", write'[w] # write[w],
                      review' # review, write[w].base = review
               PROVE  rating'.count = Cardinality(Published(review'))
                      /\ rating'.sum = MapThenSumSet(LAMBDA b : review'[b].score, Published(review'))
    BY Zenon
  <2>1. ASSUME NEW v \in Writers, Commit(v) PROVE v = w
    BY <1>1, <2>1 DEF Commit, ReviewIInv, RowsShape
  <2>2. Commit(w)
    BY <1>1, <2>1 DEF ReviewsNext, revVars, StayMoves, Upload, FlagReview, KeepReview, SubmitReview,
                      RemoveReview, CreateReview, DeleteReview, ResolveFlag, WriterStops
  <2>3. Counted(write[w])
    BY <1>1 DEF ReviewIInv, WritesInv, Sound
  <2>4. rating' = Count(review')
    BY <2>2, <2>3 DEF Commit, Counted
  <2>5. /\ Count(review').count = Cardinality(Published(review'))
        /\ Count(review').sum = MapThenSumSet(LAMBDA b : review'[b].score, Published(review'))
    BY Zenon DEF Count
  <2> QED BY <2>4, <2>5, Zenon
<1>2. ReviewIInv /\ [ReviewsNext]_revVars => [Heals]_revVars
  BY <1>1
<1> QED BY <1>2, ReviewInvariant, PTL DEF ReviewsSpec, RatingHeals

-----------------------------------------------------------------------------
(* Concierge                                                                *)

Line == [role : {"user", "assistant", "card"}, panel : Panels]
Shown == [loading : BOOLEAN, bubble : {"none", "streaming", "shown"}, text : BOOLEAN,
          answers : Nat, error : BOOLEAN]
Opening == [at : {"post", "session", "save", "history"}]
Asking == [at : {"model", "persist", "cards"}, context : SUBSET Line, n : Nat, text : BOOLEAN, cards : Nat]

ConShape ==
  /\ panel \in [Panels -> Shown] /\ turn \in [Panels -> {NoTurn} \cup Opening \cup Asking]
  /\ transcript \in Seq(Line) /\ usage \in [tokens : Nat, satang : Nat]

\* The turns that passed each cap and are not counted by it yet.
At(places) == {p \in Panels : turn[p].at \in places}
DailyDue == {"session", "save"}
TokensDue == {"save", "history", "model", "persist", "cards"}
CostDue == {"session"} \cup TokensDue

\* A cap is overshot by no more than what the turns under way may still add.
CapsInv ==
  LET n == Cardinality(Panels)
      cost == ComputeCostSatang(MAX_ITERATIONS)
  IN /\ Said("user") + Cardinality(At(DailyDue)) <= DailyLimit - 1 + n
     /\ usage.tokens + Cardinality(At(TokensDue)) * MAX_ITERATIONS <= TokenCeiling - 1 + n * MAX_ITERATIONS
     /\ usage.satang + Cardinality(At(CostDue)) * cost <= Budget - 1 + n * cost

\* What a turn did to the transcript and to its panel so far.
Asked(p) == [role |-> "user", panel |-> p]
AnswersOf(p) == {i \in DOMAIN transcript : transcript[i] = [role |-> "assistant", panel |-> p]}
TurnInv(p) ==
  /\ turn[p].at = "history" => \E i \in DOMAIN transcript : transcript[i] = Asked(p)
  /\ turn[p].at = "model" => /\ turn[p].n < MAX_ITERATIONS /\ ~turn[p].text
                             /\ Asked(p) \in turn[p].context
                             /\ \A row \in turn[p].context : row.role # "card"
  /\ turn[p].at \in {"persist", "cards"} => turn[p].n <= MAX_ITERATIONS
  /\ turn[p].at \in {"post", "session", "save", "history", "model"} => ~panel[p].text
  /\ turn[p].at \in {"persist", "cards"} => panel[p].text = turn[p].text
  /\ panel[p].answers + (IF turn[p].at = "cards" /\ turn[p].text THEN 1 ELSE 0) <= Cardinality(AnswersOf(p))

ConIInv == ConShape /\ CapsInv /\ \A p \in Panels : TurnInv(p)

-----------------------------------------------------------------------------
LEMMA TimesUp ==
  ASSUME NEW a \in Nat, NEW b \in Nat, NEW c \in Nat
  PROVE  a * c \in Nat /\ (a + 1) * c = a * c + c /\ (a <= b => a * c <= b * c)
OBVIOUS

LEMMA DivUp ==
  ASSUME NEW a \in Nat, NEW b \in Nat, NEW d \in Nat \ {0}, a <= b PROVE a \div d <= b \div d
<1> DEFINE q == a \div d
           r == b \div d
<1>1. q \in Nat /\ r \in Nat /\ d * q <= a /\ b < d * r + d
  OBVIOUS
<1> HIDE DEF q, r
<1>2. ASSUME r + 1 <= q PROVE FALSE
  <2>1. (r + 1) * d <= q * d /\ (r + 1) * d = r * d + d
    BY <1>1, <1>2, TimesUp
  <2>2. q * d = d * q /\ r * d = d * r
    BY <1>1
  <2>3. d * r \in Nat /\ d * q \in Nat
    BY <1>1, <2>2, TimesUp
  <2> QED BY <1>1, <2>1, <2>2, <2>3
<1> QED BY <1>1, <1>2 DEF q, r

\* A turn costs no more than the longest one.
LEMMA CostUp ==
  ASSUME NEW a \in Nat, NEW b \in Nat, a <= b
  PROVE  ComputeCostSatang(a) \in Nat /\ ComputeCostSatang(a) <= ComputeCostSatang(b)
<1> PICK d : d = 2 * Rate
  OBVIOUS
<1>1. d \in Nat \ {0} /\ Rate \in Nat
  BY ConciergeAssumption
<1>2. 2 * a + Rate \in Nat /\ 2 * b + Rate \in Nat /\ 2 * a + Rate <= 2 * b + Rate
  BY <1>1
<1>3. (2 * a + Rate) \div d <= (2 * b + Rate) \div d /\ (2 * a + Rate) \div d \in Nat
  BY <1>1, <1>2, DivUp
<1> QED BY <1>3 DEF ComputeCostSatang

\* One turn moves: at most it joins, or leaves, those at the places S.
LEMMA AtMoves ==
  ASSUME NEW p \in Panels, NEW r, DOMAIN turn = Panels, turn' = [turn EXCEPT ![p] = r], NEW S
  PROVE  /\ Cardinality(Panels) \in Nat
         /\ Cardinality(At(S)) \in 0 .. Cardinality(Panels)
         /\ Cardinality(At(S))' \in 0 .. Cardinality(Panels)
         /\ Cardinality(At(S))' + (IF turn[p].at \in S THEN 1 ELSE 0)
              = Cardinality(At(S)) + (IF r.at \in S THEN 1 ELSE 0)
<1> PICK A : A = At(S)
  OBVIOUS
<1> DEFINE B == {q \in Panels : turn'[q].at \in S}
<1>1. At(S)' = B
  BY DEF At
<1>2. turn'[p] = r /\ \A q \in Panels \ {p} : turn'[q] = turn[q]
  OBVIOUS
<1>3. A \subseteq Panels /\ B \subseteq Panels /\ IsFiniteSet(Panels)
  BY ConciergeAssumption DEF At
<1>4. /\ IsFiniteSet(A) /\ IsFiniteSet(B) /\ Cardinality(Panels) \in Nat
      /\ Cardinality(A) \in Nat /\ Cardinality(B) \in Nat
      /\ Cardinality(A) <= Cardinality(Panels) /\ Cardinality(B) <= Cardinality(Panels)
  BY <1>3, FS_Subset, FS_CardinalityType
<1>5. Cardinality(B) + (IF turn[p].at \in S THEN 1 ELSE 0) = Cardinality(A) + (IF r.at \in S THEN 1 ELSE 0)
  <2>1. CASE turn[p].at \in S /\ r.at \in S
    <3>1. A = B
      BY <1>2, <2>1 DEF At
    <3> QED BY <1>4, <2>1, <3>1
  <2>2. CASE turn[p].at \notin S /\ r.at \notin S
    <3>1. A = B
      BY <1>2, <2>2 DEF At
    <3> QED BY <1>4, <2>2, <3>1
  <2>3. CASE turn[p].at \notin S /\ r.at \in S
    <3>1. B = A \cup {p} /\ p \notin A
      BY <1>2, <2>3 DEF At
    <3>2. Cardinality(B) = Cardinality(A) + 1
      BY <1>4, <3>1, FS_AddElement
    <3> QED BY <1>4, <2>3, <3>2
  <2>4. CASE turn[p].at \in S /\ r.at \notin S
    <3>1. A = B \cup {p} /\ p \notin B
      BY <1>2, <2>4 DEF At
    <3>2. Cardinality(A) = Cardinality(B) + 1
      BY <1>4, <3>1, FS_AddElement
    <3> QED BY <1>4, <2>4, <3>2
  <2> QED BY <2>1, <2>2, <2>3, <2>4
<1> HIDE DEF B
<1>6. Cardinality(At(S))' = Cardinality(B)
  BY <1>1
<1> QED BY <1>4, <1>5, <1>6

\* One cap, of which each turn at the places S may still use c: a turn enters while there
\* is room, and what it uses it no longer may.
LEMMA CapStays ==
  ASSUME NEW p \in Panels, NEW r, DOMAIN turn = Panels, turn' = [turn EXCEPT ![p] = r], NEW S,
         NEW c \in Nat, NEW cap \in Nat \ {0}, NEW used \in Nat, NEW next \in Nat,
         used + Cardinality(At(S)) * c <= cap - 1 + Cardinality(Panels) * c,
         \/ next + (IF r.at \in S THEN c ELSE 0) <= used + (IF turn[p].at \in S THEN c ELSE 0)
         \/ next = used /\ used < cap
  PROVE  next + Cardinality(At(S))' * c <= cap - 1 + Cardinality(Panels) * c
<1> PICK n : n = Cardinality(Panels)
  OBVIOUS
<1> PICK k : k = Cardinality(At(S))
  OBVIOUS
<1> DEFINE m == Cardinality(At(S))'
<1> PICK j : j = IF turn[p].at \in S THEN 1 ELSE 0
  OBVIOUS
<1> PICK i : i = IF r.at \in S THEN 1 ELSE 0
  OBVIOUS
<1>1. n \in Nat /\ k \in 0 .. n /\ m \in 0 .. n /\ m + j = k + i
  BY AtMoves
<1> HIDE DEF m
<1>2. used + k * c <= cap - 1 + n * c
  OBVIOUS
<1>3. m * c <= n * c /\ m * c \in Nat /\ k * c \in Nat /\ n * c \in Nat
  BY <1>1, TimesUp
<1>4. CASE next = used /\ used < cap
  BY <1>3, <1>4 DEF m
<1>5. CASE next + (IF r.at \in S THEN c ELSE 0) <= used + (IF turn[p].at \in S THEN c ELSE 0)
  <2>1. CASE i = j
    <3>1. m = k
      BY <1>1, <2>1
    <3>2. r.at \in S <=> turn[p].at \in S
      BY <2>1
    <3>3. next <= used
      <4>1. CASE r.at \in S
        BY <1>5, <3>2, <4>1
      <4>2. CASE r.at \notin S
        BY <1>5, <3>2, <4>2
      <4> QED BY <4>1, <4>2
    <3> QED BY <1>2, <1>3, <3>1, <3>3 DEF m
  <2>2. CASE i = 1 /\ j = 0
    <3>1. m = k + 1 /\ next + c <= used
      BY <1>1, <1>5, <2>2
    <3>2. m * c = k * c + c
      BY <1>1, <3>1, TimesUp
    <3> QED BY <1>2, <1>3, <3>1, <3>2 DEF m
  <2>3. CASE i = 0 /\ j = 1
    <3>1. k = m + 1 /\ next <= used + c
      BY <1>1, <1>5, <2>3
    <3>2. k * c = m * c + c
      BY <1>1, <3>1, TimesUp
    <3> QED BY <1>2, <1>3, <3>1, <3>2 DEF m
  <2> QED BY <2>1, <2>2, <2>3
<1> QED BY <1>4, <1>5

LEMMA CapsStay ==
  ASSUME ConShape, CapsInv, NEW p \in Panels, NEW r, turn' = [turn EXCEPT ![p] = r],
         Said("user") \in Nat, Said("user")' \in Nat, usage' \in [tokens : Nat, satang : Nat],
         \/ Said("user")' + (IF r.at \in DailyDue THEN 1 ELSE 0)
              <= Said("user") + (IF turn[p].at \in DailyDue THEN 1 ELSE 0)
         \/ Said("user")' = Said("user") /\ Said("user") < DailyLimit,
         \/ usage'.tokens + (IF r.at \in TokensDue THEN MAX_ITERATIONS ELSE 0)
              <= usage.tokens + (IF turn[p].at \in TokensDue THEN MAX_ITERATIONS ELSE 0)
         \/ usage'.tokens = usage.tokens /\ usage.tokens < TokenCeiling,
         \/ usage'.satang + (IF r.at \in CostDue THEN ComputeCostSatang(MAX_ITERATIONS) ELSE 0)
              <= usage.satang + (IF turn[p].at \in CostDue THEN ComputeCostSatang(MAX_ITERATIONS) ELSE 0)
         \/ usage'.satang = usage.satang /\ usage.satang < Budget
  PROVE  CapsInv'
<1> PICK n : n = Cardinality(Panels)
  OBVIOUS
<1> PICK cost : cost = ComputeCostSatang(MAX_ITERATIONS)
  OBVIOUS
<1>1. /\ DOMAIN turn = Panels /\ usage.tokens \in Nat /\ usage.satang \in Nat
      /\ usage'.tokens \in Nat /\ usage'.satang \in Nat
  BY DEF ConShape
<1>2. cost \in Nat /\ MAX_ITERATIONS \in Nat
  BY ConciergeAssumption, CostUp
<1>3. /\ DailyLimit \in Nat \ {0} /\ TokenCeiling \in Nat \ {0} /\ Budget \in Nat \ {0}
  BY ConciergeAssumption
<1>4. /\ Cardinality(At(DailyDue)) \in 0 .. n /\ Cardinality(At(DailyDue))' \in 0 .. n /\ n \in Nat
  BY <1>1, AtMoves
<1>5. /\ Said("user") + Cardinality(At(DailyDue)) * 1 <= DailyLimit - 1 + n * 1
      /\ usage.tokens + Cardinality(At(TokensDue)) * MAX_ITERATIONS <= TokenCeiling - 1 + n * MAX_ITERATIONS
      /\ usage.satang + Cardinality(At(CostDue)) * cost <= Budget - 1 + n * cost
  BY <1>4 DEF CapsInv
<1>6. Said("user")' + Cardinality(At(DailyDue))' * 1 <= DailyLimit - 1 + n * 1
  BY <1>1, <1>3, <1>5, CapStays
<1>7. usage'.tokens + Cardinality(At(TokensDue))' * MAX_ITERATIONS <= TokenCeiling - 1 + n * MAX_ITERATIONS
  BY <1>1, <1>2, <1>3, <1>5, CapStays
<1>8. usage'.satang + Cardinality(At(CostDue))' * cost <= Budget - 1 + n * cost
  BY <1>1, <1>2, <1>3, <1>5, CapStays
<1>9. Said("user")' + Cardinality(At(DailyDue))' <= DailyLimit - 1 + n
  BY <1>4, <1>6
<1> QED BY <1>7, <1>8, <1>9 DEF CapsInv, DailyDue, TokensDue, CostDue

-----------------------------------------------------------------------------
\* One more row: the rows of a kind are one more, or as many.
LEMMA OneMoreRow ==
  ASSUME NEW s \in Seq(Line), NEW row \in Line, NEW W
  PROVE  /\ Cardinality({i \in DOMAIN s : s[i] \in W}) \in Nat
         /\ Cardinality({i \in DOMAIN Append(s, row) : Append(s, row)[i] \in W})
              = Cardinality({i \in DOMAIN s : s[i] \in W}) + (IF row \in W THEN 1 ELSE 0)
<1>1. PICK t : t = Append(s, row)
  OBVIOUS
<1>2. PICK A : A = {i \in DOMAIN s : s[i] \in W}
  OBVIOUS
<1>3. PICK B : B = {i \in DOMAIN t : t[i] \in W}
  OBVIOUS
<1> SUFFICES Cardinality(A) \in Nat /\ Cardinality(B) = Cardinality(A) + (IF row \in W THEN 1 ELSE 0)
  BY <1>1, <1>2, <1>3
<1>4. PICK n : n = Len(s)
  OBVIOUS
<1>5. /\ n \in Nat /\ DOMAIN s = 1 .. n /\ DOMAIN t = 1 .. n + 1 /\ t[n + 1] = row
      /\ \A i \in 1 .. n : t[i] = s[i]
  BY <1>1, <1>4
<1>6. IsFiniteSet(A) /\ Cardinality(A) \in Nat
  <2>1. IsFiniteSet(1 .. n) /\ A \in SUBSET (1 .. n)
    BY <1>5, <1>2, FS_Interval
  <2> QED BY <2>1, FS_Subset, FS_CardinalityType
<1>7. n + 1 \notin A /\ n + 1 \in 1 .. n + 1 /\ 1 .. n + 1 = (1 .. n) \cup {n + 1}
  BY <1>5, <1>2
<1>8. CASE row \in W
  <2>1. B = A \cup {n + 1}
    BY <1>5, <1>7, <1>8, <1>2, <1>3
  <2>2. Cardinality(B) = Cardinality(A) + 1
    BY <1>6, <1>7, <2>1, FS_AddElement
  <2> QED BY <1>6, <1>8, <2>2
<1>9. CASE row \notin W
  <2>1. B = A
    BY <1>5, <1>7, <1>9, <1>2, <1>3
  <2> QED BY <1>6, <1>9, <2>1
<1> QED BY <1>8, <1>9

LEMMA RowAdded ==
  ASSUME transcript \in Seq(Line), NEW row \in Line, transcript' = Append(transcript, row)
  PROVE  /\ transcript' \in Seq(Line) /\ Said("user") \in Nat
         /\ Said("user")' = Said("user") + (IF row.role = "user" THEN 1 ELSE 0)
         /\ \A i \in DOMAIN transcript : i \in DOMAIN transcript' /\ transcript'[i] = transcript[i]
         /\ \E i \in DOMAIN transcript' : transcript'[i] = row
         /\ \A p \in Panels :
              /\ Cardinality(AnswersOf(p)) \in Nat
              /\ Cardinality(AnswersOf(p))' = Cardinality(AnswersOf(p))
                   + (IF row = [role |-> "assistant", panel |-> p] THEN 1 ELSE 0)
<1>1. ASSUME NEW s \in Seq(Line)
      PROVE  {i \in DOMAIN s : s[i].role = "user"} = {i \in DOMAIN s : s[i] \in {l \in Line : l.role = "user"}}
  OBVIOUS
<1>2. PICK t : t = Append(transcript, row)
  OBVIOUS
<1>3. /\ t \in Seq(Line) /\ Len(transcript) \in Nat /\ Len(t) = Len(transcript) + 1
      /\ DOMAIN transcript = 1 .. Len(transcript) /\ DOMAIN t = 1 .. Len(t) /\ t[Len(t)] = row
      /\ \A i \in DOMAIN transcript : t[i] = transcript[i]
  BY <1>2
<1>4. transcript' = t
  BY <1>2
<1>5. Said("user") \in Nat /\ Said("user")' = Said("user") + (IF row.role = "user" THEN 1 ELSE 0)
  <2> DEFINE W == {l \in Line : l.role = "user"}
  <2>1. /\ Said("user") = Cardinality({i \in DOMAIN transcript : transcript[i] \in W})
        /\ Said("user")' = Cardinality({i \in DOMAIN t : t[i] \in W})
    BY <1>1, <1>3, <1>4 DEF Said
  <2>2. row \in W <=> row.role = "user"
    OBVIOUS
  <2> HIDE DEF W
  <2> QED BY <1>2, <2>1, <2>2, OneMoreRow
<1>6. ASSUME NEW p \in Panels
      PROVE  /\ Cardinality(AnswersOf(p)) \in Nat
             /\ Cardinality(AnswersOf(p))' = Cardinality(AnswersOf(p))
                  + (IF row = [role |-> "assistant", panel |-> p] THEN 1 ELSE 0)
  <2> PICK W : W = {[role |-> "assistant", panel |-> p]}
    OBVIOUS
  <2>1. /\ AnswersOf(p) = {i \in DOMAIN transcript : transcript[i] \in W}
        /\ AnswersOf(p)' = {i \in DOMAIN t : t[i] \in W}
        /\ row \in W <=> row = [role |-> "assistant", panel |-> p]
    BY <1>4 DEF AnswersOf
  <2> QED BY <1>2, <2>1, OneMoreRow
<1>7. Len(t) \in DOMAIN t /\ DOMAIN transcript \subseteq DOMAIN t
  BY <1>3
<1> QED BY <1>3, <1>4, <1>5, <1>6, <1>7

LEMMA RowsCounted ==
  ASSUME transcript \in Seq(Line)
  PROVE  Said("user") \in Nat /\ \A p \in Panels : Cardinality(AnswersOf(p)) \in Nat
<1>1. DOMAIN transcript = 1 .. Len(transcript) /\ Len(transcript) \in Nat
  OBVIOUS
<1>2. IsFiniteSet(DOMAIN transcript)
  BY <1>1, FS_Interval
<1> QED BY <1>2, FS_Subset, FS_CardinalityType DEF Said, AnswersOf

\* The transcript is only added to.
Adds == transcript' = transcript \/ \E row \in Line : transcript' = Append(transcript, row)

LEMMA RowsStay ==
  ASSUME transcript \in Seq(Line), Adds
  PROVE  /\ transcript' \in Seq(Line) /\ Said("user") \in Nat /\ Said("user")' \in Nat
         /\ \A i \in DOMAIN transcript : i \in DOMAIN transcript' /\ transcript'[i] = transcript[i]
         /\ \A p \in Panels : /\ Cardinality(AnswersOf(p)) \in Nat /\ Cardinality(AnswersOf(p))' \in Nat
                              /\ Cardinality(AnswersOf(p)) <= Cardinality(AnswersOf(p))'
<1>1. CASE transcript' = transcript
  <2>1. /\ Said("user")' = Said("user") /\ \A p \in Panels : AnswersOf(p)' = AnswersOf(p)
        /\ transcript' \in Seq(Line)
    BY <1>1 DEF Said, AnswersOf
  <2> QED BY <1>1, <2>1, RowsCounted
<1>2. ASSUME NEW row \in Line, transcript' = Append(transcript, row)
      PROVE  /\ transcript' \in Seq(Line) /\ Said("user") \in Nat /\ Said("user")' \in Nat
             /\ \A i \in DOMAIN transcript : i \in DOMAIN transcript' /\ transcript'[i] = transcript[i]
             /\ \A p \in Panels : /\ Cardinality(AnswersOf(p)) \in Nat /\ Cardinality(AnswersOf(p))' \in Nat
                                  /\ Cardinality(AnswersOf(p)) <= Cardinality(AnswersOf(p))'
  BY <1>2, RowAdded
<1> QED BY <1>1, <1>2 DEF Adds

-----------------------------------------------------------------------------
\* A turn that moves leaves the others, their panels and what they have said where they are.
LEMMA OthersTurn ==
  ASSUME ConIInv, NEW p \in Panels, NEW r, turn' = [turn EXCEPT ![p] = r], Adds,
         \A q \in Panels \ {p} : panel'[q] = panel[q]
  PROVE  \A q \in Panels \ {p} : TurnInv(q)'
<1> SUFFICES ASSUME NEW q \in Panels \ {p} PROVE TurnInv(q)'
  OBVIOUS
<1>1. turn'[q] = turn[q] /\ panel'[q] = panel[q] /\ TurnInv(q)
  BY DEF ConIInv, ConShape
<1>2. /\ \A i \in DOMAIN transcript : i \in DOMAIN transcript' /\ transcript'[i] = transcript[i]
      /\ Cardinality(AnswersOf(q)) \in Nat /\ Cardinality(AnswersOf(q))' \in Nat
      /\ Cardinality(AnswersOf(q)) <= Cardinality(AnswersOf(q))'
  BY RowsStay DEF ConIInv, ConShape
<1>3. panel[q].answers \in Nat
  BY DEF ConIInv, ConShape, Shown
<1>4. turn[q].at = "history" => \E i \in DOMAIN transcript' : transcript'[i] = Asked(q)
  BY <1>1, <1>2 DEF TurnInv
<1>5. panel[q].answers + (IF turn[q].at = "cards" /\ turn[q].text THEN 1 ELSE 0) <= Cardinality(AnswersOf(q))'
  <2>1. panel[q].answers + (IF turn[q].at = "cards" /\ turn[q].text THEN 1 ELSE 0) <= Cardinality(AnswersOf(q))
    BY <1>1 DEF TurnInv
  <2> QED BY <1>2, <1>3, <2>1
<1> QED BY <1>1, <1>4, <1>5 DEF TurnInv, Asked

LEMMA NoMore ==
  ASSUME NEW x \in Nat, NEW y \in Nat, x <= y, NEW c \in Nat, NEW S, NEW T, NEW a, NEW b, a \in S => b \in T
  PROVE  x + (IF a \in S THEN c ELSE 0) <= y + (IF b \in T THEN c ELSE 0)
<1>1. CASE a \in S
  BY <1>1
<1>2. CASE a \notin S
  BY <1>2
<1> QED BY <1>1, <1>2

\* A step that says nothing to the caps: the turn of p is at no place it was not yet.
LEMMA MoveKeeps ==
  ASSUME ConIInv, NEW p \in Panels, NEW r \in {NoTurn} \cup Opening \cup Asking,
         turn' = [turn EXCEPT ![p] = r], panel' \in [Panels -> Shown],
         \A q \in Panels \ {p} : panel'[q] = panel[q], UNCHANGED <<transcript, usage>>,
         \A S \in {DailyDue, TokensDue, CostDue} : r.at \in S => turn[p].at \in S,
         TurnInv(p)'
  PROVE  ConIInv'
<1>1. ConShape'
  BY DEF ConIInv, ConShape
<1>2. CapsInv'
  <2>1. Said("user") \in Nat /\ Said("user")' = Said("user") /\ usage \in [tokens : Nat, satang : Nat]
    BY RowsCounted DEF Said, ConIInv, ConShape
  <2>2. MAX_ITERATIONS \in Nat /\ ComputeCostSatang(MAX_ITERATIONS) \in Nat
    BY ConciergeAssumption, CostUp
  <2>3. /\ usage'.tokens = usage.tokens /\ usage.tokens \in Nat /\ usage' \in [tokens : Nat, satang : Nat]
        /\ usage'.satang = usage.satang /\ usage.satang \in Nat
    BY <2>1
  <2>4. Said("user")' + (IF r.at \in DailyDue THEN 1 ELSE 0)
          <= Said("user") + (IF turn[p].at \in DailyDue THEN 1 ELSE 0)
    <3>1. r.at \in DailyDue => turn[p].at \in DailyDue
      OBVIOUS
    <3> QED BY <2>1, <3>1, NoMore
  <2>5. usage'.tokens + (IF r.at \in TokensDue THEN MAX_ITERATIONS ELSE 0)
          <= usage.tokens + (IF turn[p].at \in TokensDue THEN MAX_ITERATIONS ELSE 0)
    <3>1. r.at \in TokensDue => turn[p].at \in TokensDue
      OBVIOUS
    <3> QED BY <2>2, <2>3, <3>1, NoMore
  <2>6. usage'.satang + (IF r.at \in CostDue THEN ComputeCostSatang(MAX_ITERATIONS) ELSE 0)
          <= usage.satang + (IF turn[p].at \in CostDue THEN ComputeCostSatang(MAX_ITERATIONS) ELSE 0)
    <3>1. r.at \in CostDue => turn[p].at \in CostDue
      OBVIOUS
    <3> QED BY <2>2, <2>3, <3>1, NoMore
  <2> QED BY <2>1, <2>3, <2>4, <2>5, <2>6, CapsStay DEF ConIInv
<1>3. \A q \in Panels : TurnInv(q)'
  BY OthersTurn DEF Adds
<1> QED BY <1>1, <1>2, <1>3 DEF ConIInv

LEMMA PlacesOf ==
  /\ \A c \in Opening : c.at \in {"post", "session", "save", "history"}
  /\ \A c \in Asking : /\ c.at \in {"model", "persist", "cards"} /\ c.n \in Nat /\ c.cards \in Nat
                       /\ c.text \in BOOLEAN /\ c.context \in SUBSET Line
  /\ NoTurn.at = "idle"
BY DEF Opening, Asking, NoTurn

\* The turn ends without an answer: the panel keeps what it counted.
LEMMA EndKeeps ==
  ASSUME ConIInv, NEW p \in Panels, turn' = [turn EXCEPT ![p] = NoTurn],
         UNCHANGED <<transcript, usage>>, panel' \in [Panels -> Shown],
         \A q \in Panels \ {p} : panel'[q] = panel[q], panel'[p].answers = panel[p].answers
  PROVE  ConIInv'
<1>1. NoTurn.at = "idle" /\ turn'[p] = NoTurn
  BY DEF NoTurn, ConIInv, ConShape
<1>2. TurnInv(p)'
  <2>1. panel[p].answers \in Nat /\ Cardinality(AnswersOf(p)) \in Nat /\ TurnInv(p)
    BY RowsCounted DEF ConIInv, ConShape, Shown
  <2>2. panel[p].answers <= Cardinality(AnswersOf(p))
    BY <2>1 DEF TurnInv
  <2>3. AnswersOf(p)' = AnswersOf(p)
    BY DEF AnswersOf
  <2> QED BY <1>1, <2>1, <2>2, <2>3 DEF TurnInv
<1> QED BY <1>1, <1>2, MoveKeeps DEF DailyDue, TokensDue, CostDue

LEMMA ErrorShown ==
  ASSUME ConIInv, NEW p \in Panels, ShowError(p)
  PROVE  /\ panel' \in [Panels -> Shown] /\ \A q \in Panels \ {p} : panel'[q] = panel[q]
         /\ panel'[p].answers = panel[p].answers
<1>1. panel \in [Panels -> Shown]
  BY DEF ConIInv, ConShape
<1> DEFINE c == [panel[p] EXCEPT !.loading = FALSE, !.bubble = "none", !.text = FALSE, !.error = TRUE]
<1>2. panel' = [panel EXCEPT ![p] = c]
  BY <1>1 DEF ShowError
<1>3. c \in Shown /\ c.answers = panel[p].answers
  BY <1>1 DEF Shown
<1> HIDE DEF c
<1> QED BY <1>1, <1>2, <1>3

LEMMA SendMessageKeeps ==
  ASSUME ConIInv, NEW p \in Panels, SendMessage(p) PROVE ConIInv'
<1>1. PICK r : r = [at |-> "post"]
  OBVIOUS
<1>2. /\ turn' = [turn EXCEPT ![p] = r] /\ r \in Opening /\ r.at = "post"
      /\ turn[p] = NoTurn /\ UNCHANGED <<transcript, usage>>
  BY <1>1 DEF SendMessage, Opening
<1>3. PICK c : c = [panel[p] EXCEPT !.loading = TRUE, !.bubble = "streaming", !.text = FALSE, !.error = FALSE]
  OBVIOUS
<1>4. panel \in [Panels -> Shown] /\ panel' = [panel EXCEPT ![p] = c] /\ turn'[p] = r
  BY <1>2, <1>3 DEF SendMessage, ConIInv, ConShape
<1>5. c \in Shown /\ c.answers = panel[p].answers /\ c.text = FALSE
  BY <1>3, <1>4 DEF Shown
<1>6. panel' \in [Panels -> Shown] /\ panel'[p] = c /\ \A q \in Panels \ {p} : panel'[q] = panel[q]
  BY <1>4, <1>5
<1>7. TurnInv(p)'
  <2>1. panel[p].answers \in Nat /\ Cardinality(AnswersOf(p)) \in Nat /\ TurnInv(p)
    BY <1>4, RowsCounted DEF ConIInv, ConShape, Shown
  <2>2. panel[p].answers <= Cardinality(AnswersOf(p))
    BY <2>1 DEF TurnInv
  <2>3. AnswersOf(p)' = AnswersOf(p)
    BY <1>2 DEF AnswersOf
  <2> QED BY <1>2, <1>4, <1>5, <1>6, <2>1, <2>2, <2>3 DEF TurnInv
<1> QED BY <1>2, <1>6, <1>7, MoveKeeps DEF DailyDue, TokensDue, CostDue

\* A check of the caps: a turn goes on only while there is room.
LEMMA ChecksKeep ==
  ASSUME ConIInv, NEW p \in Panels, Admit(p) \/ CheckCeiling(p) PROVE ConIInv'
<1>1. CASE turn' = [turn EXCEPT ![p] = NoTurn] /\ ShowError(p)
  BY <1>1, ErrorShown, EndKeeps DEF Admit, CheckCeiling
<1>2. ASSUME NEW at \in {"session", "save"}, turn' = [turn EXCEPT ![p].at = at], UNCHANGED panel,
             turn[p].at = (IF at = "session" THEN "post" ELSE "session"),
             at = "session" => usage.satang < Budget /\ Said("user") < DailyLimit,
             at = "save" => usage.tokens < TokenCeiling
      PROVE  ConIInv'
  <2>1. PICK r : r = [turn[p] EXCEPT !.at = at]
    OBVIOUS
  <2>2. turn[p] \in Opening /\ turn \in [Panels -> {NoTurn} \cup Opening \cup Asking]
    BY <1>2, PlacesOf DEF ConIInv, ConShape
  <2>3. r \in Opening /\ r.at = at /\ turn' = [turn EXCEPT ![p] = r] /\ turn'[p] = r
    BY <1>2, <2>1, <2>2 DEF Opening
  <2>4. UNCHANGED <<transcript, usage>>
    BY DEF Admit, CheckCeiling
  <2>5. ConShape'
    BY <1>2, <2>2, <2>3, <2>4 DEF ConIInv, ConShape
  <2>6. TurnInv(p)'
    <3>1. panel[p].answers \in Nat /\ Cardinality(AnswersOf(p)) \in Nat /\ TurnInv(p)
      BY RowsCounted DEF ConIInv, ConShape, Shown
    <3>2. panel[p].answers <= Cardinality(AnswersOf(p)) /\ ~panel[p].text
      BY <1>2, <3>1 DEF TurnInv
    <3>3. AnswersOf(p)' = AnswersOf(p)
      BY <2>4 DEF AnswersOf
    <3> QED BY <1>2, <2>3, <3>1, <3>2, <3>3 DEF TurnInv
  <2>7. CapsInv'
    <3>1. Said("user") \in Nat /\ Said("user")' = Said("user") /\ usage \in [tokens : Nat, satang : Nat]
      BY <2>4, RowsCounted DEF Said, ConIInv, ConShape
    <3>2. MAX_ITERATIONS \in Nat /\ ComputeCostSatang(MAX_ITERATIONS) \in Nat
      BY ConciergeAssumption, CostUp
    <3>3. CASE at = "session"
      <4>1. r.at \notin TokensDue
        BY <2>3, <3>3 DEF TokensDue
      <4>2. Said("user")' = Said("user") /\ Said("user") < DailyLimit
        BY <1>2, <3>1, <3>3
      <4>3. usage'.satang = usage.satang /\ usage.satang < Budget /\ usage' \in [tokens : Nat, satang : Nat]
        BY <1>2, <2>4, <3>1, <3>3
      <4>4. usage'.tokens + (IF r.at \in TokensDue THEN MAX_ITERATIONS ELSE 0)
              <= usage.tokens + (IF turn[p].at \in TokensDue THEN MAX_ITERATIONS ELSE 0)
        <5>1. usage.tokens \in Nat /\ usage'.tokens = usage.tokens
          BY <2>4, <3>1
        <5> QED BY <3>2, <4>1, <5>1, NoMore
      <4> QED BY <2>3, <3>1, <4>2, <4>3, <4>4, CapsStay DEF ConIInv
    <3>4. CASE at = "save"
      <4>1. turn[p].at \in DailyDue /\ r.at \in DailyDue /\ turn[p].at \in CostDue
        BY <1>2, <2>3, <3>4 DEF DailyDue, CostDue
      <4>2. Said("user")' + (IF r.at \in DailyDue THEN 1 ELSE 0)
              <= Said("user") + (IF turn[p].at \in DailyDue THEN 1 ELSE 0)
        BY <3>1, <4>1, NoMore
      <4>3. /\ usage'.tokens = usage.tokens /\ usage.tokens < TokenCeiling
            /\ usage' \in [tokens : Nat, satang : Nat] /\ usage.satang \in Nat /\ usage'.satang = usage.satang
        BY <1>2, <2>4, <3>1, <3>4
      <4>4. usage'.satang + (IF r.at \in CostDue THEN ComputeCostSatang(MAX_ITERATIONS) ELSE 0)
              <= usage.satang + (IF turn[p].at \in CostDue THEN ComputeCostSatang(MAX_ITERATIONS) ELSE 0)
        BY <3>2, <4>1, <4>3, NoMore
      <4> QED BY <2>3, <3>1, <4>2, <4>3, <4>4, CapsStay DEF ConIInv
    <3> QED BY <3>3, <3>4
  <2>8. \A q \in Panels : TurnInv(q)'
    BY <1>2, <2>3, <2>4, <2>6, OthersTurn DEF Adds
  <2> QED BY <2>5, <2>7, <2>8 DEF ConIInv
<1>3. Said("user") \in Nat /\ usage.tokens \in Nat /\ usage.satang \in Nat
  BY RowsCounted DEF ConIInv, ConShape
<1>4. CASE Admit(p)
  <2>1. CASE IsKillSwitchActive \/ IsDailyLimitReached
    BY <1>1, <1>4, <2>1 DEF Admit
  <2>2. CASE ~(IsKillSwitchActive \/ IsDailyLimitReached)
    <3>1. usage.satang < Budget /\ Said("user") < DailyLimit
      BY <1>3, <2>2, ConciergeAssumption DEF IsKillSwitchActive, IsDailyLimitReached
    <3> QED BY <1>2, <1>4, <2>2, <3>1 DEF Admit
  <2> QED BY <2>1, <2>2
<1>5. CASE CheckCeiling(p)
  <2>1. CASE IsTokenCeilingReached
    BY <1>1, <1>5, <2>1 DEF CheckCeiling
  <2>2. CASE ~IsTokenCeilingReached
    <3>1. usage.tokens < TokenCeiling
      BY <1>3, <2>2, ConciergeAssumption DEF IsTokenCeilingReached
    <3> QED BY <1>2, <1>5, <2>2, <3>1 DEF CheckCeiling
  <2> QED BY <2>1, <2>2
<1> QED BY <1>4, <1>5

\* A row is added for the turn of p, which moves to r.
LEMMA RowKeeps ==
  ASSUME ConIInv, NEW p \in Panels, NEW row \in Line, transcript' = Append(transcript, row),
         NEW r \in {NoTurn} \cup Opening \cup Asking, turn' = [turn EXCEPT ![p] = r],
         UNCHANGED <<panel, usage>>, row.role = "user" <=> turn[p].at = "save",
         turn[p].at = "save" => r.at = "history",
         turn[p].at # "save" => r.at \notin DailyDue,
         r.at \in TokensDue => turn[p].at \in TokensDue, r.at \in CostDue => turn[p].at \in CostDue,
         TurnInv(p)'
  PROVE  ConIInv'
<1>1. /\ transcript' \in Seq(Line) /\ Said("user") \in Nat
      /\ Said("user")' = Said("user") + (IF row.role = "user" THEN 1 ELSE 0)
  BY RowAdded DEF ConIInv, ConShape
<1>2. ConShape'
  BY <1>1 DEF ConIInv, ConShape
<1>3. CapsInv'
  <2>1. usage \in [tokens : Nat, satang : Nat] /\ usage' = usage
    BY DEF ConIInv, ConShape
  <2>2. MAX_ITERATIONS \in Nat /\ ComputeCostSatang(MAX_ITERATIONS) \in Nat
    BY ConciergeAssumption, CostUp
  <2>3. Said("user")' \in Nat
        /\ Said("user")' + (IF r.at \in DailyDue THEN 1 ELSE 0)
             <= Said("user") + (IF turn[p].at \in DailyDue THEN 1 ELSE 0)
    <3>1. CASE turn[p].at = "save"
      BY <1>1, <3>1 DEF DailyDue
    <3>2. CASE turn[p].at # "save"
      BY <1>1, <3>2
    <3> QED BY <3>1, <3>2
  <2>4. /\ usage'.tokens = usage.tokens /\ usage.tokens \in Nat /\ usage' \in [tokens : Nat, satang : Nat]
        /\ usage'.satang = usage.satang /\ usage.satang \in Nat
    BY <2>1
  <2>5. usage'.tokens + (IF r.at \in TokensDue THEN MAX_ITERATIONS ELSE 0)
          <= usage.tokens + (IF turn[p].at \in TokensDue THEN MAX_ITERATIONS ELSE 0)
    BY <2>2, <2>4, NoMore
  <2>6. usage'.satang + (IF r.at \in CostDue THEN ComputeCostSatang(MAX_ITERATIONS) ELSE 0)
          <= usage.satang + (IF turn[p].at \in CostDue THEN ComputeCostSatang(MAX_ITERATIONS) ELSE 0)
    BY <2>2, <2>4, NoMore
  <2> QED BY <1>1, <2>3, <2>4, <2>5, <2>6, CapsStay DEF ConIInv
<1>4. \A q \in Panels : TurnInv(q)'
  BY OthersTurn DEF Adds
<1> QED BY <1>2, <1>3, <1>4 DEF ConIInv

LEMMA SaveUserMessageKeeps ==
  ASSUME ConIInv, NEW p \in Panels, SaveUserMessage(p) PROVE ConIInv'
<1>1. PICK row : row = Asked(p)
  OBVIOUS
<1>2. PICK r : r = [turn[p] EXCEPT !.at = "history"]
  OBVIOUS
<1>3. /\ turn[p].at = "save" /\ transcript' = Append(transcript, row) /\ row \in Line /\ row.role = "user"
      /\ UNCHANGED <<panel, usage>>
  BY <1>1 DEF SaveUserMessage, SaveMessage, Asked, Line
<1>4. turn[p] \in Opening /\ turn \in [Panels -> {NoTurn} \cup Opening \cup Asking]
  BY <1>3, PlacesOf DEF ConIInv, ConShape
<1>5. r \in Opening /\ r.at = "history" /\ turn' = [turn EXCEPT ![p] = r] /\ turn'[p] = r
  BY <1>2, <1>4 DEF SaveUserMessage, Opening
<1>6. TurnInv(p)'
  <2>1. panel[p].answers \in Nat /\ Cardinality(AnswersOf(p)) \in Nat /\ TurnInv(p)
    BY RowsCounted DEF ConIInv, ConShape, Shown
  <2>2. panel[p].answers <= Cardinality(AnswersOf(p)) /\ ~panel[p].text
    BY <1>3, <2>1 DEF TurnInv
  <2>3. /\ \E i \in DOMAIN transcript' : transcript'[i] = row
        /\ Cardinality(AnswersOf(p)) <= Cardinality(AnswersOf(p))' /\ Cardinality(AnswersOf(p))' \in Nat
    BY <1>3, RowAdded, RowsStay DEF ConIInv, ConShape, Adds
  <2> QED BY <1>1, <1>3, <1>5, <2>1, <2>2, <2>3 DEF TurnInv, Asked
<1> QED BY <1>3, <1>5, <1>6, RowKeeps DEF TokensDue, CostDue

\* The question is in the transcript, and so in what the model reads.
LEMMA BuildHistoryKeeps ==
  ASSUME ConIInv, NEW p \in Panels, BuildHistory(p) PROVE ConIInv'
<1>1. PICK read : read = History(transcript)
  OBVIOUS
<1>2. PICK r : r = [at |-> "model", context |-> read, n |-> 0, text |-> FALSE, cards |-> 0]
  OBVIOUS
<1>3. /\ turn[p].at = "history" /\ turn' = [turn EXCEPT ![p] = r] /\ UNCHANGED <<panel, transcript, usage>>
      /\ turn \in [Panels -> {NoTurn} \cup Opening \cup Asking] /\ transcript \in Seq(Line)
  BY <1>1, <1>2 DEF BuildHistory, ConIInv, ConShape
<1>4. /\ read \in SUBSET Line /\ Asked(p) \in read /\ \A row \in read : row.role # "card"
  <2>1. \A i \in DOMAIN transcript : transcript[i] \in Line
    BY <1>3
  <2>2. PICK i \in DOMAIN transcript : transcript[i] = Asked(p)
    BY <1>3 DEF ConIInv, TurnInv
  <2> QED BY <1>1, <2>1, <2>2 DEF History, Asked, Line
<1>5. r \in Asking /\ r.at = "model" /\ r.context = read /\ r.n = 0 /\ ~r.text /\ turn'[p] = r
  BY <1>2, <1>3, <1>4 DEF Asking
<1>6. TurnInv(p)'
  <2>1. panel[p].answers \in Nat /\ Cardinality(AnswersOf(p)) \in Nat /\ TurnInv(p)
    BY RowsCounted DEF ConIInv, ConShape, Shown
  <2>2. panel[p].answers <= Cardinality(AnswersOf(p)) /\ ~panel[p].text
    BY <1>3, <2>1 DEF TurnInv
  <2>3. AnswersOf(p)' = AnswersOf(p)
    BY <1>3 DEF AnswersOf
  <2> QED BY <1>3, <1>4, <1>5, <2>1, <2>2, <2>3, ConciergeAssumption DEF TurnInv, Asked
<1> QED BY <1>3, <1>5, <1>6, MoveKeeps DEF DailyDue, TokensDue, CostDue, ConIInv, ConShape

\* A response of the model is one iteration more, of those the loop has left.
LEMMA ModelKeeps ==
  ASSUME ConIInv, NEW p \in Panels, EndTurn(p) \/ StopOtherwise(p) \/ \E card \in {0, 1} : UseTool(p, card)
  PROVE  ConIInv'
<1>1. /\ turn[p].at = "model" /\ turn[p] \in Asking /\ UNCHANGED <<transcript, usage>>
      /\ turn \in [Panels -> {NoTurn} \cup Opening \cup Asking] /\ panel \in [Panels -> Shown]
  BY PlacesOf DEF EndTurn, StopOtherwise, UseTool, ConIInv, ConShape
<1>2. /\ turn[p].n \in Nat /\ turn[p].n < MAX_ITERATIONS /\ MAX_ITERATIONS \in Nat /\ ~turn[p].text
      /\ Asked(p) \in turn[p].context /\ \A row \in turn[p].context : row.role # "card"
      /\ ~panel[p].text /\ turn[p].cards \in Nat
      /\ panel[p].answers <= Cardinality(AnswersOf(p)) /\ AnswersOf(p)' = AnswersOf(p)
      /\ panel[p].answers \in Nat /\ Cardinality(AnswersOf(p)) \in Nat
  <2>1. TurnInv(p) /\ turn[p].n \in Nat /\ turn[p].cards \in Nat /\ panel[p].answers \in Nat
    BY <1>1, PlacesOf DEF ConIInv, Shown
  <2>2. AnswersOf(p)' = AnswersOf(p) /\ Cardinality(AnswersOf(p)) \in Nat
    BY <1>1, RowsCounted DEF AnswersOf, ConIInv, ConShape
  <2> QED BY <1>1, <2>1, <2>2, ConciergeAssumption DEF TurnInv
<1>3. ASSUME NEW r \in Asking, turn' = [turn EXCEPT ![p] = r], r.n = turn[p].n + 1,
             r.context = turn[p].context, panel' \in [Panels -> Shown],
             \A q \in Panels \ {p} : panel'[q] = panel[q], panel'[p].answers = panel[p].answers,
             panel'[p].text = r.text, r.at \in {"model", "persist"},
             r.at = "model" => r.n < MAX_ITERATIONS /\ ~r.text
      PROVE  ConIInv'
  <2>1. turn'[p] = r
    BY <1>1, <1>3
  <2>2. TurnInv(p)'
    BY <1>2, <1>3, <2>1 DEF TurnInv, Asked
  <2> QED BY <1>1, <1>3, <2>2, MoveKeeps DEF DailyDue, TokensDue, CostDue
<1>4. CASE EndTurn(p)
  <2>1. PICK r : r = [turn[p] EXCEPT !.at = "persist", !.n = turn[p].n + 1, !.text = TRUE]
    OBVIOUS
  <2>2. r \in Asking /\ r.at = "persist" /\ r.n = turn[p].n + 1 /\ r.text = TRUE /\ r.context = turn[p].context
    <3>1. turn[p].n + 1 \in Nat
      BY <1>2
    <3> QED BY <1>1, <2>1, <3>1 DEF Asking
  <2>3. turn' = [turn EXCEPT ![p] = r]
    BY <1>1, <1>4, <2>1 DEF EndTurn
  <2>4. PICK c : c = [panel[p] EXCEPT !.text = TRUE]
    OBVIOUS
  <2>5. c \in Shown /\ c.text = TRUE /\ c.answers = panel[p].answers
    BY <1>1, <2>4 DEF Shown
  <2>6. panel' = [panel EXCEPT ![p] = c]
    BY <1>1, <1>4, <2>4 DEF EndTurn
  <2>7. /\ panel' \in [Panels -> Shown] /\ panel'[p] = c /\ \A q \in Panels \ {p} : panel'[q] = panel[q]
    BY <1>1, <2>5, <2>6
  <2> QED BY <1>3, <2>2, <2>3, <2>5, <2>7
<1>5. CASE StopOtherwise(p)
  <2>1. PICK r : r = [turn[p] EXCEPT !.at = "persist", !.n = turn[p].n + 1]
    OBVIOUS
  <2>2. r \in Asking /\ r.at = "persist" /\ r.n = turn[p].n + 1 /\ r.text = turn[p].text
        /\ r.context = turn[p].context
    <3>1. turn[p].n + 1 \in Nat
      BY <1>2
    <3> QED BY <1>1, <2>1, <3>1 DEF Asking
  <2>3. turn' = [turn EXCEPT ![p] = r] /\ panel' = panel
    BY <1>1, <1>5, <2>1 DEF StopOtherwise
  <2>4. turn[p].text = panel[p].text
    <3>1. turn[p].text \in BOOLEAN /\ panel[p].text \in BOOLEAN
      BY <1>1 DEF Asking, Shown
    <3> QED BY <1>2, <3>1
  <2> QED BY <1>1, <1>3, <2>2, <2>3, <2>4
<1>6. ASSUME NEW card \in {0, 1}, UseTool(p, card) PROVE ConIInv'
  <2>1. PICK at : at = IF turn[p].n + 1 < MAX_ITERATIONS THEN "model" ELSE "persist"
    OBVIOUS
  <2>2. PICK r : r = [turn[p] EXCEPT !.at = at, !.n = turn[p].n + 1, !.cards = turn[p].cards + card]
    OBVIOUS
  <2>3. at \in {"model", "persist"} /\ turn[p].n + 1 \in Nat /\ turn[p].cards + card \in Nat
    BY <1>2, <2>1
  <2>4. r \in Asking /\ r.at = at /\ r.n = turn[p].n + 1 /\ r.text = turn[p].text
        /\ r.context = turn[p].context
    BY <1>1, <2>2, <2>3 DEF Asking
  <2>5. turn' = [turn EXCEPT ![p] = r] /\ panel' = panel
    BY <1>1, <1>6, <2>1, <2>2 DEF UseTool
  <2>6. turn[p].text = panel[p].text
    <3>1. turn[p].text \in BOOLEAN /\ panel[p].text \in BOOLEAN
      BY <1>1 DEF Asking, Shown
    <3> QED BY <1>2, <3>1
  <2> QED BY <1>1, <1>2, <1>3, <2>1, <2>3, <2>4, <2>5, <2>6
<1> QED BY <1>4, <1>5, <1>6

\* What p knows of its turn once the model is done.
LEMMA DoneTurn ==
  ASSUME ConIInv, NEW p \in Panels, turn[p].at \in {"persist", "cards"}
  PROVE  /\ turn[p] \in Asking /\ turn[p].n <= MAX_ITERATIONS /\ panel[p].text = turn[p].text
         /\ panel[p] \in Shown /\ panel[p].answers \in Nat /\ Cardinality(AnswersOf(p)) \in Nat
         /\ panel[p].answers + (IF turn[p].at = "cards" /\ turn[p].text THEN 1 ELSE 0)
              <= Cardinality(AnswersOf(p))
         /\ turn \in [Panels -> {NoTurn} \cup Opening \cup Asking] /\ panel \in [Panels -> Shown]
<1>1. turn[p] \in Asking /\ panel[p] \in Shown /\ TurnInv(p) /\ Cardinality(AnswersOf(p)) \in Nat
  BY PlacesOf, RowsCounted DEF ConIInv, ConShape
<1> QED BY <1>1 DEF TurnInv, Shown, ConIInv, ConShape

LEMMA SaveAnswerKeeps ==
  ASSUME ConIInv, NEW p \in Panels, SaveAnswer(p) PROVE ConIInv'
<1>1. turn[p].at = "persist" /\ UNCHANGED <<panel, usage>>
  BY DEF SaveAnswer
<1>2. PICK r : r = [turn[p] EXCEPT !.at = "cards"]
  OBVIOUS
<1>3. /\ r \in Asking /\ r.at = "cards" /\ r.n = turn[p].n /\ r.text = turn[p].text
      /\ turn' = [turn EXCEPT ![p] = r] /\ turn'[p] = r
  BY <1>1, <1>2, DoneTurn DEF SaveAnswer, Asking
<1>4. CASE turn[p].text
  <2>1. PICK row : row = [role |-> "assistant", panel |-> p]
    OBVIOUS
  <2>2. row \in Line /\ row.role = "assistant" /\ transcript' = Append(transcript, row)
    BY <1>4, <2>1 DEF SaveAnswer, SaveMessage, Line
  <2>3. Cardinality(AnswersOf(p))' = Cardinality(AnswersOf(p)) + 1
    BY <2>1, <2>2, RowAdded DEF ConIInv, ConShape
  <2>4. TurnInv(p)'
    <3>1. /\ turn'[p].at = "cards" /\ turn'[p].text = turn[p].text /\ turn'[p].n = turn[p].n
          /\ panel'[p] = panel[p]
      BY <1>1, <1>3
    <3>2. /\ panel[p].answers \in Nat /\ Cardinality(AnswersOf(p)) \in Nat /\ turn[p].n <= MAX_ITERATIONS
          /\ panel[p].answers <= Cardinality(AnswersOf(p)) /\ panel[p].text = turn[p].text
      <4>1. ~(turn[p].at = "cards" /\ turn[p].text)
        BY <1>1
      <4> QED BY <1>1, <4>1, DoneTurn
    <3>3. panel[p].answers + 1 <= Cardinality(AnswersOf(p))'
      BY <2>3, <3>2
    <3> QED BY <1>4, <3>1, <3>2, <3>3 DEF TurnInv
  <2> QED BY <1>1, <1>3, <2>2, <2>4, RowKeeps DEF DailyDue, TokensDue, CostDue
<1>5. CASE ~turn[p].text
  <2>1. transcript' = transcript
    BY <1>5 DEF SaveAnswer
  <2>2. AnswersOf(p)' = AnswersOf(p)
    BY <2>1 DEF AnswersOf
  <2>3. TurnInv(p)'
    BY <1>1, <1>3, <1>5, <2>2, DoneTurn DEF TurnInv
  <2> QED BY <1>1, <1>3, <2>1, <2>3, DoneTurn, MoveKeeps DEF DailyDue, TokensDue, CostDue
<1> QED BY <1>4, <1>5

LEMMA SaveCardKeeps ==
  ASSUME ConIInv, NEW p \in Panels, SaveCard(p) PROVE ConIInv'
<1>1. /\ turn[p].at = "cards" /\ turn[p].cards > 0 /\ UNCHANGED <<panel, usage>>
      /\ turn[p].cards \in Nat
  BY PlacesOf, DoneTurn DEF SaveCard
<1>2. PICK r : r = [turn[p] EXCEPT !.cards = turn[p].cards - 1]
  OBVIOUS
<1>3. turn[p].cards - 1 \in Nat
  BY <1>1
<1>4. /\ r \in Asking /\ r.at = "cards" /\ r.n = turn[p].n /\ r.text = turn[p].text
      /\ turn' = [turn EXCEPT ![p] = r] /\ turn'[p] = r
  BY <1>1, <1>2, <1>3, DoneTurn DEF SaveCard, Asking
<1>5. PICK row : row = [role |-> "card", panel |-> p]
  OBVIOUS
<1>6. row \in Line /\ row.role = "card" /\ transcript' = Append(transcript, row)
  BY <1>5 DEF SaveCard, SaveMessage, Line
<1>7. Cardinality(AnswersOf(p)) <= Cardinality(AnswersOf(p))' /\ Cardinality(AnswersOf(p))' \in Nat
  BY <1>6, RowsStay DEF ConIInv, ConShape, Adds
<1>8. TurnInv(p)'
  BY <1>1, <1>4, <1>7, DoneTurn DEF TurnInv
<1> QED BY <1>1, <1>4, <1>6, <1>8, RowKeeps DEF DailyDue, TokensDue, CostDue

\* The turn is counted and told of: it used no more than was set aside for it.
LEMMA FinishTurnKeeps ==
  ASSUME ConIInv, NEW p \in Panels, FinishTurn(p) PROVE ConIInv'
<1>1. PICK k : k = turn[p].n
  OBVIOUS
<1>2. PICK cost : cost = ComputeCostSatang(k)
  OBVIOUS
<1>3. /\ turn[p].at = "cards" /\ turn' = [turn EXCEPT ![p] = NoTurn] /\ UNCHANGED transcript
      /\ usage' = [tokens |-> usage.tokens + k, satang |-> usage.satang + cost]
  BY <1>1, <1>2 DEF FinishTurn, LogUsage
<1>4. k \in Nat /\ k <= MAX_ITERATIONS /\ MAX_ITERATIONS \in Nat
  BY <1>1, <1>3, DoneTurn, PlacesOf, ConciergeAssumption
<1>5. cost \in Nat /\ cost <= ComputeCostSatang(MAX_ITERATIONS) /\ ComputeCostSatang(MAX_ITERATIONS) \in Nat
  BY <1>2, <1>4, CostUp
<1>6. /\ usage.tokens \in Nat /\ usage.satang \in Nat /\ usage' \in [tokens : Nat, satang : Nat]
      /\ usage'.tokens = usage.tokens + k /\ usage'.satang = usage.satang + cost
  BY <1>3, <1>4, <1>5 DEF ConIInv, ConShape
<1>7. PICK a : a = IF panel[p].text THEN panel[p].answers + 1 ELSE panel[p].answers
  OBVIOUS
<1>8. a \in Nat
  BY <1>3, <1>7, DoneTurn
<1>9. PICK c : c = [panel[p] EXCEPT !.loading = FALSE, !.bubble = "shown", !.answers = a]
  OBVIOUS
<1>10. /\ c \in Shown
      /\ c.answers = IF panel[p].text THEN panel[p].answers + 1 ELSE panel[p].answers
  BY <1>3, <1>9, <1>7, <1>8, DoneTurn DEF Shown
<1>11. /\ panel' = [panel EXCEPT ![p] = c] /\ panel' \in [Panels -> Shown] /\ panel'[p] = c
      /\ \A q \in Panels \ {p} : panel'[q] = panel[q]
  BY <1>3, <1>9, <1>10, <1>7, DoneTurn DEF FinishTurn, ShowDone
<1>12. NoTurn.at = "idle" /\ turn'[p] = NoTurn
  BY <1>3, DoneTurn DEF NoTurn
<1>13. TurnInv(p)'
  <2>1. AnswersOf(p)' = AnswersOf(p)
    BY <1>3 DEF AnswersOf
  <2> QED BY <1>3, <1>10, <1>11, <1>12, <2>1, DoneTurn DEF TurnInv
<1>14. CapsInv'
  <2>1. Said("user") \in Nat /\ Said("user")' = Said("user")
    BY <1>3, RowsCounted DEF Said, ConIInv, ConShape
  <2>2. turn[p].at \in TokensDue /\ turn[p].at \in CostDue /\ NoTurn.at \notin DailyDue
        /\ NoTurn.at \notin TokensDue /\ NoTurn.at \notin CostDue
    BY <1>3, <1>12 DEF DailyDue, TokensDue, CostDue
  <2>3. Said("user")' + (IF NoTurn.at \in DailyDue THEN 1 ELSE 0)
             <= Said("user") + (IF turn[p].at \in DailyDue THEN 1 ELSE 0)
    BY <2>1, <2>2
  <2>4. usage'.tokens + (IF NoTurn.at \in TokensDue THEN MAX_ITERATIONS ELSE 0)
          <= usage.tokens + (IF turn[p].at \in TokensDue THEN MAX_ITERATIONS ELSE 0)
    BY <1>4, <1>6, <2>2
  <2>5. usage'.satang + (IF NoTurn.at \in CostDue THEN ComputeCostSatang(MAX_ITERATIONS) ELSE 0)
          <= usage.satang + (IF turn[p].at \in CostDue THEN ComputeCostSatang(MAX_ITERATIONS) ELSE 0)
    BY <1>5, <1>6, <2>2
  <2> QED BY <1>3, <1>6, <2>1, <2>3, <2>4, <2>5, CapsStay DEF ConIInv
<1>15. ConShape'
  BY <1>3, <1>6, <1>11 DEF ConIInv, ConShape
<1>16. \A q \in Panels : TurnInv(q)'
  BY <1>3, <1>11, <1>13, OthersTurn DEF Adds
<1> QED BY <1>14, <1>15, <1>16 DEF ConIInv

LEMMA TurnStopsKeeps ==
  ASSUME ConIInv, NEW p \in Panels, TurnFails(p) \/ StreamBreaks(p) PROVE ConIInv'
<1>1. turn' = [turn EXCEPT ![p] = NoTurn] /\ UNCHANGED <<transcript, usage>>
  BY DEF TurnFails, StreamBreaks
<1>2. CASE ShowError(p)
  BY <1>1, <1>2, ErrorShown, EndKeeps
<1>3. CASE panel' = [panel EXCEPT ![p].loading = FALSE]
  <2>1. PICK c : c = [panel[p] EXCEPT !.loading = FALSE]
    OBVIOUS
  <2>2. panel \in [Panels -> Shown] /\ panel' = [panel EXCEPT ![p] = c]
    BY <1>3, <2>1 DEF ConIInv, ConShape
  <2>3. c \in Shown /\ c.answers = panel[p].answers
    BY <2>1, <2>2 DEF Shown
  <2>4. panel' \in [Panels -> Shown] /\ panel'[p] = c /\ \A q \in Panels \ {p} : panel'[q] = panel[q]
    BY <2>2, <2>3
  <2> QED BY <1>1, <2>3, <2>4, EndKeeps
<1> QED BY <1>2, <1>3 DEF TurnFails, StreamBreaks

-----------------------------------------------------------------------------
LEMMA ConInitKeeps ==
  ASSUME ConciergeInit PROVE ConIInv
<1>1. ConShape
  <2>1. Fresh \in Shown
    BY DEF Fresh, Shown
  <2> QED BY <2>1 DEF ConciergeInit, ConShape
<1>2. /\ Said("user") = 0 /\ \A S \in {DailyDue, TokensDue, CostDue} : Cardinality(At(S)) = 0
      /\ \A p \in Panels : Cardinality(AnswersOf(p)) = 0
  <2>1. DOMAIN transcript = {}
    BY DEF ConciergeInit
  <2>2. /\ {i \in DOMAIN transcript : transcript[i].role = "user"} = {}
        /\ \A p \in Panels : AnswersOf(p) = {}
    BY <2>1 DEF AnswersOf
  <2>3. \A S \in {DailyDue, TokensDue, CostDue} : At(S) = {}
    BY DEF ConciergeInit, At, NoTurn, DailyDue, TokensDue, CostDue
  <2> QED BY <2>2, <2>3, FS_EmptySet DEF Said
<1>3. CapsInv
  <2>1. PICK n : n = Cardinality(Panels)
    OBVIOUS
  <2>2. PICK cost : cost = ComputeCostSatang(MAX_ITERATIONS)
    OBVIOUS
  <2>3. n \in Nat /\ cost \in Nat /\ MAX_ITERATIONS \in Nat
    BY <2>1, <2>2, ConciergeAssumption, CostUp, FS_CardinalityType
  <2>4. n * MAX_ITERATIONS \in Nat /\ n * cost \in Nat /\ 0 * MAX_ITERATIONS = 0 /\ 0 * cost = 0
    BY <2>3, TimesUp
  <2>5. DailyLimit - 1 \in Nat /\ TokenCeiling - 1 \in Nat /\ Budget - 1 \in Nat
    BY ConciergeAssumption
  <2>6. usage.tokens = 0 /\ usage.satang = 0
    BY DEF ConciergeInit
  <2>7. /\ Cardinality(At(DailyDue)) = 0 /\ Cardinality(At(TokensDue)) = 0 /\ Cardinality(At(CostDue)) = 0
    BY <1>2
  <2>8. /\ 0 + 0 <= DailyLimit - 1 + n
        /\ 0 + 0 * MAX_ITERATIONS <= TokenCeiling - 1 + n * MAX_ITERATIONS
        /\ 0 + 0 * cost <= Budget - 1 + n * cost
    BY <2>3, <2>4, <2>5
  <2> QED BY <1>2, <2>1, <2>2, <2>6, <2>7, <2>8 DEF CapsInv
<1>4. \A p \in Panels : TurnInv(p)
  BY <1>2 DEF ConciergeInit, TurnInv, NoTurn, Fresh
<1> QED BY <1>1, <1>3, <1>4 DEF ConIInv

LEMMA ConStep ==
  ASSUME ConIInv, [ConciergeNext]_conVars PROVE ConIInv'
<1>1. CASE ConciergeNext
  BY <1>1, SendMessageKeeps, ChecksKeep, SaveUserMessageKeeps, BuildHistoryKeeps, ModelKeeps,
     SaveAnswerKeeps, SaveCardKeeps, FinishTurnKeeps, TurnStopsKeeps DEF ConciergeNext
<1>2. CASE UNCHANGED conVars
  BY <1>2 DEF conVars, ConIInv, ConShape, CapsInv, At, Said, TurnInv, AnswersOf
<1> QED BY <1>1, <1>2

\* However the panels of a guest mix in one session: the caps are overshot by no more than one
\* message, one turn's tokens and one turn's cost for each, the model is given its question and no
\* card, and what the guest was told is complete is in the transcript (chat/route.ts, cost.ts).
THEOREM ConciergeIsBounded == ConciergeSpec => []ConciergeInv
<1>1. ConIInv => ConciergeInv
  <2> SUFFICES ASSUME ConIInv PROVE ConciergeInv
    OBVIOUS
  <2>1. PICK n : n = Cardinality(Panels)
    OBVIOUS
  <2>2. PICK cost : cost = ComputeCostSatang(MAX_ITERATIONS)
    OBVIOUS
  <2>3. n \in Nat /\ cost \in Nat /\ MAX_ITERATIONS \in Nat
    BY <2>1, <2>2, ConciergeAssumption, CostUp, FS_CardinalityType
  <2>4. \A S \in {DailyDue, TokensDue, CostDue} : Cardinality(At(S)) \in Nat
    BY ConciergeAssumption, FS_Subset, FS_CardinalityType DEF At
  <2>5. /\ Cardinality(At(TokensDue)) * MAX_ITERATIONS \in Nat /\ Cardinality(At(CostDue)) * cost \in Nat
        /\ Cardinality(At(DailyDue)) \in Nat
        /\ n * MAX_ITERATIONS \in Nat /\ n * cost \in Nat
    BY <2>3, <2>4, TimesUp
  <2>6. Said("user") \in Nat /\ usage.tokens \in Nat /\ usage.satang \in Nat
    BY RowsCounted DEF ConIInv, ConShape
  <2>7. CapsHold
    BY <2>1, <2>2, <2>3, <2>5, <2>6, ConciergeAssumption DEF ConIInv, CapsInv, CapsHold
  <2>8. ModelReadsItsQuestion
    BY DEF ConIInv, TurnInv, ModelReadsItsQuestion, Asked
  <2>9. ShownIsSaved
    <3> SUFFICES ASSUME NEW p \in Panels PROVE panel[p].answers <= Cardinality(AnswersOf(p))
      BY DEF ShownIsSaved, AnswersOf
    <3>1. TurnInv(p) /\ panel[p].answers \in Nat /\ Cardinality(AnswersOf(p)) \in Nat
      BY RowsCounted DEF ConIInv, ConShape, Shown
    <3> QED BY <3>1 DEF TurnInv
  <2> QED BY <2>7, <2>8, <2>9 DEF ConciergeInv
<1> QED BY <1>1, ConInitKeeps, ConStep, PTL DEF ConciergeSpec

-----------------------------------------------------------------------------
(* Accounts                                                                 *)

Otp == [phone : Phones, age : {"new", "cooled", "expired"}, attempts : Nat,
        consumed : BOOLEAN, gone : BOOLEAN, delivered : BOOLEAN]
UserRow == [exists : BOOLEAN, deleted : BOOLEAN, phone : Phones \cup {NoPhone}, verified : BOOLEAN]

\* What the call of a tab carries, once n codes were made.
TabCalls(n) ==
  {NoCall} \cup [at : {"cooldown", "create"}, phone : Phones]
  \cup [at : {"sms", "verify", "consume"}, code : 1 .. n]
  \cup [at : {"read"}, guess : 0 .. n] \cup [at : {"count"}, guess : 0 .. n, code : 1 .. n]
  \cup [at : {"write", "delete"}] \cup [at : {"erase"}, hasFootprint : BOOLEAN]

Footprint == [tied : Nat, loose : Nat, late : Nat, lost : Nat]

AccountShape ==
  /\ account \in UserRow /\ codes \in Seq(Otp) /\ footprint \in Footprint
  /\ guessed \in [1 .. MaxCodes -> Nat] /\ call \in [Tabs -> TabCalls(Len(codes))]

\* No code was compared more often than its row counts.
CountedInv ==
  \A k \in 1 .. MaxCodes :
    /\ guessed[k] <= MAX_ATTEMPTS
    /\ guessed[k] <= IF k \in DOMAIN codes THEN codes[k].attempts ELSE 0

\* A call that outlives the deletion verifies no code: those it can know of are gone.
Harmless(c) ==
  /\ c.at \in {"read", "count"} => c.guess = Wrong \/ codes[c.guess].gone
  /\ c.at = "verify" => codes[c.code].gone
ErasedInv == account.deleted => \A t \in Tabs : Harmless(call[t])

AccountIInv == AccountShape /\ CountedInv /\ ErasedInv /\ ErasureHolds

\* A deletion that found nothing has missed the late rows only.
FoundNothing(c) == c.at = "erase" /\ ~c.hasFootprint
UnseenInv == (\E t \in Tabs : FoundNothing(call[t])) => footprint.loose <= footprint.late

-----------------------------------------------------------------------------
\* Naturals have a least element in every set of them, so a set of codes has a newest.
LEMMA LeastOf ==
  ASSUME NEW T \in SUBSET Nat, T # {} PROVE \E x \in T : \A y \in T : x <= y
<1> DEFINE R == OpToRel(<, Nat)
<1>1. IsWellFoundedOn(R, Nat)
  BY NatLessThanWellFounded, Zenon
<1>2. \A x, y \in Nat : x < y => <<x, y>> \in R
  BY DEF OpToRel
<1> HIDE DEF R
<1>3. PICK x \in T : \A y \in T : ~ (<<y, x>> \in R)
  BY <1>1, WFMin
<1>4. \A y \in T : ~ (y < x)
  BY <1>2, <1>3
<1> QED BY <1>4

LEMMA NewestIsOne ==
  ASSUME NEW n \in Nat, NEW S \in SUBSET (1 .. n), S # {} PROVE Newest(S) \in S
<1> DEFINE T == {x \in Nat : \E k \in S : x + k = n}
<1>1. PICK s \in S : TRUE
  OBVIOUS
<1>2. s \in 1 .. n /\ n - s \in Nat /\ (n - s) + s = n
  OBVIOUS
<1>3. n - s \in T
  BY <1>1, <1>2
<1>4. PICK x \in T : \A y \in T : x <= y
  BY <1>3, LeastOf
<1>5. PICK k \in S : x + k = n
  OBVIOUS
<1>6. ASSUME NEW j \in S PROVE j <= k
  <2>1. j \in 1 .. n /\ n - j \in Nat /\ (n - j) + j = n
    OBVIOUS
  <2>2. n - j \in T
    BY <2>1
  <2>3. x <= n - j /\ x \in Nat /\ k \in 1 .. n
    BY <1>4, <2>2
  <2> QED BY <1>5, <2>1, <2>3
<1> QED BY <1>5, <1>6 DEF Newest

\* What each place a call can wait at says of the rest of it.
LEMMA CallCarries ==
  ASSUME NEW n \in Nat, NEW c \in TabCalls(n)
  PROVE  /\ c.at = "cooldown" => c = [at |-> "cooldown", phone |-> c.phone]
         /\ c.at \in {"cooldown", "create"} => c.phone \in Phones
         /\ c.at \in {"sms", "verify", "consume", "count"} => c.code \in 1 .. n
         /\ c.at \in {"read", "count"} => c.guess \in 0 .. n
         /\ c.at = "erase" => c.hasFootprint \in BOOLEAN
BY DEF TabCalls, NoCall

LEMMA CallsStay ==
  ASSUME NEW n \in Nat, NEW m \in Nat, n <= m PROVE TabCalls(n) \subseteq TabCalls(m)
<1>1. 1 .. n \subseteq 1 .. m /\ 0 .. n \subseteq 0 .. m
  OBVIOUS
<1> QED BY <1>1 DEF TabCalls

LEMMA CodesTyped ==
  ASSUME AccountShape
  PROVE  /\ Len(codes) \in Nat /\ DOMAIN codes = 1 .. Len(codes)
         /\ \A k \in DOMAIN codes : codes[k] \in Otp
         /\ \A t \in Tabs : call[t] \in TabCalls(Len(codes))
BY DEF AccountShape

\* Codes are only added, and none comes back.
Onward ==
  /\ codes' \in Seq(Otp) /\ Len(codes) <= Len(codes')
  /\ \A k \in DOMAIN codes : codes[k].gone => codes'[k].gone

\* A call of t that goes on, or returns, disturbs no call of another tab.
LEMMA OthersStay ==
  ASSUME AccountShape, ErasedInv, Onward, NEW t \in Tabs, NEW r \in TabCalls(Len(codes')),
         Step(t, r), account'.deleted => account.deleted, account'.deleted => Harmless(r)'
  PROVE  call' \in [Tabs -> TabCalls(Len(codes'))] /\ ErasedInv'
<1>1. call' = [call EXCEPT ![t] = r] /\ call \in [Tabs -> TabCalls(Len(codes))]
  BY DEF Step, AccountShape
<1>2. Len(codes) \in Nat /\ Len(codes') \in Nat /\ Len(codes) <= Len(codes')
      /\ DOMAIN codes = 1 .. Len(codes)
  BY CodesTyped DEF Onward
<1>3. TabCalls(Len(codes)) \subseteq TabCalls(Len(codes'))
  BY <1>2, CallsStay
<1>4. call' \in [Tabs -> TabCalls(Len(codes'))]
  BY <1>1, <1>3
<1>5. ASSUME NEW s \in Tabs, account'.deleted PROVE Harmless(call[s])'
  <2>1. CASE s = t
    <3>1. call'[s] = r
      BY <1>1, <2>1
    <3> QED BY <1>5, <3>1 DEF Harmless
  <2>2. CASE s # t
    <3>1. call'[s] = call[s] /\ call[s] \in TabCalls(Len(codes))
      BY <1>1, <2>2
    <3>2. Harmless(call[s])
      BY <1>5 DEF ErasedInv
    <3>3. /\ call[s].at \in {"read", "count"} => call[s].guess \in 0 .. Len(codes)
          /\ call[s].at = "verify" => call[s].code \in 1 .. Len(codes)
      BY <1>2, <3>1, CallCarries
    <3>4. \A k \in 0 .. Len(codes) : k = 0 \/ k \in 1 .. Len(codes)
      BY <1>2
    <3> QED BY <1>2, <3>1, <3>2, <3>3, <3>4 DEF Harmless, Onward, Wrong
  <2> QED BY <2>1, <2>2
<1> QED BY <1>4, <1>5 DEF ErasedInv

\* A call that neither reads a code nor verifies one is harmless wherever it is.
Plain == {NoCall} \cup [at : {"cooldown", "create"}, phone : Phones]
         \cup [at : {"write", "delete"}] \cup [at : {"erase"}, hasFootprint : BOOLEAN]
LEMMA PlainIsHarmless ==
  ASSUME NEW n, NEW r \in Plain PROVE r \in TabCalls(n) /\ r.at \notin {"read", "count", "verify"}
BY DEF Plain, TabCalls, NoCall

\* A step of the call of t that leaves rows and codes alone.
LEMMA OnlyTheCall ==
  ASSUME AccountIInv, NEW t \in Tabs, NEW r \in Plain, Step(t, r),
         UNCHANGED <<account, codes, footprint, guessed>>
  PROVE  AccountIInv'
<1>1. Onward
  BY DEF AccountIInv, AccountShape, Onward
<1>2. r \in TabCalls(Len(codes')) /\ Harmless(r)'
  BY PlainIsHarmless DEF Harmless
<1>3. call' \in [Tabs -> TabCalls(Len(codes'))] /\ ErasedInv'
  BY <1>1, <1>2, OthersStay DEF AccountIInv
<1> QED BY <1>3 DEF AccountIInv, AccountShape, CountedInv, ErasureHolds

LEMMA BeginKeeps ==
  ASSUME AccountIInv, NEW t \in Tabs,
         (\E p \in Phones : SendCode(t, p)) \/ (\E op \in {"write", "delete"} : StartOther(t, op))
  PROVE  AccountIInv'
<1>1. PICK r \in Plain : Step(t, r)
  <2>1. ASSUME NEW p \in Phones, SendCode(t, p) PROVE \E r \in Plain : Step(t, r)
    <3>1. [at |-> "cooldown", phone |-> p] \in Plain
      BY DEF Plain
    <3> QED BY <2>1, <3>1 DEF SendCode
  <2>2. ASSUME NEW op \in {"write", "delete"}, StartOther(t, op) PROVE \E r \in Plain : Step(t, r)
    <3>1. [at |-> op] \in Plain
      BY DEF Plain
    <3> QED BY <2>2, <3>1 DEF StartOther
  <2> QED BY <2>1, <2>2
<1>2. UNCHANGED <<account, codes, footprint, guessed>>
  BY DEF SendCode, StartOther
<1> QED BY <1>1, <1>2, OnlyTheCall

\* The codes are rewritten where they are: gone stays gone and the attempts are kept.
Rewritten ==
  /\ codes' \in Seq(Otp) /\ Len(codes') = Len(codes)
  /\ \A k \in DOMAIN codes :
       /\ codes[k].gone => codes'[k].gone
       /\ codes'[k].attempts = codes[k].attempts

LEMMA RewrittenIsOnward ==
  ASSUME AccountIInv, Rewritten, UNCHANGED guessed
  PROVE  Onward /\ CountedInv'
<1>1. DOMAIN codes' = DOMAIN codes /\ Len(codes) \in Nat
  BY CodesTyped DEF AccountIInv, Rewritten
<1>2. Onward
  BY <1>1 DEF Rewritten, Onward
<1>3. CountedInv'
  BY <1>1 DEF AccountIInv, CountedInv, Rewritten
<1> QED BY <1>2, <1>3

\* A rewriting given code by code.
LEMMA RewriteByCode ==
  ASSUME AccountIInv, DOMAIN codes' = DOMAIN codes, codes' = [k \in DOMAIN codes |-> codes'[k]],
         \A k \in DOMAIN codes : /\ codes'[k] \in Otp /\ codes'[k].attempts = codes[k].attempts
                                 /\ codes[k].gone => codes'[k].gone
  PROVE  Rewritten
<1>1. Len(codes) \in Nat /\ DOMAIN codes = 1 .. Len(codes)
  BY CodesTyped DEF AccountIInv
<1>2. codes' \in [1 .. Len(codes) -> Otp]
  BY <1>1
<1>3. codes' \in Seq(Otp) /\ Len(codes') = Len(codes)
  BY <1>1, <1>2
<1> QED BY <1>3 DEF Rewritten

LEMMA PurgeRewrites ==
  ASSUME AccountIInv, codes' = Purged PROVE Rewritten
<1>1. \A k \in DOMAIN codes : codes[k] \in Otp
  BY CodesTyped DEF AccountIInv
<1>2. DOMAIN codes' = DOMAIN codes /\ codes' = [k \in DOMAIN codes |-> codes'[k]]
  BY DEF Purged
<1>3. ASSUME NEW k \in DOMAIN codes
      PROVE  /\ codes'[k] \in Otp /\ codes'[k].attempts = codes[k].attempts
             /\ codes[k].gone => codes'[k].gone
  <2>1. codes'[k] = [codes[k] EXCEPT !.gone = codes[k].gone \/ Dead(k)]
    BY <1>1, <1>3 DEF Purged, Otp
  <2>2. (codes[k].gone \/ Dead(k)) \in BOOLEAN /\ codes[k] \in Otp
    BY <1>1, <1>3 DEF Dead, Otp
  <2>3. codes'[k].attempts = codes[k].attempts /\ codes'[k].gone = (codes[k].gone \/ Dead(k))
    BY <2>1, <2>2 DEF Otp
  <2>4. codes'[k] \in Otp
    BY <2>1, <2>2 DEF Otp
  <2> QED BY <2>3, <2>4
<1> QED BY <1>2, <1>3, RewriteByCode

\* The codes are rewritten and the call of t goes on; the person stays who they were.
LEMMA RewriteKeeps ==
  ASSUME AccountIInv, Rewritten, NEW t \in Tabs, NEW r \in TabCalls(Len(codes')), Step(t, r),
         UNCHANGED <<account, footprint, guessed>>, Harmless(r)'
  PROVE  AccountIInv'
<1>1. Onward /\ CountedInv'
  BY RewrittenIsOnward
<1>2. call' \in [Tabs -> TabCalls(Len(codes'))] /\ ErasedInv'
  BY <1>1, OthersStay DEF AccountIInv
<1> QED BY <1>1, <1>2 DEF AccountIInv, AccountShape, Rewritten, ErasureHolds

LEMMA CheckCooldownKeeps ==
  ASSUME AccountIInv, NEW t \in Tabs, CheckCooldown(t) PROVE AccountIInv'
<1>1. codes' = Purged /\ UNCHANGED <<account, footprint, guessed>>
  BY DEF CheckCooldown
<1>2. Rewritten
  BY <1>1, PurgeRewrites
<1>3. PICK r \in Plain : Step(t, r)
  <2> DEFINE c == [call[t] EXCEPT !.at = "create"]
  <2>1. call[t].at = "cooldown" /\ call[t] \in TabCalls(Len(codes)) /\ Len(codes) \in Nat
    BY CodesTyped DEF CheckCooldown, AccountIInv
  <2>2. call[t].phone \in Phones /\ call[t] = [at |-> "cooldown", phone |-> call[t].phone]
    BY <2>1, CallCarries
  <2>3. c = [at |-> "create", phone |-> call[t].phone]
    BY <2>2
  <2>4. c \in Plain /\ NoCall \in Plain
    BY <2>2, <2>3 DEF Plain
  <2>5. Step(t, c) \/ Step(t, NoCall)
    BY DEF CheckCooldown, Return
  <2> QED BY <2>4, <2>5
<1>4. Harmless(r)' /\ r \in TabCalls(Len(codes'))
  BY PlainIsHarmless DEF Harmless
<1> QED BY <1>1, <1>2, <1>3, <1>4, RewriteKeeps

LEMMA CreateCodeKeeps ==
  ASSUME AccountIInv, NEW t \in Tabs, CreateCode(t) PROVE AccountIInv'
<1> DEFINE row == [phone |-> call[t].phone, age |-> "new", attempts |-> 0,
                   consumed |-> FALSE, gone |-> FALSE, delivered |-> FALSE]
           n == Len(codes)
<1> PICK r : r = [at |-> "sms", code |-> n + 1]
  OBVIOUS
<1>1. /\ call[t].at = "create" /\ call[t] \in TabCalls(n) /\ n \in Nat /\ DOMAIN codes = 1 .. n
      /\ UNCHANGED <<account, footprint, guessed>>
  BY CodesTyped DEF CreateCode, AccountIInv
<1>2. CASE Return(t) /\ UNCHANGED codes
  <2>1. NoCall \in Plain
    BY DEF Plain
  <2> QED BY <1>1, <1>2, <2>1, OnlyTheCall DEF Return
<1>3. CASE n < MaxCodes /\ codes' = Append(codes, row) /\ Step(t, r)
  <2>1. row \in Otp
    BY <1>1, CallCarries DEF Otp
  <2> HIDE DEF row
  <2>2. /\ codes' \in Seq(Otp) /\ Len(codes') = n + 1 /\ codes'[n + 1] = row
        /\ DOMAIN codes' = 1 .. n + 1 /\ \A k \in 1 .. n : codes'[k] = codes[k]
    BY <1>1, <1>3, <2>1 DEF AccountIInv, AccountShape
  <2>3. Onward
    BY <1>1, <2>2 DEF Onward
  <2>4. r \in TabCalls(Len(codes')) /\ r.at = "sms"
    <3>1. n + 1 \in 1 .. n + 1
      BY <1>1
    <3> QED BY <2>2, <3>1 DEF TabCalls
  <2>5. Harmless(r)'
    BY <2>4 DEF Harmless
  <2>6. call' \in [Tabs -> TabCalls(Len(codes'))] /\ ErasedInv'
    BY <1>1, <1>3, <2>3, <2>4, <2>5, OthersStay DEF AccountIInv
  <2>7. CountedInv'
    <3>1. \A k \in 1 .. MaxCodes :
            guessed[k] <= MAX_ATTEMPTS /\ guessed[k] <= IF k \in 1 .. n THEN codes[k].attempts ELSE 0
      BY <1>1 DEF AccountIInv, CountedInv
    <3>2. row.attempts = 0
      BY DEF row
    <3> SUFFICES ASSUME NEW k \in 1 .. MaxCodes
                 PROVE  guessed[k] <= IF k \in 1 .. n + 1 THEN codes'[k].attempts ELSE 0
      BY <1>1, <2>2, <3>1 DEF CountedInv
    <3>3. CASE k \in 1 .. n
      BY <1>1, <2>2, <3>1, <3>3
    <3>4. CASE k = n + 1
      <4>1. k \notin 1 .. n /\ k \in 1 .. n + 1
        BY <1>1, <3>4
      <4> QED BY <2>2, <3>1, <3>2, <3>4, <4>1
    <3>5. CASE k \notin 1 .. n + 1
      <4>1. k \notin 1 .. n
        BY <1>1, <3>5
      <4> QED BY <3>1, <3>5, <4>1
    <3>6. k \in 1 .. n \/ k = n + 1 \/ k \notin 1 .. n + 1
      BY <1>1
    <3> QED BY <3>3, <3>4, <3>5, <3>6
  <2> QED BY <1>1, <2>2, <2>6, <2>7 DEF AccountIInv, AccountShape, ErasureHolds
<1> QED BY <1>2, <1>3 DEF CreateCode

\* One code is changed in place.
LEMMA OneCodeKeeps ==
  ASSUME AccountIInv, NEW k \in DOMAIN codes, NEW c \in Otp, codes' = [codes EXCEPT ![k] = c],
         c.attempts = codes[k].attempts, c.gone = codes[k].gone
  PROVE  Rewritten
<1>1. /\ DOMAIN codes' = DOMAIN codes /\ codes' = [j \in DOMAIN codes |-> codes'[j]]
      /\ codes'[k] = c /\ \A j \in DOMAIN codes \ {k} : codes'[j] = codes[j]
  BY CodesTyped DEF AccountIInv, AccountShape
<1>2. \A j \in DOMAIN codes : codes[j] \in Otp
  BY CodesTyped DEF AccountIInv
<1> QED BY <1>1, <1>2, RewriteByCode

LEMMA SmsKeeps ==
  ASSUME AccountIInv, NEW t \in Tabs, SmsSent(t) \/ SmsFails(t) PROVE AccountIInv'
<1>1. /\ call[t].at = "sms" /\ Step(t, NoCall) /\ UNCHANGED <<account, footprint, guessed>>
      /\ NoCall \in Plain
  BY DEF SmsSent, SmsFails, Return, Plain
<1>2. CASE SmsSent(t)
  <2> DEFINE k == call[t].code
             c == [codes[k] EXCEPT !.delivered = TRUE]
  <2>1. k \in DOMAIN codes /\ codes[k] \in Otp
    BY <1>1, CodesTyped, CallCarries DEF AccountIInv
  <2>2. codes' = [codes EXCEPT ![k] = c] /\ c \in Otp /\ c.attempts = codes[k].attempts
        /\ c.gone = codes[k].gone
    BY <1>2, <2>1, CodesTyped DEF SmsSent, Otp
  <2> HIDE DEF c, k
  <2>3. Rewritten
    BY <2>1, <2>2, OneCodeKeeps
  <2>4. Harmless(NoCall)' /\ NoCall \in TabCalls(Len(codes'))
    BY <1>1, PlainIsHarmless DEF Harmless
  <2> QED BY <1>1, <2>3, <2>4, RewriteKeeps
<1>3. CASE SmsFails(t)
  BY <1>1, <1>3, OnlyTheCall DEF SmsFails
<1> QED BY <1>2, <1>3

LEMMA ReadCodeKeeps ==
  ASSUME AccountIInv, NEW t \in Tabs, ConfirmCode(t, 0) \/ ReadCode(t)
         \/ \E g \in DOMAIN codes : ConfirmCode(t, g) /\ codes[g].delivered
  PROVE  AccountIInv'
<1>1. /\ UNCHANGED <<account, codes, footprint, guessed>> /\ DOMAIN codes = 1 .. Len(codes)
      /\ Len(codes) \in Nat
  BY CodesTyped DEF ConfirmCode, ReadCode, AccountIInv
<1>2. Rewritten
  BY <1>1, RewriteByCode, CodesTyped DEF AccountIInv, AccountShape, Rewritten
<1>3. PICK r : Step(t, r) /\ r \in TabCalls(Len(codes)) /\ (account.deleted => Harmless(r))
  <2>1. ASSUME NEW g \in 0 .. Len(codes), ConfirmCode(t, g)
        PROVE  \E r : Step(t, r) /\ r \in TabCalls(Len(codes)) /\ (account.deleted => Harmless(r))
    <3>1. [at |-> "read", guess |-> g] \in TabCalls(Len(codes))
      BY DEF TabCalls
    <3> QED BY <2>1, <3>1 DEF ConfirmCode, RequireUser
  <2>2. ASSUME ReadCode(t)
        PROVE  \E r : Step(t, r) /\ r \in TabCalls(Len(codes)) /\ (account.deleted => Harmless(r))
    <3> DEFINE row == Newest(ActiveCodes)
               c == [at |-> "count", guess |-> call[t].guess, code |-> row]
    <3>1. NoCall \in TabCalls(Len(codes)) /\ Harmless(NoCall)
      BY DEF TabCalls, NoCall, Harmless
    <3>2. CASE Step(t, NoCall)
      BY <3>1, <3>2
    <3>3. CASE row # 0 /\ Step(t, c)
      <4>1. ActiveCodes # {} /\ ActiveCodes \in SUBSET (1 .. Len(codes))
        BY <1>1, <3>3 DEF Newest, ActiveCodes
      <4>2. row \in 1 .. Len(codes)
        BY <1>1, <4>1, NewestIsOne
      <4>3. /\ call[t] \in TabCalls(Len(codes)) /\ call[t].at = "read"
            /\ account.deleted => Harmless(call[t])
        BY <2>2, CodesTyped DEF ReadCode, AccountIInv, ErasedInv
      <4> HIDE DEF row
      <4>4. call[t].guess \in 0 .. Len(codes)
        BY <1>1, <4>3, CallCarries
      <4>5. c \in TabCalls(Len(codes))
        BY <4>2, <4>4 DEF TabCalls
      <4>6. account.deleted => Harmless(c)
        BY <4>3 DEF Harmless
      <4> QED BY <3>3, <4>5, <4>6
    <3> QED BY <2>2, <3>2, <3>3 DEF ReadCode, Return
  <2>3. 0 \in 0 .. Len(codes) /\ DOMAIN codes \subseteq 0 .. Len(codes)
    BY <1>1
  <2> QED BY <2>1, <2>2, <2>3
<1>4. r \in TabCalls(Len(codes')) /\ (account'.deleted => Harmless(r)')
  BY <1>1, <1>3 DEF Harmless
<1>5. Onward /\ CountedInv'
  BY <1>1, <1>2, RewrittenIsOnward
<1>6. call' \in [Tabs -> TabCalls(Len(codes'))] /\ ErasedInv'
  BY <1>1, <1>3, <1>4, <1>5, OthersStay DEF AccountIInv
<1> QED BY <1>1, <1>5, <1>6 DEF AccountIInv, AccountShape, ErasureHolds

\* The guess is compared once more, and the row counts once more.
LEMMA CompareKeeps ==
  ASSUME AccountIInv, NEW t \in Tabs, Compare(t) PROVE AccountIInv'
<1>1. /\ call[t].at = "count" /\ call[t] \in TabCalls(Len(codes)) /\ Len(codes) \in Nat
      /\ DOMAIN codes = 1 .. Len(codes) /\ NoCall \in Plain
      /\ UNCHANGED <<account, footprint>>
  BY CodesTyped DEF Compare, AccountIInv, Plain
<1>2. PICK k : k = call[t].code
  OBVIOUS
<1>3. /\ k \in DOMAIN codes /\ codes[k] \in Otp /\ codes[k].attempts \in Nat
      /\ call[t].guess \in 0 .. Len(codes)
  BY <1>1, <1>2, CallCarries, CodesTyped DEF AccountIInv, Otp
<1>4. CASE Return(t) /\ UNCHANGED <<codes, guessed>>
  BY <1>1, <1>4, OnlyTheCall DEF Return
<1>5. CASE Live(k) /\ CountAndCompare(t, codes[k].attempts + 1)
  <2> PICK n : n = codes[k].attempts + 1
    OBVIOUS
  <2> DEFINE c == [codes[k] EXCEPT !.attempts = n]
  <2>1. codes' = [codes EXCEPT ![k] = c]
    BY <1>2, <1>3, <1>5 DEF CountAndCompare
  <2>2. c \in Otp /\ c.attempts = n /\ c.gone = codes[k].gone /\ n \in Nat
    BY <1>3 DEF Otp
  <2> HIDE DEF c
  <2>3. /\ codes' \in Seq(Otp) /\ Len(codes') = Len(codes) /\ DOMAIN codes' = DOMAIN codes
        /\ codes'[k] = c /\ \A j \in DOMAIN codes \ {k} : codes'[j] = codes[j]
    BY <1>3, <2>1, <2>2, CodesTyped DEF AccountIInv, AccountShape
  <2>4. Onward
    BY <1>1, <2>2, <2>3 DEF Onward
  <2>5. PICK r : /\ Step(t, r) /\ r \in {NoCall} \cup [at : {"verify", "consume"}, code : {k}]
                 /\ r.at = "verify" => call[t].guess = k
    <3>1. \A p \in {"verify", "consume"} : [at |-> p, code |-> k] \in [at : {"verify", "consume"}, code : {k}]
      OBVIOUS
    <3>2. NoCall.at # "verify"
      BY DEF NoCall
    <3> QED BY <1>2, <1>5, <3>1, <3>2 DEF CountAndCompare, Return
  <2>6. r \in TabCalls(Len(codes')) /\ r.at \notin {"read", "count"} /\ (r.at = "verify" => r.code = k)
    BY <1>1, <1>3, <2>3, <2>5 DEF TabCalls, NoCall
  <2>7. account'.deleted => Harmless(r)'
    <3>1. account.deleted => Harmless(call[t])
      BY DEF AccountIInv, ErasedInv
    <3>2. account.deleted /\ call[t].guess = k => codes[k].gone
      BY <1>1, <1>3, <3>1 DEF Harmless, Wrong
    <3> QED BY <1>1, <1>3, <2>2, <2>3, <2>5, <2>6, <3>2 DEF Harmless
  <2>8. call' \in [Tabs -> TabCalls(Len(codes'))] /\ ErasedInv'
    BY <1>1, <2>4, <2>5, <2>6, <2>7, OthersStay DEF AccountIInv
  <2>9. guessed' \in [1 .. MaxCodes -> Nat] /\ CountedInv'
    <3>1. guessed' = [guessed EXCEPT ![k] = IF n <= MAX_ATTEMPTS THEN @ + 1 ELSE @]
      BY <1>2, <1>5 DEF CountAndCompare
    <3>2. guessed \in [1 .. MaxCodes -> Nat]
      BY DEF AccountIInv, AccountShape
    <3>3. guessed' \in [1 .. MaxCodes -> Nat]
      <4>1. \A j \in 1 .. MaxCodes : guessed'[j] = guessed[j] \/ guessed'[j] = guessed[j] + 1
        BY <3>1, <3>2
      <4>2. guessed' = [j \in 1 .. MaxCodes |-> guessed'[j]]
        BY <3>1, <3>2
      <4>3. \A j \in 1 .. MaxCodes : guessed'[j] \in Nat
        BY <3>2, <4>1
      <4> QED BY <4>2, <4>3
    <3>4. ASSUME NEW j \in 1 .. MaxCodes
          PROVE  /\ guessed'[j] <= MAX_ATTEMPTS
                 /\ guessed'[j] <= IF j \in DOMAIN codes' THEN codes'[j].attempts ELSE 0
      <4>1. /\ guessed[j] <= MAX_ATTEMPTS /\ guessed[j] \in Nat
            /\ guessed[j] <= IF j \in DOMAIN codes THEN codes[j].attempts ELSE 0
        BY <3>2 DEF AccountIInv, CountedInv
      <4>2. CASE j = k
        <5>1. guessed'[j] = IF n <= MAX_ATTEMPTS THEN guessed[j] + 1 ELSE guessed[j]
          BY <3>1, <3>2, <4>2
        <5>2. guessed[j] <= codes[k].attempts /\ codes'[j].attempts = n /\ j \in DOMAIN codes'
          BY <1>3, <2>2, <2>3, <4>1, <4>2
        <5> QED BY <1>3, <4>1, <5>1, <5>2, AccountsAssumption
      <4>3. CASE j # k
        BY <2>3, <3>1, <3>2, <4>1, <4>3
      <4> QED BY <4>2, <4>3
    <3> QED BY <3>3, <3>4 DEF CountedInv
  <2> QED BY <1>1, <2>3, <2>8, <2>9 DEF AccountIInv, AccountShape, ErasureHolds
<1> QED BY <1>2, <1>4, <1>5 DEF Compare

LEMMA ConsumeKeeps ==
  ASSUME AccountIInv, NEW t \in Tabs, Consume(t) PROVE AccountIInv'
<1>1. /\ call[t].at = "consume" /\ Step(t, NoCall) /\ UNCHANGED <<account, footprint, guessed>>
      /\ NoCall \in Plain
  BY DEF Consume, Return, Plain
<1> DEFINE k == call[t].code
           c == [codes[k] EXCEPT !.consumed = TRUE]
<1>2. k \in DOMAIN codes /\ codes[k] \in Otp
  BY <1>1, CodesTyped, CallCarries DEF AccountIInv
<1>3. c \in Otp /\ c.attempts = codes[k].attempts /\ c.gone = codes[k].gone
  BY <1>2 DEF Otp
<1>4. CASE codes' = [codes EXCEPT ![k] = c]
  <2> HIDE DEF c, k
  <2>1. Rewritten
    BY <1>2, <1>3, <1>4, OneCodeKeeps
  <2>2. Harmless(NoCall)' /\ NoCall \in TabCalls(Len(codes'))
    BY <1>1, PlainIsHarmless DEF Harmless
  <2> QED BY <1>1, <2>1, <2>2, RewriteKeeps
<1>5. CASE codes' = codes
  BY <1>1, <1>5, OnlyTheCall
<1>6. codes' = codes \/ codes' = [codes EXCEPT ![k] = c]
  BY <1>2, CodesTyped DEF Consume
<1> QED BY <1>4, <1>5, <1>6

\* The only step that writes a phone: its code is live, so the account is not deleted.
LEMMA MarkVerifiedKeeps ==
  ASSUME AccountIInv, NEW t \in Tabs, MarkVerified(t) PROVE AccountIInv'
<1>1. /\ call[t].at = "verify" /\ Step(t, NoCall) /\ UNCHANGED <<footprint, guessed>>
      /\ NoCall \in Plain
  BY DEF MarkVerified, Return, Plain
<1> DEFINE k == call[t].code
           c == [codes[k] EXCEPT !.consumed = TRUE]
<1>2. k \in DOMAIN codes /\ codes[k] \in Otp
  BY <1>1, CodesTyped, CallCarries DEF AccountIInv
<1>3. c \in Otp /\ c.attempts = codes[k].attempts /\ c.gone = codes[k].gone
  BY <1>2 DEF Otp
<1>4. CASE Live(k)
  <2>1. /\ codes' = [codes EXCEPT ![k] = c]
        /\ account' = [account EXCEPT !.phone = codes[k].phone, !.verified = TRUE]
    BY <1>2, <1>4 DEF MarkVerified
  <2>2. ~account.deleted
    <3>1. account.deleted => codes[k].gone
      BY <1>1 DEF AccountIInv, ErasedInv, Harmless
    <3> QED BY <1>4, <3>1 DEF Live
  <2>3. codes[k].phone \in Phones /\ account \in UserRow
    BY <1>2 DEF Otp, AccountIInv, AccountShape
  <2>4. account' \in UserRow /\ account'.deleted = account.deleted /\ account'.exists = account.exists
    BY <2>1, <2>3 DEF UserRow
  <2> HIDE DEF c, k
  <2>5. Rewritten
    BY <1>2, <1>3, <2>1, OneCodeKeeps
  <2>6. Onward /\ CountedInv'
    BY <1>1, <2>5, RewrittenIsOnward
  <2>7. NoCall \in TabCalls(Len(codes')) /\ Harmless(NoCall)'
    BY <1>1, PlainIsHarmless DEF Harmless
  <2>8. call' \in [Tabs -> TabCalls(Len(codes'))] /\ ErasedInv'
    BY <1>1, <2>4, <2>6, <2>7, OthersStay DEF AccountIInv
  <2> QED BY <1>1, <2>2, <2>4, <2>5, <2>6, <2>8
          DEF AccountIInv, AccountShape, ErasureHolds, Rewritten
<1>5. CASE ~Live(k)
  BY <1>1, <1>5, OnlyTheCall DEF MarkVerified
<1> QED BY <1>4, <1>5

\* A row more of either kind, and nothing else of the footprint shrinks.
LEMMA AddRowAdds ==
  ASSUME footprint \in Footprint, NEW kind \in Kinds, AddRow(kind)
  PROVE  /\ footprint' \in Footprint /\ footprint'.lost = footprint.lost
         /\ footprint'.late >= footprint.late
         /\ (\E t \in Tabs : call[t].at = "erase") =>
              footprint'.loose - footprint.loose = footprint'.late - footprint.late
<1>1. PICK late \in {0, 1} :
        /\ footprint' = [footprint EXCEPT ![kind] = @ + 1, !.late = @ + late]
        /\ (\E t \in Tabs : call[t].at = "erase") => late = IF kind = "loose" THEN 1 ELSE 0
  BY DEF AddRow
<1> PICK a, b, c, d \in Nat : footprint = [tied |-> a, loose |-> b, late |-> c, lost |-> d]
  BY DEF Footprint
<1>2. CASE kind = "tied"
  <2>1. /\ footprint' = [tied |-> a + 1, loose |-> b, late |-> c + late, lost |-> d]
        /\ (\E t \in Tabs : call[t].at = "erase") => late = 0
    BY <1>1, <1>2
  <2> QED BY <2>1 DEF Footprint
<1>3. CASE kind = "loose"
  <2>1. /\ footprint' = [tied |-> a, loose |-> b + 1, late |-> c + late, lost |-> d]
        /\ (\E t \in Tabs : call[t].at = "erase") => late = 1
    BY <1>1, <1>3
  <2> QED BY <2>1 DEF Footprint
<1> QED BY <1>2, <1>3 DEF Kinds

LEMMA FootprintKeeps ==
  ASSUME AccountIInv, NEW t \in Tabs, (\E kind \in Kinds : WriteRow(t, kind)) \/ CountFootprint(t)
  PROVE  AccountIInv'
<1>1. CASE CountFootprint(t)
  <2>1. PICK r \in Plain : Step(t, r)
    <3>1. (footprint.tied + footprint.loose > 0) \in BOOLEAN
      OBVIOUS
    <3>2. /\ [at |-> "erase", hasFootprint |-> footprint.tied + footprint.loose > 0] \in Plain
          /\ NoCall \in Plain
      BY <3>1, Zenon DEF Plain
    <3> QED BY <1>1, <3>2, Zenon DEF CountFootprint, Return
  <2> QED BY <1>1, <2>1, OnlyTheCall DEF CountFootprint
<1>2. ASSUME NEW kind \in Kinds, WriteRow(t, kind) PROVE AccountIInv'
  <2>1. /\ Step(t, NoCall) /\ UNCHANGED <<account, codes, guessed>> /\ NoCall \in Plain
        /\ footprint \in Footprint
    BY <1>2 DEF WriteRow, Return, Plain, AccountIInv, AccountShape
  <2>2. /\ footprint' \in Footprint /\ (~account.exists => footprint' = footprint)
        /\ footprint'.lost = footprint.lost /\ footprint'.late >= footprint.late
    BY <1>2, <2>1, AddRowAdds DEF WriteRow, Footprint
  <2>3. Onward
    BY <2>1 DEF AccountIInv, AccountShape, Onward
  <2>4. NoCall \in TabCalls(Len(codes')) /\ Harmless(NoCall)'
    BY <2>1, PlainIsHarmless DEF Harmless
  <2>5. call' \in [Tabs -> TabCalls(Len(codes'))] /\ ErasedInv'
    BY <2>1, <2>3, <2>4, OthersStay DEF AccountIInv
  <2>6. ErasureHolds'
    BY <2>1, <2>2 DEF AccountIInv, ErasureHolds, Footprint
  <2> QED BY <2>1, <2>2, <2>5, <2>6 DEF AccountIInv, AccountShape, CountedInv
<1> QED BY <1>1, <1>2

LEMMA OthersWriteKeeps ==
  ASSUME AccountIInv, NEW kind \in Kinds, OthersWrite(kind) PROVE AccountIInv'
<1>1. /\ UNCHANGED <<account, codes, call, guessed>> /\ account.exists
      /\ footprint \in Footprint
  BY DEF OthersWrite, AccountIInv, AccountShape
<1>2. /\ footprint' \in Footprint /\ footprint'.lost = footprint.lost
      /\ footprint'.late >= footprint.late
  BY <1>1, AddRowAdds DEF OthersWrite
<1>3. ErasureHolds'
  BY <1>1, <1>2 DEF AccountIInv, ErasureHolds, Footprint
<1> QED BY <1>1, <1>2, <1>3 DEF AccountIInv, AccountShape, CountedInv, ErasedInv, Harmless

\* The deletion takes every code: whatever is in flight has nothing left to verify.
LEMMA EraseKeeps ==
  ASSUME AccountIInv, UnseenInv, NEW t \in Tabs, Erase(t) PROVE AccountIInv'
<1>1. /\ call[t].at = "erase" /\ Step(t, NoCall) /\ UNCHANGED guessed
      /\ NoCall \in Plain /\ account \in UserRow /\ footprint \in Footprint
  BY DEF Erase, Return, Plain, AccountIInv, AccountShape
<1>2. CASE UNCHANGED <<account, codes, footprint>>
  BY <1>1, <1>2, OnlyTheCall
<1>3. CASE /\ account.exists /\ (call[t].hasFootprint \/ footprint.tied = 0)
           /\ codes' = [k \in DOMAIN codes |-> [codes[k] EXCEPT !.gone = TRUE]]
           /\ account' = [Anonymized EXCEPT !.exists = call[t].hasFootprint]
           /\ footprint' = Let(~call[t].hasFootprint)
  <2>1. call[t].hasFootprint \in BOOLEAN
    BY <1>1, CodesTyped, CallCarries DEF AccountIInv
  <2>2. /\ account' \in UserRow /\ account'.phone = NoPhone
        /\ account'.exists = call[t].hasFootprint
    BY <1>1, <1>3, <2>1 DEF Anonymized, UserRow
  <2>3. ErasureHolds' /\ footprint' \in Footprint
    <3>1. CASE call[t].hasFootprint
      BY <1>1, <1>3, <2>2, <3>1 DEF ErasureHolds, Let, AccountIInv
    <3>2. CASE ~call[t].hasFootprint
      <4>1. footprint.tied = 0 /\ footprint.loose <= footprint.late
        BY <1>1, <1>3, <3>2 DEF UnseenInv, FoundNothing
      <4>2. footprint' = [footprint EXCEPT !.loose = 0, !.lost = footprint.loose]
        BY <1>3, <3>2 DEF Let
      <4> QED BY <1>1, <2>2, <4>1, <4>2 DEF ErasureHolds, Footprint
    <3> QED BY <3>1, <3>2
  <2>4. Rewritten /\ \A k \in DOMAIN codes : codes'[k].gone
    <3>1. \A k \in DOMAIN codes : codes[k] \in Otp
      BY CodesTyped DEF AccountIInv
    <3>2. \A k \in DOMAIN codes :
            /\ codes'[k] \in Otp /\ codes'[k].attempts = codes[k].attempts /\ codes'[k].gone
      BY <1>3, <3>1 DEF Otp
    <3>3. DOMAIN codes' = DOMAIN codes /\ codes' = [k \in DOMAIN codes |-> codes'[k]]
      BY <1>3
    <3> QED BY <3>2, <3>3, RewriteByCode
  <2>5. Onward /\ CountedInv'
    BY <1>1, <2>4, RewrittenIsOnward
  <2>6. /\ Len(codes') = Len(codes) /\ Len(codes) \in Nat /\ DOMAIN codes = 1 .. Len(codes)
        /\ call \in [Tabs -> TabCalls(Len(codes))] /\ codes' \in Seq(Otp)
    BY <2>4, CodesTyped DEF Rewritten, AccountIInv, AccountShape
  <2>7. call' \in [Tabs -> TabCalls(Len(codes'))]
    <3>1. NoCall \in TabCalls(Len(codes))
      BY DEF TabCalls
    <3> QED BY <1>1, <2>6, <3>1 DEF Step
  <2>8. ErasedInv'
    <3>1. ASSUME NEW s \in Tabs PROVE Harmless(call[s])'
      <4>1. /\ call'[s].at \in {"read", "count"} => call'[s].guess \in 0 .. Len(codes)
            /\ call'[s].at = "verify" => call'[s].code \in 1 .. Len(codes)
        BY <2>6, <2>7, CallCarries
      <4>2. \A k \in 0 .. Len(codes) : k = 0 \/ k \in 1 .. Len(codes)
        BY <2>6
      <4> QED BY <2>4, <2>6, <4>1, <4>2 DEF Harmless, Wrong
    <3> QED BY <3>1 DEF ErasedInv
  <2> QED BY <1>1, <2>2, <2>3, <2>5, <2>6, <2>7, <2>8 DEF AccountIInv, AccountShape
<1> QED BY <1>2, <1>3 DEF Erase

\* Time and the purge touch codes only, and no call.
LEMMA CodesAloneKeep ==
  ASSUME AccountIInv, Rewritten, UNCHANGED <<account, footprint, call, guessed>>
  PROVE  AccountIInv'
<1>1. Onward /\ CountedInv' /\ DOMAIN codes = 1 .. Len(codes) /\ Len(codes) \in Nat
  BY RewrittenIsOnward, CodesTyped DEF AccountIInv
<1>2. call' \in [Tabs -> TabCalls(Len(codes'))] /\ codes' \in Seq(Otp)
  BY DEF AccountIInv, AccountShape, Rewritten
<1>3. ASSUME NEW s \in Tabs, account'.deleted PROVE Harmless(call[s])'
  <2>1. Harmless(call[s]) /\ call'[s] = call[s] /\ call[s] \in TabCalls(Len(codes))
    BY <1>3, CodesTyped DEF AccountIInv, ErasedInv
  <2>2. /\ call[s].at \in {"read", "count"} => call[s].guess \in 0 .. Len(codes)
        /\ call[s].at = "verify" => call[s].code \in 1 .. Len(codes)
    BY <1>1, <2>1, CallCarries
  <2>3. \A k \in 0 .. Len(codes) : k = 0 \/ k \in 1 .. Len(codes)
    BY <1>1
  <2> QED BY <1>1, <2>1, <2>2, <2>3 DEF Harmless, Onward, Wrong
<1> QED BY <1>1, <1>2, <1>3 DEF AccountIInv, AccountShape, ErasedInv, ErasureHolds

LEMMA TimeKeeps ==
  ASSUME AccountIInv, PurgeDeadOtps \/ \E k \in DOMAIN codes : CodeAges(k) PROVE AccountIInv'
<1>1. CASE PurgeDeadOtps
  BY <1>1, PurgeRewrites, CodesAloneKeep DEF PurgeDeadOtps
<1>2. ASSUME NEW k \in DOMAIN codes, CodeAges(k) PROVE AccountIInv'
  <2> DEFINE c == [codes[k] EXCEPT !.age = Ages[codes[k].age]]
  <2>1. codes[k] \in Otp /\ codes[k].age \in {"new", "cooled"}
    BY <1>2, CodesTyped DEF CodeAges, Ages, AccountIInv
  <2>2. Ages[codes[k].age] \in {"cooled", "expired"}
    BY <2>1 DEF Ages
  <2>3. codes' = [codes EXCEPT ![k] = c]
    BY <1>2, <2>1, CodesTyped DEF CodeAges, AccountIInv
  <2>4. c \in Otp /\ c.attempts = codes[k].attempts /\ c.gone = codes[k].gone
    BY <2>1, <2>2 DEF Otp
  <2> HIDE DEF c
  <2>5. Rewritten
    BY <1>2, <2>3, <2>4, OneCodeKeeps
  <2> QED BY <1>2, <2>5, CodesAloneKeep DEF CodeAges
<1> QED BY <1>1, <1>2

LEMMA AccountInit ==
  ASSUME AccountsInit PROVE AccountIInv
<1>1. account \in UserRow /\ codes \in Seq(Otp) /\ footprint \in Footprint /\ Len(codes) = 0
      /\ DOMAIN codes = {} /\ footprint.lost <= footprint.late
  BY DEF AccountsInit, UserRow, NoPhone, Footprint
<1>2. call \in [Tabs -> TabCalls(Len(codes))] /\ guessed \in [1 .. MaxCodes -> Nat]
  BY DEF AccountsInit, TabCalls
<1>3. CountedInv
  BY <1>1, AccountsAssumption DEF AccountsInit, CountedInv
<1> QED BY <1>1, <1>2, <1>3 DEF AccountIInv, AccountShape, ErasedInv, ErasureHolds, AccountsInit

LEMMA AccountStep ==
  ASSUME AccountIInv, UnseenInv, [AccountsNext]_accountVars PROVE AccountIInv'
<1>1. CASE AccountsNext
  <2>1. ASSUME NEW t \in Tabs, ReloadForm(t) PROVE AccountIInv'
    BY <2>1 DEF ReloadForm, AccountIInv, AccountShape, CountedInv, ErasedInv, Harmless, ErasureHolds
  <2>2. ASSUME NEW t \in Tabs, \E g \in {Wrong} \cup {k \in DOMAIN codes : codes[k].delivered} : ConfirmCode(t, g)
        PROVE  AccountIInv'
    BY <2>2, ReadCodeKeeps DEF Wrong
  <2>3. ASSUME NEW t \in Tabs,
               \/ \E p \in Phones : SendCode(t, p)
               \/ CheckCooldown(t) \/ CreateCode(t) \/ SmsSent(t) \/ SmsFails(t)
               \/ ReadCode(t) \/ Compare(t) \/ Consume(t) \/ MarkVerified(t)
               \/ \E op \in {"write", "delete"} : StartOther(t, op)
               \/ (\E kind \in Kinds : WriteRow(t, kind)) \/ CountFootprint(t) \/ Erase(t)
        PROVE  AccountIInv'
    BY <2>3, BeginKeeps, CheckCooldownKeeps, CreateCodeKeeps, SmsKeeps, ReadCodeKeeps, CompareKeeps,
       ConsumeKeeps, MarkVerifiedKeeps, FootprintKeeps, EraseKeeps
  <2> QED BY <1>1, <2>1, <2>2, <2>3, TimeKeeps, OthersWriteKeeps DEF AccountsNext
<1>2. CASE UNCHANGED accountVars
  BY <1>2 DEF accountVars, AccountIInv, AccountShape, CountedInv, ErasedInv, Harmless, ErasureHolds
<1> QED BY <1>1, <1>2

\* A call that goes on to anything but a deletion that found nothing, or a tab's own, adds
\* no such deletion; the rows stay as they are.
LEMMA StillUnseen ==
  ASSUME AccountShape, UnseenInv, NEW t \in Tabs, NEW r, Step(t, r), ~FoundNothing(r),
         UNCHANGED footprint
  PROVE  UnseenInv'
<1>1. call' = [call EXCEPT ![t] = r] /\ DOMAIN call = Tabs
  BY DEF Step, AccountShape
<1>2. \A s \in Tabs : FoundNothing(call'[s]) => FoundNothing(call[s])
  BY <1>1
<1> QED BY <1>2 DEF UnseenInv, FoundNothing

LEMMA UnseenStep ==
  ASSUME AccountShape, UnseenInv, [AccountsNext]_accountVars PROVE UnseenInv'
<1> footprint \in Footprint
  BY DEF AccountShape
<1>1. ASSUME UNCHANGED <<footprint, call>> PROVE UnseenInv'
  BY <1>1 DEF UnseenInv, FoundNothing
<1>2. ASSUME NEW kind \in Kinds, OthersWrite(kind) PROVE UnseenInv'
  <2>1. UNCHANGED call /\ AddRow(kind)
    BY <1>2 DEF OthersWrite
  <2> SUFFICES ASSUME NEW s \in Tabs, FoundNothing(call[s]) PROVE footprint'.loose <= footprint'.late
    BY <2>1 DEF UnseenInv, FoundNothing
  <2>2. call[s].at = "erase" /\ footprint.loose <= footprint.late
    BY DEF UnseenInv, FoundNothing
  <2> QED BY <2>1, <2>2, AddRowAdds DEF Footprint
<1>3. ASSUME NEW t \in Tabs, NEW kind \in Kinds, WriteRow(t, kind) PROVE UnseenInv'
  <2>1. /\ call' = [call EXCEPT ![t] = NoCall] /\ DOMAIN call = Tabs
        /\ AddRow(kind) \/ UNCHANGED footprint
    BY <1>3 DEF WriteRow, Return, Step, AccountShape
  <2>2. ~FoundNothing(NoCall)
    BY DEF FoundNothing, NoCall
  <2>3. \A s \in Tabs : FoundNothing(call'[s]) => FoundNothing(call[s])
    BY <2>1, <2>2
  <2> SUFFICES ASSUME NEW s \in Tabs, FoundNothing(call[s]) PROVE footprint'.loose <= footprint'.late
    BY <2>3 DEF UnseenInv, FoundNothing
  <2>4. call[s].at = "erase" /\ footprint.loose <= footprint.late
    BY DEF UnseenInv, FoundNothing
  <2> QED BY <2>1, <2>4, AddRowAdds DEF Footprint
<1>4. ASSUME NEW t \in Tabs, CountFootprint(t) PROVE UnseenInv'
  <2>1. /\ UNCHANGED footprint /\ DOMAIN call = Tabs
        /\ \/ call' = [call EXCEPT ![t] = NoCall]
           \/ call' = [call EXCEPT ![t] = [at |-> "erase",
                                          hasFootprint |-> footprint.tied + footprint.loose > 0]]
    BY <1>4 DEF CountFootprint, Return, Step, AccountShape
  <2> SUFFICES ASSUME NEW s \in Tabs, FoundNothing(call'[s]) PROVE footprint.loose <= footprint.late
    BY <2>1 DEF UnseenInv, FoundNothing
  <2>2. CASE s = t
    <3>1. call'[t] # NoCall
      BY <2>2 DEF FoundNothing, NoCall
    <3>2. call'[t] = [at |-> "erase", hasFootprint |-> footprint.tied + footprint.loose > 0]
      BY <2>1, <3>1
    <3>3. ~(footprint.tied + footprint.loose > 0)
      <4>1. ~call'[t].hasFootprint
        BY <2>2 DEF FoundNothing
      <4> DEFINE some == footprint.tied + footprint.loose > 0
      <4>2. call'[t] = [at |-> "erase", hasFootprint |-> some] /\ some \in BOOLEAN
        BY <3>2
      <4> HIDE DEF some
      <4>3. ~some
        BY <4>1, <4>2
      <4> QED BY <4>3 DEF some
    <3> QED BY <3>3 DEF Footprint
  <2>3. CASE s # t
    BY <2>1, <2>3 DEF UnseenInv, FoundNothing
  <2> QED BY <2>2, <2>3
<1>5. ASSUME NEW t \in Tabs, Erase(t) PROVE UnseenInv'
  <2>1. /\ call' = [call EXCEPT ![t] = NoCall] /\ DOMAIN call = Tabs
        /\ footprint'.late = footprint.late
        /\ footprint'.loose = footprint.loose \/ footprint'.loose = 0
    BY <1>5 DEF Erase, Let, Return, Step, AccountShape, Footprint
  <2>2. \A s \in Tabs : FoundNothing(call'[s]) => FoundNothing(call[s])
    BY <2>1 DEF FoundNothing, NoCall
  <2> QED BY <2>1, <2>2 DEF UnseenInv, FoundNothing, Footprint
<1>6. ASSUME NEW t \in Tabs,
             \/ \E p \in Phones : SendCode(t, p)
             \/ CheckCooldown(t) \/ CreateCode(t) \/ SmsSent(t) \/ SmsFails(t)
             \/ \E g \in {Wrong} \cup {k \in DOMAIN codes : codes[k].delivered} : ConfirmCode(t, g)
             \/ ReadCode(t) \/ Compare(t) \/ Consume(t) \/ MarkVerified(t)
             \/ \E op \in {"write", "delete"} : StartOther(t, op)
      PROVE  UnseenInv'
  <2>1. UNCHANGED footprint
    BY <1>6 DEF SendCode, CheckCooldown, CreateCode, SmsSent, SmsFails, ConfirmCode, ReadCode, Compare,
                Consume, MarkVerified, StartOther
  <2>2. \E r : Step(t, r) /\ r.at # "erase"
    <3>1. NoCall.at # "erase"
      BY DEF NoCall
    <3>2. CASE CheckCooldown(t)
      <4>1. call[t] \in TabCalls(Len(codes)) /\ call[t].at = "cooldown"
        BY <3>2, CodesTyped DEF CheckCooldown
      <4>2. [call[t] EXCEPT !.at = "create"].at = "create"
        BY <4>1, CodesTyped, CallCarries
      <4> QED BY <3>1, <3>2, <4>2 DEF CheckCooldown, Return
    <3>3. CASE Compare(t)
      <4>1. CASE Return(t)
        BY <3>1, <4>1 DEF Return
      <4>2. ASSUME NEW n, CountAndCompare(t, n) PROVE \E r : Step(t, r) /\ r.at # "erase"
        <5> PICK p \in {"consume", "verify", "idle"} :
              IF p = "idle" THEN Return(t) ELSE Step(t, [at |-> p, code |-> call[t].code])
          BY <4>2 DEF CountAndCompare
        <5> QED BY <4>1
      <4> QED BY <3>3, <4>1, <4>2 DEF Compare
    <3>4. CASE ReadCode(t)
      BY <3>1, <3>4 DEF ReadCode, Return
    <3>5. CASE CreateCode(t)
      BY <3>1, <3>5 DEF CreateCode, Return
    <3>6. CASE SmsSent(t) \/ SmsFails(t) \/ Consume(t) \/ MarkVerified(t)
      BY <3>1, <3>6 DEF SmsSent, SmsFails, Consume, MarkVerified, Return
    <3>7. CASE \/ \E p \in Phones : SendCode(t, p)
               \/ \E g \in {Wrong} \cup {k \in DOMAIN codes : codes[k].delivered} : ConfirmCode(t, g)
               \/ \E op \in {"write", "delete"} : StartOther(t, op)
      <4>1. ASSUME NEW op \in {"write", "delete"}, Step(t, [at |-> op])
            PROVE  \E r : Step(t, r) /\ r.at # "erase"
        <5>1. [at |-> op].at = op /\ op # "erase"
          OBVIOUS
        <5> QED BY <4>1, <5>1
      <4>2. ASSUME NEW p, Step(t, [at |-> "cooldown", phone |-> p]) \/ Step(t, [at |-> "read", guess |-> p])
            PROVE  \E r : Step(t, r) /\ r.at # "erase"
        <5>1. [at |-> "cooldown", phone |-> p].at # "erase" /\ [at |-> "read", guess |-> p].at # "erase"
          OBVIOUS
        <5> QED BY <4>2, <5>1
      <4> QED BY <3>7, <4>1, <4>2 DEF SendCode, ConfirmCode, StartOther
    <3> QED BY <1>6, <3>2, <3>3, <3>4, <3>5, <3>6, <3>7
  <2> QED BY <2>1, <2>2, StillUnseen DEF FoundNothing
<1>7. ASSUME \/ PurgeDeadOtps \/ \E k \in DOMAIN codes : CodeAges(k)
             \/ \E t \in Tabs : ReloadForm(t)
             \/ UNCHANGED accountVars
      PROVE  UNCHANGED <<footprint, call>>
  BY <1>7 DEF PurgeDeadOtps, CodeAges, ReloadForm, accountVars
<1> QED BY <1>1, <1>2, <1>3, <1>4, <1>5, <1>6, <1>7 DEF AccountsNext

\* However many tabs ask for codes, guess at them and delete the account: no code is compared
\* with more guesses than the limit, no phone is written to a deleted account, no row that a
\* tied row refers to is erased, and a report loses its person only when it was written between
\* a deletion's count and its delete (lib/otp/otp.ts, lib/account/delete.ts).
THEOREM AccountIsSafe == AccountsSpec => []AccountInv
<1>1. AccountIInv => AccountInv
  BY DEF AccountIInv, CountedInv, AccountInv, GuessesAreLimited
<1>2. AccountIInv => AccountShape
  BY DEF AccountIInv
<1>3. AccountsInit => UnseenInv
  BY DEF AccountsInit, UnseenInv
<1> QED BY <1>1, <1>2, <1>3, AccountInit, AccountStep, UnseenStep, PTL DEF AccountsSpec

-----------------------------------------------------------------------------
(* Tools                                                                    *)

Villa == [published : BOOLEAN, mode : {"REQUEST", "INSTANT"}, price : {1, 2}]
Running == [at : {"listing", "calendar", "bookings"}, tool : {"availability", "draft"}, ask : Asks,
            read : Villa, clean : BOOLEAN]
Submitting == [at : {"submit"}, mode : {"REQUEST", "INSTANT"}, clean : BOOLEAN]

ToolsShape ==
  /\ villaRow \in Villa /\ blocked \subseteq BlockDays
  /\ taken \subseteq OtherStays
  /\ run \in {NoRun} \cup Running \cup Submitting

\* What check_availability and the draft have to say of a stay as things are now.
Conflicts(ask) == \E b \in blocked : BlockConflicts(b, ask)
Booked(ask) == \E s \in taken : BookingConflicts(s, ask)
Fits(ask) == villaRow.published /\ ask.guests <= Capacity
Denial(tool, ask, why) == [tool |-> tool, ask |-> ask, free |-> FALSE, why |-> why]
Offer(tool, ask, total) == [tool |-> tool, ask |-> ask, free |-> TRUE, total |-> total]
Verdict(tool, ask) ==
  CASE ~Fits(ask) -> Denial(tool, ask, IF villaRow.published THEN "capacity" ELSE "unknown")
    [] Fits(ask) /\ Conflicts(ask) -> Denial(tool, ask, "blocked")
    [] Fits(ask) /\ ~Conflicts(ask) /\ Booked(ask) -> Denial(tool, ask, "booked")
    [] OTHER -> Offer(tool, ask, Quote(villaRow, ask))

\* An answer that is still so.
StillSo(a) ==
  \/ a = Nobody
  \/ a.tool = "search" /\ a.ask \in Asks /\ (a.listed => SearchListings(a.ask))
  \/ a.tool = "details" /\ a.known = villaRow.published /\ (a.known => a.price = villaRow.price)
  \/ a.tool = "nearby" /\ a.known = villaRow.published
  \/ a.tool = "saved" /\ (a.listed => villaRow.published)
  \/ a.tool \in {"availability", "draft"} /\ a.ask \in Asks /\ a = Verdict(a.tool, a.ask)
AnswersInv == StillSo(answers.last) /\ StillSo(answers.before)

\* A tool that saw no change has read the rows as they are.
RunInv ==
  run.at \in {"listing", "calendar", "bookings"} /\ run.clean =>
    /\ run.read = villaRow
    /\ run.at \in {"calendar", "bookings"} => Fits(run.ask) /\ ~Conflicts(run.ask)
    /\ run.at = "bookings" => ~Booked(run.ask)

ToolsIInv == ToolsShape /\ AnswersInv /\ RunInv /\ BookedAsDrafted

-----------------------------------------------------------------------------
LEMMA VerdictStays ==
  ASSUME UNCHANGED <<villaRow, blocked, taken>>, NEW tool, NEW ask
  PROVE  /\ Verdict(tool, ask)' = Verdict(tool, ask) /\ SearchListings(ask)' = SearchListings(ask)
         /\ Fits(ask)' = Fits(ask) /\ Conflicts(ask)' = Conflicts(ask) /\ Booked(ask)' = Booked(ask)
<1>1. Fits(ask)' = Fits(ask) /\ Conflicts(ask)' = Conflicts(ask) /\ Booked(ask)' = Booked(ask)
  BY DEF Fits, Conflicts, Booked
<1>2. SearchListings(ask)' = SearchListings(ask)
  BY DEF SearchListings
<1> QED BY <1>1, <1>2 DEF Verdict, Quote

LEMMA StillSoStays ==
  ASSUME NEW a, StillSo(a), UNCHANGED <<villaRow, blocked, taken>> PROVE StillSo(a)'
<1>1. Verdict(a.tool, a.ask)' = Verdict(a.tool, a.ask) /\ SearchListings(a.ask)' = SearchListings(a.ask)
  BY VerdictStays
<1> QED BY <1>1 DEF StillSo

LEMMA RunStays ==
  ASSUME RunInv, UNCHANGED <<villaRow, blocked, taken, run>> PROVE RunInv'
<1>1. /\ Fits(run.ask)' = Fits(run.ask) /\ Conflicts(run.ask)' = Conflicts(run.ask)
      /\ Booked(run.ask)' = Booked(run.ask)
  BY DEF Fits, Conflicts, Booked
<1> QED BY <1>1 DEF RunInv

\* An answer that is so joins the one before it, or nothing is said.
LEMMA AnswerKeeps ==
  ASSUME AnswersInv, UNCHANGED <<villaRow, blocked, taken>>,
         UNCHANGED answers \/ \E what : Say(what) /\ StillSo(what)
  PROVE  AnswersInv'
<1>1. PICK a : a = answers.last
  OBVIOUS
<1>2. PICK b : b = answers.before
  OBVIOUS
<1>3. StillSo(a)' /\ StillSo(b)'
  BY <1>1, <1>2, StillSoStays DEF AnswersInv
<1>4. CASE UNCHANGED answers
  BY <1>1, <1>2, <1>3, <1>4 DEF AnswersInv
<1>5. ASSUME NEW what, Say(what), StillSo(what) PROVE AnswersInv'
  <2>1. StillSo(what)' /\ answers'.last = what /\ answers'.before = a
    BY <1>1, <1>5, StillSoStays DEF Say
  <2> QED BY <1>3, <2>1 DEF AnswersInv
<1> QED BY <1>4, <1>5

\* Whatever changes the villa, a block or a booking, what was said and read is of before.
LEMMA ChangedKeeps ==
  ASSUME ToolsIInv, Changed, villaRow' \in Villa, blocked' \subseteq BlockDays, taken' \subseteq OtherStays
  PROVE  ToolsIInv'
<1>1. run' \in {NoRun} \cup Running \cup Submitting /\ (run'.at # "none" => ~run'.clean)
  <2>1. run \in {NoRun} \cup Running \cup Submitting
    BY DEF ToolsIInv, ToolsShape
  <2>2. CASE run.at = "none"
    BY <2>1, <2>2 DEF Changed
  <2>3. CASE run.at # "none"
    <3>1. run' = [run EXCEPT !.clean = FALSE] /\ run \in Running \cup Submitting
      BY <2>1, <2>3 DEF Changed, NoRun
    <3> QED BY <3>1 DEF Running, Submitting
  <2> QED BY <2>2, <2>3
<1>2. AnswersInv'
  BY DEF Changed, Unsaid, AnswersInv, StillSo
<1>3. RunInv'
  BY <1>1 DEF RunInv
<1> QED BY <1>1, <1>2, <1>3 DEF ToolsIInv, ToolsShape, BookedAsDrafted, Changed

LEMMA OthersKeep ==
  ASSUME ToolsIInv, HostEdits \/ HostBlocks \/ OthersBook PROVE ToolsIInv'
<1>1. villaRow \in Villa /\ blocked \subseteq BlockDays /\ taken \subseteq OtherStays
  BY DEF ToolsIInv, ToolsShape
<1>2. CASE HostEdits
  <2>1. CASE villaRow' = [villaRow EXCEPT !.published = ~@]
    BY <1>1, <1>2, <2>1, ChangedKeeps DEF HostEdits, Villa
  <2>2. CASE villaRow' = [villaRow EXCEPT !.price = 3 - @]
    <3>1. 3 - villaRow.price \in {1, 2}
      BY <1>1 DEF Villa
    <3>2. villaRow' \in Villa
      BY <1>1, <2>2, <3>1 DEF Villa
    <3> QED BY <1>1, <1>2, <3>2, ChangedKeeps DEF HostEdits
  <2>3. CASE villaRow' = [villaRow EXCEPT !.mode = IF @ = "INSTANT" THEN "REQUEST" ELSE "INSTANT"]
    BY <1>1, <1>2, <2>3, ChangedKeeps DEF HostEdits, Villa
  <2> QED BY <1>2, <2>1, <2>2, <2>3 DEF HostEdits
<1>3. CASE HostBlocks
  BY <1>1, <1>3, ChangedKeeps DEF HostBlocks
<1>4. CASE OthersBook
  <2>1. taken' \subseteq OtherStays /\ UNCHANGED <<villaRow, blocked>> /\ Changed
    BY <1>1, <1>4 DEF OthersBook
  <2> QED BY <1>1, <2>1, ChangedKeeps
<1> QED BY <1>2, <1>3, <1>4

\* A step that keeps the villa and its calendar, and no tool is left running by it.
LEMMA QuietKeeps ==
  ASSUME ToolsIInv, UNCHANGED <<villaRow, blocked, taken>>,
         run' = run \/ run' = NoRun \/ run' \in Submitting,
         \/ UNCHANGED answers \/ answers' = Unsaid
         \/ \E what : Say(what) /\ StillSo(what),
         UNCHANGED made
  PROVE  ToolsIInv'
<1>1. AnswersInv'
  <2>1. CASE answers' = Unsaid
    BY <2>1 DEF Unsaid, AnswersInv, StillSo
  <2> QED BY <2>1, AnswerKeeps DEF ToolsIInv
<1>2. RunInv'
  <2>1. CASE run' = run
    BY <2>1, RunStays DEF ToolsIInv
  <2>2. CASE run' = NoRun \/ run' \in Submitting
    BY <2>2 DEF RunInv, NoRun, Submitting
  <2> QED BY <2>1, <2>2
<1> QED BY <1>1, <1>2 DEF ToolsIInv, ToolsShape, BookedAsDrafted

LEMMA OneQueryKeeps ==
  ASSUME ToolsIInv,
         \/ \E ask \in Asks, narrow \in BOOLEAN : SearchTool(ask, narrow) \/ SearchPage(ask, narrow)
         \/ GetListingDetails \/ GetNearbyAttractions \/ GetSavedListings
  PROVE  ToolsIInv'
<1>1. UNCHANGED <<villaRow, blocked, taken, run, made>>
  BY DEF SearchTool, SearchPage, GetListingDetails, GetNearbyAttractions, GetSavedListings
<1>2. villaRow.published \in BOOLEAN
  BY DEF ToolsIInv, ToolsShape, Villa
<1>3. \E what : Say(what) /\ StillSo(what)
  <2>1. ASSUME NEW ask \in Asks, NEW narrow \in BOOLEAN, SearchTool(ask, narrow)
        PROVE  \E what : Say(what) /\ StillSo(what)
    <3>1. StillSo([tool |-> "search", ask |-> ask, listed |-> SearchListings(ask) /\ narrow])
      BY DEF StillSo
    <3> QED BY <2>1, <3>1 DEF SearchTool, AtOnce
  <2>2. ASSUME NEW ask \in Asks, NEW narrow \in BOOLEAN, SearchPage(ask, narrow)
        PROVE  \E what : Say(what) /\ StillSo(what)
    <3>1. StillSo([tool |-> "search", ask |-> ask,
                   listed |-> SearchListings(ask) /\ (narrow => villaRow.mode = "INSTANT")])
      BY DEF StillSo
    <3> QED BY <2>2, <3>1 DEF SearchPage, AtOnce
  <2>3. CASE GetListingDetails
    <3>1. StillSo([tool |-> "details", known |-> villaRow.published,
                   price |-> IF villaRow.published THEN villaRow.price ELSE 0])
      BY DEF StillSo
    <3> QED BY <2>3, <3>1 DEF GetListingDetails, AtOnce
  <2>4. CASE GetNearbyAttractions
    <3>1. StillSo([tool |-> "nearby", known |-> villaRow.published])
      BY DEF StillSo
    <3> QED BY <2>4, <3>1 DEF GetNearbyAttractions, AtOnce
  <2>5. CASE GetSavedListings
    <3>1. StillSo([tool |-> "saved", listed |-> bookmarked /\ villaRow.published])
      BY DEF StillSo
    <3> QED BY <2>5, <3>1 DEF GetSavedListings, AtOnce
  <2> QED BY <2>1, <2>2, <2>3, <2>4, <2>5
<1> QED BY <1>1, <1>3, QuietKeeps

\* A tool ends with what is the verdict of now, if nothing changed under it.
LEMMA FinishKeeps ==
  ASSUME ToolsIInv, NEW what, Finish(what), run \in Running,
         UNCHANGED <<villaRow, blocked, taken, made>>,
         run.clean => what = Verdict(run.tool, run.ask)
  PROVE  ToolsIInv'
<1>1. run.tool \in {"availability", "draft"} /\ run.ask \in Asks
  BY DEF Running
<1>2. Verdict(run.tool, run.ask).tool = run.tool /\ Verdict(run.tool, run.ask).ask = run.ask
  BY DEF Verdict, Denial, Offer
<1>3. run.clean => StillSo(what)
  BY <1>1, <1>2 DEF StillSo
<1> QED BY <1>3, QuietKeeps DEF Finish

LEMMA ReadListingKeeps ==
  ASSUME ToolsIInv, NEW tool \in {"availability", "draft"}, NEW ask \in Asks, ReadListing(tool, ask)
  PROVE  ToolsIInv'
<1>1. /\ run' = [at |-> "listing", tool |-> tool, ask |-> ask, read |-> villaRow, clean |-> TRUE]
      /\ UNCHANGED <<villaRow, blocked, taken, answers, made>>
  BY DEF ReadListing
<1>2. run' \in Running /\ run'.at = "listing" /\ run'.read = villaRow
  BY <1>1 DEF Running, ToolsIInv, ToolsShape
<1>3. RunInv' /\ AnswersInv'
  BY <1>1, <1>2, AnswerKeeps DEF RunInv, ToolsIInv
<1> QED BY <1>1, <1>2, <1>3 DEF ToolsIInv, ToolsShape, BookedAsDrafted

\* A read that found nothing in the way goes on to the next.
LEMMA NextReadKeeps ==
  ASSUME ToolsIInv, run \in Running, NEW at \in {"calendar", "bookings"}, run' = [run EXCEPT !.at = at],
         UNCHANGED <<villaRow, blocked, taken, answers, made>>,
         run.clean => /\ Fits(run.ask) /\ ~Conflicts(run.ask)
                      /\ at = "bookings" => ~Booked(run.ask)
  PROVE  ToolsIInv'
<1>1. /\ run' \in Running /\ run'.at = at /\ run'.ask = run.ask /\ run'.read = run.read
      /\ run'.clean = run.clean
  BY DEF Running
<1>2. run.clean => run.read = villaRow
  BY DEF ToolsIInv, RunInv, Running
<1>3. RunInv'
  BY <1>1, <1>2 DEF RunInv, Fits, Conflicts, Booked
<1>4. AnswersInv'
  BY AnswerKeeps DEF ToolsIInv
<1> QED BY <1>1, <1>3, <1>4 DEF ToolsIInv, ToolsShape, BookedAsDrafted

LEMMA ReadsKeep ==
  ASSUME ToolsIInv, Refuses \/ ReadCalendar \/ ReadBookings PROVE ToolsIInv'
<1>1. run \in Running /\ UNCHANGED <<villaRow, blocked, taken, made>>
  BY DEF Refuses, ReadCalendar, ReadBookings, ToolsIInv, ToolsShape, NoRun, Submitting
<1>2. run.clean => /\ run.read = villaRow
                   /\ run.at \in {"calendar", "bookings"} => Fits(run.ask) /\ ~Conflicts(run.ask)
  BY <1>1 DEF ToolsIInv, RunInv, Running
<1>3. CASE Refuses
  <2> DEFINE what == No(IF run.read.published THEN "capacity" ELSE "unknown")
  <2>1. Finish(what) /\ ~(run.read.published /\ run.ask.guests <= Capacity)
    BY <1>3 DEF Refuses
  <2>2. run.clean => ~Fits(run.ask) /\ what = Denial(run.tool, run.ask, IF villaRow.published THEN "capacity" ELSE "unknown")
    BY <1>2, <2>1 DEF Fits, No, Denial
  <2>3. run.clean => what = Verdict(run.tool, run.ask)
    BY <2>2 DEF Verdict
  <2> HIDE DEF what
  <2> QED BY <1>1, <2>1, <2>3, FinishKeeps
<1>4. CASE ReadCalendar
  <2>1. run.clean => Fits(run.ask)
    BY <1>2, <1>4 DEF ReadCalendar, Fits
  <2>2. CASE Conflicts(run.ask)
    <3>1. Finish(No("blocked"))
      BY <1>4, <2>2 DEF ReadCalendar, Conflicts
    <3>2. run.clean => No("blocked") = Verdict(run.tool, run.ask)
      BY <2>1, <2>2 DEF Verdict, No, Denial
    <3> QED BY <1>1, <3>1, <3>2, FinishKeeps
  <2>3. CASE ~Conflicts(run.ask)
    <3>1. run' = [run EXCEPT !.at = "calendar"] /\ UNCHANGED answers
      BY <1>4, <2>3 DEF ReadCalendar, Conflicts
    <3> QED BY <1>1, <2>1, <2>3, <3>1, NextReadKeeps
  <2> QED BY <2>2, <2>3
<1>5. CASE ReadBookings
  <2>1. run.clean => Fits(run.ask) /\ ~Conflicts(run.ask)
    BY <1>2, <1>5 DEF ReadBookings
  <2>2. CASE Booked(run.ask)
    <3>1. Finish(No("booked"))
      BY <1>5, <2>2 DEF ReadBookings, Booked
    <3>2. run.clean => No("booked") = Verdict(run.tool, run.ask)
      BY <2>1, <2>2 DEF Verdict, No, Denial
    <3> QED BY <1>1, <3>1, <3>2, FinishKeeps
  <2>3. CASE ~Booked(run.ask)
    <3>1. run' = [run EXCEPT !.at = "bookings"] /\ UNCHANGED answers
      BY <1>5, <2>3 DEF ReadBookings, Booked
    <3> QED BY <1>1, <2>1, <2>3, <3>1, NextReadKeeps
  <2> QED BY <2>2, <2>3
<1> QED BY <1>3, <1>4, <1>5

LEMMA YesKeeps ==
  ASSUME ToolsIInv, CheckAvailability \/ CreateBookingDraft PROVE ToolsIInv'
<1>1. run \in Running /\ UNCHANGED <<villaRow, blocked, taken, made>> /\ run.at = "bookings" /\ Finish(Yes)
  BY DEF CheckAvailability, CreateBookingDraft, ToolsIInv, ToolsShape, NoRun, Submitting
<1>2. run.clean => run.read = villaRow /\ Fits(run.ask) /\ ~Conflicts(run.ask) /\ ~Booked(run.ask)
  BY <1>1 DEF ToolsIInv, RunInv, Running
<1>3. run.clean => Yes = Verdict(run.tool, run.ask)
  BY <1>2 DEF Verdict, Yes, Offer
<1> QED BY <1>1, <1>3, FinishKeeps

\* The booking has the total of the card, and an instant one a free calendar.
LEMMA SubmitKeeps ==
  ASSUME ToolsIInv, SubmitBookingRequest PROVE ToolsIInv'
<1>1. /\ run' = NoRun /\ UNCHANGED <<villaRow, blocked, taken, answers>>
  BY DEF SubmitBookingRequest
<1>2. BookedAsDrafted'
  <2> DEFINE over == \E s \in taken : BookingConflicts(s, proposal.ask)
  <2>1. CASE UNCHANGED made
    BY <2>1 DEF ToolsIInv, BookedAsDrafted
  <2>2. CASE /\ ~(run.mode = "INSTANT" /\ over)
             /\ made' = [at |-> run.mode, ask |-> proposal.ask, total |-> proposal.total,
                         shown |-> proposal.total, over |-> over]
    BY <2>2 DEF BookedAsDrafted
  <2> QED BY <2>1, <2>2 DEF SubmitBookingRequest
<1>3. RunInv' /\ AnswersInv'
  BY <1>1, AnswerKeeps DEF RunInv, NoRun, ToolsIInv
<1> QED BY <1>1, <1>2, <1>3 DEF ToolsIInv, ToolsShape

LEMMA DraftKeeps ==
  ASSUME ToolsIInv, Bookmark \/ ConfirmDraft \/ SubmitReads \/ DraftExpires PROVE ToolsIInv'
<1>1. UNCHANGED <<villaRow, blocked, taken, made>> /\ (answers' = answers \/ answers' = Unsaid)
  BY DEF Bookmark, ConfirmDraft, SubmitReads, DraftExpires
<1>2. villaRow.mode \in {"REQUEST", "INSTANT"}
  BY DEF ToolsIInv, ToolsShape, Villa
<1>3. run' = run \/ run' \in Submitting
  <2>1. CASE SubmitReads
    BY <1>2, <2>1 DEF SubmitReads, Submitting
  <2>2. CASE Bookmark \/ ConfirmDraft \/ DraftExpires
    BY <2>2 DEF Bookmark, ConfirmDraft, DraftExpires
  <2> QED BY <2>1, <2>2
<1> QED BY <1>1, <1>3, QuietKeeps

LEMMA ToolsInitKeeps ==
  ASSUME ToolsInit PROVE ToolsIInv
BY DEF ToolsInit, ToolsIInv, ToolsShape, Villa, AnswersInv, StillSo, Unsaid, RunInv, NoRun,
       BookedAsDrafted

LEMMA ToolsStep ==
  ASSUME ToolsIInv, [ToolsNext]_toolVars PROVE ToolsIInv'
<1>1. CASE ToolsNext
  BY <1>1, OthersKeep, OneQueryKeeps, ReadListingKeeps, ReadsKeep, YesKeeps, SubmitKeeps, DraftKeeps
     DEF ToolsNext
<1>2. CASE UNCHANGED toolVars
  BY <1>2, QuietKeeps DEF toolVars
<1> QED BY <1>1, <1>2

-----------------------------------------------------------------------------
\* Two answers of one world agree.
LEMMA SaidIsSo ==
  ASSUME ToolsIInv, NEW a, NEW b, a # b, Said2(a, b)
  PROVE  /\ Of(a).tool = a /\ StillSo(Of(a)) /\ Of(b).tool = b /\ StillSo(Of(b))
BY DEF ToolsIInv, AnswersInv, Said2, Of

LEMMA WhatIsSo ==
  ASSUME NEW x, StillSo(x)
  PROVE  /\ x.tool = "search" => x.ask \in Asks /\ (x.listed => SearchListings(x.ask))
         /\ x.tool = "details" => x.known = villaRow.published /\ (x.known => x.price = villaRow.price)
         /\ x.tool = "nearby" => x.known = villaRow.published
         /\ x.tool = "saved" /\ x.listed => villaRow.published
         /\ x.tool \in {"availability", "draft"} => x.ask \in Asks /\ x = Verdict(x.tool, x.ask)
BY DEF StillSo, Nobody

\* The two tools word the same answer alike.
LEMMA Reworded ==
  ASSUME NEW ask, NEW f, NEW x, NEW d, NEW e
  PROVE  /\ d = [tool |-> "draft", ask |-> ask, free |-> f, why |-> x]
            /\ e = [tool |-> "availability", ask |-> ask, free |-> f, why |-> x]
              => e = [d EXCEPT !.tool = "availability"]
         /\ d = [tool |-> "draft", ask |-> ask, free |-> f, total |-> x]
            /\ e = [tool |-> "availability", ask |-> ask, free |-> f, total |-> x]
              => e = [d EXCEPT !.tool = "availability"]
OBVIOUS

LEMMA Retold ==
  ASSUME NEW ask, NEW x
  PROVE  /\ Denial("availability", ask, x) = [Denial("draft", ask, x) EXCEPT !.tool = "availability"]
         /\ Offer("availability", ask, x) = [Offer("draft", ask, x) EXCEPT !.tool = "availability"]
<1>1. PICK no : /\ Denial("draft", ask, x) = [tool |-> "draft", ask |-> ask, free |-> no, why |-> x]
                /\ Denial("availability", ask, x) = [tool |-> "availability", ask |-> ask, free |-> no, why |-> x]
  BY DEF Denial
<1>2. PICK yes : /\ Offer("draft", ask, x) = [tool |-> "draft", ask |-> ask, free |-> yes, total |-> x]
                 /\ Offer("availability", ask, x) = [tool |-> "availability", ask |-> ask, free |-> yes, total |-> x]
  BY DEF Offer
<1>3. Denial("availability", ask, x) = [Denial("draft", ask, x) EXCEPT !.tool = "availability"]
  BY <1>1, Reworded
<1>4. Offer("availability", ask, x) = [Offer("draft", ask, x) EXCEPT !.tool = "availability"]
  BY <1>2, Reworded
<1> QED BY <1>3, <1>4

LEMMA AnswersAgree ==
  ASSUME ToolsIInv PROVE ToolsAgree
<1>1. DraftFollowsAvailability
  <2> SUFFICES ASSUME Said2("availability", "draft"), Of("availability").ask = Of("draft").ask
               PROVE  Of("availability") = [Of("draft") EXCEPT !.tool = "availability"]
    BY DEF DraftFollowsAvailability
  <2>1. PICK ask : ask = Of("draft").ask
    OBVIOUS
  <2>2. Of("availability") = Verdict("availability", ask) /\ Of("draft") = Verdict("draft", ask)
    <3>1. /\ Of("availability").tool = "availability" /\ StillSo(Of("availability"))
          /\ Of("draft").tool = "draft" /\ StillSo(Of("draft"))
      BY SaidIsSo
    <3> QED BY <2>1, <3>1, WhatIsSo
  <2>3. Verdict("availability", ask) = [Verdict("draft", ask) EXCEPT !.tool = "availability"]
    <3>1. \/ \E why : Verdict("draft", ask) = Denial("draft", ask, why)
                        /\ Verdict("availability", ask) = Denial("availability", ask, why)
          \/ \E q : Verdict("draft", ask) = Offer("draft", ask, q)
                      /\ Verdict("availability", ask) = Offer("availability", ask, q)
      <4>1. CASE ~Fits(ask)
        BY <4>1 DEF Verdict
      <4>2. CASE Fits(ask) /\ Conflicts(ask)
        BY <4>2 DEF Verdict
      <4>3. CASE Fits(ask) /\ ~Conflicts(ask) /\ Booked(ask)
        BY <4>3 DEF Verdict
      <4>4. CASE Fits(ask) /\ ~Conflicts(ask) /\ ~Booked(ask)
        BY <4>4 DEF Verdict
      <4> QED BY <4>1, <4>2, <4>3, <4>4
    <3> QED BY <3>1, Retold
  <2> QED BY <2>2, <2>3
<1>2. \A b \in blocked, ask \in Asks : b \in Nat \X Nat /\ ask.in \in Nat /\ ask.out \in Nat
  BY ToolsAssumption DEF ToolsIInv, ToolsShape
<1>3. SearchFollowsAvailability
  <2> SUFFICES ASSUME Said2("search", "availability"), Of("search").ask = Of("availability").ask,
                      Of("search").listed, ~Of("availability").free
               PROVE  Of("availability").why = "booked"
    BY DEF SearchFollowsAvailability
  <2>1. PICK ask : ask = Of("search").ask
    OBVIOUS
  <2>2. ask \in Asks /\ SearchListings(ask) /\ Of("availability") = Verdict("availability", ask)
    <3>1. /\ Of("search").tool = "search" /\ StillSo(Of("search"))
          /\ Of("availability").tool = "availability" /\ StillSo(Of("availability"))
      BY SaidIsSo
    <3> QED BY <2>1, <3>1, WhatIsSo
  <2>3. Fits(ask) /\ ~Conflicts(ask)
    <3>1. ask.guests \in Nat /\ Capacity \in Nat
      BY <2>2, ToolsAssumption
    <3>2. Fits(ask)
      BY <2>2, <3>1 DEF SearchListings, Fits
    <3>3. ASSUME NEW b \in blocked PROVE ~BlockConflicts(b, ask)
      <4>1. b[1] \in Nat /\ b[2] \in Nat /\ ask.in \in Nat /\ ask.out \in Nat
        BY <1>2, <2>2
      <4>2. ~(b[1] <= ask.out /\ b[2] >= ask.in)
        BY <2>2 DEF SearchListings, BlockHides
      <4> QED BY <4>1, <4>2 DEF BlockConflicts
    <3> QED BY <3>2, <3>3 DEF Conflicts
  <2>4. CASE Booked(ask)
    BY <2>2, <2>3, <2>4 DEF Verdict, Denial, Offer
  <2>5. CASE ~Booked(ask)
    <3>1. Of("availability").free
      BY <2>2, <2>3, <2>5 DEF Verdict, Offer
    <3> QED BY <3>1
  <2> QED BY <2>4, <2>5
<1>4. SearchHidesBlockedNights
  <2> SUFFICES ASSUME NEW a \in {answers.last, answers.before}, a.tool = "search", a.listed,
                      NEW b \in blocked
               PROVE  ~(b[1] < a.ask.out /\ b[2] >= a.ask.in)
    BY DEF SearchHidesBlockedNights
  <2>1. a.ask \in Asks /\ SearchListings(a.ask)
    BY DEF ToolsIInv, AnswersInv, StillSo, Nobody
  <2>2. b[1] \in Nat /\ b[2] \in Nat /\ a.ask.in \in Nat /\ a.ask.out \in Nat
    BY <1>2, <2>1
  <2>3. ~(b[1] <= a.ask.out /\ b[2] >= a.ask.in)
    BY <2>1 DEF SearchListings, BlockHides
  <2> QED BY <2>2, <2>3
<1>5. OneVilla
  <2>1. ASSUME NEW b \in {"nearby", "saved", "availability"}, Said2("details", b)
        PROVE  /\ Of(b).tool = b /\ StillSo(Of(b)) /\ Of("details").known = villaRow.published
               /\ Of("details").known => Of("details").price = villaRow.price
    <3>1. Of("details").tool = "details" /\ StillSo(Of("details")) /\ Of(b).tool = b /\ StillSo(Of(b))
      BY <2>1, SaidIsSo
    <3> QED BY <3>1, WhatIsSo
  <2>2. Said2("details", "nearby") => Of("details").known = Of("nearby").known
    BY <2>1, WhatIsSo
  <2>3. Said2("details", "saved") /\ Of("saved").listed => Of("details").known
    BY <2>1, WhatIsSo
  <2>4. ASSUME Said2("details", "availability"), Of("availability").free
        PROVE  Of("details").price = Of("availability").total[1]
    <3>1. PICK ask : ask = Of("availability").ask
      OBVIOUS
    <3>2. Of("availability") = Verdict("availability", ask)
      BY <2>1, <2>4, <3>1, WhatIsSo
    <3>3. Fits(ask) /\ Of("availability").total = Quote(villaRow, ask)
      BY <2>4, <3>2 DEF Verdict, Denial, Offer
    <3>4. villaRow.published /\ Of("availability").total[1] = villaRow.price
      BY <3>3 DEF Quote, Fits
    <3>5. Of("details").known = villaRow.published
          /\ (Of("details").known => Of("details").price = villaRow.price)
      BY <2>1, <2>4
    <3> QED BY <3>4, <3>5
  <2> QED BY <2>2, <2>3, <2>4 DEF OneVilla
<1> QED BY <1>1, <1>3, <1>4, <1>5 DEF ToolsAgree, ToolsIInv

\* Search, availability, details and drafts are three queries and agree on any villa, calendar and
\* stays; a booking has the price of the card it was confirmed on (concierge/tools.ts, booking.ts).
THEOREM ToolsSpeakAsOne == ToolsSpec => []ToolsAgree
<1>1. ToolsIInv => ToolsAgree
  BY AnswersAgree
<1> QED BY <1>1, ToolsInitKeeps, ToolsStep, PTL DEF ToolsSpec

-----------------------------------------------------------------------------
(* Saved                                                                     *)

Heart == [saved : BOOLEAN, pending : BOOLEAN]
PageCall == [villa : Villas, saving : BOOLEAN, from : {"heart", "undo"}]

\* Hearts only unsave, an undo only saves; of one villa at most an undo and then a tap wait.
QueueOK(q) ==
  /\ q \in Seq(PageCall)
  /\ \A j \in DOMAIN q : q[j].saving <=> q[j].from = "undo"
  /\ \A j, k \in DOMAIN q : j < k /\ q[j].villa = q[k].villa => q[j].from = "undo" /\ q[k].from = "heart"

Waits(q, v, from) == \E j \in DOMAIN q : q[j].villa = v /\ q[j].from = from

\* A villa is in the grid as its row is, or an undo of it that is not answered put it there.
VillaInv(v) ==
  /\ heart[v].pending <=> Waits(outgoing, v, "heart")
  /\ Waits(outgoing, v, "undo") => v \in ToSet(items) /\ v \notin savedRows
  /\ ~ Waits(outgoing, v, "undo") => (v \in ToSet(items) <=> v \in savedRows)
  /\ v \in ToSet(items) /\ ~ heart[v].pending => heart[v] = FullHeart
  /\ undo = v => v \notin ToSet(items) /\ \A from : ~ Waits(outgoing, v, from)

SavedIInv ==
  /\ savedRows \subseteq Villas /\ heart \in [Villas -> Heart] /\ undo \in Villas \cup {NoUndo}
  /\ items \in Seq(Villas) /\ IsInjective(items)
  /\ QueueOK(outgoing)
  /\ \A v \in Villas : VillaInv(v)

-----------------------------------------------------------------------------
\* The grid without a villa is the rest of it, each still once.
LEMMA WithoutOne ==
  ASSUME items \in Seq(Villas), IsInjective(items), NEW v
  PROVE  /\ Without(v) \in Seq(Villas) /\ IsInjective(Without(v))
         /\ ToSet(Without(v)) = ToSet(items) \ {v}
<1> DEFINE len == Len(items)
           Sift(kept, n) == IF n = 0 THEN <<>>
                            ELSE IF items[n] = v THEN kept[n - 1] ELSE Append(kept[n - 1], items[n])
           Keeps(m, kept) == kept = [n \in 0 .. m |-> Sift(kept, n)]
           T == {m \in Nat : m <= len /\ ~ \E kept : Keeps(m, kept)}
<1>1. len \in Nat /\ DOMAIN items = 1 .. len /\ \A n \in 1 .. len : items[n] \in Villas
  OBVIOUS
<1>2. ASSUME T # {} PROVE FALSE
  <2>1. PICK m \in T : \A y \in T : m <= y
    BY <1>2, LeastOf
  <2>2. m \in Nat /\ m <= len /\ ~ \E kept : Keeps(m, kept)
    BY <2>1
  <2>3. CASE m = 0
    <3> DEFINE none == [n \in 0 .. 0 |-> <<>>]
    <3>1. none = [n \in 0 .. 0 |-> Sift(none, n)]
      OBVIOUS
    <3> QED BY <2>2, <2>3, <3>1
  <2>4. CASE m > 0
    <3> HIDE DEF Keeps
    <3>1. m - 1 \in Nat /\ m - 1 <= len /\ ~ (m - 1 \in T)
      <4>1. m - 1 \in Nat /\ m - 1 <= len /\ ~ (m <= m - 1)
        BY <1>1, <2>2, <2>4
      <4> QED BY <2>1, <4>1
    <3>2. PICK less : Keeps(m - 1, less)
      BY <3>1
    <3> USE DEF Keeps
    <3>3. \A n \in 0 .. m - 1 : less[n] = Sift(less, n)
      BY <3>2
    <3> DEFINE more == [n \in 0 .. m |-> IF n = m THEN Sift(less, m) ELSE less[n]]
    <3>4. ASSUME NEW n \in 0 .. m PROVE more[n] = Sift(more, n)
      <4>1. n = m => n # 0 /\ n - 1 \in 0 .. m /\ n - 1 # m
        BY <2>2, <2>4
      <4>2. n # m /\ n # 0 => n \in 0 .. m - 1 /\ n - 1 \in 0 .. m /\ n - 1 # m
        BY <2>2, <2>4
      <4>3. n # m => n \in 0 .. m - 1
        BY <2>2, <2>4
      <4> QED BY <3>3, <4>1, <4>2, <4>3
    <3>5. more = [n \in 0 .. m |-> Sift(more, n)]
      BY <3>4
    <3> QED BY <2>2, <3>5
  <2> QED BY <2>2, <2>3, <2>4
<1>3. \E kept : Keeps(len, kept)
  <2>1. ~ (len \in T)
    BY <1>2
  <2> QED BY <1>1, <2>1
<1> DEFINE kept == CHOOSE f : Keeps(len, f)
<1>4. Keeps(len, kept)
  BY <1>3
<1>5. Without(v) = kept[len]
  BY DEF Without
<1> HIDE DEF kept
<1>6. \A n \in 0 .. len : kept[n] = Sift(kept, n)
  BY <1>4
<1> DEFINE Before(n) == {items[k] : k \in 1 .. n}
           Good(n) == kept[n] \in Seq(Villas) /\ IsInjective(kept[n]) /\ ToSet(kept[n]) = Before(n) \ {v}
           U == {n \in Nat : n <= len /\ ~ Good(n)}
<1>7. ASSUME U # {} PROVE FALSE
  <2>1. PICK m \in U : \A y \in U : m <= y
    BY <1>7, LeastOf
  <2>2. m \in Nat /\ m \in 0 .. len /\ ~ Good(m)
    BY <1>1, <2>1
  <2>3. m # 0
    <3>1. 0 \in 0 .. len /\ kept[0] = <<>>
      BY <1>1, <1>6
    <3>2. DOMAIN kept[0] = {} /\ kept[0] \in Seq(Villas) /\ Before(0) = {}
      BY <3>1
    <3> QED BY <2>2, <3>2 DEF ToSet, IsInjective
  <2>4. m - 1 \in Nat /\ m - 1 <= len /\ Good(m - 1) /\ m \in 1 .. len
    <3>1. m - 1 \in Nat /\ m - 1 <= len /\ ~ (m <= m - 1) /\ m \in 1 .. len
      BY <1>1, <2>2, <2>3
    <3> QED BY <2>1, <3>1
  <2>5. Before(m) = Before(m - 1) \cup {items[m]}
    <3>1. \A k : k \in 1 .. m <=> k \in 1 .. m - 1 \/ k = m
      BY <2>4
    <3> QED BY <3>1
  <2>6. CASE items[m] = v
    <3>1. kept[m] = kept[m - 1]
      BY <1>6, <2>2, <2>3, <2>6
    <3> QED BY <2>2, <2>4, <2>5, <2>6, <3>1
  <2>7. CASE items[m] # v
    <3>1. kept[m] = Append(kept[m - 1], items[m])
      BY <1>6, <2>2, <2>3, <2>7
    <3>2. PICK old : old = kept[m - 1]
      OBVIOUS
    <3> HIDE DEF Before
    <3>3. old \in Seq(Villas) /\ IsInjective(old) /\ ToSet(old) = Before(m - 1) \ {v} /\ items[m] \in Villas
      BY <1>1, <2>4, <3>2
    <3>4. items[m] \notin ToSet(old)
      <4>1. ASSUME NEW k \in 1 .. m - 1 PROVE items[k] # items[m]
        <5>1. k \in DOMAIN items /\ m \in DOMAIN items /\ k # m
          BY <1>1, <2>4
        <5> QED BY <5>1 DEF IsInjective
      <4> QED BY <3>3, <4>1 DEF Before
    <3>5. /\ DOMAIN Append(old, items[m]) = DOMAIN old \cup {Len(old) + 1} /\ Len(old) + 1 \notin DOMAIN old
          /\ Append(old, items[m]) \in Seq(Villas)
          /\ Append(old, items[m])[Len(old) + 1] = items[m]
          /\ \A k \in DOMAIN old : Append(old, items[m])[k] = old[k]
      BY <3>3
    <3>6. ToSet(Append(old, items[m])) = ToSet(old) \cup {items[m]}
      BY <3>5 DEF ToSet
    <3>7. IsInjective(Append(old, items[m]))
      BY <3>3, <3>4, <3>5 DEF IsInjective, ToSet
    <3> QED BY <2>2, <2>5, <2>7, <3>1, <3>2, <3>3, <3>5, <3>6, <3>7
  <2> QED BY <2>6, <2>7
<1> HIDE DEF Good
<1>8. Good(len)
  <2>1. len \in Nat /\ len <= len /\ ~ (len \in U)
    BY <1>1, <1>7
  <2> QED BY <2>1
<1> USE DEF Good
<1>9. Before(len) = ToSet(items)
  BY <1>1 DEF ToSet
<1> HIDE DEF Sift, Before
<1> QED BY <1>5, <1>8, <1>9

-----------------------------------------------------------------------------
\* The first call is answered: what it waited for waits no more.
LEMMA TailWaits ==
  ASSUME NEW q, QueueOK(q), q # <<>>, NEW c, c = Head(q)
  PROVE  /\ QueueOK(Tail(q)) /\ c \in PageCall /\ (c.saving <=> c.from = "undo") /\ Waits(q, c.villa, c.from)
         /\ \A v, from : Waits(Tail(q), v, from) <=> Waits(q, v, from) /\ ~ (v = c.villa /\ from = c.from)
         /\ c.from = "heart" => ~ Waits(q, c.villa, "undo")
<1>1. /\ q \in Seq(PageCall) /\ DOMAIN q = 1 .. Len(q) /\ Len(q) \in Nat /\ Len(q) > 0
      /\ \A j \in DOMAIN q : q[j].saving <=> q[j].from = "undo"
      /\ \A j, k \in DOMAIN q : j < k /\ q[j].villa = q[k].villa => q[j].from = "undo" /\ q[k].from = "heart"
  BY DEF QueueOK
<1>2. /\ Tail(q) \in Seq(PageCall) /\ DOMAIN Tail(q) = 1 .. Len(q) - 1
      /\ \A j \in 1 .. Len(q) - 1 : Tail(q)[j] = q[j + 1]
      /\ c = q[1] /\ 1 \in DOMAIN q
  BY <1>1
<1>3. \A j \in 1 .. Len(q) - 1 : j + 1 \in DOMAIN q /\ 1 < j + 1 /\ j \in Nat
  BY <1>1
<1>4. QueueOK(Tail(q))
  <2>1. \A j \in DOMAIN Tail(q) : Tail(q)[j].saving <=> Tail(q)[j].from = "undo"
    BY <1>1, <1>2, <1>3
  <2>2. ASSUME NEW j \in DOMAIN Tail(q), NEW k \in DOMAIN Tail(q), j < k,
               Tail(q)[j].villa = Tail(q)[k].villa
        PROVE  Tail(q)[j].from = "undo" /\ Tail(q)[k].from = "heart"
    <3>1. j + 1 \in DOMAIN q /\ k + 1 \in DOMAIN q /\ j + 1 < k + 1
      BY <1>2, <1>3, <2>2
    <3>2. Tail(q)[j] = q[j + 1] /\ Tail(q)[k] = q[k + 1]
      BY <1>2
    <3> QED BY <1>1, <2>2, <3>1, <3>2
  <2> QED BY <1>2, <2>1, <2>2 DEF QueueOK
<1>5. ASSUME NEW v, NEW from
      PROVE  Waits(Tail(q), v, from) <=> Waits(q, v, from) /\ ~ (v = c.villa /\ from = c.from)
  <2>1. ASSUME Waits(Tail(q), v, from) PROVE Waits(q, v, from) /\ ~ (v = c.villa /\ from = c.from)
    <3>1. PICK j \in 1 .. Len(q) - 1 : Tail(q)[j].villa = v /\ Tail(q)[j].from = from
      BY <1>2, <2>1 DEF Waits
    <3>2. q[j + 1].villa = v /\ q[j + 1].from = from /\ j + 1 \in DOMAIN q /\ 1 < j + 1
      BY <1>2, <1>3, <3>1
    <3>3. v = c.villa => c.from = "undo" /\ from = "heart"
      BY <1>1, <1>2, <3>2
    <3> QED BY <3>2, <3>3 DEF Waits
  <2>2. ASSUME Waits(q, v, from), ~ (v = c.villa /\ from = c.from) PROVE Waits(Tail(q), v, from)
    <3>1. PICK k \in DOMAIN q : q[k].villa = v /\ q[k].from = from
      BY <2>2 DEF Waits
    <3>2. k # 1
      BY <1>2, <2>2, <3>1
    <3>3. k - 1 \in 1 .. Len(q) - 1 /\ k - 1 + 1 = k
      BY <1>1, <3>2
    <3>4. Tail(q)[k - 1] = q[k]
      BY <1>2, <3>3
    <3> QED BY <1>2, <3>1, <3>3, <3>4 DEF Waits
  <2> QED BY <2>1, <2>2
<1>6. c.from = "heart" => ~ Waits(q, c.villa, "undo")
  <2> SUFFICES ASSUME c.from = "heart", NEW k \in DOMAIN q, q[k].villa = c.villa, q[k].from = "undo"
               PROVE  FALSE
    BY DEF Waits
  <2>1. k # 1 /\ 1 < k
    BY <1>1, <1>2
  <2> QED BY <1>1, <1>2, <2>1
<1> QED BY <1>1, <1>2, <1>4, <1>5, <1>6 DEF Waits

LEMMA AppendWaits ==
  ASSUME NEW q, QueueOK(q), NEW c \in PageCall, c.saving <=> c.from = "undo",
         ~ Waits(q, c.villa, "heart"), ~ (c.from = "undo" /\ Waits(q, c.villa, "undo"))
  PROVE  /\ QueueOK(Append(q, c))
         /\ \A v, from : Waits(Append(q, c), v, from) <=> Waits(q, v, from) \/ (v = c.villa /\ from = c.from)
<1> DEFINE n == Len(q) + 1
           p == Append(q, c)
<1>1. /\ q \in Seq(PageCall) /\ DOMAIN q = 1 .. Len(q) /\ Len(q) \in Nat
      /\ \A j \in DOMAIN q : q[j].saving <=> q[j].from = "undo"
      /\ \A j, k \in DOMAIN q : j < k /\ q[j].villa = q[k].villa => q[j].from = "undo" /\ q[k].from = "heart"
      /\ \A j \in DOMAIN q : q[j] \in PageCall
  BY DEF QueueOK
<1>2. /\ p \in Seq(PageCall) /\ DOMAIN p = DOMAIN q \cup {n} /\ n \notin DOMAIN q /\ p[n] = c
      /\ \A j \in DOMAIN q : p[j] = q[j] /\ j < n /\ ~ (n < j)
      /\ ~ (n < n)
  BY <1>1
<1> HIDE DEF p, n
<1>3. ASSUME NEW v, NEW from
      PROVE  Waits(p, v, from) <=> Waits(q, v, from) \/ (v = c.villa /\ from = c.from)
  BY <1>2 DEF Waits
<1>4. \A j \in DOMAIN p : p[j].saving <=> p[j].from = "undo"
  BY <1>1, <1>2
<1>5. \A j \in DOMAIN q : q[j].villa = c.villa => q[j].from = "undo" /\ c.from = "heart"
  <2>1. \A j \in DOMAIN q : q[j].from \in {"heart", "undo"}
    BY <1>1 DEF PageCall
  <2> QED BY <2>1 DEF PageCall, Waits
<1>6. \A j, k \in DOMAIN p : j < k /\ p[j].villa = p[k].villa => p[j].from = "undo" /\ p[k].from = "heart"
  BY <1>1, <1>2, <1>5
<1>7. QueueOK(p)
  BY <1>2, <1>4, <1>6 DEF QueueOK
<1> QED BY <1>3, <1>7 DEF p

-----------------------------------------------------------------------------
LEMMA SavedStarts == SavedInit => SavedIInv
<1> SUFFICES ASSUME SavedInit PROVE SavedIInv
  OBVIOUS
<1>1. PICK n \in Nat : n = Cardinality(Villas)
  BY SavedAssumption, FS_CardinalityType
<1>2. \E f : f \in [1 .. n -> Villas] /\ IsInjective(f)
  BY <1>1, SavedAssumption, FS_CardinalityType DEF ExistsBijection, Bijection, Injection
<1>3. items \in [1 .. n -> Villas] /\ IsInjective(items)
  BY <1>1, <1>2 DEF SavedInit, SetToSeq
<1>4. ToSet(items) = Villas
  <2>1. items \in Injection(1 .. n, Villas)
    BY <1>3 DEF Injection
  <2>2. Cardinality(1 .. n) = n
    <3>1. 1 \in Int /\ n \in Int
      OBVIOUS
    <3> QED BY <3>1, FS_Interval
  <2>3. items \in Surjection(1 .. n, Villas)
    BY <1>1, <2>1, <2>2, SavedAssumption, FS_Injection
  <2> QED BY <1>3, <2>3 DEF Surjection, ToSet
<1>5. items \in Seq(Villas)
  BY <1>3
<1>6. outgoing = <<>> /\ savedRows = Villas /\ heart = [v \in Villas |-> FullHeart] /\ undo = NoUndo
  BY DEF SavedInit
<1>7. \A v, from : ~ Waits(outgoing, v, from)
  BY <1>6 DEF Waits
<1>8. QueueOK(outgoing)
  BY <1>6 DEF QueueOK
<1>9. FullHeart \in Heart /\ ~ FullHeart.pending
  BY DEF FullHeart, Heart
<1>10. ASSUME NEW v \in Villas PROVE VillaInv(v)
  BY <1>4, <1>6, <1>7, <1>9, SavedAssumption DEF VillaInv
<1> QED BY <1>3, <1>5, <1>6, <1>8, <1>9, <1>10 DEF SavedIInv

LEMMA TapKeeps == ASSUME SavedIInv, NEW v \in Villas, TapHeart(v) PROVE SavedIInv'
<1>1. v \in ToSet(items) /\ heart[v] = FullHeart /\ VillaInv(v)
  BY DEF TapHeart, SavedIInv, VillaInv
<1>2. PICK c : c = [villa |-> v, saving |-> FALSE, from |-> "heart"]
  OBVIOUS
<1>3. PICK hollow : hollow = [saved |-> FALSE, pending |-> TRUE]
  OBVIOUS
<1>4. /\ outgoing' = Append(outgoing, c) /\ heart' = [heart EXCEPT ![v] = hollow]
      /\ savedRows' = savedRows /\ items' = items /\ undo' = undo
  <2>1. heart[v].saved = TRUE /\ (~ heart[v].saved) = FALSE
    BY <1>1 DEF FullHeart
  <2>2. /\ outgoing' = Append(outgoing, [villa |-> v, saving |-> ~ heart[v].saved, from |-> "heart"])
        /\ heart' = [heart EXCEPT ![v] = [saved |-> ~ heart[v].saved, pending |-> TRUE]]
        /\ savedRows' = savedRows /\ items' = items /\ undo' = undo
    BY Zenon DEF TapHeart, ToggleSaveAction
  <2>3. outgoing' = Append(outgoing, c)
    BY <1>2, <2>1, <2>2, Zenon
  <2>4. heart' = [heart EXCEPT ![v] = hollow]
    BY <1>3, <2>1, <2>2, Zenon
  <2> QED BY <2>2, <2>3, <2>4
<1>5. c \in PageCall /\ ~ c.saving /\ c.from = "heart" /\ c.villa = v /\ hollow \in Heart /\ hollow.pending
  BY <1>2, <1>3 DEF PageCall, Heart
<1>6. ~ Waits(outgoing, v, "heart")
  BY <1>1 DEF VillaInv, FullHeart
<1>7. /\ QueueOK(outgoing')
      /\ \A w, from : Waits(outgoing', w, from) <=> Waits(outgoing, w, from) \/ (w = v /\ from = "heart")
  BY <1>4, <1>5, <1>6, AppendWaits DEF SavedIInv
<1>8. heart' \in [Villas -> Heart]
  BY <1>4, <1>5 DEF SavedIInv
<1>9. ASSUME NEW w \in Villas PROVE VillaInv(w)'
  <2>1. VillaInv(w) /\ (w # v => heart'[w] = heart[w]) /\ (w = v => heart'[w] = hollow)
    BY <1>4 DEF SavedIInv
  <2>2. undo = v => FALSE
    BY <1>1 DEF VillaInv
  <2> QED BY <1>4, <1>5, <1>7, <2>1, <2>2 DEF VillaInv
<1> QED BY <1>4, <1>7, <1>8, <1>9 DEF SavedIInv

LEMMA UndoKeeps == ASSUME SavedIInv, Undo PROVE SavedIInv'
<1>1. PICK v \in Villas : v = undo
  BY DEF Undo, SavedIInv
<1>2. /\ v \notin ToSet(items) /\ \A from : ~ Waits(outgoing, v, from)
      /\ v \notin savedRows
  <2>1. VillaInv(v)
    BY DEF SavedIInv
  <2> QED BY <1>1, <2>1 DEF VillaInv
<1>3. PICK c : c = [villa |-> v, saving |-> TRUE, from |-> "undo"]
  OBVIOUS
<1>4. /\ outgoing' = Append(outgoing, c) /\ heart' = [heart EXCEPT ![v] = FullHeart]
      /\ savedRows' = savedRows /\ items' = <<v>> \o items /\ undo' = NoUndo
  BY <1>1, <1>3 DEF Undo, ToggleSaveAction
<1>5. c \in PageCall /\ c.saving /\ c.from = "undo" /\ c.villa = v /\ FullHeart \in Heart /\ ~ FullHeart.pending
  BY <1>3 DEF PageCall, Heart, FullHeart
<1>6. /\ QueueOK(outgoing')
      /\ \A w, from : Waits(outgoing', w, from) <=> Waits(outgoing, w, from) \/ (w = v /\ from = "undo")
  BY <1>2, <1>4, <1>5, AppendWaits DEF SavedIInv
<1>7. items \in Seq(Villas) /\ IsInjective(items)
  BY DEF SavedIInv
<1>8. /\ items' \in Seq(Villas) /\ IsInjective(items') /\ ToSet(items') = ToSet(items) \cup {v}
  <2>1. PICK old : old = items
    OBVIOUS
  <2>2. PICK new : new = items'
    OBVIOUS
  <2>3. /\ old \in Seq(Villas) /\ IsInjective(old) /\ v \notin ToSet(old) /\ new = <<v>> \o old
        /\ Len(old) \in Nat /\ DOMAIN old = 1 .. Len(old)
    BY <1>2, <1>4, <1>7, <2>1, <2>2
  <2>4. /\ new \in Seq(Villas) /\ DOMAIN new = 1 .. Len(old) + 1 /\ new[1] = v
        /\ \A k \in 2 .. Len(old) + 1 : new[k] = old[k - 1]
    BY <2>3
  <2>5. \A k \in 2 .. Len(old) + 1 : k - 1 \in DOMAIN old
    BY <2>3
  <2>6. \A k \in DOMAIN old : k + 1 \in 2 .. Len(old) + 1 /\ new[k + 1] = old[k]
    BY <2>3, <2>4
  <2>7. \A k \in DOMAIN new : k = 1 \/ k \in 2 .. Len(old) + 1
    BY <2>3, <2>4
  <2>8. IsInjective(new)
    <3> SUFFICES ASSUME NEW j \in DOMAIN new, NEW k \in DOMAIN new, new[j] = new[k] PROVE j = k
      BY DEF IsInjective
    <3>1. CASE j = 1
      BY <2>3, <2>4, <2>5, <2>7, <3>1 DEF ToSet
    <3>2. CASE k = 1
      BY <2>3, <2>4, <2>5, <2>7, <3>2 DEF ToSet
    <3>3. CASE j # 1 /\ k # 1
      <4>1. old[j - 1] = old[k - 1] /\ j - 1 \in DOMAIN old /\ k - 1 \in DOMAIN old
        BY <2>4, <2>5, <2>7, <3>3
      <4>2. j - 1 = k - 1
        BY <2>3, <4>1 DEF IsInjective
      <4> QED BY <2>3, <2>4, <4>2
    <3> QED BY <3>1, <3>2, <3>3
  <2>9. ToSet(new) = ToSet(old) \cup {v}
    <3>1. ToSet(new) \subseteq ToSet(old) \cup {v}
      BY <2>4, <2>5, <2>7 DEF ToSet
    <3>2. v \in ToSet(new)
      BY <2>3, <2>4 DEF ToSet
    <3>3. ToSet(old) \subseteq ToSet(new)
      <4>1. \A k \in DOMAIN old : k + 1 \in DOMAIN new
        BY <2>3, <2>4
      <4> QED BY <2>6, <4>1 DEF ToSet
    <3> QED BY <3>1, <3>2, <3>3
  <2> QED BY <2>1, <2>2, <2>4, <2>8, <2>9
<1>9. heart' \in [Villas -> Heart]
  BY <1>4, <1>5 DEF SavedIInv
<1>10. ASSUME NEW w \in Villas PROVE VillaInv(w)'
  <2>1. VillaInv(w) /\ (w # v => heart'[w] = heart[w]) /\ (w = v => heart'[w] = FullHeart)
    BY <1>4 DEF SavedIInv
  <2> QED BY <1>2, <1>4, <1>5, <1>6, <1>8, <2>1, SavedAssumption DEF VillaInv
<1> QED BY <1>4, <1>6, <1>8, <1>9, <1>10 DEF SavedIInv

LEMMA TimerKeeps == ASSUME SavedIInv, UndoTimer PROVE SavedIInv'
<1>1. /\ undo' = NoUndo /\ outgoing' = outgoing /\ heart' = heart
      /\ savedRows' = savedRows /\ items' = items
  BY DEF UndoTimer
<1>2. ASSUME NEW w \in Villas PROVE VillaInv(w)'
  <2>1. VillaInv(w)
    BY DEF SavedIInv
  <2> QED BY <1>1, <2>1, SavedAssumption DEF VillaInv
<1> QED BY <1>1, <1>2 DEF SavedIInv

\* A call is answered or refused.
LEMMA CallKeeps == ASSUME SavedIInv, Answered \/ Refused PROVE SavedIInv'
<1>0. outgoing # <<>> /\ outgoing' = Tail(outgoing) /\ QueueOK(outgoing)
  BY DEF Answered, Refused, SavedIInv
<1>1. PICK c : c = Head(outgoing)
  OBVIOUS
<1>2. PICK v : v = c.villa
  OBVIOUS
<1>3. /\ QueueOK(outgoing') /\ c \in PageCall /\ (c.saving <=> c.from = "undo") /\ Waits(outgoing, v, c.from)
      /\ \A w, from : Waits(outgoing', w, from) <=> Waits(outgoing, w, from) /\ ~ (w = v /\ from = c.from)
      /\ c.from = "heart" => ~ Waits(outgoing, v, "undo")
  BY <1>0, <1>1, <1>2, TailWaits
<1>4. v \in Villas /\ c.from \in {"heart", "undo"} /\ VillaInv(v) /\ heart \in [Villas -> Heart]
  BY <1>2, <1>3 DEF PageCall, SavedIInv
<1>5. PICK less : less = Without(v)
  OBVIOUS
<1>6. less \in Seq(Villas) /\ IsInjective(less) /\ ToSet(less) = ToSet(items) \ {v}
  BY <1>5, WithoutOne DEF SavedIInv
<1>7. CASE Answered /\ c.from = "heart"
  <2>1. /\ savedRows' = savedRows \ {v} /\ heart' = [heart EXCEPT ![v].pending = FALSE]
        /\ items' = less /\ undo' = v
    BY <1>1, <1>2, <1>3, <1>5, <1>7 DEF Answered
  <2>2. heart' \in [Villas -> Heart] /\ ~ heart'[v].pending /\ \A w \in Villas \ {v} : heart'[w] = heart[w]
    BY <1>4, <2>1 DEF Heart
  <2>3. \A from : ~ Waits(outgoing', v, from)
    <3>1. \A from : Waits(outgoing, v, from) => from \in {"heart", "undo"}
      <4>1. \A j \in DOMAIN outgoing : outgoing[j] \in PageCall
        BY <1>0 DEF QueueOK
      <4> QED BY <4>1 DEF PageCall, Waits
    <3> QED BY <1>3, <1>7, <3>1
  <2>4. ASSUME NEW w \in Villas PROVE VillaInv(w)'
    <3>1. CASE w = v
      BY <1>6, <2>1, <2>2, <2>3, <3>1 DEF VillaInv
    <3>2. CASE w # v
      <4>1. VillaInv(w) /\ \A from : Waits(outgoing', w, from) <=> Waits(outgoing, w, from)
        BY <1>3, <3>2 DEF SavedIInv
      <4>2. heart'[w] = heart[w] /\ (w \in ToSet(items') <=> w \in ToSet(items))
            /\ (w \in savedRows' <=> w \in savedRows) /\ undo' # w
        BY <1>6, <2>1, <2>2, <3>2
      <4> QED BY <4>1, <4>2 DEF VillaInv
    <3> QED BY <3>1, <3>2
  <2> QED BY <1>3, <1>4, <1>6, <2>1, <2>2, <2>4 DEF SavedIInv
<1>8. CASE Answered /\ c.from = "undo"
  <2>1. savedRows' = savedRows \cup {v} /\ heart' = heart /\ items' = items /\ undo' = undo
    BY <1>1, <1>2, <1>3, <1>8 DEF Answered
  <2>2. ASSUME NEW w \in Villas PROVE VillaInv(w)'
    <3>1. VillaInv(w)
      BY DEF SavedIInv
    <3>2. CASE w = v
      <4>1. w \in ToSet(items) /\ undo # w
        BY <1>3, <1>8, <3>1, <3>2 DEF VillaInv
      <4> QED BY <1>3, <1>8, <2>1, <3>1, <3>2, <4>1 DEF VillaInv
    <3>3. CASE w # v
      BY <1>3, <2>1, <3>1, <3>3 DEF VillaInv
    <3> QED BY <3>2, <3>3
  <2> QED BY <1>3, <1>4, <2>1, <2>2 DEF SavedIInv
<1>9. CASE Refused /\ c.from = "heart"
  <2>1. savedRows' = savedRows /\ heart' = [heart EXCEPT ![v] = FullHeart] /\ items' = items /\ undo' = undo
    BY <1>1, <1>2, <1>3, <1>9 DEF Refused, FullHeart
  <2>2. FullHeart \in Heart /\ ~ FullHeart.pending
    BY DEF FullHeart, Heart
  <2>3. heart' \in [Villas -> Heart] /\ heart'[v] = FullHeart /\ \A w \in Villas \ {v} : heart'[w] = heart[w]
    BY <1>4, <2>1, <2>2
  <2>4. ASSUME NEW w \in Villas PROVE VillaInv(w)'
    <3>1. VillaInv(w)
      BY DEF SavedIInv
    <3>2. CASE w = v
      BY <1>3, <1>9, <2>1, <2>2, <2>3, <3>1, <3>2 DEF VillaInv
    <3>3. CASE w # v
      BY <1>3, <2>1, <2>3, <3>1, <3>3 DEF VillaInv
    <3> QED BY <3>2, <3>3
  <2> QED BY <1>3, <1>4, <2>1, <2>3, <2>4 DEF SavedIInv
<1>10. CASE Refused /\ c.from = "undo"
  <2>1. savedRows' = savedRows /\ heart' = heart /\ items' = less /\ undo' = undo
    BY <1>1, <1>2, <1>3, <1>5, <1>10 DEF Refused
  <2>2. ASSUME NEW w \in Villas PROVE VillaInv(w)'
    <3>1. VillaInv(w)
      BY DEF SavedIInv
    <3>2. CASE w = v
      <4>1. w \notin savedRows /\ undo # w /\ w \notin ToSet(items')
        BY <1>3, <1>6, <1>10, <2>1, <3>1, <3>2 DEF VillaInv
      <4> QED BY <1>3, <1>10, <2>1, <3>1, <3>2, <4>1 DEF VillaInv
    <3>3. CASE w # v
      BY <1>3, <1>6, <2>1, <3>1, <3>3 DEF VillaInv
    <3> QED BY <3>2, <3>3
  <2> QED BY <1>3, <1>4, <1>6, <2>1, <2>2 DEF SavedIInv
<1> QED BY <1>4, <1>7, <1>8, <1>9, <1>10

LEMMA SavedStep == SavedIInv /\ [SavedNext]_savedVars => SavedIInv'
<1> SUFFICES ASSUME SavedIInv, [SavedNext]_savedVars PROVE SavedIInv'
  OBVIOUS
<1>1. ASSUME NEW v \in Villas, TapHeart(v) PROVE SavedIInv'
  BY <1>1, TapKeeps
<1>2. CASE Undo \/ UndoTimer \/ Answered \/ Refused
  BY <1>2, UndoKeeps, TimerKeeps, CallKeeps
<1>3. CASE UNCHANGED savedVars
  <2>1. /\ undo' = undo /\ outgoing' = outgoing /\ heart' = heart
        /\ savedRows' = savedRows /\ items' = items
    BY <1>3 DEF savedVars
  <2>2. ASSUME NEW w \in Villas PROVE VillaInv(w)'
    BY <2>1 DEF SavedIInv, VillaInv
  <2> QED BY <2>1, <2>2 DEF SavedIInv
<1> QED BY <1>1, <1>2, <1>3 DEF SavedNext

LEMMA SavedFollows == SavedIInv => GridIsSaved
<1> SUFFICES ASSUME SavedIInv, outgoing = <<>>
             PROVE  /\ ToSet(items) = savedRows /\ Len(items) = Cardinality(savedRows)
                    /\ \A v \in savedRows : heart[v] = FullHeart
  BY DEF GridIsSaved
<1>1. \A v, from : ~ Waits(outgoing, v, from)
  BY DEF Waits
<1>2. items \in Seq(Villas) /\ IsInjective(items) /\ savedRows \subseteq Villas
  BY DEF SavedIInv
<1>3. ToSet(items) \subseteq Villas
  BY <1>2 DEF ToSet
<1>4. ToSet(items) = savedRows
  BY <1>1, <1>2, <1>3 DEF SavedIInv, VillaInv
<1>5. \A v \in savedRows : heart[v] = FullHeart
  BY <1>1, <1>2, <1>4 DEF SavedIInv, VillaInv
<1>6. Len(items) = Cardinality(ToSet(items))
  <2>1. PICK n \in Nat : n = Len(items) /\ DOMAIN items = 1 .. n
    BY <1>2
  <2>2. items \in Bijection(1 .. n, ToSet(items))
    BY <1>2, <2>1 DEF Bijection, Injection, Surjection, ToSet
  <2>3. IsFiniteSet(1 .. n) /\ Cardinality(1 .. n) = n
    <3>1. 1 \in Int /\ n \in Int
      OBVIOUS
    <3> QED BY <3>1, FS_Interval
  <2>4. Cardinality(ToSet(items)) = Cardinality(1 .. n)
    BY <2>2, <2>3, FS_Bijection DEF ExistsBijection
  <2> QED BY <2>1, <2>3, <2>4
<1> QED BY <1>4, <1>5, <1>6

\* Whatever was tapped, refused and undone in between, for any number of saved villas: once
\* the last answer is in, the grid shows the villas that are saved, each once and with a full
\* heart (SavedGrid.tsx, HeartButton.tsx).
THEOREM GridShowsWhatIsSaved == SavedSpec => []GridIsSaved
<1>1. SavedInit => SavedIInv
  BY SavedStarts
<1>2. SavedIInv /\ [SavedNext]_savedVars => SavedIInv'
  BY SavedStep
<1>3. SavedIInv => GridIsSaved
  BY SavedFollows
<1> QED BY <1>1, <1>2, <1>3, PTL DEF SavedSpec
=============================================================================
