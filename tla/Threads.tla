------------------------------ MODULE Threads ------------------------------
(***************************************************************************)
(* The message thread of one booking: the guest and the host post from     *)
(* their composers and open the thread, an admin reads it as the evidence  *)
(* of a dispute.  Every handler is a few                                   *)
(* statements without a transaction, so posts, views and the confirmation  *)
(* of the booking interleave between them.                                 *)
(*                                                                         *)
(* A message is reduced to its sender, its time, and whether the contact   *)
(* details in it can be read; each message here has some.  maskBody's      *)
(* patterns are text, and not modelled.                                    *)
(***************************************************************************)
EXTENDS Naturals, FiniteSets

CONSTANTS
  Messages,    \* bound: messages ever posted, numbered
  Posts,       \* sendMessage calls at once: one for each party's composer
  MaxClock,    \* bound: the clock runs 0 .. MaxClock
  Throttle     \* THROTTLE_MS

ASSUME ThreadsAssumption ==
  /\ Messages \subseteq Nat \ {0} /\ MaxClock \in Nat /\ Throttle \in Nat
  /\ Posts \subseteq {"guest", "host"} /\ IsFiniteSet(Messages)

VARIABLES
  clock,
  unmasked,   \* Booking.contactUnmaskedAt is set: confirm() ran
  message,    \* Message rows of the thread
  post,       \* the sendMessage call of each party
  view,       \* loadThreadForViewer of each party: idle, or the rows are read
  notified,   \* the times at which the throttle let a push through
  reveal      \* readDisputeThreadRaw: where it is, and audit rows against reveals shown

thrVars == <<clock, unmasked, message, post, view, notified, reveal>>

Sides == {"guest", "host"}
Other(p) == IF p = "guest" THEN "host" ELSE "guest"
Vacant == [at |-> "none"]
Waiting == [at |-> "idle"]
Kept == {m \in Messages : message[m].at = "stored"}

ThreadsInit ==
  /\ clock = 0 /\ unmasked = FALSE
  /\ message = [m \in Messages |-> Vacant]
  /\ post = [p \in Posts |-> Waiting]
  /\ view = [p \in Sides |-> "idle"]
  /\ notified = {}
  /\ reveal = [at |-> "idle", audited |-> 0, shown |-> 0]

Tick == /\ clock < MaxClock /\ clock' = clock + 1
        /\ UNCHANGED <<unmasked, message, post, view, notified, reveal>>

\* confirm(), of which only contactUnmaskedAt matters here; it is never cleared.
Unmask == /\ ~unmasked /\ unmasked' = TRUE
          /\ UNCHANGED <<clock, message, post, view, notified, reveal>>

-----------------------------------------------------------------------------
(* The composer (message-composer.tsx) and sendMessage                       *)

\* A tap on Send, up to loadParticipants, which reads whether the booking is
\* confirmed; the time is the action's.
Post(p) ==
  /\ post[p] = Waiting
  /\ post' = [post EXCEPT ![p] = [at |-> "read", open |-> unmasked, now |-> clock]]
  /\ UNCHANGED <<clock, unmasked, message, view, notified, reveal>>

\* Mutant: the host's messages are not masked.
StoreUnmaskingHost(p, m) ==
  /\ post[p].at = "read" /\ message[m] = Vacant /\ \A n \in Messages : n < m => message[n] # Vacant
  /\ message' = [message EXCEPT ![m] = [at |-> "stored", sender |-> p, read |-> FALSE,
                                         contact |-> post[p].open \/ p = "host"]]
  /\ post' = [post EXCEPT ![p].at = "stored"]
  /\ UNCHANGED <<clock, unmasked, view, notified, reveal>>

\* getOrCreateThread and message.create: masked for good, unless the booking was
\* confirmed when it was read.
Store(p, m) ==
  /\ post[p].at = "read" /\ message[m] = Vacant /\ \A n \in Messages : n < m => message[n] # Vacant
  /\ message' = [message EXCEPT ![m] = [at |-> "stored", sender |-> p, read |-> FALSE,
                                         contact |-> post[p].open]]
  /\ post' = [post EXCEPT ![p].at = "stored"]
  /\ UNCHANGED <<clock, unmasked, view, notified, reveal>>

\* lastNotifiedAt
LastNotified == CHOOSE t \in notified : \A u \in notified : u <= t

\* Mutant: the throttle looks at the posts that are due, not at what was claimed.
QuietWhenRead(now) == now \notin notified

Quiet(now) == notified = {} \/ LastNotified + Throttle < now

\* The throttle's claim is one conditional update.  The winner notifies, by the
\* caller's own await (Outbox).
ClaimPush(p) ==
  /\ post[p].at = "stored"
  /\ notified' = IF Quiet(post[p].now) THEN notified \cup {post[p].now} ELSE notified
  /\ post' = [post EXCEPT ![p] = Waiting]
  /\ UNCHANGED <<clock, unmasked, message, view, reveal>>

\* The server stops, or a statement throws: the message may be stored by then.
PostFails(p) ==
  /\ post[p] # Waiting
  /\ post' = [post EXCEPT ![p] = Waiting]
  /\ UNCHANGED <<clock, unmasked, message, view, notified, reveal>>

-----------------------------------------------------------------------------
(* Reading                                                                   *)

\* loadThreadForViewer reads the messages, masked bodies only.
OpenThread(p) ==
  /\ view[p] = "idle"
  /\ view' = [view EXCEPT ![p] = "loaded"]
  /\ UNCHANGED <<clock, unmasked, message, post, notified, reveal>>

\* Mutant: opening the thread marks one's own messages too.
MarkAllRead(p) ==
  /\ view[p] = "loaded"
  /\ message' = [m \in Messages |-> IF m \in Kept THEN [message[m] EXCEPT !.read = TRUE] ELSE message[m]]
  /\ view' = [view EXCEPT ![p] = "idle"]
  /\ UNCHANGED <<clock, unmasked, post, notified, reveal>>

\* Its second statement marks every inbound message read, the ones that arrived
\* since the first included; then the page shows the rows it read.
MarkRead(p) ==
  /\ view[p] = "loaded"
  /\ message' = [m \in Messages |-> IF m \in Kept /\ message[m].sender # p
                                    THEN [message[m] EXCEPT !.read = TRUE] ELSE message[m]]
  /\ view' = [view EXCEPT ![p] = "idle"]
  /\ UNCHANGED <<clock, unmasked, post, notified, reveal>>

\* listThreadsForUser: the badge on the inbox.
Unread(p) == Cardinality({m \in Kept : message[m].sender # p /\ ~message[m].read})

\* readDisputeThreadRaw for an admin's case page: the bodies are read, then the
\* audit row is written, then the page is shown.
Reveal ==
  /\ reveal.at = "idle" /\ reveal.shown = 0 /\ reveal.audited = 0
  /\ reveal' = [reveal EXCEPT !.at = "read"]
  /\ UNCHANGED <<clock, unmasked, message, post, view, notified>>

\* Mutant: the page is shown before the audit row is written.
AuditLate ==
  /\ reveal.at = "read"
  /\ reveal' = [reveal EXCEPT !.at = "audited", !.shown = @ + 1]
  /\ UNCHANGED <<clock, unmasked, message, post, view, notified>>

Audit ==
  /\ reveal.at = "read"
  /\ reveal' = [reveal EXCEPT !.at = "audited", !.audited = @ + 1]
  /\ UNCHANGED <<clock, unmasked, message, post, view, notified>>

RevealShown ==
  /\ reveal.at = "audited"
  /\ reveal' = [reveal EXCEPT !.at = "idle", !.shown = @ + 1]
  /\ UNCHANGED <<clock, unmasked, message, post, view, notified>>

RevealStops ==
  /\ reveal.at # "idle"
  /\ reveal' = [reveal EXCEPT !.at = "idle"]
  /\ UNCHANGED <<clock, unmasked, message, post, view, notified>>

-----------------------------------------------------------------------------
ThreadsNext ==
  \/ Tick \/ Unmask
  \/ \E p \in Posts :
       Post(p) \/ ClaimPush(p) \/ PostFails(p)
       \/ \E m \in Messages : Store(p, m)
  \/ \E p \in Sides : OpenThread(p) \/ MarkRead(p)
  \/ Reveal \/ Audit \/ RevealShown \/ RevealStops

ThreadsSpec == ThreadsInit /\ [][ThreadsNext]_thrVars

-----------------------------------------------------------------------------
(* Properties                                                                *)

\* Every variable holds a value of its type.
ThreadsTypeOK ==
  /\ clock \in 0 .. MaxClock /\ unmasked \in BOOLEAN /\ notified \subseteq 0 .. MaxClock
  /\ \A m \in Messages : message[m] # Vacant =>
       message[m].sender \in Posts /\ message[m].contact \in BOOLEAN
  /\ \A p \in Sides : Unread(p) <= Cardinality({m \in Kept : message[m].sender # p})

\* No contact detail can be read before money is held: whichever party posts, and
\* however slowly, an unmasked message means a confirmed booking (thread.ts:66-70).
ContactOnlyAfterConfirmation ==
  \A m \in Messages : message[m] # Vacant /\ message[m].contact => unmasked

\* Two pushes for a thread are more than the throttle apart, though both parties
\* post at once and a slow post claims with an old time (thread.ts:87-98).
PushesAreApart == \A t, u \in notified : t < u => t + Throttle < u

\* Only the recipient's own opening of the thread takes a message off the badge,
\* and no message comes back to it.
ReadByTheRecipient ==
  [][\A m \in Kept : message'[m].read # message[m].read =>
       message'[m].read /\ view[Other(message[m].sender)] = "loaded"]_thrVars

\* No unmasked thread is shown to an admin without its audit row, also when the
\* server stops half-way (admin.ts:3-6, "every reveal is written to the AuditLog").
RevealIsAudited == reveal.shown <= reveal.audited

\* What the two parties and the admins are promised of a thread: nothing to contact
\* each other with before money is held, no burst of pushes, no reading in secret.
ThreadInv == ThreadsTypeOK /\ ContactOnlyAfterConfirmation /\ PushesAreApart /\ RevealIsAudited
=============================================================================
