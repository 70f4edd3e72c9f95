---------------------------- MODULE OutboxProofs ----------------------------
(***************************************************************************)
(* No notification goes out without an attempt that was counted, for any   *)
(* number of calls, instances and attempts; no booking is reminded twice;  *)
(* and no setting silences an essential notice.                            *)
(***************************************************************************)
EXTENDS Outbox, FiniteSetTheorems, TLAPS

Notices ==
  [at : {"next", "send", "returned", "died"}, template : Templates, todo : SUBSET Channels,
   addressed : SUBSET Channels]
WrittenRows == [status : {"QUEUED", "SENT", "FAILED"}, attempts : 0 .. MaxAttempts]
ToRetry == Rows \X (0 .. (MaxAttempts - 1))
Sweeping == [at : {"remind", "claim"}]
Retrying == [at : {"retry"}, todo : SUBSET ToRetry]
Resends == [at : {"resend"}, row : Rows, todo : SUBSET ToRetry]

ShapeInv ==
  /\ notice \in [Calls -> {Resting} \cup Notices]
  /\ row \in [Rows -> {Unwritten} \cup WrittenRows]
  /\ delivered \in [Rows -> Nat]
  /\ tick \in [Instances -> {Resting} \cup Sweeping \cup Retrying \cup Resends]
  /\ prefs \in {NoPrefs} \cup Matrix
  /\ address \subseteq Channels
  /\ made \in Seq(Rows)
  /\ reminded \in {0, 1}

\* Where a call stands, its rows stand: a channel still to do has none, but for the
\* one that is being sent.
LoopAt(c) ==
  /\ notice[c] = Resting => \A ch \in Channels : row[<<c, ch>>] = Unwritten
  /\ notice[c].at = "next" => \A ch \in notice[c].todo : row[<<c, ch>>] = Unwritten
  /\ notice[c].at = "send" =>
       /\ Turn(c) \in notice[c].todo /\ row[<<c, Turn(c)>>].status = "QUEUED"
       /\ \A ch \in notice[c].todo \ {Turn(c)} : row[<<c, ch>>] = Unwritten
  /\ notice[c].at = "returned" => notice[c].todo = {}
  /\ notice[c] # Resting /\ notice[c].template.known /\ notice[c].template.essential
     /\ EMAIL \in notice[c].addressed =>
       EMAIL \in notice[c].todo \/ row[<<c, EMAIL>>] # Unwritten

LoopInv == \A c \in Calls : LoopAt(c)

\* The instances that send a row again at this moment, each on a claim of its own.
Resending(r) == {i \in Instances : tick[i].at = "resend" /\ tick[i].row = r}

\* Each send that was made, and each that is under way, has its attempt.
AttemptsInv ==
  \A r \in Rows :
    /\ row[r].status \in {"none", "QUEUED"} => row[r].attempts = 0
    /\ delivered[r] + Cardinality(Resending(r)) <= row[r].attempts

SendInv == ShapeInv /\ LoopInv /\ AttemptsInv

-----------------------------------------------------------------------------
LEMMA RowShape ==
  ASSUME ShapeInv, NEW r \in Rows
  PROVE  /\ row[r].attempts \in 0 .. MaxAttempts
         /\ row[r] = Unwritten \/ row[r] \in WrittenRows
         /\ row[r] = Unwritten <=> row[r].status = "none"
<1>1. row[r] \in {Unwritten} \cup WrittenRows
  BY DEF ShapeInv
<1>2. Unwritten.status = "none" /\ Unwritten.attempts = 0
  BY DEF Unwritten
<1>3. \A w \in WrittenRows : w.status # "none" /\ w.attempts \in 0 .. MaxAttempts
  BY DEF WrittenRows
<1>4. 0 \in 0 .. MaxAttempts
  BY OutboxAssumption
<1> QED BY <1>1, <1>2, <1>3, <1>4

LEMMA TickShape ==
  ASSUME ShapeInv, NEW i \in Instances
  PROVE  /\ tick[i].at = "retry" => tick[i] \in Retrying
         /\ tick[i].at = "resend" => tick[i] \in Resends
<1>1. tick[i] \in {Resting} \cup Sweeping \cup Retrying \cup Resends
  BY DEF ShapeInv
<1> QED BY <1>1 DEF Resting, Sweeping, Retrying, Resends

LEMMA ResendingCounted ==
  ASSUME NEW r
  PROVE  IsFiniteSet(Resending(r)) /\ Cardinality(Resending(r)) \in Nat
<1>1. IsFiniteSet(Instances) /\ Resending(r) \in SUBSET Instances
  BY OutboxAssumption DEF Resending
<1> QED BY <1>1, FS_Subset, FS_CardinalityType

\* Whoever reports what a driver said counts one delivery at most.
LEMMA AnswerCounts ==
  ASSUME ShapeInv, NEW r \in Rows, NEW ok \in BOOLEAN, NEW reached \in BOOLEAN,
         Answer(r, ok, reached)
  PROVE  /\ delivered' \in [Rows -> Nat]
         /\ delivered'[r] <= delivered[r] + 1
         /\ \A q \in Rows \ {r} : delivered'[q] = delivered[q]
<1>1. delivered \in [Rows -> Nat]
  BY DEF ShapeInv
<1>2. delivered' = IF reached THEN [delivered EXCEPT ![r] = @ + 1] ELSE delivered
  BY DEF Answer
<1>3. CASE reached
  BY <1>1, <1>2, <1>3
<1>4. CASE ~reached
  BY <1>1, <1>2, <1>4
<1> QED BY <1>3, <1>4

\* A step after which no more instances send, and no row has lost an attempt.
LEMMA NoNewSend ==
  ASSUME AttemptsInv, ShapeInv, ShapeInv', UNCHANGED <<row, delivered>>,
         \A i \in Instances : tick'[i].at = "resend" => tick'[i] = tick[i]
  PROVE  AttemptsInv'
<1> SUFFICES ASSUME NEW r \in Rows
             PROVE  /\ row[r].status \in {"none", "QUEUED"} => row[r].attempts = 0
                    /\ delivered[r] + Cardinality(Resending(r)') <= row[r].attempts
  BY DEF AttemptsInv
<1>1. Resending(r)' \in SUBSET Resending(r)
  BY DEF Resending
<1>2. Cardinality(Resending(r)') <= Cardinality(Resending(r)) /\ Cardinality(Resending(r)') \in Nat
  BY <1>1, ResendingCounted, FS_Subset, FS_CardinalityType
<1>3. row[r].attempts \in Nat /\ delivered[r] \in Nat
  BY RowShape DEF ShapeInv
<1> QED BY <1>2, <1>3, ResendingCounted DEF AttemptsInv

LEMMA InitEstablishes ==
  ASSUME OutboxInit PROVE SendInv
<1>1. ShapeInv
  BY DEF OutboxInit, ShapeInv
<1>2. LoopInv
  <2>1. \A c \in Calls, ch \in Channels : <<c, ch>> \in Rows
    BY DEF Rows
  <2>2. Resting.at = "idle"
    BY DEF Resting
  <2> QED BY <2>1, <2>2 DEF OutboxInit, LoopInv, LoopAt
<1>3. AttemptsInv
  <2> SUFFICES ASSUME NEW r \in Rows
               PROVE  row[r].attempts = 0 /\ delivered[r] + Cardinality(Resending(r)) <= 0
    BY DEF OutboxInit, AttemptsInv, Unwritten
  <2>1. Resending(r) = {}
    BY DEF OutboxInit, Resending, Resting
  <2>2. Cardinality(Resending(r)) = 0
    BY <2>1, FS_EmptySet
  <2> QED BY <2>2 DEF OutboxInit, Unwritten
<1> QED BY <1>1, <1>2, <1>3 DEF SendInv

-----------------------------------------------------------------------------
(* notify                                                                    *)

LEMMA NoticeStates == \A n \in Notices : n # Resting /\ Resting.at = "idle"
BY DEF Notices, Resting

\* The loop of a call that is not touched, in notice or row, stands as it stood.
LEMMA UntouchedLoop ==
  ASSUME SendInv, NEW d \in Calls, notice'[d] = notice[d],
         \A k \in Channels : row'[<<d, k>>] = row[<<d, k>>]
  PROVE  LoopAt(d)'
<1>1. Turn(d)' = Turn(d) /\ Turn(d) \in Channels /\ EMAIL \in Channels
  BY DEF Turn, Channels
<1>2. notice[d] # Resting => notice[d].todo \subseteq Channels
  BY DEF SendInv, ShapeInv, Notices
<1>3. notice[d].at \in {"next", "send"} => notice[d] # Resting
  BY NoticeStates DEF Resting
<1>4. LoopAt(d)
  BY DEF SendInv, LoopInv
<1> QED BY <1>1, <1>2, <1>3, <1>4 DEF LoopAt

LEMMA NotifyKeeps ==
  ASSUME SendInv, NEW c \in Calls, NEW t \in Templates, Notify(c, t)
  PROVE  SendInv'
<1> DEFINE new == [at |-> "next", template |-> t, todo |-> Plan(t), addressed |-> address]
<1>1. /\ notice[c] = Resting /\ notice' = [notice EXCEPT ![c] = new]
      /\ UNCHANGED <<row, delivered, tick, prefs, address, reminded, made>>
  BY DEF Notify
<1>2. Plan(t) \in SUBSET Channels
  BY DEF Plan
<1>3. new \in Notices /\ new.at = "next" /\ new.todo = Plan(t) /\ new.template = t
      /\ new.addressed = address
  BY <1>2 DEF Notices, SendInv, ShapeInv
<1>4. t.known /\ t.essential /\ EMAIL \in address => EMAIL \in Plan(t)
  BY DEF Plan, Sendable, ChannelAllowed, CanSend, Channels, EMAIL, LINE
<1> HIDE DEF new
<1>5. notice \in [Calls -> {Resting} \cup Notices]
  BY DEF SendInv, ShapeInv
<1>6. notice'[c] = new /\ \A d \in Calls \ {c} : notice'[d] = notice[d]
  BY <1>1, <1>5
<1>7. ShapeInv'
  BY <1>1, <1>3, <1>5 DEF SendInv, ShapeInv
<1>8. AttemptsInv'
  BY <1>1, <1>7, NoNewSend DEF SendInv
<1>9. LoopAt(c)'
  <2>1. \A ch \in Channels : row[<<c, ch>>] = Unwritten
    BY <1>1 DEF SendInv, LoopInv, LoopAt
  <2>2. notice'[c] = new /\ notice'[c] # Resting
    BY <1>3, <1>6, NoticeStates
  <2> QED BY <1>1, <1>2, <1>3, <1>4, <2>1, <2>2 DEF LoopAt
<1>10. LoopInv'
  BY <1>1, <1>6, <1>9, UntouchedLoop DEF LoopInv
<1> QED BY <1>7, <1>8, <1>10 DEF SendInv

\* What the loop of call c does to other calls: nothing.
LEMMA OtherCalls ==
  ASSUME SendInv, NEW c \in Calls, NEW ch \in Channels, NEW n \in Notices, NEW w \in WrittenRows,
         notice' = [notice EXCEPT ![c] = n],
         row' = [row EXCEPT ![<<c, ch>>] = w]
  PROVE  /\ notice' \in [Calls -> {Resting} \cup Notices]
         /\ row' \in [Rows -> {Unwritten} \cup WrittenRows]
         /\ notice'[c] = n /\ \A d \in Calls \ {c} : notice'[d] = notice[d]
         /\ row'[<<c, ch>>] = w /\ \A r \in Rows \ {<<c, ch>>} : row'[r] = row[r]
         /\ w # Unwritten
<1>1. <<c, ch>> \in Rows
  BY DEF Rows
<1>2. w # Unwritten
  BY DEF WrittenRows, Unwritten
<1> QED BY <1>1, <1>2 DEF SendInv, ShapeInv

LEMMA QueueKeeps ==
  ASSUME SendInv, NEW c \in Calls, Queue(c)
  PROVE  SendInv'
<1> DEFINE ch == Turn(c)
           todo == notice[c].todo
           n == [notice[c] EXCEPT !.at = "send"]
           w == [status |-> "QUEUED", attempts |-> 0]
<1>1. /\ notice[c].at = "next" /\ todo # {}
      /\ row' = [row EXCEPT ![<<c, ch>>] = w] /\ notice' = [notice EXCEPT ![c].at = "send"]
      /\ made' = Append(made, <<c, ch>>)
      /\ UNCHANGED <<delivered, tick, prefs, address, reminded>>
  BY DEF Queue
<1>2. notice[c] \in Notices
  BY <1>1, NoticeStates DEF SendInv, ShapeInv, Resting
<1>3. /\ n \in Notices /\ n.at = "send" /\ n.todo = todo /\ n.template = notice[c].template
      /\ n.addressed = notice[c].addressed
      /\ notice' = [notice EXCEPT ![c] = n]
  BY <1>1, <1>2 DEF Notices, SendInv, ShapeInv
<1>4. w \in WrittenRows /\ w.status = "QUEUED" /\ w.attempts = 0
  BY OutboxAssumption DEF WrittenRows
<1>5. ch \in todo /\ ch \in Channels /\ todo \subseteq Channels
  BY <1>1, <1>2 DEF Turn, Channels, Notices
<1>6. Turn(c)' = ch
  BY <1>1, <1>2, <1>3 DEF Turn, SendInv, ShapeInv
<1> HIDE DEF ch, n, w
<1>7. /\ notice' \in [Calls -> {Resting} \cup Notices]
      /\ row' \in [Rows -> {Unwritten} \cup WrittenRows]
      /\ notice'[c] = n /\ \A d \in Calls \ {c} : notice'[d] = notice[d]
      /\ row'[<<c, ch>>] = w /\ \A r \in Rows \ {<<c, ch>>} : row'[r] = row[r]
      /\ w # Unwritten
  <2>1. notice' = [notice EXCEPT ![c] = n] /\ row' = [row EXCEPT ![<<c, ch>>] = w]
    BY <1>1, <1>3
  <2>2. n \in Notices /\ w \in WrittenRows /\ ch \in Channels
    BY <1>3, <1>4, <1>5
  <2> HIDE DEF todo
  <2> QED BY <2>1, <2>2, OtherCalls
<1>8. ShapeInv'
  <2>1. <<c, ch>> \in Rows
    BY <1>5 DEF Rows
  <2>2. made' \in Seq(Rows)
    BY <1>1, <2>1 DEF SendInv, ShapeInv
  <2> QED BY <1>1, <1>7, <2>2 DEF SendInv, ShapeInv
<1>9. \A r \in Rows : Resending(r)' = Resending(r)
  BY <1>1 DEF Resending
<1>10. AttemptsInv'
  <2> SUFFICES ASSUME NEW r \in Rows
               PROVE  /\ row'[r].status \in {"none", "QUEUED"} => row'[r].attempts = 0
                      /\ delivered[r] + Cardinality(Resending(r)) <= row'[r].attempts
    BY <1>1, <1>9 DEF AttemptsInv
  <2>1. CASE r = <<c, ch>>
    <3>1. row[r] = Unwritten
      BY <1>1, <1>5, <2>1 DEF SendInv, LoopInv, LoopAt
    <3>2. row[r].attempts = 0 /\ row'[r].attempts = 0
      BY <1>4, <1>7, <2>1, <3>1 DEF Unwritten
    <3> QED BY <3>2 DEF SendInv, AttemptsInv
  <2>2. CASE r # <<c, ch>>
    BY <1>7, <2>2 DEF SendInv, AttemptsInv
  <2> QED BY <2>1, <2>2
<1>11. LoopAt(c)'
  <2>1. n # Resting
    BY <1>3, NoticeStates
  <2>2. \A k \in todo \ {ch} : row'[<<c, k>>] = Unwritten
    <3>1. \A k \in todo \ {ch} : <<c, k>> \in Rows \ {<<c, ch>>} /\ row[<<c, k>>] = Unwritten
      BY <1>1, <1>5 DEF Rows, SendInv, LoopInv, LoopAt
    <3> QED BY <1>7, <3>1
  <2>3. \/ ~(n.template.known /\ n.template.essential /\ EMAIL \in n.addressed)
        \/ EMAIL \in todo \/ row'[<<c, EMAIL>>] # Unwritten
    <3>1. notice[c] # Resting /\ <<c, EMAIL>> \in Rows
      BY <1>2, NoticeStates DEF Rows, Channels
    <3>2. LoopAt(c)
      BY DEF SendInv, LoopInv
    <3> QED BY <1>3, <1>7, <3>1, <3>2 DEF LoopAt
  <2> QED BY <1>3, <1>4, <1>5, <1>6, <1>7, <2>1, <2>2, <2>3 DEF LoopAt
<1>12. LoopInv'
  <2> SUFFICES ASSUME NEW d \in Calls, d # c PROVE LoopAt(d)'
    BY <1>11 DEF LoopInv
  <2>1. \A k \in Channels : row'[<<d, k>>] = row[<<d, k>>]
    BY <1>7 DEF Rows
  <2> QED BY <1>7, <2>1, UntouchedLoop
<1> QED BY <1>8, <1>10, <1>12 DEF SendInv

LEMMA OutcomeKeeps ==
  ASSUME SendInv, NEW c \in Calls, NEW ok \in BOOLEAN, NEW reached \in BOOLEAN,
         Outcome(c, ok, reached)
  PROVE  SendInv'
<1> DEFINE ch == Turn(c)
           todo == notice[c].todo
           n == [notice[c] EXCEPT !.at = "next", !.todo = @ \ {ch}]
           w == [status |-> IF ok THEN "SENT" ELSE "FAILED", attempts |-> 1]
<1>1. /\ notice[c].at = "send" /\ Answer(<<c, ch>>, ok, reached)
      /\ row' = [row EXCEPT ![<<c, ch>>] = w]
      /\ notice' = [notice EXCEPT ![c].at = "next", ![c].todo = @ \ {ch}]
      /\ UNCHANGED <<tick, prefs, address, reminded, made>>
  BY DEF Outcome
<1>2. notice[c] \in Notices
  BY <1>1, NoticeStates DEF SendInv, ShapeInv, Resting
<1>3. /\ n \in Notices /\ n.at = "next" /\ n.todo = todo \ {ch} /\ n.template = notice[c].template
      /\ n.addressed = notice[c].addressed
      /\ notice' = [notice EXCEPT ![c] = n]
  BY <1>1, <1>2 DEF Notices, SendInv, ShapeInv
<1>4. w \in WrittenRows /\ w.status \notin {"none", "QUEUED"} /\ w.attempts = 1
  BY OutboxAssumption DEF WrittenRows
<1>5. LoopAt(c) /\ notice[c] # Resting
  BY <1>2, NoticeStates DEF SendInv, LoopInv
<1>6. ch \in todo /\ ch \in Channels /\ todo \subseteq Channels /\ row[<<c, ch>>].status = "QUEUED"
  BY <1>1, <1>2, <1>5 DEF LoopAt, Notices
<1> HIDE DEF ch, n, w
<1>7. /\ notice' \in [Calls -> {Resting} \cup Notices]
      /\ row' \in [Rows -> {Unwritten} \cup WrittenRows]
      /\ notice'[c] = n /\ \A d \in Calls \ {c} : notice'[d] = notice[d]
      /\ row'[<<c, ch>>] = w /\ \A r \in Rows \ {<<c, ch>>} : row'[r] = row[r]
      /\ w # Unwritten
  <2>1. notice' = [notice EXCEPT ![c] = n] /\ row' = [row EXCEPT ![<<c, ch>>] = w]
    BY <1>1, <1>3
  <2>2. n \in Notices /\ w \in WrittenRows /\ ch \in Channels
    BY <1>3, <1>4, <1>6
  <2> HIDE DEF todo
  <2> QED BY <2>1, <2>2, OtherCalls
<1>8. /\ delivered' \in [Rows -> Nat] /\ delivered'[<<c, ch>>] <= delivered[<<c, ch>>] + 1
      /\ \A r \in Rows \ {<<c, ch>>} : delivered'[r] = delivered[r]
  <2>1. <<c, ch>> \in Rows /\ ShapeInv
    BY <1>6 DEF Rows, SendInv
  <2> QED BY <1>1, <2>1, AnswerCounts
<1>9. ShapeInv'
  BY <1>1, <1>7, <1>8 DEF SendInv, ShapeInv
<1>10. \A r \in Rows : Resending(r)' = Resending(r)
  BY <1>1 DEF Resending
<1>11. AttemptsInv'
  <2> SUFFICES ASSUME NEW r \in Rows
               PROVE  /\ row'[r].status \in {"none", "QUEUED"} => row'[r].attempts = 0
                      /\ delivered'[r] + Cardinality(Resending(r)) <= row'[r].attempts
    BY <1>10 DEF AttemptsInv
  <2>1. CASE r = <<c, ch>>
    <3>1. row[r].attempts = 0 /\ delivered[r] + Cardinality(Resending(r)) <= row[r].attempts
      BY <1>6, <2>1 DEF SendInv, AttemptsInv
    <3>2. delivered[r] \in Nat /\ delivered'[r] \in Nat /\ Cardinality(Resending(r)) \in Nat
      BY <1>8, ResendingCounted DEF SendInv, ShapeInv
    <3>3. delivered'[r] <= delivered[r] + 1
      BY <1>8, <2>1
    <3>4. row'[r].attempts = 1 /\ row'[r].status \notin {"none", "QUEUED"}
      BY <1>4, <1>7, <2>1
    <3>5. delivered'[r] + Cardinality(Resending(r)) <= 1
      BY <3>1, <3>2, <3>3
    <3> QED BY <3>4, <3>5
  <2>2. CASE r # <<c, ch>>
    BY <1>7, <1>8, <2>2 DEF SendInv, AttemptsInv
  <2> QED BY <2>1, <2>2
<1>12. LoopAt(c)'
  <2>1. n # Resting
    BY <1>3, NoticeStates
  <2>2. \A k \in todo \ {ch} : row'[<<c, k>>] = Unwritten
    <3>1. \A k \in todo \ {ch} : <<c, k>> \in Rows \ {<<c, ch>>} /\ row[<<c, k>>] = Unwritten
      BY <1>1, <1>5, <1>6 DEF Rows, LoopAt, ch
    <3> QED BY <1>7, <3>1
  <2>3. \/ ~(n.template.known /\ n.template.essential /\ EMAIL \in n.addressed)
        \/ EMAIL \in todo \ {ch} \/ row'[<<c, EMAIL>>] # Unwritten
    <3>1. <<c, EMAIL>> \in Rows
      BY DEF Rows, Channels
    <3> QED BY <1>3, <1>5, <1>7, <3>1 DEF LoopAt
  <2> QED BY <1>3, <1>7, <2>1, <2>2, <2>3 DEF LoopAt
<1>13. LoopInv'
  <2> SUFFICES ASSUME NEW d \in Calls, d # c PROVE LoopAt(d)'
    BY <1>12 DEF LoopInv
  <2>1. \A k \in Channels : row'[<<d, k>>] = row[<<d, k>>]
    BY <1>7 DEF Rows
  <2> QED BY <1>7, <2>1, UntouchedLoop
<1> QED BY <1>9, <1>11, <1>13 DEF SendInv

\* The loop ends, or the server does.
LEMMA LoopEnds ==
  ASSUME SendInv, NEW c \in Calls, Returns(c) \/ NotifyDies(c)
  PROVE  SendInv'
<1>1. PICK end \in {"returned", "died"} :
        /\ notice[c].at \in {"next", "send"} /\ (end = "returned" => notice[c].todo = {})
        /\ notice' = [notice EXCEPT ![c].at = end]
        /\ UNCHANGED <<row, delivered, tick, prefs, address, reminded, made>>
  BY DEF Returns, NotifyDies
<1> DEFINE n == [notice[c] EXCEPT !.at = end]
<1>2. notice[c] \in Notices /\ notice[c] # Resting
  BY <1>1, NoticeStates DEF SendInv, ShapeInv, Resting
<1>3. /\ n \in Notices /\ n.at = end /\ n.todo = notice[c].todo /\ n.template = notice[c].template
      /\ n.addressed = notice[c].addressed
      /\ notice' = [notice EXCEPT ![c] = n] /\ notice \in [Calls -> {Resting} \cup Notices]
  BY <1>1, <1>2 DEF Notices, SendInv, ShapeInv
<1> HIDE DEF n
<1>4. notice'[c] = n /\ \A d \in Calls \ {c} : notice'[d] = notice[d]
  BY <1>3
<1>5. ShapeInv'
  BY <1>1, <1>3 DEF SendInv, ShapeInv
<1>6. AttemptsInv'
  BY <1>1, <1>5, NoNewSend DEF SendInv
<1>7. LoopAt(c)'
  <2>1. LoopAt(c) /\ n # Resting
    BY <1>3, NoticeStates DEF SendInv, LoopInv
  <2> QED BY <1>1, <1>2, <1>3, <1>4, <2>1 DEF LoopAt
<1>8. LoopInv'
  BY <1>1, <1>4, <1>7, UntouchedLoop DEF LoopInv
<1> QED BY <1>5, <1>6, <1>8 DEF SendInv

-----------------------------------------------------------------------------
(* Settings and the tick                                                     *)

\* What normalizePrefs returns can be stored, and lets the same notices through.
LEMMA NormalizeStores ==
  ASSUME NEW raw, NEW essential \in BOOLEAN
  PROVE  Normalize(raw, essential) \in [email : Switch, line : Switch]
BY DEF Normalize, Switch

LEMMA SavePrefsKeeps ==
  ASSUME SendInv, (\E raw \in Matrix : SavePrefs(raw)) \/ DeleteAccount
  PROVE  SendInv'
<1>1. /\ prefs' \in {NoPrefs} \cup Matrix /\ address' \subseteq Channels
      /\ UNCHANGED <<notice, row, made, delivered, tick, reminded>>
  <2>1. ASSUME NEW raw \in Matrix, SavePrefs(raw) PROVE prefs' \in Matrix
    <3>1. \A g \in Groups : (g = "essential") \in BOOLEAN
      OBVIOUS
    <3>2. \A g \in Groups : Normalize(raw[g], g = "essential") \in [email : Switch, line : Switch]
      BY <3>1, NormalizeStores
    <3> QED BY <2>1, <3>2 DEF SavePrefs, Matrix
  <2> QED BY <2>1 DEF SavePrefs, DeleteAccount, SendInv, ShapeInv
<1>2. ShapeInv'
  BY <1>1 DEF SendInv, ShapeInv
<1>3. AttemptsInv'
  BY <1>1, <1>2, NoNewSend DEF SendInv
<1>4. LoopInv'
  BY <1>1, UntouchedLoop DEF LoopInv
<1> QED BY <1>2, <1>3, <1>4 DEF SendInv

\* The steps of a tick that write no row and send nothing.
QuietTick(i) ==
  \/ TickStarts(i) \/ RemindReads(i) \/ RemindClaims(i) \/ SweepEnds(i) \/ TickEnds(i) \/ Restart(i)
  \/ \E p \in ToRetry : SkipRow(i, p[1], p[2])

LEMMA QuietTickKeeps ==
  ASSUME SendInv, NEW i \in Instances, QuietTick(i)
  PROVE  SendInv'
<1>1. UNCHANGED <<notice, row, delivered, prefs, address, made>> /\ reminded' \in {0, 1}
  BY DEF QuietTick, TickStarts, RemindReads, RemindClaims, SweepEnds, TickEnds, Restart, SkipRow,
         SendInv, ShapeInv
<1>2. PICK next \in {Resting} \cup Sweeping \cup Retrying : tick' = [tick EXCEPT ![i] = next]
  <2>1. CASE TickStarts(i) \/ RemindReads(i) \/ RemindClaims(i) \/ TickEnds(i) \/ Restart(i)
    <3>1. [at |-> "remind"] \in Sweeping /\ [at |-> "claim"] \in Sweeping
      BY DEF Sweeping
    <3> QED BY <2>1, <3>1 DEF TickStarts, RemindReads, RemindClaims, TickEnds, Restart
  <2>2. CASE SweepEnds(i)
    <3> DEFINE todo == Listing(Due)
    <3>1. \A r \in Rows : row[r].attempts < MaxAttempts => row[r].attempts \in 0 .. (MaxAttempts - 1)
      BY RowShape, OutboxAssumption DEF SendInv
    <3>2. todo \subseteq ToRetry
      BY <3>1 DEF ToRetry, Listing, Due
    <3> HIDE DEF todo
    <3>3. [at |-> "retry", todo |-> todo] \in Retrying
      BY <3>2 DEF Retrying
    <3> QED BY <2>2, <3>3 DEF SweepEnds, todo
  <2>3. CASE \E p \in ToRetry : SkipRow(i, p[1], p[2])
    <3>1. PICK p \in ToRetry :
            tick[i].at = "retry" /\ tick' = [tick EXCEPT ![i].todo = @ \ {<<p[1], p[2]>>}]
      BY <2>3 DEF SkipRow, Listed
    <3>2. tick[i] \in Retrying
      BY <3>1, TickShape DEF SendInv
    <3>3. [tick[i] EXCEPT !.todo = @ \ {<<p[1], p[2]>>}] \in Retrying
      BY <3>2 DEF Retrying
    <3>4. tick' = [tick EXCEPT ![i] = [tick[i] EXCEPT !.todo = @ \ {<<p[1], p[2]>>}]]
      BY <3>1, <3>2 DEF SendInv, ShapeInv
    <3> QED BY <3>3, <3>4
  <2> QED BY <2>1, <2>2, <2>3 DEF QuietTick
<1>3. next.at # "resend"
  BY <1>2 DEF Resting, Sweeping, Retrying
<1>4. /\ tick' \in [Instances -> {Resting} \cup Sweeping \cup Retrying \cup Resends]
      /\ tick'[i] = next /\ \A j \in Instances \ {i} : tick'[j] = tick[j]
  BY <1>2 DEF SendInv, ShapeInv
<1>5. ShapeInv'
  BY <1>1, <1>4 DEF SendInv, ShapeInv
<1>6. AttemptsInv'
  BY <1>1, <1>3, <1>4, <1>5, NoNewSend DEF SendInv
<1>7. LoopInv'
  BY <1>1, UntouchedLoop DEF LoopInv
<1> QED BY <1>5, <1>6, <1>7 DEF SendInv

\* A row that went out once is none that a loop still waits for.
LEMMA RetryLeavesLoops ==
  ASSUME SendInv, NEW r \in Rows, UNCHANGED notice,
         row[r].status \notin {"none", "QUEUED"}, row'[r] # Unwritten,
         \A q \in Rows \ {r} : row'[q] = row[q]
  PROVE  LoopInv'
<1> SUFFICES ASSUME NEW c \in Calls PROVE LoopAt(c)'
  BY DEF LoopInv
<1>1. Turn(c)' = Turn(c) /\ Turn(c) \in Channels /\ EMAIL \in Channels
  BY DEF Turn, Channels
<1>2. \A ch \in Channels : <<c, ch>> \in Rows
  BY DEF Rows
<1>3. notice[c] # Resting => notice[c].todo \subseteq Channels
  BY DEF SendInv, ShapeInv, Notices
<1>4. notice[c].at \in {"next", "send"} => notice[c] # Resting
  BY NoticeStates DEF Resting
<1>5. LoopAt(c)
  BY DEF SendInv, LoopInv
<1>6. \A q \in Rows : row[q] = Unwritten \/ row[q].status = "QUEUED" => row'[q] = row[q]
  BY DEF Unwritten
<1>7. \A q \in Rows : row[q] # Unwritten => row'[q] # Unwritten
  OBVIOUS
<1> QED BY <1>1, <1>2, <1>3, <1>4, <1>5, <1>6, <1>7 DEF LoopAt

LEMMA ClaimKeeps ==
  ASSUME SendInv, NEW i \in Instances, NEW r \in Rows, NEW k \in 0 .. (MaxAttempts - 1),
         Claim(i, r, k)
  PROVE  SendInv'
<1>1. /\ tick[i].at = "retry" /\ UNCHANGED <<notice, delivered, prefs, address, reminded, made>>
  BY DEF Claim, Listed
<1>2. tick[i] \in Retrying
  BY <1>1, TickShape DEF SendInv
<1> DEFINE rest == tick[i].todo \ {<<r, k>>}
           sending == [at |-> "resend", row |-> r, todo |-> rest]
           passing == [at |-> "retry", todo |-> rest]
           w == [row[r] EXCEPT !.attempts = k + 1]
<1>3. sending \in Resends /\ sending.at = "resend" /\ sending.row = r
  BY <1>2 DEF Resends, Retrying
<1>4. passing \in Retrying /\ passing.at = "retry"
  BY <1>2 DEF Retrying
<1>5. tick \in [Instances -> {Resting} \cup Sweeping \cup Retrying \cup Resends]
  BY DEF SendInv, ShapeInv
<1>6. CASE row[r].status = "FAILED" /\ row[r].attempts = k
  <2>1. row' = [row EXCEPT ![r] = w] /\ tick' = [tick EXCEPT ![i] = sending]
    BY <1>5, <1>6 DEF Claim, SendInv, ShapeInv
  <2>2. w \in WrittenRows /\ w.status = "FAILED" /\ w.attempts = k + 1
    <3>1. row[r] \in WrittenRows
      BY <1>6, RowShape DEF SendInv, Unwritten
    <3>2. k + 1 \in 0 .. MaxAttempts
      BY OutboxAssumption
    <3> QED BY <1>6, <3>1, <3>2 DEF WrittenRows
  <2> HIDE DEF sending, w, rest
  <2>3. row'[r] = w /\ \A q \in Rows \ {r} : row'[q] = row[q]
    BY <2>1 DEF SendInv, ShapeInv
  <2>4. tick'[i] = sending /\ \A j \in Instances \ {i} : tick'[j] = tick[j]
    BY <1>5, <2>1
  <2>5. ShapeInv'
    BY <1>1, <1>3, <1>5, <2>1, <2>2 DEF SendInv, ShapeInv
  <2>6. Resending(r)' = Resending(r) \cup {i} /\ i \notin Resending(r)
    BY <1>1, <1>3, <2>4 DEF Resending
  <2>7. \A q \in Rows \ {r} : Resending(q)' = Resending(q)
    BY <1>1, <1>3, <2>4 DEF Resending
  <2>8. Cardinality(Resending(r)') = Cardinality(Resending(r)) + 1
    BY <2>6, ResendingCounted, FS_AddElement
  <2>9. AttemptsInv'
    <3> SUFFICES ASSUME NEW q \in Rows
                 PROVE  /\ row'[q].status \in {"none", "QUEUED"} => row'[q].attempts = 0
                        /\ delivered[q] + Cardinality(Resending(q)') <= row'[q].attempts
      BY <1>1 DEF AttemptsInv
    <3>1. CASE q = r
      <4>1. delivered[r] + Cardinality(Resending(r)) <= k
        BY <1>6 DEF SendInv, AttemptsInv
      <4>2. delivered[r] \in Nat /\ Cardinality(Resending(r)) \in Nat /\ k \in Nat
        BY ResendingCounted DEF SendInv, ShapeInv
      <4>3. delivered[r] + Cardinality(Resending(r)') <= k + 1
        BY <2>8, <4>1, <4>2
      <4> QED BY <2>2, <2>3, <3>1, <4>3
    <3>2. CASE q # r
      BY <2>3, <2>7, <3>2 DEF SendInv, AttemptsInv
    <3> QED BY <3>1, <3>2
  <2>10. LoopInv'
    <3>1. w # Unwritten /\ row[r].status \notin {"none", "QUEUED"}
      BY <1>6, <2>2 DEF Unwritten
    <3> QED BY <1>1, <2>3, <3>1, RetryLeavesLoops
  <2> QED BY <2>5, <2>9, <2>10 DEF SendInv
<1>7. CASE ~(row[r].status = "FAILED" /\ row[r].attempts = k)
  <2>1. row' = row /\ tick' = [tick EXCEPT ![i] = passing]
    BY <1>5, <1>7 DEF Claim
  <2>2. tick'[i] = passing /\ \A j \in Instances \ {i} : tick'[j] = tick[j]
    BY <1>5, <2>1
  <2>3. ShapeInv'
    BY <1>1, <1>4, <1>5, <2>1 DEF SendInv, ShapeInv
  <2>4. AttemptsInv'
    BY <1>1, <1>4, <2>1, <2>2, <2>3, NoNewSend DEF SendInv
  <2>5. LoopInv'
    BY <1>1, <2>1, UntouchedLoop DEF LoopInv
  <2> QED BY <2>3, <2>4, <2>5 DEF SendInv
<1> QED BY <1>6, <1>7

LEMMA ResendKeeps ==
  ASSUME SendInv, NEW i \in Instances, NEW ok \in BOOLEAN, NEW reached \in BOOLEAN,
         Resend(i, ok, reached)
  PROVE  SendInv'
<1>0. tick[i].at = "resend" /\ tick[i] \in Resends
  BY TickShape DEF Resend, SendInv
<1>r. PICK r \in Rows : r = tick[i].row
  BY <1>0 DEF Resends
<1> DEFINE back == [at |-> "retry", todo |-> tick[i].todo]
           w == IF ok THEN [row[r] EXCEPT !.status = "SENT"] ELSE row[r]
<1>1. /\ tick[i].at = "resend" /\ Answer(r, ok, reached)
      /\ UNCHANGED <<notice, prefs, address, reminded, made>>
  BY <1>r DEF Resend
<1>3. back \in Retrying /\ back.at = "retry"
  BY <1>0 DEF Resends, Retrying
<1>4. tick \in [Instances -> {Resting} \cup Sweeping \cup Retrying \cup Resends]
  BY DEF SendInv, ShapeInv
<1>5. i \in Resending(r) /\ Cardinality(Resending(r)) \in Nat \ {0}
  <2>1. i \in Resending(r)
    BY <1>1, <1>r DEF Resending
  <2>2. Cardinality(Resending(r)) # 0
    BY <2>1, ResendingCounted, FS_EmptySet
  <2> QED BY <2>1, <2>2, ResendingCounted
<1>6. /\ delivered[r] \in Nat /\ delivered[r] + Cardinality(Resending(r)) <= row[r].attempts
      /\ row[r].attempts \in Nat
  BY RowShape DEF SendInv, AttemptsInv, ShapeInv
<1>7. row[r].status \notin {"none", "QUEUED"} /\ row[r] \in WrittenRows
  <2>1. row[r].attempts # 0
    BY <1>5, <1>6
  <2>2. row[r].status \notin {"none", "QUEUED"}
    BY <1>3, <2>1 DEF SendInv, AttemptsInv
  <2> QED BY <1>3, <2>2, RowShape DEF SendInv
<1>8. row' = [row EXCEPT ![r] = w] /\ tick' = [tick EXCEPT ![i] = back]
  <2>1. CASE ok
    BY <1>r, <2>1 DEF Resend, SendInv, ShapeInv
  <2>2. CASE ~ok
    <3>1. row' = row /\ w = row[r]
      BY <1>r, <2>2 DEF Resend
    <3> QED BY <3>1 DEF Resend, SendInv, ShapeInv
  <2> QED BY <2>1, <2>2
<1>9. w \in WrittenRows /\ w.attempts = row[r].attempts /\ w.status \notin {"none", "QUEUED"}
  BY <1>7 DEF WrittenRows
<1>10. /\ delivered' \in [Rows -> Nat] /\ delivered'[r] <= delivered[r] + 1
       /\ \A q \in Rows \ {r} : delivered'[q] = delivered[q]
  BY <1>1, <1>3, AnswerCounts DEF SendInv
<1> HIDE DEF back, w
<1>11. row'[r] = w /\ \A q \in Rows \ {r} : row'[q] = row[q]
  BY <1>3, <1>8 DEF SendInv, ShapeInv
<1>12. tick'[i] = back /\ \A j \in Instances \ {i} : tick'[j] = tick[j]
  BY <1>4, <1>8
<1>13. ShapeInv'
  BY <1>1, <1>3, <1>4, <1>8, <1>9, <1>10 DEF SendInv, ShapeInv
<1>14. Resending(r)' = Resending(r) \ {i} /\ \A q \in Rows \ {r} : Resending(q)' = Resending(q)
  BY <1>0, <1>r, <1>3, <1>12 DEF Resending
<1>15. Cardinality(Resending(r)') = Cardinality(Resending(r)) - 1
  BY <1>5, <1>14, ResendingCounted, FS_RemoveElement
<1>16. AttemptsInv'
  <2> SUFFICES ASSUME NEW q \in Rows
               PROVE  /\ row'[q].status \in {"none", "QUEUED"} => row'[q].attempts = 0
                      /\ delivered'[q] + Cardinality(Resending(q)') <= row'[q].attempts
    BY DEF AttemptsInv
  <2>1. CASE q = r
    <3>1. delivered'[r] \in Nat
      BY <1>3, <1>10
    <3>2. delivered'[r] + Cardinality(Resending(r)') <= row[r].attempts
      BY <1>5, <1>6, <1>10, <1>15, <3>1
    <3> QED BY <1>9, <1>11, <2>1, <3>2
  <2>2. CASE q # r
    BY <1>10, <1>11, <1>14, <2>2 DEF SendInv, AttemptsInv
  <2> QED BY <2>1, <2>2
<1>17. LoopInv'
  <2>1. w # Unwritten
    BY <1>9 DEF Unwritten
  <2> QED BY <1>1, <1>3, <1>7, <1>11, <2>1, RetryLeavesLoops
<1> QED BY <1>13, <1>16, <1>17 DEF SendInv

-----------------------------------------------------------------------------
LEMMA StepKeeps ==
  ASSUME SendInv, [OutboxNext]_outVars
  PROVE  SendInv'
<1>1. CASE OutboxNext
  <2>1. ASSUME NEW c \in Calls,
               \/ Sends(c) \/ NotifyDies(c)
               \/ \E t \in Templates : Notify(c, t)
        PROVE  SendInv'
    BY <2>1, NotifyKeeps, QueueKeeps, OutcomeKeeps, LoopEnds DEF Sends
  <2>2. ASSUME NEW i \in Instances, Ticks(i) \/ Restart(i) PROVE SendInv'
    <3>1. CASE QuietTick(i)
      BY <3>1, QuietTickKeeps
    <3>2. CASE \E ok, reached \in BOOLEAN : Resend(i, ok, reached)
      BY <3>2, ResendKeeps
    <3>3. ASSUME NEW p \in (IF tick[i].at = "retry" THEN tick[i].todo ELSE {}),
                 Claim(i, p[1], p[2]) \/ SkipRow(i, p[1], p[2])
          PROVE  SendInv'
      <4>1. p \in ToRetry
        <5>1. tick[i].at = "retry" /\ p \in tick[i].todo
          BY <3>3
        <5>2. tick[i] \in Retrying
          BY <5>1, TickShape DEF SendInv
        <5> QED BY <5>1, <5>2 DEF Retrying
      <4>2. p[1] \in Rows /\ p[2] \in 0 .. (MaxAttempts - 1)
        BY <4>1 DEF ToRetry
      <4>3. CASE Claim(i, p[1], p[2])
        BY <4>2, <4>3, ClaimKeeps
      <4>4. CASE SkipRow(i, p[1], p[2])
        <5>1. QuietTick(i)
          BY <4>1, <4>4 DEF QuietTick
        <5> QED BY <5>1, QuietTickKeeps
      <4> QED BY <3>3, <4>3, <4>4
    <3> QED BY <2>2, <3>1, <3>2, <3>3 DEF Ticks, QuietTick
  <2> QED BY <1>1, <2>1, <2>2, SavePrefsKeeps DEF OutboxNext
<1>2. CASE UNCHANGED outVars
  <2>1. UNCHANGED <<notice, row, delivered, tick, prefs, address, reminded, made>>
    BY <1>2 DEF outVars
  <2>2. ShapeInv'
    BY <2>1 DEF SendInv, ShapeInv
  <2>3. AttemptsInv'
    BY <2>1, <2>2, NoNewSend DEF SendInv
  <2>4. LoopInv'
    BY <2>1, UntouchedLoop DEF LoopInv
  <2> QED BY <2>2, <2>3, <2>4 DEF SendInv
<1> QED BY <1>1, <1>2

LEMMA TemplateShape == \A t \in Templates : t.grouped \in BOOLEAN /\ t.essential \in BOOLEAN
<1>1. ASSUME NEW key \in Keys
      PROVE  Template(key).grouped \in BOOLEAN /\ Template(key).essential \in BOOLEAN
  BY DEF Template
<1> QED BY <1>1 DEF Templates

\* What the settings form stores lets the same notices through as what it was given,
\* for every set of templates (normalizePrefs, channelAllowed: prefs.ts).
THEOREM SavingKeepsMeaning == NormalizeKeepsMeaning
<1> SUFFICES ASSUME NEW email \in Cell, NEW line \in Cell, NEW t \in Templates,
                    NEW ch \in Channels
             PROVE  LET raw == [email |-> email, line |-> line] IN
                    ChannelAllowed(Normalize(raw, t.essential), t, ch) = ChannelAllowed(raw, t, ch)
  BY DEF NormalizeKeepsMeaning
<1>1. t.grouped \in BOOLEAN /\ t.essential \in BOOLEAN
  BY TemplateShape
<1>2. CASE ch = EMAIL
  BY <1>1, <1>2 DEF ChannelAllowed, Normalize, IsOn
<1>3. CASE ch # EMAIL
  BY <1>1, <1>3 DEF ChannelAllowed, Normalize, IsOn
<1> QED BY <1>2, <1>3

LEMMA SendInvImplies == SendInv => OutboxInv
<1> SUFFICES ASSUME SendInv PROVE OutboxInv
  OBVIOUS
<1>1. OutboxTypeOK
  <2>1. \A r \in Rows : row[r] # Unwritten =>
          row[r].status \in {"QUEUED", "SENT", "FAILED"} /\ row[r].attempts \in 0 .. MaxAttempts
    BY RowShape DEF SendInv, WrittenRows
  <2> QED BY <2>1 DEF SendInv, ShapeInv, OutboxTypeOK
<1>2. EachSendIsAnAttempt
  <2> SUFFICES ASSUME NEW r \in Rows
               PROVE  delivered[r] <= row[r].attempts + (IF row[r].status = "QUEUED" THEN 1 ELSE 0)
    BY DEF EachSendIsAnAttempt
  <2>1. delivered[r] + Cardinality(Resending(r)) <= row[r].attempts
    BY DEF SendInv, AttemptsInv
  <2>2. delivered[r] \in Nat /\ row[r].attempts \in Nat /\ Cardinality(Resending(r)) \in Nat
    BY RowShape, ResendingCounted DEF SendInv, ShapeInv
  <2> QED BY <2>1, <2>2
<1>3. OneReminder
  BY DEF SendInv, ShapeInv, OneReminder
<1>4. EssentialEmailIsLogged
  <2> SUFFICES ASSUME NEW c \in Calls, notice[c].at = "returned",
                      notice[c].template.known, notice[c].template.essential,
                      EMAIL \in notice[c].addressed
               PROVE  row[<<c, EMAIL>>] # Unwritten
    BY DEF EssentialEmailIsLogged
  <2>1. notice[c] # Resting /\ LoopAt(c)
    BY NoticeStates DEF SendInv, LoopInv, Resting
  <2> QED BY <2>1 DEF LoopAt
<1> QED BY <1>1, <1>2, <1>3, <1>4, SavingKeepsMeaning DEF OutboxInv

\* However many instances tick, overlap and restart, and whatever answers are lost: a
\* notice goes out at most once for each attempt its row counts, a payment reminder is
\* claimed once, and no setting silences an essential email (retry.ts, scheduler.ts).
THEOREM SendsAreCounted == OutboxSpec => []OutboxInv
<1>1. OutboxInit => SendInv
  BY InitEstablishes
<1>2. SendInv /\ [OutboxNext]_outVars => SendInv'
  BY StepKeeps
<1> QED BY <1>1, <1>2, SendInvImplies, PTL DEF OutboxSpec

-----------------------------------------------------------------------------
(* What no instance takes back.                                              *)

\* A row is written once and ends in SENT, whatever a slower instance reports then;
\* it counts one attempt at a time, and none any more once it is SENT.
RowAdvances(r) ==
  /\ row[r].status = "SENT" => row'[r] = row[r]
  /\ row[r].status = "FAILED" => row'[r].status \in {"FAILED", "SENT"}
  /\ row[r] # Unwritten => row'[r] # Unwritten
  /\ row'[r].attempts \in {row[r].attempts, row[r].attempts + 1}

LogAdvances == \A r \in Rows : RowAdvances(r) /\ delivered'[r] >= delivered[r]

LEMMA RestingLog ==
  ASSUME SendInv, UNCHANGED <<row, delivered>>
  PROVE  LogAdvances
<1>1. \A r \in Rows : delivered[r] \in Nat
  BY DEF SendInv, ShapeInv
<1> QED BY <1>1 DEF LogAdvances, RowAdvances

LEMMA QueueAdvances ==
  ASSUME SendInv, NEW c \in Calls, Queue(c)
  PROVE  LogAdvances
<1> DEFINE w == [status |-> "QUEUED", attempts |-> 0]
<1>1. /\ notice[c].at = "next" /\ notice[c].todo # {} /\ UNCHANGED delivered
      /\ row' = [row EXCEPT ![<<c, Turn(c)>>] = w]
  BY DEF Queue
<1>2. notice[c].todo \subseteq Channels
  BY <1>1, NoticeStates DEF SendInv, ShapeInv, Notices, Resting
<1>3. Turn(c) \in notice[c].todo
  BY <1>1, <1>2 DEF Turn, Channels
<1>4. row[<<c, Turn(c)>>] = Unwritten
  BY <1>1, <1>3 DEF SendInv, LoopInv, LoopAt
<1>5. <<c, Turn(c)>> \in Rows /\ w # Unwritten
  BY <1>2, <1>3 DEF Rows, Unwritten
<1>6. row'[<<c, Turn(c)>>] = w /\ \A r \in Rows \ {<<c, Turn(c)>>} : row'[r] = row[r]
  BY <1>1, <1>5 DEF SendInv, ShapeInv
<1>7. RowAdvances(<<c, Turn(c)>>)
  BY <1>4, <1>5, <1>6 DEF RowAdvances, Unwritten
<1>8. \A r \in Rows : delivered[r] \in Nat
  BY DEF SendInv, ShapeInv
<1> QED BY <1>1, <1>6, <1>7, <1>8 DEF LogAdvances, RowAdvances

LEMMA AnswerGrows ==
  ASSUME SendInv, NEW q \in Rows, NEW ok \in BOOLEAN, NEW reached \in BOOLEAN,
         Answer(q, ok, reached), NEW r \in Rows
  PROVE  delivered'[r] >= delivered[r]
<1>1. delivered \in [Rows -> Nat] /\ delivered[r] \in Nat
  BY DEF SendInv, ShapeInv
<1>2. CASE reached
  BY <1>1, <1>2 DEF Answer
<1>3. CASE ~reached
  BY <1>1, <1>3 DEF Answer
<1> QED BY <1>2, <1>3

LEMMA OutcomeAdvances ==
  ASSUME SendInv, NEW c \in Calls, NEW ok \in BOOLEAN, NEW reached \in BOOLEAN,
         Outcome(c, ok, reached)
  PROVE  LogAdvances
<1> DEFINE q == <<c, Turn(c)>>
           w == [status |-> IF ok THEN "SENT" ELSE "FAILED", attempts |-> 1]
<1>1. notice[c].at = "send" /\ Answer(q, ok, reached) /\ row' = [row EXCEPT ![q] = w]
  BY DEF Outcome
<1>2. notice[c].at = "send" => notice[c] # Resting /\ notice[c].todo \subseteq Channels
  BY NoticeStates DEF SendInv, ShapeInv, Notices, Resting
<1>3. Turn(c) \in notice[c].todo /\ row[q].status = "QUEUED"
  BY <1>1 DEF SendInv, LoopInv, LoopAt
<1>4. q \in Rows
  BY <1>1, <1>2, <1>3 DEF Rows
<1>5. row[q].attempts = 0
  BY <1>3, <1>4 DEF SendInv, AttemptsInv
<1>6. row'[q] = w /\ \A r \in Rows \ {q} : row'[r] = row[r]
  BY <1>1, <1>4 DEF SendInv, ShapeInv
<1>7. w.attempts = 1 /\ w # Unwritten
  BY DEF Unwritten
<1> HIDE DEF w
<1>8. RowAdvances(q)
  BY <1>3, <1>5, <1>6, <1>7 DEF RowAdvances
<1>9. \A r \in Rows : delivered'[r] >= delivered[r]
  BY <1>1, <1>4, AnswerGrows
<1> QED BY <1>6, <1>8, <1>9 DEF LogAdvances, RowAdvances

LEMMA ClaimAdvances ==
  ASSUME SendInv, NEW i \in Instances, NEW r \in Rows, NEW k \in 0 .. (MaxAttempts - 1),
         Claim(i, r, k)
  PROVE  LogAdvances
<1>1. UNCHANGED delivered
  BY DEF Claim
<1>2. CASE row[r].status = "FAILED" /\ row[r].attempts = k
  <2>1. row' = [row EXCEPT ![r].attempts = k + 1]
    BY <1>2 DEF Claim
  <2>2. row[r] \in WrittenRows
    BY <1>2, RowShape DEF SendInv, Unwritten
  <2>3. row'[r] = [row[r] EXCEPT !.attempts = k + 1] /\ \A q \in Rows \ {r} : row'[q] = row[q]
    BY <2>1 DEF SendInv, ShapeInv
  <2>4. row'[r].status = "FAILED" /\ row'[r].attempts = k + 1
    BY <1>2, <2>2, <2>3 DEF WrittenRows
  <2>5. RowAdvances(r)
    BY <1>2, <2>4 DEF RowAdvances, Unwritten
  <2>6. \A q \in Rows \ {r} : RowAdvances(q)
    BY <2>3 DEF RowAdvances
  <2>7. \A q \in Rows : delivered'[q] >= delivered[q]
    BY <1>1 DEF SendInv, ShapeInv
  <2> QED BY <2>5, <2>6, <2>7 DEF LogAdvances
<1>3. CASE ~(row[r].status = "FAILED" /\ row[r].attempts = k)
  <2>1. row' = row
    BY <1>3 DEF Claim
  <2>2. UNCHANGED <<row, delivered>>
    BY <1>1, <2>1
  <2> QED BY <2>2, RestingLog
<1> QED BY <1>2, <1>3

\* Whoever resends has an attempt in the row, so its report never meets a row that is
\* new; a failure writes nothing, and a success that comes second changes nothing.
LEMMA ResendAdvances ==
  ASSUME SendInv, NEW i \in Instances, NEW ok \in BOOLEAN, NEW reached \in BOOLEAN,
         Resend(i, ok, reached)
  PROVE  LogAdvances
<1>1. tick[i].at = "resend" /\ tick[i] \in Resends
  BY TickShape DEF Resend, SendInv
<1>2. PICK r \in Rows : r = tick[i].row
  BY <1>1 DEF Resends
<1>3. Answer(r, ok, reached) /\ row' = IF ok THEN [row EXCEPT ![r].status = "SENT"] ELSE row
  BY <1>2 DEF Resend
<1>4. row[r].status \notin {"none", "QUEUED"}
  <2>1. i \in Resending(r)
    BY <1>1, <1>2 DEF Resending
  <2>2. Cardinality(Resending(r)) # 0
    BY <2>1, ResendingCounted, FS_EmptySet
  <2>3. delivered[r] \in Nat /\ row[r].attempts \in Nat
    BY RowShape DEF SendInv, ShapeInv
  <2>4. row[r].attempts # 0
    BY <2>2, <2>3, ResendingCounted DEF SendInv, AttemptsInv
  <2> QED BY <2>4 DEF SendInv, AttemptsInv
<1>5. row[r] \in WrittenRows
  BY <1>4, RowShape DEF SendInv
<1>6. \A q \in Rows : delivered'[q] >= delivered[q]
  BY <1>3, AnswerGrows
<1>7. CASE ok
  <2>1. row'[r] = [row[r] EXCEPT !.status = "SENT"] /\ \A q \in Rows \ {r} : row'[q] = row[q]
    BY <1>3, <1>7 DEF SendInv, ShapeInv
  <2>2. row'[r].status = "SENT" /\ row'[r].attempts = row[r].attempts
    BY <1>5, <2>1 DEF WrittenRows
  <2>3. row[r].status = "SENT" => row'[r] = row[r]
    BY <1>5, <2>1 DEF WrittenRows
  <2>4. RowAdvances(r)
    BY <2>2, <2>3 DEF RowAdvances, Unwritten
  <2> QED BY <1>6, <2>1, <2>4 DEF LogAdvances, RowAdvances
<1>8. CASE ~ok
  BY <1>3, <1>6, <1>8 DEF LogAdvances, RowAdvances
<1> QED BY <1>7, <1>8

LEMMA StepAdvances ==
  ASSUME SendInv, [OutboxNext]_outVars
  PROVE  LogAdvances
<1>1. ASSUME UNCHANGED <<row, delivered>> PROVE LogAdvances
  BY <1>1, RestingLog
<1>2. ASSUME NEW c \in Calls,
             \/ Sends(c) \/ NotifyDies(c)
             \/ \E t \in Templates : Notify(c, t)
      PROVE  LogAdvances
  <2>1. CASE Queue(c)
    BY <2>1, QueueAdvances
  <2>2. CASE \E ok, reached \in BOOLEAN : Outcome(c, ok, reached)
    BY <2>2, OutcomeAdvances
  <2>3. CASE \/ Returns(c) \/ NotifyDies(c)
             \/ \E t \in Templates : Notify(c, t)
    BY <1>1, <2>3 DEF Returns, NotifyDies, Notify
  <2> QED BY <1>2, <2>1, <2>2, <2>3 DEF Sends
<1>3. ASSUME NEW i \in Instances, Ticks(i) \/ Restart(i) PROVE LogAdvances
  <2>1. CASE QuietTick(i)
    BY <1>1, <2>1 DEF QuietTick, TickStarts, RemindReads, RemindClaims, SweepEnds, TickEnds,
       Restart, SkipRow
  <2>2. CASE \E ok, reached \in BOOLEAN : Resend(i, ok, reached)
    BY <2>2, ResendAdvances
  <2>3. ASSUME NEW p \in (IF tick[i].at = "retry" THEN tick[i].todo ELSE {}),
               Claim(i, p[1], p[2]) \/ SkipRow(i, p[1], p[2])
        PROVE  LogAdvances
    <3>1. p[1] \in Rows /\ p[2] \in 0 .. (MaxAttempts - 1)
      <4>1. tick[i].at = "retry" /\ p \in tick[i].todo
        BY <2>3
      <4>2. tick[i] \in Retrying
        BY <4>1, TickShape DEF SendInv
      <4> QED BY <4>1, <4>2 DEF Retrying, ToRetry
    <3>2. CASE Claim(i, p[1], p[2])
      BY <3>1, <3>2, ClaimAdvances
    <3>3. CASE SkipRow(i, p[1], p[2])
      BY <1>1, <3>3 DEF SkipRow
    <3> QED BY <2>3, <3>2, <3>3
  <2> QED BY <1>3, <2>1, <2>2, <2>3 DEF Ticks, QuietTick
<1>4. ASSUME (\E raw \in Matrix : SavePrefs(raw)) \/ DeleteAccount
      PROVE  LogAdvances
  BY <1>1, <1>4 DEF SavePrefs, DeleteAccount
<1>5. CASE UNCHANGED outVars
  BY <1>1, <1>5 DEF outVars
<1> QED BY <1>2, <1>3, <1>4, <1>5 DEF OutboxNext

\* However the ticks of several instances overlap, stop and report late: what was SENT
\* stays SENT, with the attempts it took, no row is lost, and attempts are counted one by one
\* (retry.ts:51-71).
THEOREM LogOnlyAdvances == OutboxSpec => [][LogAdvances]_outVars
<1>1. OutboxInit => SendInv
  BY InitEstablishes
<1>2. SendInv /\ [OutboxNext]_outVars => SendInv'
  BY StepKeeps
<1>3. SendInv /\ [OutboxNext]_outVars => [LogAdvances]_outVars
  BY StepAdvances
<1> QED BY <1>1, <1>2, <1>3, PTL DEF OutboxSpec
=============================================================================
