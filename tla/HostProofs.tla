------------------------------ MODULE HostProofs ------------------------------
(***************************************************************************)
(* What the pages a host works on promise, for every number of steps,      *)
(* photos, admins, questions and entries, and every choice of cards,       *)
(* calendar and pricing forms.                                             *)
(***************************************************************************)
EXTENDS Wizard, EditPage, Faq, Catalogue, FiniteSetTheorems, WellFoundedInduction, TLAPS

\* Naturals have a least element in every set of them.
LEMMA LeastOf ==
  ASSUME NEW T \in SUBSET Nat, T # {} PROVE \E x \in T : \A y \in T : x <= y
<1> DEFINE R == OpToRel(<, Nat)
<1>1. IsWellFoundedOn(R, Nat)
  BY NatLessThanWellFounded, Zenon
<1>2. \A x, y \in Nat : x < y => <<x, y>> \in R
  BY DEF OpToRel
<1> HIDE DEF R
<1>3. PICK x \in T : \A y \in T : ~ (<<y, x>> \in R)
  BY <1>1, WFMin
<1>4. \A y \in T : ~ (y < x)
  BY <1>2, <1>3
<1> QED BY <1>4

-----------------------------------------------------------------------------
(* Wizard                                                                    *)

Shot == [id : Photos, cover : BOOLEAN]
PhotoRow == [order : 0 .. Cardinality(Photos), cover : BOOLEAN, there : BOOLEAN]
Tabs == [step : 1 .. LastStep, id : BOOLEAN, shown : Seq(Shot), docs : SUBSET Papers, submitted : BOOLEAN]
Drafts == [draft : BOOLEAN, sent : BOOLEAN, photos : [Photos -> PhotoRow], docs : SUBSET Papers]
Flights == {NoFlight, [kind |-> "submit"]} \cup [kind : {"save"}, step : FormSteps]

\* An upload or a removal, and the places where each can wait.
Call == [kind : {"add", "remove", "cover", "document", "undocument"},
         at : {"count", "create", "put", "delete", "promote", "answer", "set", "row", "send", "discard"},
         item : Photos \cup Papers \cup {0}, count : Nat, shown : Seq(Shot),
         papers : SUBSET Papers, mine : BOOLEAN, heeded : BOOLEAN]
Fits(o) ==
  /\ o.kind = "add" <=> o.at \in {"count", "create", "put"}
  /\ o.kind = "remove" <=> o.at \in {"delete", "promote", "answer"}
  /\ o.kind = "cover" <=> o.at = "set"
  /\ o.kind = "document" <=> o.at \in {"row", "send"}
  /\ o.kind = "undocument" <=> o.at = "discard"
  /\ o.kind \in {"remove", "cover"} \/ o.at = "put" => o.item \in Photos
  /\ o.at \in {"send", "discard"} => o.item \in Papers
  /\ o.at \in {"put", "send"} => o.heeded
OpCalls == {Idle} \cup {o \in Call : Fits(o)}

\* The photos that were ever created.
Used == {x \in Photos : store.photos[x].order > 0}

\* A count that a creation relies on was of photos created before.
CountsPast(o) == o.at = "create" => o.count <= Cardinality(Used)

WizardShape ==
  /\ tab \in Tabs /\ store \in Drafts /\ flight \in Flights /\ op \in [Ops -> OpCalls]
  /\ dirty \subseteq FormSteps /\ lost \subseteq FormSteps /\ late \subseteq FormSteps \cup {LastStep}
  /\ crossed \in BOOLEAN /\ behind \in BOOLEAN
  /\ tab.id => store.draft
  /\ Stored \subseteq Used
  /\ \A i \in Ops : CountsPast(op[i])

\* What was typed in a step before the n-th is saved.
SavedBefore(n) == \A k \in dirty : k < n => k \in lost

StepsInv ==
  /\ SavedBefore(tab.step)
  /\ flight.kind = "save" => tab.step <= flight.step /\ SavedBefore(flight.step)
  /\ flight.kind = "submit" \/ tab.submitted => SavedBefore(LastStep)
  /\ tab.submitted => store.sent

\* What the draft is to o while o alone is under way, and what the tab is, unless it
\* was read while a removal was still to land.
ServerSide(o) ==
  /\ o.at = "create" => o.count = Cardinality(Stored)
  /\ o.at = "promote" => \A y \in Stored : ~ store.photos[y].cover
  /\ o.at \in {"promote", "answer"} => o.item \notin Stored
TabSide(o) ==
  /\ o.heeded /\ o.kind \in {"add", "remove", "cover"} => o.shown = tab.shown
  /\ o.heeded /\ o.kind \in {"document", "undocument"} => o.papers = tab.docs
  /\ o.at = "put" => o.item \in Stored \ ShownIds(tab.shown)
  /\ o.kind = "remove" /\ ~ o.heeded => o.item \notin ShownIds(tab.shown)
  /\ \A y \in ShownIds(tab.shown) \ Stored : o.kind = "remove" /\ o.at # "delete" /\ y = o.item
  /\ o.at = "send" => o.item \in store.docs \ tab.docs
  /\ o.kind = "undocument" /\ ~ o.heeded => o.item \notin tab.docs

Covers == {x \in Stored : store.photos[x].cover}
PhotosInv ==
  ~ crossed =>
    /\ \A x, y \in Covers : x = y
    /\ \A i, j \in Ops : op[i] # Idle /\ op[j] # Idle => i = j
    /\ \A i \in Ops : op[i] # Idle => ServerSide(op[i])
    /\ ~ behind =>
         /\ \A i \in Ops : op[i] # Idle => TabSide(op[i])
         /\ (\A i \in Ops : op[i] = Idle) => ShownIds(tab.shown) \subseteq Stored
         /\ tab.docs \subseteq store.docs

WizardIInv == WizardShape /\ StepsInv /\ PhotosInv

-----------------------------------------------------------------------------
LEMMA WithoutDrops ==
  ASSUME NEW shown \in Seq(Shot), NEW x
  PROVE  /\ Without(shown, x) \in Seq(Shot)
         /\ ShownIds(Without(shown, x)) \subseteq ShownIds(shown) \ {x}
<1> DEFINE len == Len(shown)
           Step(kept, n) == IF n = 0 THEN <<>>
                            ELSE IF shown[n].id = x THEN kept[n - 1] ELSE Append(kept[n - 1], shown[n])
           Keeps(m, kept) == kept = [n \in 0 .. m |-> Step(kept, n)]
           T == {m \in Nat : m <= len /\ ~ \E kept : Keeps(m, kept)}
<1>1. len \in Nat /\ \A n \in 1 .. len : shown[n] \in Shot /\ n \in DOMAIN shown
  OBVIOUS
<1>2. ASSUME T # {} PROVE FALSE
  <2>1. PICK m \in T : \A y \in T : m <= y
    BY <1>2, LeastOf
  <2>2. m \in Nat /\ m <= len /\ ~ \E kept : Keeps(m, kept)
    BY <2>1
  <2>3. CASE m = 0
    <3> DEFINE none == [n \in 0 .. 0 |-> <<>>]
    <3>1. none = [n \in 0 .. 0 |-> Step(none, n)]
      OBVIOUS
    <3> QED BY <2>2, <2>3, <3>1
  <2>4. CASE m > 0
    <3> HIDE DEF Keeps
    <3>1. m - 1 \in Nat /\ m - 1 <= len /\ ~ (m - 1 \in T)
      <4>1. m - 1 \in Nat /\ m - 1 <= len /\ ~ (m <= m - 1)
        BY <1>1, <2>2, <2>4
      <4> QED BY <2>1, <4>1
    <3>2. PICK less : Keeps(m - 1, less)
      BY <3>1
    <3> USE DEF Keeps
    <3>3. \A n \in 0 .. m - 1 : less[n] = Step(less, n)
      BY <3>2
    <3> DEFINE more == [n \in 0 .. m |-> IF n = m THEN Step(less, m) ELSE less[n]]
    <3>4. ASSUME NEW n \in 0 .. m PROVE more[n] = Step(more, n)
      <4>1. n = m => n # 0 /\ n - 1 \in 0 .. m /\ n - 1 # m
        BY <2>2, <2>4
      <4>2. n # m /\ n # 0 => n \in 0 .. m - 1 /\ n - 1 \in 0 .. m /\ n - 1 # m
        BY <2>2, <2>4
      <4>3. n # m => n \in 0 .. m - 1
        BY <2>2, <2>4
      <4> QED BY <3>3, <4>1, <4>2, <4>3
    <3>5. more = [n \in 0 .. m |-> Step(more, n)]
      BY <3>4
    <3> QED BY <2>2, <3>5
  <2> QED BY <2>2, <2>3, <2>4
<1>3. \E kept : Keeps(len, kept)
  <2>1. ~ (len \in T)
    BY <1>2
  <2> QED BY <1>1, <2>1
<1> DEFINE kept == CHOOSE f : Keeps(len, f)
<1>4. Keeps(len, kept)
  BY <1>3
<1>5. Without(shown, x) = kept[len]
  BY DEF Without
<1> HIDE DEF kept
<1>6. \A n \in 0 .. len : kept[n] = Step(kept, n)
  BY <1>4
<1> DEFINE Good(n) == /\ kept[n] \in Seq(Shot)
                      /\ \A k \in DOMAIN kept[n] : kept[n][k].id \in ShownIds(shown) \ {x}
           U == {n \in Nat : n <= len /\ ~ Good(n)}
<1>7. ASSUME U # {} PROVE FALSE
  <2>1. PICK m \in U : \A y \in U : m <= y
    BY <1>7, LeastOf
  <2>2. m \in Nat /\ m \in 0 .. len /\ ~ Good(m)
    BY <1>1, <2>1
  <2>3. m # 0
    <3>1. 0 \in 0 .. len /\ kept[0] = <<>>
      BY <1>1, <1>6
    <3>2. DOMAIN kept[0] = {} /\ kept[0] \in Seq(Shot)
      BY <3>1
    <3> QED BY <2>2, <3>2
  <2>4. m - 1 \in Nat /\ m - 1 <= len /\ Good(m - 1) /\ m \in 1 .. len
    BY <1>1, <2>1, <2>2, <2>3
  <2>5. CASE shown[m].id = x
    <3>1. kept[m] = kept[m - 1]
      BY <1>6, <2>2, <2>3, <2>5
    <3> QED BY <2>2, <2>4, <3>1
  <2>6. CASE shown[m].id # x
    <3>1. kept[m] = Append(kept[m - 1], shown[m])
      BY <1>6, <2>2, <2>3, <2>6
    <3>2. shown[m] \in Shot /\ shown[m].id \in ShownIds(shown) \ {x}
      BY <1>1, <2>4, <2>6 DEF ShownIds
    <3> HIDE DEF Step
    <3>3. kept[m] \in Seq(Shot)
      BY <2>4, <3>1, <3>2
    <3>4. ASSUME NEW k \in DOMAIN kept[m] PROVE kept[m][k].id \in ShownIds(shown) \ {x}
      <4>1. kept[m][k] = shown[m] \/ (k \in DOMAIN kept[m - 1] /\ kept[m][k] = kept[m - 1][k])
        BY <2>4, <3>1, <3>2
      <4> QED BY <2>4, <3>2, <4>1
    <3> QED BY <2>2, <3>3, <3>4
  <2> QED BY <2>5, <2>6
<1>8. Good(len)
  BY <1>1, <1>7
<1> HIDE DEF Step
<1> QED BY <1>5, <1>8 DEF ShownIds

-----------------------------------------------------------------------------
LEMMA OpHolds ==
  ASSUME NEW o \in OpCalls
  PROVE  /\ o # Idle => o \in Call /\ Fits(o)
         /\ o.kind = "idle" <=> o = Idle
         /\ o.at = "none" <=> o = Idle
BY DEF OpCalls, Idle, Call

LEMMA IsOp ==
  /\ Idle \in OpCalls /\ CountsPast(Idle) /\ CountsPast(Idle)'
  /\ \A o \in Call : Fits(o) => o \in OpCalls /\ o # Idle
BY DEF OpCalls, Idle, CountsPast, Call

LEMMA PhotosFinite ==
  /\ IsFiniteSet(Used) /\ IsFiniteSet(Stored) /\ Cardinality(Used) \in Nat /\ Cardinality(Stored) \in Nat
  /\ Cardinality(Used) <= Cardinality(Photos) /\ Cardinality(Photos) \in Nat
<1>1. IsFiniteSet(Photos) /\ Used \in SUBSET Photos /\ Stored \in SUBSET Photos
  BY WizardAssumption DEF Used, Stored
<1>2. IsFiniteSet(Used) /\ IsFiniteSet(Stored) /\ Cardinality(Used) <= Cardinality(Photos)
  BY <1>1, FS_Subset
<1> QED BY <1>1, <1>2, FS_CardinalityType

\* An operation that its step forgets is otherwise what it was.
LEMMA Forgotten ==
  ASSUME NEW o \in OpCalls, o # Idle, NEW p, p = [o EXCEPT !.mine = FALSE]
  PROVE  /\ p \in OpCalls /\ p # Idle
         /\ CountsPast(o) => CountsPast(p)
         /\ ServerSide(o) => ServerSide(p)
         /\ TabSide(o) => TabSide(p)
<1>1. o \in Call /\ Fits(o)
  BY OpHolds
<1>2. /\ p \in Call /\ p.kind = o.kind /\ p.at = o.at /\ p.item = o.item /\ p.shown = o.shown
      /\ p.count = o.count /\ p.heeded = o.heeded /\ p.papers = o.papers
  BY <1>1 DEF Call
<1>3. Fits(p)
  BY <1>1, <1>2 DEF Fits
<1> QED BY <1>2, <1>3, IsOp DEF CountsPast, ServerSide, TabSide

\* The host moves between the steps; the photos stay, and the steps may forget their operations.
LEMMA PhotosStay ==
  ASSUME WizardIInv, NEW keep \in BOOLEAN,
         op' = [i \in Ops |-> IF op[i] = Idle \/ keep THEN op[i] ELSE [op[i] EXCEPT !.mine = FALSE]],
         tab'.shown = tab.shown, tab'.docs = tab.docs, store'.photos = store.photos, store'.docs = store.docs,
         crossed' = crossed, behind' = behind
  PROVE  /\ PhotosInv' /\ op' \in [Ops -> OpCalls] /\ (\A i \in Ops : CountsPast(op[i]))'
         /\ Used' = Used /\ Stored' = Stored
<1>1. Used' = Used /\ Stored' = Stored /\ Covers' = Covers
  BY DEF Used, Stored, Covers
<1>2. \A o : /\ CountsPast(o) <=> CountsPast(o)'
             /\ ServerSide(o) <=> ServerSide(o)'
             /\ TabSide(o) <=> TabSide(o)'
  BY <1>1 DEF CountsPast, ServerSide, TabSide
<1>3. ASSUME NEW i \in Ops
      PROVE  /\ op'[i] \in OpCalls
             /\ op'[i] = Idle <=> op[i] = Idle
             /\ CountsPast(op[i])'
             /\ op[i] # Idle /\ ServerSide(op[i]) => ServerSide(op[i])'
             /\ op[i] # Idle /\ TabSide(op[i]) => TabSide(op[i])'
  <2>1. PICK o : o = op[i]
    OBVIOUS
  <2>2. PICK p : p = op'[i]
    OBVIOUS
  <2>3. o \in OpCalls /\ CountsPast(o)
    BY <2>1 DEF WizardIInv, WizardShape
  <2>4. p = IF o = Idle \/ keep THEN o ELSE [o EXCEPT !.mine = FALSE]
    BY <2>1, <2>2
  <2>5. /\ p \in OpCalls /\ (p = Idle <=> o = Idle) /\ CountsPast(p)
        /\ ServerSide(o) => ServerSide(p)
        /\ TabSide(o) => TabSide(p)
    BY <2>3, <2>4, Forgotten
  <2>6. CountsPast(p)' /\ (ServerSide(o) => ServerSide(p)') /\ (TabSide(o) => TabSide(p)')
    BY <1>2, <2>5
  <2> QED BY <2>1, <2>2, <2>5, <2>6
<1>4. PhotosInv'
  <2> SUFFICES ASSUME ~ crossed PROVE PhotosInv'
    BY DEF PhotosInv
  <2>1. /\ \A x, y \in Covers : x = y
        /\ \A i, j \in Ops : op[i] # Idle /\ op[j] # Idle => i = j
        /\ \A i \in Ops : op[i] # Idle => ServerSide(op[i])
        /\ ~ behind =>
             /\ \A i \in Ops : op[i] # Idle => TabSide(op[i])
             /\ (\A i \in Ops : op[i] = Idle) => ShownIds(tab.shown) \subseteq Stored
             /\ tab.docs \subseteq store.docs
    BY DEF WizardIInv, PhotosInv
  <2> QED BY <1>1, <1>3, <2>1 DEF PhotosInv
<1>5. op' \in [Ops -> OpCalls]
  BY <1>3
<1> QED BY <1>1, <1>3, <1>4, <1>5

\* One operation moves on, to o: no other is under way unless some have crossed.
LEMMA OpStep ==
  ASSUME WizardIInv, NEW i \in Ops, op[i] # Idle, NEW o \in OpCalls, op' = [op EXCEPT ![i] = o], OnlyOps,
         tab' \in Tabs, tab'.step = tab.step, tab'.id = tab.id, tab'.submitted = tab.submitted,
         store' \in Drafts, store'.draft = store.draft, store'.sent = store.sent,
         Used \subseteq Used', Stored' \subseteq Used', CountsPast(o)',
         ~ crossed /\ ServerSide(op[i]) /\ (\A x, y \in Covers : x = y) =>
           /\ (\A x, y \in Covers : x = y)'
           /\ o # Idle => ServerSide(o)',
         ~ crossed /\ ~ behind /\ ServerSide(op[i]) /\ TabSide(op[i]) /\ tab.docs \subseteq store.docs =>
           /\ o # Idle => TabSide(o)'
           /\ o = Idle => (ShownIds(tab.shown) \subseteq Stored)'
           /\ (tab.docs \subseteq store.docs)'
  PROVE  WizardIInv'
<1>1. op' \in [Ops -> OpCalls] /\ op'[i] = o /\ \A j \in Ops \ {i} : op'[j] = op[j]
  BY DEF WizardIInv, WizardShape
<1>2. ASSUME NEW j \in Ops PROVE CountsPast(op[j])'
  <2>1. Cardinality(Used) <= Cardinality(Used')
    <3>1. IsFiniteSet(Used')
      BY WizardAssumption, FS_Subset DEF Used
    <3> QED BY <3>1, FS_Subset
  <2>2. Cardinality(Used) \in Nat /\ Cardinality(Used') \in Nat
    <3>1. IsFiniteSet(Used')
      BY WizardAssumption, FS_Subset DEF Used
    <3> QED BY <3>1, PhotosFinite, FS_CardinalityType
  <2>3. PICK p : p = op[j]
    OBVIOUS
  <2>4. p \in OpCalls /\ CountsPast(p)
    BY <2>3 DEF WizardIInv, WizardShape
  <2>5. p.at = "create" => p.count \in Nat
    BY <2>4, OpHolds DEF Call, Idle
  <2>6. CountsPast(p)'
    BY <2>1, <2>2, <2>4, <2>5 DEF CountsPast
  <2> QED BY <1>1, <2>3, <2>6
<1>3. PhotosInv'
  <2> SUFFICES ASSUME ~ crossed PROVE PhotosInv'
    BY DEF PhotosInv, OnlyOps
  <2>1. /\ \A x, y \in Covers : x = y
        /\ \A j \in Ops : j # i => op[j] = Idle
        /\ ServerSide(op[i])
        /\ ~ behind => TabSide(op[i]) /\ tab.docs \subseteq store.docs
    BY DEF WizardIInv, PhotosInv
  <2> QED BY <1>1, <2>1 DEF PhotosInv, OnlyOps
<1>4. WizardShape'
  BY <1>1, <1>2 DEF WizardIInv, WizardShape, OnlyOps
<1>5. StepsInv'
  BY DEF WizardIInv, StepsInv, SavedBefore, OnlyOps
<1> QED BY <1>3, <1>4, <1>5 DEF WizardIInv

\* An operation begins: with the list that is shown, or crossing another.
LEMMA BeginsWell ==
  ASSUME WizardIInv, NEW i \in Ops,
         NEW kind \in {"add", "remove", "cover", "document", "undocument"},
         NEW at \in {"count", "delete", "set", "row", "discard"}, NEW item, NEW shown \in Seq(Shot),
         Begins(i, kind, at, item, shown),
         kind \in {"add", "remove", "cover"} => shown = tab.shown,
         \/ kind = "add" /\ at = "count" /\ item = 0
         \/ kind = "remove" /\ at = "delete" /\ item \in Photos
         \/ kind = "cover" /\ at = "set" /\ item \in Photos
         \/ kind = "document" /\ at = "row" /\ item = 0
         \/ kind = "undocument" /\ at = "discard" /\ item \in Papers
  PROVE  WizardIInv'
<1>1. PICK o : o = [kind |-> kind, at |-> at, item |-> item, count |-> 0, shown |-> shown,
                    papers |-> tab.docs, mine |-> TRUE, heeded |-> TRUE]
  OBVIOUS
<1>2. /\ o \in Call /\ o.kind = kind /\ o.at = at /\ o.item = item /\ o.shown = shown /\ o.heeded
      /\ o.papers = tab.docs /\ Fits(o)
  <2>1. tab.docs \in SUBSET Papers
    BY DEF WizardIInv, WizardShape, Tabs
  <2> QED BY <1>1, <2>1 DEF Call, Fits
<1>3. op' = [op EXCEPT ![i] = o]
  BY <1>1 DEF Begins
<1>4. o \in OpCalls /\ o # Idle
  BY <1>2, IsOp
<1>5. op' \in [Ops -> OpCalls] /\ op'[i] = o /\ \A j \in Ops \ {i} : op'[j] = op[j]
  BY <1>3, <1>4 DEF WizardIInv, WizardShape
<1>6. /\ tab' = tab /\ store' = store /\ dirty' = dirty /\ lost' = lost /\ flight' = flight
      /\ late' = late /\ behind' = behind
  BY DEF Begins
<1>7. Used' = Used /\ Stored' = Stored /\ Covers' = Covers
  BY <1>6 DEF Used, Stored, Covers
<1>8. ASSUME NEW j \in Ops PROVE CountsPast(op[j])'
  BY <1>2, <1>5, <1>7 DEF WizardIInv, WizardShape, CountsPast
<1>9. crossed' \in BOOLEAN /\ (~ crossed' => ~ crossed /\ \A j \in Ops : op[j] = Idle)
  BY DEF Begins, WizardIInv, WizardShape
<1>10. WizardShape'
  BY <1>5, <1>6, <1>7, <1>8, <1>9 DEF WizardIInv, WizardShape
<1>11. StepsInv'
  BY <1>6 DEF WizardIInv, StepsInv, SavedBefore
<1>12. PhotosInv'
  <2> SUFFICES ASSUME ~ crossed' PROVE PhotosInv'
    BY DEF PhotosInv
  <2>1. /\ \A x, y \in Covers : x = y
        /\ ~ behind => ShownIds(tab.shown) \subseteq Stored /\ tab.docs \subseteq store.docs
    BY <1>9 DEF WizardIInv, PhotosInv
  <2>2. ServerSide(o)'
    BY <1>2 DEF ServerSide
  <2>3. ~ behind => TabSide(o)'
    BY <1>2, <1>6, <1>7, <2>1 DEF TabSide
  <2> QED BY <1>5, <1>6, <1>7, <1>9, <2>1, <2>2, <2>3 DEF PhotosInv
<1> QED BY <1>10, <1>11, <1>12 DEF WizardIInv

-----------------------------------------------------------------------------
LEMMA WizardStarts == WizardInit => WizardIInv
<1> SUFFICES ASSUME WizardInit PROVE WizardIInv
  OBVIOUS
<1>1. /\ tab = [step |-> 1, id |-> FALSE, shown |-> <<>>, docs |-> {}, submitted |-> FALSE]
      /\ store = [draft |-> FALSE, sent |-> FALSE, photos |-> [x \in Photos |-> Absent], docs |-> {}]
      /\ dirty = FormSteps /\ lost = {} /\ late = {} /\ crossed = FALSE /\ behind = FALSE
      /\ flight = NoFlight /\ op = [i \in Ops |-> Idle]
  BY DEF WizardInit
<1>2. tab \in Tabs
  <2>1. <<>> \in Seq(Shot) /\ 1 \in 1 .. LastStep
    BY WizardAssumption
  <2> QED BY <1>1, <2>1 DEF Tabs
<1>3. store \in Drafts
  <2>1. Absent \in PhotoRow
    BY PhotosFinite DEF Absent, PhotoRow
  <2> QED BY <1>1, <2>1 DEF Drafts
<1>4. Stored = {}
  BY <1>1 DEF Stored, Absent
<1>5. WizardShape
  BY <1>1, <1>2, <1>3, <1>4, IsOp DEF WizardShape, Flights
<1>6. StepsInv
  <2>1. \A k \in FormSteps : k \in Nat /\ ~ (k < 1)
    BY WizardAssumption
  <2> QED BY <1>1, <2>1 DEF StepsInv, SavedBefore, NoFlight
<1>7. PhotosInv
  <2>1. Covers = {} /\ ShownIds(tab.shown) = {}
    BY <1>1, <1>4 DEF Covers, ShownIds
  <2> QED BY <1>1, <2>1 DEF PhotosInv
<1> QED BY <1>5, <1>6, <1>7 DEF WizardIInv

-----------------------------------------------------------------------------
LEMMA StepNumbers ==
  /\ LastStep \in Nat /\ \A k \in FormSteps : k \in Nat /\ 1 <= k /\ k < LastStep /\ k # PhotoStep
  /\ \A k \in 1 .. LastStep : k \in Nat /\ (k < LastStep /\ k # PhotoStep => k \in FormSteps)
BY WizardAssumption

\* The host types, moves, saves and submits, and late calls land; operations are at
\* most forgotten.
LEMMA HostMoves ==
  ASSUME WizardIInv, NEW keep \in BOOLEAN,
         op' = [i \in Ops |-> IF op[i] = Idle \/ keep THEN op[i] ELSE [op[i] EXCEPT !.mine = FALSE]],
         tab' \in Tabs, tab'.shown = tab.shown, tab'.docs = tab.docs, tab'.id => store'.draft,
         store' \in Drafts, store'.photos = store.photos, store'.docs = store.docs,
         dirty' \subseteq FormSteps, lost' \subseteq FormSteps, late' \subseteq FormSteps \cup {LastStep},
         flight' \in Flights, crossed' = crossed, behind' = behind, StepsInv'
  PROVE  WizardIInv'
<1>1. /\ PhotosInv' /\ op' \in [Ops -> OpCalls] /\ (\A i \in Ops : CountsPast(op[i]))'
      /\ Used' = Used /\ Stored' = Stored
  BY PhotosStay
<1> QED BY <1>1 DEF WizardIInv, WizardShape

LEMMA OpsKept ==
  ASSUME WizardIInv, op' = op
  PROVE  op' = [i \in Ops |-> IF op[i] = Idle \/ TRUE THEN op[i] ELSE [op[i] EXCEPT !.mine = FALSE]]
BY DEF WizardIInv, WizardShape

LEMMA TypeKeeps == ASSUME WizardIInv, Type PROVE WizardIInv'
<1>1. /\ tab' = tab /\ store' = store /\ flight' = flight /\ late' = late /\ op' = op
      /\ crossed' = crossed /\ behind' = behind
      /\ tab.step \in FormSteps /\ ~ tab.submitted
      /\ dirty' = dirty \cup {tab.step}
      /\ lost' = IF flight = NoFlight THEN lost ELSE lost \cup {tab.step}
  BY DEF Type
<1>2. StepsInv'
  <2>1. tab.step \in Nat /\ ~ (tab.step < tab.step)
    BY <1>1, StepNumbers
  <2>2. flight.kind \in {"save", "submit"} => flight # NoFlight
    BY DEF NoFlight
  <2>3. SavedBefore(tab.step)'
    BY <1>1, <2>1 DEF WizardIInv, StepsInv, SavedBefore
  <2>4. flight.kind = "save" => SavedBefore(flight.step)'
    BY <1>1, <2>2 DEF WizardIInv, StepsInv, SavedBefore
  <2>5. flight.kind = "submit" => SavedBefore(LastStep)'
    BY <1>1, <2>2 DEF WizardIInv, StepsInv, SavedBefore
  <2> QED BY <1>1, <2>3, <2>4, <2>5 DEF WizardIInv, StepsInv, SavedBefore
<1>3. dirty' \subseteq FormSteps /\ lost' \subseteq FormSteps /\ late' \subseteq FormSteps \cup {LastStep}
  BY <1>1 DEF WizardIInv, WizardShape
<1>4. tab' \in Tabs /\ store' \in Drafts /\ flight' \in Flights /\ (tab'.id => store'.draft)
  BY <1>1 DEF WizardIInv, WizardShape
<1> QED BY <1>1, <1>2, <1>3, <1>4, OpsKept, HostMoves

\* A step on or back, to one before which everything is saved.
LEMMA LeavesWell ==
  ASSUME WizardIInv, NEW n \in 1 .. LastStep, Leaves(n), ~ tab.submitted,
         UNCHANGED <<store, dirty, lost, flight, late, crossed, behind>>, SavedBefore(n),
         flight.kind = "save" => n <= flight.step
  PROVE  WizardIInv'
<1>1. tab' = [tab EXCEPT !.step = n] /\ tab \in Tabs
  BY DEF Leaves, WizardIInv, WizardShape
<1>2. /\ tab' \in Tabs /\ tab'.step = n /\ tab'.id = tab.id /\ tab'.shown = tab.shown
      /\ tab'.docs = tab.docs /\ tab'.submitted = tab.submitted
  BY <1>1 DEF Tabs
<1> DEFINE keep == n = tab.step
<1>3. /\ keep \in BOOLEAN
      /\ op' = [i \in Ops |-> IF op[i] = Idle \/ keep THEN op[i] ELSE [op[i] EXCEPT !.mine = FALSE]]
  BY DEF Leaves
<1>4. StepsInv'
  BY <1>2 DEF WizardIInv, StepsInv, SavedBefore
<1> HIDE DEF keep
<1>5. PICK b \in BOOLEAN : b = keep
  BY <1>3
<1>6. op' = [i \in Ops |-> IF op[i] = Idle \/ b THEN op[i] ELSE [op[i] EXCEPT !.mine = FALSE]]
  BY <1>3, <1>5
<1>7. /\ store' \in Drafts /\ flight' \in Flights /\ (tab'.id => store'.draft)
      /\ dirty' \subseteq FormSteps /\ lost' \subseteq FormSteps /\ late' \subseteq FormSteps \cup {LastStep}
  BY <1>2 DEF WizardIInv, WizardShape
<1> QED BY <1>2, <1>4, <1>6, <1>7, HostMoves

LEMMA GoNextKeeps == ASSUME WizardIInv, GoNext PROVE WizardIInv'
<1>0. tab.step \in 1 .. LastStep /\ dirty \subseteq FormSteps /\ tab.step < LastStep /\ SavedBefore(tab.step)
      /\ ~ tab.submitted /\ flight = NoFlight
  BY DEF GoNext, WizardIInv, WizardShape, StepsInv, Tabs
<1>1. CASE tab.step = PhotoStep
  <2>1. PICK n : n = tab.step + 1
    OBVIOUS
  <2>2. n \in 1 .. LastStep /\ \A k \in FormSteps : k < n => k < tab.step
    BY <1>0, <1>1, <2>1, StepNumbers
  <2>3. SavedBefore(n)
    BY <1>0, <2>2 DEF SavedBefore
  <2>4. Leaves(n) /\ UNCHANGED <<store, dirty, lost, flight, late, crossed, behind>>
    BY <1>1, <2>1 DEF GoNext
  <2> QED BY <1>0, <2>2, <2>3, <2>4, LeavesWell DEF NoFlight
<1>2. CASE tab.step # PhotoStep
  <2>1. tab.step \in FormSteps
    BY <1>0, <1>2, StepNumbers
  <2>2. /\ flight' = [kind |-> "save", step |-> tab.step] /\ lost' = lost \ {tab.step}
        /\ tab' = tab /\ op' = op /\ store' = store /\ dirty' = dirty /\ late' = late
        /\ crossed' = crossed /\ behind' = behind
    BY <1>2 DEF GoNext
  <2>3. flight' \in Flights
    BY <2>1, <2>2 DEF Flights
  <2>4. SavedBefore(tab.step)'
    BY <1>0, <2>1, <2>2, StepNumbers DEF SavedBefore
  <2>5. StepsInv'
    BY <1>0, <2>1, <2>2, <2>4, StepNumbers DEF StepsInv, SavedBefore
  <2>6. /\ tab' \in Tabs /\ store' \in Drafts /\ (tab'.id => store'.draft) /\ lost' \subseteq FormSteps
        /\ late' \subseteq FormSteps \cup {LastStep}
    BY <2>2 DEF WizardIInv, WizardShape
  <2> QED BY <1>0, <2>2, <2>3, <2>5, <2>6, OpsKept, HostMoves
<1> QED BY <1>1, <1>2

LEMMA GoesBack ==
  ASSUME WizardIInv, NEW n \in 1 .. LastStep, n < tab.step, ~ tab.submitted, Leaves(n),
         UNCHANGED <<store, dirty, lost, flight, late, crossed, behind>>
  PROVE  WizardIInv'
<1>1. n \in Nat /\ tab.step \in Nat /\ dirty \subseteq FormSteps
  BY StepNumbers DEF WizardIInv, WizardShape, Tabs
<1>2. SavedBefore(n)
  BY <1>1, StepNumbers DEF WizardIInv, StepsInv, SavedBefore
<1>3. flight.kind = "save" => n <= flight.step
  <2>1. flight.kind = "save" => flight.step \in Nat
    BY StepNumbers DEF WizardIInv, WizardShape, Flights, NoFlight
  <2> QED BY <1>1, <2>1 DEF WizardIInv, StepsInv
<1> QED BY <1>2, <1>3, LeavesWell

LEMMA GoBackKeeps == ASSUME WizardIInv, GoBack PROVE WizardIInv'
<1>1. PICK n : n = tab.step - 1
  OBVIOUS
<1>2. tab.step \in 1 .. LastStep /\ tab.step > 1
  BY DEF GoBack, WizardIInv, WizardShape, Tabs
<1>3. n \in 1 .. LastStep /\ n < tab.step
  BY <1>1, <1>2, StepNumbers
<1> QED BY <1>1, <1>3, GoesBack DEF GoBack

LEMMA PersistKeeps == ASSUME WizardIInv, PersistStep PROVE WizardIInv'
<1> DEFINE k == flight.step
<1>0. /\ tab \in Tabs /\ store \in Drafts /\ tab.step \in 1 .. LastStep
      /\ flight.kind = "save" /\ k \in FormSteps /\ tab.step <= k /\ SavedBefore(k)
      /\ dirty \subseteq FormSteps /\ lost \subseteq FormSteps
      /\ ~ tab.submitted
  BY DEF PersistStep, WizardIInv, WizardShape, StepsInv, Tabs, Flights, NoFlight
<1>1. tab.step < LastStep
  BY <1>0, StepNumbers
<1>2. tab' = [tab EXCEPT !.id = TRUE, !.step = tab.step + 1] /\ store' = [store EXCEPT !.draft = TRUE]
  BY <1>0, <1>1 DEF PersistStep, Tabs
<1>3. /\ tab' \in Tabs /\ tab'.step = tab.step + 1 /\ tab'.shown = tab.shown /\ tab'.docs = tab.docs
      /\ tab'.submitted = tab.submitted
  <2>1. tab.step + 1 \in 1 .. LastStep
    BY <1>0, <1>1, StepNumbers
  <2> QED BY <1>0, <1>2, <2>1 DEF Tabs
<1>4. store' \in Drafts /\ store'.draft /\ store'.photos = store.photos /\ store'.docs = store.docs
  BY <1>0, <1>2 DEF Drafts
<1>5. /\ dirty' = (IF k \in lost THEN dirty ELSE dirty \ {k})
      /\ lost' = lost /\ late' = late /\ crossed' = crossed /\ behind' = behind /\ flight' = NoFlight
      /\ op' = [i \in Ops |-> IF op[i] = Idle \/ FALSE THEN op[i] ELSE [op[i] EXCEPT !.mine = FALSE]]
  BY DEF PersistStep
<1>6. StepsInv'
  <2>1. \A j \in dirty : j < tab.step + 1 => j < k \/ j = k
    BY <1>0, StepNumbers
  <2>2. SavedBefore(tab.step)'
    BY <1>0, <1>3, <1>5, <2>1 DEF SavedBefore
  <2> QED BY <1>0, <1>3, <1>5, <2>2 DEF StepsInv, SavedBefore, NoFlight
<1>7. dirty' \subseteq FormSteps /\ lost' \subseteq FormSteps /\ late' \subseteq FormSteps \cup {LastStep} /\ flight' \in Flights
  BY <1>0, <1>5 DEF Flights, WizardIInv, WizardShape
<1> QED BY <1>3, <1>4, <1>5, <1>6, <1>7, HostMoves

LEMMA FlightKeeps == ASSUME WizardIInv, PersistFails \/ SubmitListing \/ SubmitLands PROVE WizardIInv'
<1>0. /\ tab \in Tabs /\ store \in Drafts /\ dirty' = dirty /\ lost' = lost /\ late' = late /\ op' = op
      /\ crossed' = crossed /\ behind' = behind
  BY DEF PersistFails, SubmitListing, SubmitLands, WizardIInv, WizardShape
<1>1. Submittable \in BOOLEAN
  BY DEF Submittable
<1>2. /\ tab' \in Tabs /\ tab'.step = tab.step /\ tab'.id = tab.id /\ tab'.shown = tab.shown
      /\ tab'.docs = tab.docs
  BY <1>0, <1>1 DEF PersistFails, SubmitListing, SubmitLands, Tabs
<1>3. /\ store' \in Drafts /\ store'.draft = store.draft /\ store'.photos = store.photos
      /\ store'.docs = store.docs
  BY <1>0, <1>1 DEF PersistFails, SubmitListing, SubmitLands, Drafts
<1>4. flight' \in Flights /\ flight'.kind # "save"
  BY DEF PersistFails, SubmitListing, SubmitLands, Flights, NoFlight
<1>5. flight'.kind = "submit" \/ tab'.submitted => SavedBefore(LastStep)
  BY <1>0 DEF PersistFails, SubmitListing, SubmitLands, Tabs, NoFlight, WizardIInv, StepsInv
<1>6. tab'.submitted => store'.sent
  BY <1>0, <1>1 DEF PersistFails, SubmitListing, SubmitLands, Tabs, Drafts, WizardIInv, StepsInv
<1>7. StepsInv'
  BY <1>0, <1>2, <1>4, <1>5, <1>6 DEF WizardIInv, StepsInv, SavedBefore
<1>8. /\ tab'.id => store'.draft
      /\ dirty' \subseteq FormSteps /\ lost' \subseteq FormSteps /\ late' \subseteq FormSteps \cup {LastStep}
  BY <1>0, <1>2, <1>3 DEF WizardIInv, WizardShape
<1> QED BY <1>0, <1>2, <1>3, <1>4, <1>7, <1>8, OpsKept, HostMoves

\* The calls of a page that is gone land or fail.
LEMMA LateKeeps ==
  ASSUME WizardIInv, LateSubmit \/ \E k \in 1 .. LastStep : LateSave(k) \/ LateFails(k)
  PROVE  WizardIInv'
<1>0. /\ tab' = tab /\ flight' = flight /\ op' = op /\ crossed' = crossed /\ behind' = behind
      /\ tab \in Tabs /\ store \in Drafts
  BY DEF LateSubmit, LateSave, LateFails, WizardIInv, WizardShape
<1>1. /\ store' \in Drafts /\ store'.draft = store.draft /\ store'.photos = store.photos
      /\ store'.docs = store.docs /\ (store.sent => store'.sent)
  BY <1>0 DEF LateSubmit, LateSave, LateFails, Drafts
<1>2. /\ tab'.id => store'.draft
      /\ late' \subseteq FormSteps \cup {LastStep}
      /\ tab' \in Tabs /\ flight' \in Flights
  <2>1. late' \subseteq late
    BY DEF LateSubmit, LateSave, LateFails
  <2> QED BY <1>0, <1>1, <2>1 DEF WizardIInv, WizardShape
<1>3. dirty' \subseteq FormSteps /\ lost' \subseteq FormSteps /\ StepsInv'
  <2>1. ASSUME NEW k \in 1 .. LastStep, LateSave(k)
        PROVE  dirty' \subseteq FormSteps /\ lost' \subseteq FormSteps /\ StepsInv'
    <3>1. /\ k \in late /\ k # LastStep /\ ~ store.sent /\ dirty' = dirty \cup {k}
          /\ lost' = IF flight.kind = "save" /\ flight.step = k THEN lost ELSE lost \cup {k}
      BY <2>1 DEF LateSave
    <3>2. k \in FormSteps /\ dirty \subseteq FormSteps /\ lost \subseteq FormSteps
      BY <3>1 DEF WizardIInv, WizardShape
    <3>3. ASSUME NEW n, SavedBefore(n), flight.kind = "save" /\ flight.step = k => ~ (k < n)
          PROVE  SavedBefore(n)'
      BY <3>1, <3>3 DEF SavedBefore
    <3>4. tab.step \in Nat /\ k \in Nat /\ ~ (k < k)
      BY <1>0, <3>2, StepNumbers DEF Tabs
    <3>5. flight.kind = "save" /\ flight.step = k => ~ (k < tab.step)
      BY <3>4 DEF WizardIInv, StepsInv
    <3>6. SavedBefore(tab.step)'
      BY <1>0, <3>3, <3>5 DEF WizardIInv, StepsInv
    <3>7. flight.kind = "save" => SavedBefore(flight.step)'
      BY <1>0, <3>3, <3>4 DEF WizardIInv, StepsInv
    <3>8. flight.kind = "submit" => SavedBefore(LastStep)'
      BY <1>0, <3>3 DEF WizardIInv, StepsInv
    <3>9. ~ tab.submitted
      BY <3>1 DEF WizardIInv, StepsInv
    <3>10. StepsInv'
      <4>1. flight.kind = "save" => tab.step <= flight.step
        BY DEF WizardIInv, StepsInv
      <4> QED BY <1>0, <3>6, <3>7, <3>8, <3>9, <4>1 DEF StepsInv
    <3> QED BY <3>1, <3>2, <3>10
  <2>2. CASE LateSubmit \/ \E k \in 1 .. LastStep : LateFails(k)
    <3>1. dirty' = dirty /\ lost' = lost
      BY <2>2 DEF LateSubmit, LateFails
    <3>2. dirty' \subseteq FormSteps /\ lost' \subseteq FormSteps
      BY <3>1 DEF WizardIInv, WizardShape
    <3>3. StepsInv'
      BY <1>0, <1>1, <3>1 DEF WizardIInv, StepsInv, SavedBefore
    <3> QED BY <3>2, <3>3
  <2> QED BY <2>1, <2>2
<1> QED BY <1>0, <1>1, <1>2, <1>3, OpsKept, HostMoves

\* What is left of a call when its page is gone.
LEMMA Orphaned ==
  ASSUME NEW o \in OpCalls, NEW p, p = Orphan(o)
  PROVE  /\ p \in OpCalls /\ (o = Idle => p = Idle)
         /\ CountsPast(o) => CountsPast(p)
         /\ p # Idle => /\ p.kind = o.kind /\ p.at = o.at /\ p.item = o.item /\ p.count = o.count
                        /\ ~ p.heeded /\ p \in Call /\ Fits(p)
<1>1. CASE o.at \in {"none", "put", "send", "answer"}
  BY <1>1, IsOp DEF Orphan
<1>2. CASE o.at \notin {"none", "put", "send", "answer"}
  <2>1. o # Idle /\ o \in Call /\ Fits(o)
    BY <1>2, OpHolds DEF Idle
  <2>2. p = [o EXCEPT !.mine = FALSE, !.heeded = FALSE, !.shown = <<>>, !.papers = {}]
    BY <1>2 DEF Orphan
  <2>3. <<>> \in Seq(Shot)
    OBVIOUS
  <2>4. /\ p \in Call /\ p.kind = o.kind /\ p.at = o.at /\ p.item = o.item /\ p.count = o.count /\ ~ p.heeded
    BY <2>1, <2>2, <2>3 DEF Call
  <2>5. Fits(p)
    BY <1>2, <2>1, <2>4 DEF Fits
  <2> QED BY <2>1, <2>4, <2>5, IsOp DEF CountsPast
<1> QED BY <1>1, <1>2

LEMMA ResumeKeeps == ASSUME WizardIInv, Resume PROVE WizardIInv'
<1>1. PICK shown \in UNION {[1 .. n -> [id : Stored, cover : BOOLEAN]] : n \in {Cardinality(Stored)}} :
        /\ ShownIds(shown) = Stored
        /\ tab' = [step |-> 1, id |-> TRUE, shown |-> shown, docs |-> store.docs, submitted |-> FALSE]
  BY DEF Resume
<1>2. /\ dirty' = {} /\ lost' = {} /\ flight' = NoFlight /\ op' = [i \in Ops |-> Orphan(op[i])]
      /\ behind' = \E i \in Ops : op[i].at \in {"delete", "discard"}
      /\ store' = store /\ crossed' = crossed /\ store.draft
  BY DEF Resume
<1>3. shown \in Seq(Shot)
  <2>1. PICK n : n = Cardinality(Stored)
    OBVIOUS
  <2>2. n \in Nat /\ shown \in [1 .. n -> [id : Stored, cover : BOOLEAN]]
    BY <1>1, <2>1, PhotosFinite
  <2>3. [id : Stored, cover : BOOLEAN] \subseteq Shot
    BY DEF Stored, Shot
  <2>4. shown \in [1 .. n -> Shot]
    BY <2>2, <2>3
  <2> QED BY <2>2, <2>4
<1>4. tab' \in Tabs
  <2>1. 1 \in 1 .. LastStep
    BY WizardAssumption
  <2>2. store.docs \in SUBSET Papers
    BY DEF WizardIInv, WizardShape, Drafts
  <2> QED BY <1>1, <1>3, <2>1, <2>2 DEF Tabs
<1>5. /\ Used' = Used /\ Stored' = Stored /\ Covers' = Covers /\ ShownIds(tab'.shown) = Stored
      /\ tab'.docs = store'.docs
  BY <1>1, <1>2 DEF Used, Stored, Covers
<1>6. ASSUME NEW i \in Ops
      PROVE  /\ op'[i] \in OpCalls /\ CountsPast(op[i])' /\ (op[i] = Idle => op'[i] = Idle)
             /\ op'[i] # Idle => /\ op'[i].kind = op[i].kind /\ op'[i].at = op[i].at /\ op'[i].item = op[i].item
                                 /\ op'[i].count = op[i].count /\ ~ op'[i].heeded
                                 /\ op'[i] \in Call /\ Fits(op'[i])
  <2>1. PICK o : o = op[i]
    OBVIOUS
  <2>2. PICK p : p = op'[i]
    OBVIOUS
  <2>3. o \in OpCalls /\ CountsPast(o) /\ p = Orphan(o)
    BY <1>2, <2>1, <2>2 DEF WizardIInv, WizardShape
  <2>4. /\ p \in OpCalls /\ CountsPast(p) /\ (o = Idle => p = Idle)
        /\ p # Idle => /\ p.kind = o.kind /\ p.at = o.at /\ p.item = o.item /\ p.count = o.count
                       /\ ~ p.heeded /\ p \in Call /\ Fits(p)
    BY <2>3, Orphaned
  <2>5. CountsPast(p)'
    BY <1>5, <2>4 DEF CountsPast
  <2> QED BY <2>1, <2>2, <2>4, <2>5
<1>7. WizardShape'
  <2>1. store' \in Drafts /\ flight' \in Flights /\ crossed' \in BOOLEAN /\ Stored' \subseteq Used'
    BY <1>2, <1>5 DEF WizardIInv, WizardShape, Flights
  <2>2. late' \subseteq FormSteps \cup {LastStep}
    BY DEF Resume, WizardIInv, WizardShape, Flights, NoFlight
  <2>3. behind' \in BOOLEAN
    BY <1>2
  <2>4. op' \in [Ops -> OpCalls]
    BY <1>2, <1>6
  <2>5. (tab'.id => store'.draft) /\ dirty' \subseteq FormSteps /\ lost' \subseteq FormSteps
    BY <1>2
  <2> QED BY <1>4, <1>6, <2>1, <2>2, <2>3, <2>4, <2>5 DEF WizardShape
<1>8. StepsInv'
  BY <1>1, <1>2 DEF StepsInv, SavedBefore, NoFlight
<1>9. PhotosInv'
  <2> SUFFICES ASSUME ~ crossed PROVE PhotosInv'
    BY <1>2 DEF PhotosInv
  <2>1. /\ \A x, y \in Covers : x = y
        /\ \A i, j \in Ops : op[i] # Idle /\ op[j] # Idle => i = j
        /\ \A i \in Ops : op[i] # Idle => ServerSide(op[i])
    BY DEF WizardIInv, PhotosInv
  <2>2. \A i, j \in Ops : op'[i] # Idle /\ op'[j] # Idle => i = j
    BY <1>6, <2>1
  <2>3. ASSUME NEW i \in Ops, op'[i] # Idle PROVE ServerSide(op[i])'
    <3>1. PICK o : o = op[i]
      OBVIOUS
    <3>2. PICK p : p = op'[i]
      OBVIOUS
    <3>3. ServerSide(o) /\ p.at = o.at /\ p.item = o.item /\ p.count = o.count
      BY <1>6, <2>1, <2>3, <3>1, <3>2
    <3>4. ServerSide(p)'
      BY <1>2, <1>5, <3>3 DEF ServerSide
    <3> QED BY <3>2, <3>4
  <2>4. ASSUME NEW i \in Ops, op'[i] # Idle, ~ behind' PROVE TabSide(op[i])'
    <3>1. PICK p : p = op'[i]
      OBVIOUS
    <3>2. /\ p.at \notin {"delete", "discard"} /\ ~ p.heeded /\ Fits(p)
          /\ p.at \in {"promote", "answer"} => p.item \notin Stored
      BY <1>2, <1>6, <2>1, <2>4, <3>1 DEF ServerSide
    <3>3. TabSide(p)'
      BY <1>5, <3>2 DEF TabSide, Fits
    <3> QED BY <3>1, <3>3
  <2> QED BY <1>5, <2>1, <2>2, <2>3, <2>4 DEF PhotosInv
<1> QED BY <1>7, <1>8, <1>9 DEF WizardIInv

-----------------------------------------------------------------------------
LEMMA Typed ==
  ASSUME WizardIInv
  PROVE  /\ tab \in Tabs /\ tab.shown \in Seq(Shot) /\ store \in Drafts /\ store.photos \in [Photos -> PhotoRow]
         /\ tab.docs \subseteq Papers /\ store.docs \subseteq Papers
         /\ Stored \subseteq Used /\ Used \subseteq Photos
         /\ \A i \in Ops : op[i] \in OpCalls /\ CountsPast(op[i])
BY DEF WizardIInv, WizardShape, Tabs, Drafts, Used

LEMMA ShownArePhotos ==
  ASSUME NEW shown \in Seq(Shot) PROVE ShownIds(shown) \subseteq Photos
<1>1. \A k \in DOMAIN shown : shown[k] \in Shot
  OBVIOUS
<1> QED BY <1>1 DEF ShownIds, Shot

LEMMA BeginKeeps ==
  ASSUME WizardIInv, NEW i \in Ops,
         \/ AddPhoto(i) \/ AddDocument(i)
         \/ \E d \in Papers : RemoveDocument(i, d)
         \/ \E x \in Photos : RemovePhoto(i, x) \/ ChooseCover(i, x)
  PROVE  WizardIInv'
<1>0. tab.shown \in Seq(Shot) /\ <<>> \in Seq(Shot)
  BY Typed
<1>1. CASE AddPhoto(i)
  BY <1>0, <1>1, BeginsWell DEF AddPhoto
<1>2. ASSUME NEW x \in Photos, RemovePhoto(i, x) PROVE WizardIInv'
  BY <1>0, <1>2, BeginsWell DEF RemovePhoto
<1>3. ASSUME NEW x \in Photos, ChooseCover(i, x) PROVE WizardIInv'
  BY <1>0, <1>3, BeginsWell DEF ChooseCover
<1>4. CASE AddDocument(i)
  BY <1>0, <1>4, BeginsWell DEF AddDocument
<1>5. ASSUME NEW d \in Papers, RemoveDocument(i, d) PROVE WizardIInv'
  BY <1>0, <1>5, BeginsWell DEF RemoveDocument
<1> QED BY <1>1, <1>2, <1>3, <1>4, <1>5

\* The operation is another one now, and neither the tab nor the draft has moved.
LEMMA OnlyOpStep ==
  ASSUME WizardIInv, NEW i \in Ops, op[i] # Idle, NEW o \in OpCalls, op' = [op EXCEPT ![i] = o], OnlyOps,
         UNCHANGED <<tab, store>>, CountsPast(o),
         ~ crossed /\ ServerSide(op[i]) /\ o # Idle => ServerSide(o),
         ~ crossed /\ ServerSide(op[i]) /\ TabSide(op[i]) =>
           (o # Idle => TabSide(o)) /\ (o = Idle => ShownIds(tab.shown) \subseteq Stored)
  PROVE  WizardIInv'
<1>1. tab' = tab /\ store' = store
  OBVIOUS
<1>2. Used' = Used /\ Stored' = Stored /\ Covers' = Covers
  BY <1>1 DEF Used, Stored, Covers
<1>3. CountsPast(o)'
  BY <1>2 DEF CountsPast
<1>4. (ServerSide(o) => ServerSide(o)') /\ (TabSide(o) => TabSide(o)')
  BY <1>1, <1>2 DEF ServerSide, TabSide
<1> QED BY <1>1, <1>2, <1>3, <1>4, Typed, OpStep

\* The call of an operation that is at one of its places.
LEMMA AtPlace ==
  ASSUME WizardIInv, NEW i \in Ops, op[i].at # "none"
  PROVE  op[i] # Idle /\ op[i] \in Call /\ Fits(op[i]) /\ op[i] \in OpCalls /\ CountsPast(op[i])
BY Typed, OpHolds DEF Idle

LEMMA RefusedKeeps == ASSUME WizardIInv, NEW i \in Ops, Refused(i) PROVE WizardIInv'
<1>1. op[i].at \in {"count", "row", "delete", "set", "discard"} /\ op' = [op EXCEPT ![i] = Idle]
      /\ UNCHANGED <<tab, store>> /\ OnlyOps
  BY DEF Refused, Done
<1>2. op[i] # Idle /\ Fits(op[i])
  BY <1>1, AtPlace
<1>3. TabSide(op[i]) => ShownIds(tab.shown) \subseteq Stored
  BY <1>1, <1>2 DEF TabSide, Fits
<1> QED BY <1>1, <1>2, <1>3, IsOp, OnlyOpStep

LEMMA CountKeeps == ASSUME WizardIInv, NEW i \in Ops, CountPhotos(i) PROVE WizardIInv'
<1>1. PICK c : c = op[i]
  OBVIOUS
<1>2. c \in Call /\ Fits(c) /\ c.kind = "add" /\ c.at = "count" /\ c # Idle
  BY <1>1, AtPlace DEF CountPhotos, At
<1>3. PICK o : o = [c EXCEPT !.at = "create", !.count = Cardinality(Stored)]
  OBVIOUS
<1>4. /\ o \in Call /\ o.kind = "add" /\ o.at = "create" /\ o.count = Cardinality(Stored)
      /\ o.item = c.item /\ o.shown = c.shown /\ o.heeded = c.heeded
  BY <1>2, <1>3, PhotosFinite DEF Call
<1>5. o \in OpCalls /\ o # Idle
  <2>1. Fits(o)
    BY <1>2, <1>4 DEF Fits
  <2> QED BY <1>4, <2>1, IsOp
<1>6. op' = [op EXCEPT ![i] = o]
  <2>1. op \in [Ops -> OpCalls]
    BY DEF WizardIInv, WizardShape
  <2>2. op' = [op EXCEPT ![i].at = "create", ![i].count = Cardinality(Stored)]
    BY DEF CountPhotos
  <2> QED BY <1>1, <1>3, <2>1, <2>2
<1>7. CountsPast(o)
  <2>1. Cardinality(Stored) <= Cardinality(Used)
    BY Typed, PhotosFinite, FS_Subset
  <2> QED BY <1>4, <2>1 DEF CountsPast
<1>8. ServerSide(o)
  BY <1>4 DEF ServerSide
<1>9. TabSide(c) => TabSide(o)
  BY <1>2, <1>4 DEF TabSide
<1> QED BY <1>1, <1>2, <1>5, <1>6, <1>7, <1>8, <1>9, OnlyOpStep DEF CountPhotos

LEMMA CreateKeeps ==
  ASSUME WizardIInv, NEW i \in Ops, NEW x \in Photos, CreatePhoto(i, x) PROVE WizardIInv'
<1>1. PICK c : c = op[i]
  OBVIOUS
<1>2. c \in Call /\ Fits(c) /\ c.kind = "add" /\ c.at = "create" /\ c # Idle /\ CountsPast(c)
  BY <1>1, AtPlace DEF CreatePhoto, At
<1>3. PICK o : o = IF c.heeded THEN [c EXCEPT !.at = "put", !.item = x] ELSE Idle
  OBVIOUS
<1>4. ASSUME c.heeded
      PROVE  /\ o \in Call /\ o.kind = "add" /\ o.at = "put" /\ o.item = x /\ o.shown = c.shown /\ o.heeded
             /\ Fits(o)
  <2>1. o \in Call /\ o.kind = "add" /\ o.at = "put" /\ o.item = x /\ o.shown = c.shown /\ o.heeded
    BY <1>2, <1>3, <1>4 DEF Call
  <2> QED BY <2>1 DEF Fits
<1>5. o \in OpCalls /\ (o = Idle <=> ~ c.heeded) /\ CountsPast(o)'
  <2>1. CASE c.heeded
    BY <1>4, <2>1, IsOp DEF CountsPast
  <2>2. CASE ~ c.heeded
    BY <1>3, <2>2, IsOp
  <2> QED BY <2>1, <2>2
<1>6. op' = [op EXCEPT ![i] = o]
  BY <1>1, <1>3 DEF CreatePhoto
<1>7. PICK entry : entry = [order |-> c.count + 1, cover |-> (c.count = 0), there |-> TRUE]
  OBVIOUS
<1>8. /\ store' = [store EXCEPT !.photos[x] = entry] /\ tab' = tab
      /\ x \notin Stored /\ x \notin Used
  BY <1>1, <1>7 DEF CreatePhoto, Stored, Used
<1>9. entry \in PhotoRow
  <2>1. c.count \in Nat /\ c.count <= Cardinality(Used)
    BY <1>2 DEF Call, CountsPast
  <2>2. Cardinality(Used \cup {x}) = Cardinality(Used) + 1
    BY <1>8, PhotosFinite, FS_AddElement
  <2>3. Cardinality(Used \cup {x}) <= Cardinality(Photos)
    BY Typed, WizardAssumption, FS_Subset
  <2>4. c.count + 1 \in 0 .. Cardinality(Photos)
    BY <2>1, <2>2, <2>3, PhotosFinite
  <2> QED BY <1>7, <2>4 DEF PhotoRow
<1>10. /\ store' \in Drafts /\ store'.draft = store.draft /\ store'.sent = store.sent /\ store'.docs = store.docs
       /\ store'.photos[x] = entry /\ \A y \in Photos \ {x} : store'.photos[y] = store.photos[y]
  BY <1>8, <1>9, Typed DEF Drafts
<1>11. /\ Stored' = Stored \cup {x} /\ Used' = Used \cup {x}
       /\ Covers' = Covers \cup (IF c.count = 0 THEN {x} ELSE {})
  <2>1. entry.there /\ entry.order > 0 /\ entry.cover = (c.count = 0)
    BY <1>2, <1>7 DEF Call
  <2>2. Stored' = Stored \cup {x}
    BY <1>10, <2>1 DEF Stored
  <2>3. Used' = Used \cup {x}
    BY <1>10, <2>1 DEF Used
  <2>4. Covers' = Covers \cup (IF c.count = 0 THEN {x} ELSE {})
    <3>1. \A y \in Photos : y \in Covers' <=> y \in Stored' /\ store'.photos[y].cover
      BY DEF Covers, Stored
    <3>2. \A y \in Photos : y \in Covers <=> y \in Stored /\ store.photos[y].cover
      BY DEF Covers, Stored
    <3>3. Covers \subseteq Photos /\ Covers' \subseteq Photos
      BY DEF Covers, Stored
    <3>4. x \in Covers' <=> c.count = 0
      BY <1>10, <2>1, <2>2, <3>1
    <3>5. \A y \in Photos \ {x} : y \in Covers' <=> y \in Covers
      BY <1>10, <2>2, <3>1, <3>2
    <3>6. x \notin Covers
      BY <1>8, <3>2
    <3> QED BY <3>3, <3>4, <3>5, <3>6
  <2> QED BY <2>2, <2>3, <2>4
<1>12. ASSUME ServerSide(c), \A y, z \in Covers : y = z
       PROVE  (\A y, z \in Covers : y = z)' /\ (o # Idle => ServerSide(o)')
  <2>1. c.count = 0 => Covers = {}
    BY <1>2, <1>12, PhotosFinite, FS_EmptySet DEF Covers, ServerSide
  <2>2. o # Idle => ServerSide(o)'
    BY <1>4, <1>5 DEF ServerSide
  <2> QED BY <1>11, <1>12, <2>1, <2>2
<1>13. ASSUME TabSide(c), tab.docs \subseteq store.docs
       PROVE  /\ o # Idle => TabSide(o)'
              /\ (ShownIds(tab.shown) \subseteq Stored)'
              /\ (tab.docs \subseteq store.docs)'
  <2>1. (c.heeded => c.shown = tab.shown) /\ ShownIds(tab.shown) \subseteq Stored
    BY <1>2, <1>13 DEF TabSide
  <2>2. o # Idle => TabSide(o)'
    BY <1>4, <1>5, <1>8, <1>11, <2>1 DEF TabSide
  <2> QED BY <1>8, <1>10, <1>11, <1>13, <2>1, <2>2
<1>14. OnlyOps /\ Used \subseteq Used' /\ Stored' \subseteq Used' /\ tab' \in Tabs
  BY <1>8, <1>10, <1>11, Typed DEF CreatePhoto
<1> QED BY <1>1, <1>2, <1>5, <1>6, <1>8, <1>10, <1>12, <1>13, <1>14, OpStep

\* What TakeBack leaves: the call that undoes, with no answer that the tab heeds.
LEMMA TakenBack ==
  ASSUME WizardIInv, NEW i \in Ops, op[i] \in Call,
         NEW kind \in {"remove", "undocument"}, NEW at \in {"delete", "discard"}, TakeBack(i, kind, at),
         kind = "remove" => at = "delete" /\ op[i].item \in Photos,
         kind = "undocument" => at = "discard" /\ op[i].item \in Papers
  PROVE  \E o \in OpCalls : /\ op' = [op EXCEPT ![i] = o] /\ o # Idle /\ CountsPast(o)
                            /\ o.kind = kind /\ o.at = at /\ o.item = op[i].item /\ ~ o.heeded
<1>1. PICK o : o = [op[i] EXCEPT !.kind = kind, !.at = at, !.heeded = FALSE, !.count = 0, !.shown = <<>>,
                             !.papers = {}]
  OBVIOUS
<1>2. <<>> \in Seq(Shot)
  OBVIOUS
<1>3. o \in Call /\ o.kind = kind /\ o.at = at /\ o.item = op[i].item /\ ~ o.heeded
  BY <1>1, <1>2 DEF Call
<1>4. Fits(o)
  BY <1>3 DEF Fits
<1>5. op' = [op EXCEPT ![i] = o]
  BY <1>1 DEF TakeBack, WizardIInv, WizardShape
<1>6. o \in OpCalls /\ o # Idle
  BY <1>3, <1>4, IsOp
<1>7. CountsPast(o)
  BY <1>3 DEF CountsPast
<1> QED BY <1>3, <1>5, <1>6, <1>7

LEMMA PutFailsKeeps == ASSUME WizardIInv, NEW i \in Ops, PutFails(i) PROVE WizardIInv'
<1>1. /\ op[i] \in Call /\ Fits(op[i]) /\ op[i].kind = "add" /\ op[i].at = "put" /\ op[i] # Idle
      /\ TakeBack(i, "remove", "delete") /\ UNCHANGED <<tab, store>> /\ OnlyOps
  BY AtPlace DEF PutFails, At
<1>2. op[i].item \in Photos
  BY <1>1 DEF Fits
<1>3. PICK o \in OpCalls : /\ op' = [op EXCEPT ![i] = o] /\ o # Idle /\ CountsPast(o)
                           /\ o.kind = "remove" /\ o.at = "delete" /\ o.item = op[i].item /\ ~ o.heeded
  BY <1>1, <1>2, TakenBack
<1>4. ServerSide(o) /\ (TabSide(op[i]) => TabSide(o))
  BY <1>1, <1>3 DEF ServerSide, TabSide
<1> QED BY <1>1, <1>3, <1>4, OnlyOpStep

LEMMA PutKeeps == ASSUME WizardIInv, NEW i \in Ops, PutLands(i) PROVE WizardIInv'
<1>1. PICK c : c = op[i]
  OBVIOUS
<1>2. c \in Call /\ Fits(c) /\ c.kind = "add" /\ c.at = "put" /\ c # Idle /\ c.heeded
  BY <1>1, AtPlace DEF PutLands, At, Fits
<1>3. PICK shot : shot = [id |-> c.item, cover |-> (c.count = 0)]
  OBVIOUS
<1>4. shot \in Shot /\ c.shown \in Seq(Shot)
  BY <1>2, <1>3 DEF Call, Fits, Shot
<1>5. tab' = [tab EXCEPT !.shown = Append(c.shown, shot)] /\ op' = [op EXCEPT ![i] = Idle] /\ store' = store
  BY <1>1, <1>3 DEF PutLands, Done
<1>6. Append(c.shown, shot) \in Seq(Shot)
  BY <1>4
<1>7. /\ tab' \in Tabs /\ tab'.step = tab.step /\ tab'.id = tab.id /\ tab'.submitted = tab.submitted
      /\ tab'.docs = tab.docs /\ tab'.shown = Append(c.shown, shot)
  BY <1>5, <1>6, Typed DEF Tabs
<1>8. ShownIds(Append(c.shown, shot)) \subseteq ShownIds(c.shown) \cup {c.item}
  <2>1. ASSUME NEW k \in DOMAIN Append(c.shown, shot)
        PROVE  \/ Append(c.shown, shot)[k] = shot
               \/ k \in DOMAIN c.shown /\ Append(c.shown, shot)[k] = c.shown[k]
    BY <1>4
  <2> QED BY <1>3, <2>1 DEF ShownIds
<1>9. Used' = Used /\ Stored' = Stored /\ Covers' = Covers
  BY <1>5 DEF Used, Stored, Covers
<1>10. TabSide(c) => (ShownIds(tab.shown) \subseteq Stored)'
  BY <1>2, <1>7, <1>8, <1>9 DEF TabSide
<1>11. store' \in Drafts /\ OnlyOps /\ store'.draft = store.draft /\ store'.sent = store.sent
       /\ (tab.docs \subseteq store.docs => (tab.docs \subseteq store.docs)')
  BY <1>5, <1>7, Typed DEF PutLands
<1> QED BY <1>1, <1>2, <1>5, <1>7, <1>9, <1>10, <1>11, Typed, IsOp, OpStep

\* A removal moves on to at, and is otherwise what it was.
LEMMA LaterOp ==
  ASSUME WizardIInv, NEW i \in Ops, op[i] \in Call, Fits(op[i]), op[i].kind = "remove",
         NEW at \in {"promote", "answer"}, Later(i, at), NEW o, o = [op[i] EXCEPT !.at = at]
  PROVE  /\ op' = [op EXCEPT ![i] = o] /\ o \in OpCalls /\ o # Idle /\ CountsPast(o)'
         /\ o.at = at /\ o.kind = "remove" /\ o.item = op[i].item /\ o.shown = op[i].shown
         /\ o.heeded = op[i].heeded /\ o.item \in Photos
<1>1. /\ o \in Call /\ o.at = at /\ o.kind = "remove" /\ o.item = op[i].item /\ o.shown = op[i].shown
      /\ o.heeded = op[i].heeded
  BY DEF Call
<1>2. Fits(o) /\ o.item \in Photos
  BY <1>1 DEF Fits
<1>3. op' = [op EXCEPT ![i] = o]
  BY DEF Later, WizardIInv, WizardShape
<1> QED BY <1>1, <1>2, <1>3, IsOp DEF CountsPast

LEMMA DeleteKeeps == ASSUME WizardIInv, NEW i \in Ops, DeletePhoto(i) PROVE WizardIInv'
<1>1. PICK c : c = op[i]
  OBVIOUS
<1>2. c \in Call /\ Fits(c) /\ c.kind = "remove" /\ c.at = "delete" /\ c # Idle
  BY <1>1, AtPlace DEF DeletePhoto, At
<1>3. PICK x \in Photos : x = c.item
  BY <1>2 DEF Fits
<1>4. x \in Stored
  BY <1>1, <1>3 DEF DeletePhoto
<1>5. PICK at \in {"promote", "answer"} :
        at = IF store.photos[x].cover /\ Stored # {x} THEN "promote" ELSE "answer"
  OBVIOUS
<1>6. PICK entry : entry = [store.photos[x] EXCEPT !.there = FALSE, !.cover = FALSE]
  OBVIOUS
<1>7. entry \in PhotoRow /\ entry.order = store.photos[x].order /\ ~ entry.there
  BY <1>6, Typed DEF PhotoRow
<1>8. /\ store' = [store EXCEPT !.photos[x].there = FALSE, !.photos[x].cover = FALSE]
      /\ Later(i, at) /\ tab' = tab /\ OnlyOps
  BY <1>1, <1>3, <1>5 DEF DeletePhoto
<1>9. /\ store' \in Drafts /\ store'.draft = store.draft /\ store'.sent = store.sent /\ store'.docs = store.docs
      /\ store'.photos[x] = entry /\ \A y \in Photos \ {x} : store'.photos[y] = store.photos[y]
  <2>1. store' = [store EXCEPT !.photos = [store.photos EXCEPT ![x] = entry]]
    BY <1>6, <1>8, Typed DEF Drafts
  <2> QED BY <1>7, <2>1, Typed DEF Drafts
<1>10. Stored' = Stored \ {x}
  BY <1>7, <1>9 DEF Stored
<1>11. Used' = Used
  BY <1>7, <1>9 DEF Used
<1>12. Covers' = Covers \ {x}
  BY <1>9, <1>10 DEF Covers, Stored
<1>13. PICK o : o = [op[i] EXCEPT !.at = at]
  OBVIOUS
<1>14. /\ op' = [op EXCEPT ![i] = o] /\ o \in OpCalls /\ o # Idle /\ CountsPast(o)'
       /\ o.at = at /\ o.kind = "remove" /\ o.item = x /\ o.shown = c.shown /\ o.heeded = c.heeded
  BY <1>1, <1>2, <1>3, <1>8, <1>13, LaterOp
<1>15. ASSUME \A y, z \in Covers : y = z
       PROVE  ServerSide(o)' /\ (\A y, z \in Covers : y = z)'
  <2>1. at = "promote" => Covers' = {}
    BY <1>4, <1>5, <1>12, <1>15 DEF Covers
  <2>2. at = "promote" => \A y \in Stored' : ~ store'.photos[y].cover
    BY <2>1 DEF Covers
  <2>3. ServerSide(o)'
    BY <1>10, <1>14, <2>2 DEF ServerSide
  <2> QED BY <1>12, <1>15, <2>3
<1>16. ASSUME TabSide(c), tab.docs \subseteq store.docs
       PROVE  TabSide(o)' /\ (tab.docs \subseteq store.docs)'
  <2>1. /\ c.heeded => c.shown = tab.shown
        /\ ~ c.heeded => x \notin ShownIds(tab.shown)
        /\ ShownIds(tab.shown) \subseteq Stored
    BY <1>2, <1>3, <1>16 DEF TabSide
  <2>2. TabSide(o)'
    BY <1>5, <1>8, <1>10, <1>14, <2>1 DEF TabSide
  <2> QED BY <1>8, <1>9, <1>16, <2>2
<1>17. /\ tab' \in Tabs /\ tab'.step = tab.step /\ tab'.id = tab.id /\ tab'.submitted = tab.submitted
       /\ Used \subseteq Used' /\ Stored' \subseteq Used'
  BY <1>8, <1>10, <1>11, Typed
<1> QED BY <1>1, <1>2, <1>8, <1>9, <1>14, <1>15, <1>16, <1>17, OpStep

LEMMA PromoteKeeps ==
  ASSUME WizardIInv, NEW i \in Ops, NEW x \in Photos, Promote(i, x) PROVE WizardIInv'
<1>1. PICK c : c = op[i]
  OBVIOUS
<1>2. c \in Call /\ Fits(c) /\ c.kind = "remove" /\ c.at = "promote" /\ c # Idle
  <2>1. c \in Call /\ Fits(c) /\ c.at = "promote" /\ c # Idle
    BY <1>1, AtPlace DEF Promote
  <2> QED BY <2>1 DEF Fits
<1>3. x \in Stored /\ store' = [store EXCEPT !.photos[x].cover = TRUE] /\ tab' = tab /\ OnlyOps /\ Later(i, "answer")
  BY DEF Promote
<1>4. PICK entry : entry = [store.photos[x] EXCEPT !.cover = TRUE]
  OBVIOUS
<1>5. entry \in PhotoRow /\ entry.order = store.photos[x].order /\ entry.there = store.photos[x].there
  BY <1>4, Typed DEF PhotoRow
<1>6. /\ store' \in Drafts /\ store'.draft = store.draft /\ store'.sent = store.sent /\ store'.docs = store.docs
      /\ store'.photos[x] = entry /\ \A y \in Photos \ {x} : store'.photos[y] = store.photos[y]
  <2>1. store' = [store EXCEPT !.photos = [store.photos EXCEPT ![x] = entry]]
    BY <1>3, <1>4, Typed DEF Drafts
  <2> QED BY <1>5, <2>1, Typed DEF Drafts
<1>7. Stored' = Stored
  BY <1>5, <1>6 DEF Stored
<1>8. Used' = Used
  BY <1>5, <1>6 DEF Used
<1>9. Covers' \subseteq Covers \cup {x}
  BY <1>6, <1>7 DEF Covers, Stored
<1>10. PICK o : o = [op[i] EXCEPT !.at = "answer"]
  OBVIOUS
<1>11. /\ op' = [op EXCEPT ![i] = o] /\ o \in OpCalls /\ o # Idle /\ CountsPast(o)'
       /\ o.at = "answer" /\ o.kind = "remove" /\ o.item = c.item /\ o.shown = c.shown /\ o.heeded = c.heeded
  BY <1>1, <1>2, <1>3, <1>10, LaterOp
<1>12. ServerSide(c) => ServerSide(o)' /\ (\A y, z \in Covers : y = z)'
  <2>1. ServerSide(c) => Covers = {}
    BY <1>2 DEF ServerSide, Covers
  <2>2. ServerSide(c) => ServerSide(o)'
    BY <1>2, <1>7, <1>11 DEF ServerSide
  <2> QED BY <1>9, <2>1, <2>2
<1>13. TabSide(c) => TabSide(o)'
  BY <1>2, <1>3, <1>7, <1>11 DEF TabSide
<1>14. /\ tab' \in Tabs /\ tab'.step = tab.step /\ tab'.id = tab.id
       /\ tab'.submitted = tab.submitted /\ Used \subseteq Used' /\ Stored' \subseteq Used'
       /\ (tab.docs \subseteq store.docs => (tab.docs \subseteq store.docs)')
  BY <1>3, <1>6, <1>7, <1>8, Typed
<1> QED BY <1>1, <1>2, <1>3, <1>6, <1>11, <1>12, <1>13, <1>14, OpStep

LEMMA RemovedKeeps == ASSUME WizardIInv, NEW i \in Ops, Removed(i) PROVE WizardIInv'
<1>1. PICK c : c = op[i]
  OBVIOUS
<1>2. /\ c \in Call /\ Fits(c) /\ c.kind = "remove" /\ c.at = "answer" /\ c # Idle
      /\ c.shown \in Seq(Shot)
  BY <1>1, AtPlace DEF Removed, At, Call
<1>3. PICK left : left = Without(c.shown, c.item)
  OBVIOUS
<1>4. left \in Seq(Shot) /\ ShownIds(left) \subseteq ShownIds(c.shown) \ {c.item}
  BY <1>2, <1>3, WithoutDrops
<1>5. op' = [op EXCEPT ![i] = Idle] /\ store' = store /\ OnlyOps
  BY DEF Removed, Done
<1>6. Used' = Used /\ Stored' = Stored /\ Covers' = Covers
  BY <1>5 DEF Used, Stored, Covers
<1>7. CASE ~ c.heeded
  <2>1. tab' = tab
    BY <1>1, <1>7 DEF Removed
  <2>2. TabSide(c) => ShownIds(tab.shown) \subseteq Stored
    BY <1>2, <1>7 DEF TabSide
  <2> QED BY <1>1, <1>2, <1>5, <2>1, <2>2, IsOp, OnlyOpStep
<1>8. CASE c.heeded
  <2>1. PICK shown : shown = IF (\E k \in DOMAIN left : left[k].cover) \/ left = <<>> THEN left
                             ELSE [left EXCEPT ![1].cover = TRUE]
    OBVIOUS
  <2>2. tab' = [tab EXCEPT !.shown = shown]
    BY <1>1, <1>3, <1>8, <2>1 DEF Removed
  <2>3. shown \in Seq(Shot) /\ ShownIds(shown) \subseteq ShownIds(left)
    <3>1. CASE shown = left
      BY <1>4, <3>1
    <3>2. CASE left # <<>> /\ shown = [left EXCEPT ![1].cover = TRUE]
      <4>1. 1 \in DOMAIN left /\ left[1] \in Shot
        BY <1>4, <3>2
      <4>2. PICK first : first = [left[1] EXCEPT !.cover = TRUE]
        OBVIOUS
      <4>3. first \in Shot /\ first.id = left[1].id
        BY <4>1, <4>2 DEF Shot
      <4>4. shown = [left EXCEPT ![1] = first]
        BY <3>2, <4>2
      <4>5. shown \in Seq(Shot) /\ DOMAIN shown = DOMAIN left
        <5>1. Len(left) \in Nat /\ left \in [1 .. Len(left) -> Shot]
          BY <1>4
        <5>2. shown \in [1 .. Len(left) -> Shot]
          BY <4>3, <4>4, <5>1
        <5> QED BY <5>1, <5>2
      <4>6. \A k \in DOMAIN left : shown[k].id = left[k].id
        BY <1>4, <4>3, <4>4
      <4> QED BY <4>5, <4>6 DEF ShownIds
    <3> QED BY <2>1, <3>1, <3>2
  <2>4. /\ tab' \in Tabs /\ tab'.step = tab.step /\ tab'.id = tab.id /\ tab'.submitted = tab.submitted
        /\ tab'.docs = tab.docs /\ tab'.shown = shown
    BY <2>2, <2>3, Typed DEF Tabs
  <2>5. TabSide(c) => (ShownIds(tab.shown) \subseteq Stored)'
    BY <1>2, <1>4, <1>6, <1>8, <2>3, <2>4 DEF TabSide
  <2>6. /\ store' \in Drafts /\ store'.draft = store.draft /\ store'.sent = store.sent
        /\ (tab.docs \subseteq store.docs => (tab.docs \subseteq store.docs)')
    BY <1>5, <2>4, Typed
  <2> QED BY <1>1, <1>2, <1>5, <1>6, <2>4, <2>5, <2>6, Typed, IsOp, OpStep
<1> QED BY <1>7, <1>8

LEMMA CoverKeeps == ASSUME WizardIInv, NEW i \in Ops, SetCover(i) PROVE WizardIInv'
<1>1. PICK c : c = op[i]
  OBVIOUS
<1>2. c \in Call /\ Fits(c) /\ c.kind = "cover" /\ c # Idle /\ c.at = "set"
  <2>1. c.kind = "cover" /\ c # Idle
    BY <1>1 DEF SetCover, Idle
  <2>2. c \in Call /\ Fits(c)
    BY <1>1, <2>1, Typed, OpHolds
  <2> QED BY <2>1, <2>2 DEF Fits
<1>3. PICK x \in Photos : x = c.item
  BY <1>2 DEF Fits
<1>4. op' = [op EXCEPT ![i] = Idle] /\ OnlyOps /\ x \in Stored
  BY <1>1, <1>3 DEF SetCover, Done
<1>5. TabSide(c) => ShownIds(tab.shown) \subseteq Stored
  BY <1>2 DEF TabSide
<1> DEFINE photos == [y \in Photos |-> [store.photos[y] EXCEPT !.cover = (y = x)]]
           marked == [k \in DOMAIN c.shown |-> [id |-> c.shown[k].id, cover |-> (c.shown[k].id = x)]]
<1>6. PICK shown : shown = IF c.heeded THEN marked ELSE tab.shown
  OBVIOUS
<1>7. store' = [store EXCEPT !.photos = photos] /\ tab' = [tab EXCEPT !.shown = shown]
  <2>1. store' = [store EXCEPT !.photos = photos]
    BY <1>1, <1>3, Typed DEF SetCover, Drafts
  <2>2. tab' = IF c.heeded THEN [tab EXCEPT !.shown = marked] ELSE tab
    BY <1>1, <1>3, Typed DEF SetCover, Tabs
  <2>3. tab = [tab EXCEPT !.shown = tab.shown]
    BY Typed DEF Tabs
  <2> HIDE DEF marked, photos
  <2> QED BY <1>6, <2>1, <2>2, <2>3
<1>8. \A y \in Photos : /\ photos[y] \in PhotoRow /\ photos[y].order = store.photos[y].order
                        /\ photos[y].there = store.photos[y].there /\ photos[y].cover = (y = x)
  BY Typed DEF PhotoRow
<1>9. photos \in [Photos -> PhotoRow]
  BY <1>8
<1>10. shown \in Seq(Shot) /\ (TabSide(c) => ShownIds(shown) \subseteq ShownIds(tab.shown))
  <2>0. c.shown \in Seq(Shot)
    BY <1>2 DEF Call
  <2>1. \A k \in DOMAIN c.shown : c.shown[k] \in Shot
    BY <2>0
  <2>2. \A k \in DOMAIN c.shown : marked[k] \in Shot /\ marked[k].id = c.shown[k].id
    BY <2>1 DEF Shot
  <2>3. DOMAIN c.shown = 1 .. Len(c.shown) /\ Len(c.shown) \in Nat
    BY <2>0
  <2>4. marked \in [1 .. Len(c.shown) -> Shot]
    BY <2>2, <2>3
  <2>5. marked \in Seq(Shot)
    BY <2>3, <2>4
  <2>6. ShownIds(marked) \subseteq ShownIds(c.shown)
    BY <2>2, <2>5 DEF ShownIds
  <2>7. TabSide(c) /\ c.heeded => c.shown = tab.shown
    BY <1>2 DEF TabSide
  <2> HIDE DEF marked
  <2> QED BY <1>6, <2>5, <2>6, <2>7, Typed
<1> HIDE DEF photos, marked
<1>11. /\ store' \in Drafts /\ store'.draft = store.draft /\ store'.sent = store.sent
       /\ store'.docs = store.docs /\ store'.photos = photos
  BY <1>7, <1>9, Typed DEF Drafts
<1>12. /\ tab' \in Tabs /\ tab'.step = tab.step /\ tab'.id = tab.id /\ tab'.submitted = tab.submitted
       /\ tab'.docs = tab.docs /\ tab'.shown = shown
  BY <1>7, <1>10, Typed DEF Tabs
<1>13. Stored' = Stored
  BY <1>8, <1>11 DEF Stored
<1>14. Used' = Used
  BY <1>8, <1>11 DEF Used
<1>15. Covers' \subseteq {x}
  BY <1>8, <1>11 DEF Covers, Stored
<1>16. TabSide(c) => (ShownIds(tab.shown) \subseteq Stored)'
  BY <1>5, <1>10, <1>12, <1>13
<1>17. /\ \A y, z \in Covers' : y = z
       /\ tab.docs \subseteq store.docs => (tab.docs \subseteq store.docs)'
       /\ Used \subseteq Used' /\ Stored' \subseteq Used'
  BY <1>11, <1>12, <1>13, <1>14, <1>15, Typed
<1> QED BY <1>1, <1>2, <1>4, <1>11, <1>12, <1>16, <1>17, IsOp, OpStep

\* A step of a document's call moves no photo.
Papered(o, shown, stored) ==
  /\ shown \subseteq stored
  /\ o # Idle /\ o.heeded => o.papers = shown
  /\ o # Idle /\ o.at = "send" => o.item \in stored \ shown
  /\ o # Idle /\ o.kind = "undocument" /\ ~ o.heeded => o.item \notin shown

LEMMA DocumentStep ==
  ASSUME WizardIInv, NEW i \in Ops, op[i] # Idle, op[i].kind \in {"document", "undocument"}, OnlyOps,
         NEW o \in OpCalls, op' = [op EXCEPT ![i] = o],
         o = Idle \/ (o.kind \in {"document", "undocument"} /\ o.at # "create"),
         NEW shown \in SUBSET Papers, NEW stored \in SUBSET Papers,
         tab' = [tab EXCEPT !.docs = shown], store' = [store EXCEPT !.docs = stored],
         TabSide(op[i]) /\ tab.docs \subseteq store.docs => Papered(o, shown, stored)
  PROVE  WizardIInv'
<1>1. /\ tab' \in Tabs /\ tab'.step = tab.step /\ tab'.id = tab.id /\ tab'.submitted = tab.submitted
      /\ tab'.docs = shown /\ tab'.shown = tab.shown
  BY Typed DEF Tabs
<1>2. /\ store' \in Drafts /\ store'.draft = store.draft /\ store'.sent = store.sent
      /\ store'.docs = stored /\ store'.photos = store.photos
  BY Typed DEF Drafts
<1>3. Used' = Used /\ Stored' = Stored /\ Covers' = Covers
  BY <1>2 DEF Used, Stored, Covers
<1>4. o # Idle => o.at \in {"row", "send", "discard"} /\ o.kind \notin {"add", "remove", "cover"}
  BY OpHolds DEF Fits
<1>5. CountsPast(o)' /\ ServerSide(o)'
  BY <1>4 DEF CountsPast, ServerSide, Idle
<1>6. TabSide(op[i]) => ShownIds(tab.shown) \subseteq Stored
  BY DEF TabSide
<1>7. ASSUME TabSide(op[i]), tab.docs \subseteq store.docs
      PROVE  /\ o # Idle => TabSide(o)'
             /\ (ShownIds(tab.shown) \subseteq Stored)' /\ (tab.docs \subseteq store.docs)'
  <2>1. Papered(o, shown, stored) /\ ShownIds(tab'.shown) \subseteq Stored'
    BY <1>1, <1>3, <1>6, <1>7
  <2>2. o # Idle => TabSide(o)'
    BY <1>1, <1>2, <1>4, <2>1 DEF TabSide, Papered
  <2> QED BY <1>1, <1>2, <2>1, <2>2 DEF Papered
<1>8. Used \subseteq Used' /\ Stored' \subseteq Used' /\ ((\A x, y \in Covers : x = y) => (\A x, y \in Covers : x = y)')
  BY <1>3, Typed
<1> QED BY <1>1, <1>2, <1>5, <1>7, <1>8, OpStep

LEMMA RowKeeps == ASSUME WizardIInv, NEW i \in Ops, NEW d \in Papers, CreateDocument(i, d) PROVE WizardIInv'
<1>1. PICK c : c = op[i]
  OBVIOUS
<1>2. c \in Call /\ Fits(c) /\ c.kind = "document" /\ c.at = "row" /\ c # Idle
  BY <1>1, AtPlace DEF CreateDocument, At
<1>3. PICK o : o = IF c.heeded THEN [c EXCEPT !.at = "send", !.item = d] ELSE Idle
  OBVIOUS
<1>4. ASSUME c.heeded
      PROVE  /\ o \in Call /\ o.kind = "document" /\ o.at = "send" /\ o.item = d /\ o.heeded /\ Fits(o)
             /\ o.papers = c.papers
  <2>1. o \in Call /\ o.kind = "document" /\ o.at = "send" /\ o.item = d /\ o.heeded /\ o.papers = c.papers
    BY <1>2, <1>3, <1>4 DEF Call
  <2> QED BY <2>1 DEF Fits
<1>5. /\ o \in OpCalls /\ CountsPast(o) /\ (ServerSide(o) \/ o = Idle)
      /\ o # Idle => o.kind = "document" /\ o.at = "send" /\ o.item = d /\ c.heeded /\ o.papers = c.papers
  <2>1. CASE c.heeded
    BY <1>4, <2>1, IsOp DEF CountsPast, ServerSide
  <2>2. CASE ~ c.heeded
    BY <1>3, <2>2, IsOp
  <2> QED BY <2>1, <2>2
<1>6. op' = [op EXCEPT ![i] = o] /\ OnlyOps
  BY <1>1, <1>3 DEF CreateDocument
<1>7. PICK stored \in SUBSET Papers : stored = store.docs \cup {d}
  BY Typed
<1>8. PICK shown \in SUBSET Papers : shown = tab.docs
  BY Typed
<1>9. store' = [store EXCEPT !.docs = stored] /\ tab' = [tab EXCEPT !.docs = shown]
  BY <1>7, <1>8, Typed DEF CreateDocument, Tabs, Drafts
<1>10. TabSide(c) /\ tab.docs \subseteq store.docs => Papered(o, shown, stored)
  BY <1>2, <1>5, <1>7, <1>8 DEF CreateDocument, Papered, TabSide
<1> QED BY <1>1, <1>2, <1>5, <1>6, <1>9, <1>10, DocumentStep

LEMMA SendKeeps == ASSUME WizardIInv, NEW i \in Ops, NEW ok \in BOOLEAN, SendDocument(i, ok) PROVE WizardIInv'
<1>1. PICK c : c = op[i]
  OBVIOUS
<1>2. /\ c \in Call /\ Fits(c) /\ c.kind = "document" /\ c.at = "send" /\ c # Idle /\ c.item \in Papers
      /\ c.heeded
  BY <1>1, AtPlace DEF SendDocument, At, Fits
<1>3. PICK stored \in SUBSET Papers : stored = store.docs
  BY Typed
<1>4. store' = [store EXCEPT !.docs = stored] /\ OnlyOps
  BY <1>3, Typed DEF SendDocument, Drafts
<1>5. CASE ok
  <2>0. PICK shown \in SUBSET Papers : shown = c.papers \cup {c.item}
    BY <1>2 DEF Call
  <2>1. tab' = [tab EXCEPT !.docs = shown] /\ op' = [op EXCEPT ![i] = Idle]
    BY <1>1, <1>5, <2>0 DEF SendDocument, Done
  <2>2. TabSide(c) /\ tab.docs \subseteq store.docs => Papered(Idle, shown, stored)
    BY <1>2, <1>3, <2>0 DEF TabSide, Papered
  <2> QED BY <1>1, <1>2, <1>4, <2>1, <2>2, IsOp, DocumentStep
<1>6. CASE ~ ok
  <2>1. TakeBack(i, "undocument", "discard") /\ tab' = tab
    BY <1>6 DEF SendDocument
  <2>3. PICK o \in OpCalls : /\ op' = [op EXCEPT ![i] = o] /\ o # Idle /\ CountsPast(o)
                             /\ o.kind = "undocument" /\ o.at = "discard" /\ o.item = op[i].item /\ ~ o.heeded
    BY <1>1, <1>2, <2>1, TakenBack
  <2>4. PICK shown \in SUBSET Papers : shown = tab.docs
    BY Typed
  <2>5. tab' = [tab EXCEPT !.docs = shown]
    BY <2>1, <2>4, Typed DEF Tabs
  <2>6. TabSide(c) /\ tab.docs \subseteq store.docs => Papered(o, shown, stored)
    BY <1>1, <1>2, <1>3, <2>3, <2>4 DEF TabSide, Papered
  <2> QED BY <1>1, <1>2, <1>4, <2>3, <2>5, <2>6, DocumentStep
<1> QED BY <1>5, <1>6

LEMMA DiscardKeeps == ASSUME WizardIInv, NEW i \in Ops, DiscardDocument(i) PROVE WizardIInv'
<1>1. PICK c : c = op[i]
  OBVIOUS
<1>2. c \in Call /\ Fits(c) /\ c.kind = "undocument" /\ c.at = "discard" /\ c # Idle
  BY <1>1, AtPlace DEF DiscardDocument, At
<1>3. PICK stored \in SUBSET Papers : stored = store.docs \ {c.item}
  BY Typed
<1>4. PICK shown \in SUBSET Papers : shown = IF c.heeded THEN c.papers \ {c.item} ELSE tab.docs
  BY <1>2, Typed DEF Call
<1>5. store' = [store EXCEPT !.docs = stored] /\ tab' = [tab EXCEPT !.docs = shown]
  BY <1>1, <1>3, <1>4, Typed DEF DiscardDocument, Tabs, Drafts
<1>6. op' = [op EXCEPT ![i] = Idle] /\ OnlyOps
  BY DEF DiscardDocument, Done
<1>7. TabSide(c) /\ tab.docs \subseteq store.docs => Papered(Idle, shown, stored)
  BY <1>2, <1>3, <1>4 DEF TabSide, Papered
<1> QED BY <1>1, <1>2, <1>3, <1>4, <1>5, <1>6, <1>7, IsOp, DocumentStep

-----------------------------------------------------------------------------
LEMMA WizardStep == WizardIInv /\ [WizardNext]_wizardVars => WizardIInv'
<1> SUFFICES ASSUME WizardIInv, [WizardNext]_wizardVars PROVE WizardIInv'
  OBVIOUS
<1>1. CASE Type \/ GoNext \/ GoBack
  BY <1>1, TypeKeeps, GoNextKeeps, GoBackKeeps
<1>2. CASE PersistStep \/ PersistFails \/ SubmitListing \/ SubmitLands \/ Resume
  BY <1>2, PersistKeeps, FlightKeeps, ResumeKeeps
<1>3. CASE LateSubmit \/ \E n \in 1 .. LastStep : LateSave(n) \/ LateFails(n)
  BY <1>3, LateKeeps
<1>4. ASSUME NEW n \in 1 .. LastStep, StepSelect(n) PROVE WizardIInv'
  BY <1>4, GoesBack DEF StepSelect
<1>5. ASSUME NEW i \in Ops, Refused(i) \/ AddPhoto(i) \/ AddDocument(i) PROVE WizardIInv'
  BY <1>5, RefusedKeeps, BeginKeeps
<1>6. ASSUME NEW i \in Ops, CountPhotos(i) \/ PutLands(i) \/ PutFails(i) PROVE WizardIInv'
  BY <1>6, CountKeeps, PutKeeps, PutFailsKeeps
<1>7. ASSUME NEW i \in Ops, DeletePhoto(i) \/ Removed(i) \/ SetCover(i) PROVE WizardIInv'
  BY <1>7, DeleteKeeps, RemovedKeeps, CoverKeeps
<1>8. ASSUME NEW i \in Ops, DiscardDocument(i) \/ \E ok \in BOOLEAN : SendDocument(i, ok) PROVE WizardIInv'
  BY <1>8, DiscardKeeps, SendKeeps
<1>9. ASSUME NEW i \in Ops, NEW d \in Papers, CreateDocument(i, d) \/ RemoveDocument(i, d) PROVE WizardIInv'
  BY <1>9, RowKeeps, BeginKeeps
<1>10. ASSUME NEW i \in Ops, NEW x \in Photos,
              CreatePhoto(i, x) \/ RemovePhoto(i, x) \/ Promote(i, x) \/ ChooseCover(i, x)
       PROVE  WizardIInv'
  BY <1>10, CreateKeeps, BeginKeeps, PromoteKeeps
<1>11. CASE UNCHANGED wizardVars
  <2>1. /\ tab' = tab /\ store' = store /\ dirty' = dirty /\ lost' = lost /\ flight' = flight
        /\ late' = late /\ op' = op /\ crossed' = crossed /\ behind' = behind
    BY <1>11 DEF wizardVars
  <2>2. StepsInv'
    BY <2>1 DEF WizardIInv, StepsInv, SavedBefore
  <2>3. /\ tab' \in Tabs /\ store' \in Drafts /\ flight' \in Flights /\ (tab'.id => store'.draft)
        /\ dirty' \subseteq FormSteps /\ lost' \subseteq FormSteps /\ late' \subseteq FormSteps \cup {LastStep}
    BY <2>1 DEF WizardIInv, WizardShape
  <2> QED BY <2>1, <2>2, <2>3, OpsKept, HostMoves
<1> QED BY <1>1, <1>2, <1>3, <1>4, <1>5, <1>6, <1>7, <1>8, <1>9, <1>10, <1>11 DEF WizardNext

LEMMA WizardFollows == WizardIInv => WizardInv
<1> SUFFICES ASSUME WizardIInv PROVE WizardInv
  OBVIOUS
<1>1. WizardTypeOK
  <2>1. ShownIds(tab.shown) \subseteq Photos
    BY Typed, ShownArePhotos
  <2>2. store.photos \in [Photos -> [order : 0 .. Cardinality(Photos), cover : BOOLEAN, there : BOOLEAN]]
    BY Typed DEF PhotoRow
  <2> QED BY <2>1, <2>2, Typed DEF WizardIInv, WizardShape, WizardTypeOK, Tabs
<1>2. TypedIsSubmitted
  <2>1. dirty \subseteq FormSteps /\ (tab.submitted => SavedBefore(LastStep) /\ store.sent)
    BY DEF WizardIInv, WizardShape, StepsInv
  <2> QED BY <2>1, StepNumbers DEF TypedIsSubmitted, SavedBefore
<1>3. OneCover
  BY DEF WizardIInv, PhotosInv, OneCover, Covers
<1>4. ShownIsStored
  BY DEF WizardIInv, PhotosInv, ShownIsStored
<1> QED BY <1>1, <1>2, <1>3, <1>4 DEF WizardInv

\* What the host typed and sees uploaded is what the server holds, for any number of steps,
\* photos and documents, and whenever the page is left: no step typed in before Next is
\* missing from a listing the tab calls submitted unless a late save overwrote it, and as
\* long as operations do not cross, one photo is the cover, and all that the tab shows is
\* stored unless the page was read while a removal was still to land.
THEOREM TypedAndShownIsStored == WizardSpec => []WizardInv
<1>1. WizardInit => WizardIInv
  BY WizardStarts
<1>2. WizardIInv /\ [WizardNext]_wizardVars => WizardIInv'
  BY WizardStep
<1>3. WizardIInv => WizardInv
  BY WizardFollows
<1> QED BY <1>1, <1>2, <1>3, PTL DEF WizardSpec

-----------------------------------------------------------------------------
(* EditPage                                                                 *)

Stages == {"idle", "check", "write", "mode", "rates", "seasons"}
Card(at, says, sent) == [at |-> at, says |-> says, sent |-> sent]
IsCard(r) == r = Card(r.at, r.says, r.sent) /\ r.at \in Stages /\ r.says \in {"nothing", "saved", "error"}
SavingShape ==
  /\ saving = [c \in Cards |-> saving[c]] /\ \A c \in Cards : IsCard(saving[c])
  /\ DOMAIN row = Groups

\* The groups of a card that are in the row as it sent them: all of them once it says so, and
\* the parts of the pricing card as its transactions commit.
StoredSoFar(card, c) ==
  (IF card.says = "saved" THEN Fields[c] ELSE {})
    \cup (IF card.at \in {"rates", "seasons"} THEN {"mode"} ELSE {})
    \cup (IF card.at = "seasons" THEN {"rates"} ELSE {})

CardInv(c) ==
  /\ saving[c].at \in {"mode", "rates", "seasons"} => c = "pricing"
  /\ saving[c].at # "idle" => saving[c].says = "nothing"
  /\ \A g \in StoredSoFar(saving[c], c) : row[g] = saving[c].sent[g]

EditIInv == SavingShape /\ \A c \in Cards : CardInv(c)

-----------------------------------------------------------------------------
LEMMA FieldsApart ==
  ASSUME NEW c \in Cards, NEW d \in Cards
  PROVE  /\ Fields[c] \subseteq Groups
         /\ c # d => Fields[c] \cap Fields[d] = {}
         /\ c = "pricing" => Fields[c] = {"mode", "rates", "seasons"}
<1>1. c \in DOMAIN Fields /\ d \in DOMAIN Fields
  BY EditPageAssumption
<1>2. DOMAIN Fields = {"basics", "location", "details", "rules", "pricing"}
  BY DEF Fields
<1>3. /\ Fields["basics"] = {"title"} /\ Fields["location"] = {"pin"} /\ Fields["details"] = {"rooms"}
      /\ Fields["rules"] = {"house"} /\ Fields["pricing"] = {"mode", "rates", "seasons"}
  BY DEF Fields
<1>4. Fields[c] \subseteq Groups
  BY DEF Groups
<1>5. c # d => Fields[c] \cap Fields[d] = {}
  BY <1>1, <1>2, <1>3
<1> QED BY <1>3, <1>4, <1>5

\* One card moves to r and writes some of its groups: the others keep theirs.
LEMMA CardKeeps ==
  ASSUME EditIInv, NEW c \in Cards,
         NEW r, IsCard(r),
         saving' = [saving EXCEPT ![c] = r], NEW groups \in SUBSET Fields[c],
         row' = row \/ StoreGroups(c, groups),
         r.at \in {"mode", "rates", "seasons"} => c = "pricing",
         r.at # "idle" => r.says = "nothing",
         \A g \in StoredSoFar(r, c) : row'[g] = r.sent[g]
  PROVE  EditIInv'
<1>1. /\ saving = [d \in Cards |-> saving[d]] /\ \A d \in Cards : IsCard(saving[d])
      /\ DOMAIN row = Groups
  BY DEF EditIInv, SavingShape
<1>2. saving'[c] = r /\ \A d \in Cards \ {c} : saving'[d] = saving[d]
  BY <1>1
<1>3. DOMAIN row' = Groups
  BY <1>1 DEF StoreGroups
<1>4. \A g \in Groups \ Fields[c] : row'[g] = row[g]
  BY DEF StoreGroups
<1>5. SavingShape'
  BY <1>1, <1>3 DEF SavingShape
<1>6. CardInv(c)'
  BY <1>2 DEF CardInv
<1>7. ASSUME NEW d \in Cards \ {c} PROVE CardInv(d)'
  <2>1. CardInv(d) /\ saving'[d] = saving[d]
    BY <1>2 DEF EditIInv
  <2>2. StoredSoFar(saving[d], d) \subseteq Fields[d]
    BY <2>1, FieldsApart DEF CardInv, StoredSoFar
  <2>3. \A g \in StoredSoFar(saving[d], d) : row'[g] = row[g]
    BY <1>4, <2>2, FieldsApart
  <2> QED BY <2>1, <2>3 DEF CardInv
<1> QED BY <1>5, <1>6, <1>7 DEF EditIInv

LEMMA CardTyped ==
  ASSUME EditIInv, NEW c \in Cards
  PROVE  /\ saving[c].at \in Stages /\ saving[c].says \in {"nothing", "saved", "error"}
         /\ CardInv(c) /\ c \in DOMAIN saving
         /\ saving[c] = Card(saving[c].at, saving[c].says, saving[c].sent)
<1>1. saving = [d \in Cards |-> saving[d]] /\ IsCard(saving[c]) /\ CardInv(c)
  BY DEF EditIInv, SavingShape
<1> QED BY <1>1 DEF IsCard

\* A card that gives up: nothing of it is said to be stored.
LEMMA ErrorKeeps ==
  ASSUME EditIInv, NEW c \in Cards, SaysError(c) PROVE EditIInv'
<1>1. PICK old : old = Old(Fields[c])
  OBVIOUS
<1>2. PICK r : r = Card("idle", "error", old)
  OBVIOUS
<1>3. IsCard(r)
  BY <1>2 DEF IsCard, Card, Stages
<1>4. saving' = [saving EXCEPT ![c] = r] /\ row' = row
  BY <1>1, <1>2 DEF SaysError, Resting, Card
<1>5. StoredSoFar(r, c) = {} /\ r.at = "idle"
  BY <1>2 DEF StoredSoFar, Card
<1>6. {} \in SUBSET Fields[c]
  OBVIOUS
<1> QED BY <1>3, <1>4, <1>5, <1>6, CardKeeps

\* A card that says saved has just stored the rest of its groups.
LEMMA SavedKeeps ==
  ASSUME EditIInv, NEW c \in Cards, NEW groups \in SUBSET Fields[c], StoreGroups(c, groups), SaysSaved(c),
         \A g \in Fields[c] \ groups : row[g] = saving[c].sent[g]
  PROVE  EditIInv'
<1>1. PICK r : r = Card("idle", "saved", saving[c].sent)
  OBVIOUS
<1>2. IsCard(r)
  BY <1>1 DEF IsCard, Card, Stages
<1>3. saving' = [saving EXCEPT ![c] = r]
  BY <1>1, CardTyped DEF SaysSaved, Resting, Card
<1>4. r.at = "idle" /\ r.sent = saving[c].sent /\ StoredSoFar(r, c) = Fields[c]
  BY <1>1 DEF StoredSoFar, Card
<1>5. \A g \in Fields[c] : row'[g] = saving[c].sent[g]
  BY FieldsApart DEF StoreGroups
<1>6. \A g \in StoredSoFar(r, c) : row'[g] = r.sent[g]
  BY <1>4, <1>5
<1> QED BY <1>2, <1>3, <1>4, <1>6, CardKeeps

\* A card that goes on to the next of its places.
LEMMA MoveKeeps ==
  ASSUME EditIInv, NEW c \in Cards, saving[c].at # "idle", NEW at \in Stages \ {"idle"}, Move(c, at),
         NEW groups \in SUBSET Fields[c], row' = row \/ StoreGroups(c, groups),
         at \in {"mode", "rates", "seasons"} => c = "pricing",
         at \in {"rates", "seasons"} => row'["mode"] = saving[c].sent["mode"],
         at = "seasons" => row'["rates"] = saving[c].sent["rates"]
  PROVE  EditIInv'
<1>1. PICK r : r = Card(at, "nothing", saving[c].sent)
  OBVIOUS
<1>2. saving[c].says = "nothing"
  BY CardTyped DEF CardInv
<1>3. IsCard(r)
  BY <1>1 DEF IsCard, Card
<1>4. r = [saving[c] EXCEPT !.at = at]
  <2>1. saving[c] = Card(saving[c].at, "nothing", saving[c].sent)
    BY <1>2, CardTyped
  <2>2. PICK s, a : s = saving[c].sent /\ a = saving[c].at
    OBVIOUS
  <2>3. saving[c] = Card(a, "nothing", s)
    BY <2>1, <2>2
  <2> QED BY <1>1, <2>2, <2>3 DEF Card
<1>5. saving' = [saving EXCEPT ![c] = r]
  BY <1>4 DEF Move
<1>6. r.at = at /\ r.says = "nothing" /\ r.sent = saving[c].sent
  BY <1>1 DEF Card
<1>7. \A g \in StoredSoFar(r, c) : row'[g] = r.sent[g]
  BY <1>6 DEF StoredSoFar
<1> QED BY <1>3, <1>5, <1>6, <1>7, CardKeeps

LEMMA SaveKeeps ==
  ASSUME EditIInv, NEW c \in Cards, Save(c) PROVE EditIInv'
<1>1. PICK sent \in Sendable(c) :
        saving' = [saving EXCEPT ![c] = [at |-> "check", says |-> "nothing", sent |-> sent]]
  BY DEF Save
<1>2. PICK r : r = Card("check", "nothing", sent)
  OBVIOUS
<1>3. IsCard(r)
  BY <1>2 DEF IsCard, Card, Stages
<1>4. r.at = "check" /\ r.says = "nothing" /\ StoredSoFar(r, c) = {}
  BY <1>2 DEF StoredSoFar, Card
<1>5. row' = row /\ saving' = [saving EXCEPT ![c] = r] /\ {} \in SUBSET Fields[c]
  BY <1>1, <1>2 DEF Save, Card
<1> QED BY <1>3, <1>4, <1>5, CardKeeps

LEMMA CheckSchemaKeeps ==
  ASSUME EditIInv, NEW c \in Cards, CheckSchema(c) PROVE EditIInv'
<1>1. CASE SaysError(c)
  BY <1>1, ErrorKeeps
<1>2. CASE Move(c, IF c = "pricing" THEN "mode" ELSE "write") /\ UNCHANGED row
  <2>1. saving[c].at # "idle" /\ row' = row /\ {} \in SUBSET Fields[c]
    BY <1>2 DEF CheckSchema
  <2>2. CASE c = "pricing"
    <3>1. Move(c, "mode") /\ "mode" \in Stages \ {"idle"}
      BY <1>2, <2>2 DEF Stages
    <3> QED BY <2>1, <2>2, <3>1, MoveKeeps
  <2>3. CASE c # "pricing"
    <3>1. Move(c, "write") /\ "write" \in Stages \ {"idle"}
      BY <1>2, <2>3 DEF Stages
    <3> QED BY <2>1, <3>1, MoveKeeps
  <2> QED BY <2>2, <2>3
<1> QED BY <1>1, <1>2 DEF CheckSchema

LEMMA WriteKeeps ==
  ASSUME EditIInv, NEW c \in Cards, WriteCard(c) \/ WriteLocation(c) PROVE EditIInv'
<1>1. CASE SaysError(c)
  BY <1>1, ErrorKeeps
<1>2. CASE StoreGroups(c, Fields[c]) /\ SaysSaved(c)
  BY <1>2, SavedKeeps
<1> QED BY <1>1, <1>2 DEF WriteCard, WriteLocation

\* The three transactions of the pricing card: what the earlier ones wrote is still there.
LEMMA WritePartKeeps ==
  ASSUME EditIInv, NEW c \in Cards, WritePart(c, "mode", "rates") \/ WritePart(c, "rates", "seasons")
  PROVE  EditIInv'
<1>1. CASE SaysError(c)
  BY <1>1, ErrorKeeps
<1>2. CASE WritePart(c, "mode", "rates") /\ editable
  <2>1. saving[c].at = "mode" /\ StoreGroups(c, {"mode"}) /\ Move(c, "rates") /\ c = "pricing"
    BY <1>2, CardTyped DEF WritePart, CardInv
  <2>2. row'["mode"] = saving[c].sent["mode"] /\ {"mode"} \in SUBSET Fields[c]
    BY <2>1, FieldsApart DEF StoreGroups
  <2> QED BY <2>1, <2>2, MoveKeeps DEF Stages
<1>3. CASE WritePart(c, "rates", "seasons") /\ editable
  <2>1. saving[c].at = "rates" /\ StoreGroups(c, {"rates"}) /\ Move(c, "seasons") /\ c = "pricing"
    BY <1>3, CardTyped DEF WritePart, CardInv
  <2>2. row["mode"] = saving[c].sent["mode"]
    BY <2>1, CardTyped DEF CardInv, StoredSoFar
  <2>3. row'["rates"] = saving[c].sent["rates"] /\ {"rates"} \in SUBSET Fields[c] /\ row'["mode"] = row["mode"]
    BY <2>1, FieldsApart DEF StoreGroups
  <2> QED BY <2>1, <2>2, <2>3, MoveKeeps DEF Stages
<1> QED BY <1>1, <1>2, <1>3 DEF WritePart

LEMMA WriteSeasonsKeeps ==
  ASSUME EditIInv, NEW c \in Cards, WriteSeasons(c) PROVE EditIInv'
<1>1. CASE SaysError(c)
  BY <1>1, ErrorKeeps
<1>2. CASE StoreGroups(c, {"seasons"}) /\ SaysSaved(c)
  <2>1. saving[c].at = "seasons" /\ c = "pricing"
    BY CardTyped DEF WriteSeasons, CardInv
  <2>2. row["mode"] = saving[c].sent["mode"] /\ row["rates"] = saving[c].sent["rates"]
    BY <2>1, CardTyped DEF CardInv, StoredSoFar
  <2>3. Fields[c] = {"mode", "rates", "seasons"}
    BY <2>1, FieldsApart
  <2> QED BY <1>2, <2>2, <2>3, SavedKeeps
<1> QED BY <1>1, <1>2 DEF WriteSeasons

LEMMA LoadPageKeeps ==
  ASSUME EditIInv, LoadPage PROVE EditIInv'
<1>1. saving' = [c \in Cards |-> Card("idle", "nothing", Old(Fields[c]))] /\ row' = row
  BY DEF LoadPage, Resting, Card
<1>2. \A c \in Cards : IsCard(Card("idle", "nothing", Old(Fields[c])))
  BY DEF IsCard, Card, Stages
<1>3. SavingShape'
  BY <1>1, <1>2 DEF EditIInv, SavingShape
<1>4. \A c \in Cards : CardInv(c)'
  BY <1>1 DEF CardInv, StoredSoFar, Card
<1> QED BY <1>3, <1>4 DEF EditIInv

LEMMA EditStep ==
  ASSUME EditIInv, [EditNext]_editVars PROVE EditIInv'
<1>1. CASE EditNext
  <2>1. CASE StatusMoves
    BY <2>1 DEF StatusMoves, EditIInv, SavingShape, CardInv
  <2>2. CASE LoadPage
    BY <2>2, LoadPageKeeps
  <2> QED BY <1>1, <2>1, <2>2, SaveKeeps, CheckSchemaKeeps, WriteKeeps, WritePartKeeps, WriteSeasonsKeeps
          DEF EditNext
<1>2. CASE UNCHANGED editVars
  BY <1>2 DEF editVars, EditIInv, SavingShape, CardInv
<1> QED BY <1>1, <1>2

LEMMA EditInitKeeps ==
  ASSUME EditInit PROVE EditIInv
<1>1. saving = [c \in Cards |-> Card("idle", "nothing", Old(Fields[c]))]
  BY DEF EditInit, Resting, Card
<1>2. \A c \in Cards : IsCard(Card("idle", "nothing", Old(Fields[c])))
  BY DEF IsCard, Card, Stages
<1>3. SavingShape
  BY <1>1, <1>2 DEF EditInit, SavingShape, Old
<1>4. \A c \in Cards : CardInv(c)
  BY <1>1 DEF CardInv, StoredSoFar, Card
<1> QED BY <1>3, <1>4 DEF EditIInv

\* A card that says saved has stored all it sent, in however many transactions, whatever
\* other cards write and however often the listing leaves and re-enters editing between
\* them (edit-form.tsx, edit.ts).
THEOREM EditSavesAll == EditSpec => []SavedMeansStored
<1>1. EditIInv => SavedMeansStored
  BY DEF EditIInv, CardInv, StoredSoFar, SavedMeansStored
<1> QED BY <1>1, EditInitKeeps, EditStep, PTL DEF EditSpec

-----------------------------------------------------------------------------
(* Faq                                                                      *)

Question == [text : Texts, listed : BOOLEAN, status : {"OPEN", "CONVERTED", "DISMISSED"}]
Entry == [text : Texts, answered : BOOLEAN, status : {"DRAFT", "PUBLISHED", "GONE"}]

FaqShape ==
  /\ questions \in Seq(Question)
  /\ entries \in Seq(Entry)
  /\ suggesting \in [FaqAdmins -> Nat]
  /\ \A a \in FaqAdmins : suggesting[a] # NoSuggestion => suggesting[a] \in DOMAIN questions

\* What a step may do to the questions and the drafts.
DecisionsStand ==
  \A q \in DOMAIN questions :
    /\ ~Open(q) => questions'[q].status = questions[q].status
    /\ Open(q) /\ questions'[q].status = "CONVERTED" =>
         Len(entries') > Len(entries) /\ entries'[Len(entries')].text = questions[q].text

-----------------------------------------------------------------------------
LEMMA ItemsOf ==
  ASSUME NEW S, NEW s \in Seq(S)
  PROVE  DOMAIN s = 1 .. Len(s) /\ Len(s) \in Nat /\ \A i \in DOMAIN s : s[i] \in S
OBVIOUS

LEMMA MadeOf ==
  ASSUME NEW S, NEW s, NEW n \in Nat, s \in [1 .. n -> S] PROVE s \in Seq(S)
OBVIOUS

LEMMA LogKeeps ==
  ASSUME FaqShape, NEW text \in Texts, NEW listed \in BOOLEAN, LogUnansweredQuestion(text, listed)
  PROVE  FaqShape' /\ DecisionsStand
<1>1. PICK q : q = [text |-> text, listed |-> listed, status |-> "OPEN"]
  OBVIOUS
<1>2. q \in Question
  BY <1>1 DEF Question
<1>3. questions' = Append(questions, q) /\ entries' = entries /\ suggesting' = suggesting
  BY <1>1 DEF LogUnansweredQuestion
<1>4. /\ DOMAIN questions = 1 .. Len(questions) /\ DOMAIN questions' = 1 .. Len(questions) + 1
      /\ Len(questions) \in Nat /\ \A i \in DOMAIN questions : questions'[i] = questions[i]
  BY <1>2, <1>3 DEF FaqShape
<1>5. FaqShape'
  BY <1>2, <1>3, <1>4 DEF FaqShape
<1>6. DecisionsStand
  BY <1>4 DEF DecisionsStand, Open
<1> QED BY <1>5, <1>6

\* A step that leaves the questions alone.
LEMMA QuestionsAlone ==
  ASSUME FaqShape, UNCHANGED questions,
         entries' \in Seq(Entry),
         suggesting' = suggesting \/ \E a \in FaqAdmins, item \in Queue : ReadSuggestion(a, item.id)
  PROVE  FaqShape' /\ DecisionsStand
<1>1. DecisionsStand
  BY DEF DecisionsStand, Open
<1>2. \A item \in Queue : item.id \in DOMAIN questions /\ item.id \in Nat
  <2>1. \A q \in DOMAIN questions : q \in Nat
    BY DEF FaqShape
  <2> QED BY <2>1 DEF Queue
<1>3. FaqShape'
  BY <1>2 DEF FaqShape, ReadSuggestion
<1> QED BY <1>1, <1>3

\* The entry is drafted and the open questions of its text are converted, in one transaction.
LEMMA SuggestKeeps ==
  ASSUME FaqShape, NEW a \in FaqAdmins, Suggest(a) PROVE FaqShape' /\ DecisionsStand
<1>1. PICK q : q = suggesting[a]
  OBVIOUS
<1>2. q \in DOMAIN questions
  BY <1>1 DEF FaqShape, Suggest
<1>3. PICK e : e = [text |-> questions[q].text, answered |-> FALSE, status |-> "DRAFT"]
  OBVIOUS
<1>4. /\ entries' = Append(entries, e)
      /\ questions' = [j \in DOMAIN questions |->
           IF j \in SameRow(q) THEN [questions[j] EXCEPT !.status = "CONVERTED"] ELSE questions[j]]
      /\ suggesting' = [suggesting EXCEPT ![a] = NoSuggestion]
  BY <1>1, <1>3 DEF Suggest, Drafted
<1>5. /\ e \in Entry
      /\ e.text = questions[q].text
  <2>1. questions[q] \in Question
    BY <1>2, ItemsOf DEF FaqShape
  <2> QED BY <1>3, <2>1 DEF Question, Entry
<1>6. /\ entries' \in Seq(Entry)
      /\ Len(entries) \in Nat /\ Len(entries') = Len(entries) + 1 /\ entries'[Len(entries')] = e
  BY <1>4, <1>5 DEF FaqShape
<1>7. \A j \in DOMAIN questions :
        /\ questions'[j] \in Question
        /\ j \notin SameRow(q) => questions'[j] = questions[j]
  <2> SUFFICES ASSUME NEW j \in DOMAIN questions
               PROVE  /\ questions'[j] \in Question
                      /\ j \notin SameRow(q) => questions'[j] = questions[j]
    OBVIOUS
  <2>1. questions[j] \in Question
    BY ItemsOf DEF FaqShape
  <2>2. CASE j \in SameRow(q)
    BY <1>4, <2>1, <2>2 DEF Question
  <2>3. CASE j \notin SameRow(q)
    BY <1>4, <2>1, <2>3
  <2> QED BY <2>2, <2>3
<1>8. DOMAIN questions = 1 .. Len(questions) /\ Len(questions) \in Nat /\ DOMAIN questions' = DOMAIN questions
  BY <1>4 DEF FaqShape
<1>9. questions' \in Seq(Question)
  <2>1. questions' \in [1 .. Len(questions) -> Question]
    BY <1>4, <1>7, <1>8
  <2> QED BY <1>8, <2>1, MadeOf
<1>10. FaqShape'
  BY <1>4, <1>6, <1>8, <1>9 DEF FaqShape, NoSuggestion
<1>11. DecisionsStand
  <2> SUFFICES ASSUME NEW j \in DOMAIN questions
               PROVE  /\ ~Open(j) => questions'[j].status = questions[j].status
                      /\ Open(j) /\ questions'[j].status = "CONVERTED" =>
                           Len(entries') > Len(entries) /\ entries'[Len(entries')].text = questions[j].text
    BY DEF DecisionsStand
  <2>1. CASE j \in SameRow(q)
    <3>1. Open(j) /\ questions[j].text = questions[q].text
      BY <2>1 DEF SameRow
    <3> QED BY <1>5, <1>6, <3>1
  <2>2. CASE j \notin SameRow(q)
    <3>1. questions'[j] = questions[j]
      BY <1>7, <2>2
    <3> QED BY <3>1 DEF Open
  <2> QED BY <2>1, <2>2
<1> QED BY <1>10, <1>11

LEMMA DismissKeeps ==
  ASSUME FaqShape, NEW q \in DOMAIN questions, Dismiss(q) PROVE FaqShape' /\ DecisionsStand
<1>1. questions' = [questions EXCEPT ![q].status = "DISMISSED"] /\ entries' = entries /\ suggesting' = suggesting
      /\ Open(q)
  BY DEF Dismiss
<1>2. PICK r : r = [questions[q] EXCEPT !.status = "DISMISSED"]
  OBVIOUS
<1>3. /\ r \in Question
      /\ r.status = "DISMISSED"
  <2>1. questions[q] \in Question
    BY ItemsOf DEF FaqShape
  <2> QED BY <1>2, <2>1 DEF Question
<1>4. questions' = [questions EXCEPT ![q] = r]
  BY <1>1, <1>2
<1>5. /\ questions' \in Seq(Question)
      /\ DOMAIN questions' = DOMAIN questions
      /\ questions'[q] = r /\ \A j \in DOMAIN questions \ {q} : questions'[j] = questions[j]
  BY <1>3, <1>4 DEF FaqShape
<1>6. FaqShape'
  BY <1>1, <1>5 DEF FaqShape
<1>7. DecisionsStand
  BY <1>1, <1>3, <1>5 DEF DecisionsStand, Open
<1> QED BY <1>6, <1>7

\* What the host does on the page touches entries that are there, or adds one.
LEMMA EntryKeeps ==
  ASSUME FaqShape, NEW e, \/ UpdateFaq(e) \/ ToggleFaqStatus(e) \/ DeleteFaq(e)
                          \/ e \in Texts /\ CreateFaq(e)
  PROVE  entries' \in Seq(Entry)
<1>1. entries \in Seq(Entry)
  BY DEF FaqShape
<1>2. ASSUME NEW i \in DOMAIN entries, NEW r \in Entry, entries' = [entries EXCEPT ![i] = r]
      PROVE  entries' \in Seq(Entry)
  BY <1>1, <1>2
<1>3. CASE UpdateFaq(e)
  <2>1. PICK r : r = [entries[e] EXCEPT !.answered = TRUE]
    OBVIOUS
  <2>2. e \in DOMAIN entries /\ entries' = [entries EXCEPT ![e] = r]
    BY <1>3, <2>1 DEF UpdateFaq, Exists
  <2>3. r \in Entry
    <3>1. entries[e] \in Entry
      BY <1>1, <2>2, ItemsOf
    <3> QED BY <2>1, <3>1 DEF Entry
  <2> QED BY <1>2, <2>2, <2>3
<1>4. CASE ToggleFaqStatus(e)
  <2>1. PICK next : next = IF editor[e].status = "PUBLISHED" THEN "DRAFT" ELSE "PUBLISHED"
    OBVIOUS
  <2>2. PICK r : r = [entries[e] EXCEPT !.status = next]
    OBVIOUS
  <2>3. e \in DOMAIN entries /\ entries' = [entries EXCEPT ![e] = r] /\ next \in {"DRAFT", "PUBLISHED"}
    BY <1>4, <2>1, <2>2 DEF ToggleFaqStatus, Exists
  <2>4. r \in Entry
    <3>1. entries[e] \in Entry
      BY <1>1, <2>3, ItemsOf
    <3> QED BY <2>2, <2>3, <3>1 DEF Entry
  <2> QED BY <1>2, <2>3, <2>4
<1>5. CASE DeleteFaq(e)
  <2>1. PICK r : r = [entries[e] EXCEPT !.status = "GONE"]
    OBVIOUS
  <2>2. e \in DOMAIN entries /\ entries' = [entries EXCEPT ![e] = r]
    BY <1>5, <2>1 DEF DeleteFaq, Exists
  <2>3. r \in Entry
    <3>1. entries[e] \in Entry
      BY <1>1, <2>2, ItemsOf
    <3> QED BY <2>1, <3>1 DEF Entry
  <2> QED BY <1>2, <2>2, <2>3
<1>6. CASE e \in Texts /\ CreateFaq(e)
  <2>1. PICK r : r = [text |-> e, answered |-> TRUE, status |-> "PUBLISHED"]
    OBVIOUS
  <2>2. r \in Entry /\ entries' = Append(entries, r)
    BY <1>6, <2>1 DEF CreateFaq, Entry
  <2> QED BY <1>1, <2>2
<1> QED BY <1>3, <1>4, <1>5, <1>6

LEMMA FaqStep ==
  ASSUME FaqShape, [FaqNext]_faqVars
  PROVE  FaqShape' /\ DecisionsStand
<1>1. ASSUME UNCHANGED questions, UNCHANGED entries,
             suggesting' = suggesting \/ \E a \in FaqAdmins, item \in Queue : ReadSuggestion(a, item.id)
      PROVE  FaqShape' /\ DecisionsStand
  BY <1>1, QuestionsAlone DEF FaqShape
<1>2. ASSUME NEW text \in Texts, NEW listed \in BOOLEAN, LogUnansweredQuestion(text, listed)
      PROVE  FaqShape' /\ DecisionsStand
  BY <1>2, LogKeeps
<1>3. ASSUME NEW a \in FaqAdmins, Suggest(a) \/ \E item \in Queue : ReadSuggestion(a, item.id)
      PROVE  FaqShape' /\ DecisionsStand
  BY <1>1, <1>3, SuggestKeeps DEF ReadSuggestion
<1>4. ASSUME NEW item \in Queue, Dismiss(item.id) PROVE FaqShape' /\ DecisionsStand
  BY <1>4, DismissKeeps DEF Queue
<1>5. CASE LoadEditor
  BY <1>1, <1>5 DEF LoadEditor
<1>6. ASSUME NEW e, TypeAnswer(e) PROVE FaqShape' /\ DecisionsStand
  BY <1>1, <1>6 DEF TypeAnswer
<1>7. ASSUME NEW e, UpdateFaq(e) \/ ToggleFaqStatus(e) \/ DeleteFaq(e) PROVE FaqShape' /\ DecisionsStand
  <2>1. UNCHANGED <<questions, suggesting>>
    BY <1>7 DEF UpdateFaq, ToggleFaqStatus, DeleteFaq
  <2> QED BY <1>7, <2>1, EntryKeeps, QuestionsAlone
<1>8. ASSUME NEW text \in Texts, CreateFaq(text) PROVE FaqShape' /\ DecisionsStand
  <2>1. UNCHANGED <<questions, suggesting>>
    BY <1>8 DEF CreateFaq
  <2> QED BY <1>8, <2>1, EntryKeeps, QuestionsAlone
<1>9. CASE UNCHANGED faqVars
  BY <1>1, <1>9 DEF faqVars
<1> QED BY <1>2, <1>3, <1>4, <1>5, <1>6, <1>7, <1>8, <1>9 DEF FaqNext

\* A question that was converted or dismissed stays so, and none is converted without the
\* draft that the host is to answer, whichever admins work on the queue and whatever they
\* read before (admin/unanswered-questions/actions.ts).
THEOREM DecisionsAreFinal == FaqSpec => DecidedOnce
<1>1. FaqInit => FaqShape
  BY DEF FaqInit, FaqShape, NoSuggestion
<1>2. FaqShape /\ [FaqNext]_faqVars => FaqShape'
  BY FaqStep
<1>3. FaqShape /\ [FaqNext]_faqVars => [DecisionsStand]_faqVars
  BY FaqStep
<1> QED BY <1>1, <1>2, <1>3, PTL DEF FaqSpec, DecidedOnce, DecisionsStand

-----------------------------------------------------------------------------
(* Catalogue                                                                 *)

\* A villa as it is stored, with the seasons of whatever saves came through.
Villas == [mode : Modes, ack : BOOLEAN, rates : {f.rates : f \in Forms}, seasons : SUBSET Season]

\* A save of the pricing form at each of the places it can wait.
SaveCalls ==
  {Nothing, [at |-> "done"]}
    \cup [at : {"mode", "rates", "seasons"}, mode : Modes, acked : BOOLEAN,
          rates : {f.rates : f \in Forms}, list : SUBSET Season]
    \cup [at : {"deleted"}, seen : SUBSET Season, list : SUBSET Season]

Pages ==
  {Nothing}
    \cup [at : {"card"}, stay : Stays, guests : Parties, mode : Modes]
    \cup [at : {"confirm"}, stay : Stays, guests : Parties, mode : Modes, fresh : BOOLEAN, total : Amount]
    \cup [at : {"booked"}, shown : Amount, fresh : BOOLEAN, total : Amount]

\* The price on a confirmation page that no save has outdated is the price of the villa.
PageIsPriced ==
  screen.at = "confirm" /\ screen.fresh => screen.total = Total(villa, screen.stay, screen.guests)

CatalogueIInv ==
  /\ villa \in Villas /\ save \in [Saves -> SaveCalls] /\ screen \in Pages
  /\ Disjoint(villa.seasons) /\ InstantIsAcknowledged
  /\ PageIsPriced /\ BookedAsShown

-----------------------------------------------------------------------------
\* The sums of the nights before each day of a .. b.
Sums(v, a, b, sum) ==
  sum = [d \in a .. b |-> IF d = a THEN 0 ELSE sum[d - 1] + PriceNight(v, d - 1)]

\* Every stay has its sums: those of one night less, and one more.
LEMMA SumsExist ==
  ASSUME NEW v, NEW a \in Nat, NEW b \in Nat, a <= b
  PROVE  \E sum : Sums(v, a, b, sum)
<1> DEFINE T == {d \in Nat : a <= d /\ ~ \E sum : Sums(v, a, d, sum)}
<1>1. SUFFICES ASSUME T # {} PROVE FALSE
  BY <1>1
<1>2. PICK x \in T : \A y \in T : x <= y
  BY <1>1, LeastOf
<1>3. x \in Nat /\ a <= x /\ ~ \E sum : Sums(v, a, x, sum)
  BY <1>2
<1>4. CASE x = a
  <2> DEFINE one == [d \in a .. a |-> 0]
  <2>1. one = [d \in a .. a |-> IF d = a THEN 0 ELSE one[d - 1] + PriceNight(v, d - 1)]
    OBVIOUS
  <2> QED BY <1>3, <1>4, <2>1 DEF Sums
<1>5. CASE a < x
  <2>1. x - 1 \in Nat /\ a <= x - 1 /\ ~ (x - 1 \in T)
    BY <1>2, <1>3, <1>5
  <2>2. PICK less : Sums(v, a, x - 1, less)
    BY <2>1
  <2> DEFINE more == [d \in a .. x |-> IF d = x THEN less[x - 1] + PriceNight(v, x - 1) ELSE less[d]]
  <2>3. \A d \in a .. x - 1 : less[d] = IF d = a THEN 0 ELSE less[d - 1] + PriceNight(v, d - 1)
    BY <2>2 DEF Sums
  <2>4. ASSUME NEW d \in a .. x
        PROVE  more[d] = IF d = a THEN 0 ELSE more[d - 1] + PriceNight(v, d - 1)
    <3>1. d = x => d # a /\ d - 1 \in a .. x /\ d - 1 # x
      BY <1>3, <1>5
    <3>2. d # x /\ d # a => d \in a .. x - 1 /\ d - 1 \in a .. x /\ d - 1 # x
      BY <1>3, <1>5
    <3>3. d # x => d \in a .. x - 1
      BY <1>3, <1>5
    <3> QED BY <2>3, <3>1, <3>2, <3>3
  <2>5. more = [d \in a .. x |-> IF d = a THEN 0 ELSE more[d - 1] + PriceNight(v, d - 1)]
    BY <2>4
  <2> QED BY <1>3, <2>5 DEF Sums
<1> QED BY <1>3, <1>4, <1>5

\* A subtotal is the last of its sums.
LEMMA SubtotalIsSum ==
  ASSUME NEW v, NEW stay \in Stays
  PROVE  \E sum : Sums(v, stay[1], stay[2], sum) /\ Subtotal(v, stay) = sum[stay[2]]
<1>1. stay[1] \in Nat /\ stay[2] \in Nat /\ stay[1] < stay[2]
  BY CatalogueAssumption
<1> DEFINE sum == CHOOSE f : Sums(v, stay[1], stay[2], f)
<1>2. Sums(v, stay[1], stay[2], sum)
  BY <1>1, SumsExist
<1>3. Subtotal(v, stay) = sum[stay[2]]
  BY DEF Subtotal, Sums
<1> HIDE DEF sum
<1> QED BY <1>2, <1>3

-----------------------------------------------------------------------------
LEMMA FormsTyped ==
  /\ {f.rates : f \in Forms} \subseteq Rates
  /\ \A f \in Forms : f.mode \in Modes /\ f.rates \in {g.rates : g \in Forms} /\ f.list \in SUBSET Season
BY CatalogueAssumption

LEMMA PriceIsAmount ==
  ASSUME NEW v \in Villas, NEW night PROVE PriceNight(v, night) \in Amount
<1> DEFINE season == {s \in v.seasons : InSeason(s, night)}
           layer == IF season # {} THEN CHOOSE s \in season : TRUE ELSE v.rates
<1>1. v.rates \in Rates /\ v.seasons \in SUBSET Season
  BY FormsTyped DEF Villas
<1>2. season # {} => (CHOOSE s \in season : TRUE) \in Season
  BY <1>1
<1>3. layer.weekend \in Amount /\ layer.weekday \in Amount
  BY <1>1, <1>2 DEF Rates, Season
<1>4. v.rates.holiday # NoRate => v.rates.holiday \in Amount
  BY <1>1 DEF Rates
<1>5. PriceNight(v, night) =
        IF v.rates.holiday # NoRate /\ (night \in Holidays \/ night + 1 \in Holidays)
        THEN v.rates.holiday
        ELSE IF night \in Weekend THEN layer.weekend ELSE layer.weekday
  BY DEF PriceNight
<1> HIDE DEF layer
<1> QED BY <1>3, <1>4, <1>5

\* A sum of d nights is an amount, of no nights zero.
LEMMA SumsAreAmounts ==
  ASSUME NEW v \in Villas, NEW a \in Nat, NEW b \in Nat, a <= b, NEW sum, Sums(v, a, b, sum)
  PROVE  \A d \in a .. b : (sum[d] = 0 /\ d = a) \/ (sum[d] \in Amount /\ a < d)
<1> DEFINE Good(d) == (sum[d] = 0 /\ d = a) \/ (sum[d] \in Amount /\ a < d)
           T == {d \in Nat : d \in a .. b /\ ~ Good(d)}
<1>1. SUFFICES ASSUME T # {} PROVE FALSE
  BY <1>1
<1>2. PICK x \in T : \A y \in T : x <= y
  BY <1>1, LeastOf
<1>3. x \in Nat /\ x \in a .. b /\ ~ Good(x)
  BY <1>2
<1>4. \A d \in a .. b : sum[d] = IF d = a THEN 0 ELSE sum[d - 1] + PriceNight(v, d - 1)
  BY DEF Sums
<1>5. x # a
  <2>1. a \in a .. b
    OBVIOUS
  <2>2. sum[a] = 0
    BY <1>4, <2>1
  <2> QED BY <1>3, <2>2
<1>6. x - 1 \in Nat /\ x - 1 \in a .. b /\ ~ (x - 1 \in T)
  BY <1>2, <1>3, <1>5
<1>7. sum[x - 1] \in Nat
  BY <1>6 DEF Amount
<1>8. PriceNight(v, x - 1) \in Amount
  BY PriceIsAmount
<1>9. sum[x] = sum[x - 1] + PriceNight(v, x - 1)
  BY <1>3, <1>4, <1>5
<1>10. sum[x] \in Amount /\ a < x
  BY <1>3, <1>5, <1>7, <1>8, <1>9 DEF Amount
<1> QED BY <1>3, <1>10

LEMMA SubtotalIsAmount ==
  ASSUME NEW v \in Villas, NEW stay \in Stays PROVE Subtotal(v, stay) \in Amount
<1>1. stay[1] \in Nat /\ stay[2] \in Nat /\ stay[1] < stay[2] /\ stay[2] \in stay[1] .. stay[2]
  BY CatalogueAssumption
<1>2. PICK sum : Sums(v, stay[1], stay[2], sum) /\ Subtotal(v, stay) = sum[stay[2]]
  BY SubtotalIsSum
<1> QED BY <1>1, <1>2, SumsAreAmounts

\* The sums of a stay that continues another are those of the first, then those
\* of the second on top of it.
LEMMA SumsContinue ==
  ASSUME NEW v \in Villas, NEW a \in Nat, NEW b \in Nat, NEW c \in Nat, a < b, b < c,
         NEW one, Sums(v, a, b, one), NEW two, Sums(v, b, c, two), NEW all, Sums(v, a, c, all)
  PROVE  all[c] = one[b] + two[c]
<1> DEFINE Same(d) == all[d] = IF d <= b THEN one[d] ELSE one[b] + two[d]
           T == {d \in Nat : d \in a .. c /\ ~ Same(d)}
<1>1. /\ \A d \in a .. b : one[d] = IF d = a THEN 0 ELSE one[d - 1] + PriceNight(v, d - 1)
      /\ \A d \in b .. c : two[d] = IF d = b THEN 0 ELSE two[d - 1] + PriceNight(v, d - 1)
      /\ \A d \in a .. c : all[d] = IF d = a THEN 0 ELSE all[d - 1] + PriceNight(v, d - 1)
  BY DEF Sums
<1>2. ASSUME T # {} PROVE FALSE
  <2>1. PICK x \in T : \A y \in T : x <= y
    BY <1>2, LeastOf
  <2>2. x \in Nat /\ x \in a .. c /\ ~ Same(x)
    BY <2>1
  <2>3. x # a
    BY <2>2, <1>1
  <2>4. x - 1 \in Nat /\ x - 1 \in a .. c /\ Same(x - 1)
    BY <2>1, <2>2, <2>3
  <2>5. all[x] = all[x - 1] + PriceNight(v, x - 1)
    BY <1>1, <2>2, <2>3
  <2>6. CASE x <= b
    <3>1. x \in a .. b /\ x - 1 <= b
      BY <2>2, <2>6
    <3>2. one[x] = one[x - 1] + PriceNight(v, x - 1)
      BY <1>1, <2>3, <3>1
    <3> QED BY <2>2, <2>4, <2>5, <2>6, <3>1, <3>2
  <2>7. CASE b < x
    <3>1. x \in b .. c /\ x # b /\ b \in b .. c /\ x - 1 \in b .. c
      BY <2>2, <2>7
    <3>2. two[x] = two[x - 1] + PriceNight(v, x - 1) /\ two[b] = 0
      BY <1>1, <3>1
    <3>3. one[b] \in Int /\ two[x - 1] \in Int /\ PriceNight(v, x - 1) \in Int
      BY <3>1, SumsAreAmounts, PriceIsAmount DEF Amount
    <3>4. all[x - 1] = one[b] + two[x - 1]
      <4>1. CASE x - 1 <= b
        <5>1. x - 1 = b
          BY <2>2, <2>7, <4>1
        <5>2. all[b] = one[b] /\ two[b] = 0
          BY <2>4, <3>2, <5>1
        <5> HIDE <2>4
        <5> QED BY <3>3, <5>1, <5>2
      <4>2. CASE ~ (x - 1 <= b)
        BY <2>4, <4>2
      <4> QED BY <4>1, <4>2
    <3> QED BY <2>2, <2>5, <2>7, <3>2, <3>3, <3>4
  <2> QED BY <2>2, <2>6, <2>7
<1>3. Same(c)
  BY <1>2
<1>4. ~ (c <= b)
  OBVIOUS
<1> QED BY <1>3, <1>4

LEMMA TotalIsAmount ==
  ASSUME NEW v \in Villas, NEW stay \in Stays, NEW guests \in Parties
  PROVE  /\ Cardinality(Nights(stay)) = stay[2] - stay[1]
         /\ ExtraGuests(v, guests) \in Nat /\ v.rates.fee \in Nat
         /\ Total(v, stay, guests) \in Amount
<1>1. stay[1] \in Nat /\ stay[2] \in Nat /\ stay[1] < stay[2] /\ guests \in Nat
  BY CatalogueAssumption
<1>2. Cardinality(Nights(stay)) = stay[2] - stay[1]
  <2>1. stay[1] \in Int /\ stay[2] - 1 \in Int /\ ~ (stay[1] > stay[2] - 1)
    BY <1>1
  <2>2. Cardinality(stay[1] .. stay[2] - 1) = stay[2] - 1 - stay[1] + 1
    BY <2>1, FS_Interval
  <2> QED BY <1>1, <2>2 DEF Nights
<1>3. v.rates \in Rates
  BY FormsTyped DEF Villas
<1>4. v.rates.fee \in Nat /\ v.rates.included \in Nat
  BY <1>3 DEF Rates
<1>5. ExtraGuests(v, guests) \in Nat
  BY <1>1, <1>4 DEF ExtraGuests
<1>6. ExtraGuests(v, guests) * v.rates.fee * Cardinality(Nights(stay)) \in Nat
  <2>1. \A x, y, z \in Nat : x * y * z \in Nat
    <3>1. \A x, y \in Nat : x * y \in Nat
      OBVIOUS
    <3> QED BY <3>1
  <2>2. stay[2] - stay[1] \in Nat
    BY <1>1
  <2> QED BY <1>2, <1>4, <1>5, <2>1, <2>2
<1>7. Total(v, stay, guests) \in Amount
  BY <1>6, SubtotalIsAmount DEF Total, Amount
<1> QED BY <1>2, <1>4, <1>5, <1>7

-----------------------------------------------------------------------------
\* A price is read off the rates and the seasons alone.
LEMMA TotalOfRatesAndSeasons ==
  ASSUME NEW v, NEW w, v.rates = w.rates, v.seasons = w.seasons, NEW stay \in Stays, NEW guests
  PROVE  Total(v, stay, guests) = Total(w, stay, guests)
<1>1. ASSUME NEW n PROVE PriceNight(v, n) = PriceNight(w, n)
  BY DEF PriceNight
<1>2. \A f : Sums(v, stay[1], stay[2], f) <=> Sums(w, stay[1], stay[2], f)
  BY <1>1 DEF Sums
<1>3. (CHOOSE f : Sums(v, stay[1], stay[2], f)) = CHOOSE f : Sums(w, stay[1], stay[2], f)
  BY <1>2
<1>4. ASSUME NEW u PROVE Subtotal(u, stay) = (CHOOSE f : Sums(u, stay[1], stay[2], f))[stay[2]]
  BY DEF Subtotal, Sums
<1>5. Subtotal(v, stay) = Subtotal(w, stay)
  BY <1>3, <1>4
<1> QED BY <1>5 DEF Total, ExtraGuests

LEMMA SeasonsApart ==
  ASSUME villa \in Villas, Disjoint(villa.seasons) PROVE OneSeasonPerNight
<1> SUFFICES ASSUME NEW night \in Days PROVE Cardinality({s \in villa.seasons : InSeason(s, night)}) <= 1
  BY DEF OneSeasonPerNight
<1> DEFINE season == {s \in villa.seasons : InSeason(s, night)}
<1>1. villa.seasons \in SUBSET Season /\ night \in Nat
  BY CatalogueAssumption DEF Villas, Days
<1>2. \A s, t \in season : s = t
  BY <1>1 DEF Disjoint, InSeason, Season
<1> SUFFICES Cardinality(season) <= 1
  OBVIOUS
<1> HIDE DEF season
<1>3. CASE season = {}
  <2>1. Cardinality(season) = 0
    BY <1>3, FS_EmptySet
  <2> QED BY <2>1
<1>4. CASE season # {}
  <2>1. PICK s : season = {s}
    BY <1>2, <1>4
  <2>2. Cardinality(season) = 1
    BY <2>1, FS_Singleton
  <2> QED BY <2>2
<1> QED BY <1>3, <1>4

LEMMA TotalsAdd ==
  ASSUME villa \in Villas PROVE PricesAdd
<1> SUFFICES ASSUME NEW s \in Stays, NEW t \in Stays, NEW guests \in Parties, s[2] = t[1]
             PROVE  Total(villa, <<s[1], t[2]>>, guests) = Total(villa, s, guests) + Total(villa, t, guests)
  BY DEF PricesAdd
<1> DEFINE both == <<s[1], t[2]>>
           fee(stay) == ExtraGuests(villa, guests) * villa.rates.fee * Cardinality(Nights(stay))
<1>1. /\ s[1] \in Nat /\ s[2] \in Nat /\ t[1] \in Nat /\ t[2] \in Nat
      /\ s[1] < s[2] /\ s[2] < t[2] /\ both[1] = s[1] /\ both[2] = t[2]
  BY CatalogueAssumption
<1>2. Cardinality(Nights(both)) = t[2] - s[1]
  <2>1. s[1] \in Int /\ t[2] - 1 \in Int /\ ~ (s[1] > t[2] - 1)
    BY <1>1
  <2>2. Cardinality(s[1] .. t[2] - 1) = t[2] - 1 - s[1] + 1
    BY <2>1, FS_Interval
  <2> QED BY <1>1, <2>2 DEF Nights
<1>3. fee(both) = fee(s) + fee(t)
  <2>1. PICK x \in Nat : x = ExtraGuests(villa, guests) * villa.rates.fee
    <3>1. \A i, j \in Nat : i * j \in Nat
      OBVIOUS
    <3> QED BY <3>1, TotalIsAmount
  <2>2. fee(s) = x * (s[2] - s[1]) /\ fee(t) = x * (t[2] - t[1]) /\ fee(both) = x * (t[2] - s[1])
    BY <1>2, <2>1, TotalIsAmount
  <2>3. \A i, j, k, l \in Nat : l * (k - i) = l * (j - i) + l * (k - j)
    OBVIOUS
  <2> QED BY <1>1, <2>2, <2>3
<1>4. Subtotal(villa, both) = Subtotal(villa, s) + Subtotal(villa, t)
  <2>1. PICK one : Sums(villa, s[1], s[2], one) /\ Subtotal(villa, s) = one[s[2]]
    BY SubtotalIsSum
  <2>2. PICK two : Sums(villa, t[1], t[2], two) /\ Subtotal(villa, t) = two[t[2]]
    BY SubtotalIsSum
  <2> DEFINE sum == CHOOSE f : Sums(villa, s[1], t[2], f)
  <2>3. Sums(villa, s[1], t[2], sum)
    <3>1. s[1] <= t[2]
      BY <1>1
    <3>2. \E f : Sums(villa, s[1], t[2], f)
      BY <1>1, <3>1, SumsExist
    <3> QED BY <3>2
  <2>4. Subtotal(villa, both) = sum[t[2]]
    BY DEF Subtotal, Sums
  <2> HIDE DEF sum
  <2>5. sum[t[2]] = one[s[2]] + two[t[2]]
    BY <1>1, <2>1, <2>2, <2>3, SumsContinue
  <2> QED BY <2>1, <2>2, <2>4, <2>5
<1>5. \A stay : Total(villa, stay, guests) = Subtotal(villa, stay) + fee(stay)
  BY DEF Total
<1>6. /\ Subtotal(villa, s) \in Int /\ Subtotal(villa, t) \in Int
      /\ fee(s) \in Int /\ fee(t) \in Int
  <2>1. \A i, j, k \in Nat : i * j * k \in Nat
    <3>1. \A i, j \in Nat : i * j \in Nat
      OBVIOUS
    <3> QED BY <3>1
  <2>2. s[2] - s[1] \in Nat /\ t[2] - t[1] \in Nat
    BY <1>1
  <2>3. fee(s) \in Nat /\ fee(t) \in Nat
    BY <2>1, <2>2, TotalIsAmount
  <2> QED BY <2>3, SubtotalIsAmount DEF Amount
<1> HIDE DEF fee
<1> QED BY <1>3, <1>4, <1>5, <1>6

LEMMA EvesCostAsHolidays == EveCostsAsHoliday
<1> SUFFICES ASSUME NEW night \in Holidays, night > 0, villa.rates.holiday # NoRate
             PROVE  PriceNight(villa, night - 1) = PriceNight(villa, night)
  BY DEF EveCostsAsHoliday
<1>1. night - 1 + 1 = night
  BY CatalogueAssumption
<1> QED BY <1>1 DEF PriceNight

LEMMA TenthIsTaken ==
  ASSUME villa \in Villas PROVE CommissionIsATenth
<1>1. ASSUME NEW total \in Nat
      PROVE  10 * Commission(total) - total \in -4 .. 5 /\ HostEarnings(total) >= 0
  BY DEF Commission, HostEarnings
<1> QED BY <1>1, TotalIsAmount DEF CommissionIsATenth, Amount

LEMMA CatalogueFollows == CatalogueIInv => CatalogueInv
<1> SUFFICES ASSUME CatalogueIInv PROVE CatalogueInv
  OBVIOUS
<1>1. CatalogueTypeOK
  <2>1. villa \in Villas /\ screen \in Pages
    BY DEF CatalogueIInv
  <2>2. villa.mode \in Modes /\ villa.ack \in BOOLEAN /\ villa.rates \in {f.rates : f \in Forms}
    BY <2>1 DEF Villas
  <2>3. screen.at \in {"none", "card", "confirm", "booked"}
    BY <2>1 DEF Pages, Nothing
  <2>4. screen.at = "confirm" => screen.total \in Amount
    BY <2>1 DEF Pages, Nothing
  <2> QED BY <2>2, <2>3, <2>4 DEF CatalogueTypeOK, Amount
<1>2. OneSeasonPerNight /\ PricesAdd /\ EveCostsAsHoliday /\ CommissionIsATenth
  BY SeasonsApart, TotalsAdd, EvesCostAsHolidays, TenthIsTaken DEF CatalogueIInv
<1> QED BY <1>1, <1>2 DEF CatalogueIInv, CatalogueInv

-----------------------------------------------------------------------------
LEMMA PageHolds ==
  ASSUME screen \in Pages
  PROVE  /\ screen.at = "card" =>
              screen.stay \in Stays /\ screen.guests \in Parties /\ screen.mode \in Modes
         /\ screen.at = "confirm" =>
              /\ screen.stay \in Stays /\ screen.guests \in Parties /\ screen.mode \in Modes
              /\ screen.fresh \in BOOLEAN /\ screen.total \in Amount
              /\ [screen EXCEPT !.fresh = FALSE] \in Pages
<1> DEFINE Confirms == [at : {"confirm"}, stay : Stays, guests : Parties, mode : Modes,
                        fresh : BOOLEAN, total : Amount]
<1>1. /\ screen.at = "card" =>
           screen.stay \in Stays /\ screen.guests \in Parties /\ screen.mode \in Modes
      /\ screen.at = "confirm" => screen \in Confirms
  BY DEF Pages, Nothing
<1>2. ASSUME screen \in Confirms PROVE [screen EXCEPT !.fresh = FALSE] \in Confirms
  BY <1>2
<1>3. Confirms \subseteq Pages
  BY DEF Pages
<1>4. screen \in Confirms =>
        /\ screen.stay \in Stays /\ screen.guests \in Parties /\ screen.mode \in Modes
        /\ screen.fresh \in BOOLEAN /\ screen.total \in Amount
  OBVIOUS
<1> HIDE DEF Confirms
<1> QED BY <1>1, <1>2, <1>3, <1>4

\* What a save that waits at a place carries.
LEMMA SaveHolds ==
  ASSUME NEW c \in SaveCalls
  PROVE  /\ c.at \in {"mode", "rates", "seasons"} =>
              /\ c.mode \in Modes /\ c.acked \in BOOLEAN /\ c.rates \in {f.rates : f \in Forms}
              /\ c.list \in SUBSET Season
              /\ \A at \in {"mode", "rates", "seasons"} : [c EXCEPT !.at = at] \in SaveCalls
         /\ c.at = "deleted" => c.seen \in SUBSET Season /\ c.list \in SUBSET Season
BY DEF SaveCalls, Nothing

LEMMA CatalogueStarts == CatalogueInit => CatalogueIInv
<1> SUFFICES ASSUME CatalogueInit PROVE CatalogueIInv
  OBVIOUS
<1>1. PICK f \in Forms : /\ Disjoint(f.list)
                         /\ villa = [mode |-> f.mode, ack |-> f.mode = "INSTANT",
                                     rates |-> f.rates, seasons |-> f.list]
  BY DEF CatalogueInit
<1>2. villa \in Villas
  BY <1>1, FormsTyped DEF Villas
<1>3. save \in [Saves -> SaveCalls] /\ screen \in Pages /\ screen.at = "none"
  BY DEF CatalogueInit, SaveCalls, Pages, Nothing
<1>4. PageIsPriced /\ BookedAsShown
  BY <1>3 DEF PageIsPriced, BookedAsShown
<1>5. Disjoint(villa.seasons) /\ InstantIsAcknowledged
  BY <1>1 DEF InstantIsAcknowledged
<1> QED BY <1>2, <1>3, <1>4, <1>5 DEF CatalogueIInv

\* The villa stays: what is on the screen stays priced.
LEMMA SaveMoves ==
  ASSUME CatalogueIInv, NEW h \in Saves, NEW c \in SaveCalls,
         save' = [save EXCEPT ![h] = c], UNCHANGED <<villa, screen>>
  PROVE  CatalogueIInv'
<1>1. save' \in [Saves -> SaveCalls]
  BY DEF CatalogueIInv
<1>2. PageIsPriced' /\ BookedAsShown' /\ InstantIsAcknowledged' /\ Disjoint(villa.seasons)'
  BY DEF CatalogueIInv, PageIsPriced, BookedAsShown, InstantIsAcknowledged
<1> QED BY <1>1, <1>2 DEF CatalogueIInv

\* A save changes rates or seasons: the price on the screen is of before.
LEMMA VillaMoves ==
  ASSUME CatalogueIInv, NEW h \in Saves, NEW c \in SaveCalls, save' = [save EXCEPT ![h] = c],
         NEW w \in Villas, villa' = w, w.mode = villa.mode, w.ack = villa.ack,
         Disjoint(w.seasons), screen' = Outdated
  PROVE  CatalogueIInv'
<1>1. save' \in [Saves -> SaveCalls] /\ screen \in Pages
  BY DEF CatalogueIInv
<1>2. screen' \in Pages
  BY <1>1, PageHolds DEF Outdated
<1>3. screen'.at = screen.at
  BY <1>1, PageHolds DEF Outdated, Pages, Nothing
<1>4. screen.at = "confirm" => screen'.fresh = FALSE
  BY <1>1 DEF Outdated, Pages, Nothing
<1>5. screen.at # "confirm" => screen' = screen
  BY DEF Outdated
<1>6. PageIsPriced' /\ BookedAsShown'
  BY <1>3, <1>4, <1>5 DEF CatalogueIInv, PageIsPriced, BookedAsShown
<1>7. InstantIsAcknowledged'
  BY DEF CatalogueIInv, InstantIsAcknowledged
<1> QED BY <1>1, <1>2, <1>6, <1>7 DEF CatalogueIInv

\* The guest moves on.
LEMMA PageMoves ==
  ASSUME CatalogueIInv, UNCHANGED <<villa, save>>, screen' \in Pages, PageIsPriced', BookedAsShown'
  PROVE  CatalogueIInv'
BY DEF CatalogueIInv, InstantIsAcknowledged

LEMMA CatalogueStep == CatalogueIInv /\ [CatalogueNext]_catVars => CatalogueIInv'
<1> SUFFICES ASSUME CatalogueIInv, [CatalogueNext]_catVars PROVE CatalogueIInv'
  OBVIOUS
<1>0. villa \in Villas /\ save \in [Saves -> SaveCalls] /\ screen \in Pages
  BY DEF CatalogueIInv
<1>1. ASSUME NEW h \in Saves, NEW form \in Forms, NEW ack \in BOOLEAN, SaveStarts(h, form, ack)
      PROVE  CatalogueIInv'
  <2>1. [at |-> "mode", mode |-> form.mode, acked |-> villa.ack,
         rates |-> form.rates, list |-> form.list] \in SaveCalls
    BY <1>0, FormsTyped DEF SaveCalls, Villas
  <2> QED BY <1>1, <2>1, SaveMoves DEF SaveStarts
<1>2. ASSUME NEW h \in Saves, SaveMode(h) PROVE CatalogueIInv'
  <2>1. save[h].at = "mode" /\ save[h] \in SaveCalls
    BY <1>0, <1>2 DEF SaveMode
  <2>2. save' = [save EXCEPT ![h] = [save[h] EXCEPT !.at = "rates"]]
    BY <1>0, <1>2 DEF SaveMode
  <2>3. save' \in [Saves -> SaveCalls]
    BY <1>0, <2>1, <2>2, SaveHolds
  <2>4. villa' \in Villas
    BY <1>0, <1>2, <2>1, SaveHolds DEF SaveMode, Villas
  <2>5. /\ villa'.rates = villa.rates /\ villa'.seasons = villa.seasons
        /\ villa'.mode = "INSTANT" => villa'.ack
    BY <1>0, <1>2 DEF SaveMode, Villas
  <2>6. screen' = screen
    BY <1>2 DEF SaveMode
  <2>7. PageIsPriced'
    <3> SUFFICES ASSUME screen.at = "confirm", screen.fresh
                 PROVE  screen.total = Total(villa', screen.stay, screen.guests)
      BY <2>6 DEF PageIsPriced
    <3>1. screen.stay \in Stays /\ screen.total = Total(villa, screen.stay, screen.guests)
      BY <1>0, PageHolds DEF CatalogueIInv, PageIsPriced
    <3>2. Total(villa', screen.stay, screen.guests) = Total(villa, screen.stay, screen.guests)
      BY <2>5, <3>1, TotalOfRatesAndSeasons
    <3> QED BY <3>1, <3>2
  <2>8. BookedAsShown' /\ InstantIsAcknowledged' /\ Disjoint(villa.seasons)'
    BY <2>5, <2>6 DEF CatalogueIInv, BookedAsShown, InstantIsAcknowledged
  <2> QED BY <1>0, <2>3, <2>4, <2>6, <2>7, <2>8 DEF CatalogueIInv
<1>3. ASSUME NEW h \in Saves, SaveRates(h) PROVE CatalogueIInv'
  <2>1. save[h].at = "rates" /\ save[h] \in SaveCalls
    BY <1>0, <1>3 DEF SaveRates
  <2>2. save' = [save EXCEPT ![h] = [save[h] EXCEPT !.at = "seasons"]]
    BY <1>0, <1>3 DEF SaveRates
  <2>3. [save[h] EXCEPT !.at = "seasons"] \in SaveCalls /\ save[h].rates \in {f.rates : f \in Forms}
    BY <2>1, SaveHolds
  <2> DEFINE w == [villa EXCEPT !.rates = save[h].rates]
  <2>4. w \in Villas /\ w.mode = villa.mode /\ w.ack = villa.ack /\ w.seasons = villa.seasons
    BY <1>0, <2>3 DEF Villas
  <2>5. villa' = w /\ screen' = Outdated
    BY <1>3 DEF SaveRates
  <2>6. Disjoint(w.seasons)
    BY <2>4 DEF CatalogueIInv
  <2> HIDE DEF w
  <2> QED BY <2>2, <2>3, <2>4, <2>5, <2>6, VillaMoves
<1>4. ASSUME NEW h \in Saves, SeasonsDeleted(h) PROVE CatalogueIInv'
  <2>1. save[h].at = "seasons" /\ save[h] \in SaveCalls
    BY <1>0, <1>4 DEF SeasonsDeleted
  <2>2. [at |-> "deleted", seen |-> villa.seasons, list |-> save[h].list] \in SaveCalls
    <3>1. save[h].list \in SUBSET Season /\ villa.seasons \in SUBSET Season
      BY <1>0, <2>1, SaveHolds DEF Villas
    <3> QED BY <3>1 DEF SaveCalls
  <2> QED BY <1>4, <2>2, SaveMoves DEF SeasonsDeleted
<1>5. ASSUME NEW h \in Saves, SeasonsWritten(h) PROVE CatalogueIInv'
  <2> DEFINE rows == (villa.seasons \ save[h].seen) \cup Rows(h, save[h].list)
             w == [villa EXCEPT !.seasons = rows]
  <2>1. save[h].at = "deleted" /\ save[h] \in SaveCalls
    BY <1>0, <1>5 DEF SeasonsWritten
  <2>2. save[h].list \in SUBSET Season /\ h \in Nat
    BY <2>1, SaveHolds, CatalogueAssumption
  <2>3. Rows(h, save[h].list) \in SUBSET Season
    BY <2>2 DEF Rows, Season
  <2>4. rows \in SUBSET Season
    BY <1>0, <2>3 DEF Villas
  <2>5. Disjoint(rows) /\ villa' = w /\ screen' = Outdated /\ save' = [save EXCEPT ![h] = [at |-> "done"]]
    BY <1>5 DEF SeasonsWritten
  <2> HIDE DEF rows
  <2>6. w \in Villas /\ w.mode = villa.mode /\ w.ack = villa.ack /\ w.seasons = rows
    BY <1>0, <2>4 DEF Villas
  <2>7. [at |-> "done"] \in SaveCalls
    BY DEF SaveCalls
  <2> HIDE DEF w
  <2> QED BY <2>5, <2>6, <2>7, VillaMoves
<1>6. ASSUME NEW h \in Saves, SaveStops(h) PROVE CatalogueIInv'
  <2>1. [at |-> "done"] \in SaveCalls
    BY DEF SaveCalls
  <2> QED BY <1>6, <2>1, SaveMoves DEF SaveStops
<1>7. ASSUME NEW stay \in Stays, NEW guests \in Parties, OpenListing(stay, guests)
      PROVE  CatalogueIInv'
  <2>1. screen' = [at |-> "card", stay |-> stay, guests |-> guests, mode |-> villa.mode]
    BY <1>7 DEF OpenListing
  <2>2. screen' \in Pages
    BY <1>0, <2>1 DEF Pages, Villas
  <2>3. PageIsPriced' /\ BookedAsShown'
    BY <2>1 DEF PageIsPriced, BookedAsShown
  <2> QED BY <1>7, <2>2, <2>3, PageMoves DEF OpenListing
<1>8. ASSUME OpenConfirm PROVE CatalogueIInv'
  <2>1. CASE screen.mode # villa.mode
    <3>1. screen' = Nothing
      BY <1>8, <2>1 DEF OpenConfirm
    <3>2. screen' \in Pages /\ PageIsPriced' /\ BookedAsShown'
      BY <3>1 DEF Pages, PageIsPriced, BookedAsShown, Nothing
    <3> QED BY <1>8, <3>2, PageMoves DEF OpenConfirm
  <2>2. CASE screen.mode = villa.mode
    <3> DEFINE total == Total(villa, screen.stay, screen.guests)
    <3>1. screen.stay \in Stays /\ screen.guests \in Parties /\ screen.mode \in Modes
      BY <1>0, <1>8, PageHolds DEF OpenConfirm
    <3>2. total \in Amount
      BY <1>0, <3>1, TotalIsAmount
    <3>3. screen' = [at |-> "confirm", stay |-> screen.stay, guests |-> screen.guests,
                     mode |-> screen.mode, fresh |-> TRUE, total |-> total]
      BY <1>8, <2>2 DEF OpenConfirm
    <3>4. villa' = villa /\ save' = save
      BY <1>8 DEF OpenConfirm
    <3>5. PageIsPriced'
      BY <3>3, <3>4 DEF PageIsPriced
    <3> HIDE DEF total
    <3>6. screen' \in Pages
      BY <3>1, <3>2, <3>3 DEF Pages
    <3>7. BookedAsShown'
      BY <3>3 DEF BookedAsShown
    <3> QED BY <3>4, <3>5, <3>6, <3>7, PageMoves
  <2> QED BY <2>1, <2>2
<1>9. ASSUME Submit PROVE CatalogueIInv'
  <2> DEFINE total == Total(villa, screen.stay, screen.guests)
  <2>1. screen.at = "confirm" /\ screen.fresh \in BOOLEAN /\ screen.total \in Amount
    BY <1>0, <1>9, PageHolds DEF Submit
  <2>2. total \in Amount
    BY <1>0, <2>1, PageHolds, TotalIsAmount
  <2>3. screen.fresh => screen.total = total
    BY <2>1 DEF CatalogueIInv, PageIsPriced
  <2>4. screen' = [at |-> "booked", shown |-> screen.total, fresh |-> screen.fresh, total |-> total]
    BY <1>9 DEF Submit
  <2> HIDE DEF total
  <2>5. screen' \in Pages
    BY <2>1, <2>2, <2>4 DEF Pages
  <2>6. PageIsPriced' /\ BookedAsShown'
    BY <2>3, <2>4 DEF PageIsPriced, BookedAsShown
  <2> QED BY <1>9, <2>5, <2>6, PageMoves DEF Submit
<1>10. ASSUME UNCHANGED catVars PROVE CatalogueIInv'
  <2>1. villa' = villa /\ save' = save /\ screen' = screen
    BY <1>10 DEF catVars
  <2>2. PageIsPriced' /\ BookedAsShown'
    BY <2>1 DEF CatalogueIInv, PageIsPriced, BookedAsShown
  <2> QED BY <1>0, <2>1, <2>2, PageMoves
<1> QED BY <1>1, <1>2, <1>3, <1>4, <1>5, <1>6, <1>7, <1>8, <1>9, <1>10 DEF CatalogueNext

\* The villa a guest sees and books: no night has two seasons whichever saves of the
\* pricing form overlapped or failed half way, an instant booking is acknowledged, the
\* price shown is the price charged unless a save came between, and prices of nights
\* add up and are shared to the satang.
THEOREM VillaIsPricedOnce == CatalogueSpec => []CatalogueInv
<1>1. CatalogueInit => CatalogueIInv
  BY CatalogueStarts
<1>2. CatalogueIInv /\ [CatalogueNext]_catVars => CatalogueIInv'
  BY CatalogueStep
<1>3. CatalogueIInv => CatalogueInv
  BY CatalogueFollows
<1> QED BY <1>1, <1>2, <1>3, PTL DEF CatalogueSpec
=============================================================================
