------------------------------- MODULE Wizard -------------------------------
(***************************************************************************)
(* The listing wizard in one browser tab, against the draft on the server: *)
(* steps that are saved on Next, photos and KYC documents that are saved   *)
(* as they are uploaded (listings/new: wizard, steps, actions, page).      *)
(*                                                                         *)
(* What the host typed is reduced to whether a step's form differs from    *)
(* the draft.  Next, Back and Submit wait for each other, and so do the    *)
(* buttons inside one step; but a step that was left and opened again      *)
(* knows nothing of an upload of its former self, and a page that is       *)
(* opened again nothing of the calls of its former self, which go on.      *)
(***************************************************************************)
EXTENDS Naturals, FiniteSets, Sequences

CONSTANTS
  FormSteps,  \* the steps with a form (1, 3, 4, 5 in the code)
  PhotoStep,  \* the step with the photos (2)
  LastStep,   \* the step with the KYC documents (6)
  Photos,     \* bound: photos ever uploaded, numbered
  Papers,     \* bound: documents at a time, numbered
  MinPhotos,  \* MIN_PHOTOS
  Ops         \* bound: uploads and removals under way at once

ASSUME WizardAssumption ==
  /\ LastStep \in Nat \ {0} /\ FormSteps \cup {PhotoStep} = 1 .. (LastStep - 1)
  /\ 1 \in FormSteps /\ PhotoStep \notin FormSteps
  /\ Papers \subseteq Nat \ {0}
  /\ Photos \subseteq Nat \ {0} /\ IsFiniteSet(Photos) /\ MinPhotos \in Nat /\ Ops \subseteq Nat

VARIABLES
  tab,      \* step, whether the draft's id is known, photos and documents as shown
  store,    \* the listing on the server: is it there, or sent for review; its photos, its documents
  dirty,    \* steps whose form may differ from the draft
  lost,     \* history: steps typed in while a save or a submit was under way, or
            \* overwritten by a late one
  flight,   \* the save or submit under way
  late,     \* steps whose save was called by a page that is gone (LastStep: the submit)
  op,       \* uploads and removals under way, with the list shown when they began
  crossed,  \* history: one of them began while another was under way
  behind    \* history: the page was read while a removal was still to land

wizardVars == <<tab, store, dirty, lost, flight, late, op, crossed, behind>>

NoFlight == [kind |-> "none"]
Idle == [kind |-> "idle", at |-> "none", item |-> 0]
Absent == [order |-> 0, cover |-> FALSE, there |-> FALSE]

Stored == {x \in Photos : store.photos[x].there}
ShownIds(shown) == {shown[i].id : i \in DOMAIN shown}

WizardInit ==
  /\ tab = [step |-> 1, id |-> FALSE, shown |-> <<>>, docs |-> {}, submitted |-> FALSE]
  /\ store = [draft |-> FALSE, sent |-> FALSE, photos |-> [x \in Photos |-> Absent], docs |-> {}]
  /\ dirty = FormSteps /\ lost = {} /\ crossed = FALSE /\ behind = FALSE
  /\ flight = NoFlight /\ late = {}
  /\ op = [i \in Ops |-> Idle]

-----------------------------------------------------------------------------
(* Steps                                                                     *)

\* The host types in the form before them; nothing is disabled while saving.
Type ==
  /\ ~tab.submitted /\ tab.step \in FormSteps
  /\ dirty' = dirty \cup {tab.step}
  /\ lost' = IF flight = NoFlight THEN lost ELSE lost \cup {tab.step}
  /\ UNCHANGED <<tab, store, flight, late, op, crossed, behind>>

\* A step that is left forgets the uploads it has under way.
Leaves(next) ==
  /\ tab' = [tab EXCEPT !.step = next]
  /\ op' = [i \in Ops |-> IF op[i] = Idle \/ next = tab.step THEN op[i]
                          ELSE [op[i] EXCEPT !.mine = FALSE]]

\* Mutant: a step that was saved once is not saved again.
GoNextUnsaved ==
  /\ ~tab.submitted /\ flight = NoFlight /\ tab.step < LastStep
  /\ IF tab.step = PhotoStep \/ (tab.step = 1 /\ tab.id)
     THEN Leaves(tab.step + 1) /\ UNCHANGED <<flight, lost>>
     ELSE /\ flight' = [kind |-> "save", step |-> tab.step]
          /\ lost' = lost \ {tab.step} /\ UNCHANGED <<tab, op>>
  /\ UNCHANGED <<store, dirty, late, crossed, behind>>

\* goNext: photos are there already; a form is saved first.
GoNext ==
  /\ ~tab.submitted /\ flight = NoFlight /\ tab.step < LastStep
  /\ IF tab.step = PhotoStep
     THEN Leaves(tab.step + 1) /\ UNCHANGED <<flight, lost>>
     ELSE /\ flight' = [kind |-> "save", step |-> tab.step]
          /\ lost' = lost \ {tab.step} /\ UNCHANGED <<tab, op>>
  /\ UNCHANGED <<store, dirty, late, crossed, behind>>

\* goBack
GoBack ==
  /\ ~tab.submitted /\ flight = NoFlight /\ tab.step > 1
  /\ Leaves(tab.step - 1)
  /\ UNCHANGED <<store, dirty, lost, flight, late, crossed, behind>>

\* The stepper lets the host tap an earlier step, even while a save is under way.
StepSelect(n) ==
  /\ ~tab.submitted /\ n < tab.step
  /\ Leaves(n)
  /\ UNCHANGED <<store, dirty, lost, flight, late, crossed, behind>>

\* persistStep: createDraftAction for the first step of a new listing, else
\* saveStepAction; then one step on from wherever the host is by now.
PersistStep ==
  LET k == flight.step IN
  /\ flight.kind = "save" /\ ~store.sent
  /\ store' = [store EXCEPT !.draft = TRUE]
  /\ tab' = [tab EXCEPT !.id = TRUE, !.step = IF @ < LastStep THEN @ + 1 ELSE @]
  /\ op' = [i \in Ops |-> IF op[i] = Idle THEN Idle ELSE [op[i] EXCEPT !.mine = FALSE]]
  /\ dirty' = IF k \in lost THEN dirty ELSE dirty \ {k}
  /\ flight' = NoFlight
  /\ UNCHANGED <<lost, late, crossed, behind>>

\* The server refuses the step (a season overlaps, the session or the draft is gone).
PersistFails ==
  /\ flight.kind = "save"
  /\ flight' = NoFlight
  /\ UNCHANGED <<tab, store, dirty, lost, late, op, crossed, behind>>

\* submit: the client's gate asks for the documents it shows.
SubmitListing ==
  /\ ~tab.submitted /\ flight = NoFlight /\ tab.step = LastStep /\ tab.id /\ tab.docs # {}
  /\ flight' = [kind |-> "submit"]
  /\ UNCHANGED <<tab, store, dirty, lost, late, op, crossed, behind>>

\* submitKycAction: finalizeKyc and submitForReview ask again, of the draft.
Submittable == ~store.sent /\ store.docs # {} /\ Cardinality(Stored) >= MinPhotos

SubmitLands ==
  /\ flight.kind = "submit"
  /\ tab' = [tab EXCEPT !.submitted = Submittable]
  /\ store' = [store EXCEPT !.sent = @ \/ Submittable]
  /\ flight' = NoFlight
  /\ UNCHANGED <<dirty, lost, late, op, crossed, behind>>

\* The save of a page that is gone lands: the draft has what that page sent, unless
\* this page's own save of the step is still to overwrite it.
LateSave(k) ==
  /\ k \in late \ {LastStep} /\ ~store.sent
  /\ dirty' = dirty \cup {k}
  /\ lost' = IF flight.kind = "save" /\ flight.step = k THEN lost ELSE lost \cup {k}
  /\ late' = late \ {k}
  /\ UNCHANGED <<tab, store, flight, op, crossed, behind>>

\* So does its submit, and this page is left with a listing that is no draft.
LateSubmit ==
  /\ LastStep \in late /\ Submittable
  /\ store' = [store EXCEPT !.sent = TRUE]
  /\ late' = late \ {LastStep}
  /\ UNCHANGED <<tab, dirty, lost, flight, op, crossed, behind>>

LateFails(k) ==
  /\ k \in late
  /\ late' = late \ {k}
  /\ UNCHANGED <<tab, store, dirty, lost, flight, op, crossed, behind>>

-----------------------------------------------------------------------------
(* Uploads and removals of one step                                          *)

\* A call with the item it is about, the lists shown when it was made (which its answer
\* goes back to, whatever has changed on the screen since), whether the
\* step that made it is on the screen (mine), and whether its answer is heeded.
\* The buttons of a step are disabled while an operation of its own is under way.
Begins(i, kind, at, item, shown) ==
  /\ ~tab.submitted /\ tab.id
  /\ op[i] = Idle /\ \A j \in Ops : j < i => op[j] # Idle
  /\ \A j \in Ops : op[j] # Idle => ~op[j].mine
  /\ op' = [op EXCEPT ![i] = [kind |-> kind, at |-> at, item |-> item, count |-> 0, shown |-> shown,
                              papers |-> tab.docs, mine |-> TRUE, heeded |-> TRUE]]
  /\ crossed' = (crossed \/ \E j \in Ops : op[j] # Idle)
  /\ UNCHANGED <<tab, store, dirty, lost, flight, late, behind>>

OnlyOps == UNCHANGED <<dirty, lost, flight, late, crossed, behind>>
At(i, kind, at) == op[i].kind = kind /\ op[i].at = at
Done(i) == op' = [op EXCEPT ![i] = Idle]
Later(i, at) == op' = [op EXCEPT ![i].at = at]

\* The server does nothing, or is not reached: every action asks for the session
\* and the draft (assertOwnedDraft) before it writes.
Refused(i) ==
  /\ op[i].at \in {"count", "row", "delete", "set", "discard"}
  /\ Done(i) /\ UNCHANGED <<tab, store>> /\ OnlyOps

\* onFiles with one file: addPhotoAction counts the photos first.
AddPhoto(i) == tab.step = PhotoStep /\ Begins(i, "add", "count", 0, tab.shown)

CountPhotos(i) ==
  /\ At(i, "add", "count") /\ ~store.sent
  /\ op' = [op EXCEPT ![i].at = "create", ![i].count = Cardinality(Stored)]
  /\ UNCHANGED <<tab, store>> /\ OnlyOps

\* The row is created before the bytes are sent; the first one is the cover.
\* (An order of 0 marks a photo that never was; sortOrder is one less.)
CreatePhoto(i, x) ==
  /\ At(i, "add", "create")
  /\ ~store.photos[x].there /\ store.photos[x].order = 0 /\ \A y \in Photos : y < x => store.photos[y].order > 0
  /\ store' = [store EXCEPT !.photos[x] =
                 [order |-> op[i].count + 1, cover |-> (op[i].count = 0), there |-> TRUE]]
  /\ op' = [op EXCEPT ![i] = IF op[i].heeded THEN [@ EXCEPT !.at = "put", !.item = x] ELSE Idle]
  /\ UNCHANGED tab /\ OnlyOps

PutLands(i) ==
  LET x == op[i].item IN
  /\ At(i, "add", "put")
  /\ tab' = [tab EXCEPT !.shown = Append(op[i].shown, [id |-> x, cover |-> (op[i].count = 0)])]
  /\ Done(i) /\ UNCHANGED store /\ OnlyOps

TakeBack(i, kind, at) ==
  op' = [op EXCEPT ![i].kind = kind, ![i].at = at, ![i].heeded = FALSE,
                     ![i].count = 0, ![i].shown = <<>>, ![i].papers = {}]

\* Mutant: the row is taken back, and the photo shown all the same.
PutFailsShown(i) ==
  /\ At(i, "add", "put")
  /\ tab' = [tab EXCEPT !.shown = Append(op[i].shown, [id |-> op[i].item, cover |-> FALSE])]
  /\ TakeBack(i, "remove", "delete")
  /\ UNCHANGED store /\ OnlyOps

\* The upload does not land: removePhotoAction takes the row back, and its answer is not used.
PutFails(i) ==
  /\ At(i, "add", "put")
  /\ TakeBack(i, "remove", "delete")
  /\ UNCHANGED <<tab, store>> /\ OnlyOps

\* remove
RemovePhoto(i, x) ==
  /\ tab.step = PhotoStep /\ x \in ShownIds(tab.shown)
  /\ Begins(i, "remove", "delete", x, tab.shown)

\* removePhotoAction: the row goes; if it was the cover another is to be promoted.
DeletePhoto(i) ==
  LET x == op[i].item IN
  /\ At(i, "remove", "delete") /\ x \in Stored /\ ~store.sent
  /\ store' = [store EXCEPT !.photos[x].there = FALSE, !.photos[x].cover = FALSE]
  /\ Later(i, IF store.photos[x].cover /\ Stored # {x} THEN "promote" ELSE "answer")
  /\ UNCHANGED tab /\ OnlyOps

\* The next cover is the stored photo that comes first in sortOrder.
Promote(i, x) ==
  /\ op[i].at = "promote"
  /\ x \in Stored /\ \A y \in Stored : store.photos[x].order <= store.photos[y].order
  /\ store' = [store EXCEPT !.photos[x].cover = TRUE]
  /\ Later(i, "answer") /\ UNCHANGED tab /\ OnlyOps

\* The photos shown but one (a filter, as a function that a proof can follow).
Without(shown, x) ==
  LET kept[n \in 0 .. Len(shown)] ==
        IF n = 0 THEN <<>>
        ELSE IF shown[n].id = x THEN kept[n - 1] ELSE Append(kept[n - 1], shown[n])
  IN  kept[Len(shown)]

\* The tab drops the photo, and takes the first one left for the new cover.
Removed(i) ==
  LET left == Without(op[i].shown, op[i].item)
      covered == \E k \in DOMAIN left : left[k].cover IN
  /\ At(i, "remove", "answer")
  /\ tab' = IF ~op[i].heeded THEN tab
            ELSE [tab EXCEPT !.shown = IF covered \/ left = <<>> THEN left
                                       ELSE [left EXCEPT ![1].cover = TRUE]]
  /\ Done(i) /\ UNCHANGED store /\ OnlyOps

\* setCover
ChooseCover(i, x) ==
  /\ tab.step = PhotoStep
  /\ \E k \in DOMAIN tab.shown : tab.shown[k].id = x /\ ~tab.shown[k].cover
  /\ Begins(i, "cover", "set", x, tab.shown)

\* Mutant: the cover there was keeps its mark.
SetCoverBeside(i) ==
  LET x == op[i].item IN
  /\ op[i].kind = "cover"
  /\ IF x \in Stored THEN store' = [store EXCEPT !.photos[x].cover = TRUE] ELSE UNCHANGED store
  /\ UNCHANGED tab /\ Done(i) /\ OnlyOps

\* setCoverAction: one transaction, which fails when the photo is gone.
SetCover(i) ==
  LET x == op[i].item IN
  /\ op[i].kind = "cover" /\ x \in Stored /\ ~store.sent
  /\ store' = [store EXCEPT !.photos = [y \in Photos |-> [@[y] EXCEPT !.cover = (y = x)]]]
  /\ tab' = IF ~op[i].heeded THEN tab
            ELSE [tab EXCEPT !.shown = [k \in DOMAIN op[i].shown |->
                                          [id |-> op[i].shown[k].id, cover |-> (op[i].shown[k].id = x)]]]
  /\ Done(i) /\ OnlyOps

\* upload of the KYC step, for one required document: addKycDocumentAction makes the row
AddDocument(i) == tab.step = LastStep /\ tab.docs = {} /\ Begins(i, "document", "row", 0, <<>>)

CreateDocument(i, d) ==
  /\ At(i, "document", "row") /\ ~store.sent
  /\ d \notin store.docs \cup tab.docs /\ \A j \in Ops : op[j].at = "discard" => op[j].item # d
  /\ store' = [store EXCEPT !.docs = @ \cup {d}]
  /\ op' = [op EXCEPT ![i] = IF op[i].heeded THEN [@ EXCEPT !.at = "send", !.item = d] ELSE Idle]
  /\ UNCHANGED tab /\ OnlyOps

\* and then the bytes are sent; the row is taken back when they do not land.
SendDocument(i, ok) ==
  /\ At(i, "document", "send")
  /\ IF ok THEN tab' = [tab EXCEPT !.docs = op[i].papers \cup {op[i].item}] /\ Done(i)
           ELSE TakeBack(i, "undocument", "discard") /\ UNCHANGED tab
  /\ UNCHANGED store /\ OnlyOps

\* remove
RemoveDocument(i, d) ==
  /\ tab.step = LastStep /\ d \in tab.docs
  /\ Begins(i, "undocument", "discard", d, <<>>)

\* removeKycDocumentAction asks for no draft.
DiscardDocument(i) ==
  LET d == op[i].item IN
  /\ At(i, "undocument", "discard") /\ d \in store.docs
  /\ store' = [store EXCEPT !.docs = @ \ {d}]
  /\ tab' = IF op[i].heeded THEN [tab EXCEPT !.docs = op[i].papers \ {d}] ELSE tab
  /\ Done(i) /\ OnlyOps

-----------------------------------------------------------------------------
\* Of a call under way the client's part ends with its page, the bytes that are sent
\* and the answer with it; what the server has begun goes on.
Orphan(o) == IF o.at \in {"none", "put", "send", "answer"} THEN Idle
             ELSE [o EXCEPT !.mine = FALSE, !.heeded = FALSE, !.shown = <<>>, !.papers = {}]

\* The page is opened again on ?id=, or an error page makes the host do so: the
\* tab starts at the first step from what is stored by now.
Resume ==
  /\ ~tab.submitted /\ store.draft /\ ~store.sent
  /\ \E shown \in UNION {[1 .. n -> [id : Stored, cover : BOOLEAN]] : n \in {Cardinality(Stored)}} :
       /\ ShownIds(shown) = Stored
       /\ \A k \in DOMAIN shown : shown[k].cover = store.photos[shown[k].id].cover
       /\ \A k, l \in DOMAIN shown :
            k < l => store.photos[shown[k].id].order <= store.photos[shown[l].id].order
       /\ tab' = [step |-> 1, id |-> TRUE, shown |-> shown, docs |-> store.docs, submitted |-> FALSE]
  /\ dirty' = {} /\ lost' = {}
  /\ flight' = NoFlight
  /\ late' = late \cup (IF flight.kind = "save" THEN {flight.step}
                        ELSE IF flight.kind = "submit" THEN {LastStep} ELSE {})
  /\ op' = [i \in Ops |-> Orphan(op[i])]
  /\ behind' = \E i \in Ops : op[i].at \in {"delete", "discard"}
  /\ UNCHANGED <<store, crossed>>

WizardNext ==
  \/ Type \/ GoNext \/ GoBack \/ PersistStep \/ PersistFails \/ SubmitListing \/ SubmitLands \/ LateSubmit
  \/ Resume
  \/ \E n \in 1 .. LastStep : StepSelect(n) \/ LateSave(n) \/ LateFails(n)
  \/ \E i \in Ops :
       \/ Refused(i) \/ AddPhoto(i) \/ CountPhotos(i) \/ PutLands(i) \/ PutFails(i)
       \/ DeletePhoto(i) \/ Removed(i) \/ SetCover(i) \/ AddDocument(i) \/ DiscardDocument(i)
       \/ \E ok \in BOOLEAN : SendDocument(i, ok)
       \/ \E d \in Papers : CreateDocument(i, d) \/ RemoveDocument(i, d)
       \/ \E x \in Photos : CreatePhoto(i, x) \/ RemovePhoto(i, x) \/ Promote(i, x) \/ ChooseCover(i, x)

WizardSpec == WizardInit /\ [][WizardNext]_wizardVars

-----------------------------------------------------------------------------
(* Properties                                                                *)

\* Every variable holds a value of its type.
WizardTypeOK ==
  /\ tab.step \in 1 .. LastStep /\ tab.id \in BOOLEAN /\ tab.docs \subseteq Papers
  /\ ShownIds(tab.shown) \subseteq Photos /\ tab.submitted \in BOOLEAN
  /\ dirty \subseteq FormSteps /\ lost \subseteq FormSteps /\ late \subseteq FormSteps \cup {LastStep}
  /\ store.photos \in [Photos -> [order : 0 .. Cardinality(Photos), cover : BOOLEAN, there : BOOLEAN]]
  /\ store.docs \subseteq Papers
  /\ tab.id => store.draft

\* Whatever way the host takes through the steps, what was typed before Next is
\* saved when the tab says that the listing is submitted: only what was typed while
\* a save was under way can be missing (wizard.tsx:248), or what the late save of a
\* page that was left has overwritten.
TypedIsSubmitted == tab.submitted => store.sent /\ dirty \subseteq lost

\* A listing never has two covers, whatever fails half-way and whenever the page is
\* left, as long as one operation on its photos ends before the next begins, those
\* of a page that was left included (actions.ts:265).
OneCover == ~crossed => \A x, y \in Stored : store.photos[x].cover /\ store.photos[y].cover => x = y

\* What the tab shows as uploaded is stored, under the same condition, unless the
\* page was read while a removal was still to land: so the server accepts the
\* documents and photos the host sees.
ShownIsStored ==
  ~crossed /\ ~behind /\ (\A i \in Ops : op[i] = Idle)
    => ShownIds(tab.shown) \subseteq Stored /\ tab.docs \subseteq store.docs

\* What the host typed and sees uploaded is what the server holds.
WizardInv == WizardTypeOK /\ TypedIsSubmitted /\ OneCover /\ ShownIsStored
=============================================================================
