--------------------------- MODULE ListingsProofs ---------------------------
(***************************************************************************)
(* What the public sees was approved, what was sent back can be fixed, and *)
(* no listing gets round its gate but in two known ways, for any number of *)
(* submissions, calls of the host and admins deciding at once.             *)
(***************************************************************************)
EXTENDS Listings, TLAPS

Requests ==
  [op : {"save", "remove", "create", "submit", "location"}]
    \cup [op : {"attach", "resubmit"}, sub : Submissions]
    \cup [op : {"mark"}, sub : Submissions, items : {"open", "done"}]
Decisions == [op : {"approve", "reject", "needsInfo"}, sub : Submissions]
KycRows == [status : KycStatus, docs : SUBSET Documents, items : Checklist]

ShapeInv ==
  /\ listing \in [status : ListingStatus, complete : BOOLEAN]
  /\ sub \in [Submissions -> KycRows]
  /\ call \in [Calls -> {Closed} \cup Requests]
  /\ desk \in [Admins -> {Closed} \cup Decisions]
  /\ reported \in BOOLEAN /\ strayed \in BOOLEAN /\ early \in BOOLEAN /\ overtaken \in BOOLEAN

\* A listing with this status stands on a submission that fits it.
Backed ==
  /\ listing.status = "PUBLISHED" => \E s \in Submissions : sub[s].status = "APPROVED"
  /\ listing.status = "NEEDS_INFO" =>
       \E s \in Submissions : sub[s].status = "NEEDS_INFO" /\ sub[s].items # "none"

\* The gate of the submission was passed, or an admin decided before it, or a photo
\* went behind it.
Passed == listing.complete \/ early \/ overtaken

\* Whatever comes after the draft tells that the draft is left: a decided submission, a
\* report on the public page, and a call that read one of these.  A listing that left it,
\* or that a call is about to submit, has passed the gate.
GateInv ==
  /\ \A s \in Submissions :
       sub[s].status \in {"NEEDS_INFO", "APPROVED", "REJECTED"} => listing.status # "DRAFT"
  /\ reported => listing.status # "DRAFT"
  /\ \A p \in Calls : call[p].op \in {"location", "resubmit"} => listing.status # "DRAFT"
  /\ Behind => Passed

ReviewInv == ShapeInv /\ Backed /\ GateInv

-----------------------------------------------------------------------------
LEMMA CallShape ==
  ASSUME ShapeInv, NEW p \in Calls
  PROVE  /\ call[p].op # "none" => call[p] \in Requests
         /\ call[p].op \in {"attach", "mark", "resubmit"} => call[p].sub \in Submissions
         /\ call[p].op = "mark" => call[p].items \in {"open", "done"}
         /\ Closed.op = "none"
BY DEF ShapeInv, Requests, Closed

LEMMA DeskShape ==
  ASSUME ShapeInv, NEW a \in Admins, desk[a].op # "none"
  PROVE  desk[a].sub \in Submissions
BY DEF ShapeInv, Decisions, Closed

LEMMA InitEstablishes ==
  ASSUME ListingsInit PROVE ReviewInv
<1>1. ShapeInv
  BY DEF ListingsInit, ShapeInv, ListingStatus, KycRows, KycStatus, Documents, Checklist, Uncreated
<1>2. Backed /\ GateInv
  BY DEF ListingsInit, Backed, GateInv, Behind, Uncreated, Closed
<1> QED BY <1>1, <1>2 DEF ReviewInv

\* A call of the host that begins changes nothing else; what it read, it keeps.
LEMMA ReadsKeep ==
  ASSUME ReviewInv, NEW p \in Calls, HostReads(p)
  PROVE  ReviewInv'
<1>1. PICK c \in Requests :
        /\ Opens(p, c) /\ (c.op = "submit" => Passed)
        /\ c.op \in {"location", "resubmit"} => listing.status # "DRAFT"
  <2>1. CASE SaveStep(p)
    <3>1. [op |-> "save"] \in Requests /\ [op |-> "save"].op = "save"
      BY DEF Requests
    <3> QED BY <2>1, <3>1 DEF SaveStep
  <2>7. CASE RemovePhoto(p)
    <3>1. [op |-> "remove"] \in Requests /\ [op |-> "remove"].op = "remove"
      BY DEF Requests
    <3> QED BY <2>7, <3>1 DEF RemovePhoto
  <2>2. CASE AddKycDocument(p)
    <3>1. CASE \E s \in In("PENDING_REVIEW") : Opens(p, [op |-> "attach", sub |-> s])
      <4>1. PICK s \in Submissions : Opens(p, [op |-> "attach", sub |-> s])
        BY <3>1 DEF In
      <4>2. [op |-> "attach", sub |-> s] \in Requests /\ [op |-> "attach", sub |-> s].op = "attach"
        BY DEF Requests
      <4> QED BY <4>1, <4>2
    <3>2. CASE Opens(p, [op |-> "create"])
      <4>1. [op |-> "create"] \in Requests /\ [op |-> "create"].op = "create"
        BY DEF Requests
      <4> QED BY <3>2, <4>1
    <3> QED BY <2>2, <3>1, <3>2 DEF AddKycDocument
  <2>3. CASE SubmitKyc(p)
    <3>1. [op |-> "submit"] \in Requests
      BY DEF Requests
    <3>2. Passed /\ Opens(p, [op |-> "submit"])
      BY <2>3 DEF SubmitKyc, ReadyForReview, Passed
    <3> QED BY <3>1, <3>2
  <2>4. CASE LoadForLocation(p)
    <3>1. [op |-> "location"] \in Requests
      BY DEF Requests
    <3>2. listing.status # "DRAFT" /\ Opens(p, [op |-> "location"])
      BY <2>4 DEF LoadForLocation, OwnedEditable, EDITABLE_STATUSES
    <3> QED BY <3>1, <3>2 DEF ReviewInv, GateInv
  <2>5. CASE \E s \in Submissions : LoadForResubmit(p, s)
    <3>1. PICK s \in Submissions :
            sub[s].status = "NEEDS_INFO" /\ Opens(p, [op |-> "resubmit", sub |-> s])
      BY <2>5 DEF LoadForResubmit, In
    <3>2. [op |-> "resubmit", sub |-> s] \in Requests
      BY DEF Requests
    <3> QED BY <3>1, <3>2 DEF ReviewInv, GateInv
  <2>6. CASE \E s \in Submissions, items \in Checklist : LoadChecklist(p, s, items)
    <3>1. PICK s \in Submissions, items \in {"open", "done"} :
            Opens(p, [op |-> "mark", sub |-> s, items |-> items])
      BY <2>6 DEF LoadChecklist
    <3>2. /\ [op |-> "mark", sub |-> s, items |-> items] \in Requests
          /\ [op |-> "mark", sub |-> s, items |-> items].op = "mark"
      BY DEF Requests
    <3> QED BY <3>1, <3>2
  <2> QED BY <2>1, <2>2, <2>3, <2>4, <2>5, <2>6, <2>7 DEF HostReads
<1>2. call' = [call EXCEPT ![p] = c] /\ UNCHANGED <<listing, sub, desk, reported, strayed, early, overtaken>>
  BY <1>1 DEF Opens
<1>3. ShapeInv' /\ Passed' = Passed
  BY <1>2 DEF ReviewInv, ShapeInv, Passed
<1>4. Backed'
  BY <1>2 DEF ReviewInv, Backed
<1>5. \A q \in Calls : call'[q] = IF q = p THEN c ELSE call[q]
  BY <1>2 DEF ReviewInv, ShapeInv
<1>6. /\ Behind' => Passed
      /\ \A q \in Calls : call'[q].op \in {"location", "resubmit"} => listing.status # "DRAFT"
  BY <1>1, <1>2, <1>5 DEF ReviewInv, GateInv, Behind
<1>7. GateInv'
  BY <1>2, <1>3, <1>6 DEF ReviewInv, GateInv
<1> QED BY <1>3, <1>4, <1>7 DEF ReviewInv

\* No call gets past the gate, and no submission gets or loses a decision.
CallsKept ==
  /\ call' \in [Calls -> {Closed} \cup Requests]
  /\ \A q \in Calls : call'[q].op \in {"submit", "location", "resubmit"} => call'[q] = call[q]
StatusesKept ==
  /\ sub' \in [Submissions -> KycRows]
  /\ \A s \in Submissions :
       /\ sub'[s].status # sub[s].status => sub[s].status = "none" /\ sub'[s].status = "PENDING_REVIEW"
       /\ sub[s].items # "none" => sub'[s].items # "none"

\* A write of the host that ends call p, and with it what the call knew.
LEMMA EndedCall ==
  ASSUME ReviewInv, NEW p \in Calls, Ends(p)
  PROVE  UNCHANGED <<desk, reported, early, overtaken>> /\ CallsKept
BY DEF Ends, ReviewInv, ShapeInv, Closed, CallsKept

\* A write that lets the listing wait for review, from a call that passed the gate.
LEMMA QueuedKeeps ==
  ASSUME ReviewInv, NEW p \in Calls, Ends(p),
         call[p].op \in {"submit", "location", "resubmit"},
         listing' = [listing EXCEPT !.status = "PENDING_REVIEW"],
         strayed' \in BOOLEAN,
         sub' \in [Submissions -> KycRows]
  PROVE  ReviewInv'
<1>1. Passed /\ Passed'
  <2>1. Behind
    BY DEF ReviewInv, GateInv, Behind
  <2> QED BY <2>1, EndedCall DEF ReviewInv, GateInv, ShapeInv, Passed
<1>2. listing' \in [status : ListingStatus, complete : BOOLEAN] /\ listing'.status = "PENDING_REVIEW"
  BY DEF ReviewInv, ShapeInv, ListingStatus
<1>3. ShapeInv'
  BY <1>2, EndedCall DEF ReviewInv, ShapeInv, CallsKept
<1>4. Backed'
  BY <1>2 DEF Backed
<1>5. GateInv'
  BY <1>1, <1>2 DEF GateInv
<1> QED BY <1>3, <1>4, <1>5 DEF ReviewInv

\* A write to submissions that leaves their statuses alone, and a checklist a checklist.
LEMMA DetailsKeep ==
  ASSUME ReviewInv, UNCHANGED <<listing, desk, reported, strayed, early, overtaken>>, CallsKept, StatusesKept
  PROVE  ReviewInv'
<1>1. ShapeInv' /\ Passed' = Passed
  BY DEF ReviewInv, ShapeInv, Passed, CallsKept, StatusesKept
<1>2. Backed'
  BY DEF ReviewInv, Backed, StatusesKept
<1>3. Behind' => Behind
  BY DEF Behind, CallsKept
<1>4. GateInv'
  BY <1>1, <1>3 DEF ReviewInv, GateInv, CallsKept, StatusesKept
<1> QED BY <1>1, <1>2, <1>4 DEF ReviewInv

LEMMA WritesKeep ==
  ASSUME ReviewInv, NEW p \in Calls, HostWrites(p)
  PROVE  ReviewInv'
<1>1. CASE UpdateDraft(p)
  <2>1. /\ Ends(p) /\ UNCHANGED <<sub, strayed>>
        /\ listing' = [listing EXCEPT !.complete = TRUE]
    BY <1>1 DEF UpdateDraft
  <2>2. listing' \in [status : ListingStatus, complete : BOOLEAN]
        /\ listing'.status = listing.status /\ Passed'
    BY <2>1 DEF ReviewInv, ShapeInv, Passed
  <2>3. ShapeInv'
    BY <2>1, <2>2, EndedCall DEF ReviewInv, ShapeInv, CallsKept
  <2>4. Backed'
    BY <2>1, <2>2 DEF ReviewInv, Backed
  <2>5. GateInv'
    BY <2>1, <2>2, EndedCall DEF ReviewInv, GateInv, CallsKept
  <2> QED BY <2>3, <2>4, <2>5 DEF ReviewInv
<1>8. CASE DeletePhoto(p)
  <2>1. /\ call' = [call EXCEPT ![p] = Closed] /\ UNCHANGED <<sub, desk, reported, strayed, early>>
        /\ listing' = [listing EXCEPT !.complete = FALSE]
        /\ overtaken' = (overtaken \/ (listing.complete /\ Behind))
    BY <1>8 DEF DeletePhoto
  <2>2. /\ listing' \in [status : ListingStatus, complete : BOOLEAN]
        /\ listing'.status = listing.status
    BY <2>1 DEF ReviewInv, ShapeInv
  <2>3. CallsKept
    BY <2>1 DEF ReviewInv, ShapeInv, Closed, CallsKept
  <2>4. ShapeInv'
    BY <2>1, <2>2, <2>3 DEF ReviewInv, ShapeInv, CallsKept
  <2>5. Backed'
    BY <2>1, <2>2 DEF ReviewInv, Backed
  <2>6. Behind' => Passed'
    <3>1. Behind' => Behind
      BY <2>2, <2>3 DEF Behind, CallsKept
    <3>2. Behind => Passed
      BY DEF ReviewInv, GateInv
    <3> QED BY <2>1, <3>1, <3>2 DEF Passed
  <2>7. GateInv'
    BY <2>1, <2>2, <2>3, <2>6 DEF ReviewInv, GateInv, CallsKept
  <2> QED BY <2>4, <2>5, <2>7 DEF ReviewInv
<1>2. CASE AddDocument(p)
  <2> DEFINE s == call[p].sub
             w == [sub[s] EXCEPT !.docs = @ \cup {"kept"}]
  <2>1. s \in Submissions
    BY <1>2, CallShape DEF AddDocument, ReviewInv
  <2>2. /\ Ends(p) /\ UNCHANGED <<listing, strayed>> /\ sub' = [sub EXCEPT ![s] = w]
    BY <1>2, <2>1 DEF AddDocument, ReviewInv, ShapeInv
  <2>3. w \in KycRows /\ w.status = sub[s].status /\ w.items = sub[s].items
    BY <2>1 DEF ReviewInv, ShapeInv, KycRows, Documents
  <2>4. StatusesKept
    BY <2>1, <2>2, <2>3 DEF ReviewInv, ShapeInv, StatusesKept
  <2> QED BY <2>2, <2>4, EndedCall, DetailsKeep
<1>3. CASE SubmitForReview(p)
  <2>1. /\ Ends(p) /\ call[p].op = "submit" /\ UNCHANGED sub
        /\ listing' = [listing EXCEPT !.status = "PENDING_REVIEW"] /\ strayed' \in BOOLEAN
    BY <1>3 DEF SubmitForReview
  <2>2. sub' \in [Submissions -> KycRows]
    BY <2>1 DEF ReviewInv, ShapeInv
  <2> QED BY <2>1, <2>2, QueuedKeeps
<1>4. CASE MarkItemSatisfied(p)
  <2> DEFINE s == call[p].sub
             w == [sub[s] EXCEPT !.items = call[p].items]
  <2>1. s \in Submissions /\ call[p].items \in {"open", "done"}
    BY <1>4, CallShape DEF MarkItemSatisfied, ReviewInv
  <2>2. /\ Ends(p) /\ UNCHANGED <<listing, strayed>> /\ sub' = [sub EXCEPT ![s] = w]
    BY <1>4, <2>1 DEF MarkItemSatisfied, ReviewInv, ShapeInv
  <2>3. w \in KycRows /\ w.status = sub[s].status /\ w.items # "none"
    BY <2>1 DEF ReviewInv, ShapeInv, KycRows, Checklist
  <2>4. StatusesKept
    BY <2>1, <2>2, <2>3 DEF ReviewInv, ShapeInv, StatusesKept
  <2> QED BY <2>2, <2>4, EndedCall, DetailsKeep
<1>5. CASE ResubmitForReview(p)
  <2> DEFINE s == call[p].sub
             w == [sub[s] EXCEPT !.status = "PENDING_REVIEW", !.items = "none"]
  <2>1. s \in Submissions
    BY <1>5, CallShape DEF ResubmitForReview, ReviewInv
  <2>2. /\ Ends(p) /\ call[p].op = "resubmit" /\ sub' = [sub EXCEPT ![s] = w]
        /\ listing' = [listing EXCEPT !.status = "PENDING_REVIEW"] /\ strayed' \in BOOLEAN
    BY <1>5 DEF ResubmitForReview
  <2>3. w \in KycRows
    <3>1. sub[s] \in KycRows
      BY <2>1 DEF ReviewInv, ShapeInv
    <3> QED BY <3>1 DEF KycRows, Checklist, KycStatus
  <2>4. sub' \in [Submissions -> KycRows]
    BY <2>1, <2>2, <2>3 DEF ReviewInv, ShapeInv
  <2> QED BY <2>2, <2>4, QueuedKeeps
<1>6. CASE EditLocation(p)
  <2>1. /\ Ends(p) /\ call[p].op = "location" /\ UNCHANGED sub
        /\ listing' = [listing EXCEPT !.status = "PENDING_REVIEW"] /\ strayed' \in BOOLEAN
    BY <1>6 DEF EditLocation
  <2>2. sub' \in [Submissions -> KycRows]
    BY <2>1 DEF ReviewInv, ShapeInv
  <2> QED BY <2>1, <2>2, QueuedKeeps
<1>7. CASE \E s \in Submissions : CreateSubmission(p, s)
  <2>1. PICK s \in Submissions :
          /\ sub[s].status = "none" /\ sub' = [sub EXCEPT ![s].status = "PENDING_REVIEW"]
          /\ call' = [call EXCEPT ![p] = [op |-> "attach", sub |-> s]]
          /\ UNCHANGED <<listing, desk, reported, strayed, early, overtaken>>
    BY <1>7 DEF CreateSubmission
  <2> DEFINE w == [sub[s] EXCEPT !.status = "PENDING_REVIEW"]
             c == [op |-> "attach", sub |-> s]
  <2>2. w \in KycRows /\ w.status = "PENDING_REVIEW" /\ w.items = sub[s].items
    BY DEF ReviewInv, ShapeInv, KycRows, KycStatus
  <2>3. c \in Requests /\ c.op = "attach"
    BY DEF Requests
  <2>4. call' = [call EXCEPT ![p] = c] /\ sub' = [sub EXCEPT ![s] = w]
    BY <2>1 DEF ReviewInv, ShapeInv
  <2> HIDE DEF w, c
  <2>5. CallsKept
    BY <2>3, <2>4 DEF ReviewInv, ShapeInv, CallsKept
  <2>6. StatusesKept
    BY <2>1, <2>2, <2>4 DEF ReviewInv, ShapeInv, StatusesKept
  <2> QED BY <2>1, <2>5, <2>6, DetailsKeep
<1> QED BY <1>1, <1>2, <1>3, <1>4, <1>5, <1>6, <1>7, <1>8 DEF HostWrites

-----------------------------------------------------------------------------
\* A decision passes the gate, or is the one that was taken early; what it writes to
\* listing and submission fits together.
LEMMA DecisionKeeps ==
  ASSUME ReviewInv, NEW a \in Admins, NEW decision \in {"approve", "reject", "needsInfo"},
         NEW to \in {"PUBLISHED", "REJECTED", "NEEDS_INFO"}, NEW w \in KycRows,
         Decides(a, decision, to, w),
         to = "PUBLISHED" => w.status = "APPROVED",
         to = "NEEDS_INFO" => w.status = "NEEDS_INFO" /\ w.items # "none"
  PROVE  ReviewInv'
<1> DEFINE s == desk[a].sub
<1>1. desk[a].op = decision /\ s \in Submissions
  BY DeskShape DEF Decides, ReviewInv
<1>2. /\ listing' = [listing EXCEPT !.status = to] /\ sub' = [sub EXCEPT ![s] = w]
      /\ desk' = [desk EXCEPT ![a] = Closed] /\ strayed' = FALSE
      /\ early' = (early \/ listing.status = "DRAFT") /\ UNCHANGED <<call, reported, overtaken>>
  BY DEF Decides
<1>3. /\ listing' \in [status : ListingStatus, complete : BOOLEAN]
      /\ listing'.status = to /\ listing'.complete = listing.complete
  BY <1>2 DEF ReviewInv, ShapeInv, ListingStatus
<1> HIDE DEF s
<1>4. sub' \in [Submissions -> KycRows] /\ sub'[s] = w
  BY <1>1, <1>2 DEF ReviewInv, ShapeInv
<1>5. ShapeInv'
  BY <1>2, <1>3, <1>4 DEF ReviewInv, ShapeInv
<1>6. Backed'
  BY <1>1, <1>3, <1>4 DEF Backed
<1>7. Passed'
  BY <1>2, <1>3 DEF ReviewInv, GateInv, Behind, Passed
<1>8. GateInv'
  BY <1>3, <1>7 DEF GateInv
<1> QED BY <1>5, <1>6, <1>8 DEF ReviewInv

LEMMA AdminsKeep ==
  ASSUME ReviewInv, NEW a \in Admins, AdminLoads(a) \/ AdminDecides(a)
  PROVE  ReviewInv'
<1>1. CASE AdminLoads(a)
  <2>1. PICK s \in Submissions, d \in {"approve", "reject", "needsInfo"} :
          /\ desk' = [desk EXCEPT ![a] = [op |-> d, sub |-> s]]
          /\ UNCHANGED <<listing, sub, call, reported, strayed, early, overtaken>>
    BY <1>1 DEF AdminLoads, LoadPendingSubmission
  <2>2. [op |-> d, sub |-> s] \in Decisions
    BY DEF Decisions
  <2>3. ShapeInv' /\ Passed' = Passed
    BY <2>1, <2>2 DEF ReviewInv, ShapeInv, Passed
  <2>4. Backed' /\ GateInv'
    BY <2>1, <2>3 DEF ReviewInv, Backed, GateInv, Behind
  <2> QED BY <2>3, <2>4 DEF ReviewInv
<1>2. CASE AdminDecides(a)
  <2> DEFINE old == sub[desk[a].sub]
  <2>1. desk[a].op # "none"
    BY <1>2 DEF AdminDecides, ApproveSubmission, RejectSubmission, RequestNeedsInfo, Decides
  <2>2. old \in KycRows
    BY <2>1, DeskShape DEF ReviewInv, ShapeInv
  <2>3. CASE ApproveSubmission(a)
    <3> DEFINE w == [old EXCEPT !.status = "APPROVED", !.items = "none"]
    <3>1. w \in KycRows /\ w.status = "APPROVED"
      BY <2>2 DEF KycRows, KycStatus, Checklist
    <3>2. Decides(a, "approve", "PUBLISHED", w)
      BY <2>3 DEF ApproveSubmission
    <3> HIDE DEF w
    <3> QED BY <3>1, <3>2, DecisionKeeps
  <2>4. CASE RejectSubmission(a)
    <3> DEFINE w == [old EXCEPT !.status = "REJECTED", !.docs = IF @ = {} THEN {} ELSE {"doomed"}]
    <3>1. w \in KycRows
      BY <2>2 DEF KycRows, KycStatus, Documents
    <3>2. Decides(a, "reject", "REJECTED", w)
      BY <2>4 DEF RejectSubmission
    <3> HIDE DEF w
    <3> QED BY <3>1, <3>2, DecisionKeeps
  <2>5. CASE RequestNeedsInfo(a)
    <3> DEFINE w == [old EXCEPT !.status = "NEEDS_INFO", !.items = "open"]
    <3>1. w \in KycRows /\ w.status = "NEEDS_INFO" /\ w.items # "none"
      BY <2>2 DEF KycRows, KycStatus, Checklist
    <3>2. Decides(a, "needsInfo", "NEEDS_INFO", w)
      BY <2>5 DEF RequestNeedsInfo
    <3> HIDE DEF w
    <3> QED BY <3>1, <3>2, DecisionKeeps
  <2> QED BY <1>2, <2>3, <2>4, <2>5 DEF AdminDecides
<1> QED BY <1>1, <1>2

LEMMA OthersKeep ==
  ASSUME ReviewInv,
         \/ CreateListingReport \/ UnlistFromReport
         \/ \E s \in Submissions : RemoveDocument(s) \/ PurgeKycDocs(s)
  PROVE  ReviewInv'
<1>1. CASE CreateListingReport
  <2>1. /\ listing.status = "PUBLISHED" /\ reported' = TRUE
        /\ UNCHANGED <<listing, sub, call, desk, strayed, early, overtaken>>
    BY <1>1 DEF CreateListingReport
  <2>2. ShapeInv' /\ Backed' /\ Passed' = Passed /\ Behind' = Behind
    BY <2>1 DEF ReviewInv, ShapeInv, Backed, Behind, Passed
  <2>3. GateInv'
    BY <2>1, <2>2 DEF ReviewInv, GateInv
  <2> QED BY <2>2, <2>3 DEF ReviewInv
<1>2. CASE UnlistFromReport
  <2>1. /\ reported /\ listing' = [listing EXCEPT !.status = "UNLISTED"]
        /\ UNCHANGED <<sub, call, desk, reported, strayed, early, overtaken>>
    BY <1>2 DEF UnlistFromReport
  <2>2. /\ listing' \in [status : ListingStatus, complete : BOOLEAN]
        /\ listing'.status = "UNLISTED" /\ listing'.complete = listing.complete
    BY <2>1 DEF ReviewInv, ShapeInv, ListingStatus
  <2>3. ShapeInv' /\ Backed' /\ Passed'
    BY <2>1, <2>2 DEF ReviewInv, ShapeInv, Backed, GateInv, Behind, Passed
  <2>4. GateInv'
    BY <2>2, <2>3 DEF GateInv
  <2> QED BY <2>3, <2>4 DEF ReviewInv
<1>3. ASSUME NEW s \in Submissions, RemoveDocument(s) \/ PurgeKycDocs(s)
      PROVE  ReviewInv'
  <2>1. PICK d : /\ sub' = [sub EXCEPT ![s].docs = @ \ {d}]
                 /\ UNCHANGED <<listing, call, desk, reported, strayed, early, overtaken>>
    BY <1>3 DEF RemoveDocument, PurgeKycDocs
  <2> DEFINE w == [sub[s] EXCEPT !.docs = @ \ {d}]
  <2>2. w \in KycRows /\ w.status = sub[s].status /\ w.items = sub[s].items
    BY DEF ReviewInv, ShapeInv, KycRows
  <2>3. sub' = [sub EXCEPT ![s] = w]
    BY <2>1 DEF ReviewInv, ShapeInv
  <2> HIDE DEF w
  <2>4. StatusesKept
    BY <2>2, <2>3 DEF ReviewInv, ShapeInv, StatusesKept
  <2>5. CallsKept
    BY <2>1 DEF ReviewInv, ShapeInv, CallsKept
  <2> QED BY <2>1, <2>4, <2>5, DetailsKeep
<1> QED BY <1>1, <1>2, <1>3

-----------------------------------------------------------------------------
LEMMA StepKeeps ==
  ASSUME ReviewInv, [ListingsNext]_listingVars
  PROVE  ReviewInv'
<1>1. CASE ListingsNext
  BY <1>1, ReadsKeep, WritesKeep, AdminsKeep, OthersKeep DEF ListingsNext
<1>2. CASE UNCHANGED listingVars
  BY <1>2 DEF listingVars, ReviewInv, ShapeInv, Backed, GateInv, Behind, Passed
<1> QED BY <1>1, <1>2

LEMMA ReviewInvImplies == ReviewInv => ListingsInv /\ GateHolds
<1> SUFFICES ASSUME ReviewInv PROVE ListingsInv /\ GateHolds
  OBVIOUS
<1>1. ListingsTypeOK
  <2>1. \A p \in Calls : call[p] # Closed /\ call[p].op \in {"attach", "mark", "resubmit"}
          => call[p].sub \in Submissions
    BY CallShape DEF ReviewInv
  <2>2. \A a \in Admins : desk[a] # Closed => desk[a].sub \in Submissions
    BY DEF ReviewInv, ShapeInv, Decisions
  <2> QED BY <2>1, <2>2 DEF ReviewInv, ShapeInv, KycRows, ListingsTypeOK
<1>2. PublishedWasReviewed /\ ReturnedCanBeFixed
  BY DEF ReviewInv, Backed, PublishedWasReviewed, ReturnedCanBeFixed, In
<1>3. GateHolds
  BY DEF ReviewInv, GateInv, Behind, Passed, GateHolds
<1> QED BY <1>1, <1>2, <1>3 DEF ListingsInv

LEMMA ReviewInvariant == ListingsSpec => []ReviewInv
BY InitEstablishes, StepKeeps, PTL DEF ListingsSpec

\* However many submissions, open calls and admins there are: a public listing stands
\* on an approved submission, and one that was sent back on a submission with a
\* checklist the host can work through (listing-review.ts, listing-resubmit.ts).
THEOREM ReviewIsBacked == ListingsSpec => []ListingsInv
BY ReviewInvariant, ReviewInvImplies, PTL

\* A listing out of DRAFT is filled in, unless an admin decided on a draft or a photo
\* went, in a call let in while it was one, behind the gate's count (submitForReview,
\* lib/listing/transitions.ts; removePhotoAction).
THEOREM GateIsPassed == ListingsSpec => []GateHolds
BY ReviewInvariant, ReviewInvImplies, PTL
=============================================================================
