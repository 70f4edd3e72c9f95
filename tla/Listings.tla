------------------------------ MODULE Listings ------------------------------
(***************************************************************************)
(* The life of one villa's listing: the draft, its KYC submission, the     *)
(* admins' review and the host's edits once it is public (lib/listing,     *)
(* lib/kyc, lib/admin/listing-review, lib/host/listing-resubmit, and the   *)
(* server actions over them).                                              *)
(*                                                                         *)
(* No handler here reads and writes in one transaction: each loads a row,  *)
(* decides, and then writes without looking again.  So every operation is  *)
(* a read that opens a call and a write that ends it, several calls of the *)
(* host (two tabs, a double click) and of the admins being open at once.   *)
(* The fields and the photos the host must fill in are one flag,           *)
(* "complete"; the wizard, its form and its photos one by one are in       *)
(* Wizard, the edit form in EditPage.                                      *)
(***************************************************************************)
EXTENDS Naturals, FiniteSets

CONSTANTS
  Submissions,   \* bound: KycSubmission rows ever created, numbered
  Calls,         \* bound: calls of the host open at once
  Admins         \* admins deciding at the same time

ASSUME ListingsAssumption ==
  Submissions \subseteq Nat \ {0} /\ Calls \subseteq Nat /\ Admins \subseteq Nat \ {0}

VARIABLES
  listing,   \* its status, and whether the fields are complete
  sub,       \* KycSubmission: status, what its documents are, its checklist
  call,      \* the calls of the host in progress, with what they have read
  desk,      \* the submission each admin has loaded, and the decision to come
  reported,  \* a guest reported the listing from its public page
  strayed,   \* history: the listing waits for review though nothing queued it
  early,     \* history: an admin decided on the submission of a draft
  overtaken  \* history: a photo the gate had counted was removed behind it

listingVars == <<listing, sub, call, desk, reported, strayed, early, overtaken>>

NoSub == 0
Closed == [op |-> "none"]
Uncreated == [status |-> "none", docs |-> {}, items |-> "none"]

ListingStatus == {"DRAFT", "PENDING_REVIEW", "NEEDS_INFO", "PUBLISHED", "UNLISTED", "REJECTED"}
KycStatus == {"none", "PENDING_REVIEW", "NEEDS_INFO", "APPROVED", "REJECTED"}
\* A document is there, or there with a purgeAfter date.
Documents == {"kept", "doomed"}
\* needsInfoItems: null, or a list with an item open, or one with all satisfied.
Checklist == {"none", "open", "done"}

ListingsInit ==
  /\ listing = [status |-> "DRAFT", complete |-> FALSE]
  /\ sub = [s \in Submissions |-> Uncreated]
  /\ call = [p \in Calls |-> Closed]
  /\ desk = [a \in Admins |-> Closed]
  /\ reported = FALSE /\ strayed = FALSE /\ early = FALSE /\ overtaken = FALSE

-----------------------------------------------------------------------------
(* Calls                                                                     *)

Opens(p, c) ==
  /\ call[p] = Closed /\ \A q \in Calls : q < p => call[q] # Closed
  /\ call' = [call EXCEPT ![p] = c]
  /\ UNCHANGED <<listing, sub, desk, reported, strayed, early, overtaken>>

Ends(p) == call' = [call EXCEPT ![p] = Closed] /\ UNCHANGED <<desk, reported, early, overtaken>>

In(st) == {s \in Submissions : sub[s].status = st}

\* loadOwnedDraft and assertOwnedDraft
OwnedDraft == listing.status = "DRAFT"

\* EDITABLE_STATUSES and loadOwnedEditable
EDITABLE_STATUSES == {"PUBLISHED", "UNLISTED", "NEEDS_INFO"}
OwnedEditable == listing.status \in EDITABLE_STATUSES

\* The gate has looked at the draft: the listing was submitted, or is about to be.
Behind == listing.status # "DRAFT" \/ \E q \in Calls : call[q].op = "submit"

-----------------------------------------------------------------------------
(* The draft and its KYC documents                                           *)

\* The save of the last step, or the photo, that completes the draft: the action
\* loads the draft, and later writes.  (A save is validated, so none takes a field back.)
SaveStep(p) == OwnedDraft /\ Opens(p, [op |-> "save"])

\* updateDraft and replaceSeasons, or the new photo's row
UpdateDraft(p) ==
  /\ call[p].op = "save"
  /\ listing' = [listing EXCEPT !.complete = TRUE]
  /\ Ends(p) /\ UNCHANGED <<sub, strayed>>

\* removePhotoAction of a photo without which too few are left: the draft is loaded ...
RemovePhoto(p) == OwnedDraft /\ Opens(p, [op |-> "remove"])

\* ... and the photo's row deleted, whatever became of the draft meanwhile.
DeletePhoto(p) ==
  /\ call[p].op = "remove"
  /\ listing' = [listing EXCEPT !.complete = FALSE]
  /\ overtaken' = (overtaken \/ (listing.complete /\ Behind))
  /\ call' = [call EXCEPT ![p] = Closed]
  /\ UNCHANGED <<sub, desk, reported, strayed, early>>

\* Mutant: the document is attached before there is a submission.
AddKycDocumentUnattached(p) ==
  /\ OwnedDraft
  /\ Opens(p, [op |-> "attach", sub |-> NoSub])

\* addKycDocumentAction up to getOrCreateSubmission's look for a row to use
AddKycDocument(p) ==
  /\ OwnedDraft
  /\ \/ \E s \in In("PENDING_REVIEW") : Opens(p, [op |-> "attach", sub |-> s])
     \/ In("PENDING_REVIEW") = {} /\ Opens(p, [op |-> "create"])

\* getOrCreateSubmission when it found none: two calls may both come here.
CreateSubmission(p, s) ==
  /\ call[p].op = "create"
  /\ sub[s].status = "none" /\ \A r \in Submissions : r < s => sub[r].status # "none"
  /\ sub' = [sub EXCEPT ![s].status = "PENDING_REVIEW"]
  /\ call' = [call EXCEPT ![p] = [op |-> "attach", sub |-> s]]
  /\ UNCHANGED <<listing, desk, reported, strayed, early, overtaken>>

\* addDocument asks for the owner only, whatever became of the submission.
AddDocument(p) ==
  /\ call[p].op = "attach"
  /\ sub' = [sub EXCEPT ![call[p].sub].docs = @ \cup {"kept"}]
  /\ Ends(p) /\ UNCHANGED <<listing, strayed>>

\* removeDocument, at any status of the submission
RemoveDocument(s) ==
  /\ \E d \in sub[s].docs : sub' = [sub EXCEPT ![s].docs = @ \ {d}]
  /\ UNCHANGED <<listing, call, desk, reported, strayed, early, overtaken>>

\* finalizeKyc: a pending submission with its documents.  (Two calls may both
\* find no consent and record it twice; payout account and consent are not kept here.)
FinalizeKyc == \E s \in In("PENDING_REVIEW") : sub[s].docs # {}

\* Mutant: the gate on the fields is gone.
ReadyAnyhow == OwnedDraft

\* submitForReview: the fields, the acknowledgment, five photos, the seasons
ReadyForReview == OwnedDraft /\ listing.complete

\* submitKycAction: finalizeKyc, then submitForReview up to its write
SubmitKyc(p) == FinalizeKyc /\ ReadyForReview /\ Opens(p, [op |-> "submit"])

\* submitForReview: the write.  A decision, or another submit and its decision,
\* may have come in between: then no submission is left in the queue.
SubmitForReview(p) ==
  /\ call[p].op = "submit"
  /\ listing' = [listing EXCEPT !.status = "PENDING_REVIEW"]
  /\ strayed' = (listing.status # "DRAFT")
  /\ Ends(p) /\ UNCHANGED sub

-----------------------------------------------------------------------------
(* The admins' review                                                        *)

\* The approval queue lists submissions, whatever the status of their listing.
Queue == In("PENDING_REVIEW")

\* loadPendingSubmission
LoadPendingSubmission(a, s, decision) ==
  /\ desk[a] = Closed
  /\ s \in Queue
  /\ desk' = [desk EXCEPT ![a] = [op |-> decision, sub |-> s]]
  /\ UNCHANGED <<listing, sub, call, reported, strayed, early, overtaken>>

Decides(a, decision, newListing, newSub) ==
  /\ desk[a].op = decision
  /\ listing' = [listing EXCEPT !.status = newListing]
  /\ sub' = [sub EXCEPT ![desk[a].sub] = newSub]
  /\ desk' = [desk EXCEPT ![a] = Closed]
  /\ strayed' = FALSE /\ early' = (early \/ listing.status = "DRAFT")
  /\ UNCHANGED <<call, reported, overtaken>>

\* Mutant: approval publishes, and the submission keeps its place in the queue.
ApproveListingOnly(a) ==
  Decides(a, "approve", "PUBLISHED", sub[desk[a].sub])

\* approveSubmission: publishListingOp and approveKycOp in one transaction
ApproveSubmission(a) ==
  Decides(a, "approve", "PUBLISHED",
          [sub[desk[a].sub] EXCEPT !.status = "APPROVED", !.items = "none"])

\* rejectSubmission: rejectListingOp, rejectKycOp and purgeDocumentsOp
RejectSubmission(a) ==
  LET old == sub[desk[a].sub] IN
  Decides(a, "reject", "REJECTED",
          [old EXCEPT !.status = "REJECTED", !.docs = IF @ = {} THEN {} ELSE {"doomed"}])

\* Mutant: a checklist without an item is sent back all the same.
RequestEmptyInfo(a) ==
  Decides(a, "needsInfo", "NEEDS_INFO",
          [sub[desk[a].sub] EXCEPT !.status = "NEEDS_INFO", !.items = "none"])

\* requestNeedsInfo: needsInfoListingOp and needsInfoKycOp
RequestNeedsInfo(a) ==
  Decides(a, "needsInfo", "NEEDS_INFO",
          [sub[desk[a].sub] EXCEPT !.status = "NEEDS_INFO", !.items = "open"])

\* createListingReport: the form is on the public page.
CreateListingReport ==
  /\ listing.status = "PUBLISHED"
  /\ reported' = TRUE
  /\ UNCHANGED <<listing, sub, call, desk, strayed, early, overtaken>>

\* unlistFromReport: a report on the listing unlists it from any status.
UnlistFromReport ==
  /\ reported
  /\ listing' = [listing EXCEPT !.status = "UNLISTED"]
  /\ UNCHANGED <<sub, call, desk, reported, strayed, early, overtaken>>

\* Mutant: only the documents of a submission that is still rejected go.
PurgeRejectedOnly(s) ==
  /\ "doomed" \in sub[s].docs /\ sub[s].status = "REJECTED"
  /\ sub' = [sub EXCEPT ![s].docs = @ \ {"doomed"}]
  /\ UNCHANGED <<listing, call, desk, reported, strayed, early, overtaken>>

\* purgeRejectedKycDocs, ninety days later; a failed deletion is tried again.
PurgeKycDocs(s) ==
  /\ "doomed" \in sub[s].docs
  /\ sub' = [sub EXCEPT ![s].docs = @ \ {"doomed"}]
  /\ UNCHANGED <<listing, call, desk, reported, strayed, early, overtaken>>

-----------------------------------------------------------------------------
(* The host's answers to a checklist                                         *)

\* markItemSatisfied: load, and set one of the items in a copy of the list.
LoadChecklist(p, s, items) ==
  /\ s \in In("NEEDS_INFO") /\ sub[s].items # "none"
  /\ items \in {"open", "done"}
  /\ Opens(p, [op |-> "mark", sub |-> s, items |-> items])

\* markItemSatisfied writes the whole list back, over whatever came meanwhile.
MarkItemSatisfied(p) ==
  /\ call[p].op = "mark"
  /\ sub' = [sub EXCEPT ![call[p].sub].items = call[p].items]
  /\ Ends(p) /\ UNCHANGED <<listing, strayed>>

\* resubmitForReview: the NEEDS_INFO submission with every item satisfied
LoadForResubmit(p, s) ==
  /\ s \in In("NEEDS_INFO") /\ sub[s].items = "done"
  /\ Opens(p, [op |-> "resubmit", sub |-> s])

\* Mutant: the submission is not put back into the queue.
ResubmitListingOnly(p) ==
  /\ call[p].op = "resubmit"
  /\ listing' = [listing EXCEPT !.status = "PENDING_REVIEW"]
  /\ strayed' = FALSE
  /\ Ends(p) /\ UNCHANGED sub

\* resubmitListingOp and resubmitKycOp in one transaction
ResubmitForReview(p) ==
  /\ call[p].op = "resubmit"
  /\ listing' = [listing EXCEPT !.status = "PENDING_REVIEW"]
  /\ sub' = [sub EXCEPT ![call[p].sub] = [@ EXCEPT !.status = "PENDING_REVIEW", !.items = "none"]]
  /\ strayed' = FALSE
  /\ Ends(p)

-----------------------------------------------------------------------------
(* The host's edits                                                          *)

\* editLocation: load.
LoadForLocation(p) == OwnedEditable /\ Opens(p, [op |-> "location"])

\* editLocation: the listing waits for a review, but no submission is queued.
EditLocation(p) ==
  /\ call[p].op = "location"
  /\ listing' = [listing EXCEPT !.status = "PENDING_REVIEW"]
  /\ strayed' = TRUE
  /\ Ends(p) /\ UNCHANGED sub

-----------------------------------------------------------------------------
HostReads(p) ==
  \/ SaveStep(p) \/ RemovePhoto(p) \/ AddKycDocument(p) \/ SubmitKyc(p) \/ LoadForLocation(p)
  \/ \E s \in Submissions : LoadForResubmit(p, s) \/ \E items \in Checklist : LoadChecklist(p, s, items)

HostWrites(p) ==
  \/ UpdateDraft(p) \/ DeletePhoto(p) \/ AddDocument(p) \/ SubmitForReview(p)
  \/ MarkItemSatisfied(p) \/ ResubmitForReview(p) \/ EditLocation(p)
  \/ \E s \in Submissions : CreateSubmission(p, s)

AdminLoads(a) ==
  \E s \in Submissions, d \in {"approve", "reject", "needsInfo"} : LoadPendingSubmission(a, s, d)
AdminDecides(a) == ApproveSubmission(a) \/ RejectSubmission(a) \/ RequestNeedsInfo(a)

ListingsNext ==
  \/ \E p \in Calls : HostReads(p) \/ HostWrites(p)
  \/ \E a \in Admins : AdminLoads(a) \/ AdminDecides(a)
  \/ CreateListingReport \/ UnlistFromReport
  \/ \E s \in Submissions : RemoveDocument(s) \/ PurgeKycDocs(s)

ListingsSpec == ListingsInit /\ [][ListingsNext]_listingVars

\* An admin works through the queue (the page's SLA), a request that was loaded
\* ends, and the daily purge runs.
ListingsFairness ==
  /\ \A a \in Admins : WF_listingVars(AdminLoads(a)) /\ WF_listingVars(AdminDecides(a))
  /\ \A s \in Submissions : WF_listingVars(PurgeKycDocs(s))
FairListingsSpec == ListingsSpec /\ ListingsFairness

-----------------------------------------------------------------------------
(* Properties                                                                *)

\* Every variable holds a value of its type.
ListingsTypeOK ==
  /\ listing \in [status : ListingStatus, complete : BOOLEAN]
  /\ sub \in [Submissions -> [status : KycStatus, docs : SUBSET Documents, items : Checklist]]
  /\ \A p \in Calls : call[p] # Closed /\ call[p].op \in {"attach", "mark", "resubmit"}
       => call[p].sub \in Submissions
  /\ \A a \in Admins : desk[a] # Closed => desk[a].sub \in Submissions
  /\ reported \in BOOLEAN /\ strayed \in BOOLEAN /\ early \in BOOLEAN /\ overtaken \in BOOLEAN

\* The public sees a listing only on an approved submission, whatever two admins
\* decide at once and however often it was sent back (listing-review.ts:91).
PublishedWasReviewed == listing.status = "PUBLISHED" => In("APPROVED") # {}

\* A listing the admins sent back can be fixed: there is a submission in
\* NEEDS_INFO whose checklist the host can work through; else the host's page
\* is "not found" and the listing stays where it is (review-host.ts:27).
ReturnedCanBeFixed ==
  listing.status = "NEEDS_INFO" => \E s \in In("NEEDS_INFO") : sub[s].items # "none"

\* What is public was reviewed, and what was sent back can be worked on.
ListingsInv == ListingsTypeOK /\ PublishedWasReviewed /\ ReturnedCanBeFixed

\* A listing gets round the gate of its submission in two ways only: an admin decides
\* on the submission of a draft, or a photo goes in a call that was let in while it was
\* a draft and lands after the gate had counted (transitions.ts:174-181, new/actions.ts:246).
GateHolds == listing.status # "DRAFT" => listing.complete \/ early \/ overtaken

\* What was submitted or resubmitted for review gets a decision.
SubmittedIsDecided ==
  (listing.status = "PENDING_REVIEW" /\ ~strayed) ~> (listing.status # "PENDING_REVIEW" \/ strayed)

\* Documents marked for purging are purged, whatever is decided after the mark.
DoomedDocumentsGo ==
  \A s \in Submissions : ("doomed" \in sub[s].docs) ~> ("doomed" \notin sub[s].docs)

\* What is submitted is decided, and what is marked for purging goes.
ReviewGoesOn == SubmittedIsDecided /\ DoomedDocumentsGo
=============================================================================
