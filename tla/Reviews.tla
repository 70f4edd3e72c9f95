------------------------------ MODULE Reviews ------------------------------
(***************************************************************************)
(* Reviews of completed stays of one villa: the guest's form, the writer   *)
(* that keeps the villa's denormalized rating, flags, and an admin's       *)
(* moderation.  A write is a transaction at READ COMMITTED: it reads the   *)
(* booking, writes and counts, then updates the villa and commits, so the  *)
(* writers of two reviews of the villa interleave between these steps.     *)
(*                                                                         *)
(* A review's five scores are one: the aggregate averages only `overall`.  *)
(* The average is exact when the sum and the count are.                    *)
(***************************************************************************)
EXTENDS Integers, FiniteSets, FiniteSetsExt

CONSTANTS
  ReviewBookings,   \* bookings of the villa
  Writers,          \* server calls at work at once
  Scores,           \* scores given
  PhotoKeys,           \* photos a guest picks
  Flags             \* bound: Reports about a review

ASSUME ReviewsAssumption == Scores \subseteq 1 .. 5 /\ IsFiniteSet(ReviewBookings)

VARIABLES
  stay,      \* each booking: not finished, COMPLETED and in its 14 days, or past them
  form,      \* the photos each booking's review form shows
  uploaded,    \* the photos R2 holds for it
  review,    \* its Review row
  rating,    \* Listing.reviewCount, and the sum that avgRating stands for
  write,     \* the transaction of each call
  flag       \* Report rows with a reviewId

revVars == <<stay, form, uploaded, review, rating, write, flag>>

NoReview == [at |-> "none"]
AtRest == [at |-> "idle"]
Published(rows) == {b \in ReviewBookings : rows[b].at = "published"}

ReviewsInit ==
  /\ stay = [b \in ReviewBookings |-> "unfinished"]
  /\ form = [b \in ReviewBookings |-> {}]
  /\ uploaded = [b \in ReviewBookings |-> {}]
  /\ review = [b \in ReviewBookings |-> NoReview]
  /\ rating = [count |-> 0, sum |-> 0]
  /\ write = [w \in Writers |-> AtRest]
  /\ flag = [f \in Flags |-> [at |-> "none"]]

StayMoves(b) ==
  /\ \/ stay[b] = "unfinished" /\ stay' = [stay EXCEPT ![b] = "open"]
     \/ stay[b] = "open" /\ stay' = [stay EXCEPT ![b] = "closed"]
  /\ UNCHANGED <<form, uploaded, review, rating, write, flag>>

\* assertReviewable, for the booking's own guest.
CanReview(b) == stay[b] = "open" /\ review[b] = NoReview

-----------------------------------------------------------------------------
(* The form                                                                  *)

\* Mutant: the preview is shown before the upload is known to have worked.
UploadShown(b, k) ==
  /\ k \notin form[b] /\ CanReview(b)
  /\ uploaded' \in {uploaded, [uploaded EXCEPT ![b] = @ \cup {k}]}
  /\ form' = [form EXCEPT ![b] = @ \cup {k}]
  /\ UNCHANGED <<stay, review, rating, write, flag>>

\* onFiles: a photo is presigned (for who can review), put into R2, and then added
\* to the form; a failed upload drops it, and one whose answer is lost stays in R2.
Upload(b, k) ==
  /\ k \notin form[b] /\ CanReview(b)
  /\ uploaded' = [uploaded EXCEPT ![b] = @ \cup {k}]
  /\ form' \in {form, [form EXCEPT ![b] = @ \cup {k}]}
  /\ UNCHANGED <<stay, review, rating, write, flag>>

\* submitReviewAction, up to the guards inside the transaction.  The guest may have
\* the form open twice: the other one shows no photos.
SubmitReview(w, b, s, photos) ==
  /\ write[w] = AtRest /\ CanReview(b) /\ photos \in {{}, form[b]}
  /\ write' = [write EXCEPT ![w] = [at |-> "checked", b |-> b, score |-> s, photos |-> photos]]
  /\ UNCHANGED <<stay, form, uploaded, review, rating, flag>>

-----------------------------------------------------------------------------
(* The writer                                                                *)

\* Mutant: removed reviews are counted.
CountRemoved(rows) ==
  LET all == {b \in ReviewBookings : rows[b] # NoReview}
  IN [count |-> Cardinality(all), sum |-> MapThenSumSet(LAMBDA b : rows[b].score, all)]

\* recomputeAggregate's query.
Count(rows) ==
  [count |-> Cardinality(Published(rows)),
   sum |-> MapThenSumSet(LAMBDA b : rows[b].score, Published(rows))]

\* An uncommitted insert or update of the booking's review makes others wait.
Locked(w, b) == \E v \in Writers \ {w} : write[v].at = "counted" /\ write[v].b = b

\* The row as the transaction leaves it, and the aggregate over what is committed
\* and this row.
Counts(w, row) ==
  LET b == write[w].b
  IN write' = [write EXCEPT ![w] =
       [at |-> "counted", b |-> b, row |-> row, base |-> review,
        rating |-> Count([review EXCEPT ![b] = row]),
        flag |-> IF write[w].at = "removing" THEN {write[w].flag} ELSE {}]]

\* review.create and the aggregate; the second insert for a booking fails (@unique).
CreateReview(w) ==
  /\ write[w].at = "checked" /\ ~Locked(w, write[w].b)
  /\ IF review[write[w].b] = NoReview
     THEN Counts(w, [at |-> "published", score |-> write[w].score, photos |-> write[w].photos])
     ELSE write' = [write EXCEPT ![w] = AtRest]
  /\ UNCHANGED <<stay, form, uploaded, review, rating, flag>>

\* The soft delete and the aggregate.
DeleteReview(w) ==
  /\ write[w].at = "removing" /\ ~Locked(w, write[w].b)
  /\ Counts(w, [review[write[w].b] EXCEPT !.at = "removed"])
  /\ UNCHANGED <<stay, form, uploaded, review, rating, flag>>

\* listing.update and the commit; a removal goes on to its flag.
Commit(w) ==
  /\ write[w].at = "counted"
  /\ review' = [review EXCEPT ![write[w].b] = write[w].row]
  /\ rating' = write[w].rating
  /\ write' = [write EXCEPT ![w] =
       IF write[w].flag = {} THEN AtRest ELSE [at |-> "resolve", flag |-> write[w].flag]]
  /\ UNCHANGED <<stay, form, uploaded, flag>>

\* The server stops: a transaction under way is rolled back.
WriterStops(w) ==
  /\ write[w] # AtRest
  /\ write' = [write EXCEPT ![w] = AtRest]
  /\ UNCHANGED <<stay, form, uploaded, review, rating, flag>>

-----------------------------------------------------------------------------
(* Moderation                                                                *)

\* flagReview, from a listing page that may be old.
FlagReview(f, b) ==
  /\ flag[f].at = "none" /\ review[b] # NoReview
  /\ \A g \in Flags : g < f => flag[g].at # "none"
  /\ flag' = [flag EXCEPT ![f] = [at |-> "RECEIVED", b |-> b]]
  /\ UNCHANGED <<stay, form, uploaded, review, rating, write>>

\* keepReviewAction: unconditional, so a page that is open elsewhere can close the
\* flag of a review that was removed.
KeepReview(f) ==
  /\ flag[f].at # "none"
  /\ flag' = [flag EXCEPT ![f].at = "DISMISSED"]
  /\ UNCHANGED <<stay, form, uploaded, review, rating, write>>

\* removeReviewAction up to removeReview's read; a removed review ends it, and its
\* other flags stay open.
RemoveReview(w, f) ==
  /\ write[w] = AtRest /\ flag[f].at # "none" /\ review[flag[f].b].at = "published"
  /\ write' = [write EXCEPT ![w] = [at |-> "removing", b |-> flag[f].b, flag |-> f]]
  /\ UNCHANGED <<stay, form, uploaded, review, rating, flag>>

\* Mutant: the flag is resolved before the removal has committed.
ResolveFlagFirst(w) ==
  /\ write[w].at \in {"removing", "resolve"}
  /\ LET f == IF write[w].at = "removing" THEN {write[w].flag} ELSE write[w].flag
     IN flag' = [g \in Flags |-> IF g \in f THEN [flag[g] EXCEPT !.at = "RESOLVED"] ELSE flag[g]]
  /\ write' = IF write[w].at = "resolve" THEN [write EXCEPT ![w] = AtRest] ELSE write
  /\ UNCHANGED <<stay, form, uploaded, review, rating>>

\* resolveReviewFlag, after the removal has committed.
ResolveFlag(w) ==
  /\ write[w].at = "resolve"
  /\ flag' = [g \in Flags |-> IF g \in write[w].flag THEN [flag[g] EXCEPT !.at = "RESOLVED"] ELSE flag[g]]
  /\ write' = [write EXCEPT ![w] = AtRest]
  /\ UNCHANGED <<stay, form, uploaded, review, rating>>

-----------------------------------------------------------------------------
ReviewsNext ==
  \/ \E b \in ReviewBookings :
       \/ StayMoves(b)
       \/ \E k \in PhotoKeys : Upload(b, k)
       \/ \E f \in Flags : FlagReview(f, b)
  \/ \E f \in Flags : KeepReview(f)
  \/ \E w \in Writers :
       \/ \E b \in ReviewBookings, s \in Scores : \E photos \in {{}, form[b]} : SubmitReview(w, b, s, photos)
       \/ \E f \in Flags : RemoveReview(w, f)
       \/ CreateReview(w) \/ DeleteReview(w) \/ Commit(w) \/ ResolveFlag(w) \/ WriterStops(w)

ReviewsSpec == ReviewsInit /\ [][ReviewsNext]_revVars

-----------------------------------------------------------------------------
(* Properties                                                                *)

\* A review's photos all reached R2, whatever failed while the form was filled in
\* and whichever of two open forms was sent (review-form.tsx:56-72).
ReviewShowsStoredPhotos ==
  \A b \in ReviewBookings : review[b] # NoReview => review[b].photos \subseteq uploaded[b]

\* A flag is RESOLVED only when its review is gone, also when the server stops
\* between the removal and the flag, and with two admins at it.
ResolvedMeansRemoved ==
  \A f \in Flags : flag[f].at = "RESOLVED" => review[flag[f].b].at = "removed"

\* What a review and a flag say is so, across the retries and crashes of their forms.
ReviewInv == ReviewShowsStoredPhotos /\ ResolvedMeansRemoved

\* A write during which no other committed leaves the villa's rating exact, and so
\* repairs what earlier writes left: the count and the sum over the reviews shown.
RatingHeals ==
  [][\A w \in Writers :
       write[w].at = "counted" /\ write'[w] # write[w] /\ review' # review /\ write[w].base = review =>
         rating'.count = Cardinality(Published(review'))
         /\ rating'.sum = MapThenSumSet(LAMBDA b : review'[b].score, Published(review'))]_revVars
=============================================================================
