-------------------------------- MODULE Faq ---------------------------------
(***************************************************************************)
(* The growth loop of a listing's FAQ: a question the concierge could not  *)
(* answer is logged, an admin suggests it to the host or dismisses it, and *)
(* the host answers and publishes it, from which the concierge answers the *)
(* next guest.  Several admins work on one queue; the host has the edit    *)
(* page open, with entries loaded earlier and answers not saved yet.       *)
(***************************************************************************)
EXTENDS Naturals, Sequences, FiniteSets

CONSTANTS
  Texts,          \* question texts
  FaqAdmins,
  MaxQuestions,   \* bound: questions logged
  MaxEntries      \* bound: FAQ entries made

ASSUME FaqAssumption ==
  /\ IsFiniteSet(Texts) /\ IsFiniteSet(FaqAdmins)
  /\ MaxQuestions \in Nat /\ MaxEntries \in Nat

VARIABLES
  questions,   \* UnansweredQuestion rows
  entries,     \* ListingFaqEntry rows
  suggesting,  \* the suggestion each admin's call is working on
  editor       \* FaqManager: the rows the page holds

faqVars == <<questions, entries, suggesting, editor>>

NoSuggestion == 0

FaqInit ==
  /\ questions = <<>>
  /\ entries = <<>>
  /\ suggesting = [a \in FaqAdmins |-> NoSuggestion]
  /\ editor = <<>>

Open(q) == questions[q].status = "OPEN"
Exists(e) == e \in DOMAIN entries /\ entries[e].status # "GONE"
PublishedFor(text) == {e \in DOMAIN entries : entries[e].status = "PUBLISHED" /\ entries[e].text = text}

-----------------------------------------------------------------------------
\* A guest asks what no published entry answers; the question may be about no listing.
LogUnansweredQuestion(text, listed) ==
  /\ Len(questions) < MaxQuestions
  /\ ~listed \/ PublishedFor(text) = {}
  /\ questions' = Append(questions, [text |-> text, listed |-> listed, status |-> "OPEN"])
  /\ UNCHANGED <<entries, suggesting, editor>>

\* The queue: a row for each text of the listing, known by one question, with a count.
SameRow(q) ==
  {j \in DOMAIN questions : Open(j) /\ questions[j].text = questions[q].text
                                   /\ questions[j].listed = questions[q].listed}
Queue ==
  {[id |-> q, count |-> Cardinality(SameRow(q))] :
     q \in {r \in DOMAIN questions : Open(r) /\ \A j \in SameRow(r) : j <= r}}

\* suggestAsFaqAction reads the question...
ReadSuggestion(a, q) ==
  /\ suggesting[a] = NoSuggestion
  /\ Open(q) /\ questions[q].listed
  /\ suggesting' = [suggesting EXCEPT ![a] = q]
  /\ UNCHANGED <<questions, entries, editor>>

Drafted(text) == Append(entries, [text |-> text, answered |-> FALSE, status |-> "DRAFT"])

\* Mutant: every question of that text is marked, those dismissed as well.
SuggestAll(a) ==
  LET q == suggesting[a]
  IN /\ q # NoSuggestion /\ Len(entries) < MaxEntries
     /\ entries' = Drafted(questions[q].text)
     /\ questions' = [j \in DOMAIN questions |->
          IF questions[j].text = questions[q].text /\ questions[j].listed
          THEN [questions[j] EXCEPT !.status = "CONVERTED"] ELSE questions[j]]
     /\ suggesting' = [suggesting EXCEPT ![a] = NoSuggestion]
     /\ UNCHANGED editor

\* ... and in one transaction drafts the entry and converts every open question of
\* that text, whatever has become of the one it read.
Suggest(a) ==
  LET q == suggesting[a]
  IN /\ q # NoSuggestion /\ Len(entries) < MaxEntries
     /\ entries' = Drafted(questions[q].text)
     /\ questions' = [j \in DOMAIN questions |->
          IF j \in SameRow(q) THEN [questions[j] EXCEPT !.status = "CONVERTED"] ELSE questions[j]]
     /\ suggesting' = [suggesting EXCEPT ![a] = NoSuggestion]
     /\ UNCHANGED editor

\* One question, and not the others of its row.
Dismiss(q) ==
  /\ Open(q)
  /\ questions' = [questions EXCEPT ![q].status = "DISMISSED"]
  /\ UNCHANGED <<entries, suggesting, editor>>

-----------------------------------------------------------------------------
(* The host's page                                                           *)

LoadEditor ==
  /\ editor' = [e \in DOMAIN entries |->
       [shown |-> Exists(e), answered |-> entries[e].answered, status |-> entries[e].status]]
  /\ UNCHANGED <<questions, entries, suggesting>>

Held(e) == e \in DOMAIN editor /\ editor[e].shown

TypeAnswer(e) ==
  /\ Held(e)
  /\ editor' = [editor EXCEPT ![e].answered = TRUE]
  /\ UNCHANGED <<questions, entries, suggesting>>

\* An answer is needed.
UpdateFaq(e) ==
  /\ Held(e) /\ Exists(e) /\ editor[e].answered
  /\ entries' = [entries EXCEPT ![e].answered = TRUE]
  /\ UNCHANGED <<questions, suggesting, editor>>

\* The page decides on the new status from the one it shows; the answer typed there is
\* not saved along.
ToggleFaqStatus(e) ==
  LET next == IF editor[e].status = "PUBLISHED" THEN "DRAFT" ELSE "PUBLISHED"
  IN /\ Held(e) /\ Exists(e)
     /\ entries' = [entries EXCEPT ![e].status = next]
     /\ editor' = [editor EXCEPT ![e].status = next]
     /\ UNCHANGED <<questions, suggesting>>

\* Question and answer are both given; the page holds all rows up to the new one, those
\* it never loaded as not shown.
CreateFaq(text) ==
  /\ Len(entries) < MaxEntries
  /\ entries' = Append(entries, [text |-> text, answered |-> TRUE, status |-> "PUBLISHED"])
  /\ editor' = [e \in 1..Len(entries) + 1 |->
       IF e = Len(entries) + 1 THEN [shown |-> TRUE, answered |-> TRUE, status |-> "PUBLISHED"]
       ELSE IF e \in DOMAIN editor THEN editor[e]
       ELSE [shown |-> FALSE, answered |-> FALSE, status |-> "DRAFT"]]
  /\ UNCHANGED <<questions, suggesting>>

DeleteFaq(e) ==
  /\ Held(e) /\ Exists(e)
  /\ entries' = [entries EXCEPT ![e].status = "GONE"]
  /\ editor' = [editor EXCEPT ![e].shown = FALSE]
  /\ UNCHANGED <<questions, suggesting>>

-----------------------------------------------------------------------------
FaqNext ==
  \/ \E text \in Texts, listed \in BOOLEAN : LogUnansweredQuestion(text, listed)
  \/ \E a \in FaqAdmins : Suggest(a) \/ \E row \in Queue : ReadSuggestion(a, row.id)
  \/ \E row \in Queue : Dismiss(row.id)
  \/ LoadEditor
  \/ \E e \in DOMAIN editor : TypeAnswer(e) \/ UpdateFaq(e) \/ ToggleFaqStatus(e) \/ DeleteFaq(e)
  \/ \E text \in Texts : CreateFaq(text)

FaqSpec == FaqInit /\ [][FaqNext]_faqVars

-----------------------------------------------------------------------------
(* Properties                                                                *)

\* Whichever admins decide at the same time, a decision on a question stands, and a
\* question leaves the queue as converted only with a draft for the host
\* (unanswered-questions/actions.ts).
DecidedOnce ==
  [][\A q \in DOMAIN questions :
       /\ ~Open(q) => questions'[q].status = questions[q].status
       /\ Open(q) /\ questions'[q].status = "CONVERTED" =>
            Len(entries') > Len(entries) /\ entries'[Len(entries')].text = questions[q].text]_faqVars
=============================================================================
