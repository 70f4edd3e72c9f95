------------------------------ MODULE EditPage ------------------------------
(***************************************************************************)
(* The page on which a host edits a villa: five cards over one form, each  *)
(* with a save of its own.  A save is checked by the card's schema, then   *)
(* by the listing's status, which an admin may change meanwhile; the       *)
(* pricing card is saved by three transactions, each with its own check.   *)
(* The host saves other cards while a save runs.                           *)
(*                                                                         *)
(* A group of fields goes out as it was, or as the fields of the card let  *)
(* the host leave it: the inputs hardly check, they clear a number to      *)
(* nothing, to 1 or to 0, and leave the refusing to the schemas.           *)
(***************************************************************************)
EXTENDS Naturals, FiniteSets

CONSTANTS Cards,          \* the cards of the page
          MaxTakeDowns    \* bound: changes of the listing's status by others

\* The fields of the cards, in groups.
Fields == [basics |-> {"title"}, location |-> {"pin"}, details |-> {"rooms"},
           rules |-> {"house"}, pricing |-> {"mode", "rates", "seasons"}]

ASSUME EditPageAssumption == Cards \subseteq DOMAIN Fields /\ MaxTakeDowns \in Nat

\* What each card lets through.  The title's length is limited, its absence is not.
TitleInputs == {"old", "new", "no title"}
\* A cleared coordinate is none, any number is let through.
PinInputs == {"old", "none", "off the map"}
\* A cleared count is 1 and a cleared pool none; a typed 0 goes out.
RoomInputs == {"old", "one", "zero"}
\* Cleared quiet hours are none, a cleared check-in time is sent as an empty string.
HouseInputs == {"old", "no quiet hours", "no check-in time"}
\* The acknowledgment is asked for on the spot, and may be left unticked.
ModeInputs == {"old", "instant", "instant unacknowledged"}
\* A cleared holiday rate is none, a cleared weekday rate is 0.
RateInputs == {"old", "no holiday rate", "no weekday rate"}
\* A season is added blank; an overlap is shown and can be sent all the same.
SeasonInputs == {"old", "new", "overlapping", "blank"}

Inputs(g) == CASE g = "title" -> TitleInputs [] g = "pin" -> PinInputs
               [] g = "rooms" -> RoomInputs  [] g = "house" -> HouseInputs
               [] g = "mode" -> ModeInputs   [] g = "rates" -> RateInputs
               [] g = "seasons" -> SeasonInputs

\* What the schemas of the cards refuse.
RefusedInputs == {"no title", "off the map", "zero", "no check-in time",
            "instant unacknowledged", "no weekday rate", "blank"}

Groups == UNION {Fields[c] : c \in Cards}

\* What a card can send: its own groups, as typed.
Sendable(c) ==
  {sent \in [Fields[c] -> UNION {Inputs(g) : g \in Fields[c]}] :
     \A g \in Fields[c] : sent[g] \in Inputs(g)}

VARIABLES
  row,     \* the Listing row and its seasons
  editable,   \* whether the listing's status is one a host may edit
  takeDowns,
  saving      \* the save of each card: where it is, what it sent, what the card says

editVars == <<row, editable, takeDowns, saving>>

Resting(says, sent) == [at |-> "idle", says |-> says, sent |-> sent]
Old(groups) == [g \in groups |-> "old"]

EditInit ==
  /\ row = Old(Groups)
  /\ editable = TRUE
  /\ takeDowns = 0
  /\ saving = [c \in Cards |-> Resting("nothing", Old(Fields[c]))]

Move(c, at) == saving' = [saving EXCEPT ![c].at = at]
SaysSaved(c) == saving' = [saving EXCEPT ![c] = Resting("saved", @.sent)]
SaysError(c) == saving' = [saving EXCEPT ![c] = Resting("error", Old(Fields[c]))] /\ UNCHANGED row

-----------------------------------------------------------------------------
\* SaveCard: the values of the moment go out; what the card said before is taken back.
Save(c) ==
  /\ saving[c].at = "idle"
  /\ \E sent \in Sendable(c) :
       saving' = [saving EXCEPT ![c] = [at |-> "check", says |-> "nothing", sent |-> sent]]
  /\ UNCHANGED <<row, editable, takeDowns>>

\* The schema of the card.
Accepts(c) == \A g \in Fields[c] : saving[c].sent[g] \notin RefusedInputs

CheckSchema(c) ==
  /\ saving[c].at = "check"
  /\ IF Accepts(c) THEN Move(c, IF c = "pricing" THEN "mode" ELSE "write") /\ UNCHANGED row
                   ELSE SaysError(c)
  /\ UNCHANGED <<editable, takeDowns>>

StoreGroups(c, groups) ==
  row' = [g \in Groups |-> IF g \in groups THEN saving[c].sent[g] ELSE row[g]]

\* editOperational, for the cards saved by one statement.
WriteCard(c) ==
  /\ saving[c].at = "write" /\ c # "location"
  /\ IF editable THEN StoreGroups(c, Fields[c]) /\ SaysSaved(c) ELSE SaysError(c)
  /\ UNCHANGED <<editable, takeDowns>>

\* editLocation: the listing goes back to review, where it is no longer edited.
WriteLocation(c) ==
  /\ saving[c].at = "write" /\ c = "location"
  /\ IF editable THEN StoreGroups(c, Fields[c]) /\ SaysSaved(c) ELSE SaysError(c)
  /\ editable' = FALSE
  /\ UNCHANGED takeDowns

\* editPricingAction: the mode first, then the rates, then the seasons.
WritePart(c, part, next) ==
  /\ saving[c].at = part
  /\ IF editable THEN StoreGroups(c, {part}) /\ Move(c, next) ELSE SaysError(c)
  /\ UNCHANGED <<editable, takeDowns>>

\* Mutant: seasons that overlap are left out and the save goes on.
WriteSeasonsOrSkip(c) ==
  /\ saving[c].at = "seasons"
  /\ IF editable
     THEN /\ IF saving[c].sent["seasons"] = "overlapping" THEN UNCHANGED row
                                                       ELSE StoreGroups(c, {"seasons"})
          /\ SaysSaved(c)
     ELSE SaysError(c)
  /\ UNCHANGED <<editable, takeDowns>>

WriteSeasons(c) ==
  /\ saving[c].at = "seasons"
  /\ IF editable /\ saving[c].sent["seasons"] # "overlapping"
     THEN StoreGroups(c, {"seasons"}) /\ SaysSaved(c)
     ELSE SaysError(c)
  /\ UNCHANGED <<editable, takeDowns>>

\* The listing's status moves under the page: a review, an admin.
StatusMoves ==
  /\ takeDowns < MaxTakeDowns
  /\ editable' = ~editable
  /\ takeDowns' = takeDowns + 1
  /\ UNCHANGED <<row, saving>>

\* The page is loaded again.
LoadPage ==
  /\ \A c \in Cards : saving[c].at = "idle"
  /\ saving' = [c \in Cards |-> Resting("nothing", Old(Fields[c]))]
  /\ UNCHANGED <<row, editable, takeDowns>>

EditNext ==
  \/ \E c \in Cards : \/ Save(c) \/ CheckSchema(c) \/ WriteCard(c) \/ WriteLocation(c)
                      \/ WritePart(c, "mode", "rates") \/ WritePart(c, "rates", "seasons")
                      \/ WriteSeasons(c)
  \/ StatusMoves \/ LoadPage

EditSpec == EditInit /\ [][EditNext]_editVars

-----------------------------------------------------------------------------
\* A card that says saved has stored all it sent, though its parts are written one by
\* one while the listing's status moves and other cards are saved (edit-form.tsx).
SavedMeansStored ==
  \A c \in Cards : saving[c].says = "saved" => \A g \in Fields[c] : row[g] = saving[c].sent[g]
=============================================================================
