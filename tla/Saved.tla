------------------------------- MODULE Saved --------------------------------
(***************************************************************************)
(* The page of saved villas: hearts that change before the server answers, *)
(* villas that leave the grid when it has, and a snackbar that puts the    *)
(* last one back.  The page's calls go to the server one after the other,  *)
(* as Next.js sends server actions; a call may be refused.                 *)
(***************************************************************************)
EXTENDS Naturals, Sequences, SequencesExt

CONSTANTS Villas

NoUndo == "none"
ASSUME SavedAssumption == IsFiniteSet(Villas) /\ NoUndo \notin Villas

VARIABLES
  savedRows,    \* villas with a SavedVilla row
  items,     \* the grid, in its order
  heart,     \* the heart of each villa in the grid, and whether its call runs
  undo,      \* the villa the snackbar offers to restore
  outgoing   \* calls of the page, the first of which is with the server

savedVars == <<savedRows, items, heart, undo, outgoing>>

FullHeart == [saved |-> TRUE, pending |-> FALSE]

\* The grid but one villa (a filter, as a function that a proof can follow).
Without(v) ==
  LET kept[n \in 0 .. Len(items)] ==
        IF n = 0 THEN <<>>
        ELSE IF items[n] = v THEN kept[n - 1] ELSE Append(kept[n - 1], items[n])
  IN  kept[Len(items)]

\* getSavedVillas: the page shows the rows there are.
SavedInit ==
  /\ savedRows = Villas
  /\ items = SetToSeq(Villas)
  /\ heart = [v \in Villas |-> FullHeart]
  /\ undo = NoUndo
  /\ outgoing = <<>>

ToggleSaveAction(v, saving, from) ==
  outgoing' = Append(outgoing, [villa |-> v, saving |-> saving, from |-> from])

\* handleClick: the heart changes at once; its button waits for the answer.
TapHeart(v) ==
  /\ v \in ToSet(items) /\ ~heart[v].pending
  /\ heart' = [heart EXCEPT ![v] = [saved |-> ~heart[v].saved, pending |-> TRUE]]
  /\ ToggleSaveAction(v, ~heart[v].saved, "heart")
  /\ UNCHANGED <<savedRows, items, undo>>

\* handleUndo: back in front, with a heart of its own.
Undo ==
  /\ undo # NoUndo
  /\ undo' = NoUndo
  /\ items' = <<undo>> \o items
  /\ heart' = [heart EXCEPT ![undo] = FullHeart]
  /\ ToggleSaveAction(undo, TRUE, "undo")
  /\ UNCHANGED savedRows

\* Four seconds.
UndoTimer ==
  /\ undo # NoUndo
  /\ undo' = NoUndo
  /\ UNCHANGED <<savedRows, items, heart, outgoing>>

\* saveVilla and unsaveVilla, which a row that is there already, or gone, does not stop;
\* an unsaved villa leaves the grid.
Answered ==
  /\ outgoing # <<>>
  /\ LET c == Head(outgoing)
         left == c.from = "heart" /\ ~c.saving
     IN /\ savedRows' = IF c.saving THEN savedRows \cup {c.villa} ELSE savedRows \ {c.villa}
        /\ heart' = IF c.from = "heart" THEN [heart EXCEPT ![c.villa].pending = FALSE] ELSE heart
        /\ items' = IF left THEN Without(c.villa) ELSE items
        /\ undo' = IF left THEN c.villa ELSE undo
  /\ outgoing' = Tail(outgoing)

\* Mutant: a refused undo leaves the villa in the grid.
RefusedKeepingItem ==
  /\ outgoing # <<>>
  /\ LET c == Head(outgoing)
     IN heart' = IF c.from = "heart"
                 THEN [heart EXCEPT ![c.villa] = [saved |-> ~c.saving, pending |-> FALSE]] ELSE heart
  /\ outgoing' = Tail(outgoing)
  /\ UNCHANGED <<savedRows, items, undo>>

\* The heart goes back; a villa that could not be restored leaves the grid again.
Refused ==
  /\ outgoing # <<>>
  /\ LET c == Head(outgoing)
     IN /\ heart' = IF c.from = "heart"
                    THEN [heart EXCEPT ![c.villa] = [saved |-> ~c.saving, pending |-> FALSE]] ELSE heart
        /\ items' = IF c.from = "undo" THEN Without(c.villa) ELSE items
  /\ outgoing' = Tail(outgoing)
  /\ UNCHANGED <<savedRows, undo>>

SavedNext ==
  \/ \E v \in Villas : TapHeart(v)
  \/ Undo \/ UndoTimer \/ Answered \/ Refused

SavedSpec == SavedInit /\ [][SavedNext]_savedVars

-----------------------------------------------------------------------------
\* Whatever was tapped, refused and undone in between: once the last answer is in, the
\* grid shows the villas that are saved, each once and with a full heart.  (So an
\* unsaved villa leaves the grid when its answer is in, as SavedGrid.tsx:41-52 has it;
\* src/PRODUCT_FLOWS.md:153 has the card stay until the page is loaded again.)
GridIsSaved ==
  outgoing = <<>> =>
    /\ ToSet(items) = savedRows /\ Len(items) = Cardinality(savedRows)
    /\ \A v \in savedRows : heart[v] = FullHeart
=============================================================================
