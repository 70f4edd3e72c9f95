------------------------------ MODULE MCOutbox ------------------------------
(***************************************************************************)
(* Outbox on two small instances: two servers whose ticks overlap on the   *)
(* rows of one call, to a user with both addresses; and one server whose   *)
(* batch is shared by the emails of two calls, to a user without LINE, of  *)
(* an essential and of an optional group, with no reminder due and no lost *)
(* answers.                                                                *)
(***************************************************************************)
EXTENDS Outbox, TLC

VARIABLE setting      \* which of the two this behaviour is

First == CHOOSE i \in Instances : TRUE
Works(i) == setting = "overlap" \/ i = First

MCInit ==
  /\ OutboxInit
  /\ setting \in {"overlap", "batch"}
  /\ address = IF setting = "overlap" THEN Channels ELSE {EMAIL}

MCNext ==
  /\ UNCHANGED setting
  /\ OutboxNext
  /\ \A i \in Instances : tick'[i] # tick[i] => Works(i)
  /\ \A c \in Calls : notice'[c] # notice[c] => setting = "batch" \/ c = 1
  /\ \A i \in Instances : tick'[i].at = "claim" => setting = "overlap"
  /\ \A r \in Rows : delivered'[r] # delivered[r] => setting = "overlap" \/ row'[r].status = "SENT"
  /\ prefs' # prefs /\ address' = address => \A g \in Groups :
       prefs'[g].line = IF setting = "overlap" THEN prefs'["optional"].email ELSE "on"

mcVars == <<outVars, setting>>

\* A call runs on unless the server stops; the tick of a server at work comes every
\* minute, its drivers answer, and now and then a tick runs to its end.
MCSpec ==
  /\ MCInit /\ [][MCNext]_mcVars
  /\ \A c \in Calls : WF_mcVars(UNCHANGED setting /\ Sends(c))
  /\ \A i \in Instances :
       /\ WF_mcVars(UNCHANGED setting /\ Works(i) /\ Ticks(i))
       /\ SF_mcVars(UNCHANGED setting /\ Works(i) /\ SweepEnds(i))
       /\ SF_mcVars(UNCHANGED setting /\ Works(i) /\ Claims(i))
=============================================================================
