----------------------------- MODULE Concierge -----------------------------
(***************************************************************************)
(* The AI concierge of one signed-in guest: the chat panel, the streaming  *)
(* route behind it with its caps on messages, tokens and money, the model  *)
(* and tool loop, and the transcript.  The guest may have the villa's chat *)
(* open in several panels; a scoped chat resumes the session of the day,   *)
(* so that they share one.  The route reads its caps, saves and counts in  *)
(* statements of their own, and two calls interleave between any of them.  *)
(*                                                                         *)
(* What is said is left out.  A model response costs one unit of tokens,   *)
(* ends the turn, calls a tool (which may return a card) or stops for some *)
(* other reason; confirming a draft and submitting it are in Stays.        *)
(***************************************************************************)
EXTENDS Naturals, Sequences, FiniteSets

CONSTANTS
  Panels,            \* chat panels of the guest, each with one call at a time
  MAX_ITERATIONS,    \* model responses in one turn
  DailyLimit,        \* CONCIERGE_DAILY_MSG_LIMIT
  TokenCeiling,      \* tokens of a session
  Budget,            \* CONCIERGE_BUDGET_SATANG
  Rate,              \* units of tokens that cost a satang
  MaxRows            \* bound: rows of the transcript

ASSUME ConciergeAssumption ==
  /\ IsFiniteSet(Panels)
  /\ MAX_ITERATIONS \in Nat \ {0} /\ Rate \in Nat \ {0}
  /\ DailyLimit \in Nat \ {0} /\ TokenCeiling \in Nat \ {0} /\ Budget \in Nat \ {0}
  /\ MaxRows \in Nat

VARIABLES
  panel,       \* what each ConciergeChat shows
  turn,        \* the route's call for each panel
  transcript,  \* ConciergeMessage rows, oldest first
  usage        \* the ConciergeUsage rows, added up

conVars == <<panel, turn, transcript, usage>>

NoTurn == [at |-> "idle"]
Fresh == [loading |-> FALSE, bubble |-> "none", text |-> FALSE, answers |-> 0, error |-> FALSE]

ConciergeInit ==
  /\ panel = [p \in Panels |-> Fresh]
  /\ turn = [p \in Panels |-> NoTurn]
  /\ transcript = <<>>
  /\ usage = [tokens |-> 0, satang |-> 0]

Said(role) == Cardinality({i \in DOMAIN transcript : transcript[i].role = role})

-----------------------------------------------------------------------------
(* The panel                                                                 *)

\* sendMessage: nothing while a turn runs.
SendMessage(p) ==
  /\ ~panel[p].loading /\ turn[p] = NoTurn
  /\ panel' = [panel EXCEPT ![p].loading = TRUE, ![p].bubble = "streaming", ![p].text = FALSE,
                            ![p].error = FALSE]
  /\ turn' = [turn EXCEPT ![p] = [at |-> "post"]]
  /\ UNCHANGED <<transcript, usage>>

\* The error event, or a failed fetch: what is streaming disappears.
ShowError(p) ==
  panel' = [panel EXCEPT ![p].loading = FALSE, ![p].bubble = "none", ![p].text = FALSE, ![p].error = TRUE]

\* The done event.
ShowDone(p) ==
  panel' = [panel EXCEPT ![p].loading = FALSE, ![p].bubble = "shown",
                         ![p].answers = IF panel[p].text THEN @ + 1 ELSE @]

-----------------------------------------------------------------------------
(* The caps (cost.ts)                                                        *)

\* computeCostSatang: rounded half up, for each turn by itself.
ComputeCostSatang(tokens) == (2 * tokens + Rate) \div (2 * Rate)

IsKillSwitchActive == usage.satang >= Budget

\* Mutant: one message more than the limit.
DailyLimitOff == Said("user") > DailyLimit

IsDailyLimitReached == Said("user") >= DailyLimit

IsTokenCeilingReached == usage.tokens >= TokenCeiling

\* logUsage: counted once the turn is over.
LogUsage(tokens) ==
  usage' = [tokens |-> usage.tokens + tokens, satang |-> usage.satang + ComputeCostSatang(tokens)]

-----------------------------------------------------------------------------
(* The route, until the model is called                                      *)

\* Not suspended, under the budget and the daily cap; the session is the guest's own.
Admit(p) ==
  /\ turn[p].at = "post"
  /\ IF IsKillSwitchActive \/ IsDailyLimitReached
     THEN turn' = [turn EXCEPT ![p] = NoTurn] /\ ShowError(p)
     ELSE turn' = [turn EXCEPT ![p].at = "session"] /\ UNCHANGED panel
  /\ UNCHANGED <<transcript, usage>>

CheckCeiling(p) ==
  /\ turn[p].at = "session"
  /\ IF IsTokenCeilingReached
     THEN turn' = [turn EXCEPT ![p] = NoTurn] /\ ShowError(p)
     ELSE turn' = [turn EXCEPT ![p].at = "save"] /\ UNCHANGED panel
  /\ UNCHANGED <<transcript, usage>>

SaveMessage(role, p) == transcript' = Append(transcript, [role |-> role, panel |-> p])

SaveUserMessage(p) ==
  /\ turn[p].at = "save" /\ Len(transcript) < MaxRows
  /\ SaveMessage("user", p)
  /\ turn' = [turn EXCEPT ![p].at = "history"]
  /\ UNCHANGED <<panel, usage>>

\* Mutant: every row goes to the model.
HistoryWithCards(rows) == {rows[i] : i \in DOMAIN rows}

\* The rows that go to the model, in the order they have.
History(rows) == {rows[i] : i \in {j \in DOMAIN rows : rows[j].role \in {"user", "assistant"}}}

BuildHistory(p) ==
  /\ turn[p].at = "history"
  /\ turn' = [turn EXCEPT ![p] =
       [at |-> "model", context |-> History(transcript), n |-> 0, text |-> FALSE, cards |-> 0]]
  /\ UNCHANGED <<panel, transcript, usage>>

-----------------------------------------------------------------------------
(* The turn (agent.ts)                                                       *)

\* end_turn: the text streams to the panel; the loop ends.
EndTurn(p) ==
  /\ turn[p].at = "model"
  /\ turn' = [turn EXCEPT ![p].at = "persist", ![p].n = @ + 1, ![p].text = TRUE]
  /\ panel' = [panel EXCEPT ![p].text = TRUE]
  /\ UNCHANGED <<transcript, usage>>

\* tool_use: the tools run, a card streams to the panel, and the model is asked again
\* unless the loop has run out.
UseTool(p, card) ==
  /\ turn[p].at = "model"
  /\ turn' = [turn EXCEPT ![p].at = IF turn[p].n + 1 < MAX_ITERATIONS THEN "model" ELSE "persist",
                          ![p].n = @ + 1, ![p].cards = @ + card]
  /\ UNCHANGED <<panel, transcript, usage>>

\* Any other stop reason ends the loop, without a text.
StopOtherwise(p) ==
  /\ turn[p].at = "model"
  /\ turn' = [turn EXCEPT ![p].at = "persist", ![p].n = @ + 1]
  /\ UNCHANGED <<panel, transcript, usage>>

-----------------------------------------------------------------------------
(* The route, after the model                                                *)

\* Mutant: the panel is told before the answer is saved.
SaveAnswerAfterDone(p) ==
  /\ turn[p].at = "persist"
  /\ turn' = [turn EXCEPT ![p].at = "cards"]
  /\ ShowDone(p)
  /\ UNCHANGED <<transcript, usage>>

SaveAnswer(p) ==
  /\ turn[p].at = "persist"
  /\ IF turn[p].text THEN Len(transcript) < MaxRows /\ SaveMessage("assistant", p)
                     ELSE UNCHANGED transcript
  /\ turn' = [turn EXCEPT ![p].at = "cards"]
  /\ UNCHANGED <<panel, usage>>

SaveCard(p) ==
  /\ turn[p].at = "cards" /\ turn[p].cards > 0 /\ Len(transcript) < MaxRows
  /\ SaveMessage("card", p)
  /\ turn' = [turn EXCEPT ![p].cards = @ - 1]
  /\ UNCHANGED <<panel, usage>>

FinishTurn(p) ==
  /\ turn[p].at = "cards" /\ turn[p].cards = 0
  /\ LogUsage(turn[p].n)
  /\ ShowDone(p)
  /\ turn' = [turn EXCEPT ![p] = NoTurn]
  /\ UNCHANGED transcript

\* The model or a statement throws: an error event, and no usage is logged.
TurnFails(p) ==
  /\ turn[p].at \in {"model", "persist", "cards"}
  /\ turn' = [turn EXCEPT ![p] = NoTurn]
  /\ ShowError(p)
  /\ UNCHANGED <<transcript, usage>>

\* The server stops: the stream ends without an event, and the bubble goes on
\* streaming though nothing is loading.
StreamBreaks(p) ==
  /\ turn[p] # NoTurn
  /\ turn' = [turn EXCEPT ![p] = NoTurn]
  /\ \/ turn[p].at \in {"model", "persist", "cards"} /\ panel' = [panel EXCEPT ![p].loading = FALSE]
     \/ turn[p].at \in {"post", "session", "save", "history"} /\ ShowError(p)
  /\ UNCHANGED <<transcript, usage>>

-----------------------------------------------------------------------------
ConciergeNext ==
  \E p \in Panels :
    \/ SendMessage(p) \/ Admit(p) \/ CheckCeiling(p) \/ SaveUserMessage(p) \/ BuildHistory(p)
    \/ EndTurn(p) \/ StopOtherwise(p) \/ \E card \in {0, 1} : UseTool(p, card)
    \/ SaveAnswer(p) \/ SaveCard(p) \/ FinishTurn(p) \/ TurnFails(p) \/ StreamBreaks(p)

ConciergeSpec == ConciergeInit /\ [][ConciergeNext]_conVars

-----------------------------------------------------------------------------
(* Properties                                                                *)

\* The caps are read before they are used, so calls at work together overshoot them,
\* but never by more than one message, one turn's tokens and one turn's cost each
\* (cost.ts; a failed turn is not counted at all).
CapsHold ==
  LET n == Cardinality(Panels) IN
  /\ Said("user") <= DailyLimit + n - 1
  /\ usage.tokens <= TokenCeiling - 1 + n * MAX_ITERATIONS
  /\ usage.satang <= Budget - 1 + n * ComputeCostSatang(MAX_ITERATIONS)

\* The model is always given the question it is to answer, and never a card, which
\* may hold a payment QR (chat/route.ts, AC#4), however the calls of one session mix.
ModelReadsItsQuestion ==
  \A p \in Panels : turn[p].at = "model" =>
    /\ [role |-> "user", panel |-> p] \in turn[p].context
    /\ \A row \in turn[p].context : row.role # "card"

\* Each answer the guest was told is complete is in the transcript, so that it is
\* there again when the panel is reopened and in what the model reads next.
ShownIsSaved ==
  \A p \in Panels :
    panel[p].answers <= Cardinality({i \in DOMAIN transcript : transcript[i] = [role |-> "assistant", panel |-> p]})

\* One conversation in several panels: bounded in what it costs, the model and the
\* transcript in step with what the guest saw.
ConciergeInv == CapsHold /\ ModelReadsItsQuestion /\ ShownIsSaved
=============================================================================
