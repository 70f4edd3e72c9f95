------------------------------- MODULE MCHost -------------------------------
(***************************************************************************)
(* The pages a host works on: the wizard that makes a listing, the page that*)
(* edits it, the list of questions and answers, and the prices and the     *)
(* calendar that come of it.  Each is checked alone: a                     *)
(* behaviour is one component's, and the rest of the state keeps its       *)
(* initial value.  The wizard is checked twice: with two photos and calls  *)
(* that cross but no documents, and with one call at a time, one photo,    *)
(* the documents and late saves.                                           *)
(***************************************************************************)
EXTENDS Wizard, EditPage, Faq, Catalogue, TLC

\* Three nights, the second a weekend night and the eve of a holiday on the third;
\* seasons that are disjoint, equal or overlapping in two saves, or overlap in one;
\* rates that give an uneven total.
MCStays == {<<0, 1>>, <<1, 3>>}
MCSeason(a, b) == [first |-> a, last |-> b, weekday |-> 17, weekend |-> 19, row |-> 0]
MCOneRate == [weekday |-> 11, weekend |-> 14, holiday |-> 23, included |-> 1, fee |-> 3]
MCOtherRate == [weekday |-> 12, weekend |-> 16, holiday |-> NoRate, included |-> 2, fee |-> 5]
MCForms ==
  {[mode |-> "REQUEST", rates |-> MCOneRate, list |-> {MCSeason(0, 0)}],
   [mode |-> "INSTANT", rates |-> MCOneRate, list |-> {MCSeason(1, 2)}],
   [mode |-> "INSTANT", rates |-> MCOtherRate, list |-> {MCSeason(0, 1)}],
   [mode |-> "REQUEST", rates |-> MCOtherRate, list |-> {MCSeason(0, 1), MCSeason(1, 2)}]}

\* The admins are alike.
MCSymmetry == Permutations(FaqAdmins)

VARIABLE alone      \* the component whose behaviour this is

HostVars == <<alone, wizardVars, editVars, faqVars, catVars>>

HostInit ==
  /\ alone \in {"photos", "steps", "edit", "faq", "catalogue"}
  /\ WizardInit /\ EditInit /\ FaqInit /\ CatalogueInit
  /\ alone # "catalogue" => villa.rates = MCOtherRate

\* What a wizard's behaviour is about.
Photographing == store'.docs = {} /\ late' = {} /\ \A i \in Ops : op'[i].kind # "document"
OneByOne == op'[2] = Idle /\ store'.photos[2] = Absent

HostNext ==
  /\ UNCHANGED alone
  /\ \/ alone = "photos" /\ WizardNext /\ Photographing /\ UNCHANGED <<editVars, faqVars, catVars>>
     \/ alone = "steps" /\ WizardNext /\ OneByOne /\ UNCHANGED <<editVars, faqVars, catVars>>
     \/ alone = "edit" /\ EditNext /\ UNCHANGED <<wizardVars, faqVars, catVars>>
     \/ alone = "faq" /\ FaqNext /\ UNCHANGED <<wizardVars, editVars, catVars>>
     \/ alone = "catalogue" /\ CatalogueNext /\ UNCHANGED <<wizardVars, editVars, faqVars>>

HostSpec == HostInit /\ [][HostNext]_HostVars
=============================================================================
