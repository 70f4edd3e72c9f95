------------------------------ MODULE MCGuest -------------------------------
(***************************************************************************)
(* The pages and services a guest uses: the thread with the host, reviews, *)
(* the concierge's conversation and its tools, the account and its phone,  *)
(* the saved villas.  They share no row that one of them writes, so each is*)
(* checked alone: a behaviour is one component's, and the rest of the state*)
(* keeps its initial value.                                                *)
(***************************************************************************)
EXTENDS Threads, Reviews, Concierge, Accounts, Saved, Tools, TLC

MCAsks == {[in |-> 1, out |-> 3, guests |-> 2], [in |-> 1, out |-> 2, guests |-> 3]}
MCBlocks == {<<2, 2>>}
MCOther == {<<2, 3>>}

\* A block that ends on the day of arrival.
MCArrival == {<<1, 1>>}

\* The tabs of a person are alike.
MCSymmetry == Permutations(Tabs)

VARIABLE alone      \* the component whose behaviour this is

GuestVars == <<alone, thrVars, revVars, conVars, accountVars, savedVars, toolVars>>

GuestInit ==
  /\ alone \in {"threads", "reviews", "concierge", "accounts", "saved", "tools"}
  /\ ThreadsInit /\ ReviewsInit /\ ConciergeInit /\ AccountsInit /\ SavedInit /\ ToolsInit
  /\ alone # "tools" => villaRow.published /\ villaRow.mode = "REQUEST" /\ blocked = {} /\ taken = {} /\ ~bookmarked

GuestNext ==
  /\ UNCHANGED alone
  /\ \/ alone = "threads" /\ ThreadsNext /\ UNCHANGED <<revVars, conVars, accountVars, savedVars, toolVars>>
     \/ alone = "reviews" /\ ReviewsNext /\ UNCHANGED <<thrVars, conVars, accountVars, savedVars, toolVars>>
     \/ alone = "concierge" /\ ConciergeNext /\ UNCHANGED <<thrVars, revVars, accountVars, savedVars, toolVars>>
     \/ alone = "accounts" /\ AccountsNext /\ UNCHANGED <<thrVars, revVars, conVars, savedVars, toolVars>>
     \/ alone = "saved" /\ SavedNext /\ UNCHANGED <<thrVars, revVars, conVars, accountVars, toolVars>>
     \/ alone = "tools" /\ ToolsNext /\ UNCHANGED <<thrVars, revVars, conVars, accountVars, savedVars>>

GuestSpec == GuestInit /\ [][GuestNext]_GuestVars

\* What a step may never do to a thread or to a rating: only its recipient takes a
\* message off the badge, and an undisturbed write leaves the rating exact.
GuestSteps == ReadByTheRecipient /\ RatingHeals
=============================================================================
