------------------------------ MODULE Accounts ------------------------------
(***************************************************************************)
(* One consumer's account: the phone verification (lib/otp and its form),  *)
(* the guard every action starts with, and the deletion of the account     *)
(* (lib/account).  The person may have several tabs open; the calls of two *)
(* tabs interleave between their statements, and the deletion of one tab   *)
(* meets the calls another has in flight.                                  *)
(*                                                                         *)
(* A code is known by the row it was made for.  A guess is the code of a   *)
(* message that was delivered, or a wrong one.  The rows that refer to the *)
(* person are told apart by their foreign key.  A tied row (a booking, a   *)
(* message, a rating...) refuses to let the user row go; a loose one is    *)
(* left without its person (a report, SET NULL) or goes with the user row  *)
(* (a strike, a hold, CASCADE).                                            *)
(***************************************************************************)
EXTENDS Naturals, Sequences, FiniteSets

CONSTANTS
  Tabs,
  Phones,          \* valid Thai mobile numbers the person types
  MAX_ATTEMPTS,
  MaxCodes,        \* bound: codes made
  MaxFootprint     \* bound: bookings, messages, reports... made

ASSUME AccountsAssumption ==
  /\ IsFiniteSet(Tabs) /\ IsFiniteSet(Phones)
  /\ MAX_ATTEMPTS \in Nat \ {0} /\ MaxCodes \in Nat /\ MaxFootprint \in Nat

VARIABLES
  account,     \* the User row
  codes,       \* PhoneOtp rows, in the order of their creation
  footprint,   \* rows that refer to the user, tied or loose; and, kept for the properties,
               \* the loose ones written since a deletion counted (late) and those that
               \* lost their person (lost)
  phoneForm,     \* step of VerifyPhoneForm in each tab
  call,        \* the server call of each tab
  guessed      \* how often each code was compared with a guess (kept for the properties)

accountVars == <<account, codes, footprint, phoneForm, call, guessed>>

NoPhone == "none"
Kinds == {"tied", "loose"}
Wrong == 0         \* a guess that is no code
NoCall == [at |-> "idle"]

AccountsInit ==
  /\ account = [exists |-> TRUE, deleted |-> FALSE, phone |-> NoPhone, verified |-> FALSE]
  /\ codes = <<>>
  /\ footprint = [tied |-> 0, loose |-> 0, late |-> 0, lost |-> 0]
  /\ phoneForm = [t \in Tabs |-> "phone"]
  /\ call = [t \in Tabs |-> NoCall]
  /\ guessed = [k \in 1..MaxCodes |-> 0]

\* requireUser, read before anything else in a call.
RequireUser == account.exists /\ ~account.deleted

Step(t, r) == call' = [call EXCEPT ![t] = r]
Return(t) == Step(t, NoCall)

Live(k) == ~codes[k].gone
Newest(S) == IF S = {} THEN 0 ELSE CHOOSE k \in S : \A j \in S : j <= k
ActiveCodes == {k \in DOMAIN codes : Live(k) /\ ~codes[k].consumed}
\* deadRowFilter
Dead(k) == codes[k].age = "expired" \/ codes[k].consumed

-----------------------------------------------------------------------------
(* Sending a code (requestPhoneOtp)                                          *)

\* The send and resend buttons.
SendCode(t, phone) ==
  /\ call[t] = NoCall /\ phoneForm[t] # "done"
  /\ RequireUser
  /\ Step(t, [at |-> "cooldown", phone |-> phone])
  /\ UNCHANGED <<account, codes, footprint, phoneForm, guessed>>

Purged == [k \in DOMAIN codes |-> [codes[k] EXCEPT !.gone = @ \/ Dead(k)]]

\* Dead rows go; a code of the last minute refuses another.
CheckCooldown(t) ==
  /\ call[t].at = "cooldown"
  /\ codes' = Purged
  /\ LET latest == Newest({k \in DOMAIN codes : ~Purged[k].gone})
     IN IF latest # 0 /\ codes[latest].age = "new"
        THEN Return(t)
        ELSE Step(t, [call[t] EXCEPT !.at = "create"])
  /\ UNCHANGED <<account, footprint, phoneForm, guessed>>

\* The row, when there is still a user it can belong to.
CreateCode(t) ==
  /\ call[t].at = "create"
  /\ IF account.exists
     THEN /\ Len(codes) < MaxCodes
          /\ codes' = Append(codes, [phone |-> call[t].phone, age |-> "new", attempts |-> 0,
                                     consumed |-> FALSE, gone |-> FALSE, delivered |-> FALSE])
          /\ Step(t, [at |-> "sms", code |-> Len(codes) + 1])
     ELSE Return(t) /\ UNCHANGED codes
  /\ UNCHANGED <<account, footprint, phoneForm, guessed>>

\* The message is sent and the form asks for the code.
SmsSent(t) ==
  /\ call[t].at = "sms"
  /\ codes' = [codes EXCEPT ![call[t].code].delivered = TRUE]
  /\ phoneForm' = [phoneForm EXCEPT ![t] = "code"]
  /\ Return(t)
  /\ UNCHANGED <<account, footprint, guessed>>

\* The driver throws: the row stays, and its cooldown with it.
SmsFails(t) ==
  /\ call[t].at = "sms"
  /\ Return(t)
  /\ UNCHANGED <<account, codes, footprint, phoneForm, guessed>>

-----------------------------------------------------------------------------
(* Confirming it (verifyPhoneOtp)                                            *)

ConfirmCode(t, guess) ==
  /\ call[t] = NoCall /\ phoneForm[t] = "code"
  /\ RequireUser
  /\ Step(t, [at |-> "read", guess |-> guess])
  /\ UNCHANGED <<account, codes, footprint, phoneForm, guessed>>

\* The newest code not consumed; an expired one answers for the older ones too.
ReadCode(t) ==
  /\ call[t].at = "read"
  /\ LET row == Newest(ActiveCodes)
     IN IF row = 0 \/ codes[row].age = "expired"
        THEN Return(t)
        ELSE Step(t, [at |-> "count", guess |-> call[t].guess, code |-> row])
  /\ UNCHANGED <<account, codes, footprint, phoneForm, guessed>>

\* The attempt is counted; a guess within the limit is compared.
CountAndCompare(t, attempts) ==
  LET k == call[t].code
      next == IF attempts > MAX_ATTEMPTS THEN "consume"
              ELSE IF call[t].guess = k THEN "verify"
              ELSE IF attempts >= MAX_ATTEMPTS THEN "consume" ELSE "idle"
  IN /\ codes' = [codes EXCEPT ![k].attempts = attempts]
     /\ guessed' = [guessed EXCEPT ![k] = IF attempts <= MAX_ATTEMPTS THEN @ + 1 ELSE @]
     /\ IF next = "idle" THEN Return(t) ELSE Step(t, [at |-> next, code |-> k])

\* Mutant: the call adds to the count it read with the row.
CompareAsRead(t) ==
  \/ /\ call[t].at = "count" /\ "read" \notin DOMAIN call[t]
     /\ Step(t, [at |-> "count", guess |-> call[t].guess, code |-> call[t].code,
                 read |-> codes[call[t].code].attempts])
     /\ UNCHANGED <<account, codes, footprint, phoneForm, guessed>>
  \/ /\ call[t].at = "count" /\ "read" \in DOMAIN call[t] /\ Live(call[t].code)
     /\ CountAndCompare(t, call[t].read + 1)
     /\ UNCHANGED <<account, footprint, phoneForm>>

\* One atomic increment; the row may be gone, and the call fails.
Compare(t) ==
  /\ call[t].at = "count"
  /\ IF Live(call[t].code)
     THEN CountAndCompare(t, codes[call[t].code].attempts + 1)
     ELSE Return(t) /\ UNCHANGED <<codes, guessed>>
  /\ UNCHANGED <<account, footprint, phoneForm>>

Consume(t) ==
  /\ call[t].at = "consume"
  /\ codes' = IF Live(call[t].code) THEN [codes EXCEPT ![call[t].code].consumed = TRUE] ELSE codes
  /\ Return(t)
  /\ UNCHANGED <<account, footprint, phoneForm, guessed>>

\* The code is consumed and the phone written in one transaction, or neither.
MarkVerified(t) ==
  /\ call[t].at = "verify"
  /\ LET k == call[t].code
     IN IF Live(k)
        THEN /\ codes' = [codes EXCEPT ![k].consumed = TRUE]
             /\ account' = [account EXCEPT !.phone = codes[k].phone, !.verified = TRUE]
             /\ phoneForm' = [phoneForm EXCEPT ![t] = "done"]
        ELSE UNCHANGED <<account, codes, phoneForm>>
  /\ Return(t)
  /\ UNCHANGED <<footprint, guessed>>

-----------------------------------------------------------------------------
(* Leaving a footprint, and deleting the account                             *)

StartOther(t, op) ==
  /\ call[t] = NoCall
  /\ RequireUser
  /\ Step(t, [at |-> op])
  /\ UNCHANGED <<account, codes, footprint, phoneForm, guessed>>

\* A row that refers to the person, while there is one to refer to.
AddRow(kind) ==
  /\ footprint.tied + footprint.loose < MaxFootprint
  /\ LET late == IF kind = "loose" /\ \E t \in Tabs : call[t].at = "erase" THEN 1 ELSE 0
     IN footprint' = [footprint EXCEPT ![kind] = @ + 1, !.late = @ + late]

\* A booking, a message, a report... of a call that passed its guard.
WriteRow(t, kind) ==
  /\ call[t].at = "write"
  /\ IF account.exists THEN AddRow(kind) ELSE UNCHANGED footprint
  /\ Return(t)
  /\ UNCHANGED <<account, codes, phoneForm, guessed>>

\* The host's rating of a guest, a report about the person, a strike, a hold.
OthersWrite(kind) ==
  /\ account.exists /\ AddRow(kind)
  /\ UNCHANGED <<account, codes, phoneForm, call, guessed>>

\* Mutant: the count leaves the reports out.
CountWithoutReports(t) ==
  /\ call[t].at = "delete"
  /\ IF account.exists
     THEN Step(t, [at |-> "erase", hasFootprint |-> footprint.tied > 0])
     ELSE Return(t)
  /\ UNCHANGED <<account, codes, footprint, phoneForm, guessed>>

\* Both kinds are counted; a person already erased has nothing to delete.
CountFootprint(t) ==
  /\ call[t].at = "delete"
  /\ IF account.exists
     THEN Step(t, [at |-> "erase", hasFootprint |-> footprint.tied + footprint.loose > 0])
     ELSE Return(t)
  /\ UNCHANGED <<account, codes, footprint, phoneForm, guessed>>

Anonymized == [account EXCEPT !.phone = NoPhone, !.deleted = TRUE]

\* The user row goes: what referred to it loosely has lost its person.
Let(go) == IF go THEN [footprint EXCEPT !.loose = 0, !.lost = footprint.loose] ELSE footprint

\* Mutant: the codes of a person who is anonymized are left to the purge.
EraseKeepingCodes(t) ==
  /\ call[t].at = "erase"
  /\ IF account.exists /\ (call[t].hasFootprint \/ footprint.tied = 0)
     THEN /\ codes' = IF call[t].hasFootprint THEN codes
                      ELSE [k \in DOMAIN codes |-> [codes[k] EXCEPT !.gone = TRUE]]
          /\ account' = [Anonymized EXCEPT !.exists = call[t].hasFootprint]
          /\ footprint' = Let(~call[t].hasFootprint)
     ELSE UNCHANGED <<account, codes, footprint>>
  /\ Return(t)
  /\ UNCHANGED <<phoneForm, guessed>>

\* The person's codes go either way; the row is scrubbed, or goes too.  A tied row
\* written since the count makes the deletion fail, and all of it is rolled back; a
\* loose one does not.
Erase(t) ==
  /\ call[t].at = "erase"
  /\ IF account.exists /\ (call[t].hasFootprint \/ footprint.tied = 0)
     THEN /\ codes' = [k \in DOMAIN codes |-> [codes[k] EXCEPT !.gone = TRUE]]
          /\ account' = [Anonymized EXCEPT !.exists = call[t].hasFootprint]
          /\ footprint' = Let(~call[t].hasFootprint)
     ELSE UNCHANGED <<account, codes, footprint>>
  /\ Return(t)
  /\ UNCHANGED <<phoneForm, guessed>>

-----------------------------------------------------------------------------
\* A minute after it was made a code no longer blocks another; ten, and it is expired.
Ages == [new |-> "cooled", cooled |-> "expired"]
CodeAges(k) ==
  /\ codes[k].age \in DOMAIN Ages
  /\ codes' = [codes EXCEPT ![k].age = Ages[@]]
  /\ UNCHANGED <<account, footprint, phoneForm, call, guessed>>

PurgeDeadOtps ==
  /\ codes # Purged
  /\ codes' = Purged
  /\ UNCHANGED <<account, footprint, phoneForm, call, guessed>>

\* The page is loaded again: a verified phone has no form.
ReloadForm(t) ==
  /\ call[t] = NoCall /\ RequireUser
  /\ phoneForm' = [phoneForm EXCEPT ![t] = IF account.verified THEN "done" ELSE "phone"]
  /\ UNCHANGED <<account, codes, footprint, call, guessed>>

AccountsNext ==
  \/ PurgeDeadOtps
  \/ \E k \in DOMAIN codes : CodeAges(k)
  \/ \E kind \in Kinds : OthersWrite(kind)
  \/ \E t \in Tabs :
       \/ \E p \in Phones : SendCode(t, p)
       \/ CheckCooldown(t) \/ CreateCode(t) \/ SmsSent(t) \/ SmsFails(t)
       \/ \E g \in {Wrong} \cup {k \in DOMAIN codes : codes[k].delivered} : ConfirmCode(t, g)
       \/ ReadCode(t) \/ Compare(t) \/ Consume(t) \/ MarkVerified(t)
       \/ \E op \in {"write", "delete"} : StartOther(t, op)
       \/ \E kind \in Kinds : WriteRow(t, kind)
       \/ CountFootprint(t) \/ Erase(t)
       \/ ReloadForm(t)

AccountsSpec == AccountsInit /\ [][AccountsNext]_accountVars

-----------------------------------------------------------------------------
(* Properties                                                                *)

\* However the calls of several tabs interleave, no code is compared with more
\* guesses than the limit (otp.ts, the attempts column).
GuessesAreLimited == \A k \in 1..MaxCodes : guessed[k] <= MAX_ATTEMPTS

\* A deleted account has no phone, though calls that passed their guard before the
\* deletion are still running; the row of someone a tied row refers to is never erased;
\* and a report keeps its person unless it was written while a deletion had counted and
\* not yet deleted (delete.ts).
ErasureHolds ==
  /\ account.deleted => account.phone = NoPhone
  /\ ~account.exists => footprint.tied = 0
  /\ footprint.lost <= footprint.late

\* Calls of several tabs neither stretch the guesses at a code nor outlive a deletion.
AccountInv == GuessesAreLimited /\ ErasureHolds
=============================================================================
