----------------------------- MODULE SubmitOnce ----------------------------
(***************************************************************************)
(* What the public forms give to those who submit, with no transaction,     *)
(* query or lock in sight (publicForm.service.js, submitPublicForm).  A     *)
(* request first looks for its key: one that is entered is answered again.  *)
(* Otherwise it is decided later, in one step, by what the ledger holds     *)
(* then.  The ledger never holds two submissions of one key, nor two of one *)
(* person for one duty.                                                     *)
(*                                                                          *)
(* docs/public-form-integration.md (61-63) promises the replay to whoever   *)
(* repeats a key.  Here it is given only to a request that comes when its   *)
(* key has been entered: one that has looked before may be told "taken", or *)
(* be refused, because of the submission it repeats.  RetryReplayed of      *)
(* PublicForms states the promise itself, which the code breaks.            *)
(***************************************************************************)
CONSTANTS
  Request,  \* requests, each made once
  Key,      \* the keys of the clients; a retry bears the key it repeats
  Person,   \* who submits
  Duty      \* for what

VARIABLES
  asked,    \* what each request submits
  ledger,   \* the submissions
  told      \* what each request was answered

submitVars == <<asked, ledger, told>>

Init ==
  /\ asked \in [Request -> [key : Key, user : Person, duty : Duty]]
  /\ ledger = {}
  /\ told = [r \in Request |-> "nothing"]

KeyTaken(r) == \E s \in ledger : s.key = asked[r].key

DayTaken(r) == \E s \in ledger : s.user = asked[r].user /\ s.duty = asked[r].duty

Tell(r, before, answer) ==
  /\ told[r] = before
  /\ told' = [told EXCEPT ![r] = answer]
  /\ UNCHANGED asked

(* The request was submitted before, under its key. *)
Replay(r) ==
  /\ KeyTaken(r)
  /\ Tell(r, "nothing", "replay")
  /\ UNCHANGED ledger

(* The key is free. *)
Look(r) ==
  /\ ~KeyTaken(r)
  /\ Tell(r, "nothing", "looked")
  /\ UNCHANGED ledger

Accept(r) ==
  /\ ~KeyTaken(r) /\ ~DayTaken(r)
  /\ ledger' = ledger \cup
       {[key |-> asked[r].key, user |-> asked[r].user, duty |-> asked[r].duty, by |-> r]}
  /\ Tell(r, "looked", "created")

(* Also when it was this request that was submitted, since it has looked. *)
RefuseSecond(r) ==
  /\ DayTaken(r)
  /\ Tell(r, "looked", "taken")
  /\ UNCHANGED ledger

(* There is no form, or the answers do not fit it. *)
TurnAway(r) ==
  /\ Tell(r, "looked", "refused")
  /\ UNCHANGED ledger

(* An error: nothing is submitted. *)
Fail(r) ==
  /\ Tell(r, "nothing", "failed") \/ Tell(r, "looked", "failed")
  /\ UNCHANGED ledger

Next ==
  \E r \in Request : Replay(r) \/ Look(r) \/ Accept(r) \/ RefuseSecond(r) \/ TurnAway(r) \/ Fail(r)

Spec == Init /\ [][Next]_submitVars

-----------------------------------------------------------------------------

(***************************************************************************)
(* Two submissions in the ledger bear different keys, and are of different  *)
(* people or for different duties.                                          *)
(***************************************************************************)
EnteredOnce ==
  \A s, q \in ledger : s # q => s.key # q.key /\ (s.user # q.user \/ s.duty # q.duty)

=============================================================================
