---------------------------- MODULE PublicForms ----------------------------
(***************************************************************************)
(* Submissions of the public forms on one day (publicForm.service.js).      *)
(*                                                                          *)
(* An attempt is one transaction.  It sees what was committed before each   *)
(* of its queries; the rows it locked or inserted are its own until it is   *)
(* over, and an insert waits for one that would conflict with it.  A key is *)
(* the client's: a retry bears the key of the attempt it repeats.           *)
(***************************************************************************)
EXTENDS FiniteSets

CONSTANTS
  PublicAttempt,  \* requests, each made once
  Key,            \* idempotency keys
  Respondent,     \* the user_id a respondent gives
  Duty,           \* staff and duty types
  PublicForm,     \* forms that may be active for them
  NoForm

ASSUME PublicFormConstantsAssumption == NoForm \notin PublicForm

VARIABLES
  users,        \* the users there are
  submissions,  \* the submissions that are committed
  attempt       \* the attempts

publicFormVars == <<users, submissions, attempt>>

Content == [key : Key, user : Respondent, duty : Duty]

Submission == [key : Key, user : Respondent, duty : Duty, by : PublicAttempt]

(* What an attempt does next, the form it found, whether it holds its
   questions, and whether it holds the row of its user. *)
AttemptState ==
  [content : Content,
   stage : {"new", "look", "form", "questions", "user", "make", "duplicate", "insert", "commit",
            "created", "replay", "taken", "refused", "failed"},
   form : PublicForm \cup {NoForm},
   locked : BOOLEAN,
   holdsUser : BOOLEAN]

Answered == {"created", "replay", "taken", "refused", "failed"}

PublicFormsInit ==
  /\ users \in SUBSET Respondent
  /\ submissions = {}
  /\ attempt \in [PublicAttempt -> {s \in AttemptState : s.stage = "new" /\ s.form = NoForm /\ ~s.locked /\ ~s.holdsUser}]

Stage(t) == attempt[t].stage

Running(t) == Stage(t) \notin Answered \cup {"new"}

(* Answering ends the transaction and its locks. *)
Become(t, stage) ==
  attempt' = [attempt EXCEPT ![t].stage = stage,
                             ![t].form = IF stage \in Answered THEN NoForm ELSE @,
                             ![t].locked = @ /\ stage \notin Answered,
                             ![t].holdsUser = @ /\ stage \notin Answered]

Others(t) == {o \in PublicAttempt \ {t} : Running(o)}

Of(key, value) == {s \in submissions : s[key] = value}

UserFree(t) ==
  \A o \in Others(t) : attempt[o].holdsUser => attempt[o].content.user # attempt[t].content.user

-----------------------------------------------------------------------------

(* submitPublicForm begins once the body is parsed. *)
Arrive(t) ==
  /\ Stage(t) = "new"
  /\ Become(t, "look")
  /\ UNCHANGED <<users, submissions>>

(* A submission with that key is answered again. *)
LookForKey(t) ==
  /\ Stage(t) = "look"
  /\ Become(t, IF Of("key", attempt[t].content.key) # {} THEN "replay" ELSE "form")
  /\ UNCHANGED <<users, submissions>>

(* getActiveFormByContext: whichever is published then, or none *)
FindActiveForm(t, f) ==
  /\ Stage(t) = "form"
  /\ attempt' = [attempt EXCEPT ![t].stage = IF f = NoForm THEN "refused" ELSE "questions", ![t].form = f]
  /\ UNCHANGED <<users, submissions>>

(* Its questions are locked; answers that do not fit them are refused. *)
LockQuestions(t, fit) ==
  /\ Stage(t) = "questions"
  /\ \A o \in Others(t) : attempt[o].locked => attempt[o].form # attempt[t].form
  /\ attempt' = [attempt EXCEPT ![t].stage = IF fit THEN "user" ELSE "refused",
                                ![t].form = IF fit THEN @ ELSE NoForm,
                                ![t].locked = fit]
  /\ UNCHANGED <<users, submissions>>

(* findOrCreatePublicUser: a user who is there is locked, and may get another
   name or mobile. *)
FindUser(t) ==
  LET there == attempt[t].content.user \in users IN
  /\ Stage(t) = "user"
  /\ there => UserFree(t)
  /\ attempt' = [attempt EXCEPT ![t].stage = IF there THEN "duplicate" ELSE "make",
                                ![t].holdsUser = there]
  /\ UNCHANGED <<users, submissions>>

(* One who is not is created, after a hash.  Where another attempt was faster
   the insert is refused; the transaction is then aborted, so that the look at
   the winner is refused as well. *)
MakeUser(t) ==
  /\ Stage(t) = "make"
  /\ UserFree(t)
  /\ IF attempt[t].content.user \in users
       THEN Become(t, "failed")
       ELSE attempt' = [attempt EXCEPT ![t].stage = "duplicate", ![t].holdsUser = TRUE]
  /\ UNCHANGED <<users, submissions>>

(* Mutant of SubmittedToday: whatever the duty. *)
SubmittedTodayAnyDuty(t) == Of("user", attempt[t].content.user)

SubmittedToday(t) == Of("user", attempt[t].content.user) \cap Of("duty", attempt[t].content.duty)

RefuseDuplicate(t) ==
  /\ Stage(t) = "duplicate"
  /\ Become(t, IF SubmittedToday(t) # {} THEN "taken" ELSE "insert")
  /\ UNCHANGED <<users, submissions>>

(* createSubmissionWithAnswers waits for an insert of the same key or of the
   same user and duty.  A key that was taken meanwhile aborts the transaction,
   the look at its submission too; the daily index is answered. *)
Insert(t) ==
  LET c == attempt[t].content IN
  /\ Stage(t) = "insert"
  /\ \A o \in Others(t) : Stage(o) = "commit" =>
       /\ attempt[o].content.key # c.key
       /\ <<attempt[o].content.user, attempt[o].content.duty>> # <<c.user, c.duty>>
  /\ Become(t, IF Of("key", c.key) # {} THEN "failed"
               ELSE IF SubmittedToday(t) # {} THEN "taken" ELSE "commit")
  /\ UNCHANGED <<users, submissions>>

Commit(t) ==
  LET c == attempt[t].content IN
  /\ Stage(t) = "commit"
  /\ submissions' = submissions \cup {[key |-> c.key, user |-> c.user, duty |-> c.duty, by |-> t]}
  /\ users' = users \cup {c.user}
  /\ Become(t, "created")

(* A query fails: the transaction is rolled back. *)
AttemptFails(t) ==
  /\ Running(t)
  /\ Become(t, "failed")
  /\ UNCHANGED <<users, submissions>>

-----------------------------------------------------------------------------

PublicFormsNext ==
  \E t \in PublicAttempt :
    \/ Arrive(t) \/ LookForKey(t)
    \/ \E f \in PublicForm \cup {NoForm} : FindActiveForm(t, f)
    \/ \E fit \in BOOLEAN : LockQuestions(t, fit)
    \/ FindUser(t) \/ MakeUser(t) \/ RefuseDuplicate(t) \/ Insert(t) \/ Commit(t)
    \/ AttemptFails(t)

PublicFormsSpec == PublicFormsInit /\ [][PublicFormsNext]_publicFormVars

-----------------------------------------------------------------------------
(* Properties *)

PublicFormsTypeOK ==
  /\ users \subseteq Respondent
  /\ submissions \subseteq Submission
  /\ attempt \in [PublicAttempt -> AttemptState]

(***************************************************************************)
(* An attempt is told what happened, however attempts and retries overlap:  *)
(* created when its own submission is there, a replay when one has its key, *)
(* already submitted when that user has one for that duty, and an error or  *)
(* a refusal when it left none.                                             *)
(***************************************************************************)
AnswerTrue ==
  \A t \in PublicAttempt :
    LET c == attempt[t].content IN
    /\ Stage(t) = "created" => \E s \in submissions : s.by = t /\ s.key = c.key
    /\ Stage(t) = "replay" => Of("key", c.key) # {}
    /\ Stage(t) = "taken" => \E s \in submissions : s.user = c.user /\ s.duty = c.duty
    /\ Stage(t) \in {"failed", "refused"} => Of("by", t) = {}

(* What an attempt has been told, or whether it has looked for its key. *)
Told(stage) == IF stage \in Answered THEN stage ELSE IF stage \in {"new", "look"} THEN "nothing" ELSE "looked"

(***************************************************************************)
(* However attempts and retries overlap, wait for each other and fail, each *)
(* is answered as if it looked for its key and were then decided in one     *)
(* step.  Whose key is entered when it looks is answered a replay or fails; *)
(* one that has looked is created, with its submission entered at once,     *)
(* where its key and its duty of the day are free, is told "already         *)
(* submitted" where the duty is not, or gets an error or a refusal that     *)
(* enters nothing.  (submitPublicForm)                                      *)
(***************************************************************************)
Once == INSTANCE SubmitOnce WITH
  Request <- PublicAttempt,
  Person <- Respondent,
  asked <- [t \in PublicAttempt |-> attempt[t].content],
  ledger <- submissions,
  told <- [t \in PublicAttempt |-> Told(Stage(t))]

SubmitOnceSpec == Once!Spec

(***************************************************************************)
(* The promise of docs/public-form-integration.md (61-63) to a retry: an    *)
(* attempt is not told that its user has already submitted when what was    *)
(* submitted bears its own key.  It does not hold: a retry that looked for  *)
(* the key before the attempt it repeats committed finds the submission of  *)
(* that attempt by user and duty (250-270).                                 *)
(***************************************************************************)
RetryReplayed ==
  [][\A t \in PublicAttempt :
       attempt'[t].stage = "taken" /\ Stage(t) # "taken" =>
         Of("key", attempt[t].content.key) = {}]_publicFormVars

=============================================================================
