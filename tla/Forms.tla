------------------------------- MODULE Forms -------------------------------
(***************************************************************************)
(* The forms of one staff and duty type (forms.controller.js,               *)
(* formSubmission.service.js): publishing them, editing their questions,    *)
(* and the submissions of users who are logged in.                          *)
(*                                                                          *)
(* A submission and a publication are transactions, each on a connection of *)
(* the pool (config/sequelize.js).  What a transaction writes is seen when  *)
(* it commits; the rows it locks or updates are its own until then.  Other  *)
(* queries take a connection for their own duration.                        *)
(***************************************************************************)
EXTENDS Naturals, FiniteSets

CONSTANTS
  Form,         \* forms of one staff and duty type
  Question,
  FormOf,       \* the form of a question
  FormRequest,  \* requests, each made once
  PoolSize      \* connections of the pool

ASSUME FormConstantsAssumption ==
  /\ FormOf \in [Question -> Form]
  /\ PoolSize \in Nat \ {0}

VARIABLES
  drafted,   \* the forms there are
  active,    \* those with is_active; an index allows one
  asked,     \* the questions
  visit      \* the requests

formVars == <<drafted, active, asked, visit>>

QuestionState == {"absent", "optional", "required", "deleted"}

Live == {q \in Question : asked[q] \in {"optional", "required"}}

Required == {q \in Question : asked[q] = "required"}

(* A request: what it does and waits for; the forms it knows (the one it      *)
(* publishes, fills in or extends); whether that form was active when loaded; *)
(* the forms and the questions it has locked; the questions it has read; and  *)
(* those it answers, or changes.                                              *)
VisitState ==
  [operation : {"none", "submit", "publish", "extend", "edit"},
   stage : {"new", "form", "questions", "lock", "insert", "others", "commit", "default", "write", "over"},
   forms : SUBSET Form,
   wasActive : BOOLEAN,
   formLocks : SUBSET Form,
   questionLocks : SUBSET Question,
   read : SUBSET Question,
   chosen : SUBSET Question,
   change : QuestionState]

NewVisit ==
  [operation |-> "none", stage |-> "new", forms |-> {}, wasActive |-> FALSE, formLocks |-> {},
   questionLocks |-> {}, read |-> {}, chosen |-> {}, change |-> "absent"]

OverVisit(r) == [NewVisit EXCEPT !.operation = visit[r].operation, !.stage = "over"]

FormsInit ==
  /\ drafted \in SUBSET Form
  /\ active \in {a \in SUBSET drafted : \A f, g \in a : f = g}
  /\ asked \in [Question -> {"absent", "optional", "required"}]
  /\ \A q \in Live : FormOf[q] \in drafted
  /\ visit = [r \in FormRequest |-> NewVisit]

Doing(r, operation, stage) == visit[r].operation = operation /\ visit[r].stage = stage

Reach(r, new) == visit' = [visit EXCEPT ![r] = new]

InTransaction(r) == visit[r].operation \in {"submit", "publish"} /\ visit[r].stage \notin {"new", "over"}

Connections == {r \in FormRequest : InTransaction(r)}

(* A query outside of a transaction, or a new transaction, finds a connection. *)
ConnectionFree == Cardinality(Connections) < PoolSize

FormLocked(r, f) == \E o \in FormRequest \ {r} : f \in visit[o].formLocks

QuestionLocked(r, q) == \E o \in FormRequest \ {r} : q \in visit[o].questionLocks

-----------------------------------------------------------------------------
(* Submissions (submitTodayAnswers) *)

SubmitBegin(r) ==
  /\ Doing(r, "none", "new")
  /\ ConnectionFree
  /\ Reach(r, [NewVisit EXCEPT !.operation = "submit", !.stage = "form"])
  /\ UNCHANGED <<drafted, active, asked>>

(* getActiveFormByContext is not given the transaction: it takes a connection
   of its own. *)
SubmitForm(r) ==
  /\ Doing(r, "submit", "form")
  /\ ConnectionFree
  /\ Reach(r, IF active = {} THEN OverVisit(r)
               ELSE [visit[r] EXCEPT !.stage = "questions", !.forms = active])
  /\ UNCHANGED <<drafted, active, asked>>

(* Mutant of AcquireTimesOut: the pool is asked to wait for ever. *)
AcquireTimesOutNever(r) == FALSE /\ UNCHANGED formVars

(* The pool gives up after a minute: the error rolls the transaction back. *)
AcquireTimesOut(r) ==
  /\ Doing(r, "submit", "form")
  /\ ~ConnectionFree
  /\ Reach(r, OverVisit(r))
  /\ UNCHANGED <<drafted, active, asked>>

(* loadOrderedFormQuestions FOR UPDATE begins: the rows it will see ... *)
SubmitRead(r) ==
  /\ Doing(r, "submit", "questions")
  /\ Reach(r, [visit[r] EXCEPT !.stage = "lock", !.read = {q \in Live : FormOf[q] \in visit[r].forms}])
  /\ UNCHANGED <<drafted, active, asked>>

(* Mutant of LockedBy: the questions are read without a lock. *)
LockedByNobody(r) == {}

(* Those that are still there when it has waited for their locks. *)
LockedBy(r) == visit[r].read \cap Live

(* ... and it is answered when they are free; validateAndNormalizeAnswers: at
   least one answer, to questions that are asked, all the required ones. *)
SubmitValidate(r, answers) ==
  LET questions == visit[r].read \cap Live IN
  /\ Doing(r, "submit", "lock")
  /\ \A q \in questions : ~QuestionLocked(r, q)
  /\ Reach(r, IF answers # {} /\ answers \subseteq questions /\ questions \cap Required \subseteq answers
               THEN [visit[r] EXCEPT !.stage = "insert", !.chosen = answers, !.questionLocks = LockedBy(r)]
               ELSE OverVisit(r))
  /\ UNCHANGED <<drafted, active, asked>>

(* createSubmissionWithAnswers and the commit *)
SubmitCommit(r) ==
  /\ Doing(r, "submit", "insert")
  /\ Reach(r, OverVisit(r))
  /\ UNCHANGED <<drafted, active, asked>>

-----------------------------------------------------------------------------
(* Templates *)

CreateTemplate(f) ==
  /\ f \notin drafted
  /\ drafted' = drafted \cup {f}
  /\ UNCHANGED <<active, asked, visit>>

PublishBegin(r, f) ==
  /\ Doing(r, "none", "new")
  /\ ConnectionFree
  /\ Reach(r, [NewVisit EXCEPT !.operation = "publish", !.stage = "lock", !.forms = {f}])
  /\ UNCHANGED <<drafted, active, asked>>

(* Mutant of TemplateLock: the template is read without a lock. *)
TemplateLockNone(r) == {}

TemplateLock(r) == visit[r].forms

(* The template is locked, and known as it is now. *)
PublishLock(r) ==
  /\ Doing(r, "publish", "lock")
  /\ \A f \in visit[r].forms : ~FormLocked(r, f)
  /\ Reach(r, IF visit[r].forms \subseteq drafted
               THEN [visit[r] EXCEPT !.stage = "others", !.wasActive = (visit[r].forms \subseteq active),
                                      !.formLocks = TemplateLock(r)]
               ELSE OverVisit(r))
  /\ UNCHANGED <<drafted, active, asked>>

(* All the other forms of the types are updated, active or not. *)
PublishOthers(r) ==
  /\ Doing(r, "publish", "others")
  /\ \A f \in drafted \ visit[r].forms : ~FormLocked(r, f)
  /\ Reach(r, [visit[r] EXCEPT !.stage = "commit", !.formLocks = @ \cup (drafted \ visit[r].forms)])
  /\ UNCHANGED <<drafted, active, asked>>

(* Two publications that wait for each other: the database ends one. *)
PublishDeadlock(r) ==
  /\ Doing(r, "publish", "others")
  /\ \E o \in FormRequest \ {r} :
       Doing(o, "publish", "others") /\ visit[o].formLocks # {} /\ visit[r].formLocks # {}
  /\ Reach(r, OverVisit(r))
  /\ UNCHANGED <<drafted, active, asked>>

(* The template is written only if it was not active when it was loaded; a form
   made active since the others were updated refuses it; then the commit. *)
PublishCommit(r) ==
  LET p == visit[r]
      others == active \ (p.formLocks \ p.forms)
  IN
  /\ Doing(r, "publish", "commit")
  /\ p.wasActive \/ \A f \in p.forms : ~FormLocked(r, f)
  /\ active' = IF p.wasActive THEN others ELSE IF others \subseteq p.forms THEN p.forms ELSE active
  /\ Reach(r, OverVisit(r))
  /\ UNCHANGED <<drafted, asked>>

-----------------------------------------------------------------------------
(* Questions *)

(* createQuestion: getOrCreateActiveForm looks for the active form ... *)
LookForActiveForm(r) ==
  /\ Doing(r, "none", "new")
  /\ ConnectionFree
  /\ Reach(r, [NewVisit EXCEPT !.operation = "extend", !.stage = IF active = {} THEN "default" ELSE "insert",
                               !.forms = active])
  /\ UNCHANGED <<drafted, active, asked>>

(* ... and makes one where there is none; an index refuses a second one, and
   the one that was first is taken. *)
CreateDefaultForm(r, f) ==
  /\ Doing(r, "extend", "default")
  /\ ConnectionFree
  /\ IF active = {}
       THEN /\ f \notin drafted
            /\ drafted' = drafted \cup {f}
            /\ active' = {f}
       ELSE f \in active /\ UNCHANGED <<drafted, active>>
  /\ Reach(r, [visit[r] EXCEPT !.stage = "insert", !.forms = {f}])
  /\ UNCHANGED asked

(* createTemplateQuestion: the template that is named *)
FindTemplate(r, f) ==
  /\ Doing(r, "none", "new")
  /\ ConnectionFree
  /\ f \in drafted
  /\ Reach(r, [NewVisit EXCEPT !.operation = "extend", !.stage = "insert", !.forms = {f}])
  /\ UNCHANGED <<drafted, active, asked>>

InsertQuestion(r, q, need) ==
  /\ Doing(r, "extend", "insert")
  /\ ConnectionFree
  /\ asked[q] = "absent"
  /\ FormOf[q] \in visit[r].forms
  /\ asked' = [asked EXCEPT ![q] = need]
  /\ Reach(r, OverVisit(r))
  /\ UNCHANGED <<drafted, active>>

(* updateQuestion, deleteQuestion and their template forms: the question is
   loaded ... *)
FindQuestion(r, q, change) ==
  /\ Doing(r, "none", "new")
  /\ ConnectionFree
  /\ q \in Live
  /\ Reach(r, [NewVisit EXCEPT !.operation = "edit", !.stage = IF asked[q] = change THEN "over" ELSE "write",
                               !.chosen = {q}, !.change = change])
  /\ UNCHANGED <<drafted, active, asked>>

(* ... and written when its lock is free, if the change differs from what was
   loaded; a question that is deleted stays so. *)
WriteQuestion(r) ==
  /\ Doing(r, "edit", "write")
  /\ ConnectionFree
  /\ \A q \in visit[r].chosen : ~QuestionLocked(r, q)
  /\ asked' = [q \in Question |-> IF q \in visit[r].chosen \cap Live THEN visit[r].change ELSE asked[q]]
  /\ Reach(r, OverVisit(r))
  /\ UNCHANGED <<drafted, active>>

(* A query fails: the transaction is rolled back and the request ends. *)
FormRequestFails(r) ==
  /\ visit[r].stage \notin {"new", "over"}
  /\ Reach(r, OverVisit(r))
  /\ UNCHANGED <<drafted, active, asked>>

-----------------------------------------------------------------------------

(* What follows a request that was begun. *)
Progress(r) ==
  \/ SubmitForm(r) \/ AcquireTimesOut(r) \/ SubmitRead(r)
  \/ \E answers \in SUBSET Question : SubmitValidate(r, answers)
  \/ SubmitCommit(r)
  \/ PublishLock(r) \/ PublishOthers(r) \/ PublishDeadlock(r) \/ PublishCommit(r)

FormsNext ==
  \/ \E f \in Form : CreateTemplate(f)
  \/ \E r \in FormRequest :
       \/ SubmitBegin(r)
       \/ Progress(r)
       \/ \E f \in Form : PublishBegin(r, f) \/ CreateDefaultForm(r, f) \/ FindTemplate(r, f)
       \/ LookForActiveForm(r)
       \/ \E q \in Question, need \in {"optional", "required"} : InsertQuestion(r, q, need)
       \/ \E q \in Question, change \in {"optional", "required", "deleted"} : FindQuestion(r, q, change)
       \/ WriteQuestion(r)
       \/ FormRequestFails(r)

FormsFairness == \A r \in FormRequest : WF_formVars(Progress(r))

FormsSpec == FormsInit /\ [][FormsNext]_formVars /\ FormsFairness

-----------------------------------------------------------------------------
(* Properties *)

FormsTypeOK ==
  /\ drafted \subseteq Form
  /\ active \subseteq drafted
  /\ \A f, g \in active : f = g
  /\ asked \in [Question -> QuestionState]
  /\ visit \in [FormRequest -> VisitState]

(***************************************************************************)
(* Once a form is active one is, however publications overlap, fail, or     *)
(* leave out the write of a form they found active.                         *)
(***************************************************************************)
FormStaysPublished == [][active # {} => active' # {}]_formVars

(***************************************************************************)
(* A submission, when it commits, answers every required question of its    *)
(* form, but for those added since it read them, and none that is deleted,  *)
(* whatever administrators did in between.                                  *)
(***************************************************************************)
SubmissionFits ==
  \A r \in FormRequest : Doing(r, "submit", "insert") =>
    /\ visit[r].chosen \subseteq Live
    /\ visit[r].read \cap Required \subseteq visit[r].chosen

(***************************************************************************)
(* A submission always ends, even when each connection of the pool is held  *)
(* by one that waits for a second.                                          *)
(***************************************************************************)
SubmitSettles == \A r \in FormRequest : Doing(r, "submit", "form") ~> visit[r].stage = "over"

=============================================================================
