----------------------------- MODULE Registers -----------------------------
(***************************************************************************)
(* One register (register.service.js): the questions that are its columns,  *)
(* which a request replaces, and the submissions it lists.                  *)
(*                                                                          *)
(* A replacement is one transaction, after checks outside of it; a delete   *)
(* takes the rows there are when it begins, and waits for those another     *)
(* transaction is deleting.  A listing is three queries and no transaction: *)
(* the entries are counted, a page of them is read, and its answers are.    *)
(* A column shows the answer to its question or, where the submission is of *)
(* another form, the answer to a question with the same key.                *)
(***************************************************************************)
EXTENDS Pages

CONSTANTS
  Item,         \* questions that may be columns
  FormOfItem,   \* their forms
  Label,        \* values of Question.key
  NoLabel,
  Choice,       \* the columns a replacement may bring: items, and which are keys
  Entry,        \* submissions of forms of the register's staff and duty type, by users with
                \* the role USER, of the dates asked for
  RegisterRequest,
  First         \* whoever made the columns there are at first

ASSUME RegisterConstantsAssumption ==
  /\ Item = DOMAIN FormOfItem
  /\ NoLabel \notin Label
  (* register_id and question_id are unique. *)
  /\ \A m \in Choice : m \subseteq [item : Item, isKey : BOOLEAN] /\ \A c, d \in m : c.item = d.item => c = d
  /\ First \notin RegisterRequest
  /\ IsFiniteSet(Entry) /\ Entry \subseteq DOMAIN Rank

VARIABLES
  columns,     \* the rows of register_questions
  labels,      \* Question.key
  answered,    \* the submissions there are, and the questions each answers, not with blanks
  work,        \* the requests
  overlapped,  \* history: replacements in their transaction when another committed
  moved        \* history: listings since whose beginning a key was changed

registerVars == <<columns, labels, answered, work, overlapped, moved>>

Column == [item : Item, isKey : BOOLEAN, by : RegisterRequest \cup {First}]

(* A column of a listing, with the key its question had. *)
Heading == [item : Item, isKey : BOOLEAN, label : Label \cup {NoLabel}]

(* A request: the columns it brings, those its delete has found; the headings *)
(* it has loaded, the page it reads, the submissions it has counted out of     *)
(* those there were, those on its page, and the headings under which each of   *)
(* these shows a value.                                                        *)
WorkState ==
  [stage : {"new", "destroy", "wait", "create", "count", "list", "answers", "listed", "over"},
   brings : SUBSET Column,
   found : SUBSET Column,
   headings : SUBSET Heading,
   offset : Offsets,
   there : SUBSET Entry,
   counted : SUBSET Entry,
   rows : SUBSET Entry,
   shown : SUBSET (Entry \X Heading)]

NewWork ==
  [stage |-> "new", brings |-> {}, found |-> {}, headings |-> {}, offset |-> 0, there |-> {},
   counted |-> {}, rows |-> {}, shown |-> {}]

(* The rows of one replacement. *)
Mappings(by) == {{[item |-> c.item, isKey |-> c.isKey, by |-> by] : c \in m} : m \in Choice}

(* A form has a key once. *)
LabelsFit(l) ==
  \A i, j \in Item : i # j /\ FormOfItem[i] = FormOfItem[j] /\ l[i] # NoLabel => l[i] # l[j]

RegisterInit ==
  /\ columns \in Mappings(First)
  /\ labels \in {l \in [Item -> Label \cup {NoLabel}] : LabelsFit(l)}
  /\ answered = [e \in {} |-> {}]
  /\ work = [r \in RegisterRequest |-> NewWork]
  /\ overlapped = {}
  /\ moved = {}

Awaits(r, stage) == work[r].stage = stage

-----------------------------------------------------------------------------
(* Replacing the columns *)

(* replaceRegisterQuestions: the register and the questions are there. *)
CheckQuestions(r, m) ==
  /\ Awaits(r, "new")
  /\ work' = [work EXCEPT ![r] = [NewWork EXCEPT !.stage = "destroy", !.brings = m]]
  /\ UNCHANGED <<columns, labels, answered, overlapped, moved>>

(* Mutant of Destroyed: the columns that are replaced by others. *)
DestroyedNamed(r) == {c \in columns : \E d \in work[r].brings : d.item = c.item}

Destroyed(r) == columns

DestroyBegin(r) ==
  /\ Awaits(r, "destroy")
  /\ work' = [work EXCEPT ![r].stage = "wait", ![r].found = Destroyed(r)]
  /\ UNCHANGED <<columns, labels, answered, overlapped, moved>>

(* Rows another transaction is deleting are waited for; those it has deleted
   are skipped, and those it has put in their place are not seen. *)
DestroyEnd(r) ==
  /\ Awaits(r, "wait")
  /\ \A o \in RegisterRequest \ {r} :
       Awaits(o, "create") => work[o].found \cap work[r].found \cap columns = {}
  /\ work' = [work EXCEPT ![r].stage = "create", ![r].found = @ \cap columns]
  /\ UNCHANGED <<columns, labels, answered, overlapped, moved>>

(* bulkCreate and the commit; a row of the same question refuses it. *)
CreateAndCommit(r) ==
  LET stay == columns \ work[r].found IN
  /\ Awaits(r, "create")
  /\ columns' = IF \E c \in stay, d \in work[r].brings : c.item = d.item
                  THEN columns ELSE stay \cup work[r].brings
  /\ overlapped' = overlapped \cup {o \in RegisterRequest \ {r} : Awaits(o, "wait") \/ Awaits(o, "create")}
  /\ work' = [work EXCEPT ![r] = [NewWork EXCEPT !.stage = "over"]]
  /\ UNCHANGED <<labels, answered, moved>>

-----------------------------------------------------------------------------
(* Listing the entries *)

(* loadRegisterWithMappings, buildColumns; a question that was deleted is
   loaded as well. *)
LoadRegister(r, offset) ==
  /\ Awaits(r, "new")
  /\ work' = [work EXCEPT ![r] = [NewWork EXCEPT !.stage = "count", !.offset = offset,
       !.headings = {[item |-> c.item, isKey |-> c.isKey, label |-> labels[c.item]] : c \in columns}]]
  /\ UNCHANGED <<columns, labels, answered, overlapped, moved>>

(* Mutant of KeyHeadings: the key columns are not told from the others. *)
KeyHeadingsAll(r) == work[r].headings

KeyHeadings(r) == {h \in work[r].headings : h.isKey}

(* The entry has an answer to a question with that key, as it is now. *)
AnswersLabel(e, label) == label # NoLabel /\ \E i \in answered[e] : labels[i] = label

(* buildEntriesSql: with key columns, by their questions or their keys; without,
   by the questions of the columns alone. *)
Visible(r, e) ==
  IF KeyHeadings(r) # {}
    THEN \E h \in KeyHeadings(r) : h.item \in answered[e] \/ AnswersLabel(e, h.label)
    ELSE \E h \in work[r].headings : h.item \in answered[e]

AllVisible(r) == {e \in DOMAIN answered : Visible(r, e)}

CountRows(r) ==
  /\ Awaits(r, "count")
  /\ work' = [work EXCEPT ![r].stage = "list", ![r].there = DOMAIN answered, ![r].counted = AllVisible(r)]
  /\ UNCHANGED <<columns, labels, answered, overlapped, moved>>

ListRows(r) ==
  /\ Awaits(r, "list")
  /\ work' = [work EXCEPT ![r].stage = "answers", ![r].rows = Page(AllVisible(r), work[r].offset)]
  /\ UNCHANGED <<columns, labels, answered, overlapped, moved>>

(* resolveAnswerValue: the answer to the question, or that to the key. *)
Resolves(e, h) == h.item \in answered[e] \/ AnswersLabel(e, h.label)

(* listRegisterEntries puts the answers under the columns; the export and the
   summary are made of what it returns, for a first page that is long. *)
ListAnswers(r) ==
  /\ Awaits(r, "answers")
  /\ work' = [work EXCEPT ![r].stage = "listed",
       ![r].shown = {s \in work[r].rows \X work[r].headings : Resolves(s[1], s[2])}]
  /\ UNCHANGED <<columns, labels, answered, overlapped, moved>>

RegisterRequestFails(r) ==
  /\ work[r].stage \notin {"new", "listed", "over"}
  /\ work' = [work EXCEPT ![r] = [NewWork EXCEPT !.stage = "over"]]
  /\ UNCHANGED <<columns, labels, answered, overlapped, moved>>

-----------------------------------------------------------------------------
(* The forms *)

(* A submission answers questions of one form; its answers never change. *)
SubmissionArrives(e, items) ==
  /\ e \notin DOMAIN answered
  /\ items # {}
  /\ \A i, j \in items : FormOfItem[i] = FormOfItem[j]
  /\ answered' = [x \in DOMAIN answered \cup {e} |-> IF x = e THEN items ELSE answered[x]]
  /\ UNCHANGED <<columns, labels, work, overlapped, moved>>

(* updateQuestion *)
ChangeLabel(i, label) ==
  LET new == [labels EXCEPT ![i] = label] IN
  /\ new # labels
  /\ LabelsFit(new)
  /\ labels' = new
  /\ moved' = moved \cup {r \in RegisterRequest : work[r].stage \in {"count", "list", "answers", "listed"}}
  /\ UNCHANGED <<columns, answered, work, overlapped>>

-----------------------------------------------------------------------------

RegisterNext ==
  \/ \E r \in RegisterRequest :
       \/ \E m \in Mappings(r) : CheckQuestions(r, m)
       \/ DestroyBegin(r) \/ DestroyEnd(r) \/ CreateAndCommit(r)
       \/ \E offset \in Offsets : LoadRegister(r, offset)
       \/ CountRows(r) \/ ListRows(r) \/ ListAnswers(r)
       \/ RegisterRequestFails(r)
  \/ \E e \in Entry, items \in SUBSET Item : SubmissionArrives(e, items)
  \/ \E i \in Item, label \in Label \cup {NoLabel} : ChangeLabel(i, label)

RegisterSpec == RegisterInit /\ [][RegisterNext]_registerVars

-----------------------------------------------------------------------------
(* Properties *)

RegisterTypeOK ==
  /\ columns \subseteq Column
  /\ labels \in [Item -> Label \cup {NoLabel}]
  /\ DOMAIN answered \subseteq Entry
  /\ \A e \in DOMAIN answered : answered[e] \subseteq Item
  /\ work \in [RegisterRequest -> WorkState]
  /\ overlapped \subseteq RegisterRequest
  /\ moved \subseteq RegisterRequest

(***************************************************************************)
(* The columns of a register are those of one replacement; those of two     *)
(* stand side by side only when their transactions overlapped.              *)
(***************************************************************************)
MappingsOfOneRequest ==
  \A c, d \in columns : c.by = d.by \/ {c.by, d.by} \cap overlapped # {}

(***************************************************************************)
(* Unless a key is changed meanwhile, the three queries of a listing agree: *)
(*   - a listed submission shows a value, and under a key column if there   *)
(*     are key columns;                                                     *)
(*   - a submission there was when they were counted, and that would show   *)
(*     one under a key column, is counted; of those that were there then,   *)
(*     only counted ones are listed;                                        *)
(*   - a counted submission whose place was not before the page when they   *)
(*     were counted, and is not behind it by the end, is on it.             *)
(* (listRegisterEntries: buildEntriesSql decides in the database what       *)
(* resolveAnswerValue decides again for each column)                        *)
(***************************************************************************)
ListedEntryShows ==
  \A r \in RegisterRequest : Awaits(r, "listed") /\ r \notin moved =>
    LET keys == {h \in work[r].headings : h.isKey}
        listed == work[r].rows
        counted == work[r].counted
    IN
    /\ \A e \in listed : \E h \in IF keys = {} THEN work[r].headings ELSE keys : <<e, h>> \in work[r].shown
    /\ \A e \in work[r].there : (\E h \in keys : Resolves(e, h)) => e \in counted
    /\ listed \cap work[r].there \subseteq counted
    /\ \A e \in counted :
         /\ work[r].offset <= Place(e, counted)
         /\ Place(e, AllVisible(r)) < work[r].offset + PageLimit
         => e \in listed

=============================================================================
