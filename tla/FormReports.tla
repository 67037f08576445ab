---------------------------- MODULE FormReports ----------------------------
(***************************************************************************)
(* What is read out of the submissions of forms (forms.controller.js): the  *)
(* history of a user, the list of users, the summary, and the export with   *)
(* its preview.  The forms are those of one staff and duty type, one sheet  *)
(* of an export; the submissions, those within the dates asked for; neither *)
(* a search nor a status is asked for.  A history is a page of submissions, *)
(* the list a page of users.  The list and the export are about users with  *)
(* the role USER, and so are those that the summary calls participants; the *)
(* rest of it is about everybody, for anyone can submit on the public page. *)
(*                                                                          *)
(* A report writes nothing, so one is modelled, and what others do while it *)
(* runs.  It is several queries and no transaction: each sees what is       *)
(* committed when it runs, and those of one Promise.all (findAndCountAll    *)
(* counts and reads that way too) run in any order.  A figure is modelled   *)
(* by the submissions that are counted or listed in it.                     *)
(***************************************************************************)
EXTENDS Pages

CONSTANTS
  Fill,        \* submissions
  FillerOf,    \* the user of each
  Crew,        \* users with the role USER
  Asking,      \* questions
  SheetOf,     \* the form of each
  Prompt,
  ExportCap    \* FORMS_EXPORT_MAX_ROWS

ASSUME FormReportConstantsAssumption ==
  /\ Fill = DOMAIN FillerOf
  /\ Asking = DOMAIN SheetOf
  /\ IsFiniteSet(Fill) /\ Fill \subseteq DOMAIN Rank
  /\ Crew \subseteq {FillerOf[f] : f \in Fill} /\ Crew \subseteq DOMAIN Rank
  /\ ExportCap \in Nat

Filler == {FillerOf[f] : f \in Fill}

Sheet == {SheetOf[q] : q \in Asking}

VARIABLES
  filled,    \* the submissions there are, and the questions each answers
  inUse,     \* questions that are not deleted
  prompts,   \* Question.prompt
  current,   \* the form with is_active
  roster,    \* users that are ACTIVE
  report     \* the report

formReportVars == <<filled, inUse, prompts, current, roster, report>>

recordVars == <<filled, inUse, prompts, current, roster>>

(* by_staff_duty, submissions_by_date and by_staff_duty_by_date are one figure,
   "groups". *)
Queries(kind) ==
  CASE kind = "history" -> {"count", "rows"}
    [] kind = "users" -> {"rows"}
    [] kind = "summary" -> {"totals", "groups", "forms", "participation"}
    [] kind = "export" -> {"rows", "columns"}

ReportKind == {"history", "users", "summary", "export"}

FigureName == {"count", "rows", "totals", "groups", "forms"}

Fills == DOMAIN filled

Written(by) == {f \in Fills : FillerOf[f] \in by}

Columned(q) == q \in inUse /\ SheetOf[q] = current

(* A report: what it still asks, whom it is about, and where the page of a     *)
(* history begins; the submissions of its figures; the users it counts; the answers it has loaded, with the prompts   *)
(* of their questions, and the columns of the sheet.  And, for the properties: *)
(* the submissions there were when it began, and the questions that changed,   *)
(* or came and went with their form, since.                                    *)
ReportState ==
  [stage : {"new", "count", "queries", "done", "over"},
   kind : ReportKind,
   open : SUBSET UNION {Queries(kind) : kind \in ReportKind},
   of : SUBSET Filler,
   offset : Offsets,
   figure : [FigureName -> SUBSET Fill],
   active : SUBSET Filler,
   submitters : SUBSET Filler,
   loaded : SUBSET (Fill \X Asking \X Prompt),
   columns : SUBSET Prompt,
   before : SUBSET Fill,
   touched : SUBSET Asking]

NewReport ==
  [stage |-> "new", kind |-> "users", open |-> {}, of |-> {}, offset |-> 0,
   figure |-> [x \in FigureName |-> {}], active |-> {}, submitters |-> {}, loaded |-> {}, columns |-> {}, before |-> {}, touched |-> {}]

FormReportInit ==
  /\ filled = [f \in {} |-> {}]
  /\ inUse = Asking
  /\ prompts \in [Asking -> Prompt]
  /\ current \in Sheet
  /\ roster \in SUBSET Filler
  /\ report = NewReport

-----------------------------------------------------------------------------
(* Reports *)

(* The query of the request is parsed, and the user of a history found. *)
BeginReport(kind, by, offset) ==
  /\ report.stage = "new"
  /\ report' = [NewReport EXCEPT
                  !.stage = IF kind = "export" THEN "count" ELSE "queries",
                  !.kind = kind, !.open = Queries(kind), !.of = by, !.offset = offset,
                  !.before = Written(by)]
  /\ UNCHANGED recordVars

BeginHistory(u, offset) == BeginReport("history", {u}, offset)

BeginUsers(offset) == BeginReport("users", Page(Crew, offset), 0)

BeginSummary == BeginReport("summary", Filler, 0)

BeginExport == BeginReport("export", Crew, 0)

Refused(rows) == Cardinality(rows) > ExportCap

(* fetchAnalyticsExportSourceData counts first. *)
CountExport ==
  /\ report.stage = "count"
  /\ report' = IF Refused(Written(report.of)) THEN [NewReport EXCEPT !.stage = "over"]
                ELSE [report EXCEPT !.stage = "queries"]
  /\ UNCHANGED recordVars

(* A query is answered, with the last of them the report. *)
Answers(query, new) ==
  /\ report.stage = "queries"
  /\ query \in report.open
  /\ report' = [new EXCEPT !.open = report.open \ {query},
                           !.stage = IF report.open = {query} THEN "done" ELSE "queries"]
  /\ UNCHANGED recordVars

(* Mutant of ByForm: the forms that are not active are left out. *)
ByFormActive == {f \in Fills : \E q \in filled[f] : SheetOf[q] = current}

(* by_form: each form that has submissions *)
ByForm == Fills

Figure(query) ==
  /\ query \in FigureName \ {"rows"}
  /\ Answers(query, [report EXCEPT !.figure[query] = IF query = "forms" THEN ByForm ELSE Written(report.of)])

(* Whether the answer to a question is loaded: an export leaves out those to
   deleted questions. *)
Loads(f, q) == q \in filled[f] /\ (report.kind = "export" => q \in inUse)

(* The rows of a history are a page. *)
RowsFound ==
  IF report.kind = "history" THEN Page(Written(report.of), report.offset) ELSE Written(report.of)

ReadRows ==
  LET rows == RowsFound IN
  Answers("rows",
    [report EXCEPT !.figure["rows"] = rows,
                   !.loaded = UNION {{<<f, q, prompts[q]>> : q \in {p \in Asking : Loads(f, p)}} : f \in rows}])

(* active_users_with_submission_count *)
Submitters == {FillerOf[f] : f \in Fills} \cap roster \cap Crew

(* One statement counts the users and those among them with a submission. *)
Participation == Answers("participation", [report EXCEPT !.active = roster \cap Crew, !.submitters = Submitters])

(* Mutant of ColumnPrompts: the columns are asked of the forms that are not
   active. *)
ColumnPromptsOld == {prompts[q] : q \in {p \in inUse : SheetOf[p] # current}}

(* The columns of a sheet: the prompts of the active form, each once. *)
ColumnPrompts == {prompts[q] : q \in {p \in Asking : Columned(p)}}

ReadColumns == Answers("columns", [report EXCEPT !.columns = ColumnPrompts])

ReportFails ==
  /\ report.stage \in {"count", "queries"}
  /\ report' = [NewReport EXCEPT !.stage = "over"]
  /\ UNCHANGED recordVars

(* The questions whose answers stand for a prompt in the row of a submission:
   the last of them is shown. *)
Cell(f, p) == {q \in Asking : <<f, q, p>> \in report.loaded}

-----------------------------------------------------------------------------
(* What others do meanwhile *)

Touch(questions) ==
  report' = IF report.stage = "new" THEN report ELSE [report EXCEPT !.touched = @ \cup questions]

(* createSubmissionWithAnswers commits. *)
SubmissionCommits(f, answers) ==
  /\ f \notin Fills
  /\ answers # {}
  /\ answers \subseteq inUse
  /\ \A p, q \in answers : SheetOf[p] = SheetOf[q]
  /\ filled' = [x \in Fills \cup {f} |-> IF x = f THEN answers ELSE filled[x]]
  /\ UNCHANGED <<inUse, prompts, current, roster, report>>

QuestionDeleted(q) ==
  /\ q \in inUse
  /\ inUse' = inUse \ {q}
  /\ Touch({q})
  /\ UNCHANGED <<filled, prompts, current, roster>>

PromptChanged(q, p) ==
  /\ q \in inUse
  /\ prompts[q] # p
  /\ prompts' = [prompts EXCEPT ![q] = p]
  /\ Touch({q})
  /\ UNCHANGED <<filled, inUse, current, roster>>

(* publishTemplate commits. *)
FormPublished(s) ==
  /\ s # current
  /\ current' = s
  /\ Touch({q \in Asking : SheetOf[q] \in {s, current}})
  /\ UNCHANGED <<filled, inUse, prompts, roster>>

(* approveUser, deactivateUser *)
StatusChanged(u) ==
  /\ roster' = IF u \in roster THEN roster \ {u} ELSE roster \cup {u}
  /\ UNCHANGED <<filled, inUse, prompts, current, report>>

-----------------------------------------------------------------------------

FormReportNext ==
  \/ \E offset \in Offsets : BeginUsers(offset) \/ \E u \in Filler : BeginHistory(u, offset)
  \/ BeginSummary
  \/ BeginExport
  \/ CountExport
  \/ \E query \in FigureName : Figure(query)
  \/ ReadRows
  \/ Participation
  \/ ReadColumns
  \/ ReportFails
  \/ \E f \in Fill, answers \in SUBSET Asking : SubmissionCommits(f, answers)
  \/ \E q \in Asking : QuestionDeleted(q) \/ \E p \in Prompt : PromptChanged(q, p)
  \/ \E s \in Sheet : FormPublished(s)
  \/ \E u \in Filler : StatusChanged(u)

FormReportSpec == FormReportInit /\ [][FormReportNext]_formReportVars

-----------------------------------------------------------------------------

FormReportTypeOK ==
  /\ Fills \subseteq Fill
  /\ filled \in [Fills -> SUBSET Asking]
  /\ inUse \subseteq Asking
  /\ prompts \in [Asking -> Prompt]
  /\ current \in Sheet
  /\ roster \subseteq Filler
  /\ report \in ReportState

(* Every figure of a report has the submissions there were when it began, and  *)
(* only what there is by its end, whatever the order of its queries: figures    *)
(* that should add up differ at most by what was submitted while it ran, also   *)
(* when a form was replaced or a user deactivated meanwhile.  The page of a     *)
(* history has at least those that were not before it when the report began and *)
(* are not behind it by the end.  And of the participants the summary counts    *)
(* those who had submitted when it began.                                       *)
(* (fetchSubmissionHistoryPage, listUsersSubmissionAnalytics,                   *)
(* getSubmissionAnalyticsSummary and the export)                                *)
ReportsBracketed ==
  report.stage = "done" =>
    /\ \A query \in Queries(report.kind) \cap FigureName :
         /\ report.figure[query] \subseteq Written(report.of)
         /\ \A f \in report.before :
              \/ f \in report.figure[query]
              \/ /\ report.kind = "history" /\ query = "rows"
                 /\ \/ Place(f, report.before) < report.offset
                    \/ Place(f, Written(report.of)) >= report.offset + PageLimit
    /\ report.kind = "summary" =>
         /\ report.submitters \subseteq report.active
         /\ \A f \in report.before : FillerOf[f] \in report.active => FillerOf[f] \in report.submitters

(* An export, whose rows and columns are two queries, shows for each listed     *)
(* submission an answer under the prompt of each question it answers, if the    *)
(* question is in use on the active form and was so, under this prompt, since   *)
(* the export began; and of the submissions there were then, it lists no more   *)
(* than the limit.  (fetchAnalyticsExportSourceData,                            *)
(* buildAnalyticsExportPreviewWorkbook, exportSubmissionAnalyticsXlsx)          *)
ExportShows ==
  report.stage = "done" /\ report.kind = "export" =>
    /\ \A f \in report.figure["rows"] : \A q \in filled[f] \ report.touched :
         Columned(q) =>
           /\ prompts[q] \in report.columns
           /\ Cell(f, prompts[q]) # {}
    /\ Cardinality(report.figure["rows"] \cap report.before) <= ExportCap

=============================================================================
