----------------------------- MODULE MCRecords ------------------------------
(***************************************************************************)
(* The parts of the server that only work on tables and stores: overlapping *)
(* tier runs of one device, its command queue, the back office and what is  *)
(* reported of its tables.  They share no variable, so an interleaving of   *)
(* two shows nothing that each does not show alone: every behaviour of this *)
(* specification is one of one part, the others at rest in one initial      *)
(* state, and the state space is their sum instead of their product.        *)
(***************************************************************************)
EXTENDS AutoHeal, DeviceCommands, Organisation, Accounts, Forms, PublicForms, Registers,
        FormReports, FleetReports, TLC

CONSTANTS
  r1, r2,               \* runs
  x1, x2, x3, x4, x5,   \* recovery commands
  c1, c2,               \* commands
  h1, h2,               \* handlers
  d1, d2,               \* divisions
  l1, l2, l3,           \* lobbies
  a1, a2,               \* requests of the back office
  f1, f2,               \* forms
  q1, q2,               \* questions
  e1, e2,               \* submissions, as entries of a register
  s1, s2, s3,           \* submissions, as rows of a report
  u1, u2,               \* users
  v1                    \* a device

MCDivisionOf == (l1 :> d1) @@ (l2 :> d1) @@ (l3 :> d2)

MCFormOf == (q1 :> f1) @@ (q2 :> f1)

MCFormOfItem == (q1 :> f1) @@ (q2 :> f2)

MCColumn(i, isKey) == [item |-> i, isKey |-> isKey]

MCChoice ==
  {{}, {MCColumn(q1, TRUE)}, {MCColumn(q2, FALSE)}, {MCColumn(q1, TRUE), MCColumn(q2, FALSE)}}

MCFillerOf == (s1 :> u1) @@ (s2 :> u1) @@ (s3 :> u2)

MCLoggedOf == [x \in LogEntry |-> v1]

MCHealedOf == [x \in HealCommand |-> v1]

Number == (x1 :> 1) @@ (x2 :> 2) @@ (x3 :> 3) @@ (x4 :> 4) @@ (x5 :> 5)

(* One order of everything that some report lists *)
MCRank == Number @@ (c1 :> 6) @@ (c2 :> 7) @@ (e1 :> 8) @@ (e2 :> 9)
                 @@ (s1 :> 10) @@ (s2 :> 11) @@ (s3 :> 12) @@ (u1 :> 13)

(* Recovery commands are interchangeable: of those that are free, the first is
   taken. *)
FirstFreeTaken ==
  \A x \in Command : Forgotten(x) /\ queued'[x] # queued[x] =>
    \A y \in Command : Number[y] < Number[x] => ~Forgotten(y)

(* Submissions and keys matter to listings, and not to replacements, which matter
   to listings only in the columns that they leave; but each set of columns is
   there at first.  So a listing is alone, and one of them is enough. *)
RegisterMatters ==
  LET reading == {"count", "list", "answers", "listed"} IN
  /\ work'[a1].stage \in reading => work'[a2].stage = "new"
  /\ work'[a2].stage \notin reading
  /\ <<labels, answered>>' # <<labels, answered>> => work[a2].stage = "new" /\ work[a1].stage # "listed"
  /\ \A r \in {a1, a2} : Awaits(r, "new") /\ Awaits(r, "destroy")' => DOMAIN answered = {}

(* What matters to a report while it runs; nothing does when it is over.  Two
   submissions of one user matter to pages and to the cap of the export, one of
   somebody who is no crew to the others. *)
FormReportMatters ==
  /\ report.stage \notin {"done", "over"}
  /\ <<inUse, prompts>>' # <<inUse, prompts>> => report.kind = "export"
  /\ roster' # roster => report.kind = "summary"
  /\ current' # current => report.kind \in {"summary", "export"}
  /\ {s2, s3} \notin SUBSET Fills'
  /\ report'.stage # "new" =>
       /\ report'.kind \in {"users", "summary"} => s2 \notin Fills'
       /\ report'.kind = "history" => s3 \notin Fills' /\ \A f \in Fills' : filled'[f] = {q1}

(* Likewise; and only reports that have pages are given more than one row, of the
   kind that they list. *)
FleetReportMatters ==
  /\ \/ fleetReport.stage \in {"new", "queries"}
     \/ fleetReport.stage = "done" /\ HasPages /\ fleetReport.offset + PageLimit < Total
  /\ fleetReport'.kind \notin {"none", "incidents"} => \A x \in LogEntry \ {x1} : logPlace'[x] = Gone
  /\ fleetReport'.kind \notin {"none", "autoheal"} => \A x \in HealCommand \ {c1} : heals'[x] = "absent"
  /\ fleetReport'.kind = "autoheal" => logPlace'[x1] = Gone
  /\ fleetReport'.kind = "incidents" => heals'[c1] = "absent"

VARIABLE part

(* The parts at rest *)
Resting ==
  /\ part # "heal" => UNCHANGED healVars
  /\ part # "commands" => UNCHANGED commandVars
  /\ part # "organisation" => UNCHANGED organisationVars
  /\ part # "accounts" => UNCHANGED accountVars
  /\ part # "forms" => UNCHANGED formVars
  /\ part # "public" => UNCHANGED publicFormVars
  /\ part # "registers" => UNCHANGED registerVars
  /\ part # "form reports" => UNCHANGED formReportVars
  /\ part # "fleet reports" => UNCHANGED fleetVars
  /\ UNCHANGED part

(* A part that rests does so in one of its initial states. *)
RecordsInit ==
  /\ part \in {"heal", "commands", "organisation", "accounts", "forms", "public", "registers",
               "form reports", "fleet reports"}
  /\ HealInit
  /\ CommandInit
  /\ OrganisationInit
  /\ part # "organisation" =>
       /\ entity = "device" /\ link = "judged"
       /\ row = CHOOSE w \in Rows : DivisionOf[w.lobby] = w.division
  /\ AccountInit
  /\ part # "accounts" => account.status = "NONE"
  /\ FormsInit
  /\ part # "forms" => drafted = {} /\ Live = {}
  /\ PublicFormsInit
  /\ part # "public" =>
       users = {} /\ \A t \in PublicAttempt : attempt[t].content = CHOOSE c \in Content : TRUE
  /\ RegisterInit
  /\ part # "registers" => columns = {} /\ \A i \in Item : labels[i] = NoLabel
  /\ FormReportInit
  /\ current = f1
  /\ roster = {u1}
  /\ \A q \in Asking : q = q1 \/ part # "form reports" => prompts[q] = CHOOSE p \in Prompt : TRUE
  /\ FleetInit
  /\ part # "fleet reports" => \A d \in FleetDevice : placed[d] = l1

RecordsNext ==
  \/ part = "heal" /\ HealNext /\ FirstFreeTaken /\ Resting
  \/ part = "commands" /\ CommandNext /\ Resting
  \/ part = "organisation" /\ OrganisationNext /\ Resting
  \/ part = "accounts" /\ AccountNext /\ Resting
  \/ part = "forms" /\ FormsNext /\ Resting
  \/ part = "public" /\ PublicFormsNext /\ Resting
  \/ part = "registers" /\ RegisterNext /\ RegisterMatters /\ Resting
  \/ part = "form reports" /\ FormReportNext /\ FormReportMatters /\ Resting
  \/ part = "fleet reports" /\ FleetNext /\ FleetReportMatters /\ Resting

recordsVars ==
  <<part, healVars, commandVars, organisationVars, accountVars, formVars, publicFormVars, registerVars,
    formReportVars, fleetVars>>

RecordsSpec == RecordsInit /\ [][RecordsNext]_recordsVars /\ CommandFairness /\ FormsFairness

=============================================================================
