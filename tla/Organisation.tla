---------------------------- MODULE Organisation ----------------------------
(***************************************************************************)
(* Divisions, lobbies and devices as the administrators keep them           *)
(* (device.service.js, lobby.service.js, division.service.js, the disabling *)
(* of agents), and the device that registers itself.                        *)
(*                                                                          *)
(* One row is followed: a device, a lobby or a division.  A request loads   *)
(* the row, judges it, and updates it in a second query, which writes the   *)
(* columns that differ from the copy.  A device names its lobby and its     *)
(* division in two columns; a lobby never changes its division, so when its *)
(* row is read does not matter.  What follows the update (a reload, a row   *)
(* of the audit log, a log line of an agent) changes none of these rows.    *)
(***************************************************************************)
EXTENDS FiniteSets

CONSTANTS
  Division,
  Lobby,
  DivisionOf,     \* lobbies.division_id
  AdminRequest,   \* requests in flight at a time
  Keep            \* a column the body of the request leaves out

ASSUME OrganisationConstantsAssumption ==
  /\ DivisionOf \in [Lobby -> Division]
  /\ Keep \notin Division
  /\ Keep \notin Lobby
  /\ "SUPER_ADMIN" \notin Division

VARIABLES
  entity,    \* what the row is
  row,       \* the row; is_active of a device, status of a lobby or a division
  editing,   \* the requests
  link       \* history: how the device came into its lobby and its division

organisationVars == <<entity, row, editing, link>>

(* "judged": by a request that checked that they fit; "registered": by a device
   that nobody checked; "crossed": by a request over a link changed since it was
   checked. *)
Origin == {"judged", "registered", "crossed"}

Rows == [there : BOOLEAN, division : Division, lobby : Lobby, enabled : BOOLEAN]

(* What a request sets, and whether the link has changed since it was loaded. *)
Changes == [division : Division \cup {Keep}, lobby : Lobby \cup {Keep}, enabled : {TRUE, FALSE, Keep}]

Edit == [stage : {"idle", "write", "delete"}, change : Changes, stale : BOOLEAN]

Nothing == [division |-> Keep, lobby |-> Keep, enabled |-> Keep]

Admin == {"SUPER_ADMIN"} \cup Division

Finished == [stage |-> "idle", change |-> Nothing, stale |-> FALSE]

NoEdit(r) == editing[r] = Finished

OrganisationInit ==
  /\ entity \in {"device", "lobby", "division"}
  /\ row \in Rows
  /\ link \in {"judged", "registered"}
  /\ link = "judged" => DivisionOf[row.lobby] = row.division
  /\ editing = [r \in AdminRequest |-> Finished]

(* The division administrator of another division is refused. *)
Permitted(admin, division) == admin \in {"SUPER_ADMIN", division}

Given(new, old) == IF new = Keep THEN old ELSE new

(* Mutant of FinalLobby: the lobby the device is in. *)
FinalLobbyOfRow(w, change) == w.lobby

FinalLobby(w, change) == Given(change.lobby, w.lobby)

FinalDivision(w, change) == Given(change.division, w.division)

(* ensureLobbyBelongsToDivision *)
Linked(w, change) == DivisionOf[FinalLobby(w, change)] = FinalDivision(w, change)

(* A row that is there and enabled; a second one of its name is refused by an
   index. *)
InsertRow(new, origin) ==
  /\ ~row.there
  /\ \A r \in AdminRequest : NoEdit(r)
  /\ new.there /\ new.enabled
  /\ row' = new
  /\ link' = origin
  /\ UNCHANGED <<entity, editing>>

(* createDeviceForUser, createLobbyForUser, createDivision *)
CreateRow(admin, new) ==
  /\ Permitted(admin, new.division)
  /\ Linked(new, Nothing)
  /\ InsertRow(new, "judged")

(* registerMonitoringDevice: a device that is not found names its division and
   its lobby, which are written as they come.  One that is found keeps its own. *)
RegisterDevice(new) ==
  /\ entity = "device"
  /\ InsertRow(new, "registered")

(* update() of Sequelize writes the columns that differ from the copy. *)
Differing(change) == [column \in DOMAIN change |-> IF change[column] = row[column] THEN Keep ELSE change[column]]

(* The row is loaded, and the request is judged by the copy. *)
LoadRow(r, admin, change, stage) ==
  /\ NoEdit(r)
  /\ row.there
  /\ Permitted(admin, row.division)
  /\ editing' = [editing EXCEPT ![r] = [stage |-> stage, change |-> Differing(change), stale |-> FALSE]]
  /\ UNCHANGED <<entity, row, link>>

(* updateDeviceForUser: the lobby and the division the device will have must
   fit each other, and the division must be the administrator's. *)
UpdateDevice(r, admin, change) ==
  /\ entity = "device"
  /\ change # Nothing
  /\ Linked(row, change)
  /\ Permitted(admin, FinalDivision(row, change))
  /\ LoadRow(r, admin, change, "write")

(* disableDeviceForUser, reactivateDeviceForUser: also those of an agent. *)
SetDeviceActive(r, admin, enabled) ==
  /\ entity = "device"
  /\ LoadRow(r, admin, [Nothing EXCEPT !.enabled = enabled], "write")

DeleteDevice(r, admin) ==
  /\ entity = "device"
  /\ LoadRow(r, admin, Nothing, "delete")

(* updateLobbyForUser, disableLobbyForUser: the division is not in the body. *)
UpdateLobby(r, admin, enabled) ==
  /\ entity = "lobby"
  /\ LoadRow(r, admin, [Nothing EXCEPT !.enabled = enabled], "write")

(* updateDivision is the super administrator's. *)
UpdateDivision(r, enabled) ==
  /\ entity = "division"
  /\ LoadRow(r, "SUPER_ADMIN", [Nothing EXCEPT !.enabled = enabled], "write")

UpdatedRow(change) ==
  [row EXCEPT !.division = Given(change.division, @),
              !.lobby = Given(change.lobby, @),
              !.enabled = Given(change.enabled, @)]

SetsLink(change) == change.division # Keep \/ change.lobby # Keep

(* The update; there may be no such row any more. *)
WriteRow(r) ==
  LET change == editing[r].change IN
  /\ editing[r].stage = "write"
  /\ row' = IF row.there THEN UpdatedRow(change) ELSE row
  /\ link' = IF row.there /\ SetsLink(change)
               THEN IF editing[r].stale THEN "crossed" ELSE "judged"
               ELSE link
  /\ editing' = [q \in AdminRequest |->
                    IF q = r THEN Finished
                    ELSE [editing[q] EXCEPT !.stale = @ \/ (~NoEdit(q) /\ SetsLink(change))]]
  /\ UNCHANGED entity

DeleteRow(r) ==
  /\ editing[r].stage = "delete"
  /\ row' = [row EXCEPT !.there = FALSE]
  /\ editing' = [editing EXCEPT ![r] = Finished]
  /\ UNCHANGED <<entity, link>>

(* A query throws: a database error, or a name that is taken. *)
EditFails(r) ==
  /\ ~NoEdit(r)
  /\ editing' = [editing EXCEPT ![r] = Finished]
  /\ UNCHANGED <<entity, row, link>>

OrganisationNext ==
  \/ \E admin \in Admin, new \in Rows : CreateRow(admin, new)
  \/ \E new \in Rows : RegisterDevice(new)
  \/ \E r \in AdminRequest :
       \/ \E admin \in Admin :
            \/ \E change \in Changes : UpdateDevice(r, admin, change)
            \/ \E enabled \in BOOLEAN : SetDeviceActive(r, admin, enabled) \/ UpdateLobby(r, admin, enabled)
            \/ DeleteDevice(r, admin)
       \/ \E enabled \in BOOLEAN : UpdateDivision(r, enabled)
       \/ WriteRow(r)
       \/ DeleteRow(r)
       \/ EditFails(r)

OrganisationSpec == OrganisationInit /\ [][OrganisationNext]_organisationVars

-----------------------------------------------------------------------------
(* Properties *)

OrganisationTypeOK ==
  /\ entity \in {"device", "lobby", "division"}
  /\ row \in Rows
  /\ editing \in [AdminRequest -> Edit]
  /\ link \in Origin

(***************************************************************************)
(* The two columns are checked against a copy of the row and written one by *)
(* one, as they differ; still a device that a judged request has put where  *)
(* it is, is in a lobby of its division, as long as no other request had    *)
(* changed either column since the check.                                   *)
(***************************************************************************)
DeviceLinked ==
  entity = "device" /\ row.there /\ link = "judged" => DivisionOf[row.lobby] = row.division

(***************************************************************************)
(* What patch() of device.controller.js:146 tells the administrator, that   *)
(* "lobby_id must belong to division_id": a device put where it is by       *)
(* requests that check it is in a lobby of its division.  False of the      *)
(* code: of two requests, each judged by the same copy, one moves the       *)
(* device to another division, the other to another lobby of the old one.   *)
(***************************************************************************)
DeviceInItsDivision ==
  entity = "device" /\ row.there /\ link # "registered" => DivisionOf[row.lobby] = row.division

=============================================================================
