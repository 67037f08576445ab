---------------------------- MODULE FleetReports ----------------------------
(***************************************************************************)
(* What is read out of the records of devices (analytics.service.js and the *)
(* reading half of health.service.js): incidents, recovery commands, the    *)
(* summary, the service level, one division, lobby or device.               *)
(*                                                                          *)
(* A report is a sequence of queries and no transaction; it writes nothing, *)
(* so one is modelled, and what others do to devices while it runs.  Health *)
(* logs (and snapshots, which are written alike) keep the lobby their       *)
(* device had when they were written, and are filtered by it; recovery      *)
(* commands have no lobby and are filtered by the one their device has now. *)
(* A figure is modelled by the rows that are counted, ranked or listed in   *)
(* it; of a ranking, which come out first is left out.  Incidents and       *)
(* recovery commands are listed by pages, in the order of their times; a    *)
(* reader turns them, and each page is a request of its own.  The dates     *)
(* asked for are wide enough for all of them.                               *)
(***************************************************************************)
EXTENDS Pages, Sequences

CONSTANTS
  FleetDevice,
  FleetLobby,
  LobbyDivision,   \* the division of each lobby
  LogEntry,        \* health logs of an incident
  LoggedOf,        \* the device of each
  HealCommand,     \* commands of device_command_queue without requested_by
  HealedOf,        \* the device of each
  Assigned,        \* monitor_lobby_access of the monitor that asks
  Gone

ASSUME FleetConstantsAssumption ==
  /\ FleetLobby = DOMAIN LobbyDivision
  /\ LoggedOf \in [LogEntry -> FleetDevice]
  /\ HealedOf \in [HealCommand -> FleetDevice]
  /\ Assigned \subseteq FleetLobby
  /\ Gone \notin FleetLobby
  /\ IsFiniteSet(LogEntry)
  /\ IsFiniteSet(HealCommand)
  /\ LogEntry \cup HealCommand \subseteq DOMAIN Rank

FleetDivision == {LobbyDivision[l] : l \in FleetLobby}

VARIABLES
  placed,      \* the lobby of the row of a device
  logPlace,    \* the lobby of a log
  heals,       \* the status of a command
  fleetReport  \* the report

fleetVars == <<placed, logPlace, heals, fleetReport>>

fleetRecords == <<placed, logPlace, heals>>

(* The queries of a report, in their order: mttr reads the commands that are   *)
(* settled, failures and incidents the logs, failing the logs of the devices   *)
(* that are in the scope, ranking those of its divisions.                      *)
Plan(kind) ==
  CASE kind = "summary" -> <<"uptime", "incidents", "mttr", "failures", "devices", "commands",
                             "failing", "ranking", "devices">>
    [] kind = "sla" -> <<"uptime", "incidents", "mttr", "failures", "devices">>
    [] kind = "divisions" -> <<"ranking">>
    [] kind = "lobby" -> <<"uptime", "devices", "devices">>
    [] kind = "device" -> <<"uptime", "mttr", "incidents", "failures", "commands">>
    [] kind = "incidents" -> <<"rows", "incidents">>
    [] kind = "autoheal" -> <<"commands", "healRows", "healCount">>
    [] kind \in {"health", "lobbyHealth"} -> <<"devices">>
    [] kind = "logs" -> <<"rows">>

FleetQuery ==
  {"uptime", "incidents", "mttr", "failures", "devices", "commands", "failing", "ranking", "rows",
   "healRows", "healCount"}

(* A report: the queries that are left; the devices and the lobbies its         *)
(* filters name, and the lobbies of its divisions; the page; the rows of its    *)
(* figures; and for the property, what there was to list when the first page    *)
(* was read, what the pages have listed, and the devices that were moved or     *)
(* deleted since it began.                                                      *)
NewFleetReport ==
  [stage |-> "new", kind |-> "none", left |-> <<>>, devices |-> {}, scope |-> {}, divisions |-> {},
   offset |-> 0, figure |-> [x \in FleetQuery |-> {}], begun |-> {}, seen |-> {}, moved |-> {}]

FleetInit ==
  /\ placed \in [FleetDevice -> FleetLobby]
  /\ logPlace = [x \in LogEntry |-> Gone]
  /\ heals = [x \in HealCommand |-> "absent"]
  /\ fleetReport = NewFleetReport

-----------------------------------------------------------------------------
(* Reports *)

LobbiesOf(divisions) == {l \in FleetLobby : LobbyDivision[l] \in divisions}

(* resolveAnalyticsScope: the divisions; "any" names none.  Of another division *)
(* than his own, an administrator of a division or a monitor gets an error.     *)
ScopeDivisions(role, own, asked) ==
  IF role = "SUPER_ADMIN" THEN IF asked = "any" THEN FleetDivision ELSE {asked}
  ELSE {own} \cap IF asked = "any" THEN FleetDivision ELSE {asked}

(* The lobbies of those divisions, of a monitor those assigned to him. *)
ScopeLobbies(role, divisions) == LobbiesOf(divisions) \cap IF role = "MONITOR" THEN Assigned ELSE FleetLobby

BeginFleet(kind, devices, divisions, scope) ==
  /\ fleetReport.stage = "new"
  /\ fleetReport' =
       IF divisions = {} THEN [NewFleetReport EXCEPT !.stage = "over"]
       ELSE [NewFleetReport EXCEPT !.stage = "queries", !.kind = kind, !.left = Plan(kind),
                                   !.devices = devices, !.divisions = divisions, !.scope = scope]
  /\ UNCHANGED fleetRecords

(* A monitor is given the summary and the service level only. *)
BeginScoped(kind, role, own, asked) ==
  LET divisions == ScopeDivisions(role, own, asked) IN
  /\ kind \in {"summary", "sla", "divisions", "incidents", "autoheal"}
  /\ role = "MONITOR" => kind \in {"summary", "sla"}
  /\ BeginFleet(kind, FleetDevice, divisions, ScopeLobbies(role, divisions))

(* getHealthSummary, getHealthByDivision: userScopeWhere *)
BeginHealth(role, own) ==
  LET divisions == IF role = "SUPER_ADMIN" THEN FleetDivision ELSE {own} IN
  BeginFleet("health", FleetDevice, divisions, LobbiesOf(divisions))

(* getLobbyAnalytics (assertLobbyAccess), getLobbyHealth *)
BeginLobby(kind, role, own, l) ==
  /\ kind \in {"lobby", "lobbyHealth"}
  /\ role = "MONITOR" => kind = "lobbyHealth"
  /\ BeginFleet(kind, FleetDevice, {LobbyDivision[l]} \cap ScopeDivisions(role, own, "any"), {l})

(* getDeviceAnalytics, getDeviceLogs: the device is loaded and judged; then it
   is asked for by its id. *)
BeginDevice(kind, role, own, d) ==
  /\ kind \in {"device", "logs"}
  /\ role = "MONITOR" => kind = "logs"
  /\ placed[d] # Gone
  /\ BeginFleet(kind, {d}, {LobbyDivision[placed[d]]} \cap ScopeDivisions(role, own, "any"), FleetLobby)

(* bindScopeDl, bindScope: the logs that carry a lobby of the scope *)
LogsIn(lobbies) == {x \in LogEntry : logPlace[x] \in lobbies /\ LoggedOf[x] \in fleetReport.devices}

(* bindScopeDeviceAlias: the devices that are in a lobby of the scope *)
DevicesIn(lobbies) == {d \in fleetReport.devices : placed[d] \in lobbies}

(* The commands of those devices *)
HealsIn(lobbies, statuses) == {x \in HealCommand : HealedOf[x] \in DevicesIn(lobbies) /\ heals[x] \in statuses}

(* Mutant of CountedLogs: the count is filtered by the lobby of the device. *)
CountedLogsNow == {x \in LogEntry : logPlace[x] # Gone /\ LoggedOf[x] \in DevicesIn(fleetReport.scope)}

CountedLogs == LogsIn(fleetReport.scope)

(* The ranking of divisions names lobbies only if it has some. *)
RankedLobbies ==
  LobbiesOf(fleetReport.divisions)
    \cap IF fleetReport.scope = {} THEN FleetLobby ELSE fleetReport.scope

(* What a report that has pages lists *)
Listing ==
  IF fleetReport.kind = "incidents" THEN LogsIn(fleetReport.scope)
  ELSE HealsIn(fleetReport.scope, {"waiting", "settled"})

FleetAnswer(query) ==
  LET scope == fleetReport.scope IN
  CASE query \in {"uptime", "failures"} -> LogsIn(scope)
    [] query = "rows" -> Page(LogsIn(scope), fleetReport.offset)
    [] query = "incidents" -> CountedLogs
    [] query = "ranking" -> LogsIn(RankedLobbies)
    [] query = "failing" -> {x \in LogEntry : logPlace[x] # Gone /\ LoggedOf[x] \in DevicesIn(scope)}
    [] query = "devices" -> DevicesIn(scope)
    [] query = "mttr" -> HealsIn(scope, {"settled"})
    [] query \in {"commands", "healCount"} -> HealsIn(scope, {"waiting", "settled"})
    [] query = "healRows" -> Page(HealsIn(scope, {"waiting", "settled"}), fleetReport.offset)

HasPages == fleetReport.kind \in {"incidents", "autoheal"}

(* The first query of the first page *)
FirstRead == fleetReport.offset = 0 /\ fleetReport.left = Plan(fleetReport.kind)

FleetAsk ==
  LET query == Head(fleetReport.left)
      answer == FleetAnswer(query)
  IN
  /\ fleetReport.stage = "queries"
  /\ fleetReport' =
       [fleetReport EXCEPT !.left = Tail(@),
                           !.figure[query] = answer,
                           !.begun = IF HasPages /\ FirstRead THEN Listing ELSE @,
                           !.seen = IF HasPages /\ query \in {"rows", "healRows"} THEN @ \cup answer ELSE @,
                           !.stage = IF Len(fleetReport.left) = 1 THEN "done" ELSE @]
  /\ UNCHANGED fleetRecords

(* The total of the page *)
Total == Cardinality(fleetReport.figure[IF fleetReport.kind = "incidents" THEN "incidents" ELSE "healCount"])

(* total_pages says that there is another page, and the reader asks for it. *)
TurnPage ==
  /\ fleetReport.stage = "done"
  /\ HasPages
  /\ fleetReport.offset + PageLimit < Total
  /\ fleetReport' = [fleetReport EXCEPT !.stage = "queries", !.left = Plan(fleetReport.kind),
                                        !.offset = @ + PageLimit]
  /\ UNCHANGED fleetRecords

FleetFails ==
  /\ fleetReport.stage = "queries"
  /\ fleetReport' = [NewFleetReport EXCEPT !.stage = "over"]
  /\ UNCHANGED fleetRecords

-----------------------------------------------------------------------------
(* What others do meanwhile *)

(* logDeviceEvent, writeSnapshot *)
LogWritten(x) ==
  /\ logPlace[x] = Gone
  /\ placed[LoggedOf[x]] # Gone
  /\ logPlace' = [logPlace EXCEPT ![x] = placed[LoggedOf[x]]]
  /\ UNCHANGED <<placed, heals, fleetReport>>

HealQueued(x) ==
  /\ heals[x] = "absent"
  /\ placed[HealedOf[x]] # Gone
  /\ heals' = [heals EXCEPT ![x] = "waiting"]
  /\ UNCHANGED <<placed, logPlace, fleetReport>>

HealSettled(x) ==
  /\ heals[x] = "waiting"
  /\ heals' = [heals EXCEPT ![x] = "settled"]
  /\ UNCHANGED <<placed, logPlace, fleetReport>>

(* updateDeviceForUser moves a device. *)
DeviceMoved(d, l) ==
  /\ placed[d] \notin {Gone, l}
  /\ placed' = [placed EXCEPT ![d] = l]
  /\ fleetReport' = [fleetReport EXCEPT !.moved = @ \cup {d}]
  /\ UNCHANGED <<logPlace, heals>>

(* deleteDeviceForUser: what refers to the row goes with it. *)
DeviceDeleted(d) ==
  /\ placed[d] # Gone
  /\ placed' = [placed EXCEPT ![d] = Gone]
  /\ logPlace' = [x \in LogEntry |-> IF LoggedOf[x] = d THEN Gone ELSE logPlace[x]]
  /\ heals' = [x \in HealCommand |-> IF HealedOf[x] = d THEN "absent" ELSE heals[x]]
  /\ fleetReport' = [fleetReport EXCEPT !.moved = @ \cup {d}]

-----------------------------------------------------------------------------

FleetNext ==
  \/ \E role \in {"SUPER_ADMIN", "DIVISION_ADMIN", "MONITOR"}, own \in FleetDivision :
       \/ \E kind \in {"summary", "sla", "divisions", "incidents", "autoheal"} :
            \E asked \in FleetDivision \cup {"any"} : BeginScoped(kind, role, own, asked)
       \/ BeginHealth(role, own)
       \/ \E kind \in {"lobby", "lobbyHealth"}, l \in FleetLobby : BeginLobby(kind, role, own, l)
       \/ \E kind \in {"device", "logs"}, d \in FleetDevice : BeginDevice(kind, role, own, d)
  \/ FleetAsk
  \/ TurnPage
  \/ FleetFails
  \/ \E x \in LogEntry : LogWritten(x)
  \/ \E x \in HealCommand : HealQueued(x) \/ HealSettled(x)
  \/ \E d \in FleetDevice : DeviceDeleted(d) \/ \E l \in FleetLobby : DeviceMoved(d, l)

FleetSpec == FleetInit /\ [][FleetNext]_fleetVars

-----------------------------------------------------------------------------

(***************************************************************************)
(* Nothing is lost between pages that are read one by one (getIncidents,    *)
(* getAutoheal): when the total that came with the last of them says that   *)
(* there is no other, each incident and each recovery command that was      *)
(* there at the beginning was on one of them, whatever was added meanwhile, *)
(* wherever in the order.  Of incidents, devices may also have been moved   *)
(* meanwhile, as they keep the lobby they happened in, but none deleted; of *)
(* commands, none moved either.                                             *)
(***************************************************************************)
Steady ==
  /\ fleetReport.kind = "incidents" => \A d \in fleetReport.moved : placed[d] # Gone
  /\ fleetReport.kind = "autoheal" => fleetReport.moved = {}

PagesCover ==
  fleetReport.stage = "done" /\ HasPages /\ Total <= fleetReport.offset + PageLimit /\ Steady =>
    fleetReport.begun \subseteq fleetReport.seen

=============================================================================
