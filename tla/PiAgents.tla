------------------------------ MODULE PiAgents ------------------------------
(***************************************************************************)
(* Presence and status of a Raspberry Pi agent                              *)
(* (src/socket/agent.handlers.js, src/socket/monitoring.handlers.js,        *)
(* src/modules/agents/agent.service.js, src/modules/monitoring/             *)
(* monitoring.service.js, the presence part of src/socket/realtime.manager.js). *)
(*                                                                          *)
(* One device is followed: handlers of different devices share nothing but  *)
(* tables.  Its agent connects again and again, each time with a new        *)
(* socket, and old sockets linger.  A handler is cut at its queries, but    *)
(* reads that follow each other are one step.  instance.update() of         *)
(* Sequelize writes the columns that differ from the copy it was loaded     *)
(* into, so a handler that loaded ONLINE does not write ONLINE, and its      *)
(* write is no step.  An agent                                              *)
(* awaits the acknowledgement of an event before it sends the next, so a    *)
(* socket has one handler in flight, besides that of its disconnect.        *)
(***************************************************************************)
EXTENDS FiniteSets

CONSTANTS
  Socket,  \* connections of the agent, each used once
  Row,     \* rows of socket_presence
  None

ASSUME AgentConstantsAssumption ==
  /\ None \notin Socket
  /\ None \notin Row

VARIABLES
  conn,        \* the connections: "lost" while the disconnect handler runs
  registered,  \* sockets whose registration has ended well
  status,      \* devices.status
  presence,    \* socket_presence
  handling,    \* the handler of an event in flight, per socket
  leaving,     \* the disconnect handler, per socket
  found,       \* stale rows the sweep still has to handle
  keeper       \* history: the socket whose cleanup owes the device an OFFLINE

agentVars ==
  <<conn, registered, status, presence, handling, leaving, found, keeper>>

NoRow == [socket |-> None, online |-> FALSE]

(* A handler, its copy of the device's status, and what its upsert will do:
   "create" a row, "rebind" that of an older socket, or update the socket's
   own, found online ("refresh") or offline ("revive"). *)
AgentJob == [stage : {"idle", "bind", "update", "finish", "touch", "write"},
             copy : {"ONLINE", "OFFLINE"}, row : Row \cup {None},
             how : {"create", "rebind", "refresh", "revive"}]

NoJob == [stage |-> "idle", copy |-> "OFFLINE", row |-> None, how |-> "create"]

RowOf(s) == {r \in Row : presence[r].socket = s}

AgentInit ==
  /\ conn = [s \in Socket |-> "new"]
  /\ registered = {}
  /\ status = "OFFLINE"
  /\ presence = [r \in Row |-> NoRow]
  /\ handling = [s \in Socket |-> NoJob]
  /\ leaving = [s \in Socket |-> "idle"]
  /\ found = {}
  /\ keeper = None

Connect(s) ==
  /\ conn[s] = "new"
  /\ conn' = [conn EXCEPT ![s] = "open"]
  /\ UNCHANGED <<registered, status, presence, handling, leaving, found, keeper>>

-----------------------------------------------------------------------------
(* Registration: device:online, and register-agent, the older event *)

(* upsertAgentSocketPresence looks for the socket's own row, else for an
   online one of the device. *)
Lookup(s) ==
  IF RowOf(s) # {}
    THEN {[row |-> r, how |-> IF presence[r].online THEN "refresh" ELSE "revive"] : r \in RowOf(s)}
    ELSE {[row |-> r, how |-> "rebind"] : r \in {q \in Row : presence[q].online}}

(* The device is loaded and a row is looked for.  An event that the reconnect
   guard suppresses, that the rate limit refuses, or that comes from a
   disabled agent (register-agent only) changes nothing and is no step. *)
RegisterStart(s) ==
  /\ conn[s] = "open"
  /\ handling[s] = NoJob
  /\ \E x \in IF Lookup(s) # {} THEN Lookup(s) ELSE {[row |-> None, how |-> "create"]} :
       handling' = [handling EXCEPT ![s] =
                     [stage |-> "bind", copy |-> status, row |-> x.row, how |-> x.how]]
  /\ UNCHANGED <<conn, registered, status, presence, leaving, found, keeper>>

(* What the upsert makes of row r: a "refresh" writes only the time. *)
BoundRow(r, s, how) ==
  CASE how = "create"  -> [socket |-> s, online |-> TRUE]
    [] how = "rebind"  -> [presence[r] EXCEPT !.socket = s]
    [] how = "refresh" -> presence[r]
    [] how = "revive"  -> [presence[r] EXCEPT !.online = TRUE]

FreeRow == CHOOSE r \in Row : presence[r] = NoRow

(* socket_id is unique; the error of an upsert that would break it is caught. *)
BindRow(s) ==
  LET job == handling[s]
      row == IF job.how = "create" THEN FreeRow ELSE job.row
  IN
  /\ job.stage = "bind"
  /\ presence' = IF job.how \in {"create", "rebind"} /\ RowOf(s) # {}
                   THEN presence
                   ELSE [presence EXCEPT ![row] = BoundRow(row, s, job.how)]
  /\ handling' = [handling EXCEPT ![s] =
                    [NoJob EXCEPT !.stage = IF job.copy = "ONLINE" THEN "finish" ELSE "update"]]
  /\ UNCHANGED <<conn, registered, status, leaving, found, keeper>>

(* The cleanup of s has already looked at the device. *)
Late(s) == conn[s] = "gone" \/ leaving[s] = "write"

(* A write of ONLINE by s. *)
WriteOnline(s) ==
  /\ status' = "ONLINE"
  /\ keeper' = IF status = "ONLINE" THEN keeper ELSE IF Late(s) THEN None ELSE s

(* The device is set ONLINE and the event is logged. *)
RegisterUpdate(s) ==
  /\ handling[s].stage = "update"
  /\ WriteOnline(s)
  /\ handling' = [handling EXCEPT ![s] = [NoJob EXCEPT !.stage = "finish"]]
  /\ UNCHANGED <<conn, registered, presence, leaving, found>>

(* The handler marks its socket as registered, also one that is lost by now. *)
RegisterFinish(s) ==
  /\ handling[s].stage = "finish"
  /\ registered' = registered \cup {s}
  /\ handling' = [handling EXCEPT ![s] = NoJob]
  /\ UNCHANGED <<conn, status, presence, leaving, found, keeper>>

(* A query throws, and the catch clause ends the handler. *)
RegisterFails(s) ==
  /\ handling[s].stage \in {"update", "finish"}
  /\ handling' = [handling EXCEPT ![s] = NoJob]
  /\ UNCHANGED <<conn, registered, status, presence, leaving, found, keeper>>

-----------------------------------------------------------------------------
(* Heartbeats and reports *)

(* A heartbeat loads the device.  The socket need not be registered: its
   client id names the device. *)
Heartbeat(s) ==
  /\ conn[s] = "open"
  /\ handling[s] = NoJob
  /\ handling' = [handling EXCEPT ![s] = [NoJob EXCEPT !.stage = "touch", !.copy = status]]
  /\ UNCHANGED <<conn, registered, status, presence, leaving, found, keeper>>

(* So does a report of the streams, which touches no row. *)
Report(s) ==
  /\ conn[s] = "open"
  /\ handling[s] = NoJob
  /\ status = "OFFLINE"
  /\ handling' = [handling EXCEPT ![s] = [NoJob EXCEPT !.stage = "write"]]
  /\ UNCHANGED <<conn, registered, status, presence, leaving, found, keeper>>

(* Mutant of TouchRow: a touch refreshes the time only. *)
TouchRowOnlyRefreshes(r, s) == presence[r]

(* touchAgentHeartbeat: the row of the socket, if there is one, is online. *)
TouchRow(r, s) ==
  IF presence[r].socket = s THEN [presence[r] EXCEPT !.online = TRUE] ELSE presence[r]

BeatTouch(s) ==
  /\ handling[s].stage = "touch"
  /\ presence' = [r \in Row |-> TouchRow(r, s)]
  /\ handling' = [handling EXCEPT ![s] =
                    IF handling[s].copy = "ONLINE" THEN NoJob ELSE [NoJob EXCEPT !.stage = "write"]]
  /\ UNCHANGED <<conn, registered, status, leaving, found, keeper>>

(* Mutant of BeatWrite: the handler ends with the touch, and writes no status. *)
BeatWriteSeenOnly(s) ==
  /\ handling[s].stage = "write"
  /\ handling' = [handling EXCEPT ![s] = NoJob]
  /\ UNCHANGED <<conn, registered, status, presence, leaving, found, keeper>>

BeatWrite(s) ==
  /\ handling[s].stage = "write"
  /\ WriteOnline(s)
  /\ handling' = [handling EXCEPT ![s] = NoJob]
  /\ UNCHANGED <<conn, registered, presence, leaving, found>>

(* POST register, heartbeat, stream-status or frame of the device's HTTP
   client: its load and its update are one step. *)
HttpReport ==
  /\ status' = "ONLINE"
  /\ UNCHANGED <<conn, registered, presence, handling, leaving, found, keeper>>

-----------------------------------------------------------------------------
(* Disconnect *)

(* The socket is lost; the disconnect handler starts. *)
Lose(s) ==
  /\ conn[s] = "open"
  /\ conn' = [conn EXCEPT ![s] = "lost"]
  /\ leaving' = [leaving EXCEPT ![s] = "mark"]
  /\ UNCHANGED <<registered, status, presence, handling, found, keeper>>

(* Mutant of MarkRow: the row is found by its device. *)
MarkRowOfDevice(r, s) == [presence[r] EXCEPT !.online = FALSE]

(* markSocketPresenceOffline and markAgentPresenceOffline look by socket. *)
MarkRow(r, s) ==
  IF presence[r].socket = s THEN [presence[r] EXCEPT !.online = FALSE] ELSE presence[r]

MarkSocketOffline(s) ==
  /\ leaving[s] = "mark"
  /\ presence' = [r \in Row |-> MarkRow(r, s)]
  /\ leaving' = [leaving EXCEPT ![s] = "load"]
  /\ UNCHANGED <<conn, registered, status, handling, found, keeper>>

(* The cleanup of s ends without having reached the device. *)
Spare(s) ==
  /\ conn' = [conn EXCEPT ![s] = "gone"]
  /\ leaving' = [leaving EXCEPT ![s] = "idle"]
  /\ keeper' = IF keeper = s THEN None ELSE keeper

(* handleDisconnect of a socket that has not registered by now. *)
LeaveUnregistered(s) ==
  /\ leaving[s] = "load"
  /\ s \notin registered
  /\ Spare(s)
  /\ UNCHANGED <<registered, status, presence, handling, found>>

(* handleAgentOffline loads the device and marks the row of the socket again. *)
LeaveLoad(s) ==
  /\ leaving[s] = "load"
  /\ s \in registered
  /\ presence' = [r \in Row |-> MarkRow(r, s)]
  /\ IF status = "ONLINE"
       THEN /\ leaving' = [leaving EXCEPT ![s] = "write"]
            /\ conn' = conn
       ELSE /\ leaving' = [leaving EXCEPT ![s] = "idle"]
            /\ conn' = [conn EXCEPT ![s] = "gone"]
  /\ UNCHANGED <<registered, status, handling, found, keeper>>

(* Mutant of OfflineStatus: a device that another socket has registered is left alone. *)
OfflineStatusGuarded(s) == IF registered = {s} THEN "OFFLINE" ELSE status

OfflineStatus(s) == "OFFLINE"

(* The device is set OFFLINE, whichever socket its agent uses now. *)
LeaveWrite(s) ==
  /\ leaving[s] = "write"
  /\ status' = OfflineStatus(s)
  /\ keeper' = IF status' = "OFFLINE" THEN None ELSE keeper
  /\ conn' = [conn EXCEPT ![s] = "gone"]
  /\ leaving' = [leaving EXCEPT ![s] = "idle"]
  /\ UNCHANGED <<registered, presence, handling, found>>

(* A query throws, and the catch clause ends the cleanup. *)
LeaveFails(s) ==
  /\ leaving[s] # "idle"
  /\ Spare(s)
  /\ UNCHANGED <<registered, status, presence, handling, found>>

-----------------------------------------------------------------------------
(* The sweep *)

(* Mutant of Outdated: the rows that are offline. *)
OutdatedOffline(r) == presence[r].socket # None /\ ~presence[r].online

(* The row's last touch may be too old. *)
Outdated(r) == presence[r].online

(* heartbeatTimeoutSweep loads stale rows; a timer starts the next sweep
   without waiting for the last ... *)
SweepFinds(r) ==
  /\ Outdated(r)
  /\ found' = found \cup {r}
  /\ UNCHANGED <<conn, registered, status, presence, handling, leaving, keeper>>

(* ... and takes them offline one by one, whatever has become of them. *)
SweepRow(r) ==
  /\ r \in found
  /\ found' = found \ {r}
  /\ presence' = [presence EXCEPT ![r].online = FALSE]
  /\ UNCHANGED <<conn, registered, status, handling, leaving, keeper>>

-----------------------------------------------------------------------------

(* A query of the handler of an event, or of the disconnect, is answered. *)
HandlerStep(s) ==
  BindRow(s) \/ RegisterUpdate(s) \/ RegisterFinish(s) \/ BeatTouch(s) \/ BeatWrite(s)

LeaveStep(s) == MarkSocketOffline(s) \/ LeaveUnregistered(s) \/ LeaveLoad(s) \/ LeaveWrite(s)

AgentNext ==
  \/ \E s \in Socket :
       \/ Connect(s)
       \/ RegisterStart(s)
       \/ RegisterFails(s)
       \/ Heartbeat(s)
       \/ Report(s)
       \/ HandlerStep(s)
       \/ Lose(s)
       \/ LeaveStep(s)
       \/ LeaveFails(s)
  \/ \E r \in Row : SweepFinds(r) \/ SweepRow(r)
  \/ HttpReport

(* Queries are answered, time passes, timers fire, and an agent with a socket
   sends heartbeats; SF because reports take turns with them in the model. *)
HandlerRuns(s) == WF_agentVars(HandlerStep(s)) /\ SF_agentVars(Heartbeat(s))

SweepRuns(r) == WF_agentVars(SweepFinds(r)) /\ WF_agentVars(SweepRow(r))

AgentFairness ==
  /\ \A s \in Socket : HandlerRuns(s)
  /\ \A r \in Row : SweepRuns(r)

AgentSpec == AgentInit /\ [][AgentNext]_agentVars /\ AgentFairness

-----------------------------------------------------------------------------
(* Properties *)

AgentTypeOK ==
  /\ conn \in [Socket -> {"new", "open", "lost", "gone"}]
  /\ registered \subseteq Socket
  /\ status \in {"ONLINE", "OFFLINE"}
  /\ presence \in [Row -> [socket : Socket \cup {None}, online : BOOLEAN]]
  /\ handling \in [Socket -> AgentJob]
  /\ leaving \in [Socket -> {"idle", "mark", "load", "write"}]
  /\ found \subseteq Row
  /\ keeper \in Socket \cup {None}

(* The row is bound to a socket that is still open. *)
Alive(r) == presence[r].socket \in Socket /\ conn[presence[r].socket] = "open"

(***************************************************************************)
(* The cleanup of an old socket does not take the presence of the socket    *)
(* that replaced it: a row bound to an open socket goes offline only by the *)
(* sweep, which had found it stale.                                         *)
(***************************************************************************)
PresenceKept ==
  [][\A r \in Row :
       presence[r].online /\ ~presence'[r].online /\ Alive(r) => r \in found]_agentVars

(***************************************************************************)
(* A device does not stay ONLINE after its agent: the cleanup of the socket *)
(* that wrote ONLINE takes the device OFFLINE, unless the handler that      *)
(* wrote has outlived the cleanup, or the cleanup leaves the device alone   *)
(* (the socket had not registered, or a query threw).                       *)
(***************************************************************************)
OnlineAccounted == keeper # None => status = "ONLINE" /\ conn[keeper] # "gone"

(***************************************************************************)
(* The cleanup of an old socket sets the device OFFLINE under its successor: *)
(* while an agent keeps a socket open the device is ONLINE again and again. *)
(***************************************************************************)
AgentComesOnline == \A s \in Socket : []<>(status = "ONLINE" \/ conn[s] # "open")

(***************************************************************************)
(* A heartbeat still in flight, or a rebind, leaves a lost socket with a    *)
(* row that is online: such a row does not stay online.                     *)
(***************************************************************************)
LostRowSwept == \A r \in Row : []<>(~presence[r].online \/ Alive(r))

(***************************************************************************)
(* A row that was taken offline under an open socket, by the sweep or by a  *)
(* rebind that met the cleanup of the older socket, is online again.        *)
(***************************************************************************)
PresenceReturns == \A r \in Row : []<>(presence[r].online \/ ~Alive(r))

=============================================================================
