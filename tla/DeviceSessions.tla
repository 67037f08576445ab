-------------------------- MODULE DeviceSessions ---------------------------
(***************************************************************************)
(* Monitoring of devices by app users: the monitoring sessions that are     *)
(* kept twice, as a session in memory (src/state/sessions.state.js) and as  *)
(* an ACTIVE row of monitoring_sessions (src/socket/realtime.manager.js).   *)
(* Every operation on them is a chain of awaited queries.  The database     *)
(* runs a query at one moment and the handler goes on with its answer at a  *)
(* later one; what the handler does between two awaits is one step.         *)
(*                                                                          *)
(* Kiosks appear as what they do to the session of their device.            *)
(***************************************************************************)
EXTENDS Naturals, FiniteSets

CONSTANTS
  DevSocket,      \* connections with socket role MONITOR; each connects once
  User,           \* their users
  FieldUser,      \* the users of role MONITOR; the others are admins
  Undivided,      \* the users whose token names no division
  UserOf,         \* DevSocket -> User
  Device,         \* device UUIDs
  EndTask,        \* how many endMonitoringSession calls may be in flight
  MaxRow,         \* bound on the rows ever inserted
  MaxRestart,     \* bound on the restarts of the server
  MaxFailure,     \* bound on the queries the database fails
  Null

ASSUME DeviceConstantsAssumption ==
  /\ UserOf \in [DevSocket -> User]
  /\ FieldUser \subseteq User
  /\ Undivided \subseteq User
  /\ MaxRow \in Nat
  /\ MaxRestart \in Nat
  /\ MaxFailure \in Nat
  /\ Null \notin DevSocket

VARIABLES
  devPhase,    \* how far each connection has come
  presence,    \* the rows of socket_presence, by the socket they name
  devSession,  \* memory: the socket that owns the session of each device
  active,      \* database: the ACTIVE row of each device
  rowCount,    \* rows inserted so far, the last one's number
  cached,      \* memory: sessions to restore when a user reconnects
  start,       \* the start-monitoring call of each socket, if one is in flight
  restore,     \* the device whose session register-monitor is restoring
  end,         \* the endMonitoringSession calls in flight
  sweep,       \* the endSessionsByMonitorUser calls in flight
  restarts,    \* restarts of the server so far
  failures     \* queries failed so far

memory == <<devSession, cached>>
database == <<presence, active, rowCount>>
tasks == <<start, restore, end, sweep>>
incidents == <<restarts, failures>>
devVars == <<devPhase, memory, database, tasks, incidents>>

(***************************************************************************)
(* "closing": the disconnect handler waits for the presence update;         *)
(* "offline": that is done, the handlers of other parts are awaited;        *)
(* "gone": the sessions in memory are ended; "failed": an await threw out   *)
(* of the handler; "dead": the connection went down with the server.        *)
(***************************************************************************)
SocketPhase == {"new", "open", "closing", "offline", "gone", "failed", "dead"}

(* An ACTIVE row.  "late" is history: inserted after its socket's last look. *)
Row == [id : 1 .. MaxRow, user : User, by : DevSocket, late : BOOLEAN]

NoStart == [stage |-> "idle", device |-> Null, found |-> Null]

NoEnd == [stage |-> "idle", device |-> Null, row |-> Null]

NoSweep == [stage |-> "idle", rows |-> {}, row |-> Null]

(* A row as an update addresses it, by its key. *)
RowRef == [device : Device, id : 1 .. MaxRow]

RefOf(d) == [device |-> d, id |-> active[d].id]

IsField(m) == UserOf[m] \in FieldUser

(* A handler may still be running for m, begun when m was connected. *)
MayRun(m) == devPhase[m] \notin {"new", "dead"}

(* The queries on one socket's presence row are run in the order of issue. *)
MayTouch(m) == devPhase[m] \in {"open", "closing"}

DevInit ==
  /\ devPhase = [m \in DevSocket |-> "new"]
  /\ presence = [m \in DevSocket |-> "absent"]
  /\ devSession = [d \in Device |-> Null]
  /\ active = [d \in Device |-> Null]
  /\ rowCount = 0
  /\ cached = [u \in User |-> {}]
  /\ start = [m \in DevSocket |-> NoStart]
  /\ restore = [m \in DevSocket |-> Null]
  /\ end = [e \in EndTask |-> NoEnd]
  /\ sweep = [m \in DevSocket |-> NoSweep]
  /\ restarts = 0
  /\ failures = 0

QueryFails ==
  /\ failures < MaxFailure
  /\ failures' = failures + 1

-----------------------------------------------------------------------------
(* Connections and their presence rows *)

DevConnect(m) ==
  /\ devPhase[m] = "new"
  /\ devPhase' = [devPhase EXCEPT ![m] = "open"]
  /\ UNCHANGED <<memory, database, tasks, incidents>>

(* Sockets of m's user whose online presence row the upsert may take over. *)
OnlineOfUser(m) ==
  {x \in DevSocket : UserOf[x] = UserOf[m] /\ presence[x] = "online"}

(***************************************************************************)
(* register-monitor upserts the user's presence row: the row of this        *)
(* socket, else an online row of the user, which then names this socket,    *)
(* else a new row.  Its queries are taken as one step.                      *)
(***************************************************************************)
RegisterMonitor(m) ==
  /\ MayTouch(m)
  /\ \/ /\ presence[m] # "absent" \/ OnlineOfUser(m) = {}
        /\ presence' = [presence EXCEPT ![m] = "online"]
     \/ /\ presence[m] = "absent"
        /\ \E x \in OnlineOfUser(m) :
             presence' = [presence EXCEPT ![x] = "absent", ![m] = "online"]
  /\ UNCHANGED <<devPhase, memory, active, rowCount, tasks, incidents>>

(* heartbeat: the row of the socket, if there is one, is online again. *)
Heartbeat(m) ==
  /\ MayTouch(m)
  /\ presence[m] = "offline"
  /\ presence' = [presence EXCEPT ![m] = "online"]
  /\ UNCHANGED <<devPhase, memory, active, rowCount, tasks, incidents>>

DevDisconnect(m) ==
  /\ devPhase[m] = "open"
  /\ devPhase' = [devPhase EXCEPT ![m] = "closing"]
  /\ UNCHANGED <<memory, database, tasks, incidents>>

Offline(m) == IF presence[m] = "absent" THEN "absent" ELSE "offline"

(* markSocketPresenceOffline of the disconnect handler. *)
MarkOffline(m) ==
  /\ devPhase[m] = "closing"
  /\ devPhase' = [devPhase EXCEPT ![m] = "offline"]
  /\ presence' = [presence EXCEPT ![m] = Offline(m)]
  /\ UNCHANGED <<memory, active, rowCount, tasks, incidents>>

OwnedBy(m) == {d \in Device : devSession[d] = m}

(* Mutant of Cleanup: it leaves the rows alone. *)
CleanupWithoutSweep(m) ==
  /\ devPhase[m] = "offline"
  /\ devPhase' = [devPhase EXCEPT ![m] = "gone"]
  /\ devSession' = [d \in Device |-> IF devSession[d] = m THEN Null ELSE devSession[d]]
  /\ UNCHANGED <<cached, database, tasks, incidents>>

(***************************************************************************)
(* The rest of the disconnect handler: the sessions in memory end; those of *)
(* a field monitor are remembered for a reconnect, and the rows of its user *)
(* are ended too.                                                           *)
(***************************************************************************)
Cleanup(m) ==
  /\ devPhase[m] = "offline"
  /\ devPhase' = [devPhase EXCEPT ![m] = "gone"]
  /\ devSession' = [d \in Device |-> IF devSession[d] = m THEN Null ELSE devSession[d]]
  /\ cached' = IF IsField(m) /\ OwnedBy(m) # {}
                 THEN [cached EXCEPT ![UserOf[m]] = OwnedBy(m)] ELSE cached
  /\ IF IsField(m)
       THEN /\ sweep[m].stage \in {"idle", "failed"}
            /\ sweep' = [sweep EXCEPT ![m] = [NoSweep EXCEPT !.stage = "lookup"]]
       ELSE UNCHANGED sweep
  /\ UNCHANGED <<database, start, restore, end, incidents>>

DevCleanupFails(m) ==
  /\ devPhase[m] \in {"closing", "offline"}
  /\ QueryFails
  /\ devPhase' = [devPhase EXCEPT ![m] = "failed"]
  /\ UNCHANGED <<memory, database, tasks, restarts>>

-----------------------------------------------------------------------------
(* start-monitoring *)

HolderOf(d) == IF active[d] = Null THEN Null ELSE active[d].user

(* The call has passed its other checks and the ACTIVE row is looked up. *)
StartLookup(m, d) ==
  /\ MayRun(m)
  /\ start[m] = NoStart
  /\ start' = [start EXCEPT ![m] =
                 [stage |-> "found", device |-> d, found |-> HolderOf(d)]]
  /\ UNCHANGED <<devPhase, memory, database, restore, end, sweep, incidents>>

(* Mutant of StartDecide: it trusts the row alone. *)
StartDecideByRow(m) ==
  LET d == start[m].device
      found == start[m].found
  IN
  /\ start[m].stage = "found"
  /\ IF found \in {Null, UserOf[m]}
       THEN devSession' = [devSession EXCEPT ![d] = m]
       ELSE UNCHANGED devSession
  /\ start' = [start EXCEPT ![m] =
                 IF found = Null THEN [@ EXCEPT !.stage = "insert"] ELSE NoStart]
  /\ UNCHANGED <<devPhase, cached, database, restore, end, sweep, incidents>>

(***************************************************************************)
(* The answer is there.  A row of another user or a session of another      *)
(* socket refuses; else the session is created, if it is not there, and a   *)
(* row is inserted, if none was found.                                      *)
(***************************************************************************)
StartDecide(m) ==
  LET d == start[m].device
      found == start[m].found
      refused == \/ found \notin {Null, UserOf[m]}
                 \/ devSession[d] \notin {Null, m}
  IN
  /\ start[m].stage = "found"
  /\ devSession' = IF refused THEN devSession ELSE [devSession EXCEPT ![d] = m]
  /\ start' = [start EXCEPT ![m] =
                 IF refused \/ found # Null THEN NoStart
                 ELSE [@ EXCEPT !.stage = "insert"]]
  /\ UNCHANGED <<devPhase, cached, database, restore, end, sweep, incidents>>

(* The row is inserted: the unique index admits one ACTIVE row per device. *)
StartInsert(m) ==
  LET d == start[m].device IN
  /\ start[m].stage = "insert"
  /\ active[d] = Null
  /\ rowCount < MaxRow
  /\ rowCount' = rowCount + 1
  /\ active' = [active EXCEPT ![d] =
                  [id |-> rowCount + 1, user |-> UserOf[m], by |-> m,
                   late |-> devPhase[m] = "gone" /\ sweep[m].stage # "lookup"]]
  /\ start' = [start EXCEPT ![m] = NoStart]
  /\ UNCHANGED <<devPhase, presence, memory, restore, end, sweep, incidents>>

(* The insert is refused, or the database fails: the session stays. *)
StartFails(m) ==
  /\ start[m].stage \in {"found", "insert"}
  /\ \/ /\ start[m].stage = "insert"
        /\ active[start[m].device] # Null
        /\ UNCHANGED failures
     \/ QueryFails
  /\ start' = [start EXCEPT ![m] = NoStart]
  /\ UNCHANGED <<devPhase, memory, database, restore, end, sweep, restarts>>

-----------------------------------------------------------------------------
(* Restore on reconnect *)

(* register-monitor finds no ACTIVE row for a device remembered for the user. *)
RestoreLookup(m, d) ==
  /\ MayRun(m)
  /\ restore[m] = Null
  /\ d \in cached[UserOf[m]]
  /\ active[d] = Null
  /\ UserOf[m] \in Undivided
  /\ restore' = [restore EXCEPT ![m] = d]
  /\ UNCHANGED <<devPhase, memory, database, start, end, sweep, incidents>>

(***************************************************************************)
(* The session is created if there is none.  The insert that follows names  *)
(* no division and is always refused, so no row comes of it; the cache of   *)
(* the user is dropped all the same.                                        *)
(***************************************************************************)
RestoreSession(m) ==
  LET d == restore[m] IN
  /\ d # Null
  /\ devSession' = [devSession EXCEPT ![d] = IF @ = Null THEN m ELSE @]
  /\ cached' = [cached EXCEPT ![UserOf[m]] = {}]
  /\ restore' = [restore EXCEPT ![m] = Null]
  /\ UNCHANGED <<devPhase, database, start, end, sweep, incidents>>

-----------------------------------------------------------------------------
(* endMonitoringSession *)

EndOf(d) == [stage |-> "lookup", device |-> d, row |-> Null]

(* stop-monitoring by the owner of the session in memory. *)
DevStopMonitoring(e, m, d) ==
  /\ devPhase[m] = "open"
  /\ devSession[d] = m
  /\ end[e] = NoEnd
  /\ end' = [end EXCEPT ![e] = EndOf(d)]
  /\ UNCHANGED <<devPhase, memory, database, start, restore, sweep, incidents>>

(* force-stop-monitoring by an admin. *)
DevForceStop(e, m, d) ==
  /\ devPhase[m] = "open"
  /\ ~IsField(m)
  /\ end[e] = NoEnd
  /\ end' = [end EXCEPT ![e] = EndOf(d)]
  /\ UNCHANGED <<devPhase, memory, database, start, restore, sweep, incidents>>

(* The device's kiosk disconnects: its session in memory ends first. *)
KioskLost(e, d) ==
  /\ devSession[d] # Null
  /\ end[e] = NoEnd
  /\ devSession' = [devSession EXCEPT ![d] = Null]
  /\ end' = [end EXCEPT ![e] = EndOf(d)]
  /\ UNCHANGED <<devPhase, cached, database, start, restore, sweep, incidents>>

(* The device's kiosk misses its heartbeats: only the session in memory ends. *)
KioskSilent(d) ==
  /\ devSession[d] # Null
  /\ devSession' = [devSession EXCEPT ![d] = Null]
  /\ UNCHANGED <<devPhase, cached, database, tasks, incidents>>

EndLookup(e) ==
  LET d == end[e].device IN
  /\ end[e].stage = "lookup"
  /\ end' = [end EXCEPT ![e] =
               IF active[d] = Null
                 THEN [@ EXCEPT !.stage = "release"]
                 ELSE [@ EXCEPT !.stage = "update", !.row = RefOf(d)]]
  /\ UNCHANGED <<devPhase, memory, database, start, restore, sweep, incidents>>

(* The update names the row that was found; it may be ACTIVE no more. *)
Ended(ref) ==
  [active EXCEPT ![ref.device] = IF @ # Null /\ @.id = ref.id THEN Null ELSE @]

(* What SweepUpdateByDevice does instead. *)
EndedByDevice(ref) == [active EXCEPT ![ref.device] = Null]

EndUpdate(e) ==
  /\ end[e].stage = "update"
  /\ active' = Ended(end[e].row)
  /\ end' = [end EXCEPT ![e].stage = "release"]
  /\ UNCHANGED <<devPhase, presence, rowCount, memory, start, restore, sweep, incidents>>

(* The session in memory ends, whoever owns it now. *)
EndRelease(e) ==
  /\ end[e].stage = "release"
  /\ devSession' = [devSession EXCEPT ![end[e].device] = Null]
  /\ end' = [end EXCEPT ![e] = NoEnd]
  /\ UNCHANGED <<devPhase, cached, database, start, restore, sweep, incidents>>

EndFails(e) ==
  /\ end[e].stage \in {"lookup", "update"}
  /\ QueryFails
  /\ end' = [end EXCEPT ![e] = NoEnd]
  /\ UNCHANGED <<devPhase, memory, database, start, restore, sweep, restarts>>

-----------------------------------------------------------------------------
(* endSessionsByMonitorUser *)

(* Mutant of TimerSweep: it takes the row offline and no more. *)
TimerSweepOffline(m) ==
  /\ presence[m] = "online"
  /\ sweep[m].stage \in {"idle", "failed"}
  /\ presence' = [presence EXCEPT ![m] = "offline"]
  /\ UNCHANGED <<devPhase, memory, active, rowCount, tasks, incidents>>

(* The presence checker finds a row silent for too long. *)
TimerSweep(m) ==
  /\ presence[m] = "online"
  /\ sweep[m].stage \in {"idle", "failed"}
  /\ presence' = [presence EXCEPT ![m] = "offline"]
  /\ sweep' = [sweep EXCEPT ![m] = [NoSweep EXCEPT !.stage = "lookup"]]
  /\ UNCHANGED <<devPhase, memory, active, rowCount, start, restore, end, incidents>>

(* All ACTIVE rows of the user, of whichever connection. *)
SweepLookup(m) ==
  LET mine == {d \in Device : active[d] # Null /\ active[d].user = UserOf[m]} IN
  /\ sweep[m].stage = "lookup"
  /\ sweep' = [sweep EXCEPT ![m] =
                 IF mine = {} THEN NoSweep
                 ELSE [@ EXCEPT !.stage = "update", !.rows = {RefOf(d) : d \in mine}]]
  /\ UNCHANGED <<devPhase, memory, database, start, restore, end, incidents>>

(* Mutant of SweepUpdate: it addresses the device, not the row found. *)
SweepUpdateByDevice(m) ==
  /\ sweep[m].stage = "update"
  /\ \E ref \in sweep[m].rows :
       /\ active' = EndedByDevice(ref)
       /\ sweep' = [sweep EXCEPT ![m].stage = "release", ![m].row = ref]
  /\ UNCHANGED <<devPhase, presence, rowCount, memory, start, restore, end, incidents>>

SweepUpdate(m) ==
  /\ sweep[m].stage = "update"
  /\ \E ref \in sweep[m].rows :
       /\ active' = Ended(ref)
       /\ sweep' = [sweep EXCEPT ![m].stage = "release", ![m].row = ref]
  /\ UNCHANGED <<devPhase, presence, rowCount, memory, start, restore, end, incidents>>

(* The session of the device ends, whoever owns it; then the next row. *)
SweepRelease(m) ==
  /\ sweep[m].stage = "release"
  /\ devSession' = [devSession EXCEPT ![sweep[m].row.device] = Null]
  /\ sweep' = [sweep EXCEPT ![m] =
                 IF @.rows = {@.row} THEN NoSweep
                 ELSE [stage |-> "update", rows |-> @.rows \ {@.row}, row |-> Null]]
  /\ UNCHANGED <<devPhase, cached, database, start, restore, end, incidents>>

SweepFails(m) ==
  /\ sweep[m].stage \in {"lookup", "update"}
  /\ QueryFails
  /\ sweep' = [sweep EXCEPT ![m] = [NoSweep EXCEPT !.stage = "failed"]]
  /\ UNCHANGED <<devPhase, memory, database, start, restore, end, restarts>>

-----------------------------------------------------------------------------
(* The server restarts: memory and everything in flight are lost. *)
Restart ==
  /\ restarts < MaxRestart
  /\ restarts' = restarts + 1
  /\ devPhase' = [m \in DevSocket |-> IF devPhase[m] = "new" THEN "new" ELSE "dead"]
  /\ devSession' = [d \in Device |-> Null]
  /\ cached' = [u \in User |-> {}]
  /\ start' = [m \in DevSocket |-> NoStart]
  /\ restore' = [m \in DevSocket |-> Null]
  /\ end' = [e \in EndTask |-> NoEnd]
  /\ sweep' = [m \in DevSocket |-> NoSweep]
  /\ UNCHANGED <<database, failures>>

-----------------------------------------------------------------------------
SocketStep(m) ==
  \/ DevConnect(m)
  \/ RegisterMonitor(m)
  \/ Heartbeat(m)
  \/ DevDisconnect(m)
  \/ MarkOffline(m)
  \/ Cleanup(m)
  \/ DevCleanupFails(m)

StartStep(m) ==
  \/ StartDecide(m)
  \/ StartInsert(m)
  \/ StartFails(m)
  \/ RestoreSession(m)
  \/ \E d \in Device : StartLookup(m, d) \/ RestoreLookup(m, d)

EndStep(e) ==
  \/ EndLookup(e)
  \/ EndUpdate(e)
  \/ EndRelease(e)
  \/ EndFails(e)
  \/ \E d \in Device :
       \/ KioskLost(e, d)
       \/ \E m \in DevSocket : DevStopMonitoring(e, m, d) \/ DevForceStop(e, m, d)

SweepRow(m) ==
  \/ SweepLookup(m)
  \/ SweepUpdate(m)
  \/ SweepRelease(m)
  \/ SweepFails(m)

DevNext ==
  \/ \E m \in DevSocket :
       SocketStep(m) \/ StartStep(m) \/ TimerSweep(m) \/ SweepRow(m)
  \/ \E e \in EndTask : EndStep(e)
  \/ \E d \in Device : KioskSilent(d)
  \/ Restart

(***************************************************************************)
(* The presence checker runs every 15 seconds, and a query is answered or   *)
(* rejected.  A row whose connection is dead is never refreshed, so it is   *)
(* found sooner or later.                                                   *)
(***************************************************************************)
SweepsRun ==
  \A m \in DevSocket :
    /\ WF_devVars(devPhase[m] = "dead" /\ TimerSweep(m))
    /\ WF_devVars(SweepRow(m))

DevSpec ==
  /\ DevInit
  /\ [][DevNext]_devVars
  /\ SweepsRun

-----------------------------------------------------------------------------
(* Properties *)

DevTypeOK ==
  /\ devPhase \in [DevSocket -> SocketPhase]
  /\ presence \in [DevSocket -> {"absent", "online", "offline"}]
  /\ devSession \in [Device -> DevSocket \cup {Null}]
  /\ active \in [Device -> Row \cup {Null}]
  /\ rowCount \in 0 .. MaxRow
  /\ cached \in [User -> SUBSET Device]
  /\ start \in [DevSocket -> [stage : {"idle", "found", "insert"},
                                 device : Device \cup {Null},
                                 found : User \cup {Null}]]
  /\ restore \in [DevSocket -> Device \cup {Null}]
  /\ end \in [EndTask -> [stage : {"idle", "lookup", "update", "release"},
                          device : Device \cup {Null},
                          row : RowRef \cup {Null}]]
  /\ sweep \in [DevSocket ->
                  [stage : {"idle", "lookup", "update", "release", "failed"},
                   rows : SUBSET RowRef, row : RowRef \cup {Null}]]
  /\ restarts \in 0 .. MaxRestart
  /\ failures \in 0 .. MaxFailure

(***************************************************************************)
(* The row of a lost connection is on its way to be ended: its disconnect   *)
(* handler is running, or the lookup of its user's rows has yet to come or  *)
(* has found the row, or one of the two failed.  Rows of a crashed server   *)
(* are RestartRecovers' business.                                           *)
(***************************************************************************)
RowAttended(d) ==
  LET m == active[d].by IN
  \/ devPhase[m] # "gone"
  \/ sweep[m].stage \in {"lookup", "failed"}
  \/ RefOf(d) \in sweep[m].rows

(***************************************************************************)
(* No field monitor leaves a locked device behind: a row is ACTIVE after    *)
(* the end of its monitor's disconnect handler only while the handler's     *)
(* sweep is at work on it, unless a slow start-monitoring inserted the row  *)
(* when that sweep had already looked.                                      *)
(***************************************************************************)
FieldRowAttended ==
  \A d \in Device :
    active[d] # Null /\ active[d].user \in FieldUser /\ ~active[d].late =>
      RowAttended(d)

(***************************************************************************)
(* The same for admins: sessions end when the "monitor/kiosk disconnects".  *)
(* The disconnect handler leaves the rows of an admin ACTIVE.               *)
(***************************************************************************)
EveryRowAttended ==
  \A d \in Device : active[d] # Null /\ ~active[d].late => RowAttended(d)

(***************************************************************************)
(* A row is ended only by a call that found that very row: a stop, a force  *)
(* stop or a kiosk that looked the device up, or a sweep of the row's own   *)
(* user.  No call in flight ends a row that took the place of the one it    *)
(* found.                                                                   *)
(***************************************************************************)
RowEndedByItsFinder ==
  [][\A d \in Device :
       active[d] # Null /\ active'[d] = Null =>
         \/ \E e \in EndTask : end[e].row = RefOf(d)
         \/ \E m \in DevSocket :
              RefOf(d) \in sweep[m].rows /\ UserOf[m] = active[d].user]_devVars

(***************************************************************************)
(* A device monitored when the server crashed is freed without anybody's    *)
(* help: while a presence row still says online for a dead connection of    *)
(* the row's user, the presence checker ends the row, or the user is back,  *)
(* or the sweep fails, or the server crashes again.                         *)
(***************************************************************************)
CrashLeft(d, m, n) ==
  /\ restarts = n
  /\ active[d] # Null
  /\ active[d].user = UserOf[m]
  /\ devPhase[m] = "dead"
  /\ presence[m] = "online"

RestartRecovers ==
  \A d \in Device, m \in DevSocket, n \in 0 .. MaxRestart :
    CrashLeft(d, m, n) ~>
      \/ active[d] = Null
      \/ sweep[m].stage = "failed"
      \/ \E x \in DevSocket : UserOf[x] = UserOf[m] /\ devPhase[x] \notin {"new", "dead"}
      \/ restarts # n

(***************************************************************************)
(* Connections of one user are independent ("multiple connections are       *)
(* supported"): what follows the loss of one never ends the session of      *)
(* another that is connected.  The sweep ends the rows of the user, not of  *)
(* the connection.                                                          *)
(***************************************************************************)
ConnectionsIndependent ==
  [][\A d \in Device, m \in DevSocket :
       LET owner == devSession[d] IN
       /\ owner \notin {Null, m}
       /\ devPhase[owner] = "open"
       /\ devPhase[m] = "gone" /\ presence[m] # "online"
       /\ sweep'[m] # sweep[m]
       => devSession'[d] = owner]_devVars

(***************************************************************************)
(* The sessions in memory implement the abstract lock, with every monitor   *)
(* that ever connected as a contender: a lock changes hands only by being   *)
(* free in between, however lookups, inserts and restores interleave.       *)
(***************************************************************************)
DeviceLock == INSTANCE MonitorLock WITH
                Kiosk <- Device,
                Monitor <- DevSocket,
                lock <- devSession,
                up <- {m \in DevSocket : devPhase[m] # "new"},
                None <- Null

DeviceLockSpec == DeviceLock!Spec

=============================================================================
