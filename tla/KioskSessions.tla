--------------------------- MODULE KioskSessions ---------------------------
(***************************************************************************)
(* The in-memory core of the Socket.IO server: the kiosk registry           *)
(* (src/state/kiosks.state.js), the one-login-per-user table                *)
(* (src/state/user-sessions.state.js), the monitoring sessions              *)
(* (src/state/sessions.state.js), the heartbeat store                       *)
(* (src/utils/heartbeat.js), and the handlers of src/socket/index.js that   *)
(* change them.  Node runs one handler at a time, so a handler is one step  *)
(* up to each await that waits for the database and one step after it;      *)
(* between the two, any other handler may run.                              *)
(*                                                                          *)
(* Sessions here are the ones that live in memory only: those of monitors   *)
(* with device tokens, and those of app monitors on ids that are not UUIDs. *)
(* Sessions that are also rows of the database have a module of their own   *)
(* (DeviceSessions): of the database this one keeps that an id which is not *)
(* a UUID cannot be looked up (monitoring_sessions.device_id is a UUID      *)
(* column of PostgreSQL, so the query is rejected).                         *)
(***************************************************************************)
EXTENDS FiniteSets

CONSTANTS
  KioskSocket,    \* connections with socket role KIOSK; each connects once
  MonitorSocket,  \* connections with socket role MONITOR; each connects once
  Kiosk,          \* ids a kiosk entry or a session is keyed by
  ClientOf,       \* KioskSocket -> Kiosk, the clientId of the token
  RegisterAs,     \* KioskSocket -> SUBSET Kiosk, the ids register-kiosk may name
  AppClient,      \* client ids of app users; the others hold device tokens
  AppMonitor,     \* monitor sockets of app users; the others hold device tokens
  DbKiosk,        \* ids that are UUIDs, the only ones an ACTIVE row may have
  None

Socket == KioskSocket \cup MonitorSocket

ASSUME ConstantsAssumption ==
  /\ KioskSocket \cap MonitorSocket = {}
  /\ ClientOf \in [KioskSocket -> Kiosk]
  /\ RegisterAs \in [KioskSocket -> SUBSET Kiosk]
  /\ AppClient \subseteq Kiosk
  /\ AppMonitor \subseteq MonitorSocket
  /\ DbKiosk \subseteq Kiosk
  /\ None \notin Socket

VARIABLES
  phase,        \* how far each connection has come, see Phase
  kiosks,       \* the kiosk registry
  userSession,  \* the socket an app user is logged in with, by client id
  pending,      \* register-kiosk calls waiting for the user's division
  heartbeats,   \* ids in the heartbeat store
  session       \* the monitor socket that owns the session of each kiosk

vars == <<phase, kiosks, userSession, pending, heartbeats, session>>

(***************************************************************************)
(* A connection is "new" until it connects and "open" until it is lost.     *)
(* Then its disconnect handler runs: "closing" waits for the presence       *)
(* update; a kiosk that had a session is "ending" while the ACTIVE row is   *)
(* looked up and "removing" while what follows an ended row is awaited.     *)
(* "gone": the handler has done its work on this state; "failed": an await  *)
(* threw out of it; "rejected": the await that did so looked up an id that  *)
(* is not a UUID.                                                           *)
(***************************************************************************)
Phase ==
  {"new", "open", "closing", "ending", "removing", "gone", "failed", "rejected"}

KioskEntry == [socket : KioskSocket \cup {None}, status : {"online", "offline", "absent"}]

NoKiosk == [socket |-> None, status |-> "absent"]

OnlineAs(s) == [socket |-> s, status |-> "online"]

IsApp(s) == ClientOf[s] \in AppClient

IsKioskOnline(k) == kiosks[k].status = "online"

OwnsKiosk(s, k) == kiosks[k].socket = s

Init ==
  /\ phase = [x \in Socket |-> "new"]
  /\ kiosks = [k \in Kiosk |-> NoKiosk]
  /\ userSession = [k \in Kiosk |-> None]
  /\ pending = {}
  /\ heartbeats = {}
  /\ session = [k \in Kiosk |-> None]

-----------------------------------------------------------------------------
(* Connection *)

(* A monitor, or a kiosk with a device token, connects: nothing is replaced. *)
Connect(x) ==
  /\ phase[x] = "new"
  /\ x \in KioskSocket => ~IsApp(x)
  /\ phase' = [phase EXCEPT ![x] = "open"]
  /\ UNCHANGED <<kiosks, userSession, pending, heartbeats, session>>

(* An app user connects and no connection of that user is open. *)
LoginFirst(s) ==
  LET c == ClientOf[s] IN
  /\ phase[s] = "new"
  /\ IsApp(s)
  /\ userSession[c] # None => phase[userSession[c]] # "open"
  /\ userSession' = [userSession EXCEPT ![c] = s]
  /\ phase' = [phase EXCEPT ![s] = "open"]
  /\ UNCHANGED <<kiosks, pending, heartbeats, session>>

(* Mutant of LoginAgain: the replaced socket takes the new login with it. *)
LoginAgainErasesLogin(s) ==
  LET c == ClientOf[s]
      previous == userSession[c]
  IN
  /\ phase[s] = "new"
  /\ IsApp(s)
  /\ previous # None
  /\ phase[previous] = "open"
  /\ userSession' = [userSession EXCEPT ![c] = None]
  /\ kiosks' = [kiosks EXCEPT ![c] = IF @ = NoKiosk THEN NoKiosk ELSE OnlineAs(s)]
  /\ phase' = [phase EXCEPT ![s] = "open", ![previous] = "closing"]
  /\ UNCHANGED <<pending, heartbeats, session>>

(***************************************************************************)
(* An app user connects while an earlier connection is open: the user's     *)
(* kiosk entry, if there is one, passes to the new socket, and the earlier  *)
(* socket is disconnected, which runs its disconnect handler up to the      *)
(* first await.                                                             *)
(***************************************************************************)
LoginAgain(s) ==
  LET c == ClientOf[s]
      previous == userSession[c]
  IN
  /\ phase[s] = "new"
  /\ IsApp(s)
  /\ previous # None
  /\ phase[previous] = "open"
  /\ userSession' = [userSession EXCEPT ![c] = s]
  /\ kiosks' = [kiosks EXCEPT ![c] = IF @ = NoKiosk THEN NoKiosk ELSE OnlineAs(s)]
  /\ phase' = [phase EXCEPT ![s] = "open", ![previous] = "closing"]
  /\ UNCHANGED <<pending, heartbeats, session>>

-----------------------------------------------------------------------------
(* Kiosk registration and heartbeat *)

(* register-kiosk of a device token: no query, the entry is written at once. *)
RegisterKiosk(s, k) ==
  /\ phase[s] = "open"
  /\ ~IsApp(s)
  /\ k \in RegisterAs[s]
  /\ kiosks' = [kiosks EXCEPT ![k] = OnlineAs(s)]
  /\ UNCHANGED <<phase, userSession, pending, heartbeats, session>>

(* register-kiosk of an app user waits for the user's division first. *)
RegisterKioskBegin(s, k) ==
  /\ phase[s] = "open"
  /\ IsApp(s)
  /\ k \in RegisterAs[s]
  /\ pending' = pending \cup {<<s, k>>}
  /\ UNCHANGED <<phase, kiosks, userSession, heartbeats, session>>

(* The query is answered: the entry is written, whatever became of the socket. *)
RegisterKioskResume(s, k) ==
  /\ <<s, k>> \in pending
  /\ pending' = pending \ {<<s, k>>}
  /\ kiosks' = [kiosks EXCEPT ![k] = OnlineAs(s)]
  /\ UNCHANGED <<phase, userSession, heartbeats, session>>

(* heartbeat-ping: the id is tracked and its entry, if any, is online again. *)
HeartbeatPing(s) ==
  LET c == ClientOf[s] IN
  /\ phase[s] = "open"
  /\ heartbeats' = heartbeats \cup {c}
  /\ kiosks' = [kiosks EXCEPT ![c].status = IF @ = "absent" THEN "absent" ELSE "online"]
  /\ UNCHANGED <<phase, userSession, pending, session>>

(* Mutant of HeartbeatTimeout: the session is not ended. *)
HeartbeatTimeoutKeepsSession(k) ==
  /\ k \in heartbeats
  /\ IsKioskOnline(k)
  /\ kiosks' = [kiosks EXCEPT ![k].status = "offline"]
  /\ UNCHANGED <<phase, userSession, pending, heartbeats, session>>

(* The heartbeat checker finds a tracked, online kiosk silent for too long. *)
HeartbeatTimeout(k) ==
  /\ k \in heartbeats
  /\ IsKioskOnline(k)
  /\ kiosks' = [kiosks EXCEPT ![k].status = "offline"]
  /\ session' = [session EXCEPT ![k] = None]
  /\ UNCHANGED <<phase, userSession, pending, heartbeats>>

-----------------------------------------------------------------------------
(* Monitoring sessions *)

(* An app monitor's session lives in memory only if the id is not a UUID. *)
MemoryOnly(m, k) == m \in AppMonitor => k \notin DbKiosk

(* Only device-token monitors replace a session whose owner is not connected. *)
Replaceable(m, k) ==
  m \notin AppMonitor /\ session[k] # None /\ phase[session[k]] # "open"

(* Mutant of StartMonitoring: an existing session is not looked at. *)
StartMonitoringUnchecked(m, k) ==
  /\ phase[m] = "open"
  /\ MemoryOnly(m, k)
  /\ IsKioskOnline(k)
  /\ session' = [session EXCEPT ![k] = m]
  /\ UNCHANGED <<phase, kiosks, userSession, pending, heartbeats>>

(* start-monitoring.  The owner itself only refreshes the activity time. *)
StartMonitoring(m, k) ==
  /\ phase[m] = "open"
  /\ MemoryOnly(m, k)
  /\ IsKioskOnline(k)
  /\ session[k] = None \/ Replaceable(m, k)
  /\ session' = [session EXCEPT ![k] = m]
  /\ UNCHANGED <<phase, kiosks, userSession, pending, heartbeats>>

(* stop-monitoring.  An app monitor's is rejected by the lookup of the row. *)
StopMonitoring(m, k) ==
  /\ phase[m] = "open"
  /\ m \notin AppMonitor
  /\ session[k] = m
  /\ session' = [session EXCEPT ![k] = None]
  /\ UNCHANGED <<phase, kiosks, userSession, pending, heartbeats>>

(***************************************************************************)
(* force-stop-monitoring of an admin ends the session of any UUID, after    *)
(* its queries, so possibly when the admin is gone already.                 *)
(***************************************************************************)
ForceStop(m, k) ==
  /\ m \in AppMonitor
  /\ phase[m] # "new"
  /\ k \in DbKiosk
  /\ session' = [session EXCEPT ![k] = None]
  /\ UNCHANGED <<phase, kiosks, userSession, pending, heartbeats>>

-----------------------------------------------------------------------------
(* Disconnect *)

(* The handler up to its first await: the login is dropped if still this one. *)
Disconnect(x) ==
  /\ phase[x] = "open"
  /\ phase' = [phase EXCEPT ![x] = "closing"]
  /\ userSession' = [k \in Kiosk |-> IF userSession[k] = x THEN None ELSE userSession[k]]
  /\ UNCHANGED <<kiosks, pending, heartbeats, session>>

(* Mutant of MonitorCleanup: the sessions of app monitors are preserved. *)
MonitorCleanupKeepsAdmin(m) ==
  /\ phase[m] = "closing"
  /\ session' = [k \in Kiosk |->
                   IF session[k] = m /\ m \notin AppMonitor THEN None ELSE session[k]]
  /\ phase' = [phase EXCEPT ![m] = "gone"]
  /\ UNCHANGED <<kiosks, userSession, pending, heartbeats>>

(* Monitor: every session this socket owns is ended. *)
MonitorCleanup(m) ==
  /\ phase[m] = "closing"
  /\ session' = [k \in Kiosk |-> IF session[k] = m THEN None ELSE session[k]]
  /\ phase' = [phase EXCEPT ![m] = "gone"]
  /\ UNCHANGED <<kiosks, userSession, pending, heartbeats>>

(* Mutant of KioskCleanupOther: the owner of the entry is not compared. *)
KioskCleanupOtherRemoves(s) ==
  LET c == ClientOf[s] IN
  /\ phase[s] = "closing"
  /\ ~OwnsKiosk(s, c)
  /\ heartbeats' = heartbeats \ {c}
  /\ kiosks' = [kiosks EXCEPT ![c] = NoKiosk]
  /\ phase' = [phase EXCEPT ![s] = "gone"]
  /\ UNCHANGED <<userSession, pending, session>>

(* Kiosk whose entry is another socket's by now: only the heartbeat goes. *)
KioskCleanupOther(s) ==
  LET c == ClientOf[s] IN
  /\ phase[s] = "closing"
  /\ ~OwnsKiosk(s, c)
  /\ heartbeats' = heartbeats \ {c}
  /\ phase' = [phase EXCEPT ![s] = "gone"]
  /\ UNCHANGED <<kiosks, userSession, pending, session>>

(***************************************************************************)
(* Kiosk that still owns its entry: it goes offline and its session ends.   *)
(* Without a session the entry is removed at once; with one, the row of the *)
(* session is looked up first.                                              *)
(***************************************************************************)
KioskCleanupOwn(s) ==
  LET c == ClientOf[s]
      monitored == session[c] # None
  IN
  /\ phase[s] = "closing"
  /\ OwnsKiosk(s, c)
  /\ heartbeats' = heartbeats \ {c}
  /\ session' = [session EXCEPT ![c] = None]
  /\ kiosks' = [kiosks EXCEPT ![c] =
                  IF monitored THEN [@ EXCEPT !.status = "offline"] ELSE NoKiosk]
  /\ phase' = [phase EXCEPT ![s] = IF monitored THEN "ending" ELSE "gone"]
  /\ UNCHANGED <<userSession, pending>>

(* No ACTIVE row: the session of the id is ended (again), the entry removed. *)
KioskEndWithoutRow(s) ==
  LET c == ClientOf[s] IN
  /\ phase[s] = "ending"
  /\ c \in DbKiosk
  /\ session' = [session EXCEPT ![c] = None]
  /\ kiosks' = [kiosks EXCEPT ![c] = NoKiosk]
  /\ phase' = [phase EXCEPT ![s] = "gone"]
  /\ UNCHANGED <<userSession, pending, heartbeats>>

(***************************************************************************)
(* An ACTIVE row has been updated, or rows of observers are yet to be: the  *)
(* session of the id is ended (again) and the handler waits once more.      *)
(***************************************************************************)
KioskEndRow(s) ==
  LET c == ClientOf[s] IN
  /\ phase[s] = "ending"
  /\ c \in DbKiosk
  /\ session' = [session EXCEPT ![c] = None]
  /\ phase' = [phase EXCEPT ![s] = "removing"]
  /\ UNCHANGED <<kiosks, userSession, pending, heartbeats>>

(* The audit entry and the observer rows are written: the entry is removed. *)
KioskRemove(s) ==
  /\ phase[s] = "removing"
  /\ kiosks' = [kiosks EXCEPT ![ClientOf[s]] = NoKiosk]
  /\ phase' = [phase EXCEPT ![s] = "gone"]
  /\ UNCHANGED <<userSession, pending, heartbeats, session>>

(* The lookup of an id that is not a UUID is rejected: nothing is removed. *)
KioskEndRejected(s) ==
  /\ phase[s] = "ending"
  /\ ClientOf[s] \notin DbKiosk
  /\ phase' = [phase EXCEPT ![s] = "rejected"]
  /\ UNCHANGED <<kiosks, userSession, pending, heartbeats, session>>

(* An await of the handler rejects: the catch clause logs, nothing is undone. *)
CleanupFails(x) ==
  /\ phase[x] \in {"closing", "ending", "removing"}
  /\ phase' = [phase EXCEPT ![x] = "failed"]
  /\ UNCHANGED <<kiosks, userSession, pending, heartbeats, session>>

-----------------------------------------------------------------------------
KioskCleanup(s) ==
  \/ KioskCleanupOther(s)
  \/ KioskCleanupOwn(s)
  \/ KioskEndWithoutRow(s)
  \/ KioskEndRow(s)
  \/ KioskRemove(s)
  \/ KioskEndRejected(s)

KioskStep(s) ==
  \/ LoginFirst(s)
  \/ LoginAgain(s)
  \/ HeartbeatPing(s)
  \/ KioskCleanup(s)
  \/ \E k \in Kiosk :
       \/ RegisterKiosk(s, k)
       \/ RegisterKioskBegin(s, k)
       \/ RegisterKioskResume(s, k)

MonitorStep(m) ==
  \/ MonitorCleanup(m)
  \/ \E k \in Kiosk :
       \/ StartMonitoring(m, k)
       \/ StopMonitoring(m, k)
       \/ ForceStop(m, k)

Next ==
  \/ \E s \in KioskSocket : KioskStep(s)
  \/ \E m \in MonitorSocket : MonitorStep(m)
  \/ \E x \in Socket : Connect(x) \/ Disconnect(x) \/ CleanupFails(x)
  \/ \E k \in Kiosk : HeartbeatTimeout(k)

Spec == Init /\ [][Next]_vars

(***************************************************************************)
(* An awaited query settles, so a disconnect handler that has begun is run  *)
(* to its end or to a failure.  Nothing else is fair: clients may stop      *)
(* pinging, calling or connecting.                                          *)
(***************************************************************************)
KioskCleanupEnds(s) == KioskCleanup(s) \/ CleanupFails(s)

MonitorCleanupEnds(m) == MonitorCleanup(m) \/ CleanupFails(m)

KioskCleanupRuns(s) == WF_vars(KioskCleanupEnds(s))

MonitorCleanupRuns(m) == WF_vars(MonitorCleanupEnds(m))

CleanupFairness ==
  /\ \A s \in KioskSocket : KioskCleanupRuns(s)
  /\ \A m \in MonitorSocket : MonitorCleanupRuns(m)

-----------------------------------------------------------------------------
(* Properties *)

TypeOK ==
  /\ phase \in [Socket -> Phase]
  /\ kiosks \in [Kiosk -> KioskEntry]
  /\ userSession \in [Kiosk -> KioskSocket \cup {None}]
  /\ pending \subseteq KioskSocket \X Kiosk
  /\ heartbeats \subseteq Kiosk
  /\ session \in [Kiosk -> MonitorSocket \cup {None}]

(***************************************************************************)
(* No zombie lock: whoever owns a session is connected, or its disconnect   *)
(* handler has not reached the point that ends its sessions, or that        *)
(* handler failed.  A session that outlived a completed handler would block *)
(* the kiosk for every monitor that does not reclaim.                       *)
(***************************************************************************)
SessionOwnerPresent ==
  \A k \in Kiosk :
    session[k] # None => phase[session[k]] \in {"open", "closing", "failed"}

(***************************************************************************)
(* Ids under which only device-token kiosks register, each under its own    *)
(* client id, and for which no ACTIVE row can exist.                        *)
(***************************************************************************)
PlainKiosk ==
  {k \in Kiosk \ (AppClient \cup DbKiosk) :
     \A s \in KioskSocket : k \in RegisterAs[s] => ClientOf[s] = k}

(* The session of k is about an online kiosk whose connection is not over. *)
SessionHasKiosk(k) ==
  session[k] # None =>
    /\ IsKioskOnline(k)
    /\ phase[kiosks[k].socket] # "gone"

(***************************************************************************)
(* A plain kiosk is monitored only while it is online and before its        *)
(* socket's disconnect handler is done, however registrations, pings,       *)
(* timeouts and handlers of several sockets with the same id interleave.    *)
(***************************************************************************)
PlainSessionHasKiosk == \A k \in PlainKiosk : SessionHasKiosk(k)

(***************************************************************************)
(* A session has both its ends, or somebody is about to notice that it has  *)
(* not: a monitor whose cleanup is still to come and, on a plain kiosk, a   *)
(* kiosk that is online.                                                    *)
(***************************************************************************)
SessionsAttended == SessionOwnerPresent /\ PlainSessionHasKiosk

(***************************************************************************)
(* A kiosk's disconnect handler that runs to its end leaves no entry online *)
(* with the lost socket, whatever id it registered under.  The kiosk of an  *)
(* app user registers under its device id, while the handler looks for the  *)
(* client id only.                                                          *)
(***************************************************************************)
DisconnectTakesKioskOffline ==
  [][\A s \in KioskSocket :
       phase[s] # "gone" /\ phase'[s] = "gone" =>
         \A k \in Kiosk : kiosks'[k] # OnlineAs(s)]_vars

(***************************************************************************)
(* An app user has at most one open kiosk connection, the one the login     *)
(* table names: a later disconnect of a replaced socket never erases the    *)
(* login of the socket that replaced it.                                    *)
(***************************************************************************)
SingleLogin ==
  \A s \in KioskSocket :
    IsApp(s) /\ phase[s] = "open" => userSession[ClientOf[s]] = s

(* A disconnect handler that owned entry k is past the point of no return. *)
LeftoverHandler(k) ==
  \E s \in KioskSocket : ClientOf[s] = k /\ phase[s] \in {"ending", "removing"}

RemovesLiveKiosk(k) ==
  /\ kiosks[k] # NoKiosk
  /\ phase[kiosks[k].socket] = "open"
  /\ kiosks'[k] = NoKiosk

(***************************************************************************)
(* The entry of a connected kiosk is not removed by the disconnect handler  *)
(* of a socket it was transferred from.  Only a handler already waiting for *)
(* the end of the session can do that.                                      *)
(***************************************************************************)
TransferredKioskKept ==
  [][\A k \in Kiosk : RemovesLiveKiosk(k) => LeftoverHandler(k)]_vars

(***************************************************************************)
(* A lost connection is cleaned up: its sessions end and, for a device      *)
(* token, the kiosk it registered under its own id stops being its online   *)
(* kiosk, unless the disconnect handler fails.                              *)
(***************************************************************************)
LostConnectionsCleaned ==
  /\ \A m \in MonitorSocket :
       phase[m] = "closing" ~> (phase[m] = "failed" \/ \A k \in Kiosk : session[k] # m)
  /\ \A s \in {x \in KioskSocket : ~IsApp(x)} :
       phase[s] = "closing" ~> (phase[s] = "failed" \/ kiosks[ClientOf[s]] # OnlineAs(s))

(***************************************************************************)
(* The sessions implement the abstract lock.                                *)
(***************************************************************************)
Lock == INSTANCE MonitorLock WITH
          Monitor <- MonitorSocket,
          lock <- session,
          up <- {m \in MonitorSocket : phase[m] = "open"}

LockSpec == Lock!Spec

=============================================================================
