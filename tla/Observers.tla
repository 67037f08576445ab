----------------------------- MODULE Observers -----------------------------
(***************************************************************************)
(* Observers of monitoring sessions: the registry of active sessions        *)
(* (src/state/active-sessions.state.js), the service that lets silent       *)
(* observers join and leave it (src/services/session.service.js), and the   *)
(* socket handlers and hooks around both (src/socket/observer.handlers.js). *)
(*                                                                          *)
(* The sessions are those of devices, which have a row; how they begin and  *)
(* end is the subject of DeviceSessions and appears here as far as the      *)
(* registry hears of it or should.  A session's id is that of its row.      *)
(***************************************************************************)
EXTENDS Naturals, FiniteSets

CONSTANTS
  Monitored,     \* monitored devices
  Session,       \* ids of the rows of monitoring_sessions
  Watcher,       \* sockets of people who may observe
  Person,        \* the people, who have a seat each
  PersonOf,      \* Watcher -> Person
  Ender,         \* handlers that end sessions, as many as overlap
  MaxObservers,  \* MAX_OBSERVERS_PER_SESSION
  MaxWork,       \* bound on the calls about observers in flight
  MaxFault,      \* bound on the queries the database fails
  Nil

ASSUME ObserverConstantsAssumption ==
  /\ PersonOf \in [Watcher -> Person]
  /\ MaxObservers \in Nat
  /\ MaxFault \in Nat
  /\ Nil \notin Monitored \cup Session \cup Watcher

VARIABLES
  activeRow,   \* the ACTIVE row of each device
  inMemory,    \* the devices with a session in sessions.state.js
  born,        \* the rows inserted so far
  starting,    \* start-monitoring calls about to register their session
  registry,    \* activeSessions
  index,       \* kioskToSessionId
  rows,        \* rows of session_observers whose left_at is null
  socket,      \* each watcher's connection
  observing,   \* socket.data: the session a watcher observes, if isObserver
  join,        \* joinAsObserver calls in flight, by watcher
  leave,       \* leave-observer calls in flight, by watcher
  lost,        \* leaveObserver calls of disconnect handlers, by watcher
  stale,       \* the leaveObserver call of the stale cleanup
  ending,      \* the handlers that end a session
  faults,      \* queries failed so far
  strayed,     \* history: watchers that joined a second session, or when gone
  leaked       \* history: observers forgotten with their row still open

monitoring == <<activeRow, inMemory, born, starting>>
calls == <<join, leave, lost, stale>>
history == <<strayed, leaked>>
observerVars == <<monitoring, registry, index, rows, socket, observing, calls, ending,
                  faults, history>>

NoBody == [u \in Person |-> Nil]

NoEntry == [kiosk |-> Nil, on |-> NoBody]

NoJoin == [stage |-> "idle", kiosk |-> Nil, session |-> Nil]

NoLeave == [stage |-> "idle", session |-> Nil]

NoEnding == [stage |-> "idle", kiosk |-> Nil, session |-> Nil]

Observation == [session : Session, user : Person]

NoStale == [session |-> Nil, user |-> Nil]

Known(s) == registry[s].kiosk # Nil

On(s) == {u \in Person : registry[s].on[u] # Nil}

OpenRow(s, u) == [session |-> s, user |-> u]

ObserverInit ==
  /\ activeRow = [k \in Monitored |-> Nil]
  /\ inMemory = {}
  /\ born = {}
  /\ starting = [k \in Monitored |-> Nil]
  /\ registry = [s \in Session |-> NoEntry]
  /\ index = [k \in Monitored |-> Nil]
  /\ rows = {}
  /\ socket = [w \in Watcher |-> "open"]
  /\ observing = [w \in Watcher |-> Nil]
  /\ join = [w \in Watcher |-> NoJoin]
  /\ leave = [w \in Watcher |-> NoLeave]
  /\ lost = [w \in Watcher |-> Nil]
  /\ stale = NoStale
  /\ ending = [e \in Ender |-> NoEnding]
  /\ faults = 0
  /\ strayed = {}
  /\ leaked = {}

(* Nobody will close these rows, those that are open. *)
Forgotten(R) == leaked' = leaked \cup (R \cap rows)

QueryThrows == faults < MaxFault /\ faults' = faults + 1

-----------------------------------------------------------------------------
(* Monitoring sessions, as far as the registry is concerned *)

(***************************************************************************)
(* start-monitoring has the row and the session in memory: new, or its own. *)
(* One such call at a time is on its way for each device.                   *)
(***************************************************************************)
Start(k, s) ==
  /\ starting[k] = Nil
  /\ activeRow[k] = s \/ (activeRow[k] = Nil /\ s \notin born)
  /\ activeRow' = [activeRow EXCEPT ![k] = s]
  /\ inMemory' = inMemory \cup {k}
  /\ born' = born \cup {s}
  /\ starting' = [starting EXCEPT ![k] = s]
  /\ UNCHANGED <<registry, index, rows, socket, observing, calls, ending, faults, history>>

(***************************************************************************)
(* handleMonitoringStartedRegistry: after the audit log, and the query for  *)
(* the division if the row has none.  An entry under the same id is written *)
(* over, its observers with it.                                             *)
(***************************************************************************)
Register(k) ==
  LET s == starting[k] IN
  /\ s # Nil
  /\ registry' = [registry EXCEPT ![s] = [kiosk |-> k, on |-> NoBody]]
  /\ index' = [index EXCEPT ![k] = s]
  /\ starting' = [starting EXCEPT ![k] = Nil]
  /\ Forgotten({OpenRow(s, u) : u \in On(s)})
  /\ UNCHANGED <<activeRow, inMemory, born, rows, socket, observing, calls, ending, faults,
                 strayed>>

(* stop-monitoring or force-stop-monitoring finds the row ... *)
Stop(e, k) ==
  /\ ending[e] = NoEnding
  /\ activeRow[k] # Nil
  /\ ending' = [ending EXCEPT ![e] = [stage |-> "found", kiosk |-> k, session |-> activeRow[k]]]
  /\ UNCHANGED <<monitoring, registry, index, rows, socket, observing, calls, faults, history>>

(* ... and ends it, and whatever session of the device is in memory then. *)
StopRow(e) ==
  LET k == ending[e].kiosk IN
  /\ ending[e].stage = "found"
  /\ activeRow' = [activeRow EXCEPT ![k] = IF @ = ending[e].session THEN Nil ELSE @]
  /\ inMemory' = inMemory \ {k}
  /\ ending' = [ending EXCEPT ![e].stage = "hook", ![e].session = Nil]
  /\ UNCHANGED <<born, starting, registry, index, rows, socket, observing, calls, faults, history>>

(* The kiosk or the monitor disconnects: the memory, and then the row ... *)
Lost(e, k) ==
  /\ ending[e] = NoEnding
  /\ k \in inMemory
  /\ inMemory' = inMemory \ {k}
  /\ ending' = [ending EXCEPT ![e] = [NoEnding EXCEPT !.stage = "row", !.kiosk = k]]
  /\ UNCHANGED <<activeRow, born, starting, registry, index, rows, socket, observing, calls,
                 faults, history>>

(* ... unless the monitor is an admin, whose rows are left alone. *)
LostRow(e) ==
  /\ ending[e].stage = "row"
  /\ ending' = [ending EXCEPT ![e].stage = "hook"]
  /\ \/ /\ activeRow' = [activeRow EXCEPT ![ending[e].kiosk] = Nil]
        /\ inMemory' = inMemory \ {ending[e].kiosk}
     \/ UNCHANGED <<activeRow, inMemory>>
  /\ UNCHANGED <<born, starting, registry, index, rows, socket, observing, calls, faults, history>>

(* tryRestoreRecentSessions: in memory only, its row is always rejected. *)
Restore(k) ==
  /\ k \notin inMemory
  /\ born # {}
  /\ inMemory' = inMemory \cup {k}
  /\ UNCHANGED <<activeRow, born, starting, registry, index, rows, socket, observing, calls, ending,
                 faults, history>>

(***************************************************************************)
(* A silent kiosk, a silent monitor, the loss of another connection of the  *)
(* same user, or a handler that fails before its hook ends a session, and   *)
(* the registry does not hear of it.                                        *)
(***************************************************************************)
Timeout(k) ==
  /\ inMemory' = inMemory \ {k}
  /\ \/ /\ activeRow[k] # Nil
        /\ activeRow' = [activeRow EXCEPT ![k] = Nil]
     \/ /\ k \in inMemory
        /\ UNCHANGED activeRow
  /\ UNCHANGED <<born, starting, registry, index, rows, socket, observing, calls, ending, faults,
                 history>>

-----------------------------------------------------------------------------
(* handleMonitoringEndedRegistry *)

(* disconnectAllObserversForSession: those registered are told and dropped. *)
EndMark(e) ==
  LET s == index[ending[e].kiosk]
      told == {w \in Watcher : socket[w] = "open" /\ registry[s].on[PersonOf[w]] = w}
  IN
  /\ ending[e].stage = "hook"
  /\ IF s = Nil
       THEN /\ ending' = [ending EXCEPT ![e] = NoEnding]
            /\ UNCHANGED <<registry, observing>>
       ELSE /\ ending' = [ending EXCEPT ![e].stage = "rows", ![e].session = s]
            /\ registry' = [registry EXCEPT ![s].on = NoBody]
            /\ observing' = [w \in Watcher |-> IF w \in told THEN Nil ELSE observing[w]]
  /\ UNCHANGED <<monitoring, index, rows, socket, calls, faults, history>>

RowsClosed(R) ==
  /\ rows' = rows \ R
  /\ leaked' = leaked \ R

EndRows(e) ==
  /\ ending[e].stage = "rows"
  /\ RowsClosed({r \in Observation : r.session = ending[e].session})
  /\ ending' = [ending EXCEPT ![e].stage = "close"]
  /\ UNCHANGED <<monitoring, registry, index, socket, observing, calls, faults, strayed>>

EndRowsFail(e) ==
  /\ ending[e].stage = "rows"
  /\ QueryThrows
  /\ ending' = [ending EXCEPT ![e] = NoEnding]
  /\ Forgotten({r \in rows : r.session = ending[e].session})
  /\ UNCHANGED <<monitoring, registry, index, rows, socket, observing, calls, strayed>>

(* Mutant of CloseEntry: the device's id is not forgotten. *)
CloseEntryKeepsIndex(s) ==
  /\ registry' = [registry EXCEPT ![s] = NoEntry]
  /\ Forgotten({OpenRow(s, u) : u \in On(s)})
  /\ UNCHANGED index

(* closeActiveSession: also the device's id, whichever session it stands for. *)
CloseEntry(s) ==
  /\ registry' = [registry EXCEPT ![s] = NoEntry]
  /\ Forgotten({OpenRow(s, u) : u \in On(s)})
  /\ index' = [index EXCEPT ![registry[s].kiosk] = Nil]

(***************************************************************************)
(* The entry is closed.  Somebody else may have done so already: then       *)
(* onMonitoringSessionEnded closes the one the device's id stands for now.  *)
(***************************************************************************)
EndClose(e) ==
  LET s == ending[e].session
      other == index[ending[e].kiosk]
  IN
  /\ ending[e].stage = "close"
  /\ ending' = [ending EXCEPT ![e] = NoEnding]
  /\ IF Known(s) THEN CloseEntry(s)
     ELSE IF other # Nil THEN CloseEntry(other)
     ELSE UNCHANGED <<registry, index, leaked>>
  /\ UNCHANGED <<monitoring, rows, socket, observing, calls, faults, strayed>>

-----------------------------------------------------------------------------
(* join-as-observer *)

(* The sessions at which w is the socket registered for its user. *)
SeatsOf(w) == {s \in Session : registry[s].on[PersonOf[w]] = w}

Work ==
    Cardinality({w \in Watcher : join[w] # NoJoin})
  + Cardinality({w \in Watcher : leave[w] # NoLeave})
  + Cardinality({w \in Watcher : socket[w] = "closing" \/ lost[w] # Nil})
  + IF stale = NoStale THEN 0 ELSE 1

HasRoom(s) == Cardinality(On(s)) < MaxObservers

(* The device is monitored still, by whatever session, and there is room. *)
MayObserve(s) == registry[s].kiosk \in inMemory /\ HasRoom(s)

(* addObserverToSession: of one user's sockets, the last that joined. *)
AddObserver(w, s) ==
  /\ registry' = [registry EXCEPT ![s].on[PersonOf[w]] = w]
  /\ join' = [join EXCEPT ![w] = [NoJoin EXCEPT !.stage = "insert", !.session = s]]
  /\ strayed' = IF socket[w] = "gone" \/ observing[w] \notin {Nil, s} \/ SeatsOf(w) \ {s} # {}
                  THEN strayed \cup {w} ELSE strayed

JoinById(w, s) ==
  /\ socket[w] = "open"
  /\ join[w] = NoJoin
  /\ Work < MaxWork
  /\ Known(s)
  /\ MayObserve(s)
  /\ AddObserver(w, s)
  /\ UNCHANGED <<monitoring, index, rows, socket, observing, leave, lost, stale, ending, faults,
                 leaked>>

(* The id is that of a device, or of a row not registered: a query looks. *)
JoinLookup(w, k) ==
  /\ socket[w] = "open"
  /\ join[w] = NoJoin
  /\ Work < MaxWork
  /\ join' = [join EXCEPT ![w] = [NoJoin EXCEPT !.stage = "lookup", !.kiosk = k]]
  /\ UNCHANGED <<monitoring, registry, index, rows, socket, observing, leave, lost, stale,
                 ending, faults, history>>

(* Connected or not by now, the watcher joins what the device's id stands for. *)
JoinByKiosk(w) ==
  LET s == index[join[w].kiosk] IN
  /\ join[w].stage = "lookup"
  /\ IF s # Nil /\ MayObserve(s)
       THEN AddObserver(w, s)
       ELSE /\ join' = [join EXCEPT ![w] = NoJoin]
            /\ UNCHANGED <<registry, strayed>>
  /\ UNCHANGED <<monitoring, index, rows, socket, observing, leave, lost, stale, ending, faults,
                 leaked>>

(* The row is inserted, whatever has become of the observer. *)
JoinInsert(w) ==
  LET s == join[w].session
      row == OpenRow(s, PersonOf[w])
  IN
  /\ join[w].stage = "insert"
  /\ rows' = rows \cup {row}
  /\ leaked' = IF PersonOf[w] \in On(s) THEN leaked ELSE leaked \cup {row}
  /\ join' = [join EXCEPT ![w].stage = "mode"]
  /\ UNCHANGED <<monitoring, registry, index, socket, observing, leave, lost, stale, ending,
                 faults, strayed>>

JoinFails(w) ==
  /\ join[w].stage = "insert"
  /\ QueryThrows
  /\ join' = [join EXCEPT ![w] = NoJoin]
  /\ UNCHANGED <<monitoring, registry, index, rows, socket, observing, leave, lost, stale,
                 ending, history>>

(* After the audit log the socket is in observer mode. *)
JoinDone(w) ==
  /\ join[w].stage = "mode"
  /\ observing' = [observing EXCEPT ![w] = join[w].session]
  /\ join' = [join EXCEPT ![w] = NoJoin]
  /\ UNCHANGED <<monitoring, registry, index, rows, socket, leave, lost, stale, ending, faults,
                 history>>

-----------------------------------------------------------------------------
(* leaveObserver *)

(* removeObserverFromSession: by user, whichever socket is registered. *)
Removed(s, u) == [registry EXCEPT ![s].on[u] = Nil]

(* leave-observer, of any session the user is on. *)
Leave(w, s) ==
  /\ socket[w] = "open"
  /\ leave[w] = NoLeave
  /\ Work < MaxWork
  /\ PersonOf[w] \in On(s)
  /\ registry' = Removed(s, PersonOf[w])
  /\ leave' = [leave EXCEPT ![w] = [stage |-> "rows", session |-> s]]
  /\ UNCHANGED <<monitoring, index, rows, socket, observing, join, lost, stale, ending, faults,
                 history>>

(* Mutant of LeaveRows: the row is left open. *)
LeaveRowsForgotten(w) ==
  /\ leave[w].stage = "rows"
  /\ leave' = [leave EXCEPT ![w].stage = "mode"]
  /\ UNCHANGED <<monitoring, registry, index, rows, socket, observing, join, lost, stale, ending,
                 faults, history>>

LeaveRows(w) ==
  /\ leave[w].stage = "rows"
  /\ RowsClosed({OpenRow(leave[w].session, PersonOf[w])})
  /\ leave' = [leave EXCEPT ![w].stage = "mode"]
  /\ UNCHANGED <<monitoring, registry, index, socket, observing, join, lost, stale, ending,
                 faults, strayed>>

LeaveFails(w) ==
  /\ leave[w].stage = "rows"
  /\ QueryThrows
  /\ leave' = [leave EXCEPT ![w] = NoLeave]
  /\ Forgotten({OpenRow(leave[w].session, PersonOf[w])})
  /\ UNCHANGED <<monitoring, registry, index, rows, socket, observing, join, lost, stale, ending,
                 strayed>>

LeaveDone(w) ==
  /\ leave[w].stage = "mode"
  /\ observing' = [observing EXCEPT ![w] = Nil]
  /\ leave' = [leave EXCEPT ![w] = NoLeave]
  /\ UNCHANGED <<monitoring, registry, index, rows, socket, join, lost, stale, ending, faults,
                 history>>

-----------------------------------------------------------------------------
(* The loss of a watcher, and the stale cleanup *)

WatcherDisconnect(w) ==
  /\ socket[w] = "open"
  /\ Work < MaxWork
  /\ socket' = [socket EXCEPT ![w] = "closing"]
  /\ UNCHANGED <<monitoring, registry, index, rows, observing, calls, ending, faults, history>>

(* Mutant of LostUnflagged: only sockets in observer mode are cleaned up. *)
LostUnflaggedIgnored(w) ==
  /\ socket[w] = "closing"
  /\ observing[w] = Nil
  /\ socket' = [socket EXCEPT ![w] = "gone"]
  /\ UNCHANGED <<monitoring, registry, index, rows, observing, calls, ending, faults, history>>

(***************************************************************************)
(* handleObserverDisconnect of a socket not in observer mode: its observers *)
(* are dropped first, so that leaveObserver finds none and updates no row.  *)
(***************************************************************************)
LostUnflagged(w) ==
  /\ socket[w] = "closing"
  /\ observing[w] = Nil
  /\ socket' = [socket EXCEPT ![w] = "gone"]
  /\ registry' = [s \in Session |->
                    IF s \in SeatsOf(w) THEN [registry[s] EXCEPT !.on[PersonOf[w]] = Nil]
                    ELSE registry[s]]
  /\ Forgotten({OpenRow(s, PersonOf[w]) : s \in SeatsOf(w)})
  /\ UNCHANGED <<monitoring, index, rows, observing, calls, ending, faults, strayed>>

(* In observer mode: its user leaves the session it observes, and no other. *)
LostObserver(w) ==
  LET s == observing[w] IN
  /\ socket[w] = "closing"
  /\ s # Nil
  /\ socket' = [socket EXCEPT ![w] = "gone"]
  /\ IF PersonOf[w] \in On(s)
       THEN /\ registry' = Removed(s, PersonOf[w])
            /\ lost' = [lost EXCEPT ![w] = s]
       ELSE UNCHANGED <<registry, lost>>
  /\ UNCHANGED <<monitoring, index, rows, observing, join, leave, stale, ending, faults, history>>

LostRows(w) ==
  /\ lost[w] # Nil
  /\ RowsClosed({OpenRow(lost[w], PersonOf[w])})
  /\ lost' = [lost EXCEPT ![w] = Nil]
  /\ UNCHANGED <<monitoring, registry, index, socket, observing, join, leave, stale, ending,
                 faults, strayed>>

LostFails(w) ==
  /\ lost[w] # Nil
  /\ QueryThrows
  /\ lost' = [lost EXCEPT ![w] = Nil]
  /\ Forgotten({OpenRow(lost[w], PersonOf[w])})
  /\ UNCHANGED <<monitoring, registry, index, rows, socket, observing, join, leave, stale, ending,
                 strayed>>

(* cleanupStaleObservers: an observer that has signalled once, and not lately. *)
Stale(s, u) ==
  /\ stale = NoStale
  /\ Work < MaxWork
  /\ u \in On(s)
  /\ registry' = Removed(s, u)
  /\ stale' = OpenRow(s, u)
  /\ UNCHANGED <<monitoring, index, rows, socket, observing, join, leave, lost, ending, faults,
                 history>>

StaleRows ==
  /\ stale # NoStale
  /\ RowsClosed({stale})
  /\ stale' = NoStale
  /\ UNCHANGED <<monitoring, registry, index, socket, observing, join, leave, lost, ending,
                 faults, strayed>>

StaleFails ==
  /\ stale # NoStale
  /\ QueryThrows
  /\ Forgotten({stale})
  /\ stale' = NoStale
  /\ UNCHANGED <<monitoring, registry, index, rows, socket, observing, join, leave, lost, ending,
                 strayed>>

-----------------------------------------------------------------------------
SessionStep(k) ==
  \/ \E s \in Session : Start(k, s)
  \/ Register(k)
  \/ \E e \in Ender : Stop(e, k) \/ Lost(e, k)
  \/ Restore(k)
  \/ Timeout(k)

EnderStep(e) ==
  \/ StopRow(e)
  \/ LostRow(e)
  \/ EndMark(e)
  \/ EndRows(e)
  \/ EndRowsFail(e)
  \/ EndClose(e)

JoinStep(w) ==
  \/ \E s \in Session : JoinById(w, s)
  \/ \E k \in Monitored : JoinLookup(w, k)
  \/ JoinByKiosk(w)
  \/ JoinInsert(w)
  \/ JoinFails(w)
  \/ JoinDone(w)

LeaveStep(w) ==
  \/ \E s \in Session : Leave(w, s)
  \/ LeaveRows(w)
  \/ LeaveFails(w)
  \/ LeaveDone(w)

LostStep(w) ==
  \/ WatcherDisconnect(w)
  \/ LostUnflagged(w)
  \/ LostObserver(w)
  \/ LostRows(w)
  \/ LostFails(w)

StaleStep == (\E s \in Session, u \in Person : Stale(s, u)) \/ StaleRows \/ StaleFails

ObserverNext ==
  \/ \E k \in Monitored : SessionStep(k)
  \/ \E e \in Ender : EnderStep(e)
  \/ \E w \in Watcher : JoinStep(w) \/ LeaveStep(w) \/ LostStep(w)
  \/ StaleStep

ObserverSpec == ObserverInit /\ [][ObserverNext]_observerVars

-----------------------------------------------------------------------------
(* Properties *)

ObserverTypeOK ==
  /\ activeRow \in [Monitored -> Session \cup {Nil}]
  /\ inMemory \subseteq Monitored
  /\ born \subseteq Session
  /\ starting \in [Monitored -> Session \cup {Nil}]
  /\ registry \in [Session -> [kiosk : Monitored \cup {Nil}, on : [Person -> Watcher \cup {Nil}]]]
  /\ index \in [Monitored -> Session \cup {Nil}]
  /\ rows \subseteq Observation
  /\ socket \in [Watcher -> {"open", "closing", "gone"}]
  /\ observing \in [Watcher -> Session \cup {Nil}]
  /\ join \in [Watcher -> {NoJoin}
                 \cup [stage : {"lookup"}, kiosk : Monitored, session : {Nil}]
                 \cup [stage : {"insert", "mode"}, kiosk : {Nil}, session : Session]]
  /\ leave \in [Watcher -> {NoLeave} \cup [stage : {"rows", "mode"}, session : Session]]
  /\ lost \in [Watcher -> Session \cup {Nil}]
  /\ stale \in Observation \cup {NoStale}
  /\ ending \in [Ender -> {NoEnding}
                \cup [stage : {"row", "hook"}, kiosk : Monitored, session : {Nil}]
                \cup [stage : {"found", "rows", "close"}, kiosk : Monitored, session : Session]]
  /\ faults \in 0 .. MaxFault
  /\ strayed \subseteq Watcher
  /\ leaked \subseteq Observation

(***************************************************************************)
(* kioskToSessionId never dangles: it leads from a device to an entry of    *)
(* the registry, and to one of that device, however late the handlers of    *)
(* earlier sessions close their entries.                                    *)
(***************************************************************************)
IndexSound == \A k \in Monitored : index[k] # Nil => registry[index[k]].kiosk = k

(***************************************************************************)
(* handleObserverDisconnect: once it has looked, a disconnected watcher is  *)
(* registered nowhere, whether its joins were complete or not.  The code    *)
(* does not promise it to those that strayed: that joined a session while   *)
(* at another one, or whose lookup came back when they were gone.           *)
(***************************************************************************)
GoneObserverForgotten ==
  \A w \in Watcher, s \in Session :
    /\ socket[w] = "gone"
    /\ registry[s].on[PersonOf[w]] = w
    => w \in strayed

(* Some call is on its way to close the row. *)
Closing(s, u) ==
  \/ \E w \in Watcher : PersonOf[w] = u /\ leave[w] = [stage |-> "rows", session |-> s]
  \/ \E w \in Watcher : PersonOf[w] = u /\ lost[w] = s
  \/ stale = OpenRow(s, u)
  \/ \E e \in Ender : ending[e].stage = "rows" /\ ending[e].session = s

(***************************************************************************)
(* An open row of session_observers is that of an observer, or is about to  *)
(* be closed, or is one of those the code forgets: by a repeated start, by  *)
(* the loss of a socket not yet in observer mode, by an insert that comes   *)
(* late, by the close of an entry joined meanwhile, or by a failing query.  *)
(***************************************************************************)
RowsAccounted ==
  \A r \in rows :
    \/ r.user \in On(r.session)
    \/ Closing(r.session, r.user)
    \/ r \in leaked

=============================================================================
