# A TLA+ model of the railway monitor

The repository is a Node.js backend (Express, Socket.IO, Sequelize on
PostgreSQL) for the supervision of railway kiosks, cameras and Raspberry Pi
agents.  Monitors (people) lock a kiosk or a device and watch it, call the crew
in front of it, or request a live stream from an agent; the server keeps the
locks, relays WebRTC signalling, tracks presence, and tries to recover devices
whose health check fails.  Beside that it has a back office: forms that crews
fill in (logged in or by a public link), registers of the answers, users with
pictures and faces, the organisation (divisions, lobbies, devices) and reports.

This directory holds TLA+ modules for the parts of the server in which the
order of events matters, TLC configurations that check them on small instances,
and proofs that TLAPS checks for every value of the constants.  Paths below are
relative to the root of the repository.

## 1. How the server runs, and how the models see it

One process, one thread.  A handler of a socket event or an HTTP request runs
without interruption from one `await` to the next; at an `await` that waits for
the database any other handler, timer or disconnect may run.  Hence the grain
of all models: **one action per handler, cut at its awaits**.  A query is run by
PostgreSQL at one moment and its answer is used at a later one, so a query and
the code that uses its result are two steps where other steps may fall between.
`await` of something already settled yields no other handler and is not a cut.

State lives in four places:

* *memory*: JavaScript `Map`s in `src/state/*`, `src/utils/heartbeat.js`,
  `stream.service.js`, the pending offers - lost when the process restarts;
* *the database*: rows, which survive a restart, with the unique indexes the
  Sequelize models declare;
* *transactions*: what one writes is seen by others when it commits; the rows it
  locked or wrote are its own until then, and it holds a connection of the pool;
* *stores beside the database*: frame files, avatars in an object store, faces in
  a collection, which no transaction spans.

`instance.update()` of Sequelize writes the columns that differ from the copy the
instance was loaded into.  A handler that loaded `ONLINE` does not write `ONLINE`,
whatever the row says by then; several models depend on that.

What makes it hard:

* **interleaving** of handlers of several sockets of one client (duplicate
  logins, several connections of a user or an agent) and of timers with all of
  them;
* **state read before an await and used after it**: the owner of a kiosk entry,
  the ACTIVE row of a device, the copy of a row, a JSON column written back whole;
* **a lock that exists twice**, in memory and as a row;
* **partial failure**: an await that throws skips the rest of a handler, and the
  catch clause only logs; a store has changed and the row has not;
* **restart**: rows outlive the memory that knew about them;
* **timers** that are not cancelled or not told what they were set for;
* **reports** of several queries without a transaction, beside writers;
* **a pool** of connections, of which a request may need two.

## 2. Inventory

| Component | Source | State | Operations | What makes it correct |
|---|---|---|---|---|
| Socket core | `src/socket/index.js`, `src/state/{kiosks,user-sessions,sessions}.state.js`, `src/utils/heartbeat.js` | kiosk registry, login per user, monitoring sessions in memory, heartbeat store | connect and duplicate login, register-kiosk, heartbeat-ping and its timeout, start-, stop-, force-stop-monitoring, disconnect | one owner per session, changed only through "free"; a session neither outlives its monitor nor its kiosk; a replaced socket takes nothing with it |
| Call control | `src/socket/index.js` (1900-2290), `sessions.state.js` | call state and initiator in each session, timers of call-end | call-request, -accept, -reject, -end | the initiator is known exactly during a call; an ended call settles |
| Realtime manager | `src/socket/realtime.manager.js` | `monitoring_sessions`, `socket_presence`, cache of sessions to restore | startMonitoringSession, endMonitoringSession, endSessionsByMonitorUser, presence upsert, heartbeat, timeout sweep, restore | memory is a lock; a row is ended by who found it; no row is left without someone to end it, also after a crash |
| Live streams | `src/modules/streams/*`, `src/socket/stream.handlers.js` | `stream_sessions`, session registry | request, join, offer, answer, candidate, close (viewer lost, agent lost, delete, idle) | streams of lost viewers and abandoned streams are closed |
| Auto-heal | `src/modules/health/health.service.js`, `src/services/deviceHealth.scheduler.js` | `last_recovery_at`, recovery commands, AUTOHEAL_TRIGGERED log | tier runs, manual recovery | cooldown and hourly limit |
| Observers | `src/socket/observer.handlers.js`, `src/services/session.service.js`, `src/state/active-sessions.state.js` | registry of active sessions, observers, their rows | join, leave, stale cleanup, close | the index leads to a device's own entry; a lost observer keeps no seat; no row stays open unnoticed |
| Device commands | `realtime.manager.js` (500-620), `agent.service.js`, `monitoring.service.js` | `device_commands` | enqueue, push, claim, complete | a polling agent gets every command; a settled command stays so unless it was handed out twice |
| Pi agents | `src/socket/{agent,monitoring}.handlers.js`, `src/modules/agents/*`, `src/modules/monitoring/monitoring.service.js`, presence part of `realtime.manager.js` | `devices.status`, `socket_presence`, `socket.data` | register, heartbeat, reports, HTTP reports, disconnect, timeout sweep | presence and status follow the agent, whichever of its sockets lives |
| Pi frames | `monitoring.service.js` | frame files, `devices.meta` | upload, registration, MJPEG loop | viewers see the frame of the file; `meta` loses only what overlapped |
| Relayed offers | `monitoring.webrtc.controller.js`, `webrtc-offer.relay.js` | `pendingOffers` | offer, answer or error, timeout, loss of the agent | every offer is answered once and leaves the map |
| Forms | `src/modules/forms/*` | `forms`, `questions`, `form_submissions`, `answers` | submit, publish, create, extend and edit questions; history, users, summary, export | submissions fit the form; a published form stays; the pool does not wait for itself; figures of a report fit |
| Public forms | `src/modules/publicForms/*` | submissions with an idempotency key, users made on the way | submitPublicForm | an attempt is told what happened, and a retry that it was one |
| Registers | `src/modules/registers/*` | `register_questions` | replace questions; list entries by page | columns of one request; a listed entry shows what is its, and a page has what belongs on it |
| Users | `src/modules/users/*`, `src/modules/auth/auth.controller.js`, `s3Avatar.js`, `rekognitionFace.js` | `users`, object store, face collection | signup, approve, reject, deactivate, forgot and reset password, avatar (uploaded, removed, or named by an administrator), face | a decision stands; a link is used once; the row names pictures that exist |
| Organisation | `src/modules/{devices,lobbies,divisions}/*` | `devices`, `lobbies`, `divisions` | create, self-registration of a device, update, disable, reactivate, delete | a device's lobby is one of its division |
| Analytics | `src/modules/analytics/*`, reading half of `health.service.js` | none (reads health logs, commands, devices) | incidents and recovery by page, summary, SLA, division, lobby, device, health, logs | pages read one by one miss nothing, within the scope of the role |
| Rate limiter | `src/utils/rate.limiter.js` | windows per client and event | check, reset | not modelled: an event it refuses changes nothing else |
| WebRTC relay between kiosk and monitor | `src/socket/index.js` (1124-1652) | none | forward | not modelled: no state of its own |
| Crew events, media toggles | `src/socket/index.js` (1719-1880, 2302-2520) | display flags | broadcast | not modelled: no decision reads them |
| Authentication, roles, visibility | `src/auth/*`, `src/middleware/*`, `src/socket/kiosk-visibility.js` | none | check a token, a role | not modelled: sequential, the outcome is a constant or an input of the models |
| Bootstrap, migrations, configuration, API description | `src/server.js`, `src/models`, `src/config` | none | start | not modelled, except that a restart loses the memory, and for the size of the pool |

How they interact: every handler shares the `Map`s of one process.  The socket
core creates and ends sessions that call control writes calls into; the
realtime manager ends sessions in memory for rows it ends; the disconnect
handler in `index.js` calls, in this order, the presence update, the kiosk or
monitor cleanup, the realtime manager, the observers, the rate limiter.  An
agent's disconnect handlers mark its presence and then its device, and close its
streams; auto-heal queues commands the agent polls.  The health tiers and the
stream cleanup run on timers of their own.  The back office meets the rest only in
tables: a report reads what health tiers have written, a device that is moved or
deleted changes what later reports count.

`PROJECT.json` lists every component with its status, and under `hazards` each
place at which the code is hard to test, with the property that covers it or the
reason why none does.

## 3. Modules

| Module | Models | Extends or uses |
|---|---|---|
| `MonitorLock` | what all monitoring sessions promise: per kiosk a lock | - |
| `KioskSessions` | the socket core, with sessions in memory only | refines `MonitorLock` |
| `CallControl` | calls inside those sessions | EXTENDS `KioskSessions` (composition: every step of the core is a `SessionStep`) |
| `DeviceSessions` | sessions kept in memory and as rows, presence, restart | refines `MonitorLock` |
| `StreamSessions` | stream rows and registry, and all that closes them | - |
| `AutoHeal` | recovery of one device by overlapping runs | - |
| `Observers` | the registry of active sessions, its observers and their rows | - |
| `DeviceCommands` | the command queue of a device | - |
| `PiAgents` | presence and status of an agent with several sockets | - |
| `StreamFrames` | frame files, `meta`, the MJPEG loop | - |
| `WebrtcOffers` | offers relayed to an agent, their answers and timers | - |
| `Organisation` | one row of devices, lobbies or divisions under concurrent requests | - |
| `Accounts` | one account: approval, password links, pictures | - |
| `Forms` | submissions, publications and edits as transactions on a pool | - |
| `SubmitOnce` | what public submission promises: a ledger | - |
| `PublicForms` | public submissions and their retries | refines `SubmitOnce` |
| `Pages` | a page of an ordered list, by LIMIT and OFFSET | - |
| `Registers` | columns of a register and its listing | EXTENDS `Pages` |
| `FormReports` | reports on submissions | EXTENDS `Pages` |
| `FleetReports` | reports on devices | EXTENDS `Pages` |
| `KioskSessionsProofs`, `CallControlProofs`, `DeviceSessionsProofs`, `StreamSessionsProofs`, `ObserversProofs` | theorems | EXTEND their module and TLAPS; `CallControlProofs` also `KioskSessionsProofs` |
| `AutoHealProofs` | theorems on `AutoHeal` and `DeviceCommands` | EXTENDS both and TLAPS |
| `AgentsProofs` | theorems on `PiAgents`, `StreamFrames` and `WebrtcOffers` | EXTENDS them and TLAPS |
| `RecordsProofs` | theorems on the back office | EXTENDS its modules and TLAPS |
| `MC*` | constants and parts for TLC | EXTEND their modules |

**Parts.**  Modules that share no variable need not be interleaved: a property of
one sees nothing of the other.  `MCStation`, `MCSessions`, `MCAgents` and
`MCRecords` therefore hold several modules with a variable `part`; a behaviour is
one of a single part while the others rest, so that the state space is the sum of
the parts'.  In `MCSessions` the first of the interchangeable session ids is taken
first (`S1First`).  In `MCRecords` a part that rests does so in one fixed initial
state, the recovery commands of `AutoHeal`, which are interchangeable, are taken in
order (`FirstFreeTaken`), and what others do to tables is left out once no report can
see it (`FormReportMatters`, `FleetReportMatters`).

### The monitoring core

**MonitorLock.**  `lock` maps a kiosk to the monitor that holds it or `None`,
`up` is the set of monitors that may hold one.  A lock is acquired when free (or
reclaimed from a holder that is down) by a monitor that is up, and released; it
never passes from one monitor that is up to another in one step.  That is the
promise "monitoring is exclusive" behind `sessions.state.js`.

**KioskSessions.**  Variables and code: `phase` is a socket and the progress of
its disconnect handler (2530-2710 of `index.js`), `kiosks` is
`kiosks.state.js`, `userSession` is `user-sessions.state.js`, `pending` holds
register-kiosk calls that wait for the division of an app user (`index.js:295`),
`heartbeats` is the store of `heartbeat.js`, `session` is `sessions.state.js`
reduced to the owner.  A kiosk's disconnect handler has three cuts: the presence
update, the lookup of an ACTIVE row, and what is awaited after the row has been
ended.  `KioskEndRow` stands for "a row was found and updated" or "observer rows
are to be written"; which of the two needs no state of this module.  Sessions
that also have a row are left to `DeviceSessions` (the guard `MemoryOnly`).
Activity times, names, media state are left out: no decision reads them.

**CallControl.**  `call` is the call state and initiator in a session, `timers`
counts the one-second timers of call-end.  A session that ends takes its call
with it, its timers stay.  `CallSpec` is the core and its calls with fair timers;
`FairCallSpec` adds the core's own fairness, so that one run checks the
properties of both modules on the composition.

**DeviceSessions.**  `devSession` is the memory, `active` the ACTIVE row of a device
(one, by the partial unique index), `presence` the rows of `socket_presence`,
`cached` the sessions kept for a reconnect.  `start`, `restore`, `end`, `sweep`
are the calls in flight with what each has read: `start` has looked the row up
and decides later; `end` names the row it found; `sweep` works through the rows
of a user.  `Restart` clears all but the database.  Two components of state are
history: `late` on a row (inserted after its socket's handler had looked) and
the number of a row.

**StreamSessions.**  `row` and `registry`; `request`, `offers` and `close` are
calls in flight.  A caller of closeStreamSession (viewer's or agent's disconnect
handler, idle cleanup, delete route) has sessions to do, one being closed, and
for each reads, updates and releases.  Requests come from a viewer's socket or
from the HTTP routes.

**AutoHeal.**  Runs load the device row (`Load`), and after their checks decide
(`Spare`, `Attempt`), queue the command (`Enqueue`), stamp the row (`Stamp`) and
write the log (`WriteLog`), with a cut at each.  Times are ages in ticks.

**Observers.**  `registry` is the map `activeSessions` (an entry's device, and for
each user the socket registered), `index` is `kioskToSessionId`, `rows` are the
rows of `session_observers` still open, `observing` is the session in
`socket.data`.  `join`, `leave`, `lost`, `stale` and `ending` are calls in flight:
`joinAsObserver` (lookup, insert, audit log and then the flags of the socket),
`leaveObserver` on behalf of a message, of a disconnect handler and of the stale
cleanup, and the handlers that end a session up to `handleMonitoringEndedRegistry`
(mark the observers, close their rows, close the entry).  How sessions begin and
end is the subject of `DeviceSessions`; here it is reduced to what the registry
hears of it or should: `activeRow`, `inMemory`, `born`, `starting`.  `strayed` and
`leaked` are history: watchers that joined a session while at another one or when
gone, and rows nobody will close any more.  Left out: sessions without a row (a
plain kiosk's), joins that are denied, a restart, the last-seen times of
observers (`Stale` may take any).  The lookup of start-monitoring's row is no
step of its own, and one start is on its way for each device.

### The agent side

**DeviceCommands.**  `queue` holds the rows of one device by age, `state` their
status, `job` the fetch and result handlers in flight.  A fetch finds the oldest
pending row and claims it (`FetchFind`, `FetchClaim`) by an update of the loaded
copy; a result loads and writes likewise (`ResultLoad`, `ResultWrite`).  `owed`
counts results the agent may still report: one for each time a command was handed
to it, by a claim or by the push of `sendDeviceCommandForUser`; `handed` is
history.  `Forget` frees a settled command's name for another, for that the model
stays finite; nothing in the code deletes rows.

**PiAgents.**  `conn` are the connections an agent makes one after another or side
by side, `handling` the handler of an event in flight (a registration: `bind`,
`update`, `finish`; a heartbeat: `touch`, `write`; a report: `write`), `leaving` the
disconnect handler (`mark`, `load`, `write`), `found` the rows a sweep has loaded and
still has to take offline.  An agent awaits the acknowledgement of one event
before it sends the next, hence one handler per socket beside that of its
disconnect.  Events the reconnect guard or the rate limit suppress are no step.
`keeper` is history: the socket whose cleanup owes the device an OFFLINE.  It is
`None` when the write came after the cleanup had looked, when the socket had not
registered, or when the cleanup failed.

**StreamFrames.**  `file` is the frame on disk, which `writeFile` empties and then
fills; `meta` the JSON column, which uploads and registrations spread a copy of and
write back whole; `upload` the writers in flight, with the history `overtaken` (meta
was written since this one loaded it); `viewer` the loop of
`streamLiveMjpegForUser`: look at the time of the file, read it, push it.

**WebrtcOffers.**  `room` are the agent's sockets, `offer` the HTTP requests that
wait, `pending` the map `pendingOffers`, `unheard` the sockets that may still answer
an offer.  The first answer settles it; the timer of ten seconds settles what
nobody answered.

### The back office

**Organisation.**  `row` is a device, a lobby or a division (`entity`); a request of
an administrator loads the row, judges the copy and writes what differs from it
(`LoadRow`, `WriteRow`, `DeleteRow`).  A device may also register itself
(`RegisterDevice`), with a division and a lobby that nothing holds against each
other.  `link` is history, how the device came to its lobby: "judged" by a request
that had checked it, "registered" unchecked, or "crossed", by a request that wrote
lobby or division after another had done so since its copy was loaded.

**Accounts.**  `account` is one row (status, reset token, avatar key), `face` the
face enrolled for it, `objects` and `collection` the stores beside it, `request` the
requests with their next step.  `mailed` and `spent` are the links sent and used.
updateUser takes a profile_image_key from the body as it comes: null deletes the
object and clears the row (`ClearAvatar`), any other text is written unchecked
(`NameAvatar`), the empty one as null with the object left where it is.
`early` (requests begun before a decision or a use of their link), `torn`
(pictures that left their store while the row still named them) and `named` (the
row's key is one an administrator wrote) are history.

**Forms.**  `drafted`, `active` and `asked` are forms, the one that is active and
the questions; `visit` the requests as transactions with their row locks
(`formLocks`, `questionLocks`), each on a connection of the pool of `PoolSize`.
`SubmitForm` needs a second connection, since `getActiveFormByContext` is called
without the transaction; `AcquireTimesOut` is the pool's minute.
`PublishDeadlock` is PostgreSQL's answer to two publications that wait for each
other.  Questions are added, edited and deleted outside of transactions, by find
and write.

**SubmitOnce.**  `ledger` are the submissions, `asked` what each request submits,
`told` what it was answered.  A request first looks for its key (`Look`), and gets
the replay only then (`Replay`).  One that has looked is decided in one later step by
what the ledger holds at that moment: accepted, refused for the day's, turned away,
or failed.  That is what `submitPublicForm` comes to without its transaction, and it
is less than the documentation promises to retries, which is `RetryReplayed` of
`PublicForms` and does not hold (section 4).

**PublicForms.**  An `attempt` is one transaction with a key, a user and a duty: it
looks for the key, finds the form, locks its questions, finds or makes the user,
refuses a second submission for user and duty, inserts, commits.  Inserts that
would break a unique index wait for the transaction they conflict with and fail if
it commits; a failed statement aborts the transaction, so that no later query of it
succeeds.

**Registers.**  `columns` are the rows of `register_questions`, each with the request
that made it; a replacement checks the questions outside of its transaction,
deletes the rows its delete sees, waits for those another transaction is deleting,
inserts its own.  A listing of a page loads the columns, counts the entries, reads
those of the page and then their answers (`LoadRegister`, `CountRows`, `ListRows`,
`ListAnswers`).  An entry is a submission of a user with role USER within the dates
asked for.  `overlapped` and `moved` are history:
replacements during which another committed, listings during which a question's
key changed.

**FormReports.**  One `report` (history, users, summary or export), since a report
writes nothing, and what others do meanwhile: submissions commit, questions are
deleted or reworded, forms are published, users change status.  A figure is modelled
by the set of submissions it counts or lists, so that two figures can be compared;
the queries of one `Promise.all` run in any order.  A history is a page of the
submissions of one user, the list of users a page of the users; users, export and
participation are about users with role USER (`Crew`), the history and the summary's
other figures about whoever submits.

**Pages.**  A page of a set of rows in a fixed order (`Rank`): those with `offset` or
more rows before them and fewer than `offset + PageLimit`.

**FleetReports.**  One report as a sequence of queries (`Plan`), for each of the ten
kinds and three roles with their scopes, while logs are written, commands queued
and settled, devices moved and deleted.  Logs keep the lobby their device had;
commands have none and follow the device.  The ranking of divisions does not filter
when the list of lobbies is empty (`RankedLobbies`).  Of incidents and
recovery commands a page is read and then the total is counted; while the total says
that there is another page, the reader asks for it (`TurnPage`), and `seen` collects
what the pages showed.  The dates asked for are wide enough for all rows.  `Assigned` stands for `monitor_lobby_access`, which no code
under `src/` writes.

## 4. Runs

| Run | Instance | Shows |
|---|---|---|
| `station` | parts: 2 sockets of one device token, a monitor and an admin, 2 timers; 1 field monitor, 2 rows, 2 restarts, 2 failing queries | `SessionsAttended`: no zombie lock, and a monitored terminal is online; `LostConnectionsCleaned`: cleanup ends; `LockSpec`: refinement of the lock; `EndedSettles`: calls settle; `FieldRowAttended`; `RestartRecovers` |
| `sessions` | parts: field monitor and admin on one device, 2 rows; 1 device, 2 sessions, 1 socket of one person, 1 handler that ends sessions; 2 logins of one app user and a device token that share ids, an admin | `RowEndedByItsFinder`; `DeviceLockSpec`: refinement of the lock; `IndexSound`; `GoneObserverForgotten`; `RowsAccounted`; `SingleLogin`, `TransferredKioskKept`: late disconnect handlers of replaced sockets harm neither the login nor the entry of the newer one, except a handler that already waits for the end of the session |
| `stream` | 2 viewer sockets, HTTP, 1 agent, 1 session | `LostViewerStreamClosing`, `AbandonedStreamCloses` |
| `agents` | parts: 2 sockets of an agent, 2 rows; 2 cameras, 2 uploads, 1 registration; 2 offers, 2 sockets | `OnlineAccounted`, `PresenceKept`, `AgentComesOnline`, `LostRowSwept`, `PresenceReturns`: presence and status follow the agent; `MetaKept`, `FrameShown`; `OfferSettles` |
| `records` | nine parts, two overlapping requests each | see the next table |
| `kiosk_app` | 1 app kiosk, 1 monitor | *violation* of `DisconnectTakesKioskOffline` |
| `call_timer` | 1 kiosk socket, 1 monitor | *violation* of `TimerSparesNewCall` |
| `device_sibling` | 2 connections of a field monitor | *violation* of `ConnectionsIndependent` |
| `device_admin` | 1 admin | *violation* of `EveryRowAttended` |
| `stream_race` | 2 sessions | *violation* of `OneOpenStream` |
| `retry` | as `records` | *violation* of `RetryReplayed` |
| `device_division` | as `records` | *violation* of `DeviceInItsDivision` |

The parts of `records`:

| Part | Shows |
|---|---|
| recovery (`AutoHeal`) | `CommandsBounded`: how far overlapping runs overdraw the hourly limit, and no further; `RecoveryPaced`: the cooldown |
| commands (`DeviceCommands`) | `CommandHandedOut`: none is overtaken for ever; `SettledStays` |
| organisation | `DeviceLinked`: lobby and division fit where they were judged and not crossed |
| accounts | `DecisionStands`, `LinkUsedOnce`, `PicturesKept` |
| forms | `SubmissionFits`, `FormStaysPublished`, `SubmitSettles`: a pool full of submissions is not stuck |
| public forms | `SubmitOnceSpec`: refinement of the ledger; each key, and each person and duty, once, and an attempt is told what happened, as far as the ledger goes |
| registers | `MappingsOfOneRequest`; `ListedEntryShows`: columns, count, page and answers fit each other |
| form reports | `ReportsBracketed`: figures differ at most by what arrived meanwhile; `ExportShows` |
| fleet reports | `PagesCover`: who turns the pages to the last sees all there was |

Many properties carry exceptions worth reading, because they are where the code
gives no guarantee:

* `FieldRowAttended` excepts rows inserted after the sweep has looked (`late`),
  `RestartRecovers` a second crash in the middle of the recovery,
  `LostViewerStreamClosing` requests and offers that come after the cleanup;
* `GoneObserverForgotten` excepts watchers that `strayed` (a join whose lookup came
  back when the socket was gone, a join of a second session), `RowsAccounted` rows
  that `leaked` (a repeated start-monitoring writes the entry over with no
  observers; a socket lost before it was in observer mode is dropped from the
  registry first, so that `leaveObserver` finds nothing and updates no row; an
  insert comes after the observer has been removed; an entry is closed although
  somebody joined it since its rows were closed; a query fails);
* `OnlineAccounted` says nothing of a device whose `keeper` is `None` (section 3):
  its agent is gone and it stays ONLINE until another report; `PresenceKept`
  excepts rows a sweep has `found`, although a heartbeat may have touched them since;
* `AgentComesOnline` says "again and again" because the cleanup of an older socket
  does take the device OFFLINE under the newer one;
* `PicturesKept` excepts a picture deleted before the row was written (`torn`) and an
  avatar somebody `named`, `ListedEntryShows` a key that `moved` and, of its page,
  entries that were or came outside it, `ExportShows` questions that were `touched`,
  `PagesCover` devices that were deleted or, of commands, moved while the pages were
  read.

Some exceptions excuse the very thing a hazard names.  There the code does go wrong,
no property holds that would say otherwise, and what is checked is only that it goes
no further:

| Hazard | The code may | Excused by | What still holds |
|---|---|---|---|
| two moves of a device | leave it in a lobby of another division (`DeviceInItsDivision` is violated) | `link` "crossed" of `DeviceLinked`, "registered" of both | requests that do not cross keep lobby and division together |
| two decisions on an account | let the later write stand | `early` of `DecisionStands` | a decision already made is not undone by a request that comes later |
| two uses of a link | set the password twice | `early` of `LinkUsedOnce` | a link that was used is dead for later requests |
| two replacements of a register's columns | leave the columns of both | `overlapped` of `MappingsOfOneRequest` | replacements that follow each other do not mix |
| writers of `meta` | undo each other | `overtaken` of `MetaKept` | nothing is lost but what overlapped |
| health tiers that overlap | recover a device twice within the cooldown | `stale` of `RecoveryPaced` | no run that has seen the recovery does so; `CommandsBounded` bounds the rest |
| two polls, or a push and a poll | execute and settle a command twice | `handed` of `SettledStays` | every other settled command stays; each is handed out at least once |
| entries closed while joined | forget an open row | `leaked` of `RowsAccounted` | no other row is forgotten |
| a start slower than its disconnect | leave an ACTIVE row behind | `late` of `FieldRowAttended` | no other row is left |

None of these exceptions can be dropped: without it TLC finds a counterexample.

### What the violations mean

Each of these runs states what the repository says and finds a behaviour of the
code that does otherwise.

1. `kiosk_app`: the kiosk of an app user registers under its device id, its
   disconnect handler looks under the client id: the entry stays online.
2. `call_timer`: the one-second timer of call-end resets whatever call it finds,
   also a new one.
3. `device_sibling`: the loss of one connection of a field monitor ends the
   sessions of the user's other connections.
4. `device_admin`: the ACTIVE row of an admin is not ended when the admin
   disconnects, and the presence checker does not find it either.
5. `stream_race`: two requests for a stream both look, then both insert.
6. `retry`: `docs/public-form-integration.md` promises under "Idempotency" that a key
   already used is answered with 200 and `idempotent_replay`.  The key is looked up
   once, at the start.  A retry that looks before the attempt it repeats has committed
   is later told 409, that the user has already submitted today; where only its insert
   meets the key, the look at the winner happens in the aborted transaction and the
   answer is 500.
7. `device_division`: "lobby_id must belong to division_id" is judged by the copy each
   request has loaded; two requests that move a device at the same time leave it in a
   lobby of the division it has left.  The registration of a device by itself, which is
   not judged at all (`monitoring.service.js:141`), is left aside by the property.

### Bounds

* Each socket of a model connects once; more connections are more sockets.  Two
  sockets of a client suffice for every pair of old and new connection, and
  a monitor and an admin for an owner and a contender or reclaimer.
* `MaxTimers` = 2: a timer and the one of the call after it.
* `MaxRow`: rows ever inserted.  Two are a row and the one that takes its place.
* `EndTask`: one endMonitoringSession call at a time, beside one
  endSessionsByMonitorUser call, one start and one restore per socket.
* `MaxRestart` = 2 and `MaxFailure` = 2 in `station`: a crash and another
  while the first is being repaired, a failing handler and a failing sweep.
  `MaxFault` = 1 in `stream`: a restart or a failing close call.  They are 0
  where a run is about interleaving alone.
* `MaxClosing` = 1 caller beside the idle cleanup, so that two close at a time.
* `MaxObservers` = 2 stands for the limit of watchers of a session,
  more than the one watcher of the run.  `MaxWork` = 2: calls about observers in
  flight, a join beside a leave, a disconnect or the stale cleanup.  `MaxFault` = 1
  there, a failing query.  `Ender` has one handler that ends sessions, beside
  `Timeout`, which ends them unheard.  Several such handlers at once, several
  devices, users, and sockets of one user are covered by the proofs, which have no
  bound.
* `Limit` = 2, `Cooldown` = 2, `Hour` = 4 ticks keep the order of the code's 3,
  10 minutes and 1 hour: several cooldowns fit into an hour.  `MaxRunAge` = 1
  bounds the time a run takes, `MaxFailure` = 1 the writes that fail; five commands
  are more than two runs can queue in an hour.
* `agents`: two sockets are an old connection and the new one, two rows one for
  each; two uploads and a registration are every pair of writers of `meta`, on the
  same or on different cameras; two offers share the map of pending offers.
* `records`: two requests of each kind overlap in every order, and a request is made
  once.  Two commands and two handlers; `MaxHanded` = 3 times a command is handed out.
  Two divisions, one of them with two lobbies.  Two forms, of which one replaces the
  other; two questions of one form in the part forms, of two forms in registers and
  reports.  `PoolSize` = 2: two submissions fill it.  Two entries, one label and four
  choices of columns in a register.  `PageLimit` = 1 and `MaxPage` = 2: with two or
  three rows a page is full, and others come before or behind it; new rows may come
  in anywhere in the order.  Two submissions of a crew member and one of another
  account.  One device with three logs and two recovery commands, in any of three
  lobbies.  `ExportCap` = 1: the export is refused, or just fits.  The theorems need
  none of these values.

Taken as one step, although the code awaits in between: the queries of the
presence upsert (`upsertSocketPresence`) in `DeviceSessions`, those of a manual recovery,
reads that follow each other in `PiAgents`, load and update of an agent's HTTP
reports, count and rows of a history.  The order of a list has no ties (the database
keeps none among equal times), and a search or a status to filter by only makes the
set of rows smaller.  The idle cleanup iterates over the live `Map` of the registry; the model
takes the sessions at the beginning of the pass, a session added during a pass being
due in the next.  Passes of the idle cleanup do not overlap, nor do two sweeps for
the same socket in `DeviceSessions`; in `PiAgents` sweeps overlap.

### Fairness

* An awaited query settles: a disconnect handler that has begun goes on, or
  fails (`CleanupFairness`); so do the handlers of an agent's events, uploads,
  results of commands, and the requests of `Forms` (`Progress`, which includes
  the pool's timeout).  Failure is always possible, so liveness properties name it as
  an outcome or count it as the end.
* The timers of call-end and of relayed offers fire (`setTimeout`).
* The presence checker runs every 15 seconds.  In `DeviceSessions` it is fair only
  for sockets that died with the server, since only these are certain not to send a
  heartbeat; its sweep of rows goes on.  In `PiAgents` a row that stays online
  untouched is found and swept.
* The idle cleanup of streams runs every minute; the MJPEG loop goes on as long as
  its viewer is there.
* An agent with an open socket sends heartbeats, and polls for commands: both are
  timers of its program, and what the properties say is about agents that do.
  Strong fairness, since the model lets other events of the agent take turns with
  them.

Nothing a person does is fair.  Deadlock is not checked in any run: all sockets of
an instance may be gone, or all requests have been made, and the server then waits
for ever, as it should.  Waiting on one another is `SubmitSettles`.

## 5. Proofs

The theorems hold for any sets of sockets, kiosks, devices, users, sessions, forms,
requests and so on, any assignment of clients and tokens, any bound of section 4,
and any number of runs and commands.  The assumptions say no more than that functions
have their types, bounds are numbers, `None` and the like are none of the things they
stand beside, and sockets of different roles are distinct: `ConstantsAssumption`
(socket core), `CallConstantsAssumption`, `DeviceConstantsAssumption`,
`StreamConstantsAssumption`, `ObserverConstantsAssumption`,
`AgentConstantsAssumption`, `FrameConstantsAssumption`, `CommandConstantsAssumption`,
`OrganisationConstantsAssumption`, `AccountConstantsAssumption`,
`FormConstantsAssumption`, `PublicFormConstantsAssumption`,
`RegisterConstantsAssumption` (which also says that a replacement brings a question
once, as the unique index has it), `FormReportConstantsAssumption`,
`FleetConstantsAssumption`, `PagesAssumption`; `HealConstantsAssumption` also has finite sets, positive
times, and a run that takes less than an hour.

Every invariant and every action property that a run checks is proved, and so are
the refinements `LockSpec`, `DeviceLockSpec` and `SubmitOnceSpec`.  Of the liveness
properties, five are proved from safety and fairness under a hypothesis on ENABLED,
and six are only model-checked (both at the end of this section).

`KioskSessionsProofs`:

* `TypeCorrect` (`TypeOK`), on which the others rest.
* `OwnerPresent` (`SessionOwnerPresent`): inductive together with the types.
  Only `StartMonitoring` sets an owner, an open one, and only `MonitorCleanup`
  makes a socket "gone", and clears its sessions in the same step.
* `LoginSingle` (`SingleLogin`): inductive with the types; `LoginAgain` closes
  the socket it replaces, and `Disconnect` clears a login only if it is its own.
* `PlainSessions` (`PlainSessionHasKiosk`): not inductive as it stands.
  `PlainInv` adds that the entry of a plain kiosk is held by a socket of that
  very client and not by one that is done (`PlainEntryHeld`), that registrations
  that wait are those of app users (`PendingIsApp`), that a handler past the end
  of a row is one for an id that may have rows (`RemovingHasRow`), so it cannot
  remove a plain kiosk late, and that a monitored plain kiosk is online
  (`PlainSessionOnline`).
* `SessionsAlwaysAttended` (`SessionsAttended`): the two above together.
* `TransferKept` (`TransferredKioskKept`): each action that removes an entry is
  either the cleanup of the socket that owns it, which is not open, or a handler
  past the lookup.
* `LockRefined` (`LockSpec`): initial states map to initial states, each step to
  a lock step or a stutter; `OwnerPresent` is not needed, since acquisition is
  judged by the phase.
* `LostConnectionsClean` (`LostConnectionsCleaned`): see below.

`AutoHealProofs`:

* `HealTypeCorrect` (`HealTypeOK`).
* `HealPaced` (`RecoveryPaced`): from `CopyFresh`, a run that is not stale has
  the age of the last recovery that the row has.
* `HealCommandsBounded` (`CommandsBounded`): `LogBudget`, logs of the hour and
  runs allowed to log number at most `Limit - 1` plus the runs; `CommandBudget`,
  commands of the hour without a log number at most the runs that hold one plus
  the failures; `HoldInv`, a run holds a command of its own that is younger than
  an hour and not logged.  The lemmas on cardinalities rest on
  `FiniteSetTheorems`.
* `CommandsAccounted`, of the command queue: a command has one row (`QueueInv`), and
  each report, in flight or the one that settled it, has used up one of the times the
  command was handed out (`OwedInv`, which counts for every two handlers).
* `SettledCommandsStay` (`SettledStays`): from that invariant, a result or a claim
  that changes a settled command is of a second handing out.  A command leaves the
  queue by `RemoveAt` (lemma `RemovedAt`), which needs no recursion.

`CallControlProofs`:

* `CallTypeCorrect` (`CallTypeOK`), on top of `TypeCorrect` of the socket core.
* `InitiatorAlwaysKnown` (`InitiatorKnown`): inductive with the types.  Each step
  either writes one record of `call` through the helper of the code
  (`UpdatedCallKnows`, `UpdatedCallForgets`) or is a step of the core, which can
  only drop the call of a session it ends or start a session without one
  (`SessionCallStep`).
* `EndedAlwaysTimed`: an ended call belongs to a session and a timer for its id has
  still to fire, although timers reset whatever call they find and outlive sessions.
* `EndedCallsSettle` (`EndedSettles`): see below.
* `CallsLeaveSessions`: `CallSpec => Spec`, the core with calls implements the core
  without; hence `StationCorrect`, which states `SessionsAttended`, `LockSpec` and
  `LostConnectionsCleaned` of the specification the run `station` checks.

`DeviceSessionsProofs`:

* `DevTypeCorrect` (`DevTypeOK`).
* `DeviceLockRefined` (`DeviceLockSpec`): needs `CallsConnected`, a start or a
  restore in flight is that of a socket that has connected; then a session that
  such a call creates, whatever its lookup had answered, is one the lock lets a
  contender take.
* `RowEndedByFinder` (`RowEndedByItsFinder`): not a fact of the step alone.  A
  call holds a key, and the row it ends is the row it found only since a key
  never comes to name another row (`KeyInv`: rows are numbered, an insert takes
  a number no call holds, and a key of a sweep names a row of the sweep's user).
* `FieldRowsAttended` (`FieldRowAttended`): not inductive.  A row must belong to
  the user of its socket (`RowsOfOwners`), for the sweep of a lost connection to
  find it, and a row a sweep has updated must not be ACTIVE when the sweep drops
  its key (`SweptRowsGone`).

`StreamSessionsProofs`:

* `StreamTypeCorrect` (`StreamTypeOK`).
* `LostViewerAttended` (`LostViewerStreamClosing`): not inductive, because a
  caller that is not the viewer's handler may drop the session it closes.  The
  invariant says more, that the viewer's *own* handler attends to the stream
  (`OwnHandlerAttends`); it holds because a handler passes over a session only
  if another socket is bound to it, and a close that releases a session takes
  its binding away.  `EntriesHaveRows` (nothing is registered without a row) and
  `HandlersRest` (a connected viewer has no handler) support it.

`ObserversProofs`:

* `ObserverTypeCorrect` (`ObserverTypeOK`).
* `IndexAlwaysSound` (`IndexSound`): with `OneDevice`, a session concerns one
  device only, in whatever place it occurs (row, start in flight, index, entry),
  and one that does is inserted already.  Then `closeActiveSession`, which
  deletes the device's id whichever session it stands for, can leave an entry
  without an index but never the reverse.
* `GoneObserversForgotten` (`GoneObserverForgotten`): not inductive.  `SeatsKnown`
  says where a watcher that has not strayed can have a seat: at the session it
  observes or the one it is joining; so the handler of its disconnect, which
  looks at one session or at all, finds it.
* `RowsAlwaysAccounted` (`RowsAccounted`): inductive once it is known that a
  socket's handler calls `leaveObserver` once (`HandledOnce`), so that no call
  replaces another that still has a row to close.
* `ObserversBounded` (`SeatsBounded`): no session is watched by more than the limit.
  The look at the limit and the seat are one step on every path, also on those that
  come back from a query; the rest is about cardinalities.

`AgentsProofs`:

* `OnlineAlwaysAccounted` (`OnlineAccounted`): with the types and `LeavingInv`, a
  socket whose cleanup runs is lost; so a cleanup that ends names its own socket,
  and `keeper` never is one that is gone.
* `PresenceAlwaysKept` (`PresenceKept`): from the same invariant; a cleanup marks
  rows by socket, and that socket is not open.
* `MetaAlwaysKept` (`MetaKept`): `MetaInv`, the copy of a writer that was not
  overtaken is `meta` itself.
* `OffersPendWhileWaiting`, `OffersAnsweredOnce`: pendingOffers holds exactly the
  requests that wait, so no request is responded to twice, whichever of answers,
  timer and lost sockets comes first.
* `LostRowsSwept`, `AgentsComeOnline`, `OffersSettle` (`LostRowSwept`,
  `AgentComesOnline`, `OfferSettles`): see below.

`RecordsProofs`:

* `DevicesAlwaysLinked` (`DeviceLinked`): `DeviceLinkInv`, what a request still has
  to write leaves lobby and division fitting if the request is not stale, and the row
  stands as it was judged.  That the
  code writes only what differs from the copy is what makes this more than the check.
* `PicturesAlwaysKept`, `LinksUsedOnce`, `DecisionsStand` (`PicturesKept`,
  `LinkUsedOnce`, `DecisionStands`) from one `AccountInv`: a request to approve that
  is not early stands before an account that waits for approval (`ApprovalInv`);
  links are mailed by requests that are over, and a token that is spent is never the
  row's again (`ResetLinkInv`); an upload has stored what it is about to write, and
  will not delete what the row names (`PictureInv`), though an administrator may name
  the key of an upload that is over.
* `SubmissionsAlwaysFit`, `FormsStayPublished` (`SubmissionFits`,
  `FormStaysPublished`) from one `FormsInv`: a submission that is about to insert
  holds the locks of the questions it has read and answers no others (`FitInv`); a
  publication that leaves out the second write holds the form that is active, and no
  two hold one form (`PublishInv`); an edit never makes a question unasked (`EditInv`).
* `AnswersAlwaysTrue` (`AnswerTrue`, which no run checks on its own since it follows
  from the next): with `SubmissionsByCreated`, a committed submission is that of an
  attempt that answered "created".
* `SubmitOnceRefined` (`SubmitOnceSpec`): an attempt that commits is the ledger's
  `Accept`, one that looks its `Replay` or `Look`, one that answers `RefuseSecond`,
  `TurnAway` or `Fail`, every other step a stutter.  It needs `CommitInv`: an attempt that has inserted is opposed by no
  submission and by no other attempt that has, because an insert waits for those it
  conflicts with.  `SubmissionsEnteredOnce` takes the ledger's own invariant back: no
  two submissions with one key, or of one person for one duty.
* `MappingsAlwaysOfOneRequest` (`MappingsOfOneRequest`): `ReplaceInv`, a replacement
  during which nothing committed has found all columns but its own.
* `ListedAlwaysShow` (`ListedEntryShows`): `ListInv`, what a listing has loaded
  agrees with the answers, which only grow, unless a key moved.  What shows never stops
  to, so the place of an entry in the list can only rise (`PlaceGrows`, by
  cardinalities), and one that is not yet behind the page was not before.
* `ReportsAlwaysBracketed`, `ExportsAlwaysShow` (`ReportsBracketed`, `ExportShows`):
  `Bracketed` and `ExportInv` say of each query that has run what the property says at
  the end; the page of a history again by places.
* `PagesAlwaysCover` (`PagesCover`): `PagesInv`, what was there at the beginning and is
  on none of the pages read so far lies at or behind the next offset, since places only
  rise; a total no larger than the end of the last page leaves nothing behind it.

### Liveness

The provers do not know ENABLED, and weak fairness is about nothing else.  The
theorems on liveness therefore have the form `Spec /\ []E => L`, where `E` says of the
fair actions, and of nothing else, that they are enabled where their guards hold:
`CleanupEnabled`, `TimerEnabled`, `SweepEnabled`, `HandlerEnabled`, `TimeoutEnabled`.
Each is the guard of the action read off its definition, whose primed variables are
all assigned; TLC finds no state of the instances of section 4 without them.  What is
left for the proof is what could be wrong: that the guard holds whenever it must, that
no other step destroys it without doing the work, and that the step does the work.

* `LostConnectionsCleaned` from weak fairness of the first part of each disconnect
  handler: nothing else moves a connection that is closing (`ClosingStays`), and the
  handler, on each of its branches, leaves nothing behind (`MonitorCleanupCleans`,
  `KioskCleanupCleans`).
* `EndedSettles` from weak fairness of timers and `EndedTimed`.
* `OfferSettles` from weak fairness of timers and `OfferInv`.
* `LostRowSwept` from weak fairness of the sweep's two steps: a row is found if it
  stays online, and stays found until it is handled (`ListedStays`).
* `AgentComesOnline` from weak fairness of handlers and strong fairness of heartbeats:
  handlers end (`JobInv`, `JobEnds`), so a heartbeat comes while the device is OFFLINE,
  and its handler writes ONLINE (in `PiAgents` the queries of a heartbeat are answered;
  those of a registration may fail, and often).

Only model-checked: `AbandonedStreamCloses`, `RestartRecovers`, `CommandHandedOut`,
`PresenceReturns`, `FrameShown` and `SubmitSettles`.  Each of them holds because a finite
set is worked off (the sessions a pass still has, the rows of a sweep, the older
commands of the queue, the rebinds, uploads and submissions in flight), and that is an
induction over data, which is out of the prover's reach.

External facts used: PostgreSQL rejects a query that compares a UUID column with
text that is no UUID; a unique index refuses a second row, after waiting for the
transaction that may have inserted the first; after an error a transaction refuses
every further statement; a delete sees the rows that were committed when it began.

## 6. What is left

### Not modelled

* **Rate limiter**: sequential windows per client and event.  A refused event has no
  effect, hence is no step of any model.  The loss of one socket resets the windows
  of the client's other sockets (`index.js:2705`), which only lets more events pass.
* **WebRTC relay, crew events, media toggles** of `index.js`: what they forward
  depends on sessions, which are modelled; they keep no state a decision reads.
* **Authentication, roles, visibility**: sequential; their outcome is a constant of a
  connection or an input of an action.
* **Bootstrap, migrations, API description**: start-up code and data.
* In modelled components: screenshots and the single frame a viewer may fetch (files
  that are only added), the face lookup at login, listings, types of form fields and
  validation of their values, order of questions, layout of workbooks, profile
  fields, the audit log, the health score.

Known hazards without a property: ICE candidates of a stream are appended to a copy
of the row and written back whole, so that one of two may be lost
(`stream.service.js:199`; nothing in the code tries to keep both);
`removeHeartbeat` of a replaced socket removes the tracking of its successor
(`heartbeat.js:106`), which its next ping restores; a call nobody answers stays
connecting for ever (`index.js:1941`); a session of a device-token monitor has an id
that is no UUID, so that `endSessionsByMonitorUser` throws (`index.js:2661`, one of
the failures of the disconnect handler).

### Plan

1. Observers of sessions without a row, and a restart of the server for observers and
   agents.
2. The WebRTC relay: that what is relayed reaches a party of the current session.
3. The rate limiter as a sliding window, with the reset for all of a client's sockets.
4. An abstract "each command is executed once" and the conditions under which the queue
   implements it.

### Noted while modelling

Things a reader of the code may want to know that no run states as a property:

* `handleMonitoringEndedRegistry` emits `SESSION_ENDED` to the kiosk's watchers
  only if `onMonitoringSessionEnded` closed an entry; but
  `disconnectAllObserversForSession`, called before, closes it already, so in the
  normal case nothing is emitted (`observer.handlers.js:81`).
* `closeActiveSession` deletes the device's id from `kioskToSessionId` even if it
  stands for a newer session by then; that session's entry can no longer be found
  by its device.
