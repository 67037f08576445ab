-------------------------- MODULE StreamSessions ---------------------------
(***************************************************************************)
(* Live streams of the Raspberry Pi agents: rows of stream_sessions and the *)
(* in-memory registry that binds a session to its viewer's socket           *)
(* (src/modules/streams/stream.service.js), with the socket handlers that   *)
(* use them (src/socket/stream.handlers.js).  A query is run by the         *)
(* database between the steps of the call that awaits it.                   *)
(*                                                                          *)
(* Stream types are part of the device here: sessions of different types of *)
(* one device do not see each other.  Offers, answers and candidates        *)
(* appear as the activity they are, and as the status an offer writes.      *)
(***************************************************************************)
EXTENDS Naturals, FiniteSets

CONSTANTS
  Session,      \* ids of stream sessions, each created at most once
  Viewer,       \* connected monitor sockets of app users
  User,
  UserOf,       \* Viewer -> User
  Device,       \* agents, taken once per stream type
  Idle,         \* the idle cleanup, a caller of closeStreamSession
  Api,          \* the HTTP routes: requests a session, or deletes one
  MaxClosing,   \* bound on the callers at work beside the idle cleanup
  MaxFault,     \* bound on restarts and close calls the database fails, together
  None

ASSUME StreamConstantsAssumption ==
  /\ UserOf \in [Viewer -> User]
  /\ MaxClosing \in Nat
  /\ MaxFault \in Nat
  /\ Viewer \cap Device = {}
  /\ Idle \notin Viewer \cup Device
  /\ Api \notin Viewer \cup Device \cup {Idle}
  /\ None \notin Session \cup Viewer \cup User \cup Device

VARIABLES
  socket,     \* each viewer's connection
  row,        \* the rows of stream_sessions
  registry,   \* sessionRegistry
  request,    \* the requestStream calls in flight, by requester
  offers,     \* sessions an activateStreamOffer call has read and will update
  close,      \* the closing calls in flight, by caller
  faults      \* restarts and failures so far

streamVars == <<socket, row, registry, request, offers, close, faults>>

(***************************************************************************)
(* A viewer's disconnect handler, an agent's, the idle cleanup and the      *)
(* delete route close sessions one after the other.                         *)
(***************************************************************************)
Caller == Viewer \cup Device \cup {Idle, Api}

Requester == Viewer \cup {Api}

(* The user is the one of the socket, or the one of an HTTP request's token. *)
MayBe(q, u) == q \in Viewer => UserOf[q] = u

NoRow == [status |-> "none", user |-> None, device |-> None, fresh |-> FALSE]

(* "late" is history: bound by a request its socket's disconnect did not     *)
(* see, or reopened by an offer that came after the close.                  *)
NoEntry == [viewer |-> None, fresh |-> FALSE, known |-> FALSE, late |-> FALSE]

NoRequest == [stage |-> "idle", device |-> None, session |-> None]

NoClose == [stage |-> "idle", todo |-> {}, session |-> None, rows |-> FALSE]

IsOpen(s) == row[s].status \in {"REQUESTED", "ACTIVE"}

Registered(s) == registry[s].known

StreamInit ==
  /\ socket = [v \in Viewer |-> "open"]
  /\ row = [s \in Session |-> NoRow]
  /\ registry = [s \in Session |-> NoEntry]
  /\ request = [q \in Requester |-> NoRequest]
  /\ offers = {}
  /\ close = [c \in Caller |-> NoClose]
  /\ faults = 0

-----------------------------------------------------------------------------
(* requestStream *)

(* The lookup finds no open session of the device. *)
RequestLookup(q, d) ==
  /\ q \in Viewer => socket[q] = "open"
  /\ request[q] = NoRequest
  /\ \A s \in Session : row[s].device = d => ~IsOpen(s)
  /\ request' = [request EXCEPT ![q] = [stage |-> "create", device |-> d, session |-> None]]
  /\ UNCHANGED <<socket, row, registry, offers, close, faults>>

(* The row is inserted; no constraint of the table repeats the lookup. *)
RequestCreate(q, u, s) ==
  /\ request[q].stage = "create"
  /\ MayBe(q, u)
  /\ row[s] = NoRow
  /\ row' = [row EXCEPT ![s] = [status |-> "REQUESTED", user |-> u,
                                device |-> request[q].device, fresh |-> TRUE]]
  /\ request' = [request EXCEPT ![q].stage = "register", ![q].session = s]
  /\ UNCHANGED <<socket, registry, offers, close, faults>>

(* The session is bound to the socket, connected still or not, if there is one. *)
RequestRegister(q) ==
  /\ request[q].stage = "register"
  /\ registry' = [registry EXCEPT ![request[q].session] =
                    [viewer |-> IF q = Api THEN None ELSE q, fresh |-> TRUE, known |-> TRUE,
                     late |-> q # Api /\ socket[q] = "gone" /\ close[q].stage # "find"]]
  /\ request' = [request EXCEPT ![q] = NoRequest]
  /\ UNCHANGED <<socket, row, offers, close, faults>>

-----------------------------------------------------------------------------
(* Signalling *)

(* join-stream-session binds whichever viewer asks. *)
JoinStream(v, s) ==
  /\ socket[v] = "open"
  /\ Registered(s)
  /\ registry' = [registry EXCEPT ![s].viewer = v, ![s].fresh = TRUE]
  /\ UNCHANGED <<socket, row, request, offers, close, faults>>

OfferRead(s) ==
  /\ IsOpen(s)
  /\ offers' = offers \cup {s}
  /\ UNCHANGED <<socket, row, registry, request, close, faults>>

(* The update makes the session ACTIVE, whatever it has become since. *)
OfferWrite(s) ==
  /\ s \in offers
  /\ offers' = offers \ {s}
  /\ row' = [row EXCEPT ![s].status = "ACTIVE", ![s].fresh = TRUE]
  /\ registry' = [registry EXCEPT ![s].fresh = Registered(s),
                                  ![s].late = @ \/ (Registered(s) /\ ~IsOpen(s))]
  /\ UNCHANGED <<socket, request, close, faults>>

(* An answer or a candidate: the status is left alone. *)
Signal(s) ==
  /\ IsOpen(s)
  /\ row' = [row EXCEPT ![s].fresh = TRUE]
  /\ registry' = [registry EXCEPT ![s].fresh = Registered(s)]
  /\ UNCHANGED <<socket, request, offers, close, faults>>

(* Five minutes without activity, by the clock of the registry or the row. *)
GrowIdle(s) ==
  /\ \/ /\ registry' = [registry EXCEPT ![s].fresh = FALSE]
        /\ UNCHANGED row
     \/ /\ IsOpen(s)
        /\ row' = [row EXCEPT ![s].fresh = FALSE]
        /\ UNCHANGED registry
  /\ UNCHANGED <<socket, request, offers, close, faults>>

-----------------------------------------------------------------------------
(* The callers of closeStreamSession *)

Call(c, stage, todo) ==
  close' = [close EXCEPT ![c] = [NoClose EXCEPT !.stage = stage, !.todo = todo]]

ClosingBound ==
  Cardinality({c \in Caller \ {Idle} : close[c].stage \notin {"idle", "failed"}}) < MaxClosing

(* A viewer disconnects: the handler looks for the open sessions of its user. *)
ViewerLost(v) ==
  /\ ClosingBound
  /\ socket[v] = "open"
  /\ socket' = [socket EXCEPT ![v] = "gone"]
  /\ Call(v, "find", {})
  /\ UNCHANGED <<row, registry, request, offers, faults>>

(* Mutant of OpenOfUser: sessions no offer has come for are forgotten. *)
ActiveOfUser(u) == {s \in Session : row[s].status = "ACTIVE" /\ row[s].user = u}

OpenOfUser(u) == {s \in Session : IsOpen(s) /\ row[s].user = u}

ViewerFind(v) ==
  /\ close[v].stage = "find"
  /\ Call(v, "next", OpenOfUser(UserOf[v]))
  /\ UNCHANGED <<socket, row, registry, request, offers, faults>>

(* The agent of a device disconnects: its open sessions are looked up. *)
AgentLost(d) ==
  /\ ClosingBound
  /\ close[d].stage = "idle"
  /\ Call(d, "next", {s \in Session : IsOpen(s) /\ row[s].device = d})
  /\ UNCHANGED <<socket, row, registry, request, offers, faults>>

(* The user's DELETE of a session. *)
Delete(s) ==
  /\ ClosingBound
  /\ close[Api].stage = "idle"
  /\ row[s] # NoRow
  /\ Call(Api, "next", {s})
  /\ UNCHANGED <<socket, row, registry, request, offers, faults>>

(* closeIdleStreams begins with the sessions of the registry ... *)
IdleBegin ==
  /\ close[Idle].stage = "idle"
  /\ Call(Idle, "next", {s \in Session : Registered(s)})
  /\ UNCHANGED <<socket, row, registry, request, offers, faults>>

(* Mutant of StaleRows: what is not in the registry is not looked for. *)
NoStaleRows == {}

StaleRows == {s \in Session : IsOpen(s) /\ ~row[s].fresh}

(* ... and goes on with the open rows that have not been updated for long. *)
IdleRows ==
  /\ close[Idle].stage = "next"
  /\ close[Idle].todo = {}
  /\ ~close[Idle].rows
  /\ close' = [close EXCEPT ![Idle].todo = StaleRows, ![Idle].rows = TRUE]
  /\ UNCHANGED <<socket, row, registry, request, offers, faults>>

(***************************************************************************)
(* Which of the sessions it holds a caller closes: a viewer's handler skips *)
(* those bound to another socket, the idle cleanup skips active ones in the *)
(* registry and registered ones among the rows.                             *)
(***************************************************************************)
Closes(c, s) ==
  CASE c \in Viewer -> registry[s].viewer \in {None, c}
    [] c = Idle     -> IF close[c].rows THEN ~Registered(s)
                       ELSE Registered(s) /\ ~registry[s].fresh
    [] OTHER        -> TRUE

CloseNext(c) ==
  /\ close[c].stage = "next"
  /\ \E s \in close[c].todo :
       close' = [close EXCEPT ![c].todo = @ \ {s},
                   ![c].stage = IF Closes(c, s) THEN "read" ELSE "next",
                   ![c].session = IF Closes(c, s) THEN s ELSE None]
  /\ UNCHANGED <<socket, row, registry, request, offers, faults>>

CloseDone(c) ==
  /\ close[c].stage = "next"
  /\ close[c].todo = {}
  /\ c = Idle => close[c].rows
  /\ Call(c, "idle", {})
  /\ UNCHANGED <<socket, row, registry, request, offers, faults>>

-----------------------------------------------------------------------------
(* closeStreamSession *)

Resumed(c) == [close[c] EXCEPT !.stage = "next", !.session = None]

(* The row is read; a session that is closed already is left alone. *)
CloseRead(c) ==
  /\ close[c].stage = "read"
  /\ close' = [close EXCEPT ![c] = IF IsOpen(close[c].session)
                                     THEN [@ EXCEPT !.stage = "update"] ELSE Resumed(c)]
  /\ UNCHANGED <<socket, row, registry, request, offers, faults>>

CloseUpdate(c) ==
  /\ close[c].stage = "update"
  /\ row' = [row EXCEPT ![close[c].session].status = "CLOSED",
                        ![close[c].session].fresh = TRUE]
  /\ close' = [close EXCEPT ![c].stage = "release"]
  /\ UNCHANGED <<socket, registry, request, offers, faults>>

(* The session leaves the registry, and the caller goes on. *)
CloseRelease(c) ==
  /\ close[c].stage = "release"
  /\ registry' = [registry EXCEPT ![close[c].session] = NoEntry]
  /\ close' = [close EXCEPT ![c] = Resumed(c)]
  /\ UNCHANGED <<socket, row, request, offers, faults>>

(* A query is rejected: the caller gives up on all it still held. *)
CloseFails(c) ==
  /\ close[c].stage \in {"find", "read", "update"}
  /\ faults < MaxFault
  /\ faults' = faults + 1
  /\ Call(c, IF c \in Viewer THEN "failed" ELSE "idle", {})
  /\ UNCHANGED <<socket, row, registry, request, offers>>

(* The server restarts: memory and everything in flight are lost. *)
Restart ==
  /\ faults < MaxFault
  /\ faults' = faults + 1
  /\ socket' = [v \in Viewer |-> "gone"]
  /\ registry' = [s \in Session |-> NoEntry]
  /\ request' = [q \in Requester |-> NoRequest]
  /\ offers' = {}
  /\ close' = [c \in Caller |-> NoClose]
  /\ UNCHANGED row

-----------------------------------------------------------------------------
CloseStep(c) ==
  \/ CloseNext(c)
  \/ CloseDone(c)
  \/ CloseRead(c)
  \/ CloseUpdate(c)
  \/ CloseRelease(c)
  \/ CloseFails(c)

IdleCleanup == IdleBegin \/ IdleRows \/ CloseStep(Idle)

StreamNext ==
  \/ \E v \in Viewer :
       \/ ViewerLost(v) \/ ViewerFind(v)
       \/ \E s \in Session : JoinStream(v, s)
  \/ \E q \in Requester :
       \/ RequestRegister(q)
       \/ \E d \in Device : RequestLookup(q, d)
       \/ \E u \in User, s \in Session : RequestCreate(q, u, s)
  \/ \E s \in Session : OfferRead(s) \/ OfferWrite(s) \/ Signal(s) \/ GrowIdle(s) \/ Delete(s)
  \/ \E d \in Device : AgentLost(d)
  \/ \E c \in Caller : CloseStep(c)
  \/ IdleBegin
  \/ IdleRows
  \/ Restart

(* The idle cleanup runs every minute, and its queries are answered. *)
StreamSpec == StreamInit /\ [][StreamNext]_streamVars /\ WF_streamVars(IdleCleanup)

-----------------------------------------------------------------------------
(* Properties *)

StreamTypeOK ==
  /\ socket \in [Viewer -> {"open", "gone"}]
  /\ row \in [Session -> [status : {"none", "REQUESTED", "ACTIVE", "CLOSED"},
                          user : User \cup {None}, device : Device \cup {None},
                          fresh : BOOLEAN]]
  /\ registry \in [Session -> [viewer : Viewer \cup {None}, fresh : BOOLEAN,
                               known : BOOLEAN, late : BOOLEAN]]
  /\ request \in [Requester -> [stage : {"idle", "create", "register"},
                                device : Device \cup {None},
                                session : Session \cup {None}]]
  /\ offers \subseteq Session
  /\ close \in [Caller -> [stage : {"idle", "find", "next", "read", "update", "release",
                                    "failed"},
                           todo : SUBSET Session, session : Session \cup {None},
                           rows : BOOLEAN]]
  /\ faults \in 0 .. MaxFault

(* Somebody is closing s, or v's disconnect handler will come to it. *)
Attended(s, v) ==
  \/ \E c \in Caller : close[c].session = s
  \/ s \in close[v].todo
  \/ close[v].stage \in {"find", "failed"}

(***************************************************************************)
(* A stream does not stay open for a viewer that is lost: an open session   *)
(* bound to a disconnected socket of its own user is being closed, by       *)
(* whoever came first, unless the database failed, the request itself was   *)
(* still in flight when the disconnect handler looked, or a late offer has  *)
(* reopened the session after its end.                                      *)
(***************************************************************************)
LostViewerStreamClosing ==
  \A s \in Session, v \in Viewer :
    /\ IsOpen(s)
    /\ registry[s].viewer = v
    /\ row[s].user = UserOf[v]
    /\ socket[v] = "gone"
    /\ ~registry[s].late
    => Attended(s, v)

(* Nothing has happened on an open session for five minutes. *)
Abandoned(s) ==
  IsOpen(s) /\ IF Registered(s) THEN ~registry[s].fresh ELSE ~row[s].fresh

(***************************************************************************)
(* An abandoned stream is closed in the end, unless somebody comes back to  *)
(* it: also when the server restarted and has forgotten it, when a late     *)
(* offer reopened it after its end, or when the database failed.            *)
(***************************************************************************)
AbandonedStreamCloses ==
  \A s \in Session : Abandoned(s) ~> ~Abandoned(s)

(***************************************************************************)
(* A device has one open session ("An active stream session already exists  *)
(* for this device and type").  Two requests may both look before either    *)
(* has inserted its row.                                                    *)
(***************************************************************************)
OneOpenStream ==
  \A s, t \in Session :
    IsOpen(s) /\ IsOpen(t) /\ row[s].device = row[t].device => s = t

=============================================================================
