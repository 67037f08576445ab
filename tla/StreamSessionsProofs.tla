------------------------ MODULE StreamSessionsProofs ------------------------
(***************************************************************************)
(* Proofs about StreamSessions, for every set of sessions, viewers, users   *)
(* and devices, and every bound on callers and faults: type correctness,    *)
(* and that streams of lost viewers are being closed.                       *)
(***************************************************************************)
EXTENDS StreamSessions, TLAPS

-----------------------------------------------------------------------------
(* Type correctness *)

StreamRow == [status : {"none", "REQUESTED", "ACTIVE", "CLOSED"},
              user : User \cup {None}, device : Device \cup {None}, fresh : BOOLEAN]

Entry == [viewer : Viewer \cup {None}, fresh : BOOLEAN, known : BOOLEAN, late : BOOLEAN]

Request == [stage : {"idle", "create", "register"},
            device : Device \cup {None}, session : Session \cup {None}]

Closing == [stage : {"idle", "find", "next", "read", "update", "release", "failed"},
            todo : SUBSET Session, session : Session \cup {None}, rows : BOOLEAN]

(* StreamTypeOK, by the names of its record sets. *)
StreamShape ==
  /\ socket \in [Viewer -> {"open", "gone"}]
  /\ row \in [Session -> StreamRow]
  /\ registry \in [Session -> Entry]
  /\ request \in [Requester -> Request]
  /\ offers \subseteq Session
  /\ close \in [Caller -> Closing]
  /\ faults \in 0 .. MaxFault

LEMMA ShapeIsType == StreamShape <=> StreamTypeOK
  BY DEF StreamShape, StreamTypeOK, StreamRow, Entry, Request, Closing

LEMMA FreshRecords ==
  /\ NoRow \in StreamRow
  /\ NoEntry \in Entry
  /\ NoRequest \in Request
  /\ NoClose \in Closing
  BY DEF NoRow, StreamRow, NoEntry, Entry, NoRequest, Request, NoClose, Closing

(***************************************************************************)
(* Updates of the records.                                                  *)
(***************************************************************************)
LEMMA RowUpdate ==
  ASSUME NEW r \in StreamRow, NEW b \in BOOLEAN, NEW st \in {"ACTIVE", "CLOSED"}
  PROVE  /\ [r EXCEPT !.fresh = b] \in StreamRow
         /\ [r EXCEPT !.status = st, !.fresh = b] \in StreamRow
  BY DEF StreamRow

LEMMA ClosingUpdate ==
  ASSUME NEW r \in Closing, NEW ss \in SUBSET Session, NEW s \in Session \cup {None},
         NEW st \in {"idle", "find", "next", "read", "update", "release", "failed"}
  PROVE  /\ [r EXCEPT !.stage = st] \in Closing
         /\ [r EXCEPT !.stage = st, !.session = None] \in Closing
         /\ [r EXCEPT !.todo = ss, !.stage = st, !.session = s] \in Closing
         /\ [r EXCEPT !.todo = ss, !.rows = TRUE] \in Closing
         /\ [NoClose EXCEPT !.stage = st, !.todo = ss] \in Closing
         /\ r.todo \subseteq Session
  BY DEF Closing, NoClose

(***************************************************************************)
(* Requests and signalling.                                                 *)
(***************************************************************************)
LEMMA SignalTypeStep ==
  ASSUME StreamShape, NEW s \in Session,
         \/ OfferRead(s) \/ OfferWrite(s) \/ Signal(s) \/ GrowIdle(s) \/ Delete(s)
         \/ \E v \in Viewer : JoinStream(v, s)
  PROVE  StreamShape'
<1> USE DEF StreamShape
<1>0. row[s] \in StreamRow /\ registry[s] \in Entry
  OBVIOUS
<1>A. Registered(s) \in BOOLEAN /\ IsOpen(s) \in BOOLEAN
  BY <1>0 DEF Registered, IsOpen, Entry
<1>1. CASE OfferRead(s)
  BY <1>1 DEF OfferRead
<1>2. CASE OfferWrite(s)
  <2> DEFINE late == registry[s].late \/ (Registered(s) /\ ~IsOpen(s))
             r == [row[s] EXCEPT !.status = "ACTIVE", !.fresh = TRUE]
             g == [registry[s] EXCEPT !.fresh = Registered(s), !.late = late]
  <2>1. row' = [row EXCEPT ![s] = r] /\ registry' = [registry EXCEPT ![s] = g]
    BY <1>2 DEF OfferWrite
  <2>2. r \in StreamRow
    BY <1>0, RowUpdate
  <2>3. g \in Entry
    BY <1>0, <1>A DEF Entry
  <2> HIDE DEF r, g
  <2> QED
    BY <1>2, <2>1, <2>2, <2>3 DEF OfferWrite
<1>3. CASE Signal(s)
  <2> DEFINE r == [row[s] EXCEPT !.fresh = TRUE]
             g == [registry[s] EXCEPT !.fresh = Registered(s)]
  <2>1. row' = [row EXCEPT ![s] = r] /\ registry' = [registry EXCEPT ![s] = g]
    BY <1>3 DEF Signal
  <2>2. r \in StreamRow
    BY <1>0, RowUpdate
  <2>3. g \in Entry
    BY <1>0, <1>A DEF Entry
  <2> HIDE DEF r, g
  <2> QED
    BY <1>3, <2>1, <2>2, <2>3 DEF Signal
<1>4. CASE GrowIdle(s)
  <2> DEFINE r == [row[s] EXCEPT !.fresh = FALSE]
             g == [registry[s] EXCEPT !.fresh = FALSE]
  <2>1. /\ row' \in {row, [row EXCEPT ![s] = r]}
        /\ registry' \in {registry, [registry EXCEPT ![s] = g]}
    BY <1>4 DEF GrowIdle
  <2>2. r \in StreamRow
    BY <1>0, RowUpdate
  <2>3. g \in Entry
    BY <1>0 DEF Entry
  <2> HIDE DEF r, g
  <2> QED
    BY <1>4, <2>1, <2>2, <2>3 DEF GrowIdle
<1>5. CASE Delete(s)
  <2>1. [NoClose EXCEPT !.stage = "next", !.todo = {s}] \in Closing
    BY FreshRecords, ClosingUpdate
  <2> QED
    BY <1>5, <2>1 DEF Delete, Call
<1>6. ASSUME NEW v \in Viewer, JoinStream(v, s)
      PROVE  StreamShape'
  <2> DEFINE g == [registry[s] EXCEPT !.viewer = v, !.fresh = TRUE]
  <2>1. /\ registry' = [registry EXCEPT ![s] = g]
        /\ UNCHANGED <<socket, row, request, offers, close, faults>>
    BY <1>6 DEF JoinStream
  <2>2. g \in Entry
    BY <1>0 DEF Entry
  <2> HIDE DEF g
  <2> QED
    BY <2>1, <2>2
<1> QED
  BY <1>1, <1>2, <1>3, <1>4, <1>5, <1>6

LEMMA RequestTypeStep ==
  ASSUME StreamShape, NEW q \in Requester,
         \/ RequestRegister(q)
         \/ \E d \in Device : RequestLookup(q, d)
         \/ \E u \in User, s \in Session : RequestCreate(q, u, s)
  PROVE  StreamShape'
<1> USE FreshRecords DEF StreamShape
<1>1. CASE RequestRegister(q)
  <2> DEFINE g == [viewer |-> IF q = Api THEN None ELSE q, fresh |-> TRUE, known |-> TRUE,
                   late |-> q # Api /\ socket[q] = "gone" /\ close[q].stage # "find"]
  <2>1. g \in Entry
    BY DEF Requester, Entry
  <2>2. /\ registry' = [registry EXCEPT ![request[q].session] = g]
        /\ request' = [request EXCEPT ![q] = NoRequest]
    BY <1>1 DEF RequestRegister
  <2> HIDE DEF g
  <2> QED
    BY <1>1, <2>1, <2>2 DEF RequestRegister
<1>2. ASSUME NEW d \in Device, RequestLookup(q, d)
      PROVE  StreamShape'
  <2>1. [stage |-> "create", device |-> d, session |-> None] \in Request
    BY DEF Request
  <2> QED
    BY <1>2, <2>1 DEF RequestLookup
<1>3. ASSUME NEW u \in User, NEW s \in Session, RequestCreate(q, u, s)
      PROVE  StreamShape'
  <2> DEFINE r == [status |-> "REQUESTED", user |-> u, device |-> request[q].device, fresh |-> TRUE]
             t == [request[q] EXCEPT !.stage = "register", !.session = s]
  <2>1. /\ row' = [row EXCEPT ![s] = r]
        /\ request' = [request EXCEPT ![q] = t]
        /\ UNCHANGED <<socket, registry, offers, close, faults>>
    BY <1>3 DEF RequestCreate
  <2>2. r \in StreamRow
    BY DEF StreamRow, Request
  <2>3. t \in Request
    BY DEF Request
  <2> HIDE DEF r, t
  <2> QED
    BY <2>1, <2>2, <2>3
<1> QED
  BY <1>1, <1>2, <1>3

(***************************************************************************)
(* What a caller does with the sessions it closes.                          *)
(***************************************************************************)
LEMMA CloseTypeStep ==
  ASSUME StreamShape, NEW c \in Caller, CloseStep(c)
  PROVE  StreamShape'
<1> USE FreshRecords DEF StreamShape
<1>0. close[c] \in Closing
  OBVIOUS
<1>A. /\ Resumed(c) \in Closing
      /\ [close[c] EXCEPT !.stage = "update"] \in Closing
      /\ [close[c] EXCEPT !.stage = "release"] \in Closing
  BY <1>0, ClosingUpdate DEF Resumed
<1>B. ASSUME NEW stage \in {"idle", "failed"}
      PROVE  [NoClose EXCEPT !.stage = stage, !.todo = {}] \in Closing
  BY ClosingUpdate
<1>1. CASE CloseNext(c)
  <2>1. PICK s \in close[c].todo :
          close' = [close EXCEPT ![c].todo = @ \ {s},
                      ![c].stage = IF Closes(c, s) THEN "read" ELSE "next",
                      ![c].session = IF Closes(c, s) THEN s ELSE None]
    BY <1>1 DEF CloseNext
  <2> DEFINE stage == IF Closes(c, s) THEN "read" ELSE "next"
             session == IF Closes(c, s) THEN s ELSE None
             n == [close[c] EXCEPT !.todo = close[c].todo \ {s}, !.stage = stage,
                                   !.session = session]
  <2>2. close' = [close EXCEPT ![c] = n]
    BY <2>1
  <2>3. /\ close[c].todo \ {s} \in SUBSET Session
        /\ stage \in {"read", "next"}
        /\ session \in Session \cup {None}
    BY <1>0, <2>1 DEF Closing
  <2> HIDE DEF stage, session
  <2>4. n \in Closing
    BY <1>0, <2>3, ClosingUpdate
  <2> HIDE DEF n
  <2> QED
    BY <1>1, <2>2, <2>4 DEF CloseNext
<1>2. CASE CloseDone(c)
  BY <1>2, <1>B DEF CloseDone, Call
<1>3. CASE CloseRead(c)
  BY <1>3, <1>A DEF CloseRead
<1>4. CASE CloseUpdate(c)
  <2> DEFINE s == close[c].session
             r == [row[s] EXCEPT !.status = "CLOSED", !.fresh = TRUE]
             n == [close[c] EXCEPT !.stage = "release"]
  <2>1. row' = [row EXCEPT ![s] = r] /\ close' = [close EXCEPT ![c] = n]
    BY <1>4 DEF CloseUpdate
  <2>2. s \in Session => r \in StreamRow
    BY RowUpdate
  <2> HIDE DEF s, r
  <2> QED
    BY <1>4, <1>A, <2>1, <2>2 DEF CloseUpdate
<1>5. CASE CloseRelease(c)
  BY <1>5, <1>A DEF CloseRelease
<1>6. CASE CloseFails(c)
  <2>1. PICK stage \in {"idle", "failed"} : Call(c, stage, {})
    BY <1>6 DEF CloseFails
  <2>2. close' \in [Caller -> Closing]
    BY <1>B, <2>1 DEF Call
  <2> QED
    BY <1>6, <2>2, StreamConstantsAssumption DEF CloseFails
<1> QED
  BY <1>1, <1>2, <1>3, <1>4, <1>5, <1>6 DEF CloseStep

(***************************************************************************)
(* How the callers begin, and a restart.                                    *)
(***************************************************************************)
LEMMA BeginTypeStep ==
  ASSUME StreamShape,
         \/ \E v \in Viewer : ViewerLost(v) \/ ViewerFind(v)
         \/ \E d \in Device : AgentLost(d)
         \/ IdleBegin \/ IdleRows \/ Restart
  PROVE  StreamShape'
<1> USE FreshRecords DEF StreamShape
<1>0. ASSUME NEW c, NEW stage \in {"find", "next"}, NEW todo \in SUBSET Session,
             Call(c, stage, todo)
      PROVE  close' \in [Caller -> Closing]
  <2>1. [NoClose EXCEPT !.stage = stage, !.todo = todo] \in Closing
    BY ClosingUpdate
  <2> QED
    BY <1>0, <2>1 DEF Call
<1>1. ASSUME NEW v \in Viewer, ViewerLost(v)
      PROVE  StreamShape'
  <2>1. close' \in [Caller -> Closing]
    BY <1>0, <1>1 DEF ViewerLost
  <2> QED
    BY <1>1, <2>1 DEF ViewerLost
<1>2. ASSUME NEW v \in Viewer, ViewerFind(v)
      PROVE  StreamShape'
  <2>1. close' \in [Caller -> Closing]
    BY <1>0, <1>2 DEF ViewerFind, OpenOfUser
  <2> QED
    BY <1>2, <2>1 DEF ViewerFind
<1>3. ASSUME NEW d \in Device, AgentLost(d)
      PROVE  StreamShape'
  <2>1. close' \in [Caller -> Closing]
    BY <1>0, <1>3 DEF AgentLost
  <2> QED
    BY <1>3, <2>1 DEF AgentLost
<1>4. CASE IdleBegin
  <2>1. close' \in [Caller -> Closing]
    BY <1>0, <1>4 DEF IdleBegin
  <2> QED
    BY <1>4, <2>1 DEF IdleBegin
<1>5. CASE IdleRows
  <2> DEFINE n == [close[Idle] EXCEPT !.todo = StaleRows, !.rows = TRUE]
  <2>1. close' = [close EXCEPT ![Idle] = n]
    BY <1>5 DEF IdleRows
  <2>2. close[Idle] \in Closing /\ StaleRows \in SUBSET Session
    BY DEF StaleRows, Caller
  <2>3. n \in Closing
    BY <2>2, ClosingUpdate
  <2> HIDE DEF n
  <2> QED
    BY <1>5, <2>1, <2>3 DEF IdleRows
<1>6. CASE Restart
  BY <1>6, StreamConstantsAssumption DEF Restart
<1> QED
  BY <1>1, <1>2, <1>3, <1>4, <1>5, <1>6

LEMMA ShapeStep == StreamShape /\ [StreamNext]_streamVars => StreamShape'
<1> SUFFICES ASSUME StreamShape, [StreamNext]_streamVars PROVE StreamShape'
  OBVIOUS
<1>1. CASE StreamNext
  BY <1>1, SignalTypeStep, RequestTypeStep, CloseTypeStep, BeginTypeStep DEF StreamNext
<1>2. CASE UNCHANGED streamVars
  BY <1>2 DEF streamVars, StreamShape
<1> QED
  BY <1>1, <1>2

LEMMA ShapeKept == StreamSpec => []StreamShape
<1>1. StreamInit => StreamShape
  BY FreshRecords, StreamConstantsAssumption DEF StreamInit, StreamShape
<1> QED
  BY <1>1, ShapeStep, PTL DEF StreamSpec

(***************************************************************************)
(* The rows, the registry and the calls in flight always have the shape     *)
(* stream.service.js relies on.                                             *)
(***************************************************************************)
THEOREM StreamTypeCorrect == StreamSpec => []StreamTypeOK
BY ShapeKept, ShapeIsType, PTL

-----------------------------------------------------------------------------
(* Streams of lost viewers *)

(***************************************************************************)
(* LostViewerStreamClosing admits that anybody closes the stream; inductive *)
(* is that the lost viewer's own handler does, whatever others do to the    *)
(* same session.  It needs to know that a session bound to a viewer is      *)
(* registered and has a row, that the handler of a connected viewer is at   *)
(* rest, and that a handler holds a session only while it closes it.        *)
(***************************************************************************)
EntriesHaveRows ==
  /\ \A s \in Session : registry[s].viewer # None => Registered(s)
  /\ \A s \in Session : Registered(s) => row[s].status # "none"
  /\ \A q \in Requester :
       request[q].stage = "register" =>
         request[q].session \in Session /\ row[request[q].session].status # "none"

HandlersRest ==
  /\ \A v \in Viewer : socket[v] = "open" => close[v] = NoClose
  /\ \A v \in Viewer :
       close[v].session # None => close[v].stage \in {"read", "update", "release"}

(* A stream that a lost viewer has left open. *)
LeftOpen(s, v) ==
  /\ IsOpen(s)
  /\ registry[s].viewer = v
  /\ row[s].user = UserOf[v]
  /\ socket[v] = "gone"
  /\ ~registry[s].late

OwnAttends(s, v) ==
  \/ close[v].session = s
  \/ s \in close[v].todo
  \/ close[v].stage \in {"find", "failed"}

OwnHandlerAttends == \A s \in Session, v \in Viewer : LeftOpen(s, v) => OwnAttends(s, v)

(***************************************************************************)
(* A row does not go away, and nothing is registered before its row exists. *)
(***************************************************************************)
LEMMA EntriesStep ==
  StreamShape /\ EntriesHaveRows /\ [StreamNext]_streamVars => EntriesHaveRows'
<1> SUFFICES ASSUME StreamShape, EntriesHaveRows, [StreamNext]_streamVars
             PROVE  EntriesHaveRows'
  OBVIOUS
<1> USE DEF EntriesHaveRows, Registered
<1>T. /\ row \in [Session -> StreamRow]
      /\ registry \in [Session -> Entry]
      /\ request \in [Requester -> Request]
  BY DEF StreamShape
<1>0. CASE UNCHANGED <<row, registry, request>>
  BY <1>0
<1>1. ASSUME NEW q \in Requester, RequestRegister(q)
      PROVE  EntriesHaveRows'
  <2> DEFINE k == request[q].session
             g == [viewer |-> IF q = Api THEN None ELSE q, fresh |-> TRUE, known |-> TRUE,
                   late |-> q # Api /\ socket[q] = "gone" /\ close[q].stage # "find"]
  <2>1. k \in Session /\ row[k].status # "none"
    BY <1>1 DEF RequestRegister
  <2>2. /\ registry' = [registry EXCEPT ![k] = g]
        /\ request' = [request EXCEPT ![q] = NoRequest]
        /\ row' = row
    BY <1>1 DEF RequestRegister
  <2>3. g.known
    OBVIOUS
  <2> HIDE DEF g, k
  <2> QED
    BY <1>T, <2>1, <2>2, <2>3 DEF NoRequest
<1>2. ASSUME NEW q \in Requester, NEW d \in Device, RequestLookup(q, d)
      PROVE  EntriesHaveRows'
  BY <1>2, <1>T DEF RequestLookup
<1>3. ASSUME NEW q \in Requester, NEW u \in User, NEW s \in Session, RequestCreate(q, u, s)
      PROVE  EntriesHaveRows'
  <2>1. /\ row'[s].status = "REQUESTED"
        /\ \A t \in Session : t # s => row'[t] = row[t]
        /\ registry' = registry
    BY <1>3, <1>T DEF RequestCreate
  <2>2. /\ request'[q].session = s
        /\ \A x \in Requester : x # q => request'[x] = request[x]
    BY <1>3, <1>T DEF RequestCreate, Request
  <2> QED
    BY <2>1, <2>2
<1>4. ASSUME NEW v \in Viewer, NEW s \in Session, JoinStream(v, s)
      PROVE  EntriesHaveRows'
  <2>1. /\ \A t \in Session : registry'[t].known = registry[t].known
        /\ \A t \in Session : t # s => registry'[t] = registry[t]
        /\ UNCHANGED <<row, request>>
    BY <1>4, <1>T DEF JoinStream, Entry
  <2> QED
    BY <1>4, <2>1 DEF JoinStream
<1>5. ASSUME NEW s \in Session, OfferWrite(s) \/ Signal(s) \/ GrowIdle(s)
      PROVE  EntriesHaveRows'
  <2>1. request' = request
    BY <1>5 DEF OfferWrite, Signal, GrowIdle
  <2>2. \A t \in Session : /\ registry'[t].known = registry[t].known
                           /\ registry'[t].viewer = registry[t].viewer
    BY <1>5, <1>T DEF OfferWrite, Signal, GrowIdle, Entry
  <2>3. \A t \in Session : row[t].status # "none" => row'[t].status # "none"
    BY <1>5, <1>T DEF OfferWrite, Signal, GrowIdle, StreamRow
  <2> QED
    BY <2>1, <2>2, <2>3
<1>6. ASSUME NEW c \in Caller, CloseStep(c)
      PROVE  EntriesHaveRows'
  <2>1. CASE CloseUpdate(c)
    <3>1. \A t \in Session : row[t].status # "none" => row'[t].status # "none"
      BY <2>1, <1>T DEF CloseUpdate, StreamRow
    <3> QED
      BY <2>1, <3>1 DEF CloseUpdate
  <2>2. CASE CloseRelease(c)
    <3>1. \A t \in Session : registry'[t] \in {registry[t], NoEntry}
      BY <2>2, <1>T DEF CloseRelease
    <3>2. NoEntry.viewer = None /\ ~NoEntry.known
      BY DEF NoEntry
    <3> QED
      BY <2>2, <3>1, <3>2 DEF CloseRelease
  <2> QED
    BY <1>0, <1>6, <2>1, <2>2 DEF CloseStep, CloseNext, CloseDone, CloseRead, CloseFails
<1>7. CASE \/ \E v \in Viewer : ViewerLost(v) \/ ViewerFind(v)
           \/ \E s \in Session : OfferRead(s) \/ Delete(s)
           \/ \E d \in Device : AgentLost(d)
           \/ IdleBegin \/ IdleRows
  BY <1>0, <1>7 DEF ViewerLost, ViewerFind, OfferRead, Delete, AgentLost, IdleBegin, IdleRows
<1>8. CASE Restart
  BY <1>8 DEF Restart, NoEntry, NoRequest
<1>9. CASE UNCHANGED streamVars
  BY <1>0, <1>9 DEF streamVars
<1> QED
  BY <1>1, <1>2, <1>3, <1>4, <1>5, <1>6, <1>7, <1>8, <1>9 DEF StreamNext

(***************************************************************************)
(* What a step may do to the handler of a viewer: begin it, find, go on.    *)
(***************************************************************************)
LEMMA OwnCloseStep ==
  ASSUME StreamShape, [StreamNext]_streamVars, NEW v \in Viewer
  PROVE  \/ UNCHANGED <<close[v], socket[v]>>
         \/ ViewerLost(v) \/ ViewerFind(v) \/ CloseStep(v) \/ Restart
<1> DEFINE Goal == \/ UNCHANGED <<close[v], socket[v]>>
                   \/ ViewerLost(v) \/ ViewerFind(v) \/ CloseStep(v) \/ Restart
<1> USE StreamConstantsAssumption DEF Caller
<1>T. /\ close \in [Caller -> Closing]
      /\ socket \in [Viewer -> {"open", "gone"}]
      /\ v \in Caller
  BY DEF StreamShape
<1>1. ASSUME NEW x \in Viewer, ViewerLost(x) \/ ViewerFind(x), x # v
      PROVE  Goal
  BY <1>1, <1>T DEF ViewerLost, ViewerFind, Call
<1>2. ASSUME NEW c \in Caller, CloseStep(c), c # v
      PROVE  Goal
  <2>1. socket' = socket
    BY <1>2 DEF CloseStep, CloseNext, CloseDone, CloseRead, CloseUpdate, CloseRelease, CloseFails
  <2>2. close'[v] = close[v]
    BY <1>2, <1>T
    DEF CloseStep, CloseNext, CloseDone, CloseRead, CloseUpdate, CloseRelease, CloseFails, Call
  <2> QED
    BY <2>1, <2>2
<1>3. CASE \/ \E s \in Session : Delete(s)
           \/ \E d \in Device : AgentLost(d)
           \/ IdleBegin \/ IdleRows
  <2>1. ASSUME NEW c \in Caller, c # v, NEW stage, NEW todo, Call(c, stage, todo)
        PROVE  close'[v] = close[v]
    BY <1>T, <2>1 DEF Call
  <2>2. close'[v] = close[v]
    <3>1. ASSUME NEW s \in Session, Delete(s)
          PROVE  close'[v] = close[v]
      <4>1. Call(Api, "next", {s}) /\ Api # v
        BY <3>1 DEF Delete
      <4> QED
        BY <2>1, <4>1
    <3>2. ASSUME NEW d \in Device, AgentLost(d)
          PROVE  close'[v] = close[v]
      <4>1. d # v
        OBVIOUS
      <4> QED
        BY <2>1, <3>2, <4>1 DEF AgentLost
    <3>3. CASE IdleBegin
      BY <2>1, <3>3 DEF IdleBegin
    <3>4. CASE IdleRows
      BY <1>T, <3>4 DEF IdleRows
    <3> QED
      BY <1>3, <3>1, <3>2, <3>3, <3>4
  <2>3. socket' = socket
    BY <1>3 DEF Delete, AgentLost, IdleBegin, IdleRows
  <2> QED
    BY <2>2, <2>3
<1>4. ASSUME NEW q \in Requester,
             \/ RequestRegister(q)
             \/ \E d \in Device : RequestLookup(q, d)
             \/ \E u \in User, s \in Session : RequestCreate(q, u, s)
      PROVE  Goal
  BY <1>4 DEF RequestRegister, RequestLookup, RequestCreate
<1>5. ASSUME NEW s \in Session,
             \/ OfferRead(s) \/ OfferWrite(s) \/ Signal(s) \/ GrowIdle(s)
             \/ \E x \in Viewer : JoinStream(x, s)
      PROVE  Goal
  BY <1>5 DEF OfferRead, OfferWrite, Signal, GrowIdle, JoinStream
<1>6. CASE UNCHANGED streamVars
  BY <1>6 DEF streamVars
<1> QED
  BY <1>1, <1>2, <1>3, <1>4, <1>5, <1>6 DEF StreamNext

LEMMA HandlersStep ==
  StreamShape /\ HandlersRest /\ [StreamNext]_streamVars => HandlersRest'
<1> SUFFICES ASSUME StreamShape, HandlersRest, [StreamNext]_streamVars, NEW v \in Viewer
             PROVE  /\ socket'[v] = "open" => close'[v] = NoClose
                    /\ close'[v].session # None => close'[v].stage \in {"read", "update", "release"}
  BY DEF HandlersRest
<1> DEFINE Goal == /\ socket'[v] = "open" => close'[v] = NoClose
                   /\ close'[v].session # None =>
                        close'[v].stage \in {"read", "update", "release"}
<1>T. /\ close \in [Caller -> Closing]
      /\ socket \in [Viewer -> {"open", "gone"}]
      /\ close[v] \in Closing
      /\ v \in Caller
  BY DEF StreamShape, Caller
<1>I. /\ socket[v] = "open" => close[v] = NoClose
      /\ close[v].session # None => close[v].stage \in {"read", "update", "release"}
  BY DEF HandlersRest
<1>1. CASE UNCHANGED <<close[v], socket[v]>>
  BY <1>1, <1>I
<1>2. CASE ViewerLost(v) \/ ViewerFind(v)
  <2>1. PICK todo : close'[v] = [NoClose EXCEPT !.stage = "find", !.todo = todo]
                    \/ close'[v] = [NoClose EXCEPT !.stage = "next", !.todo = todo]
    BY <1>2, <1>T DEF ViewerLost, ViewerFind, Call
  <2>2. close'[v].session = None
    BY <2>1 DEF NoClose
  <2>3. socket'[v] # "open"
    BY <1>2, <1>I, <1>T DEF ViewerLost, ViewerFind, NoClose
  <2> QED
    BY <2>2, <2>3
<1>3. CASE CloseStep(v)
  <2>0. socket' = socket /\ close[v].stage # "idle"
    BY <1>3 DEF CloseStep, CloseNext, CloseDone, CloseRead, CloseUpdate, CloseRelease, CloseFails
  <2>1. socket' = socket /\ socket[v] # "open"
    BY <2>0, <1>I DEF NoClose
  <2>2. CASE CloseNext(v)
    <3>1. PICK s \in close[v].todo :
            close' = [close EXCEPT ![v].todo = @ \ {s},
                        ![v].stage = IF Closes(v, s) THEN "read" ELSE "next",
                        ![v].session = IF Closes(v, s) THEN s ELSE None]
      BY <2>2 DEF CloseNext
    <3>2. /\ Closes(v, s) => close'[v].stage = "read"
          /\ ~Closes(v, s) => close'[v].session = None
      BY <1>T, <3>1 DEF Closing
    <3> QED
      BY <2>1, <3>2
  <2>3. CASE CloseDone(v) \/ CloseFails(v)
    <3>1. PICK stage, todo : Call(v, stage, todo)
      BY <2>3 DEF CloseDone, CloseFails
    <3>2. close'[v].session = None
      BY <1>T, <3>1 DEF Call, NoClose
    <3> QED
      BY <2>1, <3>2
  <2>4. CASE CloseRead(v) \/ CloseRelease(v)
    <3>1. \/ close'[v] = [close[v] EXCEPT !.stage = "update"]
          \/ close'[v] = Resumed(v)
      BY <1>T, <2>4 DEF CloseRead, CloseRelease
    <3>2. \/ close'[v].stage = "update"
          \/ close'[v].session = None
      BY <1>T, <3>1 DEF Resumed, Closing
    <3> QED
      BY <2>1, <3>2
  <2>5. CASE CloseUpdate(v)
    <3>1. close'[v].stage = "release"
      BY <1>T, <2>5 DEF CloseUpdate, Closing
    <3> QED
      BY <2>1, <3>1
  <2> QED
    BY <1>3, <2>2, <2>3, <2>4, <2>5 DEF CloseStep
<1>4. CASE Restart
  BY <1>4, <1>T DEF Restart, NoClose
<1> QED
  BY <1>1, <1>2, <1>3, <1>4, OwnCloseStep

(***************************************************************************)
(* How a stream comes to be left open: its viewer is lost, or a request of  *)
(* a viewer already lost binds it, before that viewer's handler has looked. *)
(***************************************************************************)
LEMMA LeftOpenStep ==
  ASSUME StreamShape, EntriesHaveRows, [StreamNext]_streamVars,
         NEW s \in Session, NEW v \in Viewer, LeftOpen(s, v)'
  PROVE  LeftOpen(s, v) \/ close'[v].stage = "find"
<1> DEFINE Goal == LeftOpen(s, v) \/ close'[v].stage = "find"
<1> USE StreamConstantsAssumption DEF LeftOpen, IsOpen
<1>T. /\ row \in [Session -> StreamRow]
      /\ registry \in [Session -> Entry]
      /\ socket \in [Viewer -> {"open", "gone"}]
      /\ close \in [Caller -> Closing]
      /\ v \in Caller
  BY DEF StreamShape, Caller
<1>0. CASE UNCHANGED <<row, registry, socket>>
  BY <1>0
<1>1. ASSUME NEW x \in Viewer, ViewerLost(x)
      PROVE  Goal
  <2>1. CASE x = v
    BY <1>1, <1>T, <2>1 DEF ViewerLost, Call, NoClose
  <2>2. CASE x # v
    BY <1>1, <1>T, <2>2 DEF ViewerLost
  <2> QED
    BY <2>1, <2>2
<1>2. ASSUME NEW q \in Requester, RequestRegister(q)
      PROVE  Goal
  <2>0. UNCHANGED <<row, socket, close>>
    BY <1>2 DEF RequestRegister
  <2>1. CASE s # request[q].session
    BY <1>2, <1>T, <2>0, <2>1 DEF RequestRegister
  <2>2. CASE s = request[q].session
    <3>1. /\ registry'[s].viewer = IF q = Api THEN None ELSE q
          /\ registry'[s].late = (q # Api /\ socket[q] = "gone" /\ close[q].stage # "find")
      BY <1>2, <1>T, <2>2 DEF RequestRegister
    <3>2. q = v
      BY <3>1
    <3> QED
      BY <2>0, <3>1, <3>2
  <2> QED
    BY <2>1, <2>2
<1>3. ASSUME NEW q \in Requester,
             \/ \E d \in Device : RequestLookup(q, d)
             \/ \E u \in User, t \in Session : RequestCreate(q, u, t)
      PROVE  Goal
  <2>1. CASE \E d \in Device : RequestLookup(q, d)
    BY <1>0, <2>1 DEF RequestLookup
  <2>2. ASSUME NEW u \in User, NEW t \in Session, RequestCreate(q, u, t)
        PROVE  Goal
    <3>1. UNCHANGED <<registry, socket>>
      BY <2>2 DEF RequestCreate
    <3>2. row[t].status = "none"
      BY <2>2 DEF RequestCreate, NoRow
    <3>3. t # s
      BY <3>1, <3>2 DEF EntriesHaveRows
    <3>4. row'[s] = row[s]
      BY <1>T, <2>2, <3>3 DEF RequestCreate
    <3> QED
      BY <3>1, <3>4
  <2> QED
    BY <1>3, <2>1, <2>2
<1>4. ASSUME NEW x \in Viewer, NEW t \in Session, JoinStream(x, t)
      PROVE  Goal
  <2>1. UNCHANGED <<row, socket>> /\ socket[x] = "open"
    BY <1>4 DEF JoinStream
  <2>2. registry'[s].late = registry[s].late
    BY <1>4, <1>T DEF JoinStream, Entry
  <2>3. registry'[s].viewer \in {registry[s].viewer, x}
    BY <1>4, <1>T DEF JoinStream, Entry
  <2> QED
    BY <2>1, <2>2, <2>3
<1>5. ASSUME NEW t \in Session, OfferWrite(t)
      PROVE  Goal
  <2>1. CASE t = s
    <3>1. /\ row'[s].user = row[s].user
          /\ registry'[s].viewer = registry[s].viewer
          /\ registry'[s].late = (registry[s].late \/ (Registered(s) /\ ~IsOpen(s)))
          /\ socket' = socket
      BY <1>5, <1>T, <2>1 DEF OfferWrite, Entry, StreamRow
    <3>2. Registered(s)
      BY <3>1 DEF EntriesHaveRows
    <3> QED
      BY <3>1, <3>2
  <2>2. CASE t # s
    BY <1>5, <1>T, <2>2 DEF OfferWrite
  <2> QED
    BY <2>1, <2>2
<1>6. ASSUME NEW t \in Session, Signal(t) \/ GrowIdle(t)
      PROVE  Goal
  <2>1. row'[s].user = row[s].user /\ row'[s].status = row[s].status
    BY <1>6, <1>T DEF Signal, GrowIdle, StreamRow
  <2>2. registry'[s].viewer = registry[s].viewer /\ registry'[s].late = registry[s].late
    BY <1>6, <1>T DEF Signal, GrowIdle, Entry
  <2>3. socket' = socket
    BY <1>6 DEF Signal, GrowIdle
  <2> QED
    BY <2>1, <2>2, <2>3
<1>7. ASSUME NEW c \in Caller, CloseStep(c)
      PROVE  Goal
  <2>1. CASE CloseUpdate(c)
    <3>1. row'[s] = row[s] \/ row'[s].status = "CLOSED"
      BY <1>T, <2>1 DEF CloseUpdate, StreamRow
    <3> QED
      BY <2>1, <3>1 DEF CloseUpdate
  <2>2. CASE CloseRelease(c)
    <3>1. registry'[s] = registry[s] \/ registry'[s].viewer = None
      BY <1>T, <2>2 DEF CloseRelease, NoEntry
    <3> QED
      BY <2>2, <3>1 DEF CloseRelease
  <2> QED
    BY <1>0, <1>7, <2>1, <2>2 DEF CloseStep, CloseNext, CloseDone, CloseRead, CloseFails
<1>8. CASE \/ \E x \in Viewer : ViewerFind(x)
           \/ \E t \in Session : OfferRead(t) \/ Delete(t)
           \/ \E d \in Device : AgentLost(d)
           \/ IdleBegin \/ IdleRows
  BY <1>0, <1>8 DEF ViewerFind, OfferRead, Delete, AgentLost, IdleBegin, IdleRows
<1>9. CASE Restart
  BY <1>9 DEF Restart, NoEntry
<1>10. CASE UNCHANGED streamVars
  BY <1>0, <1>10 DEF streamVars
<1> QED
  BY <1>1, <1>2, <1>3, <1>4, <1>5, <1>6, <1>7, <1>8, <1>9, <1>10 DEF StreamNext

(***************************************************************************)
(* The handler of a lost viewer does not let go of a stream left open.      *)
(***************************************************************************)
LEMMA OwnHandlerStep ==
  /\ StreamShape /\ EntriesHaveRows /\ HandlersRest
  /\ OwnHandlerAttends /\ [StreamNext]_streamVars
  => OwnHandlerAttends'
<1> SUFFICES ASSUME StreamShape, EntriesHaveRows, HandlersRest, OwnHandlerAttends,
                    [StreamNext]_streamVars,
                    NEW s \in Session, NEW v \in Viewer, LeftOpen(s, v)'
             PROVE  OwnAttends(s, v)'
  BY DEF OwnHandlerAttends
<1> USE StreamConstantsAssumption
<1>T. /\ close \in [Caller -> Closing]
      /\ close[v] \in Closing
      /\ registry \in [Session -> Entry]
      /\ row \in [Session -> StreamRow]
      /\ v \in Caller
  BY DEF StreamShape, Caller
<1>1. CASE close'[v].stage = "find"
  BY <1>1 DEF OwnAttends
<1>2. CASE LeftOpen(s, v)
  <2>0. OwnAttends(s, v) /\ socket[v] = "gone" /\ IsOpen(s) /\ row[s].user = UserOf[v]
    BY <1>2 DEF OwnHandlerAttends, LeftOpen
  <2>1. CASE UNCHANGED <<close[v], socket[v]>>
    BY <2>0, <2>1 DEF OwnAttends
  <2>2. CASE ViewerLost(v)
    BY <2>0, <2>2 DEF ViewerLost
  <2>3. CASE ViewerFind(v)
    <3>1. s \in OpenOfUser(UserOf[v])
      BY <2>0 DEF OpenOfUser
    <3>2. close'[v].todo = OpenOfUser(UserOf[v])
      BY <1>T, <2>3 DEF ViewerFind, Call, NoClose
    <3> QED
      BY <3>1, <3>2 DEF OwnAttends
  <2>4. CASE CloseNext(v)
    <3>1. PICK t \in close[v].todo :
            close' = [close EXCEPT ![v].todo = @ \ {t},
                        ![v].stage = IF Closes(v, t) THEN "read" ELSE "next",
                        ![v].session = IF Closes(v, t) THEN t ELSE None]
      BY <2>4 DEF CloseNext
    <3>2. close[v].stage = "next" /\ close[v].session = None
      BY <2>4 DEF CloseNext, HandlersRest
    <3>3. s \in close[v].todo
      BY <2>0, <3>2 DEF OwnAttends
    <3>4. CASE t = s
      <4>1. Closes(v, s)
        BY <1>2 DEF Closes, LeftOpen
      <4>2. close'[v].session = s
        BY <1>T, <3>1, <3>4, <4>1 DEF Closing
      <4> QED
        BY <4>2 DEF OwnAttends
    <3>5. CASE t # s
      <4>1. close'[v].todo = close[v].todo \ {t}
        BY <1>T, <3>1 DEF Closing
      <4> QED
        BY <3>3, <3>5, <4>1 DEF OwnAttends
    <3> QED
      BY <3>4, <3>5
  <2>5. CASE CloseDone(v)
    BY <2>0, <2>5 DEF CloseDone, OwnAttends, HandlersRest
  <2>6. CASE CloseRead(v)
    <3>1. close'[v].todo = close[v].todo
      BY <1>T, <2>6 DEF CloseRead, Resumed, Closing
    <3>2. close[v].session = s => close'[v].session = s
      BY <1>T, <2>0, <2>6 DEF CloseRead, Closing
    <3> QED
      BY <2>0, <2>6, <3>1, <3>2 DEF OwnAttends, CloseRead
  <2>7. CASE CloseUpdate(v)
    <3>1. close'[v].todo = close[v].todo /\ close'[v].session = close[v].session
      BY <1>T, <2>7 DEF CloseUpdate, Closing
    <3> QED
      BY <2>0, <2>7, <3>1 DEF OwnAttends, CloseUpdate
  <2>8. CASE CloseRelease(v)
    <3>1. close'[v].todo = close[v].todo
      BY <1>T, <2>8 DEF CloseRelease, Resumed, Closing
    <3>2. close[v].session # s
      <4>1. close[v].session = s => registry'[s].viewer = None
        BY <1>T, <2>8 DEF CloseRelease, NoEntry
      <4> QED
        BY <4>1 DEF LeftOpen
    <3> QED
      BY <2>0, <2>8, <3>1, <3>2 DEF OwnAttends, CloseRelease
  <2>9. CASE CloseFails(v)
    <3>1. close'[v].stage = "failed"
      BY <1>T, <2>9 DEF CloseFails, Call, NoClose
    <3> QED
      BY <3>1 DEF OwnAttends
  <2>10. CASE Restart
    <3>1. registry'[s].viewer = None
      BY <2>10 DEF Restart, NoEntry
    <3> QED
      BY <3>1 DEF LeftOpen
  <2> QED
    BY <2>1, <2>2, <2>3, <2>4, <2>5, <2>6, <2>7, <2>8, <2>9, <2>10, OwnCloseStep DEF CloseStep
<1> QED
  BY <1>1, <1>2, LeftOpenStep

(***************************************************************************)
(* However many callers close the same sessions, and whatever joins,        *)
(* requests, failures and restarts come in between: a stream a lost viewer  *)
(* has left open is being closed.                                           *)
(***************************************************************************)
THEOREM LostViewerAttended == StreamSpec => []LostViewerStreamClosing
<1>1. StreamInit => EntriesHaveRows /\ HandlersRest /\ OwnHandlerAttends
  BY DEF StreamInit, EntriesHaveRows, HandlersRest, OwnHandlerAttends, LeftOpen, IsOpen,
         Registered, NoRow, NoEntry, NoRequest, NoClose, Caller
<1>2. OwnHandlerAttends => LostViewerStreamClosing
  BY DEF OwnHandlerAttends, OwnAttends, LeftOpen, LostViewerStreamClosing, Attended, Caller
<1> QED
  BY <1>1, <1>2, ShapeKept, EntriesStep, HandlersStep, OwnHandlerStep, PTL DEF StreamSpec

=============================================================================
