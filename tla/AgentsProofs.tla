---------------------------- MODULE AgentsProofs ----------------------------
(***************************************************************************)
(* Proofs about the agents of devices, for every set of sockets, presence   *)
(* rows, handlers, cameras, uploads in flight and offers: PiAgents,          *)
(* StreamFrames and WebrtcOffers, which share no state.                     *)
(***************************************************************************)
EXTENDS PiAgents, StreamFrames, WebrtcOffers, TLAPS

-----------------------------------------------------------------------------
(* Presence *)

(* A cleanup is that of a lost socket. *)
LeavingInv == \A s \in Socket : leaving[s] # "idle" => conn[s] = "lost"

AgentInv == AgentTypeOK /\ LeavingInv /\ OnlineAccounted

LEMMA NoJobType == NoJob \in AgentJob /\ \A stage \in {"touch", "write", "finish", "update"} :
                     \A copy \in {"ONLINE", "OFFLINE"} :
                       [NoJob EXCEPT !.stage = stage, !.copy = copy] \in AgentJob
                       /\ [NoJob EXCEPT !.stage = stage] \in AgentJob
BY DEF NoJob, AgentJob

(* The handlers of events, but for their writes of a row. *)
LEMMA HandlerTypes ==
  ASSUME AgentInv, NEW s \in Socket,
         \/ RegisterStart(s) \/ RegisterUpdate(s) \/ RegisterFinish(s) \/ RegisterFails(s)
         \/ Heartbeat(s) \/ Report(s) \/ BeatWrite(s)
  PROVE  AgentInv' /\ presence' = presence
<1>1. AgentTypeOK /\ LeavingInv /\ OnlineAccounted
  BY DEF AgentInv
<1>2. /\ conn' = conn /\ leaving' = leaving /\ found' = found /\ presence' = presence
      /\ registered' \subseteq Socket
  BY <1>1
     DEF AgentTypeOK, RegisterStart, RegisterUpdate, RegisterFinish, RegisterFails, Heartbeat,
         Report, BeatWrite
<1>3. handling' \in [Socket -> AgentJob]
  <2>1. CASE RegisterStart(s)
    <3>1. PICK x \in Lookup(s) \cup {[row |-> None, how |-> "create"]} :
            handling' = [handling EXCEPT ![s] = [stage |-> "bind", copy |-> status, row |-> x.row, how |-> x.how]]
      BY <2>1 DEF RegisterStart
    <3>2. x.row \in Row \cup {None} /\ x.how \in {"create", "rebind", "refresh", "revive"}
      BY DEF Lookup, RowOf
    <3> QED
      BY <1>1, <3>1, <3>2 DEF AgentTypeOK, AgentJob
  <2>2. CASE \/ RegisterUpdate(s) \/ RegisterFinish(s) \/ RegisterFails(s)
             \/ Heartbeat(s) \/ Report(s) \/ BeatWrite(s)
    <3>1. status \in {"ONLINE", "OFFLINE"} /\ handling \in [Socket -> AgentJob]
      BY <1>1 DEF AgentTypeOK
    <3>2. \E job \in AgentJob : handling' = [handling EXCEPT ![s] = job]
      BY <2>2, <3>1, NoJobType
         DEF RegisterUpdate, RegisterFinish, RegisterFails, Heartbeat, Report, BeatWrite
    <3> QED
      BY <3>1, <3>2
  <2> QED
    BY <2>1, <2>2
<1>4. /\ status' = status /\ keeper' = keeper
      \/ /\ status' = "ONLINE"
         /\ keeper' = IF status = "ONLINE" THEN keeper ELSE IF Late(s) THEN None ELSE s
  BY
     DEF RegisterStart, RegisterUpdate, RegisterFinish, RegisterFails, Heartbeat, Report,
         BeatWrite, WriteOnline
<1>5. status' \in {"ONLINE", "OFFLINE"} /\ keeper' \in Socket \cup {None}
  BY <1>1, <1>4 DEF AgentTypeOK
<1>6. AgentTypeOK'
  BY <1>1, <1>2, <1>3, <1>5 DEF AgentTypeOK
<1>7. LeavingInv'
  BY <1>1, <1>2 DEF LeavingInv
<1>8. OnlineAccounted'
  BY <1>1, <1>2, <1>4, AgentConstantsAssumption DEF OnlineAccounted, Late
<1> QED
  BY <1>2, <1>6, <1>7, <1>8 DEF AgentInv

(* An upsert leaves an online row online, and so does a heartbeat. *)
LEMMA RowTouched ==
  ASSUME AgentInv, NEW s \in Socket, BindRow(s) \/ BeatTouch(s)
  PROVE  AgentInv' /\ \A r \in Row : presence[r].online => presence'[r].online
<1>1. AgentTypeOK /\ LeavingInv /\ OnlineAccounted
  BY DEF AgentInv
<1>2. /\ conn' = conn /\ leaving' = leaving /\ found' = found /\ registered' = registered
      /\ status' = status /\ keeper' = keeper
  BY DEF BindRow, BeatTouch
<1>3. presence \in [Row -> [socket : Socket \cup {None}, online : BOOLEAN]] /\ handling \in [Socket -> AgentJob]
  BY <1>1 DEF AgentTypeOK
<1>4. handling' \in [Socket -> AgentJob]
  <2>1. \E job \in AgentJob : handling' = [handling EXCEPT ![s] = job]
    BY NoJobType DEF BindRow, BeatTouch
  <2> QED
    BY <1>3, <2>1
<1>5. /\ presence' \in [Row -> [socket : Socket \cup {None}, online : BOOLEAN]]
      /\ \A r \in Row : presence[r].online => presence'[r].online
  <2>1. CASE BeatTouch(s)
    BY <1>3, <2>1 DEF BeatTouch, TouchRow
  <2>2. CASE BindRow(s)
    <3> DEFINE job == handling[s]
               row == IF job.how = "create" THEN FreeRow ELSE job.row
    <3>1. \/ presence' = presence
          \/ presence' = [presence EXCEPT ![row] = BoundRow(row, s, job.how)]
      BY <2>2 DEF BindRow
    <3>2. job.how \in {"create", "rebind", "refresh", "revive"}
      BY <1>3 DEF AgentJob
    <3>3. ASSUME row \in Row
          PROVE  /\ BoundRow(row, s, job.how) \in [socket : Socket \cup {None}, online : BOOLEAN]
                 /\ presence[row].online => BoundRow(row, s, job.how).online
      BY <1>3, <3>2, <3>3 DEF BoundRow
    <3> HIDE DEF row
    <3> QED
      BY <1>3, <3>1, <3>3
  <2> QED
    BY <2>1, <2>2
<1>6. AgentTypeOK'
  BY <1>1, <1>2, <1>4, <1>5 DEF AgentTypeOK
<1>7. LeavingInv' /\ OnlineAccounted'
  BY <1>1, <1>2 DEF LeavingInv, OnlineAccounted
<1> QED
  BY <1>5, <1>6, <1>7 DEF AgentInv

(* The cleanup of a socket, which is lost, takes offline the row of that one. *)
LEMMA LeaveTakesOwn ==
  ASSUME AgentInv, NEW s \in Socket,
         \/ MarkSocketOffline(s) \/ LeaveUnregistered(s) \/ LeaveLoad(s) \/ LeaveWrite(s) \/ LeaveFails(s)
  PROVE  /\ AgentInv'
         /\ \A r \in Row : presence[r].online /\ ~presence'[r].online => ~Alive(r)
<1>1. AgentTypeOK /\ LeavingInv /\ OnlineAccounted
  BY DEF AgentInv
<1>2. conn[s] = "lost" /\ leaving[s] # "idle"
  BY <1>1 DEF LeavingInv, MarkSocketOffline, LeaveUnregistered, LeaveLoad, LeaveWrite, LeaveFails
<1>3. registered' = registered /\ handling' = handling /\ found' = found
  BY DEF MarkSocketOffline, LeaveUnregistered, LeaveLoad, LeaveWrite, LeaveFails, Spare
<1>4. presence' = presence \/ presence' = [r \in Row |-> MarkRow(r, s)]
  BY DEF MarkSocketOffline, LeaveUnregistered, LeaveLoad, LeaveWrite, LeaveFails, Spare
<1>5. presence' \in [Row -> [socket : Socket \cup {None}, online : BOOLEAN]]
  <2>1. presence \in [Row -> [socket : Socket \cup {None}, online : BOOLEAN]]
    BY <1>1 DEF AgentTypeOK
  <2>2. \A r \in Row : MarkRow(r, s) \in [socket : Socket \cup {None}, online : BOOLEAN]
    BY <2>1 DEF MarkRow
  <2> QED
    BY <1>4, <2>1, <2>2
<1>6. /\ leaving' \in [Socket -> {"idle", "mark", "load", "write"}]
      /\ \A q \in Socket \ {s} : leaving'[q] = leaving[q] /\ conn'[q] = conn[q]
      /\ conn' \in [Socket -> {"new", "open", "lost", "gone"}]
      /\ conn'[s] = "lost" \/ (conn'[s] = "gone" /\ leaving'[s] = "idle")
  BY <1>1, <1>2
  DEF AgentTypeOK, MarkSocketOffline, LeaveUnregistered, LeaveLoad, LeaveWrite, LeaveFails, Spare
<1>7. /\ status' \in {"ONLINE", "OFFLINE"} /\ keeper' \in {keeper, None}
      /\ keeper' # None => status' = status
      /\ keeper' = s /\ keeper' # None => conn'[s] # "gone"
  <2>1. CASE MarkSocketOffline(s)
    BY <1>1, <1>2, <2>1 DEF MarkSocketOffline, AgentTypeOK
  <2>2. CASE LeaveUnregistered(s) \/ LeaveFails(s)
    BY <1>1, <2>2 DEF LeaveUnregistered, LeaveFails, Spare, AgentTypeOK
  <2>3. CASE LeaveLoad(s)
    BY <1>1, <1>2, <2>3 DEF LeaveLoad, AgentTypeOK, OnlineAccounted
  <2>4. CASE LeaveWrite(s)
    BY <2>4 DEF LeaveWrite, OfflineStatus
  <2> QED
    BY <2>1, <2>2, <2>3, <2>4
<1>8. AgentTypeOK'
  BY <1>1, <1>3, <1>5, <1>6, <1>7 DEF AgentTypeOK
<1>9. LeavingInv'
  BY <1>1, <1>6 DEF LeavingInv
<1>10. OnlineAccounted'
  BY <1>1, <1>6, <1>7 DEF OnlineAccounted, AgentTypeOK
<1>11. ASSUME NEW r \in Row, presence[r].online, ~presence'[r].online PROVE ~Alive(r)
  BY <1>1, <1>2, <1>4, <1>11 DEF MarkRow, Alive
<1> QED
  BY <1>8, <1>9, <1>10, <1>11 DEF AgentInv

LEMMA AgentStart == AgentInit => AgentInv
BY AgentConstantsAssumption, NoJobType
DEF AgentInit, AgentInv, AgentTypeOK, LeavingInv, OnlineAccounted, NoRow

LEMMA AgentStep ==
  AgentInv /\ [AgentNext]_agentVars =>
    AgentInv' /\ [\A r \in Row : presence[r].online /\ ~presence'[r].online /\ Alive(r) => r \in found]_agentVars
<1> SUFFICES ASSUME AgentInv, [AgentNext]_agentVars
             PROVE  AgentInv' /\ \A r \in Row : presence[r].online /\ ~presence'[r].online /\ Alive(r) => r \in found
  OBVIOUS
<1>1. CASE UNCHANGED agentVars
  BY <1>1 DEF agentVars, AgentInv, AgentTypeOK, LeavingInv, OnlineAccounted
<1>2. ASSUME NEW s \in Socket, Connect(s) \/ Lose(s) PROVE AgentInv' /\ presence' = presence
  <2>1. /\ conn' \in [Socket -> {"new", "open", "lost", "gone"}]
        /\ leaving' \in [Socket -> {"idle", "mark", "load", "write"}]
        /\ \A q \in Socket \ {s} : leaving'[q] = leaving[q] /\ conn'[q] = conn[q]
        /\ \/ conn[s] = "new" /\ conn'[s] = "open" /\ leaving'[s] = leaving[s]
           \/ conn'[s] = "lost"
        /\ UNCHANGED <<registered, status, presence, handling, found, keeper>>
    BY <1>2 DEF Connect, Lose, AgentInv, AgentTypeOK
  <2>2. AgentTypeOK /\ LeavingInv /\ OnlineAccounted
    BY DEF AgentInv
  <2>3. AgentTypeOK'
    BY <2>1, <2>2 DEF AgentTypeOK
  <2>4. LeavingInv'
    BY <2>1, <2>2 DEF LeavingInv
  <2>5. OnlineAccounted'
    BY <2>1, <2>2 DEF OnlineAccounted, AgentTypeOK
  <2> QED
    BY <2>1, <2>3, <2>4, <2>5 DEF AgentInv
<1>3. ASSUME NEW r \in Row, SweepFinds(r) PROVE AgentInv' /\ presence' = presence
  BY <1>3 DEF SweepFinds, AgentInv, AgentTypeOK, LeavingInv, OnlineAccounted
<1>4. ASSUME NEW r \in Row, SweepRow(r)
      PROVE  AgentInv' /\ \A q \in Row : presence[q].online /\ ~presence'[q].online => q \in found
  <2>1. presence' = [presence EXCEPT ![r] = [presence[r] EXCEPT !.online = FALSE]] /\ r \in found
    BY <1>4 DEF SweepRow, AgentInv, AgentTypeOK
  <2>2. presence' \in [Row -> [socket : Socket \cup {None}, online : BOOLEAN]]
    BY <2>1 DEF AgentInv, AgentTypeOK
  <2>3. AgentInv'
    BY <1>4, <2>2 DEF SweepRow, AgentInv, AgentTypeOK, LeavingInv, OnlineAccounted
  <2>4. \A q \in Row \ {r} : presence'[q] = presence[q]
    BY <2>1 DEF AgentInv, AgentTypeOK
  <2> QED
    BY <2>1, <2>3, <2>4
<1>5. ASSUME HttpReport PROVE AgentInv' /\ presence' = presence
  BY <1>5 DEF HttpReport, AgentInv, AgentTypeOK, LeavingInv, OnlineAccounted
<1> QED
  BY <1>1, <1>2, <1>3, <1>4, <1>5, HandlerTypes, RowTouched, LeaveTakesOwn
     DEF AgentNext, HandlerStep, LeaveStep

(* A device is ONLINE as long as a socket that wrote so has not been cleaned    *)
(* up, and no longer than until then.                                           *)
THEOREM OnlineAlwaysAccounted == AgentSpec => []OnlineAccounted
<1>1. AgentInv => OnlineAccounted
  BY DEF AgentInv
<1> QED
  BY <1>1, AgentStart, AgentStep, PTL DEF AgentSpec

(* The row of an open socket goes offline only by the sweep that found it stale.*)
THEOREM PresenceAlwaysKept == AgentSpec => PresenceKept
<1> QED
  BY AgentStart, AgentStep, PTL DEF AgentSpec, PresenceKept

-----------------------------------------------------------------------------
(* The sweep comes for the rows of lost sockets *)

Accounted(r) == ~presence[r].online \/ Alive(r)

Listed(r) == r \in found

(***************************************************************************)
(* What fairness asks for and the prover cannot see: ENABLED.  The sweep    *)
(* can find an online row it has not found, and can handle one it has; a    *)
(* handler in flight has its query answered; an open socket without one can *)
(* send a heartbeat.                                                        *)
(***************************************************************************)
SweepEnabled ==
  \A r \in Row :
    /\ presence[r].online /\ ~Listed(r) => ENABLED <<SweepFinds(r)>>_agentVars
    /\ Listed(r) => ENABLED <<SweepRow(r)>>_agentVars

HandlerEnabled ==
  \A s \in Socket :
    /\ handling[s] # NoJob => ENABLED <<HandlerStep(s)>>_agentVars
    /\ handling[s] = NoJob /\ conn[s] = "open" => ENABLED <<Heartbeat(s)>>_agentVars

LEMMA SweepRowClears ==
  ASSUME AgentInv, NEW r \in Row, SweepRow(r)
  PROVE  Accounted(r)'
<1>1. presence' = [presence EXCEPT ![r] = [presence[r] EXCEPT !.online = FALSE]]
  BY DEF SweepRow, AgentInv, AgentTypeOK
<1>2. presence'[r] = [presence[r] EXCEPT !.online = FALSE]
  BY <1>1 DEF AgentInv, AgentTypeOK
<1>3. ~presence'[r].online
  BY <1>2 DEF AgentInv, AgentTypeOK
<1> QED
  BY <1>3 DEF Accounted

(* A row stays listed until the sweep comes to it.                            *)
LEMMA ListedStays ==
  ASSUME AgentInv, [AgentNext]_agentVars, NEW r \in Row, Listed(r)
  PROVE  Listed(r)' \/ Accounted(r)'
<1> USE DEF Listed
<1>1. CASE UNCHANGED agentVars
  BY <1>1 DEF agentVars
<1>2. ASSUME NEW q \in Row, SweepFinds(q) PROVE Listed(r)'
  BY <1>2 DEF SweepFinds
<1>3. ASSUME NEW q \in Row, SweepRow(q) PROVE Listed(r)' \/ Accounted(r)'
  <2>1. CASE q = r
    BY <1>3, <2>1, SweepRowClears
  <2>2. CASE q # r
    BY <1>3, <2>2 DEF SweepRow
  <2> QED
    BY <2>1, <2>2
<1>4. ASSUME NEW s \in Socket,
             \/ Connect(s) \/ RegisterStart(s) \/ RegisterFails(s) \/ Heartbeat(s) \/ Report(s)
             \/ HandlerStep(s) \/ Lose(s) \/ LeaveStep(s) \/ LeaveFails(s)
      PROVE  Listed(r)'
  BY <1>4 DEF Connect, RegisterStart, RegisterFails, Heartbeat, Report, HandlerStep, BindRow,
              RegisterUpdate, RegisterFinish, BeatTouch, BeatWrite, Lose, LeaveStep,
              MarkSocketOffline, LeaveUnregistered, LeaveLoad, LeaveWrite, LeaveFails
<1>5. CASE HttpReport
  BY <1>5 DEF HttpReport
<1> QED
  BY <1>1, <1>2, <1>3, <1>4, <1>5 DEF AgentNext

(***************************************************************************)
(* Whatever heartbeats and rebinds leave an online row with a lost socket,  *)
(* a sweep that runs takes the row offline.                                 *)
(***************************************************************************)
THEOREM LostRowsSwept == AgentSpec /\ []SweepEnabled => LostRowSwept
<1>1. SUFFICES ASSUME NEW r \in Row
               PROVE  AgentSpec /\ []SweepEnabled => []<>Accounted(r)
  BY DEF LostRowSwept, Accounted
<1>2. AgentFairness => SweepRuns(r)
  BY DEF AgentFairness
<1>3. SweepEnabled =>
        /\ ~Accounted(r) /\ ~Listed(r) => ENABLED <<SweepFinds(r)>>_agentVars
        /\ Listed(r) => ENABLED <<SweepRow(r)>>_agentVars
  BY DEF SweepEnabled, Accounted
<1>4. <<SweepFinds(r)>>_agentVars => Listed(r)'
  BY DEF SweepFinds, Listed
<1>5. AgentInv /\ <<SweepRow(r)>>_agentVars => Accounted(r)'
  BY SweepRowClears
<1>6. AgentInv /\ Listed(r) /\ [AgentNext]_agentVars => Listed(r)' \/ Accounted(r)'
  BY ListedStays
<1>7. AgentSpec => []AgentInv
  BY AgentStart, AgentStep, PTL DEF AgentSpec
<1> QED
  BY <1>2, <1>3, <1>4, <1>5, <1>6, <1>7, PTL DEF AgentSpec, SweepRuns

-----------------------------------------------------------------------------
(* Heartbeats bring the device ONLINE *)

(* A handler that has ended leaves nothing behind.                            *)
JobInv == \A s \in Socket : handling[s].stage = "idle" => handling[s] = NoJob

Online(s) == status = "ONLINE" \/ conn[s] # "open"

Free(s) == handling[s] = NoJob

Binding(s) == handling[s].stage = "bind"

(* One query before the end: a registration, or a heartbeat that found ONLINE. *)
Ending(s) ==
  \/ handling[s].stage \in {"update", "finish"}
  \/ handling[s].stage = "touch" /\ handling[s].copy = "ONLINE"

(* A heartbeat that found OFFLINE, or a report, before its write of ONLINE.    *)
Touching(s) == handling[s].stage = "touch" /\ handling[s].copy = "OFFLINE"

Writing(s) == handling[s].stage = "write"

LEMMA JobStarts ==
  ASSUME AgentInv, JobInv, NEW s \in Socket,
         RegisterStart(s) \/ Heartbeat(s) \/ Report(s)
  PROVE  /\ handling[s] = NoJob
         /\ handling'[s].stage # "idle"
         /\ \A q \in Socket \ {s} : handling'[q] = handling[q]
<1>1. handling \in [Socket -> AgentJob]
  BY DEF AgentInv, AgentTypeOK
<1>2. CASE RegisterStart(s)
  <2>1. PICK x : handling' = [handling EXCEPT ![s] =
                   [stage |-> "bind", copy |-> status, row |-> x.row, how |-> x.how]]
    BY <1>2 DEF RegisterStart
  <2>2. handling'[s].stage = "bind"
    BY <1>1, <2>1
  <2> QED
    BY <1>1, <1>2, <2>1, <2>2 DEF RegisterStart
<1>3. CASE Heartbeat(s)
  BY <1>1, <1>3 DEF Heartbeat, NoJob
<1>4. CASE Report(s)
  BY <1>1, <1>4 DEF Report, NoJob
<1> QED
  BY <1>2, <1>3, <1>4

LEMMA BeatStarts ==
  ASSUME AgentInv, NEW s \in Socket, Heartbeat(s)
  PROVE  handling'[s].stage = "touch" /\ handling'[s].copy = status
<1>1. handling \in [Socket -> AgentJob]
  BY DEF AgentInv, AgentTypeOK
<1> QED
  BY <1>1 DEF Heartbeat, NoJob

LEMMA JobEnds ==
  ASSUME AgentInv, JobInv, NEW s \in Socket, HandlerStep(s) \/ RegisterFails(s)
  PROVE  /\ Binding(s) => Ending(s)'
         /\ Ending(s) => Free(s)' \/ Online(s)'
         /\ Touching(s) => Writing(s)'
         /\ Writing(s) => Online(s)'
         /\ handling'[s].stage = "idle" => Free(s)'
         /\ \A q \in Socket \ {s} : handling'[q] = handling[q]
<1> USE DEF AgentInv, AgentTypeOK, Binding, Ending, Touching, Writing, Free, Online, WriteOnline, NoJob
<1>1. CASE BindRow(s)
  BY <1>1 DEF BindRow
<1>2. CASE RegisterUpdate(s)
  BY <1>2 DEF RegisterUpdate
<1>3. CASE RegisterFinish(s)
  BY <1>3 DEF RegisterFinish
<1>4. CASE BeatTouch(s)
  BY <1>4 DEF BeatTouch
<1>5. CASE BeatWrite(s)
  BY <1>5 DEF BeatWrite
<1>6. CASE RegisterFails(s)
  BY <1>6 DEF RegisterFails
<1> QED
  BY <1>1, <1>2, <1>3, <1>4, <1>5, <1>6 DEF HandlerStep

(* What a step of the agent side does to the handler of a socket.             *)
LEMMA JobStep ==
  ASSUME AgentInv, JobInv, [AgentNext]_agentVars, NEW s \in Socket
  PROVE  \/ handling'[s] = handling[s]
         \/ handling[s] = NoJob /\ handling'[s].stage # "idle"
         \/ HandlerStep(s) \/ RegisterFails(s)
<1>1. CASE UNCHANGED agentVars
  BY <1>1 DEF agentVars
<1>2. ASSUME NEW q \in Socket, RegisterStart(q) \/ Heartbeat(q) \/ Report(q)
      PROVE  handling'[s] = handling[s] \/ (handling[s] = NoJob /\ handling'[s].stage # "idle")
  BY <1>2, JobStarts
<1>3. ASSUME NEW q \in Socket, HandlerStep(q) \/ RegisterFails(q)
      PROVE  handling'[s] = handling[s] \/ HandlerStep(s) \/ RegisterFails(s)
  BY <1>3, JobEnds
<1>4. ASSUME NEW q \in Socket, Connect(q) \/ Lose(q) \/ LeaveStep(q) \/ LeaveFails(q)
      PROVE  handling' = handling
  BY <1>4 DEF Connect, Lose, LeaveStep, LeaveFails,
              MarkSocketOffline, LeaveUnregistered, LeaveLoad, LeaveWrite
<1>5. ASSUME NEW r \in Row, SweepFinds(r) \/ SweepRow(r) PROVE handling' = handling
  BY <1>5 DEF SweepFinds, SweepRow
<1>6. CASE HttpReport
  BY <1>6 DEF HttpReport
<1> QED
  BY <1>1, <1>2, <1>3, <1>4, <1>5, <1>6 DEF AgentNext

LEMMA JobAlwaysEnds == AgentSpec => [](AgentInv /\ JobInv)
<1>1. AgentInit => JobInv
  BY DEF AgentInit, JobInv
<1>2. AgentInv /\ JobInv /\ [AgentNext]_agentVars => JobInv'
  BY JobStep, JobEnds DEF JobInv, Free
<1> QED
  BY <1>1, <1>2, AgentStart, AgentStep, PTL DEF AgentSpec

(***************************************************************************)
(* An agent that keeps a socket and sends heartbeats is ONLINE again after  *)
(* whatever took the device OFFLINE, be it the cleanup of an older socket.  *)
(***************************************************************************)
THEOREM AgentsComeOnline == AgentSpec /\ []HandlerEnabled => AgentComesOnline
<1>1. SUFFICES ASSUME NEW s \in Socket
               PROVE  AgentSpec /\ []HandlerEnabled => []<>Online(s)
  BY DEF AgentComesOnline, Online
<1>2. AgentFairness => HandlerRuns(s)
  BY DEF AgentFairness
<1>3. HandlerEnabled =>
        /\ ~Free(s) => ENABLED <<HandlerStep(s)>>_agentVars
        /\ Free(s) /\ ~Online(s) => ENABLED <<Heartbeat(s)>>_agentVars
  BY DEF HandlerEnabled, Free, Online
<1>4. AgentInv /\ JobInv => Free(s) \/ Binding(s) \/ Ending(s) \/ Touching(s) \/ Writing(s)
  BY DEF AgentInv, AgentTypeOK, AgentJob, JobInv, Free, Binding, Ending, Touching, Writing
<1>5. AgentInv /\ JobInv /\ (Binding(s) \/ Ending(s) \/ Touching(s) \/ Writing(s)) => ~Free(s)
  BY DEF Free, Binding, Ending, Touching, Writing, NoJob
<1>6. AgentInv /\ JobInv /\ <<HandlerStep(s)>>_agentVars =>
        /\ Binding(s) => Ending(s)'
        /\ Ending(s) => Free(s)' \/ Online(s)'
        /\ Touching(s) => Writing(s)'
        /\ Writing(s) => Online(s)'
  BY JobEnds
<1>7. AgentInv /\ JobInv /\ [AgentNext]_agentVars =>
        /\ Binding(s) => Binding(s)' \/ Ending(s)'
        /\ Ending(s) => Ending(s)' \/ Free(s)' \/ Online(s)'
        /\ Touching(s) => Touching(s)' \/ Writing(s)'
        /\ Writing(s) => Writing(s)' \/ Online(s)'
  <2> SUFFICES ASSUME AgentInv, JobInv, [AgentNext]_agentVars
               PROVE  /\ Binding(s) => Binding(s)' \/ Ending(s)'
                      /\ Ending(s) => Ending(s)' \/ Free(s)' \/ Online(s)'
                      /\ Touching(s) => Touching(s)' \/ Writing(s)'
                      /\ Writing(s) => Writing(s)' \/ Online(s)'
    OBVIOUS
  <2>1. CASE handling'[s] = handling[s]
    BY <2>1 DEF Binding, Ending, Touching, Writing
  <2>2. CASE handling[s] = NoJob
    BY <2>2 DEF Binding, Ending, Touching, Writing, NoJob
  <2>3. CASE HandlerStep(s) \/ RegisterFails(s)
    BY <2>3, JobEnds
  <2> QED
    BY <2>1, <2>2, <2>3, JobStep
<1>8. AgentInv /\ JobInv /\ ~Online(s) /\ <<Heartbeat(s)>>_agentVars => Touching(s)'
  BY BeatStarts DEF Touching, Online, AgentInv, AgentTypeOK
<1> QED
  BY <1>2, <1>3, <1>4, <1>5, <1>6, <1>7, <1>8, JobAlwaysEnds, PTL DEF AgentSpec, HandlerRuns

-----------------------------------------------------------------------------
(* The meta of a device *)

CopyType == [stage : {"new", "open", "fill", "record", "done"}, camera : Camera \cup {NoFrame},
             copy : Meta, overtaken : BOOLEAN]

(* A writer that has not been overtaken has a copy of what is there; a          *)
(* registration goes from its load to its write.                                *)
MetaInv ==
  /\ meta \in Meta
  /\ upload \in [Writer -> CopyType]
  /\ \A w \in Writer :
       upload[w].stage \in {"open", "fill", "record"} /\ ~upload[w].overtaken => upload[w].copy = meta

LEMMA NoUploadType == NoMeta \in Meta /\ NoUpload \in CopyType /\ NoUpload.stage = "new" /\ ~NoUpload.overtaken
BY DEF NoMeta, Meta, NoUpload, CopyType

(* A step of one writer before its write. *)
LEMMA CopyStays ==
  ASSUME MetaInv, NEW w \in Writer, NEW new \in CopyType,
         upload' = [upload EXCEPT ![w] = new], meta' = meta,
         ~new.overtaken => new.copy = meta
  PROVE  MetaInv'
BY DEF MetaInv

LEMMA WriterStep ==
  ASSUME MetaInv, NEW w \in Writer,
         \/ \E c \in Camera : UploadStart(w, c)
         \/ UploadOpen(w) \/ UploadFill(w) \/ EnrolStart(w)
  PROVE  MetaInv' /\ meta' = meta
<1>1. /\ upload \in [Writer -> CopyType] /\ meta \in Meta
      /\ upload[w].stage \in {"open", "fill"} /\ ~upload[w].overtaken => upload[w].copy = meta
  BY DEF MetaInv
<1>2. ASSUME NEW c \in Camera, UploadStart(w, c) PROVE MetaInv' /\ meta' = meta
  <2> DEFINE new == [upload[w] EXCEPT !.stage = "open", !.camera = c, !.copy = meta]
  <2>1. new \in CopyType /\ new.copy = meta
    BY <1>1 DEF CopyType
  <2>2. upload' = [upload EXCEPT ![w] = new] /\ meta' = meta
    BY <1>2 DEF UploadStart
  <2> HIDE DEF new
  <2> QED
    BY <2>1, <2>2, CopyStays
<1>3. ASSUME EnrolStart(w) PROVE MetaInv' /\ meta' = meta
  <2> DEFINE new == [upload[w] EXCEPT !.stage = "record", !.copy = meta]
  <2>1. new \in CopyType /\ new.copy = meta
    BY <1>1 DEF CopyType
  <2>2. upload' = [upload EXCEPT ![w] = new] /\ meta' = meta
    BY <1>3 DEF EnrolStart
  <2> HIDE DEF new
  <2> QED
    BY <2>1, <2>2, CopyStays
<1>4. ASSUME UploadOpen(w) \/ UploadFill(w) PROVE MetaInv' /\ meta' = meta
  <2>1. PICK stage \in {"fill", "record"} : upload' = [upload EXCEPT ![w] = [upload[w] EXCEPT !.stage = stage]]
    BY <1>1, <1>4 DEF UploadOpen, UploadFill
  <2> DEFINE new == [upload[w] EXCEPT !.stage = stage]
  <2>2. new \in CopyType /\ new.copy = upload[w].copy /\ new.overtaken = upload[w].overtaken
    BY <1>1 DEF CopyType
  <2>3. meta' = meta /\ (~upload[w].overtaken => upload[w].copy = meta)
    BY <1>1, <1>4 DEF UploadOpen, UploadFill
  <2> HIDE DEF new
  <2> QED
    BY <2>1, <2>2, <2>3, CopyStays DEF new
<1> QED
  BY <1>2, <1>3, <1>4

(* A write changes the entry of the writer and, if it was not overtaken, no     *)
(* other.                                                                       *)
LEMMA RecordStep ==
  ASSUME MetaInv, NEW w \in Writer, Record(w)
  PROVE  /\ MetaInv'
         /\ \A x \in Writer \ {w} : upload'[x].stage = "done" => upload[x].stage = "done"
         /\ ~upload[w].overtaken =>
              /\ meta'.agent # meta.agent => w \in Enrol
              /\ \A c \in Camera : meta'.frames[c] # meta.frames[c] => w \in Upload /\ c = upload[w].camera
<1>1. upload \in [Writer -> CopyType] /\ meta \in Meta /\ upload[w].copy \in Meta
  BY DEF MetaInv, CopyType
<1>2. /\ meta' = Amended(w)
      /\ upload' = [x \in Writer |->
                      IF x = w THEN [NoUpload EXCEPT !.stage = "done"]
                      ELSE IF upload[x].stage \in {"open", "fill", "record"}
                             THEN [upload[x] EXCEPT !.overtaken = TRUE]
                             ELSE upload[x]]
      /\ upload[w].stage = "record"
  BY DEF Record
<1>3. Amended(w) \in Meta
  <2>1. CASE w \in Upload
    <3>1. Amended(w) = [upload[w].copy EXCEPT !.frames[upload[w].camera] = w]
      BY <2>1 DEF Amended
    <3> QED
      BY <1>1, <2>1, <3>1 DEF Meta
  <2>2. CASE w \in Enrol
    <3>1. Amended(w) = [upload[w].copy EXCEPT !.agent = w]
      BY <2>2, FrameConstantsAssumption DEF Amended
    <3> QED
      BY <1>1, <2>2, <3>1 DEF Meta
  <2> QED
    BY <2>1, <2>2 DEF Writer
<1>4. /\ [NoUpload EXCEPT !.stage = "done"] \in CopyType
      /\ [NoUpload EXCEPT !.stage = "done"].stage = "done"
  BY NoUploadType DEF CopyType
<1>5. ASSUME NEW x \in Writer
      PROVE  /\ upload'[x] \in CopyType
             /\ upload'[x].stage \in {"open", "fill", "record"} => upload'[x].overtaken
             /\ x # w => upload'[x].stage = upload[x].stage
  <2>1. CASE x = w
    BY <1>2, <1>4, <2>1
  <2>2. CASE x # w
    BY <1>1, <1>2, <2>2 DEF CopyType
  <2> QED
    BY <2>1, <2>2
<1>6. upload' \in [Writer -> CopyType]
  BY <1>2, <1>5
<1>7. MetaInv'
  BY <1>2, <1>3, <1>5, <1>6 DEF MetaInv
<1>8. ASSUME ~upload[w].overtaken
      PROVE  /\ meta'.agent # meta.agent => w \in Enrol
             /\ \A c \in Camera : meta'.frames[c] # meta.frames[c] => w \in Upload /\ c = upload[w].camera
  <2>1. upload[w].copy = meta
    BY <1>2, <1>8 DEF MetaInv
  <2>2. CASE w \in Upload
    <3>1. meta' = [meta EXCEPT !.frames[upload[w].camera] = w]
      BY <1>2, <2>1, <2>2 DEF Amended
    <3> QED
      BY <1>1, <2>2, <3>1 DEF Meta
  <2>3. CASE w \notin Upload
    <3>1. meta' = [meta EXCEPT !.agent = w] /\ w \in Enrol
      BY <1>2, <2>1, <2>3 DEF Amended, Writer
    <3> QED
      BY <1>1, <3>1 DEF Meta
  <2> QED
    BY <2>2, <2>3
<1> QED
  BY <1>5, <1>7, <1>8

LEMMA FrameStart == FrameInit => MetaInv
BY NoUploadType DEF FrameInit, MetaInv

LEMMA FrameStep ==
  MetaInv /\ [FrameNext]_frameVars =>
    /\ MetaInv'
    /\ [\A w \in Writer :
          upload[w].stage = "record" /\ upload'[w].stage = "done" /\ ~upload[w].overtaken =>
            /\ meta'.agent # meta.agent => w \in Enrol
            /\ \A c \in Camera :
                 meta'.frames[c] # meta.frames[c] => w \in Upload /\ c = upload[w].camera]_frameVars
<1> SUFFICES ASSUME MetaInv, [FrameNext]_frameVars
             PROVE  /\ MetaInv'
                    /\ \A w \in Writer :
                         upload[w].stage = "record" /\ upload'[w].stage = "done" /\ ~upload[w].overtaken =>
                           /\ meta'.agent # meta.agent => w \in Enrol
                           /\ \A c \in Camera :
                                meta'.frames[c] # meta.frames[c] => w \in Upload /\ c = upload[w].camera
  OBVIOUS
<1>1. CASE UNCHANGED frameVars
  BY <1>1 DEF frameVars, MetaInv
<1>2. ASSUME NEW c \in Camera, ViewerStep(c) PROVE MetaInv' /\ meta' = meta
  BY <1>2 DEF ViewerStep, ViewerStat, ViewerRead, ViewerPush, MetaInv
<1>3. ASSUME NEW w \in Writer,
             \/ \E c \in Camera : UploadStart(w, c)
             \/ UploadOpen(w) \/ UploadFill(w) \/ EnrolStart(w)
      PROVE  MetaInv' /\ meta' = meta
  BY <1>3, WriterStep
<1>4. ASSUME NEW w \in Writer, Record(w)
      PROVE  /\ MetaInv'
             /\ \A x \in Writer :
                  upload[x].stage = "record" /\ upload'[x].stage = "done" /\ ~upload[x].overtaken =>
                    /\ meta'.agent # meta.agent => x \in Enrol
                    /\ \A c \in Camera :
                         meta'.frames[c] # meta.frames[c] => x \in Upload /\ c = upload[x].camera
  BY <1>4, RecordStep
<1> QED
  BY <1>1, <1>2, <1>3, <1>4 DEF FrameNext, UploadStep, Writer

(* A writer of meta undoes only what was written after it had loaded it.        *)
THEOREM MetaAlwaysKept == FrameSpec => MetaKept
<1> QED
  BY FrameStart, FrameStep, PTL DEF FrameSpec, MetaKept

-----------------------------------------------------------------------------
(* Offers of viewers *)

Outcome == {"refused", "answered", "failed"}

(***************************************************************************)
(* The entries of pendingOffers are the requests that wait, and an agent    *)
(* has heard only of offers that have begun.                                *)
(***************************************************************************)
OfferInv ==
  /\ offer \in [Offer -> {"new", "waiting"} \cup Outcome]
  /\ pending \subseteq Offer
  /\ unheard \subseteq Offer \X Agent
  /\ room \subseteq Agent
  /\ \A o \in Offer : o \in pending <=> offer[o] = "waiting"
  /\ \A o \in Offer, a \in Agent : <<o, a>> \in unheard => offer[o] # "new"

(* The response of an offer is one: no answer or timer comes after it. *)
AnsweredOnce ==
  [][\A o \in Offer : offer[o] \in Outcome => offer'[o] = offer[o]]_offerVars

LEMMA OfferBegins == OfferInit => OfferInv
BY DEF OfferInit, OfferInv, Outcome

LEMMA OfferStep ==
  ASSUME OfferInv, [OfferNext]_offerVars
  PROVE  /\ OfferInv'
         /\ \A o \in Offer : offer[o] \in Outcome => offer'[o] = offer[o]
<1> USE DEF OfferInv, Outcome
<1>1. CASE UNCHANGED offerVars
  BY <1>1 DEF offerVars
<1>2. ASSUME NEW o \in Offer, OfferStart(o)
      PROVE  OfferInv' /\ \A x \in Offer : offer[x] \in Outcome => offer'[x] = offer[x]
  BY <1>2 DEF OfferStart
<1>3. ASSUME NEW o \in Offer, OfferTimesOut(o)
      PROVE  OfferInv' /\ \A x \in Offer : offer[x] \in Outcome => offer'[x] = offer[x]
  BY <1>3 DEF OfferTimesOut
<1>4. ASSUME NEW o \in Offer, NEW a \in Agent, NEW error \in BOOLEAN, Answer(o, a, error)
      PROVE  OfferInv' /\ \A x \in Offer : offer[x] \in Outcome => offer'[x] = offer[x]
  BY <1>4 DEF Answer, Settles
<1>5. ASSUME NEW a \in Agent, AgentLost(a)
      PROVE  OfferInv' /\ \A x \in Offer : offer[x] \in Outcome => offer'[x] = offer[x]
  BY <1>5 DEF AgentLost
<1> QED
  BY <1>1, <1>2, <1>3, <1>4, <1>5 DEF OfferNext

(***************************************************************************)
(* Whatever sockets answer, late or twice, and whichever of answer and      *)
(* timer comes first, pendingOffers holds exactly the requests that wait.   *)
(***************************************************************************)
THEOREM OffersPendWhileWaiting == OfferSpec => []OfferInv
BY OfferBegins, OfferStep, PTL DEF OfferSpec

(* An offer is responded to at most once.                                     *)
THEOREM OffersAnsweredOnce == OfferSpec => AnsweredOnce
BY OffersPendWhileWaiting, OfferStep, PTL DEF OfferSpec, AnsweredOnce

-----------------------------------------------------------------------------

Pends(o) == o \in pending

Over(o) == offer[o] # "waiting" /\ o \notin pending

(***************************************************************************)
(* What weak fairness asks for and the prover cannot see: ENABLED.  It is   *)
(* the guard of OfferTimesOut, whose primed variables are all assigned.     *)
(***************************************************************************)
TimeoutEnabled ==
  \A o \in Offer : Pends(o) => ENABLED <<OfferTimesOut(o)>>_offerVars

(***************************************************************************)
(* Timers that fire are enough for every offer to be settled: answers may   *)
(* be lost, late or never given.                                            *)
(***************************************************************************)
THEOREM OffersSettle == OfferSpec /\ []TimeoutEnabled => OfferSettles
<1>1. SUFFICES ASSUME NEW o \in Offer
               PROVE  OfferSpec /\ []TimeoutEnabled => []<>Over(o)
  BY DEF OfferSettles, Over
<1>2. OfferSpec => []OfferInv
  BY OffersPendWhileWaiting
<1>3. OfferFairness => TimeoutRuns(o)
  BY DEF OfferFairness
<1>4. OfferInv => (~Pends(o) => Over(o))
  BY DEF OfferInv, Pends, Over
<1>5. <<OfferTimesOut(o)>>_offerVars => ~Pends(o)'
  BY DEF OfferTimesOut, Pends
<1>6. TimeoutEnabled => (Pends(o) => ENABLED <<OfferTimesOut(o)>>_offerVars)
  BY DEF TimeoutEnabled
<1>7. QED
  BY <1>2, <1>3, <1>4, <1>5, <1>6, PTL DEF OfferSpec, TimeoutRuns

=============================================================================
