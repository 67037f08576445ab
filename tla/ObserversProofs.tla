--------------------------- MODULE ObserversProofs ---------------------------
(***************************************************************************)
(* Proofs about Observers, for every set of devices, sessions, watchers and *)
(* users, any number of handlers that end sessions, and every bound.        *)
(***************************************************************************)
EXTENDS Observers, FiniteSetTheorems, TLAPS

-----------------------------------------------------------------------------
(* Type correctness *)

Entry == [kiosk : Monitored \cup {Nil}, on : [Person -> Watcher \cup {Nil}]]

JoinCall ==
  {NoJoin} \cup [stage : {"lookup"}, kiosk : Monitored, session : {Nil}]
           \cup [stage : {"insert", "mode"}, kiosk : {Nil}, session : Session]

LeaveCall == {NoLeave} \cup [stage : {"rows", "mode"}, session : Session]

EndCall ==
  {NoEnding} \cup [stage : {"row", "hook"}, kiosk : Monitored, session : {Nil}]
          \cup [stage : {"found", "rows", "close"}, kiosk : Monitored, session : Session]

(* ObserverTypeOK, by the names of its record sets. *)
ObserverShape ==
  /\ activeRow \in [Monitored -> Session \cup {Nil}]
  /\ inMemory \subseteq Monitored
  /\ born \subseteq Session
  /\ starting \in [Monitored -> Session \cup {Nil}]
  /\ registry \in [Session -> Entry]
  /\ index \in [Monitored -> Session \cup {Nil}]
  /\ rows \subseteq Observation
  /\ socket \in [Watcher -> {"open", "closing", "gone"}]
  /\ observing \in [Watcher -> Session \cup {Nil}]
  /\ join \in [Watcher -> JoinCall]
  /\ leave \in [Watcher -> LeaveCall]
  /\ lost \in [Watcher -> Session \cup {Nil}]
  /\ stale \in Observation \cup {NoStale}
  /\ ending \in [Ender -> EndCall]
  /\ faults \in 0 .. MaxFault
  /\ strayed \subseteq Watcher
  /\ leaked \subseteq Observation

LEMMA ObserverShapeIsType == ObserverShape <=> ObserverTypeOK
  BY DEF ObserverShape, ObserverTypeOK, Entry, JoinCall, LeaveCall, EndCall

(* What a call has come to know at each of its stages. *)
LEMMA CallStages ==
  /\ \A j \in JoinCall : /\ j.stage = "lookup" => j.kiosk \in Monitored
                         /\ j.stage \in {"insert", "mode"} => j.session \in Session
  /\ \A l \in LeaveCall : l.stage \in {"rows", "mode"} => l.session \in Session
  /\ \A c \in EndCall : /\ c.stage # "idle" => c.kiosk \in Monitored
                        /\ c.stage \in {"found", "rows", "close"} => c.session \in Session
  BY DEF JoinCall, LeaveCall, EndCall, NoJoin, NoLeave, NoEnding

LEMMA EntryUpdate ==
  ASSUME NEW r \in Entry, NEW u \in Person, NEW w \in Watcher \cup {Nil}
  PROVE  /\ [r EXCEPT !.on[u] = w] \in Entry
         /\ [r EXCEPT !.on = NoBody] \in Entry
  BY DEF Entry, NoBody

LEMMA EntryFresh ==
  /\ NoEntry \in Entry
  /\ \A k \in Monitored : [kiosk |-> k, on |-> NoBody] \in Entry
  BY DEF Entry, NoEntry, NoBody

LEMMA JoinUpdate ==
  /\ NoJoin \in JoinCall
  /\ \A k \in Monitored : [NoJoin EXCEPT !.stage = "lookup", !.kiosk = k] \in JoinCall
  /\ \A s \in Session : [NoJoin EXCEPT !.stage = "insert", !.session = s] \in JoinCall
  /\ \A j \in JoinCall : j.stage = "insert" => [j EXCEPT !.stage = "mode"] \in JoinCall
<1>1. \A k \in Monitored : [NoJoin EXCEPT !.stage = "lookup", !.kiosk = k] \in JoinCall
  BY DEF JoinCall, NoJoin
<1>2. \A s \in Session : [NoJoin EXCEPT !.stage = "insert", !.session = s] \in JoinCall
  BY DEF JoinCall, NoJoin
<1>3. ASSUME NEW j \in JoinCall, j.stage = "insert"
      PROVE  [j EXCEPT !.stage = "mode"] \in JoinCall
  <2>1. j \in [stage : {"insert", "mode"}, kiosk : {Nil}, session : Session]
    BY <1>3 DEF JoinCall, NoJoin
  <2>2. [j EXCEPT !.stage = "mode"] \in [stage : {"insert", "mode"}, kiosk : {Nil}, session : Session]
    BY <2>1
  <2> QED
    BY <2>2 DEF JoinCall
<1>4. NoJoin \in JoinCall
  BY DEF JoinCall
<1> QED
  BY <1>1, <1>2, <1>3, <1>4

LEMMA LeaveUpdate ==
  /\ NoLeave \in LeaveCall
  /\ \A s \in Session : [stage |-> "rows", session |-> s] \in LeaveCall
  /\ \A l \in LeaveCall : l.stage = "rows" => [l EXCEPT !.stage = "mode"] \in LeaveCall
  BY DEF LeaveCall, NoLeave

LEMMA EndUpdate ==
  /\ NoEnding \in EndCall
  /\ \A k \in Monitored : [NoEnding EXCEPT !.stage = "row", !.kiosk = k] \in EndCall
  /\ \A k \in Monitored, s \in Session : [stage |-> "found", kiosk |-> k, session |-> s] \in EndCall
  /\ \A c \in EndCall : c.stage = "row" => [c EXCEPT !.stage = "hook"] \in EndCall
  /\ \A c \in EndCall : c.stage = "found"
       => [c EXCEPT !.stage = "hook", !.session = Nil] \in EndCall
  /\ \A c \in EndCall, s \in Session : c.stage = "hook"
       => [c EXCEPT !.stage = "rows", !.session = s] \in EndCall
  /\ \A c \in EndCall : c.stage = "rows" => [c EXCEPT !.stage = "close"] \in EndCall
<1> DEFINE Early == [stage : {"row", "hook"}, kiosk : Monitored, session : {Nil}]
           Late == [stage : {"found", "rows", "close"}, kiosk : Monitored, session : Session]
<1>1. /\ \A c \in EndCall : c.stage \in {"row", "hook"} => c \in Early
      /\ \A c \in EndCall : c.stage \in {"found", "rows", "close"} => c \in Late
      /\ NoEnding \in EndCall
      /\ Early \subseteq EndCall
      /\ Late \subseteq EndCall
  BY DEF EndCall, NoEnding
<1>2. /\ \A c \in Early : [c EXCEPT !.stage = "hook"] \in Early
      /\ \A c \in Early, s \in Session : [c EXCEPT !.stage = "rows", !.session = s] \in Late
      /\ \A c \in Late : [c EXCEPT !.stage = "hook", !.session = Nil] \in Early
      /\ \A c \in Late : [c EXCEPT !.stage = "close"] \in Late
  OBVIOUS
<1>3. \A k \in Monitored : [NoEnding EXCEPT !.stage = "row", !.kiosk = k] \in Early
  BY DEF NoEnding
<1>4. \A k \in Monitored, s \in Session : [stage |-> "found", kiosk |-> k, session |-> s] \in Late
  OBVIOUS
<1> HIDE DEF Early, Late
<1> QED
  BY <1>1, <1>2, <1>3, <1>4

(* The rows a session can have, open or forgotten. *)
LEMMA RowsOfObservers ==
  ASSUME ObserverShape, NEW s \in Session, NEW u \in Person
  PROVE  OpenRow(s, u) \in Observation
  BY DEF OpenRow, Observation

LEMMA ForgottenType ==
  ASSUME ObserverShape, NEW R, Forgotten(R)
  PROVE  leaked' \subseteq Observation
  BY DEF ObserverShape, Forgotten

LEMMA RowsClosedType ==
  ASSUME ObserverShape, NEW R, RowsClosed(R)
  PROVE  rows' \subseteq Observation /\ leaked' \subseteq Observation
  BY DEF ObserverShape, RowsClosed

LEMMA RemovedType ==
  ASSUME ObserverShape, NEW s \in Session, NEW u \in Person
  PROVE  Removed(s, u) \in [Session -> Entry]
<1>1. registry \in [Session -> Entry] /\ registry[s] \in Entry
  BY DEF ObserverShape
<1>2. [registry[s] EXCEPT !.on[u] = Nil] \in Entry
  BY <1>1, EntryUpdate
<1> QED
  BY <1>1, <1>2 DEF Removed

LEMMA FaultType ==
  ASSUME ObserverShape, QueryThrows
  PROVE  faults' \in 0 .. MaxFault
  BY ObserverConstantsAssumption DEF ObserverShape, QueryThrows

LEMMA SessionTypeStep ==
  ASSUME ObserverShape, NEW k \in Monitored, SessionStep(k)
  PROVE  ObserverShape'
<1> USE DEF ObserverShape, monitoring, calls, history
<1>1. CASE \E s \in Session : Start(k, s)
  BY <1>1 DEF Start
<1>2. CASE Register(k)
  <2>1. starting[k] \in Session
    BY <1>2 DEF Register
  <2>2. registry' \in [Session -> Entry]
    BY <1>2, <2>1, EntryFresh DEF Register
  <2>3. leaked' \subseteq Observation
    BY <1>2, ForgottenType DEF Register
  <2> QED
    BY <1>2, <2>1, <2>2, <2>3 DEF Register
<1>3. ASSUME NEW e \in Ender, Stop(e, k)
      PROVE  ObserverShape'
  <2>1. activeRow[k] \in Session
    BY <1>3 DEF Stop
  <2>2. ending' \in [Ender -> EndCall]
    BY <1>3, <2>1, EndUpdate DEF Stop
  <2> QED
    BY <1>3, <2>2 DEF Stop
<1>4. ASSUME NEW e \in Ender, Lost(e, k)
      PROVE  ObserverShape'
  <2>1. ending' \in [Ender -> EndCall]
    BY <1>4, EndUpdate DEF Lost
  <2> QED
    BY <1>4, <2>1 DEF Lost
<1>5. CASE Restore(k)
  BY <1>5 DEF Restore
<1>6. CASE Timeout(k)
  BY <1>6 DEF Timeout
<1> QED
  BY <1>1, <1>2, <1>3, <1>4, <1>5, <1>6 DEF SessionStep

LEMMA CloseEntryType ==
  ASSUME ObserverShape, NEW s \in Session, CloseEntry(s)
  PROVE  /\ registry' \in [Session -> Entry]
         /\ index' \in [Monitored -> Session \cup {Nil}]
         /\ leaked' \subseteq Observation
  BY EntryFresh, ForgottenType DEF ObserverShape, CloseEntry

LEMMA EndTypeStep ==
  ASSUME ObserverShape, NEW e \in Ender, EnderStep(e)
  PROVE  ObserverShape'
<1> USE DEF ObserverShape, monitoring, calls, history
<1>0. ending[e] \in EndCall
  OBVIOUS
<1>1. CASE StopRow(e)
  <2>1. ending' \in [Ender -> EndCall]
    BY <1>0, <1>1, EndUpdate DEF StopRow
  <2>2. activeRow' \in [Monitored -> Session \cup {Nil}] /\ inMemory' \subseteq Monitored
    BY <1>1 DEF StopRow
  <2> QED
    BY <1>1, <2>1, <2>2 DEF StopRow
<1>2. CASE LostRow(e)
  <2>1. ending' \in [Ender -> EndCall]
    BY <1>0, <1>2, EndUpdate DEF LostRow
  <2>2. activeRow' \in [Monitored -> Session \cup {Nil}] /\ inMemory' \subseteq Monitored
    BY <1>2 DEF LostRow
  <2> QED
    BY <1>2, <2>1, <2>2 DEF LostRow
<1>3. CASE EndMark(e)
  <2> DEFINE s == index[ending[e].kiosk]
  <2>1. s \in Session \cup {Nil}
    BY <1>0, <1>3, CallStages DEF EndMark
  <2>2. CASE s = Nil
    <3>1. ending' \in [Ender -> EndCall]
      BY <1>3, <2>2, EndUpdate DEF EndMark
    <3> QED
      BY <1>3, <2>2, <3>1 DEF EndMark
  <2>3. CASE s # Nil
    <3>0. ending[e].stage = "hook" /\ s \in Session
      BY <1>3, <2>1, <2>3 DEF EndMark
    <3>9. [ending[e] EXCEPT !.stage = "rows", !.session = s] \in EndCall
      BY <1>0, <3>0, EndUpdate
    <3> HIDE DEF s
    <3>1. ending' \in [Ender -> EndCall]
      <4>1. ending' = [ending EXCEPT ![e].stage = "rows", ![e].session = s]
        BY <1>3, <2>3 DEF EndMark, s
      <4> QED
        BY <3>9, <4>1
    <3> USE DEF s
    <3>2. registry[s] \in Entry
      BY <2>1, <2>3
    <3>3. [registry[s] EXCEPT !.on = NoBody] \in Entry
      BY <3>2 DEF Entry, NoBody
    <3>4. registry' \in [Session -> Entry]
      BY <1>3, <2>3, <3>3 DEF EndMark
    <3>5. observing' \in [Watcher -> Session \cup {Nil}]
      BY <1>3, <2>3 DEF EndMark
    <3> QED
      BY <1>3, <3>1, <3>4, <3>5 DEF EndMark
  <2> QED
    BY <2>2, <2>3
<1>4. CASE EndRows(e)
  <2>1. ending' \in [Ender -> EndCall]
    BY <1>0, <1>4, EndUpdate DEF EndRows
  <2>2. rows' \subseteq Observation /\ leaked' \subseteq Observation
    BY <1>4, RowsClosedType DEF EndRows
  <2> QED
    BY <1>4, <2>1, <2>2 DEF EndRows
<1>5. CASE EndRowsFail(e)
  <2>1. ending' \in [Ender -> EndCall]
    BY <1>5, EndUpdate DEF EndRowsFail
  <2>2. leaked' \subseteq Observation /\ faults' \in 0 .. MaxFault
    BY <1>5, ForgottenType, FaultType DEF EndRowsFail
  <2> QED
    BY <1>5, <2>1, <2>2 DEF EndRowsFail
<1>6. CASE EndClose(e)
  <2>1. ending' \in [Ender -> EndCall]
    BY <1>6, EndUpdate DEF EndClose
  <2>2. ending[e].session \in Session /\ index[ending[e].kiosk] \in Session \cup {Nil}
    BY <1>0, <1>6, CallStages DEF EndClose
  <2>3. /\ registry' \in [Session -> Entry]
        /\ index' \in [Monitored -> Session \cup {Nil}]
        /\ leaked' \subseteq Observation
    <3>1. CASE Known(ending[e].session)
      BY <1>6, <2>2, <3>1, CloseEntryType DEF EndClose
    <3>2. CASE ~Known(ending[e].session) /\ index[ending[e].kiosk] # Nil
      BY <1>6, <2>2, <3>2, CloseEntryType DEF EndClose
    <3>3. CASE ~Known(ending[e].session) /\ index[ending[e].kiosk] = Nil
      BY <1>6, <3>3 DEF EndClose
    <3> QED
      BY <3>1, <3>2, <3>3
  <2> QED
    BY <1>6, <2>1, <2>3 DEF EndClose
<1> QED
  BY <1>1, <1>2, <1>3, <1>4, <1>5, <1>6 DEF EnderStep

LEMMA AddObserverType ==
  ASSUME ObserverShape, NEW w \in Watcher, NEW s \in Session, AddObserver(w, s)
  PROVE  /\ registry' \in [Session -> Entry]
         /\ join' \in [Watcher -> JoinCall]
         /\ strayed' \subseteq Watcher
<1>1. PersonOf[w] \in Person /\ registry[s] \in Entry
  BY ObserverConstantsAssumption DEF ObserverShape
<1>2. [registry[s] EXCEPT !.on[PersonOf[w]] = w] \in Entry
  BY <1>1, EntryUpdate
<1>3. registry' \in [Session -> Entry]
  BY <1>2 DEF AddObserver, ObserverShape
<1>4. join' \in [Watcher -> JoinCall]
  BY JoinUpdate DEF AddObserver, ObserverShape
<1> QED
  BY <1>3, <1>4 DEF AddObserver, ObserverShape

LEMMA JoinTypeStep ==
  ASSUME ObserverShape, NEW w \in Watcher, JoinStep(w)
  PROVE  ObserverShape'
<1> USE DEF ObserverShape, monitoring, history
<1>0. join[w] \in JoinCall /\ PersonOf[w] \in Person
  BY ObserverConstantsAssumption
<1>1. CASE \E s \in Session : JoinById(w, s)
  BY <1>1, AddObserverType DEF JoinById
<1>2. CASE \E k \in Monitored : JoinLookup(w, k)
  BY <1>2, JoinUpdate DEF JoinLookup
<1>3. CASE JoinByKiosk(w)
  <2>1. index[join[w].kiosk] \in Session \cup {Nil}
    BY <1>0, <1>3, CallStages DEF JoinByKiosk
  <2>2. CASE AddObserver(w, index[join[w].kiosk]) /\ index[join[w].kiosk] # Nil
    BY <1>3, <2>1, <2>2, AddObserverType DEF JoinByKiosk
  <2>3. CASE join' = [join EXCEPT ![w] = NoJoin] /\ UNCHANGED <<registry, strayed>>
    BY <1>3, <2>3, JoinUpdate DEF JoinByKiosk
  <2> QED
    BY <1>3, <2>2, <2>3 DEF JoinByKiosk
<1>4. CASE JoinInsert(w)
  <2>1. join[w].session \in Session
    BY <1>0, <1>4, CallStages DEF JoinInsert
  <2>2. OpenRow(join[w].session, PersonOf[w]) \in Observation
    BY <1>0, <2>1, RowsOfObservers
  <2>3. join' \in [Watcher -> JoinCall]
    BY <1>0, <1>4, JoinUpdate DEF JoinInsert
  <2> QED
    BY <1>4, <2>2, <2>3 DEF JoinInsert
<1>5. CASE JoinFails(w)
  BY <1>5, JoinUpdate, FaultType DEF JoinFails
<1>6. CASE JoinDone(w)
  <2>1. join[w].session \in Session
    BY <1>0, <1>6, CallStages DEF JoinDone
  <2> QED
    BY <1>6, <2>1, JoinUpdate DEF JoinDone
<1> QED
  BY <1>1, <1>2, <1>3, <1>4, <1>5, <1>6 DEF JoinStep

LEMMA LeaveTypeStep ==
  ASSUME ObserverShape, NEW w \in Watcher, LeaveStep(w)
  PROVE  ObserverShape'
<1> USE DEF ObserverShape, monitoring, history
<1>0. leave[w] \in LeaveCall /\ PersonOf[w] \in Person
  BY ObserverConstantsAssumption
<1>1. ASSUME NEW s \in Session, Leave(w, s)
      PROVE  ObserverShape'
  <2>1. registry' \in [Session -> Entry]
    BY <1>0, <1>1, RemovedType DEF Leave
  <2>2. leave' \in [Watcher -> LeaveCall]
    BY <1>1, LeaveUpdate DEF Leave
  <2> QED
    BY <1>1, <2>1, <2>2 DEF Leave
<1>2. CASE LeaveRows(w)
  <2>1. leave' \in [Watcher -> LeaveCall]
    BY <1>0, <1>2, LeaveUpdate DEF LeaveRows
  <2>2. rows' \subseteq Observation /\ leaked' \subseteq Observation
    BY <1>2, RowsClosedType DEF LeaveRows
  <2> QED
    BY <1>2, <2>1, <2>2 DEF LeaveRows
<1>3. CASE LeaveFails(w)
  <2>1. leaked' \subseteq Observation /\ faults' \in 0 .. MaxFault
    BY <1>3, ForgottenType, FaultType DEF LeaveFails
  <2> QED
    BY <1>3, <2>1, LeaveUpdate DEF LeaveFails
<1>4. CASE LeaveDone(w)
  BY <1>4, LeaveUpdate DEF LeaveDone
<1> QED
  BY <1>1, <1>2, <1>3, <1>4 DEF LeaveStep

LEMMA LostTypeStep ==
  ASSUME ObserverShape, NEW w \in Watcher, LostStep(w)
  PROVE  ObserverShape'
<1> USE DEF ObserverShape, monitoring, calls, history
<1>0. PersonOf[w] \in Person
  BY ObserverConstantsAssumption
<1>1. CASE WatcherDisconnect(w)
  BY <1>1 DEF WatcherDisconnect
<1>2. CASE LostUnflagged(w)
  <2>1. \A s \in Session : [registry[s] EXCEPT !.on[PersonOf[w]] = Nil] \in Entry
    BY <1>0, EntryUpdate
  <2>2. registry' \in [Session -> Entry]
    BY <1>2, <2>1 DEF LostUnflagged
  <2>3. leaked' \subseteq Observation
    BY <1>2, ForgottenType DEF LostUnflagged
  <2> QED
    BY <1>2, <2>2, <2>3 DEF LostUnflagged
<1>3. CASE LostObserver(w)
  <2>1. observing[w] \in Session
    BY <1>3 DEF LostObserver
  <2>2. registry' \in [Session -> Entry] /\ lost' \in [Watcher -> Session \cup {Nil}]
    BY <1>0, <1>3, <2>1, RemovedType DEF LostObserver
  <2> QED
    BY <1>3, <2>2 DEF LostObserver
<1>4. CASE LostRows(w)
  BY <1>4, RowsClosedType DEF LostRows
<1>5. CASE LostFails(w)
  BY <1>5, ForgottenType, FaultType DEF LostFails
<1> QED
  BY <1>1, <1>2, <1>3, <1>4, <1>5 DEF LostStep

LEMMA StaleTypeStep ==
  ASSUME ObserverShape, StaleStep
  PROVE  ObserverShape'
<1> USE DEF ObserverShape, monitoring, history
<1>1. ASSUME NEW s \in Session, NEW u \in Person, Stale(s, u)
      PROVE  ObserverShape'
  <2>1. registry' \in [Session -> Entry]
    BY <1>1, RemovedType DEF Stale
  <2>2. stale' \in Observation
    BY <1>1, RowsOfObservers DEF Stale
  <2> QED
    BY <1>1, <2>1, <2>2 DEF Stale
<1>2. CASE StaleRows
  BY <1>2, RowsClosedType DEF StaleRows
<1>3. CASE StaleFails
  BY <1>3, ForgottenType, FaultType DEF StaleFails
<1> QED
  BY <1>1, <1>2, <1>3 DEF StaleStep

LEMMA ObserverTypeStep ==
  ASSUME ObserverShape, [ObserverNext]_observerVars
  PROVE  ObserverShape'
<1>1. CASE ObserverNext
  BY <1>1, SessionTypeStep, EndTypeStep, JoinTypeStep, LeaveTypeStep, LostTypeStep,
     StaleTypeStep DEF ObserverNext
<1>2. CASE UNCHANGED observerVars
  BY <1>2 DEF ObserverShape, observerVars, monitoring, calls, history
<1> QED
  BY <1>1, <1>2

LEMMA ObserverTypeInit == ObserverInit => ObserverShape
<1> SUFFICES ASSUME ObserverInit
             PROVE  ObserverShape
  OBVIOUS
<1> USE DEF ObserverInit
<1>1. registry \in [Session -> Entry]
  BY EntryFresh
<1>2. join \in [Watcher -> JoinCall] /\ leave \in [Watcher -> LeaveCall]
  BY JoinUpdate, LeaveUpdate
<1>3. ending \in [Ender -> EndCall]
  BY EndUpdate
<1>4. faults \in 0 .. MaxFault
  BY ObserverConstantsAssumption
<1> QED
  BY <1>1, <1>2, <1>3, <1>4 DEF ObserverShape

(***************************************************************************)
(* All variables of Observers keep their types; a call names a session at   *)
(* just those stages at which the code has one.                             *)
(***************************************************************************)
THEOREM ObserverTypeCorrect == ObserverSpec => []ObserverTypeOK
<1>1. ObserverInit => ObserverShape
  BY ObserverTypeInit
<1>2. ObserverShape /\ [ObserverNext]_observerVars => ObserverShape'
  BY ObserverTypeStep
<1>3. ObserverShape => ObserverTypeOK
  BY ObserverShapeIsType
<1> QED
  BY <1>1, <1>2, <1>3, PTL DEF ObserverSpec

-----------------------------------------------------------------------------
(* The index of the registry *)

(* The session s is, or is about to be, one of the device k. *)
Concerns(s, k) ==
  \/ activeRow[k] = s
  \/ starting[k] = s
  \/ index[k] = s
  \/ registry[s].kiosk = k

(* A session is inserted once, for one device. *)
OneDevice ==
  /\ \A s \in Session, k \in Monitored : Concerns(s, k) => s \in born
  /\ \A s \in Session, k, l \in Monitored : Concerns(s, k) /\ Concerns(s, l) => k = l

IndexInv == ObserverShape /\ OneDevice /\ IndexSound

(* Nothing comes to concern another device. *)
NothingNew ==
  /\ \A k \in Monitored : activeRow'[k] \in {activeRow[k], Nil}
  /\ born' = born
  /\ starting' = starting
  /\ index' = index
  /\ \A s \in Session : registry'[s].kiosk = registry[s].kiosk

LEMMA IndexKept ==
  ASSUME IndexInv, NothingNew
  PROVE  OneDevice' /\ IndexSound'
<1>1. \A s \in Session, k \in Monitored : Concerns(s, k)' => Concerns(s, k)
  BY ObserverConstantsAssumption DEF NothingNew, Concerns
<1>2. OneDevice'
  BY <1>1 DEF IndexInv, OneDevice, NothingNew
<1>3. IndexSound'
  BY DEF IndexInv, IndexSound, NothingNew, ObserverShape
<1> QED
  BY <1>2, <1>3

LEMMA StartIndex ==
  ASSUME IndexInv, NEW k \in Monitored, NEW s \in Session, Start(k, s)
  PROVE  OneDevice' /\ IndexSound'
<1>1. \A r \in Session, l \in Monitored :
         Concerns(r, l)' => Concerns(r, l) \/ (r = s /\ l = k)
  BY DEF Start, Concerns, IndexInv, ObserverShape
<1>2. \A l \in Monitored : Concerns(s, l) => l = k
  <2>1. CASE activeRow[k] = s
    BY <2>1 DEF IndexInv, OneDevice, Concerns
  <2>2. CASE s \notin born
    BY <2>2 DEF IndexInv, OneDevice
  <2> QED
    BY <2>1, <2>2 DEF Start
<1>3. s \in born' /\ born \subseteq born'
  BY DEF Start
<1>4. OneDevice'
  <2>1. \A r \in Session, l \in Monitored : Concerns(r, l)' => r \in born'
    BY <1>1, <1>3 DEF IndexInv, OneDevice
  <2>2. \A r \in Session, l, m \in Monitored : Concerns(r, l)' /\ Concerns(r, m)' => l = m
    BY <1>1, <1>2 DEF IndexInv, OneDevice
  <2> QED
    BY <2>1, <2>2 DEF OneDevice
<1>5. IndexSound'
  BY DEF Start, IndexInv, IndexSound
<1> QED
  BY <1>4, <1>5

LEMMA RegisterIndex ==
  ASSUME IndexInv, NEW k \in Monitored, Register(k)
  PROVE  OneDevice' /\ IndexSound'
<1> DEFINE s == starting[k]
<1>1. s \in Session
  BY DEF Register, IndexInv, ObserverShape
<1>2. /\ registry' = [registry EXCEPT ![s] = [kiosk |-> k, on |-> NoBody]]
      /\ index' = [index EXCEPT ![k] = s]
      /\ starting' = [starting EXCEPT ![k] = Nil]
      /\ activeRow' = activeRow /\ born' = born
  BY DEF Register
<1>3. Concerns(s, k)
  BY DEF Concerns
<1>4. \A r \in Session, l \in Monitored :
         Concerns(r, l)' => Concerns(r, l) \/ (r = s /\ l = k)
  BY <1>1, <1>2, ObserverConstantsAssumption DEF Concerns, IndexInv, ObserverShape
<1>5. OneDevice'
  <2>1. \A r \in Session, l \in Monitored : Concerns(r, l)' => Concerns(r, l)
    BY <1>3, <1>4
  <2> QED
    BY <1>2, <2>1 DEF IndexInv, OneDevice
<1>6. ASSUME NEW l \in Monitored, index'[l] # Nil
      PROVE  registry'[index'[l]].kiosk = l
  <2>1. CASE l = k
    <3>1. index'[l] = s
      BY <1>2, <2>1 DEF IndexInv, ObserverShape
    <3> QED
      BY <1>1, <1>2, <2>1, <3>1 DEF IndexInv, ObserverShape
  <2>2. CASE l # k
    <3>1. index'[l] = index[l] /\ index[l] \in Session
      BY <1>2, <1>6, <2>2 DEF IndexInv, ObserverShape
    <3>2. index[l] # s
      BY <1>3, <2>2, <3>1 DEF IndexInv, OneDevice, Concerns
    <3>3. registry[index[l]].kiosk = l
      BY <1>6, <3>1 DEF IndexInv, IndexSound
    <3> QED
      BY <1>1, <1>2, <3>1, <3>2, <3>3 DEF IndexInv, ObserverShape
  <2> QED
    BY <2>1, <2>2
<1>7. IndexSound'
  BY <1>6 DEF IndexSound
<1> QED
  BY <1>5, <1>7

LEMMA CloseEntryIndex ==
  ASSUME IndexInv, NEW s \in Session, CloseEntry(s), UNCHANGED monitoring
  PROVE  OneDevice' /\ IndexSound'
<1> USE DEF IndexInv, ObserverShape, monitoring
<1>1. \A r \in Session, l \in Monitored : Concerns(r, l)' => Concerns(r, l)
  BY ObserverConstantsAssumption DEF CloseEntry, Concerns, NoEntry
<1>2. OneDevice'
  BY <1>1 DEF OneDevice
<1>3. ASSUME NEW l \in Monitored, index'[l] # Nil
      PROVE  registry'[index'[l]].kiosk = l
  <2>1. l # registry[s].kiosk /\ index'[l] = index[l]
    BY <1>3 DEF CloseEntry
  <2>2. registry[index[l]].kiosk = l /\ index[l] \in Session
    BY <1>3, <2>1 DEF IndexSound
  <2>3. index[l] # s
    BY <2>1, <2>2
  <2> QED
    BY <2>1, <2>2, <2>3 DEF CloseEntry
<1>4. IndexSound'
  BY <1>3 DEF IndexSound
<1> QED
  BY <1>2, <1>4

LEMMA SessionIndexStep ==
  ASSUME IndexInv, NEW k \in Monitored, SessionStep(k)
  PROVE  OneDevice' /\ IndexSound'
<1>1. CASE \E s \in Session : Start(k, s)
  BY <1>1, StartIndex
<1>2. CASE Register(k)
  BY <1>2, RegisterIndex
<1>3. CASE \E e \in Ender : Stop(e, k) \/ Lost(e, k)
  <2>1. NothingNew
    BY <1>3 DEF Stop, Lost, NothingNew, monitoring
  <2> QED
    BY <2>1, IndexKept
<1>4. CASE Restore(k) \/ Timeout(k)
  <2>1. NothingNew
    BY <1>4 DEF Restore, Timeout, NothingNew, IndexInv, ObserverShape
  <2> QED
    BY <2>1, IndexKept
<1> QED
  BY <1>1, <1>2, <1>3, <1>4 DEF SessionStep

LEMMA EndIndexStep ==
  ASSUME IndexInv, NEW e \in Ender, EnderStep(e)
  PROVE  OneDevice' /\ IndexSound'
<1>0. ending[e] \in EndCall
  BY DEF IndexInv, ObserverShape
<1>1. CASE StopRow(e) \/ LostRow(e)
  <2>1. NothingNew
    BY <1>1 DEF StopRow, LostRow, NothingNew, IndexInv, ObserverShape
  <2> QED
    BY <2>1, IndexKept
<1>2. CASE EndMark(e)
  <2>1. \A s \in Session : registry'[s].kiosk = registry[s].kiosk
    BY <1>2 DEF EndMark, IndexInv, ObserverShape, Entry
  <2>2. NothingNew
    BY <1>2, <2>1 DEF EndMark, NothingNew, monitoring
  <2> QED
    BY <2>2, IndexKept
<1>3. CASE EndRows(e) \/ EndRowsFail(e)
  <2>1. NothingNew
    BY <1>3 DEF EndRows, EndRowsFail, NothingNew, monitoring
  <2> QED
    BY <2>1, IndexKept
<1>4. CASE EndClose(e)
  <2>1. ending[e].session \in Session /\ index[ending[e].kiosk] \in Session \cup {Nil}
    BY <1>0, <1>4, CallStages DEF EndClose, IndexInv, ObserverShape
  <2>2. UNCHANGED monitoring
    BY <1>4 DEF EndClose
  <2>3. CASE Known(ending[e].session)
    BY <1>4, <2>1, <2>2, <2>3, CloseEntryIndex DEF EndClose
  <2>4. CASE ~Known(ending[e].session) /\ index[ending[e].kiosk] # Nil
    BY <1>4, <2>1, <2>2, <2>4, CloseEntryIndex DEF EndClose
  <2>5. CASE ~Known(ending[e].session) /\ index[ending[e].kiosk] = Nil
    <3>1. NothingNew
      BY <1>4, <2>5 DEF EndClose, NothingNew, monitoring
    <3> QED
      BY <3>1, IndexKept
  <2> QED
    BY <2>3, <2>4, <2>5
<1> QED
  BY <1>1, <1>2, <1>3, <1>4 DEF EnderStep

LEMMA WatcherIndexStep ==
  ASSUME IndexInv,
         (\E w \in Watcher : JoinStep(w) \/ LeaveStep(w) \/ LostStep(w)) \/ StaleStep
  PROVE  OneDevice' /\ IndexSound'
<1> USE DEF NothingNew, monitoring
<1>0. registry \in [Session -> Entry]
  BY DEF IndexInv, ObserverShape
<1>1. ASSUME NEW w \in Watcher, JoinStep(w)
      PROVE  NothingNew
  <2>1. ASSUME NEW s, AddObserver(w, s)
        PROVE  \A r \in Session : registry'[r].kiosk = registry[r].kiosk
    BY <1>0, <2>1 DEF AddObserver, Entry
  <2>2. CASE \E s \in Session : JoinById(w, s)
    BY <2>1, <2>2 DEF JoinById
  <2>3. CASE JoinByKiosk(w)
    BY <2>1, <2>3 DEF JoinByKiosk
  <2> QED
    BY <1>1, <2>2, <2>3 DEF JoinStep, JoinLookup, JoinInsert, JoinFails, JoinDone
<1>2. ASSUME NEW s, NEW u, registry' = Removed(s, u)
      PROVE  \A r \in Session : registry'[r].kiosk = registry[r].kiosk
  BY <1>0, <1>2 DEF Removed, Entry
<1>3. ASSUME NEW w \in Watcher, LeaveStep(w)
      PROVE  NothingNew
  BY <1>2, <1>3 DEF LeaveStep, Leave, LeaveRows, LeaveFails, LeaveDone
<1>4. ASSUME NEW w \in Watcher, LostStep(w)
      PROVE  NothingNew
  <2>1. CASE LostUnflagged(w)
    BY <1>0, <2>1 DEF LostUnflagged, Entry
  <2>2. CASE LostObserver(w)
    BY <1>2, <2>2 DEF LostObserver
  <2> QED
    BY <1>4, <2>1, <2>2 DEF LostStep, WatcherDisconnect, LostRows, LostFails
<1>5. ASSUME StaleStep
      PROVE  NothingNew
  BY <1>2, <1>5 DEF StaleStep, Stale, StaleRows, StaleFails
<1> HIDE DEF NothingNew
<1> QED
  BY <1>1, <1>3, <1>4, <1>5, IndexKept

(***************************************************************************)
(* kioskToSessionId never dangles and never leads to another device, with   *)
(* any number of devices whose sessions start, stop and end at once.        *)
(***************************************************************************)
THEOREM IndexAlwaysSound == ObserverSpec => []IndexSound
<1>1. ObserverInit => IndexInv
  <2> SUFFICES ASSUME ObserverInit
               PROVE  OneDevice /\ IndexSound
    BY ObserverTypeInit DEF IndexInv
  <2>1. \A s \in Session, k \in Monitored : ~Concerns(s, k)
    BY ObserverConstantsAssumption DEF ObserverInit, Concerns, NoEntry
  <2> QED
    BY <2>1 DEF ObserverInit, OneDevice, IndexSound
<1>2. IndexInv /\ [ObserverNext]_observerVars => IndexInv'
  <2> SUFFICES ASSUME IndexInv, [ObserverNext]_observerVars
               PROVE  OneDevice' /\ IndexSound'
    BY ObserverTypeStep DEF IndexInv
  <2>1. CASE ObserverNext
    BY <2>1, SessionIndexStep, EndIndexStep, WatcherIndexStep DEF ObserverNext
  <2>2. CASE UNCHANGED observerVars
    BY <2>2, IndexKept DEF observerVars, monitoring, NothingNew
  <2> QED
    BY <2>1, <2>2
<1> QED
  BY <1>1, <1>2, PTL DEF ObserverSpec, IndexInv

-----------------------------------------------------------------------------
(* The seats of disconnected watchers *)

(***************************************************************************)
(* A watcher that has not strayed has a seat at most at the session it      *)
(* observes, or at the one it is joining, and when it is gone at none.      *)
(***************************************************************************)
SeatsKnown ==
  \A w \in Watcher \ strayed :
    /\ observing[w] # Nil => SeatsOf(w) \subseteq {observing[w]}
    /\ join[w].stage \in {"insert", "mode"} => SeatsOf(w) \subseteq {join[w].session}
    /\ socket[w] = "gone" => SeatsOf(w) = {}

SeatInv == ObserverShape /\ SeatsKnown

(* Nobody takes a seat, and no watcher comes to join, observe or be gone. *)
NoSeatTaken ==
  /\ strayed' = strayed
  /\ \A w \in Watcher :
       /\ SeatsOf(w)' \subseteq SeatsOf(w)
       /\ observing'[w] \in {observing[w], Nil}
       /\ join'[w].stage \in {"insert", "mode"}
            => join[w].stage \in {"insert", "mode"} /\ join'[w].session = join[w].session
       /\ socket'[w] = "gone" => socket[w] = "gone"

LEMMA SeatsKept ==
  ASSUME SeatInv, NoSeatTaken
  PROVE  SeatsKnown'
<1> SUFFICES ASSUME NEW w \in Watcher, w \notin strayed'
             PROVE  /\ observing'[w] # Nil => SeatsOf(w)' \subseteq {observing'[w]}
                    /\ join'[w].stage \in {"insert", "mode"}
                         => SeatsOf(w)' \subseteq {join'[w].session}
                    /\ socket'[w] = "gone" => SeatsOf(w)' = {}
  BY DEF SeatsKnown
<1>1. SeatsOf(w)' \subseteq SeatsOf(w) /\ w \notin strayed
  BY DEF NoSeatTaken
<1> QED
  BY <1>1 DEF SeatInv, SeatsKnown, NoSeatTaken

LEMMA RemovedSeats ==
  ASSUME ObserverShape, NEW r \in Session, NEW u \in Person, registry' = Removed(r, u)
  PROVE  \A w \in Watcher : /\ SeatsOf(w)' \subseteq SeatsOf(w)
                            /\ PersonOf[w] = u => r \notin SeatsOf(w)'
<1> USE ObserverConstantsAssumption DEF ObserverShape, Entry
<1> SUFFICES ASSUME NEW w \in Watcher
             PROVE  /\ SeatsOf(w)' \subseteq SeatsOf(w)
                    /\ PersonOf[w] = u => r \notin SeatsOf(w)'
  OBVIOUS
<1>0. PersonOf[w] \in Person
  OBVIOUS
<1>1. \A s \in Session : s # r => registry'[s] = registry[s]
  BY DEF Removed
<1>2. /\ registry'[r].on[u] = Nil
      /\ \A v \in Person : v # u => registry'[r].on[v] = registry[r].on[v]
  BY DEF Removed
<1> QED
  BY <1>0, <1>1, <1>2 DEF SeatsOf

LEMMA ClosedSeats ==
  ASSUME ObserverShape, NEW r \in Session, NEW entry \in Entry, entry.on = NoBody,
         registry' = [registry EXCEPT ![r] = entry]
  PROVE  \A w \in Watcher : SeatsOf(w)' \subseteq SeatsOf(w)
<1> USE ObserverConstantsAssumption DEF ObserverShape
<1> SUFFICES ASSUME NEW w \in Watcher
             PROVE  SeatsOf(w)' \subseteq SeatsOf(w)
  OBVIOUS
<1>1. \A s \in Session : s # r => registry'[s] = registry[s]
  OBVIOUS
<1>2. registry'[r].on[PersonOf[w]] = Nil
  BY DEF NoBody
<1> QED
  BY <1>1, <1>2 DEF SeatsOf

LEMMA AddObserverSeats ==
  ASSUME SeatInv, NEW w \in Watcher, NEW r \in Session, AddObserver(w, r),
         UNCHANGED <<observing, socket>>
  PROVE  SeatsKnown'
<1> USE ObserverConstantsAssumption DEF SeatInv, ObserverShape, Entry
<1> SUFFICES ASSUME NEW v \in Watcher, v \notin strayed'
             PROVE  /\ observing'[v] # Nil => SeatsOf(v)' \subseteq {observing'[v]}
                    /\ join'[v].stage \in {"insert", "mode"}
                         => SeatsOf(v)' \subseteq {join'[v].session}
                    /\ socket'[v] = "gone" => SeatsOf(v)' = {}
  BY DEF SeatsKnown
<1>0. v \notin strayed /\ PersonOf[w] \in Person /\ PersonOf[v] \in Person
  BY DEF AddObserver
<1>1. registry' = [registry EXCEPT ![r].on[PersonOf[w]] = w]
  BY DEF AddObserver
<1>2. \A s \in Session : s # r => registry'[s] = registry[s]
  BY <1>1
<1>3. /\ registry'[r].on[PersonOf[w]] = w
      /\ \A u \in Person : u # PersonOf[w] => registry'[r].on[u] = registry[r].on[u]
  BY <1>0, <1>1
<1>4. CASE v = w
  <2>1. socket[w] # "gone" /\ observing[w] \in {Nil, r} /\ SeatsOf(w) \subseteq {r}
    BY <1>0, <1>4 DEF AddObserver
  <2>2. SeatsOf(w)' \subseteq {r}
    BY <1>2, <2>1 DEF SeatsOf
  <2>3. join'[w].session = r
    BY DEF AddObserver, NoJoin
  <2> QED
    BY <1>4, <2>1, <2>2, <2>3
<1>5. CASE v # w
  <2>1. SeatsOf(v)' \subseteq SeatsOf(v)
    BY <1>0, <1>2, <1>3, <1>5 DEF SeatsOf
  <2>2. join'[v] = join[v]
    BY <1>5 DEF AddObserver
  <2> QED
    BY <1>0, <2>1, <2>2 DEF SeatsKnown
<1> QED
  BY <1>4, <1>5

LEMMA SessionSeatStep ==
  ASSUME SeatInv, NEW k \in Monitored, SessionStep(k)
  PROVE  SeatsKnown'
<1> USE DEF SeatInv, NoSeatTaken, calls, history
<1>1. CASE Register(k)
  <2>1. starting[k] \in Session
    BY <1>1 DEF Register, ObserverShape
  <2>2. [kiosk |-> k, on |-> NoBody] \in Entry
    BY EntryFresh
  <2>3. \A w \in Watcher : SeatsOf(w)' \subseteq SeatsOf(w)
    BY <1>1, <2>1, <2>2, ClosedSeats DEF Register
  <2>4. NoSeatTaken
    BY <1>1, <2>3 DEF Register
  <2> QED
    BY <2>4, SeatsKept
<1>2. CASE UNCHANGED <<registry, socket, observing, join, strayed>>
  <2>1. NoSeatTaken
    BY <1>2 DEF SeatsOf
  <2> QED
    BY <2>1, SeatsKept
<1> QED
  BY <1>1, <1>2 DEF SessionStep, Start, Stop, Lost, Restore, Timeout

LEMMA EndSeatStep ==
  ASSUME SeatInv, NEW e \in Ender, EnderStep(e)
  PROVE  SeatsKnown'
<1> USE DEF SeatInv, calls, history
<1>0. ending[e] \in EndCall
  BY DEF ObserverShape
<1>1. CASE EndMark(e)
  <2> DEFINE s == index[ending[e].kiosk]
  <2>1. CASE s = Nil
    <3>1. NoSeatTaken
      BY <1>1, <2>1 DEF EndMark, NoSeatTaken, SeatsOf
    <3> QED
      BY <3>1, SeatsKept
  <2>2. CASE s # Nil
    <3>1. s \in Session
      BY <1>0, <1>1, <2>2, CallStages DEF EndMark, ObserverShape
    <3> HIDE DEF s
    <3>2. registry' = [registry EXCEPT ![s].on = NoBody]
      BY <1>1, <2>2 DEF EndMark, s
    <3>3. registry[s] \in Entry
      BY <3>1 DEF ObserverShape
    <3>4. [registry[s] EXCEPT !.on = NoBody] \in Entry
      BY <3>3 DEF Entry, NoBody
    <3>5. [registry[s] EXCEPT !.on = NoBody].on = NoBody
      BY <3>3 DEF Entry
    <3>6. registry' = [registry EXCEPT ![s] = [registry[s] EXCEPT !.on = NoBody]]
      BY <3>2
    <3>7. \A w \in Watcher : SeatsOf(w)' \subseteq SeatsOf(w)
      BY <3>1, <3>4, <3>5, <3>6, ClosedSeats
    <3>8. \A w \in Watcher : observing'[w] \in {observing[w], Nil}
      BY <1>1, <2>2 DEF EndMark, s
    <3>9. NoSeatTaken
      BY <1>1, <3>7, <3>8 DEF EndMark, NoSeatTaken
    <3> QED
      BY <3>9, SeatsKept
  <2> QED
    BY <2>1, <2>2
<1>2. CASE EndClose(e)
  <2>1. ending[e].session \in Session /\ index[ending[e].kiosk] \in Session \cup {Nil}
    BY <1>0, <1>2, CallStages DEF EndClose, ObserverShape
  <2>2. ASSUME NEW s \in Session, CloseEntry(s)
        PROVE  \A w \in Watcher : SeatsOf(w)' \subseteq SeatsOf(w)
    <3>1. NoEntry.on = NoBody
      BY DEF NoEntry
    <3> QED
      BY <2>2, <3>1, EntryFresh, ClosedSeats DEF CloseEntry
  <2>3. \A w \in Watcher : SeatsOf(w)' \subseteq SeatsOf(w)
    <3>1. CASE Known(ending[e].session)
      BY <1>2, <2>1, <2>2, <3>1 DEF EndClose
    <3>2. CASE ~Known(ending[e].session) /\ index[ending[e].kiosk] # Nil
      BY <1>2, <2>1, <2>2, <3>2 DEF EndClose
    <3>3. CASE ~Known(ending[e].session) /\ index[ending[e].kiosk] = Nil
      BY <1>2, <3>3 DEF EndClose, SeatsOf
    <3> QED
      BY <3>1, <3>2, <3>3
  <2>4. NoSeatTaken
    BY <1>2, <2>3 DEF EndClose, NoSeatTaken
  <2> QED
    BY <2>4, SeatsKept
<1>3. CASE UNCHANGED <<registry, socket, observing, join, strayed>>
  <2>1. NoSeatTaken
    BY <1>3 DEF NoSeatTaken, SeatsOf
  <2> QED
    BY <2>1, SeatsKept
<1> QED
  BY <1>1, <1>2, <1>3 DEF EnderStep, StopRow, LostRow, EndRows, EndRowsFail

LEMMA JoinSeatStep ==
  ASSUME SeatInv, NEW w \in Watcher, JoinStep(w)
  PROVE  SeatsKnown'
<1> USE DEF SeatInv, history
<1>0. join[w] \in JoinCall
  BY DEF ObserverShape
<1>1. CASE \E s \in Session : JoinById(w, s)
  BY <1>1, AddObserverSeats DEF JoinById
<1>2. CASE JoinByKiosk(w)
  <2>1. index[join[w].kiosk] \in Session \cup {Nil}
    BY <1>0, <1>2, CallStages DEF JoinByKiosk, ObserverShape
  <2>2. CASE AddObserver(w, index[join[w].kiosk]) /\ index[join[w].kiosk] # Nil
    BY <1>2, <2>1, <2>2, AddObserverSeats DEF JoinByKiosk
  <2>3. CASE join' = [join EXCEPT ![w] = NoJoin] /\ UNCHANGED <<registry, strayed>>
    <3>1. NoSeatTaken
      BY <1>2, <2>3 DEF JoinByKiosk, NoSeatTaken, SeatsOf, NoJoin, ObserverShape
    <3> QED
      BY <3>1, SeatsKept
  <2> QED
    BY <1>2, <2>2, <2>3 DEF JoinByKiosk
<1>3. CASE \E k \in Monitored : JoinLookup(w, k)
  <2>1. NoSeatTaken
    BY <1>3 DEF JoinLookup, NoSeatTaken, SeatsOf, NoJoin, ObserverShape
  <2> QED
    BY <2>1, SeatsKept
<1>4. CASE JoinInsert(w) \/ JoinFails(w)
  <2>0. UNCHANGED <<registry, observing, socket, strayed>>
    BY <1>4 DEF JoinInsert, JoinFails
  <2>2. \A v \in Watcher : join'[v].stage \in {"insert", "mode"}
          => join[v].stage \in {"insert", "mode"} /\ join'[v].session = join[v].session
    <3>1. CASE JoinInsert(w)
      BY <1>0, <3>1 DEF JoinInsert, ObserverShape, JoinCall, NoJoin
    <3>2. CASE JoinFails(w)
      BY <3>2 DEF JoinFails, ObserverShape, NoJoin
    <3> QED
      BY <1>4, <3>1, <3>2
  <2>1. NoSeatTaken
    BY <2>0, <2>2 DEF NoSeatTaken, SeatsOf
  <2> QED
    BY <2>1, SeatsKept
<1>5. CASE JoinDone(w)
  <2> SUFFICES ASSUME NEW v \in Watcher, v \notin strayed'
               PROVE  /\ observing'[v] # Nil => SeatsOf(v)' \subseteq {observing'[v]}
                      /\ join'[v].stage \in {"insert", "mode"}
                           => SeatsOf(v)' \subseteq {join'[v].session}
                      /\ socket'[v] = "gone" => SeatsOf(v)' = {}
    BY DEF SeatsKnown
  <2>1. SeatsOf(v)' = SeatsOf(v) /\ v \notin strayed /\ socket' = socket
    BY <1>5 DEF JoinDone, SeatsOf
  <2>2. CASE v = w
    <3>1. SeatsOf(w) \subseteq {join[w].session}
      BY <1>5, <2>1, <2>2 DEF JoinDone, SeatsKnown
    <3> QED
      BY <1>5, <2>1, <2>2, <3>1 DEF JoinDone, SeatsKnown, NoJoin, ObserverShape
  <2>3. CASE v # w
    BY <1>5, <2>1, <2>3 DEF JoinDone, SeatsKnown, ObserverShape
  <2> QED
    BY <2>2, <2>3
<1> QED
  BY <1>1, <1>2, <1>3, <1>4, <1>5 DEF JoinStep

LEMMA LeaveSeatStep ==
  ASSUME SeatInv, NEW w \in Watcher, LeaveStep(w)
  PROVE  SeatsKnown'
<1> USE DEF SeatInv, NoSeatTaken, history
<1>1. ASSUME NEW s \in Session, Leave(w, s)
      PROVE  NoSeatTaken
  <2>1. PersonOf[w] \in Person
    BY ObserverConstantsAssumption
  <2>2. \A v \in Watcher : SeatsOf(v)' \subseteq SeatsOf(v)
    BY <1>1, <2>1, RemovedSeats DEF Leave
  <2> QED
    BY <1>1, <2>2 DEF Leave
<1>2. ASSUME LeaveRows(w) \/ LeaveFails(w) \/ LeaveDone(w)
      PROVE  NoSeatTaken
  <2>1. UNCHANGED <<registry, join, socket, strayed>>
    BY <1>2 DEF LeaveRows, LeaveFails, LeaveDone
  <2>2. \A v \in Watcher : observing'[v] \in {observing[v], Nil}
    BY <1>2 DEF LeaveRows, LeaveFails, LeaveDone, ObserverShape
  <2> QED
    BY <2>1, <2>2 DEF SeatsOf
<1> HIDE DEF NoSeatTaken
<1> QED
  BY <1>1, <1>2, SeatsKept DEF LeaveStep

LEMMA LostSeatStep ==
  ASSUME SeatInv, NEW w \in Watcher, LostStep(w)
  PROVE  SeatsKnown'
<1> USE ObserverConstantsAssumption DEF SeatInv, calls, history
<1>1. CASE WatcherDisconnect(w) \/ LostRows(w) \/ LostFails(w)
  <2>1. NoSeatTaken
    BY <1>1 DEF WatcherDisconnect, LostRows, LostFails, NoSeatTaken, SeatsOf, ObserverShape
  <2> QED
    BY <2>1, SeatsKept
<1>2. CASE LostUnflagged(w) \/ LostObserver(w)
  <2>1. \A v \in Watcher : SeatsOf(v)' \subseteq SeatsOf(v)
    <3>1. CASE LostUnflagged(w)
      <4>1. ASSUME NEW s \in Session, NEW v \in Watcher, registry'[s].on[PersonOf[v]] = v
            PROVE  registry[s].on[PersonOf[v]] = v
        <5>1. registry[s].on \in [Person -> Watcher \cup {Nil}]
          BY DEF ObserverShape, Entry
        <5>2. /\ s \notin SeatsOf(w) => registry'[s] = registry[s]
              /\ s \in SeatsOf(w) => registry'[s] = [registry[s] EXCEPT !.on[PersonOf[w]] = Nil]
          BY <3>1 DEF LostUnflagged
        <5>3. PersonOf[v] \in Person /\ PersonOf[w] \in Person
          OBVIOUS
        <5>4. registry[s] \in Entry
          BY DEF ObserverShape
        <5> QED
          BY <4>1, <5>1, <5>2, <5>3, <5>4 DEF Entry
      <4> QED
        BY <4>1 DEF SeatsOf
    <3>2. CASE LostObserver(w)
      <4>1. observing[w] \in Session /\ PersonOf[w] \in Person
        BY <3>2 DEF LostObserver, ObserverShape
      <4>2. registry' \in {registry, Removed(observing[w], PersonOf[w])}
        BY <3>2 DEF LostObserver
      <4> QED
        BY <4>1, <4>2, RemovedSeats DEF SeatsOf
    <3> QED
      BY <1>2, <3>1, <3>2
  <2>2. w \notin strayed => SeatsOf(w)' = {}
    <3>1. CASE LostUnflagged(w)
      <4>1. ASSUME NEW s \in Session, s \in SeatsOf(w)
            PROVE  registry'[s].on[PersonOf[w]] = Nil
        <5>1. registry'[s] = [registry[s] EXCEPT !.on[PersonOf[w]] = Nil]
          BY <3>1, <4>1 DEF LostUnflagged
        <5>2. registry[s] \in Entry /\ PersonOf[w] \in Person
          BY DEF ObserverShape
        <5> QED
          BY <5>1, <5>2 DEF Entry
      <4>2. SeatsOf(w) \cap SeatsOf(w)' = {}
        BY <4>1 DEF SeatsOf
      <4> QED
        BY <2>1, <4>2
    <3>2. CASE LostObserver(w)
      <4>1. observing[w] \in Session /\ PersonOf[w] \in Person
        BY <3>2 DEF LostObserver, ObserverShape
      <4>2. w \notin strayed => SeatsOf(w) \subseteq {observing[w]}
        BY <4>1 DEF SeatsKnown
      <4>3. observing[w] \notin SeatsOf(w)'
        <5>1. CASE PersonOf[w] \in On(observing[w])
          BY <3>2, <4>1, <5>1, RemovedSeats DEF LostObserver
        <5>2. CASE PersonOf[w] \notin On(observing[w])
          <6>1. registry[observing[w]].on[PersonOf[w]] = Nil
            BY <4>1, <5>2 DEF On
          <6>2. registry' = registry
            BY <3>2, <5>2 DEF LostObserver
          <6> QED
            BY <6>1, <6>2 DEF SeatsOf
        <5> QED
          BY <5>1, <5>2
      <4> QED
        BY <2>1, <4>2, <4>3
    <3> QED
      BY <1>2, <3>1, <3>2
  <2>3. /\ strayed' = strayed /\ observing' = observing /\ join' = join
        /\ socket' = [socket EXCEPT ![w] = "gone"]
    BY <1>2 DEF LostUnflagged, LostObserver
  <2> SUFFICES ASSUME NEW v \in Watcher, v \notin strayed
               PROVE  /\ observing[v] # Nil => SeatsOf(v)' \subseteq {observing[v]}
                      /\ join[v].stage \in {"insert", "mode"}
                           => SeatsOf(v)' \subseteq {join[v].session}
                      /\ socket'[v] = "gone" => SeatsOf(v)' = {}
    BY <2>3 DEF SeatsKnown
  <2>4. socket'[v] = "gone" => v = w \/ socket[v] = "gone"
    BY <2>3 DEF ObserverShape
  <2>5. SeatsOf(v)' \subseteq SeatsOf(v)
    BY <2>1
  <2> QED
    BY <2>2, <2>4, <2>5 DEF SeatsKnown
<1> QED
  BY <1>1, <1>2 DEF LostStep

LEMMA StaleSeatStep ==
  ASSUME SeatInv, StaleStep
  PROVE  SeatsKnown'
<1> USE DEF SeatInv, NoSeatTaken, history
<1>1. ASSUME NEW s \in Session, NEW u \in Person, Stale(s, u)
      PROVE  NoSeatTaken
  BY <1>1, RemovedSeats DEF Stale
<1>2. ASSUME StaleRows \/ StaleFails
      PROVE  NoSeatTaken
  <2>1. UNCHANGED <<registry, observing, join, socket, strayed>>
    BY <1>2 DEF StaleRows, StaleFails
  <2> QED
    BY <2>1 DEF SeatsOf
<1> HIDE DEF NoSeatTaken
<1> QED
  BY <1>1, <1>2, SeatsKept DEF StaleStep

(***************************************************************************)
(* handleObserverDisconnect leaves no seat behind: a watcher that is gone   *)
(* is registered nowhere, unless it strayed, whatever its joins and leaves, *)
(* other sockets of its user and the ends of sessions did meanwhile.        *)
(***************************************************************************)
THEOREM GoneObserversForgotten == ObserverSpec => []GoneObserverForgotten
<1>1. ObserverInit => SeatInv
  <2> SUFFICES ASSUME ObserverInit
               PROVE  SeatsKnown
    BY ObserverTypeInit DEF SeatInv
  <2> QED
    BY DEF ObserverInit, SeatsKnown, NoJoin
<1>2. SeatInv /\ [ObserverNext]_observerVars => SeatInv'
  <2> SUFFICES ASSUME SeatInv, [ObserverNext]_observerVars
               PROVE  SeatsKnown'
    BY ObserverTypeStep DEF SeatInv
  <2>1. CASE ObserverNext
    BY <2>1, SessionSeatStep, EndSeatStep, JoinSeatStep, LeaveSeatStep, LostSeatStep,
       StaleSeatStep DEF ObserverNext
  <2>2. CASE UNCHANGED observerVars
    <3>1. NoSeatTaken
      BY <2>2 DEF observerVars, calls, history, NoSeatTaken, SeatsOf
    <3> QED
      BY <3>1, SeatsKept
  <2> QED
    BY <2>1, <2>2
<1>3. SeatInv => GoneObserverForgotten
  BY DEF SeatInv, SeatsKnown, SeatsOf, GoneObserverForgotten
<1> QED
  BY <1>1, <1>2, <1>3, PTL DEF ObserverSpec

-----------------------------------------------------------------------------
(* The rows of observers *)

(* Somebody knows of the row of u at s, or it is one of those given up. *)
Attended(s, u) ==
  \/ u \in On(s)
  \/ Closing(s, u)
  \/ OpenRow(s, u) \in leaked

RowsAttended ==
  \A s \in Session, u \in Person : OpenRow(s, u) \in rows => Attended(s, u)

(* leaveObserver is called once by the handler of a lost socket, as its last step. *)
HandledOnce == \A w \in Watcher : lost[w] # Nil => socket[w] = "gone"

RowsInv == ObserverShape /\ RowsAttended /\ HandledOnce

LEMMA HandledOnceStep ==
  ASSUME ObserverShape, HandledOnce, [ObserverNext]_observerVars
  PROVE  HandledOnce'
<1> USE DEF HandledOnce, calls, history
<1>1. CASE UNCHANGED <<socket, lost>>
  BY <1>1
<1>2. ASSUME NEW w \in Watcher, LostStep(w)
      PROVE  HandledOnce'
  BY <1>2 DEF LostStep, WatcherDisconnect, LostUnflagged, LostObserver, LostRows, LostFails,
     ObserverShape
<1>3. ASSUME NEW k \in Monitored, SessionStep(k)
      PROVE  UNCHANGED <<socket, lost>>
  BY <1>3 DEF SessionStep, Start, Register, Stop, Lost, Restore, Timeout
<1>4. ASSUME NEW e \in Ender, EnderStep(e)
      PROVE  UNCHANGED <<socket, lost>>
  BY <1>4 DEF EnderStep, StopRow, LostRow, EndMark, EndRows, EndRowsFail, EndClose
<1>5. ASSUME NEW w \in Watcher, JoinStep(w) \/ LeaveStep(w)
      PROVE  UNCHANGED <<socket, lost>>
  BY <1>5 DEF JoinStep, JoinById, JoinLookup, JoinByKiosk, JoinInsert, JoinFails, JoinDone,
     LeaveStep, Leave, LeaveRows, LeaveFails, LeaveDone
<1>6. ASSUME StaleStep
      PROVE  UNCHANGED <<socket, lost>>
  BY <1>6 DEF StaleStep, Stale, StaleRows, StaleFails
<1>7. CASE UNCHANGED observerVars
  BY <1>7 DEF observerVars
<1> QED
  BY <1>1, <1>2, <1>3, <1>4, <1>5, <1>6, <1>7 DEF ObserverNext

LEMMA RowsByNames ==
  ASSUME ObserverShape
  PROVE  RowsAccounted <=> RowsAttended
<1>1. \A r \in rows : /\ r.session \in Session /\ r.user \in Person
                      /\ r = OpenRow(r.session, r.user)
  BY DEF ObserverShape, Observation, OpenRow
<1>2. \A s, u : OpenRow(s, u).session = s /\ OpenRow(s, u).user = u
  BY DEF OpenRow
<1> QED
  BY <1>1, <1>2 DEF RowsAccounted, RowsAttended, Attended

(* The calls on their way to close a row are still on their way. *)
ClosersKept ==
  /\ \A w \in Watcher : leave[w].stage = "rows" => leave'[w] = leave[w]
  /\ lost' = lost
  /\ stale' = stale
  /\ \A e \in Ender : ending[e].stage = "rows" => ending'[e] = ending[e]

LEMMA ClosingKept ==
  ASSUME ClosersKept
  PROVE  \A s, u : Closing(s, u) => Closing(s, u)'
<1> SUFFICES ASSUME NEW s, NEW u, Closing(s, u)
             PROVE  Closing(s, u)'
  OBVIOUS
<1>1. CASE \E w \in Watcher : PersonOf[w] = u /\ leave[w] = [stage |-> "rows", session |-> s]
  BY <1>1 DEF ClosersKept, Closing
<1>2. CASE \E w \in Watcher : PersonOf[w] = u /\ lost[w] = s
  BY <1>2 DEF ClosersKept, Closing
<1>3. CASE stale = OpenRow(s, u)
  BY <1>3 DEF ClosersKept, Closing, OpenRow
<1>4. CASE \E e \in Ender : ending[e].stage = "rows" /\ ending[e].session = s
  BY <1>4 DEF ClosersKept, Closing
<1> QED
  BY <1>1, <1>2, <1>3, <1>4 DEF Closing

(* No observer, row or closing call is lost. *)
LEMMA RowsQuiet ==
  ASSUME RowsInv, ClosersKept, rows' = rows, leaked' = leaked,
         \A s \in Session : On(s) \subseteq On(s)'
  PROVE  RowsAttended'
<1> SUFFICES ASSUME NEW s \in Session, NEW u \in Person, OpenRow(s, u) \in rows
             PROVE  Attended(s, u)'
  BY DEF RowsAttended, OpenRow
<1>1. Attended(s, u)
  BY DEF RowsInv, RowsAttended
<1>2. OpenRow(s, u)' = OpenRow(s, u)
  BY DEF OpenRow
<1> QED
  BY <1>1, <1>2, ClosingKept DEF Attended

(* Of the sessions in S the observers go, and their rows are given up. *)
LEMMA RowsGivenUp ==
  ASSUME RowsInv, ClosersKept, rows' = rows, NEW R, Forgotten(R),
         \A s \in Session, u \in Person : u \in On(s) => u \in On(s)' \/ OpenRow(s, u) \in R
  PROVE  RowsAttended'
<1> SUFFICES ASSUME NEW s \in Session, NEW u \in Person, OpenRow(s, u) \in rows
             PROVE  Attended(s, u)'
  BY DEF RowsAttended, OpenRow
<1>1. Attended(s, u)
  BY DEF RowsInv, RowsAttended
<1>2. OpenRow(s, u)' = OpenRow(s, u)
  BY DEF OpenRow
<1>3. leaked \subseteq leaked' /\ (OpenRow(s, u) \in R => OpenRow(s, u) \in leaked')
  BY DEF Forgotten
<1> QED
  BY <1>1, <1>2, <1>3, ClosingKept DEF Attended

LEMMA SessionRowsStep ==
  ASSUME RowsInv, NEW k \in Monitored, SessionStep(k)
  PROVE  RowsAttended'
<1> USE DEF RowsInv, calls, history
<1>1. CASE Register(k)
  <2> DEFINE r == starting[k]
             R == {OpenRow(r, u) : u \in On(r)}
  <2>1. ClosersKept /\ rows' = rows /\ Forgotten(R)
    BY <1>1 DEF Register, ClosersKept
  <2>2. \A s \in Session : s # r => registry'[s] = registry[s]
    BY <1>1 DEF Register, ObserverShape
  <2>3. \A s \in Session, u \in Person : u \in On(s) => u \in On(s)' \/ OpenRow(s, u) \in R
    BY <2>2 DEF On
  <2> HIDE DEF R
  <2> QED
    BY <2>1, <2>3, RowsGivenUp
<1>2. CASE \E e \in Ender : Stop(e, k) \/ Lost(e, k)
  <2>1. ClosersKept
    BY <1>2 DEF Stop, Lost, ClosersKept, ObserverShape, NoEnding
  <2>2. UNCHANGED <<registry, rows, leaked>>
    BY <1>2 DEF Stop, Lost
  <2> QED
    BY <2>1, <2>2, RowsQuiet DEF On
<1>3. CASE UNCHANGED <<registry, rows, calls, ending, leaked>>
  <2>1. ClosersKept
    BY <1>3 DEF ClosersKept
  <2> QED
    BY <1>3, <2>1, RowsQuiet DEF On
<1> QED
  BY <1>1, <1>2, <1>3 DEF SessionStep, Start, Restore, Timeout

LEMMA CloseEntryRows ==
  ASSUME RowsInv, ClosersKept, NEW r \in Session, CloseEntry(r), rows' = rows
  PROVE  RowsAttended'
<1> DEFINE R == {OpenRow(r, u) : u \in On(r)}
<1>1. Forgotten(R) /\ registry' = [registry EXCEPT ![r] = NoEntry]
  BY DEF CloseEntry
<1>2. \A s \in Session : s # r => registry'[s] = registry[s]
  BY <1>1 DEF RowsInv, ObserverShape
<1>3. \A s \in Session, u \in Person : u \in On(s) => u \in On(s)' \/ OpenRow(s, u) \in R
  BY <1>2 DEF On
<1> HIDE DEF R
<1> QED
  BY <1>1, <1>3, RowsGivenUp

LEMMA EndRowsStep ==
  ASSUME RowsInv, NEW e \in Ender, EnderStep(e)
  PROVE  RowsAttended'
<1> USE DEF RowsInv, calls, history
<1>0. ending[e] \in EndCall
  BY DEF ObserverShape
<1>1. CASE StopRow(e) \/ LostRow(e)
  <2>1. ClosersKept
    BY <1>1 DEF StopRow, LostRow, ClosersKept, ObserverShape
  <2>2. UNCHANGED <<registry, rows, leaked>>
    BY <1>1 DEF StopRow, LostRow
  <2> QED
    BY <2>1, <2>2, RowsQuiet DEF On
<1>2. CASE EndMark(e)
  <2> DEFINE r == index[ending[e].kiosk]
  <2>1. ClosersKept /\ UNCHANGED <<rows, leaked>>
    BY <1>2 DEF EndMark, ClosersKept, ObserverShape
  <2>2. CASE r = Nil
    BY <1>2, <2>1, <2>2, RowsQuiet DEF EndMark, On
  <2>3. CASE r # Nil
    <3>1. ending'[e].stage = "rows" /\ ending'[e].session = r
      BY <1>0, <1>2, <2>3 DEF EndMark, ObserverShape, EndCall, NoEnding
    <3>2. \A s \in Session : s # r => registry'[s] = registry[s]
      BY <1>2, <2>3 DEF EndMark, ObserverShape
    <3> HIDE DEF r
    <3> SUFFICES ASSUME NEW s \in Session, NEW u \in Person, OpenRow(s, u) \in rows
                 PROVE  Attended(s, u)'
      BY <2>1 DEF RowsAttended, OpenRow
    <3>3. Attended(s, u)
      BY DEF RowsAttended
    <3>4. CASE s = r
      BY <3>1, <3>4 DEF Attended, Closing
    <3>5. CASE s # r
      BY <2>1, <3>2, <3>3, <3>5, ClosingKept DEF Attended, On, OpenRow
    <3> QED
      BY <3>4, <3>5
  <2> QED
    BY <2>2, <2>3
<1>3. CASE EndRows(e)
  <2> SUFFICES ASSUME NEW s \in Session, NEW u \in Person, OpenRow(s, u) \in rows'
               PROVE  Attended(s, u)'
    BY DEF RowsAttended, OpenRow
  <2>1. OpenRow(s, u) \in rows /\ s # ending[e].session
    BY <1>3, RowsOfObservers DEF EndRows, RowsClosed, OpenRow
  <2>2. Attended(s, u)
    BY <2>1 DEF RowsAttended
  <2>3. OpenRow(s, u) \in leaked => OpenRow(s, u) \in leaked'
    BY <1>3, <2>1 DEF EndRows, RowsClosed, OpenRow
  <2>4. Closing(s, u) => Closing(s, u)'
    <3>1. \A d \in Ender : d # e => ending'[d] = ending[d]
      BY <1>3 DEF EndRows, ObserverShape
    <3> QED
      BY <1>3, <2>1, <3>1 DEF EndRows, Closing, OpenRow
  <2> QED
    BY <1>3, <2>2, <2>3, <2>4 DEF EndRows, Attended, On, OpenRow
<1>4. CASE EndRowsFail(e)
  <2> SUFFICES ASSUME NEW s \in Session, NEW u \in Person, OpenRow(s, u) \in rows'
               PROVE  Attended(s, u)'
    BY DEF RowsAttended, OpenRow
  <2>1. OpenRow(s, u) \in rows /\ Attended(s, u)
    BY <1>4 DEF EndRowsFail, RowsAttended
  <2>2. leaked \subseteq leaked'
    BY <1>4 DEF EndRowsFail, Forgotten
  <2>3. CASE s = ending[e].session
    BY <1>4, <2>1, <2>3 DEF EndRowsFail, Forgotten, Attended, OpenRow
  <2>4. CASE s # ending[e].session
    <3>1. \A d \in Ender : d # e => ending'[d] = ending[d]
      BY <1>4 DEF EndRowsFail, ObserverShape
    <3>2. Closing(s, u) => Closing(s, u)'
      BY <1>4, <2>4, <3>1 DEF EndRowsFail, Closing, OpenRow
    <3> QED
      BY <1>4, <2>1, <2>2, <3>2 DEF EndRowsFail, Attended, On, OpenRow
  <2> QED
    BY <2>3, <2>4
<1>5. CASE EndClose(e)
  <2>1. ending[e].session \in Session /\ index[ending[e].kiosk] \in Session \cup {Nil}
    BY <1>0, <1>5, CallStages DEF EndClose, ObserverShape
  <2>2. ClosersKept /\ rows' = rows
    BY <1>5 DEF EndClose, ClosersKept, ObserverShape
  <2>3. CASE Known(ending[e].session)
    BY <1>5, <2>1, <2>2, <2>3, CloseEntryRows DEF EndClose
  <2>4. CASE ~Known(ending[e].session) /\ index[ending[e].kiosk] # Nil
    BY <1>5, <2>1, <2>2, <2>4, CloseEntryRows DEF EndClose
  <2>5. CASE ~Known(ending[e].session) /\ index[ending[e].kiosk] = Nil
    BY <1>5, <2>2, <2>5, RowsQuiet DEF EndClose, On
  <2> QED
    BY <2>3, <2>4, <2>5
<1> QED
  BY <1>1, <1>2, <1>3, <1>4, <1>5 DEF EnderStep

LEMMA JoinRowsStep ==
  ASSUME RowsInv, NEW w \in Watcher, JoinStep(w)
  PROVE  RowsAttended'
<1> USE DEF RowsInv, history
<1>0. join[w] \in JoinCall /\ PersonOf[w] \in Person
  BY ObserverConstantsAssumption DEF ObserverShape
<1>1. CASE JoinInsert(w)
  <2>1. ClosersKept
    BY <1>1 DEF JoinInsert, ClosersKept
  <2> DEFINE r == OpenRow(join[w].session, PersonOf[w])
  <2> SUFFICES ASSUME NEW s \in Session, NEW u \in Person, OpenRow(s, u) \in rows'
               PROVE  Attended(s, u)'
    BY DEF RowsAttended, OpenRow
  <2>2. CASE OpenRow(s, u) = r
    <3>1. s = join[w].session /\ u = PersonOf[w]
      BY <2>2 DEF OpenRow
    <3>2. u \in On(s) \/ OpenRow(s, u) \in leaked'
      BY <1>1, <3>1 DEF JoinInsert
    <3> QED
      BY <1>1, <3>2 DEF JoinInsert, Attended, On, OpenRow
  <2>3. CASE OpenRow(s, u) # r
    <3>1. OpenRow(s, u) \in rows
      BY <1>1, <2>3 DEF JoinInsert
    <3>2. Attended(s, u)
      BY <3>1 DEF RowsAttended
    <3>3. leaked \subseteq leaked'
      BY <1>1 DEF JoinInsert
    <3> QED
      BY <1>1, <2>1, <3>2, <3>3, ClosingKept DEF JoinInsert, Attended, On, OpenRow
  <2> QED
    BY <2>2, <2>3
<1>2. ASSUME NEW s \in Session, AddObserver(w, s)
      PROVE  \A r \in Session : On(r) \subseteq On(r)'
  <2>1. registry' = [registry EXCEPT ![s].on[PersonOf[w]] = w]
    BY <1>2 DEF AddObserver
  <2>2. \A r \in Session : r # s => registry'[r] = registry[r]
    BY <2>1 DEF ObserverShape
  <2>3. \A u \in Person : registry'[s].on[u] \in {registry[s].on[u], w}
    BY <1>0, <2>1 DEF ObserverShape, Entry
  <2> QED
    BY <2>2, <2>3, ObserverConstantsAssumption DEF On
<1>3. ASSUME ~JoinInsert(w)
      PROVE  ClosersKept /\ UNCHANGED <<rows, leaked>>
  BY <1>3 DEF JoinStep, JoinById, JoinLookup, JoinByKiosk, JoinFails, JoinDone, ClosersKept
<1>4. ASSUME ~JoinInsert(w)
      PROVE  \A r \in Session : On(r) \subseteq On(r)'
  <2>1. CASE \E s \in Session : JoinById(w, s)
    BY <1>2, <2>1 DEF JoinById
  <2>2. CASE JoinByKiosk(w)
    <3>1. index[join[w].kiosk] \in Session \cup {Nil}
      BY <1>0, <2>2, CallStages DEF JoinByKiosk, ObserverShape
    <3>2. CASE AddObserver(w, index[join[w].kiosk]) /\ index[join[w].kiosk] # Nil
      BY <1>2, <3>1, <3>2
    <3>3. CASE registry' = registry
      BY <3>3 DEF On
    <3> QED
      BY <2>2, <3>2, <3>3 DEF JoinByKiosk
  <2>3. CASE UNCHANGED registry
    BY <2>3 DEF On
  <2> QED
    BY <1>4, <2>1, <2>2, <2>3 DEF JoinStep, JoinLookup, JoinFails, JoinDone
<1> QED
  BY <1>1, <1>3, <1>4, RowsQuiet

(* Removed takes one observer away. *)
LEMMA RemovedObservers ==
  ASSUME ObserverShape, NEW r \in Session, NEW u \in Person, registry' = Removed(r, u)
  PROVE  \A s \in Session, v \in Person : v \in On(s) => v \in On(s)' \/ (s = r /\ v = u)
<1>1. \A s \in Session : s # r => registry'[s] = registry[s]
  BY DEF Removed, ObserverShape
<1>2. \A v \in Person : v # u => registry'[r].on[v] = registry[r].on[v]
  BY DEF Removed, ObserverShape, Entry
<1> QED
  BY <1>1, <1>2 DEF On

LEMMA LeaveRowsStep ==
  ASSUME RowsInv, NEW w \in Watcher, LeaveStep(w)
  PROVE  RowsAttended'
<1> USE DEF RowsInv, history
<1> DEFINE p == PersonOf[w]
<1>0. leave[w] \in LeaveCall /\ p \in Person
  BY ObserverConstantsAssumption DEF ObserverShape
<1>1. ASSUME NEW r \in Session, Leave(w, r)
      PROVE  RowsAttended'
  <2>1. ClosersKept /\ UNCHANGED <<rows, leaked>>
    BY <1>1 DEF Leave, ClosersKept, ObserverShape, NoLeave
  <2>2. \A s \in Session, v \in Person : v \in On(s) => v \in On(s)' \/ (s = r /\ v = p)
    BY <1>0, <1>1, RemovedObservers DEF Leave
  <2>3. Closing(r, p)'
    <3>1. leave'[w] = [stage |-> "rows", session |-> r]
      BY <1>1 DEF Leave, ObserverShape
    <3> QED
      BY <3>1 DEF Closing
  <2> SUFFICES ASSUME NEW s \in Session, NEW u \in Person, OpenRow(s, u) \in rows
               PROVE  Attended(s, u)'
    BY <2>1 DEF RowsAttended, OpenRow
  <2>4. Attended(s, u)
    BY DEF RowsAttended
  <2> HIDE DEF p
  <2> QED
    BY <2>1, <2>2, <2>3, <2>4, ClosingKept DEF Attended, OpenRow
<1>2. CASE LeaveRows(w) \/ LeaveFails(w)
  <2> DEFINE r == leave[w].session
  <2> SUFFICES ASSUME NEW s \in Session, NEW u \in Person, OpenRow(s, u) \in rows'
               PROVE  Attended(s, u)'
    BY DEF RowsAttended, OpenRow
  <2>1. OpenRow(s, u) \in rows
    BY <1>2 DEF LeaveRows, LeaveFails, RowsClosed
  <2>2. Attended(s, u)
    BY <2>1 DEF RowsAttended
  <2>3. s = r /\ u = p => OpenRow(s, u) \in leaked'
    BY <1>2, <2>1 DEF LeaveRows, LeaveFails, RowsClosed, Forgotten, OpenRow
  <2>4. OpenRow(s, u) \in leaked => OpenRow(s, u) \in leaked'
    BY <1>2 DEF LeaveRows, LeaveFails, RowsClosed, Forgotten
  <2>5. UNCHANGED <<registry, lost, stale, ending>> /\ \A v \in Watcher : v # w => leave'[v] = leave[v]
    BY <1>2 DEF LeaveRows, LeaveFails, ObserverShape
  <2>6. ASSUME Closing(s, u), ~(s = r /\ u = p)
        PROVE  Closing(s, u)'
    <3>1. leave[w] # [stage |-> "rows", session |-> s] \/ PersonOf[w] # u
      BY <2>6
    <3> QED
      BY <2>5, <2>6, <3>1 DEF Closing, OpenRow
  <2> QED
    BY <2>2, <2>3, <2>4, <2>5, <2>6 DEF Attended, On, OpenRow
<1>3. CASE LeaveDone(w)
  <2>1. ClosersKept
    BY <1>3 DEF LeaveDone, ClosersKept, ObserverShape
  <2> QED
    BY <1>3, <2>1, RowsQuiet DEF LeaveDone, On
<1> QED
  BY <1>1, <1>2, <1>3 DEF LeaveStep

LEMMA LostRowsStep ==
  ASSUME RowsInv, NEW w \in Watcher, LostStep(w)
  PROVE  RowsAttended'
<1> USE DEF RowsInv, calls, history
<1> DEFINE p == PersonOf[w]
<1>0. p \in Person
  BY ObserverConstantsAssumption
<1>1. CASE WatcherDisconnect(w)
  <2>1. ClosersKept
    BY <1>1 DEF WatcherDisconnect, ClosersKept
  <2> QED
    BY <1>1, <2>1, RowsQuiet DEF WatcherDisconnect, On
<1>2. CASE LostUnflagged(w)
  <2> DEFINE R == {OpenRow(s, p) : s \in SeatsOf(w)}
  <2>1. ClosersKept /\ rows' = rows /\ Forgotten(R)
    BY <1>2 DEF LostUnflagged, ClosersKept
  <2>2. ASSUME NEW s \in Session, NEW u \in Person, u \in On(s), OpenRow(s, u) \notin R
        PROVE  u \in On(s)'
    <3>1. registry[s] \in Entry
      BY DEF ObserverShape
    <3>2. CASE s \in SeatsOf(w)
      <4>1. u # p
        BY <2>2, <3>2
      <4>2. registry'[s].on[u] = registry[s].on[u]
        BY <1>2, <3>1, <3>2, <4>1 DEF LostUnflagged, Entry
      <4> QED
        BY <2>2, <4>2 DEF On
    <3>3. CASE s \notin SeatsOf(w)
      BY <1>2, <2>2, <3>3 DEF LostUnflagged, On
    <3> QED
      BY <3>2, <3>3
  <2> HIDE DEF R
  <2>3. \A s \in Session, u \in Person : u \in On(s) => u \in On(s)' \/ OpenRow(s, u) \in R
    BY <2>2
  <2> QED
    BY <2>1, <2>3, RowsGivenUp
<1>3. CASE LostObserver(w)
  <2>1. PICK r \in Session : r = observing[w]
    BY <1>3 DEF LostObserver, ObserverShape
  <2>2. CASE p \notin On(r)
    <3>1. ClosersKept /\ UNCHANGED <<registry, rows, leaked>>
      BY <1>3, <2>1, <2>2 DEF LostObserver, ClosersKept
    <3> QED
      BY <3>1, RowsQuiet DEF On
  <2>3. CASE p \in On(r)
    <3>1. registry' = Removed(r, p) /\ lost' = [lost EXCEPT ![w] = r]
      BY <1>3, <2>1, <2>3 DEF LostObserver
    <3>2. UNCHANGED <<rows, leaked, leave, stale, ending>>
      BY <1>3 DEF LostObserver
    <3>3. \A s \in Session, v \in Person : v \in On(s) => v \in On(s)' \/ (s = r /\ v = p)
      BY <1>0, <2>1, <3>1, RemovedObservers
    <3>4. \A v \in Person : v = p => Closing(r, v)'
      <4>1. lost'[w] = r
        BY <3>1 DEF ObserverShape
      <4> QED
        BY <4>1 DEF Closing
    <3>5. lost[w] = Nil
      BY <1>3 DEF LostObserver, HandledOnce
    <3> SUFFICES ASSUME NEW s \in Session, NEW u \in Person, OpenRow(s, u) \in rows
                 PROVE  Attended(s, u)'
      BY <3>2 DEF RowsAttended, OpenRow
    <3>6. Attended(s, u)
      BY DEF RowsAttended
    <3>7. Closing(s, u) => Closing(s, u)'
      <4>0. s # Nil
        BY ObserverConstantsAssumption
      <4>1. \A v \in Watcher : lost[v] = s => lost'[v] = s
        BY <3>1, <3>5, <4>0 DEF ObserverShape
      <4> QED
        BY <3>2, <4>1 DEF Closing, OpenRow
    <3> HIDE DEF p
    <3>8. (OpenRow(s, u) \in leaked)' <=> OpenRow(s, u) \in leaked
      BY <3>2 DEF OpenRow
    <3> QED
      BY <3>3, <3>4, <3>6, <3>7, <3>8 DEF Attended
  <2> QED
    BY <2>2, <2>3
<1>4. CASE LostRows(w) \/ LostFails(w)
  <2> DEFINE r == lost[w]
  <2> SUFFICES ASSUME NEW s \in Session, NEW u \in Person, OpenRow(s, u) \in rows'
               PROVE  Attended(s, u)'
    BY DEF RowsAttended, OpenRow
  <2>1. OpenRow(s, u) \in rows
    BY <1>4 DEF LostRows, LostFails, RowsClosed
  <2>2. Attended(s, u)
    BY <2>1 DEF RowsAttended
  <2>3. s = r /\ u = p => OpenRow(s, u) \in leaked'
    BY <1>4, <2>1 DEF LostRows, LostFails, RowsClosed, Forgotten, OpenRow
  <2>4. OpenRow(s, u) \in leaked => OpenRow(s, u) \in leaked'
    BY <1>4 DEF LostRows, LostFails, RowsClosed, Forgotten
  <2>5. UNCHANGED <<registry, leave, stale, ending>> /\ \A v \in Watcher : v # w => lost'[v] = lost[v]
    BY <1>4 DEF LostRows, LostFails, ObserverShape
  <2>6. ASSUME Closing(s, u), ~(s = r /\ u = p)
        PROVE  Closing(s, u)'
    BY <2>5, <2>6 DEF Closing, OpenRow
  <2> QED
    BY <2>2, <2>3, <2>4, <2>5, <2>6 DEF Attended, On, OpenRow
<1> QED
  BY <1>1, <1>2, <1>3, <1>4 DEF LostStep

LEMMA StaleRowsStep ==
  ASSUME RowsInv, StaleStep
  PROVE  RowsAttended'
<1> USE DEF RowsInv, history
<1>1. ASSUME NEW r \in Session, NEW p \in Person, Stale(r, p)
      PROVE  RowsAttended'
  <2>1. UNCHANGED <<rows, leaked, leave, lost, ending>> /\ stale' = OpenRow(r, p)
    BY <1>1 DEF Stale
  <2>2. \A s \in Session, v \in Person : v \in On(s) => v \in On(s)' \/ (s = r /\ v = p)
    BY <1>1, RemovedObservers DEF Stale
  <2> SUFFICES ASSUME NEW s \in Session, NEW u \in Person, OpenRow(s, u) \in rows
               PROVE  Attended(s, u)'
    BY <2>1 DEF RowsAttended, OpenRow
  <2>3. Attended(s, u)
    BY DEF RowsAttended
  <2>4. stale # OpenRow(s, u)
    BY <1>1, ObserverConstantsAssumption DEF Stale, NoStale, OpenRow
  <2>5. Closing(s, u) => Closing(s, u)'
    BY <2>1, <2>4 DEF Closing
  <2>6. Closing(r, p)'
    BY <2>1 DEF Closing, OpenRow
  <2> QED
    BY <2>1, <2>2, <2>3, <2>5, <2>6 DEF Attended, OpenRow
<1>2. CASE StaleRows \/ StaleFails
  <2> SUFFICES ASSUME NEW s \in Session, NEW u \in Person, OpenRow(s, u) \in rows'
               PROVE  Attended(s, u)'
    BY DEF RowsAttended, OpenRow
  <2>1. OpenRow(s, u) \in rows
    BY <1>2 DEF StaleRows, StaleFails, RowsClosed
  <2>2. Attended(s, u)
    BY <2>1 DEF RowsAttended
  <2>3. stale = OpenRow(s, u) => OpenRow(s, u) \in leaked'
    BY <1>2, <2>1 DEF StaleRows, StaleFails, RowsClosed, Forgotten, OpenRow
  <2>4. OpenRow(s, u) \in leaked => OpenRow(s, u) \in leaked'
    BY <1>2 DEF StaleRows, StaleFails, RowsClosed, Forgotten
  <2>5. UNCHANGED <<registry, leave, lost, ending>>
    BY <1>2 DEF StaleRows, StaleFails
  <2>6. Closing(s, u) => Closing(s, u)' \/ stale = OpenRow(s, u)
    BY <2>5 DEF Closing
  <2> QED
    BY <2>2, <2>3, <2>4, <2>5, <2>6 DEF Attended, On, OpenRow
<1> QED
  BY <1>1, <1>2 DEF StaleStep

(***************************************************************************)
(* No row of session_observers stays open unnoticed: but for those the code *)
(* gives up at the places that Forgotten marks, an open row has an observer *)
(* in the registry or a call that is about to close it.                     *)
(***************************************************************************)
THEOREM RowsAlwaysAccounted == ObserverSpec => []RowsAccounted
<1>1. ObserverInit => RowsInv
  BY ObserverTypeInit DEF RowsInv, RowsAttended, HandledOnce, ObserverInit
<1>2. RowsInv /\ [ObserverNext]_observerVars => RowsInv'
  <2> SUFFICES ASSUME RowsInv, [ObserverNext]_observerVars
               PROVE  RowsAttended'
    BY ObserverTypeStep, HandledOnceStep DEF RowsInv
  <2>1. CASE ObserverNext
    BY <2>1, SessionRowsStep, EndRowsStep, JoinRowsStep, LeaveRowsStep, LostRowsStep,
       StaleRowsStep DEF ObserverNext
  <2>2. CASE UNCHANGED observerVars
    <3>1. ClosersKept
      BY <2>2 DEF observerVars, calls, ClosersKept
    <3> QED
      BY <2>2, <3>1, RowsQuiet DEF observerVars, history, On
  <2> QED
    BY <2>1, <2>2
<1>3. RowsInv => RowsAccounted
  BY RowsByNames DEF RowsInv
<1> QED
  BY <1>1, <1>2, <1>3, PTL DEF ObserverSpec

-----------------------------------------------------------------------------
(* The limit of observers *)

(* No session has more observers than MAX_OBSERVERS_PER_SESSION. *)
SeatsBounded == \A s \in Session : IsFiniteSet(On(s)) /\ Cardinality(On(s)) <= MaxObservers

(* A step that seats nobody new. *)
LEMMA SeatsShrink ==
  ASSUME SeatsBounded, \A s \in Session : On(s)' \subseteq On(s)
  PROVE  SeatsBounded'
<1> SUFFICES ASSUME NEW s \in Session
             PROVE  IsFiniteSet(On(s)') /\ Cardinality(On(s)') <= MaxObservers
  BY DEF SeatsBounded
<1>1. IsFiniteSet(On(s)) /\ Cardinality(On(s)) <= MaxObservers /\ MaxObservers \in Nat
  BY ObserverConstantsAssumption DEF SeatsBounded
<1>2. /\ IsFiniteSet(On(s)')
      /\ Cardinality(On(s)') <= Cardinality(On(s))
      /\ Cardinality(On(s)') \in Nat /\ Cardinality(On(s)) \in Nat
  BY <1>1, FS_Subset, FS_CardinalityType
<1> QED
  BY <1>1, <1>2

(* A join takes a seat of its session only, and only where there is room. *)
LEMMA JoinSeat ==
  ASSUME ObserverShape, SeatsBounded, NEW w \in Watcher, NEW s \in Session,
         HasRoom(s), AddObserver(w, s)
  PROVE  SeatsBounded'
<1>1. registry \in [Session -> Entry] /\ PersonOf[w] \in Person
  BY ObserverConstantsAssumption DEF ObserverShape
<1>2. /\ registry'[s].on = [registry[s].on EXCEPT ![PersonOf[w]] = w]
      /\ \A x \in Session \ {s} : registry'[x] = registry[x]
  BY <1>1 DEF AddObserver, Entry
<1>3. On(s)' = On(s) \cup {PersonOf[w]}
  BY <1>1, <1>2, ObserverConstantsAssumption DEF On, Entry
<1>4. \A x \in Session \ {s} : On(x)' = On(x)
  BY <1>2 DEF On
<1>5. /\ IsFiniteSet(On(s)) /\ Cardinality(On(s)) \in Nat
      /\ Cardinality(On(s)) < MaxObservers /\ MaxObservers \in Nat
  BY ObserverConstantsAssumption, FS_CardinalityType DEF SeatsBounded, HasRoom
<1>6. /\ IsFiniteSet(On(s) \cup {PersonOf[w]})
      /\ \/ Cardinality(On(s) \cup {PersonOf[w]}) = Cardinality(On(s))
         \/ Cardinality(On(s) \cup {PersonOf[w]}) = Cardinality(On(s)) + 1
  BY <1>5, FS_AddElement
<1>7. Cardinality(On(s)') <= MaxObservers
  BY <1>3, <1>5, <1>6
<1> QED
  BY <1>3, <1>4, <1>6, <1>7 DEF SeatsBounded

LEMMA SeatsStep ==
  ASSUME ObserverShape, SeatsBounded, ObserverNext
  PROVE  SeatsBounded'
<1>0. registry \in [Session -> Entry]
  BY DEF ObserverShape
<1>1. CASE registry' = registry
  BY <1>1, SeatsShrink DEF On
<1>2. ASSUME NEW s \in Session, NEW u \in Person, registry' = Removed(s, u)
      PROVE  SeatsBounded'
  <2>1. \A x \in Session : On(x)' \subseteq On(x)
    BY <1>0, <1>2 DEF Removed, On, Entry
  <2> QED
    BY <2>1, SeatsShrink
<1>3. ASSUME NEW s \in Session, NEW entry \in Entry,
             registry' = [registry EXCEPT ![s] = entry], entry.on = NoBody
      PROVE  SeatsBounded'
  <2>1. \A x \in Session : On(x)' \subseteq On(x)
    BY <1>0, <1>3 DEF NoBody, On, Entry
  <2> QED
    BY <2>1, SeatsShrink
<1>4. ASSUME NEW k \in Monitored, SessionStep(k)
      PROVE  SeatsBounded'
  <2>1. CASE Register(k)
    <3>1. starting[k] \in Session /\ [kiosk |-> k, on |-> NoBody] \in Entry
      BY <2>1, EntryFresh DEF Register, ObserverShape
    <3> QED
      BY <1>3, <2>1, <3>1 DEF Register
  <2> QED
    BY <1>1, <1>4, <2>1 DEF SessionStep, Start, Stop, Lost, Restore, Timeout
<1>5. ASSUME NEW e \in Ender, EnderStep(e)
      PROVE  SeatsBounded'
  <2>1. CASE EndMark(e)
    <3> DEFINE s == index[ending[e].kiosk]
    <3>1. CASE s = Nil
      BY <1>1, <2>1, <3>1 DEF EndMark
    <3>2. CASE s # Nil
      <4>1. ending[e].kiosk \in Monitored
        BY <2>1, CallStages DEF EndMark, ObserverShape
      <4>2. s \in Session
        BY <3>2, <4>1 DEF ObserverShape
      <4>3. registry' = [registry EXCEPT ![s] = [registry[s] EXCEPT !.on = NoBody]]
        BY <1>0, <2>1, <3>2, <4>2 DEF EndMark
      <4>4. [registry[s] EXCEPT !.on = NoBody] \in Entry /\ [registry[s] EXCEPT !.on = NoBody].on = NoBody
        BY <1>0, <4>2 DEF Entry, NoBody
      <4> QED
        BY <1>3, <4>2, <4>3, <4>4
    <3> QED
      BY <3>1, <3>2
  <2>2. CASE EndClose(e)
    <3>1. ASSUME NEW s \in Session, CloseEntry(s)
          PROVE  SeatsBounded'
      BY <1>3, <3>1, EntryFresh DEF CloseEntry, NoEntry
    <3>2. ending[e].kiosk \in Monitored /\ ending[e].session \in Session
      BY <2>2, CallStages DEF EndClose, ObserverShape
    <3> QED
      BY <1>1, <2>2, <3>1, <3>2 DEF EndClose, ObserverShape
  <2> QED
    BY <1>1, <1>5, <2>1, <2>2 DEF EnderStep, StopRow, LostRow, EndRows, EndRowsFail
<1>6. ASSUME NEW w \in Watcher, JoinStep(w)
      PROVE  SeatsBounded'
  <2>1. ASSUME NEW s \in Session, JoinById(w, s)
        PROVE  SeatsBounded'
    BY <2>1, JoinSeat DEF JoinById, MayObserve
  <2>2. CASE JoinByKiosk(w)
    <3>1. join[w].kiosk \in Monitored
      BY <2>2, CallStages DEF JoinByKiosk, ObserverShape
    <3>2. index[join[w].kiosk] \in Session \cup {Nil}
      BY <3>1 DEF ObserverShape
    <3> QED
      BY <1>1, <2>2, <3>2, JoinSeat DEF JoinByKiosk, MayObserve
  <2> QED
    BY <1>1, <1>6, <2>1, <2>2 DEF JoinStep, JoinLookup, JoinInsert, JoinFails, JoinDone
<1>7. ASSUME NEW w \in Watcher, LeaveStep(w) \/ LostStep(w)
      PROVE  SeatsBounded'
  <2>0. PersonOf[w] \in Person
    BY ObserverConstantsAssumption
  <2>1. ASSUME NEW s \in Session, Leave(w, s)
        PROVE  SeatsBounded'
    BY <1>2, <2>0, <2>1 DEF Leave
  <2>2. CASE LostObserver(w)
    <3>1. observing[w] \in Session
      BY <2>2 DEF LostObserver, ObserverShape
    <3> QED
      BY <1>1, <1>2, <2>0, <2>2, <3>1 DEF LostObserver
  <2>3. CASE LostUnflagged(w)
    <3>1. \A s \in Session : On(s)' \subseteq On(s)
      BY <1>0, <2>0, <2>3 DEF LostUnflagged, On, Entry
    <3> QED
      BY <3>1, SeatsShrink
  <2> QED
    BY <1>1, <1>7, <2>1, <2>2, <2>3
    DEF LeaveStep, LeaveRows, LeaveFails, LeaveDone, LostStep, WatcherDisconnect, LostRows, LostFails
<1>8. CASE StaleStep
  BY <1>1, <1>2, <1>8 DEF StaleStep, Stale, StaleRows, StaleFails
<1> QED
  BY <1>4, <1>5, <1>6, <1>7, <1>8 DEF ObserverNext

(***************************************************************************)
(* joinAsObserver looks for room and takes it with no query in between, so  *)
(* joins that overlap, by id and after a lookup, never fill a session above *)
(* its limit, whatever starts, ends and leaves meanwhile.                   *)
(***************************************************************************)
THEOREM ObserversBounded == ObserverSpec => []SeatsBounded
<1>1. ObserverInit => SeatsBounded
  <2> SUFFICES ASSUME ObserverInit, NEW s \in Session
               PROVE  IsFiniteSet(On(s)) /\ Cardinality(On(s)) <= MaxObservers
    BY DEF SeatsBounded
  <2>1. On(s) = {}
    BY DEF ObserverInit, On, NoEntry, NoBody
  <2> QED
    BY <2>1, FS_EmptySet, ObserverConstantsAssumption
<1>2. ObserverShape /\ SeatsBounded /\ [ObserverNext]_observerVars => SeatsBounded'
  <2>1. ASSUME ObserverShape, SeatsBounded, UNCHANGED observerVars
        PROVE  SeatsBounded'
    BY <2>1 DEF observerVars, SeatsBounded, On
  <2> QED
    BY <2>1, SeatsStep
<1>3. ObserverSpec => []ObserverShape
  BY ObserverTypeCorrect, ObserverShapeIsType, PTL
<1> QED
  BY <1>1, <1>2, <1>3, PTL DEF ObserverSpec

=============================================================================
