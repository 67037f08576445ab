------------------------ MODULE DeviceSessionsProofs ------------------------
(***************************************************************************)
(* Proofs about DeviceSessions, for every set of connections, users,        *)
(* devices and calls in flight, and every bound on rows, restarts and       *)
(* failures: type correctness, the refinement of the lock, who ends a row,  *)
(* and that no field monitor's row is left unattended.                      *)
(***************************************************************************)
EXTENDS DeviceSessions, TLAPS

-----------------------------------------------------------------------------
(* Type correctness *)

(* A call of endMonitoringSession that is in flight names a device. *)
EndsNameDevice == \A e \in EndTask : end[e].stage # "idle" => end[e].device \in Device

StartCall == [stage : {"idle", "found", "insert"},
              device : Device \cup {Null},
              found : User \cup {Null}]

EndCall == [stage : {"idle", "lookup", "update", "release"},
            device : Device \cup {Null},
            row : RowRef \cup {Null}]

SweepCall == [stage : {"idle", "lookup", "update", "release", "failed"},
              rows : SUBSET RowRef, row : RowRef \cup {Null}]

(***************************************************************************)
(* The calls nothing has been read for, and the key of an ACTIVE row.       *)
(***************************************************************************)
LEMMA FreshCalls ==
  /\ NoStart \in StartCall
  /\ NoEnd \in EndCall
  /\ \A d \in Device : EndOf(d) \in EndCall
  /\ NoSweep \in SweepCall
  /\ [NoSweep EXCEPT !.stage = "lookup"] \in SweepCall
  /\ [NoSweep EXCEPT !.stage = "failed"] \in SweepCall
  BY DEF NoStart, StartCall, NoEnd, EndOf, EndCall, NoSweep, SweepCall

LEMMA ActiveRef ==
  ASSUME DevTypeOK, NEW d \in Device, active[d] # Null
  PROVE  active[d] \in Row /\ RefOf(d) \in RowRef
  BY DEF DevTypeOK, Row, RefOf, RowRef

(***************************************************************************)
(* An update by key leaves each device its row or takes it away.            *)
(***************************************************************************)
LEMMA EndedRows ==
  ASSUME DevTypeOK, NEW ref
  PROVE  /\ Ended(ref) \in [Device -> Row \cup {Null}]
         /\ \A d \in Device :
              Ended(ref)[d] = IF d = ref.device /\ active[d] # Null /\ active[d].id = ref.id
                                THEN Null ELSE active[d]
  BY DEF DevTypeOK, Ended

(***************************************************************************)
(* The steps of a connection and its presence row.                          *)
(***************************************************************************)
LEMMA SocketTypeStep ==
  ASSUME DevTypeOK, NEW m \in DevSocket, SocketStep(m)
  PROVE  DevTypeOK'
<1> USE DeviceConstantsAssumption, FreshCalls
    DEF DevTypeOK, SocketPhase, memory, database, tasks, incidents, StartCall, EndCall, SweepCall
<1>1. CASE DevConnect(m)
  BY <1>1 DEF DevConnect
<1>2. CASE RegisterMonitor(m)
  BY <1>2 DEF RegisterMonitor
<1>3. CASE Heartbeat(m)
  BY <1>3 DEF Heartbeat
<1>4. CASE DevDisconnect(m)
  BY <1>4 DEF DevDisconnect
<1>5. CASE MarkOffline(m)
  BY <1>5 DEF MarkOffline, Offline
<1>6. CASE Cleanup(m)
  <2>1. devSession' \in [Device -> DevSocket \cup {Null}]
    BY <1>6 DEF Cleanup
  <2>2. cached' \in [User -> SUBSET Device]
    BY <1>6 DEF Cleanup, OwnedBy
  <2>3. sweep' \in [DevSocket -> SweepCall]
    BY <1>6 DEF Cleanup
  <2> QED
    BY <1>6, <2>1, <2>2, <2>3 DEF Cleanup
<1>7. CASE DevCleanupFails(m)
  BY <1>7 DEF DevCleanupFails, QueryFails
<1> QED
  BY <1>1, <1>2, <1>3, <1>4, <1>5, <1>6, <1>7 DEF SocketStep

(***************************************************************************)
(* The steps of start-monitoring and of the restore.                        *)
(***************************************************************************)
LEMMA StartTypeStep ==
  ASSUME DevTypeOK, NEW m \in DevSocket, StartStep(m)
  PROVE  DevTypeOK'
<1> USE DeviceConstantsAssumption, FreshCalls
    DEF DevTypeOK, memory, database, tasks, incidents, StartCall, EndCall, SweepCall
<1>1. CASE StartDecide(m)
  <2>1. start' \in [DevSocket -> StartCall]
    BY <1>1 DEF StartDecide
  <2>2. devSession' \in [Device -> DevSocket \cup {Null}]
    BY <1>1 DEF StartDecide
  <2> QED
    BY <1>1, <2>1, <2>2 DEF StartDecide
<1>2. CASE StartInsert(m)
  <2>1. rowCount' \in 0 .. MaxRow /\ rowCount + 1 \in 1 .. MaxRow
    BY <1>2 DEF StartInsert
  <2>2. active' \in [Device -> Row \cup {Null}]
    BY <1>2, <2>1 DEF StartInsert, Row
  <2> QED
    BY <1>2, <2>1, <2>2 DEF StartInsert
<1>3. CASE StartFails(m)
  BY <1>3 DEF StartFails, QueryFails
<1>4. CASE RestoreSession(m)
  BY <1>4 DEF RestoreSession
<1>5. ASSUME NEW d \in Device, StartLookup(m, d)
      PROVE  DevTypeOK'
  <2>1. HolderOf(d) \in User \cup {Null}
    BY DEF HolderOf, Row
  <2> QED
    BY <1>5, <2>1 DEF StartLookup
<1>6. ASSUME NEW d \in Device, RestoreLookup(m, d)
      PROVE  DevTypeOK'
  BY <1>6 DEF RestoreLookup
<1> QED
  BY <1>1, <1>2, <1>3, <1>4, <1>5, <1>6 DEF StartStep

(***************************************************************************)
(* The steps of endMonitoringSession.                                       *)
(***************************************************************************)
LEMMA EndTypeStep ==
  ASSUME DevTypeOK, EndsNameDevice, NEW e \in EndTask, EndStep(e)
  PROVE  DevTypeOK' /\ EndsNameDevice'
<1> USE DeviceConstantsAssumption, FreshCalls
    DEF DevTypeOK, EndsNameDevice, memory, database, tasks, incidents,
        StartCall, EndCall, SweepCall, NoEnd, EndOf
<1>1. CASE EndLookup(e)
  <2>1. end[e].device \in Device
    BY <1>1 DEF EndLookup
  <2>2. active[end[e].device] # Null => RefOf(end[e].device) \in RowRef
    BY <2>1, ActiveRef
  <2>3. end' \in [EndTask -> EndCall]
    <3> DEFINE read == IF active[end[e].device] = Null
                         THEN [end[e] EXCEPT !.stage = "release"]
                         ELSE [end[e] EXCEPT !.stage = "update", !.row = RefOf(end[e].device)]
    <3>1. end[e] \in EndCall
      OBVIOUS
    <3>2. read \in EndCall
      BY <2>2, <3>1
    <3> QED
      BY <1>1, <3>2 DEF EndLookup
  <2>4. EndsNameDevice'
    BY <1>1, <2>1 DEF EndLookup
  <2> QED
    BY <1>1, <2>3, <2>4 DEF EndLookup
<1>2. CASE EndUpdate(e)
  <2>1. active' \in [Device -> Row \cup {Null}]
    BY <1>2, EndedRows DEF EndUpdate
  <2> QED
    BY <1>2, <2>1 DEF EndUpdate
<1>3. CASE EndRelease(e)
  BY <1>3 DEF EndRelease
<1>4. CASE EndFails(e)
  BY <1>4 DEF EndFails, QueryFails
<1>5. ASSUME NEW d \in Device, KioskLost(e, d)
      PROVE  DevTypeOK' /\ EndsNameDevice'
  BY <1>5 DEF KioskLost
<1>6. ASSUME NEW d \in Device, NEW m \in DevSocket,
             DevStopMonitoring(e, m, d) \/ DevForceStop(e, m, d)
      PROVE  DevTypeOK' /\ EndsNameDevice'
  <2>1. /\ end' = [end EXCEPT ![e] = EndOf(d)]
        /\ UNCHANGED <<devPhase, memory, database, start, restore, sweep, incidents>>
    BY <1>6 DEF DevStopMonitoring, DevForceStop
  <2>2. EndOf(d) \in EndCall
    BY FreshCalls
  <2>3. end' \in [EndTask -> EndCall]
    BY <2>1, <2>2
  <2> QED
    BY <2>1, <2>3
<1> QED
  BY <1>1, <1>2, <1>3, <1>4, <1>5, <1>6 DEF EndStep

(***************************************************************************)
(* The steps of endSessionsByMonitorUser and of the presence checker.       *)
(***************************************************************************)
LEMMA SweepTypeStep ==
  ASSUME DevTypeOK, NEW m \in DevSocket, TimerSweep(m) \/ SweepRow(m)
  PROVE  DevTypeOK'
<1> USE DeviceConstantsAssumption, FreshCalls
    DEF DevTypeOK, memory, database, tasks, incidents, StartCall, EndCall, SweepCall
<1>1. CASE TimerSweep(m)
  BY <1>1 DEF TimerSweep
<1>2. CASE SweepLookup(m)
  <2> DEFINE mine == {d \in Device : active[d] # Null /\ active[d].user = UserOf[m]}
  <2>1. {RefOf(d) : d \in mine} \in SUBSET RowRef
    BY ActiveRef
  <2>2. sweep' \in [DevSocket -> SweepCall]
    BY <1>2, <2>1 DEF SweepLookup
  <2> QED
    BY <1>2, <2>2 DEF SweepLookup
<1>3. CASE SweepUpdate(m)
  <2> PICK ref \in sweep[m].rows :
        /\ active' = Ended(ref)
        /\ sweep' = [sweep EXCEPT ![m].stage = "release", ![m].row = ref]
    BY <1>3 DEF SweepUpdate
  <2>1. active' \in [Device -> Row \cup {Null}]
    BY EndedRows
  <2>2. sweep' \in [DevSocket -> SweepCall]
    OBVIOUS
  <2> QED
    BY <1>3, <2>1, <2>2 DEF SweepUpdate
<1>4. CASE SweepRelease(m)
  <2>1. sweep' \in [DevSocket -> SweepCall]
    BY <1>4 DEF SweepRelease
  <2> QED
    BY <1>4, <2>1 DEF SweepRelease
<1>5. CASE SweepFails(m)
  <2>1. sweep' \in [DevSocket -> SweepCall]
    BY <1>5 DEF SweepFails
  <2>2. failures' \in 0 .. MaxFailure
    BY <1>5 DEF SweepFails, QueryFails
  <2> QED
    BY <1>5, <2>1, <2>2 DEF SweepFails
<1> QED
  BY <1>1, <1>2, <1>3, <1>4, <1>5 DEF SweepRow

(***************************************************************************)
(* A restart leaves the database, and no call in flight.                    *)
(***************************************************************************)
LEMMA RestartTypeStep ==
  ASSUME DevTypeOK, Restart
  PROVE  DevTypeOK' /\ EndsNameDevice'
  BY DeviceConstantsAssumption, FreshCalls
  DEF DevTypeOK, EndsNameDevice, SocketPhase, database, NoEnd, StartCall, EndCall,
      SweepCall, Restart

LEMMA DevTypeStep ==
  DevTypeOK /\ EndsNameDevice /\ [DevNext]_devVars => DevTypeOK' /\ EndsNameDevice'
<1> SUFFICES ASSUME DevTypeOK, EndsNameDevice, [DevNext]_devVars
             PROVE  DevTypeOK' /\ EndsNameDevice'
  OBVIOUS
<1>1. ASSUME NEW m \in DevSocket,
             SocketStep(m) \/ StartStep(m) \/ TimerSweep(m) \/ SweepRow(m)
      PROVE  DevTypeOK' /\ EndsNameDevice'
  <2>1. DevTypeOK'
    BY <1>1, SocketTypeStep, StartTypeStep, SweepTypeStep
  <2>2. end' = end
    BY <1>1 DEF tasks, SocketStep, DevConnect, RegisterMonitor, Heartbeat, DevDisconnect,
                MarkOffline, Cleanup, DevCleanupFails, StartStep, StartLookup, StartDecide,
                StartInsert, StartFails, RestoreLookup, RestoreSession, TimerSweep,
                SweepRow, SweepLookup, SweepUpdate, SweepRelease, SweepFails
  <2> QED
    BY <2>1, <2>2 DEF EndsNameDevice
<1>2. ASSUME NEW e \in EndTask, EndStep(e)
      PROVE  DevTypeOK' /\ EndsNameDevice'
  BY <1>2, EndTypeStep
<1>3. ASSUME NEW d \in Device, KioskSilent(d)
      PROVE  DevTypeOK' /\ EndsNameDevice'
  BY <1>3 DEF KioskSilent, DevTypeOK, EndsNameDevice, database, tasks, incidents
<1>4. CASE Restart
  BY <1>4, RestartTypeStep
<1>5. CASE UNCHANGED devVars
  BY <1>5 DEF devVars, memory, database, tasks, incidents, DevTypeOK, EndsNameDevice,
              Row, RowRef
<1> QED
  BY <1>1, <1>2, <1>3, <1>4, <1>5 DEF DevNext

LEMMA DevShape == DevSpec => [](DevTypeOK /\ EndsNameDevice)
<1>1. DevInit => DevTypeOK /\ EndsNameDevice
  BY DeviceConstantsAssumption
  DEF DevInit, DevTypeOK, EndsNameDevice, SocketPhase, NoStart, NoEnd, NoSweep
<1> QED
  BY <1>1, DevTypeStep, PTL DEF DevSpec

(***************************************************************************)
(* Rows, presence, sessions and calls in flight always have the shape the   *)
(* handlers of realtime.manager.js rely on.                                 *)
(***************************************************************************)
THEOREM DevTypeCorrect == DevSpec => []DevTypeOK
BY DevShape, PTL

-----------------------------------------------------------------------------
(* The sessions implement the lock *)

(***************************************************************************)
(* A start-monitoring or a restore in flight is that of a socket that has   *)
(* connected, and a start names a device: what makes a session that such a  *)
(* call creates a lock taken by a contender.                                *)
(***************************************************************************)
CallsConnected ==
  \A m \in DevSocket :
    /\ start[m].stage # "idle" => start[m].device \in Device /\ devPhase[m] # "new"
    /\ restore[m] # Null => devPhase[m] # "new"

(***************************************************************************)
(* Nothing makes a socket new again, and calls begin with MayRun.           *)
(***************************************************************************)
LEMMA CallsStep ==
  DevTypeOK /\ CallsConnected /\ [DevNext]_devVars => CallsConnected'
<1> SUFFICES ASSUME DevTypeOK, CallsConnected, [DevNext]_devVars
             PROVE  CallsConnected'
  OBVIOUS
<1> USE DEF DevTypeOK, CallsConnected, memory, database, tasks, incidents, NoStart
<1>1. ASSUME NEW m \in DevSocket, SocketStep(m)
      PROVE  CallsConnected'
  BY <1>1 DEF SocketStep, DevConnect, RegisterMonitor, Heartbeat, DevDisconnect, MarkOffline,
              Cleanup, DevCleanupFails
<1>2. ASSUME NEW m \in DevSocket, StartStep(m)
      PROVE  CallsConnected'
  <2>1. CASE StartDecide(m)
    BY <2>1 DEF StartDecide
  <2>2. CASE StartInsert(m) \/ StartFails(m) \/ RestoreSession(m)
    BY <2>2 DEF StartInsert, StartFails, RestoreSession
  <2>3. ASSUME NEW d \in Device, StartLookup(m, d) \/ RestoreLookup(m, d)
        PROVE  CallsConnected'
    BY <2>3 DEF StartLookup, RestoreLookup, MayRun
  <2> QED
    BY <1>2, <2>1, <2>2, <2>3 DEF StartStep
<1>3. CASE UNCHANGED <<devPhase, start, restore>>
  BY <1>3
<1>4. ASSUME NEW m \in DevSocket, TimerSweep(m) \/ SweepRow(m)
      PROVE  UNCHANGED <<devPhase, start, restore>>
  BY <1>4 DEF TimerSweep, SweepRow, SweepLookup, SweepUpdate, SweepRelease, SweepFails
<1>5. ASSUME NEW e \in EndTask, EndStep(e)
      PROVE  UNCHANGED <<devPhase, start, restore>>
  BY <1>5 DEF EndStep, EndLookup, EndUpdate, EndRelease, EndFails, KioskLost,
              DevStopMonitoring, DevForceStop
<1>6. ASSUME NEW d \in Device, KioskSilent(d)
      PROVE  UNCHANGED <<devPhase, start, restore>>
  BY <1>6 DEF KioskSilent
<1>7. CASE Restart
  BY <1>7 DEF Restart
<1>8. CASE UNCHANGED devVars
  BY <1>3, <1>8 DEF devVars
<1> QED
  BY <1>1, <1>2, <1>3, <1>4, <1>5, <1>6, <1>7, <1>8 DEF DevNext

(***************************************************************************)
(* Sessions of some devices that end, nothing else of the lock changing,    *)
(* are a release.                                                           *)
(***************************************************************************)
LEMMA DeviceReleaseStep ==
  ASSUME NEW ds \in SUBSET Device,
         devSession' = [d \in Device |-> IF d \in ds THEN Null ELSE devSession[d]],
         \A m \in DevSocket : devPhase'[m] # "new" <=> devPhase[m] # "new"
  PROVE  DeviceLock!Next
<1>1. {m \in DevSocket : devPhase'[m] # "new"} = {m \in DevSocket : devPhase[m] # "new"}
  OBVIOUS
<1>2. DeviceLock!Release(ds)
  BY <1>1 DEF DeviceLock!Release
<1> QED
  BY <1>2 DEF DeviceLock!Next

LEMMA DeviceStutterStep ==
  ASSUME devSession' = devSession,
         \A m \in DevSocket : devPhase'[m] # "new" <=> devPhase[m] # "new"
  PROVE  UNCHANGED DeviceLock!lockVars
<1>1. {m \in DevSocket : devPhase'[m] # "new"} = {m \in DevSocket : devPhase[m] # "new"}
  OBVIOUS
<1> QED
  BY <1>1 DEF DeviceLock!lockVars

(***************************************************************************)
(* A session created where there was none is a lock taken.                  *)
(***************************************************************************)
LEMMA DeviceTakeStep ==
  ASSUME DevTypeOK, NEW m \in DevSocket, NEW d \in Device,
         devPhase[m] # "new", devPhase' = devPhase,
         devSession[d] = Null, devSession' = [devSession EXCEPT ![d] = m]
  PROVE  DeviceLock!Next
<1>1. DeviceLock!Take(m, d)
  BY DEF DeviceLock!Take, DeviceLock!Free
<1> QED
  BY <1>1 DEF DeviceLock!Next

(***************************************************************************)
(* Connections arrive, starts and restores take what is free, and all that  *)
(* ends a session releases.                                                 *)
(***************************************************************************)
LEMMA DeviceLockStep ==
  DevTypeOK /\ CallsConnected /\ [DevNext]_devVars => [DeviceLock!Next]_(DeviceLock!lockVars)
<1> SUFFICES ASSUME DevTypeOK, CallsConnected, [DevNext]_devVars
             PROVE  DeviceLock!Next \/ UNCHANGED DeviceLock!lockVars
  OBVIOUS
<1> DEFINE SameUp == \A m \in DevSocket : devPhase'[m] # "new" <=> devPhase[m] # "new"
           EndsOnly(ds) ==
             devSession' = [d \in Device |-> IF d \in ds THEN Null ELSE devSession[d]]
<1> USE DEF memory, database, tasks, incidents
<1>A. ASSUME NEW x, devSession' = [devSession EXCEPT ![x] = Null], SameUp
      PROVE  DeviceLock!Next
  <2>1. {x} \cap Device \in SUBSET Device /\ EndsOnly({x} \cap Device)
    BY <1>A DEF DevTypeOK
  <2> QED
    BY <1>A, <2>1, DeviceReleaseStep
<1>1. ASSUME NEW m \in DevSocket, SocketStep(m)
      PROVE  DeviceLock!Next \/ UNCHANGED DeviceLock!lockVars
  <2>1. CASE DevConnect(m)
    <3> DEFINE U == {x \in DevSocket : devPhase[x] # "new"}
               V == {x \in DevSocket : devPhase'[x] # "new"}
    <3>1. m \notin U /\ V = U \cup {m} /\ devSession' = devSession
      BY <2>1 DEF DevConnect, DevTypeOK
    <3>2. DeviceLock!Arrive(m)
      BY <3>1 DEF DeviceLock!Arrive
    <3> QED
      BY <3>2 DEF DeviceLock!Next
  <2>2. CASE \/ RegisterMonitor(m) \/ Heartbeat(m) \/ DevDisconnect(m)
             \/ MarkOffline(m) \/ DevCleanupFails(m)
    <3>1. devSession' = devSession /\ SameUp
      BY <2>2 DEF RegisterMonitor, Heartbeat, DevDisconnect, MarkOffline, DevCleanupFails, DevTypeOK
    <3> QED
      BY <3>1, DeviceStutterStep
  <2>3. CASE Cleanup(m)
    <3>1. EndsOnly(OwnedBy(m)) /\ OwnedBy(m) \in SUBSET Device /\ SameUp
      BY <2>3 DEF Cleanup, OwnedBy, DevTypeOK
    <3> QED
      BY <3>1, DeviceReleaseStep
  <2> QED
    BY <1>1, <2>1, <2>2, <2>3 DEF SocketStep
<1>2. ASSUME NEW m \in DevSocket, StartStep(m)
      PROVE  DeviceLock!Next \/ UNCHANGED DeviceLock!lockVars
  <2>0. devPhase' = devPhase
    BY <1>2 DEF StartStep, StartLookup, StartDecide, StartInsert, StartFails,
                RestoreLookup, RestoreSession
  <2>1. CASE devSession' = devSession
    BY <2>0, <2>1, DeviceStutterStep
  <2>2. CASE StartDecide(m) /\ devSession' # devSession
    <3> DEFINE d == start[m].device
    <3>1. d \in Device /\ devPhase[m] # "new"
      BY <2>2 DEF StartDecide, CallsConnected
    <3>2. devSession' = [devSession EXCEPT ![d] = m] /\ devSession[d] \in {Null, m}
      BY <2>2 DEF StartDecide
    <3>3. devSession[d] = Null
      BY <2>2, <3>1, <3>2 DEF DevTypeOK
    <3> QED
      BY <2>0, <3>1, <3>2, <3>3, DeviceTakeStep
  <2>3. CASE RestoreSession(m) /\ devSession' # devSession
    <3> DEFINE d == restore[m]
    <3>1. d \in Device /\ devPhase[m] # "new"
      BY <2>3 DEF RestoreSession, CallsConnected, DevTypeOK
    <3>2. devSession' = [devSession EXCEPT ![d] = IF devSession[d] = Null THEN m ELSE devSession[d]]
      BY <2>3 DEF RestoreSession
    <3>3. devSession[d] = Null
      BY <2>3, <3>1, <3>2 DEF DevTypeOK
    <3> QED
      BY <2>0, <3>1, <3>2, <3>3, DeviceTakeStep
  <2> QED
    BY <1>2, <2>1, <2>2, <2>3 DEF StartStep, StartLookup, StartInsert, StartFails, RestoreLookup
<1>3. ASSUME NEW m \in DevSocket, TimerSweep(m) \/ SweepRow(m)
      PROVE  DeviceLock!Next \/ UNCHANGED DeviceLock!lockVars
  <2>1. CASE SweepRelease(m)
    BY <1>A, <2>1 DEF SweepRelease
  <2>2. CASE TimerSweep(m) \/ SweepLookup(m) \/ SweepUpdate(m) \/ SweepFails(m)
    BY <2>2, DeviceStutterStep DEF TimerSweep, SweepLookup, SweepUpdate, SweepFails
  <2> QED
    BY <1>3, <2>1, <2>2 DEF SweepRow
<1>4. ASSUME NEW e \in EndTask, EndStep(e)
      PROVE  DeviceLock!Next \/ UNCHANGED DeviceLock!lockVars
  <2>1. CASE EndRelease(e)
    BY <1>A, <2>1 DEF EndRelease
  <2>2. CASE \E d \in Device : KioskLost(e, d)
    BY <1>A, <2>2 DEF KioskLost
  <2>3. CASE devSession' = devSession /\ devPhase' = devPhase
    BY <2>3, DeviceStutterStep
  <2> QED
    BY <1>4, <2>1, <2>2, <2>3
    DEF EndStep, EndLookup, EndUpdate, EndFails, DevStopMonitoring, DevForceStop
<1>5. ASSUME NEW d \in Device, KioskSilent(d)
      PROVE  DeviceLock!Next
  BY <1>A, <1>5 DEF KioskSilent
<1>6. CASE Restart
  <2>1. EndsOnly(Device) /\ SameUp
    BY <1>6 DEF Restart, DevTypeOK
  <2> QED
    BY <2>1, DeviceReleaseStep
<1>7. CASE UNCHANGED devVars
  BY <1>7, DeviceStutterStep DEF devVars
<1> QED
  BY <1>1, <1>2, <1>3, <1>4, <1>5, <1>6, <1>7 DEF DevNext

(***************************************************************************)
(* However lookups, inserts, restores, sweeps and restarts interleave, a    *)
(* device is monitored by one socket at a time, and passes to another only  *)
(* by being free in between: the sessions in memory implement the lock.     *)
(***************************************************************************)
THEOREM DeviceLockRefined == DevSpec => DeviceLockSpec
<1>1. DevInit => DeviceLock!Init
  BY DEF DevInit, DeviceLock!Init
<1>2. DevInit => CallsConnected
  BY DEF DevInit, CallsConnected, NoStart
<1> QED
  BY <1>1, <1>2, CallsStep, DeviceLockStep, DevShape, PTL
  DEF DevSpec, DeviceLockSpec, DeviceLock!Spec

-----------------------------------------------------------------------------
(* Who ends a row *)

(***************************************************************************)
(* The key a call holds belongs to one row only: rows are numbered, an      *)
(* insert takes the next number, and a key names a row that has been        *)
(* inserted.  The row a sweep's key names, while it is ACTIVE, is one of    *)
(* the sweep's own user.                                                    *)
(***************************************************************************)
RowsNumbered == \A d \in Device : active[d] # Null => active[d].id <= rowCount

SweepsNumbered == \A m \in DevSocket : \A ref \in sweep[m].rows : ref.id <= rowCount

SweepsOwnRows ==
  \A m \in DevSocket, d \in Device :
    active[d] # Null /\ RefOf(d) \in sweep[m].rows => active[d].user = UserOf[m]

EndsHoldRow ==
  \A e \in EndTask : end[e].stage = "update" => end[e].row \in RowRef

KeyInv == RowsNumbered /\ SweepsNumbered /\ SweepsOwnRows /\ EndsHoldRow

(***************************************************************************)
(* What a step may do to the rows: none, one inserted, or some ended.       *)
(***************************************************************************)
RowsEndOnly ==
  /\ rowCount' = rowCount
  /\ \A d \in Device : active'[d] \in {Null, active[d]}

LEMMA EndedEndsOnly ==
  ASSUME DevTypeOK, NEW ref, active' = Ended(ref), rowCount' = rowCount
  PROVE  RowsEndOnly
  BY EndedRows DEF RowsEndOnly

(***************************************************************************)
(* Steps other than a start's leave the rows alone or end some.             *)
(***************************************************************************)
LEMMA RowsStep ==
  ASSUME DevTypeOK, [DevNext]_devVars,
         ~(\E m \in DevSocket : StartInsert(m))
  PROVE  RowsEndOnly
<1> USE DEF memory, database, tasks, incidents
<1>0. CASE active' = active /\ rowCount' = rowCount
  BY <1>0 DEF RowsEndOnly
<1>1. ASSUME NEW m \in DevSocket, SocketStep(m)
      PROVE  RowsEndOnly
  BY <1>0, <1>1 DEF SocketStep, DevConnect, RegisterMonitor, Heartbeat, DevDisconnect, MarkOffline,
                    Cleanup, DevCleanupFails
<1>2. ASSUME NEW m \in DevSocket, StartStep(m)
      PROVE  RowsEndOnly
  BY <1>0, <1>2 DEF StartStep, StartLookup, StartDecide, StartFails, RestoreLookup,
                    RestoreSession
<1>3. ASSUME NEW m \in DevSocket, TimerSweep(m) \/ SweepRow(m)
      PROVE  RowsEndOnly
  <2>1. CASE SweepUpdate(m)
    BY <2>1, EndedEndsOnly DEF SweepUpdate
  <2> QED
    BY <1>0, <1>3, <2>1 DEF TimerSweep, SweepRow, SweepLookup, SweepRelease, SweepFails
<1>4. ASSUME NEW e \in EndTask, EndStep(e)
      PROVE  RowsEndOnly
  <2>1. CASE EndUpdate(e)
    BY <2>1, EndedEndsOnly DEF EndUpdate
  <2> QED
    BY <1>0, <1>4, <2>1 DEF EndStep, EndLookup, EndRelease, EndFails, KioskLost,
                            DevStopMonitoring, DevForceStop
<1>5. ASSUME NEW d \in Device, KioskSilent(d)
      PROVE  RowsEndOnly
  BY <1>0, <1>5 DEF KioskSilent
<1>6. CASE Restart
  BY <1>0, <1>6 DEF Restart
<1>7. CASE UNCHANGED devVars
  BY <1>0, <1>7 DEF devVars
<1> QED
  BY <1>1, <1>2, <1>3, <1>4, <1>5, <1>6, <1>7 DEF DevNext

(***************************************************************************)
(* What a step may do to the rows a sweep holds: it reads those of its      *)
(* user, keeps them, or drops some.                                         *)
(***************************************************************************)
MineOf(m) == {d \in Device : active[d] # Null /\ active[d].user = UserOf[m]}

LEMMA SweepRowsStep ==
  ASSUME DevTypeOK, [DevNext]_devVars, NEW m \in DevSocket
  PROVE  \/ sweep'[m].rows \subseteq sweep[m].rows
         \/ /\ sweep'[m].rows = {RefOf(d) : d \in MineOf(m)}
            /\ active' = active /\ rowCount' = rowCount
<1> DEFINE Goal == \/ sweep'[m].rows \subseteq sweep[m].rows
                   \/ /\ sweep'[m].rows = {RefOf(d) : d \in MineOf(m)}
                      /\ active' = active /\ rowCount' = rowCount
<1> USE DEF DevTypeOK, memory, database, tasks, incidents, NoSweep
<1>0. CASE sweep' = sweep
  BY <1>0
<1>1. ASSUME NEW x \in DevSocket, SocketStep(x)
      PROVE  Goal
  BY <1>0, <1>1 DEF SocketStep, DevConnect, RegisterMonitor, Heartbeat, DevDisconnect, MarkOffline,
                    Cleanup, DevCleanupFails
<1>2. ASSUME NEW x \in DevSocket, StartStep(x)
      PROVE  Goal
  BY <1>0, <1>2 DEF StartStep, StartLookup, StartDecide, StartInsert, StartFails,
                    RestoreLookup, RestoreSession
<1>3. ASSUME NEW x \in DevSocket, TimerSweep(x) \/ SweepRow(x)
      PROVE  Goal
  <2>1. CASE SweepLookup(x)
    BY <2>1 DEF SweepLookup, MineOf
  <2>2. CASE SweepUpdate(x)
    BY <2>2 DEF SweepUpdate
  <2>3. CASE SweepRelease(x)
    BY <2>3 DEF SweepRelease
  <2>4. CASE TimerSweep(x) \/ SweepFails(x)
    BY <2>4 DEF TimerSweep, SweepFails
  <2> QED
    BY <1>3, <2>1, <2>2, <2>3, <2>4 DEF SweepRow
<1>4. ASSUME NEW e \in EndTask, EndStep(e)
      PROVE  Goal
  BY <1>0, <1>4 DEF EndStep, EndLookup, EndUpdate, EndRelease, EndFails, KioskLost,
                    DevStopMonitoring, DevForceStop
<1>5. ASSUME NEW d \in Device, KioskSilent(d)
      PROVE  Goal
  BY <1>0, <1>5 DEF KioskSilent
<1>6. CASE Restart
  BY <1>6 DEF Restart
<1>7. CASE UNCHANGED devVars
  BY <1>0, <1>7 DEF devVars
<1> QED
  BY <1>1, <1>2, <1>3, <1>4, <1>5, <1>6, <1>7 DEF DevNext

(***************************************************************************)
(* A call of endMonitoringSession that is about to update has found a row.  *)
(***************************************************************************)
LEMMA EndsHoldStep ==
  ASSUME DevTypeOK, EndsNameDevice, EndsHoldRow, [DevNext]_devVars
  PROVE  EndsHoldRow'
<1> USE DEF DevTypeOK, EndsHoldRow, memory, database, tasks, incidents, NoEnd, EndOf, RowRef
<1>0. CASE end' = end
  BY <1>0
<1>1. ASSUME NEW x \in DevSocket, SocketStep(x) \/ StartStep(x) \/ TimerSweep(x) \/ SweepRow(x)
      PROVE  EndsHoldRow'
  BY <1>0, <1>1 DEF SocketStep, DevConnect, RegisterMonitor, Heartbeat, DevDisconnect, MarkOffline,
                    Cleanup, DevCleanupFails, StartStep, StartLookup, StartDecide, StartInsert,
                    StartFails, RestoreLookup, RestoreSession, TimerSweep, SweepRow,
                    SweepLookup, SweepUpdate, SweepRelease, SweepFails
<1>2. ASSUME NEW e \in EndTask, EndStep(e)
      PROVE  EndsHoldRow'
  <2>1. CASE EndLookup(e)
    <3>1. end[e].device \in Device
      BY <2>1 DEF EndLookup, EndsNameDevice
    <3>2. active[end[e].device] # Null => RefOf(end[e].device) \in RowRef
      BY <3>1, ActiveRef
    <3>3. end'[e].stage = "update" => end'[e].row \in RowRef
      BY <2>1, <3>2 DEF EndLookup
    <3> QED
      BY <2>1, <3>3 DEF EndLookup
  <2>2. CASE EndUpdate(e) \/ EndRelease(e) \/ EndFails(e)
    BY <2>2 DEF EndUpdate, EndRelease, EndFails
  <2>3. ASSUME NEW d \in Device, end' = [end EXCEPT ![e] = EndOf(d)]
        PROVE  EndsHoldRow'
    BY <2>3
  <2> QED
    BY <1>2, <2>1, <2>2, <2>3 DEF EndStep, KioskLost, DevStopMonitoring, DevForceStop
<1>3. ASSUME NEW d \in Device, KioskSilent(d)
      PROVE  EndsHoldRow'
  BY <1>0, <1>3 DEF KioskSilent
<1>4. CASE Restart
  BY <1>4 DEF Restart
<1>5. CASE UNCHANGED devVars
  BY <1>0, <1>5 DEF devVars
<1> QED
  BY <1>1, <1>2, <1>3, <1>4, <1>5 DEF DevNext

LEMMA KeyStep ==
  DevTypeOK /\ EndsNameDevice /\ KeyInv /\ [DevNext]_devVars => KeyInv'
<1> SUFFICES ASSUME DevTypeOK, EndsNameDevice, KeyInv, [DevNext]_devVars
             PROVE  KeyInv'
  OBVIOUS
<1>1. EndsHoldRow'
  BY EndsHoldStep DEF KeyInv
<1>2. CASE \E m \in DevSocket : StartInsert(m)
  <2> PICK m \in DevSocket : StartInsert(m)
    BY <1>2
  <2> DEFINE new == start[m].device
  <2>1. sweep' = sweep /\ rowCount \in Nat /\ rowCount' = rowCount + 1
    BY DeviceConstantsAssumption DEF StartInsert, memory, database, incidents, DevTypeOK
  <2>2. \A d \in Device : d # new => active'[d] = active[d]
    BY DEF StartInsert, DevTypeOK
  <2>3. new \in Device => active'[new].id = rowCount + 1
    BY DEF StartInsert, DevTypeOK
  <2>4. RowsNumbered'
    BY <2>1, <2>2, <2>3 DEF RowsNumbered, KeyInv, DevTypeOK, Row
  <2>5. SweepsNumbered'
    BY <2>1 DEF SweepsNumbered, KeyInv, DevTypeOK, RowRef
  <2>6. ASSUME NEW x \in DevSocket, NEW d \in Device, active'[d] # Null,
               RefOf(d)' \in sweep'[x].rows
        PROVE  active'[d].user = UserOf[x]
    <3>1. d # new
      BY <2>1, <2>3, <2>6 DEF RefOf, KeyInv, SweepsNumbered
    <3> QED
      BY <2>1, <2>2, <2>6, <3>1 DEF RefOf, KeyInv, SweepsOwnRows
  <2> QED
    BY <1>1, <2>4, <2>5, <2>6 DEF KeyInv, SweepsOwnRows
<1>3. CASE RowsEndOnly
  <2>1. RowsNumbered'
    BY <1>3 DEF RowsEndOnly, RowsNumbered, KeyInv
  <2>2. ASSUME NEW m \in DevSocket, NEW ref \in sweep'[m].rows
        PROVE  ref.id <= rowCount'
    <3>1. CASE ref \in sweep[m].rows
      BY <1>3, <3>1 DEF RowsEndOnly, KeyInv, SweepsNumbered
    <3>2. CASE ref \in {RefOf(d) : d \in MineOf(m)}
      BY <1>3, <3>2 DEF RowsEndOnly, KeyInv, RowsNumbered, MineOf, RefOf
    <3> QED
      BY <2>2, <3>1, <3>2, SweepRowsStep
  <2>3. ASSUME NEW m \in DevSocket, NEW d \in Device, active'[d] # Null,
               RefOf(d)' \in sweep'[m].rows
        PROVE  active'[d].user = UserOf[m]
    <3>1. active'[d] = active[d] /\ RefOf(d)' = RefOf(d)
      BY <1>3, <2>3 DEF RowsEndOnly, RefOf
    <3>2. CASE RefOf(d) \in sweep[m].rows
      BY <2>3, <3>1, <3>2 DEF KeyInv, SweepsOwnRows
    <3>3. CASE RefOf(d) \in {RefOf(x) : x \in MineOf(m)}
      BY <3>1, <3>3 DEF MineOf, RefOf
    <3> QED
      BY <2>3, <3>1, <3>2, <3>3, SweepRowsStep
  <2> QED
    BY <1>1, <2>1, <2>2, <2>3 DEF KeyInv, SweepsNumbered, SweepsOwnRows
<1> QED
  BY <1>2, <1>3, RowsStep

(***************************************************************************)
(* A row that disappears is the one a call was about to update.             *)
(***************************************************************************)
LEMMA FinderStep ==
  ASSUME DevTypeOK, KeyInv, [DevNext]_devVars,
         NEW d \in Device, active[d] # Null, active'[d] = Null
  PROVE  \/ \E e \in EndTask : end[e].row = RefOf(d)
         \/ \E m \in DevSocket :
              RefOf(d) \in sweep[m].rows /\ UserOf[m] = active[d].user
<1> DEFINE Goal == \/ \E e \in EndTask : end[e].row = RefOf(d)
                   \/ \E m \in DevSocket :
                        RefOf(d) \in sweep[m].rows /\ UserOf[m] = active[d].user
<1> USE DEF memory, database, tasks, incidents
<1>0. ASSUME NEW ref \in RowRef, active' = Ended(ref)
      PROVE  ref = RefOf(d)
  BY <1>0, EndedRows DEF RowRef, RefOf
<1>1. ASSUME NEW m \in DevSocket, SocketStep(m)
      PROVE  Goal
  BY <1>1 DEF SocketStep, DevConnect, RegisterMonitor, Heartbeat, DevDisconnect, MarkOffline,
              Cleanup, DevCleanupFails
<1>2. ASSUME NEW m \in DevSocket, StartStep(m)
      PROVE  Goal
  <2>1. CASE StartInsert(m)
    BY <2>1 DEF StartInsert, DevTypeOK
  <2> QED
    BY <1>2, <2>1 DEF StartStep, StartLookup, StartDecide, StartFails, RestoreLookup,
                      RestoreSession
<1>3. ASSUME NEW m \in DevSocket, TimerSweep(m) \/ SweepRow(m)
      PROVE  Goal
  <2>1. CASE SweepUpdate(m)
    <3>1. PICK ref \in sweep[m].rows : active' = Ended(ref)
      BY <2>1 DEF SweepUpdate
    <3>2. ref = RefOf(d)
      BY <1>0, <3>1 DEF DevTypeOK
    <3> QED
      BY <3>1, <3>2 DEF KeyInv, SweepsOwnRows
  <2> QED
    BY <1>3, <2>1 DEF TimerSweep, SweepRow, SweepLookup, SweepRelease, SweepFails
<1>4. ASSUME NEW e \in EndTask, EndStep(e)
      PROVE  Goal
  <2>1. CASE EndUpdate(e)
    <3>1. end[e].row \in RowRef /\ active' = Ended(end[e].row)
      BY <2>1 DEF EndUpdate, KeyInv, EndsHoldRow
    <3> QED
      BY <1>0, <3>1
  <2> QED
    BY <1>4, <2>1 DEF EndStep, EndLookup, EndRelease, EndFails, KioskLost,
                      DevStopMonitoring, DevForceStop
<1>5. ASSUME NEW x \in Device, KioskSilent(x)
      PROVE  Goal
  BY <1>5 DEF KioskSilent
<1>6. CASE Restart
  BY <1>6 DEF Restart
<1>7. CASE UNCHANGED devVars
  BY <1>7 DEF devVars
<1> QED
  BY <1>1, <1>2, <1>3, <1>4, <1>5, <1>6, <1>7 DEF DevNext

LEMMA KeysKept == DevSpec => []KeyInv
<1>1. DevInit => KeyInv
  BY DEF DevInit, KeyInv, RowsNumbered, SweepsNumbered, SweepsOwnRows, EndsHoldRow,
         NoEnd, NoSweep
<1> QED
  BY <1>1, DevShape, KeyStep, PTL DEF DevSpec

(***************************************************************************)
(* A stop, a kiosk's loss or a sweep, however long its queries take, ends   *)
(* the row it found and not the one that took its place; a sweep ends rows  *)
(* of its own user only.                                                    *)
(***************************************************************************)
THEOREM RowEndedByFinder == DevSpec => RowEndedByItsFinder
<1>1. DevTypeOK /\ KeyInv /\ [DevNext]_devVars =>
        [\A d \in Device : active[d] # Null /\ active'[d] = Null =>
           \/ \E e \in EndTask : end[e].row = RefOf(d)
           \/ \E m \in DevSocket :
                RefOf(d) \in sweep[m].rows /\ UserOf[m] = active[d].user]_devVars
  BY FinderStep
<1> QED
  BY <1>1, DevShape, KeysKept, PTL DEF DevSpec, RowEndedByItsFinder

-----------------------------------------------------------------------------
(* No field monitor's row is left unattended *)

(***************************************************************************)
(* Not inductive as it stands: a row must be its own user's, for the sweep  *)
(* of the lost connection to find it, and a row a sweep has updated must    *)
(* not be ACTIVE when the sweep drops its key.                              *)
(***************************************************************************)
RowsOfOwners == \A d \in Device : active[d] # Null => active[d].user = UserOf[active[d].by]

SweptRowsGone ==
  \A m \in DevSocket :
    sweep[m].stage = "release" =>
      /\ sweep[m].row \in sweep[m].rows
      /\ \A d \in Device : active[d] # Null => RefOf(d) # sweep[m].row

(***************************************************************************)
(* An insert names the socket and its user.                                 *)
(***************************************************************************)
LEMMA OwnersStep ==
  DevTypeOK /\ RowsOfOwners /\ [DevNext]_devVars => RowsOfOwners'
<1> SUFFICES ASSUME DevTypeOK, RowsOfOwners, [DevNext]_devVars,
                    NEW d \in Device, active'[d] # Null
             PROVE  active'[d].user = UserOf[active'[d].by]
  BY DEF RowsOfOwners
<1>1. CASE \E m \in DevSocket : StartInsert(m)
  BY <1>1 DEF StartInsert, RowsOfOwners, DevTypeOK
<1>2. CASE RowsEndOnly
  BY <1>2 DEF RowsEndOnly, RowsOfOwners
<1> QED
  BY <1>1, <1>2, RowsStep

(***************************************************************************)
(* Two ACTIVE rows at different moments with the same key are one row.      *)
(***************************************************************************)
LEMMA GoneStaysGone ==
  ASSUME DevTypeOK, KeyInv, [DevNext]_devVars,
         NEW m \in DevSocket, NEW ref \in sweep[m].rows,
         \A d \in Device : active[d] # Null => RefOf(d) # ref,
         NEW d \in Device, active'[d] # Null
  PROVE  RefOf(d)' # ref
<1>1. CASE \E x \in DevSocket : StartInsert(x)
  <2> PICK x \in DevSocket : StartInsert(x)
    BY <1>1
  <2>1. CASE d = start[x].device
    <3>1. active'[d].id = rowCount + 1 /\ rowCount \in Nat
      BY <2>1, DeviceConstantsAssumption DEF StartInsert, DevTypeOK
    <3>2. ref.id <= rowCount /\ ref.id \in Nat
      BY DeviceConstantsAssumption DEF KeyInv, SweepsNumbered, DevTypeOK, RowRef
    <3>3. RefOf(d)'.id = rowCount + 1
      BY <3>1 DEF RefOf
    <3> QED
      BY <3>1, <3>2, <3>3
  <2>2. CASE d # start[x].device
    BY <2>2 DEF StartInsert, DevTypeOK, RefOf
  <2> QED
    BY <2>1, <2>2
<1>2. CASE RowsEndOnly
  BY <1>2 DEF RowsEndOnly, RefOf
<1> QED
  BY <1>1, <1>2, RowsStep

(***************************************************************************)
(* A sweep reaches its release by ending the row it holds.                  *)
(***************************************************************************)
LEMMA SweptStep ==
  DevTypeOK /\ KeyInv /\ SweptRowsGone /\ [DevNext]_devVars => SweptRowsGone'
<1> SUFFICES ASSUME DevTypeOK, KeyInv, SweptRowsGone, [DevNext]_devVars,
                    NEW m \in DevSocket, sweep'[m].stage = "release"
             PROVE  /\ sweep'[m].row \in sweep'[m].rows
                    /\ \A d \in Device : active'[d] # Null => RefOf(d)' # sweep'[m].row
  BY DEF SweptRowsGone
<1> DEFINE Goal == /\ sweep'[m].row \in sweep'[m].rows
                   /\ \A d \in Device : active'[d] # Null => RefOf(d)' # sweep'[m].row
<1> USE DEF memory, database, tasks, incidents, NoSweep
<1>0. CASE sweep'[m] = sweep[m]
  <2>1. sweep[m].stage = "release" /\ sweep[m].row \in sweep[m].rows
    BY <1>0 DEF SweptRowsGone
  <2>2. \A d \in Device : active[d] # Null => RefOf(d) # sweep[m].row
    BY <2>1 DEF SweptRowsGone
  <2>3. ASSUME NEW d \in Device, active'[d] # Null
        PROVE  RefOf(d)' # sweep[m].row
    BY <2>1, <2>2, <2>3, GoneStaysGone
  <2> QED
    BY <1>0, <2>1, <2>3
<1>1. ASSUME NEW x \in DevSocket, SocketStep(x)
      PROVE  Goal
  BY <1>0, <1>1 DEF SocketStep, DevConnect, RegisterMonitor, Heartbeat, DevDisconnect, MarkOffline,
                    Cleanup, DevCleanupFails, DevTypeOK
<1>2. ASSUME NEW x \in DevSocket, StartStep(x)
      PROVE  Goal
  BY <1>0, <1>2 DEF StartStep, StartLookup, StartDecide, StartInsert, StartFails,
                    RestoreLookup, RestoreSession
<1>3. ASSUME NEW x \in DevSocket, TimerSweep(x) \/ SweepRow(x)
      PROVE  Goal
  <2>1. CASE SweepUpdate(x) /\ x = m
    <3>1. PICK ref \in sweep[m].rows :
            /\ active' = Ended(ref)
            /\ sweep' = [sweep EXCEPT ![m].stage = "release", ![m].row = ref]
      BY <2>1 DEF SweepUpdate
    <3>2. sweep'[m].row = ref /\ sweep'[m].rows = sweep[m].rows
      BY <3>1 DEF DevTypeOK
    <3>3. ASSUME NEW d \in Device, active'[d] # Null
          PROVE  RefOf(d)' # ref
      <4> SUFFICES ASSUME RefOf(d)' = ref PROVE FALSE
        OBVIOUS
      <4>1. ref.device = d /\ ref.id = active'[d].id
        BY DEF RefOf
      <4>2. active'[d] = active[d]
        BY <3>1, <3>3, EndedRows
      <4> QED
        BY <3>1, <3>3, <4>1, <4>2, EndedRows
    <3> QED
      BY <3>2, <3>3
  <2>2. CASE x # m
    BY <1>0, <1>3, <2>2 DEF TimerSweep, SweepRow, SweepLookup, SweepUpdate, SweepRelease,
                            SweepFails, DevTypeOK
  <2>3. CASE x = m /\ ~SweepUpdate(x)
    <3>1. ~TimerSweep(m) /\ ~SweepFails(m)
      BY DEF TimerSweep, SweepFails, DevTypeOK
    <3>2. ~SweepLookup(m)
      <4> SUFFICES ASSUME SweepLookup(m) PROVE FALSE
        OBVIOUS
      <4> DEFINE next == [sweep[m] EXCEPT !.stage = "update",
                                          !.rows = {RefOf(d) : d \in MineOf(m)}]
      <4>1. sweep'[m] \in {NoSweep, next}
        BY DEF SweepLookup, MineOf, DevTypeOK
      <4>2. next.stage = "update" /\ NoSweep.stage = "idle"
        BY DEF DevTypeOK
      <4> HIDE DEF next
      <4> QED
        BY <4>1, <4>2
    <3>3. ~SweepRelease(m)
      <4> SUFFICES ASSUME SweepRelease(m) PROVE FALSE
        OBVIOUS
      <4> DEFINE next == [stage |-> "update", rows |-> sweep[m].rows \ {sweep[m].row},
                         row |-> Null]
      <4>1. sweep'[m] \in {NoSweep, next}
        BY DEF SweepRelease, DevTypeOK
      <4>2. next.stage = "update" /\ NoSweep.stage = "idle"
        OBVIOUS
      <4> HIDE DEF next
      <4> QED
        BY <4>1, <4>2
    <3> QED
      BY <1>3, <2>3, <3>1, <3>2, <3>3 DEF SweepRow
  <2> QED
    BY <2>1, <2>2, <2>3
<1>4. ASSUME NEW e \in EndTask, EndStep(e)
      PROVE  Goal
  BY <1>0, <1>4 DEF EndStep, EndLookup, EndUpdate, EndRelease, EndFails, KioskLost,
                    DevStopMonitoring, DevForceStop
<1>5. ASSUME NEW d \in Device, KioskSilent(d)
      PROVE  Goal
  BY <1>0, <1>5 DEF KioskSilent
<1>6. CASE Restart
  BY <1>6 DEF Restart
<1>7. CASE UNCHANGED devVars
  BY <1>0, <1>7 DEF devVars
<1> QED
  BY <1>1, <1>2, <1>3, <1>4, <1>5, <1>6, <1>7 DEF DevNext

(***************************************************************************)
(* The row d of a field monitor: whatever a step does, if the row is still  *)
(* there, somebody still attends to it.                                     *)
(***************************************************************************)
LEMMA AttendedStep ==
  ASSUME DevTypeOK, KeyInv, RowsOfOwners, SweptRowsGone, [DevNext]_devVars,
         NEW d \in Device, active[d] # Null, active[d].user \in FieldUser, RowAttended(d),
         active'[d] = active[d]
  PROVE  RowAttended(d)'
<1> DEFINE m == active[d].by
<1> USE DEF memory, database, tasks, incidents, NoSweep
<1>A. m \in DevSocket /\ IsField(m) /\ UserOf[m] = active[d].user
  BY DEF DevTypeOK, Row, RowsOfOwners, IsField
<1>B. RefOf(d)' = RefOf(d) /\ active'[d].by = m
  BY DEF RefOf
<1>0. CASE devPhase'[m] = devPhase[m] /\ sweep'[m] = sweep[m]
  BY <1>0, <1>B DEF RowAttended
<1>1. ASSUME NEW x \in DevSocket, SocketStep(x)
      PROVE  RowAttended(d)'
  <2>1. CASE Cleanup(x) /\ x = m
    <3>1. sweep'[m].stage = "lookup"
      BY <1>A, <2>1 DEF Cleanup, DevTypeOK
    <3> QED
      BY <1>B, <3>1 DEF RowAttended
  <2>2. CASE Cleanup(x) /\ x # m
    BY <1>0, <1>A, <2>2 DEF Cleanup, DevTypeOK
  <2>3. CASE DevConnect(x) \/ DevDisconnect(x) \/ MarkOffline(x) \/ DevCleanupFails(x)
    <3>1. sweep' = sweep
      BY <2>3 DEF DevConnect, DevDisconnect, MarkOffline, DevCleanupFails
    <3>2. devPhase'[m] = devPhase[m] \/ devPhase'[m] # "gone"
      BY <1>A, <2>3 DEF DevConnect, DevDisconnect, MarkOffline, DevCleanupFails, DevTypeOK
    <3> QED
      BY <1>0, <1>B, <3>1, <3>2 DEF RowAttended
  <2>4. CASE RegisterMonitor(x) \/ Heartbeat(x)
    BY <1>0, <2>4 DEF RegisterMonitor, Heartbeat
  <2> QED
    BY <1>1, <2>1, <2>2, <2>3, <2>4 DEF SocketStep
<1>2. ASSUME NEW x \in DevSocket, StartStep(x)
      PROVE  RowAttended(d)'
  BY <1>0, <1>2 DEF StartStep, StartLookup, StartDecide, StartInsert, StartFails,
                    RestoreLookup, RestoreSession
<1>3. ASSUME NEW x \in DevSocket, TimerSweep(x) \/ SweepRow(x)
      PROVE  RowAttended(d)'
  <2>0. devPhase' = devPhase
    BY <1>3 DEF TimerSweep, SweepRow, SweepLookup, SweepUpdate, SweepRelease, SweepFails
  <2>1. CASE x # m
    BY <1>0, <1>3, <1>A, <2>0, <2>1
    DEF TimerSweep, SweepRow, SweepLookup, SweepUpdate, SweepRelease, SweepFails, DevTypeOK
  <2>2. CASE x = m /\ (TimerSweep(x) \/ SweepFails(x))
    <3>1. sweep'[m].stage \in {"lookup", "failed"}
      BY <1>A, <2>2 DEF TimerSweep, SweepFails, DevTypeOK
    <3> QED
      BY <1>B, <3>1 DEF RowAttended
  <2>3. CASE x = m /\ SweepLookup(x)
    <3>1. d \in MineOf(m)
      BY <1>A DEF MineOf
    <3>2. RefOf(d) \in sweep'[m].rows
      BY <1>A, <2>3, <3>1 DEF SweepLookup, MineOf, DevTypeOK
    <3> QED
      BY <1>B, <3>2 DEF RowAttended
  <2>4. CASE x = m /\ SweepUpdate(x)
    <3>1. sweep'[m].rows = sweep[m].rows /\ sweep[m].stage = "update"
      BY <1>A, <2>4 DEF SweepUpdate, DevTypeOK
    <3> QED
      BY <1>B, <2>0, <3>1 DEF RowAttended
  <2>5. CASE x = m /\ SweepRelease(x)
    <3>1. sweep[m].stage = "release" /\ RefOf(d) # sweep[m].row
      BY <1>A, <2>5 DEF SweepRelease, SweptRowsGone
    <3>2. RefOf(d) \in sweep[m].rows => RefOf(d) \in sweep'[m].rows
      BY <1>A, <2>5, <3>1 DEF SweepRelease, DevTypeOK
    <3> QED
      BY <1>B, <2>0, <3>1, <3>2 DEF RowAttended
  <2> QED
    BY <1>3, <2>1, <2>2, <2>3, <2>4, <2>5 DEF SweepRow
<1>4. ASSUME NEW e \in EndTask, EndStep(e)
      PROVE  RowAttended(d)'
  BY <1>0, <1>4 DEF EndStep, EndLookup, EndUpdate, EndRelease, EndFails, KioskLost,
                    DevStopMonitoring, DevForceStop
<1>5. ASSUME NEW x \in Device, KioskSilent(x)
      PROVE  RowAttended(d)'
  BY <1>0, <1>5 DEF KioskSilent
<1>6. CASE Restart
  BY <1>6, <1>A, <1>B DEF Restart, RowAttended
<1>7. CASE UNCHANGED devVars
  BY <1>0, <1>7 DEF devVars
<1> QED
  BY <1>1, <1>2, <1>3, <1>4, <1>5, <1>6, <1>7 DEF DevNext

LEMMA FieldRowStep ==
  /\ DevTypeOK /\ KeyInv /\ RowsOfOwners /\ SweptRowsGone
  /\ FieldRowAttended /\ [DevNext]_devVars
  => FieldRowAttended'
<1> SUFFICES ASSUME DevTypeOK, KeyInv, RowsOfOwners, SweptRowsGone, FieldRowAttended,
                    [DevNext]_devVars, NEW d \in Device, active'[d] # Null,
                    active'[d].user \in FieldUser, ~active'[d].late
             PROVE  RowAttended(d)'
  BY DEF FieldRowAttended
<1>1. CASE active'[d] = active[d]
  <2>1. RowAttended(d)
    BY <1>1 DEF FieldRowAttended
  <2> QED
    BY <1>1, <2>1, AttendedStep
<1>2. CASE active'[d] # active[d]
  <2>1. \E m \in DevSocket : StartInsert(m)
    BY <1>2, RowsStep DEF RowsEndOnly
  <2> PICK m \in DevSocket : StartInsert(m)
    BY <2>1
  <2>2. d = start[m].device
    BY <1>2 DEF StartInsert, DevTypeOK
  <2>3. /\ active'[d].by = m
        /\ active'[d].late = (devPhase[m] = "gone" /\ sweep[m].stage # "lookup")
        /\ devPhase' = devPhase /\ sweep' = sweep
    BY <2>2 DEF StartInsert, DevTypeOK, memory, tasks, incidents
  <2>4. devPhase[m] # "gone" \/ sweep[m].stage = "lookup"
    BY <2>3
  <2> QED
    BY <2>3, <2>4 DEF RowAttended
<1> QED
  BY <1>1, <1>2

(***************************************************************************)
(* Whatever fails, restarts or is late, a row a field monitor has left is   *)
(* known to that monitor's disconnect handler or to the sweep it began.     *)
(***************************************************************************)
THEOREM FieldRowsAttended == DevSpec => []FieldRowAttended
<1>1. DevInit => RowsOfOwners /\ SweptRowsGone /\ FieldRowAttended
  BY DEF DevInit, RowsOfOwners, SweptRowsGone, FieldRowAttended, NoSweep
<1> QED
  BY <1>1, DevShape, KeysKept, OwnersStep, SweptStep, FieldRowStep, PTL DEF DevSpec

=============================================================================
