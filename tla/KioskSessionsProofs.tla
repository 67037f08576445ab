------------------------ MODULE KioskSessionsProofs ------------------------
(***************************************************************************)
(* Proofs about KioskSessions, for every set of sockets, ids, tokens and    *)
(* registrations that ConstantsAssumption admits: type correctness, the     *)
(* owner of every session, the single login, the kiosk of every session of  *)
(* a plain id, the removal of live kiosks, and the refinement of the lock.  *)
(***************************************************************************)
EXTENDS KioskSessions, TLAPS

-----------------------------------------------------------------------------
(* Type correctness *)

(***************************************************************************)
(* Every step of a handler leaves the tables well formed.                   *)
(***************************************************************************)
LEMMA TypeStep == TypeOK /\ [Next]_vars => TypeOK'
<1> SUFFICES ASSUME TypeOK, [Next]_vars PROVE TypeOK'
  OBVIOUS
<1> USE ConstantsAssumption DEF TypeOK, Phase, KioskEntry, NoKiosk, OnlineAs, Socket
<1>1. CASE \E s \in KioskSocket : KioskStep(s)
  <2> PICK s \in KioskSocket : KioskStep(s)
    BY <1>1
  <2>1. CASE LoginFirst(s)
    BY <2>1 DEF LoginFirst
  <2>2. CASE LoginAgain(s)
    BY <2>2 DEF LoginAgain
  <2>3. CASE HeartbeatPing(s)
    BY <2>3 DEF HeartbeatPing
  <2>4. CASE KioskCleanupOther(s)
    BY <2>4 DEF KioskCleanupOther
  <2>5. CASE KioskCleanupOwn(s)
    BY <2>5 DEF KioskCleanupOwn
  <2>6. CASE KioskEndWithoutRow(s)
    BY <2>6 DEF KioskEndWithoutRow
  <2>7. CASE KioskEndRow(s)
    BY <2>7 DEF KioskEndRow
  <2>8. CASE KioskRemove(s)
    BY <2>8 DEF KioskRemove
  <2>9. CASE KioskEndRejected(s)
    BY <2>9 DEF KioskEndRejected
  <2>10. ASSUME NEW k \in Kiosk, RegisterKiosk(s, k)
         PROVE  TypeOK'
    BY <2>10 DEF RegisterKiosk
  <2>11. ASSUME NEW k \in Kiosk, RegisterKioskBegin(s, k)
         PROVE  TypeOK'
    BY <2>11 DEF RegisterKioskBegin
  <2>12. ASSUME NEW k \in Kiosk, RegisterKioskResume(s, k)
         PROVE  TypeOK'
    BY <2>12 DEF RegisterKioskResume
  <2> QED
    BY <2>1, <2>2, <2>3, <2>4, <2>5, <2>6, <2>7, <2>8, <2>9, <2>10, <2>11, <2>12
    DEF KioskStep, KioskCleanup
<1>2. CASE \E m \in MonitorSocket : MonitorStep(m)
  <2> PICK m \in MonitorSocket : MonitorStep(m)
    BY <1>2
  <2>1. CASE MonitorCleanup(m)
    BY <2>1 DEF MonitorCleanup
  <2>2. ASSUME NEW k \in Kiosk, StartMonitoring(m, k)
        PROVE  TypeOK'
    BY <2>2 DEF StartMonitoring
  <2>3. ASSUME NEW k \in Kiosk, StopMonitoring(m, k)
        PROVE  TypeOK'
    BY <2>3 DEF StopMonitoring
  <2>4. ASSUME NEW k \in Kiosk, ForceStop(m, k)
        PROVE  TypeOK'
    BY <2>4 DEF ForceStop
  <2> QED
    BY <2>1, <2>2, <2>3, <2>4 DEF MonitorStep
<1>3. ASSUME NEW x \in Socket, Connect(x) \/ Disconnect(x) \/ CleanupFails(x)
      PROVE  TypeOK'
  BY <1>3 DEF Connect, Disconnect, CleanupFails
<1>4. ASSUME NEW k \in Kiosk, HeartbeatTimeout(k)
      PROVE  TypeOK'
  BY <1>4 DEF HeartbeatTimeout
<1>5. CASE UNCHANGED vars
  BY <1>5 DEF vars
<1> QED
  BY <1>1, <1>2, <1>3, <1>4, <1>5 DEF Next

(***************************************************************************)
(* The registry, the logins, the registrations waiting for a query, the     *)
(* heartbeats and the sessions always have the shape the handlers rely on.  *)
(***************************************************************************)
THEOREM TypeCorrect == Spec => []TypeOK
<1>1. Init => TypeOK
  BY DEF Init, TypeOK, Phase, KioskEntry, NoKiosk
<1> QED
  BY <1>1, TypeStep, PTL DEF Spec

-----------------------------------------------------------------------------
(* Who owns a session *)

(***************************************************************************)
(* Only a monitor's own handler moves its phase, so kiosk steps change      *)
(* neither the sessions' owners nor their phases except by ending sessions. *)
(***************************************************************************)
LEMMA OwnerStep == TypeOK /\ SessionOwnerPresent /\ [Next]_vars => SessionOwnerPresent'
<1> SUFFICES ASSUME TypeOK, SessionOwnerPresent, [Next]_vars,
                    NEW j \in Kiosk, session'[j] # None
             PROVE  phase'[session'[j]] \in {"open", "closing", "failed"}
  BY DEF SessionOwnerPresent
<1>0. session[j] # None => phase[session[j]] \in {"open", "closing", "failed"}
  BY DEF SessionOwnerPresent
<1> USE <1>0, ConstantsAssumption DEF TypeOK, Socket
<1>1. CASE \E s \in KioskSocket : KioskStep(s)
  <2> PICK s \in KioskSocket : KioskStep(s)
    BY <1>1
  <2>1. CASE LoginFirst(s) \/ LoginAgain(s) \/ HeartbeatPing(s)
    BY <2>1 DEF LoginFirst, LoginAgain, HeartbeatPing
  <2>2. CASE KioskCleanup(s)
    BY <2>2 DEF KioskCleanup, KioskCleanupOther, KioskCleanupOwn, KioskEndWithoutRow,
                KioskEndRow, KioskRemove, KioskEndRejected
  <2>3. CASE \E k \in Kiosk : \/ RegisterKiosk(s, k)
                              \/ RegisterKioskBegin(s, k)
                              \/ RegisterKioskResume(s, k)
    BY <2>3 DEF RegisterKiosk, RegisterKioskBegin, RegisterKioskResume
  <2> QED
    BY <2>1, <2>2, <2>3 DEF KioskStep
<1>2. CASE \E m \in MonitorSocket : MonitorStep(m)
  <2> PICK m \in MonitorSocket : MonitorStep(m)
    BY <1>2
  <2>1. CASE MonitorCleanup(m)
    <3>1. session'[j] = session[j] /\ session[j] # m
      BY <2>1 DEF MonitorCleanup
    <3> QED
      BY <2>1, <3>1 DEF MonitorCleanup
  <2>2. ASSUME NEW k \in Kiosk, StartMonitoring(m, k)
        PROVE  phase'[session'[j]] \in {"open", "closing", "failed"}
    BY <2>2 DEF StartMonitoring
  <2>3. ASSUME NEW k \in Kiosk, StopMonitoring(m, k) \/ ForceStop(m, k)
        PROVE  phase'[session'[j]] \in {"open", "closing", "failed"}
    BY <2>3 DEF StopMonitoring, ForceStop
  <2> QED
    BY <2>1, <2>2, <2>3 DEF MonitorStep
<1>3. ASSUME NEW x \in Socket, Connect(x) \/ Disconnect(x) \/ CleanupFails(x)
      PROVE  phase'[session'[j]] \in {"open", "closing", "failed"}
  BY <1>3 DEF Connect, Disconnect, CleanupFails
<1>4. ASSUME NEW k \in Kiosk, HeartbeatTimeout(k)
      PROVE  phase'[session'[j]] \in {"open", "closing", "failed"}
  BY <1>4 DEF HeartbeatTimeout
<1>5. CASE UNCHANGED vars
  BY <1>5 DEF vars
<1> QED
  BY <1>1, <1>2, <1>3, <1>4, <1>5 DEF Next

(***************************************************************************)
(* No zombie lock, for any number of monitors, kiosks and connections: the  *)
(* owner of a session is connected, being disconnected, or its disconnect   *)
(* handler failed.                                                          *)
(***************************************************************************)
THEOREM OwnerPresent == Spec => []SessionOwnerPresent
<1>1. Init => SessionOwnerPresent
  BY DEF Init, SessionOwnerPresent
<1> QED
  BY <1>1, TypeCorrect, OwnerStep, PTL DEF Spec

-----------------------------------------------------------------------------
(* One login per app user *)

(***************************************************************************)
(* A login is overwritten only when the socket it names is not open, or is  *)
(* being closed by the same step, and dropped only by that socket's own     *)
(* disconnect.                                                              *)
(***************************************************************************)
LEMMA LoginStep == TypeOK /\ SingleLogin /\ [Next]_vars => SingleLogin'
<1> SUFFICES ASSUME TypeOK, SingleLogin, [Next]_vars,
                    NEW r \in KioskSocket, IsApp(r), phase'[r] = "open"
             PROVE  userSession'[ClientOf[r]] = r
  BY DEF SingleLogin, IsApp
<1>0. phase[r] = "open" => userSession[ClientOf[r]] = r
  BY DEF SingleLogin
<1> USE <1>0, ConstantsAssumption DEF TypeOK, Socket
<1>1. CASE \E s \in KioskSocket : KioskStep(s)
  <2> PICK s \in KioskSocket : KioskStep(s)
    BY <1>1
  <2>1. CASE LoginFirst(s)
    BY <2>1 DEF LoginFirst
  <2>2. CASE LoginAgain(s)
    BY <2>2 DEF LoginAgain
  <2>3. CASE HeartbeatPing(s)
    BY <2>3 DEF HeartbeatPing
  <2>4. CASE KioskCleanup(s)
    BY <2>4 DEF KioskCleanup, KioskCleanupOther, KioskCleanupOwn, KioskEndWithoutRow,
                KioskEndRow, KioskRemove, KioskEndRejected
  <2>5. CASE \E k \in Kiosk : \/ RegisterKiosk(s, k)
                              \/ RegisterKioskBegin(s, k)
                              \/ RegisterKioskResume(s, k)
    BY <2>5 DEF RegisterKiosk, RegisterKioskBegin, RegisterKioskResume
  <2> QED
    BY <2>1, <2>2, <2>3, <2>4, <2>5 DEF KioskStep
<1>2. ASSUME NEW m \in MonitorSocket, MonitorStep(m)
      PROVE  userSession'[ClientOf[r]] = r
  BY <1>2 DEF MonitorStep, MonitorCleanup, StartMonitoring, StopMonitoring, ForceStop
<1>3. ASSUME NEW x \in Socket, Connect(x) \/ Disconnect(x) \/ CleanupFails(x)
      PROVE  userSession'[ClientOf[r]] = r
  BY <1>3 DEF Connect, Disconnect, CleanupFails
<1>4. ASSUME NEW k \in Kiosk, HeartbeatTimeout(k)
      PROVE  userSession'[ClientOf[r]] = r
  BY <1>4 DEF HeartbeatTimeout
<1>5. CASE UNCHANGED vars
  BY <1>5 DEF vars
<1> QED
  BY <1>1, <1>2, <1>3, <1>4, <1>5 DEF Next

(***************************************************************************)
(* However often an app user connects, replaces and loses connections, the  *)
(* login table names the open one, so there is at most one.                 *)
(***************************************************************************)
THEOREM LoginSingle == Spec => []SingleLogin
<1>1. Init => SingleLogin
  BY ConstantsAssumption DEF Init, SingleLogin, Socket
<1> QED
  BY <1>1, TypeCorrect, LoginStep, PTL DEF Spec

-----------------------------------------------------------------------------
(* The kiosk of a session *)

(***************************************************************************)
(* PlainSessionHasKiosk is not inductive: a session may start on any online *)
(* entry, and an offline entry comes online with a ping, so what matters is *)
(* that the entry of a plain id, online or not, belongs to a socket of that *)
(* id whose disconnect handler is not done.  That in turn needs to know     *)
(* whose registrations wait for a query, and which handlers wait for a row. *)
(***************************************************************************)
PlainEntryHeld ==
  \A k \in PlainKiosk :
    kiosks[k].status # "absent" =>
      /\ kiosks[k].socket \in KioskSocket
      /\ ClientOf[kiosks[k].socket] = k
      /\ phase[kiosks[k].socket] # "gone"

PendingIsApp ==
  \A s \in KioskSocket, k \in Kiosk :
    <<s, k>> \in pending => IsApp(s) /\ k \in RegisterAs[s]

RemovingHasRow ==
  \A s \in KioskSocket : phase[s] = "removing" => ClientOf[s] \in DbKiosk

PlainSessionOnline ==
  \A k \in PlainKiosk : session[k] # None => IsKioskOnline(k)

PlainInv == PlainEntryHeld /\ PendingIsApp /\ RemovingHasRow /\ PlainSessionOnline

(***************************************************************************)
(* The registrations that wait are those of app users, for their own ids.   *)
(***************************************************************************)
LEMMA PendingStep == TypeOK /\ PendingIsApp /\ [Next]_vars => PendingIsApp'
<1> SUFFICES ASSUME TypeOK, PendingIsApp, [Next]_vars,
                    NEW r \in KioskSocket, NEW j \in Kiosk, <<r, j>> \in pending'
             PROVE  IsApp(r) /\ j \in RegisterAs[r]
  BY DEF PendingIsApp, IsApp
<1> USE DEF PendingIsApp
<1>1. CASE \E s \in KioskSocket, k \in Kiosk : RegisterKioskBegin(s, k)
  BY <1>1 DEF RegisterKioskBegin
<1>2. CASE \E s \in KioskSocket, k \in Kiosk : RegisterKioskResume(s, k)
  BY <1>2 DEF RegisterKioskResume
<1>3. CASE UNCHANGED pending
  BY <1>3
<1> QED
  BY <1>1, <1>2, <1>3
  DEF Next, vars, KioskStep, KioskCleanup, MonitorStep, LoginFirst, LoginAgain,
      HeartbeatPing, RegisterKiosk, KioskCleanupOther, KioskCleanupOwn,
      KioskEndWithoutRow, KioskEndRow, KioskRemove, KioskEndRejected, MonitorCleanup,
      StartMonitoring, StopMonitoring, ForceStop, Connect, Disconnect, CleanupFails,
      HeartbeatTimeout

(***************************************************************************)
(* Only a handler whose id can have a row gets past the lookup of the row.  *)
(***************************************************************************)
LEMMA RemovingStep == TypeOK /\ RemovingHasRow /\ [Next]_vars => RemovingHasRow'
<1> SUFFICES ASSUME TypeOK, RemovingHasRow, [Next]_vars,
                    NEW r \in KioskSocket, phase'[r] = "removing"
             PROVE  ClientOf[r] \in DbKiosk
  BY DEF RemovingHasRow
<1> USE ConstantsAssumption DEF RemovingHasRow, TypeOK, Socket
<1>1. ASSUME NEW s \in KioskSocket, KioskStep(s)
      PROVE  ClientOf[r] \in DbKiosk
  BY <1>1 DEF KioskStep, KioskCleanup, LoginFirst, LoginAgain, HeartbeatPing,
              RegisterKiosk, RegisterKioskBegin, RegisterKioskResume,
              KioskCleanupOther, KioskCleanupOwn, KioskEndWithoutRow, KioskEndRow,
              KioskRemove, KioskEndRejected
<1>2. ASSUME NEW m \in MonitorSocket, MonitorStep(m)
      PROVE  ClientOf[r] \in DbKiosk
  BY <1>2 DEF MonitorStep, MonitorCleanup, StartMonitoring, StopMonitoring, ForceStop
<1>3. ASSUME NEW x \in Socket, Connect(x) \/ Disconnect(x) \/ CleanupFails(x)
      PROVE  ClientOf[r] \in DbKiosk
  BY <1>3 DEF Connect, Disconnect, CleanupFails
<1>4. ASSUME NEW k \in Kiosk, HeartbeatTimeout(k)
      PROVE  ClientOf[r] \in DbKiosk
  BY <1>4 DEF HeartbeatTimeout
<1>5. CASE UNCHANGED vars
  BY <1>5 DEF vars
<1> QED
  BY <1>1, <1>2, <1>3, <1>4, <1>5 DEF Next

(***************************************************************************)
(* The entry and the session of one plain id, through every step.           *)
(***************************************************************************)
LEMMA PlainStep ==
  TypeOK /\ PlainInv /\ [Next]_vars => PlainEntryHeld' /\ PlainSessionOnline'
<1> DEFINE Held(j) ==
      kiosks[j].status # "absent" =>
        /\ kiosks[j].socket \in KioskSocket
        /\ ClientOf[kiosks[j].socket] = j
        /\ phase[kiosks[j].socket] # "gone"
    Online(j) == session[j] # None => IsKioskOnline(j)
<1> SUFFICES ASSUME TypeOK, PlainInv, [Next]_vars, NEW j \in PlainKiosk
             PROVE  Held(j)' /\ Online(j)'
  BY DEF PlainEntryHeld, PlainSessionOnline, PlainKiosk
<1>0. /\ Held(j)
      /\ Online(j)
      /\ j \in Kiosk /\ j \notin AppClient /\ j \notin DbKiosk
      /\ \A s \in KioskSocket : j \in RegisterAs[s] => ClientOf[s] = j
  BY DEF PlainInv, PlainEntryHeld, PlainSessionOnline, PlainKiosk
<1> USE <1>0, ConstantsAssumption
    DEF TypeOK, Socket, KioskEntry, NoKiosk, OnlineAs, IsKioskOnline, OwnsKiosk, IsApp
<1>1. ASSUME NEW s \in KioskSocket, KioskStep(s)
      PROVE  Held(j)' /\ Online(j)'
  <2>1. CASE LoginFirst(s)
    BY <2>1 DEF LoginFirst
  <2>2. CASE LoginAgain(s)
    BY <2>2 DEF LoginAgain
  <2>3. CASE HeartbeatPing(s)
    BY <2>3 DEF HeartbeatPing
  <2>4. CASE KioskCleanupOther(s)
    BY <2>4 DEF KioskCleanupOther
  <2>5. CASE KioskCleanupOwn(s)
    <3>1. CASE ClientOf[s] = j
      BY <2>5, <3>1 DEF KioskCleanupOwn
    <3>2. CASE ClientOf[s] # j
      BY <2>5, <3>2 DEF KioskCleanupOwn
    <3> QED
      BY <3>1, <3>2
  <2>6. CASE KioskEndWithoutRow(s)
    BY <2>6 DEF KioskEndWithoutRow
  <2>7. CASE KioskEndRow(s)
    BY <2>7 DEF KioskEndRow
  <2>8. CASE KioskRemove(s)
    <3>1. ClientOf[s] # j
      BY <2>8 DEF KioskRemove, PlainInv, RemovingHasRow
    <3> QED
      BY <2>8, <3>1 DEF KioskRemove
  <2>9. CASE KioskEndRejected(s)
    BY <2>9 DEF KioskEndRejected
  <2>10. ASSUME NEW k \in Kiosk, RegisterKiosk(s, k)
         PROVE  Held(j)' /\ Online(j)'
    BY <2>10 DEF RegisterKiosk
  <2>11. ASSUME NEW k \in Kiosk, RegisterKioskBegin(s, k)
         PROVE  Held(j)' /\ Online(j)'
    BY <2>11 DEF RegisterKioskBegin
  <2>12. ASSUME NEW k \in Kiosk, RegisterKioskResume(s, k)
         PROVE  Held(j)' /\ Online(j)'
    <3>1. k # j
      BY <2>12 DEF RegisterKioskResume, PlainInv, PendingIsApp
    <3> QED
      BY <2>12, <3>1 DEF RegisterKioskResume
  <2> QED
    BY <1>1, <2>1, <2>2, <2>3, <2>4, <2>5, <2>6, <2>7, <2>8, <2>9, <2>10, <2>11, <2>12
    DEF KioskStep, KioskCleanup
<1>2. ASSUME NEW m \in MonitorSocket, MonitorStep(m)
      PROVE  Held(j)' /\ Online(j)'
  BY <1>2 DEF MonitorStep, MonitorCleanup, StartMonitoring, StopMonitoring, ForceStop
<1>3. ASSUME NEW x \in Socket, Connect(x) \/ Disconnect(x) \/ CleanupFails(x)
      PROVE  Held(j)' /\ Online(j)'
  BY <1>3 DEF Connect, Disconnect, CleanupFails
<1>4. ASSUME NEW k \in Kiosk, HeartbeatTimeout(k)
      PROVE  Held(j)' /\ Online(j)'
  BY <1>4 DEF HeartbeatTimeout
<1>5. CASE UNCHANGED vars
  BY <1>5 DEF vars
<1> QED
  BY <1>1, <1>2, <1>3, <1>4, <1>5 DEF Next

(***************************************************************************)
(* A plain kiosk is monitored only while it is online and its connection is *)
(* not over, for any number of sockets that share its id.                   *)
(***************************************************************************)
THEOREM PlainSessions == Spec => []PlainSessionHasKiosk
<1>1. Init => PlainInv
  BY ConstantsAssumption
  DEF Init, PlainInv, PlainEntryHeld, PendingIsApp, RemovingHasRow, PlainSessionOnline,
      PlainKiosk, NoKiosk, Socket
<1>2. TypeOK /\ PlainInv /\ [Next]_vars => PlainInv'
  BY PendingStep, RemovingStep, PlainStep DEF PlainInv
<1>3. PlainInv => PlainSessionHasKiosk
  BY DEF PlainInv, PlainEntryHeld, PlainSessionOnline, PlainSessionHasKiosk,
         SessionHasKiosk, IsKioskOnline
<1> QED
  BY <1>1, <1>2, <1>3, TypeCorrect, PTL DEF Spec

(***************************************************************************)
(* Both together: a session has both its ends, or a cleanup to come.        *)
(***************************************************************************)
THEOREM SessionsAlwaysAttended == Spec => []SessionsAttended
<1>1. SessionOwnerPresent /\ PlainSessionHasKiosk => SessionsAttended
  BY DEF SessionsAttended
<1> QED
  BY <1>1, OwnerPresent, PlainSessions, PTL

-----------------------------------------------------------------------------
(* The removal of live kiosks *)

(***************************************************************************)
(* Whatever takes the entry of a connected kiosk out of the registry is a   *)
(* handler of the same client id that already waits for the end of the      *)
(* session: every other handler compares the owner of the entry first.      *)
(***************************************************************************)
LEMMA RemovalStep ==
  TypeOK /\ [Next]_vars => \A k \in Kiosk : RemovesLiveKiosk(k) => LeftoverHandler(k)
<1> SUFFICES ASSUME TypeOK, [Next]_vars, NEW j \in Kiosk, RemovesLiveKiosk(j)
             PROVE  LeftoverHandler(j)
  OBVIOUS
<1>0. /\ kiosks[j] # NoKiosk
      /\ phase[kiosks[j].socket] = "open"
      /\ kiosks'[j] = NoKiosk
  BY DEF RemovesLiveKiosk
<1> USE <1>0, ConstantsAssumption
    DEF TypeOK, Socket, KioskEntry, NoKiosk, OnlineAs, OwnsKiosk, LeftoverHandler
<1>1. ASSUME NEW s \in KioskSocket, KioskStep(s)
      PROVE  LeftoverHandler(j)
  <2>1. CASE LoginFirst(s) \/ LoginAgain(s)
    BY <2>1 DEF LoginFirst, LoginAgain
  <2>2. CASE HeartbeatPing(s)
    BY <2>2 DEF HeartbeatPing
  <2>3. CASE KioskCleanupOther(s)
    BY <2>3 DEF KioskCleanupOther
  <2>4. CASE KioskCleanupOwn(s)
    BY <2>4 DEF KioskCleanupOwn
  <2>5. CASE KioskEndWithoutRow(s)
    BY <2>5 DEF KioskEndWithoutRow
  <2>6. CASE KioskEndRow(s)
    BY <2>6 DEF KioskEndRow
  <2>7. CASE KioskRemove(s)
    BY <2>7 DEF KioskRemove
  <2>8. CASE KioskEndRejected(s)
    BY <2>8 DEF KioskEndRejected
  <2>9. ASSUME NEW k \in Kiosk, \/ RegisterKiosk(s, k)
                                \/ RegisterKioskBegin(s, k)
                                \/ RegisterKioskResume(s, k)
        PROVE  LeftoverHandler(j)
    BY <2>9 DEF RegisterKiosk, RegisterKioskBegin, RegisterKioskResume
  <2> QED
    BY <1>1, <2>1, <2>2, <2>3, <2>4, <2>5, <2>6, <2>7, <2>8, <2>9
    DEF KioskStep, KioskCleanup
<1>2. ASSUME NEW m \in MonitorSocket, MonitorStep(m)
      PROVE  LeftoverHandler(j)
  BY <1>2 DEF MonitorStep, MonitorCleanup, StartMonitoring, StopMonitoring, ForceStop
<1>3. ASSUME NEW x \in Socket, Connect(x) \/ Disconnect(x) \/ CleanupFails(x)
      PROVE  LeftoverHandler(j)
  BY <1>3 DEF Connect, Disconnect, CleanupFails
<1>4. ASSUME NEW k \in Kiosk, HeartbeatTimeout(k)
      PROVE  LeftoverHandler(j)
  BY <1>4 DEF HeartbeatTimeout, IsKioskOnline
<1>5. CASE UNCHANGED vars
  BY <1>5 DEF vars
<1> QED
  BY <1>1, <1>2, <1>3, <1>4, <1>5 DEF Next

(***************************************************************************)
(* The disconnect handler of a socket a kiosk was transferred from does not *)
(* remove the kiosk, unless it was past its check already.                  *)
(***************************************************************************)
THEOREM TransferKept == Spec => TransferredKioskKept
<1>1. TypeOK /\ [Next]_vars =>
        [\A k \in Kiosk : RemovesLiveKiosk(k) => LeftoverHandler(k)]_vars
  BY RemovalStep
<1> QED
  BY <1>1, TypeCorrect, PTL DEF Spec, TransferredKioskKept

-----------------------------------------------------------------------------
(* The sessions implement the lock *)

(***************************************************************************)
(* A set of kiosks whose sessions end, with nothing else of the lock        *)
(* changed, is a release.                                                   *)
(***************************************************************************)
LEMMA ReleaseStep ==
  ASSUME NEW ks \in SUBSET Kiosk, TypeOK,
         session' = [k \in Kiosk |-> IF k \in ks THEN None ELSE session[k]],
         \A m \in MonitorSocket : phase'[m] = "open" <=> phase[m] = "open"
  PROVE  Lock!Next
<1>1. {m \in MonitorSocket : phase'[m] = "open"} = {m \in MonitorSocket : phase[m] = "open"}
  OBVIOUS
<1>2. Lock!Release(ks)
  BY <1>1 DEF Lock!Release
<1> QED
  BY <1>2 DEF Lock!Next

(***************************************************************************)
(* Steps that touch neither a session nor a monitor's being connected.      *)
(***************************************************************************)
LEMMA StutterStep ==
  ASSUME session' = session,
         \A m \in MonitorSocket : phase'[m] = "open" <=> phase[m] = "open"
  PROVE  UNCHANGED Lock!lockVars
<1>1. {m \in MonitorSocket : phase'[m] = "open"} = {m \in MonitorSocket : phase[m] = "open"}
  OBVIOUS
<1> QED
  BY <1>1 DEF Lock!lockVars

(***************************************************************************)
(* Every step is one of the lock: connections arrive and depart, a start    *)
(* takes, and stops, timeouts and cleanups release.                         *)
(***************************************************************************)
LEMMA LockStep == TypeOK /\ [Next]_vars => [Lock!Next]_(Lock!lockVars)
<1> SUFFICES ASSUME TypeOK, [Next]_vars PROVE Lock!Next \/ UNCHANGED Lock!lockVars
  OBVIOUS
<1> DEFINE SameUp == \A m \in MonitorSocket : phase'[m] = "open" <=> phase[m] = "open"
           EndsOnly(ks) ==
             session' = [k \in Kiosk |-> IF k \in ks THEN None ELSE session[k]]
<1>A. ASSUME NEW k \in Kiosk, session' = [session EXCEPT ![k] = None]
      PROVE  EndsOnly({k})
  BY <1>A DEF TypeOK
<1>1. ASSUME NEW s \in KioskSocket, KioskStep(s)
      PROVE  Lock!Next \/ UNCHANGED Lock!lockVars
  <2> DEFINE c == ClientOf[s]
  <2>A. SameUp
    <3>1. CASE LoginAgain(s)
      BY <3>1, ConstantsAssumption DEF LoginAgain, TypeOK, Socket
    <3>2. CASE LoginFirst(s)
      BY <3>2, ConstantsAssumption DEF LoginFirst, TypeOK, Socket
    <3>3. CASE HeartbeatPing(s)
      BY <3>3 DEF HeartbeatPing
    <3>4. CASE KioskCleanup(s)
      BY <3>4, ConstantsAssumption
      DEF TypeOK, Socket, KioskCleanup, KioskCleanupOther, KioskCleanupOwn,
          KioskEndWithoutRow, KioskEndRow, KioskRemove, KioskEndRejected
    <3>5. CASE \E k \in Kiosk : \/ RegisterKiosk(s, k)
                                \/ RegisterKioskBegin(s, k)
                                \/ RegisterKioskResume(s, k)
      BY <3>5 DEF RegisterKiosk, RegisterKioskBegin, RegisterKioskResume
    <3> QED
      BY <1>1, <3>1, <3>2, <3>3, <3>4, <3>5 DEF KioskStep
  <2>B. session' = session \/ session' = [session EXCEPT ![c] = None]
    BY <1>1
    DEF KioskStep, KioskCleanup, LoginFirst, LoginAgain, HeartbeatPing,
        RegisterKiosk, RegisterKioskBegin, RegisterKioskResume, KioskCleanupOther,
        KioskCleanupOwn, KioskEndWithoutRow, KioskEndRow, KioskRemove, KioskEndRejected
  <2>1. CASE session' = session
    BY <2>A, <2>1, StutterStep
  <2>2. CASE session' = [session EXCEPT ![c] = None]
    <3>1. c \in Kiosk
      BY ConstantsAssumption
    <3>2. EndsOnly({c})
      BY <1>A, <2>2, <3>1
    <3> QED
      BY <2>A, <3>1, <3>2, ReleaseStep
  <2> QED
    BY <2>B, <2>1, <2>2
<1>2. ASSUME NEW m \in MonitorSocket, MonitorStep(m)
      PROVE  Lock!Next \/ UNCHANGED Lock!lockVars
  <2>1. CASE MonitorCleanup(m)
    <3> DEFINE ks == {k \in Kiosk : session[k] = m}
    <3>1. ks \in SUBSET Kiosk /\ EndsOnly(ks) /\ SameUp
      BY <2>1 DEF MonitorCleanup, TypeOK, Socket
    <3> QED
      BY <3>1, ReleaseStep
  <2>2. ASSUME NEW k \in Kiosk, StartMonitoring(m, k)
        PROVE  Lock!Next
    <3>1. phase' = phase
      BY <2>2 DEF StartMonitoring
    <3>2. session[k] = None \/ session[k] \notin {x \in MonitorSocket : phase[x] = "open"}
      BY <2>2 DEF StartMonitoring, Replaceable
    <3>3. Lock!Take(m, k)
      BY <2>2, <3>1, <3>2 DEF Lock!Take, Lock!Free, Lock!Orphaned, StartMonitoring
    <3> QED
      BY <3>3 DEF Lock!Next
  <2>3. ASSUME NEW k \in Kiosk, StopMonitoring(m, k) \/ ForceStop(m, k)
        PROVE  Lock!Next
    <3>1. EndsOnly({k}) /\ SameUp
      BY <1>A, <2>3 DEF StopMonitoring, ForceStop
    <3> QED
      BY <3>1, ReleaseStep
  <2> QED
    BY <1>2, <2>1, <2>2, <2>3 DEF MonitorStep
<1>3. ASSUME NEW x \in Socket, Connect(x) \/ Disconnect(x) \/ CleanupFails(x)
      PROVE  Lock!Next \/ UNCHANGED Lock!lockVars
  <2> DEFINE U == {m \in MonitorSocket : phase[m] = "open"}
             V == {m \in MonitorSocket : phase'[m] = "open"}
  <2>0. session' = session
    BY <1>3 DEF Connect, Disconnect, CleanupFails
  <2>1. CASE x \in MonitorSocket /\ Connect(x)
    <3>1. x \notin U /\ V = U \cup {x}
      BY <2>1 DEF Connect, TypeOK
    <3>2. Lock!Arrive(x)
      BY <2>0, <3>1 DEF Lock!Arrive
    <3> QED
      BY <2>1, <3>2 DEF Lock!Next
  <2>2. CASE x \in MonitorSocket /\ Disconnect(x)
    <3>1. x \in U /\ V = U \ {x}
      BY <2>2 DEF Disconnect, TypeOK
    <3>2. Lock!Depart(x)
      BY <2>0, <3>1 DEF Lock!Depart
    <3> QED
      BY <2>2, <3>2 DEF Lock!Next
  <2>3. CASE x \notin MonitorSocket \/ CleanupFails(x)
    <3>1. SameUp
      BY <1>3, <2>3 DEF Connect, Disconnect, CleanupFails, TypeOK, Socket
    <3> QED
      BY <2>0, <3>1, StutterStep
  <2> QED
    BY <1>3, <2>1, <2>2, <2>3
<1>4. ASSUME NEW k \in Kiosk, HeartbeatTimeout(k)
      PROVE  Lock!Next
  <2>1. EndsOnly({k}) /\ SameUp
    BY <1>A, <1>4 DEF HeartbeatTimeout
  <2> QED
    BY <2>1, ReleaseStep
<1>5. CASE UNCHANGED vars
  BY <1>5, StutterStep DEF vars
<1> QED
  BY <1>1, <1>2, <1>3, <1>4, <1>5 DEF Next

(***************************************************************************)
(* Only one monitor per kiosk at a time, and no monitor takes over from one *)
(* that is connected: the handlers implement the abstract lock.             *)
(***************************************************************************)
THEOREM LockRefined == Spec => LockSpec
<1>1. Init => Lock!Init
  BY DEF Init, Lock!Init, Socket
<1> QED
  BY <1>1, LockStep, TypeCorrect, PTL DEF Spec, LockSpec, Lock!Spec

-----------------------------------------------------------------------------
(* Lost connections *)

Closing(x) == phase[x] = "closing"

MonitorCleaned(m) == phase[m] = "failed" \/ \A k \in Kiosk : session[k] # m

KioskCleaned(s) == phase[s] = "failed" \/ kiosks[ClientOf[s]] # OnlineAs(s)

(***************************************************************************)
(* What weak fairness asks for and the prover cannot see: ENABLED.  A       *)
(* disconnect handler that has begun can go on, or fail, at its next await; *)
(* both change the phase of its socket.                                     *)
(***************************************************************************)
CleanupEnabled ==
  /\ \A s \in KioskSocket : Closing(s) => ENABLED <<KioskCleanupEnds(s)>>_vars
  /\ \A m \in MonitorSocket : Closing(m) => ENABLED <<MonitorCleanupEnds(m)>>_vars

(* What ends the first part of a disconnect handler has cleaned up.           *)
LEMMA MonitorCleanupCleans ==
  ASSUME TypeOK, NEW m \in MonitorSocket, Closing(m), MonitorCleanupEnds(m)
  PROVE  MonitorCleaned(m)'
<1> USE ConstantsAssumption DEF TypeOK, Socket, MonitorCleaned
<1>1. CASE MonitorCleanup(m)
  BY <1>1 DEF MonitorCleanup
<1>2. CASE CleanupFails(m)
  BY <1>2 DEF CleanupFails
<1> QED
  BY <1>1, <1>2 DEF MonitorCleanupEnds

LEMMA KioskCleanupCleans ==
  ASSUME TypeOK, NEW s \in KioskSocket, Closing(s), KioskCleanupEnds(s)
  PROVE  KioskCleaned(s)'
<1> USE ConstantsAssumption DEF TypeOK, Socket, KioskEntry, NoKiosk, OnlineAs, OwnsKiosk, KioskCleaned
<1>1. CASE KioskCleanupOther(s)
  BY <1>1 DEF KioskCleanupOther
<1>2. CASE KioskCleanupOwn(s)
  BY <1>2 DEF KioskCleanupOwn
<1>3. CASE CleanupFails(s)
  BY <1>3 DEF CleanupFails
<1>4. ~(KioskEndWithoutRow(s) \/ KioskEndRow(s) \/ KioskRemove(s) \/ KioskEndRejected(s))
  BY DEF Closing, KioskEndWithoutRow, KioskEndRow, KioskRemove, KioskEndRejected
<1> QED
  BY <1>1, <1>2, <1>3, <1>4 DEF KioskCleanupEnds, KioskCleanup

(* Nothing but its own handler takes a lost connection further.               *)
LEMMA ClosingStays ==
  ASSUME TypeOK, [Next]_vars, NEW x \in Socket, Closing(x)
  PROVE  \/ Closing(x)'
         \/ x \in MonitorSocket /\ MonitorCleanupEnds(x)
         \/ x \in KioskSocket /\ KioskCleanupEnds(x)
<1> SUFFICES ASSUME phase'[x] # "closing"
             PROVE  \/ x \in MonitorSocket /\ MonitorCleanupEnds(x)
                    \/ x \in KioskSocket /\ KioskCleanupEnds(x)
  BY DEF Closing
<1> USE DEF TypeOK, Socket, Closing
<1>1. ASSUME NEW s \in KioskSocket, KioskStep(s)
      PROVE  x = s /\ KioskCleanup(s)
  <2>1. CASE KioskCleanup(s)
    BY <2>1 DEF KioskCleanup, KioskCleanupOther, KioskCleanupOwn, KioskEndWithoutRow,
                KioskEndRow, KioskRemove, KioskEndRejected
  <2>2. CASE LoginFirst(s) \/ LoginAgain(s) \/ HeartbeatPing(s)
    BY <2>2 DEF LoginFirst, LoginAgain, HeartbeatPing
  <2>3. ASSUME NEW k \in Kiosk, \/ RegisterKiosk(s, k)
                                \/ RegisterKioskBegin(s, k)
                                \/ RegisterKioskResume(s, k)
        PROVE  FALSE
    BY <2>3 DEF RegisterKiosk, RegisterKioskBegin, RegisterKioskResume
  <2> QED
    BY <1>1, <2>1, <2>2, <2>3 DEF KioskStep
<1>2. ASSUME NEW m \in MonitorSocket, MonitorStep(m)
      PROVE  x = m /\ MonitorCleanup(m)
  BY <1>2 DEF MonitorStep, MonitorCleanup, StartMonitoring, StopMonitoring, ForceStop
<1>3. ASSUME NEW y \in Socket, Connect(y) \/ Disconnect(y) \/ CleanupFails(y)
      PROVE  x = y /\ CleanupFails(y)
  BY <1>3 DEF Connect, Disconnect, CleanupFails
<1>4. ASSUME NEW k \in Kiosk, HeartbeatTimeout(k) PROVE FALSE
  BY <1>4 DEF HeartbeatTimeout
<1>5. CASE UNCHANGED vars
  BY <1>5 DEF vars
<1> QED
  BY <1>1, <1>2, <1>3, <1>4, <1>5 DEF Next, MonitorCleanupEnds, KioskCleanupEnds

(***************************************************************************)
(* Handlers whose awaits settle clean up after every lost connection: the   *)
(* sessions of a monitor end, a device token's kiosk goes offline, or the   *)
(* handler fails.                                                           *)
(***************************************************************************)
THEOREM LostConnectionsClean ==
  Spec /\ CleanupFairness /\ []CleanupEnabled => LostConnectionsCleaned
<1>1. ASSUME NEW m \in MonitorSocket
      PROVE  Spec /\ CleanupFairness /\ []CleanupEnabled => (Closing(m) ~> MonitorCleaned(m))
  <2>1. CleanupFairness => MonitorCleanupRuns(m)
    BY DEF CleanupFairness
  <2>2. CleanupEnabled => (Closing(m) => ENABLED <<MonitorCleanupEnds(m)>>_vars)
    BY DEF CleanupEnabled
  <2>3. TypeOK /\ Closing(m) /\ <<MonitorCleanupEnds(m)>>_vars => MonitorCleaned(m)'
    BY MonitorCleanupCleans
  <2>4. TypeOK /\ Closing(m) /\ [Next]_vars => Closing(m)' \/ MonitorCleaned(m)'
    BY ClosingStays, MonitorCleanupCleans, ConstantsAssumption DEF Socket
  <2> QED
    BY <2>1, <2>2, <2>3, <2>4, TypeCorrect, PTL DEF Spec, MonitorCleanupRuns
<1>2. ASSUME NEW s \in KioskSocket
      PROVE  Spec /\ CleanupFairness /\ []CleanupEnabled => (Closing(s) ~> KioskCleaned(s))
  <2>1. CleanupFairness => KioskCleanupRuns(s)
    BY DEF CleanupFairness
  <2>2. CleanupEnabled => (Closing(s) => ENABLED <<KioskCleanupEnds(s)>>_vars)
    BY DEF CleanupEnabled
  <2>3. TypeOK /\ Closing(s) /\ <<KioskCleanupEnds(s)>>_vars => KioskCleaned(s)'
    BY KioskCleanupCleans
  <2>4. TypeOK /\ Closing(s) /\ [Next]_vars => Closing(s)' \/ KioskCleaned(s)'
    BY ClosingStays, KioskCleanupCleans, ConstantsAssumption DEF Socket
  <2> QED
    BY <2>1, <2>2, <2>3, <2>4, TypeCorrect, PTL DEF Spec, KioskCleanupRuns
<1> QED
  BY <1>1, <1>2 DEF LostConnectionsCleaned, Closing, MonitorCleaned, KioskCleaned

=============================================================================
