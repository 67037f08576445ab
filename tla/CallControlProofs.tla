------------------------- MODULE CallControlProofs -------------------------
(***************************************************************************)
(* Proofs about CallControl, for every set of sockets and ids and any       *)
(* number of timers: type correctness, that the initiator of a call is      *)
(* known exactly while the call is in progress, and that an ended call has  *)
(* a timer still to fire, on which its return to idle rests.                *)
(***************************************************************************)
EXTENDS CallControl, KioskSessionsProofs

Call == [state : CallState, by : Side \cup {None}]

(***************************************************************************)
(* updateCallState yields a call, and one that knows its initiator exactly  *)
(* while in progress, if an initiator is given or known already.            *)
(***************************************************************************)
LEMMA UpdatedCallType ==
  ASSUME NEW c \in Call, NEW state \in CallState, NEW by \in Side \cup {None}
  PROVE  UpdatedCall(c, state, by) \in Call
  BY DEF Call, UpdatedCall

LEMMA UpdatedCallKnows ==
  ASSUME NEW c \in Call, NEW state \in CallState, NEW by \in Side \cup {None},
         by # None \/ c.by # None
  PROVE  UpdatedCall(c, state, by).by # None <=>
           UpdatedCall(c, state, by).state \in {"connecting", "connected"}
  BY DEF Call, CallState, UpdatedCall

LEMMA UpdatedCallForgets ==
  ASSUME NEW c, NEW state \in {"idle", "ended"}
  PROVE  /\ UpdatedCall(c, state, None).by = None
         /\ UpdatedCall(c, state, None).state = state
  BY DEF UpdatedCall

(***************************************************************************)
(* A step of the socket core gives each id a call of before or a new one.   *)
(***************************************************************************)
LEMMA SessionCallStep ==
  ASSUME CallTypeOK, SessionStep, NEW k \in Kiosk
  PROVE  call'[k] \in {call[k], Idle}
  BY DEF SessionStep

LEMMA CallTypeStep == CallTypeOK /\ [CallNext]_callVars => CallTypeOK'
<1> SUFFICES ASSUME CallTypeOK, [CallNext]_callVars PROVE CallTypeOK'
  OBVIOUS
<1> USE CallConstantsAssumption DEF CallTypeOK
<1>A. /\ {"idle", "connecting", "connected", "ended"} \subseteq CallState
      /\ Idle \in Call
  BY DEF CallState, Call, Idle
<1>B. ASSUME NEW x \in Socket PROVE SideOf(x) \in Side
  BY DEF SideOf, Side
<1>0. ASSUME UNCHANGED vars PROVE TypeOK'
  BY <1>0, TypeStep
<1>1. CASE SessionStep
  <2>1. TypeOK'
    BY <1>1, TypeStep DEF SessionStep
  <2>2. call' \in [Kiosk -> Call]
    BY <1>1, <1>A DEF SessionStep, Call
  <2> QED
    BY <1>1, <2>1, <2>2 DEF SessionStep, Call
<1>2. ASSUME NEW x \in Socket, NEW k \in Kiosk, CallStep(x, k)
      PROVE  CallTypeOK'
  <2>1. TypeOK'
    BY <1>0, <1>2 DEF CallStep, CallRequest, CallAccept, CallReject, CallEnd
  <2>2. call[k] \in Call
    BY DEF Call
  <2>3. PICK state \in CallState, by \in Side \cup {None} :
          call' = [call EXCEPT ![k] = UpdatedCall(call[k], state, by)]
    BY <1>2, <1>A, <1>B DEF CallStep, CallRequest, CallAccept, CallReject, CallEnd
  <2>4. call' \in [Kiosk -> Call]
    BY <2>2, <2>3, UpdatedCallType DEF Call
  <2>5. timers' \in [Kiosk -> 0 .. MaxTimers]
    BY <1>2 DEF CallStep, CallRequest, CallAccept, CallReject, CallEnd
  <2> QED
    BY <2>1, <2>4, <2>5 DEF Call
<1>3. ASSUME NEW k \in Kiosk, TimerFires(k)
      PROVE  CallTypeOK'
  <2>1. TypeOK'
    BY <1>0, <1>3 DEF TimerFires
  <2>2. UpdatedCall(call[k], "idle", None) \in Call /\ call[k] \in Call
    BY <1>A, UpdatedCallType DEF Call
  <2>3. call' \in [Kiosk -> Call]
    BY <1>3, <2>2 DEF TimerFires, Call
  <2>4. timers' \in [Kiosk -> 0 .. MaxTimers]
    BY <1>3 DEF TimerFires
  <2> QED
    BY <2>1, <2>3, <2>4 DEF Call
<1>4. CASE UNCHANGED callVars
  BY <1>0, <1>4 DEF callVars
<1> QED
  BY <1>1, <1>2, <1>3, <1>4 DEF CallNext

(***************************************************************************)
(* The tables of the socket core and the calls in its sessions always have  *)
(* the shape the call handlers rely on.                                     *)
(***************************************************************************)
THEOREM CallTypeCorrect == CallSpec => []CallTypeOK
<1>1. CallInit => CallTypeOK
  <2>1. Init => TypeOK
    BY DEF Init, TypeOK, Phase, KioskEntry, NoKiosk
  <2> QED
    BY <2>1, CallConstantsAssumption DEF CallInit, CallTypeOK, Idle, CallState
<1> QED
  BY <1>1, CallTypeStep, PTL DEF CallSpec

-----------------------------------------------------------------------------
(* The initiator *)

LEMMA InitiatorStep == CallTypeOK /\ InitiatorKnown /\ [CallNext]_callVars => InitiatorKnown'
<1> SUFFICES ASSUME CallTypeOK, InitiatorKnown, [CallNext]_callVars, NEW j \in Kiosk
             PROVE  call'[j].by # None <=> call'[j].state \in {"connecting", "connected"}
  BY DEF InitiatorKnown, InProgress
<1> DEFINE Known == call'[j].by # None <=> call'[j].state \in {"connecting", "connected"}
<1>A. /\ call \in [Kiosk -> Call]
      /\ {"idle", "connecting", "connected", "ended"} \subseteq CallState
  BY DEF CallTypeOK, Call, CallState
<1>0. CASE call'[j] = call[j]
  BY <1>0 DEF InitiatorKnown, InProgress
<1>1. CASE SessionStep
  <2>1. CASE call'[j] = Idle
    BY <2>1 DEF Idle
  <2> QED
    BY <1>0, <1>1, <2>1, SessionCallStep
<1>2. ASSUME NEW x \in Socket, NEW k \in Kiosk, CallStep(x, k)
      PROVE  Known
  <2>0. CASE j # k
    BY <1>0, <1>2, <1>A, <2>0 DEF CallStep, CallRequest, CallAccept, CallReject, CallEnd
  <2>1. CASE j = k /\ CallRequest(x, k)
    <3>1. call'[j] = UpdatedCall(call[j], "connecting", SideOf(x))
      BY <1>A, <2>1 DEF CallRequest
    <3>2. SideOf(x) \in Side \cup {None} /\ SideOf(x) # None
      BY CallConstantsAssumption DEF SideOf, Side
    <3> QED
      BY <1>A, <3>1, <3>2, UpdatedCallKnows
  <2>2. CASE j = k /\ CallAccept(x, k)
    <3>1. call'[j] = UpdatedCall(call[j], "connected", None)
      BY <1>A, <2>2 DEF CallAccept
    <3>2. call[j].by # None
      BY <2>2 DEF CallAccept, InitiatorKnown, InProgress
    <3> QED
      BY <1>A, <3>1, <3>2, UpdatedCallKnows
  <2>3. CASE j = k /\ (CallReject(x, k) \/ CallEnd(x, k))
    <3>1. PICK state \in {"idle", "ended"} : call'[j] = UpdatedCall(call[j], state, None)
      BY <1>A, <2>3 DEF CallReject, CallEnd
    <3> QED
      BY <3>1, UpdatedCallForgets
  <2> QED
    BY <1>2, <2>0, <2>1, <2>2, <2>3 DEF CallStep
<1>3. ASSUME NEW k \in Kiosk, TimerFires(k)
      PROVE  Known
  <2>1. CASE j # k \/ session[k] = None
    BY <1>0, <1>3, <1>A, <2>1 DEF TimerFires
  <2>2. CASE j = k /\ session[k] # None
    <3>1. call'[j] = UpdatedCall(call[j], "idle", None)
      BY <1>3, <1>A, <2>2 DEF TimerFires
    <3> QED
      BY <3>1, UpdatedCallForgets
  <2> QED
    BY <2>1, <2>2
<1>4. CASE UNCHANGED callVars
  BY <1>0, <1>4 DEF callVars
<1> QED
  BY <1>1, <1>2, <1>3, <1>4 DEF CallNext

(***************************************************************************)
(* Through requests, answers, ends, timers of earlier calls and changes of  *)
(* session, a call in progress has an initiator and no other call has one.  *)
(***************************************************************************)
THEOREM InitiatorAlwaysKnown == CallSpec => []InitiatorKnown
<1>1. CallInit => InitiatorKnown
  BY DEF CallInit, InitiatorKnown, InProgress, Idle
<1> QED
  BY <1>1, CallTypeCorrect, InitiatorStep, PTL DEF CallSpec

-----------------------------------------------------------------------------
(* Ended calls *)

(***************************************************************************)
(* An ended call belongs to a session and a timer for it has still to fire; *)
(* it may be the timer of another call of the same id.                      *)
(***************************************************************************)
EndedTimed ==
  \A k \in Kiosk : call[k].state = "ended" => session[k] # None /\ timers[k] > 0

LEMMA EndedStep == CallTypeOK /\ EndedTimed /\ [CallNext]_callVars => EndedTimed'
<1> SUFFICES ASSUME CallTypeOK, EndedTimed, [CallNext]_callVars, NEW j \in Kiosk,
                    call'[j].state = "ended"
             PROVE  session'[j] # None /\ timers'[j] > 0
  BY DEF EndedTimed
<1> USE CallConstantsAssumption
<1>T. /\ call \in [Kiosk -> Call] /\ timers \in [Kiosk -> 0 .. MaxTimers]
      /\ timers[j] \in Nat
  BY DEF CallTypeOK, Call
<1>E. call[j].state = "ended" => session[j] # None /\ timers[j] > 0
  BY DEF EndedTimed
<1>1. CASE SessionStep
  <2>1. call'[j].state = "ended" => session'[j] = session[j] /\ call'[j] = call[j]
    BY <1>1 DEF SessionStep, Idle
  <2> QED
    BY <1>1, <1>E, <2>1 DEF SessionStep
<1>2. ASSUME NEW x \in Socket, NEW k \in Kiosk, CallStep(x, k)
      PROVE  session'[j] # None /\ timers'[j] > 0
  <2>1. CASE j # k
    BY <1>2, <1>T, <1>E, <2>1
       DEF CallStep, CallRequest, CallAccept, CallReject, CallEnd, vars
  <2>2. CASE j = k /\ CallEnd(x, k)
    BY <1>T, <2>2 DEF CallEnd, vars
  <2>3. CASE j = k /\ (CallRequest(x, k) \/ CallAccept(x, k) \/ CallReject(x, k))
    BY <1>T, <2>3 DEF CallRequest, CallAccept, CallReject, UpdatedCall
  <2> QED
    BY <1>2, <2>1, <2>2, <2>3 DEF CallStep
<1>3. ASSUME NEW k \in Kiosk, TimerFires(k)
      PROVE  session'[j] # None /\ timers'[j] > 0
  <2>1. CASE j # k
    BY <1>3, <1>T, <1>E, <2>1 DEF TimerFires, vars
  <2>2. CASE j = k /\ session[k] # None
    <3>1. call'[j] = UpdatedCall(call[j], "idle", None)
      BY <1>3, <1>T, <2>2 DEF TimerFires
    <3> QED
      BY <3>1, UpdatedCallForgets
  <2>3. CASE j = k /\ session[k] = None
    BY <1>3, <1>T, <1>E, <2>3 DEF TimerFires
  <2> QED
    BY <2>1, <2>2, <2>3
<1>4. CASE UNCHANGED callVars
  BY <1>4, <1>E DEF callVars, vars
<1> QED
  BY <1>1, <1>2, <1>3, <1>4 DEF CallNext

(***************************************************************************)
(* No ended call is left without a timer, though timers reset whatever call *)
(* they find and outlive the sessions they were set in.                     *)
(***************************************************************************)
THEOREM EndedAlwaysTimed == CallSpec => []EndedTimed
<1>1. CallInit => EndedTimed
  BY DEF CallInit, EndedTimed, Idle
<1> QED
  BY <1>1, CallTypeCorrect, EndedStep, PTL DEF CallSpec

-----------------------------------------------------------------------------

EndedIn(k) == call[k].state = "ended"

OverIn(k) == call[k].state # "ended"

(***************************************************************************)
(* What weak fairness asks for and the prover cannot see: ENABLED.  It is   *)
(* the guard of TimerFires, whose primed variables are all assigned.        *)
(***************************************************************************)
TimerEnabled ==
  \A k \in Kiosk : timers[k] > 0 => ENABLED <<TimerFires(k)>>_callVars

(***************************************************************************)
(* Timers that fire are enough for every ended call to become idle again or *)
(* to give way to another.                                                  *)
(***************************************************************************)
THEOREM EndedCallsSettle == CallSpec /\ []TimerEnabled => EndedSettles
<1>1. SUFFICES ASSUME NEW k \in Kiosk
               PROVE  CallSpec /\ []TimerEnabled => (EndedIn(k) ~> OverIn(k))
  BY DEF EndedSettles, EndedIn, OverIn
<1>2. CallSpec => [](CallTypeOK /\ EndedTimed)
  BY CallTypeCorrect, EndedAlwaysTimed, PTL
<1>3. TimersRun => TimerRuns(k)
  BY DEF TimersRun
<1>4. TimerEnabled /\ EndedTimed /\ EndedIn(k) => ENABLED <<TimerFires(k)>>_callVars
  BY DEF TimerEnabled, EndedTimed, EndedIn
<1>5. CallTypeOK /\ EndedTimed /\ EndedIn(k) /\ <<TimerFires(k)>>_callVars => OverIn(k)'
  <2> SUFFICES ASSUME CallTypeOK, EndedTimed, EndedIn(k), TimerFires(k)
               PROVE  OverIn(k)'
    OBVIOUS
  <2>1. call'[k] = UpdatedCall(call[k], "idle", None)
    BY DEF CallTypeOK, EndedTimed, EndedIn, TimerFires
  <2> QED
    BY <2>1, UpdatedCallForgets DEF OverIn
<1>6. ~EndedIn(k) => OverIn(k)
  BY DEF EndedIn, OverIn
<1>7. QED
  BY <1>2, <1>3, <1>4, <1>5, <1>6, PTL DEF CallSpec, TimerRuns

-----------------------------------------------------------------------------
(* Calls and sessions *)

LEMMA CallKeepsSessions == CallInit /\ [][CallNext]_callVars => Init /\ [][Next]_vars
<1>1. CallInit => Init
  BY DEF CallInit
<1>2. [CallNext]_callVars => [Next]_vars
  BY DEF CallNext, SessionStep, CallStep, CallRequest, CallAccept, CallReject, CallEnd,
         TimerFires, callVars
<1> QED
  BY <1>1, <1>2, PTL

(***************************************************************************)
(* The handlers of calls and their timers leave connections, registrations  *)
(* and sessions alone: with calls the socket core is still the socket core. *)
(***************************************************************************)
THEOREM CallsLeaveSessions == CallSpec => Spec
BY CallKeepsSessions DEF CallSpec, Spec

(***************************************************************************)
(* So with calls, too, sessions are attended and implement the lock, and    *)
(* lost connections are cleaned up.                                         *)
(***************************************************************************)
COROLLARY StationCorrect ==
  FairCallSpec =>
    /\ []SessionsAttended
    /\ LockSpec
    /\ []CleanupEnabled => LostConnectionsCleaned
BY CallsLeaveSessions, SessionsAlwaysAttended, LockRefined, LostConnectionsClean DEF FairCallSpec

=============================================================================
