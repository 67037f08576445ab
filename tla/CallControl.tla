---------------------------- MODULE CallControl ----------------------------
(***************************************************************************)
(* The call inside a monitoring session: the handlers call-request,         *)
(* call-accept, call-reject and call-end of src/socket/index.js, the call   *)
(* state they keep in the session (src/state/sessions.state.js), and the    *)
(* timer that call-end sets.  All four handlers run without an await.       *)
(***************************************************************************)
EXTENDS KioskSessions, Naturals

CONSTANT MaxTimers   \* bound on the timers of one id that run at a time

Side == {"monitor", "kiosk"}

ASSUME CallConstantsAssumption ==
  /\ MaxTimers \in Nat
  /\ None \notin Side

VARIABLES
  call,     \* the call of each session; of no meaning without a session
  timers    \* how many timers of call-end have still to fire, by id

callVars == <<vars, call, timers>>

CallState == {"idle", "connecting", "connected", "ended"}

Idle == [state |-> "idle", by |-> None]

InProgress(k) == call[k].state \in {"connecting", "connected"}

SideOf(x) == IF x \in MonitorSocket THEN "monitor" ELSE "kiosk"

CallInit ==
  /\ Init
  /\ call = [k \in Kiosk |-> Idle]
  /\ timers = [k \in Kiosk |-> 0]

(***************************************************************************)
(* What happens to connections, kiosks and sessions: the call is a field of *)
(* the session, so a new session has a new call and an ended one none.      *)
(* Timers are not cancelled.                                                *)
(***************************************************************************)
SessionStep ==
  /\ Next
  /\ call' = [k \in Kiosk |-> IF session'[k] = session[k] THEN call[k] ELSE Idle]
  /\ UNCHANGED timers

(* updateCallState: an initiator is stored if given, and cleared with the call. *)
UpdatedCall(c, state, by) ==
  [state |-> state,
   by |-> IF state \in {"ended", "idle"} THEN None
          ELSE IF by # None THEN by ELSE c.by]

(* call-request: only the two parties, and no call may be in progress. *)
CallRequest(x, k) ==
  /\ phase[x] = "open"
  /\ session[k] # None
  /\ IF x \in MonitorSocket THEN session[k] = x ELSE OwnsKiosk(x, k)
  /\ ~InProgress(k)
  /\ call' = [call EXCEPT ![k] = UpdatedCall(@, "connecting", SideOf(x))]
  /\ UNCHANGED <<vars, timers>>

(* call-accept: a socket of the other side; that it is the party is not checked. *)
CallAccept(x, k) ==
  /\ phase[x] = "open"
  /\ session[k] # None
  /\ call[k].state = "connecting"
  /\ call[k].by # SideOf(x)
  /\ call' = [call EXCEPT ![k] = UpdatedCall(@, "connected", None)]
  /\ UNCHANGED <<vars, timers>>

(* call-reject: any socket, the initiator too. *)
CallReject(x, k) ==
  /\ phase[x] = "open"
  /\ session[k] # None
  /\ call[k].state = "connecting"
  /\ call' = [call EXCEPT ![k] = UpdatedCall(@, "idle", None)]
  /\ UNCHANGED <<vars, timers>>

(* Mutant of CallEnd: the reset is not scheduled. *)
CallEndWithoutTimer(x, k) ==
  /\ phase[x] = "open"
  /\ session[k] # None
  /\ call[k].state = "connected"
  /\ call' = [call EXCEPT ![k] = UpdatedCall(@, "ended", None)]
  /\ UNCHANGED <<vars, timers>>

(* call-end: any socket; the timer will reset whatever call it finds. *)
CallEnd(x, k) ==
  /\ phase[x] = "open"
  /\ session[k] # None
  /\ call[k].state = "connected"
  /\ timers[k] < MaxTimers
  /\ call' = [call EXCEPT ![k] = UpdatedCall(@, "ended", None)]
  /\ timers' = [timers EXCEPT ![k] = @ + 1]
  /\ UNCHANGED vars

(* A timer of call-end fires: the session of the id, if there is one, is idle. *)
TimerFires(k) ==
  /\ timers[k] > 0
  /\ timers' = [timers EXCEPT ![k] = @ - 1]
  /\ call' = [call EXCEPT ![k] =
                IF session[k] = None THEN @ ELSE UpdatedCall(@, "idle", None)]
  /\ UNCHANGED vars

CallStep(x, k) ==
  \/ CallRequest(x, k)
  \/ CallAccept(x, k)
  \/ CallReject(x, k)
  \/ CallEnd(x, k)

CallNext ==
  \/ SessionStep
  \/ \E x \in Socket, k \in Kiosk : CallStep(x, k)
  \/ \E k \in Kiosk : TimerFires(k)

(* A timer that was set fires; people need not answer or end their calls. *)
TimerRuns(k) == WF_callVars(TimerFires(k))

TimersRun == \A k \in Kiosk : TimerRuns(k)

CallSpec ==
  /\ CallInit
  /\ [][CallNext]_callVars
  /\ TimersRun

(* The same, and disconnect handlers that have begun are run to an end. *)
FairCallSpec == CallSpec /\ CleanupFairness

-----------------------------------------------------------------------------
(* Properties *)

CallTypeOK ==
  /\ TypeOK
  /\ call \in [Kiosk -> [state : CallState, by : Side \cup {None}]]
  /\ timers \in [Kiosk -> 0 .. MaxTimers]

(***************************************************************************)
(* A call in progress knows who started it, so somebody can answer it; and  *)
(* an idle or ended one has forgotten, so that the next call of either side *)
(* starts clean, through rejections, ends, timers and changes of session.   *)
(***************************************************************************)
InitiatorKnown ==
  \A k \in Kiosk : (call[k].by # None) <=> InProgress(k)

(***************************************************************************)
(* An ended call does not stay ended: it becomes idle, is taken up again,   *)
(* or goes with its session, whichever sessions the timer outlives.         *)
(***************************************************************************)
EndedSettles ==
  \A k \in Kiosk : call[k].state = "ended" ~> call[k].state # "ended"

(***************************************************************************)
(* The timer of call-end resets an ended call only ("Reset call state to    *)
(* idle after a short delay"): a call somebody has started since is not     *)
(* dropped by it.  The timer does not ask which call it finds.              *)
(***************************************************************************)
TimerSparesNewCall ==
  [][\A k \in Kiosk :
       InProgress(k) /\ timers'[k] < timers[k] => call'[k] = call[k]]_callVars

=============================================================================
