---------------------------- MODULE MonitorLock ----------------------------
(***************************************************************************)
(* What the backend promises about monitoring, with no handler, await or    *)
(* database in sight: each kiosk carries one lock, a connected monitor may  *)
(* take a lock that is free or whose holder is no longer connected, and a   *)
(* held lock can be given back or withdrawn, but it never passes straight   *)
(* from one connected monitor to another.  The rule is stated in            *)
(* src/state/sessions.state.js ("Only one MONITOR per KIOSK at a time") and  *)
(* above the start-monitoring handler of src/socket/index.js.               *)
(***************************************************************************)
CONSTANTS
  Kiosk,      \* the ids monitoring is locked by
  Monitor,    \* the monitor sockets that compete for them
  None        \* nobody holds the lock

VARIABLES
  lock,       \* [Kiosk -> Monitor \cup {None}], the holder of each kiosk
  up          \* the monitors connected now

lockVars == <<lock, up>>

Free(k) == lock[k] = None

Orphaned(k) == lock[k] # None /\ lock[k] \notin up

Init ==
  /\ lock = [k \in Kiosk |-> None]
  /\ up = {}

(* A monitor connects. *)
Arrive(m) ==
  /\ m \notin up
  /\ up' = up \cup {m}
  /\ UNCHANGED lock

(* A monitor is lost; the locks it holds become orphaned, not free. *)
Depart(m) ==
  /\ m \in up
  /\ up' = up \ {m}
  /\ UNCHANGED lock

(* A connected monitor takes a free or orphaned lock. *)
Take(m, k) ==
  /\ m \in up
  /\ Free(k) \/ Orphaned(k)
  /\ lock' = [lock EXCEPT ![k] = m]
  /\ UNCHANGED up

(* Some locks are given back by their holder, or withdrawn with the kiosk. *)
Release(ks) ==
  /\ lock' = [k \in Kiosk |-> IF k \in ks THEN None ELSE lock[k]]
  /\ UNCHANGED up

Next ==
  \/ \E m \in Monitor : Arrive(m) \/ Depart(m) \/ (\E k \in Kiosk : Take(m, k))
  \/ \E ks \in SUBSET Kiosk : Release(ks)

Spec == Init /\ [][Next]_lockVars

=============================================================================
