--------------------------- MODULE MCCallControl ---------------------------
(***************************************************************************)
(* One station: a kiosk with a device token under a plain id, whose         *)
(* connection is replaced once, a monitor and an admin that take turns, and *)
(* up to MaxTimers timers of earlier calls still running.                   *)
(***************************************************************************)
EXTENDS CallControl

CONSTANTS
  t1, t2,    \* connections of the kiosk
  m1, a1,    \* connections of the monitor and of the admin
  Terminal   \* the kiosk's id

MCClientOf == [s \in KioskSocket |-> Terminal]

MCRegisterAs == [s \in KioskSocket |-> {Terminal}]

=============================================================================
