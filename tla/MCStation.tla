----------------------------- MODULE MCStation -----------------------------
(***************************************************************************)
(* Two checks that share no variable, so that their state spaces may be     *)
(* added up: a behaviour is one of the station of MCCallControl, or of a    *)
(* device that a field monitor without a division watches from one          *)
(* connection while queries fail and the server restarts.  The other part   *)
(* rests in its initial state, where nothing fair is enabled.               *)
(***************************************************************************)
EXTENDS MCCallControl, DeviceSessions, TLC

CONSTANTS
  f1, Field,   \* a connection of the field monitor
  Camera,      \* the device
  e1           \* the one endMonitoringSession call in flight

MCUserOf == f1 :> Field

VARIABLE part

stationVars == <<part, callVars, devVars>>

StationInit ==
  /\ part \in {"station", "field"}
  /\ CallInit
  /\ DevInit

StationNext ==
  \/ part = "station" /\ CallNext /\ UNCHANGED <<part, devVars>>
  \/ part = "field" /\ DevNext /\ UNCHANGED <<part, callVars>>

StationSpec ==
  /\ StationInit
  /\ [][StationNext]_stationVars
  /\ TimersRun
  /\ CleanupFairness
  /\ SweepsRun

=============================================================================
