------------------------- MODULE MCDeviceSessions --------------------------
(***************************************************************************)
(* A field monitor without a division and an admin compete for one device.  *)
(* The field monitor may connect twice.                                     *)
(***************************************************************************)
EXTENDS DeviceSessions

CONSTANTS
  f1, f2,   \* connections of the field monitor
  a1,       \* a connection of the admin
  Field, Admin,
  Camera,   \* the device
  e1        \* the one endMonitoringSession call in flight

MCUserOf == [m \in DevSocket |-> IF m = a1 THEN Admin ELSE Field]

=============================================================================
