-------------------------- MODULE MCKioskSessions --------------------------
(***************************************************************************)
(* A station at which an app user who logs in twice shares a device under   *)
(* the device's UUID, the id another connection's device token carries as   *)
(* its client id.                                                           *)
(***************************************************************************)
EXTENDS KioskSessions

CONSTANTS
  d1,          \* a connection with a device token for the device
  u1, u2,      \* connections of the app user
  m1,          \* a connection of a monitor with a device token
  a1,          \* a connection of an admin
  Clerk,       \* client id of the app user
  Device       \* UUID of the device

MCClientOf == [s \in KioskSocket |-> IF s = d1 THEN Device ELSE Clerk]

(* A device token registers its own id; an app user, itself or the device. *)
MCRegisterAs ==
  [s \in KioskSocket |-> IF s = u1 THEN {Device} ELSE {MCClientOf[s]}]

=============================================================================
