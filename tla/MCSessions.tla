---------------------------- MODULE MCSessions -----------------------------
(***************************************************************************)
(* Three checks of safety that share no variable, so that their state       *)
(* spaces may be added up: a behaviour is one of the devices of             *)
(* MCDeviceSessions, or of a device with two sessions in turn, watched by   *)
(* one person from one socket, or of the kiosks of a station with one       *)
(* admin.  The other parts rest in their initial states.                    *)
(***************************************************************************)
EXTENDS MCDeviceSessions, KioskSessions, Observers, TLC

CONSTANTS
  w1, p1,        \* the socket of the person p1
  s1, s2,        \* the observed sessions
  u1, u2, d1,    \* two logins of a clerk and a connection of the device
  ka1,           \* a connection of an admin of the kiosks
  Clerk, Tablet  \* the clerk's client id and the kiosk's UUID

MCWatcherPerson == w1 :> p1

(***************************************************************************)
(* The clerk, who logs in twice, shares the tablet under the tablet's UUID, *)
(* the id the tablet's own device token carries.                            *)
(***************************************************************************)
MCClientOf == u1 :> Clerk @@ u2 :> Clerk @@ d1 :> Tablet

MCRegisterAs == u1 :> {Tablet} @@ u2 :> {Clerk} @@ d1 :> {Tablet}

VARIABLE part

sessionsVars == <<part, devVars, observerVars, vars>>

SessionsInit ==
  /\ part \in {"devices", "observers", "kiosks"}
  /\ DevInit
  /\ ObserverInit
  /\ Init

(* The ids of the observed sessions are alike: the first row gets s1. *)
S1First == born' # {s2}

SessionsNext ==
  \/ part = "devices" /\ DevNext /\ UNCHANGED <<part, observerVars, vars>>
  \/ part = "observers" /\ ObserverNext /\ S1First /\ UNCHANGED <<part, devVars, vars>>
  \/ part = "kiosks" /\ Next /\ UNCHANGED <<part, devVars, observerVars>>

SessionsSpec == SessionsInit /\ [][SessionsNext]_sessionsVars

=============================================================================
