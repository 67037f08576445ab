-------------------------- MODULE MCStreamSessions -------------------------
(***************************************************************************)
(* Two sockets of one user watch one agent, in one session or in two.       *)
(***************************************************************************)
EXTENDS StreamSessions

CONSTANTS
  s1, s2,    \* sessions
  v1, v2,    \* viewer sockets
  Watcher,   \* their user
  Agent      \* the device

MCUserOf == [v \in Viewer |-> Watcher]

=============================================================================
