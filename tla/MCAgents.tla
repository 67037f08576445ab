------------------------------ MODULE MCAgents ------------------------------
(***************************************************************************)
(* The agent side of the server.  Its parts share no variable, so an        *)
(* interleaving of two shows nothing that each does not show alone: every   *)
(* behaviour of this specification is one of one part, the others at rest,  *)
(* and the state space is their sum instead of their product.               *)
(***************************************************************************)
EXTENDS PiAgents, StreamFrames, WebrtcOffers, TLC

CONSTANTS
  s1, s2,  \* sockets of the agent
  p1, p2,  \* rows
  c1, c2,  \* cameras
  u1, u2,  \* frames
  e1,      \* registration
  o1, o2   \* offers

VARIABLE part

AgentSideInit ==
  /\ part \in {"agents", "frames", "offers"}
  /\ AgentInit
  /\ FrameInit
  /\ OfferInit

AgentSideNext ==
  /\ UNCHANGED part
  /\ \/ part = "agents" /\ AgentNext /\ UNCHANGED <<frameVars, offerVars>>
     \/ part = "frames" /\ FrameNext /\ UNCHANGED <<agentVars, offerVars>>
     \/ part = "offers" /\ OfferNext /\ UNCHANGED <<agentVars, frameVars>>

AgentSideSpec ==
  /\ AgentSideInit /\ [][AgentSideNext]_<<part, agentVars, frameVars, offerVars>>
  /\ AgentFairness
  /\ FrameFairness
  /\ OfferFairness

=============================================================================
