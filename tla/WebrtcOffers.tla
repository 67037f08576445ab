----------------------------- MODULE WebrtcOffers ---------------------------
(***************************************************************************)
(* WebRTC offers of viewers that are relayed to a Raspberry Pi agent and    *)
(* wait for its answer (src/modules/monitoring/                             *)
(* monitoring.webrtc.controller.js, webrtc:answer in                        *)
(* src/socket/monitoring.handlers.js).  One device is followed; several of  *)
(* its sockets may be in its room.                                          *)
(***************************************************************************)

CONSTANTS
  Offer,  \* offers, by request id
  Agent   \* sockets of the agent

VARIABLES
  room,     \* sockets in the room of the device
  offer,    \* the HTTP request of each offer
  pending,  \* pendingOffers, each with its timer
  unheard   \* offers emitted to a socket that has not answered

offerVars == <<room, offer, pending, unheard>>

OfferInit ==
  /\ room = Agent
  /\ offer = [o \in Offer |-> "new"]
  /\ pending = {}
  /\ unheard = {}

(* proxyWebrtcOffer: 503 when the room is empty; otherwise the request waits,
   with a timer, and the offer is emitted to every socket of the room. *)
OfferStart(o) ==
  /\ offer[o] = "new"
  /\ IF room = {}
       THEN /\ offer' = [offer EXCEPT ![o] = "refused"]
            /\ UNCHANGED <<pending, unheard>>
       ELSE /\ offer' = [offer EXCEPT ![o] = "waiting"]
            /\ pending' = pending \cup {o}
            /\ unheard' = unheard \cup ({o} \X room)
  /\ UNCHANGED room

(* Mutant of Settles: an answer with an error is dropped. *)
SettlesUnlessError(o, error) == o \in pending /\ ~error

Settles(o, error) == o \in pending

(* handleWebrtcAnswer: the first answer settles the request; one that comes
   after another, or after the timeout, finds no pending offer. *)
Answer(o, a, error) ==
  /\ <<o, a>> \in unheard
  /\ unheard' = unheard \ {<<o, a>>}
  /\ pending' = pending \ {o}
  /\ offer' = IF Settles(o, error)
                THEN [offer EXCEPT ![o] = IF error THEN "failed" ELSE "answered"]
                ELSE offer
  /\ UNCHANGED room

(* The timer of a pending offer. *)
OfferTimesOut(o) ==
  /\ o \in pending
  /\ pending' = pending \ {o}
  /\ offer' = [offer EXCEPT ![o] = "failed"]
  /\ UNCHANGED <<room, unheard>>

(* A socket leaves the room and never answers. *)
AgentLost(a) ==
  /\ a \in room
  /\ room' = room \ {a}
  /\ unheard' = unheard \ (Offer \X {a})
  /\ UNCHANGED <<offer, pending>>

-----------------------------------------------------------------------------

OfferNext ==
  \/ \E o \in Offer : OfferStart(o) \/ OfferTimesOut(o)
  \/ \E o \in Offer, a \in Agent, error \in BOOLEAN : Answer(o, a, error)
  \/ \E a \in Agent : AgentLost(a)

(* Timers fire; an answer may never come. *)
TimeoutRuns(o) == WF_offerVars(OfferTimesOut(o))

OfferFairness == \A o \in Offer : TimeoutRuns(o)

OfferSpec == OfferInit /\ [][OfferNext]_offerVars /\ OfferFairness

-----------------------------------------------------------------------------
(* Properties *)

(***************************************************************************)
(* Answers of several sockets, lost sockets and the timer race: the request *)
(* of an offer is answered in the end, and its entry has left pendingOffers. *)
(***************************************************************************)
OfferSettles == \A o \in Offer : []<>(offer[o] # "waiting" /\ o \notin pending)

=============================================================================
