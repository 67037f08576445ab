--------------------------- MODULE DeviceCommands ---------------------------
(***************************************************************************)
(* The command queue of a device (the last part of                          *)
(* src/socket/realtime.manager.js, its handlers in src/socket/index.js,     *)
(* agent.service.js and monitoring.service.js).  Operators and recovery     *)
(* queue commands; the agent polls for the oldest pending one, and may also *)
(* be pushed a command at once; it reports what became of it.               *)
(*                                                                          *)
(* One device is followed.  Claiming and completing are a query and an      *)
(* update of the loaded row, which writes what differs from the copy.       *)
(***************************************************************************)
EXTENDS Naturals, Sequences, SequencesExt

CONSTANTS
  Cmd,       \* commands, each free again when it is settled and forgotten
  Handler,   \* fetch and result handlers in flight
  MaxHanded, \* bound on the times a command is handed out
  NoCmd

ASSUME CommandConstantsAssumption ==
  /\ NoCmd \notin Cmd
  /\ MaxHanded \in Nat \ {0}

VARIABLES
  queue,   \* the rows, oldest request first
  state,   \* device_commands.status
  job,     \* the handlers
  owed,    \* results the agent may still report
  handed   \* history: times the command was handed out

commandVars == <<queue, state, job, owed, handed>>

Settled == {"COMPLETED", "FAILED"}

CommandJob == [kind : {"idle", "claim", "report"}, command : Cmd \cup {NoCmd},
               copy : {"PENDING", "PROCESSING"} \cup Settled, outcome : Settled]

IdleJob == [kind |-> "idle", command |-> NoCmd, copy |-> "PENDING", outcome |-> "FAILED"]

Queued(c) == Contains(queue, c)

CommandInit ==
  /\ queue = <<>>
  /\ state = [c \in Cmd |-> "PENDING"]
  /\ job = [h \in Handler |-> IdleJob]
  /\ owed = [c \in Cmd |-> 0]
  /\ handed = [c \in Cmd |-> 0]

(* enqueueDeviceCommand inserts the row; sendDeviceCommandForUser also emits
   the command to the room of the device. *)
EnqueueCommand(c, pushed) ==
  /\ ~Queued(c)
  /\ queue' = Append(queue, c)
  /\ state' = [state EXCEPT ![c] = "PENDING"]
  /\ owed' = [owed EXCEPT ![c] = IF pushed THEN 1 ELSE 0]
  /\ handed' = [handed EXCEPT ![c] = IF pushed THEN 1 ELSE 0]
  /\ UNCHANGED job

PendingAt(i) == i \in DOMAIN queue /\ state[queue[i]] = "PENDING"

(* Mutant of NextPending: the newest one first. *)
NextPendingNewest ==
  {queue[i] : i \in {j \in DOMAIN queue :
                       PendingAt(j) /\ \A k \in DOMAIN queue : PendingAt(k) => k <= j}}

(* The oldest pending command, if there is one. *)
NextPending ==
  {queue[i] : i \in {j \in DOMAIN queue :
                       PendingAt(j) /\ \A k \in DOMAIN queue : PendingAt(k) => j <= k}}

(* Mutant of HandedBy: the reply is sent before the row is written. *)
HandedByFirst(query) == IF query = "find" THEN 1 ELSE 0

(* The command goes to the agent with the reply, after both queries. *)
HandedBy(query) == IF query = "update" THEN 1 ELSE 0

HandOut(c, query) ==
  /\ owed' = [owed EXCEPT ![c] = @ + HandedBy(query)]
  /\ handed' = [handed EXCEPT ![c] = @ + HandedBy(query)]

(* fetch-device-command: claimNextDeviceCommand looks for a command ... *)
FetchFind(h) ==
  /\ job[h].kind = "idle"
  /\ \E c \in NextPending :
       /\ job' = [job EXCEPT ![h] = [IdleJob EXCEPT !.kind = "claim", !.command = c]]
       /\ HandOut(c, "find")
  /\ UNCHANGED <<queue, state>>

(* ... it was found PENDING, so PROCESSING is written whatever it is now. *)
FetchClaim(h) ==
  LET c == job[h].command IN
  /\ job[h].kind = "claim"
  /\ handed[c] < MaxHanded
  /\ state' = [state EXCEPT ![c] = "PROCESSING"]
  /\ HandOut(c, "update")
  /\ job' = [job EXCEPT ![h] = IdleJob]
  /\ UNCHANGED queue

(* complete-device-command, agent-command-result, device:command-result: the
   agent reports once for each time it was handed the command, or never;
   completeDeviceCommand loads the row ... *)
ResultLoad(h, c, outcome) ==
  /\ job[h].kind = "idle"
  /\ owed[c] > 0
  /\ owed' = [owed EXCEPT ![c] = @ - 1]
  /\ job' = [job EXCEPT ![h] =
               [kind |-> "report", command |-> c, copy |-> state[c], outcome |-> outcome]]
  /\ UNCHANGED <<queue, state, handed>>

(* ... and updates it, whatever its status. *)
ResultWrite(h) ==
  LET c == job[h].command IN
  /\ job[h].kind = "report"
  /\ state' = [state EXCEPT ![c] = IF job[h].copy = job[h].outcome THEN @ ELSE job[h].outcome]
  /\ job' = [job EXCEPT ![h] = IdleJob]
  /\ UNCHANGED <<queue, owed, handed>>

(* A settled command that nothing in flight names is of no further interest. *)
Forget(c) ==
  /\ Queued(c)
  /\ state[c] \in Settled
  /\ \A h \in Handler : job[h].command # c
  /\ \E i \in DOMAIN queue : queue[i] = c /\ queue' = RemoveAt(queue, i)
  /\ owed' = [owed EXCEPT ![c] = 0]
  /\ handed' = [handed EXCEPT ![c] = 0]
  /\ state' = [state EXCEPT ![c] = "PENDING"]
  /\ UNCHANGED job

Fetch(h) == FetchFind(h) \/ FetchClaim(h)

CommandNext ==
  \/ \E c \in Cmd, pushed \in BOOLEAN : EnqueueCommand(c, pushed)
  \/ \E h \in Handler : Fetch(h) \/ ResultWrite(h)
  \/ \E h \in Handler, c \in Cmd, outcome \in Settled : ResultLoad(h, c, outcome)
  \/ \E c \in Cmd : Forget(c)

(* An agent polls again and again, and queries are answered; SF because the
   model's handlers also serve results. *)
CommandFairness ==
  \A h \in Handler : SF_commandVars(Fetch(h)) /\ WF_commandVars(ResultWrite(h))

CommandSpec == CommandInit /\ [][CommandNext]_commandVars /\ CommandFairness

-----------------------------------------------------------------------------
(* Properties *)

CommandTypeOK ==
  /\ queue \in Seq(Cmd)
  /\ state \in [Cmd -> {"PENDING", "PROCESSING"} \cup Settled]
  /\ job \in [Handler -> CommandJob]
  /\ owed \in [Cmd -> Nat]
  /\ handed \in [Cmd -> Nat]

(***************************************************************************)
(* A polling agent is handed every command in the end: none is overtaken    *)
(* for ever by newer ones.                                                  *)
(***************************************************************************)
CommandHandedOut == \A c \in Cmd : []<>(~Queued(c) \/ state[c] # "PENDING")

(***************************************************************************)
(* A settled command stays as it is, unless it was handed out twice: by two *)
(* polls that overlapped, or by a push and a poll.                          *)
(***************************************************************************)
SettledStays ==
  [][\A c \in Cmd :
       Queued(c) /\ state[c] \in Settled /\ state'[c] # state[c] /\ Contains(queue', c) =>
         handed'[c] > 1]_commandVars

=============================================================================
