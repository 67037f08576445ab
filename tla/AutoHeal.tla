------------------------------ MODULE AutoHeal ------------------------------
(***************************************************************************)
(* The recovery of unhealthy devices (src/modules/health/health.service.js).*)
(* Three timers run the health tiers (src/services/deviceHealth.scheduler.js *)
(* does not wait for a run to end before it starts the next), each run      *)
(* loads the device rows once and then checks one device after the other.   *)
(* A check that fails may queue a recovery command, at most one in ten      *)
(* minutes and three in an hour.                                            *)
(*                                                                          *)
(* One device is followed: runs treat devices independently.  Times appear  *)
(* as ages, in ticks, capped where nothing tells them apart any more.  The  *)
(* outcome of a check is a choice, and health columns are left out: no      *)
(* later decision reads them.                                               *)
(***************************************************************************)
EXTENDS Naturals, FiniteSets

CONSTANTS
  Run,         \* tier runs that may be in flight at a time
  Command,     \* recovery commands, each free again when it is forgotten
  Cooldown,    \* ticks in ten minutes
  Hour,        \* ticks in an hour
  Limit,       \* heals in an hour, 3 in the code
  MaxRunAge,   \* bound on the ticks a run takes
  MaxFailure,  \* bound on the runs an await throws out of
  None

ASSUME HealConstantsAssumption ==
  /\ IsFiniteSet(Run)
  /\ IsFiniteSet(Command)
  /\ Cooldown \in Nat \ {0}
  /\ Hour \in Nat \ {0}
  /\ Limit \in Nat \ {0}
  /\ MaxRunAge \in Nat
  /\ MaxRunAge < Hour
  /\ MaxFailure \in Nat
  /\ None \notin Command

VARIABLES
  recovery,  \* age of the device's last_recovery_at
  run,       \* the runs
  queued,    \* age of each recovery command
  logged,    \* age of its AUTOHEAL_TRIGGERED entry
  failures

healVars == <<recovery, run, queued, logged, failures>>

(***************************************************************************)
(* A run has "loaded" the row and waits for the queries of the check; it is *)
(* about to "enqueue" the command, to "stamp" the row and to "log" the      *)
(* heal.  "recovery" is its copy of last_recovery_at, "stale" is history:   *)
(* the row was stamped by somebody else since it was loaded.                *)
(***************************************************************************)
HealRun == [stage : {"idle", "loaded", "enqueue", "stamp", "log"},
            recovery : 0 .. Cooldown, age : 0 .. MaxRunAge,
            command : Command \cup {None}, stale : BOOLEAN]

NoRun == [stage |-> "idle", recovery |-> Cooldown, age |-> 0, command |-> None, stale |-> FALSE]

InFlight(r) == run[r].stage # "idle"

(* Commands and entries of the last hour. *)
RecentCommands == {x \in Command : queued[x] < Hour}

RecentLogs == {x \in Command : logged[x] < Hour}

Forgotten(x) == queued[x] = Hour /\ logged[x] = Hour

HealInit ==
  /\ recovery = Cooldown
  /\ run = [r \in Run |-> NoRun]
  /\ queued = [x \in Command |-> Hour]
  /\ logged = [x \in Command |-> Hour]
  /\ failures = 0

Older(age, cap) == IF age < cap THEN age + 1 ELSE cap

(* Time passes; no run takes longer than MaxRunAge. *)
Tick ==
  /\ \A r \in Run : InFlight(r) => run[r].age < MaxRunAge
  /\ recovery' = Older(recovery, Cooldown)
  /\ run' = [r \in Run |->
               IF InFlight(r)
                 THEN [run[r] EXCEPT !.recovery = Older(@, Cooldown), !.age = @ + 1]
                 ELSE run[r]]
  /\ queued' = [x \in Command |-> Older(queued[x], Hour)]
  /\ logged' = [x \in Command |-> Older(logged[x], Hour)]
  /\ UNCHANGED failures

(* A timer fires: the rows of all active devices are read. *)
Load(r) ==
  /\ run[r] = NoRun
  /\ run' = [run EXCEPT ![r] = [NoRun EXCEPT !.stage = "loaded", !.recovery = recovery]]
  /\ UNCHANGED <<recovery, queued, logged, failures>>

(* The check succeeds, auto-heal is disabled, or the last recovery is recent. *)
Spare(r) ==
  /\ run[r].stage = "loaded"
  /\ run' = [run EXCEPT ![r] = NoRun]
  /\ UNCHANGED <<recovery, queued, logged, failures>>

(* Mutant of CooledDown: the cooldown is over one tick early. *)
CooledDownEarly(r) == run[r].recovery + 1 >= Cooldown

(* The cooldown is judged by the row as the run loaded it. *)
CooledDown(r) == run[r].recovery >= Cooldown

(* Mutant of MayAttempt: an off-by-one. *)
MayAttemptOnceMore == Cardinality(RecentLogs) <= Limit

MayAttempt == Cardinality(RecentLogs) < Limit

(* The check fails and the heals of the last hour are counted. *)
Attempt(r) ==
  /\ run[r].stage = "loaded"
  /\ CooledDown(r)
  /\ run' = [run EXCEPT ![r] = IF MayAttempt THEN [@ EXCEPT !.stage = "enqueue"] ELSE NoRun]
  /\ UNCHANGED <<recovery, queued, logged, failures>>

(* enqueueDeviceCommand: the command is inserted. *)
Enqueue(r, x) ==
  /\ run[r].stage = "enqueue"
  /\ Forgotten(x)
  /\ queued' = [queued EXCEPT ![x] = 0]
  /\ run' = [run EXCEPT ![r] = [@ EXCEPT !.stage = "stamp", !.command = x]]
  /\ UNCHANGED <<recovery, logged, failures>>

(* What a stamp of the row is to the runs that loaded it earlier. *)
Outdated(q) == IF InFlight(q) THEN [run[q] EXCEPT !.stale = TRUE] ELSE run[q]

(* The row is stamped with the time of the recovery. *)
Stamp(r) ==
  /\ run[r].stage = "stamp"
  /\ recovery' = 0
  /\ run' = [q \in Run |->
               IF q = r THEN [run[r] EXCEPT !.stage = "log", !.recovery = 0] ELSE Outdated(q)]
  /\ UNCHANGED <<queued, logged, failures>>

(* The heal is logged, which is what later runs count. *)
WriteLog(r) ==
  /\ run[r].stage = "log"
  /\ logged' = [logged EXCEPT ![run[r].command] = 0]
  /\ run' = [run EXCEPT ![r] = NoRun]
  /\ UNCHANGED <<recovery, queued, failures>>

(* An await throws: the run goes on with the next device. *)
HealFails(r) ==
  /\ InFlight(r)
  /\ failures < MaxFailure
  /\ failures' = failures + 1
  /\ run' = [run EXCEPT ![r] = NoRun]
  /\ UNCHANGED <<recovery, queued, logged>>

(* triggerManualRecovery: its queries are taken as one step; it is not counted. *)
ManualRecovery ==
  /\ recovery' = 0
  /\ run' = [q \in Run |-> Outdated(q)]
  /\ UNCHANGED <<queued, logged, failures>>

HealStep(r) ==
  \/ Load(r)
  \/ Spare(r)
  \/ Attempt(r)
  \/ \E x \in Command : Enqueue(r, x)
  \/ Stamp(r)
  \/ WriteLog(r)
  \/ HealFails(r)

HealNext == Tick \/ ManualRecovery \/ (\E r \in Run : HealStep(r))

HealSpec == HealInit /\ [][HealNext]_healVars

-----------------------------------------------------------------------------
(* Properties *)

HealTypeOK ==
  /\ recovery \in 0 .. Cooldown
  /\ run \in [Run -> HealRun]
  /\ queued \in [Command -> 0 .. Hour]
  /\ logged \in [Command -> 0 .. Hour]
  /\ failures \in 0 .. MaxFailure

(***************************************************************************)
(* The budget of an hour is overdrawn only by runs that overlap and by runs *)
(* that fail half way: a device is sent at most the Limit of recovery       *)
(* commands, one more for each other run in flight, and one more for each   *)
(* run that failed before it could log its heal.                            *)
(***************************************************************************)
CommandsBounded ==
  Cardinality(RecentCommands) <= (Limit - 1) + Cardinality(Run) + failures

(***************************************************************************)
(* Recoveries keep their distance: a run stamps the row within the cooldown *)
(* of another recovery only if that recovery came after it had loaded the   *)
(* row.                                                                     *)
(***************************************************************************)
RecoveryPaced ==
  [][\A r \in Run :
       run[r].stage = "stamp" /\ run'[r].stage = "log" /\ ~run[r].stale =>
         recovery = Cooldown]_healVars

=============================================================================
