--------------------------- MODULE AutoHealProofs ---------------------------
(***************************************************************************)
(* Proofs about AutoHeal, for every finite set of runs and commands, every  *)
(* length of the cooldown and of the hour and every limit: type             *)
(* correctness, the bound on the recovery commands of an hour, and the      *)
(* distance between recoveries; and about DeviceCommands, for every set of  *)
(* commands and handlers: what becomes of a settled command.  The modules   *)
(* share no state; a section is about one of them.                          *)
(*                                                                          *)
(* The bound rests on two budgets.  Recent heals that are logged, with the  *)
(* runs that have passed the count, are at most Limit - 1 + |Run|; recent   *)
(* commands that are not logged are carried by a run each, or by a failure. *)
(***************************************************************************)
EXTENDS AutoHeal, DeviceCommands, FiniteSetTheorems, SequenceTheorems, TLAPS

(* Runs that have passed the count, and those of them that hold a command. *)
Trying == {r \in Run : run[r].stage \in {"enqueue", "stamp", "log"}}

Holding == {r \in Run : run[r].stage \in {"stamp", "log"}}

Unlogged == RecentCommands \ RecentLogs

(* Every entry is younger than its command, so it is remembered as long. *)
LogFollows == \A x \in Command : logged[x] < Hour => logged[x] <= queued[x]

(* The command a run holds is its own, recent and not logged. *)
HeldRecent ==
  \A r \in Holding :
    /\ run[r].command \in Command
    /\ queued[run[r].command] <= run[r].age
    /\ logged[run[r].command] = Hour

HeldApart ==
  \A r, q \in Holding : run[r].command = run[q].command => r = q

LogBudget == Cardinality(RecentLogs) + Cardinality(Trying) <= (Limit - 1) + Cardinality(Run)

CommandBudget == Cardinality(Unlogged) <= Cardinality(Holding) + failures

(* Unless the row was stamped in between, a run's copy is as old as the row. *)
CopyFresh ==
  \A r \in Run :
    /\ run[r].stage \in {"loaded", "enqueue", "stamp"} /\ ~run[r].stale =>
         run[r].recovery = recovery
    /\ run[r].stage \in {"enqueue", "stamp"} => run[r].recovery = Cooldown

-----------------------------------------------------------------------------
(* Facts about cardinalities *)

(* A subset of the runs or of the commands is no larger than they are. *)
LEMMA SubsetCard ==
  ASSUME NEW S, IsFiniteSet(S), NEW T, T \subseteq S
  PROVE  /\ IsFiniteSet(T)
         /\ Cardinality(T) \in Nat
         /\ Cardinality(S) \in Nat
         /\ Cardinality(T) <= Cardinality(S)
  BY FS_Subset, FS_CardinalityType

(* One element more or less, and two sets together. *)
LEMMA AddCard ==
  ASSUME NEW S, IsFiniteSet(S), NEW x
  PROVE  /\ IsFiniteSet(S \cup {x})
         /\ Cardinality(S) \in Nat
         /\ Cardinality(S \cup {x}) \in Nat
         /\ Cardinality(S \cup {x}) <= Cardinality(S) + 1
<1>1. IsFiniteSet(S \cup {x}) /\ Cardinality(S) \in Nat
  BY FS_AddElement, FS_CardinalityType
<1>2. Cardinality(S \cup {x}) = IF x \in S THEN Cardinality(S) ELSE Cardinality(S) + 1
  BY FS_AddElement
<1> QED
  BY <1>1, <1>2

LEMMA RemoveCard ==
  ASSUME NEW S, IsFiniteSet(S), NEW x
  PROVE  /\ IsFiniteSet(S \ {x})
         /\ Cardinality(S) \in Nat
         /\ Cardinality(S \ {x}) \in Nat
         /\ Cardinality(S \ {x}) >= Cardinality(S) - 1
<1>1. IsFiniteSet(S \ {x}) /\ Cardinality(S) \in Nat /\ Cardinality(S \ {x}) \in Nat
  BY FS_RemoveElement, FS_CardinalityType
<1>2. Cardinality(S \ {x}) = IF x \in S THEN Cardinality(S) - 1 ELSE Cardinality(S)
  BY FS_RemoveElement
<1> QED
  BY <1>1, <1>2

LEMMA UnionCard ==
  ASSUME NEW S, IsFiniteSet(S), NEW T, IsFiniteSet(T)
  PROVE  /\ IsFiniteSet(S \cup T)
         /\ Cardinality(S \cup T) <= Cardinality(S) + Cardinality(T)
<1>1. /\ IsFiniteSet(S \cup T)
      /\ Cardinality(S \cup T) = Cardinality(S) + Cardinality(T) - Cardinality(S \cap T)
  BY FS_Union
<1>2. IsFiniteSet(S \cap T)
  BY FS_Intersection
<1>3. Cardinality(S) \in Nat /\ Cardinality(T) \in Nat /\ Cardinality(S \cap T) \in Nat
  BY <1>2, FS_CardinalityType
<1> QED
  BY <1>1, <1>3

(* The sets of runs and commands that the budgets count are finite. *)
LEMMA CountedFinite ==
  /\ IsFiniteSet(RecentLogs) /\ Cardinality(RecentLogs) \in Nat
  /\ IsFiniteSet(RecentCommands) /\ Cardinality(RecentCommands) \in Nat
  /\ IsFiniteSet(Unlogged) /\ Cardinality(Unlogged) \in Nat
  /\ IsFiniteSet(Trying) /\ Cardinality(Trying) \in Nat
  /\ IsFiniteSet(Holding) /\ Cardinality(Holding) \in Nat
<1>1. RecentLogs \subseteq Command /\ RecentCommands \subseteq Command /\ Unlogged \subseteq Command
  BY DEF RecentLogs, RecentCommands, Unlogged
<1>2. Trying \subseteq Run /\ Holding \subseteq Run
  BY DEF Trying, Holding
<1> QED
  BY <1>1, <1>2, SubsetCard, HealConstantsAssumption

-----------------------------------------------------------------------------
(* Type correctness *)

(* Every step of the runs and of time keeps the ages within their caps. *)
LEMMA HealTypeStep == HealTypeOK /\ [HealNext]_healVars => HealTypeOK'
<1> SUFFICES ASSUME HealTypeOK, [HealNext]_healVars PROVE HealTypeOK'
  OBVIOUS
<1> USE HealConstantsAssumption DEF HealTypeOK
<1>0. NoRun \in HealRun
  BY DEF NoRun, HealRun
<1>1. CASE Tick
  <2>1. \A a \in 0 .. Cooldown : Older(a, Cooldown) \in 0 .. Cooldown
    BY DEF Older
  <2>2. \A a \in 0 .. Hour : Older(a, Hour) \in 0 .. Hour
    BY DEF Older
  <2>3. ASSUME NEW r \in Run
        PROVE  (IF InFlight(r)
                  THEN [run[r] EXCEPT !.recovery = Older(@, Cooldown), !.age = @ + 1]
                  ELSE run[r]) \in HealRun
    <3>1. run[r] \in HealRun
      OBVIOUS
    <3>2. InFlight(r) => run[r].age + 1 \in 0 .. MaxRunAge
      <4>1. run[r].age \in 0 .. MaxRunAge
        BY <3>1 DEF HealRun
      <4>2. InFlight(r) => run[r].age < MaxRunAge
        BY <1>1 DEF Tick
      <4> QED
        BY <4>1, <4>2
    <3>3. Older(run[r].recovery, Cooldown) \in 0 .. Cooldown
      BY <2>1, <3>1 DEF HealRun
    <3>4. CASE InFlight(r)
      BY <3>1, <3>2, <3>3, <3>4 DEF HealRun
    <3>5. CASE ~InFlight(r)
      BY <3>1, <3>5
    <3> QED
      BY <3>4, <3>5
  <2> QED
    BY <1>1, <2>1, <2>2, <2>3 DEF Tick
<1>2. \A q \in Run : Outdated(q) \in HealRun
  <2> SUFFICES ASSUME NEW q \in Run PROVE Outdated(q) \in HealRun
    OBVIOUS
  <2>1. run[q] \in HealRun
    OBVIOUS
  <2> QED
    BY <2>1 DEF Outdated, HealRun
<1>3. CASE ManualRecovery
  BY <1>2, <1>3 DEF ManualRecovery
<1>4. ASSUME NEW r \in Run, HealStep(r)
      PROVE  HealTypeOK'
  <2>0. run[r] \in HealRun
    OBVIOUS
  <2>1. CASE Load(r)
    <3>1. [NoRun EXCEPT !.stage = "loaded", !.recovery = recovery] \in HealRun
      BY <1>0 DEF HealRun
    <3> QED
      BY <2>1, <3>1 DEF Load
  <2>2. CASE Spare(r)
    BY <1>0, <2>2 DEF Spare
  <2>3. CASE Attempt(r)
    <3>1. [run[r] EXCEPT !.stage = "enqueue"] \in HealRun
      BY <2>0 DEF HealRun
    <3> QED
      BY <1>0, <2>3, <3>1 DEF Attempt
  <2>4. ASSUME NEW x \in Command, Enqueue(r, x)
        PROVE  HealTypeOK'
    <3>1. [run[r] EXCEPT !.stage = "stamp", !.command = x] \in HealRun
      BY <2>0 DEF HealRun
    <3> QED
      BY <2>4, <3>1 DEF Enqueue
  <2>5. CASE Stamp(r)
    <3>0. 0 \in 0 .. Cooldown
      OBVIOUS
    <3>1. [run[r] EXCEPT !.stage = "log", !.recovery = 0] \in HealRun
      BY <2>0, <3>0 DEF HealRun
    <3>2. run' \in [Run -> HealRun]
      BY <1>2, <2>5, <3>1 DEF Stamp
    <3> QED
      BY <2>5, <3>2 DEF Stamp
  <2>6. CASE WriteLog(r)
    <3>1. logged' \in [Command -> 0 .. Hour]
      <4>1. 0 \in 0 .. Hour
        OBVIOUS
      <4> QED
        BY <2>6, <4>1 DEF WriteLog
    <3> QED
      BY <1>0, <2>6, <3>1 DEF WriteLog
  <2>7. CASE HealFails(r)
    BY <1>0, <2>7 DEF HealFails
  <2> QED
    BY <1>4, <2>1, <2>2, <2>3, <2>4, <2>5, <2>6, <2>7 DEF HealStep
<1>5. CASE UNCHANGED healVars
  BY <1>5 DEF healVars
<1> QED
  BY <1>1, <1>3, <1>4, <1>5 DEF HealNext

(***************************************************************************)
(* The variables of AutoHeal stay within their types: ages, copies and      *)
(* stages of the tier runs of health.service.js.                            *)
(***************************************************************************)
THEOREM HealTypeCorrect == HealSpec => []HealTypeOK
<1>1. HealInit => HealTypeOK
  BY HealConstantsAssumption DEF HealInit, HealTypeOK, HealRun, NoRun
<1> QED
  BY <1>1, HealTypeStep, PTL DEF HealSpec

-----------------------------------------------------------------------------
(* Distance between recoveries *)

(* A copy of last_recovery_at ages with the row it was read from. *)
LEMMA CopyStep == HealTypeOK /\ CopyFresh /\ [HealNext]_healVars => CopyFresh'
<1> SUFFICES ASSUME HealTypeOK, CopyFresh, [HealNext]_healVars PROVE CopyFresh'
  OBVIOUS
<1> USE HealConstantsAssumption DEF HealTypeOK, HealRun, NoRun, InFlight, Outdated, CopyFresh
<1>1. CASE Tick
  <2> SUFFICES ASSUME NEW r \in Run
               PROVE  /\ run'[r].stage \in {"loaded", "enqueue", "stamp"} /\ ~run'[r].stale =>
                           run'[r].recovery = recovery'
                      /\ run'[r].stage \in {"enqueue", "stamp"} => run'[r].recovery = Cooldown
    OBVIOUS
  <2>1. run[r] \in HealRun
    OBVIOUS
  <2>2. CASE InFlight(r)
    <3>1. run'[r] = [run[r] EXCEPT !.recovery = Older(@, Cooldown), !.age = @ + 1]
      BY <1>1, <2>2 DEF Tick
    <3>2. /\ run'[r].stage = run[r].stage
          /\ run'[r].stale = run[r].stale
          /\ run'[r].recovery = Older(run[r].recovery, Cooldown)
      BY <2>1, <3>1
    <3>3. recovery' = Older(recovery, Cooldown)
      BY <1>1 DEF Tick
    <3>4. Older(Cooldown, Cooldown) = Cooldown
      BY DEF Older
    <3> QED
      BY <3>2, <3>3, <3>4
  <2>3. CASE ~InFlight(r)
    BY <1>1, <2>3 DEF Tick
  <2> QED
    BY <2>2, <2>3
<1>2. CASE ManualRecovery
  BY <1>2 DEF ManualRecovery
<1>3. ASSUME NEW r \in Run, HealStep(r)
      PROVE  CopyFresh'
  <2>1. CASE Load(r)
    BY <2>1 DEF Load
  <2>2. CASE Spare(r)
    BY <2>2 DEF Spare
  <2>3. CASE Attempt(r)
    BY <2>3 DEF Attempt, CooledDown
  <2>4. ASSUME NEW x \in Command, Enqueue(r, x)
        PROVE  CopyFresh'
    BY <2>4 DEF Enqueue
  <2>5. CASE Stamp(r)
    BY <2>5 DEF Stamp
  <2>6. CASE WriteLog(r)
    BY <2>6 DEF WriteLog
  <2>7. CASE HealFails(r)
    BY <2>7 DEF HealFails
  <2> QED
    BY <1>3, <2>1, <2>2, <2>3, <2>4, <2>5, <2>6, <2>7 DEF HealStep
<1>4. CASE UNCHANGED healVars
  BY <1>4 DEF healVars
<1> QED
  BY <1>1, <1>2, <1>3, <1>4 DEF HealNext

(***************************************************************************)
(* Whatever runs overlap, a tier run stamps a device within the cooldown of *)
(* another recovery only if it had loaded the row before that recovery.     *)
(***************************************************************************)
THEOREM HealPaced == HealSpec => RecoveryPaced
<1>1. HealInit => HealTypeOK /\ CopyFresh
  BY HealConstantsAssumption
  DEF HealInit, HealTypeOK, HealRun, NoRun, CopyFresh
<1>2. HealTypeOK /\ CopyFresh /\ [HealNext]_healVars =>
        [\A r \in Run :
           run[r].stage = "stamp" /\ run'[r].stage = "log" /\ ~run[r].stale =>
             recovery = Cooldown]_healVars
  BY DEF CopyFresh
<1> QED
  BY <1>1, <1>2, HealTypeStep, CopyStep, PTL DEF HealSpec, RecoveryPaced

-----------------------------------------------------------------------------
(* Commands of an hour *)

HoldInv == LogFollows /\ HeldRecent /\ HeldApart

(* A command stays its run's own, recent and not logged, until it is logged. *)
LEMMA HoldStep == HealTypeOK /\ HoldInv /\ [HealNext]_healVars => HoldInv'
<1> SUFFICES ASSUME HealTypeOK, HoldInv, [HealNext]_healVars PROVE HoldInv'
  OBVIOUS
<1> USE HealConstantsAssumption
    DEF HoldInv, LogFollows, HeldRecent, HeldApart, Holding
<1>1. CASE Tick
  <2>1. ASSUME NEW x \in Command
        PROVE  /\ queued'[x] = Older(queued[x], Hour)
               /\ logged'[x] = Older(logged[x], Hour)
               /\ queued[x] \in 0 .. Hour /\ logged[x] \in 0 .. Hour
    BY <1>1 DEF Tick, HealTypeOK
  <2>2. LogFollows'
    BY <2>1 DEF Older
  <2>3. ASSUME NEW r \in Run
        PROVE  /\ run'[r].stage = run[r].stage
               /\ run'[r].command = run[r].command
               /\ run[r].stage \in {"stamp", "log"} => run'[r].age = run[r].age + 1
               /\ run[r].age \in Nat
    <3>1. run[r] \in HealRun
      BY DEF HealTypeOK
    <3>2. CASE InFlight(r)
      <4>1. run'[r] = [run[r] EXCEPT !.recovery = Older(@, Cooldown), !.age = @ + 1]
        BY <1>1, <3>2 DEF Tick
      <4> QED
        BY <3>1, <4>1 DEF HealRun
    <3>3. CASE ~InFlight(r)
      <4>1. run'[r] = run[r]
        BY <1>1, <3>3 DEF Tick
      <4>2. run[r].stage = "idle"
        BY <3>3 DEF InFlight
      <4> QED
        BY <3>1, <4>1, <4>2 DEF HealRun
    <3> QED
      BY <3>2, <3>3
  <2>4. HeldRecent'
    BY <2>1, <2>3 DEF Older
  <2>5. HeldApart'
    BY <2>3
  <2> QED
    BY <2>2, <2>4, <2>5
<1>2. CASE ManualRecovery
  <2>1. ASSUME NEW r \in Run
        PROVE  /\ run'[r].stage = run[r].stage
               /\ run'[r].command = run[r].command
               /\ run'[r].age = run[r].age
    BY <1>2 DEF ManualRecovery, Outdated, HealTypeOK, HealRun
  <2> QED
    BY <1>2, <2>1 DEF ManualRecovery
<1>3. ASSUME NEW r \in Run, HealStep(r)
      PROVE  HoldInv'
  <2>0. run[r] \in HealRun
    BY DEF HealTypeOK
  <2>1. CASE Load(r) \/ Spare(r) \/ Attempt(r) \/ HealFails(r)
    <3>1. UNCHANGED <<queued, logged>>
      BY <2>1 DEF Load, Spare, Attempt, HealFails
    <3>2. \A q \in Run \ {r} : run'[q] = run[q]
      BY <2>1 DEF Load, Spare, Attempt, HealFails, HealTypeOK
    <3>3. run'[r].stage \notin {"stamp", "log"}
      <4>1. CASE Load(r)
        BY <4>1 DEF Load, NoRun, HealTypeOK
      <4>2. CASE Spare(r) \/ HealFails(r)
        BY <4>2 DEF Spare, HealFails, NoRun, HealTypeOK
      <4>3. CASE Attempt(r)
        BY <2>0, <4>3 DEF Attempt, NoRun, HealTypeOK, HealRun
      <4> QED
        BY <2>1, <4>1, <4>2, <4>3
    <3> QED
      BY <3>1, <3>2, <3>3
  <2>2. ASSUME NEW x \in Command, Enqueue(r, x)
        PROVE  HoldInv'
    <3>1. /\ \A q \in Run \ {r} : run'[q] = run[q]
          /\ run'[r].command = x
          /\ run'[r].age = run[r].age
          /\ run[r].age \in 0 .. MaxRunAge
          /\ UNCHANGED logged
      <4>1. run'[r] = [run[r] EXCEPT !.stage = "stamp", !.command = x]
        BY <2>2 DEF Enqueue, HealTypeOK
      <4> QED
        BY <2>0, <2>2, <4>1 DEF Enqueue, HealTypeOK, HealRun
    <3>2. queued'[x] = 0 /\ \A y \in Command \ {x} : queued'[y] = queued[y]
      BY <2>2 DEF Enqueue, HealTypeOK
    <3>3. logged[x] = Hour /\ queued[x] = Hour
      BY <2>2 DEF Enqueue, Forgotten
    <3>4. \A q \in Holding : run[q].command # x
      <4> SUFFICES ASSUME NEW q \in Holding, run[q].command = x PROVE FALSE
        OBVIOUS
      <4>1. run[q].age \in 0 .. MaxRunAge
        BY DEF HealTypeOK, HealRun
      <4> QED
        BY <3>3, <4>1
    <3> QED
      BY <3>1, <3>2, <3>3, <3>4
  <2>3. CASE Stamp(r)
    <3>1. ASSUME NEW q \in Run
          PROVE  /\ q # r => run'[q].stage = run[q].stage
                 /\ run'[q].command = run[q].command
                 /\ run'[q].age = run[q].age
      BY <2>0, <2>3 DEF Stamp, Outdated, HealTypeOK, HealRun
    <3> QED
      BY <2>3, <3>1 DEF Stamp
  <2>4. CASE WriteLog(r)
    <3>1. /\ \A q \in Run \ {r} : run'[q] = run[q]
          /\ run'[r].stage = "idle"
          /\ UNCHANGED queued
      BY <2>4 DEF WriteLog, NoRun, HealTypeOK
    <3>2. \A y \in Command : logged'[y] = IF y = run[r].command THEN 0 ELSE logged[y]
      BY <2>4 DEF WriteLog, HealTypeOK
    <3>3. \A y \in Command : queued[y] \in 0 .. Hour
      BY DEF HealTypeOK
    <3> QED
      BY <2>4, <3>1, <3>2, <3>3 DEF WriteLog
  <2> QED
    BY <1>3, <2>1, <2>2, <2>3, <2>4 DEF HealStep
<1>4. CASE UNCHANGED healVars
  BY <1>4 DEF healVars
<1> QED
  BY <1>1, <1>2, <1>3, <1>4 DEF HealNext

(* Only the log of a heal adds to the entries of the hour, time takes away. *)
LEMMA LogBudgetStep ==
  HealTypeOK /\ LogBudget /\ [HealNext]_healVars => LogBudget'
<1> SUFFICES ASSUME HealTypeOK, LogBudget, [HealNext]_healVars PROVE LogBudget'
  OBVIOUS
<1> USE HealConstantsAssumption
<1>a. /\ IsFiniteSet(RecentLogs) /\ Cardinality(RecentLogs) \in Nat
      /\ IsFiniteSet(Trying) /\ Cardinality(Trying) \in Nat
  BY CountedFinite
<1>b. Cardinality(Run) \in Nat
  BY FS_CardinalityType
(* A step that adds nothing to either set. *)
<1>c. ASSUME RecentLogs' \subseteq RecentLogs, Trying' \subseteq Trying
      PROVE  LogBudget'
  <2>1. Cardinality(RecentLogs') \in Nat /\ Cardinality(RecentLogs') <= Cardinality(RecentLogs)
    BY <1>a, <1>c, SubsetCard
  <2>2. Cardinality(Trying') \in Nat /\ Cardinality(Trying') <= Cardinality(Trying)
    BY <1>a, <1>c, SubsetCard
  <2> QED
    BY <1>a, <1>b, <2>1, <2>2 DEF LogBudget
<1>1. CASE Tick
  <2>1. RecentLogs' \subseteq RecentLogs
    <3>1. ASSUME NEW x \in Command
          PROVE  logged'[x] = Older(logged[x], Hour) /\ logged[x] \in 0 .. Hour
      BY <1>1 DEF Tick, HealTypeOK
    <3> QED
      BY <3>1 DEF RecentLogs, Older
  <2>2. ASSUME NEW r \in Run PROVE run'[r].stage = run[r].stage
    <3>1. CASE InFlight(r)
      BY <1>1, <3>1 DEF Tick, HealTypeOK, HealRun
    <3>2. CASE ~InFlight(r)
      BY <1>1, <3>2 DEF Tick
    <3> QED
      BY <3>1, <3>2
  <2> QED
    BY <1>c, <2>1, <2>2 DEF Trying
<1>2. CASE ManualRecovery
  <2>1. \A r \in Run : run'[r].stage = run[r].stage
    BY <1>2 DEF ManualRecovery, Outdated, HealTypeOK, HealRun
  <2> QED
    BY <1>2, <1>c, <2>1 DEF ManualRecovery, RecentLogs, Trying
<1>3. ASSUME NEW r \in Run, HealStep(r)
      PROVE  LogBudget'
  <2>1. CASE Load(r) \/ Spare(r) \/ HealFails(r)
    <3>1. run'[r].stage \in {"loaded", "idle"} /\ logged' = logged
      <4>1. CASE Load(r)
        BY <4>1 DEF Load, NoRun, HealTypeOK
      <4>2. CASE Spare(r) \/ HealFails(r)
        BY <4>2 DEF Spare, HealFails, NoRun, HealTypeOK
      <4> QED
        BY <2>1, <4>1, <4>2
    <3>2. \A q \in Run \ {r} : run'[q] = run[q]
      BY <2>1 DEF Load, Spare, HealFails, HealTypeOK
    <3> QED
      BY <1>c, <3>1, <3>2 DEF RecentLogs, Trying
  <2>2. CASE Attempt(r) /\ MayAttempt
    <3>1. RecentLogs' = RecentLogs
      BY <2>2 DEF Attempt, RecentLogs
    <3>2. Cardinality(RecentLogs) <= Limit - 1
      BY <1>a, <2>2 DEF MayAttempt
    <3>3. Trying' \subseteq Run
      BY DEF Trying
    <3>4. Cardinality(Trying') \in Nat /\ Cardinality(Trying') <= Cardinality(Run)
      BY <3>3, SubsetCard
    <3> QED
      BY <1>a, <1>b, <3>1, <3>2, <3>4 DEF LogBudget
  <2>3. CASE Attempt(r) /\ ~MayAttempt
    <3>1. run'[r].stage = "idle" /\ logged' = logged
      BY <2>3 DEF Attempt, NoRun, HealTypeOK
    <3>2. \A q \in Run \ {r} : run'[q] = run[q]
      BY <2>3 DEF Attempt, HealTypeOK
    <3> QED
      BY <1>c, <3>1, <3>2 DEF RecentLogs, Trying
  <2>4. ASSUME NEW x \in Command, Enqueue(r, x)
        PROVE  LogBudget'
    <3>1. run[r].stage = "enqueue" /\ logged' = logged
      BY <2>4 DEF Enqueue
    <3>2. \A q \in Run \ {r} : run'[q] = run[q]
      BY <2>4 DEF Enqueue, HealTypeOK
    <3> QED
      BY <1>c, <3>1, <3>2 DEF RecentLogs, Trying
  <2>5. CASE Stamp(r)
    <3>1. run[r].stage = "stamp" /\ logged' = logged
      BY <2>5 DEF Stamp
    <3>2. \A q \in Run \ {r} : run'[q].stage = run[q].stage
      BY <2>5 DEF Stamp, Outdated, HealTypeOK, HealRun
    <3> QED
      BY <1>c, <3>1, <3>2 DEF RecentLogs, Trying
  <2>6. CASE WriteLog(r)
    <3>1. RecentLogs' \subseteq RecentLogs \cup {run[r].command}
      BY <2>6 DEF WriteLog, RecentLogs, HealTypeOK
    <3>2. Trying' \subseteq Trying \ {r} /\ r \in Trying
      BY <2>6 DEF WriteLog, Trying, NoRun, HealTypeOK
    <3>3. /\ IsFiniteSet(RecentLogs \cup {run[r].command})
          /\ Cardinality(RecentLogs \cup {run[r].command}) <= Cardinality(RecentLogs) + 1
      BY <1>a, AddCard
    <3>4. /\ IsFiniteSet(Trying \ {r})
          /\ Cardinality(Trying \ {r}) = Cardinality(Trying) - 1
      BY <1>a, <3>2, FS_RemoveElement
    <3>5. /\ Cardinality(RecentLogs') \in Nat
          /\ Cardinality(RecentLogs \cup {run[r].command}) \in Nat
          /\ Cardinality(RecentLogs') <= Cardinality(RecentLogs \cup {run[r].command})
      BY <3>1, <3>3, SubsetCard
    <3>6. Cardinality(Trying') \in Nat /\ Cardinality(Trying') <= Cardinality(Trying \ {r})
      BY <3>2, <3>4, SubsetCard
    <3> QED
      BY <1>a, <1>b, <3>3, <3>4, <3>5, <3>6 DEF LogBudget
  <2> QED
    BY <1>3, <2>1, <2>2, <2>3, <2>4, <2>5, <2>6 DEF HealStep
<1>4. CASE UNCHANGED healVars
  BY <1>4, <1>c DEF healVars, RecentLogs, Trying
<1> QED
  BY <1>1, <1>2, <1>3, <1>4 DEF HealNext

(* A command without an entry is held by a run or was left by a failure. *)
LEMMA CommandBudgetStep ==
  HealTypeOK /\ HoldInv /\ CommandBudget /\ [HealNext]_healVars => CommandBudget'
<1> SUFFICES ASSUME HealTypeOK, HoldInv, CommandBudget, [HealNext]_healVars
             PROVE  CommandBudget'
  OBVIOUS
<1> USE HealConstantsAssumption
<1>a. /\ IsFiniteSet(Unlogged) /\ Cardinality(Unlogged) \in Nat
      /\ IsFiniteSet(Holding) /\ Cardinality(Holding) \in Nat
      /\ failures \in Nat
  BY CountedFinite DEF HealTypeOK
(* A step that adds no such command and takes none from its run. *)
<1>c. ASSUME Unlogged' \subseteq Unlogged, Holding' = Holding, failures' = failures
      PROVE  CommandBudget'
  <2>1. Cardinality(Unlogged') \in Nat /\ Cardinality(Unlogged') <= Cardinality(Unlogged)
    BY <1>a, <1>c, SubsetCard
  <2> QED
    BY <1>a, <1>c, <2>1 DEF CommandBudget
<1>1. CASE Tick
  <2>1. ASSUME NEW x \in Command
        PROVE  /\ queued'[x] = Older(queued[x], Hour)
               /\ logged'[x] = Older(logged[x], Hour)
               /\ queued[x] \in 0 .. Hour /\ logged[x] \in 0 .. Hour
    BY <1>1 DEF Tick, HealTypeOK
  <2>2. Unlogged' \subseteq Unlogged
    BY <2>1 DEF Unlogged, RecentCommands, RecentLogs, Older, HoldInv, LogFollows
  <2>3. ASSUME NEW r \in Run PROVE run'[r].stage = run[r].stage
    <3>1. CASE InFlight(r)
      BY <1>1, <3>1 DEF Tick, HealTypeOK, HealRun
    <3>2. CASE ~InFlight(r)
      BY <1>1, <3>2 DEF Tick
    <3> QED
      BY <3>1, <3>2
  <2> QED
    BY <1>1, <1>c, <2>2, <2>3 DEF Holding, Tick
<1>2. CASE ManualRecovery
  <2>1. \A r \in Run : run'[r].stage = run[r].stage
    BY <1>2 DEF ManualRecovery, Outdated, HealTypeOK, HealRun
  <2> QED
    BY <1>2, <1>c, <2>1 DEF ManualRecovery, Unlogged, RecentCommands, RecentLogs, Holding
<1>3. ASSUME NEW r \in Run, HealStep(r)
      PROVE  CommandBudget'
  <2>1. CASE Load(r) \/ Spare(r) \/ Attempt(r)
    <3>1. UNCHANGED <<queued, logged, failures>>
      BY <2>1 DEF Load, Spare, Attempt
    <3>2. \A q \in Run \ {r} : run'[q] = run[q]
      BY <2>1 DEF Load, Spare, Attempt, HealTypeOK
    <3>3. run[r].stage \notin {"stamp", "log"} /\ run'[r].stage \notin {"stamp", "log"}
      <4>1. CASE Load(r)
        BY <4>1 DEF Load, NoRun, HealTypeOK
      <4>2. CASE Spare(r)
        BY <4>2 DEF Spare, NoRun, HealTypeOK
      <4>3. CASE Attempt(r)
        BY <4>3 DEF Attempt, NoRun, HealTypeOK, HealRun
      <4> QED
        BY <2>1, <4>1, <4>2, <4>3
    <3> QED
      BY <1>c, <3>1, <3>2, <3>3 DEF Unlogged, RecentCommands, RecentLogs, Holding
  <2>2. ASSUME NEW x \in Command, Enqueue(r, x)
        PROVE  CommandBudget'
    <3>1. Unlogged' \subseteq Unlogged \cup {x}
      BY <2>2 DEF Enqueue, Unlogged, RecentCommands, RecentLogs, HealTypeOK
    <3>2. Holding' = Holding \cup {r} /\ r \notin Holding
      BY <2>2 DEF Enqueue, Holding, HealTypeOK, HealRun
    <3>3. /\ IsFiniteSet(Unlogged \cup {x})
          /\ Cardinality(Unlogged \cup {x}) <= Cardinality(Unlogged) + 1
      BY <1>a, AddCard
    <3>4. Cardinality(Holding') = Cardinality(Holding) + 1
      BY <1>a, <3>2, FS_AddElement
    <3>5. /\ Cardinality(Unlogged') \in Nat
          /\ Cardinality(Unlogged \cup {x}) \in Nat
          /\ Cardinality(Unlogged') <= Cardinality(Unlogged \cup {x})
      BY <3>1, <3>3, SubsetCard
    <3>6. failures' = failures
      BY <2>2 DEF Enqueue
    <3> QED
      BY <1>a, <3>3, <3>4, <3>5, <3>6 DEF CommandBudget
  <2>3. CASE Stamp(r)
    <3>1. UNCHANGED <<queued, logged, failures>> /\ run[r].stage = "stamp"
      BY <2>3 DEF Stamp
    <3>2. \A q \in Run \ {r} : run'[q].stage = run[q].stage
      BY <2>3 DEF Stamp, Outdated, HealTypeOK, HealRun
    <3>3. run'[r].stage = "log"
      BY <2>3 DEF Stamp, HealTypeOK, HealRun
    <3> QED
      BY <1>c, <3>1, <3>2, <3>3 DEF Unlogged, RecentCommands, RecentLogs, Holding
  <2>4. CASE WriteLog(r)
    <3>1. run[r].command \in Unlogged
      <4>1. r \in Holding
        BY <2>4 DEF WriteLog, Holding
      <4>2. run[r].age \in 0 .. MaxRunAge
        BY DEF HealTypeOK, HealRun
      <4>3. /\ run[r].command \in Command
            /\ queued[run[r].command] <= run[r].age
            /\ logged[run[r].command] = Hour
        BY <4>1 DEF HoldInv, HeldRecent
      <4>4. queued[run[r].command] \in 0 .. Hour
        BY <4>3 DEF HealTypeOK
      <4> QED
        BY <4>2, <4>3, <4>4 DEF Unlogged, RecentCommands, RecentLogs
    <3>2. Unlogged' \subseteq Unlogged \ {run[r].command}
      BY <2>4, <3>1 DEF WriteLog, Unlogged, RecentCommands, RecentLogs, HealTypeOK
    <3>3. Holding' = Holding \ {r} /\ r \in Holding
      BY <2>4 DEF WriteLog, Holding, NoRun, HealTypeOK
    <3>4. /\ IsFiniteSet(Unlogged \ {run[r].command})
          /\ Cardinality(Unlogged \ {run[r].command}) = Cardinality(Unlogged) - 1
      BY <1>a, <3>1, FS_RemoveElement
    <3>5. Cardinality(Holding') = Cardinality(Holding) - 1
      BY <1>a, <3>3, FS_RemoveElement
    <3>6. /\ Cardinality(Unlogged') \in Nat
          /\ Cardinality(Unlogged') <= Cardinality(Unlogged \ {run[r].command})
      BY <3>2, <3>4, SubsetCard
    <3>7. failures' = failures
      BY <2>4 DEF WriteLog
    <3> QED
      BY <1>a, <3>4, <3>5, <3>6, <3>7 DEF CommandBudget
  <2>5. CASE HealFails(r)
    <3>1. Unlogged' = Unlogged /\ failures' = failures + 1
      BY <2>5 DEF HealFails, Unlogged, RecentCommands, RecentLogs
    <3>2. Holding' = Holding \ {r}
      BY <2>5 DEF HealFails, Holding, NoRun, HealTypeOK
    <3>3. Cardinality(Holding') >= Cardinality(Holding) - 1 /\ Cardinality(Holding') \in Nat
      BY <1>a, <3>2, RemoveCard
    <3> QED
      BY <1>a, <3>1, <3>3 DEF CommandBudget
  <2> QED
    BY <1>3, <2>1, <2>2, <2>3, <2>4, <2>5 DEF HealStep
<1>4. CASE UNCHANGED healVars
  BY <1>4, <1>c DEF healVars, Unlogged, RecentCommands, RecentLogs, Holding
<1> QED
  BY <1>1, <1>2, <1>3, <1>4 DEF HealNext

(***************************************************************************)
(* A device is sent at most Limit - 1 + |Run| recovery commands in an hour, *)
(* and one more for each run of health.service.js that failed half way.     *)
(***************************************************************************)
THEOREM HealCommandsBounded == HealSpec => []CommandsBounded
<1> DEFINE Budgets == HealTypeOK /\ HoldInv /\ LogBudget /\ CommandBudget
<1>1. HealInit => Budgets
  <2> SUFFICES ASSUME HealInit PROVE Budgets
    OBVIOUS
  <2>1. HealTypeOK
    BY HealConstantsAssumption DEF HealInit, HealTypeOK, HealRun, NoRun
  <2>2. RecentLogs = {} /\ Unlogged = {} /\ Trying = {} /\ Holding = {}
    BY HealConstantsAssumption
    DEF HealInit, RecentLogs, RecentCommands, Unlogged, Trying, Holding, NoRun
  <2>3. HoldInv
    BY <2>2, HealConstantsAssumption DEF HealInit, HoldInv, LogFollows, HeldRecent, HeldApart
  <2>4. Cardinality({}) = 0 /\ Cardinality(Run) \in Nat
    BY FS_EmptySet, FS_CardinalityType, HealConstantsAssumption
  <2>5. LogBudget
    BY <2>2, <2>4, HealConstantsAssumption DEF LogBudget
  <2>6. CommandBudget
    BY <2>2, <2>4 DEF HealInit, CommandBudget
  <2> QED
    BY <2>1, <2>3, <2>5, <2>6
<1>2. Budgets /\ [HealNext]_healVars => Budgets'
  BY HealTypeStep, HoldStep, LogBudgetStep, CommandBudgetStep
<1>3. Budgets => CommandsBounded
  <2> SUFFICES ASSUME Budgets PROVE CommandsBounded
    OBVIOUS
  <2>1. RecentCommands \subseteq RecentLogs \cup Unlogged
    BY DEF Unlogged
  <2>2. /\ IsFiniteSet(RecentLogs \cup Unlogged)
        /\ Cardinality(RecentLogs \cup Unlogged) <= Cardinality(RecentLogs) + Cardinality(Unlogged)
    BY CountedFinite, UnionCard
  <2>3. Cardinality(RecentCommands) <= Cardinality(RecentLogs \cup Unlogged)
    BY <2>1, <2>2, SubsetCard
  <2>4. Holding \subseteq Trying
    BY DEF Holding, Trying
  <2>5. Cardinality(Holding) <= Cardinality(Trying)
    BY <2>4, CountedFinite, SubsetCard
  <2>6. /\ Cardinality(Run) \in Nat
        /\ failures \in Nat
        /\ Limit - 1 \in Nat
    BY FS_CardinalityType, HealConstantsAssumption DEF HealTypeOK
  <2> QED
    BY <2>2, <2>3, <2>5, <2>6, CountedFinite, FS_CardinalityType
    DEF LogBudget, CommandBudget, CommandsBounded
<1> QED
  BY <1>1, <1>2, <1>3, PTL DEF HealSpec

-----------------------------------------------------------------------------
(* The command queue *)

(* The handler works on the command; it reports a result of it. *)
Names(h, c) == job[h].kind # "idle" /\ job[h].command = c

Reports(h, c) == job[h].kind = "report" /\ job[h].command = c

(* A command has one row; what is not queued is new and nothing in flight *)
(* names it.                                                              *)
QueueInv ==
  /\ \A i, j \in DOMAIN queue : queue[i] = queue[j] => i = j
  /\ \A h \in Handler : job[h].kind = "idle" <=> job[h].command = NoCmd
  /\ \A c \in Cmd : ~Queued(c) =>
       /\ state[c] = "PENDING" /\ owed[c] = 0 /\ handed[c] = 0
       /\ \A h \in Handler : ~Names(h, c)

(* Each report that is in flight, and the one that settled the command, has *)
(* used up one of the times the command was handed out.                     *)
OwedOf(c) ==
  /\ owed[c] <= handed[c]
  /\ state[c] \in Settled => owed[c] < handed[c]
  /\ \A h \in Handler : Reports(h, c) =>
       /\ owed[c] < handed[c]
       /\ state[c] \in Settled => owed[c] + 1 < handed[c]
       /\ \A g \in Handler \ {h} : Reports(g, c) => owed[c] + 1 < handed[c]

OwedInv == \A c \in Cmd : OwedOf(c)

CommandInv == CommandTypeOK /\ QueueInv /\ OwedInv

(* A sequence without one of its elements. *)
LEMMA RemovedAt ==
  ASSUME NEW S, NEW s \in Seq(S), NEW i \in DOMAIN s
  PROVE  /\ RemoveAt(s, i) \in Seq(S)
         /\ Len(RemoveAt(s, i)) = Len(s) - 1
         /\ \A j \in DOMAIN RemoveAt(s, i) :
              RemoveAt(s, i)[j] = IF j < i THEN s[j] ELSE s[j + 1]
<1>1. i \in 1..Len(s) /\ Len(s) \in Nat
  BY LenProperties
<1>2. /\ SubSeq(s, 1, i - 1) \in Seq(S)
      /\ Len(SubSeq(s, 1, i - 1)) = i - 1
      /\ \A j \in 1..(i - 1) : SubSeq(s, 1, i - 1)[j] = s[j]
  <2>1. \A j \in 1..(i - 1) : s[j] \in S
    BY <1>1, ElementOfSeq
  <2> QED
    BY <1>1, <2>1, SubSeqProperties
<1>3. /\ SubSeq(s, i + 1, Len(s)) \in Seq(S)
      /\ Len(SubSeq(s, i + 1, Len(s))) = Len(s) - i
      /\ \A j \in 1..(Len(s) - i) : SubSeq(s, i + 1, Len(s))[j] = s[i + j]
  <2>1. \A j \in (i + 1)..Len(s) : s[j] \in S
    BY <1>1, ElementOfSeq
  <2> QED
    BY <1>1, <2>1, SubSeqProperties
<1> DEFINE front == SubSeq(s, 1, i - 1)
           back == SubSeq(s, i + 1, Len(s))
<1>4. RemoveAt(s, i) = front \o back
  BY DEF RemoveAt
<1> HIDE DEF front, back
<1>5. /\ front \o back \in Seq(S)
      /\ Len(front \o back) = Len(s) - 1
      /\ \A j \in 1..(Len(s) - 1) : (front \o back)[j] = IF j < i THEN s[j] ELSE s[j + 1]
  <2>1. /\ front \o back \in Seq(S)
        /\ Len(front \o back) = Len(front) + Len(back)
        /\ \A j \in 1..(Len(front) + Len(back)) :
             (front \o back)[j] = IF j <= Len(front) THEN front[j] ELSE back[j - Len(front)]
    BY <1>2, <1>3, ConcatProperties DEF front, back
  <2>2. Len(front) = i - 1 /\ Len(back) = Len(s) - i
    BY <1>2, <1>3 DEF front, back
  <2>3. ASSUME NEW j \in 1..(Len(s) - 1)
        PROVE  (front \o back)[j] = IF j < i THEN s[j] ELSE s[j + 1]
    <3>1. CASE j < i
      <4>1. j \in 1..(i - 1) /\ j <= Len(front) /\ j \in 1..(Len(front) + Len(back))
        BY <1>1, <2>2, <3>1
      <4> QED
        BY <1>2, <2>1, <3>1, <4>1 DEF front
    <3>2. CASE j >= i
      <4>1. j - (i - 1) \in 1..(Len(s) - i)
        BY <1>1, <3>2
      <4>2. back[j - (i - 1)] = s[i + (j - (i - 1))]
        BY <1>3, <4>1 DEF back
      <4>3. i + (j - (i - 1)) = j + 1
        BY <1>1
      <4>4. ~(j <= Len(front)) /\ ~(j < i) /\ j \in 1..(Len(front) + Len(back))
        BY <1>1, <2>2, <3>2
      <4>5. j - Len(front) = j - (i - 1)
        BY <2>2
      <4>6. (front \o back)[j] = back[j - Len(front)]
        BY <2>1, <4>4
      <4>7. back[j - Len(front)] = s[j + 1]
        BY <4>2, <4>3, <4>5
      <4> QED
        BY <4>4, <4>6, <4>7
    <3>3. j < i \/ j >= i
      BY <1>1
    <3> QED
      BY <3>1, <3>2, <3>3
  <2> QED
    BY <1>1, <2>1, <2>2, <2>3
<1>6. DOMAIN (front \o back) = 1..(Len(s) - 1)
  BY <1>5, LenProperties
<1> QED
  BY <1>4, <1>5, <1>6

LEMMA CommandTypeStep ==
  ASSUME CommandTypeOK, CommandNext
  PROVE  CommandTypeOK'
<1> USE CommandConstantsAssumption DEF CommandTypeOK, CommandJob, IdleJob, Settled
<1>1. ASSUME NEW c \in Cmd, NEW pushed \in BOOLEAN, EnqueueCommand(c, pushed)
      PROVE  CommandTypeOK'
  BY <1>1 DEF EnqueueCommand
<1>2. ASSUME NEW h \in Handler, FetchFind(h)
      PROVE  CommandTypeOK'
  <2>1. NextPending \subseteq Cmd
    BY ElementOfSeq, LenProperties DEF NextPending
  <2>2. PICK c \in NextPending :
          /\ job' = [job EXCEPT ![h] = [IdleJob EXCEPT !.kind = "claim", !.command = c]]
          /\ HandOut(c, "find")
    BY <1>2 DEF FetchFind
  <2>3. job' \in [Handler -> CommandJob]
    BY <2>1, <2>2
  <2>4. owed' \in [Cmd -> Nat] /\ handed' \in [Cmd -> Nat]
    BY <2>1, <2>2 DEF HandOut, HandedBy
  <2> QED
    BY <1>2, <2>3, <2>4 DEF FetchFind
<1>3. ASSUME NEW h \in Handler, FetchClaim(h)
      PROVE  CommandTypeOK'
  <2>1. state' \in [Cmd -> {"PENDING", "PROCESSING"} \cup Settled]
    BY <1>3 DEF FetchClaim
  <2>2. job' \in [Handler -> CommandJob]
    BY <1>3 DEF FetchClaim
  <2>3. owed' \in [Cmd -> Nat] /\ handed' \in [Cmd -> Nat]
    <3> DEFINE c == job[h].command
    <3>1. owed' = [owed EXCEPT ![c] = @ + 1] /\ handed' = [handed EXCEPT ![c] = @ + 1]
      BY <1>3 DEF FetchClaim, HandOut, HandedBy
    <3>2. (owed[c] + 1 \in Nat /\ handed[c] + 1 \in Nat) \/ c \notin Cmd
      OBVIOUS
    <3> HIDE DEF c
    <3>3. \A x \in Cmd : owed'[x] \in Nat /\ handed'[x] \in Nat
      BY <3>1, <3>2
    <3> QED
      BY <3>1, <3>3
  <2> QED
    BY <1>3, <2>1, <2>2, <2>3 DEF FetchClaim
<1>4. ASSUME NEW h \in Handler, ResultWrite(h)
      PROVE  CommandTypeOK'
  BY <1>4 DEF ResultWrite
<1>5. ASSUME NEW h \in Handler, NEW c \in Cmd, NEW outcome \in Settled, ResultLoad(h, c, outcome)
      PROVE  CommandTypeOK'
  BY <1>5 DEF ResultLoad
<1>6. ASSUME NEW c \in Cmd, Forget(c)
      PROVE  CommandTypeOK'
  <2>1. queue' \in Seq(Cmd)
    BY <1>6, RemovedAt DEF Forget
  <2> QED
    BY <1>6, <2>1 DEF Forget
<1> QED
  BY <1>1, <1>2, <1>3, <1>4, <1>5, <1>6 DEF CommandNext, Fetch

(* Taking the command out of the queue leaves the other rows, and takes it out. *)
LEMMA ForgottenRow ==
  ASSUME CommandTypeOK, QueueInv, NEW c \in Cmd, Forget(c)
  PROVE  /\ \A i, j \in DOMAIN queue' : queue'[i] = queue'[j] => i = j
         /\ \A x \in Cmd : Contains(queue', x) <=> x # c /\ Queued(x)
<1>1. PICK i \in DOMAIN queue : queue[i] = c /\ queue' = RemoveAt(queue, i)
  BY DEF Forget
<1>2. i \in 1..Len(queue) /\ Len(queue) \in Nat /\ DOMAIN queue = 1..Len(queue)
  BY LenProperties DEF CommandTypeOK
<1>3. /\ queue' \in Seq(Cmd)
      /\ Len(queue') = Len(queue) - 1
      /\ \A j \in DOMAIN queue' : queue'[j] = IF j < i THEN queue[j] ELSE queue[j + 1]
  BY <1>1, RemovedAt DEF CommandTypeOK
<1>4. DOMAIN queue' = 1..(Len(queue) - 1)
  BY <1>3, LenProperties
<1> DEFINE from(j) == IF j < i THEN j ELSE j + 1
<1>5. \A j \in DOMAIN queue' : from(j) \in DOMAIN queue \ {i} /\ queue'[j] = queue[from(j)]
  BY <1>2, <1>3, <1>4
<1>6. \A j, k \in DOMAIN queue' : from(j) = from(k) => j = k
  BY <1>2, <1>4
<1>7. \A k \in DOMAIN queue \ {i} : \E j \in DOMAIN queue' : from(j) = k
  <2> SUFFICES ASSUME NEW k \in DOMAIN queue \ {i}
               PROVE  \E j \in DOMAIN queue' : from(j) = k
    OBVIOUS
  <2>1. CASE k < i
    BY <1>2, <1>4, <2>1
  <2>2. CASE k > i
    <3>1. k - 1 \in DOMAIN queue' /\ from(k - 1) = k
      BY <1>2, <1>4, <2>2
    <3> QED
      BY <3>1
  <2> QED
    BY <1>2, <2>1, <2>2
<1> HIDE DEF from
<1>8. \A j, k \in DOMAIN queue : queue[j] = queue[k] => j = k
  BY DEF QueueInv
<1>9. \A x \in Cmd : Contains(queue', x) <=> \E j \in DOMAIN queue' : queue'[j] = x
  BY <1>3, <1>4 DEF Contains
<1>10. \A x \in Cmd : Queued(x) <=> \E j \in DOMAIN queue : queue[j] = x
  BY <1>2 DEF Contains, Queued
<1>11. ASSUME NEW x \in Cmd
       PROVE  Contains(queue', x) <=> x # c /\ Queued(x)
  <2>1. ASSUME Contains(queue', x)
        PROVE  x # c /\ Queued(x)
    BY <1>1, <1>5, <1>8, <1>9, <1>10, <2>1
  <2>2. ASSUME x # c, Queued(x)
        PROVE  Contains(queue', x)
    BY <1>1, <1>5, <1>7, <1>9, <1>10, <2>2
  <2> QED
    BY <2>1, <2>2
<1> QED
  BY <1>5, <1>6, <1>8, <1>11

(* Appending a command that is not in the queue. *)
LEMMA AppendedRow ==
  ASSUME CommandTypeOK, QueueInv, NEW c \in Cmd, ~Queued(c), queue' = Append(queue, c)
  PROVE  /\ \A i, j \in DOMAIN queue' : queue'[i] = queue'[j] => i = j
         /\ \A x \in Cmd : Contains(queue', x) <=> x = c \/ Queued(x)
<1>1. Len(queue) \in Nat /\ DOMAIN queue = 1..Len(queue) /\ queue \in Seq(Cmd)
  BY LenProperties DEF CommandTypeOK
<1>2. /\ Len(queue') = Len(queue) + 1
      /\ DOMAIN queue' = 1..(Len(queue) + 1)
      /\ \A j \in 1..Len(queue) : queue'[j] = queue[j]
      /\ queue'[Len(queue) + 1] = c
  BY <1>1
<1>3. \A j \in 1..Len(queue) : queue[j] # c
  BY DEF Queued, Contains
<1>4. \A i, j \in 1..Len(queue) : queue[i] = queue[j] => i = j
  BY <1>1 DEF QueueInv
<1>5. \A i \in 1..(Len(queue) + 1) : i \in 1..Len(queue) \/ i = Len(queue) + 1
  BY <1>1
<1>6. \A i, j \in DOMAIN queue' : queue'[i] = queue'[j] => i = j
  BY <1>2, <1>3, <1>4, <1>5
<1>7. \A x \in Cmd : Contains(queue', x) <=> x = c \/ Queued(x)
  BY <1>1, <1>2, <1>5 DEF Contains, Queued
<1> QED
  BY <1>6, <1>7

LEMMA QueueStep ==
  ASSUME CommandTypeOK, QueueInv, OwedInv, CommandNext
  PROVE  QueueInv'
<1> USE CommandConstantsAssumption
<1>0. ASSUME queue' = queue
      PROVE  /\ \A i, j \in DOMAIN queue' : queue'[i] = queue'[j] => i = j
             /\ \A x \in Cmd : Queued(x)' <=> Queued(x)
  BY <1>0 DEF QueueInv, Queued
<1>1. ASSUME NEW c \in Cmd, NEW pushed \in BOOLEAN, EnqueueCommand(c, pushed)
      PROVE  QueueInv'
  <2>1. /\ \A i, j \in DOMAIN queue' : queue'[i] = queue'[j] => i = j
        /\ \A x \in Cmd : Queued(x)' <=> x = c \/ Queued(x)
    BY <1>1, AppendedRow DEF EnqueueCommand, Queued
  <2> QED
    BY <1>1, <2>1 DEF EnqueueCommand, QueueInv, CommandTypeOK, Names
<1>2. ASSUME NEW h \in Handler, FetchFind(h)
      PROVE  QueueInv'
  <2>1. PICK c \in NextPending :
          /\ job' = [job EXCEPT ![h] = [IdleJob EXCEPT !.kind = "claim", !.command = c]]
          /\ HandOut(c, "find")
    BY <1>2 DEF FetchFind
  <2>2. c \in Cmd /\ Queued(c)
    BY ElementOfSeq, LenProperties DEF NextPending, CommandTypeOK, Queued, Contains, PendingAt
  <2>3. \A x \in Cmd : owed'[x] = owed[x] /\ handed'[x] = handed[x]
    BY <2>1, <2>2 DEF HandOut, HandedBy, CommandTypeOK
  <2> QED
    BY <1>0, <1>2, <2>1, <2>2, <2>3
    DEF FetchFind, QueueInv, CommandTypeOK, CommandJob, IdleJob, Names
<1>3. ASSUME NEW h \in Handler, FetchClaim(h)
      PROVE  QueueInv'
  <2> DEFINE c == job[h].command
  <2>1. c \in Cmd /\ Queued(c)
    BY <1>3 DEF FetchClaim, QueueInv, CommandTypeOK, CommandJob, Names
  <2>2. \A x \in Cmd \ {c} : state'[x] = state[x] /\ owed'[x] = owed[x] /\ handed'[x] = handed[x]
    BY <1>3, <2>1 DEF FetchClaim, HandOut, HandedBy, CommandTypeOK
  <2>3. job' = [job EXCEPT ![h] = IdleJob] /\ queue' = queue
    BY <1>3 DEF FetchClaim
  <2> HIDE DEF c
  <2> QED
    BY <1>0, <2>1, <2>2, <2>3 DEF QueueInv, CommandTypeOK, CommandJob, IdleJob, Names
<1>4. ASSUME NEW h \in Handler, ResultWrite(h)
      PROVE  QueueInv'
  <2> DEFINE c == job[h].command
  <2>1. c \in Cmd /\ Queued(c)
    BY <1>4 DEF ResultWrite, QueueInv, CommandTypeOK, CommandJob, Names
  <2>2. \A x \in Cmd \ {c} : state'[x] = state[x] /\ owed'[x] = owed[x] /\ handed'[x] = handed[x]
    BY <1>4, <2>1 DEF ResultWrite, CommandTypeOK
  <2>3. job' = [job EXCEPT ![h] = IdleJob] /\ queue' = queue
    BY <1>4 DEF ResultWrite
  <2> HIDE DEF c
  <2> QED
    BY <1>0, <2>1, <2>2, <2>3 DEF QueueInv, CommandTypeOK, CommandJob, IdleJob, Names
<1>5. ASSUME NEW h \in Handler, NEW c \in Cmd, NEW outcome \in Settled, ResultLoad(h, c, outcome)
      PROVE  QueueInv'
  <2>1. Queued(c)
    BY <1>5 DEF ResultLoad, QueueInv, CommandTypeOK
  <2> QED
    BY <1>0, <1>5, <2>1 DEF ResultLoad, QueueInv, CommandTypeOK, CommandJob, Names
<1>6. ASSUME NEW c \in Cmd, Forget(c)
      PROVE  QueueInv'
  <2>1. /\ \A i, j \in DOMAIN queue' : queue'[i] = queue'[j] => i = j
        /\ \A x \in Cmd : Queued(x)' <=> x # c /\ Queued(x)
    BY <1>6, ForgottenRow DEF Queued
  <2> QED
    BY <1>6, <2>1 DEF Forget, QueueInv, CommandTypeOK, Names
<1> QED
  BY <1>1, <1>2, <1>3, <1>4, <1>5, <1>6 DEF CommandNext, Fetch

LEMMA OwedStep ==
  ASSUME CommandTypeOK, QueueInv, OwedInv, CommandNext
  PROVE  OwedInv'
<1> USE CommandConstantsAssumption DEF OwedInv, OwedOf, Reports
<1>1. ASSUME NEW c \in Cmd, NEW pushed \in BOOLEAN, EnqueueCommand(c, pushed)
      PROVE  OwedInv'
  <2>1. \A h \in Handler : ~Reports(h, c)
    BY <1>1 DEF EnqueueCommand, QueueInv, Names
  <2> QED
    BY <1>1, <2>1 DEF EnqueueCommand, CommandTypeOK, Settled
<1>2. ASSUME NEW h \in Handler, FetchFind(h)
      PROVE  OwedInv'
  <2>1. PICK c \in NextPending :
          /\ job' = [job EXCEPT ![h] = [IdleJob EXCEPT !.kind = "claim", !.command = c]]
          /\ HandOut(c, "find")
    BY <1>2 DEF FetchFind
  <2>2. NextPending \subseteq Cmd
    BY ElementOfSeq, LenProperties DEF NextPending, CommandTypeOK
  <2>3. \A x \in Cmd : owed'[x] = owed[x] /\ handed'[x] = handed[x]
    BY <2>1, <2>2 DEF HandOut, HandedBy, CommandTypeOK
  <2>4. \A g \in Handler, x \in Cmd : Reports(g, x)' => Reports(g, x)
    BY <2>1 DEF CommandTypeOK, IdleJob
  <2>5. \A x \in Cmd : state'[x] = state[x]
    BY <1>2 DEF FetchFind
  <2> QED
    BY <2>3, <2>4, <2>5
<1>3. ASSUME NEW h \in Handler, FetchClaim(h)
      PROVE  OwedInv'
  <2> DEFINE c == job[h].command
  <2>1. c \in Cmd
    BY <1>3 DEF FetchClaim, QueueInv, CommandTypeOK, CommandJob
  <2>2. /\ \A x \in Cmd \ {c} : state'[x] = state[x] /\ owed'[x] = owed[x] /\ handed'[x] = handed[x]
        /\ state'[c] = "PROCESSING" /\ owed'[c] = owed[c] + 1 /\ handed'[c] = handed[c] + 1
    BY <1>3, <2>1 DEF FetchClaim, HandOut, HandedBy, CommandTypeOK
  <2>3. \A g \in Handler, x \in Cmd : Reports(g, x)' => Reports(g, x)
    BY <1>3 DEF FetchClaim, CommandTypeOK, IdleJob
  <2> HIDE DEF c
  <2> SUFFICES ASSUME NEW x \in Cmd PROVE OwedOf(x)'
    OBVIOUS
  <2>4. owed[x] \in Nat /\ handed[x] \in Nat
    BY DEF CommandTypeOK
  <2>5. CASE x # c
    BY <2>2, <2>3, <2>5
  <2>6. CASE x = c
    BY <2>2, <2>3, <2>4, <2>6 DEF Settled
  <2> QED
    BY <2>5, <2>6
<1>4. ASSUME NEW h \in Handler, ResultWrite(h)
      PROVE  OwedInv'
  <2> DEFINE c == job[h].command
  <2>1. c \in Cmd /\ Reports(h, c)
    BY <1>4 DEF ResultWrite, QueueInv, CommandTypeOK, CommandJob
  <2>2. /\ \A x \in Cmd : owed'[x] = owed[x] /\ handed'[x] = handed[x]
        /\ \A x \in Cmd \ {c} : state'[x] = state[x]
    BY <1>4, <2>1 DEF ResultWrite, CommandTypeOK
  <2>3. \A g \in Handler, x \in Cmd : Reports(g, x)' => Reports(g, x) /\ g # h
    BY <1>4 DEF ResultWrite, CommandTypeOK, IdleJob
  <2> HIDE DEF c
  <2> SUFFICES ASSUME NEW x \in Cmd PROVE OwedOf(x)'
    OBVIOUS
  <2>4. CASE x # c
    BY <2>2, <2>3, <2>4
  <2>5. CASE x = c
    BY <2>1, <2>2, <2>3, <2>5
  <2> QED
    BY <2>4, <2>5
<1>5. ASSUME NEW h \in Handler, NEW c \in Cmd, NEW outcome \in Settled, ResultLoad(h, c, outcome)
      PROVE  OwedInv'
  <2>1. /\ \A x \in Cmd \ {c} : owed'[x] = owed[x]
        /\ \A x \in Cmd : handed'[x] = handed[x] /\ state'[x] = state[x]
        /\ owed[c] > 0 /\ owed'[c] = owed[c] - 1
    BY <1>5 DEF ResultLoad, CommandTypeOK
  <2>2. \A g \in Handler, x \in Cmd : Reports(g, x)' => Reports(g, x) \/ (g = h /\ x = c)
    BY <1>5 DEF ResultLoad, CommandTypeOK
  <2> SUFFICES ASSUME NEW x \in Cmd PROVE OwedOf(x)'
    OBVIOUS
  <2>3. owed[x] \in Nat /\ handed[x] \in Nat
    BY DEF CommandTypeOK
  <2>4. CASE x # c
    BY <2>1, <2>2, <2>4
  <2>5. CASE x = c
    BY <2>1, <2>2, <2>3, <2>5
  <2> QED
    BY <2>4, <2>5
<1>6. ASSUME NEW c \in Cmd, Forget(c)
      PROVE  OwedInv'
  <2>1. \A h \in Handler : ~Reports(h, c)
    BY <1>6 DEF Forget
  <2> QED
    BY <1>6, <2>1 DEF Forget, CommandTypeOK, Settled
<1> QED
  BY <1>1, <1>2, <1>3, <1>4, <1>5, <1>6 DEF CommandNext, Fetch

(***************************************************************************)
(* A command has one row, what has no row is named by nothing, and each     *)
(* report (in flight, or the one that settled the command) has used up one  *)
(* of the times the command was handed out.                                 *)
(***************************************************************************)
THEOREM CommandsAccounted == CommandSpec => []CommandInv
<1>1. CommandInit => CommandInv
  BY CommandConstantsAssumption
     DEF CommandInit, CommandInv, CommandTypeOK, QueueInv, OwedInv, OwedOf, CommandJob, IdleJob, Settled,
         Names, Reports
<1>2. CommandInv /\ [CommandNext]_commandVars => CommandInv'
  <2>1. CommandInv /\ CommandNext => CommandInv'
    BY CommandTypeStep, QueueStep, OwedStep DEF CommandInv
  <2>2. CommandInv /\ UNCHANGED commandVars => CommandInv'
    BY DEF CommandInv, commandVars, CommandTypeOK, QueueInv, OwedInv, OwedOf, Queued, Names, Reports
  <2> QED
    BY <2>1, <2>2
<1> QED
  BY <1>1, <1>2, PTL DEF CommandSpec

(***************************************************************************)
(* claimNextDeviceCommand and completeDeviceCommand write a status whatever *)
(* it is by then; a settled command is changed by them only where it was    *)
(* handed out twice.                                                        *)
(***************************************************************************)
THEOREM SettledCommandsStay == CommandSpec => SettledStays
<1> DEFINE Stays ==
      \A c \in Cmd :
        Queued(c) /\ state[c] \in Settled /\ state'[c] # state[c] /\ Contains(queue', c) =>
          handed'[c] > 1
<1>1. CommandInv /\ [CommandNext]_commandVars => [Stays]_commandVars
  <2> SUFFICES ASSUME CommandInv, CommandNext, NEW c \in Cmd,
                      Queued(c), state[c] \in Settled, state'[c] # state[c], Contains(queue', c)
               PROVE  handed'[c] > 1
    OBVIOUS
  <2> USE CommandConstantsAssumption DEF CommandInv, OwedInv, OwedOf, Reports
  <2>1. ASSUME NEW x \in Cmd, NEW pushed \in BOOLEAN, EnqueueCommand(x, pushed)
        PROVE  FALSE
    BY <2>1 DEF EnqueueCommand, CommandTypeOK
  <2>2. ASSUME NEW h \in Handler, FetchFind(h)
        PROVE  FALSE
    BY <2>2 DEF FetchFind
  <2>3. ASSUME NEW h \in Handler, FetchClaim(h)
        PROVE  handed'[c] > 1
    <3>1. job[h].command = c
      BY <2>3 DEF FetchClaim, CommandTypeOK
    <3>2. handed'[c] = handed[c] + 1
      BY <2>3, <3>1 DEF FetchClaim, HandOut, HandedBy, CommandTypeOK
    <3> QED
      BY <3>2 DEF CommandTypeOK
  <2>4. ASSUME NEW h \in Handler, ResultWrite(h)
        PROVE  handed'[c] > 1
    <3>1. Reports(h, c)
      BY <2>4 DEF ResultWrite, CommandTypeOK
    <3>2. handed'[c] = handed[c]
      BY <2>4 DEF ResultWrite
    <3> QED
      BY <3>1, <3>2 DEF CommandTypeOK
  <2>5. ASSUME NEW h \in Handler, NEW x \in Cmd, NEW outcome \in Settled, ResultLoad(h, x, outcome)
        PROVE  FALSE
    BY <2>5 DEF ResultLoad
  <2>6. ASSUME NEW x \in Cmd, Forget(x)
        PROVE  FALSE
    <3>1. x = c
      BY <2>6 DEF Forget, CommandTypeOK
    <3>2. ~Contains(queue', c)
      BY <2>6, <3>1, ForgottenRow
    <3> QED
      BY <3>2
  <2> QED
    BY <2>1, <2>2, <2>3, <2>4, <2>5, <2>6 DEF CommandNext, Fetch
<1>2. CommandSpec => []CommandInv
  BY CommandsAccounted
<1>3. CommandSpec => [][CommandNext]_commandVars
  BY DEF CommandSpec
<1> QED
  BY <1>1, <1>2, <1>3, PTL DEF SettledStays

=============================================================================
