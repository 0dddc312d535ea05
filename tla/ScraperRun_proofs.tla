-------------------------- MODULE ScraperRun_proofs --------------------------
(***************************************************************************)
(* Theorems about ScraperRun, for every number of callers and runs, every  *)
(* quota, period and threshold, and every length of the clock.             *)
(***************************************************************************)
EXTENDS ScraperRun, FiniteSetTheorems, TLAPS

-----------------------------------------------------------------------------
\* Types and the owner's counter, which rest on each other: a refund never takes
\* the counter below zero because the claim it gives back is counted in it.

\* The worker works on the one run that executes.
WorksOnExecuting ==
    /\ work.pc # "idle" => work.run \in Runs /\ job[work.run] = "executing"
    /\ \A r \in Runs: job[r] = "executing" => work.pc # "idle" /\ work.run = r

\* The task holds a claim on the quota from its check to its call.
QuotaClaim ==
    /\ work.pc \in {"row", "mark", "failRow"} => work.quotaClaimed
    /\ work.pc \in {"idle", "check", "call", "saveRow", "finish", "failedRow", "failedScraper"}
       => ~work.quotaClaimed

\* A claim is stamped.
Stamped == status = "running" => lastRun # Never

\* A run is dispatched once.
Started == {r \in Runs: job[r] \notin {"none", "queued"}}
DispatchedOnce ==
    dispatched + (IF work.pc \in {"check", "row", "mark"} THEN 1 ELSE 0) <= Cardinality(Started)

WorkPcs == {"idle", "check", "row", "mark", "failRow", "call", "saveRow", "finish",
            "failedRow", "failedScraper", "release", "refund"}
WorkRecs == [pc: WorkPcs, run: 0..MaxRuns, quotaClaimed: BOOLEAN, result: {"none"} \union Results]
SchedPcs == {"idle", "claim", "queue", "advance", "recover"}
SchedRecs == [pc: SchedPcs, at: 0..MaxTime]
ReapPcs == {"idle", "active", "cancel", "failRuns", "reset"}
ReapRecs == [pc: ReapPcs, at: Never..MaxTime, seen: 0..MaxTime]
JobStates == {"none", "queued", "done"} \union Processing
RowStates == {"none", "running"} \union Results

RecordTypes ==
    /\ now \in 0..MaxTime /\ status \in RowStates
    /\ lastRun \in Never..MaxTime /\ nextRun \in Never..(MaxTime + Period)
    /\ enabled \in BOOLEAN /\ alive \in BOOLEAN /\ forced \in BOOLEAN
    /\ budget \in 0..MaxFaults
TableTypes ==
    /\ row \in [Runs -> RowStates]
    /\ job \in [Runs -> JobStates]
    /\ created \in [Runs -> 0..MaxTime]
ActorTypes ==
    /\ req \in [Callers -> {"idle", "read", "claimed", "rollback", "done"}]
    /\ sched \in SchedRecs /\ work \in WorkRecs /\ reap \in ReapRecs
CountTypes == used \in 0..Limit /\ dispatched \in 0..MaxRuns /\ lost \in Nat

TypeInv ==
    /\ RecordTypes /\ TableTypes /\ ActorTypes /\ CountTypes
    /\ WorksOnExecuting /\ QuotaClaim /\ Stamped /\ DispatchedOnce /\ QuotaSettled

-----------------------------------------------------------------------------
\* Types.

LEMMA TypeParts == TypeOK <=> RecordTypes /\ TableTypes /\ ActorTypes /\ CountTypes
  BY DEF TypeOK, RecordTypes, TableTypes, ActorTypes, CountTypes, WorkRecs, WorkPcs, SchedRecs,
     SchedPcs, ReapRecs, ReapPcs, JobStates, RowStates

LEMMA Constants ==
    /\ MaxRuns \in Nat /\ Limit \in Nat /\ Period \in Nat /\ Threshold \in Nat
    /\ ForceAfter \in Nat /\ MaxTime \in Nat /\ MaxFaults \in Nat
  BY Bounds

\* What an update of the worker's, the scheduler's and the reaper's records keeps.
LEMMA WorkType ==
    ASSUME NEW w \in WorkRecs
    PROVE  /\ \A p \in WorkPcs: [w EXCEPT !.pc = p] \in WorkRecs
           /\ [w EXCEPT !.pc = "row", !.quotaClaimed = TRUE] \in WorkRecs
           /\ [w EXCEPT !.pc = "call", !.quotaClaimed = FALSE] \in WorkRecs
           /\ \A x \in Results: [w EXCEPT !.pc = "saveRow", !.result = x] \in WorkRecs
  BY DEF WorkRecs, WorkPcs

LEMMA WorkMoves ==
    ASSUME NEW w \in WorkRecs, NEW p \in WorkPcs
    PROVE  /\ [w EXCEPT !.pc = p].pc = p /\ [w EXCEPT !.pc = p].run = w.run
           /\ [w EXCEPT !.pc = p].quotaClaimed = w.quotaClaimed
  BY Zenon DEF WorkRecs

LEMMA NoWorkType ==
    /\ NoWork \in WorkRecs
    /\ \A r \in Runs: [NoWork EXCEPT !.pc = "check", !.run = r] \in WorkRecs
  <1>1. 0 \in 0..MaxRuns /\ \A r \in Runs: r \in 0..MaxRuns
    BY Constants DEF Runs
  <1> QED
    BY <1>1 DEF NoWork, WorkRecs, WorkPcs

LEMMA SchedType ==
    ASSUME RecordTypes, sched \in SchedRecs
    PROVE  /\ Waiting \in SchedRecs /\ [pc |-> "claim", at |-> now] \in SchedRecs
           /\ \A p \in SchedPcs: [sched EXCEPT !.pc = p] \in SchedRecs
  BY Constants DEF RecordTypes, Waiting, SchedRecs, SchedPcs

LEMMA ReapType ==
    ASSUME RecordTypes, reap \in ReapRecs
    PROVE  /\ PassDone \in ReapRecs
           /\ [pc |-> "idle", at |-> now, seen |-> 0] \in ReapRecs
           /\ lastRun # Never => [pc |-> "active", at |-> now, seen |-> lastRun] \in ReapRecs
           /\ \A p \in ReapPcs: [reap EXCEPT !.pc = p] \in ReapRecs
  <1>1. now \in Never..MaxTime /\ 0 \in 0..MaxTime /\ (lastRun # Never => lastRun \in 0..MaxTime)
    BY Constants DEF RecordTypes, Never
  <1> QED
    BY <1>1 DEF PassDone, ReapRecs, ReapPcs

LEMMA TypeInit == Init => TypeInv
  <1> SUFFICES ASSUME Init PROVE TypeInv
    OBVIOUS
  <1>1. RecordTypes
    <2>1. 0 \in 0..MaxTime /\ Never \in Never..MaxTime /\ Never \in Never..(MaxTime + Period)
          /\ MaxFaults \in 0..MaxFaults
      BY Constants DEF Never
    <2> QED
      BY <2>1 DEF Init, RecordTypes, RowStates
  <1>8. CountTypes
    BY Constants DEF Init, CountTypes
  <1>7. TableTypes
    BY Constants DEF Init, TableTypes, RowStates, JobStates
  <1>2. Waiting \in SchedRecs /\ NoPass \in ReapRecs
    BY Constants DEF Waiting, NoPass, SchedRecs, SchedPcs, ReapRecs, ReapPcs, Never
  <1>3. ActorTypes
    BY <1>2, NoWorkType DEF Init, ActorTypes
  <1>4. WorksOnExecuting /\ QuotaClaim /\ Stamped /\ QuotaSettled
    BY DEF Init, WorksOnExecuting, QuotaClaim, Stamped, QuotaSettled, NoWork
  <1>5. Started = {}
    BY DEF Init, Started
  <1>6. DispatchedOnce
    BY <1>5, FS_EmptySet DEF Init, DispatchedOnce, NoWork
  <1> QED
    BY <1>1, <1>7, <1>8, <1>3, <1>4, <1>6 DEF TypeInv

LEMMA SubsetOfRuns ==
    ASSUME NEW T \in SUBSET Runs, NEW S \in SUBSET T
    PROVE  /\ Cardinality(S) \in Nat /\ Cardinality(T) \in Nat
           /\ Cardinality(S) <= Cardinality(T) /\ Cardinality(T) <= MaxRuns
           /\ S # T => Cardinality(S) < Cardinality(T)
  <1>1. IsFiniteSet(Runs) /\ Cardinality(Runs) = MaxRuns
    BY FS_Interval, Constants DEF Runs
  <1>2. IsFiniteSet(T) /\ Cardinality(T) <= MaxRuns
    BY <1>1, FS_Subset
  <1>3. /\ IsFiniteSet(S) /\ Cardinality(S) <= Cardinality(T)
        /\ Cardinality(S) = Cardinality(T) => S = T
    BY <1>2, FS_Subset
  <1>4. Cardinality(S) \in Nat /\ Cardinality(T) \in Nat
    BY <1>2, <1>3, FS_CardinalityType
  <1> QED
    BY <1>2, <1>3, <1>4

\* A step that leaves the worker, the counters and the runs that execute alone.
LEMMA WorkerUntouched ==
    ASSUME TypeInv, UNCHANGED <<work, used, dispatched, lost>>,
           \A r \in Runs: /\ job'[r] = "executing" <=> job[r] = "executing"
                          /\ job'[r] \in {"none", "queued"} => job[r] \in {"none", "queued"}
    PROVE  WorksOnExecuting' /\ QuotaClaim' /\ DispatchedOnce' /\ QuotaSettled' /\ CountTypes'
  <1>1. WorksOnExecuting' /\ QuotaClaim' /\ QuotaSettled' /\ CountTypes'
    BY DEF TypeInv, WorksOnExecuting, QuotaClaim, QuotaSettled, CountTypes
  <1>2. Started \in SUBSET Started' /\ Started' \in SUBSET Runs
    BY DEF Started
  <1>3. /\ Cardinality(Started) \in Nat /\ Cardinality(Started') \in Nat
        /\ Cardinality(Started) <= Cardinality(Started')
    BY <1>2, SubsetOfRuns
  <1>4. /\ work' = work /\ dispatched' = dispatched
        /\ dispatched \in Nat
        /\ dispatched + (IF work.pc \in {"check", "row", "mark"} THEN 1 ELSE 0)
             <= Cardinality(Started)
    BY Constants DEF TypeInv, CountTypes, DispatchedOnce
  <1>5. DispatchedOnce'
    BY <1>3, <1>4 DEF DispatchedOnce
  <1> QED
    BY <1>1, <1>5

LEMMA QueueRunType ==
    ASSUME TypeInv, QueueRun
    PROVE  /\ job' \in [Runs -> JobStates] /\ created' \in [Runs -> 0..MaxTime]
           /\ \A r \in Runs: /\ job'[r] = "executing" <=> job[r] = "executing"
                             /\ job'[r] \in {"none", "queued"} => job[r] \in {"none", "queued"}
  <1>1. job \in [Runs -> JobStates] /\ created \in [Runs -> 0..MaxTime] /\ now \in 0..MaxTime
    BY DEF TypeInv, TableTypes, RecordTypes
  <1>2. PICK q \in Runs: /\ job[q] = "none"
                         /\ job' = [job EXCEPT ![q] = "queued"]
                         /\ created' = [created EXCEPT ![q] = now]
    BY DEF QueueRun
  <1> QED
    BY <1>1, <1>2 DEF JobStates

LEMMA BudgetType ==
    ASSUME RecordTypes, (\E f \in FaultKinds: Fault(f)) \/ NoFault
    PROVE  budget' \in 0..MaxFaults
  BY Constants DEF RecordTypes, Fault, NoFault

LEMMA CallTypes ==
    ASSUME TypeInv, NEW c \in Callers, Read(c) \/ CallStep(c) \/ WebCrash(c)
    PROVE  TypeInv'
  <1> USE DEF record, queue, history
  <1>1. RecordTypes /\ TableTypes /\ ActorTypes
    BY DEF TypeInv
  <1>2. /\ UNCHANGED <<now, nextRun, enabled, alive, forced, row, sched, work, reap, used,
                       dispatched, lost>>
        /\ status' = status \/ (status' = "running" /\ lastRun' = now)
             \/ (status' = "failed" /\ lastRun' = lastRun)
        /\ lastRun' = lastRun \/ lastRun' = now
        /\ req' \in [Callers -> {"idle", "read", "claimed", "rollback", "done"}]
        /\ UNCHANGED queue \/ QueueRun
    BY <1>1 DEF ActorTypes, Read, CallStep, Trigger, ClaimScraperRunning, TriggerQueue, Rollback,
       WebCrash
  <1>3. budget' \in 0..MaxFaults
    <2>1. (\E f \in FaultKinds: Fault(f)) \/ NoFault
      BY DEF Read, CallStep, Trigger, TriggerQueue, Rollback, WebCrash, Written, Throws, FaultKinds
    <2> QED
      BY <1>1, <2>1, BudgetType
  <1>4. /\ job' \in [Runs -> JobStates] /\ created' \in [Runs -> 0..MaxTime]
        /\ \A r \in Runs: /\ job'[r] = "executing" <=> job[r] = "executing"
                          /\ job'[r] \in {"none", "queued"} => job[r] \in {"none", "queued"}
    BY <1>1, <1>2, QueueRunType DEF TableTypes
  <1>5. RecordTypes' /\ Stamped'
    BY <1>1, <1>2, <1>3, Constants DEF RecordTypes, RowStates, Results, TypeInv, Stamped, Never
  <1>6. TableTypes' /\ ActorTypes'
    BY <1>1, <1>2, <1>4 DEF TableTypes, ActorTypes
  <1>7. WorksOnExecuting' /\ QuotaClaim' /\ DispatchedOnce' /\ QuotaSettled' /\ CountTypes'
    BY <1>2, <1>4, WorkerUntouched
  <1> QED
    BY <1>5, <1>6, <1>7 DEF TypeInv

LEMMA SchedTypes ==
    ASSUME TypeInv, SchedRead \/ SchedStep
    PROVE  TypeInv'
  <1> USE DEF record, queue, history
  <1>1. RecordTypes /\ TableTypes /\ ActorTypes
    BY DEF TypeInv
  <1>2. /\ UNCHANGED <<now, alive, forced, row, req, work, reap, used, dispatched, lost>>
        /\ status' = status \/ (status' = "running" /\ lastRun' = now)
             \/ (status' = "failed" /\ lastRun' = lastRun)
        /\ lastRun' = lastRun \/ lastRun' = now
        /\ nextRun' = nextRun \/ nextRun' = sched.at + Period
        /\ enabled' = enabled \/ enabled' = FALSE
        /\ UNCHANGED queue \/ QueueRun
    BY DEF SchedRead, SchedStep, SchedClaim, ClaimScraperRunning, SchedQueue, SchedAdvance,
       SchedRecover, Advance
  <1>3. budget' \in 0..MaxFaults
    <2>1. (\E f \in FaultKinds: Fault(f)) \/ NoFault
      BY DEF SchedRead, SchedStep, SchedClaim, SchedQueue, SchedAdvance, SchedRecover, Written,
         Throws, FaultKinds
    <2> QED
      BY <1>1, <2>1, BudgetType
  <1>4. /\ job' \in [Runs -> JobStates] /\ created' \in [Runs -> 0..MaxTime]
        /\ \A r \in Runs: /\ job'[r] = "executing" <=> job[r] = "executing"
                          /\ job'[r] \in {"none", "queued"} => job[r] \in {"none", "queued"}
    BY <1>1, <1>2, QueueRunType DEF TableTypes
  <1>5. sched' \in SchedRecs
    <2>1. \/ sched' \in {sched, Waiting, [pc |-> "claim", at |-> now]}
          \/ \E p \in {"queue", "advance", "recover"}: sched' = [sched EXCEPT !.pc = p]
      BY DEF SchedRead, SchedStep, SchedClaim, SchedQueue, SchedAdvance, SchedRecover
    <2> QED
      BY <1>1, <2>1, SchedType DEF ActorTypes, SchedPcs
  <1>6. sched.at \in 0..MaxTime
    BY <1>1 DEF ActorTypes, SchedRecs
  <1>7. RecordTypes' /\ Stamped'
    <2>1. nextRun' \in Never..(MaxTime + Period)
      BY <1>1, <1>2, <1>6, Constants DEF RecordTypes, Never
    <2>2. lastRun' \in Never..MaxTime /\ (status' = "running" => lastRun' # Never)
      BY <1>1, <1>2, Constants DEF RecordTypes, TypeInv, Stamped, Never
    <2> QED
      BY <1>1, <1>2, <1>3, <2>1, <2>2 DEF RecordTypes, RowStates, Results, Stamped
  <1>8. TableTypes' /\ ActorTypes'
    BY <1>1, <1>2, <1>4, <1>5 DEF TableTypes, ActorTypes
  <1>9. WorksOnExecuting' /\ QuotaClaim' /\ DispatchedOnce' /\ QuotaSettled' /\ CountTypes'
    BY <1>2, <1>4, WorkerUntouched
  <1> QED
    BY <1>7, <1>8, <1>9 DEF TypeInv

LEMMA ReapTypes ==
    ASSUME TypeInv, ReapList \/ ReapStep
    PROVE  TypeInv'
  <1> USE DEF record, queue, history
  <1>1. RecordTypes /\ TableTypes /\ ActorTypes
    BY DEF TypeInv
  <1>2. /\ UNCHANGED <<now, lastRun, nextRun, enabled, alive, created, req, sched, work, used,
                       dispatched, lost>>
        /\ status' = status \/ status' = "failed"
        /\ forced' = forced \/ forced' = TRUE
    BY DEF ReapList, ReapStep, ReapCheckActive, ReapCancel, CleanupFails, FailStuckScraperRuns,
       ResetStuckScraper
  <1>3. budget' \in 0..MaxFaults
    <2>1. (\E f \in FaultKinds: Fault(f)) \/ NoFault
      BY DEF ReapList, ReapStep, ReapCheckActive, ReapCancel, CleanupFails, FailStuckScraperRuns,
         ResetStuckScraper, Written, Throws, FaultKinds
    <2> QED
      BY <1>1, <2>1, BudgetType
  <1>4. /\ job' \in [Runs -> JobStates]
        /\ \A r \in Runs: /\ job'[r] = "executing" <=> job[r] = "executing"
                          /\ job'[r] \in {"none", "queued"} => job[r] \in {"none", "queued"}
    <2>1. job' = job \/ job' = [r \in Runs |-> IF Orphaned(r) THEN "done" ELSE job[r]]
      BY DEF ReapList, ReapStep, ReapCheckActive, ReapCancel, FailStuckScraperRuns,
         ResetStuckScraper
    <2> QED
      BY <1>1, <2>1 DEF TableTypes, JobStates, Orphaned
  <1>5. row' \in [Runs -> RowStates]
    <2>1. row' = row \/ row' = [r \in Runs |-> IF row[r] = "running" THEN "failed" ELSE row[r]]
      BY DEF ReapList, ReapStep, ReapCheckActive, ReapCancel, FailStuckScraperRuns,
         ResetStuckScraper
    <2> QED
      BY <1>1, <2>1 DEF TableTypes, RowStates, Results
  <1>6. reap' \in ReapRecs
    <2>1. CASE ReapList
      BY <1>1, <2>1, ReapType DEF ActorTypes, ReapList, TypeInv, Stamped
    <2>2. CASE ReapStep
      BY <1>1, <2>2, ReapType DEF ActorTypes, ReapStep, ReapPcs, ReapCheckActive, ReapCancel,
         CleanupFails, FailStuckScraperRuns, ResetStuckScraper
    <2> QED
      BY <2>1, <2>2
  <1>7. RecordTypes' /\ Stamped'
    BY <1>1, <1>2, <1>3 DEF RecordTypes, RowStates, Results, TypeInv, Stamped
  <1>8. TableTypes' /\ ActorTypes'
    BY <1>1, <1>2, <1>4, <1>5, <1>6 DEF TableTypes, ActorTypes
  <1>9. WorksOnExecuting' /\ QuotaClaim' /\ DispatchedOnce' /\ QuotaSettled' /\ CountTypes'
    BY <1>2, <1>4, WorkerUntouched
  <1> QED
    BY <1>7, <1>8, <1>9 DEF TypeInv

\* The owner's edits, deletion and erasure, the import's end and the clock.
LEMMA OtherTypes ==
    ASSUME TypeInv, Edit \/ Delete \/ EraseAccount \/ Tick \/ UNCHANGED vars
                    \/ \E r \in Runs: ImportEnds(r)
    PROVE  TypeInv'
  <1> USE DEF record, queue, history
  <1>1. RecordTypes /\ TableTypes /\ ActorTypes
    BY DEF TypeInv
  <1>2. /\ UNCHANGED <<lastRun, nextRun, forced, created, req, sched, work, reap, used,
                       dispatched, lost>>
        /\ status' \in {status, "failed"}
        /\ enabled' \in {enabled, ~enabled} /\ alive' \in {alive, FALSE}
        /\ now' = now \/ (now' = now + 1 /\ now < MaxTime)
        /\ row' = row \/ row' = [r \in Runs |-> "none"]
        /\ job' = job \/ \E r \in Runs: job[r] = "importing" /\ job' = [job EXCEPT ![r] = "done"]
    BY DEF Edit, Delete, EraseAccount, Tick, ImportEnds, vars
  <1>3. budget' \in 0..MaxFaults
    <2>1. (\E f \in FaultKinds: Fault(f)) \/ NoFault
      BY DEF Edit, Delete, EraseAccount, Tick, ImportEnds, vars, NoFault, FaultKinds
    <2> QED
      BY <1>1, <2>1, BudgetType
  <1>4. /\ job' \in [Runs -> JobStates]
        /\ \A r \in Runs: /\ job'[r] = "executing" <=> job[r] = "executing"
                          /\ job'[r] \in {"none", "queued"} => job[r] \in {"none", "queued"}
    BY <1>1, <1>2 DEF TableTypes, JobStates
  <1>5. RecordTypes' /\ Stamped'
    <2>1. now' \in 0..MaxTime
      BY <1>1, <1>2, Constants DEF RecordTypes
    <2> QED
      BY <1>1, <1>2, <1>3, <2>1 DEF RecordTypes, RowStates, Results, TypeInv, Stamped
  <1>6. TableTypes' /\ ActorTypes'
    BY <1>1, <1>2, <1>4 DEF TableTypes, ActorTypes, RowStates
  <1>7. WorksOnExecuting' /\ QuotaClaim' /\ DispatchedOnce' /\ QuotaSettled' /\ CountTypes'
    BY <1>2, <1>4, WorkerUntouched
  <1> QED
    BY <1>5, <1>6, <1>7 DEF TypeInv

\* Every step of the task on its way writes the run in progress only: its row,
\* and its queue row when the task ends.
LEMMA WorkTypes ==
    ASSUME TypeInv, WorkStep \/ WorkerDeath \/ \E r \in Runs: StartRun(r)
    PROVE  TypeInv'
  <1> USE DEF record, queue, history
  <1>1. RecordTypes /\ TableTypes /\ ActorTypes /\ CountTypes
    BY DEF TypeInv
  <1>2. /\ UNCHANGED <<now, nextRun, enabled, alive, forced, created, req, sched, reap>>
        /\ status' = status \/ (status' = "running" /\ lastRun' = now)
             \/ (status' = "failed" /\ lastRun' \in {lastRun, now})
             \/ (status' = work.result /\ lastRun' = now)
        /\ lastRun' \in {lastRun, now}
        /\ row' = row \/ \E x \in {"running", "failed", work.result}:
                             row' = [row EXCEPT ![work.run] = x]
    BY DEF WorkStep, CheckRun, CreateRow, MarkRunning, FailOrphanRow, CallRunner, SaveRow,
       FinishScraper, FailRow, FailScraper, FailLost, ReleaseClaim, Refund, WorkerDeath, StartRun
  <1>3. budget' \in 0..MaxFaults
    <2>1. (\E f \in FaultKinds: Fault(f)) \/ NoFault
      BY DEF WorkStep, CheckRun, CreateRow, MarkRunning, FailOrphanRow, CallRunner, SaveRow,
         FinishScraper, FailRow, FailScraper, FailLost, ReleaseClaim, Refund, WorkerDeath, StartRun,
         Written, Throws, FaultKinds
    <2> QED
      BY <1>1, <2>1, BudgetType
  <1>4. work.result \in {"none"} \union Results /\ work.quotaClaimed \in BOOLEAN
    BY <1>1 DEF ActorTypes, WorkRecs
  <1>5. RecordTypes' /\ Stamped'
    <2>1. lastRun' \in Never..MaxTime /\ (status' = "running" => lastRun' # Never)
      BY <1>1, <1>2, <1>4, Constants DEF RecordTypes, TypeInv, Stamped, Never, Results
    <2> QED
      BY <1>1, <1>2, <1>3, <1>4, <2>1 DEF RecordTypes, RowStates, Results, Stamped
  <1>6. row' \in [Runs -> RowStates]
    BY <1>1, <1>2, <1>4 DEF TableTypes, RowStates, Results
  <1> SUFFICES /\ job' \in [Runs -> JobStates] /\ work' \in WorkRecs /\ CountTypes'
               /\ WorksOnExecuting' /\ QuotaClaim' /\ DispatchedOnce' /\ QuotaSettled'
    BY <1>1, <1>2, <1>5, <1>6 DEF TypeInv, TableTypes, ActorTypes
  <1>7. ASSUME NEW r \in Runs, StartRun(r)
        PROVE  /\ job' \in [Runs -> JobStates] /\ work' \in WorkRecs /\ CountTypes'
               /\ WorksOnExecuting' /\ QuotaClaim' /\ DispatchedOnce' /\ QuotaSettled'
    <2>1. /\ work.pc = "idle" /\ ~work.quotaClaimed
          /\ job[r] = "queued" /\ job' = [job EXCEPT ![r] = "executing"]
          /\ work' = [NoWork EXCEPT !.pc = "check", !.run = r]
          /\ UNCHANGED <<used, dispatched, lost>>
      BY <1>7 DEF StartRun, TypeInv, WorksOnExecuting, QuotaClaim, Processing
    <2>2. work'.pc = "check" /\ work'.run = r /\ ~work'.quotaClaimed
      BY <2>1 DEF NoWork
    <2>3. work' \in WorkRecs /\ job' \in [Runs -> JobStates]
      BY <1>1, <2>1, NoWorkType DEF TableTypes, JobStates, Processing
    <2>4. WorksOnExecuting' /\ QuotaClaim' /\ QuotaSettled' /\ CountTypes'
      BY <1>1, <2>1, <2>2
      DEF WorksOnExecuting, QuotaClaim, QuotaSettled, CountTypes, TypeInv, TableTypes
    <2>5. DispatchedOnce'
      <3>1. /\ Started \in SUBSET Started' /\ Started' \in SUBSET Runs
            /\ r \in Started' /\ r \notin Started
        BY <1>1, <2>1 DEF Started, TableTypes
      <3>2. /\ Cardinality(Started) \in Nat /\ Cardinality(Started') \in Nat
            /\ Cardinality(Started) < Cardinality(Started')
        BY <3>1, SubsetOfRuns
      <3>3. dispatched <= Cardinality(Started) /\ dispatched \in Nat /\ dispatched' = dispatched
        BY <1>1, <2>1, Constants DEF CountTypes, TypeInv, DispatchedOnce
      <3>4. dispatched' + 1 <= Cardinality(Started')
        BY <3>2, <3>3
      <3> QED
        BY <2>2, <3>4 DEF DispatchedOnce
    <2> QED
      BY <2>3, <2>4, <2>5
  <1>8. \A S: S \in SUBSET Runs => Cardinality(S) \in Nat /\ Cardinality(S) <= MaxRuns
    BY SubsetOfRuns
  <1>9. Started \in SUBSET Runs
    BY DEF Started
  <1>10. ASSUME NEW x \in {"importing", "done", "killed"}, work.pc # "idle",
                work' = NoWork, job' = [job EXCEPT ![work.run] = x],
                dispatched' = dispatched,
                \/ UNCHANGED <<used, lost>> /\ ~work.quotaClaimed
                \/ work.quotaClaimed /\ used' = used - 1 /\ UNCHANGED lost
                \/ work.quotaClaimed /\ lost' = lost + 1 /\ UNCHANGED used
         PROVE  /\ job' \in [Runs -> JobStates] /\ work' \in WorkRecs /\ CountTypes'
                /\ WorksOnExecuting' /\ QuotaClaim' /\ DispatchedOnce' /\ QuotaSettled'
    <2>1. work.run \in Runs /\ job[work.run] = "executing" /\ job \in [Runs -> JobStates]
      BY <1>1, <1>10 DEF TypeInv, WorksOnExecuting, TableTypes
    <2>2. work'.pc = "idle" /\ ~work'.quotaClaimed
      BY <1>10 DEF NoWork
    <2>3. work' \in WorkRecs /\ job' \in [Runs -> JobStates]
      BY <1>10, <2>1, NoWorkType DEF JobStates, Processing
    <2>4. WorksOnExecuting' /\ QuotaClaim'
      BY <1>10, <2>1, <2>2 DEF TypeInv, WorksOnExecuting, QuotaClaim
    <2>5. QuotaSettled' /\ CountTypes'
      BY <1>1, <1>10, <2>2, Constants DEF TypeInv, QuotaSettled, CountTypes
    <2>6. DispatchedOnce'
      <3>1. Started' = Started
        BY <1>10, <2>1 DEF Started
      <3>2. dispatched <= Cardinality(Started)
        BY <1>1, <1>8, <1>9, Constants DEF TypeInv, DispatchedOnce, CountTypes
      <3> QED
        BY <1>1, <1>8, <1>9, <1>10, <2>2, <3>1, <3>2, Constants DEF DispatchedOnce, CountTypes
    <2> QED
      BY <2>3, <2>4, <2>5, <2>6
  <1>11. ASSUME work.pc # "idle", work'.pc # "idle", work'.run = work.run, UNCHANGED job,
                work' \in WorkRecs
         PROVE  job' \in [Runs -> JobStates] /\ WorksOnExecuting' /\ Started' = Started
    BY <1>1, <1>11 DEF TypeInv, TableTypes, WorksOnExecuting, Started
  <1>12. CASE CheckRun
    <2>1. CASE work' = [work EXCEPT !.pc = "row", !.quotaClaimed = TRUE] /\ used' = used + 1
               /\ used < Limit
      <3>1. work' \in WorkRecs /\ work'.pc = "row" /\ work'.run = work.run /\ work'.quotaClaimed
        BY <1>1, <2>1, WorkType DEF ActorTypes, WorkRecs
      <3>2. /\ work.pc = "check" /\ ~work.quotaClaimed /\ UNCHANGED <<job, dispatched, lost>>
        BY <1>12 DEF CheckRun, TypeInv, QuotaClaim
      <3>3. CountTypes' /\ QuotaSettled' /\ QuotaClaim'
        BY <1>1, <2>1, <3>1, <3>2, Constants DEF TypeInv, CountTypes, QuotaSettled, QuotaClaim
      <3>4. DispatchedOnce'
        BY <1>11, <3>1, <3>2 DEF TypeInv, DispatchedOnce
      <3> QED
        BY <1>11, <3>1, <3>2, <3>3, <3>4
    <2>2. CASE work' = [work EXCEPT !.pc = "release"] /\ UNCHANGED used
      <3>1. /\ work' \in WorkRecs /\ work'.pc = "release" /\ work'.run = work.run
            /\ work'.quotaClaimed = work.quotaClaimed
        BY <1>1, <2>2, WorkType, WorkMoves DEF ActorTypes, WorkPcs
      <3>2. work.pc = "check" /\ UNCHANGED <<job, dispatched, lost>>
        BY <1>12 DEF CheckRun
      <3>3. CountTypes' /\ QuotaSettled' /\ QuotaClaim'
        BY <2>2, <3>1, <3>2 DEF TypeInv, CountTypes, QuotaSettled, QuotaClaim
      <3>4. DispatchedOnce'
        BY <1>1, <1>8, <1>9, <1>11, <3>1, <3>2, Constants DEF TypeInv, DispatchedOnce, CountTypes
      <3> QED
        BY <1>11, <3>1, <3>2, <3>3, <3>4
    <2> QED
      BY <1>12, <2>1, <2>2 DEF CheckRun
  <1>13. CASE MarkRunning /\ work' = [work EXCEPT !.pc = "call", !.quotaClaimed = FALSE]
              /\ dispatched' = dispatched + 1
    <2>1. work' \in WorkRecs /\ work'.pc = "call" /\ work'.run = work.run /\ ~work'.quotaClaimed
      BY <1>1, <1>13, WorkType DEF ActorTypes, WorkRecs
    <2>2. work.pc = "mark" /\ work.quotaClaimed /\ UNCHANGED <<job, used, lost>>
      BY <1>13 DEF MarkRunning, TypeInv, QuotaClaim
    <2>3. QuotaSettled' /\ QuotaClaim'
      BY <1>1, <1>13, <2>1, <2>2, Constants DEF TypeInv, CountTypes, QuotaSettled, QuotaClaim
    <2>4. dispatched + 1 <= Cardinality(Started)
      BY <2>2 DEF TypeInv, DispatchedOnce
    <2>5. DispatchedOnce'
      BY <1>1, <1>8, <1>9, <1>11, <1>13, <2>1, <2>2, <2>4, Constants DEF DispatchedOnce, CountTypes
    <2>6. CountTypes'
      BY <1>1, <1>8, <1>9, <1>13, <2>2, <2>4, Constants DEF CountTypes
    <2> QED
      BY <1>11, <2>1, <2>2, <2>3, <2>5, <2>6
  <1>14. ASSUME NEW p \in {"mark", "failRow", "finish", "failedRow", "failedScraper", "release",
                           "refund"},
                work.pc # "idle", work' = [work EXCEPT !.pc = p],
                UNCHANGED <<job, used, dispatched, lost>>,
                p \in {"mark", "failRow"} => work.quotaClaimed /\ work.pc \in {"row", "mark"},
                p \in {"finish", "failedRow", "failedScraper"} => ~work.quotaClaimed
         PROVE  /\ job' \in [Runs -> JobStates] /\ work' \in WorkRecs /\ CountTypes'
                /\ WorksOnExecuting' /\ QuotaClaim' /\ DispatchedOnce' /\ QuotaSettled'
    <2>1. /\ work' \in WorkRecs /\ work'.pc = p /\ work'.run = work.run
          /\ work'.quotaClaimed = work.quotaClaimed
      <3>1. p \in WorkPcs /\ work \in WorkRecs
        BY <1>1, <1>14 DEF ActorTypes, WorkPcs
      <3> QED
        BY <1>14, <3>1, WorkType, WorkMoves
    <2>2. CountTypes' /\ QuotaSettled' /\ QuotaClaim'
      BY <1>14, <2>1 DEF TypeInv, CountTypes, QuotaSettled, QuotaClaim
    <2>3. DispatchedOnce'
      BY <1>1, <1>8, <1>9, <1>11, <1>14, <2>1, Constants DEF TypeInv, DispatchedOnce, CountTypes
    <2> QED
      BY <1>11, <1>14, <2>1, <2>2, <2>3
  <1>15. CASE CallRunner /\ work'.pc = "saveRow"
    <2>1. PICK x \in Results: work' = [work EXCEPT !.pc = "saveRow", !.result = x]
      BY <1>1, <1>15 DEF CallRunner, Results, ActorTypes, WorkRecs
    <2>2. /\ work' \in WorkRecs /\ work'.run = work.run /\ work'.quotaClaimed = work.quotaClaimed
      BY <1>1, <2>1, WorkType DEF ActorTypes, WorkRecs
    <2>3. work.pc = "call" /\ UNCHANGED <<job, used, dispatched, lost>>
      BY <1>15 DEF CallRunner
    <2>4. CountTypes' /\ QuotaSettled' /\ QuotaClaim'
      BY <1>15, <2>2, <2>3 DEF TypeInv, CountTypes, QuotaSettled, QuotaClaim
    <2>5. DispatchedOnce'
      BY <1>11, <1>15, <2>2, <2>3 DEF TypeInv, DispatchedOnce
    <2> QED
      BY <1>11, <1>15, <2>2, <2>3, <2>4, <2>5
  <1>16. CASE CallRunner
    BY <1>1, <1>14, <1>15, <1>16 DEF CallRunner, TypeInv, QuotaClaim, ActorTypes, WorkRecs
  <1>17. CASE CreateRow
    BY <1>14, <1>17 DEF CreateRow, TypeInv, QuotaClaim
  <1>18. CASE MarkRunning
    BY <1>13, <1>14, <1>18 DEF MarkRunning, TypeInv, QuotaClaim
  <1>19. CASE FailOrphanRow \/ ReleaseClaim
    BY <1>14, <1>19 DEF FailOrphanRow, ReleaseClaim
  <1>20. CASE SaveRow
    BY <1>14, <1>20 DEF SaveRow, TypeInv, QuotaClaim
  <1>21. CASE FailRow \/ FailScraper \/ FailLost
    BY <1>14, <1>21 DEF FailRow, FailScraper, FailLost, TypeInv, QuotaClaim
  <1>22. CASE FinishScraper
    <2>1. work.pc = "finish" /\ ~work.quotaClaimed /\ UNCHANGED <<used, dispatched, lost>>
      BY <1>22 DEF FinishScraper, TypeInv, QuotaClaim
    <2> QED
      BY <1>10, <1>14, <1>22, <2>1 DEF FinishScraper
  <1>23. CASE Refund
    BY <1>10, <1>23 DEF Refund
  <1>24. CASE WorkerDeath
    <2>1. CASE work.quotaClaimed
      BY <1>10, <1>24, <2>1 DEF WorkerDeath
    <2>2. CASE ~work.quotaClaimed
      <3>1. lost' = lost
        BY <1>1, <1>24, <2>2 DEF WorkerDeath, CountTypes
      <3> QED
        BY <1>10, <1>24, <2>2, <3>1 DEF WorkerDeath
    <2> QED
      BY <2>1, <2>2
  <1> QED
    BY <1>7, <1>12, <1>16, <1>17, <1>18, <1>19, <1>20, <1>21, <1>22, <1>23, <1>24 DEF WorkStep

LEMMA TypeStep == TypeInv /\ [Next]_vars => TypeInv'
  BY CallTypes, SchedTypes, ReapTypes, OtherTypes, WorkTypes DEF Next

\* Every variable keeps its type; no counter leaves its range.
THEOREM TypesKept == Spec => []TypeOK
  <1>1. TypeInv => TypeOK
    BY TypeParts DEF TypeInv
  <1> QED
    BY <1>1, TypeInit, TypeStep, PTL DEF Spec

\* The owner's daily counter is settled exactly: whatever fails, and wherever the
\* worker dies, it is the runs handed to the runner, the claim in hand and the
\* claims that were lost.
THEOREM QuotaKept == Spec => []QuotaSettled
  <1>1. TypeInv => QuotaSettled
    BY DEF TypeInv
  <1> QED
    BY <1>1, TypeInit, TypeStep, PTL DEF Spec

-----------------------------------------------------------------------------
\* The claim is a token.  Its holder is a caller or the scheduler between its
\* claim and its queue call or rollback, or a run that waits or executes.

\* What the protocol rests on: a threshold above zero, no trigger's claim and no
\* start of a run within a reaper's pass, no failing write between the
\* scheduler's queue call and its end, and no job younger than its claim's cutoff.
Calm ==
    /\ Threshold > 0
    /\ Faults \intersect {"overlap", "advanceFail", "window"} = {}

Holding(c) == req[c] \in {"claimed", "rollback"}
SchedHolds == sched.pc = "queue" \/ (sched.pc = "recover" /\ alive)
NobodyClaims == (\A c \in Callers: ~Holding(c)) /\ ~SchedHolds
Executes == work.pc \notin {"idle", "refund"}
NoneQueued == \A r \in Runs: job[r] # "queued"

\* A claim without a job is of this hour.
FreshClaim == ~NobodyClaims => lastRun = now

\* Whoever holds the scraper has made it say "running".
HolderRuns == alive /\ status # "running" => NobodyClaims /\ ~Executes /\ NoneQueued
OneHolder ==
    /\ \A c, d \in Callers: Holding(c) /\ Holding(d) => c = d
    /\ \A r, s \in Runs: job[r] = "queued" /\ job[s] = "queued" => r = s
    /\ \A c \in Callers: Holding(c) => ~SchedHolds
    /\ ~NobodyClaims => ~Executes /\ NoneQueued
    /\ Executes => NoneQueued
\* The claim of a job that waits is as old as the job.
QueuedStamp == \A r \in Runs: job[r] = "queued" => created[r] = lastRun
\* A pass of the reaper goes on only while nobody makes a claim, and then only
\* while nothing executes or waits.
PassAlone ==
    reap.pc # "idle" =>
        /\ NobodyClaims
        /\ \A r \in Runs: job[r] = "queued" => created[r] <= reap.at - Threshold
        /\ reap.pc # "active" => work.pc = "idle"
        /\ reap.pc \in {"failRuns", "reset"} => NoneQueued
Token == HolderRuns /\ OneHolder /\ QueuedStamp /\ PassAlone

ClaimInv == FreshClaim /\ (~forced => Token)

\* The token while the worker, the queue or the reaper lets go and nobody claims.
LEMMA LettingGo ==
    ASSUME Token, UNCHANGED <<lastRun, created>>,
           \A d \in Callers: Holding(d)' => Holding(d),
           SchedHolds' => SchedHolds, Executes' => Executes, work.pc = "idle" => work'.pc = "idle",
           alive' => alive /\ status' \in {status, "running"},
           \A r \in Runs: job'[r] = "queued" => job[r] = "queued",
           reap' = reap \/ reap'.pc = "idle"
    PROVE  Token'
  <1>1. NobodyClaims => NobodyClaims'
    BY DEF NobodyClaims
  <1>2. NoneQueued => NoneQueued'
    BY DEF NoneQueued
  <1>3. HolderRuns' /\ QueuedStamp'
    BY <1>1, <1>2 DEF Token, HolderRuns, QueuedStamp
  <1>4. OneHolder'
    BY <1>1, <1>2 DEF Token, OneHolder
  <1>5. PassAlone'
    BY <1>1, <1>2 DEF Token, PassAlone
  <1> QED
    BY <1>3, <1>4, <1>5 DEF Token

\* Nobody is left that holds the scraper: the record may say anything.
LEMMA NobodyHolds ==
    ASSUME Token, NobodyClaims', ~Executes', NoneQueued', reap.pc # "idle" => work'.pc = "idle",
           reap'.pc = "idle" \/ reap' = reap
    PROVE  Token'
  BY DEF Token, HolderRuns, OneHolder, QueuedStamp, PassAlone, NobodyClaims, NoneQueued

\* A release by force is never taken back; after one only the stamp remains.
LEMMA OnceForced ==
    ASSUME TypeInv, [Next]_vars
    PROVE  forced => forced'
  BY DEF Next, CallStep, SchedStep, WorkStep, ReapStep, vars, record, queue, history, Read, Trigger,
     TriggerQueue, Rollback, WebCrash, Edit, Delete, EraseAccount, SchedRead, SchedClaim, SchedQueue,
     SchedAdvance, SchedRecover, StartRun, ImportEnds, CheckRun, CreateRow, MarkRunning,
     FailOrphanRow, CallRunner, SaveRow, FinishScraper, FailRow, FailScraper, FailLost,
     ReleaseClaim, Refund, WorkerDeath, ReapList, ReapCheckActive, ReapCancel, CleanupFails,
     FailStuckScraperRuns, ResetStuckScraper, Tick

LEMMA FreshStep == TypeInv /\ Calm /\ FreshClaim /\ [Next]_vars => FreshClaim'
  <1> SUFFICES ASSUME TypeInv, Calm, FreshClaim, [Next]_vars PROVE FreshClaim'
    OBVIOUS
  <1> USE DEF record, queue, history
  <1>1. /\ req \in [Callers -> {"idle", "read", "claimed", "rollback", "done"}]
        /\ sched \in SchedRecs
    BY DEF TypeInv, ActorTypes
  <1>2. ASSUME UNCHANGED <<now, req, sched>>, lastRun' \in {lastRun, now}, alive' => alive
        PROVE  FreshClaim'
    BY <1>2 DEF FreshClaim, NobodyClaims, Holding, SchedHolds
  <1>3. ASSUME NEW c \in Callers, Read(c) \/ CallStep(c) \/ WebCrash(c)
        PROVE  FreshClaim'
    <2>1. UNCHANGED <<now, alive, sched>> /\ lastRun' \in {lastRun, now}
      BY <1>3 DEF Read, CallStep, Trigger, ClaimScraperRunning, TriggerQueue, Rollback, WebCrash
    <2>2. lastRun' = now \/ \A d \in Callers: Holding(d)' => Holding(d)
      BY <1>1, <1>3 DEF Read, CallStep, Trigger, ClaimScraperRunning, TriggerQueue, Rollback,
         WebCrash, Holding
    <2> QED
      BY <2>1, <2>2 DEF FreshClaim, NobodyClaims, SchedHolds
  <1>4. CASE SchedRead \/ SchedStep
    <2>1. UNCHANGED <<now, alive, req>> /\ lastRun' \in {lastRun, now}
      BY <1>4 DEF SchedRead, SchedStep, SchedClaim, ClaimScraperRunning, SchedQueue, SchedAdvance,
         SchedRecover
    <2>2. lastRun' = now \/ (SchedHolds' => SchedHolds)
      BY <1>1, <1>4 DEF SchedRead, SchedStep, SchedClaim, ClaimScraperRunning, SchedQueue,
         SchedAdvance, SchedRecover, Calm, Fault, SchedHolds, SchedRecs, Waiting
    <2> QED
      BY <2>1, <2>2 DEF FreshClaim, NobodyClaims, Holding
  <1>5. CASE WorkStep \/ WorkerDeath \/ \E r \in Runs: StartRun(r)
    BY <1>2, <1>5 DEF WorkStep, CheckRun, CreateRow, MarkRunning, FailOrphanRow, CallRunner,
       SaveRow, FinishScraper, FailRow, FailScraper, FailLost, ReleaseClaim, Refund, WorkerDeath,
       StartRun
  <1>6. CASE Edit \/ Delete \/ EraseAccount \/ ReapList \/ ReapStep \/ UNCHANGED vars
             \/ \E r \in Runs: ImportEnds(r)
    BY <1>2, <1>6 DEF Edit, Delete, EraseAccount, ReapList, ReapStep, ReapCheckActive, ReapCancel,
       FailStuckScraperRuns, ResetStuckScraper, vars, ImportEnds
  <1>7. CASE Tick
    BY <1>7 DEF Tick, FreshClaim, NobodyClaims, Holding, SchedHolds
  <1> QED
    BY <1>3, <1>4, <1>5, <1>6, <1>7 DEF Next

LEMMA CallTokens ==
    ASSUME TypeInv, FreshClaim, Token, Calm, NEW c \in Callers,
           Read(c) \/ CallStep(c) \/ WebCrash(c)
    PROVE  Token'
  <1> USE DEF record, queue, history
  <1>1. req \in [Callers -> {"idle", "read", "claimed", "rollback", "done"}]
    BY DEF TypeInv, ActorTypes
  <1>2. UNCHANGED <<now, alive, sched, work, reap>>
    BY DEF Read, CallStep, Trigger, TriggerQueue, Rollback, WebCrash
  <1>3. SchedHolds' = SchedHolds /\ Executes' = Executes
    BY <1>2 DEF SchedHolds, Executes
  <1>4. CASE UNCHANGED <<status, lastRun, queue>> /\ \A d \in Callers: Holding(d)' => Holding(d)
    BY <1>2, <1>3, <1>4, LettingGo
  <1>5. CASE Read(c) \/ WebCrash(c)
    BY <1>1, <1>4, <1>5 DEF Read, WebCrash, Holding
  <1>6. CASE Trigger(c)
    <2>1. CASE ClaimScraperRunning /\ req' = [req EXCEPT ![c] = "claimed"]
      <3>1. NobodyClaims /\ ~Executes /\ NoneQueued /\ reap.pc = "idle"
        BY <2>1 DEF ClaimScraperRunning, Calm, Token, HolderRuns
      <3>2. status' = "running" /\ UNCHANGED <<job, created>>
        BY <1>6, <2>1 DEF ClaimScraperRunning, Trigger
      <3>3. ~SchedHolds' /\ ~Executes' /\ NoneQueued' /\ \A d \in Callers: Holding(d)' => d = c
        BY <1>1, <1>3, <2>1, <3>1, <3>2 DEF NobodyClaims, NoneQueued, Holding
      <3> QED
        BY <1>2, <3>1, <3>2, <3>3
        DEF Token, HolderRuns, OneHolder, QueuedStamp, PassAlone, NoneQueued
    <2>2. CASE req' = [req EXCEPT ![c] = "done"] /\ UNCHANGED <<status, lastRun>>
      BY <1>1, <1>4, <1>6, <2>2 DEF Trigger, Holding
    <2> QED
      BY <1>6, <2>1, <2>2 DEF Trigger
  <1>7. CASE TriggerQueue(c)
    <2>1. Holding(c)
      BY <1>7 DEF TriggerQueue, Holding
    <2>2. /\ reap.pc = "idle" /\ ~SchedHolds /\ ~Executes /\ NoneQueued
          /\ \A d \in Callers: d # c => ~Holding(d)
          /\ lastRun = now /\ (alive => status = "running")
      BY <2>1 DEF Token, HolderRuns, OneHolder, PassAlone, NobodyClaims, FreshClaim
    <2>3. CASE QueueRun /\ req' = [req EXCEPT ![c] = "done"]
      <3>1. PICK q \in Runs: /\ job' = [job EXCEPT ![q] = "queued"]
                             /\ created' = [created EXCEPT ![q] = now]
        BY <2>3 DEF QueueRun
      <3>2. /\ \A r \in Runs: job'[r] = "queued" => r = q
            /\ created'[q] = now
        BY <2>2, <3>1 DEF TypeInv, TableTypes, NoneQueued
      <3>3. UNCHANGED <<status, lastRun>>
        BY <1>7 DEF TriggerQueue
      <3>4. NobodyClaims' /\ ~Executes'
        BY <1>1, <1>3, <2>2, <2>3 DEF NobodyClaims, Holding
      <3>5. QueuedStamp'
        BY <2>2, <3>2, <3>3 DEF QueuedStamp
      <3>6. OneHolder'
        BY <3>2, <3>4 DEF OneHolder, NobodyClaims
      <3> QED
        BY <1>2, <2>2, <3>3, <3>4, <3>5, <3>6 DEF Token, HolderRuns, PassAlone
    <2>4. CASE req' = [req EXCEPT ![c] = "rollback"] /\ UNCHANGED queue
      BY <1>1, <1>4, <1>7, <2>1, <2>4 DEF TriggerQueue, Holding
    <2> QED
      BY <1>7, <2>3, <2>4 DEF TriggerQueue
  <1>8. CASE Rollback(c)
    <2>1. Holding(c)
      BY <1>8 DEF Rollback, Holding
    <2>2. /\ reap.pc = "idle" /\ ~SchedHolds /\ ~Executes /\ NoneQueued
          /\ \A d \in Callers: d # c => ~Holding(d)
      BY <2>1 DEF Token, OneHolder, PassAlone, NobodyClaims
    <2>3. NobodyClaims' /\ NoneQueued'
      BY <1>1, <1>3, <1>8, <2>2 DEF Rollback, NobodyClaims, NoneQueued, Holding
    <2> QED
      BY <1>2, <1>3, <2>2, <2>3, NobodyHolds
  <1> QED
    BY <1>5, <1>6, <1>7, <1>8 DEF CallStep

LEMMA SchedTokens ==
    ASSUME TypeInv, FreshClaim, Token, Calm, SchedRead \/ SchedStep
    PROVE  Token'
  <1> USE DEF record, queue, history
  <1>1. sched \in SchedRecs /\ \A p \in SchedPcs: [sched EXCEPT !.pc = p].pc = p
    BY DEF TypeInv, ActorTypes, SchedRecs
  <1>2. UNCHANGED <<now, alive, req, work, reap>>
    BY DEF SchedRead, SchedStep, SchedClaim, SchedQueue, SchedAdvance, SchedRecover
  <1>3. (\A d \in Callers: Holding(d)' = Holding(d)) /\ Executes' = Executes
    BY <1>2 DEF Holding, Executes
  <1>4. CASE UNCHANGED <<status, lastRun, queue>> /\ (SchedHolds' => SchedHolds)
    BY <1>2, <1>3, <1>4, LettingGo
  <1>5. CASE SchedRead
    BY <1>4, <1>5 DEF SchedRead, SchedHolds
  <1>6. CASE SchedClaim
    <2>1. CASE ClaimScraperRunning
      <3>1. NobodyClaims /\ ~Executes /\ NoneQueued /\ reap.pc = "idle"
        BY <2>1 DEF ClaimScraperRunning, Calm, Token, HolderRuns
      <3>2. status' = "running" /\ UNCHANGED <<job, created>>
        BY <1>6, <2>1 DEF ClaimScraperRunning, SchedClaim
      <3>3. ~Executes' /\ NoneQueued' /\ \A d \in Callers: ~Holding(d)'
        BY <1>3, <3>1, <3>2 DEF NobodyClaims, NoneQueued
      <3> QED
        BY <1>2, <3>1, <3>2, <3>3
        DEF Token, HolderRuns, OneHolder, QueuedStamp, PassAlone, NoneQueued
    <2>2. CASE sched' = Waiting /\ UNCHANGED <<status, lastRun>>
      BY <1>4, <1>6, <2>2 DEF SchedClaim, SchedHolds, Waiting
    <2> QED
      BY <1>6, <2>1, <2>2 DEF SchedClaim
  <1>7. CASE SchedQueue
    <2>1. SchedHolds
      BY <1>7 DEF SchedQueue, SchedHolds
    <2>2. /\ reap.pc = "idle" /\ ~Executes /\ NoneQueued /\ \A d \in Callers: ~Holding(d)
          /\ lastRun = now /\ (alive => status = "running")
      BY <2>1 DEF Token, HolderRuns, OneHolder, PassAlone, NobodyClaims, FreshClaim
    <2>3. CASE QueueRun /\ sched' = [sched EXCEPT !.pc = "advance"]
      <3>1. PICK q \in Runs: /\ job' = [job EXCEPT ![q] = "queued"]
                             /\ created' = [created EXCEPT ![q] = now]
        BY <2>3 DEF QueueRun
      <3>2. /\ \A r \in Runs: job'[r] = "queued" => r = q
            /\ created'[q] = now
        BY <2>2, <3>1 DEF TypeInv, TableTypes, NoneQueued
      <3>3. UNCHANGED <<status, lastRun>>
        BY <1>7 DEF SchedQueue
      <3>4. sched'.pc = "advance"
        BY <1>1, <2>3 DEF SchedPcs
      <3>5. NobodyClaims' /\ ~Executes'
        BY <1>3, <2>2, <3>4 DEF NobodyClaims, SchedHolds
      <3>6. QueuedStamp'
        BY <2>2, <3>2, <3>3 DEF QueuedStamp
      <3>7. OneHolder'
        BY <3>2, <3>5 DEF OneHolder, NobodyClaims
      <3> QED
        BY <1>2, <2>2, <3>3, <3>5, <3>6, <3>7 DEF Token, HolderRuns, PassAlone
    <2>4. CASE sched' = [sched EXCEPT !.pc = "recover"] /\ UNCHANGED queue
      BY <1>4, <1>7, <2>1, <2>4 DEF SchedQueue
    <2> QED
      BY <1>7, <2>3, <2>4 DEF SchedQueue
  <1>8. CASE SchedAdvance
    <2>1. sched'.pc = "idle" \/ ~alive
      BY <1>8 DEF SchedAdvance, Calm, Fault, Waiting
    <2>2. sched'.pc \in {"idle", "recover"}
      <3>1. [sched EXCEPT !.pc = "recover"].pc = "recover" /\ Waiting.pc = "idle"
        BY <1>1 DEF SchedPcs, Waiting
      <3> QED
        BY <1>8, <3>1 DEF SchedAdvance
    <2>3. SchedHolds' => SchedHolds
      BY <1>2, <2>1, <2>2 DEF SchedHolds
    <2> QED
      BY <1>4, <1>8, <2>3 DEF SchedAdvance
  <1>9. CASE SchedRecover
    <2>1. CASE alive
      <3>1. SchedHolds
        BY <1>9, <2>1 DEF SchedRecover, SchedHolds
      <3>2. reap.pc = "idle" /\ ~Executes /\ NoneQueued /\ \A d \in Callers: ~Holding(d)
        BY <3>1 DEF Token, OneHolder, PassAlone, NobodyClaims
      <3>3. NobodyClaims' /\ NoneQueued'
        BY <1>3, <1>9, <3>2 DEF SchedRecover, NobodyClaims, NoneQueued, SchedHolds, Waiting
      <3> QED
        BY <1>2, <1>3, <3>2, <3>3, NobodyHolds
    <2>2. CASE ~alive
      BY <1>4, <1>9, <2>2 DEF SchedRecover, Written, SchedHolds, Waiting
    <2> QED
      BY <2>1, <2>2
  <1> QED
    BY <1>5, <1>6, <1>7, <1>8, <1>9 DEF SchedStep

LEMMA WorkTokens ==
    ASSUME TypeInv, Token, Calm, WorkStep \/ WorkerDeath \/ \E r \in Runs: StartRun(r)
    PROVE  Token'
  <1> USE DEF record, queue, history
  <1>1. work \in WorkRecs /\ job \in [Runs -> JobStates]
    BY DEF TypeInv, ActorTypes, TableTypes
  <1>2. UNCHANGED <<now, alive, created, req, sched, reap>>
    BY DEF WorkStep, CheckRun, CreateRow, MarkRunning, FailOrphanRow, CallRunner, SaveRow,
       FinishScraper, FailRow, FailScraper, FailLost, ReleaseClaim, Refund, WorkerDeath, StartRun
  <1>3. (\A d \in Callers: Holding(d)' = Holding(d)) /\ SchedHolds' = SchedHolds
    BY <1>2 DEF Holding, SchedHolds
  <1>4. ASSUME NEW r \in Runs, StartRun(r) PROVE Token'
    <2>1. /\ job[r] = "queued" /\ job' = [job EXCEPT ![r] = "executing"]
          /\ reap.pc = "idle" /\ UNCHANGED <<status, lastRun>>
      BY <1>4 DEF StartRun, Calm
    <2>2. NobodyClaims /\ (\A q \in Runs: job[q] = "queued" => q = r)
          /\ (alive => status = "running")
      BY <2>1 DEF Token, HolderRuns, OneHolder, NoneQueued
    <2>3. NobodyClaims' /\ NoneQueued'
      BY <1>1, <1>3, <2>1, <2>2 DEF NobodyClaims, NoneQueued
    <2> QED
      BY <1>2, <2>1, <2>2, <2>3
      DEF Token, HolderRuns, OneHolder, QueuedStamp, PassAlone, NobodyClaims, NoneQueued
  <1>5. CASE WorkStep \/ WorkerDeath
    <2>1. /\ work.pc # "idle"
          /\ \A q \in Runs: job'[q] = "queued" => job[q] = "queued"
      BY <1>1, <1>5 DEF WorkStep, CheckRun, CreateRow, MarkRunning, FailOrphanRow, CallRunner,
         SaveRow, FinishScraper, FailRow, FailScraper, FailLost, ReleaseClaim, Refund, WorkerDeath
    <2>2. CASE ~Executes
      <3>1. work.pc = "refund"
        BY <2>1, <2>2 DEF Executes
      <3>2. UNCHANGED <<status, lastRun>> /\ work'.pc = "idle"
        BY <1>5, <3>1 DEF WorkStep, CheckRun, CreateRow, MarkRunning, FailOrphanRow, CallRunner,
           SaveRow, FinishScraper, FailRow, FailScraper, FailLost, ReleaseClaim, Refund,
           WorkerDeath, NoWork
      <3>3. ~Executes'
        BY <3>2 DEF Executes
      <3> QED
        BY <1>2, <1>3, <2>1, <3>2, <3>3, LettingGo
    <2>3. CASE Executes
      <3>1. NobodyClaims /\ NoneQueued
        BY <2>3 DEF Token, OneHolder
      <3>2. NobodyClaims' /\ NoneQueued'
        BY <1>3, <2>1, <3>1 DEF NobodyClaims, NoneQueued
      <3>3. reap.pc \in {"idle", "active"}
        BY <1>1, <2>1 DEF Token, PassAlone, TypeInv, ActorTypes, ReapRecs, ReapPcs
      <3>4. alive => status = "running"
        BY <2>3 DEF Token, HolderRuns
      <3>5. status' \in {status, "running"} \/ ~Executes'
        BY <1>1, <1>5 DEF WorkStep, CheckRun, CreateRow, MarkRunning, FailOrphanRow, CallRunner,
           SaveRow, FinishScraper, FailRow, FailScraper, FailLost, ReleaseClaim, Refund,
           WorkerDeath, WorkRecs, NoWork, Executes
      <3> QED
        BY <1>2, <3>2, <3>3, <3>4, <3>5
        DEF Token, HolderRuns, OneHolder, QueuedStamp, PassAlone, NobodyClaims, NoneQueued
    <2> QED
      BY <2>2, <2>3
  <1> QED
    BY <1>4, <1>5

LEMMA ReapTokens ==
    ASSUME TypeInv, FreshClaim, Token, Calm, ~forced', ReapList \/ ReapStep
    PROVE  Token'
  <1> USE DEF record, queue, history
  <1>1. /\ job \in [Runs -> JobStates] /\ created \in [Runs -> 0..MaxTime]
        /\ reap \in ReapRecs /\ now \in Nat /\ Threshold \in Nat
        /\ lastRun \in Int
    BY Constants DEF TypeInv, ActorTypes, TableTypes, RecordTypes, Never
  <1>2. UNCHANGED <<now, lastRun, alive, created, req, sched, work>>
    BY DEF ReapList, ReapStep, ReapCheckActive, ReapCancel, FailStuckScraperRuns,
       ResetStuckScraper
  <1>3. /\ \A d \in Callers: Holding(d)' = Holding(d)
        /\ SchedHolds' = SchedHolds /\ Executes' = Executes
    BY <1>2 DEF Holding, SchedHolds, Executes
  <1>4. NobodyClaims' = NobodyClaims
    BY <1>3 DEF NobodyClaims
  <1>5. ASSUME UNCHANGED <<status, job>>, reap'.pc = "idle" PROVE Token'
    BY <1>2, <1>3, <1>5, LettingGo
  <1>6. ASSUME reap.pc # "idle", UNCHANGED status, reap' = [reap EXCEPT !.pc = reap'.pc],
               \A r \in Runs: job'[r] = "queued" => job[r] = "queued",
               reap'.pc # "active" => work.pc = "idle",
               reap'.pc \in {"failRuns", "reset"} => NoneQueued'
        PROVE  Token'
    <2>1. reap'.at = reap.at
      BY <1>1, <1>6 DEF ReapRecs
    <2>2. NoneQueued => NoneQueued'
      BY <1>6 DEF NoneQueued
    <2>3. HolderRuns' /\ QueuedStamp'
      BY <1>2, <1>3, <1>4, <1>6, <2>2 DEF Token, HolderRuns, QueuedStamp
    <2>4. OneHolder'
      BY <1>3, <1>4, <1>6, <2>2 DEF Token, OneHolder
    <2>5. PassAlone'
      BY <1>2, <1>4, <1>6, <2>1 DEF Token, PassAlone
    <2> QED
      BY <2>3, <2>4, <2>5 DEF Token
  <1>7. CASE ReapList
    <2>1. CASE now - lastRun >= Threshold /\ reap' = [pc |-> "active", at |-> now, seen |-> lastRun]
      <3>1. lastRun # now
        BY <1>1, <2>1 DEF Calm
      <3>2. NobodyClaims
        BY <3>1 DEF FreshClaim
      <3>3. UNCHANGED <<status, job>> /\ reap'.pc = "active" /\ reap'.at = now
        BY <1>7, <2>1 DEF ReapList
      <3>4. \A r \in Runs: job[r] = "queued" => created[r] <= now - Threshold
        BY <1>1, <2>1 DEF Token, QueuedStamp
      <3>5. PassAlone'
        BY <1>2, <1>4, <3>2, <3>3, <3>4 DEF PassAlone
      <3>6. NoneQueued' = NoneQueued
        BY <3>3 DEF NoneQueued
      <3>7. HolderRuns' /\ OneHolder' /\ QueuedStamp'
        BY <1>2, <1>3, <1>4, <3>3, <3>6 DEF Token, HolderRuns, OneHolder, QueuedStamp
      <3> QED
        BY <3>5, <3>7 DEF Token
    <2>2. CASE reap' = [pc |-> "idle", at |-> now, seen |-> 0]
      BY <1>5, <1>7, <2>2 DEF ReapList
    <2> QED
      BY <1>7, <2>1, <2>2 DEF ReapList
  <1>8. PassDone.pc = "idle"
    BY <1>1 DEF PassDone, ReapRecs
  <1>9. \A p \in ReapPcs: [reap EXCEPT !.pc = p].pc = p
    BY <1>1 DEF ReapRecs
  <1>10. CASE ReapCheckActive
    <2>1. CASE reap' = PassDone
      BY <1>5, <1>8, <1>10, <2>1 DEF ReapCheckActive
    <2>2. CASE reap' = [reap EXCEPT !.pc = "cancel"] /\ \A r \in Runs: job[r] \notin Processing
      <3>1. work.pc = "idle"
        BY <2>2 DEF TypeInv, WorksOnExecuting, Processing
      <3>2. reap'.pc = "cancel" /\ reap.pc # "idle" /\ UNCHANGED <<status, job>>
        BY <1>9, <1>10, <2>2 DEF ReapCheckActive, ReapPcs
      <3> QED
        BY <1>6, <2>2, <3>1, <3>2
    <2> QED
      BY <1>10, <2>1, <2>2 DEF ReapCheckActive
  <1>11. CASE ReapCancel
    <2>1. CASE reap' = [reap EXCEPT !.pc = "failRuns"]
               /\ job' = [r \in Runs |-> IF Orphaned(r) THEN "done" ELSE job[r]]
      <3>1. reap'.pc = "failRuns" /\ reap.pc = "cancel" /\ UNCHANGED status /\ work.pc = "idle"
        BY <1>9, <1>11, <2>1 DEF ReapCancel, ReapPcs, Token, PassAlone
      <3>2. \A r \in Runs: job[r] = "queued" => Orphaned(r)
        <4>1. \A r \in Runs: job[r] = "queued" => created[r] <= reap.at - Threshold
          BY <3>1 DEF Token, PassAlone
        <4>2. reap.at \in Int /\ \A r \in Runs: created[r] \in Int
          BY <1>1 DEF ReapRecs, Never
        <4> QED
          BY <1>1, <4>1, <4>2 DEF Orphaned, Calm
      <3>3. /\ NoneQueued'
            /\ \A r \in Runs: job'[r] = "queued" => job[r] = "queued"
        BY <2>1, <3>2 DEF NoneQueued
      <3> QED
        BY <1>6, <2>1, <3>1, <3>3
    <2>2. CASE reap' = PassDone /\ UNCHANGED job
      BY <1>5, <1>8, <1>11, <2>2 DEF ReapCancel
    <2> QED
      BY <1>11, <2>1, <2>2 DEF ReapCancel, CleanupFails
  <1>12. CASE FailStuckScraperRuns
    <2>1. CASE reap' = [reap EXCEPT !.pc = "reset"]
      <3>1. /\ reap'.pc = "reset" /\ reap.pc = "failRuns" /\ UNCHANGED <<status, job>>
            /\ work.pc = "idle" /\ NoneQueued
        BY <1>9, <1>12, <2>1 DEF FailStuckScraperRuns, ReapPcs, Token, PassAlone
      <3>2. NoneQueued'
        BY <3>1 DEF NoneQueued
      <3> QED
        BY <1>6, <2>1, <3>1, <3>2
    <2>2. CASE reap' = PassDone
      BY <1>5, <1>8, <1>12, <2>2 DEF FailStuckScraperRuns
    <2> QED
      BY <1>12, <2>1, <2>2 DEF FailStuckScraperRuns, CleanupFails
  <1>13. CASE ResetStuckScraper
    <2>1. NobodyClaims /\ work.pc = "idle" /\ NoneQueued
      BY <1>13 DEF ResetStuckScraper, Token, PassAlone
    <2>2. reap'.pc = "idle" /\ UNCHANGED job
      BY <1>8, <1>13 DEF ResetStuckScraper
    <2>3. NobodyClaims' /\ ~Executes' /\ NoneQueued'
      BY <1>3, <1>4, <2>1, <2>2 DEF NoneQueued, Executes
    <2> QED
      BY <1>2, <2>1, <2>2, <2>3, NobodyHolds
  <1> QED
    BY <1>7, <1>10, <1>11, <1>12, <1>13 DEF ReapStep

LEMMA OtherTokens ==
    ASSUME TypeInv, Token, Edit \/ Delete \/ EraseAccount \/ Tick \/ UNCHANGED vars
                           \/ \E r \in Runs: ImportEnds(r)
    PROVE  Token'
  <1> USE DEF record, queue, history
  <1>1. /\ UNCHANGED <<lastRun, created, req, sched, work, reap>>
        /\ alive' => alive /\ status' = status
    BY DEF Edit, Delete, EraseAccount, Tick, ImportEnds, vars
  <1>2. \A r \in Runs: job'[r] = "queued" => job[r] = "queued"
    BY DEF Edit, Delete, EraseAccount, Tick, ImportEnds, vars, TypeInv, TableTypes
  <1>3. /\ \A d \in Callers: Holding(d)' => Holding(d)
        /\ (SchedHolds' => SchedHolds) /\ (Executes' => Executes)
    BY <1>1 DEF Holding, SchedHolds, Executes
  <1> QED
    BY <1>1, <1>2, <1>3, LettingGo

LEMMA ClaimStep == TypeInv /\ Calm /\ ClaimInv /\ [Next]_vars => ClaimInv'
  <1> SUFFICES ASSUME TypeInv, Calm, ClaimInv, [Next]_vars PROVE ClaimInv'
    OBVIOUS
  <1>1. FreshClaim'
    BY FreshStep DEF ClaimInv
  <1>2. ASSUME ~forced' PROVE Token'
    <2>1. FreshClaim /\ Token
      BY <1>2, OnceForced DEF ClaimInv
    <2> QED
      BY <1>2, <2>1, CallTokens, SchedTokens, WorkTokens, ReapTokens, OtherTokens DEF Next
  <1> QED
    BY <1>1, <1>2 DEF ClaimInv

LEMMA ClaimInit == Init => ClaimInv
  <1> SUFFICES ASSUME Init PROVE ClaimInv
    OBVIOUS
  <1>1. NobodyClaims /\ ~Executes /\ NoneQueued /\ reap.pc = "idle"
    BY DEF Init, NobodyClaims, Holding, SchedHolds, Executes, NoneQueued, Waiting, NoWork, NoPass
  <1> QED
    BY <1>1 DEF ClaimInv, FreshClaim, Token, HolderRuns, OneHolder, QueuedStamp, PassAlone,
       NobodyClaims, NoneQueued

\* For every number of callers and runs and whatever else fails: a run that waits
\* or executes holds the scraper, and there is only one.
THEOREM PendingKept ==
    ASSUME Calm
    PROVE  Spec => []PendingRunHeld
  <1>1. Spec => [](TypeInv /\ ClaimInv)
    BY TypeInit, TypeStep, ClaimInit, ClaimStep, PTL DEF Spec
  <1>2. TypeInv /\ ClaimInv => PendingRunHeld
    <2> SUFFICES ASSUME TypeInv, ClaimInv, ~forced
                 PROVE  /\ \A r \in Runs: Pending(r) /\ alive => status = "running"
                        /\ \A r, s \in Runs: Pending(r) /\ Pending(s) => r = s
      BY DEF PendingRunHeld
    <2>1. \A r \in Runs: Pending(r) => job[r] = "queued" \/ (Executes /\ work.run = r)
      BY DEF Pending, TypeInv, WorksOnExecuting, Executes
    <2> QED
      BY <2>1 DEF ClaimInv, Token, HolderRuns, OneHolder, NoneQueued
  <1> QED
    BY <1>1, <1>2, PTL

-----------------------------------------------------------------------------
\* A delete finds the scraper claimed, and its claim young, while the runner
\* executes its run.
CalledIsFresh ==
    work.pc \in {"call", "saveRow", "finish", "failedRow"} => now - lastRun < Threshold

LEMMA CalledStep == TypeInv /\ Calm /\ CalledIsFresh /\ [Next]_vars => CalledIsFresh'
  <1> SUFFICES ASSUME TypeInv, Calm, CalledIsFresh, [Next]_vars PROVE CalledIsFresh'
    OBVIOUS
  <1> USE DEF record, queue, history
  <1>1. work \in WorkRecs /\ now \in Nat /\ lastRun \in Int /\ Threshold \in Nat
    BY Constants DEF TypeInv, ActorTypes, RecordTypes, Never
  <1>2. CASE Tick
    BY <1>1, <1>2 DEF Tick, CalledIsFresh
  <1>3. ASSUME now' = now, lastRun' \in {lastRun, now},
               work'.pc = work.pc \/ lastRun' = now
               \/ work'.pc \notin {"call", "saveRow", "finish", "failedRow"}
               \/ work.pc \in {"call", "saveRow", "finish", "failedRow"}
        PROVE  CalledIsFresh'
    <2>1. CASE lastRun' = now
      BY <1>1, <1>3, <2>1 DEF CalledIsFresh, Calm
    <2>2. CASE lastRun' = lastRun /\ lastRun # now
      BY <1>3, <2>2 DEF CalledIsFresh
    <2> QED
      BY <1>3, <2>1, <2>2
  <1>4. ASSUME NEW c \in Callers, Read(c) \/ CallStep(c) \/ WebCrash(c)
        PROVE  CalledIsFresh'
    BY <1>3, <1>4 DEF Read, CallStep, Trigger, ClaimScraperRunning, TriggerQueue, Rollback, WebCrash
  <1>5. CASE SchedRead \/ SchedStep
    BY <1>3, <1>5 DEF SchedRead, SchedStep, SchedClaim, ClaimScraperRunning, SchedQueue,
       SchedAdvance, SchedRecover
  <1>6. CASE Edit \/ Delete \/ EraseAccount \/ ReapList \/ ReapStep \/ UNCHANGED vars
             \/ \E r \in Runs: ImportEnds(r)
    BY <1>3, <1>6 DEF Edit, Delete, EraseAccount, ReapList, ReapStep, ReapCheckActive, ReapCancel,
       FailStuckScraperRuns, ResetStuckScraper, vars, ImportEnds
  <1>7. CASE WorkStep \/ WorkerDeath \/ \E r \in Runs: StartRun(r)
    <2>1. \A p \in WorkPcs: [work EXCEPT !.pc = p].pc = p
      BY <1>1 DEF WorkRecs
    <2>2. now' = now /\ lastRun' \in {lastRun, now}
      BY <1>7 DEF WorkStep, CheckRun, CreateRow, MarkRunning, FailOrphanRow, CallRunner,
         SaveRow, FinishScraper, FailRow, FailScraper, FailLost, ReleaseClaim, Refund,
         WorkerDeath, StartRun
    <2>3. CASE WorkerDeath \/ \E r \in Runs: StartRun(r)
      <3>1. work'.pc \in {"idle", "check"}
        <4>1. NoWork.pc = "idle" /\ \A r \in Runs: [NoWork EXCEPT !.pc = "check", !.run = r].pc = "check"
          BY DEF NoWork
        <4> QED
          BY <2>3, <4>1 DEF WorkerDeath, StartRun
      <3> QED
        BY <1>3, <2>2, <3>1
    <2>4. CASE CheckRun \/ CreateRow
      <3>1. work'.pc \in {"row", "mark", "release"}
        BY <1>1, <2>1, <2>4 DEF CheckRun, CreateRow, WorkPcs, WorkRecs
      <3> QED
        BY <1>3, <2>2, <3>1
    <2>5. CASE MarkRunning
      <3>1. lastRun' = now \/ work'.pc = "failRow"
        BY <2>1, <2>5 DEF MarkRunning, WorkPcs
      <3> QED
        BY <1>3, <2>2, <3>1
    <2>6. CASE FailOrphanRow \/ ReleaseClaim \/ Refund \/ FailScraper
      <3>1. work' \in {[work EXCEPT !.pc = "release"], [work EXCEPT !.pc = "refund"], NoWork}
        BY <2>6 DEF FailOrphanRow, ReleaseClaim, Refund, FailScraper
      <3>2. /\ [work EXCEPT !.pc = "release"].pc = "release"
            /\ [work EXCEPT !.pc = "refund"].pc = "refund" /\ NoWork.pc = "idle"
        BY <2>1 DEF WorkPcs, NoWork
      <3>3. work'.pc \in {"release", "refund", "idle"}
        BY <3>1, <3>2
      <3> QED
        BY <1>3, <2>2, <3>3
    <2>7. CASE CallRunner \/ SaveRow \/ FinishScraper \/ FailRow \/ FailLost
      BY <1>3, <2>2, <2>7 DEF CallRunner, SaveRow, FinishScraper, FailRow, FailLost
    <2> QED
      BY <1>7, <2>3, <2>4, <2>5, <2>6, <2>7 DEF WorkStep
  <1> QED
    BY <1>2, <1>4, <1>5, <1>6, <1>7 DEF Next

\* Whoever triggers, fails and deletes when: the rows of a run the runner
\* executes go away with its claim only, by the erasure of the owner's account.
THEOREM RunsSpared ==
    ASSUME Calm
    PROVE  Spec => DeleteSparesRuns
  <1> DEFINE Called == work.pc \in {"call", "saveRow", "finish", "failedRow"}
  <1>1. Init => CalledIsFresh
    BY DEF Init, CalledIsFresh, NoWork
  <1>2. Spec => [](TypeInv /\ ClaimInv /\ CalledIsFresh)
    BY <1>1, TypeInit, TypeStep, ClaimInit, ClaimStep, CalledStep, PTL DEF Spec
  <1>3. TypeInv /\ ClaimInv /\ CalledIsFresh /\ [Next]_vars =>
          [alive /\ ~alive' /\ ~forced /\ Called => status = "running" /\ status' = "failed"]_vars
    <2> SUFFICES ASSUME TypeInv, ClaimInv, CalledIsFresh, [Next]_vars, alive, ~alive', ~forced,
                        Called
                 PROVE  status = "running" /\ status' = "failed"
      OBVIOUS
    <2>1. Delete \/ EraseAccount
      BY DEF Next, CallStep, SchedStep, WorkStep, ReapStep, vars, record, queue, history, Read,
         Trigger, TriggerQueue, Rollback, WebCrash, Edit, SchedRead, SchedClaim, SchedQueue,
         SchedAdvance, SchedRecover, StartRun, ImportEnds, CheckRun, CreateRow, MarkRunning,
         FailOrphanRow, CallRunner, SaveRow, FinishScraper, FailRow, FailScraper, FailLost,
         ReleaseClaim, Refund, WorkerDeath, ReapList, ReapCheckActive, ReapCancel,
         FailStuckScraperRuns, ResetStuckScraper, Tick
    <2>2. status = "running"
      BY DEF ClaimInv, Token, HolderRuns, Executes
    <2>3. now - lastRun < Threshold /\ now - lastRun \in Int /\ Threshold \in Int
      BY Constants DEF CalledIsFresh, TypeInv, RecordTypes, Never
    <2>4. ~Delete
      BY <2>2, <2>3 DEF Delete
    <2> QED
      BY <2>1, <2>2, <2>4 DEF EraseAccount
  <1> QED
    BY <1>2, <1>3, PTL DEF Spec, DeleteSparesRuns

-----------------------------------------------------------------------------
\* An open row belongs to the run in progress or to an abandoned one, and keeps
\* the claim until the reaper has closed it.
OpenRow ==
    \A r \in Runs: row[r] = "running" =>
        /\ status = "running" /\ NobodyClaims /\ NoneQueued
        /\ reap.pc # "reset"
        /\ work.pc # "idle" => /\ work.run = r
                               /\ work.pc \in {"mark", "failRow", "call", "saveRow", "failedRow",
                                               "refund"}
NoneOpen == \A r \in Runs: row[r] # "running"
RowInv == (~alive => NoneOpen) /\ (~forced => OpenRow)

\* What else a row's end needs: the write that fails it does not throw.
RowsAreFailed == "rowFail" \notin Faults

\* No step but the worker's opens a row, and none but the worker's and the
\* reaper's changes what an open row is tied to.
LEMMA RowsFrame ==
    ASSUME OpenRow, UNCHANGED work, \A r \in Runs: row'[r] = "running" => row[r] = "running",
           NoneOpen' \/ (/\ status' = status /\ (NobodyClaims => NobodyClaims')
                         /\ (NoneQueued => NoneQueued') /\ (reap'.pc = "reset" => reap.pc = "reset"))
    PROVE  OpenRow'
  BY DEF OpenRow, NoneOpen

LEMMA CallRows ==
    ASSUME TypeInv, FreshClaim, Token, OpenRow, NEW c \in Callers,
           Read(c) \/ CallStep(c) \/ WebCrash(c)
    PROVE  OpenRow'
  <1> USE DEF record, queue, history
  <1>1. req \in [Callers -> {"idle", "read", "claimed", "rollback", "done"}]
    BY DEF TypeInv, ActorTypes
  <1>2. UNCHANGED <<row, work, reap, sched, alive>>
    BY DEF Read, CallStep, Trigger, TriggerQueue, Rollback, WebCrash
  <1>3. CASE Holding(c) \/ status # "running"
    <2>1. NoneOpen
      BY <1>3 DEF OpenRow, NoneOpen, NobodyClaims
    <2> QED
      BY <1>2, <2>1 DEF OpenRow, NoneOpen
  <1>4. CASE ~Holding(c) /\ status = "running"
    <2>1. UNCHANGED <<status, job>> /\ \A d \in Callers: Holding(d)' => Holding(d)
      BY <1>1, <1>4 DEF Read, CallStep, Trigger, ClaimScraperRunning, TriggerQueue, Rollback,
         WebCrash, Holding
    <2>2. (NobodyClaims => NobodyClaims') /\ (NoneQueued => NoneQueued')
      BY <1>2, <2>1 DEF NobodyClaims, SchedHolds, NoneQueued
    <2> QED
      BY <1>2, <2>1, <2>2, RowsFrame
  <1> QED
    BY <1>3, <1>4

LEMMA SchedRows ==
    ASSUME TypeInv, Calm, Token, OpenRow, SchedRead \/ SchedStep
    PROVE  OpenRow'
  <1> USE DEF record, queue, history
  <1>1. sched \in SchedRecs /\ \A p \in SchedPcs: [sched EXCEPT !.pc = p].pc = p
    BY DEF TypeInv, ActorTypes, SchedRecs
  <1>2. UNCHANGED <<row, work, reap, req, alive>>
    BY DEF SchedRead, SchedStep, SchedClaim, SchedQueue, SchedAdvance, SchedRecover
  <1>3. CASE SchedHolds \/ status # "running"
    <2>1. NoneOpen
      BY <1>3 DEF OpenRow, NoneOpen, NobodyClaims
    <2> QED
      BY <1>2, <2>1 DEF OpenRow, NoneOpen
  <1>4. CASE ~SchedHolds /\ status = "running"
    <2>1. UNCHANGED <<status, job>>
      BY <1>4 DEF SchedRead, SchedStep, SchedClaim, ClaimScraperRunning, SchedQueue, SchedAdvance,
         SchedRecover, Written, SchedHolds
    <2>2. ~SchedHolds'
      <3>1. CASE SchedRead \/ SchedClaim
        BY <1>4, <3>1 DEF SchedRead, SchedClaim, ClaimScraperRunning, Waiting, SchedHolds
      <3>2. CASE SchedAdvance
        <4>1. [sched EXCEPT !.pc = "recover"].pc = "recover" /\ Waiting.pc = "idle"
          BY <1>1 DEF SchedPcs, Waiting
        <4>2. sched' = Waiting \/ (sched' = [sched EXCEPT !.pc = "recover"] /\ ~alive)
          BY <3>2 DEF SchedAdvance, Calm, Fault
        <4> QED
          BY <1>2, <4>1, <4>2 DEF SchedHolds
      <3>3. CASE SchedRecover
        BY <3>3 DEF SchedRecover, Waiting, SchedHolds
      <3>4. CASE SchedQueue
        BY <1>4, <3>4 DEF SchedQueue, SchedHolds
      <3> QED
        BY <3>1, <3>2, <3>3, <3>4 DEF SchedStep
    <2>3. (NobodyClaims => NobodyClaims') /\ (NoneQueued => NoneQueued')
      BY <1>2, <2>1, <2>2 DEF NobodyClaims, Holding, NoneQueued
    <2> QED
      BY <1>2, <2>1, <2>3, RowsFrame
  <1> QED
    BY <1>3, <1>4

LEMMA WorkRows ==
    ASSUME TypeInv, Calm, RowsAreFailed, Token, OpenRow, ~alive => NoneOpen,
           WorkStep \/ WorkerDeath \/ \E r \in Runs: StartRun(r)
    PROVE  OpenRow'
  <1> USE DEF record, queue, history
  <1>1. /\ work \in WorkRecs /\ job \in [Runs -> JobStates] /\ row \in [Runs -> RowStates]
        /\ work.result # "running"
    BY DEF TypeInv, ActorTypes, TableTypes, WorkRecs, Results
  <1>2. UNCHANGED <<alive, req, sched, reap>>
    BY DEF WorkStep, CheckRun, CreateRow, MarkRunning, FailOrphanRow, CallRunner, SaveRow,
       FinishScraper, FailRow, FailScraper, FailLost, ReleaseClaim, Refund, WorkerDeath, StartRun
  <1>3. NobodyClaims' = NobodyClaims
    BY <1>2 DEF NobodyClaims, Holding, SchedHolds
  <1>4. \A p \in WorkPcs: [work EXCEPT !.pc = p].pc = p /\ [work EXCEPT !.pc = p].run = work.run
    BY <1>1 DEF WorkRecs
  <1>5. ASSUME NoneOpen' PROVE OpenRow'
    BY <1>5 DEF OpenRow, NoneOpen
  <1>6. ASSUME NEW r \in Runs, StartRun(r) PROVE NoneOpen'
    BY <1>6 DEF StartRun, OpenRow, NoneOpen, NoneQueued
  <1>7. CASE WorkStep \/ WorkerDeath
    <2>1. work.pc # "idle" /\ work.run \in Runs /\ reap.pc \in {"idle", "active"}
      <3>1. work.pc # "idle"
        BY <1>7 DEF WorkStep, CheckRun, CreateRow, MarkRunning, FailOrphanRow, CallRunner,
           SaveRow, FinishScraper, FailRow, FailScraper, FailLost, ReleaseClaim, Refund, WorkerDeath
      <3> QED
        BY <3>1 DEF TypeInv, WorksOnExecuting, Token, PassAlone, ActorTypes, ReapRecs, ReapPcs
    <2>2. NoneQueued => NoneQueued'
      BY <1>1, <1>7 DEF NoneQueued, WorkStep, CheckRun, CreateRow, MarkRunning, FailOrphanRow,
         CallRunner, SaveRow, FinishScraper, FailRow, FailScraper, FailLost, ReleaseClaim, Refund,
         WorkerDeath
    <2>3. ASSUME UNCHANGED row, status' \in {status, "running"},
                 work'.pc = "idle"
                 \/ (/\ work'.run = work.run
                     /\ work'.pc \in {"mark", "failRow", "call", "saveRow", "failedRow", "refund"})
          PROVE  OpenRow'
      BY <1>2, <1>3, <2>1, <2>2, <2>3 DEF OpenRow, NoneOpen
    <2>4. ASSUME work.pc \in {"check", "row", "finish", "failedScraper", "release"}
          PROVE  NoneOpen
      BY <2>1, <2>4 DEF OpenRow, NoneOpen
    <2>5. ASSUME UNCHANGED row, NoneOpen PROVE OpenRow'
      BY <1>5, <2>5 DEF NoneOpen
    <2>6. ASSUME NEW x \in RowStates, row' = [row EXCEPT ![work.run] = x], x # "running"
          PROVE  OpenRow'
      <3>1. NoneOpen'
        BY <1>1, <2>1, <2>6 DEF OpenRow, NoneOpen
      <3> QED
        BY <1>5, <3>1
    <2>7. CASE CheckRun \/ FinishScraper \/ FailScraper \/ ReleaseClaim
      BY <2>4, <2>5, <2>7 DEF CheckRun, FinishScraper, FailScraper, ReleaseClaim
    <2>8. CASE CreateRow
      <3>1. CASE row' = [row EXCEPT ![work.run] = "running"] /\ alive
                 /\ work' = [work EXCEPT !.pc = "mark"]
        <4>1. work.pc = "row" /\ UNCHANGED <<status, job>>
          BY <2>8 DEF CreateRow
        <4>2. NoneOpen /\ NobodyClaims /\ NoneQueued /\ status = "running"
          BY <2>4, <3>1, <4>1 DEF Token, HolderRuns, OneHolder, Executes
        <4>3. \A r \in Runs: row'[r] = "running" => r = work.run
          BY <1>1, <3>1, <4>2 DEF NoneOpen
        <4>4. work'.pc = "mark" /\ work'.run = work.run
          BY <1>4, <3>1 DEF WorkPcs
        <4> QED
          BY <1>2, <1>3, <2>1, <2>2, <3>1, <4>1, <4>2, <4>3, <4>4 DEF OpenRow
      <3> QED
        BY <2>4, <2>5, <2>8, <3>1 DEF CreateRow, Written
    <2>9. CASE MarkRunning
      <3>1. work'.run = work.run /\ work'.pc \in {"call", "failRow"}
        BY <1>1, <2>9 DEF MarkRunning, WorkRecs
      <3> QED
        BY <2>3, <2>9, <3>1 DEF MarkRunning
    <2>10. CASE CallRunner
      <3>1. work'.run = work.run /\ work'.pc \in {"saveRow", "failedRow"}
        BY <1>1, <2>10 DEF CallRunner, WorkRecs
      <3> QED
        BY <2>3, <2>10, <3>1 DEF CallRunner
    <2>11. CASE FailOrphanRow \/ FailRow
      <3>1. CASE row' = [row EXCEPT ![work.run] = "failed"]
        BY <2>6, <3>1 DEF RowStates, Results
      <3>2. CASE ~alive /\ UNCHANGED row
        BY <2>5, <3>2
      <3> QED
        BY <2>11, <3>1, <3>2 DEF FailOrphanRow, FailRow, Throws, Fault, RowsAreFailed
    <2>12. CASE SaveRow
      <3>1. CASE row' = [row EXCEPT ![work.run] = work.result]
        <4>1. work.result \in RowStates
          BY <1>1 DEF WorkRecs, RowStates
        <4> QED
          BY <1>1, <2>6, <3>1, <4>1
      <3>2. CASE UNCHANGED row /\ work' = [work EXCEPT !.pc = "failedRow"]
        <4>1. work'.run = work.run /\ work'.pc = "failedRow"
          BY <1>4, <3>2 DEF WorkPcs
        <4> QED
          BY <2>3, <2>12, <3>2, <4>1 DEF SaveRow
      <3> QED
        BY <2>12, <3>1, <3>2 DEF SaveRow
    <2>13. CASE FailLost
      <3>1. work'.run = work.run /\ work'.pc = "refund"
        BY <1>4, <2>13 DEF FailLost, WorkPcs
      <3> QED
        BY <2>3, <2>13, <3>1 DEF FailLost
    <2>14. CASE Refund \/ WorkerDeath
      BY <2>3, <2>14 DEF Refund, WorkerDeath, NoWork
    <2> QED
      BY <1>7, <2>7, <2>8, <2>9, <2>10, <2>11, <2>12, <2>13, <2>14 DEF WorkStep
  <1> QED
    BY <1>5, <1>6, <1>7

LEMMA ReapRows ==
    ASSUME TypeInv, OpenRow, ~forced', ReapList \/ ReapStep
    PROVE  OpenRow'
  <1> USE DEF record, queue, history
  <1>1. /\ reap \in ReapRecs /\ job \in [Runs -> JobStates] /\ row \in [Runs -> RowStates]
    BY DEF TypeInv, ActorTypes, TableTypes
  <1>2. UNCHANGED <<alive, req, sched, work>>
    BY DEF ReapList, ReapStep, ReapCheckActive, ReapCancel, FailStuckScraperRuns,
       ResetStuckScraper
  <1>3. NobodyClaims' = NobodyClaims
    BY <1>2 DEF NobodyClaims, Holding, SchedHolds
  <1>4. NoneQueued => NoneQueued'
    BY <1>1 DEF NoneQueued, ReapList, ReapStep, ReapCheckActive, ReapCancel, FailStuckScraperRuns,
       ResetStuckScraper
  <1>5. /\ PassDone.pc = "idle"
        /\ \A p \in ReapPcs: [reap EXCEPT !.pc = p].pc = p
    BY <1>1 DEF PassDone, ReapRecs
  <1>6. CASE ReapList \/ ReapCheckActive \/ ReapCancel
    <2>1. UNCHANGED <<row, status>>
      BY <1>6 DEF ReapList, ReapCheckActive, ReapCancel
    <2>2. reap'.pc # "reset"
      <3>1. /\ [reap EXCEPT !.pc = "cancel"].pc = "cancel"
            /\ [reap EXCEPT !.pc = "failRuns"].pc = "failRuns"
        BY <1>5 DEF ReapPcs
      <3>2. CASE ReapList
        BY <3>2 DEF ReapList
      <3>3. CASE ReapCheckActive
        BY <1>5, <3>1, <3>3 DEF ReapCheckActive
      <3>4. CASE ReapCancel
        BY <1>5, <3>1, <3>4 DEF ReapCancel, CleanupFails
      <3> QED
        BY <1>6, <3>2, <3>3, <3>4
    <2> QED
      BY <1>2, <1>3, <1>4, <2>1, <2>2, RowsFrame
  <1>7. CASE FailStuckScraperRuns
    <2>1. CASE row' = [r \in Runs |-> IF row[r] = "running" THEN "failed" ELSE row[r]]
      BY <1>1, <2>1 DEF OpenRow
    <2>2. CASE reap' = PassDone /\ UNCHANGED row
      BY <1>2, <1>3, <1>4, <1>5, <1>7, <2>2, RowsFrame DEF FailStuckScraperRuns
    <2> QED
      BY <1>7, <2>1, <2>2 DEF FailStuckScraperRuns, CleanupFails
  <1>8. CASE ResetStuckScraper
    BY <1>8 DEF ResetStuckScraper, OpenRow
  <1> QED
    BY <1>6, <1>7, <1>8 DEF ReapStep

\* The rows of a scraper that is gone are gone.
LEMMA GoneRows ==
    ASSUME TypeInv, ~alive => NoneOpen, [Next]_vars
    PROVE  ~alive' => NoneOpen'
  <1> USE DEF record, queue, history
  <1>1. CASE Delete \/ EraseAccount
    BY <1>1 DEF Delete, EraseAccount, NoneOpen
  <1>2. CASE CreateRow
    BY <1>2 DEF CreateRow, Written, NoneOpen
  <1>3. CASE SaveRow \/ FailRow \/ FailOrphanRow \/ FailStuckScraperRuns
    <2>1. row \in [Runs -> RowStates] /\ work.result # "running"
      BY DEF TypeInv, TableTypes, ActorTypes, WorkRecs, Results
    <2> QED
      BY <1>3, <2>1 DEF SaveRow, FailRow, FailOrphanRow, FailStuckScraperRuns, NoneOpen
  <1>4. CASE ~(\/ Delete \/ EraseAccount \/ CreateRow \/ SaveRow \/ FailRow \/ FailOrphanRow
              \/ FailStuckScraperRuns)
    <2>1. UNCHANGED <<alive, row>>
      BY <1>4 DEF Next, CallStep, SchedStep, WorkStep, ReapStep, vars, Read, Trigger, TriggerQueue,
         Rollback, WebCrash, Edit, SchedRead, SchedClaim, SchedQueue, SchedAdvance, SchedRecover,
         StartRun, ImportEnds, CheckRun, MarkRunning, CallRunner, FinishScraper, FailScraper,
         FailLost, ReleaseClaim, Refund, WorkerDeath, ReapList, ReapCheckActive, ReapCancel,
         ResetStuckScraper, Tick
    <2> QED
      BY <2>1 DEF NoneOpen
  <1> QED
    BY <1>1, <1>2, <1>3, <1>4

LEMMA RowStep ==
    TypeInv /\ Calm /\ RowsAreFailed /\ ClaimInv /\ RowInv /\ [Next]_vars => RowInv'
  <1> SUFFICES ASSUME TypeInv, Calm, RowsAreFailed, ClaimInv, RowInv, [Next]_vars
               PROVE  RowInv'
    OBVIOUS
  <1> USE DEF record, queue, history
  <1>1. ~alive' => NoneOpen'
    BY GoneRows DEF RowInv
  <1>2. ASSUME ~forced' PROVE OpenRow'
    <2>1. FreshClaim /\ Token /\ OpenRow /\ (~alive => NoneOpen)
      BY <1>2, OnceForced DEF ClaimInv, RowInv
    <2>2. CASE Edit \/ Delete \/ EraseAccount \/ Tick \/ UNCHANGED vars
               \/ \E r \in Runs: ImportEnds(r)
      <3>1. UNCHANGED <<work, req, sched, reap>> /\ (status' = status \/ NoneOpen')
        BY <2>2 DEF Edit, Delete, EraseAccount, Tick, ImportEnds, vars, NoneOpen
      <3>2. \A r \in Runs: row'[r] = "running" => row[r] = "running"
        BY <2>2 DEF Edit, Delete, EraseAccount, Tick, ImportEnds, vars
      <3>3. NobodyClaims => NobodyClaims'
        <4>1. alive' => alive
          BY <2>2 DEF Edit, Delete, EraseAccount, Tick, ImportEnds, vars
        <4> QED
          BY <3>1, <4>1 DEF NobodyClaims, Holding, SchedHolds
      <3>4. NoneQueued => NoneQueued'
        BY <2>2 DEF Edit, Delete, EraseAccount, Tick, ImportEnds, vars, NoneQueued, TypeInv, TableTypes
      <3> QED
        BY <2>1, <3>1, <3>2, <3>3, <3>4, RowsFrame
    <2> QED
      BY <1>2, <2>1, <2>2, CallRows, SchedRows, WorkRows, ReapRows DEF Next
  <1> QED
    BY <1>1, <1>2 DEF RowInv

\* No row says "running" behind the reaper's back: one that does belongs to the
\* run in progress or to a scraper that still says so itself.
THEOREM RowsReachable ==
    ASSUME Calm, RowsAreFailed
    PROVE  Spec => []NoStrandedRow
  <1>1. Init => RowInv
    BY DEF Init, RowInv, OpenRow, NoneOpen
  <1>2. Spec => [](TypeInv /\ ClaimInv /\ RowInv)
    BY <1>1, TypeInit, TypeStep, ClaimInit, ClaimStep, RowStep, PTL DEF Spec
  <1>3. RowInv => NoStrandedRow
    BY DEF RowInv, OpenRow, NoStrandedRow
  <1> QED
    BY <1>2, <1>3, PTL
=============================================================================
