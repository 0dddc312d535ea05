----------------------------- MODULE ScraperRun -----------------------------
(***************************************************************************)
(* The life cycle of one scraper and its runs.  Webhooks, the manual       *)
(* trigger and the scheduler claim the scraper by moving lastRunStatus to  *)
(* "running" and queue a scraper-ingest workflow.  Its first task claims a *)
(* daily run of the owner, writes a scraper-runs row, calls the runner and *)
(* writes the outcome to the row and then to the scraper; the sheets are   *)
(* imported after that.  The owner may delete the scraper meanwhile, or be *)
(* erased with it, and an hourly reaper releases claims it takes for dead. *)
(***************************************************************************)
EXTENDS Integers, FiniteSets

CONSTANTS
    Callers,     \* webhook calls and manual triggers
    MaxRuns,     \* workflows queued at most
    Limit,       \* SCRAPER_RUNS_PER_DAY of the owner
    Period,      \* hours between two runs of the schedule
    Threshold,   \* stuckThresholdHours, RUNNING_CLAIM_STALE_AFTER_MS
    ForceAfter,  \* FORCE_RESET_THRESHOLD_MULTIPLE thresholds, in hours
    Horizon,     \* no claim starts later
    MaxTime,     \* the clock stops
    MaxFaults,   \* faults in a behaviour
    Faults       \* which faults

FaultKinds == {
    "queueFail",     \* payload.jobs.queue throws
    "writeFail",     \* a write of the scraper or its run throws
    "rowFail",       \* the write that fails a run's row throws
    "outage",        \* both writes of a run's failure throw
    "refundFail",    \* decrementUsage throws
    "loadFail",      \* flag, scraper, repo or owner cannot be read
    "runnerFail",    \* callRunner throws
    "cleanFail",     \* the reaper's query or cleanup throws
    "advanceFail",   \* nextRunAt cannot be written after the queue call
    "edit",          \* the owner disables or enables the scraper
    "delete",        \* the owner deletes it
    "erase",         \* the owner's account is erased
    "webCrash",      \* the process that serves a request dies
    "workerDeath",   \* the worker is killed
    "overlap",       \* a run may start, or a trigger claim, while a reaper's pass is on
    "window" }       \* the cutoff may fall between a claim and its job

ASSUME Bounds ==
    /\ {MaxRuns, Limit, Period, Threshold, ForceAfter, Horizon, MaxTime,
        MaxFaults} \subseteq Nat
    /\ Faults \subseteq FaultKinds

VARIABLES
    now,                                       \* hours
    status, lastRun, nextRun, enabled, alive,  \* scrapers
    row,                                       \* scraper-runs
    job, created,                              \* payload-jobs
    used,                                      \* the owner's counter of the day
    req, sched, work, reap,                    \* handlers in progress
    dispatched, lost, forced,                  \* history
    budget                                     \* faults left

record == <<status, lastRun, nextRun, enabled, alive>>
queue == <<job, created>>
history == <<dispatched, lost, forced>>
vars == <<now, record, row, queue, used, req, sched, work, reap, history, budget>>

Runs == 1..MaxRuns
Never == -1
Processing == {"executing", "importing", "killed"}
Pending(r) == job[r] = "queued" \/ (job[r] = "executing" /\ work.pc # "refund")
RunsLeft == \E r \in Runs: job[r] = "none"
Waiting == [pc |-> "idle", at |-> 0]
NoWork == [pc |-> "idle", run |-> 0, quotaClaimed |-> FALSE, result |-> "none"]
NoPass == [pc |-> "idle", at |-> Never, seen |-> 0]

Init ==
    /\ now = 0
    /\ status = "none" /\ lastRun = Never /\ nextRun = Never
    /\ enabled = TRUE /\ alive = TRUE
    /\ row = [r \in Runs |-> "none"]
    /\ job = [r \in Runs |-> "none"] /\ created = [r \in Runs |-> 0]
    /\ used = 0
    /\ req = [c \in Callers |-> "idle"]
    /\ sched = Waiting /\ work = NoWork /\ reap = NoPass
    /\ dispatched = 0 /\ lost = 0 /\ forced = FALSE
    /\ budget = MaxFaults

NoFault == UNCHANGED budget
Fault(f) == f \in Faults /\ budget > 0 /\ budget' = budget - 1
\* A write finds its document, or throws: a deleted scraper and its rows are
\* not found.
Written == alive /\ NoFault
Throws(f) == Fault(f) \/ (~alive /\ NoFault)

-----------------------------------------------------------------------------
\* Triggers.

\* Mutant: the claim is not guarded by the status.
ClaimUnguarded ==
    /\ alive
    /\ status' = "running" /\ lastRun' = now

\* claimScraperRunning: one UPDATE.
ClaimScraperRunning ==
    /\ alive /\ status # "running"
    /\ "overlap" \in Faults \/ reap.pc = "idle"
    /\ status' = "running" /\ lastRun' = now

QueueRun ==
    \E r \in Runs:
        /\ job[r] = "none" /\ \A s \in Runs: s < r => job[s] # "none"
        /\ job' = [job EXCEPT ![r] = "queued"]
        /\ created' = [created EXCEPT ![r] = now]

\* A webhook resolves its token, a manual call loads the scraper; both refuse a
\* disabled one.
Read(c) ==
    /\ req[c] = "idle" /\ now <= Horizon /\ RunsLeft
    /\ alive /\ enabled
    /\ req' = [req EXCEPT ![c] = "read"]
    /\ NoFault
    /\ UNCHANGED <<now, record, row, queue, used, sched, work, reap, history>>

Trigger(c) ==
    /\ req[c] = "read"
    /\ \/ ClaimScraperRunning /\ req' = [req EXCEPT ![c] = "claimed"]
       \/ /\ ~alive \/ status = "running"
          /\ req' = [req EXCEPT ![c] = "done"]
          /\ UNCHANGED <<status, lastRun>>
    /\ NoFault
    /\ UNCHANGED <<now, nextRun, enabled, alive, row, queue, used, sched, work,
                   reap, history>>

TriggerQueue(c) ==
    /\ req[c] = "claimed"
    /\ \/ QueueRun /\ req' = [req EXCEPT ![c] = "done"] /\ NoFault
       \/ /\ Fault("queueFail") \/ (~RunsLeft /\ NoFault)
          /\ req' = [req EXCEPT ![c] = "rollback"]
          /\ UNCHANGED queue
    /\ UNCHANGED <<now, record, row, used, sched, work, reap, history>>

\* queueJobWithRollback, and the catch of handleScraperTrigger.
Rollback(c) ==
    /\ req[c] = "rollback"
    /\ req' = [req EXCEPT ![c] = "done"]
    /\ \/ status' = "failed" /\ Written
       \/ Throws("writeFail") /\ UNCHANGED status
    /\ UNCHANGED <<now, lastRun, nextRun, enabled, alive, row, queue, used,
                   sched, work, reap, history>>

WebCrash(c) ==
    /\ req[c] \notin {"idle", "done"} /\ Fault("webCrash")
    /\ req' = [req EXCEPT ![c] = "done"]
    /\ UNCHANGED <<now, record, row, queue, used, sched, work, reap, history>>

Edit ==
    /\ Fault("edit") /\ alive
    /\ enabled' = ~enabled
    /\ UNCHANGED <<now, status, lastRun, nextRun, alive, row, queue, used, req,
                   sched, work, reap, history>>

\* Mutant: any claim of an earlier hour is stale.
DeleteEarly ==
    /\ Fault("delete") /\ alive
    /\ status # "running" \/ now - lastRun >= 1
    /\ alive' = FALSE /\ row' = [r \in Runs |-> "none"]
    /\ UNCHANGED <<now, status, lastRun, nextRun, enabled, queue, used, req,
                   sched, work, reap, history>>

\* assertScraperNotRunning locks the row and refuses, unless the claim is older
\* than the threshold, as one of that many hours may be; the runs go in the same
\* transaction.
Delete ==
    /\ Fault("delete") /\ alive
    /\ status # "running" \/ now - lastRun >= Threshold
    /\ alive' = FALSE /\ row' = [r \in Runs |-> "none"]
    /\ UNCHANGED <<now, status, lastRun, nextRun, enabled, queue, used, req,
                   sched, work, reap, history>>

\* deleteUserResources erases an account with its scrapers whatever they do: in
\* its transaction it takes the claim back, which makes the delete's check pass.
EraseAccount ==
    /\ Fault("erase") /\ alive
    /\ status' = IF status = "running" THEN "failed" ELSE status
    /\ alive' = FALSE /\ row' = [r \in Runs |-> "none"]
    /\ UNCHANGED <<now, lastRun, nextRun, enabled, queue, used, req, sched, work,
                   reap, history>>

-----------------------------------------------------------------------------
\* The scheduler (processScheduledScrapers), every minute.

\* shouldScraperRunNow on the copy it listed; the status is left to the claim.
Due ==
    IF nextRun # Never THEN now >= nextRun
    ELSE lastRun = Never \/ now >= lastRun + Period

SchedRead ==
    /\ sched.pc = "idle" /\ now <= Horizon /\ RunsLeft
    /\ alive /\ enabled /\ Due
    /\ sched' = [pc |-> "claim", at |-> now]
    /\ NoFault
    /\ UNCHANGED <<now, record, row, queue, used, req, work, reap, history>>

SchedClaim ==
    /\ sched.pc = "claim"
    /\ \/ ClaimScraperRunning /\ sched' = [sched EXCEPT !.pc = "queue"]
       \/ /\ ~alive \/ status = "running"
          /\ sched' = Waiting
          /\ UNCHANGED <<status, lastRun>>
    /\ NoFault
    /\ UNCHANGED <<now, nextRun, enabled, alive, row, queue, used, req, work,
                   reap, history>>

SchedQueue ==
    /\ sched.pc = "queue"
    /\ \/ QueueRun /\ sched' = [sched EXCEPT !.pc = "advance"] /\ NoFault
       \/ /\ Fault("queueFail") \/ (~RunsLeft /\ NoFault)
          /\ sched' = [sched EXCEPT !.pc = "recover"]
          /\ UNCHANGED queue
    /\ UNCHANGED <<now, record, row, used, req, work, reap, history>>

\* advanceScraperNextRunOrDisable: a schedule that never matches again is
\* switched off.
Advance ==
    \/ nextRun' = sched.at + Period /\ UNCHANGED enabled
    \/ enabled' = FALSE /\ UNCHANGED nextRun

SchedAdvance ==
    /\ sched.pc = "advance"
    /\ \/ Advance /\ sched' = Waiting /\ Written
       \/ /\ Fault("advanceFail") \/ (~alive /\ NoFault)
          /\ sched' = [sched EXCEPT !.pc = "recover"]
          /\ UNCHANGED <<nextRun, enabled>>
    /\ UNCHANGED <<now, status, lastRun, alive, row, queue, used, req, work,
                   reap, history>>

\* The catch advances too, and writes "failed" over the claim.
SchedRecover ==
    /\ sched.pc = "recover"
    /\ sched' = Waiting
    /\ \/ Advance /\ status' = "failed" /\ Written
       \/ Throws("writeFail") /\ UNCHANGED <<status, nextRun, enabled>>
    /\ UNCHANGED <<now, lastRun, alive, row, queue, used, req, work, reap, history>>

-----------------------------------------------------------------------------
\* The worker.  The workflow's concurrency key admits one run of the scraper.  No
\* run starts in the last hours of the clock, in which the reaper would not reach
\* its claim.

StartRun(r) ==
    /\ job[r] = "queued" /\ \A s \in Runs: job[s] \notin Processing
    /\ now + Threshold <= MaxTime
    /\ "overlap" \in Faults \/ reap.pc = "idle"
    /\ job' = [job EXCEPT ![r] = "executing"]
    /\ work' = [NoWork EXCEPT !.pc = "check", !.run = r]
    /\ NoFault
    /\ UNCHANGED <<now, record, row, created, used, req, sched, reap, history>>

\* Mutant: the last daily run is given twice.
CheckRunOnceMore ==
    /\ work.pc = "check"
    /\ \/ /\ alive /\ enabled /\ used <= Limit /\ NoFault
          /\ used' = used + 1
          /\ work' = [work EXCEPT !.pc = "row", !.quotaClaimed = TRUE]
       \/ /\ (~(alive /\ enabled /\ used < Limit) /\ NoFault) \/ Fault("loadFail")
          /\ work' = [work EXCEPT !.pc = "release"]
          /\ UNCHANGED used
    /\ UNCHANGED <<now, record, row, queue, req, sched, reap, history>>

\* The flag, the scraper and its repo, its toggle, and the owner's daily run.
CheckRun ==
    /\ work.pc = "check"
    /\ \/ /\ alive /\ enabled /\ used < Limit /\ NoFault
          /\ used' = used + 1
          /\ work' = [work EXCEPT !.pc = "row", !.quotaClaimed = TRUE]
       \/ /\ (~(alive /\ enabled /\ used < Limit) /\ NoFault) \/ Fault("loadFail")
          /\ work' = [work EXCEPT !.pc = "release"]
          /\ UNCHANGED used
    /\ UNCHANGED <<now, record, row, queue, req, sched, reap, history>>

\* createRunRecord: the row first.
CreateRow ==
    /\ work.pc = "row"
    /\ \/ /\ Written
          /\ row' = [row EXCEPT ![work.run] = "running"]
          /\ work' = [work EXCEPT !.pc = "mark"]
       \/ /\ Throws("writeFail")
          /\ work' = [work EXCEPT !.pc = "release"]
          /\ UNCHANGED row
    /\ UNCHANGED <<now, record, queue, used, req, sched, reap, history>>

\* Mutant: the quota claim is kept over the call.
MarkRunningRefundable ==
    /\ work.pc = "mark"
    /\ \/ /\ Written
          /\ status' = "running" /\ lastRun' = now
          /\ work' = [work EXCEPT !.pc = "call"]
          /\ dispatched' = dispatched + 1
       \/ /\ Throws("writeFail")
          /\ work' = [work EXCEPT !.pc = "failRow"]
          /\ UNCHANGED <<status, lastRun, dispatched>>
    /\ UNCHANGED <<now, nextRun, enabled, alive, row, queue, used, req, sched,
                   reap, lost, forced>>

\* Then the scraper.  From the call on the daily run is spent.
MarkRunning ==
    /\ work.pc = "mark"
    /\ \/ /\ Written
          /\ status' = "running" /\ lastRun' = now
          /\ work' = [work EXCEPT !.pc = "call", !.quotaClaimed = FALSE]
          /\ dispatched' = dispatched + 1
       \/ /\ Throws("writeFail")
          /\ work' = [work EXCEPT !.pc = "failRow"]
          /\ UNCHANGED <<status, lastRun, dispatched>>
    /\ UNCHANGED <<now, nextRun, enabled, alive, row, queue, used, req, sched,
                   reap, lost, forced>>

\* Mutant: the committed row is forgotten.
FailOrphanRowSkipped ==
    /\ work.pc = "failRow"
    /\ work' = [work EXCEPT !.pc = "release"]
    /\ NoFault
    /\ UNCHANGED <<now, record, row, queue, used, req, sched, reap, history>>

FailOrphanRow ==
    /\ work.pc = "failRow"
    /\ work' = [work EXCEPT !.pc = "release"]
    /\ \/ Written /\ row' = [row EXCEPT ![work.run] = "failed"]
       \/ Throws("rowFail") /\ UNCHANGED row
    /\ UNCHANGED <<now, record, queue, used, req, sched, reap, history>>

CallRunner ==
    /\ work.pc = "call"
    /\ \/ /\ NoFault
          /\ \E result \in {"success", "failed", "timeout"}:
                 work' = [work EXCEPT !.pc = "saveRow", !.result = result]
       \/ /\ Fault("runnerFail")
          /\ work' = [work EXCEPT !.pc = "failedRow"]
    /\ UNCHANGED <<now, record, row, queue, used, req, sched, reap, history>>

\* handleRunSuccess: the row, the import file (whose failure is recorded on the
\* row and caught), the scraper last.
SaveRow ==
    /\ work.pc = "saveRow"
    /\ \/ /\ Written
          /\ row' = [row EXCEPT ![work.run] = work.result]
          /\ work' = [work EXCEPT !.pc = "finish"]
       \/ /\ Throws("writeFail")
          /\ work' = [work EXCEPT !.pc = "failedRow"]
          /\ UNCHANGED row
    /\ UNCHANGED <<now, record, queue, used, req, sched, reap, history>>

FinishScraper ==
    /\ work.pc = "finish"
    /\ \/ /\ Written
          /\ status' = work.result /\ lastRun' = now
          /\ \E next \in {"importing", "done"}:
                 job' = [job EXCEPT ![work.run] = next]
          /\ work' = NoWork
       \/ /\ Throws("writeFail")
          /\ work' = [work EXCEPT !.pc = "failedRow"]
          /\ UNCHANGED <<status, lastRun, job>>
    /\ UNCHANGED <<now, nextRun, enabled, alive, row, created, used, req, sched,
                   reap, history>>

\* handleRunFailure: each write is best effort.
FailRow ==
    /\ work.pc = "failedRow"
    /\ work' = [work EXCEPT !.pc = "failedScraper"]
    /\ \/ Written /\ row' = [row EXCEPT ![work.run] = "failed"]
       \/ Throws("rowFail") /\ UNCHANGED row
    /\ UNCHANGED <<now, record, queue, used, req, sched, reap, history>>

FailScraper ==
    /\ work.pc = "failedScraper"
    /\ work' = [work EXCEPT !.pc = "refund"]
    /\ \/ status' = "failed" /\ lastRun' = now /\ Written
       \/ Throws("writeFail") /\ UNCHANGED <<status, lastRun>>
    /\ UNCHANGED <<now, nextRun, enabled, alive, row, queue, used, req, sched,
                   reap, history>>

\* Both writes fail in an outage of the database.
FailLost ==
    /\ work.pc = "failedRow" /\ Fault("outage")
    /\ work' = [work EXCEPT !.pc = "refund"]
    /\ UNCHANGED <<now, record, row, queue, used, req, sched, reap, history>>

\* A failure before there is a run releases the claim.
ReleaseClaim ==
    /\ work.pc = "release"
    /\ work' = [work EXCEPT !.pc = "refund"]
    /\ \/ status' = "failed" /\ Written
       \/ Throws("writeFail") /\ UNCHANGED status
    /\ UNCHANGED <<now, lastRun, nextRun, enabled, alive, row, queue, used, req,
                   sched, reap, history>>

Refund ==
    /\ work.pc = "refund"
    /\ \/ /\ work.quotaClaimed /\ NoFault
          /\ used' = used - 1 /\ UNCHANGED lost
       \/ /\ work.quotaClaimed /\ Fault("refundFail")
          /\ lost' = lost + 1 /\ UNCHANGED used
       \/ ~work.quotaClaimed /\ NoFault /\ UNCHANGED <<used, lost>>
    /\ job' = [job EXCEPT ![work.run] = "done"] /\ work' = NoWork
    /\ UNCHANGED <<now, record, row, created, req, sched, reap, dispatched, forced>>

\* Detection and the sheets of the run's file end.
ImportEnds(r) ==
    /\ job[r] = "importing"
    /\ job' = [job EXCEPT ![r] = "done"]
    /\ NoFault
    /\ UNCHANGED <<now, record, row, created, used, req, sched, work, reap, history>>

\* A killed worker writes nothing more; the queue's row keeps processing = true.
WorkerDeath ==
    /\ work.pc # "idle" /\ Fault("workerDeath")
    /\ job' = [job EXCEPT ![work.run] = "killed"] /\ work' = NoWork
    /\ lost' = lost + IF work.quotaClaimed THEN 1 ELSE 0
    /\ UNCHANGED <<now, record, row, created, used, req, sched, reap, dispatched, forced>>

-----------------------------------------------------------------------------
\* The reaper (cleanup-stuck-scrapers), every hour, and on and on in the hour at
\* which the clock stops.

PassDone == [reap EXCEPT !.pc = "idle", !.seen = 0]

ReapList ==
    /\ reap.pc = "idle" /\ (reap.at < now \/ now = MaxTime)
    /\ alive /\ status = "running"
    /\ reap' = IF now - lastRun >= Threshold
               THEN [pc |-> "active", at |-> now, seen |-> lastRun]
               ELSE [pc |-> "idle", at |-> now, seen |-> 0]
    /\ NoFault
    /\ UNCHANGED <<now, record, row, queue, used, req, sched, work, history>>

\* Mutant: a job that waits is active too.
ReapCheckUnfinished ==
    /\ reap.pc = "active"
    /\ \/ /\ reap' = IF \E r \in Runs: job[r] \notin {"none", "done"}
                     THEN PassDone ELSE [reap EXCEPT !.pc = "cancel"]
          /\ NoFault
       \/ Fault("cleanFail") /\ reap' = PassDone
    /\ UNCHANGED <<now, record, row, queue, used, req, sched, work, history>>

\* hasActivePayloadJob; when the query fails the scraper is left alone.
ReapCheckActive ==
    /\ reap.pc = "active"
    /\ \/ /\ reap' = IF \E r \in Runs: job[r] \in Processing
                     THEN PassDone ELSE [reap EXCEPT !.pc = "cancel"]
          /\ NoFault
       \/ Fault("cleanFail") /\ reap' = PassDone
    /\ UNCHANGED <<now, record, row, queue, used, req, sched, work, history>>

\* A cleanup that throws ends the pass, unless the claim is old enough to be
\* released all the same.
CleanupFails ==
    /\ Fault("cleanFail")
    /\ IF reap.at - reap.seen > ForceAfter
       THEN reap' = [reap EXCEPT !.pc = "reset"] /\ forced' = TRUE
       ELSE reap' = PassDone /\ UNCHANGED forced

\* cancelOrphanedWorkflowJobs.  A claim is made just before its job: when the
\* claim is exactly the threshold old the job may be younger than the cutoff.
Orphaned(r) ==
    /\ job[r] = "queued"
    /\ \/ created[r] < reap.at - Threshold
       \/ created[r] = reap.at - Threshold /\ "window" \notin Faults

ReapCancel ==
    /\ reap.pc = "cancel"
    /\ \/ /\ job' = [r \in Runs |-> IF Orphaned(r) THEN "done" ELSE job[r]]
          /\ reap' = [reap EXCEPT !.pc = "failRuns"]
          /\ NoFault /\ UNCHANGED forced
       \/ CleanupFails /\ UNCHANGED job
    /\ UNCHANGED <<now, record, row, created, used, req, sched, work, dispatched, lost>>

\* Mutant: the rows are left alone.
FailNoRuns ==
    /\ reap.pc = "failRuns"
    /\ reap' = [reap EXCEPT !.pc = "reset"]
    /\ NoFault
    /\ UNCHANGED <<now, record, row, queue, used, req, sched, work, history>>

\* failStuckScraperRuns: every row of the scraper that says "running".
FailStuckScraperRuns ==
    /\ reap.pc = "failRuns"
    /\ \/ /\ row' = [r \in Runs |-> IF row[r] = "running" THEN "failed" ELSE row[r]]
          /\ reap' = [reap EXCEPT !.pc = "reset"]
          /\ NoFault /\ UNCHANGED forced
       \/ CleanupFails /\ UNCHANGED row
    /\ UNCHANGED <<now, record, queue, used, req, sched, work, dispatched, lost>>

\* resetStuckScraper ends with an unconditional write.
ResetStuckScraper ==
    /\ reap.pc = "reset"
    /\ \/ status' = "failed" /\ Written
       \/ Throws("writeFail") /\ UNCHANGED status
    /\ reap' = PassDone
    /\ UNCHANGED <<now, lastRun, nextRun, enabled, alive, row, queue, used, req,
                   sched, work, history>>

-----------------------------------------------------------------------------
\* An hour passes.  Requests, the scheduler and the reaper do not last hours;
\* the runner's timeout is shorter than the threshold.
Tick ==
    /\ now < MaxTime
    /\ \A c \in Callers: req[c] \in {"idle", "done"}
    /\ sched.pc = "idle" /\ reap.pc = "idle"
    /\ work.pc \in {"idle", "call"}
    /\ work.pc = "call" => now + 1 - lastRun < Threshold
    /\ now' = now + 1 /\ NoFault
    /\ UNCHANGED <<record, row, queue, used, req, sched, work, reap, history>>

CallStep(c) == Trigger(c) \/ TriggerQueue(c) \/ Rollback(c)
SchedStep == SchedClaim \/ SchedQueue \/ SchedAdvance \/ SchedRecover
WorkStep ==
    CheckRun \/ CreateRow \/ MarkRunning \/ FailOrphanRow \/ CallRunner \/ SaveRow
    \/ FinishScraper \/ FailRow \/ FailScraper \/ FailLost \/ ReleaseClaim \/ Refund
ReapStep == ReapCheckActive \/ ReapCancel \/ FailStuckScraperRuns \/ ResetStuckScraper

Next ==
    \/ \E c \in Callers: Read(c) \/ CallStep(c) \/ WebCrash(c)
    \/ Edit \/ Delete \/ EraseAccount
    \/ SchedRead \/ SchedStep
    \/ \E r \in Runs: StartRun(r) \/ ImportEnds(r)
    \/ WorkStep \/ WorkerDeath
    \/ ReapList \/ ReapStep
    \/ Tick

Spec == Init /\ [][Next]_vars

\* The job runners poll their queues, a runner's call times out, an import ends
\* and the clock goes on, however often the scheduler looks; nobody is obliged to
\* call, edit or delete.
FairSpec ==
    /\ Spec
    /\ \A c \in Callers: WF_vars(CallStep(c))
    /\ WF_vars(SchedStep)
    /\ \A r \in Runs: WF_vars(StartRun(r)) /\ WF_vars(ImportEnds(r))
    /\ WF_vars(WorkStep)
    /\ WF_vars(ReapList) /\ WF_vars(ReapStep)
    /\ SF_vars(Tick)

-----------------------------------------------------------------------------
Results == {"success", "failed", "timeout"}

TypeOK ==
    /\ now \in 0..MaxTime
    /\ status \in {"none", "running"} \union Results
    /\ lastRun \in Never..MaxTime /\ nextRun \in Never..(MaxTime + Period)
    /\ enabled \in BOOLEAN /\ alive \in BOOLEAN /\ forced \in BOOLEAN
    /\ row \in [Runs -> {"none", "running"} \union Results]
    /\ job \in [Runs -> {"none", "queued", "done"} \union Processing]
    /\ created \in [Runs -> 0..MaxTime]
    /\ used \in 0..Limit
    /\ req \in [Callers -> {"idle", "read", "claimed", "rollback", "done"}]
    /\ sched \in [pc: {"idle", "claim", "queue", "advance", "recover"}, at: 0..MaxTime]
    /\ work \in [pc: {"idle", "check", "row", "mark", "failRow", "call", "saveRow",
                      "finish", "failedRow", "failedScraper", "release", "refund"},
                 run: 0..MaxRuns, quotaClaimed: BOOLEAN, result: {"none"} \union Results]
    /\ reap \in [pc: {"idle", "active", "cancel", "failRuns", "reset"},
                 at: Never..MaxTime, seen: 0..MaxTime]
    /\ dispatched \in 0..MaxRuns /\ lost \in Nat /\ budget \in 0..MaxFaults

\* The claim is exclusive and outlives the queue: a run that waits or executes
\* holds the scraper, so that no trigger starts another beside it, unless the
\* scraper was released by force.
PendingRunHeld ==
    ~forced =>
        /\ \A r \in Runs: Pending(r) /\ alive => status = "running"
        /\ \A r, s \in Runs: Pending(r) /\ Pending(s) => r = s

\* "running" is the reaper's only handle: while no run is in progress and the
\* scraper does not say "running", no row says so, unless it was released by
\* force.
NoStrandedRow ==
    status # "running" /\ ~forced /\ work.pc = "idle" =>
        \A r \in Runs: row[r] # "running"

\* The owner's counter is the runs dispatched, the claim a run in progress would
\* give back, and the claims whose refund failed or died with the worker.
QuotaSettled ==
    used = dispatched + lost + (IF work.quotaClaimed THEN 1 ELSE 0)

\* Whoever takes the scraper and its rows away from a run the runner is executing
\* takes its claim back in the same transaction, as the erasure of the account
\* does: no delete of the owner's gets there, unless the scraper was released by
\* force.
DeleteSparesRuns ==
    [][alive /\ ~alive' /\ ~forced /\ work.pc \in {"call", "saveRow", "finish", "failedRow"}
         => status = "running" /\ status' = "failed"]_vars

Killed == \E r \in Runs: job[r] = "killed"
\* Whatever write is lost or web process dies, a claim does not last, unless a
\* worker was killed.
ClaimsAreReleased ==
    status = "running" /\ alive ~> status # "running" \/ ~alive \/ Killed

\* Every row of a run the worker survived says in the end how the run ended,
\* unless its scraper was released by force.
RunsEnd ==
    \A r \in Runs:
        row[r] = "running" ~> row[r] # "running" \/ job[r] = "killed" \/ forced

=============================================================================
