-------------------------- MODULE ScheduledIngest --------------------------
(***************************************************************************)
(* The life cycle of one scheduled ingest.  Webhook calls, users and the   *)
(* scheduler claim its record by moving lastStatus to "running" and queue  *)
(* a workflow; the workflow fetches the source, imports it and writes the  *)
(* outcome back; an hourly reaper releases claims it takes for dead.       *)
(* Every await between a read of the record and a write that uses it is a  *)
(* step boundary.                                                          *)
(***************************************************************************)
EXTENDS Integers, Sequences

CONSTANTS
    Hooks,       \* webhook calls
    Users,       \* calls of the manual trigger, the wizard and the activation
    MaxRuns,     \* workflows queued at most
    Period,      \* hours between two runs of the schedule
    Threshold,   \* stuckThresholdHours
    ForceAfter,  \* FORCE_RESET_THRESHOLD_MULTIPLE thresholds, in hours
    MaxRetries,  \* retryConfig.maxRetries
    Attempts,    \* retries of the url-fetch task
    Horizon,     \* no claim starts later
    MaxTime,     \* the clock stops
    MaxFaults,   \* faults in a behaviour
    Faults       \* which faults

FaultKinds == {
    "queueFail",      \* payload.jobs.queue throws
    "writeFail",      \* a write of the record throws (all five attempts of it)
    "cleanFail",      \* the reaper's cleanup of jobs and files throws
    "fetchFail",      \* an attempt of the url-fetch task throws
    "statusFail",     \* the file's status is not derived
    "webCrash",       \* the process that serves a request dies
    "badCron",        \* calculateNextRun throws
    "staleDisable",   \* a claim may come between the list and that error's write
    "claimFail",      \* the scheduler's claim itself throws
    "edit",           \* the owner enables, disables or changes the schedule
    "longRun",        \* a run may be live for longer than the threshold
    "overlap" }       \* the reaper may list while a webhook call is in flight

ASSUME Bounds ==
    /\ {MaxRuns, Period, Threshold, ForceAfter, MaxRetries, Attempts,
        Horizon, MaxTime, MaxFaults} \subseteq Nat
    /\ Faults \subseteq FaultKinds

VARIABLES
    now,                                         \* hours
    status, lastRun, retries, enabled, nextRun,  \* the record
    job, created, tries,                         \* payload-jobs
    file, files,                                 \* ingest-files, oldest first
    req, sched, work, reap,                      \* handlers in progress
    failures,                                    \* history: runs that failed
    budget                                       \* faults left

record == <<status, lastRun, retries, enabled, nextRun>>
queue == <<job, created, tries>>
store == <<file, files>>
vars == <<now, record, queue, store, req, sched, work, reap, failures, budget>>

Runs == 1..MaxRuns
Callers == Hooks \union Users
Statuses == {"none", "running", "success", "paused", "failed"}

\* A time stamp: the hour, and how many files were older, which orders what
\* happens within an hour.
Stamps == [at: -1..MaxTime, seen: 0..MaxRuns]
NoStamp == [at |-> -1, seen |-> 0]
Stamp == [at |-> now, seen |-> Len(files)]
CreatedSince(r, stamp) == \E i \in (stamp.seen + 1)..Len(files): files[i] = r

\* A call keeps the copy of the record it read.
Call(pc) == [pc |-> pc, status |-> status, lastRun |-> lastRun, retries |-> retries]
Unserved == [pc |-> "idle", status |-> "none", lastRun |-> NoStamp, retries |-> 0]
Answered == [Unserved EXCEPT !.pc = "done"]
Waiting == [pc |-> "idle", at |-> NoStamp]
NoWork == [pc |-> "idle", run |-> 0, outcome |-> "none"]
Live(r) == job[r] \in {"queued", "processing"}

\* Mutant: a claim without a stamp is taken for a fresh one.
StuckIfStamped(stamp, t) == stamp # NoStamp /\ t - stamp.at >= Threshold
Stuck(stamp, t) == stamp = NoStamp \/ t - stamp.at >= Threshold

Init ==
    /\ now = 0
    /\ status = "none" /\ lastRun = NoStamp /\ retries = 0
    /\ enabled = TRUE /\ nextRun = 0
    /\ job = [r \in Runs |-> "none"]
    /\ created = [r \in Runs |-> 0] /\ tries = [r \in Runs |-> 0]
    /\ file = [r \in Runs |-> "none"] /\ files = << >>
    /\ req = [c \in Callers |-> Unserved]
    /\ sched = Waiting
    /\ work = NoWork
    /\ reap = [pc |-> "idle", at |-> -1, lastRun |-> NoStamp]
    /\ failures = 0 /\ budget = MaxFaults

NoFault == UNCHANGED budget
Fault(f) == f \in Faults /\ budget > 0 /\ budget' = budget - 1

-----------------------------------------------------------------------------
\* Triggers.

\* The next workflow is queued.
QueueRun ==
    \E r \in Runs:
        /\ job[r] = "none" /\ \A s \in Runs: s < r => job[s] # "none"
        /\ job' = [job EXCEPT ![r] = "queued"]
        /\ created' = [created EXCEPT ![r] = now]
        /\ UNCHANGED tries
RunsLeft == \E r \in Runs: job[r] = "none"

\* The route reads the record, which the claim's rollback will restore: the
\* webhook route when it resolves its token, the others by id.  A disabled
\* schedule is refused.
Read(c) ==
    /\ req[c].pc = "idle" /\ now <= Horizon /\ RunsLeft
    /\ enabled
    /\ req' = [req EXCEPT ![c] = Call("read")]
    /\ NoFault
    /\ UNCHANGED <<now, record, queue, store, sched, work, reap, failures>>

\* claimScheduledIngestRunning: one UPDATE that moves lastStatus alone.  A call
\* that loses the claim is skipped.
HookClaim(c) ==
    /\ c \in Hooks /\ req[c].pc = "read"
    /\ IF status # "running"
       THEN status' = "running" /\ req' = [req EXCEPT ![c].pc = "held"]
       ELSE UNCHANGED status /\ req' = [req EXCEPT ![c] = Answered]
    /\ NoFault
    /\ UNCHANGED <<now, lastRun, retries, enabled, nextRun, queue, store,
                   sched, work, reap, failures>>

\* triggerScheduledIngest after a webhook's claim: "running" is written again,
\* whatever the record says by now, with the stamp and a fresh retry budget.
HookAssert(c) ==
    /\ c \in Hooks /\ req[c].pc = "held"
    /\ \/ /\ status' = "running" /\ lastRun' = Stamp /\ retries' = 0
          /\ req' = [req EXCEPT ![c].pc = "claimed"]
          /\ NoFault
       \/ /\ Fault("writeFail")
          /\ req' = [req EXCEPT ![c].pc = "revert"]
          /\ UNCHANGED <<status, lastRun, retries>>
    /\ UNCHANGED <<now, enabled, nextRun, queue, store, sched, work, reap, failures>>

\* Mutant: the guard of the UPDATE is missing.
UserClaimUnguarded(c) ==
    /\ c \in Users /\ req[c].pc = "read"
    /\ status' = "running" /\ lastRun' = Stamp /\ retries' = 0
    /\ req' = [req EXCEPT ![c].pc = "claimed"]
    /\ NoFault
    /\ UNCHANGED <<now, enabled, nextRun, queue, store, sched, work, reap, failures>>

\* triggerScheduledIngest for a user: one UPDATE guarded by lastStatus.
UserClaim(c) ==
    /\ c \in Users /\ req[c].pc = "read"
    /\ IF status # "running"
       THEN /\ status' = "running" /\ lastRun' = Stamp /\ retries' = 0
            /\ req' = [req EXCEPT ![c].pc = "claimed"]
       ELSE /\ UNCHANGED <<status, lastRun, retries>>
            /\ req' = [req EXCEPT ![c] = Answered]
    /\ NoFault
    /\ UNCHANGED <<now, enabled, nextRun, queue, store, sched, work, reap, failures>>

TriggerQueue(c) ==
    /\ req[c].pc = "claimed"
    /\ \/ QueueRun /\ req' = [req EXCEPT ![c] = Answered] /\ NoFault
       \/ /\ Fault("queueFail") \/ (~RunsLeft /\ NoFault)
          /\ req' = [req EXCEPT ![c].pc = "revert"]
          /\ UNCHANGED queue
    /\ UNCHANGED <<now, record, store, sched, work, reap, failures>>

\* revertTriggerClaim: the copy read before the claim, without a condition.
RevertTriggerClaim(c) ==
    /\ req[c].pc = "revert"
    /\ req' = [req EXCEPT ![c] = Answered]
    /\ \/ /\ status' = req[c].status /\ lastRun' = req[c].lastRun
          /\ retries' = req[c].retries
          /\ NoFault
       \/ Fault("writeFail") /\ UNCHANGED <<status, lastRun, retries>>
    /\ UNCHANGED <<now, enabled, nextRun, queue, store, sched, work, reap, failures>>

WebCrash(c) ==
    /\ req[c].pc \notin {"idle", "done"} /\ Fault("webCrash")
    /\ req' = [req EXCEPT ![c] = Answered]
    /\ UNCHANGED <<now, record, queue, store, sched, work, reap, failures>>

\* The owner edits the record.  A changed definition makes the hook compute
\* nextRun again; nothing resets the retries.
Edit ==
    /\ Fault("edit")
    /\ \/ enabled' = ~enabled /\ UNCHANGED nextRun
       \/ nextRun' = now + Period /\ UNCHANGED enabled
    /\ UNCHANGED <<now, status, lastRun, retries, queue, store, req, sched,
                   work, reap, failures>>

-----------------------------------------------------------------------------
\* The scheduler (schedule-manager), every minute.

\* It lists the enabled records; shouldRunNow and the status are judged on the
\* copy, and the claim is stamped with the time of the tick.
SchedRead ==
    /\ sched.pc = "idle" /\ now <= Horizon /\ RunsLeft
    /\ enabled /\ nextRun <= now /\ status # "running"
    /\ sched' = [pc |-> "claim", at |-> Stamp]
    /\ NoFault
    /\ UNCHANGED <<now, record, queue, store, req, work, reap, failures>>

\* disableScheduledIngestForInvalidConfig when no next run can be computed; the
\* write has no condition.
DisableInvalid ==
    /\ sched.pc = "claim" /\ Fault("badCron")
    /\ "staleDisable" \in Faults \/ status # "running"
    /\ enabled' = FALSE /\ status' = "failed"
    /\ sched' = Waiting
    /\ UNCHANGED <<now, lastRun, retries, nextRun, queue, store, req, work, reap, failures>>

\* The claim of triggerScheduledIngest, which also moves nextRun.
SchedClaim ==
    /\ sched.pc = "claim"
    /\ \/ /\ status # "running"
          /\ status' = "running" /\ lastRun' = sched.at
          /\ nextRun' = sched.at.at + Period
          /\ sched' = [sched EXCEPT !.pc = "queue"] /\ NoFault
       \/ /\ status = "running"
          /\ sched' = Waiting /\ NoFault
          /\ UNCHANGED <<status, lastRun, nextRun>>
       \/ /\ Fault("claimFail")
          /\ sched' = [sched EXCEPT !.pc = "error"]
          /\ UNCHANGED <<status, lastRun, nextRun>>
    /\ UNCHANGED <<now, retries, enabled, queue, store, req, work, reap, failures>>

SchedQueue ==
    /\ sched.pc = "queue"
    /\ \/ QueueRun /\ sched' = Waiting /\ NoFault
       \/ /\ Fault("queueFail") \/ (~RunsLeft /\ NoFault)
          /\ sched' = [sched EXCEPT !.pc = "error"]
          /\ UNCHANGED queue
    /\ UNCHANGED <<now, record, store, req, work, reap, failures>>

\* handleImportError: the tick was the run, and it failed.
HandleImportError ==
    /\ sched.pc = "error"
    /\ sched' = Waiting
    /\ \/ status' = "failed" /\ nextRun' = sched.at.at + Period /\ NoFault
       \/ Fault("writeFail") /\ UNCHANGED <<status, nextRun>>
    /\ UNCHANGED <<now, lastRun, retries, enabled, queue, store, req, work, reap, failures>>

-----------------------------------------------------------------------------
\* The worker.  The workflow's concurrency key admits one run of the schedule.

StartRun(r) ==
    /\ work.pc = "idle" /\ job[r] = "queued"
    /\ job' = [job EXCEPT ![r] = "processing"]
    /\ work' = [pc |-> "fetch", run |-> r, outcome |-> "none"]
    /\ NoFault
    /\ UNCHANGED <<now, record, created, tries, store, req, sched, reap, failures>>

\* Mutant: one attempt more than the task's retries.
FetchThrowsOnceMore ==
    /\ work.pc = "fetch"
    /\ (~enabled /\ NoFault) \/ Fault("fetchFail")
    /\ IF tries[work.run] <= Attempts
       THEN /\ tries' = [tries EXCEPT ![work.run] = @ + 1]
            /\ job' = [job EXCEPT ![work.run] = "queued"]
            /\ work' = NoWork
       ELSE /\ work' = [work EXCEPT !.pc = "conclude", !.outcome = "failed"]
            /\ UNCHANGED <<job, tries>>
    /\ UNCHANGED <<now, record, created, store, req, sched, reap, failures>>

\* Mutant: the catch records a failure on every attempt.
FetchThrowsRecorded ==
    /\ work.pc = "fetch"
    /\ (~enabled /\ NoFault) \/ Fault("fetchFail")
    /\ status' = "failed"
    /\ IF tries[work.run] < Attempts
       THEN /\ tries' = [tries EXCEPT ![work.run] = @ + 1]
            /\ job' = [job EXCEPT ![work.run] = "queued"]
            /\ work' = NoWork
       ELSE /\ work' = [work EXCEPT !.pc = "conclude", !.outcome = "failed"]
            /\ UNCHANGED <<job, tries>>
    /\ UNCHANGED <<now, lastRun, retries, enabled, nextRun, created, store, req,
                   sched, reap, failures>>

\* An attempt of url-fetch throws, on a disabled schedule too.  While attempts
\* remain the workflow is queued again and nothing is recorded.
FetchThrows ==
    /\ work.pc = "fetch"
    /\ (~enabled /\ NoFault) \/ Fault("fetchFail")
    /\ IF tries[work.run] < Attempts
       THEN /\ tries' = [tries EXCEPT ![work.run] = @ + 1]
            /\ job' = [job EXCEPT ![work.run] = "queued"]
            /\ work' = NoWork
       ELSE /\ work' = [work EXCEPT !.pc = "conclude", !.outcome = "failed"]
            /\ UNCHANGED <<job, tries>>
    /\ UNCHANGED <<now, record, created, store, req, sched, reap, failures>>

\* No records, or content imported before: the run succeeds without a file.
FetchNothingNew ==
    /\ work.pc = "fetch" /\ enabled
    /\ work' = [work EXCEPT !.pc = "conclude", !.outcome = "success"]
    /\ NoFault
    /\ UNCHANGED <<now, record, queue, store, req, sched, reap, failures>>

FetchCreatesFile ==
    /\ work.pc = "fetch" /\ enabled
    /\ file' = [file EXCEPT ![work.run] = "open"]
    /\ files' = Append(files, work.run)
    /\ work' = [work EXCEPT !.pc = "sheets"]
    /\ NoFault
    /\ UNCHANGED <<now, record, queue, req, sched, reap, failures>>

\* Detection and processSheets, then updateIngestFileStatus.  "review" is a file
\* still processing that has a job at NEEDS_REVIEW.
ProcessSheets ==
    /\ work.pc = "sheets"
    /\ \/ NoFault /\ \E outcome \in {"completed", "review", "failed"}:
             file' = [file EXCEPT ![work.run] = outcome]
       \/ Fault("statusFail") /\ UNCHANGED file
    /\ work' = [work EXCEPT !.pc = "judge"]
    /\ UNCHANGED <<now, record, queue, files, req, sched, reap, failures>>

\* buildScheduledIngestFailure reads the outcome back from the database.
Judge ==
    /\ work.pc = "judge"
    /\ work' = [work EXCEPT !.pc = "conclude",
                            !.outcome = CASE file[work.run] = "completed" -> "success"
                                          [] file[work.run] = "review" -> "paused"
                                          [] OTHER -> "failed"]
    /\ NoFault
    /\ UNCHANGED <<now, record, queue, store, req, sched, reap, failures>>

\* Mutant: a budget of MaxRetries failures instead of retries.
RecordOutcomeOneLess ==
    \/ /\ work.outcome = "success"
       /\ status' = "success" /\ lastRun' = Stamp /\ retries' = 0
       /\ UNCHANGED enabled
    \/ /\ work.outcome = "paused"
       /\ status' = "paused" /\ lastRun' = Stamp
       /\ UNCHANGED <<retries, enabled>>
    \/ /\ work.outcome = "failed"
       /\ status' = "failed" /\ lastRun' = Stamp /\ retries' = retries + 1
       /\ enabled' = (enabled /\ retries + 1 < MaxRetries)

\* reconcileLifecycle, or the final failure of the catch.  When the write is
\* given up nothing is thrown and the record keeps what it says.
RecordOutcome ==
    \/ /\ work.outcome = "success"
       /\ status' = "success" /\ lastRun' = Stamp /\ retries' = 0
       /\ UNCHANGED enabled
    \/ /\ work.outcome = "paused"
       /\ status' = "paused" /\ lastRun' = Stamp
       /\ UNCHANGED <<retries, enabled>>
    \/ /\ work.outcome = "failed"
       /\ status' = "failed" /\ lastRun' = Stamp /\ retries' = retries + 1
       /\ enabled' = (enabled /\ retries + 1 <= MaxRetries)

Conclude ==
    /\ work.pc = "conclude"
    /\ \/ RecordOutcome /\ NoFault
       \/ Fault("writeFail") /\ UNCHANGED <<status, lastRun, retries, enabled>>
    /\ failures' = failures + IF work.outcome = "failed" THEN 1 ELSE 0
    /\ job' = [job EXCEPT ![work.run] = "done"]
    /\ work' = NoWork
    /\ UNCHANGED <<now, nextRun, created, tries, store, req, sched, reap>>

\* The owner approves the reviews and the resumed import ends.
ReviewAnswered(r) ==
    /\ file[r] = "review"
    /\ \E outcome \in {"completed", "failed"}: file' = [file EXCEPT ![r] = outcome]
    /\ NoFault
    /\ UNCHANGED <<now, record, queue, files, req, sched, work, reap, failures>>

-----------------------------------------------------------------------------
\* The reaper (cleanup-stuck-scheduled-ingests), every hour, and on and on in
\* the hour at which the clock stops.
PassDone == [reap EXCEPT !.pc = "idle", !.lastRun = NoStamp]

ReapList ==
    /\ reap.pc = "idle" /\ (reap.at < now \/ now = MaxTime)
    /\ status = "running"
    /\ "overlap" \in Faults \/ \A c \in Hooks: req[c].pc \in {"idle", "read", "done"}
    /\ reap' = IF Stuck(lastRun, now)
               THEN [pc |-> "active", at |-> now, lastRun |-> lastRun]
               ELSE [pc |-> "idle", at |-> now, lastRun |-> NoStamp]
    /\ NoFault
    /\ UNCHANGED <<now, record, queue, store, req, sched, work, failures>>

\* hasActivePayloadJob; when the query fails the resource is left alone.
ReapCheckActive ==
    /\ reap.pc = "active"
    /\ \/ /\ reap' = IF \E r \in Runs: job[r] = "processing"
                     THEN PassDone ELSE [reap EXCEPT !.pc = "resolve"]
          /\ NoFault
       \/ Fault("cleanFail") /\ reap' = PassDone
    /\ UNCHANGED <<now, record, queue, store, req, sched, work, failures>>

\* Mutant: a review is not an outcome.
ResolvedCompleted ==
    IF files = << >> \/ ~CreatedSince(files[Len(files)], reap.lastRun) THEN "none"
    ELSE IF file[files[Len(files)]] = "completed" THEN "completed" ELSE "none"

\* resolveUnreconciledOutcome on the newest file, if it is of this run.
Resolved ==
    IF files = << >> \/ ~CreatedSince(files[Len(files)], reap.lastRun) THEN "none"
    ELSE file[files[Len(files)]]

\* applyUnreconciledOutcome writes what the finished run could not.
ReapResolve ==
    /\ reap.pc = "resolve"
    /\ \/ /\ Resolved = "completed"
          /\ \/ status' = "success" /\ lastRun' = Stamp /\ retries' = 0 /\ NoFault
             \/ Fault("writeFail") /\ UNCHANGED <<status, lastRun, retries>>
          /\ reap' = PassDone
       \/ /\ Resolved = "review"
          /\ \/ status' = "paused" /\ lastRun' = Stamp /\ NoFault
             \/ Fault("writeFail") /\ UNCHANGED <<status, lastRun>>
          /\ UNCHANGED retries
          /\ reap' = PassDone
       \/ /\ Resolved \notin {"completed", "review"}
          /\ reap' = [reap EXCEPT !.pc = "cancel"]
          /\ NoFault
          /\ UNCHANGED <<status, lastRun, retries>>
    /\ UNCHANGED <<now, enabled, nextRun, queue, store, req, sched, work, failures>>

\* A cleanup that throws ends the pass, unless the claim is old enough to be
\* released all the same.
CleanupFails ==
    LET age == IF reap.lastRun = NoStamp THEN 0 ELSE reap.at - reap.lastRun.at IN
    /\ Fault("cleanFail")
    /\ reap' = IF age > ForceAfter THEN [reap EXCEPT !.pc = "release"] ELSE PassDone

\* cancelOrphanedWorkflowJobs.
ReapCancel ==
    /\ reap.pc = "cancel"
    /\ \/ /\ job' = [r \in Runs |->
                        IF job[r] = "queued" /\ created[r] < reap.at - Threshold
                        THEN "done" ELSE job[r]]
          /\ reap' = [reap EXCEPT !.pc = "fail"] /\ NoFault
       \/ CleanupFails /\ UNCHANGED job
    /\ UNCHANGED <<now, record, created, tries, store, req, sched, work, failures>>

\* failStuckIngestFile: every file of the schedule that is not terminal.
ReapFail ==
    /\ reap.pc = "fail"
    /\ \/ /\ file' = [r \in Runs |-> IF file[r] \in {"open", "review"}
                                     THEN "failed" ELSE file[r]]
          /\ reap' = [reap EXCEPT !.pc = "release"] /\ NoFault
       \/ CleanupFails /\ UNCHANGED file
    /\ UNCHANGED <<now, record, queue, files, req, sched, work, failures>>

\* resetStuckImport ends with an unconditional write.
ReapRelease ==
    /\ reap.pc = "release"
    /\ \/ status' = "failed" /\ NoFault
       \/ Fault("writeFail") /\ UNCHANGED status
    /\ reap' = PassDone
    /\ UNCHANGED <<now, lastRun, retries, enabled, nextRun, queue, store, req,
                   sched, work, failures>>

-----------------------------------------------------------------------------
\* An hour passes.  Requests, the scheduler and the reaper do not last hours;
\* a run does not last the threshold, unless the instance says it may.
Tick ==
    /\ now < MaxTime
    /\ \A c \in Callers: req[c].pc \in {"idle", "done"}
    /\ sched.pc = "idle" /\ reap.pc = "idle"
    /\ "longRun" \in Faults
          \/ \A r \in Runs: Live(r) => now + 1 - created[r] < Threshold
    /\ now' = now + 1 /\ NoFault
    /\ UNCHANGED <<record, queue, store, req, sched, work, reap, failures>>

CallStep(c) ==
    HookClaim(c) \/ HookAssert(c) \/ UserClaim(c) \/ TriggerQueue(c)
    \/ RevertTriggerClaim(c)
SchedStep == DisableInvalid \/ SchedClaim \/ SchedQueue \/ HandleImportError
WorkStep ==
    FetchThrows \/ FetchNothingNew \/ FetchCreatesFile \/ ProcessSheets \/ Judge
    \/ Conclude
ReapStep == ReapCheckActive \/ ReapResolve \/ ReapCancel \/ ReapFail \/ ReapRelease

Next ==
    \/ \E c \in Callers: Read(c) \/ CallStep(c) \/ WebCrash(c)
    \/ Edit
    \/ SchedRead \/ SchedStep
    \/ \E r \in Runs: StartRun(r) \/ ReviewAnswered(r)
    \/ WorkStep
    \/ ReapList \/ ReapStep
    \/ Tick

Spec == Init /\ [][Next]_vars

\* The job runners poll their queues and the clock goes on; nobody is obliged
\* to call, to edit, or to answer a review.
FairSpec ==
    /\ Spec
    /\ \A c \in Callers: WF_vars(CallStep(c))
    /\ WF_vars(SchedStep)
    /\ \A r \in Runs: WF_vars(StartRun(r))
    /\ WF_vars(WorkStep)
    /\ WF_vars(ReapList) /\ WF_vars(ReapStep)
    /\ WF_vars(Tick)

-----------------------------------------------------------------------------
TypeOK ==
    /\ now \in 0..MaxTime /\ status \in Statuses /\ lastRun \in Stamps
    /\ retries \in Nat /\ enabled \in BOOLEAN /\ nextRun \in 0..(MaxTime + Period)
    /\ job \in [Runs -> {"none", "queued", "processing", "done"}]
    /\ created \in [Runs -> 0..MaxTime] /\ tries \in [Runs -> 0..Attempts]
    /\ file \in [Runs -> {"none", "open", "review", "completed", "failed"}]
    /\ files \in Seq(Runs)
    /\ req \in [Callers -> [pc: {"idle", "read", "held", "claimed", "revert", "done"},
                            status: Statuses, lastRun: Stamps, retries: Nat]]
    /\ sched \in [pc: {"idle", "claim", "queue", "error"}, at: Stamps]
    /\ work \in [pc: {"idle", "fetch", "sheets", "judge", "conclude"},
                 run: 0..MaxRuns, outcome: {"none", "success", "paused", "failed"}]
    /\ reap \in [pc: {"idle", "active", "resolve", "cancel", "fail", "release"},
                 at: -1..MaxTime, lastRun: Stamps]
    /\ failures \in Nat /\ budget \in 0..MaxFaults

\* A workflow that is queued or running holds the claim: while it is there the
\* record says "running", so that no trigger starts a second run beside it.
LiveRunHeld == \A r \in Runs: Live(r) => status = "running"

\* The claim is made before the workflow is queued and released after it ends,
\* so at most one workflow of a schedule is ever alive, retries included.
OneLiveRun == \A r, s \in Runs: Live(r) /\ Live(s) => r = s

LastQueued(r) == job[r] # "none" /\ (r = MaxRuns \/ job[r + 1] = "none")
\* The reaper never writes a run off as failed, nor touches its files, when the
\* import the run made is complete or awaits its owner.
FinishedRunsSpared ==
    reap.pc \in {"cancel", "fail", "release"} =>
        \A r \in Runs: LastQueued(r) /\ CreatedSince(r, lastRun)
                         => file[r] \notin {"completed", "review"}

\* Whatever write is lost, queue call fails or process dies, a claim does not
\* last: the record leaves "running", by the run's own write or the reaper's.
ClaimsAreReleased == status = "running" ~> status # "running"

\* The worker turns a schedule off only after more failed runs than it is
\* allowed retries, however calls that give their claim back restore counters.
DisabledOnlyAfterFailures ==
    [][(work.pc = "conclude" /\ work'.pc = "idle" /\ enabled /\ ~enabled')
         => failures' > MaxRetries]_vars

=============================================================================
