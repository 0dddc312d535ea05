---------------------------- MODULE EventImport ----------------------------
(***************************************************************************)
(* The last task of the ingest pipeline: create-events-batch.  Workers run *)
(* deliveries of ingest jobs.  A delivery takes the per-dataset lease,     *)
(* cleans up whatever an earlier delivery of the same job left behind,     *)
(* reserves the owner's TOTAL_EVENTS quota, streams the file's rows into   *)
(* the events table (new events are inserted, external duplicates are      *)
(* overwritten in place after their original went to a sidecar file) and   *)
(* commits by writing the job's final stage.  Whatever throws is rolled    *)
(* back in the handler's catch, and again by onFail.                       *)
(*                                                                         *)
(* Data is abstracted to identity: an event is identified by its uniqueId  *)
(* (a key) and its row id, and its content by the job that last wrote it.  *)
(***************************************************************************)
EXTENDS Integers, Sequences, FiniteSets

CONSTANTS
    Jobs,         \* ingest jobs (one sheet of one file each)
    Workers,      \* concurrent task runs of the job queue
    Datasets,
    Keys,         \* uniqueIds; a uniqueId encodes its dataset
    DatasetOf,    \* [Jobs -> Datasets]
    Rows,         \* [Jobs -> SUBSET Keys]: usable, internally unique rows
    UpdateJobs,   \* jobs whose duplicateStrategy is "update"; the rest "skip"
    SeedKeys,     \* uniqueIds with an event before any of the jobs was created
    Limit,        \* the owner's TOTAL_EVENTS limit
    ImportLimit,  \* the owner's EVENTS_PER_IMPORT limit
    MaxTries,     \* bound: deliveries of one job
    Faults,       \* which kinds of fault the environment produces
    Seed, NoJob,  \* owner of a seed event; owner of an absent event
    Free, Nobody  \* lease held by no worker; a worker that runs no job

FaultKinds == {
    "throw",           \* an error escapes the per-row handling
    "leaseFail",       \* the lock query fails, or the lock is held elsewhere
    "guardFail",       \* reading the stage for the redelivery guard fails
    "rowError",        \* an error the per-row handling turns into a row error
    "crash",           \* the worker process dies
    "restoreFail",     \* restoring one snapshot fails
    "cleanupFail",     \* the cleanup itself throws
    "refundFail",      \* giving a reservation back fails (logged only)
    "discardFail",     \* the sidecar of a finished import cannot be removed
    "markFail",        \* a best-effort write of the stage fails
    "redeliver",       \* a completed job is delivered again
    "redeliverReview", \* a job that awaits review is delivered again
    "double"}          \* a job is delivered while a delivery of it runs

ASSUME EventImportAssumption ==
    /\ IsFiniteSet(Keys)
    /\ DatasetOf \in [Jobs -> Datasets]
    /\ Rows \in [Jobs -> SUBSET Keys]
    /\ \A i, j \in Jobs : Rows[i] \cap Rows[j] # {} => DatasetOf[i] = DatasetOf[j]
    /\ UpdateJobs \subseteq Jobs
    /\ SeedKeys \subseteq Keys
    /\ Limit \in Nat /\ ImportLimit \in Nat /\ MaxTries \in Nat
    /\ Faults \subseteq FaultKinds
    /\ Seed \notin Jobs /\ NoJob \notin Jobs /\ Seed # NoJob
    /\ Free \notin Workers /\ Nobody \notin Jobs

VARIABLES
    event,    \* the events table: [Keys -> Event], absent when owner = NoJob
    sidecar,  \* the per-job snapshot file, oldest line first
    stage,    \* the job's stage
    plan,     \* the job's duplicates as analyze-duplicates stored them
    usage,    \* the owner's TOTAL_EVENTS counter
    lease,    \* the per-dataset advisory lock
    tries,    \* deliveries made of a job
    pc,       \* where a worker's delivery is
    task,     \* the job it delivers
    loc       \* the handler's local variables

vars == <<event, sidecar, stage, plan, usage, lease, tries, pc, task, loc>>

Stages == {"analyze-duplicates", "geocode-batch", "create-events",
           "needs-review", "completed", "failed"}

PCs == {"idle", "acquire", "guard", "begin", "restore", "delete", "reserve",
        "stream", "complete", "finalize", "discard", "refund", "release",
        "returned", "threw", "markFailed"}

Event == [owner : Jobs \cup {Seed, NoJob}, \* last writer: events.ingestJob
          born  : Jobs \cup {Seed, NoJob}, \* inserter: stands for created_at
          id    : Nat]                     \* row id, 0 before the first insert

\* A snapshot line holds the identity of the event and its original content;
\* a torn line is what a crash in the middle of an append leaves.
Line == [key : Keys, id : Nat, owner : Jobs \cup {Seed, NoJob}, torn : BOOLEAN]

Locals == [phase    : {"start", "catch", "onFail"}, \* who runs the cleanup
           cursor   : Nat \ {0},    \* next sidecar line to restore
           failures : BOOLEAN,      \* a line could not be restored
           todo     : SUBSET Keys,  \* rows not yet written
           conflict : SUBSET Keys,  \* rows that lost ON CONFLICT DO NOTHING
           captured : SUBSET Keys,  \* EventSnapshotStore.capturedIds
           reserved : Nat,          \* reservedEventQuota
           tracked  : Int,          \* trackedEventQuota, -1 until reconciled
           updated  : Nat,          \* totalEventsUpdated
           errs     : BOOLEAN,      \* some row ended in an error
           ok       : BOOLEAN]      \* the handler returns instead of throwing

\* Mutant: the sidecar's lines counted from zero.
NewLocalsFromZero ==
    [phase |-> "start", cursor |-> 0, failures |-> FALSE, todo |-> {},
     conflict |-> {}, captured |-> {}, reserved |-> 0, tracked |-> -1,
     updated |-> 0, errs |-> FALSE, ok |-> FALSE]

NewLocals == [phase |-> "start", cursor |-> 1, failures |-> FALSE, todo |-> {},
              conflict |-> {}, captured |-> {}, reserved |-> 0, tracked |-> -1,
              updated |-> 0, errs |-> FALSE, ok |-> FALSE]

Init ==
    /\ event = [k \in Keys |->
                  IF k \in SeedKeys THEN [owner |-> Seed, born |-> Seed, id |-> 1]
                  ELSE [owner |-> NoJob, born |-> NoJob, id |-> 0]]
    /\ sidecar = [j \in Jobs |-> <<>>]
    /\ stage = [j \in Jobs |-> "analyze-duplicates"]
    /\ plan = [j \in Jobs |-> [insert |-> {}, target |-> [k \in Keys |-> 0]]]
    /\ usage = Cardinality(SeedKeys)
    /\ lease = [d \in Datasets |-> Free]
    /\ tries = [j \in Jobs |-> 0]
    /\ pc = [w \in Workers |-> "idle"]
    /\ task = [w \in Workers |-> Nobody]
    /\ loc = [w \in Workers |-> NewLocals]

---------------------------------------------------------------------------
(* Helper state formulae *)

Present(k) == event[k].owner # NoJob
Running(j) == \E w \in Workers : pc[w] # "idle" /\ task[w] = j
DatasetAt(w) == DatasetOf[task[w]]
\* Mutant: imports into one dataset do not exclude one another.
LeaseAlwaysFree(d) == d \in Datasets

LeaseFree(d) == lease[d] = Free
Updates(j) == {k \in Keys : plan[j].target[k] # 0}
Committed(o) == o \in Jobs => stage[o] \in {"completed", "needs-review"}

\* cleanupPriorAttempt deletes what carries ingestJob = j and was created no
\* earlier than the job; every event inserted here is younger than every job.
Fresh(j) == {k \in Keys : event[k].owner = j /\ event[k].born # Seed}

\* The steps of the handler that run under the dataset lease.
Holds(w) ==
    pc[w] \in {"guard", "begin", "restore", "delete", "reserve", "stream",
               "complete", "finalize", "discard", "refund", "release"}

Goto(w, l) == pc' = [pc EXCEPT ![w] = l]

SetLocals(w, locals) == loc' = [loc EXCEPT ![w] = locals]

\* Mutant: the rollback is left to onFail.
EnterCatchNoRollback(w) ==
    /\ Goto(w, "refund")
    /\ SetLocals(w, [loc[w] EXCEPT !.phase = "catch"])

\* An error inside the handler's try: the catch starts with the cleanup.
EnterCatch(w) ==
    /\ Goto(w, "restore")
    /\ SetLocals(w, [loc[w] EXCEPT !.phase = "catch", !.cursor = 1, !.failures = FALSE])

Finish(w) ==
    /\ Goto(w, "idle")
    /\ task' = [task EXCEPT ![w] = Nobody]
    /\ SetLocals(w, NewLocals)

---------------------------------------------------------------------------
(* Analysis and delivery *)

\* analyze-duplicates reads the events table with no lease and stores which
\* rows are new and which event every external duplicate stands for.  The
\* stages between it and create-events do not touch this module's state.
AnalyzeDuplicates(j) ==
    LET existing == {k \in Rows[j] : Present(k)}
    IN  /\ stage[j] = "analyze-duplicates"
        /\ plan' = [plan EXCEPT ![j] =
              [insert |-> Rows[j] \ existing,
               target |-> [k \in Keys |-> IF j \in UpdateJobs /\ k \in existing
                                          THEN event[k].id ELSE 0]]]
        /\ stage' = [stage EXCEPT ![j] = "geocode-batch"]
        /\ UNCHANGED <<event, sidecar, usage, lease, tries, pc, task, loc>>

\* The queue starts the task: the first time, after a failed or crashed
\* delivery, or (a fault) although it has nothing left to do.
Deliver(w, j) ==
    /\ pc[w] = "idle" /\ tries[j] < MaxTries
    /\ \/ ~Running(j) /\ stage[j] \in {"geocode-batch", "create-events"}
       \/ ~Running(j) /\ "redeliver" \in Faults /\ stage[j] = "completed"
       \/ ~Running(j) /\ "redeliverReview" \in Faults /\ stage[j] = "needs-review"
       \/ Running(j) /\ "double" \in Faults
    /\ tries' = [tries EXCEPT ![j] = @ + 1]
    /\ task' = [task EXCEPT ![w] = j]
    /\ SetLocals(w, NewLocals)
    /\ Goto(w, "acquire")
    /\ UNCHANGED <<event, sidecar, stage, plan, usage, lease>>

\* pg_try_advisory_lock in a polling loop; onFail cleans up under a lease too.
AcquireLease(w) ==
    /\ pc[w] = "acquire" /\ LeaseFree(DatasetAt(w))
    /\ lease' = [lease EXCEPT ![DatasetAt(w)] = w]
    /\ Goto(w, IF loc[w].phase = "onFail" THEN "restore" ELSE "guard")
    /\ UNCHANGED <<event, sidecar, stage, plan, usage, tries, task, loc>>

\* Mutant: a delivery that waited in vain goes on without the lease.
LeaseTimeoutProceeds(w) ==
    /\ pc[w] = "acquire" /\ (lease[DatasetAt(w)] # Free \/ "leaseFail" \in Faults)
    /\ Goto(w, IF loc[w].phase = "onFail" THEN "restore" ELSE "guard")
    /\ UNCHANGED <<event, sidecar, stage, plan, usage, lease, tries, task, loc>>

\* maxWaitMs is over, or the lock query failed.  Nothing was changed, so the
\* catch has nothing to undo; onFail swallows the error and marks the stage.
LeaseTimeout(w) ==
    /\ pc[w] = "acquire" /\ (lease[DatasetAt(w)] # Free \/ "leaseFail" \in Faults)
    /\ Goto(w, IF loc[w].phase = "onFail" THEN "markFailed" ELSE "threw")
    /\ UNCHANGED <<event, sidecar, stage, plan, usage, lease, tries, task, loc>>

---------------------------------------------------------------------------
(* The handler, under the lease *)

\* Mutant: no check for a completed job.
GuardMissing(w) ==
    /\ pc[w] = "guard" /\ Goto(w, "begin")
    /\ UNCHANGED <<event, sidecar, stage, plan, usage, lease, tries, task, loc>>

\* completedRedeliveryOutput: a completed job is not processed again.
Guard(w) ==
    /\ pc[w] = "guard"
    /\ IF stage[task[w]] = "completed"
       THEN Goto(w, "release") /\ SetLocals(w, [loc[w] EXCEPT !.ok = TRUE])
       ELSE Goto(w, "begin") /\ UNCHANGED loc
    /\ UNCHANGED <<event, sidecar, stage, plan, usage, lease, tries, task>>

\* setJobStage(CREATE_EVENTS); leaving COMPLETED is refused by the collection.
Begin(w) ==
    /\ pc[w] = "begin"
    /\ IF stage[task[w]] = "completed"
       THEN EnterCatch(w) /\ UNCHANGED stage
       ELSE /\ stage' = [stage EXCEPT ![task[w]] = "create-events"]
            /\ Goto(w, "restore") /\ UNCHANGED loc
    /\ UNCHANGED <<event, sidecar, plan, usage, lease, tries, task>>

\* Where cleanupPriorAttempt returns to.
AfterCleanup(w) ==
    CASE loc[w].phase = "start"  -> "reserve"
      [] loc[w].phase = "catch"  -> "refund"
      [] loc[w].phase = "onFail" -> "release"

\* One line of restoreAndClear: the event is reverted under its row lock, and
\* only while it exists and still belongs to this job.
RestoreLine(w) ==
    LET j == task[w]
        line == sidecar[j][loc[w].cursor]
        mine == /\ ~line.torn
                /\ event[line.key].id = line.id /\ event[line.key].owner = j
    IN  /\ pc[w] = "restore" /\ loc[w].cursor <= Len(sidecar[j])
        /\ \/ /\ mine
              /\ event' = [event EXCEPT ![line.key].owner = line.owner]
              /\ SetLocals(w, [loc[w] EXCEPT !.cursor = @ + 1])
           \/ /\ ~mine /\ ~line.torn
              /\ SetLocals(w, [loc[w] EXCEPT !.cursor = @ + 1])
              /\ UNCHANGED event
           \/ /\ line.torn \/ "restoreFail" \in Faults
              /\ SetLocals(w, [loc[w] EXCEPT !.cursor = @ + 1, !.failures = TRUE])
              /\ UNCHANGED event
        /\ UNCHANGED <<sidecar, stage, plan, usage, lease, tries, pc, task>>

\* Mutant: the sidecar is removed although a line could not be restored.
RestoreDoneForgets(w) ==
    /\ pc[w] = "restore" /\ loc[w].cursor > Len(sidecar[task[w]])
    /\ Goto(w, IF loc[w].failures THEN AfterCleanup(w) ELSE "delete")
    /\ sidecar' = [sidecar EXCEPT ![task[w]] = <<>>]
    /\ UNCHANGED <<event, stage, plan, usage, lease, tries, task, loc>>

\* Mutant: the inserts are deleted although a line could not be restored.
RestoreDoneDeletes(w) ==
    /\ pc[w] = "restore" /\ loc[w].cursor > Len(sidecar[task[w]])
    /\ Goto(w, "delete")
    /\ IF loc[w].failures THEN UNCHANGED sidecar
       ELSE sidecar' = [sidecar EXCEPT ![task[w]] = <<>>]
    /\ UNCHANGED <<event, stage, plan, usage, lease, tries, task, loc>>

\* After the last line the sidecar is removed, unless a line failed: then it
\* stays and the delete of fresh inserts is skipped.
RestoreDone(w) ==
    /\ pc[w] = "restore" /\ loc[w].cursor > Len(sidecar[task[w]])
    /\ IF loc[w].failures
       THEN Goto(w, AfterCleanup(w)) /\ UNCHANGED sidecar
       ELSE Goto(w, "delete") /\ sidecar' = [sidecar EXCEPT ![task[w]] = <<>>]
    /\ UNCHANGED <<event, stage, plan, usage, lease, tries, task, loc>>

\* The chunked delete of the inserts of an earlier delivery of this job.
DeleteFresh(w) ==
    /\ pc[w] = "delete"
    /\ event' = [k \in Keys |-> IF k \in Fresh(task[w])
                                THEN [event[k] EXCEPT !.owner = NoJob, !.born = NoJob]
                                ELSE event[k]]
    /\ Goto(w, AfterCleanup(w))
    /\ UNCHANGED <<sidecar, stage, plan, usage, lease, tries, task, loc>>

\* The cleanup throws: at the start of a delivery that fails it; in the catch
\* and in onFail it is logged.
CleanupThrows(w) ==
    /\ pc[w] \in {"restore", "delete"} /\ "cleanupFail" \in Faults
    /\ IF loc[w].phase = "start"
       THEN EnterCatch(w)
       ELSE Goto(w, AfterCleanup(w)) /\ UNCHANGED loc
    /\ UNCHANGED <<event, sidecar, stage, plan, usage, lease, tries, task>>

\* checkEventQuotaBeforeProcessing: the per-import limit counts every row that
\* will be written, the reservation only the new ones.
Reserve(w) ==
    LET j == task[w]
        new == Cardinality(plan[j].insert)
        rows == plan[j].insert \cup Updates(j)
    IN  /\ pc[w] = "reserve"
        /\ IF Cardinality(rows) > ImportLimit \/ (new > 0 /\ usage + new > Limit)
           THEN EnterCatch(w) /\ UNCHANGED usage
           ELSE /\ usage' = usage + new
                /\ SetLocals(w, [loc[w] EXCEPT !.reserved = new, !.todo = rows])
                /\ Goto(w, "stream")
        /\ UNCHANGED <<event, sidecar, stage, plan, lease, tries, task>>

\* EventSnapshotStore.capture: the first touch in this run appends the original.
Capture(w, k) ==
    /\ sidecar' = IF k \in loc[w].captured THEN sidecar
                  ELSE [sidecar EXCEPT ![task[w]] =
                          Append(@, [key |-> k, id |-> event[k].id,
                                     owner |-> event[k].owner, torn |-> FALSE])]

\* tryUpdateExistingEvent for row k, taken from the given set of rows: capture
\* and overwrite in one transaction.  The append is not part of that
\* transaction: a row that fails after it leaves the line in the sidecar.
OverwriteEvent(w, k, rest) ==
    \/ /\ Capture(w, k)
       /\ event' = [event EXCEPT ![k].owner = task[w]]
       /\ SetLocals(w, [rest EXCEPT !.captured = @ \cup {k}, !.updated = @ + 1])
    \/ /\ "rowError" \in Faults
       /\ Capture(w, k)
       /\ SetLocals(w, [rest EXCEPT !.captured = @ \cup {k}, !.errs = TRUE])
       /\ UNCHANGED event

\* An external duplicate under "update".  The write is refused, as a row error,
\* when the event analyze-duplicates saw is no longer there.
UpdateRow(w) ==
    LET j == task[w] IN
    /\ pc[w] = "stream"
    /\ \E k \in loc[w].todo \cap Updates(j) :
          LET rest == [loc[w] EXCEPT !.todo = @ \ {k}]
          IN  \/ /\ Present(k) /\ event[k].id = plan[j].target[k]
                 /\ OverwriteEvent(w, k, rest)
              \/ /\ ~(Present(k) /\ event[k].id = plan[j].target[k])
                    \/ "rowError" \in Faults
                 /\ SetLocals(w, [rest EXCEPT !.errs = TRUE])
                 /\ UNCHANGED <<event, sidecar>>
    /\ UNCHANGED <<stage, plan, usage, lease, tries, pc, task>>

\* One sub-batch of inserts: one transaction, ON CONFLICT DO NOTHING.  Rows
\* that lost the conflict are dropped under "skip", reconciled under "update".
InsertBatch(w) ==
    LET j == task[w] IN
    /\ pc[w] = "stream"
    /\ \E batch \in SUBSET (loc[w].todo \ Updates(j)) :
          LET lost == {k \in batch : Present(k)} IN
          /\ batch # {}
          /\ \/ /\ event' = [k \in Keys |-> IF k \in batch \ lost
                                THEN [owner |-> j, born |-> j, id |-> event[k].id + 1]
                                ELSE event[k]]
                /\ SetLocals(w, [loc[w] EXCEPT
                      !.todo = @ \ batch,
                      !.conflict = IF j \in UpdateJobs THEN @ \cup lost ELSE @])
             \/ /\ "rowError" \in Faults
                /\ SetLocals(w, [loc[w] EXCEPT !.todo = @ \ batch, !.errs = TRUE])
                /\ UNCHANGED event
    /\ UNCHANGED <<sidecar, stage, plan, usage, lease, tries, pc, task>>

\* reconcileInsertConflicts: a lost row becomes an update of the event that
\* won, if it still exists.
ReconcileConflict(w) ==
    /\ pc[w] = "stream"
    /\ \E k \in loc[w].conflict :
          LET rest == [loc[w] EXCEPT !.conflict = @ \ {k}]
          IN  \/ Present(k) /\ OverwriteEvent(w, k, rest)
              \/ /\ ~Present(k)
                 /\ SetLocals(w, rest)
                 /\ UNCHANGED <<event, sidecar>>
    /\ UNCHANGED <<stage, plan, usage, lease, tries, pc, task>>

StreamDone(w) ==
    /\ pc[w] = "stream" /\ loc[w].todo = {} /\ loc[w].conflict = {}
    /\ Goto(w, "complete")
    /\ UNCHANGED <<event, sidecar, stage, plan, usage, lease, tries, task, loc>>

\* What the job created: the events it owns, less the ones it updated.
NewEvents(w) ==
    LET written == Cardinality({k \in Keys : event[k].owner = task[w]})
    IN  IF written > loc[w].updated THEN written - loc[w].updated ELSE 0

\* reconcileReservedEventQuota: a surplus is given back; a shortfall is charged
\* by a conditional increment that changes nothing when it would cross the limit.
Reconciled(reserved, actual) ==
    IF actual > reserved
    THEN IF usage + (actual - reserved) <= Limit THEN usage + (actual - reserved)
         ELSE usage
    ELSE IF usage > reserved - actual THEN usage - (reserved - actual) ELSE 0

\* markJobCompleted: count, store the results, reconcile the reservation.
MarkJobCompleted(w) ==
    /\ pc[w] = "complete"
    /\ usage' = Reconciled(loc[w].reserved, NewEvents(w))
    /\ SetLocals(w, [loc[w] EXCEPT !.tracked = NewEvents(w)])
    /\ Goto(w, "finalize")
    /\ UNCHANGED <<event, sidecar, stage, plan, lease, tries, task>>

\* reviewHighRowErrors, else finalizeCompletedStage: the commit of the import.
Finalize(w) ==
    /\ pc[w] = "finalize"
    /\ \/ loc[w].errs /\ stage' = [stage EXCEPT ![task[w]] = "needs-review"]
       \/ stage' = [stage EXCEPT ![task[w]] = "completed"]
    /\ Goto(w, "discard")
    /\ UNCHANGED <<event, sidecar, plan, usage, lease, tries, task, loc>>

\* The import is final: its snapshots go.  Nothing after the commit throws.
Discard(w) ==
    /\ pc[w] = "discard"
    /\ \/ sidecar' = [sidecar EXCEPT ![task[w]] = <<>>]
       \/ "discardFail" \in Faults /\ UNCHANGED sidecar
    /\ Goto(w, "release")
    /\ SetLocals(w, [loc[w] EXCEPT !.ok = TRUE])
    /\ UNCHANGED <<event, stage, plan, usage, lease, tries, task>>

---------------------------------------------------------------------------
(* Failure paths *)

\* A database, file or quota-service error that no row handler catches.
Throw(w) ==
    /\ \/ /\ "throw" \in Faults
          /\ pc[w] \in {"begin", "reserve", "stream", "complete", "finalize"}
       \/ "guardFail" \in Faults /\ pc[w] = "guard"
    /\ EnterCatch(w)
    /\ UNCHANGED <<event, sidecar, stage, plan, usage, lease, tries, task>>

\* Mutant: the reservation is given back again after it was reconciled.
RefundReservation(w) ==
    LET due == loc[w].reserved
    IN  /\ pc[w] = "refund"
        /\ usage' = IF usage > due THEN usage - due ELSE 0
        /\ Goto(w, "release")
        /\ UNCHANGED <<event, sidecar, stage, plan, lease, tries, task, loc>>

\* releaseEventQuotaOnFailure: the reconciled amount if there is one.
Refund(w) ==
    LET due == IF loc[w].tracked >= 0 THEN loc[w].tracked ELSE loc[w].reserved
    IN  /\ pc[w] = "refund"
        /\ \/ usage' = IF usage > due THEN usage - due ELSE 0
           \/ "refundFail" \in Faults /\ UNCHANGED usage
        /\ Goto(w, "release")
        /\ UNCHANGED <<event, sidecar, stage, plan, lease, tries, task, loc>>

\* Mutant: the lease is given back on success only.
ReleaseLeaseOnSuccess(w) ==
    /\ pc[w] = "release"
    /\ lease' = IF loc[w].ok THEN [lease EXCEPT ![DatasetAt(w)] = Free] ELSE lease
    /\ Goto(w, IF loc[w].ok THEN "returned"
               ELSE IF loc[w].phase = "onFail" THEN "markFailed" ELSE "threw")
    /\ UNCHANGED <<event, sidecar, stage, plan, usage, tries, task, loc>>

\* The finally block, and the one around onFail's cleanup.
ReleaseLease(w) ==
    /\ pc[w] = "release"
    /\ lease' = [lease EXCEPT ![DatasetAt(w)] = Free]
    /\ Goto(w, IF loc[w].ok THEN "returned"
               ELSE IF loc[w].phase = "onFail" THEN "markFailed" ELSE "threw")
    /\ UNCHANGED <<event, sidecar, stage, plan, usage, tries, task, loc>>

\* The task's onSuccess callback re-asserts COMPLETED unless a review is due.
OnSuccess(w) ==
    /\ pc[w] = "returned"
    /\ \/ /\ stage[task[w]] # "needs-review"
          /\ stage' = [stage EXCEPT ![task[w]] = "completed"]
       \/ /\ stage[task[w]] = "needs-review" \/ "markFail" \in Faults
          /\ UNCHANGED stage
    /\ Finish(w)
    /\ UNCHANGED <<event, sidecar, plan, usage, lease, tries>>

\* The task has attempts left: the workflow is queued again.
TaskRetry(w) ==
    /\ pc[w] = "threw" /\ tries[task[w]] < MaxTries
    /\ Finish(w)
    /\ UNCHANGED <<event, sidecar, stage, plan, usage, lease, tries>>

\* Mutant: the failure is logged, the stage is not written.
WriteFailedLogged(w) ==
    Finish(w) /\ UNCHANGED <<event, sidecar, stage, plan, usage, lease, tries>>

\* A system write of FAILED; the collection refuses it on a completed job and
\* both callers swallow the error.
WriteFailed(w) ==
    /\ \/ stage' = [stage EXCEPT ![task[w]] = IF @ = "completed" THEN @ ELSE "failed"]
       \/ "markFail" \in Faults /\ UNCHANGED stage
    /\ Finish(w)
    /\ UNCHANGED <<event, sidecar, plan, usage, lease, tries>>

\* The sheet pipeline catches the task's error itself: no retry, no onFail.
MarkSheetFailed(w) == pc[w] = "threw" /\ WriteFailed(w)

\* The resume workflow lets the last error reach the queue, which calls onFail:
\* another cleanup under a lease of its own, then FAILED.
OnFail(w) ==
    /\ pc[w] = "threw"
    /\ Goto(w, "acquire")
    /\ SetLocals(w, [NewLocals EXCEPT !.phase = "onFail"])
    /\ UNCHANGED <<event, sidecar, stage, plan, usage, lease, tries, task>>

OnFailMark(w) == pc[w] = "markFailed" /\ WriteFailed(w)

\* The process dies.  Its database session goes and with it the lease; the
\* sidecar and the reservation stay, and an append may be cut short.
Crash(w) ==
    /\ "crash" \in Faults /\ pc[w] # "idle"
    /\ lease' = [d \in Datasets |-> IF lease[d] = w THEN Free ELSE lease[d]]
    /\ \/ UNCHANGED sidecar
       \/ /\ pc[w] = "stream"
          /\ \E k \in (loc[w].todo \cap Updates(task[w])) \cup loc[w].conflict :
               sidecar' = [sidecar EXCEPT ![task[w]] =
                             Append(@, [key |-> k, id |-> event[k].id,
                                        owner |-> event[k].owner, torn |-> TRUE])]
    /\ Finish(w)
    /\ UNCHANGED <<event, stage, plan, usage, tries>>

---------------------------------------------------------------------------
(* The user *)

\* The retry route: compare-and-set of FAILED, then the pipeline from the top.
RetryRoute(j) ==
    /\ stage[j] = "failed" /\ tries[j] < MaxTries
    /\ stage' = [stage EXCEPT ![j] = "analyze-duplicates"]
    /\ UNCHANGED <<event, sidecar, plan, usage, lease, tries, pc, task, loc>>

\* The admin's reset to create-events keeps the stored analysis.
ResetRoute(j) ==
    /\ stage[j] = "failed" /\ tries[j] < MaxTries
    /\ stage' = [stage EXCEPT ![j] = "create-events"]
    /\ UNCHANGED <<event, sidecar, plan, usage, lease, tries, pc, task, loc>>

\* Approving a high row-error rate only completes the job.
ApproveRowErrors(j) ==
    /\ stage[j] = "needs-review"
    /\ stage' = [stage EXCEPT ![j] = "completed"]
    /\ UNCHANGED <<event, sidecar, plan, usage, lease, tries, pc, task, loc>>

---------------------------------------------------------------------------

Step(w) ==
    \/ AcquireLease(w) \/ LeaseTimeout(w) \/ Guard(w) \/ Begin(w)
    \/ RestoreLine(w) \/ RestoreDone(w) \/ DeleteFresh(w) \/ CleanupThrows(w)
    \/ Reserve(w) \/ UpdateRow(w) \/ InsertBatch(w) \/ ReconcileConflict(w)
    \/ StreamDone(w) \/ MarkJobCompleted(w) \/ Finalize(w) \/ Discard(w)
    \/ Throw(w) \/ Refund(w) \/ ReleaseLease(w) \/ OnSuccess(w)
    \/ TaskRetry(w) \/ MarkSheetFailed(w) \/ OnFail(w) \/ OnFailMark(w)

Next ==
    \/ \E j \in Jobs : \/ AnalyzeDuplicates(j) \/ RetryRoute(j)
                       \/ ResetRoute(j) \/ ApproveRowErrors(j)
    \/ \E w \in Workers : \/ \E j \in Jobs : Deliver(w, j)
                          \/ Step(w) \/ Crash(w)

Spec == Init /\ [][Next]_vars

\* A worker that runs keeps running: the event loop schedules every pending
\* continuation and the lease poll ends after maxWaitMs.  The queue is polled
\* by a cron that starts whatever waits.
FairSpec ==
    /\ Spec
    /\ \A w \in Workers : WF_vars(Step(w))
    /\ \A j \in Jobs : WF_vars(\E w \in Workers : Deliver(w, j))

---------------------------------------------------------------------------
(* Properties *)

\* Every variable stays within its type.
TypeOK ==
    /\ event \in [Keys -> Event]
    /\ sidecar \in [Jobs -> Seq(Line)]
    /\ stage \in [Jobs -> Stages]
    /\ plan \in [Jobs -> [insert : SUBSET Keys, target : [Keys -> Nat]]]
    /\ usage \in Nat
    /\ lease \in [Datasets -> Workers \cup {Free}]
    /\ tries \in [Jobs -> Nat]
    /\ pc \in [Workers -> PCs]
    /\ task \in [Workers -> Jobs \cup {Nobody}]
    /\ loc \in [Workers -> Locals]

\* Imports into one dataset are serialised over their whole mutate-and-roll-
\* back phase, whatever crashes, times out or is delivered twice.
Serialised ==
    \A v, w \in Workers :
        v # w /\ Holds(v) /\ Holds(w) => DatasetAt(v) # DatasetAt(w)

\* A step may replace the content of a committed event but never removes the
\* event: no cleanup of one delivery deletes what an import has committed.
CommittedEventsKept ==
    [][\A k \in Keys : Present(k) /\ Committed(event[k].owner) => Present(k)']_vars

\* A cleanup deletes nothing but inserts of its own job: an event of another
\* import that the job overwrote is reverted or left, never deleted.
CleanupDeletesOwnInserts ==
    [][\A k \in Keys : Present(k) /\ ~Present(k)' => event[k].born = event[k].owner]_vars

\* A failed job that nothing runs for has left no event of its own, no event
\* it overwrote and no snapshot behind.
FailedLeavesNothing ==
    \A j \in Jobs :
        stage[j] = "failed" /\ ~Running(j) =>
            sidecar[j] = <<>> /\ \A k \in Keys : event[k].owner # j

\* The TOTAL_EVENTS counter never passes the owner's limit: what was reserved too
\* little is dropped when it would.
UsageWithinLimit == usage <= Limit


\* Between imports every reservation is settled: with no delivery under way
\* or due, the counter is the number of events that exist.
QuotaSettled ==
    (\A j \in Jobs : ~Running(j) /\ stage[j] # "create-events") =>
        usage = Cardinality({k \in Keys : Present(k)})

\* The lease of a dataset never stays with a delivery: every path through the
\* handler and through onFail, thrown errors included, gives it back.
LeaseFreed == \A d \in Datasets : lease[d] # Free ~> lease[d] = Free

\* An import that has begun comes to an end a user can see, however often it
\* throws, waits for a lease in vain or is retried.
ImportSettles ==
    \A j \in Jobs :
        stage[j] = "create-events" ~> stage[j] \in {"completed", "needs-review", "failed"}

---------------------------------------------------------------------------
(* The abstract import.  The content a dataset shows once every unfinished *)
(* delivery is rolled back: an event overwritten by an uncommitted job     *)
(* counts as its oldest foreign snapshot, one inserted by it as absent.    *)

Snapshots(o, k) ==
    {i \in DOMAIN sidecar[o] :
        /\ ~sidecar[o][i].torn /\ sidecar[o][i].owner # o
        /\ sidecar[o][i].key = k /\ sidecar[o][i].id = event[k].id}

LogicalOwner(k) ==
    LET o == event[k].owner
        lines == Snapshots(o, k)
    IN  IF o = NoJob \/ Committed(o) THEN o
        ELSE IF lines = {} THEN NoJob
        ELSE sidecar[o][CHOOSE i \in lines : \A l \in lines : i <= l].owner

Atomic == INSTANCE AtomicImport WITH
            content <- [k \in Keys |-> LogicalOwner(k)],
            committed <- {j \in Jobs : Committed(j)}

\* Every step of the handler, of its retries and of its rollbacks is a commit
\* of the abstract import or leaves the dataset's logical content alone.
AllOrNothing == Atomic!Spec

=============================================================================
