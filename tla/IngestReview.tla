---------------------------- MODULE IngestReview ----------------------------
(***************************************************************************)
(* The ingest pipeline around its last task: how the sheets of one file    *)
(* move through the six tasks, pause for a review, are approved, fail, are *)
(* retried or reset, and how the file's status follows.  Every sheet is an *)
(* ingest job; all jobs belong to one file and one dataset.                *)
(*                                                                         *)
(* A sheet is first processed by the workflow that detected it (manual,    *)
(* scheduled or scraper ingest), all sheets in parallel; an approval, a    *)
(* retry or a reset queues the ingest-process workflow, which Payload runs *)
(* one at a time per job.  What the file contains is abstracted to the     *)
(* review gates it trips; create-events is detailed in EventImport.        *)
(***************************************************************************)
EXTENDS Integers, Sequences, FiniteSets

CONSTANTS
    Jobs,          \* the sheets of the file
    Sheets,        \* the workflow that processes all sheets the first time
    Reaper,        \* the job that gives up stuck scheduled ingests
    Trips,         \* [Jobs -> SUBSET Gates]: the gates a sheet's data trips
    ResetTargets,  \* stages the admin resets a failed job to
    MaxCalls,      \* bound: retry and reset calls per job
    Faults         \* which kinds of fault the environment produces

FaultKinds == {
    "throw",       \* a task fails for good
    "late",        \* the progress write after validate-schema's result fails
    "queueFail",   \* a route cannot queue the workflow
    "reap",        \* the reaper gives up the scheduled ingest of the file
    "race"}        \* a route or the reaper takes a job that something else moves

AnalyzeGates == <<"high-duplicates", "quota-exceeded">>
DetectGates == <<"high-empty-rows", "no-timestamp", "no-location",
                 "ambiguous-coordinate-order", "ambiguous-date-order",
                 "ambiguous-end-date">>
Gates == {AnalyzeGates[i] : i \in DOMAIN AnalyzeGates}
           \cup {DetectGates[i] : i \in DOMAIN DetectGates}
           \cup {"schema-drift", "geocoding-partial", "high-row-errors"}

ASSUME IngestReviewAssumption ==
    /\ Trips \in [Jobs -> SUBSET Gates]
    /\ Sheets \notin Jobs /\ Reaper \notin Jobs /\ Reaper # Sheets /\ MaxCalls \in Nat
    /\ ResetTargets \subseteq {"analyze-duplicates", "detect-schema", "validate-schema",
                               "geocode-batch", "create-events"}
    /\ Faults \subseteq FaultKinds

VARIABLES
    stage,     \* the job's stage
    reason,    \* its reviewReason, which no later stage clears
    requires,  \* schemaValidation.requiresApproval
    approved,  \* schemaValidation.approved
    linked,    \* the job has a datasetSchemaVersion
    skip,      \* reviewChecks.perSheet: the flags approvals have set
    step,      \* the task that runs for the job, "idle" if none
    resumed,   \* the run is an ingest-process workflow
    conflict,  \* validate-schema saw another job of the dataset in review
    retried,   \* validate-schema runs for the second time, after an error
    queue,     \* queued ingest-process workflows: their resume points
    claimed,   \* the retry route has claimed the job and not yet queued
    reset,     \* how far the reset route is: its target once it has checked
    calls,     \* retry and reset calls made
    via,       \* history: the reset target the job was last queued by, if any
    view,      \* a finished run's derivation of the file status
    file       \* the ingest file's status

vars == <<stage, reason, requires, approved, linked, skip, step, resumed, conflict,
          retried, queue, claimed, reset, calls, via, view, file>>

Terminal == {"completed", "failed", "needs-review"}
Active == {"analyze-duplicates", "detect-schema", "validate-schema",
           "create-schema-version", "geocode-batch", "create-events"}
Steps == {"idle", "analyze", "detect", "validate", "compare",
          "complete", "version", "geocode", "events"}
ResumePoints == {"analyze-duplicates", "detect-schema", "create-schema-version",
                 "create-events"}
FileStatus == {"processing", "completed", "failed"}
NoReset == [at |-> "none", to |-> "none"]
Writers == Jobs \cup {Sheets, Reaper}   \* who writes the file's status

\* Something will move the job on.
Driven(j) == step[j] # "idle" \/ queue[j] # <<>> \/ claimed[j] \/ reset[j].at = "written"

Init ==
    /\ stage = [j \in Jobs |-> "analyze-duplicates"]
    /\ reason = [j \in Jobs |-> "none"]
    /\ requires = [j \in Jobs |-> FALSE]
    /\ approved = [j \in Jobs |-> FALSE]
    /\ linked = [j \in Jobs |-> FALSE]
    /\ skip = [j \in Jobs |-> {}]
    /\ step = [j \in Jobs |-> "analyze"]
    /\ resumed = [j \in Jobs |-> FALSE]
    /\ conflict = [j \in Jobs |-> FALSE]
    /\ retried = [j \in Jobs |-> FALSE]
    /\ queue = [j \in Jobs |-> <<>>]
    /\ claimed = [j \in Jobs |-> FALSE]
    /\ reset = [j \in Jobs |-> NoReset]
    /\ calls = [j \in Jobs |-> 0]
    /\ via = [j \in Jobs |-> "none"]
    /\ view = [r \in Writers |-> "none"]
    /\ file = "processing"

---------------------------------------------------------------------------
(* Reviews *)

\* The end date shares the start date's reason and skip flag.
Reason(gate) == IF gate = "ambiguous-end-date" THEN "ambiguous-date-order" ELSE gate

\* Reasons whose approval sets a skip flag, named here like the reason.
SkipFlags == {"high-duplicates", "high-empty-rows", "no-timestamp", "no-location",
              "ambiguous-coordinate-order", "ambiguous-date-order", "geocoding-partial"}

Fires(j, gate) == gate \in Trips[j] /\ Reason(gate) \notin skip[j]

\* The first gate of a task that fires: none, or one.
FirstOf(j, order) ==
    {order[i] : i \in {n \in DOMAIN order :
        Fires(j, order[n]) /\ \A m \in 1 .. n - 1 : ~Fires(j, order[m])}}

\* Mutant: a resume point that the workflow does not know.
ResumePointUnknown(why) ==
    CASE why \in {"none", "schema-drift"} -> "validate-schema"
      [] why \in {"geocoding-partial", "high-row-errors"} -> "create-events"
      [] OTHER -> "detect-schema"

ResumePoint(why) ==
    CASE why \in {"none", "schema-drift"} -> "create-schema-version"
      [] why \in {"geocoding-partial", "high-row-errors"} -> "create-events"
      [] OTHER -> "detect-schema"

\* Mutant: a failed sheet counts as done.
DerivedFailedIsDone(stages) ==
    IF \E j \in Jobs : stages[j] \notin Terminal THEN "none"
    ELSE IF \E j \in Jobs : stages[j] = "needs-review" THEN "processing" ELSE "completed"

\* updateIngestFileStatusById, from the stages it reads; "none": no write.
Derived(stages) ==
    IF \E j \in Jobs : stages[j] \notin Terminal THEN "none"
    ELSE IF \E j \in Jobs : stages[j] = "needs-review" THEN "processing"
    ELSE IF \E j \in Jobs : stages[j] = "failed" THEN "failed" ELSE "completed"

---------------------------------------------------------------------------
(* Runs *)

Goto(j, s) == step' = [step EXCEPT ![j] = s] /\ UNCHANGED view

\* The run is over for this job.  The sheet workflow derives the file status
\* after its last sheet, ingest-process in its finally block.
Stop(j) ==
    /\ step' = [step EXCEPT ![j] = "idle"]
    /\ view' = IF resumed[j] THEN [view EXCEPT ![j] = "due"]
               ELSE IF \E i \in Jobs \ {j} : step[i] # "idle" /\ ~resumed[i] THEN view
               ELSE [view EXCEPT ![Sheets] = "due"]

\* A task's first write; leaving COMPLETED is refused by the collection.
Enter(j, s, name) ==
    step[j] = s /\ stage[j] # "completed" /\ stage' = [stage EXCEPT ![j] = name]

\* setNeedsReview and the end of the run.
Pause(j, gate) ==
    /\ stage' = [stage EXCEPT ![j] = "needs-review"]
    /\ reason' = [reason EXCEPT ![j] = Reason(gate)]
    /\ Stop(j)

\* analyze-duplicates does not set the stage of a job that goes on.
AnalyzeDuplicates(j) ==
    /\ step[j] = "analyze"
    /\ \/ stage[j] # "completed" /\ \E gate \in FirstOf(j, AnalyzeGates) : Pause(j, gate)
       \/ /\ FirstOf(j, AnalyzeGates) = {}
          /\ Goto(j, "detect") /\ UNCHANGED <<stage, reason>>
    /\ UNCHANGED <<requires, approved, linked, skip, resumed, conflict, retried, queue,
                   claimed, reset, calls, via, file>>

DetectSchema(j) ==
    /\ step[j] = "detect" /\ stage[j] # "completed"
    /\ \/ \E gate \in FirstOf(j, DetectGates) : Pause(j, gate)
       \/ /\ FirstOf(j, DetectGates) = {}
          /\ Enter(j, "detect", "detect-schema") /\ Goto(j, "validate")
          /\ UNCHANGED reason
    /\ UNCHANGED <<requires, approved, linked, skip, resumed, conflict, retried, queue,
                   claimed, reset, calls, via, file>>

\* validate-schema first looks for another job of the dataset in review (a
\* second attempt starts once the first has seen to the file's status) ...
GuardReview(j) ==
    /\ view[j] = "none"
    /\ Enter(j, "validate", "validate-schema")
    /\ conflict' = [conflict EXCEPT ![j] =
                      \E i \in Jobs \ {j} : stage[i] = "needs-review"]
    /\ Goto(j, "compare")
    /\ UNCHANGED <<reason, requires, approved, linked, skip, resumed, retried, queue,
                   claimed, reset, calls, via, file>>

\* ... and writes a review, or the outcome of comparing the schemas.  Both
\* reviews leave reviewReason and schemaValidation.approved as they were ...
CompareSchemas(j) ==
    LET pause == conflict[j] \/ "schema-drift" \in Trips[j]
    IN  /\ step[j] = "compare" /\ stage[j] # "completed"
        /\ requires' = [requires EXCEPT ![j] = pause]
        /\ stage' = [stage EXCEPT ![j] = IF pause THEN "needs-review" ELSE @]
        /\ conflict' = [conflict EXCEPT ![j] = FALSE]
        /\ Goto(j, "complete")
        /\ UNCHANGED <<reason, approved, linked, skip, resumed, retried, queue,
                       claimed, reset, calls, via, file>>

\* ... then marks its progress complete and returns, for a review to the end of
\* the run.
FinishValidation(j) ==
    /\ step[j] = "complete"
    /\ IF requires[j] THEN Stop(j) ELSE Goto(j, "version")
    /\ retried' = [retried EXCEPT ![j] = FALSE]
    /\ UNCHANGED <<stage, reason, requires, approved, linked, skip, resumed, conflict,
                   queue, claimed, reset, calls, via, file>>

\* When the progress write fails, the result stays written.  Payload runs the
\* task of an ingest-process workflow once more, after its finally block.
RetryValidation(j) ==
    /\ step[j] = "complete" /\ "late" \in Faults /\ resumed[j] /\ ~retried[j]
    /\ step' = [step EXCEPT ![j] = "validate"]
    /\ retried' = [retried EXCEPT ![j] = TRUE]
    /\ view' = [view EXCEPT ![j] = "due"]
    /\ UNCHANGED <<stage, reason, requires, approved, linked, skip, resumed, conflict,
                   queue, claimed, reset, calls, via, file>>

\* Mutant: "not approved" skips the stage instead of stopping the pipeline.
CreateSchemaVersionSkips(j) ==
    /\ Enter(j, "version", "create-schema-version") /\ Goto(j, "geocode")
    /\ linked' = [linked EXCEPT ![j] = @ \/ ~requires[j] \/ approved[j]]
    /\ UNCHANGED <<reason, requires, approved, skip, resumed, conflict, retried, queue,
                   claimed, reset, calls, via, file>>

\* create-schema-version stops the pipeline when the schema is not approved.
CreateSchemaVersion(j) ==
    /\ Enter(j, "version", "create-schema-version")
    /\ IF ~linked[j] /\ requires[j] /\ ~approved[j]
       THEN Stop(j) /\ UNCHANGED linked
       ELSE Goto(j, "geocode") /\ linked' = [linked EXCEPT ![j] = TRUE]
    /\ UNCHANGED <<reason, requires, approved, skip, resumed, conflict, retried, queue,
                   claimed, reset, calls, via, file>>

GeocodeBatch(j) ==
    /\ step[j] = "geocode" /\ stage[j] # "completed"
    /\ \/ Fires(j, "geocoding-partial") /\ Pause(j, "geocoding-partial")
       \/ /\ ~Fires(j, "geocoding-partial")
          /\ Enter(j, "geocode", "geocode-batch") /\ Goto(j, "events")
          /\ UNCHANGED reason
    /\ UNCHANGED <<requires, approved, linked, skip, resumed, conflict, retried, queue,
                   claimed, reset, calls, via, file>>

\* create-events-batch, as EventImport details it; a completed job is a no-op.
CreateEvents(j) ==
    /\ step[j] = "events"
    /\ \/ /\ stage[j] # "completed" /\ Fires(j, "high-row-errors")
          /\ Pause(j, "high-row-errors")
       \/ /\ stage[j] = "completed" \/ ~Fires(j, "high-row-errors")
          /\ stage' = [stage EXCEPT ![j] = "completed"] /\ Stop(j)
          /\ UNCHANGED reason
    /\ UNCHANGED <<requires, approved, linked, skip, resumed, conflict, retried, queue,
                   claimed, reset, calls, via, file>>

\* What makes a task fail for good; a write to a completed job is one such error.
Throws(j) ==
    /\ step[j] # "idle" /\ view[j] = "none"
    /\ \/ stage[j] = "completed"
       \/ step[j] = "complete" /\ "late" \in Faults /\ (resumed[j] => retried[j])
       \/ step[j] # "complete" /\ "throw" \in Faults

\* Mutant: the sheet workflow swallows the error.
TaskFailsUnmarked(j) ==
    /\ Throws(j) /\ Stop(j) /\ retried' = [retried EXCEPT ![j] = FALSE]
    /\ UNCHANGED <<stage, reason, requires, approved, linked, skip, resumed, conflict,
                   queue, claimed, reset, calls, via, file>>

\* The sheet workflow marks the sheet whose task failed, ingest-process lets
\* onFail do it, and analyze-duplicates marks a file with too many unique rows
\* itself; FAILED is refused for a completed job.
TaskFails(j) ==
    /\ Throws(j) /\ Stop(j)
    /\ stage' = [stage EXCEPT ![j] = IF @ = "completed" THEN @ ELSE "failed"]
    /\ retried' = [retried EXCEPT ![j] = FALSE]
    /\ conflict' = [conflict EXCEPT ![j] = FALSE]
    /\ UNCHANGED <<reason, requires, approved, linked, skip, resumed, queue,
                   claimed, reset, calls, via, file>>

\* Payload starts a queued ingest-process workflow, one at a time per job.
StartResume(j) ==
    /\ queue[j] # <<>> /\ step[j] = "idle" /\ view[j] = "none"
    /\ step' = [step EXCEPT ![j] =
                  CASE Head(queue[j]) = "analyze-duplicates" -> "analyze"
                    [] Head(queue[j]) = "detect-schema" -> "detect"
                    [] Head(queue[j]) = "create-schema-version" -> "version"
                    [] Head(queue[j]) = "create-events" -> "events"]
    /\ resumed' = [resumed EXCEPT ![j] = TRUE]
    /\ queue' = [queue EXCEPT ![j] = Tail(@)]
    /\ UNCHANGED <<stage, reason, requires, approved, linked, skip, conflict, retried,
                   claimed, reset, calls, via, view, file>>

\* updateIngestFileStatusById finds the file's jobs ...
ReadStatus(r) ==
    /\ view[r] = "due"
    /\ view' = [view EXCEPT ![r] = Derived(stage)]
    /\ UNCHANGED <<stage, reason, requires, approved, linked, skip, step, resumed,
                   conflict, retried, queue, claimed, reset, calls, via, file>>

\* Once the schedule's own workflow is over, the reaper fails, job by job, what is
\* not over of a file that is not ...
SheetsOver == view[Sheets] = "none" /\ \A i \in Jobs : step[i] = "idle" \/ resumed[i]

Reapable(j) ==
    /\ "reap" \in Faults /\ stage[j] \notin {"completed", "failed"}
    /\ (SheetsOver /\ ~Driven(j)) \/ "race" \in Faults

ReapJob(j) ==
    /\ Reapable(j) /\ (file = "processing" \/ view[Reaper] = "failed")
    /\ stage' = [stage EXCEPT ![j] = "failed"]
    /\ view' = [view EXCEPT ![Reaper] = "failed"]
    /\ UNCHANGED <<reason, requires, approved, linked, skip, step, resumed, conflict,
                   retried, queue, claimed, reset, calls, via, file>>

\* ... and each then updates the file, the reaper after its last job.
WriteStatus(r) ==
    /\ view[r] \notin {"none", "due"}
    /\ r = Reaper => \A j \in Jobs : ~Reapable(j)
    /\ file' = view[r]
    /\ view' = [view EXCEPT ![r] = "none"]
    /\ UNCHANGED <<stage, reason, requires, approved, linked, skip, step, resumed,
                   conflict, retried, queue, claimed, reset, calls, via>>

---------------------------------------------------------------------------
(* The user's and the admin's routes *)

\* The afterChange hook acts on the change of approved from false to true; on a
\* job approved before, the approve route answers the same and changes nothing.
\* (Only the environment, "race", lets the user answer before the run is over.)
Approvable(j) ==
    /\ stage[j] = "needs-review" /\ ~approved[j]
    /\ step[j] = "idle" \/ "race" \in Faults

\* Mutant: the resume is queued outside of the approval's transaction.
ApproveQueuesEarly(j) ==
    /\ Approvable(j)
    /\ \/ /\ queue[j] = <<>> /\ UNCHANGED approved
          /\ queue' = [queue EXCEPT ![j] = Append(@, ResumePoint(reason[j]))]
       \/ approved' = [approved EXCEPT ![j] = TRUE] /\ UNCHANGED queue
    /\ UNCHANGED <<stage, reason, requires, linked, skip, step, resumed, conflict, retried,
                   claimed, reset, calls, via, view, file>>

\* Any reason but high-row-errors sets its skip flag and queues a resume, in
\* the transaction of the approval.
Approve(j) ==
    /\ Approvable(j)
    /\ approved' = [approved EXCEPT ![j] = TRUE]
    /\ IF reason[j] = "high-row-errors"
       THEN /\ stage' = [stage EXCEPT ![j] = "completed"]
            /\ file' = IF Derived(stage') = "none" THEN file ELSE Derived(stage')
            /\ UNCHANGED <<skip, queue>>
       ELSE /\ skip' = [skip EXCEPT ![j] = @ \cup ({reason[j]} \cap SkipFlags)]
            /\ queue' = [queue EXCEPT ![j] = Append(@, ResumePoint(reason[j]))]
            /\ UNCHANGED <<stage, file>>
    /\ UNCHANGED <<reason, requires, linked, step, resumed, conflict, retried, claimed,
                   reset, calls, via, view>>

\* Mutant: the retry route also takes jobs that wait for a review.
RetryClaimReviewed(j) ==
    /\ stage[j] \in {"failed", "needs-review"} /\ calls[j] < MaxCalls
    /\ reset[j] = NoReset \/ "race" \in Faults
    /\ stage' = [stage EXCEPT ![j] = "analyze-duplicates"]
    /\ claimed' = [claimed EXCEPT ![j] = TRUE]
    /\ calls' = [calls EXCEPT ![j] = @ + 1]
    /\ UNCHANGED <<reason, requires, approved, linked, skip, step, resumed, conflict,
                   retried, queue, reset, via, view, file>>

\* The retry route claims the job with one compare-and-set ... (Between a reset's
\* check and its queue call it is the environment, "race", that lets it.)
RetryClaim(j) ==
    /\ stage[j] = "failed" /\ calls[j] < MaxCalls
    /\ reset[j] = NoReset \/ "race" \in Faults
    /\ stage' = [stage EXCEPT ![j] = "analyze-duplicates"]
    /\ claimed' = [claimed EXCEPT ![j] = TRUE]
    /\ calls' = [calls EXCEPT ![j] = @ + 1]
    /\ UNCHANGED <<reason, requires, approved, linked, skip, step, resumed, conflict,
                   retried, queue, reset, via, view, file>>

\* Mutant: a claim that could not be queued is not reverted.
RetryQueueNoRollback(j) ==
    /\ claimed[j] /\ claimed' = [claimed EXCEPT ![j] = FALSE]
    /\ \/ queue' = [queue EXCEPT ![j] = Append(@, "analyze-duplicates")]
       \/ "queueFail" \in Faults /\ UNCHANGED queue
    /\ UNCHANGED <<stage, reason, requires, approved, linked, skip, step, resumed,
                   conflict, retried, reset, calls, via, view, file>>

\* ... and queues, or reverts the claim when that fails.
RetryQueue(j) ==
    /\ claimed[j]
    /\ \/ /\ queue' = [queue EXCEPT ![j] = Append(@, "analyze-duplicates")]
          /\ via' = [via EXCEPT ![j] = "none"] /\ UNCHANGED stage
       \/ /\ "queueFail" \in Faults /\ stage[j] # "completed"
          /\ stage' = [stage EXCEPT ![j] = "failed"] /\ UNCHANGED <<queue, via>>
    /\ claimed' = [claimed EXCEPT ![j] = FALSE]
    /\ UNCHANGED <<reason, requires, approved, linked, skip, step, resumed, conflict,
                   retried, reset, calls, view, file>>

\* The reset route checks the stage, writes it, and queues: three statements.
ResetCheck(j) ==
    /\ stage[j] = "failed" /\ reset[j] = NoReset /\ calls[j] < MaxCalls
    /\ \E target \in ResetTargets :
          reset' = [reset EXCEPT ![j] = [at |-> "checked", to |-> target]]
    /\ calls' = [calls EXCEPT ![j] = @ + 1]
    /\ UNCHANGED <<stage, reason, requires, approved, linked, skip, step, resumed,
                   conflict, retried, queue, claimed, via, view, file>>

ResetWrite(j) ==
    /\ reset[j].at = "checked"
    /\ IF stage[j] = "completed"
       THEN reset' = [reset EXCEPT ![j] = NoReset] /\ UNCHANGED stage
       ELSE /\ stage' = [stage EXCEPT ![j] = reset[j].to]
            /\ reset' = [reset EXCEPT ![j].at = "written"]
    /\ UNCHANGED <<reason, requires, approved, linked, skip, step, resumed, conflict,
                   retried, queue, claimed, calls, via, view, file>>

StageToResumeFrom(target) ==
    CASE target = "analyze-duplicates" -> "analyze-duplicates"
      [] target = "create-events" -> "create-events"
      [] target = "geocode-batch" -> "create-schema-version"
      [] OTHER -> "detect-schema"

\* Mutant: a reset that could not be queued is not reverted.
ResetQueueNoRollback(j) ==
    /\ reset[j].at = "written" /\ reset' = [reset EXCEPT ![j] = NoReset]
    /\ \/ queue' = [queue EXCEPT ![j] = Append(@, StageToResumeFrom(reset[j].to))]
       \/ "queueFail" \in Faults /\ UNCHANGED queue
    /\ UNCHANGED <<stage, reason, requires, approved, linked, skip, step, resumed,
                   conflict, retried, claimed, calls, via, view, file>>

ResetQueue(j) ==
    /\ reset[j].at = "written"
    /\ \/ /\ queue' = [queue EXCEPT ![j] = Append(@, StageToResumeFrom(reset[j].to))]
          /\ via' = [via EXCEPT ![j] = reset[j].to] /\ UNCHANGED stage
       \/ /\ "queueFail" \in Faults /\ stage[j] # "completed"
          /\ stage' = [stage EXCEPT ![j] = "failed"] /\ UNCHANGED <<queue, via>>
    /\ reset' = [reset EXCEPT ![j] = NoReset]
    /\ UNCHANGED <<reason, requires, approved, linked, skip, step, resumed, conflict,
                   retried, claimed, calls, view, file>>

---------------------------------------------------------------------------

Run(j) ==
    \/ AnalyzeDuplicates(j) \/ DetectSchema(j) \/ GuardReview(j)
    \/ CompareSchemas(j) \/ FinishValidation(j) \/ RetryValidation(j)
    \/ CreateSchemaVersion(j) \/ GeocodeBatch(j) \/ CreateEvents(j) \/ TaskFails(j)

Routes(j) == RetryQueue(j) \/ ResetWrite(j) \/ ResetQueue(j)

Next ==
    \/ \E j \in Jobs : \/ Run(j) \/ Routes(j) \/ StartResume(j)
                       \/ Approve(j) \/ RetryClaim(j) \/ ResetCheck(j) \/ ReapJob(j)
    \/ \E r \in Writers : ReadStatus(r) \/ WriteStatus(r)

Spec == Init /\ [][Next]_vars

\* What is under way for a job, a task, a route, a queued run or the update of the
\* status, goes on; no user is obliged to approve, retry or reset, and the reaper
\* to come by.
Moves(j) == Run(j) \/ Routes(j) \/ StartResume(j) \/ ReadStatus(j) \/ WriteStatus(j)

FairSpec == Spec /\ \A j \in Jobs : WF_vars(Moves(j))

---------------------------------------------------------------------------
(* Properties *)

\* Every variable stays within its type.
TypeOK ==
    /\ stage \in [Jobs -> Active \cup Terminal]
    /\ reason \in [Jobs -> Gates \cup {"none"}]
    /\ requires \in [Jobs -> BOOLEAN] /\ approved \in [Jobs -> BOOLEAN]
    /\ linked \in [Jobs -> BOOLEAN] /\ resumed \in [Jobs -> BOOLEAN]
    /\ conflict \in [Jobs -> BOOLEAN] /\ claimed \in [Jobs -> BOOLEAN]
    /\ retried \in [Jobs -> BOOLEAN] /\ via \in [Jobs -> ResetTargets \cup {"none"}]
    /\ skip \in [Jobs -> SUBSET SkipFlags]
    /\ step \in [Jobs -> Steps]
    /\ queue \in [Jobs -> Seq(ResumePoints)]
    /\ reset \in [Jobs -> [at : {"none", "checked", "written"},
                            to : ResetTargets \cup {"none"}]]
    /\ calls \in [Jobs -> Nat]
    /\ view \in [Writers -> FileStatus \cup {"none", "due"}]
    /\ file \in FileStatus

\* create-schema-version stopped a job that an admin reset past the review it
\* still owes: its stage has no route, and nothing but the reaper moves it on.
Parked(j) ==
    /\ stage[j] = "create-schema-version" /\ step[j] = "idle" /\ via[j] = "geocode-batch"
    /\ requires[j] /\ ~approved[j] /\ ~linked[j]

\* No job is in a stage that nothing will move, but those an admin parked: the
\* retry and reset routes accept FAILED only and the approve route NEEDS_REVIEW
\* only, so any other stage needs a run, a queued run or a route behind it.
NoStrandedJob == \A j \in Jobs : stage[j] \in Active => Driven(j) \/ Parked(j)

\* What takes a job out of its review: the user's approval, the error of the
\* very task that asked for it (as FAILED or to validate once more), the reaper.
LeavesReview(j) ==
    \/ approved'[j]
    \/ /\ stage'[j] = "failed"
       /\ step[j] \in {"validate", "complete"} \/ view'[Reaper] = "failed"
    \/ stage'[j] = "validate-schema" /\ step[j] = "validate" /\ retried[j]

\* Nothing else does: no retry, reset or later task goes on with a job that waits
\* for its user.
ReviewNotBypassed ==
    [][\A j \in Jobs :
          stage[j] = "needs-review" /\ stage'[j] # "needs-review" => LeavesReview(j)]_vars

\* Behind create-schema-version a job has a schema version, and an approval if it
\* needs one.  A reset to create-events skips that task and both its checks; a
\* reset to geocode-batch runs it, but with a version from an earlier pass it does
\* not ask for the approval.
NoUnapprovedSchema ==
    \A j \in Jobs :
        /\ step[j] \in {"geocode", "events"} => linked[j] \/ via[j] = "create-events"
        /\ (step[j] \in {"geocode", "events"} \/ stage[j] = "completed") /\ requires[j] =>
              \/ approved[j] \/ via[j] = "create-events"
              \/ via[j] = "geocode-batch" /\ linked[j]

\* A file is shown as completed only when each of its sheets is, whatever
\* status update was computed earlier and written late.
CompletedFileIsComplete ==
    file = "completed" => \A j \in Jobs : stage[j] = "completed"

\* Every job that is being processed reaches a stage its user can see and act
\* on, or is parked, whatever throws and whichever queue call fails.
StageSettles == \A j \in Jobs : stage[j] \in Active ~> stage[j] \in Terminal \/ Parked(j)

=============================================================================
