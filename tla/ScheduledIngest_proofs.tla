---------------------- MODULE ScheduledIngest_proofs ----------------------
(***************************************************************************)
(* Theorems about ScheduledIngest, for every number of callers and runs,   *)
(* every period, threshold and retry budget.                               *)
(***************************************************************************)
EXTENDS ScheduledIngest, FiniteSetTheorems, TLAPS

AnyStamp == [at: Int, seen: Nat]

CallPcs == {"idle", "read", "held", "claimed", "revert", "done"}
CallRecs == [pc: CallPcs, status: Statuses, lastRun: AnyStamp, retries: Nat]
SchedRecs == [pc: {"idle", "claim", "queue", "error"}, at: AnyStamp]
WorkPcs == {"idle", "fetch", "sheets", "judge", "conclude"}
Outcomes == {"none", "success", "paused", "failed"}
WorkRecs == [pc: WorkPcs, run: Nat, outcome: Outcomes]
ReapPcs == {"idle", "active", "resolve", "cancel", "fail", "release"}
ReapRecs == [pc: ReapPcs, at: Int, lastRun: AnyStamp]
JobStates == {"none", "queued", "processing", "done"}

\* What the proofs need of the types.
Types ==
    /\ now \in Nat /\ status \in Statuses /\ lastRun \in AnyStamp
    /\ retries \in Nat /\ failures \in Nat
    /\ job \in [Runs -> JobStates] /\ created \in [Runs -> Nat]
    /\ files \in Seq(Nat)
    /\ req \in [Callers -> CallRecs]
    /\ sched \in SchedRecs /\ work \in WorkRecs /\ reap \in ReapRecs

LEMMA StampType == Types => Stamp \in AnyStamp /\ NoStamp \in AnyStamp
  BY DEF Types, Stamp, NoStamp, AnyStamp

LEMMA CallType ==
    ASSUME Types
    PROVE  /\ Unserved \in CallRecs /\ Answered \in CallRecs
           /\ Call("read") \in CallRecs
           /\ \A q \in CallRecs, p \in CallPcs: [q EXCEPT !.pc = p] \in CallRecs
  BY StampType
  DEF Types, Unserved, Answered, Call, CallRecs, CallPcs, Statuses

LEMMA SchedType ==
    ASSUME Types
    PROVE  /\ Waiting \in SchedRecs /\ [pc |-> "claim", at |-> Stamp] \in SchedRecs
           /\ \A q \in SchedRecs, p \in {"queue", "error"}: [q EXCEPT !.pc = p] \in SchedRecs
  BY StampType DEF Waiting, SchedRecs

LEMMA WorkType ==
    /\ NoWork \in WorkRecs
    /\ \A q \in WorkRecs, p \in WorkPcs: [q EXCEPT !.pc = p] \in WorkRecs
    /\ \A q \in WorkRecs, o \in Outcomes:
          [q EXCEPT !.pc = "conclude", !.outcome = o] \in WorkRecs
  BY DEF NoWork, WorkRecs, WorkPcs, Outcomes

LEMMA ReapType ==
    ASSUME Types
    PROVE  /\ PassDone \in ReapRecs
           /\ [pc |-> "active", at |-> now, lastRun |-> lastRun] \in ReapRecs
           /\ [pc |-> "idle", at |-> now, lastRun |-> NoStamp] \in ReapRecs
           /\ \A p \in ReapPcs: [reap EXCEPT !.pc = p] \in ReapRecs
  <1>1. reap \in ReapRecs /\ now \in Int /\ lastRun \in AnyStamp /\ NoStamp \in AnyStamp
    BY StampType DEF Types
  <1> QED
    BY <1>1 DEF PassDone, ReapRecs, ReapPcs

LEMMA TypesInit == Init => Types
  <1> SUFFICES ASSUME Init PROVE Types
    OBVIOUS
  <1>1. NoStamp \in AnyStamp
    BY DEF NoStamp, AnyStamp
  <1>2. Unserved \in CallRecs /\ Waiting \in SchedRecs /\ NoWork \in WorkRecs
    BY <1>1 DEF Unserved, Waiting, NoWork, CallRecs, CallPcs, Statuses, SchedRecs,
       WorkRecs, WorkPcs, Outcomes
  <1>3. reap \in ReapRecs
    BY <1>1 DEF Init, ReapRecs, ReapPcs
  <1> QED
    BY <1>1, <1>2, <1>3 DEF Init, Types, Statuses, JobStates

LEMMA TypesStep == Types /\ [Next]_vars => Types'
  <1> SUFFICES ASSUME Types, [Next]_vars PROVE Types'
    OBVIOUS
  <1> USE DEF Types, record, queue, store
  <1>1. ASSUME NEW c \in Callers, Read(c) \/ WebCrash(c) PROVE Types'
    BY <1>1, CallType DEF Read, WebCrash
  <1>2. ASSUME NEW c \in Callers, HookClaim(c) \/ HookAssert(c) \/ UserClaim(c)
        PROVE  Types'
    <2>1. /\ req' \in [Callers -> CallRecs]
          /\ UNCHANGED <<now, enabled, failures, job, created, files, sched, work, reap>>
      <3>1. \A p \in CallPcs: [req[c] EXCEPT !.pc = p] \in CallRecs
        BY CallType
      <3>2. "held" \in CallPcs /\ "claimed" \in CallPcs /\ "revert" \in CallPcs
        BY DEF CallPcs
      <3>3. Answered \in CallRecs
        BY CallType
      <3> QED
        BY <1>2, <3>1, <3>2, <3>3 DEF HookClaim, HookAssert, UserClaim
    <2>2. status' \in Statuses /\ lastRun' \in AnyStamp /\ retries' \in Nat
      BY <1>2, StampType DEF HookClaim, HookAssert, UserClaim, Statuses
    <2> QED
      BY <2>1, <2>2
  <1>3. ASSUME NEW c \in Callers, TriggerQueue(c) PROVE Types'
    <2>1. req' \in [Callers -> CallRecs]
      <3>1. [req[c] EXCEPT !.pc = "revert"] \in CallRecs /\ Answered \in CallRecs
        BY CallType DEF CallPcs
      <3> QED
        BY <1>3, <3>1 DEF TriggerQueue
    <2>2. job' \in [Runs -> JobStates] /\ created' \in [Runs -> Nat]
      BY <1>3 DEF TriggerQueue, QueueRun, JobStates
    <2> QED
      BY <1>3, <2>1, <2>2 DEF TriggerQueue
  <1>4. ASSUME NEW c \in Callers, RevertTriggerClaim(c) PROVE Types'
    BY <1>4, CallType DEF RevertTriggerClaim, CallRecs
  <1>5. CASE SchedRead \/ SchedClaim \/ DisableInvalid \/ Edit
    <2>1. sched.at \in AnyStamp
      BY DEF SchedRecs
    <2> QED
      BY <1>5, <2>1, SchedType DEF SchedRead, SchedClaim, DisableInvalid, Edit, Statuses
  <1>6. CASE SchedQueue \/ HandleImportError
    BY <1>6, SchedType DEF SchedQueue, HandleImportError, QueueRun, Statuses, JobStates
  <1>7. ASSUME NEW r \in Runs, StartRun(r) \/ ReviewAnswered(r) PROVE Types'
    <2>1. [pc |-> "fetch", run |-> r, outcome |-> "none"] \in WorkRecs
      BY DEF Runs, WorkRecs, WorkPcs, Outcomes
    <2> QED
      BY <1>7, <2>1 DEF StartRun, ReviewAnswered, JobStates
  <1>8. CASE FetchThrows \/ FetchNothingNew \/ FetchCreatesFile
    <2>1. work.run \in Nat
      BY DEF WorkRecs
    <2>2. /\ NoWork \in WorkRecs /\ [work EXCEPT !.pc = "sheets"] \in WorkRecs
          /\ \A o \in {"failed", "success"}:
                [work EXCEPT !.pc = "conclude", !.outcome = o] \in WorkRecs
      BY WorkType DEF WorkPcs, Outcomes
    <2>3. CASE FetchThrows
      BY <2>2, <2>3 DEF FetchThrows, JobStates
    <2>4. CASE FetchNothingNew
      BY <2>2, <2>4 DEF FetchNothingNew
    <2>5. CASE FetchCreatesFile
      <3>1. files' \in Seq(Nat)
        BY <2>1, <2>5 DEF FetchCreatesFile
      <3> QED
        BY <2>2, <2>5, <3>1 DEF FetchCreatesFile
    <2> QED
      BY <1>8, <2>3, <2>4, <2>5
  <1>9. CASE ProcessSheets \/ Judge
    BY <1>9, WorkType DEF ProcessSheets, Judge, WorkPcs, Outcomes
  <1>10. CASE Conclude
    <2>1. failures' \in Nat /\ work' \in WorkRecs /\ job' \in [Runs -> JobStates]
      <3>1. (IF work.outcome = "failed" THEN 1 ELSE 0) \in Nat
        OBVIOUS
      <3>2. failures' \in Nat
        BY <1>10, <3>1 DEF Conclude
      <3>3. job' \in [Runs -> JobStates]
        BY <1>10 DEF Conclude, JobStates
      <3> QED
        BY <1>10, <3>2, <3>3, WorkType DEF Conclude
    <2>2. status' \in Statuses /\ lastRun' \in AnyStamp /\ retries' \in Nat
      BY <1>10, StampType DEF Conclude, RecordOutcome, Statuses
    <2> QED
      BY <1>10, <2>1, <2>2 DEF Conclude
  <1>11. CASE ReapList \/ ReapCheckActive \/ ReapResolve
    <2>1. reap' \in ReapRecs
      BY <1>11, ReapType DEF ReapList, ReapCheckActive, ReapResolve, ReapPcs
    <2>2. status' \in Statuses /\ lastRun' \in AnyStamp /\ retries' \in Nat
      BY <1>11, StampType DEF ReapList, ReapCheckActive, ReapResolve, Statuses
    <2> QED
      BY <1>11, <2>1, <2>2 DEF ReapList, ReapCheckActive, ReapResolve
  <1>12. CASE ReapCancel \/ ReapFail \/ ReapRelease
    BY <1>12, ReapType DEF ReapCancel, ReapFail, ReapRelease, CleanupFails, ReapPcs, Statuses, JobStates
  <1>13. CASE Tick \/ UNCHANGED vars
    BY <1>13 DEF Tick, vars
  <1> QED
    BY <1>1, <1>2, <1>3, <1>4, <1>5, <1>6, <1>7, <1>8, <1>9, <1>10, <1>11, <1>12, <1>13
    DEF Next, CallStep, SchedStep, WorkStep, ReapStep

-----------------------------------------------------------------------------
\* The retry counter counts failed runs, and so does every copy of it that a
\* call holds and may write back.
Earned ==
    /\ retries <= failures
    /\ \A c \in Callers: req[c].retries <= failures

LEMMA EarnedStep == Types /\ Earned /\ [Next]_vars => Earned'
  <1> SUFFICES ASSUME Types, Earned, [Next]_vars PROVE Earned'
    OBVIOUS
  <1> USE DEF Types, record
  <1>1. \A c \in Callers: req[c] \in CallRecs /\ req[c].retries \in Nat
    BY DEF CallRecs
  <1>2. ASSUME NEW c \in Callers, Read(c) \/ WebCrash(c) PROVE Earned'
    <2>1. /\ Call("read").retries = retries /\ Answered.retries = 0
          /\ \E q \in {Call("read"), Answered}: req' = [req EXCEPT ![c] = q]
      BY <1>2 DEF Read, WebCrash, Call, Answered, Unserved
    <2>2. UNCHANGED <<retries, failures>>
      BY <1>2 DEF Read, WebCrash
    <2> QED
      BY <1>1, <2>1, <2>2 DEF Earned
  <1>3. ASSUME NEW c \in Callers, HookClaim(c) \/ HookAssert(c) \/ UserClaim(c) \/ TriggerQueue(c)
        PROVE  Earned'
    <2>1. \A p \in CallPcs: [req[c] EXCEPT !.pc = p].retries = req[c].retries
      BY <1>1 DEF CallRecs
    <2>2. Answered.retries = 0
      BY DEF Answered, Unserved
    <2>3. /\ \A d \in Callers: req'[d].retries = req[d].retries \/ req'[d].retries = 0
          /\ retries' = retries \/ retries' = 0
          /\ failures' = failures
      BY <1>3, <2>1, <2>2 DEF HookClaim, HookAssert, UserClaim, TriggerQueue, CallPcs
    <2> QED
      BY <1>1, <2>3 DEF Earned
  <1>4. ASSUME NEW c \in Callers, RevertTriggerClaim(c) PROVE Earned'
    BY <1>1, <1>4 DEF RevertTriggerClaim, Answered, Unserved, Earned
  <1>5. CASE Conclude
    <2>1. /\ failures' \in {failures, failures + 1}
          /\ retries' \in {0, retries, retries + 1}
          /\ retries' = retries + 1 => failures' = failures + 1 \/ retries' = 0 \/ retries' = retries
      BY <1>5 DEF Conclude, RecordOutcome
    <2> QED
      BY <1>1, <1>5, <2>1 DEF Conclude, Earned
  <1>6. CASE ReapResolve
    <2>1. retries' = retries \/ retries' = 0
      BY <1>6 DEF ReapResolve
    <2> QED
      BY <1>1, <1>6, <2>1 DEF ReapResolve, Earned
  <1>7. CASE \/ Edit \/ SchedRead \/ SchedStep \/ Tick \/ UNCHANGED vars
             \/ \E r \in Runs: StartRun(r) \/ ReviewAnswered(r)
             \/ WorkStep /\ ~Conclude
             \/ ReapList \/ (ReapStep /\ ~ReapResolve)
    <2>1. UNCHANGED <<retries, req, failures>>
      BY <1>7 DEF Edit, SchedRead, SchedStep, DisableInvalid, SchedClaim, SchedQueue,
         HandleImportError, Tick, vars, StartRun, ReviewAnswered, WorkStep, FetchThrows,
         FetchNothingNew, FetchCreatesFile, ProcessSheets, Judge, ReapList, ReapStep,
         ReapCheckActive, ReapCancel, ReapFail, ReapRelease
    <2> QED
      BY <2>1 DEF Earned
  <1> QED
    BY <1>2, <1>3, <1>4, <1>5, <1>6, <1>7 DEF Next, CallStep, WorkStep, ReapStep

\* Whatever fails and however triggers, copies and runs interleave, the worker
\* disables a schedule only after more than maxRetries failed runs.
THEOREM DisablingIsEarned == Spec => DisabledOnlyAfterFailures
  <1>1. Init => Types /\ Earned
    BY TypesInit DEF Init, Earned, Unserved
  <1>2. Spec => [](Types /\ Earned)
    BY <1>1, TypesStep, EarnedStep, PTL DEF Spec
  <1>3. ASSUME Types, Earned, [Next]_vars,
               work.pc = "conclude", work'.pc = "idle", enabled, ~enabled'
        PROVE  failures' > MaxRetries
    <2>1. work # work'
      BY <1>3
    <2>2. Conclude \/ FetchThrows \/ FetchNothingNew \/ FetchCreatesFile \/ ProcessSheets
          \/ Judge \/ \E r \in Runs: StartRun(r)
      BY <1>3, <2>1 DEF Next, CallStep, SchedStep, WorkStep, ReapStep, vars, Read, HookClaim,
         HookAssert, UserClaim, TriggerQueue, RevertTriggerClaim, WebCrash, Edit, SchedRead,
         DisableInvalid, SchedClaim, SchedQueue, HandleImportError, ReviewAnswered, ReapList,
         ReapCheckActive, ReapResolve, ReapCancel, ReapFail, ReapRelease, Tick
    <2>3. Conclude
      BY <1>3, <2>2 DEF FetchThrows, FetchNothingNew, FetchCreatesFile, ProcessSheets, Judge,
         StartRun
    <2>4. work.outcome = "failed" /\ ~(retries + 1 <= MaxRetries)
      BY <1>3, <2>3 DEF Conclude, RecordOutcome
    <2>5. failures' = failures + 1
      BY <2>3, <2>4 DEF Conclude
    <2> QED
      BY <1>3, <2>4, <2>5, Bounds DEF Types, Earned
  <1>4. Types /\ Earned /\ [Next]_vars =>
          [(work.pc = "conclude" /\ work'.pc = "idle" /\ enabled /\ ~enabled')
             => failures' > MaxRetries]_vars
    BY <1>3
  <1> QED
    BY <1>2, <1>4, PTL DEF Spec, DisabledOnlyAfterFailures

-----------------------------------------------------------------------------
\* The claim is a token.  Its holder is a call or the scheduler between its
\* claim and its queue call or rollback, or a workflow that is alive; there is
\* one at most, the record says "running" while there is one, and a pass of the
\* reaper gets past its list only while there is none.

\* What the protocol rests on: runs shorter than the threshold, no reaper's pass
\* while a webhook's claim lacks its stamp, no claim between the scheduler's list
\* and its write for an invalid schedule, and no failing claim of the scheduler.
Calm ==
    /\ Threshold > 0
    /\ Faults \intersect {"overlap", "longRun", "staleDisable", "claimFail"} = {}

Holding(c) == req[c].pc \in {"held", "claimed", "revert"}
SchedHolds == sched.pc \in {"queue", "error"}
NoHolder ==
    /\ \A c \in Callers: ~Holding(c)
    /\ ~SchedHolds
    /\ \A r \in Runs: ~Live(r)

HolderRuns == status # "running" => NoHolder
PassAlone == reap.pc # "idle" => status = "running" /\ NoHolder
OneHolder ==
    /\ \A c, d \in Callers: Holding(c) /\ Holding(d) => c = d
    /\ \A r, s \in Runs: Live(r) /\ Live(s) => r = s
    /\ \A c \in Callers: Holding(c) => ~SchedHolds /\ \A r \in Runs: ~Live(r)
    /\ SchedHolds => \A r \in Runs: ~Live(r)
\* A holder's claim carries a stamp younger than the threshold, the claim of a
\* webhook's call excepted until the call has stamped it.
FreshClaim ==
    /\ \A c \in Callers: Holding(c) /\ (c \notin Hooks \/ req[c].pc = "claimed")
                         => lastRun.at = now
    /\ sched.pc # "idle" => sched.at.at = now
    /\ SchedHolds => lastRun.at = now
    /\ \A r \in Runs: Live(r) => /\ lastRun.at = created[r]
                                 /\ now - created[r] < Threshold
WorksOnLive == work.pc # "idle" => work.run \in Runs /\ job[work.run] = "processing"

ClaimInv == HolderRuns /\ PassAlone /\ OneHolder /\ FreshClaim /\ WorksOnLive

\* Calls that hold nothing more than before, over an unchanged rest.
LEMMA CallsLetGo ==
    ASSUME ClaimInv,
           UNCHANGED <<now, status, lastRun, job, created, sched, work, reap>>,
           \A d \in Callers: Holding(d)' => req'[d].pc = req[d].pc
    PROVE  ClaimInv'
  <1>1. \A d \in Callers: Holding(d)' => Holding(d)
    BY DEF Holding
  <1>2. NoHolder => NoHolder'
    BY <1>1 DEF NoHolder, SchedHolds, Live
  <1> QED
    BY <1>1, <1>2 DEF ClaimInv, HolderRuns, PassAlone, OneHolder, FreshClaim, WorksOnLive,
       SchedHolds, Live

\* The last holder lets go: whatever the record says then, the invariant holds.
LEMMA NobodyHolds ==
    ASSUME NoHolder', reap.pc = "idle", reap' = reap,
           sched'.pc # "idle" => sched'.at.at = now', work'.pc = "idle"
    PROVE  ClaimInv'
  BY DEF ClaimInv, HolderRuns, PassAlone, OneHolder, FreshClaim, WorksOnLive, NoHolder

\* Nothing the invariant speaks of changes.
LEMMA Frame ==
    ASSUME ClaimInv,
           UNCHANGED <<now, status, lastRun, job, created, req, sched, work, reap>>
    PROVE  ClaimInv'
  BY DEF ClaimInv, HolderRuns, PassAlone, OneHolder, FreshClaim, WorksOnLive, NoHolder,
     Holding, SchedHolds, Live

LEMMA CallStepClaims ==
    ASSUME Types, ClaimInv, Calm, NEW c \in Callers,
           Read(c) \/ WebCrash(c) \/ CallStep(c)
    PROVE  ClaimInv'
  <1> USE DEF record, queue, store
  <1>1. CASE Read(c) \/ WebCrash(c)
    <2>1. \A d \in Callers: Holding(d)' => req'[d].pc = req[d].pc
      BY <1>1 DEF Read, WebCrash, Call, Answered, Unserved, Holding, Types
    <2> QED
      BY <1>1, <2>1, CallsLetGo DEF Read, WebCrash
  <1>2. CASE (HookClaim(c) \/ UserClaim(c)) /\ status = "running"
    <2>1. \A d \in Callers: Holding(d)' => req'[d].pc = req[d].pc
      BY <1>2 DEF HookClaim, UserClaim, Answered, Unserved, Holding, Types
    <2> QED
      BY <1>2, <2>1, CallsLetGo DEF HookClaim, UserClaim
  <1>3. CASE (HookClaim(c) \/ UserClaim(c)) /\ status # "running"
    <2>1. NoHolder /\ reap.pc = "idle" /\ status' = "running" /\ reap' = reap
      BY <1>3 DEF ClaimInv, HolderRuns, PassAlone, HookClaim, UserClaim
    <2>2. /\ \A d \in Callers: d # c => ~Holding(d)'
          /\ HookClaim(c) => c \in Hooks /\ req'[c].pc = "held"
          /\ UserClaim(c) => lastRun'.at = now
      BY <1>3, <2>1 DEF HookClaim, UserClaim, Holding, NoHolder, Types, CallRecs, Stamp
    <2>3. UNCHANGED <<now, job, created, sched, work>>
      BY <1>3 DEF HookClaim, UserClaim
    <2>4. ~SchedHolds' /\ \A r \in Runs: ~Live(r)'
      BY <2>1, <2>3 DEF NoHolder, SchedHolds, Live
    <2>5. FreshClaim'
      BY <1>3, <2>2, <2>3, <2>4 DEF FreshClaim, ClaimInv
    <2>6. OneHolder'
      BY <2>2, <2>4 DEF OneHolder
    <2> QED
      BY <2>1, <2>3, <2>5, <2>6 DEF ClaimInv, HolderRuns, PassAlone, WorksOnLive
  <1>4. CASE HookAssert(c)
    <2>1. Holding(c)
      BY <1>4 DEF HookAssert, Holding
    <2>2. status = "running" /\ reap.pc = "idle" /\ ~SchedHolds /\ \A r \in Runs: ~Live(r)
      BY <2>1 DEF ClaimInv, HolderRuns, PassAlone, OneHolder, NoHolder
    <2>3. \A d \in Callers: d # c => ~Holding(d) /\ ~Holding(d)'
      BY <1>4, <2>1 DEF ClaimInv, OneHolder, HookAssert, Holding, Types
    <2>4. /\ c \in Hooks /\ status' = "running"
          /\ req'[c].pc = "claimed" => lastRun'.at = now
          /\ UNCHANGED <<now, job, created, sched, work, reap>>
      BY <1>4, <2>2 DEF HookAssert, Types, CallRecs, Stamp
    <2>5. ~SchedHolds' /\ \A r \in Runs: ~Live(r)'
      BY <2>2, <2>4 DEF SchedHolds, Live
    <2>6. OneHolder' /\ FreshClaim'
      BY <2>3, <2>4, <2>5 DEF OneHolder, FreshClaim, ClaimInv
    <2> QED
      BY <2>2, <2>4, <2>6 DEF ClaimInv, HolderRuns, PassAlone, WorksOnLive
  <1>5. CASE TriggerQueue(c)
    <2>1. Holding(c)
      BY <1>5 DEF TriggerQueue, Holding
    <2>2. status = "running" /\ reap.pc = "idle" /\ ~SchedHolds /\ \A r \in Runs: ~Live(r)
      BY <2>1 DEF ClaimInv, HolderRuns, PassAlone, OneHolder, NoHolder
    <2>3. \A d \in Callers: d # c => ~Holding(d) /\ ~Holding(d)'
      BY <1>5, <2>1 DEF ClaimInv, OneHolder, TriggerQueue, Holding, Types
    <2>4. lastRun.at = now
      BY <1>5, <2>1 DEF ClaimInv, FreshClaim, TriggerQueue
    <2>5. UNCHANGED <<now, status, lastRun, sched, work, reap>>
      BY <1>5 DEF TriggerQueue
    <2>6. work.pc = "idle"
      BY <2>2 DEF ClaimInv, WorksOnLive, Live
    <2>7. CASE QueueRun /\ req' = [req EXCEPT ![c] = Answered]
      <3>1. PICK q \in Runs: /\ job' = [job EXCEPT ![q] = "queued"]
                             /\ created' = [created EXCEPT ![q] = now]
        BY <2>7 DEF QueueRun
      <3>2. \A d \in Callers: ~Holding(d)'
        BY <2>3, <2>7 DEF Holding, Answered, Unserved, Types
      <3>3. \A r \in Runs: Live(r)' => r = q
        BY <2>2, <3>1 DEF Live, Types
      <3>4. created'[q] = now
        BY <3>1 DEF Types
      <3>5. OneHolder'
        BY <2>2, <2>5, <3>2, <3>3 DEF OneHolder, SchedHolds
      <3>6. FreshClaim'
        BY <2>2, <2>4, <2>5, <3>2, <3>3, <3>4, Bounds
        DEF FreshClaim, SchedHolds, ClaimInv, Calm, Types
      <3> QED
        BY <2>2, <2>5, <2>6, <3>5, <3>6 DEF ClaimInv, HolderRuns, PassAlone, WorksOnLive
    <2>8. CASE req' = [req EXCEPT ![c].pc = "revert"] /\ UNCHANGED queue
      <3>1. ~SchedHolds' /\ \A r \in Runs: ~Live(r)'
        BY <2>2, <2>5, <2>8 DEF SchedHolds, Live
      <3>2. OneHolder' /\ FreshClaim'
        BY <2>3, <2>4, <2>5, <2>8, <3>1 DEF OneHolder, FreshClaim, ClaimInv
      <3> QED
        BY <2>2, <2>5, <2>6, <3>2 DEF ClaimInv, HolderRuns, PassAlone, WorksOnLive
    <2> QED
      BY <1>5, <2>7, <2>8 DEF TriggerQueue
  <1>6. CASE RevertTriggerClaim(c)
    <2>1. Holding(c)
      BY <1>6 DEF RevertTriggerClaim, Holding
    <2>2. reap.pc = "idle" /\ ~SchedHolds /\ \A r \in Runs: ~Live(r)
      BY <2>1 DEF ClaimInv, PassAlone, OneHolder, NoHolder
    <2>3. \A d \in Callers: ~Holding(d)'
      BY <1>6, <2>1 DEF ClaimInv, OneHolder, RevertTriggerClaim, Holding, Answered, Unserved,
         Types
    <2>4. UNCHANGED <<now, job, sched, work, reap>>
      BY <1>6 DEF RevertTriggerClaim
    <2>5. NoHolder'
      BY <2>2, <2>3, <2>4 DEF NoHolder, SchedHolds, Live
    <2>6. work.pc = "idle" /\ (sched.pc # "idle" => sched.at.at = now)
      BY <2>2 DEF ClaimInv, WorksOnLive, FreshClaim, Live
    <2> QED
      BY <2>2, <2>4, <2>5, <2>6, NobodyHolds
  <1> QED
    BY <1>1, <1>2, <1>3, <1>4, <1>5, <1>6 DEF CallStep

LEMMA SchedStepClaims ==
    ASSUME Types, ClaimInv, Calm, SchedRead \/ SchedStep
    PROVE  ClaimInv'
  <1> USE DEF record, queue, store
  <1>1. CASE SchedRead
    <2>1. /\ sched'.pc = "claim" /\ sched'.at.at = now
          /\ UNCHANGED <<now, status, lastRun, job, created, req, work, reap>>
      BY <1>1 DEF SchedRead, Stamp
    <2>2. ~SchedHolds' /\ (NoHolder => NoHolder')
      BY <2>1 DEF SchedHolds, NoHolder, Holding, Live
    <2> QED
      BY <2>1, <2>2 DEF ClaimInv, HolderRuns, PassAlone, OneHolder, FreshClaim, WorksOnLive,
         Holding, Live
  <1>2. ~Fault("claimFail")
    BY DEF Fault, Calm
  <1>3. CASE SchedClaim /\ status = "running" /\ sched' = Waiting
    <2>1. UNCHANGED <<now, status, lastRun, job, created, req, work, reap>>
      BY <1>3 DEF SchedClaim
    <2>2. sched'.pc = "idle" /\ ~SchedHolds' /\ (NoHolder => NoHolder')
      BY <1>3, <2>1 DEF Waiting, SchedHolds, NoHolder, Holding, Live
    <2> QED
      BY <2>1, <2>2 DEF ClaimInv, HolderRuns, PassAlone, OneHolder, FreshClaim, WorksOnLive,
         Holding, Live
  <1>4. CASE SchedClaim /\ status # "running"
    <2>1. NoHolder /\ reap.pc = "idle" /\ sched.at.at = now
      BY <1>4 DEF ClaimInv, HolderRuns, PassAlone, FreshClaim, SchedClaim
    <2>2. /\ status' = "running" /\ lastRun' = sched.at
          /\ sched'.at = sched.at
          /\ UNCHANGED <<now, job, created, req, work, reap>>
      BY <1>2, <1>4 DEF SchedClaim, Types, SchedRecs
    <2>3. (\A d \in Callers: ~Holding(d)') /\ \A r \in Runs: ~Live(r)'
      BY <2>1, <2>2 DEF NoHolder, Holding, Live
    <2> QED
      BY <2>1, <2>2, <2>3 DEF ClaimInv, HolderRuns, PassAlone, OneHolder, FreshClaim, WorksOnLive
  <1>5. CASE SchedQueue \/ HandleImportError
    <2>1. SchedHolds
      BY <1>5 DEF SchedQueue, HandleImportError, SchedHolds
    <2>2. /\ status = "running" /\ reap.pc = "idle" /\ work.pc = "idle" /\ lastRun.at = now
          /\ (\A d \in Callers: ~Holding(d)) /\ \A r \in Runs: ~Live(r)
      BY <2>1 DEF ClaimInv, HolderRuns, PassAlone, OneHolder, FreshClaim, WorksOnLive,
         NoHolder, Live
    <2>3. /\ UNCHANGED <<now, lastRun, req, work, reap>>
          /\ \A d \in Callers: ~Holding(d)'
      BY <1>5, <2>2 DEF SchedQueue, HandleImportError, Holding
    <2>4. CASE HandleImportError
      <3>1. sched'.pc = "idle" /\ UNCHANGED job
        BY <2>4 DEF HandleImportError, Waiting
      <3>2. NoHolder'
        BY <2>2, <2>3, <3>1 DEF NoHolder, SchedHolds, Live
      <3> QED
        BY <2>2, <2>3, <3>1, <3>2, NobodyHolds
    <2>5. CASE QueueRun /\ sched' = Waiting /\ UNCHANGED status
      <3>1. PICK q \in Runs: /\ job' = [job EXCEPT ![q] = "queued"]
                             /\ created' = [created EXCEPT ![q] = now]
        BY <2>5 DEF QueueRun
      <3>2. sched'.pc = "idle" /\ created'[q] = now
        BY <2>5, <3>1 DEF Waiting, Types
      <3>3. \A r \in Runs: Live(r)' => r = q
        BY <2>2, <3>1 DEF Live, Types
      <3>4. OneHolder'
        BY <2>3, <3>2, <3>3 DEF OneHolder, SchedHolds
      <3>5. FreshClaim'
        BY <2>2, <2>3, <3>2, <3>3, Bounds DEF FreshClaim, SchedHolds, Calm, Types
      <3> QED
        BY <2>2, <2>3, <2>5, <3>4, <3>5 DEF ClaimInv, HolderRuns, PassAlone, WorksOnLive
    <2>6. CASE SchedQueue /\ sched'.pc = "error" /\ UNCHANGED <<queue, status>>
      <3>1. sched'.at = sched.at
        BY <2>6 DEF SchedQueue, QueueRun, Waiting, Types, SchedRecs
      <3>2. \A r \in Runs: ~Live(r)'
        BY <2>2, <2>6 DEF Live
      <3>3. sched.at.at = now
        BY <2>1 DEF ClaimInv, FreshClaim, SchedHolds
      <3> QED
        BY <2>2, <2>3, <2>6, <3>1, <3>2, <3>3
        DEF ClaimInv, HolderRuns, PassAlone, OneHolder, FreshClaim, WorksOnLive
    <2>7. CASE SchedQueue
      <3>1. [sched EXCEPT !.pc = "error"].pc = "error"
        BY DEF Types, SchedRecs
      <3> QED
        BY <2>5, <2>6, <2>7, <3>1 DEF SchedQueue
    <2> QED
      BY <1>5, <2>4, <2>7
  <1>6. CASE SchedClaim
    BY <1>2, <1>3, <1>4, <1>6 DEF SchedClaim
  <1>7. CASE DisableInvalid
    <2>1. status # "running"
      BY <1>7 DEF DisableInvalid, Calm
    <2>2. NoHolder /\ reap.pc = "idle" /\ work.pc = "idle"
      BY <2>1 DEF ClaimInv, HolderRuns, PassAlone, WorksOnLive, NoHolder, Live
    <2>3. UNCHANGED <<now, job, req, work, reap>> /\ sched'.pc = "idle"
      BY <1>7 DEF DisableInvalid, Waiting
    <2>4. NoHolder'
      BY <2>2, <2>3 DEF NoHolder, SchedHolds, Holding, Live
    <2> QED
      BY <2>2, <2>3, <2>4, NobodyHolds
  <1> QED
    BY <1>1, <1>5, <1>6, <1>7 DEF SchedStep

LEMMA WorkStepClaims ==
    ASSUME Types, ClaimInv, Calm,
           WorkStep \/ \E r \in Runs: StartRun(r) \/ ReviewAnswered(r)
    PROVE  ClaimInv'
  <1> USE DEF record, queue, store
  <1>1. ASSUME NEW r \in Runs, StartRun(r) PROVE ClaimInv'
    <2>1. \A q \in Runs: Live(q)' <=> Live(q)
      BY <1>1 DEF StartRun, Live, Types
    <2>2. UNCHANGED <<now, status, lastRun, created, req, sched, reap>>
      BY <1>1 DEF StartRun
    <2>3. NoHolder => NoHolder'
      BY <2>1, <2>2 DEF NoHolder, Holding, SchedHolds
    <2>4. WorksOnLive'
      BY <1>1 DEF StartRun, WorksOnLive, Types
    <2> QED
      BY <2>1, <2>2, <2>3, <2>4 DEF ClaimInv, HolderRuns, PassAlone, OneHolder, FreshClaim,
         Holding, SchedHolds
  <1>2. ASSUME NEW r \in Runs, ReviewAnswered(r) PROVE ClaimInv'
    BY <1>2, Frame DEF ReviewAnswered
  <1>3. CASE FetchNothingNew \/ FetchCreatesFile \/ ProcessSheets \/ Judge
             \/ (FetchThrows /\ UNCHANGED job)
    <2>1. UNCHANGED <<now, status, lastRun, job, created, req, sched, reap>>
      BY <1>3 DEF FetchNothingNew, FetchCreatesFile, ProcessSheets, Judge, FetchThrows
    <2>2. WorksOnLive'
      <3>1. work.pc # "idle" /\ (work'.run = work.run \/ work'.pc = "idle")
        <4> USE DEF Types, WorkRecs
        <4>1. CASE FetchNothingNew
          BY <4>1 DEF FetchNothingNew
        <4>2. CASE FetchCreatesFile
          BY <4>2 DEF FetchCreatesFile
        <4>3. CASE ProcessSheets
          BY <4>3 DEF ProcessSheets
        <4>4. CASE Judge
          <5>1. work.pc = "judge"
                /\ \E o \in {"success", "paused", "failed"}:
                     work' = [work EXCEPT !.pc = "conclude", !.outcome = o]
            BY <4>4 DEF Judge
          <5> QED
            BY <5>1
        <4>5. CASE FetchThrows
          <5>1. work.pc = "fetch"
                /\ (work' = NoWork
                     \/ work' = [work EXCEPT !.pc = "conclude", !.outcome = "failed"])
            BY <4>5 DEF FetchThrows
          <5>2. CASE work' = NoWork
            BY <5>1, <5>2 DEF NoWork
          <5>3. CASE work' = [work EXCEPT !.pc = "conclude", !.outcome = "failed"]
            BY <5>1, <5>3
          <5> QED
            BY <5>1, <5>2, <5>3
        <4> QED
          BY <1>3, <4>1, <4>2, <4>3, <4>4, <4>5
      <3> QED
        BY <2>1, <3>1 DEF ClaimInv, WorksOnLive
    <2> QED
      BY <2>1, <2>2 DEF ClaimInv, HolderRuns, PassAlone, OneHolder, FreshClaim, NoHolder,
         Holding, SchedHolds, Live
  <1>4. CASE FetchThrows /\ ~UNCHANGED job
    <2>1. work.run \in Runs /\ job[work.run] = "processing" /\ work' = NoWork
      BY <1>4 DEF FetchThrows, ClaimInv, WorksOnLive
    <2>2. \A q \in Runs: Live(q)' <=> Live(q)
      BY <1>4, <2>1 DEF FetchThrows, Live, Types
    <2>3. UNCHANGED <<now, status, lastRun, created, req, sched, reap>>
      BY <1>4 DEF FetchThrows
    <2>4. NoHolder => NoHolder'
      BY <2>2, <2>3 DEF NoHolder, Holding, SchedHolds
    <2> QED
      BY <2>1, <2>2, <2>3, <2>4 DEF ClaimInv, HolderRuns, PassAlone, OneHolder, FreshClaim,
         WorksOnLive, NoWork, Holding, SchedHolds
  <1>5. CASE Conclude
    <2>1. work.run \in Runs /\ Live(work.run)
      BY <1>5 DEF Conclude, ClaimInv, WorksOnLive, Live
    <2>2. /\ reap.pc = "idle" /\ ~SchedHolds /\ (\A d \in Callers: ~Holding(d))
          /\ \A r \in Runs: Live(r) => r = work.run
      BY <2>1 DEF ClaimInv, PassAlone, OneHolder, NoHolder
    <2>3. UNCHANGED <<now, req, sched, reap>> /\ work'.pc = "idle"
      BY <1>5 DEF Conclude, NoWork
    <2>4. \A r \in Runs: ~Live(r)'
      BY <1>5, <2>2 DEF Conclude, Live, Types
    <2>5. NoHolder'
      BY <2>2, <2>3, <2>4 DEF NoHolder, Holding, SchedHolds
    <2>6. sched.pc # "idle" => sched.at.at = now
      BY DEF ClaimInv, FreshClaim
    <2> QED
      BY <2>2, <2>3, <2>5, <2>6, NobodyHolds
  <1>6. CASE FetchThrows
    <2>1. CASE UNCHANGED job
      BY <1>3, <1>6, <2>1
    <2>2. CASE ~UNCHANGED job
      BY <1>4, <1>6, <2>2
    <2> QED
      BY <2>1, <2>2
  <1>7. CASE WorkStep
    <2>1. CASE FetchNothingNew
      BY <1>3, <2>1
    <2>2. CASE FetchCreatesFile
      BY <1>3, <2>2
    <2>3. CASE ProcessSheets
      BY <1>3, <2>3
    <2>4. CASE Judge
      BY <1>3, <2>4
    <2> QED
      BY <1>5, <1>6, <1>7, <2>1, <2>2, <2>3, <2>4 DEF WorkStep
  <1> QED
    BY <1>1, <1>2, <1>7

LEMMA ReapStepClaims ==
    ASSUME Types, ClaimInv, Calm, ReapList \/ ReapStep
    PROVE  ClaimInv'
  <1> USE DEF record, queue, store
  <1>1. CASE ReapList
    <2>1. status = "running" /\ UNCHANGED <<now, status, lastRun, job, created, req, sched, work>>
      BY <1>1 DEF ReapList
    <2>2. ASSUME reap'.pc # "idle" PROVE NoHolder
      <3>1. Stuck(lastRun, now)
        BY <1>1, <2>2 DEF ReapList
      <3>2. lastRun.at = -1 \/ now - lastRun.at >= Threshold
        BY <3>1 DEF Stuck, NoStamp
      <3>3. lastRun.at # now
        BY <3>2, Bounds DEF Calm, Types
      <3>4. \A c \in Callers: ~Holding(c)
        BY <1>1, <3>3 DEF ReapList, Calm, ClaimInv, FreshClaim, Holding
      <3>5. ~SchedHolds
        BY <3>3 DEF ClaimInv, FreshClaim
      <3>6. \A r \in Runs: ~Live(r)
        BY <3>2, Bounds DEF ClaimInv, FreshClaim, Types
      <3> QED
        BY <3>4, <3>5, <3>6 DEF NoHolder
    <2> QED
      BY <2>1, <2>2 DEF ClaimInv, HolderRuns, PassAlone, OneHolder, FreshClaim, WorksOnLive,
         NoHolder, Holding, SchedHolds, Live
  <1>2. CASE ReapStep
    <2>1. reap.pc # "idle"
      BY <1>2 DEF ReapStep, ReapCheckActive, ReapResolve, ReapCancel, ReapFail, ReapRelease
    <2>2. NoHolder /\ status = "running" /\ work.pc = "idle"
      BY <2>1 DEF ClaimInv, PassAlone, WorksOnLive, NoHolder, Live
    <2>3. UNCHANGED <<now, req, sched, work>>
      BY <1>2 DEF ReapStep, ReapCheckActive, ReapResolve, ReapCancel, ReapFail, ReapRelease
    <2>4. UNCHANGED job
      BY <1>2, <2>2 DEF ReapStep, ReapCheckActive, ReapResolve, ReapCancel, ReapFail, ReapRelease,
         NoHolder, Live, Types
    <2>5. NoHolder'
      BY <2>2, <2>3, <2>4 DEF NoHolder, Holding, SchedHolds, Live
    <2>6. reap'.pc # "idle" => status' = "running"
      BY <1>2, <2>2 DEF ReapStep, ReapCheckActive, ReapResolve, ReapCancel, ReapFail, ReapRelease,
         PassDone, CleanupFails, Types, ReapRecs
    <2>7. sched'.pc # "idle" => sched'.at.at = now'
      BY <2>3 DEF ClaimInv, FreshClaim
    <2> QED
      BY <2>2, <2>3, <2>5, <2>6, <2>7 DEF ClaimInv, HolderRuns, PassAlone, OneHolder, FreshClaim,
         WorksOnLive, NoHolder
  <1> QED
    BY <1>1, <1>2

LEMMA TickClaims ==
    ASSUME Types, ClaimInv, Calm, Tick
    PROVE  ClaimInv'
  <1> USE DEF record, queue, store
  <1>1. /\ UNCHANGED <<status, lastRun, job, created, req, sched, work, reap>>
        /\ now' = now + 1
        /\ sched.pc = "idle" /\ reap.pc = "idle"
        /\ \A c \in Callers: req[c].pc \in {"idle", "done"}
        /\ \A r \in Runs: Live(r) => now + 1 - created[r] < Threshold
    BY DEF Tick, Calm
  <1>2. (\A c \in Callers: ~Holding(c)') /\ ~SchedHolds'
    BY <1>1 DEF Holding, SchedHolds
  <1>3. \A r \in Runs: Live(r)' <=> Live(r)
    BY <1>1 DEF Live
  <1>4. NoHolder => NoHolder'
    BY <1>1, <1>2, <1>3 DEF NoHolder
  <1>5. HolderRuns' /\ PassAlone' /\ WorksOnLive'
    BY <1>1, <1>3, <1>4 DEF ClaimInv, HolderRuns, PassAlone, WorksOnLive
  <1>6. OneHolder'
    BY <1>1, <1>2, <1>3 DEF ClaimInv, OneHolder
  <1>7. FreshClaim'
    BY <1>1, <1>2, <1>3, Bounds DEF ClaimInv, FreshClaim, Types
  <1> QED
    BY <1>5, <1>6, <1>7 DEF ClaimInv

LEMMA ClaimStep == Types /\ ClaimInv /\ Calm /\ [Next]_vars => ClaimInv'
  <1> SUFFICES ASSUME Types, ClaimInv, Calm, [Next]_vars PROVE ClaimInv'
    OBVIOUS
  <1>1. CASE Edit
    BY <1>1, Frame DEF Edit, queue, store
  <1>2. CASE UNCHANGED vars
    BY <1>2, Frame DEF vars, record, queue, store
  <1> QED
    BY <1>1, <1>2, CallStepClaims, SchedStepClaims, WorkStepClaims, ReapStepClaims, TickClaims
    DEF Next

LEMMA ClaimInvariant ==
    ASSUME Calm
    PROVE  Spec => [](Types /\ ClaimInv)
  <1>1. Init => Types /\ ClaimInv
    <2> SUFFICES ASSUME Init PROVE ClaimInv
      BY TypesInit
    <2>1. NoHolder /\ reap.pc = "idle" /\ sched.pc = "idle" /\ work.pc = "idle"
      BY DEF Init, NoHolder, Holding, SchedHolds, Live, Unserved, Waiting, NoWork
    <2> QED
      BY <2>1 DEF ClaimInv, HolderRuns, PassAlone, OneHolder, FreshClaim, WorksOnLive, NoHolder
  <1> QED
    BY <1>1, TypesStep, ClaimStep, PTL DEF Spec

\* For every number of webhook calls, users, runs and faults: while a workflow
\* of the schedule is alive the record says "running".
THEOREM ClaimHeld ==
    ASSUME Calm
    PROVE  Spec => []LiveRunHeld
  <1>1. ClaimInv => LiveRunHeld
    BY DEF ClaimInv, HolderRuns, NoHolder, LiveRunHeld
  <1> QED
    BY <1>1, ClaimInvariant, PTL

\* There is only one: whatever retries, webhook calls, users and the scheduler
\* queue, a second workflow never lives beside the first.
THEOREM RunsExcluded ==
    ASSUME Calm
    PROVE  Spec => []OneLiveRun
  <1>1. ClaimInv => OneLiveRun
    BY DEF ClaimInv, OneHolder, OneLiveRun
  <1> QED
    BY <1>1, ClaimInvariant, PTL

-----------------------------------------------------------------------------
\* A run creates one file at most, in the attempt that gets past the fetch, and
\* is never queued again after that.

Filed(r) == \E i \in 1..Len(files): files[i] = r
FilesOnce == \A i, j \in 1..Len(files): files[i] = files[j] => i = j
FileInv ==
    /\ FilesOnce
    /\ \A i \in 1..Len(files): files[i] \in Runs
    /\ \A r \in Runs: Filed(r) => job[r] \in {"processing", "done"}
    /\ WorksOnLive
    /\ work.pc = "fetch" => ~Filed(work.run)

LEMMA FileInit == Init => FileInv
  BY DEF Init, FileInv, FilesOnce, Filed, WorksOnLive, NoWork

\* The queue call of a trigger or of the scheduler leaves runs with files alone.
LEMMA QueueFiles ==
    ASSUME Types, FileInv, QueueRun, UNCHANGED <<files, work>>
    PROVE  FileInv'
  <1>1. PICK q \in Runs: job[q] = "none" /\ job' = [job EXCEPT ![q] = "queued"]
    BY DEF QueueRun
  <1>2. \A r \in Runs: job[r] # "none" => job'[r] = job[r]
    BY <1>1 DEF Types
  <1> QED
    BY <1>1, <1>2 DEF FileInv, FilesOnce, Filed, WorksOnLive

LEMMA FileStep ==
    ASSUME Types, FileInv, [Next]_vars
    PROVE  FileInv'
  <1> USE DEF record, queue, store
  <1>1. ASSUME UNCHANGED <<job, work, files>> PROVE FileInv'
    BY <1>1 DEF FileInv, FilesOnce, Filed, WorksOnLive
  <1>2. ASSUME NEW c \in Callers, Read(c) \/ CallStep(c) \/ WebCrash(c) PROVE FileInv'
    <2>1. UNCHANGED <<work, files>> /\ (UNCHANGED job \/ QueueRun)
      BY <1>2 DEF Read, WebCrash, CallStep, HookClaim, HookAssert, UserClaim, TriggerQueue,
         RevertTriggerClaim
    <2> QED
      BY <1>1, <2>1, QueueFiles
  <1>3. CASE Edit \/ SchedRead \/ SchedStep \/ ReapList \/ Tick \/ UNCHANGED vars
    <2>1. UNCHANGED <<work, files>> /\ (UNCHANGED job \/ QueueRun)
      BY <1>3 DEF Edit, SchedRead, SchedStep, DisableInvalid, SchedClaim, SchedQueue,
         HandleImportError, ReapList, Tick, vars
    <2> QED
      BY <1>1, <2>1, QueueFiles
  <1>4. ASSUME NEW r \in Runs, StartRun(r) PROVE FileInv'
    <2>1. /\ job[r] = "queued" /\ job' = [job EXCEPT ![r] = "processing"]
          /\ work'.pc = "fetch" /\ work'.run = r /\ UNCHANGED files
      BY <1>4 DEF StartRun
    <2>2. job'[r] = "processing" /\ \A q \in Runs: q # r => job'[q] = job[q]
      BY <2>1 DEF Types
    <2>3. ~Filed(r)
      BY <2>1 DEF FileInv
    <2> QED
      BY <2>1, <2>2, <2>3 DEF FileInv, FilesOnce, Filed, WorksOnLive
  <1>5. ASSUME NEW r \in Runs, ReviewAnswered(r) PROVE FileInv'
    BY <1>1, <1>5 DEF ReviewAnswered
  <1>6. CASE FetchThrows
    <2>1. /\ work.pc = "fetch" /\ UNCHANGED files
          /\ \/ job' = [job EXCEPT ![work.run] = "queued"] /\ work' = NoWork
             \/ /\ UNCHANGED job
                /\ work' = [work EXCEPT !.pc = "conclude", !.outcome = "failed"]
      BY <1>6 DEF FetchThrows
    <2>2. CASE job' = [job EXCEPT ![work.run] = "queued"] /\ work' = NoWork
      <3>1. ~Filed(work.run) /\ \A q \in Runs: q # work.run => job'[q] = job[q]
        BY <2>1, <2>2 DEF FileInv, WorksOnLive, Types
      <3> QED
        BY <2>1, <2>2, <3>1 DEF FileInv, FilesOnce, Filed, WorksOnLive, NoWork
    <2>3. CASE UNCHANGED job /\ work' = [work EXCEPT !.pc = "conclude", !.outcome = "failed"]
      <3>1. work'.pc = "conclude" /\ work'.run = work.run
        BY <2>3 DEF Types, WorkRecs
      <3> QED
        BY <2>1, <2>3, <3>1 DEF FileInv, FilesOnce, Filed, WorksOnLive
    <2> QED
      BY <2>1, <2>2, <2>3
  <1>7. CASE FetchCreatesFile
    <2>1. /\ work.run \in Runs /\ job[work.run] = "processing" /\ ~Filed(work.run)
          /\ UNCHANGED job /\ files' = Append(files, work.run)
      BY <1>7 DEF FetchCreatesFile, FileInv, WorksOnLive
    <2>2. work'.pc = "sheets" /\ work'.run = work.run
      BY <1>7 DEF FetchCreatesFile, Types, WorkRecs
    <2>3. /\ Len(files') = Len(files) + 1 /\ Len(files) \in Nat
          /\ \A i \in 1..Len(files): files'[i] = files[i]
          /\ files'[Len(files) + 1] = work.run
      BY <2>1 DEF Types, WorkRecs
    <2>4. FilesOnce' /\ \A i \in 1..Len(files'): files'[i] \in Runs
      BY <2>1, <2>3 DEF FileInv, FilesOnce, Filed
    <2>5. \A r \in Runs: Filed(r)' => Filed(r) \/ r = work.run
      BY <2>3 DEF Filed
    <2> QED
      BY <2>1, <2>2, <2>4, <2>5 DEF FileInv, WorksOnLive
  <1>8. CASE FetchNothingNew \/ ProcessSheets \/ Judge
    <2>1. UNCHANGED <<job, files>> /\ work.pc # "idle"
      BY <1>8 DEF FetchNothingNew, ProcessSheets, Judge
    <2>2. work'.run = work.run /\ work'.pc \in {"conclude", "judge"}
      <3>1. CASE FetchNothingNew
        BY <3>1 DEF FetchNothingNew, Types, WorkRecs
      <3>2. CASE ProcessSheets
        BY <3>2 DEF ProcessSheets, Types, WorkRecs
      <3>3. CASE Judge
        <4>1. PICK o \in Outcomes: work' = [work EXCEPT !.pc = "conclude", !.outcome = o]
          BY <3>3 DEF Judge, Outcomes
        <4> QED
          BY <4>1 DEF Types, WorkRecs
      <3> QED
        BY <1>8, <3>1, <3>2, <3>3
    <2> QED
      BY <2>1, <2>2 DEF FileInv, FilesOnce, Filed, WorksOnLive
  <1>9. CASE Conclude
    <2>1. /\ UNCHANGED files /\ work' = NoWork /\ job' = [job EXCEPT ![work.run] = "done"]
      BY <1>9 DEF Conclude
    <2>2. \A r \in Runs: job'[r] = job[r] \/ job'[r] = "done"
      BY <2>1 DEF Types
    <2> QED
      BY <2>1, <2>2 DEF FileInv, FilesOnce, Filed, WorksOnLive, NoWork
  <1>10. CASE ReapStep
    <2>1. UNCHANGED <<work, files>>
          /\ \A r \in Runs: job'[r] = job[r] \/ (job[r] = "queued" /\ job'[r] = "done")
      BY <1>10 DEF ReapStep, ReapCheckActive, ReapResolve, ReapCancel, ReapFail, ReapRelease
    <2> QED
      BY <2>1 DEF FileInv, FilesOnce, Filed, WorksOnLive
  <1> QED
    BY <1>2, <1>3, <1>4, <1>5, <1>6, <1>7, <1>8, <1>9, <1>10 DEF Next, WorkStep

-----------------------------------------------------------------------------
\* Runs are queued one after the other, so that the newest file is the last run's
\* if that run made one; and while the reaper's pass is on, the claim it listed is
\* the claim the record holds.

Serial ==
    /\ \A r, s \in Runs: job[r] # "none" /\ s < r => job[s] # "none"
    /\ \A r \in Runs: Live(r) => LastQueued(r)
    /\ \A i \in 1..Len(files): LastQueued(files[i]) => i = Len(files)
SameClaim == reap.pc # "idle" => reap.lastRun = lastRun
SparedInv == Serial /\ SameClaim /\ FinishedRunsSpared

LEMMA SerialInit == Init => Serial
  BY DEF Init, Serial, Live

\* Steps that queue nothing and create no file.
LEMMA SerialFrame ==
    ASSUME Types, FileInv, Serial, UNCHANGED files,
           \A r \in Runs: /\ (job[r] = "none") <=> (job'[r] = "none")
                          /\ Live(r)' => Live(r)
    PROVE  Serial'
  <1>1. \A r \in Runs: r # MaxRuns => r + 1 \in Runs
    BY Bounds DEF Runs
  <1>2. \A r \in Runs: LastQueued(r)' <=> LastQueued(r)
    BY <1>1 DEF LastQueued
  <1> QED
    BY <1>2 DEF Serial, FileInv

\* A run queued while none is alive is the last one, and has no file.
LEMMA SerialQueue ==
    ASSUME Types, FileInv, Serial, QueueRun, UNCHANGED files, \A r \in Runs: ~Live(r)
    PROVE  Serial'
  <1>1. PICK q \in Runs: /\ job[q] = "none" /\ \A s \in Runs: s < q => job[s] # "none"
                         /\ job' = [job EXCEPT ![q] = "queued"]
    BY DEF QueueRun
  <1>2. job'[q] = "queued" /\ \A r \in Runs: r # q => job'[r] = job[r]
    BY <1>1 DEF Types
  <1>3. \A r \in Runs: r > q => job[r] = "none"
    BY <1>1 DEF Serial
  <1>4. \A r \in Runs: r # MaxRuns => r + 1 \in Runs
    BY Bounds DEF Runs
  <1>5. \A r \in Runs: r \in Nat
    BY Bounds DEF Runs
  <1>6. \A r, s \in Runs: job'[r] # "none" /\ s < r => job'[s] # "none"
    BY <1>1, <1>2, <1>3, <1>5
  <1>7. \A r \in Runs: Live(r)' => r = q
    BY <1>2 DEF Live
  <1>8. LastQueued(q)'
    BY <1>2, <1>3, <1>4, <1>5 DEF LastQueued
  <1>9. \A i \in 1..Len(files'): LastQueued(files[i])' => i = Len(files')
    <2> SUFFICES ASSUME NEW i \in 1..Len(files), LastQueued(files[i])' PROVE i = Len(files)
      OBVIOUS
    <2>1. files[i] \in Runs /\ files[i] # q /\ job[files[i]] # "none"
      BY <1>1 DEF FileInv, Filed
    <2>2. files[i] = MaxRuns \/ job'[files[i] + 1] = "none"
      BY DEF LastQueued
    <2>3. LastQueued(files[i])
      BY <1>2, <1>4, <2>1, <2>2 DEF LastQueued
    <2> QED
      BY <2>3 DEF Serial
  <1> QED
    BY <1>6, <1>7, <1>8, <1>9 DEF Serial

LEMMA SerialStep ==
    ASSUME Types, ClaimInv, FileInv, Serial, [Next]_vars
    PROVE  Serial'
  <1> USE DEF record, queue, store
  <1>1. ASSUME UNCHANGED <<job, files>> PROVE Serial'
    BY <1>1, SerialFrame DEF Live
  <1>2. ASSUME NEW c \in Callers, Read(c) \/ CallStep(c) \/ WebCrash(c) PROVE Serial'
    <2>1. CASE TriggerQueue(c)
      <3>1. \A r \in Runs: ~Live(r)
        BY <2>1 DEF TriggerQueue, ClaimInv, OneHolder, Holding
      <3>2. UNCHANGED files /\ (QueueRun \/ UNCHANGED job)
        BY <2>1 DEF TriggerQueue
      <3> QED
        BY <1>1, <3>1, <3>2, SerialQueue
    <2> QED
      BY <1>1, <1>2, <2>1 DEF Read, WebCrash, CallStep, HookClaim, HookAssert, UserClaim,
         RevertTriggerClaim
  <1>3. CASE SchedQueue
    <2>1. \A r \in Runs: ~Live(r)
      BY <1>3 DEF SchedQueue, ClaimInv, OneHolder, SchedHolds
    <2>2. UNCHANGED files /\ (QueueRun \/ UNCHANGED job)
      BY <1>3 DEF SchedQueue
    <2> QED
      BY <1>1, <2>1, <2>2, SerialQueue
  <1>4. CASE FetchCreatesFile
    <2>1. /\ work.run \in Runs /\ job[work.run] = "processing" /\ ~Filed(work.run)
          /\ UNCHANGED job /\ files' = Append(files, work.run)
      BY <1>4 DEF FetchCreatesFile, FileInv, WorksOnLive
    <2>2. /\ Len(files') = Len(files) + 1 /\ Len(files) \in Nat
          /\ \A i \in 1..Len(files): files'[i] = files[i]
      BY <2>1 DEF Types, WorkRecs
    <2>3. LastQueued(work.run)
      BY <2>1 DEF Serial, Live
    <2>4. \A r \in Runs: LastQueued(r) => r = work.run
      <3> SUFFICES ASSUME NEW r \in Runs, LastQueued(r), r # work.run PROVE FALSE
        OBVIOUS
      <3>1. \A a, b \in Runs: job[b] # "none" /\ a < b => a # MaxRuns /\ job[a + 1] # "none"
        <4> SUFFICES ASSUME NEW a \in Runs, NEW b \in Runs, job[b] # "none", a < b
                     PROVE  a # MaxRuns /\ job[a + 1] # "none"
          OBVIOUS
        <4>1. a # MaxRuns /\ a + 1 \in Runs /\ (a + 1 < b \/ a + 1 = b)
          BY Bounds DEF Runs
        <4> QED
          BY <4>1 DEF Serial
      <3>2. r < work.run \/ work.run < r
        BY <2>1, Bounds DEF Runs
      <3> QED
        BY <2>1, <2>3, <3>1, <3>2 DEF LastQueued
    <2>5. \A i \in 1..Len(files): ~LastQueued(files[i])
      BY <2>1, <2>4 DEF FileInv, Filed
    <2>6. \A r \in Runs: (LastQueued(r)' <=> LastQueued(r)) /\ (Live(r)' <=> Live(r))
      BY <2>1 DEF LastQueued, Live
    <2>7. \A i \in 1..Len(files'): LastQueued(files[i])' => i = Len(files')
      <3> SUFFICES ASSUME NEW i \in 1..Len(files), LastQueued(files[i])' PROVE FALSE
        BY <2>2
      <3> QED
        BY <2>1, <2>2, <2>5, <2>6 DEF FileInv
    <2> QED
      BY <2>1, <2>6, <2>7 DEF Serial
  <1>5. CASE WorkStep /\ ~FetchCreatesFile
    <2>1. /\ UNCHANGED files /\ work.run \in Runs /\ job[work.run] = "processing"
          /\ \/ UNCHANGED job
             \/ \E j \in {"queued", "done"}: job' = [job EXCEPT ![work.run] = j]
      BY <1>5 DEF WorkStep, FetchThrows, FetchNothingNew, ProcessSheets, Judge, Conclude,
         FileInv, WorksOnLive
    <2>2. \A r \in Runs: /\ (job[r] = "none") <=> (job'[r] = "none")
                         /\ Live(r)' => Live(r)
      BY <2>1 DEF Live, Types
    <2> QED
      BY <2>1, <2>2, SerialFrame
  <1>6. ASSUME NEW r \in Runs, StartRun(r) \/ ReviewAnswered(r) PROVE Serial'
    <2>1. /\ UNCHANGED files
          /\ \/ UNCHANGED job
             \/ job[r] = "queued" /\ job' = [job EXCEPT ![r] = "processing"]
      BY <1>6 DEF StartRun, ReviewAnswered
    <2>2. \A q \in Runs: /\ (job[q] = "none") <=> (job'[q] = "none")
                         /\ Live(q)' => Live(q)
      BY <2>1 DEF Live, Types
    <2> QED
      BY <2>1, <2>2, SerialFrame
  <1>7. CASE ReapStep
    <2>1. /\ UNCHANGED files
          /\ \A r \in Runs: job'[r] = job[r] \/ (job[r] = "queued" /\ job'[r] = "done")
      BY <1>7 DEF ReapStep, ReapCheckActive, ReapResolve, ReapCancel, ReapFail, ReapRelease
    <2>2. \A q \in Runs: /\ (job[q] = "none") <=> (job'[q] = "none")
                         /\ Live(q)' => Live(q)
      BY <2>1 DEF Live
    <2> QED
      BY <2>1, <2>2, SerialFrame
  <1>8. CASE \/ Edit \/ SchedRead \/ (SchedStep /\ ~SchedQueue) \/ ReapList \/ Tick
             \/ UNCHANGED vars
    BY <1>1, <1>8 DEF Edit, SchedRead, SchedStep, DisableInvalid, SchedClaim, HandleImportError,
       ReapList, Tick, vars
  <1> QED
    BY <1>2, <1>3, <1>4, <1>5, <1>6, <1>7, <1>8 DEF Next

\* The newest file decides for the last run.
LEMMA NewestFile ==
    ASSUME Types, FileInv, Serial, SameClaim, reap.pc # "idle",
           NEW r \in Runs, LastQueued(r), CreatedSince(r, lastRun)
    PROVE  Resolved = file[r]
  <1>1. lastRun.seen \in Nat /\ Len(files) \in Nat
    BY DEF Types, AnyStamp
  <1>2. PICK i \in (lastRun.seen + 1)..Len(files): files[i] = r
    BY DEF CreatedSince
  <1>3. i \in 1..Len(files) /\ i = Len(files)
    BY <1>1, <1>2 DEF Serial
  <1>4. files # << >> /\ files[Len(files)] = r /\ reap.lastRun = lastRun
    BY <1>2, <1>3 DEF SameClaim
  <1> QED
    BY <1>4 DEF Resolved

LEMMA SparedStep ==
    ASSUME Types, ClaimInv, FileInv, SparedInv, [Next]_vars
    PROVE  SameClaim' /\ FinishedRunsSpared'
  <1> USE DEF record, queue, store
  <1>1. CASE reap.pc = "idle"
    <2>1. UNCHANGED reap \/ ReapList
      BY <1>1 DEF Next, Read, WebCrash, CallStep, HookClaim, HookAssert, UserClaim, TriggerQueue,
         RevertTriggerClaim, Edit, SchedRead, SchedStep, DisableInvalid, SchedClaim, SchedQueue,
         HandleImportError, StartRun, ReviewAnswered, WorkStep, FetchThrows, FetchNothingNew,
         FetchCreatesFile, ProcessSheets, Judge, Conclude, ReapStep, ReapCheckActive, ReapResolve,
         ReapCancel, ReapFail, ReapRelease, Tick, vars
    <2>2. CASE ReapList
      <3>1. UNCHANGED lastRun
        BY <2>2 DEF ReapList
      <3>2. \/ reap' = [pc |-> "active", at |-> now, lastRun |-> lastRun]
            \/ reap' = [pc |-> "idle", at |-> now, lastRun |-> NoStamp]
        BY <2>2 DEF ReapList
      <3>3. reap'.pc = "idle" \/ (reap'.pc = "active" /\ reap'.lastRun = lastRun)
        BY <3>2
      <3> QED
        BY <3>1, <3>3 DEF SameClaim, FinishedRunsSpared
    <2> QED
      BY <1>1, <2>1, <2>2 DEF SameClaim, FinishedRunsSpared
  <1>2. CASE reap.pc # "idle" /\ ~ReapStep
    <2>1. /\ status = "running" /\ ~SchedHolds /\ work.pc = "idle"
          /\ (\A c \in Callers: ~Holding(c)) /\ \A r \in Runs: ~Live(r)
      BY <1>2 DEF ClaimInv, PassAlone, NoHolder, WorksOnLive, Live
    <2>2. /\ UNCHANGED <<lastRun, job, files, reap>>
          /\ UNCHANGED file \/ \E r \in Runs: ReviewAnswered(r)
      <3>1. ASSUME NEW c \in Callers, Read(c) \/ CallStep(c) \/ WebCrash(c)
            PROVE  UNCHANGED <<lastRun, job, files, reap, file>>
        BY <2>1, <3>1 DEF Read, CallStep, WebCrash, HookClaim, HookAssert, UserClaim,
           TriggerQueue, RevertTriggerClaim, Holding
      <3>2. CASE Edit \/ SchedRead \/ SchedStep
        BY <2>1, <3>2 DEF Edit, SchedRead, SchedStep, DisableInvalid, SchedClaim, SchedQueue,
           HandleImportError, SchedHolds
      <3>3. CASE WorkStep \/ ReapList \/ Tick \/ \E r \in Runs: StartRun(r)
        BY <1>2, <2>1, <3>3 DEF WorkStep, FetchThrows, FetchNothingNew, FetchCreatesFile,
           ProcessSheets, Judge, Conclude, ReapList, Tick, StartRun, Live
      <3>4. CASE UNCHANGED vars \/ \E r \in Runs: ReviewAnswered(r)
        BY <3>4 DEF vars, ReviewAnswered
      <3> QED
        BY <1>2, <3>1, <3>2, <3>3, <3>4 DEF Next
    <2>3. ASSUME reap.pc \in {"cancel", "fail", "release"}, NEW r \in Runs,
                 LastQueued(r)', CreatedSince(r, lastRun)'
          PROVE  file'[r] \notin {"completed", "review"}
      <3>1. LastQueued(r) /\ CreatedSince(r, lastRun)
        BY <2>2, <2>3 DEF LastQueued, CreatedSince
      <3>2. file[r] \notin {"completed", "review"}
        BY <2>3, <3>1 DEF SparedInv, FinishedRunsSpared
      <3>3. UNCHANGED file[r]
        <4>1. ASSUME NEW q \in Runs, ReviewAnswered(q) PROVE UNCHANGED file[r]
          <5>1. file[q] = "review"
                /\ \E o \in {"completed", "failed"}: file' = [file EXCEPT ![q] = o]
            BY <4>1 DEF ReviewAnswered
          <5>2. q # r
            BY <3>2, <5>1
          <5> QED
            BY <5>1, <5>2
        <4> QED
          BY <2>2, <4>1
      <3> QED
        BY <3>2, <3>3
    <2> QED
      BY <2>2, <2>3 DEF SparedInv, SameClaim, FinishedRunsSpared
  <1>3. CASE reap.pc # "idle" /\ ReapStep
    <2>1. \A r \in Runs: ~Live(r)
      BY <1>3 DEF ClaimInv, PassAlone, NoHolder
    <2>2. CASE reap'.pc = "idle"
      BY <2>2 DEF SameClaim, FinishedRunsSpared
    <2>3. CASE ReapCheckActive \/ ReapResolve \/ ReapCancel \/ ReapFail
      <3>9. PassDone.pc = "idle" /\ \A x \in ReapPcs: [reap EXCEPT !.pc = x].pc = x
        BY DEF PassDone, Types, ReapRecs
      <3>1. UNCHANGED files /\ (reap'.pc # "idle" => UNCHANGED lastRun)
        BY <2>3, <3>9 DEF ReapCheckActive, ReapResolve, ReapCancel, ReapFail
      <3>2. reap'.lastRun = reap.lastRun \/ reap'.pc = "idle"
        BY <2>3 DEF ReapCheckActive, ReapResolve, ReapCancel, ReapFail, CleanupFails, PassDone,
           Types, ReapRecs
      <3>3. SameClaim'
        BY <1>3, <3>1, <3>2 DEF SparedInv, SameClaim
      <3>4. UNCHANGED job
        BY <2>1, <2>3 DEF ReapCheckActive, ReapResolve, ReapCancel, ReapFail, Live, Types
      <3>5. \A r \in Runs: LastQueued(r)' <=> LastQueued(r)
        BY <3>4 DEF LastQueued
      <3>6. \A r \in Runs: file'[r] = file[r] \/ file'[r] = "failed"
        BY <2>3 DEF ReapCheckActive, ReapResolve, ReapCancel, ReapFail
      <3>7. reap.pc = "resolve" \/ reap.pc \in {"cancel", "fail"} \/ reap'.pc \in {"idle", "resolve"}
        BY <2>3 DEF ReapCheckActive, ReapResolve, ReapCancel, ReapFail, PassDone, Types, ReapRecs
      <3>8. ASSUME reap'.pc \in {"cancel", "fail", "release"}, NEW r \in Runs,
                   LastQueued(r)', CreatedSince(r, lastRun)'
            PROVE  file'[r] \notin {"completed", "review"}
        <4>1. LastQueued(r) /\ CreatedSince(r, lastRun)
          BY <3>1, <3>5, <3>8 DEF CreatedSince
        <4>2. CASE reap.pc = "resolve"
          <5>1. Resolved = file[r]
            BY <1>3, <4>1, NewestFile DEF SparedInv
          <5>2. Resolved \notin {"completed", "review"} /\ UNCHANGED file
            BY <2>3, <3>9, <3>8, <4>2 DEF ReapCheckActive, ReapResolve, ReapCancel, ReapFail
          <5> QED
            BY <5>1, <5>2
        <4>3. CASE reap.pc \in {"cancel", "fail"}
          BY <3>6, <4>1, <4>3 DEF SparedInv, FinishedRunsSpared
        <4> QED
          BY <3>7, <3>8, <4>2, <4>3
      <3> QED
        BY <3>3, <3>8 DEF FinishedRunsSpared
    <2>4. CASE ReapRelease
      BY <2>2, <2>4 DEF ReapRelease, PassDone
    <2> QED
      BY <1>3, <2>3, <2>4 DEF ReapStep
  <1> QED
    BY <1>1, <1>2, <1>3

\* While claims are held one at a time, the reaper never writes off a run, nor
\* touches its file, when the import the run made is complete or awaits its owner.
THEOREM RunsSpared ==
    ASSUME Calm
    PROVE  Spec => []FinishedRunsSpared
  <1>1. Init => FileInv /\ SparedInv
    BY FileInit, SerialInit DEF Init, SparedInv, SameClaim, FinishedRunsSpared
  <1>2. /\ Types /\ ClaimInv /\ FileInv /\ SparedInv /\ [Next]_vars
        => FileInv' /\ SparedInv'
    BY FileStep, SerialStep, SparedStep DEF SparedInv
  <1>3. SparedInv => FinishedRunsSpared
    BY DEF SparedInv
  <1>4. Spec => [](Types /\ ClaimInv)
    BY ClaimInvariant
  <1> QED
    BY <1>1, <1>2, <1>3, <1>4, PTL DEF Spec

-----------------------------------------------------------------------------
\* The bounds of the types.  No sequence of files is longer than there are runs,
\* since each run creates one at most.

FileStates == {"none", "open", "review", "completed", "failed"}
Bounded ==
    /\ now <= MaxTime /\ lastRun \in Stamps
    /\ enabled \in BOOLEAN /\ nextRun \in 0..(MaxTime + Period)
    /\ created \in [Runs -> 0..MaxTime] /\ tries \in [Runs -> 0..Attempts]
    /\ file \in [Runs -> FileStates] /\ files \in Seq(Runs)
    /\ \A c \in Callers: req[c].lastRun \in Stamps
    /\ sched.at \in Stamps /\ (sched.pc # "idle" => sched.at.at >= 0)
    /\ work.run \in 0..MaxRuns
    /\ reap.at \in -1..MaxTime /\ reap.lastRun \in Stamps
    /\ budget \in 0..MaxFaults

LEMMA BoundedTypes == Types /\ Bounded => TypeOK
  <1> SUFFICES ASSUME Types, Bounded PROVE TypeOK
    OBVIOUS
  <1>1. \A c \in Callers: req[c] \in [pc: CallPcs, status: Statuses, lastRun: Stamps, retries: Nat]
    BY DEF Types, Bounded, CallRecs
  <1>2. /\ sched \in [pc: {"idle", "claim", "queue", "error"}, at: Stamps]
        /\ work \in [pc: WorkPcs, run: 0..MaxRuns, outcome: Outcomes]
        /\ reap \in [pc: ReapPcs, at: -1..MaxTime, lastRun: Stamps]
    BY DEF Types, Bounded, SchedRecs, WorkRecs, ReapRecs
  <1>3. req \in [Callers -> [pc: CallPcs, status: Statuses, lastRun: Stamps, retries: Nat]]
    BY <1>1 DEF Types
  <1>4. now \in 0..MaxTime
    BY Bounds DEF Types, Bounded
  <1> QED
    BY <1>2, <1>3, <1>4 DEF TypeOK, Types, Bounded, CallPcs, WorkPcs, Outcomes, ReapPcs,
       JobStates, FileStates

LEMMA FewFiles ==
    ASSUME FileInv, files \in Seq(Runs)
    PROVE  Len(files) <= MaxRuns
  <1>1. Len(files) \in Nat /\ files \in [1..Len(files) -> Runs]
    OBVIOUS
  <1>2. IsInjective(files)
    BY <1>1 DEF IsInjective, FileInv, FilesOnce
  <1>3. files \in Injection(1..Len(files), Runs)
    BY <1>1, <1>2 DEF Injection
  <1>4. /\ IsFiniteSet(1..Len(files)) /\ Cardinality(1..Len(files)) = Len(files)
        /\ IsFiniteSet(Runs) /\ Cardinality(Runs) = MaxRuns
    <2>1. 1 \in Int /\ Len(files) \in Int /\ MaxRuns \in Int /\ Len(files) >= 0 /\ MaxRuns >= 0
      BY <1>1, Bounds
    <2>2. /\ IsFiniteSet(1..Len(files))
          /\ Cardinality(1..Len(files)) = IF 1 > Len(files) THEN 0 ELSE Len(files) - 1 + 1
      BY <2>1, FS_Interval
    <2>3. /\ IsFiniteSet(1..MaxRuns)
          /\ Cardinality(1..MaxRuns) = IF 1 > MaxRuns THEN 0 ELSE MaxRuns - 1 + 1
      BY <2>1, FS_Interval
    <2> QED
      BY <2>1, <2>2, <2>3 DEF Runs
  <1> QED
    BY <1>3, <1>4, FS_Injection

LEMMA StampBounded ==
    ASSUME Types, FileInv, Bounded
    PROVE  /\ Stamp \in Stamps /\ Stamp.at = now /\ now \in 0..MaxTime
           /\ NoStamp \in Stamps
  <1>1. now \in 0..MaxTime /\ now \in -1..MaxTime /\ -1 \in -1..MaxTime /\ 0 \in 0..MaxRuns
    BY Bounds DEF Types, Bounded
  <1>2. Len(files) \in 0..MaxRuns
    BY FewFiles, Bounds DEF Bounded
  <1> QED
    BY <1>1, <1>2 DEF Stamp, NoStamp, Stamps

LEMMA BudgetStep ==
    ASSUME budget \in 0..MaxFaults, [Next]_vars
    PROVE  budget' \in 0..MaxFaults
  <1>1. ASSUME \/ NoFault
               \/ \E f \in FaultKinds: Fault(f)
        PROVE  budget' \in 0..MaxFaults
    BY <1>1, Bounds DEF NoFault, Fault
  <1>2. NoFault \/ \E f \in FaultKinds: Fault(f)
    <2>1. ASSUME NEW c \in Callers, Read(c) \/ CallStep(c) \/ WebCrash(c)
          PROVE  NoFault \/ \E f \in FaultKinds: Fault(f)
      BY <2>1 DEF Read, CallStep, WebCrash, HookClaim, HookAssert, UserClaim, TriggerQueue,
         RevertTriggerClaim, FaultKinds
    <2>2. CASE Edit \/ SchedRead \/ SchedStep
      BY <2>2 DEF Edit, SchedRead, SchedStep, DisableInvalid, SchedClaim, SchedQueue,
         HandleImportError, FaultKinds
    <2>3. CASE WorkStep \/ \E r \in Runs: StartRun(r) \/ ReviewAnswered(r)
      BY <2>3 DEF WorkStep, FetchThrows, FetchNothingNew, FetchCreatesFile, ProcessSheets, Judge,
         Conclude, StartRun, ReviewAnswered, FaultKinds
    <2>4. CASE ReapList \/ ReapStep \/ Tick \/ UNCHANGED vars
      BY <2>4 DEF ReapList, ReapStep, ReapCheckActive, ReapResolve, ReapCancel, ReapFail,
         ReapRelease, CleanupFails, Tick, vars, NoFault, FaultKinds
    <2> QED
      BY <2>1, <2>2, <2>3, <2>4 DEF Next
  <1> QED
    BY <1>1, <1>2

LEMMA BoundedStep ==
    ASSUME Types, FileInv, Bounded, [Next]_vars
    PROVE  Bounded'
  <1> USE DEF record, queue, store
  <1>1. /\ Stamp \in Stamps /\ Stamp.at = now /\ now \in 0..MaxTime /\ NoStamp \in Stamps
        /\ budget' \in 0..MaxFaults
    BY StampBounded, BudgetStep DEF Bounded
  <1>2. \A t \in 0..MaxTime: t + Period \in 0..(MaxTime + Period)
    BY Bounds
  <1>3. ASSUME NEW c \in Callers, Read(c) \/ WebCrash(c) PROVE Bounded'
    <2>1. \E q \in {Call("read"), Answered}: req' = [req EXCEPT ![c] = q]
      BY <1>3 DEF Read, WebCrash
    <2>2. Call("read").lastRun \in Stamps /\ Answered.lastRun \in Stamps
      BY <1>1 DEF Call, Answered, Unserved, Bounded
    <2>3. \A d \in Callers: req'[d].lastRun \in Stamps
      BY <2>1, <2>2 DEF Types, Bounded
    <2> QED
      BY <1>1, <1>3, <2>3 DEF Read, WebCrash, Bounded
  <1>4. ASSUME NEW c \in Callers, CallStep(c) PROVE Bounded'
    <2>1. req[c].lastRun \in Stamps /\ Answered.lastRun \in Stamps
          /\ \A x \in CallPcs: [req[c] EXCEPT !.pc = x].lastRun = req[c].lastRun
      BY <1>1 DEF Answered, Unserved, Types, CallRecs, Bounded
    <2>2. \/ req' = [req EXCEPT ![c] = Answered]
          \/ \E x \in CallPcs: req' = [req EXCEPT ![c].pc = x]
      BY <1>4 DEF CallStep, HookClaim, HookAssert, UserClaim, TriggerQueue, RevertTriggerClaim,
         CallPcs
    <2>3. \A d \in Callers: req'[d].lastRun \in Stamps
      BY <2>1, <2>2 DEF Types, Bounded
    <2>4. lastRun' \in Stamps
      BY <1>1, <1>4, <2>1 DEF CallStep, HookClaim, HookAssert, UserClaim, TriggerQueue,
         RevertTriggerClaim, Bounded
    <2>5. created' \in [Runs -> 0..MaxTime] /\ tries' \in [Runs -> 0..Attempts]
      BY <1>1, <1>4 DEF CallStep, HookClaim, HookAssert, UserClaim, TriggerQueue, QueueRun,
         RevertTriggerClaim, Bounded
    <2>6. UNCHANGED <<now, enabled, nextRun, file, files, sched, work, reap>>
      BY <1>4 DEF CallStep, HookClaim, HookAssert, UserClaim, TriggerQueue, RevertTriggerClaim
    <2> QED
      BY <1>1, <2>3, <2>4, <2>5, <2>6 DEF Bounded
  <1>5. CASE Edit
    BY <1>1, <1>2, <1>5 DEF Edit, Bounded
  <1>6. CASE SchedRead \/ SchedStep
    <2>1. sched'.at \in Stamps /\ (sched'.pc # "idle" => sched'.at.at >= 0)
      <3>1. CASE SchedRead
        BY <1>1, <3>1 DEF SchedRead
      <3>2. CASE sched' = Waiting
        BY <1>1, <3>2 DEF Waiting
      <3>3. ASSUME NEW x \in {"queue", "error"}, sched' = [sched EXCEPT !.pc = x],
                   sched.pc # "idle"
            PROVE  sched'.at \in Stamps /\ (sched'.pc # "idle" => sched'.at.at >= 0)
        BY <3>3 DEF Types, SchedRecs, Bounded
      <3> QED
        BY <1>6, <3>1, <3>2, <3>3 DEF SchedStep, DisableInvalid, SchedClaim, SchedQueue,
           HandleImportError
    <2>2. lastRun' \in Stamps
      BY <1>6 DEF SchedRead, SchedStep, DisableInvalid, SchedClaim, SchedQueue,
         HandleImportError, Bounded
    <2>3. sched.pc # "idle" => sched.at.at \in 0..MaxTime
      <3>1. sched.at.at \in -1..MaxTime /\ (sched.pc # "idle" => sched.at.at >= 0)
        BY DEF Bounded, Stamps
      <3>2. MaxTime \in Nat
        BY Bounds
      <3> QED
        BY <3>1, <3>2
    <2>4. nextRun' \in 0..(MaxTime + Period) /\ enabled' \in BOOLEAN
      BY <1>2, <1>6, <2>3 DEF SchedRead, SchedStep, DisableInvalid, SchedClaim, SchedQueue,
         HandleImportError, Bounded
    <2>5. created' \in [Runs -> 0..MaxTime] /\ tries' \in [Runs -> 0..Attempts]
      BY <1>1, <1>6 DEF SchedRead, SchedStep, DisableInvalid, SchedClaim, SchedQueue, QueueRun,
         HandleImportError, Bounded
    <2>6. UNCHANGED <<now, file, files, req, work, reap>>
      BY <1>6 DEF SchedRead, SchedStep, DisableInvalid, SchedClaim, SchedQueue,
         HandleImportError
    <2> QED
      BY <1>1, <2>1, <2>2, <2>4, <2>5, <2>6 DEF Bounded
  <1>7. ASSUME NEW r \in Runs, StartRun(r) \/ ReviewAnswered(r) PROVE Bounded'
    <2>1. work'.run \in 0..MaxRuns
      <3>1. r \in 0..MaxRuns
        BY Bounds DEF Runs
      <3> QED
        BY <1>7, <3>1 DEF StartRun, ReviewAnswered, Bounded
    <2>2. file' \in [Runs -> FileStates]
      BY <1>7 DEF StartRun, ReviewAnswered, Bounded, FileStates
    <2> QED
      BY <1>1, <1>7, <2>1, <2>2 DEF StartRun, ReviewAnswered, Bounded
  <1>8. CASE FetchThrows
    <2>1. work'.run \in 0..MaxRuns
      <3>1. CASE work' = NoWork
        BY <3>1, Bounds DEF NoWork
      <3>2. CASE work' = [work EXCEPT !.pc = "conclude", !.outcome = "failed"]
        BY <3>2 DEF Types, WorkRecs, Bounded
      <3> QED
        BY <1>8, <3>1, <3>2 DEF FetchThrows
    <2>2. tries' \in [Runs -> 0..Attempts]
      <3>1. CASE UNCHANGED tries
        BY <3>1 DEF Bounded
      <3>2. CASE tries[work.run] < Attempts /\ tries' = [tries EXCEPT ![work.run] = @ + 1]
        <4>1. work.run \in Runs
          BY <1>8 DEF FetchThrows, FileInv, WorksOnLive
        <4>2. tries[work.run] \in 0..Attempts /\ tries[work.run] < Attempts
          BY <3>2, <4>1 DEF Bounded
        <4>3. tries[work.run] + 1 \in 0..Attempts
          BY <4>2, Bounds
        <4> QED
          BY <3>2, <4>3 DEF Bounded
      <3> QED
        BY <1>8, <3>1, <3>2 DEF FetchThrows
    <2> QED
      BY <1>1, <1>8, <2>1, <2>2 DEF FetchThrows, Bounded
  <1>9. CASE WorkStep /\ ~FetchThrows /\ ~Conclude
    <2>1. work'.run = work.run
      <3>1. CASE FetchNothingNew
        BY <3>1 DEF FetchNothingNew, Types, WorkRecs
      <3>2. CASE FetchCreatesFile
        BY <3>2 DEF FetchCreatesFile, Types, WorkRecs
      <3>3. CASE ProcessSheets
        BY <3>3 DEF ProcessSheets, Types, WorkRecs
      <3>4. CASE Judge
        <4>1. PICK o \in Outcomes: work' = [work EXCEPT !.pc = "conclude", !.outcome = o]
          BY <3>4 DEF Judge, Outcomes
        <4> QED
          BY <4>1 DEF Types, WorkRecs
      <3> QED
        BY <1>9, <3>1, <3>2, <3>3, <3>4 DEF WorkStep
    <2>2. files' \in Seq(Runs) /\ file' \in [Runs -> FileStates]
      <3>1. work.pc # "idle" => work.run \in Runs
        BY DEF FileInv, WorksOnLive
      <3>2. CASE FetchCreatesFile
        <4>1. work.run \in Runs /\ files' = Append(files, work.run)
              /\ file' = [file EXCEPT ![work.run] = "open"]
          BY <3>1, <3>2 DEF FetchCreatesFile
        <4> QED
          BY <4>1 DEF Bounded, FileStates
      <3>3. CASE ProcessSheets
        BY <3>3 DEF ProcessSheets, Bounded, FileStates
      <3>4. CASE FetchNothingNew \/ Judge
        BY <3>4 DEF FetchNothingNew, Judge, Bounded
      <3> QED
        BY <1>9, <3>2, <3>3, <3>4 DEF WorkStep
    <2>3. UNCHANGED <<now, lastRun, enabled, nextRun, created, tries, req, sched, reap>>
      BY <1>9 DEF WorkStep, FetchNothingNew, FetchCreatesFile, ProcessSheets, Judge
    <2> QED
      BY <1>1, <2>1, <2>2, <2>3 DEF Bounded
  <1>10. CASE Conclude
    <2>1. work'.run \in 0..MaxRuns
      BY <1>10, Bounds DEF Conclude, NoWork
    <2>2. lastRun' \in Stamps /\ enabled' \in BOOLEAN
      BY <1>1, <1>10 DEF Conclude, RecordOutcome, Bounded
    <2> QED
      BY <1>1, <1>10, <2>1, <2>2 DEF Conclude, Bounded
  <1>11. CASE ReapList \/ ReapStep
    <2>1. reap'.at \in -1..MaxTime /\ reap'.lastRun \in Stamps
      <3>1. PassDone.at = reap.at /\ PassDone.lastRun \in Stamps
        BY <1>1 DEF PassDone, Types, ReapRecs
      <3>2. \A x \in ReapPcs: /\ [reap EXCEPT !.pc = x].at = reap.at
                              /\ [reap EXCEPT !.pc = x].lastRun = reap.lastRun
        BY DEF Types, ReapRecs
      <3>3. CASE ReapList
        <4>1. \/ reap' = [pc |-> "active", at |-> now, lastRun |-> lastRun]
              \/ reap' = [pc |-> "idle", at |-> now, lastRun |-> NoStamp]
          BY <3>3 DEF ReapList
        <4>2. now \in -1..MaxTime
          BY <1>1
        <4> QED
          BY <1>1, <4>1, <4>2 DEF Bounded
      <3>4. CASE ReapStep
        <4>1. reap' = PassDone \/ \E x \in ReapPcs: reap' = [reap EXCEPT !.pc = x]
          BY <3>4 DEF ReapStep, ReapCheckActive, ReapResolve, ReapCancel, ReapFail, ReapRelease,
             CleanupFails, ReapPcs
        <4> QED
          BY <3>1, <3>2, <4>1 DEF Bounded
      <3> QED
        BY <1>11, <3>3, <3>4
    <2>2. lastRun' \in Stamps /\ file' \in [Runs -> FileStates]
      BY <1>1, <1>11 DEF ReapList, ReapStep, ReapCheckActive, ReapResolve, ReapCancel, ReapFail,
         ReapRelease, Bounded, FileStates
    <2>3. UNCHANGED <<now, enabled, nextRun, created, tries, files, req, sched, work>>
      BY <1>11 DEF ReapList, ReapStep, ReapCheckActive, ReapResolve, ReapCancel, ReapFail,
         ReapRelease
    <2> QED
      BY <1>1, <2>1, <2>2, <2>3 DEF Bounded
  <1>12. CASE Tick
    <2>1. now' <= MaxTime
      BY <1>1, <1>12, Bounds DEF Tick
    <2> QED
      BY <1>1, <1>12, <2>1 DEF Tick, Bounded
  <1>13. CASE UNCHANGED vars
    BY <1>13 DEF vars, Bounded
  <1> QED
    BY <1>3, <1>4, <1>5, <1>6, <1>7, <1>8, <1>9, <1>10, <1>11, <1>12, <1>13 DEF Next, WorkStep

\* Every variable keeps its type, whatever fails: a run is queued again only while
\* it has no file, so that time stamps and files stay within their bounds.
THEOREM TypesKept == Spec => []TypeOK
  <1>1. Init => Bounded
    BY Bounds DEF Init, Bounded, Stamps, NoStamp, Unserved, Waiting, NoWork, FileStates
  <1>2. Types /\ FileInv /\ Bounded /\ [Next]_vars => Types' /\ FileInv' /\ Bounded'
    BY TypesStep, FileStep, BoundedStep
  <1> QED
    BY <1>1, <1>2, TypesInit, FileInit, BoundedTypes, PTL DEF Spec
=============================================================================
