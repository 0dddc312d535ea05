---------------------- MODULE EventImport_refinement ----------------------
(***************************************************************************)
(* EventImport implements AtomicImport: whatever happens between two       *)
(* commits, the logical content of a dataset does not change.  On the way  *)
(* to it: a cleanup deletes nothing but inserts of its own job, and a      *)
(* failed import leaves nothing behind.                                    *)
(***************************************************************************)
EXTENDS EventImport_proofs, WellFoundedInduction

---------------------------------------------------------------------------
(* Assumptions about the environment *)

\* Every cleanup that begins is finished: no process dies, no restore and no
\* cleanup fails.
CleanFailures == Faults \cap {"crash", "restoreFail", "cleanupFail"} = {}

\* No two jobs that update in place have a row in common.
SeparateUpdates == \A i, j \in UpdateJobs : i # j => Rows[i] \cap Rows[j] = {}

\* No two jobs have a row in common.
SeparateRows == \A i, j \in Jobs : i # j => Rows[i] \cap Rows[j] = {}

---------------------------------------------------------------------------
(* The inductive invariant *)

\* What analysis planned for a job are rows of its file.
PlanRows ==
    \A j \in Jobs :
        /\ plan[j].insert \subseteq Rows[j] /\ Updates(j) \subseteq Rows[j]
        /\ j \notin UpdateJobs => Updates(j) = {}

\* What a delivery has still to write are rows of its job's file.
LocalRows ==
    \A w \in Workers :
        /\ pc[w] # "idle" => loc[w].todo \cup loc[w].conflict \subseteq Rows[task[w]]
        /\ task[w] \notin UpdateJobs => loc[w].conflict = {}

\* A job writes rows of its file; only an update takes over an event.
EventRows ==
    \A k \in Keys :
        /\ event[k].owner \in Jobs => k \in Rows[event[k].owner]
        /\ event[k].owner \in Jobs \ UpdateJobs => event[k].born = event[k].owner

\* A snapshot is one of a row of the job's file, taken of an event that was
\* there; if that event is there still, it is as old as it was then.
LineRow(j, line) ==
    /\ j \in UpdateJobs /\ line.key \in Rows[j]
    /\ line.id <= event[line.key].id
    /\ line.owner \in Jobs => line.key \in Rows[line.owner]
    /\ ~line.torn => line.owner # NoJob
    /\ /\ line.owner \in Jobs \ UpdateJobs
       /\ Present(line.key) /\ line.id = event[line.key].id
       => event[line.key].born = line.owner

LineRows == \A j \in Jobs : \A i \in DOMAIN sidecar[j] : LineRow(j, sidecar[j][i])

\* A delivery touches every event once: what it captured is done.
FirstTouch(w) ==
    /\ loc[w].captured \cap (loc[w].todo \cup loc[w].conflict) = {}
    /\ loc[w].todo \cap loc[w].conflict = {}
    /\ pc[w] = "reserve" => loc[w].phase = "start"
    /\ /\ loc[w].phase = "start"
       /\ pc[w] \in {"acquire", "guard", "begin", "restore", "delete", "reserve"}
       => loc[w].captured = {} /\ loc[w].conflict = {}

\* Every cleanup begins at the oldest snapshot.
FromFirstLine(w) ==
    pc[w] \in {"acquire", "guard", "begin"} => loc[w].cursor = 1 /\ ~loc[w].failures

\* A delivery that succeeds, or no longer throws, has committed its job.
Decided(w) ==
    /\ loc[w].ok => pc[w] \in {"release", "returned"}
    /\ pc[w] \in {"discard", "returned"} \/ loc[w].ok => Committed(task[w])

LocalInv == \A w \in Workers : FirstTouch(w) /\ FromFirstLine(w) /\ Decided(w)

\* Of an event that an unfinished job overwrote there is a snapshot.
Snapshotted ==
    \A k \in Keys, j \in Jobs :
        event[k].owner = j /\ event[k].born # j /\ ~Committed(j) => Snapshots(j, k) # {}

\* A cleanup that has met no failure leaves no overwritten event behind it.
Restoring(w) ==
    /\ pc[w] = "restore" /\ ~loc[w].failures =>
         \A k \in Keys : event[k].owner = task[w] =>
           \A i \in Snapshots(task[w], k) : loc[w].cursor <= i
    /\ pc[w] = "delete" => sidecar[task[w]] = <<>>

\* What a snapshot gives an event back to needs no snapshot of its own.
LinesSettled ==
    \A j \in Jobs : ~Committed(j) => \A i \in DOMAIN sidecar[j] :
        LET o == sidecar[j][i].owner
        IN  ~sidecar[j][i].torn /\ o \in Jobs \ {j} =>
              Committed(o) \/ (o \notin UpdateJobs /\ ~CleanFailures)

\* The job has left something that is not committed.
Dirty(j) == ~Committed(j) /\ (sidecar[j] # <<>> \/ \E k \in Keys : event[k].owner = j)

\* If every cleanup is finished, only a job that holds its lease is dirty.
Tidy ==
    CleanFailures =>
        /\ \A j \in Jobs : Dirty(j) =>
             \E w \in Workers :
               /\ task[w] = j
               /\ pc[w] \in {"restore", "delete", "stream", "complete", "finalize"}
        /\ \A w \in Workers : ~loc[w].failures
        /\ \A j \in Jobs : \A i \in DOMAIN sidecar[j] : ~sidecar[j][i].torn

ImportInv ==
    /\ TypeInv /\ LeaseInv /\ CommitInv
    /\ PlanRows /\ LocalRows /\ EventRows /\ LineRows
    /\ LocalInv
    /\ Snapshotted /\ (\A w \in Workers : Restoring(w)) /\ LinesSettled
    /\ Tidy

---------------------------------------------------------------------------
(* What a step leaves alone *)

\* The steps that no delivery takes.
RouteStep(j) ==
    AnalyzeDuplicates(j) \/ RetryRoute(j) \/ ResetRoute(j) \/ ApproveRowErrors(j)

\* The steps of a delivery.
DeliveryStep(w) == (\E j \in Jobs : Deliver(w, j)) \/ Step(w) \/ Crash(w)

LEMMA NextSplit == Next => (\E j \in Jobs : RouteStep(j)) \/ (\E w \in Workers : DeliveryStep(w))
  BY DEF Next, RouteStep, DeliveryStep

\* A delivery's step concerns one worker.
LEMMA OneMoves ==
    ASSUME TypeInv, NEW w \in Workers, DeliveryStep(w)
    PROVE  \A v \in Workers \ {w} : Untouched(v)
  <1>1. ASSUME \E l : Goto(w, l), UNCHANGED task, UNCHANGED loc \/ \E r : SetLocals(w, r)
        PROVE  \A v \in Workers \ {w} : Untouched(v)
    BY <1>1, MoveUntouched
  <1>2. ASSUME UNCHANGED <<pc, task>>, \E r : SetLocals(w, r)
        PROVE  \A v \in Workers \ {w} : Untouched(v)
    BY <1>2 DEF SetLocals, TypeInv, TypeOK, Untouched
  <1>3. ASSUME NEW j \in Jobs, Deliver(w, j) PROVE \A v \in Workers \ {w} : Untouched(v)
    BY <1>3 DEF Deliver, Goto, SetLocals, TypeInv, TypeOK, Untouched
  <1>4. CASE AcquireLease(w) \/ LeaseTimeout(w) \/ Guard(w) \/ Begin(w)
    <2>1. /\ \E l : Goto(w, l)
          /\ UNCHANGED task
          /\ UNCHANGED loc \/ \E r : SetLocals(w, r)
      BY <1>4 DEF AcquireLease, LeaseTimeout, Guard, Begin, EnterCatch
    <2> QED
      BY <2>1, <1>1
  <1>5. CASE RestoreDone(w) \/ DeleteFresh(w) \/ CleanupThrows(w) \/ Reserve(w) \/ StreamDone(w)
    <2>1. /\ \E l : Goto(w, l)
          /\ UNCHANGED task
          /\ UNCHANGED loc \/ \E r : SetLocals(w, r)
      BY <1>5 DEF RestoreDone, DeleteFresh, CleanupThrows, Reserve, StreamDone, EnterCatch
    <2> QED
      BY <2>1, <1>1
  <1>6. CASE MarkJobCompleted(w) \/ Finalize(w) \/ Discard(w) \/ Throw(w) \/ Refund(w)
             \/ ReleaseLease(w) \/ OnFail(w)
    <2>1. /\ \E l : Goto(w, l)
          /\ UNCHANGED task
          /\ UNCHANGED loc \/ \E r : SetLocals(w, r)
      BY <1>6 DEF MarkJobCompleted, Finalize, Discard, Throw, Refund, ReleaseLease, OnFail,
           EnterCatch
    <2> QED
      BY <2>1, <1>1
  <1>7. CASE RestoreLine(w) \/ UpdateRow(w) \/ InsertBatch(w) \/ ReconcileConflict(w)
    <2>1. UNCHANGED <<pc, task>> /\ \E r : SetLocals(w, r)
      BY <1>7 DEF RestoreLine, UpdateRow, InsertBatch, ReconcileConflict, OverwriteEvent
    <2> QED
      BY <2>1, <1>2
  <1>8. CASE OnSuccess(w) \/ TaskRetry(w) \/ MarkSheetFailed(w) \/ OnFailMark(w) \/ Crash(w)
    <2>1. Finish(w)
      BY <1>8 DEF OnSuccess, TaskRetry, MarkSheetFailed, OnFailMark, WriteFailed, Crash
    <2> QED
      BY <2>1, FinishUntouched
  <1> QED
    BY <1>3, <1>4, <1>5, <1>6, <1>7, <1>8 DEF DeliveryStep, Step

\* What is committed stays committed.
LEMMA CommittedStays ==
    ASSUME TypeInv, CommitInv, [Next]_vars, NEW o, Committed(o)
    PROVE  Committed(o)'
  <1> SUFFICES ASSUME o \in Jobs, stage'[o] # stage[o]
               PROVE  stage'[o] \in {"completed", "needs-review"}
    BY DEF Committed
  <1>s. stage[o] \in {"completed", "needs-review"} /\ stage \in [Jobs -> Stages]
    BY DEF Committed, TypeInv, TypeOK
  <1>1. CASE UNCHANGED vars
    BY <1>1 DEF vars
  <1>2. ASSUME NEW j \in Jobs, RouteStep(j) PROVE stage'[o] = "completed"
    BY <1>2, <1>s
    DEF RouteStep, AnalyzeDuplicates, RetryRoute, ResetRoute, ApproveRowErrors
  <1>3. ASSUME NEW w \in Workers, DeliveryStep(w)
        PROVE  stage'[o] \in {"completed", "needs-review"}
    <2>1. CASE Begin(w)
      BY <2>1, <1>s DEF Begin, CommitInv, NotYetCommitted, Undecided, Committed
    <2>2. CASE Finalize(w)
      BY <2>2, <1>s DEF Finalize
    <2>3. CASE OnSuccess(w)
      BY <2>3, <1>s DEF OnSuccess
    <2>4. CASE MarkSheetFailed(w) \/ OnFailMark(w)
      BY <2>4, <1>s
      DEF MarkSheetFailed, OnFailMark, WriteFailed, CommitInv, NotYetCommitted, Undecided,
          Committed
    <2>5. CASE Crash(w) \/ \E j \in Jobs : Deliver(w, j)
      BY <2>5 DEF Crash, Deliver
    <2>6. ASSUME Step(w), ~Begin(w), ~Finalize(w), ~OnSuccess(w), ~MarkSheetFailed(w),
                 ~OnFailMark(w)
          PROVE  UNCHANGED stage
      BY <2>6 DEF Step, AcquireLease, LeaseTimeout, Guard, RestoreLine, RestoreDone,
           DeleteFresh, CleanupThrows, Reserve, UpdateRow, InsertBatch, ReconcileConflict,
           StreamDone, MarkJobCompleted, Discard, Throw, Refund, ReleaseLease, TaskRetry, OnFail
    <2> QED
      BY <1>3, <2>1, <2>2, <2>3, <2>4, <2>5, <2>6 DEF DeliveryStep
  <1> QED
    BY <1>1, <1>2, <1>3, NextSplit

---------------------------------------------------------------------------
(* The local variables *)

LEMMA LocalInit == Init => LocalInv
  BY DEF Init, LocalInv, FirstTouch, FromFirstLine, Decided, NewLocals

\* Starting afresh.
LEMMA NewLocal ==
    ASSUME TypeInv, NEW w \in Workers, loc'[w] \in {NewLocals, [NewLocals EXCEPT !.phase = "onFail"]},
           pc'[w] \notin {"discard", "returned", "reserve"}
    PROVE  FirstTouch(w)' /\ FromFirstLine(w)' /\ Decided(w)'
  <1>1. /\ loc'[w].captured = {} /\ loc'[w].todo = {} /\ loc'[w].conflict = {}
        /\ loc'[w].cursor = 1 /\ ~loc'[w].failures /\ ~loc'[w].ok
    BY DEF NewLocals
  <1> QED
    BY <1>1 DEF FirstTouch, FromFirstLine, Decided

\* An error before the commit: the catch begins its cleanup.
LEMMA CatchLocal ==
    ASSUME TypeInv, NEW w \in Workers, FirstTouch(w), Decided(w), EnterCatch(w),
           pc[w] \notin {"release", "returned"}
    PROVE  FirstTouch(w)' /\ FromFirstLine(w)' /\ Decided(w)'
  <1>1. pc'[w] = "restore"
    BY DEF EnterCatch, Goto, TypeInv, TypeOK
  <1>2. /\ loc'[w] = [loc[w] EXCEPT !.phase = "catch", !.cursor = 1, !.failures = FALSE]
        /\ loc[w] \in Locals
    BY DEF EnterCatch, SetLocals, TypeInv, TypeOK
  <1>3. /\ loc'[w].captured = loc[w].captured /\ loc'[w].todo = loc[w].todo
        /\ loc'[w].conflict = loc[w].conflict /\ loc'[w].ok = loc[w].ok
        /\ loc'[w].phase = "catch"
    BY <1>2 DEF Locals
  <1> QED
    BY <1>1, <1>3 DEF FirstTouch, FromFirstLine, Decided

\* A step that moves on and keeps the local variables.
LEMMA GotoLocal ==
    ASSUME TypeInv, NEW w \in Workers, FirstTouch(w), FromFirstLine(w), Decided(w),
           UNCHANGED <<task, loc>>, NEW l, Goto(w, l),
           l \in {"guard", "begin", "reserve", "restore", "delete"} =>
             pc[w] \in {"acquire", "guard", "begin", "restore", "delete"},
           l \in {"guard", "begin"} => pc[w] \in {"acquire", "guard"},
           l # "acquire", l = "reserve" => loc[w].phase = "start",
           loc[w].ok => l \in {"release", "returned"},
           l \in {"discard", "returned"} \/ loc[w].ok => Committed(task[w])'
    PROVE  FirstTouch(w)' /\ FromFirstLine(w)' /\ Decided(w)'
  <1>1. pc'[w] = l /\ loc'[w] = loc[w] /\ task'[w] = task[w]
    BY DEF Goto, TypeInv, TypeOK
  <1> QED
    BY <1>1 DEF FirstTouch, FromFirstLine, Decided

LEMMA LocalStep ==
    TypeInv /\ CommitInv /\ LocalInv /\ [Next]_vars => LocalInv'
  <1> SUFFICES ASSUME TypeInv, CommitInv, LocalInv, [Next]_vars PROVE LocalInv'
    OBVIOUS
  <1>1. ASSUME NEW v \in Workers, Untouched(v)
        PROVE  FirstTouch(v)' /\ FromFirstLine(v)' /\ Decided(v)'
    <2>1. Committed(task[v]) => Committed(task[v])'
      BY <1>1, CommittedStays DEF Untouched, Committed
    <2> QED
      BY <1>1, <2>1 DEF LocalInv, FirstTouch, FromFirstLine, Decided, Untouched, Committed
  <1>2. CASE UNCHANGED vars
    BY <1>1, <1>2 DEF vars, Untouched, LocalInv
  <1>3. ASSUME NEW j \in Jobs, RouteStep(j) PROVE LocalInv'
    BY <1>1, <1>3
    DEF RouteStep, AnalyzeDuplicates, RetryRoute, ResetRoute, ApproveRowErrors, Untouched,
        LocalInv
  <1>4. ASSUME NEW w \in Workers, DeliveryStep(w)
        PROVE  FirstTouch(w)' /\ FromFirstLine(w)' /\ Decided(w)'
    <2>l. FirstTouch(w) /\ FromFirstLine(w) /\ Decided(w)
      BY DEF LocalInv
    <2>t. loc[w] \in Locals /\ loc \in [Workers -> Locals] /\ pc \in [Workers -> PCs]
      BY DEF TypeInv, TypeOK
    <2>c. task' = task /\ Committed(task[w]) => Committed(task[w])'
      BY CommittedStays DEF Committed
    <2>p. loc[w].phase \in {"start", "catch", "onFail"}
      BY <2>t DEF Locals
    <2>1. CASE \E j \in Jobs : Deliver(w, j)
      <3>1. loc'[w] = NewLocals /\ pc'[w] = "acquire"
        BY <2>1, <2>t DEF Deliver, SetLocals, Goto
      <3> QED
        BY <3>1, NewLocal
    <2>2. CASE OnSuccess(w) \/ TaskRetry(w) \/ MarkSheetFailed(w) \/ OnFailMark(w) \/ Crash(w)
      <3>1. Finish(w)
        BY <2>2 DEF OnSuccess, TaskRetry, MarkSheetFailed, OnFailMark, WriteFailed, Crash
      <3>2. loc'[w] = NewLocals /\ pc'[w] = "idle"
        BY <3>1, <2>t DEF Finish, SetLocals, Goto
      <3> QED
        BY <3>2, NewLocal
    <2>3. CASE OnFail(w)
      <3>1. loc'[w] = [NewLocals EXCEPT !.phase = "onFail"] /\ pc'[w] = "acquire"
        BY <2>3, <2>t DEF OnFail, SetLocals, Goto
      <3> QED
        BY <3>1, NewLocal
    <2>4. CASE AcquireLease(w) \/ LeaseTimeout(w)
      <3>1. PICK l \in {"restore", "guard", "threw", "markFailed"} : Goto(w, l)
        BY <2>4 DEF AcquireLease, LeaseTimeout
      <3>2. UNCHANGED <<task, loc>> /\ pc[w] = "acquire"
        BY <2>4 DEF AcquireLease, LeaseTimeout
      <3> QED
        BY <2>l, <3>1, <3>2, GotoLocal DEF Decided
    <2>5. CASE Guard(w)
      <3>1. CASE stage[task[w]] = "completed"
        <4>1. /\ pc'[w] = "release" /\ loc'[w] = [loc[w] EXCEPT !.ok = TRUE]
              /\ UNCHANGED <<task, stage>>
          BY <2>5, <2>t, <3>1 DEF Guard, Goto, SetLocals
        <4>2. /\ loc'[w].captured = loc[w].captured /\ loc'[w].todo = loc[w].todo
              /\ loc'[w].conflict = loc[w].conflict
          BY <2>t, <4>1 DEF Locals
        <4>3. Committed(task[w])'
          BY <3>1, <4>1 DEF Committed
        <4> QED
          BY <2>l, <4>1, <4>2, <4>3 DEF FirstTouch, FromFirstLine, Decided
      <3>2. CASE stage[task[w]] # "completed"
        <4>1. Goto(w, "begin") /\ UNCHANGED <<task, loc>> /\ pc[w] = "guard"
          BY <2>5, <3>2 DEF Guard
        <4> QED
          BY <2>l, <4>1, GotoLocal DEF Decided
      <3> QED
        BY <3>1, <3>2
    <2>6. CASE Begin(w)
      <3>1. CASE EnterCatch(w)
        BY <2>6, <2>l, <3>1, CatchLocal DEF Begin
      <3>2. CASE ~EnterCatch(w)
        <4>1. Goto(w, "restore") /\ UNCHANGED <<task, loc>> /\ pc[w] = "begin"
          BY <2>6, <3>2 DEF Begin
        <4> QED
          BY <2>l, <4>1, GotoLocal DEF Decided
      <3> QED
        BY <3>1, <3>2
    <2>7. CASE RestoreLine(w)
      <3>1. UNCHANGED <<pc, task>> /\ pc[w] = "restore"
        BY <2>7 DEF RestoreLine
      <3>2. \/ loc'[w] = [loc[w] EXCEPT !.cursor = @ + 1]
            \/ loc'[w] = [loc[w] EXCEPT !.cursor = @ + 1, !.failures = TRUE]
        BY <2>7, <2>t DEF RestoreLine, SetLocals
      <3>3. /\ loc'[w].captured = loc[w].captured /\ loc'[w].todo = loc[w].todo
            /\ loc'[w].conflict = loc[w].conflict /\ loc'[w].ok = loc[w].ok
            /\ loc'[w].phase = loc[w].phase
        BY <2>t, <3>2 DEF Locals
      <3> QED
        BY <2>l, <3>1, <3>3 DEF FirstTouch, FromFirstLine, Decided
    <2>8. CASE RestoreDone(w) \/ DeleteFresh(w)
      <3>1. PICK l \in {AfterCleanup(w), "delete"} : Goto(w, l)
        BY <2>8 DEF RestoreDone, DeleteFresh
      <3>2. UNCHANGED <<task, loc>> /\ pc[w] \in {"restore", "delete"}
        BY <2>8 DEF RestoreDone, DeleteFresh
      <3>3. /\ l \in {"reserve", "refund", "release", "delete"}
            /\ l = "reserve" => loc[w].phase = "start"
        BY <3>1, <2>p DEF AfterCleanup
      <3>4. ~loc[w].ok
        BY <2>l, <3>2 DEF Decided
      <3> QED
        BY <2>l, <3>1, <3>2, <3>3, <3>4, GotoLocal
    <2>9. CASE CleanupThrows(w)
      <3>1. UNCHANGED task /\ pc[w] \in {"restore", "delete"}
        BY <2>9 DEF CleanupThrows
      <3>2. CASE EnterCatch(w)
        BY <2>l, <3>1, <3>2, CatchLocal
      <3>3. CASE ~EnterCatch(w)
        <4>1. Goto(w, AfterCleanup(w)) /\ UNCHANGED loc /\ loc[w].phase # "start"
          BY <2>9, <3>3 DEF CleanupThrows
        <4>2. AfterCleanup(w) \in {"refund", "release"}
          BY <2>p, <4>1 DEF AfterCleanup
        <4>3. ~loc[w].ok
          BY <2>l, <3>1 DEF Decided
        <4> QED
          BY <2>l, <3>1, <4>1, <4>2, <4>3, GotoLocal
      <3> QED
        BY <3>2, <3>3
    <2>10. CASE Reserve(w)
      <3>1. UNCHANGED task /\ pc[w] = "reserve"
        BY <2>10 DEF Reserve
      <3>2. CASE EnterCatch(w)
        BY <2>l, <3>1, <3>2, CatchLocal
      <3>3. CASE ~EnterCatch(w)
        <4> DEFINE n == Cardinality(plan[task[w]].insert)
                   rows == plan[task[w]].insert \cup Updates(task[w])
        <4>1. /\ loc'[w] = [loc[w] EXCEPT !.reserved = n, !.todo = rows]
              /\ pc'[w] = "stream"
          BY <2>10, <3>3, <2>t DEF Reserve, SetLocals, Goto
        <4> HIDE DEF n, rows
        <4>2. /\ loc'[w].captured = loc[w].captured
              /\ loc'[w].conflict = loc[w].conflict /\ loc'[w].ok = loc[w].ok
          BY <2>t, <4>1 DEF Locals
        <4>3. loc[w].captured = {} /\ loc[w].conflict = {} /\ ~loc[w].ok
          BY <2>l, <3>1 DEF FirstTouch, Decided
        <4> QED
          BY <2>l, <4>1, <4>2, <4>3 DEF FirstTouch, FromFirstLine, Decided
      <3> QED
        BY <3>2, <3>3
    <2>11. CASE UpdateRow(w)
      <3>1. UNCHANGED <<pc, task>> /\ pc[w] = "stream"
        BY <2>11 DEF UpdateRow
      <3>2. PICK k \in loc[w].todo :
              LET rest == [loc[w] EXCEPT !.todo = @ \ {k}]
              IN  \/ loc'[w] = [rest EXCEPT !.captured = @ \cup {k}, !.updated = @ + 1]
                  \/ loc'[w] = [rest EXCEPT !.captured = @ \cup {k}, !.errs = TRUE]
                  \/ loc'[w] = [rest EXCEPT !.errs = TRUE]
        BY <2>11, <2>t DEF UpdateRow, OverwriteEvent, SetLocals
      <3>3. /\ loc'[w].captured \in {loc[w].captured, loc[w].captured \cup {k}}
            /\ loc'[w].todo = loc[w].todo \ {k}
            /\ loc'[w].conflict = loc[w].conflict /\ loc'[w].ok = loc[w].ok
        BY <2>t, <3>2 DEF Locals
      <3> QED
        BY <2>l, <3>1, <3>2, <3>3 DEF FirstTouch, FromFirstLine, Decided
    <2>12. CASE ReconcileConflict(w)
      <3>1. UNCHANGED <<pc, task>> /\ pc[w] = "stream"
        BY <2>12 DEF ReconcileConflict
      <3>2. PICK k \in loc[w].conflict :
              LET rest == [loc[w] EXCEPT !.conflict = @ \ {k}]
              IN  \/ loc'[w] = [rest EXCEPT !.captured = @ \cup {k}, !.updated = @ + 1]
                  \/ loc'[w] = [rest EXCEPT !.captured = @ \cup {k}, !.errs = TRUE]
                  \/ loc'[w] = rest
        BY <2>12, <2>t DEF ReconcileConflict, OverwriteEvent, SetLocals
      <3>3. /\ loc'[w].captured \in {loc[w].captured, loc[w].captured \cup {k}}
            /\ loc'[w].conflict = loc[w].conflict \ {k}
            /\ loc'[w].todo = loc[w].todo /\ loc'[w].ok = loc[w].ok
        BY <2>t, <3>2 DEF Locals
      <3> QED
        BY <2>l, <3>1, <3>2, <3>3 DEF FirstTouch, FromFirstLine, Decided
    <2>13. CASE InsertBatch(w)
      <3>1. UNCHANGED <<pc, task>> /\ pc[w] = "stream"
        BY <2>13 DEF InsertBatch
      <3> DEFINE lost(b) == {k \in b : Present(k)}
                 conflicts(b) == IF task[w] \in UpdateJobs THEN loc[w].conflict \cup lost(b)
                                 ELSE loc[w].conflict
      <3>2. PICK b \in SUBSET loc[w].todo :
              \/ loc'[w] = [loc[w] EXCEPT !.todo = @ \ b, !.conflict = conflicts(b)]
              \/ loc'[w] = [loc[w] EXCEPT !.todo = @ \ b, !.errs = TRUE]
        BY <2>13, <2>t DEF InsertBatch, SetLocals
      <3>3. /\ loc'[w].captured = loc[w].captured
            /\ loc'[w].conflict \in {loc[w].conflict, conflicts(b)}
            /\ loc'[w].todo = loc[w].todo \ b /\ loc'[w].ok = loc[w].ok
        <4> HIDE DEF conflicts
        <4> QED
          BY <2>t, <3>2 DEF Locals
      <3>4. loc'[w].conflict \subseteq loc[w].conflict \cup b
        BY <3>3
      <3> QED
        BY <2>l, <3>1, <3>2, <3>3, <3>4 DEF FirstTouch, FromFirstLine, Decided
    <2>14. CASE StreamDone(w) \/ Finalize(w) \/ Refund(w) \/ ReleaseLease(w)
      <3>1. /\ UNCHANGED <<task, loc>>
            /\ \/ pc[w] = "stream" /\ Goto(w, "complete")
               \/ pc[w] = "finalize" /\ Goto(w, "discard")
               \/ pc[w] = "refund" /\ Goto(w, "release")
               \/ pc[w] = "release" /\ Goto(w, IF loc[w].ok THEN "returned"
                     ELSE IF loc[w].phase = "onFail" THEN "markFailed" ELSE "threw")
        BY <2>14 DEF StreamDone, Finalize, Refund, ReleaseLease
      <3>2. pc[w] = "finalize" => Committed(task[w])'
        BY <2>14, <3>1 DEF StreamDone, Finalize, Refund, ReleaseLease, Committed, TypeInv, TypeOK
      <3>3. PICK l : Goto(w, l)
        BY <3>1
      <3>4. pc'[w] = l
        BY <3>3, <2>t DEF Goto
      <3>5. /\ l \in {"complete", "discard", "release", "returned", "markFailed", "threw"}
            /\ loc[w].ok => l \in {"release", "returned"}
            /\ l \in {"discard", "returned"} \/ loc[w].ok => Committed(task[w])'
        <4>1. CASE pc[w] = "stream" /\ Goto(w, "complete")
          BY <4>1, <3>4, <2>l, <2>t DEF Goto, Decided
        <4>2. CASE pc[w] = "finalize" /\ Goto(w, "discard")
          BY <4>2, <3>2, <3>4, <2>l, <2>t DEF Goto, Decided
        <4>3. CASE pc[w] = "refund" /\ Goto(w, "release")
          BY <4>3, <3>4, <2>l, <2>t DEF Goto, Decided
        <4>4. CASE pc[w] = "release" /\ Goto(w, IF loc[w].ok THEN "returned"
                     ELSE IF loc[w].phase = "onFail" THEN "markFailed" ELSE "threw")
          BY <4>4, <3>1, <3>4, <2>c, <2>l, <2>t DEF Goto, Decided
        <4> QED
          BY <3>1, <4>1, <4>2, <4>3, <4>4
      <3> QED
        BY <2>l, <3>1, <3>3, <3>5, GotoLocal
    <2>15. CASE MarkJobCompleted(w)
      <3>1. /\ pc[w] = "complete" /\ pc'[w] = "finalize"
            /\ loc'[w] = [loc[w] EXCEPT !.tracked = NewEvents(w)]
        BY <2>15, <2>t DEF MarkJobCompleted, Goto, SetLocals
      <3>2. /\ loc'[w].captured = loc[w].captured /\ loc'[w].todo = loc[w].todo
            /\ loc'[w].conflict = loc[w].conflict /\ loc'[w].ok = loc[w].ok
        BY <2>t, <3>1 DEF Locals
      <3> QED
        BY <2>l, <3>1, <3>2 DEF FirstTouch, FromFirstLine, Decided
    <2>16. CASE Discard(w)
      <3>1. /\ pc[w] = "discard" /\ pc'[w] = "release" /\ UNCHANGED task
            /\ loc'[w] = [loc[w] EXCEPT !.ok = TRUE]
        BY <2>16, <2>t DEF Discard, Goto, SetLocals
      <3>2. /\ loc'[w].captured = loc[w].captured /\ loc'[w].todo = loc[w].todo
            /\ loc'[w].conflict = loc[w].conflict
        BY <2>t, <3>1 DEF Locals
      <3>3. Committed(task[w])'
        BY <2>c, <2>l, <3>1 DEF Decided
      <3> QED
        BY <2>l, <3>1, <3>2, <3>3 DEF FirstTouch, FromFirstLine, Decided
    <2>17. CASE Throw(w)
      BY <2>17, <2>l, CatchLocal DEF Throw
    <2> QED
      BY <1>4, <2>1, <2>2, <2>3, <2>4, <2>5, <2>6, <2>7, <2>8, <2>9, <2>10, <2>11, <2>12,
         <2>13, <2>14, <2>15, <2>16, <2>17 DEF DeliveryStep, Step
  <1>5. ASSUME NEW w \in Workers, DeliveryStep(w) PROVE LocalInv'
    BY <1>1, <1>4, <1>5, OneMoves DEF LocalInv
  <1> QED
    BY <1>2, <1>3, <1>5, NextSplit

---------------------------------------------------------------------------
(* What a step does to the events and to the sidecars *)

\* A snapshot is put back.
Reverts(w) ==
    LET line == sidecar[task[w]][loc[w].cursor]
    IN  /\ pc[w] = "restore" /\ loc[w].cursor \in DOMAIN sidecar[task[w]]
        /\ ~line.torn /\ event[line.key].id = line.id /\ event[line.key].owner = task[w]
        /\ event' = [event EXCEPT ![line.key].owner = line.owner]
        /\ UNCHANGED sidecar

\* A sidecar is removed, after a restore without failure or after the commit.
Clears(w) ==
    /\ \/ pc[w] = "restore" /\ loc[w].cursor > Len(sidecar[task[w]]) /\ ~loc[w].failures
       \/ pc[w] = "discard"
    /\ sidecar' = [sidecar EXCEPT ![task[w]] = <<>>]
    /\ UNCHANGED event

\* The inserts of an earlier delivery go.
Deletes(w) ==
    /\ pc[w] = "delete"
    /\ event' = [k \in Keys |-> IF k \in Fresh(task[w])
                                THEN [event[k] EXCEPT !.owner = NoJob, !.born = NoJob]
                                ELSE event[k]]
    /\ UNCHANGED sidecar

Shot(k, torn) == [key |-> k, id |-> event[k].id, owner |-> event[k].owner, torn |-> torn]

\* An event is captured, and overwritten or not.
Captures(w, k) ==
    /\ pc[w] = "stream" /\ task[w] \in UpdateJobs
    /\ k \in loc[w].todo \cup loc[w].conflict /\ Present(k)
    /\ sidecar' = [sidecar EXCEPT ![task[w]] = Append(@, Shot(k, FALSE))]
    /\ event' = [event EXCEPT ![k].owner = task[w]] \/ UNCHANGED event

\* New events are inserted where there were none.
Inserts(w, S) ==
    /\ pc[w] = "stream" /\ S \subseteq loc[w].todo /\ \A k \in S : ~Present(k)
    /\ event' = [k \in Keys |-> IF k \in S
                                THEN [owner |-> task[w], born |-> task[w], id |-> event[k].id + 1]
                                ELSE event[k]]
    /\ UNCHANGED sidecar

\* A crash cuts an append short.
Tears(w, k) ==
    /\ "crash" \in Faults /\ pc[w] = "stream" /\ task[w] \in UpdateJobs
    /\ k \in loc[w].todo \cup loc[w].conflict
    /\ sidecar' = [sidecar EXCEPT ![task[w]] = Append(@, Shot(k, TRUE))]
    /\ UNCHANGED event

DataMove(w) ==
    \/ Reverts(w) \/ Clears(w) \/ Deletes(w)
    \/ \E k \in Keys : Captures(w, k) \/ Tears(w, k)
    \/ \E S \in SUBSET Keys : Inserts(w, S)

\* Every step of a delivery is one of these or leaves events and sidecars alone.
LEMMA DataStep ==
    ASSUME TypeInv, PlanRows, LocalRows, LocalInv, NEW w \in Workers, DeliveryStep(w)
    PROVE  UNCHANGED <<event, sidecar>> \/ DataMove(w)
  <1>t. loc[w] \in Locals /\ sidecar \in [Jobs -> Seq(Line)]
    BY DEF TypeInv, TypeOK
  <1>j. pc[w] # "idle" => task[w] \in Jobs
    BY DEF TypeInv, TaskOK
  <1>k. loc[w].todo \subseteq Keys /\ loc[w].conflict \subseteq Keys
    BY <1>t DEF Locals
  <1>1. CASE RestoreLine(w)
    <2>1. /\ pc[w] = "restore" /\ loc[w].cursor <= Len(sidecar[task[w]])
          /\ loc[w].cursor \in Nat \ {0} /\ sidecar[task[w]] \in Seq(Line)
      BY <1>1, <1>t, <1>j DEF RestoreLine, Locals
    <2>2. loc[w].cursor \in DOMAIN sidecar[task[w]]
      BY <2>1
    <2> QED
      BY <1>1, <2>1, <2>2 DEF RestoreLine, DataMove, Reverts
  <1>2. CASE RestoreDone(w)
    BY <1>2 DEF RestoreDone, DataMove, Clears
  <1>3. CASE Discard(w)
    BY <1>3 DEF Discard, DataMove, Clears
  <1>4. CASE DeleteFresh(w)
    BY <1>4 DEF DeleteFresh, DataMove, Deletes
  <1>5. ASSUME NEW k \in loc[w].todo \cup loc[w].conflict, NEW rest,
               pc[w] = "stream", task[w] \in UpdateJobs, Present(k),
               OverwriteEvent(w, k, rest)
        PROVE  DataMove(w)
    <2>1. k \notin loc[w].captured
      BY DEF LocalInv, FirstTouch
    <2>2. Captures(w, k)
      BY <1>5, <2>1 DEF OverwriteEvent, Capture, Captures, Shot
    <2> QED
      BY <1>k, <2>2 DEF DataMove
  <1>6. CASE UpdateRow(w)
    <2>1. pc[w] = "stream" /\ task[w] \in Jobs
      BY <1>6, <1>j DEF UpdateRow
    <2>2. PICK k \in loc[w].todo \cap Updates(task[w]) :
            LET rest == [loc[w] EXCEPT !.todo = @ \ {k}]
            IN  \/ Present(k) /\ OverwriteEvent(w, k, rest)
                \/ UNCHANGED <<event, sidecar>>
      BY <1>6 DEF UpdateRow
    <2>3. task[w] \in UpdateJobs
      BY <2>1, <2>2 DEF PlanRows
    <2> QED
      BY <1>5, <2>1, <2>2, <2>3
  <1>7. CASE ReconcileConflict(w)
    <2>1. pc[w] = "stream" /\ task[w] \in Jobs
      BY <1>7, <1>j DEF ReconcileConflict
    <2>2. PICK k \in loc[w].conflict :
            LET rest == [loc[w] EXCEPT !.conflict = @ \ {k}]
            IN  \/ Present(k) /\ OverwriteEvent(w, k, rest)
                \/ UNCHANGED <<event, sidecar>>
      BY <1>7 DEF ReconcileConflict
    <2>3. task[w] \in UpdateJobs
      BY <2>1, <2>2 DEF LocalRows
    <2> QED
      BY <1>5, <2>1, <2>2, <2>3
  <1>8. CASE InsertBatch(w)
    <2>1. pc[w] = "stream" /\ UNCHANGED sidecar
      BY <1>8 DEF InsertBatch
    <2>2. PICK b \in SUBSET loc[w].todo :
            \/ event' = [k \in Keys |-> IF k \in b \ {i \in b : Present(i)}
                 THEN [owner |-> task[w], born |-> task[w], id |-> event[k].id + 1]
                 ELSE event[k]]
            \/ UNCHANGED event
      BY <1>8 DEF InsertBatch
    <2>3. Inserts(w, b \ {i \in b : Present(i)}) \/ UNCHANGED event
      BY <2>1, <2>2 DEF Inserts
    <2>4. b \ {i \in b : Present(i)} \in SUBSET Keys
      BY <1>k
    <2> QED
      BY <2>1, <2>3, <2>4 DEF DataMove
  <1>9. CASE Crash(w)
    <2>1. CASE UNCHANGED sidecar
      BY <1>9, <2>1 DEF Crash
    <2>2. CASE ~UNCHANGED sidecar
      <3>1. pc[w] = "stream" /\ "crash" \in Faults /\ UNCHANGED event /\ task[w] \in Jobs
        BY <1>9, <2>2, <1>j DEF Crash
      <3>2. PICK k \in (loc[w].todo \cap Updates(task[w])) \cup loc[w].conflict :
              sidecar' = [sidecar EXCEPT ![task[w]] = Append(@, Shot(k, TRUE))]
        BY <1>9, <2>2 DEF Crash, Shot
      <3>3. task[w] \in UpdateJobs
        BY <3>1, <3>2 DEF PlanRows, LocalRows
      <3> QED
        BY <1>k, <3>1, <3>2, <3>3 DEF DataMove, Tears
    <2> QED
      BY <2>1, <2>2
  <1>10. CASE \E j \in Jobs : Deliver(w, j)
    BY <1>10 DEF Deliver
  <1>11. ASSUME Step(w), ~RestoreLine(w), ~RestoreDone(w), ~Discard(w), ~DeleteFresh(w),
                ~UpdateRow(w), ~ReconcileConflict(w), ~InsertBatch(w)
         PROVE  UNCHANGED <<event, sidecar>>
    BY <1>11 DEF Step, AcquireLease, LeaseTimeout, Guard, Begin, CleanupThrows, Reserve,
         StreamDone, MarkJobCompleted, Finalize, Throw, Refund, ReleaseLease, OnSuccess,
         TaskRetry, MarkSheetFailed, OnFail, OnFailMark, WriteFailed
  <1> QED
    BY <1>1, <1>2, <1>3, <1>4, <1>6, <1>7, <1>8, <1>9, <1>10, <1>11 DEF DeliveryStep

LEMMA RouteData ==
    ASSUME NEW j \in Jobs, RouteStep(j)
    PROVE  UNCHANGED <<event, sidecar, usage, lease, pc, task, loc>>
  BY DEF RouteStep, AnalyzeDuplicates, RetryRoute, ResetRoute, ApproveRowErrors

---------------------------------------------------------------------------
(* Every job stays with the rows of its file *)

LEMMA RowsInit == Init => PlanRows /\ LocalRows /\ EventRows /\ LineRows
  <1> SUFFICES ASSUME Init PROVE PlanRows /\ LocalRows /\ EventRows /\ LineRows
    OBVIOUS
  <1>1. PlanRows
    BY DEF Init, PlanRows, Updates
  <1>2. LocalRows
    BY DEF Init, LocalRows, NewLocals
  <1>3. EventRows
    BY EventImportAssumption DEF Init, EventRows, EventImportAssumption
  <1>4. LineRows
    BY DEF Init, LineRows
  <1> QED
    BY <1>1, <1>2, <1>3, <1>4

LEMMA PlanRowsStep == PlanRows /\ TypeInv /\ [Next]_vars => PlanRows'
  <1> SUFFICES ASSUME PlanRows, TypeInv, [Next]_vars PROVE PlanRows'
    OBVIOUS
  <1>1. CASE UNCHANGED plan
    BY <1>1 DEF PlanRows, Updates
  <1>2. ASSUME NEW j \in Jobs, AnalyzeDuplicates(j) PROVE PlanRows'
    <2> DEFINE existing == {k \in Rows[j] : Present(k)}
               target == [k \in Keys |-> IF j \in UpdateJobs /\ k \in existing
                                         THEN event[k].id ELSE 0]
    <2>1. plan'[j] = [insert |-> Rows[j] \ existing, target |-> target]
      BY <1>2 DEF AnalyzeDuplicates, TypeInv, TypeOK
    <2>2. \A i \in Jobs \ {j} : plan'[i] = plan[i]
      BY <1>2 DEF AnalyzeDuplicates, TypeInv, TypeOK
    <2>3. plan'[j].insert \subseteq Rows[j] /\ plan'[j].target = target
      BY <2>1
    <2>4. /\ Updates(j)' \subseteq Rows[j]
          /\ j \notin UpdateJobs => Updates(j)' = {}
      BY <2>3 DEF Updates
    <2> QED
      BY <2>2, <2>3, <2>4 DEF PlanRows, Updates
  <1>3. ASSUME NEW j \in Jobs, RouteStep(j), ~AnalyzeDuplicates(j) PROVE UNCHANGED plan
    BY <1>3 DEF RouteStep, RetryRoute, ResetRoute, ApproveRowErrors
  <1>4. ASSUME NEW w \in Workers, Step(w) PROVE UNCHANGED plan
    BY <1>4 DEF Step, AcquireLease, LeaseTimeout, Guard, Begin, RestoreLine, RestoreDone,
         DeleteFresh, CleanupThrows, Reserve, UpdateRow, InsertBatch, ReconcileConflict,
         StreamDone, MarkJobCompleted, Finalize, Discard, Throw, Refund, ReleaseLease,
         OnSuccess, TaskRetry, MarkSheetFailed, OnFail, OnFailMark, WriteFailed
  <1>5. ASSUME NEW w \in Workers, Crash(w) \/ \E j \in Jobs : Deliver(w, j)
        PROVE  UNCHANGED plan
    BY <1>5 DEF Crash, Deliver
  <1> QED
    BY <1>1, <1>2, <1>3, <1>4, <1>5, NextSplit DEF DeliveryStep, vars

\* A delivery stays with its job until it ends.
LEMMA TaskStays ==
    ASSUME TypeInv, NEW w \in Workers, Step(w) \/ Crash(w)
    PROVE  task'[w] = task[w] \/ (pc'[w] = "idle" /\ task'[w] = Nobody /\ loc'[w] = NewLocals)
  <1>1. CASE OnSuccess(w) \/ TaskRetry(w) \/ MarkSheetFailed(w) \/ OnFailMark(w) \/ Crash(w)
    <2>1. Finish(w)
      BY <1>1 DEF OnSuccess, TaskRetry, MarkSheetFailed, OnFailMark, WriteFailed, Crash
    <2> QED
      BY <2>1 DEF Finish, Goto, SetLocals, TypeInv, TypeOK
  <1>2. ASSUME Step(w), ~OnSuccess(w), ~TaskRetry(w), ~MarkSheetFailed(w), ~OnFailMark(w)
        PROVE  UNCHANGED task
    BY <1>2 DEF Step, AcquireLease, LeaseTimeout, Guard, Begin, RestoreLine, RestoreDone,
         DeleteFresh, CleanupThrows, Reserve, UpdateRow, InsertBatch, ReconcileConflict,
         StreamDone, MarkJobCompleted, Finalize, Discard, Throw, Refund, ReleaseLease, OnFail
  <1> QED
    BY <1>1, <1>2

LEMMA LocalRowsStep == TypeInv /\ PlanRows /\ LocalRows /\ [Next]_vars => LocalRows'
  <1> SUFFICES ASSUME TypeInv, PlanRows, LocalRows, [Next]_vars PROVE LocalRows'
    OBVIOUS
  <1> DEFINE Fits(w) ==
        /\ pc[w] # "idle" => loc[w].todo \cup loc[w].conflict \subseteq Rows[task[w]]
        /\ task[w] \notin UpdateJobs => loc[w].conflict = {}
  <1>f. LocalRows <=> \A w \in Workers : Fits(w)
    BY DEF LocalRows
  <1>g. LocalRows' <=> \A w \in Workers : Fits(w)'
    BY DEF LocalRows
  <1>1. ASSUME NEW v \in Workers, Untouched(v) PROVE Fits(v)'
    BY <1>1, <1>f DEF Untouched
  <1>2. CASE UNCHANGED vars
    BY <1>1, <1>2, <1>g DEF vars, Untouched
  <1>3. ASSUME NEW j \in Jobs, RouteStep(j) PROVE LocalRows'
    BY <1>1, <1>3, <1>g, RouteData DEF Untouched
  <1>4. ASSUME NEW w \in Workers, DeliveryStep(w) PROVE Fits(w)'
    <2>t. loc[w] \in Locals /\ loc \in [Workers -> Locals] /\ pc \in [Workers -> PCs]
      BY DEF TypeInv, TypeOK
    <2>e. ASSUME loc'[w].todo = {}, loc'[w].conflict = {} PROVE Fits(w)'
      BY <2>e
    <2>s. ASSUME task'[w] = task[w], pc[w] # "idle",
                 loc'[w].todo \cup loc'[w].conflict \subseteq loc[w].todo \cup loc[w].conflict,
                 task[w] \in UpdateJobs \/ loc'[w].conflict \subseteq loc[w].conflict
          PROVE  Fits(w)'
      BY <1>f, <2>s
    <2>1. CASE (\E j \in Jobs : Deliver(w, j)) \/ OnFail(w)
      <3>1. loc'[w] = NewLocals \/ loc'[w] = [NewLocals EXCEPT !.phase = "onFail"]
        BY <2>1, <2>t DEF Deliver, OnFail, SetLocals
      <3> QED
        BY <3>1, <2>e DEF NewLocals
    <2>2. CASE loc'[w] = NewLocals
      BY <2>2, <2>e DEF NewLocals
    <2>3. CASE Reserve(w)
      <3>1. task'[w] = task[w] /\ task[w] \in Jobs /\ pc[w] # "idle"
        BY <2>3 DEF Reserve, TypeInv, TaskOK
      <3>2. CASE EnterCatch(w)
        <4>1. loc'[w] = [loc[w] EXCEPT !.phase = "catch", !.cursor = 1, !.failures = FALSE]
          BY <3>2, <2>t DEF EnterCatch, SetLocals
        <4> QED
          BY <4>1, <3>1, <2>t, <2>s DEF Locals
      <3>3. CASE ~EnterCatch(w)
        <4> DEFINE n == Cardinality(plan[task[w]].insert)
                   rows == plan[task[w]].insert \cup Updates(task[w])
        <4>1. loc'[w] = [loc[w] EXCEPT !.reserved = n, !.todo = rows]
          BY <2>3, <3>3, <2>t DEF Reserve, SetLocals
        <4>2. rows \subseteq Rows[task[w]]
          BY <3>1 DEF PlanRows
        <4> HIDE DEF n, rows
        <4>3. loc'[w].todo = rows /\ loc'[w].conflict = loc[w].conflict
          BY <4>1, <2>t DEF Locals
        <4> QED
          BY <1>f, <3>1, <4>2, <4>3
      <3> QED
        BY <3>2, <3>3
    <2>4. CASE UpdateRow(w)
      <3>1. task'[w] = task[w] /\ pc[w] # "idle"
        BY <2>4 DEF UpdateRow
      <3>2. PICK k \in loc[w].todo :
              LET rest == [loc[w] EXCEPT !.todo = @ \ {k}]
              IN  \/ loc'[w] = [rest EXCEPT !.captured = @ \cup {k}, !.updated = @ + 1]
                  \/ loc'[w] = [rest EXCEPT !.captured = @ \cup {k}, !.errs = TRUE]
                  \/ loc'[w] = [rest EXCEPT !.errs = TRUE]
        BY <2>4, <2>t DEF UpdateRow, OverwriteEvent, SetLocals
      <3>3. loc'[w].todo = loc[w].todo \ {k} /\ loc'[w].conflict = loc[w].conflict
        BY <2>t, <3>2 DEF Locals
      <3> QED
        BY <3>1, <3>3, <2>s
    <2>5. CASE ReconcileConflict(w)
      <3>1. task'[w] = task[w] /\ pc[w] # "idle"
        BY <2>5 DEF ReconcileConflict
      <3>2. PICK k \in loc[w].conflict :
              LET rest == [loc[w] EXCEPT !.conflict = @ \ {k}]
              IN  \/ loc'[w] = [rest EXCEPT !.captured = @ \cup {k}, !.updated = @ + 1]
                  \/ loc'[w] = [rest EXCEPT !.captured = @ \cup {k}, !.errs = TRUE]
                  \/ loc'[w] = rest
        BY <2>5, <2>t DEF ReconcileConflict, OverwriteEvent, SetLocals
      <3>3. loc'[w].conflict = loc[w].conflict \ {k} /\ loc'[w].todo = loc[w].todo
        BY <2>t, <3>2 DEF Locals
      <3> QED
        BY <3>1, <3>3, <2>s
    <2>6. CASE InsertBatch(w)
      <3> DEFINE lost(b) == {k \in b : Present(k)}
                 conflicts(b) == IF task[w] \in UpdateJobs THEN loc[w].conflict \cup lost(b)
                                 ELSE loc[w].conflict
      <3>1. task'[w] = task[w] /\ pc[w] # "idle"
        BY <2>6 DEF InsertBatch
      <3>2. PICK b \in SUBSET loc[w].todo :
              \/ loc'[w] = [loc[w] EXCEPT !.todo = @ \ b, !.conflict = conflicts(b)]
              \/ loc'[w] = [loc[w] EXCEPT !.todo = @ \ b, !.errs = TRUE]
        BY <2>6, <2>t DEF InsertBatch, SetLocals
      <3>3. /\ loc'[w].conflict \in {loc[w].conflict, conflicts(b)}
            /\ loc'[w].todo = loc[w].todo \ b
        <4> HIDE DEF conflicts
        <4> QED
          BY <2>t, <3>2 DEF Locals
      <3>4. /\ loc'[w].conflict \subseteq loc[w].conflict \cup b
            /\ task[w] \in UpdateJobs \/ loc'[w].conflict = loc[w].conflict
        BY <3>3
      <3> QED
        BY <3>1, <3>2, <3>3, <3>4, <2>s
    <2>7. CASE RestoreLine(w) \/ Begin(w) \/ CleanupThrows(w) \/ Throw(w) \/ Guard(w)
               \/ MarkJobCompleted(w) \/ Discard(w)
      <3>1. task'[w] = task[w] /\ pc[w] # "idle"
        BY <2>7 DEF RestoreLine, Begin, CleanupThrows, Throw, Guard, MarkJobCompleted, Discard
      <3>2. \/ loc'[w] = loc[w]
            \/ loc'[w] = [loc[w] EXCEPT !.cursor = @ + 1]
            \/ loc'[w] = [loc[w] EXCEPT !.cursor = @ + 1, !.failures = TRUE]
            \/ loc'[w] = [loc[w] EXCEPT !.phase = "catch", !.cursor = 1, !.failures = FALSE]
            \/ loc'[w] = [loc[w] EXCEPT !.ok = TRUE]
            \/ loc'[w] = [loc[w] EXCEPT !.tracked = NewEvents(w)]
        <4>1. CASE RestoreLine(w)
          BY <4>1, <2>t DEF RestoreLine, SetLocals
        <4>2. CASE Begin(w) \/ CleanupThrows(w) \/ Throw(w)
          BY <4>2, <2>t DEF Begin, CleanupThrows, Throw, EnterCatch, SetLocals
        <4>3. CASE Guard(w) \/ MarkJobCompleted(w) \/ Discard(w)
          BY <4>3, <2>t DEF Guard, MarkJobCompleted, Discard, SetLocals
        <4> QED
          BY <2>7, <4>1, <4>2, <4>3
      <3>3. loc'[w].todo = loc[w].todo /\ loc'[w].conflict = loc[w].conflict
        BY <2>t, <3>2 DEF Locals
      <3> QED
        BY <3>1, <3>3, <2>s
    <2>8. CASE AcquireLease(w) \/ LeaseTimeout(w) \/ RestoreDone(w) \/ DeleteFresh(w)
               \/ StreamDone(w) \/ Finalize(w) \/ Refund(w) \/ ReleaseLease(w)
      <3>1. UNCHANGED <<task, loc>> /\ pc[w] # "idle"
        BY <2>8 DEF AcquireLease, LeaseTimeout, RestoreDone, DeleteFresh, StreamDone, Finalize,
             Refund, ReleaseLease
      <3> QED
        BY <3>1, <2>s
    <2>9. CASE OnSuccess(w) \/ TaskRetry(w) \/ MarkSheetFailed(w) \/ OnFailMark(w) \/ Crash(w)
      <3>1. Finish(w)
        BY <2>9 DEF OnSuccess, TaskRetry, MarkSheetFailed, OnFailMark, WriteFailed, Crash
      <3> QED
        BY <3>1, <2>2, <2>t DEF Finish, SetLocals
    <2> QED
      BY <1>4, <2>1, <2>3, <2>4, <2>5, <2>6, <2>7, <2>8, <2>9 DEF DeliveryStep, Step
  <1>5. ASSUME NEW w \in Workers, DeliveryStep(w) PROVE LocalRows'
    <2>1. \A v \in Workers \ {w} : Fits(v)'
      BY <1>1, <1>5, OneMoves
    <2> QED
      BY <1>4, <1>5, <1>g, <2>1
  <1> QED
    BY <1>2, <1>3, <1>5, NextSplit

\* The lines of a sidecar after an append are the old ones and the new one.
LEMMA AppendedLines ==
    ASSUME sidecar \in [Jobs -> Seq(Line)], NEW j \in Jobs, NEW t,
           sidecar' = [sidecar EXCEPT ![j] = Append(@, t)]
    PROVE  /\ \A o \in Jobs \ {j} : sidecar'[o] = sidecar[o]
           /\ DOMAIN sidecar'[j] = DOMAIN sidecar[j] \cup {Len(sidecar[j]) + 1}
           /\ \A i \in DOMAIN sidecar[j] : sidecar'[j][i] = sidecar[j][i]
           /\ sidecar'[j][Len(sidecar[j]) + 1] = t
           /\ Len(sidecar[j]) + 1 \notin DOMAIN sidecar[j]
  <1> DEFINE s == sidecar[j]
  <1>1. s \in Seq(Line) /\ sidecar'[j] = Append(s, t)
    OBVIOUS
  <1>2. \A o \in Jobs \ {j} : sidecar'[o] = sidecar[o]
    OBVIOUS
  <1>3. /\ DOMAIN Append(s, t) = DOMAIN s \cup {Len(s) + 1}
        /\ \A i \in DOMAIN s : Append(s, t)[i] = s[i]
        /\ Append(s, t)[Len(s) + 1] = t
        /\ Len(s) + 1 \notin DOMAIN s
    <2> HIDE DEF s
    <2> QED
      BY <1>1
  <1> QED
    BY <1>1, <1>2, <1>3

\* Every line is the line of a well-typed sidecar.
LEMMA LineTyped ==
    ASSUME TypeInv, NEW j \in Jobs, NEW i \in DOMAIN sidecar[j]
    PROVE  sidecar[j][i] \in Line /\ i \in Nat \ {0} /\ i <= Len(sidecar[j])
  BY DEF TypeInv, TypeOK

LEMMA ShotFields ==
    ASSUME NEW k, NEW t
    PROVE  /\ Shot(k, t).key = k /\ Shot(k, t).id = event[k].id
           /\ Shot(k, t).owner = event[k].owner /\ Shot(k, t).torn = t
  BY DEF Shot

LEMMA EventRowsStep ==
    ASSUME TypeInv, LocalRows, EventRows, LineRows, NEW w \in Workers,
           UNCHANGED <<event, sidecar>> \/ DataMove(w)
    PROVE  EventRows'
  <1>t. event \in [Keys -> Event] /\ NoJob \notin Jobs
    BY EventImportAssumption DEF TypeInv, TypeOK, EventImportAssumption
  <1>j. pc[w] # "idle" => task[w] \in Jobs
    BY DEF TypeInv, TaskOK
  <1>1. CASE UNCHANGED event
    BY <1>1 DEF EventRows
  <1>2. CASE Reverts(w)
    <2> DEFINE line == sidecar[task[w]][loc[w].cursor]
    <2>1. /\ line \in Line /\ task[w] \in Jobs /\ LineRow(task[w], line)
          /\ ~line.torn /\ event[line.key].id = line.id /\ event[line.key].owner = task[w]
          /\ event' = [event EXCEPT ![line.key].owner = line.owner]
      BY <1>2, <1>j, LineTyped DEF Reverts, LineRows
    <2> HIDE DEF line
    <2>2. line.key \in Keys /\ Present(line.key)
      BY <1>t, <2>1 DEF Line, Present
    <2>3. /\ event'[line.key].owner = line.owner
          /\ event'[line.key].born = event[line.key].born
          /\ \A k \in Keys \ {line.key} : event'[k] = event[k]
      BY <1>t, <2>1, <2>2 DEF Event
    <2>4. /\ line.owner \in Jobs => line.key \in Rows[line.owner]
          /\ line.owner \in Jobs \ UpdateJobs => event[line.key].born = line.owner
      BY <2>1, <2>2 DEF LineRow
    <2> QED
      BY <2>3, <2>4 DEF EventRows
  <1>3. CASE Deletes(w)
    <2>1. \A k \in Keys : event'[k] = event[k] \/ event'[k].owner = NoJob
      BY <1>t, <1>3 DEF Deletes, Event
    <2> QED
      BY <1>t, <2>1 DEF EventRows
  <1>4. ASSUME NEW k \in Keys, Captures(w, k) PROVE EventRows'
    <2>1. k \in Rows[task[w]] /\ task[w] \in UpdateJobs
      BY <1>4 DEF Captures, LocalRows
    <2>2. CASE event' = [event EXCEPT ![k].owner = task[w]]
      <3>1. event'[k].owner = task[w] /\ \A i \in Keys \ {k} : event'[i] = event[i]
        BY <1>t, <2>2 DEF Event
      <3> QED
        BY <2>1, <3>1 DEF EventRows
    <2> QED
      BY <1>1, <1>4, <2>2 DEF Captures
  <1>5. ASSUME NEW S \in SUBSET Keys, Inserts(w, S) PROVE EventRows'
    <2>1. S \subseteq Rows[task[w]]
      BY <1>5 DEF Inserts, LocalRows
    <2>2. \A k \in Keys : \/ event'[k] = event[k]
                          \/ /\ k \in S
                             /\ event'[k].owner = task[w] /\ event'[k].born = task[w]
      BY <1>5 DEF Inserts
    <2> QED
      BY <2>1, <2>2 DEF EventRows
  <1> QED
    BY <1>1, <1>2, <1>3, <1>4, <1>5 DEF DataMove, Clears, Tears

\* What a move leaves of an event: an event that is there afterwards with the
\* same row id was there before and was inserted by the same job.
LEMMA EventAge ==
    ASSUME TypeInv, NEW w \in Workers, UNCHANGED <<event, sidecar>> \/ DataMove(w),
           NEW k \in Keys
    PROVE  /\ event[k].id <= event'[k].id
           /\ Present(k)' /\ event'[k].id = event[k].id =>
                Present(k) /\ event'[k].born = event[k].born
  <1>t. event \in [Keys -> Event] /\ NoJob \notin Jobs
    BY EventImportAssumption DEF TypeInv, TypeOK, EventImportAssumption
  <1>j. pc[w] # "idle" => task[w] \in Jobs
    BY DEF TypeInv, TaskOK
  <1>n. event[k].id \in Nat
    BY <1>t DEF Event
  <1>1. CASE UNCHANGED event
    BY <1>1, <1>n DEF Present
  <1>2. CASE Reverts(w)
    <2> DEFINE line == sidecar[task[w]][loc[w].cursor]
    <2>1. /\ event[line.key].owner = task[w] /\ task[w] \in Jobs
          /\ event' = [event EXCEPT ![line.key].owner = line.owner]
      BY <1>2, <1>j DEF Reverts
    <2> HIDE DEF line
    <2>2. /\ event'[k].id = event[k].id /\ event'[k].born = event[k].born
          /\ k # line.key => event'[k] = event[k]
      BY <1>t, <2>1 DEF Event
    <2> QED
      BY <1>t, <1>n, <2>1, <2>2 DEF Present
  <1>3. CASE Deletes(w)
    <2>1. \/ event'[k] = event[k]
          \/ event'[k].owner = NoJob /\ event'[k].id = event[k].id
      BY <1>t, <1>3 DEF Deletes, Event
    <2> QED
      BY <1>n, <2>1 DEF Present
  <1>4. ASSUME NEW i \in Keys, Captures(w, i)
        PROVE  /\ event'[k].id = event[k].id /\ event'[k].born = event[k].born
               /\ Present(k)' => Present(k)
    <2>1. CASE event' = [event EXCEPT ![i].owner = task[w]]
      <3>1. /\ event'[k].id = event[k].id /\ event'[k].born = event[k].born
            /\ k # i => event'[k] = event[k]
        BY <1>t, <2>1 DEF Event
      <3> QED
        BY <1>4, <3>1 DEF Captures, Present
    <2> QED
      BY <1>4, <2>1 DEF Captures, Present
  <1>5. ASSUME NEW S \in SUBSET Keys, Inserts(w, S)
        PROVE  event'[k] = event[k] \/ event'[k].id = event[k].id + 1
    BY <1>5 DEF Inserts
  <1>6. CASE \E i \in Keys : Captures(w, i)
    <2>1. event'[k].id = event[k].id
      BY <1>4, <1>6
    <2> QED
      BY <1>n, <1>4, <1>6, <2>1
  <1>7. CASE \E S \in SUBSET Keys : Inserts(w, S)
    BY <1>n, <1>5, <1>7 DEF Present
  <1>8. CASE Clears(w) \/ \E i \in Keys : Tears(w, i)
    BY <1>1, <1>8 DEF Clears, Tears
  <1> QED
    BY <1>1, <1>2, <1>3, <1>6, <1>7, <1>8 DEF DataMove

LEMMA LineRowsStep ==
    ASSUME TypeInv, TypeInv', LocalRows, EventRows, LineRows, NEW w \in Workers,
           UNCHANGED <<event, sidecar>> \/ DataMove(w)
    PROVE  LineRows'
  <1>t. event \in [Keys -> Event] /\ sidecar \in [Jobs -> Seq(Line)]
    BY DEF TypeInv, TypeOK
  <1>u. event' \in [Keys -> Event] /\ sidecar' \in [Jobs -> Seq(Line)]
    BY DEF TypeInv, TypeOK
  <1>j. pc[w] # "idle" => task[w] \in Jobs
    BY DEF TypeInv, TaskOK
  <1>1. ASSUME NEW j \in Jobs, NEW line \in Line, LineRow(j, line) PROVE LineRow(j, line)'
    <2>1. line.key \in Keys /\ line.id \in Nat
      BY DEF Line
    <2>2. event[line.key].id \in Nat /\ event'[line.key].id \in Nat
      BY <1>t, <1>u, <2>1 DEF Event
    <2>3. /\ event[line.key].id <= event'[line.key].id
          /\ Present(line.key)' /\ event'[line.key].id = event[line.key].id =>
               Present(line.key) /\ event'[line.key].born = event[line.key].born
      BY <2>1, EventAge
    <2>4. line.id <= event[line.key].id
      BY <1>1 DEF LineRow
    <2>5. line.id <= event'[line.key].id
      BY <2>1, <2>2, <2>3, <2>4
    <2>6. line.id = event'[line.key].id => event'[line.key].id = event[line.key].id
      BY <2>1, <2>2, <2>3, <2>4
    <2>7. line.owner \in Jobs \ UpdateJobs /\ Present(line.key)' /\ line.id = event'[line.key].id
            => event'[line.key].born = line.owner
      BY <1>1, <2>3, <2>6 DEF LineRow
    <2> QED
      BY <1>1, <2>5, <2>7 DEF LineRow, Present
  <1>2. ASSUME NEW k \in Keys, NEW b \in BOOLEAN, k \in Rows[task[w]], task[w] \in UpdateJobs,
               ~b => Present(k)
        PROVE  LineRow(task[w], Shot(k, b)) /\ Shot(k, b) \in Line
    <2>1. event[k] \in Event
      BY <1>t
    <2>2. Shot(k, b) \in Line
      BY <2>1 DEF Shot, Line, Event
    <2>3. /\ Shot(k, b).key = k /\ Shot(k, b).id = event[k].id
          /\ Shot(k, b).owner = event[k].owner /\ Shot(k, b).torn = b
      BY ShotFields
    <2>4. event[k].id \in Nat
      BY <2>1 DEF Event
    <2>5. /\ event[k].owner \in Jobs => k \in Rows[event[k].owner]
          /\ event[k].owner \in Jobs \ UpdateJobs => event[k].born = event[k].owner
      BY DEF EventRows
    <2>6. ~b => event[k].owner # NoJob
      BY <1>2 DEF Present
    <2> QED
      BY <1>2, <2>2, <2>3, <2>4, <2>5, <2>6 DEF LineRow
  <1>3. CASE UNCHANGED sidecar
    <2>1. ASSUME NEW j \in Jobs, NEW i \in DOMAIN sidecar[j]
          PROVE  \E line \in Line : line = sidecar[j][i] /\ LineRow(j, line)'
      <3>1. PICK line \in Line : line = sidecar[j][i] /\ LineRow(j, line)
        BY LineTyped DEF LineRows
      <3> QED
        BY <1>1, <3>1
    <2> QED
      BY <1>3, <2>1 DEF LineRows
  <1>4. CASE Clears(w)
    <2>1. \A j \in Jobs : sidecar'[j] = sidecar[j] \/ sidecar'[j] = <<>>
      BY <1>t, <1>4 DEF Clears
    <2>2. \A j \in Jobs : \A i \in DOMAIN sidecar'[j] : i \in DOMAIN sidecar[j] /\ sidecar'[j][i] = sidecar[j][i]
      BY <2>1
    <2>3. ASSUME NEW j \in Jobs, NEW i \in DOMAIN sidecar'[j]
          PROVE  \E line \in Line : line = sidecar'[j][i] /\ LineRow(j, line)'
      <3>1. PICK line \in Line : line = sidecar[j][i] /\ LineRow(j, line)
        BY <2>2, LineTyped DEF LineRows
      <3> QED
        BY <1>1, <2>2, <3>1
    <2> QED
      BY <2>3 DEF LineRows
  <1>5. ASSUME NEW k \in Keys, NEW b \in BOOLEAN, k \in Rows[task[w]], task[w] \in UpdateJobs,
               ~b => Present(k), task[w] \in Jobs,
               sidecar' = [sidecar EXCEPT ![task[w]] = Append(@, Shot(k, b))]
        PROVE  LineRows'
    <2>1. PICK t \in Line : t = Shot(k, b)
      BY <1>2, <1>5
    <2>2. PICK j \in Jobs : j = task[w]
      BY <1>5
    <2>3. LineRow(j, t)
      BY <1>2, <1>5, <2>1, <2>2
    <2>4. sidecar' = [sidecar EXCEPT ![j] = Append(@, t)]
      BY <1>5, <2>1, <2>2
    <2>5. /\ \A o \in Jobs \ {j} : sidecar'[o] = sidecar[o]
          /\ \A i \in DOMAIN sidecar'[j] : \/ i \in DOMAIN sidecar[j] /\ sidecar'[j][i] = sidecar[j][i]
                                           \/ sidecar'[j][i] = t
      BY <1>t, <2>4, AppendedLines
    <2>6. LineRow(j, t)'
      BY <1>1, <2>3
    <2>7. ASSUME NEW o \in Jobs, NEW i \in DOMAIN sidecar[o]
          PROVE  LineRow(o, sidecar[o][i]) /\ sidecar[o][i] \in Line
      BY LineTyped DEF LineRows
    <2>8. ASSUME NEW o \in Jobs, NEW i \in DOMAIN sidecar'[o]
          PROVE  \E line \in Line : LineRow(o, line)' /\ sidecar'[o][i] = line
      <3>1. CASE o = j /\ sidecar'[j][i] = t
        BY <2>6, <3>1
      <3>2. CASE i \in DOMAIN sidecar[o] /\ sidecar'[o][i] = sidecar[o][i]
        <4>1. PICK line \in Line : line = sidecar[o][i] /\ LineRow(o, line)
          BY <2>7, <3>2
        <4> QED
          BY <1>1, <3>2, <4>1
      <3> QED
        BY <2>5, <2>8, <3>1, <3>2
    <2> QED
      BY <2>8 DEF LineRows
  <1>6. CASE \E k \in Keys : Captures(w, k)
    BY <1>5, <1>6, <1>j DEF Captures, LocalRows
  <1>7. CASE \E k \in Keys : Tears(w, k)
    BY <1>5, <1>7, <1>j DEF Tears, LocalRows
  <1> QED
    BY <1>3, <1>4, <1>6, <1>7 DEF DataMove, Reverts, Deletes, Inserts

---------------------------------------------------------------------------
(* Snapshots *)

\* The environment these results need: the queue delivers what is due, and
\* either every cleanup is finished or no two updates meet.
Orderly == DeliveredWhenDue /\ (CleanFailures \/ SeparateUpdates)

\* An event of another job that a delivery finds is settled: its job has
\* committed, or is one that never takes over an event.
LEMMA ForeignSettled ==
    ASSUME Orderly, TypeInv, LeaseInv, LocalRows, EventRows, Tidy,
           NEW w \in Workers, pc[w] = "stream", task[w] \in UpdateJobs,
           NEW k \in Keys, k \in Rows[task[w]], NEW o \in Jobs \ {task[w]}, event[k].owner = o
    PROVE  Committed(o) \/ (o \notin UpdateJobs /\ ~CleanFailures)
  <1>1. k \in Rows[o] /\ task[w] \in Jobs
    BY DEF EventRows, TypeInv, TaskOK
  <1>2. CASE CleanFailures
    <2>1. SUFFICES ASSUME ~Committed(o) PROVE FALSE
      OBVIOUS
    <2>2. PICK v \in Workers : task[v] = o /\ Holds(v)
      BY <1>2, <2>1 DEF Tidy, Dirty, Holds
    <2>3. DatasetAt(v) = DatasetAt(w)
      BY <1>1, <2>2, EventImportAssumption DEF EventImportAssumption, DatasetAt
    <2>4. Holds(w)
      BY DEF Holds
    <2> QED
      BY <2>2, <2>3, <2>4 DEF LeaseInv
  <1>3. CASE ~CleanFailures
    BY <1>1, <1>3 DEF Orderly, SeparateUpdates
  <1> QED
    BY <1>2, <1>3

LEMMA SettledStep ==
    ASSUME Orderly, TypeInv, LeaseInv, CommitInv, LocalRows, EventRows, Tidy, LinesSettled,
           [Next]_vars, NEW w \in Workers, UNCHANGED <<event, sidecar>> \/ DataMove(w)
    PROVE  LinesSettled'
  <1>t. sidecar \in [Jobs -> Seq(Line)]
    BY DEF TypeInv, TypeOK
  <1> DEFINE Settled(j, o) == o \in Jobs \ {j} => Committed(o) \/ (o \notin UpdateJobs /\ ~CleanFailures)
  <1>1. SUFFICES ASSUME NEW j \in Jobs, ~Committed(j)', NEW i \in DOMAIN sidecar'[j],
                        ~sidecar'[j][i].torn
                 PROVE  \E o : o = sidecar'[j][i].owner /\ Settled(j, o)
    <2>2. ASSUME NEW j \in Jobs, ~Committed(j)', NEW i \in DOMAIN sidecar'[j],
                 ~sidecar'[j][i].torn, sidecar'[j][i].owner \in Jobs \ {j}
          PROVE  \/ Committed(sidecar[j][i].owner)'
                 \/ sidecar'[j][i].owner \notin UpdateJobs /\ ~CleanFailures
      <3>1. PICK o : o = sidecar'[j][i].owner /\ Settled(j, o)
        BY <1>1, <2>2
      <3>2. Committed(o)' \/ (o \notin UpdateJobs /\ ~CleanFailures)
        BY <2>2, <3>1, CommittedStays
      <3> QED
        BY <3>1, <3>2 DEF Committed
    <2> QED
      BY <2>2 DEF LinesSettled
  <1>2. ~Committed(j)
    BY <1>1, CommittedStays
  <1>3. CASE i \in DOMAIN sidecar[j] /\ sidecar'[j][i] = sidecar[j][i]
    BY <1>1, <1>2, <1>3 DEF LinesSettled
  <1>4. ASSUME NEW k \in Keys, Captures(w, k), ~(i \in DOMAIN sidecar[j] /\ sidecar'[j][i] = sidecar[j][i])
        PROVE  \E o : o = sidecar'[j][i].owner /\ Settled(j, o)
    <2>1. task[w] \in Jobs /\ pc[w] = "stream" /\ k \in Rows[task[w]] /\ task[w] \in UpdateJobs
      BY <1>4 DEF Captures, TypeInv, TaskOK, LocalRows
    <2>2. PICK t : t = Shot(k, FALSE)
      OBVIOUS
    <2>5. /\ \A o \in Jobs \ {task[w]} : sidecar'[o] = sidecar[o]
          /\ \A l \in DOMAIN sidecar'[task[w]] :
               \/ l \in DOMAIN sidecar[task[w]] /\ sidecar'[task[w]][l] = sidecar[task[w]][l]
               \/ sidecar'[task[w]][l] = t
      <3>1. sidecar' = [sidecar EXCEPT ![task[w]] = Append(@, t)]
        BY <1>4, <2>2 DEF Captures
      <3> QED
        BY <1>t, <2>1, <3>1, AppendedLines
    <2>3. j = task[w] /\ sidecar'[j][i] = t
      BY <1>1, <1>4, <2>5
    <2>4. t.owner = event[k].owner
      BY <2>2, ShotFields
    <2>6. \A o \in Jobs \ {task[w]} : event[k].owner = o =>
             Committed(o) \/ (o \notin UpdateJobs /\ ~CleanFailures)
      BY <2>1, ForeignSettled
    <2> QED
      BY <2>3, <2>4, <2>6
  <1>5. ASSUME NEW k \in Keys, Tears(w, k) PROVE i \in DOMAIN sidecar[j] /\ sidecar'[j][i] = sidecar[j][i]
    <2>1. task[w] \in Jobs
      BY <1>5 DEF Tears, TypeInv, TaskOK
    <2>2. PICK t : t = Shot(k, TRUE)
      OBVIOUS
    <2>3. /\ \A o \in Jobs \ {task[w]} : sidecar'[o] = sidecar[o]
          /\ \A l \in DOMAIN sidecar'[task[w]] :
               \/ l \in DOMAIN sidecar[task[w]] /\ sidecar'[task[w]][l] = sidecar[task[w]][l]
               \/ sidecar'[task[w]][l] = t
      <3>1. sidecar' = [sidecar EXCEPT ![task[w]] = Append(@, t)]
        BY <1>5, <2>2 DEF Tears
      <3> QED
        BY <1>t, <2>1, <3>1, AppendedLines
    <2>4. t.torn
      BY <2>2, ShotFields
    <2> QED
      BY <1>1, <2>3, <2>4
  <1>6. CASE Clears(w)
    <2>1. sidecar'[j] = sidecar[j] \/ sidecar'[j] = <<>>
      BY <1>t, <1>6 DEF Clears
    <2> QED
      BY <1>3, <2>1
  <1>7. CASE UNCHANGED sidecar
    BY <1>3, <1>7
  <1> QED
    BY <1>3, <1>4, <1>5, <1>6, <1>7 DEF DataMove, Reverts, Deletes, Inserts

\* Another delivery's move gives no event to an unfinished job, unless to one
\* that never takes over an event.
LEMMA OwnerMoves ==
    ASSUME TypeInv, CommitInv, LinesSettled, NEW w \in Workers,
           UNCHANGED <<event, sidecar>> \/ DataMove(w),
           NEW k \in Keys, NEW j \in Jobs, event'[k].owner = j, event'[k] # event[k],
           task[w] # j, ~Committed(j)
    PROVE  j \notin UpdateJobs /\ ~CleanFailures
  <1>t. event \in [Keys -> Event] /\ NoJob \notin Jobs
    BY EventImportAssumption DEF TypeInv, TypeOK, EventImportAssumption
  <1>j. pc[w] # "idle" => task[w] \in Jobs
    BY DEF TypeInv, TaskOK
  <1>1. CASE Reverts(w)
    <2> DEFINE line == sidecar[task[w]][loc[w].cursor]
    <2>1. /\ task[w] \in Jobs /\ ~line.torn /\ loc[w].cursor \in DOMAIN sidecar[task[w]]
          /\ event' = [event EXCEPT ![line.key].owner = line.owner]
      BY <1>1, <1>j DEF Reverts
    <2>2. ~Committed(task[w])
      BY <1>1 DEF Reverts, CommitInv, NotYetCommitted, Undecided
    <2>3. line.owner = j
      <3> HIDE DEF line
      <3> QED
        BY <1>t, <2>1 DEF Event
    <2> QED
      BY <2>1, <2>2, <2>3 DEF LinesSettled
  <1>2. CASE Deletes(w)
    <2>1. event'[k] = event[k] \/ event'[k].owner = NoJob
      BY <1>t, <1>2 DEF Deletes, Event
    <2> QED
      BY <1>t, <2>1
  <1>3. ASSUME NEW i \in Keys, Captures(w, i) PROVE FALSE
    <2>1. event' = [event EXCEPT ![i].owner = task[w]] \/ event' = event
      BY <1>3 DEF Captures
    <2> QED
      BY <1>t, <2>1 DEF Event
  <1>4. ASSUME NEW S \in SUBSET Keys, Inserts(w, S) PROVE FALSE
    <2>1. event'[k] = event[k] \/ event'[k].owner = task[w]
      BY <1>4 DEF Inserts
    <2> QED
      BY <2>1
  <1>5. ~UNCHANGED event
    OBVIOUS
  <1> QED
    BY <1>1, <1>2, <1>3, <1>4, <1>5 DEF DataMove, Clears, Tears

\* A snapshot stays one as long as its line and the row id of its event stay.
LEMMA SnapshotsKept ==
    ASSUME NEW j \in Jobs, NEW k \in Keys, event'[k].id = event[k].id,
           \A i \in DOMAIN sidecar[j] : i \in DOMAIN sidecar'[j] /\ sidecar'[j][i] = sidecar[j][i]
    PROVE  Snapshots(j, k) \subseteq Snapshots(j, k)'
  BY DEF Snapshots

LEMMA SnapshottedStep ==
    ASSUME TypeInv, CommitInv, LocalInv, LocalRows, EventRows', LinesSettled, Snapshotted,
           \A v \in Workers : Restoring(v), [Next]_vars, NEW w \in Workers,
           UNCHANGED <<event, sidecar>> \/ DataMove(w)
    PROVE  Snapshotted'
  <1>t. event \in [Keys -> Event] /\ sidecar \in [Jobs -> Seq(Line)] /\ NoJob \notin Jobs
    BY EventImportAssumption DEF TypeInv, TypeOK, EventImportAssumption
  <1>j. pc[w] # "idle" => task[w] \in Jobs
    BY DEF TypeInv, TaskOK
  <1>1. SUFFICES ASSUME NEW k \in Keys, NEW j \in Jobs,
                        event'[k].owner = j, event'[k].born # j, ~Committed(j)'
                 PROVE  Snapshots(j, k)' # {}
    BY DEF Snapshotted
  <1>2. ~Committed(j)
    BY <1>1, CommittedStays
  <1>3. ASSUME event'[k] = event[k],
               \A i \in DOMAIN sidecar[j] : i \in DOMAIN sidecar'[j] /\ sidecar'[j][i] = sidecar[j][i]
        PROVE  Snapshots(j, k)' # {}
    <2>1. Snapshots(j, k) # {}
      BY <1>1, <1>2, <1>3 DEF Snapshotted
    <2> QED
      BY <1>3, <2>1, SnapshotsKept
  <1>4. j \in UpdateJobs
    BY <1>1 DEF EventRows
  <1>5. task[w] # j => event'[k] = event[k]
    BY <1>1, <1>2, <1>4, OwnerMoves
  <1>6. CASE Reverts(w)
    <2> DEFINE line == sidecar[task[w]][loc[w].cursor]
    <2>1. /\ event[line.key].owner = task[w] /\ UNCHANGED sidecar
          /\ event' = [event EXCEPT ![line.key].owner = line.owner]
      BY <1>6 DEF Reverts
    <2> HIDE DEF line
    <2>2. task[w] = j => event'[k] = event[k]
      <3>1. CASE k = line.key
        <4>1. event'[k] = [event[k] EXCEPT !.owner = line.owner] /\ event'[k].owner = line.owner
          BY <1>t, <2>1, <3>1 DEF Event
        <4>2. task[w] = j => line.owner = event[k].owner
          BY <1>1, <2>1, <3>1, <4>1
        <4>3. event[k] \in Event
          BY <1>t
        <4> QED
          BY <4>1, <4>2, <4>3 DEF Event
      <3>2. CASE k # line.key
        BY <1>t, <2>1, <3>2
      <3> QED
        BY <3>1, <3>2
    <2> QED
      BY <1>3, <1>5, <2>1, <2>2
  <1>7. CASE Clears(w)
    <2>1. CASE task[w] = j
      <3>1. pc[w] = "restore"
        BY <1>7, <1>2, <2>1 DEF Clears, LocalInv, Decided
      <3>2. loc[w].cursor > Len(sidecar[j]) /\ ~loc[w].failures /\ UNCHANGED event
        BY <1>7, <2>1, <3>1 DEF Clears
      <3>3. PICK i : i \in Snapshots(j, k)
        BY <1>1, <1>2, <3>2 DEF Snapshotted
      <3>4. loc[w].cursor <= i
        BY <1>1, <2>1, <3>1, <3>2, <3>3 DEF Restoring
      <3>5. i \in Nat /\ i <= Len(sidecar[j]) /\ loc[w].cursor \in Nat /\ Len(sidecar[j]) \in Nat
        BY <3>3, LineTyped, <1>t DEF Snapshots, TypeInv, TypeOK, Locals
      <3> QED
        BY <3>2, <3>4, <3>5
    <2>2. CASE task[w] # j
      <3>1. sidecar'[j] = sidecar[j] /\ UNCHANGED event
        BY <1>t, <1>7, <2>2 DEF Clears
      <3> QED
        BY <1>3, <3>1
    <2> QED
      BY <2>1, <2>2
  <1>8. CASE Deletes(w)
    <2>1. event'[k] = event[k] \/ event'[k].owner = NoJob
      BY <1>t, <1>8 DEF Deletes, Event
    <2> QED
      BY <1>1, <1>3, <1>8, <1>t, <2>1 DEF Deletes
  <1>9. ASSUME NEW i \in Keys, NEW b \in BOOLEAN, task[w] \in Jobs,
               sidecar' = [sidecar EXCEPT ![task[w]] = Append(@, Shot(i, b))]
        PROVE  /\ \A l \in DOMAIN sidecar[j] : l \in DOMAIN sidecar'[j] /\ sidecar'[j][l] = sidecar[j][l]
               /\ task[w] = j => \E l \in DOMAIN sidecar'[j] : sidecar'[j][l] = Shot(i, b)
    <2>1. PICK t : t = Shot(i, b)
      OBVIOUS
    <2>2. sidecar' = [sidecar EXCEPT ![task[w]] = Append(@, t)]
      BY <1>9, <2>1
    <2>3. /\ \A o \in Jobs \ {task[w]} : sidecar'[o] = sidecar[o]
          /\ DOMAIN sidecar'[task[w]] = DOMAIN sidecar[task[w]] \cup {Len(sidecar[task[w]]) + 1}
          /\ \A l \in DOMAIN sidecar[task[w]] : sidecar'[task[w]][l] = sidecar[task[w]][l]
          /\ sidecar'[task[w]][Len(sidecar[task[w]]) + 1] = t
      BY <1>t, <1>9, <2>2, AppendedLines
    <2> QED
      BY <2>1, <2>3
  <1>10. ASSUME NEW i \in Keys, Captures(w, i) PROVE Snapshots(j, k)' # {}
    <2>1. /\ task[w] \in Jobs
          /\ sidecar' = [sidecar EXCEPT ![task[w]] = Append(@, Shot(i, FALSE))]
          /\ event' = [event EXCEPT ![i].owner = task[w]] \/ UNCHANGED event
      BY <1>10, <1>j DEF Captures
    <2>2. /\ \A l \in DOMAIN sidecar[j] : l \in DOMAIN sidecar'[j] /\ sidecar'[j][l] = sidecar[j][l]
          /\ task[w] = j => \E l \in DOMAIN sidecar'[j] : sidecar'[j][l] = Shot(i, FALSE)
      BY <2>1, <1>9
    <2>3. CASE event'[k] = event[k]
      BY <1>3, <2>2, <2>3
    <2>4. CASE event'[k] # event[k]
      <3>1. i = k /\ event'[k] = [event[k] EXCEPT !.owner = task[w]] /\ task[w] = j
        BY <1>5, <1>t, <2>1, <2>4
      <3>2. event[k].owner # j /\ event'[k].id = event[k].id
        BY <1>t, <2>4, <3>1 DEF Event
      <3>3. PICK l \in DOMAIN sidecar'[j] : sidecar'[j][l] = Shot(k, FALSE)
        BY <2>2, <3>1
      <3>4. /\ sidecar'[j][l].key = k /\ sidecar'[j][l].id = event[k].id
            /\ sidecar'[j][l].owner = event[k].owner /\ ~sidecar'[j][l].torn
        BY <3>3 DEF Shot
      <3>5. l \in Snapshots(j, k)'
        BY <3>2, <3>3, <3>4 DEF Snapshots
      <3> QED
        BY <3>5
    <2> QED
      BY <2>3, <2>4
  <1>11. ASSUME NEW i \in Keys, Tears(w, i) PROVE Snapshots(j, k)' # {}
    BY <1>3, <1>9, <1>11, <1>j DEF Tears
  <1>12. ASSUME NEW S \in SUBSET Keys, Inserts(w, S) PROVE Snapshots(j, k)' # {}
    <2>1. event'[k] = event[k] \/ event'[k].owner = event'[k].born
      BY <1>12 DEF Inserts
    <2> QED
      BY <1>1, <1>3, <1>12, <2>1 DEF Inserts
  <1>13. CASE UNCHANGED <<event, sidecar>>
    BY <1>3, <1>13
  <1> QED
    BY <1>6, <1>7, <1>8, <1>10, <1>11, <1>12, <1>13 DEF DataMove

\* Every move of the data is one of a delivery that is under way, and it
\* concerns the sidecar of its own job.
LEMMA MoverBusy ==
    ASSUME TypeInv, NEW w \in Workers, UNCHANGED <<event, sidecar>> \/ DataMove(w),
           NEW j \in Jobs, pc[w] # "idle" => task[w] # j
    PROVE  sidecar'[j] = sidecar[j]
  <1>t. sidecar \in [Jobs -> Seq(Line)]
    BY DEF TypeInv, TypeOK
  <1>1. CASE Clears(w)
    BY <1>t, <1>1 DEF Clears
  <1>2. CASE \E k \in Keys : Captures(w, k)
    BY <1>t, <1>2 DEF Captures
  <1>3. CASE \E k \in Keys : Tears(w, k)
    BY <1>t, <1>3 DEF Tears
  <1> QED
    BY <1>1, <1>2, <1>3 DEF DataMove, Reverts, Deletes, Inserts

LEMMA RestoringOther ==
    ASSUME TypeInv, CommitInv, LinesSettled, LineRows, NEW w \in Workers,
           UNCHANGED <<event, sidecar>> \/ DataMove(w),
           NEW v \in Workers \ {w}, Untouched(v), Restoring(v)
    PROVE  Restoring(v)'
  <1> DEFINE j == task[v]
  <1>1. SUFFICES ASSUME pc[v] \in {"restore", "delete"} PROVE Restoring(v)'
    BY DEF Restoring, Untouched
  <1>2. j \in Jobs /\ ~Committed(j) /\ pc'[v] = pc[v] /\ task'[v] = j /\ loc'[v] = loc[v]
    BY <1>1 DEF CommitInv, NotYetCommitted, Undecided, TypeInv, TaskOK, Untouched
  <1>3. pc[w] # "idle" => task[w] # j
    BY <1>1 DEF CommitInv, OneDelivery
  <1>4. sidecar'[j] = sidecar[j]
    BY <1>2, <1>3, MoverBusy
  <1>5. \A i \in DOMAIN sidecar[j] : j \in UpdateJobs
    BY <1>2 DEF LineRows, LineRow
  <1>6. ASSUME NEW k \in Keys, event'[k].owner = j, NEW i \in Snapshots(j, k)',
               pc[v] = "restore", ~loc[v].failures
        PROVE  loc[v].cursor <= i
    <2>1. i \in DOMAIN sidecar[j] /\ j \in UpdateJobs
      BY <1>2, <1>4, <1>5, <1>6 DEF Snapshots
    <2>2. event'[k] = event[k]
      <3>1. CASE pc[w] = "idle"
        BY <3>1 DEF DataMove, Reverts, Clears, Deletes, Captures, Inserts, Tears
      <3>2. CASE pc[w] # "idle"
        BY <1>2, <1>3, <1>6, <2>1, <3>2, OwnerMoves
      <3> QED
        BY <3>1, <3>2
    <2>3. i \in Snapshots(j, k)
      BY <1>2, <1>4, <1>6, <2>2 DEF Snapshots
    <2> QED
      BY <1>6, <2>2, <2>3 DEF Restoring
  <1> QED
    BY <1>2, <1>4, <1>6 DEF Restoring

LEMMA RestoringSelf ==
    ASSUME TypeInv, LocalInv, NEW w \in Workers, Restoring(w), DeliveryStep(w)
    PROVE  Restoring(w)'
  <1>t. /\ loc[w] \in Locals /\ loc \in [Workers -> Locals] /\ pc \in [Workers -> PCs]
        /\ event \in [Keys -> Event] /\ sidecar \in [Jobs -> Seq(Line)]
    BY DEF TypeInv, TypeOK
  <1>l. FromFirstLine(w)
    BY DEF LocalInv
  <1>1. ASSUME pc'[w] \notin {"restore", "delete"} PROVE Restoring(w)'
    BY <1>1 DEF Restoring
  <1>2. ASSUME pc'[w] = "restore", loc'[w].cursor = 1, task'[w] \in Jobs,
               UNCHANGED sidecar
        PROVE  Restoring(w)'
    <2>1. \A k, i : i \in Snapshots(task[w], k)' => 1 <= i
      <3>1. \A i \in DOMAIN sidecar[task'[w]] : i \in Nat \ {0}
        BY <1>2, LineTyped
      <3> QED
        BY <1>2, <3>1 DEF Snapshots
    <2> QED
      BY <1>2, <2>1 DEF Restoring
  <1>3. ASSUME EnterCatch(w), UNCHANGED <<sidecar, task>>, pc[w] # "idle" PROVE Restoring(w)'
    <2>1. /\ loc'[w] = [loc[w] EXCEPT !.phase = "catch", !.cursor = 1, !.failures = FALSE]
          /\ pc'[w] = "restore" /\ task'[w] \in Jobs
      BY <1>3, <1>t DEF EnterCatch, SetLocals, Goto, TypeInv, TaskOK
    <2>2. loc'[w].cursor = 1
      BY <2>1, <1>t DEF Locals
    <2> QED
      BY <1>2, <1>3, <2>1, <2>2
  <1>4. CASE (\E j \in Jobs : Deliver(w, j)) \/ LeaseTimeout(w) \/ Guard(w)
    <2>1. pc'[w] \in {"acquire", "markFailed", "threw", "release", "begin"}
      BY <1>4, <1>t DEF Deliver, LeaseTimeout, Guard, Goto
    <2> QED
      BY <1>1, <2>1
  <1>5. CASE AcquireLease(w)
    <2>1. /\ pc'[w] \in {"restore", "guard"} /\ UNCHANGED <<sidecar, loc, task>>
          /\ pc[w] = "acquire"
      BY <1>5, <1>t DEF AcquireLease, Goto
    <2>2. loc'[w].cursor = 1 /\ task'[w] \in Jobs
      BY <2>1, <1>l DEF FromFirstLine, TypeInv, TaskOK
    <2> QED
      BY <1>1, <1>2, <2>1, <2>2
  <1>6. CASE Begin(w)
    <2>1. CASE EnterCatch(w)
      BY <1>3, <1>6, <2>1 DEF Begin
    <2>2. CASE ~EnterCatch(w)
      <3>1. /\ pc'[w] = "restore" /\ UNCHANGED <<sidecar, loc, task>> /\ pc[w] = "begin"
        BY <1>6, <2>2, <1>t DEF Begin, Goto
      <3>2. loc'[w].cursor = 1 /\ task'[w] \in Jobs
        BY <3>1, <1>l DEF FromFirstLine, TypeInv, TaskOK
      <3> QED
        BY <1>2, <3>1, <3>2
    <2> QED
      BY <2>1, <2>2
  <1>7. CASE RestoreLine(w)
    <2> DEFINE j == task[w]
               c == loc[w].cursor
               line == sidecar[j][c]
               mine == ~line.torn /\ event[line.key].id = line.id /\ event[line.key].owner = j
    <2>1. /\ pc[w] = "restore" /\ pc'[w] = "restore" /\ UNCHANGED <<sidecar, task>>
          /\ j \in Jobs /\ c \in Nat
      BY <1>7, <1>t DEF RestoreLine, TypeInv, TaskOK, Locals
    <2>2. CASE loc'[w] = [loc[w] EXCEPT !.cursor = @ + 1, !.failures = TRUE]
      <3>1. loc'[w].failures
        BY <1>t, <2>2 DEF Locals
      <3> QED
        BY <2>1, <3>1 DEF Restoring
    <2>3. ASSUME loc'[w] = [loc[w] EXCEPT !.cursor = @ + 1],
                 NEW k \in Keys, event'[k].owner = j, NEW i \in Snapshots(j, k)',
                 ~loc'[w].failures, event'[k] = event[k], ~(i = c)
          PROVE  loc'[w].cursor <= i
      <3>1. loc'[w].cursor = c + 1 /\ loc'[w].failures = loc[w].failures
        BY <1>t, <2>3 DEF Locals
      <3>2. i \in Snapshots(j, k)
        BY <2>1, <2>3 DEF Snapshots
      <3>3. c <= i
        BY <2>1, <2>3, <3>1, <3>2 DEF Restoring
      <3>4. i \in Nat
        BY <2>1, <3>2, LineTyped DEF Snapshots
      <3> QED
        BY <2>1, <2>3, <3>1, <3>3, <3>4
    <2>4. ASSUME NEW k \in Keys, event'[k].owner = j, NEW i \in Snapshots(j, k)',
                 mine, event' = [event EXCEPT ![line.key].owner = line.owner]
          PROVE  event'[k] = event[k] /\ i # c
      <3>1. event'[k] = event[k]
        <4>1. CASE k = line.key
          <5>1. event[k].owner = j /\ event[k] \in Event
            BY <1>t, <2>4, <4>1
          <5>2. event'[k] = [event[k] EXCEPT !.owner = line.owner]
            <6> HIDE DEF line
            <6> QED
              BY <1>t, <2>4, <4>1
          <5>3. line.owner = j
            BY <2>4, <5>1, <5>2 DEF Event
          <5> QED
            BY <5>1, <5>2, <5>3 DEF Event
        <4>2. CASE k # line.key
          <5> HIDE DEF line
          <5> QED
            BY <1>t, <2>4, <4>2
        <4> QED
          BY <4>1, <4>2
      <3>2. i = c => line.key = k /\ line.owner # j
        BY <2>1, <2>4 DEF Snapshots
      <3>3. k = line.key => line.owner = j
        <4>1. k = line.key => event'[k].owner = line.owner
          <5> HIDE DEF line
          <5> QED
            BY <1>t, <2>4 DEF Event
        <4> QED
          BY <2>4, <4>1
      <3> QED
        BY <3>1, <3>2, <3>3
    <2>5. ASSUME NEW k \in Keys, event'[k].owner = j, NEW i \in Snapshots(j, k)',
                 ~mine, ~line.torn, UNCHANGED event
          PROVE  event'[k] = event[k] /\ i # c
      BY <2>1, <2>5 DEF Snapshots
    <2>6. CASE loc'[w] = [loc[w] EXCEPT !.cursor = @ + 1]
               /\ ~(loc'[w] = [loc[w] EXCEPT !.cursor = @ + 1, !.failures = TRUE])
      <3>1. \/ mine /\ event' = [event EXCEPT ![line.key].owner = line.owner]
            \/ ~mine /\ ~line.torn /\ UNCHANGED event
        BY <1>7, <1>t, <2>6 DEF RestoreLine, SetLocals
      <3>2. ASSUME NEW k \in Keys, event'[k].owner = j, NEW i \in Snapshots(j, k)',
                   ~loc'[w].failures
            PROVE  loc'[w].cursor <= i
        <4>1. event'[k] = event[k] /\ i # c
          <5> HIDE DEF mine, line
          <5> QED
            BY <2>4, <2>5, <3>1, <3>2
        <4> QED
          BY <2>3, <2>6, <3>2, <4>1
      <3> QED
        BY <2>1, <3>2 DEF Restoring
    <2>7. \/ loc'[w] = [loc[w] EXCEPT !.cursor = @ + 1]
          \/ loc'[w] = [loc[w] EXCEPT !.cursor = @ + 1, !.failures = TRUE]
      BY <1>7, <1>t DEF RestoreLine, SetLocals
    <2> QED
      BY <2>2, <2>6, <2>7
  <1>8. CASE RestoreDone(w) \/ DeleteFresh(w)
    <2>p. AfterCleanup(w) \in {"reserve", "refund", "release"}
      BY <1>t DEF AfterCleanup, Locals
    <2>1. CASE RestoreDone(w) /\ ~loc[w].failures
      <3>1. /\ pc'[w] = "delete" /\ UNCHANGED task /\ task[w] \in Jobs
            /\ sidecar' = [sidecar EXCEPT ![task[w]] = <<>>]
        BY <1>t, <2>1 DEF RestoreDone, Goto, TypeInv, TaskOK
      <3>2. sidecar'[task'[w]] = <<>>
        BY <1>t, <3>1
      <3> QED
        BY <3>1, <3>2 DEF Restoring
    <2>2. CASE ~(RestoreDone(w) /\ ~loc[w].failures)
      <3>1. pc'[w] = AfterCleanup(w)
        BY <1>8, <1>t, <2>2 DEF RestoreDone, DeleteFresh, Goto
      <3> QED
        BY <1>1, <2>p, <3>1
    <2> QED
      BY <2>1, <2>2
  <1>9. CASE CleanupThrows(w)
    <2>1. CASE EnterCatch(w)
      BY <1>3, <1>9, <2>1 DEF CleanupThrows
    <2>2. CASE ~EnterCatch(w)
      <3>1. pc'[w] = AfterCleanup(w)
        BY <1>9, <1>t, <2>2 DEF CleanupThrows, Goto
      <3>2. AfterCleanup(w) \in {"reserve", "refund", "release"}
        BY <1>t DEF AfterCleanup, Locals
      <3> QED
        BY <1>1, <3>1, <3>2
    <2> QED
      BY <2>1, <2>2
  <1>10. CASE Reserve(w) \/ Throw(w)
    <2>1. CASE EnterCatch(w)
      BY <1>3, <1>10, <2>1 DEF Reserve, Throw
    <2>2. CASE ~EnterCatch(w)
      <3>1. pc'[w] = "stream"
        BY <1>10, <1>t, <2>2 DEF Reserve, Throw, Goto
      <3> QED
        BY <1>1, <3>1
    <2> QED
      BY <2>1, <2>2
  <1>11. CASE UpdateRow(w) \/ InsertBatch(w) \/ ReconcileConflict(w)
    <2>1. pc'[w] = "stream"
      BY <1>11 DEF UpdateRow, InsertBatch, ReconcileConflict
    <2> QED
      BY <1>1, <2>1
  <1>12. CASE StreamDone(w) \/ MarkJobCompleted(w) \/ Finalize(w) \/ Discard(w) \/ Refund(w)
              \/ ReleaseLease(w) \/ OnFail(w)
    <2>1. pc'[w] \in {"complete", "finalize", "discard", "release", "returned", "markFailed",
                      "threw", "acquire"}
      BY <1>12, <1>t DEF StreamDone, MarkJobCompleted, Finalize, Discard, Refund, ReleaseLease,
         OnFail, Goto
    <2> QED
      BY <1>1, <2>1
  <1>13. CASE OnSuccess(w) \/ TaskRetry(w) \/ MarkSheetFailed(w) \/ OnFailMark(w) \/ Crash(w)
    <2>1. Finish(w)
      BY <1>13 DEF OnSuccess, TaskRetry, MarkSheetFailed, OnFailMark, WriteFailed, Crash
    <2>2. pc'[w] = "idle"
      BY <1>t, <2>1 DEF Finish, Goto
    <2> QED
      BY <1>1, <2>2
  <1> QED
    BY <1>4, <1>5, <1>6, <1>7, <1>8, <1>9, <1>10, <1>11, <1>12, <1>13 DEF DeliveryStep, Step

---------------------------------------------------------------------------
(* If every cleanup is finished, a job that nothing runs for is clean. *)

Working == {"restore", "delete", "stream", "complete", "finalize"}

\* After the delete of its inserts a job that has not committed is clean.
LEMMA DeletedClean ==
    ASSUME TypeInv, CommitInv, Snapshotted, NEW w \in Workers, Restoring(w), DeleteFresh(w),
           NEW j \in Jobs, j = task[w]
    PROVE  ~Dirty(j)'
  <1>t. event \in [Keys -> Event] /\ NoJob \notin Jobs /\ Seed \notin Jobs
    BY EventImportAssumption DEF TypeInv, TypeOK, EventImportAssumption
  <1>1. sidecar[j] = <<>> /\ sidecar' = sidecar /\ pc[w] = "delete"
    BY DEF DeleteFresh, Restoring
  <1>2. ~Committed(j)
    BY <1>1 DEF CommitInv, NotYetCommitted, Undecided
  <1>3. ASSUME NEW k \in Keys, event'[k].owner = j PROVE FALSE
    <2>1. event'[k] = event[k] /\ k \notin Fresh(j)
      BY <1>3, <1>t DEF DeleteFresh, Event
    <2>2. event[k].owner = j /\ event[k].born = Seed
      BY <1>3, <2>1 DEF Fresh
    <2>3. Snapshots(j, k) # {}
      BY <1>t, <1>2, <2>2 DEF Snapshotted
    <2> QED
      BY <1>1, <2>3 DEF Snapshots
  <1> QED
    BY <1>1, <1>3 DEF Dirty

LEMMA TidyStep ==
    ASSUME TypeInv, CommitInv, LocalInv, LinesSettled, Snapshotted,
           \A v \in Workers : Restoring(v), Tidy, [Next]_vars, NEW w \in Workers, DeliveryStep(w),
           UNCHANGED <<event, sidecar>> \/ DataMove(w)
    PROVE  Tidy'
  <1> SUFFICES ASSUME CleanFailures PROVE Tidy'
    BY DEF Tidy
  <1>t. /\ event \in [Keys -> Event] /\ sidecar \in [Jobs -> Seq(Line)] /\ NoJob \notin Jobs
        /\ loc[w] \in Locals /\ loc \in [Workers -> Locals] /\ pc \in [Workers -> PCs]
    BY EventImportAssumption DEF TypeInv, TypeOK, EventImportAssumption
  <1>j. pc[w] # "idle" => task[w] \in Jobs
    BY DEF TypeInv, TaskOK
  <1>f. "crash" \notin Faults /\ "restoreFail" \notin Faults /\ "cleanupFail" \notin Faults
    BY DEF CleanFailures
  <1>u. \A v \in Workers \ {w} : Untouched(v)
    BY OneMoves
  <1>n. \A v \in Workers : ~loc[v].failures
    BY DEF Tidy
  <1>1. ASSUME NEW j \in Jobs, NEW i \in DOMAIN sidecar'[j] PROVE ~sidecar'[j][i].torn
    <2>1. CASE i \in DOMAIN sidecar[j] /\ sidecar'[j][i] = sidecar[j][i]
      BY <2>1 DEF Tidy
    <2>2. ASSUME NEW k \in Keys, Captures(w, k) PROVE ~sidecar'[j][i].torn
      <3>1. PICK t : t = Shot(k, FALSE)
        OBVIOUS
      <3>2. task[w] \in Jobs /\ sidecar' = [sidecar EXCEPT ![task[w]] = Append(@, t)]
        BY <1>j, <2>2, <3>1 DEF Captures
      <3>3. \/ i \in DOMAIN sidecar[j] /\ sidecar'[j][i] = sidecar[j][i]
            \/ sidecar'[j][i] = t
        <4>1. /\ \A o \in Jobs \ {task[w]} : sidecar'[o] = sidecar[o]
              /\ \A l \in DOMAIN sidecar'[task[w]] :
                   \/ l \in DOMAIN sidecar[task[w]] /\ sidecar'[task[w]][l] = sidecar[task[w]][l]
                   \/ sidecar'[task[w]][l] = t
          BY <1>t, <3>2, AppendedLines
        <4> QED
          BY <1>1, <4>1
      <3>4. ~t.torn
        BY <3>1, ShotFields
      <3> QED
        BY <2>1, <3>3, <3>4
    <2>3. CASE Clears(w)
      <3>1. sidecar'[j] = sidecar[j] \/ sidecar'[j] = <<>>
        BY <1>t, <2>3 DEF Clears
      <3> QED
        BY <1>1, <2>1, <3>1
    <2>4. CASE UNCHANGED sidecar
      BY <1>1, <2>1, <2>4
    <2> QED
      BY <1>f, <2>2, <2>3, <2>4 DEF DataMove, Reverts, Deletes, Inserts, Tears
  <1>2. ~loc'[w].failures
    <2>1. CASE RestoreLine(w)
      <3>1. ~sidecar[task[w]][loc[w].cursor].torn
        <4>1. /\ task[w] \in Jobs /\ loc[w].cursor \in Nat \ {0}
              /\ loc[w].cursor <= Len(sidecar[task[w]]) /\ sidecar[task[w]] \in Seq(Line)
          BY <2>1, <1>j, <1>t DEF RestoreLine, Locals
        <4>2. loc[w].cursor \in DOMAIN sidecar[task[w]]
          BY <4>1
        <4> QED
          BY <4>1, <4>2 DEF Tidy
      <3>2. loc'[w] = [loc[w] EXCEPT !.cursor = @ + 1]
        BY <1>f, <1>t, <2>1, <3>1 DEF RestoreLine, SetLocals
      <3> QED
        BY <1>n, <1>t, <3>2 DEF Locals
    <2>2. CASE loc'[w] = loc[w]
      BY <1>n, <2>2
    <2>3. CASE EnterCatch(w)
      <3>1. loc'[w] = [loc[w] EXCEPT !.phase = "catch", !.cursor = 1, !.failures = FALSE]
        BY <1>t, <2>3 DEF EnterCatch, SetLocals
      <3> QED
        BY <1>t, <3>1 DEF Locals
    <2>4. CASE (\E j \in Jobs : Deliver(w, j)) \/ OnFail(w) \/ OnSuccess(w) \/ TaskRetry(w)
               \/ MarkSheetFailed(w) \/ OnFailMark(w) \/ Crash(w)
      <3>1. loc'[w] = NewLocals \/ loc'[w] = [NewLocals EXCEPT !.phase = "onFail"]
        BY <1>t, <2>4 DEF Deliver, OnFail, OnSuccess, TaskRetry, MarkSheetFailed, OnFailMark,
           Crash, WriteFailed, Finish, SetLocals
      <3> QED
        BY <3>1 DEF NewLocals
    <2>5. CASE UpdateRow(w)
      <3>1. \E k : LET rest == [loc[w] EXCEPT !.todo = @ \ {k}]
              IN  \/ loc'[w] = [rest EXCEPT !.captured = @ \cup {k}, !.updated = @ + 1]
                  \/ loc'[w] = [rest EXCEPT !.captured = @ \cup {k}, !.errs = TRUE]
                  \/ loc'[w] = [rest EXCEPT !.errs = TRUE]
        BY <2>5, <1>t DEF UpdateRow, OverwriteEvent, SetLocals
      <3> QED
        BY <1>n, <1>t, <3>1 DEF Locals
    <2>6. CASE ReconcileConflict(w)
      <3>1. \E k : LET rest == [loc[w] EXCEPT !.conflict = @ \ {k}]
              IN  \/ loc'[w] = [rest EXCEPT !.captured = @ \cup {k}, !.updated = @ + 1]
                  \/ loc'[w] = [rest EXCEPT !.captured = @ \cup {k}, !.errs = TRUE]
                  \/ loc'[w] = rest
        BY <2>6, <1>t DEF ReconcileConflict, OverwriteEvent, SetLocals
      <3> QED
        BY <1>n, <1>t, <3>1 DEF Locals
    <2>7. CASE InsertBatch(w)
      <3> DEFINE lost(b) == {k \in b : Present(k)}
                 conflicts(b) == IF task[w] \in UpdateJobs THEN loc[w].conflict \cup lost(b)
                                 ELSE loc[w].conflict
      <3>1. \E b : \/ loc'[w] = [loc[w] EXCEPT !.todo = @ \ b, !.conflict = conflicts(b)]
                   \/ loc'[w] = [loc[w] EXCEPT !.todo = @ \ b, !.errs = TRUE]
        BY <2>7, <1>t DEF InsertBatch, SetLocals
      <3> HIDE DEF conflicts
      <3> QED
        BY <1>n, <1>t, <3>1 DEF Locals
    <2>8. CASE Guard(w) \/ MarkJobCompleted(w) \/ Discard(w)
      <3>1. \/ loc'[w] = loc[w]
            \/ loc'[w] = [loc[w] EXCEPT !.ok = TRUE]
            \/ loc'[w] = [loc[w] EXCEPT !.tracked = NewEvents(w)]
        BY <2>8, <1>t DEF Guard, MarkJobCompleted, Discard, SetLocals
      <3> QED
        BY <1>n, <1>t, <3>1 DEF Locals
    <2>9. CASE Reserve(w) /\ ~EnterCatch(w)
      <3> DEFINE n == Cardinality(plan[task[w]].insert)
                 rows == plan[task[w]].insert \cup Updates(task[w])
      <3>1. loc'[w] = [loc[w] EXCEPT !.reserved = n, !.todo = rows]
        BY <2>9, <1>t DEF Reserve, SetLocals
      <3> HIDE DEF n, rows
      <3> QED
        BY <1>n, <1>t, <3>1 DEF Locals
    <2>10. ASSUME Step(w), ~RestoreLine(w), ~OnFail(w), ~OnSuccess(w), ~TaskRetry(w),
                  ~MarkSheetFailed(w), ~OnFailMark(w), ~UpdateRow(w), ~ReconcileConflict(w),
                  ~InsertBatch(w), ~Guard(w), ~MarkJobCompleted(w), ~Discard(w), ~Reserve(w),
                  ~EnterCatch(w)
           PROVE  UNCHANGED loc
      BY <2>10 DEF Step, AcquireLease, LeaseTimeout, Begin, RestoreDone, DeleteFresh,
         CleanupThrows, StreamDone, Finalize, Throw, Refund, ReleaseLease
    <2> QED
      BY <2>1, <2>2, <2>3, <2>4, <2>5, <2>6, <2>7, <2>8, <2>9, <2>10 DEF DeliveryStep
  <1>3. ASSUME pc[w] \in Working
        PROVE  \/ pc'[w] \in Working /\ task'[w] = task[w]
               \/ ~Dirty(task[w])' 
    <2>0. PICK j \in Jobs : j = task[w]
      BY <1>3, <1>j DEF Working
    <2>1. CASE RestoreLine(w) \/ UpdateRow(w) \/ InsertBatch(w) \/ ReconcileConflict(w)
      BY <1>3, <2>1 DEF RestoreLine, UpdateRow, InsertBatch, ReconcileConflict
    <2>2. CASE RestoreDone(w)
      BY <1>n, <1>t, <2>2 DEF RestoreDone, Goto, Working
    <2>3. CASE DeleteFresh(w)
      <3>1. ~Dirty(j)'
        BY <2>0, <2>3, DeletedClean
      <3> QED
        BY <2>0, <2>3, <3>1 DEF DeleteFresh, Dirty, Committed
    <2>4. CASE StreamDone(w) \/ MarkJobCompleted(w)
      BY <1>t, <2>4 DEF StreamDone, MarkJobCompleted, Goto, Working
    <2>5. CASE Finalize(w)
      <3>1. Committed(task[w])'
        BY <2>0, <2>5 DEF Finalize, Committed, TypeInv, TypeOK
      <3> QED
        BY <3>1 DEF Dirty
    <2>6. CASE Throw(w)
      BY <1>t, <2>6 DEF Throw, EnterCatch, Goto, Working
    <2>7. ASSUME ~RestoreLine(w), ~UpdateRow(w), ~InsertBatch(w), ~ReconcileConflict(w),
                 ~RestoreDone(w), ~DeleteFresh(w), ~StreamDone(w), ~MarkJobCompleted(w),
                 ~Finalize(w), ~Throw(w)
          PROVE  FALSE
      BY <1>3, <1>f, <2>7 DEF DeliveryStep, Step, Working, Deliver, Crash, AcquireLease, LeaseTimeout,
         Guard, Begin, CleanupThrows, Reserve, Discard, Refund, ReleaseLease, OnSuccess,
         TaskRetry, MarkSheetFailed, OnFail, OnFailMark
    <2> QED
      BY <2>1, <2>2, <2>3, <2>4, <2>5, <2>6, <2>7
  <1>4. ASSUME NEW j \in Jobs, Dirty(j)'
        PROVE  \E v \in Workers : task'[v] = j /\ pc'[v] \in Working
    <2>1. ~Committed(j)
      BY <1>4, CommittedStays DEF Dirty
    <2>2. ASSUME Dirty(j), ~(task[w] = j /\ pc[w] \in Working)
          PROVE  \E v \in Workers : task'[v] = j /\ pc'[v] \in Working
      <3>1. PICK v \in Workers : task[v] = j /\ pc[v] \in Working
        BY <2>2 DEF Tidy, Working
      <3> QED
        BY <1>u, <2>2, <3>1 DEF Untouched
    <2>3. CASE task[w] = j /\ pc[w] \in Working
      <3>1. Dirty(task[w])' => pc'[w] \in Working /\ task'[w] = task[w]
        BY <1>3, <2>3
      <3>2. CASE task'[w] = task[w]
        BY <1>4, <2>3, <3>1, <3>2
      <3>3. CASE task'[w] # task[w]
        \* Only a delivery that ends changes its job, and no working one does.
        BY <2>3, <3>3, <1>f DEF DeliveryStep, Step, Working, Deliver, Crash, AcquireLease,
           LeaseTimeout, Guard, Begin, RestoreLine, RestoreDone, DeleteFresh, CleanupThrows,
           Reserve, UpdateRow, InsertBatch, ReconcileConflict, StreamDone, MarkJobCompleted,
           Finalize, Discard, Throw, Refund, ReleaseLease, OnSuccess, TaskRetry,
           MarkSheetFailed, OnFail, OnFailMark
      <3> QED
        BY <3>2, <3>3
    <2>4. CASE ~(task[w] = j /\ pc[w] \in Working)
      \* The step is not one that writes for j.
      <3>1. Dirty(j)
        <4>1. CASE UNCHANGED <<event, sidecar>>
          BY <1>4, <2>1, <4>1 DEF Dirty
        <4>2. CASE DataMove(w) /\ task[w] # j
          <5>1. sidecar'[j] = sidecar[j]
            BY <4>2, MoverBusy
          <5>2. \A k \in Keys : event'[k].owner = j => event[k].owner = j
            <6>1. \A k \in Keys : event'[k].owner = j => event'[k] = event[k]
              BY <2>1, <4>2, OwnerMoves
            <6> QED
              BY <6>1
          <5> QED
            BY <1>4, <2>1, <5>1, <5>2 DEF Dirty
        <4>3. CASE DataMove(w) /\ task[w] = j
          <5>1. pc[w] \notin Working /\ DataMove(w)
            BY <2>4, <4>3
          <5>2. pc[w] = "discard"
            BY <5>1 DEF DataMove, Reverts, Clears, Deletes, Captures, Inserts, Tears, Working
          <5> QED
            BY <2>1, <4>3, <5>2 DEF LocalInv, Decided
        <4> QED
          BY <4>1, <4>2, <4>3
      <3> QED
        BY <2>2, <2>4, <3>1
    <2> QED
      BY <2>3, <2>4
  <1>5. \A v \in Workers : ~loc'[v].failures
    BY <1>2, <1>n, <1>u DEF Untouched
  <1> QED
    BY <1>1, <1>4, <1>5 DEF Tidy, Working

---------------------------------------------------------------------------
(* The invariant, and what follows from it *)

LEMMA ImportInit == Init => ImportInv
  <1> SUFFICES ASSUME Init PROVE ImportInv
    OBVIOUS
  <1>1. TypeInv /\ LeaseInv /\ LocalInv
    BY TypeInit, LeaseInit, LocalInit
  <1>2. PlanRows /\ LocalRows /\ EventRows /\ LineRows
    BY RowsInit
  <1>3. CommitInv
    BY DEF Init, CommitInv, OneDelivery, NotYetCommitted, Undecided
  <1>4. Snapshotted
    BY EventImportAssumption DEF Init, Snapshotted, EventImportAssumption
  <1>5. \A w \in Workers : Restoring(w)
    BY DEF Init, Restoring
  <1>6. LinesSettled
    BY DEF Init, LinesSettled
  <1>7. Tidy
    BY EventImportAssumption DEF Init, Tidy, Dirty, NewLocals, EventImportAssumption
  <1> QED
    BY <1>1, <1>2, <1>3, <1>4, <1>5, <1>6, <1>7 DEF ImportInv

LEMMA ImportStep ==
    ASSUME Orderly
    PROVE  ImportInv /\ [Next]_vars => ImportInv'
  <1> SUFFICES ASSUME ImportInv, [Next]_vars PROVE ImportInv'
    OBVIOUS
  <1>i. /\ TypeInv /\ LeaseInv /\ CommitInv /\ LocalInv
        /\ PlanRows /\ LocalRows /\ EventRows /\ LineRows
        /\ Snapshotted /\ (\A w \in Workers : Restoring(w)) /\ LinesSettled /\ Tidy
    BY DEF ImportInv
  <1>1. TypeInv' /\ LeaseInv' /\ CommitInv' /\ LocalInv' /\ PlanRows' /\ LocalRows'
    BY <1>i, TypeStep, LeaseStep, CommitStep, LocalStep, PlanRowsStep, LocalRowsStep
    DEF Orderly
  <1>2. ASSUME NEW w \in Workers, DeliveryStep(w) PROVE ImportInv'
    <2>1. UNCHANGED <<event, sidecar>> \/ DataMove(w)
      BY <1>i, <1>2, DataStep
    <2>2. EventRows' /\ LineRows'
      BY <1>i, <1>1, <2>1, EventRowsStep, LineRowsStep
    <2>3. LinesSettled'
      BY <1>i, <2>1, SettledStep
    <2>4. Snapshotted'
      BY <1>i, <2>1, <2>2, SnapshottedStep
    <2>5. \A v \in Workers \ {w} : Restoring(v)'
      BY <1>i, <1>2, <2>1, OneMoves, RestoringOther
    <2>6. Restoring(w)'
      BY <1>i, <1>2, RestoringSelf
    <2>7. Tidy'
      BY <1>i, <1>2, <2>1, TidyStep
    <2> QED
      BY <1>1, <2>2, <2>3, <2>4, <2>5, <2>6, <2>7 DEF ImportInv
  <1>3. ASSUME UNCHANGED <<event, sidecar, pc, task, loc>> PROVE ImportInv'
    <2>1. \A j : Committed(j) => Committed(j)'
      BY <1>i, CommittedStays
    <2>2. EventRows' /\ LineRows'
      BY <1>i, <1>3 DEF EventRows, LineRows, LineRow, Present
    <2>3. LinesSettled'
      BY <1>i, <1>3, <2>1 DEF LinesSettled
    <2>4. Snapshotted' /\ \A w \in Workers : Restoring(w)'
      BY <1>i, <1>3, <2>1 DEF Snapshotted, Restoring, Snapshots
    <2>5. Tidy'
      BY <1>i, <1>3, <2>1 DEF Tidy, Dirty
    <2> QED
      BY <1>1, <2>2, <2>3, <2>4, <2>5 DEF ImportInv
  <1> QED
    BY <1>2, <1>3, NextSplit, RouteData DEF vars

LEMMA ImportInvariant ==
    ASSUME Orderly
    PROVE  Spec => []ImportInv
  BY ImportInit, ImportStep, PTL DEF Spec

\* A step that removes an event removes an insert of the job that owns it.
LEMMA RemovedOwn ==
    ASSUME ImportInv, [Next]_vars, NEW k \in Keys, Present(k), ~Present(k)'
    PROVE  event[k].born = event[k].owner
  <1>i. /\ TypeInv /\ CommitInv /\ LocalInv /\ PlanRows /\ LocalRows /\ LineRows
        /\ Snapshotted /\ (\A w \in Workers : Restoring(w))
    BY DEF ImportInv
  <1>t. event \in [Keys -> Event] /\ NoJob \notin Jobs
    BY <1>i, EventImportAssumption DEF TypeInv, TypeOK, EventImportAssumption
  <1>1. event' # event
    BY DEF Present
  <1>2. PICK w \in Workers : DeliveryStep(w)
    BY <1>1, NextSplit, RouteData DEF vars
  <1>3. DataMove(w) /\ (pc[w] # "idle" => task[w] \in Jobs)
    BY <1>i, <1>1, <1>2, DataStep DEF TypeInv, TaskOK
  <1>4. CASE Reverts(w)
    <2> DEFINE line == sidecar[task[w]][loc[w].cursor]
    <2>1. /\ task[w] \in Jobs /\ loc[w].cursor \in DOMAIN sidecar[task[w]] /\ ~line.torn
          /\ event' = [event EXCEPT ![line.key].owner = line.owner]
      BY <1>3, <1>4 DEF Reverts
    <2>2. line.owner # NoJob
      BY <1>i, <2>1 DEF LineRows, LineRow
    <2> HIDE DEF line
    <2>3. event'[k].owner \in {event[k].owner, line.owner}
      BY <1>t, <2>1 DEF Event
    <2> QED
      BY <2>2, <2>3 DEF Present
  <1>5. CASE Deletes(w)
    <2>1. PICK j \in Jobs : j = task[w]
      BY <1>3, <1>5 DEF Deletes
    <2>2. ~Committed(j) /\ sidecar[j] = <<>>
      BY <1>i, <1>5, <2>1 DEF Deletes, CommitInv, NotYetCommitted, Undecided, Restoring
    <2>3. k \in Fresh(j)
      BY <1>5, <2>1 DEF Deletes, Present
    <2>4. Snapshots(j, k) = {}
      BY <2>2 DEF Snapshots
    <2> QED
      BY <1>i, <2>2, <2>3, <2>4 DEF Fresh, Snapshotted
  <1>6. ASSUME NEW i \in Keys, Captures(w, i) PROVE FALSE
    <2>1. event' = [event EXCEPT ![i].owner = task[w]] /\ task[w] \in Jobs
      BY <1>1, <1>3, <1>6 DEF Captures
    <2>2. event'[k].owner \in {event[k].owner, task[w]}
      BY <1>t, <2>1 DEF Event
    <2> QED
      BY <1>t, <2>1, <2>2 DEF Present
  <1>7. ASSUME NEW S \in SUBSET Keys, Inserts(w, S) PROVE FALSE
    BY <1>7 DEF Inserts, Present
  <1> QED
    BY <1>1, <1>3, <1>4, <1>5, <1>6, <1>7 DEF DataMove, Clears, Tears

\* A cleanup deletes inserts of its own job only, whatever throws, crashes or
\* cannot be restored, as long as no two jobs that update in place share rows;
\* or with any number of them, if every cleanup that begins is finished.
THEOREM CleanupKept ==
    ASSUME Orderly
    PROVE  Spec => CleanupDeletesOwnInserts
  <1>1. ImportInv /\ [Next]_vars =>
          [\A k \in Keys : Present(k) /\ ~Present(k)' => event[k].born = event[k].owner]_vars
    BY RemovedOwn
  <1> QED
    BY <1>1, ImportInvariant, PTL DEF Spec, CleanupDeletesOwnInserts

\* If every cleanup is finished, a failed import has left no event, no
\* overwritten event and no snapshot behind.
THEOREM FailedKept ==
    ASSUME DeliveredWhenDue, CleanFailures
    PROVE  Spec => []FailedLeavesNothing
  <1>1. ImportInv => FailedLeavesNothing
    <2> SUFFICES ASSUME ImportInv, NEW j \in Jobs, stage[j] = "failed", ~Running(j)
                 PROVE  sidecar[j] = <<>> /\ \A k \in Keys : event[k].owner # j
      BY DEF FailedLeavesNothing
    <2>1. ~Committed(j)
      BY DEF Committed
    <2>2. ~Dirty(j)
      BY DEF ImportInv, Tidy, Running
    <2> QED
      BY <2>1, <2>2 DEF Dirty
  <1>2. Orderly
    BY DEF Orderly
  <1> QED
    BY <1>1, <1>2, ImportInvariant, PTL

---------------------------------------------------------------------------
(* Snapshots of one event agree *)

\* The environment the refinement needs: where a cleanup may be left half
\* done, no two jobs may have a row in common.
Separated == DeliveredWhenDue /\ (CleanFailures \/ SeparateRows)

\* Whom the snapshots a job has of an event name as its owner.
Names(j, k) == {sidecar[j][i].owner : i \in Snapshots(j, k)}

\* The snapshots an unfinished job has of one event agree on the owner, which
\* is the present one if the job has not overwritten the event.
Agree ==
    \A j \in Jobs, k \in Keys : ~Committed(j) =>
        \A n \in Names(j, k) :
            /\ event[k].owner \notin {j, NoJob} => n = event[k].owner
            /\ \A m \in Names(j, k) : m = n

LEMMA SeparatedOrderly == Separated => Orderly
  <1>1. SeparateRows => SeparateUpdates
    BY EventImportAssumption DEF SeparateRows, SeparateUpdates, EventImportAssumption
  <1> QED
    BY <1>1 DEF Separated, Orderly

\* An event of another job that a delivery finds is committed.
LEMMA ForeignCommitted ==
    ASSUME Separated, ImportInv, NEW w \in Workers, pc[w] = "stream", task[w] \in UpdateJobs,
           NEW k \in Keys, k \in Rows[task[w]], event[k].owner # task[w]
    PROVE  Committed(event[k].owner)
  <1>1. SUFFICES ASSUME NEW o \in Jobs \ {task[w]}, event[k].owner = o PROVE Committed(o)
    BY DEF Committed
  <1>2. /\ TypeInv /\ LeaseInv /\ LocalRows /\ EventRows /\ Tidy
        /\ task[w] \in Jobs /\ k \in Rows[o]
    BY <1>1 DEF ImportInv, TypeInv, TaskOK, EventRows
  <1>3. Committed(o) \/ ~CleanFailures
    BY <1>1, <1>2, SeparatedOrderly, ForeignSettled
  <1>4. CleanFailures
    BY <1>1, <1>2 DEF Separated, SeparateRows
  <1> QED
    BY <1>3, <1>4

\* What a snapshot names is committed.
LEMMA SnapshotCommitted ==
    ASSUME Separated, ImportInv, NEW j \in Jobs, ~Committed(j), NEW k \in Keys,
           NEW i \in Snapshots(j, k)
    PROVE  Committed(sidecar[j][i].owner) /\ sidecar[j][i].owner # NoJob
  <1>1. /\ i \in DOMAIN sidecar[j] /\ ~sidecar[j][i].torn /\ sidecar[j][i].owner # j
        /\ LineRow(j, sidecar[j][i])
    BY DEF Snapshots, ImportInv, LineRows
  <1>2. sidecar[j][i].owner # NoJob
    BY <1>1 DEF LineRow
  <1>3. ASSUME sidecar[j][i].owner \in Jobs PROVE Committed(sidecar[j][i].owner)
    <2>1. Committed(sidecar[j][i].owner) \/ ~CleanFailures
      BY <1>1, <1>3 DEF ImportInv, LinesSettled
    <2>2. CleanFailures
      BY <1>1, <1>3 DEF Separated, SeparateRows, LineRow
    <2> QED
      BY <2>1, <2>2
  <1> QED
    BY <1>2, <1>3 DEF Committed

\* A move writes rows of the job it is made for.
LEMMA MoveRows ==
    ASSUME ImportInv, NEW w \in Workers, DataMove(w), NEW k \in Keys, event'[k] # event[k]
    PROVE  k \in Rows[task[w]] /\ Holds(w)
  <1>t. event \in [Keys -> Event] /\ NoJob \notin Jobs /\ (pc[w] # "idle" => task[w] \in Jobs)
    BY EventImportAssumption DEF ImportInv, TypeInv, TypeOK, TaskOK, EventImportAssumption
  <1>1. CASE Reverts(w)
    <2> DEFINE line == sidecar[task[w]][loc[w].cursor]
    <2>1. /\ task[w] \in Jobs /\ loc[w].cursor \in DOMAIN sidecar[task[w]]
          /\ event' = [event EXCEPT ![line.key].owner = line.owner] /\ Holds(w)
      BY <1>t, <1>1 DEF Reverts, Holds
    <2>2. line.key \in Rows[task[w]]
      BY <2>1 DEF ImportInv, LineRows, LineRow
    <2> HIDE DEF line
    <2>3. k = line.key
      BY <1>t, <2>1
    <2> QED
      BY <2>1, <2>2, <2>3
  <1>2. CASE Deletes(w)
    <2>1. k \in Fresh(task[w]) /\ task[w] \in Jobs /\ Holds(w)
      BY <1>t, <1>2 DEF Deletes, Holds
    <2> QED
      BY <2>1 DEF Fresh, ImportInv, EventRows
  <1>3. ASSUME NEW i \in Keys, Captures(w, i) PROVE k \in Rows[task[w]] /\ Holds(w)
    <2>1. event' = [event EXCEPT ![i].owner = task[w]] \/ UNCHANGED event
      BY <1>3 DEF Captures
    <2>2. k = i
      BY <1>t, <2>1
    <2> QED
      BY <1>3, <2>2 DEF Captures, Holds, ImportInv, LocalRows
  <1>4. ASSUME NEW S \in SUBSET Keys, Inserts(w, S) PROVE k \in Rows[task[w]] /\ Holds(w)
    <2>1. k \in S
      BY <1>4 DEF Inserts
    <2> QED
      BY <1>4, <2>1 DEF Inserts, Holds, ImportInv, LocalRows
  <1> QED
    BY <1>1, <1>2, <1>3, <1>4 DEF DataMove, Clears, Tears

\* No other delivery writes an event of which an unfinished job has a snapshot.
LEMMA Undisturbed ==
    ASSUME Separated, ImportInv, NEW w \in Workers, UNCHANGED <<event, sidecar>> \/ DataMove(w),
           NEW j \in Jobs, task[w] # j, ~Committed(j), sidecar[j] # <<>>,
           NEW k \in Keys, k \in Rows[j]
    PROVE  event'[k] = event[k]
  <1> SUFFICES ASSUME event'[k] # event[k] PROVE FALSE
    OBVIOUS
  <1>1. k \in Rows[task[w]] /\ Holds(w) /\ task[w] \in Jobs
    BY MoveRows DEF Holds, ImportInv, TypeInv, TaskOK
  <1>2. CleanFailures
    BY <1>1 DEF Separated, SeparateRows
  <1>3. PICK v \in Workers : task[v] = j /\ Holds(v)
    BY <1>2 DEF ImportInv, Tidy, Dirty, Holds
  <1>4. DatasetAt(v) = DatasetAt(w)
    BY <1>1, <1>3, EventImportAssumption DEF EventImportAssumption, DatasetAt
  <1> QED
    BY <1>1, <1>3, <1>4 DEF ImportInv, LeaseInv

LEMMA AgreeStep ==
    ASSUME Separated, ImportInv, Agree, [Next]_vars, NEW w \in Workers,
           UNCHANGED <<event, sidecar>> \/ DataMove(w)
    PROVE  Agree'
  <1>i. /\ TypeInv /\ CommitInv /\ LocalInv /\ LocalRows /\ EventRows /\ LineRows
        /\ \A v \in Workers : Restoring(v)
    BY DEF ImportInv
  <1>t. event \in [Keys -> Event] /\ sidecar \in [Jobs -> Seq(Line)] /\ NoJob \notin Jobs
    BY <1>i, EventImportAssumption DEF TypeInv, TypeOK, EventImportAssumption
  <1>j. DataMove(w) => task[w] \in Jobs
    BY <1>i DEF TypeInv, TaskOK, DataMove, Reverts, Clears, Deletes, Captures, Tears, Inserts
  <1>1. SUFFICES ASSUME NEW j \in Jobs, NEW k \in Keys, ~Committed(j)', NEW n \in Names(j, k)'
                 PROVE  /\ event'[k].owner \notin {j, NoJob} => n = event'[k].owner
                        /\ \A m \in Names(j, k)' : m = n
    BY DEF Agree
  <1>2. /\ ~Committed(j)
        /\ \A m \in Names(j, k) : event[k].owner \notin {j, NoJob} => m = event[k].owner
        /\ \A l, m \in Names(j, k) : m = l
    BY <1>i, <1>1, CommittedStays DEF Agree
  <1>3. ASSUME Names(j, k)' \subseteq Names(j, k),
               event'[k].owner \in {event[k].owner, j, NoJob} \cup Names(j, k)
        PROVE  /\ event'[k].owner \notin {j, NoJob} => n = event'[k].owner
               /\ \A m \in Names(j, k)' : m = n
    BY <1>1, <1>2, <1>3
  <1>4. ASSUME sidecar'[j] = sidecar[j], event'[k].id = event[k].id,
               event'[k].owner \in {event[k].owner, j, NoJob} \cup Names(j, k)
        PROVE  /\ event'[k].owner \notin {j, NoJob} => n = event'[k].owner
               /\ \A m \in Names(j, k)' : m = n
    <2>1. Names(j, k)' = Names(j, k)
      BY <1>4 DEF Names, Snapshots
    <2> QED
      BY <1>3, <1>4, <2>1
  <1>5. CASE UNCHANGED <<event, sidecar>>
    BY <1>4, <1>5
  <1>6. CASE DataMove(w) /\ task[w] # j
    <2>1. sidecar'[j] = sidecar[j]
      BY <1>i, <1>6, MoverBusy
    <2>2. PICK i : i \in DOMAIN sidecar[j] /\ sidecar[j][i].key = k
      BY <1>1, <2>1 DEF Names, Snapshots
    <2>3. k \in Rows[j] /\ sidecar[j] # <<>>
      BY <1>i, <1>t, <2>2 DEF LineRows, LineRow
    <2>4. event'[k] = event[k]
      BY <1>2, <1>6, <2>3, Undisturbed
    <2> QED
      BY <1>4, <2>1, <2>4
  <1>7. CASE Reverts(w) /\ task[w] = j
    <2> DEFINE i == loc[w].cursor
               line == sidecar[j][i]
    <2>1. /\ i \in DOMAIN sidecar[j] /\ ~line.torn
          /\ event[line.key].id = line.id /\ event[line.key].owner = j
          /\ event' = [event EXCEPT ![line.key].owner = line.owner] /\ UNCHANGED sidecar
      BY <1>7 DEF Reverts
    <2>2. CASE k = line.key /\ line.owner # j
      <3>1. line.owner \in Names(j, k)
        BY <2>1, <2>2 DEF Names, Snapshots
      <3> HIDE DEF line
      <3>2. event'[k].owner = line.owner /\ event'[k].id = event[k].id
        BY <1>t, <2>1, <2>2 DEF Event
      <3> QED
        BY <1>4, <2>1, <3>1, <3>2
    <2>3. CASE k = line.key /\ line.owner = j
      <3> HIDE DEF line
      <3>1. event'[k].owner = j /\ event'[k].id = event[k].id
        BY <1>t, <2>1, <2>3 DEF Event
      <3> QED
        BY <1>4, <2>1, <3>1
    <2>4. CASE k # line.key
      <3> HIDE DEF line
      <3>1. event'[k] = event[k]
        BY <1>t, <2>1, <2>4
      <3> QED
        BY <1>4, <2>1, <3>1
    <2> QED
      BY <2>2, <2>3, <2>4
  <1>8. CASE Clears(w) /\ task[w] = j
    <2>1. sidecar'[j] = <<>>
      BY <1>t, <1>8 DEF Clears
    <2> QED
      BY <1>1, <2>1 DEF Names, Snapshots
  <1>9. CASE Deletes(w) /\ task[w] = j
    <2>1. sidecar'[j] = sidecar[j]
      BY <1>9 DEF Deletes
    <2>2. event'[k] = event[k] \/ event'[k] = [event[k] EXCEPT !.owner = NoJob, !.born = NoJob]
      BY <1>9 DEF Deletes
    <2>3. event'[k].id = event[k].id /\ event'[k].owner \in {event[k].owner, NoJob}
      BY <1>t, <2>2 DEF Event
    <2> QED
      BY <1>4, <2>1, <2>3
  <1>10. ASSUME NEW e \in Keys, NEW b \in BOOLEAN, task[w] = j,
                sidecar' = [sidecar EXCEPT ![j] = Append(@, Shot(e, b))],
                event'[k].id = event[k].id
         PROVE  /\ Names(j, k)' \subseteq Names(j, k) \cup {event[k].owner}
                /\ b \/ e # k \/ event[k].owner = j => Names(j, k)' = Names(j, k)
    <2>1. PICK t : t = Shot(e, b)
      OBVIOUS
    <2>2. sidecar' = [sidecar EXCEPT ![j] = Append(@, t)]
      BY <1>10, <2>1
    <2> DEFINE new == Len(sidecar[j]) + 1
    <2>3. /\ DOMAIN sidecar'[j] = DOMAIN sidecar[j] \cup {new}
          /\ \A l \in DOMAIN sidecar[j] : sidecar'[j][l] = sidecar[j][l]
          /\ sidecar'[j][new] = t
      BY <1>t, <2>2, AppendedLines
    <2>4. t.key = e /\ t.id = event[e].id /\ t.owner = event[e].owner /\ t.torn = b
      BY <2>1, ShotFields
    <2> HIDE DEF new
    <2>5. /\ Snapshots(j, k) \subseteq Snapshots(j, k)'
          /\ Snapshots(j, k)' \subseteq Snapshots(j, k) \cup {new}
          /\ new \in Snapshots(j, k)' => ~b /\ e = k /\ event[k].owner # j
      BY <1>10, <2>3, <2>4 DEF Snapshots
    <2>6. \A l \in Snapshots(j, k) : sidecar'[j][l] = sidecar[j][l]
      BY <2>3 DEF Snapshots
    <2> QED
      BY <2>3, <2>4, <2>5, <2>6 DEF Names
  <1>11. ASSUME NEW e \in Keys, Captures(w, e), task[w] = j
         PROVE  /\ event'[k].owner \notin {j, NoJob} => n = event'[k].owner
                /\ \A m \in Names(j, k)' : m = n
    <2>1. /\ sidecar' = [sidecar EXCEPT ![j] = Append(@, Shot(e, FALSE))]
          /\ event' = [event EXCEPT ![e].owner = j] \/ UNCHANGED event
          /\ Present(e)
      BY <1>11 DEF Captures
    <2>o. event'[k] = event[k] \/ event'[k] = [event[k] EXCEPT !.owner = j]
      BY <1>t, <2>1
    <2>2. event'[k].id = event[k].id /\ event'[k].owner \in {event[k].owner, j}
      BY <1>t, <2>o DEF Event
    <2>3. /\ Names(j, k)' \subseteq Names(j, k) \cup {event[k].owner}
          /\ e # k \/ event[k].owner = j => Names(j, k)' = Names(j, k)
      BY <1>10, <1>11, <2>1, <2>2
    <2>4. CASE e # k \/ event[k].owner = j
      BY <1>3, <2>2, <2>3, <2>4
    <2>5. CASE e = k /\ event[k].owner # j
      <3>1. event[k].owner \notin {j, NoJob}
        BY <2>1, <2>5 DEF Present
      <3> QED
        BY <1>1, <1>2, <2>2, <2>3, <3>1
    <2> QED
      BY <2>4, <2>5
  <1>12. ASSUME NEW e \in Keys, Tears(w, e), task[w] = j
         PROVE  /\ event'[k].owner \notin {j, NoJob} => n = event'[k].owner
                /\ \A m \in Names(j, k)' : m = n
    <2>1. Names(j, k)' = Names(j, k) /\ UNCHANGED event
      BY <1>10, <1>12 DEF Tears
    <2> QED
      BY <1>3, <2>1
  <1>13. ASSUME NEW S \in SUBSET Keys, Inserts(w, S), task[w] = j
         PROVE  /\ event'[k].owner \notin {j, NoJob} => n = event'[k].owner
                /\ \A m \in Names(j, k)' : m = n
    <2>1. UNCHANGED sidecar /\ event'[k] \in {event[k], [owner |-> j, born |-> j, id |-> event[k].id + 1]}
      BY <1>13 DEF Inserts
    <2>2. CASE event'[k] = event[k]
      BY <1>4, <2>1, <2>2
    <2>3. CASE event'[k].id = event[k].id + 1
      <3>1. PICK i \in DOMAIN sidecar[j] : sidecar[j][i].key = k /\ sidecar[j][i].id = event[k].id + 1
        BY <1>1, <2>1, <2>3 DEF Names, Snapshots
      <3>2. sidecar[j][i].id <= event[k].id
        BY <1>i, <3>1 DEF LineRows, LineRow
      <3>3. event[k].id \in Nat
        BY <1>t DEF Event
      <3> QED
        BY <3>1, <3>2, <3>3
    <2> QED
      BY <2>1, <2>2, <2>3
  <1> QED
    BY <1>5, <1>6, <1>7, <1>8, <1>9, <1>11, <1>12, <1>13 DEF DataMove

---------------------------------------------------------------------------
(* The refinement *)

\* A nonempty set of sidecar lines has an oldest one.
LEMMA Oldest ==
    ASSUME NEW T \in SUBSET Nat, T # {}
    PROVE  (CHOOSE i \in T : \A l \in T : i <= l) \in T
  <1> DEFINE R == {ss \in Nat \X Nat : ss[1] < ss[2]}
  <1>1. \E x \in T : \A y \in T : ~ (<<y, x>> \in R)
    <2>1. IsWellFoundedOn(R, Nat)
      BY NatLessThanWellFounded DEF OpToRel
    <2> HIDE DEF R
    <2> QED
      BY <2>1, WFMin
  <1>2. \A x, y \in Nat : y < x => <<y, x>> \in R
    OBVIOUS
  <1> HIDE DEF R
  <1>3. PICK x \in T : \A y \in T : ~ (<<y, x>> \in R)
    BY <1>1
  <1>4. ASSUME NEW y \in T PROVE x <= y
    <2>1. x \in Nat /\ y \in Nat /\ ~(y < x)
      BY <1>2, <1>3
    <2> QED
      BY <2>1
  <1> QED
    BY <1>4

\* The logical owner of an event is its owner if that has committed, and else
\* nobody or whom a snapshot of the event names.
Logical(k) ==
    LET o == event[k].owner
    IN  /\ o = NoJob \/ Committed(o) => LogicalOwner(k) = o
        /\ o \in Jobs /\ ~Committed(o) =>
             IF Snapshots(o, k) = {} THEN LogicalOwner(k) = NoJob
             ELSE LogicalOwner(k) \in Names(o, k)

LEMMA LogicalOwners == TypeInv => \A k \in Keys : Logical(k)
  <1>1. ASSUME TypeInv, NEW k \in Keys, event[k].owner \in Jobs
        PROVE  Snapshots(event[k].owner, k) \in SUBSET Nat
    BY <1>1, LineTyped DEF Snapshots
  <1>2. NoJob \notin Jobs
    BY EventImportAssumption DEF EventImportAssumption
  <1> QED
    BY <1>1, <1>2, Oldest DEF Logical, LogicalOwner, Names

LEMMA LogicalOwnersNext == TypeInv' => \A k \in Keys : Logical(k)'
  <1>1. (TypeInv => \A k \in Keys : Logical(k))'
    BY LogicalOwners, PTL
  <1> QED
    BY <1>1

\* A job commits in Finalize only.
LEMMA FinalizeCommits ==
    ASSUME TypeInv, CommitInv, LocalInv, [Next]_vars, \A w \in Workers : ~Finalize(w),
           NEW j \in Jobs, Committed(j)'
    PROVE  Committed(j)
  <1>t. stage \in [Jobs -> Stages]
    BY DEF TypeInv, TypeOK
  <1>1. CASE UNCHANGED vars
    BY <1>1 DEF vars, Committed
  <1>2. ASSUME NEW i \in Jobs, RouteStep(i) PROVE Committed(j)
    BY <1>t, <1>2
    DEF RouteStep, AnalyzeDuplicates, RetryRoute, ResetRoute, ApproveRowErrors, Committed
  <1>3. ASSUME NEW w \in Workers, DeliveryStep(w) PROVE Committed(j)
    <2>1. CASE Begin(w)
      BY <1>t, <2>1 DEF Begin, Committed
    <2>2. CASE OnSuccess(w)
      <3>1. Committed(task[w]) /\ task[w] \in Jobs
        BY <2>2 DEF OnSuccess, LocalInv, Decided, TypeInv, TaskOK
      <3>2. j # task[w] => stage'[j] = stage[j]
        BY <1>t, <2>2 DEF OnSuccess
      <3> QED
        BY <3>1, <3>2 DEF Committed
    <2>3. CASE MarkSheetFailed(w) \/ OnFailMark(w)
      BY <1>t, <2>3 DEF MarkSheetFailed, OnFailMark, WriteFailed, Committed
    <2>4. CASE Crash(w) \/ \E i \in Jobs : Deliver(w, i)
      BY <2>4 DEF Crash, Deliver, Committed
    <2>5. ASSUME Step(w), ~Begin(w), ~OnSuccess(w), ~MarkSheetFailed(w), ~OnFailMark(w)
          PROVE  UNCHANGED stage
      BY <2>5 DEF Step, AcquireLease, LeaseTimeout, Guard, RestoreLine, RestoreDone,
         DeleteFresh, CleanupThrows, Reserve, UpdateRow, InsertBatch, ReconcileConflict,
         StreamDone, MarkJobCompleted, Discard, Throw, Refund, ReleaseLease, TaskRetry, OnFail
    <2> QED
      BY <1>3, <2>1, <2>2, <2>3, <2>4, <2>5 DEF DeliveryStep, Committed
  <1> QED
    BY <1>1, <1>2, <1>3, NextSplit

\* The logical owner depends on the event, its snapshots and its owner's fate.
LEMMA SameOwner ==
    ASSUME NEW k \in Keys, UNCHANGED <<event, sidecar>>,
           Committed(event[k].owner)' <=> Committed(event[k].owner)
    PROVE  LogicalOwner(k)' = LogicalOwner(k)
  <1> DEFINE oldest(T) == CHOOSE i \in T : \A l \in T : i <= l
             T0 == Snapshots(event[k].owner, k)
  <1>1. LogicalOwner(k) =
          IF event[k].owner = NoJob \/ Committed(event[k].owner) THEN event[k].owner
          ELSE IF T0 = {} THEN NoJob ELSE sidecar[event[k].owner][oldest(T0)].owner
    BY DEF LogicalOwner
  <1>2. LogicalOwner(k)' =
          IF event'[k].owner = NoJob \/ Committed(event[k].owner)' THEN event'[k].owner
          ELSE IF T0' = {} THEN NoJob ELSE sidecar'[event'[k].owner][oldest(T0')].owner
    BY DEF LogicalOwner
  <1>3. T0' = T0
    BY DEF Snapshots
  <1> HIDE DEF oldest, T0
  <1> QED
    BY <1>1, <1>2, <1>3

\* A move of the data leaves the logical content alone.
LEMMA ContentStays ==
    ASSUME Separated, ImportInv, TypeInv', Agree, Agree', [Next]_vars, NEW w \in Workers,
           UNCHANGED <<event, sidecar>> \/ DataMove(w),
           \A j \in Jobs : Committed(j)' <=> Committed(j), NEW k \in Keys
    PROVE  LogicalOwner(k)' = LogicalOwner(k)
  <1>i. /\ TypeInv /\ CommitInv /\ LocalInv /\ LocalRows /\ EventRows /\ LineRows
        /\ \A v \in Workers : Restoring(v)
    BY DEF ImportInv
  <1>t. /\ event \in [Keys -> Event] /\ event' \in [Keys -> Event]
        /\ sidecar \in [Jobs -> Seq(Line)] /\ NoJob \notin Jobs
    BY <1>i, EventImportAssumption DEF TypeInv, TypeOK, EventImportAssumption
  <1>j. DataMove(w) => task[w] \in Jobs
    BY <1>i DEF TypeInv, TaskOK, DataMove, Reverts, Clears, Deletes, Captures, Tears, Inserts
  <1>c. \A o : Committed(o)' <=> Committed(o)
    BY DEF Committed
  <1>o. \A o : o \notin Jobs => Committed(o)
    BY DEF Committed
  <1>l. Logical(k) /\ Logical(k)'
    BY <1>i, LogicalOwners, LogicalOwnersNext
  \* An event that the step does not write.
  <1>1. ASSUME event'[k] = event[k] PROVE LogicalOwner(k)' = LogicalOwner(k)
    <2>1. CASE event[k].owner = NoJob \/ Committed(event[k].owner)
      BY <1>1, <1>c, <1>l, <2>1 DEF Logical
    <2>2. CASE event[k].owner # NoJob /\ ~Committed(event[k].owner)
      <3>1. PICK j \in Jobs : j = event[k].owner /\ ~Committed(j)
        BY <1>o, <2>2
      <3>2. event'[k].owner = j /\ ~Committed(j)'
        BY <1>1, <1>c, <3>1
      <3>3. ASSUME Snapshots(j, k)' = Snapshots(j, k),
                   \A i \in Snapshots(j, k) : sidecar'[j][i] = sidecar[j][i]
            PROVE  LogicalOwner(k)' = LogicalOwner(k)
        <4>1. Names(j, k)' = Names(j, k)
          BY <3>3 DEF Names
        <4>2. \A m, n \in Names(j, k) : m = n
          BY <3>1 DEF Agree
        <4> QED
          BY <1>l, <3>1, <3>2, <3>3, <4>1, <4>2 DEF Logical
      <3>4. ASSUME sidecar'[j] = sidecar[j] PROVE LogicalOwner(k)' = LogicalOwner(k)
        BY <1>1, <3>3, <3>4 DEF Snapshots
      <3>5. CASE DataMove(w) /\ task[w] # j
        BY <1>i, <3>4, <3>5, MoverBusy
      <3>6. CASE Clears(w) /\ task[w] = j
        <4>1. pc[w] = "restore"
          BY <1>i, <3>1, <3>6 DEF Clears, LocalInv, Decided
        <4>2. /\ loc[w].cursor > Len(sidecar[j]) /\ ~loc[w].failures
              /\ sidecar' = [sidecar EXCEPT ![j] = <<>>]
          BY <3>6, <4>1 DEF Clears
        <4>3. ASSUME NEW i \in Snapshots(j, k) PROVE FALSE
          <5>1. loc[w].cursor <= i
            BY <1>i, <3>1, <3>6, <4>1, <4>2 DEF Restoring
          <5>2. loc[w] \in Locals
            BY <1>i DEF TypeInv, TypeOK
          <5>3. loc[w].cursor \in Nat /\ Len(sidecar[j]) \in Nat
            BY <1>t, <5>2 DEF Locals
          <5>4. i \in DOMAIN sidecar[j]
            BY DEF Snapshots
          <5>5. i \in Nat /\ i <= Len(sidecar[j])
            BY <1>i, <5>4, LineTyped
          <5> QED
            BY <4>2, <5>1, <5>3, <5>5
        <4>4. sidecar'[j] = <<>>
          BY <1>t, <4>2
        <4>5. Snapshots(j, k)' = {}
          BY <4>4 DEF Snapshots
        <4> QED
          BY <3>3, <4>3, <4>5
      <3>7. ASSUME NEW e \in Keys, NEW b \in BOOLEAN, task[w] = j,
                   sidecar' = [sidecar EXCEPT ![j] = Append(@, Shot(e, b))]
            PROVE  LogicalOwner(k)' = LogicalOwner(k)
        <4>1. PICK t : t = Shot(e, b)
          OBVIOUS
        <4>2. sidecar' = [sidecar EXCEPT ![j] = Append(@, t)]
          BY <3>7, <4>1
        <4> DEFINE new == Len(sidecar[j]) + 1
        <4>3. /\ DOMAIN sidecar'[j] = DOMAIN sidecar[j] \cup {new}
              /\ \A i \in DOMAIN sidecar[j] : sidecar'[j][i] = sidecar[j][i]
              /\ sidecar'[j][new] = t
          BY <1>t, <4>2, AppendedLines
        <4>4. t.key = e /\ t.owner = event[e].owner
          BY <4>1, ShotFields
        <4> HIDE DEF new
        <4>5. Snapshots(j, k)' = Snapshots(j, k)
          BY <1>1, <3>1, <4>3, <4>4 DEF Snapshots
        <4>6. \A i \in Snapshots(j, k) : sidecar'[j][i] = sidecar[j][i]
          BY <4>3 DEF Snapshots
        <4> QED
          BY <3>3, <4>5, <4>6
      <3>8. CASE UNCHANGED <<event, sidecar>> \/ Reverts(w) \/ Deletes(w)
                 \/ \E S \in SUBSET Keys : Inserts(w, S)
        BY <3>4, <3>8 DEF Reverts, Deletes, Inserts
      <3>9. CASE task[w] = j /\ \E e \in Keys : Captures(w, e) \/ Tears(w, e)
        BY <3>7, <3>9 DEF Captures, Tears
      <3> QED
        BY <3>5, <3>6, <3>8, <3>9 DEF DataMove
    <2> QED
      BY <2>1, <2>2
  \* An event that the step writes.
  <1>2. ASSUME event'[k] # event[k] PROVE LogicalOwner(k)' = LogicalOwner(k)
    <2>1. DataMove(w)
      BY <1>2
    <2>2. PICK j \in Jobs : j = task[w]
      BY <1>j, <2>1
    <2>3. CASE Reverts(w)
      <3> DEFINE i == loc[w].cursor
                 line == sidecar[j][i]
      <3>1. /\ pc[w] = "restore" /\ i \in DOMAIN sidecar[j] /\ ~line.torn
            /\ event[line.key].id = line.id /\ event[line.key].owner = j
            /\ event' = [event EXCEPT ![line.key].owner = line.owner]
        BY <2>2, <2>3 DEF Reverts
      <3>2. ~Committed(j)
        BY <1>i, <2>2, <3>1 DEF CommitInv, NotYetCommitted, Undecided
      <3>3. k = line.key /\ event'[k] = [event[k] EXCEPT !.owner = line.owner]
        <4> HIDE DEF line
        <4> QED
          BY <1>2, <1>t, <3>1
      <3>4. line.owner # j
        <4> HIDE DEF line
        <4>1. event[k] \in Event /\ event[k].owner = j
          BY <1>t, <3>1, <3>3
        <4> QED
          BY <1>2, <3>3, <4>1 DEF Event
      <3>5. i \in Snapshots(j, k)
        BY <3>1, <3>3, <3>4 DEF Snapshots
      <3>6. Committed(line.owner)
        BY <3>2, <3>5, SnapshotCommitted
      <3>7. line.owner \in Names(j, k)
        BY <3>5 DEF Names
      <3> HIDE DEF line
      <3>8. \A m \in Names(j, k) : m = line.owner
        BY <3>2, <3>7 DEF Agree
      <3>9. LogicalOwner(k) = line.owner
        BY <1>l, <3>1, <3>2, <3>3, <3>5, <3>8 DEF Logical
      <3>10. event'[k].owner = line.owner
        BY <1>t, <3>3 DEF Event
      <3> QED
        BY <1>c, <1>l, <3>6, <3>9, <3>10 DEF Logical
    <2>4. CASE Deletes(w)
      <3>1. ~Committed(j) /\ sidecar[j] = <<>>
        BY <1>i, <2>2, <2>4 DEF Deletes, CommitInv, NotYetCommitted, Undecided, Restoring
      <3>2. /\ event[k].owner = j
            /\ event'[k] = [event[k] EXCEPT !.owner = NoJob, !.born = NoJob]
        BY <1>2, <2>2, <2>4 DEF Deletes, Fresh
      <3>3. event'[k].owner = NoJob
        BY <1>t, <3>2 DEF Event
      <3>4. Snapshots(j, k) = {}
        BY <3>1 DEF Snapshots
      <3>5. LogicalOwner(k) = NoJob
        BY <1>l, <3>1, <3>2, <3>4 DEF Logical
      <3>6. LogicalOwner(k)' = NoJob
        BY <1>l, <3>3 DEF Logical
      <3> QED
        BY <3>5, <3>6
    <2>5. ASSUME NEW e \in Keys, Captures(w, e) PROVE LogicalOwner(k)' = LogicalOwner(k)
      <3>1. /\ pc[w] = "stream" /\ j \in UpdateJobs /\ e \in loc[w].todo \cup loc[w].conflict
            /\ Present(e) /\ event' = [event EXCEPT ![e].owner = j]
            /\ sidecar' = [sidecar EXCEPT ![j] = Append(@, Shot(e, FALSE))]
        BY <1>2, <2>2, <2>5 DEF Captures
      <3>2. e = k /\ event'[k] = [event[k] EXCEPT !.owner = j]
        BY <1>2, <1>t, <3>1
      <3>3. event[k].owner # j /\ event'[k].owner = j /\ event'[k].id = event[k].id
        BY <1>2, <1>t, <3>2 DEF Event
      <3>4. ~Committed(j)
        BY <1>i, <2>2, <3>1 DEF CommitInv, NotYetCommitted, Undecided
      <3>5. k \in Rows[j]
        BY <1>i, <2>2, <3>1, <3>2 DEF LocalRows
      <3>6. Committed(event[k].owner)
        BY <2>2, <3>1, <3>3, <3>5, ForeignCommitted
      <3>7. PICK t : t = Shot(k, FALSE)
        OBVIOUS
      <3>8. sidecar' = [sidecar EXCEPT ![j] = Append(@, t)]
        BY <3>1, <3>2, <3>7
      <3> DEFINE new == Len(sidecar[j]) + 1
      <3>9. new \in DOMAIN sidecar'[j] /\ sidecar'[j][new] = t
        BY <1>t, <3>8, AppendedLines
      <3>10. t.key = k /\ t.id = event[k].id /\ t.owner = event[k].owner /\ ~t.torn
        BY <3>7, ShotFields
      <3> HIDE DEF new
      <3>11. new \in Snapshots(j, k)'
        BY <3>3, <3>9, <3>10 DEF Snapshots
      <3>12. event[k].owner \in Names(j, k)'
        BY <3>9, <3>10, <3>11 DEF Names
      <3>13. ~Committed(j)'
        BY <1>c, <3>4
      <3>14. \A m \in Names(j, k)' : m = event[k].owner
        BY <3>12, <3>13 DEF Agree
      <3>15. LogicalOwner(k)' = event[k].owner
        BY <1>l, <3>3, <3>11, <3>13, <3>14 DEF Logical
      <3> QED
        BY <1>l, <3>6, <3>15 DEF Logical
    <2>6. ASSUME NEW S \in SUBSET Keys, Inserts(w, S) PROVE LogicalOwner(k)' = LogicalOwner(k)
      <3>1. /\ pc[w] = "stream" /\ UNCHANGED sidecar /\ event[k].owner = NoJob
            /\ event'[k] = [owner |-> j, born |-> j, id |-> event[k].id + 1]
        BY <1>2, <2>2, <2>6 DEF Inserts, Present
      <3>2. event'[k].owner = j /\ event'[k].id = event[k].id + 1 /\ event[k].id \in Nat
        BY <1>t, <3>1 DEF Event
      <3>3. ~Committed(j)'
        BY <1>c, <1>i, <2>2, <3>1 DEF CommitInv, NotYetCommitted, Undecided
      <3>4. ASSUME NEW i \in Snapshots(j, k)' PROVE FALSE
        <4>1. i \in DOMAIN sidecar[j] /\ sidecar[j][i].key = k /\ sidecar[j][i].id = event[k].id + 1
          BY <3>1, <3>2 DEF Snapshots
        <4>2. sidecar[j][i].id <= event[k].id
          BY <1>i, <4>1 DEF LineRows, LineRow
        <4> QED
          BY <3>2, <4>1, <4>2
      <3>5. LogicalOwner(k)' = NoJob
        BY <1>l, <3>2, <3>3, <3>4 DEF Logical
      <3> QED
        BY <1>l, <3>1, <3>5 DEF Logical
    <2> QED
      BY <1>2, <2>1, <2>3, <2>4, <2>5, <2>6 DEF DataMove, Clears, Tears
  <1> QED
    BY <1>1, <1>2

\* The commit of a delivery puts its job's events into the logical content.
LEMMA FinalizeContent ==
    ASSUME ImportInv, TypeInv', NEW w \in Workers, Finalize(w), NEW j \in Jobs, j = task[w]
    PROVE  /\ ~Committed(j) /\ Committed(j)' /\ UNCHANGED <<event, sidecar>>
           /\ \A o : o # j => (Committed(o)' <=> Committed(o))
           /\ \A k \in Keys :
                LogicalOwner(k)' = IF event[k].owner = j THEN j ELSE LogicalOwner(k)
  <1>i. TypeInv /\ CommitInv
    BY DEF ImportInv
  <1>t. stage \in [Jobs -> Stages] /\ event \in [Keys -> Event] /\ NoJob \notin Jobs
    BY <1>i, EventImportAssumption DEF TypeInv, TypeOK, EventImportAssumption
  <1>2. ~Committed(j)
    BY <1>i DEF Finalize, CommitInv, NotYetCommitted, Undecided
  <1>3. /\ Committed(j)' /\ UNCHANGED <<event, sidecar>>
        /\ \A o : o # j => (Committed(o)' <=> Committed(o))
    BY <1>t DEF Finalize, Committed
  <1>l. \A k \in Keys : Logical(k) /\ Logical(k)'
    BY <1>i, LogicalOwners, LogicalOwnersNext
  <1>4. ASSUME NEW k \in Keys
        PROVE  LogicalOwner(k)' = IF event[k].owner = j THEN j ELSE LogicalOwner(k)
    <2>1. CASE event[k].owner = j
      BY <1>3, <1>l, <2>1 DEF Logical
    <2>2. CASE event[k].owner # j
      <3>1. Committed(event[k].owner)' <=> Committed(event[k].owner)
        BY <1>3, <2>2
      <3>2. LogicalOwner(k)' = LogicalOwner(k)
        BY <1>3, <3>1, SameOwner
      <3> QED
        BY <2>2, <3>2
    <2> QED
      BY <2>1, <2>2
  <1> QED
    BY <1>2, <1>3, <1>4

\* So it is the commit of the abstract import.
LEMMA FinalizeRefines ==
    ASSUME ImportInv, TypeInv', NEW w \in Workers, Finalize(w)
    PROVE  \E j \in Jobs : Atomic!Commit(j)
  <1>1. PICK j \in Jobs : j = task[w]
    BY DEF Finalize, ImportInv, TypeInv, TaskOK
  <1> DEFINE applied == {k \in Keys : event[k].owner = j}
  <1>2. applied \in SUBSET Rows[j]
    BY DEF ImportInv, EventRows
  <1>3. ~Committed(j)
    BY <1>1, FinalizeContent
  <1>4. {o \in Jobs : Committed(o)'} = {o \in Jobs : Committed(o)} \cup {j}
    BY <1>1, FinalizeContent
  <1>5. \A k \in Keys : LogicalOwner(k)' = IF k \in applied THEN j ELSE LogicalOwner(k)
    BY <1>1, FinalizeContent
  <1> HIDE DEF applied
  <1>6. [k \in Keys |-> LogicalOwner(k)'] =
          [k \in Keys |-> IF k \in applied THEN j ELSE [i \in Keys |-> LogicalOwner(i)][k]]
    BY <1>5
  <1> QED
    BY <1>2, <1>3, <1>4, <1>6 DEF Atomic!Commit

\* Every other step leaves the commits and the logical content alone.
LEMMA ContentKept ==
    ASSUME Separated, ImportInv, ImportInv', Agree, Agree', [Next]_vars,
           \A w \in Workers : ~Finalize(w)
    PROVE  /\ \A j \in Jobs : Committed(j)' <=> Committed(j)
           /\ \A k \in Keys : LogicalOwner(k)' = LogicalOwner(k)
  <1>i. /\ TypeInv /\ CommitInv /\ LocalInv /\ PlanRows /\ LocalRows
        /\ TypeInv'
    BY DEF ImportInv
  <1>1. \A j \in Jobs : Committed(j)' <=> Committed(j)
    BY <1>i, FinalizeCommits, CommittedStays
  <1>2. ASSUME NEW k \in Keys PROVE LogicalOwner(k)' = LogicalOwner(k)
    <2>1. ASSUME NEW w \in Workers, DeliveryStep(w) PROVE LogicalOwner(k)' = LogicalOwner(k)
      BY <1>i, <1>1, <2>1, DataStep, ContentStays
    <2>2. CASE UNCHANGED <<event, sidecar>>
      <3>1. \A o : Committed(o)' <=> Committed(o)
        BY <1>1 DEF Committed
      <3> QED
        BY <2>2, <3>1, SameOwner DEF Committed
    <2> QED
      BY <2>1, <2>2, NextSplit, RouteData DEF vars
  <1> QED
    BY <1>1, <1>2

LEMMA AgreeInvariant ==
    ASSUME Separated
    PROVE  Spec => [](ImportInv /\ Agree)
  <1>1. Init => Agree
    BY DEF Init, Agree, Names, Snapshots
  <1>2. ImportInv /\ Agree /\ [Next]_vars => Agree'
    <2> SUFFICES ASSUME ImportInv, Agree, [Next]_vars PROVE Agree'
      OBVIOUS
    <2>i. TypeInv /\ CommitInv /\ LocalInv /\ PlanRows /\ LocalRows
      BY DEF ImportInv
    <2>1. CASE UNCHANGED <<event, sidecar>>
      <3>1. \A j : Committed(j) => Committed(j)'
        BY <2>i, CommittedStays
      <3> QED
        BY <2>1, <3>1 DEF Agree, Names, Snapshots
    <2>2. ASSUME NEW w \in Workers, DeliveryStep(w) PROVE Agree'
      BY <2>i, <2>2, DataStep, AgreeStep
    <2> QED
      BY <2>1, <2>2, NextSplit, RouteData DEF vars
  <1>3. Spec => []ImportInv
    BY SeparatedOrderly, ImportInvariant
  <1> QED
    BY <1>1, <1>2, <1>3, PTL DEF Spec

\* Every step of the handler, of its retries and of its rollbacks is a commit
\* of the abstract import or leaves the logical content alone, if every cleanup
\* is finished, or no two jobs have a row in common.
THEOREM ImportIsAtomic ==
    ASSUME Separated
    PROVE  Spec => AllOrNothing
  <1> DEFINE content == [k \in Keys |-> LogicalOwner(k)]
             committed == {j \in Jobs : Committed(j)}
  <1>1. Init => Atomic!Init
    <2> SUFFICES ASSUME Init PROVE Atomic!Init
      OBVIOUS
    <2>1. \A k \in Keys : event[k].owner = IF k \in SeedKeys THEN Seed ELSE NoJob
      BY DEF Init
    <2>2. \A k \in Keys : LogicalOwner(k) = IF k \in SeedKeys THEN Seed ELSE NoJob
      BY <2>1, EventImportAssumption DEF LogicalOwner, Committed, EventImportAssumption
    <2>3. \A j \in Jobs : ~Committed(j)
      BY DEF Init, Committed
    <2> QED
      BY <2>2, <2>3 DEF Atomic!Init
  <1>2. ImportInv /\ ImportInv' /\ Agree /\ Agree' /\ [Next]_vars =>
          [Atomic!Next]_<<content, committed>>
    <2> SUFFICES ASSUME ImportInv, ImportInv', Agree, Agree', [Next]_vars
                 PROVE  [Atomic!Next]_<<content, committed>>
      OBVIOUS
    <2>1. ASSUME NEW w \in Workers, Finalize(w) PROVE Atomic!Next
      BY <2>1, FinalizeRefines DEF ImportInv, Atomic!Next
    <2>2. CASE \A w \in Workers : ~Finalize(w)
      BY <2>2, ContentKept
    <2> QED
      BY <2>1, <2>2
  <1> QED
    BY <1>1, <1>2, AgreeInvariant, PTL DEF Spec, AllOrNothing, Atomic!Spec

=============================================================================
