------------------------ MODULE EventImport_proofs ------------------------
(***************************************************************************)
(* Theorems about EventImport, for every number of jobs, workers, datasets *)
(* and rows and every set of faults.                                       *)
(***************************************************************************)
EXTENDS EventImport, FiniteSetTheorems, TLAPS

---------------------------------------------------------------------------
(* Type correctness *)

\* A delivery that is under way has a job.
TaskOK == \A w \in Workers : pc[w] # "idle" => task[w] \in Jobs

TypeInv == TypeOK /\ TaskOK

\* A set of uniqueIds can be counted.
LEMMA KeysCount ==
    ASSUME NEW S \in SUBSET Keys
    PROVE  Cardinality(S) \in Nat
  BY EventImportAssumption, FS_Subset, FS_CardinalityType DEF EventImportAssumption

\* The local variables of a new delivery are well-typed.
LEMMA NewLocalsType == NewLocals \in Locals
  BY DEF NewLocals, Locals

\* What the handler's assignments to its local variables keep well-typed.
LEMMA LocalsCatch ==
    ASSUME NEW r \in Locals, NEW n \in Nat \ {0}
    PROVE  [r EXCEPT !.phase = "catch", !.cursor = n, !.failures = FALSE] \in Locals
  BY DEF Locals

LEMMA LocalsCursor ==
    ASSUME NEW r \in Locals
    PROVE  [r EXCEPT !.cursor = @ + 1] \in Locals
  BY DEF Locals

LEMMA LocalsFailures ==
    ASSUME NEW r \in Locals
    PROVE  [r EXCEPT !.cursor = @ + 1, !.failures = TRUE] \in Locals
  <1> DEFINE n == r.cursor + 1
  <1>1. n \in Nat \ {0}
    BY DEF Locals
  <1>2. [r EXCEPT !.cursor = n, !.failures = TRUE] \in Locals
    <2> HIDE DEF n
    <2> QED
      BY <1>1 DEF Locals
  <1> QED
    BY <1>2

LEMMA LocalsCaptured ==
    ASSUME NEW r \in Locals, NEW k \in Keys
    PROVE  /\ [r EXCEPT !.captured = @ \cup {k}, !.updated = @ + 1] \in Locals
           /\ [r EXCEPT !.captured = @ \cup {k}, !.errs = TRUE] \in Locals
  <1> DEFINE n == r.updated + 1
             c == r.captured \cup {k}
  <1>1. n \in Nat /\ c \in SUBSET Keys
    BY DEF Locals
  <1>2. /\ [r EXCEPT !.captured = c, !.updated = n] \in Locals
        /\ [r EXCEPT !.captured = c, !.errs = TRUE] \in Locals
    <2> HIDE DEF n, c
    <2> QED
      BY <1>1 DEF Locals
  <1> QED
    BY <1>2

LEMMA LocalsTodo ==
    ASSUME NEW r \in Locals, NEW b
    PROVE  /\ [r EXCEPT !.todo = @ \ b] \in Locals
           /\ [r EXCEPT !.todo = @ \ b, !.errs = TRUE] \in Locals
  BY DEF Locals

LEMMA LocalsErrs ==
    ASSUME NEW r \in Locals
    PROVE  [r EXCEPT !.errs = TRUE] \in Locals
  BY DEF Locals

LEMMA LocalsConflict ==
    ASSUME NEW r \in Locals, NEW b, NEW c \in SUBSET Keys
    PROVE  /\ [r EXCEPT !.todo = @ \ b, !.conflict = c] \in Locals
           /\ [r EXCEPT !.conflict = @ \ b] \in Locals
  BY DEF Locals

LEMMA LocalsReserve ==
    ASSUME NEW r \in Locals, NEW n \in Nat, NEW b \in SUBSET Keys
    PROVE  [r EXCEPT !.reserved = n, !.todo = b] \in Locals
  BY DEF Locals

LEMMA LocalsTracked ==
    ASSUME NEW r \in Locals, NEW n \in Nat
    PROVE  [r EXCEPT !.tracked = n] \in Locals
  BY DEF Locals

LEMMA LocalsOk ==
    ASSUME NEW r \in Locals
    PROVE  [r EXCEPT !.ok = TRUE] \in Locals
  BY DEF Locals

\* What appending to a sidecar, removing it and reading a line of it yields.
LEMMA SidecarSet ==
    ASSUME NEW s \in [Jobs -> Seq(Line)], NEW j, NEW t \in Seq(Line)
    PROVE  [s EXCEPT ![j] = t] \in [Jobs -> Seq(Line)]
  OBVIOUS

LEMMA SidecarRemoved ==
    ASSUME NEW s \in [Jobs -> Seq(Line)], NEW j
    PROVE  [s EXCEPT ![j] = <<>>] \in [Jobs -> Seq(Line)]
  <1>1. <<>> \in Seq(Line)
    OBVIOUS
  <1> QED
    BY <1>1, SidecarSet

LEMMA SidecarAppended ==
    ASSUME NEW s \in [Jobs -> Seq(Line)], NEW j \in Jobs, NEW t \in Line
    PROVE  [s EXCEPT ![j] = Append(@, t)] \in [Jobs -> Seq(Line)]
  OBVIOUS

LEMMA SidecarLine ==
    ASSUME NEW s \in [Jobs -> Seq(Line)], NEW j \in Jobs,
           NEW n \in Nat \ {0}, n <= Len(s[j])
    PROVE  s[j][n] \in Line
  OBVIOUS

\* Giving an event another owner.
LEMMA EventOwner ==
    ASSUME event \in [Keys -> Event], NEW k \in Keys, NEW j \in Jobs \cup {Seed, NoJob}
    PROVE  [event EXCEPT ![k].owner = j] \in [Keys -> Event]
  BY DEF Event

\* Replacing the local variables of one delivery, and moving its control.
LEMMA SetLocalsType ==
    ASSUME TypeOK, NEW w \in Workers, NEW l \in Locals, SetLocals(w, l)
    PROVE  loc' \in [Workers -> Locals]
  BY DEF TypeOK, SetLocals

LEMMA GotoType ==
    ASSUME TypeInv, NEW w \in Workers, NEW l \in PCs, Goto(w, l), UNCHANGED task,
           pc[w] # "idle"
    PROVE  pc' \in [Workers -> PCs] /\ TaskOK'
  BY DEF TypeInv, TypeOK, TaskOK, Goto

LEMMA FinishType ==
    ASSUME TypeInv, NEW w \in Workers, Finish(w)
    PROVE  /\ pc' \in [Workers -> PCs] /\ TaskOK'
           /\ task' \in [Workers -> Jobs \cup {Nobody}]
           /\ loc' \in [Workers -> Locals]
  BY NewLocalsType, SetLocalsType DEF TypeInv, TypeOK, TaskOK, Finish, Goto, PCs

LEMMA EnterCatchType ==
    ASSUME TypeInv, NEW w \in Workers, EnterCatch(w), UNCHANGED task, pc[w] # "idle"
    PROVE  /\ pc' \in [Workers -> PCs] /\ TaskOK'
           /\ loc' \in [Workers -> Locals]
  <1>1. [loc[w] EXCEPT !.phase = "catch", !.cursor = 1, !.failures = FALSE] \in Locals
    <2>1. loc[w] \in Locals /\ 1 \in Nat \ {0}
      BY DEF TypeInv, TypeOK
    <2> QED
      BY <2>1, LocalsCatch
  <1> QED
    BY <1>1, SetLocalsType, GotoType DEF EnterCatch, TypeInv, PCs

LEMMA AfterCleanupType ==
    ASSUME TypeOK, NEW w \in Workers
    PROVE  AfterCleanup(w) \in PCs \ {"idle"}
  <1>1. loc[w].phase \in {"start", "catch", "onFail"}
    BY DEF TypeOK, Locals
  <1> QED
    BY <1>1 DEF AfterCleanup, PCs

\* Capturing the original of an event, then overwriting it or failing to.
LEMMA OverwriteType ==
    ASSUME TypeOK, NEW w \in Workers, task[w] \in Jobs, NEW k \in Keys,
           NEW rest \in Locals, OverwriteEvent(w, k, rest)
    PROVE  /\ event' \in [Keys -> Event] /\ sidecar' \in [Jobs -> Seq(Line)]
           /\ loc' \in [Workers -> Locals]
  <1>1. event[k] \in Event
    BY DEF TypeOK
  <1>2. [key |-> k, id |-> event[k].id, owner |-> event[k].owner, torn |-> FALSE] \in Line
    BY <1>1 DEF Event, Line
  <1>3. sidecar' \in [Jobs -> Seq(Line)]
    <2>1. CASE k \in loc[w].captured
      BY <2>1 DEF OverwriteEvent, Capture, TypeOK
    <2>2. CASE k \notin loc[w].captured
      <3> DEFINE line == [key |-> k, id |-> event[k].id, owner |-> event[k].owner,
                          torn |-> FALSE]
      <3>1. [sidecar EXCEPT ![task[w]] = Append(@, line)] \in [Jobs -> Seq(Line)]
        <4>1. line \in Line /\ sidecar \in [Jobs -> Seq(Line)]
          BY <1>2 DEF TypeOK
        <4> HIDE DEF line
        <4> QED
          BY <4>1, SidecarAppended
      <3> QED
        BY <2>2, <3>1 DEF OverwriteEvent, Capture
    <2> QED
      BY <2>1, <2>2
  <1>4. event' \in [Keys -> Event]
    <2>1. event \in [Keys -> Event]
      BY DEF TypeOK
    <2>2. [event EXCEPT ![k].owner = task[w]] \in [Keys -> Event]
      BY <2>1, EventOwner
    <2> QED
      BY <2>1, <2>2 DEF OverwriteEvent
  <1>5. /\ [rest EXCEPT !.captured = @ \cup {k}, !.updated = @ + 1] \in Locals
        /\ [rest EXCEPT !.captured = @ \cup {k}, !.errs = TRUE] \in Locals
    BY LocalsCaptured
  <1>6. loc' \in [Workers -> Locals]
    BY <1>5, SetLocalsType DEF OverwriteEvent
  <1> QED
    BY <1>3, <1>4, <1>6

LEMMA TypeInit == Init => TypeInv
  <1> SUFFICES ASSUME Init PROVE TypeInv
    OBVIOUS
  <1>1. event \in [Keys -> Event]
    BY DEF Init, Event
  <1>2. usage \in Nat
    BY KeysCount, EventImportAssumption DEF Init, EventImportAssumption
  <1>3. loc \in [Workers -> Locals]
    BY NewLocalsType DEF Init
  <1>4. plan \in [Jobs -> [insert : SUBSET Keys, target : [Keys -> Nat]]]
    BY DEF Init
  <1>5. sidecar \in [Jobs -> Seq(Line)]
    <2>1. <<>> \in Seq(Line)
      OBVIOUS
    <2> QED
      BY <2>1 DEF Init
  <1> QED
    BY <1>1, <1>2, <1>3, <1>4, <1>5 DEF Init, TypeInv, TypeOK, TaskOK, Stages, PCs

LEMMA TypeStep == TypeInv /\ [Next]_vars => TypeInv'
  <1> SUFFICES ASSUME TypeInv, [Next]_vars PROVE TypeInv'
    OBVIOUS
  <1>t. TypeOK /\ TaskOK
    BY DEF TypeInv
  <1>a. CASE UNCHANGED vars
    BY <1>a, <1>t DEF vars, TypeInv, TypeOK, TaskOK
  <1>b. ASSUME NEW j \in Jobs, AnalyzeDuplicates(j) PROVE TypeInv'
    <2>1. plan' \in [Jobs -> [insert : SUBSET Keys, target : [Keys -> Nat]]]
      BY <1>b, <1>t, EventImportAssumption
      DEF AnalyzeDuplicates, EventImportAssumption, TypeOK, Event
    <2> QED
      BY <1>b, <1>t, <2>1 DEF AnalyzeDuplicates, Stages, TypeInv, TypeOK, TaskOK
  <1>c. ASSUME NEW j \in Jobs, RetryRoute(j) \/ ResetRoute(j) \/ ApproveRowErrors(j)
        PROVE TypeInv'
    BY <1>c, <1>t
    DEF RetryRoute, ResetRoute, ApproveRowErrors, Stages, TypeInv, TypeOK, TaskOK
  <1>d. ASSUME NEW w \in Workers, NEW j \in Jobs, Deliver(w, j) PROVE TypeInv'
    <2>1. loc' \in [Workers -> Locals]
      BY <1>d, <1>t, NewLocalsType, SetLocalsType DEF Deliver
    <2> QED
      BY <1>d, <1>t, <2>1 DEF Deliver, Goto, PCs, TypeInv, TypeOK, TaskOK
  <1>e. ASSUME NEW w \in Workers, Step(w) PROVE TypeInv'
    <2>1. CASE AcquireLease(w)
      BY <2>1, <1>t, EventImportAssumption
      DEF AcquireLease, Goto, DatasetAt, PCs, EventImportAssumption, TypeInv, TypeOK, TaskOK
    <2>2. CASE LeaseTimeout(w)
      BY <2>2, <1>t DEF LeaseTimeout, Goto, PCs, TypeInv, TypeOK, TaskOK
    <2>3. CASE Guard(w)
      <3>1. [loc[w] EXCEPT !.ok = TRUE] \in Locals
        BY <1>t, LocalsOk DEF TypeOK
      <3>2. pc' \in [Workers -> PCs] /\ TaskOK'
        BY <2>3, GotoType DEF Guard, PCs
      <3>3. loc' \in [Workers -> Locals]
        BY <2>3, <1>t, <3>1, SetLocalsType DEF Guard, TypeOK
      <3> QED
        BY <2>3, <1>t, <3>2, <3>3 DEF Guard, TypeInv, TypeOK
    <2>4. CASE Begin(w)
      <3>1. stage' \in [Jobs -> Stages]
        BY <2>4, <1>t DEF Begin, TypeOK, Stages
      <3>2. /\ pc' \in [Workers -> PCs] /\ TaskOK'
            /\ loc' \in [Workers -> Locals]
        BY <2>4, <1>t, GotoType, EnterCatchType DEF Begin, PCs, TypeOK
      <3> QED
        BY <2>4, <1>t, <3>1, <3>2 DEF Begin, TypeInv, TypeOK
    <2>5. CASE RestoreLine(w)
      <3> DEFINE line == sidecar[task[w]][loc[w].cursor]
      <3>1. task[w] \in Jobs /\ loc[w] \in Locals /\ loc[w].cursor \in Nat \ {0}
        BY <2>5, <1>t DEF RestoreLine, TypeOK, TaskOK, Locals
      <3>2. line \in Line
        BY <2>5, <1>t, <3>1, SidecarLine DEF RestoreLine, TypeOK
      <3>3. event' \in [Keys -> Event]
        <4>1. line.key \in Keys /\ line.owner \in Jobs \cup {Seed, NoJob}
          BY <3>2 DEF Line
        <4>2. [event EXCEPT ![line.key].owner = line.owner] \in [Keys -> Event]
          <5> HIDE DEF line
          <5> QED
            BY <1>t, <4>1, EventOwner DEF TypeOK
        <4> QED
          BY <2>5, <1>t, <4>2 DEF RestoreLine, TypeOK
      <3>4. /\ [loc[w] EXCEPT !.cursor = @ + 1] \in Locals
            /\ [loc[w] EXCEPT !.cursor = @ + 1, !.failures = TRUE] \in Locals
        BY <3>1, LocalsCursor, LocalsFailures
      <3>5. loc' \in [Workers -> Locals]
        BY <2>5, <1>t, <3>4, SetLocalsType DEF RestoreLine
      <3> QED
        BY <2>5, <1>t, <3>3, <3>5 DEF RestoreLine, TypeInv, TypeOK, TaskOK
    <2>6. CASE RestoreDone(w)
      <3>1. pc' \in [Workers -> PCs] /\ TaskOK'
        BY <2>6, <1>t, GotoType, AfterCleanupType DEF RestoreDone, PCs
      <3>2. sidecar' \in [Jobs -> Seq(Line)]
        <4>1. sidecar \in [Jobs -> Seq(Line)]
          BY <1>t DEF TypeOK
        <4>2. [sidecar EXCEPT ![task[w]] = <<>>] \in [Jobs -> Seq(Line)]
          BY <4>1, SidecarRemoved
        <4> QED
          BY <2>6, <4>1, <4>2 DEF RestoreDone
      <3> QED
        BY <2>6, <1>t, <3>1, <3>2 DEF RestoreDone, TypeInv, TypeOK
    <2>7. CASE DeleteFresh(w)
      <3>1. pc' \in [Workers -> PCs] /\ TaskOK'
        BY <2>7, <1>t, GotoType, AfterCleanupType DEF DeleteFresh, PCs
      <3>2. event' \in [Keys -> Event]
        BY <2>7, <1>t DEF DeleteFresh, TypeOK, Event
      <3> QED
        BY <2>7, <1>t, <3>1, <3>2 DEF DeleteFresh, TypeInv, TypeOK
    <2>8. CASE CleanupThrows(w)
      <3>1. /\ pc' \in [Workers -> PCs] /\ TaskOK'
            /\ loc' \in [Workers -> Locals]
        BY <2>8, <1>t, GotoType, EnterCatchType, AfterCleanupType DEF CleanupThrows, TypeOK
      <3> QED
        BY <2>8, <1>t, <3>1 DEF CleanupThrows, TypeInv, TypeOK
    <2>9. CASE Reserve(w)
      <3> DEFINE j == task[w]
                 new == Cardinality(plan[j].insert)
                 rows == plan[j].insert \cup Updates(j)
      <3>1. plan[j].insert \in SUBSET Keys /\ rows \in SUBSET Keys
        BY <2>9, <1>t DEF Reserve, TypeOK, TaskOK, Updates
      <3>2. new \in Nat
        BY <3>1, KeysCount
      <3>3. [loc[w] EXCEPT !.reserved = new, !.todo = rows] \in Locals
        <4> HIDE DEF new, rows
        <4> QED
          BY <1>t, <3>1, <3>2, LocalsReserve DEF TypeOK
      <3>4. /\ pc' \in [Workers -> PCs] /\ TaskOK'
            /\ loc' \in [Workers -> Locals]
        BY <2>9, <1>t, <3>3, GotoType, EnterCatchType, SetLocalsType DEF Reserve, PCs
      <3>5. usage' \in Nat
        BY <2>9, <1>t, <3>2 DEF Reserve, TypeOK
      <3> QED
        BY <2>9, <1>t, <3>4, <3>5 DEF Reserve, TypeInv, TypeOK
    <2>10. CASE UpdateRow(w)
      <3>1. PICK k \in loc[w].todo \cap Updates(task[w]) :
              LET rest == [loc[w] EXCEPT !.todo = @ \ {k}]
              IN  \/ OverwriteEvent(w, k, rest)
                  \/ /\ SetLocals(w, [rest EXCEPT !.errs = TRUE])
                     /\ UNCHANGED <<event, sidecar>>
        BY <2>10 DEF UpdateRow
      <3> DEFINE rest == [loc[w] EXCEPT !.todo = @ \ {k}]
      <3>2. k \in Keys /\ task[w] \in Jobs
        BY <2>10, <1>t, <3>1 DEF UpdateRow, TypeOK, TaskOK, Locals
      <3>3. rest \in Locals /\ [rest EXCEPT !.errs = TRUE] \in Locals
        BY <1>t, LocalsTodo, LocalsErrs DEF TypeOK
      <3>4. /\ event' \in [Keys -> Event] /\ sidecar' \in [Jobs -> Seq(Line)]
            /\ loc' \in [Workers -> Locals]
        BY <1>t, <3>1, <3>2, <3>3, OverwriteType, SetLocalsType DEF TypeOK
      <3> QED
        BY <2>10, <1>t, <3>4 DEF UpdateRow, TypeInv, TypeOK, TaskOK
    <2>11. CASE InsertBatch(w)
      <3> DEFINE j == task[w]
      <3>1. PICK batch \in SUBSET (loc[w].todo \ Updates(j)) :
              LET lost == {k \in batch : Present(k)}
              IN  \/ /\ event' = [k \in Keys |-> IF k \in batch \ lost
                                    THEN [owner |-> j, born |-> j, id |-> event[k].id + 1]
                                    ELSE event[k]]
                     /\ SetLocals(w, [loc[w] EXCEPT
                          !.todo = @ \ batch,
                          !.conflict = IF j \in UpdateJobs THEN @ \cup lost ELSE @])
                  \/ /\ SetLocals(w, [loc[w] EXCEPT !.todo = @ \ batch, !.errs = TRUE])
                     /\ UNCHANGED event
        BY <2>11 DEF InsertBatch
      <3> DEFINE lost == {k \in batch : Present(k)}
      <3>2. batch \subseteq Keys /\ lost \subseteq Keys /\ j \in Jobs
        BY <2>11, <1>t DEF InsertBatch, TypeOK, TaskOK, Locals
      <3>3. /\ [loc[w] EXCEPT !.todo = @ \ batch,
                   !.conflict = IF j \in UpdateJobs THEN @ \cup lost ELSE @] \in Locals
            /\ [loc[w] EXCEPT !.todo = @ \ batch, !.errs = TRUE] \in Locals
        <4> DEFINE c == IF j \in UpdateJobs THEN loc[w].conflict \cup lost
                        ELSE loc[w].conflict
        <4>1. loc[w] \in Locals
          BY <1>t DEF TypeOK
        <4>2. c \in SUBSET Keys
          BY <4>1, <3>2 DEF Locals
        <4>3. [loc[w] EXCEPT !.todo = @ \ batch, !.conflict = c] \in Locals
          <5> HIDE DEF c
          <5> QED
            BY <4>1, <4>2, LocalsConflict
        <4>4. [loc[w] EXCEPT !.todo = @ \ batch, !.errs = TRUE] \in Locals
          BY <4>1, LocalsTodo
        <4> QED
          BY <4>3, <4>4
      <3>4. event' \in [Keys -> Event]
        BY <1>t, <3>1, <3>2 DEF TypeOK, Event
      <3>5. loc' \in [Workers -> Locals]
        BY <1>t, <3>1, <3>3, SetLocalsType
      <3> QED
        BY <2>11, <1>t, <3>4, <3>5 DEF InsertBatch, TypeInv, TypeOK, TaskOK
    <2>12. CASE ReconcileConflict(w)
      <3>1. PICK k \in loc[w].conflict :
              LET rest == [loc[w] EXCEPT !.conflict = @ \ {k}]
              IN  \/ OverwriteEvent(w, k, rest)
                  \/ SetLocals(w, rest) /\ UNCHANGED <<event, sidecar>>
        BY <2>12 DEF ReconcileConflict
      <3> DEFINE rest == [loc[w] EXCEPT !.conflict = @ \ {k}]
      <3>2. k \in Keys /\ task[w] \in Jobs
        BY <2>12, <1>t, <3>1 DEF ReconcileConflict, TypeOK, TaskOK, Locals
      <3>3. rest \in Locals
        BY <1>t, LocalsConflict DEF TypeOK
      <3>4. /\ event' \in [Keys -> Event] /\ sidecar' \in [Jobs -> Seq(Line)]
            /\ loc' \in [Workers -> Locals]
        BY <1>t, <3>1, <3>2, <3>3, OverwriteType, SetLocalsType DEF TypeOK
      <3> QED
        BY <2>12, <1>t, <3>4 DEF ReconcileConflict, TypeInv, TypeOK, TaskOK
    <2>13. CASE StreamDone(w)
      BY <2>13, <1>t DEF StreamDone, Goto, PCs, TypeInv, TypeOK, TaskOK
    <2>14. CASE MarkJobCompleted(w)
      <3>1. NewEvents(w) \in Nat
        BY <1>t, KeysCount DEF NewEvents, TypeOK, Locals
      <3>2. [loc[w] EXCEPT !.tracked = NewEvents(w)] \in Locals
        BY <1>t, <3>1, LocalsTracked DEF TypeOK
      <3>3. loc[w].reserved \in Nat
        BY <1>t DEF TypeOK, Locals
      <3>4. usage' \in Nat
        BY <2>14, <1>t, <3>1, <3>3 DEF MarkJobCompleted, Reconciled, TypeOK
      <3>5. pc' \in [Workers -> PCs] /\ TaskOK' /\ loc' \in [Workers -> Locals]
        BY <2>14, <1>t, <3>2, SetLocalsType, GotoType DEF MarkJobCompleted, PCs
      <3> QED
        BY <2>14, <1>t, <3>4, <3>5 DEF MarkJobCompleted, TypeInv, TypeOK
    <2>15. CASE Finalize(w)
      BY <2>15, <1>t DEF Finalize, Goto, PCs, Stages, TypeInv, TypeOK, TaskOK
    <2>16. CASE Discard(w)
      <3>1. [loc[w] EXCEPT !.ok = TRUE] \in Locals
        BY <1>t, LocalsOk DEF TypeOK
      <3>2. pc' \in [Workers -> PCs] /\ TaskOK' /\ loc' \in [Workers -> Locals]
        BY <2>16, <1>t, <3>1, SetLocalsType, GotoType DEF Discard, PCs
      <3>3. sidecar' \in [Jobs -> Seq(Line)]
        <4>1. sidecar \in [Jobs -> Seq(Line)]
          BY <1>t DEF TypeOK
        <4>2. [sidecar EXCEPT ![task[w]] = <<>>] \in [Jobs -> Seq(Line)]
          BY <4>1, SidecarRemoved
        <4> QED
          BY <2>16, <4>1, <4>2 DEF Discard
      <3> QED
        BY <2>16, <1>t, <3>2, <3>3 DEF Discard, TypeInv, TypeOK
    <2>17. CASE Throw(w)
      <3>1. pc' \in [Workers -> PCs] /\ TaskOK' /\ loc' \in [Workers -> Locals]
        BY <2>17, EnterCatchType DEF Throw
      <3> QED
        BY <2>17, <1>t, <3>1 DEF Throw, TypeInv, TypeOK
    <2>18. CASE Refund(w)
      <3>1. loc[w].tracked \in Int /\ loc[w].reserved \in Nat
        BY <1>t DEF TypeOK, Locals
      <3>2. usage' \in Nat
        BY <2>18, <1>t, <3>1 DEF Refund, TypeOK
      <3> QED
        BY <2>18, <1>t, <3>2 DEF Refund, Goto, PCs, TypeInv, TypeOK, TaskOK
    <2>19. CASE ReleaseLease(w)
      BY <2>19, <1>t DEF ReleaseLease, Goto, PCs, TypeInv, TypeOK, TaskOK
    <2>20. CASE OnSuccess(w)
      <3>1. stage' \in [Jobs -> Stages]
        BY <2>20, <1>t DEF OnSuccess, TypeOK, Stages
      <3> QED
        BY <2>20, <1>t, <3>1, FinishType DEF OnSuccess, TypeInv, TypeOK
    <2>21. CASE TaskRetry(w)
      BY <2>21, <1>t, FinishType DEF TaskRetry, TypeInv, TypeOK
    <2>22. CASE MarkSheetFailed(w) \/ OnFailMark(w)
      <3>1. stage' \in [Jobs -> Stages]
        BY <2>22, <1>t DEF MarkSheetFailed, OnFailMark, WriteFailed, TypeOK, Stages
      <3> QED
        BY <2>22, <1>t, <3>1, FinishType
        DEF MarkSheetFailed, OnFailMark, WriteFailed, TypeInv, TypeOK
    <2>23. CASE OnFail(w)
      <3>1. [NewLocals EXCEPT !.phase = "onFail"] \in Locals
        BY NewLocalsType DEF Locals
      <3>2. pc' \in [Workers -> PCs] /\ TaskOK' /\ loc' \in [Workers -> Locals]
        BY <2>23, <1>t, <3>1, SetLocalsType, GotoType DEF OnFail, PCs
      <3> QED
        BY <2>23, <1>t, <3>2 DEF OnFail, TypeInv, TypeOK
    <2> QED
      BY <1>e, <2>1, <2>2, <2>3, <2>4, <2>5, <2>6, <2>7, <2>8, <2>9, <2>10, <2>11,
         <2>12, <2>13, <2>14, <2>15, <2>16, <2>17, <2>18, <2>19, <2>20, <2>21,
         <2>22, <2>23 DEF Step
  <1>f. ASSUME NEW w \in Workers, Crash(w) PROVE TypeInv'
    <2>1. lease' \in [Datasets -> Workers \cup {Free}]
      BY <1>f, <1>t DEF Crash, TypeOK
    <2>2. sidecar' \in [Jobs -> Seq(Line)]
      <3>1. CASE UNCHANGED sidecar
        BY <3>1, <1>t DEF TypeOK
      <3>2. ASSUME NEW k \in (loc[w].todo \cap Updates(task[w])) \cup loc[w].conflict,
                   sidecar' = [sidecar EXCEPT ![task[w]] =
                                 Append(@, [key |-> k, id |-> event[k].id,
                                            owner |-> event[k].owner, torn |-> TRUE])]
            PROVE  sidecar' \in [Jobs -> Seq(Line)]
        <4>1. k \in Keys /\ event[k] \in Event
          BY <1>t, <3>2 DEF TypeOK, Locals
        <4>2. [key |-> k, id |-> event[k].id, owner |-> event[k].owner, torn |-> TRUE]
                \in Line
          BY <4>1 DEF Event, Line
        <4> QED
          BY <1>t, <3>2, <4>2, SidecarAppended DEF TypeOK
      <3> QED
        BY <1>f, <3>1, <3>2 DEF Crash
    <2> QED
      BY <1>f, <1>t, <2>1, <2>2, FinishType DEF Crash, TypeInv, TypeOK
  <1> QED
    BY <1>a, <1>b, <1>c, <1>d, <1>e, <1>f DEF Next

\* Every variable stays within its type, whatever the environment does.
THEOREM TypeCorrect == Spec => []TypeOK
  <1>1. Spec => []TypeInv
    BY TypeInit, TypeStep, PTL DEF Spec
  <1>2. TypeInv => TypeOK
    BY DEF TypeInv
  <1> QED
    BY <1>1, <1>2, PTL

---------------------------------------------------------------------------
(* Serialisation.  Mutual exclusion is not inductive on its own: a worker  *)
(* under the lease must be the one the lease names.                        *)

LeaseInv == \A w \in Workers : Holds(w) => lease[DatasetAt(w)] = w

\* A step of worker w moves no other worker.
OthersKept(w) == \A v \in Workers \ {w} : pc'[v] = pc[v] /\ task'[v] = task[v]

\* After a step, w is under the lease only if it was before, for the same job.
NoNewHolder(w) == Holds(w)' => Holds(w) /\ task'[w] = task[w]

LEMMA FinishQuiet ==
    ASSUME TypeInv, NEW w \in Workers, Finish(w)
    PROVE  OthersKept(w) /\ NoNewHolder(w) /\ ~Holds(w)'
  BY DEF TypeInv, TypeOK, Finish, Goto, OthersKept, NoNewHolder, Holds

LEMMA GotoQuiet ==
    ASSUME TypeInv, NEW w \in Workers, NEW l, Goto(w, l), UNCHANGED task, Holds(w)
    PROVE  OthersKept(w) /\ NoNewHolder(w)
  BY DEF TypeInv, TypeOK, Goto, OthersKept, NoNewHolder

\* Taking and giving back the lease are the only steps of a delivery that
\* touch it, and no other step enters the part of the handler under it.
LEMMA StepQuiet ==
    ASSUME TypeInv, NEW w \in Workers, Step(w), ~AcquireLease(w), ~ReleaseLease(w)
    PROVE  UNCHANGED lease /\ OthersKept(w) /\ NoNewHolder(w)
  <1>1. CASE LeaseTimeout(w) \/ OnFail(w)
    BY <1>1 DEF LeaseTimeout, OnFail, Goto, TypeInv, TypeOK, OthersKept, NoNewHolder, Holds
  <1>2. CASE Guard(w) \/ Begin(w)
    <2>1. Holds(w) /\ UNCHANGED <<lease, task>>
      BY <1>2 DEF Guard, Begin, Holds
    <2>2. \E l : Goto(w, l)
      BY <1>2 DEF Guard, Begin, EnterCatch
    <2> QED
      BY <2>1, <2>2, GotoQuiet
  <1>3. CASE RestoreLine(w) \/ UpdateRow(w) \/ InsertBatch(w) \/ ReconcileConflict(w)
    <2>1. UNCHANGED <<lease, pc, task>>
      BY <1>3 DEF RestoreLine, UpdateRow, InsertBatch, ReconcileConflict
    <2> QED
      BY <2>1 DEF OthersKept, NoNewHolder, Holds
  <1>4. CASE RestoreDone(w) \/ DeleteFresh(w) \/ CleanupThrows(w)
    <2>1. Holds(w) /\ UNCHANGED <<lease, task>>
      BY <1>4 DEF RestoreDone, DeleteFresh, CleanupThrows, Holds
    <2>2. \E l : Goto(w, l)
      BY <1>4 DEF RestoreDone, DeleteFresh, CleanupThrows, EnterCatch
    <2> QED
      BY <2>1, <2>2, GotoQuiet
  <1>5. CASE Reserve(w) \/ StreamDone(w) \/ MarkJobCompleted(w)
    <2>1. Holds(w) /\ UNCHANGED <<lease, task>>
      BY <1>5 DEF Reserve, StreamDone, MarkJobCompleted, Holds
    <2>2. \E l : Goto(w, l)
      BY <1>5 DEF Reserve, StreamDone, MarkJobCompleted, EnterCatch
    <2> QED
      BY <2>1, <2>2, GotoQuiet
  <1>6. CASE Finalize(w) \/ Discard(w) \/ Throw(w) \/ Refund(w)
    <2>1. Holds(w) /\ UNCHANGED <<lease, task>>
      BY <1>6 DEF Finalize, Discard, Throw, Refund, Holds
    <2>2. \E l : Goto(w, l)
      BY <1>6 DEF Finalize, Discard, Throw, Refund, EnterCatch
    <2> QED
      BY <2>1, <2>2, GotoQuiet
  <1>7. CASE OnSuccess(w) \/ TaskRetry(w) \/ MarkSheetFailed(w) \/ OnFailMark(w)
    <2>1. Finish(w) /\ UNCHANGED lease
      BY <1>7 DEF OnSuccess, TaskRetry, MarkSheetFailed, OnFailMark, WriteFailed
    <2> QED
      BY <2>1, FinishQuiet
  <1> QED
    BY <1>1, <1>2, <1>3, <1>4, <1>5, <1>6, <1>7 DEF Step

LEMMA LeaseInit == Init => LeaseInv
  BY DEF Init, LeaseInv, Holds

LEMMA LeaseStep == TypeInv /\ LeaseInv /\ [Next]_vars => LeaseInv'
  <1> SUFFICES ASSUME TypeInv, LeaseInv, [Next]_vars PROVE LeaseInv'
    OBVIOUS
  <1>1. CASE UNCHANGED <<lease, pc, task>>
    BY <1>1 DEF LeaseInv, Holds, DatasetAt
  <1>2. ASSUME NEW w \in Workers, UNCHANGED lease, OthersKept(w), NoNewHolder(w)
        PROVE  LeaseInv'
    BY <1>2 DEF LeaseInv, OthersKept, NoNewHolder, Holds, DatasetAt
  <1>3. ASSUME NEW w \in Workers, NEW j \in Jobs, Deliver(w, j) PROVE LeaseInv'
    <2>1. UNCHANGED lease /\ OthersKept(w) /\ NoNewHolder(w)
      BY <1>3 DEF Deliver, Goto, TypeInv, TypeOK, OthersKept, NoNewHolder, Holds
    <2> QED
      BY <2>1, <1>2
  <1>4. ASSUME NEW w \in Workers, AcquireLease(w) PROVE LeaseInv'
    \* Nobody else can be under this dataset's lease: it was free.
    <2>1. task[w] \in Jobs /\ DatasetAt(w) \in Datasets
      BY <1>4, EventImportAssumption
      DEF AcquireLease, TypeInv, TaskOK, DatasetAt, EventImportAssumption
    <2>2. OthersKept(w) /\ UNCHANGED task
      BY <1>4 DEF AcquireLease, Goto, TypeInv, TypeOK, OthersKept
    <2>3. lease'[DatasetAt(w)] = w
      BY <1>4, <2>1 DEF AcquireLease, TypeInv, TypeOK
    <2>4. ASSUME NEW v \in Workers \ {w}, Holds(v)' PROVE lease'[DatasetAt(v)] = v
      <3>1. Holds(v) /\ lease[DatasetAt(v)] = v
        BY <2>2, <2>4 DEF OthersKept, Holds, LeaseInv
      <3>2. DatasetAt(v) # DatasetAt(w)
        BY <1>4, <3>1, EventImportAssumption
        DEF AcquireLease, LeaseFree, EventImportAssumption
      <3> QED
        BY <1>4, <3>1, <3>2 DEF AcquireLease, TypeInv, TypeOK
    <2> QED
      BY <2>2, <2>3, <2>4 DEF LeaseInv, DatasetAt
  <1>5. ASSUME NEW w \in Workers, ReleaseLease(w) PROVE LeaseInv'
    \* The released lease was w's own, so no other worker loses one.
    <2>1. OthersKept(w) /\ UNCHANGED task /\ ~Holds(w)'
      BY <1>5 DEF ReleaseLease, Goto, TypeInv, TypeOK, OthersKept, Holds
    <2>2. lease[DatasetAt(w)] = w
      BY <1>5 DEF ReleaseLease, LeaseInv, Holds
    <2>3. ASSUME NEW v \in Workers \ {w}, Holds(v)' PROVE lease'[DatasetAt(v)] = v
      <3>1. Holds(v) /\ lease[DatasetAt(v)] = v
        BY <2>1, <2>3 DEF OthersKept, Holds, LeaseInv
      <3> QED
        BY <1>5, <2>2, <3>1 DEF ReleaseLease, TypeInv, TypeOK
    <2> QED
      BY <2>1, <2>3 DEF LeaseInv, DatasetAt
  <1>6. ASSUME NEW w \in Workers, Crash(w) PROVE LeaseInv'
    <2>1. OthersKept(w) /\ ~Holds(w)'
      BY <1>6, FinishQuiet DEF Crash
    <2>2. ASSUME NEW v \in Workers \ {w}, Holds(v)' PROVE lease'[DatasetAt(v)'] = v
      <3>1. Holds(v) /\ lease[DatasetAt(v)] = v /\ DatasetAt(v)' = DatasetAt(v)
        BY <2>1, <2>2 DEF OthersKept, Holds, LeaseInv, DatasetAt
      <3>2. DatasetAt(v) \in Datasets
        BY <3>1, EventImportAssumption
        DEF Holds, TypeInv, TaskOK, DatasetAt, EventImportAssumption
      <3> QED
        BY <1>6, <3>1, <3>2 DEF Crash
    <2> QED
      BY <2>1, <2>2 DEF LeaseInv
  <1>7. ASSUME NEW j \in Jobs, \/ AnalyzeDuplicates(j) \/ RetryRoute(j)
                               \/ ResetRoute(j) \/ ApproveRowErrors(j)
        PROVE  LeaseInv'
    BY <1>7, <1>1 DEF AnalyzeDuplicates, RetryRoute, ResetRoute, ApproveRowErrors
  <1> QED
    BY <1>1, <1>2, <1>3, <1>4, <1>5, <1>6, <1>7, StepQuiet DEF Next, vars

\* Imports into one dataset exclude one another from the guard to the release
\* of the lease, for any number of jobs and workers and whatever fails: with
\* crashes, double deliveries and leases that are waited for in vain.
THEOREM ImportsSerialised == Spec => []Serialised
  <1>1. Spec => [](TypeInv /\ LeaseInv)
    BY TypeInit, TypeStep, LeaseInit, LeaseStep, PTL DEF Spec
  <1>2. LeaseInv => Serialised
    BY DEF LeaseInv, Serialised
  <1> QED
    BY <1>1, <1>2, PTL

---------------------------------------------------------------------------
(* The quota *)

LEMMA UsageStep ==
    TypeInv /\ UsageWithinLimit /\ [Next]_vars => UsageWithinLimit'
  <1> SUFFICES ASSUME TypeInv, UsageWithinLimit, [Next]_vars PROVE UsageWithinLimit'
    OBVIOUS
  <1>t. usage \in Nat /\ Limit \in Nat /\ usage <= Limit
    BY EventImportAssumption
    DEF EventImportAssumption, TypeInv, TypeOK, UsageWithinLimit
  <1>1. CASE UNCHANGED usage
    BY <1>1 DEF UsageWithinLimit
  <1>2. ASSUME NEW w \in Workers, Reserve(w) PROVE UsageWithinLimit'
    <2> DEFINE new == Cardinality(plan[task[w]].insert)
    <2>1. new \in Nat
      BY <1>2, KeysCount DEF Reserve, TypeInv, TypeOK, TaskOK
    <2>2. \/ UNCHANGED usage
          \/ usage' = usage + new /\ ~(new > 0 /\ usage + new > Limit)
      BY <1>2 DEF Reserve
    <2> QED
      BY <1>t, <2>1, <2>2 DEF UsageWithinLimit
  <1>3. ASSUME NEW w \in Workers, MarkJobCompleted(w) PROVE UsageWithinLimit'
    <2>1. loc[w].reserved \in Nat
      BY DEF TypeInv, TypeOK, Locals
    <2>2. NewEvents(w) \in Nat
      <3>1. loc[w].updated \in Nat
        BY DEF TypeInv, TypeOK, Locals
      <3> QED
        BY <3>1, KeysCount DEF NewEvents
    <2> QED
      BY <1>3, <1>t, <2>1, <2>2 DEF MarkJobCompleted, Reconciled, UsageWithinLimit
  <1>4. ASSUME NEW w \in Workers, Refund(w) PROVE UsageWithinLimit'
    <2>1. loc[w].tracked \in Int /\ loc[w].reserved \in Nat
      BY DEF TypeInv, TypeOK, Locals
    <2> QED
      BY <1>4, <1>t, <2>1 DEF Refund, UsageWithinLimit
  <1>5. ASSUME NEW w \in Workers, Step(w), ~Reserve(w), ~MarkJobCompleted(w), ~Refund(w)
        PROVE  UNCHANGED usage
    BY <1>5 DEF Step, AcquireLease, LeaseTimeout, Guard, Begin, RestoreLine, RestoreDone,
         DeleteFresh, CleanupThrows, UpdateRow, InsertBatch, ReconcileConflict, StreamDone,
         Finalize, Discard, Throw, ReleaseLease, OnSuccess, TaskRetry, MarkSheetFailed,
         OnFail, OnFailMark, WriteFailed
  <1>6. ASSUME NEW w \in Workers, Crash(w) \/ \E j \in Jobs : Deliver(w, j)
        PROVE  UNCHANGED usage
    BY <1>6 DEF Crash, Deliver
  <1>7. ASSUME NEW j \in Jobs, \/ AnalyzeDuplicates(j) \/ RetryRoute(j)
                               \/ ResetRoute(j) \/ ApproveRowErrors(j)
        PROVE  UNCHANGED usage
    BY <1>7 DEF AnalyzeDuplicates, RetryRoute, ResetRoute, ApproveRowErrors
  <1> QED
    BY <1>1, <1>2, <1>3, <1>4, <1>5, <1>6, <1>7 DEF Next, vars

\* If the events that already exist are within the owner's limit, no order of
\* reservations, reconciliations and refunds takes the counter beyond it.
THEOREM UsageBounded ==
    ASSUME Cardinality(SeedKeys) <= Limit
    PROVE  Spec => []UsageWithinLimit
  <1>1. Init => UsageWithinLimit
    BY DEF Init, UsageWithinLimit
  <1> QED
    BY <1>1, TypeInit, TypeStep, UsageStep, PTL DEF Spec

---------------------------------------------------------------------------
(* Committed events stay.  The only step that removes events is the delete *)
(* of a job's own inserts, so a delivery that can still reach it must run  *)
(* for a job that has not committed.  That needs the queue to deliver a    *)
(* job once at a time and only while it is due, the assumption below; the  *)
(* run OnFailUndoesCompleted shows what happens without it.                *)

DeliveredWhenDue == Faults \cap {"redeliver", "redeliverReview", "double"} = {}

\* The delivery may still roll its job back: it is not past the commit.
Undecided(w) ==
    pc[w] \notin {"idle", "discard", "returned"} /\ ~(pc[w] = "release" /\ loc[w].ok)

\* No job has two deliveries under way.
OneDelivery ==
    \A v, w \in Workers :
        v # w /\ pc[v] # "idle" /\ pc[w] # "idle" => task[v] # task[w]

\* What may still be rolled back has not been committed.
NotYetCommitted == \A w \in Workers : Undecided(w) => ~Committed(task[w])

CommitInv == OneDelivery /\ NotYetCommitted

\* A step leaves a worker's place in the handler, job and variables alone.
Untouched(v) == pc'[v] = pc[v] /\ task'[v] = task[v] /\ loc'[v] = loc[v]

LEMMA FinishUntouched ==
    ASSUME TypeInv, NEW w \in Workers, Finish(w)
    PROVE  pc'[w] = "idle" /\ \A v \in Workers \ {w} : Untouched(v)
  BY DEF TypeInv, TypeOK, Finish, Goto, SetLocals, Untouched

\* A step of one delivery that keeps its job's stage, or does not commit it.
LEMMA CommitLocal ==
    ASSUME TypeInv, CommitInv, NEW w \in Workers,
           \A v \in Workers \ {w} : Untouched(v),
           pc'[w] # "idle" => pc[w] # "idle" /\ task'[w] = task[w],
           Undecided(w)' => ~Committed(task[w])',
           \A v \in Workers \ {w} : pc[v] # "idle" => stage'[task[v]] = stage[task[v]]
    PROVE  CommitInv'
  <1>1. OneDelivery'
    BY DEF CommitInv, OneDelivery, Untouched
  <1>2. ASSUME NEW v \in Workers \ {w}, Undecided(v)' PROVE ~Committed(task[v])'
    <2>1. Undecided(v) /\ task'[v] = task[v] /\ pc[v] # "idle"
      BY <1>2 DEF Undecided, Untouched
    <2> QED
      BY <2>1 DEF CommitInv, NotYetCommitted, Committed
  <1> QED
    BY <1>1, <1>2 DEF CommitInv, NotYetCommitted

\* A step of one delivery that writes no stage and goes no further than
\* another place from which the job may still be rolled back.
LEMMA CommitQuiet ==
    ASSUME TypeInv, CommitInv, NEW w \in Workers, UNCHANGED <<stage, task>>,
           \A v \in Workers \ {w} : Untouched(v), pc[w] # "idle",
           Undecided(w)' => Undecided(w)
    PROVE  CommitInv'
  <1>1. Undecided(w)' => ~Committed(task[w])'
    BY DEF CommitInv, NotYetCommitted, Committed
  <1> QED
    BY <1>1, CommitLocal

\* Moving one delivery on, with or without its local variables.
LEMMA MoveUntouched ==
    ASSUME TypeInv, NEW w \in Workers, NEW l, Goto(w, l), UNCHANGED task,
           UNCHANGED loc \/ \E r : SetLocals(w, r)
    PROVE  pc'[w] = l /\ \A v \in Workers \ {w} : Untouched(v)
  BY DEF TypeInv, TypeOK, Goto, SetLocals, Untouched

LEMMA CommitStep ==
    ASSUME DeliveredWhenDue
    PROVE  TypeInv /\ CommitInv /\ [Next]_vars => CommitInv'
  <1> SUFFICES ASSUME TypeInv, CommitInv, [Next]_vars PROVE CommitInv'
    OBVIOUS
  <1>1. CASE UNCHANGED vars
    BY <1>1 DEF vars, CommitInv, OneDelivery, NotYetCommitted, Undecided, Committed
  <1>2. ASSUME NEW j \in Jobs, AnalyzeDuplicates(j) \/ RetryRoute(j) \/ ResetRoute(j)
        PROVE  CommitInv'
    \* The stage of j changes to one that is not committed.
    <2>1. \A i \in Jobs : stage'[i] = stage[i] \/ stage'[i] \notin {"completed", "needs-review"}
      BY <1>2 DEF AnalyzeDuplicates, RetryRoute, ResetRoute, TypeInv, TypeOK
    <2>2. UNCHANGED <<pc, task, loc>>
      BY <1>2 DEF AnalyzeDuplicates, RetryRoute, ResetRoute
    <2> QED
      BY <2>1, <2>2
      DEF CommitInv, OneDelivery, NotYetCommitted, Undecided, Committed
  <1>3. ASSUME NEW j \in Jobs, ApproveRowErrors(j) PROVE CommitInv'
    \* The job was committed already: it awaited a review.
    <2>1. \A i \in Jobs : stage'[i] = stage[i] \/ stage[i] = "needs-review"
      BY <1>3 DEF ApproveRowErrors, TypeInv, TypeOK
    <2>2. UNCHANGED <<pc, task, loc>>
      BY <1>3 DEF ApproveRowErrors
    <2> QED
      BY <2>1, <2>2
      DEF CommitInv, OneDelivery, NotYetCommitted, Undecided, Committed
  <1>4. ASSUME NEW w \in Workers, NEW j \in Jobs, Deliver(w, j) PROVE CommitInv'
    <2>1. ~Running(j) /\ stage[j] \in {"geocode-batch", "create-events"}
      BY <1>4 DEF Deliver, DeliveredWhenDue
    <2>2. /\ pc'[w] = "acquire" /\ task'[w] = j /\ UNCHANGED stage
          /\ \A v \in Workers \ {w} : Untouched(v)
      BY <1>4 DEF Deliver, Goto, SetLocals, TypeInv, TypeOK, Untouched
    <2>3. OneDelivery'
      BY <2>1, <2>2 DEF CommitInv, OneDelivery, Running, Untouched
    <2>4. ~Committed(task[w])'
      BY <2>1, <2>2 DEF Committed
    <2>5. ASSUME NEW v \in Workers \ {w}, Undecided(v)' PROVE ~Committed(task[v])'
      BY <2>2, <2>5 DEF CommitInv, NotYetCommitted, Undecided, Untouched, Committed
    <2> QED
      BY <2>3, <2>4, <2>5 DEF CommitInv, NotYetCommitted
  <1>5. ASSUME NEW w \in Workers, Step(w) PROVE CommitInv'
    <2>1. CASE AcquireLease(w) \/ LeaseTimeout(w) \/ OnFail(w)
      <3>1. /\ \E l : Goto(w, l)
            /\ UNCHANGED loc \/ \E r : SetLocals(w, r)
            /\ UNCHANGED <<stage, task>> /\ pc[w] # "idle" /\ Undecided(w)
        BY <2>1 DEF AcquireLease, LeaseTimeout, OnFail, Undecided
      <3> QED
        BY <3>1, MoveUntouched, CommitQuiet
    <2>2. CASE Guard(w) \/ RestoreDone(w) \/ DeleteFresh(w) \/ CleanupThrows(w)
      <3>1. /\ \E l : Goto(w, l)
            /\ UNCHANGED loc \/ \E r : SetLocals(w, r)
            /\ UNCHANGED <<stage, task>> /\ pc[w] # "idle" /\ Undecided(w)
        BY <2>2 DEF Guard, RestoreDone, DeleteFresh, CleanupThrows, EnterCatch, Undecided
      <3> QED
        BY <3>1, MoveUntouched, CommitQuiet
    <2>3. CASE Reserve(w) \/ StreamDone(w) \/ MarkJobCompleted(w) \/ Throw(w) \/ Refund(w)
      <3>1. /\ \E l : Goto(w, l)
            /\ UNCHANGED loc \/ \E r : SetLocals(w, r)
            /\ UNCHANGED <<stage, task>> /\ pc[w] # "idle" /\ Undecided(w)
        BY <2>3 DEF Reserve, StreamDone, MarkJobCompleted, Throw, Refund, EnterCatch, Undecided
      <3> QED
        BY <3>1, MoveUntouched, CommitQuiet
    <2>4. CASE RestoreLine(w) \/ UpdateRow(w) \/ InsertBatch(w) \/ ReconcileConflict(w)
      <3>1. /\ UNCHANGED <<stage, task, pc>> /\ pc[w] # "idle" /\ Undecided(w)
            /\ \E r : SetLocals(w, r)
        BY <2>4 DEF RestoreLine, UpdateRow, InsertBatch, ReconcileConflict, OverwriteEvent,
             Undecided
      <3>2. \A v \in Workers \ {w} : Untouched(v)
        BY <3>1 DEF SetLocals, TypeInv, TypeOK, Untouched
      <3> QED
        BY <3>1, <3>2, CommitQuiet
    <2>5. CASE Begin(w)
      <3>1. /\ \E l : Goto(w, l)
            /\ UNCHANGED loc \/ \E r : SetLocals(w, r)
            /\ UNCHANGED task /\ pc[w] # "idle" /\ Undecided(w)
        BY <2>5 DEF Begin, EnterCatch, Undecided
      <3>2. \A i \in Jobs : stage'[i] = stage[i] \/ stage'[i] = "create-events"
        BY <2>5 DEF Begin, TypeInv, TypeOK
      <3>3. ~Committed(task[w])'
        BY <3>1, <3>2 DEF CommitInv, NotYetCommitted, Committed
      <3>4. \A v \in Workers \ {w} : pc[v] # "idle" => stage'[task[v]] = stage[task[v]]
        BY <2>5, <3>1 DEF Begin, CommitInv, OneDelivery, TypeInv, TypeOK, TaskOK
      <3> QED
        BY <3>1, <3>3, <3>4, MoveUntouched, CommitLocal
    <2>6. CASE Finalize(w)
      \* The commit: past it, the delivery no longer rolls back.
      <3>1. Goto(w, "discard") /\ UNCHANGED <<task, loc>> /\ pc[w] # "idle"
        BY <2>6 DEF Finalize
      <3>2. ~Undecided(w)' /\ \A v \in Workers \ {w} : Untouched(v)
        BY <3>1, MoveUntouched DEF Undecided
      <3>3. \A v \in Workers \ {w} : pc[v] # "idle" => stage'[task[v]] = stage[task[v]]
        BY <2>6, <3>1 DEF Finalize, CommitInv, OneDelivery, TypeInv, TypeOK, TaskOK
      <3> QED
        BY <3>1, <3>2, <3>3, CommitLocal
    <2>7. CASE Discard(w)
      <3>1. /\ Goto(w, "release") /\ SetLocals(w, [loc[w] EXCEPT !.ok = TRUE])
            /\ UNCHANGED <<stage, task>> /\ pc[w] # "idle"
        BY <2>7 DEF Discard
      <3>2. pc'[w] = "release" /\ \A v \in Workers \ {w} : Untouched(v)
        BY <3>1, MoveUntouched
      <3>3. loc'[w].ok
        <4>1. loc'[w] = [loc[w] EXCEPT !.ok = TRUE] /\ loc[w] \in Locals
          BY <3>1 DEF SetLocals, TypeInv, TypeOK
        <4> QED
          BY <4>1 DEF Locals
      <3> QED
        BY <3>1, <3>2, <3>3, CommitQuiet DEF Undecided
    <2>8. CASE ReleaseLease(w)
      <3>1. /\ Goto(w, IF loc[w].ok THEN "returned"
                       ELSE IF loc[w].phase = "onFail" THEN "markFailed" ELSE "threw")
            /\ UNCHANGED <<stage, task, loc>> /\ pc[w] = "release"
        BY <2>8 DEF ReleaseLease
      <3>2. Undecided(w)' => Undecided(w)
        BY <3>1, MoveUntouched DEF Undecided
      <3> QED
        BY <3>1, <3>2, MoveUntouched, CommitQuiet
    <2>9. CASE OnSuccess(w) \/ TaskRetry(w) \/ MarkSheetFailed(w) \/ OnFailMark(w)
      <3>1. Finish(w) /\ pc[w] # "idle"
        BY <2>9 DEF OnSuccess, TaskRetry, MarkSheetFailed, OnFailMark, WriteFailed
      <3>2. \A i \in Jobs : i # task[w] => stage'[i] = stage[i]
        BY <2>9 DEF OnSuccess, TaskRetry, MarkSheetFailed, OnFailMark, WriteFailed,
             TypeInv, TypeOK
      <3>3. \A v \in Workers \ {w} : pc[v] # "idle" => stage'[task[v]] = stage[task[v]]
        BY <3>1, <3>2 DEF CommitInv, OneDelivery, TypeInv, TaskOK
      <3> QED
        BY <3>1, <3>3, FinishUntouched, CommitLocal DEF Undecided
    <2> QED
      BY <1>5, <2>1, <2>2, <2>3, <2>4, <2>5, <2>6, <2>7, <2>8, <2>9 DEF Step
  <1>6. ASSUME NEW w \in Workers, Crash(w) PROVE CommitInv'
    <2>1. Finish(w) /\ UNCHANGED stage
      BY <1>6 DEF Crash
    <2> QED
      BY <2>1, FinishUntouched, CommitLocal DEF Undecided
  <1> QED
    BY <1>1, <1>2, <1>3, <1>4, <1>5, <1>6 DEF Next

\* A step that removes an event is the delete of an uncommitted job's inserts.
LEMMA KeptStep ==
    ASSUME TypeInv, CommitInv, [Next]_vars,
           NEW k \in Keys, Present(k), Committed(event[k].owner)
    PROVE  Present(k)'
  <1>t. event \in [Keys -> Event]
    BY DEF TypeInv, TypeOK
  <1>1. CASE UNCHANGED event
    BY <1>1 DEF Present
  <1>2. ASSUME NEW w \in Workers, RestoreLine(w) \/ DeleteFresh(w) PROVE Present(k)'
    <2>1. Undecided(w) /\ task[w] \in Jobs /\ event[k].owner # task[w]
      BY <1>2 DEF RestoreLine, DeleteFresh, Undecided, CommitInv, NotYetCommitted,
           TypeInv, TaskOK
    <2>2. CASE DeleteFresh(w)
      BY <2>1, <2>2 DEF DeleteFresh, Fresh, Present
    <2>3. CASE RestoreLine(w)
      <3> DEFINE line == sidecar[task[w]][loc[w].cursor]
      <3>1. \/ /\ event[line.key].owner = task[w]
               /\ event' = [event EXCEPT ![line.key].owner = line.owner]
            \/ UNCHANGED event
        BY <2>3 DEF RestoreLine
      <3> HIDE DEF line
      <3>2. event'[k] = event[k]
        BY <1>t, <2>1, <3>1
      <3> QED
        BY <3>2 DEF Present
    <2> QED
      BY <1>2, <2>2, <2>3
  <1>3. ASSUME NEW w \in Workers, NEW rest, NEW i \in Keys,
               task[w] \in Jobs, OverwriteEvent(w, i, rest)
        PROVE  Present(k)'
    <2>1. NoJob \notin Jobs
      BY EventImportAssumption DEF EventImportAssumption
    <2>2. event' = [event EXCEPT ![i].owner = task[w]] \/ UNCHANGED event
      BY <1>3 DEF OverwriteEvent
    <2>3. event'[k].owner \in {task[w], event[k].owner}
      BY <1>t, <2>2 DEF Event
    <2> QED
      BY <1>3, <2>1, <2>3 DEF Present
  <1>4. ASSUME NEW w \in Workers, UpdateRow(w) \/ ReconcileConflict(w) PROVE Present(k)'
    <2>1. loc[w] \in Locals /\ task[w] \in Jobs
      BY <1>4 DEF UpdateRow, ReconcileConflict, TypeInv, TypeOK, TaskOK
    <2>2. \/ UNCHANGED event
          \/ \E i \in loc[w].todo \cup loc[w].conflict, rest \in Locals : OverwriteEvent(w, i, rest)
      <3>1. \A i : /\ [loc[w] EXCEPT !.todo = @ \ {i}] \in Locals
                   /\ [loc[w] EXCEPT !.conflict = @ \ {i}] \in Locals
        BY <2>1, LocalsTodo, LocalsConflict
      <3> QED
        BY <1>4, <3>1 DEF UpdateRow, ReconcileConflict
    <2>3. loc[w].todo \cup loc[w].conflict \subseteq Keys
      BY <2>1 DEF Locals
    <2> QED
      BY <1>1, <1>3, <2>1, <2>2, <2>3
  <1>5. ASSUME NEW w \in Workers, InsertBatch(w) PROVE Present(k)'
    <2>1. PICK batch \in SUBSET (loc[w].todo \ Updates(task[w])) :
            \/ event' = [i \in Keys |->
                 IF i \in batch \ {b \in batch : Present(b)}
                 THEN [owner |-> task[w], born |-> task[w], id |-> event[i].id + 1]
                 ELSE event[i]]
            \/ UNCHANGED event
      BY <1>5 DEF InsertBatch
    <2> QED
      BY <2>1 DEF Present
  <1>6. ASSUME NEW w \in Workers, Step(w),
               ~RestoreLine(w), ~DeleteFresh(w), ~UpdateRow(w), ~ReconcileConflict(w),
               ~InsertBatch(w)
        PROVE  UNCHANGED event
    BY <1>6 DEF Step, AcquireLease, LeaseTimeout, Guard, Begin, RestoreDone, CleanupThrows,
         Reserve, StreamDone, MarkJobCompleted, Finalize, Discard, Throw, Refund,
         ReleaseLease, OnSuccess, TaskRetry, MarkSheetFailed, OnFail, OnFailMark, WriteFailed
  <1>7. ASSUME NEW w \in Workers, Crash(w) \/ \E j \in Jobs : Deliver(w, j)
        PROVE  UNCHANGED event
    BY <1>7 DEF Crash, Deliver
  <1>8. ASSUME NEW j \in Jobs, \/ AnalyzeDuplicates(j) \/ RetryRoute(j)
                               \/ ResetRoute(j) \/ ApproveRowErrors(j)
        PROVE  UNCHANGED event
    BY <1>8 DEF AnalyzeDuplicates, RetryRoute, ResetRoute, ApproveRowErrors
  <1> QED
    BY <1>1, <1>2, <1>4, <1>5, <1>6, <1>7, <1>8 DEF Next, vars

\* As long as the queue delivers a job once at a time and only while it is
\* due, no event of a committed import is ever removed: whatever throws,
\* crashes or fails to be restored, cleaned up or marked.
THEOREM CommittedKept ==
    ASSUME DeliveredWhenDue
    PROVE  Spec => CommittedEventsKept
  <1>1. Init => CommitInv
    BY DEF Init, CommitInv, OneDelivery, NotYetCommitted, Undecided
  <1>2. Spec => [](TypeInv /\ CommitInv)
    BY <1>1, TypeInit, TypeStep, CommitStep, PTL DEF Spec
  <1>3. TypeInv /\ CommitInv /\ [Next]_vars =>
          [\A k \in Keys : Present(k) /\ Committed(event[k].owner) => Present(k)']_vars
    BY KeptStep
  <1> QED
    BY <1>2, <1>3, PTL DEF Spec, CommittedEventsKept

=============================================================================
