------------------------- MODULE EventImport_quota -------------------------
(***************************************************************************)
(* The owner's TOTAL_EVENTS counter in EventImport: at any time it is the  *)
(* number of events in the logical content plus what the deliveries under  *)
(* way have reserved, and so, between imports, the number of events there  *)
(* are.                                                                    *)
(***************************************************************************)
EXTENDS EventImport_refinement, FiniteSetTheorems

\* Every delivery is due, every cleanup is finished and every refund is made.
Accountable == DeliveredWhenDue /\ CleanFailures /\ "refundFail" \notin Faults

---------------------------------------------------------------------------
(* The inductive invariant *)

\* The events a delivery's job owns, and those of them it took over.
Written(w) == {k \in Keys : event[k].owner = task[w]}
Taken(w) == {k \in Written(w) : Snapshots(task[w], k) # {}}

\* What a delivery has reserved and neither used nor given back.
Owes(w) ==
    \/ pc[w] \in {"stream", "complete", "finalize"}
    \/ loc[w].phase = "catch" /\ pc[w] \in {"restore", "delete", "refund"}

Due(w) ==
    IF ~Owes(w) THEN 0
    ELSE IF loc[w].tracked >= 0 THEN loc[w].tracked ELSE loc[w].reserved

\* The cleanup that begins a delivery.
Cleaning(w) == loc[w].phase = "start" /\ pc[w] \in {"restore", "delete"}

\* A delivery counts what it writes, against a plan that does not change.
Counting(w) ==
    /\ pc[w] \in {"acquire", "guard", "begin", "reserve"} \/ Cleaning(w) =>
         loc[w].reserved = 0 /\ loc[w].tracked = -1 /\ loc[w].updated = 0
    /\ pc[w] = "refund" => loc[w].phase = "catch"
    /\ pc[w] \in {"reserve", "stream", "complete"} \/ Cleaning(w) =>
         stage[task[w]] = "create-events"
    /\ pc[w] \in {"stream", "complete"} =>
         /\ loc[w].tracked = -1
         /\ loc[w].reserved = Cardinality(plan[task[w]].insert)
         /\ loc[w].updated = Cardinality(Taken(w))
         /\ Written(w) \ Taken(w) \subseteq plan[task[w]].insert
    /\ pc[w] = "stream" =>
         /\ loc[w].todo \ Updates(task[w]) \subseteq plan[task[w]].insert
         /\ (loc[w].todo \cup loc[w].conflict) \cap Written(w) = {}
    /\ pc[w] = "finalize" => loc[w].tracked = Cardinality(Written(w) \ Taken(w))

\* The events of the logical content, and one token for each reserved event.
Shown == {k \in Keys : LogicalOwner(k) # NoJob}
Share(w) == {w} \X (1 .. Due(w))
Tokens == UNION {Share(w) : w \in Workers}

Balanced == IsFiniteSet(Tokens) /\ usage = Cardinality(Shown) + Cardinality(Tokens)

QuotaInv == (\A w \in Workers : Counting(w)) /\ Balanced

---------------------------------------------------------------------------
(* Tokens *)

LEMMA DisjointSize ==
    ASSUME NEW S, IsFiniteSet(S), NEW T, IsFiniteSet(T), S \cap T = {}
    PROVE  /\ IsFiniteSet(S \cup T)
           /\ Cardinality(S \cup T) = Cardinality(S) + Cardinality(T)
  <1>1. Cardinality(S) \in Nat /\ Cardinality(T) \in Nat
    BY FS_CardinalityType
  <1>2. /\ IsFiniteSet(S \cup T)
        /\ Cardinality(S \cup T) = Cardinality(S) + Cardinality(T) - Cardinality(S \cap T)
    BY FS_Union
  <1>3. Cardinality(S \cap T) = 0
    BY FS_EmptySet
  <1> QED
    BY <1>1, <1>2, <1>3

LEMMA DueType ==
    ASSUME TypeInv, NEW w \in Workers
    PROVE  Due(w) \in Nat
  <1>1. loc[w].reserved \in Nat /\ loc[w].tracked \in Int
    BY DEF TypeInv, TypeOK, Locals
  <1> QED
    BY <1>1 DEF Due

LEMMA DueTypeNext ==
    ASSUME TypeInv', NEW w \in Workers
    PROVE  Due(w)' \in Nat
  <1>1. loc'[w].reserved \in Nat /\ loc'[w].tracked \in Int
    BY DEF TypeInv, TypeOK, Locals
  <1> QED
    BY <1>1 DEF Due

\* The tokens of one delivery.
LEMMA ShareSize ==
    ASSUME NEW x, NEW n \in Nat
    PROVE  /\ IsFiniteSet({x} \X (1 .. n)) /\ Cardinality({x} \X (1 .. n)) = n
  <1>1. IsFiniteSet(1 .. n) /\ Cardinality(1 .. n) = n
    BY FS_Interval
  <1>2. IsFiniteSet({x}) /\ Cardinality({x}) = 1
    BY FS_Singleton
  <1>3. /\ IsFiniteSet({x} \X (1 .. n))
        /\ Cardinality({x} \X (1 .. n)) = Cardinality({x}) * Cardinality(1 .. n)
    BY <1>1, <1>2, FS_Product
  <1> QED
    BY <1>1, <1>2, <1>3

\* A step of one delivery changes the tokens by what the delivery's due changes.
LEMMA TokensStep ==
    ASSUME TypeInv, TypeInv', IsFiniteSet(Tokens), NEW w \in Workers,
           \A v \in Workers \ {w} : Untouched(v)
    PROVE  /\ IsFiniteSet(Tokens') /\ Cardinality(Tokens) >= Due(w)
           /\ Cardinality(Tokens') = Cardinality(Tokens) - Due(w) + Due(w)'
  <1> DEFINE A == {w} \X (1 .. Due(w))
             B == {w} \X (1 .. Due(w)')
             R == UNION {Share(v) : v \in Workers \ {w}}
  <1>1. \A v \in Workers \ {w} : Share(v)' = Share(v)
    BY DEF Share, Due, Owes, Untouched
  <1>2. Tokens = R \cup A /\ Tokens' = R \cup B
    <2>1. Share(w) = A /\ Share(w)' = B
      BY DEF Share
    <2>2. Tokens' = UNION {Share(v)' : v \in Workers}
      BY DEF Tokens
    <2>3. UNION {Share(v)' : v \in Workers} = R \cup Share(w)'
      BY <1>1
    <2>4. Tokens = R \cup Share(w)
      BY DEF Tokens
    <2> QED
      BY <2>1, <2>2, <2>3, <2>4
  <1>3. R \cap A = {} /\ R \cap B = {}
    BY DEF Share
  <1>4. /\ IsFiniteSet(A) /\ Cardinality(A) = Due(w)
        /\ IsFiniteSet(B) /\ Cardinality(B) = Due(w)'
    BY ShareSize, DueType, DueTypeNext
  <1> HIDE DEF A, B, R
  <1>5. IsFiniteSet(R)
    BY <1>2, FS_Subset
  <1>6. /\ Cardinality(Tokens) = Cardinality(R) + Cardinality(A)
        /\ Cardinality(Tokens') = Cardinality(R) + Cardinality(B)
        /\ IsFiniteSet(Tokens')
    <2>1. /\ IsFiniteSet(R \cup A) /\ Cardinality(R \cup A) = Cardinality(R) + Cardinality(A)
          /\ IsFiniteSet(R \cup B) /\ Cardinality(R \cup B) = Cardinality(R) + Cardinality(B)
      BY <1>3, <1>4, <1>5, DisjointSize
    <2> QED
      BY <1>2, <2>1
  <1>7. Cardinality(R) \in Nat /\ Due(w) \in Nat /\ Due(w)' \in Nat
    BY <1>5, FS_CardinalityType, DueType, DueTypeNext
  <1> QED
    BY <1>4, <1>6, <1>7

---------------------------------------------------------------------------
(* What other steps leave alone *)

\* No other delivery writes rows of a job that holds its lease.
LEMMA HeldRows ==
    ASSUME ImportInv, NEW w \in Workers, UNCHANGED <<event, sidecar>> \/ DataMove(w),
           NEW v \in Workers \ {w}, Holds(v), NEW k \in Keys, k \in Rows[task[v]]
    PROVE  event'[k] = event[k]
  <1> SUFFICES ASSUME event'[k] # event[k] PROVE FALSE
    OBVIOUS
  <1>1. k \in Rows[task[w]] /\ Holds(w) /\ task[w] \in Jobs /\ task[v] \in Jobs
    BY MoveRows DEF Holds, ImportInv, TypeInv, TaskOK
  <1>2. DatasetAt(v) = DatasetAt(w)
    BY <1>1, EventImportAssumption DEF EventImportAssumption, DatasetAt
  <1> QED
    BY <1>1, <1>2 DEF ImportInv, LeaseInv

\* So a delivery that holds the lease keeps its events and its snapshots.
LEMMA WrittenKept ==
    ASSUME ImportInv, ImportInv', NEW w \in Workers, DeliveryStep(w),
           NEW v \in Workers \ {w}, Holds(v), Untouched(v)
    PROVE  Written(v)' = Written(v) /\ Taken(v)' = Taken(v)
  <1>1. PICK j \in Jobs : j = task[v]
    BY DEF ImportInv, TypeInv, TaskOK, Holds
  <1>2. UNCHANGED <<event, sidecar>> \/ DataMove(w)
    BY DataStep DEF ImportInv
  <1>3. pc[w] # "idle" => task[w] # j
    BY <1>1 DEF ImportInv, CommitInv, OneDelivery, Holds
  <1>4. sidecar'[j] = sidecar[j] /\ task'[v] = j
    BY <1>1, <1>2, <1>3, MoverBusy DEF ImportInv, Untouched
  <1>5. \A k \in Rows[j] \cap Keys : event'[k] = event[k]
    BY <1>1, <1>2, HeldRows
  <1>6. \A k \in Keys : /\ event[k].owner = j => k \in Rows[j]
                        /\ event'[k].owner = j => k \in Rows[j]
    BY DEF ImportInv, EventRows
  <1>7. Written(v)' = Written(v)
    BY <1>1, <1>4, <1>5, <1>6 DEF Written
  <1>8. \A k \in Written(v) : Snapshots(j, k)' = Snapshots(j, k)
    BY <1>1, <1>4, <1>5, <1>6 DEF Written, Snapshots
  <1> QED
    BY <1>1, <1>4, <1>7, <1>8 DEF Taken

\* No delivery changes a plan, and a job's stage changes by its own delivery.
LEMMA PlanKept ==
    ASSUME TypeInv, NEW w \in Workers, DeliveryStep(w)
    PROVE  UNCHANGED plan /\ \A j \in Jobs : task[w] # j => stage'[j] = stage[j]
  <1>t. stage \in [Jobs -> Stages]
    BY DEF TypeInv, TypeOK
  <1>1. CASE Begin(w)
    BY <1>t, <1>1 DEF Begin
  <1>2. CASE Finalize(w)
    BY <1>t, <1>2 DEF Finalize
  <1>3. CASE OnSuccess(w)
    BY <1>t, <1>3 DEF OnSuccess
  <1>4. CASE MarkSheetFailed(w) \/ OnFailMark(w)
    BY <1>t, <1>4 DEF MarkSheetFailed, OnFailMark, WriteFailed
  <1>5. CASE Crash(w) \/ \E j \in Jobs : Deliver(w, j)
    BY <1>5 DEF Crash, Deliver
  <1>6. ASSUME Step(w), ~Begin(w), ~Finalize(w), ~OnSuccess(w), ~MarkSheetFailed(w), ~OnFailMark(w)
        PROVE  UNCHANGED <<plan, stage>>
    BY <1>6 DEF Step, AcquireLease, LeaseTimeout, Guard, RestoreLine, RestoreDone,
         DeleteFresh, CleanupThrows, Reserve, UpdateRow, InsertBatch, ReconcileConflict,
         StreamDone, MarkJobCompleted, Discard, Throw, Refund, ReleaseLease, TaskRetry, OnFail
  <1> QED
    BY <1>1, <1>2, <1>3, <1>4, <1>5, <1>6 DEF DeliveryStep

LEMMA CountingOther ==
    ASSUME ImportInv, ImportInv', NEW w \in Workers, DeliveryStep(w),
           NEW v \in Workers \ {w}, Untouched(v), Counting(v)
    PROVE  Counting(v)'
  <1>1. UNCHANGED plan /\ \A j \in Jobs : task[w] # j => stage'[j] = stage[j]
    BY PlanKept DEF ImportInv
  <1>2. ASSUME pc[v] # "idle" PROVE stage'[task[v]] = stage[task[v]]
    <2>1. task[v] \in Jobs /\ (pc[w] # "idle" => task[v] # task[w])
      BY <1>2 DEF ImportInv, TypeInv, TaskOK, CommitInv, OneDelivery
    <2>2. pc[w] = "idle" => UNCHANGED stage
      BY DEF DeliveryStep, Deliver, Step, AcquireLease, LeaseTimeout, Guard, Begin, RestoreLine,
         RestoreDone, DeleteFresh, CleanupThrows, Reserve, UpdateRow, InsertBatch,
         ReconcileConflict, StreamDone, MarkJobCompleted, Finalize, Discard, Throw, Refund,
         ReleaseLease, OnSuccess, TaskRetry, MarkSheetFailed, OnFail, OnFailMark, Crash
    <2> QED
      BY <1>1, <2>1, <2>2
  <1>3. ASSUME pc[v] \in {"stream", "complete", "finalize"}
        PROVE  Written(v)' = Written(v) /\ Taken(v)' = Taken(v)
    BY <1>3, WrittenKept DEF Holds
  <1>4. Updates(task[v])' = Updates(task[v])
    BY <1>1 DEF Updates, Untouched
  <1>5. pc'[v] = pc[v] /\ task'[v] = task[v] /\ loc'[v] = loc[v]
    BY DEF Untouched
  <1> QED
    BY <1>1, <1>2, <1>3, <1>4, <1>5 DEF Counting, Cleaning

\* A route writes no plan and no stage of a job that is being written.
LEMMA CountingRoute ==
    ASSUME TypeInv, NEW j \in Jobs, RouteStep(j), NEW v \in Workers, Counting(v)
    PROVE  Counting(v)'
  <1>1. UNCHANGED <<event, sidecar, pc, task, loc>>
    BY RouteData
  <1>2. /\ stage[j] # "create-events"
        /\ \A i \in Jobs \ {j} : stage'[i] = stage[i] /\ plan'[i] = plan[i]
    BY DEF RouteStep, AnalyzeDuplicates, RetryRoute, ResetRoute, ApproveRowErrors, TypeInv, TypeOK
  <1>3. ASSUME pc[v] \in {"reserve", "stream", "complete"} \/ Cleaning(v)
        PROVE  stage'[task[v]] = stage[task[v]] /\ plan'[task[v]] = plan[task[v]]
    BY <1>2, <1>3 DEF Counting, Cleaning, TypeInv, TaskOK
  <1>4. Written(v)' = Written(v) /\ Taken(v)' = Taken(v) /\ (Cleaning(v)' <=> Cleaning(v))
    BY <1>1 DEF Written, Taken, Snapshots, Cleaning
  <1>5. pc[v] = "stream" => Updates(task[v])' = Updates(task[v])
    BY <1>1, <1>3 DEF Updates
  <1> QED
    BY <1>1, <1>3, <1>4, <1>5 DEF Counting

---------------------------------------------------------------------------
(* A delivery counts what it writes *)

\* The stream takes the event of row k over, or leaves the events alone.
Took(w, k) ==
    /\ Written(w)' = Written(w) \cup {k} /\ Taken(w)' = Taken(w) \cup {k}
    /\ loc'[w].updated = loc[w].updated + 1

LeftAlone(w) ==
    /\ Written(w)' = Written(w) /\ Taken(w)' = Taken(w)
    /\ loc'[w].updated = loc[w].updated

\* A delivery that is about to reserve has nothing written.
LEMMA NothingWritten ==
    ASSUME CleanFailures, ImportInv, NEW w \in Workers, pc[w] = "reserve"
    PROVE  Written(w) = {} /\ Taken(w) = {}
  <1>1. PICK j \in Jobs : j = task[w]
    BY DEF ImportInv, TypeInv, TaskOK
  <1>2. ~Committed(j)
    BY <1>1 DEF ImportInv, CommitInv, NotYetCommitted, Undecided
  <1>3. ~Dirty(j)
    BY <1>1 DEF ImportInv, Tidy, CommitInv, OneDelivery
  <1> QED
    BY <1>1, <1>2, <1>3 DEF Dirty, Written, Taken

\* Capturing the event of a row leaves the snapshots of other rows alone.
LEMMA CaptureCounts ==
    ASSUME TypeInv, NEW w \in Workers, NEW j \in Jobs, j = task[w], task'[w] = j,
           NEW k \in Keys \ Written(w),
           sidecar' = [sidecar EXCEPT ![j] = Append(@, Shot(k, FALSE))],
           event' = [event EXCEPT ![k].owner = j] \/ UNCHANGED event
    PROVE  /\ event' = event => Written(w)' = Written(w) /\ Taken(w)' = Taken(w)
           /\ event' # event => Written(w)' = Written(w) \cup {k} /\ Taken(w)' = Taken(w) \cup {k}
  <1>t. event \in [Keys -> Event] /\ sidecar \in [Jobs -> Seq(Line)]
    BY DEF TypeInv, TypeOK
  <1> DEFINE n == Len(sidecar[j]) + 1
  <1>1. /\ DOMAIN sidecar'[j] = DOMAIN sidecar[j] \cup {n}
        /\ \A i \in DOMAIN sidecar[j] : sidecar'[j][i] = sidecar[j][i]
        /\ sidecar'[j][n] = Shot(k, FALSE)
    BY <1>t, AppendedLines
  <1> HIDE DEF n
  <1>2. \A i \in Keys : event'[i].id = event[i].id /\ (i # k => event'[i] = event[i])
    BY <1>t DEF Event
  <1>3. event' # event => event'[k].owner = j
    BY <1>t DEF Event
  <1>s. /\ sidecar'[j][n].key = k /\ sidecar'[j][n].id = event[k].id
        /\ sidecar'[j][n].owner = event[k].owner /\ ~sidecar'[j][n].torn
    BY <1>1 DEF Shot
  <1>4. ASSUME NEW i \in Written(w) PROVE Snapshots(j, i)' = Snapshots(j, i)
    <2>1. i # k /\ event'[i].id = event[i].id
      BY <1>2 DEF Written
    <2> QED
      BY <1>1, <1>s, <2>1 DEF Snapshots
  <1>5. n \in Snapshots(j, k)'
    <2>1. event[k].owner # j
      BY DEF Written
    <2> QED
      BY <1>1, <1>2, <1>s, <2>1 DEF Snapshots
  <1>6. CASE UNCHANGED event
    <2>1. Written(w)' = Written(w)
      BY <1>6 DEF Written
    <2> QED
      BY <1>4, <1>6, <2>1 DEF Taken
  <1>7. CASE event' # event
    <2>1. Written(w)' = Written(w) \cup {k}
      BY <1>2, <1>3, <1>7 DEF Written
    <2>2. Snapshots(j, k)' # {}
      BY <1>5
    <2>3. Taken(w)' = {i \in Written(w) \cup {k} : Snapshots(j, i)' # {}}
      BY <2>1 DEF Taken
    <2>4. Taken(w) = {i \in Written(w) : Snapshots(j, i) # {}}
      BY DEF Taken
    <2>5. Taken(w)' = Taken(w) \cup {k}
      BY <1>4, <2>2, <2>3, <2>4
    <2> QED
      BY <1>7, <2>1, <2>5
  <1> QED
    BY <1>6, <1>7

\* A row that is written over an event.
LEMMA OverwriteCounts ==
    ASSUME TypeInv, LocalInv, NEW w \in Workers, pc[w] = "stream",
           NEW k \in loc[w].todo \cup loc[w].conflict, k \notin Written(w),
           NEW rest \in Locals, rest.captured = loc[w].captured,
           rest.updated = loc[w].updated, OverwriteEvent(w, k, rest), UNCHANGED task
    PROVE  /\ LeftAlone(w) \/ Took(w, k)
           /\ loc'[w].reserved = rest.reserved /\ loc'[w].tracked = rest.tracked
           /\ loc'[w].todo = rest.todo /\ loc'[w].conflict = rest.conflict
  <1>t. /\ event \in [Keys -> Event] /\ loc \in [Workers -> Locals] /\ loc[w] \in Locals
        /\ k \in Keys
    BY DEF TypeInv, TypeOK, Locals
  <1>1. PICK j \in Jobs : j = task[w]
    BY DEF TypeInv, TaskOK
  <1>2. k \notin loc[w].captured
    BY DEF LocalInv, FirstTouch
  <1>3. Capture(w, k)
    BY DEF OverwriteEvent
  <1>4. sidecar' = [sidecar EXCEPT ![j] = Append(@, Shot(k, FALSE))]
    BY <1>1, <1>2, <1>3 DEF Capture, Shot
  <1>5. CASE /\ event' = [event EXCEPT ![k].owner = task[w]]
             /\ SetLocals(w, [rest EXCEPT !.captured = @ \cup {k}, !.updated = @ + 1])
    <2>1. loc'[w] = [rest EXCEPT !.captured = @ \cup {k}, !.updated = @ + 1]
      BY <1>t, <1>5 DEF SetLocals
    <2>2. /\ loc'[w].reserved = rest.reserved /\ loc'[w].tracked = rest.tracked
          /\ loc'[w].todo = rest.todo /\ loc'[w].conflict = rest.conflict
          /\ loc'[w].updated = loc[w].updated + 1
      BY <2>1 DEF Locals
    <2>3. event' # event
      <3>1. event'[k].owner = j
        BY <1>t, <1>1, <1>5 DEF Event
      <3> QED
        BY <1>t, <1>1, <3>1 DEF Written
    <2>4. event' = [event EXCEPT ![k].owner = j]
      BY <1>1, <1>5
    <2>5. Written(w)' = Written(w) \cup {k} /\ Taken(w)' = Taken(w) \cup {k}
      BY <1>t, <1>1, <1>4, <2>3, <2>4, CaptureCounts
    <2> QED
      BY <2>2, <2>5 DEF Took
  <1>6. CASE /\ UNCHANGED event
             /\ SetLocals(w, [rest EXCEPT !.captured = @ \cup {k}, !.errs = TRUE])
    <2>1. loc'[w] = [rest EXCEPT !.captured = @ \cup {k}, !.errs = TRUE]
      BY <1>t, <1>6 DEF SetLocals
    <2>2. /\ loc'[w].reserved = rest.reserved /\ loc'[w].tracked = rest.tracked
          /\ loc'[w].todo = rest.todo /\ loc'[w].conflict = rest.conflict
          /\ loc'[w].updated = loc[w].updated
      BY <2>1 DEF Locals
    <2>3. Written(w)' = Written(w) /\ Taken(w)' = Taken(w)
      BY <1>t, <1>1, <1>4, <1>6, CaptureCounts
    <2> QED
      BY <2>2, <2>3 DEF LeftAlone
  <1> QED
    BY <1>5, <1>6 DEF OverwriteEvent

\* A row of the stream that is done keeps the count.
LEMMA RowCounts ==
    ASSUME TypeInv, NEW w \in Workers, pc[w] = "stream", UNCHANGED <<pc, task, plan, stage>>,
           Counting(w), NEW k \in Keys \ Written(w),
           LeftAlone(w) \/ (Took(w, k) /\ k \notin loc'[w].todo \cup loc'[w].conflict),
           loc'[w].reserved = loc[w].reserved, loc'[w].tracked = loc[w].tracked,
           loc'[w].todo \subseteq loc[w].todo, loc'[w].conflict \subseteq loc[w].conflict
    PROVE  Counting(w)'
  <1>1. Updates(task[w])' = Updates(task[w])
    BY DEF Updates
  <1>2. /\ Written(w)' \in {Written(w), Written(w) \cup {k}}
        /\ Written(w)' \ Taken(w)' \subseteq Written(w) \ Taken(w)
    BY DEF LeftAlone, Took
  <1>3. loc'[w].updated = Cardinality(Taken(w)')
    <2>1. CASE LeftAlone(w)
      BY <2>1 DEF LeftAlone, Counting
    <2>2. CASE Took(w, k)
      <3>1. Taken(w) \in SUBSET Keys /\ k \notin Taken(w)
        BY DEF Taken, Written
      <3>2. IsFiniteSet(Taken(w))
        BY <3>1, EventImportAssumption, FS_Subset DEF EventImportAssumption
      <3>3. Cardinality(Taken(w) \cup {k}) = Cardinality(Taken(w)) + 1
        BY <3>1, <3>2, FS_AddElement
      <3> QED
        BY <2>2, <3>3 DEF Took, Counting
    <2> QED
      BY <2>1, <2>2
  <1>4. (loc'[w].todo \cup loc'[w].conflict) \cap Written(w)' = {}
    BY DEF LeftAlone, Took, Counting
  <1>5. loc'[w].todo \ Updates(task[w])' \subseteq plan'[task'[w]].insert
    BY <1>1 DEF Counting
  <1>6. /\ stage'[task'[w]] = "create-events" /\ loc'[w].tracked = -1
        /\ loc'[w].reserved = Cardinality(plan'[task'[w]].insert)
        /\ Written(w)' \ Taken(w)' \subseteq plan'[task'[w]].insert
    BY <1>2 DEF Counting
  <1> QED
    BY <1>3, <1>4, <1>5, <1>6 DEF Counting, Cleaning

LEMMA UpdateCounts ==
    ASSUME ImportInv, NEW w \in Workers, Counting(w), UpdateRow(w)
    PROVE  Counting(w)'
  <1>i. TypeInv /\ LocalInv
    BY DEF ImportInv
  <1>t. loc \in [Workers -> Locals] /\ loc[w] \in Locals
    BY <1>i DEF TypeInv, TypeOK
  <1>1. pc[w] = "stream" /\ UNCHANGED <<pc, task, plan, stage>>
    BY DEF UpdateRow
  <1>2. PICK k \in loc[w].todo :
          LET rest == [loc[w] EXCEPT !.todo = @ \ {k}]
          IN  \/ OverwriteEvent(w, k, rest)
              \/ SetLocals(w, [rest EXCEPT !.errs = TRUE]) /\ UNCHANGED <<event, sidecar>>
    BY DEF UpdateRow
  <1>3. k \in Keys \ Written(w) /\ k \notin loc[w].conflict
    BY <1>i, <1>t, <1>1 DEF Counting, LocalInv, FirstTouch, Locals
  <1> DEFINE rest == [loc[w] EXCEPT !.todo = @ \ {k}]
  <1>4. /\ rest \in Locals /\ rest.captured = loc[w].captured /\ rest.updated = loc[w].updated
        /\ rest.reserved = loc[w].reserved /\ rest.tracked = loc[w].tracked
        /\ rest.todo = loc[w].todo \ {k} /\ rest.conflict = loc[w].conflict
    BY <1>t, LocalsTodo DEF Locals
  <1>5. \/ OverwriteEvent(w, k, rest)
        \/ SetLocals(w, [rest EXCEPT !.errs = TRUE]) /\ UNCHANGED <<event, sidecar>>
    BY <1>2
  <1> HIDE DEF rest
  <1>6. CASE OverwriteEvent(w, k, rest)
    <2>1. /\ LeftAlone(w) \/ Took(w, k)
          /\ loc'[w].reserved = rest.reserved /\ loc'[w].tracked = rest.tracked
          /\ loc'[w].todo = rest.todo /\ loc'[w].conflict = rest.conflict
      BY <1>i, <1>1, <1>3, <1>4, <1>6, OverwriteCounts
    <2> QED
      BY <1>i, <1>1, <1>3, <1>4, <2>1, RowCounts
  <1>7. CASE SetLocals(w, [rest EXCEPT !.errs = TRUE]) /\ UNCHANGED <<event, sidecar>>
    <2>1. loc'[w] = [rest EXCEPT !.errs = TRUE]
      BY <1>t, <1>7 DEF SetLocals
    <2>2. /\ loc'[w].reserved = rest.reserved /\ loc'[w].tracked = rest.tracked
          /\ loc'[w].todo = rest.todo /\ loc'[w].conflict = rest.conflict
          /\ loc'[w].updated = rest.updated
      BY <1>4, <2>1 DEF Locals
    <2>3. LeftAlone(w)
      BY <1>1, <1>4, <1>7, <2>2 DEF LeftAlone, Written, Taken, Snapshots
    <2> QED
      BY <1>i, <1>1, <1>3, <1>4, <2>2, <2>3, RowCounts
  <1> QED
    BY <1>5, <1>6, <1>7

LEMMA ReconcileCounts ==
    ASSUME ImportInv, NEW w \in Workers, Counting(w), ReconcileConflict(w)
    PROVE  Counting(w)'
  <1>i. TypeInv /\ LocalInv
    BY DEF ImportInv
  <1>t. loc \in [Workers -> Locals] /\ loc[w] \in Locals
    BY <1>i DEF TypeInv, TypeOK
  <1>1. pc[w] = "stream" /\ UNCHANGED <<pc, task, plan, stage>>
    BY DEF ReconcileConflict
  <1>2. PICK k \in loc[w].conflict :
          LET rest == [loc[w] EXCEPT !.conflict = @ \ {k}]
          IN  \/ OverwriteEvent(w, k, rest)
              \/ SetLocals(w, rest) /\ UNCHANGED <<event, sidecar>>
    BY DEF ReconcileConflict
  <1>3. k \in Keys \ Written(w) /\ k \notin loc[w].todo
    BY <1>i, <1>t, <1>1 DEF Counting, LocalInv, FirstTouch, Locals
  <1> DEFINE rest == [loc[w] EXCEPT !.conflict = @ \ {k}]
  <1>4. /\ rest \in Locals /\ rest.captured = loc[w].captured /\ rest.updated = loc[w].updated
        /\ rest.reserved = loc[w].reserved /\ rest.tracked = loc[w].tracked
        /\ rest.conflict = loc[w].conflict \ {k} /\ rest.todo = loc[w].todo
    BY <1>t, LocalsConflict DEF Locals
  <1>5. \/ OverwriteEvent(w, k, rest)
        \/ SetLocals(w, rest) /\ UNCHANGED <<event, sidecar>>
    BY <1>2
  <1> HIDE DEF rest
  <1>6. CASE OverwriteEvent(w, k, rest)
    <2>1. /\ LeftAlone(w) \/ Took(w, k)
          /\ loc'[w].reserved = rest.reserved /\ loc'[w].tracked = rest.tracked
          /\ loc'[w].todo = rest.todo /\ loc'[w].conflict = rest.conflict
      BY <1>i, <1>1, <1>3, <1>4, <1>6, OverwriteCounts
    <2> QED
      BY <1>i, <1>1, <1>3, <1>4, <2>1, RowCounts
  <1>7. CASE SetLocals(w, rest) /\ UNCHANGED <<event, sidecar>>
    <2>1. loc'[w] = rest
      BY <1>t, <1>7 DEF SetLocals
    <2>2. LeftAlone(w)
      BY <1>1, <1>4, <1>7, <2>1 DEF LeftAlone, Written, Taken, Snapshots
    <2> QED
      BY <1>i, <1>1, <1>3, <1>4, <2>1, <2>2, RowCounts
  <1> QED
    BY <1>5, <1>6, <1>7

\* What a batch inserts was planned as new, and was not there before.
LEMMA InsertCounts ==
    ASSUME ImportInv, NEW w \in Workers, Counting(w), InsertBatch(w)
    PROVE  Counting(w)'
  <1>i. TypeInv /\ LocalInv /\ LineRows
    BY DEF ImportInv
  <1>t. /\ loc \in [Workers -> Locals] /\ loc[w] \in Locals /\ event \in [Keys -> Event]
        /\ NoJob \notin Jobs
    BY <1>i, EventImportAssumption DEF TypeInv, TypeOK, EventImportAssumption
  <1>1. pc[w] = "stream" /\ UNCHANGED <<pc, task, plan, stage, sidecar>>
    BY DEF InsertBatch
  <1>j. PICK j \in Jobs : j = task[w]
    BY <1>i, <1>1 DEF TypeInv, TaskOK
  <1>2. PICK batch \in SUBSET (loc[w].todo \ Updates(j)) :
          LET lost == {k \in batch : Present(k)} IN
          \/ /\ event' = [k \in Keys |-> IF k \in batch \ lost
                             THEN [owner |-> j, born |-> j, id |-> event[k].id + 1]
                             ELSE event[k]]
             /\ SetLocals(w, [loc[w] EXCEPT
                   !.todo = @ \ batch,
                   !.conflict = IF j \in UpdateJobs THEN @ \cup lost ELSE @])
          \/ /\ SetLocals(w, [loc[w] EXCEPT !.todo = @ \ batch, !.errs = TRUE])
             /\ UNCHANGED event
    BY <1>j DEF InsertBatch
  <1> DEFINE lost == {k \in batch : Present(k)}
             new == batch \ lost
  <1>3. /\ new \subseteq loc[w].todo /\ new \subseteq plan[j].insert /\ new \subseteq Keys
        /\ new \cap Written(w) = {} /\ new \cap loc[w].conflict = {}
        /\ lost \subseteq loc[w].todo /\ new \cap lost = {}
        /\ \A k \in new : event[k].owner = NoJob
    BY <1>i, <1>t, <1>1, <1>j DEF Counting, LocalInv, FirstTouch, Locals, Present
  <1>4. CASE /\ event' = [k \in Keys |-> IF k \in new
                             THEN [owner |-> j, born |-> j, id |-> event[k].id + 1]
                             ELSE event[k]]
             /\ SetLocals(w, [loc[w] EXCEPT
                   !.todo = @ \ batch,
                   !.conflict = IF j \in UpdateJobs THEN @ \cup lost ELSE @])
    <2>1. /\ loc'[w].todo = loc[w].todo \ batch /\ loc'[w].updated = loc[w].updated
          /\ loc'[w].reserved = loc[w].reserved /\ loc'[w].tracked = loc[w].tracked
          /\ loc'[w].conflict \subseteq loc[w].conflict \cup lost
      <3> DEFINE c == IF j \in UpdateJobs THEN loc[w].conflict \cup lost ELSE loc[w].conflict
      <3>1. loc'[w] = [loc[w] EXCEPT !.todo = @ \ batch, !.conflict = c]
        BY <1>t, <1>4 DEF SetLocals
      <3>2. c \subseteq loc[w].conflict \cup lost
        OBVIOUS
      <3> HIDE DEF c, lost
      <3> QED
        BY <1>t, <3>1, <3>2 DEF Locals
    <2>2. new \cap batch = new
      OBVIOUS
    <2> HIDE DEF new, lost
    <2>3. /\ \A k \in new : event'[k].owner = j /\ event'[k].id = event[k].id + 1
          /\ \A k \in Keys \ new : event'[k] = event[k]
      BY <1>3, <1>4
    <2>4. Written(w)' = Written(w) \cup new
      BY <1>1, <1>3, <1>j, <2>3 DEF Written
    <2>5. ASSUME NEW k \in new PROVE Snapshots(j, k)' = {}
      <3>1. \A i \in DOMAIN sidecar[j] :
              sidecar[j][i].key = k => sidecar[j][i].id \in Nat /\ sidecar[j][i].id <= event[k].id
        BY <1>i, LineTyped DEF LineRows, LineRow, Line
      <3>2. event[k].id \in Nat /\ event'[k].id = event[k].id + 1
        BY <1>t, <1>3, <2>3, <2>5 DEF Event
      <3>3. \A i \in DOMAIN sidecar'[j] : sidecar'[j][i].key = k => sidecar'[j][i].id # event'[k].id
        BY <1>1, <3>1, <3>2
      <3> QED
        BY <3>3 DEF Snapshots
    <2>6. ASSUME NEW k \in Written(w) PROVE Snapshots(j, k)' = Snapshots(j, k)
      BY <1>1, <1>3, <2>3, <2>6 DEF Written, Snapshots
    <2>7. Taken(w)' = Taken(w)
      <3>1. Taken(w)' = {k \in Written(w) \cup new : Snapshots(j, k)' # {}}
        BY <1>1, <1>j, <2>4 DEF Taken
      <3>2. Taken(w) = {k \in Written(w) : Snapshots(j, k) # {}}
        BY <1>j DEF Taken
      <3> QED
        BY <2>5, <2>6, <3>1, <3>2
    <2>8. Updates(task[w])' = Updates(task[w])
      BY <1>1 DEF Updates
    <2>9. /\ Written(w)' \ Taken(w)' \subseteq plan'[task'[w]].insert
          /\ loc'[w].todo \ Updates(task[w])' \subseteq plan'[task'[w]].insert
      BY <1>1, <1>3, <1>j, <2>1, <2>4, <2>7, <2>8 DEF Counting
    <2>10. (loc'[w].todo \cup loc'[w].conflict) \cap Written(w)' = {}
      BY <1>1, <1>3, <2>1, <2>2, <2>4 DEF Counting
    <2>11. /\ stage'[task'[w]] = "create-events" /\ loc'[w].tracked = -1
           /\ loc'[w].reserved = Cardinality(plan'[task'[w]].insert)
           /\ loc'[w].updated = Cardinality(Taken(w)')
      BY <1>1, <2>1, <2>7 DEF Counting
    <2> QED
      BY <1>1, <2>8, <2>9, <2>10, <2>11 DEF Counting, Cleaning
  <1>5. CASE /\ SetLocals(w, [loc[w] EXCEPT !.todo = @ \ batch, !.errs = TRUE])
             /\ UNCHANGED event
    <2>1. /\ loc'[w].todo = loc[w].todo \ batch /\ loc'[w].updated = loc[w].updated
          /\ loc'[w].reserved = loc[w].reserved /\ loc'[w].tracked = loc[w].tracked
          /\ loc'[w].conflict = loc[w].conflict
      <3>1. loc'[w] = [loc[w] EXCEPT !.todo = @ \ batch, !.errs = TRUE]
        BY <1>t, <1>5 DEF SetLocals
      <3> QED
        BY <1>t, <3>1 DEF Locals
    <2>2. Written(w)' = Written(w) /\ Taken(w)' = Taken(w)
      BY <1>1, <1>5 DEF Written, Taken, Snapshots
    <2>3. Updates(task[w])' = Updates(task[w])
      BY <1>1 DEF Updates
    <2> QED
      BY <1>1, <2>1, <2>2, <2>3 DEF Counting, Cleaning
  <1> QED
    BY <1>2, <1>4, <1>5

\* A delivery that begins, or is over.
LEMMA NewCounts ==
    ASSUME TypeInv, NEW w \in Workers, pc'[w] \in {"idle", "acquire"},
           loc'[w] \in {NewLocals, [NewLocals EXCEPT !.phase = "onFail"]}
    PROVE  Counting(w)'
  <1>1. loc'[w].reserved = 0 /\ loc'[w].tracked = -1 /\ loc'[w].updated = 0
    BY DEF NewLocals
  <1> QED
    BY <1>1 DEF Counting, Cleaning

\* The catch begins.
LEMMA CatchCounts ==
    ASSUME TypeInv, NEW w \in Workers, EnterCatch(w)
    PROVE  /\ Counting(w)' /\ pc'[w] = "restore" /\ loc'[w].phase = "catch"
           /\ loc'[w].reserved = loc[w].reserved /\ loc'[w].tracked = loc[w].tracked
  <1>1. /\ loc'[w] = [loc[w] EXCEPT !.phase = "catch", !.cursor = 1, !.failures = FALSE]
        /\ loc[w] \in Locals /\ pc'[w] = "restore"
    BY DEF EnterCatch, SetLocals, Goto, TypeInv, TypeOK
  <1>2. /\ loc'[w].phase = "catch"
        /\ loc'[w].reserved = loc[w].reserved /\ loc'[w].tracked = loc[w].tracked
    BY <1>1 DEF Locals
  <1> QED
    BY <1>1, <1>2 DEF Counting, Cleaning

LEMMA ReserveCounts ==
    ASSUME CleanFailures, ImportInv, NEW w \in Workers, Counting(w), Reserve(w), ~EnterCatch(w)
    PROVE  /\ Counting(w)' /\ pc'[w] = "stream" /\ loc'[w].tracked = -1
           /\ loc'[w].reserved = Cardinality(plan[task[w]].insert)
           /\ usage' = usage + Cardinality(plan[task[w]].insert)
  <1>t. loc \in [Workers -> Locals] /\ loc[w] \in Locals /\ pc \in [Workers -> PCs]
    BY DEF ImportInv, TypeInv, TypeOK
  <1> DEFINE n == Cardinality(plan[task[w]].insert)
             rows == plan[task[w]].insert \cup Updates(task[w])
  <1>1. /\ loc'[w] = [loc[w] EXCEPT !.reserved = n, !.todo = rows]
        /\ pc[w] = "reserve" /\ pc'[w] = "stream" /\ usage' = usage + n
        /\ UNCHANGED <<event, sidecar, stage, plan, task>>
    BY <1>t DEF Reserve, SetLocals, Goto
  <1> HIDE DEF n, rows
  <1>2. /\ loc'[w].reserved = n /\ loc'[w].todo = rows /\ loc'[w].tracked = loc[w].tracked
        /\ loc'[w].updated = loc[w].updated /\ loc'[w].conflict = loc[w].conflict
    BY <1>t, <1>1 DEF Locals
  <1>3. Written(w) = {} /\ Taken(w) = {}
    BY <1>1, NothingWritten
  <1>4. Written(w)' = {} /\ Taken(w)' = {} /\ Updates(task[w])' = Updates(task[w])
    BY <1>1, <1>3 DEF Written, Taken, Snapshots, Updates
  <1>5. /\ loc'[w].tracked = -1 /\ loc'[w].updated = 0 /\ stage'[task'[w]] = "create-events"
    BY <1>1, <1>2 DEF Counting
  <1>6. Cardinality({}) = 0
    BY FS_EmptySet
  <1>7. rows \ Updates(task[w]) \subseteq plan[task[w]].insert
    BY DEF rows
  <1> QED
    BY <1>1, <1>2, <1>4, <1>5, <1>6, <1>7 DEF Counting, Cleaning, n

\* What the delivery counts as new is what it has written and not taken over.
LEMMA CompletedCounts ==
    ASSUME TypeInv, NEW w \in Workers, Counting(w), MarkJobCompleted(w)
    PROVE  /\ Counting(w)' /\ pc'[w] = "finalize"
           /\ loc'[w].tracked = Cardinality(Written(w) \ Taken(w))
           /\ loc'[w].tracked <= loc[w].reserved
           /\ usage' = Reconciled(loc[w].reserved, loc'[w].tracked)
  <1>t. loc \in [Workers -> Locals] /\ loc[w] \in Locals /\ pc \in [Workers -> PCs]
    BY DEF TypeInv, TypeOK
  <1> DEFINE n == NewEvents(w)
  <1>1. /\ loc'[w] = [loc[w] EXCEPT !.tracked = n]
        /\ pc[w] = "complete" /\ pc'[w] = "finalize"
        /\ usage' = Reconciled(loc[w].reserved, n)
        /\ UNCHANGED <<event, sidecar, stage, plan, task>>
    BY <1>t DEF MarkJobCompleted, SetLocals, Goto
  <1>2. n = Cardinality(Written(w) \ Taken(w))
    <2>1. /\ Written(w) \in SUBSET Keys /\ Taken(w) \in SUBSET Written(w)
          /\ IsFiniteSet(Written(w))
      <3>1. Written(w) \in SUBSET Keys /\ Taken(w) \in SUBSET Written(w)
        BY DEF Written, Taken
      <3> QED
        BY <3>1, EventImportAssumption, FS_Subset DEF EventImportAssumption
    <2>2. Written(w) \cap Taken(w) = Taken(w)
      BY <2>1
    <2>3. /\ IsFiniteSet(Written(w) \ Taken(w))
          /\ Cardinality(Written(w) \ Taken(w)) =
               Cardinality(Written(w)) - Cardinality(Written(w) \cap Taken(w))
      BY <2>1, FS_Difference
    <2>4. /\ Cardinality(Written(w) \ Taken(w)) \in Nat /\ Cardinality(Written(w)) \in Nat
          /\ Cardinality(Taken(w)) \in Nat
      BY <2>1, <2>3, FS_CardinalityType, FS_Subset
    <2>5. NewEvents(w) = IF Cardinality(Written(w)) > loc[w].updated
                         THEN Cardinality(Written(w)) - loc[w].updated ELSE 0
      BY DEF NewEvents, Written
    <2>6. loc[w].updated = Cardinality(Taken(w))
      BY <1>1 DEF Counting
    <2>7. Cardinality(Written(w) \ Taken(w)) = Cardinality(Written(w)) - Cardinality(Taken(w))
      BY <2>2, <2>3
    <2> QED
      BY <2>4, <2>5, <2>6, <2>7
  <1> HIDE DEF n
  <1>3. /\ n \in Nat /\ n <= loc[w].reserved
    <2>1. /\ plan[task[w]].insert \in SUBSET Keys
          /\ Written(w) \ Taken(w) \in SUBSET plan[task[w]].insert
          /\ loc[w].reserved = Cardinality(plan[task[w]].insert)
      BY <1>1 DEF Counting, TypeInv, TypeOK, TaskOK
    <2>2. IsFiniteSet(plan[task[w]].insert)
      BY <2>1, EventImportAssumption, FS_Subset DEF EventImportAssumption
    <2> QED
      BY <1>2, <2>1, <2>2, FS_Subset, FS_CardinalityType
  <1>4. loc'[w].tracked = n
    BY <1>t, <1>1 DEF Locals
  <1>5. Written(w)' = Written(w) /\ Taken(w)' = Taken(w)
    BY <1>1 DEF Written, Taken, Snapshots
  <1> QED
    BY <1>1, <1>2, <1>3, <1>4, <1>5 DEF Counting, Cleaning

LEMMA CountingSelf ==
    ASSUME Accountable, ImportInv, NEW w \in Workers, Counting(w), DeliveryStep(w)
    PROVE  Counting(w)'
  <1>i. TypeInv /\ LocalInv
    BY DEF ImportInv
  <1>t. loc \in [Workers -> Locals] /\ loc[w] \in Locals /\ pc \in [Workers -> PCs]
    BY <1>i DEF TypeInv, TypeOK
  <1>f. "crash" \notin Faults /\ "cleanupFail" \notin Faults
    BY DEF Accountable, CleanFailures
  <1>1. CASE \E j \in Jobs : Deliver(w, j)
    <2>1. loc'[w] = NewLocals /\ pc'[w] = "acquire"
      BY <1>t, <1>1 DEF Deliver, SetLocals, Goto
    <2> QED
      BY <1>i, <2>1, NewCounts
  <1>2. CASE OnSuccess(w) \/ TaskRetry(w) \/ MarkSheetFailed(w) \/ OnFailMark(w)
    <2>1. Finish(w)
      BY <1>2 DEF OnSuccess, TaskRetry, MarkSheetFailed, OnFailMark, WriteFailed
    <2>2. loc'[w] = NewLocals /\ pc'[w] = "idle"
      BY <1>t, <2>1 DEF Finish, SetLocals, Goto
    <2> QED
      BY <1>i, <2>2, NewCounts
  <1>3. CASE OnFail(w)
    <2>1. loc'[w] = [NewLocals EXCEPT !.phase = "onFail"] /\ pc'[w] = "acquire"
      BY <1>3, <1>t DEF OnFail, SetLocals, Goto
    <2> QED
      BY <1>i, <2>1, NewCounts
  <1>4. CASE AcquireLease(w) \/ LeaseTimeout(w)
    <2>1. /\ pc[w] = "acquire" /\ loc' = loc
          /\ pc'[w] \in {"guard", "threw", "markFailed"}
             \/ (pc'[w] = "restore" /\ loc[w].phase = "onFail")
      BY <1>4, <1>t DEF AcquireLease, LeaseTimeout, Goto
    <2> QED
      BY <2>1 DEF Counting, Cleaning
  <1>5. CASE Guard(w)
    <2>1. CASE stage[task[w]] = "completed"
      <3>1. pc'[w] = "release"
        BY <1>5, <1>t, <2>1 DEF Guard, Goto
      <3> QED
        BY <3>1 DEF Counting, Cleaning
    <2>2. CASE stage[task[w]] # "completed"
      <3>1. pc[w] = "guard" /\ pc'[w] = "begin" /\ loc' = loc
        BY <1>5, <1>t, <2>2 DEF Guard, Goto
      <3> QED
        BY <3>1 DEF Counting, Cleaning
    <2> QED
      BY <2>1, <2>2
  <1>6. CASE Begin(w)
    <2>1. CASE stage[task[w]] = "completed"
      BY <1>i, <1>6, <2>1, CatchCounts DEF Begin
    <2>2. CASE stage[task[w]] # "completed"
      <3>1. /\ pc[w] = "begin" /\ pc'[w] = "restore" /\ loc' = loc /\ task' = task
            /\ stage'[task[w]] = "create-events"
        BY <1>6, <1>i, <1>t, <2>2 DEF Begin, Goto, TypeInv, TypeOK, TaskOK
      <3> QED
        BY <3>1 DEF Counting, Cleaning
    <2> QED
      BY <2>1, <2>2
  <1>7. CASE RestoreLine(w)
    <2>1. /\ pc[w] = "restore" /\ UNCHANGED <<pc, task, stage>>
          /\ \/ loc'[w] = [loc[w] EXCEPT !.cursor = @ + 1]
             \/ loc'[w] = [loc[w] EXCEPT !.cursor = @ + 1, !.failures = TRUE]
      BY <1>7, <1>t DEF RestoreLine, SetLocals
    <2>2. /\ loc'[w].phase = loc[w].phase /\ loc'[w].reserved = loc[w].reserved
          /\ loc'[w].tracked = loc[w].tracked /\ loc'[w].updated = loc[w].updated
      BY <1>t, <2>1 DEF Locals
    <2> QED
      BY <2>1, <2>2 DEF Counting, Cleaning
  <1>8. CASE RestoreDone(w) \/ DeleteFresh(w)
    <2>1. /\ pc[w] \in {"restore", "delete"} /\ pc'[w] \in {"delete", AfterCleanup(w)}
          /\ UNCHANGED <<task, loc, stage>>
      BY <1>8, <1>t DEF RestoreDone, DeleteFresh, Goto
    <2>2. /\ AfterCleanup(w) \in {"reserve", "refund", "release"}
          /\ AfterCleanup(w) = "reserve" => loc[w].phase = "start"
          /\ AfterCleanup(w) = "refund" => loc[w].phase = "catch"
      BY <1>t DEF AfterCleanup, Locals
    <2> QED
      BY <2>1, <2>2 DEF Counting, Cleaning
  <1>9. CASE Reserve(w)
    BY <1>9, <1>i, ReserveCounts, CatchCounts DEF Accountable
  <1>10. CASE UpdateRow(w) \/ InsertBatch(w) \/ ReconcileConflict(w)
    BY <1>10, UpdateCounts, InsertCounts, ReconcileCounts
  <1>11. CASE StreamDone(w)
    <2>1. /\ pc[w] = "stream" /\ pc'[w] = "complete"
          /\ UNCHANGED <<event, sidecar, stage, plan, task, loc>>
      BY <1>11, <1>t DEF StreamDone, Goto
    <2>2. Written(w)' = Written(w) /\ Taken(w)' = Taken(w)
      BY <2>1 DEF Written, Taken, Snapshots
    <2> QED
      BY <2>1, <2>2 DEF Counting, Cleaning
  <1>12. CASE MarkJobCompleted(w)
    BY <1>12, <1>i, CompletedCounts
  <1>13. CASE Finalize(w) \/ Discard(w) \/ Refund(w) \/ ReleaseLease(w)
    <2>1. pc'[w] \in {"discard", "release", "returned", "markFailed", "threw"}
      BY <1>13, <1>t DEF Finalize, Discard, Refund, ReleaseLease, Goto
    <2> QED
      BY <2>1 DEF Counting, Cleaning
  <1>14. CASE Throw(w)
    BY <1>14, <1>i, CatchCounts DEF Throw
  <1>15. ~CleanupThrows(w) /\ ~Crash(w)
    BY <1>f DEF CleanupThrows, Crash
  <1> QED
    BY <1>1, <1>2, <1>3, <1>4, <1>5, <1>6, <1>7, <1>8, <1>9, <1>10, <1>11, <1>12, <1>13,
       <1>14, <1>15 DEF DeliveryStep, Step

---------------------------------------------------------------------------
(* The counter *)

\* The catch owes what the delivery owed.
LEMMA CatchDue ==
    ASSUME TypeInv, NEW w \in Workers, Counting(w), EnterCatch(w),
           pc[w] \in {"guard", "begin", "reserve", "stream", "complete", "finalize"}
    PROVE  Due(w)' = Due(w)
  <1>1. /\ pc'[w] = "restore" /\ loc'[w].phase = "catch"
        /\ loc'[w].reserved = loc[w].reserved /\ loc'[w].tracked = loc[w].tracked
    BY CatchCounts
  <1>2. Owes(w)'
    BY <1>1 DEF Owes
  <1>3. CASE pc[w] \in {"stream", "complete", "finalize"}
    BY <1>1, <1>2, <1>3 DEF Due, Owes
  <1>4. CASE pc[w] \in {"guard", "begin", "reserve"}
    <2>1. loc[w].reserved = 0 /\ loc[w].tracked = -1
      BY <1>4 DEF Counting
    <2>2. ~Owes(w)
      BY <1>4 DEF Owes
    <2> QED
      BY <1>1, <1>2, <2>1, <2>2 DEF Due
  <1> QED
    BY <1>3, <1>4

\* Of the steps of a delivery four settle accounts.
LEMMA DueKept ==
    ASSUME Accountable, ImportInv, NEW w \in Workers, Counting(w), DeliveryStep(w),
           Reserve(w) => EnterCatch(w), ~MarkJobCompleted(w), ~Finalize(w), ~Refund(w)
    PROVE  usage' = usage /\ Due(w)' = Due(w)
  <1>i. TypeInv /\ LocalInv
    BY DEF ImportInv
  <1>t. loc \in [Workers -> Locals] /\ loc[w] \in Locals /\ pc \in [Workers -> PCs]
    BY <1>i DEF TypeInv, TypeOK
  <1>f. ~CleanupThrows(w) /\ ~Crash(w)
    BY DEF Accountable, CleanFailures, CleanupThrows, Crash
  <1>q. ASSUME ~Owes(w), ~Owes(w)' PROVE Due(w)' = Due(w)
    BY <1>q DEF Due
  <1>1. CASE \E j \in Jobs : Deliver(w, j)
    <2>1. pc[w] = "idle" /\ pc'[w] = "acquire" /\ usage' = usage
      BY <1>t, <1>1 DEF Deliver, Goto
    <2> QED
      BY <1>q, <2>1 DEF Owes
  <1>2. CASE OnSuccess(w) \/ TaskRetry(w) \/ MarkSheetFailed(w) \/ OnFailMark(w)
    <2>1. Finish(w) /\ pc[w] \in {"returned", "threw", "markFailed"} /\ usage' = usage
      BY <1>2 DEF OnSuccess, TaskRetry, MarkSheetFailed, OnFailMark, WriteFailed
    <2>2. pc'[w] = "idle"
      BY <1>t, <2>1 DEF Finish, Goto
    <2> QED
      BY <1>q, <2>1, <2>2 DEF Owes
  <1>3. CASE OnFail(w)
    <2>1. pc[w] = "threw" /\ pc'[w] = "acquire" /\ usage' = usage
      BY <1>3, <1>t DEF OnFail, Goto
    <2> QED
      BY <1>q, <2>1 DEF Owes
  <1>4. CASE AcquireLease(w) \/ LeaseTimeout(w)
    <2>1. /\ pc[w] = "acquire" /\ loc' = loc /\ usage' = usage
          /\ pc'[w] \in {"guard", "threw", "markFailed"}
             \/ (pc'[w] = "restore" /\ loc[w].phase = "onFail")
      BY <1>4, <1>t DEF AcquireLease, LeaseTimeout, Goto
    <2> QED
      BY <1>q, <2>1 DEF Owes
  <1>5. CASE Guard(w)
    <2>1. pc[w] = "guard" /\ pc'[w] \in {"release", "begin"} /\ usage' = usage
      BY <1>5, <1>t DEF Guard, Goto
    <2> QED
      BY <1>q, <2>1 DEF Owes
  <1>6. CASE Begin(w)
    <2>1. CASE EnterCatch(w)
      BY <1>i, <1>6, <2>1, CatchDue DEF Begin
    <2>2. CASE ~EnterCatch(w)
      <3>1. pc[w] = "begin" /\ pc'[w] = "restore" /\ loc' = loc /\ usage' = usage
        BY <1>6, <1>t, <2>2 DEF Begin, Goto
      <3>2. loc[w].reserved = 0 /\ loc[w].tracked = -1
        BY <3>1 DEF Counting
      <3> QED
        BY <3>1, <3>2 DEF Due, Owes
    <2> QED
      BY <2>1, <2>2
  <1>7. CASE RestoreLine(w)
    <2>1. /\ pc' = pc /\ usage' = usage
          /\ \/ loc'[w] = [loc[w] EXCEPT !.cursor = @ + 1]
             \/ loc'[w] = [loc[w] EXCEPT !.cursor = @ + 1, !.failures = TRUE]
      BY <1>7, <1>t DEF RestoreLine, SetLocals
    <2>2. /\ loc'[w].phase = loc[w].phase /\ loc'[w].reserved = loc[w].reserved
          /\ loc'[w].tracked = loc[w].tracked
      BY <1>t, <2>1 DEF Locals
    <2> QED
      BY <2>1, <2>2 DEF Due, Owes
  <1>8. CASE RestoreDone(w) \/ DeleteFresh(w)
    <2>1. /\ pc[w] \in {"restore", "delete"} /\ pc'[w] \in {"delete", AfterCleanup(w)}
          /\ UNCHANGED <<loc, usage>>
      BY <1>8, <1>t DEF RestoreDone, DeleteFresh, Goto
    <2>2. /\ AfterCleanup(w) \in {"reserve", "refund", "release"}
          /\ AfterCleanup(w) = "refund" <=> loc[w].phase = "catch"
      BY <1>t DEF AfterCleanup, Locals
    <2> QED
      BY <2>1, <2>2 DEF Due, Owes
  <1>9. CASE Reserve(w)
    <2>1. EnterCatch(w) /\ pc[w] = "reserve"
      BY <1>9 DEF Reserve
    <2>2. usage' = usage
      <3>1. pc'[w] = "restore"
        BY <1>i, <2>1, CatchCounts
      <3> QED
        BY <1>9, <1>t, <3>1 DEF Reserve, Goto
    <2> QED
      BY <1>i, <2>1, <2>2, CatchDue
  <1>10. CASE UpdateRow(w) \/ InsertBatch(w) \/ ReconcileConflict(w)
    <2>1. pc[w] = "stream" /\ pc' = pc /\ usage' = usage
      BY <1>10 DEF UpdateRow, InsertBatch, ReconcileConflict
    <2>2. Counting(w)'
      BY <1>10, UpdateCounts, InsertCounts, ReconcileCounts
    <2>3. loc'[w].reserved = loc[w].reserved /\ loc'[w].tracked = -1 /\ loc[w].tracked = -1
      <3>1. UNCHANGED <<plan, task>>
        BY <1>10 DEF UpdateRow, InsertBatch, ReconcileConflict
      <3> QED
        BY <2>1, <2>2, <3>1 DEF Counting
    <2> QED
      BY <2>1, <2>3 DEF Due, Owes
  <1>11. CASE StreamDone(w)
    <2>1. pc[w] = "stream" /\ pc'[w] = "complete" /\ UNCHANGED <<loc, usage>>
      BY <1>11, <1>t DEF StreamDone, Goto
    <2> QED
      BY <2>1 DEF Due, Owes
  <1>12. CASE Discard(w) \/ ReleaseLease(w)
    <2>1. /\ pc[w] \in {"discard", "release"} /\ usage' = usage
          /\ pc'[w] \in {"release", "returned", "markFailed", "threw"}
      BY <1>12, <1>t DEF Discard, ReleaseLease, Goto
    <2> QED
      BY <1>q, <2>1 DEF Owes
  <1>13. CASE Throw(w)
    <2>1. /\ EnterCatch(w) /\ usage' = usage
          /\ pc[w] \in {"guard", "begin", "reserve", "stream", "complete", "finalize"}
      BY <1>13 DEF Throw
    <2> QED
      BY <1>i, <2>1, CatchDue
  <1> QED
    BY <1>f, <1>1, <1>2, <1>3, <1>4, <1>5, <1>6, <1>7, <1>8, <1>9, <1>10, <1>11, <1>12, <1>13
    DEF DeliveryStep, Step

\* The commit puts into the logical content what the delivery has inserted.
LEMMA FinalizeShown ==
    ASSUME Separated, ImportInv, TypeInv', NEW w \in Workers, Finalize(w)
    PROVE  /\ Shown' = Shown \cup (Written(w) \ Taken(w))
           /\ Shown \cap (Written(w) \ Taken(w)) = {}
  <1>i. TypeInv
    BY DEF ImportInv
  <1>1. PICK j \in Jobs : j = task[w]
    BY <1>i DEF Finalize, TypeInv, TaskOK
  <1>2. /\ ~Committed(j) /\ j # NoJob
        /\ \A k \in Keys : LogicalOwner(k)' = IF event[k].owner = j THEN j ELSE LogicalOwner(k)
    BY <1>1, FinalizeContent, EventImportAssumption DEF EventImportAssumption
  <1>3. Shown' = Shown \cup Written(w)
    <2>1. Shown' = {k \in Keys : LogicalOwner(k)' # NoJob}
      BY DEF Shown
    <2> QED
      BY <1>1, <1>2, <2>1 DEF Shown, Written
  <1>4. ASSUME NEW k \in Written(w) PROVE LogicalOwner(k) # NoJob <=> k \in Taken(w)
    <2>1. k \in Keys /\ event[k].owner = j
      BY <1>1 DEF Written
    <2>2. IF Snapshots(j, k) = {} THEN LogicalOwner(k) = NoJob ELSE LogicalOwner(k) \in Names(j, k)
      BY <1>i, <1>2, <2>1, LogicalOwners DEF Logical
    <2>3. NoJob \notin Names(j, k)
      BY <1>2, <2>1, SnapshotCommitted DEF Names
    <2> QED
      BY <1>1, <2>2, <2>3 DEF Taken
  <1>5. Written(w) \subseteq Keys /\ Taken(w) \subseteq Written(w)
    BY DEF Written, Taken
  <1> QED
    BY <1>3, <1>4, <1>5 DEF Shown

LEMMA BalancedStep ==
    ASSUME Accountable, ImportInv, ImportInv', Agree, Agree', NEW w \in Workers,
           DeliveryStep(w), [Next]_vars, Counting(w), Balanced
    PROVE  Balanced'
  <1>i. TypeInv /\ TypeInv' /\ CommitInv
    BY DEF ImportInv
  <1>s. Separated /\ "refundFail" \notin Faults
    BY DEF Accountable, Separated
  <1>u. \A v \in Workers \ {w} : Untouched(v)
    BY <1>i, OneMoves
  <1>1. /\ IsFiniteSet(Tokens') /\ Cardinality(Tokens) >= Due(w)
        /\ Cardinality(Tokens') = Cardinality(Tokens) - Due(w) + Due(w)'
    BY <1>i, <1>u, TokensStep DEF Balanced
  <1>t. /\ pc \in [Workers -> PCs] /\ loc \in [Workers -> Locals] /\ usage \in Nat
        /\ loc[w].reserved \in Nat /\ loc[w].tracked \in Int
    BY <1>i DEF TypeInv, TypeOK, Locals
  <1>n. /\ Due(w) \in Nat /\ Due(w)' \in Nat
        /\ Cardinality(Tokens) \in Nat /\ Cardinality(Shown) \in Nat
        /\ usage = Cardinality(Shown) + Cardinality(Tokens)
    <2>1. Shown \in SUBSET Keys
      BY DEF Shown
    <2> QED
      BY <1>i, <2>1, DueType, DueTypeNext, KeysCount, FS_CardinalityType DEF Balanced
  <1>o. ASSUME NEW v \in Workers, Finalize(v) PROVE v = w /\ Finalize(w)
    <2>1. pc[v] = "finalize" /\ pc'[v] = "discard"
      BY <1>o, <1>t DEF Finalize, Goto
    <2> QED
      BY <1>o, <1>u, <2>1 DEF Untouched
  <1>2. ASSUME ~Finalize(w) PROVE Shown' = Shown
    <2>1. \A k \in Keys : LogicalOwner(k)' = LogicalOwner(k)
      BY <1>s, <1>o, <1>2, ContentKept
    <2>2. Shown' = {k \in Keys : LogicalOwner(k)' # NoJob}
      BY DEF Shown
    <2> QED
      BY <2>1, <2>2 DEF Shown
  <1>3. CASE Reserve(w) /\ ~EnterCatch(w)
    <2> DEFINE n == Cardinality(plan[task[w]].insert)
    <2>1. /\ pc[w] = "reserve" /\ pc'[w] = "stream" /\ loc'[w].tracked = -1
          /\ loc'[w].reserved = n /\ usage' = usage + n
      BY <1>3, ReserveCounts DEF Accountable, Reserve
    <2>2. Due(w) = 0 /\ Due(w)' = n /\ ~Finalize(w)
      BY <2>1 DEF Due, Owes, Finalize, Goto, Counting
    <2> HIDE DEF n
    <2> QED
      BY <1>1, <1>2, <1>n, <2>1, <2>2 DEF Balanced
  <1>4. CASE MarkJobCompleted(w)
    <2>1. /\ pc[w] = "complete" /\ pc'[w] = "finalize"
          /\ loc'[w].tracked = Cardinality(Written(w) \ Taken(w))
          /\ loc'[w].tracked <= loc[w].reserved
          /\ usage' = Reconciled(loc[w].reserved, loc'[w].tracked)
      BY <1>i, <1>4, CompletedCounts DEF MarkJobCompleted
    <2>2. loc[w].tracked = -1
      BY <2>1 DEF Counting
    <2>3. Cardinality(Written(w) \ Taken(w)) \in Nat
      BY KeysCount DEF Written
    <2>4. Due(w) = loc[w].reserved /\ Due(w)' = loc'[w].tracked /\ loc'[w].tracked \in Nat
      BY <2>1, <2>2, <2>3 DEF Due, Owes
    <2>5. usage' = usage - loc[w].reserved + loc'[w].tracked
      BY <1>1, <1>n, <1>t, <2>1, <2>4 DEF Reconciled
    <2>6. ~Finalize(w)
      BY <2>1 DEF Finalize
    <2> QED
      BY <1>1, <1>2, <1>n, <1>t, <2>4, <2>5, <2>6 DEF Balanced
  <1>5. CASE Finalize(w)
    <2> DEFINE S == Written(w) \ Taken(w)
    <2>1. pc[w] = "finalize" /\ pc'[w] = "discard" /\ usage' = usage
      BY <1>5, <1>t DEF Finalize, Goto
    <2>2. Due(w)' = 0
      BY <2>1 DEF Due, Owes
    <2>3. S \in SUBSET Keys /\ Shown \in SUBSET Keys
      BY DEF Written, Shown
    <2>4. Shown' = Shown \cup S /\ Shown \cap S = {}
      BY <1>s, <1>i, <1>5, FinalizeShown
    <2>5. loc[w].tracked = Cardinality(S)
      BY <2>1 DEF Counting
    <2> HIDE DEF S
    <2>6. IsFiniteSet(S) /\ IsFiniteSet(Shown) /\ Cardinality(S) \in Nat
      BY <2>3, KeysCount, FS_Subset, EventImportAssumption DEF EventImportAssumption
    <2>7. Due(w) = Cardinality(S)
      BY <2>1, <2>5, <2>6 DEF Due, Owes
    <2>8. Cardinality(Shown') = Cardinality(Shown) + Cardinality(S)
      BY <2>4, <2>6, DisjointSize
    <2> QED
      BY <1>1, <1>n, <2>1, <2>2, <2>6, <2>7, <2>8 DEF Balanced
  <1>6. CASE Refund(w)
    <2>1. pc[w] = "refund" /\ pc'[w] = "release" /\ loc[w].phase = "catch"
      BY <1>6, <1>t DEF Refund, Goto, Counting
    <2>2. Due(w)' = 0
      BY <2>1 DEF Due, Owes
    <2>3. Due(w) = IF loc[w].tracked >= 0 THEN loc[w].tracked ELSE loc[w].reserved
      BY <2>1 DEF Due, Owes
    <2>4. usage' = IF usage > Due(w) THEN usage - Due(w) ELSE 0
      BY <1>6, <1>s, <2>3 DEF Refund
    <2>5. usage' = usage - Due(w)
      BY <1>1, <1>n, <1>t, <2>4
    <2>6. ~Finalize(w)
      BY <2>1 DEF Finalize
    <2> QED
      BY <1>1, <1>2, <1>n, <1>t, <2>2, <2>5, <2>6 DEF Balanced
  <1>7. CASE /\ Reserve(w) => EnterCatch(w)
             /\ ~MarkJobCompleted(w) /\ ~Finalize(w) /\ ~Refund(w)
    <2>1. usage' = usage /\ Due(w)' = Due(w)
      BY <1>7, DueKept
    <2> QED
      BY <1>1, <1>2, <1>7, <1>n, <2>1 DEF Balanced
  <1> QED
    BY <1>3, <1>4, <1>5, <1>6, <1>7

---------------------------------------------------------------------------
(* The theorem *)

LEMMA QuotaInit == Init => QuotaInv
  <1> SUFFICES ASSUME Init PROVE QuotaInv
    OBVIOUS
  <1>1. \A w \in Workers : pc[w] = "idle" /\ loc[w] = NewLocals
    BY DEF Init
  <1>2. \A w \in Workers : Counting(w)
    BY <1>1 DEF Counting, Cleaning, NewLocals
  <1>3. \A w \in Workers : Due(w) = 0
    BY <1>1 DEF Due, Owes
  <1>4. Tokens = {}
    BY <1>3 DEF Tokens, Share
  <1>5. \A k \in Keys : event[k].owner = IF k \in SeedKeys THEN Seed ELSE NoJob
    BY DEF Init
  <1>6. \A k \in Keys : LogicalOwner(k) = IF k \in SeedKeys THEN Seed ELSE NoJob
    BY <1>5, EventImportAssumption DEF LogicalOwner, Committed, EventImportAssumption
  <1>7. Shown = SeedKeys
    BY <1>6, EventImportAssumption DEF Shown, EventImportAssumption
  <1>8. usage = Cardinality(SeedKeys) /\ Cardinality(SeedKeys) \in Nat
    BY EventImportAssumption, KeysCount DEF Init, EventImportAssumption
  <1>9. IsFiniteSet({}) /\ Cardinality({}) = 0
    BY FS_EmptySet
  <1> QED
    BY <1>2, <1>4, <1>7, <1>8, <1>9 DEF QuotaInv, Balanced

LEMMA QuotaStep ==
    ASSUME Accountable
    PROVE  ImportInv /\ ImportInv' /\ Agree /\ Agree' /\ QuotaInv /\ [Next]_vars => QuotaInv'
  <1> SUFFICES ASSUME ImportInv, ImportInv', Agree, Agree', QuotaInv, [Next]_vars
               PROVE  QuotaInv'
    OBVIOUS
  <1>i. TypeInv
    BY DEF ImportInv
  <1>1. ASSUME NEW w \in Workers, DeliveryStep(w) PROVE QuotaInv'
    <2>1. \A v \in Workers : Counting(v)'
      BY <1>i, <1>1, OneMoves, CountingOther, CountingSelf DEF QuotaInv
    <2>2. Balanced'
      BY <1>1, BalancedStep DEF QuotaInv
    <2> QED
      BY <2>1, <2>2 DEF QuotaInv
  <1>2. ASSUME UNCHANGED <<usage, pc, task, loc>>, \A w \in Workers : ~DeliveryStep(w),
               \A v \in Workers : Counting(v)'
        PROVE  QuotaInv'
    <2>1. Tokens' = Tokens
      BY <1>2 DEF Tokens, Share, Due, Owes
    <2>2. \A w \in Workers : ~Finalize(w)
      BY <1>2 DEF DeliveryStep, Step
    <2>3. \A k \in Keys : LogicalOwner(k)' = LogicalOwner(k)
      BY <2>2, ContentKept DEF Accountable, Separated
    <2>4. Shown' = {k \in Keys : LogicalOwner(k)' # NoJob}
      BY DEF Shown
    <2>5. Shown' = Shown
      BY <2>3, <2>4 DEF Shown
    <2> QED
      BY <1>2, <2>1, <2>5 DEF QuotaInv, Balanced
  <1>3. ASSUME NEW j \in Jobs, RouteStep(j), \A w \in Workers : ~DeliveryStep(w) PROVE QuotaInv'
    BY <1>i, <1>2, <1>3, RouteData, CountingRoute DEF QuotaInv
  <1>4. CASE UNCHANGED vars /\ \A w \in Workers : ~DeliveryStep(w)
    <2>1. \A v \in Workers : Counting(v)'
      <3>1. ASSUME NEW v \in Workers
            PROVE  /\ Written(v)' = Written(v) /\ Taken(v)' = Taken(v)
                   /\ Updates(task[v])' = Updates(task[v]) /\ (Cleaning(v)' <=> Cleaning(v))
        BY <1>4 DEF vars, Written, Taken, Snapshots, Updates, Cleaning
      <3> QED
        BY <1>4, <3>1 DEF vars, QuotaInv, Counting
    <2> QED
      BY <1>2, <1>4, <2>1 DEF vars
  <1> QED
    BY <1>1, <1>3, <1>4, NextSplit

\* Between imports the counter is the number of events that exist, whatever
\* threw, was refused, lost a conflict or was retried on the way, if every
\* cleanup is finished and every refund is made.
THEOREM QuotaKept ==
    ASSUME Accountable
    PROVE  Spec => []QuotaSettled
  <1>1. ImportInv /\ QuotaInv => QuotaSettled
    <2> SUFFICES ASSUME ImportInv, QuotaInv,
                        \A j \in Jobs : ~Running(j) /\ stage[j] # "create-events"
                 PROVE  usage = Cardinality({k \in Keys : Present(k)})
      BY DEF QuotaSettled
    <2>1. \A w \in Workers : pc[w] = "idle"
      BY DEF Running, ImportInv, TypeInv, TaskOK
    <2>2. Tokens = {}
      BY <2>1 DEF Tokens, Share, Due, Owes
    <2>3. \A j \in Jobs : ~Dirty(j)
      BY <2>1 DEF ImportInv, Tidy, Accountable
    <2>4. ASSUME NEW k \in Keys PROVE LogicalOwner(k) = event[k].owner
      <3>1. event[k].owner = NoJob \/ Committed(event[k].owner)
        BY <2>3, <2>4 DEF Dirty, Committed
      <3> QED
        BY <3>1, LogicalOwners DEF Logical, ImportInv
    <2>5. Shown = {k \in Keys : Present(k)}
      BY <2>4 DEF Shown, Present
    <2>6. Cardinality({}) = 0 /\ Cardinality(Shown) \in Nat
      BY FS_EmptySet, KeysCount DEF Shown
    <2> QED
      BY <2>2, <2>5, <2>6 DEF QuotaInv, Balanced
  <1>2. Separated
    BY DEF Accountable, Separated
  <1>3. Spec => [](ImportInv /\ Agree)
    BY <1>2, AgreeInvariant
  <1>4. ImportInv /\ ImportInv' /\ Agree /\ Agree' /\ QuotaInv /\ [Next]_vars => QuotaInv'
    BY QuotaStep
  <1> QED
    BY <1>1, <1>3, <1>4, QuotaInit, PTL DEF Spec

=============================================================================
