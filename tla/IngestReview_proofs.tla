------------------------ MODULE IngestReview_proofs ------------------------
(***************************************************************************)
(* Theorems about IngestReview: its types; a file shown as completed is    *)
(* complete; no job is stranded but those an admin parks; and, as long as  *)
(* no route and no reaper takes a job that something else moves: a review  *)
(* is left by its approval, by the error of the task that asked for it or  *)
(* by the reaper, and nothing is imported on a schema that still needs its *)
(* approval unless an admin's reset passes the check by.                   *)
(***************************************************************************)
EXTENDS IngestReview, SequenceTheorems, TLAPS

---------------------------------------------------------------------------
(* Types *)

\* A reset under way has a target.
Targeted == \A j \in Jobs : reset[j].at # "none" => reset[j].to \in ResetTargets

TypeInv == TypeOK /\ Targeted

LEMMA AppendType ==
    ASSUME NEW S, NEW s \in Seq(S), NEW e \in S
    PROVE  Append(s, e) \in Seq(S)
  OBVIOUS

LEMMA ReasonType ==
    ASSUME NEW gate \in Gates
    PROVE  Reason(gate) \in Gates
  <1>1. DetectGates[5] = "ambiguous-date-order" /\ 5 \in DOMAIN DetectGates
    BY DEF DetectGates
  <1>2. "ambiguous-date-order" \in Gates
    BY <1>1 DEF Gates
  <1> QED
    BY <1>2 DEF Reason

LEMMA FirstOfType ==
    ASSUME NEW j \in Jobs
    PROVE  FirstOf(j, AnalyzeGates) \subseteq Gates /\ FirstOf(j, DetectGates) \subseteq Gates
  BY DEF FirstOf, Gates

LEMMA ResumePointType ==
    ASSUME NEW why
    PROVE  ResumePoint(why) \in ResumePoints /\ StageToResumeFrom(why) \in ResumePoints
  BY DEF ResumePoint, StageToResumeFrom, ResumePoints

LEMMA DerivedType ==
    ASSUME NEW stages
    PROVE  Derived(stages) \in FileStatus \cup {"none"}
  BY DEF Derived, FileStatus

LEMMA StopType ==
    ASSUME TypeOK, NEW j \in Jobs, Stop(j)
    PROVE  /\ step' = [step EXCEPT ![j] = "idle"] /\ step' \in [Jobs -> Steps]
           /\ view' \in [Writers -> FileStatus \cup {"none", "due"}]
  BY DEF Stop, TypeOK, Steps

LEMMA PauseType ==
    ASSUME TypeOK, NEW j \in Jobs, NEW gate \in Gates, Pause(j, gate)
    PROVE  /\ stage' \in [Jobs -> Active \cup Terminal] /\ reason' \in [Jobs -> Gates \cup {"none"}]
           /\ step' \in [Jobs -> Steps]
           /\ view' \in [Writers -> FileStatus \cup {"none", "due"}]
  BY StopType, ReasonType DEF Pause, TypeOK, Terminal

LEMMA GotoType ==
    ASSUME TypeOK, NEW j \in Jobs, NEW s \in Steps, Goto(j, s)
    PROVE  /\ step' \in [Jobs -> Steps]
           /\ view' \in [Writers -> FileStatus \cup {"none", "due"}]
  BY DEF Goto, TypeOK

LEMMA TypeInit == Init => TypeOK
  BY DEF Init, TypeOK, Active, Steps, NoReset, FileStatus

LEMMA TypeStep == TypeInv /\ [Next]_vars => TypeOK'
  <1> SUFFICES ASSUME TypeOK, Targeted, [Next]_vars PROVE TypeOK'
    BY DEF TypeInv
  <1>1. CASE UNCHANGED vars
    BY <1>1 DEF vars, TypeOK
  <1>2. ASSUME NEW j \in Jobs, AnalyzeDuplicates(j) PROVE TypeOK'
    <2>1. ASSUME NEW gate \in FirstOf(j, AnalyzeGates), Pause(j, gate) PROVE TypeOK'
      BY <1>2, <2>1, FirstOfType, PauseType DEF AnalyzeDuplicates, TypeOK
    <2>2. CASE Goto(j, "detect") /\ UNCHANGED <<stage, reason>>
      <3>1. "detect" \in Steps
        BY DEF Steps
      <3> QED
        BY <1>2, <2>2, <3>1, GotoType DEF AnalyzeDuplicates, TypeOK
    <2> QED
      BY <1>2, <2>1, <2>2 DEF AnalyzeDuplicates
  <1>3. ASSUME NEW j \in Jobs, DetectSchema(j) PROVE TypeOK'
    <2>1. ASSUME NEW gate \in FirstOf(j, DetectGates), Pause(j, gate) PROVE TypeOK'
      BY <1>3, <2>1, FirstOfType, PauseType DEF DetectSchema, TypeOK
    <2>2. CASE Enter(j, "detect", "detect-schema") /\ Goto(j, "validate") /\ UNCHANGED reason
      <3>1. "validate" \in Steps
        BY DEF Steps
      <3> QED
        BY <1>3, <2>2, <3>1, GotoType DEF DetectSchema, Enter, TypeOK, Active
    <2> QED
      BY <1>3, <2>1, <2>2 DEF DetectSchema
  <1>4. ASSUME NEW j \in Jobs, GuardReview(j) PROVE TypeOK'
    <2>1. "compare" \in Steps
      BY DEF Steps
    <2> QED
      BY <1>4, <2>1, GotoType DEF GuardReview, Enter, TypeOK, Active
  <1>5. ASSUME NEW j \in Jobs, CompareSchemas(j) PROVE TypeOK'
    <2>1. "complete" \in Steps
      BY DEF Steps
    <2>2. step' \in [Jobs -> Steps] /\ view' = view
      BY <1>5, <2>1, GotoType DEF CompareSchemas, Goto
    <2>3. /\ requires' \in [Jobs -> BOOLEAN] /\ conflict' \in [Jobs -> BOOLEAN]
          /\ stage' \in [Jobs -> Active \cup Terminal]
      BY <1>5 DEF CompareSchemas, TypeOK, Terminal
    <2> QED
      BY <1>5, <2>2, <2>3 DEF CompareSchemas, TypeOK
  <1>f. ASSUME NEW j \in Jobs, FinishValidation(j) PROVE TypeOK'
    <2>1. "version" \in Steps
      BY DEF Steps
    <2>2. CASE Stop(j)
      BY <1>f, <2>2, StopType DEF FinishValidation, TypeOK
    <2>3. CASE Goto(j, "version")
      BY <1>f, <2>1, <2>3, GotoType DEF FinishValidation, TypeOK
    <2> QED
      BY <1>f, <2>2, <2>3 DEF FinishValidation
  <1>v. ASSUME NEW j \in Jobs, RetryValidation(j) PROVE TypeOK'
    BY <1>v DEF RetryValidation, TypeOK, Steps
  <1>6. ASSUME NEW j \in Jobs, CreateSchemaVersion(j) PROVE TypeOK'
    <2>1. stage' \in [Jobs -> Active \cup Terminal] /\ linked' \in [Jobs -> BOOLEAN]
      BY <1>6 DEF CreateSchemaVersion, Enter, TypeOK, Active
    <2>2. CASE Stop(j)
      BY <1>6, <2>1, <2>2, StopType DEF CreateSchemaVersion, TypeOK
    <2>3. CASE Goto(j, "geocode")
      <3>1. "geocode" \in Steps
        BY DEF Steps
      <3> QED
        BY <1>6, <2>1, <2>3, <3>1, GotoType DEF CreateSchemaVersion, TypeOK
    <2> QED
      BY <1>6, <2>2, <2>3 DEF CreateSchemaVersion
  <1>7. ASSUME NEW j \in Jobs, GeocodeBatch(j) PROVE TypeOK'
    <2>1. CASE Pause(j, "geocoding-partial")
      <3>1. "geocoding-partial" \in Gates
        BY DEF Gates
      <3> QED
        BY <1>7, <2>1, <3>1, PauseType DEF GeocodeBatch, TypeOK
    <2>2. CASE Enter(j, "geocode", "geocode-batch") /\ Goto(j, "events") /\ UNCHANGED reason
      <3>1. "events" \in Steps
        BY DEF Steps
      <3> QED
        BY <1>7, <2>2, <3>1, GotoType DEF GeocodeBatch, Enter, TypeOK, Active
    <2> QED
      BY <1>7, <2>1, <2>2 DEF GeocodeBatch
  <1>8. ASSUME NEW j \in Jobs, CreateEvents(j) PROVE TypeOK'
    <2>1. CASE Pause(j, "high-row-errors")
      <3>1. "high-row-errors" \in Gates
        BY DEF Gates
      <3> QED
        BY <1>8, <2>1, <3>1, PauseType DEF CreateEvents, TypeOK
    <2>2. CASE stage' = [stage EXCEPT ![j] = "completed"] /\ Stop(j) /\ UNCHANGED reason
      BY <1>8, <2>2, StopType DEF CreateEvents, TypeOK, Terminal
    <2> QED
      BY <1>8, <2>1, <2>2 DEF CreateEvents
  <1>9. ASSUME NEW j \in Jobs, TaskFails(j) PROVE TypeOK'
    BY <1>9, StopType DEF TaskFails, TypeOK, Terminal
  <1>10. ASSUME NEW j \in Jobs, StartResume(j) PROVE TypeOK'
    <2>1. /\ queue' = [queue EXCEPT ![j] = Tail(@)] /\ queue[j] # <<>>
          /\ queue[j] \in Seq(ResumePoints)
      BY <1>10 DEF StartResume, TypeOK
    <2>2. Tail(queue[j]) \in Seq(ResumePoints) /\ Head(queue[j]) \in ResumePoints
      BY <2>1
    <2>3. queue' \in [Jobs -> Seq(ResumePoints)]
      BY <2>1, <2>2 DEF TypeOK
    <2>4. step' \in [Jobs -> Steps]
      <3> DEFINE p == Head(queue[j])
                 s == CASE p = "analyze-duplicates" -> "analyze"
                        [] p = "detect-schema" -> "detect"
                        [] p = "create-schema-version" -> "version"
                        [] p = "create-events" -> "events"
      <3>1. s \in Steps
        <4> HIDE DEF p
        <4>1. p \in ResumePoints
          BY <2>2 DEF p
        <4> QED
          BY <4>1 DEF ResumePoints, Steps
      <3>2. step' = [step EXCEPT ![j] = s]
        BY <1>10 DEF StartResume
      <3> HIDE DEF s
      <3> QED
        BY <3>1, <3>2 DEF TypeOK
    <2>5. resumed' \in [Jobs -> BOOLEAN]
      BY <1>10 DEF StartResume, TypeOK
    <2> QED
      BY <1>10, <2>3, <2>4, <2>5 DEF StartResume, TypeOK
  <1>11. ASSUME NEW r \in Writers, ReadStatus(r) PROVE TypeOK'
    <2>1. view' = [view EXCEPT ![r] = Derived(stage)] /\ Derived(stage) \in FileStatus \cup {"none"}
      BY <1>11, DerivedType DEF ReadStatus
    <2>2. view' \in [Writers -> FileStatus \cup {"none", "due"}]
      BY <2>1 DEF TypeOK
    <2> QED
      BY <1>11, <2>2 DEF ReadStatus, TypeOK
  <1>12. ASSUME NEW r \in Writers, WriteStatus(r) PROVE TypeOK'
    BY <1>12 DEF WriteStatus, TypeOK
  <1>p. ASSUME NEW j \in Jobs, ReapJob(j) PROVE TypeOK'
    BY <1>p DEF ReapJob, TypeOK, Terminal, FileStatus
  <1>13. ASSUME NEW j \in Jobs, Approve(j) PROVE TypeOK'
    <2>1. approved' \in [Jobs -> BOOLEAN]
      BY <1>13 DEF Approve, TypeOK
    <2>2. CASE reason[j] = "high-row-errors"
      <3>1. stage' \in [Jobs -> Active \cup Terminal]
        BY <1>13, <2>2 DEF Approve, TypeOK, Terminal
      <3>2. file' = (IF Derived(stage') = "none" THEN file ELSE Derived(stage'))
            /\ UNCHANGED <<skip, queue>>
        BY <1>13, <2>2 DEF Approve
      <3>3. file' \in FileStatus
        BY <3>2, DerivedType DEF TypeOK
      <3> QED
        BY <1>13, <2>1, <3>1, <3>2, <3>3 DEF Approve, TypeOK
    <2>3. CASE reason[j] # "high-row-errors"
      <3>1. /\ skip' = [skip EXCEPT ![j] = @ \cup ({reason[j]} \cap SkipFlags)]
            /\ queue' = [queue EXCEPT ![j] = Append(@, ResumePoint(reason[j]))]
            /\ UNCHANGED <<stage, file>>
        BY <1>13, <2>3 DEF Approve
      <3>2. skip' \in [Jobs -> SUBSET SkipFlags]
        BY <3>1 DEF TypeOK
      <3>3. queue' \in [Jobs -> Seq(ResumePoints)]
        BY <3>1, ResumePointType DEF TypeOK
      <3> QED
        BY <1>13, <2>1, <3>1, <3>2, <3>3 DEF Approve, TypeOK
    <2> QED
      BY <2>2, <2>3
  <1>14. ASSUME NEW j \in Jobs, RetryClaim(j) PROVE TypeOK'
    BY <1>14 DEF RetryClaim, TypeOK, Active
  <1>15. ASSUME NEW j \in Jobs, RetryQueue(j) PROVE TypeOK'
    <2>1. claimed' \in [Jobs -> BOOLEAN] /\ "analyze-duplicates" \in ResumePoints
      BY <1>15 DEF RetryQueue, TypeOK, ResumePoints
    <2>v. via' \in [Jobs -> ResetTargets \cup {"none"}]
      BY <1>15 DEF RetryQueue, TypeOK
    <2>2. queue' \in [Jobs -> Seq(ResumePoints)]
      <3>1. CASE queue' = [queue EXCEPT ![j] = Append(@, "analyze-duplicates")]
        BY <2>1, <3>1, AppendType DEF TypeOK
      <3>2. CASE UNCHANGED queue
        BY <3>2 DEF TypeOK
      <3> QED
        BY <1>15, <3>1, <3>2 DEF RetryQueue
    <2>3. stage' \in [Jobs -> Active \cup Terminal]
      BY <1>15 DEF RetryQueue, TypeOK, Terminal
    <2> QED
      BY <1>15, <2>1, <2>v, <2>2, <2>3 DEF RetryQueue, TypeOK
  <1>16. ASSUME NEW j \in Jobs, ResetCheck(j) PROVE TypeOK'
    BY <1>16 DEF ResetCheck, TypeOK
  <1>17. ASSUME NEW j \in Jobs, ResetWrite(j) PROVE TypeOK'
    <2>1. reset[j].to \in ResetTargets \cap Active
      <3>1. reset[j].to \in ResetTargets
        BY <1>17 DEF ResetWrite, Targeted
      <3>2. ResetTargets \subseteq Active
        BY IngestReviewAssumption DEF IngestReviewAssumption, Active
      <3> QED
        BY <3>1, <3>2
    <2>2. CASE stage[j] = "completed"
      <3>1. reset' = [reset EXCEPT ![j] = NoReset] /\ UNCHANGED stage
        BY <1>17, <2>2 DEF ResetWrite
      <3>2. reset' \in [Jobs -> [at : {"none", "checked", "written"}, to : ResetTargets \cup {"none"}]]
        BY <3>1 DEF TypeOK, NoReset
      <3> QED
        BY <1>17, <3>1, <3>2 DEF ResetWrite, TypeOK
    <2>3. CASE stage[j] # "completed"
      <3>1. stage' = [stage EXCEPT ![j] = reset[j].to] /\ reset' = [reset EXCEPT ![j].at = "written"]
        BY <1>17, <2>3 DEF ResetWrite
      <3>2. stage' \in [Jobs -> Active \cup Terminal]
        BY <2>1, <3>1 DEF TypeOK
      <3>3. reset' \in [Jobs -> [at : {"none", "checked", "written"}, to : ResetTargets \cup {"none"}]]
        BY <3>1 DEF TypeOK
      <3> QED
        BY <1>17, <3>2, <3>3 DEF ResetWrite, TypeOK
    <2> QED
      BY <2>2, <2>3
  <1>18. ASSUME NEW j \in Jobs, ResetQueue(j) PROVE TypeOK'
    <2>1. reset' \in [Jobs -> [at : {"none", "checked", "written"}, to : ResetTargets \cup {"none"}]]
      BY <1>18 DEF ResetQueue, TypeOK, NoReset
    <2>v. via' \in [Jobs -> ResetTargets \cup {"none"}]
      <3>1. reset[j].to \in ResetTargets \cup {"none"}
        BY DEF TypeOK
      <3>2. via' = via \/ via' = [via EXCEPT ![j] = reset[j].to]
        BY <1>18 DEF ResetQueue
      <3>3. via \in [Jobs -> ResetTargets \cup {"none"}]
        BY DEF TypeOK
      <3> QED
        BY <3>1, <3>2, <3>3
    <2>2. queue' \in [Jobs -> Seq(ResumePoints)]
      <3>1. CASE queue' = [queue EXCEPT ![j] = Append(@, StageToResumeFrom(reset[j].to))]
        BY <3>1, ResumePointType, AppendType DEF TypeOK
      <3>2. CASE UNCHANGED queue
        BY <3>2 DEF TypeOK
      <3> QED
        BY <1>18, <3>1, <3>2 DEF ResetQueue
    <2>3. stage' \in [Jobs -> Active \cup Terminal]
      BY <1>18 DEF ResetQueue, TypeOK, Terminal
    <2> QED
      BY <1>18, <2>1, <2>v, <2>2, <2>3 DEF ResetQueue, TypeOK
  <1> QED
    BY <1>1, <1>2, <1>3, <1>4, <1>5, <1>f, <1>v, <1>6, <1>7, <1>8, <1>9, <1>10, <1>11, <1>12,
       <1>p, <1>13, <1>14, <1>15, <1>16, <1>17, <1>18 DEF Next, Run, Routes

LEMMA TargetedStep == TypeInv /\ [Next]_vars => Targeted'
  <1> SUFFICES ASSUME TypeInv, [Next]_vars, NEW j \in Jobs, reset'[j].at # "none"
               PROVE  reset'[j].to \in ResetTargets
    BY DEF Targeted
  <1>t. /\ reset \in [Jobs -> [at : {"none", "checked", "written"}, to : ResetTargets \cup {"none"}]]
        /\ reset[j].at # "none" => reset[j].to \in ResetTargets
    BY DEF TypeInv, TypeOK, Targeted
  <1>1. CASE reset'[j] = reset[j]
    BY <1>t, <1>1
  <1>2. ASSUME NEW i \in Jobs, ResetCheck(i) PROVE reset'[j].to \in ResetTargets
    <2>1. PICK target \in ResetTargets : reset' = [reset EXCEPT ![i] = [at |-> "checked", to |-> target]]
      BY <1>2 DEF ResetCheck
    <2> QED
      BY <1>t, <1>1, <2>1
  <1>3. ASSUME NEW i \in Jobs, ResetWrite(i) \/ ResetQueue(i) PROVE reset'[j].to \in ResetTargets
    <2>1. CASE reset' = [reset EXCEPT ![i] = NoReset]
      BY <1>t, <1>1, <2>1 DEF NoReset
    <2>2. CASE reset' = [reset EXCEPT ![i].at = "written"] /\ reset[i].at = "checked"
      <3>1. i = j => reset'[j].to = reset[j].to
        BY <1>t, <2>2
      <3>2. i # j => reset'[j] = reset[j]
        BY <1>t, <2>2
      <3> QED
        BY <1>t, <1>1, <2>2, <3>1, <3>2
    <2> QED
      BY <1>3, <2>1, <2>2 DEF ResetWrite, ResetQueue
  <1>4. ASSUME ~(\E i \in Jobs : ResetCheck(i) \/ ResetWrite(i) \/ ResetQueue(i))
        PROVE  UNCHANGED reset
    BY <1>4 DEF Next, Run, Routes, AnalyzeDuplicates, DetectSchema, GuardReview, CompareSchemas,
       FinishValidation, RetryValidation, CreateSchemaVersion, GeocodeBatch, CreateEvents,
       TaskFails, StartResume, ReadStatus, WriteStatus, ReapJob, Approve, RetryClaim, RetryQueue,
       vars
  <1> QED
    BY <1>1, <1>2, <1>3, <1>4

LEMMA TypeInvariant == Spec => []TypeInv
  <1>1. Init => TypeInv
    BY TypeInit DEF Init, TypeInv, Targeted, NoReset
  <1>2. TypeInv /\ [Next]_vars => TypeInv'
    BY TypeStep, TargetedStep DEF TypeInv
  <1> QED
    BY <1>1, <1>2, PTL DEF Spec

\* Every variable of the pipeline stays within its type, for any sheets, gates,
\* calls and faults.
THEOREM TypesKept == Spec => []TypeOK
  BY TypeInvariant, PTL DEF TypeInv

---------------------------------------------------------------------------
(* No job is stranded, whatever races *)

\* Something will move the job on, its present run apart.
Followed(j) == queue[j] # <<>> \/ claimed[j] \/ reset[j].at = "written"

LastQueued(j) == queue[j][Len(queue[j])]

\* What is behind a job that is active; where its run would stop without leaving it
\* in a stage that has a route, something else is; and the last resume at
\* create-schema-version comes from an approval or from a reset to geocode-batch.
Behind(j) ==
    /\ stage[j] \in Active => Driven(j) \/ Parked(j)
    /\ step[j] = "complete" /\ requires[j] /\ stage[j] \in Active => Followed(j)
    /\ step[j] = "version" /\ requires[j] /\ ~approved[j] =>
          queue[j] # <<>> \/ via[j] = "geocode-batch"
    /\ queue[j] # <<>> /\ LastQueued(j) = "create-schema-version" =>
          approved[j] \/ via[j] = "geocode-batch"

Others(j) ==
    \A i \in Jobs \ {j} :
        /\ stage'[i] = stage[i] /\ requires'[i] = requires[i] /\ approved'[i] = approved[i]
        /\ step'[i] = step[i] /\ queue'[i] = queue[i] /\ claimed'[i] = claimed[i]
        /\ reset'[i] = reset[i] /\ reason'[i] = reason[i] /\ linked'[i] = linked[i]
        /\ retried'[i] = retried[i] /\ via'[i] = via[i]

\* The steps that concern one job.
JobStep(j) ==
    \/ Run(j) \/ Routes(j) \/ StartResume(j) \/ Approve(j) \/ RetryClaim(j) \/ ResetCheck(j)
    \/ ReapJob(j)

LEMMA OneJob ==
    ASSUME TypeInv, NEW j \in Jobs, JobStep(j)
    PROVE  Others(j)
  <1>1. CASE AnalyzeDuplicates(j) \/ DetectSchema(j) \/ GuardReview(j) \/ CompareSchemas(j)
    BY <1>1 DEF AnalyzeDuplicates, DetectSchema, GuardReview, CompareSchemas, Enter, Pause, Stop,
       Goto, Others, TypeInv, TypeOK
  <1>2. CASE CreateSchemaVersion(j) \/ GeocodeBatch(j) \/ CreateEvents(j) \/ TaskFails(j)
             \/ FinishValidation(j) \/ RetryValidation(j)
    BY <1>2 DEF CreateSchemaVersion, GeocodeBatch, CreateEvents, TaskFails, FinishValidation,
       RetryValidation, Enter, Pause, Stop, Goto, Others, TypeInv, TypeOK
  <1>3. CASE Routes(j)
    BY <1>3 DEF Routes, RetryQueue, ResetWrite, ResetQueue, Others, TypeInv, TypeOK
  <1>4. CASE StartResume(j) \/ Approve(j) \/ RetryClaim(j) \/ ResetCheck(j) \/ ReapJob(j)
    BY <1>4 DEF StartResume, Approve, RetryClaim, ResetCheck, ReapJob, Others, TypeInv, TypeOK
  <1> QED
    BY <1>1, <1>2, <1>3, <1>4 DEF JobStep, Run

LEMMA NextJob ==
    Next => \/ \E j \in Jobs : JobStep(j)
            \/ UNCHANGED <<stage, reason, requires, approved, linked, step, retried, queue,
                           claimed, reset, via>>
  BY DEF Next, JobStep, ReadStatus, WriteStatus

LEMMA LastAppended ==
    ASSUME NEW S, NEW s \in Seq(S), NEW e \in S
    PROVE  Append(s, e) # <<>> /\ Append(s, e)[Len(Append(s, e))] = e
  OBVIOUS

LEMMA LastOfTail ==
    ASSUME NEW S, NEW s \in Seq(S), s # <<>>
    PROVE  /\ Tail(s) = <<>> => Head(s) = s[Len(s)]
           /\ Tail(s) # <<>> => Tail(s)[Len(Tail(s))] = s[Len(s)]
  <1>1. /\ Len(s) \in Nat \ {0} /\ Tail(s) \in Seq(S) /\ Len(Tail(s)) = Len(s) - 1
        /\ \A i \in 1 .. Len(Tail(s)) : Tail(s)[i] = s[i + 1]
    BY EmptySeq, HeadTailProperties
  <1>2. CASE Tail(s) = <<>>
    <2> DEFINE t == Tail(s)
               n == Len(s)
               m == Len(t)
    <2>1. t = <<>> /\ n \in Nat \ {0} /\ m = n - 1
      BY <1>1, <1>2
    <2> HIDE DEF t, n
    <2>2. m = 0
      BY <2>1
    <2> HIDE DEF m
    <2>3. n = 1
      BY <2>1, <2>2
    <2>4. Len(s) = 1
      BY <2>3 DEF n
    <2> QED
      BY <1>2, <2>4
  <1>3. CASE Tail(s) # <<>>
    <2>1. Len(s) - 1 \in 1 .. Len(Tail(s)) /\ (Len(s) - 1) + 1 = Len(s)
      BY <1>1, <1>3, EmptySeq
    <2>2. Tail(s)[Len(s) - 1] = s[(Len(s) - 1) + 1]
      BY <1>1, <2>1
    <2> QED
      BY <1>1, <1>3, <2>1, <2>2
  <1> QED
    BY <1>2, <1>3

LEMMA RunBehind ==
    ASSUME TypeInv, NEW j \in Jobs, Behind(j), Run(j)
    PROVE  Behind(j)'
  <1>t. /\ stage \in [Jobs -> Active \cup Terminal] /\ step \in [Jobs -> Steps]
        /\ requires \in [Jobs -> BOOLEAN] /\ Active \cap Terminal = {}
    BY DEF TypeInv, TypeOK, Active, Terminal
  <1>u. UNCHANGED <<queue, claimed, reset, approved, via>>
    BY DEF Run, AnalyzeDuplicates, DetectSchema, GuardReview, CompareSchemas, FinishValidation,
       RetryValidation, CreateSchemaVersion, GeocodeBatch, CreateEvents, TaskFails
  <1>s. step[j] # "idle"
    BY DEF Run, AnalyzeDuplicates, DetectSchema, GuardReview, CompareSchemas, FinishValidation,
       RetryValidation, CreateSchemaVersion, GeocodeBatch, CreateEvents, TaskFails, Throws, Enter
  \* The run ends in a stage its user sees, or goes on to a task that asks for nothing.
  <1>e. ASSUME step'[j] = "idle", stage'[j] \in Terminal PROVE Behind(j)'
    BY <1>e, <1>t, <1>u DEF Behind, LastQueued
  <1>g. ASSUME step'[j] \notin {"idle", "complete", "version"} PROVE Behind(j)'
    BY <1>g, <1>u DEF Behind, LastQueued, Driven
  <1>1. CASE AnalyzeDuplicates(j) \/ DetectSchema(j) \/ GuardReview(j) \/ GeocodeBatch(j)
             \/ CreateEvents(j)
    <2>1. \/ step'[j] = "idle" /\ stage'[j] \in Terminal
          \/ step'[j] \in {"detect", "validate", "compare", "events"}
      BY <1>1, <1>t DEF AnalyzeDuplicates, DetectSchema, GuardReview, GeocodeBatch, CreateEvents,
         Pause, Stop, Goto, Terminal
    <2> QED
      BY <1>e, <1>g, <2>1
  <1>2. CASE CompareSchemas(j)
    <2>1. /\ step'[j] = "complete"
          /\ requires'[j] => stage'[j] = "needs-review"
      BY <1>2, <1>t DEF CompareSchemas, Goto
    <2> QED
      BY <1>t, <1>u, <2>1 DEF Behind, LastQueued, Driven, Terminal
  <1>3. CASE FinishValidation(j)
    <2>1. step[j] = "complete" /\ UNCHANGED <<stage, requires>>
      BY <1>3 DEF FinishValidation
    <2>2. CASE requires[j]
      <3>1. step'[j] = "idle"
        BY <1>3, <1>t, <2>2 DEF FinishValidation, Stop
      <3>2. stage[j] \in Active => Followed(j)
        BY <2>1, <2>2 DEF Behind
      <3>3. Followed(j) => Driven(j)'
        BY <1>u DEF Followed, Driven
      <3> QED
        BY <1>u, <2>1, <3>1, <3>2, <3>3 DEF Behind, LastQueued
    <2>3. CASE ~requires[j]
      <3>1. step'[j] = "version"
        BY <1>3, <1>t, <2>3 DEF FinishValidation, Goto
      <3> QED
        BY <1>u, <2>1, <2>3, <3>1 DEF Behind, LastQueued, Driven
    <2> QED
      BY <2>2, <2>3
  <1>4. CASE RetryValidation(j)
    <2>1. step'[j] = "validate"
      BY <1>4, <1>t DEF RetryValidation
    <2> QED
      BY <1>g, <2>1
  <1>5. CASE CreateSchemaVersion(j)
    <2>1. step[j] = "version" /\ stage'[j] = "create-schema-version" /\ UNCHANGED requires
      BY <1>5, <1>t DEF CreateSchemaVersion, Enter
    <2>2. CASE ~linked[j] /\ requires[j] /\ ~approved[j]
      <3>1. step'[j] = "idle" /\ UNCHANGED linked
        BY <1>5, <1>t, <2>2 DEF CreateSchemaVersion, Stop
      <3>2. queue[j] # <<>> \/ via[j] = "geocode-batch"
        BY <2>1, <2>2 DEF Behind
      <3>3. Driven(j)' \/ Parked(j)'
        BY <1>u, <2>1, <2>2, <3>1, <3>2 DEF Driven, Parked
      <3> QED
        BY <1>u, <3>1, <3>3 DEF Behind, LastQueued
    <2>3. CASE ~(~linked[j] /\ requires[j] /\ ~approved[j])
      <3>1. step'[j] = "geocode"
        BY <1>5, <1>t, <2>3 DEF CreateSchemaVersion, Goto
      <3> QED
        BY <1>g, <3>1
    <2> QED
      BY <2>2, <2>3
  <1>6. CASE TaskFails(j)
    <2>1. step'[j] = "idle" /\ stage'[j] \in {"completed", "failed"}
      BY <1>6, <1>t DEF TaskFails, Stop
    <2> QED
      BY <1>e, <2>1 DEF Terminal
  <1> QED
    BY <1>1, <1>2, <1>3, <1>4, <1>5, <1>6 DEF Run

LEMMA RouteBehind ==
    ASSUME TypeInv, NEW j \in Jobs, Behind(j),
           Routes(j) \/ StartResume(j) \/ Approve(j) \/ RetryClaim(j) \/ ResetCheck(j) \/ ReapJob(j)
    PROVE  Behind(j)'
  <1>t. /\ stage \in [Jobs -> Active \cup Terminal] /\ step \in [Jobs -> Steps]
        /\ approved \in [Jobs -> BOOLEAN] /\ claimed \in [Jobs -> BOOLEAN]
        /\ queue \in [Jobs -> Seq(ResumePoints)]
        /\ via \in [Jobs -> ResetTargets \cup {"none"}]
        /\ reset \in [Jobs -> [at : {"none", "checked", "written"}, to : ResetTargets \cup {"none"}]]
        /\ "failed" \notin Active /\ "completed" \notin Active
    BY DEF TypeInv, TypeOK, Active
  <1>l. UNCHANGED <<requires, linked>>
    BY DEF Routes, RetryQueue, ResetWrite, ResetQueue, StartResume, Approve, RetryClaim, ResetCheck,
       ReapJob
  <1>q. ASSUME NEW e \in ResumePoints, queue' = [queue EXCEPT ![j] = Append(@, e)]
        PROVE  queue'[j] # <<>> /\ LastQueued(j)' = e
    <2>1. queue'[j] = Append(queue[j], e) /\ queue[j] \in Seq(ResumePoints)
      BY <1>q, <1>t
    <2> QED
      BY <2>1, LastAppended DEF LastQueued
  \* A resume is queued: its last point is all there is to see to.
  <1>a. ASSUME queue'[j] # <<>>, UNCHANGED step,
               LastQueued(j)' = "create-schema-version" => approved'[j] \/ via'[j] = "geocode-batch"
        PROVE  Behind(j)'
    BY <1>a DEF Behind, Driven, Followed
  \* The job is failed or completed, and no resume is queued.
  <1>f. ASSUME stage'[j] \notin Active, UNCHANGED <<step, queue, via>>, approved[j] => approved'[j]
        PROVE  Behind(j)'
    BY <1>f, <1>l DEF Behind, LastQueued
  <1>1. CASE RetryQueue(j)
    <2>1. CASE queue' = [queue EXCEPT ![j] = Append(@, "analyze-duplicates")]
      <3>1. queue'[j] # <<>> /\ LastQueued(j)' = "analyze-duplicates"
        BY <1>q, <2>1 DEF ResumePoints
      <3> QED
        BY <1>1, <1>a, <3>1 DEF RetryQueue
    <2>2. CASE stage' = [stage EXCEPT ![j] = "failed"] /\ UNCHANGED <<queue, via>>
      BY <1>1, <1>f, <1>t, <2>2 DEF RetryQueue
    <2> QED
      BY <1>1, <2>1, <2>2 DEF RetryQueue
  <1>2. CASE ResetQueue(j)
    <2>1. CASE /\ queue' = [queue EXCEPT ![j] = Append(@, StageToResumeFrom(reset[j].to))]
               /\ via' = [via EXCEPT ![j] = reset[j].to]
      <3>1. queue'[j] # <<>> /\ LastQueued(j)' = StageToResumeFrom(reset[j].to)
        BY <1>q, <2>1, ResumePointType
      <3>2. via'[j] = reset[j].to
        BY <1>t, <2>1
      <3> QED
        BY <1>2, <1>a, <3>1, <3>2 DEF ResetQueue, StageToResumeFrom
    <2>2. CASE stage' = [stage EXCEPT ![j] = "failed"] /\ UNCHANGED <<queue, via>>
      BY <1>2, <1>f, <1>t, <2>2 DEF ResetQueue
    <2> QED
      BY <1>2, <2>1, <2>2 DEF ResetQueue
  <1>3. CASE ResetWrite(j)
    <2>1. CASE stage[j] = "completed"
      BY <1>3, <1>f, <1>t, <2>1 DEF ResetWrite
    <2>2. CASE stage[j] # "completed"
      <3>1. reset'[j].at = "written" /\ UNCHANGED <<step, queue, approved, via>>
        BY <1>3, <1>t, <2>2 DEF ResetWrite
      <3> QED
        BY <1>l, <3>1 DEF Behind, Driven, Followed, LastQueued
    <2> QED
      BY <2>1, <2>2
  <1>4. CASE StartResume(j)
    <2>1. /\ queue[j] # <<>> /\ queue[j] \in Seq(ResumePoints) /\ queue'[j] = Tail(queue[j])
          /\ UNCHANGED <<stage, approved, claimed, reset, via>>
      BY <1>4, <1>t DEF StartResume
    <2>2. /\ step'[j] \in {"analyze", "detect", "version", "events"}
          /\ step'[j] = "version" => Head(queue[j]) = "create-schema-version"
      <3>1. Head(queue[j]) \in ResumePoints
        BY <2>1
      <3> QED
        BY <1>4, <1>t, <3>1 DEF StartResume, ResumePoints
    <2>3. /\ queue'[j] = <<>> => Head(queue[j]) = LastQueued(j)
          /\ queue'[j] # <<>> => LastQueued(j)' = LastQueued(j)
      BY <2>1, LastOfTail DEF LastQueued
    <2> QED
      BY <2>1, <2>2, <2>3 DEF Behind, Driven
  <1>5. CASE Approve(j)
    <2>1. approved'[j] /\ UNCHANGED <<step, via>>
      BY <1>5, <1>t DEF Approve
    <2>2. CASE stage' = [stage EXCEPT ![j] = "completed"] /\ UNCHANGED queue
      BY <1>f, <1>t, <2>1, <2>2
    <2>3. CASE queue' = [queue EXCEPT ![j] = Append(@, ResumePoint(reason[j]))]
      <3>1. queue'[j] # <<>>
        BY <1>q, <2>3, ResumePointType
      <3> QED
        BY <1>a, <2>1, <3>1
    <2> QED
      BY <1>5, <2>2, <2>3 DEF Approve
  <1>6. CASE RetryClaim(j)
    <2>1. claimed'[j] /\ UNCHANGED <<step, queue, approved, via>>
      BY <1>6, <1>t DEF RetryClaim
    <2> QED
      BY <1>l, <2>1 DEF Behind, Driven, Followed, LastQueued
  <1>7. CASE ResetCheck(j)
    <2>1. stage[j] = "failed" /\ UNCHANGED <<stage, step, queue, approved, via>>
      BY <1>7 DEF ResetCheck
    <2> QED
      BY <1>f, <1>t, <2>1
  <1>8. CASE ReapJob(j)
    <2>1. stage'[j] = "failed" /\ UNCHANGED <<step, queue, approved, via>>
      BY <1>8, <1>t DEF ReapJob
    <2> QED
      BY <1>f, <1>t, <2>1
  <1> QED
    BY <1>1, <1>2, <1>3, <1>4, <1>5, <1>6, <1>7, <1>8 DEF Routes

BehindInv == \A j \in Jobs : Behind(j)

LEMMA BehindInit == Init => BehindInv
  BY DEF Init, BehindInv, Behind, Driven, NoReset

LEMMA BehindStep == TypeInv /\ BehindInv /\ [Next]_vars => BehindInv'
  <1> SUFFICES ASSUME TypeInv, BehindInv, [Next]_vars PROVE BehindInv'
    OBVIOUS
  <1>1. CASE UNCHANGED <<stage, reason, requires, approved, linked, step, retried, queue,
                         claimed, reset, via>>
    BY <1>1 DEF BehindInv, Behind, Driven, Parked, Followed, LastQueued
  <1>2. ASSUME NEW j \in Jobs, JobStep(j) PROVE BehindInv'
    <2>1. Behind(j)'
      BY <1>2, RunBehind, RouteBehind DEF JobStep, BehindInv
    <2>2. ASSUME NEW i \in Jobs \ {j} PROVE Behind(i)'
      BY <1>2, OneJob DEF Others, BehindInv, Behind, Driven, Parked, Followed, LastQueued
    <2> QED
      BY <2>1, <2>2 DEF BehindInv
  <1> QED
    BY <1>1, <1>2, NextJob DEF vars

\* A job in a stage that no route accepts has a run, a queued run or a route
\* behind it, however often it is retried, reset and reaped and whatever these
\* race with, unless an admin reset it past the review it still owes.
THEOREM JobsReachable == Spec => []NoStrandedJob
  <1>1. BehindInv => NoStrandedJob
    BY DEF BehindInv, Behind, NoStrandedJob
  <1> QED
    BY <1>1, BehindInit, BehindStep, TypeInvariant, PTL DEF Spec

---------------------------------------------------------------------------
(* A file shown as completed is complete *)

AllCompleted == \A j \in Jobs : stage[j] = "completed"

\* A finding of "completed", read or written, is about jobs that are.
Found ==
    /\ file = "completed" => AllCompleted
    /\ \A r \in Writers : view[r] = "completed" => AllCompleted

LEMMA DerivedCompleted ==
    ASSUME NEW stages, Derived(stages) = "completed"
    PROVE  \A j \in Jobs : stages[j] = "completed"
  BY DEF Derived, Terminal

LEMMA StopFinds ==
    ASSUME TypeInv, NEW j \in Jobs, Stop(j), NEW r \in Writers, view'[r] = "completed"
    PROVE  view[r] = "completed"
  BY DEF Stop, TypeInv, TypeOK

\* No step takes a job out of completed.
LEMMA CompletedStays ==
    ASSUME TypeInv, [Next]_vars, NEW i \in Jobs, stage[i] = "completed"
    PROVE  stage'[i] = "completed"
  <1>t. stage \in [Jobs -> Active \cup Terminal]
    BY DEF TypeInv, TypeOK
  <1>1. ASSUME NEW j \in Jobs, AnalyzeDuplicates(j) \/ DetectSchema(j) \/ GuardReview(j)
                               \/ CompareSchemas(j) \/ FinishValidation(j)
                               \/ RetryValidation(j)
        PROVE  stage'[i] = "completed"
    BY <1>t, <1>1 DEF AnalyzeDuplicates, DetectSchema, GuardReview, CompareSchemas,
       FinishValidation, RetryValidation, Enter, Pause
  <1>2. ASSUME NEW j \in Jobs, CreateSchemaVersion(j) \/ GeocodeBatch(j) \/ CreateEvents(j)
                               \/ TaskFails(j)
        PROVE  stage'[i] = "completed"
    BY <1>t, <1>2 DEF CreateSchemaVersion, GeocodeBatch, CreateEvents, TaskFails, Enter, Pause
  <1>3. ASSUME NEW j \in Jobs, Approve(j) \/ RetryClaim(j) \/ RetryQueue(j) \/ ResetWrite(j)
                               \/ ResetQueue(j)
        PROVE  stage'[i] = "completed"
    BY <1>t, <1>3 DEF Approve, Approvable, RetryClaim, RetryQueue, ResetWrite, ResetQueue
  <1>4. ASSUME NEW j \in Jobs, StartResume(j) \/ ResetCheck(j) \/ ReapJob(j)
        PROVE  stage'[i] = "completed"
    BY <1>t, <1>4 DEF StartResume, ResetCheck, ReapJob, Reapable
  <1>5. ASSUME NEW r \in Writers, ReadStatus(r) \/ WriteStatus(r)
        PROVE  stage'[i] = "completed"
    BY <1>5 DEF ReadStatus, WriteStatus
  <1> QED
    BY <1>1, <1>2, <1>3, <1>4, <1>5 DEF Next, Run, Routes, vars

LEMMA FoundStep == TypeInv /\ Found /\ [Next]_vars => Found'
  <1> SUFFICES ASSUME TypeInv, Found, [Next]_vars PROVE Found'
    OBVIOUS
  <1>t. /\ view \in [Writers -> FileStatus \cup {"none", "due"}]
        /\ stage \in [Jobs -> Active \cup Terminal]
    BY DEF TypeInv, TypeOK
  <1>1. AllCompleted => AllCompleted'
    BY CompletedStays DEF AllCompleted
  <1>2. ASSUME UNCHANGED file,
               \A r \in Writers : view'[r] = "completed" => view[r] = "completed"
        PROVE  Found'
    BY <1>1, <1>2 DEF Found
  <1>3. ASSUME NEW j \in Jobs, Stop(j) \/ UNCHANGED view, UNCHANGED file PROVE Found'
    BY <1>2, <1>3, StopFinds
  <1>4. ASSUME NEW j \in Jobs, Run(j) PROVE Found'
    <2>1. CASE RetryValidation(j)
      BY <1>t, <1>2, <2>1 DEF RetryValidation
    <2>2. CASE ~RetryValidation(j)
      <3>1. Stop(j) \/ UNCHANGED view
        BY <1>4, <2>2 DEF Run, AnalyzeDuplicates, DetectSchema, GuardReview, CompareSchemas,
           FinishValidation, CreateSchemaVersion, GeocodeBatch, CreateEvents, TaskFails, Pause, Goto
      <3>2. UNCHANGED file
        BY <1>4, <2>2 DEF Run, AnalyzeDuplicates, DetectSchema, GuardReview, CompareSchemas,
           FinishValidation, CreateSchemaVersion, GeocodeBatch, CreateEvents, TaskFails
      <3> QED
        BY <1>3, <3>1, <3>2
    <2> QED
      BY <2>1, <2>2
  <1>r. ASSUME NEW j \in Jobs, ReapJob(j) PROVE Found'
    <2>1. view' = [view EXCEPT ![Reaper] = "failed"] /\ UNCHANGED file
      BY <1>r DEF ReapJob
    <2> QED
      BY <1>t, <1>2, <2>1
  <1>5. ASSUME NEW j \in Jobs, Routes(j) \/ StartResume(j) \/ RetryClaim(j) \/ ResetCheck(j)
        PROVE  Found'
    BY <1>3, <1>5 DEF Routes, RetryQueue, ResetWrite, ResetQueue, StartResume, RetryClaim, ResetCheck
  <1>6. ASSUME NEW r \in Writers, ReadStatus(r) PROVE Found'
    <2>1. view' = [view EXCEPT ![r] = Derived(stage)] /\ UNCHANGED <<stage, file>>
      BY <1>6 DEF ReadStatus
    <2>2. Derived(stage) = "completed" => AllCompleted
      BY DerivedCompleted DEF AllCompleted
    <2> QED
      BY <1>t, <1>1, <2>1, <2>2 DEF Found
  <1>7. ASSUME NEW r \in Writers, WriteStatus(r) PROVE Found'
    <2>1. file' = view[r] /\ view' = [view EXCEPT ![r] = "none"]
      BY <1>7 DEF WriteStatus
    <2> QED
      BY <1>t, <1>1, <2>1 DEF Found
  <1>8. ASSUME NEW j \in Jobs, Approve(j) PROVE Found'
    <2>1. UNCHANGED view
      BY <1>8 DEF Approve
    <2>2. file' = file \/ file' = Derived(stage')
      BY <1>8 DEF Approve
    <2>3. Derived(stage') = "completed" => AllCompleted'
      BY DerivedCompleted DEF AllCompleted
    <2> QED
      BY <1>1, <2>1, <2>2, <2>3 DEF Found
  <1>9. CASE UNCHANGED vars
    BY <1>2, <1>9 DEF vars
  <1> QED
    BY <1>4, <1>r, <1>5, <1>6, <1>7, <1>8, <1>9 DEF Next

\* A file is shown as completed only when each of its sheets is: nothing leaves
\* completed, so a status derived earlier and written late is still true.
THEOREM CompletionShown == Spec => []CompletedFileIsComplete
  <1>1. Init => Found
    BY DEF Init, Found
  <1>2. Found => CompletedFileIsComplete
    BY DEF Found, CompletedFileIsComplete, AllCompleted
  <1> QED
    BY <1>1, <1>2, FoundStep, TypeInvariant, PTL DEF Spec

---------------------------------------------------------------------------
(* Reviews and routes, as long as no route and no reaper takes a job that        *)
(* something else moves                                                         *)

NoRace == "race" \notin Faults

\* A run, a queued run, a retry and a reset exclude one another.
OneDriver(j) ==
    /\ step[j] # "idle" => queue[j] = <<>> /\ ~claimed[j] /\ reset[j] = NoReset
    /\ queue[j] # <<>> => Tail(queue[j]) = <<>> /\ ~claimed[j] /\ reset[j] = NoReset
    /\ claimed[j] => reset[j] = NoReset
    /\ reset[j] # NoReset => reset[j].at = "written" \/ (reset[j].at = "checked" /\ stage[j] = "failed")

\* validate-schema is about to return, or to start over, after its review.
Validates(j) == step[j] = "complete" \/ (step[j] = "validate" /\ retried[j])

\* A job that something moves on is active, or in a review that is approved or just
\* written.
DrivenStage(j) ==
    Driven(j) => \/ stage[j] \in Active
                 \/ stage[j] = "needs-review" /\ (approved[j] \/ Validates(j))

\* The task the job is at, or will be resumed at.
At(j, name, point) == step[j] = name \/ (queue[j] # <<>> /\ Head(queue[j]) = point)

\* The schema needs no approval, or has it, or an admin's reset passed it by.
Cleared(j) ==
    requires[j] => \/ approved[j] \/ via[j] = "create-events"
                   \/ via[j] = "geocode-batch" /\ linked[j]

\* What each task and each resume has behind it.
Gated(j) ==
    /\ step[j] = "compare" => stage[j] \in Active
    /\ step[j] = "complete" =>
          IF requires[j] THEN stage[j] = "needs-review" ELSE stage[j] \in Active
    /\ At(j, "version", "create-schema-version") /\ requires[j] =>
          approved[j] \/ via[j] = "geocode-batch"
    /\ step[j] = "geocode" => linked[j] /\ Cleared(j)
    /\ At(j, "events", "create-events") =>
          Cleared(j) /\ (linked[j] \/ via[j] = "create-events")
    /\ reason[j] = "geocoding-partial" => linked[j]
    /\ stage[j] = "completed" => Cleared(j)

JobInv(j) == OneDriver(j) /\ DrivenStage(j) /\ Gated(j)

ReviewInv == \A j \in Jobs : JobInv(j)

\* What the end of a run leaves of its job.
LEMMA Stopped ==
    ASSUME TypeInv, NEW j \in Jobs, OneDriver(j), step[j] # "idle", step'[j] = "idle",
           UNCHANGED <<queue, claimed, reset>>, stage'[j] \in Terminal,
           reason'[j] = "geocoding-partial" => linked'[j],
           stage'[j] = "completed" => Cleared(j)'
    PROVE  JobInv(j)'
  <1>1. OneDriver(j)' /\ ~Driven(j)' /\ queue'[j] = <<>>
    BY DEF OneDriver, Driven, NoReset
  <1>2. stage'[j] \notin Active
    BY DEF Terminal, Active
  <1> QED
    BY <1>1, <1>2 DEF JobInv, DrivenStage, Gated, At

\* A run that goes on.
LEMMA GoesOn ==
    ASSUME TypeInv, NEW j \in Jobs, OneDriver(j),
           step[j] # "idle", step'[j] # "idle", UNCHANGED <<queue, claimed, reset>>,
           \/ stage'[j] \in Active
           \/ stage'[j] = "needs-review" /\ (approved'[j] \/ Validates(j)')
    PROVE  OneDriver(j)' /\ DrivenStage(j)' /\ queue'[j] = <<>> /\ stage'[j] # "completed"
  BY DEF OneDriver, DrivenStage, Driven, Active

\* Only geocode-batch pauses for the geocoding's sake.
LEMMA OtherReasons ==
    ASSUME NEW j \in Jobs, NEW gate \in FirstOf(j, AnalyzeGates) \cup FirstOf(j, DetectGates)
    PROVE  Reason(gate) # "geocoding-partial"
  <1>1. PICK order \in {AnalyzeGates, DetectGates} : \E i \in DOMAIN order : gate = order[i]
    BY DEF FirstOf
  <1>2. gate # "geocoding-partial"
    BY <1>1 DEF AnalyzeGates, DetectGates
  <1> QED
    BY <1>2 DEF Reason

LEMMA Paused ==
    ASSUME TypeInv, NEW j \in Jobs, OneDriver(j), step[j] # "idle",
           UNCHANGED <<queue, claimed, reset, linked>>,
           NEW gate, Pause(j, gate), Reason(gate) = "geocoding-partial" => linked[j]
    PROVE  JobInv(j)'
  <1>1. /\ stage'[j] = "needs-review" /\ reason'[j] = Reason(gate) /\ step'[j] = "idle"
    BY DEF Pause, Stop, TypeInv, TypeOK
  <1> QED
    BY <1>1, Stopped DEF Terminal

LEMMA RunReviews ==
    ASSUME TypeInv, NEW j \in Jobs, JobInv(j), Run(j)
    PROVE  JobInv(j)'
  <1>t. /\ stage \in [Jobs -> Active \cup Terminal] /\ step \in [Jobs -> Steps]
        /\ requires \in [Jobs -> BOOLEAN] /\ linked \in [Jobs -> BOOLEAN]
        /\ retried \in [Jobs -> BOOLEAN]
    BY DEF TypeInv, TypeOK
  <1>s. step[j] # "idle"
    BY DEF Run, AnalyzeDuplicates, DetectSchema, GuardReview, CompareSchemas, FinishValidation,
       RetryValidation, CreateSchemaVersion, GeocodeBatch, CreateEvents, TaskFails, Throws, Enter
  <1>a. stage[j] \in Active \/ (stage[j] = "needs-review" /\ (approved[j] \/ Validates(j)))
    BY <1>s DEF JobInv, DrivenStage, Driven
  <1>o. OneDriver(j) /\ Gated(j) /\ queue[j] = <<>> /\ stage[j] # "completed"
    BY <1>a, <1>s DEF JobInv, OneDriver, Active
  <1>u. UNCHANGED <<queue, claimed, reset, approved, via>>
    BY DEF Run, AnalyzeDuplicates, DetectSchema, GuardReview, CompareSchemas, FinishValidation,
       RetryValidation, CreateSchemaVersion, GeocodeBatch, CreateEvents, TaskFails
  <1>1. CASE AnalyzeDuplicates(j)
    <2>1. ASSUME NEW gate \in FirstOf(j, AnalyzeGates), Pause(j, gate) PROVE JobInv(j)'
      BY <1>1, <1>o, <1>s, <1>u, <2>1, OtherReasons, Paused DEF AnalyzeDuplicates
    <2>2. CASE Goto(j, "detect") /\ UNCHANGED stage
      <3>1. step[j] = "analyze" /\ step'[j] = "detect" /\ UNCHANGED <<requires, linked>>
        BY <1>1, <1>t, <2>2 DEF AnalyzeDuplicates, Goto
      <3>2. stage'[j] \in Active \/ (stage'[j] = "needs-review" /\ approved'[j])
        BY <1>a, <1>u, <2>2, <3>1 DEF Validates
      <3>3. OneDriver(j)' /\ DrivenStage(j)' /\ queue'[j] = <<>> /\ stage'[j] # "completed"
        BY <1>o, <1>s, <1>u, <3>1, <3>2, GoesOn
      <3>4. UNCHANGED reason
        BY <1>1, <2>2, <3>1 DEF AnalyzeDuplicates, Pause, Stop, Goto, TypeInv, TypeOK
      <3> QED
        BY <1>o, <3>1, <3>3, <3>4 DEF JobInv, Gated, At
    <2> QED
      BY <1>1, <2>1, <2>2 DEF AnalyzeDuplicates
  <1>2. CASE DetectSchema(j)
    <2>1. ASSUME NEW gate \in FirstOf(j, DetectGates), Pause(j, gate) PROVE JobInv(j)'
      BY <1>2, <1>o, <1>s, <1>u, <2>1, OtherReasons, Paused DEF DetectSchema
    <2>2. CASE Enter(j, "detect", "detect-schema") /\ Goto(j, "validate") /\ UNCHANGED reason
      <3>1. /\ stage'[j] \in Active /\ step'[j] = "validate"
            /\ UNCHANGED <<requires, linked, reason>>
        BY <1>2, <1>t, <2>2 DEF DetectSchema, Enter, Goto, Active
      <3>2. OneDriver(j)' /\ DrivenStage(j)' /\ queue'[j] = <<>> /\ stage'[j] # "completed"
        BY <1>o, <1>s, <1>u, <3>1, GoesOn
      <3> QED
        BY <1>o, <3>1, <3>2 DEF JobInv, Gated, At
    <2> QED
      BY <1>2, <2>1, <2>2 DEF DetectSchema
  <1>3. CASE GuardReview(j)
    <2>1. /\ stage'[j] \in Active /\ step'[j] = "compare"
          /\ UNCHANGED <<requires, linked, reason>>
      BY <1>3, <1>t DEF GuardReview, Enter, Goto, Active
    <2>2. OneDriver(j)' /\ DrivenStage(j)' /\ queue'[j] = <<>> /\ stage'[j] # "completed"
      BY <1>o, <1>s, <1>u, <2>1, GoesOn
    <2> QED
      BY <1>o, <2>1, <2>2 DEF JobInv, Gated, At
  <1>4. CASE CompareSchemas(j)
    <2> DEFINE pause == conflict[j] \/ "schema-drift" \in Trips[j]
    <2>1. /\ step[j] = "compare" /\ step'[j] = "complete" /\ UNCHANGED <<linked, reason>>
          /\ requires'[j] = pause
          /\ stage'[j] = IF pause THEN "needs-review" ELSE stage[j]
      BY <1>4, <1>t DEF CompareSchemas, Goto
    <2>2. stage[j] \in Active
      BY <1>o, <2>1 DEF Gated
    <2>3. OneDriver(j)' /\ DrivenStage(j)' /\ queue'[j] = <<>> /\ stage'[j] # "completed"
      BY <1>o, <1>s, <1>u, <2>1, <2>2, GoesOn DEF Validates
    <2> HIDE DEF pause
    <2> QED
      BY <1>o, <2>1, <2>2, <2>3 DEF JobInv, Gated, At
  <1>5. CASE FinishValidation(j)
    <2>1. step[j] = "complete" /\ UNCHANGED <<stage, requires, linked, reason>>
      BY <1>5 DEF FinishValidation
    <2>2. CASE requires[j]
      <3>1. step'[j] = "idle" /\ stage'[j] = "needs-review"
        BY <1>5, <1>o, <1>t, <2>1, <2>2 DEF FinishValidation, Stop, Gated
      <3> QED
        BY <1>o, <1>s, <1>u, <2>1, <3>1, Stopped DEF Terminal, Gated
    <2>3. CASE ~requires[j]
      <3>1. step'[j] = "version" /\ stage'[j] \in Active
        BY <1>5, <1>o, <1>t, <2>1, <2>3 DEF FinishValidation, Goto, Gated
      <3>2. OneDriver(j)' /\ DrivenStage(j)' /\ queue'[j] = <<>> /\ stage'[j] # "completed"
        BY <1>o, <1>s, <1>u, <3>1, GoesOn
      <3> QED
        BY <1>o, <2>1, <2>3, <3>1, <3>2 DEF JobInv, Gated, At
    <2> QED
      BY <2>2, <2>3
  <1>6. CASE RetryValidation(j)
    <2>1. /\ step'[j] = "validate" /\ retried'[j]
          /\ UNCHANGED <<stage, requires, linked, reason>>
      BY <1>6, <1>t DEF RetryValidation
    <2>2. OneDriver(j)' /\ DrivenStage(j)' /\ queue'[j] = <<>> /\ stage'[j] # "completed"
      BY <1>a, <1>o, <1>s, <1>u, <2>1, GoesOn DEF Validates
    <2> QED
      BY <1>o, <2>1, <2>2 DEF JobInv, Gated, At
  <1>7. CASE CreateSchemaVersion(j)
    <2>1. /\ step[j] = "version" /\ stage'[j] = "create-schema-version"
          /\ UNCHANGED <<requires, reason>>
      BY <1>7, <1>t DEF CreateSchemaVersion, Enter
    <2>2. requires[j] => approved[j] \/ via[j] = "geocode-batch"
      BY <1>o, <2>1 DEF Gated, At
    <2>3. CASE ~linked[j] /\ requires[j] /\ ~approved[j]
      <3>1. step'[j] = "idle" /\ UNCHANGED linked
        BY <1>7, <1>t, <2>3 DEF CreateSchemaVersion, Stop
      <3>2. Parked(j)'
        BY <1>u, <2>1, <2>2, <2>3, <3>1 DEF Parked
      <3>3. OneDriver(j)' /\ ~Driven(j)' /\ queue'[j] = <<>>
        BY <1>o, <1>s, <1>u, <3>1 DEF OneDriver, Driven, NoReset
      <3> QED
        BY <1>o, <2>1, <3>1, <3>2, <3>3 DEF JobInv, DrivenStage, Gated, At
    <2>4. CASE ~(~linked[j] /\ requires[j] /\ ~approved[j])
      <3>1. step'[j] = "geocode" /\ linked'[j]
        BY <1>7, <1>t, <2>4 DEF CreateSchemaVersion, Goto
      <3>2. OneDriver(j)' /\ DrivenStage(j)' /\ queue'[j] = <<>> /\ stage'[j] # "completed"
        BY <1>o, <1>s, <1>u, <2>1, <3>1, GoesOn DEF Active
      <3>3. Cleared(j)'
        BY <1>u, <2>1, <2>2, <3>1 DEF Cleared
      <3> QED
        BY <2>1, <3>1, <3>2, <3>3 DEF JobInv, Gated, At
    <2> QED
      BY <2>3, <2>4
  <1>8. CASE GeocodeBatch(j)
    <2>1. step[j] = "geocode" /\ linked[j] /\ Cleared(j) /\ UNCHANGED <<requires, linked>>
      BY <1>8, <1>o DEF GeocodeBatch, Gated
    <2>2. CASE Pause(j, "geocoding-partial")
      BY <1>o, <1>s, <1>u, <2>1, <2>2, Paused
    <2>3. CASE Enter(j, "geocode", "geocode-batch") /\ Goto(j, "events") /\ UNCHANGED reason
      <3>1. stage'[j] \in Active /\ step'[j] = "events" /\ Cleared(j)'
        BY <1>t, <1>u, <2>1, <2>3 DEF Enter, Goto, Active, Cleared
      <3>2. OneDriver(j)' /\ DrivenStage(j)' /\ queue'[j] = <<>> /\ stage'[j] # "completed"
        BY <1>o, <1>s, <1>u, <3>1, GoesOn
      <3> QED
        BY <2>1, <3>1, <3>2 DEF JobInv, Gated, At
    <2> QED
      BY <1>8, <2>2, <2>3 DEF GeocodeBatch
  <1>9. CASE CreateEvents(j)
    <2>1. Cleared(j) /\ UNCHANGED <<requires, linked>>
      BY <1>9, <1>o DEF CreateEvents, Gated, At
    <2>2. CASE Pause(j, "high-row-errors")
      <3>1. Reason("high-row-errors") # "geocoding-partial"
        BY DEF Reason
      <3> QED
        BY <1>o, <1>s, <1>u, <2>1, <2>2, <3>1, Paused
    <2>3. CASE stage' = [stage EXCEPT ![j] = "completed"] /\ Stop(j) /\ UNCHANGED reason
      <3>1. stage'[j] = "completed" /\ step'[j] = "idle" /\ Cleared(j)'
        BY <1>t, <1>u, <2>1, <2>3 DEF Stop, Cleared
      <3> QED
        BY <1>o, <1>s, <1>u, <2>1, <2>3, <3>1, Stopped DEF Terminal, Gated
    <2> QED
      BY <1>9, <2>2, <2>3 DEF CreateEvents
  <1>10. CASE TaskFails(j)
    <2>1. /\ step'[j] = "idle" /\ stage'[j] = "failed" /\ UNCHANGED <<requires, linked, reason>>
      BY <1>10, <1>o, <1>t DEF TaskFails, Stop
    <2> QED
      BY <1>o, <1>s, <1>u, <2>1, Stopped DEF Terminal, Gated
  <1> QED
    BY <1>1, <1>2, <1>3, <1>4, <1>5, <1>6, <1>7, <1>8, <1>9, <1>10 DEF Run

LEMMA ResumedAt ==
    ASSUME NEW x
    PROVE  /\ ResumePoint(x) = "create-events" =>
                 x = "geocoding-partial" \/ x = "high-row-errors"
           /\ StageToResumeFrom(x) = "create-events" => x = "create-events"
           /\ StageToResumeFrom(x) = "create-schema-version" => x = "geocode-batch"
  BY DEF ResumePoint, StageToResumeFrom

LEMMA RouteReviews ==
    ASSUME NoRace, TypeInv, NEW j \in Jobs, JobInv(j),
           Routes(j) \/ StartResume(j) \/ Approve(j) \/ RetryClaim(j) \/ ResetCheck(j) \/ ReapJob(j)
    PROVE  JobInv(j)'
  <1>t. /\ stage \in [Jobs -> Active \cup Terminal] /\ step \in [Jobs -> Steps]
        /\ approved \in [Jobs -> BOOLEAN] /\ claimed \in [Jobs -> BOOLEAN]
        /\ queue \in [Jobs -> Seq(ResumePoints)]
        /\ via \in [Jobs -> ResetTargets \cup {"none"}]
        /\ reset \in [Jobs -> [at : {"none", "checked", "written"}, to : ResetTargets \cup {"none"}]]
    BY DEF TypeInv, TypeOK
  <1>n. Active \cap Terminal = {}
    BY DEF Active, Terminal
  <1>i. OneDriver(j) /\ DrivenStage(j) /\ Gated(j)
    BY DEF JobInv
  <1>q. ASSUME NEW e \in ResumePoints, queue[j] = <<>>, queue'[j] = Append(queue[j], e)
        PROVE  queue'[j] # <<>> /\ Tail(queue'[j]) = <<>> /\ Head(queue'[j]) = e
    BY <1>q
  <1>l. UNCHANGED <<requires, reason, linked>>
    BY DEF Routes, RetryQueue, ResetWrite, ResetQueue, StartResume, Approve, RetryClaim, ResetCheck,
       ReapJob
  \* Nothing runs for the job: what is left of Driven, and of Gated.
  <1>d. ASSUME step[j] = "idle", Driven(j)
        PROVE  /\ stage[j] \in Active \/ (stage[j] = "needs-review" /\ approved[j])
               /\ stage[j] # "completed"
    BY <1>d, <1>i, <1>n DEF DrivenStage, Validates, Active
  \* Claimed, with nothing queued and nothing running.
  <1>1. CASE RetryQueue(j)
    <2>1. /\ claimed[j] /\ ~claimed'[j] /\ UNCHANGED <<approved, step, reset>>
          /\ step[j] = "idle" /\ queue[j] = <<>> /\ reset[j] = NoReset
      BY <1>1, <1>i, <1>t DEF RetryQueue, OneDriver
    <2>2. /\ stage[j] \in Active \/ (stage[j] = "needs-review" /\ approved[j])
          /\ stage[j] # "completed"
      BY <1>d, <2>1 DEF Driven
    <2>3. CASE queue' = [queue EXCEPT ![j] = Append(@, "analyze-duplicates")] /\ UNCHANGED stage
      <3>1. queue'[j] # <<>> /\ Tail(queue'[j]) = <<>> /\ Head(queue'[j]) = "analyze-duplicates"
        BY <1>q, <1>t, <2>1, <2>3 DEF ResumePoints
      <3>2. OneDriver(j)' /\ DrivenStage(j)'
        BY <2>1, <2>2, <2>3, <3>1 DEF OneDriver, DrivenStage, Driven, NoReset
      <3> QED
        BY <1>i, <1>l, <2>1, <2>2, <2>3, <3>1, <3>2 DEF JobInv, Gated, At
    <2>4. CASE stage' = [stage EXCEPT ![j] = "failed"] /\ UNCHANGED queue
      <3>1. stage'[j] = "failed" /\ "failed" \notin Active
        BY <1>t, <2>4 DEF Active
      <3>2. OneDriver(j)' /\ DrivenStage(j)'
        BY <2>1, <2>4, <3>1 DEF OneDriver, DrivenStage, Driven, NoReset
      <3> QED
        BY <1>i, <1>l, <2>1, <2>4, <3>1, <3>2 DEF JobInv, Gated, At
    <2> QED
      BY <1>1, <2>3, <2>4 DEF RetryQueue
  <1>2. CASE ResetWrite(j)
    <2>1. /\ reset[j].at = "checked" /\ reset[j] # NoReset
          /\ UNCHANGED <<approved, step, queue, claimed, via>>
      BY <1>2 DEF ResetWrite, NoReset
    <2>2. stage[j] = "failed" /\ step[j] = "idle" /\ queue[j] = <<>> /\ ~claimed[j]
      BY <1>i, <2>1 DEF OneDriver
    <2>3. reset[j].to \in ResetTargets /\ ResetTargets \subseteq Active
      BY <2>1, IngestReviewAssumption DEF TypeInv, Targeted, IngestReviewAssumption, Active
    <2>4. /\ stage' = [stage EXCEPT ![j] = reset[j].to]
          /\ reset' = [reset EXCEPT ![j].at = "written"]
      BY <1>2, <2>2 DEF ResetWrite
    <2>5. stage'[j] \in Active /\ reset'[j].at = "written" /\ stage'[j] # "completed"
      BY <1>t, <2>3, <2>4 DEF Active
    <2>6. OneDriver(j)' /\ DrivenStage(j)'
      BY <2>1, <2>2, <2>5 DEF OneDriver, DrivenStage, Driven
    <2> QED
      BY <1>i, <1>l, <2>1, <2>2, <2>5, <2>6 DEF JobInv, Gated, At
  <1>3. CASE ResetQueue(j)
    <2>1. /\ reset[j].at = "written" /\ reset[j] # NoReset /\ reset'[j] = NoReset
          /\ UNCHANGED <<approved, step, claimed>>
      BY <1>3, <1>t DEF ResetQueue, NoReset
    <2>2. step[j] = "idle" /\ queue[j] = <<>> /\ ~claimed[j]
      BY <1>i, <2>1 DEF OneDriver
    <2>3. /\ stage[j] \in Active \/ (stage[j] = "needs-review" /\ approved[j])
          /\ stage[j] # "completed"
      BY <1>d, <2>1, <2>2 DEF Driven
    <2>4. CASE /\ queue' = [queue EXCEPT ![j] = Append(@, StageToResumeFrom(reset[j].to))]
               /\ via' = [via EXCEPT ![j] = reset[j].to] /\ UNCHANGED stage
      <3>1. /\ queue'[j] # <<>> /\ Tail(queue'[j]) = <<>>
            /\ Head(queue'[j]) = StageToResumeFrom(reset[j].to)
        BY <1>q, <1>t, <2>2, <2>4, ResumePointType
      <3>2. OneDriver(j)' /\ DrivenStage(j)'
        BY <2>1, <2>2, <2>3, <2>4, <3>1 DEF OneDriver, DrivenStage, Driven
      <3>3. via'[j] = reset[j].to
        BY <1>t, <2>4
      <3>4. /\ Head(queue'[j]) = "create-events" => via'[j] = "create-events"
            /\ Head(queue'[j]) = "create-schema-version" => via'[j] = "geocode-batch"
        BY <3>1, <3>3, ResumedAt
      <3> QED
        BY <1>i, <1>l, <2>1, <2>2, <2>3, <2>4, <3>2, <3>4 DEF JobInv, Gated, At, Cleared
    <2>5. CASE stage' = [stage EXCEPT ![j] = "failed"] /\ UNCHANGED queue
      <3>1. stage'[j] = "failed" /\ "failed" \notin Active
        BY <1>t, <2>5 DEF Active
      <3>2. OneDriver(j)' /\ DrivenStage(j)'
        BY <2>1, <2>2, <2>5, <3>1 DEF OneDriver, DrivenStage, Driven, NoReset
      <3> QED
        BY <1>i, <1>l, <2>1, <2>2, <2>5, <3>1, <3>2 DEF JobInv, Gated, At
    <2> QED
      BY <1>3, <2>4, <2>5 DEF ResetQueue
  <1>4. CASE StartResume(j)
    <2>1. /\ queue[j] # <<>> /\ step[j] = "idle" /\ queue'[j] = Tail(queue[j])
          /\ UNCHANGED <<stage, approved, claimed, reset, retried, via>>
      BY <1>4, <1>t DEF StartResume
    <2>2. queue'[j] = <<>> /\ ~claimed[j] /\ reset[j] = NoReset
      BY <1>i, <2>1 DEF OneDriver
    <2>3. /\ stage[j] \in Active \/ (stage[j] = "needs-review" /\ approved[j])
          /\ stage[j] # "completed"
      BY <1>d, <2>1 DEF Driven
    <2>4. /\ step'[j] \in {"analyze", "detect", "version", "events"}
          /\ step'[j] = "version" => Head(queue[j]) = "create-schema-version"
          /\ step'[j] = "events" => Head(queue[j]) = "create-events"
      <3>1. Head(queue[j]) \in ResumePoints
        BY <1>t, <2>1
      <3> QED
        BY <1>4, <1>t, <3>1 DEF StartResume, ResumePoints
    <2>5. OneDriver(j)' /\ DrivenStage(j)'
      BY <2>1, <2>2, <2>3, <2>4 DEF OneDriver, DrivenStage, Driven
    <2> QED
      BY <1>i, <1>l, <2>1, <2>2, <2>3, <2>4, <2>5 DEF JobInv, Gated, At, Cleared
  <1>5. CASE Approve(j)
    <2>1. /\ stage[j] = "needs-review" /\ ~approved[j] /\ approved'[j] /\ step[j] = "idle"
          /\ UNCHANGED <<step, claimed, reset, via>>
      BY <1>5, <1>t DEF Approve, Approvable, NoRace
    <2>2. queue[j] = <<>> /\ ~claimed[j] /\ reset[j].at # "written"
      BY <1>d, <1>n, <2>1 DEF Driven, Terminal
    <2>3. reset[j] = NoReset
      BY <1>i, <2>1, <2>2 DEF OneDriver
    <2>4. CASE stage' = [stage EXCEPT ![j] = "completed"] /\ UNCHANGED queue
      <3>1. stage'[j] = "completed" /\ "completed" \notin Active
        BY <1>t, <2>4 DEF Active
      <3>2. OneDriver(j)' /\ DrivenStage(j)'
        BY <2>1, <2>2, <2>3, <2>4, <3>1 DEF OneDriver, DrivenStage, Driven
      <3> QED
        BY <1>i, <1>l, <2>1, <2>2, <2>4, <3>1, <3>2 DEF JobInv, Gated, At, Cleared
    <2>5. CASE /\ reason[j] # "high-row-errors" /\ UNCHANGED stage
               /\ queue' = [queue EXCEPT ![j] = Append(@, ResumePoint(reason[j]))]
      <3>1. /\ queue'[j] # <<>> /\ Tail(queue'[j]) = <<>>
            /\ Head(queue'[j]) = ResumePoint(reason[j])
        BY <1>q, <1>t, <2>2, <2>5, ResumePointType
      <3>2. OneDriver(j)' /\ DrivenStage(j)'
        BY <2>1, <2>2, <2>3, <2>5, <3>1 DEF OneDriver, DrivenStage, Driven, Active
      <3>3. Head(queue'[j]) = "create-events" => linked[j]
        BY <1>i, <2>5, <3>1, ResumedAt DEF Gated
      <3> QED
        BY <1>i, <1>l, <2>1, <2>2, <2>5, <3>2, <3>3 DEF JobInv, Gated, At, Cleared
    <2> QED
      BY <1>5, <2>4, <2>5 DEF Approve
  <1>6. CASE RetryClaim(j)
    <2>1. /\ stage[j] = "failed" /\ reset[j] = NoReset /\ stage'[j] \in Active /\ claimed'[j]
          /\ stage'[j] # "completed" /\ UNCHANGED <<approved, step, queue, reset, via>>
      BY <1>6, <1>t DEF RetryClaim, NoRace, Active
    <2>2. step[j] = "idle" /\ queue[j] = <<>>
      BY <1>i, <2>1 DEF DrivenStage, Driven, Active
    <2>3. OneDriver(j)' /\ DrivenStage(j)'
      BY <2>1, <2>2 DEF OneDriver, DrivenStage, Driven
    <2> QED
      BY <1>i, <1>l, <2>1, <2>2, <2>3 DEF JobInv, Gated, At
  <1>7. CASE ResetCheck(j)
    <2>1. /\ stage[j] = "failed" /\ reset'[j].at = "checked"
          /\ UNCHANGED <<stage, approved, step, queue, claimed, via>>
      BY <1>7, <1>t DEF ResetCheck
    <2>2. step[j] = "idle" /\ queue[j] = <<>> /\ ~claimed[j] /\ stage[j] \notin Active
      BY <1>i, <2>1 DEF DrivenStage, Driven, Active
    <2>3. OneDriver(j)' /\ DrivenStage(j)'
      BY <2>1, <2>2 DEF OneDriver, DrivenStage, Driven
    <2> QED
      BY <1>i, <1>l, <2>1, <2>2, <2>3 DEF JobInv, Gated, At
  <1>8. CASE ReapJob(j)
    <2>1. /\ ~Driven(j) /\ stage[j] # "failed" /\ stage'[j] = "failed"
          /\ UNCHANGED <<approved, step, queue, claimed, reset, via>>
      BY <1>8, <1>t DEF ReapJob, Reapable, NoRace
    <2>2. step[j] = "idle" /\ queue[j] = <<>> /\ ~claimed[j] /\ reset[j] = NoReset
      BY <1>i, <2>1 DEF Driven, OneDriver
    <2>3. OneDriver(j)' /\ DrivenStage(j)'
      BY <2>1, <2>2 DEF OneDriver, DrivenStage, Driven, Active, NoReset
    <2> QED
      BY <1>i, <1>l, <2>1, <2>2, <2>3 DEF JobInv, Gated, At
  <1> QED
    BY <1>1, <1>2, <1>3, <1>4, <1>5, <1>6, <1>7, <1>8 DEF Routes

LEMMA ReviewInit == Init => ReviewInv
  BY DEF Init, ReviewInv, JobInv, OneDriver, DrivenStage, Driven, Gated, At, NoReset, Active

LEMMA ReviewStep ==
    ASSUME NoRace
    PROVE  TypeInv /\ ReviewInv /\ [Next]_vars => ReviewInv'
  <1> SUFFICES ASSUME TypeInv, ReviewInv, [Next]_vars PROVE ReviewInv'
    OBVIOUS
  <1>1. CASE UNCHANGED <<stage, reason, requires, approved, linked, step, retried, queue,
                         claimed, reset, via>>
    BY <1>1 DEF ReviewInv, JobInv, OneDriver, DrivenStage, Driven, Parked, Validates, Gated, At,
       Cleared
  <1>2. ASSUME NEW j \in Jobs, JobStep(j) PROVE ReviewInv'
    <2>1. JobInv(j)'
      BY <1>2, RunReviews, RouteReviews DEF JobStep, ReviewInv
    <2>2. ASSUME NEW i \in Jobs \ {j} PROVE JobInv(i)'
      BY <1>2, OneJob DEF Others, ReviewInv, JobInv, OneDriver, DrivenStage, Driven, Parked,
         Validates, Gated, At, Cleared
    <2> QED
      BY <2>1, <2>2 DEF ReviewInv
  <1> QED
    BY <1>1, <1>2, NextJob DEF vars

LEMMA ReviewInvariant ==
    ASSUME NoRace
    PROVE  Spec => [](TypeInv /\ ReviewInv)
  BY ReviewInit, ReviewStep, TypeInvariant, PTL DEF Spec

\* Behind create-schema-version a job has a schema version and the approval its
\* schema needs, unless an admin's reset passed by the one or the other.
THEOREM ApprovalsHeld ==
    ASSUME NoRace
    PROVE  Spec => []NoUnapprovedSchema
  <1>1. ReviewInv => NoUnapprovedSchema
    BY DEF ReviewInv, JobInv, Gated, At, Cleared, NoUnapprovedSchema
  <1> QED
    BY <1>1, ReviewInvariant, PTL

\* A job that waits for its user leaves the review by the approval, by the error of
\* the task that asked for it or by the reaper.
THEOREM ReviewsHeld ==
    ASSUME NoRace
    PROVE  Spec => ReviewNotBypassed
  <1>1. TypeInv /\ ReviewInv /\ [Next]_vars =>
          [\A j \in Jobs :
             stage[j] = "needs-review" /\ stage'[j] # "needs-review" => LeavesReview(j)]_vars
    <2> SUFFICES ASSUME TypeInv, ReviewInv, [Next]_vars, NEW j \in Jobs,
                        stage[j] = "needs-review", stage'[j] # "needs-review"
                 PROVE  LeavesReview(j)
      OBVIOUS
    <2>1. PICK i \in Jobs : JobStep(i)
      BY NextJob DEF vars
    <2>2. i = j
      BY <2>1, OneJob DEF Others
    <2>t. stage \in [Jobs -> Active \cup Terminal] /\ step \in [Jobs -> Steps]
      BY DEF TypeInv, TypeOK
    <2>r. Driven(j) => approved[j] \/ Validates(j)
      BY DEF ReviewInv, JobInv, DrivenStage, Active
    <2>3. CASE Approve(j)
      BY <2>3 DEF Approve, TypeInv, TypeOK, LeavesReview
    <2>4. CASE Run(j)
      <3>1. step[j] # "idle" /\ UNCHANGED approved
        BY <2>4 DEF Run, AnalyzeDuplicates, DetectSchema, GuardReview, CompareSchemas,
           FinishValidation, RetryValidation, CreateSchemaVersion, GeocodeBatch, CreateEvents,
           TaskFails, Throws, Enter
      <3>2. CASE approved[j]
        BY <3>1, <3>2 DEF LeavesReview
      <3>3. CASE Validates(j)
        <4>1. GuardReview(j) \/ FinishValidation(j) \/ RetryValidation(j) \/ TaskFails(j)
          BY <2>4, <3>3 DEF Run, Validates, AnalyzeDuplicates, DetectSchema, CompareSchemas,
             CreateSchemaVersion, GeocodeBatch, CreateEvents, Enter
        <4>2. CASE GuardReview(j)
          BY <2>t, <3>3, <4>2 DEF GuardReview, Enter, Validates, LeavesReview
        <4>3. CASE TaskFails(j)
          BY <2>t, <3>3, <4>3 DEF TaskFails, Validates, LeavesReview
        <4> QED
          BY <4>1, <4>2, <4>3 DEF FinishValidation, RetryValidation
      <3> QED
        BY <2>r, <3>1, <3>2, <3>3 DEF Driven
    <2>5. CASE RetryQueue(j) \/ ResetQueue(j)
      <3>1. (claimed[j] \/ reset[j].at = "written") /\ UNCHANGED approved
        BY <2>5 DEF RetryQueue, ResetQueue
      <3>2. step[j] = "idle"
        BY <3>1 DEF ReviewInv, JobInv, OneDriver, NoReset
      <3> QED
        BY <2>r, <3>1, <3>2 DEF Driven, Validates, LeavesReview
    <2>6. CASE ResetWrite(j)
      <3>1. reset[j].at = "checked" /\ reset[j] # NoReset
        BY <2>6 DEF ResetWrite, NoReset
      <3> QED
        BY <3>1 DEF ReviewInv, JobInv, OneDriver
    <2>7. CASE StartResume(j) \/ RetryClaim(j) \/ ResetCheck(j)
      BY <2>7 DEF StartResume, RetryClaim, ResetCheck
    <2>8. CASE ReapJob(j)
      BY <2>t, <2>8 DEF ReapJob, LeavesReview, TypeInv, TypeOK, Writers
    <2> QED
      BY <2>1, <2>2, <2>3, <2>4, <2>5, <2>6, <2>7, <2>8 DEF JobStep, Routes
  <1> QED
    BY <1>1, ReviewInvariant, PTL DEF Spec, ReviewNotBypassed

=============================================================================
