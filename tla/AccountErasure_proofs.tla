----------------------- MODULE AccountErasure_proofs -----------------------
(***************************************************************************)
(* Theorems about AccountErasure, for every set of users, admins and       *)
(* exports and every number of faults.                                     *)
(***************************************************************************)
EXTENDS AccountErasure, TLAPS

Listings == [id : Exports, was : Statuses, path : BOOLEAN]
Passes == {"idle", "expire", "unlink", "purge", "reap"}
JobStates == {"none", "request", "queued", "archive", "ready", "fail"}

\* The part of TypeOK about exports.
ExportTypes ==
    /\ status \in [Exports -> Statuses] /\ path \in [Exports -> BOOLEAN]
    /\ disk \in [Exports -> {"none", "unrecorded", "recorded"}]
    /\ age \in [Exports -> {"new", "stale", "old"}] /\ lapsed \in [Exports -> BOOLEAN]
    /\ job \in [Exports -> JobStates]
    /\ download \in [Exports -> {"none", "stat", "retire", "unlink"}]

CleanerType == cleaner \in [pass : Passes, todo : SUBSET Listings, files : SUBSET Exports]

\* The part of TypeOK about users.
UserTypes ==
    /\ account \in [Users -> {"active", "pending", "deleted"}]
    /\ due \in [Users -> BOOLEAN] /\ erased \in [Users -> BOOLEAN]
    /\ asking \in [Users -> {"none", "schedule", "cancel"}]

EraserType ==
    eraser \in [pc : {"idle", "next", "collect", "commit", "unlink"},
                list : SUBSET Users, who : Users \cup {Nobody},
                found : SUBSET Exports, files : SUBSET Exports]

LEMMA TypeParts ==
    TypeOK <=> ExportTypes /\ CleanerType /\ UserTypes /\ EraserType /\ left \in 0..MaxFaults
  BY DEF TypeOK, ExportTypes, CleanerType, UserTypes, EraserType, Listings, Passes,
     JobStates

\* The faults left stay in range over every step.
LEMMA LeftStep ==
    ASSUME left \in 0..MaxFaults, CleanerType, [Next]_vars
    PROVE  left' \in 0..MaxFaults
  <1>1. \A f \in FaultKinds : Fault(f) \/ NoFault => left' \in 0..MaxFaults
    BY AccountErasureAssumption DEF Fault, NoFault
  <1>2. UNCHANGED left => left' \in 0..MaxFaults
    OBVIOUS
  <1>3. \A e \in Exports, f \in FaultKinds : Throws(e, f) => left' \in 0..MaxFaults
    BY <1>1 DEF Throws
  <1>4. \A e \in Exports : UnlinkExportFile(e) => left' \in 0..MaxFaults
    BY <1>1, <1>3 DEF UnlinkExportFile, FaultKinds
  <1>5. ASSUME NEW e \in Exports,
               Request(e) \/ Job(e) \/ WorkerDies(e) \/ DownloadRead(e) \/ Download(e)
        PROVE  left' \in 0..MaxFaults
    BY <1>1, <1>2, <1>3, <1>4, <1>5
    DEF Request, Job, QueueExport, JobStart, CreateArchive, MarkReady,
        HandleExportFailure, WorkerDies, DownloadRead, Download, DownloadStat,
        DownloadRetire, DownloadUnlink, FaultKinds
  <1>6. ASSUME NEW u \in Users, ScheduleRead(u) \/ CancelRead(u) \/ Ask(u)
        PROVE  left' \in 0..MaxFaults
    BY <1>2, <1>6 DEF ScheduleRead, CancelRead, Ask, ScheduleWrite, CancelWrite
  <1>7. CASE Cleanup
    <2>1. ASSUME NEW r \in cleaner.todo, ExpireOne(r) \/ PurgeOne(r) \/ ReapOne(r)
          PROVE  left' \in 0..MaxFaults
      <3>1. r.id \in Exports
        BY <2>1 DEF CleanerType, Listings
      <3> QED
        BY <1>1, <1>3, <2>1, <3>1 DEF ExpireOne, PurgeOne, ReapOne, FaultKinds
    <2> QED
      BY <1>2, <1>4, <1>7, <2>1
      DEF Cleanup, StartCleanup, NextPass, UnlinkPending, CleanerType
  <1>8. CASE Erasures
    BY <1>1, <1>2, <1>8
    DEF Erasures, StartErasures, CheckAgain, CollectExports, CommitErasure,
        UnlinkErased, NextAccount, FaultKinds
  <1>9. CASE Time
    BY <1>2, <1>9 DEF Time, GrowStale, GrowOld, Lapse, GraceEnds
  <1> QED
    BY <1>2, <1>5, <1>6, <1>7, <1>8, <1>9 DEF Next, vars

\* The steps of an export, its job and its downloads keep the types.
LEMMA ExportStepTypes ==
    ASSUME ExportTypes, NEW e \in Exports,
           Request(e) \/ Job(e) \/ WorkerDies(e) \/ DownloadRead(e) \/ Download(e)
    PROVE  /\ ExportTypes'
           /\ UNCHANGED <<cleaner, account, due, asking, erased, eraser>>
  <1>1. CASE Request(e) \/ WorkerDies(e) \/ DownloadRead(e)
    BY <1>1 DEF ExportTypes, Request, WorkerDies, DownloadRead, Statuses, Active,
       JobStates, export, user
  <1>2. CASE Job(e)
    BY <1>2 DEF ExportTypes, Job, QueueExport, JobStart, CreateArchive, MarkReady,
       HandleExportFailure, Statuses, Active, JobStates, user
  <1>3. CASE Download(e)
    BY <1>3 DEF ExportTypes, Download, DownloadStat, DownloadRetire, DownloadUnlink,
       UnlinkExportFile, Statuses, user
  <1> QED
    BY <1>1, <1>2, <1>3

\* So do those of the cleanup.
LEMMA CleanupTypes ==
    ASSUME ExportTypes, CleanerType, Cleanup
    PROVE  /\ ExportTypes' /\ CleanerType'
           /\ UNCHANGED <<account, due, asking, erased, eraser>>
  <1>1. \A e \in Exports : Listed(e) \in Listings
    BY DEF ExportTypes, Listed, Listings
  <1>2. CASE StartCleanup \/ NextPass
    <2>1. \A S \in SUBSET Exports : {Listed(e) : e \in S} \subseteq Listings
      BY <1>1
    <2>2. CleanerType /\ StartCleanup => CleanerType'
      <3>1. SUFFICES ASSUME StartCleanup PROVE CleanerType'
        OBVIOUS
      <3>2. PICK S \in SUBSET Exports :
              cleaner' = [pass |-> "expire", files |-> {}, todo |-> {Listed(e) : e \in S}]
        BY <3>1 DEF StartCleanup
      <3> QED
        BY <2>1, <3>2 DEF CleanerType, Passes
    <2>3. CleanerType /\ NextPass => CleanerType'
      <3>1. SUFFICES ASSUME NextPass PROVE CleanerType'
        OBVIOUS
      <3>2. CASE cleaner' = Resting \/ cleaner' = [cleaner EXCEPT !.pass = "unlink"]
        BY <3>2 DEF CleanerType, Passes, Resting
      <3>3. CASE \E S \in SUBSET Exports, p \in {"purge", "reap"} :
                   cleaner' = [cleaner EXCEPT !.pass = p, !.todo = {Listed(e) : e \in S}]
        BY <2>1, <3>3 DEF CleanerType, Passes
      <3>4. Stale \in SUBSET Exports
        BY DEF Stale
      <3> QED
        BY <3>1, <3>2, <3>3, <3>4 DEF NextPass
    <2>4. UNCHANGED <<export, download, user, eraser>>
      BY <1>2 DEF StartCleanup, NextPass
    <2> QED
      BY <1>2, <2>2, <2>3, <2>4 DEF ExportTypes, export, user
  <1>3. ASSUME NEW r \in cleaner.todo, ExpireOne(r) \/ PurgeOne(r) \/ ReapOne(r)
        PROVE  /\ ExportTypes' /\ CleanerType'
               /\ UNCHANGED <<account, due, asking, erased, eraser>>
    <2>1. r.id \in Exports
      BY DEF CleanerType, Listings
    <2>2. CleanerType'
      BY <1>3, <2>1 DEF ExpireOne, PurgeOne, ReapOne, CleanerType
    <2>3. ExportTypes'
      <3>1. CASE ExpireOne(r)
        BY <2>1, <3>1 DEF ExpireOne, ExportTypes, Statuses
      <3>2. CASE PurgeOne(r)
        <4>1. status' \in [Exports -> Statuses] /\ path' \in [Exports -> BOOLEAN]
          BY <2>1, <3>2 DEF PurgeOne, ExportTypes, Statuses
        <4>2. disk' \in [Exports -> {"none", "unrecorded", "recorded"}]
          BY <2>1, <3>2 DEF PurgeOne, ExportTypes
        <4> QED
          BY <3>2, <4>1, <4>2 DEF PurgeOne, ExportTypes
      <3>3. CASE ReapOne(r)
        BY <2>1, <3>3 DEF ReapOne, ExportTypes, Statuses
      <3> QED
        BY <1>3, <3>1, <3>2, <3>3
    <2> QED
      BY <1>3, <2>2, <2>3 DEF ExpireOne, PurgeOne, ReapOne, user
  <1>4. ASSUME NEW e \in cleaner.files, UnlinkPending(e)
        PROVE  /\ ExportTypes' /\ CleanerType'
               /\ UNCHANGED <<account, due, asking, erased, eraser>>
    BY <1>4 DEF UnlinkPending, UnlinkExportFile, ExportTypes, CleanerType, user
  <1> QED
    BY <1>2, <1>3, <1>4 DEF Cleanup

\* So do those of the erasure.
LEMMA ErasureTypes ==
    ASSUME ExportTypes, UserTypes, EraserType, Erasures
    PROVE  ExportTypes' /\ UserTypes' /\ EraserType' /\ UNCHANGED cleaner
  <1>1. CASE StartErasures \/ CollectExports \/ NextAccount
    <2>1. UNCHANGED <<export, download, user, cleaner>>
      BY <1>1 DEF StartErasures, CollectExports, NextAccount, export, user
    <2>2. ASSUME StartErasures PROVE EraserType'
      BY <2>2 DEF StartErasures, EraserType, Asleep
    <2>3. ASSUME CollectExports PROVE EraserType'
      BY <2>3 DEF CollectExports, EraserType
    <2>4. ASSUME NextAccount PROVE EraserType'
      <3>1. CASE eraser' = Asleep
        BY <3>1 DEF EraserType, Asleep
      <3>2. CASE eraser' = [eraser EXCEPT !.pc = "next", !.who = Nobody]
        BY <3>2 DEF EraserType
      <3> QED
        BY <2>4, <3>1, <3>2 DEF NextAccount
    <2>5. EraserType'
      BY <1>1, <2>2, <2>3, <2>4
    <2> QED
      BY <2>1, <2>5 DEF ExportTypes, UserTypes, export, user
  <1>2. ASSUME NEW u \in eraser.list, CheckAgain(u)
        PROVE  ExportTypes' /\ UserTypes' /\ EraserType' /\ UNCHANGED cleaner
    <2>1. EraserType'
      <3>1. CASE eraser' = [eraser EXCEPT !.list = @ \ {u}, !.pc = "collect", !.who = u]
        BY <3>1 DEF EraserType
      <3>2. CASE eraser' = [eraser EXCEPT !.list = @ \ {u}]
        BY <3>2 DEF EraserType
      <3> QED
        BY <1>2, <3>1, <3>2 DEF CheckAgain
    <2>2. UNCHANGED <<export, download, cleaner, user>>
      BY <1>2 DEF CheckAgain
    <2> QED
      BY <2>1, <2>2 DEF ExportTypes, UserTypes, export, user
  <1>3. CASE CommitErasure
    <2>1. EraserType'
      BY <1>3 DEF CommitErasure, EraserType
    <2>2. UserTypes' /\ UNCHANGED <<cleaner, disk, age, lapsed, job, download>>
      BY <1>3 DEF CommitErasure, UserTypes, EraserType
    <2>3. status' \in [Exports -> Statuses] /\ path' \in [Exports -> BOOLEAN]
      <3>1. CASE UNCHANGED <<status, path>>
        BY <3>1 DEF ExportTypes
      <3>2. CASE /\ status' = [e \in Exports |->
                                IF e \in eraser.found THEN "deleted" ELSE status[e]]
                 /\ path' = [e \in Exports |-> path[e] /\ e \notin eraser.found]
        BY <3>2 DEF ExportTypes, Statuses
      <3> QED
        BY <1>3, <3>1, <3>2 DEF CommitErasure
    <2> QED
      BY <2>1, <2>2, <2>3 DEF ExportTypes
  <1>4. ASSUME NEW e \in eraser.files, UnlinkErased(e)
        PROVE  ExportTypes' /\ UserTypes' /\ EraserType' /\ UNCHANGED cleaner
    BY <1>4 DEF UnlinkErased, ExportTypes, UserTypes, EraserType, user
  <1> QED
    BY <1>1, <1>2, <1>3, <1>4 DEF Erasures

LEMMA TypeStep == TypeOK /\ [Next]_vars => TypeOK'
  <1> SUFFICES ASSUME TypeOK, [Next]_vars PROVE TypeOK'
    OBVIOUS
  <1>1. ExportTypes /\ CleanerType /\ UserTypes /\ EraserType
    BY TypeParts
  <1>2. left' \in 0..MaxFaults
    BY <1>1, LeftStep DEF TypeOK
  <1> SUFFICES ExportTypes' /\ CleanerType' /\ UserTypes' /\ EraserType'
    BY <1>2 DEF TypeOK, ExportTypes, CleanerType, UserTypes, EraserType, Listings,
       Passes, JobStates
  <1>3. ASSUME NEW e \in Exports,
               Request(e) \/ Job(e) \/ WorkerDies(e) \/ DownloadRead(e) \/ Download(e)
        PROVE  ExportTypes' /\ CleanerType' /\ UserTypes' /\ EraserType'
    BY <1>1, <1>3, ExportStepTypes DEF CleanerType, UserTypes, EraserType, user
  <1>4. ASSUME NEW u \in Users, ScheduleRead(u) \/ CancelRead(u) \/ Ask(u)
        PROVE  ExportTypes' /\ CleanerType' /\ UserTypes' /\ EraserType'
    <2>1. UNCHANGED <<export, download, cleaner, eraser>>
      BY <1>4 DEF ScheduleRead, CancelRead, Ask, ScheduleWrite, CancelWrite
    <2>2. UserTypes'
      BY <1>1, <1>4 DEF ScheduleRead, CancelRead, Ask, ScheduleWrite, CancelWrite, UserTypes
    <2> QED
      BY <1>1, <2>1, <2>2 DEF ExportTypes, CleanerType, EraserType, export
  <1>5. CASE Cleanup
    BY <1>1, <1>5, CleanupTypes DEF UserTypes, EraserType, user
  <1>6. CASE Erasures
    BY <1>1, <1>6, ErasureTypes DEF CleanerType
  <1>7. CASE Time
    <2>1. UNCHANGED <<cleaner, eraser>>
      BY <1>7 DEF Time, GrowStale, GrowOld, Lapse, GraceEnds
    <2>2. ASSUME NEW e \in Exports, GrowStale(e) \/ GrowOld(e) \/ Lapse(e)
          PROVE  ExportTypes' /\ UserTypes'
      <3>1. /\ age' \in [Exports -> {"new", "stale", "old"}]
            /\ lapsed' \in [Exports -> BOOLEAN]
        BY <1>1, <2>2 DEF GrowStale, GrowOld, Lapse, ExportTypes
      <3>2. UNCHANGED <<status, path, disk, job, download, user>>
        BY <2>2 DEF GrowStale, GrowOld, Lapse
      <3> QED
        BY <1>1, <3>1, <3>2 DEF ExportTypes, UserTypes, user
    <2>3. ASSUME NEW u \in Users, GraceEnds(u)
          PROVE  ExportTypes' /\ UserTypes'
      BY <1>1, <2>3 DEF GraceEnds, ExportTypes, UserTypes, export
    <2> QED
      BY <1>1, <1>7, <2>1, <2>2, <2>3 DEF Time, CleanerType, EraserType
  <1>8. CASE UNCHANGED vars
    BY <1>1, <1>8 DEF vars, export, user, ExportTypes, CleanerType, UserTypes, EraserType
  <1> QED
    BY <1>3, <1>4, <1>5, <1>6, <1>7, <1>8 DEF Next

LEMMA TypeInit == Init => TypeOK
  BY AccountErasureAssumption
  DEF Init, TypeOK, Statuses, Active, Resting, Asleep

\* Every variable stays within its type, whatever fails.
THEOREM TypesKept == Spec => []TypeOK
  BY TypeInit, TypeStep, PTL DEF Spec

---------------------------------------------------------------------------
(* The last admin *)

\* Who is active, or about to be made active again, was not erased; and an admin
\* past the check has another one beside it until its erasure is committed.
AdminInv ==
    /\ \A u \in Users : account[u] = "active" \/ asking[u] = "cancel" => ~erased[u]
    /\ eraser.pc \in {"collect", "commit"} /\ eraser.who \in Admins =>
          \E v \in Admins \ {eraser.who} : ~erased[v]
    /\ AdminRemains

LEMMA AdminUser ==
    ASSUME UserTypes, AdminInv, NEW u \in Users,
           ScheduleRead(u) \/ CancelRead(u) \/ Ask(u)
    PROVE  AdminInv'
  <1>1. UNCHANGED <<erased, eraser>>
    BY DEF ScheduleRead, CancelRead, Ask, ScheduleWrite, CancelWrite
  <1>2. \A v \in Users : (account[v] = "active" \/ asking[v] = "cancel")' => ~erased[v]
    BY DEF AdminInv, UserTypes, ScheduleRead, CancelRead, Ask, ScheduleWrite, CancelWrite
  <1> QED
    BY <1>1, <1>2 DEF AdminInv, AdminRemains

LEMMA AdminErasure ==
    ASSUME "slowCancel" \notin Faults, UserTypes, EraserType, AdminInv, Erasures
    PROVE  AdminInv'
  <1>1. CASE StartErasures \/ CollectExports \/ NextAccount
    <2>1. UNCHANGED user
      BY <1>1 DEF StartErasures, CollectExports, NextAccount
    <2>2. CASE eraser'.pc \notin {"collect", "commit"}
      BY <2>1, <2>2 DEF AdminInv, AdminRemains, user
    <2>3. CASE CollectExports
      <3>1. eraser.pc = "collect" /\ eraser'.who = eraser.who
        BY <2>3 DEF CollectExports, EraserType
      <3> QED
        BY <2>1, <3>1 DEF AdminInv, AdminRemains, user
    <2>4. CASE StartErasures
      <3>1. eraser'.pc = "next"
        BY <2>4 DEF StartErasures, Asleep
      <3> QED
        BY <2>2, <3>1
    <2>5. CASE NextAccount
      <3>1. eraser'.pc \in {"idle", "next"}
        <4>1. CASE eraser' = Asleep
          BY <4>1 DEF Asleep
        <4>2. CASE eraser' = [eraser EXCEPT !.pc = "next", !.who = Nobody]
          BY <4>2 DEF EraserType
        <4> QED
          BY <2>5, <4>1, <4>2 DEF NextAccount
      <3> QED
        BY <2>2, <3>1
    <2> QED
      BY <1>1, <2>3, <2>4, <2>5
  <1>2. ASSUME NEW u \in eraser.list, CheckAgain(u)
        PROVE  AdminInv'
    <2>1. UNCHANGED user
      BY <1>2 DEF CheckAgain
    <2>2. CASE CanDelete(u) /\ eraser'.who = u
      <3>1. u \in Admins => \E v \in Admins \ {u} : ~erased[v]
        BY <2>2, AccountErasureAssumption DEF CanDelete, AdminInv
      <3> QED
        BY <2>1, <2>2, <3>1 DEF AdminInv, AdminRemains, user
    <2>3. CASE eraser'.pc = "next"
      BY <2>1, <2>3 DEF AdminInv, AdminRemains, user
    <2> QED
      BY <1>2, <2>2, <2>3 DEF CheckAgain, EraserType
  <1>3. CASE CommitErasure
    <2>1. CASE UNCHANGED <<account, erased, asking>> /\ eraser'.pc = "next"
      BY <2>1 DEF AdminInv, AdminRemains
    <2>2. CASE /\ asking[eraser.who] # "cancel" /\ eraser.pc = "commit"
               /\ account' = [account EXCEPT ![eraser.who] = "deleted"]
               /\ erased' = [erased EXCEPT ![eraser.who] = TRUE]
               /\ eraser'.pc = "unlink" /\ UNCHANGED asking
      <3>1. \A u \in Users : u # eraser.who => erased'[u] = erased[u]
        BY <2>2 DEF UserTypes
      <3>2. Admins # {} => \E v \in Admins : v # eraser.who /\ ~erased[v]
        BY <2>2 DEF AdminInv, AdminRemains
      <3>3. AdminRemains'
        BY <3>1, <3>2, AccountErasureAssumption DEF AdminRemains
      <3>4. \A u \in Users : (account[u] = "active" \/ asking[u] = "cancel")' => ~erased'[u]
        BY <2>2, <3>1 DEF AdminInv, UserTypes
      <3> QED
        BY <2>2, <3>3, <3>4 DEF AdminInv
    <2> QED
      BY <1>3, <2>1, <2>2 DEF CommitErasure, EraserType
  <1>4. ASSUME NEW e \in eraser.files, UnlinkErased(e)
        PROVE  AdminInv'
    <2>1. UNCHANGED user /\ eraser'.pc = "unlink"
      BY <1>4 DEF UnlinkErased, EraserType
    <2> QED
      BY <2>1 DEF AdminInv, AdminRemains, user
  <1> QED
    BY <1>1, <1>2, <1>3, <1>4 DEF Erasures

\* However scheduling, cancelling and the nightly job interleave, an admin is
\* left, as long as no erasure overtakes the write of a cancel.
THEOREM LastAdminRemains ==
    ASSUME "slowCancel" \notin Faults
    PROVE  Spec => []AdminRemains
  <1>1. Init => AdminInv
    BY AccountErasureAssumption DEF Init, AdminInv, AdminRemains, Asleep
  <1>2. TypeOK /\ AdminInv /\ [Next]_vars => AdminInv'
    <2> SUFFICES ASSUME TypeOK, AdminInv, [Next]_vars PROVE AdminInv'
      OBVIOUS
    <2>1. ExportTypes /\ CleanerType /\ UserTypes /\ EraserType
      BY TypeParts
    <2>2. CASE UNCHANGED <<account, asking, erased, eraser>>
      BY <2>2 DEF AdminInv, AdminRemains
    <2>3. ASSUME NEW e \in Exports,
                 Request(e) \/ Job(e) \/ WorkerDies(e) \/ DownloadRead(e) \/ Download(e)
          PROVE  AdminInv'
      BY <2>1, <2>2, <2>3, ExportStepTypes
    <2>4. ASSUME NEW u \in Users, ScheduleRead(u) \/ CancelRead(u) \/ Ask(u)
          PROVE  AdminInv'
      BY <2>1, <2>4, AdminUser
    <2>5. CASE Cleanup
      BY <2>1, <2>2, <2>5, CleanupTypes
    <2>6. CASE Erasures
      BY <2>1, <2>6, AdminErasure
    <2>7. CASE Time
      BY <2>2, <2>7 DEF Time, GrowStale, GrowOld, Lapse, GraceEnds, user
    <2>8. CASE UNCHANGED vars
      BY <2>2, <2>8 DEF vars, user
    <2> QED
      BY <2>3, <2>4, <2>5, <2>6, <2>7, <2>8 DEF Next
  <1>3. AdminInv => AdminRemains
    BY DEF AdminInv
  <1> QED
    BY <1>1, <1>2, <1>3, TypesKept, PTL DEF Spec

---------------------------------------------------------------------------
(* One active export per user *)

\* The export's job has not begun.
Waiting(e) == job[e] \in {"request", "queued"}

\* The record of a waiting job is pending, or deleted with its account; nobody
\* else has it in hand, and the reaper does not find it.
WaitingInv ==
    /\ \A e \in Exports :
        /\ Waiting(e) => status[e] \in {"pending", "deleted"}
        /\ age[e] # "new" \/ download[e] # "none" => ~Waiting(e) /\ status[e] # "absent"
        /\ status[e] = "absent" => job[e] = "none"
    /\ \A r \in cleaner.todo : status[r.id] # "absent" /\ ~Waiting(r.id)

ExportInv == WaitingInv /\ OneActiveExport

\* A step that neither makes a record active nor sets a job waiting, and changes
\* what belongs to a waiting job only by deleting its record.
Quiet ==
    /\ \A e \in Exports :
        /\ \/ UNCHANGED status[e]
           \/ /\ status'[e] \in Statuses \ (Active \cup {"absent"})
              /\ status'[e] = "deleted" \/ ~Waiting(e)'
        /\ Waiting(e)' => Waiting(e)
        /\ status[e] = "absent" => status'[e] # "absent" \/ UNCHANGED job[e]
        /\ \/ UNCHANGED <<age[e], download[e]>>
           \/ ~Waiting(e) /\ status[e] # "absent"
    /\ \A r \in cleaner'.todo :
        r \in cleaner.todo \/ (status[r.id] # "absent" /\ ~Waiting(r.id))

LEMMA QuietKeeps ==
    ASSUME CleanerType, CleanerType', ExportInv, Quiet
    PROVE  ExportInv'
  <1>1. \A e \in Exports : status'[e] \in Active => status[e] \in Active
    BY DEF Quiet, Active
  <1>2. \A e \in Exports : status[e] # "absent" => status'[e] # "absent"
    BY DEF Quiet
  <1>3. \A e \in Exports : Waiting(e)' => Waiting(e)
    BY DEF Quiet
  <1>4. OneActiveExport'
    BY <1>1 DEF ExportInv, OneActiveExport
  <1>5. ASSUME NEW e \in Exports
        PROVE  /\ Waiting(e)' => status'[e] \in {"pending", "deleted"}
               /\ age'[e] # "new" \/ download'[e] # "none" =>
                     ~Waiting(e)' /\ status'[e] # "absent"
               /\ status'[e] = "absent" => job'[e] = "none"
    BY <1>2, <1>3 DEF Quiet, ExportInv, WaitingInv
  <1>6. ASSUME NEW r \in cleaner'.todo
        PROVE  status'[r.id] # "absent" /\ ~Waiting(r.id)'
    <2>1. r.id \in Exports
      BY DEF CleanerType, Listings
    <2>2. status[r.id] # "absent" /\ ~Waiting(r.id)
      BY DEF Quiet, ExportInv, WaitingInv
    <2> QED
      BY <1>2, <1>3, <2>1, <2>2
  <1> QED
    BY <1>4, <1>5, <1>6 DEF ExportInv, WaitingInv, Waiting

LEMMA ExportStepKeeps ==
    ASSUME ExportTypes, CleanerType, CleanerType', ExportInv, NEW e \in Exports,
           Request(e) \/ Job(e) \/ WorkerDies(e) \/ DownloadRead(e) \/ Download(e)
    PROVE  ExportInv'
  <1> USE DEF ExportTypes
  <1>1. ASSUME Request(e) PROVE ExportInv'
    <2>1. /\ status[e] = "absent" /\ status' = [status EXCEPT ![e] = "pending"]
          /\ job' = [job EXCEPT ![e] = "request"]
          /\ UNCHANGED <<age, download, cleaner>>
          /\ \A f \in Exports : Owner[f] = Owner[e] => status[f] \notin Active
      BY <1>1 DEF Request
    <2>2. OneActiveExport'
      BY <2>1 DEF ExportInv, OneActiveExport, Active
    <2>3. \A f \in Exports \ {e} : UNCHANGED <<status[f], job[f], age[f], download[f]>>
      BY <2>1
    <2>4. status'[e] = "pending" /\ age[e] = "new" /\ download[e] = "none"
      BY <2>1 DEF ExportInv, WaitingInv
    <2>5. \A r \in cleaner.todo : r.id \in Exports \ {e}
      BY <2>1 DEF ExportInv, WaitingInv, CleanerType, Listings
    <2> QED
      BY <2>1, <2>2, <2>3, <2>4, <2>5 DEF ExportInv, WaitingInv, Waiting
  <1>2. ASSUME JobStart(e) PROVE ExportInv'
    <2>1. /\ job[e] = "queued" /\ UNCHANGED <<age, download, cleaner>>
          /\ \/ /\ Row(e) /\ job' = [job EXCEPT ![e] = "archive"]
                /\ status' = [status EXCEPT ![e] = "processing"]
             \/ UNCHANGED status /\ \E j \in {"fail", "none"} : job' = [job EXCEPT ![e] = j]
      BY <1>2 DEF JobStart
    <2>2. status[e] \in {"pending", "deleted"} /\ ~Waiting(e)'
      BY <2>1 DEF ExportInv, WaitingInv, Waiting
    <2>3. \A f \in Exports \ {e} : UNCHANGED <<status[f], job[f], age[f], download[f]>>
      BY <2>1
    <2>4. UNCHANGED status[e] \/ (status[e] = "pending" /\ status'[e] = "processing")
      BY <2>1, <2>2 DEF Row
    <2>5. OneActiveExport'
      BY <2>3, <2>4 DEF ExportInv, OneActiveExport, Active
    <2>6. \A f \in Exports : /\ Waiting(f)' => Waiting(f)
                            /\ status'[f] # "absent" <=> status[f] # "absent"
      BY <2>2, <2>3, <2>4 DEF Waiting
    <2>7. \A r \in cleaner.todo : r.id \in Exports
      BY DEF CleanerType, Listings
    <2>8. ASSUME NEW f \in Exports
          PROVE  /\ Waiting(f)' => status'[f] \in {"pending", "deleted"}
                 /\ age'[f] # "new" \/ download'[f] # "none" =>
                       ~Waiting(f)' /\ status'[f] # "absent"
                 /\ status'[f] = "absent" => job'[f] = "none"
      <3>1. CASE f = e
        BY <2>1, <2>2, <2>4, <3>1
      <3>2. CASE f # e
        BY <2>1, <2>3, <3>2 DEF ExportInv, WaitingInv, Waiting
      <3> QED
        BY <3>1, <3>2
    <2>9. \A r \in cleaner'.todo : status'[r.id] # "absent" /\ ~Waiting(r.id)'
      BY <2>1, <2>6, <2>7 DEF ExportInv, WaitingInv
    <2> QED
      BY <2>5, <2>8, <2>9 DEF ExportInv, WaitingInv, Waiting
  <1>3. ASSUME QueueExport(e) \/ CreateArchive(e) \/ MarkReady(e) \/ HandleExportFailure(e)
               \/ WorkerDies(e)
        PROVE  Quiet
    <2>1. status[e] # "absent"
      BY <1>3 DEF QueueExport, CreateArchive, MarkReady, HandleExportFailure, WorkerDies,
         ExportInv, WaitingInv
    <2>2. UNCHANGED <<age, download, cleaner>>
      BY <1>3 DEF QueueExport, CreateArchive, MarkReady, HandleExportFailure, WorkerDies
    <2>3. PICK j \in JobStates :
            /\ job' = [job EXCEPT ![e] = j]
            /\ j \in {"request", "queued"} => Waiting(e) /\ status' = status
      BY <1>3 DEF QueueExport, CreateArchive, MarkReady, HandleExportFailure, WorkerDies,
         Waiting, JobStates
    <2>4. UNCHANGED status \/ \E x \in {"failed", "ready"} : status' = [status EXCEPT ![e] = x]
      BY <1>3 DEF QueueExport, CreateArchive, MarkReady, HandleExportFailure, WorkerDies
    <2>5. \A f \in Exports \ {e} : UNCHANGED <<status[f], job[f]>>
      <3>1. \A f \in Exports \ {e} : job'[f] = job[f]
        BY <2>3
      <3>2. \A f \in Exports \ {e} : status'[f] = status[f]
        BY <2>4
      <3> QED
        BY <3>1, <3>2
    <2>6. Waiting(e)' => Waiting(e) /\ status' = status
      <3>1. job'[e] = j
        BY <2>3
      <3> QED
        BY <2>3, <3>1 DEF Waiting
    <2>7. UNCHANGED status[e] \/ status'[e] \in {"failed", "ready"}
      BY <2>4
    <2>8. \A f \in Exports : Waiting(f)' => Waiting(f)
      BY <2>5, <2>6 DEF Waiting
    <2>9. \A f \in Exports :
            \/ UNCHANGED status[f]
            \/ /\ status'[f] \in Statuses \ (Active \cup {"absent"})
               /\ status'[f] = "deleted" \/ ~Waiting(f)'
      BY <2>5, <2>6, <2>7 DEF Statuses, Active
    <2> QED
      BY <2>1, <2>2, <2>5, <2>8, <2>9 DEF Quiet
  <1>4. ASSUME DownloadRead(e) \/ Download(e)
        PROVE  Quiet
    <2>1. ~Waiting(e) /\ status[e] # "absent"
      BY <1>4 DEF DownloadRead, Download, DownloadStat, DownloadRetire, DownloadUnlink,
         ExportInv, WaitingInv
    <2> QED
      BY <1>4, <2>1 DEF DownloadRead, Download, DownloadStat, DownloadRetire,
         DownloadUnlink, Quiet, Waiting, Row, Statuses, Active, export
  <1> QED
    BY <1>1, <1>2, <1>3, <1>4, QuietKeeps DEF Job

LEMMA CleanupQuiet ==
    ASSUME ExportTypes, CleanerType, ExportInv, Cleanup
    PROVE  Quiet
  <1> USE DEF ExportTypes
  <1>1. CASE StartCleanup \/ NextPass
    <2>1. UNCHANGED <<status, job, age, download>>
      BY <1>1 DEF StartCleanup, NextPass, export
    <2>2. \A e \in Exports :
            status[e] \in {"ready", "failed", "expired"} \/ e \in Stale =>
              status[e] # "absent" /\ ~Waiting(e)
      BY DEF ExportInv, WaitingInv, Stale, Active
    <2>3. \A r \in cleaner'.todo :
            r \in cleaner.todo \/ (status[r.id] # "absent" /\ ~Waiting(r.id))
      <3>1. CASE StartCleanup
        BY <2>2, <3>1 DEF StartCleanup, Listed
      <3>2. CASE NextPass
        <4>1. CASE cleaner' = Resting \/ cleaner' = [cleaner EXCEPT !.pass = "unlink"]
          BY <4>1 DEF CleanerType, Resting
        <4>2. CASE cleaner' = [cleaner EXCEPT !.pass = "purge",
                                 !.todo = {Listed(e) : e \in {f \in Exports :
                                    status[f] \in {"failed", "expired"} /\ age[f] = "old"}}]
          BY <2>2, <4>2 DEF CleanerType, Listed
        <4>3. CASE cleaner' = [cleaner EXCEPT !.pass = "reap",
                                              !.todo = {Listed(e) : e \in Stale}]
          BY <2>2, <4>3 DEF CleanerType, Listed, Stale
        <4> QED
          BY <3>2, <4>1, <4>2, <4>3 DEF NextPass
      <3> QED
        BY <1>1, <3>1, <3>2
    <2> QED
      BY <2>1, <2>3 DEF Quiet, Waiting
  <1>2. ASSUME NEW r \in cleaner.todo, ExpireOne(r) \/ PurgeOne(r) \/ ReapOne(r)
        PROVE  Quiet
    <2>1. r.id \in Exports /\ status[r.id] # "absent" /\ ~Waiting(r.id)
      BY DEF CleanerType, Listings, ExportInv, WaitingInv
    <2>2. UNCHANGED <<job, age, download>> /\ cleaner'.todo \subseteq cleaner.todo
      BY <1>2 DEF ExpireOne, PurgeOne, ReapOne, CleanerType
    <2>3. UNCHANGED status \/ \E x \in {"expired", "deleted", "failed"} :
            status' = [status EXCEPT ![r.id] = x]
      BY <1>2 DEF ExpireOne, PurgeOne, ReapOne
    <2> QED
      BY <2>1, <2>2, <2>3 DEF Quiet, Waiting, Statuses, Active
  <1>3. ASSUME NEW e \in cleaner.files, UnlinkPending(e)
        PROVE  Quiet
    <2>1. UNCHANGED <<status, job, age, download>> /\ cleaner'.todo = cleaner.todo
      BY <1>3 DEF UnlinkPending, CleanerType
    <2> QED
      BY <2>1 DEF Quiet, Waiting
  <1> QED
    BY <1>1, <1>2, <1>3 DEF Cleanup

LEMMA OtherQuiet ==
    ASSUME "backlog" \notin Faults, ExportTypes, EraserType, ExportInv,
           \/ Erasures \/ Time
           \/ \E u \in Users : ScheduleRead(u) \/ CancelRead(u) \/ Ask(u)
           \/ UNCHANGED vars
    PROVE  Quiet
  <1> USE DEF ExportTypes
  <1>1. CASE CommitErasure
    BY <1>1 DEF CommitErasure, Quiet, Waiting, Statuses, Active
  <1>2. CASE UNCHANGED <<status, job, age, download, cleaner>>
    BY <1>2 DEF Quiet, Waiting
  <1>3. CASE Erasures
    BY <1>1, <1>2, <1>3 DEF Erasures, StartErasures, CheckAgain, CollectExports,
       UnlinkErased, NextAccount, export
  <1>4. CASE Time
    <2>1. ASSUME NEW e \in Exports, GrowStale(e) \/ GrowOld(e)
          PROVE  Quiet
      <3>1. ~Waiting(e) /\ status[e] # "absent"
        BY <2>1 DEF GrowStale, GrowOld, Waiting, Active
      <3> QED
        BY <2>1, <3>1 DEF GrowStale, GrowOld, Quiet, Waiting
    <2> QED
      BY <1>2, <1>4, <2>1 DEF Time, Lapse, GraceEnds, export
  <1> QED
    BY <1>2, <1>3, <1>4 DEF ScheduleRead, CancelRead, Ask, ScheduleWrite, CancelWrite,
       vars, export

\* A user never has two exports pending or processing, however requests, jobs,
\* the reaper and erasures interleave, as long as no export waits for its worker
\* past the reaper's deadline.
THEOREM OneExportAtATime ==
    ASSUME "backlog" \notin Faults
    PROVE  Spec => []OneActiveExport
  <1>1. Init => ExportInv
    BY DEF Init, ExportInv, WaitingInv, OneActiveExport, Waiting, Active, Resting
  <1>2. TypeOK /\ ExportInv /\ [Next]_vars => ExportInv'
    <2> SUFFICES ASSUME TypeOK, ExportInv, [Next]_vars PROVE ExportInv'
      OBVIOUS
    <2>1. ExportTypes /\ CleanerType /\ UserTypes /\ EraserType /\ CleanerType'
      <3>1. TypeOK'
        BY TypeStep
      <3>2. CleanerType'
        BY <3>1 DEF TypeOK, CleanerType, Listings, Passes
      <3> QED
        BY <3>2, TypeParts
    <2>2. CASE Cleanup
      BY <2>1, <2>2, CleanupQuiet, QuietKeeps
    <2>3. ASSUME NEW e \in Exports,
                 Request(e) \/ Job(e) \/ WorkerDies(e) \/ DownloadRead(e) \/ Download(e)
          PROVE  ExportInv'
      BY <2>1, <2>3, ExportStepKeeps
    <2>4. CASE \/ Erasures \/ Time
               \/ \E u \in Users : ScheduleRead(u) \/ CancelRead(u) \/ Ask(u)
               \/ UNCHANGED vars
      BY <2>1, <2>4, OtherQuiet, QuietKeeps
    <2> QED
      BY <2>2, <2>3, <2>4 DEF Next
  <1>3. ExportInv => OneActiveExport
    BY DEF ExportInv
  <1> QED
    BY <1>1, <1>2, <1>3, TypesKept, PTL DEF Spec

-----------------------------------------------------------------------------
\* The archive of an export.  A job that has ended never starts again, so that an
\* export which was ready once is beyond its job, and who removes archives works
\* on exports that are no longer ready.

Done(e) == job[e] = "none" /\ status[e] # "absent"
Over(e) == Done(e) /\ status[e] # "ready"

PastJob ==
    \A e \in Exports :
        /\ status[e] \in {"ready", "expired"} \/ path[e] \/ download[e] # "none"
             \/ age[e] = "old" => Done(e)
        /\ download[e] = "unlink" => Over(e)
\* What the cleanup listed: a file to unlink belongs to an export that was retired,
\* a record to purge points at its archive if there is one.
CleanerInv ==
    /\ \A e \in cleaner.files : Over(e)
    /\ \A r \in cleaner.todo :
          /\ r.was = "ready" => Done(r.id)
          /\ r.was = "expired" \/ (r.path /\ r.was # "ready") => Over(r.id)
    /\ cleaner.pass = "purge" =>
          \A r \in cleaner.todo :
             Done(r.id) /\ r.was # "ready" /\ (r.path \/ ~path[r.id])
\* What the erasure found, until its commit has taken the records away.
EraserInv ==
    /\ eraser.pc = "commit" =>
          /\ \A e \in eraser.found : Owner[e] = eraser.who
          /\ \A e \in eraser.files : e \in eraser.found /\ Done(e)
    /\ eraser.pc = "unlink" => \A e \in eraser.files : Over(e)
ArchiveInv == PastJob /\ CleanerInv /\ EraserInv /\ ReadyHasArchive

LEMMA JobsEndForGood ==
    ASSUME ExportTypes, [Next]_vars, NEW e \in Exports, Done(e)
    PROVE  Done(e)' /\ (Over(e) => Over(e)') /\ (~path[e] => ~path'[e])
  <1> USE DEF ExportTypes, Done, Over
  <1>1. ASSUME NEW x \in Exports,
               Request(x) \/ Job(x) \/ WorkerDies(x) \/ DownloadRead(x) \/ Download(x)
        PROVE  Done(e)' /\ (Over(e) => Over(e)') /\ (~path[e] => ~path'[e])
    <2>1. CASE Request(x) \/ Job(x) \/ WorkerDies(x)
      <3>1. x # e
        BY <2>1 DEF Request, Job, QueueExport, JobStart, CreateArchive, MarkReady,
           HandleExportFailure, WorkerDies
      <3>2. UNCHANGED <<status[e], path[e], job[e]>>
        BY <2>1, <3>1 DEF Request, Job, QueueExport, JobStart, CreateArchive, MarkReady,
           HandleExportFailure, WorkerDies
      <3> QED
        BY <3>2
    <2>2. CASE DownloadRead(x) \/ Download(x)
      BY <2>2 DEF DownloadRead, Download, DownloadStat, DownloadRetire, DownloadUnlink,
         UnlinkExportFile, export
    <2> QED
      BY <1>1, <2>1, <2>2
  <1>2. ASSUME Cleanup
        PROVE  Done(e)' /\ (Over(e) => Over(e)') /\ (~path[e] => ~path'[e])
    BY <1>2 DEF Cleanup, StartCleanup, NextPass, ExpireOne, PurgeOne, ReapOne, UnlinkPending,
       UnlinkExportFile, export
  <1>3. ASSUME Erasures
        PROVE  Done(e)' /\ (Over(e) => Over(e)') /\ (~path[e] => ~path'[e])
    <2>1. UNCHANGED job
      BY <1>3 DEF Erasures, StartErasures, CheckAgain, CollectExports, CommitErasure, UnlinkErased,
         NextAccount, export
    <2>2. UNCHANGED <<status, path>> \/ CommitErasure
      BY <1>3 DEF Erasures, StartErasures, CheckAgain, CollectExports, UnlinkErased, NextAccount,
         export
    <2>3. UNCHANGED <<status[e], path[e]>> \/ (status'[e] = "deleted" /\ ~path'[e])
      <3>1. CASE CommitErasure /\ e \in eraser.found
        BY <3>1 DEF CommitErasure
      <3>2. CASE CommitErasure /\ e \notin eraser.found
        BY <3>2 DEF CommitErasure
      <3> QED
        BY <2>2, <3>1, <3>2
    <2> QED
      BY <2>1, <2>3
  <1>4. CASE \/ Time \/ UNCHANGED vars
             \/ \E u \in Users : ScheduleRead(u) \/ CancelRead(u) \/ Ask(u)
    <2>1. UNCHANGED <<status, path, job>>
      BY <1>4 DEF Time, GrowStale, GrowOld, Lapse, GraceEnds, ScheduleRead, CancelRead, Ask,
         ScheduleWrite, CancelWrite, vars, export
    <2> QED
      BY <2>1
  <1> QED
    BY <1>1, <1>2, <1>3, <1>4 DEF Next

\* What holds of exports beyond their job survives any step.
LEMMA JobsEnd ==
    ASSUME ExportTypes, [Next]_vars
    PROVE  \A e \in Exports : /\ Done(e) => Done(e)' /\ (~path[e] => ~path'[e])
                              /\ Over(e) => Over(e)'
  BY JobsEndForGood DEF Over

LEMMA PastJobStep ==
    ASSUME TypeOK, ArchiveInv, [Next]_vars
    PROVE  PastJob'
  <1> USE DEF ExportTypes
  <1>1. ExportTypes /\ CleanerType /\ EraserType
    BY TypeParts
  <1>2. \A e \in Exports : /\ Done(e) => Done(e)' /\ (~path[e] => ~path'[e])
                           /\ Over(e) => Over(e)'
    BY <1>1, JobsEnd
  <1>3. ASSUME \A e \in Exports :
                  /\ status'[e] \in {"ready", "expired"} => status[e] \in {"ready", "expired"}
                                                           \/ Done(e)'
                  /\ path'[e] => path[e] \/ Done(e)'
                  /\ download'[e] # "none" => download[e] # "none" \/ Done(e)'
                  /\ age'[e] = "old" => age[e] = "old" \/ Done(e)'
                  /\ download'[e] = "unlink" => download[e] = "unlink" \/ Over(e)'
        PROVE  PastJob'
    BY <1>2, <1>3 DEF ArchiveInv, PastJob
  <1>4. ASSUME NEW x \in Exports,
               Request(x) \/ Job(x) \/ WorkerDies(x) \/ DownloadRead(x) \/ Download(x)
        PROVE  PastJob'
    <2>1. CASE MarkReady(x)
      <3>1. UNCHANGED <<age, download>>
        BY <2>1 DEF MarkReady
      <3>2. \A e \in Exports : e # x => UNCHANGED <<status[e], path[e]>>
        BY <1>1, <2>1 DEF MarkReady
      <3>3. UNCHANGED <<status[x], path[x]>> \/ Done(x)'
        BY <1>1, <2>1 DEF MarkReady, Done
      <3> QED
        BY <1>3, <3>1, <3>2, <3>3
    <2>2. CASE Request(x) \/ QueueExport(x) \/ JobStart(x) \/ CreateArchive(x)
               \/ HandleExportFailure(x) \/ WorkerDies(x)
      <3>1. UNCHANGED <<age, download, path>>
        BY <2>2 DEF Request, QueueExport, JobStart, CreateArchive, HandleExportFailure, WorkerDies
      <3>2. \A e \in Exports : status'[e] \in {"ready", "expired"} => status'[e] = status[e]
        BY <1>1, <2>2 DEF Request, QueueExport, JobStart, CreateArchive, HandleExportFailure,
           WorkerDies
      <3> QED
        BY <1>3, <3>1, <3>2
    <2>3. CASE DownloadRead(x)
      <3>1. Done(x) /\ UNCHANGED <<status, path, age>>
        BY <2>3 DEF DownloadRead, ArchiveInv, PastJob, export
      <3>2. \A e \in Exports : e # x => UNCHANGED download[e]
        BY <1>1, <2>3 DEF DownloadRead
      <3>3. download'[x] # "unlink"
        BY <1>1, <2>3 DEF DownloadRead
      <3> QED
        BY <1>2, <1>3, <3>1, <3>2, <3>3
    <2>4. CASE Download(x)
      <3>1. Done(x) /\ UNCHANGED age
        BY <2>4 DEF Download, DownloadStat, DownloadRetire, DownloadUnlink, ArchiveInv, PastJob
      <3>2. Done(x)'
        BY <1>2, <3>1
      <3>3. \A e \in Exports : e # x => UNCHANGED <<status[e], path[e], download[e]>>
        BY <1>1, <2>4 DEF Download, DownloadStat, DownloadRetire, DownloadUnlink, UnlinkExportFile
      <3>4. download'[x] = "unlink" => status'[x] # "ready"
        BY <1>1, <2>4 DEF Download, DownloadStat, DownloadRetire, DownloadUnlink
      <3> QED
        BY <1>3, <3>1, <3>2, <3>3, <3>4 DEF Over
    <2> QED
      BY <1>4, <2>1, <2>2, <2>3, <2>4 DEF Job
  <1>5. ASSUME NEW r \in cleaner.todo, ExpireOne(r) \/ PurgeOne(r) \/ ReapOne(r)
        PROVE  PastJob'
    <2>1. UNCHANGED <<age, download>> /\ r.id \in Exports
      BY <1>1, <1>5 DEF ExpireOne, PurgeOne, ReapOne, CleanerType, Listings
    <2>2. \A e \in Exports : path'[e] => path[e]
      BY <1>1, <1>5 DEF ExpireOne, PurgeOne, ReapOne
    <2>3. \A e \in Exports : e # r.id => UNCHANGED status[e]
      BY <1>1, <1>5 DEF ExpireOne, PurgeOne, ReapOne
    <2>4. UNCHANGED status[r.id] \/ status'[r.id] \notin {"ready", "expired"} \/ Done(r.id)
      BY <1>1, <1>5, <2>1 DEF ExpireOne, PurgeOne, ReapOne, ArchiveInv, CleanerInv
    <2> QED
      BY <1>2, <1>3, <2>1, <2>2, <2>3, <2>4
  <1>6. ASSUME NEW x \in Exports, GrowStale(x) \/ GrowOld(x)
        PROVE  PastJob'
    <2>1. UNCHANGED <<status, path, download, job>>
      BY <1>6 DEF GrowStale, GrowOld
    <2>2. \A e \in Exports : age'[e] = "old" => age[e] = "old" \/ Done(e)
      BY <1>1, <1>6 DEF GrowStale, GrowOld, Done
    <2> QED
      BY <1>2, <1>3, <2>1, <2>2
  <1>7. CASE CommitErasure
    <2>1. UNCHANGED <<age, download>>
      BY <1>7 DEF CommitErasure
    <2>2. \A e \in Exports : /\ path'[e] => path[e]
                             /\ status'[e] = "deleted" \/ UNCHANGED status[e]
      BY <1>1, <1>7 DEF CommitErasure
    <2> QED
      BY <1>3, <2>1, <2>2
  <1>8. ASSUME UNCHANGED <<status, age, download>>, \A e \in Exports : path'[e] => path[e]
        PROVE  PastJob'
    BY <1>3, <1>8
  <1>9. CASE Cleanup
    <2>1. CASE StartCleanup \/ NextPass
      BY <1>8, <2>1 DEF StartCleanup, NextPass, export
    <2>2. ASSUME NEW e \in cleaner.files, UnlinkPending(e) PROVE PastJob'
      BY <1>1, <1>8, <2>2 DEF UnlinkPending, UnlinkExportFile
    <2> QED
      BY <1>5, <1>9, <2>1, <2>2 DEF Cleanup
  <1>10. CASE Erasures
    BY <1>7, <1>8, <1>10 DEF Erasures, StartErasures, CheckAgain, CollectExports, UnlinkErased,
       NextAccount, export
  <1>11. CASE Time
    BY <1>6, <1>8, <1>11 DEF Time, Lapse, GraceEnds, export
  <1>12. CASE UNCHANGED vars \/ \E u \in Users : ScheduleRead(u) \/ CancelRead(u) \/ Ask(u)
    BY <1>8, <1>12 DEF ScheduleRead, CancelRead, Ask, ScheduleWrite, CancelWrite, vars, export
  <1> QED
    BY <1>4, <1>9, <1>10, <1>11, <1>12 DEF Next

\* Only the cleanup's own steps touch its lists, and what was listed stays true of
\* the exports on them.
LEMMA CleanerStep ==
    ASSUME TypeOK, ArchiveInv, [Next]_vars
    PROVE  CleanerInv'
  <1>1. ExportTypes /\ CleanerType
    BY TypeParts
  <1>2. \A e \in Exports : /\ Done(e) => Done(e)' /\ (~path[e] => ~path'[e])
                           /\ Over(e) => Over(e)'
    BY <1>1, JobsEnd
  <1>3. /\ cleaner.files \subseteq Exports
        /\ \A r \in cleaner.todo : r.id \in Exports
    BY <1>1 DEF CleanerType, Listings
  <1>4. ASSUME cleaner'.files \subseteq cleaner.files, cleaner'.todo \subseteq cleaner.todo,
               cleaner'.pass = "purge" => cleaner.pass = "purge"
        PROVE  CleanerInv'
    BY <1>2, <1>3, <1>4 DEF ArchiveInv, CleanerInv
  <1>5. CASE StartCleanup
    <2>1. cleaner'.pass = "expire" /\ cleaner'.files = {} /\ UNCHANGED <<status, path, job>>
      BY <1>5 DEF StartCleanup, export
    <2>2. \A r \in cleaner'.todo :
             /\ r.id \in Exports /\ r.was = status[r.id] /\ r.path = path[r.id]
             /\ r.was \in {"ready", "expired"}
      BY <1>5 DEF StartCleanup, Listed
    <2> QED
      BY <2>1, <2>2 DEF ArchiveInv, PastJob, CleanerInv, Done, Over
  <1>6. ASSUME cleaner.pass = "unlink", cleaner.files = {}, UNCHANGED export,
               cleaner' = [cleaner EXCEPT !.pass = "purge",
                             !.todo = {Listed(e) : e \in {f \in Exports :
                                status[f] \in {"failed", "expired"} /\ age[f] = "old"}}]
        PROVE  CleanerInv'
    <2>1. /\ cleaner'.files = {} /\ UNCHANGED <<status, path, job, age>>
          /\ cleaner'.todo = {Listed(e) : e \in {f \in Exports :
                                status[f] \in {"failed", "expired"} /\ age[f] = "old"}}
      BY <1>1, <1>6 DEF export, CleanerType
    <2>2. \A r \in cleaner'.todo :
             /\ r.id \in Exports /\ r.was = status[r.id] /\ r.path = path[r.id]
             /\ status[r.id] \in {"failed", "expired"} /\ age[r.id] = "old"
      BY <2>1 DEF Listed
    <2>3. \A r \in cleaner'.todo : Done(r.id)' /\ Over(r.id)' /\ r.was # "ready"
      BY <2>1, <2>2 DEF ArchiveInv, PastJob, Done, Over
    <2> QED
      BY <1>1, <2>1, <2>2, <2>3 DEF CleanerInv, ExportTypes
  <1>7. ASSUME cleaner.pass = "purge", UNCHANGED export,
               cleaner' = [cleaner EXCEPT !.pass = "reap",
                             !.todo = {Listed(e) : e \in Stale}]
        PROVE  CleanerInv'
    <2>1. /\ UNCHANGED <<status, path, job>> /\ cleaner'.files = cleaner.files
          /\ cleaner'.pass = "reap" /\ cleaner'.todo = {Listed(e) : e \in Stale}
      BY <1>1, <1>7 DEF export, CleanerType
    <2>2. \A r \in cleaner'.todo :
             /\ r.id \in Exports /\ r.was = status[r.id] /\ r.path = path[r.id]
             /\ r.was \in Active
      BY <2>1 DEF Listed, Stale
    <2>3. \A r \in cleaner'.todo :
             /\ r.was \notin {"ready", "expired"}
             /\ r.path => Over(r.id)'
      BY <2>1, <2>2 DEF Active, ArchiveInv, PastJob, Done, Over
    <2>4. \A e \in cleaner'.files : Over(e)'
      BY <1>2, <1>3, <2>1 DEF ArchiveInv, CleanerInv
    <2> QED
      BY <2>1, <2>3, <2>4 DEF CleanerInv
  <1>8. ASSUME NextPass
        PROVE  CleanerInv'
    <2>1. CASE cleaner' = [cleaner EXCEPT !.pass = "unlink"]
      <3>1. /\ cleaner'.files = cleaner.files /\ cleaner'.todo = cleaner.todo
            /\ cleaner'.pass = "unlink"
        BY <1>1, <2>1 DEF CleanerType
      <3> QED
        BY <1>4, <3>1
    <2>2. CASE cleaner' = Resting
      BY <1>4, <2>2 DEF Resting
    <2> QED
      BY <1>6, <1>7, <1>8, <2>1, <2>2, Zenon DEF NextPass
  <1>9. ASSUME NEW r \in cleaner.todo, ExpireOne(r)
        PROVE  CleanerInv'
    <2>1. /\ cleaner'.todo \subseteq cleaner.todo /\ cleaner'.pass = "expire"
          /\ cleaner'.files \subseteq cleaner.files \cup {r.id}
      BY <1>1, <1>9 DEF ExpireOne, CleanerType
    <2>2. r.id \in cleaner'.files => r.id \in cleaner.files \/ Over(r.id)'
      <3>1. CASE r.was = "expired"
        BY <1>2, <1>3, <3>1 DEF ArchiveInv, CleanerInv
      <3>2. CASE r.was = "ready" /\ status' = [status EXCEPT ![r.id] = "expired"]
        BY <1>1, <1>2, <1>3, <1>9, <3>2 DEF ArchiveInv, CleanerInv, Over, ExportTypes
      <3>3. CASE cleaner' = [cleaner EXCEPT !.todo = @ \ {r}]
        BY <1>1, <3>3 DEF CleanerType
      <3> QED
        BY <1>9, <3>1, <3>2, <3>3 DEF ExpireOne
    <2>3. \A e \in cleaner'.files : Over(e)'
      BY <1>2, <1>3, <2>1, <2>2 DEF ArchiveInv, CleanerInv
    <2> QED
      BY <1>2, <1>3, <2>1, <2>3 DEF ArchiveInv, CleanerInv
  <1>10. CASE Cleanup
    <2>1. ASSUME NEW r \in cleaner.todo, PurgeOne(r) \/ ReapOne(r) PROVE CleanerInv'
      BY <1>1, <1>4, <2>1 DEF PurgeOne, ReapOne, CleanerType
    <2>2. ASSUME NEW e \in cleaner.files, UnlinkPending(e) PROVE CleanerInv'
      BY <1>1, <1>4, <2>2 DEF UnlinkPending, CleanerType
    <2> QED
      BY <1>5, <1>6, <1>7, <1>8, <1>9, <1>10, <2>1, <2>2 DEF Cleanup
  <1>11. CASE ~Cleanup
    <2>1. UNCHANGED cleaner
      BY <1>11 DEF Next, Request, Job, QueueExport, JobStart, CreateArchive, MarkReady,
         HandleExportFailure, WorkerDies, DownloadRead, Download, DownloadStat, DownloadRetire,
         DownloadUnlink, ScheduleRead, CancelRead, Ask, ScheduleWrite, CancelWrite, Erasures,
         StartErasures, CheckAgain, CollectExports, CommitErasure, UnlinkErased, NextAccount,
         Time, GrowStale, GrowOld, Lapse, GraceEnds, vars
    <2> QED
      BY <1>4, <2>1
  <1> QED
    BY <1>10, <1>11

\* The erasure commits the rows it found itself, and removes their archives after.
LEMMA EraserStep ==
    ASSUME TypeOK, ArchiveInv, [Next]_vars
    PROVE  EraserInv'
  <1>1. ExportTypes /\ EraserType
    BY TypeParts
  <1>2. \A e \in Exports : (Done(e) => Done(e)') /\ (Over(e) => Over(e)')
    BY <1>1, JobsEnd
  <1>3. eraser.found \subseteq Exports /\ eraser.files \subseteq Exports
    BY <1>1 DEF EraserType
  <1>4. CASE UNCHANGED eraser
    BY <1>2, <1>3, <1>4 DEF ArchiveInv, EraserInv
  <1>5. CASE eraser'.pc \notin {"commit", "unlink"}
    BY <1>5 DEF EraserInv
  <1>6. CASE CollectExports
    <2>1. /\ eraser'.pc = "commit" /\ eraser'.who = eraser.who
          /\ \A e \in eraser'.found : e \in Exports /\ Owner[e] = eraser.who
          /\ \A e \in eraser'.files : e \in eraser'.found /\ path[e]
      BY <1>1, <1>6 DEF CollectExports, EraserType
    <2> QED
      BY <1>2, <2>1 DEF ArchiveInv, PastJob, EraserInv
  <1>7. CASE CommitErasure
    <2>1. ASSUME eraser'.pc = "unlink" PROVE EraserInv'
      <3>1. /\ eraser.pc = "commit" /\ eraser'.files = eraser.files
            /\ \A e \in Exports : e \in eraser.found => status'[e] = "deleted"
        BY <1>1, <1>7, <2>1 DEF CommitErasure, EraserType
      <3>2. \A e \in eraser.files : Done(e)' /\ status'[e] = "deleted"
        BY <1>2, <1>3, <3>1 DEF ArchiveInv, EraserInv
      <3> QED
        BY <2>1, <3>1, <3>2 DEF EraserInv, Over
    <2>2. eraser'.pc \in {"unlink", "next"}
      BY <1>1, <1>7 DEF CommitErasure, EraserType
    <2> QED
      BY <1>5, <2>1, <2>2
  <1>8. ASSUME NEW e \in eraser.files, UnlinkErased(e)
        PROVE  EraserInv'
    <2>1. eraser.pc = "unlink" /\ eraser'.pc = "unlink" /\ eraser'.files \subseteq eraser.files
      BY <1>1, <1>8 DEF UnlinkErased, EraserType
    <2> QED
      BY <1>2, <1>3, <2>1 DEF ArchiveInv, EraserInv
  <1>9. CASE StartErasures \/ NextAccount
    <2>1. CASE eraser' = [eraser EXCEPT !.pc = "next", !.who = Nobody]
      <3>1. eraser'.pc = "next"
        BY <1>1, <2>1 DEF EraserType
      <3> QED
        BY <1>5, <3>1
    <2>2. CASE eraser' = Asleep
      BY <1>5, <2>2 DEF Asleep
    <2>3. CASE StartErasures
      <3>1. PICK list : eraser' = [Asleep EXCEPT !.pc = "next", !.list = list]
        BY <2>3 DEF StartErasures
      <3>2. eraser'.pc = "next"
        BY <3>1 DEF Asleep
      <3> QED
        BY <1>5, <3>2
    <2> QED
      BY <1>9, <2>1, <2>2, <2>3 DEF NextAccount
  <1>10. ASSUME NEW u \in eraser.list, CheckAgain(u)
         PROVE  EraserInv'
    BY <1>1, <1>5, <1>10 DEF CheckAgain, EraserType
  <1>11. CASE ~Erasures
    <2>1. UNCHANGED eraser
      BY <1>11 DEF Next, Request, Job, QueueExport, JobStart, CreateArchive, MarkReady,
         HandleExportFailure, WorkerDies, DownloadRead, Download, DownloadStat, DownloadRetire,
         DownloadUnlink, ScheduleRead, CancelRead, Ask, ScheduleWrite, CancelWrite, Cleanup,
         StartCleanup, NextPass, ExpireOne, PurgeOne, ReapOne, UnlinkPending,
         Time, GrowStale, GrowOld, Lapse, GraceEnds, vars
    <2> QED
      BY <1>4, <2>1
  <1> QED
    BY <1>6, <1>7, <1>8, <1>9, <1>10, <1>11 DEF Erasures

\* An export becomes ready with its archive, and an archive is overwritten or
\* removed only when its export is not ready.
LEMMA ReadyStep ==
    ASSUME TypeOK, ArchiveInv, [Next]_vars
    PROVE  ReadyHasArchive'
  <1> USE DEF ExportTypes
  <1>1. ExportTypes /\ CleanerType /\ EraserType
    BY TypeParts
  <1>2. ASSUME \A e \in Exports :
                  status'[e] = "ready" => /\ status[e] = "ready" /\ UNCHANGED disk[e]
                                          \/ disk'[e] = "recorded"
        PROVE  ReadyHasArchive'
    BY <1>2 DEF ArchiveInv, ReadyHasArchive
  <1>3. ASSUME NEW x \in Exports, status[x] # "ready",
               \A e \in Exports : e # x => UNCHANGED <<status[e], disk[e]>>,
               status'[x] # "ready" \/ disk'[x] = "recorded"
        PROVE  ReadyHasArchive'
    BY <1>2, <1>3
  <1>4. ASSUME NEW x \in Exports,
               Request(x) \/ Job(x) \/ WorkerDies(x) \/ DownloadRead(x) \/ Download(x)
        PROVE  ReadyHasArchive'
    <2>1. CASE Request(x) \/ Job(x) \/ WorkerDies(x)
      <3>1. status[x] # "ready"
        BY <2>1 DEF Request, Job, QueueExport, JobStart, CreateArchive, MarkReady,
           HandleExportFailure, WorkerDies, ArchiveInv, PastJob, Done
      <3>2. \A e \in Exports : e # x => UNCHANGED <<status[e], disk[e]>>
        BY <1>1, <2>1 DEF Request, Job, QueueExport, JobStart, CreateArchive, MarkReady,
           HandleExportFailure, WorkerDies
      <3>3. status'[x] # "ready" \/ disk'[x] = "recorded"
        <4>1. CASE MarkReady(x)
          BY <1>1, <2>1, <3>1, <4>1 DEF MarkReady
        <4>2. CASE ~MarkReady(x)
          BY <1>1, <2>1, <3>1, <4>2 DEF Request, Job, QueueExport, JobStart, CreateArchive,
             HandleExportFailure, WorkerDies
        <4> QED
          BY <4>1, <4>2
      <3> QED
        BY <1>3, <3>1, <3>2, <3>3
    <2>2. CASE DownloadUnlink(x)
      BY <1>1, <1>3, <2>2 DEF DownloadUnlink, UnlinkExportFile, ArchiveInv, PastJob, Over
    <2>3. CASE DownloadRead(x) \/ DownloadStat(x) \/ DownloadRetire(x)
      <3>1. UNCHANGED disk
        BY <2>3 DEF DownloadRead, DownloadStat, DownloadRetire, export
      <3>2. \A e \in Exports : status'[e] = "ready" => status[e] = "ready"
        BY <1>1, <2>3 DEF DownloadRead, DownloadStat, DownloadRetire, export
      <3> QED
        BY <1>2, <3>1, <3>2
    <2> QED
      BY <1>4, <2>1, <2>2, <2>3 DEF Download
  <1>5. CASE Cleanup
    <2>1. ASSUME NEW r \in cleaner.todo, ExpireOne(r) \/ ReapOne(r)
          PROVE  ReadyHasArchive'
      <3>1. UNCHANGED disk
        BY <2>1 DEF ExpireOne, ReapOne
      <3>2. \A e \in Exports : status'[e] = "ready" => status[e] = "ready"
        BY <1>1, <2>1 DEF ExpireOne, ReapOne
      <3> QED
        BY <1>2, <3>1, <3>2
    <2>2. ASSUME NEW r \in cleaner.todo, PurgeOne(r)
          PROVE  ReadyHasArchive'
      <3>1. r.id \in Exports /\ (r.path => status[r.id] # "ready")
        BY <1>1, <2>2 DEF PurgeOne, ArchiveInv, CleanerInv, Over, CleanerType, Listings
      <3>2. \A e \in Exports : /\ e # r.id \/ ~r.path => UNCHANGED disk[e]
                               /\ status'[e] = "ready" => status[e] = "ready"
        BY <1>1, <2>2 DEF PurgeOne
      <3> QED
        BY <1>2, <3>1, <3>2
    <2>3. ASSUME NEW e \in cleaner.files, UnlinkPending(e)
          PROVE  ReadyHasArchive'
      <3>1. e \in Exports /\ status[e] # "ready"
        BY <1>1, <2>3 DEF ArchiveInv, CleanerInv, Over, CleanerType
      <3> QED
        BY <1>1, <1>3, <2>3, <3>1 DEF UnlinkPending, UnlinkExportFile
    <2>4. CASE StartCleanup \/ NextPass
      BY <1>2, <2>4 DEF StartCleanup, NextPass, export
    <2> QED
      BY <1>5, <2>1, <2>2, <2>3, <2>4 DEF Cleanup
  <1>6. CASE Erasures
    <2>1. ASSUME NEW e \in eraser.files, UnlinkErased(e)
          PROVE  ReadyHasArchive'
      <3>1. e \in Exports /\ status[e] # "ready"
        BY <1>1, <2>1 DEF UnlinkErased, ArchiveInv, EraserInv, Over, EraserType
      <3> QED
        BY <1>1, <1>3, <2>1, <3>1 DEF UnlinkErased
    <2>2. CASE CommitErasure
      <3>1. UNCHANGED disk
        BY <2>2 DEF CommitErasure
      <3>2. \A e \in Exports : status'[e] = "ready" => status[e] = "ready"
        BY <1>1, <2>2 DEF CommitErasure
      <3> QED
        BY <1>2, <3>1, <3>2
    <2> QED
      BY <1>2, <1>6, <2>1, <2>2 DEF Erasures, StartErasures, CheckAgain, CollectExports,
         NextAccount, export
  <1>7. CASE \/ Time \/ UNCHANGED vars
             \/ \E u \in Users : ScheduleRead(u) \/ CancelRead(u) \/ Ask(u)
    <2>1. UNCHANGED <<status, disk>>
      BY <1>7 DEF Time, GrowStale, GrowOld, Lapse, GraceEnds, ScheduleRead, CancelRead, Ask,
         ScheduleWrite, CancelWrite, vars, export
    <2> QED
      BY <1>2, <2>1
  <1> QED
    BY <1>4, <1>5, <1>6, <1>7 DEF Next

LEMMA ArchiveStep ==
    ASSUME TypeOK, ArchiveInv, [Next]_vars
    PROVE  ArchiveInv'
  BY PastJobStep, CleanerStep, EraserStep, ReadyStep DEF ArchiveInv

\* An export shown as ready has its archive, whatever fails or dies: no step that
\* removes an archive works on an export that is or can become ready again.
THEOREM ReadyArchiveKept == Spec => []ReadyHasArchive
  <1>1. Init => ArchiveInv
    BY DEF Init, ArchiveInv, PastJob, CleanerInv, EraserInv, ReadyHasArchive, Resting, Asleep
  <1>2. TypeOK /\ ArchiveInv /\ [Next]_vars => ArchiveInv'
    BY ArchiveStep
  <1>3. ArchiveInv => ReadyHasArchive
    BY DEF ArchiveInv
  <1> QED
    BY <1>1, <1>2, <1>3, TypesKept, PTL DEF Spec

-----------------------------------------------------------------------------
\* The record points at the archive until the archive is gone.

\* A step that records no archive, and takes the record or its path away only
\* with the archive or the owner.
Kept(e) ==
    /\ disk'[e] = "recorded" => disk[e] = "recorded"
    /\ erased[Owner[e]] => erased'[Owner[e]]
    /\ disk'[e] = "recorded" /\ ~erased'[Owner[e]] =>
          /\ Row(e) => Row(e)'
          /\ path[e] => path'[e]

LEMMA ReachableStep ==
    ASSUME TypeOK, ArchiveInv, ArchiveReachable, "statFail" \notin Faults, [Next]_vars
    PROVE  ArchiveReachable'
  <1> USE DEF ExportTypes
  <1>1. ExportTypes /\ CleanerType /\ EraserType /\ UserTypes
    BY TypeParts
  <1>2. ASSUME \A e \in Exports : Kept(e)
        PROVE  ArchiveReachable'
    BY <1>2 DEF Kept, ArchiveReachable
  <1>3. ASSUME UNCHANGED <<status, path, disk, erased>>
        PROVE  ArchiveReachable'
    BY <1>2, <1>3 DEF Kept, Row
  <1>4. ASSUME NEW x \in Exports,
               Request(x) \/ Job(x) \/ WorkerDies(x) \/ DownloadRead(x) \/ Download(x)
        PROVE  ArchiveReachable'
    <2>1. UNCHANGED erased
      BY <1>4 DEF Request, Job, QueueExport, JobStart, CreateArchive, MarkReady,
         HandleExportFailure, WorkerDies, DownloadRead, Download, DownloadStat, DownloadRetire,
         DownloadUnlink, user
    <2>2. \A e \in Exports : e # x => UNCHANGED <<status[e], path[e], disk[e]>>
      BY <1>1, <1>4 DEF Request, Job, QueueExport, JobStart, CreateArchive, MarkReady,
         HandleExportFailure, WorkerDies, DownloadRead, Download, DownloadStat, DownloadRetire,
         DownloadUnlink, UnlinkExportFile, export
    <2>3. ASSUME disk'[x] # "recorded"
          PROVE  ArchiveReachable'
      BY <2>1, <2>2, <2>3 DEF ArchiveReachable, Row
    <2>4. ASSUME path'[x] = path[x], disk'[x] = disk[x], Row(x) => Row(x)'
          PROVE  ArchiveReachable'
      BY <2>1, <2>2, <2>4 DEF ArchiveReachable, Row
    <2>5. ASSUME UNCHANGED status, UNCHANGED <<path, disk>> \/ disk'[x] # "recorded"
          PROVE  ArchiveReachable'
      <3>1. Row(x) => Row(x)'
        BY <2>5 DEF Row
      <3>2. CASE UNCHANGED <<path, disk>>
        BY <2>4, <3>1, <3>2
      <3> QED
        BY <2>3, <2>5, <3>2
    <2>6. CASE MarkReady(x)
      <3>1. CASE status' = [status EXCEPT ![x] = "ready"] /\ path' = [path EXCEPT ![x] = TRUE]
        BY <1>1, <2>1, <2>2, <3>1 DEF ArchiveReachable, Row
      <3>2. CASE UNCHANGED <<status, path, disk>>
        BY <2>4, <3>2 DEF Row
      <3> QED
        BY <2>6, <3>1, <3>2 DEF MarkReady
    <2>7. CASE CreateArchive(x) \/ WorkerDies(x)
      <3>1. UNCHANGED <<status, path>> /\ (UNCHANGED disk \/ disk'[x] = "unrecorded")
        BY <1>1, <2>7 DEF CreateArchive, WorkerDies
      <3> QED
        BY <2>5, <3>1
    <2>8. CASE Request(x) \/ QueueExport(x) \/ JobStart(x) \/ HandleExportFailure(x)
               \/ DownloadRead(x) \/ DownloadRetire(x)
      <3>1. UNCHANGED <<path, disk>>
        BY <2>8 DEF Request, QueueExport, JobStart, HandleExportFailure, DownloadRead,
           DownloadRetire, export
      <3>2. Row(x) => Row(x)'
        BY <1>1, <2>8 DEF Request, QueueExport, JobStart, HandleExportFailure, DownloadRead,
           DownloadRetire, export, Row
      <3> QED
        BY <2>4, <3>1, <3>2
    <2>9. CASE DownloadStat(x)
      <3>1. UNCHANGED disk /\ (UNCHANGED <<status, path>> \/ disk[x] = "none")
        BY <2>9 DEF DownloadStat, Fault
      <3>2. CASE disk[x] = "none"
        BY <2>3, <3>1, <3>2
      <3> QED
        BY <2>5, <3>1, <3>2
    <2>10. CASE DownloadUnlink(x)
      <3>1. UNCHANGED status
        BY <2>10 DEF DownloadUnlink
      <3>2. UNCHANGED <<path, disk>> \/ disk'[x] = "none"
        BY <1>1, <2>10 DEF DownloadUnlink, UnlinkExportFile
      <3> QED
        BY <2>5, <3>1, <3>2
    <2> QED
      BY <1>4, <2>6, <2>7, <2>8, <2>9, <2>10 DEF Job, Download
  <1>5. CASE Cleanup
    <2>1. UNCHANGED erased
      BY <1>5 DEF Cleanup, StartCleanup, NextPass, ExpireOne, PurgeOne, ReapOne, UnlinkPending,
         user
    <2>2. ASSUME NEW r \in cleaner.todo, ExpireOne(r) \/ ReapOne(r)
          PROVE  ArchiveReachable'
      <3>1. UNCHANGED <<path, disk>>
        BY <2>2 DEF ExpireOne, ReapOne
      <3>2. \A e \in Exports : Row(e) => Row(e)'
        BY <1>1, <2>2 DEF ExpireOne, ReapOne, Row
      <3> QED
        BY <1>2, <2>1, <3>1, <3>2 DEF Kept
    <2>3. ASSUME NEW r \in cleaner.todo, PurgeOne(r)
          PROVE  ArchiveReachable'
      <3>1. r.id \in Exports /\ (r.path \/ ~path[r.id])
        BY <1>1, <2>3 DEF PurgeOne, ArchiveInv, CleanerInv, CleanerType, Listings
      <3>2. \A e \in Exports : e # r.id => UNCHANGED <<status[e], path[e], disk[e]>>
        BY <1>1, <2>3 DEF PurgeOne
      <3>3. CASE UNCHANGED <<status, path, disk>>
        BY <1>3, <2>1, <3>3
      <3>4. CASE r.path /\ disk'[r.id] = "none"
        BY <1>2, <2>1, <3>1, <3>2, <3>4 DEF Kept, Row
      <3>5. CASE ~r.path /\ UNCHANGED disk
        BY <2>1, <3>1, <3>2, <3>5 DEF ArchiveReachable, Row
      <3>6. \/ UNCHANGED <<status, path, disk>>
            \/ r.path /\ disk'[r.id] = "none"
            \/ ~r.path /\ UNCHANGED disk
        BY <1>1, <2>3, <3>1 DEF PurgeOne
      <3> QED
        BY <3>3, <3>4, <3>5, <3>6
    <2>4. ASSUME NEW e \in cleaner.files, UnlinkPending(e)
          PROVE  ArchiveReachable'
      <3>1. e \in Exports /\ UNCHANGED status
        BY <1>1, <2>4 DEF UnlinkPending, CleanerType
      <3>2. \A f \in Exports : f # e => UNCHANGED <<path[f], disk[f]>>
        BY <1>1, <2>4 DEF UnlinkPending, UnlinkExportFile
      <3>3. UNCHANGED <<path, disk>> \/ disk'[e] = "none"
        BY <1>1, <2>4, <3>1 DEF UnlinkPending, UnlinkExportFile
      <3> QED
        BY <1>2, <2>1, <3>1, <3>2, <3>3 DEF Kept, Row
    <2>5. CASE StartCleanup \/ NextPass
      BY <1>3, <2>1, <2>5 DEF StartCleanup, NextPass, export
    <2> QED
      BY <1>5, <2>2, <2>3, <2>4, <2>5 DEF Cleanup
  <1>6. CASE Erasures
    <2>1. CASE CommitErasure
      <3>1. UNCHANGED disk
        BY <2>1 DEF CommitErasure
      <3>2. CASE UNCHANGED <<status, path, erased>>
        BY <1>3, <3>1, <3>2
      <3>3. CASE erased' = [erased EXCEPT ![eraser.who] = TRUE]
        <4>1. \A u \in Users : erased[u] => erased'[u]
          BY <1>1, <3>3 DEF UserTypes
        <4>2. \A e \in eraser.found : Owner[e] = eraser.who
          BY <2>1 DEF CommitErasure, ArchiveInv, EraserInv
        <4>3. \A e \in eraser.found : e \in Exports /\ erased'[Owner[e]]
          BY <1>1, <3>3, <4>2, AccountErasureAssumption DEF UserTypes, EraserType
        <4>4. \A e \in Exports : e \in eraser.found \/ UNCHANGED <<status[e], path[e]>>
          BY <1>1, <2>1 DEF CommitErasure
        <4> QED
          BY <1>2, <3>1, <4>1, <4>3, <4>4, AccountErasureAssumption DEF Kept, Row
      <3> QED
        BY <2>1, <3>2, <3>3 DEF CommitErasure
    <2>2. ASSUME NEW e \in eraser.files, UnlinkErased(e)
          PROVE  ArchiveReachable'
      <3>1. UNCHANGED <<status, path, erased>>
        BY <2>2 DEF UnlinkErased, user
      <3>2. \A f \in Exports : disk'[f] = "recorded" => disk[f] = "recorded"
        BY <1>1, <2>2 DEF UnlinkErased
      <3> QED
        BY <1>2, <3>1, <3>2 DEF Kept, Row
    <2> QED
      BY <1>3, <1>6, <2>1, <2>2 DEF Erasures, StartErasures, CheckAgain, CollectExports,
         NextAccount, export, user
  <1>7. CASE \/ Time \/ UNCHANGED vars
             \/ \E u \in Users : ScheduleRead(u) \/ CancelRead(u) \/ Ask(u)
    <2>1. UNCHANGED <<status, path, disk, erased>>
      BY <1>7 DEF Time, GrowStale, GrowOld, Lapse, GraceEnds, ScheduleRead, CancelRead, Ask,
         ScheduleWrite, CancelWrite, vars, export, user
    <2> QED
      BY <1>3, <2>1
  <1> QED
    BY <1>4, <1>5, <1>6, <1>7 DEF Next

\* An archive that was ready has a record that points at it until it is unlinked
\* or its owner erased, as long as no download drops the path of an archive it
\* could not stat.
THEOREM ArchivesReachable ==
    ASSUME "statFail" \notin Faults
    PROVE  Spec => []ArchiveReachable
  <1>1. Init => ArchiveInv /\ ArchiveReachable
    BY DEF Init, ArchiveInv, PastJob, CleanerInv, EraserInv, ReadyHasArchive, Resting, Asleep,
       ArchiveReachable
  <1>2. TypeOK /\ ArchiveInv /\ ArchiveReachable /\ [Next]_vars
        => ArchiveInv' /\ ArchiveReachable'
    BY ArchiveStep, ReachableStep
  <1> QED
    BY <1>1, <1>2, TypesKept, PTL DEF Spec
=============================================================================
