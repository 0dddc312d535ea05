--------------------------- MODULE AccountErasure ---------------------------
(***************************************************************************)
(* A user's data exports and the erasure of accounts.  A request creates   *)
(* an export and queues its job, which streams the archive to disk and     *)
(* then marks the export ready; downloads, an hourly cleanup and the       *)
(* erasure of the owner retire records and archives.  Deletions are        *)
(* scheduled and cancelled by routes, and executed by a nightly job that   *)
(* removes the account's rows in one transaction and unlinks its archives  *)
(* after the commit.                                                       *)
(***************************************************************************)
EXTENDS Integers, FiniteSets

CONSTANTS
    Users,
    Admins,      \* those with the role "admin"
    Exports,     \* identifiers of data-exports rows
    Owner,       \* [Exports -> Users]
    Nobody,      \* not a user
    MaxFaults,   \* faults in a behaviour
    Faults       \* which faults

FaultKinds == {
    "queueFail",    \* payload.jobs.queue throws
    "archiveFail",  \* the archive cannot be written; its partial file is removed
    "readyFail",    \* the write that marks an export ready throws
    "writeFail",    \* another write of an export throws
    "unlinkFail",   \* an archive cannot be unlinked
    "statFail",     \* a download cannot stat an archive that exists
    "eraseFail",    \* the erasure's transaction is rolled back
    "webCrash",     \* the process that serves a request dies
    "workerDeath",  \* the worker of an export dies
    "backlog",      \* an export waits for its worker past STALE_EXPORT_HOURS
    "slowCancel" }  \* an account may be erased between a cancel's read and write

ASSUME AccountErasureAssumption ==
    /\ Admins \subseteq Users /\ Nobody \notin Users
    /\ Owner \in [Exports -> Users]
    /\ MaxFaults \in Nat
    /\ Faults \subseteq FaultKinds

VARIABLES
    status,    \* data-exports: "absent" not yet created, "deleted" row gone
    path,      \* filePath is set
    disk,      \* the archive on disk, "recorded" once its export was ready
    age,       \* of requestedAt: "stale" after 6 hours, "old" after 30 days
    lapsed,    \* expiresAt has passed
    job,       \* the request's queue call and the export's job
    download,  \* a download of the export in progress
    cleaner,   \* data-export-cleanup: its pass, the records listed, the files due
    account,   \* users.deletionStatus
    due,       \* deletionScheduledAt has passed
    asking,    \* a schedule or cancel route between its read and its write
    eraser,    \* execute-account-deletion
    erased,    \* history: the account's erasure was committed
    left       \* faults left

export == <<status, path, disk, age, lapsed, job>>
user == <<account, due, asking, erased>>
vars == <<export, download, cleaner, user, eraser, left>>

Active == {"pending", "processing"}
Statuses == Active \cup {"absent", "deleted", "ready", "failed", "expired"}
Row(e) == status[e] \notin {"absent", "deleted"}
Resting == [pass |-> "idle", todo |-> {}, files |-> {}]
Asleep == [pc |-> "idle", list |-> {}, who |-> Nobody, found |-> {}, files |-> {}]

Init ==
    /\ status = [e \in Exports |-> "absent"]
    /\ path = [e \in Exports |-> FALSE] /\ disk = [e \in Exports |-> "none"]
    /\ age = [e \in Exports |-> "new"] /\ lapsed = [e \in Exports |-> FALSE]
    /\ job = [e \in Exports |-> "none"] /\ download = [e \in Exports |-> "none"]
    /\ cleaner = Resting
    /\ account = [u \in Users |-> "active"] /\ due = [u \in Users |-> FALSE]
    /\ asking = [u \in Users |-> "none"] /\ erased = [u \in Users |-> FALSE]
    /\ eraser = Asleep
    /\ left = MaxFaults

NoFault == UNCHANGED left
Fault(f) == f \in Faults /\ left > 0 /\ left' = left - 1
\* A write of an export finds its row, or throws.
Throws(e, f) == (~Row(e) /\ NoFault) \/ Fault(f)

---------------------------------------------------------------------------
(* The export's request and its job *)

\* Mutant: the requests of a user are not serialised by the advisory lock, so
\* that each may miss the record the other has not committed.
RequestUnlocked(e) ==
    /\ status[e] = "absent" /\ ~erased[Owner[e]]
    /\ \A f \in Exports : Owner[f] = Owner[e] => status[f] # "processing"
    /\ status' = [status EXCEPT ![e] = "pending"]
    /\ job' = [job EXCEPT ![e] = "request"]
    /\ UNCHANGED <<path, disk, age, lapsed, download, cleaner, user, eraser, left>>

\* The check and the create run in one transaction under the user's lock.
Request(e) ==
    /\ status[e] = "absent" /\ ~erased[Owner[e]]
    /\ \A f \in Exports : Owner[f] = Owner[e] => status[f] \notin Active
    /\ status' = [status EXCEPT ![e] = "pending"]
    /\ job' = [job EXCEPT ![e] = "request"]
    /\ UNCHANGED <<path, disk, age, lapsed, download, cleaner, user, eraser, left>>

\* A queue call that throws fails the record; the process may die before it.
QueueExport(e) ==
    /\ job[e] = "request"
    /\ \/ /\ job' = [job EXCEPT ![e] = "queued"]
          /\ NoFault /\ UNCHANGED status
       \/ /\ Fault("queueFail")
          /\ job' = [job EXCEPT ![e] = "none"]
          /\ status' = IF Row(e) THEN [status EXCEPT ![e] = "failed"] ELSE status
       \/ /\ Fault("webCrash")
          /\ job' = [job EXCEPT ![e] = "none"] /\ UNCHANGED status
    /\ UNCHANGED <<path, disk, age, lapsed, download, cleaner, user, eraser>>

\* The job marks its record "processing", whatever it was; with no record the
\* job fails and has none to mark.
JobStart(e) ==
    /\ job[e] = "queued"
    /\ \/ /\ Row(e) /\ NoFault
          /\ status' = [status EXCEPT ![e] = "processing"]
          /\ job' = [job EXCEPT ![e] = "archive"]
       \/ /\ Throws(e, "writeFail") /\ UNCHANGED status
          /\ job' = [job EXCEPT ![e] = IF Row(e) THEN "fail" ELSE "none"]
    /\ UNCHANGED <<path, disk, age, lapsed, download, cleaner, user, eraser>>

\* executeExport, to the end of the archive's write stream.
CreateArchive(e) ==
    /\ job[e] = "archive"
    /\ \/ /\ disk' = [disk EXCEPT ![e] = "unrecorded"]
          /\ job' = [job EXCEPT ![e] = "ready"] /\ NoFault
       \/ /\ Throws(e, "archiveFail")
          /\ job' = [job EXCEPT ![e] = "fail"] /\ UNCHANGED disk
    /\ UNCHANGED <<status, path, age, lapsed, download, cleaner, user, eraser>>

\* The record is given its path and a week to live; when that throws, the
\* archive stays and the export fails.
MarkReady(e) ==
    /\ job[e] = "ready"
    /\ \/ /\ Row(e) /\ NoFault
          /\ status' = [status EXCEPT ![e] = "ready"]
          /\ path' = [path EXCEPT ![e] = TRUE]
          /\ disk' = [disk EXCEPT ![e] = "recorded"]
          /\ lapsed' = [lapsed EXCEPT ![e] = FALSE]
          /\ job' = [job EXCEPT ![e] = "none"]
       \/ /\ Throws(e, "readyFail")
          /\ job' = [job EXCEPT ![e] = "fail"]
          /\ UNCHANGED <<status, path, disk, lapsed>>
    /\ UNCHANGED <<age, download, cleaner, user, eraser>>

\* handleExportFailure; an error of its own is logged.
HandleExportFailure(e) ==
    /\ job[e] = "fail"
    /\ job' = [job EXCEPT ![e] = "none"]
    /\ \/ Row(e) /\ NoFault /\ status' = [status EXCEPT ![e] = "failed"]
       \/ Throws(e, "writeFail") /\ UNCHANGED status
    /\ UNCHANGED <<path, disk, age, lapsed, download, cleaner, user, eraser>>

\* The worker is killed; an archive it had begun stays as it is.
WorkerDies(e) ==
    /\ job[e] \in {"archive", "ready", "fail"} /\ Fault("workerDeath")
    /\ job' = [job EXCEPT ![e] = "none"]
    /\ disk' = [disk EXCEPT ![e] = IF job[e] = "archive" THEN "unrecorded" ELSE @]
    /\ UNCHANGED <<status, path, age, lapsed, download, cleaner, user, eraser>>

---------------------------------------------------------------------------
(* The download route *)

\* The route reads a ready record and goes by its expiry.
DownloadRead(e) ==
    /\ status[e] = "ready" /\ download[e] = "none"
    /\ download' = [download EXCEPT ![e] = IF lapsed[e] THEN "retire" ELSE "stat"]
    /\ UNCHANGED <<export, cleaner, user, eraser, left>>

\* It serves the archive, or drops the path of one it cannot stat.
DownloadStat(e) ==
    /\ download[e] = "stat"
    /\ \/ disk[e] # "none" /\ NoFault /\ UNCHANGED <<status, path>>
       \/ /\ (disk[e] = "none" /\ NoFault) \/ Fault("statFail")
          /\ status' = IF Row(e) THEN [status EXCEPT ![e] = "failed"] ELSE status
          /\ path' = [path EXCEPT ![e] = FALSE]
    /\ download' = [download EXCEPT ![e] = "none"]
    /\ UNCHANGED <<disk, age, lapsed, job, cleaner, user, eraser>>

\* An expired record is retired before its archive is removed.
DownloadRetire(e) ==
    /\ download[e] = "retire"
    /\ \/ /\ Row(e) /\ NoFault
          /\ status' = [status EXCEPT ![e] = "expired"]
          /\ download' = [download EXCEPT ![e] = "unlink"]
       \/ /\ Throws(e, "writeFail")
          /\ download' = [download EXCEPT ![e] = "none"] /\ UNCHANGED status
    /\ UNCHANGED <<path, disk, age, lapsed, job, cleaner, user, eraser>>

\* unlinkExportFile, and the write that clears the path once the file is gone:
\* a failed unlink keeps the path, and a failed write leaves it dangling.
UnlinkExportFile(e) ==
    \/ /\ disk' = [disk EXCEPT ![e] = "none"]
       /\ \/ path' = [path EXCEPT ![e] = FALSE] /\ NoFault
          \/ Throws(e, "writeFail") /\ UNCHANGED path
    \/ disk[e] # "none" /\ Fault("unlinkFail") /\ UNCHANGED <<disk, path>>

DownloadUnlink(e) ==
    /\ download[e] = "unlink"
    /\ UnlinkExportFile(e)
    /\ download' = [download EXCEPT ![e] = "none"]
    /\ UNCHANGED <<status, age, lapsed, job, cleaner, user, eraser>>

---------------------------------------------------------------------------
(* data-export-cleanup: one run at a time *)

Listed(e) == [id |-> e, was |-> status[e], path |-> path[e]]

\* Each pass lists its records first and works on what it read.
StartCleanup ==
    /\ cleaner = Resting
    /\ cleaner' = [pass |-> "expire", files |-> {},
                   todo |-> {Listed(e) : e \in {f \in Exports :
                               \/ status[f] = "ready" /\ lapsed[f]
                               \/ status[f] = "expired" /\ path[f]}}]
    /\ UNCHANGED <<export, download, user, eraser, left>>

\* Mutant: the path is cleared with the status, before the unlink.
ExpireOneClearing(r) ==
    /\ cleaner.pass = "expire" /\ r \in cleaner.todo
    /\ cleaner' = [cleaner EXCEPT !.todo = @ \ {r}, !.files = @ \cup {r.id}]
    /\ status' = IF Row(r.id) THEN [status EXCEPT ![r.id] = "expired"] ELSE status
    /\ path' = [path EXCEPT ![r.id] = FALSE]
    /\ UNCHANGED <<disk, age, lapsed, job, download, user, eraser, left>>

\* expireReadyExports: the status goes first, the path stays.
ExpireOne(r) ==
    /\ cleaner.pass = "expire" /\ r \in cleaner.todo
    /\ \/ /\ r.was = "expired" /\ NoFault /\ UNCHANGED status
          /\ cleaner' = [cleaner EXCEPT !.todo = @ \ {r}, !.files = @ \cup {r.id}]
       \/ /\ r.was = "ready" /\ Row(r.id) /\ NoFault
          /\ status' = [status EXCEPT ![r.id] = "expired"]
          /\ cleaner' = [cleaner EXCEPT !.todo = @ \ {r}, !.files = @ \cup {r.id}]
       \/ /\ r.was = "ready" /\ Throws(r.id, "writeFail") /\ UNCHANGED status
          /\ cleaner' = [cleaner EXCEPT !.todo = @ \ {r}]
    /\ UNCHANGED <<path, disk, age, lapsed, job, download, user, eraser>>

\* unlinkPending.
UnlinkPending(e) ==
    /\ cleaner.pass = "unlink" /\ e \in cleaner.files
    /\ UnlinkExportFile(e)
    /\ cleaner' = [cleaner EXCEPT !.files = @ \ {e}]
    /\ UNCHANGED <<status, age, lapsed, job, download, user, eraser>>

\* Mutant: the outcome "failed" is taken for a deleted file.
PurgeOneTruthy(r) ==
    /\ cleaner.pass = "purge" /\ r \in cleaner.todo
    /\ cleaner' = [cleaner EXCEPT !.todo = @ \ {r}]
    /\ \/ disk' = [disk EXCEPT ![r.id] = IF r.path THEN "none" ELSE @] /\ NoFault
       \/ r.path /\ Fault("unlinkFail") /\ UNCHANGED disk
    /\ status' = IF Row(r.id) THEN [status EXCEPT ![r.id] = "deleted"] ELSE status
    /\ path' = [path EXCEPT ![r.id] = FALSE]
    /\ UNCHANGED <<age, lapsed, job, download, user, eraser>>

\* purgeOldRecords: the row goes once the file it points at is gone.
PurgeOne(r) ==
    /\ cleaner.pass = "purge" /\ r \in cleaner.todo
    /\ cleaner' = [cleaner EXCEPT !.todo = @ \ {r}]
    /\ \/ /\ disk' = [disk EXCEPT ![r.id] = IF r.path THEN "none" ELSE @]
          /\ \/ /\ Row(r.id) /\ NoFault
                /\ status' = [status EXCEPT ![r.id] = "deleted"]
                /\ path' = [path EXCEPT ![r.id] = FALSE]
             \/ Throws(r.id, "writeFail") /\ UNCHANGED <<status, path>>
       \/ /\ r.path /\ disk[r.id] # "none" /\ Fault("unlinkFail")
          /\ UNCHANGED <<status, path, disk>>
    /\ UNCHANGED <<age, lapsed, job, download, user, eraser>>

\* Mutant: the reaper gives its records a status of their own.
ReapOneAbandoned(r) ==
    /\ cleaner.pass = "reap" /\ r \in cleaner.todo
    /\ cleaner' = [cleaner EXCEPT !.todo = @ \ {r}]
    /\ status' = IF Row(r.id) THEN [status EXCEPT ![r.id] = "abandoned"] ELSE status
    /\ UNCHANGED <<path, disk, age, lapsed, job, download, user, eraser, left>>

\* reapStaleExports: a blind write of what was listed.
ReapOne(r) ==
    /\ cleaner.pass = "reap" /\ r \in cleaner.todo
    /\ cleaner' = [cleaner EXCEPT !.todo = @ \ {r}]
    /\ \/ Row(r.id) /\ NoFault /\ status' = [status EXCEPT ![r.id] = "failed"]
       \/ Throws(r.id, "writeFail") /\ UNCHANGED status
    /\ UNCHANGED <<path, disk, age, lapsed, job, download, user, eraser>>

\* Mutant: a request whose job was never queued is not looked for.
StaleProcessing == {e \in Exports : status[e] = "processing" /\ age[e] # "new"}

\* The records the reaper takes for abandoned.
Stale == {e \in Exports : status[e] \in Active /\ age[e] # "new"}

NextPass ==
    /\ cleaner.pass # "idle" /\ cleaner.todo = {}
    /\ \/ /\ cleaner.pass = "expire"
          /\ cleaner' = [cleaner EXCEPT !.pass = "unlink"]
       \/ /\ cleaner.pass = "unlink" /\ cleaner.files = {}
          /\ cleaner' = [cleaner EXCEPT !.pass = "purge",
                           !.todo = {Listed(e) : e \in {f \in Exports :
                              status[f] \in {"failed", "expired"} /\ age[f] = "old"}}]
       \/ /\ cleaner.pass = "purge"
          /\ cleaner' = [cleaner EXCEPT !.pass = "reap",
                           !.todo = {Listed(e) : e \in Stale}]
       \/ cleaner.pass = "reap" /\ cleaner' = Resting
    /\ UNCHANGED <<export, download, user, eraser, left>>

Cleanup ==
    \/ StartCleanup \/ NextPass
    \/ \E r \in cleaner.todo : ExpireOne(r) \/ PurgeOne(r) \/ ReapOne(r)
    \/ \E e \in cleaner.files : UnlinkPending(e)

---------------------------------------------------------------------------
(* The deletion of accounts *)

\* canDeleteUser, without the check for active imports, which may refuse any
\* deletion.
CanDelete(u) ==
    /\ account[u] # "deleted"
    /\ u \in Admins => \E v \in Admins \ {u} : account[v] = "active"

\* The schedule route checks the account ...
ScheduleRead(u) ==
    /\ ~erased[u] /\ asking[u] = "none" /\ account[u] = "active" /\ CanDelete(u)
    /\ asking' = [asking EXCEPT ![u] = "schedule"]
    /\ UNCHANGED <<export, download, cleaner, account, due, erased, eraser, left>>

\* ... and then writes it.
ScheduleWrite(u) ==
    /\ asking[u] = "schedule"
    /\ asking' = [asking EXCEPT ![u] = "none"]
    /\ account' = [account EXCEPT ![u] = "pending"]
    /\ due' = [due EXCEPT ![u] = FALSE]
    /\ UNCHANGED <<export, download, cleaner, erased, eraser, left>>

\* So does the cancel route, whose write has no condition.
CancelRead(u) ==
    /\ ~erased[u] /\ asking[u] = "none" /\ account[u] = "pending"
    /\ asking' = [asking EXCEPT ![u] = "cancel"]
    /\ UNCHANGED <<export, download, cleaner, account, due, erased, eraser, left>>

CancelWrite(u) ==
    /\ asking[u] = "cancel"
    /\ asking' = [asking EXCEPT ![u] = "none"]
    /\ account' = [account EXCEPT ![u] = "active"]
    /\ due' = [due EXCEPT ![u] = FALSE]
    /\ UNCHANGED <<export, download, cleaner, erased, eraser, left>>

\* The nightly job lists the accounts that are due ...
StartErasures ==
    LET list == {u \in Users : account[u] = "pending" /\ due[u]}
    IN  /\ eraser = Asleep /\ list # {}
        /\ eraser' = [Asleep EXCEPT !.pc = "next", !.list = list]
        /\ UNCHANGED <<export, download, cleaner, user, left>>

\* Mutant: an account that was due is not checked again.
CheckAgainMissing(u) ==
    /\ eraser.pc = "next" /\ u \in eraser.list
    /\ eraser' = [eraser EXCEPT !.list = @ \ {u}, !.pc = "collect", !.who = u]
    /\ UNCHANGED <<export, download, cleaner, user, left>>

\* ... checks each one again, though not that its deletion is still pending ...
CheckAgain(u) ==
    /\ eraser.pc = "next" /\ u \in eraser.list
    /\ \/ /\ CanDelete(u)
          /\ eraser' = [eraser EXCEPT !.list = @ \ {u}, !.pc = "collect", !.who = u]
       \/ eraser' = [eraser EXCEPT !.list = @ \ {u}]
    /\ UNCHANGED <<export, download, cleaner, user, left>>

\* Mutant: the archives are unlinked inside the transaction.
CollectUnlinking ==
    LET mine == {e \in Exports : Owner[e] = eraser.who /\ Row(e)}
    IN  /\ eraser.pc = "collect"
        /\ eraser' = [eraser EXCEPT !.pc = "commit", !.found = mine]
        /\ disk' = [e \in Exports |-> IF e \in mine /\ path[e] THEN "none" ELSE disk[e]]
        /\ UNCHANGED <<status, path, age, lapsed, job, download, cleaner, user, left>>

\* ... finds its exports and the archives they point at ...
CollectExports ==
    LET mine == {e \in Exports : Owner[e] = eraser.who /\ Row(e)}
    IN  /\ eraser.pc = "collect"
        /\ eraser' = [eraser EXCEPT !.pc = "commit", !.found = mine,
                                    !.files = {e \in mine : path[e]}]
        /\ UNCHANGED <<export, download, cleaner, user, left>>

\* ... and commits the end of the account and of the rows it found, or rolls
\* everything back and leaves the account for the next night, as it does when a
\* row it found is gone.
CommitErasure ==
    LET u == eraser.who
    IN  /\ eraser.pc = "commit"
        /\ \/ /\ \A e \in eraser.found : Row(e)
              /\ NoFault
              /\ asking[u] = "cancel" => "slowCancel" \in Faults
              /\ account' = [account EXCEPT ![u] = "deleted"]
              /\ erased' = [erased EXCEPT ![u] = TRUE]
              /\ status' = [e \in Exports |->
                              IF e \in eraser.found THEN "deleted" ELSE status[e]]
              /\ path' = [e \in Exports |-> path[e] /\ e \notin eraser.found]
              /\ eraser' = [eraser EXCEPT !.pc = "unlink", !.found = {}]
           \/ /\ \/ NoFault /\ \E e \in eraser.found : ~Row(e)
                 \/ Fault("eraseFail")
              /\ eraser' = [eraser EXCEPT !.pc = "next", !.who = Nobody,
                                          !.found = {}, !.files = {}]
              /\ UNCHANGED <<account, erased, status, path>>
        /\ UNCHANGED <<disk, age, lapsed, job, download, cleaner, due, asking>>

\* The archives go after the commit, as far as they can be unlinked.
UnlinkErased(e) ==
    /\ eraser.pc = "unlink" /\ e \in eraser.files
    /\ \/ disk' = [disk EXCEPT ![e] = "none"] /\ NoFault
       \/ disk[e] # "none" /\ Fault("unlinkFail") /\ UNCHANGED disk
    /\ eraser' = [eraser EXCEPT !.files = @ \ {e}]
    /\ UNCHANGED <<status, path, age, lapsed, job, download, cleaner, user>>

NextAccount ==
    /\ \/ eraser.pc = "unlink" /\ eraser.files = {}
          /\ eraser' = [eraser EXCEPT !.pc = "next", !.who = Nobody]
       \/ eraser.pc = "next" /\ eraser.list = {} /\ eraser' = Asleep
    /\ UNCHANGED <<export, download, cleaner, user, left>>

Erasures ==
    \/ StartErasures \/ CollectExports \/ CommitErasure \/ NextAccount
    \/ \E u \in eraser.list : CheckAgain(u)
    \/ \E e \in eraser.files : UnlinkErased(e)

---------------------------------------------------------------------------
(* Time *)

\* An active export is stale after six hours; its worker is at it by then,
\* unless the queue has a backlog.
GrowStale(e) ==
    /\ status[e] \in Active /\ age[e] = "new"
    /\ job[e] \in {"request", "queued"} => "backlog" \in Faults
    /\ age' = [age EXCEPT ![e] = "stale"]
    /\ UNCHANGED <<status, path, disk, lapsed, job, download, cleaner, user, eraser,
                   left>>

\* RECORD_RETENTION_DAYS, which no job and no download lasts.
GrowOld(e) ==
    /\ status[e] \in {"failed", "expired"} /\ age[e] # "old"
    /\ job[e] = "none" /\ download[e] = "none"
    /\ age' = [age EXCEPT ![e] = "old"]
    /\ UNCHANGED <<status, path, disk, lapsed, job, download, cleaner, user, eraser,
                   left>>

\* EXPORT_EXPIRY_MS.
Lapse(e) ==
    /\ status[e] = "ready" /\ ~lapsed[e]
    /\ lapsed' = [lapsed EXCEPT ![e] = TRUE]
    /\ UNCHANGED <<status, path, disk, age, job, download, cleaner, user, eraser, left>>

\* The grace period ends.
GraceEnds(u) ==
    /\ account[u] = "pending" /\ ~due[u]
    /\ due' = [due EXCEPT ![u] = TRUE]
    /\ UNCHANGED <<export, download, cleaner, account, asking, erased, eraser, left>>

Time ==
    \/ \E e \in Exports : GrowStale(e) \/ GrowOld(e) \/ Lapse(e)
    \/ \E u \in Users : GraceEnds(u)

---------------------------------------------------------------------------

Job(e) ==
    \/ QueueExport(e) \/ JobStart(e) \/ CreateArchive(e) \/ MarkReady(e)
    \/ HandleExportFailure(e)

Download(e) == DownloadStat(e) \/ DownloadRetire(e) \/ DownloadUnlink(e)

Ask(u) == ScheduleWrite(u) \/ CancelWrite(u)

Next ==
    \/ \E e \in Exports : \/ Request(e) \/ Job(e) \/ WorkerDies(e)
                          \/ DownloadRead(e) \/ Download(e)
    \/ \E u \in Users : ScheduleRead(u) \/ CancelRead(u) \/ Ask(u)
    \/ Cleanup \/ Erasures \/ Time

Spec == Init /\ [][Next]_vars

\* What has started goes on, the crons fire and time passes; no user is obliged
\* to request, download, schedule or cancel.
FairSpec ==
    /\ Spec
    /\ \A e \in Exports : /\ WF_vars(Job(e)) /\ WF_vars(Download(e))
                          /\ WF_vars(GrowStale(e)) /\ WF_vars(GrowOld(e))
    /\ WF_vars(Cleanup) /\ WF_vars(Erasures)

---------------------------------------------------------------------------
(* Properties *)

\* Every variable stays within its type.
TypeOK ==
    /\ status \in [Exports -> Statuses] /\ path \in [Exports -> BOOLEAN]
    /\ disk \in [Exports -> {"none", "unrecorded", "recorded"}]
    /\ age \in [Exports -> {"new", "stale", "old"}] /\ lapsed \in [Exports -> BOOLEAN]
    /\ job \in [Exports -> {"none", "request", "queued", "archive", "ready", "fail"}]
    /\ download \in [Exports -> {"none", "stat", "retire", "unlink"}]
    /\ cleaner \in [pass : {"idle", "expire", "unlink", "purge", "reap"},
                    todo : SUBSET [id : Exports, was : Statuses, path : BOOLEAN],
                    files : SUBSET Exports]
    /\ account \in [Users -> {"active", "pending", "deleted"}]
    /\ due \in [Users -> BOOLEAN] /\ erased \in [Users -> BOOLEAN]
    /\ asking \in [Users -> {"none", "schedule", "cancel"}]
    /\ eraser \in [pc : {"idle", "next", "collect", "commit", "unlink"},
                   list : SUBSET Users, who : Users \cup {Nobody},
                   found : SUBSET Exports, files : SUBSET Exports]
    /\ left \in 0..MaxFaults

\* However the routes of several admins race and whatever was scheduled before,
\* the nightly job never erases the last admin.
AdminRemains == Admins # {} => \E u \in Admins : ~erased[u]

\* A user has at most one export pending or processing, over requests, failing
\* queue calls, lost workers and the reaper.
OneActiveExport ==
    \A e, f \in Exports :
        status[e] \in Active /\ status[f] \in Active /\ Owner[e] = Owner[f] => e = f

\* An export shown as ready has its archive on disk, also when an erasure of
\* its owner is rolled back.
ReadyHasArchive == \A e \in Exports : status[e] = "ready" => disk[e] = "recorded"

\* An archive that was ready is never lost track of while its owner's account
\* exists: a record points at it until it is unlinked.
ArchiveReachable ==
    \A e \in Exports :
        disk[e] = "recorded" /\ ~erased[Owner[e]] => Row(e) /\ path[e]

\* Every export ends, whichever queue call fails and whichever worker dies, so
\* that its user can request another.
ExportsSettle == \A e \in Exports : status[e] \in Active ~> status[e] \notin Active

\* An archive whose export has expired leaves the disk, though unlinks and
\* writes fail.
ArchivesRetired ==
    \A e \in Exports :
        disk[e] = "recorded" /\ lapsed[e] ~> disk[e] # "recorded" \/ erased[Owner[e]]

\* Nothing of an erased account's exports stays on disk once its erasure and
\* its jobs are over.
ErasedLeavesNoArchive ==
    \A e \in Exports :
        erased[Owner[e]] /\ disk[e] # "none" => job[e] # "none" \/ e \in eraser.files

=============================================================================
