--------------------------- MODULE BackupRestore ----------------------------
(***************************************************************************)
(* Copies of the database and their restore (backup_service.rs, store.rs    *)
(* and the restore command of app_core.rs): the process that owns the       *)
(* runtime with its commands, its queue worker and its settings cache, and  *)
(* command line processes that open the same database.                      *)
(***************************************************************************)
EXTENDS Naturals, FiniteSets

CONSTANTS
  App, Cli,   \* the owner of the runtime, and one command line process after another
  Keep,       \* BACKUP_KEEP_COUNT, 0 for no limit
  MaxData,    \* bound: versions of the settings and channels
  MaxCopies   \* bound: copies

VARIABLES
  db,      \* the database: version of its data, and state of its queue row
  newest,  \* the last version written
  copies,  \* the backup files, in the order of their creation
  holder,  \* who has the runtime owner lock
  up,      \* whether the owner process runs
  busy,    \* whether a command's work runs in it: the watcher, a recording or a VOD job
  active,  \* its queue worker: without a row, under lifecycle_lock with one it claimed, with a
           \* job for it, or with the row of a job that is over or did not start
  restore, \* where each process is in restore_backup, outside BackupManager
  op,      \* what each process does under the operation lock of its BackupManager
  cache,   \* the data version in the owner's settings and channels caches
  stale,   \* history: the owner's cache may be old, another process wrote or a restore failed
  foreign  \* history: another process wrote since the restore in progress took its locks

procs == <<holder, up, busy, active>>
vars  == <<db, newest, copies, procs, restore, op, cache, stale, foreign>>

Processes == {App, Cli}
Data      == 1 .. MaxData
Files     == 1 .. MaxCopies
Database  == [data : Data, queue : {"none", "queued", "busy"}]
NoOne     == "no one"
NoFile    == [state |-> "none"]
NoOp      == [kind |-> "none", pc |-> "idle", file |-> 0, source |-> 0]

\* Type invariant.
BackupTypeOK ==
  /\ db \in Database /\ newest \in Data
  /\ \A f \in Files : \/ copies[f] = NoFile
                      \/ copies[f] \in [state : {"partial", "plain", "whole"}, db : Database]
  /\ holder \in Processes \cup {NoOne} /\ up \in BOOLEAN
  /\ busy \in BOOLEAN /\ active \in {"no", "claimed", "running", "settling"}
  /\ restore \in [Processes -> {"idle", "begun", "checked", "inside"}]
  /\ op \in [Processes -> [kind : {"none", "copy", "restore"}, file : 0 .. MaxCopies,
                           pc : {"idle", "copy", "meta", "clean", "page", "finish", "retain"},
                           source : 0 .. MaxCopies]]
  /\ cache \in Data /\ stale \in BOOLEAN /\ foreign \in BOOLEAN

Init ==
  /\ db = [data |-> 1, queue |-> "none"] /\ newest = 1
  /\ copies = [f \in Files |-> NoFile]
  /\ holder = NoOne /\ up = FALSE /\ busy = FALSE /\ active = "no"
  /\ restore = [p \in Processes |-> "idle"] /\ op = [p \in Processes |-> NoOp]
  /\ cache = 1 /\ stale = FALSE /\ foreign = FALSE

\* recover_interrupted: what a dead process left running is interrupted.
Recovered(d) == IF d.queue = "busy" THEN [d EXCEPT !.queue = "none"] ELSE d

----------------------------------------------------------------------------
(* Processes.                                                              *)

\* StreamArchiveCore::open: the owner lock, then the store with its recovery.
AppUp ==
  /\ ~up /\ holder = NoOne /\ holder' = App /\ up' = TRUE
  /\ db' = Recovered(db) /\ cache' = db.data /\ stale' = FALSE
  /\ UNCHANGED <<newest, copies, busy, active, restore, op, foreign>>

\* The process ends, at whatever point; files and database stay as they are.
Die(p) ==
  /\ IF p = App THEN up /\ up' = FALSE /\ busy' = FALSE /\ active' = "no"
     ELSE (op[p] # NoOp \/ restore[p] # "idle") /\ UNCHANGED <<up, busy, active>>
  /\ holder' = IF holder = p THEN NoOne ELSE holder
  /\ restore' = [restore EXCEPT ![p] = "idle"] /\ op' = [op EXCEPT ![p] = NoOp]
  /\ UNCHANGED <<db, newest, copies, cache, stale, foreign>>

\* The command has taken lifecycle_lock and config_write_lock and has not given them back.
Locked(p) == restore[p] # "idle"

\* Mutant: the queue worker takes a lock of its own, not the core's.
WorkersLock   == active # "claimed"
\* The queue worker holds lifecycle_lock from before its claim until the download has begun or
\* was refused.
LifecycleFree == ~Locked(App) /\ active # "claimed"

\* config_write_lock: settings and channels are not saved during a restore.
MayWrite(p) == ~Locked(p)

\* update_environment_settings, update_channels and the like, in the owner.
Write ==
  /\ up /\ MayWrite(App) /\ newest < MaxData
  /\ newest' = newest + 1 /\ db' = [db EXCEPT !.data = newest']
  /\ cache' = newest'
  /\ UNCHANGED <<copies, procs, restore, op, stale, foreign>>

\* start_watcher and download_vod take lifecycle_lock; their work ends at any time.
StartWork ==
  /\ up /\ LifecycleFree /\ ~busy /\ busy' = TRUE
  /\ UNCHANGED <<db, newest, copies, holder, up, active, restore, op, cache, stale, foreign>>

EndWork ==
  /\ busy /\ busy' = FALSE
  /\ UNCHANGED <<db, newest, copies, holder, up, active, restore, op, cache, stale, foreign>>

\* enqueue_vod and retry_queue_item, under config_write_lock.
Enqueue ==
  /\ up /\ MayWrite(App) /\ db.queue = "none"
  /\ db' = [db EXCEPT !.queue = "queued"]
  /\ UNCHANGED <<newest, copies, procs, restore, op, cache, stale, foreign>>

\* cancel_queue_item, under lifecycle_lock: a row that waits, or the worker's after its job.
CancelItem ==
  /\ up /\ LifecycleFree /\ (db.queue = "queued" \/ active # "no")
  /\ active' = IF active # "no" /\ db.queue # "queued" THEN "settling" ELSE active
  /\ db' = [db EXCEPT !.queue = "none"]
  /\ UNCHANGED <<newest, copies, holder, up, busy, restore, op, cache, stale, foreign>>

\* The queue worker takes lifecycle_lock, claims a row and calls vod.download.
Claim ==
  /\ up /\ LifecycleFree /\ active = "no" /\ db.queue = "queued"
  /\ db' = [db EXCEPT !.queue = "busy"] /\ active' = "claimed"
  /\ UNCHANGED <<newest, copies, holder, up, busy, restore, op, cache, stale, foreign>>

\* vod.download returns, and the lock is given back: a job runs, or was refused.  A job may be
\* over before the worker's next poll sees it.
WorkerStarts ==
  /\ \/ active = "claimed" /\ active' \in {"running", "settling"}
     \/ active = "running" /\ active' = "settling"
  /\ UNCHANGED <<db, newest, copies, holder, up, busy, restore, op, cache, stale, foreign>>

\* The row gets its result, a request that cannot be read under the lock.  What was queued
\* meanwhile stays, unless it is the same row.
WorkerEnds ==
  /\ active \in {"claimed", "settling"} /\ active' = "no"
  /\ \/ db' = [db EXCEPT !.queue = "none"]
     \/ db.queue # "busy" /\ UNCHANGED db
  /\ UNCHANGED <<newest, copies, holder, up, busy, restore, op, cache, stale, foreign>>

\* `settings set`, `queue add` and `queue cancel` of another command line process write to the
\* database themselves, with no lock that a restore holds.
OutsiderWrites ==
  /\ \/ /\ newest < MaxData /\ newest' = newest + 1
        /\ db' = [db EXCEPT !.data = newest'] /\ stale' = TRUE
     \/ /\ \/ db.queue = "none" /\ db' = [db EXCEPT !.queue = "queued"]
           \/ db.queue = "queued" /\ db' = [db EXCEPT !.queue = "none"]
        /\ UNCHANGED <<newest, stale>>
  /\ foreign' = \E p \in Processes : restore[p] # "idle"
  /\ UNCHANGED <<copies, procs, restore, op, cache>>

----------------------------------------------------------------------------
(* Copies.                                                                 *)

Exists(p) == p = Cli \/ up
Unused    == {f \in Files : \A g \in Files : g >= f => copies[g] = NoFile}

\* create_manual, and create_auto_if_due. A command line process has just opened the database.
BeginCopy(p) ==
  /\ Exists(p) /\ op[p] = NoOp /\ restore[p] \in {"idle", "begun"}
  /\ op' = [op EXCEPT ![p].kind = "copy", ![p].pc = "copy"]
  /\ UNCHANGED <<db, newest, copies, procs, restore, cache, stale, foreign>>

\* An error ends the operation, and a restore with it.
Abort(p) ==
  /\ op' = [op EXCEPT ![p] = NoOp]
  /\ IF op[p].kind = "restore"
     THEN /\ restore' = [restore EXCEPT ![p] = "idle"]
          /\ holder' = IF p = Cli THEN NoOne ELSE holder
     ELSE UNCHANGED <<restore, holder>>

Goto(p, pc) == op' = [op EXCEPT ![p].pc = pc] /\ UNCHANGED <<restore, holder>>

\* backup_to and verify_sqlite. A failure half way leaves a file that is no database.
CopyDatabase(p) ==
  /\ op[p].pc = "copy"
  /\ \E f \in Unused :
       /\ \A g \in Unused : f <= g
       /\ \/ /\ copies' = [copies EXCEPT ![f] = [state |-> "plain", db |-> db]]
             /\ op' = [op EXCEPT ![p].pc = "meta", ![p].file = f] /\ UNCHANGED <<restore, holder>>
          \/ /\ copies' = [copies EXCEPT ![f] = [state |-> "partial", db |-> db]]
             /\ Abort(p)
  /\ UNCHANGED <<db, newest, up, busy, active, cache, stale, foreign>>

\* The metadata file; the safety copy of a restore is not followed by a cleanup.
WriteMetadata(p) ==
  /\ op[p].pc = "meta"
  /\ \/ /\ copies' = [copies EXCEPT ![op[p].file].state = "whole"]
        /\ Goto(p, IF op[p].kind = "restore" THEN "page" ELSE "clean")
     \/ UNCHANGED copies /\ Abort(p)
  /\ UNCHANGED <<db, newest, up, busy, active, cache, stale, foreign>>

\* is_owned_backup: a sound database with its metadata.
Owned == {f \in Files : copies[f].state = "whole"}

\* cleanup_locked: all but the newest Keep, and those older than the retention.
Excess == {f \in Owned : Keep > 0 /\ Cardinality({g \in Owned : g > f}) >= Keep}
Remove(fs) == copies' = [f \in Files |-> IF f \in fs THEN NoFile ELSE copies[f]]

\* A file that cannot be removed ends the cleanup with an error.
Cleanup(p) ==
  /\ op[p].pc = "clean"
  /\ \/ \E old \in Files : old <= op[p].file /\ Remove(Excess \cup {f \in Owned : f < old})
     \/ UNCHANGED copies
  /\ Abort(p)
  /\ UNCHANGED <<db, newest, up, busy, active, cache, stale, foreign>>

----------------------------------------------------------------------------
(* Restore.                                                                *)

\* The locks of the command, which for a command line process include the runtime owner's.
MayOwn(p) == IF p = App THEN up /\ LifecycleFree ELSE holder = NoOne

RestoreBegins(p) ==
  /\ Exists(p) /\ restore[p] = "idle" /\ MayOwn(p) /\ (p = Cli => op[p] = NoOp)
  /\ restore' = [restore EXCEPT ![p] = "begun"] /\ foreign' = FALSE
  /\ IF p = Cli
     THEN holder' = Cli /\ db' = Recovered(db)
     ELSE UNCHANGED <<holder, db>>
  /\ UNCHANGED <<newest, copies, up, busy, active, op, cache, stale>>

GiveUp(p) ==
  /\ restore' = [restore EXCEPT ![p] = "idle"]
  /\ holder' = IF p = Cli THEN NoOne ELSE holder

\* The watcher and the VOD managers of this process.
CheckWork(p) ==
  /\ restore[p] = "begun"
  /\ IF p = App /\ (busy \/ active = "running") THEN GiveUp(p)
     ELSE restore' = [restore EXCEPT ![p] = "checked"] /\ UNCHANGED holder
  /\ UNCHANGED <<db, newest, copies, up, busy, active, op, cache, stale, foreign>>

\* has_pending_or_active.
HasPending(p) == db.queue \in {"queued", "busy"} \/ (p = App /\ active # "no")

\* BackupManager::restore: the operation lock, then resolve_file and inspect_backup.
CheckQueue(p) ==
  /\ restore[p] = "checked" /\ op[p] = NoOp
  /\ \/ /\ ~HasPending(p)
        /\ \E f \in Owned :
             op' = [op EXCEPT ![p] = [kind |-> "restore", pc |-> "copy", file |-> 0, source |-> f]]
        /\ restore' = [restore EXCEPT ![p] = "inside"] /\ UNCHANGED holder
     \/ GiveUp(p) /\ UNCHANGED op
  /\ UNCHANGED <<db, newest, copies, up, busy, active, cache, stale, foreign>>

\* restore_from up to the end of the page copy, which is one transaction; the copy may be gone.
PageCopy(p) ==
  /\ op[p].pc = "page"
  /\ \/ /\ copies[op[p].source] # NoFile
        /\ db' = copies[op[p].source].db /\ stale' = TRUE /\ Goto(p, "finish")
     \/ UNCHANGED <<db, stale>> /\ Abort(p)
  /\ UNCHANGED <<newest, copies, up, busy, active, cache, foreign>>

\* refresh_config_cache_from_conn.
Refreshed(p) == IF p = App THEN db.data ELSE cache

\* The schema, the caches, the defaults and the interrupted rows; an error before the caches
\* are read leaves them as they were.
FinishRestore(p) ==
  /\ op[p].pc = "finish"
  /\ \/ /\ db' = Recovered(db) /\ cache' = Refreshed(p)
        /\ stale' = (IF p = App THEN foreign ELSE stale) /\ Goto(p, "retain")
     \/ UNCHANGED <<db, cache, stale>> /\ Abort(p)
  /\ UNCHANGED <<newest, copies, up, busy, active, foreign>>

\* cleanup_locked with the policy of the restored database.
RestoreCleanup(p) ==
  /\ op[p].pc = "retain"
  /\ Remove(Excess) \/ UNCHANGED copies
  /\ Abort(p)
  /\ UNCHANGED <<db, newest, up, busy, active, cache, stale, foreign>>

OperationStep(p) ==
  \/ CopyDatabase(p) \/ WriteMetadata(p) \/ Cleanup(p)
  \/ CheckWork(p) \/ CheckQueue(p) \/ PageCopy(p) \/ FinishRestore(p) \/ RestoreCleanup(p)

Next ==
  \/ AppUp \/ Write \/ StartWork \/ EndWork \/ Enqueue \/ CancelItem
  \/ Claim \/ WorkerStarts \/ WorkerEnds \/ OutsiderWrites
  \/ \E p \in Processes : Die(p) \/ BeginCopy(p) \/ RestoreBegins(p) \/ OperationStep(p)

Spec == Init /\ [][Next]_vars

----------------------------------------------------------------------------
(* Properties.                                                             *)

\* From its checks until it ends nothing else is at work beside a restore: no recording, no
\* download, no row in the worker's hands, and no other process that owns the runtime.  What it
\* replaces holds no row that is worked on, nor one that waits, unless another process added it
\* after the last look at the queue (restore_backup, app_core.rs).
RestoreIsAlone ==
  \A p \in Processes : op[p].kind = "restore" =>
    /\ ~busy /\ active = "no" /\ (p = Cli => ~up)
    /\ op[p].pc \in {"copy", "meta", "page"} =>
         db.queue = "none" \/ (foreign /\ db.queue = "queued")

\* What a restore replaces is in a complete copy: a setting that was saved before cannot get
\* lost between the safety copy and the page copy, nor can a cleanup take the copy away.
ReplacedDataIsKept ==
  [][\A p \in Processes : op[p].pc = "page" /\ op'[p].pc = "finish" /\ ~foreign =>
       \E f \in Files : copies[f].state = "whole" /\ copies[f].db.data = db.data]_vars

\* No cleanup pulls away a file that another process is still writing.
NoCopyIsPulledAway ==
  [][\A f \in Files : copies[f].state \in {"partial", "plain"} => copies'[f] # NoFile]_vars

\* The owner works with the settings that are in the database, also after a restore: unless a
\* restore failed after the page copy, or another process wrote, its cache is current.
CacheIsCurrent == up /\ ~stale => cache = db.data

\* A restore is alone with the database, and the owner sees what it brought.
RestoreIsSafe == BackupTypeOK /\ RestoreIsAlone /\ CacheIsCurrent

\* No copy is lost: neither the safety copy of a restore nor one that is being written.
BackupsAreKept == ReplacedDataIsKept /\ NoCopyIsPulledAway
=============================================================================
