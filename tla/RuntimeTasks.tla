---------------------------- MODULE RuntimeTasks ----------------------------
(***************************************************************************)
(* The background tasks of the core and its shutdown (background_tasks.rs,  *)
(* shutdown() of app_core.rs), with what one of the tasks is there for: the *)
(* VOD history, copied once a second from the status of the last job.       *)
(***************************************************************************)
EXTENDS Naturals

CONSTANTS
  Backup, History, \* the kinds of task
  Callers,         \* callers of shutdown(), each of which may give up waiting
  MaxJobs          \* bound: VOD jobs

VARIABLES
  stopping,  \* State.stopping, and the stop channel that is set with it
  tasks,     \* State.tasks: kinds with a handle there
  draining,  \* the handles shutdown() has taken, kept in its mutex
  alive,     \* tasks that have not ended
  owner,     \* the caller that has the mutex of shutdown()
  caller,    \* where each caller is
  queue,     \* the queue worker: "on", "off", or "late" with a claim its shutdown missed
  job, runs, \* the last VOD job, and whether it runs
  rows,      \* vod_jobs: "none", "running" or "ended"
  seen,      \* the status the history task has read, <<0, "none">> when it sleeps
  answer     \* a job whose status its command has in hand and will write

handles == <<stopping, tasks, draining, alive>>
history == <<job, runs, rows>>
vars    == <<handles, owner, caller, queue, history, seen, answer>>

Kinds   == {Backup, History}
Nobody  == "nobody"
Jobs    == 1 .. MaxJobs
Asleep  == <<0, "none">>
Status  == <<job, IF runs THEN "running" ELSE "ended">>

\* Type invariant.
TasksTypeOK ==
  /\ stopping \in BOOLEAN /\ queue \in {"on", "late", "off"} /\ runs \in BOOLEAN
  /\ {tasks, draining, alive} \subseteq SUBSET Kinds
  /\ owner \in Callers \cup {Nobody}
  /\ caller \in [Callers -> {"out", "asked", "waits", "joins", "joined", "done", "gone"}]
  /\ job \in 0 .. MaxJobs /\ answer \in 0 .. MaxJobs
  /\ rows \in [Jobs -> {"none", "running", "ended"}]
  /\ seen \in {Asleep} \cup (Jobs \X {"running", "ended"})

Init ==
  /\ stopping = FALSE /\ tasks = {} /\ draining = {} /\ alive = {}
  /\ owner = Nobody /\ caller = [c \in Callers |-> "out"] /\ queue = "on"
  /\ job = 0 /\ runs = FALSE /\ rows = [j \in Jobs |-> "none"] /\ seen = Asleep /\ answer = 0

----------------------------------------------------------------------------
(* Tasks.                                                                  *)

Accepting == ~stopping

\* BackgroundTasks::start: one task of a kind.
StartTask(k) ==
  /\ Accepting /\ k \notin tasks /\ k \notin alive
  /\ tasks' = tasks \cup {k} /\ alive' = alive \cup {k}
  /\ UNCHANGED <<stopping, draining, owner, caller, queue, history, seen, answer>>


\* A task sees the stop channel where it waits: between two copies, or for its backup.
EndTask(k) ==
  /\ k \in alive /\ stopping /\ (k = History => seen = Asleep)
  /\ alive' = alive \ {k}
  /\ UNCHANGED <<stopping, tasks, draining, owner, caller, queue, history, seen, answer>>

\* spawn_vod_history_sync: the status is read, and then written.
Read ==
  /\ History \in alive /\ seen = Asleep /\ job # 0 /\ seen' = Status
  /\ UNCHANGED <<handles, owner, caller, queue, history, answer>>

\* Mutant: the row of a job is inserted once and never updated.
InsertOnly(status) ==
  rows' = [rows EXCEPT ![status[1]] = IF @ = "none" THEN status[2] ELSE @]
\* upsert_vod.
Store(status) == rows' = [rows EXCEPT ![status[1]] = status[2]]

Sync ==
  /\ seen # Asleep /\ Store(seen) /\ seen' = Asleep
  /\ UNCHANGED <<handles, owner, caller, queue, job, runs, answer>>

----------------------------------------------------------------------------
(* Jobs.                                                                   *)

Asked == \E c \in Callers : caller[c] # "out"

NewJob == ~runs /\ job < MaxJobs /\ job' = job + 1 /\ runs' = TRUE

\* analyze_vod and download_vod write the status the facade gave them; while the program is
\* told to end no command is accepted.
Command ==
  /\ ~Asked /\ answer = 0 /\ NewJob /\ answer' = job'
  /\ UNCHANGED <<handles, owner, caller, queue, rows, seen>>

CommandWrites ==
  /\ answer # 0 /\ Store(<<answer, "running">>) /\ answer' = 0
  /\ UNCHANGED <<handles, owner, caller, queue, job, runs, seen>>

\* The queue worker writes no history.
QueueStarts ==
  /\ queue # "off" /\ NewJob
  /\ UNCHANGED <<handles, owner, caller, queue, rows, seen, answer>>

JobEnds ==
  /\ runs /\ runs' = FALSE
  /\ UNCHANGED <<handles, owner, caller, queue, job, rows, seen, answer>>

----------------------------------------------------------------------------
(* Shutdown.                                                               *)

At(c, here, there) == caller[c] = here /\ caller' = [caller EXCEPT ![c] = there]

\* request_stop, once the last command is answered.
Ask(c) ==
  /\ answer = 0 /\ At(c, "out", "asked") /\ stopping' = TRUE
  /\ UNCHANGED <<tasks, draining, alive, owner, queue, history, seen, answer>>

\* queue.shutdown and vod.cancel: no job runs, and none starts any more, but that of a worker
\* that has passed its test of `stopping` (VodQueue.tla).
StopWork(c) ==
  /\ At(c, "asked", "waits") /\ runs' = FALSE
  /\ queue' \in (IF queue = "on" THEN {"late", "off"} ELSE {queue})
  /\ UNCHANGED <<handles, owner, job, rows, seen, answer>>

\* Mutant: the handles are taken into a variable of the caller, which goes when it goes.
Forgotten == {}
Taken == draining \cup tasks

\* BackgroundTasks::shutdown: the mutex, then all handles into it.
Take(c) ==
  /\ owner = Nobody /\ At(c, "waits", "joins") /\ owner' = c
  /\ draining' = draining \cup tasks /\ tasks' = {} /\ stopping' = TRUE
  /\ UNCHANGED <<alive, queue, history, seen, answer>>

\* task.await, and then its handle is dropped.
Join(c) ==
  /\ caller[c] = "joins"
  /\ \E k \in draining \ alive : draining' = draining \ {k}
  /\ UNCHANGED <<stopping, tasks, alive, owner, caller, queue, history, seen, answer>>

Joined(c) ==
  /\ draining = {} /\ At(c, "joins", "joined") /\ owner' = Nobody
  /\ UNCHANGED <<handles, queue, history, seen, answer>>

\* A caller's future is dropped: the mutex is released, what it held stays there.
Abandon(c) ==
  /\ caller[c] \in {"waits", "joins"} /\ caller' = [caller EXCEPT ![c] = "gone"]
  /\ owner' = (IF owner = c THEN Nobody ELSE owner)
  /\ draining' = (IF owner = c THEN Taken ELSE draining)
  /\ UNCHANGED <<stopping, tasks, alive, queue, history, seen, answer>>

\* The terminal result, after the last periodic writer has joined.
WrittenFrom == "joined"
Finish(c) ==
  /\ At(c, WrittenFrom, "done")
  /\ IF job = 0 THEN UNCHANGED rows ELSE Store(Status)
  /\ UNCHANGED <<handles, owner, queue, job, runs, seen, answer>>

Next ==
  \/ \E k \in Kinds : StartTask(k) \/ EndTask(k)
  \/ Read \/ Sync \/ Command \/ CommandWrites \/ QueueStarts \/ JobEnds
  \/ \E c \in Callers :
       Ask(c) \/ StopWork(c) \/ Take(c) \/ Join(c) \/ Joined(c) \/ Abandon(c) \/ Finish(c)

Spec == Init /\ [][Next]_vars

----------------------------------------------------------------------------
(* Properties.                                                             *)

\* Who returns from shutdown() leaves no background task behind, whatever other callers did
\* before: given up half way, or started a task in between (background_tasks.rs).
NothingOutlivesShutdown == \A c \in Callers : caller[c] \in {"joined", "done"} => alive = {}

\* The last job's row tells its result once a shutdown is over that left the queue idle: no
\* earlier read of the history task is written after it.
LastResultIsKept ==
  \A c \in Callers : caller[c] = "done" /\ job # 0 /\ queue = "off" => rows[job] = "ended" /\ seen = Asleep

\* The row of an ended job is brought up to date while the task runs, also when the command that
\* started it writes an older status late; but only as long as no other job has started.
HistoryCatchesUp ==
  \A j \in Jobs : job = j /\ ~runs /\ History \in alive
                    ~> rows[j] = "ended" \/ job # j \/ stopping

\* The history is kept synchronized (spawn_vod_history_sync, app_core.rs:959): a job that is
\* over, because the next one has been started, has its result there.
EveryResultIsKept == \A j \in Jobs : j < job /\ answer # j /\ rows[j] # "none" => rows[j] = "ended"

\* A shutdown that returned has left no task and no stale row behind.
ShutdownIsSound == TasksTypeOK /\ NothingOutlivesShutdown /\ LastResultIsKept
=============================================================================
