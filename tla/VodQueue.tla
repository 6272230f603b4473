------------------------------ MODULE VodQueue ------------------------------
(***************************************************************************)
(* The persistent VOD queue (queue_service.rs) composed with the job       *)
(* runtime of VodJobs, the client commands of app_core.rs that touch       *)
(* either, shutdown, and a crash followed by a restart.                    *)
(*                                                                         *)
(* Three tasks meet here.  The worker claims a row, starts its job and     *)
(* polls for the result.  A client command starts a direct job or cancels. *)
(* Shutdown cancels too.  The worker (up to the start of the job) and the  *)
(* clients hold lifecycle_lock; shutdown does not.  Rows are written by    *)
(* single SQL statements, each guarded only by what its WHERE clause says. *)
(*                                                                         *)
(* Items are numbered in the order they were enqueued, which is the order  *)
(* of claim_next (created_at, id).                                         *)
(***************************************************************************)
EXTENDS VodJobs, FiniteSets

CONSTANTS
  MaxItems,    \* bound: rows ever enqueued
  MaxAttempts, \* bound: claims of one row
  MaxDirect,   \* bound: direct jobs
  MaxRestarts, \* bound: crashes and relaunches
  QueueLimit,  \* QUEUE_LIMIT: rows that may be pending at once
  PlatformOf,  \* [Items -> Providers]: where each request goes
  CliAtWork    \* queue commands of the CLI may run while another process owns the queue

Items  == 1 .. MaxItems
NoItem == 0

ASSUME ItemsAssumption ==
  /\ MaxItems \in Nat /\ MaxAttempts \in Nat /\ MaxDirect \in Nat /\ MaxRestarts \in Nat
  /\ QueueLimit \in Nat
  /\ PlatformOf \in [Items -> Providers]
  /\ CliAtWork \in BOOLEAN
ASSUME QueueCallersAssumption == Callers = {"worker", "client", "shutdown"}

VARIABLES
  rows,      \* the vod_queue table: [Items -> [state, attempts, readable]]
  issued,    \* how many rows have been enqueued
  active,    \* active_id: the row the worker says it works on
  stopping,  \* the stopping flag
  lifecycle, \* the holder of lifecycle_lock
  worker,    \* the worker task
  call,      \* ["client", "shutdown" -> the command in progress]
  owner,     \* [JobIds -> the row a job was started for]; NoItem: a direct job
  direct,    \* how many direct jobs were asked for
  restarts   \* how many times the process was relaunched

queueVars == <<rows, issued, active, stopping, lifecycle, worker, call, owner, direct, restarts>>
vars == <<jobVars, queueVars>>

Pending == {"QUEUED", "STARTING", "RUNNING", "CANCELLING"}
Busy    == {"STARTING", "RUNNING", "CANCELLING"}
Retryable == {"FAILED", "CANCELLED", "INTERRUPTED"}
RowStates == JobStates \cup {"ABSENT", "QUEUED", "RUNNING", "INTERRUPTED"}

WorkerPcs == {"top", "lock", "checked", "claimed", "parse", "unreadable", "unclaim",
              "starting", "startFailed", "started", "poll", "read", "write", "clear", "off"}
CallPcs == {"idle", "starting", "active", "check", "mark", "pick", "cancelling", "finish", "over"}
Commanders == {"client", "shutdown"}

NoRow == [state |-> "ABSENT", attempts |-> 0, readable |-> TRUE]
Idle == [pc |-> "top", item |-> NoItem, job |-> NoJob, seen |-> "IDLE"]
NoCommand == [pc |-> "idle", item |-> NoItem, seen |-> "IDLE"]

QueueTypeOK ==
  /\ rows \in [Items -> [state : RowStates, attempts : 0 .. MaxAttempts, readable : BOOLEAN]]
  /\ issued \in 0 .. MaxItems
  /\ active \in Items \cup {NoItem}
  /\ stopping \in BOOLEAN
  /\ lifecycle \in {Free, "worker", "client"}
  /\ worker \in [pc : WorkerPcs, item : Items \cup {NoItem}, job : JobIds \cup {NoJob},
                 seen : JobStates]
  /\ call \in [Commanders -> [pc : CallPcs, item : Items \cup {NoItem}, seen : JobStates]]
  /\ owner \in [JobIds -> Items \cup {NoItem}]
  /\ direct \in 0 .. MaxDirect
  /\ restarts \in 0 .. MaxRestarts

QueueInit ==
  /\ JobsInit
  /\ rows = [i \in Items |-> NoRow]
  /\ issued = 0
  /\ active = NoItem
  /\ stopping = FALSE
  /\ lifecycle = Free
  /\ worker = Idle
  /\ call = [c \in Commanders |-> NoCommand]
  /\ owner = [j \in JobIds |-> NoItem]
  /\ direct = 0
  /\ restarts = 0

\* UPDATE vod_queue SET state=s WHERE id=i: no effect on a row that was removed.
SetState(i, s) ==
  rows' = IF rows[i].state = "ABSENT" THEN rows ELSE [rows EXCEPT ![i].state = s]

----------------------------------------------------------------------------
(* The worker (worker_loop).                                               *)

\* The stopping flag is seen at the top of the loop, or under the lock.
WorkerStops ==
  /\ stopping
  /\ \/ worker.pc = "top"
     \/ worker.pc = "lock" /\ lifecycle = Free
  /\ worker' = [worker EXCEPT !.pc = "off"]
  /\ UNCHANGED <<jobVars, rows, issued, active, stopping, lifecycle, call, owner, direct, restarts>>

\* Nothing is running: go and take the lock.
WorkerTries ==
  /\ worker.pc = "top" /\ ~stopping
  /\ active = NoItem /\ RunningProviders = {}
  /\ worker' = [worker EXCEPT !.pc = "lock"]
  /\ UNCHANGED <<jobVars, rows, issued, active, stopping, lifecycle, call, owner, direct, restarts>>

\* lifecycle_lock taken and `stopping` still down.
WorkerLocks ==
  /\ worker.pc = "lock" /\ lifecycle = Free /\ ~stopping
  /\ lifecycle' = "worker"
  /\ worker' = [worker EXCEPT !.pc = "checked"]
  /\ UNCHANGED <<jobVars, rows, issued, active, stopping, call, owner, direct, restarts>>

NextQueued == {i \in Items : /\ rows[i].state = "QUEUED"
                             /\ \A k \in Items : rows[k].state = "QUEUED" => i <= k}

\* Something runs after all, or the queue is empty: let go and wait.
WorkerFindsNothing ==
  /\ worker.pc = "checked"
  /\ RunningProviders # {} \/ NextQueued = {}
  /\ lifecycle' = Free
  /\ worker' = [worker EXCEPT !.pc = "top"]
  /\ UNCHANGED <<jobVars, rows, issued, active, stopping, call, owner, direct, restarts>>

\* claim_next(): the oldest QUEUED row becomes STARTING.
Claim ==
  /\ worker.pc = "checked" /\ RunningProviders = {}
  /\ \E i \in NextQueued :
       /\ rows[i].attempts < MaxAttempts     \* bound
       /\ rows' = [rows EXCEPT ![i].state = "STARTING", ![i].attempts = @ + 1]
       /\ worker' = [worker EXCEPT !.pc = "claimed", !.item = i]
  /\ UNCHANGED <<jobVars, issued, active, stopping, lifecycle, call, owner, direct, restarts>>

Activate ==
  /\ worker.pc = "claimed"
  /\ active' = worker.item
  /\ worker' = [worker EXCEPT !.pc = IF rows[worker.item].readable THEN "parse" ELSE "unreadable"]
  /\ UNCHANGED <<jobVars, rows, issued, stopping, lifecycle, call, owner, direct, restarts>>

\* Mutant: a request that does not parse is skipped without an entry in its row.
SkipUnreadable ==
  /\ worker.pc = "unreadable"
  /\ worker' = [worker EXCEPT !.pc = "unclaim"]
  /\ UNCHANGED <<jobVars, rows, issued, active, stopping, lifecycle, call, owner, direct, restarts>>

\* fail_start() for a request that does not parse, then back to an idle worker.
FailUnreadable ==
  /\ worker.pc = "unreadable"
  /\ SetState(worker.item, "FAILED")
  /\ worker' = [worker EXCEPT !.pc = "unclaim"]
  /\ UNCHANGED <<jobVars, issued, active, stopping, lifecycle, call, owner, direct, restarts>>

Unclaim ==
  /\ worker.pc = "unclaim"
  /\ active' = NoItem /\ lifecycle' = Free
  /\ worker' = Idle
  /\ UNCHANGED <<jobVars, rows, issued, stopping, call, owner, direct, restarts>>

\* vod.download(): the facade finds no provider running, as every other start
\* takes lifecycle_lock first.
Request ==
  /\ worker.pc = "parse"
  /\ SelectProvider("worker", PlatformOf[worker.item], "download")
  /\ worker' = [worker EXCEPT !.pc = "starting"]
  /\ UNCHANGED <<rows, issued, active, stopping, lifecycle, call, owner, direct, restarts>>

\* download() returned Ok or Err, and the worker drops lifecycle_lock.
Started ==
  /\ worker.pc = "starting"
  /\ StartJob("worker")
  /\ lifecycle' = Free
  /\ worker' = [worker EXCEPT !.pc = "started", !.job = nextJob]
  /\ owner' = [owner EXCEPT ![nextJob] = worker.item]
  /\ UNCHANGED <<rows, issued, active, stopping, call, direct, restarts>>

NotStarted ==
  /\ worker.pc = "starting"
  /\ StartRefused("worker")
  /\ lifecycle' = Free
  /\ worker' = [worker EXCEPT !.pc = "startFailed"]
  /\ UNCHANGED <<rows, issued, active, stopping, call, owner, direct, restarts>>

FailStart ==
  /\ worker.pc = "startFailed"
  /\ SetState(worker.item, "FAILED")
  /\ worker' = [worker EXCEPT !.pc = "clear"]
  /\ UNCHANGED <<jobVars, issued, active, stopping, lifecycle, call, owner, direct, restarts>>

\* mark_running(): whatever has happened to the row since the start.
MarkRunning ==
  /\ worker.pc = "started"
  /\ SetState(worker.item, "RUNNING")
  /\ worker' = [worker EXCEPT !.pc = "poll"]
  /\ UNCHANGED <<jobVars, issued, active, stopping, lifecycle, call, owner, direct, restarts>>

\* terminal_status(job_id): found, or not yet.
PollTerminal ==
  /\ worker.pc = "poll"
  /\ worker' = IF HasTerminal(worker.job)
               THEN [worker EXCEPT !.pc = "write", !.seen = tasks[worker.job].final]
               ELSE [worker EXCEPT !.pc = "read"]
  /\ UNCHANGED <<jobVars, rows, issued, active, stopping, lifecycle, call, owner, direct, restarts>>

\* Mutant: the status counts whatever job it is about.
ReadAnyStatus ==
  /\ worker.pc = "read"
  /\ worker' = IF RunningProviders # {} THEN [worker EXCEPT !.pc = "poll"]
               ELSE [worker EXCEPT !.pc = "write", !.seen = status[selected].state]
  /\ UNCHANGED <<jobVars, rows, issued, active, stopping, lifecycle, call, owner, direct, restarts>>

\* status(): while something runs the worker keeps polling; otherwise the selected
\* provider's status counts if it is about this job, and the job is lost if not.
ReadStatus ==
  /\ worker.pc = "read"
  /\ worker' =
       IF RunningProviders # {} THEN [worker EXCEPT !.pc = "poll"]
       ELSE [worker EXCEPT !.pc = "write",
               !.seen = IF status[selected].job = worker.job
                        THEN status[selected].state ELSE "FAILED"]
  /\ UNCHANGED <<jobVars, rows, issued, active, stopping, lifecycle, call, owner, direct, restarts>>

\* finish_item(), or fail_item() for a lost job.
WriteResult ==
  /\ worker.pc = "write"
  /\ SetState(worker.item, worker.seen)
  /\ worker' = [worker EXCEPT !.pc = "clear"]
  /\ UNCHANGED <<jobVars, issued, active, stopping, lifecycle, call, owner, direct, restarts>>

\* Mutant: active_id stays set when the worker turns to the next row.
LeaveActive ==
  /\ worker.pc = "clear"
  /\ worker' = Idle
  /\ UNCHANGED <<jobVars, rows, issued, active, stopping, lifecycle, call, owner, direct, restarts>>

ClearActive ==
  /\ worker.pc = "clear"
  /\ active' = NoItem
  /\ worker' = Idle
  /\ UNCHANGED <<jobVars, rows, issued, stopping, lifecycle, call, owner, direct, restarts>>

WorkerStep ==
  \/ WorkerStops \/ WorkerTries \/ WorkerLocks \/ WorkerFindsNothing \/ Claim \/ Activate
  \/ FailUnreadable \/ Unclaim \/ Request \/ Started \/ NotStarted \/ FailStart
  \/ MarkRunning \/ PollTerminal \/ ReadStatus \/ WriteResult \/ ClearActive

----------------------------------------------------------------------------
(* Commands on rows that take no lock but the database's.  The CLI runs    *)
(* them in a process of its own, whose queue manager has its own stopping  *)
(* flag and active_id, both never set.                                     *)

AcceptsRows == ~stopping \/ CliAtWork
SeenInactive(i) == active # i \/ CliAtWork

\* A request that does not parse was stored by another version of the program.
Enqueue ==
  /\ AcceptsRows
  /\ issued < MaxItems     \* bound
  /\ Cardinality({i \in Items : rows[i].state \in Pending}) < QueueLimit
  /\ issued' = issued + 1
  /\ \E r \in BOOLEAN :
       rows' = [rows EXCEPT ![issued + 1] = [state |-> "QUEUED", attempts |-> 0, readable |-> r]]
  /\ UNCHANGED <<jobVars, active, stopping, lifecycle, worker, call, owner, direct, restarts>>

Retry(i) ==
  /\ AcceptsRows
  /\ rows[i].state \in Retryable
  /\ rows[i].attempts < MaxAttempts     \* bound
  /\ rows' = [rows EXCEPT ![i].state = "QUEUED"]
  /\ UNCHANGED <<jobVars, issued, active, stopping, lifecycle, worker, call, owner, direct, restarts>>

Remove(i) ==
  /\ SeenInactive(i)
  /\ rows[i].state \notin Pending \cup {"ABSENT"}
  /\ rows' = [rows EXCEPT ![i] = NoRow]
  /\ UNCHANGED <<jobVars, issued, active, stopping, lifecycle, worker, call, owner, direct, restarts>>

----------------------------------------------------------------------------
(* Client commands under lifecycle_lock: direct jobs and cancellations.    *)
(* Taking the lock is one step with the first thing done under it.         *)

ClientTakesLock ==
  /\ call["client"].pc = "idle"
  /\ lifecycle = Free
  /\ lifecycle' = "client"

\* analyze_vod and download_vod.  (When the facade is busy they change nothing.)
DirectStart(p, k) ==
  /\ direct < MaxDirect     \* bound
  /\ ClientTakesLock
  /\ SelectProvider("client", p, k)
  /\ call' = [call EXCEPT !["client"].pc = "starting"]
  /\ direct' = direct + 1
  /\ UNCHANGED <<rows, issued, active, stopping, worker, owner, restarts>>

DirectReturns ==
  /\ call["client"].pc = "starting"
  /\ StartJob("client") \/ StartRefused("client")
  /\ lifecycle' = Free
  /\ call' = [call EXCEPT !["client"] = NoCommand]
  /\ UNCHANGED <<rows, issued, active, stopping, worker, owner, direct, restarts>>

\* cancel_vod.
CancelDirect ==
  /\ ClientTakesLock
  /\ PickProvider("client")
  /\ call' = [call EXCEPT !["client"].pc = "cancelling"]
  /\ UNCHANGED <<rows, issued, active, stopping, worker, owner, direct, restarts>>

\* cancel_queue_item for the row that is active ...
CancelActive ==
  /\ active # NoItem
  /\ ClientTakesLock
  /\ call' = [call EXCEPT !["client"] = [NoCommand EXCEPT !.pc = "mark", !.item = active]]
  /\ UNCHANGED <<jobVars, rows, issued, active, stopping, worker, owner, direct, restarts>>

\* ... and for one that is not: it is cancelled if it is still QUEUED.
CancelQueued(i) ==
  /\ call["client"].pc = "idle" /\ lifecycle = Free
  /\ active # i /\ rows[i].state = "QUEUED"
  /\ SetState(i, "CANCELLED")
  /\ UNCHANGED <<jobVars, issued, active, stopping, lifecycle, worker, call, owner, direct,
                 restarts>>

----------------------------------------------------------------------------
(* Shutdown (app_core shutdown, queue shutdown): no lifecycle_lock.        *)

BeginShutdown ==
  /\ call["shutdown"].pc = "idle"
  /\ stopping' = TRUE
  /\ call' = [call EXCEPT !["shutdown"].pc = "active"]
  /\ UNCHANGED <<jobVars, rows, issued, active, lifecycle, worker, owner, direct, restarts>>

\* The active row is read once by shutdown() and again by cancel(id).
ReadActive ==
  /\ call["shutdown"].pc = "active"
  /\ call' = [call EXCEPT !["shutdown"] =
                [@ EXCEPT !.pc = IF active = NoItem THEN "pick" ELSE "check", !.item = active]]
  /\ UNCHANGED <<jobVars, rows, issued, active, stopping, lifecycle, worker, owner, direct,
                 restarts>>

RecheckActive ==
  LET i == call["shutdown"].item IN
  /\ call["shutdown"].pc = "check"
  /\ IF active = i
     THEN /\ call' = [call EXCEPT !["shutdown"].pc = "mark"]
          /\ UNCHANGED rows
     ELSE /\ call' = [call EXCEPT !["shutdown"] = [NoCommand EXCEPT !.pc = "pick"]]
          /\ rows' = IF rows[i].state = "QUEUED"
                     THEN [rows EXCEPT ![i].state = "CANCELLED"] ELSE rows
  /\ UNCHANGED <<jobVars, issued, active, stopping, lifecycle, worker, owner, direct, restarts>>

----------------------------------------------------------------------------
(* cancel() of the active row, by either of them: CANCELLING, the facade's *)
(* cancel(), and its result into the row.                                  *)

MarkItem(c) ==
  /\ call[c].pc = "mark"
  /\ SetState(call[c].item, "CANCELLING")
  /\ call' = [call EXCEPT ![c].pc = "pick"]
  /\ UNCHANGED <<jobVars, issued, active, stopping, lifecycle, worker, owner, direct, restarts>>

PickToCancel(c) ==
  /\ call[c].pc = "pick"
  /\ PickProvider(c)
  /\ call' = [call EXCEPT ![c].pc = "cancelling"]
  /\ UNCHANGED <<rows, issued, active, stopping, lifecycle, worker, owner, direct, restarts>>

CancelGoesOn(c) ==
  /\ call[c].pc = "cancelling"
  /\ FlagTask(c) \/ MarkCancelling(c)
  /\ UNCHANGED queueVars

CancelEnds(c) ==
  LET i == call[c].item IN
  /\ call[c].pc = "cancelling"
  /\ CancelReturns(c)
  /\ call' = [call EXCEPT ![c] =
                IF i # NoItem
                THEN [@ EXCEPT !.pc = "finish", !.seen = status[facade.prov].state]
                ELSE [NoCommand EXCEPT !.pc = IF c = "client" THEN "idle" ELSE "over"]]
  /\ lifecycle' = IF c = "client" /\ i = NoItem THEN Free ELSE lifecycle
  /\ UNCHANGED <<rows, issued, active, stopping, worker, owner, direct, restarts>>

\* finish_item(); shutdown goes on with the core's own vod.cancel().
FinishItem(c) ==
  /\ call[c].pc = "finish"
  /\ SetState(call[c].item, call[c].seen)
  /\ call' = [call EXCEPT ![c] =
                [NoCommand EXCEPT !.pc = IF c = "client" THEN "idle" ELSE "pick"]]
  /\ lifecycle' = IF c = "client" THEN Free ELSE lifecycle
  /\ UNCHANGED <<jobVars, issued, active, stopping, worker, owner, direct, restarts>>

CallGoesOn(c) ==
  MarkItem(c) \/ PickToCancel(c) \/ CancelGoesOn(c) \/ CancelEnds(c) \/ FinishItem(c)

----------------------------------------------------------------------------
\* A fresh runtime: JobsInit, for the next state.
RuntimeIsNew ==
  /\ status' = [p \in Providers |-> [job |-> NoJob, state |-> "IDLE", running |-> FALSE]]
  /\ handle' = [p \in Providers |-> NoJob]
  /\ tasks' = [j \in JobIds |-> NoTask]
  /\ nextJob' = 1
  /\ selected' = "SOOP" /\ observed' = Nothing /\ facade' = NoCall

\* Mutant: a relaunch overlooks the rows that were being cancelled.
RestartForgetsCancelling ==
  /\ restarts < MaxRestarts
  /\ restarts' = restarts + 1
  /\ rows' = [i \in Items |-> IF rows[i].state \in {"STARTING", "RUNNING"}
                              THEN [rows[i] EXCEPT !.state = "INTERRUPTED"] ELSE rows[i]]
  /\ RuntimeIsNew
  /\ active' = NoItem /\ stopping' = FALSE /\ lifecycle' = Free
  /\ worker' = Idle /\ call' = [c \in Commanders |-> NoCommand]
  /\ owner' = [j \in JobIds |-> NoItem]
  /\ UNCHANGED <<issued, direct>>

\* The process dies or is relaunched after a shutdown.  Only the rows survive;
\* new_with_recovery() turns the busy ones into INTERRUPTED.
Restart ==
  /\ restarts < MaxRestarts     \* bound
  /\ restarts' = restarts + 1
  /\ rows' = [i \in Items |-> IF rows[i].state \in Busy
                              THEN [rows[i] EXCEPT !.state = "INTERRUPTED"] ELSE rows[i]]
  /\ RuntimeIsNew
  /\ active' = NoItem /\ stopping' = FALSE /\ lifecycle' = Free
  /\ worker' = Idle /\ call' = [c \in Commanders |-> NoCommand]
  /\ owner' = [j \in JobIds |-> NoItem]
  /\ UNCHANGED <<issued, direct>>

----------------------------------------------------------------------------
\* The tasks of the jobs, and status() callers.
RuntimeStep ==
  /\ (\E j \in JobIds : TaskStep(j)) \/ ObserveRunning \/ SelectObserved
  /\ UNCHANGED queueVars

ClientStep ==
  \/ Enqueue
  \/ \E i \in Items : Retry(i) \/ Remove(i) \/ CancelQueued(i)
  \/ \E p \in Providers, k \in Kinds : DirectStart(p, k)
  \/ DirectReturns \/ CancelDirect \/ CancelActive

ShutdownStep == BeginShutdown \/ ReadActive \/ RecheckActive

Next ==
  \/ WorkerStep \/ ClientStep \/ ShutdownStep \/ RuntimeStep \/ Restart
  \/ \E c \in Commanders : CallGoesOn(c)

Spec == QueueInit /\ [][Next]_vars

\* The worker, a command that has begun and the tasks of jobs keep going; a lock
\* is granted in the order it was asked for (tokio's Mutex), so that no task
\* waits for one for ever.
Fairness ==
  /\ WF_vars(WorkerStep) /\ SF_vars(WorkerLocks \/ WorkerStops)
  /\ WF_vars(ReadActive \/ RecheckActive) /\ WF_vars(DirectReturns)
  /\ \A c \in Commanders : WF_vars(CallGoesOn(c)) /\ SF_vars(PickToCancel(c))
  /\ \A j \in JobIds :
       WF_vars(/\ Publish(j) \/ GiveUp(j) \/ Fail(j) \/ EndTask(j) \/ PushTerminal(j)
               /\ UNCHANGED queueVars)

FairSpec == Spec /\ Fairness

----------------------------------------------------------------------------
(* Properties.                                                             *)

WorkerOwns(i) == worker.item = i /\ worker.pc \notin {"top", "lock", "checked", "off"}
CallOwns(i)   == \E c \in Commanders : call[c].item = i /\ call[c].pc \in {"pick", "cancelling", "finish"}

\* A row that says STARTING, RUNNING or CANCELLING has a worker or a cancellation
\* that will still write its result: in these states it can be neither cancelled
\* from the queue nor retried nor removed, only a restart would free it.
BusyRowIsOwned == \A i \in Items : rows[i].state \in Busy => WorkerOwns(i) \/ CallOwns(i)

\* What the worker writes into a row at the end of a job is what that very job
\* came to, whoever used the provider since (the job id checks of worker_loop);
\* FAILED may also mean that the job was lost.
WorkerReportsItsJob ==
  [][LET t == tasks[worker.job] IN
     worker.pc = "write" /\ worker'.pc = "clear" /\ worker.seen # "FAILED"
       => \/ t.pc = "published" /\ worker.seen = "COMPLETED"
          \/ t.pc \in {"ended", "done"} /\ t.final = worker.seen
          \/ t.pc \in {"ended", "done"} /\ worker.seen = "COMPLETED"
               /\ t.final = "CANCELLED" /\ t.prov \notin KeepsCompleted]_vars

\* No download goes on for a row that was deleted.  active_id keeps the owner's
\* remove() from the row it works for, but not the CLI's: there only the states the
\* worker and the cancellations write decide.  After `stopping` the promise ends: a
\* claim that shutdown missed may have lost its row.
WorkHasItsRow ==
  \A j \in JobIds : tasks[j].pc = "work" /\ owner[j] # NoItem /\ ~stopping
                     => rows[owner[j]].state # "ABSENT"

\* The bounded queue never holds more pending rows than its limit, which is also
\* the number of rows a snapshot lists.
QueueIsBounded == Cardinality({i \in Items : rows[i].state \in Pending}) <= QueueLimit

\* Shutdown cancels what the queue is doing; when it is over nothing runs.
ShutdownLeavesNothingRunning == call["shutdown"].pc = "over" => RunningProviders = {}

\* `queue cancel` of a row cancels a job at work only if that is the row's own job.
CancelOnlyOwned ==
  [][\A j \in JobIds :
       /\ facade.by = "client" /\ call["client"].item # NoItem
       /\ tasks[j].pc = "work" /\ ~tasks[j].cancel /\ tasks'[j].cancel
       => owner[j] = call["client"].item]_vars

\* Busy rows settle, queued rows are tried unless the queue is stopped, and
\* shutdown comes to its end.
BusyRowsSettle == \A i \in Items : (rows[i].state \in Busy) ~> (rows[i].state \notin Busy)
QueuedRowsAreTried ==
  \A i \in Items : (rows[i].state = "QUEUED") ~> (rows[i].state # "QUEUED" \/ stopping)
ShutdownEnds ==
  (call["shutdown"].pc = "active") ~> (call["shutdown"].pc \in {"over", "idle"})

\* The rows and the work agree.
QueueInv == QueueTypeOK /\ BusyRowIsOwned /\ WorkHasItsRow
=============================================================================
