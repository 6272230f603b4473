--------------------------- MODULE VodQueueProofs ---------------------------
(***************************************************************************)
(* What holds of the queue (VodQueue) for any number of rows, attempts,     *)
(* direct jobs and relaunches, with the CLI at work or not: the job runtime *)
(* keeps JobsInv under it, and rows, worker and jobs agree.                 *)
(***************************************************************************)
EXTENDS VodQueue, VodJobsProofs

\* A row, and a command in progress.
RowType == [state : RowStates, attempts : 0 .. MaxAttempts, readable : BOOLEAN]
CallType == [pc : CallPcs, item : Items \cup {NoItem}, seen : JobStates]
USE DEF RowType, CallType

\* A provider that reports no running job is in a state some job ended in, or idle.
Unsettled == {"STARTING", "WORKING", "CANCELLING"}
StatusSettles == \A p \in Providers : status[p].running = FALSE => status[p].state \notin Unsettled

\* What cancel() hands back, and what finish_item() writes, is no busy state.
LEMMA SettledStep ==
  ASSUME JobsInv, StatusSettles, [JobsNext]_jobVars
  PROVE  StatusSettles'
<1>0. TypeOK
  BY DEF JobsInv
<1> USE DEF StatusSettles, Unsettled
<1>1. CASE UNCHANGED status
  BY <1>1
<1>2. ASSUME NEW c \in Callers, StartJob(c) PROVE StatusSettles'
  BY <1>0, <1>2 DEF StartJob, TypeOK, Call
<1>3. ASSUME NEW c \in Callers, MarkCancelling(c) PROVE StatusSettles'
  BY <1>0, <1>3 DEF MarkCancelling, TypeOK, Call, Status
<1>4. ASSUME NEW j \in JobIds, Progress(j) PROVE StatusSettles'
  BY <1>0, <1>4 DEF Progress, JobsInv, WorkIsRunning, TypeOK, Task, Status
<1>5. ASSUME NEW j \in JobIds, Publish(j) PROVE StatusSettles'
  BY <1>0, <1>5 DEF Publish, TypeOK, Task, Status
<1>6. ASSUME NEW j \in JobIds, EndTask(j) PROVE StatusSettles'
  <2>1. FinalState(j) \in {"READY", "COMPLETED", "FAILED", "CANCELLED"}
    BY <1>6, FinalStateIsFinal DEF EndTask
  <2> HIDE DEF FinalState
  <2> QED BY <1>0, <1>6, <2>1 DEF EndTask, TypeOK, Task, Status
<1>7. CASE UNCHANGED jobVars
  BY <1>1, <1>7 DEF jobVars
<1>8. ASSUME NEW c \in Callers, FacadeStep(c) PROVE StatusSettles'
  BY <1>1, <1>2, <1>3, <1>8
  DEF FacadeStep, SelectProvider, StartRefused, PickProvider, FlagTask, CancelReturns
<1>9. ASSUME NEW j \in JobIds, TaskStep(j) PROVE StatusSettles'
  BY <1>1, <1>4, <1>5, <1>6, <1>9 DEF TaskStep, GiveUp, Fail, PushTerminal
<1>10. CASE ObserveRunning \/ SelectObserved
  BY <1>1, <1>10 DEF ObserveRunning, SelectObserved
<1> QED BY <1>7, <1>8, <1>9, <1>10 DEF JobsNext

\* cancel() returns when no task is at work.
LEMMA CancelFindsNoWork ==
  ASSUME JobsInv, NEW c \in Callers, CancelReturns(c)
  PROVE  \A j \in JobIds : tasks[j].pc # "work"
<1> SUFFICES ASSUME NEW j \in JobIds, tasks[j].pc = "work" PROVE FALSE
  OBVIOUS
<1>1. TypeOK /\ Calling /\ facade.step = "await" /\ ~Unfinished(facade.task)
  BY CallersAssumption DEF JobsInv, CancelReturns, Calling
<1>2. tasks[j].prov \in RunningProviders /\ Unfinished(j)
  BY <1>1 DEF JobsInv, WorkIsRunning, RunningProviders, TypeOK, Task, Unfinished, JobIds, NoJob
<1>3. tasks[j].prov = facade.prov /\ handle[facade.prov] = NoJob
  BY <1>1, <1>2 DEF JobsInv, CancelCoversRunning
<1>4. facade.task = j
  BY <1>1, <1>2, <1>3 DEF JobsInv, UnfinishedIsHeld, JobIds, NoJob
<1> QED BY <1>1, <1>2, <1>4

\* A job starts when no task is at work.
LEMMA StartFindsNoWork ==
  ASSUME JobsInv, NEW c \in Callers, StartJob(c)
  PROVE  \A j \in JobIds : tasks[j].pc # "work"
<1>1. TypeOK /\ RunningProviders = {}
  BY CallersAssumption DEF JobsInv, StartFindsIdle, Calling, StartJob
<1> QED BY <1>1 DEF JobsInv, WorkIsRunning, RunningProviders, TypeOK, Task

----------------------------------------------------------------------------
WorkerHolds == {"claimed", "parse", "unreadable", "starting", "startFailed", "started", "poll", "read", "write"}
WorkerLocked == {"checked", "claimed", "parse", "unreadable", "unclaim", "starting"}
Holding == {"pick", "cancelling", "finish"}

\* lifecycle_lock: the worker has it up to the start of the job, a client command to its end.
LockIsHeld ==
  /\ worker.pc \in WorkerLocked => lifecycle = "worker"
  /\ call["client"].pc # "idle" => lifecycle = "client"
  /\ call["shutdown"].pc # "idle" => stopping = TRUE

\* Whoever will write a row has one, and has read a state that is not busy.
ItemsAreKnown ==
  /\ worker.pc \in WorkerHolds \cup {"clear", "unclaim"} => worker.item \in Items
  /\ worker.pc = "write" => worker.seen \notin Busy
  /\ \A c \in Commanders :
       /\ call[c].pc \in {"check", "mark", "finish"} => call[c].item \in Items
       /\ call[c].pc = "finish" => call[c].seen \notin Busy

\* A busy row has a worker that has not yet written its result, or a cancellation.
BusyIsHeld ==
  \A i \in Items : rows[i].state \in Busy =>
    \/ worker.item = i /\ worker.pc \in WorkerHolds
    \/ \E c \in Commanders : call[c].item = i /\ call[c].pc \in Holding

\* A task at work for a row is the one the worker waits for, and a client's cancellation that
\* has returned has left none.
WorkIsWatched ==
  /\ \A j \in JobIds : tasks[j].pc = "work" /\ owner[j] # NoItem =>
       worker.job = j /\ worker.item = owner[j] /\ worker.pc \in {"started", "poll", "read"}
  /\ \A j \in JobIds : j >= nextJob => owner[j] = NoItem
  /\ call["client"].pc = "finish" => \A j \in JobIds : tasks[j].pc # "work"

\* Its row stays busy, from the claim on, unless the runtime stops.
WorkKeepsRow ==
  stopping = FALSE =>
    /\ worker.pc \in {"claimed", "parse", "starting"} => rows[worker.item].state \in Busy
    /\ \A j \in JobIds : tasks[j].pc = "work" /\ owner[j] # NoItem => rows[owner[j]].state \in Busy

\* Rows that were not enqueued yet are absent.
RowsAreIssued == \A i \in Items : i > issued => rows[i].state = "ABSENT"

RuntimeInv == JobsInv /\ StatusSettles
RowsInv == LockIsHeld /\ ItemsAreKnown /\ BusyIsHeld /\ WorkIsWatched /\ WorkKeepsRow
QInv == RuntimeInv /\ QueueTypeOK /\ RowsAreIssued /\ RowsInv

\* A row's statement changes one row, or none if it was removed.
LEMMA SetStateSets ==
  ASSUME QueueTypeOK, NEW i \in Items, NEW s \in RowStates, SetState(i, s)
  PROVE  /\ rows' \in [Items -> RowType]
         /\ rows'[i].state = IF rows[i].state = "ABSENT" THEN "ABSENT" ELSE s
         /\ \A k \in Items \ {i} : rows'[k] = rows[k]
  BY DEF QueueTypeOK, SetState

\* The steps of the queue are steps of the job runtime or leave it alone, but for a relaunch.
LEMMA StepsOfTheRuntime ==
  ASSUME QInv, [Next]_vars
  PROVE  Restart \/ [JobsNext]_jobVars
<1>0. {"worker", "client", "shutdown"} = Callers /\ Commanders \subseteq Callers /\ "download" \in Kinds
  BY QueueCallersAssumption DEF Commanders, Kinds
<1>1. ASSUME WorkerStep PROVE [JobsNext]_jobVars
  <2>1. CASE Request
    <3>1. PlatformOf[worker.item] \in Providers
      BY <2>1, ItemsAssumption DEF Request, QInv, RowsInv, ItemsAreKnown, WorkerHolds
    <3>2. SelectProvider("worker", PlatformOf[worker.item], "download")
      BY <2>1 DEF Request
    <3> QED BY <1>0, <3>1, <3>2 DEF JobsNext, FacadeStep
  <2>2. CASE Started \/ NotStarted
    <3>1. StartJob("worker") \/ StartRefused("worker")
      BY <2>2 DEF Started, NotStarted
    <3> QED BY <1>0, <3>1 DEF JobsNext, FacadeStep
  <2>3. CASE ~Request /\ ~Started /\ ~NotStarted
    BY <1>1, <2>3
    DEF WorkerStep, WorkerStops, WorkerTries, WorkerLocks, WorkerFindsNothing, Claim, Activate,
      FailUnreadable, Unclaim, FailStart, MarkRunning, PollTerminal, ReadStatus, WriteResult, ClearActive
  <2> QED BY <2>1, <2>2, <2>3
<1>2. ASSUME ClientStep PROVE [JobsNext]_jobVars
  <2>1. CASE \E p \in Providers, k \in Kinds : DirectStart(p, k)
    <3>1. \E p \in Providers, k \in Kinds : SelectProvider("client", p, k)
      BY <2>1 DEF DirectStart
    <3> QED BY <1>0, <3>1 DEF JobsNext, FacadeStep
  <2>2. CASE DirectReturns \/ CancelDirect
    <3>1. StartJob("client") \/ StartRefused("client") \/ PickProvider("client")
      BY <2>2 DEF DirectReturns, CancelDirect
    <3> QED BY <1>0, <3>1 DEF JobsNext, FacadeStep
  <2>3. CASE Enqueue \/ (\E i \in Items : Retry(i) \/ Remove(i) \/ CancelQueued(i)) \/ CancelActive
    BY <2>3 DEF Enqueue, Retry, Remove, CancelQueued, CancelActive
  <2> QED BY <1>2, <2>1, <2>2, <2>3 DEF ClientStep
<1>3. ASSUME NEW c \in Commanders, CallGoesOn(c) PROVE [JobsNext]_jobVars
  <2>1. CASE MarkItem(c) \/ FinishItem(c)
    BY <2>1 DEF MarkItem, FinishItem
  <2>2. CASE PickToCancel(c) \/ CancelGoesOn(c) \/ CancelEnds(c)
    <3>1. c \in Callers /\ (PickProvider(c) \/ FlagTask(c) \/ MarkCancelling(c) \/ CancelReturns(c))
      BY <1>0, <2>2 DEF PickToCancel, CancelGoesOn, CancelEnds
    <3> QED BY <3>1 DEF JobsNext, FacadeStep
  <2> QED BY <1>3, <2>1, <2>2 DEF CallGoesOn
<1>4. ASSUME RuntimeStep PROVE [JobsNext]_jobVars
  BY <1>4 DEF RuntimeStep, JobsNext
<1>5. ASSUME ShutdownStep PROVE [JobsNext]_jobVars
  BY <1>5 DEF ShutdownStep, BeginShutdown, ReadActive, RecheckActive
<1> QED BY <1>1, <1>2, <1>3, <1>4, <1>5 DEF Next, vars

\* So the job runtime keeps its invariant under the queue.
LEMMA RuntimeKeeps ==
  ASSUME QInv, [Next]_vars
  PROVE  RuntimeInv'
<1>1. CASE [JobsNext]_jobVars
  BY <1>1, StepKeepsInv, SettledStep DEF QInv, RuntimeInv
<1>2. CASE Restart
  <2>1. JobsInit'
    BY <1>2 DEF Restart, RuntimeIsNew, JobsInit
  <2>2. (JobsInit => JobsInv)'
    BY InitEstablishesInv, PTL
  <2>3. StatusSettles'
    BY <2>1 DEF JobsInit, StatusSettles, Unsettled
  <2> QED BY <2>1, <2>2, <2>3 DEF RuntimeInv
<1> QED BY <1>1, <1>2, StepsOfTheRuntime

\* The initial rows are absent and nothing is at work.
LEMMA QueueStarts == QueueInit => QInv
<1> SUFFICES ASSUME QueueInit PROVE QInv
  OBVIOUS
<1> USE DEF QueueInit
<1>1. JobsInv
  BY InitEstablishesInv
<1>2. StatusSettles
  BY DEF JobsInit, StatusSettles, Unsettled
<1>3. QueueTypeOK
  <2>1. NoRow \in RowType
    BY ItemsAssumption DEF NoRow, RowStates
  <2>2. Idle \in [pc : WorkerPcs, item : Items \cup {NoItem}, job : JobIds \cup {NoJob}, seen : JobStates]
    BY DEF Idle, WorkerPcs, JobStates
  <2>3. NoCommand \in CallType
    BY DEF NoCommand, CallPcs, JobStates
  <2>4. stopping \in BOOLEAN
    BY Zenon
  <2>5. issued \in 0 .. MaxItems /\ direct \in 0 .. MaxDirect /\ restarts \in 0 .. MaxRestarts
    BY ItemsAssumption
  <2>6. /\ rows \in [Items -> RowType]
        /\ call \in [Commanders -> CallType]
        /\ owner \in [JobIds -> Items \cup {NoItem}]
    BY <2>1, <2>3
  <2> QED BY <2>2, <2>4, <2>5, <2>6 DEF QueueTypeOK
<1>4. RowsInv
  BY
  DEF RowsInv, LockIsHeld, ItemsAreKnown, BusyIsHeld, WorkIsWatched, WorkKeepsRow, JobsInit, NoTask, NoRow,
     Idle, NoCommand, WorkerLocked, WorkerHolds, Busy, Commanders
<1>5. RowsAreIssued
  BY DEF RowsAreIssued, NoRow
<1> QED BY <1>1, <1>2, <1>3, <1>4, <1>5 DEF QInv, RuntimeInv

\* The worker leaves.
LEMMA WorkerStopsKeeps ==
  ASSUME QInv, WorkerStops
  PROVE  (QueueTypeOK /\ RowsInv)'
<1> USE DEF QInv, RowsInv, jobVars, WorkerStops
<1>1. QueueTypeOK'
  BY ItemsAssumption DEF QueueTypeOK, WorkerPcs, JobStates
<1>2. LockIsHeld' /\ ItemsAreKnown'
  BY DEF QueueTypeOK, LockIsHeld, ItemsAreKnown, WorkerLocked, WorkerHolds, Commanders, Free
<1>3. BusyIsHeld'
  BY DEF QueueTypeOK, BusyIsHeld, WorkerHolds, Holding, Busy
<1>4. WorkIsWatched'
  BY DEF QueueTypeOK, WorkIsWatched
<1>5. WorkKeepsRow'
  BY DEF QueueTypeOK, WorkKeepsRow, WorkIsWatched, Busy
<1> QED BY <1>1, <1>2, <1>3, <1>4, <1>5

\* The worker asks for the lock.
LEMMA WorkerTriesKeeps ==
  ASSUME QInv, WorkerTries
  PROVE  (QueueTypeOK /\ RowsInv)'
<1> USE DEF QInv, RowsInv, jobVars, WorkerTries
<1>1. QueueTypeOK'
  BY ItemsAssumption DEF QueueTypeOK, WorkerPcs, JobStates
<1>2. LockIsHeld' /\ ItemsAreKnown'
  BY DEF QueueTypeOK, LockIsHeld, ItemsAreKnown, WorkerLocked, WorkerHolds, Commanders
<1>3. BusyIsHeld'
  BY DEF QueueTypeOK, BusyIsHeld, WorkerHolds, Holding, Busy
<1>4. WorkIsWatched'
  BY DEF QueueTypeOK, WorkIsWatched
<1>5. WorkKeepsRow'
  BY DEF QueueTypeOK, WorkKeepsRow, WorkIsWatched, Busy
<1> QED BY <1>1, <1>2, <1>3, <1>4, <1>5

\* The worker has the lock.
LEMMA WorkerLocksKeeps ==
  ASSUME QInv, WorkerLocks
  PROVE  (QueueTypeOK /\ RowsInv)'
<1> USE DEF QInv, RowsInv, jobVars, WorkerLocks
<1>1. QueueTypeOK'
  BY ItemsAssumption DEF QueueTypeOK, WorkerPcs, JobStates
<1>2. LockIsHeld' /\ ItemsAreKnown'
  BY DEF QueueTypeOK, LockIsHeld, ItemsAreKnown, WorkerLocked, WorkerHolds, Commanders, Free
<1>3. BusyIsHeld'
  BY DEF QueueTypeOK, BusyIsHeld, WorkerHolds, Holding, Busy
<1>4. WorkIsWatched'
  BY DEF QueueTypeOK, WorkIsWatched
<1>5. WorkKeepsRow'
  BY DEF QueueTypeOK, WorkKeepsRow, WorkIsWatched, Busy
<1> QED BY <1>1, <1>2, <1>3, <1>4, <1>5

\* The worker lets go.
LEMMA WorkerFindsNothingKeeps ==
  ASSUME QInv, WorkerFindsNothing
  PROVE  (QueueTypeOK /\ RowsInv)'
<1> USE DEF QInv, RowsInv, jobVars, WorkerFindsNothing
<1>1. QueueTypeOK'
  BY ItemsAssumption DEF QueueTypeOK, WorkerPcs, JobStates
<1>2. LockIsHeld' /\ ItemsAreKnown'
  BY DEF QueueTypeOK, LockIsHeld, ItemsAreKnown, WorkerLocked, WorkerHolds, Commanders
<1>3. BusyIsHeld'
  BY DEF QueueTypeOK, BusyIsHeld, WorkerHolds, Holding, Busy
<1>4. WorkIsWatched'
  BY DEF QueueTypeOK, WorkIsWatched
<1>5. WorkKeepsRow'
  BY DEF QueueTypeOK, WorkKeepsRow, WorkIsWatched, Busy
<1> QED BY <1>1, <1>2, <1>3, <1>4, <1>5

\* A claimed row is held by the worker.
LEMMA ClaimKeeps ==
  ASSUME QInv, Claim
  PROVE  (QueueTypeOK /\ RowsInv)'
<1> USE DEF QInv, RowsInv, jobVars, Claim
<1>i. PICK i \in Items : /\ rows[i].state = "QUEUED" /\ rows[i].attempts < MaxAttempts
                         /\ rows' = [rows EXCEPT ![i].state = "STARTING", ![i].attempts = @ + 1]
                         /\ worker' = [worker EXCEPT !.pc = "claimed", !.item = i]
  BY DEF NextQueued
<1>r. /\ rows' \in [Items -> RowType]
      /\ rows'[i].state = "STARTING" /\ \A k \in Items \ {i} : rows'[k] = rows[k]
  <2>1. rows[i].attempts + 1 \in 0 .. MaxAttempts
    BY <1>i, ItemsAssumption DEF QueueTypeOK
  <2> QED BY <1>i, <2>1 DEF QueueTypeOK, RowStates, JobStates
<1>1. QueueTypeOK'
  BY <1>i, <1>r, ItemsAssumption DEF QueueTypeOK, WorkerPcs, JobStates
<1>2. LockIsHeld' /\ ItemsAreKnown'
  BY <1>i DEF QueueTypeOK, LockIsHeld, ItemsAreKnown, WorkerLocked, WorkerHolds, Commanders
<1>3. BusyIsHeld'
  BY <1>i, <1>r DEF QueueTypeOK, BusyIsHeld, WorkerHolds, Holding, Busy
<1>4. WorkIsWatched'
  BY <1>i DEF QueueTypeOK, WorkIsWatched
<1>5. WorkKeepsRow'
  BY <1>i, <1>r DEF QueueTypeOK, WorkKeepsRow, WorkIsWatched, Busy
<1> QED BY <1>1, <1>2, <1>3, <1>4, <1>5

\* The claimed row becomes the active one.
LEMMA ActivateKeeps ==
  ASSUME QInv, Activate
  PROVE  (QueueTypeOK /\ RowsInv)'
<1> USE DEF QInv, RowsInv, jobVars, Activate
<1>1. QueueTypeOK'
  BY ItemsAssumption DEF QueueTypeOK, WorkerPcs, JobStates
<1>2. LockIsHeld' /\ ItemsAreKnown'
  BY DEF QueueTypeOK, LockIsHeld, ItemsAreKnown, WorkerLocked, WorkerHolds, Commanders
<1>3. BusyIsHeld'
  BY DEF QueueTypeOK, BusyIsHeld, WorkerHolds, Holding, Busy
<1>4. WorkIsWatched'
  BY DEF QueueTypeOK, WorkIsWatched
<1>5. WorkKeepsRow'
  BY DEF QueueTypeOK, WorkKeepsRow, WorkIsWatched, Busy
<1> QED BY <1>1, <1>2, <1>3, <1>4, <1>5

\* The worker lets go of a row it has failed.
LEMMA UnclaimKeeps ==
  ASSUME QInv, Unclaim
  PROVE  (QueueTypeOK /\ RowsInv)'
<1> USE DEF QInv, RowsInv, jobVars, Unclaim
<1>1. QueueTypeOK'
  BY ItemsAssumption DEF QueueTypeOK, WorkerPcs, JobStates, Idle
<1>2. LockIsHeld' /\ ItemsAreKnown'
  BY DEF QueueTypeOK, LockIsHeld, ItemsAreKnown, WorkerLocked, WorkerHolds, Commanders, Idle
<1>3. BusyIsHeld'
  BY DEF QueueTypeOK, BusyIsHeld, WorkerHolds, Holding, Busy, Idle
<1>4. WorkIsWatched'
  BY DEF QueueTypeOK, WorkIsWatched, Idle
<1>5. WorkKeepsRow'
  BY DEF QueueTypeOK, WorkKeepsRow, WorkIsWatched, Busy, Idle
<1> QED BY <1>1, <1>2, <1>3, <1>4, <1>5

\* A row that cannot be read is failed.
LEMMA FailUnreadableKeeps ==
  ASSUME QInv, FailUnreadable
  PROVE  (QueueTypeOK /\ RowsInv)'
<1> USE DEF QInv, RowsInv, jobVars, FailUnreadable
<1>s. worker.item \in Items /\ "FAILED" \in RowStates
  BY DEF QueueTypeOK, ItemsAreKnown, WorkerHolds, RowStates, JobStates
<1>r. /\ rows' \in [Items -> RowType]
      /\ rows'[worker.item].state \in {"ABSENT", "FAILED"}
      /\ rows'[worker.item].state = "ABSENT" <=> rows[worker.item].state = "ABSENT" \/ "FAILED" = "ABSENT"
      /\ \A k \in Items \ {worker.item} : rows'[k] = rows[k]
  BY <1>s, SetStateSets
<1>1. QueueTypeOK'
  BY <1>r, ItemsAssumption DEF QueueTypeOK, WorkerPcs, JobStates
<1>2. LockIsHeld' /\ ItemsAreKnown'
  BY DEF QueueTypeOK, LockIsHeld, ItemsAreKnown, WorkerLocked, WorkerHolds, Commanders
<1>3. BusyIsHeld'
  BY <1>s, <1>r DEF QueueTypeOK, BusyIsHeld, WorkerHolds, Holding, Busy
<1>4. WorkIsWatched'
  BY <1>s DEF QueueTypeOK, WorkIsWatched
<1>5. WorkKeepsRow'
  BY <1>s, <1>r DEF QueueTypeOK, WorkKeepsRow, WorkIsWatched, Busy
<1> QED BY <1>1, <1>2, <1>3, <1>4, <1>5

\* A row whose job was not started is failed.
LEMMA FailStartKeeps ==
  ASSUME QInv, FailStart
  PROVE  (QueueTypeOK /\ RowsInv)'
<1> USE DEF QInv, RowsInv, jobVars, FailStart
<1>s. worker.item \in Items /\ "FAILED" \in RowStates
  BY DEF QueueTypeOK, ItemsAreKnown, WorkerHolds, RowStates, JobStates
<1>r. /\ rows' \in [Items -> RowType]
      /\ rows'[worker.item].state \in {"ABSENT", "FAILED"}
      /\ rows'[worker.item].state = "ABSENT" <=> rows[worker.item].state = "ABSENT" \/ "FAILED" = "ABSENT"
      /\ \A k \in Items \ {worker.item} : rows'[k] = rows[k]
  BY <1>s, SetStateSets
<1>1. QueueTypeOK'
  BY <1>r, ItemsAssumption DEF QueueTypeOK, WorkerPcs, JobStates
<1>2. LockIsHeld' /\ ItemsAreKnown'
  BY DEF QueueTypeOK, LockIsHeld, ItemsAreKnown, WorkerLocked, WorkerHolds, Commanders
<1>3. BusyIsHeld'
  BY <1>s, <1>r DEF QueueTypeOK, BusyIsHeld, WorkerHolds, Holding, Busy
<1>4. WorkIsWatched'
  BY <1>s DEF QueueTypeOK, WorkIsWatched
<1>5. WorkKeepsRow'
  BY <1>s, <1>r DEF QueueTypeOK, WorkKeepsRow, WorkIsWatched, Busy
<1> QED BY <1>1, <1>2, <1>3, <1>4, <1>5

\* A row whose job runs stays busy.
LEMMA MarkRunningKeeps ==
  ASSUME QInv, MarkRunning
  PROVE  (QueueTypeOK /\ RowsInv)'
<1> USE DEF QInv, RowsInv, jobVars, MarkRunning
<1>s. worker.item \in Items /\ "RUNNING" \in RowStates
  BY DEF QueueTypeOK, ItemsAreKnown, WorkerHolds, RowStates, JobStates
<1>r. /\ rows' \in [Items -> RowType]
      /\ rows'[worker.item].state \in {"ABSENT", "RUNNING"}
      /\ rows'[worker.item].state = "ABSENT" <=> rows[worker.item].state = "ABSENT" \/ "RUNNING" = "ABSENT"
      /\ \A k \in Items \ {worker.item} : rows'[k] = rows[k]
  BY <1>s, SetStateSets
<1>1. QueueTypeOK'
  BY <1>r, ItemsAssumption DEF QueueTypeOK, WorkerPcs, JobStates
<1>2. LockIsHeld' /\ ItemsAreKnown'
  BY DEF QueueTypeOK, LockIsHeld, ItemsAreKnown, WorkerLocked, WorkerHolds, Commanders
<1>3. BusyIsHeld'
  BY <1>s, <1>r DEF QueueTypeOK, BusyIsHeld, WorkerHolds, Holding, Busy
<1>4. WorkIsWatched'
  BY <1>s DEF QueueTypeOK, WorkIsWatched
<1>5. WorkKeepsRow'
  BY <1>s, <1>r DEF QueueTypeOK, WorkKeepsRow, WorkIsWatched, Busy
<1> QED BY <1>1, <1>2, <1>3, <1>4, <1>5

\* A result is written when its job is over.
LEMMA WriteResultKeeps ==
  ASSUME QInv, WriteResult
  PROVE  (QueueTypeOK /\ RowsInv)'
<1> USE DEF QInv, RowsInv, jobVars, WriteResult
<1>s. worker.item \in Items /\ worker.seen \in RowStates
  BY DEF QueueTypeOK, ItemsAreKnown, WorkerHolds, RowStates, JobStates
<1>r. /\ rows' \in [Items -> RowType]
      /\ rows'[worker.item].state \in {"ABSENT", worker.seen}
      /\ rows'[worker.item].state = "ABSENT" <=> rows[worker.item].state = "ABSENT" \/ worker.seen = "ABSENT"
      /\ \A k \in Items \ {worker.item} : rows'[k] = rows[k]
  BY <1>s, SetStateSets
<1>1. QueueTypeOK'
  BY <1>r, ItemsAssumption DEF QueueTypeOK, WorkerPcs, JobStates
<1>2. LockIsHeld' /\ ItemsAreKnown'
  BY DEF QueueTypeOK, LockIsHeld, ItemsAreKnown, WorkerLocked, WorkerHolds, Commanders
<1>3. BusyIsHeld'
  BY <1>s, <1>r DEF QueueTypeOK, ItemsAreKnown, BusyIsHeld, WorkerHolds, Holding, Busy
<1>4. WorkIsWatched'
  BY <1>s DEF QueueTypeOK, WorkIsWatched
<1>5. WorkKeepsRow'
  BY <1>s, <1>r DEF QueueTypeOK, WorkKeepsRow, WorkIsWatched, Busy
<1> QED BY <1>1, <1>2, <1>3, <1>4, <1>5

\* The worker asks for the job's end.
LEMMA PollTerminalKeeps ==
  ASSUME QInv, PollTerminal
  PROVE  (QueueTypeOK /\ RowsInv)'
<1> USE DEF QInv, RowsInv, jobVars, PollTerminal
<1>h. ASSUME HasTerminal(worker.job)
      PROVE  /\ worker.job \in JobIds /\ tasks[worker.job].pc = "done"
             /\ tasks[worker.job].final \in {"READY", "COMPLETED", "FAILED", "CANCELLED"}
  <2>1. worker.job \in JobIds /\ tasks[worker.job].pc = "done"
    BY <1>h DEF HasTerminal, QueueTypeOK
  <2> QED BY <2>1 DEF RuntimeInv, JobsInv, EndedStates
<1> HIDE DEF HasTerminal
<1>1. QueueTypeOK'
  BY <1>h, ItemsAssumption DEF QueueTypeOK, WorkerPcs, JobStates
<1>2. LockIsHeld' /\ ItemsAreKnown'
  BY <1>h DEF QueueTypeOK, LockIsHeld, ItemsAreKnown, WorkerLocked, WorkerHolds, Commanders, Busy
<1>3. BusyIsHeld'
  BY DEF QueueTypeOK, BusyIsHeld, WorkerHolds, Holding, Busy
<1>4. WorkIsWatched'
  BY <1>h DEF QueueTypeOK, WorkIsWatched
<1>5. WorkKeepsRow'
  BY DEF QueueTypeOK, WorkKeepsRow, WorkIsWatched, Busy
<1> QED BY <1>1, <1>2, <1>3, <1>4, <1>5

\* The worker looks at the status.
LEMMA ReadStatusKeeps ==
  ASSUME QInv, ReadStatus
  PROVE  (QueueTypeOK /\ RowsInv)'
<1> USE DEF QInv, RowsInv, jobVars, ReadStatus
<1>h. ASSUME RunningProviders = {}
      PROVE  /\ status[selected].state \in JobStates /\ status[selected].state \notin Unsettled
             /\ \A j \in JobIds : tasks[j].pc # "work"
  <2>1. TypeOK
    BY DEF RuntimeInv, JobsInv
  <2>2. \A j \in JobIds : tasks[j].pc # "work"
    BY <1>h, <2>1 DEF RuntimeInv, JobsInv, WorkIsRunning, RunningProviders, TypeOK, Task
  <2>3. selected \in Providers /\ status[selected] \in Status
    BY <2>1 DEF TypeOK
  <2>4. status[selected].running = FALSE
    <3>1. ~status[selected].running /\ status[selected].running \in BOOLEAN
      BY <1>h, <2>3 DEF RunningProviders, Status
    <3> QED BY <3>1
  <2> QED BY <2>2, <2>3, <2>4 DEF RuntimeInv, StatusSettles, Status
<1>1. QueueTypeOK'
  BY <1>h, ItemsAssumption DEF QueueTypeOK, WorkerPcs, JobStates
<1>2. LockIsHeld' /\ ItemsAreKnown'
  BY <1>h
  DEF QueueTypeOK, LockIsHeld, ItemsAreKnown, WorkerLocked, WorkerHolds, Commanders, Busy, Unsettled, JobStates
<1>3. BusyIsHeld'
  BY DEF QueueTypeOK, BusyIsHeld, WorkerHolds, Holding, Busy
<1>4. WorkIsWatched'
  BY <1>h DEF QueueTypeOK, WorkIsWatched
<1>5. WorkKeepsRow'
  BY DEF QueueTypeOK, WorkKeepsRow, WorkIsWatched, Busy
<1> QED BY <1>1, <1>2, <1>3, <1>4, <1>5

\* The worker turns to the next row.
LEMMA ClearActiveKeeps ==
  ASSUME QInv, ClearActive
  PROVE  (QueueTypeOK /\ RowsInv)'
<1> USE DEF QInv, RowsInv, jobVars, ClearActive
<1>1. QueueTypeOK'
  BY ItemsAssumption DEF QueueTypeOK, WorkerPcs, JobStates, Idle
<1>2. LockIsHeld' /\ ItemsAreKnown'
  BY DEF QueueTypeOK, LockIsHeld, ItemsAreKnown, WorkerLocked, WorkerHolds, Commanders, Idle
<1>3. BusyIsHeld'
  BY DEF QueueTypeOK, BusyIsHeld, WorkerHolds, Holding, Busy, Idle
<1>4. WorkIsWatched'
  BY DEF QueueTypeOK, WorkIsWatched, Idle
<1>5. WorkKeepsRow'
  BY DEF QueueTypeOK, WorkKeepsRow, WorkIsWatched, Busy, Idle
<1> QED BY <1>1, <1>2, <1>3, <1>4, <1>5

\* The worker asks for its job.
LEMMA RequestKeeps ==
  ASSUME QInv, Request
  PROVE  (QueueTypeOK /\ RowsInv)'
<1> USE DEF QInv, RowsInv, jobVars, Request, SelectProvider
<1>1. QueueTypeOK'
  BY ItemsAssumption DEF QueueTypeOK, WorkerPcs, JobStates
<1>2. LockIsHeld' /\ ItemsAreKnown'
  BY DEF QueueTypeOK, LockIsHeld, ItemsAreKnown, WorkerLocked, WorkerHolds, Commanders
<1>3. BusyIsHeld'
  BY DEF QueueTypeOK, BusyIsHeld, WorkerHolds, Holding, Busy
<1>4. WorkIsWatched'
  BY DEF QueueTypeOK, WorkIsWatched
<1>5. WorkKeepsRow'
  BY DEF QueueTypeOK, WorkKeepsRow, WorkIsWatched, Busy
<1> QED BY <1>1, <1>2, <1>3, <1>4, <1>5

\* The worker's job is refused.
LEMMA NotStartedKeeps ==
  ASSUME QInv, NotStarted
  PROVE  (QueueTypeOK /\ RowsInv)'
<1> USE DEF QInv, RowsInv, jobVars, NotStarted, StartRefused
<1>1. QueueTypeOK'
  BY ItemsAssumption DEF QueueTypeOK, WorkerPcs, JobStates
<1>2. LockIsHeld' /\ ItemsAreKnown'
  BY DEF QueueTypeOK, LockIsHeld, ItemsAreKnown, WorkerLocked, WorkerHolds, Commanders
<1>3. BusyIsHeld'
  BY DEF QueueTypeOK, BusyIsHeld, WorkerHolds, Holding, Busy
<1>4. WorkIsWatched'
  BY DEF QueueTypeOK, WorkIsWatched
<1>5. WorkKeepsRow'
  BY DEF QueueTypeOK, WorkKeepsRow, WorkIsWatched, Busy
<1> QED BY <1>1, <1>2, <1>3, <1>4, <1>5

\* The worker's job starts.
LEMMA StartedKeeps ==
  ASSUME QInv, Started
  PROVE  (QueueTypeOK /\ RowsInv)'
<1> USE DEF QInv, RowsInv, jobVars, Started
<1>j. /\ nextJob \in JobIds /\ nextJob' = nextJob + 1 /\ \A j \in JobIds : tasks[j].pc # "work"
      /\ \A j \in JobIds \ {nextJob} : tasks'[j] = tasks[j]
  <2>1. TypeOK /\ "worker" \in Callers
    BY QueueCallersAssumption DEF RuntimeInv, JobsInv
  <2> QED BY <2>1, StartFindsNoWork DEF RuntimeInv, StartJob, TypeOK
<1>i. worker.item \in Items /\ call["client"].pc # "finish"
  BY DEF ItemsAreKnown, LockIsHeld, WorkerHolds, WorkerLocked
<1>1. QueueTypeOK'
  BY <1>i, <1>j, ItemsAssumption DEF QueueTypeOK, WorkerPcs, JobStates
<1>2. LockIsHeld' /\ ItemsAreKnown'
  BY DEF QueueTypeOK, LockIsHeld, ItemsAreKnown, WorkerLocked, WorkerHolds, Commanders
<1>3. BusyIsHeld'
  BY DEF QueueTypeOK, BusyIsHeld, WorkerHolds, Holding, Busy
<1>4. WorkIsWatched'
  <2>1. owner'[nextJob] = worker.item /\ \A j \in JobIds \ {nextJob} : owner'[j] = owner[j]
    BY <1>j DEF QueueTypeOK
  <2>2. /\ worker'.job = nextJob /\ worker'.item = worker.item /\ worker'.pc = "started"
        /\ call'["client"].pc # "finish"
    BY <1>i DEF QueueTypeOK
  <2> QED BY <1>j, <2>1, <2>2 DEF WorkIsWatched, JobIds
<1>5. WorkKeepsRow'
  BY <1>i, <1>j DEF QueueTypeOK, WorkKeepsRow, WorkIsWatched, Busy
<1> QED BY <1>1, <1>2, <1>3, <1>4, <1>5

\* A new row is not busy, and takes no other's place.
LEMMA EnqueueKeeps ==
  ASSUME QInv, Enqueue
  PROVE  (QueueTypeOK /\ RowsInv)'
<1> USE DEF QInv, RowsInv, jobVars, Enqueue
<1>r. /\ issued + 1 \in Items /\ rows[issued + 1].state = "ABSENT"
      /\ rows' \in [Items -> RowType]
      /\ rows'[issued + 1].state = "QUEUED" /\ \A k \in Items \ {issued + 1} : rows'[k] = rows[k]
  <2>1. issued + 1 \in Items /\ rows[issued + 1].state = "ABSENT"
    BY ItemsAssumption DEF QueueTypeOK, RowsAreIssued, Items
  <2>2. PICK r \in BOOLEAN : rows' = [rows EXCEPT ![issued + 1] = [state |-> "QUEUED", attempts |-> 0, readable |-> r]]
    OBVIOUS
  <2>3. [state |-> "QUEUED", attempts |-> 0, readable |-> r] \in RowType
    BY ItemsAssumption DEF RowStates
  <2> QED BY <2>1, <2>2, <2>3 DEF QueueTypeOK
<1> HIDE DEF Enqueue
<1>u. issued' = issued + 1 /\ UNCHANGED <<jobVars, active, stopping, lifecycle, worker, call, owner, direct, restarts>>
  BY DEF Enqueue
<1>1. QueueTypeOK'
  BY <1>r, <1>u, ItemsAssumption DEF QueueTypeOK, Items
<1>2. LockIsHeld' /\ ItemsAreKnown'
  BY <1>u DEF QueueTypeOK, LockIsHeld, ItemsAreKnown, WorkerLocked, WorkerHolds, Commanders
<1>3. BusyIsHeld'
  BY <1>r, <1>u DEF QueueTypeOK, BusyIsHeld, WorkerHolds, Holding, Busy
<1>4. WorkIsWatched'
  BY <1>u DEF QueueTypeOK, WorkIsWatched
<1>5. WorkKeepsRow'
  <2>1. \A k \in Items : rows[k].state \in Busy => rows'[k].state \in Busy
    BY <1>r DEF Busy
  <2> QED BY <1>u, <2>1 DEF QueueTypeOK, ItemsAreKnown, WorkKeepsRow, WorkIsWatched, WorkerHolds
<1> QED BY <1>1, <1>2, <1>3, <1>4, <1>5

\* A retried row was not busy.
LEMMA RetryKeeps ==
  ASSUME QInv, NEW i \in Items, Retry(i)
  PROVE  (QueueTypeOK /\ RowsInv)'
<1> USE DEF QInv, RowsInv, jobVars, Retry
<1>r. /\ rows[i].state \notin Busy
      /\ rows' \in [Items -> RowType]
      /\ rows'[i].state = "QUEUED" /\ \A k \in Items \ {i} : rows'[k] = rows[k]
  BY ItemsAssumption DEF QueueTypeOK, RowStates, Retryable, Busy
<1>1. QueueTypeOK'
  BY <1>r, ItemsAssumption DEF QueueTypeOK, WorkerPcs, JobStates
<1>2. LockIsHeld' /\ ItemsAreKnown'
  BY DEF QueueTypeOK, LockIsHeld, ItemsAreKnown, WorkerLocked, WorkerHolds, Commanders
<1>3. BusyIsHeld'
  BY <1>r DEF QueueTypeOK, BusyIsHeld, WorkerHolds, Holding, Busy
<1>4. WorkIsWatched'
  BY DEF QueueTypeOK, WorkIsWatched
<1>5. WorkKeepsRow'
  <2>1. \A k \in Items : rows[k].state \in Busy => rows'[k].state \in Busy
    BY <1>r
  <2> QED BY <2>1 DEF QueueTypeOK, ItemsAreKnown, WorkKeepsRow, WorkIsWatched, WorkerHolds
<1> QED BY <1>1, <1>2, <1>3, <1>4, <1>5

\* A removed row was not busy.
LEMMA RemoveKeeps ==
  ASSUME QInv, NEW i \in Items, Remove(i)
  PROVE  (QueueTypeOK /\ RowsInv)'
<1> USE DEF QInv, RowsInv, jobVars, Remove
<1>r. /\ rows[i].state \notin Busy
      /\ rows' \in [Items -> RowType]
      /\ rows'[i].state = "ABSENT" /\ \A k \in Items \ {i} : rows'[k] = rows[k]
  <2>1. NoRow \in RowType /\ NoRow.state = "ABSENT"
    BY ItemsAssumption DEF NoRow, RowStates
  <2> QED BY <2>1 DEF QueueTypeOK, Pending, Busy
<1>1. QueueTypeOK'
  BY <1>r, ItemsAssumption DEF QueueTypeOK, WorkerPcs, JobStates
<1>2. LockIsHeld' /\ ItemsAreKnown'
  BY DEF QueueTypeOK, LockIsHeld, ItemsAreKnown, WorkerLocked, WorkerHolds, Commanders
<1>3. BusyIsHeld'
  BY <1>r DEF QueueTypeOK, BusyIsHeld, WorkerHolds, Holding, Busy
<1>4. WorkIsWatched'
  BY DEF QueueTypeOK, WorkIsWatched
<1>5. WorkKeepsRow'
  <2>1. \A k \in Items : rows[k].state \in Busy => rows'[k].state \in Busy
    BY <1>r
  <2> QED BY <2>1 DEF QueueTypeOK, ItemsAreKnown, WorkKeepsRow, WorkIsWatched, WorkerHolds
<1> QED BY <1>1, <1>2, <1>3, <1>4, <1>5

\* A row cancelled from the queue was not busy.
LEMMA CancelQueuedKeeps ==
  ASSUME QInv, NEW i \in Items, CancelQueued(i)
  PROVE  (QueueTypeOK /\ RowsInv)'
<1> USE DEF QInv, RowsInv, jobVars, CancelQueued
<1>r. /\ rows[i].state \notin Busy
      /\ rows' \in [Items -> RowType]
      /\ rows'[i].state = "CANCELLED" /\ \A k \in Items \ {i} : rows'[k] = rows[k]
  <2>1. "CANCELLED" \in RowStates
    BY DEF RowStates, JobStates
  <2> QED BY <2>1, SetStateSets DEF Busy
<1>1. QueueTypeOK'
  BY <1>r, ItemsAssumption DEF QueueTypeOK, WorkerPcs, JobStates
<1>2. LockIsHeld' /\ ItemsAreKnown'
  BY DEF QueueTypeOK, LockIsHeld, ItemsAreKnown, WorkerLocked, WorkerHolds, Commanders
<1>3. BusyIsHeld'
  BY <1>r DEF QueueTypeOK, BusyIsHeld, WorkerHolds, Holding, Busy
<1>4. WorkIsWatched'
  BY DEF QueueTypeOK, WorkIsWatched
<1>5. WorkKeepsRow'
  <2>1. \A k \in Items : rows[k].state \in Busy => rows'[k].state \in Busy
    BY <1>r
  <2> QED BY <2>1 DEF QueueTypeOK, ItemsAreKnown, WorkKeepsRow, WorkIsWatched, WorkerHolds
<1> QED BY <1>1, <1>2, <1>3, <1>4, <1>5

\* A direct job takes the lock first.
LEMMA DirectStartKeeps ==
  ASSUME QInv, NEW p \in Providers, NEW k \in Kinds, DirectStart(p, k)
  PROVE  (QueueTypeOK /\ RowsInv)'
<1> USE DEF QInv, RowsInv, jobVars, DirectStart, ClientTakesLock, SelectProvider
<1>c. /\ "client" \in Commanders /\ call' \in [Commanders -> CallType]
      /\ call'["client"].pc = "starting" /\ call'["client"].item = call["client"].item
      /\ \A d \in Commanders \ {"client"} : call'[d] = call[d]
  BY DEF QueueTypeOK, Commanders, CallPcs
<1>1. QueueTypeOK'
  BY <1>c, ItemsAssumption DEF QueueTypeOK, WorkerPcs, JobStates
<1>2. LockIsHeld' /\ ItemsAreKnown'
  BY <1>c DEF QueueTypeOK, LockIsHeld, ItemsAreKnown, WorkerLocked, WorkerHolds, Commanders, Free
<1>3. BusyIsHeld'
  BY <1>c DEF QueueTypeOK, BusyIsHeld, WorkerHolds, Holding, Busy
<1>4. WorkIsWatched'
  BY <1>c DEF QueueTypeOK, WorkIsWatched
<1>5. WorkKeepsRow'
  BY DEF QueueTypeOK, WorkKeepsRow, WorkIsWatched, Busy
<1> QED BY <1>1, <1>2, <1>3, <1>4, <1>5

\* A direct job that starts belongs to no row.
LEMMA DirectReturnsKeeps ==
  ASSUME QInv, DirectReturns
  PROVE  (QueueTypeOK /\ RowsInv)'
<1> USE DEF QInv, RowsInv, jobVars, DirectReturns, StartRefused
<1>c. /\ "client" \in Commanders /\ call' \in [Commanders -> CallType]
      /\ call'["client"].pc = "idle" /\ call'["client"].item = NoItem
      /\ \A d \in Commanders \ {"client"} : call'[d] = call[d]
  <2>1. NoCommand \in CallType /\ NoCommand.pc = "idle" /\ NoCommand.item = NoItem
    BY DEF NoCommand, CallPcs, JobStates
  <2> QED BY <2>1 DEF QueueTypeOK, Commanders
<1>j. /\ \A j \in JobIds : tasks'[j].pc = "work" /\ tasks[j].pc # "work" => j = nextJob
      /\ nextJob' >= nextJob /\ nextJob \in Nat /\ nextJob' \in Nat
  <2>1. TypeOK /\ "client" \in Callers /\ TypeOK'
    <3>1. [Next]_vars
      BY DEF Next, ClientStep
    <3> QED BY <3>1, RuntimeKeeps, QueueCallersAssumption DEF RuntimeInv, JobsInv
  <2>2. CASE StartJob("client")
    BY <2>1, <2>2 DEF StartJob, TypeOK, JobIds
  <2>3. CASE StartRefused("client")
    BY <2>1, <2>3 DEF StartRefused, TypeOK, JobIds
  <2> QED BY <2>2, <2>3
<1>h. call["client"].pc = "starting" /\ worker.pc \notin WorkerLocked
  BY DEF LockIsHeld
<1>v. UNCHANGED <<rows, issued, active, stopping, worker, owner, direct, restarts>> /\ lifecycle' = Free
  OBVIOUS
<1> HIDE DEF DirectReturns
<1>1. QueueTypeOK'
  BY <1>c, <1>v, ItemsAssumption DEF QueueTypeOK, WorkerPcs, JobStates
<1>2. LockIsHeld' /\ ItemsAreKnown'
  BY <1>c, <1>h, <1>v
  DEF QueueTypeOK, LockIsHeld, ItemsAreKnown, WorkerLocked, WorkerHolds, Commanders, Free
<1>3. BusyIsHeld'
  BY <1>c, <1>h, <1>v DEF QueueTypeOK, BusyIsHeld, WorkerHolds, Holding, Busy
<1>4. WorkIsWatched'
  <2>1. \A j \in JobIds : tasks'[j].pc = "work" /\ owner'[j] # NoItem => tasks[j].pc = "work" /\ owner[j] # NoItem
    BY <1>j, <1>v DEF WorkIsWatched, JobIds
  <2> QED BY <1>c, <1>j, <1>v, <2>1 DEF WorkIsWatched, JobIds
<1>5. WorkKeepsRow'
  <2>1. \A j \in JobIds : tasks'[j].pc = "work" /\ owner'[j] # NoItem => tasks[j].pc = "work" /\ owner[j] # NoItem
    BY <1>j, <1>v DEF WorkIsWatched, JobIds
  <2> QED BY <1>v, <2>1 DEF WorkKeepsRow
<1> QED BY <1>1, <1>2, <1>3, <1>4, <1>5

\* A cancellation of no row takes the lock.
LEMMA CancelDirectKeeps ==
  ASSUME QInv, CancelDirect
  PROVE  (QueueTypeOK /\ RowsInv)'
<1> USE DEF QInv, RowsInv, jobVars, CancelDirect, ClientTakesLock, PickProvider
<1>c. /\ "client" \in Commanders /\ call' \in [Commanders -> CallType]
      /\ call'["client"].pc = "cancelling" /\ call'["client"].item = call["client"].item
      /\ \A d \in Commanders \ {"client"} : call'[d] = call[d]
  BY DEF QueueTypeOK, Commanders, CallPcs
<1>1. QueueTypeOK'
  BY <1>c, ItemsAssumption DEF QueueTypeOK, WorkerPcs, JobStates
<1>2. LockIsHeld' /\ ItemsAreKnown'
  BY <1>c DEF QueueTypeOK, LockIsHeld, ItemsAreKnown, WorkerLocked, WorkerHolds, Commanders, Free
<1>3. BusyIsHeld'
  BY <1>c DEF QueueTypeOK, BusyIsHeld, WorkerHolds, Holding, Busy
<1>4. WorkIsWatched'
  BY <1>c DEF QueueTypeOK, WorkIsWatched
<1>5. WorkKeepsRow'
  BY DEF QueueTypeOK, WorkKeepsRow, WorkIsWatched, Busy
<1> QED BY <1>1, <1>2, <1>3, <1>4, <1>5

\* A cancellation of the active row takes the lock.
LEMMA CancelActiveKeeps ==
  ASSUME QInv, CancelActive
  PROVE  (QueueTypeOK /\ RowsInv)'
<1> USE DEF QInv, RowsInv, jobVars, CancelActive, ClientTakesLock
<1>c. /\ "client" \in Commanders /\ call' \in [Commanders -> CallType]
      /\ call'["client"].pc = "mark" /\ call'["client"].item \in Items /\ call["client"].pc = "idle"
      /\ \A d \in Commanders \ {"client"} : call'[d] = call[d]
  <2>1. /\ [NoCommand EXCEPT !.pc = "mark", !.item = active] \in CallType
        /\ [NoCommand EXCEPT !.pc = "mark", !.item = active].pc = "mark"
        /\ [NoCommand EXCEPT !.pc = "mark", !.item = active].item = active
    BY DEF NoCommand, CallPcs, JobStates, QueueTypeOK
  <2> QED BY <2>1 DEF QueueTypeOK, Commanders
<1>1. QueueTypeOK'
  BY <1>c, ItemsAssumption DEF QueueTypeOK, WorkerPcs, JobStates
<1>2. LockIsHeld' /\ ItemsAreKnown'
  BY <1>c DEF QueueTypeOK, LockIsHeld, ItemsAreKnown, WorkerLocked, WorkerHolds, Commanders, Free
<1>3. BusyIsHeld'
  BY <1>c DEF QueueTypeOK, BusyIsHeld, WorkerHolds, Holding, Busy
<1>4. WorkIsWatched'
  BY <1>c DEF QueueTypeOK, WorkIsWatched
<1>5. WorkKeepsRow'
  BY DEF QueueTypeOK, WorkKeepsRow, WorkIsWatched, Busy
<1> QED BY <1>1, <1>2, <1>3, <1>4, <1>5

\* From here on the runtime stops.
LEMMA BeginShutdownKeeps ==
  ASSUME QInv, BeginShutdown
  PROVE  (QueueTypeOK /\ RowsInv)'
<1> USE DEF QInv, RowsInv, jobVars, BeginShutdown
<1>c. /\ "shutdown" \in Commanders /\ call' \in [Commanders -> CallType]
      /\ call'["shutdown"].pc = "active" /\ call["shutdown"].pc = "idle"
      /\ \A d \in Commanders \ {"shutdown"} : call'[d] = call[d]
  BY DEF QueueTypeOK, Commanders, CallPcs
<1>1. QueueTypeOK'
  BY <1>c, ItemsAssumption DEF QueueTypeOK, WorkerPcs, JobStates
<1>2. LockIsHeld' /\ ItemsAreKnown'
  BY <1>c DEF QueueTypeOK, LockIsHeld, ItemsAreKnown, WorkerLocked, WorkerHolds, Commanders
<1>3. BusyIsHeld'
  BY <1>c DEF QueueTypeOK, BusyIsHeld, WorkerHolds, Holding, Busy
<1>4. WorkIsWatched'
  BY <1>c DEF QueueTypeOK, WorkIsWatched
<1>5. WorkKeepsRow'
  BY <1>c DEF QueueTypeOK, WorkKeepsRow, WorkIsWatched, Busy
<1> QED BY <1>1, <1>2, <1>3, <1>4, <1>5

\* Shutdown looks at the active row.
LEMMA ReadActiveKeeps ==
  ASSUME QInv, ReadActive
  PROVE  (QueueTypeOK /\ RowsInv)'
<1> USE DEF QInv, RowsInv, jobVars, ReadActive
<1>c. /\ "shutdown" \in Commanders /\ call' \in [Commanders -> CallType]
      /\ call'["shutdown"].pc \in {"pick", "check"} /\ call["shutdown"].pc = "active"
      /\ call'["shutdown"].pc = "check" => call'["shutdown"].item \in Items
      /\ \A d \in Commanders \ {"shutdown"} : call'[d] = call[d]
  BY DEF QueueTypeOK, Commanders, CallPcs
<1>1. QueueTypeOK'
  BY <1>c, ItemsAssumption DEF QueueTypeOK, WorkerPcs, JobStates
<1>2. LockIsHeld' /\ ItemsAreKnown'
  BY <1>c DEF QueueTypeOK, LockIsHeld, ItemsAreKnown, WorkerLocked, WorkerHolds, Commanders
<1>3. BusyIsHeld'
  BY <1>c DEF QueueTypeOK, BusyIsHeld, WorkerHolds, Holding, Busy
<1>4. WorkIsWatched'
  BY <1>c DEF QueueTypeOK, WorkIsWatched
<1>5. WorkKeepsRow'
  BY <1>c DEF QueueTypeOK, WorkKeepsRow, WorkIsWatched, Busy
<1> QED BY <1>1, <1>2, <1>3, <1>4, <1>5

\* A row shutdown cancels from the queue was not busy.
LEMMA RecheckActiveKeeps ==
  ASSUME QInv, RecheckActive
  PROVE  (QueueTypeOK /\ RowsInv)'
<1> USE DEF QInv, RowsInv, jobVars, RecheckActive
<1>c. /\ "shutdown" \in Commanders /\ call' \in [Commanders -> CallType]
      /\ call'["shutdown"].pc \in {"pick", "mark"} /\ call["shutdown"].pc = "check"
      /\ call'["shutdown"].pc = "mark" => call'["shutdown"].item \in Items
      /\ \A d \in Commanders \ {"shutdown"} : call'[d] = call[d]
  <2>1. [NoCommand EXCEPT !.pc = "pick"] \in CallType /\ [NoCommand EXCEPT !.pc = "pick"].pc = "pick"
    BY DEF NoCommand, CallPcs, JobStates
  <2>2. call["shutdown"].item \in Items
    BY DEF ItemsAreKnown, Commanders
  <2> QED BY <2>1, <2>2 DEF QueueTypeOK, Commanders, CallPcs
<1>r. /\ rows' \in [Items -> RowType]
      /\ \A k \in Items : rows'[k].state \in Busy => rows[k].state \in Busy
  <2>1. call["shutdown"].item \in Items
    BY DEF ItemsAreKnown, Commanders
  <2>2. CASE rows' = rows
    BY <2>2 DEF QueueTypeOK
  <2>3. CASE rows' = [rows EXCEPT ![call["shutdown"].item].state = "CANCELLED"]
    BY <2>1, <2>3 DEF QueueTypeOK, RowStates, JobStates, Busy
  <2> QED BY <2>2, <2>3
<1>s. stopping' = TRUE /\ stopping = TRUE
  <2>1. stopping' = stopping
    OBVIOUS
  <2>2. stopping = TRUE
    BY <1>c DEF LockIsHeld
  <2> QED BY <2>1, <2>2
<1>v. UNCHANGED <<jobVars, issued, active, stopping, lifecycle, worker, owner, direct, restarts>>
  OBVIOUS
<1> HIDE DEF RecheckActive
<1>1. QueueTypeOK'
  BY <1>c, <1>r, <1>v, ItemsAssumption DEF QueueTypeOK, WorkerPcs, JobStates
<1>2. LockIsHeld' /\ ItemsAreKnown'
  BY <1>c, <1>v, <1>s DEF QueueTypeOK, LockIsHeld, ItemsAreKnown, WorkerLocked, WorkerHolds, Commanders
<1>3. BusyIsHeld'
  BY <1>c, <1>r, <1>v DEF QueueTypeOK, BusyIsHeld, WorkerHolds, Holding, Busy
<1>4. WorkIsWatched'
  <2>1. call'["client"] = call["client"]
    BY <1>c DEF Commanders
  <2> QED BY <1>v, <2>1 DEF WorkIsWatched
<1>5. WorkKeepsRow'
  BY <1>s DEF QueueTypeOK, WorkKeepsRow, WorkIsWatched, Busy
<1> QED BY <1>1, <1>2, <1>3, <1>4, <1>5

\* A cancelled row stays busy, and the cancellation has it.
LEMMA MarkItemKeeps ==
  ASSUME QInv, NEW c \in Commanders, MarkItem(c)
  PROVE  (QueueTypeOK /\ RowsInv)'
<1> USE DEF QInv, RowsInv, jobVars, MarkItem
<1>c. /\ c \in Commanders /\ call' \in [Commanders -> CallType]
      /\ call'[c].pc = "pick" /\ call'[c].item = call[c].item /\ call[c].pc = "mark"
      /\ \A d \in Commanders \ {c} : call'[d] = call[d]
  BY DEF QueueTypeOK, CallPcs
<1>r. /\ call[c].item \in Items
      /\ rows' \in [Items -> RowType]
      /\ rows'[call[c].item].state \in {"ABSENT", "CANCELLING"}
      /\ rows'[call[c].item].state = "ABSENT" <=> rows[call[c].item].state = "ABSENT"
      /\ \A k \in Items \ {call[c].item} : rows'[k] = rows[k]
  <2>1. call[c].item \in Items /\ "CANCELLING" \in RowStates
    BY DEF ItemsAreKnown, RowStates, JobStates
  <2> QED BY <2>1, SetStateSets
<1>1. QueueTypeOK'
  BY <1>c, <1>r, ItemsAssumption DEF QueueTypeOK, WorkerPcs, JobStates
<1>2. LockIsHeld' /\ ItemsAreKnown'
  BY <1>c DEF QueueTypeOK, LockIsHeld, ItemsAreKnown, WorkerLocked, WorkerHolds, Commanders
<1>3. BusyIsHeld'
  BY <1>c, <1>r DEF QueueTypeOK, BusyIsHeld, WorkerHolds, Holding, Busy
<1>4. WorkIsWatched'
  BY <1>c DEF QueueTypeOK, WorkIsWatched
<1>5. WorkKeepsRow'
  <2>1. \A k \in Items : rows[k].state \in Busy => rows'[k].state \in Busy
    BY <1>r DEF Busy
  <2> QED BY <2>1 DEF QueueTypeOK, ItemsAreKnown, WorkKeepsRow, WorkIsWatched, WorkerHolds
<1> QED BY <1>1, <1>2, <1>3, <1>4, <1>5

\* The cancellation asks for the facade.
LEMMA PickToCancelKeeps ==
  ASSUME QInv, NEW c \in Commanders, PickToCancel(c)
  PROVE  (QueueTypeOK /\ RowsInv)'
<1> USE DEF QInv, RowsInv, jobVars, PickToCancel, PickProvider
<1>c. /\ c \in Commanders /\ call' \in [Commanders -> CallType]
      /\ call'[c].pc = "cancelling" /\ call'[c].item = call[c].item /\ call[c].pc = "pick"
      /\ \A d \in Commanders \ {c} : call'[d] = call[d]
  BY DEF QueueTypeOK, CallPcs
<1>1. QueueTypeOK'
  BY <1>c, ItemsAssumption DEF QueueTypeOK, WorkerPcs, JobStates
<1>2. LockIsHeld' /\ ItemsAreKnown'
  BY <1>c DEF QueueTypeOK, LockIsHeld, ItemsAreKnown, WorkerLocked, WorkerHolds, Commanders
<1>3. BusyIsHeld'
  BY <1>c DEF QueueTypeOK, BusyIsHeld, WorkerHolds, Holding, Busy
<1>4. WorkIsWatched'
  BY <1>c DEF QueueTypeOK, WorkIsWatched
<1>5. WorkKeepsRow'
  BY DEF QueueTypeOK, WorkKeepsRow, WorkIsWatched, Busy
<1> QED BY <1>1, <1>2, <1>3, <1>4, <1>5

\* The facade's cancellation starts no work.
LEMMA CancelGoesOnKeeps ==
  ASSUME QInv, NEW c \in Commanders, CancelGoesOn(c)
  PROVE  (QueueTypeOK /\ RowsInv)'
<1> USE DEF QInv, RowsInv, jobVars, CancelGoesOn, queueVars
<1>j. nextJob' = nextJob /\ \A j \in JobIds : tasks'[j].pc = "work" => tasks[j].pc = "work"
  <2>1. TypeOK
    BY DEF RuntimeInv, JobsInv
  <2>2. CASE FlagTask(c)
    BY <2>1, <2>2 DEF FlagTask, TypeOK, Task
  <2>3. CASE MarkCancelling(c)
    BY <2>3 DEF MarkCancelling
  <2> QED BY <2>2, <2>3
<1>1. QueueTypeOK'
  BY ItemsAssumption DEF QueueTypeOK, WorkerPcs, JobStates
<1>2. LockIsHeld' /\ ItemsAreKnown'
  BY DEF QueueTypeOK, LockIsHeld, ItemsAreKnown, WorkerLocked, WorkerHolds, Commanders
<1>3. BusyIsHeld'
  BY DEF QueueTypeOK, BusyIsHeld, WorkerHolds, Holding, Busy
<1>4. WorkIsWatched'
  BY <1>j DEF QueueTypeOK, WorkIsWatched
<1>5. WorkKeepsRow'
  BY <1>j DEF QueueTypeOK, WorkKeepsRow, WorkIsWatched, Busy
<1> QED BY <1>1, <1>2, <1>3, <1>4, <1>5

\* A cancellation that ends leaves no work, and reads a settled state.
LEMMA CancelEndsKeeps ==
  ASSUME QInv, NEW c \in Commanders, CancelEnds(c)
  PROVE  (QueueTypeOK /\ RowsInv)'
<1> USE DEF QInv, RowsInv, jobVars, CancelEnds
<1>f. /\ c \in Callers /\ CancelReturns(c) /\ UNCHANGED <<status, handle, tasks, nextJob, selected, observed>>
  BY QueueCallersAssumption DEF Commanders, CancelReturns
<1>j. \A j \in JobIds : tasks[j].pc # "work"
  BY <1>f, CancelFindsNoWork DEF RuntimeInv
<1>s. status[facade.prov].state \in JobStates /\ status[facade.prov].state \notin Busy
  <2>1. TypeOK /\ Calling /\ facade.step = "await" /\ ~Unfinished(facade.task)
    BY <1>f, CallersAssumption DEF RuntimeInv, JobsInv, CancelReturns, Calling
  <2>2. facade.prov \in Providers /\ status[facade.prov] \in Status
    BY <2>1 DEF TypeOK, Call
  <2>3. status[facade.prov].running = FALSE
    <3>1. RunningProviders = {}
      BY <1>f, <2>1
      DEF RuntimeInv, JobsInv, CancelCoversRunning, RunningHasTask, UnfinishedIsHeld, Unfinished, TypeOK, Task, JobIds, NoJob, Writing
    <3>2. ~status[facade.prov].running /\ status[facade.prov].running \in BOOLEAN
      BY <2>2, <3>1 DEF RunningProviders, Status
    <3> QED BY <3>2
  <2> QED BY <2>2, <2>3 DEF RuntimeInv, StatusSettles, Unsettled, Status, JobStates, Busy
<1> HIDE DEF CancelReturns
<1>c. /\ c \in Commanders /\ call' \in [Commanders -> CallType]
      /\ call'[c].pc \in {"idle", "over", "finish"} /\ call[c].pc = "cancelling" /\ call[c].item \in Items \cup {NoItem}
      /\ call'[c].pc = "finish" <=> call[c].item # NoItem
      /\ call'[c].pc = "finish" => /\ call'[c].item = call[c].item /\ call'[c].item \in Items
                                   /\ call'[c].seen \notin Busy
      /\ call'["client"].pc # "idle" => lifecycle' = "client" \/ c = "shutdown"
      /\ \A d \in Commanders \ {c} : call'[d] = call[d]
  <2>1. call[c] \in CallType
    BY DEF QueueTypeOK
  <2>2. CASE call[c].item # NoItem
    <3>1. call' = [call EXCEPT ![c] = [@ EXCEPT !.pc = "finish", !.seen = status[facade.prov].state]]
      BY <2>2
    <3>2. lifecycle' = lifecycle
      BY <2>2
    <3>3. call'[c] = [pc |-> "finish", item |-> call[c].item, seen |-> status[facade.prov].state]
      BY <2>1, <3>1 DEF QueueTypeOK
    <3>4. call'["client"].pc # "idle" => lifecycle' = "client" \/ c = "shutdown"
      BY <3>2 DEF LockIsHeld, Commanders
    <3> QED BY <1>s, <2>1, <2>2, <3>1, <3>3, <3>4 DEF QueueTypeOK, CallPcs
  <2>3. CASE call[c].item = NoItem
    <3>1. call' = [call EXCEPT ![c] = [NoCommand EXCEPT !.pc = IF c = "client" THEN "idle" ELSE "over"]]
      BY <2>3
    <3>2. /\ [NoCommand EXCEPT !.pc = IF c = "client" THEN "idle" ELSE "over"]
               \in CallType
          /\ [NoCommand EXCEPT !.pc = IF c = "client" THEN "idle" ELSE "over"].pc = IF c = "client" THEN "idle" ELSE "over"
      BY DEF NoCommand, CallPcs, JobStates
    <3> QED BY <2>1, <2>3, <3>1, <3>2 DEF QueueTypeOK, CallPcs, Commanders
  <2> QED BY <2>2, <2>3
<1>v. /\ lifecycle' = lifecycle \/ (c = "client" /\ lifecycle' = Free /\ call'["client"].pc = "idle")
      /\ UNCHANGED <<rows, issued, active, stopping, worker, owner, direct, restarts>>
  <2>1. CASE c = "client" /\ call[c].item = NoItem
    BY <1>c, <2>1
  <2>2. CASE ~(c = "client" /\ call[c].item = NoItem)
    BY <2>2
  <2> QED BY <2>1, <2>2
<1>h. c = "client" => worker.pc \notin WorkerLocked
  BY <1>c DEF LockIsHeld
<1>n. \A i \in Items : i # NoItem
  BY DEF Items, NoItem
<1> HIDE DEF CancelEnds
<1>1. QueueTypeOK'
  BY <1>c, <1>v, ItemsAssumption DEF QueueTypeOK, WorkerPcs, JobStates
<1>2. LockIsHeld' /\ ItemsAreKnown'
  BY <1>c, <1>v, <1>h DEF QueueTypeOK, LockIsHeld, ItemsAreKnown, WorkerLocked, WorkerHolds, Commanders
<1>3. BusyIsHeld'
  BY <1>c, <1>v, <1>n DEF QueueTypeOK, BusyIsHeld, WorkerHolds, Holding, Busy
<1>4. WorkIsWatched'
  BY <1>c, <1>f, <1>j, <1>v DEF QueueTypeOK, WorkIsWatched
<1>5. WorkKeepsRow'
  BY <1>f, <1>j, <1>v DEF QueueTypeOK, WorkKeepsRow, WorkIsWatched, Busy
<1> QED BY <1>1, <1>2, <1>3, <1>4, <1>5

\* A settled state is written when nothing is at work, or when the runtime stops.
LEMMA FinishItemKeeps ==
  ASSUME QInv, NEW c \in Commanders, FinishItem(c)
  PROVE  (QueueTypeOK /\ RowsInv)'
<1> USE DEF QInv, RowsInv, jobVars, FinishItem
<1>c. /\ c \in Commanders /\ call' \in [Commanders -> CallType]
      /\ call'[c].pc = (IF c = "client" THEN "idle" ELSE "pick") /\ call[c].pc = "finish"
      /\ \A d \in Commanders \ {c} : call'[d] = call[d]
  <2>1. /\ [NoCommand EXCEPT !.pc = IF c = "client" THEN "idle" ELSE "pick"]
             \in CallType
        /\ [NoCommand EXCEPT !.pc = IF c = "client" THEN "idle" ELSE "pick"].pc = IF c = "client" THEN "idle" ELSE "pick"
    BY DEF NoCommand, CallPcs, JobStates
  <2> QED BY <2>1 DEF QueueTypeOK
<1>r. /\ call[c].item \in Items
      /\ rows' \in [Items -> RowType]
      /\ rows'[call[c].item].state \notin Busy
      /\ \A k \in Items \ {call[c].item} : rows'[k] = rows[k]
  <2>1. call[c].item \in Items /\ call[c].seen \in RowStates /\ call[c].seen \notin Busy
    BY DEF ItemsAreKnown, RowStates, QueueTypeOK
  <2> QED BY <2>1, SetStateSets DEF Busy
<1>v. /\ lifecycle' = (IF c = "client" THEN Free ELSE lifecycle)
      /\ UNCHANGED <<jobVars, issued, active, stopping, worker, owner, direct, restarts>>
  OBVIOUS
<1>h. /\ c = "client" => worker.pc \notin WorkerLocked /\ \A j \in JobIds : tasks[j].pc # "work"
      /\ c = "shutdown" => stopping = TRUE
      /\ c = "client" \/ c = "shutdown"
  BY <1>c DEF LockIsHeld, WorkIsWatched, Commanders
<1>s. c = "shutdown" => stopping' = TRUE
  <2>1. stopping' = stopping
    BY <1>v
  <2> QED BY <1>h, <2>1
<1> HIDE DEF FinishItem
<1>1. QueueTypeOK'
  BY <1>c, <1>r, <1>v, ItemsAssumption DEF QueueTypeOK, WorkerPcs, JobStates
<1>2. LockIsHeld' /\ ItemsAreKnown'
  <2>1. LockIsHeld'
    BY <1>c, <1>v, <1>h, <1>s DEF LockIsHeld, Commanders
  <2>2. ItemsAreKnown'
    BY <1>c, <1>v DEF ItemsAreKnown, Commanders
  <2> QED BY <2>1, <2>2
<1>3. BusyIsHeld'
  <2> SUFFICES ASSUME NEW i \in Items, rows'[i].state \in Busy
               PROVE  \/ worker'.item = i /\ worker'.pc \in WorkerHolds
                      \/ \E d \in Commanders : call'[d].item = i /\ call'[d].pc \in Holding
    BY DEF BusyIsHeld
  <2>1. i # call[c].item /\ rows[i].state \in Busy
    BY <1>r
  <2>2. CASE worker.item = i /\ worker.pc \in WorkerHolds
    BY <1>v, <2>2
  <2>3. ASSUME NEW d \in Commanders, call[d].item = i, call[d].pc \in Holding
        PROVE  call'[d].item = i /\ call'[d].pc \in Holding
    BY <1>c, <2>1, <2>3
  <2> QED BY <2>1, <2>2, <2>3 DEF BusyIsHeld
<1>4. WorkIsWatched'
  <2>1. call'["client"].pc = "finish" => call["client"].pc = "finish"
    BY <1>c DEF Commanders
  <2> QED BY <1>v, <2>1 DEF WorkIsWatched
<1>5. WorkKeepsRow'
  <2>1. CASE c = "shutdown"
    BY <1>s, <2>1 DEF WorkKeepsRow
  <2>2. CASE c = "client"
    BY <1>v, <1>h, <2>2 DEF WorkKeepsRow, WorkerLocked
  <2> QED BY <1>h, <2>1, <2>2
<1> QED BY <1>1, <1>2, <1>3, <1>4, <1>5

\* What tasks and observers do starts no work.
LEMMA RuntimeStepKeeps ==
  ASSUME QInv, RuntimeStep
  PROVE  (QueueTypeOK /\ RowsInv)'
<1> USE DEF QInv, RowsInv, jobVars, RuntimeStep, queueVars
<1>j. nextJob' = nextJob /\ \A j \in JobIds : tasks'[j].pc = "work" => tasks[j].pc = "work"
  <2>1. TypeOK
    BY DEF RuntimeInv, JobsInv
  <2>2. ASSUME NEW j \in JobIds, TaskStep(j) PROVE nextJob' = nextJob /\ \A k \in JobIds : tasks'[k].pc = "work" => tasks[k].pc = "work"
    BY <2>1, <2>2 DEF TaskStep, Progress, Publish, GiveUp, Fail, EndTask, PushTerminal, TypeOK, Task
  <2>3. CASE ObserveRunning \/ SelectObserved
    BY <2>3 DEF ObserveRunning, SelectObserved
  <2> QED BY <2>2, <2>3
<1>v. UNCHANGED <<rows, issued, active, stopping, lifecycle, worker, call, owner, direct, restarts>>
  OBVIOUS
<1> HIDE DEF RuntimeStep
<1>1. QueueTypeOK'
  BY <1>v, ItemsAssumption DEF QueueTypeOK, WorkerPcs, JobStates
<1>2. LockIsHeld' /\ ItemsAreKnown'
  BY <1>v DEF QueueTypeOK, LockIsHeld, ItemsAreKnown, WorkerLocked, WorkerHolds, Commanders
<1>3. BusyIsHeld'
  BY <1>v DEF QueueTypeOK, BusyIsHeld, WorkerHolds, Holding, Busy
<1>4. WorkIsWatched'
  BY <1>j, <1>v DEF QueueTypeOK, WorkIsWatched
<1>5. WorkKeepsRow'
  BY <1>j, <1>v DEF QueueTypeOK, WorkKeepsRow, WorkIsWatched, Busy
<1> QED BY <1>1, <1>2, <1>3, <1>4, <1>5

\* A relaunch finds rows that are not busy, and nothing at work.
LEMMA RestartKeeps ==
  ASSUME QInv, Restart
  PROVE  (QueueTypeOK /\ RowsInv)'
<1> USE DEF QInv, RowsInv, Restart
<1>1. QueueTypeOK'
  <2>1. Idle \in [pc : WorkerPcs, item : Items \cup {NoItem}, job : JobIds \cup {NoJob}, seen : JobStates]
    BY DEF Idle, WorkerPcs, JobStates
  <2>2. NoCommand \in CallType
    BY DEF NoCommand, CallPcs, JobStates
  <2>3. rows' \in [Items -> RowType]
    BY DEF QueueTypeOK, RowStates
  <2>4. stopping' \in BOOLEAN
    BY Zenon
  <2>5. restarts' \in 0 .. MaxRestarts
    BY ItemsAssumption DEF QueueTypeOK
  <2> QED BY <2>1, <2>2, <2>3, <2>4, <2>5 DEF QueueTypeOK
<1>r. \A i \in Items : rows'[i].state \notin Busy
  BY DEF QueueTypeOK, Busy
<1>j. /\ \A j \in JobIds : tasks'[j].pc # "work" /\ owner'[j] = NoItem
      /\ worker'.pc = "top" /\ \A c \in Commanders : call'[c].pc = "idle"
  BY DEF RuntimeIsNew, NoTask, Idle, NoCommand
<1>2. LockIsHeld' /\ ItemsAreKnown'
  BY <1>j DEF LockIsHeld, ItemsAreKnown, WorkerLocked, WorkerHolds, Commanders
<1>3. BusyIsHeld'
  BY <1>r DEF BusyIsHeld
<1>4. WorkIsWatched'
  BY <1>j DEF WorkIsWatched, Commanders
<1>5. WorkKeepsRow'
  BY <1>j DEF WorkKeepsRow
<1> QED BY <1>1, <1>2, <1>3, <1>4, <1>5

\* No step brings back a row that was never enqueued.
LEMMA RowsStayIssued ==
  ASSUME QInv, [Next]_vars
  PROVE  RowsAreIssued'
<1> USE DEF QInv, RowsAreIssued
<1>1. ASSUME NEW i \in Items, NEW s \in RowStates, SetState(i, s), issued' = issued PROVE RowsAreIssued'
  BY <1>1, SetStateSets
<1>2. CASE UNCHANGED <<rows, issued>>
  BY <1>2
<1>3. ASSUME WorkerStep PROVE RowsAreIssued'
  <2>1. CASE Claim
    BY <2>1 DEF Claim, NextQueued, QueueTypeOK
  <2>2. CASE FailUnreadable \/ FailStart \/ MarkRunning \/ WriteResult
    <3>1. worker.item \in Items /\ {"FAILED", "RUNNING", worker.seen} \subseteq RowStates /\ issued' = issued
      BY <2>2 DEF RowsInv, ItemsAreKnown, WorkerHolds, RowStates, JobStates, QueueTypeOK,
        FailUnreadable, FailStart, MarkRunning, WriteResult
    <3>2. \E s \in RowStates : SetState(worker.item, s)
      BY <2>2, <3>1 DEF FailUnreadable, FailStart, MarkRunning, WriteResult
    <3> QED BY <1>1, <3>1, <3>2
  <2>3. CASE ~Claim /\ ~FailUnreadable /\ ~FailStart /\ ~MarkRunning /\ ~WriteResult
    BY <1>2, <1>3, <2>3
    DEF WorkerStep, WorkerStops, WorkerTries, WorkerLocks, WorkerFindsNothing, Activate,
      Unclaim, Request, Started, NotStarted, PollTerminal, ReadStatus, ClearActive
  <2> QED BY <2>1, <2>2, <2>3
<1>4. ASSUME ClientStep PROVE RowsAreIssued'
  <2>1. CASE Enqueue
    BY <2>1, ItemsAssumption DEF Enqueue, QueueTypeOK, Items
  <2>2. ASSUME NEW i \in Items, Retry(i) PROVE RowsAreIssued'
    BY <2>2 DEF Retry, Retryable, QueueTypeOK
  <2>3. ASSUME NEW i \in Items, Remove(i) PROVE RowsAreIssued'
    BY <2>3 DEF Remove, NoRow, QueueTypeOK
  <2>4. ASSUME NEW i \in Items, CancelQueued(i) PROVE RowsAreIssued'
    <3>1. SetState(i, "CANCELLED") /\ issued' = issued /\ "CANCELLED" \in RowStates
      BY <2>4 DEF CancelQueued, RowStates, JobStates
    <3> QED BY <1>1, <3>1
  <2>5. CASE (\E p \in Providers, k \in Kinds : DirectStart(p, k)) \/ DirectReturns \/ CancelDirect \/ CancelActive
    BY <1>2, <2>5 DEF DirectStart, DirectReturns, CancelDirect, CancelActive
  <2> QED BY <1>4, <2>1, <2>2, <2>3, <2>4, <2>5 DEF ClientStep
<1>5. ASSUME NEW c \in Commanders, CallGoesOn(c) PROVE RowsAreIssued'
  <2>1. CASE MarkItem(c) \/ FinishItem(c)
    <3>1. call[c].item \in Items /\ {"CANCELLING", call[c].seen} \subseteq RowStates /\ issued' = issued
      BY <2>1 DEF RowsInv, ItemsAreKnown, RowStates, JobStates, QueueTypeOK, MarkItem, FinishItem
    <3>2. \E s \in RowStates : SetState(call[c].item, s)
      BY <2>1, <3>1 DEF MarkItem, FinishItem
    <3> QED BY <1>1, <3>1, <3>2
  <2>2. CASE PickToCancel(c) \/ CancelGoesOn(c) \/ CancelEnds(c)
    BY <1>2, <2>2 DEF PickToCancel, CancelGoesOn, CancelEnds, queueVars
  <2> QED BY <1>5, <2>1, <2>2 DEF CallGoesOn
<1>6. ASSUME ShutdownStep PROVE RowsAreIssued'
  <2>1. CASE RecheckActive
    <3>1. issued' = issued /\ (rows' = rows \/ (/\ rows[call["shutdown"].item].state = "QUEUED"
                                              /\ rows' = [rows EXCEPT ![call["shutdown"].item].state = "CANCELLED"]))
      BY <2>1 DEF RecheckActive
    <3> QED BY <3>1 DEF QueueTypeOK
  <2>2. CASE BeginShutdown \/ ReadActive
    BY <1>2, <2>2 DEF BeginShutdown, ReadActive
  <2> QED BY <1>6, <2>1, <2>2 DEF ShutdownStep
<1>7. ASSUME RuntimeStep PROVE RowsAreIssued'
  BY <1>2, <1>7 DEF RuntimeStep, queueVars
<1>8. ASSUME Restart PROVE RowsAreIssued'
  BY <1>8 DEF Restart, Busy, QueueTypeOK
<1>9. CASE UNCHANGED vars
  BY <1>2, <1>9 DEF vars, queueVars
<1> QED BY <1>3, <1>4, <1>5, <1>6, <1>7, <1>8, <1>9 DEF Next

\* Every step keeps the invariant.
LEMMA QueueStepKeeps == QInv /\ [Next]_vars => QInv'
<1> SUFFICES ASSUME QInv, [Next]_vars PROVE QInv'
  OBVIOUS
<1>1. ASSUME WorkerStep PROVE (QueueTypeOK /\ RowsInv)'
  BY <1>1, WorkerStopsKeeps, WorkerTriesKeeps, WorkerLocksKeeps, WorkerFindsNothingKeeps, ClaimKeeps, ActivateKeeps,
     UnclaimKeeps, FailUnreadableKeeps, FailStartKeeps, MarkRunningKeeps, WriteResultKeeps, PollTerminalKeeps,
     ReadStatusKeeps, ClearActiveKeeps, RequestKeeps, NotStartedKeeps, StartedKeeps
  DEF WorkerStep
<1>2. ASSUME ClientStep PROVE (QueueTypeOK /\ RowsInv)'
  BY <1>2, EnqueueKeeps, RetryKeeps, RemoveKeeps, CancelQueuedKeeps, DirectStartKeeps, DirectReturnsKeeps,
     CancelDirectKeeps, CancelActiveKeeps
  DEF ClientStep
<1>3. ASSUME ShutdownStep PROVE (QueueTypeOK /\ RowsInv)'
  BY <1>3, BeginShutdownKeeps, ReadActiveKeeps, RecheckActiveKeeps DEF ShutdownStep
<1>4. ASSUME NEW c \in Commanders, CallGoesOn(c) PROVE (QueueTypeOK /\ RowsInv)'
  BY <1>4, MarkItemKeeps, PickToCancelKeeps, CancelGoesOnKeeps, CancelEndsKeeps, FinishItemKeeps
  DEF CallGoesOn
<1>5. ASSUME UNCHANGED vars PROVE (QueueTypeOK /\ RowsInv)'
  <2>1. QueueTypeOK'
    BY <1>5 DEF QInv, QueueTypeOK, vars, queueVars
  <2>2. LockIsHeld' /\ ItemsAreKnown' /\ BusyIsHeld'
    BY <1>5 DEF QInv, RowsInv, LockIsHeld, ItemsAreKnown, BusyIsHeld, vars, queueVars
  <2>3. WorkIsWatched' /\ WorkKeepsRow'
    BY <1>5 DEF QInv, RowsInv, WorkIsWatched, WorkKeepsRow, vars, queueVars, jobVars
  <2> QED BY <2>1, <2>2, <2>3 DEF RowsInv
<1>6. (QueueTypeOK /\ RowsInv)'
  BY <1>1, <1>2, <1>3, <1>4, <1>5, RuntimeStepKeeps, RestartKeeps DEF Next
<1> QED BY <1>6, RuntimeKeeps, RowsStayIssued DEF QInv

\* The queue's invariant.
THEOREM QueueInvariant == Spec => []QInv
<1>1. QueueInit => QInv
  BY QueueStarts
<1>2. QInv /\ [Next]_vars => QInv'
  BY QueueStepKeeps
<1> QED BY <1>1, <1>2, PTL DEF Spec

\* The table and the work agree: a row that says it is being worked on has a worker or a
\* cancellation that will still write its result (worker_loop, cancel), and no download goes on
\* for a row that was removed, by the owner or by the CLI, unless the runtime stops.
THEOREM RowsAndWorkAgree == Spec => []QueueInv
<1>1. QInv => QueueInv
  <2> SUFFICES ASSUME QInv PROVE QueueInv
    OBVIOUS
  <2>1. QueueTypeOK
    BY DEF QInv
  <2>2. BusyRowIsOwned
    BY DEF QInv, RowsInv, BusyIsHeld, BusyRowIsOwned, WorkerOwns, CallOwns, WorkerHolds, Holding
  <2>3. WorkHasItsRow
    <3>1. ASSUME ~stopping PROVE stopping = FALSE
      <4>1. stopping \in BOOLEAN
        BY <2>1 DEF QueueTypeOK
      <4> QED BY <3>1, <4>1
    <3> QED BY <3>1 DEF QInv, RowsInv, WorkKeepsRow, WorkHasItsRow, Busy
  <2> QED BY <2>1, <2>2, <2>3 DEF QueueInv
<1> QED BY <1>1, QueueInvariant, PTL

\* The queue never brings the job runtime into a state its own proofs exclude: with the worker,
\* direct jobs, cancellations and relaunches around it, only one job is at work at a time.
THEOREM QueueRunsOneJob == Spec => [](OneRunning /\ OneWorking)
<1>1. QInv => OneRunning /\ OneWorking
  <2> SUFFICES ASSUME QInv PROVE OneRunning /\ OneWorking
    OBVIOUS
  <2>1. JobsInv
    BY DEF QInv, RuntimeInv
  <2>2. TypeOK /\ OneRunning
    BY <2>1 DEF JobsInv
  <2>3. OneWorking
    BY <2>1, <2>2
    DEF JobsInv, OneWorking, OneRunning, WorkIsRunning, StatusBelongsToTask, Writing, RunningProviders, TypeOK, Task
  <2> QED BY <2>2, <2>3
<1> QED BY <1>1, QueueInvariant, PTL
----------------------------------------------------------------------------
\* What the worker writes into a row is what its job came to.

\* Where the worker has a job of its own.
Awaiting == {"started", "poll", "read", "write"}

\* A provider's status is about a job that was its own.
StatusNamesItsTask ==
  \A p \in Providers : status[p].job # NoJob =>
    tasks[status[p].job].prov = p /\ tasks[status[p].job].pc # "unborn"

\* The worker calls the facade for downloads only, and never to cancel one.
WorkerDownloads ==
  /\ facade.by = "worker" => facade.step = "start" /\ facade.kind = "download"
  /\ worker.pc \in Awaiting =>
       worker.job \in JobIds /\ tasks[worker.job].kind = "download" /\ tasks[worker.job].pc # "unborn"

\* s is what job j came to.  One that has published and no longer runs is COMPLETED until its task
\* ends; then a SOOP job may still become CANCELLED, by a flag raised after it had published.
CameTo(j, s) ==
  LET t == tasks[j] IN
  \/ /\ t.pc = "published" /\ s = "COMPLETED"
     /\ status[t.prov].state = "COMPLETED" /\ status[t.prov].running = FALSE
  \/ t.pc \in {"ended", "done"} /\ t.final = s
  \/ t.pc \in {"ended", "done"} /\ s = "COMPLETED" /\ t.final = "CANCELLED" /\ t.prov \notin KeepsCompleted

\* What the worker has in hand to write is what its job came to, or that it failed.
ReportIsTrue == worker.pc = "write" /\ worker.seen # "FAILED" => CameTo(worker.job, worker.seen)

\* Inductive, given QInv.
ReportInv == StatusNamesItsTask /\ WorkerDownloads /\ ReportIsTrue

\* A job keeps its provider and its kind, and is never unborn again.
LEMMA TasksKeepTheirKind ==
  ASSUME JobsInv, [JobsNext]_jobVars, NEW j \in JobIds, tasks[j].pc # "unborn"
  PROVE  tasks'[j].prov = tasks[j].prov /\ tasks'[j].kind = tasks[j].kind /\ tasks'[j].pc # "unborn"
<1>0. TypeOK
  BY DEF JobsInv
<1>1. CASE UNCHANGED tasks
  BY <1>1
<1>2. ASSUME NEW c \in Callers, StartJob(c)
      PROVE  tasks'[j] = tasks[j]
  <2>1. nextJob # j
    BY <1>0, <1>2 DEF StartJob, JobsInv, JobsAreBornInOrder, TypeOK, JobIds
  <2> QED BY <1>0, <1>2, <2>1 DEF StartJob, TypeOK
<1>3. ASSUME NEW c \in Callers, FlagTask(c)
      PROVE  tasks'[j].prov = tasks[j].prov /\ tasks'[j].kind = tasks[j].kind /\ tasks'[j].pc # "unborn"
  BY <1>0, <1>3 DEF FlagTask, TypeOK, Task
<1>4. ASSUME NEW i \in JobIds, TaskStep(i), tasks' # tasks
      PROVE  tasks'[j].prov = tasks[j].prov /\ tasks'[j].kind = tasks[j].kind /\ tasks'[j].pc # "unborn"
  <2>1. CASE Publish(i) \/ GiveUp(i) \/ Fail(i) \/ PushTerminal(i)
    BY <1>0, <2>1 DEF Publish, GiveUp, Fail, PushTerminal, TypeOK, Task
  <2>2. CASE EndTask(i)
    <3> HIDE DEF FinalState
    <3> QED BY <1>0, <2>2 DEF EndTask, TypeOK, Task
  <2>3. CASE Progress(i)
    BY <1>4, <2>3 DEF Progress
  <2> QED BY <1>4, <2>1, <2>2, <2>3 DEF TaskStep
<1>5. CASE UNCHANGED jobVars
  BY <1>1, <1>5 DEF jobVars
<1>6. ASSUME NEW c \in Callers, FacadeStep(c)
      PROVE  tasks'[j].prov = tasks[j].prov /\ tasks'[j].kind = tasks[j].kind /\ tasks'[j].pc # "unborn"
  BY <1>1, <1>2, <1>3, <1>6
  DEF FacadeStep, SelectProvider, StartRefused, PickProvider, MarkCancelling, CancelReturns
<1>7. CASE ObserveRunning \/ SelectObserved
  BY <1>1, <1>7 DEF ObserveRunning, SelectObserved
<1> QED BY <1>1, <1>4, <1>5, <1>6, <1>7 DEF JobsNext

\* A status changes its job only with the start of one.
LEMMA NamesStay ==
  ASSUME JobsInv, StatusNamesItsTask, [JobsNext]_jobVars
  PROVE  StatusNamesItsTask'
<1>0. TypeOK
  BY DEF JobsInv
<1>1. ASSUME \A p \in Providers : status'[p].job = status[p].job PROVE StatusNamesItsTask'
  <2> SUFFICES ASSUME NEW p \in Providers, status'[p].job # NoJob
               PROVE  tasks'[status'[p].job].prov = p /\ tasks'[status'[p].job].pc # "unborn"
    BY DEF StatusNamesItsTask
  <2>1. status[p].job \in JobIds /\ tasks[status[p].job].prov = p /\ tasks[status[p].job].pc # "unborn"
    BY <1>0, <1>1 DEF StatusNamesItsTask, TypeOK, Status
  <2> QED BY <1>1, <2>1, TasksKeepTheirKind
<1>2. ASSUME NEW c \in Callers, StartJob(c) PROVE StatusNamesItsTask'
  <2>1. facade.prov \in Providers /\ nextJob \in JobIds
    BY <1>0, <1>2 DEF StartJob, TypeOK, Call
  <2>2. ASSUME NEW p \in Providers \ {facade.prov}, status[p].job # NoJob
        PROVE  tasks'[status[p].job] = tasks[status[p].job]
    <3>1. status[p].job \in JobIds /\ tasks[status[p].job].pc # "unborn"
      BY <1>0, <2>2 DEF StatusNamesItsTask, TypeOK, Status
    <3>2. status[p].job # nextJob
      BY <1>0, <2>1, <3>1 DEF JobsInv, JobsAreBornInOrder, TypeOK, JobIds
    <3> QED BY <1>0, <1>2, <3>1, <3>2 DEF StartJob, TypeOK
  <2>3. /\ status'[facade.prov].job = nextJob /\ tasks'[nextJob].prov = facade.prov
        /\ tasks'[nextJob].pc = "work"
        /\ \A p \in Providers \ {facade.prov} : status'[p] = status[p]
    BY <1>0, <1>2, <2>1 DEF StartJob, TypeOK
  <2> QED BY <2>2, <2>3 DEF StatusNamesItsTask
<1>3. CASE UNCHANGED status
  BY <1>1, <1>3
<1>4. ASSUME NEW c \in Callers, MarkCancelling(c) PROVE StatusNamesItsTask'
  BY <1>0, <1>1, <1>4 DEF MarkCancelling, TypeOK, Status
<1>5. ASSUME NEW i \in JobIds, TaskStep(i) PROVE StatusNamesItsTask'
  <2> HIDE DEF FinalState
  <2>1. CASE Progress(i) \/ Publish(i) \/ EndTask(i)
    BY <1>0, <1>1, <2>1 DEF Progress, Publish, EndTask, TypeOK, Status
  <2> QED BY <1>3, <1>5, <2>1 DEF TaskStep, GiveUp, Fail, PushTerminal
<1>6. ASSUME NEW c \in Callers, FacadeStep(c) PROVE StatusNamesItsTask'
  BY <1>2, <1>3, <1>4, <1>6
  DEF FacadeStep, SelectProvider, StartRefused, PickProvider, FlagTask, CancelReturns
<1>7. CASE ObserveRunning \/ SelectObserved \/ UNCHANGED jobVars
  BY <1>3, <1>7 DEF ObserveRunning, SelectObserved, jobVars
<1> QED BY <1>5, <1>6, <1>7 DEF JobsNext

\* What a job came to stays what it came to.
LEMMA ResultStays ==
  ASSUME JobsInv, JobsInv', [JobsNext]_jobVars, NEW j \in JobIds, NEW s \in JobStates, CameTo(j, s)
  PROVE  CameTo(j, s)'
<1>0. TypeOK /\ TypeOK'
  BY DEF JobsInv
<1>1. tasks[j].pc \in {"published", "ended", "done"} /\ tasks[j].prov \in Providers
  BY <1>0 DEF CameTo, TypeOK, Task
<1>2. tasks'[j].prov = tasks[j].prov
  BY <1>1, TasksKeepTheirKind
<1>3. ASSUME tasks[j].pc \in {"ended", "done"}
      PROVE  tasks'[j].pc \in {"ended", "done"} /\ tasks'[j].final = tasks[j].final
  <2>1. ASSUME NEW c \in Callers, StartJob(c) PROVE tasks'[j] = tasks[j]
    <3>1. nextJob # j
      BY <1>0, <1>3, <2>1 DEF StartJob, JobsInv, JobsAreBornInOrder, TypeOK, JobIds
    <3> QED BY <1>0, <2>1, <3>1 DEF StartJob, TypeOK
  <2>2. ASSUME NEW c \in Callers, FlagTask(c)
        PROVE  tasks'[j].pc = tasks[j].pc /\ tasks'[j].final = tasks[j].final
    BY <1>0, <2>2 DEF FlagTask, TypeOK, Task
  <2>3. ASSUME NEW i \in JobIds, TaskStep(i)
        PROVE  tasks'[j].pc \in {"ended", "done"} /\ tasks'[j].final = tasks[j].final
    <3> HIDE DEF FinalState
    <3> QED BY <1>0, <1>3, <2>3
        DEF TaskStep, Progress, Publish, GiveUp, Fail, EndTask, PushTerminal, TypeOK, Task
  <2>4. CASE UNCHANGED tasks
    BY <1>3, <2>4
  <2>5. ASSUME NEW c \in Callers, FacadeStep(c)
        PROVE  tasks'[j].pc \in {"ended", "done"} /\ tasks'[j].final = tasks[j].final
    BY <1>3, <2>1, <2>2, <2>4, <2>5
    DEF FacadeStep, SelectProvider, StartRefused, PickProvider, MarkCancelling, CancelReturns
  <2> QED BY <2>3, <2>4, <2>5 DEF JobsNext, ObserveRunning, SelectObserved, jobVars
<1>4. CASE tasks[j].pc \in {"ended", "done"}
  BY <1>2, <1>3, <1>4 DEF CameTo
<1>5. CASE tasks[j].pc = "published"
  <2> DEFINE p == tasks[j].prov
  <2>1. s = "COMPLETED" /\ status[p].state = "COMPLETED" /\ status[p].running = FALSE
    BY <1>5 DEF CameTo
  <2>2. status[p].job = j
    BY <1>5 DEF JobsInv, StatusBelongsToTask, Writing
  <2>3. ASSUME tasks'[j].pc = "published", status'[p] = status[p] PROVE CameTo(j, s)'
    BY <1>2, <2>1, <2>3 DEF CameTo
  <2>4. ASSUME NEW c \in Callers, StartJob(c) PROVE CameTo(j, s)'
    <3>1. nextJob # j /\ nextJob \in JobIds /\ facade.prov \in Providers
      BY <1>0, <1>5, <2>4 DEF StartJob, JobsInv, JobsAreBornInOrder, TypeOK, Call, JobIds
    <3>2. tasks'[j] = tasks[j]
      BY <1>0, <2>4, <3>1 DEF StartJob, TypeOK
    <3>3. status'[p].job = j
      BY <1>5, <3>2 DEF JobsInv, StatusBelongsToTask, Writing
    <3>4. facade.prov # p
      BY <1>0, <2>4, <3>1, <3>3 DEF StartJob, TypeOK
    <3>5. status'[p] = status[p]
      BY <1>0, <1>1, <2>4, <3>4 DEF StartJob, TypeOK
    <3> QED BY <1>5, <2>3, <3>2, <3>5
  <2>5. ASSUME NEW c \in Callers, FlagTask(c) PROVE CameTo(j, s)'
    <3>1. tasks'[j].pc = tasks[j].pc /\ status' = status
      BY <1>0, <2>5 DEF FlagTask, TypeOK, Task
    <3> QED BY <1>5, <2>3, <3>1
  <2>6. ASSUME NEW c \in Callers, MarkCancelling(c) PROVE CameTo(j, s)'
    <3>1. tasks' = tasks /\ status'[p] = status[p]
      BY <1>0, <1>1, <2>1, <2>6 DEF MarkCancelling, TypeOK, Call
    <3> QED BY <1>5, <2>3, <3>1
  <2>7. ASSUME NEW i \in JobIds, i # j, TaskStep(i) PROVE CameTo(j, s)'
    <3> HIDE DEF FinalState
    <3>1. tasks[i].pc \in Writing => tasks[i].prov # p
      BY <2>2, <2>7 DEF JobsInv, StatusBelongsToTask
    <3>2. tasks'[j] = tasks[j]
      BY <1>0, <2>7 DEF TaskStep, Progress, Publish, GiveUp, Fail, EndTask, PushTerminal, TypeOK
    <3>3. status'[p] = status[p]
      BY <1>0, <1>1, <2>7, <3>1
      DEF TaskStep, Progress, Publish, GiveUp, Fail, EndTask, PushTerminal, TypeOK, Writing
    <3> QED BY <1>5, <2>3, <3>2, <3>3
  <2>8. ASSUME TaskStep(j) PROVE CameTo(j, s)'
    <3>1. EndTask(j)
      BY <1>5, <2>8 DEF TaskStep, Progress, Publish, GiveUp, Fail, PushTerminal
    <3>2. FinalState(j) = "COMPLETED" \/ (FinalState(j) = "CANCELLED" /\ p \notin KeepsCompleted)
      BY <1>5, <2>1 DEF FinalState, MarksCancelled
    <3> HIDE DEF FinalState
    <3>3. tasks'[j].pc = "ended" /\ tasks'[j].final = FinalState(j)
      BY <1>0, <3>1 DEF EndTask, TypeOK, Task
    <3> QED BY <1>2, <2>1, <3>2, <3>3 DEF CameTo
  <2>9. CASE UNCHANGED <<status, tasks>>
    BY <1>5, <2>3, <2>9
  <2>10. ASSUME NEW c \in Callers, FacadeStep(c) PROVE CameTo(j, s)'
    BY <2>4, <2>5, <2>6, <2>9, <2>10
    DEF FacadeStep, SelectProvider, StartRefused, PickProvider, CancelReturns
  <2> QED BY <2>7, <2>8, <2>9, <2>10 DEF JobsNext, ObserveRunning, SelectObserved, jobVars
<1> QED BY <1>1, <1>4, <1>5

\* The terminal cache tells what the job came to.
LEMMA CacheIsTrue ==
  ASSUME NEW j \in JobIds, HasTerminal(j)
  PROVE  CameTo(j, tasks[j].final)
BY DEF HasTerminal, CameTo

\* When nothing runs, the status that names a download tells what it came to.
LEMMA StatusIsTrue ==
  ASSUME RuntimeInv, StatusNamesItsTask, RunningProviders = {}, NEW p \in Providers,
         NEW j \in JobIds, status[p].job = j, tasks[j].kind = "download"
  PROVE  CameTo(j, status[p].state)
<1>0. TypeOK /\ JobsInv
  BY DEF RuntimeInv, JobsInv
<1>1. tasks[j].prov = p /\ tasks[j].pc # "unborn" /\ tasks[j].pc \in TaskPcs
  BY <1>0 DEF StatusNamesItsTask, TypeOK, Task, JobIds, NoJob
<1>2. status[p].running = FALSE
  BY <1>0 DEF RunningProviders, TypeOK, Status
<1>3. status[p].state \notin Unsettled
  BY <1>2 DEF RuntimeInv, StatusSettles
<1>4. CASE tasks[j].pc \in {"work", "returned", "failed"}
  BY <1>0, <1>1, <1>3, <1>4 DEF JobsInv, WritingStates, WritingState, Unsettled
<1>5. CASE tasks[j].pc = "published"
  <2>1. status[p].state = "COMPLETED"
    BY <1>0, <1>1, <1>3, <1>5 DEF JobsInv, WritingStates, WritingState, Unsettled
  <2> QED BY <1>1, <1>2, <1>5, <2>1 DEF CameTo
<1>6. CASE tasks[j].pc \in {"ended", "done"}
  BY <1>0, <1>1, <1>6 DEF JobsInv, EndedStates, CameTo
<1> QED BY <1>1, <1>4, <1>5, <1>6 DEF TaskPcs
\* The steps of the worker before it has a job, and after.
LEMMA WorkerWithoutJob ==
  ASSUME QueueTypeOK, WorkerStep, ~Request, ~Started, ~NotStarted, ~MarkRunning, ~PollTerminal, ~ReadStatus
  PROVE  worker'.pc \notin Awaiting /\ UNCHANGED facade
<1>1. /\ Idle.pc = "top"
      /\ \A s : [worker EXCEPT !.pc = s].pc = s
      /\ \A s, i : [worker EXCEPT !.pc = s, !.item = i].pc = s
  BY DEF Idle, QueueTypeOK
<1>2. CASE WorkerStops \/ WorkerTries \/ WorkerLocks \/ WorkerFindsNothing
  BY <1>1, <1>2 DEF WorkerStops, WorkerTries, WorkerLocks, WorkerFindsNothing, jobVars, Awaiting
<1>3. CASE Claim
  <2>1. PICK i : worker' = [worker EXCEPT !.pc = "claimed", !.item = i]
    BY <1>3 DEF Claim
  <2> QED BY <1>1, <1>3, <2>1 DEF Claim, jobVars, Awaiting
<1>4. CASE Activate
  <2>1. worker'.pc \in {"parse", "unreadable"}
    BY <1>1, <1>4 DEF Activate
  <2> QED BY <1>4, <2>1 DEF Activate, jobVars, Awaiting
<1>5. CASE FailUnreadable \/ Unclaim \/ FailStart \/ WriteResult \/ ClearActive
  BY <1>1, <1>5 DEF FailUnreadable, Unclaim, FailStart, WriteResult, ClearActive, jobVars, Awaiting
<1> QED BY <1>2, <1>3, <1>4, <1>5 DEF WorkerStep

\* Nobody else changes what the worker has in hand.
LEMMA OthersLeaveTheWorker ==
  ASSUME [Next]_vars, ~WorkerStep, ~Restart
  PROVE  UNCHANGED worker
<1>1. ASSUME ClientStep PROVE UNCHANGED worker
  BY <1>1 DEF ClientStep, Enqueue, Retry, Remove, CancelQueued, DirectStart, DirectReturns, CancelDirect, CancelActive
<1>2. ASSUME ShutdownStep \/ RuntimeStep \/ UNCHANGED vars PROVE UNCHANGED worker
  BY <1>2 DEF ShutdownStep, BeginShutdown, ReadActive, RecheckActive, RuntimeStep, queueVars, vars
<1>3. ASSUME NEW c \in Commanders, CallGoesOn(c) PROVE UNCHANGED worker
  BY <1>3 DEF CallGoesOn, MarkItem, PickToCancel, CancelGoesOn, CancelEnds, FinishItem, queueVars
<1> QED BY <1>1, <1>2, <1>3 DEF Next

\* The worker's calls and its job, over one step.
LEMMA WorkerStaysWithDownloads ==
  ASSUME QInv, WorkerDownloads, [Next]_vars
  PROVE  WorkerDownloads'
<1>0. /\ TypeOK /\ JobsInv /\ QueueTypeOK
      /\ {"worker", "client", "shutdown"} = Callers /\ Free # "worker" /\ Commanders = {"client", "shutdown"}
  BY QueueCallersAssumption DEF QInv, RuntimeInv, JobsInv, Commanders, Free
<1> DEFINE Calls == facade.by = "worker" => facade.step = "start" /\ facade.kind = "download"
           Waits == worker.pc \in Awaiting =>
                      worker.job \in JobIds /\ tasks[worker.job].kind = "download"
                        /\ tasks[worker.job].pc # "unborn"
<1>1. CASE Restart
  BY <1>0, <1>1 DEF Restart, RuntimeIsNew, WorkerDownloads, Idle, NoCall, Awaiting
<1>2. CASE ~Restart
  <2>1. [JobsNext]_jobVars
    BY <1>2, StepsOfTheRuntime
  <2>2. ASSUME UNCHANGED worker PROVE Waits'
    BY <2>1, <2>2, <1>0, TasksKeepTheirKind DEF WorkerDownloads
  <2>3. ASSUME worker'.pc \in Awaiting => worker.pc \in Awaiting, worker'.job = worker.job PROVE Waits'
    BY <2>1, <2>3, <1>0, TasksKeepTheirKind DEF WorkerDownloads
  <2>4. ASSUME UNCHANGED facade PROVE Calls'
    BY <2>4 DEF WorkerDownloads
  <2>5. ASSUME facade'.by # "worker" PROVE Calls'
    BY <2>5
  <2>6. CASE WorkerStep
    <3>1. CASE Request
      <4>1. facade'.step = "start" /\ facade'.kind = "download" /\ worker'.pc = "starting"
        BY <1>0, <3>1 DEF Request, SelectProvider, QueueTypeOK
      <4> QED BY <4>1 DEF WorkerDownloads, Awaiting
    <3>2. CASE Started
      <4>1. /\ nextJob \in JobIds /\ facade.by = "worker" /\ worker'.job = nextJob /\ worker'.pc = "started"
            /\ tasks'[nextJob].kind = facade.kind /\ tasks'[nextJob].pc = "work"
            /\ facade' = NoCall
        BY <1>0, <3>2 DEF Started, StartJob, QueueTypeOK, TypeOK
      <4>2. Waits'
        BY <4>1 DEF WorkerDownloads
      <4> QED BY <1>0, <4>1, <4>2, <2>5 DEF WorkerDownloads, NoCall
    <3>3. CASE NotStarted
      <4>1. facade' = NoCall /\ worker'.pc = "startFailed"
        BY <1>0, <3>3 DEF NotStarted, StartRefused, QueueTypeOK
      <4> QED BY <1>0, <4>1 DEF WorkerDownloads, NoCall, Awaiting
    <3>4. CASE MarkRunning \/ PollTerminal \/ ReadStatus
      <4>1. worker.pc \in Awaiting /\ worker'.job = worker.job /\ UNCHANGED facade
        BY <1>0, <3>4 DEF MarkRunning, PollTerminal, ReadStatus, QueueTypeOK, jobVars, Awaiting
      <4> QED BY <2>3, <2>4, <4>1 DEF WorkerDownloads
    <3>5. CASE ~Request /\ ~Started /\ ~NotStarted /\ ~(MarkRunning \/ PollTerminal \/ ReadStatus)
      <4>1. worker'.pc \notin Awaiting /\ UNCHANGED facade
        BY <1>0, <2>6, <3>5, WorkerWithoutJob
      <4> QED BY <2>4, <4>1 DEF WorkerDownloads
    <3> QED BY <3>1, <3>2, <3>3, <3>4, <3>5
  <2>7. CASE ClientStep
    <3>1. UNCHANGED worker
      BY <2>7 DEF ClientStep, Enqueue, Retry, Remove, CancelQueued, DirectStart, DirectReturns, CancelDirect,
        CancelActive
    <3>2. ASSUME NEW p \in Providers, NEW k \in Kinds, DirectStart(p, k) PROVE facade'.by # "worker"
      BY <3>2 DEF DirectStart, SelectProvider
    <3>3. ASSUME DirectReturns PROVE facade'.by # "worker"
      BY <1>0, <3>3 DEF DirectReturns, StartJob, StartRefused, NoCall
    <3>4. ASSUME CancelDirect PROVE facade'.by # "worker"
      BY <3>4 DEF CancelDirect, PickProvider, NoCall
    <3>5. ASSUME Enqueue \/ (\E i \in Items : Retry(i) \/ Remove(i) \/ CancelQueued(i)) \/ CancelActive
          PROVE  UNCHANGED facade
      BY <3>5 DEF Enqueue, Retry, Remove, CancelQueued, CancelActive, jobVars
    <3> QED BY <2>2, <2>4, <2>5, <2>7, <3>1, <3>2, <3>3, <3>4, <3>5 DEF WorkerDownloads, ClientStep
  <2>8. CASE ShutdownStep \/ RuntimeStep \/ UNCHANGED vars
    <3>1. UNCHANGED worker /\ UNCHANGED facade
      BY <2>8
      DEF ShutdownStep, BeginShutdown, ReadActive, RecheckActive, RuntimeStep, queueVars, jobVars, vars,
        ObserveRunning, SelectObserved, TaskStep, Progress, Publish, GiveUp, Fail, EndTask, PushTerminal
    <3> QED BY <2>2, <2>4, <3>1 DEF WorkerDownloads
  <2>9. ASSUME NEW c \in Commanders, CallGoesOn(c) PROVE WorkerDownloads'
    <3>1. UNCHANGED worker
      BY <2>9 DEF CallGoesOn, MarkItem, PickToCancel, CancelGoesOn, CancelEnds, FinishItem, queueVars
    <3>2. CASE MarkItem(c) \/ FinishItem(c)
      <4>1. UNCHANGED facade
        BY <3>2 DEF MarkItem, FinishItem, jobVars
      <4> QED BY <2>2, <2>4, <3>1, <4>1 DEF WorkerDownloads
    <3>3. CASE PickProvider(c) \/ CancelReturns(c)
      <4>0. c # "worker" /\ NoCall.by # "worker"
        BY <1>0 DEF NoCall
      <4>1. PickProvider(c) => facade'.by = c
        BY DEF PickProvider, NoCall
      <4>2. CancelReturns(c) => facade' = NoCall
        BY DEF CancelReturns
      <4>3. facade'.by # "worker"
        BY <3>3, <4>0, <4>1, <4>2
      <4> QED BY <2>2, <2>5, <3>1, <4>3 DEF WorkerDownloads
    <3>4. CASE FlagTask(c) \/ MarkCancelling(c)
      <4>1. facade.by = c /\ facade'.by = facade.by
        BY <1>0, <3>4 DEF FlagTask, MarkCancelling, TypeOK, Call
      <4> QED BY <1>0, <2>2, <2>5, <3>1, <4>1 DEF WorkerDownloads
    <3> QED BY <2>9, <3>2, <3>3, <3>4 DEF CallGoesOn, PickToCancel, CancelGoesOn, CancelEnds
  <2> QED BY <1>2, <2>6, <2>7, <2>8, <2>9 DEF Next
<1> QED BY <1>1, <1>2

\* Only a poll puts a result into the worker's hand, and nothing changes it there.
LEMMA ReportStaysTrue ==
  ASSUME QInv, QInv', ReportInv, [Next]_vars
  PROVE  ReportIsTrue'
<1>0. QueueTypeOK /\ JobsInv /\ JobsInv' /\ RuntimeInv
  BY DEF QInv, RuntimeInv
<1>1. CASE Restart
  BY <1>1 DEF Restart, Idle, ReportIsTrue
<1>2. CASE ~Restart /\ UNCHANGED worker
  <2> SUFFICES ASSUME worker.pc = "write", worker.seen # "FAILED"
               PROVE  CameTo(worker.job, worker.seen)'
    BY <1>2 DEF ReportIsTrue
  <2>1. worker.job \in JobIds /\ worker.seen \in JobStates
    BY <1>0 DEF ReportInv, WorkerDownloads, Awaiting, QueueTypeOK
  <2>2. CameTo(worker.job, worker.seen)
    BY DEF ReportInv, ReportIsTrue
  <2>3. [JobsNext]_jobVars
    BY <1>2, StepsOfTheRuntime
  <2>4. PICK j \in JobIds, s \in JobStates : j = worker.job /\ s = worker.seen
    BY <2>1
  <2>5. CameTo(j, s)'
    BY <1>0, <2>2, <2>3, <2>4, ResultStays
  <2> QED BY <1>2, <2>4, <2>5 DEF CameTo
<1>3. CASE PollTerminal
  <2>1. /\ worker.job \in JobIds /\ UNCHANGED <<status, tasks>>
        /\ worker'.pc = "write" => HasTerminal(worker.job) /\ worker'.job = worker.job
                                     /\ worker'.seen = tasks[worker.job].final
    BY <1>0, <1>3 DEF PollTerminal, ReportInv, WorkerDownloads, Awaiting, QueueTypeOK, jobVars
  <2> QED BY <2>1, CacheIsTrue DEF ReportIsTrue, CameTo
<1>4. CASE ReadStatus
  <2>1. /\ worker.job \in JobIds /\ tasks[worker.job].kind = "download" /\ UNCHANGED <<status, tasks>>
        /\ selected \in Providers
        /\ worker'.pc = "write" /\ worker'.seen # "FAILED" =>
             /\ RunningProviders = {} /\ worker'.job = worker.job
             /\ status[selected].job = worker.job /\ worker'.seen = status[selected].state
    BY <1>0, <1>4 DEF ReadStatus, ReportInv, WorkerDownloads, Awaiting, QueueTypeOK, jobVars, JobsInv, TypeOK
  <2> SUFFICES ASSUME worker'.pc = "write", worker'.seen # "FAILED"
               PROVE  CameTo(worker.job, status[selected].state)
    BY <2>1 DEF ReportIsTrue, CameTo
  <2> QED BY <1>0, <2>1, StatusIsTrue DEF ReportInv
<1>5. CASE WorkerStep /\ ~PollTerminal /\ ~ReadStatus
  <2>1. worker'.pc # "write"
    <3>1. CASE Request \/ Started \/ NotStarted \/ MarkRunning
      BY <1>0, <3>1 DEF Request, Started, NotStarted, MarkRunning, QueueTypeOK
    <3> QED BY <1>0, <1>5, <3>1, WorkerWithoutJob DEF Awaiting
  <2> QED BY <2>1 DEF ReportIsTrue
<1>6. CASE ~WorkerStep /\ ~Restart
  BY <1>2, <1>6, OthersLeaveTheWorker
<1> QED BY <1>1, <1>3, <1>4, <1>5, <1>6

\* Every step keeps it.
LEMMA ReportStep == QInv /\ QInv' /\ ReportInv /\ [Next]_vars => ReportInv'
<1> SUFFICES ASSUME QInv, QInv', ReportInv, [Next]_vars PROVE ReportInv'
  OBVIOUS
<1>1. StatusNamesItsTask'
  <2>1. CASE Restart
    BY <2>1 DEF Restart, RuntimeIsNew, StatusNamesItsTask
  <2>2. CASE ~Restart
    BY <2>2, StepsOfTheRuntime, NamesStay DEF ReportInv, QInv, RuntimeInv
  <2> QED BY <2>1, <2>2
<1> QED BY <1>1, WorkerStaysWithDownloads, ReportStaysTrue DEF ReportInv

\* What the worker writes into a row at the end of a job is what that very job came to, whoever
\* used the provider, cancelled or was relaunched since (worker_loop: terminal_status, then the
\* status if it names the job); FAILED may also mean that the job was lost.
THEOREM WorkerTellsTheTruth == Spec => WorkerReportsItsJob
<1>1. QueueInit => ReportInv
  BY QueueCallersAssumption
  DEF QueueInit, JobsInit, ReportInv, StatusNamesItsTask, WorkerDownloads, ReportIsTrue, Idle, NoCall, Free, Awaiting
<1>2. QInv /\ QInv' /\ ReportInv /\ [Next]_vars => ReportInv'
  BY ReportStep
<1>3. ReportInv =>
        LET t == tasks[worker.job] IN
        worker.pc = "write" /\ worker'.pc = "clear" /\ worker.seen # "FAILED"
          => \/ t.pc = "published" /\ worker.seen = "COMPLETED"
             \/ t.pc \in {"ended", "done"} /\ t.final = worker.seen
             \/ t.pc \in {"ended", "done"} /\ worker.seen = "COMPLETED"
                  /\ t.final = "CANCELLED" /\ t.prov \notin KeepsCompleted
  BY DEF ReportInv, ReportIsTrue, CameTo
<1> QED BY <1>1, <1>2, <1>3, QueueInvariant, PTL DEF Spec, WorkerReportsItsJob
=============================================================================
