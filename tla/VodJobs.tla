------------------------------ MODULE VodJobs ------------------------------
(***************************************************************************)
(* The VOD job runtime: the platform-neutral facade (platform/vod.rs) in   *)
(* front of one job manager per provider (platform/{soop,chzzk,kick}/      *)
(* vod.rs).  A provider owns one status record and at most one spawned     *)
(* task; the facade's lifecycle mutex orders starts and cancellations; the *)
(* spawned tasks, which hold no lock of the facade, write the status of    *)
(* their provider at any time.                                             *)
(*                                                                         *)
(* Every await point between two reads or writes of shared state is a step *)
(* boundary.  Progress texts, percentages and output names are left out:   *)
(* ANALYZING, REFRESHING, DOWNLOADING and MERGING are the state WORKING.   *)
(***************************************************************************)
EXTENDS Naturals

CONSTANTS
  Providers,  \* the providers in use, a subset of AllProviders
  Callers,    \* the tasks of the runtime that call the facade
  MaxJobs     \* bound: how many job ids are ever drawn

AllProviders == {"SOOP", "CHZZK", "KICK"}
Free  == "free"     \* no caller holds the facade's lifecycle mutex
NoJob == 0
Nothing == "nothing"  \* no status() call is about to write `selected`
JobIds == 1 .. MaxJobs

ASSUME ProvidersAssumption == Providers \subseteq AllProviders /\ "SOOP" \in Providers
ASSUME CallersAssumption   == Free \notin Callers
ASSUME MaxJobsAssumption   == MaxJobs \in Nat

\* SOOP and CHZZK clear `running` together with READY and COMPLETED; KICK
\* leaves it to the end of the task.
EndsEarly == {"SOOP", "CHZZK"}
\* CHZZK and KICK do not turn a COMPLETED status into CANCELLED.
KeepsCompleted == {"CHZZK", "KICK"}

JobStates == {"IDLE", "STARTING", "WORKING", "CANCELLING",
              "READY", "COMPLETED", "FAILED", "CANCELLED"}

VARIABLES
  status,    \* [Providers -> status record]: what status() returns
  handle,    \* [Providers -> the job whose JoinHandle the manager holds]
  tasks,     \* [JobIds -> task record]
  nextJob,   \* the next fresh job id
  selected,  \* the provider the facade last selected
  observed,  \* the provider a status() call saw running and will select
  facade     \* the facade call in progress, if any

jobVars == <<status, handle, tasks, nextJob, selected, observed, facade>>

TaskPcs == {"unborn", "work", "published", "returned", "failed", "ended", "done"}
Kinds   == {"analyze", "download"}
Steps   == {"start", "flag", "mark", "await"}

Status == [job : JobIds \cup {NoJob}, state : JobStates, running : BOOLEAN]
Task   == [prov : Providers, kind : Kinds, pc : TaskPcs, cancel : BOOLEAN,
           final : JobStates]
Call   == [by : Callers \cup {Free}, step : Steps, prov : Providers, kind : Kinds,
           task : JobIds \cup {NoJob}]

NoTask == [prov |-> "SOOP", kind |-> "analyze", pc |-> "unborn", cancel |-> FALSE,
           final |-> "IDLE"]
NoCall == [by |-> Free, step |-> "start", prov |-> "SOOP", kind |-> "analyze",
           task |-> NoJob]

TypeOK ==
  /\ status \in [Providers -> Status]
  /\ handle \in [Providers -> JobIds \cup {NoJob}]
  /\ tasks \in [JobIds -> Task]
  /\ nextJob \in 1 .. MaxJobs + 1
  /\ selected \in Providers
  /\ observed \in Providers \cup {Nothing}
  /\ facade \in Call

JobsInit ==
  /\ status = [p \in Providers |-> [job |-> NoJob, state |-> "IDLE", running |-> FALSE]]
  /\ handle = [p \in Providers |-> NoJob]
  /\ tasks = [j \in JobIds |-> NoTask]
  /\ nextJob = 1
  /\ selected = "SOOP"
  /\ observed = Nothing
  /\ facade = NoCall

----------------------------------------------------------------------------
(* What the facade and its callers read.  status() is called without any   *)
(* lock of the facade: it looks for a running provider and only then, after *)
(* waiting for the mutex of `selected`, writes it.  One such call at a time *)
(* is modelled; the rest of them only read.                                *)

\* running_provider(): the providers whose status says a job is running.
RunningProviders == {p \in Providers : status[p].running}

\* !task.is_finished(), for the task a JoinHandle stands for.
Unfinished(j) == j # NoJob /\ tasks[j].pc \notin {"unborn", "done"}

\* terminal_status(job): what the terminal cache of the provider holds.
HasTerminal(j) == j # NoJob /\ tasks[j].pc = "done"

\* status(): running_provider() found p.
ObserveRunning ==
  /\ observed = Nothing
  /\ observed' \in RunningProviders
  /\ UNCHANGED <<status, handle, tasks, nextJob, selected, facade>>

\* status(): p is selected, whatever has happened to its job in the meantime.
SelectObserved ==
  /\ observed # Nothing
  /\ selected' = observed
  /\ observed' = Nothing
  /\ UNCHANGED <<status, handle, tasks, nextJob, facade>>

----------------------------------------------------------------------------
(* Starting a job: analyze() and download().                               *)

\* Mutant: only the requested provider has to be idle.
SelectIdleOfItsOwn(c, p, k) ==
  /\ nextJob \in JobIds
  /\ facade.by = Free
  /\ ~status[p].running
  /\ selected' = p
  /\ facade' = [by |-> c, step |-> "start", prov |-> p, kind |-> k, task |-> NoJob]
  /\ UNCHANGED <<status, handle, tasks, nextJob, observed>>

\* lifecycle.lock(), ensure_idle() and the write of `selected`.
SelectProvider(c, p, k) ==
  /\ nextJob \in JobIds        \* bound
  /\ facade.by = Free
  /\ RunningProviders = {}
  /\ selected' = p
  /\ facade' = [by |-> c, step |-> "start", prov |-> p, kind |-> k, task |-> NoJob]
  /\ UNCHANGED <<status, handle, tasks, nextJob, observed>>

\* start_job() refuses while the provider's previous task has not finished,
\* although its status may already say that nothing is running.
StartRefused(c) ==
  /\ facade.by = c /\ facade.step = "start"
  /\ Unfinished(handle[facade.prov])
  /\ facade' = NoCall
  /\ UNCHANGED <<status, handle, tasks, nextJob, selected, observed>>

StartJob(c) ==
  LET p == facade.prov IN
  /\ facade.by = c /\ facade.step = "start"
  /\ ~Unfinished(handle[p])
  /\ nextJob \in JobIds
  /\ status' = [status EXCEPT ![p] =
                  [job |-> nextJob, state |-> "STARTING", running |-> TRUE]]
  /\ tasks' = [tasks EXCEPT ![nextJob] =
                  [prov |-> p, kind |-> facade.kind, pc |-> "work", cancel |-> FALSE,
                   final |-> "IDLE"]]
  /\ handle' = [handle EXCEPT ![p] = nextJob]
  /\ nextJob' = nextJob + 1
  /\ facade' = NoCall
  /\ UNCHANGED <<selected, observed>>

----------------------------------------------------------------------------
(* cancel(): pick the provider, raise its flag, write CANCELLING, await.   *)

PickProvider(c) ==
  /\ facade.by = Free
  /\ \E p \in Providers :
       /\ IF RunningProviders = {} THEN p = selected ELSE p \in RunningProviders
       /\ selected' = p
       /\ facade' = [NoCall EXCEPT !.by = c, !.step = "flag", !.prov = p]
  /\ UNCHANGED <<status, handle, tasks, nextJob, observed>>

\* Mutant: the handle is taken before its flag is raised.
TakeWithoutFlag(c) ==
  LET p == facade.prov IN
  /\ facade.by = c /\ facade.step = "flag"
  /\ handle' = [handle EXCEPT ![p] = NoJob]
  /\ facade' = [facade EXCEPT !.step = "mark", !.task = handle[p]]
  /\ UNCHANGED <<status, tasks, nextJob, selected, observed>>

FlagTask(c) ==
  LET p == facade.prov
      j == handle[p] IN
  /\ facade.by = c /\ facade.step = "flag"
  /\ tasks' = IF Unfinished(j) THEN [tasks EXCEPT ![j].cancel = TRUE] ELSE tasks
  /\ handle' = [handle EXCEPT ![p] = NoJob]
  /\ facade' = [facade EXCEPT !.step = "mark", !.task = j]
  /\ UNCHANGED <<status, nextJob, selected, observed>>

\* Mutant: the call goes on only if there was something to mark.
MarkOnlyRunning(c) ==
  LET p == facade.prov IN
  /\ facade.by = c /\ facade.step = "mark" /\ status[p].running
  /\ status' = [status EXCEPT ![p].state = "CANCELLING"]
  /\ facade' = [facade EXCEPT !.step = "await"]
  /\ UNCHANGED <<handle, tasks, nextJob, selected, observed>>

MarkCancelling(c) ==
  LET p == facade.prov IN
  /\ facade.by = c /\ facade.step = "mark"
  /\ status' = IF status[p].running
               THEN [status EXCEPT ![p].state = "CANCELLING"] ELSE status
  /\ facade' = [facade EXCEPT !.step = "await"]
  /\ UNCHANGED <<handle, tasks, nextJob, selected, observed>>

\* Mutant: cancel() returns without awaiting the task.
ReturnAtOnce(c) ==
  /\ facade.by = c /\ facade.step = "await"
  /\ facade' = NoCall
  /\ UNCHANGED <<status, handle, tasks, nextJob, selected, observed>>

\* task.await returned; the caller gets status[facade.prov] and the mutex is free.
CancelReturns(c) ==
  /\ facade.by = c /\ facade.step = "await"
  /\ ~Unfinished(facade.task)
  /\ facade' = NoCall
  /\ UNCHANGED <<status, handle, tasks, nextJob, selected, observed>>

----------------------------------------------------------------------------
(* The spawned task of a job.                                              *)

\* set_status(ANALYZING | REFRESHING | DOWNLOADING | MERGING): also over CANCELLING.
Progress(j) ==
  /\ tasks[j].pc = "work"
  /\ status[tasks[j].prov].state # "WORKING"
  /\ status' = [status EXCEPT ![tasks[j].prov].state = "WORKING"]
  /\ UNCHANGED <<handle, tasks, nextJob, selected, observed, facade>>

\* The last status write of a run that succeeds: READY or COMPLETED.  The
\* cancel flag is read before the result is published, never with this write.
Publish(j) ==
  LET p == tasks[j].prov IN
  /\ tasks[j].pc = "work"
  /\ status' = [status EXCEPT
       ![p].state = IF tasks[j].kind = "download" THEN "COMPLETED" ELSE "READY",
       ![p].running = status[p].running /\ p \notin EndsEarly]
  /\ tasks' = [tasks EXCEPT ![j].pc = "published"]
  /\ UNCHANGED <<handle, nextJob, selected, observed, facade>>

\* run_analysis/run_download notice the flag and return without a result.
GiveUp(j) ==
  /\ tasks[j].pc = "work" /\ tasks[j].cancel
  /\ tasks' = [tasks EXCEPT ![j].pc = "returned"]
  /\ UNCHANGED <<status, handle, nextJob, selected, observed, facade>>

Fail(j) ==
  /\ tasks[j].pc = "work"
  /\ tasks' = [tasks EXCEPT ![j].pc = "failed"]
  /\ UNCHANGED <<status, handle, nextJob, selected, observed, facade>>

\* Mutant: every provider follows the rule of SOOP.
FlagDecides(j) == tasks[j].cancel

\* should_mark_cancelled(), and the unconditional rule of SOOP.
MarksCancelled(j) ==
  /\ tasks[j].cancel
  /\ tasks[j].prov \in KeepsCompleted => status[tasks[j].prov].state # "COMPLETED"

\* Mutant: the flag only turns a failure into a cancellation.
ErrorDecides(j) ==
  IF tasks[j].pc # "failed" THEN status[tasks[j].prov].state
  ELSE IF tasks[j].cancel THEN "CANCELLED" ELSE "FAILED"

FinalState(j) ==
  IF MarksCancelled(j) THEN "CANCELLED"
  ELSE IF tasks[j].pc = "failed" THEN "FAILED" ELSE status[tasks[j].prov].state

\* Mutant: an error leaves the task before its final write.
EndUnlessFailed(j) ==
  LET p == tasks[j].prov IN
  /\ tasks[j].pc \in {"published", "returned"}
  /\ status' = [status EXCEPT ![p].running = FALSE, ![p].state = FinalState(j)]
  /\ tasks' = [tasks EXCEPT ![j].pc = "ended", ![j].final = FinalState(j)]
  /\ UNCHANGED <<handle, nextJob, selected, observed, facade>>

EndTask(j) ==
  LET p == tasks[j].prov IN
  /\ tasks[j].pc \in {"published", "returned", "failed"}
  /\ status' = [status EXCEPT ![p].running = FALSE, ![p].state = FinalState(j)]
  /\ tasks' = [tasks EXCEPT ![j].pc = "ended", ![j].final = FinalState(j)]
  /\ UNCHANGED <<handle, nextJob, selected, observed, facade>>

\* The terminal cache gets the final status; then the task is finished.
PushTerminal(j) ==
  /\ tasks[j].pc = "ended"
  /\ tasks' = [tasks EXCEPT ![j].pc = "done"]
  /\ UNCHANGED <<status, handle, nextJob, selected, observed, facade>>

TaskStep(j) ==
  Progress(j) \/ Publish(j) \/ GiveUp(j) \/ Fail(j) \/ EndTask(j) \/ PushTerminal(j)

----------------------------------------------------------------------------
FacadeStep(c) ==
  \/ \E p \in Providers, k \in Kinds : SelectProvider(c, p, k)
  \/ StartRefused(c) \/ StartJob(c)
  \/ PickProvider(c) \/ FlagTask(c) \/ MarkCancelling(c) \/ CancelReturns(c)

JobsNext ==
  \/ \E c \in Callers : FacadeStep(c)
  \/ \E j \in JobIds : TaskStep(j)
  \/ ObserveRunning \/ SelectObserved

\* A task ends (every child process and request has a timeout or the cancel
\* flag), and the runtime schedules the caller that holds the facade.
JobsFairness ==
  /\ \A c \in Callers : WF_jobVars(StartRefused(c) \/ StartJob(c) \/ FlagTask(c)
                                     \/ MarkCancelling(c) \/ CancelReturns(c))
  /\ \A j \in JobIds : WF_jobVars(Publish(j) \/ GiveUp(j) \/ Fail(j)
                                    \/ EndTask(j) \/ PushTerminal(j))

----------------------------------------------------------------------------
(* Properties.                                                             *)

Writing == {"work", "published", "returned", "failed"}

\* At most one provider reports a running job: ensure_idle() and the facade's
\* mutex make the VOD runtime a single slot (platform/vod.rs, ensure_idle).
OneRunning == \A p, q \in RunningProviders : p = q

\* Two runs never download or analyse at the same time, also when a task whose
\* status is already idle is still unwinding (start_job, is_finished).
OneWorking == \A i, j \in JobIds : tasks[i].pc = "work" /\ tasks[j].pc = "work" => i = j

\* A task that may still write the provider's status finds its own job in it,
\* never the status of a job that replaced it.
StatusBelongsToTask ==
  \A j \in JobIds : tasks[j].pc \in Writing => status[tasks[j].prov].job = j

\* `running` is never left set without a task that will clear it: otherwise
\* every later start would be refused until the process restarts.
RunningIsLive ==
  \A p \in RunningProviders : \E j \in JobIds :
     status[p].job = j /\ tasks[j].prov = p /\ tasks[j].pc \in Writing

\* The two places a finished job's result is read from, the terminal cache and
\* the provider's status, agree as long as the status still names the job.
TerminalAgreesWithStatus ==
  \A j \in JobIds : /\ tasks[j].pc = "done"
                     /\ status[tasks[j].prov].job = j
                     => status[tasks[j].prov].state = tasks[j].final

\* cancel() returns only when no VOD job is running any more: callers (queue
\* cancel, shutdown) rely on the returned status being final.
CancelQuiesces ==
  [][facade.by # Free /\ facade.step = "await" /\ facade' = NoCall
       => RunningProviders' = {}]_jobVars

\* A download of provider p that reached COMPLETED ends as COMPLETED.
CompletedKept(p) ==
  \A j \in JobIds :
    /\ tasks[j].prov = p /\ tasks[j].kind = "download"
    /\ tasks[j].pc = "published" /\ tasks'[j].pc = "ended"
    => tasks'[j].final = "COMPLETED"

\* CHZZK keeps a published download COMPLETED against a cancel that arrives late
\* (test completed_state_wins_over_late_cancellation).
ChzzkCompletedWins == [][CompletedKept("CHZZK")]_jobVars

\* The same rule for KICK, whose status is still running when it says COMPLETED.
KickCompletedWins == [][CompletedKept("KICK")]_jobVars

\* No call of the facade keeps its mutex for ever, a cancellation that awaits its
\* task included.
FacadeIsReleased == (facade.by # Free) ~> (facade.by = Free)

----------------------------------------------------------------------------
(* Why the properties hold: the inductive invariant of the proofs.         *)

Calling == facade.by # Free

\* Job ids are drawn in order and never twice.
JobsAreBornInOrder ==
  \A j \in JobIds : tasks[j].pc = "unborn" <=> nextJob <= j

\* A running status names the task that will clear it ...
RunningHasTask ==
  \A p \in RunningProviders :
    /\ status[p].job \in JobIds
    /\ tasks[status[p].job].prov = p
    /\ tasks[status[p].job].pc \in Writing

\* ... and a task at work is always reported as running.
WorkIsRunning ==
  \A j \in JobIds : tasks[j].pc = "work" => status[tasks[j].prov].running

\* A task that has not finished is held by its manager or by the cancellation
\* that awaits it: start_job() cannot overlook it.
UnfinishedIsHeld ==
  \A j \in JobIds : Unfinished(j) =>
    \/ handle[tasks[j].prov] = j
    \/ /\ Calling /\ facade.step \in {"mark", "await"}
       /\ facade.prov = tasks[j].prov /\ facade.task = j

\* Nothing runs between ensure_idle() and start_job().
StartFindsIdle == Calling /\ facade.step = "start" => RunningProviders = {}

\* What runs during a cancellation is what the cancellation is about.
CancelCoversRunning ==
  /\ Calling /\ facade.step # "start" => RunningProviders \subseteq {facade.prov}
  /\ Calling /\ facade.step \in {"mark", "await"} => handle[facade.prov] = NoJob

\* Which states a task leaves in the status on its way to the final one.
WritingState(j) ==
  LET s == status[tasks[j].prov] IN
  /\ tasks[j].pc \in {"work", "returned", "failed"}
       => s.state \in {"STARTING", "WORKING", "CANCELLING"}
  /\ tasks[j].pc = "returned" => tasks[j].cancel
  /\ tasks[j].pc = "published" =>
       \/ s.state = "COMPLETED"
       \/ s.state = "READY" /\ tasks[j].kind = "analyze"
       \/ s.state = "CANCELLING" /\ tasks[j].cancel /\ tasks[j].prov \notin EndsEarly
  /\ tasks[j].pc = "published" /\ tasks[j].prov \in EndsEarly => ~s.running

WritingStates == \A j \in JobIds : WritingState(j)

\* CANCELLING is only written over a job whose flag is up.
MarkFindsFlag ==
  Calling /\ facade.step = "mark" =>
    \A p \in RunningProviders : tasks[status[p].job].cancel

EndedStates ==
  \A j \in JobIds : tasks[j].pc \in {"ended", "done"} =>
    /\ tasks[j].final \in {"READY", "COMPLETED", "FAILED", "CANCELLED"}
    /\ status[tasks[j].prov].job = j => status[tasks[j].prov].state = tasks[j].final

\* Together with the properties above, every step keeps these facts.
JobsInv ==
  /\ TypeOK /\ OneRunning /\ StatusBelongsToTask
  /\ JobsAreBornInOrder /\ RunningHasTask /\ WorkIsRunning /\ UnfinishedIsHeld
  /\ StartFindsIdle /\ CancelCoversRunning /\ WritingStates /\ MarkFindsFlag
  /\ EndedStates

----------------------------------------------------------------------------
JobsSpec == JobsInit /\ [][JobsNext]_jobVars
FairJobsSpec == JobsSpec /\ JobsFairness
=============================================================================
