--------------------------- MODULE VodJobsProofs ---------------------------
(***************************************************************************)
(* Proofs about the VOD job runtime for every set of callers, every number *)
(* of jobs and every set of providers in use.  JobsInv is inductive: one   *)
(* lemma per action says that the action keeps it.                         *)
(***************************************************************************)
EXTENDS VodJobsSlot, TLAPS

\* The initial state satisfies the invariant: no provider reports a job.
LEMMA InitEstablishesInv == JobsInit => JobsInv
<1> SUFFICES ASSUME JobsInit PROVE JobsInv
  OBVIOUS
<1> USE ProvidersAssumption, CallersAssumption, MaxJobsAssumption
        DEF JobsInit, NoTask, NoCall
<1>1. TypeOK
  BY DEF TypeOK, Status, Task, Call, JobStates, TaskPcs, Kinds, Steps, JobIds, Free
<1>2. /\ OneRunning /\ StatusBelongsToTask /\ RunningHasTask
      /\ WorkIsRunning /\ UnfinishedIsHeld /\ WritingStates /\ EndedStates
  BY DEF OneRunning, RunningProviders, StatusBelongsToTask, RunningHasTask,
         WorkIsRunning, UnfinishedIsHeld, Unfinished, WritingStates, WritingState, EndedStates, Writing
<1>3. JobsAreBornInOrder
  BY DEF JobsAreBornInOrder, JobIds
<1>4. StartFindsIdle /\ CancelCoversRunning /\ MarkFindsFlag
  BY DEF StartFindsIdle, CancelCoversRunning, MarkFindsFlag, Calling
<1> QED
  BY <1>1, <1>2, <1>3, <1>4 DEF JobsInv

\* A fresh job finds its provider's status and handle unused: no task that has
\* not finished belongs to the provider, and nothing runs anywhere.
LEMMA StartJobKeepsInv ==
  ASSUME NEW c \in Callers, JobsInv, StartJob(c)
  PROVE  JobsInv'
<1> DEFINE p == facade.prov
<1> USE CallersAssumption, MaxJobsAssumption DEF StartJob
<1>0. TypeOK /\ Calling
  BY DEF JobsInv, Calling
<1>1. /\ p \in Providers /\ nextJob \in JobIds /\ nextJob # NoJob
      /\ nextJob + 1 \in 1 .. MaxJobs + 1
  BY <1>0 DEF TypeOK, Call, JobIds, NoJob
<1>2. TypeOK'
  <2>1. [job |-> nextJob, state |-> "STARTING", running |-> TRUE] \in Status
    BY <1>1 DEF Status, JobStates
  <2>2. [prov |-> p, kind |-> facade.kind, pc |-> "work", cancel |-> FALSE,
         final |-> "IDLE"] \in Task
    BY <1>0, <1>1 DEF Task, TypeOK, Call, TaskPcs, JobStates
  <2>3. NoCall \in Call
    BY ProvidersAssumption DEF NoCall, Call, Steps, Kinds
  <2> QED
    BY <1>0, <1>1, <2>1, <2>2, <2>3 DEF TypeOK
<1>3. tasks[nextJob].pc = "unborn"
  BY <1>1 DEF JobsInv, JobsAreBornInOrder, JobIds
<1>4. \A q \in Providers : ~status[q].running
  BY <1>0 DEF JobsInv, StartFindsIdle, RunningProviders
<1>5. \A j \in JobIds : tasks[j].prov = p => ~Unfinished(j)
  BY <1>0 DEF JobsInv, UnfinishedIsHeld
<1>6. RunningProviders' = {p}
  BY <1>0, <1>1, <1>4 DEF RunningProviders, TypeOK
<1>7. OneRunning' /\ RunningHasTask' /\ WorkIsRunning'
  BY <1>0, <1>1, <1>4, <1>6
  DEF OneRunning, RunningHasTask, TypeOK, Writing, JobsInv, WorkIsRunning
<1>8. \A j \in JobIds \ {nextJob} :
        tasks'[j] = tasks[j] /\ (Unfinished(j) => tasks[j].prov # p)
  BY <1>0, <1>1, <1>5 DEF TypeOK
<1>9. /\ tasks'[nextJob].prov = p /\ tasks'[nextJob].pc = "work"
      /\ status'[p].job = nextJob /\ status'[p].state = "STARTING"
      /\ handle'[p] = nextJob
      /\ \A q \in Providers \ {p} : status'[q] = status[q] /\ handle'[q] = handle[q]
  BY <1>0, <1>1 DEF TypeOK
<1>10. \A j \in JobIds : tasks[j].pc \in Writing => Unfinished(j)
  BY DEF Writing, Unfinished, JobIds, NoJob
<1>11. StatusBelongsToTask'
  BY <1>0, <1>1, <1>8, <1>9, <1>10 DEF JobsInv, StatusBelongsToTask, TypeOK, Task
<1>12. UnfinishedIsHeld'
  BY <1>0, <1>1, <1>8, <1>9 DEF JobsInv, UnfinishedIsHeld, Unfinished, TypeOK, Task
<1>13. JobsAreBornInOrder'
  BY <1>0, <1>1 DEF JobsInv, JobsAreBornInOrder, TypeOK, JobIds
<1>14. StartFindsIdle' /\ CancelCoversRunning' /\ MarkFindsFlag'
  BY DEF StartFindsIdle, CancelCoversRunning, MarkFindsFlag, Calling, NoCall
<1>15. WritingStates'
  BY <1>0, <1>1, <1>8, <1>9, <1>10 DEF JobsInv, WritingStates, WritingState, TypeOK, Task, Writing
<1>16. EndedStates'
  BY <1>0, <1>1, <1>8, <1>9 DEF JobsInv, EndedStates, TypeOK, Task
<1> QED
  BY <1>2, <1>7, <1>11, <1>12, <1>13, <1>14, <1>15, <1>16 DEF JobsInv

\* The facade's steps that only move the call along leave status and tasks alone.
LEMMA SelectProviderKeepsInv ==
  ASSUME NEW c \in Callers, NEW p \in Providers, NEW k \in Kinds,
         JobsInv, SelectProvider(c, p, k)
  PROVE  JobsInv'
<1> USE CallersAssumption DEF SelectProvider, JobsInv
<1>1. TypeOK'
  BY DEF TypeOK, Call, Steps
<1>2. /\ OneRunning' /\ StatusBelongsToTask' /\ JobsAreBornInOrder' /\ RunningHasTask'
      /\ WorkIsRunning' /\ WritingStates' /\ EndedStates'
  BY DEF OneRunning, RunningProviders, StatusBelongsToTask, JobsAreBornInOrder,
         RunningHasTask, WorkIsRunning, WritingStates, WritingState, EndedStates
<1>3. UnfinishedIsHeld'
  BY DEF UnfinishedIsHeld, Unfinished, Calling
<1>4. StartFindsIdle' /\ CancelCoversRunning' /\ MarkFindsFlag'
  BY DEF StartFindsIdle, CancelCoversRunning, MarkFindsFlag, Calling, RunningProviders
<1> QED
  BY <1>1, <1>2, <1>3, <1>4

LEMMA StartRefusedKeepsInv ==
  ASSUME NEW c \in Callers, JobsInv, StartRefused(c)
  PROVE  JobsInv'
<1> USE CallersAssumption DEF StartRefused, JobsInv
<1>1. TypeOK'
  BY ProvidersAssumption DEF TypeOK, NoCall, Call, Steps, Kinds
<1>2. /\ OneRunning' /\ StatusBelongsToTask' /\ JobsAreBornInOrder' /\ RunningHasTask'
      /\ WorkIsRunning' /\ WritingStates' /\ EndedStates'
  BY DEF OneRunning, RunningProviders, StatusBelongsToTask, JobsAreBornInOrder,
         RunningHasTask, WorkIsRunning, WritingStates, WritingState, EndedStates
<1>3. UnfinishedIsHeld'
  BY DEF UnfinishedIsHeld, Unfinished, Calling
<1>4. StartFindsIdle' /\ CancelCoversRunning' /\ MarkFindsFlag'
  BY DEF StartFindsIdle, CancelCoversRunning, MarkFindsFlag, Calling, NoCall
<1> QED
  BY <1>1, <1>2, <1>3, <1>4

LEMMA PickProviderKeepsInv ==
  ASSUME NEW c \in Callers, JobsInv, PickProvider(c)
  PROVE  JobsInv'
<1> USE CallersAssumption DEF PickProvider, JobsInv
<1>1. TypeOK'
  BY ProvidersAssumption DEF TypeOK, NoCall, Call, Steps, Kinds
<1>2. /\ OneRunning' /\ StatusBelongsToTask' /\ JobsAreBornInOrder' /\ RunningHasTask'
      /\ WorkIsRunning' /\ WritingStates' /\ EndedStates'
  BY DEF OneRunning, RunningProviders, StatusBelongsToTask, JobsAreBornInOrder,
         RunningHasTask, WorkIsRunning, WritingStates, WritingState, EndedStates
<1>3. UnfinishedIsHeld'
  BY DEF UnfinishedIsHeld, Unfinished, Calling
<1>4. facade'.step = "flag" /\ RunningProviders' \subseteq {facade'.prov}
  BY DEF OneRunning, RunningProviders, NoCall
<1>5. StartFindsIdle' /\ CancelCoversRunning' /\ MarkFindsFlag'
  BY <1>4 DEF StartFindsIdle, CancelCoversRunning, MarkFindsFlag
<1> QED
  BY <1>1, <1>2, <1>3, <1>5

\* The flag reaches the task that runs: its manager holds its handle.
LEMMA FlagTaskKeepsInv ==
  ASSUME NEW c \in Callers, JobsInv, FlagTask(c)
  PROVE  JobsInv'
<1> DEFINE p == facade.prov
           t == handle[p]
<1> USE CallersAssumption DEF FlagTask
<1>1. TypeOK /\ Calling /\ p \in Providers /\ t \in JobIds \cup {NoJob}
  BY DEF JobsInv, Calling, TypeOK, Call
<1>2. \A j \in JobIds :
        /\ tasks'[j].prov = tasks[j].prov /\ tasks'[j].kind = tasks[j].kind
        /\ tasks'[j].pc = tasks[j].pc /\ tasks'[j].final = tasks[j].final
        /\ tasks'[j].cancel = (tasks[j].cancel \/ (j = t /\ Unfinished(j)))
  BY <1>1 DEF TypeOK, Task, Unfinished
<1>3. TypeOK'
  <2>1. tasks' \in [JobIds -> Task]
    BY <1>1 DEF TypeOK, Task, Unfinished
  <2>2. facade' \in Call /\ handle' \in [Providers -> JobIds \cup {NoJob}]
    BY <1>1 DEF TypeOK, Call, Steps
  <2> QED
    BY <1>1, <2>1, <2>2 DEF TypeOK
<1>4. RunningProviders' = RunningProviders
  BY DEF RunningProviders
<1>5. /\ OneRunning' /\ StatusBelongsToTask' /\ JobsAreBornInOrder' /\ WorkIsRunning'
      /\ EndedStates'
  <2>1. OneRunning'
    BY <1>4 DEF JobsInv, OneRunning
  <2>2. StatusBelongsToTask'
    BY <1>2 DEF JobsInv, StatusBelongsToTask
  <2>3. JobsAreBornInOrder'
    BY <1>2 DEF JobsInv, JobsAreBornInOrder
  <2>4. WorkIsRunning'
    BY <1>2 DEF JobsInv, WorkIsRunning
  <2>5. EndedStates'
    BY <1>2 DEF JobsInv, EndedStates
  <2> QED
    BY <2>1, <2>2, <2>3, <2>4, <2>5
<1>5b. RunningHasTask'
  BY <1>2, <1>4 DEF JobsInv, RunningHasTask
<1>6. UnfinishedIsHeld'
  BY <1>1, <1>2 DEF JobsInv, UnfinishedIsHeld, Unfinished, Calling, TypeOK, Task, Call
<1>7. StartFindsIdle' /\ CancelCoversRunning'
  BY <1>1, <1>4 DEF JobsInv, StartFindsIdle, CancelCoversRunning, Calling, TypeOK, Call
<1>8. WritingStates'
  BY <1>1, <1>2 DEF JobsInv, WritingStates, WritingState, TypeOK, Task
<1>9. ASSUME NEW q \in RunningProviders PROVE tasks'[status[q].job].cancel
  <2>1. q = p /\ status[q].job \in JobIds /\ tasks[status[q].job].prov = p
    BY <1>1 DEF JobsInv, CancelCoversRunning, RunningHasTask
  <2>2. Unfinished(status[q].job)
    BY <2>1 DEF JobsInv, RunningHasTask, Writing, Unfinished, JobIds, NoJob
  <2>3. status[q].job = t
    BY <1>1, <2>1, <2>2 DEF JobsInv, UnfinishedIsHeld
  <2> QED
    BY <1>2, <2>1, <2>2, <2>3
<1>10. MarkFindsFlag'
  BY <1>4, <1>9 DEF MarkFindsFlag
<1> QED
  BY <1>3, <1>5, <1>6, <1>7, <1>8, <1>10, <1>5b DEF JobsInv

LEMMA MarkCancellingKeepsInv ==
  ASSUME NEW c \in Callers, JobsInv, MarkCancelling(c)
  PROVE  JobsInv'
<1> DEFINE p == facade.prov
<1> USE CallersAssumption DEF MarkCancelling
<1>1. TypeOK /\ Calling /\ p \in Providers
  BY DEF JobsInv, Calling, TypeOK, Call
<1>2. \A q \in Providers :
        /\ status'[q].job = status[q].job /\ status'[q].running = status[q].running
        /\ status'[q].state = IF q = p /\ status[q].running THEN "CANCELLING"
                               ELSE status[q].state
  BY <1>1 DEF TypeOK, Status
<1>3. TypeOK'
  BY <1>1 DEF TypeOK, Call, Status, JobStates, Steps
<1>4. RunningProviders' = RunningProviders
  BY <1>2 DEF RunningProviders
<1>5. /\ OneRunning' /\ StatusBelongsToTask' /\ JobsAreBornInOrder' /\ RunningHasTask'
      /\ WorkIsRunning'
  BY <1>1, <1>2, <1>4 DEF JobsInv, OneRunning, StatusBelongsToTask, JobsAreBornInOrder,
     RunningHasTask, WorkIsRunning, TypeOK, Task, RunningProviders
<1>6. UnfinishedIsHeld'
  BY <1>1 DEF JobsInv, UnfinishedIsHeld, Unfinished, Calling, TypeOK, Call
<1>7. StartFindsIdle' /\ CancelCoversRunning' /\ MarkFindsFlag'
  BY <1>1, <1>4 DEF JobsInv, StartFindsIdle, CancelCoversRunning, MarkFindsFlag, Calling,
     TypeOK, Call
<1>8. WritingStates'
  <2> SUFFICES ASSUME NEW j \in JobIds PROVE WritingState(j)'
    BY DEF WritingStates
  <2>1. tasks[j].prov \in Providers /\ WritingState(j) /\ tasks'[j] = tasks[j]
    BY <1>1 DEF JobsInv, TypeOK, Task, WritingStates
  <2>2. CASE tasks[j].prov = p /\ status[p].running /\ tasks[j].pc \in Writing
    <3>1. tasks[j].cancel
      BY <1>1, <2>2 DEF JobsInv, StatusBelongsToTask, MarkFindsFlag, RunningProviders
    <3> QED
      BY <1>2, <2>1, <2>2, <3>1 DEF WritingState
  <2>3. CASE ~(tasks[j].prov = p /\ status[p].running) \/ tasks[j].pc \notin Writing
    BY <1>2, <2>1, <2>3 DEF WritingState, Writing
  <2> QED
    BY <2>2, <2>3
<1>9. EndedStates'
  BY <1>1, <1>2 DEF JobsInv, EndedStates, TypeOK, Task, RunningHasTask, Writing, RunningProviders
<1> QED
  BY <1>3, <1>5, <1>6, <1>7, <1>8, <1>9 DEF JobsInv

LEMMA CancelReturnsKeepsInv ==
  ASSUME NEW c \in Callers, JobsInv, CancelReturns(c)
  PROVE  JobsInv'
<1> USE CallersAssumption DEF CancelReturns, JobsInv
<1>1. TypeOK'
  BY ProvidersAssumption DEF TypeOK, NoCall, Call, Steps, Kinds
<1>2. /\ OneRunning' /\ StatusBelongsToTask' /\ JobsAreBornInOrder' /\ RunningHasTask'
      /\ WorkIsRunning' /\ WritingStates' /\ EndedStates'
  BY DEF OneRunning, RunningProviders, StatusBelongsToTask, JobsAreBornInOrder,
         RunningHasTask, WorkIsRunning, WritingStates, WritingState, EndedStates
<1>3. UnfinishedIsHeld'
  BY DEF UnfinishedIsHeld, Unfinished, Calling
<1>4. StartFindsIdle' /\ CancelCoversRunning' /\ MarkFindsFlag'
  BY DEF StartFindsIdle, CancelCoversRunning, MarkFindsFlag, Calling, NoCall
<1> QED
  BY <1>1, <1>2, <1>3, <1>4

\* status() only moves `selected`.
LEMMA ObserverKeepsInv ==
  ASSUME JobsInv, ObserveRunning \/ SelectObserved
  PROVE  JobsInv'
<1> USE DEF ObserveRunning, SelectObserved, JobsInv
<1>1. TypeOK'
  BY DEF TypeOK, RunningProviders
<1>2. /\ OneRunning' /\ StatusBelongsToTask' /\ JobsAreBornInOrder' /\ RunningHasTask'
      /\ WorkIsRunning' /\ WritingStates' /\ EndedStates'
  BY DEF OneRunning, RunningProviders, StatusBelongsToTask, JobsAreBornInOrder,
         RunningHasTask, WorkIsRunning, WritingStates, WritingState, EndedStates
<1>3. UnfinishedIsHeld' /\ StartFindsIdle' /\ CancelCoversRunning' /\ MarkFindsFlag'
  BY DEF UnfinishedIsHeld, Unfinished, StartFindsIdle, CancelCoversRunning,
         MarkFindsFlag, Calling, RunningProviders
<1> QED
  BY <1>1, <1>2, <1>3

\* A task at work finds its own job in the status and writes progress over it.
LEMMA ProgressKeepsInv ==
  ASSUME NEW j \in JobIds, JobsInv, Progress(j)
  PROVE  JobsInv'
<1> DEFINE p == tasks[j].prov
<1> USE DEF Progress
<1>1. TypeOK /\ p \in Providers /\ status[p].job = j /\ status[p].running
  BY DEF JobsInv, TypeOK, Task, StatusBelongsToTask, WorkIsRunning, Writing
<1>2. \A q \in Providers :
        /\ status'[q].job = status[q].job /\ status'[q].running = status[q].running
        /\ status'[q].state = IF q = p THEN "WORKING" ELSE status[q].state
  BY <1>1 DEF TypeOK, Status
<1>3. TypeOK'
  BY <1>1 DEF TypeOK, Status, JobStates
<1>4. RunningProviders' = RunningProviders
  BY <1>2 DEF RunningProviders
<1>5. /\ OneRunning' /\ StatusBelongsToTask' /\ JobsAreBornInOrder' /\ RunningHasTask'
      /\ WorkIsRunning'
  BY <1>1, <1>2, <1>4 DEF JobsInv, OneRunning, StatusBelongsToTask, JobsAreBornInOrder,
     RunningHasTask, WorkIsRunning, TypeOK, Task, RunningProviders
<1>6. UnfinishedIsHeld' /\ StartFindsIdle' /\ CancelCoversRunning'
  BY <1>4 DEF JobsInv, UnfinishedIsHeld, Unfinished, Calling, StartFindsIdle, CancelCoversRunning
<1>7. MarkFindsFlag'
  BY <1>2, <1>4 DEF JobsInv, MarkFindsFlag, Calling, RunningProviders
<1>8. ASSUME NEW i \in JobIds, tasks[i].prov = p, tasks[i].pc \in Writing PROVE i = j
  BY <1>1, <1>8 DEF JobsInv, StatusBelongsToTask
<1>9. WritingStates'
  BY <1>1, <1>2, <1>8 DEF JobsInv, WritingStates, WritingState, TypeOK, Task, Writing
<1>10. EndedStates'
  BY <1>1, <1>2 DEF JobsInv, EndedStates, TypeOK, Task
<1> QED
  BY <1>3, <1>5, <1>6, <1>7, <1>9, <1>10 DEF JobsInv

\* The result is published by the task the status belongs to; the providers that
\* clear `running` with it hold nothing that still runs afterwards.
LEMMA PublishKeepsInv ==
  ASSUME NEW j \in JobIds, JobsInv, Publish(j)
  PROVE  JobsInv'
<1> DEFINE p == tasks[j].prov
           r == IF tasks[j].kind = "download" THEN "COMPLETED" ELSE "READY"
<1> USE DEF Publish
<1>1. TypeOK /\ p \in Providers /\ status[p].job = j /\ status[p].running
  BY DEF JobsInv, TypeOK, Task, StatusBelongsToTask, WorkIsRunning, Writing
<1>2. \A q \in Providers :
        /\ status'[q].job = status[q].job
        /\ status'[q].running <=> (status[q].running /\ (q # p \/ p \notin EndsEarly))
        /\ status'[q].state = IF q = p THEN r ELSE status[q].state
  BY <1>1 DEF TypeOK, Status
<1>3. \A i \in JobIds :
        /\ tasks'[i].prov = tasks[i].prov /\ tasks'[i].kind = tasks[i].kind
        /\ tasks'[i].cancel = tasks[i].cancel /\ tasks'[i].final = tasks[i].final
        /\ tasks'[i].pc = IF i = j THEN "published" ELSE tasks[i].pc
  BY <1>1 DEF TypeOK, Task
<1>4. TypeOK'
  <2>1. status' \in [Providers -> Status]
    BY <1>1 DEF TypeOK, Status, JobStates
  <2>2. tasks' \in [JobIds -> Task]
    BY <1>1 DEF TypeOK, Task, TaskPcs
  <2> QED
    BY <1>1, <2>1, <2>2 DEF TypeOK
<1>5. RunningProviders' \subseteq RunningProviders
  BY <1>2 DEF RunningProviders
<1>6. OneRunning'
  BY <1>5 DEF JobsInv, OneRunning
<1>7. StatusBelongsToTask'
  BY <1>1, <1>2, <1>3 DEF JobsInv, StatusBelongsToTask, TypeOK, Task, Writing
<1>8. JobsAreBornInOrder'
  BY <1>3 DEF JobsInv, JobsAreBornInOrder
<1>9. RunningHasTask'
  <2> SUFFICES ASSUME NEW q \in RunningProviders'
               PROVE  /\ status'[q].job \in JobIds
                      /\ tasks'[status'[q].job].prov = q
                      /\ tasks'[status'[q].job].pc \in Writing
    BY DEF RunningHasTask
  <2>1. q \in RunningProviders /\ q \in Providers
    BY <1>5 DEF RunningProviders
  <2>2. /\ status[q].job \in JobIds /\ tasks[status[q].job].prov = q
        /\ tasks[status[q].job].pc \in Writing
    BY <2>1 DEF JobsInv, RunningHasTask
  <2> QED
    BY <1>2, <1>3, <2>1, <2>2 DEF Writing
<1>10. WorkIsRunning'
  BY <1>1, <1>2, <1>3 DEF JobsInv, WorkIsRunning, StatusBelongsToTask, TypeOK, Task, Writing
<1>11. UnfinishedIsHeld'
  BY <1>3 DEF JobsInv, UnfinishedIsHeld, Unfinished, Calling
<1>12. StartFindsIdle' /\ CancelCoversRunning'
  BY <1>5 DEF JobsInv, StartFindsIdle, CancelCoversRunning, Calling
<1>13. MarkFindsFlag'
  <2> SUFFICES ASSUME Calling, facade.step = "mark", NEW q \in RunningProviders'
               PROVE  tasks'[status'[q].job].cancel
    BY DEF MarkFindsFlag, Calling
  <2>1. q \in RunningProviders /\ q \in Providers
    BY <1>5 DEF RunningProviders
  <2>2. status[q].job \in JobIds /\ tasks[status[q].job].cancel
    BY <2>1 DEF JobsInv, RunningHasTask, MarkFindsFlag
  <2> QED
    BY <1>2, <1>3, <2>1, <2>2
<1>14. ASSUME NEW i \in JobIds, tasks[i].prov = p, tasks[i].pc \in Writing PROVE i = j
  BY <1>1, <1>14 DEF JobsInv, StatusBelongsToTask
<1>15. WritingStates'
  <2> SUFFICES ASSUME NEW i \in JobIds PROVE WritingState(i)'
    BY DEF WritingStates
  <2>1. tasks[i].prov \in Providers /\ WritingState(i)
    BY <1>1 DEF JobsInv, TypeOK, Task, WritingStates
  <2>2. CASE i = j
    BY <1>1, <1>2, <1>3, <2>2 DEF WritingState, TypeOK, Task, Kinds
  <2>3. CASE i # j /\ tasks[i].prov = p
    BY <1>3, <1>14, <2>3 DEF WritingState, Writing
  <2>4. CASE i # j /\ tasks[i].prov # p
    <3>1. /\ status'[tasks'[i].prov].state = status[tasks[i].prov].state
          /\ status'[tasks'[i].prov].running <=> status[tasks[i].prov].running
          /\ tasks'[i].pc = tasks[i].pc
      BY <1>2, <1>3, <2>1, <2>4
    <3> QED
      BY <1>3, <2>1, <3>1 DEF WritingState
  <2> QED
    BY <2>2, <2>3, <2>4
<1>16. EndedStates'
  BY <1>1, <1>2, <1>3 DEF JobsInv, EndedStates, TypeOK, Task
<1> QED
  BY <1>4, <1>6, <1>7, <1>8, <1>9, <1>10, <1>11, <1>12, <1>13, <1>15, <1>16 DEF JobsInv

LEMMA StopWorkKeepsInv ==
  ASSUME NEW j \in JobIds, JobsInv, GiveUp(j) \/ Fail(j)
  PROVE  JobsInv'
<1> USE DEF GiveUp, Fail
<1>1. TypeOK /\ tasks[j].pc = "work"
  BY DEF JobsInv
<1>2. \A i \in JobIds :
        /\ tasks'[i].prov = tasks[i].prov /\ tasks'[i].kind = tasks[i].kind
        /\ tasks'[i].cancel = tasks[i].cancel /\ tasks'[i].final = tasks[i].final
        /\ i # j => tasks'[i].pc = tasks[i].pc
  BY <1>1 DEF TypeOK, Task
<1>3. /\ tasks'[j].pc \in {"returned", "failed"}
      /\ tasks'[j].pc = "returned" => tasks[j].cancel
  BY <1>1 DEF TypeOK, Task
<1>4. TypeOK'
  BY <1>1 DEF TypeOK, Task, TaskPcs
<1>5. RunningProviders' = RunningProviders
  BY DEF RunningProviders
<1>6. OneRunning' /\ StartFindsIdle' /\ CancelCoversRunning'
  BY <1>5 DEF JobsInv, OneRunning, StartFindsIdle, CancelCoversRunning, Calling
<1>7. StatusBelongsToTask' /\ WorkIsRunning'
  BY <1>1, <1>2, <1>3 DEF JobsInv, StatusBelongsToTask, WorkIsRunning, Writing
<1>8. JobsAreBornInOrder'
  BY <1>1, <1>2, <1>3 DEF JobsInv, JobsAreBornInOrder
<1>9. RunningHasTask' /\ MarkFindsFlag'
  BY <1>1, <1>2, <1>3, <1>5
  DEF JobsInv, RunningHasTask, MarkFindsFlag, Calling, Writing, RunningProviders
<1>10. UnfinishedIsHeld'
  BY <1>1, <1>2 DEF JobsInv, UnfinishedIsHeld, Unfinished, Calling
<1>11. WritingStates' /\ EndedStates'
  BY <1>1, <1>2, <1>3 DEF JobsInv, WritingStates, WritingState, EndedStates
<1> QED
  BY <1>4, <1>6, <1>7, <1>8, <1>9, <1>10, <1>11 DEF JobsInv

\* The final write: whatever the cancel flag and the result say, the state is one
\* of the four a job may end in.
LEMMA FinalStateIsFinal ==
  ASSUME NEW j \in JobIds, JobsInv, tasks[j].pc \in {"published", "returned", "failed"}
  PROVE  FinalState(j) \in {"READY", "COMPLETED", "FAILED", "CANCELLED"}
<1>1. WritingState(j) /\ tasks[j].prov \in AllProviders
  BY ProvidersAssumption DEF JobsInv, WritingStates, TypeOK, Task
<1>2. CASE tasks[j].pc = "published"
  BY <1>1, <1>2
  DEF FinalState, MarksCancelled, WritingState, AllProviders, EndsEarly, KeepsCompleted
<1>3. CASE tasks[j].pc = "returned"
  BY <1>1, <1>3 DEF FinalState, MarksCancelled, WritingState
<1>4. CASE tasks[j].pc = "failed"
  BY <1>4 DEF FinalState
<1> QED
  BY <1>2, <1>3, <1>4

LEMMA EndTaskKeepsInv ==
  ASSUME NEW j \in JobIds, JobsInv, EndTask(j)
  PROVE  JobsInv'
<1> DEFINE p == tasks[j].prov
<1>1. TypeOK /\ p \in Providers /\ status[p].job = j /\ tasks[j].pc \in Writing
  BY DEF EndTask, JobsInv, TypeOK, Task, StatusBelongsToTask, Writing
<1>r. PICK r \in {"READY", "COMPLETED", "FAILED", "CANCELLED"} :
        /\ status' = [status EXCEPT ![p].running = FALSE, ![p].state = r]
        /\ tasks' = [tasks EXCEPT ![j].pc = "ended", ![j].final = r]
        /\ UNCHANGED <<handle, nextJob, selected, observed, facade>>
  BY FinalStateIsFinal DEF EndTask
<1>2. \A q \in Providers :
        /\ status'[q].job = status[q].job
        /\ status'[q].running <=> (status[q].running /\ q # p)
        /\ status'[q].state = IF q = p THEN r ELSE status[q].state
  BY <1>1, <1>r DEF TypeOK, Status
<1>3. /\ \A i \in JobIds \ {j} : tasks'[i] = tasks[i]
      /\ tasks'[j].prov = p /\ tasks'[j].pc = "ended" /\ tasks'[j].final = r
  BY <1>1, <1>r DEF TypeOK, Task
<1>4. TypeOK'
  <2>1. status' \in [Providers -> Status]
    BY <1>1, <1>r DEF TypeOK, Status, JobStates
  <2>2. tasks' \in [JobIds -> Task]
    <3>1. [tasks[j] EXCEPT !.pc = "ended", !.final = r] \in Task
      BY <1>1 DEF TypeOK, Task, TaskPcs, JobStates
    <3>2. tasks' = [tasks EXCEPT ![j] = [tasks[j] EXCEPT !.pc = "ended", !.final = r]]
      BY <1>1, <1>r DEF TypeOK, Task
    <3> QED
      BY <1>1, <3>1, <3>2 DEF TypeOK
  <2> QED
    BY <1>1, <1>r, <2>1, <2>2 DEF TypeOK
<1>5. RunningProviders' = RunningProviders \ {p}
  BY <1>2 DEF RunningProviders
<1>6. OneRunning' /\ StartFindsIdle' /\ CancelCoversRunning'
  BY <1>r, <1>5 DEF JobsInv, OneRunning, StartFindsIdle, CancelCoversRunning, Calling
<1>7. ASSUME NEW i \in JobIds, tasks[i].prov = p, tasks[i].pc \in Writing PROVE i = j
  BY <1>1, <1>7 DEF JobsInv, StatusBelongsToTask
<1>8. StatusBelongsToTask'
  BY <1>1, <1>2, <1>3 DEF JobsInv, StatusBelongsToTask, TypeOK, Task, Writing
<1>9. JobsAreBornInOrder'
  BY <1>r, <1>1, <1>3 DEF JobsInv, JobsAreBornInOrder, Writing
<1>10. ASSUME NEW q \in RunningProviders'
       PROVE  /\ q \in RunningProviders /\ q \in Providers /\ q # p
              /\ status'[q].job = status[q].job /\ status[q].job \in JobIds
              /\ tasks[status[q].job].prov = q /\ tasks[status[q].job].pc \in Writing
  BY <1>2, <1>5 DEF JobsInv, RunningHasTask, RunningProviders
<1>11. RunningHasTask'
  <2> SUFFICES ASSUME NEW q \in RunningProviders'
               PROVE  /\ status'[q].job \in JobIds
                      /\ tasks'[status'[q].job].prov = q
                      /\ tasks'[status'[q].job].pc \in Writing
    BY DEF RunningHasTask
  <2>1. status[q].job \in JobIds \ {j} /\ status'[q].job = status[q].job
    BY <1>10
  <2> QED
    BY <1>3, <1>10, <2>1
<1>12. MarkFindsFlag'
  <2> SUFFICES ASSUME Calling, facade.step = "mark", NEW q \in RunningProviders'
               PROVE  tasks'[status'[q].job].cancel
    BY <1>r DEF MarkFindsFlag, Calling
  <2>1. status[q].job \in JobIds \ {j} /\ tasks[status[q].job].cancel
    BY <1>10 DEF JobsInv, MarkFindsFlag
  <2> QED
    BY <1>3, <1>10, <2>1
<1>13. WorkIsRunning'
  BY <1>1, <1>2, <1>3, <1>7 DEF JobsInv, WorkIsRunning, TypeOK, Task, Writing
<1>14. UnfinishedIsHeld'
  <2>1. \A i \in JobIds : tasks'[i].prov = tasks[i].prov
    BY <1>3
  <2>2. Unfinished(j)
    BY <1>1 DEF Unfinished, Writing, JobIds, NoJob
  <2>3. \A i \in JobIds : Unfinished(i)' => Unfinished(i)
    BY <1>3, <2>2 DEF Unfinished
  <2> QED
    BY <1>r, <2>1, <2>3 DEF JobsInv, UnfinishedIsHeld, Calling
<1>15. WritingStates'
  <2> SUFFICES ASSUME NEW i \in JobIds PROVE WritingState(i)'
    BY DEF WritingStates
  <2>1. tasks[i].prov \in Providers /\ WritingState(i)
    BY <1>1 DEF JobsInv, TypeOK, Task, WritingStates
  <2>2. CASE i = j
    BY <1>3, <2>2 DEF WritingState
  <2>3. CASE i # j /\ tasks[i].prov = p
    BY <1>3, <1>7, <2>3 DEF WritingState, Writing
  <2>4. CASE i # j /\ tasks[i].prov # p
    <3>1. /\ status'[tasks'[i].prov].state = status[tasks[i].prov].state
          /\ status'[tasks'[i].prov].running <=> status[tasks[i].prov].running
          /\ tasks'[i].pc = tasks[i].pc
      BY <1>2, <1>3, <2>1, <2>4
    <3> QED
      BY <1>3, <2>1, <3>1 DEF WritingState
  <2> QED
    BY <2>2, <2>3, <2>4
<1>16. EndedStates'
  BY <1>r, <1>1, <1>2, <1>3 DEF JobsInv, EndedStates, TypeOK, Task
<1> QED
  BY <1>4, <1>6, <1>8, <1>9, <1>11, <1>12, <1>13, <1>14, <1>15, <1>16 DEF JobsInv

LEMMA PushTerminalKeepsInv ==
  ASSUME NEW j \in JobIds, JobsInv, PushTerminal(j)
  PROVE  JobsInv'
<1> USE DEF PushTerminal
<1>1. TypeOK /\ tasks[j].pc = "ended"
  BY DEF JobsInv
<1>2. \A i \in JobIds :
        /\ tasks'[i].prov = tasks[i].prov /\ tasks'[i].kind = tasks[i].kind
        /\ tasks'[i].cancel = tasks[i].cancel /\ tasks'[i].final = tasks[i].final
        /\ tasks'[i].pc = IF i = j THEN "done" ELSE tasks[i].pc
  BY <1>1 DEF TypeOK, Task
<1>3. TypeOK'
  BY <1>1 DEF TypeOK, Task, TaskPcs
<1>4. RunningProviders' = RunningProviders
  BY DEF RunningProviders
<1>5. OneRunning' /\ StartFindsIdle' /\ CancelCoversRunning'
  BY <1>4 DEF JobsInv, OneRunning, StartFindsIdle, CancelCoversRunning, Calling
<1>6. StatusBelongsToTask' /\ WorkIsRunning'
  BY <1>2 DEF JobsInv, StatusBelongsToTask, WorkIsRunning, Writing
<1>7. JobsAreBornInOrder'
  BY <1>1, <1>2 DEF JobsInv, JobsAreBornInOrder
<1>8. RunningHasTask' /\ MarkFindsFlag'
  BY <1>1, <1>2, <1>4
  DEF JobsInv, RunningHasTask, MarkFindsFlag, Calling, Writing, RunningProviders
<1>9. UnfinishedIsHeld'
  BY <1>2 DEF JobsInv, UnfinishedIsHeld, Unfinished, Calling
<1>10. WritingStates' /\ EndedStates'
  BY <1>1, <1>2 DEF JobsInv, WritingStates, WritingState, EndedStates
<1> QED
  BY <1>3, <1>5, <1>6, <1>7, <1>8, <1>9, <1>10 DEF JobsInv

LEMMA StutterKeepsInv ==
  ASSUME JobsInv, UNCHANGED jobVars
  PROVE  JobsInv'
<1> QED
  BY DEF JobsInv, jobVars, TypeOK, OneRunning, RunningProviders, StatusBelongsToTask,
         JobsAreBornInOrder, RunningHasTask, WorkIsRunning, UnfinishedIsHeld, Unfinished,
         Calling, StartFindsIdle, CancelCoversRunning, WritingStates, WritingState,
         MarkFindsFlag, EndedStates

LEMMA StepKeepsInv == JobsInv /\ [JobsNext]_jobVars => JobsInv'
<1> SUFFICES ASSUME JobsInv, [JobsNext]_jobVars PROVE JobsInv'
  OBVIOUS
<1>1. ASSUME NEW c \in Callers, FacadeStep(c) PROVE JobsInv'
  BY <1>1, SelectProviderKeepsInv, StartRefusedKeepsInv, StartJobKeepsInv,
     PickProviderKeepsInv, FlagTaskKeepsInv, MarkCancellingKeepsInv, CancelReturnsKeepsInv
  DEF FacadeStep
<1>2. ASSUME NEW j \in JobIds, TaskStep(j) PROVE JobsInv'
  BY <1>2, ProgressKeepsInv, PublishKeepsInv, StopWorkKeepsInv, EndTaskKeepsInv,
     PushTerminalKeepsInv DEF TaskStep
<1>3. CASE ObserveRunning \/ SelectObserved
  BY <1>3, ObserverKeepsInv
<1>4. CASE UNCHANGED jobVars
  BY <1>4, StutterKeepsInv
<1> QED
  BY <1>1, <1>2, <1>3, <1>4 DEF JobsNext

----------------------------------------------------------------------------
(* The theorems: each property the runs check on a small instance, for     *)
(* every instance.                                                         *)

\* The invariant holds in every behaviour of the job runtime: at every point of
\* every interleaving of facade calls, job tasks and status() calls.
THEOREM JobsInvariant == JobsSpec => []JobsInv
<1> QED
  BY InitEstablishesInv, StepKeepsInv, PTL DEF JobsSpec

\* Every variable keeps its type.
THEOREM JobsTypeOK == JobsSpec => []TypeOK
<1>1. JobsInv => TypeOK
  BY DEF JobsInv
<1> QED
  BY <1>1, JobsInvariant, PTL

\* At most one provider reports a running job (ensure_idle under the facade's mutex).
THEOREM OnlyOneRuns == JobsSpec => []OneRunning
<1>1. JobsInv => OneRunning
  BY DEF JobsInv
<1> QED
  BY <1>1, JobsInvariant, PTL

\* At most one task is at work, on whichever provider.
THEOREM OnlyOneWorks == JobsSpec => []OneWorking
<1>1. ASSUME JobsInv PROVE OneWorking
  <2> SUFFICES ASSUME NEW i \in JobIds, NEW j \in JobIds,
                      tasks[i].pc = "work", tasks[j].pc = "work"
               PROVE  i = j
    BY DEF OneWorking
  <2>1. tasks[i].prov \in RunningProviders /\ tasks[j].prov \in RunningProviders
    BY <1>1 DEF JobsInv, WorkIsRunning, RunningProviders, TypeOK, Task
  <2>2. status[tasks[i].prov].job = i /\ status[tasks[j].prov].job = j
    BY <1>1 DEF JobsInv, StatusBelongsToTask, Writing
  <2> QED
    BY <1>1, <2>1, <2>2 DEF JobsInv, OneRunning
<1> QED
  BY <1>1, JobsInvariant, PTL

\* A task never overwrites the status of a job that replaced its own.
THEOREM TasksWriteTheirOwnStatus == JobsSpec => []StatusBelongsToTask
<1>1. JobsInv => StatusBelongsToTask
  BY DEF JobsInv
<1> QED
  BY <1>1, JobsInvariant, PTL

\* A status that says running has a task that will clear it.
THEOREM RunningStatusIsLive == JobsSpec => []RunningIsLive
<1>1. JobsInv => RunningIsLive
  BY DEF JobsInv, RunningHasTask, RunningIsLive
<1> QED
  BY <1>1, JobsInvariant, PTL

\* Terminal cache and status never disagree about a job.
THEOREM TerminalStatusAgrees == JobsSpec => []TerminalAgreesWithStatus
<1>1. JobsInv => TerminalAgreesWithStatus
  BY DEF JobsInv, EndedStates, TerminalAgreesWithStatus
<1> QED
  BY <1>1, JobsInvariant, PTL

\* When cancel() returns, no provider is running: the job it awaited was the only
\* one, and none could start meanwhile.
THEOREM CancelLeavesNothingRunning == JobsSpec => CancelQuiesces
<1> DEFINE Returns == facade.by # Free /\ facade.step = "await" /\ facade' = NoCall
<1>1. ASSUME JobsInv, [JobsNext]_jobVars, Returns PROVE RunningProviders' = {}
  <2>1. PICK c \in Callers : CancelReturns(c)
    <3>1. facade' # facade
      BY <1>1 DEF NoCall
    <3>2. ~ObserveRunning /\ ~SelectObserved /\ \A j \in JobIds : ~TaskStep(j)
      BY <3>1 DEF ObserveRunning, SelectObserved, TaskStep, Progress, Publish, GiveUp,
         Fail, EndTask, PushTerminal
    <3>3. PICK c \in Callers : FacadeStep(c)
      BY <1>1, <3>1, <3>2 DEF JobsNext, jobVars
    <3> QED
      BY <1>1, <3>3 DEF FacadeStep, SelectProvider, StartRefused, StartJob, PickProvider,
         FlagTask, MarkCancelling, Free
  <2>2. RunningProviders' = RunningProviders
    BY <2>1 DEF CancelReturns, RunningProviders
  <2>3. ASSUME NEW p \in RunningProviders PROVE FALSE
    <3>1. p = facade.prov /\ handle[p] = NoJob
      BY <1>1 DEF JobsInv, CancelCoversRunning, Calling
    <3>2. status[p].job \in JobIds /\ tasks[status[p].job].prov = p
      BY <1>1 DEF JobsInv, RunningHasTask
    <3>3. Unfinished(status[p].job)
      BY <1>1, <3>2 DEF JobsInv, RunningHasTask, Writing, Unfinished, JobIds, NoJob
    <3>4. facade.task = status[p].job
      BY <1>1, <3>1, <3>2, <3>3 DEF JobsInv, UnfinishedIsHeld, JobIds, NoJob
    <3> QED
      BY <2>1, <3>3, <3>4 DEF CancelReturns
  <2> QED
    BY <2>2, <2>3
<1>2. JobsInv /\ [JobsNext]_jobVars
      => [Returns => RunningProviders' = {}]_jobVars
  BY <1>1
<1> QED
  BY <1>2, JobsInvariant, PTL DEF JobsSpec, CancelQuiesces

\* A CHZZK download that published COMPLETED ends COMPLETED, however late a
\* cancellation raises its flag.
THEOREM ChzzkKeepsCompleted == JobsSpec => ChzzkCompletedWins
<1>1. ASSUME JobsInv, [JobsNext]_jobVars PROVE CompletedKept("CHZZK")
  <2> SUFFICES ASSUME NEW j \in JobIds, tasks[j].prov = "CHZZK",
                      tasks[j].kind = "download", tasks[j].pc = "published",
                      tasks'[j].pc = "ended"
               PROVE  tasks'[j].final = "COMPLETED"
    BY DEF CompletedKept
  <2>1. TypeOK /\ status["CHZZK"].state = "COMPLETED"
    BY <1>1 DEF JobsInv, WritingStates, WritingState, EndsEarly
  <2>2. FinalState(j) = "COMPLETED"
    BY <2>1 DEF FinalState, MarksCancelled, KeepsCompleted
  <2>3. EndTask(j)
    <3>1. ASSUME NEW i \in JobIds, TaskStep(i) PROVE i = j /\ EndTask(i)
      BY <2>1, <3>1 DEF TaskStep, Progress, Publish, GiveUp, Fail, EndTask, PushTerminal,
         TypeOK, Task
    <3>2. ASSUME NEW c \in Callers, FacadeStep(c) PROVE FALSE
      <4>1. CASE StartJob(c)
        BY <2>1, <4>1 DEF StartJob, TypeOK
      <4>2. CASE FlagTask(c)
        BY <2>1, <4>2 DEF FlagTask, TypeOK, Task
      <4>3. CASE tasks' = tasks
        BY <4>3
      <4> QED
        BY <3>2, <4>1, <4>2, <4>3 DEF FacadeStep, SelectProvider, StartRefused,
           PickProvider, MarkCancelling, CancelReturns
    <3>3. tasks' # tasks
      OBVIOUS
    <3> QED
      BY <1>1, <3>1, <3>2, <3>3 DEF JobsNext, jobVars, ObserveRunning, SelectObserved
  <2> QED
    BY <2>1, <2>2, <2>3 DEF EndTask, TypeOK, Task
<1>2. JobsInv /\ [JobsNext]_jobVars => [CompletedKept("CHZZK")]_jobVars
  BY <1>1
<1> QED
  BY <1>2, JobsInvariant, PTL DEF JobsSpec, ChzzkCompletedWins

----------------------------------------------------------------------------
(* The job runtime implements VodSlot.                                     *)

\* The slot is the job of any provider that runs: with OneRunning there is one.
LEMMA SlotJobIsTheRunningJob ==
  ASSUME JobsInv
  PROVE  /\ RunningProviders = {} => SlotJob = NoJob
         /\ \A p \in RunningProviders : SlotJob = status[p].job
<1> QED
  BY DEF JobsInv, OneRunning, SlotJob

LEMMA SlotJobPrimed ==
  ASSUME JobsInv'
  PROVE  /\ RunningProviders' = {} => SlotJob' = NoJob
         /\ \A p \in RunningProviders' : SlotJob' = status'[p].job
<1> QED
  BY DEF JobsInv, OneRunning, SlotJob

\* A step that leaves running flags, job ids and the ends of tasks alone is
\* invisible to the slot.
LEMMA QuietStep ==
  ASSUME JobsInv, JobsInv', nextJob' = nextJob,
         \A p \in Providers : /\ status'[p].job = status[p].job
                              /\ status'[p].running <=> status[p].running,
         \A j \in JobIds :
           \/ tasks'[j].pc = tasks[j].pc /\ tasks'[j].final = tasks[j].final
           \/ /\ tasks[j].pc \notin {"ended", "done"}
              /\ tasks'[j].pc \notin {"ended", "done"}
           \/ /\ tasks[j].pc \in {"ended", "done"} /\ tasks'[j].pc \in {"ended", "done"}
              /\ tasks'[j].final = tasks[j].final
  PROVE  UNCHANGED <<SlotJob, nextJob - 1, JobResult>>
<1>1. RunningProviders' = RunningProviders
  BY DEF RunningProviders
<1>2. SlotJob' = SlotJob
  <2>1. CASE RunningProviders = {}
    BY <1>1, <2>1, SlotJobIsTheRunningJob, SlotJobPrimed
  <2>2. CASE RunningProviders # {}
    <3>1. PICK p \in RunningProviders : TRUE
      BY <2>2
    <3> QED
      BY <1>1, <3>1, SlotJobIsTheRunningJob, SlotJobPrimed DEF RunningProviders
  <2> QED
    BY <2>1, <2>2
<1>3. JobResult' = JobResult
  BY DEF JobResult
<1> QED
  BY <1>2, <1>3

\* start_job() fills the slot with the next job.
LEMMA StartJobBegins ==
  ASSUME NEW c \in Callers, JobsInv, JobsInv', StartJob(c)
  PROVE  Slot!Begin
<1> DEFINE p == facade.prov
<1>1. /\ TypeOK /\ p \in Providers /\ nextJob \in JobIds /\ RunningProviders = {}
      /\ tasks[nextJob].pc = "unborn"
  BY CallersAssumption, MaxJobsAssumption
  DEF JobsInv, TypeOK, Call, StartJob, StartFindsIdle, Calling, JobsAreBornInOrder, JobIds
<1>2. p \in RunningProviders' /\ status'[p].job = nextJob
  BY <1>1 DEF StartJob, RunningProviders, TypeOK
<1>3. SlotJob = NoJob /\ SlotJob' = nextJob
  BY <1>1, <1>2, SlotJobIsTheRunningJob, SlotJobPrimed
<1>4. JobResult' = JobResult
  BY <1>1 DEF StartJob, JobResult, TypeOK
<1>5. /\ nextJob - 1 < MaxJobs /\ nextJob = (nextJob - 1) + 1
      /\ nextJob' - 1 = (nextJob - 1) + 1
  BY <1>1, MaxJobsAssumption DEF StartJob, JobIds
<1> QED
  BY <1>3, <1>4, <1>5 DEF Slot!Begin, Slot!Empty, NoJob

\* Publishing a result frees the slot for the providers that clear `running` with it.
LEMMA PublishVacates ==
  ASSUME NEW j \in JobIds, JobsInv, JobsInv', Publish(j)
  PROVE  Slot!Vacate \/ UNCHANGED <<SlotJob, nextJob - 1, JobResult>>
<1> DEFINE p == tasks[j].prov
<1>1. /\ TypeOK /\ p \in Providers /\ status[p].job = j /\ p \in RunningProviders
  BY DEF JobsInv, TypeOK, Task, StatusBelongsToTask, WorkIsRunning, Writing, Publish,
     RunningProviders
<1>2. \A q \in Providers :
        /\ status'[q].job = status[q].job
        /\ status'[q].running <=> (status[q].running /\ (q # p \/ p \notin EndsEarly))
  BY <1>1 DEF Publish, TypeOK, Status
<1>3. \A i \in JobIds :
        \/ tasks'[i].pc = tasks[i].pc /\ tasks'[i].final = tasks[i].final
        \/ tasks[i].pc \notin {"ended", "done"} /\ tasks'[i].pc \notin {"ended", "done"}
  BY <1>1 DEF Publish, TypeOK, Task
<1>4. CASE p \in EndsEarly
  <2>1. RunningProviders' = {}
    BY <1>1, <1>2, <1>4 DEF JobsInv, OneRunning, RunningProviders
  <2>2. SlotJob = j /\ SlotJob' = NoJob
    BY <1>1, <2>1, SlotJobIsTheRunningJob, SlotJobPrimed
  <2>3. JobResult' = JobResult
    BY <1>3 DEF JobResult
  <2> QED
    BY <2>2, <2>3 DEF Slot!Vacate, Slot!Empty, NoJob, JobIds, Publish
<1>5. CASE p \notin EndsEarly
  BY <1>2, <1>3, <1>5, QuietStep DEF Publish
<1> QED
  BY <1>4, <1>5

\* The final write records the job's result, and frees the slot unless it is free.
LEMMA EndTaskConcludes ==
  ASSUME NEW j \in JobIds, JobsInv, JobsInv', EndTask(j)
  PROVE  Slot!Conclude(j)
<1> DEFINE p == tasks[j].prov
<1>1. /\ TypeOK /\ p \in Providers /\ status[p].job = j /\ tasks[j].pc \in Writing
  BY DEF EndTask, JobsInv, TypeOK, Task, StatusBelongsToTask, Writing
<1>2. PICK r \in {"READY", "COMPLETED", "FAILED", "CANCELLED"} :
        /\ status' = [status EXCEPT ![p].running = FALSE, ![p].state = r]
        /\ tasks' = [tasks EXCEPT ![j].pc = "ended", ![j].final = r]
        /\ nextJob' = nextJob
  BY FinalStateIsFinal DEF EndTask
<1>3. \A q \in Providers :
        /\ status'[q].job = status[q].job
        /\ status'[q].running <=> (status[q].running /\ q # p)
  BY <1>1, <1>2 DEF TypeOK, Status
<1>4. RunningProviders' = RunningProviders \ {p}
  BY <1>3 DEF RunningProviders
<1>5. j <= nextJob - 1 /\ JobResult[j] = "pending"
  BY <1>1, MaxJobsAssumption
  DEF JobsInv, JobsAreBornInOrder, Writing, TypeOK, JobIds, JobResult
<1>6. JobResult' = [JobResult EXCEPT ![j] = r]
  <2>1. /\ \A i \in JobIds \ {j} : tasks'[i] = tasks[i]
        /\ tasks'[j].pc = "ended" /\ tasks'[j].final = r
    BY <1>1, <1>2 DEF TypeOK, Task
  <2> QED
    BY <2>1 DEF JobResult
<1>7. SlotJob' = IF SlotJob = j THEN NoJob ELSE SlotJob
  <2>1. CASE p \in RunningProviders
    <3>1. SlotJob = j /\ RunningProviders' = {}
      BY <1>1, <1>4, <2>1, SlotJobIsTheRunningJob DEF JobsInv, OneRunning
    <3> QED
      BY <3>1, SlotJobPrimed
  <2>2. CASE RunningProviders = {}
    BY <1>4, <2>2, SlotJobIsTheRunningJob, SlotJobPrimed DEF NoJob, JobIds
  <2>3. ASSUME NEW q \in RunningProviders, p \notin RunningProviders
        PROVE  SlotJob' = SlotJob /\ SlotJob # j
    <3>1. q \in RunningProviders' /\ q # p /\ SlotJob = status[q].job
      BY <1>4, <2>3, SlotJobIsTheRunningJob
    <3>2. SlotJob' = status[q].job
      BY <1>3, <3>1, SlotJobPrimed DEF RunningProviders
    <3>3. tasks[status[q].job].prov = q
      BY DEF JobsInv, RunningHasTask
    <3> QED
      BY <3>1, <3>2, <3>3
  <2> QED
    BY <2>1, <2>2, <2>3
<1> QED
  BY <1>2, <1>5, <1>6, <1>7 DEF Slot!Conclude, Slot!Empty, Slot!Pending, Slot!Results, NoJob

LEMMA StepRefinesSlot ==
  JobsInv /\ JobsInv' /\ [JobsNext]_jobVars => [Slot!SlotNext]_Slot!slotVars
<1> SUFFICES ASSUME JobsInv, JobsInv', [JobsNext]_jobVars
             PROVE  Slot!SlotNext \/ UNCHANGED <<SlotJob, nextJob - 1, JobResult>>
  BY DEF Slot!slotVars
<1>0. TypeOK
  BY DEF JobsInv
<1>1. ASSUME NEW c \in Callers, FacadeStep(c)
      PROVE  Slot!Begin \/ UNCHANGED <<SlotJob, nextJob - 1, JobResult>>
  <2>1. CASE StartJob(c)
    BY <2>1, StartJobBegins
  <2>2. CASE FlagTask(c)
    <3>1. \A j \in JobIds : tasks'[j].pc = tasks[j].pc /\ tasks'[j].final = tasks[j].final
      BY <1>0, <2>2 DEF FlagTask, TypeOK, Task
    <3> QED
      BY <2>2, <3>1, QuietStep DEF FlagTask
  <2>3. CASE MarkCancelling(c)
    <3>1. \A p \in Providers : /\ status'[p].job = status[p].job
                               /\ status'[p].running <=> status[p].running
      BY <1>0, <2>3 DEF MarkCancelling, TypeOK, Status
    <3> QED
      BY <2>3, <3>1, QuietStep DEF MarkCancelling
  <2>4. CASE UNCHANGED <<status, tasks, nextJob>>
    BY <2>4, QuietStep
  <2> QED
    BY <1>1, <2>1, <2>2, <2>3, <2>4
    DEF FacadeStep, SelectProvider, StartRefused, PickProvider, CancelReturns
<1>2. ASSUME NEW j \in JobIds, TaskStep(j)
      PROVE  \/ Slot!Vacate \/ Slot!Conclude(j)
             \/ UNCHANGED <<SlotJob, nextJob - 1, JobResult>>
  <2>1. CASE Publish(j)
    BY <2>1, PublishVacates
  <2>2. CASE EndTask(j)
    BY <2>2, EndTaskConcludes
  <2>3. CASE Progress(j)
    <3>1. \A p \in Providers : /\ status'[p].job = status[p].job
                               /\ status'[p].running <=> status[p].running
      BY <1>0, <2>3 DEF Progress, TypeOK, Task, Status
    <3> QED
      BY <2>3, <3>1, QuietStep DEF Progress
  <2>4. CASE GiveUp(j) \/ Fail(j)
    <3>1. \A i \in JobIds :
            \/ tasks'[i].pc = tasks[i].pc /\ tasks'[i].final = tasks[i].final
            \/ tasks[i].pc \notin {"ended", "done"} /\ tasks'[i].pc \notin {"ended", "done"}
      BY <1>0, <2>4 DEF GiveUp, Fail, TypeOK, Task
    <3> QED
      BY <2>4, <3>1, QuietStep DEF GiveUp, Fail
  <2>5. CASE PushTerminal(j)
    <3>1. \A i \in JobIds :
            /\ tasks'[i].final = tasks[i].final
            /\ \/ tasks'[i].pc = tasks[i].pc
               \/ tasks[i].pc = "ended" /\ tasks'[i].pc = "done"
      BY <1>0, <2>5 DEF PushTerminal, TypeOK, Task
    <3> QED
      BY <2>5, <3>1, QuietStep DEF PushTerminal
  <2> QED
    BY <1>2, <2>1, <2>2, <2>3, <2>4, <2>5 DEF TaskStep
<1>3. CASE ObserveRunning \/ SelectObserved \/ UNCHANGED jobVars
  <2>1. UNCHANGED <<status, tasks, nextJob>>
    BY <1>3 DEF ObserveRunning, SelectObserved, jobVars
  <2> QED
    BY <2>1, QuietStep
<1> QED
  BY <1>1, <1>2, <1>3 DEF JobsNext, Slot!SlotNext, JobIds

\* What callers of the VOD runtime see is the one-slot abstraction: jobs run one at
\* a time, and each concludes at most once, with one of four results.
THEOREM JobsImplementSlot == JobsSpec => OneSlot
<1>1. JobsInit => Slot!SlotInit
  BY DEF JobsInit, Slot!SlotInit, Slot!Empty, Slot!Pending, SlotJob, RunningProviders,
     JobResult, NoTask, NoJob, JobIds
<1> QED
  BY <1>1, JobsInvariant, StepRefinesSlot, PTL DEF JobsSpec, OneSlot, Slot!SlotSpec
=============================================================================
