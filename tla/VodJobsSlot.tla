---------------------------- MODULE VodJobsSlot ----------------------------
(* The job runtime of VodJobs is a VodSlot: the slot holds the job of the   *)
(* provider that reports running, and a job's result is the final status   *)
(* its task wrote.                                                          *)
EXTENDS VodJobs

SlotJob ==
  IF RunningProviders = {} THEN NoJob
  ELSE status[CHOOSE p \in RunningProviders : TRUE].job

JobResult ==
  [j \in JobIds |-> IF tasks[j].pc \in {"ended", "done"} THEN tasks[j].final
                    ELSE "pending"]

Slot == INSTANCE VodSlot WITH slot <- SlotJob, begun <- nextJob - 1, result <- JobResult

\* Whatever the three providers, the facade and the status() callers do, their
\* callers see one slot, and each job ends with one of four results that no
\* later step changes (platform/vod.rs, ensure_idle and start_job).
OneSlot == Slot!SlotSpec

\* With the fairness of the runtime every job that has begun gets its result.
OneSlotConcludes == Slot!FairSlotSpec
=============================================================================
