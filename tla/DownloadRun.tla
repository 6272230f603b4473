---------------------------- MODULE DownloadRun ----------------------------
(***************************************************************************)
(* What VodJobs and the queue rely on about the run of one VOD job, without *)
(* saying how a provider gets the media: a run begins, publishes its result *)
(* once, gives up only when it was asked to, or fails, and is then over.    *)
(* A run that was a download and published has its media on the disk, and   *)
(* no later run, failure or crash takes it away again.                      *)
(*                                                                         *)
(* SoopDownload, ChzzkDownload and KickDownload implement this.             *)
(***************************************************************************)
EXTENDS Naturals

VARIABLES
  run,     \* number of the last run that began
  phase,   \* what the run is doing
  saves,   \* the run is a download, not an analysis
  cancel,  \* the cancel flag of the run
  kept     \* the runs whose media is complete on the disk after COMPLETED

vars == <<run, phase, saves, cancel, kept>>

Phases == {"idle", "work", "published", "returned", "failed"}

Init ==
  /\ run = 0 /\ phase = "idle" /\ saves = FALSE /\ cancel = FALSE /\ kept = {}

Begin ==
  /\ phase = "idle"
  /\ run' = run + 1 /\ phase' = "work" /\ cancel' = FALSE
  /\ saves' \in BOOLEAN
  /\ UNCHANGED kept

Flag == phase # "idle" /\ cancel' = TRUE /\ UNCHANGED <<run, phase, saves, kept>>

Publish ==
  /\ phase = "work" /\ phase' = "published"
  /\ kept' = IF saves THEN kept \cup {run} ELSE kept
  /\ UNCHANGED <<run, saves, cancel>>

GiveUp ==
  /\ phase = "work" /\ cancel /\ phase' = "returned"
  /\ UNCHANGED <<run, saves, cancel, kept>>

Fail == phase = "work" /\ phase' = "failed" /\ UNCHANGED <<run, saves, cancel, kept>>

\* The task is over; also what a crash of the process leaves.
Over ==
  /\ phase # "idle" /\ phase' = "idle" /\ cancel' = FALSE
  /\ UNCHANGED <<run, saves, kept>>

Next == Begin \/ Flag \/ Publish \/ GiveUp \/ Fail \/ Over

Spec == Init /\ [][Next]_vars
=============================================================================
