---------------------------- MODULE KickDownload ----------------------------
(***************************************************************************)
(* One KICK VOD job after another (platform/kick/vod.rs): every attempt has *)
(* a new file of its own, yt-dlp reports fragments and its end on pipes the *)
(* job drains for a limited time, and only a file that is shown to be       *)
(* complete is moved to its final name.                                     *)
(***************************************************************************)
EXTENDS Naturals

CONSTANTS
  Fragments,  \* fragments of the VOD's playlist (expected_fragment_count)
  MaxRetries, \* attempts of a job (max_retries)
  MaxRuns     \* bound: jobs

VARIABLES
  run, saves, cancel, \* number, kind and cancel flag of the last job
  pc, attempt,        \* where its task is, and the number of the attempt
  tool,               \* yt-dlp: whether it runs or how it exited, and what it has written
  told,               \* what the task has read from the pipes: fragments, and the end marker
  partials,           \* the .partial.ts files: [<<run, attempt>> -> fragments]
  finals              \* the .ts files under their final names: [<<run, attempt>> -> fragments]

job   == <<run, saves, cancel>>
files == <<partials, finals>>
vars  == <<job, pc, attempt, tool, told, files>>

Working  == {"metadata", "attempt", "download", "drain", "publish", "wait"}
Ended    == {"published", "returned", "failed"}
Attempts == (1 .. MaxRuns) \X (1 .. MaxRetries)
Absent   == Fragments + 1
NoTool   == [exit |-> "none", written |-> 0, marked |-> FALSE]
Untold   == [fragments |-> 0, done |-> FALSE]

\* Type invariant.
KickTypeOK ==
  /\ run \in 0 .. MaxRuns /\ saves \in BOOLEAN /\ cancel \in BOOLEAN
  /\ pc \in Working \cup Ended \cup {"idle"} /\ attempt \in 0 .. MaxRetries
  /\ tool \in [exit : {"none", "run", "ok", "bad"}, written : 0 .. Fragments, marked : BOOLEAN]
  /\ told \in [fragments : 0 .. Fragments, done : BOOLEAN]
  /\ partials \in [Attempts -> 0 .. Absent] /\ finals \in [Attempts -> 0 .. Absent]

Init ==
  /\ run = 0 /\ saves = FALSE /\ cancel = FALSE /\ pc = "idle" /\ attempt = 0
  /\ tool = NoTool /\ told = Untold
  /\ partials = [a \in Attempts |-> Absent] /\ finals = [a \in Attempts |-> Absent]

Goto(p) == pc' = p
End(how) == Goto(how) /\ attempt' = 0 /\ tool' = NoTool /\ told' = Untold

\* The file of this attempt: its name has a new UUID.
Output == <<run, attempt>>

----------------------------------------------------------------------------
(* The task.                                                               *)

Begin ==
  /\ pc = "idle" /\ run < MaxRuns
  /\ run' = run + 1 /\ saves' \in BOOLEAN /\ cancel' = FALSE
  /\ Goto("metadata") /\ UNCHANGED <<attempt, tool, told, files>>

\* parse_playback: the VOD that was asked for with its source, or not.
Playbacks == {"vod", "another", "encrypted", "sourceless"}
\* parse_variants and select_variant: the chosen quality is in the list, or not.
Variants  == {"listed", "gone"}
\* validate_media_playlist: at its end and as long as the VOD, or not.
Playlists == {"whole", "open", "short"}

\* load_metadata, and expected_fragment_count for a download; both give way to a cancellation.
Metadata ==
  /\ pc = "metadata"
  /\ \E playback \in Playbacks, variant \in Variants, playlist \in Playlists :
       IF \/ cancel \/ playback # "vod" \/ variant = "gone"
          \/ saves /\ playlist # "whole"
       THEN End("failed")
       ELSE IF saves THEN Goto("attempt") /\ UNCHANGED <<attempt, tool, told>>
       ELSE End("published")
  /\ UNCHANGED <<job, files>>

\* The next attempt, with an empty file that was not there before.
Attempt ==
  /\ pc = "attempt" /\ UNCHANGED <<job, finals>>
  /\ IF cancel THEN End("returned") /\ UNCHANGED partials
     ELSE \/ End("failed") /\ UNCHANGED partials                \* the file cannot be created
          \/ /\ attempt' = attempt + 1 /\ Goto("download")
             /\ partials' = [partials EXCEPT ![Output'] = 0]
             /\ tool' = [NoTool EXCEPT !.exit = "run"] /\ told' = Untold

\* What the pipes have carried is read.
Read ==
  /\ pc \in {"download", "drain"}
  /\ told' = [fragments |-> tool.written, done |-> tool.marked]
  /\ UNCHANGED <<job, pc, attempt, tool, files>>

FailAttempt ==
  IF cancel THEN End("returned")
  ELSE IF attempt = MaxRetries THEN End("failed")
  ELSE Goto("wait") /\ tool' = NoTool /\ told' = Untold /\ UNCHANGED attempt

\* The loop of download_ts sees the exit; starting yt-dlp and looking at it may fail as well.
SeeExit ==
  /\ pc = "download"
  /\ \/ /\ tool.exit # "run" /\ (cancel \/ tool.exit = "ok")
        /\ Goto("drain") /\ UNCHANGED <<attempt, tool, told>>
     \/ ~(cancel \/ tool.exit = "ok") /\ FailAttempt
  /\ UNCHANGED <<job, files>>

\* Five seconds after a cancellation the task stops waiting for yt-dlp, dead or not.
\* Mutant: it waits for the exit.
LateExit == tool.exit # "run"
Deadline == TRUE
GiveUpWaiting ==
  /\ pc = "download" /\ cancel /\ Deadline
  /\ End("returned") /\ UNCHANGED <<job, files>>

\* The file is complete: it has data, yt-dlp named its end, the last fragment was reported, and
\* it looks like MPEG-TS.
\* Mutant: the end marker is enough.
Marked == told.done /\ partials[Output] > 0
Complete == told.done /\ partials[Output] > 0 /\ told.fragments = Fragments

\* The pipes are at their end, or two seconds are over: what was not read is not counted.
Judge ==
  /\ pc = "drain"
  /\ IF cancel THEN End("returned")
     ELSE \/ Complete /\ Goto("publish") /\ UNCHANGED <<attempt, tool, told>>
          \/ FailAttempt
  /\ UNCHANGED <<job, files>>

\* publish_ts: a move without replacement; its failure ends the job, the partial file stays.
Publish ==
  /\ pc = "publish"
  /\ IF cancel THEN End("returned") /\ UNCHANGED files
     ELSE \/ End("failed") /\ UNCHANGED files
          \/ /\ End("published")
             /\ finals' = [finals EXCEPT ![Output] = partials[Output]]
             /\ partials' = [partials EXCEPT ![Output] = Absent]
  /\ UNCHANGED job

Wait ==
  /\ pc = "wait"
  /\ IF cancel THEN End("returned") ELSE Goto("attempt") /\ UNCHANGED <<attempt, tool, told>>
  /\ UNCHANGED <<job, files>>

----------------------------------------------------------------------------
(* yt-dlp, the user and the machine.                                       *)

Fetch ==
  /\ tool.exit = "run" /\ tool.written < Fragments
  /\ tool' = [tool EXCEPT !.written = @ + 1]
  /\ partials' = [partials EXCEPT ![Output] = tool.written + 1]
  /\ UNCHANGED <<job, pc, attempt, told, finals>>

\* yt-dlp ends, at its end or before, having said so or not; a cancellation terminates it, if it
\* can be terminated.
Exit ==
  /\ tool.exit = "run"
  /\ \E how \in {"ok", "bad"}, marked \in BOOLEAN :
       tool' = [tool EXCEPT !.exit = how, !.marked = marked]
  /\ UNCHANGED <<job, pc, attempt, told, files>>

Flag ==
  /\ pc \in Working /\ cancel' = TRUE
  /\ UNCHANGED <<run, saves, pc, attempt, tool, told, files>>

Over ==
  /\ pc \in Ended /\ Goto("idle") /\ cancel' = FALSE
  /\ UNCHANGED <<run, saves, attempt, tool, told, files>>

Crash ==
  /\ pc \in Working /\ End("idle") /\ cancel' = FALSE
  /\ UNCHANGED <<run, saves, files>>

TaskStep ==
  Metadata \/ Attempt \/ SeeExit \/ GiveUpWaiting \/ Judge \/ Publish \/ Wait

Next == Begin \/ TaskStep \/ Read \/ Fetch \/ Exit \/ Flag \/ Over \/ Crash

Spec     == Init /\ [][Next]_vars
\* The task's own steps only: its requests have timeouts, but nothing makes yt-dlp exit.
FairSpec == Spec /\ WF_vars(TaskStep)

----------------------------------------------------------------------------
(* Properties.                                                             *)

\* What DownloadRun sees of a job.
Phase == IF pc \in Working THEN "work" ELSE pc
Kept  == {r \in 1 .. MaxRuns : \E a \in 1 .. MaxRetries : finals[<<r, a>>] = Fragments}

\* A run of a KICK job is a run as the facade and the queue know it: what it reports COMPLETED
\* has every fragment, although yt-dlp can succeed without, and stays.
Run == INSTANCE DownloadRun WITH phase <- Phase, kept <- Kept
KickRun == Run!Spec

\* What an attempt downloaded is never touched by a later attempt or job: it stays as it was, or
\* is moved to its final name (download_with_retries).
EarlierFilesStay ==
  [][\A a \in Attempts : partials[a] # Absent /\ (tool.exit # "run" \/ a # <<run, attempt>>)
       => partials'[a] = partials[a] \/ finals'[a] = partials[a]]_vars

\* A cancelled job ends even when yt-dlp cannot be terminated (cancel_deadline).
CancelEnds == pc \in Working /\ cancel ~> pc \notin Working

\* A KICK job keeps its promise, and every file that was downloaded before.
KickIsSound == []KickTypeOK /\ KickRun /\ EarlierFilesStay
=============================================================================
