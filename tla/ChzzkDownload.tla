--------------------------- MODULE ChzzkDownload ---------------------------
(***************************************************************************)
(* CHZZK VOD jobs of several processes that share the working directory and *)
(* the output directory (platform/chzzk/vod.rs): job directories owned by a *)
(* lock, the Streamlink-to-FFmpeg pipe, and the claim under which a         *)
(* finished file gets its final name.                                       *)
(*                                                                         *)
(* Locks are advisory locks of open files: a lock belongs to an inode, not  *)
(* to a path, and goes with its process.  A file is known by the job that   *)
(* wrote it; `name` counts the collision names of one date, streamer and    *)
(* title, which is all that two jobs can meet on.                           *)
(***************************************************************************)
EXTENDS Naturals, FiniteSets, FiniteSetsExt

CONSTANTS
  Procs,     \* the processes
  NoProc,    \* not a process
  LastName,  \* bound: collision names (9999 in the code)
  MaxRetries,\* attempts of a job (max_retries)
  MaxRuns    \* bound: jobs of one process

VARIABLES
  job,      \* [Procs -> the job of the process and the locals of its task]
  dirs,     \* the chzzk-* job directories on the disk: <<process, run>>
  creation, \* the process that holds the creation lock, or NoProc
  anchors,  \* [Names -> inode of the claim sidecar, or None]
  finals,   \* [Names -> the file under that final name, or NoFile]
  temps,    \* [Names -> its .finalizing file, or NoFile]
  reported  \* history: the COMPLETED downloads, [proc, run, name]

disk == <<dirs, creation, anchors, finals, temps>>
vars == <<job, disk, reported>>

None    == 0
Names   == 1 .. LastName
Inodes  == 1 .. (LastName + Cardinality(Procs))
Runs    == 1 .. MaxRuns
Writers == (Procs \X Runs) \cup {<<NoProc, None>>}   \* the last one: a program of the user's
NoFile  == [by |-> <<>>, whole |-> FALSE]
File    == [by : Writers, whole : BOOLEAN]
Exits   == {"none", "run", "ok", "early", "bad"}     \* "early": FFmpeg before Streamlink's end
Ended   == {"published", "returned", "failed"}
Working == {"dir", "naming", "owning", "metadata", "look", "lock", "recheck", "attempt", "pipe",
            "finalize", "copy", "copying", "copied"}
NoJob   == [run |-> 0, saves |-> FALSE, cancel |-> FALSE, pc |-> "boot", attempt |-> 0,
            streamlink |-> "none", ffmpeg |-> "none", staged |-> "none", owner |-> FALSE,
            name |-> None, inode |-> None, claim |-> FALSE]

Jobs    == [run : 0 .. MaxRuns, saves : BOOLEAN, cancel : BOOLEAN,
            pc : Working \cup Ended \cup {"boot", "idle"},
            attempt : 0 .. MaxRetries, streamlink : Exits, ffmpeg : Exits,
            staged : {"none", "partial", "whole"}, owner : BOOLEAN,
            name : 0 .. LastName + 1, inode : Inodes \cup {None}, claim : BOOLEAN]

\* Type invariant.
ChzzkTypeOK ==
  /\ job \in [Procs -> Jobs]
  /\ dirs \subseteq Procs \X Runs /\ creation \in Procs \cup {NoProc}
  /\ anchors \in [Names -> Inodes \cup {None}]
  /\ finals \in [Names -> File \cup {NoFile}] /\ temps \in [Names -> File \cup {NoFile}]
  /\ reported \subseteq [proc : Procs, run : Runs, name : Names]

Init ==
  /\ job = [p \in Procs |-> NoJob]
  /\ dirs = {} /\ creation = NoProc
  /\ anchors = [n \in Names |-> None]
  /\ finals = [n \in Names |-> NoFile] /\ temps = [n \in Names |-> NoFile]
  /\ reported = {}

----------------------------------------------------------------------------
(* Helpers.                                                                *)

At(p, pc)      == job[p].pc = pc
Become(p, j)   == job' = [job EXCEPT ![p] = j]
Goto(p, pc)    == Become(p, [job[p] EXCEPT !.pc = pc])
Self(p)        == <<p, job[p].run>>
Target(p)      == job[p].name
Exists(n)      == finals[n] # NoFile
Locked(i)      == \E q \in Procs : job[q].claim /\ job[q].inode = i
OwnedDirs      == {Self(q) : q \in {q \in Procs : job[q].owner}}
FreeInode      == Min(Inodes \ ({anchors[n] : n \in Names} \cup {job[q].inode : q \in Procs}))

\* Drop of DestinationClaim: its .finalizing file goes, then the lock; the sidecar stays.
\* Mutant: the sidecar is unlinked with the lock.
UnlinkedAnchors(p) == IF job[p].claim THEN [anchors EXCEPT ![Target(p)] = None] ELSE anchors
AnchorsAfter(p) == anchors
TempsAfter(p) == IF job[p].claim THEN [temps EXCEPT ![Target(p)] = NoFile] ELSE temps
Unclaimed(j)  == [j EXCEPT !.claim = FALSE, !.inode = None, !.name = None]

\* The task's function returns, and its guards run: the claim, the job directory.
End(p, how) ==
  /\ Become(p, [Unclaimed(job[p]) EXCEPT !.pc = how, !.owner = FALSE, !.staged = "none",
                                         !.streamlink = "none", !.ffmpeg = "none", !.attempt = 0])
  /\ temps' = TempsAfter(p) /\ anchors' = AnchorsAfter(p)
  /\ dirs' = dirs \ {Self(p)}
  /\ creation' = IF creation = p THEN NoProc ELSE creation
Gone(p, how) == End(p, how) /\ UNCHANGED <<finals, reported>>

\* collision_candidate: on to the next name, or back to the first one.
LookAt(p, n) == Become(p, [Unclaimed(job[p]) EXCEPT !.pc = "look", !.name = n])

\* The file appeared under the final name meanwhile: the claim is dropped for another one.
Collide(p) ==
  /\ LookAt(p, 1)
  /\ temps' = TempsAfter(p) /\ anchors' = AnchorsAfter(p)
  /\ UNCHANGED <<dirs, creation, finals, reported>>

----------------------------------------------------------------------------
(* The process and its job directory.                                      *)

\* cleanup_stale_job_dirs, when the manager is created: directories without an owner go.
Scavenge(p) ==
  /\ At(p, "boot") /\ creation = NoProc /\ Goto(p, "idle")
  /\ dirs' = dirs \cap OwnedDirs
  /\ UNCHANGED <<creation, anchors, finals, temps, reported>>

Begin(p) ==
  /\ At(p, "idle") /\ job[p].run < MaxRuns
  /\ \E saves \in BOOLEAN :
       Become(p, [NoJob EXCEPT !.pc = "dir", !.run = job[p].run + 1, !.saves = saves])
  /\ UNCHANGED <<disk, reported>>

\* job_dir, under the creation lock: a directory with its lock file, renamed into place, then owned.
PrepareDir(p) ==
  /\ At(p, "dir") /\ creation = NoProc
  /\ creation' = p /\ Goto(p, "naming")
  /\ UNCHANGED <<dirs, anchors, finals, temps, reported>>

NameDir(p) ==
  /\ At(p, "naming")
  /\ \/ /\ dirs' = dirs \cup {Self(p)} /\ Goto(p, "owning")
        /\ UNCHANGED <<creation, anchors, finals, temps, reported>>
     \/ Gone(p, "failed")

OwnDir(p) ==
  /\ At(p, "owning")
  /\ \/ /\ Become(p, [job[p] EXCEPT !.pc = "metadata", !.owner = TRUE])
        /\ creation' = NoProc
        /\ UNCHANGED <<dirs, anchors, finals, temps, reported>>
     \/ Gone(p, "failed")

\* chzzk_cookie_file: no cookies, both of them, or one, which is refused.
CookieFiles == {"none", "both", "half"}
\* The video's details: titled, or an HTTP error, another code, no content or no title.
Details == {"titled", "refused"}
\* What Streamlink can open: at least "best", or nothing.
Streams == {{}, {"best"}}

\* load_chzzk_metadata, all of which gives way to a cancellation; an analysis is READY with it.
Metadata(p) ==
  /\ At(p, "metadata")
  /\ \E cookies \in CookieFiles, details \in Details, streams \in Streams :
       IF job[p].cancel \/ cookies = "half" \/ details = "refused" \/ streams = {}
       THEN Gone(p, "failed")
       ELSE IF job[p].saves THEN LookAt(p, 1) /\ UNCHANGED <<disk, reported>>
       ELSE Gone(p, "published")

----------------------------------------------------------------------------
(* claim_collision_path.                                                   *)

\* The first look at a name, and the sidecar opened or created.
Look(p) ==
  LET n == job[p].name
  IN /\ At(p, "look")
     /\ IF n > LastName THEN Gone(p, "failed")
        ELSE IF Exists(n) THEN LookAt(p, n + 1) /\ UNCHANGED <<disk, reported>>
        ELSE LET i == IF anchors[n] = None THEN FreeInode ELSE anchors[n]
             IN /\ anchors' = [anchors EXCEPT ![n] = i]
                /\ Become(p, [job[p] EXCEPT !.pc = "lock", !.inode = i])
                /\ UNCHANGED <<dirs, creation, finals, temps, reported>>

\* try_lock_exclusive.
Lock(p) ==
  /\ At(p, "lock")
  /\ IF Locked(job[p].inode) THEN LookAt(p, job[p].name + 1)
     ELSE Become(p, [job[p] EXCEPT !.pc = "recheck", !.claim = TRUE])
  /\ UNCHANGED <<disk, reported>>

\* The second look, with the lock held; a .finalizing file of an earlier holder goes.  A job that
\* came here after a collision still has its download.
Recheck(p) ==
  /\ At(p, "recheck")
  /\ IF Exists(Target(p)) THEN LookAt(p, job[p].name + 1) /\ UNCHANGED temps
     ELSE /\ Goto(p, IF job[p].staged = "none" THEN "attempt" ELSE "finalize")
          /\ temps' = [temps EXCEPT ![Target(p)] = NoFile]
  /\ UNCHANGED <<dirs, creation, anchors, finals, reported>>

----------------------------------------------------------------------------
(* The attempts and the pipe.                                              *)

Attempt(p) ==
  /\ At(p, "attempt")
  /\ IF job[p].cancel THEN Gone(p, "returned")
     ELSE /\ Become(p, [job[p] EXCEPT !.pc = "pipe", !.attempt = @ + 1, !.staged = "partial",
                                      !.streamlink = "run", !.ffmpeg = "run"])
          /\ UNCHANGED <<disk, reported>>

\* What the attempt leaves in the job directory is removed; the last attempt ends the job.
FailAttempt(p) ==
  IF job[p].attempt = MaxRetries THEN Gone(p, "failed")
  ELSE /\ Become(p, [job[p] EXCEPT !.pc = "attempt", !.staged = "none", !.streamlink = "none",
                                   !.ffmpeg = "none"])
       /\ UNCHANGED <<disk, reported>>

\* Either program may fail to start, or exit, at any time, with or without success.  An FFmpeg
\* that ends well before it was given everything is found out by the pump's next write.
StreamlinkExits(p) ==
  /\ At(p, "pipe") /\ job[p].streamlink = "run"
  /\ \E how \in {"ok", "bad"} : Become(p, [job[p] EXCEPT !.streamlink = how])
  /\ UNCHANGED <<disk, reported>>

FFmpegExits(p) ==
  /\ At(p, "pipe") /\ job[p].ffmpeg = "run"
  /\ \/ Become(p, [job[p] EXCEPT !.ffmpeg = "bad"])
     \/ /\ job[p].streamlink = "run" /\ Become(p, [job[p] EXCEPT !.ffmpeg = "early"])
     \/ /\ job[p].streamlink = "ok"
        /\ Become(p, [job[p] EXCEPT !.ffmpeg = "ok", !.staged = "whole"])
  /\ UNCHANGED <<disk, reported>>

\* Whether the pipe delivered everything: both programs ended well, Streamlink first.
\* Mutant: FFmpeg's success is enough.
MuxerDone(p) == job[p].ffmpeg \in {"ok", "early"}
Piped(p) == job[p].streamlink = "ok" /\ job[p].ffmpeg = "ok"
Broken(p) ==
  \/ "bad" \in {job[p].streamlink, job[p].ffmpeg}
  \/ job[p].streamlink = "ok" /\ job[p].ffmpeg = "early"

\* The loop of run_streamlink_download: a cancellation ends both programs, the failure of one
\* ends the other; an empty result fails.
Observe(p) ==
  /\ At(p, "pipe")
  /\ \/ job[p].cancel /\ Gone(p, "returned")
     \/ (Broken(p) \/ Piped(p)) /\ FailAttempt(p)
     \/ Piped(p) /\ Goto(p, "finalize") /\ UNCHANGED <<disk, reported>>

----------------------------------------------------------------------------
(* finalize_output and publish_by_copy.                                    *)

Complete(p, file) ==
  /\ finals' = [finals EXCEPT ![Target(p)] = file]
  /\ reported' = reported \cup {[proc |-> p, run |-> job[p].run, name |-> Target(p)]}
  /\ End(p, "published")

\* A hard link never replaces what is there.
MustYield(n) == Exists(n)

LinkOrCopy(p) ==
  /\ At(p, "finalize")
  /\ IF job[p].cancel THEN Gone(p, "returned")
     ELSE IF MustYield(Target(p)) THEN Collide(p)
     ELSE \/ Complete(p, [by |-> Self(p), whole |-> job[p].staged = "whole"])
          \/ Goto(p, "copy") /\ UNCHANGED <<disk, reported>>

CopyBegins(p) ==
  /\ At(p, "copy")
  /\ IF MustYield(Target(p)) THEN Collide(p)
     ELSE IF job[p].cancel THEN Gone(p, "returned")
     ELSE /\ temps' = [temps EXCEPT ![Target(p)] = [by |-> Self(p), whole |-> FALSE]]
          /\ Goto(p, "copying")
          /\ UNCHANGED <<dirs, creation, anchors, finals, reported>>

Copy(p) ==
  /\ At(p, "copying")
  /\ \/ job[p].cancel /\ Gone(p, "returned")
     \/ Gone(p, "failed")
     \/ /\ temps' = IF temps[Target(p)].by = Self(p)
                    THEN [temps EXCEPT ![Target(p)].whole = job[p].staged = "whole"]
                    ELSE temps                      \* written to a file that has no name any more
        /\ Goto(p, "copied")
        /\ UNCHANGED <<dirs, creation, anchors, finals, reported>>

CopyLinks(p) ==
  /\ At(p, "copied")
  /\ IF job[p].cancel THEN Gone(p, "returned")
     ELSE IF temps[Target(p)] = NoFile THEN Gone(p, "failed")
     ELSE IF MustYield(Target(p)) THEN Collide(p)
     ELSE Complete(p, temps[Target(p)]) \/ Gone(p, "failed")

----------------------------------------------------------------------------
(* Everyone else.                                                          *)

Flag(p) ==
  /\ job[p].pc \in Working /\ Become(p, [job[p] EXCEPT !.cancel = TRUE])
  /\ UNCHANGED <<disk, reported>>

Over(p) ==
  /\ job[p].pc \in Ended
  /\ Become(p, [job[p] EXCEPT !.pc = "idle", !.cancel = FALSE])
  /\ UNCHANGED <<disk, reported>>

\* The process dies: its locks go, its files stay.
Crash(p) ==
  /\ job[p].pc \in Working
  /\ Become(p, [NoJob EXCEPT !.run = job[p].run, !.saves = job[p].saves])
  /\ creation' = IF creation = p THEN NoProc ELSE creation
  /\ UNCHANGED <<dirs, anchors, finals, temps, reported>>

\* Another program puts a file where the next download would go.
Foreign(n) ==
  /\ ~Exists(n)
  /\ finals' = [finals EXCEPT ![n] = [by |-> <<NoProc, None>>, whole |-> TRUE]]
  /\ UNCHANGED <<job, dirs, creation, anchors, temps, reported>>

TaskStep(p) ==
  \/ PrepareDir(p) \/ NameDir(p) \/ OwnDir(p) \/ Metadata(p) \/ Look(p) \/ Lock(p) \/ Recheck(p)
  \/ Attempt(p) \/ StreamlinkExits(p) \/ FFmpegExits(p) \/ Observe(p) \/ LinkOrCopy(p)
  \/ CopyBegins(p) \/ Copy(p) \/ CopyLinks(p)

Next ==
  \/ \E p \in Procs : Scavenge(p) \/ Begin(p) \/ TaskStep(p) \/ Flag(p) \/ Over(p) \/ Crash(p)
  \/ \E n \in Names : Foreign(n)

Spec     == Init /\ [][Next]_vars
\* Requests, captures and the two programs come to their ends, and the creation lock, which is
\* waited for, is granted to each process in turn.
FairSpec == Spec /\ \A p \in Procs : WF_vars(TaskStep(p)) /\ SF_vars(PrepareDir(p))

----------------------------------------------------------------------------
(* Properties.                                                             *)

\* What DownloadRun sees of a job.
Phase(p) == IF job[p].pc \in Working THEN "work" ELSE IF job[p].pc = "boot" THEN "idle" ELSE job[p].pc
Kept(p)  == {r.run : r \in {r \in reported : /\ r.proc = p
                                            /\ finals[r.name].whole
                                            /\ finals[r.name].by = <<p, r.run>>}}

\* The run of a job of any process is a run as the facade and the queue know it: COMPLETED only
\* with a whole file of its own under the reported name, which neither another process, nor a
\* collision, nor a crash ever takes away again; a quiet end only after a cancellation.
Run(p) == INSTANCE DownloadRun WITH
  run <- job[p].run, saves <- job[p].saves, cancel <- job[p].cancel, phase <- Phase(p), kept <- Kept(p)
RunInit(p) == Run(p)!Init
RunStep(p) == Run(p)!Next \/ UNCHANGED Run(p)!vars
ChzzkRuns == (\A p \in Procs : RunInit(p)) /\ [][\A p \in Procs : RunStep(p)]_vars

\* No file under a final name is ever replaced or removed, whoever put it there and however late
\* (hard_link in finalize_output and publish_by_copy).
NothingReplaced == [][\A n \in Names : Exists(n) => finals'[n] = finals[n]]_vars

\* Two processes never hold the claim of one name, so that no .finalizing file has two writers
\* (the sidecar that outlives its claim; claim_collision_path, Drop of DestinationClaim).
ClaimsAreExclusive ==
  \A p, q \in Procs : p # q /\ job[p].claim /\ job[q].claim => Target(p) # Target(q)

\* The directory of a running job is never scavenged by a process that starts meanwhile
\* (root_creation_lock, owner.lock).
LiveDirStays == \A p \in Procs : job[p].owner => Self(p) \in dirs

\* A job that ended leaves neither its directory with the cookies nor a .finalizing file.
ChzzkTidy ==
  \A p \in Procs : job[p].pc \in Ended =>
    Self(p) \notin dirs /\ \A n \in Names : temps[n].by # Self(p)

\* What a job claims is its own: names, its directory while it runs, and nothing once it ended.
ChzzkOwnsItsFiles == ChzzkTypeOK /\ ClaimsAreExclusive /\ LiveDirStays /\ ChzzkTidy

\* Every job comes to its end, through failed attempts, collisions and waiting for locks.
ChzzkJobsEnd == \A p \in Procs : job[p].pc \in Working ~> job[p].pc \notin Working
=============================================================================
