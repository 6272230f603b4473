---------------------------- MODULE SoopDownload ----------------------------
(***************************************************************************)
(* One SOOP VOD job after another (platform/soop/vod.rs): cookies, the PART *)
(* list, the signed manifest, yt-dlp with its resumable `.part` file, the   *)
(* retry budget, the merge, and the files all of it leaves in the output    *)
(* directory.  Cancellation, expiring cookies, a PART list that changes, a  *)
(* failing tool and a crash of the program may come at any point.           *)
(*                                                                         *)
(* A file name is a PART (or Merged, for the merged file) and the number of *)
(* its collision suffix: neither names the VOD or its quality.  What a file *)
(* holds is a set of pieces, a piece being a PART of one `source`: the URL  *)
(* path, streamer and PART count, or another VOD or quality.                *)
(***************************************************************************)
EXTENDS Naturals, FiniteSets, FiniteSetsExt

CONSTANTS
  Parts,       \* the PARTs a VOD has
  Names,       \* bound: collision suffixes (0 .. 9999 in the code)
  MaxBytes,    \* bound: the length of a PART
  MaxRetries,  \* consecutive failures that end a PART (max_retries)
  MaxSources,  \* bound: sources the server ever has
  MaxRuns,     \* bound: jobs
  Reuses       \* whether a crash's `.part` may meet a job of another source

ASSUME SoopAssumption ==
  /\ Parts \subseteq Nat \ {0} /\ IsFiniteSet(Parts)
  /\ Names \subseteq Nat /\ IsFiniteSet(Names)
  /\ {MaxBytes, MaxRetries, MaxSources, MaxRuns} \subseteq Nat \ {0}
  /\ Reuses \in BOOLEAN

VARIABLES
  source,    \* the source the server has now
  run, job,  \* number of the last job, and its request
  cancel,    \* the job's cancel flag
  pc, task,  \* where run_analysis or run_download is, and its locals
  jar,       \* the cookie jar of the job
  cookies,   \* the cookies.txt of the job directory, for yt-dlp
  dirs,      \* the job directories on the disk
  finals,    \* the output files under their final names
  partials,  \* their `.part` and `.ytdl` files
  touched,   \* history: names this job downloaded to
  finished,  \* history: files accepted as a whole PART, with their pieces
  results    \* history: what each COMPLETED download reported

auth  == <<jar, cookies>>
files == <<finals, partials, touched, finished>>
vars  == <<source, run, job, cancel, pc, task, auth, dirs, files, results>>

Merged   == 0
None     == 0
Sources  == 1 .. MaxSources
Targets  == (Parts \cup {Merged}) \X Names
NoTarget == <<>>
Pieces   == Sources \X Parts
NoFile   == [of |-> {}, whole |-> FALSE]
NoPart   == [of |-> {}, bytes |-> 0]
\* A jar: a login cookie, and the three signed cookies ("none" also when one is missing).
Jar      == [login : BOOLEAN, cf : {"none", "fresh", "stale"}]
EmptyJar == [login |-> FALSE, cf |-> "none"]
Working  == {"login", "listing", "analyse", "select", "top", "renew", "refresh", "authorize",
             "prepare", "tool", "merge", "merging", "removing"}
Ended    == {"published", "returned", "failed"}
Idle     == [left |-> {}, part |-> None, target |-> NoTarget, files |-> {}, again |-> FALSE,
             failures |-> 0, retained |-> 0, seen |-> None, expired |-> FALSE, private |-> FALSE]

\* Type invariant.
SoopTypeOK ==
  /\ source \in Sources /\ run \in 0 .. MaxRuns /\ cancel \in BOOLEAN
  /\ job \in [saves : BOOLEAN, want : SUBSET Parts, merge : BOOLEAN, account : BOOLEAN,
              guarded : BOOLEAN]
  /\ pc \in Working \cup Ended \cup {"idle"}
  /\ task \in [left : SUBSET Parts, part : Parts \cup {None}, target : Targets \cup {NoTarget},
               files : SUBSET Targets, again : BOOLEAN, failures : 0 .. MaxRetries,
               retained : 0 .. MaxBytes, seen : Sources \cup {None}, expired : BOOLEAN,
               private : BOOLEAN]
  /\ jar \in Jar /\ cookies \in Jar /\ dirs \subseteq 1 .. MaxRuns
  /\ finals \in [Targets -> [of : SUBSET Pieces, whole : BOOLEAN]]
  /\ partials \in [Targets -> [of : SUBSET Pieces, bytes : 0 .. MaxBytes]]
  /\ touched \subseteq Targets
  /\ finished \subseteq [target : Targets, part : Parts]
  /\ results \subseteq [run : 1 .. MaxRuns, files : SUBSET Targets, parts : SUBSET Parts]

Init ==
  /\ source = 1 /\ run = 0 /\ cancel = FALSE
  /\ job = [saves |-> FALSE, want |-> {}, merge |-> FALSE, account |-> TRUE, guarded |-> FALSE]
  /\ pc = "idle" /\ task = Idle /\ jar = EmptyJar /\ cookies = EmptyJar /\ dirs = {}
  /\ finals = [t \in Targets |-> NoFile] /\ partials = [t \in Targets |-> NoPart]
  /\ touched = {} /\ finished = {} /\ results = {}

----------------------------------------------------------------------------
(* Steps of the task, their ends, and what the ends clean up.              *)

At(p)   == pc = p
Goto(p) == pc' = p

\* cleanup_incomplete, and the guard of the PART in progress.
\* Mutant: a failed job keeps its fragments for the next one.
CleanedIfAsked ==
  IF task.target = NoTarget \/ ~cancel THEN partials ELSE [partials EXCEPT ![task.target] = NoPart]
Cleaned == IF task.target = NoTarget THEN partials ELSE [partials EXCEPT ![task.target] = NoPart]

\* The job's function returns: the guards of the PART and of the job directory run.
End(how) ==
  /\ Goto(how) /\ task' = Idle /\ dirs' = dirs \ {run}
  /\ partials' = Cleaned

Gone(how) == End(how) /\ UNCHANGED <<source, run, job, cancel, auth, finals, touched, finished, results>>
Step(p)   == Goto(p) /\ UNCHANGED <<source, run, job, cancel, dirs, files, results>>

\* collision_path: the first name of a PART, or of the merged file, nothing occupies.
FreeNames(p) == {n \in Names : finals[<<p, n>>] = NoFile}
CollisionPath(p) == <<p, Min(FreeNames(p))>>

\* RetryBudget::failed, after the attempt: an attempt is free only when more is retained
\* than after any attempt before.
Budget(left) ==
  IF left.bytes > task.retained
  THEN [task EXCEPT !.failures = 1, !.retained = left.bytes]
  ELSE [task EXCEPT !.failures = @ + 1]

\* A failed attempt: another one, or the end of the job.  Its final file is removed.
FailAttempt(expired, left) ==
  LET spent == [Budget(left) EXCEPT !.expired = expired]
  IN IF spent.failures < MaxRetries
     THEN Goto("top") /\ task' = spent /\ UNCHANGED <<dirs, partials>>
     ELSE End("failed")

----------------------------------------------------------------------------
(* Cookies and manifests.  Each operator is the set of possible outcomes.  *)

\* init_cookie: a fresh login has no signed cookies; a cookie file or browser may have any.
BaseJars == IF job.account THEN {[login |-> TRUE, cf |-> "none"]} ELSE Jar \ {EmptyJar}

\* refresh_authorization: the signed cookies are dropped first; an answer without all of them
\* fails after repair_cloudfront_scope has emptied the jar.
RefreshResults(j) ==
  {[ok |-> TRUE,  jar |-> [j EXCEPT !.cf = "fresh"]],
   [ok |-> FALSE, jar |-> [j EXCEPT !.cf = "none"]],
   [ok |-> FALSE, jar |-> EmptyJar]}

\* probe_manifest: what the media server answers.
Probes(j) == IF job.guarded /\ j.cf # "fresh" THEN {"denied", "error"} ELSE {"ok", "error"}

\* prepare_manifest: signed cookies when the metadata asks for them, and once more when the
\* server denies the manifest.
Probed(j) ==
  {[ok |-> a = "ok", jar |-> j] : a \in Probes(j) \ {"denied"}}
    \cup (IF "denied" \notin Probes(j) THEN {}
          ELSE IF ~j.login THEN {[ok |-> FALSE, jar |-> j]}
          ELSE {[ok |-> r.ok /\ a = "ok", jar |-> r.jar] :
                  r \in RefreshResults(j), a \in {"ok", "error"}})
PrepareResults(j) ==
  IF task.private /\ j.cf = "none"
  THEN IF ~j.login THEN {[ok |-> FALSE, jar |-> j]}
       ELSE {r \in RefreshResults(j) : ~r.ok}
              \cup UNION {Probed(r.jar) : r \in {r \in RefreshResults(j) : r.ok}}
  ELSE Probed(j)

\* load_metadata: what yt-dlp extracts ("gaps": an entry without URL or duration) and what the
\* API answers decide whether there is a PART list.  urls: every extracted entry has its URL.
Listed(extracted, urls, api) ==
  \/ extracted = "full"
  \/ api = "data"                                          \* completes, or replaces, the list
  \/ extracted = "gaps" /\ urls /\ api \in {"odd", "error"}  \* not "denied"
\* Whether that list says the VOD is private: the extractor may miss it, the API does not.
Privacy(extracted, api) ==
  IF ~job.guarded THEN {FALSE}
  ELSE IF extracted # "full" /\ api = "data" THEN {TRUE} ELSE BOOLEAN
Lists == {[ok |-> FALSE]} \cup
  {[ok |-> TRUE, private |-> p] :
     p \in UNION {Privacy(x[1], x[3]) :
       x \in {x \in {"full", "gaps", "none"} \X BOOLEAN \X {"data", "odd", "denied", "error"} :
                Listed(x[1], x[2], x[3])}}}

\* What yt-dlp leaves in cookies.txt: it may acquire fresh signed cookies.
Extracted(c) == {c} \cup (IF c.login /\ job.guarded THEN {[c EXCEPT !.cf = "fresh"]} ELSE {})

----------------------------------------------------------------------------
(* The actions of the task.                                                *)

Begin ==
  /\ pc \in {"idle"} /\ run < MaxRuns
  /\ Reuses \/ \A t \in Targets : partials[t].of \subseteq {source} \X Parts
  /\ run' = run + 1 /\ cancel' = FALSE /\ task' = Idle /\ dirs' = dirs \cup {run + 1}
  /\ job' \in [saves : BOOLEAN, want : SUBSET Parts \ {{}}, merge : BOOLEAN, account : BOOLEAN,
               guarded : BOOLEAN]
  /\ job'.saves \/ (job'.want = Parts /\ ~job'.merge)
  /\ jar' = EmptyJar /\ cookies' = EmptyJar /\ touched' = {}
  /\ Goto("login")
  /\ UNCHANGED <<source, finals, partials, finished, results>>

\* The job's cookies, at its start and again before every further attempt.
GetCookies(from, to) ==
  /\ At(from)
  /\ \/ /\ \E j \in BaseJars : jar' = j /\ cookies' = j
        /\ Step(to) /\ UNCHANGED task
     \/ Gone("failed")

Login == GetCookies("login", "listing")
Renew == GetCookies("renew", "refresh")

\* The first PART list; a job that was cancelled meanwhile fails, and is then CANCELLED.
Metadata ==
  /\ At("listing")
  /\ \/ \E c \in Extracted(cookies), l \in {l \in Lists : l.ok} :
          /\ ~cancel
          /\ jar' = c /\ cookies' = c
          /\ task' = [task EXCEPT !.left = job.want, !.private = l.private]
          /\ Step(IF job.saves THEN "select" ELSE "analyse")
     \/ Gone("failed")

\* run_analysis: READY when the first manifest can be opened.
Analyse ==
  /\ At("analyse")
  /\ \E r \in PrepareResults(jar) :
       /\ jar' = r.jar
       /\ IF r.ok THEN cookies' = r.jar /\ End("published") ELSE UNCHANGED cookies /\ End("failed")
  /\ UNCHANGED <<source, run, job, cancel, finals, touched, finished, results>>

\* The next PART of the loop, under a name nothing occupies.
SelectPart ==
  /\ At("select") /\ task.left # {}
  /\ LET p == Min(task.left)
     IN IF cancel THEN Gone("returned")
        ELSE IF FreeNames(p) = {} THEN Gone("failed")
        ELSE /\ task' = [Idle EXCEPT !.left = task.left \ {p}, !.part = p, !.files = task.files,
                                     !.target = CollisionPath(p)]
             /\ touched' = touched \cup {CollisionPath(p)}
             /\ Goto("top")
             /\ UNCHANGED <<source, run, job, cancel, dirs, auth, finals, partials, finished, results>>

\* COMPLETED.
Publish(outputs) ==
  /\ results' = results \cup {[run |-> run, files |-> outputs, parts |-> job.want]}
  /\ End("published")

\* After the last PART: the merge, or COMPLETED with the files as they are.
PartsDone ==
  /\ At("select") /\ task.left = {}
  /\ IF cancel THEN Gone("returned")
     ELSE IF Cardinality(task.files) > 1 /\ job.merge
     THEN Step("merge") /\ UNCHANGED <<task, auth>>
     ELSE /\ Publish(task.files)
          /\ UNCHANGED <<source, run, job, cancel, auth, finals, touched, finished>>

\* The top of the attempt loop.
Attempt ==
  /\ At("top")
  /\ IF cancel THEN Gone("returned")
     ELSE /\ Step(IF task.again THEN "renew" ELSE "refresh")
          /\ task' = [task EXCEPT !.again = TRUE]
          /\ UNCHANGED auth

\* A download is resumed only from the source it began with.
\* Mutant: the identity is not compared.
AnyIdentity == TRUE
SameIdentity == task.seen \in {None, source}

\* The PART's current URL; a PART whose source changed under a resumed download fails.
Refresh ==
  /\ At("refresh")
  /\ \/ \E c \in Extracted(cookies), l \in {l \in Lists : l.ok} :
          /\ ~cancel /\ SameIdentity
          /\ jar' = c /\ cookies' = c
          /\ task' = [task EXCEPT !.seen = source, !.private = l.private]
          /\ Step("authorize")
     \/ Gone("failed")

\* After a failure that looked like an expired authorization, signed cookies are renewed first.
Authorize ==
  /\ At("authorize")
  /\ UNCHANGED <<source, run, job, cancel, cookies, finals, touched, finished, results>>
  /\ IF task.expired /\ task.private /\ jar.login
     THEN \E r \in RefreshResults(jar) :
            /\ jar' = r.jar
            /\ IF r.ok THEN Goto("prepare") /\ UNCHANGED <<task, dirs, partials>>
               ELSE FailAttempt(task.expired, partials[task.target])
     ELSE Goto("prepare") /\ UNCHANGED <<task, jar, dirs, partials>>

\* The cookies.txt yt-dlp starts with, when j opened the manifest.
CookiesAfter(j) == j

\* yt-dlp starts; it continues the `.part` file of its target or starts it anew.
Prepare ==
  /\ At("prepare")
  /\ \E r \in PrepareResults(jar) :
       /\ jar' = r.jar
       /\ \/ /\ r.ok /\ cookies' = CookiesAfter(r.jar)
             /\ Goto("tool") /\ UNCHANGED <<task, dirs>>
             /\ \/ UNCHANGED partials
                \/ partials' = [partials EXCEPT ![task.target] = NoPart]
          \/ /\ ~r.ok /\ UNCHANGED cookies
             /\ FailAttempt(task.expired, partials[task.target])
  /\ UNCHANGED <<source, run, job, cancel, finals, touched, finished, results>>

\* The download is terminated when the flag is seen; when that fails, so does the attempt.
Terminate ==
  /\ At("tool") /\ cancel
  /\ \/ Gone("returned")
     \/ /\ FailAttempt(FALSE, partials[task.target])
        /\ finals' = [finals EXCEPT ![task.target] = NoFile]
        /\ UNCHANGED <<source, run, job, cancel, auth, touched, finished, results>>

----------------------------------------------------------------------------
(* yt-dlp.                                                                 *)

Allowed == job.guarded => cookies.cf = "fresh"

\* More of the PART reaches its `.part` file.
Fetch ==
  /\ At("tool") /\ Allowed
  /\ finals[task.target] = NoFile /\ partials[task.target].bytes < MaxBytes
  /\ partials' = [partials EXCEPT ![task.target] =
                    [of |-> @.of \cup {<<task.seen, task.part>>}, bytes |-> @.bytes + 1]]
  /\ UNCHANGED <<source, run, job, cancel, pc, task, auth, dirs, finals, touched, finished, results>>

\* The output file when yt-dlp reports success: with --no-overwrites, one that is there already.
Output == IF finals[task.target] # NoFile THEN finals[task.target]
          ELSE [of |-> partials[task.target].of, whole |-> TRUE]

\* yt-dlp succeeds: the next PART, or the end of a job that was cancelled meanwhile.
ToolSucceeds ==
  /\ At("tool")
  /\ finals[task.target] # NoFile \/ (Allowed /\ partials[task.target].bytes = MaxBytes)
  /\ finals' = [finals EXCEPT ![task.target] = Output]
  /\ partials' = [partials EXCEPT ![task.target] = NoPart]
  /\ IF cancel THEN Goto("returned") /\ task' = Idle /\ dirs' = dirs \ {run} /\ UNCHANGED finished
     ELSE /\ Goto("select") /\ UNCHANGED dirs
          /\ task' = [task EXCEPT !.files = @ \cup {task.target}, !.target = NoTarget,
                                  !.part = None]
          /\ finished' = finished \cup {[target |-> task.target, part |-> task.part]}
  /\ UNCHANGED <<source, run, job, cancel, auth, touched, results>>

\* yt-dlp fails, or succeeds without an output file; its postprocessor may have left a broken
\* final file, which is removed before the next attempt.
FailedFinals == [finals EXCEPT ![task.target] = NoFile]
ToolFails ==
  /\ At("tool")
  /\ \E expired \in BOOLEAN : FailAttempt(expired, partials[task.target])
  /\ finals' = FailedFinals
  /\ UNCHANGED <<source, run, job, cancel, auth, touched, finished, results>>

----------------------------------------------------------------------------
(* The merge.                                                              *)

\* FFmpeg, when there is one, writes the merged file under a free name.
MergeBegins ==
  /\ At("merge")
  /\ \/ Gone("failed")
     \/ /\ FreeNames(Merged) # {}
        /\ task' = [task EXCEPT !.target = CollisionPath(Merged)]
        /\ finals' = [finals EXCEPT ![CollisionPath(Merged)] =
                        [of |-> UNION {finals[f].of : f \in task.files}, whole |-> FALSE]]
        /\ Goto("merging")
        /\ UNCHANGED <<source, run, job, cancel, dirs, auth, partials, touched, finished, results>>

\* A merge that fails, is cancelled or is too small is removed; the PARTs stay.
Unmerged == [finals EXCEPT ![task.target] = NoFile]
MergeFails ==
  /\ At("merging")
  /\ finals' = Unmerged
  /\ End("failed")
  /\ UNCHANGED <<source, run, job, cancel, auth, touched, finished, results>>

MergeSucceeds ==
  /\ At("merging") /\ ~cancel
  /\ finals' = [finals EXCEPT ![task.target].whole = TRUE]
  /\ Goto("removing")
  /\ UNCHANGED <<source, run, job, cancel, task, auth, dirs, partials, touched, finished, results>>

\* The PARTs of the merged file are removed one by one; one that cannot be stays.
RemovePart ==
  /\ At("removing") /\ task.files # {}
  /\ LET f == CHOOSE f \in task.files : \A g \in task.files : f[1] <= g[1]
     IN /\ \/ finals' = [finals EXCEPT ![f] = NoFile]
           \/ UNCHANGED finals
        /\ task' = [task EXCEPT !.files = @ \ {f}]
  /\ UNCHANGED <<source, run, job, cancel, pc, auth, dirs, partials, touched, finished, results>>

MergeDone ==
  /\ At("removing") /\ task.files = {}
  /\ Publish({task.target})
  /\ UNCHANGED <<source, run, job, cancel, auth, finals, touched, finished>>

----------------------------------------------------------------------------
(* Everyone else.                                                          *)

\* A cancellation; what one does to a job that has just ended is VodJobs' matter.
Flag ==
  /\ pc \in Working /\ cancel' = TRUE
  /\ UNCHANGED <<source, run, job, pc, task, auth, dirs, files, results>>

\* The signed cookies expire at the server.
Expire ==
  LET Aged(j) == IF j.cf = "fresh" THEN [j EXCEPT !.cf = "stale"] ELSE j
  IN /\ pc \in Working /\ "fresh" \in {jar.cf, cookies.cf}
     /\ jar' = Aged(jar) /\ cookies' = Aged(cookies)
     /\ UNCHANGED <<source, run, job, cancel, pc, task, dirs, files, results>>

\* The server's list changes, or the next VOD or quality is another one.
Change ==
  /\ source < MaxSources /\ source' = source + 1
  /\ Reuses \/ \A t \in Targets : partials[t] # NoPart => t = task.target /\ task.seen # None
  /\ UNCHANGED <<run, job, cancel, pc, task, auth, dirs, files, results>>

Over ==
  /\ pc \in Ended /\ pc' = "idle" /\ cancel' = FALSE
  /\ UNCHANGED <<source, run, job, task, auth, dirs, files, results>>

\* The program dies: yt-dlp and FFmpeg with it, and no guard runs.
Crash ==
  /\ pc \in Working /\ pc' = "idle" /\ cancel' = FALSE /\ task' = Idle
  /\ UNCHANGED <<source, run, job, auth, dirs, files, results>>

TaskStep ==
  \/ Login \/ Renew \/ Metadata \/ Analyse \/ SelectPart \/ PartsDone \/ Attempt \/ Refresh
  \/ Authorize \/ Prepare \/ Terminate \/ MergeBegins \/ RemovePart \/ MergeDone
\* What yt-dlp and FFmpeg do next.
ToolStep == Fetch \/ ToolSucceeds \/ ToolFails \/ MergeFails \/ MergeSucceeds
EnvStep  == Flag \/ Expire \/ Change \/ Over \/ Crash

Next == Begin \/ TaskStep \/ ToolStep \/ EnvStep

Spec     == Init /\ [][Next]_vars
\* The job's steps end by themselves or by the timeouts of their requests and captures; yt-dlp
\* and FFmpeg make progress or exit.
FairSpec == Spec /\ WF_vars(TaskStep) /\ WF_vars(ToolStep)

----------------------------------------------------------------------------
(* Properties.                                                             *)

\* A file holds each of `parts`, and is whole; each from one source, unless a job may continue
\* the `.part` a crash left of another one.
Holds(file, parts) ==
  /\ file.whole
  /\ {p[2] : p \in file.of} = parts
  /\ ~Reuses => Cardinality(file.of) = Cardinality(parts)

\* What a COMPLETED download reported is on the disk.
OnDisk(r) ==
  \/ \E t \in r.files : Holds(finals[t], r.parts)
  \/ \A p \in r.parts : \E t \in r.files : Holds(finals[t], {p})

Phase == IF pc \in Working THEN "work" ELSE pc
Kept  == {r.run : r \in {r \in results : OnDisk(r)}}

\* A run of a job is a run as the facade and the queue know it: it publishes once and only what
\* is complete, of one source and on the disk; nothing later, a crash included, takes it away;
\* and it gives up quietly only when cancelled (run_download, merge_parts).
Run == INSTANCE DownloadRun WITH phase <- Phase, saves <- job.saves, kept <- Kept
SoopRun == Run!Spec

\* A PART that was downloaded stays on the disk, in its own file or in a whole merged one,
\* whatever becomes of the later PARTs, of the merge and of the program (merge_parts removes
\* PARTs only after the merge was checked).
PartsSurvive ==
  \A f \in finished :
    \/ Holds(finals[f.target], {f.part})
    \/ \E t \in {Merged} \X Names :
         finals[t].whole /\ f.part \in {p[2] : p \in finals[t].of}

\* A job that ended, however it did, leaves no fragment of its PARTs and no cookies
\* (PartialDownloadGuard, JobDirGuard).
NoResidue ==
  pc \in Ended => run \notin dirs /\ \A t \in touched : partials[t] = NoPart

\* yt-dlp never runs for a private VOD without signed cookies, fresh or since expired
\* (prepare_manifest and the cookies.txt written after it).
ToolHasCookies == At("tool") /\ job.guarded => cookies.cf # "none"

\* No unfinished file is continued with media of another source.
NeverMixed == \A t \in Targets : Cardinality({p[1] : p \in partials[t].of}) <= 1

\* Every job comes to its end, however often attempts fail, cookies expire and fragments are
\* started anew (RetryBudget).
JobEnds == pc \in Working ~> pc \notin Working

\* A job loses no finished PART, leaves no fragment, and gives the tool its cookies.
SoopFilesAreSound == SoopTypeOK /\ PartsSurvive /\ NoResidue /\ ToolHasCookies
=============================================================================
