---------------------------- MODULE RuntimeParts -----------------------------
(***************************************************************************)
(* Ten parts of the runtime and the desktop application that share no state, *)
(* side by side: each behaviour is one of a single part, the others stay as  *)
(* they begin.  A run over this module checks every part, and each property  *)
(* is the part's own.                                                      *)
(***************************************************************************)
EXTENDS Naturals, Sequences, FiniteSets

CONSTANTS
  Parts,                                               \* the parts of this run
  Fragments, MaxRetries, MaxRuns,                      \* KickDownload
  Procs, NoProc, LastName, MaxTries,                   \* ChzzkDownload
  Providers, Queue, Capacity, MaxEpoch,                \* DownloadEvents
  App, Cli, Keep, MaxData, MaxCopies,                  \* BackupRestore
  Backup, History, Callers,                            \* RuntimeTasks
  Serving, Foreground, Clients, Required, Silent, MaxStarts, \* ControlSocket
  Root, Helpers, Daemons, Limit, MaxOutput,            \* MediaProcess
  MaxJobs,                                             \* DownloadEvents and RuntimeTasks
  Restricted, Guarded, LastBroadcast, LastUser, Retries, MaxChanges, \* LiveSessions
  MaxPending, MaxEvents, MaxRefreshes,                 \* LiveThumbnails
  Urls, NoUrl, MaxLooks, MaxVodJobs                    \* DesktopVod

ASSUME PartsAssumption ==
  /\ Parts \subseteq {"kick", "chzzk", "events", "backup", "tasks", "control", "media", "sessions", "previews", "vod"}
  /\ {Fragments, MaxRetries, MaxRuns, LastName, MaxTries, Capacity, MaxJobs, MaxEpoch, MaxData, MaxCopies, Limit,
      LastBroadcast, LastUser, Retries, MaxPending, MaxVodJobs} \subseteq Nat \ {0}
  /\ {Keep, MaxStarts, MaxOutput, MaxChanges, MaxEvents, MaxRefreshes, MaxLooks} \subseteq Nat
  /\ Restricted \cup Guarded \subseteq 1 .. LastBroadcast /\ NoUrl \notin Urls
  /\ IsFiniteSet(Procs) /\ NoProc \notin Procs /\ Queue \notin Providers
  /\ App # Cli /\ Backup # History /\ Required \subseteq Clients
  /\ Root \notin Helpers \cup Daemons /\ Helpers \cap Daemons = {}

VARIABLES
  part,
  run, saves, cancel, pc, attempt, tool, told, partials, finals,
  task, dirs, creation, anchors, published, temps, reported,
  epoch, on, reporter, ring, change, mail, enabled, notices, shown, lost, ended, inForce, era,
  db, newest, copies, holder, up, busy, active, restore, op, cache, stale, foreign,
  stopping, tasks, draining, working, owner, caller, queue, job, runs, rows, seen, answer,
  lock, socket, phase, stop, server, conn, client, at, ran, starts,
  alive, born, killed, failed, asked, step, outcome, written, read, cut,
  platform, air, settings, listed, config, noted, applied, session, doing, held, attempts, verdict, wasOff,
  unclear, status, display, recording, password, request, changes,
  row, carried, entry, sequence, awaiting, fetches, visible, happened, refreshes,
  draft, generation, waiting, polling, line, facade, videos, sent, picture, picturing, tried, preview

Kick    == INSTANCE KickDownload
Chzzk   == INSTANCE ChzzkDownload WITH
             job <- task, finals <- published, MaxRetries <- MaxTries
Events  == INSTANCE DownloadEvents WITH told <- shown, task <- reporter
Copies  == INSTANCE BackupRestore
Tasks   == INSTANCE RuntimeTasks WITH alive <- working
Control == INSTANCE ControlSocket
Media   == INSTANCE MediaProcess WITH pc <- step
Sessions == INSTANCE LiveSessions
Previews == INSTANCE LiveThumbnails WITH events <- happened
Page    == INSTANCE DesktopVod

\* The parts' processes are different ones, none of them is the mark of a free lock or socket.
ASSUME NamesAssumption ==
  /\ Control!Nobody \notin Control!Owners \cup Control!Peers /\ Control!Owners \cap Clients = {}
  /\ App # Copies!NoOne /\ Cli # Copies!NoOne

kick    == <<run, saves, cancel, pc, attempt, tool, told, partials, finals>>
chzzk   == <<task, dirs, creation, anchors, published, temps, reported>>
events  == <<epoch, on, reporter, ring, change, mail, enabled, notices, shown, lost, ended, inForce, era>>
backup  == <<db, newest, copies, holder, up, busy, active, restore, op, cache, stale, foreign>>
shared  == <<stopping, tasks, draining, working, owner, caller, queue, job, runs, rows, seen, answer>>
control == <<lock, socket, phase, stop, server, conn, client, at, ran, starts>>
media   == <<alive, born, killed, failed, asked, step, outcome, written, read, cut>>
sessions == <<platform, air, settings, listed, config, noted, applied, session, doing, held, attempts, verdict,
              wasOff, unclear, status, display, recording, password, request, changes>>
previews == <<row, carried, entry, sequence, awaiting, fetches, visible, happened, refreshes>>
page    == <<draft, generation, waiting, polling, line, facade, videos, sent, picture, picturing, tried, preview>>
vars    == <<part, kick, chzzk, events, backup, shared, control, media, sessions, previews, page>>

Init ==
  /\ part \in Parts /\ Kick!Init /\ Chzzk!Init /\ Events!Init /\ Copies!Init
  /\ Tasks!Init /\ Control!Init /\ Media!Init /\ Sessions!Init /\ Previews!Init /\ Page!Init
  /\ part # "events" => on
  /\ part # "sessions" => platform = "KICK" /\ ~listed
  /\ part # "previews" => ~visible

Only(p) ==
  /\ part = p /\ UNCHANGED part
  /\ p # "kick"    => UNCHANGED kick
  /\ p # "chzzk"   => UNCHANGED chzzk
  /\ p # "events"  => UNCHANGED events
  /\ p # "backup"  => UNCHANGED backup
  /\ p # "tasks"   => UNCHANGED shared
  /\ p # "control" => UNCHANGED control
  /\ p # "media"   => UNCHANGED media
  /\ p # "sessions" => UNCHANGED sessions
  /\ p # "previews" => UNCHANGED previews
  /\ p # "vod"     => UNCHANGED page

Next ==
  \/ Only("kick") /\ Kick!Next
  \/ Only("chzzk") /\ Chzzk!Next
  \/ Only("events") /\ Events!Next
  \/ Only("backup") /\ Copies!Next
  \/ Only("tasks") /\ Tasks!Next
  \/ Only("control") /\ Control!Next
  \/ Only("media") /\ Media!Next
  \/ Only("sessions") /\ Sessions!Next
  \/ Only("previews") /\ Previews!Next
  \/ Only("vod") /\ Page!Next

Spec == Init /\ [][Next]_vars

\* The fairness of the parts: a thread or task goes on when it can.
KickFairness == WF_kick(part = "kick" /\ Kick!TaskStep)

ChzzkFairness ==
  \A p \in Procs : WF_chzzk(part = "chzzk" /\ Chzzk!TaskStep(p)) /\ SF_chzzk(part = "chzzk" /\ Chzzk!PrepareDir(p))

EventsFairness ==
  /\ \A r \in Providers \cup {Queue} : WF_events(part = "events" /\ Events!Publish(r))
  /\ WF_events(part = "events" /\ (Events!Transition \/ Events!Restored \/ Events!Drain))
  /\ WF_events(part = "events" /\ Events!Receive) /\ WF_events(part = "events" /\ Events!Show)

TasksFairness ==
  /\ WF_shared(part = "tasks" /\ (Tasks!Read \/ Tasks!Sync))
  /\ WF_shared(part = "tasks" /\ Tasks!CommandWrites)

ControlFairness ==
  /\ \A o \in Serving \cup Foreground :
       /\ WF_control(part = "control" /\ Control!OwnerStep(o))
       /\ WF_control(part = "control" /\ Control!ServerStep(o))
       /\ \A c \in Clients : SF_control(part = "control" /\ Control!Accept(o, c))
  /\ \A c \in Clients : WF_control(part = "control" /\ (Control!NoOwner(c) \/ Control!Connect(c)))

MediaFairness == WF_media(part = "media" /\ Media!Run)

FairSpec ==
  /\ Spec /\ KickFairness /\ ChzzkFairness /\ EventsFairness /\ TasksFairness /\ ControlFairness
  /\ MediaFairness

----------------------------------------------------------------------------
(* Each property is the one of its module.                                 *)

\* A KICK job implements DownloadRun, what it reports COMPLETED is whole, and what an attempt
\* downloaded is not touched by a later attempt or job.
KickRun == Kick!KickIsSound
\* A CHZZK job implements DownloadRun: what it reports COMPLETED is there, whole, and stays; no
\* file under a final name is replaced by one.
ChzzkPublishes == Chzzk!ChzzkRuns /\ Chzzk!NothingReplaced
\* What a CHZZK job claims is its own, and it leaves nothing behind.
ChzzkOwnsItsFiles == part = "chzzk" => Chzzk!ChzzkOwnsItsFiles
\* A CHZZK job comes to its end, a cancelled KICK job although yt-dlp cannot be terminated, and
\* the run of a tool although its pipes stay open.
JobsEnd == Chzzk!ChzzkJobsEnd /\ Kick!CancelEnds /\ Media!RunReturns
\* No result of an earlier generation, or of a time without notifications, is shown.
NoticesAreCurrent == part = "events" => Events!NoticesAreCurrent
\* A result that came while notifications were on is shown.
ResultsAreTold == Events!ResultsAreTold
\* A restore is alone with the database, the owner's cache follows it, and neither what it
\* replaces nor a copy that is being written is lost.
RestoreIsSafe == [](part = "backup" => Copies!RestoreIsSafe) /\ Copies!BackupsAreKept
\* A shutdown that returned has left no task and no stale row behind.
ShutdownIsSound == part = "tasks" => Tasks!ShutdownIsSound
\* The row of an ended job is brought up to date.
HistoryCatchesUp == Tasks!HistoryCatchesUp
\* One owner at a time is reachable, finishes what it accepted, answers the truth, and drops no
\* command half way that has begun.
ControlIsSound == [](part = "control" => Control!ControlIsSound) /\ Control!NoCommandIsDropped
\* A command returns, and an owner that is told to stop goes, whatever other programs do with
\* the socket.
CommandsReturn == Control!CommandsReturn /\ Control!OwnerLeaves
\* A channel is judged off only when it was, or when a service other than KICK said nothing.
OfflineIsTrue == part = "sessions" => Sessions!OfflineIsTrue
\* Sessions, passwords and cookies are the configured ones of the broadcast they are used for.
SessionsAreSound == part = "sessions" => Sessions!SessionsAreSound
\* A preview is of the broadcast shown, and the limit of requests is that of the tasks.
PreviewsAreCurrent == part = "previews" => Previews!PreviewsAreCurrent
\* What the VOD page shows and downloads is of the video it names.
DraftIsSound == part = "vod" => Page!DraftIsSound
\* A run of a tool leaves no process and no silently shortened output behind.
RunIsClean == part = "media" => Media!RunIsClean
=============================================================================
