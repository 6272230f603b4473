# Stream Archive: verification project

TLA+ models of the Rust runtime of Stream Archive (`src/rust-runtime`), a program that records
live broadcasts and downloads VODs of three platforms (SOOP, CHZZK, KICK), and of the desktop
window around it (`src/rust-gui`). The modules are translated from the source; TLC checks them on
small instances, and TLAPS proves the theorems of the `...Proofs` modules for every value of the
constants.

`PROJECT.json` holds the machine-readable side of this document: components, runs, the mutant of
the code that each property detects, the source lines behind each definition, hazards, findings,
theorems. To repeat a check: `tlc -workers 2 -config VodJobs.cfg MCVodJobs`,
`tlapm VodJobsProofs.tla`.

## 1. Inventory

One process, the *owner*, holds an advisory lock on the SQLite database and runs everything
below (desktop application or headless host). Other processes (the CLI) may open the same
database as observers, change rows directly, or send commands to the owner over a Unix socket.

| Component (source) | State | Operations | What is hard | Modules |
|---|---|---|---|---|
| VOD facade (`platform/vod.rs`) | lifecycle mutex, `selected` provider | analyze, download, cancel, status, terminal_status | three status records read one by one; `cancel` awaits a task with the mutex held; `status` writes `selected` from an old observation | VodJobs, VodSlot |
| VOD job managers (`platform/{soop,chzzk,kick}/vod.rs`) | status record, JoinHandle, cancel flag, terminal cache | start_job, cancel, run_analysis, run_download | the spawned task writes status at any time; late cancel against completion; differs per provider | VodJobs |
| Destination claims, publication (same files) | partial files, claim sidecars, `.finalizing` copies, job directories | claim, resume, join, publish without clobbering, retry | two processes on one name, changed manifests, cancel or crash between any two steps | SoopDownload, ChzzkDownload, KickDownload, DownloadRun |
| VOD queue (`queue_service.rs`) | table `vod_queue`, `active_id`, `stopping`, worker task | enqueue, cancel, retry, remove, claim, finish, shutdown | rows are guarded only by the WHERE clause of each statement; worker, clients, shutdown and other processes interleave | VodQueue |
| Core commands (`app_core.rs`) | `lifecycle_lock`, `config_write_lock` | all client commands, shutdown, restore, credential saves | which lock covers which command; shutdown takes none | VodQueue, SecretJournal, BackupRestore, RuntimeTasks, DownloadEvents |
| Store (`store.rs`) | SQLite connection, settings and channels caches | upserts, recovery, settings transactions, page copy of restore | crash recovery, caches against other processes | with its callers |
| LIVE watcher (`native_watcher.rs`) | runtime handle, snapshot, passwords, the task's map of channels | start, stop, stop-once, resume, recheck, password; reload, recheck, monitor, poll | one task against commands, list edits, broadcasts and recorder processes; each failure leaves another mixture of status, recording and due check | LiveWatcher, LiveSessions |
| LIVE recorder (`recorder.rs`) | process tree and open `live_recordings` row | start, poll, stop, log_finished | row and process must end together | LiveWatcher |
| LIVE providers (`platform/live.rs`, `platform/*/live.rs`) | HTTP sessions, cookies | login, recover_auth, probe, resolve | a verdict of "off" stops a recording; settings change during a login | LiveSessions |
| Secrets (`security.rs`, `app_core.rs`, `store.rs`) | references in `settings`, cleanup journals, native key store, lock file | save, clear, read, restore | two stores without a common transaction; crash after every step | SecretJournal |
| Download events (`download_events.rs`, `notifications.rs`) | epoch, broadcast channel, pending notices | publish, subscribe, drain, invalidate | results of an older generation | DownloadEvents |
| Backups (`backup_service.rs`) | backup files, policy, operation lock | manual, automatic, restore, retention | restore against everything; failure half way | BackupRestore |
| Background tasks (`background_tasks.rs`) and history sync | stopping flag, join handles, `vod_jobs` rows | start, request_stop, shutdown, one-second sync | start against shutdown; a shutdown that is itself cancelled; last result against shutdown | RuntimeTasks |
| Runtime owner (`runtime_owner.rs`), Unix control (`unix_control.rs`), CLI, headless | file lock, socket file, connections | acquire, serve, dispatch, stop | two processes; clients that hang or vanish; routing to owner or database | ControlSocket |
| Media processes (`media_process.rs`, `platform_runtime*.rs`, `bounded_lines.rs`) | child, process group, pipes | spawn, capture, terminate | kill and reap of trees; pipes that stay open | MediaProcess |
| Desktop application (`controller.rs`, `live_model.rs`, `tray.rs`) | busy flags, polls, two channels, worker thread | command, poll, refresh, restore, exit | answers come late and in any order, and after a reopening | DesktopController |
| VOD page, previews (`vod_adapter.rs`, `thumbnail_adapter.rs`) | draft, generations, cached pictures | edit, analyse, download; fetch, check, show | late answers about another video or broadcast | DesktopVod, LiveThumbnails |
| Configuration, diagnostics, traces, storage listings | files, log ring | read and report | none that other state depends on | not modelled |
| Cloudflare worker, maintenance scripts | none | HTTP resolver; offline copies | outside the runtime | not modelled |

How they interact: client commands call the core, the core calls the facade, the queue, the
watcher and the stores. The queue worker is a client of the facade like any other. The watcher
owns the recorders. Everything reports through snapshots that are polled; only download events
are pushed. The desktop puts one worker thread between its window and the core.

Correctness, component by component:

* *facade and managers*: one job at a time over the three providers; each job ends with one
  result, told alike by status and terminal cache; a task never writes the status of its
  successor; a published download stays completed; `cancel` returns when nothing runs.
* *publication*: COMPLETED means that the media is whole and on the disk, and nothing later, a
  crash included, takes it away; no file under a final name is replaced; pieces of two versions
  are never joined; a job that ends leaves nothing it should not.
* *queue*: a row that says busy has someone who will settle it, in the state its own job came
  to; a queued row is tried; nothing runs for a deleted row; shutdown comes to its end.
* *watcher and recorder*: an open row has its recorder and its owner; status and recording
  agree; a broadcast the user stopped stays stopped; wanted broadcasts are recorded, ended or
  unlisted ones stopped; `stop` returns and leaves nothing.
* *providers*: "off" is judged from an answer that says so; a session belongs to the settings in
  force.
* *secrets*: no credential is orphaned in the key store, no reference dangles, readers find what
  they look up, success means clean, restore does not touch credentials.
* *events*: no result of an old generation, or of a time without notifications, is shown; one of
  a time with them is.
* *backups*: a restore has the database to itself, what it replaces is kept, caches follow.
* *tasks and history*: nothing outlives shutdown; the last result is in its row.
* *control*: one owner is reachable, finishes what it began, and answers the truth.
* *media processes*: no process of a run is left, no output is silently cut.
* *desktop*: busy flags are cleared, polls do not overlap, what is shown is fresh and of the
  video or broadcast it names.

## 2. Modules

```
VodSlot             abstract: one slot, one job at a time, one result each
VodJobs             facade + the three job managers
  VodJobsSlot       refinement mapping VodJobs -> VodSlot
    MCVodJobs, VodJobsProofs
  VodQueue          queue + core commands + shutdown + crash, EXTENDS VodJobs
    MCVodQueue, VodQueueProofs
DownloadRun         abstract: the run of one job as the facade knows it
  SoopDownload      implements it: MCSoopDownload, SoopDownloadProofs
  ChzzkDownload     implements it, for every process
  KickDownload      implements it
LiveWatcher         watcher manager + task + recorders: MCLiveWatcher, LiveWatcherProofs
LiveSessions        what happens within one probe of the watcher's task
LiveThumbnails      previews of the desktop
SecretJournal       credentials in two stores: MCSecretJournal, SecretJournalProofs
DownloadEvents      result -> epoch -> channel -> window
BackupRestore       copies, restore, retention, owner and CLI
RuntimeTasks        background tasks, shutdown, history sync
ControlSocket       owner lock, socket, server, clients
MediaProcess        one run of an external tool
DesktopController   window, worker thread, core: DesktopControllerProofs
DesktopVod          the VOD page
RuntimeParts        ten of these side by side: one run, and one theorem each, for all of them
  DownloadPartsProofs   ChzzkDownload, KickDownload
  ServicePartsProofs    the other eight
```

### VodJobs

`status`, `handle`, `tasks` are a manager's `JobRuntime` and its spawned tasks; `facade` is the
call that holds the lifecycle mutex, with the point it has reached; `selected` and `observed`
are the facade's field and the local variable of a `status()` between reading and writing it.

* `SelectProvider`: `analyze`/`download` under the mutex up to `ensure_idle`.
  `StartJob`/`StartRefused`: `start_job` of the manager (new id, status STARTING, spawn), or its
  refusal because a task is unfinished. A call refused by `ensure_idle` changes nothing and is
  not an action.
* `PickProvider`, `FlagTask`, `MarkCancelling`, `CancelReturns`: `cancel`, split where it
  awaits: pick a provider, take the handle and raise the flag, write CANCELLING, await the task.
* `Progress`, `Publish`, `GiveUp`, `Fail`, `EndTask`, `PushTerminal`: the spawned task. The
  providers differ in two sets taken from the code: `EndsEarly` (SOOP and CHZZK clear `running`
  together with the result, KICK does not) and `KeepsCompleted` (CHZZK and KICK exempt COMPLETED
  from the late-cancel rule).

Abstracted: texts, percentages, file names; ANALYZING, REFRESHING, DOWNLOADING and MERGING are
one state; the download itself is its outcome (see `DownloadRun`); the push to the terminal cache
and the end of the task are one step, the cache is not bounded (32 in the code); one `status()`
observer at a time; a task does not panic.

### VodSlot, VodJobsSlot

What callers rely on: begin when the slot is empty, conclude once, never change a result.
`VodJobsSlot` maps the job of the running provider to the slot and final status to results.

### VodQueue

`rows` is the table; `active`, `stopping`, `lifecycle` are `active_id`, the flag and
`lifecycle_lock`; `worker` and `call` are program counters with the locals that survive an
await. Each SQL statement is one action, guarded by its WHERE clause.

* Worker loop: `WorkerStops`, `WorkerTries`, `WorkerLocks`, `WorkerFindsNothing`, `Claim`,
  `Activate`, `FailUnreadable` and `Unclaim`, `Request`, `Started`, `NotStarted`, `FailStart`,
  `MarkRunning`, `PollTerminal`, `ReadStatus`, `WriteResult`, `ClearActive`.
* Rows: `Enqueue`, `Retry`, `Remove`, `CancelQueued`. With `CliAtWork` an observer process does
  the same without `active_id` (`unix_cli.rs`, `command_queue`).
* Running jobs: `DirectStart`, `DirectReturns`, `CancelDirect`, `CancelActive`, and the steps of
  `cancel(id)`: `RecheckActive`, `MarkItem`, `PickToCancel`, `CancelGoesOn`, `CancelEnds`,
  `FinishItem`.
* `BeginShutdown`, `ReadActive`: shutdown, which does not take `lifecycle_lock`.
* `Restart`: crash at any point, or relaunch, with `recover_interrupted`.

Abstracted: SQLite errors (the code ignores them with `let _ =`), request contents (readable or
not), events and history. A retry accepted while the worker still writes the old attempt's
result is overwritten by it; the model contains this, and no property demands otherwise.

### DownloadRun and the three downloads

`DownloadRun` says what `VodJobs` takes for granted about `Publish`, `GiveUp` and `Fail`: a run
publishes once, gives up only when it was asked to, and what a download published stays
(`kept` only grows). Each platform module maps its phases to it and defines `kept` from the files
on its disk, so that the refinement is about files, not about a status.

* *SoopDownload*: `source` is what the server offers now, `jar` and `cookies` the login of a job
  and its `cookies.txt`, `pc` and `task` where it is; `partials` and `finals` are the files by
  name, each with the set of pieces it holds and the source they are of; the retry budget;
  the merge with its checks and the removal of the PARTs after it; guards that run when a job
  ends; `TaskStep` are the job's steps, `ToolStep` those of yt-dlp and FFmpeg, `EnvStep` the
  changes of the service, cancellation and crash. `Reuses` lets a job for another VOD or
  quality continue the `.part` file a crash left under the same name (see Observed divergences).
  The run excludes it, so that `Holds` also says that a file is of one source.
* *ChzzkDownload*: several processes. A job directory belongs to whoever locks its `owner.lock`;
  `Scavenge` removes the others; `creation` is the lock under which directories are made and
  scavenged; `anchors` are the claim sidecars, whose lock belongs to the inode (a removed and
  recreated sidecar is another lock), `temps` the `.finalizing` copies. Streamlink and FFmpeg
  fail apart from each other. FFmpeg that leaves early does so before it was given everything;
  the code learns of it by the error of the pump's next write (`vod.rs:1062`), also when FFmpeg
  exits with 0, so that the attempt fails. That FFmpeg reads its pipe to the end before it exits
  with 0 is assumed. Publication is by hard link, by copy when the link crosses file
  systems, to the next free collision name when the name is taken. `Foreign` is another program
  that writes a file under the same name.
* *KickDownload*: a fresh partial file per attempt, `tool` what yt-dlp has written and `told` what
  the task has read of it, from pipes it drains for a limited time; fragments against the
  playlist, and the move to the final name only when all fragments are shown to be there.

Abstracted: what is in a playlist, sizes, qualities, headers, and the arguments of the tools.

### LiveWatcher

`states` is the task's map, `recordings` joins an open row with its process, `snapshot` is the
shared status, `commands` the bounded channel, `manager` and `task` the runtime handle. `onAir`
and `saved` are the platforms and the list in the database.

* Manager: `Start`, `RequestStop`, `Reap`, `SendCommand`, `SupplyPassword`.
* Task: `Initialise`/`InitialiseFails`; `HandleCommand` (stop-once, resume, recheck); a tick:
  `Tick` with `ApplyChannels`, `CheckRecording`, `Monitor`, `Poll`, `Started`/`StartFails`,
  `NextPhase`; `BreakLoop`, `ExitStop`, `ExitEnds`.
* Outside: `GoesLive`, `GoesOff`, `RecorderExits`, `EditChannels`, `Elapse` (the timers).

A probe and its effect are one step, because the effect reads only the probe's answer; starting
a recording takes seconds and is two. A tick comes only when no command and no stop request is
waiting, since the `select` starts its sleep afresh; each tick reloads the list (the code waits
up to a few ticks, which only delays an edit). An answer "off" is taken to be true here;
`LiveSessions` shows for which providers it is. Not modelled: process crash and what Unix process
groups do then, and errors of the row statements.

### LiveSessions

The inside of a probe, for one channel of one platform: `settings` and `config` (saved and
loaded), `session` (whose cookies), `doing` (the await the task is in), `request` (what a stream
is asked for with). Logins (`FirstLogin`, `Relogin`, `Recover`), reloads (`TakeSettings`,
`TakeList`), pages and API answers (`Page`, `Ask`), resolution by the Worker or by the
Streamlink plugin. Broadcast, settings, list and passwords may change between any two steps.

### LiveThumbnails

`row` is the watcher's status of the channel, `carried` the snapshot under way to the window,
`entry` its cached picture with broadcast number and completion revision, `awaiting` the tokens
the window counts, `fetches` the tasks of the core. A fetch is checked against the watcher before
and after its image is loaded (`Check`, `Recheck`), and against the entry when it comes back.

### SecretJournal

Linux and macOS. `db` has the two rows per credential, `keystore` the native entries, `guard`
and `reading` the lock file, `op` the operation of each process, `staged` the staging copy of
a restore.

* Save: `BeginSave`, per key `NextKey`, `DeleteOne`, `Forget` (work off the journal), `Intend`
  (journal a fresh reference), `StoreNative`; then `Commit`, then `NextKey` ... `KeyIsTidy`.
* `Clear`: the same end, after the settings are cleared and journalled in one transaction.
* `KeystoreFails`, `DatabaseFails`: any step reports an error, having had its effect (key
  store) or not; `Abort` enters the rollback (`UndoOne`) or ends the operation. `Crash`: after
  any step.
* `Read`, `ReadEnds`; `Stage`, `CopyBack`.

Any set of keys may be saved or cleared and any process may restore, which is more than the
code allows. Not modelled: settings caches (refreshed under the lock), loss of the key store from
outside, a key-store helper that acts after its caller died, the KICK lookup helper's timeout.

### DownloadEvents

`epoch` and `on` are the event service; a job's `token` is the epoch its task will publish under,
moved on by a settings change in the middle of the job; `ring` is tokio's broadcast channel,
which drops its oldest entries (`lost`); `change` is a settings change or a restore between the
copy of the database and the announcement; `mail` is the desktop worker's channel to the window,
`enabled` and `notices` what the window knows and holds. `ended`, `inForce`, `era` record when a
job ended and which setting was in force then, for the properties only.

### BackupRestore

The owner and one CLI process over one database. `restore` holds the checks of the restore
command (nothing busy, nothing pending; the second check under the operation lock), `op` the
steps of a copy or a restore: safety copy, metadata, cleanup by `Keep`, page copy with interrupted
rows, cache refresh; each can fail, and a process can die in each (`Die`). `AppUp` is a start with
its recovery. `foreign` records that another process wrote to the database in between.

`lifecycle_lock` is not a variable: the restore command holds it while `restore[App]` is not
`idle`, the queue worker while `active` is `claimed`, from before its claim until `vod.download`
returned (`queue_service.rs:283`). `LifecycleFree` is its guard, of `Claim`, `StartWork`,
`CancelItem` and the owner's `RestoreBegins`. After the lock is given back the job runs
(`running`) until it is over or was refused (`settling`) and the worker writes its row. CLI
processes have a core and locks of their own; what they write to the database meanwhile
(`OutsiderWrites`) no lock of a restore excludes, except that none of them owns the runtime.

### RuntimeTasks

`tasks` and `draining` are the two lists of join handles, `alive` the tasks that run, `caller` a
client of `shutdown()`, which may give up waiting (`Abandon`). The history task reads the status
(`Read`) and writes it a moment later (`Sync`); a command that starts a job writes STARTING itself,
possibly late (`CommandWrites`).

### ControlSocket

`lock` is the owner's file lock, `socket` the socket file and whose it is, `server` the serial
server of an owner (`idle`, `reads`, `runs`, `writes`), `conn` and `at` the connections. Owners
are headless hosts (`Serving`) or foreground VOD commands (`Foreground`); `Required` clients
insist on an owner, the others work on the database when there is none; `Silent` peers connect
and say nothing. `Stopped` and `DropServer` end the server before the owner ends; `Crash` leaves
the socket file behind.

### MediaProcess

`alive`, `born` and `killed` are the processes of a run: `Root`, `Helpers` in its group and
`Daemons` that left it; `written`, `read`, `cut` are the captured output. `Term`, `GroupIsGone`,
`Kill` terminate; `Drained` and `DrainTimeout` end the readers; `Drop` is an owner that is dropped
at any await. Unix only; a group number reused after its leader was reaped is left out.

### DesktopController, DesktopVod

`requests` and `responses` are the two channels, `worker` the thread that opens the core and runs
one request after the other; `busy` and `polling` the flags of each page; `shown` and `since` the
age of what the LIVE page shows; `exit` the stages of leaving. `Forgotten` names the pages whose
flag a failed start leaves set (storage, queue and history in the code).

In `DesktopVod`, `draft` is what the user fills, `line` the requests and answers under way,
`facade` the core's one job, which the queue shares; `generation`, `picturing`, `picture` the
preview.

### RuntimeParts

Ten modules that share no state, as ten instances in one specification; the variable `part`
says which of them a behaviour is about, and the others stay as they begin. Its states are the
sum of theirs, not the product, so one run checks all of them, and each property is the
property of one module.

## 3. Runs

| Run | Question | Bounds | Size |
|---|---|---|---|
| `jobs` | Is the job runtime one slot, and does everything that begins end? | 3 providers, 2 callers, 1 status observer, 2 jobs | 202k states |
| `queue_safety` | Do rows, worker and jobs stay in step? | 1 row claimed twice, 2 jobs, 1 direct job, 1 crash, shutdown, CLI | 6.9M states |
| `queue_liveness` | Do busy rows settle, queued rows run, shutdowns end? | the same without crash and direct job | 90 s |
| `live_watch` | Do recordings, rows, statuses and suppression agree, and does the watcher do its job? | 1 channel, 2 broadcasts, 2 commands, 1 edit, 1 failure, 1 start | 135 s |
| `secrets` | Does every failure leave the two stores consistent? | 2 keys, 2 processes, 4 references | 9k states, with symmetry |
| `soop` | Is what a SOOP download says completed whole, of one version, and on the disk? | 2 jobs, 2 PARTs, 2 names, 2 sources, 2 fragments, 2 retries, crash | 81 s |
| `parts` | Ten questions, one per part (below) | see below | 2.0M states |
| `parts_liveness` | Do jobs end, results arrive, rows catch up, commands return? | the same, one CHZZK process, one epoch change | 94 s |
| `desktop` | Do the window's flags and what it shows follow the answers? | LIVE, settings, maintenance and one other page; 2 requests under way, 1 change, 2 openings | 7.3M states |
| `jobs_kick`, `queue_shutdown`, `live_stop` | see Findings | | violated |

What the properties say:

* `jobs`: `OneWorking`, `CancelQuiesces`, `ChzzkCompletedWins`, the inductive invariant `JobsInv`
  of the proofs, the refinement `OneSlot`, and under fairness `FacadeIsReleased` and
  `OneSlotConcludes` (the fair slot).
* `queue_safety`: `QueueInv` is `BusyRowIsOwned` and `WorkHasItsRow` with the types;
  `WorkerReportsItsJob`. `queue_liveness`: `BusyRowsSettle`, `QueuedRowsAreTried`, `ShutdownEnds`.
* `live_watch`: `LiveInv` is `OpenRowIsOwned`, `StatusTellsTheRecording`, `StoppedWatcherIsQuiet`
  with the types; `SuppressionHolds`; under fairness `WantedIsRecorded` and `UnwantedIsStopped`
  (over, unlisted, or the watcher stopped).
* `secrets`: `CredentialsAgree` (no orphan, no dangling reference), `ReadersFindIt`,
  `SuccessIsClean`, `RestoreKeepsCredentials`.
* `soop`: `SoopRun`, the refinement of `DownloadRun`; `SoopFilesAreSound`: finished PARTs survive
  the merge and everything after it, an ended job leaves no fragments and no cookies, and yt-dlp
  never runs for a private VOD without them.
* `parts`, by part: `KickRun` and `ChzzkPublishes` (refinement; nothing replaced),
  `ChzzkOwnsItsFiles` (claims exclude each other, a live directory is not scavenged),
  `NoticesAreCurrent`, `RestoreIsSafe` (alone from its checks to its end, also when the CLI adds a
  row meanwhile; the replaced data is in a whole copy, no copy is pulled away, caches follow),
  `ShutdownIsSound`, `ControlIsSound`, `RunIsClean`, `OfflineIsTrue` and `SessionsAreSound`,
  `PreviewsAreCurrent`, `DraftIsSound`.
* `parts_liveness`: `JobsEnd`, `ResultsAreTold`, `HistoryCatchesUp`, `CommandsReturn`.
* `desktop`: `FlagsFollowTheChannels` (a busy page has an answer under way, polls of one page do
  not overlap), `UserIsNotMisled` (the LIVE page shows nothing older than its opening; an exit
  nobody was asked about ends no work of this window).

Why the bounds are enough.

* `VodJobs`: conflicts are between a job and its successor, or the job and a cancellation: two
  jobs, on any pair of providers, show them; the theorems cover any number.
* Queue: one provider, since exclusion between providers is what `jobs` and the theorems are
  about; two jobs are a row's first and second attempt or a row's and a direct job. One row: the
  worker handles one row at a time and every statement names one row; `RowsAndWorkAgree` is
  proved for any number.
* Watcher: channels meet only by being visited in turn, so one channel with two broadcasts shows
  the confusions between broadcasts.
* Secrets: four references let a save replace a credential, fail, and be repeated for two keys.
* SOOP: two PARTs are the first with a merge; two sources are "same" and "other"; two retries are
  one that is left and the last; two jobs let one meet what the other left.
* Parts: two processes and two names for CHZZK claims, so that a collision suffix is itself
  contested; a ring of capacity one that overflows; two versions of the database and two copies
  with one kept, so that retention has to choose; a caller of shutdown that gives up beside one
  that does not; two owners in turn, two clients and a silent peer on the socket; a helper, a
  daemon and more output than the limit; two broadcasts (one restricted, one guarded) and three
  changes under a login; two preview requests, the limit, for one entry; two addresses, two jobs.
* Desktop: one world change tells fresh from stale, two requests make an order.

In the liveness runs the bounds also say that users, faults and broadcasts come to an end; what
follows is promised from then on, and `QueuedRowsAreTried` supposes that direct jobs end.

`CHECK_DEADLOCK FALSE` stands where the system may rightly stop: after shutdown, after the watcher
or the window ended, or when a bound is used up.

### Fairness

* Tasks of jobs (`Publish` or `GiveUp` or `Fail`, `EndTask`, `PushTerminal`): weak. Every await
  of a run has a timeout or watches the cancel flag. Which outcome is left open.
* A caller inside the facade, the worker and a begun command: weak; they are tokio tasks that
  only await each other and the mutexes.
* Taking a lock (`WorkerLocks`, `PickToCancel`): strong. tokio's `Mutex` is fair (FIFO), so
  a waiter is not overtaken for ever, although in the model the lock is free only now and then.
  CHZZK's creation lock (`PrepareDir`): strong. It is an advisory file lock, which the kernel
  grants to a waiter when it is freed; it is held for one directory operation.
* The watcher's task and `Reap`: weak; the timers `Elapse`: weak.
* KICK: only the task's own steps, since nothing makes yt-dlp exit; what is promised is that a
  *cancelled* job ends. CHZZK: the task's steps, whose programs are killed when their time is up.
* Control socket: owners and servers weak, since each of their awaits has a timeout or ends with
  the stop signal; accepting a client that waits strong, since `accept` takes connections in the
  order they came. Nothing is assumed of silent peers, and none of a client but that it starts.
* Media processes: the run's own loop, its deadlines included; nothing of the processes.
* Notices: publication, the worker's drain and the window's timer. History: the task's two
  halves, and the command that writes what it has in hand.
* No fairness for users, crashes, platforms, recorder exits, edits, or for `status()`.

`parts_liveness` states the fairness of all its parts at once; as a behaviour moves one part only,
the fairness of the others holds of it trivially, and no property can lean on it.

## 4. Findings

Each is a run whose one property, quoted from the repository, the code violates.

* `jobs_kick`: KICK publishes COMPLETED with `running` still set; a late cancel overwrites it and
  the finished download is recorded as CANCELLED.
* `queue_shutdown`: shutdown misses a claim that has passed the `stopping` test; its job starts
  afterwards and is left running.
* `live_stop`: a second stop while the suppressed broadcast is briefly off the air forgets which
  broadcast was suppressed; it is recorded again.

### Observed divergences without a run

The project keeps to twelve runs, so that all of them are repeated on every change. These
properties are stated in the modules, the code breaks them, and no run lists them.

* `VodQueue`, `CancelOnlyOwned` (`docs/UNIX_CLI.md:438`): `active_id` outlives its job by up to
  a poll (`queue_service.rs:212`); `queue cancel` then cancels the direct job that replaced it and
  writes that job's state into the row. Constants of `VodQueue_safety.cfg`.
* `VodQueue`, `QueueIsBounded`: `retry` (`queue_service.rs:246`) counts no pending rows, while
  `enqueue` (`:150`) keeps the limit. `MaxItems = 2`, `QueueLimit = 1`.
* `LiveWatcher`, `FailedStopIsRetried` (log text at `native_watcher.rs:1129`): a user's stop that
  fails is never tried again; the channel shows PAUSED and goes on recording
  (`native_watcher.rs:760`). Constants of `LiveWatcher.cfg`.
* `SoopDownload`, `NeverMixed` with `Reuses = TRUE` (`docs/PHASE25_6_CHECKPOINT.md:16`): after
  a crash, the `.part` file of one VOD or quality is continued by a job for another one that has
  the same target name; the identity check looks only at the job's own retries.
* `RuntimeTasks`, `EveryResultIsKept` (`app_core.rs:959`): when a job ends and the next one starts
  within one second, the history never learns how the first one ended.
* `DesktopController`, `PollWaitsForCommand` (`docs/PHASE21_LIVE_CONTROLS.md:17`): a poll under
  way when a command is clicked is not held back, and a click does not stop one that was queued.
* `DesktopVod`: a poll answered just before the user analyses the same address again shows the
  old analysis, and the fresh one is then taken for the one already shown and dropped
  (`vod_adapter.rs:156`). The analysis shown is still of the right video, so `DraftIsSound` holds.

## 5. Proofs

`tlapm` proves each of the following for every value of the constants. An invariant of a run is
seldom inductive; each module names the strengthening it needs, and one lemma per action (or
group of actions) shows that it is kept.

**VodJobsProofs** assumes only that providers are among the three, that `Free` is no caller, and
that the number of jobs is a natural number. That no two jobs work depends on what `cancel` has in
hand when it awaits, and on tasks whose status is already idle. `JobsInv` adds that job ids are
drawn in order, that a running status names an unfinished task (`RunningHasTask`) and a working
task is reported (`WorkIsRunning`), that an unfinished task is held by its manager or by the
cancellation awaiting it (`UnfinishedIsHeld`: why `start_job` cannot overlook it), what holds
between the steps of the facade (`StartFindsIdle`, `CancelCoversRunning`, `MarkFindsFlag`), and
which states a task leaves behind (`WritingStates`, `EndedStates`). From it follow `OnlyOneWorks`,
`TasksWriteTheirOwnStatus`, `CancelLeavesNothingRunning`, `ChzzkKeepsCompleted` and the others,
and `JobsImplementSlot`: each step is a step of the slot or a stutter under the mapping.

**VodQueueProofs** builds on it. Assumed are the constants' types and the three callers. Every
step of the queue is a step of `VodJobs`, leaves it alone, or is a relaunch (`RuntimeKeeps`), so
`JobsInv` holds under the queue too, and with it `QueueRunsOneJob`. `QInv` adds that a status that
is not running is a settled one (`StatusSettles`: why `cancel` and the worker never write a busy
state back), who holds `lifecycle_lock` (`LockIsHeld`), what worker and cancellations have in hand
(`ItemsAreKnown`), who will write a busy row (`BusyIsHeld`), that work for a row is the work the
worker waits for, and a client's cancellation that returned has left none (`WorkIsWatched`), and
that its row stays busy until then, unless the runtime stops (`WorkKeepsRow`). Since a busy row can
be neither retried nor removed, by the owner or the CLI, `RowsAndWorkAgree` follows: `QueueInv`
for any number of rows, attempts, jobs and relaunches. The exception for a stopping runtime is the
one the finding `queue_shutdown` is about. `WorkerTellsTheTruth` is the action property
`WorkerReportsItsJob`: `ReportInv` adds that a status names a job of its own provider
(`StatusNamesItsTask`), that the job the worker waits for is a download (`WorkerDownloads`), and
that what it has in hand when it writes the row is what this job came to (`ReportIsTrue`). A job's
result stays what it was (`ResultStays`), so the worker may act on it late, after others have used
or cancelled the provider.

**SecretJournalProofs** assumes the constants distinct and the backups well typed, nothing about
their number. `JournalInv` consists of `LockInv` (whoever works holds the lock and nobody
reads), `StoresInv` (the two properties plus `OnePlace`: a reference is one key's setting or in
one key's journal, never in two places, which is why deleting a journalled reference is safe;
plus `UsedAreDrawn`, why a fresh one is fresh), and `WorkInv`, what an operation has in hand:
the list it works off is the journal, the fresh credentials of a save exist and are journalled
until the commit, ticked-off keys are clean, the staging copy is current. The theorems state all
properties of the run for any sets.

**LiveWatcherProofs** (`WatcherOwnsItsRecordings`, `StoppedBroadcastsStaySuppressed`): any
channels, broadcasts and bounds. `WatcherInv` says who an open row belongs to at each phase of a
check (`RowsAreOwned`: a recorder of the map, or the start or finish in hand), that a failed
recorder is counted until it is left (`FailuresAreCounted`), which channels a phase still has to
visit (`PhaseHasItsChannels`), and that a status tells of the recording there is
(`StatusesTell`). Each step touches one channel; `OneChannel` and `OthersStay` are the scheme by
which the others keep what they had. For `SuppressionHolds`, only a stop changes what is declined
(`DeclinedIsSuppressed`) and only `StartedBegins` opens a row (`OnlyStartedBegins`), never for a
declined broadcast. The attempt corrected the property: a stop that no longer knows the present
broadcast, while an older recording could not be stopped, replaces the suppressed broadcast by
that older one (`native_watcher.rs:754`), so what holds is that no *later* broadcast is declined
in its place (`Declines`); with one failure no run could show this, with three it does.

**SoopDownloadProofs** (`PartsAreNotLost`, `SoopJobsKeepTheirPromise`): any PARTs, names,
retries, sources and jobs. `SoopInv` follows each PART of the request: still to come, under way
or in one file of its own (`ListIsCovered`); files of the job hold their PARTs and the merged file
all of theirs (`FilesAreWhole`, where the number of pieces is counted by a bijection with the
files); fragments are of the one source the PART began with (`FragmentsAreOfOneSource`) and of the
name under way (`FragmentsAreOfThePart`); and no file that was reported is one the present job may
remove (`ReportedFilesAreKept`). Both theorems hold whether or not a job may continue the fragment
a crash left of another VOD or quality (`Reuses`); where it may, "whole" no longer includes that a
file is of one source (`Holds`), which is the divergence `NeverMixed` of section 4. That a crash is
its only cause is `OnlyACrashMixes`: with `~Reuses`, `NeverMixed` is a theorem.

**DownloadPartsProofs**, over `RuntimeParts`. KICK (`KickJobsKeepTheirPromise`): what the job told
is what its file has (`FileHasWhatWasTold`), outputs are new names (`OutputsAreNew`), and each step
is a step of `DownloadRun` (`KickRunStep`). CHZZK (`JobsOwnTheirFiles`, `PublishedFilesStay`), for
any number of processes: a claim on a name is held by the one job that made it (`ClaimIsHeld`), a
directory by its creator's lock (`DirIsOwned`), and no two jobs hold the lock of one inode; a free
inode exists by counting (`InodeIsFree`). What is published is a whole copy of the job's own
download (`DownloadIsWhole`, `CopyIsClaimed`). A step is one job's; `OneJob`, `StaysApart` and
`OtherJobsStay` carry the rest over, and `RunKind` says which step of the abstract run it is.

**ServicePartsProofs**, over `RuntimeParts` too: `MediaPart` and its like show that a behaviour of
the composition is one of each part, so every theorem is about the property the run checks.

* `RunsAreClean`: once a group was found empty or killed it starts nothing more
  (`GroupIsKilled`), and a complete capture stays complete as no process is left to write
  (`CaptureIsFinal`).
* `ShutdownsAreSound`: any callers, of whom any may give up. No handle is lost between the two
  lists (`HandlesAreKept`), joining begins when nothing can be started any more
  (`JoiningIsFinal`), and the history task ends between a read and the next, never between a read
  and its write (`ReadIsWritten`).
* `ControlsAreSound`: any owners, clients and silent peers. The lock excludes two owners and a
  probing client (`LockIsHeld`), the file leads to the server that was not told to stop
  (`SocketIsCurrent`), a command has run exactly once when its answer is being written
  (`RunOnce`), and none that was read is dropped (`NoCommandIsDropped`).
* `RestoresAreSafe`: any number of versions and copies, any `Keep`. `BackupInv` follows the restore
  through its checks: who holds the owner lock, and that the worker is at no claim while the
  owner restores (`LocksAreHeld`); what the first and the second check, with `lifecycle_lock`,
  still exclude at each later step, whatever the CLI writes (`ChecksHold`); that a copy waiting
  for its metadata is one process's own (`CopiesAreOwn`). That the replaced data stays in a copy: the safety copy is
  the newest, and retention removes older ones (`SafetyCopyIsKept`, `CleanupSpares`).
* `NoticesStayCurrent`: any providers, any positive capacity, any number of jobs and changes. The
  invariant says of everything on its way from a job to the window when the job ended: a token is
  never newer than its job's end (`TasksAreOrdered`), an entry of the channel carries the epoch of
  its end (`RingIsOrdered`), and the mail is in such an order that a result comes after the
  announcement of every generation up to its own, and after a snapshot that switches notifications
  off if none of its epoch's settings had them on (`MailIsOrdered`). The window's decision, made on
  the last message it read, is right because of that order.
* `SessionsAreTheConfigured`, `OffIsNotInvented`: any number of changes and broadcasts. The
  session's settings are those of the list when it was made (`ConfigFollowsList`), cookies are of
  the user they were fetched for (`CookiesFollowConfig`), and a probe's answer is of the list it
  was asked with (`ProbeIsOfTheList`).
* `PicturesAreOfTheBroadcast`: a token names the request that may still write its entry
  (`TokensMatch`), and an entry asks for one picture at a time (`EntryAsksOnce`).
* `PageIsOfItsVideo`: any addresses and jobs. There is one request of each kind under way
  (`OneOfEach`), what is on the line is true of a job there was (`LineIsTrue`), and the page's job
  is the one it began, or the queue's (`PageFollowsJobs`).

**DesktopControllerProofs** (`DesktopIsSound`, `FlagsFollow`, `TheUserIsNotMisled`): any pages,
changes and openings, the named pages and the others assumed disjoint and finite. The two channels
are read by index; `Appended`, `Taken` and `Joined` say what sending and receiving do to them. A
set flag has something under way that will clear it (`FlagsAreAwaited`), a page has one poll
(`PollsAreOnce`), answers are in the order of what they saw (`AnswersAreInOrder`), so a poll of
this opening shows nothing older than the opening (`ShownIsFresh`). The check on exit is the last
request: no command comes after it (`CheckIsLast`), so none begins work after a check that found
none (`ExitEndsNoNewWork`). That a page has at most one poll under way is counted on sequences of
requests, and each opening sends one request per page because `SetToSeq` of a finite set lists each
member once (`OneOfEach`).

The part modules' assumptions on the constants are conjuncts of `PartsAssumption`, `NamesAssumption`
and `DesktopAssumption`, which TLC evaluates on the runs: processes, callers, clients and peers are
different and finite in number, and every bound is a number large enough for one case of what it
bounds.

Only model-checked:

* liveness (`FacadeIsReleased`, `BusyRowsSettle`, `QueuedRowsAreTried`, `ShutdownEnds`,
  `WantedIsRecorded`, `UnwantedIsStopped`, `JobsEnd`, `ResultsAreTold`, `HistoryCatchesUp`,
  `CommandsReturn`) and `OneSlotConcludes`, the fair slot: fairness is beyond the prover;
* the findings of section 4, which are violations.

## 6. Not modelled

* Configuration lookup, diagnostics, traces, storage listings, history queries: they keep no
  state others depend on. The Cloudflare worker and the scripts are outside the runtime.
* Parsing of pages, manifests and playlists, command lines, figures and wording: abstracted to
  the outcomes the control depends on.
* SQLite errors of the worker's and the watcher's row statements (`queue_service.rs:350`), and
  legacy migration (`store.rs:183`), which a crash may leave half copied.
* Readers of the job status besides the history task: `vod_status` (`app_core.rs:742`) and the VOD
  commands also store what they read, and `ShutdownIsSound` does not speak of a status that one
  of them read before the end of a job and writes after it.
* A QUEUED row that the CLI adds between a restore's last look at the queue and the page copy is
  replaced with the database; `RestoreIsAlone` admits this one case. History rows, which are
  written without a lock and again after a restore, are not part of the restored data here.
* An answer of CHZZK or SOOP without a status is taken for "off" (`chzzk/live.rs:97`):
  `OfflineIsTrue` excepts it and says so of KICK only; refusals and failures it covers for all.
* That a busy flag of the window falls early: the answers of a restore, an error and a snapshot
  without fields (`controller.rs:2676`) clear the flags of other pages too, also while a request
  of theirs is under way. `FlagsFollowTheChannels` is about flags that are never given back.
* Live rows after a killed process (`store.rs:460`), and what its recorders go on to do.
* A key-store helper that outlives its caller (`security.rs:430`); DPAPI and the Windows job
  object; a process group number reused after its leader was reaped.
* Directories a crash leaves and nothing scavenges (SOOP's with its `cookies.txt`, CHZZK's
  `.chzzk-creating-*`); CHZZK pipe readers that hold on after both programs exited; file systems
  without hard links, on which CHZZK fails after the whole download.
* Of the watcher: a failed login that keeps cookies it had collected; a repeated RESULT -6 that
  logs in on every tick (`native_watcher.rs:825`); a password supplied while a start with an
  earlier one fails, which is cleared with it (`native_watcher.rs:871`).
* Of the desktop: storage and history pages, the remembered choice on closing, rendering.

## 7. Plan

Done: all components of the first plan, and a theorem for every safety property of the runs. Left:

1. Live rows over a crash and relaunch of the watcher (`store.rs:460`).
2. Failing row statements in `VodQueue` (`queue_service.rs:350`), with `QueueInv` weakened to
   "until the next relaunch".
