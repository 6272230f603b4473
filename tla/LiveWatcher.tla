---------------------------- MODULE LiveWatcher ----------------------------
(***************************************************************************)
(* The live watcher: the manager of native_watcher.rs, the single task it  *)
(* spawns, and the recorders that task owns (recorder.rs).                 *)
(*                                                                         *)
(* The task waits in a select for a stop request, a channel command or a   *)
(* 400 ms tick.  A tick reloads the channel list, rechecks the broadcasts  *)
(* being recorded, monitors the recorders, polls the idle channels and     *)
(* publishes a snapshot; broadcasts, the saved list, recorder processes,   *)
(* passwords and commands change at any point in between.  A broadcast is  *)
(* known by its number on the channel; a later one has a larger number.    *)
(*                                                                         *)
(* A live_recordings row and its Streamlink process are one entry of       *)
(* `recordings`, from the row's insertion until the row is finished.       *)
(***************************************************************************)
EXTENDS Integers, Sequences, FiniteSets

CONSTANTS
  Channels,      \* channels a list may hold
  Protected,     \* the broadcasts that ask for a password
  NoChannel,     \* not a channel
  QueueSize,     \* capacity of the command channel
  MaxBroadcasts, \* bound: broadcasts of one channel
  MaxCommands,   \* bound: commands ever sent
  MaxEdits,      \* bound: edits of the saved list
  MaxFaults,     \* bound: failed probes, starts, stops, monitor calls and reloads
  MaxStarts      \* bound: starts of the watcher

Broadcasts == 1 .. MaxBroadcasts
None == 0        \* no broadcast, no recording
RecordingIds == 1 .. (Cardinality(Channels) + MaxFaults)

ASSUME WatcherAssumption ==
  /\ IsFiniteSet(Channels) /\ NoChannel \notin Channels
  /\ MaxBroadcasts \in Nat /\ Protected \subseteq Broadcasts
  /\ QueueSize \in Nat \ {0}
  /\ MaxCommands \in Nat /\ MaxEdits \in Nat /\ MaxFaults \in Nat /\ MaxStarts \in Nat

VARIABLES
  onAir,      \* [Channels -> [bno, live]]: the latest broadcast, and whether it is on
  saved,      \* [Channels -> ListEntries]: the channel list of the database
  manager,    \* "idle", or "stopping": stop() holds the runtime lock and awaits the task
  task,       \* the watcher task: "none", "live", "finished" (not yet reaped)
  stopSent,   \* the stop request was sent
  declined,   \* history: the broadcasts of each channel the user stopped and did not resume;
              \* None: a stop command took back the suppression of an earlier one
  commands,   \* the command channel
  phase,      \* where the task is
  todo,       \* the channels this phase still visits
  starting,   \* the channel whose recording start_recording is starting
  applied,    \* the list last applied (last_channel_signature)
  states,     \* the task's map from channels to ChannelState
  recordings, \* [RecordingIds -> the recording or NoRecording]
  passwords,  \* STREAM_PASSWORDS: the broadcast each channel's password is for
  snapshot,   \* the shared WatcherStatus
  used        \* how much of each bound was used

env     == <<onAir, saved>>
control == <<manager, task, stopSent, declined>>
local   == <<phase, todo, starting, applied, states>>
vars    == <<env, control, commands, local, recordings, passwords, snapshot, used>>

ListEntries == {"ABSENT", "ENABLED", "DISABLED"}
Verbs       == {"STOP", "RESUME", "RECHECK"}
Statuses    == {"UNKNOWN", "DISABLED", "ERROR", "OFFLINE", "AUTH", "PASSWORD_REQUIRED",
                "PAUSED", "RECORDING", "LOW_DISK", "STALLED", "WATCHER_STOPPED"}
Phases      == {"off", "init", "select", "recheck", "monitor", "poll", "exit"}
Bounds      == [commands |-> MaxCommands, edits |-> MaxEdits, faults |-> MaxFaults,
                starts |-> MaxStarts]

NoRecording == [channel |-> NoChannel]
Recording   == [channel : Channels, bno : Broadcasts, running : BOOLEAN, unstopped : BOOLEAN]
ChannelState == [enabled : BOOLEAN, status : Statuses, recording : RecordingIds \cup {None},
                 last : Broadcasts \cup {None}, suppressed : Broadcasts \cup {None},
                 due : BOOLEAN]
ChannelView  == [status : Statuses, bno : Broadcasts \cup {None}]

\* Type invariant.
LiveTypeOK ==
  /\ onAir \in [Channels -> [bno : Broadcasts \cup {None}, live : BOOLEAN]]
  /\ saved \in [Channels -> ListEntries]
  /\ manager \in {"idle", "stopping"}
  /\ task \in {"none", "live", "finished"}
  /\ stopSent \in BOOLEAN /\ declined \in [Channels -> SUBSET (Broadcasts \cup {None})]
  /\ commands \in Seq([channel : Channels, verb : Verbs]) /\ Len(commands) <= QueueSize
  /\ phase \in Phases /\ todo \subseteq Channels /\ starting \in Channels \cup {NoChannel}
  /\ applied \in [Channels -> ListEntries]
  /\ DOMAIN states \subseteq Channels /\ \A c \in DOMAIN states : states[c] \in ChannelState
  /\ recordings \in [RecordingIds -> Recording \cup {NoRecording}]
  /\ passwords \in [Channels -> Broadcasts \cup {None}]
  /\ snapshot.running \in BOOLEAN
  /\ DOMAIN snapshot.channels \subseteq Channels
  /\ \A c \in DOMAIN snapshot.channels : snapshot.channels[c] \in ChannelView
  /\ \A b \in DOMAIN Bounds : used[b] \in 0 .. Bounds[b]

----------------------------------------------------------------------------
(* Helpers.                                                                *)

Use(bound, n) == /\ used[bound] + n <= Bounds[bound]
                 /\ used' = [used EXCEPT ![bound] = @ + n]

\* Whether a step that can fail succeeds: failures are drawn from MaxFaults.
Outcome(ok) == Use("faults", IF ok THEN 0 ELSE 1)

Listed(list) == {c \in Channels : list[c] # "ABSENT"}

\* ChannelState::new
NewState(entry) ==
  [enabled |-> entry = "ENABLED", status |-> IF entry = "ENABLED" THEN "UNKNOWN" ELSE "DISABLED",
   recording |-> None, last |-> None, suppressed |-> None, due |-> TRUE]

IsRecording(c) == c \in DOMAIN states /\ states[c].recording # None
RecordingOf(c) == recordings[states[c].recording]
Records(c, b)  == IsRecording(c) /\ RecordingOf(c).bno = b

\* stop_state_recording: what becomes of the channel's state ...
Stopped(s, ok) ==
  IF s.recording = None THEN s
  ELSE IF ok THEN [s EXCEPT !.recording = None]
       ELSE [s EXCEPT !.status = "ERROR"]

\* ... and of the recordings, when `stop` stops or fails to stop those of a set of channels.
RecordingsAfter(stops, failed) ==
  [r \in RecordingIds |->
     IF \E c \in stops : states[c].recording = r
     THEN IF \E c \in failed : states[c].recording = r
          THEN [recordings[r] EXCEPT !.unstopped = TRUE]
          ELSE NoRecording
     ELSE recordings[r]]

\* Recordings no state of sts owns are dropped, and their process groups with them.
Dropped(recs, sts) ==
  [r \in RecordingIds |->
     IF recs[r] = NoRecording \/ \E c \in DOMAIN sts : sts[c].recording = r
     THEN recs[r]
     ELSE [recs[r] EXCEPT !.running = FALSE]]

\* update_snapshot
Published(sts, recs) ==
  [c \in DOMAIN sts |->
     [status |-> IF sts[c].enabled THEN sts[c].status ELSE "DISABLED",
      bno    |-> IF sts[c].recording # None THEN recs[sts[c].recording].bno ELSE sts[c].last]]
Publish == snapshot' = [snapshot EXCEPT !.channels = Published(states', recordings')]

Init ==
  /\ onAir = [c \in Channels |-> [bno |-> None, live |-> FALSE]]
  /\ saved \in [Channels -> ListEntries]
  /\ manager = "idle" /\ task = "none" /\ stopSent = FALSE
  /\ declined = [c \in Channels |-> {}]
  /\ commands = <<>>
  /\ phase = "off" /\ todo = {} /\ starting = NoChannel
  /\ applied = saved /\ states = [c \in {} |-> NewState("ABSENT")]
  /\ recordings = [r \in RecordingIds |-> NoRecording]
  /\ passwords = [c \in Channels |-> None]
  /\ snapshot = [running |-> FALSE, channels |-> [c \in {} |-> NoChannel]]
  /\ used = [b \in DOMAIN Bounds |-> 0]

----------------------------------------------------------------------------
(* The world: platforms, recorder processes, the list's editors, time.     *)

\* A broadcast begins, or the same one comes back after an interruption.
GoesLive(c) ==
  /\ \E b \in Broadcasts :
       /\ b = onAir[c].bno + 1 \/ (b = onAir[c].bno /\ ~onAir[c].live)
       /\ onAir' = [onAir EXCEPT ![c] = [bno |-> b, live |-> TRUE]]
  /\ UNCHANGED <<saved, control, commands, local, recordings, passwords, snapshot, used>>

GoesOff(c) ==
  /\ onAir[c].live
  /\ onAir' = [onAir EXCEPT ![c].live = FALSE]
  /\ UNCHANGED <<saved, control, commands, local, recordings, passwords, snapshot, used>>

\* Streamlink ends by itself.
RecorderExits(r) ==
  /\ recordings[r] # NoRecording /\ recordings[r].running
  /\ recordings' = [recordings EXCEPT ![r].running = FALSE]
  /\ UNCHANGED <<env, control, commands, local, passwords, snapshot, used>>

\* update_channels, from any process, replaces the saved list.
EditChannels ==
  /\ Use("edits", 1)
  /\ \E c \in Channels : \E e \in ListEntries \ {saved[c]} : saved' = [saved EXCEPT ![c] = e]
  /\ UNCHANGED <<onAir, control, commands, local, recordings, passwords, snapshot>>

\* next_check of a channel is reached.
Elapse(c) ==
  /\ c \in DOMAIN states /\ ~states[c].due
  /\ states' = [states EXCEPT ![c].due = TRUE]
  /\ UNCHANGED <<env, control, commands, phase, todo, starting, applied, recordings, passwords,
                 snapshot, used>>

----------------------------------------------------------------------------
(* The manager.  `runtime` is a mutex: while stop() awaits the task under  *)
(* it, start, status and new command senders wait.                         *)

Start ==
  /\ manager = "idle" /\ task # "live"
  /\ Use("starts", 1)
  /\ task' = "live" /\ stopSent' = FALSE /\ commands' = <<>>
  /\ phase' = "init" /\ applied' = saved
  /\ snapshot' = [running |-> TRUE,
                  channels |-> [c \in Listed(saved) |->
                                  [status |-> NewState(saved[c]).status, bno |-> None]]]
  /\ UNCHANGED <<env, manager, declined, todo, starting, states, recordings, passwords>>

RequestStop ==
  /\ manager = "idle" /\ task # "none"
  /\ manager' = "stopping" /\ stopSent' = TRUE
  /\ UNCHANGED <<env, task, declined, commands, local, recordings, passwords, snapshot, used>>

\* finish_watcher_task returns: stop(), or status() that reaps a finished task.
Reap ==
  /\ task = "finished"
  /\ task' = "none" /\ manager' = "idle"
  /\ snapshot' = [snapshot EXCEPT !.running = FALSE]
  /\ UNCHANGED <<env, stopSent, declined, commands, local, recordings, passwords, used>>

\* channel_action.  A sender cloned before stop() took the lock may still send.
SendCommand(c, verb) ==
  /\ task = "live" /\ Len(commands) < QueueSize
  /\ Use("commands", 1)
  /\ commands' = Append(commands, [channel |-> c, verb |-> verb])
  /\ UNCHANGED <<env, control, local, recordings, passwords, snapshot>>

\* channel_password: for the broadcast the snapshot shows, then a recheck.
SupplyPassword(c) ==
  /\ task = "live" /\ Len(commands) < QueueSize
  /\ c \in DOMAIN snapshot.channels
  /\ snapshot.channels[c].status = "PASSWORD_REQUIRED" /\ snapshot.channels[c].bno # None
  /\ Use("commands", 1)
  /\ passwords' = [passwords EXCEPT ![c] = snapshot.channels[c].bno]
  /\ commands' = Append(commands, [channel |-> c, verb |-> "RECHECK"])
  /\ UNCHANGED <<env, control, local, recordings, snapshot>>

----------------------------------------------------------------------------
(* The watcher task.                                                       *)

\* run_native_watcher up to its loop.
Initialise ==
  /\ phase = "init"
  /\ phase' = "select"
  /\ states' = [c \in Listed(applied) |-> NewState(applied[c])]
  /\ passwords' = [c \in Channels |-> None]
  /\ UNCHANGED <<env, control, commands, todo, starting, applied, recordings, snapshot, used>>

\* ... or it fails and the task ends with an error.
InitialiseFails ==
  /\ phase = "init"
  /\ Outcome(FALSE)
  /\ phase' = "off" /\ task' = "finished" /\ commands' = <<>>
  /\ snapshot' = [snapshot EXCEPT !.running = FALSE]
  /\ UNCHANGED <<env, manager, stopSent, declined, todo, starting, applied, states, recordings,
                 passwords>>

\* What a stop command declines that suppresses the broadcast seen, and whether it replaces
\* a later one by it.
Declines(c, seen) ==
  {b \in Broadcasts : b = seen \/ Records(c, b)}
    \cup (IF seen < states[c].suppressed THEN {None} ELSE {})

\* StopOnce: suppress the broadcast last seen, else the one being recorded; stop it.
StopOnce(c, ok) ==
  LET seen == IF states[c].last # None THEN states[c].last
              ELSE IF IsRecording(c) THEN RecordingOf(c).bno ELSE None
      kept == Stopped([states[c] EXCEPT !.suppressed = seen], ok)
  IN /\ IsRecording(c) \/ ok
     /\ Outcome(ok)
     /\ states' = [states EXCEPT ![c] = [kept EXCEPT !.status = "PAUSED"]]
     /\ recordings' = RecordingsAfter({c}, IF ok THEN {} ELSE {c})
     /\ declined' = [declined EXCEPT ![c] = @ \cup Declines(c, seen)]

\* Resume lifts the suppression and makes the channel due at once.
Resume(c) ==
  /\ states' = [states EXCEPT ![c].suppressed = None, ![c].status = "UNKNOWN", ![c].due = TRUE]
  /\ declined' = [declined EXCEPT ![c] = {}]
  /\ UNCHANGED <<recordings, used>>

Recheck(c) ==
  /\ states' = [states EXCEPT ![c].due = TRUE]
  /\ UNCHANGED <<recordings, declined, used>>

\* A command, and the snapshot after it; one for an unknown channel is only logged.
HandleCommand ==
  /\ phase = "select" /\ commands # <<>>
  /\ commands' = Tail(commands)
  /\ LET c == Head(commands).channel
         verb == Head(commands).verb
     IN \/ c \notin DOMAIN states /\ UNCHANGED <<states, recordings, declined, used>>
        \/ c \in DOMAIN states /\ verb = "STOP" /\ \E ok \in BOOLEAN : StopOnce(c, ok)
        \/ c \in DOMAIN states /\ verb = "RESUME" /\ Resume(c)
        \/ c \in DOMAIN states /\ verb = "RECHECK" /\ Recheck(c)
  /\ Publish
  /\ UNCHANGED <<env, manager, task, stopSent, phase, todo, starting, applied, passwords>>

\* The channels each phase of a tick visits, decided as the phase begins.
ToRecheck(sts) == {c \in DOMAIN sts : sts[c].recording # None /\ sts[c].due}
ToMonitor(sts) == {c \in DOMAIN sts : sts[c].recording # None}

\* Mutant: a channel in error is not polled again.
PollHealthy(sts) ==
  {c \in DOMAIN sts : sts[c].enabled /\ sts[c].recording = None /\ sts[c].due
                         /\ sts[c].status # "ERROR"}

\* Mutant: a recording channel is polled like any other.
PollEveryone(sts) == {c \in DOMAIN sts : sts[c].enabled /\ sts[c].due}

ToPoll(sts)    == {c \in DOMAIN sts : sts[c].enabled /\ sts[c].recording = None /\ sts[c].due}

\* apply_channels: the recordings of channels that left the list or were disabled are
\* stopped; a channel whose stop fails stays, disabled.
Leaving(list)   == DOMAIN states \ Listed(list)
Disabling(list) == {c \in DOMAIN states : states[c].enabled /\ list[c] = "DISABLED"}

Merged(s, entry, ok) ==
  CASE entry = "ABSENT" -> [Stopped(s, ok) EXCEPT !.enabled = FALSE, !.status = "ERROR"]
    [] s.enabled /\ entry = "DISABLED" ->
         [Stopped(s, ok) EXCEPT !.enabled = FALSE, !.status = "DISABLED"]
    [] ~s.enabled /\ entry = "ENABLED" ->
         [s EXCEPT !.enabled = TRUE, !.status = "UNKNOWN", !.due = TRUE]
    [] OTHER -> s

ApplyChannels(list, failed) ==
  LET stops == {c \in Leaving(list) \cup Disabling(list) : IsRecording(c)}
  IN /\ failed \subseteq stops
     /\ Use("faults", Cardinality(failed))
     /\ recordings' = RecordingsAfter(stops, failed)
     /\ states' = [c \in Listed(list) \cup (Leaving(list) \cap failed) |->
                     IF c \in DOMAIN states THEN Merged(states[c], list[c], c \notin failed)
                     ELSE NewState(list[c])]
     /\ applied' = list
     /\ declined' = [c \in Channels |-> IF c \in DOMAIN states' THEN declined[c] ELSE {}]

\* The tick's sleep starts when the select does, so what is pending then is taken first.
\* A tick begins with the reload of the list: no change, an accepted change, or one the configuration or the
\* database refuses, which the next reload tries again.
Tick ==
  /\ phase = "select" /\ commands = <<>> /\ ~stopSent
  /\ phase' = "recheck"
  /\ \/ saved = applied /\ UNCHANGED <<applied, states, recordings, declined, used>>
     \/ saved # applied /\ \E failed \in SUBSET Channels : ApplyChannels(saved, failed)
     \/ saved # applied /\ Outcome(FALSE) /\ UNCHANGED <<applied, states, recordings, declined>>
  /\ todo' = ToRecheck(states')
  /\ UNCHANGED <<env, manager, task, stopSent, commands, starting, passwords, snapshot>>

\* check_recording_broadcasts
BroadcastEnded(c, ok) ==
  /\ ~onAir[c].live
  /\ Outcome(ok)
  /\ states' = [states EXCEPT ![c] = [Stopped(states[c], ok) EXCEPT
                  !.status = "OFFLINE", !.last = None, !.due = FALSE]]
  /\ recordings' = RecordingsAfter({c}, IF ok THEN {} ELSE {c})
  /\ passwords' = [passwords EXCEPT ![c] = None]

\* Mutant: a new broadcast is noted, the old recording goes on.
ChangeNoted(c, ok) ==
  /\ ok /\ onAir[c].live /\ onAir[c].bno # RecordingOf(c).bno
  /\ states' = [states EXCEPT ![c].last = onAir[c].bno, ![c].due = TRUE]
  /\ passwords' = [passwords EXCEPT ![c] = None]
  /\ UNCHANGED <<recordings, used>>

BroadcastChanged(c, ok) ==
  /\ onAir[c].live /\ onAir[c].bno # RecordingOf(c).bno
  /\ Outcome(ok)
  /\ states' = [states EXCEPT ![c] = [Stopped(states[c], ok) EXCEPT
                  !.status = "UNKNOWN", !.last = onAir[c].bno, !.due = TRUE]]
  /\ recordings' = RecordingsAfter({c}, IF ok THEN {} ELSE {c})
  /\ passwords' = [passwords EXCEPT ![c] = None]

\* The same broadcast, or a failed probe: the recorder keeps running.
BroadcastKept(c, ok) ==
  /\ ok => onAir[c].live /\ onAir[c].bno = RecordingOf(c).bno
  /\ Outcome(ok)
  /\ states' = [states EXCEPT ![c].due = FALSE]
  /\ UNCHANGED <<recordings, passwords>>

CheckRecording(c) ==
  /\ phase = "recheck" /\ c \in todo
  /\ todo' = todo \ {c}
  /\ \E ok \in BOOLEAN : BroadcastEnded(c, ok) \/ BroadcastChanged(c, ok) \/ BroadcastKept(c, ok)
  /\ UNCHANGED <<env, control, commands, phase, starting, applied, snapshot>>

\* monitor_recordings: the process ended, with exit code 0 or another ...
Exited(c, normal) ==
  /\ ~RecordingOf(c).running
  /\ states' = [states EXCEPT ![c].recording = None,
                              ![c].status = IF normal THEN "UNKNOWN" ELSE "ERROR",
                              ![c].due = normal]
  /\ recordings' = [recordings EXCEPT ![states[c].recording] = NoRecording]
  /\ UNCHANGED used

\* ... the disk is nearly full or the file does not grow ...
Hampered(c, status, ok) ==
  /\ RecordingOf(c).running
  /\ Outcome(ok)
  /\ states' = [states EXCEPT ![c] = [Stopped([states[c] EXCEPT !.status = status], ok) EXCEPT
                  !.due = (status = "STALLED")]]
  /\ recordings' = RecordingsAfter({c}, IF ok THEN {} ELSE {c})

\* ... the poll itself fails, or all is well.
MonitorFails(c) ==
  /\ Outcome(FALSE)
  /\ states' = [states EXCEPT ![c].status = "ERROR"]
  /\ UNCHANGED recordings

StillRunning(c) ==
  /\ RecordingOf(c).running
  /\ UNCHANGED <<states, recordings, used>>

Monitor(c) ==
  /\ phase = "monitor" /\ c \in todo
  /\ todo' = todo \ {c}
  /\ \/ \E normal \in BOOLEAN : Exited(c, normal)
     \/ \E status \in {"LOW_DISK", "STALLED"}, ok \in BOOLEAN : Hampered(c, status, ok)
     \/ MonitorFails(c)
     \/ StillRunning(c)
  /\ UNCHANGED <<env, control, commands, phase, starting, applied, passwords, snapshot>>

\* poll_channels: the channel is offline ...
\* Mutant: going off the air ends the suppression.
OfflineForgets(c) ==
  /\ ~onAir[c].live
  /\ states' = [states EXCEPT ![c].status = "OFFLINE", ![c].last = None, ![c].due = FALSE,
                              ![c].suppressed = None]
  /\ passwords' = [passwords EXCEPT ![c] = None]
  /\ UNCHANGED <<starting, used>>

ProbedOffline(c) ==
  /\ ~onAir[c].live
  /\ states' = [states EXCEPT ![c].status = "OFFLINE", ![c].last = None, ![c].due = FALSE]
  /\ passwords' = [passwords EXCEPT ![c] = None]
  /\ UNCHANGED <<starting, used>>

\* ... the probe fails, or asks for a login, after which the channel is probed again ...
ProbeFails(c, status, recovered) ==
  /\ Outcome(FALSE)
  /\ recovered => status = "AUTH"
  /\ states' = [states EXCEPT ![c].status = status, ![c].due = recovered]
  /\ UNCHANGED <<starting, passwords>>

\* ... or it is live: a broadcast that needs a password or that the user stopped is left
\* alone, any other is started.
Locked(c, b) == b \in Protected /\ passwords[c] # b

ProbedLive(c, b) ==
  /\ onAir[c] = [bno |-> b, live |-> TRUE]
  /\ passwords' = IF b \in Protected /\ ~Locked(c, b) THEN passwords
                  ELSE [passwords EXCEPT ![c] = None]
  /\ LET seen == [states[c] EXCEPT !.last = b, !.due = FALSE]
     IN \/ /\ Locked(c, b)
           /\ states' = [states EXCEPT ![c] = [seen EXCEPT !.status = "PASSWORD_REQUIRED"]]
           /\ UNCHANGED starting
        \/ /\ ~Locked(c, b) /\ seen.suppressed = b
           /\ states' = [states EXCEPT ![c] = [seen EXCEPT !.status = "PAUSED"]]
           /\ UNCHANGED starting
        \/ /\ ~Locked(c, b) /\ seen.suppressed # b
           /\ states' = [states EXCEPT ![c] = [seen EXCEPT !.suppressed = None]]
           /\ starting' = c
  /\ UNCHANGED used

Poll(c) ==
  /\ phase = "poll" /\ starting = NoChannel /\ c \in todo
  /\ todo' = todo \ {c}
  /\ \/ ProbedOffline(c)
     \/ \E status \in {"ERROR", "AUTH"}, recovered \in BOOLEAN : ProbeFails(c, status, recovered)
     \/ \E b \in Broadcasts : ProbedLive(c, b)
  /\ UNCHANGED <<env, control, commands, phase, applied, recordings, snapshot>>

\* start_recording of the broadcast that was probed; the world went on meanwhile.
Started ==
  /\ starting # NoChannel
  /\ LET r == CHOOSE free \in RecordingIds : recordings[free] = NoRecording
     IN /\ states' = [states EXCEPT ![starting].recording = r, ![starting].status = "RECORDING"]
        /\ recordings' = Dropped([recordings EXCEPT ![r] =
                           [channel |-> starting, bno |-> states[starting].last,
                            running |-> TRUE, unstopped |-> FALSE]], states')
  /\ starting' = NoChannel
  /\ UNCHANGED <<env, control, commands, phase, todo, applied, passwords, snapshot, used>>

StartFails ==
  /\ starting # NoChannel
  /\ Outcome(FALSE)
  /\ IF states[starting].last \in Protected
     THEN /\ states' = [states EXCEPT ![starting].status = "PASSWORD_REQUIRED"]
          /\ passwords' = [passwords EXCEPT ![starting] = None]
     ELSE /\ states' = [states EXCEPT ![starting].status = "ERROR"]
          /\ UNCHANGED passwords
  /\ starting' = NoChannel
  /\ UNCHANGED <<env, control, commands, phase, todo, applied, recordings, snapshot>>

\* The phases of a tick, in order; the snapshot is published at its end.
NextPhase ==
  /\ todo = {} /\ starting = NoChannel
  /\ \/ phase = "recheck" /\ phase' = "monitor" /\ todo' = ToMonitor(states) /\ UNCHANGED snapshot
     \/ phase = "monitor" /\ phase' = "poll" /\ todo' = ToPoll(states) /\ UNCHANGED snapshot
     \/ /\ phase = "poll" /\ phase' = "select" /\ todo' = {}
        /\ snapshot' = [snapshot EXCEPT !.channels = Published(states, recordings)]
  /\ UNCHANGED <<env, control, commands, starting, applied, states, recordings, passwords, used>>

\* The stop request breaks the loop; every recording is stopped, once.
BreakLoop ==
  /\ phase = "select" /\ stopSent
  /\ phase' = "exit" /\ todo' = ToMonitor(states)
  /\ UNCHANGED <<env, control, commands, starting, applied, states, recordings, passwords,
                 snapshot, used>>

ExitStop(c) ==
  /\ phase = "exit" /\ c \in todo
  /\ todo' = todo \ {c}
  /\ \E ok \in BOOLEAN :
       /\ Outcome(ok)
       /\ states' = [states EXCEPT ![c] = Stopped(states[c], ok)]
       /\ recordings' = RecordingsAfter({c}, IF ok THEN {} ELSE {c})
  /\ UNCHANGED <<env, control, commands, phase, starting, applied, passwords, snapshot>>

\* mark_watcher_stopped, the last snapshot, and the end of the task, which drops its state.
MarkedStopped ==
  [c \in DOMAIN states |->
     IF states[c].enabled
     THEN [states[c] EXCEPT !.status = "WATCHER_STOPPED", !.last = None, !.suppressed = None]
     ELSE [states[c] EXCEPT !.status = "DISABLED"]]

ExitEnds ==
  /\ phase = "exit" /\ todo = {}
  /\ phase' = "off" /\ task' = "finished" /\ commands' = <<>>
  /\ passwords' = [c \in Channels |-> None]
  /\ snapshot' = [running |-> FALSE, channels |-> Published(MarkedStopped, recordings)]
  /\ states' = [c \in {} |-> NewState("ABSENT")]
  /\ recordings' = Dropped(recordings, states')
  /\ declined' = [c \in Channels |-> {}]
  /\ UNCHANGED <<env, manager, stopSent, todo, starting, applied, used>>

----------------------------------------------------------------------------

World == \/ \E c \in Channels : GoesLive(c) \/ GoesOff(c)
         \/ \E r \in RecordingIds : RecorderExits(r)
         \/ EditChannels
Users == \/ Start \/ RequestStop
         \/ \E c \in Channels : SupplyPassword(c) \/ \E verb \in Verbs : SendCommand(c, verb)
Task  == \/ Initialise \/ InitialiseFails \/ HandleCommand \/ Tick \/ NextPhase
         \/ Started \/ StartFails \/ BreakLoop \/ ExitEnds
         \/ \E c \in Channels : CheckRecording(c) \/ Monitor(c) \/ Poll(c) \/ ExitStop(c)
Next  == World \/ Users \/ Task \/ Reap \/ \E c \in Channels : Elapse(c)

Spec == Init /\ [][Next]_vars

\* The watcher task is always scheduled again, stop() sees it end, and timers expire.  Nothing
\* is assumed of platforms, processes, the list or users, whose number of actions the bounds
\* limit where they could hold the task up for ever.
Fairness ==
  /\ WF_vars(Task) /\ WF_vars(Reap)
  /\ \A c \in Channels : WF_vars(Elapse(c))

FairSpec == Spec /\ Fairness

----------------------------------------------------------------------------
(* Safety.                                                                 *)

\* A live_recordings row is open exactly while its channel owns the recording, and no channel
\* has two: only a row whose recorder could not be stopped outlives its owner, and the process
\* never does (Recording is moved in and out of ChannelState by five functions).
OpenRowIsOwned ==
  /\ \A r \in RecordingIds : recordings[r] # NoRecording =>
       \/ \E c \in DOMAIN states : states[c].recording = r /\ recordings[r].channel = c
       \/ recordings[r].unstopped /\ ~recordings[r].running
  /\ \A c \in DOMAIN states : IsRecording(c) => RecordingOf(c) # NoRecording

\* RECORDING is shown only for a channel with a recorder, and a channel with a recorder is
\* shown neither offline, paused, disabled nor waiting unless stopping that recorder failed
\* (the exit marks the statuses once all are stopped).
StatusTellsTheRecording ==
  phase # "exit" => \A c \in DOMAIN states :
    /\ states[c].status = "RECORDING" => IsRecording(c) /\ states[c].enabled
    /\ IsRecording(c) /\ states[c].status \in {"OFFLINE", "PAUSED", "DISABLED", "AUTH",
                                                "PASSWORD_REQUIRED", "LOW_DISK", "STALLED"}
         => RecordingOf(c).unstopped

\* A stopped watcher owns no recorder, and its last snapshot shows none.
StoppedWatcherIsQuiet ==
  task # "live" =>
    /\ ~snapshot.running
    /\ \A r \in RecordingIds : recordings[r] # NoRecording => ~recordings[r].running
    /\ \A c \in DOMAIN snapshot.channels : snapshot.channels[c].status # "RECORDING"

----------------------------------------------------------------------------
(* Action properties.                                                      *)

Begins(c) == ~IsRecording(c) /\ IsRecording(c)'

\* "The current broadcast is excluded until the broadcast changes" (controller.rs): a broadcast
\* the user stopped is not recorded again on its channel, although it stays on the air or comes
\* back, the channel is rechecked, disabled and enabled, or the start of a later broadcast fails;
\* only Resume, the removal of the channel or a new watcher forgets it.
StoppedStaysStopped ==
  [][\A c \in Channels : Begins(c) => RecordingOf(c)'.bno \notin declined[c]]_vars

\* The same, except after a stop command that replaced the suppressed broadcast by none, when
\* the channel was off the air, or by an earlier one, whose recording could not be stopped.
SuppressionHolds ==
  [][\A c \in Channels : Begins(c) /\ RecordingOf(c)'.bno \in declined[c]
       => None \in declined[c]]_vars

----------------------------------------------------------------------------
(* Liveness, for a watcher that runs and is not asked to stop.             *)

Watching == task = "live" /\ ~stopSent

Wanted(c, b) ==
  /\ Watching
  /\ saved[c] = "ENABLED" /\ onAir[c] = [bno |-> b, live |-> TRUE] /\ b \notin Protected
  /\ c \in DOMAIN states => states[c].suppressed # b

\* A broadcast of an enabled channel that stays on the air is recorded, whatever was recorded,
\* failed, disabled or stopped on that channel before.
WantedIsRecorded ==
  \A c \in Channels, b \in Broadcasts : Wanted(c, b) ~> (Records(c, b) \/ ~Wanted(c, b))

\* A recording whose broadcast is over is stopped, a failed stop notwithstanding.
OverIsStopped ==
  \A c \in Channels, b \in Broadcasts :
    (Records(c, b) /\ onAir[c] # [bno |-> b, live |-> TRUE])
      ~> (~Records(c, b) \/ onAir[c] = [bno |-> b, live |-> TRUE])

\* A channel disabled in, or removed from, the saved list stops being recorded, unless the
\* stop failed; a rejected reload is tried again.
UnlistedIsStopped ==
  \A c \in Channels :
    (saved[c] # "ENABLED" /\ IsRecording(c))
      ~> (saved[c] = "ENABLED" \/ ~IsRecording(c) \/ RecordingOf(c).unstopped)

\* stop() returns (NativeWatcherManager::stop awaits the task under the runtime lock).
StopReturns == manager = "stopping" ~> manager = "idle"

\* What the log of a failed stop announces, "retaining ownership for retry": when the user's
\* stop of a broadcast that goes on fails, it is tried again until the recording ends, unless
\* the user resumes the channel.
FailedStop(c, b) ==
  Watching /\ Records(c, b) /\ RecordingOf(c).unstopped /\ b \in declined[c]
           /\ onAir[c] = [bno |-> b, live |-> TRUE]
FailedStopIsRetried ==
  \A c \in Channels, b \in Broadcasts : FailedStop(c, b) ~> ~FailedStop(c, b)

\* The rows, the statuses and the recorders agree.
LiveInv == LiveTypeOK /\ OpenRowIsOwned /\ StatusTellsTheRecording /\ StoppedWatcherIsQuiet

\* A recording nobody wants any more is stopped: its broadcast is over, its channel is no longer
\* enabled, or the watcher is stopped.
UnwantedIsStopped == OverIsStopped /\ UnlistedIsStopped /\ StopReturns
=============================================================================
