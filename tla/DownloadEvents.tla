--------------------------- MODULE DownloadEvents ---------------------------
(***************************************************************************)
(* The result of a download on its way to the desktop notification: the     *)
(* job's task, the epoch that a settings change or a restore moves on, the  *)
(* broadcast channel, the desktop worker that drains it and the window that *)
(* decides what to show (download_events.rs, platform/vod.rs, controller.rs *)
(* and notifications.rs).                                                   *)
(***************************************************************************)
EXTENDS Naturals, Sequences

CONSTANTS
  Providers, \* the managers whose tasks report
  Queue,     \* the queue worker, which reports the jobs it cannot start
  Capacity,  \* results the channel keeps (128)
  MaxJobs,   \* bound: results
  MaxEpoch   \* bound: settings changes and restores

VARIABLES
  epoch, on,  \* the generation, and the stored STREAM_ARCHIVE_DOWNLOAD_NOTIFICATIONS
  task,       \* per reporter: its job, whether the status says running, and its epoch token
  ring,       \* the channel: <<job, epoch>>
  change,     \* where the desktop worker is: "idle", "saved" or "copied"
  mail,       \* responses to the window
  enabled,    \* download_notifications_enabled of the window
  notices,    \* results that wait to be shown
  told,       \* results that were shown
  lost,       \* history: results the full channel dropped
  ended,      \* history: the epoch in which a job ended, MaxEpoch + 1 before
  inForce,    \* history: the values of the setting in each epoch
  era         \* history: the epoch of the last ClearNotices the window has handled

channel == <<ring, lost>>
window  == <<mail, enabled, notices, told, era>>
vars    == <<epoch, on, task, channel, change, window, ended, inForce>>

Reporters == Providers \cup {Queue}
Jobs      == 1 .. MaxJobs
Epochs    == 0 .. MaxEpoch
Pending   == MaxEpoch + 1
Idle(t)   == [pc |-> "none", job |-> 0, running |-> FALSE, token |-> t]
NoJob     == Idle(0)

\* The responses that matter here.
Clear(e)      == [kind |-> "clear", of |-> e]
Snapshot(v)   == [kind |-> "snapshot", on |-> v]
Downloads(js) == [kind |-> "downloads", jobs |-> js]

\* Type invariant.
EventsTypeOK ==
  /\ epoch \in Epochs /\ on \in BOOLEAN /\ enabled \in BOOLEAN /\ era \in Epochs
  /\ task \in [Reporters -> [pc : {"none", "run", "ended"}, job : 0 .. MaxJobs,
                             running : BOOLEAN, token : Epochs]]
  /\ ring \in Seq(Jobs \X Epochs) /\ Len(ring) <= Capacity
  /\ change \in {"idle", "saved", "copied"}
  /\ notices \subseteq Jobs /\ told \subseteq Jobs /\ lost \subseteq Jobs
  /\ ended \in [Jobs -> 0 .. Pending] /\ inForce \in [Epochs -> SUBSET BOOLEAN]

Init ==
  /\ epoch = 0 /\ on \in BOOLEAN /\ task = [r \in Reporters |-> NoJob]
  /\ ring = <<>> /\ lost = {} /\ change = "idle"
  /\ mail = <<Snapshot(on)>> /\ enabled = FALSE /\ notices = {} /\ told = {} /\ era = 0
  /\ ended = [j \in Jobs |-> Pending]
  /\ inForce = [e \in Epochs |-> IF e = 0 THEN {on} ELSE {}]

----------------------------------------------------------------------------
(* Jobs.                                                                   *)

Begun   == {task[r].job : r \in Reporters} \cup {j \in Jobs : ended[j] # Pending}
Running == \E r \in Reporters : task[r].running

\* The next job, if there is one left.
NextJob(j) == j \in Jobs /\ j \notin Begun /\ \A k \in Jobs : k < j => k \in Begun

\* start_job: the task of the provider's last job is over, no provider runs, and no restore
\* holds lifecycle_lock. The token is set with the status, under the status lock.
Start(p, j) ==
  /\ change # "copied" /\ ~Running /\ task[p].pc = "none" /\ NextJob(j)
  /\ task' = [task EXCEPT ![p] = [pc |-> "run", job |-> j, running |-> TRUE, token |-> epoch]]
  /\ UNCHANGED <<epoch, on, channel, change, window, ended, inForce>>

\* The last status of a job. A cancelled one, and an analysis, are never reported: such a task
\* is over with it.
End(p) ==
  /\ task[p].pc = "run"
  /\ ended' = [ended EXCEPT ![task[p].job] = epoch]
  /\ \/ /\ task' = [task EXCEPT ![p] = [pc |-> "ended", job |-> @.job, running |-> FALSE, token |-> @.token]]
        /\ UNCHANGED lost
     \/ /\ task' = [task EXCEPT ![p] = Idle(task[p].token)]
        /\ lost' = lost \cup {task[p].job}
  /\ UNCHANGED <<epoch, on, ring, change, window, inForce>>

\* fail_start: the worker's row could not be started. The epoch is read before the row is FAILED.
FailStart(j) ==
  /\ change # "copied" /\ task[Queue].pc = "none" /\ NextJob(j)
  /\ task' = [task EXCEPT ![Queue] = [pc |-> "ended", job |-> j, running |-> FALSE, token |-> epoch]]
  /\ ended' = [ended EXCEPT ![j] = epoch]
  /\ UNCHANGED <<epoch, on, channel, change, window, inForce>>

\* Mutant: the epoch is not looked at.
AnyEpoch(e) == TRUE
\* is_current, and the comparison of publish().
Current(e) == e = epoch

\* A broadcast channel drops its oldest entry when it is full.
Send(entry) ==
  IF Len(ring) = Capacity
  THEN ring' = Append(Tail(ring), entry) /\ lost' = lost \cup {Head(ring)[1]}
  ELSE ring' = Append(ring, entry) /\ UNCHANGED lost

\* DownloadEvents::publish, from terminal() or start_failed(), with the generation locked.
Publish(r) ==
  /\ task[r].pc = "ended"
  /\ task' = [task EXCEPT ![r] = Idle(task[r].token)]
  /\ IF task[r].token = epoch THEN Send(<<task[r].job, epoch>>) ELSE UNCHANGED channel
  /\ UNCHANGED <<epoch, on, change, window, ended, inForce>>

----------------------------------------------------------------------------
(* The desktop worker, which handles one request after another.            *)

\* Request::Save of the notification setting: the transaction of update_environment_settings.
Save ==
  /\ change = "idle" /\ epoch < MaxEpoch
  /\ on' \in BOOLEAN /\ change' = "saved"
  /\ UNCHANGED <<epoch, task, channel, window, ended, inForce>>

\* Jobs that run follow the new setting, the others keep their dead token.
\* Mutant: the tokens are left alone.
NoRearm(t, e) == t
Rearm(t, e) == [r \in Reporters |-> IF t[r].running THEN [t[r] EXCEPT !.token = e] ELSE t[r]]

\* A new generation begins with the stored setting; the window is told to forget what waits.
NewEpoch ==
  /\ change' = "idle" /\ epoch' = epoch + 1
  /\ inForce' = [inForce EXCEPT ![epoch'] = {on}]
  /\ mail' = Append(Append(mail, Clear(epoch')), Snapshot(on))
  /\ UNCHANGED <<on, channel, enabled, notices, told, era, ended>>

\* notification_settings_changed, with the three status locks held.
Transition == change = "saved" /\ NewEpoch /\ task' = Rearm(task, epoch')

\* restore_backup up to the page copy: nothing runs, and the settings are those of the copy.
Restore ==
  /\ change = "idle" /\ ~Running /\ epoch < MaxEpoch
  /\ on' \in BOOLEAN /\ change' = "copied"
  /\ UNCHANGED <<epoch, task, channel, window, ended, inForce>>

\* The rest of it: invalidate_download_events, or an error (of the schema step or of the
\* cleanup of old copies) after which the generation stays and the window is not told.
Restored ==
  /\ change = "copied"
  /\ \/ NewEpoch /\ UNCHANGED task
     \/ /\ change' = "idle" /\ inForce' = [inForce EXCEPT ![epoch] = @ \cup {on}]
        /\ UNCHANGED <<epoch, on, task, channel, window, ended>>

\* Request::Reload.
Reload ==
  /\ change = "idle" /\ Len(mail) < 2
  /\ mail' = Append(mail, Snapshot(on))
  /\ UNCHANGED <<epoch, on, task, channel, change, enabled, notices, told, era, ended, inForce>>

\* After every request: what the channel has of this generation goes to the window.
Drain ==
  /\ change = "idle" /\ ring # <<>>
  /\ LET fresh == {ring[i][1] : i \in {k \in DOMAIN ring : Current(ring[k][2])}}
     IN mail' = IF fresh = {} THEN mail ELSE Append(mail, Downloads(fresh))
  /\ ring' = <<>>
  /\ UNCHANGED <<epoch, on, task, lost, change, enabled, notices, told, era, ended, inForce>>

----------------------------------------------------------------------------
(* The window.                                                             *)

\* The response timer takes one response after the other; Tracker::collect consumes what ends
\* while notifications are off.
Receive ==
  /\ mail # <<>> /\ mail' = Tail(mail)
  /\ LET m == Head(mail) IN
     CASE m.kind = "clear"     -> notices' = {} /\ era' = m.of /\ UNCHANGED enabled
       [] m.kind = "snapshot"  -> enabled' = m.on /\ UNCHANGED <<notices, era>>
       [] m.kind = "downloads" -> /\ notices' = IF enabled THEN notices \cup m.jobs ELSE notices
                                  /\ UNCHANGED <<enabled, era>>
  /\ UNCHANGED <<epoch, on, task, channel, change, told, ended, inForce>>

\* NoticeQueue::take: what waits is shown together.
Show ==
  /\ notices # {} /\ told' = told \cup notices /\ notices' = {}
  /\ UNCHANGED <<epoch, on, task, channel, change, mail, enabled, era, ended, inForce>>

Next ==
  \/ \E p \in Providers, j \in Jobs : Start(p, j)
  \/ \E p \in Providers : End(p)
  \/ \E j \in Jobs : FailStart(j)
  \/ \E r \in Reporters : Publish(r)
  \/ Save \/ Transition \/ Restore \/ Restored \/ Reload \/ Drain \/ Receive \/ Show

Spec == Init /\ [][Next]_vars

----------------------------------------------------------------------------
(* Properties.                                                             *)

\* No result of an earlier generation waits to be shown once the window knows of the new one: a
\* restore brings no old result back, although it may be published, or read, after it
\* (download_events.rs, is_current and publish).
NoticesAreOfThisEra == \A j \in notices : ended[j] >= era

\* A result that came while notifications were off is never shown, also not when they are
\* switched on again before it is read (PHASE24_2_WINDOWS_NOTIFICATIONS).
NothingIsReplayed == \A j \in notices \cup told : TRUE \in inForce[ended[j]]

\* A result that came while they were on is shown, unless another generation follows or the
\* channel is full: a job that was running when they were switched on belongs to them.
ResultsAreTold ==
  \A j \in Jobs :
    ended[j] = epoch /\ inForce[epoch] = {TRUE}
      ~> j \in told \cup lost \/ ended[j] # epoch \/ change = "copied" \/ FALSE \in inForce[epoch]

\* What waits to be shown is of this generation and of a time with notifications.
NoticesAreCurrent == EventsTypeOK /\ NoticesAreOfThisEra /\ NothingIsReplayed
=============================================================================
