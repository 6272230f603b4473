---------------------------- MODULE MediaProcess ----------------------------
(***************************************************************************)
(* One run of an external tool: run_media_process of media_process.rs with  *)
(* the owned process tree of platform_runtime.rs, for Unix a process group  *)
(* (platform_runtime_unix.rs).  The tool may start helpers in its group and *)
(* ones that leave it, ignore SIGTERM, and keep the pipes open.             *)
(***************************************************************************)
EXTENDS Naturals

CONSTANTS
  Root,      \* the process of the tool
  Helpers,   \* what it may start in its group
  Daemons,   \* what leaves the group and keeps the pipes
  Limit,     \* capture_limit, in chunks of output
  MaxOutput  \* bound: chunks of output

VARIABLES
  alive,    \* processes that run
  born,     \* processes that have been started
  killed,   \* processes that were sent SIGKILL
  failed,   \* whether the tool has exited with an error
  asked,    \* the caller's cancellation
  pc,       \* where the run is
  outcome,  \* MediaProcessOutcome
  written,  \* chunks the processes have written
  read,     \* chunks the capture task has read
  cut       \* CapturedOutput.truncated

tools == <<alive, born, killed, failed>>
pipe  == <<written, read>>
vars  == <<tools, asked, pc, outcome, pipe, cut>>

Members == {Root} \cup Helpers
Group   == alive \cap Members

\* Type invariant.
MediaTypeOK ==
  /\ alive \subseteq born /\ born \subseteq Members \cup Daemons /\ killed \subseteq Members
  /\ failed \in BOOLEAN /\ asked \in BOOLEAN /\ cut \in BOOLEAN
  /\ pc \in {"start", "polls", "terms", "graces", "settles", "drains", "done", "dropped"}
  /\ outcome \in {"Success", "ProcessFailure", "Cancelled", "Timeout", "SpawnFailure"}
  /\ written \in 0 .. MaxOutput /\ read \in 0 .. written

Init ==
  /\ alive = {} /\ born = {} /\ killed = {} /\ failed = FALSE /\ asked = FALSE
  /\ pc = "start" /\ outcome = "Success" /\ written = 0 /\ read = 0 /\ cut = FALSE

----------------------------------------------------------------------------
(* The processes.                                                          *)

\* A member that was not killed starts another process, which keeps the pipes open.
Fork ==
  /\ Group \ killed # {}
  /\ \E p \in (Helpers \cup Daemons) \ born : born' = born \cup {p} /\ alive' = alive \cup {p}
  /\ UNCHANGED <<killed, failed, asked, pc, outcome, pipe, cut>>

Write ==
  /\ alive \ killed # {} /\ written < MaxOutput /\ written' = written + 1
  /\ UNCHANGED <<tools, asked, pc, outcome, read, cut>>

\* A process ends by itself, by SIGTERM unless it ignores it, or by SIGKILL.
Die(p) ==
  /\ p \in alive /\ alive' = alive \ {p}
  /\ failed' \in (IF p = Root THEN BOOLEAN ELSE {failed})
  /\ UNCHANGED <<born, killed, asked, pc, outcome, pipe, cut>>

\* capture_bounded: the pipe ends when no process has it open.
Capture ==
  /\ pc \notin {"done", "dropped"} /\ read < written /\ read' = read + 1
  /\ UNCHANGED <<tools, asked, pc, outcome, written, cut>>

----------------------------------------------------------------------------
(* The run.                                                                *)

At(here, there) == pc = here /\ pc' = there

\* MediaCancellation::cancel, at any time.
Cancel == ~asked /\ asked' = TRUE /\ UNCHANGED <<tools, pc, outcome, pipe, cut>>

\* spawn_owned: the group is there before the tool runs.
Spawn ==
  \/ /\ At("start", "polls") /\ alive' = {Root} /\ born' = {Root}
     /\ UNCHANGED <<killed, failed, asked, outcome, pipe, cut>>
  \/ At("start", "done") /\ outcome' = "SpawnFailure" /\ UNCHANGED <<tools, asked, pipe, cut>>

\* Where the call goes when the tool has exited: the rest of its group is killed first.
Cleanup == "terms"

\* poll_decision: an exit before a cancellation before the deadline.
PollExit ==
  /\ Root \notin alive /\ At("polls", Cleanup)
  /\ outcome' = IF failed THEN "ProcessFailure" ELSE "Success"
  /\ UNCHANGED <<tools, asked, pipe, cut>>

PollCancelled ==
  /\ Root \in alive /\ asked /\ At("polls", "terms") /\ outcome' = "Cancelled"
  /\ UNCHANGED <<tools, asked, pipe, cut>>

PollTimeout ==
  /\ Root \in alive /\ ~asked /\ At("polls", "terms") /\ outcome' = "Timeout"
  /\ UNCHANGED <<tools, asked, pipe, cut>>

\* terminate_now, terminate: SIGTERM to the group, and a grace in which it may go.
Term == At("terms", "graces") /\ UNCHANGED <<tools, asked, outcome, pipe, cut>>

GroupIsGone ==
  /\ Group = {} /\ (At("graces", "drains") \/ At("settles", "drains"))
  /\ UNCHANGED <<tools, asked, outcome, pipe, cut>>

\* terminate_now kills the whole group.
Victims == Group

\* The grace is over: SIGKILL to what is left of the group.
Kill ==
  /\ Group # {} /\ At("graces", "settles") /\ killed' = killed \cup Victims
  /\ UNCHANGED <<alive, born, failed, asked, outcome, pipe, cut>>

\* A process the kernel does not let die in time is not waited for.
SettleTimeout == At("settles", "drains") /\ UNCHANGED <<tools, asked, outcome, pipe, cut>>

\* An unfinished capture is told like an overflowing one.
Truncated(incomplete) == read > Limit \/ incomplete

\* finish_capture: to the end of the output, or until the drain timeout.
Drained ==
  /\ read = written /\ alive = {} /\ At("drains", "done") /\ cut' = Truncated(FALSE)
  /\ UNCHANGED <<tools, asked, outcome, pipe>>

\* finish_capture joins the capture tasks with a timeout.
Bounded == TRUE
DrainTimeout ==
  /\ Bounded /\ (read < written \/ alive # {})
  /\ At("drains", "done") /\ cut' = Truncated(TRUE)
  /\ UNCHANGED <<tools, asked, outcome, pipe>>

\* Mutant: a run that is dropped leaves its group.
NoDrop == {}
DropKills == Group

\* The caller's future is dropped: the group is killed by its owner's drop.
Drop ==
  /\ pc \notin {"start", "done", "dropped"} /\ pc' = "dropped" /\ killed' = killed \cup DropKills
  /\ UNCHANGED <<alive, born, failed, asked, outcome, pipe, cut>>

Next ==
  \/ Fork \/ Write \/ (\E p \in Members \cup Daemons : Die(p)) \/ Capture \/ Cancel
  \/ Spawn \/ PollExit \/ PollCancelled \/ PollTimeout \/ Term \/ GroupIsGone \/ Kill
  \/ SettleTimeout \/ Drained \/ DrainTimeout \/ Drop

Spec == Init /\ [][Next]_vars

\* The run goes on, and its deadline comes; the processes need not end.
Run == \/ PollExit \/ PollCancelled \/ PollTimeout \/ Term \/ GroupIsGone \/ Kill
       \/ SettleTimeout \/ Drained \/ DrainTimeout

----------------------------------------------------------------------------
(* Properties.                                                             *)

\* However a run ends, every process of its group is gone or was sent SIGKILL: the tool, what it
\* started, and what it started while it was terminated (platform_runtime.rs).
NothingSurvives == pc \in {"done", "dropped"} => Group \subseteq killed

\* A captured output that does not say so is not cut: everything any process wrote to the pipe
\* is in it (media_process.rs).
OutputIsWhole == pc = "done" /\ ~cut => read = written /\ read <= Limit

\* A cancelled run ends, also when a process holds the pipes open for ever.
RunReturns == pc = "polls" ~> pc \in {"done", "dropped"}

\* A run leaves no process and no silently shortened output behind.
RunIsClean == MediaTypeOK /\ NothingSurvives /\ OutputIsWhole
=============================================================================
