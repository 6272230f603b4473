------------------------- MODULE DesktopController -------------------------
(***************************************************************************)
(* The desktop application around the core (controller.rs of rust-gui): the *)
(* UI thread with its callbacks and timers, the worker thread that runs one *)
(* request after the other, the two channels between them, the visibility   *)
(* of the LIVE page (live_model.rs) and the exit.  A page stands for a part *)
(* of the window with a busy flag of its own.                               *)
(***************************************************************************)
EXTENDS Naturals, Sequences, FiniteSets, SequencesExt

CONSTANTS
  Live, Settings, Maintenance, \* pages with behaviour of their own
  Others,                      \* the remaining pages
  Forgotten,                   \* pages a failed start leaves busy (storage, queue, history)
  MaxWorld,                    \* bound: changes of the runtime
  MaxPending,                  \* bound: requests and responses on their way
  MaxOpenings                  \* bound: openings of the LIVE page

Pages == {Live, Settings, Maintenance} \cup Others
Plain == Pages \ {Live, Settings}

ASSUME DesktopAssumption ==
  /\ Live # Settings /\ Maintenance \notin {Live, Settings}
  /\ Others \cap {Live, Settings, Maintenance} = {} /\ IsFiniteSet(Others)
  /\ Forgotten \subseteq Others
  /\ {MaxWorld, MaxPending, MaxOpenings} \subseteq Nat /\ MaxOpenings > 0

VARIABLES
  requests, responses, \* the channels
  worker,   \* the worker thread: "opens", "runs", "failed" or "ended"
  world,    \* a version of the runtime's state
  active,   \* whether the runtime has work
  started,  \* whether it got work from the window after the exit check
  busy,     \* pages with a busy flag
  polling,  \* pages with a poll in flight
  loaded,   \* pages whose data has been shown
  page, visible, \* what the user looks at
  open, generation, awaiting, latest, \* LiveModel: visible, generation, awaiting_snapshot, latest
  shown,    \* the version on the LIVE page, or NoRows
  since,    \* the version when the page was opened
  exit,     \* "no", "asked" (desktop_exit_pending), "stops", "done"
  consent   \* whether the user was asked before the stop

queues == <<requests, responses>>
core   == <<worker, world, active, started>>
flags  == <<busy, polling>>
user   == <<page, visible>>
live   == <<open, generation, awaiting, latest, shown, since>>
ending == <<exit, consent>>
vars   == <<queues, core, flags, loaded, user, live, ending>>

NoRows == MaxWorld + 1

Request  == [page : Pages, kind : {"command", "poll", "refresh", "restore", "check", "shutdown"},
             gen : 0 .. MaxOpenings]
Response == [page : Pages, kind : {"answer", "poll", "failed", "snapshot", "bare", "error", "check", "complete"},
             gen : 0 .. MaxOpenings, seen : 0 .. MaxWorld, work : BOOLEAN]

\* Type invariant.
DesktopTypeOK ==
  /\ requests \in Seq(Request) /\ responses \in Seq(Response)
  /\ worker \in {"opens", "runs", "failed", "ended"}
  /\ world \in 0 .. MaxWorld /\ active \in BOOLEAN /\ started \in BOOLEAN
  /\ {busy, polling, loaded} \subseteq SUBSET Pages
  /\ page \in Pages /\ visible \in BOOLEAN /\ open \in BOOLEAN
  /\ generation \in 0 .. MaxOpenings /\ awaiting \in BOOLEAN
  /\ latest \in 0 .. NoRows /\ shown \in 0 .. NoRows /\ since \in 0 .. MaxWorld
  /\ exit \in {"no", "asked", "stops", "done"} /\ consent \in BOOLEAN

\* bind: every page is busy until the worker has opened the core.
Init ==
  /\ requests = <<>> /\ responses = <<>> /\ worker = "opens"
  /\ world = 0 /\ active = FALSE /\ started = FALSE
  /\ busy = Pages /\ polling = {} /\ loaded = {} /\ page = Live /\ visible = TRUE
  /\ open = FALSE /\ generation = 0 /\ awaiting = FALSE /\ latest = NoRows /\ shown = NoRows
  /\ since = 0 /\ exit = "no" /\ consent = FALSE

Req(p, kind, gen) == [page |-> p, kind |-> kind, gen |-> gen]
Res(p, kind, gen) ==
  [page |-> p, kind |-> kind, gen |-> gen, seen |-> world', work |-> active']

----------------------------------------------------------------------------
(* The worker.                                                             *)

Listens == worker \in {"opens", "runs"}

\* An answer of each page.
Answers(S) == LET order == SetToSeq(S) IN [i \in DOMAIN order |-> Res(order[i], "answer", 0)]

\* The core is open: the first answers come unasked.
Open ==
  /\ worker = "opens" /\ worker' = "runs" /\ UNCHANGED <<world, active, started>>
  /\ responses' = responses \o <<Res(Settings, "snapshot", 0)>> \o Answers(Pages \ {Settings})
  /\ UNCHANGED <<requests, flags, loaded, user, live, ending>>

\* It cannot be opened: the thread ends, and what was sent to it is dropped.
OpenFails ==
  /\ worker = "opens" /\ worker' = "failed" /\ UNCHANGED <<world, active, started>>
  /\ responses' = Append(responses, Res(Settings, "bare", 0)) /\ requests' = <<>>
  /\ UNCHANGED <<flags, loaded, user, live, ending>>

Stopped == exit \in {"stops", "done"}

Stopping == Stopped

Take == worker = "runs" /\ requests # <<>> /\ ~Stopping /\ requests' = Tail(requests)

\* Mutant: a command that fails is not answered.
SilentFailure(request) ==
  /\ request.kind = "command" /\ UNCHANGED <<world, active, started, responses>>

\* A command changes the runtime, or fails.
Command(request) ==
  /\ request.kind = "command"
  /\ \/ /\ world' = (IF world < MaxWorld THEN world + 1 ELSE world)
        /\ active' \in BOOLEAN
        /\ started' = (started \/ (active' /\ ~active))
        /\ responses' = Append(responses, Res(request.page, "answer", 0))
     \/ /\ UNCHANGED <<world, active, started>>
        /\ responses' = Append(responses, 
             Res(request.page, IF request.page = Settings THEN "error" ELSE "failed", 0))

\* A poll, Refresh and the exit check only read.
Look(request) ==
  /\ request.kind \in {"poll", "refresh", "check"} /\ UNCHANGED <<world, active>>
  /\ started' = (started /\ request.kind # "check")
  /\ responses' = Append(responses,
       Res(request.page, IF request.kind = "refresh" THEN "bare" ELSE request.kind, request.gen))

\* A restored database is sent to every page that shows it.
Restore(request) ==
  /\ request.kind = "restore" /\ UNCHANGED <<world, active, started>>
  /\ responses' = responses \o <<Res(Settings, "snapshot", 0)>> \o Answers(Plain)

Execute ==
  /\ Take
  /\ LET request == Head(requests) IN Command(request) \/ Look(request) \/ Restore(request)
  /\ UNCHANGED <<worker, flags, loaded, user, live, ending>>

\* Request::Shutdown, or any request when the exit is confirmed: core.shutdown.
End ==
  /\ worker = "runs" /\ requests # <<>> /\ (Head(requests).kind = "shutdown" \/ Stopping)
  /\ worker' = "ended" /\ active' = FALSE /\ UNCHANGED <<world, started>>
  /\ requests' = <<>> /\ responses' = Append(responses, Res(Settings, "complete", 0))
  /\ UNCHANGED <<flags, loaded, user, live, ending>>

\* The runtime changes by itself: a broadcast begins or ends, a job ends.
Changes ==
  /\ worker = "runs" /\ world < MaxWorld /\ world' = world + 1
  /\ active' \in (IF active THEN BOOLEAN ELSE {FALSE})
  /\ UNCHANGED <<queues, worker, started, flags, loaded, user, live, ending>>

----------------------------------------------------------------------------
(* The user.                                                               *)

Room == Len(requests) + Len(responses) < MaxPending

Send(request) == Listens /\ requests' = Append(requests, request)

\* Commands ask whether an exit is pending.
MaySend == exit = "no"

\* send_settings and its kind: dropped while an exit is pending or the page is busy.
Click(p, kind) ==
  /\ Room /\ MaySend /\ p \notin busy
  /\ kind = "refresh" => p = Settings
  /\ kind = "restore" => p = Maintenance
  /\ Send(Req(p, kind, 0)) /\ busy' = busy \cup {p}
  /\ UNCHANGED <<responses, core, polling, loaded, user, live, ending>>

\* The page and the tray.
GoTo(p, v) ==
  /\ <<p, v>> # user /\ exit # "done" /\ (p = Live /\ v => generation < MaxOpenings)
  /\ page' = p /\ visible' = v
  /\ UNCHANGED <<queues, core, flags, loaded, live, ending>>

\* on_desktop_exit.
AskExit ==
  /\ exit = "no"
  /\ IF Listens THEN exit' = "asked" /\ requests' = Append(requests, Req(Settings, "check", 0))
                ELSE exit' = "done" /\ UNCHANGED requests
  /\ UNCHANGED <<responses, core, flags, loaded, user, live, consent>>

\* The window is closed: the controller is dropped, which stops and joins the worker.
Quit ==
  /\ exit # "done" /\ exit' = "done"
  /\ requests' = IF Listens THEN Append(requests, Req(Settings, "shutdown", 0)) ELSE requests
  /\ UNCHANGED <<responses, core, flags, loaded, user, live, consent>>

----------------------------------------------------------------------------
(* The timers.                                                             *)

OnLive == visible /\ page = Live

\* LiveModel::set_visible, at the start of a tick of the response timer.
SeeVisible ==
  /\ open # OnLive /\ exit # "done" /\ open' = OnLive /\ shown' = NoRows
  /\ IF OnLive THEN /\ generation' = generation + 1
                    /\ awaiting' = TRUE /\ loaded' = loaded \ {Live} /\ since' = world
               ELSE UNCHANGED <<generation, awaiting, loaded, since>>
  /\ UNCHANGED <<queues, core, flags, user, latest, ending>>

\* A poll waits for the one before it.
Idle(p) == p \notin busy /\ p \notin polling

\* The poll timers, and the fresh snapshot the response timer asks for.
Poll(p) ==
  /\ Room /\ exit # "done" /\ Idle(p) /\ p # Settings
  /\ IF p = Live THEN OnLive ELSE page = p
  /\ Send(Req(p, "poll", generation)) /\ polling' = polling \cup {p}
  /\ UNCHANGED <<responses, core, busy, loaded, user, live, ending>>

\* A response is taken when the tick has seen the page.
Receives(kinds) ==
  /\ responses # <<>> /\ Head(responses).kind \in kinds /\ open = OnLive /\ exit # "done"
  /\ responses' = Tail(responses) /\ UNCHANGED <<requests, core, user>>

\* Mutant: the answer of any request is taken for the one of this opening.
AnyOpening(answer) == TRUE
Fresh(answer) == answer.gen = generation

\* An answer of a page clears its flag; what it shows waits for a fresh one.
TakeAnswer ==
  /\ Receives({"answer", "poll", "failed"})
  /\ LET answer == Head(responses) IN
       /\ IF answer.kind = "poll" THEN polling' = polling \ {answer.page} /\ UNCHANGED busy
                                  ELSE busy' = busy \ {answer.page} /\ UNCHANGED polling
       /\ loaded' = IF answer.page = Live \/ answer.kind = "failed" THEN loaded
                    ELSE loaded \cup {answer.page}
       /\ IF answer.page = Live /\ answer.kind # "failed"
            THEN /\ latest' = answer.seen
                 /\ awaiting' = (awaiting /\ ~(answer.kind = "poll" /\ Fresh(answer)))
            ELSE UNCHANGED <<latest, awaiting>>
  /\ UNCHANGED <<open, generation, shown, since, ending>>

\* render_live.
Show ==
  /\ open /\ OnLive /\ ~awaiting /\ latest # NoRows /\ shown # latest
  /\ shown' = latest /\ loaded' = loaded \cup {Live}
  /\ UNCHANGED <<queues, core, flags, user, open, generation, awaiting, latest, since, ending>>

\* A snapshot without fields is the answer to Refresh, or tells that the core could not be
\* opened; the two are told apart by whether the LIVE page is loaded.
TakeSnapshot ==
  /\ Receives({"snapshot", "bare"})
  /\ busy' = IF Head(responses).kind = "bare" /\ Live \notin loaded THEN busy \cap Forgotten
             ELSE busy \ {Settings}
  /\ loaded' = (IF Head(responses).kind = "bare" THEN loaded ELSE loaded \cup {Settings})
  /\ UNCHANGED <<polling, live, ending>>

\* Response::Error clears the flag of every page that is not loaded.
TakeError ==
  /\ Receives({"error"}) /\ busy' = busy \cap (loaded \ {Settings})
  /\ UNCHANGED <<polling, loaded, live, ending>>

\* Response::ExitCheck: the user is asked if there is work; only then may work be stopped.
TakeCheck ==
  /\ Receives({"check"})
  /\ \/ ~Head(responses).work /\ exit' = "stops" /\ UNCHANGED consent
     \/ Head(responses).work /\ exit' = "stops" /\ consent' = TRUE
     \/ Head(responses).work /\ exit' = "no" /\ UNCHANGED consent
  /\ UNCHANGED <<flags, loaded, live>>

\* The Shutdown that is sent with the confirmation.
SendShutdown ==
  /\ exit = "stops" /\ worker = "runs" /\ \A i \in DOMAIN requests : requests[i].kind # "shutdown"
  /\ requests' = Append(requests, Req(Settings, "shutdown", 0))
  /\ UNCHANGED <<responses, core, flags, loaded, user, live, ending>>

TakeComplete ==
  /\ Receives({"complete"}) /\ exit' = "done" /\ UNCHANGED <<flags, loaded, live, consent>>

Next ==
  \/ Open \/ OpenFails \/ Execute \/ End \/ Changes
  \/ \E p \in Pages, kind \in {"command", "refresh", "restore"} : Click(p, kind)
  \/ \E p \in Pages, v \in BOOLEAN : GoTo(p, v)
  \/ AskExit \/ Quit \/ SeeVisible \/ (\E p \in Pages : Poll(p))
  \/ TakeAnswer \/ Show \/ TakeSnapshot \/ TakeError \/ TakeCheck \/ SendShutdown \/ TakeComplete

Spec == Init /\ [][Next]_vars

----------------------------------------------------------------------------
(* Properties.                                                             *)

Kinds(p, queue, kinds) ==
  Cardinality({i \in DOMAIN queue : queue[i].page = p /\ queue[i].kind \in kinds})

\* What will clear the busy flag of a page.
Due(p) ==
  Kinds(p, requests, {"command", "refresh", "restore"})
    + Kinds(p, responses, {"answer", "failed", "snapshot", "bare", "error"})

\* A page is busy only while an answer to it is on its way: no request is lost, and no answer
\* that another answer has overtaken leaves a page locked (controller.rs).  What a failed start
\* leaves busy is named by Forgotten.
BusyIsAnswered ==
  \A p \in busy : \/ worker \in {"opens", "ended"} \/ Due(p) > 0
                  \/ worker = "failed" /\ (p \in Forgotten \/ responses # <<>>)

\* One poll of a page is in flight at most, and the page knows of it.
PollsDoNotOverlap ==
  \A p \in Pages : Kinds(p, requests, {"poll"}) + Kinds(p, responses, {"poll"})
                    <= IF p \in polling THEN 1 ELSE 0

\* The busy flags and the polls agree with the channels.
FlagsFollowTheChannels == DesktopTypeOK /\ BusyIsAnswered /\ PollsDoNotOverlap

\* The LIVE page never shows what was read before it was opened, whatever was in flight when
\* the window was hidden or another page was open (live_model.rs).
ShownIsFresh == shown # NoRows => shown >= since

\* An exit the user was not asked about ends no work that was begun in this window: after the
\* check that found none, no request starts any.
ExitEndsNoNewWork == exit = "stops" /\ ~consent => ~started

\* What the user sees is not older than the page, and what ends with the window was asked about.
UserIsNotMisled == ShownIsFresh /\ ExitEndsNoNewWork

\* docs/PHASE21_LIVE_CONTROLS.md:17: the poll of the LIVE page "does not run while an explicit
\* LIVE command is busy".
PollWaitsForCommand ==
  [][(Live \in polling' \ polling) =>
       Kinds(Live, requests, {"command"}) + Kinds(Live, responses, {"answer", "failed"}) = 0]_vars
=============================================================================
