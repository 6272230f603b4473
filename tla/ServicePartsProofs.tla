------------------------- MODULE ServicePartsProofs -------------------------
(***************************************************************************)
(* What holds of the services of the runtime (MediaProcess, RuntimeTasks,   *)
(* ControlSocket, BackupRestore, DownloadEvents, LiveSessions) and of what  *)
(* the desktop shows of them (LiveThumbnails, DesktopVod), for all values   *)
(* of their constants, stated of the composition RuntimeParts.              *)
(***************************************************************************)
EXTENDS RuntimeParts, TLAPS, WellFoundedInduction, FiniteSetTheorems

----------------------------------------------------------------------------
\* A run of a tool, for every number of helpers and daemons, every limit and output.

\* Once the group was found empty, or killed, it starts nothing more: what is left of it has
\* been killed, and a killed process does not fork.
GroupIsKilled == step \in {"settles", "drains", "done", "dropped"} => Media!Group \subseteq killed

\* Before the tool is started, nothing runs and nothing has been written.
NothingBefore == step = "start" => alive = {} /\ written = 0

\* A capture that was complete stays complete, since no process is left that could write.
CaptureIsFinal == step = "done" /\ ~cut => alive = {} /\ read = written /\ read <= Limit

MediaInv == Media!MediaTypeOK /\ GroupIsKilled /\ NothingBefore /\ CaptureIsFinal

LEMMA MediaInit ==
  ASSUME Limit \in Nat, MaxOutput \in Nat
  PROVE  Media!Init => MediaInv
<1> SUFFICES ASSUME Media!Init PROVE MediaInv
  OBVIOUS
<1>1. Media!MediaTypeOK
  <2>1. failed \in BOOLEAN /\ asked \in BOOLEAN /\ cut \in BOOLEAN
    BY Zenon DEF Media!Init
  <2>2. written \in 0 .. MaxOutput /\ read \in 0 .. written
    BY DEF Media!Init
  <2> QED BY <2>1, <2>2 DEF Media!Init, Media!MediaTypeOK
<1>2. GroupIsKilled /\ NothingBefore /\ CaptureIsFinal
  BY DEF Media!Init, GroupIsKilled, NothingBefore, CaptureIsFinal
<1> QED BY <1>1, <1>2 DEF MediaInv

\* Steps of the processes, at any time during and after the run.
LEMMA ProcessSteps ==
  ASSUME Limit \in Nat, MaxOutput \in Nat, MediaInv,
         Media!Fork \/ Media!Write \/ (\E p \in Media!Members \cup Daemons : Media!Die(p))
           \/ Media!Capture \/ Media!Cancel
  PROVE  MediaInv'
<1> USE DEF MediaInv, Media!MediaTypeOK, GroupIsKilled, NothingBefore, CaptureIsFinal, Media!Group,
            Media!tools, Media!pipe
<1>1. CASE Media!Fork
  BY <1>1 DEF Media!Fork, Media!Members
<1>2. CASE Media!Write
  BY <1>2 DEF Media!Write
<1>3. CASE \E p \in Media!Members \cup Daemons : Media!Die(p)
  BY <1>3 DEF Media!Die
<1>4. CASE Media!Capture
  BY <1>4 DEF Media!Capture
<1>5. CASE Media!Cancel
  BY <1>5 DEF Media!Cancel
<1> QED BY <1>1, <1>2, <1>3, <1>4, <1>5

\* Steps of the run itself.
LEMMA RunSteps ==
  ASSUME Limit \in Nat, MaxOutput \in Nat, MediaInv, Media!Spawn \/ Media!Run \/ Media!Drop
  PROVE  MediaInv'
<1> USE DEF MediaInv, Media!MediaTypeOK, GroupIsKilled, NothingBefore, CaptureIsFinal, Media!Group,
            Media!At, Media!tools, Media!pipe
<1>1. CASE Media!Spawn
  BY <1>1 DEF Media!Spawn, Media!Members
<1>2. CASE Media!PollExit \/ Media!PollCancelled \/ Media!PollTimeout \/ Media!Term
  BY <1>2 DEF Media!PollExit, Media!PollCancelled, Media!PollTimeout, Media!Term, Media!Cleanup
<1>3. CASE Media!GroupIsGone
  BY <1>3 DEF Media!GroupIsGone
<1>4. CASE Media!Kill
  BY <1>4 DEF Media!Kill, Media!Victims
<1>5. CASE Media!SettleTimeout
  BY <1>5 DEF Media!SettleTimeout
<1>6. CASE Media!Drained
  <2>1. cut' = (read > Limit \/ FALSE)
    BY <1>6 DEF Media!Drained, Media!Truncated
  <2>2. cut' \in BOOLEAN /\ (~cut' => ~(read > Limit))
    BY <2>1, Zenon
  <2>3. ~(read > Limit) => read <= Limit
    OBVIOUS
  <2> QED BY <1>6, <2>2, <2>3 DEF Media!Drained
<1>7. CASE Media!DrainTimeout
  BY <1>7 DEF Media!DrainTimeout, Media!Truncated
<1>8. CASE Media!Drop
  BY <1>8 DEF Media!Drop, Media!DropKills
<1> HIDE DEF MediaInv
<1> QED BY <1>1, <1>2, <1>3, <1>4, <1>5, <1>6, <1>7, <1>8 DEF Media!Run

\* MediaInv is inductive.
LEMMA MediaStep ==
  ASSUME Limit \in Nat, MaxOutput \in Nat
  PROVE  MediaInv /\ [Media!Next]_(Media!vars) => MediaInv'
<1> SUFFICES ASSUME MediaInv, [Media!Next]_(Media!vars) PROVE MediaInv'
  OBVIOUS
<1>1. CASE Media!Next
  BY <1>1, ProcessSteps, RunSteps DEF Media!Next, Media!Run
<1>2. CASE UNCHANGED Media!vars
  BY <1>2 DEF Media!vars, Media!tools, Media!pipe, MediaInv, Media!MediaTypeOK, GroupIsKilled,
              NothingBefore, CaptureIsFinal, Media!Group
<1> QED BY <1>1, <1>2

\* A behaviour of the composition is one of a run of a tool.
LEMMA MediaPart == Spec => Media!Spec
<1>1. Init => Media!Init
  BY DEF Init
<1>2. [Next]_vars => [Media!Next]_(Media!vars)
  <2>1. Next => Media!Next \/ UNCHANGED media
    BY DEF Next, Only
  <2>2. UNCHANGED vars => UNCHANGED media
    BY DEF vars
  <2>3. UNCHANGED media => UNCHANGED Media!vars
    BY DEF media, Media!vars, Media!tools, Media!pipe
  <2> QED BY <2>1, <2>2, <2>3
<1> QED BY <1>1, <1>2, PTL DEF Spec, Media!Spec

\* However a run ends (result, cancellation, deadline, or a dropped future), no process of its
\* group survives it, and a captured output that does not say so is not cut: run_media_process
\* with OwnedProcessGroup's terminate and drop (media_process.rs, platform_runtime_unix.rs).
THEOREM RunsAreClean == Spec => []RunIsClean
<1>1. Limit \in Nat /\ MaxOutput \in Nat
  BY PartsAssumption
<1>2. MediaInv => RunIsClean
  BY DEF MediaInv, RunIsClean, Media!RunIsClean, GroupIsKilled, Media!NothingSurvives,
         CaptureIsFinal, Media!OutputIsWhole
<1> QED BY <1>1, <1>2, MediaPart, MediaInit, MediaStep, PTL DEF Media!Spec

----------------------------------------------------------------------------
\* The core's tasks and shutdown, for any callers, of whom any may give up, and any jobs.

\* No handle is lost: every task that has not ended is in one of the two lists.
HandlesAreKept == working \subseteq tasks \cup draining

\* A caller gets as far as joining only when no further task can be started, and the tasks
\* started before are in the list it joins.
JoiningIsFinal ==
  /\ Tasks!Asked => stopping
  /\ \A c \in Callers : caller[c] \in {"joins", "joined", "done"} => tasks = {}

\* The history task ends between two copies: a read status is written, or the task lives.
ReadIsWritten == seen # Tasks!Asleep => History \in working

\* After the queue has been told to stop it is off or has one late claim; when it is off no job
\* runs.  The command in hand was answered before.
WorkIsStopped ==
  /\ \A c \in Callers : caller[c] \in {"waits", "joins", "joined", "done"} => queue # "on"
  /\ queue = "off" => Tasks!Asked /\ ~runs
  /\ Tasks!Asked => answer = 0

TasksInv ==
  /\ Tasks!TasksTypeOK /\ HandlesAreKept /\ JoiningIsFinal /\ ReadIsWritten /\ WorkIsStopped
  /\ Tasks!NothingOutlivesShutdown /\ Tasks!LastResultIsKept

LEMMA TasksInit ==
  ASSUME MaxJobs \in Nat
  PROVE  Tasks!Init => TasksInv
<1> SUFFICES ASSUME Tasks!Init PROVE TasksInv
  OBVIOUS
<1>1. Tasks!TasksTypeOK
  <2>1. stopping \in BOOLEAN /\ runs \in BOOLEAN
    BY Zenon DEF Tasks!Init
  <2>2. rows \in [Tasks!Jobs -> {"none", "running", "ended"}]
    BY DEF Tasks!Init
  <2>3. caller \in [Callers -> {"out", "asked", "waits", "joins", "joined", "done", "gone"}]
    BY DEF Tasks!Init
  <2> QED BY <2>1, <2>2, <2>3 DEF Tasks!Init, Tasks!TasksTypeOK
<1>2. HandlesAreKept /\ JoiningIsFinal /\ ReadIsWritten /\ WorkIsStopped
  BY DEF Tasks!Init, HandlesAreKept, JoiningIsFinal, ReadIsWritten, WorkIsStopped, Tasks!Asked
<1>3. Tasks!NothingOutlivesShutdown /\ Tasks!LastResultIsKept
  BY DEF Tasks!Init, Tasks!NothingOutlivesShutdown, Tasks!LastResultIsKept
<1> QED BY <1>1, <1>2, <1>3 DEF TasksInv

\* The life of a task, between its start and its end.
LEMMA TaskSteps ==
  ASSUME MaxJobs \in Nat, TasksInv,
    (\E k \in Tasks!Kinds : Tasks!StartTask(k) \/ Tasks!EndTask(k)) \/ Tasks!Read \/ Tasks!Sync
  PROVE  TasksInv'
<1> USE DEF TasksInv, Tasks!TasksTypeOK, HandlesAreKept, JoiningIsFinal, ReadIsWritten,
            WorkIsStopped,
            Tasks!NothingOutlivesShutdown, Tasks!LastResultIsKept, Tasks!Asked, Tasks!Jobs, Tasks!handles,
            Tasks!history
<1>1. ASSUME NEW k \in Tasks!Kinds, Tasks!StartTask(k) PROVE TasksInv'
  BY <1>1 DEF Tasks!StartTask, Tasks!Accepting
<1>2. ASSUME NEW k \in Tasks!Kinds, Tasks!EndTask(k) PROVE TasksInv'
  BY <1>2 DEF Tasks!EndTask
<1>3. CASE Tasks!Read
  BY <1>3 DEF Tasks!Read, Tasks!Status
<1>4. CASE Tasks!Sync
  BY <1>4 DEF Tasks!Sync, Tasks!Store, Tasks!Asleep
<1> QED BY <1>1, <1>2, <1>3, <1>4

LEMMA TaskJobSteps ==
  ASSUME MaxJobs \in Nat, TasksInv,
    Tasks!Command \/ Tasks!CommandWrites \/ Tasks!QueueStarts \/ Tasks!JobEnds
  PROVE  TasksInv'
<1> USE DEF TasksInv, Tasks!TasksTypeOK, HandlesAreKept, JoiningIsFinal, ReadIsWritten,
            WorkIsStopped,
            Tasks!NothingOutlivesShutdown, Tasks!LastResultIsKept, Tasks!Asked, Tasks!Jobs, Tasks!handles,
            Tasks!history, Tasks!NewJob
<1>1. CASE Tasks!Command
  BY <1>1 DEF Tasks!Command
<1>2. CASE Tasks!CommandWrites
  BY <1>2 DEF Tasks!CommandWrites, Tasks!Store
<1>3. CASE Tasks!QueueStarts
  BY <1>3 DEF Tasks!QueueStarts
<1>4. CASE Tasks!JobEnds
  BY <1>4 DEF Tasks!JobEnds
<1> QED BY <1>1, <1>2, <1>3, <1>4

LEMMA ShutdownSteps ==
  ASSUME MaxJobs \in Nat, TasksInv, NEW c \in Callers,
         Tasks!Ask(c) \/ Tasks!StopWork(c) \/ Tasks!Take(c) \/ Tasks!Join(c) \/ Tasks!Joined(c)
           \/ Tasks!Abandon(c) \/ Tasks!Finish(c)
  PROVE  TasksInv'
<1> USE DEF TasksInv, Tasks!TasksTypeOK, HandlesAreKept, JoiningIsFinal, ReadIsWritten,
            WorkIsStopped,
            Tasks!NothingOutlivesShutdown, Tasks!LastResultIsKept, Tasks!Asked, Tasks!Jobs, Tasks!handles,
            Tasks!history, Tasks!At
<1>1. CASE Tasks!Ask(c)
  BY <1>1 DEF Tasks!Ask
<1>2. CASE Tasks!StopWork(c)
  BY <1>2 DEF Tasks!StopWork
<1>3. CASE Tasks!Take(c)
  BY <1>3 DEF Tasks!Take
<1>4. CASE Tasks!Join(c)
  BY <1>4 DEF Tasks!Join
<1>5. CASE Tasks!Joined(c)
  BY <1>5 DEF Tasks!Joined
<1>6. CASE Tasks!Abandon(c)
  BY <1>6 DEF Tasks!Abandon, Tasks!Taken
<1>7. CASE Tasks!Finish(c)
  BY <1>7 DEF Tasks!Finish, Tasks!WrittenFrom, Tasks!Store, Tasks!Status
<1> QED BY <1>1, <1>2, <1>3, <1>4, <1>5, <1>6, <1>7

\* TasksInv is inductive.
LEMMA TasksStep ==
  ASSUME MaxJobs \in Nat
  PROVE  TasksInv /\ [Tasks!Next]_(Tasks!vars) => TasksInv'
<1> SUFFICES ASSUME TasksInv, [Tasks!Next]_(Tasks!vars) PROVE TasksInv'
  OBVIOUS
<1>1. CASE Tasks!Next
  BY <1>1, TaskSteps, TaskJobSteps, ShutdownSteps DEF Tasks!Next
<1>2. CASE UNCHANGED Tasks!vars
  BY <1>2 DEF Tasks!vars, Tasks!handles, Tasks!history, TasksInv, Tasks!TasksTypeOK, HandlesAreKept,
              JoiningIsFinal,
              ReadIsWritten, WorkIsStopped, Tasks!NothingOutlivesShutdown, Tasks!LastResultIsKept,
              Tasks!Asked
<1> QED BY <1>1, <1>2

\* A behaviour of the composition is one of the core's tasks.
LEMMA TasksPart == Spec => Tasks!Spec
<1>1. Init => Tasks!Init
  BY DEF Init
<1>2. [Next]_vars => [Tasks!Next]_(Tasks!vars)
  <2>1. Next => Tasks!Next \/ UNCHANGED shared
    BY DEF Next, Only
  <2>2. UNCHANGED vars => UNCHANGED shared
    BY DEF vars
  <2>3. UNCHANGED shared => UNCHANGED Tasks!vars
    BY DEF shared, Tasks!vars, Tasks!handles, Tasks!history
  <2> QED BY <2>1, <2>2, <2>3
<1> QED BY <1>1, <1>2, PTL DEF Spec, Tasks!Spec

\* A shutdown that returned has left no task behind, whatever other callers did before it, and
\* the last job's row tells its result (BackgroundTasks::shutdown, shutdown() of app_core.rs).
THEOREM ShutdownsAreSound == Spec => []ShutdownIsSound
<1>1. MaxJobs \in Nat
  BY PartsAssumption
<1>2. TasksInv => ShutdownIsSound
  BY DEF TasksInv, ShutdownIsSound, Tasks!ShutdownIsSound
<1> QED BY <1>1, <1>2, TasksPart, TasksInit, TasksStep, PTL DEF Tasks!Spec

----------------------------------------------------------------------------
\* The owner lock, the control socket and its commands, for any owners, clients and silent peers.

\* Owners and peers are processes of different kinds, and none of them is Nobody.
ControlNames ==
  /\ MaxStarts \in Nat
  /\ Control!Nobody \notin Control!Owners \cup Control!Peers /\ Control!Owners \cap Clients = {}

\* The lock is held by whoever is past its acquisition, owner or probing client.
LockIsHeld ==
  /\ \A o \in Control!Owners : phase[o] # "off" => lock = o
  /\ \A c \in Clients : client[c] = "probes" => lock = c

\* A server runs between its start and its owner's end; it has a connection unless it is idle,
\* and what it executes is a client's command.
ServerIsStarted ==
  \A o \in Control!Owners :
    /\ phase[o] \in {"off", "holds", "ends"} => server[o] = "none"
    /\ server[o] \in {"none", "idle"} => conn[o] = Control!Nobody
    /\ server[o] \in {"reads", "runs", "writes"} => conn[o] \in Control!Peers /\ at[conn[o]] = o
    /\ server[o] \in {"runs", "writes"} => conn[o] \in Clients

\* The socket file leads to the server that is not told to stop.
SocketIsCurrent == \A o \in Control!Owners : server[o] # "none" /\ o \notin stop => socket = o

\* A peer is connected at most once, between its request and the end of its connection.
ConnectedOnce ==
  \A c \in Control!Peers : /\ at[c] # Control!Nobody => client[c] \in {"queued", "gone"}
                           /\ client[c] \in {"local", "refused"} => at[c] = Control!Nobody

\* A command has run, once, when its server writes the answer, and not before.
RunOnce ==
  /\ \A c \in Clients : client[c] \in {"out", "probes", "asks", "local", "refused"} => ran[c] = 0
  /\ \A c \in Clients, o \in Control!Owners :
       at[c] = o => IF conn[o] = c /\ server[o] = "writes" THEN ran[c] = 1 ELSE ran[c] = 0
  /\ \A c \in Clients : ran[c] \in {0, 1} /\ (client[c] = "answered" => ran[c] = 1)

ControlInv ==
  Control!ControlTypeOK /\ LockIsHeld /\ ServerIsStarted /\ SocketIsCurrent /\ ConnectedOnce /\ RunOnce

LEMMA ControlInit ==
  ASSUME ControlNames
  PROVE  Control!Init => ControlInv
<1> SUFFICES ASSUME Control!Init PROVE ControlInv
  OBVIOUS
<1> USE DEF Control!Init, ControlNames
<1>1. Control!ControlTypeOK
  BY DEF Control!ControlTypeOK, Control!Over
<1>2. LockIsHeld /\ ServerIsStarted /\ SocketIsCurrent
  BY DEF LockIsHeld, ServerIsStarted, SocketIsCurrent, Control!Peers
<1>3. ConnectedOnce /\ RunOnce
  BY DEF ConnectedOnce, RunOnce, Control!Peers
<1> QED BY <1>1, <1>2, <1>3 DEF ControlInv

\* The end of a connection loop, and of the process, whoever waits there.
LEMMA CutSteps ==
  ASSUME ControlNames, ControlInv, NEW o \in Control!Owners,
    Control!Exit(o) \/ Control!Crash(o) \/ Control!Break(o)
  PROVE  ControlInv'
<1> USE DEF ControlNames, ControlInv, Control!Exit, Control!Crash, Control!Break, Control!Leaves,
            Control!Cut, Control!owners, Control!Breakable
<1>1. Control!ControlTypeOK'
  BY DEF Control!ControlTypeOK, Control!Over
<1>2. LockIsHeld'
  BY DEF Control!ControlTypeOK, LockIsHeld, Control!Peers
<1>3. ServerIsStarted'
  BY DEF Control!ControlTypeOK, ServerIsStarted
<1>4. SocketIsCurrent'
  BY DEF Control!ControlTypeOK, SocketIsCurrent, LockIsHeld, ServerIsStarted
<1>5. ConnectedOnce'
  BY DEF Control!ControlTypeOK, ConnectedOnce
<1>6. RunOnce'
  BY DEF Control!ControlTypeOK, ConnectedOnce, RunOnce, Control!Peers
<1> QED BY <1>1, <1>2, <1>3, <1>4, <1>5, <1>6

\* The owner's own steps.
LEMMA OwnerSteps ==
  ASSUME ControlNames, ControlInv, NEW o \in Control!Owners, Control!OwnerNext(o)
  PROVE  ControlInv'
<1> USE DEF ControlNames, ControlInv, Control!Goes, Control!owners, Control!servers,
            Control!clients, Control!ControlTypeOK
<1>1. CASE Control!Acquire(o)
  BY <1>1 DEF Control!Acquire, Control!Free, Control!Peers, LockIsHeld, ServerIsStarted,
              SocketIsCurrent, ConnectedOnce, RunOnce
<1>2. CASE Control!StartServer(o)
  BY <1>2 DEF Control!StartServer, LockIsHeld, ServerIsStarted, SocketIsCurrent, ConnectedOnce,
              RunOnce
<1>3. CASE Control!Signal(o)
  BY <1>3 DEF Control!Signal, LockIsHeld, ServerIsStarted, SocketIsCurrent, ConnectedOnce, RunOnce
<1>4. CASE Control!Stopped(o)
  BY <1>4 DEF Control!Stopped, Control!Joined, LockIsHeld, ServerIsStarted, SocketIsCurrent,
              ConnectedOnce, RunOnce
<1>5. CASE Control!Interrupt(o)
  BY <1>5 DEF Control!Interrupt, LockIsHeld, ServerIsStarted, SocketIsCurrent, ConnectedOnce,
              RunOnce
<1>6. CASE Control!DropServer(o)
  BY <1>6 DEF Control!DropServer, LockIsHeld, ServerIsStarted, SocketIsCurrent, ConnectedOnce,
              RunOnce
<1> HIDE DEF ControlInv
<1> QED BY <1>1, <1>2, <1>3, <1>4, <1>5, <1>6, CutSteps DEF Control!OwnerNext

\* The server hangs up: with an answer only when the command has run.
LEMMA HangupSteps ==
  ASSUME ControlNames, ControlInv, NEW o \in Control!Owners,
    Control!ReadTimeout(o) \/ Control!Respond(o) \/ Control!WriteTimeout(o)
  PROVE  ControlInv'
<1> USE DEF ControlNames, ControlInv, Control!ReadTimeout, Control!Respond, Control!WriteTimeout,
            Control!Hangup, Control!Turn, Control!owners
<1>1. Control!ControlTypeOK'
  BY DEF Control!ControlTypeOK, Control!Over, ServerIsStarted
<1>2. LockIsHeld'
  BY DEF Control!ControlTypeOK, LockIsHeld, Control!Peers
<1>3. ServerIsStarted'
  BY DEF Control!ControlTypeOK, ServerIsStarted
<1>4. SocketIsCurrent'
  BY DEF Control!ControlTypeOK, SocketIsCurrent
<1>5. ConnectedOnce'
  BY DEF Control!ControlTypeOK, ConnectedOnce, ServerIsStarted
<1>6. RunOnce'
  BY DEF Control!ControlTypeOK, ConnectedOnce, RunOnce, ServerIsStarted, Control!Peers
<1> QED BY <1>1, <1>2, <1>3, <1>4, <1>5, <1>6

LEMMA ServerSteps ==
  ASSUME ControlNames, ControlInv, NEW o \in Control!Owners, Control!ServerNext(o)
  PROVE  ControlInv'
<1> USE DEF ControlNames, ControlInv, Control!Turn, Control!owners, Control!servers,
            Control!clients, Control!ControlTypeOK
<1>1. ASSUME NEW c \in Control!Peers, Control!Accept(o, c) PROVE ControlInv'
  BY <1>1 DEF Control!Accept, LockIsHeld, ServerIsStarted, SocketIsCurrent, ConnectedOnce, RunOnce
<1>2. CASE Control!ReadRequest(o)
  BY <1>2 DEF Control!ReadRequest, Control!Awaited, LockIsHeld, ServerIsStarted, SocketIsCurrent,
              ConnectedOnce, RunOnce
<1>3. CASE Control!Run(o)
  BY <1>3 DEF Control!Run, LockIsHeld, ServerIsStarted, SocketIsCurrent, ConnectedOnce, RunOnce,
              Control!Peers
<1> HIDE DEF ControlInv
<1> QED BY <1>1, <1>2, <1>3, HangupSteps, CutSteps DEF Control!ServerNext

LEMMA ClientSteps ==
  ASSUME ControlNames, ControlInv, NEW c \in Control!Peers, Control!ClientNext(c)
  PROVE  ControlInv'
<1> USE DEF ControlNames, ControlInv, Control!Moves, Control!owners, Control!servers,
            Control!ControlTypeOK, Control!Over, Control!Peers
<1>1. CASE Control!Connect(c)
  BY <1>1 DEF Control!Connect, Control!Listening, LockIsHeld, ServerIsStarted, SocketIsCurrent,
              ConnectedOnce, RunOnce
<1>2. ASSUME c \in Clients, Control!Probe(c) PROVE ControlInv'
  BY <1>2 DEF Control!Probe, LockIsHeld, ServerIsStarted, SocketIsCurrent, ConnectedOnce, RunOnce
<1>3. ASSUME c \in Clients, Control!NoOwner(c) PROVE ControlInv'
  BY <1>3 DEF Control!NoOwner, LockIsHeld, ServerIsStarted, SocketIsCurrent, ConnectedOnce, RunOnce
<1>4. ASSUME c \in Clients, Control!GiveUp(c) PROVE ControlInv'
  BY <1>4 DEF Control!GiveUp, LockIsHeld, ServerIsStarted, SocketIsCurrent, ConnectedOnce, RunOnce
<1> HIDE DEF ControlInv
<1> QED BY <1>1, <1>2, <1>3, <1>4 DEF Control!ClientNext

\* ControlInv is inductive.
LEMMA ControlStep ==
  ASSUME ControlNames
  PROVE  ControlInv /\ [Control!Next]_(Control!vars) => ControlInv'
<1> SUFFICES ASSUME ControlInv, [Control!Next]_(Control!vars) PROVE ControlInv'
  OBVIOUS
<1>1. CASE Control!Next
  BY <1>1, OwnerSteps, ServerSteps, ClientSteps DEF Control!Next
<1>2. CASE UNCHANGED Control!vars
  BY <1>2 DEF Control!vars, Control!owners, Control!servers, Control!clients, ControlInv,
              Control!ControlTypeOK, LockIsHeld,
              ServerIsStarted, SocketIsCurrent, ConnectedOnce, RunOnce
<1> QED BY <1>1, <1>2

\* A behaviour of the composition is one of the owner, its socket and their clients.
LEMMA ControlPart == Spec => Control!Spec
<1>1. Init => Control!Init
  BY DEF Init
<1>2. [Next]_vars => [Control!Next]_(Control!vars)
  <2>1. Next => Control!Next \/ UNCHANGED control
    BY DEF Next, Only
  <2>2. UNCHANGED vars => UNCHANGED control
    BY DEF vars
  <2>3. UNCHANGED control => UNCHANGED Control!vars
    BY DEF control, Control!vars, Control!owners, Control!servers, Control!clients
  <2> QED BY <2>1, <2>2, <2>3
<1> QED BY <1>1, <1>2, PTL DEF Spec, Control!Spec

LEMMA ControlInvariant == Spec => []ControlInv
<1>1. ControlNames
  BY PartsAssumption, NamesAssumption DEF ControlNames
<1> QED BY <1>1, ControlPart, ControlInit, ControlStep, PTL DEF Control!Spec

\* A command that has begun is never dropped half way by an owner that lives on, whatever its
\* client does and whoever is told to stop (handle_connection, unix_control.rs).
LEMMA CommandsAreKept == Spec => Control!NoCommandIsDropped
<1> DEFINE Kept == \A o \in Control!Owners :
      server[o] = "runs" /\ server'[o] # "runs" /\ phase'[o] # "off" => server'[o] = "writes"
<1>1. ASSUME ControlInv, [Control!Next]_(Control!vars) PROVE Kept
  <2> USE <1>1 DEF ControlInv, Control!ControlTypeOK, ServerIsStarted
  <2>1. CASE \E o \in Control!Owners : Control!OwnerNext(o)
    BY <2>1 DEF Control!OwnerNext, Control!Acquire, Control!StartServer, Control!Signal,
                Control!Stopped, Control!Interrupt, Control!DropServer, Control!Exit, Control!Crash,
                Control!Leaves, Control!Cut, Control!Goes, Control!servers
  <2>2. CASE \E o \in Control!Owners : Control!ServerNext(o)
    BY <2>2 DEF Control!ServerNext, Control!Accept, Control!ReadRequest, Control!ReadTimeout,
                Control!Run, Control!Respond, Control!WriteTimeout, Control!Break, Control!Cut,
                Control!Hangup, Control!Turn, Control!Breakable, Control!owners
  <2>3. CASE \E c \in Control!Peers : Control!ClientNext(c)
    BY <2>3 DEF Control!ClientNext, Control!Connect, Control!Probe, Control!NoOwner, Control!GiveUp,
                Control!servers
  <2>4. CASE UNCHANGED Control!vars
    BY <2>4 DEF Control!vars, Control!servers
  <2> QED BY <1>1, <2>1, <2>2, <2>3, <2>4 DEF Control!Next
<1>2. ControlInv /\ [Control!Next]_(Control!vars) => [Kept]_(Control!vars)
  BY <1>1
<1> HIDE DEF Kept
<1>3. Spec => [][Kept]_(Control!vars)
  BY <1>2, ControlPart, ControlInvariant, PTL DEF Control!Spec
<1> QED BY <1>3 DEF Control!NoCommandIsDropped, Kept

\* One owner at a time is reachable through the socket file; an owner that ends in order has
\* ended its server; no command runs twice or is dropped half way; who is told of success had it
\* run, and who is told that there is no owner did not (runtime_owner.rs, unix_control.rs).
THEOREM ControlsAreSound == Spec => ControlIsSound
<1>1. ControlInv => (part = "control" => Control!ControlIsSound)
  <2> SUFFICES ASSUME ControlInv PROVE Control!ControlIsSound
    OBVIOUS
  <2> USE DEF ControlInv
  <2>1. Control!ServingIsReachable
    BY DEF Control!ServingIsReachable, SocketIsCurrent, LockIsHeld, ServerIsStarted
  <2>2. Control!CommandsAreFinished
    BY DEF Control!CommandsAreFinished, ServerIsStarted, RunOnce
  <2>3. Control!AnswersAreTrue
    BY DEF Control!AnswersAreTrue, RunOnce
  <2> QED BY <2>1, <2>2, <2>3 DEF Control!ControlIsSound
<1> QED BY <1>1, ControlInvariant, CommandsAreKept, PTL DEF ControlIsSound

----------------------------------------------------------------------------
\* Copies and restores, for any number of versions and copies, and any BACKUP_KEEP_COUNT.

\* Two processes, neither of which is the mark of a free lock.
BackupNames == App # Cli /\ App # Copies!NoOne /\ Cli # Copies!NoOne
BackupBounds   == MaxData \in Nat \ {0} /\ MaxCopies \in Nat

CopyFiles == {Copies!NoFile} \cup [state : {"partial", "plain", "whole"}, db : Copies!Database]
CopyOps == [kind : {"none", "copy", "restore"}, file : 0 .. MaxCopies,
        pc : {"idle", "copy", "meta", "clean", "page", "finish", "retain"}, source : 0 .. MaxCopies]

\* The state's types, with the domain of the copies.
BackupTyped ==
  /\ db \in Copies!Database /\ newest \in Copies!Data /\ copies \in [Copies!Files -> CopyFiles]
  /\ holder \in Copies!Processes \cup {Copies!NoOne} /\ up \in BOOLEAN
  /\ busy \in BOOLEAN /\ active \in {"no", "claimed", "running", "settling"}
  /\ restore \in [Copies!Processes -> {"idle", "begun", "checked", "inside"}]
  /\ op \in [Copies!Processes -> CopyOps]
  /\ cache \in Copies!Data /\ stale \in BOOLEAN /\ foreign \in BOOLEAN

\* The owner lock is the owner's while it runs, and the command line's while it restores; the
\* owner restores while the queue worker does not have lifecycle_lock.
LocksAreHeld ==
  /\ up = TRUE <=> holder = App
  /\ restore[Cli] # "idle" => holder = Cli
  /\ restore[App] # "idle" => up = TRUE /\ active # "claimed"
  /\ up = FALSE => busy = FALSE /\ active = "no"

\* Past its first check a restore has no work beside it, and the worker's last job is over; past
\* the second it has no row either.  Until it replaces the database, that has no row that is
\* worked on, nor one that waits, unless another process added it.
ChecksHold ==
  \A p \in Copies!Processes :
    /\ op[p].kind = "restore" => restore[p] = "inside" /\ op[p].source \in Copies!Files
    /\ op[p].pc \in {"page", "finish", "retain"} => op[p].kind = "restore"
    /\ restore[p] \in {"checked", "inside"} => busy = FALSE /\ active \in {"no", "settling"}
    /\ op[p].kind = "restore" => active = "no"
    /\ op[p].kind = "restore" /\ op[p].pc \in {"copy", "meta", "page"} =>
         db.queue = "none" \/ (foreign = TRUE /\ db.queue = "queued")

\* A copy that waits for its metadata is one process's, and complete.
CopiesAreOwn ==
  \A p \in Copies!Processes : op[p].pc = "meta" =>
    /\ op[p].file \in Copies!Files /\ copies[op[p].file].state = "plain"
    /\ \A q \in Copies!Processes \ {p} : op[q].pc = "meta" => op[q].file # op[p].file

CacheHolds == up = TRUE /\ stale = FALSE => cache = db.data

BackupInv == BackupTyped /\ LocksAreHeld /\ ChecksHold /\ CopiesAreOwn /\ CacheHolds

\* Interrupting what a dead process left keeps the data and frees no queued row.
LEMMA RecoveredKeeps ==
  ASSUME NEW d \in Copies!Database
  PROVE  /\ Copies!Recovered(d) \in Copies!Database /\ Copies!Recovered(d).data = d.data
         /\ d.queue = "none" => Copies!Recovered(d).queue = "none"
  BY DEF Copies!Recovered, Copies!Database

\* The invariant holds when nothing runs yet.
LEMMA BackupInit ==
  ASSUME BackupNames, BackupBounds
  PROVE  Copies!Init => BackupInv
<1> SUFFICES ASSUME Copies!Init PROVE BackupInv
  OBVIOUS
<1> USE DEF Copies!Init, BackupBounds
<1>1. Copies!NoOp \in CopyOps
  BY DEF Copies!NoOp, CopyOps
<1>2. db \in Copies!Database /\ newest \in Copies!Data /\ cache \in Copies!Data
  BY DEF Copies!Database, Copies!Data
<1>3. copies \in [Copies!Files -> CopyFiles]
        /\ restore \in [Copies!Processes -> {"idle", "begun", "checked", "inside"}]
  BY DEF CopyFiles
<1>4. up \in BOOLEAN /\ busy \in BOOLEAN /\ stale \in BOOLEAN /\ foreign \in BOOLEAN
  BY Zenon
<1>5. BackupTyped
  BY <1>1, <1>2, <1>3, <1>4 DEF BackupTyped
<1>6. LocksAreHeld
  BY DEF BackupNames, LocksAreHeld, Copies!Processes
<1>7. ChecksHold
  BY DEF ChecksHold, Copies!NoOp
<1>8. CacheHolds
  BY DEF CacheHolds
<1>9. CopiesAreOwn
  BY DEF CopiesAreOwn, Copies!NoOp
<1> QED BY <1>5, <1>6, <1>7, <1>8, <1>9 DEF BackupInv

\* A process that comes up, goes down or saves a setting keeps the invariant.
LEMMA BackupProcessSteps ==
  ASSUME BackupNames, BackupBounds, BackupInv,
    Copies!AppUp \/ Copies!Write \/ (\E p \in Copies!Processes : Copies!Die(p))
  PROVE  BackupInv'
<1> USE DEF BackupNames, BackupBounds, BackupInv, Copies!procs, Copies!Processes
<1>1. CASE Copies!AppUp
  <2> USE <1>1, RecoveredKeeps DEF Copies!AppUp
  <2>1. BackupTyped' /\ CacheHolds'
    BY DEF BackupTyped, CacheHolds, Copies!Database
  <2>2. LocksAreHeld'
    BY DEF BackupTyped, LocksAreHeld
  <2>3. ChecksHold' /\ CopiesAreOwn'
    BY DEF BackupTyped, ChecksHold, LocksAreHeld, CopiesAreOwn
  <2> QED BY <2>1, <2>2, <2>3
<1>2. CASE Copies!Write
  <2> USE <1>2 DEF Copies!Write
  <2>1. newest' \in Copies!Data /\ db'.data = newest' /\ db'.queue = db.queue /\ db' \in Copies!Database
    BY DEF BackupTyped, Copies!Data, Copies!Database
  <2>2. BackupTyped' /\ CacheHolds'
    BY <2>1 DEF BackupTyped, CacheHolds
  <2>3. LocksAreHeld' /\ ChecksHold' /\ CopiesAreOwn'
    BY <2>1 DEF LocksAreHeld, ChecksHold, CopiesAreOwn
  <2> QED BY <2>2, <2>3
<1>3. ASSUME NEW p \in Copies!Processes, Copies!Die(p) PROVE BackupInv'
  <2> USE <1>3 DEF Copies!Die
  <2>1. Copies!NoOp \in CopyOps
    BY DEF Copies!NoOp, CopyOps
  <2>2. BackupTyped' /\ CacheHolds'
    BY <2>1 DEF BackupTyped, CacheHolds
  <2>3. LocksAreHeld'
    BY DEF BackupTyped, LocksAreHeld
  <2>4. ChecksHold' /\ CopiesAreOwn'
    BY DEF BackupTyped, LocksAreHeld, ChecksHold, CopiesAreOwn, Copies!NoOp
  <2> QED BY <2>2, <2>3, <2>4
<1> QED BY <1>1, <1>2, <1>3

\* Work that starts or ends, and the queue, keep the invariant.
LEMMA WorkSteps ==
  ASSUME BackupNames, BackupBounds, BackupInv,
         Copies!StartWork \/ Copies!EndWork \/ Copies!Enqueue \/ Copies!CancelItem \/ Copies!Claim
           \/ Copies!WorkerStarts \/ Copies!WorkerEnds \/ Copies!OutsiderWrites
  PROVE  BackupInv'
<1> USE DEF BackupNames, BackupBounds, BackupInv, Copies!procs, Copies!Processes
<1>1. CASE Copies!StartWork \/ Copies!EndWork
  <2> USE <1>1 DEF Copies!StartWork, Copies!EndWork, Copies!LifecycleFree, Copies!Locked
  <2>1. BackupTyped' /\ CacheHolds'
    BY DEF BackupTyped, CacheHolds
  <2>2. LocksAreHeld'
    BY DEF BackupTyped, LocksAreHeld
  <2>3. ChecksHold' /\ CopiesAreOwn'
    BY DEF BackupTyped, LocksAreHeld, ChecksHold, CopiesAreOwn
  <2> QED BY <2>1, <2>2, <2>3
<1>2. CASE Copies!Enqueue \/ Copies!CancelItem \/ Copies!Claim \/ Copies!WorkerStarts
           \/ Copies!WorkerEnds
  <2> USE <1>2 DEF Copies!Enqueue, Copies!CancelItem, Copies!Claim, Copies!WorkerStarts,
                   Copies!WorkerEnds, Copies!MayWrite, Copies!LifecycleFree, Copies!Locked
  <2>1. /\ db'.data = db.data /\ db' \in Copies!Database
        /\ active' \in {"no", "claimed", "running", "settling"}
    BY DEF BackupTyped, Copies!Database
  <2>2. BackupTyped' /\ CacheHolds'
    BY <2>1 DEF BackupTyped, CacheHolds
  <2>3. LocksAreHeld'
    BY DEF BackupTyped, LocksAreHeld
  <2>4. ChecksHold'
    <3>1. CASE \A p \in Copies!Processes : restore[p] = "idle"
      BY <3>1 DEF ChecksHold
    <3>2. CASE \E p \in Copies!Processes : restore[p] # "idle"
      <4>1. Copies!WorkerStarts \/ Copies!WorkerEnds
        BY <3>2 DEF BackupTyped, LocksAreHeld
      <4>2. db'.queue \in {"none", db.queue}
        BY <4>1 DEF BackupTyped, Copies!Database
      <4> QED BY <2>1, <4>1, <4>2 DEF BackupTyped, LocksAreHeld, ChecksHold
    <3> QED BY <3>1, <3>2
  <2>5. CopiesAreOwn'
    BY DEF CopiesAreOwn
  <2> QED BY <2>2, <2>3, <2>4, <2>5
<1>3. CASE Copies!OutsiderWrites
  <2> USE <1>3 DEF Copies!OutsiderWrites
  <2>1. /\ db' \in Copies!Database /\ newest' \in Copies!Data /\ stale' \in BOOLEAN
        /\ (db'.data = db.data /\ stale' = stale) \/ stale' = TRUE
    <3>1. CASE newest < MaxData /\ newest' = newest + 1 /\ db' = [db EXCEPT !.data = newest']
                 /\ stale' = TRUE
      BY <3>1 DEF BackupTyped, Copies!Database, Copies!Data
    <3>2. CASE (\E q \in {"queued", "none"} : db' = [db EXCEPT !.queue = q])
               /\ newest' = newest /\ stale' = stale
      BY <3>2 DEF BackupTyped, Copies!Database
    <3> QED BY <3>1, <3>2
  <2>2. foreign' \in BOOLEAN /\ \A p \in Copies!Processes : restore[p] # "idle" => foreign' = TRUE
    OBVIOUS
  <2>3. BackupTyped' /\ CacheHolds'
    BY <2>1, <2>2 DEF BackupTyped, CacheHolds
  <2>4. LocksAreHeld' /\ CopiesAreOwn'
    BY DEF LocksAreHeld, CopiesAreOwn
  <2>5. db'.queue \in {db.queue, "queued", "none"}
    BY DEF BackupTyped, Copies!Database
  <2>6. ChecksHold'
    BY <2>2, <2>5 DEF ChecksHold
  <2> QED BY <2>3, <2>4, <2>6
<1> QED BY <1>1, <1>2, <1>3

\* A copy, and the checks before a restore, keep the invariant.
LEMMA CopySteps ==
  ASSUME BackupNames, BackupBounds, BackupInv, NEW p \in Copies!Processes,
         Copies!BeginCopy(p) \/ Copies!CopyDatabase(p) \/ Copies!WriteMetadata(p) \/ Copies!Cleanup(p)
  PROVE  BackupInv'
<1> USE DEF BackupNames, BackupBounds, BackupInv, Copies!procs, Copies!Processes
<1>1. /\ Copies!NoOp \in CopyOps /\ Copies!NoOp.kind = "none" /\ Copies!NoOp.pc = "idle"
      /\ op[p] \in CopyOps
      /\ \A f \in Copies!Files : f \in 0 .. MaxCopies
  BY DEF Copies!NoOp, CopyOps, BackupTyped, Copies!Files
<1>2. CASE Copies!BeginCopy(p)
  <2> USE <1>2 DEF Copies!BeginCopy
  <2>1. op' = [op EXCEPT ![p] = [Copies!NoOp EXCEPT !.kind = "copy", !.pc = "copy"]]
    BY DEF BackupTyped
  <2>2. op' \in [Copies!Processes -> CopyOps] /\ op'[p].kind = "copy" /\ op'[p].pc = "copy"
        /\ \A q \in Copies!Processes \ {p} : op'[q] = op[q]
    BY <2>1 DEF BackupTyped, CopyOps, Copies!NoOp
  <2>3. BackupTyped' /\ CacheHolds' /\ LocksAreHeld'
    BY <2>2 DEF BackupTyped, CacheHolds, LocksAreHeld
  <2>4. ChecksHold' /\ CopiesAreOwn'
    BY <2>2 DEF BackupTyped, ChecksHold, CopiesAreOwn
  <2> QED BY <2>3, <2>4
<1>3. ASSUME op[p].pc \in {"copy", "meta", "clean"}, copies' \in [Copies!Files -> CopyFiles],
             UNCHANGED <<db, newest, up, busy, active, cache, stale, foreign>>, CopiesAreOwn',
             \/ /\ op[p].pc # "clean"
                /\ op' \in [Copies!Processes -> CopyOps] /\ op'[p].kind = op[p].kind
                /\ op'[p].source = op[p].source
                /\ op'[p].pc \in {"copy", "meta", "clean"} \/ (op[p].kind = "restore" /\ op'[p].pc = "page")
                /\ \A q \in Copies!Processes \ {p} : op'[q] = op[q]
                /\ UNCHANGED <<restore, holder>>
             \/ Copies!Abort(p)
      PROVE  BackupInv'
  <2>1. CASE Copies!Abort(p)
    <3> USE <2>1 DEF Copies!Abort
    <3>1. BackupTyped' /\ CacheHolds'
      BY <1>1, <1>3 DEF BackupTyped, CacheHolds
    <3>2. LocksAreHeld'
      BY <1>3 DEF BackupTyped, LocksAreHeld, ChecksHold
    <3>3. ChecksHold'
      BY <1>1, <1>3 DEF BackupTyped, ChecksHold
    <3> QED BY <1>3, <3>1, <3>2, <3>3
  <2>2. CASE ~Copies!Abort(p)
    <3>1. BackupTyped' /\ CacheHolds' /\ LocksAreHeld'
      BY <1>3, <2>2 DEF BackupTyped, CacheHolds, LocksAreHeld
    <3>2. ChecksHold'
      BY <1>3, <2>2 DEF BackupTyped, ChecksHold
    <3> QED BY <1>3, <3>1, <3>2
  <2> QED BY <2>1, <2>2
<1>4. CASE Copies!CopyDatabase(p)
  <2> USE <1>4 DEF Copies!CopyDatabase
  <2>1. PICK f \in Copies!Unused :
          \/ /\ copies' = [copies EXCEPT ![f] = [state |-> "plain", db |-> db]]
             /\ op' = [op EXCEPT ![p].pc = "meta", ![p].file = f] /\ UNCHANGED <<restore, holder>>
          \/ /\ copies' = [copies EXCEPT ![f] = [state |-> "partial", db |-> db]] /\ Copies!Abort(p)
    OBVIOUS
  <2>2. f \in Copies!Files /\ copies' \in [Copies!Files -> CopyFiles] /\ copies[f].state = "none"
    <3>1. f \in Copies!Files /\ copies[f] = Copies!NoFile
      BY DEF Copies!Unused, Copies!Files
    <3>2. /\ [state |-> "plain", db |-> db] \in CopyFiles
          /\ [state |-> "partial", db |-> db] \in CopyFiles
          /\ Copies!NoFile.state = "none"
      BY DEF BackupTyped, CopyFiles, Copies!NoFile
    <3> QED BY <2>1, <3>1, <3>2 DEF BackupTyped
  <2>4. CopiesAreOwn'
    <3>1. \A q \in Copies!Processes \ {p} : op[q].pc = "meta" => op[q].file # f
      BY <2>2 DEF CopiesAreOwn
    <3>2. CASE Copies!Abort(p)
      BY <1>1, <2>1, <2>2, <3>1, <3>2 DEF BackupTyped, CopiesAreOwn, Copies!Abort
    <3>3. CASE ~Copies!Abort(p)
      <4>1. op'[p].file = f /\ copies'[f].state = "plain" /\ \A q \in Copies!Processes \ {p} : op'[q] = op[q]
        BY <1>1, <2>1, <2>2, <3>3 DEF BackupTyped, CopyOps
      <4> QED BY <2>1, <2>2, <3>1, <3>3, <4>1 DEF BackupTyped, CopiesAreOwn
    <3> QED BY <3>2, <3>3
  <2>3. CASE ~Copies!Abort(p)
    <3>1. op' = [op EXCEPT ![p] = [op[p] EXCEPT !.pc = "meta", !.file = f]]
      BY <2>1, <2>3 DEF BackupTyped
    <3>2. /\ op' \in [Copies!Processes -> CopyOps] /\ op'[p].kind = op[p].kind
          /\ op'[p].source = op[p].source
          /\ op'[p].pc = "meta" /\ \A q \in Copies!Processes \ {p} : op'[q] = op[q]
      BY <1>1, <2>2, <3>1 DEF BackupTyped, CopyOps
    <3> QED BY <1>3, <2>1, <2>2, <2>3, <2>4, <3>2
  <2> QED BY <1>3, <2>2, <2>3, <2>4
<1>5. CASE Copies!WriteMetadata(p)
  <2> USE <1>5 DEF Copies!WriteMetadata
  <2>1. CASE copies' = copies /\ Copies!Abort(p)
    <3>1. CopiesAreOwn'
      BY <1>1, <2>1 DEF BackupTyped, CopiesAreOwn, Copies!Abort
    <3> QED BY <1>3, <2>1, <3>1 DEF BackupTyped
  <2>2. CASE ~(copies' = copies /\ Copies!Abort(p))
    <3>1. copies' = [copies EXCEPT ![op[p].file].state = "whole"]
          /\ op' = [op EXCEPT ![p].pc = IF op[p].kind = "restore" THEN "page" ELSE "clean"]
          /\ UNCHANGED <<restore, holder>>
      BY <2>2 DEF Copies!Goto
    <3>2. copies' \in [Copies!Files -> CopyFiles]
      <4>1. /\ op[p].file \in Copies!Files
            /\ copies[op[p].file] \in [state : {"partial", "plain", "whole"}, db : Copies!Database]
        BY DEF CopiesAreOwn, BackupTyped, CopyFiles, Copies!NoFile
      <4>2. [copies[op[p].file] EXCEPT !.state = "whole"] \in CopyFiles
        BY <4>1 DEF CopyFiles
      <4> QED BY <3>1, <4>1, <4>2 DEF BackupTyped
    <3>3. /\ op' \in [Copies!Processes -> CopyOps] /\ op'[p].kind = op[p].kind
          /\ op'[p].source = op[p].source
          /\ op'[p].pc = (IF op[p].kind = "restore" THEN "page" ELSE "clean")
          /\ \A q \in Copies!Processes \ {p} : op'[q] = op[q]
      BY <1>1, <3>1 DEF BackupTyped, CopyOps
    <3>4. CopiesAreOwn'
      BY <3>1, <3>3 DEF BackupTyped, CopiesAreOwn
    <3> QED BY <1>3, <3>1, <3>2, <3>3, <3>4
  <2> QED BY <2>1, <2>2
<1>6. CASE Copies!Cleanup(p)
  <2>1. copies' \in [Copies!Files -> CopyFiles]
    BY <1>6 DEF Copies!Cleanup, Copies!Remove, BackupTyped, CopyFiles
  <2>2. CopiesAreOwn'
    BY <1>1, <1>6 DEF Copies!Cleanup, Copies!Remove, Copies!Excess, Copies!Owned, BackupTyped,
                      CopiesAreOwn, Copies!Abort
  <2> QED BY <1>3, <1>6, <2>1, <2>2 DEF Copies!Cleanup
<1> QED BY <1>2, <1>4, <1>5, <1>6

\* A restore keeps the invariant.
LEMMA RestoreSteps ==
  ASSUME BackupNames, BackupBounds, BackupInv, NEW p \in Copies!Processes,
         \/ Copies!RestoreBegins(p) \/ Copies!CheckWork(p) \/ Copies!CheckQueue(p)
         \/ Copies!PageCopy(p) \/ Copies!FinishRestore(p) \/ Copies!RestoreCleanup(p)
  PROVE  BackupInv'
<1> USE DEF BackupNames, BackupBounds, BackupInv, Copies!procs, Copies!Processes
<1>1. Copies!NoOp \in CopyOps /\ Copies!NoOp.kind = "none" /\ Copies!NoOp.pc = "idle" /\ op[p] \in CopyOps
  BY DEF Copies!NoOp, CopyOps, BackupTyped
<1>2. CASE Copies!RestoreBegins(p)
  <2> USE <1>2, RecoveredKeeps DEF Copies!RestoreBegins, Copies!MayOwn, Copies!LifecycleFree
  <2>1. BackupTyped' /\ CacheHolds'
    BY DEF BackupTyped, CacheHolds
  <2>2. LocksAreHeld'
    BY DEF BackupTyped, LocksAreHeld
  <2>3. ChecksHold' /\ CopiesAreOwn'
    BY DEF BackupTyped, LocksAreHeld, ChecksHold, CopiesAreOwn
  <2> QED BY <2>1, <2>2, <2>3
<1>3. CASE Copies!CheckWork(p)
  <2> USE <1>3 DEF Copies!CheckWork, Copies!GiveUp
  <2>1. BackupTyped' /\ CacheHolds'
    BY DEF BackupTyped, CacheHolds
  <2>2. LocksAreHeld'
    BY DEF BackupTyped, LocksAreHeld
  <2>3. ChecksHold' /\ CopiesAreOwn'
    BY DEF BackupTyped, LocksAreHeld, ChecksHold, CopiesAreOwn
  <2> QED BY <2>1, <2>2, <2>3
<1>4. CASE Copies!CheckQueue(p)
  <2> USE <1>4 DEF Copies!CheckQueue
  <2>1. CASE Copies!GiveUp(p) /\ op' = op
    <3> USE <2>1 DEF Copies!GiveUp
    <3>1. BackupTyped' /\ CacheHolds'
      BY DEF BackupTyped, CacheHolds
    <3>2. LocksAreHeld' /\ ChecksHold' /\ CopiesAreOwn'
      BY DEF BackupTyped, LocksAreHeld, ChecksHold, CopiesAreOwn, Copies!NoOp
    <3> QED BY <3>1, <3>2
  <2>2. ASSUME NEW f \in Copies!Owned, ~Copies!HasPending(p),
    restore' = [restore EXCEPT ![p] = "inside"], holder' = holder,
               op' = [op EXCEPT ![p] = [kind |-> "restore", pc |-> "copy", file |-> 0, source |-> f]]
        PROVE  BackupInv'
    <3>1. f \in Copies!Files /\ [kind |-> "restore", pc |-> "copy", file |-> 0, source |-> f] \in CopyOps
      BY DEF Copies!Owned, Copies!Files, CopyOps
    <3>2. /\ op' \in [Copies!Processes -> CopyOps] /\ op'[p].kind = "restore" /\ op'[p].pc = "copy"
          /\ op'[p].source = f
          /\ \A q \in Copies!Processes \ {p} : op'[q] = op[q]
      BY <2>2, <3>1 DEF BackupTyped
    <3>3. BackupTyped' /\ CacheHolds'
      BY <2>2, <3>2 DEF BackupTyped, CacheHolds
    <3>4. LocksAreHeld'
      BY <2>2 DEF BackupTyped, LocksAreHeld
    <3>5. active = "no" /\ db.queue = "none"
      BY <2>2 DEF Copies!HasPending, BackupTyped, Copies!Database, LocksAreHeld
    <3>6. ChecksHold' /\ CopiesAreOwn'
      BY <2>2, <3>1, <3>2, <3>5 DEF BackupTyped, LocksAreHeld, ChecksHold, CopiesAreOwn
    <3> QED BY <3>3, <3>4, <3>6
  <2> QED BY <2>1, <2>2
<1>5. ASSUME op[p].kind = "restore", restore[p] = "inside",
             Copies!Abort(p) \/ (\E goal \in {"finish", "retain"} : Copies!Goto(p, goal)),
             db' \in Copies!Database, copies' \in [Copies!Files -> CopyFiles], cache' \in Copies!Data,
             stale' \in BOOLEAN,
             op[p].pc \in {"page", "finish", "retain"},
             UNCHANGED <<newest, up, busy, active, foreign>>, CacheHolds', copies' = copies
               \/ Copies!Remove(Copies!Excess)
      PROVE  BackupInv'
  <2>4. \A f \in Copies!Files : copies[f].state = "plain" => copies'[f] = copies[f]
    BY <1>5 DEF Copies!Remove, Copies!Excess, Copies!Owned
  <2>1. \A q \in Copies!Processes \ {p} : restore[q] = "idle" /\ op[q].kind # "restore"
    BY <1>5 DEF LocksAreHeld, ChecksHold
  <2>2. CASE Copies!Abort(p)
    <3> USE <2>2 DEF Copies!Abort
    <3>1. BackupTyped'
      BY <1>1, <1>5 DEF BackupTyped
    <3>2. LocksAreHeld'
      BY <1>5 DEF BackupTyped, LocksAreHeld
    <3>4. ChecksHold'
      BY <1>1, <1>5, <2>1 DEF BackupTyped, ChecksHold
    <3>3. ChecksHold' /\ CopiesAreOwn'
      BY <1>1, <1>5, <2>4, <3>4 DEF BackupTyped, CopiesAreOwn
    <3> QED BY <1>5, <3>1, <3>2, <3>3
  <2>3. ASSUME NEW goal \in {"finish", "retain"}, Copies!Goto(p, goal) PROVE BackupInv'
    <3> USE <2>3 DEF Copies!Goto
    <3>1. /\ op' \in [Copies!Processes -> CopyOps] /\ op'[p].kind = "restore" /\ op'[p].pc = goal
          /\ op'[p].source = op[p].source
          /\ \A q \in Copies!Processes \ {p} : op'[q] = op[q]
      BY <1>1, <1>5 DEF BackupTyped, CopyOps
    <3>2. BackupTyped' /\ LocksAreHeld'
      BY <1>5, <3>1 DEF BackupTyped, LocksAreHeld
    <3>4. ChecksHold'
      BY <1>5, <2>1, <3>1 DEF BackupTyped, ChecksHold
    <3>3. ChecksHold' /\ CopiesAreOwn'
      BY <1>5, <2>4, <3>1, <3>4 DEF BackupTyped, CopiesAreOwn
    <3> QED BY <1>5, <3>2, <3>3
  <2> QED BY <1>5, <2>2, <2>3
<1>6. op[p].pc \in {"page", "finish", "retain"} => op[p].kind = "restore" /\ restore[p] = "inside"
  BY DEF ChecksHold
<1>7. CASE Copies!PageCopy(p)
  <2> USE <1>7 DEF Copies!PageCopy
  <2>1. op[p].source \in Copies!Files
    BY <1>6 DEF ChecksHold
  <2>2. db' \in Copies!Database /\ stale' \in BOOLEAN /\ CacheHolds'
    <3>1. CASE db' = db /\ stale' = stale
      BY <3>1 DEF BackupTyped, CacheHolds
    <3>2. CASE copies[op[p].source] # Copies!NoFile /\ db' = copies[op[p].source].db /\ stale' = TRUE
      <4>1. copies[op[p].source] \in [state : {"partial", "plain", "whole"}, db : Copies!Database]
        BY <2>1, <3>2 DEF BackupTyped, CopyFiles
      <4> QED BY <3>2, <4>1 DEF CacheHolds
    <3> QED BY <3>1, <3>2
  <2>3. Copies!Abort(p) \/ Copies!Goto(p, "finish")
    OBVIOUS
  <2> QED BY <1>5, <1>6, <2>2, <2>3 DEF BackupTyped
<1>8. CASE Copies!FinishRestore(p)
  <2> USE <1>8 DEF Copies!FinishRestore
  <2>1. Copies!Abort(p) \/ Copies!Goto(p, "retain")
    OBVIOUS
  <2>2. db' \in Copies!Database /\ cache' \in Copies!Data /\ stale' \in BOOLEAN
    BY RecoveredKeeps DEF BackupTyped, Copies!Refreshed, Copies!Database
  <2>3. CacheHolds'
    BY <1>6, RecoveredKeeps DEF BackupTyped, LocksAreHeld, CacheHolds, Copies!Refreshed
  <2> QED BY <1>5, <1>6, <2>1, <2>2, <2>3 DEF BackupTyped
<1>9. CASE Copies!RestoreCleanup(p)
  <2> USE <1>9 DEF Copies!RestoreCleanup
  <2>1. copies' \in [Copies!Files -> CopyFiles]
    BY DEF Copies!Remove, BackupTyped, CopyFiles
  <2>2. CacheHolds'
    BY DEF CacheHolds
  <2> QED BY <1>5, <1>6, <2>1, <2>2 DEF BackupTyped
<1> QED BY <1>2, <1>3, <1>4, <1>7, <1>8, <1>9

\* A copy and all later ones hold the data that is in the database.
Covers(f) == \A g \in Copies!Files : g >= f /\ copies[g] # Copies!NoFile => copies[g].db.data = db.data

\* Until a restore replaces the database, the newest complete copy covers it; so the copy a
\* cleanup spares, the newest one, does.
SafetyCopyIsKept ==
  \A p \in Copies!Processes :
    /\ op[p].kind = "restore" /\ op[p].pc = "meta" /\ foreign = FALSE => Covers(op[p].file)
    /\ op[p].pc = "page" /\ foreign = FALSE => \E f \in Copies!Owned : Covers(f)
    /\ op[p].pc = "clean" => \E f \in Copies!Owned : f >= op[p].file

\* The module's instance of Cardinality is the library's.
LEMMA CopiesCardinality == ASSUME NEW S PROVE Copies!Cardinality(S) = Cardinality(S)
  BY Zenon DEF Copies!Cardinality, Copies!IsFiniteSet, Cardinality, IsFiniteSet

\* Of the complete copies one is the newest.
LEMMA NewestCopy ==
  ASSUME MaxCopies \in Nat, Copies!Owned # {}
  PROVE  \E m \in Copies!Owned : \A f \in Copies!Owned : f <= m
<1> DEFINE Ages == {a \in Nat : \E f \in Copies!Owned : f = MaxCopies - a}
           Less == OpToRel(<, Nat)
<1>1. \A f \in Copies!Owned : f \in Nat /\ MaxCopies - f \in Ages
  BY DEF Copies!Owned, Copies!Files
<1>2. Ages \subseteq Nat /\ Ages # {}
  BY <1>1
<1>3. \E a \in Ages : \A b \in Ages : ~(<<b, a>> \in Less)
  <2> HIDE DEF Ages
  <2> QED BY <1>2, NatLessThanWellFounded, WFMin
<1>4. PICK a \in Ages : \A b \in Ages : ~(b < a)
  <2>1. \A a, b \in Nat : b < a => <<b, a>> \in Less
    BY DEF OpToRel
  <2> HIDE DEF Less
  <2> QED BY <1>2, <1>3, <2>1
<1>5. PICK m \in Copies!Owned : m = MaxCopies - a
  OBVIOUS
<1>6. \A f \in Copies!Owned : ~(MaxCopies - f < a)
  BY <1>1, <1>4
<1>7. \A f \in Copies!Owned : f \in Nat /\ f <= m
  BY <1>1, <1>2, <1>5, <1>6
<1> QED BY <1>7

\* No cleanup removes the newest copy, or one that is not complete.
LEMMA CleanupSpares ==
  ASSUME BackupBounds, Keep \in Nat, SafetyCopyIsKept, NEW p \in Copies!Processes,
         op[p] \in CopyOps, copies \in [Copies!Files -> CopyFiles],
         Copies!Cleanup(p) \/ Copies!RestoreCleanup(p)
  PROVE  /\ \A f \in Copies!Files \ Copies!Owned : copies'[f] = copies[f]
         /\ \A f \in Copies!Files : copies'[f] \in {copies[f], Copies!NoFile}
         /\ \A m \in Copies!Owned : (\A f \in Copies!Owned : f <= m) => copies'[m] = copies[m]
<1>1. CASE copies' = copies
  BY <1>1
<1>2. ASSUME NEW fs \in SUBSET Copies!Files, fs \subseteq Copies!Owned, Copies!Remove(fs),
             \A m \in Copies!Owned : (\A f \in Copies!Owned : f <= m) => m \notin fs
      PROVE  /\ \A f \in Copies!Files \ Copies!Owned : copies'[f] = copies[f]
             /\ \A f \in Copies!Files : copies'[f] \in {copies[f], Copies!NoFile}
             /\ \A m \in Copies!Owned : (\A f \in Copies!Owned : f <= m) => copies'[m] = copies[m]
  BY <1>2 DEF Copies!Remove, Copies!Owned
<1>3. Copies!Excess \subseteq Copies!Owned /\ Copies!Owned \subseteq Copies!Files
  BY DEF Copies!Excess, Copies!Owned
<1>4. ASSUME NEW m \in Copies!Owned, \A f \in Copies!Owned : f <= m PROVE m \notin Copies!Excess
  <2>1. Copies!Owned \subseteq Nat
    BY <1>3 DEF BackupBounds, Copies!Files
  <2>2. {g \in Copies!Owned : g > m} = {}
    <3>1. \A g \in Copies!Owned : ~(g > m)
      BY <1>4, <2>1
    <3> QED BY <3>1, Zenon
  <2>3. Copies!Cardinality({g \in Copies!Owned : g > m}) = 0
    BY <2>2, CopiesCardinality, FS_EmptySet, Zenon
  <2>4. m \in Copies!Excess
          => Keep > 0 /\ Copies!Cardinality({g \in Copies!Owned : g > m}) >= Keep
    BY Zenon DEF Copies!Excess
  <2> HIDE DEF Copies!Owned
  <2> QED BY <2>3, <2>4
<1>5. CASE Copies!Remove(Copies!Excess)
  BY <1>2, <1>3, <1>4, <1>5
<1>6. ASSUME op[p].pc = "clean", NEW old \in Copies!Files, old <= op[p].file,
             Copies!Remove(Copies!Excess \cup {f \in Copies!Owned : f < old})
      PROVE  /\ \A f \in Copies!Files \ Copies!Owned : copies'[f] = copies[f]
             /\ \A f \in Copies!Files : copies'[f] \in {copies[f], Copies!NoFile}
             /\ \A m \in Copies!Owned : (\A f \in Copies!Owned : f <= m) => copies'[m] = copies[m]
  <2> DEFINE fs == Copies!Excess \cup {f \in Copies!Owned : f < old}
  <2>1. fs \subseteq Copies!Owned /\ fs \subseteq Copies!Files
    BY <1>3
  <2>2. PICK f \in Copies!Owned : f >= op[p].file
    BY <1>6 DEF SafetyCopyIsKept
  <2>3. ASSUME NEW m \in Copies!Owned, \A g \in Copies!Owned : g <= m PROVE m \notin fs
    <3>1. Copies!Files \subseteq Nat /\ op[p].file \in Nat
      BY DEF BackupBounds, Copies!Files, CopyOps
    <3>2. f <= m /\ f \in Nat /\ m \in Nat /\ old \in Nat
      BY <1>3, <2>3, <3>1
    <3>3. ~(m < old)
      BY <1>6, <2>2, <3>1, <3>2
    <3> QED BY <1>4, <2>3, <3>3
  <2>4. Copies!Remove(fs)
    BY <1>6
  <2> QED BY <1>2, <2>1, <2>3, <2>4
<1> QED BY <1>1, <1>5, <1>6 DEF Copies!Cleanup, Copies!RestoreCleanup

\* What leaves the copies alone keeps it, if no restore begins in the middle or misses a write.
LEMMA CopiesStay ==
  ASSUME SafetyCopyIsKept, copies' = copies,
         \A p \in Copies!Processes :
           /\ op'[p] = op[p] \/ op'[p].pc \notin {"meta", "page", "clean"}
           /\ op'[p].pc = "page" \/ (op'[p].pc = "meta" /\ op'[p].kind = "restore") =>
                foreign' = TRUE \/ (foreign = FALSE /\ db'.data = db.data)
  PROVE  SafetyCopyIsKept'
BY DEF SafetyCopyIsKept, Covers, Copies!Owned

\* Steps that make and remove no copy.
LEMMA SafetyOtherSteps ==
  ASSUME BackupNames, BackupBounds, BackupInv, SafetyCopyIsKept,
         \/ Copies!AppUp \/ Copies!Write \/ Copies!StartWork \/ Copies!EndWork \/ Copies!Enqueue
         \/ Copies!CancelItem \/ Copies!Claim \/ Copies!WorkerStarts \/ Copies!WorkerEnds \/ Copies!OutsiderWrites
         \/ \E p \in Copies!Processes :
              \/ Copies!Die(p) \/ Copies!BeginCopy(p) \/ Copies!RestoreBegins(p) \/ Copies!CheckWork(p)
              \/ Copies!CheckQueue(p) \/ Copies!PageCopy(p) \/ Copies!FinishRestore(p)
  PROVE  SafetyCopyIsKept'
<1> USE DEF BackupNames, BackupBounds, BackupInv, Copies!Processes
<1>1. \A p \in Copies!Processes :
        op[p].pc = "page" \/ (op[p].pc = "meta" /\ op[p].kind = "restore") => restore[p] = "inside"
  BY DEF ChecksHold
<1>2. foreign \in BOOLEAN /\ db \in Copies!Database
  BY DEF BackupTyped
<1>3. CASE Copies!AppUp \/ Copies!StartWork \/ Copies!EndWork \/ Copies!Enqueue \/ Copies!Claim
           \/ Copies!CancelItem \/ Copies!WorkerStarts \/ Copies!WorkerEnds
  <2>1. db'.data = db.data
    BY <1>2, <1>3, RecoveredKeeps DEF Copies!AppUp, Copies!StartWork, Copies!EndWork, Copies!Enqueue,
                Copies!CancelItem, Copies!Claim, Copies!WorkerStarts, Copies!WorkerEnds, Copies!Database
  <2>2. op' = op /\ copies' = copies /\ foreign' = foreign
    BY <1>3 DEF Copies!AppUp, Copies!StartWork, Copies!EndWork, Copies!Enqueue,
                Copies!CancelItem, Copies!Claim, Copies!WorkerStarts, Copies!WorkerEnds, Copies!procs
  <2> QED BY <1>2, <2>1, <2>2, CopiesStay
<1>4. CASE Copies!Write
  <2>1. restore[App] = "idle" /\ restore[Cli] = "idle"
    BY <1>4 DEF Copies!Write, Copies!MayWrite, Copies!Locked, LocksAreHeld
  <2>2. op' = op /\ copies' = copies /\ foreign' = foreign
    BY <1>4 DEF Copies!Write, Copies!procs
  <2> QED BY <1>1, <2>1, <2>2, CopiesStay
<1>5. CASE Copies!OutsiderWrites
  <2>1. \A p \in Copies!Processes : restore[p] = "inside" => foreign' = TRUE
    BY <1>5 DEF Copies!OutsiderWrites
  <2>2. op' = op /\ copies' = copies
    BY <1>5 DEF Copies!OutsiderWrites
  <2> QED BY <1>1, <2>1, <2>2, CopiesStay
<1>6. ASSUME NEW p \in Copies!Processes, Copies!Die(p) \/ Copies!BeginCopy(p) \/ Copies!CheckWork(p)
      PROVE  SafetyCopyIsKept'
  <2>1. \A q \in Copies!Processes :
          op'[q] = op[q] \/ op'[q].pc \notin {"meta", "page", "clean"}
    BY <1>6 DEF Copies!Die, Copies!BeginCopy, Copies!CheckWork, Copies!NoOp, BackupTyped, CopyOps
  <2>2. db' = db /\ copies' = copies /\ foreign' = foreign
    BY <1>6 DEF Copies!Die, Copies!BeginCopy, Copies!CheckWork
  <2> QED BY <1>2, <2>1, <2>2, CopiesStay
<1>7. ASSUME NEW p \in Copies!Processes, Copies!RestoreBegins(p) PROVE SafetyCopyIsKept'
  <2>1. \A q \in Copies!Processes : restore[q] = "idle"
    BY <1>7 DEF Copies!RestoreBegins, Copies!MayOwn, LocksAreHeld
  <2>2. op' = op /\ copies' = copies
    BY <1>7 DEF Copies!RestoreBegins
  <2> QED BY <1>1, <2>1, <2>2, CopiesStay
<1>8. ASSUME NEW p \in Copies!Processes, Copies!CheckQueue(p) PROVE SafetyCopyIsKept'
  <2>1. \A q \in Copies!Processes :
          op'[q] = op[q] \/ op'[q].pc \notin {"meta", "page", "clean"}
    BY <1>8 DEF Copies!CheckQueue, BackupTyped
  <2>2. db' = db /\ copies' = copies /\ foreign' = foreign
    BY <1>8 DEF Copies!CheckQueue
  <2> QED BY <1>2, <2>1, <2>2, CopiesStay
<1>9. ASSUME NEW p \in Copies!Processes, Copies!PageCopy(p) \/ Copies!FinishRestore(p)
      PROVE  SafetyCopyIsKept'
  <2>1. restore[p] = "inside" /\ \A q \in Copies!Processes \ {p} : restore[q] = "idle"
    BY <1>9 DEF Copies!PageCopy, Copies!FinishRestore, ChecksHold, LocksAreHeld
  <2>2. /\ op'[p].pc \notin {"meta", "page", "clean"}
        /\ \A q \in Copies!Processes \ {p} : op'[q] = op[q]
    BY <1>9 DEF Copies!PageCopy, Copies!FinishRestore, Copies!Goto, Copies!Abort, Copies!NoOp,
                BackupTyped, CopyOps
  <2>3. copies' = copies
    BY <1>9 DEF Copies!PageCopy, Copies!FinishRestore
  <2> HIDE DEF Copies!Processes
  <2> QED BY <1>1, <2>1, <2>2, <2>3, CopiesStay
<1> QED BY <1>3, <1>4, <1>5, <1>6, <1>7, <1>8, <1>9

\* A new copy is later than all others, and is of the database as it is.
LEMMA SafetyCopySteps ==
  ASSUME BackupNames, BackupBounds, BackupInv, SafetyCopyIsKept, NEW p \in Copies!Processes,
         Copies!CopyDatabase(p) \/ Copies!WriteMetadata(p)
  PROVE  SafetyCopyIsKept'
<1> USE DEF BackupBounds
<1>0. /\ copies \in [Copies!Files -> CopyFiles] /\ op \in [Copies!Processes -> CopyOps]
      /\ db \in Copies!Database /\ Copies!Files \subseteq Nat
      /\ \A f \in Copies!Files : copies[f] # Copies!NoFile <=> copies[f].state # "none"
  BY DEF BackupInv, BackupTyped, Copies!Files, CopyFiles, Copies!NoFile
<1>1. ASSUME Copies!CopyDatabase(p) PROVE SafetyCopyIsKept'
  <2>1. PICK f \in Copies!Unused : \E st \in {"plain", "partial"} :
          /\ copies' = [copies EXCEPT ![f] = [state |-> st, db |-> db]]
          /\ op' = [op EXCEPT ![p].pc = "meta", ![p].file = f] \/ op' = [op EXCEPT ![p] = Copies!NoOp]
    BY <1>1 DEF Copies!CopyDatabase, Copies!Abort
  <2>2. db' = db /\ foreign' = foreign
    BY <1>1 DEF Copies!CopyDatabase
  <2>3. f \in Copies!Files /\ \A g \in Copies!Files : g >= f => copies[g] = Copies!NoFile
    BY DEF Copies!Unused
  <2>4. /\ copies'[f] # Copies!NoFile /\ copies'[f].db.data = db.data
        /\ \A g \in Copies!Files \ {f} : copies'[g] = copies[g]
    BY <1>0, <2>1, <2>3 DEF Copies!NoFile
  <2>5. \A q \in Copies!Processes :
          \/ op'[q] = op[q]
          \/ op'[q].pc = "idle"
          \/ op'[q].pc = "meta" /\ op'[q].file = f
    BY <1>0, <2>1 DEF Copies!NoOp, CopyOps
  <2>6. Copies!Owned \subseteq Copies!Owned'
    <3>1. f >= f /\ copies[f].state # "whole"
      BY <1>0, <2>3 DEF Copies!NoFile
    <3> QED BY <2>4, <3>1 DEF Copies!Owned
  <2>7. \A g \in Copies!Files : Covers(g) => Covers(g)'
    BY <2>2, <2>4 DEF Covers
  <2>8. Covers(f)'
    BY <2>2, <2>3, <2>4 DEF Covers
  <2>9. \A q \in Copies!Processes : op[q].pc = "meta" => op[q].file \in Copies!Files
    BY DEF BackupInv, CopiesAreOwn
  <2>10. Copies!Owned \subseteq Copies!Files
    BY DEF Copies!Owned
  <2> QED BY <2>2, <2>5, <2>6, <2>7, <2>8, <2>9, <2>10 DEF SafetyCopyIsKept
<1>2. ASSUME Copies!WriteMetadata(p) PROVE SafetyCopyIsKept'
  <2>1. db' = db /\ foreign' = foreign
    BY <1>2 DEF Copies!WriteMetadata
  <2>2. CASE copies' = copies /\ Copies!Abort(p)
    <3>1. \A q \in Copies!Processes : op'[q] = op[q] \/ op'[q].pc = "idle"
      BY <1>0, <2>2 DEF Copies!Abort, Copies!NoOp
    <3>2. foreign \in BOOLEAN
      BY DEF BackupInv, BackupTyped
    <3> QED BY <2>1, <2>2, <3>1, <3>2, CopiesStay
  <2>3. CASE copies' = [copies EXCEPT ![op[p].file].state = "whole"]
             /\ Copies!Goto(p, IF op[p].kind = "restore" THEN "page" ELSE "clean")
    <3>1. /\ op[p].pc = "meta" /\ op[p].file \in Copies!Files
          /\ copies[op[p].file] \in [state : {"partial", "plain", "whole"}, db : Copies!Database]
      BY <1>0, <1>2 DEF Copies!WriteMetadata, BackupInv, CopiesAreOwn, CopyFiles, Copies!NoFile
    <3>2. /\ copies'[op[p].file].state = "whole" /\ copies'[op[p].file].db = copies[op[p].file].db
          /\ copies'[op[p].file] # Copies!NoFile
          /\ \A g \in Copies!Files \ {op[p].file} : copies'[g] = copies[g]
      BY <1>0, <2>3, <3>1 DEF Copies!NoFile
    <3>3. copies[op[p].file] # Copies!NoFile
      BY <3>1 DEF Copies!NoFile
    <3>4. /\ \A q \in Copies!Processes \ {p} : op'[q] = op[q]
          /\ op'[p].file = op[p].file /\ op'[p].kind = op[p].kind
          /\ op'[p].pc = IF op[p].kind = "restore" THEN "page" ELSE "clean"
      BY <1>0, <2>3 DEF Copies!Goto, CopyOps
    <3>5. Copies!Owned \subseteq Copies!Owned' /\ op[p].file \in Copies!Owned'
      BY <3>1, <3>2 DEF Copies!Owned
    <3>6. \A g \in Copies!Files : Covers(g) => Covers(g)'
      BY <2>1, <3>2, <3>3 DEF Covers
    <3>7. Copies!Owned \subseteq Copies!Files /\ op[p].file >= op[p].file
      <4>1. op[p].file \in Nat
        BY <1>0, <3>1
      <4> QED BY <1>0, <4>1 DEF Copies!Owned
    <3>8. \A q \in Copies!Processes : op[q].pc = "meta" => op[q].file \in Copies!Files
      BY DEF BackupInv, CopiesAreOwn
    <3> QED BY <2>1, <3>1, <3>4, <3>5, <3>6, <3>7, <3>8 DEF SafetyCopyIsKept
  <2> QED BY <1>2, <2>2, <2>3 DEF Copies!WriteMetadata
<1> QED BY <1>1, <1>2

\* A cleanup spares the newest copy, which is not older than any the invariant names.
LEMMA SafetyCleanups ==
  ASSUME BackupNames, BackupBounds, Keep \in Nat, BackupInv, SafetyCopyIsKept,
         NEW p \in Copies!Processes, Copies!Cleanup(p) \/ Copies!RestoreCleanup(p)
  PROVE  SafetyCopyIsKept'
<1>0. /\ copies \in [Copies!Files -> CopyFiles] /\ op \in [Copies!Processes -> CopyOps]
      /\ db \in Copies!Database /\ Copies!Files \subseteq Nat
      /\ Copies!Owned \subseteq Copies!Files
  BY DEF BackupInv, BackupTyped, Copies!Files, Copies!Owned, BackupBounds
<1>1. /\ \A f \in Copies!Files \ Copies!Owned : copies'[f] = copies[f]
      /\ \A f \in Copies!Files : copies'[f] \in {copies[f], Copies!NoFile}
      /\ \A m \in Copies!Owned : (\A f \in Copies!Owned : f <= m) => copies'[m] = copies[m]
  BY <1>0, CleanupSpares
<1>2. /\ db' = db /\ foreign' = foreign /\ op' = [op EXCEPT ![p] = Copies!NoOp]
  BY DEF Copies!Cleanup, Copies!RestoreCleanup, Copies!Abort
<1>3. \A q \in Copies!Processes : op'[q] = op[q] \/ op'[q].pc = "idle"
  BY <1>0, <1>2 DEF Copies!NoOp
<1>4. \A f \in Copies!Files : Covers(f) => Covers(f)'
  BY <1>1, <1>2 DEF Covers
<1>5. ASSUME Copies!Owned # {}
      PROVE  \E m \in Copies!Owned' : m \in Copies!Owned /\ \A f \in Copies!Owned : f <= m
  <2>1. PICK m \in Copies!Owned : \A f \in Copies!Owned : f <= m
    BY <1>5, NewestCopy DEF BackupBounds
  <2>2. copies'[m] = copies[m]
    BY <1>1, <2>1
  <2> QED BY <2>1, <2>2 DEF Copies!Owned
<1>6. \A f, m \in Copies!Files : f <= m /\ Covers(f) => Covers(m)
  BY <1>0 DEF Covers
<1>7. \A q \in Copies!Processes : op[q].pc = "meta" => op[q].file \in Copies!Files
  BY DEF BackupInv, CopiesAreOwn
<1>8. SUFFICES ASSUME NEW q \in Copies!Processes, op'[q] = op[q]
      PROVE  /\ op[q].kind = "restore" /\ op[q].pc = "meta" /\ foreign = FALSE => Covers(op[q].file)'
             /\ op[q].pc = "page" /\ foreign = FALSE => \E f \in Copies!Owned' : Covers(f)'
             /\ op[q].pc = "clean" => \E f \in Copies!Owned' : f >= op[q].file
  BY <1>2, <1>3 DEF SafetyCopyIsKept
<1>9. CASE op[q].pc = "meta"
  <2>1. op[q].file \in Copies!Files
    BY <1>7, <1>9
  <2>2. Covers(op[q].file) => Covers(op[q].file)'
    BY <1>2, <1>4, <1>8, <2>1
  <2>3. op[q].kind = "restore" /\ foreign = FALSE => Covers(op[q].file)
    BY <1>9 DEF SafetyCopyIsKept
  <2> QED BY <1>9, <2>2, <2>3
<1>10. CASE op[q].pc = "page" /\ foreign = FALSE
  <2>1. PICK f \in Copies!Owned : Covers(f)
    BY <1>10 DEF SafetyCopyIsKept
  <2> QED BY <1>0, <1>4, <1>5, <1>6, <1>10, <2>1
<1>11. CASE op[q].pc = "clean"
  <2>1. PICK f \in Copies!Owned : f >= op[q].file
    BY <1>11 DEF SafetyCopyIsKept
  <2>2. op[q].file \in Nat
    BY <1>0 DEF CopyOps, BackupBounds
  <2>3. PICK m \in Copies!Owned' : m \in Copies!Owned /\ \A g \in Copies!Owned : g <= m
    BY <1>5, <2>1
  <2>4. m >= op[q].file
    BY <1>0, <2>1, <2>2, <2>3
  <2> QED BY <1>11, <2>3, <2>4
<1> QED BY <1>9, <1>10, <1>11

\* Both invariants together, with the settings they need.
BackupKeeps == BackupInv /\ SafetyCopyIsKept

\* Every step keeps both.
LEMMA BackupSteps ==
  ASSUME BackupNames, BackupBounds, Keep \in Nat, BackupKeeps, [Copies!Next]_(Copies!vars)
  PROVE  BackupKeeps'
<1> USE DEF BackupKeeps
<1>1. CASE Copies!AppUp \/ Copies!Write \/ (\E p \in Copies!Processes : Copies!Die(p))
  BY <1>1, BackupProcessSteps, SafetyOtherSteps
<1>2. CASE Copies!StartWork \/ Copies!EndWork \/ Copies!Enqueue \/ Copies!CancelItem \/ Copies!Claim
           \/ Copies!WorkerStarts \/ Copies!WorkerEnds \/ Copies!OutsiderWrites
  BY <1>2, WorkSteps, SafetyOtherSteps
<1>3. ASSUME NEW p \in Copies!Processes,
             Copies!BeginCopy(p) \/ Copies!RestoreBegins(p) \/ Copies!OperationStep(p)
      PROVE  BackupKeeps'
  <2>1. BackupInv'
    BY <1>3, CopySteps, RestoreSteps DEF Copies!OperationStep
  <2>2. SafetyCopyIsKept'
    BY <1>3, SafetyOtherSteps, SafetyCopySteps, SafetyCleanups DEF Copies!OperationStep
  <2> QED BY <2>1, <2>2
<1>4. CASE UNCHANGED Copies!vars
  <2>1. BackupInv'
    BY <1>4 DEF Copies!vars, Copies!procs, BackupInv, BackupTyped, LocksAreHeld, ChecksHold,
                CopiesAreOwn, CacheHolds
  <2>2. SafetyCopyIsKept'
    BY <1>4 DEF Copies!vars, SafetyCopyIsKept, Covers, Copies!Owned
  <2> QED BY <2>1, <2>2
<1> QED BY <1>1, <1>2, <1>3, <1>4 DEF Copies!Next

\* The page copy replaces what a complete copy has.
LEMMA PageCopyIsCovered ==
  ASSUME BackupNames, BackupBounds, BackupKeeps, [Copies!Next]_(Copies!vars),
         NEW p \in Copies!Processes, op[p].pc = "page", ~foreign
  PROVE  \E f \in Copies!Files : copies[f].state = "whole" /\ copies[f].db.data = db.data
<1>1. foreign = FALSE
  BY DEF BackupKeeps, BackupInv, BackupTyped
<1>2. PICK f \in Copies!Owned : Covers(f)
  BY <1>1 DEF BackupKeeps, SafetyCopyIsKept
<1>3. f \in Copies!Files /\ copies[f].state = "whole"
  BY DEF Copies!Owned
<1>4. f >= f /\ copies[f] # Copies!NoFile
  BY <1>3 DEF BackupBounds, Copies!Files, Copies!NoFile
<1> QED BY <1>2, <1>3, <1>4 DEF Covers

\* No step takes away a copy that is not complete.
LEMMA UnfinishedCopiesStay ==
  ASSUME BackupNames, BackupBounds, Keep \in Nat, BackupKeeps, [Copies!Next]_(Copies!vars),
         NEW f \in Copies!Files, copies[f].state \in {"partial", "plain"}
  PROVE  copies'[f] # Copies!NoFile
<1>1. /\ copies \in [Copies!Files -> CopyFiles] /\ op \in [Copies!Processes -> CopyOps]
      /\ f \notin Copies!Owned /\ copies[f] # Copies!NoFile /\ f >= f
  BY DEF BackupKeeps, BackupInv, BackupTyped, Copies!Owned, Copies!NoFile, BackupBounds, Copies!Files
<1>2. CASE copies' = copies
  BY <1>1, <1>2
<1>3. ASSUME NEW p \in Copies!Processes, Copies!Cleanup(p) \/ Copies!RestoreCleanup(p)
      PROVE  copies'[f] # Copies!NoFile
  <2>1. copies'[f] = copies[f]
    BY <1>1, <1>3, CleanupSpares DEF BackupKeeps
  <2> QED BY <1>1, <2>1
<1>4. ASSUME NEW p \in Copies!Processes, Copies!CopyDatabase(p) PROVE copies'[f] # Copies!NoFile
  <2>1. PICK g \in Copies!Unused, st \in {"plain", "partial"} :
          copies' = [copies EXCEPT ![g] = [state |-> st, db |-> db]]
    BY <1>4 DEF Copies!CopyDatabase
  <2>2. f # g
    BY <1>1 DEF Copies!Unused
  <2> QED BY <1>1, <2>1, <2>2
<1>5. ASSUME NEW p \in Copies!Processes, Copies!WriteMetadata(p) PROVE copies'[f] # Copies!NoFile
  <2>1. copies' = copies \/ copies' = [copies EXCEPT ![op[p].file].state = "whole"]
    BY <1>5 DEF Copies!WriteMetadata
  <2>2. copies[f] \in [state : {"partial", "plain", "whole"}, db : Copies!Database]
    BY <1>1 DEF CopyFiles
  <2> QED BY <1>1, <2>1, <2>2 DEF Copies!NoFile
<1> QED BY <1>2, <1>3, <1>4, <1>5
  DEF Copies!Next, Copies!OperationStep, Copies!vars, Copies!AppUp, Copies!Write, Copies!StartWork,
      Copies!EndWork, Copies!Enqueue, Copies!CancelItem, Copies!Claim, Copies!WorkerStarts,
      Copies!WorkerEnds, Copies!OutsiderWrites, Copies!Die, Copies!BeginCopy, Copies!RestoreBegins, Copies!CheckWork,
      Copies!CheckQueue, Copies!PageCopy, Copies!FinishRestore

\* The composition's steps are the backups' steps, or leave the backups alone.
LEMMA CopiesPart == Spec => Copies!Spec
<1>1. Init => Copies!Init
  BY DEF Init
<1>2. [Next]_vars => [Copies!Next]_(Copies!vars)
  <2>1. UNCHANGED backup => UNCHANGED Copies!vars
    BY DEF backup, Copies!vars, Copies!procs
  <2> QED BY <2>1 DEF Next, Only, vars
<1> QED BY <1>1, <1>2, PTL DEF Spec, Copies!Spec

\* A restore has the database to itself, also against a command line process and the queue
\* worker, and the owner works with what it brought; what it replaced, and every copy that is
\* being written, is kept: restore_backup and backup_service.rs for any number of versions and
\* copies, and any BACKUP_KEEP_COUNT.
THEOREM RestoresAreSafe == Spec => RestoreIsSafe
<1>0. BackupNames /\ BackupBounds /\ Keep \in Nat
  BY PartsAssumption, NamesAssumption DEF BackupNames, BackupBounds
<1>1. Copies!Init => BackupKeeps
  <2>1. Copies!Init => SafetyCopyIsKept
    BY DEF Copies!Init, SafetyCopyIsKept, Copies!NoOp
  <2> QED BY <1>0, <2>1, BackupInit DEF BackupKeeps
<1>2. BackupKeeps /\ [Copies!Next]_(Copies!vars) => BackupKeeps'
  BY <1>0, BackupSteps
<1>3. BackupKeeps => (part = "backup" => Copies!RestoreIsSafe)
  <2> SUFFICES ASSUME BackupInv PROVE Copies!RestoreIsSafe
    BY DEF BackupKeeps
  <2> USE <1>0 DEF BackupInv
  <2>1. Copies!BackupTypeOK
    BY DEF BackupTyped, Copies!BackupTypeOK, CopyFiles, CopyOps
  <2>2. Copies!RestoreIsAlone
    BY DEF BackupNames, BackupTyped, LocksAreHeld, ChecksHold, Copies!RestoreIsAlone,
           Copies!Processes
  <2>3. Copies!CacheIsCurrent
    BY DEF CacheHolds, Copies!CacheIsCurrent, BackupTyped
  <2> QED BY <2>1, <2>2, <2>3 DEF Copies!RestoreIsSafe
<1>4. BackupKeeps /\ [Copies!Next]_(Copies!vars) =>
        [\A p \in Copies!Processes : op[p].pc = "page" /\ op'[p].pc = "finish" /\ ~foreign =>
           \E f \in Copies!Files : copies[f].state = "whole" /\ copies[f].db.data = db.data]_(Copies!vars)
  BY <1>0, PageCopyIsCovered
<1>5. BackupKeeps /\ [Copies!Next]_(Copies!vars) =>
        [\A f \in Copies!Files :
           copies[f].state \in {"partial", "plain"} => copies'[f] # Copies!NoFile]_(Copies!vars)
  BY <1>0, UnfinishedCopiesStay
<1>6. Copies!Spec => []BackupKeeps
  BY <1>1, <1>2, PTL DEF Copies!Spec
<1>7. Copies!Spec => Copies!ReplacedDataIsKept
  BY <1>4, <1>6, PTL DEF Copies!Spec, Copies!ReplacedDataIsKept
<1>8. Copies!Spec => Copies!NoCopyIsPulledAway
  BY <1>5, <1>6, PTL DEF Copies!Spec, Copies!NoCopyIsPulledAway
<1> QED BY <1>3, <1>6, <1>7, <1>8, CopiesPart, PTL DEF RestoreIsSafe, Copies!BackupsAreKept

----------------------------------------------------------------------------
\* A download's result on its way to the notification, for any capacity, jobs and changes.

EventsBounds == MaxJobs \in Nat /\ MaxEpoch \in Nat /\ Capacity \in Nat \ {0}

Messages ==
  [kind : {"clear"}, of : Events!Epochs] \cup [kind : {"snapshot"}, on : BOOLEAN]
    \cup [kind : {"downloads"}, jobs : SUBSET Events!Jobs]

\* Each job has one task, and it has not ended while that task runs; a token is not newer than
\* the end of its job.
TasksAreOrdered ==
  \A r \in Events!Reporters :
    /\ reporter[r].token <= epoch
    /\ reporter[r].pc = "run" => reporter[r].job \in Events!Jobs /\ ended[reporter[r].job] = Events!Pending
    /\ reporter[r].pc = "ended" => /\ reporter[r].job \in Events!Jobs /\ ~reporter[r].running
                                   /\ ended[reporter[r].job] \in reporter[r].token .. epoch
    /\ \A s \in Events!Reporters :
         reporter[r].pc = "run" /\ reporter[s].pc = "run" /\ reporter[r].job = reporter[s].job => r = s

\* An entry of the channel carries the epoch in which its job ended.
RingIsOrdered == \A i \in 1 .. Len(ring) : ring[i][2] <= epoch /\ ended[ring[i][1]] = ring[i][2]

\* Whoever has read the first i - 1 messages of m has notifications off.
OffBefore(m, en, i) ==
  \/ en = FALSE /\ \A l \in 1 .. i - 1 : m[l].kind # "snapshot"
  \/ \E k \in 1 .. i - 1 : /\ m[k].kind = "snapshot" /\ m[k].on = FALSE
                           /\ \A l \in k + 1 .. i - 1 : m[l].kind # "snapshot"

\* The window reads the generations in their order: a result ended after every generation
\* announced before it, and in one with notifications unless the window has them off by then.
MailIsOrdered ==
  /\ mail \in Seq(Messages)
  /\ era <= epoch
  /\ \A i \in 1 .. Len(mail) : mail[i].kind = "clear" => mail[i].of <= epoch
  /\ \A i \in 1 .. Len(mail) : mail[i].kind = "downloads" =>
       \A j \in mail[i].jobs :
         /\ ended[j] \in Events!Epochs /\ ended[j] <= epoch /\ ended[j] >= era
         /\ \A k \in 1 .. i - 1 : mail[k].kind = "clear" => ended[j] >= mail[k].of
         /\ TRUE \in inForce[ended[j]] \/ OffBefore(mail, enabled, i)
  /\ TRUE \in inForce[epoch] \/ OffBefore(mail, enabled, Len(mail) + 1)

\* The setting in force is one of its epoch's, but while a change is under way.
SettingIsInForce == IF change = "idle" THEN on \in inForce[epoch] ELSE epoch < MaxEpoch

\* What the window has taken belongs to a past or present epoch.
NoticesHaveEnded == \A j \in notices \cup shown : ended[j] \in Events!Epochs /\ ended[j] <= epoch

EventsInv ==
  /\ Events!EventsTypeOK /\ TasksAreOrdered /\ RingIsOrdered /\ MailIsOrdered
  /\ SettingIsInForce /\ NoticesHaveEnded /\ Events!NoticesAreOfThisEra /\ Events!NothingIsReplayed

\* One message more changes nothing for those before it.
LEMMA OffAppend ==
  ASSUME NEW m \in Seq(Messages), NEW x \in Messages, NEW en \in BOOLEAN, NEW i \in 1 .. Len(m) + 1
  PROVE  OffBefore(m, en, i) <=> OffBefore(Append(m, x), en, i)
<1>1. \A l \in 1 .. Len(m) : Append(m, x)[l] = m[l]
  OBVIOUS
<1>2. \A l \in 1 .. i - 1 : l \in 1 .. Len(m)
  OBVIOUS
<1> QED BY <1>1, <1>2 DEF OffBefore

\* Reading a message moves what it switches off into the window.
LEMMA OffTail ==
  ASSUME NEW m \in Seq(Messages), m # <<>>, NEW en \in BOOLEAN, NEW i \in 1 .. Len(m),
         NEW en2 \in BOOLEAN, en2 = (IF Head(m).kind = "snapshot" THEN Head(m).on ELSE en),
         OffBefore(m, en, i + 1)
  PROVE  OffBefore(Tail(m), en2, i)
<1>1. /\ Len(Tail(m)) = Len(m) - 1 /\ Head(m) = m[1]
      /\ \A l \in 1 .. Len(m) - 1 : Tail(m)[l] = m[l + 1]
  OBVIOUS
<1>2. CASE en = FALSE /\ \A l \in 1 .. i : m[l].kind # "snapshot"
  <2>1. \A l \in 1 .. i - 1 : Tail(m)[l].kind # "snapshot"
    BY <1>1, <1>2
  <2> QED BY <1>1, <1>2, <2>1 DEF OffBefore
<1>3. ASSUME NEW k \in 1 .. i, m[k].kind = "snapshot", m[k].on = FALSE,
             \A l \in k + 1 .. i : m[l].kind # "snapshot"
      PROVE  OffBefore(Tail(m), en2, i)
  <2>1. CASE k = 1
    <3>1. \A l \in 1 .. i - 1 : Tail(m)[l].kind # "snapshot"
      BY <1>1, <1>3, <2>1
    <3> QED BY <1>1, <1>3, <2>1, <3>1 DEF OffBefore
  <2>2. CASE k # 1
    <3>1. k - 1 \in 1 .. i - 1 /\ Tail(m)[k - 1] = m[k]
      BY <1>1, <2>2
    <3>2. \A l \in (k - 1) + 1 .. i - 1 : Tail(m)[l].kind # "snapshot"
      BY <1>1, <1>3, <2>2
    <3> QED BY <1>3, <3>1, <3>2 DEF OffBefore
  <2> QED BY <2>1, <2>2
<1>4. (i + 1) - 1 = i
  OBVIOUS
<1> QED BY <1>2, <1>3, <1>4 DEF OffBefore

\* A reporter between two jobs keeps a token of an epoch.
LEMMA IdleTyped ==
  ASSUME NEW t \in Events!Epochs, MaxJobs \in Nat
  PROVE  Events!Idle(t) \in [pc : {"none", "run", "ended"}, job : 0 .. MaxJobs, running : BOOLEAN,
                             token : Events!Epochs]
  BY DEF Events!Idle

\* The invariant holds when the program starts.
LEMMA EventsInit ==
  ASSUME EventsBounds
  PROVE  Events!Init => EventsInv
<1> SUFFICES ASSUME Events!Init PROVE EventsInv
  OBVIOUS
<1> USE DEF Events!Init, EventsBounds
<1>1. /\ reporter = [r \in Events!Reporters |-> Events!NoJob]
      /\ ended = [j \in Events!Jobs |-> Events!Pending]
      /\ Events!Pending \in 0 .. Events!Pending /\ 0 \in Events!Epochs /\ epoch = 0 /\ on \in BOOLEAN
  BY DEF Events!Pending, Events!Epochs
<1>2. Events!EventsTypeOK
  <2>1. enabled \in BOOLEAN /\ on \in BOOLEAN
    BY Zenon
  <2>2. reporter \in [Events!Reporters -> [pc : {"none", "run", "ended"}, job : 0 .. MaxJobs,
                                running : BOOLEAN, token : Events!Epochs]]
    BY <1>1, IdleTyped DEF Events!NoJob
  <2>3. ended \in [Events!Jobs -> 0 .. Events!Pending] /\ inForce \in [Events!Epochs -> SUBSET BOOLEAN]
    BY <1>1
  <2>4. ring \in Seq(Events!Jobs \X Events!Epochs) /\ Len(ring) <= Capacity
    OBVIOUS
  <2> QED BY <1>1, <2>1, <2>2, <2>3, <2>4 DEF Events!EventsTypeOK
<1>3. TasksAreOrdered /\ RingIsOrdered
  BY <1>1 DEF TasksAreOrdered, RingIsOrdered, Events!NoJob, Events!Idle
<1>4. MailIsOrdered
  <2>1. Events!Snapshot(on) \in Messages /\ Events!Snapshot(on).kind = "snapshot"
    BY <1>1 DEF Events!Snapshot, Messages
  <2>2. mail \in Seq(Messages) /\ Len(mail) = 1 /\ mail[1].kind = "snapshot" /\ mail[1].on = on
    BY <2>1 DEF Events!Snapshot
  <2>3. inForce[epoch] = {on}
    BY <1>1
  <2>6. /\ \A i \in 1 .. Len(mail) : mail[i].kind = "snapshot"
        /\ Len(mail) + 1 = 2 /\ era <= epoch
    BY <1>1, <2>2
  <2>4. CASE on = FALSE
    <3>1. OffBefore(mail, enabled, 2)
      BY <2>2, <2>4 DEF OffBefore
    <3> QED BY <1>1, <2>2, <2>6, <3>1 DEF MailIsOrdered
  <2>5. CASE on = TRUE
    BY <1>1, <2>2, <2>3, <2>5, <2>6 DEF MailIsOrdered
  <2> QED BY <1>1, <2>4, <2>5
<1>5. SettingIsInForce /\ NoticesHaveEnded /\ Events!NoticesAreOfThisEra /\ Events!NothingIsReplayed
  BY <1>1 DEF SettingIsInForce, NoticesHaveEnded, Events!NoticesAreOfThisEra,
              Events!NothingIsReplayed
<1> QED BY <1>2, <1>3, <1>4, <1>5 DEF EventsInv

\* Whose end is recorded was running: nothing that was told, sent or published changes.
LEMMA MailKept ==
  ASSUME EventsBounds, EventsInv, UNCHANGED <<epoch, mail, era, enabled, inForce>>,
         \A j \in Events!Jobs : ended[j] # Events!Pending => ended'[j] = ended[j]
  PROVE  MailIsOrdered'
<1> USE DEF EventsInv, MailIsOrdered
<1>1. \A i \in 1 .. Len(mail) : mail[i].kind = "downloads" => mail[i].jobs \subseteq Events!Jobs
  BY DEF Messages
<1>2. \A j \in Events!Jobs : ended[j] \in Events!Epochs => ended'[j] = ended[j]
  BY DEF EventsBounds, Events!Epochs, Events!Pending
<1>3. mail' = mail /\ enabled' = enabled /\ epoch' = epoch /\ era' = era /\ inForce' = inForce
  OBVIOUS
<1> QED BY <1>1, <1>2, <1>3

\* A step of a job's end changes no result that ended before it.
NoticesAreKept ==
  /\ UNCHANGED <<epoch, on, change, era, notices, shown, inForce>>
  /\ \A j \in Events!Jobs : ended[j] # Events!Pending => ended'[j] = ended[j]

\* Such a step leaves what waits and what was shown as it is.
LEMMA NoticesStay ==
  ASSUME EventsBounds, EventsInv, NoticesAreKept
  PROVE  (SettingIsInForce /\ NoticesHaveEnded /\ Events!NoticesAreOfThisEra /\ Events!NothingIsReplayed)'
<1>1. \A j \in notices \cup shown : ended'[j] = ended[j]
  BY DEF EventsBounds, EventsInv, Events!EventsTypeOK, NoticesHaveEnded, NoticesAreKept,
         Events!Epochs, Events!Pending
<1> QED BY <1>1 DEF EventsInv, NoticesAreKept, SettingIsInForce, NoticesHaveEnded,
                    Events!NoticesAreOfThisEra, Events!NothingIsReplayed

\* A job that starts, ends or reports keeps the invariant.
LEMMA JobSteps ==
  ASSUME EventsBounds, EventsInv, NEW r \in Events!Reporters,
         \/ \E j \in Events!Jobs : Events!Start(r, j) \/ Events!FailStart(j)
         \/ Events!End(r) \/ Events!Publish(r)
  PROVE  EventsInv'
<1> USE DEF EventsBounds, EventsInv, Events!channel, Events!window
<1>0. /\ epoch \in 0 .. MaxEpoch /\ Queue \in Events!Reporters
      /\ \A j \in Events!Jobs : ended[j] \in 0 .. MaxEpoch + 1
      /\ \A s \in Events!Reporters : reporter[s] \in [pc : {"none", "run", "ended"}, job : 0 .. MaxJobs,
                                           running : BOOLEAN, token : Events!Epochs]
  BY DEF Events!EventsTypeOK, Events!Epochs, Events!Pending, Events!Reporters
<1>1. ASSUME NEW j \in Events!Jobs, Events!Start(r, j) PROVE EventsInv'
  <2> USE <1>1 DEF Events!Start
  <2>1. ended[j] = Events!Pending /\ \A s \in Events!Reporters : reporter[s].job # j
    BY DEF Events!NextJob, Events!Begun
  <2>2. reporter'[r] = [pc |-> "run", job |-> j, running |-> TRUE, token |-> epoch]
        /\ \A s \in Events!Reporters \ {r} : reporter'[s] = reporter[s]
    BY DEF Events!EventsTypeOK
  <2>3. Events!EventsTypeOK'
    BY <1>0 DEF Events!EventsTypeOK, Events!Jobs, Events!Epochs
  <2>4. TasksAreOrdered'
    BY <1>0, <2>1, <2>2 DEF TasksAreOrdered, Events!Epochs
  <2>5. RingIsOrdered'
    BY DEF RingIsOrdered
  <2>6. MailIsOrdered'
    BY MailKept
  <2> QED BY <2>3, <2>4, <2>5, <2>6 DEF SettingIsInForce, NoticesHaveEnded,
                                        Events!NoticesAreOfThisEra, Events!NothingIsReplayed
<1>2. ASSUME NEW j \in Events!Jobs, Events!FailStart(j) PROVE EventsInv'
  <2> USE <1>2 DEF Events!FailStart
  <2>1. ended[j] = Events!Pending /\ \A s \in Events!Reporters : reporter[s].job # j
    BY DEF Events!NextJob, Events!Begun
  <2>2. reporter'[Queue] = [pc |-> "ended", job |-> j, running |-> FALSE, token |-> epoch]
        /\ \A s \in Events!Reporters \ {Queue} : reporter'[s] = reporter[s]
    BY <1>0 DEF Events!EventsTypeOK
  <2>3. ended'[j] = epoch /\ \A k \in Events!Jobs \ {j} : ended'[k] = ended[k]
    BY DEF Events!EventsTypeOK
  <2>4. Events!EventsTypeOK'
    BY <1>0 DEF Events!EventsTypeOK, Events!Jobs, Events!Epochs, Events!Pending
  <2>5. TasksAreOrdered'
    BY <1>0, <2>1, <2>2, <2>3 DEF TasksAreOrdered, Events!Epochs, Events!Pending
  <2>6. RingIsOrdered'
    BY <1>0, <2>1, <2>3 DEF RingIsOrdered, Events!EventsTypeOK, Events!Pending
  <2>7. MailIsOrdered'
    BY <2>1, <2>3, MailKept
  <2>8. NoticesAreKept
    BY <2>1, <2>3 DEF NoticesAreKept
  <2> QED BY <2>4, <2>5, <2>6, <2>7, <2>8, NoticesStay
<1>3. CASE Events!End(r)
  <2> USE <1>3 DEF Events!End
  <2> DEFINE j == reporter[r].job
  <2>1. j \in Events!Jobs /\ ended[j] = Events!Pending
    BY DEF TasksAreOrdered
  <2>2. /\ \/ reporter'[r].pc = "ended" /\ reporter'[r].job = j /\ ~reporter'[r].running
           \/ reporter'[r].pc = "none"
        /\ reporter'[r].token = reporter[r].token
        /\ \A s \in Events!Reporters \ {r} : reporter'[s] = reporter[s]
    BY <1>0 DEF Events!EventsTypeOK, Events!Idle
  <2>3. ended'[j] = epoch /\ \A k \in Events!Jobs \ {j} : ended'[k] = ended[k]
    BY <2>1 DEF Events!EventsTypeOK
  <2>10. reporter' \in [Events!Reporters -> [pc : {"none", "run", "ended"}, job : 0 .. MaxJobs,
                                  running : BOOLEAN, token : Events!Epochs]]
    <3>1. CASE reporter' =
            [reporter EXCEPT ![r] = [pc |-> "ended", job |-> @.job, running |-> FALSE, token |-> @.token]]
      BY <1>0, <3>1 DEF Events!EventsTypeOK
    <3>2. CASE reporter' = [reporter EXCEPT ![r] = Events!Idle(reporter[r].token)]
      BY <1>0, <3>2, IdleTyped DEF Events!EventsTypeOK
    <3> QED BY <3>1, <3>2
  <2>11. lost' \subseteq Events!Jobs /\ ended' \in [Events!Jobs -> 0 .. Events!Pending]
    BY <1>0, <2>1 DEF Events!EventsTypeOK, Events!Pending
  <2>4. Events!EventsTypeOK'
    BY <2>10, <2>11 DEF Events!EventsTypeOK
  <2>5. TasksAreOrdered'
    BY <1>0, <2>1, <2>2, <2>3 DEF TasksAreOrdered, Events!Epochs, Events!Pending
  <2>6. RingIsOrdered'
    BY <1>0, <2>1, <2>3 DEF RingIsOrdered, Events!EventsTypeOK, Events!Pending
  <2>7. MailIsOrdered'
    BY <2>1, <2>3, MailKept
  <2>8. NoticesAreKept
    BY <2>1, <2>3 DEF NoticesAreKept
  <2> QED BY <2>4, <2>5, <2>6, <2>7, <2>8, NoticesStay
<1>4. CASE Events!Publish(r)
  <2> USE <1>4 DEF Events!Publish
  <2> DEFINE j == reporter[r].job
  <2>1. j \in Events!Jobs /\ ended[j] \in reporter[r].token .. epoch
    BY DEF TasksAreOrdered
  <2>2. /\ reporter'[r].pc = "none" /\ reporter'[r].token = reporter[r].token
        /\ \A s \in Events!Reporters \ {r} : reporter'[s] = reporter[s]
    BY <1>0 DEF Events!EventsTypeOK, Events!Idle
  <2>3. RingIsOrdered' /\ ring' \in Seq(Events!Jobs \X Events!Epochs) /\ Len(ring') <= Capacity
          /\ lost' \subseteq Events!Jobs
    <3>1. CASE reporter[r].token = epoch /\ Len(ring) = Capacity
      <4>1. /\ ring # <<>> /\ Head(ring)[1] \in Events!Jobs
            /\ <<j, epoch>> \in Events!Jobs \X Events!Epochs
        BY <2>1, <3>1 DEF Events!EventsTypeOK
      <4>2. /\ ring' = Append(Tail(ring), <<j, epoch>>) /\ lost' = lost \cup {Head(ring)[1]}
        BY <3>1 DEF Events!Send
      <4>3. \A i \in 1 .. Len(ring) - 1 : ring'[i] = ring[i + 1]
        BY <4>1, <4>2 DEF Events!EventsTypeOK
      <4>4. Len(ring') = Len(ring) /\ ring'[Len(ring)] = <<j, epoch>>
              /\ ring' \in Seq(Events!Jobs \X Events!Epochs)
        BY <4>1, <4>2 DEF Events!EventsTypeOK
      <4>5. \A i \in 1 .. Len(ring') : ring'[i][2] <= epoch' /\ ended'[ring'[i][1]] = ring'[i][2]
        <5>1. ASSUME NEW i \in 1 .. Len(ring) - 1
              PROVE  ring'[i][2] <= epoch /\ ended[ring'[i][1]] = ring'[i][2]
          <6>1. i + 1 \in 1 .. Len(ring)
            BY DEF Events!EventsTypeOK
          <6>2. ring[i + 1][2] <= epoch /\ ended[ring[i + 1][1]] = ring[i + 1][2]
            BY <6>1 DEF RingIsOrdered
          <6> QED BY <4>3, <6>2
        <5>2. ended[j] = epoch
          BY <1>0, <2>1, <3>1 DEF Events!Epochs
        <5>3. /\ epoch' = epoch /\ ended' = ended /\ epoch <= epoch
              /\ \A i \in 1 .. Len(ring') : i \in 1 .. Len(ring) - 1 \/ i = Len(ring)
          BY <4>4 DEF Events!EventsTypeOK, Events!Epochs, EventsBounds
        <5> QED BY <4>4, <5>1, <5>2, <5>3
      <4> QED BY <4>1, <4>2, <4>4, <4>5, <3>1 DEF RingIsOrdered, Events!EventsTypeOK
    <3>2. CASE reporter[r].token = epoch /\ Len(ring) # Capacity
      <4>1. <<j, epoch>> \in Events!Jobs \X Events!Epochs
        BY <2>1, <3>2 DEF Events!EventsTypeOK
      <4>2. ring' = Append(ring, <<j, epoch>>) /\ lost' = lost
        BY <3>2 DEF Events!Send
      <4>3. /\ Len(ring') = Len(ring) + 1 /\ ring' \in Seq(Events!Jobs \X Events!Epochs)
            /\ ring'[Len(ring) + 1] = <<j, epoch>> /\ \A i \in 1 .. Len(ring) : ring'[i] = ring[i]
        BY <4>1, <4>2 DEF Events!EventsTypeOK
      <4> QED BY <1>0, <2>1, <3>2, <4>1, <4>2, <4>3 DEF RingIsOrdered, Events!EventsTypeOK,
                                                        Events!Epochs
    <3>3. CASE reporter[r].token # epoch
      BY <3>3 DEF RingIsOrdered, Events!EventsTypeOK
    <3> QED BY <3>1, <3>2, <3>3
  <2>10. reporter' \in [Events!Reporters -> [pc : {"none", "run", "ended"}, job : 0 .. MaxJobs,
                                  running : BOOLEAN, token : Events!Epochs]]
    BY <1>0, IdleTyped DEF Events!EventsTypeOK
  <2>4. Events!EventsTypeOK'
    BY <2>3, <2>10 DEF Events!EventsTypeOK
  <2>5. TasksAreOrdered'
    BY <1>0, <2>1, <2>2 DEF TasksAreOrdered, Events!Epochs
  <2>6. MailIsOrdered'
    BY MailKept
  <2> QED BY <2>3, <2>4, <2>5, <2>6 DEF SettingIsInForce, NoticesHaveEnded,
                                        Events!NoticesAreOfThisEra, Events!NothingIsReplayed
<1> QED BY <1>1, <1>2, <1>3, <1>4

\* A message that is no snapshot leaves notifications off.
LEMMA OffNext ==
  ASSUME NEW m \in Seq(Messages), NEW en \in BOOLEAN, NEW i \in 1 .. Len(m),
         m[i].kind # "snapshot", OffBefore(m, en, i)
  PROVE  OffBefore(m, en, i + 1)
<1>1. (i + 1) - 1 = i
  OBVIOUS
<1>2. CASE en = FALSE /\ \A l \in 1 .. i - 1 : m[l].kind # "snapshot"
  <2>1. \A l \in 1 .. i : m[l].kind # "snapshot"
    BY <1>2
  <2> QED BY <1>1, <1>2, <2>1 DEF OffBefore
<1>3. CASE \E k \in 1 .. i - 1 : /\ m[k].kind = "snapshot" /\ m[k].on = FALSE
                                /\ \A l \in k + 1 .. i - 1 : m[l].kind # "snapshot"
  <2>1. PICK k \in 1 .. i - 1 : /\ m[k].kind = "snapshot" /\ m[k].on = FALSE
                               /\ \A l \in k + 1 .. i - 1 : m[l].kind # "snapshot"
    BY <1>3
  <2>2. k \in 1 .. i /\ \A l \in k + 1 .. i : m[l].kind # "snapshot"
    BY <2>1
  <2> QED BY <1>1, <2>1, <2>2 DEF OffBefore
<1> QED BY <1>2, <1>3 DEF OffBefore

\* A snapshot with notifications off switches them off.
LEMMA OffSnapshot ==
  ASSUME NEW m \in Seq(Messages), NEW en \in BOOLEAN, NEW i \in 1 .. Len(m),
         m[i].kind = "snapshot", m[i].on = FALSE
  PROVE  OffBefore(m, en, i + 1)
<1>1. (i + 1) - 1 = i
  OBVIOUS
<1> QED BY <1>1 DEF OffBefore

\* What the messages of an ordered mail say, in a form the steps below use.
LEMMA MailSays ==
  ASSUME EventsBounds, EventsInv
  PROVE  /\ mail \in Seq(Messages) /\ epoch \in 0 .. MaxEpoch /\ enabled \in BOOLEAN
         /\ \A i \in 1 .. Len(mail) : mail[i] \in Messages
         /\ \A i \in 1 .. Len(mail) : mail[i].kind = "downloads" => mail[i].jobs \subseteq Events!Jobs
         /\ \A i \in 1 .. Len(mail) : mail[i].kind = "clear" => mail[i].of \in Events!Epochs
         /\ \A i \in 1 .. Len(mail) : mail[i].kind = "snapshot" => mail[i].on \in BOOLEAN
<1>1. mail \in Seq(Messages) /\ epoch \in 0 .. MaxEpoch /\ enabled \in BOOLEAN
  BY DEF EventsInv, Events!EventsTypeOK, MailIsOrdered, Events!Epochs
<1>2. \A i \in 1 .. Len(mail) : mail[i] \in Messages
  BY <1>1
<1>3. \A x \in Messages : /\ x.kind = "downloads" => x.jobs \subseteq Events!Jobs
                          /\ x.kind = "clear" => x.of \in Events!Epochs
                          /\ x.kind = "snapshot" => x.on \in BOOLEAN
  BY DEF Messages
<1> QED BY <1>1, <1>2, <1>3

\* A new epoch: nothing that has ended belongs to it.
LEMMA NewEpochSteps ==
  ASSUME EventsBounds, EventsInv, change # "idle", Events!NewEpoch
  PROVE  /\ epoch' = epoch + 1 /\ epoch' \in Events!Epochs
         /\ (RingIsOrdered /\ MailIsOrdered /\ SettingIsInForce)'
         /\ (NoticesHaveEnded /\ Events!NoticesAreOfThisEra /\ Events!NothingIsReplayed)'
         /\ inForce' \in [Events!Epochs -> SUBSET BOOLEAN]
<1> USE DEF EventsBounds, EventsInv, Events!channel
<1>1. /\ epoch \in Events!Epochs /\ epoch' = epoch + 1 /\ epoch' \in Events!Epochs /\ on \in BOOLEAN
      /\ on' = on
      /\ ended' = ended /\ notices' = notices /\ shown' = shown /\ era' = era /\ enabled' = enabled
      /\ ring' = ring /\ change' = "idle"
  BY DEF Events!EventsTypeOK, SettingIsInForce, Events!NewEpoch, Events!Epochs
<1>2. inForce'[epoch'] = {on} /\ \A e \in Events!Epochs : e <= epoch => inForce'[e] = inForce[e]
  BY <1>1 DEF Events!EventsTypeOK, Events!NewEpoch, Events!Epochs
<1>3. inForce' \in [Events!Epochs -> SUBSET BOOLEAN]
  <2>1. {on} \in SUBSET BOOLEAN
    BY <1>1
  <2> QED BY <1>1, <2>1 DEF Events!EventsTypeOK, Events!NewEpoch
<1>4. RingIsOrdered'
  BY <1>1 DEF RingIsOrdered, Events!EventsTypeOK, Events!Epochs
<1>5. (NoticesHaveEnded /\ Events!NoticesAreOfThisEra /\ Events!NothingIsReplayed)'
  <2>1. ASSUME NEW j \in notices \cup shown
        PROVE  ended[j] \in Events!Epochs /\ ended[j] <= epoch /\ ended[j] <= epoch'
                 /\ inForce'[ended[j]] = inForce[ended[j]]
    <3>1. ended[j] \in Events!Epochs /\ ended[j] <= epoch
      BY DEF NoticesHaveEnded
    <3> QED BY <1>1, <1>2, <3>1 DEF Events!Epochs
  <2>2. NoticesHaveEnded'
    BY <1>1, <2>1 DEF NoticesHaveEnded
  <2>3. Events!NoticesAreOfThisEra'
    BY <1>1, <2>1 DEF Events!NoticesAreOfThisEra
  <2>4. Events!NothingIsReplayed'
    BY <1>1, <2>1 DEF Events!NothingIsReplayed
  <2> QED BY <2>2, <2>3, <2>4
<1>6. SettingIsInForce'
  BY <1>1, <1>2 DEF SettingIsInForce
<1>7. MailIsOrdered'
  <2> DEFINE a == Events!Clear(epoch')
             b == Events!Snapshot(on)
             m == Append(mail, a)
             L == Len(mail)
  <2>1. a \in Messages /\ b \in Messages /\ a.kind = "clear" /\ a.of = epoch' /\ b.kind = "snapshot"
          /\ b.on = on
    BY <1>1 DEF Events!Clear, Events!Snapshot, Messages
  <2>2. mail \in Seq(Messages) /\ m \in Seq(Messages) /\ L \in Nat
    BY <2>1, MailSays
  <2> HIDE DEF a, b
  <2>3. mail' = Append(m, b) /\ mail' \in Seq(Messages)
    BY <2>1, <2>2 DEF Events!NewEpoch, a, b
  <2>4. /\ Len(mail') = L + 2 /\ mail'[L + 1] = a /\ mail'[L + 2] = b
        /\ \A i \in 1 .. L : mail'[i] = mail[i]
    BY <2>1, <2>2, <2>3
  <2>5. ASSUME NEW i \in 1 .. L
        PROVE  OffBefore(mail, enabled, i) <=> OffBefore(mail', enabled, i)
    <3>1. i \in 1 .. Len(mail) + 1 /\ i \in 1 .. Len(m) + 1 /\ enabled \in BOOLEAN
      BY <2>1, <2>2, MailSays
    <3>2. OffBefore(mail, enabled, i) <=> OffBefore(m, enabled, i)
      BY <2>1, <2>2, <3>1, OffAppend
    <3>3. OffBefore(m, enabled, i) <=> OffBefore(Append(m, b), enabled, i)
      BY <2>1, <2>2, <3>1, OffAppend
    <3> QED BY <2>3, <3>2, <3>3
  <2>6. ASSUME NEW i \in 1 .. L + 2, mail'[i].kind = "downloads", NEW j \in mail'[i].jobs
        PROVE  /\ ended[j] \in Events!Epochs /\ ended[j] <= epoch' /\ ended[j] >= era
               /\ \A k \in 1 .. i - 1 : mail'[k].kind = "clear" => ended[j] >= mail'[k].of
               /\ TRUE \in inForce'[ended[j]] \/ OffBefore(mail', enabled, i)
    <3>1. i \in 1 .. L /\ \A k \in 1 .. i - 1 : k \in 1 .. L
      BY <2>1, <2>2, <2>4, <2>6
    <3>2. mail[i].kind = "downloads" /\ j \in mail[i].jobs
      BY <2>4, <2>6, <3>1
    <3>3. /\ ended[j] \in Events!Epochs /\ ended[j] <= epoch /\ ended[j] >= era
          /\ \A k \in 1 .. i - 1 : mail[k].kind = "clear" => ended[j] >= mail[k].of
          /\ TRUE \in inForce[ended[j]] \/ OffBefore(mail, enabled, i)
      BY <3>1, <3>2 DEF MailIsOrdered
    <3>4. ended[j] <= epoch' /\ inForce'[ended[j]] = inForce[ended[j]]
      BY <1>1, <1>2, <3>3 DEF Events!Epochs
    <3>5. \A k \in 1 .. i - 1 : mail'[k] = mail[k]
      BY <2>4, <3>1
    <3> QED BY <2>5, <3>1, <3>3, <3>4, <3>5
  <2>7. TRUE \in inForce'[epoch'] \/ OffBefore(mail', enabled, L + 3)
    <3>1. CASE on = TRUE
      BY <1>2, <3>1
    <3>2. CASE on = FALSE
      <4>1. L + 2 \in 1 .. Len(mail') /\ (L + 2) + 1 = L + 3 /\ enabled \in BOOLEAN
        BY <2>2, <2>4, MailSays
      <4> QED BY <2>1, <2>3, <2>4, <3>2, <4>1, OffSnapshot
    <3> QED BY <1>1, <3>1, <3>2
  <2>8. \A i \in 1 .. L + 2 : mail'[i].kind = "clear" => mail'[i].of <= epoch'
    <3>1. ASSUME NEW i \in 1 .. L, mail[i].kind = "clear" PROVE mail[i].of <= epoch'
      <4>1. mail[i].of <= epoch /\ mail[i].of \in Events!Epochs
        BY <3>1, MailSays DEF MailIsOrdered
      <4> QED BY <1>1, <4>1 DEF Events!Epochs
    <3>2. epoch' <= epoch'
      BY <1>1 DEF Events!Epochs
    <3>3. \A i \in 1 .. L + 2 : i \in 1 .. L \/ i = L + 1 \/ i = L + 2
      BY <2>2
    <3> QED BY <2>1, <2>4, <3>1, <3>2, <3>3
  <2>9. Len(mail') + 1 = L + 3 /\ era <= epoch'
    BY <1>1, <2>2, <2>4 DEF MailIsOrdered, Events!EventsTypeOK, Events!Epochs
  <2> QED BY <1>1, <2>3, <2>4, <2>6, <2>7, <2>8, <2>9 DEF MailIsOrdered
<1> QED BY <1>1, <1>3, <1>4, <1>5, <1>6, <1>7

\* A saved setting, a restore and the generation that follows keep the invariant.
LEMMA SettingSteps ==
  ASSUME EventsBounds, EventsInv,
    Events!Save \/ Events!Transition \/ Events!Restore \/ Events!Restored
  PROVE  EventsInv'
<1> USE DEF EventsBounds, Events!channel, Events!window
<1>1. CASE Events!Save \/ Events!Restore
  <2> USE <1>1 DEF Events!Save, Events!Restore
  <2>1. Events!EventsTypeOK' /\ TasksAreOrdered' /\ RingIsOrdered'
    BY DEF EventsInv, Events!EventsTypeOK, TasksAreOrdered, RingIsOrdered
  <2>2. MailIsOrdered'
    BY MailKept DEF EventsInv
  <2>3. SettingIsInForce' /\ NoticesHaveEnded' /\ Events!NoticesAreOfThisEra' /\ Events!NothingIsReplayed'
    BY DEF EventsInv, SettingIsInForce, NoticesHaveEnded, Events!NoticesAreOfThisEra,
           Events!NothingIsReplayed
  <2> QED BY <2>1, <2>2, <2>3 DEF EventsInv
<1>2. ASSUME change # "idle", Events!NewEpoch,
             reporter' = reporter \/ reporter' = Events!Rearm(reporter, epoch')
      PROVE  EventsInv'
  <2>1. /\ epoch' = epoch + 1 /\ epoch' \in Events!Epochs
        /\ inForce' \in [Events!Epochs -> SUBSET BOOLEAN]
        /\ (RingIsOrdered /\ MailIsOrdered /\ SettingIsInForce)'
        /\ (NoticesHaveEnded /\ Events!NoticesAreOfThisEra /\ Events!NothingIsReplayed)'
    BY <1>2, NewEpochSteps
  <2>2. reporter' \in [Events!Reporters -> [pc : {"none", "run", "ended"}, job : 0 .. MaxJobs,
                                 running : BOOLEAN, token : Events!Epochs]]
    BY <1>2, <2>1 DEF EventsInv, Events!EventsTypeOK, Events!Rearm
  <2>3. Events!EventsTypeOK'
    BY <1>2, <2>1, <2>2 DEF Events!NewEpoch, EventsInv, Events!EventsTypeOK
  <2>4. \A r \in Events!Reporters : /\ reporter'[r].pc = reporter[r].pc /\ reporter'[r].job = reporter[r].job
                                    /\ reporter'[r].running = reporter[r].running
                                    /\ reporter'[r] # reporter[r] =>
                                          reporter[r].running /\ reporter'[r].token = epoch'
    BY <1>2, <2>1 DEF EventsInv, Events!EventsTypeOK, Events!Rearm
  <2>5. ended' = ended /\ epoch \in Nat /\ \A j \in Events!Jobs : ended[j] \in 0 .. MaxEpoch + 1
    BY <1>2 DEF Events!NewEpoch, EventsInv, Events!EventsTypeOK, Events!Epochs, Events!Pending
  <2>6. TasksAreOrdered'
    BY <2>1, <2>4, <2>5 DEF EventsInv, Events!EventsTypeOK, TasksAreOrdered, Events!Epochs
  <2> QED BY <2>1, <2>3, <2>6 DEF EventsInv
<1>3. CASE Events!Transition
  BY <1>2, <1>3 DEF Events!Transition
<1>4. ASSUME Events!Restored, change' = "idle", inForce' = [inForce EXCEPT ![epoch] = @ \cup {on}],
             UNCHANGED <<epoch, on, reporter, Events!channel, Events!window, ended>>
      PROVE  EventsInv'
  <2> USE <1>4 DEF EventsInv
  <2>1. /\ epoch \in Events!Epochs /\ on \in BOOLEAN
        /\ \A e \in Events!Epochs : inForce[e] \subseteq inForce'[e] /\ on \in inForce'[epoch]
    BY DEF Events!EventsTypeOK
  <2>2. inForce' \in [Events!Epochs -> SUBSET BOOLEAN]
    <3>1. inForce[epoch] \cup {on} \in SUBSET BOOLEAN
      BY <2>1 DEF Events!EventsTypeOK
    <3> QED BY <2>1, <3>1 DEF Events!EventsTypeOK
  <2>3. Events!EventsTypeOK' /\ TasksAreOrdered' /\ RingIsOrdered'
    BY <2>2 DEF Events!EventsTypeOK, TasksAreOrdered, RingIsOrdered
  <2>4. SettingIsInForce' /\ NoticesHaveEnded' /\ Events!NoticesAreOfThisEra' /\ Events!NothingIsReplayed'
    BY <2>1 DEF SettingIsInForce, NoticesHaveEnded, Events!NoticesAreOfThisEra,
                Events!NothingIsReplayed
  <2>5. MailIsOrdered'
    BY <2>1 DEF MailIsOrdered
  <2> QED BY <2>3, <2>4, <2>5
<1>5. CASE Events!Restored
  BY <1>2, <1>4, <1>5 DEF Events!Restored
<1> QED BY <1>1, <1>3, <1>5

\* One more message, of the present epoch.
LEMMA MailGrows ==
  ASSUME EventsBounds, EventsInv, NEW x \in Messages, x.kind # "clear", mail' = Append(mail, x),
         UNCHANGED <<epoch, enabled, era, ended, inForce>>,
         x.kind = "snapshot" => x.on \in inForce[epoch],
         x.kind = "downloads" => \A j \in x.jobs : ended[j] = epoch
  PROVE  MailIsOrdered'
<1> DEFINE L == Len(mail)
<1>1. mail \in Seq(Messages) /\ L \in Nat /\ epoch \in 0 .. MaxEpoch /\ enabled \in BOOLEAN
  BY MailSays
<1>2. /\ mail' \in Seq(Messages) /\ Len(mail') = L + 1 /\ mail'[L + 1] = x
      /\ \A i \in 1 .. L : mail'[i] = mail[i]
  BY <1>1
<1>3. \A i \in 1 .. L + 1 : i \in 1 .. L \/ i = L + 1
  BY <1>1
<1>4. \A i \in 1 .. L + 1 : OffBefore(mail, enabled, i) => OffBefore(mail', enabled, i)
  BY <1>1, OffAppend
<1>5. TRUE \in inForce[epoch] \/ OffBefore(mail, enabled, L + 1)
  BY DEF EventsInv, MailIsOrdered
<1>6. era <= epoch /\ \A i \in 1 .. L : mail[i].kind = "clear" => mail[i].of <= epoch
  BY DEF EventsInv, MailIsOrdered
<1>7. ASSUME NEW i \in 1 .. L + 1, mail'[i].kind = "downloads", NEW j \in mail'[i].jobs
      PROVE  /\ ended[j] \in Events!Epochs /\ ended[j] <= epoch /\ ended[j] >= era
             /\ \A k \in 1 .. i - 1 : mail'[k].kind = "clear" => ended[j] >= mail'[k].of
             /\ TRUE \in inForce[ended[j]] \/ OffBefore(mail', enabled, i)
  <2>1. \A k \in 1 .. i - 1 : k \in 1 .. L /\ mail'[k] = mail[k]
    BY <1>1, <1>2
  <2>2. CASE i \in 1 .. L
    <3>1. /\ ended[j] \in Events!Epochs /\ ended[j] <= epoch /\ ended[j] >= era
          /\ \A k \in 1 .. i - 1 : mail[k].kind = "clear" => ended[j] >= mail[k].of
          /\ TRUE \in inForce[ended[j]] \/ OffBefore(mail, enabled, i)
      BY <1>2, <1>7, <2>2 DEF EventsInv, MailIsOrdered
    <3> QED BY <1>4, <2>1, <3>1
  <2>3. CASE i = L + 1
    <3>1. ended[j] = epoch
      BY <1>2, <1>7, <2>3
    <3>2. \A k \in 1 .. i - 1 : mail'[k].kind = "clear" => epoch >= mail'[k].of
      <4> TAKE k \in 1 .. i - 1
      <4>1. k \in 1 .. L /\ mail'[k] = mail[k] /\ (mail[k].kind = "clear" => mail[k].of \in Events!Epochs)
        BY <2>1, MailSays
      <4> QED BY <1>1, <1>6, <4>1 DEF Events!Epochs
    <3>3. epoch \in Events!Epochs /\ epoch <= epoch /\ epoch >= era
      BY <1>1, <1>6 DEF EventsInv, Events!EventsTypeOK, Events!Epochs
    <3> QED BY <1>4, <1>5, <2>3, <3>1, <3>2, <3>3
  <2> QED BY <1>3, <2>2, <2>3
<1>8. TRUE \in inForce[epoch] \/ OffBefore(mail', enabled, L + 2)
  <2>1. L + 1 \in 1 .. Len(mail') /\ (L + 1) + 1 = L + 2 /\ L + 1 \in 1 .. L + 1
    BY <1>1, <1>2
  <2>2. CASE x.kind = "snapshot"
    <3>1. CASE x.on = FALSE
      BY <1>1, <1>2, <2>1, <2>2, <3>1, OffSnapshot
    <3>2. CASE x.on # FALSE
      <4>1. x.on \in BOOLEAN
        BY <2>2 DEF Messages
      <4>2. x.on = TRUE
        BY <3>2, <4>1
      <4> QED BY <2>2, <4>2
    <3> QED BY <3>1, <3>2
  <2>3. CASE x.kind # "snapshot"
    <3>1. OffBefore(mail', enabled, L + 1) => OffBefore(mail', enabled, L + 2)
      BY <1>1, <1>2, <2>1, <2>3, OffNext
    <3> QED BY <1>4, <1>5, <2>1, <3>1
  <2> QED BY <2>2, <2>3
<1>9. \A i \in 1 .. L + 1 : mail'[i].kind = "clear" => mail'[i].of <= epoch
  BY <1>2, <1>3, <1>6
<1>10. Len(mail') + 1 = L + 2
  BY <1>1, <1>2
<1> QED BY <1>2, <1>6, <1>7, <1>8, <1>9, <1>10 DEF MailIsOrdered

\* A reload and a drained channel keep the invariant.
LEMMA MailSteps ==
  ASSUME EventsBounds, EventsInv, Events!Reload \/ Events!Drain
  PROVE  EventsInv'
<1> USE DEF Events!channel, Events!window
<1>1. CASE Events!Reload
  <2> USE <1>1 DEF Events!Reload
  <2>1. Events!Snapshot(on) \in Messages /\ Events!Snapshot(on).kind = "snapshot"
          /\ Events!Snapshot(on).on = on
    BY DEF Events!Snapshot, Messages, EventsInv, Events!EventsTypeOK
  <2>2. on \in inForce[epoch]
    BY DEF EventsInv, SettingIsInForce
  <2>3. MailIsOrdered'
    BY <2>1, <2>2, MailGrows
  <2>4. Events!EventsTypeOK' /\ TasksAreOrdered' /\ RingIsOrdered'
    BY DEF EventsInv, Events!EventsTypeOK, TasksAreOrdered, RingIsOrdered
  <2> QED BY <2>3, <2>4 DEF EventsInv, SettingIsInForce, NoticesHaveEnded,
                            Events!NoticesAreOfThisEra, Events!NothingIsReplayed
<1>2. CASE Events!Drain
  <2> USE <1>2 DEF Events!Drain
  <2> DEFINE fresh == {ring[i][1] : i \in {k \in DOMAIN ring : Events!Current(ring[k][2])}}
  <2>1. fresh \subseteq Events!Jobs /\ \A j \in fresh : ended[j] = epoch
    <3>1. \A i \in DOMAIN ring : i \in 1 .. Len(ring) /\ ring[i] \in Events!Jobs \X Events!Epochs
      BY DEF EventsInv, Events!EventsTypeOK
    <3> QED BY <3>1 DEF EventsInv, RingIsOrdered, Events!Current
  <2> HIDE DEF fresh
  <2>2. MailIsOrdered'
    <3>1. CASE mail' = mail
      BY <3>1, MailKept DEF EventsInv
    <3>2. CASE mail' = Append(mail, Events!Downloads(fresh))
      <4>1. /\ Events!Downloads(fresh) \in Messages /\ Events!Downloads(fresh).kind = "downloads"
            /\ Events!Downloads(fresh).jobs = fresh
        BY <2>1 DEF Events!Downloads, Messages
      <4> QED BY <2>1, <3>2, <4>1, MailGrows
    <3> QED BY <3>1, <3>2 DEF fresh
  <2>3. ring' \in Seq(Events!Jobs \X Events!Epochs) /\ Len(ring') <= Capacity /\ RingIsOrdered'
    BY DEF EventsBounds, RingIsOrdered
  <2>4. Events!EventsTypeOK' /\ TasksAreOrdered'
    BY <2>3 DEF EventsInv, Events!EventsTypeOK, TasksAreOrdered
  <2> QED BY <2>2, <2>3, <2>4 DEF EventsInv, SettingIsInForce, NoticesHaveEnded,
                                  Events!NoticesAreOfThisEra, Events!NothingIsReplayed
<1> QED BY <1>1, <1>2

\* A response that is read, and notices that are shown, keep the invariant.
LEMMA WindowSteps ==
  ASSUME EventsBounds, EventsInv, Events!Receive \/ Events!Show
  PROVE  EventsInv'
<1> USE DEF Events!channel, Events!window
<1>1. CASE Events!Receive
  <2> USE <1>1 DEF Events!Receive
  <2> DEFINE L == Len(mail)
  <2>1. /\ mail \in Seq(Messages) /\ mail # <<>> /\ L \in Nat \ {0} /\ Head(mail) = mail[1]
        /\ mail[1] \in Messages
        /\ mail' = Tail(mail) /\ mail' \in Seq(Messages) /\ Len(mail') = L - 1
        /\ \A i \in 1 .. L - 1 : mail'[i] = mail[i + 1] /\ i + 1 \in 1 .. L /\ (i + 1) - 1 = i
    BY MailSays
  <2>2. /\ mail[1].kind = "clear" => notices' = {} /\ era' = mail[1].of /\ enabled' = enabled
        /\ mail[1].kind = "snapshot" => enabled' = mail[1].on /\ notices' = notices /\ era' = era
        /\ mail[1].kind = "downloads" => /\ notices' = IF enabled THEN notices \cup mail[1].jobs ELSE notices
                                         /\ enabled' = enabled /\ era' = era
        /\ mail[1].kind \in {"clear", "snapshot", "downloads"}
    BY <2>1 DEF Messages
  <2>3. /\ mail[1].kind = "downloads" => mail[1].jobs \subseteq Events!Jobs
        /\ mail[1].kind = "clear" => mail[1].of \in Events!Epochs /\ mail[1].of <= epoch
        /\ mail[1].kind = "snapshot" => mail[1].on \in BOOLEAN
    <3>1. 1 \in 1 .. L
      BY <2>1
    <3>2. mail[1].kind = "clear" => mail[1].of <= epoch
      BY <3>1 DEF EventsInv, MailIsOrdered
    <3> QED BY <3>1, <3>2, MailSays
  <2>4. enabled \in BOOLEAN
          /\ enabled' = (IF Head(mail).kind = "snapshot" THEN Head(mail).on ELSE enabled)
    BY <2>1, <2>2, MailSays
  <2>5. enabled' \in BOOLEAN
    BY <2>1, <2>3, <2>4
  <2>6. era' \in Events!Epochs /\ era' <= epoch /\ notices' \subseteq Events!Jobs
    BY <2>2, <2>3 DEF EventsInv, Events!EventsTypeOK, MailIsOrdered
  <2>7. \A i \in 1 .. L : OffBefore(mail, enabled, i + 1) => OffBefore(mail', enabled', i)
    BY <2>1, <2>4, <2>5, OffTail
  <2>8. ASSUME NEW i \in 1 .. L - 1, mail'[i].kind = "downloads", NEW j \in mail'[i].jobs
        PROVE  /\ ended[j] \in Events!Epochs /\ ended[j] <= epoch /\ ended[j] >= era'
               /\ \A k \in 1 .. i - 1 : mail'[k].kind = "clear" => ended[j] >= mail'[k].of
               /\ TRUE \in inForce[ended[j]] \/ OffBefore(mail', enabled', i)
    <3>1. i + 1 \in 1 .. L /\ mail[i + 1].kind = "downloads" /\ j \in mail[i + 1].jobs /\ i \in 1 .. L
      BY <2>1, <2>8
    <3>2. /\ ended[j] \in Events!Epochs /\ ended[j] <= epoch /\ ended[j] >= era
          /\ \A k \in 1 .. (i + 1) - 1 : mail[k].kind = "clear" => ended[j] >= mail[k].of
          /\ TRUE \in inForce[ended[j]] \/ OffBefore(mail, enabled, i + 1)
      BY <3>1 DEF EventsInv, MailIsOrdered
    <3>3. ended[j] >= era'
      BY <2>1, <2>2, <3>2
    <3>4. ASSUME NEW k \in 1 .. i - 1, mail'[k].kind = "clear" PROVE ended[j] >= mail'[k].of
      <4>1. k \in 1 .. L - 1 /\ k + 1 \in 1 .. (i + 1) - 1
        BY <2>1
      <4> QED BY <2>1, <3>2, <3>4, <4>1
    <3> QED BY <2>7, <3>1, <3>2, <3>3, <3>4
  <2>9. TRUE \in inForce[epoch] \/ OffBefore(mail', enabled', L)
    <3>1. TRUE \in inForce[epoch] \/ OffBefore(mail, enabled, L + 1)
      BY DEF EventsInv, MailIsOrdered
    <3>2. L \in 1 .. L
      BY <2>1
    <3> QED BY <2>7, <3>1, <3>2
  <2>10. ASSUME NEW i \in 1 .. L - 1, mail'[i].kind = "clear" PROVE mail'[i].of <= epoch
    BY <2>1, <2>10 DEF EventsInv, MailIsOrdered
  <2>11. (L - 1) + 1 = L
    BY <2>1
  <2>12. MailIsOrdered'
    BY <2>1, <2>6, <2>8, <2>9, <2>10, <2>11 DEF MailIsOrdered
  <2>13. ASSUME NEW j \in notices' \ notices
         PROVE  ended[j] \in Events!Epochs /\ ended[j] <= epoch /\ ended[j] >= era'
                  /\ TRUE \in inForce[ended[j]]
    <3>4. mail[1].kind = "downloads"
      BY <2>2, <2>13
    <3>5. notices' = (IF enabled THEN notices \cup mail[1].jobs ELSE notices) /\ era' = era
      BY <2>2, <3>4
    <3>6. CASE enabled = FALSE
      BY <2>13, <3>5, <3>6
    <3>1. j \in mail[1].jobs /\ 1 \in 1 .. L
      BY <2>1, <2>13, <3>5
    <3>2. /\ ended[j] \in Events!Epochs /\ ended[j] <= epoch /\ ended[j] >= era
          /\ TRUE \in inForce[ended[j]] \/ OffBefore(mail, enabled, 1)
      BY <3>1, <3>4 DEF EventsInv, MailIsOrdered
    <3>3. OffBefore(mail, enabled, 1) => enabled = FALSE
      BY DEF OffBefore
    <3>7. CASE enabled # FALSE
      BY <3>2, <3>3, <3>5, <3>7
    <3> QED BY <3>6, <3>7
  <2>14. \A j \in notices' : j \in notices => era' = era
    BY <2>2
  <2>15. NoticesHaveEnded' /\ Events!NoticesAreOfThisEra' /\ Events!NothingIsReplayed'
    BY <2>13, <2>14 DEF EventsInv, NoticesHaveEnded, Events!NoticesAreOfThisEra,
                        Events!NothingIsReplayed
  <2>16. Events!EventsTypeOK'
    BY <2>5, <2>6 DEF EventsInv, Events!EventsTypeOK
  <2>17. TasksAreOrdered' /\ RingIsOrdered' /\ SettingIsInForce'
    BY DEF EventsInv, TasksAreOrdered, RingIsOrdered, SettingIsInForce
  <2> QED BY <2>12, <2>15, <2>16, <2>17 DEF EventsInv
<1>2. CASE Events!Show
  <2> USE <1>2 DEF Events!Show
  <2>1. MailIsOrdered'
    BY MailKept DEF EventsInv
  <2>2. Events!EventsTypeOK' /\ TasksAreOrdered' /\ RingIsOrdered' /\ SettingIsInForce'
    BY DEF EventsInv, Events!EventsTypeOK, TasksAreOrdered, RingIsOrdered, SettingIsInForce
  <2>3. NoticesHaveEnded' /\ Events!NoticesAreOfThisEra' /\ Events!NothingIsReplayed'
    BY DEF EventsInv, NoticesHaveEnded, Events!NoticesAreOfThisEra, Events!NothingIsReplayed
  <2> QED BY <2>1, <2>2, <2>3 DEF EventsInv
<1> QED BY <1>1, <1>2

\* A stuttering step keeps the invariant.
LEMMA EventsStay ==
  ASSUME EventsBounds, EventsInv, UNCHANGED Events!vars
  PROVE  EventsInv'
<1> USE DEF Events!vars, Events!channel, Events!window
<1>1. MailIsOrdered'
  BY MailKept DEF EventsInv
<1>2. Events!EventsTypeOK' /\ TasksAreOrdered' /\ RingIsOrdered' /\ SettingIsInForce'
  BY DEF EventsInv, Events!EventsTypeOK, TasksAreOrdered, RingIsOrdered, SettingIsInForce
<1>3. NoticesHaveEnded' /\ Events!NoticesAreOfThisEra' /\ Events!NothingIsReplayed'
  BY DEF EventsInv, NoticesHaveEnded, Events!NoticesAreOfThisEra, Events!NothingIsReplayed
<1> QED BY <1>1, <1>2, <1>3 DEF EventsInv

\* A behaviour of the composition is one of the downloads' results.
LEMMA EventsPart == Spec => Events!Spec
<1>1. Init => Events!Init
  BY DEF Init
<1>2. [Next]_vars => [Events!Next]_(Events!vars)
  <2>1. Next => Events!Next \/ UNCHANGED events
    BY DEF Next, Only
  <2>2. UNCHANGED vars => UNCHANGED events
    BY DEF vars
  <2>3. UNCHANGED events => UNCHANGED Events!vars
    BY DEF events, Events!vars, Events!channel, Events!window
  <2> QED BY <2>1, <2>2, <2>3
<1> QED BY <1>1, <1>2, PTL DEF Spec, Events!Spec

\* What waits to be shown, or was shown, ended in a time with notifications, and what waits is of
\* the generation the window knows of: download_events.rs for any number of managers and of
\* settings changes and restores, and any capacity of the channel.
THEOREM NoticesStayCurrent == Spec => []NoticesAreCurrent
<1>0. EventsBounds
  BY PartsAssumption DEF EventsBounds
<1>1. Events!Init => EventsInv
  BY <1>0, EventsInit
<1>2. EventsInv /\ [Events!Next]_(Events!vars) => EventsInv'
  <2> SUFFICES ASSUME EventsInv, [Events!Next]_(Events!vars) PROVE EventsInv'
    OBVIOUS
  <2>1. CASE \E p \in Providers, j \in Events!Jobs : Events!Start(p, j)
    BY <1>0, <2>1, JobSteps DEF Events!Reporters
  <2>2. CASE \E p \in Providers : Events!End(p)
    BY <1>0, <2>2, JobSteps DEF Events!Reporters
  <2>3. CASE \E j \in Events!Jobs : Events!FailStart(j)
    <3>1. Queue \in Events!Reporters
      BY DEF Events!Reporters
    <3> QED BY <1>0, <2>3, <3>1, JobSteps
  <2>4. CASE \E r \in Events!Reporters : Events!Publish(r)
    BY <1>0, <2>4, JobSteps
  <2>5. CASE Events!Save \/ Events!Transition \/ Events!Restore \/ Events!Restored
    BY <1>0, <2>5, SettingSteps
  <2>6. CASE Events!Reload \/ Events!Drain
    BY <1>0, <2>6, MailSteps
  <2>7. CASE Events!Receive \/ Events!Show
    BY <1>0, <2>7, WindowSteps
  <2>8. CASE UNCHANGED Events!vars
    BY <1>0, <2>8, EventsStay
  <2> QED BY <2>1, <2>2, <2>3, <2>4, <2>5, <2>6, <2>7, <2>8 DEF Events!Next
<1>3. EventsInv => NoticesAreCurrent
  BY DEF EventsInv, NoticesAreCurrent, Events!NoticesAreCurrent
<1> QED BY <1>1, <1>2, <1>3, EventsPart, PTL DEF Events!Spec

----------------------------------------------------------------------------
\* The settings, sessions and probes of a live channel, for any broadcasts, accounts and changes.

\* What a channel shows, and the records of a request.
ChannelShows  == {"UNKNOWN", "DISABLED", "OFFLINE", "PASSWORD_REQUIRED", "AUTH", "ERROR", "RECORDING"}
BroadcastOrNone == Sessions!Broadcasts \cup {Sessions!None}
StreamRequest == [bno : BroadcastOrNone, password : BroadcastOrNone, user : Sessions!Users,
                  naver : Sessions!NaverStates, worker : BOOLEAN]

\* What the type invariant does not say.
SessionsTyped ==
  /\ Sessions!SessionsTypeOK /\ request \in StreamRequest
  /\ status \in [shows : ChannelShows, bno : BroadcastOrNone]
  /\ display \in [shows : ChannelShows, bno : BroadcastOrNone]

\* The settings in force are those of an applied list: a SOOP channel of it has its Worker, and
\* the password of its account.
ConfigFollowsList ==
  /\ config.worker <=> Sessions!RequiresSoop(applied)
  /\ config.password = IF Sessions!RequiresSoop(applied) THEN config.user ELSE 0

\* The cookies are of the account in force, from the first login or the one a reload ends with.
CookiesFollowConfig ==
  platform = "SOOP" /\ applied /\ doing # "relogin" => config.user = 0 \/ session \in {0, config.user}

\* Only a channel of the applied list is probed; one that goes off meanwhile has been off.
ProbeIsOfTheList ==
  /\ doing \in {"page", "ask", "resolve"} => applied
  /\ doing = "page" => platform = "SOOP"
  /\ doing \in {"page", "ask"} /\ ~air.live => wasOff

\* A password that is held is the held broadcast's.
HeldIsOfItsBroadcast == held.password \in {Sessions!None, held.bno}

\* The inductive invariant of the sessions.
SessionsInv ==
  /\ SessionsTyped /\ ConfigFollowsList /\ CookiesFollowConfig /\ ProbeIsOfTheList /\ HeldIsOfItsBroadcast
  /\ Sessions!SessionIsTheConfigured /\ Sessions!RequestIsForItsBroadcast /\ Sessions!OfflineIsTrue

\* What the proofs need of the constants.
SessionBounds ==
  /\ Restricted \cup Guarded \subseteq 1 .. LastBroadcast
  /\ LastBroadcast \in Nat /\ LastUser \in Nat \ {0} /\ Retries \in Nat \ {0} /\ MaxChanges \in Nat

\* The invariant holds at first.
LEMMA SessionsInit ==
  ASSUME SessionBounds
  PROVE  Sessions!Init => SessionsInv
<1> SUFFICES ASSUME Sessions!Init PROVE SessionsInv
  OBVIOUS
<1> USE DEF SessionBounds, Sessions!None, Sessions!Broadcasts, Sessions!Users
<1>1. /\ platform \in {"SOOP", "CHZZK", "KICK"} /\ listed \in BOOLEAN /\ applied = listed
      /\ settings \in [user : {0, 1}, naver : {"Missing", "Configured"}, worker : {TRUE}]
      /\ noted = settings /\ config = Sessions!Loaded(listed)
      /\ air = [bno |-> 0, live |-> FALSE] /\ session = 0 /\ doing = "login" /\ attempts = 0
      /\ request = Sessions!Nothing /\ held = Sessions!NothingHeld /\ verdict = "NONE"
      /\ wasOff = TRUE /\ unclear = FALSE /\ status = [shows |-> "UNKNOWN", bno |-> 0] /\ display = status
      /\ recording = 0 /\ password = 0 /\ changes = 0
  BY DEF Sessions!Init
<1>2. settings.user \in 0 .. LastUser
        /\ settings \in [user : 0 .. LastUser, naver : Sessions!NaverStates, worker : BOOLEAN]
  <2>1. settings.user \in {0, 1} /\ settings.naver \in Sessions!NaverStates /\ settings.worker = TRUE
    BY <1>1 DEF Sessions!NaverStates
  <2>2. settings.worker \in BOOLEAN
    BY <2>1, Zenon
  <2>3. {0, 1} \subseteq 0 .. LastUser
    OBVIOUS
  <2>4. settings = [user |-> settings.user, naver |-> settings.naver, worker |-> settings.worker]
    BY <1>1
  <2> QED BY <2>1, <2>2, <2>3, <2>4
<1>3. /\ (config.worker <=> Sessions!RequiresSoop(applied)) /\ config.worker \in BOOLEAN
      /\ config.password = (IF Sessions!RequiresSoop(applied) THEN config.user ELSE 0)
      /\ config.user \in 0 .. LastUser /\ config.password \in 0 .. LastUser
      /\ config \in [user : 0 .. LastUser, password : 0 .. LastUser, worker : BOOLEAN]
  <2>1. PICK needs \in BOOLEAN : needs = Sessions!RequiresSoop(listed)
    BY Zenon DEF Sessions!RequiresSoop
  <2>2. config = [user |-> settings.user, password |-> IF needs THEN settings.user ELSE 0, worker |-> needs]
    BY <1>1, <2>1 DEF Sessions!Loaded
  <2>3. config.worker = needs /\ config.user = settings.user
          /\ config.password = IF needs THEN settings.user ELSE 0
    BY <2>2
  <2>4. config \in [user : 0 .. LastUser, password : 0 .. LastUser, worker : BOOLEAN]
    BY <1>2, <2>2
  <2> QED BY <1>1, <2>1, <2>3, <2>4
<1>4. SessionsTyped
  <2>1. /\ request \in StreamRequest
    BY <1>1 DEF StreamRequest, BroadcastOrNone, Sessions!Nothing, Sessions!NaverStates
  <2>2. held \in [bno : BroadcastOrNone, password : BroadcastOrNone, naver : Sessions!NaverStates]
    BY <1>1 DEF BroadcastOrNone, Sessions!NothingHeld, Sessions!NaverStates
  <2>3. status \in [shows : ChannelShows, bno : BroadcastOrNone]
    BY <1>1 DEF ChannelShows, BroadcastOrNone
  <2>4. wasOff \in BOOLEAN /\ unclear \in BOOLEAN
    BY <1>1, Zenon
  <2>5. air \in [bno : BroadcastOrNone, live : BOOLEAN]
    BY <1>1 DEF BroadcastOrNone
  <2>6. Sessions!SessionsTypeOK
    BY <1>1, <1>2, <1>3, <2>2, <2>4, <2>5 DEF Sessions!SessionsTypeOK, BroadcastOrNone, Sessions!Verdicts
  <2> QED BY <1>1, <2>1, <2>3, <2>6 DEF SessionsTyped
<1>5. ConfigFollowsList /\ CookiesFollowConfig
  BY <1>1, <1>3 DEF ConfigFollowsList, CookiesFollowConfig
<1>6. ProbeIsOfTheList /\ HeldIsOfItsBroadcast
  BY <1>1 DEF ProbeIsOfTheList, HeldIsOfItsBroadcast, Sessions!NothingHeld
<1>7. Sessions!SessionIsTheConfigured /\ Sessions!RequestIsForItsBroadcast /\ Sessions!OfflineIsTrue
  <2>1. request.bno = 0 /\ request.password = 0 /\ request.naver = "Missing"
    BY <1>1 DEF Sessions!Nothing
  <2>2. 0 \notin Restricted
    BY DEF SessionBounds
  <2> QED BY <1>1, <2>1, <2>2 DEF Sessions!SessionIsTheConfigured, Sessions!RequestIsForItsBroadcast, Sessions!OfflineIsTrue
<1> QED BY <1>4, <1>5, <1>6, <1>7 DEF SessionsInv

\* What happens around the task: broadcasts, saved settings, a password, the end of a recorder.
LEMMA WorldSteps ==
  ASSUME SessionBounds, SessionsInv,
         Sessions!Airs \/ Sessions!Leaves \/ Sessions!Change \/ Sessions!Supply \/ Sessions!RecorderEnds
  PROVE  SessionsInv'
<1> USE DEF SessionBounds, Sessions!None, Sessions!Broadcasts, Sessions!Users
<1>0. SessionsTyped /\ Sessions!SessionsTypeOK
  BY DEF SessionsInv, SessionsTyped
<1>1. /\ UNCHANGED <<platform, config, noted, applied, session, doing, held, attempts, request, verdict, unclear, display>>
      /\ wasOff' = wasOff \/ wasOff' = TRUE
      /\ wasOff' = wasOff => (air' = air \/ air'.live) \/ ~air.live \/ wasOff
  BY DEF Sessions!Airs, Sessions!Leaves, Sessions!Change, Sessions!Supply, Sessions!RecorderEnds,
  Sessions!ready,
         Sessions!resolve, Sessions!probing, Sessions!show, Sessions!world
<1>2. ~air'.live => wasOff' \/ (~air.live /\ wasOff' = wasOff)
  <2>1. CASE Sessions!Airs
    BY <2>1 DEF Sessions!Airs
  <2>2. CASE Sessions!Leaves
    BY <2>2 DEF Sessions!Leaves
  <2>3. CASE Sessions!Change \/ Sessions!Supply \/ Sessions!RecorderEnds
    <3>1. air' = air /\ wasOff' = wasOff
      BY <2>3 DEF Sessions!Change, Sessions!Supply, Sessions!RecorderEnds, Sessions!probing,
      Sessions!world
    <3> QED BY <3>1
  <2> QED BY <2>1, <2>2, <2>3
<1>3. SessionsTyped'
  <2>1. CASE Sessions!Airs
    <3>1. air' \in [bno : Sessions!Broadcasts \cup {0}, live : BOOLEAN]
      BY <1>0, <2>1 DEF Sessions!Airs
    <3> QED BY <1>0, <1>1, <2>1, <3>1 DEF Sessions!Airs, SessionsTyped, Sessions!SessionsTypeOK, Sessions!probing, Sessions!show
  <2>2. CASE Sessions!Leaves
    <3>1. wasOff' \in BOOLEAN
      BY <2>2, Zenon DEF Sessions!Leaves
    <3>2. air' = [air EXCEPT !.live = FALSE]
            /\ UNCHANGED <<settings, listed, changes, status, recording, password>>
      BY <2>2 DEF Sessions!Leaves, Sessions!show
    <3>3. air' \in [bno : Sessions!Broadcasts \cup {0}, live : BOOLEAN]
      <4>1. PICK off \in BOOLEAN : air' = [air EXCEPT !.live = off]
        BY <3>2
      <4> QED BY <1>0, <4>1 DEF Sessions!SessionsTypeOK
    <3> QED BY <1>0, <1>1, <3>1, <3>2, <3>3 DEF SessionsTyped, Sessions!SessionsTypeOK
  <2>3. CASE Sessions!Change
    <3>1. settings' \in [user : Sessions!Users, naver : Sessions!NaverStates, worker : BOOLEAN]
      <4>1. settings \in [user : Sessions!Users, naver : Sessions!NaverStates, worker : BOOLEAN]
        BY <1>0 DEF Sessions!SessionsTypeOK
      <4>2. (~settings.worker) \in BOOLEAN
        BY Zenon
      <4>3. \/ settings' = settings
            \/ \E u \in Sessions!Users : settings' = [settings EXCEPT !.user = u]
            \/ settings' = [settings EXCEPT !.worker = ~settings.worker]
            \/ \E n \in Sessions!NaverStates : settings' = [settings EXCEPT !.naver = n]
        BY <2>3 DEF Sessions!Change
      <4> QED BY <4>1, <4>2, <4>3
    <3>2. listed' \in BOOLEAN
      <4>1. listed' = listed \/ listed' = ~listed
        BY <2>3 DEF Sessions!Change
      <4>2. (~listed) \in BOOLEAN
        BY Zenon
      <4> QED BY <1>0, <4>1, <4>2 DEF Sessions!SessionsTypeOK
    <3>3. changes' \in 0 .. MaxChanges
      BY <1>0, <2>3 DEF Sessions!Change, Sessions!SessionsTypeOK
    <3>4. UNCHANGED <<air, wasOff, status, recording, password>>
      BY <2>3 DEF Sessions!Change, Sessions!probing, Sessions!show
    <3> QED BY <1>0, <1>1, <3>1, <3>2, <3>3, <3>4 DEF SessionsTyped, Sessions!SessionsTypeOK
  <2>4. CASE Sessions!Supply
    BY <1>0, <1>1, <2>4 DEF Sessions!Supply, SessionsTyped, Sessions!SessionsTypeOK, Sessions!world,
    Sessions!probing,
       BroadcastOrNone
  <2>5. CASE Sessions!RecorderEnds
    <3>1. status' \in [shows : ChannelShows, bno : BroadcastOrNone]
      BY <1>0, <2>5 DEF SessionsTyped, Sessions!RecorderEnds, ChannelShows
    <3> QED BY <1>0, <1>1, <2>5, <3>1 DEF Sessions!RecorderEnds, SessionsTyped, Sessions!SessionsTypeOK,
               Sessions!world, Sessions!probing
  <2> QED BY <2>1, <2>2, <2>3, <2>4, <2>5
<1>4. ConfigFollowsList' /\ CookiesFollowConfig'
  BY <1>1 DEF SessionsInv, ConfigFollowsList, CookiesFollowConfig, Sessions!RequiresSoop
<1>5. ProbeIsOfTheList'
  BY <1>1, <1>2 DEF SessionsInv, ProbeIsOfTheList
<1>6. HeldIsOfItsBroadcast'
  BY <1>1 DEF SessionsInv, HeldIsOfItsBroadcast
<1>7. Sessions!SessionIsTheConfigured' /\ Sessions!RequestIsForItsBroadcast'
  BY <1>1 DEF SessionsInv, Sessions!SessionIsTheConfigured, Sessions!RequestIsForItsBroadcast
<1>8. Sessions!OfflineIsTrue'
  BY <1>1 DEF SessionsInv, Sessions!OfflineIsTrue
<1> QED BY <1>3, <1>4, <1>5, <1>6, <1>7, <1>8 DEF SessionsInv

\* A login keeps the cookies it has, or has those of the account in force, or none.
LEMMA LoginIsOfTheAccount ==
  ASSUME SessionBounds, SessionsInv, platform = "SOOP", NEW ok \in BOOLEAN, Sessions!LoggedIn(ok)
  PROVE  /\ session' \in Sessions!Users
         /\ applied => config.user = 0 \/ session' \in {0, config.user}
<1>1. session \in Sessions!Users /\ config.user \in Sessions!Users /\ 0 \in Sessions!Users
  BY DEF SessionsInv, SessionsTyped, Sessions!SessionsTypeOK, Sessions!Users, SessionBounds
<1>2. applied => config.password = config.user
  BY DEF SessionsInv, ConfigFollowsList, Sessions!RequiresSoop
<1>3. CASE config.user = 0 \/ config.password = 0
  BY <1>1, <1>2, <1>3 DEF Sessions!LoggedIn
<1>4. CASE ~(config.user = 0 \/ config.password = 0)
  <2>1. session' \in {0, config.user}
    BY <1>4 DEF Sessions!LoggedIn
  <2> QED BY <1>1, <2>1
<1> QED BY <1>3, <1>4

\* A login, the tick that follows, and a check or reload that changes nothing.
LEMMA LoginSteps ==
  ASSUME SessionBounds, SessionsInv,
         Sessions!FirstLogin \/ Sessions!Tick \/ Sessions!KeepSettings \/ Sessions!KeepList
           \/ Sessions!Relogin
  PROVE  SessionsInv'
<1> USE DEF Sessions!None, Sessions!Broadcasts
<1>0. SessionsTyped /\ Sessions!SessionsTypeOK
  BY DEF SessionsInv, SessionsTyped
<1>1. /\ UNCHANGED <<platform, air, settings, listed, changes, config, noted, applied, attempts, status, display,
                     recording, password>>
      /\ doing' \in {"select", "settings", "list", "poll"}
  BY DEF Sessions!FirstLogin, Sessions!Tick, Sessions!KeepSettings, Sessions!KeepList, Sessions!Relogin,
         Sessions!world, Sessions!ready, Sessions!resolve, Sessions!show
<1>2. /\ session' \in Sessions!Users
      /\ platform = "SOOP" /\ applied => config.user = 0 \/ session' \in {0, config.user}
  <2>0. UNCHANGED session => session' \in Sessions!Users
    BY <1>0 DEF Sessions!SessionsTypeOK
  <2>1. CASE Sessions!FirstLogin
    <3>1. CASE platform = "SOOP"
      BY <2>1, <3>1, LoginIsOfTheAccount DEF Sessions!FirstLogin
    <3>2. CASE platform # "SOOP"
      BY <2>0, <2>1, <3>2 DEF Sessions!FirstLogin
    <3> QED BY <3>1, <3>2
  <2>2. CASE Sessions!Relogin
    <3>1. PICK ok \in BOOLEAN : Sessions!LoggedIn(ok)
      BY <2>2 DEF Sessions!Relogin
    <3>2. CASE platform = "SOOP"
      BY <3>1, <3>2, LoginIsOfTheAccount
    <3>3. CASE platform # "SOOP"
      <4>1. config.user \in Sessions!Users /\ 0 \in Sessions!Users
        BY <1>0 DEF Sessions!SessionsTypeOK, Sessions!Users, SessionBounds
      <4> QED BY <2>0, <3>1, <3>3, <4>1 DEF Sessions!LoggedIn
    <3> QED BY <3>2, <3>3
  <2>3. CASE Sessions!Tick \/ Sessions!KeepSettings \/ Sessions!KeepList
    <3>1. session' = session /\ doing \in {"select", "settings", "list"}
      BY <2>3 DEF Sessions!Tick, Sessions!KeepSettings, Sessions!KeepList, Sessions!ready
    <3> QED BY <2>0, <3>1 DEF SessionsInv, CookiesFollowConfig
  <2> QED BY <2>1, <2>2, <2>3
<1>3. \/ held' = held /\ request' = request /\ UNCHANGED <<verdict, wasOff, unclear>>
      \/ held' = Sessions!NothingHeld /\ request' = Sessions!Nothing
         /\ verdict' = "NONE" /\ wasOff' = TRUE /\ unclear' = FALSE
  BY DEF Sessions!FirstLogin, Sessions!Tick, Sessions!KeepSettings, Sessions!KeepList, Sessions!Relogin,
         Sessions!resolve, Sessions!probing
<1>4. SessionsTyped'
  <2>1. request' \in StreamRequest
    <3>1. Sessions!Nothing \in StreamRequest
      BY DEF StreamRequest, BroadcastOrNone, Sessions!Nothing, Sessions!NaverStates, Sessions!Users,
      SessionBounds
    <3> QED BY <1>0, <1>3, <3>1 DEF SessionsTyped
  <2>2. held' \in [bno : Sessions!Broadcasts \cup {0}, password : Sessions!Broadcasts \cup {0},
                   naver : Sessions!NaverStates]
    BY <1>0, <1>3 DEF Sessions!SessionsTypeOK, Sessions!NothingHeld, Sessions!NaverStates
  <2>3. wasOff' \in BOOLEAN /\ unclear' \in BOOLEAN
    <3>1. wasOff \in BOOLEAN /\ unclear \in BOOLEAN
      BY <1>0 DEF Sessions!SessionsTypeOK
    <3>2. (wasOff' = wasOff \/ wasOff' = TRUE) /\ (unclear' = unclear \/ unclear' = FALSE)
      BY <1>3
    <3> QED BY <3>1, <3>2, Zenon
  <2>4. verdict' \in Sessions!Verdicts
    BY <1>0, <1>3 DEF Sessions!SessionsTypeOK, Sessions!Verdicts
  <2> QED BY <1>0, <1>1, <1>2, <2>1, <2>2, <2>3, <2>4 DEF SessionsTyped, Sessions!SessionsTypeOK
<1>5. ConfigFollowsList' /\ CookiesFollowConfig'
  BY <1>1, <1>2 DEF SessionsInv, ConfigFollowsList, CookiesFollowConfig, Sessions!RequiresSoop
<1>6. ProbeIsOfTheList' /\ HeldIsOfItsBroadcast'
  BY <1>1, <1>3 DEF SessionsInv, ProbeIsOfTheList, HeldIsOfItsBroadcast, Sessions!NothingHeld
<1>7. Sessions!SessionIsTheConfigured' /\ Sessions!RequestIsForItsBroadcast'
  <2>1. request' = request \/ (request'.bno = 0 /\ request'.password = 0)
    BY <1>3 DEF Sessions!Nothing
  <2>2. 0 \notin Restricted
    BY DEF SessionBounds
  <2> QED BY <1>1, <2>1, <2>2 DEF SessionsInv, Sessions!SessionIsTheConfigured, Sessions!RequestIsForItsBroadcast
<1>8. Sessions!OfflineIsTrue'
  BY <1>1, <1>3 DEF SessionsInv, Sessions!OfflineIsTrue
<1> QED BY <1>4, <1>5, <1>6, <1>7, <1>8 DEF SessionsInv

\* The settings, or the list with them, are taken over.
LEMMA TakingOver ==
  ASSUME SessionBounds, SessionsInv, Sessions!TakeSettings \/ Sessions!TakeList
  PROVE  SessionsInv'
<1> USE DEF Sessions!None, Sessions!Broadcasts
<1>0. SessionsTyped /\ Sessions!SessionsTypeOK
  BY DEF SessionsInv, SessionsTyped
<1>1. /\ UNCHANGED <<platform, air, settings, listed, changes, held, attempts, request, verdict, wasOff, unclear,
                     display, password>>
      /\ noted' = settings /\ doing' \in {"list", "relogin", "poll"}
  BY DEF Sessions!TakeSettings, Sessions!TakeList, Sessions!world, Sessions!resolve, Sessions!probing,
  Sessions!show
<1>2. applied' \in BOOLEAN /\ config' = Sessions!Loaded(applied') /\ Sessions!Loadable(applied')
  BY <1>0 DEF Sessions!TakeSettings, Sessions!TakeList, Sessions!SessionsTypeOK
<1>3. PICK needs \in BOOLEAN : needs = Sessions!RequiresSoop(applied')
  BY Zenon DEF Sessions!RequiresSoop
<1>4. config' = [user |-> settings.user, password |-> IF needs THEN settings.user ELSE 0, worker |-> needs]
  BY <1>2, <1>3 DEF Sessions!Loaded
<1>5. config'.worker = needs /\ config'.user = settings.user
        /\ config'.password = IF needs THEN settings.user ELSE 0
  BY <1>4
<1>6. settings.user \in Sessions!Users /\ 0 \in Sessions!Users
  BY <1>0 DEF Sessions!SessionsTypeOK, Sessions!Users, SessionBounds
<1>7. config' \in [user : Sessions!Users, password : Sessions!Users, worker : BOOLEAN]
  BY <1>4, <1>6
<1>8. ConfigFollowsList'
  BY <1>1, <1>3, <1>5 DEF ConfigFollowsList, Sessions!RequiresSoop
<1>9. session' \in Sessions!Users /\ CookiesFollowConfig'
  <2>1. CASE Sessions!TakeSettings
    <3>1. applied' = applied /\ doing = "settings" /\ config' = Sessions!Loaded(applied)
      BY <2>1 DEF Sessions!TakeSettings
    <3>2. CASE Sessions!AuthChanged(Sessions!Loaded(applied)) /\ Sessions!RequiresSoop(applied)
      <4>1. session' \in IF config'.user = 0 THEN {session} ELSE {0, config'.user}
        BY <2>1, <3>2 DEF Sessions!TakeSettings
      <4> QED BY <1>0, <1>5, <1>6, <4>1 DEF CookiesFollowConfig, Sessions!SessionsTypeOK
    <3>3. CASE ~Sessions!RequiresSoop(applied)
      BY <1>0, <1>1, <2>1, <3>1, <3>3 DEF Sessions!TakeSettings, CookiesFollowConfig,
      Sessions!RequiresSoop,
                                          Sessions!SessionsTypeOK
    <3>4. CASE ~Sessions!AuthChanged(Sessions!Loaded(applied))
      <4>1. session' = session
        BY <2>1, <3>4 DEF Sessions!TakeSettings
      <4>2. config'.user = config.user
        BY <3>1, <3>4 DEF Sessions!AuthChanged
      <4> QED BY <1>0, <1>1, <3>1, <4>1, <4>2 DEF SessionsInv, CookiesFollowConfig, Sessions!SessionsTypeOK
    <3> QED BY <3>2, <3>3, <3>4
  <2>2. CASE Sessions!TakeList
    <3>1. session' = session /\ applied' = listed
            /\ doing' = IF Sessions!RequiresSoop(listed) THEN "relogin" ELSE "poll"
      BY <2>2 DEF Sessions!TakeList
    <3> QED BY <1>0, <1>1, <3>1 DEF CookiesFollowConfig, Sessions!RequiresSoop, Sessions!SessionsTypeOK
  <2> QED BY <2>1, <2>2
<1>10. SessionsTyped'
  <2>1. status' \in [shows : ChannelShows, bno : BroadcastOrNone]
          /\ recording' \in Sessions!Broadcasts \cup {0}
    <3>1. CASE Sessions!TakeSettings
      BY <1>0, <3>1 DEF Sessions!TakeSettings, Sessions!show, SessionsTyped, Sessions!SessionsTypeOK
    <3>2. CASE Sessions!TakeList
      BY <1>0, <3>2 DEF Sessions!TakeList, SessionsTyped, Sessions!SessionsTypeOK, ChannelShows
    <3> QED BY <3>1, <3>2
  <2> QED BY <1>0, <1>1, <1>2, <1>7, <1>9, <2>1 DEF SessionsTyped, Sessions!SessionsTypeOK
<1>11. ProbeIsOfTheList' /\ HeldIsOfItsBroadcast'
  BY <1>1 DEF SessionsInv, ProbeIsOfTheList, HeldIsOfItsBroadcast
<1>12. Sessions!SessionIsTheConfigured' /\ Sessions!RequestIsForItsBroadcast'
  BY <1>1 DEF SessionsInv, Sessions!SessionIsTheConfigured, Sessions!RequestIsForItsBroadcast
<1>13. Sessions!OfflineIsTrue'
  BY <1>1 DEF SessionsInv, Sessions!OfflineIsTrue
<1> QED BY <1>8, <1>9, <1>10, <1>11, <1>12, <1>13 DEF SessionsInv

\* What the task of a check holds.
HeldByTask == [bno : BroadcastOrNone, password : BroadcastOrNone, naver : Sessions!NaverStates]

\* What a verdict leaves: a status, a recording and a password of broadcasts, and when a stream
\* is to be resolved, the broadcast with its own password.
LEMMA JudgedLeaves ==
  ASSUME SessionBounds, SessionsInv, NEW v \in {"OFFLINE", "LIVE", "AUTH", "ERROR"}, Sessions!Judged(v)
  PROVE  /\ verdict' = v /\ doing' \in {"select", "resolve", "recover"}
         /\ status' \in [shows : ChannelShows, bno : BroadcastOrNone]
         /\ display' \in [shows : ChannelShows, bno : BroadcastOrNone]
         /\ recording' \in BroadcastOrNone /\ password' \in BroadcastOrNone
         /\ held' \in HeldByTask /\ HeldIsOfItsBroadcast'
<1> USE DEF Sessions!None, Sessions!Ends
<1>1. /\ status \in [shows : ChannelShows, bno : BroadcastOrNone]
      /\ display \in [shows : ChannelShows, bno : BroadcastOrNone]
      /\ recording \in BroadcastOrNone /\ password \in BroadcastOrNone /\ held \in HeldByTask
      /\ air.bno \in BroadcastOrNone /\ HeldIsOfItsBroadcast /\ 0 \in BroadcastOrNone
  BY DEF SessionsInv, SessionsTyped, Sessions!SessionsTypeOK, HeldByTask, BroadcastOrNone
<1>2. verdict' = v
  BY DEF Sessions!Judged
<1>3. UNCHANGED held => held' \in HeldByTask /\ HeldIsOfItsBroadcast'
  BY <1>1 DEF HeldIsOfItsBroadcast
<1>4. \A b \in BroadcastOrNone : Sessions!PasswordFor(b) \in {0, b}
  BY DEF Sessions!PasswordFor
<1>5. CASE v = "OFFLINE"
  <2>1. /\ status' = [shows |-> "OFFLINE", bno |-> 0] /\ recording' = 0 /\ password' = 0
        /\ doing' = "select" /\ display' = status' /\ UNCHANGED held
    BY <1>5 DEF Sessions!Judged
  <2> QED BY <1>1, <1>2, <1>3, <2>1 DEF ChannelShows
<1>6. CASE v = "LIVE" /\ recording # 0
  <2>1. /\ recording' = IF recording = air.bno THEN recording ELSE 0
        /\ password' = IF recording = air.bno THEN password ELSE 0
        /\ status' = IF recording = air.bno THEN status ELSE [shows |-> "UNKNOWN", bno |-> air.bno]
        /\ doing' = "select" /\ display' = status' /\ UNCHANGED held
    BY <1>6 DEF Sessions!Judged
  <2> QED BY <1>1, <1>2, <1>3, <2>1 DEF ChannelShows
<1>7. CASE v = "LIVE" /\ recording = 0 /\ (air.bno \in Guarded => Sessions!PasswordFor(air.bno) # 0)
  <2>1. /\ doing' = "resolve" /\ status' = [status EXCEPT !.bno = air.bno]
        /\ password' = IF air.bno \in Guarded THEN password ELSE 0
        /\ held' = [held EXCEPT !.bno = air.bno,
                                !.password = IF air.bno \in Guarded THEN Sessions!PasswordFor(air.bno) ELSE 0]
        /\ UNCHANGED <<recording, display>>
    BY <1>7 DEF Sessions!Judged
  <2>2. PICK w \in {0, air.bno} : held' = [held EXCEPT !.bno = air.bno, !.password = w]
    BY <1>1, <1>4, <2>1
  <2>3. held' \in HeldByTask /\ held'.bno = air.bno /\ held'.password = w
    BY <1>1, <2>2 DEF HeldByTask
  <2>4. status' \in [shows : ChannelShows, bno : BroadcastOrNone]
    BY <1>1, <2>1
  <2> QED BY <1>1, <1>2, <2>1, <2>3, <2>4 DEF HeldIsOfItsBroadcast
<1>8. CASE v = "LIVE" /\ recording = 0 /\ air.bno \in Guarded /\ Sessions!PasswordFor(air.bno) = 0
  <2>1. /\ status' = [shows |-> "PASSWORD_REQUIRED", bno |-> air.bno] /\ password' = 0
        /\ doing' = "select" /\ display' = status' /\ UNCHANGED <<recording, held>>
    BY <1>8 DEF Sessions!Judged
  <2> QED BY <1>1, <1>2, <1>3, <2>1 DEF ChannelShows
<1>9. CASE v = "AUTH" /\ recording = 0
  <2>1. /\ status' = [status EXCEPT !.shows = "AUTH"] /\ doing' = "recover"
        /\ UNCHANGED <<recording, password, held, display>>
    BY <1>9 DEF Sessions!Judged
  <2> QED BY <1>1, <1>2, <1>3, <2>1 DEF ChannelShows
<1>10. CASE v = "ERROR" \/ (v = "AUTH" /\ recording # 0)
  <2>1. /\ status' = IF recording = 0 THEN [status EXCEPT !.shows = "ERROR"] ELSE status
        /\ doing' = "select" /\ display' = status' /\ UNCHANGED <<recording, password, held>>
    BY <1>10 DEF Sessions!Judged
  <2> QED BY <1>1, <1>2, <1>3, <2>1 DEF ChannelShows
<1> QED BY <1>5, <1>6, <1>7, <1>8, <1>9, <1>10

\* A probe that was judged, having left what the settings and the list are of alone.
LEMMA JudgedIsSound ==
  ASSUME SessionBounds, SessionsInv, NEW v \in {"OFFLINE", "LIVE", "AUTH", "ERROR"}, Sessions!Judged(v),
         UNCHANGED <<platform, Sessions!world, Sessions!ready, attempts, request, wasOff>>,
         doing \in {"page", "ask"}, unclear' \in BOOLEAN,
         v = "OFFLINE" => wasOff \/ (unclear' /\ platform # "KICK")
  PROVE  SessionsInv'
<1> USE DEF Sessions!None, Sessions!Broadcasts, Sessions!world, Sessions!ready
<1>1. /\ verdict' = v /\ doing' \in {"select", "resolve", "recover"}
      /\ status' \in [shows : ChannelShows, bno : BroadcastOrNone]
      /\ display' \in [shows : ChannelShows, bno : BroadcastOrNone]
      /\ recording' \in BroadcastOrNone /\ password' \in BroadcastOrNone
      /\ held' \in HeldByTask /\ HeldIsOfItsBroadcast'
  BY JudgedLeaves
<1>2. SessionsTyped'
  BY <1>1 DEF SessionsInv, SessionsTyped, Sessions!SessionsTypeOK, HeldByTask, BroadcastOrNone,
  Sessions!Verdicts
<1>3. ConfigFollowsList'
  BY DEF SessionsInv, ConfigFollowsList, Sessions!RequiresSoop
<1>4. doing # "relogin" /\ applied
  BY DEF SessionsInv, ProbeIsOfTheList
<1>5. CookiesFollowConfig'
  BY <1>4 DEF SessionsInv, CookiesFollowConfig
<1>6. ProbeIsOfTheList'
  BY <1>1, <1>4 DEF ProbeIsOfTheList
<1>7. Sessions!SessionIsTheConfigured'
  <2>1. platform = "SOOP" => config.worker
    BY <1>4 DEF SessionsInv, ConfigFollowsList, Sessions!RequiresSoop
  <2> QED BY <1>4, <1>5, <2>1 DEF SessionsInv, CookiesFollowConfig, Sessions!SessionIsTheConfigured
<1>8. Sessions!RequestIsForItsBroadcast'
  BY DEF SessionsInv, Sessions!RequestIsForItsBroadcast
<1>9. Sessions!OfflineIsTrue'
  BY <1>1 DEF Sessions!OfflineIsTrue
<1> QED BY <1>1, <1>2, <1>3, <1>5, <1>6, <1>7, <1>8, <1>9 DEF SessionsInv

\* What the page and the service say: a channel is off when it was, or by an answer of no
\* documented form, which KICK's probe does not take for an end.
LEMMA ProbeSteps ==
  ASSUME SessionBounds, SessionsInv, Sessions!Page \/ Sessions!Ask
  PROVE  SessionsInv'
<1> USE DEF Sessions!None, Sessions!Broadcasts
<1>0. SessionsTyped /\ Sessions!SessionsTypeOK /\ ProbeIsOfTheList
  BY DEF SessionsInv, SessionsTyped
<1>1. /\ UNCHANGED <<platform, Sessions!world, Sessions!ready, attempts, request>>
      /\ doing \in {"page", "ask"}
  BY DEF Sessions!Page, Sessions!Ask
<1>2. CASE Sessions!Page
  <2>1. unclear \in BOOLEAN /\ TRUE \in BOOLEAN
    BY <1>0 DEF Sessions!SessionsTypeOK
  <2>2. doing = "page" /\ platform = "SOOP"
    BY <1>0, <1>2 DEF Sessions!Page, ProbeIsOfTheList
  <2>3. CASE air.live /\ doing' = "ask" /\ UNCHANGED <<held, Sessions!probing, Sessions!show>>
    <3> USE <1>1, <2>2, <2>3 DEF Sessions!world, Sessions!ready, Sessions!probing, Sessions!show
    <3>1. SessionsTyped'
      BY <1>0 DEF SessionsTyped, Sessions!SessionsTypeOK
    <3>2. ConfigFollowsList' /\ CookiesFollowConfig' /\ ProbeIsOfTheList' /\ HeldIsOfItsBroadcast'
      BY DEF SessionsInv, ConfigFollowsList, CookiesFollowConfig, ProbeIsOfTheList, HeldIsOfItsBroadcast,
             Sessions!RequiresSoop
    <3>3. Sessions!SessionIsTheConfigured' /\ Sessions!RequestIsForItsBroadcast'
            /\ Sessions!OfflineIsTrue'
      BY DEF SessionsInv, Sessions!SessionIsTheConfigured, Sessions!RequestIsForItsBroadcast,
             Sessions!OfflineIsTrue
    <3> QED BY <3>1, <3>2, <3>3 DEF SessionsInv
  <2>4. CASE ~air.live /\ Sessions!Judged("OFFLINE") /\ UNCHANGED <<wasOff, unclear>>
    <3>1. wasOff
      BY <1>0, <2>2, <2>4 DEF ProbeIsOfTheList
    <3> QED BY <1>1, <2>1, <2>4, <3>1, JudgedIsSound
  <2>5. CASE unclear' = TRUE /\ Sessions!Judged("OFFLINE") /\ UNCHANGED wasOff
    <3>1. unclear' \in BOOLEAN /\ (wasOff \/ (unclear' /\ platform # "KICK"))
      BY <2>1, <2>2, <2>5
    <3> QED BY <1>1, <2>5, <3>1, JudgedIsSound
  <2>6. CASE Sessions!Judged("ERROR") /\ UNCHANGED <<wasOff, unclear>>
    BY <1>1, <2>1, <2>6, JudgedIsSound
  <2> QED BY <1>2, <2>3, <2>4, <2>5, <2>6 DEF Sessions!Page
<1>3. CASE Sessions!Ask
  <2>0. PICK said \in Sessions!Answers :
          \E v \in Sessions!ProbeVerdicts(said) :
            unclear' = (said \in {"odd", "gone", "withheld"}) /\ Sessions!Judged(v)
    BY <1>3, Zenon DEF Sessions!Ask
  <2>1. PICK v \in Sessions!ProbeVerdicts(said) :
          unclear' = (said \in {"odd", "gone", "withheld"}) /\ Sessions!Judged(v)
    BY <2>0, Zenon
  <2>2. UNCHANGED wasOff /\ doing = "ask" /\ platform \in {"SOOP", "CHZZK", "KICK"}
    BY <1>0, <1>3 DEF Sessions!Ask, Sessions!SessionsTypeOK
  <2>3. unclear' \in BOOLEAN /\ (unclear' <=> said \in {"odd", "gone", "withheld"}) /\ Sessions!Judged(v)
    <3> DEFINE odd == {"odd", "gone", "withheld"}
    <3> HIDE DEF odd
    <3>1. unclear' = (said \in odd)
      BY <2>1 DEF odd
    <3>2. unclear' \in BOOLEAN
      BY <3>1, SMT
    <3>3. unclear' <=> said \in odd
      BY <3>1, Zenon
    <3> QED BY <2>1, <3>2, <3>3 DEF odd
  <2>4. said = "closed" => wasOff
    <3>1. said = "closed" => ~air.live
      BY DEF Sessions!Answers
    <3> QED BY <1>0, <2>2, <3>1 DEF ProbeIsOfTheList
  <2>5. said \in {"denied", "gone", "failed", "odd", "closed", "open", "withheld"}
    BY DEF Sessions!Answers
  <2>6. v \in {"OFFLINE", "LIVE", "AUTH", "ERROR"} /\ (v = "OFFLINE" => wasOff \/ (unclear' /\ platform # "KICK"))
    <3>1. CASE platform = "SOOP"
      <4>1. v = Sessions!SoopVerdict(said)
        BY <3>1 DEF Sessions!ProbeVerdicts
      <4> QED BY <2>3, <2>4, <2>5, <3>1, <4>1 DEF Sessions!SoopVerdict
    <3>2. CASE platform = "CHZZK"
      <4>1. v \in Sessions!ChzzkVerdicts(said, held.naver)
        BY <3>2 DEF Sessions!ProbeVerdicts
      <4> QED BY <2>3, <2>4, <2>5, <3>2, <4>1 DEF Sessions!ChzzkVerdicts, Sessions!AuthFailure
    <3>3. CASE platform = "KICK"
      <4>1. v = Sessions!KickVerdict(said)
        BY <3>3 DEF Sessions!ProbeVerdicts
      <4> QED BY <2>3, <2>4, <2>5, <3>3, <4>1 DEF Sessions!KickVerdict
    <3> QED BY <2>2, <3>1, <3>2, <3>3
  <2> QED BY <1>1, <2>2, <2>3, <2>6, JudgedIsSound
<1> QED BY <1>2, <1>3

\* The other steps of a turn: no probe, its beginning, and what follows a refusal.
LEMMA TurnSteps ==
  ASSUME SessionBounds, SessionsInv, Sessions!Pass \/ Sessions!Begin \/ Sessions!Recover
  PROVE  SessionsInv'
<1> USE DEF Sessions!None, Sessions!Broadcasts, Sessions!Ends
<1>0. SessionsTyped /\ Sessions!SessionsTypeOK
  BY DEF SessionsInv, SessionsTyped
<1>1. /\ UNCHANGED <<platform, air, settings, listed, changes, config, noted, applied, attempts, request, status,
                     recording, password>>
      /\ display' = status \/ display' = display
  BY DEF Sessions!Pass, Sessions!Begin, Sessions!Recover, Sessions!world, Sessions!ready,
  Sessions!resolve, Sessions!show
<1>2. CASE Sessions!Pass \/ Sessions!Recover
  <2>1. doing' = "select" /\ UNCHANGED <<held, verdict, wasOff, unclear>>
    BY <1>2 DEF Sessions!Pass, Sessions!Recover, Sessions!resolve, Sessions!probing
  <2>2. /\ session' \in Sessions!Users
        /\ platform = "SOOP" /\ applied => config.user = 0 \/ session' \in {0, config.user}
    <3>1. CASE session' = session
      <4>1. doing # "relogin"
        BY <1>2 DEF Sessions!Pass, Sessions!Recover
      <4> QED BY <1>0, <3>1, <4>1 DEF SessionsInv, CookiesFollowConfig, Sessions!SessionsTypeOK
    <3>2. CASE session' # session
      BY <1>2, <3>2, LoginIsOfTheAccount DEF Sessions!Pass, Sessions!Recover, Sessions!ready
    <3> QED BY <3>1, <3>2
  <2>3. SessionsTyped'
    BY <1>0, <1>1, <2>1, <2>2 DEF SessionsTyped, Sessions!SessionsTypeOK
  <2>4. ConfigFollowsList' /\ CookiesFollowConfig' /\ ProbeIsOfTheList' /\ HeldIsOfItsBroadcast'
    BY <1>1, <2>1, <2>2 DEF SessionsInv, ConfigFollowsList, CookiesFollowConfig, ProbeIsOfTheList,
       HeldIsOfItsBroadcast, Sessions!RequiresSoop
  <2>5. Sessions!SessionIsTheConfigured' /\ Sessions!RequestIsForItsBroadcast' /\ Sessions!OfflineIsTrue'
    BY <1>1, <2>1 DEF SessionsInv, Sessions!SessionIsTheConfigured, Sessions!RequestIsForItsBroadcast,
       Sessions!OfflineIsTrue
  <2> QED BY <2>3, <2>4, <2>5 DEF SessionsInv
<1>3. CASE Sessions!Begin
  <2>1. /\ doing = "poll" /\ applied /\ doing' = IF platform = "SOOP" THEN "page" ELSE "ask"
        /\ held' = [held EXCEPT !.naver = settings.naver] /\ wasOff' = ~air.live
        /\ unclear' = FALSE /\ verdict' = "NONE" /\ UNCHANGED <<session, display>>
    BY <1>3 DEF Sessions!Begin, Sessions!ready, Sessions!show
  <2>2. held' \in HeldByTask /\ held'.bno = held.bno /\ held'.password = held.password
    BY <1>0, <2>1 DEF HeldByTask, Sessions!SessionsTypeOK, BroadcastOrNone
  <2>3. wasOff' \in BOOLEAN /\ unclear' \in BOOLEAN
    BY <2>1, Zenon
  <2>4. SessionsTyped'
    BY <1>0, <1>1, <2>1, <2>2, <2>3 DEF SessionsTyped, Sessions!SessionsTypeOK, HeldByTask,
    BroadcastOrNone,
       Sessions!Verdicts
  <2>5. ConfigFollowsList' /\ CookiesFollowConfig' /\ ProbeIsOfTheList'
    BY <1>1, <2>1 DEF SessionsInv, ConfigFollowsList, CookiesFollowConfig, ProbeIsOfTheList,
    Sessions!RequiresSoop
  <2>6. HeldIsOfItsBroadcast'
    BY <2>2 DEF SessionsInv, HeldIsOfItsBroadcast
  <2>7. Sessions!SessionIsTheConfigured'
    BY <1>1, <2>1, <2>5 DEF SessionsInv, Sessions!SessionIsTheConfigured, ConfigFollowsList,
    CookiesFollowConfig,
       Sessions!RequiresSoop
  <2>8. Sessions!RequestIsForItsBroadcast' /\ Sessions!OfflineIsTrue'
    BY <1>1, <2>1 DEF SessionsInv, Sessions!RequestIsForItsBroadcast, Sessions!OfflineIsTrue
  <2> QED BY <2>4, <2>5, <2>6, <2>7, <2>8 DEF SessionsInv
<1> QED BY <1>2, <1>3

\* A stream is asked for, and recorded or not.
LEMMA ResolveSteps ==
  ASSUME SessionBounds, SessionsInv, Sessions!AskWorker \/ Sessions!ResolvePlugin
  PROVE  SessionsInv'
<1> USE DEF Sessions!None, Sessions!Broadcasts, Sessions!Ends, Sessions!Records, Sessions!Fails
<1>0. SessionsTyped /\ Sessions!SessionsTypeOK
  BY DEF SessionsInv, SessionsTyped
<1>1. /\ UNCHANGED <<platform, air, settings, listed, changes, config, noted, applied, session, verdict, wasOff,
                     unclear, held>>
      /\ doing = "resolve" /\ doing' \in {"resolve", "select"}
  BY DEF Sessions!AskWorker, Sessions!ResolvePlugin, Sessions!world, Sessions!ready, Sessions!probing
<1>2. held \in HeldByTask /\ held.password \in {0, held.bno} /\ applied
  BY <1>0, <1>1 DEF SessionsInv, HeldIsOfItsBroadcast, ProbeIsOfTheList, Sessions!SessionsTypeOK,
  HeldByTask,
     BroadcastOrNone
<1>3. /\ request' \in StreamRequest /\ request'.password \in {0, request'.bno}
      /\ platform = "SOOP" /\ request'.bno # 0 => request'.worker
      /\ platform = "CHZZK" /\ request'.bno \in Restricted => request'.naver = "Configured"
  <2>1. CASE request' = request
    <3>1. /\ platform = "SOOP" /\ request.bno # 0 => request.worker
      BY DEF SessionsInv, Sessions!SessionIsTheConfigured
    <3> QED BY <1>0, <2>1, <3>1 DEF SessionsInv, SessionsTyped, Sessions!RequestIsForItsBroadcast
  <2>2. CASE Sessions!AskWorker
    <3>1. platform = "SOOP" /\ request' = Sessions!Asked
      BY <2>2 DEF Sessions!AskWorker
    <3>2. request' = [bno |-> held.bno, password |-> held.password, user |-> session, naver |-> "Missing",
                      worker |-> config.worker]
      BY <3>1 DEF Sessions!Asked, Sessions!Nothing
    <3>3. config.worker \in BOOLEAN /\ config.worker /\ session \in Sessions!Users
      BY <1>0, <1>2, <3>1 DEF SessionsInv, ConfigFollowsList, Sessions!RequiresSoop,
      Sessions!SessionsTypeOK
    <3> QED BY <1>2, <3>1, <3>2, <3>3 DEF StreamRequest, HeldByTask, Sessions!NaverStates
  <2>3. CASE Sessions!ResolvePlugin /\ request' # request
    <3> DEFINE n == IF platform = "CHZZK" /\ held.bno \in Restricted THEN settings.naver ELSE "Missing"
    <3>1. /\ platform # "SOOP" /\ (platform = "CHZZK" => Sessions!MayResolve(held.bno))
          /\ request' = [Sessions!Nothing EXCEPT !.bno = held.bno, !.naver = n]
      BY <2>3 DEF Sessions!ResolvePlugin
    <3>2. /\ n \in Sessions!NaverStates
          /\ platform = "CHZZK" /\ held.bno \in Restricted => n = "Configured"
      BY <1>0, <3>1 DEF Sessions!MayResolve, Sessions!SessionsTypeOK, Sessions!NaverStates
    <3> HIDE DEF n
    <3>3. request' = [bno |-> held.bno, password |-> 0, user |-> 0, naver |-> n, worker |-> FALSE]
      BY <3>1 DEF Sessions!Nothing
    <3>5. PICK w \in BOOLEAN :
            request' = [bno |-> held.bno, password |-> 0, user |-> 0, naver |-> n, worker |-> w]
      BY <3>3
    <3>4. 0 \in Sessions!Users /\ FALSE \in BOOLEAN /\ held.bno \in BroadcastOrNone
            /\ 0 \in BroadcastOrNone
      BY <1>2 DEF Sessions!Users, SessionBounds, HeldByTask, BroadcastOrNone
    <3>6. request' \in StreamRequest /\ request'.password = 0 /\ request'.bno = held.bno
            /\ request'.naver = n
      BY <3>2, <3>4, <3>5 DEF StreamRequest
    <3> QED BY <3>1, <3>2, <3>6
  <2> QED BY <2>1, <2>2, <2>3
<1>4. /\ attempts' \in 0 .. Retries /\ recording' \in BroadcastOrNone /\ password' \in BroadcastOrNone
      /\ status' \in [shows : ChannelShows, bno : BroadcastOrNone]
      /\ display' \in [shows : ChannelShows, bno : BroadcastOrNone]
  <2>0. /\ attempts \in 0 .. Retries /\ recording \in BroadcastOrNone /\ password \in BroadcastOrNone
        /\ status \in [shows : ChannelShows, bno : BroadcastOrNone]
        /\ display \in [shows : ChannelShows, bno : BroadcastOrNone]
        /\ held.bno \in BroadcastOrNone /\ 0 \in BroadcastOrNone /\ 0 \in 0 .. Retries
    BY <1>0, <1>2 DEF SessionsTyped, Sessions!SessionsTypeOK, BroadcastOrNone, HeldByTask, SessionBounds
  <2>1. CASE recording' = held.bno /\ attempts' = 0 /\ status' = [shows |-> "RECORDING", bno |-> held.bno]
             /\ doing' = "select" /\ display' = status' /\ UNCHANGED password
    BY <2>0, <2>1 DEF ChannelShows
  <2>2. CASE Sessions!Fails
    BY <2>0, <2>2 DEF ChannelShows
  <2>3. CASE attempts + 1 < Retries /\ attempts' = attempts + 1 /\ UNCHANGED <<doing, Sessions!show>>
    BY <2>0, <2>3 DEF Sessions!show, SessionBounds
  <2> QED BY <2>1, <2>2, <2>3 DEF Sessions!AskWorker, Sessions!ResolvePlugin
<1>5. SessionsTyped'
  BY <1>0, <1>1, <1>3, <1>4 DEF SessionsTyped, Sessions!SessionsTypeOK, BroadcastOrNone
<1>6. ConfigFollowsList' /\ CookiesFollowConfig' /\ ProbeIsOfTheList' /\ HeldIsOfItsBroadcast'
  BY <1>1 DEF SessionsInv, ConfigFollowsList, CookiesFollowConfig, ProbeIsOfTheList, HeldIsOfItsBroadcast,
     Sessions!RequiresSoop
<1>7. Sessions!SessionIsTheConfigured' /\ Sessions!RequestIsForItsBroadcast' /\ Sessions!OfflineIsTrue'
  BY <1>1, <1>3 DEF SessionsInv, Sessions!SessionIsTheConfigured, Sessions!RequestIsForItsBroadcast,
     Sessions!OfflineIsTrue
<1> QED BY <1>5, <1>6, <1>7 DEF SessionsInv

\* SessionsInv is inductive.
LEMMA SessionsStep ==
  ASSUME SessionBounds
  PROVE  SessionsInv /\ [Sessions!Next]_(Sessions!vars) => SessionsInv'
<1> SUFFICES ASSUME SessionsInv, [Sessions!Next]_(Sessions!vars) PROVE SessionsInv'
  OBVIOUS
<1>1. CASE Sessions!Next
  BY <1>1, WorldSteps, LoginSteps, TakingOver, ProbeSteps, TurnSteps, ResolveSteps DEF Sessions!Next
<1>2. CASE UNCHANGED Sessions!vars
  <2> USE <1>2 DEF Sessions!vars
  <2>1. SessionsTyped' /\ ConfigFollowsList' /\ CookiesFollowConfig'
    BY DEF SessionsInv, SessionsTyped, Sessions!SessionsTypeOK, ConfigFollowsList, CookiesFollowConfig,
           Sessions!RequiresSoop
  <2>2. ProbeIsOfTheList' /\ HeldIsOfItsBroadcast'
    BY DEF SessionsInv, ProbeIsOfTheList, HeldIsOfItsBroadcast
  <2>3. Sessions!SessionIsTheConfigured' /\ Sessions!RequestIsForItsBroadcast' /\ Sessions!OfflineIsTrue'
    BY DEF SessionsInv, Sessions!SessionIsTheConfigured, Sessions!RequestIsForItsBroadcast,
    Sessions!OfflineIsTrue
  <2> QED BY <2>1, <2>2, <2>3 DEF SessionsInv
<1> QED BY <1>1, <1>2

\* A behaviour of the composition is one of the sessions.
LEMMA SessionsPart == Spec => Sessions!Spec
<1>1. Init => Sessions!Init
  BY DEF Init
<1>2. [Next]_vars => [Sessions!Next]_(Sessions!vars)
  <2>1. Next => Sessions!Next \/ UNCHANGED sessions
    BY DEF Next, Only
  <2>2. UNCHANGED vars => UNCHANGED sessions
    BY DEF vars
  <2>3. UNCHANGED sessions => UNCHANGED Sessions!vars
    BY DEF sessions, Sessions!vars
  <2> QED BY <2>1, <2>2, <2>3
<1> QED BY <1>1, <1>2, PTL DEF Spec, Sessions!Spec

\* The invariant holds in every behaviour of the composition.
LEMMA SessionsAlways == Spec => []SessionsInv
<1>1. SessionBounds
  BY PartsAssumption DEF SessionBounds
<1> QED BY <1>1, SessionsPart, SessionsInit, SessionsStep, PTL DEF Sessions!Spec

\* Whatever is changed in between, cookies, Worker and passwords are the configured ones of the
\* broadcast they are used for: SoopLiveSession, resolve_stream and stream_password_for
\* (platform/live.rs, native_watcher.rs).
THEOREM SessionsAreTheConfigured == Spec => []SessionsAreSound
<1>1. SessionsInv => SessionsAreSound
  BY DEF SessionsInv, SessionsTyped, SessionsAreSound, Sessions!SessionsAreSound
<1> QED BY <1>1, SessionsAlways, PTL

\* No refusal, failure or unreachable service ends a recording: a channel is judged off only when
\* it was, or when a service other than KICK gave an answer of no documented form (the probes of
\* platform/live.rs).
THEOREM OffIsNotInvented == Spec => []OfflineIsTrue
<1>1. SessionsInv => OfflineIsTrue
  BY DEF SessionsInv, OfflineIsTrue
<1> QED BY <1>1, SessionsAlways, PTL

----------------------------------------------------------------------------
\* The previews of a live channel, for any number of requests, changes and refreshes.

\* The records of a row, an image, the entry of the cache and a fetch.
ChannelRow   == [running : BOOLEAN, bno : 0 .. MaxEvents, url : BOOLEAN, status : Previews!Statuses,
                 file : BOOLEAN, completed : 0 .. MaxEvents, revision : 0 .. MaxEvents]
ImageKey     == [bno : 0 .. MaxEvents, revision : 0 .. MaxEvents]
PreviewEntry == [bno : 1 .. MaxEvents, revision : 0 .. MaxEvents, generation : Nat, available : BOOLEAN,
                 attempted : BOOLEAN, blocked : BOOLEAN, image : ImageKey]
PreviewFetch == [token : Nat, bno : 1 .. MaxEvents, revision : 0 .. MaxEvents,
                 at : {"check", "load", "frame", "recheck", "answered"}, ok : BOOLEAN]

\* What the watcher shows, and what of it is on its way.
RowsAreTyped ==
  /\ row \in ChannelRow /\ row.bno <= happened /\ happened \in 0 .. MaxEvents
  /\ \/ carried = Previews!Nowhere
     \/ carried \in [at : {"asked"}, manual : BOOLEAN]
     \/ carried \in [at : {"read"}, manual : BOOLEAN, row : ChannelRow]
  /\ visible \in BOOLEAN /\ refreshes \in 0 .. MaxRefreshes /\ sequence \in Nat

\* A task for each token, and a token for each task.
TokensMatch(tokens, tasksOf) ==
  /\ tasksOf \subseteq PreviewFetch /\ tokens = {f.token : f \in tasksOf}
  /\ \A f, g \in tasksOf : f.token = g.token => f = g
  /\ IsFiniteSet(tokens) /\ IsFiniteSet(tasksOf) /\ Cardinality(tasksOf) = Cardinality(tokens)
  /\ Cardinality(tokens) <= MaxPending

\* A generation is asked for once, of the broadcast its entry is of; its picture is of it.
EntryAsksOnce(e, tasksOf, last) ==
  e # Previews!NoEntry =>
    /\ e \in PreviewEntry /\ e.generation \in 1 .. last
    /\ e.image \in {Previews!NoImage, [bno |-> e.bno, revision |-> e.revision]}
    /\ e.blocked => e.image = Previews!NoImage
    /\ \A f \in tasksOf : f.token = e.generation =>
         e.attempted /\ ~e.blocked /\ f.bno = e.bno /\ f.revision = e.revision

\* The inductive invariant of the previews.
PreviewsInv ==
  /\ RowsAreTyped /\ TokensMatch(awaiting, fetches) /\ EntryAsksOnce(entry, fetches, sequence)
  /\ awaiting \subseteq 1 .. sequence

\* What the proofs need of the constants.
PreviewBounds == MaxPending \in Nat /\ MaxEvents \in Nat /\ MaxRefreshes \in Nat

\* The module's instance of Cardinality is the library's.
LEMMA PreviewsCardinality == ASSUME NEW S PROVE Previews!Cardinality(S) = Cardinality(S)
  BY Zenon DEF Previews!Cardinality, Previews!IsFiniteSet, Cardinality, IsFiniteSet

\* The invariant holds at first.
LEMMA PreviewsInit ==
  ASSUME PreviewBounds
  PROVE  Previews!Init => PreviewsInv
<1> SUFFICES ASSUME Previews!Init PROVE PreviewsInv
  OBVIOUS
<1> USE DEF PreviewBounds, Previews!None
<1>1. RowsAreTyped
  <2>1. row = Previews!Fresh /\ carried = Previews!Nowhere /\ sequence = 0 /\ happened = 0
          /\ refreshes = 0
    BY DEF Previews!Init
  <2>2. visible \in BOOLEAN
    BY DEF Previews!Init
  <2>3. row \in ChannelRow /\ row.bno = 0
    BY <2>1 DEF ChannelRow, Previews!Fresh, Previews!Statuses
  <2> QED BY <2>1, <2>2, <2>3 DEF RowsAreTyped
<1>2. TokensMatch(awaiting, fetches)
  <2>1. awaiting = {} /\ fetches = {}
    BY DEF Previews!Init
  <2> QED BY <2>1, FS_EmptySet DEF TokensMatch
<1>3. EntryAsksOnce(entry, fetches, sequence) /\ awaiting \subseteq 1 .. sequence
  BY DEF EntryAsksOnce, Previews!Init
<1> QED BY <1>1, <1>2, <1>3 DEF PreviewsInv

\* The watcher's snapshot changes.
LEMMA SnapshotChanges ==
  ASSUME PreviewBounds, PreviewsInv,
         Previews!Seen \/ Previews!Finished \/ Previews!Fails \/ Previews!GoesOff \/ Previews!Stops
           \/ Previews!Restarts
  PROVE  PreviewsInv'
<1> USE DEF PreviewBounds, Previews!None
<1>0. RowsAreTyped
  BY DEF PreviewsInv
<1>1. /\ UNCHANGED <<carried, entry, sequence, awaiting, fetches, visible, refreshes>>
      /\ happened < MaxEvents /\ happened' = happened + 1
  BY DEF Previews!Seen, Previews!Finished, Previews!Fails, Previews!GoesOff, Previews!Stops,
  Previews!Restarts,
         Previews!Changes
<1>2. row' \in ChannelRow /\ row'.bno <= happened'
  <2>0. /\ row \in ChannelRow /\ row.bno <= happened /\ happened \in Nat
        /\ happened' \in 1 .. MaxEvents /\ row.bno \in Nat /\ row.bno < happened'
        /\ happened + 1 = happened'
    BY <1>0, <1>1 DEF RowsAreTyped, ChannelRow
  <2>9. 0 \in 0 .. MaxEvents /\ row.bno \in 0 .. MaxEvents /\ happened + 1 \in 0 .. MaxEvents
    BY <2>0 DEF ChannelRow
  <2>1. CASE Previews!Seen
    <3>1. PICK b \in {row.bno, row.bno + 1} \ {0}, s \in {"RECORDING", "PAUSED", "ERROR"} :
            row' = [row EXCEPT !.bno = b, !.url = (s # "ERROR"), !.status = s, !.file = (s = "RECORDING")]
      BY <2>1, Zenon DEF Previews!Seen, Previews!Changes, Previews!None
    <3>2. b \in 0 .. MaxEvents /\ b <= happened'
      BY <2>0
    <3>3. PICK u \in BOOLEAN, v \in BOOLEAN : row' = [row EXCEPT !.bno = b, !.url = u, !.status = s, !.file = v]
      BY <3>1
    <3>4. row' \in ChannelRow /\ row'.bno = b
      BY <2>0, <3>2, <3>3 DEF ChannelRow, Previews!Statuses
    <3> QED BY <3>2, <3>4
  <2>2. CASE Previews!Finished
    <3>1. PICK s \in {"UNKNOWN", "PAUSED", "ERROR"} :
            row' = [row EXCEPT !.completed = row.bno, !.revision = happened + 1, !.url = FALSE,
            !.file = FALSE,
                               !.status = s]
      BY <2>2, Zenon DEF Previews!Finished, Previews!Changes
    <3>2. PICK u \in BOOLEAN, n \in 0 .. MaxEvents, m \in 0 .. MaxEvents :
            row' = [row EXCEPT !.completed = n, !.revision = m, !.url = u, !.file = u, !.status = s]
      BY <2>9, <3>1
    <3>3. row' \in ChannelRow /\ row'.bno = row.bno
      BY <2>0, <3>2 DEF ChannelRow, Previews!Statuses
    <3> QED BY <2>0, <3>3
  <2>3. CASE Previews!Fails
    <3>1. row' = [row EXCEPT !.status = "ERROR", !.url = row.url /\ row.file]
      BY <2>3 DEF Previews!Fails, Previews!Changes
    <3>2. PICK u \in BOOLEAN : row' = [row EXCEPT !.status = "ERROR", !.url = u]
      BY <3>1
    <3>3. row' \in ChannelRow /\ row'.bno = row.bno
      BY <2>0, <3>2 DEF ChannelRow, Previews!Statuses
    <3> QED BY <2>0, <3>3
  <2>4. CASE Previews!GoesOff
    <3>1. row' = [row EXCEPT !.status = "OFFLINE", !.bno = 0, !.url = FALSE]
      BY <2>4 DEF Previews!GoesOff, Previews!Changes, Previews!None
    <3>3. PICK u \in BOOLEAN, n \in {0} : row' = [row EXCEPT !.status = "OFFLINE", !.bno = n, !.url = u]
      BY <3>1
    <3>2. row' \in ChannelRow /\ row'.bno = 0
      BY <2>0, <2>9, <3>3 DEF ChannelRow, Previews!Statuses
    <3> QED BY <2>0, <3>2
  <2>5. CASE Previews!Stops
    <3>1. row' = [row EXCEPT !.running = FALSE, !.status = "WATCHER_STOPPED", !.bno = 0, !.url = FALSE]
      BY <2>5 DEF Previews!Stops, Previews!Changes, Previews!None
    <3>3. PICK u \in BOOLEAN, n \in {0} :
            row' = [row EXCEPT !.running = u, !.status = "WATCHER_STOPPED", !.bno = n, !.url = u]
      BY <3>1
    <3>2. row' \in ChannelRow /\ row'.bno = 0
      BY <2>0, <2>9, <3>3 DEF ChannelRow, Previews!Statuses
    <3> QED BY <2>0, <3>2
  <2>6. CASE Previews!Restarts
    <3>1. row' = Previews!Fresh
      BY <2>6 DEF Previews!Restarts, Previews!Changes
    <3> QED BY <2>0, <3>1 DEF ChannelRow, Previews!Statuses, Previews!Fresh
  <2> QED BY <2>1, <2>2, <2>3, <2>4, <2>5, <2>6
<1>3. RowsAreTyped'
  BY <1>0, <1>1, <1>2 DEF RowsAreTyped
<1>4. TokensMatch(awaiting', fetches')
  BY <1>1 DEF PreviewsInv
<1> QED BY <1>1, <1>3, <1>4 DEF PreviewsInv, TokensMatch, EntryAsksOnce

\* What a request adds keeps tasks and tokens together, and the entry asks once.
LEMMA RequestsMatch ==
  ASSUME PreviewBounds, NEW e, NEW tokens, NEW tasksOf, NEW last \in Nat,
         TokensMatch(tokens, tasksOf), EntryAsksOnce(e, tasksOf, last), tokens \subseteq 1 .. last,
         Previews!Requests(e, tokens, tasksOf)
  PROVE  TokensMatch(awaiting', fetches') /\ EntryAsksOnce(entry', fetches', last)
           /\ awaiting' \subseteq 1 .. last
<1>1. CASE ~Previews!Wanted(e, tokens)
  <2>1. entry' = e /\ awaiting' = tokens /\ fetches' = tasksOf
    BY <1>1 DEF Previews!Requests
  <2> QED BY <2>1
<1>2. CASE Previews!Wanted(e, tokens)
  <2> DEFINE new == [token |-> e.generation, bno |-> e.bno, revision |-> e.revision, at |-> "check", ok |-> FALSE]
  <2>1. e # Previews!NoEntry /\ Cardinality(tokens) < MaxPending /\ ~e.attempted /\ ~e.blocked
    BY <1>2, PreviewsCardinality, Zenon DEF Previews!Wanted
  <2>2. /\ entry' = [e EXCEPT !.attempted = TRUE] /\ awaiting' = tokens \cup {e.generation}
        /\ fetches' = tasksOf \cup {new}
    BY <1>2 DEF Previews!Requests
  <2>3. /\ e \in PreviewEntry /\ e.generation \in 1 .. last
        /\ e.image \in {Previews!NoImage, [bno |-> e.bno, revision |-> e.revision]}
        /\ \A f \in tasksOf : f.token # e.generation
    BY <2>1 DEF EntryAsksOnce
  <2>4. /\ new \in PreviewFetch /\ new.token = e.generation
        /\ new.bno = e.bno /\ new.revision = e.revision
    BY <2>3 DEF PreviewFetch, PreviewEntry
  <2> HIDE DEF new
  <2>5. e.generation \notin tokens /\ new \notin tasksOf
    BY <2>3, <2>4 DEF TokensMatch
  <2>6. TokensMatch(awaiting', fetches')
    <3>1. /\ IsFiniteSet(awaiting') /\ Cardinality(awaiting') = Cardinality(tokens) + 1
          /\ IsFiniteSet(fetches') /\ Cardinality(fetches') = Cardinality(tasksOf) + 1
      BY <2>2, <2>5, FS_AddElement DEF TokensMatch
    <3>2. Cardinality(tokens) \in Nat
      BY FS_CardinalityType DEF TokensMatch
    <3>3. fetches' \subseteq PreviewFetch /\ awaiting' = {f.token : f \in fetches'}
      BY <2>2, <2>4 DEF TokensMatch
    <3>4. \A f, g \in fetches' : f.token = g.token => f = g
      BY <2>2, <2>3, <2>4 DEF TokensMatch
    <3> QED BY <2>1, <3>1, <3>2, <3>3, <3>4 DEF TokensMatch, PreviewBounds
  <2>7. /\ entry' \in PreviewEntry /\ entry'.attempted = TRUE /\ entry'.blocked = e.blocked
        /\ entry'.bno = e.bno
        /\ entry'.revision = e.revision /\ entry'.generation = e.generation /\ entry'.image = e.image
    BY <2>2, <2>3 DEF PreviewEntry
  <2>8. EntryAsksOnce(entry', fetches', last)
    <3>1. \A f \in fetches' : f.token = e.generation => f = new
      BY <2>2, <2>3
    <3> QED BY <2>1, <2>3, <2>4, <2>7, <3>1 DEF EntryAsksOnce
  <2> QED BY <2>2, <2>3, <2>6, <2>8
<1> QED BY <1>1, <1>2

\* The page is shown or hidden, and drawn; a status is asked for, read and received.
LEMMA StatusArrives ==
  ASSUME PreviewBounds, PreviewsInv,
         Previews!Toggle \/ Previews!Draw \/ Previews!AskStatus \/ Previews!ReadStatus
  PROVE  PreviewsInv'
<1>0. RowsAreTyped /\ TokensMatch(awaiting, fetches) /\ EntryAsksOnce(entry, fetches, sequence)
      /\ awaiting \subseteq 1 .. sequence
  BY DEF PreviewsInv
<1>1. CASE Previews!Draw
  <2>1. Previews!Requests(entry, awaiting, fetches)
          /\ UNCHANGED <<row, carried, sequence, visible, happened, refreshes>>
    BY <1>1 DEF Previews!Draw
  <2>2. sequence \in Nat /\ RowsAreTyped'
    BY <1>0, <2>1 DEF RowsAreTyped
  <2>3. /\ TokensMatch(awaiting', fetches') /\ EntryAsksOnce(entry', fetches', sequence)
        /\ awaiting' \subseteq 1 .. sequence
    BY <1>0, <2>1, <2>2, RequestsMatch
  <2> QED BY <2>1, <2>2, <2>3 DEF PreviewsInv, TokensMatch, EntryAsksOnce
<1>2. CASE Previews!Toggle \/ Previews!AskStatus \/ Previews!ReadStatus
  <2>1. UNCHANGED <<row, entry, sequence, awaiting, fetches, happened>>
    BY <1>2 DEF Previews!Toggle, Previews!AskStatus, Previews!ReadStatus
  <2>2. RowsAreTyped'
    <3>1. CASE Previews!Toggle
      <4>1. visible' \in BOOLEAN
        BY <3>1, Zenon DEF Previews!Toggle
      <4> QED BY <1>0, <2>1, <3>1, <4>1 DEF RowsAreTyped, Previews!Toggle
    <3>2. CASE Previews!AskStatus
      <4>1. PICK manual \in BOOLEAN :
              /\ manual => refreshes < MaxRefreshes
              /\ refreshes' = refreshes + (IF manual THEN 1 ELSE 0)
              /\ carried' = [at |-> "asked", manual |-> manual] /\ visible' = visible
        BY <3>2 DEF Previews!AskStatus
      <4>2. refreshes' \in 0 .. MaxRefreshes
        BY <1>0, <4>1 DEF RowsAreTyped, PreviewBounds
      <4>3. carried' \in [at : {"asked"}, manual : BOOLEAN]
        BY <4>1
      <4> QED BY <1>0, <2>1, <4>1, <4>2, <4>3 DEF RowsAreTyped
    <3>3. CASE Previews!ReadStatus
      <4>1. /\ carried.at = "asked" /\ carried' = [at |-> "read", manual |-> carried.manual, row |-> row]
            /\ UNCHANGED <<visible, refreshes>>
        BY <3>3 DEF Previews!ReadStatus
      <4>2. carried.manual \in BOOLEAN
        BY <1>0, <4>1 DEF RowsAreTyped, Previews!Nowhere
      <4>3. carried' \in [at : {"read"}, manual : BOOLEAN, row : ChannelRow]
        BY <1>0, <4>1, <4>2 DEF RowsAreTyped
      <4> QED BY <1>0, <2>1, <4>1, <4>3 DEF RowsAreTyped
    <3> QED BY <1>2, <3>1, <3>2, <3>3
  <2> QED BY <1>0, <2>1, <2>2 DEF PreviewsInv, TokensMatch, EntryAsksOnce
<1> QED BY <1>1, <1>2

\* A status is taken in: another broadcast, or a refresh, has a generation not asked for before.
LEMMA PreviewsSync ==
  ASSUME PreviewBounds, PreviewsInv, Previews!Sync
  PROVE  PreviewsInv'
<1> USE DEF PreviewBounds
<1>0. RowsAreTyped /\ TokensMatch(awaiting, fetches) /\ EntryAsksOnce(entry, fetches, sequence)
      /\ awaiting \subseteq 1 .. sequence /\ sequence \in Nat
  BY DEF PreviewsInv, RowsAreTyped
<1>1. PICK r : r = carried.row
  OBVIOUS
<1>2. carried.at = "read" /\ r \in ChannelRow /\ carried.manual \in BOOLEAN
  BY <1>0, <1>1 DEF RowsAreTyped, Previews!Nowhere, Previews!Sync
<1>3. PICK manual \in BOOLEAN : manual = carried.manual
  BY <1>2
<1>4. UNCHANGED <<row, visible, happened, refreshes>> /\ carried' = Previews!Nowhere
  BY DEF Previews!Sync
<1>5. PICK other \in BOOLEAN : other = (Previews!HasCurrent(r) /\ Previews!IsOther(r))
  BY Zenon
<1>6. PICK asks \in BOOLEAN : asks = (Previews!HasCurrent(r) /\ manual)
  BY Zenon
<1> DEFINE n == IF other THEN sequence + 1 ELSE sequence
           last == IF asks THEN n + 1 ELSE n
           k == IF Previews!IsOther(r) THEN Previews!NewEntry(r) ELSE entry
           e == IF Previews!HasCurrent(r) THEN Previews!Synced(r, manual) ELSE Previews!NoEntry
<1>7. sequence' = last
  <2>1. sequence' = sequence + (IF other THEN 1 ELSE 0) + (IF asks THEN 1 ELSE 0)
    BY <1>1, <1>3, <1>5, <1>6 DEF Previews!Sync
  <2> QED BY <1>0, <2>1
<1>8. Previews!Requests(e, awaiting, fetches)
  BY <1>1, <1>3 DEF Previews!Sync
<1>9. sequence <= n /\ n <= last /\ n \in Nat /\ last \in Nat
  BY <1>0
<1>10. \A f \in fetches : f.token \in 1 .. sequence
  BY <1>0 DEF TokensMatch
<1>11. EntryAsksOnce(e, fetches, last)
  <2>1. CASE ~Previews!HasCurrent(r)
    BY <2>1 DEF EntryAsksOnce
  <2>2. CASE Previews!HasCurrent(r)
    <3>1. r.bno \in 1 .. MaxEvents
      BY <1>2, <2>2 DEF Previews!HasCurrent, ChannelRow, Previews!None
    <3>2. (other <=> Previews!IsOther(r)) /\ (asks <=> manual)
      BY <1>5, <1>6, <2>2
    <3>3. EntryAsksOnce(k, fetches, n) /\ k # Previews!NoEntry
      <4>1. CASE other
        <5> DEFINE w == Previews!NewEntry(r)
        <5>1. k = w /\ n = sequence + 1
          BY <3>2, <4>1
        <5>2. (r.completed = r.bno) \in BOOLEAN
          OBVIOUS
        <5>3. /\ w \in PreviewEntry /\ w.generation = sequence + 1 /\ w.image = Previews!NoImage
              /\ w # Previews!NoEntry
          BY <1>0, <1>2, <3>1, <5>2 DEF Previews!NewEntry, PreviewEntry, ChannelRow, ImageKey,
          Previews!NoImage,
             Previews!None, Previews!NoEntry
        <5> HIDE DEF w, k, n
        <5>4. \A f \in fetches : f.token # w.generation
          BY <1>0, <1>10, <5>3
        <5> QED BY <1>0, <5>1, <5>3, <5>4 DEF EntryAsksOnce
      <4>2. CASE ~other
        <5>1. k = entry /\ n = sequence /\ entry # Previews!NoEntry
          BY <3>2, <4>2 DEF Previews!IsOther
        <5> QED BY <1>0, <5>1
      <4> QED BY <4>1, <4>2
    <3>4. e = IF manual THEN [k EXCEPT !.available = r.url, !.generation = n + 1, !.blocked = FALSE, !.attempted = FALSE]
              ELSE [k EXCEPT !.available = r.url]
      BY <2>2, <3>2 DEF Previews!Synced
    <3>5. k \in PreviewEntry /\ k.generation \in 1 .. n
          /\ k.image \in {Previews!NoImage, [bno |-> k.bno, revision |-> k.revision]}
      BY <3>3 DEF EntryAsksOnce
    <3>6. r.url \in BOOLEAN
      BY <1>2 DEF ChannelRow
    <3> HIDE DEF k, e, n
    <3>7. CASE manual
      <4>1. e = [k EXCEPT !.available = r.url, !.generation = n + 1, !.blocked = FALSE, !.attempted = FALSE]
        BY <3>4, <3>7
      <4>2. /\ e \in PreviewEntry /\ e.generation = n + 1 /\ e.blocked = FALSE
            /\ e.bno = k.bno /\ e.revision = k.revision /\ e.image = k.image
        <5>1. n + 1 \in Nat /\ k \in PreviewEntry
          BY <1>9, <3>5
        <5> QED BY <3>6, <4>1, <5>1 DEF PreviewEntry
      <4>3. \A f \in fetches : f.token # e.generation
        BY <1>0, <1>9, <1>10, <4>2
      <4>4. last = n + 1
        BY <3>2, <3>7
      <4> QED BY <1>9, <3>5, <4>2, <4>3, <4>4 DEF EntryAsksOnce
    <3>8. CASE ~manual
      <4>1. e = [k EXCEPT !.available = r.url]
        BY <3>4, <3>8
      <4>2. /\ e \in PreviewEntry /\ e.generation = k.generation /\ e.blocked = k.blocked
            /\ e.attempted = k.attempted
            /\ e.bno = k.bno /\ e.revision = k.revision /\ e.image = k.image
        BY <3>5, <3>6, <4>1 DEF PreviewEntry
      <4>3. last = n
        BY <3>2, <3>8
      <4> QED BY <3>3, <4>2, <4>3 DEF EntryAsksOnce
    <3> QED BY <3>7, <3>8
  <2> QED BY <2>1, <2>2
<1>12. awaiting \subseteq 1 .. last
  BY <1>0, <1>9
<1> HIDE DEF e, last, n, k
<1>13. /\ TokensMatch(awaiting', fetches') /\ EntryAsksOnce(entry', fetches', last)
       /\ awaiting' \subseteq 1 .. last
  BY <1>0, <1>8, <1>9, <1>11, <1>12, RequestsMatch
<1>14. RowsAreTyped'
  BY <1>0, <1>4, <1>7, <1>9 DEF RowsAreTyped
<1>15. TokensMatch(awaiting, fetches)' /\ EntryAsksOnce(entry, fetches, sequence)'
  BY <1>7, <1>13 DEF TokensMatch, EntryAsksOnce
<1> QED BY <1>7, <1>13, <1>14, <1>15 DEF PreviewsInv

\* An answer is taken by the entry that asked, and the next request is made.
LEMMA PreviewsComplete ==
  ASSUME PreviewBounds, PreviewsInv, NEW f \in fetches, Previews!Complete(f)
  PROVE  PreviewsInv'
<1>0. RowsAreTyped /\ TokensMatch(awaiting, fetches) /\ EntryAsksOnce(entry, fetches, sequence)
      /\ awaiting \subseteq 1 .. sequence /\ sequence \in Nat
  BY DEF PreviewsInv, RowsAreTyped
<1>1. UNCHANGED <<row, carried, sequence, visible, happened, refreshes>>
  BY DEF Previews!Complete
<1> DEFINE e == IF Previews!IsFor(entry, f) /\ f.ok
                THEN [entry EXCEPT !.image = [bno |-> f.bno, revision |-> f.revision]] ELSE entry
           tokens == awaiting \ {f.token}
           others == fetches \ {f}
<1>2. Previews!Requests(e, tokens, others)
  BY DEF Previews!Complete
<1>3. TokensMatch(tokens, others)
  <2>1. f.token \in awaiting /\ IsFiniteSet(awaiting) /\ IsFiniteSet(fetches)
    BY <1>0 DEF TokensMatch
  <2>2. /\ IsFiniteSet(tokens) /\ Cardinality(tokens) = Cardinality(awaiting) - 1
        /\ IsFiniteSet(others) /\ Cardinality(others) = Cardinality(fetches) - 1
    BY <2>1, FS_RemoveElement
  <2>3. Cardinality(awaiting) \in Nat /\ Cardinality(fetches) \in Nat
    BY <2>1, FS_CardinalityType
  <2>4. others \subseteq PreviewFetch /\ tokens = {g.token : g \in others}
    BY <1>0 DEF TokensMatch
  <2>5. \A g, h \in others : g.token = h.token => g = h
    BY <1>0 DEF TokensMatch
  <2> HIDE DEF tokens, others
  <2> QED BY <1>0, <2>2, <2>3, <2>4, <2>5 DEF TokensMatch, PreviewBounds
<1>4. EntryAsksOnce(e, others, sequence)
  <2>1. CASE Previews!IsFor(entry, f) /\ f.ok
    <3>1. entry # Previews!NoEntry /\ entry.generation = f.token
      BY <2>1 DEF Previews!IsFor
    <3>2. /\ entry \in PreviewEntry /\ entry.attempted /\ ~entry.blocked
          /\ f.bno = entry.bno /\ f.revision = entry.revision /\ f \in PreviewFetch
      BY <1>0, <3>1 DEF EntryAsksOnce, TokensMatch
    <3> DEFINE i == [bno |-> f.bno, revision |-> f.revision]
    <3>3. i \in ImageKey /\ i = [bno |-> entry.bno, revision |-> entry.revision]
      BY <3>2 DEF PreviewFetch, ImageKey
    <3>4. e = [entry EXCEPT !.image = i]
      BY <2>1
    <3> HIDE DEF i, e
    <3>5. /\ e \in PreviewEntry /\ e.generation = entry.generation /\ e.blocked = entry.blocked
          /\ e.attempted = entry.attempted /\ e.bno = entry.bno /\ e.revision = entry.revision
          /\ e.image = i
      BY <3>2, <3>3, <3>4 DEF PreviewEntry
    <3> QED BY <1>0, <3>1, <3>2, <3>3, <3>5 DEF EntryAsksOnce
  <2>2. CASE ~(Previews!IsFor(entry, f) /\ f.ok)
    <3>1. e = entry
      BY <2>2
    <3> QED BY <1>0, <3>1 DEF EntryAsksOnce
  <2> QED BY <2>1, <2>2
<1>5. tokens \subseteq 1 .. sequence
  BY <1>0
<1> HIDE DEF e, tokens, others
<1>6. TokensMatch(awaiting', fetches') /\ EntryAsksOnce(entry', fetches', sequence)
        /\ awaiting' \subseteq 1 .. sequence
  BY <1>0, <1>2, <1>3, <1>4, <1>5, RequestsMatch
<1>7. RowsAreTyped'
  BY <1>0, <1>1 DEF RowsAreTyped
<1>8. TokensMatch(awaiting, fetches)' /\ EntryAsksOnce(entry, fetches, sequence)'
  BY <1>1, <1>6 DEF TokensMatch, EntryAsksOnce
<1> QED BY <1>1, <1>6, <1>7, <1>8 DEF PreviewsInv

\* A task in the core goes on with its request, whose token and broadcast stay.
LEMMA PreviewsGo ==
  ASSUME PreviewBounds, PreviewsInv, NEW f \in fetches,
         Previews!Check(f) \/ Previews!Load(f) \/ Previews!Frame(f) \/ Previews!Recheck(f)
  PROVE  PreviewsInv'
<1>0. RowsAreTyped /\ TokensMatch(awaiting, fetches) /\ EntryAsksOnce(entry, fetches, sequence)
      /\ awaiting \subseteq 1 .. sequence
  BY DEF PreviewsInv
<1>1. PICK to \in {"load", "frame", "recheck", "answered"}, ok \in BOOLEAN : Previews!Goes(f, to, ok)
  <2>1. Previews!StillCurrent(f) \in BOOLEAN
    BY Zenon DEF Previews!StillCurrent
  <2>2. CASE Previews!Check(f)
    BY <2>2 DEF Previews!Check
  <2>3. CASE Previews!Load(f)
    BY <2>3 DEF Previews!Load
  <2>4. CASE Previews!Frame(f)
    BY <2>4 DEF Previews!Frame
  <2>5. CASE Previews!Recheck(f)
    BY <2>1, <2>5 DEF Previews!Recheck
  <2> QED BY <2>2, <2>3, <2>4, <2>5
<1> DEFINE g == [f EXCEPT !.at = to, !.ok = ok]
           rest == fetches \ {f}
<1>2. fetches' = rest \cup {g}
        /\ UNCHANGED <<row, carried, entry, sequence, awaiting, visible, happened, refreshes>>
  BY <1>1 DEF Previews!Goes
<1>3. f \in PreviewFetch
  BY <1>0 DEF TokensMatch
<1>4. g \in PreviewFetch /\ g.token = f.token /\ g.bno = f.bno /\ g.revision = f.revision
  BY <1>3 DEF PreviewFetch
<1> HIDE DEF g
<1>5. \A h \in rest : h.token # g.token
  BY <1>0, <1>4 DEF TokensMatch
<1>6. TokensMatch(awaiting', fetches')
  <2>1. /\ IsFiniteSet(rest) /\ Cardinality(rest) = Cardinality(fetches) - 1
    BY <1>0, FS_RemoveElement DEF TokensMatch
  <2>2. g \notin rest
    BY <1>5
  <2>3. IsFiniteSet(fetches') /\ Cardinality(fetches') = Cardinality(rest) + 1
    BY <1>2, <2>1, <2>2, FS_AddElement
  <2>4. Cardinality(fetches) \in Nat
    BY <1>0, FS_CardinalityType DEF TokensMatch
  <2>5. fetches' \subseteq PreviewFetch /\ awaiting' = {h.token : h \in fetches'}
    BY <1>0, <1>2, <1>4 DEF TokensMatch
  <2>6. \A h, k \in fetches' : h.token = k.token => h = k
    BY <1>0, <1>2, <1>5 DEF TokensMatch
  <2>7. Cardinality(fetches') = Cardinality(fetches)
    BY <2>1, <2>3, <2>4
  <2>8. /\ awaiting' = awaiting /\ IsFiniteSet(awaiting) /\ Cardinality(awaiting) <= MaxPending
        /\ Cardinality(fetches) = Cardinality(awaiting)
    BY <1>0, <1>2 DEF TokensMatch
  <2> QED BY <2>3, <2>5, <2>6, <2>7, <2>8 DEF TokensMatch
<1>7. EntryAsksOnce(entry, fetches', sequence)
  BY <1>0, <1>2, <1>4 DEF EntryAsksOnce
<1>8. RowsAreTyped'
  BY <1>0, <1>2 DEF RowsAreTyped
<1>9. TokensMatch(awaiting, fetches)' /\ EntryAsksOnce(entry, fetches, sequence)'
  BY <1>2, <1>6, <1>7 DEF TokensMatch, EntryAsksOnce
<1> QED BY <1>0, <1>2, <1>8, <1>9 DEF PreviewsInv

\* PreviewsInv is inductive.
LEMMA PreviewsStep ==
  ASSUME PreviewBounds
  PROVE  PreviewsInv /\ [Previews!Next]_(Previews!vars) => PreviewsInv'
<1> SUFFICES ASSUME PreviewsInv, [Previews!Next]_(Previews!vars) PROVE PreviewsInv'
  OBVIOUS
<1>1. CASE Previews!Next
  BY <1>1, SnapshotChanges, StatusArrives, PreviewsSync, PreviewsComplete, PreviewsGo DEF Previews!Next
<1>2. CASE UNCHANGED Previews!vars
  BY <1>2 DEF Previews!vars, PreviewsInv, RowsAreTyped, TokensMatch, EntryAsksOnce
<1> QED BY <1>1, <1>2

\* A behaviour of the composition is one of the previews.
LEMMA PreviewsPart == Spec => Previews!Spec
<1>1. Init => Previews!Init
  BY DEF Init
<1>2. [Next]_vars => [Previews!Next]_(Previews!vars)
  <2>1. Next => Previews!Next \/ UNCHANGED previews
    BY DEF Next, Only
  <2>2. UNCHANGED vars => UNCHANGED previews
    BY DEF vars
  <2>3. UNCHANGED previews => UNCHANGED Previews!vars
    BY DEF previews, Previews!vars
  <2> QED BY <2>1, <2>2, <2>3
<1> QED BY <1>1, <1>2, PTL DEF Spec, Previews!Spec

\* However late and in whatever order previews are answered, the picture of a live channel is of
\* the broadcast shown, and no request runs beyond the limit or unaccounted for: sync, requests
\* and complete (thumbnail_adapter.rs), live_thumbnail (app_core.rs).
THEOREM PicturesAreOfTheBroadcast == Spec => []PreviewsAreCurrent
<1>1. PreviewBounds
  BY PartsAssumption DEF PreviewBounds
<1>2. PreviewsInv => PreviewsAreCurrent
  <2> SUFFICES ASSUME PreviewsInv PROVE Previews!PreviewsAreCurrent
    BY DEF PreviewsAreCurrent
  <2> USE DEF PreviewsInv, TokensMatch, EntryAsksOnce
  <2>1. Previews!PictureIsOfTheBroadcast
    BY DEF Previews!PictureIsOfTheBroadcast
  <2>2. Previews!LimitIsOfTheTasks
    BY PreviewsCardinality DEF Previews!LimitIsOfTheTasks
  <2>3. \A f \in fetches : f.at \in {"check", "load", "frame", "recheck", "answered"}
    BY DEF PreviewFetch
  <2>4. entry # Previews!NoEntry => entry.generation \in 1 .. sequence /\ entry.image.bno \in 0 .. MaxEvents
    BY DEF PreviewEntry, ImageKey
  <2>5. /\ row.status \in Previews!Statuses /\ row.bno \in 0 .. MaxEvents
        /\ row.revision \in 0 .. MaxEvents
        /\ visible \in BOOLEAN /\ happened \in 0 .. MaxEvents /\ refreshes \in 0 .. MaxRefreshes
    BY DEF RowsAreTyped, ChannelRow
  <2>6. carried.at \in {"none", "asked", "read"}
    BY DEF RowsAreTyped, Previews!Nowhere
  <2>7. Previews!ThumbnailsTypeOK
    BY <2>3, <2>4, <2>5, <2>6 DEF Previews!ThumbnailsTypeOK
  <2> QED BY <2>1, <2>2, <2>7 DEF Previews!PreviewsAreCurrent
<1> QED BY <1>1, <1>2, PreviewsPart, PreviewsInit, PreviewsStep, PTL DEF Previews!Spec

----------------------------------------------------------------------------
\* The VOD page, for any videos, generations and jobs.

\* What the page asks the facade, what it gets, and a preview that is under way.
PageKinds  == {"analyze", "download", "refresh", "poll"}
PageAsked  == [kind : PageKinds, url : Urls \cup {NoUrl}, at : {"asked"}]
PageAnswer == [kind : PageKinds, at : {"answered"}, ok : BOOLEAN, known : BOOLEAN,
               job : {Page!NoJob} \cup Page!Jobs, url : Urls \cup {NoUrl}]
PagePreview == [at : {"check", "load", "answered"}, generation : 0 .. MaxLooks, job : Page!Jobs,
url : Urls,
                ok : BOOLEAN]

\* What the type invariant does not say of requests, answers and previews.
PageTyped ==
  /\ draft \in [url : Urls \cup {NoUrl}, analyzed : Urls \cup {NoUrl}, job : {Page!NoJob} \cup Page!Jobs]
  /\ generation \in 0 .. MaxLooks /\ waiting \in BOOLEAN /\ polling \in BOOLEAN
  /\ line \in Seq(PageAsked \cup PageAnswer)
  /\ facade \in [job : {Page!NoJob} \cup Page!Jobs, running : BOOLEAN, known : BOOLEAN]
  /\ videos \in [Page!Jobs -> Urls \cup {NoUrl}]
  /\ sent.job \in {Page!NoJob} \cup Page!Jobs
  /\ picturing \in {Page!NoJob} \cup Page!Jobs
  /\ preview \in {Page!NoPreview} \cup PagePreview

\* A job that runs, or is known, is one of those begun, which have their videos for good.
JobsHaveVideos ==
  /\ \A j \in 1 .. facade.job : videos[j] \in Urls
  /\ facade.running \/ facade.known => facade.job # Page!NoJob

\* At most one command and one poll are out, and the page waits for them.
OneOfEach ==
  /\ \A i, k \in 1 .. Len(line) : (line[i].kind = "poll") = (line[k].kind = "poll") => i = k
  /\ \A i \in 1 .. Len(line) : IF line[i].kind = "poll" THEN polling ELSE waiting

\* A request that starts a job names a video, and an answer tells the video of its job.
LineIsTrue ==
  \A i \in 1 .. Len(line) :
    /\ line[i].at = "asked" /\ line[i].kind \in {"analyze", "download"} => line[i].url \in Urls
    /\ line[i].at = "answered" /\ line[i].known => line[i].job \in 1 .. facade.job /\ line[i].url = videos[line[i].job]

\* What the page shows, sent and asks a preview for is of jobs that have begun.
PageFollowsJobs ==
  /\ draft.job <= facade.job /\ sent.job <= facade.job /\ picturing <= facade.job
  /\ preview # Page!NoPreview => preview.job <= facade.job /\ preview.url = videos[preview.job]

\* The inductive invariant of the page.
PageInv ==
  /\ PageTyped /\ JobsHaveVideos /\ OneOfEach /\ LineIsTrue /\ PageFollowsJobs
  /\ Page!ChoicesAreOfTheVideo /\ Page!PreviewIsOfTheVideo

\* What the proofs need of the constants.
PageBounds == /\ MaxLooks \in Nat /\ MaxVodJobs \in Nat /\ NoUrl \notin Urls

\* The invariant holds at first.
LEMMA PageInit ==
  ASSUME PageBounds
  PROVE  Page!Init => PageInv
<1> SUFFICES ASSUME Page!Init PROVE PageInv
  OBVIOUS
<1> USE DEF Page!Init, PageBounds, Page!NoJob, Page!Jobs
<1>1. PageTyped
  <2>0. line = <<>> /\ waiting = FALSE /\ polling = FALSE
    OBVIOUS
  <2>1. waiting \in BOOLEAN /\ polling \in BOOLEAN
    BY <2>0, Zenon
  <2>6. line \in Seq(PageAsked \cup PageAnswer)
    <3> DEFINE Entry == PageAsked \cup PageAnswer
    <3> HIDE DEF Entry
    <3>1. line \in Seq(Entry)
      BY <2>0
    <3> QED BY <3>1 DEF Entry
  <2>2. facade \in [job : {Page!NoJob} \cup Page!Jobs, running : BOOLEAN, known : BOOLEAN]
    BY SMT
  <2>3. videos \in [Page!Jobs -> Urls \cup {NoUrl}] /\ generation \in 0 .. MaxLooks
    BY SMT
  <2>4. draft \in [url : Urls \cup {NoUrl}, analyzed : Urls \cup {NoUrl}, job : {Page!NoJob} \cup Page!Jobs]
    BY SMT
  <2>5. sent.job \in {Page!NoJob} \cup Page!Jobs /\ picturing \in {Page!NoJob} \cup Page!Jobs
    BY SMT
  <2> QED BY <2>1, <2>2, <2>3, <2>4, <2>5, <2>6 DEF PageTyped
<1>2. JobsHaveVideos /\ OneOfEach /\ LineIsTrue
  BY DEF JobsHaveVideos, OneOfEach, LineIsTrue
<1>3. PageFollowsJobs
  BY DEF PageFollowsJobs
<1>4. Page!ChoicesAreOfTheVideo /\ Page!PreviewIsOfTheVideo
  BY DEF Page!ChoicesAreOfTheVideo, Page!PreviewIsOfTheVideo, Page!VideoOf, Page!Analysed
<1> QED BY <1>1, <1>2, <1>3, <1>4 DEF PageInv

\* A request is put at the end of the line; the page waits for it.
LEMMA Asks ==
  ASSUME PageInv, NEW e \in PageAsked, line' = Append(line, e), UNCHANGED Page!core,
         e.kind \in {"analyze", "download"} => e.url \in Urls,
         IF e.kind = "poll" THEN ~polling /\ polling' /\ waiting' = waiting
                            ELSE ~waiting /\ waiting' /\ polling' = polling
  PROVE  /\ line' \in Seq(PageAsked \cup PageAnswer)
         /\ OneOfEach' /\ LineIsTrue' /\ JobsHaveVideos'
<1> DEFINE Entry == PageAsked \cup PageAnswer
<1> HIDE DEF Entry
<1>0. line \in Seq(Entry) /\ e \in Entry
  BY DEF PageInv, PageTyped, Entry
<1>1. /\ line' \in Seq(Entry) /\ Len(line') = Len(line) + 1 /\ line'[Len(line) + 1] = e
      /\ \A i \in 1 .. Len(line) : line'[i] = line[i]
  BY <1>0
<1>2. OneOfEach'
  <2>1. \A i \in 1 .. Len(line) : (line[i].kind = "poll") # (e.kind = "poll")
    BY DEF PageInv, OneOfEach
  <2>2. Len(line) \in Nat
    BY <1>0
  <2>3. \A i \in 1 .. Len(line') : IF line'[i].kind = "poll" THEN polling' ELSE waiting'
    BY <1>1, <2>2 DEF PageInv, OneOfEach
  <2> QED BY <1>1, <2>1, <2>2, <2>3 DEF PageInv, OneOfEach
<1>3. LineIsTrue'
  <2>2. Len(line) \in Nat /\ e.at = "asked"
    BY <1>0 DEF PageAsked
  <2> QED BY <1>1, <2>2 DEF PageInv, LineIsTrue, Page!core
<1>4. JobsHaveVideos'
  BY DEF PageInv, JobsHaveVideos, Page!core
<1> QED BY <1>1, <1>2, <1>3, <1>4 DEF Entry

\* What the user and the timer do.
LEMMA PageCommands ==
  ASSUME PageBounds, PageInv,
         (\E url \in Urls : Page!EditUrl(url)) \/ Page!Analyze \/ Page!Download \/ Page!Refresh
           \/ Page!Poll
  PROVE  PageInv'
<1> USE DEF PageBounds, Page!NoJob, Page!Jobs
<1>0. PageTyped
  BY DEF PageInv
<1>1. CASE \E url \in Urls : Page!EditUrl(url)
  <2>1. PICK url \in Urls : Page!EditUrl(url)
    BY <1>1
  <2> USE <1>0, <2>1 DEF Page!EditUrl, Page!BeginAnalysis, Page!core
  <2>2. PageTyped'
    BY DEF PageTyped
  <2>3. JobsHaveVideos' /\ OneOfEach' /\ LineIsTrue'
    BY DEF PageInv, JobsHaveVideos, OneOfEach, LineIsTrue
  <2>4. PageFollowsJobs'
    BY DEF PageInv, PageFollowsJobs, PageTyped
  <2>5. Page!ChoicesAreOfTheVideo' /\ Page!PreviewIsOfTheVideo'
    BY DEF PageInv, Page!ChoicesAreOfTheVideo, Page!PreviewIsOfTheVideo, Page!VideoOf, Page!Analysed
  <2> QED BY <2>2, <2>3, <2>4, <2>5 DEF PageInv
<1>2. CASE Page!Analyze
  <2> USE <1>0, <1>2 DEF Page!Analyze, Page!Send, Page!BeginAnalysis
  <2> DEFINE e == [kind |-> "analyze", url |-> draft.url, at |-> "asked"]
  <2>1. e \in PageAsked /\ e.kind = "analyze" /\ e.url \in Urls
    BY DEF PageAsked, PageTyped, PageKinds
  <2>2. line' = Append(line, e) /\ UNCHANGED Page!core
    OBVIOUS
  <2> HIDE DEF e
  <2>3. /\ line' \in Seq(PageAsked \cup PageAnswer) /\ OneOfEach' /\ LineIsTrue' /\ JobsHaveVideos'
    BY <2>1, <2>2, Asks
  <2>4. PageTyped'
    BY <2>3 DEF PageTyped, Page!core
  <2>5. PageFollowsJobs'
    BY DEF PageInv, PageFollowsJobs, PageTyped, Page!core
  <2>6. Page!ChoicesAreOfTheVideo' /\ Page!PreviewIsOfTheVideo'
    BY DEF PageInv, Page!ChoicesAreOfTheVideo, Page!PreviewIsOfTheVideo, Page!VideoOf, Page!Analysed,
           PageTyped, Page!core
  <2> QED BY <2>3, <2>4, <2>5, <2>6 DEF PageInv
<1>3. CASE Page!Download \/ Page!Refresh \/ Page!Poll
  <2> USE <1>0 DEF Page!Download, Page!Refresh, Page!Poll, Page!Send, Page!images
  <2>1. PICK e \in PageAsked :
          /\ line' = Append(line, e) /\ (e.kind \in {"analyze", "download"} => e.url \in Urls)
          /\ IF e.kind = "poll" THEN ~polling /\ polling' /\ waiting' = waiting
                                ELSE ~waiting /\ waiting' /\ polling' = polling
    <3>1. CASE Page!Download
      <4> DEFINE e == [kind |-> "download", url |-> draft.url, at |-> "asked"]
      <4>1. e \in PageAsked /\ e.kind = "download" /\ e.url \in Urls
        BY <3>1 DEF PageAsked, PageTyped, PageKinds, Page!CanDownload, Page!Analysed
      <4> QED BY <3>1, <4>1
    <3>2. CASE Page!Refresh
      <4> DEFINE e == [kind |-> "refresh", url |-> draft.url, at |-> "asked"]
      <4>1. e \in PageAsked /\ e.kind = "refresh"
        BY <3>2 DEF PageAsked, PageTyped, PageKinds
      <4> QED BY <3>2, <4>1
    <3>3. CASE Page!Poll
      <4> DEFINE e == [kind |-> "poll", url |-> NoUrl, at |-> "asked"]
      <4>1. e \in PageAsked /\ e.kind = "poll"
        BY <3>3 DEF PageAsked, PageTyped, PageKinds
      <4> QED BY <3>3, <4>1
    <3> QED BY <1>3, <3>1, <3>2, <3>3
  <2>2. UNCHANGED <<draft, generation, facade, videos, picture, picturing, tried, preview>>
    BY <1>3 DEF Page!core
  <2>3. /\ line' \in Seq(PageAsked \cup PageAnswer) /\ OneOfEach' /\ LineIsTrue' /\ JobsHaveVideos'
    BY <2>1, <2>2, Asks DEF Page!core
  <2>4. sent' = sent \/ sent' = [url |-> draft.url, job |-> draft.job]
    BY <1>3
  <2>5. PageTyped'
    <3>1. sent'.job \in {Page!NoJob} \cup Page!Jobs
      BY <2>4 DEF PageTyped
    <3>2. waiting' \in BOOLEAN /\ polling' \in BOOLEAN
      BY <1>3 DEF PageTyped
    <3> QED BY <2>2, <2>3, <3>1, <3>2 DEF PageTyped
  <2>6. PageFollowsJobs'
    BY <2>2, <2>4 DEF PageInv, PageFollowsJobs, PageTyped
  <2>7. Page!ChoicesAreOfTheVideo'
    BY <1>3, <2>2, <2>4 DEF PageInv, Page!ChoicesAreOfTheVideo, Page!VideoOf, Page!Analysed, PageTyped,
    Page!CanDownload
  <2>8. Page!PreviewIsOfTheVideo'
    BY <2>2 DEF PageInv, Page!PreviewIsOfTheVideo, Page!VideoOf, Page!Analysed
  <2> QED BY <2>3, <2>5, <2>6, <2>7, <2>8 DEF PageInv
<1> QED BY <1>1, <1>2, <1>3

\* The core only adds jobs: those that have begun keep their videos.
JobsGrow == facade'.job \in facade.job .. MaxVodJobs /\ \A j \in 1 .. facade.job : videos'[j] = videos[j]

\* A job starts.
LEMMA JobStarts ==
  ASSUME PageBounds, PageInv, Page!CanStart, NEW url \in Urls, Page!Started(url)
  PROVE  /\ facade' \in [job : {Page!NoJob} \cup Page!Jobs, running : BOOLEAN, known : BOOLEAN]
         /\ videos' \in [Page!Jobs -> Urls \cup {NoUrl}]
         /\ JobsHaveVideos' /\ JobsGrow
<1> USE DEF PageBounds, Page!NoJob, Page!Jobs, Page!CanStart, Page!Started
<1>1. PageTyped /\ JobsHaveVideos
  BY DEF PageInv
<1>2. facade' \in [job : {Page!NoJob} \cup Page!Jobs, running : BOOLEAN, known : BOOLEAN]
  BY <1>1 DEF PageTyped
<1>3. videos' \in [Page!Jobs -> Urls \cup {NoUrl}]
  BY <1>1 DEF PageTyped
<1>4. JobsGrow
  BY <1>1 DEF PageTyped, JobsGrow
<1>5. JobsHaveVideos'
  BY <1>1 DEF PageTyped, JobsHaveVideos
<1> QED BY <1>2, <1>3, <1>4, <1>5

\* What holds of the page stays when jobs are added.
LEMMA JobsAreAdded ==
  ASSUME PageBounds, PageInv, JobsGrow,
         UNCHANGED <<draft, generation, sent, picture, picturing>>
  PROVE  /\ Page!ChoicesAreOfTheVideo' /\ Page!PreviewIsOfTheVideo'
         /\ draft'.job <= facade'.job /\ sent'.job <= facade'.job /\ picturing' <= facade'.job
<1> USE DEF PageBounds, Page!NoJob, Page!Jobs
<1>1. PageTyped /\ PageFollowsJobs /\ Page!ChoicesAreOfTheVideo /\ Page!PreviewIsOfTheVideo
  BY DEF PageInv
<1>2. \A j \in 0 .. facade.job : Page!VideoOf(j)' = Page!VideoOf(j)
  BY DEF Page!VideoOf, JobsGrow
<1>3. draft.job \in 0 .. facade.job /\ sent.job \in 0 .. facade.job /\ picturing \in 0 .. facade.job
  BY <1>1 DEF PageTyped, PageFollowsJobs
<1>4. Page!ChoicesAreOfTheVideo'
  BY <1>1, <1>3 DEF Page!ChoicesAreOfTheVideo, Page!Analysed, Page!VideoOf, JobsGrow
<1>5. Page!PreviewIsOfTheVideo'
  BY <1>1, <1>3 DEF Page!PreviewIsOfTheVideo, Page!Analysed, Page!VideoOf, JobsGrow
<1>6. facade.job \in Nat /\ facade'.job \in Nat /\ facade.job <= facade'.job
  BY <1>1 DEF PageTyped, JobsGrow
<1> QED BY <1>3, <1>4, <1>5, <1>6

\* What a job of the core does.
LEMMA PageJobs ==
  ASSUME PageBounds, PageInv, (\E url \in Urls : Page!OtherJob(url)) \/ Page!JobKnows \/ Page!JobEnds
  PROVE  PageInv'
<1> USE DEF PageBounds, Page!NoJob, Page!Jobs
<1>0. PageTyped /\ JobsHaveVideos /\ OneOfEach /\ LineIsTrue /\ PageFollowsJobs
  BY DEF PageInv
<1>1. UNCHANGED <<draft, generation, waiting, polling, line, sent, picture, picturing, tried, preview>>
  BY DEF Page!OtherJob, Page!JobKnows, Page!JobEnds, Page!images
<1>2. /\ facade' \in [job : {Page!NoJob} \cup Page!Jobs, running : BOOLEAN, known : BOOLEAN]
      /\ videos' \in [Page!Jobs -> Urls \cup {NoUrl}] /\ JobsHaveVideos' /\ JobsGrow
  <2>1. CASE \E url \in Urls : Page!OtherJob(url)
    BY <2>1, JobStarts DEF Page!OtherJob
  <2>2. CASE Page!JobKnows \/ Page!JobEnds
    <3>1. /\ facade.running /\ videos' = videos
          /\ facade' = [facade EXCEPT !.known = TRUE] \/ facade' = [facade EXCEPT !.running = FALSE]
      BY <2>2 DEF Page!JobKnows, Page!JobEnds
    <3>2. facade' \in [job : {Page!NoJob} \cup Page!Jobs, running : BOOLEAN, known : BOOLEAN]
      BY <1>0, <3>1 DEF PageTyped
    <3>3. facade'.job = facade.job /\ facade.job # Page!NoJob
      BY <1>0, <3>1 DEF PageTyped, JobsHaveVideos
    <3>4. JobsHaveVideos'
      BY <1>0, <3>1, <3>3 DEF JobsHaveVideos
    <3>5. JobsGrow
      BY <1>0, <3>1, <3>3 DEF PageTyped, JobsGrow
    <3> QED BY <1>0, <3>1, <3>2, <3>4, <3>5 DEF PageTyped
  <2> QED BY <2>1, <2>2
<1>3. PageTyped'
  BY <1>0, <1>1, <1>2 DEF PageTyped
<1>4. LineIsTrue' /\ OneOfEach'
  <2>1. \A j \in 1 .. facade.job : j \in 1 .. facade'.job
    BY <1>0, <1>2 DEF JobsGrow, PageTyped
  <2> QED BY <1>0, <1>1, <1>2, <2>1 DEF LineIsTrue, OneOfEach, JobsGrow
<1>5. preview # Page!NoPreview => preview.job \in 1 .. facade.job
  BY <1>0 DEF PageFollowsJobs, PageTyped, PagePreview
<1>6. /\ Page!ChoicesAreOfTheVideo' /\ Page!PreviewIsOfTheVideo'
      /\ draft'.job <= facade'.job /\ sent'.job <= facade'.job /\ picturing' <= facade'.job
  BY <1>1, <1>2, JobsAreAdded
<1>7. PageFollowsJobs'
  <2>1. preview # Page!NoPreview => preview.job <= facade'.job /\ preview.url = videos'[preview.job]
    BY <1>0, <1>2, <1>5 DEF PageFollowsJobs, JobsGrow, PageTyped
  <2> QED BY <1>1, <1>6, <2>1 DEF PageFollowsJobs
<1> QED BY <1>2, <1>3, <1>4, <1>6, <1>7 DEF PageInv

\* The worker answers a request, after starting a job or not.
LEMMA PageServes ==
  ASSUME PageBounds, PageInv, Page!Serve
  PROVE  PageInv'
<1> USE DEF PageBounds, Page!NoJob, Page!Jobs
<1>0. PageTyped /\ JobsHaveVideos /\ OneOfEach /\ LineIsTrue /\ PageFollowsJobs
  BY DEF PageInv
<1>1. UNCHANGED <<draft, generation, waiting, polling, sent, picture, picturing, tried, preview>>
  BY DEF Page!Serve, Page!images
<1>2. PICK i \in 1 .. Len(line) :
        /\ line[i].at = "asked"
        /\ \/ UNCHANGED Page!core
           \/ line[i].kind \in {"analyze", "download"} /\ Page!CanStart /\ Page!Started(line[i].url)
        /\ Page!Answered(i, TRUE) \/ Page!Answered(i, FALSE)
  BY DEF Page!Serve
<1>3. /\ facade' \in [job : {Page!NoJob} \cup Page!Jobs, running : BOOLEAN, known : BOOLEAN]
      /\ videos' \in [Page!Jobs -> Urls \cup {NoUrl}] /\ JobsHaveVideos' /\ JobsGrow
  <2>1. CASE UNCHANGED Page!core
    BY <1>0, <2>1 DEF Page!core, PageTyped, JobsHaveVideos, JobsGrow
  <2>2. CASE line[i].kind \in {"analyze", "download"} /\ Page!CanStart /\ Page!Started(line[i].url)
    <3>1. line[i].url \in Urls
      BY <1>0, <1>2, <2>2 DEF LineIsTrue
    <3> QED BY <2>2, <3>1, JobStarts
  <2> QED BY <1>2, <2>1, <2>2
<1>4. PICK ok \in BOOLEAN : Page!Answered(i, ok)
  BY <1>2
<1> DEFINE e == [kind |-> line[i].kind, at |-> "answered", ok |-> ok, known |-> facade'.known,
                 job |-> facade'.job, url |-> IF facade'.known THEN videos'[facade'.job] ELSE NoUrl]
           Entry == PageAsked \cup PageAnswer
<1>5. line' = [line EXCEPT ![i] = e]
  BY <1>4 DEF Page!Answered
<1>6. facade'.known => facade'.job \in 1 .. facade'.job
  BY <1>3 DEF JobsHaveVideos
<1>7. e \in PageAnswer
  <2>1. line[i].kind \in PageKinds
    BY <1>0 DEF PageTyped, PageAsked, PageAnswer
  <2>2. (IF facade'.known THEN videos'[facade'.job] ELSE NoUrl) \in Urls \cup {NoUrl}
    BY <1>3, <1>6
  <2> QED BY <1>3, <2>1, <2>2 DEF PageAnswer
<1>8. /\ e.kind = line[i].kind /\ e.at = "answered"
      /\ e.known => e.job \in 1 .. facade'.job /\ e.url = videos'[e.job]
  BY <1>6
<1> HIDE DEF e, Entry
<1>9. line' \in Seq(Entry) /\ Len(line') = Len(line) /\ \A k \in 1 .. Len(line) : line'[k] = IF k = i THEN e ELSE line[k]
  <2>1. line \in Seq(Entry) /\ e \in Entry
    BY <1>0, <1>7 DEF PageTyped, Entry
  <2> QED BY <1>5, <2>1
<1>10. PageTyped'
  BY <1>0, <1>1, <1>3, <1>9 DEF PageTyped, Entry
<1>11. OneOfEach'
  BY <1>0, <1>1, <1>8, <1>9 DEF OneOfEach
<1>12. LineIsTrue'
  <2>1. \A j \in 1 .. facade.job : j \in 1 .. facade'.job
    BY <1>0, <1>3 DEF JobsGrow, PageTyped
  <2> QED BY <1>0, <1>3, <1>8, <1>9, <2>1 DEF LineIsTrue, JobsGrow
<1>13. preview # Page!NoPreview => preview.job \in 1 .. facade.job
  BY <1>0 DEF PageFollowsJobs, PageTyped, PagePreview
<1>14. /\ Page!ChoicesAreOfTheVideo' /\ Page!PreviewIsOfTheVideo'
      /\ draft'.job <= facade'.job /\ sent'.job <= facade'.job /\ picturing' <= facade'.job
  BY <1>1, <1>3, JobsAreAdded
<1>15. PageFollowsJobs'
  <2>1. preview # Page!NoPreview => preview.job <= facade'.job /\ preview.url = videos'[preview.job]
    BY <1>0, <1>3, <1>13 DEF PageFollowsJobs, JobsGrow, PageTyped
  <2> QED BY <1>1, <1>14, <2>1 DEF PageFollowsJobs
<1> QED BY <1>3, <1>10, <1>11, <1>12, <1>14, <1>15 DEF PageInv

\* The request for a preview in the core, and the picture the page takes of its answer.
LEMMA PagePreviews ==
  ASSUME PageBounds, PageInv, Page!LoadPreview \/ Page!PreviewLoaded \/ Page!TakePreview
  PROVE  PageInv'
<1> USE DEF PageBounds, Page!NoJob, Page!Jobs
<1>0. PageTyped /\ JobsHaveVideos /\ OneOfEach /\ LineIsTrue /\ PageFollowsJobs
  BY DEF PageInv
<1>1. UNCHANGED <<draft, generation, waiting, polling, line, facade, videos, sent, picturing>>
  BY DEF Page!LoadPreview, Page!PreviewLoaded, Page!TakePreview, Page!core
<1>2. preview # Page!NoPreview /\ preview \in PagePreview
  BY <1>0 DEF Page!LoadPreview, Page!PreviewLoaded, Page!TakePreview, Page!NoPreview, PageTyped
<1>3. /\ preview' \in {Page!NoPreview} \cup PagePreview
      /\ preview' # Page!NoPreview => preview'.job = preview.job /\ preview'.url = preview.url
  <2>1. CASE Page!LoadPreview
    BY <1>2, <2>1 DEF Page!LoadPreview, PagePreview
  <2>2. CASE Page!PreviewLoaded
    BY <1>0, <1>2, <2>2 DEF Page!PreviewLoaded, PagePreview, Page!IsCurrent, PageTyped
  <2>3. CASE Page!TakePreview
    BY <2>3 DEF Page!TakePreview
  <2> QED BY <2>1, <2>2, <2>3
<1>4. PageTyped'
  BY <1>0, <1>1, <1>3 DEF PageTyped
<1>5. JobsHaveVideos' /\ OneOfEach' /\ LineIsTrue'
  BY <1>0, <1>1 DEF JobsHaveVideos, OneOfEach, LineIsTrue
<1>6. PageFollowsJobs'
  BY <1>0, <1>1, <1>2, <1>3 DEF PageFollowsJobs
<1>7. Page!ChoicesAreOfTheVideo'
  BY <1>1 DEF PageInv, Page!ChoicesAreOfTheVideo, Page!VideoOf, Page!Analysed
<1>8. Page!PreviewIsOfTheVideo'
  <2>1. CASE picture' = picture
    BY <1>1, <2>1 DEF PageInv, Page!PreviewIsOfTheVideo, Page!VideoOf, Page!Analysed
  <2>2. CASE picture' # picture
    <3>1. /\ Page!IsShown(preview)
          /\ picture' = [url |-> preview.url, job |-> preview.job, generation |-> preview.generation]
      BY <2>2 DEF Page!LoadPreview, Page!PreviewLoaded, Page!TakePreview
    <3>2. preview.job # Page!NoJob /\ videos[preview.job] = preview.url
      BY <1>0, <1>2 DEF PageFollowsJobs, PagePreview
    <3> QED BY <1>1, <3>1, <3>2 DEF Page!PreviewIsOfTheVideo, Page!IsShown, Page!VideoOf, Page!Analysed
  <2> QED BY <2>1, <2>2
<1> QED BY <1>4, <1>5, <1>6, <1>7, <1>8 DEF PageInv

\* An answer completes the draft of its video, and asks for its preview.
LEMMA PageReceives ==
  ASSUME PageBounds, PageInv, Page!Receive
  PROVE  PageInv'
<1> USE DEF PageBounds, Page!NoJob, Page!Jobs
<1>0. PageTyped /\ JobsHaveVideos /\ OneOfEach /\ LineIsTrue /\ PageFollowsJobs
  BY DEF PageInv
<1> DEFINE Entry == PageAsked \cup PageAnswer
<1> HIDE DEF Entry
<1>1. line \in Seq(Entry) /\ line # <<>> /\ line' = Tail(line) /\ line[1].at = "answered"
  BY <1>0 DEF PageTyped, Entry, Page!Receive
<1>2. PICK a \in PageAnswer : a = line[1]
  <2>1. line[1] \in Entry
    BY <1>1
  <2> QED BY <1>1, <2>1 DEF Entry, PageAsked
<1>3. /\ Len(line) \in Nat /\ 1 \in 1 .. Len(line)
      /\ line' \in Seq(Entry) /\ Len(line') = Len(line) - 1
      /\ \A i \in 1 .. Len(line') : i + 1 \in 1 .. Len(line) /\ i + 1 # 1 /\ line'[i] = line[i + 1]
  BY <1>1
<1>4. a.known => a.job \in 1 .. facade.job /\ a.url = videos[a.job] /\ a.url \in Urls
  <2>1. line[1].known => line[1].job \in 1 .. facade.job /\ line[1].url = videos[line[1].job]
    BY <1>0, <1>1, <1>3 DEF LineIsTrue
  <2> QED BY <1>0, <1>2, <2>1 DEF JobsHaveVideos
<1>5. UNCHANGED <<generation, facade, videos, sent>>
  BY DEF Page!Receive, Page!core
<1>6. IF a.kind = "poll" THEN polling' = FALSE /\ waiting' = waiting ELSE waiting' = FALSE
        /\ polling' = polling
  BY <1>1, <1>2 DEF Page!Receive
<1>7. draft' = IF a.ok
        /\ Page!Applies(a) THEN [url |-> draft.url, analyzed |-> draft.url, job |-> a.job] ELSE draft
  BY <1>1, <1>2 DEF Page!Receive
<1>8. IF a.ok /\ a.known /\ ~Page!Stale(a)
      THEN /\ picturing' = a.job /\ picture' = IF picturing = a.job THEN picture ELSE Page!NoPicture
           /\ \/ preview' = [at |-> "check", generation |-> generation, job |-> a.job, url |-> a.url, ok |-> FALSE]
              \/ preview' = preview
      ELSE UNCHANGED <<picture, picturing, preview>>
  BY <1>1, <1>2 DEF Page!Receive, Page!images
<1>9. a.ok /\ Page!Applies(a) => /\ ~Page!Analysed(draft) /\ a.url = draft.url /\ a.job \in 1 .. facade.job
                                 /\ videos[a.job] = draft.url /\ draft.url \in Urls
  BY <1>4 DEF Page!Applies, Page!Stale
<1>10. OneOfEach'
  <2>1. \A i, k \in 1 .. Len(line') : (line'[i].kind = "poll") = (line'[k].kind = "poll") => i = k
    BY <1>0, <1>3 DEF OneOfEach
  <2>2. \A i \in 1 .. Len(line') : (line'[i].kind = "poll") # (a.kind = "poll")
    BY <1>0, <1>2, <1>3 DEF OneOfEach
  <2>3. \A i \in 1 .. Len(line') : IF line'[i].kind = "poll" THEN polling ELSE waiting
    BY <1>0, <1>3 DEF OneOfEach
  <2> QED BY <1>6, <2>1, <2>2, <2>3 DEF OneOfEach
<1>11. LineIsTrue'
  BY <1>0, <1>3, <1>5 DEF LineIsTrue
<1>12. PageTyped'
  <2>1. waiting' \in BOOLEAN /\ polling' \in BOOLEAN
    BY <1>0, <1>6 DEF PageTyped
  <2>2. draft' \in [url : Urls \cup {NoUrl}, analyzed : Urls \cup {NoUrl}, job : {Page!NoJob} \cup Page!Jobs]
    BY <1>0, <1>2, <1>7 DEF PageTyped, PageAnswer
  <2>3. picturing' \in {Page!NoJob} \cup Page!Jobs
    BY <1>0, <1>2, <1>8 DEF PageTyped, PageAnswer
  <2>4. preview' \in {Page!NoPreview} \cup PagePreview
    <3>1. CASE a.ok /\ a.known /\ ~Page!Stale(a)
      <4>1. a.job \in Page!Jobs /\ a.url \in Urls /\ generation \in 0 .. MaxLooks
        BY <1>0, <1>4, <3>1 DEF PageTyped
      <4>2. [at |-> "check", generation |-> generation, job |-> a.job, url |-> a.url, ok |-> FALSE] \in PagePreview
        BY <4>1 DEF PagePreview
      <4>3. preview \in {Page!NoPreview} \cup PagePreview
        BY <1>0 DEF PageTyped
      <4> QED BY <1>8, <3>1, <4>2, <4>3
    <3>2. CASE ~(a.ok /\ a.known /\ ~Page!Stale(a))
      BY <1>0, <1>8, <3>2 DEF PageTyped
    <3> QED BY <3>1, <3>2
  <2> QED BY <1>0, <1>3, <1>5, <2>1, <2>2, <2>3, <2>4 DEF PageTyped, Entry
<1>13. JobsHaveVideos'
  BY <1>0, <1>5 DEF JobsHaveVideos
<1>14. PageFollowsJobs'
  <2>1. draft'.job <= facade.job
    BY <1>0, <1>7, <1>9 DEF PageFollowsJobs
  <2>2. picturing' <= facade.job
    BY <1>0, <1>4, <1>8 DEF PageFollowsJobs
  <2>3. preview' # Page!NoPreview => preview'.job <= facade.job /\ preview'.url = videos[preview'.job]
    BY <1>0, <1>4, <1>8 DEF PageFollowsJobs
  <2> QED BY <1>0, <1>5, <2>1, <2>2, <2>3 DEF PageFollowsJobs
<1>15. Page!ChoicesAreOfTheVideo'
  <2>1. CASE a.ok /\ Page!Applies(a)
    BY <1>5, <1>7, <1>9, <2>1 DEF PageInv, Page!ChoicesAreOfTheVideo, Page!VideoOf, Page!Analysed
  <2>2. CASE ~(a.ok /\ Page!Applies(a))
    BY <1>5, <1>7, <2>2 DEF PageInv, Page!ChoicesAreOfTheVideo, Page!VideoOf, Page!Analysed
  <2> QED BY <2>1, <2>2
<1>16. Page!PreviewIsOfTheVideo'
  <2>1. picture' # Page!NoPicture => picture' = picture /\ picturing' = picturing
    BY <1>8
  <2>2. Page!Analysed(draft) => draft' = draft
    BY <1>7 DEF Page!Applies
  <2> QED BY <1>5, <2>1, <2>2 DEF PageInv, Page!PreviewIsOfTheVideo, Page!VideoOf, Page!Analysed
<1> QED BY <1>10, <1>11, <1>12, <1>13, <1>14, <1>15, <1>16 DEF PageInv

\* PageInv is inductive.
LEMMA PageStep ==
  ASSUME PageBounds
  PROVE  PageInv /\ [Page!Next]_(Page!vars) => PageInv'
<1> SUFFICES ASSUME PageInv, [Page!Next]_(Page!vars) PROVE PageInv'
  OBVIOUS
<1>1. CASE Page!Next
  BY <1>1, PageCommands, PageJobs, PageServes, PagePreviews, PageReceives DEF Page!Next
<1>2. CASE UNCHANGED Page!vars
  <2> USE <1>2 DEF Page!vars
  <2>1. PageTyped' /\ JobsHaveVideos' /\ OneOfEach' /\ LineIsTrue'
    BY DEF PageInv, PageTyped, JobsHaveVideos, OneOfEach, LineIsTrue
  <2>2. PageFollowsJobs' /\ Page!ChoicesAreOfTheVideo' /\ Page!PreviewIsOfTheVideo'
    BY DEF PageInv, PageFollowsJobs, Page!ChoicesAreOfTheVideo, Page!PreviewIsOfTheVideo, Page!VideoOf,
           Page!Analysed
  <2> QED BY <2>1, <2>2 DEF PageInv
<1> QED BY <1>1, <1>2

\* A behaviour of the composition is one of the page.
LEMMA PagePart == Spec => Page!Spec
<1>1. Init => Page!Init
  BY DEF Init
<1>2. [Next]_vars => [Page!Next]_(Page!vars)
  <2>1. Next => Page!Next \/ UNCHANGED page
    BY DEF Next, Only
  <2>2. UNCHANGED vars => UNCHANGED page
    BY DEF vars
  <2>3. UNCHANGED page => UNCHANGED Page!vars
    BY DEF page, Page!vars
  <2> QED BY <2>1, <2>2, <2>3
<1> QED BY <1>1, <1>2, PTL DEF Spec, Page!Spec

\* Whatever order requests, answers and other jobs come in, what the VOD page shows, and what it
\* asks a download and a preview for, is of the video it names: sync_analysis, download_request
\* and thumbnail_is_current (vod_adapter.rs, controller.rs).
THEOREM PageIsOfItsVideo == Spec => []DraftIsSound
<1>1. PageBounds
  BY PartsAssumption DEF PageBounds
<1>2. PageInv => DraftIsSound
  <2> SUFFICES ASSUME PageInv PROVE Page!DraftTypeOK
    BY DEF PageInv, DraftIsSound, Page!DraftIsSound
  <2>1. PageTyped /\ OneOfEach
    BY DEF PageInv
  <2>2. Len(line) <= 2
    <3>1. Len(line) \in Nat
      BY <2>1 DEF PageTyped
    <3>2. Len(line) >= 3 => 1 \in 1 .. Len(line) /\ 2 \in 1 .. Len(line) /\ 3 \in 1 .. Len(line)
      BY <3>1
    <3>3. ~(Len(line) >= 3)
      BY <2>1, <3>2 DEF OneOfEach
    <3> QED BY <3>1, <3>3
  <2>3. \A i \in 1 .. Len(line) : line[i].kind \in {"analyze", "download", "refresh", "poll"}
    BY <2>1 DEF PageTyped, PageAsked, PageAnswer, PageKinds
  <2>4. preview.at \in {"none", "check", "load", "answered"}
    BY <2>1 DEF PageTyped, PagePreview, Page!NoPreview
  <2> QED BY <2>1, <2>2, <2>3, <2>4 DEF PageTyped, Page!DraftTypeOK
<1> QED BY <1>1, <1>2, PagePart, PageInit, PageStep, PTL DEF Page!Spec
=============================================================================
