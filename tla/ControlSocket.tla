---------------------------- MODULE ControlSocket ----------------------------
(***************************************************************************)
(* Who owns a data directory, and how the command line talks to the owner:  *)
(* the advisory lock of runtime_owner.rs, the control socket of             *)
(* unix_control.rs with its serial server, the two kinds of owner           *)
(* (headless.rs and a foreground VOD command of unix_cli.rs) and the client *)
(* side of the commands.  What a command does is left to the modules of the *)
(* parts: here it begins, ends and is answered.                             *)
(***************************************************************************)
EXTENDS Naturals, FiniteSets

CONSTANTS
  Serving,     \* processes that run `serve` or `watcher start`
  Foreground,  \* processes that run `vod analyze` or `vod download`
  Clients,     \* commands that ask the owner
  Required,    \* those of them that need an owner (stop, cancel, action)
  Silent,      \* local programs that connect and send nothing
  MaxStarts    \* bound: starts of an owner

VARIABLES
  lock,    \* who holds the lock file
  socket,  \* the process the socket file leads to
  phase,   \* where each owner is
  stop,    \* owners whose server has been told to stop
  server,  \* what the server does: "none", "idle", "reads", "runs" or "writes"
  conn,    \* whose connection it serves
  client,  \* where each client is
  at,      \* the owner each client is connected to
  ran,     \* how often a client's command ran to its end
  starts

owners  == <<phase, stop, starts>>
servers == <<server, conn>>
clients == <<client, at, ran>>
vars    == <<lock, socket, owners, servers, clients>>

Owners  == Serving \cup Foreground
Peers   == Clients \cup Silent
Nobody  == "nobody"

\* Where a client's command is over.
Over == {"answered", "failed", "local", "refused", "gone"}

\* Type invariant.
ControlTypeOK ==
  /\ lock \in Owners \cup Clients \cup {Nobody} /\ socket \in Owners \cup {Nobody}
  /\ phase \in [Owners -> {"off", "holds", "serves", "stops", "ends", "drops"}]
  /\ stop \subseteq Owners /\ starts \in 0 .. MaxStarts
  /\ server \in [Owners -> {"none", "idle", "reads", "runs", "writes"}]
  /\ conn \in [Owners -> Peers \cup {Nobody}]
  /\ client \in [Peers -> {"out", "probes", "asks", "queued"} \cup Over]
  /\ at \in [Peers -> Owners \cup {Nobody}] /\ ran \in [Clients -> Nat]

Init ==
  /\ lock = Nobody /\ socket = Nobody /\ stop = {} /\ starts = 0
  /\ phase = [o \in Owners |-> "off"] /\ server = [o \in Owners |-> "none"]
  /\ conn = [o \in Owners |-> Nobody]
  /\ client = [c \in Peers |-> IF c \in Silent THEN "asks" ELSE "out"]
  /\ at = [c \in Peers |-> Nobody] /\ ran = [c \in Clients |-> 0]

----------------------------------------------------------------------------
(* The owner.                                                              *)

Goes(o, here, there) == phase[o] = here /\ phase' = [phase EXCEPT ![o] = there]

\* The owner's lock is exclusive.
Free == lock = Nobody

\* RuntimeOwnerGuard::acquire in StreamArchiveCore::open.
Acquire(o) ==
  /\ Free /\ starts < MaxStarts
  /\ Goes(o, "off", "holds") /\ lock' = o /\ starts' = starts + 1
  /\ UNCHANGED <<socket, stop, servers, clients>>

\* RuntimeControlServer::start: whatever socket file is there is stale.
StartServer(o) ==
  /\ Goes(o, "holds", "serves") /\ socket' = o /\ stop' = stop \ {o}
  /\ server' = [server EXCEPT ![o] = "idle"]
  /\ UNCHANGED <<lock, starts, conn, clients>>

\* The connections of a server that is no more end without an answer.
Cut(o) ==
  /\ server' = [server EXCEPT ![o] = "none"] /\ conn' = [conn EXCEPT ![o] = Nobody]
  /\ client' = [c \in Peers |-> IF at[c] = o /\ client[c] = "queued" THEN "failed" ELSE client[c]]
  /\ at' = [c \in Peers |-> IF at[c] = o THEN Nobody ELSE at[c]]
  /\ UNCHANGED ran

\* The signal of run_headless, or the end of a foreground command: control.shutdown.
Signal(o) ==
  /\ Goes(o, "serves", "stops") /\ stop' = stop \cup {o}
  /\ UNCHANGED <<lock, socket, starts, servers, clients>>

\* The core is shut down once the server's task has been joined.
Joined(o) == server[o] = "none"

\* control.shutdown has joined the server and removes the file; core.shutdown follows.
Stopped(o) ==
  /\ Joined(o) /\ Goes(o, "stops", "ends") /\ socket' = Nobody
  /\ UNCHANGED <<lock, stop, starts, servers, clients>>

\* A foreground command that is signalled cancels and shuts its core down under its server.
Interrupt(o) ==
  /\ o \in Foreground /\ Goes(o, "serves", "drops")
  /\ UNCHANGED <<lock, socket, stop, starts, servers, clients>>

\* Its server sees the end of the channel when the handle is dropped.
DropServer(o) ==
  /\ phase[o] = "drops" /\ o \notin stop /\ stop' = stop \cup {o}
  /\ UNCHANGED <<lock, socket, phase, starts, servers, clients>>

\* The process ends, or is killed: the lock goes with it, the socket file stays.
Leaves(o) ==
  /\ phase' = [phase EXCEPT ![o] = "off"] /\ lock' = Nobody
  /\ Cut(o) /\ UNCHANGED <<socket, starts>>
Exit(o) ==
  /\ phase[o] = "ends" \/ (phase[o] = "drops" /\ o \in stop)
  /\ Leaves(o) /\ UNCHANGED stop
Crash(o) == phase[o] # "off" /\ Leaves(o) /\ stop' = stop \ {o}

----------------------------------------------------------------------------
(* The server: one connection at a time.                                   *)

Turn(o, here, there) == server[o] = here /\ server' = [server EXCEPT ![o] = there]

Accept(o, c) ==
  /\ Turn(o, "idle", "reads") /\ at[c] = o
  /\ conn' = [conn EXCEPT ![o] = c]
  /\ UNCHANGED <<lock, socket, owners, clients>>

\* Mutant: the command is spawned and the client answered at once.
Spawned == "writes"
Awaited == "runs"

\* read_message; a request that was read is executed, also when its sender is gone.
ReadRequest(o) ==
  /\ conn[o] \in Clients /\ Turn(o, "reads", Awaited) /\ o \notin stop
  /\ UNCHANGED <<lock, socket, owners, conn, clients>>

\* The server lets go of its connection; its client finds it closed.
Hangup(o, here, news) ==
  /\ Turn(o, here, "idle") /\ conn' = [conn EXCEPT ![o] = Nobody]
  /\ client' = [client EXCEPT ![conn[o]] = IF @ = "queued" THEN news ELSE @]
  /\ at' = [at EXCEPT ![conn[o]] = Nobody]
  /\ UNCHANGED <<lock, socket, owners, ran>>

\* Mutant: reads and writes may take for ever.
NoTimeout == FALSE
IoTimeout == TRUE
ReadTimeout(o) == IoTimeout /\ o \notin stop /\ Hangup(o, "reads", "failed")

\* execute_request runs to its end, whoever is told to stop meanwhile.
Breakable(o) == {"idle", "reads", "writes"}
Run(o) ==
  /\ Turn(o, "runs", "writes") /\ ran' = [ran EXCEPT ![conn[o]] = @ + 1]
  /\ UNCHANGED <<lock, socket, owners, conn, client, at>>

Respond(o) == o \notin stop /\ Hangup(o, "writes", "answered")

\* The client is gone or does not read.
WriteTimeout(o) ==
  server[o] = "writes" /\ IoTimeout /\ client[conn[o]] = "gone" /\ Hangup(o, "writes", "failed")

\* The loop ends and removes the socket file; the stop is looked at before any I/O.
Break(o) ==
  /\ o \in stop /\ server[o] \in Breakable(o)
  /\ Cut(o) /\ socket' = Nobody
  /\ UNCHANGED <<lock, owners>>

----------------------------------------------------------------------------
(* The client: send_runtime_control.                                       *)

Moves(c, here, there) == client[c] = here /\ client' = [client EXCEPT ![c] = there]

\* runtime_owner_active takes the lock for a moment to see whether it is held.
Probe(c) ==
  /\ IF lock = Nobody THEN Moves(c, "out", "probes") /\ lock' = c
                      ELSE Moves(c, "out", "asks") /\ UNCHANGED lock
  /\ UNCHANGED <<socket, owners, servers, at, ran>>

\* Nobody owns it: runtime_control gives None, require_runtime_control an error.
NoOwner(c) ==
  /\ Moves(c, "probes", IF c \in Required THEN "refused" ELSE "local") /\ lock' = Nobody
  /\ UNCHANGED <<socket, owners, servers, at, ran>>

\* UnixStream::connect, and the request is written.
Listening == socket # Nobody /\ server[socket] # "none"
Connect(c) ==
  /\ IF Listening THEN Moves(c, "asks", "queued") /\ at' = [at EXCEPT ![c] = socket]
                  ELSE Moves(c, "asks", "failed") /\ UNCHANGED at
  /\ UNCHANGED <<lock, socket, owners, servers, ran>>

\* The response timeout, which only a command can outlast, or Ctrl+C.
GiveUp(c) ==
  /\ client[c] = "queued" /\ server[at[c]] = "runs" /\ Moves(c, "queued", "gone")
  /\ UNCHANGED <<lock, socket, owners, servers, at, ran>>

OwnerNext(o) ==
  \/ Acquire(o) \/ StartServer(o) \/ Signal(o) \/ Stopped(o) \/ Interrupt(o) \/ DropServer(o)
  \/ Exit(o) \/ Crash(o)

ServerNext(o) ==
  \/ \E c \in Peers : Accept(o, c)
  \/ ReadRequest(o) \/ ReadTimeout(o) \/ Run(o) \/ Respond(o) \/ WriteTimeout(o) \/ Break(o)

ClientNext(c) == Connect(c) \/ (c \in Clients /\ (Probe(c) \/ NoOwner(c) \/ GiveUp(c)))

Next == (\E o \in Owners : OwnerNext(o) \/ ServerNext(o)) \/ (\E c \in Peers : ClientNext(c))

Spec == Init /\ [][Next]_vars

\* What an owner and its server do without being told to.
OwnerStep(o)  == StartServer(o) \/ Stopped(o) \/ DropServer(o) \/ Exit(o)
ServerStep(o) ==
  ReadRequest(o) \/ ReadTimeout(o) \/ Run(o) \/ Respond(o) \/ WriteTimeout(o) \/ Break(o)

----------------------------------------------------------------------------
(* Properties.                                                             *)

\* The file leads to the server of the owner as long as it accepts commands: no owner before it
\* or after it removes its socket (unix_control.rs).
ServingIsReachable ==
  \A o \in Owners : server[o] # "none" /\ o \notin stop => lock = o /\ socket = o

\* An accepted command is finished by a live core: an owner that ends in order has ended its
\* server first, and no command runs twice.
CommandsAreFinished ==
  /\ \A o \in Owners : phase[o] = "ends" => server[o] = "none"
  /\ \A c \in Clients : ran[c] <= 1

\* A command that has begun is never dropped half way by an owner that lives on.
NoCommandIsDropped ==
  [][\A o \in Owners :
       server[o] = "runs" /\ server'[o] # "runs" /\ phase'[o] # "off" => server'[o] = "writes"]_vars

\* Who is told of success had the command run, and who is told that there is no owner did not.
AnswersAreTrue ==
  \A c \in Clients : /\ client[c] = "answered" => ran[c] = 1
                     /\ client[c] \in {"local", "refused"} => ran[c] = 0

\* A command returns, whatever other programs do with the socket.
CommandsReturn == \A c \in Clients : client[c] = "queued" ~> client[c] \in Over

\* An owner that is told to stop goes, whatever its clients do.
OwnerLeaves == \A o \in Owners : phase[o] = "stops" ~> phase[o] = "off"

\* One owner at a time is reachable, finishes what it accepted, and answers the truth.
ControlIsSound == ControlTypeOK /\ ServingIsReachable /\ CommandsAreFinished /\ AnswersAreTrue
=============================================================================
