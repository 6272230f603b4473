--------------------------- MODULE LiveThumbnails ---------------------------
(***************************************************************************)
(* The preview of a live channel in the desktop application                *)
(* (thumbnail_adapter.rs), from the watcher's snapshot to the picture: the  *)
(* statuses the user interface receives, the requests it makes of the       *)
(* core, which run side by side, and their answers.                        *)
(*                                                                         *)
(* One channel is followed.  A completion revision tells apart what was     *)
(* before and after the end of a recording of the same broadcast.          *)
(***************************************************************************)
EXTENDS Naturals, FiniteSets

CONSTANTS
  MaxPending,    \* MAX_PENDING: requests in flight
  MaxEvents,     \* bound: changes of the channel
  MaxRefreshes   \* bound: refreshes the user asks for

VARIABLES
  row,       \* the channel's row of the watcher's snapshot
  carried,   \* the status on its way to the user interface
  entry,     \* what the user interface keeps of the channel
  sequence,  \* generations given
  awaiting,  \* pending: the tokens of the requests not answered
  fetches,   \* the requests in the core, and their answers
  visible,   \* the LIVE page is shown
  events,    \* changes of the channel
  refreshes  \* refreshes asked for

vars == <<row, carried, entry, sequence, awaiting, fetches, visible, events, refreshes>>

None     == 0
NoEntry  == [bno |-> None]
NoImage  == [bno |-> None, revision |-> 0]
Nowhere  == [at |-> "none"]
Statuses == {"UNKNOWN", "RECORDING", "PAUSED", "ERROR", "OFFLINE", "WATCHER_STOPPED"}
Fresh    == [running |-> TRUE, bno |-> None, url |-> FALSE, status |-> "UNKNOWN", file |-> FALSE,
             completed |-> None, revision |-> 0]

\* Type invariant.
ThumbnailsTypeOK ==
  /\ row.status \in Statuses /\ row.bno \in 0 .. MaxEvents /\ row.revision \in 0 .. MaxEvents
  /\ carried.at \in {"none", "asked", "read"}
  /\ entry # NoEntry => entry.generation \in 1 .. sequence /\ entry.image.bno \in 0 .. MaxEvents
  /\ awaiting \subseteq 1 .. sequence
  /\ \A f \in fetches : f.at \in {"check", "load", "frame", "recheck", "answered"}
  /\ visible \in BOOLEAN /\ events \in 0 .. MaxEvents /\ refreshes \in 0 .. MaxRefreshes

Init ==
  /\ row = Fresh /\ carried = Nowhere /\ entry = NoEntry /\ sequence = 0
  /\ awaiting = {} /\ fetches = {} /\ visible \in BOOLEAN /\ events = 0 /\ refreshes = 0

----------------------------------------------------------------------------
(* The watcher's snapshot (LiveWatcher).                                   *)

Changes(new) ==
  /\ events < MaxEvents /\ events' = events + 1 /\ row' = new
  /\ UNCHANGED <<carried, entry, sequence, awaiting, fetches, visible, refreshes>>

\* A broadcast, the same or the next one, is found live and recorded, left alone, or its
\* recording cannot be started.
Seen ==
  /\ row.running /\ ~row.file
  /\ \E b \in {row.bno, row.bno + 1} \ {None}, s \in {"RECORDING", "PAUSED", "ERROR"} :
       Changes([row EXCEPT !.bno = b, !.url = (s # "ERROR"), !.status = s, !.file = (s = "RECORDING")])

\* recording_finished
Finished ==
  /\ row.running /\ row.file
  /\ \E s \in {"UNKNOWN", "PAUSED", "ERROR"} :
       Changes([row EXCEPT !.completed = row.bno, !.revision = events + 1, !.url = FALSE,
                           !.file = FALSE, !.status = s])

\* A probe fails, or the monitor of a recording that goes on; the channel goes off.
Fails ==
  /\ row.running /\ row.status # "ERROR"
  /\ Changes([row EXCEPT !.status = "ERROR", !.url = row.url /\ row.file])
GoesOff ==
  /\ row.running /\ ~row.file /\ row.bno # None
  /\ Changes([row EXCEPT !.status = "OFFLINE", !.bno = None, !.url = FALSE])

\* The watcher is stopped, and started anew.
Stops ==
  /\ row.running /\ ~row.file
  /\ Changes([row EXCEPT !.running = FALSE, !.status = "WATCHER_STOPPED", !.bno = None, !.url = FALSE])
Restarts == ~row.running /\ Changes(Fresh)

\* has_current_live_thumbnail
HasCurrent(r) ==
  /\ r.running /\ r.bno # None /\ r.url
  /\ r.status \notin {"OFFLINE", "DISABLED", "WATCHER_STOPPED"}
  /\ r.status \in {"ERROR", "AUTH"} => r.file

----------------------------------------------------------------------------
(* The user interface.                                                     *)

\* requests: up to MaxPending at a time, none for an entry that was tried or is blocked.
Wanted(e, tokens) ==
  /\ visible /\ e # NoEntry /\ Cardinality(tokens) < MaxPending
  /\ ~e.attempted /\ ~e.blocked /\ e.available
Requests(e, tokens, others) ==
  IF Wanted(e, tokens)
  THEN /\ entry' = [e EXCEPT !.attempted = TRUE]
       /\ awaiting' = tokens \cup {e.generation}
       /\ fetches' = others \cup {[token |-> e.generation, bno |-> e.bno, revision |-> e.revision,
                                   at |-> "check", ok |-> FALSE]}
  ELSE entry' = e /\ awaiting' = tokens /\ fetches' = others

\* The page is shown or hidden; what is shown is drawn by a timer.
Toggle ==
  /\ visible' = ~visible
  /\ UNCHANGED <<row, carried, entry, sequence, awaiting, fetches, events, refreshes>>
Draw ==
  /\ Wanted(entry, awaiting) /\ Requests(entry, awaiting, fetches)
  /\ UNCHANGED <<row, carried, sequence, visible, events, refreshes>>

\* A status is asked for, by the poll timer or the user, read and received.
AskStatus ==
  /\ carried = Nowhere
  /\ \E manual \in BOOLEAN :
       /\ ~manual => visible \/ entry # NoEntry \/ awaiting # {}
       /\ manual => visible /\ refreshes < MaxRefreshes
       /\ refreshes' = refreshes + (IF manual THEN 1 ELSE 0)
       /\ carried' = [at |-> "asked", manual |-> manual]
  /\ UNCHANGED <<row, entry, sequence, awaiting, fetches, visible, events>>
ReadStatus ==
  /\ carried.at = "asked"
  /\ carried' = [at |-> "read", manual |-> carried.manual, row |-> row]
  /\ UNCHANGED <<row, entry, sequence, awaiting, fetches, visible, events, refreshes>>

\* Another broadcast, or the same after the end of its recording, is a new entry.
IsOther(r) == entry = NoEntry \/ entry.bno # r.bno \/ entry.revision # r.revision
NewEntry(r) ==
  [bno |-> r.bno, revision |-> r.revision, generation |-> sequence + 1, available |-> r.url,
   attempted |-> FALSE, blocked |-> r.completed = r.bno, image |-> NoImage]

\* sync: a refresh gives the entry a generation of its own, and keeps its picture.
Synced(r, manual) ==
  LET e == IF IsOther(r) THEN NewEntry(r) ELSE entry
      n == IF IsOther(r) THEN sequence + 1 ELSE sequence
  IN IF manual THEN [e EXCEPT !.available = r.url, !.generation = n + 1, !.blocked = FALSE, !.attempted = FALSE]
     ELSE [e EXCEPT !.available = r.url]
Sync ==
  /\ carried.at = "read" /\ carried' = Nowhere
  /\ LET r == carried.row
         e == IF HasCurrent(r) THEN Synced(r, carried.manual) ELSE NoEntry
     IN /\ sequence' = sequence + (IF HasCurrent(r) /\ IsOther(r) THEN 1 ELSE 0)
                                + (IF HasCurrent(r) /\ carried.manual THEN 1 ELSE 0)
        /\ Requests(e, awaiting, fetches)
  /\ UNCHANGED <<row, visible, events, refreshes>>

\* Mutant: an answer is taken by whatever entry the channel has by now.
AnyGeneration(e, f) == e # NoEntry

\* complete: an answer is for the entry that asked, and only the last time it asked.
IsFor(e, f) == e # NoEntry /\ e.generation = f.token
Complete(f) ==
  /\ f \in fetches /\ f.at = "answered"
  /\ LET e == IF IsFor(entry, f) /\ f.ok
              THEN [entry EXCEPT !.image = [bno |-> f.bno, revision |-> f.revision]] ELSE entry
     IN Requests(e, awaiting \ {f.token}, fetches \ {f})
  /\ UNCHANGED <<row, carried, sequence, visible, events, refreshes>>

----------------------------------------------------------------------------
(* StreamArchiveCore::live_thumbnail: one task for each request.           *)

StillCurrent(f) == HasCurrent(row) /\ row.bno = f.bno /\ row.revision = f.revision

Goes(f, at, ok) ==
  /\ fetches' = (fetches \ {f}) \cup {[f EXCEPT !.at = at, !.ok = ok]}
  /\ UNCHANGED <<row, carried, entry, sequence, awaiting, visible, events, refreshes>>

Check(f) ==
  /\ f \in fetches /\ f.at = "check"
  /\ IF StillCurrent(f) THEN Goes(f, "load", FALSE) ELSE Goes(f, "answered", FALSE)

\* thumbnail_service::load: a picture, or none; KICK then tries a frame of the stream, which
\* preview_source gives only for that broadcast.
Load(f) ==
  /\ f \in fetches /\ f.at = "load"
  /\ \E at \in {"recheck", "frame", "answered"} : Goes(f, at, FALSE)
Frame(f) ==
  /\ f \in fetches /\ f.at = "frame"
  /\ \E at \in {"recheck", "answered"} : Goes(f, at, FALSE)

\* The status is compared again: a picture of what is over by now is refused.
Recheck(f) ==
  /\ f \in fetches /\ f.at = "recheck"
  /\ Goes(f, "answered", StillCurrent(f))

Next ==
  \/ Seen \/ Finished \/ Fails \/ GoesOff \/ Stops \/ Restarts
  \/ Toggle \/ Draw \/ AskStatus \/ ReadStatus \/ Sync
  \/ \E f \in fetches : Complete(f) \/ Check(f) \/ Load(f) \/ Frame(f) \/ Recheck(f)

Spec == Init /\ [][Next]_vars

----------------------------------------------------------------------------
(* Safety.                                                                 *)

\* The picture of a channel is one asked for its present broadcast, since the end of the last
\* recording of it, however late and in whatever order the answers arrive; there is none after
\* that end until the user asks.
PictureIsOfTheBroadcast ==
  entry # NoEntry =>
    /\ entry.image \in {NoImage, [bno |-> entry.bno, revision |-> entry.revision]}
    /\ entry.blocked => entry.image = NoImage

\* The limit of requests is that of the tasks and processes in the core: none runs unaccounted
\* for, and none that is over counts.
LimitIsOfTheTasks ==
  /\ awaiting = {f.token : f \in fetches} /\ Cardinality(fetches) <= MaxPending
  /\ \A f, g \in fetches : f.token = g.token => f = g

PreviewsAreCurrent == ThumbnailsTypeOK /\ PictureIsOfTheBroadcast /\ LimitIsOfTheTasks
=============================================================================
