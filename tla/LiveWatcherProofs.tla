-------------------------- MODULE LiveWatcherProofs --------------------------
(***************************************************************************)
(* What holds of the live watcher for all values of its constants.  The    *)
(* inductive invariant WatcherInv adds to LiveInv who owns which row, how  *)
(* many rows could not be stopped, what each phase visits, and which       *)
(* broadcasts a stop command declined.                                     *)
(***************************************************************************)
EXTENDS LiveWatcher, TLAPS, FiniteSetTheorems

----------------------------------------------------------------------------
(* The inductive invariant.                                                *)

\* The types, with the domains the steps keep.
WatcherTyped ==
  /\ LiveTypeOK
  /\ states \in [DOMAIN states -> ChannelState]
  /\ used \in [DOMAIN Bounds -> Nat] /\ DOMAIN snapshot = {"running", "channels"}

\* A channel's recording is a row of its own; a row no channel has is one whose recorder could
\* not be stopped, and was killed with the state that had it.
RowsAreOwned ==
  /\ \A c \in DOMAIN states : states[c].recording # None =>
       recordings[states[c].recording] # NoRecording /\ RecordingOf(c).channel = c
  /\ \A r \in RecordingIds : recordings[r] # NoRecording =>
       \/ \E c \in DOMAIN states : states[c].recording = r
       \/ recordings[r].unstopped = TRUE /\ recordings[r].running = FALSE

\* There are no more rows that could not be stopped than there were failures, so a free one is
\* left for the next recording.
Unstopped == {r \in RecordingIds : recordings[r] # NoRecording /\ recordings[r].unstopped = TRUE}
FailuresAreCounted == Cardinality(Unstopped) <= used["faults"]

\* Each phase visits channels it is for, and the task has no state outside its loop.
PhaseHasItsChannels ==
  /\ task = "live" <=> phase # "off"
  /\ phase \in {"off", "init"} => DOMAIN states = {}
  /\ todo \subseteq DOMAIN states
  /\ phase \in {"recheck", "monitor", "exit"} => \A c \in todo : states[c].recording # None
  /\ phase = "poll" => \A c \in todo : states[c].recording = None /\ states[c].enabled = TRUE
  /\ starting # NoChannel =>
       /\ phase = "poll" /\ starting \in DOMAIN states \ todo
       /\ states[starting].recording = None /\ states[starting].enabled = TRUE
       /\ states[starting].last # None
  /\ phase = "exit" => \A c \in DOMAIN states :
       states[c].recording # None /\ c \notin todo => RecordingOf(c).unstopped = TRUE

\* What a status says of the recording, row by row.
Quiet == {"OFFLINE", "PAUSED", "DISABLED", "AUTH", "PASSWORD_REQUIRED", "LOW_DISK", "STALLED"}
StatusesTell ==
  phase # "exit" => \A c \in DOMAIN states :
    /\ states[c].status = "RECORDING" => states[c].recording # None /\ states[c].enabled = TRUE
    /\ states[c].recording # None /\ states[c].status \in Quiet => RecordingOf(c).unstopped = TRUE

\* A watcher that does not run shows no recording, nor does one that has not begun.
SnapshotIsQuiet ==
  /\ task # "live" => snapshot.running = FALSE
  /\ phase \in {"off", "init"} =>
       \A c \in DOMAIN snapshot.channels : snapshot.channels[c].status # "RECORDING"

\* A declined broadcast is the suppressed one, or an earlier one than the channel's latest,
\* unless a stop command took the suppression back; what is being started is not declined.
DeclinedIsSuppressed ==
  /\ \A c \in Channels \ DOMAIN states : declined[c] = {}
  /\ \A c \in DOMAIN states :
       /\ states[c].last <= onAir[c].bno /\ states[c].suppressed <= onAir[c].bno
       /\ states[c].recording # None =>
            /\ RecordingOf(c).bno <= onAir[c].bno
            /\ states[c].last = None \/ RecordingOf(c).bno <= states[c].last
       /\ \/ None \in declined[c]
          \/ \A d \in declined[c] : d = states[c].suppressed \/ d < onAir[c].bno
  /\ starting # NoChannel => None \in declined[starting] \/ states[starting].last \notin declined[starting]

WatcherInv ==
  /\ WatcherTyped /\ RowsAreOwned /\ FailuresAreCounted /\ PhaseHasItsChannels
  /\ StatusesTell /\ SnapshotIsQuiet /\ DeclinedIsSuppressed

----------------------------------------------------------------------------
(* Steps of the task on one channel.                                       *)

\* What a stop that succeeds, one that fails, and a step that stops nothing do to a row.
OneChannel(c, s) ==
  /\ s \in ChannelState /\ s.enabled = states[c].enabled
  /\ states' = [states EXCEPT ![c] = s]
  /\ \/ /\ recordings' = recordings /\ s.recording = states[c].recording
        /\ used["faults"] <= used'["faults"]
     \/ /\ states[c].recording # None /\ s.recording = None
        /\ recordings' = [recordings EXCEPT ![states[c].recording] = NoRecording]
        /\ used["faults"] <= used'["faults"]
     \/ /\ states[c].recording # None /\ s.recording = states[c].recording
        /\ recordings' = [recordings EXCEPT ![states[c].recording].unstopped = TRUE]
        /\ used["faults"] + 1 <= used'["faults"]

\* What of the types the steps below need.
LEMMA WatcherTypes ==
  ASSUME WatcherTyped
  PROVE  /\ onAir \in [Channels -> [bno : Broadcasts \cup {None}, live : BOOLEAN]]
         /\ declined \in [Channels -> SUBSET (Broadcasts \cup {None})]
         /\ states \in [DOMAIN states -> ChannelState]
         /\ DOMAIN states \subseteq Channels /\ \A c \in DOMAIN states : states[c] \in ChannelState
         /\ recordings \in [RecordingIds -> Recording \cup {NoRecording}]
         /\ \A b \in DOMAIN Bounds : used[b] \in 0 .. Bounds[b] /\ used[b] \in Nat
         /\ RecordingIds \subseteq Nat /\ None \notin RecordingIds /\ Broadcasts \subseteq Nat
         /\ None \notin Broadcasts
  BY DEF WatcherTyped, LiveTypeOK, RecordingIds, None, Broadcasts

\* A row is either no recording or has all its fields.
LEMMA RowTypes ==
  ASSUME WatcherTyped, NEW r \in RecordingIds, recordings[r] # NoRecording
  PROVE  /\ recordings[r] \in Recording
         /\ [recordings[r] EXCEPT !.unstopped = TRUE] \in Recording
         /\ [recordings[r] EXCEPT !.running = FALSE] \in Recording
  BY WatcherTypes DEF Recording

\* No recording has the mark of a free row.
LEMMA RecordingsAreRows == \A row \in Recording : row # NoRecording
  BY WatcherAssumption DEF Recording, NoRecording

\* The bounds a step draws from.
LEMMA UseCounts ==
  ASSUME WatcherTyped, NEW b \in DOMAIN Bounds, NEW n \in Nat, Use(b, n)
  PROVE  /\ used' \in [DOMAIN Bounds -> Nat] /\ \A a \in DOMAIN Bounds : used'[a] \in 0 .. Bounds[a]
         /\ used'[b] = used[b] + n /\ \A a \in DOMAIN Bounds \ {b} : used'[a] = used[a]
  BY WatcherTypes DEF WatcherTyped, Use

\* ... for a step that can fail.
LEMMA OutcomeCounts ==
  ASSUME WatcherTyped, NEW ok \in BOOLEAN, Outcome(ok)
  PROVE  /\ used' \in [DOMAIN Bounds -> Nat] /\ \A a \in DOMAIN Bounds : used'[a] \in 0 .. Bounds[a]
         /\ used'["faults"] = used["faults"] + (IF ok THEN 0 ELSE 1)
<1>1. "faults" \in DOMAIN Bounds
  BY DEF Bounds
<1> QED BY <1>1, UseCounts DEF Outcome

\* Stopping a channel's recording, or trying to.
LEMMA StopIsOneChannel ==
  ASSUME WatcherTyped, RowsAreOwned, NEW c \in DOMAIN states, NEW ok \in BOOLEAN, Outcome(ok),
         ok = FALSE => states[c].recording # None,
         NEW s \in ChannelState, s.enabled = states[c].enabled,
         s.recording = (IF ok THEN None ELSE states[c].recording),
         states' = [states EXCEPT ![c] = s], recordings' = RecordingsAfter({c}, IF ok THEN {} ELSE {c})
  PROVE  OneChannel(c, s) /\ (ok = FALSE => recordings'[s.recording].unstopped = TRUE)
<1>1. used["faults"] <= used'["faults"] /\ (ok = FALSE => used["faults"] + 1 <= used'["faults"])
  BY OutcomeCounts, WatcherTypes DEF Bounds
<1>2. states[c] \in ChannelState /\ recordings \in [RecordingIds -> Recording \cup {NoRecording}]
  BY WatcherTypes
<1>3. recordings' = [r \in RecordingIds |->
                       IF states[c].recording = r
                       THEN IF ok = FALSE THEN [recordings[r] EXCEPT !.unstopped = TRUE] ELSE NoRecording
                       ELSE recordings[r]]
  BY DEF RecordingsAfter
<1>4. CASE states[c].recording = None
  <2>1. recordings' = recordings
    BY <1>2, <1>3, <1>4, WatcherTypes
  <2> QED BY <1>1, <1>4, <2>1 DEF OneChannel
<1>5. CASE states[c].recording # None
  <2>1. states[c].recording \in RecordingIds
    BY <1>2, <1>5 DEF ChannelState
  <2>2. recordings' = IF ok = FALSE
                      THEN [recordings EXCEPT ![states[c].recording].unstopped = TRUE]
                      ELSE [recordings EXCEPT ![states[c].recording] = NoRecording]
    BY <1>2, <1>3, <2>1
  <2>3. recordings[states[c].recording] \in Recording
    BY <1>5, <2>1, RowTypes DEF RowsAreOwned
  <2>4. ok = FALSE => recordings'[states[c].recording].unstopped = TRUE
    BY <1>2, <2>1, <2>2, <2>3 DEF Recording
  <2> QED BY <1>1, <1>5, <2>2, <2>4 DEF OneChannel
<1> QED BY <1>4, <1>5

\* What such a step leaves of the channels and their rows.
OthersStay(c, s) ==
  /\ recordings' \in [RecordingIds -> Recording \cup {NoRecording}]
  /\ DOMAIN states' = DOMAIN states /\ states'[c] = s /\ states' \in [DOMAIN states -> ChannelState]
  /\ \A d \in DOMAIN states \ {c} :
       /\ states'[d] = states[d]
       /\ states[d].recording # None => recordings'[states[d].recording] = recordings[states[d].recording]
  /\ s.recording # None =>
       /\ s.recording \in RecordingIds /\ s.recording = states[c].recording
       /\ recordings'[s.recording].bno = recordings[s.recording].bno
       /\ recordings[s.recording].unstopped = TRUE => recordings'[s.recording].unstopped = TRUE

\* A step on one channel keeps the types of what it touches.
LEMMA OneChannelTypes ==
  ASSUME WatcherTyped, RowsAreOwned, NEW c \in DOMAIN states, NEW s, OneChannel(c, s)
  PROVE  OthersStay(c, s)
<1> USE WatcherTypes DEF OthersStay
<1>1. /\ DOMAIN states' = DOMAIN states /\ states'[c] = s /\ states' \in [DOMAIN states -> ChannelState]
      /\ \A d \in DOMAIN states \ {c} : states'[d] = states[d]
  BY DEF OneChannel
<1>2. \A d \in DOMAIN states : states[d].recording # None =>
        states[d].recording \in RecordingIds /\ RecordingOf(d) \in Recording /\ RecordingOf(d).channel = d
  <2>1. \A d \in DOMAIN states : states[d].recording \in RecordingIds \cup {None}
    BY DEF ChannelState
  <2> QED BY <2>1, RowTypes DEF RowsAreOwned, RecordingOf
<1>3. \A d \in DOMAIN states \ {c} : states[d].recording # None => states[d].recording # states[c].recording
  BY <1>2 DEF RecordingOf
<1>4. CASE recordings' = recordings
  BY <1>1, <1>2, <1>4 DEF OneChannel, RecordingOf
<1>5. ASSUME states[c].recording # None, NEW row \in Recording \cup {NoRecording},
             recordings' = [recordings EXCEPT ![states[c].recording] = row],
             s.recording # None => s.recording = states[c].recording /\ row.bno = RecordingOf(c).bno
                                   /\ row.unstopped = TRUE
      PROVE  /\ recordings' \in [RecordingIds -> Recording \cup {NoRecording}]
             /\ \A d \in DOMAIN states \ {c} : states[d].recording # None =>
                  states[d].recording \in RecordingIds
                    /\ recordings'[states[d].recording] = recordings[states[d].recording]
             /\ s.recording # None => /\ s.recording \in RecordingIds /\ s.recording = states[c].recording
                                      /\ recordings'[s.recording].bno = recordings[s.recording].bno
                                      /\ recordings[s.recording].unstopped = TRUE
                                           => recordings'[s.recording].unstopped = TRUE
  BY <1>2, <1>3, <1>5 DEF RecordingOf
<1>6. CASE states[c].recording # None /\ s.recording = None
             /\ recordings' = [recordings EXCEPT ![states[c].recording] = NoRecording]
  BY <1>1, <1>5, <1>6
<1>7. CASE states[c].recording # None /\ s.recording = states[c].recording
             /\ recordings' = [recordings EXCEPT ![states[c].recording].unstopped = TRUE]
  <2> DEFINE row == [RecordingOf(c) EXCEPT !.unstopped = TRUE]
  <2>1. row \in Recording /\ row.bno = RecordingOf(c).bno /\ row.unstopped = TRUE
    BY <1>2, <1>7 DEF Recording
  <2>2. recordings' = [recordings EXCEPT ![states[c].recording] = row]
    BY <1>7 DEF RecordingOf
  <2> HIDE DEF row
  <2> QED BY <1>1, <1>5, <1>7, <2>1, <2>2
<1> QED BY <1>1, <1>4, <1>6, <1>7 DEF OneChannel

\* Rows that could not be stopped are finitely many.
LEMMA UnstoppedIsFinite ==
  /\ IsFiniteSet(Unstopped) /\ Cardinality(Unstopped) \in Nat
  /\ IsFiniteSet(Unstopped') /\ Cardinality(Unstopped') \in Nat
<1>1. Cardinality(Channels) \in Nat
  BY WatcherAssumption, FS_CardinalityType
<1>2. IsFiniteSet(RecordingIds)
  BY <1>1, WatcherAssumption, FS_Interval DEF RecordingIds
<1>3. Unstopped \in SUBSET RecordingIds /\ Unstopped' \in SUBSET RecordingIds
  BY DEF Unstopped
<1> QED BY <1>2, <1>3, FS_Subset, FS_CardinalityType

\* A step that leaves no further row unstopped, or one with a failure, keeps the count.
LEMMA OneMoreFailure ==
  ASSUME WatcherTyped, FailuresAreCounted, used' \in [DOMAIN Bounds -> Nat],
         \/ Unstopped' \subseteq Unstopped /\ used["faults"] <= used'["faults"]
         \/ (\E r : Unstopped' \subseteq Unstopped \cup {r}) /\ used["faults"] + 1 <= used'["faults"]
  PROVE  FailuresAreCounted'
<1>1. used["faults"] \in Nat /\ used'["faults"] \in Nat
  BY WatcherTypes DEF Bounds
<1>2. CASE Unstopped' \subseteq Unstopped /\ used["faults"] <= used'["faults"]
  <2>1. Cardinality(Unstopped') <= Cardinality(Unstopped)
    BY <1>2, UnstoppedIsFinite, FS_Subset
  <2> QED BY <1>1, <1>2, <2>1, UnstoppedIsFinite DEF FailuresAreCounted
<1>3. ASSUME NEW r, Unstopped' \subseteq Unstopped \cup {r}, used["faults"] + 1 <= used'["faults"]
      PROVE  FailuresAreCounted'
  <2>1. /\ IsFiniteSet(Unstopped \cup {r})
        /\ Cardinality(Unstopped \cup {r}) = IF r \in Unstopped THEN Cardinality(Unstopped)
                                             ELSE Cardinality(Unstopped) + 1
    BY UnstoppedIsFinite, FS_AddElement
  <2>2. Cardinality(Unstopped') <= Cardinality(Unstopped \cup {r})
    BY <1>3, <2>1, FS_Subset
  <2> QED BY <1>1, <1>3, <2>1, <2>2, UnstoppedIsFinite DEF FailuresAreCounted
<1> QED BY <1>2, <1>3

\* A step on one channel keeps the rows and their number.
LEMMA OneChannelRows ==
  ASSUME WatcherTyped, RowsAreOwned, FailuresAreCounted, NEW c \in DOMAIN states, NEW s,
         OneChannel(c, s), used' \in [DOMAIN Bounds -> Nat]
  PROVE  RowsAreOwned' /\ FailuresAreCounted'
<1>0. OthersStay(c, s)
  BY OneChannelTypes
<1> USE <1>0 DEF OthersStay
<1>1. /\ recordings \in [RecordingIds -> Recording \cup {NoRecording}]
      /\ \A d \in DOMAIN states : states[d].recording \in RecordingIds \cup {None}
  BY WatcherTypes DEF ChannelState
<1>2. \A d \in DOMAIN states' : states'[d].recording # None =>
        recordings'[states'[d].recording] # NoRecording /\ RecordingOf(d)'.channel = d
  <2>1. ASSUME NEW d \in DOMAIN states \ {c}, states[d].recording # None
        PROVE  recordings'[states'[d].recording] # NoRecording /\ RecordingOf(d)'.channel = d
    BY <2>1 DEF RowsAreOwned, RecordingOf
  <2>2. ASSUME s.recording # None
        PROVE  recordings'[s.recording] # NoRecording /\ recordings'[s.recording].channel = c
    <3>1. states[c].recording = s.recording /\ s.recording \in RecordingIds
      BY <2>2
    <3>2. recordings[s.recording] # NoRecording /\ recordings[s.recording].channel = c
      BY <2>2, <3>1 DEF RowsAreOwned, RecordingOf
    <3>3. recordings' = recordings \/ recordings' = [recordings EXCEPT ![s.recording].unstopped = TRUE]
      BY <2>2, <3>1 DEF OneChannel
    <3>4. recordings[s.recording] \in Recording
            /\ [recordings[s.recording] EXCEPT !.unstopped = TRUE] \in Recording
      BY <3>1, <3>2, RowTypes
    <3>5. recordings'[s.recording] \in {recordings[s.recording],
                                       [recordings[s.recording] EXCEPT !.unstopped = TRUE]}
      BY <1>1, <3>1, <3>3
    <3>6. [recordings[s.recording] EXCEPT !.unstopped = TRUE].channel = recordings[s.recording].channel
      BY <3>4 DEF Recording
    <3> QED BY <3>2, <3>4, <3>5, <3>6, RecordingsAreRows
  <2> QED BY <2>1, <2>2 DEF RecordingOf
<1>3. ASSUME NEW r \in RecordingIds, recordings'[r] # NoRecording
      PROVE  \/ \E d \in DOMAIN states' : states'[d].recording = r
             \/ recordings'[r].unstopped = TRUE /\ recordings'[r].running = FALSE
  <2>1. ASSUME NEW d \in DOMAIN states \ {c}, states[d].recording = r
        PROVE  \E e \in DOMAIN states' : states'[e].recording = r
    BY <2>1
  <2>2. CASE states[c].recording = r
    <3>1. s.recording = r
      BY <1>1, <1>3, <2>2, WatcherTypes DEF OneChannel
    <3> QED BY <3>1
  <2>3. CASE \A d \in DOMAIN states : states[d].recording # r
    <3>1. recordings'[r] = recordings[r]
      BY <1>1, <2>3 DEF OneChannel
    <3> QED BY <1>3, <2>3, <3>1 DEF RowsAreOwned
  <2> QED BY <2>1, <2>2, <2>3
<1>4. RowsAreOwned'
  BY <1>2, <1>3 DEF RowsAreOwned
<1>5. CASE recordings' = recordings /\ used["faults"] <= used'["faults"]
  <2>1. Unstopped' \subseteq Unstopped
    BY <1>5 DEF Unstopped
  <2> QED BY <1>4, <1>5, <2>1, OneMoreFailure
<1>6. CASE /\ recordings' = [recordings EXCEPT ![states[c].recording] = NoRecording]
           /\ used["faults"] <= used'["faults"]
  <2>1. Unstopped' \subseteq Unstopped
    BY <1>1, <1>6 DEF Unstopped
  <2> QED BY <1>4, <1>6, <2>1, OneMoreFailure
<1>7. CASE /\ recordings' = [recordings EXCEPT ![states[c].recording].unstopped = TRUE]
           /\ used["faults"] + 1 <= used'["faults"]
  <2>1. Unstopped' \subseteq Unstopped \cup {states[c].recording}
    BY <1>1, <1>7 DEF Unstopped
  <2> QED BY <1>4, <1>7, <2>1, OneMoreFailure
<1> QED BY <1>5, <1>6, <1>7 DEF OneChannel

\* ... and the statuses, if the channel's own is right.
LEMMA OneChannelStatus ==
  ASSUME WatcherTyped, RowsAreOwned, StatusesTell, NEW c \in DOMAIN states, NEW s, OneChannel(c, s),
         phase' = phase,
         phase # "exit" =>
           /\ s.status = "RECORDING" => s.recording # None /\ states[c].status = "RECORDING"
           /\ s.recording # None /\ s.status \in Quiet => recordings'[s.recording].unstopped = TRUE
  PROVE  StatusesTell'
<1>0. OthersStay(c, s)
  BY OneChannelTypes
<1> SUFFICES ASSUME phase # "exit", NEW d \in DOMAIN states
    PROVE  /\ states'[d].status = "RECORDING" => states'[d].recording # None /\ states'[d].enabled = TRUE
           /\ states'[d].recording # None /\ states'[d].status \in Quiet => RecordingOf(d)'.unstopped = TRUE
  BY <1>0 DEF OthersStay, StatusesTell
<1>1. CASE d = c
  BY <1>1, <1>0 DEF OthersStay, StatusesTell, RecordingOf, OneChannel
<1>2. CASE d # c
  BY <1>2, <1>0 DEF OthersStay, StatusesTell, RecordingOf
<1> QED BY <1>1, <1>2

\* ... and what each phase has to visit.
LEMMA OneChannelPhase ==
  ASSUME WatcherTyped, RowsAreOwned, PhaseHasItsChannels, NEW c \in DOMAIN states, NEW s, OneChannel(c, s),
         phase' = phase, task' = task, todo' = todo \/ todo' = todo \ {c},
         starting' = starting \/ starting' = NoChannel,
         c \in todo' \/ c = starting' => s.recording = states[c].recording,
         c = starting' => s.last = states[c].last,
         phase = "exit" => c \in todo' \/ s.recording = None \/ recordings'[s.recording].unstopped = TRUE
  PROVE  PhaseHasItsChannels'
<1>0. OthersStay(c, s)
  BY OneChannelTypes
<1>1. s.enabled = states[c].enabled
  BY DEF OneChannel
<1>2. (phase = "exit" => \A d \in DOMAIN states :
         states[d].recording # None /\ d \notin todo => RecordingOf(d).unstopped = TRUE)'
  BY <1>0 DEF OthersStay, PhaseHasItsChannels, RecordingOf
<1>3. (/\ phase \in {"recheck", "monitor", "exit"} => \A d \in todo : states[d].recording # None
       /\ phase = "poll" => \A d \in todo : states[d].recording = None /\ states[d].enabled = TRUE)'
  BY <1>1, <1>0 DEF OthersStay, PhaseHasItsChannels
<1>4. (starting # NoChannel =>
         /\ phase = "poll" /\ starting \in DOMAIN states \ todo
         /\ states[starting].recording = None /\ states[starting].enabled = TRUE
         /\ states[starting].last # None)'
  BY <1>1, <1>0 DEF OthersStay, PhaseHasItsChannels
<1> QED BY <1>2, <1>3, <1>4, <1>0 DEF OthersStay, PhaseHasItsChannels

\* ... and the suppression, if it does not touch it and sees no broadcast of the future.
LEMMA OneChannelDeclined ==
  ASSUME WatcherTyped, RowsAreOwned, DeclinedIsSuppressed, NEW c \in DOMAIN states, NEW s, OneChannel(c, s),
         onAir' = onAir, declined' = declined, s.suppressed = states[c].suppressed,
         s.last \in {states[c].last, None, onAir[c].bno},
         starting' = starting \/ starting' = NoChannel, c = starting' => s.last = states[c].last
  PROVE  DeclinedIsSuppressed'
<1>0. OthersStay(c, s)
  BY OneChannelTypes
<1>1. /\ s.last \in Nat /\ states[c].last \in Nat /\ onAir[c].bno \in Nat
      /\ s.recording # None => RecordingOf(c).bno \in Nat
  <2>1. states[c] \in ChannelState /\ s \in ChannelState /\ c \in Channels
    BY WatcherTypes DEF OneChannel
  <2>2. s.recording # None => RecordingOf(c) \in Recording
    <3>1. s.recording # None => states[c].recording \in RecordingIds /\ states[c].recording # None
      BY <1>0 DEF OthersStay
    <3> QED BY <3>1, RowTypes DEF RowsAreOwned, RecordingOf
  <2> QED BY <2>1, <2>2, WatcherTypes DEF ChannelState, Recording, None
<1>2. \A d \in DOMAIN states' :
       /\ states'[d].last <= onAir'[d].bno /\ states'[d].suppressed <= onAir'[d].bno
       /\ states'[d].recording # None =>
            /\ RecordingOf(d)'.bno <= onAir'[d].bno
            /\ states'[d].last = None \/ RecordingOf(d)'.bno <= states'[d].last
       /\ \/ None \in declined'[d]
          \/ \A b \in declined'[d] : b = states'[d].suppressed \/ b < onAir'[d].bno
  <2> SUFFICES ASSUME NEW d \in DOMAIN states
      PROVE  /\ states'[d].last <= onAir[d].bno /\ states'[d].suppressed <= onAir[d].bno
             /\ states'[d].recording # None =>
                  /\ RecordingOf(d)'.bno <= onAir[d].bno
                  /\ states'[d].last = None \/ RecordingOf(d)'.bno <= states'[d].last
             /\ \/ None \in declined[d]
                \/ \A b \in declined[d] : b = states'[d].suppressed \/ b < onAir[d].bno
    BY <1>0 DEF OthersStay
  <2>1. CASE d = c
    BY <1>1, <2>1, <1>0 DEF OthersStay, DeclinedIsSuppressed, RecordingOf, None
  <2>2. CASE d # c
    BY <2>2, <1>0 DEF OthersStay, DeclinedIsSuppressed, RecordingOf
  <2> QED BY <2>1, <2>2
<1>3. \A d \in Channels \ DOMAIN states' : declined'[d] = {}
  BY <1>0 DEF OthersStay, DeclinedIsSuppressed
<1>4. (starting # NoChannel => None \in declined[starting] \/ states[starting].last \notin declined[starting])'
  <2>1. states'[starting].last = states[starting].last \/ starting' = NoChannel
          \/ starting \notin DOMAIN states
    BY <1>0 DEF OthersStay
  <2> QED BY <2>1, <1>0 DEF OthersStay, DeclinedIsSuppressed, OneChannel
<1> QED BY <1>2, <1>3, <1>4 DEF DeclinedIsSuppressed

\* A snapshot shows statuses and broadcasts.
LEMMA PublishedTypes ==
  ASSUME NEW sts, NEW recs \in [RecordingIds -> Recording \cup {NoRecording}],
         \A d \in DOMAIN sts : /\ sts[d] \in ChannelState
                               /\ sts[d].recording # None => recs[sts[d].recording] # NoRecording
  PROVE  /\ DOMAIN Published(sts, recs) = DOMAIN sts
         /\ \A d \in DOMAIN sts : Published(sts, recs)[d] \in ChannelView
<1>1. \A d \in DOMAIN sts : sts[d].recording # None => recs[sts[d].recording].bno \in Broadcasts
  BY DEF ChannelState, Recording
<1>2. \A d \in DOMAIN sts :
        (IF sts[d].enabled THEN sts[d].status ELSE "DISABLED") \in Statuses
  BY DEF ChannelState, Statuses
<1>3. \A d \in DOMAIN sts :
        (IF sts[d].recording # None THEN recs[sts[d].recording].bno ELSE sts[d].last)
          \in Broadcasts \cup {None}
  BY <1>1 DEF ChannelState
<1> QED BY <1>2, <1>3 DEF Published, ChannelView

\* What a visit to a channel leaves alone.
LEMMA VisitTyped ==
  ASSUME WatcherTyped, RowsAreOwned', NEW c \in DOMAIN states, NEW s, OthersStay(c, s), s \in ChannelState,
         UNCHANGED <<onAir, saved, manager, task, stopSent, phase, applied>>,
         used' \in [DOMAIN Bounds -> Nat], \A b \in DOMAIN Bounds : used'[b] \in 0 .. Bounds[b],
         commands' \in Seq([channel : Channels, verb : Verbs]), Len(commands') <= QueueSize,
         declined' \in [Channels -> SUBSET (Broadcasts \cup {None})],
         todo' \subseteq Channels, starting' \in Channels \cup {NoChannel},
         passwords' \in [Channels -> Broadcasts \cup {None}],
         snapshot' = snapshot \/ Publish
  PROVE  WatcherTyped' /\ snapshot'.running = snapshot.running
<1>1. /\ DOMAIN states' \subseteq Channels /\ states' \in [DOMAIN states' -> ChannelState]
      /\ recordings' \in [RecordingIds -> Recording \cup {NoRecording}]
  BY WatcherTypes DEF OthersStay
<1>2. /\ DOMAIN snapshot' = {"running", "channels"} /\ snapshot'.running = snapshot.running
      /\ snapshot'.running \in BOOLEAN /\ DOMAIN snapshot'.channels \subseteq Channels
      /\ \A d \in DOMAIN snapshot'.channels : snapshot'.channels[d] \in ChannelView
  <2>1. CASE snapshot' = snapshot
    BY <2>1 DEF WatcherTyped, LiveTypeOK
  <2>2. CASE Publish
    <3>1. /\ DOMAIN snapshot' = {"running", "channels"} /\ snapshot'.running = snapshot.running
          /\ snapshot'.channels = Published(states', recordings')
      BY <2>2 DEF Publish, WatcherTyped
    <3>2. \A d \in DOMAIN states' : states'[d].recording # None =>
            recordings'[states'[d].recording] # NoRecording
      BY DEF RowsAreOwned
    <3>3. snapshot.running \in BOOLEAN
      BY DEF WatcherTyped, LiveTypeOK
    <3> QED BY <1>1, <3>1, <3>2, <3>3, PublishedTypes
  <2> QED BY <2>1, <2>2
<1>3. /\ onAir' = onAir /\ saved' = saved /\ manager' = manager /\ task' = task /\ stopSent' = stopSent
      /\ phase' = phase /\ applied' = applied
  OBVIOUS
<1>4. /\ onAir \in [Channels -> [bno : Broadcasts \cup {None}, live : BOOLEAN]]
      /\ saved \in [Channels -> ListEntries] /\ applied \in [Channels -> ListEntries]
      /\ manager \in {"idle", "stopping"} /\ task \in {"none", "live", "finished"}
      /\ stopSent \in BOOLEAN /\ phase \in Phases
  BY DEF WatcherTyped, LiveTypeOK
<1> QED BY <1>1, <1>2, <1>3, <1>4 DEF WatcherTyped, LiveTypeOK

\* A visit that neither touches the suppression nor starts a recording keeps the invariant.
LEMMA VisitKeeps ==
  ASSUME WatcherInv, NEW c \in DOMAIN states, NEW s, OneChannel(c, s),
         UNCHANGED <<env, control, commands, phase, applied, snapshot>>,
         used' \in [DOMAIN Bounds -> Nat], \A b \in DOMAIN Bounds : used'[b] \in 0 .. Bounds[b],
         passwords' \in [Channels -> Broadcasts \cup {None}],
         todo' = todo \/ todo' = todo \ {c}, starting' = starting \/ starting' = NoChannel,
         c \in todo' \/ c = starting' => s.recording = states[c].recording /\ s.last = states[c].last,
         s.suppressed = states[c].suppressed, s.last \in {states[c].last, None, onAir[c].bno},
         phase = "exit" => c \in todo' \/ s.recording = None \/ recordings'[s.recording].unstopped = TRUE,
         phase # "exit" =>
           /\ s.status = "RECORDING" => s.recording # None /\ states[c].status = "RECORDING"
           /\ s.recording # None /\ s.status \in Quiet => recordings'[s.recording].unstopped = TRUE
  PROVE  WatcherInv'
<1> USE DEF WatcherInv
<1>1. OthersStay(c, s) /\ s \in ChannelState
  BY OneChannelTypes DEF OneChannel
<1>2. RowsAreOwned' /\ FailuresAreCounted'
  BY OneChannelRows
<1>3. /\ UNCHANGED <<onAir, saved, manager, task, stopSent, phase, applied>>
      /\ commands' = commands /\ declined' = declined /\ snapshot' = snapshot
  BY DEF env, control
<1>4. WatcherTyped'
  <2>1. /\ commands' \in Seq([channel : Channels, verb : Verbs]) /\ Len(commands') <= QueueSize
        /\ declined' \in [Channels -> SUBSET (Broadcasts \cup {None})]
        /\ todo' \subseteq Channels /\ starting' \in Channels \cup {NoChannel}
    BY <1>3 DEF WatcherTyped, LiveTypeOK
  <2> QED BY <1>1, <1>2, <1>3, <2>1, VisitTyped
<1>5. StatusesTell'
  BY <1>3, OneChannelStatus
<1>6. PhaseHasItsChannels'
  BY <1>3, OneChannelPhase
<1>7. DeclinedIsSuppressed'
  BY <1>3, OneChannelDeclined
<1>8. SnapshotIsQuiet'
  BY <1>3 DEF SnapshotIsQuiet
<1> QED BY <1>2, <1>4, <1>5, <1>6, <1>7, <1>8

\* Where the visited channel stands.
LEMMA VisitedTypes ==
  ASSUME WatcherInv, NEW c \in DOMAIN states
  PROVE  /\ c \in Channels /\ states[c] \in ChannelState /\ onAir[c].bno \in Broadcasts \cup {None}
         /\ passwords \in [Channels -> Broadcasts \cup {None}]
         /\ [passwords EXCEPT ![c] = None] \in [Channels -> Broadcasts \cup {None}]
  BY WatcherTypes DEF WatcherInv, WatcherTyped, LiveTypeOK

\* Time passes.
LEMMA ElapseKeeps ==
  ASSUME WatcherInv, NEW c \in Channels, Elapse(c)
  PROVE  WatcherInv'
<1> DEFINE s == [states[c] EXCEPT !.due = TRUE]
<1>1. /\ c \in DOMAIN states /\ states' = [states EXCEPT ![c] = s] /\ recordings' = recordings
      /\ passwords' = passwords /\ todo' = todo /\ starting' = starting /\ used' = used
      /\ UNCHANGED <<env, control, commands, phase, applied, snapshot>>
  BY DEF Elapse
<1>2. /\ s \in ChannelState /\ s.enabled = states[c].enabled /\ s.recording = states[c].recording
      /\ s.last = states[c].last /\ s.suppressed = states[c].suppressed /\ s.status = states[c].status
  BY <1>1, VisitedTypes DEF ChannelState
<1>3. used["faults"] <= used'["faults"] /\ used' \in [DOMAIN Bounds -> Nat]
      /\ \A b \in DOMAIN Bounds : used'[b] \in 0 .. Bounds[b]
  BY <1>1, WatcherTypes DEF WatcherInv, WatcherTyped, Bounds
<1> HIDE DEF s
<1>4. OneChannel(c, s)
  BY <1>1, <1>2, <1>3 DEF OneChannel
<1>5. phase # "exit" =>
        /\ s.status = "RECORDING" => s.recording # None
        /\ s.recording # None /\ s.status \in Quiet => recordings'[s.recording].unstopped = TRUE
  BY <1>1, <1>2 DEF WatcherInv, StatusesTell, RecordingOf
<1>6. phase = "exit" => c \in todo' \/ s.recording = None \/ recordings'[s.recording].unstopped = TRUE
  BY <1>1, <1>2 DEF WatcherInv, PhaseHasItsChannels, RecordingOf
<1> QED BY <1>1, <1>2, <1>3, <1>4, <1>5, <1>6, VisitedTypes, VisitKeeps

\* A visit that stops the channel's recording, or fails to.
LEMMA StopKeeps ==
  ASSUME WatcherInv, NEW c \in DOMAIN states, NEW s \in ChannelState, NEW ok \in BOOLEAN, Outcome(ok),
         states[c].recording # None, s.enabled = states[c].enabled,
         s.recording = (IF ok THEN None ELSE states[c].recording),
         s.suppressed = states[c].suppressed, s.last \in {states[c].last, None, onAir[c].bno},
         phase # "exit" => s.status # "RECORDING",
         states' = [states EXCEPT ![c] = s], recordings' = RecordingsAfter({c}, IF ok THEN {} ELSE {c}),
         UNCHANGED <<env, control, commands, phase, starting, applied, snapshot>>,
         passwords' \in [Channels -> Broadcasts \cup {None}], todo' = todo \ {c}
  PROVE  WatcherInv'
<1>1. OneChannel(c, s) /\ (ok = FALSE => recordings'[s.recording].unstopped = TRUE)
  BY StopIsOneChannel DEF WatcherInv
<1>2. /\ used' \in [DOMAIN Bounds -> Nat] /\ \A b \in DOMAIN Bounds : used'[b] \in 0 .. Bounds[b]
      /\ s.recording = None \/ ok = FALSE
  BY OutcomeCounts DEF WatcherInv
<1>3. c # starting'
  BY WatcherAssumption, VisitedTypes DEF WatcherInv, PhaseHasItsChannels
<1> QED BY <1>1, <1>2, <1>3, VisitKeeps

\* A visit that only notes something about the channel.
LEMMA NoteKeeps ==
  ASSUME WatcherInv, NEW c \in DOMAIN states, NEW s \in ChannelState, NEW ok \in BOOLEAN,
         Outcome(ok) \/ used' = used,
         s.enabled = states[c].enabled, s.recording = states[c].recording,
         s.suppressed = states[c].suppressed, s.last \in {states[c].last, None, onAir[c].bno},
         \/ s.status = states[c].status
         \/ s.status # "RECORDING" /\ (s.recording = None \/ s.status \notin Quiet),
         states' = [states EXCEPT ![c] = s], recordings' = recordings, phase # "exit",
         UNCHANGED <<env, control, commands, phase, applied, snapshot>>,
         starting' = starting \/ starting' = NoChannel, c # starting',
         passwords' \in [Channels -> Broadcasts \cup {None}], todo' = todo \ {c}
  PROVE  WatcherInv'
<1>1. /\ used' \in [DOMAIN Bounds -> Nat] /\ \A b \in DOMAIN Bounds : used'[b] \in 0 .. Bounds[b]
      /\ used["faults"] <= used'["faults"]
  <2>1. CASE Outcome(ok)
    BY <2>1, OutcomeCounts, WatcherTypes DEF WatcherInv, Bounds
  <2>2. CASE used' = used
    BY <2>2, WatcherTypes DEF WatcherInv, WatcherTyped, Bounds
  <2> QED BY <2>1, <2>2
<1>2. OneChannel(c, s)
  BY <1>1 DEF OneChannel
<1>3. /\ s.status = "RECORDING" => s.recording # None /\ states[c].status = "RECORDING"
      /\ s.recording # None /\ s.status \in Quiet => recordings'[s.recording].unstopped = TRUE
  BY DEF WatcherInv, StatusesTell, RecordingOf
<1> QED BY <1>1, <1>2, <1>3, VisitKeeps

\* A recording's broadcast is rechecked.
LEMMA CheckRecordingKeeps ==
  ASSUME WatcherInv, NEW c \in Channels, CheckRecording(c)
  PROVE  WatcherInv'
<1>1. /\ c \in DOMAIN states /\ states[c].recording # None /\ phase = "recheck" /\ todo' = todo \ {c}
      /\ UNCHANGED <<env, control, commands, phase, starting, applied, snapshot>>
  BY DEF CheckRecording, WatcherInv, PhaseHasItsChannels
<1>2. /\ states[c] \in ChannelState /\ onAir[c].bno \in Broadcasts \cup {None}
      /\ passwords \in [Channels -> Broadcasts \cup {None}]
      /\ [passwords EXCEPT ![c] = None] \in [Channels -> Broadcasts \cup {None}]
  BY <1>1, VisitedTypes
<1>3. c # starting'
  BY <1>1, WatcherAssumption DEF WatcherInv, PhaseHasItsChannels
<1>4. ASSUME NEW ok \in BOOLEAN, BroadcastEnded(c, ok) PROVE WatcherInv'
  <2> DEFINE s == [Stopped(states[c], ok) EXCEPT !.status = "OFFLINE", !.last = None, !.due = FALSE]
  <2>1. /\ s \in ChannelState /\ s.enabled = states[c].enabled
        /\ s.recording = (IF ok THEN None ELSE states[c].recording)
        /\ s.suppressed = states[c].suppressed /\ s.last = None /\ s.status = "OFFLINE"
    BY <1>1, <1>2 DEF Stopped, ChannelState, Statuses
  <2>2. /\ states' = [states EXCEPT ![c] = s] /\ Outcome(ok)
        /\ recordings' = RecordingsAfter({c}, IF ok THEN {} ELSE {c})
        /\ passwords' \in [Channels -> Broadcasts \cup {None}]
    BY <1>2, <1>4 DEF BroadcastEnded
  <2> HIDE DEF s
  <2> QED BY <1>1, <2>1, <2>2, StopKeeps
<1>5. ASSUME NEW ok \in BOOLEAN, BroadcastChanged(c, ok) PROVE WatcherInv'
  <2> DEFINE s == [Stopped(states[c], ok) EXCEPT !.status = "UNKNOWN", !.last = onAir[c].bno, !.due = TRUE]
  <2>1. /\ s \in ChannelState /\ s.enabled = states[c].enabled
        /\ s.recording = (IF ok THEN None ELSE states[c].recording)
        /\ s.suppressed = states[c].suppressed /\ s.last = onAir[c].bno /\ s.status = "UNKNOWN"
    BY <1>1, <1>2 DEF Stopped, ChannelState, Statuses
  <2>2. /\ states' = [states EXCEPT ![c] = s] /\ Outcome(ok)
        /\ recordings' = RecordingsAfter({c}, IF ok THEN {} ELSE {c})
        /\ passwords' \in [Channels -> Broadcasts \cup {None}]
    BY <1>2, <1>5 DEF BroadcastChanged
  <2> HIDE DEF s
  <2> QED BY <1>1, <2>1, <2>2, StopKeeps
<1>6. ASSUME NEW ok \in BOOLEAN, BroadcastKept(c, ok) PROVE WatcherInv'
  <2> DEFINE s == [states[c] EXCEPT !.due = FALSE]
  <2>1. /\ s \in ChannelState /\ s.enabled = states[c].enabled /\ s.recording = states[c].recording
        /\ s.suppressed = states[c].suppressed /\ s.last = states[c].last /\ s.status = states[c].status
    BY <1>2 DEF ChannelState
  <2>2. /\ states' = [states EXCEPT ![c] = s] /\ Outcome(ok) /\ recordings' = recordings
        /\ passwords' = passwords
    BY <1>6 DEF BroadcastKept
  <2> HIDE DEF s
  <2> QED BY <1>1, <1>2, <1>3, <2>1, <2>2, NoteKeeps
<1> QED BY <1>4, <1>5, <1>6 DEF CheckRecording

\* A recorder is looked at.
LEMMA MonitorKeeps ==
  ASSUME WatcherInv, NEW c \in Channels, Monitor(c)
  PROVE  WatcherInv'
<1>1. /\ c \in DOMAIN states /\ states[c].recording # None /\ phase = "monitor" /\ todo' = todo \ {c}
      /\ UNCHANGED <<env, control, commands, phase, starting, applied, passwords, snapshot>>
  BY DEF Monitor, WatcherInv, PhaseHasItsChannels
<1>2. states[c] \in ChannelState /\ passwords \in [Channels -> Broadcasts \cup {None}]
  BY <1>1, VisitedTypes
<1>3. c # starting'
  BY <1>1, WatcherAssumption DEF WatcherInv, PhaseHasItsChannels
<1>4. ASSUME NEW normal \in BOOLEAN, Exited(c, normal) PROVE WatcherInv'
  <2> DEFINE s == [states[c] EXCEPT !.recording = None, !.status = IF normal THEN "UNKNOWN" ELSE "ERROR",
                                    !.due = normal]
  <2>1. /\ s \in ChannelState /\ s.enabled = states[c].enabled /\ s.recording = None
        /\ s.suppressed = states[c].suppressed /\ s.last = states[c].last /\ s.status # "RECORDING"
    BY <1>2 DEF ChannelState, Statuses
  <2>2. /\ states' = [states EXCEPT ![c] = s] /\ used' = used
        /\ recordings' = [recordings EXCEPT ![states[c].recording] = NoRecording]
    BY <1>4 DEF Exited
  <2>3. /\ used' \in [DOMAIN Bounds -> Nat] /\ \A b \in DOMAIN Bounds : used'[b] \in 0 .. Bounds[b]
        /\ used["faults"] <= used'["faults"]
    BY <2>2, WatcherTypes DEF WatcherInv, WatcherTyped, Bounds
  <2> HIDE DEF s
  <2>4. OneChannel(c, s)
    BY <1>1, <2>1, <2>2, <2>3 DEF OneChannel
  <2> QED BY <1>1, <1>2, <1>3, <2>1, <2>3, <2>4, VisitKeeps
<1>5. ASSUME NEW status \in {"LOW_DISK", "STALLED"}, NEW ok \in BOOLEAN, Hampered(c, status, ok)
      PROVE  WatcherInv'
  <2> DEFINE s == [Stopped([states[c] EXCEPT !.status = status], ok) EXCEPT !.due = (status = "STALLED")]
  <2>1. /\ s \in ChannelState /\ s.enabled = states[c].enabled
        /\ s.recording = (IF ok THEN None ELSE states[c].recording)
        /\ s.suppressed = states[c].suppressed /\ s.last = states[c].last /\ s.status # "RECORDING"
    BY <1>1, <1>2 DEF Stopped, ChannelState, Statuses
  <2>2. /\ states' = [states EXCEPT ![c] = s] /\ Outcome(ok)
        /\ recordings' = RecordingsAfter({c}, IF ok THEN {} ELSE {c})
    BY <1>5 DEF Hampered
  <2> HIDE DEF s
  <2> QED BY <1>1, <1>2, <2>1, <2>2, StopKeeps
<1>6. CASE MonitorFails(c)
  <2> DEFINE s == [states[c] EXCEPT !.status = "ERROR"]
  <2>1. /\ s \in ChannelState /\ s.enabled = states[c].enabled /\ s.recording = states[c].recording
        /\ s.suppressed = states[c].suppressed /\ s.last = states[c].last
        /\ s.status # "RECORDING" /\ s.status \notin Quiet
    BY <1>2 DEF ChannelState, Statuses, Quiet
  <2>2. states' = [states EXCEPT ![c] = s] /\ Outcome(FALSE) /\ recordings' = recordings
    BY <1>6 DEF MonitorFails
  <2> HIDE DEF s
  <2> QED BY <1>1, <1>2, <1>3, <2>1, <2>2, NoteKeeps
<1>7. CASE StillRunning(c)
  <2>1. states' = [states EXCEPT ![c] = states[c]] /\ used' = used /\ recordings' = recordings
    BY <1>7, WatcherTypes DEF WatcherInv, StillRunning
  <2> QED BY <1>1, <1>2, <1>3, <2>1, NoteKeeps
<1> QED BY <1>4, <1>5, <1>6, <1>7 DEF Monitor

\* The suppression of the other channels stays.
LEMMA OthersDeclined ==
  ASSUME WatcherTyped, DeclinedIsSuppressed, NEW c \in DOMAIN states, NEW s, OthersStay(c, s),
         onAir' = onAir, \A d \in Channels \ {c} : declined'[d] = declined[d],
         (/\ states[c].last <= onAir[c].bno /\ states[c].suppressed <= onAir[c].bno
          /\ states[c].recording # None =>
               /\ RecordingOf(c).bno <= onAir[c].bno
               /\ states[c].last = None \/ RecordingOf(c).bno <= states[c].last
          /\ \/ None \in declined[c]
             \/ \A d \in declined[c] : d = states[c].suppressed \/ d < onAir[c].bno)',
         (starting # NoChannel => None \in declined[starting] \/ states[starting].last \notin declined[starting])'
  PROVE  DeclinedIsSuppressed'
<1>1. \A d \in Channels \ DOMAIN states' : declined'[d] = {}
  BY DEF OthersStay, DeclinedIsSuppressed
<1>2. ASSUME NEW d \in DOMAIN states \ {c}
      PROVE  (/\ states[d].last <= onAir[d].bno /\ states[d].suppressed <= onAir[d].bno
              /\ states[d].recording # None =>
                   /\ RecordingOf(d).bno <= onAir[d].bno
                   /\ states[d].last = None \/ RecordingOf(d).bno <= states[d].last
              /\ \/ None \in declined[d]
                 \/ \A b \in declined[d] : b = states[d].suppressed \/ b < onAir[d].bno)'
  <2>1. /\ states'[d] = states[d] /\ onAir' = onAir /\ declined'[d] = declined[d]
        /\ states[d].recording # None => RecordingOf(d)' = RecordingOf(d)
    BY <1>2, WatcherTypes DEF OthersStay, RecordingOf
  <2> QED BY <1>2, <2>1 DEF DeclinedIsSuppressed
<1>3. DOMAIN states' = DOMAIN states
  BY DEF OthersStay
<1> QED BY <1>1, <1>2, <1>3 DEF DeclinedIsSuppressed

\* A probe finds a broadcast to record: it is not the suppressed one, and whatever was declined
\* before it is an earlier one.
LEMMA ChosenKeeps ==
  ASSUME WatcherInv, NEW c \in Channels, NEW b \in Broadcasts,
         phase = "poll", starting = NoChannel, c \in todo, todo' = todo \ {c}, starting' = c,
         onAir[c].bno = b, states[c].suppressed # b, used' = used, recordings' = recordings,
         states' = [states EXCEPT ![c] = [states[c] EXCEPT !.last = b, !.due = FALSE, !.suppressed = None]],
         passwords' \in [Channels -> Broadcasts \cup {None}],
         UNCHANGED <<env, control, commands, phase, applied, snapshot>>
  PROVE  WatcherInv'
<1> DEFINE s == [states[c] EXCEPT !.last = b, !.due = FALSE, !.suppressed = None]
<1>0. c \in DOMAIN states /\ states[c].recording = None /\ states[c].enabled = TRUE
  BY DEF WatcherInv, PhaseHasItsChannels
<1>1. /\ s \in ChannelState /\ s.enabled = TRUE /\ s.recording = None /\ s.last = b
      /\ s.suppressed = None /\ s.status = states[c].status
  BY <1>0, VisitedTypes DEF ChannelState
<1>2. /\ used["faults"] <= used'["faults"] /\ used' \in [DOMAIN Bounds -> Nat]
      /\ \A bound \in DOMAIN Bounds : used'[bound] \in 0 .. Bounds[bound]
  BY WatcherTypes DEF WatcherInv, WatcherTyped, Bounds
<1>3. /\ onAir' = onAir /\ saved' = saved /\ manager' = manager /\ task' = task /\ stopSent' = stopSent
      /\ declined' = declined /\ commands' = commands /\ snapshot' = snapshot /\ phase' = phase
      /\ applied' = applied
  BY DEF env, control
<1> HIDE DEF s
<1>4. OneChannel(c, s)
  BY <1>0, <1>1, <1>2 DEF OneChannel, s
<1>5. OthersStay(c, s)
  BY <1>0, <1>4, OneChannelTypes DEF WatcherInv
<1>6. RowsAreOwned' /\ FailuresAreCounted'
  BY <1>0, <1>2, <1>4, OneChannelRows DEF WatcherInv
<1>7. WatcherTyped'
  <2>1. /\ commands' \in Seq([channel : Channels, verb : Verbs]) /\ Len(commands') <= QueueSize
        /\ declined' \in [Channels -> SUBSET (Broadcasts \cup {None})] /\ todo' \subseteq Channels
    BY <1>3 DEF WatcherInv, WatcherTyped, LiveTypeOK
  <2> QED BY <1>0, <1>1, <1>2, <1>3, <1>5, <1>6, <2>1, VisitTyped DEF WatcherInv
<1>8. StatusesTell'
  <2>1. s.status # "RECORDING"
    BY <1>0, <1>1 DEF WatcherInv, StatusesTell
  <2> QED BY <1>0, <1>1, <1>3, <1>4, <2>1, OneChannelStatus DEF WatcherInv
<1>9. PhaseHasItsChannels'
  <2>1. c # NoChannel /\ None \notin Broadcasts
    BY WatcherAssumption DEF None, Broadcasts
  <2> QED BY <1>0, <1>1, <1>3, <1>5, <2>1 DEF WatcherInv, PhaseHasItsChannels, OthersStay, RecordingOf
<1>10. DeclinedIsSuppressed'
  <2>1. /\ b \in Nat /\ b # None /\ states[c].suppressed \in Nat /\ declined[c] \subseteq Nat
        /\ states[c].suppressed <= b
    <3>1. states[c] \in ChannelState
      BY <1>0, VisitedTypes
    <3> QED BY <1>0, <3>1, WatcherTypes DEF WatcherInv, ChannelState, DeclinedIsSuppressed, None
  <2>2. None \in declined[c] \/ \A d \in declined[c] : d < b
    BY <1>0, <2>1 DEF WatcherInv, DeclinedIsSuppressed
  <2>3. None \in declined[c] \/ b \notin declined[c]
    BY <2>1, <2>2
  <2>4. \A d \in DOMAIN states \ {c} : states'[d] = states[d]
    BY <1>5 DEF OthersStay
  <2>5. (/\ states[c].last <= onAir[c].bno /\ states[c].suppressed <= onAir[c].bno
         /\ None \in declined[c] \/ \A d \in declined[c] : d = states[c].suppressed \/ d < onAir[c].bno
         /\ states[c].recording = None)'
    BY <1>1, <1>3, <1>5, <2>1, <2>2 DEF OthersStay, None
  <2>6. \A d \in DOMAIN states \ {c} : states[d].recording # None => RecordingOf(d)' = RecordingOf(d)
    BY <2>4 DEF RecordingOf
  <2>7. (starting # NoChannel => None \in declined[starting] \/ states[starting].last \notin declined[starting])'
    BY <1>1, <1>3, <1>5, <2>3 DEF OthersStay
  <2> QED BY <1>0, <1>3, <1>5, <2>4, <2>5, <2>6, <2>7, OthersDeclined DEF WatcherInv
<1> QED BY <1>3, <1>6, <1>7, <1>8, <1>9, <1>10 DEF WatcherInv, SnapshotIsQuiet

\* An idle channel is probed.
LEMMA PollKeeps ==
  ASSUME WatcherInv, NEW c \in Channels, Poll(c)
  PROVE  WatcherInv'
<1>1. /\ c \in DOMAIN states /\ states[c].recording = None /\ phase = "poll" /\ todo' = todo \ {c}
      /\ starting = NoChannel /\ c # NoChannel /\ recordings' = recordings
      /\ UNCHANGED <<env, control, commands, phase, applied, snapshot>>
  BY WatcherAssumption DEF Poll, WatcherInv, PhaseHasItsChannels
<1>2. /\ states[c] \in ChannelState /\ passwords \in [Channels -> Broadcasts \cup {None}]
      /\ [passwords EXCEPT ![c] = None] \in [Channels -> Broadcasts \cup {None}]
  BY <1>1, VisitedTypes
<1>3. CASE ProbedOffline(c)
  <2> DEFINE s == [states[c] EXCEPT !.status = "OFFLINE", !.last = None, !.due = FALSE]
  <2>1. /\ s \in ChannelState /\ s.enabled = states[c].enabled /\ s.recording = None
        /\ s.suppressed = states[c].suppressed /\ s.last = None /\ s.status = "OFFLINE"
    BY <1>1, <1>2 DEF ChannelState, Statuses
  <2>2. /\ states' = [states EXCEPT ![c] = s] /\ used' = used /\ starting' = starting
        /\ passwords' \in [Channels -> Broadcasts \cup {None}]
    BY <1>2, <1>3 DEF ProbedOffline
  <2> HIDE DEF s
  <2> QED BY <1>1, <2>1, <2>2, NoteKeeps
<1>4. ASSUME NEW status \in {"ERROR", "AUTH"}, NEW recovered \in BOOLEAN, ProbeFails(c, status, recovered)
      PROVE  WatcherInv'
  <2> DEFINE s == [states[c] EXCEPT !.status = status, !.due = recovered]
  <2>1. /\ s \in ChannelState /\ s.enabled = states[c].enabled /\ s.recording = None
        /\ s.suppressed = states[c].suppressed /\ s.last = states[c].last /\ s.status # "RECORDING"
    BY <1>1, <1>2 DEF ChannelState, Statuses
  <2>2. /\ states' = [states EXCEPT ![c] = s] /\ Outcome(FALSE) /\ starting' = starting
        /\ passwords' = passwords
    BY <1>4 DEF ProbeFails
  <2> HIDE DEF s
  <2> QED BY <1>1, <1>2, <2>1, <2>2, NoteKeeps
<1>5. ASSUME NEW b \in Broadcasts, ProbedLive(c, b) PROVE WatcherInv'
  <2>1. /\ onAir[c].bno = b /\ used' = used /\ passwords' \in [Channels -> Broadcasts \cup {None}]
    BY <1>2, <1>5 DEF ProbedLive
  <2>2. ASSUME NEW status \in {"PASSWORD_REQUIRED", "PAUSED"}, starting' = starting,
               states' = [states EXCEPT ![c] = [states[c] EXCEPT !.last = b, !.due = FALSE,
               !.status = status]]
        PROVE  WatcherInv'
    <3> DEFINE s == [states[c] EXCEPT !.last = b, !.due = FALSE, !.status = status]
    <3>1. /\ s \in ChannelState /\ s.enabled = states[c].enabled /\ s.recording = None
          /\ s.suppressed = states[c].suppressed /\ s.last = b /\ s.status # "RECORDING"
      BY <1>1, <1>2 DEF ChannelState, Statuses
    <3>2. states' = [states EXCEPT ![c] = s]
      BY <2>2
    <3> HIDE DEF s
    <3> QED BY <1>1, <2>1, <2>2, <3>1, <3>2, NoteKeeps
  <2>3. ASSUME starting' = c, states[c].suppressed # b,
               states' = [states EXCEPT ![c] = [states[c] EXCEPT !.last = b, !.due = FALSE,
               !.suppressed = None]]
        PROVE  WatcherInv'
    <3>1. c \in todo
      BY DEF Poll
    <3> QED BY <1>1, <2>1, <2>3, <3>1, ChosenKeeps
  <2>4. [states[c] EXCEPT !.last = b, !.due = FALSE].suppressed = states[c].suppressed
    BY <1>2 DEF ChannelState
  <2> QED BY <1>5, <2>2, <2>3, <2>4 DEF ProbedLive
<1> QED BY <1>3, <1>4, <1>5 DEF Poll

\* A recording cannot be started.
LEMMA StartFailsKeeps ==
  ASSUME WatcherInv, StartFails
  PROVE  WatcherInv'
<1> DEFINE c == starting
           status == IF states[c].last \in Protected THEN "PASSWORD_REQUIRED" ELSE "ERROR"
           s == [states[c] EXCEPT !.status = status]
<1>1. /\ c \in DOMAIN states /\ c \in Channels /\ states[c].recording = None /\ phase = "poll"
      /\ c \notin todo /\ todo' = todo /\ starting' = NoChannel /\ c # NoChannel /\ recordings' = recordings
      /\ UNCHANGED <<env, control, commands, phase, applied, snapshot>> /\ Outcome(FALSE)
  BY WatcherTypes DEF StartFails, WatcherInv, PhaseHasItsChannels
<1>2. states[c] \in ChannelState /\ passwords' \in [Channels -> Broadcasts \cup {None}]
  <2>1. /\ states[c] \in ChannelState /\ passwords \in [Channels -> Broadcasts \cup {None}]
        /\ [passwords EXCEPT ![c] = None] \in [Channels -> Broadcasts \cup {None}]
    BY <1>1, VisitedTypes
  <2> QED BY <2>1 DEF StartFails
<1>3. /\ s \in ChannelState /\ s.enabled = states[c].enabled /\ s.recording = None
      /\ s.suppressed = states[c].suppressed /\ s.last = states[c].last /\ s.status # "RECORDING"
  BY <1>1, <1>2 DEF ChannelState, Statuses
<1>4. states' = [states EXCEPT ![c] = s] /\ todo' = todo \ {c}
  BY <1>1 DEF StartFails
<1> HIDE DEF s, status
<1> QED BY <1>1, <1>2, <1>3, <1>4, NoteKeeps

\* The exit stops a recording.
LEMMA ExitStopKeeps ==
  ASSUME WatcherInv, NEW c \in Channels, ExitStop(c)
  PROVE  WatcherInv'
<1>1. /\ c \in DOMAIN states /\ states[c].recording # None /\ phase = "exit" /\ todo' = todo \ {c}
      /\ UNCHANGED <<env, control, commands, phase, starting, applied, passwords, snapshot>>
  BY DEF ExitStop, WatcherInv, PhaseHasItsChannels
<1>2. states[c] \in ChannelState /\ passwords' \in [Channels -> Broadcasts \cup {None}]
  BY <1>1, VisitedTypes
<1>3. PICK ok \in BOOLEAN : /\ Outcome(ok) /\ states' = [states EXCEPT ![c] = Stopped(states[c], ok)]
                            /\ recordings' = RecordingsAfter({c}, IF ok THEN {} ELSE {c})
  BY DEF ExitStop
<1> DEFINE s == Stopped(states[c], ok)
<1>4. /\ s \in ChannelState /\ s.enabled = states[c].enabled
      /\ s.recording = (IF ok THEN None ELSE states[c].recording)
      /\ s.suppressed = states[c].suppressed /\ s.last = states[c].last
  BY <1>1, <1>2 DEF Stopped, ChannelState, Statuses
<1> HIDE DEF s
<1> QED BY <1>1, <1>2, <1>3, <1>4, StopKeeps DEF s

\* A command changed one channel.
LEMMA CommandKeeps ==
  ASSUME WatcherInv, NEW c \in DOMAIN states, NEW s, OneChannel(c, s), phase = "select",
         UNCHANGED <<env, manager, task, stopSent, phase, todo, starting, applied, passwords>>, Publish,
         commands' \in Seq([channel : Channels, verb : Verbs]), Len(commands') <= QueueSize,
         used' \in [DOMAIN Bounds -> Nat], \A b \in DOMAIN Bounds : used'[b] \in 0 .. Bounds[b],
         declined' \in [Channels -> SUBSET (Broadcasts \cup {None})],
         /\ s.status = "RECORDING" => s.recording # None /\ states[c].status = "RECORDING"
         /\ s.recording # None /\ s.status \in Quiet => recordings'[s.recording].unstopped = TRUE,
         DeclinedIsSuppressed'
  PROVE  WatcherInv'
<1> USE DEF WatcherInv
<1>1. OthersStay(c, s) /\ s \in ChannelState
  BY OneChannelTypes DEF OneChannel
<1>2. RowsAreOwned' /\ FailuresAreCounted'
  BY OneChannelRows
<1>3. /\ UNCHANGED <<onAir, saved, manager, task, stopSent, phase, applied>>
      /\ todo' = todo /\ starting' = starting /\ passwords' = passwords
  BY DEF env
<1>4. WatcherTyped' /\ snapshot'.running = snapshot.running
  <2>1. /\ todo' \subseteq Channels /\ starting' \in Channels \cup {NoChannel}
        /\ passwords' \in [Channels -> Broadcasts \cup {None}]
    BY <1>3 DEF WatcherTyped, LiveTypeOK
  <2> QED BY <1>1, <1>2, <1>3, <2>1, VisitTyped
<1>5. StatusesTell'
  BY <1>3, OneChannelStatus
<1>6. PhaseHasItsChannels'
  <2>1. starting = NoChannel
    BY DEF PhaseHasItsChannels
  <2>2. todo' \subseteq DOMAIN states'
    BY <1>1, <1>3 DEF OthersStay, PhaseHasItsChannels
  <2> QED BY <1>3, <2>1, <2>2 DEF PhaseHasItsChannels
<1>7. SnapshotIsQuiet'
  BY <1>3, <1>4 DEF SnapshotIsQuiet
<1> QED BY <1>2, <1>4, <1>5, <1>6, <1>7

\* A stop command suppresses the broadcast last seen, or the one being recorded.
LEMMA StopOnceKeeps ==
  ASSUME WatcherInv, NEW c \in DOMAIN states, NEW ok \in BOOLEAN, StopOnce(c, ok), phase = "select",
         UNCHANGED <<env, manager, task, stopSent, phase, todo, starting, applied, passwords>>, Publish,
         commands' \in Seq([channel : Channels, verb : Verbs]), Len(commands') <= QueueSize
  PROVE  WatcherInv'
<1> DEFINE seen == IF states[c].last # None THEN states[c].last
                   ELSE IF IsRecording(c) THEN RecordingOf(c).bno ELSE None
           s == [Stopped([states[c] EXCEPT !.suppressed = seen], ok) EXCEPT !.status = "PAUSED"]
<1>0. /\ WatcherTyped /\ RowsAreOwned /\ DeclinedIsSuppressed /\ starting = NoChannel /\ starting' = starting
      /\ onAir' = onAir
  BY DEF WatcherInv, PhaseHasItsChannels, env
<1>1. /\ c \in Channels /\ states[c] \in ChannelState /\ onAir[c].bno \in Nat
      /\ IsRecording(c) <=> states[c].recording # None
      /\ states[c].recording # None => RecordingOf(c).bno \in Broadcasts
      /\ declined \in [Channels -> SUBSET (Broadcasts \cup {None})] /\ Broadcasts \subseteq Nat
  <2>1. /\ c \in Channels /\ states[c] \in ChannelState /\ onAir[c].bno \in Broadcasts \cup {None}
    BY VisitedTypes
  <2>2. states[c].recording # None => RecordingOf(c) \in Recording
    BY <1>0, <2>1, RowTypes DEF RowsAreOwned, RecordingOf, ChannelState
  <2> QED BY <1>0, <2>1, <2>2, WatcherTypes DEF Recording, None, IsRecording
<1>2. /\ seen \in Broadcasts \cup {None} /\ seen \in Nat /\ seen <= onAir[c].bno
      /\ states[c].recording # None => RecordingOf(c).bno <= seen
      /\ states[c].suppressed \in Nat
  <2>1. /\ states[c].last \in Broadcasts \cup {None} /\ states[c].suppressed \in Broadcasts \cup {None}
    BY <1>1 DEF ChannelState
  <2>2. /\ states[c].last \in Nat /\ states[c].suppressed \in Nat /\ None \in Nat
        /\ states[c].last <= onAir[c].bno
        /\ states[c].recording # None => RecordingOf(c).bno \in Nat /\ RecordingOf(c).bno <= onAir[c].bno
        /\ states[c].recording # None => states[c].last = None \/ RecordingOf(c).bno <= states[c].last
    <3>1. /\ states[c].last <= onAir[c].bno
          /\ states[c].recording # None =>
               /\ RecordingOf(c).bno <= onAir[c].bno
               /\ states[c].last = None \/ RecordingOf(c).bno <= states[c].last
      BY <1>0 DEF DeclinedIsSuppressed
    <3>4. Broadcasts \cup {None} \subseteq Nat /\ None \in Nat
      BY <1>1 DEF None
    <3>2. states[c].last \in Nat /\ states[c].suppressed \in Nat /\ None \in Nat
      BY <2>1, <3>4
    <3>3. states[c].recording # None => RecordingOf(c).bno \in Nat
      BY <1>1
    <3> QED BY <3>1, <3>2, <3>3
  <2>3. CASE states[c].last # None
    BY <2>1, <2>2, <2>3
  <2>4. CASE states[c].last = None /\ IsRecording(c)
    BY <1>1, <2>2, <2>4
  <2>5. CASE states[c].last = None /\ ~IsRecording(c)
    BY <1>1, <2>2, <2>5 DEF None
  <2> QED BY <2>3, <2>4, <2>5
<1> HIDE DEF seen
<1>3. /\ s \in ChannelState /\ s.enabled = states[c].enabled /\ s.status = "PAUSED"
      /\ s.recording = (IF ok THEN None ELSE states[c].recording)
      /\ s.suppressed = seen /\ s.last = states[c].last
  <2>1. ok = FALSE => states[c].recording # None
    BY <1>1 DEF StopOnce
  <2> QED BY <1>1, <1>2, <2>1 DEF Stopped, ChannelState, Statuses
<1>4. /\ ok = FALSE => states[c].recording # None
      /\ Outcome(ok) /\ states' = [states EXCEPT ![c] = s]
      /\ recordings' = RecordingsAfter({c}, IF ok THEN {} ELSE {c})
      /\ declined' = [declined EXCEPT ![c] = @ \cup Declines(c, seen)]
  BY <1>1 DEF StopOnce, seen
<1> HIDE DEF s
<1>5. OneChannel(c, s) /\ (ok = FALSE => recordings'[s.recording].unstopped = TRUE)
  BY <1>0, <1>3, <1>4, StopIsOneChannel
<1>6. OthersStay(c, s)
  BY <1>0, <1>5, OneChannelTypes
<1>7. Declines(c, seen) \subseteq Broadcasts \cup {None}
  BY DEF Declines
<1>8. /\ declined' \in [Channels -> SUBSET (Broadcasts \cup {None})]
      /\ declined'[c] = declined[c] \cup Declines(c, seen)
      /\ \A d \in Channels \ {c} : declined'[d] = declined[d]
  BY <1>1, <1>4, <1>7
<1>9. None \in declined'[c] \/ \A d \in declined'[c] : d = seen \/ d < onAir[c].bno
  <2>1. CASE None \in declined[c] \/ seen < states[c].suppressed
    BY <1>8, <2>1 DEF Declines
  <2>2. CASE None \notin declined[c] /\ ~(seen < states[c].suppressed)
    <3>1. \A d \in declined[c] : d = seen \/ d < onAir[c].bno
      BY <1>0, <1>1, <1>2, <2>2 DEF DeclinedIsSuppressed
    <3>2. \A d \in Declines(c, seen) : d \in Nat /\ (d = seen \/ Records(c, d))
      BY <1>1, <2>2 DEF Declines
    <3>3. \A d \in Declines(c, seen) : d = seen \/ d < onAir[c].bno
      BY <1>1, <1>2, <3>2 DEF Records
    <3> QED BY <1>8, <3>1, <3>3
  <2> QED BY <2>1, <2>2
<1>10. DeclinedIsSuppressed'
  <2>1. (/\ states[c].last <= onAir[c].bno /\ states[c].suppressed <= onAir[c].bno
         /\ states[c].recording # None =>
              /\ RecordingOf(c).bno <= onAir[c].bno
              /\ states[c].last = None \/ RecordingOf(c).bno <= states[c].last
         /\ \/ None \in declined[c]
            \/ \A d \in declined[c] : d = states[c].suppressed \/ d < onAir[c].bno)'
    BY <1>0, <1>2, <1>3, <1>6, <1>9 DEF OthersStay, RecordingOf, DeclinedIsSuppressed
  <2> QED BY <1>0, <1>6, <1>8, <2>1, OthersDeclined
<1>11. /\ used' \in [DOMAIN Bounds -> Nat] /\ \A b \in DOMAIN Bounds : used'[b] \in 0 .. Bounds[b]
  BY <1>0, <1>4, OutcomeCounts
<1>12. s.recording # None => ok = FALSE
  BY <1>3
<1> QED BY <1>3, <1>5, <1>8, <1>10, <1>11, <1>12, CommandKeeps

\* A command is handled.
LEMMA HandleCommandKeeps ==
  ASSUME WatcherInv, HandleCommand
  PROVE  WatcherInv'
<1>0. /\ WatcherTyped /\ RowsAreOwned /\ DeclinedIsSuppressed /\ starting = NoChannel /\ phase = "select"
      /\ UNCHANGED <<env, manager, task, stopSent, phase, todo, starting, applied, passwords>> /\ Publish
      /\ onAir' = onAir
  BY DEF WatcherInv, PhaseHasItsChannels, env, HandleCommand
<1>1. commands' \in Seq([channel : Channels, verb : Verbs]) /\ Len(commands') <= QueueSize
  <2>1. /\ commands \in Seq([channel : Channels, verb : Verbs]) /\ Len(commands) <= QueueSize
        /\ QueueSize \in Nat
    BY <1>0, WatcherAssumption DEF WatcherTyped, LiveTypeOK
  <2>2. commands' = Tail(commands) /\ commands # <<>>
    BY DEF HandleCommand
  <2> QED BY <2>1, <2>2
<1>7. PICK c \in Channels :
        \/ UNCHANGED <<states, recordings, declined, used>>
        \/ c \in DOMAIN states /\ \E ok \in BOOLEAN : StopOnce(c, ok)
        \/ c \in DOMAIN states /\ (Resume(c) \/ Recheck(c))
  <2> DEFINE Command == [channel : Channels, verb : Verbs]
  <2>1. commands \in Seq(Command) /\ commands # <<>>
    BY <1>0 DEF WatcherTyped, LiveTypeOK, HandleCommand
  <2>3. Head(commands) \in Command
    <3> HIDE DEF Command
    <3> QED BY <2>1
  <2>2. Head(commands).channel \in Channels
    BY <2>3
  <2> QED BY <2>2 DEF HandleCommand
<1>2. CASE UNCHANGED <<states, recordings, declined, used>>
  <2>1. /\ saved' = saved /\ manager' = manager /\ task' = task /\ stopSent' = stopSent /\ phase' = phase
        /\ todo' = todo /\ starting' = starting /\ applied' = applied /\ passwords' = passwords
        /\ states' = states /\ recordings' = recordings /\ declined' = declined /\ used' = used
    BY <1>0, <1>2 DEF env
  <2>2. /\ DOMAIN Published(states, recordings) = DOMAIN states
        /\ \A d \in DOMAIN states : Published(states, recordings)[d] \in ChannelView
    BY <1>0, WatcherTypes, PublishedTypes DEF RowsAreOwned
  <2>3. snapshot' = [snapshot EXCEPT !.channels = Published(states, recordings)]
    BY <1>0, <2>1 DEF Publish
  <2>4. /\ DOMAIN snapshot' = {"running", "channels"} /\ snapshot'.running = snapshot.running
        /\ snapshot'.running \in BOOLEAN /\ snapshot'.channels = Published(states, recordings)
    BY <1>0, <2>3 DEF WatcherTyped, LiveTypeOK
  <2>5. WatcherTyped'
    BY <1>0, <1>1, <2>1, <2>2, <2>4 DEF WatcherTyped, LiveTypeOK
  <2>6. RowsAreOwned' /\ FailuresAreCounted'
    BY <1>0, <2>1 DEF WatcherInv, RowsAreOwned, FailuresAreCounted, Unstopped, RecordingOf
  <2>7. PhaseHasItsChannels' /\ StatusesTell'
    BY <1>0, <2>1 DEF WatcherInv, PhaseHasItsChannels, StatusesTell, RecordingOf
  <2>8. SnapshotIsQuiet' /\ DeclinedIsSuppressed'
    BY <1>0, <2>1, <2>4 DEF WatcherInv, SnapshotIsQuiet, DeclinedIsSuppressed, RecordingOf
  <2> QED BY <2>5, <2>6, <2>7, <2>8 DEF WatcherInv
<1>3. ASSUME c \in DOMAIN states, NEW ok \in BOOLEAN, StopOnce(c, ok) PROVE WatcherInv'
  BY <1>0, <1>1, <1>3, StopOnceKeeps
<1>4. ASSUME c \in DOMAIN states, NEW s, s \in ChannelState, s.enabled = states[c].enabled,
             s.recording = states[c].recording, s.last = states[c].last,
             s.status \notin Quiet \cup {"RECORDING"}
                                                                  \/ s.status = states[c].status,
             states' = [states EXCEPT ![c] = s], UNCHANGED <<recordings, used>>,
             \/ s.suppressed = states[c].suppressed /\ declined' = declined
             \/ s.suppressed = None /\ declined' = [declined EXCEPT ![c] = {}]
      PROVE  WatcherInv'
  <2>1. OneChannel(c, s)
    BY <1>0, <1>4, WatcherTypes DEF OneChannel, Bounds
  <2>2. OthersStay(c, s)
    BY <1>0, <1>4, <2>1, OneChannelTypes
  <2>3. /\ used' \in [DOMAIN Bounds -> Nat] /\ \A b \in DOMAIN Bounds : used'[b] \in 0 .. Bounds[b]
    BY <1>0, <1>4, WatcherTypes DEF WatcherTyped
  <2>4. declined' \in [Channels -> SUBSET (Broadcasts \cup {None})] /\ c \in Channels
    BY <1>0, <1>4, WatcherTypes
  <2>5. DeclinedIsSuppressed'
    <3>1. CASE s.suppressed = states[c].suppressed /\ declined' = declined
      BY <1>0, <1>4, <2>1, <3>1, WatcherAssumption, OneChannelDeclined
    <3>2. CASE s.suppressed = None /\ declined' = [declined EXCEPT ![c] = {}]
      <4>1. \A d \in Channels \ {c} : declined'[d] = declined[d]
        BY <1>0, <3>2, WatcherTypes
      <4>2. declined'[c] = {} /\ onAir[c].bno \in Nat /\ onAir'[c] = onAir[c]
        BY <1>0, <2>4, <3>2, WatcherTypes DEF None
      <4>4. states'[c] = s
        BY <2>2 DEF OthersStay
      <4>5. RecordingOf(c)' = RecordingOf(c)
        BY <1>4, <4>4 DEF RecordingOf
      <4>6. /\ states[c].last <= onAir[c].bno
            /\ states[c].recording # None =>
                 /\ RecordingOf(c).bno <= onAir[c].bno
                 /\ states[c].last = None \/ RecordingOf(c).bno <= states[c].last
        BY <1>0, <1>4 DEF DeclinedIsSuppressed
      <4>3. (/\ states[c].last <= onAir[c].bno /\ states[c].suppressed <= onAir[c].bno
             /\ states[c].recording # None =>
                  /\ RecordingOf(c).bno <= onAir[c].bno
                  /\ states[c].last = None \/ RecordingOf(c).bno <= states[c].last
             /\ \/ None \in declined[c]
                \/ \A d \in declined[c] : d = states[c].suppressed \/ d < onAir[c].bno)'
        BY <1>4, <3>2, <4>2, <4>4, <4>5, <4>6 DEF None
      <4> QED BY <1>0, <1>4, <2>2, <4>1, <4>3, OthersDeclined
    <3> QED BY <1>4, <3>1, <3>2
  <2>6. /\ s.status = "RECORDING" => s.recording # None /\ states[c].status = "RECORDING"
        /\ s.recording # None /\ s.status \in Quiet => recordings'[s.recording].unstopped = TRUE
    BY <1>0, <1>4 DEF WatcherInv, StatusesTell, RecordingOf
  <2> QED BY <1>0, <1>1, <1>4, <2>1, <2>3, <2>4, <2>5, <2>6, CommandKeeps
<1>5. CASE c \in DOMAIN states /\ Resume(c)
  <2> DEFINE s == [states[c] EXCEPT !.suppressed = None, !.status = "UNKNOWN", !.due = TRUE]
  <2>1. /\ s \in ChannelState /\ s.enabled = states[c].enabled /\ s.recording = states[c].recording
        /\ s.last = states[c].last /\ s.status \notin Quiet \cup {"RECORDING"} /\ s.suppressed = None
    BY <1>5, VisitedTypes DEF ChannelState, Statuses, Quiet
  <2>2. /\ states' = [states EXCEPT ![c] = s] /\ UNCHANGED <<recordings, used>>
        /\ declined' = [declined EXCEPT ![c] = {}]
    BY <1>5 DEF Resume
  <2> HIDE DEF s
  <2> QED BY <1>4, <1>5, <2>1, <2>2
<1>6. CASE c \in DOMAIN states /\ Recheck(c)
  <2> DEFINE s == [states[c] EXCEPT !.due = TRUE]
  <2>1. /\ s \in ChannelState /\ s.enabled = states[c].enabled /\ s.recording = states[c].recording
        /\ s.last = states[c].last /\ s.status = states[c].status /\ s.suppressed = states[c].suppressed
    BY <1>6, VisitedTypes DEF ChannelState
  <2>2. states' = [states EXCEPT ![c] = s] /\ UNCHANGED <<recordings, used>> /\ declined' = declined
    BY <1>6 DEF Recheck
  <2> HIDE DEF s
  <2> QED BY <1>4, <1>6, <2>1, <2>2
<1> QED BY <1>2, <1>3, <1>5, <1>6, <1>7

----------------------------------------------------------------------------
(* Steps that leave the channels and the rows as they are.                 *)

\* The types of everything but the channels' states and the rows.
ShellTyped ==
  /\ onAir \in [Channels -> [bno : Broadcasts \cup {None}, live : BOOLEAN]]
  /\ saved \in [Channels -> ListEntries] /\ applied \in [Channels -> ListEntries]
  /\ manager \in {"idle", "stopping"} /\ task \in {"none", "live", "finished"} /\ stopSent \in BOOLEAN
  /\ declined \in [Channels -> SUBSET (Broadcasts \cup {None})]
  /\ commands \in Seq([channel : Channels, verb : Verbs]) /\ Len(commands) <= QueueSize
  /\ phase \in Phases /\ todo \subseteq Channels /\ starting \in Channels \cup {NoChannel}
  /\ passwords \in [Channels -> Broadcasts \cup {None}]
  /\ DOMAIN snapshot = {"running", "channels"} /\ snapshot.running \in BOOLEAN
  /\ DOMAIN snapshot.channels \subseteq Channels
  /\ \A c \in DOMAIN snapshot.channels : snapshot.channels[c] \in ChannelView

\* How much of each bound was used.
BoundsTyped == used \in [DOMAIN Bounds -> Nat] /\ \A b \in DOMAIN Bounds : used[b] \in 0 .. Bounds[b]

\* The types are these and those of the states and the rows.
LEMMA ShellTypes ==
  /\ WatcherTyped => ShellTyped /\ BoundsTyped
  /\ ShellTyped' /\ BoundsTyped' /\ DOMAIN states' \subseteq Channels
       /\ states' \in [DOMAIN states' -> ChannelState]
       /\ recordings' \in [RecordingIds -> Recording \cup {NoRecording}] => WatcherTyped'
  BY DEF WatcherTyped, LiveTypeOK, ShellTyped, BoundsTyped

\* What is free of bounds to keep.
LEMMA BoundsStay ==
  ASSUME WatcherInv, used' = used \/ \E b \in DOMAIN Bounds, n \in Nat : Use(b, n)
  PROVE  BoundsTyped' /\ used["faults"] <= used'["faults"]
<1>1. CASE used' = used
  BY <1>1, WatcherTypes DEF WatcherInv, WatcherTyped, BoundsTyped, Bounds
<1>2. ASSUME NEW b \in DOMAIN Bounds, NEW n \in Nat, Use(b, n)
      PROVE  BoundsTyped' /\ used["faults"] <= used'["faults"]
  <2>1. /\ BoundsTyped' /\ used'[b] = used[b] + n
        /\ \A a \in DOMAIN Bounds \ {b} : used'[a] = used[a]
    BY <1>2, UseCounts DEF WatcherInv, BoundsTyped
  <2>2. used[b] \in Nat /\ used["faults"] \in Nat /\ "faults" \in DOMAIN Bounds
    BY WatcherTypes DEF WatcherInv, Bounds
  <2> QED BY <2>1, <2>2
<1> QED BY <1>1, <1>2

\* The rows, their number and the suppression stay as they are.
LEMMA StatesStay ==
  ASSUME WatcherInv, UNCHANGED <<states, recordings, declined>>, starting' = starting,
         ShellTyped', used' = used \/ \E b \in DOMAIN Bounds, n \in Nat : Use(b, n),
         \A c \in Channels : onAir[c].bno <= onAir'[c].bno
  PROVE  WatcherTyped' /\ RowsAreOwned' /\ FailuresAreCounted' /\ DeclinedIsSuppressed'
<1>0. states' = states /\ recordings' = recordings /\ declined' = declined
  OBVIOUS
<1>1. WatcherTyped'
  BY BoundsStay, ShellTypes, WatcherTypes DEF WatcherInv
<1>2. RowsAreOwned'
  BY <1>0 DEF WatcherInv, RowsAreOwned, RecordingOf
<1>3. FailuresAreCounted'
  <2>1. Unstopped' = Unstopped
    BY <1>0 DEF Unstopped
  <2> QED BY <2>1, BoundsStay, OneMoreFailure DEF WatcherInv, BoundsTyped
<1>4. DeclinedIsSuppressed'
  <2>1. ASSUME NEW c \in DOMAIN states
        PROVE  (/\ states[c].last <= onAir[c].bno /\ states[c].suppressed <= onAir[c].bno
                /\ states[c].recording # None =>
                     /\ RecordingOf(c).bno <= onAir[c].bno
                     /\ states[c].last = None \/ RecordingOf(c).bno <= states[c].last
                /\ \/ None \in declined[c]
                   \/ \A d \in declined[c] : d = states[c].suppressed \/ d < onAir[c].bno)'
    <3>1. /\ c \in Channels /\ states[c].last \in Nat /\ states[c].suppressed \in Nat
          /\ onAir[c].bno \in Nat /\ onAir'[c].bno \in Nat /\ declined[c] \subseteq Nat
          /\ onAir[c].bno <= onAir'[c].bno
      <4>1. /\ c \in Channels /\ states[c] \in ChannelState /\ Broadcasts \cup {None} \subseteq Nat
            /\ onAir[c].bno \in Broadcasts \cup {None} /\ declined[c] \subseteq Broadcasts \cup {None}
        BY WatcherTypes DEF WatcherInv, None
      <4>2. onAir'[c].bno \in Broadcasts \cup {None}
        BY <4>1 DEF ShellTyped
      <4> QED BY <4>1, <4>2 DEF ChannelState
    <3>2. states[c].recording # None => RecordingOf(c).bno \in Nat
      <4>1. states[c].recording # None => RecordingOf(c) \in Recording
        BY RowTypes, WatcherTypes DEF WatcherInv, RowsAreOwned, RecordingOf, ChannelState
      <4> QED BY <4>1, WatcherTypes DEF WatcherInv, Recording
    <3>3. RecordingOf(c)' = RecordingOf(c)
      BY <1>0 DEF RecordingOf
    <3>4. /\ states[c].last <= onAir[c].bno /\ states[c].suppressed <= onAir[c].bno
          /\ states[c].recording # None =>
               /\ RecordingOf(c).bno <= onAir[c].bno
               /\ states[c].last = None \/ RecordingOf(c).bno <= states[c].last
          /\ \/ None \in declined[c]
             \/ \A d \in declined[c] : d = states[c].suppressed \/ d < onAir[c].bno
      BY DEF WatcherInv, DeclinedIsSuppressed
    <3>5. None \in declined[c] \/ \A d \in declined[c] : d = states[c].suppressed \/ d < onAir'[c].bno
      BY <3>1, <3>4
    <3> QED BY <1>0, <3>1, <3>2, <3>3, <3>4, <3>5
  <2> QED BY <1>0, <2>1 DEF WatcherInv, DeclinedIsSuppressed
<1> QED BY <1>1, <1>2, <1>3, <1>4

\* Broadcasts begin and end.
LEMMA AirKeeps ==
  ASSUME WatcherInv, NEW c \in Channels, GoesLive(c) \/ GoesOff(c)
  PROVE  WatcherInv'
<1>1. /\ UNCHANGED <<saved, control, commands, local, recordings, passwords, snapshot, used>>
      /\ onAir \in [Channels -> [bno : Broadcasts \cup {None}, live : BOOLEAN]]
  BY WatcherTypes DEF WatcherInv, GoesLive, GoesOff
<1>2. /\ onAir' \in [Channels -> [bno : Broadcasts \cup {None}, live : BOOLEAN]]
      /\ \A d \in Channels : onAir[d].bno <= onAir'[d].bno
  <2>0. \A d \in Channels : onAir[d].bno \in Nat /\ onAir[d].bno \in Broadcasts \cup {None}
    BY WatcherTypes DEF WatcherInv, None
  <2>1. ASSUME NEW b \in Broadcasts, onAir[c].bno <= b,
               onAir' = [onAir EXCEPT ![c] = [bno |-> b, live |-> TRUE]]
        PROVE  /\ onAir' \in [Channels -> [bno : Broadcasts \cup {None}, live : BOOLEAN]]
               /\ \A d \in Channels : onAir[d].bno <= onAir'[d].bno
    BY <1>1, <2>0, <2>1
  <2>2. CASE GoesLive(c)
    <3>1. PICK b \in Broadcasts : /\ b = onAir[c].bno + 1 \/ b = onAir[c].bno
                                  /\ onAir' = [onAir EXCEPT ![c] = [bno |-> b, live |-> TRUE]]
      BY <2>2 DEF GoesLive
    <3>2. onAir[c].bno <= b
      BY <2>0, <3>1
    <3> QED BY <2>1, <3>1, <3>2
  <2>3. CASE GoesOff(c)
    <3>1. /\ onAir' = [onAir EXCEPT ![c] = [onAir[c] EXCEPT !.live = FALSE]]
          /\ onAir[c] \in [bno : Broadcasts \cup {None}, live : BOOLEAN]
      BY <1>1, <2>3 DEF GoesOff
    <3> DEFINE air == [onAir[c] EXCEPT !.live = FALSE]
    <3>2. air \in [bno : Broadcasts \cup {None}, live : BOOLEAN] /\ air.bno = onAir[c].bno
      BY <3>1
    <3>3. onAir' = [onAir EXCEPT ![c] = air]
      BY <3>1
    <3> HIDE DEF air
    <3> QED BY <1>1, <2>0, <3>2, <3>3
  <2> QED BY <2>2, <2>3
<1>3. /\ saved' = saved /\ manager' = manager /\ task' = task /\ stopSent' = stopSent /\ phase' = phase
      /\ todo' = todo /\ starting' = starting /\ applied' = applied /\ passwords' = passwords
      /\ states' = states /\ recordings' = recordings /\ declined' = declined /\ used' = used
      /\ commands' = commands /\ snapshot' = snapshot
  BY <1>1 DEF control, local
<1>4. ShellTyped'
  BY <1>2, <1>3, ShellTypes DEF WatcherInv, ShellTyped
<1>5. WatcherTyped' /\ RowsAreOwned' /\ FailuresAreCounted' /\ DeclinedIsSuppressed'
  BY <1>2, <1>3, <1>4, StatesStay
<1>6. PhaseHasItsChannels' /\ StatusesTell' /\ SnapshotIsQuiet'
  BY <1>3 DEF WatcherInv, PhaseHasItsChannels, StatusesTell, SnapshotIsQuiet, RecordingOf
<1> QED BY <1>5, <1>6 DEF WatcherInv

\* Steps of the users, of the list and of the manager, and none at all.
LEMMA UsersKeep ==
  ASSUME WatcherInv,
         \/ EditChannels \/ RequestStop \/ Reap \/ UNCHANGED vars
         \/ \E c \in Channels : SupplyPassword(c) \/ \E verb \in Verbs : SendCommand(c, verb)
  PROVE  WatcherInv'
<1>1. /\ onAir' = onAir /\ states' = states /\ recordings' = recordings /\ declined' = declined
      /\ starting' = starting /\ todo' = todo /\ phase' = phase /\ applied' = applied
  BY DEF EditChannels, RequestStop, Reap, SupplyPassword, SendCommand, vars, env, control, local
<1>2. used' = used \/ \E b \in DOMAIN Bounds, n \in Nat : Use(b, n)
  <2>1. {"edits", "commands"} \subseteq DOMAIN Bounds
    BY DEF Bounds
  <2>2. used' = used \/ Use("edits", 1) \/ Use("commands", 1)
    BY DEF EditChannels, RequestStop, Reap, SupplyPassword, SendCommand, vars
  <2> QED BY <2>1, <2>2
<1>3. \A c \in Channels : onAir[c].bno <= onAir'[c].bno
  BY <1>1, WatcherTypes DEF WatcherInv, None
<1>4. /\ saved' \in [Channels -> ListEntries]
      /\ manager' \in {"idle", "stopping"} /\ stopSent' \in BOOLEAN
      /\ passwords' \in [Channels -> Broadcasts \cup {None}]
  <2>1. /\ saved \in [Channels -> ListEntries] /\ manager \in {"idle", "stopping"} /\ stopSent \in BOOLEAN
        /\ passwords \in [Channels -> Broadcasts \cup {None}]
    BY DEF WatcherInv, WatcherTyped, LiveTypeOK
  <2>2. ASSUME NEW c \in Channels, SupplyPassword(c)
        PROVE  snapshot.channels[c].bno \in Broadcasts \cup {None}
    BY <2>2 DEF SupplyPassword, WatcherInv, WatcherTyped, LiveTypeOK, ChannelView
  <2> QED BY <2>1, <2>2 DEF EditChannels, RequestStop, Reap, SupplyPassword, SendCommand, vars, env, control
<1>5. commands' \in Seq([channel : Channels, verb : Verbs]) /\ Len(commands') <= QueueSize
  <2> DEFINE Command == [channel : Channels, verb : Verbs]
  <2>1. commands \in Seq(Command) /\ Len(commands) <= QueueSize /\ QueueSize \in Nat
    BY WatcherAssumption DEF WatcherInv, WatcherTyped, LiveTypeOK
  <2>2. \/ commands' = commands
        \/ \E m \in Command : Len(commands) < QueueSize /\ commands' = Append(commands, m)
    BY DEF EditChannels, RequestStop, Reap, SupplyPassword, SendCommand, vars, Verbs
  <2> HIDE DEF Command
  <2>3. Len(commands) \in Nat
    BY <2>1
  <2>4. \A m \in Command : Append(commands, m) \in Seq(Command) /\ Len(Append(commands, m)) = Len(commands) + 1
    BY <2>1
  <2>5. commands' \in Seq(Command) /\ Len(commands') <= QueueSize
    BY <2>1, <2>2, <2>3, <2>4
  <2> QED BY <2>5 DEF Command
<1>6. /\ snapshot' = snapshot \/ snapshot' = [snapshot EXCEPT !.running = FALSE]
      /\ \/ task' = task
         \/ task = "finished" /\ task' = "none" /\ snapshot' = [snapshot EXCEPT !.running = FALSE]
  BY DEF EditChannels, RequestStop, Reap, SupplyPassword, SendCommand, vars, control
<1>7. /\ DOMAIN snapshot = {"running", "channels"} /\ snapshot.running \in BOOLEAN
      /\ DOMAIN snapshot.channels \subseteq Channels
      /\ \A c \in DOMAIN snapshot.channels : snapshot.channels[c] \in ChannelView
      /\ task \in {"none", "live", "finished"} /\ phase \in Phases
      /\ applied \in [Channels -> ListEntries] /\ todo \subseteq Channels
      /\ starting \in Channels \cup {NoChannel}
  BY DEF WatcherInv, WatcherTyped, LiveTypeOK
<1>8. /\ DOMAIN snapshot' = {"running", "channels"} /\ snapshot'.channels = snapshot.channels
      /\ snapshot'.running \in BOOLEAN /\ (snapshot.running = FALSE => snapshot'.running = FALSE)
      /\ task' # task => snapshot'.running = FALSE
  BY <1>6, <1>7
<1>9. ShellTyped'
  <2>1. /\ onAir \in [Channels -> [bno : Broadcasts \cup {None}, live : BOOLEAN]]
        /\ declined \in [Channels -> SUBSET (Broadcasts \cup {None})]
    BY WatcherTypes DEF WatcherInv
  <2> QED BY <1>1, <1>4, <1>5, <1>6, <1>7, <1>8, <2>1 DEF ShellTyped
<1>10. WatcherTyped' /\ RowsAreOwned' /\ FailuresAreCounted' /\ DeclinedIsSuppressed'
  BY <1>1, <1>2, <1>3, <1>9, StatesStay
<1>11. PhaseHasItsChannels' /\ StatusesTell'
  <2>1. task = "live" <=> task' = "live"
    BY <1>6
  <2> QED BY <1>1, <2>1 DEF WatcherInv, PhaseHasItsChannels, StatusesTell, RecordingOf
<1>12. SnapshotIsQuiet'
  <2>1. task' # "live" => task' # task \/ task # "live"
    OBVIOUS
  <2> QED BY <1>1, <1>8, <2>1 DEF WatcherInv, SnapshotIsQuiet
<1> QED BY <1>10, <1>11, <1>12 DEF WatcherInv

\* The recorder of a channel ends by itself.
LEMMA RecorderExitsKeeps ==
  ASSUME WatcherInv, NEW r \in RecordingIds, RecorderExits(r)
  PROVE  WatcherInv'
<1> DEFINE row == [recordings[r] EXCEPT !.running = FALSE]
<1>0. /\ onAir' = onAir /\ saved' = saved /\ manager' = manager /\ task' = task /\ stopSent' = stopSent
      /\ phase' = phase /\ todo' = todo /\ starting' = starting /\ applied' = applied
      /\ passwords' = passwords /\ states' = states /\ declined' = declined /\ used' = used
      /\ commands' = commands /\ snapshot' = snapshot
  BY DEF RecorderExits, env, control, local
<1>1. recordings[r] # NoRecording /\ recordings' = [recordings EXCEPT ![r] = row]
  BY DEF RecorderExits
<1>2. /\ row \in Recording /\ row.channel = recordings[r].channel /\ row.bno = recordings[r].bno
      /\ row.unstopped = recordings[r].unstopped /\ row.running = FALSE /\ row # NoRecording
  BY <1>1, RowTypes, RecordingsAreRows DEF WatcherInv, Recording
<1> HIDE DEF row
<1>3. recordings \in [RecordingIds -> Recording \cup {NoRecording}]
  BY WatcherTypes DEF WatcherInv
<1>4. /\ recordings' \in [RecordingIds -> Recording \cup {NoRecording}] /\ recordings'[r] = row
      /\ \A q \in RecordingIds \ {r} : recordings'[q] = recordings[q]
  BY <1>1, <1>2, <1>3
<1>5. \A q \in RecordingIds : recordings'[q] # NoRecording <=> recordings[q] # NoRecording
  BY <1>1, <1>2, <1>4
<1>6. \A q \in RecordingIds :
        /\ recordings'[q].channel = recordings[q].channel /\ recordings'[q].bno = recordings[q].bno
        /\ recordings'[q].unstopped = recordings[q].unstopped
        /\ recordings[q].running = FALSE => recordings'[q].running = FALSE
  BY <1>2, <1>4
<1>7. \A c \in DOMAIN states : states[c].recording # None => states[c].recording \in RecordingIds
  BY WatcherTypes DEF WatcherInv, ChannelState
<1>8. \A c \in DOMAIN states : states[c].recording # None =>
        /\ RecordingOf(c)'.channel = RecordingOf(c).channel /\ RecordingOf(c)'.bno = RecordingOf(c).bno
        /\ RecordingOf(c)'.unstopped = RecordingOf(c).unstopped
  BY <1>0, <1>6, <1>7 DEF RecordingOf
<1>9. WatcherTyped'
  BY <1>0, <1>4 DEF WatcherInv, WatcherTyped, LiveTypeOK
<1>10. RowsAreOwned'
  BY <1>0, <1>5, <1>6, <1>7, <1>8 DEF WatcherInv, RowsAreOwned
<1>11. Unstopped' = Unstopped
  BY <1>5, <1>6 DEF Unstopped
<1>12. FailuresAreCounted'
  BY <1>0, <1>11 DEF WatcherInv, FailuresAreCounted
<1>13. PhaseHasItsChannels' /\ StatusesTell'
  BY <1>0, <1>8 DEF WatcherInv, PhaseHasItsChannels, StatusesTell
<1>14. SnapshotIsQuiet' /\ DeclinedIsSuppressed'
  BY <1>0, <1>8 DEF WatcherInv, SnapshotIsQuiet, DeclinedIsSuppressed
<1> QED BY <1>9, <1>10, <1>12, <1>13, <1>14 DEF WatcherInv

\* The watcher is started: the list it is given is on the snapshot, nothing is recorded yet.
LEMMA StartKeeps ==
  ASSUME WatcherInv, Start
  PROVE  WatcherInv'
<1>0. /\ onAir' = onAir /\ saved' = saved /\ manager' = manager /\ declined' = declined
      /\ todo' = todo /\ starting' = starting /\ states' = states /\ recordings' = recordings
      /\ passwords' = passwords /\ task' = "live" /\ stopSent' = FALSE /\ commands' = <<>>
      /\ phase' = "init" /\ applied' = saved /\ Use("starts", 1) /\ task # "live"
  BY DEF Start, env
<1>1. phase = "off" /\ DOMAIN states = {} /\ todo = {} /\ starting = NoChannel
  BY <1>0 DEF WatcherInv, PhaseHasItsChannels
<1>2. /\ saved \in [Channels -> ListEntries] /\ manager \in {"idle", "stopping"}
      /\ passwords \in [Channels -> Broadcasts \cup {None}]
      /\ onAir \in [Channels -> [bno : Broadcasts \cup {None}, live : BOOLEAN]]
      /\ declined \in [Channels -> SUBSET (Broadcasts \cup {None})]
  BY DEF WatcherInv, WatcherTyped, LiveTypeOK
<1>3. commands' \in Seq([channel : Channels, verb : Verbs]) /\ Len(commands') <= QueueSize
  BY <1>0, WatcherAssumption
<1>4. \A c \in Channels : NewState(saved[c]).status \in Statuses \ {"RECORDING"}
  BY DEF NewState, Statuses
<1>5. /\ DOMAIN snapshot' = {"running", "channels"} /\ snapshot'.running = TRUE
      /\ snapshot'.channels = [c \in Listed(saved) |->
                                 [status |-> NewState(saved[c]).status, bno |-> None]]
  BY DEF Start
<1>6. Listed(saved) \subseteq Channels
  BY DEF Listed
<1>7. /\ DOMAIN snapshot'.channels \subseteq Channels
      /\ \A c \in DOMAIN snapshot'.channels :
           snapshot'.channels[c] \in ChannelView /\ snapshot'.channels[c].status # "RECORDING"
  BY <1>4, <1>5, <1>6 DEF ChannelView
<1>8. ShellTyped'
  BY <1>0, <1>1, <1>2, <1>3, <1>5, <1>7 DEF ShellTyped, Phases
<1>9. WatcherTyped' /\ RowsAreOwned' /\ FailuresAreCounted' /\ DeclinedIsSuppressed'
  <2>1. "starts" \in DOMAIN Bounds /\ \A c \in Channels : onAir[c].bno <= onAir'[c].bno
    BY <1>0, WatcherTypes DEF WatcherInv, Bounds, None
  <2> QED BY <1>0, <1>8, <2>1, StatesStay
<1>10. PhaseHasItsChannels' /\ StatusesTell'
  BY <1>0, <1>1 DEF PhaseHasItsChannels, StatusesTell
<1>11. SnapshotIsQuiet'
  BY <1>0, <1>7 DEF SnapshotIsQuiet
<1> QED BY <1>9, <1>10, <1>11 DEF WatcherInv

\* The task ends before its loop.
LEMMA InitialiseFailsKeeps ==
  ASSUME WatcherInv, InitialiseFails
  PROVE  WatcherInv'
<1>0. /\ onAir' = onAir /\ saved' = saved /\ manager' = manager /\ declined' = declined
      /\ todo' = todo /\ starting' = starting /\ states' = states /\ recordings' = recordings
      /\ passwords' = passwords /\ task' = "finished" /\ stopSent' = stopSent /\ commands' = <<>>
      /\ phase' = "off" /\ applied' = applied /\ Use("faults", 1) /\ phase = "init"
      /\ snapshot' = [snapshot EXCEPT !.running = FALSE]
  BY DEF InitialiseFails, env, Outcome
<1>1. DOMAIN states = {} /\ todo = {} /\ starting = NoChannel
  BY <1>0 DEF WatcherInv, PhaseHasItsChannels
<1>2. ShellTyped
  BY ShellTypes DEF WatcherInv
<1>3. commands' \in Seq([channel : Channels, verb : Verbs]) /\ Len(commands') <= QueueSize
  BY <1>0, WatcherAssumption
<1>4. /\ DOMAIN snapshot' = {"running", "channels"} /\ snapshot'.running = FALSE
      /\ snapshot'.channels = snapshot.channels
  BY <1>0, <1>2 DEF ShellTyped
<1>5. ShellTyped'
  BY <1>0, <1>2, <1>3, <1>4 DEF ShellTyped, Phases
<1>6. WatcherTyped' /\ RowsAreOwned' /\ FailuresAreCounted' /\ DeclinedIsSuppressed'
  <2>1. "faults" \in DOMAIN Bounds /\ \A c \in Channels : onAir[c].bno <= onAir'[c].bno
    BY <1>0, WatcherTypes DEF WatcherInv, Bounds, None
  <2> QED BY <1>0, <1>5, <2>1, StatesStay
<1>7. PhaseHasItsChannels' /\ StatusesTell'
  BY <1>0, <1>1 DEF PhaseHasItsChannels, StatusesTell
<1>8. SnapshotIsQuiet'
  BY <1>0, <1>4 DEF WatcherInv, SnapshotIsQuiet
<1> QED BY <1>6, <1>7, <1>8 DEF WatcherInv

\* A phase of the tick ends, or the loop.
LEMMA PhaseKeeps ==
  ASSUME WatcherInv, NextPhase \/ BreakLoop
  PROVE  WatcherInv'
<1>0. /\ onAir' = onAir /\ saved' = saved /\ manager' = manager /\ declined' = declined
      /\ starting' = starting /\ states' = states /\ recordings' = recordings
      /\ passwords' = passwords /\ task' = task /\ stopSent' = stopSent /\ commands' = commands
      /\ applied' = applied /\ used' = used
  BY DEF NextPhase, BreakLoop, env, control
<1>1. \/ phase = "recheck" /\ phase' = "monitor" /\ todo' = ToMonitor(states) /\ snapshot' = snapshot
      \/ phase = "monitor" /\ phase' = "poll" /\ todo' = ToPoll(states) /\ snapshot' = snapshot
      \/ /\ phase = "poll" /\ phase' = "select" /\ todo' = {}
         /\ snapshot' = [snapshot EXCEPT !.channels = Published(states, recordings)]
      \/ phase = "select" /\ phase' = "exit" /\ todo' = ToMonitor(states) /\ snapshot' = snapshot
  BY DEF NextPhase, BreakLoop
<1>2. /\ starting = NoChannel /\ phase \notin {"off", "init", "exit"} /\ phase' \notin {"off", "init"}
      /\ phase' \in Phases
  <2>1. starting = NoChannel
    BY DEF WatcherInv, PhaseHasItsChannels, NextPhase, BreakLoop
  <2> QED BY <1>1, <2>1 DEF Phases
<1>3. /\ DOMAIN states \subseteq Channels /\ todo' \subseteq DOMAIN states
      /\ phase' \in {"monitor", "exit"} => todo' = {c \in DOMAIN states : states[c].recording # None}
      /\ phase' = "poll" => \A c \in todo' : states[c].recording = None /\ states[c].enabled = TRUE
  <2>1. DOMAIN states \subseteq Channels /\ \A c \in DOMAIN states : states[c].enabled \in BOOLEAN
    BY WatcherTypes DEF WatcherInv, ChannelState
  <2> QED BY <1>1, <2>1 DEF ToMonitor, ToPoll
<1>4. ShellTyped
  BY ShellTypes DEF WatcherInv
<1>5. /\ DOMAIN snapshot' = {"running", "channels"} /\ snapshot'.running = snapshot.running
      /\ DOMAIN snapshot'.channels \subseteq Channels
      /\ \A c \in DOMAIN snapshot'.channels : snapshot'.channels[c] \in ChannelView
  <2>1. CASE snapshot' = snapshot
    BY <1>4, <2>1 DEF ShellTyped
  <2>2. CASE snapshot' = [snapshot EXCEPT !.channels = Published(states, recordings)]
    <3>1. /\ DOMAIN Published(states, recordings) = DOMAIN states
          /\ \A d \in DOMAIN states : Published(states, recordings)[d] \in ChannelView
      BY WatcherTypes, PublishedTypes DEF WatcherInv, RowsAreOwned
    <3>2. /\ DOMAIN snapshot' = {"running", "channels"} /\ snapshot'.running = snapshot.running
          /\ snapshot'.channels = Published(states, recordings)
      BY <1>4, <2>2 DEF ShellTyped
    <3> QED BY <1>3, <3>1, <3>2
  <2> QED BY <1>1, <2>1, <2>2
<1>6. ShellTyped'
  BY <1>0, <1>2, <1>3, <1>4, <1>5 DEF ShellTyped
<1>7. WatcherTyped' /\ RowsAreOwned' /\ FailuresAreCounted' /\ DeclinedIsSuppressed'
  <2>1. \A c \in Channels : onAir[c].bno <= onAir'[c].bno
    BY <1>0, WatcherTypes DEF WatcherInv, None
  <2> QED BY <1>0, <1>6, <2>1, StatesStay
<1>8. PhaseHasItsChannels'
  <2>1. task = "live" /\ (phase' = "recheck" <=> FALSE)
    BY <1>1, <1>2 DEF WatcherInv, PhaseHasItsChannels
  <2> QED BY <1>0, <1>2, <1>3, <2>1 DEF PhaseHasItsChannels
<1>9. StatusesTell' /\ SnapshotIsQuiet'
  BY <1>0, <1>2, <1>5 DEF WatcherInv, StatusesTell, SnapshotIsQuiet, RecordingOf
<1> QED BY <1>7, <1>8, <1>9 DEF WatcherInv

\* The list is read, the watch begins.
LEMMA InitialiseKeeps ==
  ASSUME WatcherInv, Initialise
  PROVE  WatcherInv'
<1>0. /\ onAir' = onAir /\ saved' = saved /\ manager' = manager /\ declined' = declined
      /\ todo' = todo /\ starting' = starting /\ recordings' = recordings
      /\ passwords' = [c \in Channels |-> None] /\ task' = task /\ stopSent' = stopSent
      /\ commands' = commands /\ phase = "init" /\ phase' = "select" /\ applied' = applied
      /\ used' = used /\ snapshot' = snapshot
      /\ states' = [c \in Listed(applied) |-> NewState(applied[c])]
  BY DEF Initialise, env, control
<1>1. DOMAIN states = {} /\ todo = {} /\ starting = NoChannel /\ task = "live"
  BY <1>0 DEF WatcherInv, PhaseHasItsChannels
<1>2. /\ DOMAIN states' \subseteq Channels /\ states' \in [DOMAIN states' -> ChannelState]
      /\ \A c \in DOMAIN states' : /\ states'[c].recording = None /\ states'[c].status # "RECORDING"
                                   /\ states'[c].last = None /\ states'[c].suppressed = None
  <2>1. \A entry : /\ NewState(entry) \in ChannelState /\ NewState(entry).recording = None
                   /\ NewState(entry).status # "RECORDING" /\ NewState(entry).last = None
                   /\ NewState(entry).suppressed = None
    BY DEF NewState, ChannelState, Statuses
  <2>2. Listed(applied) \subseteq Channels
    BY DEF Listed
  <2> QED BY <1>0, <2>1, <2>2
<1>3. WatcherTyped'
  <2>1. ShellTyped /\ BoundsTyped
    BY ShellTypes DEF WatcherInv
  <2>2. ShellTyped' /\ BoundsTyped'
    BY <1>0, <2>1 DEF ShellTyped, BoundsTyped, Phases
  <2> QED BY <1>0, <1>2, <2>2, ShellTypes, WatcherTypes DEF WatcherInv
<1>4. RowsAreOwned'
  <2>1. \A r \in RecordingIds : recordings[r] # NoRecording =>
          recordings[r].unstopped = TRUE /\ recordings[r].running = FALSE
    BY <1>1 DEF WatcherInv, RowsAreOwned
  <2> QED BY <1>0, <1>2, <2>1 DEF RowsAreOwned
<1>5. FailuresAreCounted'
  BY <1>0 DEF WatcherInv, FailuresAreCounted, Unstopped
<1>6. PhaseHasItsChannels' /\ StatusesTell' /\ SnapshotIsQuiet'
  BY <1>0, <1>1, <1>2 DEF PhaseHasItsChannels, StatusesTell, SnapshotIsQuiet
<1>7. DeclinedIsSuppressed'
  <2>1. \A c \in Channels : declined'[c] = {} /\ None <= onAir'[c].bno
    BY <1>0, <1>1, WatcherTypes DEF WatcherInv, DeclinedIsSuppressed, None
  <2> QED BY <1>0, <1>1, <1>2, <2>1 DEF DeclinedIsSuppressed
<1> QED BY <1>3, <1>4, <1>5, <1>6, <1>7 DEF WatcherInv

\* A row is left for the recording about to start: the other channels have one at most each, and
\* the rows without a channel are as many as the failures at most.
LEMMA RowIsLeft ==
  ASSUME WatcherInv, starting # NoChannel
  PROVE  \E r \in RecordingIds : recordings[r] = NoRecording
<1> DEFINE Owned == {r \in RecordingIds : \E c \in DOMAIN states : states[c].recording = r}
           Others == Channels \ {starting}
<1>1. /\ starting \in DOMAIN states /\ starting \in Channels /\ states[starting].recording = None
      /\ DOMAIN states \subseteq Channels
  BY WatcherTypes DEF WatcherInv, PhaseHasItsChannels
<1>2. \A r \in Owned : \E c \in Others : states[c].recording = r /\ recordings[r].channel = c
  BY <1>1, WatcherTypes DEF WatcherInv, RowsAreOwned, RecordingOf
<1>3. /\ IsFiniteSet(Channels) /\ IsFiniteSet(Others) /\ Cardinality(Channels) \in Nat
      /\ Cardinality(Others) = Cardinality(Channels) - 1
  BY <1>1, WatcherAssumption, FS_RemoveElement, FS_CardinalityType
<1>4. IsFiniteSet(Owned) /\ Cardinality(Owned) <= Cardinality(Others)
  <2> DEFINE f == [r \in Owned |-> recordings[r].channel]
  <2>1. f \in [Owned -> Others] /\ \A r \in Owned : states[f[r]].recording = r
    BY <1>2
  <2>2. f \in Injection(Owned, Others)
    <3>1. \A a, b \in Owned : f[a] = f[b] => a = b
      BY <2>1
    <3> HIDE DEF f, Owned, Others
    <3> QED BY <2>1, <3>1 DEF Injection, IsInjective
  <2> QED BY <1>3, <2>2, FS_Injection
<1>5. /\ IsFiniteSet(Owned \cup Unstopped)
      /\ Cardinality(Owned \cup Unstopped) <= Cardinality(Owned) + Cardinality(Unstopped)
  <2>1. /\ IsFiniteSet(Owned \cup Unstopped)
        /\ Cardinality(Owned \cup Unstopped) =
             Cardinality(Owned) + Cardinality(Unstopped) - Cardinality(Owned \cap Unstopped)
    BY <1>4, UnstoppedIsFinite, FS_Union
  <2>2. Cardinality(Owned \cap Unstopped) \in Nat
    <3>1. IsFiniteSet(Owned \cap Unstopped)
      BY <1>4, FS_Intersection
    <3> QED BY <3>1, FS_CardinalityType
  <2>3. Cardinality(Owned) \in Nat
    BY <1>4, FS_CardinalityType
  <2> QED BY <2>1, <2>2, <2>3, UnstoppedIsFinite
<1>6. Cardinality(Unstopped) <= MaxFaults
  <2>1. used["faults"] \in Nat /\ used["faults"] <= MaxFaults /\ MaxFaults \in Nat
    BY WatcherTypes, WatcherAssumption DEF WatcherInv, Bounds
  <2> QED BY <2>1, UnstoppedIsFinite DEF WatcherInv, FailuresAreCounted
<1>7. IsFiniteSet(RecordingIds) /\ Cardinality(RecordingIds) = Cardinality(Channels) + MaxFaults
  <2>1. Cardinality(Channels) + MaxFaults \in Nat /\ MaxFaults \in Nat
    BY <1>3, WatcherAssumption
  <2> QED BY <1>3, <2>1, FS_Interval DEF RecordingIds
<1>8. ~(RecordingIds \subseteq Owned \cup Unstopped)
  <2>1. SUFFICES ASSUME RecordingIds \subseteq Owned \cup Unstopped PROVE FALSE
    OBVIOUS
  <2>2. Cardinality(RecordingIds) <= Cardinality(Owned \cup Unstopped)
    BY <1>5, <2>1, FS_Subset
  <2>3. Cardinality(Owned) \in Nat /\ Cardinality(Owned \cup Unstopped) \in Nat /\ MaxFaults \in Nat
    BY <1>4, <1>5, FS_CardinalityType, WatcherAssumption
  <2> QED BY <1>3, <1>4, <1>5, <1>6, <1>7, <2>2, <2>3, UnstoppedIsFinite
<1>9. \A r \in RecordingIds : recordings[r] # NoRecording => r \in Owned \cup Unstopped
  BY DEF WatcherInv, RowsAreOwned, Unstopped
<1> QED BY <1>8, <1>9

\* What becomes of rows no channel has.
LEMMA DroppedRows ==
  ASSUME NEW sts, NEW recs \in [RecordingIds -> Recording \cup {NoRecording}]
  PROVE  /\ Dropped(recs, sts) \in [RecordingIds -> Recording \cup {NoRecording}]
         /\ \A r \in RecordingIds :
              /\ Dropped(recs, sts)[r] = NoRecording <=> recs[r] = NoRecording
              /\ recs[r] # NoRecording =>
                   /\ Dropped(recs, sts)[r].unstopped = recs[r].unstopped
                   /\ Dropped(recs, sts)[r].channel = recs[r].channel
                   /\ Dropped(recs, sts)[r].bno = recs[r].bno
                   /\ (\A c \in DOMAIN sts : sts[c].recording # r) => Dropped(recs, sts)[r].running = FALSE
              /\ (\E c \in DOMAIN sts : sts[c].recording = r) => Dropped(recs, sts)[r] = recs[r]
<1>1. ASSUME NEW r \in RecordingIds, recs[r] # NoRecording
      PROVE  LET row == [recs[r] EXCEPT !.running = FALSE]
             IN /\ row \in Recording /\ row.unstopped = recs[r].unstopped /\ row.channel = recs[r].channel
                /\ row.bno = recs[r].bno /\ row.running = FALSE /\ row # NoRecording
  <2>1. recs[r] \in Recording
    BY <1>1
  <2>2. [recs[r] EXCEPT !.running = FALSE] \in Recording
    BY <2>1 DEF Recording
  <2> QED BY <2>1, <2>2, RecordingsAreRows DEF Recording
<1>2. \A r \in RecordingIds :
        Dropped(recs, sts)[r] = IF recs[r] = NoRecording \/ \E c \in DOMAIN sts : sts[c].recording = r
                                THEN recs[r] ELSE [recs[r] EXCEPT !.running = FALSE]
  BY DEF Dropped
<1>3. Dropped(recs, sts) \in [RecordingIds -> Recording \cup {NoRecording}]
  <2>1. \A r \in RecordingIds : Dropped(recs, sts)[r] \in Recording \cup {NoRecording}
    BY <1>1, <1>2
  <2>2. Dropped(recs, sts) = [r \in RecordingIds |-> Dropped(recs, sts)[r]]
    BY DEF Dropped
  <2> QED BY <2>1, <2>2
<1> QED BY <1>1, <1>2, <1>3

\* The exit: the recorders whose stop failed are killed with the state that had them.
LEMMA ExitEndsKeeps ==
  ASSUME WatcherInv, ExitEnds
  PROVE  WatcherInv'
<1>0. /\ onAir' = onAir /\ saved' = saved /\ manager' = manager /\ declined' = [c \in Channels |-> {}]
      /\ todo' = todo /\ starting' = starting /\ recordings' = Dropped(recordings, states')
      /\ passwords' = [c \in Channels |-> None] /\ task' = "finished" /\ stopSent' = stopSent
      /\ commands' = <<>> /\ phase = "exit" /\ phase' = "off" /\ applied' = applied
      /\ used' = used /\ todo = {} /\ states' = [c \in {} |-> NewState("ABSENT")]
      /\ snapshot' = [running |-> FALSE, channels |-> Published(MarkedStopped, recordings)]
  BY DEF ExitEnds, env
<1>1. starting = NoChannel /\ DOMAIN states' = {}
  BY <1>0 DEF WatcherInv, PhaseHasItsChannels
<1>2. /\ DOMAIN MarkedStopped = DOMAIN states
      /\ \A c \in DOMAIN states : /\ MarkedStopped[c] \in ChannelState
                                  /\ MarkedStopped[c].recording = states[c].recording
                                  /\ MarkedStopped[c].status \in {"WATCHER_STOPPED", "DISABLED"}
  BY WatcherTypes DEF WatcherInv, MarkedStopped, ChannelState, Statuses
<1>3. /\ DOMAIN Published(MarkedStopped, recordings) = DOMAIN states /\ DOMAIN states \subseteq Channels
      /\ \A c \in DOMAIN states : /\ Published(MarkedStopped, recordings)[c] \in ChannelView
                                  /\ Published(MarkedStopped, recordings)[c].status # "RECORDING"
  <2>1. /\ DOMAIN Published(MarkedStopped, recordings) = DOMAIN states /\ DOMAIN states \subseteq Channels
        /\ \A c \in DOMAIN states : Published(MarkedStopped, recordings)[c] \in ChannelView
    BY <1>2, PublishedTypes, WatcherTypes DEF WatcherInv, RowsAreOwned
  <2>2. \A c \in DOMAIN states : Published(MarkedStopped, recordings)[c].status # "RECORDING"
    BY <1>2 DEF Published
  <2> QED BY <2>1, <2>2
<1>4. /\ DOMAIN snapshot' = {"running", "channels"} /\ snapshot'.running = FALSE
      /\ DOMAIN snapshot'.channels \subseteq Channels
      /\ \A c \in DOMAIN snapshot'.channels :
           snapshot'.channels[c] \in ChannelView /\ snapshot'.channels[c].status # "RECORDING"
  BY <1>0, <1>3
<1>5. recordings' \in [RecordingIds -> Recording \cup {NoRecording}]
  BY <1>0, DroppedRows, WatcherTypes DEF WatcherInv
<1>6. WatcherTyped'
  <2>1. ShellTyped /\ BoundsTyped
    BY ShellTypes DEF WatcherInv
  <2>2. commands' \in Seq([channel : Channels, verb : Verbs]) /\ Len(commands') <= QueueSize
    BY <1>0, WatcherAssumption
  <2>3. ShellTyped'
    BY <1>0, <1>4, <2>1, <2>2 DEF ShellTyped, Phases
  <2>4. BoundsTyped'
    BY <1>0, <2>1 DEF BoundsTyped
  <2>5. states' \in [DOMAIN states' -> ChannelState]
    BY <1>0
  <2> QED BY <1>1, <1>5, <2>3, <2>4, <2>5, ShellTypes
<1>7. \A r \in RecordingIds : recordings[r] # NoRecording => recordings[r].unstopped = TRUE
  <2>1. \A c \in DOMAIN states : states[c].recording # None => recordings[states[c].recording].unstopped = TRUE
    BY <1>0 DEF WatcherInv, PhaseHasItsChannels, RecordingOf
  <2>2. None \notin RecordingIds
    BY WatcherTypes DEF WatcherInv
  <2> QED BY <2>1, <2>2 DEF WatcherInv, RowsAreOwned
<1>11. \A r \in RecordingIds :
         /\ recordings'[r] = NoRecording <=> recordings[r] = NoRecording
         /\ recordings[r] # NoRecording =>
              recordings'[r].unstopped = recordings[r].unstopped /\ recordings'[r].running = FALSE
  <2>1. recordings \in [RecordingIds -> Recording \cup {NoRecording}]
    BY WatcherTypes DEF WatcherInv
  <2>2. \A r \in RecordingIds :
          /\ Dropped(recordings, states')[r] = NoRecording <=> recordings[r] = NoRecording
          /\ recordings[r] # NoRecording =>
               /\ Dropped(recordings, states')[r].unstopped = recordings[r].unstopped
               /\ (\A c \in DOMAIN states' : states'[c].recording # r)
                    => Dropped(recordings, states')[r].running = FALSE
    BY <2>1, DroppedRows
  <2>3. recordings' = Dropped(recordings, states')
    BY <1>0
  <2> QED BY <1>1, <2>2, <2>3
<1>8. RowsAreOwned'
  BY <1>1, <1>7, <1>11 DEF RowsAreOwned
<1>9. FailuresAreCounted'
  <2>1. Unstopped' \subseteq Unstopped
    BY <1>11 DEF Unstopped
  <2>2. used' \in [DOMAIN Bounds -> Nat] /\ used["faults"] <= used'["faults"]
    BY <1>0, WatcherTypes DEF WatcherInv, WatcherTyped, Bounds
  <2> QED BY <2>1, <2>2, OneMoreFailure DEF WatcherInv
<1>10. PhaseHasItsChannels' /\ StatusesTell' /\ SnapshotIsQuiet' /\ DeclinedIsSuppressed'
  BY <1>0, <1>1, <1>4 DEF PhaseHasItsChannels, StatusesTell, SnapshotIsQuiet, DeclinedIsSuppressed
<1> QED BY <1>6, <1>8, <1>9, <1>10 DEF WatcherInv

\* A recording starts: in a free row, for a channel that has none.
LEMMA StartedKeeps ==
  ASSUME WatcherInv, Started
  PROVE  /\ WatcherInv'
         /\ \A c \in Channels : Begins(c) => c = starting /\ RecordingOf(c)'.bno = states[c].last
<1>1. PICK c \in Channels : c = starting
  BY WatcherTypes DEF Started, WatcherInv, PhaseHasItsChannels
<1>2. /\ c \in DOMAIN states /\ c \notin todo /\ phase = "poll" /\ task = "live"
      /\ states[c] \in ChannelState /\ states[c].recording = None /\ states[c].enabled = TRUE
      /\ states[c].last # None /\ states[c].last \in Broadcasts /\ c # NoChannel
  BY <1>1, WatcherTypes, WatcherAssumption DEF WatcherInv, PhaseHasItsChannels, ChannelState
<1> DEFINE r == CHOOSE free \in RecordingIds : recordings[free] = NoRecording
           row == [channel |-> c, bno |-> states[c].last, running |-> TRUE, unstopped |-> FALSE]
           s == [states[c] EXCEPT !.recording = r, !.status = "RECORDING"]
           recs == [recordings EXCEPT ![r] = row]
<1>3. r \in RecordingIds /\ recordings[r] = NoRecording
  BY <1>1, <1>2, RowIsLeft
<1>4. /\ onAir' = onAir /\ saved' = saved /\ manager' = manager /\ declined' = declined
      /\ todo' = todo /\ starting' = NoChannel /\ passwords' = passwords /\ task' = task
      /\ stopSent' = stopSent /\ commands' = commands /\ phase' = phase /\ applied' = applied
      /\ used' = used /\ snapshot' = snapshot
      /\ states' = [states EXCEPT ![c].recording = r, ![c].status = "RECORDING"]
      /\ recordings' = Dropped(recs, states')
  BY <1>1 DEF Started, env, control
<1> HIDE DEF r
<1>5. /\ s \in ChannelState /\ s.recording = r /\ s.status = "RECORDING" /\ s.enabled = TRUE
      /\ s.last = states[c].last /\ s.suppressed = states[c].suppressed
  BY <1>2, <1>3 DEF ChannelState, Statuses
<1>6. row \in Recording /\ row # NoRecording
  BY <1>2, RecordingsAreRows DEF Recording
<1>7. /\ states' = [states EXCEPT ![c] = s] /\ DOMAIN states' = DOMAIN states /\ states'[c] = s
      /\ \A d \in DOMAIN states \ {c} : states'[d] = states[d]
      /\ states' \in [DOMAIN states -> ChannelState]
  <2>1. states' = [states EXCEPT ![c] = s] /\ states \in [DOMAIN states -> ChannelState]
    BY <1>2, <1>4, WatcherTypes DEF WatcherInv
  <2> HIDE DEF s
  <2> QED BY <1>2, <1>5, <2>1
<1>8. /\ recs \in [RecordingIds -> Recording \cup {NoRecording}] /\ recs[r] = row
      /\ \A q \in RecordingIds \ {r} : recs[q] = recordings[q]
  BY <1>3, <1>6, WatcherTypes DEF WatcherInv
<1>9. row.unstopped = FALSE /\ row.channel = c /\ row.bno = states[c].last
  OBVIOUS
<1> HIDE DEF row, s, recs
<1>10. /\ recordings' \in [RecordingIds -> Recording \cup {NoRecording}]
       /\ \A q \in RecordingIds :
            /\ recordings'[q] = NoRecording <=> recs[q] = NoRecording
            /\ recs[q] # NoRecording =>
                 /\ recordings'[q].unstopped = recs[q].unstopped
                 /\ recordings'[q].channel = recs[q].channel /\ recordings'[q].bno = recs[q].bno
                 /\ (\A d \in DOMAIN states' : states'[d].recording # q) => recordings'[q].running = FALSE
            /\ (\E d \in DOMAIN states' : states'[d].recording = q) => recordings'[q] = recs[q]
  <2>1. recs \in [RecordingIds -> Recording \cup {NoRecording}]
    BY <1>8
  <2>2. LET left == Dropped(recs, states')
        IN /\ left \in [RecordingIds -> Recording \cup {NoRecording}]
           /\ \A q \in RecordingIds :
                /\ left[q] = NoRecording <=> recs[q] = NoRecording
                /\ recs[q] # NoRecording =>
                     /\ left[q].unstopped = recs[q].unstopped
                     /\ left[q].channel = recs[q].channel /\ left[q].bno = recs[q].bno
                     /\ (\A d \in DOMAIN states' : states'[d].recording # q) => left[q].running = FALSE
                /\ (\E d \in DOMAIN states' : states'[d].recording = q) => left[q] = recs[q]
    BY <2>1, DroppedRows
  <2>3. recordings' = Dropped(recs, states')
    BY <1>4
  <2> QED BY <2>2, <2>3
<1>11. \A d \in DOMAIN states \ {c} : states[d].recording # None =>
         /\ states[d].recording \in RecordingIds /\ states[d].recording # r
         /\ states'[d].recording = states[d].recording
         /\ recordings'[states[d].recording] = recordings[states[d].recording]
  <2>1. \A d \in DOMAIN states : states[d].recording # None =>
          states[d].recording \in RecordingIds /\ states[d].recording # r
    BY <1>3, WatcherTypes DEF WatcherInv, RowsAreOwned, ChannelState
  <2> QED BY <1>7, <1>8, <1>10, <2>1
<1>12. recordings'[r] = row /\ r # None
  <2>1. r # None
    BY <1>3, WatcherTypes DEF WatcherInv
  <2> QED BY <1>2, <1>3, <1>5, <1>7, <1>8, <1>10, <2>1
<1>13. WatcherTyped'
  <2>1. ShellTyped /\ BoundsTyped /\ DOMAIN states \subseteq Channels
    BY ShellTypes, WatcherTypes DEF WatcherInv
  <2>2. ShellTyped' /\ BoundsTyped'
    BY <1>4, <2>1 DEF ShellTyped, BoundsTyped
  <2> QED BY <1>7, <1>10, <2>1, <2>2, ShellTypes
<1>14. RowsAreOwned'
  <2>1. \A d \in DOMAIN states' : states'[d].recording # None =>
          recordings'[states'[d].recording] # NoRecording /\ RecordingOf(d)'.channel = d
    <3>1. ASSUME NEW d \in DOMAIN states \ {c}, states'[d].recording # None
          PROVE  recordings'[states'[d].recording] # NoRecording /\ RecordingOf(d)'.channel = d
      BY <1>7, <1>11, <3>1 DEF WatcherInv, RowsAreOwned, RecordingOf
    <3>2. recordings'[states'[c].recording] # NoRecording /\ RecordingOf(c)'.channel = c
      BY <1>5, <1>6, <1>7, <1>9, <1>12 DEF RecordingOf
    <3> QED BY <1>7, <3>1, <3>2
  <2>2. ASSUME NEW q \in RecordingIds, recordings'[q] # NoRecording,
               \A d \in DOMAIN states' : states'[d].recording # q
        PROVE  recordings'[q].unstopped = TRUE /\ recordings'[q].running = FALSE
    <3>1. q # r
      BY <1>2, <1>5, <1>7, <2>2
    <3>2. recordings[q] # NoRecording /\ recs[q] = recordings[q]
      BY <1>8, <1>10, <2>2, <3>1
    <3>3. \A d \in DOMAIN states : states[d].recording # q
      BY <1>2, <1>3, <1>7, <2>2, <3>1, WatcherTypes DEF WatcherInv
    <3>4. recordings[q].unstopped = TRUE
      BY <3>2, <3>3 DEF WatcherInv, RowsAreOwned
    <3> QED BY <1>10, <2>2, <3>2, <3>4
  <2> QED BY <2>1, <2>2 DEF RowsAreOwned
<1>15. FailuresAreCounted'
  <2>1. Unstopped' \subseteq Unstopped
    BY <1>6, <1>8, <1>9, <1>10 DEF Unstopped
  <2>2. used' \in [DOMAIN Bounds -> Nat] /\ used["faults"] <= used'["faults"]
    BY <1>4, WatcherTypes DEF WatcherInv, WatcherTyped, Bounds
  <2> QED BY <2>1, <2>2, OneMoreFailure DEF WatcherInv
<1>16. PhaseHasItsChannels'
  BY <1>2, <1>4, <1>7 DEF WatcherInv, PhaseHasItsChannels
<1>17. StatusesTell'
  <2>1. ASSUME NEW d \in DOMAIN states
        PROVE  (/\ states[d].status = "RECORDING" => states[d].recording # None /\ states[d].enabled = TRUE
                /\ states[d].recording # None /\ states[d].status \in Quiet
                     => RecordingOf(d).unstopped = TRUE)'
    <3>1. CASE d = c
      BY <1>5, <1>7, <1>12, <3>1 DEF Quiet
    <3>2. CASE d # c
      BY <1>2, <1>7, <1>11, <3>2 DEF WatcherInv, StatusesTell, RecordingOf
    <3> QED BY <3>1, <3>2
  <2> QED BY <1>7, <2>1 DEF StatusesTell
<1>18. SnapshotIsQuiet'
  BY <1>4 DEF WatcherInv, SnapshotIsQuiet
<1>19. DeclinedIsSuppressed'
  <2>1. ASSUME NEW d \in DOMAIN states
        PROVE  (/\ states[d].last <= onAir[d].bno /\ states[d].suppressed <= onAir[d].bno
                /\ states[d].recording # None =>
                     /\ RecordingOf(d).bno <= onAir[d].bno
                     /\ states[d].last = None \/ RecordingOf(d).bno <= states[d].last
                /\ \/ None \in declined[d]
                   \/ \A b \in declined[d] : b = states[d].suppressed \/ b < onAir[d].bno)'
    <3>1. CASE d = c
      <4>1. states[c].last \in Nat
        BY <1>2, WatcherTypes DEF WatcherInv
      <4> QED BY <1>4, <1>5, <1>7, <1>9, <1>12, <3>1, <4>1 DEF WatcherInv, DeclinedIsSuppressed, RecordingOf
    <3>2. CASE d # c
      BY <1>4, <1>7, <1>11, <3>2 DEF WatcherInv, DeclinedIsSuppressed, RecordingOf
    <3> QED BY <3>1, <3>2
  <2> QED BY <1>4, <1>7, <2>1 DEF WatcherInv, DeclinedIsSuppressed
<1>20. \A d \in Channels : Begins(d) => d = starting /\ RecordingOf(d)'.bno = states[d].last
  <2>1. \A d \in Channels : Begins(d) => d = c
    BY <1>7 DEF Begins, IsRecording
  <2>2. RecordingOf(c)'.bno = states[c].last
    BY <1>5, <1>7, <1>9, <1>12 DEF RecordingOf
  <2> QED BY <1>1, <2>1, <2>2
<1> QED BY <1>13, <1>14, <1>15, <1>16, <1>17, <1>18, <1>19, <1>20 DEF WatcherInv

\* What a new list makes of the state of a channel.
LEMMA MergedState ==
  ASSUME NEW s \in ChannelState, NEW entry \in ListEntries, NEW ok \in BOOLEAN
  PROVE  LET m == Merged(s, entry, ok)
             stops == entry = "ABSENT" \/ (s.enabled = TRUE /\ entry = "DISABLED")
         IN /\ m \in ChannelState /\ m.last = s.last /\ m.suppressed = s.suppressed
            /\ stops => m.recording = (IF ok THEN None ELSE s.recording) /\ m.status # "RECORDING"
            /\ ~stops => m.recording = s.recording /\ (m = s \/ m.status = "UNKNOWN")
<1>1. /\ s.enabled \in BOOLEAN /\ Stopped(s, ok) \in ChannelState
      /\ Stopped(s, ok).recording = (IF ok THEN None ELSE s.recording)
      /\ Stopped(s, ok).last = s.last /\ Stopped(s, ok).suppressed = s.suppressed
  BY DEF Stopped, ChannelState, Statuses
<1> DEFINE t == Stopped(s, ok)
<1> HIDE DEF t
<1>2. /\ t \in ChannelState /\ t.recording = (IF ok THEN None ELSE s.recording)
      /\ t.last = s.last /\ t.suppressed = s.suppressed
  BY <1>1 DEF t
<1>3. CASE entry = "ABSENT"
  <2>1. Merged(s, entry, ok) = [t EXCEPT !.enabled = FALSE, !.status = "ERROR"]
    BY <1>3 DEF Merged, t
  <2> QED BY <1>2, <1>3, <2>1 DEF ChannelState, Statuses
<1>4. CASE s.enabled = TRUE /\ entry = "DISABLED"
  <2>1. Merged(s, entry, ok) = [t EXCEPT !.enabled = FALSE, !.status = "DISABLED"]
    BY <1>4 DEF Merged, t
  <2> QED BY <1>2, <1>4, <2>1 DEF ChannelState, Statuses
<1>5. CASE s.enabled = FALSE /\ entry = "ENABLED"
  <2>1. Merged(s, entry, ok) = [s EXCEPT !.enabled = TRUE, !.status = "UNKNOWN", !.due = TRUE]
    BY <1>5 DEF Merged
  <2> QED BY <1>5, <2>1 DEF ChannelState, Statuses
<1>6. CASE /\ entry # "ABSENT" /\ ~(s.enabled = TRUE /\ entry = "DISABLED")
           /\ ~(s.enabled = FALSE /\ entry = "ENABLED")
  <2>1. Merged(s, entry, ok) = s
    BY <1>1, <1>6 DEF Merged
  <2> QED BY <1>6, <2>1
<1> QED BY <1>3, <1>4, <1>5, <1>6

\* No more rows fail to stop than stops failed.
LEMMA FailedStopsAreCounted ==
  ASSUME WatcherInv, NEW failed \in SUBSET DOMAIN states, Use("faults", Cardinality(failed)),
         \A r \in Unstopped' : r \in Unstopped \/ \E c \in failed : states[c].recording = r
  PROVE  FailuresAreCounted'
<1> DEFINE rows == {states[c].recording : c \in failed}
           f == [c \in failed |-> states[c].recording]
<1>1. IsFiniteSet(failed) /\ Cardinality(failed) \in Nat
  <2>1. failed \in SUBSET Channels
    BY WatcherTypes DEF WatcherInv
  <2> QED BY <2>1, WatcherAssumption, FS_Subset, FS_CardinalityType
<1>2. IsFiniteSet(rows) /\ Cardinality(rows) <= Cardinality(failed) /\ Cardinality(rows) \in Nat
  <2>1. f \in [failed -> rows] /\ \A r \in rows : \E c \in failed : f[c] = r
    OBVIOUS
  <2>2. f \in Surjection(failed, rows)
    <3> HIDE DEF f, rows
    <3> QED BY <2>1 DEF Surjection
  <2> QED BY <1>1, <2>2, FS_Surjection, FS_CardinalityType
<1>3. Unstopped' \subseteq Unstopped \cup rows
  OBVIOUS
<1> HIDE DEF rows
<1>4. /\ IsFiniteSet(Unstopped \cup rows)
      /\ Cardinality(Unstopped \cup rows) <= Cardinality(Unstopped) + Cardinality(rows)
  <2>1. /\ IsFiniteSet(Unstopped \cup rows)
        /\ Cardinality(Unstopped \cup rows) =
             Cardinality(Unstopped) + Cardinality(rows) - Cardinality(Unstopped \cap rows)
    BY <1>2, UnstoppedIsFinite, FS_Union
  <2>2. Cardinality(Unstopped \cap rows) \in Nat
    <3>1. IsFiniteSet(Unstopped \cap rows)
      BY <1>2, UnstoppedIsFinite, FS_Intersection
    <3> QED BY <3>1, FS_CardinalityType
  <2> QED BY <1>2, <2>1, <2>2, UnstoppedIsFinite
<1>5. Cardinality(Unstopped') <= Cardinality(Unstopped \cup rows) /\ Cardinality(Unstopped \cup rows) \in Nat
  BY <1>3, <1>4, FS_Subset, FS_CardinalityType
<1>6. used'["faults"] = used["faults"] + Cardinality(failed) /\ used["faults"] \in Nat
  <2>1. "faults" \in DOMAIN Bounds
    BY DEF Bounds
  <2> QED BY <1>1, <2>1, UseCounts, WatcherTypes DEF WatcherInv
<1> QED BY <1>1, <1>2, <1>4, <1>5, <1>6, UnstoppedIsFinite DEF WatcherInv, FailuresAreCounted

\* The channels and the rows when a new list is applied.
AppliedTo(failed) ==
  /\ \A c \in DOMAIN states' \ DOMAIN states :
       /\ states'[c] \in ChannelState /\ states'[c].recording = None /\ states'[c].status # "RECORDING"
       /\ states'[c].last = None /\ states'[c].suppressed = None
  /\ \A c \in DOMAIN states' \cap DOMAIN states :
       /\ states'[c] \in ChannelState
       /\ states'[c].last = states[c].last /\ states'[c].suppressed = states[c].suppressed
       /\ states'[c].recording # None =>
            /\ states'[c].recording = states[c].recording
            /\ \/ c \in failed /\ states'[c].status # "RECORDING"
               \/ RecordingOf(c)' = RecordingOf(c) /\ states'[c].status \in {states[c].status, "UNKNOWN"}
       /\ states'[c].status = "RECORDING" =>
            states'[c].recording = states[c].recording /\ states'[c].enabled = states[c].enabled
              /\ states[c].status = "RECORDING"
  /\ \A c \in failed :
       /\ c \in DOMAIN states' \cap DOMAIN states /\ states[c].recording # None
       /\ states'[c].recording = states[c].recording
       /\ recordings'[states[c].recording] = [RecordingOf(c) EXCEPT !.unstopped = TRUE]
  /\ \A c \in DOMAIN states \ failed : states[c].recording # None =>
       \/ recordings'[states[c].recording] = NoRecording
       \/ /\ recordings'[states[c].recording] = RecordingOf(c) /\ c \in DOMAIN states'
          /\ states'[c].recording = states[c].recording
  /\ \A r \in RecordingIds :
       (\A c \in DOMAIN states : states[c].recording # r) => recordings'[r] = recordings[r]

\* apply_channels does that.
LEMMA ApplyChannelsApplies ==
  ASSUME WatcherInv, NEW failed, ApplyChannels(saved, failed)
  PROVE  AppliedTo(failed) /\ failed \in SUBSET DOMAIN states /\ DOMAIN states' \subseteq Channels
<1> DEFINE leaves(c) == saved[c] = "ABSENT" \/ (states[c].enabled = TRUE /\ saved[c] = "DISABLED")
           stops == {c \in Leaving(saved) \cup Disabling(saved) : IsRecording(c)}
<1>0. /\ failed \subseteq stops /\ recordings' = RecordingsAfter(stops, failed)
      /\ states' = [c \in Listed(saved) \cup (Leaving(saved) \cap failed) |->
                      IF c \in DOMAIN states THEN Merged(states[c], saved[c], c \notin failed)
                      ELSE NewState(saved[c])]
  BY DEF ApplyChannels
<1>1. /\ DOMAIN states \subseteq Channels /\ \A c \in DOMAIN states : states[c] \in ChannelState
      /\ saved \in [Channels -> ListEntries]
      /\ \A c \in DOMAIN states : states[c].enabled \in BOOLEAN
  BY WatcherTypes DEF WatcherInv, WatcherTyped, LiveTypeOK, ChannelState
<1>2. stops = {c \in DOMAIN states : states[c].recording # None /\ leaves(c)}
  BY <1>1 DEF Leaving, Disabling, Listed, IsRecording
<1>3. \A c \in DOMAIN states : states[c].recording # None =>
        states[c].recording \in RecordingIds /\ recordings[states[c].recording].channel = c
  BY WatcherTypes DEF WatcherInv, RowsAreOwned, RecordingOf, ChannelState
<1>4. DOMAIN states' = Listed(saved) \cup (Leaving(saved) \cap failed) /\ DOMAIN states' \subseteq Channels
  BY <1>0, <1>1 DEF Listed, Leaving
<1> HIDE DEF stops
<1>5. \A c \in DOMAIN states, d \in DOMAIN states :
        states[c].recording # None /\ states[c].recording = states[d].recording => c = d
  BY <1>3
<1>6. \A c \in DOMAIN states : states[c].recording # None =>
        recordings'[states[c].recording] =
          IF c \in stops THEN IF c \in failed THEN [RecordingOf(c) EXCEPT !.unstopped = TRUE]
                              ELSE NoRecording
          ELSE RecordingOf(c)
  BY <1>0, <1>2, <1>3, <1>5 DEF RecordingsAfter, RecordingOf
<1>7. \A r \in RecordingIds :
        (\A c \in DOMAIN states : states[c].recording # r) => recordings'[r] = recordings[r]
  BY <1>0, <1>2 DEF RecordingsAfter
<1>8. ASSUME NEW c \in DOMAIN states' \cap DOMAIN states
      PROVE  /\ states'[c] \in ChannelState
             /\ states'[c].last = states[c].last /\ states'[c].suppressed = states[c].suppressed
             /\ leaves(c) => /\ states'[c].recording = (IF c \in failed THEN states[c].recording ELSE None)
                             /\ states'[c].status # "RECORDING"
             /\ ~leaves(c) => /\ states'[c].recording = states[c].recording
                              /\ states'[c] = states[c] \/ states'[c].status = "UNKNOWN"
  <2>1. states'[c] = Merged(states[c], saved[c], c \notin failed)
    BY <1>0, <1>4, <1>8
  <2>2. states[c] \in ChannelState /\ saved[c] \in ListEntries /\ (c \notin failed) \in BOOLEAN
    BY <1>1, <1>8
  <2>3. LET m == Merged(states[c], saved[c], c \notin failed)
        IN /\ m \in ChannelState /\ m.last = states[c].last /\ m.suppressed = states[c].suppressed
           /\ leaves(c) => /\ m.recording = (IF c \notin failed THEN None ELSE states[c].recording)
                           /\ m.status # "RECORDING"
           /\ ~leaves(c) => m.recording = states[c].recording /\ (m = states[c] \/ m.status = "UNKNOWN")
    BY <2>2, MergedState
  <2> QED BY <2>1, <2>3
<1>9. ASSUME NEW c \in DOMAIN states' \ DOMAIN states
      PROVE  /\ states'[c] \in ChannelState /\ states'[c].recording = None /\ states'[c].status # "RECORDING"
             /\ states'[c].last = None /\ states'[c].suppressed = None
  <2>1. states'[c] = NewState(saved[c])
    BY <1>0, <1>4
  <2> QED BY <2>1 DEF NewState, ChannelState, Statuses
<1>10. \A c \in failed : c \in DOMAIN states' \cap DOMAIN states /\ leaves(c) /\ states[c].recording # None
  BY <1>0, <1>1, <1>2, <1>4 DEF Listed, Leaving
<1>11. \A c \in DOMAIN states \ failed : states[c].recording # None =>
         c \in stops \/ (c \in DOMAIN states' /\ ~leaves(c))
  BY <1>1, <1>2, <1>4 DEF Listed
<1> HIDE DEF leaves
<1>12. failed \in SUBSET DOMAIN states
  BY <1>0, <1>2
<1>13. \A c \in DOMAIN states' \cap DOMAIN states : states'[c].recording # None =>
         /\ states'[c].recording = states[c].recording
         /\ \/ c \in failed /\ states'[c].status # "RECORDING"
            \/ RecordingOf(c)' = RecordingOf(c) /\ states'[c].status \in {states[c].status, "UNKNOWN"}
  <2>1. ASSUME NEW c \in DOMAIN states' \cap DOMAIN states, states'[c].recording # None
        PROVE  /\ states'[c].recording = states[c].recording
               /\ \/ c \in failed /\ states'[c].status # "RECORDING"
                  \/ RecordingOf(c)' = RecordingOf(c) /\ states'[c].status \in {states[c].status, "UNKNOWN"}
    <3>1. CASE leaves(c)
      BY <1>8, <2>1, <3>1
    <3>2. CASE ~leaves(c)
      <4>1. /\ states'[c].recording = states[c].recording
            /\ states'[c].status \in {states[c].status, "UNKNOWN"}
        BY <1>8, <2>1, <3>2
      <4>2. c \notin stops
        BY <1>2, <3>2
      <4>3. recordings'[states'[c].recording] = RecordingOf(c)
        BY <1>6, <2>1, <4>1, <4>2
      <4> QED BY <4>1, <4>3 DEF RecordingOf
    <3> QED BY <3>1, <3>2
  <2> QED BY <2>1
<1>14. \A c \in DOMAIN states' \cap DOMAIN states : states'[c].status = "RECORDING" =>
         states'[c].recording = states[c].recording /\ states'[c].enabled = states[c].enabled
           /\ states[c].status = "RECORDING"
  BY <1>8
<1>15. \A c \in failed :
       /\ states'[c].recording = states[c].recording
       /\ recordings'[states[c].recording] = [RecordingOf(c) EXCEPT !.unstopped = TRUE]
  BY <1>0, <1>6, <1>8, <1>10
<1>16. \A c \in DOMAIN states \ failed : states[c].recording # None =>
       \/ recordings'[states[c].recording] = NoRecording
       \/ /\ recordings'[states[c].recording] = RecordingOf(c) /\ c \in DOMAIN states'
          /\ states'[c].recording = states[c].recording
  BY <1>2, <1>6, <1>8, <1>11
<1> QED BY <1>4, <1>7, <1>8, <1>9, <1>10, <1>12, <1>13, <1>14, <1>15, <1>16 DEF AppliedTo

\* A new list is applied.
LEMMA AppliedKeeps ==
  ASSUME WatcherInv, NEW failed, ApplyChannels(saved, failed), phase = "select",
         phase' = "recheck", todo' = ToRecheck(states'),
         UNCHANGED <<env, manager, task, stopSent, commands, starting, passwords, snapshot>>
  PROVE  WatcherInv'
<1>0. /\ onAir' = onAir /\ saved' = saved /\ manager' = manager /\ task' = task /\ stopSent' = stopSent
      /\ commands' = commands /\ starting' = starting /\ passwords' = passwords /\ snapshot' = snapshot
      /\ applied' = saved /\ Use("faults", Cardinality(failed))
      /\ declined' = [c \in Channels |-> IF c \in DOMAIN states' THEN declined[c] ELSE {}]
  BY DEF env, ApplyChannels
<1>1. AppliedTo(failed) /\ failed \in SUBSET DOMAIN states /\ DOMAIN states' \subseteq Channels
  BY ApplyChannelsApplies
<1>2. /\ states' \in [DOMAIN states' -> ChannelState] /\ DOMAIN states \subseteq Channels
      /\ \A c \in DOMAIN states : states[c] \in ChannelState
  <2>1. \A c \in DOMAIN states' : states'[c] \in ChannelState
    BY <1>1 DEF AppliedTo
  <2>2. states' = [c \in DOMAIN states' |-> states'[c]]
    BY DEF ApplyChannels
  <2> QED BY <2>1, <2>2, WatcherTypes DEF WatcherInv
<1>3. \A c \in DOMAIN states : states[c].recording # None =>
        /\ states[c].recording \in RecordingIds /\ RecordingOf(c) \in Recording /\ RecordingOf(c).channel = c
        /\ RecordingOf(c) # NoRecording
  BY <1>2, RowTypes, RecordingsAreRows DEF WatcherInv, RowsAreOwned, RecordingOf, ChannelState
<1>4. ASSUME NEW c \in failed
      PROVE  /\ recordings'[states[c].recording] \in Recording
             /\ recordings'[states[c].recording].unstopped = TRUE
             /\ recordings'[states[c].recording].channel = c
             /\ recordings'[states[c].recording].bno = RecordingOf(c).bno
             /\ recordings'[states[c].recording] # NoRecording
  <2>1. recordings'[states[c].recording] = [RecordingOf(c) EXCEPT !.unstopped = TRUE]
    BY <1>1 DEF AppliedTo
  <2>2. RecordingOf(c) \in Recording /\ RecordingOf(c).channel = c
    BY <1>1, <1>3 DEF AppliedTo
  <2>3. [RecordingOf(c) EXCEPT !.unstopped = TRUE] \in Recording
    BY <2>2 DEF Recording
  <2> QED BY <2>1, <2>2, <2>3, RecordingsAreRows DEF Recording
<1>5. recordings' \in [RecordingIds -> Recording \cup {NoRecording}]
  <2>1. ASSUME NEW r \in RecordingIds PROVE recordings'[r] \in Recording \cup {NoRecording}
    <3>1. ASSUME NEW c \in DOMAIN states, states[c].recording = r
          PROVE  recordings'[r] \in Recording \cup {NoRecording}
      <4>1. r # None
        BY WatcherTypes DEF WatcherInv
      <4>2. CASE c \in failed
        BY <1>4, <3>1, <4>2
      <4>3. CASE c \notin failed
        BY <1>1, <1>3, <3>1, <4>1, <4>3 DEF AppliedTo
      <4> QED BY <4>2, <4>3
    <3>2. CASE \A c \in DOMAIN states : states[c].recording # r
      BY <1>1, <3>2, WatcherTypes DEF WatcherInv, AppliedTo
    <3> QED BY <3>1, <3>2
  <2>2. \E f : recordings' = [r \in RecordingIds |-> f[r]]
    <3>1. recordings' = [r \in RecordingIds |-> recordings'[r]]
      BY DEF ApplyChannels, RecordingsAfter
    <3> QED BY <3>1
  <2> QED BY <2>1, <2>2
<1>6. \A c \in DOMAIN states' : states'[c].recording # None =>
        /\ c \in DOMAIN states /\ states'[c].recording = states[c].recording
        /\ states[c].recording \in RecordingIds /\ RecordingOf(c)' # NoRecording
        /\ RecordingOf(c)'.channel = c /\ RecordingOf(c)'.bno = RecordingOf(c).bno
        /\ RecordingOf(c).unstopped = TRUE => RecordingOf(c)'.unstopped = TRUE
        /\ c \in failed => RecordingOf(c)'.unstopped = TRUE
        /\ c \notin failed => states'[c].status \in {states[c].status, "UNKNOWN"}
  <2>1. ASSUME NEW c \in DOMAIN states', states'[c].recording # None
        PROVE  /\ c \in DOMAIN states /\ states'[c].recording = states[c].recording
               /\ states[c].recording \in RecordingIds /\ RecordingOf(c)' # NoRecording
               /\ RecordingOf(c)'.channel = c /\ RecordingOf(c)'.bno = RecordingOf(c).bno
               /\ RecordingOf(c).unstopped = TRUE => RecordingOf(c)'.unstopped = TRUE
               /\ c \in failed => RecordingOf(c)'.unstopped = TRUE
               /\ c \notin failed => states'[c].status \in {states[c].status, "UNKNOWN"}
    <3>1. /\ c \in DOMAIN states /\ states'[c].recording = states[c].recording
          /\ c \in failed \/ (RecordingOf(c)' = RecordingOf(c)
                               /\ states'[c].status \in {states[c].status, "UNKNOWN"})
      BY <1>1, <2>1 DEF AppliedTo
    <3>2. CASE c \in failed
      <4>1. RecordingOf(c)' = recordings'[states[c].recording]
        BY <3>1 DEF RecordingOf
      <4> QED BY <1>3, <1>4, <2>1, <3>1, <3>2, <4>1
    <3>3. CASE c \notin failed
      BY <1>3, <2>1, <3>1, <3>3
    <3> QED BY <3>2, <3>3
  <2> QED BY <2>1
<1>7. WatcherTyped'
  <2>1. ShellTyped /\ BoundsTyped
    BY ShellTypes DEF WatcherInv
  <2>2. BoundsTyped'
    <3>1. "faults" \in DOMAIN Bounds /\ Cardinality(failed) \in Nat
      <4>1. IsFiniteSet(failed)
        BY <1>1, <1>2, WatcherAssumption, FS_Subset
      <4> QED BY <4>1, FS_CardinalityType DEF Bounds
    <3> QED BY <1>0, <3>1, BoundsStay
  <2>3. todo' \subseteq Channels
    BY <1>1 DEF ToRecheck
  <2>4. declined' \in [Channels -> SUBSET (Broadcasts \cup {None})]
    BY <1>0, <2>1 DEF ShellTyped
  <2>5. ShellTyped'
    BY <1>0, <2>1, <2>3, <2>4 DEF ShellTyped, Phases
  <2> QED BY <1>1, <1>2, <1>5, <2>2, <2>5, ShellTypes
<1>8. RowsAreOwned'
  <2>1. ASSUME NEW r \in RecordingIds, recordings'[r] # NoRecording
        PROVE  \/ \E c \in DOMAIN states' : states'[c].recording = r
               \/ recordings'[r].unstopped = TRUE /\ recordings'[r].running = FALSE
    <3>1. ASSUME NEW c \in DOMAIN states, states[c].recording = r
          PROVE  \E d \in DOMAIN states' : states'[d].recording = r
      <4>1. r # None
        BY WatcherTypes DEF WatcherInv
      <4> QED BY <1>1, <2>1, <3>1, <4>1 DEF AppliedTo
    <3>2. CASE \A c \in DOMAIN states : states[c].recording # r
      BY <1>1, <2>1, <3>2 DEF WatcherInv, RowsAreOwned, AppliedTo
    <3> QED BY <3>1, <3>2
  <2>2. \A c \in DOMAIN states' : states'[c].recording # None =>
          recordings'[states'[c].recording] # NoRecording
    BY <1>6 DEF RecordingOf
  <2> QED BY <1>6, <2>1, <2>2 DEF RowsAreOwned
<1>9. FailuresAreCounted'
  <2>1. ASSUME NEW r \in Unstopped' PROVE r \in Unstopped \/ \E c \in failed : states[c].recording = r
    <3>1. r \in RecordingIds /\ recordings'[r] # NoRecording /\ recordings'[r].unstopped = TRUE
      BY <2>1 DEF Unstopped
    <3>2. ASSUME NEW c \in DOMAIN states \ failed, states[c].recording = r
          PROVE  recordings'[r] = recordings[r]
      <4>1. r # None
        BY <3>1, WatcherTypes DEF WatcherInv
      <4> QED BY <1>1, <3>1, <3>2, <4>1 DEF AppliedTo, RecordingOf
    <3>3. (\A c \in DOMAIN states : states[c].recording # r) => recordings'[r] = recordings[r]
      BY <1>1, <3>1 DEF AppliedTo
    <3>4. recordings'[r] = recordings[r] => r \in Unstopped
      BY <3>1 DEF Unstopped
    <3> QED BY <1>1, <3>2, <3>3, <3>4
  <2> QED BY <1>0, <1>1, <2>1, FailedStopsAreCounted
<1>10. PhaseHasItsChannels'
  <2>1. task = "live" /\ starting = NoChannel
    BY DEF WatcherInv, PhaseHasItsChannels
  <2> QED BY <1>0, <2>1 DEF PhaseHasItsChannels, ToRecheck
<1>11. StatusesTell'
  <2>1. ASSUME NEW c \in DOMAIN states', states'[c].status = "RECORDING"
        PROVE  states'[c].recording # None /\ states'[c].enabled = TRUE
    <3>1. /\ c \in DOMAIN states /\ states'[c].recording = states[c].recording
          /\ states'[c].enabled = states[c].enabled /\ states[c].status = "RECORDING"
      BY <1>1, <2>1 DEF AppliedTo
    <3> QED BY <3>1 DEF WatcherInv, StatusesTell
  <2>2. ASSUME NEW c \in DOMAIN states', states'[c].recording # None, states'[c].status \in Quiet
        PROVE  RecordingOf(c)'.unstopped = TRUE
    <3>1. CASE c \in failed
      BY <1>6, <2>2, <3>1
    <3>2. CASE c \notin failed
      <4>1. /\ c \in DOMAIN states /\ states[c].recording # None /\ states[c].status \in Quiet
            /\ RecordingOf(c).unstopped = TRUE => RecordingOf(c)'.unstopped = TRUE
        BY <1>6, <2>2, <3>2 DEF Quiet
      <4> QED BY <4>1 DEF WatcherInv, StatusesTell
    <3> QED BY <3>1, <3>2
  <2> QED BY <2>1, <2>2 DEF StatusesTell
<1>12. SnapshotIsQuiet'
  BY <1>0 DEF WatcherInv, SnapshotIsQuiet
<1>13. DeclinedIsSuppressed'
  <2>1. \A c \in Channels \ DOMAIN states' : declined'[c] = {}
    BY <1>0
  <2>2. ASSUME NEW c \in DOMAIN states'
        PROVE  (/\ states[c].last <= onAir[c].bno /\ states[c].suppressed <= onAir[c].bno
                /\ states[c].recording # None =>
                     /\ RecordingOf(c).bno <= onAir[c].bno
                     /\ states[c].last = None \/ RecordingOf(c).bno <= states[c].last
                /\ \/ None \in declined[c]
                   \/ \A d \in declined[c] : d = states[c].suppressed \/ d < onAir[c].bno)'
    <3>0. declined'[c] = declined[c] /\ onAir'[c] = onAir[c] /\ c \in Channels
      BY <1>0, <1>1
    <3>1. CASE c \in DOMAIN states
      <4>1. states'[c].last = states[c].last /\ states'[c].suppressed = states[c].suppressed
        BY <1>1, <3>1 DEF AppliedTo
      <4>2. /\ states[c].last <= onAir[c].bno /\ states[c].suppressed <= onAir[c].bno
            /\ states[c].recording # None =>
                 /\ RecordingOf(c).bno <= onAir[c].bno
                 /\ states[c].last = None \/ RecordingOf(c).bno <= states[c].last
            /\ \/ None \in declined[c]
               \/ \A d \in declined[c] : d = states[c].suppressed \/ d < onAir[c].bno
        BY <3>1 DEF WatcherInv, DeclinedIsSuppressed
      <4>3. states'[c].recording # None =>
              states[c].recording # None /\ RecordingOf(c)'.bno = RecordingOf(c).bno
        BY <1>6
      <4> QED BY <3>0, <4>1, <4>2, <4>3
    <3>2. CASE c \notin DOMAIN states
      <4>1. states'[c].recording = None /\ states'[c].last = None /\ states'[c].suppressed = None
        BY <1>1, <3>2 DEF AppliedTo
      <4>2. declined[c] = {} /\ None <= onAir[c].bno
        BY <3>0, <3>2, WatcherTypes DEF WatcherInv, DeclinedIsSuppressed, None
      <4> QED BY <3>0, <4>1, <4>2
    <3> QED BY <3>1, <3>2
  <2>3. starting' = NoChannel
    BY <1>0 DEF WatcherInv, PhaseHasItsChannels
  <2> QED BY <2>1, <2>2, <2>3 DEF DeclinedIsSuppressed
<1> QED BY <1>7, <1>8, <1>9, <1>10, <1>11, <1>12, <1>13 DEF WatcherInv

\* A tick begins.
LEMMA TickKeeps ==
  ASSUME WatcherInv, Tick
  PROVE  WatcherInv'
<1>0. /\ phase = "select" /\ phase' = "recheck" /\ todo' = ToRecheck(states')
      /\ UNCHANGED <<env, manager, task, stopSent, commands, starting, passwords, snapshot>>
  BY DEF Tick
<1>1. ASSUME NEW failed, ApplyChannels(saved, failed) PROVE WatcherInv'
  BY <1>0, <1>1, AppliedKeeps
<1>2. CASE UNCHANGED <<applied, states, recordings, declined>> /\ (used' = used \/ Outcome(FALSE))
  <2>1. /\ onAir' = onAir /\ saved' = saved /\ manager' = manager /\ task' = task /\ stopSent' = stopSent
        /\ commands' = commands /\ starting' = starting /\ passwords' = passwords
        /\ snapshot' = snapshot /\ states' = states /\ recordings' = recordings /\ declined' = declined
        /\ applied' = applied
    BY <1>0, <1>2 DEF env
  <2>2. ShellTyped'
    <3>1. ShellTyped /\ DOMAIN states \subseteq Channels
      BY ShellTypes, WatcherTypes DEF WatcherInv
    <3> QED BY <1>0, <2>1, <3>1 DEF ShellTyped, Phases, ToRecheck
  <2>3. WatcherTyped' /\ RowsAreOwned' /\ FailuresAreCounted' /\ DeclinedIsSuppressed'
    <3>1. \A c \in Channels : onAir[c].bno <= onAir'[c].bno
      BY <2>1, WatcherTypes DEF WatcherInv, None
    <3>2. used' = used \/ \E b \in DOMAIN Bounds, n \in Nat : Use(b, n)
      BY <1>2 DEF Outcome, Bounds
    <3> QED BY <2>1, <2>2, <3>1, <3>2, StatesStay
  <2>4. PhaseHasItsChannels'
    BY <1>0, <2>1 DEF WatcherInv, PhaseHasItsChannels, ToRecheck
  <2>5. StatusesTell' /\ SnapshotIsQuiet'
    BY <1>0, <2>1 DEF WatcherInv, StatusesTell, SnapshotIsQuiet, RecordingOf
  <2> QED BY <2>3, <2>4, <2>5 DEF WatcherInv
<1> QED BY <1>1, <1>2 DEF Tick

----------------------------------------------------------------------------
(* The invariant and what it gives.                                        *)

\* The watcher begins with it.
LEMMA WatcherInitially == Init => WatcherInv
<1> SUFFICES ASSUME Init PROVE WatcherInv
  OBVIOUS
<1>1. /\ phase = "off" /\ todo = {} /\ starting = NoChannel /\ task = "none" /\ DOMAIN states = {}
      /\ states \in [{} -> ChannelState] /\ recordings = [r \in RecordingIds |-> NoRecording]
      /\ declined = [c \in Channels |-> {}] /\ onAir = [c \in Channels |-> [bno |-> None, live |-> FALSE]]
      /\ DOMAIN snapshot = {"running", "channels"} /\ snapshot.running = FALSE
      /\ DOMAIN snapshot.channels = {} /\ used = [b \in DOMAIN Bounds |-> 0]
      /\ manager = "idle" /\ stopSent = FALSE /\ commands = <<>> /\ saved \in [Channels -> ListEntries]
      /\ applied = saved /\ passwords = [c \in Channels |-> None]
  BY DEF Init
<1>2. \A b \in DOMAIN Bounds : 0 \in 0 .. Bounds[b]
  BY WatcherAssumption DEF Bounds
<1>3. commands \in Seq([channel : Channels, verb : Verbs]) /\ Len(commands) <= QueueSize
  BY <1>1, WatcherAssumption
<1>4. WatcherTyped
  BY <1>1, <1>2, <1>3 DEF WatcherTyped, LiveTypeOK, Phases
<1>5. RowsAreOwned /\ PhaseHasItsChannels /\ StatusesTell /\ SnapshotIsQuiet /\ DeclinedIsSuppressed
  BY <1>1 DEF RowsAreOwned, PhaseHasItsChannels, StatusesTell, SnapshotIsQuiet, DeclinedIsSuppressed
<1>6. FailuresAreCounted
  <2>1. Unstopped = {}
    BY <1>1 DEF Unstopped
  <2>2. used["faults"] = 0
    BY <1>1 DEF Bounds
  <2> QED BY <2>1, <2>2, FS_EmptySet DEF FailuresAreCounted
<1> QED BY <1>4, <1>5, <1>6 DEF WatcherInv

\* Every step keeps it.
LEMMA WatcherKeeps == WatcherInv /\ [Next]_vars => WatcherInv'
<1> SUFFICES ASSUME WatcherInv, [Next]_vars PROVE WatcherInv'
  OBVIOUS
<1>1. CASE World
  BY <1>1, AirKeeps, RecorderExitsKeeps, UsersKeep DEF World
<1>2. CASE Users
  BY <1>2, StartKeeps, UsersKeep DEF Users
<1>3. CASE Task
  BY <1>3, InitialiseKeeps, InitialiseFailsKeeps, HandleCommandKeeps, TickKeeps, PhaseKeeps, StartedKeeps,
     StartFailsKeeps, ExitEndsKeeps, CheckRecordingKeeps, MonitorKeeps, PollKeeps, ExitStopKeeps DEF Task
<1>4. CASE Reap \/ UNCHANGED vars
  BY <1>4, UsersKeep
<1>5. ASSUME NEW c \in Channels, Elapse(c) PROVE WatcherInv'
  BY <1>5, ElapseKeeps
<1> QED BY <1>1, <1>2, <1>3, <1>4, <1>5 DEF Next

\* It says that the rows, the statuses and the recorders agree.
LEMMA WatcherAgrees == WatcherInv => LiveInv
<1> SUFFICES ASSUME WatcherInv PROVE LiveInv
  OBVIOUS
<1>1. OpenRowIsOwned
  BY WatcherTypes DEF WatcherInv, RowsAreOwned, OpenRowIsOwned, RecordingOf, IsRecording
<1>2. StatusTellsTheRecording
  BY DEF WatcherInv, StatusesTell, StatusTellsTheRecording, IsRecording, Quiet
<1>3. StoppedWatcherIsQuiet
  BY DEF WatcherInv, PhaseHasItsChannels, RowsAreOwned, SnapshotIsQuiet, StoppedWatcherIsQuiet
<1> QED BY <1>1, <1>2, <1>3 DEF WatcherInv, WatcherTyped, LiveInv

\* A live recording's row is open exactly while its channel owns the recording, the statuses tell
\* of it, and a stopped watcher owns none (LiveInv): the Recording that five functions of
\* native_watcher.rs move in and out of ChannelState is neither lost nor doubled.
THEOREM WatcherOwnsItsRecordings == Spec => []LiveInv
<1>1. Spec => []WatcherInv
  BY WatcherInitially, WatcherKeeps, PTL DEF Spec
<1> QED BY <1>1, WatcherAgrees, PTL

\* A step that changes one channel, and gives it no recording, begins none.
LEMMA OneChannelBeginsNone ==
  ASSUME WatcherInv, NEW d \in DOMAIN states, NEW s, states' = [states EXCEPT ![d] = s],
         s.recording \in {None, states[d].recording}
  PROVE  \A c \in Channels : ~Begins(c)
  BY DEF Begins, IsRecording

\* A recording begins only when start_recording succeeds.
LEMMA OnlyStartedBegins ==
  ASSUME WatcherInv, [Next]_vars, ~Started
  PROVE  \A c \in Channels : ~Begins(c)
<1>0. \A d \in DOMAIN states : states[d] \in ChannelState /\ d \in Channels
  BY WatcherTypes DEF WatcherInv
<1>1. CASE states' = states
  BY <1>1 DEF Begins, IsRecording
<1>2. CASE Initialise
  BY <1>2 DEF Initialise, Begins, IsRecording, NewState
<1>3. CASE ExitEnds
  BY <1>3 DEF ExitEnds, Begins, IsRecording
<1>4. ASSUME NEW d \in Channels, Elapse(d) PROVE \A c \in Channels : ~Begins(c)
  <2>1. states' = [states EXCEPT ![d] = [states[d] EXCEPT !.due = TRUE]] /\ d \in DOMAIN states
    BY <1>4 DEF Elapse
  <2>2. [states[d] EXCEPT !.due = TRUE].recording = states[d].recording
    BY <1>0, <2>1 DEF ChannelState
  <2> QED BY <2>1, <2>2, OneChannelBeginsNone
<1>5. ASSUME NEW s \in ChannelState, NEW ok PROVE Stopped(s, ok).recording \in {None, s.recording}
  BY DEF Stopped, ChannelState
<1>6. ASSUME NEW d \in Channels, CheckRecording(d) PROVE \A c \in Channels : ~Begins(c)
  <2>1. d \in DOMAIN states /\ states[d] \in ChannelState
    BY <1>0, <1>6 DEF CheckRecording, WatcherInv, PhaseHasItsChannels
  <2>2. PICK s : states' = [states EXCEPT ![d] = s] /\ s.recording \in {None, states[d].recording}
    <3>1. ASSUME NEW ok \in BOOLEAN, BroadcastEnded(d, ok)
          PROVE  \E s : states' = [states EXCEPT ![d] = s] /\ s.recording \in {None, states[d].recording}
      <4> DEFINE s == [Stopped(states[d], ok) EXCEPT !.status = "OFFLINE", !.last = None, !.due = FALSE]
      <4>1. s.recording \in {None, states[d].recording}
        BY <2>1 DEF Stopped, ChannelState
      <4>2. states' = [states EXCEPT ![d] = s]
        BY <3>1 DEF BroadcastEnded
      <4> HIDE DEF s
      <4> QED BY <4>1, <4>2
    <3>2. ASSUME NEW ok \in BOOLEAN, BroadcastChanged(d, ok)
          PROVE  \E s : states' = [states EXCEPT ![d] = s] /\ s.recording \in {None, states[d].recording}
      <4> DEFINE s == [Stopped(states[d], ok) EXCEPT !.status = "UNKNOWN", !.last = onAir[d].bno, !.due = TRUE]
      <4>1. s.recording \in {None, states[d].recording}
        BY <2>1 DEF Stopped, ChannelState
      <4>2. states' = [states EXCEPT ![d] = s]
        BY <3>2 DEF BroadcastChanged
      <4> HIDE DEF s
      <4> QED BY <4>1, <4>2
    <3>3. ASSUME NEW ok \in BOOLEAN, BroadcastKept(d, ok)
          PROVE  \E s : states' = [states EXCEPT ![d] = s] /\ s.recording \in {None, states[d].recording}
      <4> DEFINE s == [states[d] EXCEPT !.due = FALSE]
      <4>1. s.recording \in {None, states[d].recording}
        BY <2>1 DEF ChannelState
      <4>2. states' = [states EXCEPT ![d] = s]
        BY <3>3 DEF BroadcastKept
      <4> HIDE DEF s
      <4> QED BY <4>1, <4>2
    <3> QED BY <1>6, <3>1, <3>2, <3>3 DEF CheckRecording
  <2> QED BY <2>1, <2>2, OneChannelBeginsNone
<1>7. ASSUME NEW d \in Channels, Monitor(d) PROVE \A c \in Channels : ~Begins(c)
  <2>1. d \in DOMAIN states /\ states[d] \in ChannelState
    BY <1>0, <1>7 DEF Monitor, WatcherInv, PhaseHasItsChannels
  <2>2. ASSUME NEW normal \in BOOLEAN, Exited(d, normal) PROVE \A c \in Channels : ~Begins(c)
    <3> DEFINE s == [states[d] EXCEPT !.recording = None, !.status = IF normal THEN "UNKNOWN" ELSE "ERROR",
                                      !.due = normal]
    <3>1. s.recording = None
      BY <2>1 DEF ChannelState
    <3>2. states' = [states EXCEPT ![d] = s]
      BY <2>2 DEF Exited
    <3> HIDE DEF s
    <3> QED BY <2>1, <3>1, <3>2, OneChannelBeginsNone
  <2>3. ASSUME NEW status \in {"LOW_DISK", "STALLED"}, NEW ok \in BOOLEAN, Hampered(d, status, ok)
        PROVE  \A c \in Channels : ~Begins(c)
    <3> DEFINE s == [Stopped([states[d] EXCEPT !.status = status], ok) EXCEPT !.due = (status = "STALLED")]
    <3>1. s.recording \in {None, states[d].recording}
      BY <2>1 DEF Stopped, ChannelState
    <3>2. states' = [states EXCEPT ![d] = s]
      BY <2>3 DEF Hampered
    <3> HIDE DEF s
    <3> QED BY <2>1, <3>1, <3>2, OneChannelBeginsNone
  <2>4. CASE MonitorFails(d)
    <3> DEFINE s == [states[d] EXCEPT !.status = "ERROR"]
    <3>1. s.recording = states[d].recording
      BY <2>1 DEF ChannelState
    <3>2. states' = [states EXCEPT ![d] = s]
      BY <2>4 DEF MonitorFails
    <3> HIDE DEF s
    <3> QED BY <2>1, <3>1, <3>2, OneChannelBeginsNone
  <2> QED BY <1>1, <1>7, <2>2, <2>3, <2>4 DEF Monitor, StillRunning
<1>8. ASSUME NEW d \in Channels, ExitStop(d) PROVE \A c \in Channels : ~Begins(c)
  <2>1. d \in DOMAIN states /\ states[d] \in ChannelState
    BY <1>0, <1>8 DEF ExitStop, WatcherInv, PhaseHasItsChannels
  <2> QED BY <1>5, <1>8, <2>1, OneChannelBeginsNone DEF ExitStop
<1>9. ASSUME NEW d \in Channels, Poll(d) PROVE \A c \in Channels : ~Begins(c)
  <2>1. d \in DOMAIN states /\ states[d] \in ChannelState
    BY <1>0, <1>9 DEF Poll, WatcherInv, PhaseHasItsChannels
  <2>2. \E s : states' = [states EXCEPT ![d] = s] /\ s.recording = states[d].recording
    <3>1. CASE ProbedOffline(d)
      <4> DEFINE s == [states[d] EXCEPT !.status = "OFFLINE", !.last = None, !.due = FALSE]
      <4>1. s.recording = states[d].recording
        BY <2>1 DEF ChannelState
      <4>2. states' = [states EXCEPT ![d] = s]
        BY <3>1 DEF ProbedOffline
      <4> HIDE DEF s
      <4> QED BY <4>1, <4>2
    <3>2. ASSUME NEW status, NEW recovered, ProbeFails(d, status, recovered)
          PROVE  \E s : states' = [states EXCEPT ![d] = s] /\ s.recording = states[d].recording
      <4> DEFINE s == [states[d] EXCEPT !.status = status, !.due = recovered]
      <4>1. s.recording = states[d].recording
        BY <2>1 DEF ChannelState
      <4>2. states' = [states EXCEPT ![d] = s]
        BY <3>2 DEF ProbeFails
      <4> HIDE DEF s
      <4> QED BY <4>1, <4>2
    <3>3. ASSUME NEW b \in Broadcasts, ProbedLive(d, b)
          PROVE  \E s : states' = [states EXCEPT ![d] = s] /\ s.recording = states[d].recording
      <4> DEFINE seen == [states[d] EXCEPT !.last = b, !.due = FALSE]
      <4>1. PICK s : /\ states' = [states EXCEPT ![d] = s]
                     /\ \/ s = [seen EXCEPT !.status = "PASSWORD_REQUIRED"]
                        \/ s = [seen EXCEPT !.status = "PAUSED"]
                        \/ s = [seen EXCEPT !.suppressed = None]
        BY <3>3 DEF ProbedLive
      <4>2. s.recording = states[d].recording
        BY <2>1, <4>1 DEF ChannelState
      <4> QED BY <4>1, <4>2
    <3> QED BY <1>9, <3>1, <3>2, <3>3 DEF Poll
  <2> QED BY <2>1, <2>2, OneChannelBeginsNone
<1>10. CASE StartFails
  <2>1. starting \in DOMAIN states /\ states[starting] \in ChannelState
    BY <1>0, <1>10 DEF StartFails, WatcherInv, PhaseHasItsChannels
  <2>2. PICK status : states' = [states EXCEPT ![starting] = [states[starting] EXCEPT !.status = status]]
    BY <1>10 DEF StartFails
  <2>3. [states[starting] EXCEPT !.status = status].recording = states[starting].recording
    BY <2>1 DEF ChannelState
  <2> QED BY <2>1, <2>2, <2>3, OneChannelBeginsNone
<1>11. CASE HandleCommand
  <2>1. PICK d : \/ states' = states
                 \/ d \in DOMAIN states /\ \E ok \in BOOLEAN : StopOnce(d, ok)
                 \/ d \in DOMAIN states /\ (Resume(d) \/ Recheck(d))
    BY <1>11 DEF HandleCommand
  <2>2. ASSUME d \in DOMAIN states, NEW ok \in BOOLEAN, StopOnce(d, ok) PROVE \A c \in Channels : ~Begins(c)
    <3>1. PICK seen : states' = [states EXCEPT ![d] =
                        [Stopped([states[d] EXCEPT !.suppressed = seen], ok) EXCEPT !.status = "PAUSED"]]
      BY <2>2 DEF StopOnce
    <3> DEFINE s == [Stopped([states[d] EXCEPT !.suppressed = seen], ok) EXCEPT !.status = "PAUSED"]
    <3>2. s.recording \in {None, states[d].recording}
      BY <1>0, <2>2 DEF Stopped, ChannelState
    <3>3. states' = [states EXCEPT ![d] = s]
      BY <3>1
    <3> HIDE DEF s
    <3> QED BY <2>2, <3>2, <3>3, OneChannelBeginsNone
  <2>3. CASE d \in DOMAIN states /\ Resume(d)
    <3> DEFINE s == [states[d] EXCEPT !.suppressed = None, !.status = "UNKNOWN", !.due = TRUE]
    <3>1. s.recording = states[d].recording
      BY <1>0, <2>3 DEF ChannelState
    <3>2. states' = [states EXCEPT ![d] = s]
      BY <2>3 DEF Resume
    <3> HIDE DEF s
    <3> QED BY <2>3, <3>1, <3>2, OneChannelBeginsNone
  <2>4. CASE d \in DOMAIN states /\ Recheck(d)
    <3> DEFINE s == [states[d] EXCEPT !.due = TRUE]
    <3>1. s.recording = states[d].recording
      BY <1>0, <2>4 DEF ChannelState
    <3>2. states' = [states EXCEPT ![d] = s]
      BY <2>4 DEF Recheck
    <3> HIDE DEF s
    <3> QED BY <2>4, <3>1, <3>2, OneChannelBeginsNone
  <2> QED BY <1>1, <2>1, <2>2, <2>3, <2>4
<1>12. CASE Tick
  <2>1. ASSUME NEW failed, ApplyChannels(saved, failed) PROVE \A c \in Channels : ~Begins(c)
    <3>1. AppliedTo(failed)
      BY <2>1, ApplyChannelsApplies
    <3> QED BY <3>1 DEF AppliedTo, Begins, IsRecording
  <2> QED BY <1>1, <1>12, <2>1 DEF Tick
<1>13. CASE World \/ Users \/ Reap \/ InitialiseFails \/ NextPhase \/ BreakLoop \/ UNCHANGED vars
  <2>1. states' = states
    BY <1>13 DEF World, Users, GoesLive, GoesOff, RecorderExits, EditChannels, Start, RequestStop,
    SupplyPassword,
       SendCommand, Reap, InitialiseFails, NextPhase, BreakLoop, vars, local
  <2> QED BY <1>1, <2>1
<1> QED BY <1>2, <1>3, <1>4, <1>6, <1>7, <1>8, <1>9, <1>10, <1>11, <1>12, <1>13 DEF Next, Task

\* A broadcast the user stopped is not recorded again (SuppressionHolds), unless a stop command of
\* native_watcher.rs itself replaced the suppressed broadcast.
THEOREM StoppedBroadcastsStaySuppressed == Spec => SuppressionHolds
<1>1. Spec => []WatcherInv
  BY WatcherInitially, WatcherKeeps, PTL DEF Spec
<1>2. WatcherInv /\ [Next]_vars =>
        [\A c \in Channels : Begins(c) /\ RecordingOf(c)'.bno \in declined[c] => None \in declined[c]]_vars
  <2> SUFFICES ASSUME WatcherInv, [Next]_vars, NEW c \in Channels, Begins(c),
                      RecordingOf(c)'.bno \in declined[c]
      PROVE  None \in declined[c]
    OBVIOUS
  <2>1. Started
    BY OnlyStartedBegins
  <2>2. c = starting /\ RecordingOf(c)'.bno = states[c].last
    BY <2>1, StartedKeeps
  <2>3. starting # NoChannel
    BY <2>1 DEF Started
  <2> QED BY <2>2, <2>3 DEF WatcherInv, DeclinedIsSuppressed
<1> QED BY <1>1, <1>2, PTL DEF Spec, SuppressionHolds
=============================================================================
