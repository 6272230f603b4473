---------------------- MODULE DesktopControllerProofs ----------------------
(***************************************************************************)
(* What holds of the desktop application (DesktopController) for all values *)
(* of the constants: its busy flags agree with what is on its way, and the  *)
(* user is not misled.                                                      *)
(***************************************************************************)
EXTENDS DesktopController, TLAPS, FiniteSetTheorems

----------------------------------------------------------------------------
\* The inductive invariant.  The channels are read by index: counting comes last.

\* What asks for an answer that clears a busy flag.
Asking == {"command", "refresh", "restore"}

\* What clears one.
Answering == {"answer", "failed", "snapshot", "bare", "error"}

\* The pages of the requests and responses that only the settings or maintenance page has.
MessagesFitTheirPages ==
  /\ \A i \in 1 .. Len(requests) :
       /\ requests[i].kind = "restore" => requests[i].page = Maintenance
       /\ requests[i].kind \in {"refresh", "check", "shutdown"} => requests[i].page = Settings
  /\ \A i \in 1 .. Len(responses) :
       responses[i].kind \in {"snapshot", "bare", "error", "check", "complete"}
         => responses[i].page = Settings

\* Nothing is shown before the worker has opened the core, and a worker that could not says so
\* once and then nothing.
StartIsAwaited ==
  /\ worker = "opens" => responses = << >>
  /\ worker = "failed" =>
       responses = << >> \/ (Len(responses) = 1 /\ responses[1].kind = "bare")
  /\ worker \in {"opens", "failed"} => Live \notin loaded /\ latest = NoRows

\* Something will clear the flag of page p.
Awaits(p, q, r) ==
  \/ \E i \in 1 .. Len(q) : q[i].page = p /\ q[i].kind \in Asking
  \/ \E i \in 1 .. Len(r) : r[i].page = p /\ r[i].kind \in Answering

\* A page is busy while something will clear its flag, or the worker is not there to do so.
FlagsAreAwaited ==
  \A p \in busy : \/ worker \in {"opens", "ended"} \/ Awaits(p, requests, responses)
                  \/ worker = "failed" /\ (p \in Forgotten \/ responses # << >>)

\* A message is a poll of page p.
PollOf(m, p) == m.kind = "poll" /\ m.page = p

\* The requests q and responses r hold one poll of a page at most, of a page that is known.
PollsAreOnce(q, r, known) ==
  \A p \in Pages :
    /\ \A i, j \in 1 .. Len(q) : PollOf(q[i], p) /\ PollOf(q[j], p) => i = j
    /\ \A i, j \in 1 .. Len(r) : PollOf(r[i], p) /\ PollOf(r[j], p) => i = j
    /\ \A i \in 1 .. Len(q), j \in 1 .. Len(r) : ~(PollOf(q[i], p) /\ PollOf(r[j], p))
    /\ \A i \in 1 .. Len(q) : PollOf(q[i], p) => p \in known
    /\ \A i \in 1 .. Len(r) : PollOf(r[i], p) => p \in known

\* Responses come in the order of what they saw.
AnswersAreInOrder ==
  /\ since <= world
  /\ \A i \in 1 .. Len(responses) : responses[i].seen <= world
  /\ \A i, j \in 1 .. Len(responses) : i <= j => responses[i].seen <= responses[j].seen

\* No poll is of a later opening, and once one of this opening was taken, nothing older comes.
OpeningIsAnswered ==
  /\ \A i \in 1 .. Len(requests) : requests[i].kind = "poll" => requests[i].gen <= generation
  /\ \A i \in 1 .. Len(responses) : responses[i].kind = "poll" =>
       /\ responses[i].gen <= generation
       /\ responses[i].gen = generation => responses[i].seen >= since
  /\ ~awaiting => latest >= since /\ \A i \in 1 .. Len(responses) : responses[i].seen >= since

\* One exit check is on its way at most, and only while an exit is pending: commands are before
\* it in the channel, and after it nothing begins work.
CheckIsLast ==
  /\ exit \in {"no", "stops"} =>
       /\ \A i \in 1 .. Len(requests) : requests[i].kind # "check"
       /\ \A i \in 1 .. Len(responses) : responses[i].kind # "check"
  /\ exit = "asked" =>
       /\ \A i, j \in 1 .. Len(requests) :
            requests[i].kind = "check" =>
              (requests[j].kind = "check" => i = j) /\ (requests[j].kind = "command" => j < i)
       /\ \A i, j \in 1 .. Len(responses) :
            responses[i].kind = "check" /\ responses[j].kind = "check" => i = j
       /\ (\E i \in 1 .. Len(responses) : responses[i].kind = "check") =>
            /\ ~started
            /\ \A i \in 1 .. Len(requests) : requests[i].kind \notin {"check", "command"}

\* The LIVE page can be opened within the bound when the user has gone there.
RoomToOpen == OnLive /\ ~open => generation < MaxOpenings

\* The inductive invariant.
DesktopInv ==
  /\ DesktopTypeOK /\ MessagesFitTheirPages /\ StartIsAwaited /\ FlagsAreAwaited
  /\ PollsAreOnce(requests, responses, polling) /\ AnswersAreInOrder /\ OpeningIsAnswered
  /\ ShownIsFresh /\ CheckIsLast /\ ExitEndsNoNewWork /\ RoomToOpen
----------------------------------------------------------------------------
(* The channels, by index.                                                 *)

\* A message is put at the end.
LEMMA Appended ==
  ASSUME NEW T, NEW s \in Seq(T), NEW m \in T, NEW t, t = Append(s, m)
  PROVE  /\ t \in Seq(T) /\ Len(t) = Len(s) + 1 /\ t[Len(s) + 1] = m
         /\ \A i \in 1 .. Len(s) : t[i] = s[i]
  OBVIOUS

\* The first message is taken.
LEMMA Taken ==
  ASSUME NEW T, NEW s \in Seq(T), s # << >>, NEW t, t = Tail(s)
  PROVE  /\ t \in Seq(T) /\ Len(s) >= 1 /\ Len(t) = Len(s) - 1 /\ Head(s) = s[1]
         /\ \A i \in 1 .. Len(t) : t[i] = s[i + 1]
  OBVIOUS

\* A list of messages is put at the end.
LEMMA Joined ==
  ASSUME NEW T, NEW s \in Seq(T), NEW m \in T, NEW u \in Seq(T), NEW t, t = (s \o <<m>>) \o u
  PROVE  /\ t \in Seq(T) /\ Len(t) = Len(s) + 1 + Len(u) /\ t[Len(s) + 1] = m
         /\ \A i \in 1 .. Len(s) : t[i] = s[i]
         /\ \A i \in 1 .. Len(u) : t[Len(s) + 1 + i] = u[i]
  OBVIOUS

\* What a channel holds is typed.
LEMMA Lengths ==
  ASSUME NEW T, NEW s \in Seq(T)
  PROVE  Len(s) \in Nat /\ \A i \in 1 .. Len(s) : s[i] \in T
  OBVIOUS

\* The answers of a set of pages: one of each.
LEMMA OneOfEach ==
  ASSUME NEW S, IsFiniteSet(S)
  PROVE  /\ SetToSeq(S) \in [1 .. Cardinality(S) -> S]
         /\ \A p \in S : \E i \in 1 .. Cardinality(S) : SetToSeq(S)[i] = p
<1>1. PICK m \in Nat : ExistsBijection(1 .. m, S)  BY FS_NatBijection
<1>2. IsFiniteSet(1 .. m) /\ Cardinality(1 .. m) = m
  <2>1. 1 \in Int /\ m \in Int  OBVIOUS
  <2>2. IsFiniteSet(1 .. m) /\ Cardinality(1 .. m) = IF 1 > m THEN 0 ELSE m - 1 + 1
    BY <2>1, FS_Interval
  <2> QED BY <2>2
<1>3. m = Cardinality(S)  BY <1>1, <1>2, FS_Bijection
<1>4. PICK f : f \in Bijection(1 .. m, S)  BY <1>1 DEF ExistsBijection
<1>5. f \in [1 .. m -> S] /\ IsInjective(f)  BY <1>4 DEF Bijection, Injection
<1>6. PICK order : order = SetToSeq(S)  OBVIOUS
<1>7. order \in [1 .. m -> S] /\ IsInjective(order)  BY <1>3, <1>5, <1>6 DEF SetToSeq
<1>8. order \in Injection(1 .. m, S)  BY <1>7 DEF Injection
<1>9. order \in Surjection(1 .. m, S)  BY <1>2, <1>3, <1>8, FS_Injection
<1>10. \A p \in S : \E i \in 1 .. m : order[i] = p  BY <1>9 DEF Surjection
<1> QED BY <1>3, <1>6, <1>7, <1>10

\* The pages are finite, and so is every set of them.
LEMMA PagesAreFinite == \A S \in SUBSET Pages : IsFiniteSet(S)
<1>1. IsFiniteSet({} \cup {Live})  BY FS_AddElement, FS_EmptySet
<1>2. IsFiniteSet(({} \cup {Live}) \cup {Settings})  BY <1>1, FS_AddElement
<1>3. IsFiniteSet((({} \cup {Live}) \cup {Settings}) \cup {Maintenance})  BY <1>2, FS_AddElement
<1>4. (({} \cup {Live}) \cup {Settings}) \cup {Maintenance} = {Live, Settings, Maintenance}
  OBVIOUS
<1>5. IsFiniteSet(Pages)  BY <1>3, <1>4, FS_Union, DesktopAssumption DEF Pages
<1> QED BY <1>5, FS_Subset
----------------------------------------------------------------------------
(* What each step keeps.                                                   *)

\* The lengths and messages of both channels.
LEMMA ChannelsAreTyped ==
  DesktopTypeOK => /\ Len(requests) \in Nat /\ \A i \in 1 .. Len(requests) : requests[i] \in Request
                   /\ Len(responses) \in Nat /\ \A i \in 1 .. Len(responses) : responses[i] \in Response
<1> SUFFICES ASSUME DesktopTypeOK PROVE
      /\ Len(requests) \in Nat /\ \A i \in 1 .. Len(requests) : requests[i] \in Request
      /\ Len(responses) \in Nat /\ \A i \in 1 .. Len(responses) : responses[i] \in Response
  OBVIOUS
<1>1. requests \in Seq(Request) /\ responses \in Seq(Response)  BY DEF DesktopTypeOK
<1> QED BY <1>1, Lengths

\* The bounds are numbers.
LEMMA Bounds ==
  /\ MaxWorld \in Nat /\ MaxPending \in Nat /\ MaxOpenings \in Nat /\ MaxOpenings > 0
  /\ NoRows \in Nat /\ NoRows > MaxWorld
<1>1. MaxWorld \in Nat /\ MaxPending \in Nat /\ MaxOpenings \in Nat /\ MaxOpenings > 0
  BY DesktopAssumption
<1> QED BY <1>1 DEF NoRows

\* The runtime changes by itself.
LEMMA ChangesIsSound == DesktopInv /\ Changes => DesktopInv'
<1> SUFFICES ASSUME DesktopInv, Changes PROVE DesktopInv'  OBVIOUS
<1> USE DEF Changes, queues, flags, live, ending, user
<1>1. DesktopTypeOK'
  <2>1. DesktopTypeOK  BY DEF DesktopInv
  <2>2. world' \in 0 .. MaxWorld
    BY <2>1, Bounds DEF DesktopTypeOK
  <2>3. active' \in BOOLEAN
    OBVIOUS
  <2> QED BY <2>1, <2>2, <2>3 DEF DesktopTypeOK
<1>2. MessagesFitTheirPages' /\ FlagsAreAwaited' /\ PollsAreOnce(requests, responses, polling)'
  BY DEF DesktopInv, MessagesFitTheirPages, FlagsAreAwaited, Awaits, PollsAreOnce, PollOf
<1>3. StartIsAwaited' /\ CheckIsLast' /\ ExitEndsNoNewWork' /\ RoomToOpen' /\ ShownIsFresh'
  BY DEF DesktopInv, StartIsAwaited, CheckIsLast, ExitEndsNoNewWork, RoomToOpen, OnLive, ShownIsFresh
<1>4. AnswersAreInOrder'
  <2>1. DesktopTypeOK /\ AnswersAreInOrder  BY DEF DesktopInv
  <2>2. /\ world \in Nat /\ since \in Nat
        /\ \A i \in 1 .. Len(responses) : responses[i].seen \in Nat
    BY <2>1, ChannelsAreTyped, Bounds DEF DesktopTypeOK, Response
  <2> QED BY <2>1, <2>2 DEF AnswersAreInOrder
<1>5. OpeningIsAnswered'
  BY DEF DesktopInv, OpeningIsAnswered
<1> QED BY <1>1, <1>2, <1>3, <1>4, <1>5 DEF DesktopInv

\* The user turns to a page, or away.
LEMMA GoToIsSound ==
  ASSUME NEW p \in Pages, NEW v \in BOOLEAN, DesktopInv, GoTo(p, v)
  PROVE  DesktopInv'
<1> USE DEF GoTo, queues, core, flags, live, ending
<1>1. DesktopTypeOK'
  BY DEF DesktopInv, DesktopTypeOK
<1>2. MessagesFitTheirPages' /\ FlagsAreAwaited' /\ PollsAreOnce(requests, responses, polling)'
  BY DEF DesktopInv, MessagesFitTheirPages, FlagsAreAwaited, Awaits, PollsAreOnce, PollOf
<1>3. StartIsAwaited' /\ CheckIsLast' /\ ExitEndsNoNewWork' /\ RoomToOpen' /\ ShownIsFresh'
  BY DEF DesktopInv, StartIsAwaited, CheckIsLast, ExitEndsNoNewWork, RoomToOpen, OnLive, ShownIsFresh
<1>4. AnswersAreInOrder' /\ OpeningIsAnswered'
  BY DEF DesktopInv, AnswersAreInOrder, OpeningIsAnswered
<1> QED BY <1>1, <1>2, <1>3, <1>4 DEF DesktopInv

\* The LIVE page is opened or left: what was in flight is older than the opening.
LEMMA SeeVisibleIsSound == DesktopInv /\ SeeVisible => DesktopInv'
<1> SUFFICES ASSUME DesktopInv, SeeVisible PROVE DesktopInv'  OBVIOUS
<1> USE DEF SeeVisible, queues, core, flags, ending, user
<1>1. DesktopTypeOK'
  <2>1. DesktopTypeOK /\ RoomToOpen  BY DEF DesktopInv
  <2>2. OnLive \in BOOLEAN  BY <2>1 DEF DesktopTypeOK, OnLive
  <2>3. open' \in BOOLEAN /\ awaiting' \in BOOLEAN /\ loaded' \subseteq Pages
    BY <2>1, <2>2 DEF DesktopTypeOK
  <2>4. OnLive => ~open  BY <2>1, <2>2 DEF DesktopTypeOK
  <2>5. generation' \in 0 .. MaxOpenings
    BY <2>1, <2>4, Bounds DEF DesktopTypeOK, RoomToOpen
  <2>6. since' \in 0 .. MaxWorld /\ shown' \in 0 .. NoRows
    BY <2>1, Bounds DEF DesktopTypeOK
  <2> QED BY <2>1, <2>3, <2>5, <2>6 DEF DesktopTypeOK
<1>2. MessagesFitTheirPages' /\ FlagsAreAwaited' /\ PollsAreOnce(requests, responses, polling)'
  BY DEF DesktopInv, MessagesFitTheirPages, FlagsAreAwaited, Awaits, PollsAreOnce, PollOf
<1>3. StartIsAwaited' /\ CheckIsLast' /\ ExitEndsNoNewWork' /\ RoomToOpen' /\ ShownIsFresh'
  BY DEF DesktopInv, StartIsAwaited, CheckIsLast, ExitEndsNoNewWork, RoomToOpen, OnLive, ShownIsFresh
<1>4. AnswersAreInOrder'
  BY DEF DesktopInv, DesktopTypeOK, AnswersAreInOrder
<1>5. OpeningIsAnswered'
  BY ChannelsAreTyped DEF DesktopInv, DesktopTypeOK, OpeningIsAnswered, Response, Request
<1> QED BY <1>1, <1>2, <1>3, <1>4, <1>5 DEF DesktopInv

\* The LIVE page shows what was answered.
LEMMA ShowIsSound == DesktopInv /\ Show => DesktopInv'
<1> SUFFICES ASSUME DesktopInv, Show PROVE DesktopInv'  OBVIOUS
<1> USE DEF Show, queues, core, flags, ending, user
<1>1. DesktopTypeOK'
  BY DEF DesktopInv, DesktopTypeOK, Pages
<1>2. MessagesFitTheirPages' /\ FlagsAreAwaited' /\ PollsAreOnce(requests, responses, polling)'
  BY DEF DesktopInv, MessagesFitTheirPages, FlagsAreAwaited, Awaits, PollsAreOnce, PollOf
<1>3. StartIsAwaited' /\ CheckIsLast' /\ ExitEndsNoNewWork' /\ RoomToOpen'
  BY DEF DesktopInv, StartIsAwaited, CheckIsLast, ExitEndsNoNewWork, RoomToOpen, OnLive
<1>4. AnswersAreInOrder' /\ OpeningIsAnswered' /\ ShownIsFresh'
  BY DEF DesktopInv, AnswersAreInOrder, OpeningIsAnswered, ShownIsFresh
<1> QED BY <1>1, <1>2, <1>3, <1>4 DEF DesktopInv
\* A request is sent: all but the flags and the exit stays as it is.
LEMMA SentKeeps ==
  ASSUME DesktopInv, NEW m \in Request, requests' = Append(requests, m),
         UNCHANGED <<responses, core, loaded, user, live>>,
         m.kind = "restore" => m.page = Maintenance,
         m.kind \in {"refresh", "check", "shutdown"} => m.page = Settings,
         m.kind = "poll" => m.gen <= generation
  PROVE  /\ requests' \in Seq(Request) /\ Len(requests) \in Nat /\ Len(requests') = Len(requests) + 1
         /\ requests'[Len(requests) + 1] = m
         /\ \A i \in 1 .. Len(requests) : requests'[i] = requests[i]
         /\ MessagesFitTheirPages' /\ StartIsAwaited' /\ AnswersAreInOrder' /\ OpeningIsAnswered'
         /\ ShownIsFresh' /\ RoomToOpen'
         /\ \A p \in Pages : Awaits(p, requests, responses) => Awaits(p, requests, responses)'
<1> USE DEF core, user, live
<1>1. DesktopTypeOK /\ MessagesFitTheirPages /\ StartIsAwaited /\ AnswersAreInOrder /\ OpeningIsAnswered
      /\ ShownIsFresh /\ RoomToOpen
  BY DEF DesktopInv
<1>2. requests \in Seq(Request)  BY <1>1 DEF DesktopTypeOK
<1>3. PICK new : new = Append(requests, m)  OBVIOUS
<1>4. /\ new \in Seq(Request) /\ Len(new) = Len(requests) + 1 /\ new[Len(requests) + 1] = m
      /\ \A i \in 1 .. Len(requests) : new[i] = requests[i]
  BY <1>2, <1>3, Appended
<1>5. Len(requests) \in Nat  BY <1>1, ChannelsAreTyped
<1>6. requests' = new  BY <1>3
<1>7. MessagesFitTheirPages'
  BY <1>1, <1>4, <1>5, <1>6 DEF MessagesFitTheirPages
<1>8. StartIsAwaited' /\ AnswersAreInOrder' /\ ShownIsFresh' /\ RoomToOpen'
  BY <1>1 DEF StartIsAwaited, AnswersAreInOrder, ShownIsFresh, RoomToOpen, OnLive
<1>9. OpeningIsAnswered'
  BY <1>1, <1>4, <1>5, <1>6 DEF OpeningIsAnswered
<1>10. \A p \in Pages : Awaits(p, requests, responses) => Awaits(p, requests, responses)'
  BY <1>4, <1>5, <1>6 DEF Awaits
<1> QED BY <1>4, <1>5, <1>6, <1>7, <1>8, <1>9, <1>10

\* A command, Refresh or a restore is asked for: the flag that is set awaits it.
LEMMA ClickIsSound ==
  ASSUME NEW p \in Pages, NEW kind \in {"command", "refresh", "restore"}, DesktopInv, Click(p, kind)
  PROVE  DesktopInv'
<1> USE DEF Click, Send, MaySend, ending
<1>1. PICK m : m = Req(p, kind, 0)  OBVIOUS
<1>2. m \in Request /\ m.page = p /\ m.kind = kind
  BY <1>1, Bounds DEF Req, Request
<1>3. requests' = Append(requests, m) /\ UNCHANGED <<responses, core, loaded, user, live>>
  BY <1>1
<1>4. /\ requests' \in Seq(Request) /\ Len(requests) \in Nat /\ Len(requests') = Len(requests) + 1
      /\ requests'[Len(requests) + 1] = m
      /\ \A i \in 1 .. Len(requests) : requests'[i] = requests[i]
      /\ MessagesFitTheirPages' /\ StartIsAwaited' /\ AnswersAreInOrder' /\ OpeningIsAnswered'
      /\ ShownIsFresh' /\ RoomToOpen'
      /\ \A q \in Pages : Awaits(q, requests, responses) => Awaits(q, requests, responses)'
  BY <1>2, <1>3, SentKeeps
<1>5. DesktopTypeOK'
  BY <1>4 DEF DesktopInv, DesktopTypeOK, core, user, live
<1>6. FlagsAreAwaited'
  <2>1. Awaits(p, requests, responses)'
    BY <1>2, <1>4 DEF Awaits, Asking
  <2>2. DesktopTypeOK /\ FlagsAreAwaited  BY DEF DesktopInv
  <2> QED BY <1>4, <2>1, <2>2 DEF FlagsAreAwaited, DesktopTypeOK, core
<1>7. PollsAreOnce(requests, responses, polling)'
  BY <1>2, <1>4 DEF DesktopInv, PollsAreOnce, PollOf
<1>8. CheckIsLast' /\ ExitEndsNoNewWork'
  BY <1>2, <1>4 DEF DesktopInv, CheckIsLast, ExitEndsNoNewWork
<1> QED BY <1>4, <1>5, <1>6, <1>7, <1>8 DEF DesktopInv

\* A page is polled when no poll of it is on its way.
LEMMA PollIsSound ==
  ASSUME NEW p \in Pages, DesktopInv, Poll(p)
  PROVE  DesktopInv'
<1> USE DEF Poll, Send, ending
<1>1. PICK m : m = Req(p, "poll", generation)  OBVIOUS
<1>2. m \in Request /\ m.page = p /\ m.kind = "poll" /\ m.gen <= generation
  <2>1. generation \in 0 .. MaxOpenings  BY DEF DesktopInv, DesktopTypeOK
  <2> QED BY <1>1, <2>1, Bounds DEF Req, Request
<1>3. requests' = Append(requests, m) /\ UNCHANGED <<responses, core, loaded, user, live>>
  BY <1>1
<1>4. /\ requests' \in Seq(Request) /\ Len(requests) \in Nat /\ Len(requests') = Len(requests) + 1
      /\ requests'[Len(requests) + 1] = m
      /\ \A i \in 1 .. Len(requests) : requests'[i] = requests[i]
      /\ MessagesFitTheirPages' /\ StartIsAwaited' /\ AnswersAreInOrder' /\ OpeningIsAnswered'
      /\ ShownIsFresh' /\ RoomToOpen'
      /\ \A q \in Pages : Awaits(q, requests, responses) => Awaits(q, requests, responses)'
  BY <1>2, <1>3, SentKeeps
<1>5. DesktopTypeOK'
  BY <1>4 DEF DesktopInv, DesktopTypeOK, core, user, live
<1>6. FlagsAreAwaited'
  <2>1. DesktopTypeOK /\ FlagsAreAwaited  BY DEF DesktopInv
  <2> QED BY <1>4, <2>1 DEF FlagsAreAwaited, DesktopTypeOK, core
<1>7. PollsAreOnce(requests, responses, polling)'
  <2>1. p \notin polling  BY DEF Idle
  <2> QED BY <1>2, <1>4, <2>1 DEF DesktopInv, PollsAreOnce, PollOf
<1>8. CheckIsLast' /\ ExitEndsNoNewWork'
  BY <1>2, <1>4 DEF DesktopInv, CheckIsLast, ExitEndsNoNewWork, core
<1> QED BY <1>4, <1>5, <1>6, <1>7, <1>8 DEF DesktopInv

\* The exit check, the end of the window and the confirmed Shutdown, as far as they are alike.
LEMMA SettingsAreAsked ==
  ASSUME DesktopInv, NEW kind \in {"check", "shutdown"},
         requests' = Append(requests, Req(Settings, kind, 0)),
         UNCHANGED <<responses, core, flags, loaded, user, live, consent>>,
         exit' \in {"asked", "stops", "done"},
         exit' # exit => (exit = "no" /\ kind = "check" /\ exit' = "asked") \/ exit' = "done",
         exit' = exit => kind # "check"
  PROVE  DesktopInv'
<1> USE DEF flags
<1>1. PICK m : m = Req(Settings, kind, 0)  OBVIOUS
<1>2. m \in Request /\ m.page = Settings /\ m.kind = kind
  BY <1>1, Bounds DEF Req, Request, Pages
<1>3. requests' = Append(requests, m) /\ UNCHANGED <<responses, core, loaded, user, live>>
  BY <1>1
<1>4. /\ requests' \in Seq(Request) /\ Len(requests) \in Nat /\ Len(requests') = Len(requests) + 1
      /\ requests'[Len(requests) + 1] = m
      /\ \A i \in 1 .. Len(requests) : requests'[i] = requests[i]
      /\ MessagesFitTheirPages' /\ StartIsAwaited' /\ AnswersAreInOrder' /\ OpeningIsAnswered'
      /\ ShownIsFresh' /\ RoomToOpen'
      /\ \A q \in Pages : Awaits(q, requests, responses) => Awaits(q, requests, responses)'
  BY <1>2, <1>3, SentKeeps
<1>5. DesktopTypeOK'
  BY <1>4 DEF DesktopInv, DesktopTypeOK, core, user, live
<1>6. FlagsAreAwaited'
  <2>1. DesktopTypeOK /\ FlagsAreAwaited  BY DEF DesktopInv
  <2> QED BY <1>4, <2>1 DEF FlagsAreAwaited, DesktopTypeOK, core
<1>7. PollsAreOnce(requests, responses, polling)'
  BY <1>2, <1>4 DEF DesktopInv, PollsAreOnce, PollOf
<1>8. CheckIsLast'
  BY <1>2, <1>4 DEF DesktopInv, CheckIsLast, core
<1>9. ExitEndsNoNewWork'
  BY DEF DesktopInv, ExitEndsNoNewWork, core
<1> QED BY <1>4, <1>5, <1>6, <1>7, <1>8, <1>9 DEF DesktopInv

\* The exit is asked for, or the window closed, when nobody listens: nothing is sent.
LEMMA NothingIsSent ==
  ASSUME DesktopInv, exit' = "done", UNCHANGED <<queues, core, flags, loaded, user, live, consent>>
  PROVE  DesktopInv'
<1> USE DEF queues, core, flags, user, live
<1>1. DesktopTypeOK'
  BY DEF DesktopInv, DesktopTypeOK
<1>2. MessagesFitTheirPages' /\ FlagsAreAwaited' /\ PollsAreOnce(requests, responses, polling)'
  BY DEF DesktopInv, MessagesFitTheirPages, FlagsAreAwaited, Awaits, PollsAreOnce, PollOf
<1>3. StartIsAwaited' /\ CheckIsLast' /\ ExitEndsNoNewWork' /\ RoomToOpen' /\ ShownIsFresh'
  BY DEF DesktopInv, StartIsAwaited, CheckIsLast, ExitEndsNoNewWork, RoomToOpen, OnLive, ShownIsFresh
<1>4. AnswersAreInOrder' /\ OpeningIsAnswered'
  BY DEF DesktopInv, AnswersAreInOrder, OpeningIsAnswered
<1> QED BY <1>1, <1>2, <1>3, <1>4 DEF DesktopInv

\* The exit is asked for.
LEMMA AskExitIsSound == DesktopInv /\ AskExit => DesktopInv'
<1> SUFFICES ASSUME DesktopInv, AskExit PROVE DesktopInv'  OBVIOUS
<1>1. CASE Listens
  BY <1>1, SettingsAreAsked DEF AskExit
<1>2. CASE ~Listens
  BY <1>2, NothingIsSent DEF AskExit, queues
<1> QED BY <1>1, <1>2

\* The window is closed.
LEMMA QuitIsSound == DesktopInv /\ Quit => DesktopInv'
<1> SUFFICES ASSUME DesktopInv, Quit PROVE DesktopInv'  OBVIOUS
<1>1. CASE Listens
  BY <1>1, SettingsAreAsked DEF Quit
<1>2. CASE ~Listens
  BY <1>2, NothingIsSent DEF Quit, queues
<1> QED BY <1>1, <1>2

\* The confirmed Shutdown is sent.
LEMMA SendShutdownIsSound == DesktopInv /\ SendShutdown => DesktopInv'
  BY SettingsAreAsked DEF SendShutdown, ending
\* A response is taken: what it says is dealt with by the step.
LEMMA TakenKeeps ==
  ASSUME DesktopInv, responses # << >>, responses' = Tail(responses),
         UNCHANGED <<requests, core, user, open, generation, shown, since>>
  PROVE  /\ responses' \in Seq(Response) /\ Len(responses) \in Nat /\ Len(responses) > 0
         /\ Head(responses) = responses[1] /\ responses[1] \in Response
         /\ Len(responses') = Len(responses) - 1
         /\ \A i \in 1 .. Len(responses') : responses'[i] = responses[i + 1]
         /\ MessagesFitTheirPages' /\ AnswersAreInOrder' /\ ShownIsFresh' /\ RoomToOpen'
         /\ worker # "opens" /\ (worker = "failed" => responses' = << >> /\ responses[1].kind = "bare")
         /\ \A p \in Pages : Awaits(p, requests, responses) =>
              \/ Awaits(p, requests, responses)'
              \/ responses[1].page = p /\ responses[1].kind \in Answering
<1> USE DEF core, user
<1>1. DesktopTypeOK /\ MessagesFitTheirPages /\ StartIsAwaited /\ AnswersAreInOrder
      /\ ShownIsFresh /\ RoomToOpen
  BY DEF DesktopInv
<1>2. responses \in Seq(Response)  BY <1>1 DEF DesktopTypeOK
<1>3. PICK new : new = Tail(responses)  OBVIOUS
<1>4. /\ new \in Seq(Response) /\ Len(responses) >= 1 /\ Len(new) = Len(responses) - 1
      /\ Head(responses) = responses[1] /\ \A i \in 1 .. Len(new) : new[i] = responses[i + 1]
  BY <1>2, <1>3, Taken
<1>5. Len(responses) \in Nat /\ responses[1] \in Response  BY <1>1, <1>4, ChannelsAreTyped
<1>6. responses' = new  BY <1>3
<1>11. \A i \in 1 .. Len(new) : i + 1 \in 1 .. Len(responses) /\ new[i] = responses[i + 1]
  BY <1>4, <1>5
<1>7. MessagesFitTheirPages' /\ AnswersAreInOrder'
  <2>1. MessagesFitTheirPages'
    BY <1>1, <1>6, <1>11 DEF MessagesFitTheirPages
  <2>2. since' <= world' /\ \A i \in 1 .. Len(responses') : responses'[i].seen <= world'
    BY <1>1, <1>6, <1>11 DEF AnswersAreInOrder
  <2>3. ASSUME NEW i \in 1 .. Len(new), NEW j \in 1 .. Len(new), i <= j
        PROVE  new[i].seen <= new[j].seen
    <3>1. i + 1 <= j + 1  BY <1>4, <1>5, <2>3
    <3> QED BY <1>1, <1>11, <3>1 DEF AnswersAreInOrder
  <2> QED BY <1>6, <2>1, <2>2, <2>3 DEF AnswersAreInOrder
<1>8. ShownIsFresh' /\ RoomToOpen'
  BY <1>1 DEF ShownIsFresh, RoomToOpen, OnLive
<1>9. worker # "opens" /\ (worker = "failed" => responses' = << >> /\ responses[1].kind = "bare")
  BY <1>1, <1>4, <1>5, <1>6 DEF StartIsAwaited
<1>10. \A p \in Pages : Awaits(p, requests, responses) =>
         \/ Awaits(p, requests, responses)'
         \/ responses[1].page = p /\ responses[1].kind \in Answering
  <2> SUFFICES ASSUME NEW p \in Pages, Awaits(p, requests, responses),
                      ~(responses[1].page = p /\ responses[1].kind \in Answering)
               PROVE  Awaits(p, requests, responses)'
    OBVIOUS
  <2>1. CASE \E i \in 1 .. Len(requests) : requests[i].page = p /\ requests[i].kind \in Asking
    BY <2>1 DEF Awaits
  <2>2. CASE \E i \in 1 .. Len(responses) : responses[i].page = p /\ responses[i].kind \in Answering
    <3>1. PICK i \in 1 .. Len(responses) :
            responses[i].page = p /\ responses[i].kind \in Answering
      BY <2>2
    <3>2. i - 1 \in 1 .. Len(new) /\ new[i - 1] = responses[i]  BY <1>4, <1>5, <3>1
    <3> QED BY <1>6, <3>1, <3>2 DEF Awaits
  <2> QED BY <2>1, <2>2 DEF Awaits
<1>12. /\ responses' \in Seq(Response) /\ Len(responses) > 0 /\ Len(responses') = Len(responses) - 1
       /\ \A i \in 1 .. Len(responses') : responses'[i] = responses[i + 1]
  <2>1. /\ new \in Seq(Response) /\ Len(responses) > 0 /\ Len(new) = Len(responses) - 1
        /\ \A i \in 1 .. Len(new) : new[i] = responses[i + 1]
    BY <1>4, <1>5
  <2> QED BY <1>6, <2>1, Zenon
<1> QED BY <1>4, <1>5, <1>7, <1>8, <1>9, <1>10, <1>12

\* The polls that are left are known, unless it was one.
LEMMA PollsAreLeft ==
  ASSUME DesktopInv, responses # << >>, responses' = Tail(responses), UNCHANGED requests,
         polling' = polling \/ (PollOf(responses[1], responses[1].page)
                                /\ polling' = polling \ {responses[1].page})
  PROVE  PollsAreOnce(requests, responses, polling)'
<1>1. DesktopTypeOK /\ PollsAreOnce(requests, responses, polling)  BY DEF DesktopInv
<1>2. PICK new : new = Tail(responses)  OBVIOUS
<1>3. /\ Len(responses) >= 1 /\ Len(new) = Len(responses) - 1
      /\ \A i \in 1 .. Len(new) : new[i] = responses[i + 1]
  BY <1>1, <1>2, Taken DEF DesktopTypeOK
<1>4. Len(responses) \in Nat  BY <1>1, ChannelsAreTyped
<1> SUFFICES ASSUME NEW p \in Pages PROVE
      /\ \A i, j \in 1 .. Len(requests') : PollOf(requests'[i], p) /\ PollOf(requests'[j], p) => i = j
      /\ \A i, j \in 1 .. Len(responses') :
           PollOf(responses'[i], p) /\ PollOf(responses'[j], p) => i = j
      /\ \A i \in 1 .. Len(requests'), j \in 1 .. Len(responses') :
           ~(PollOf(requests'[i], p) /\ PollOf(responses'[j], p))
      /\ \A i \in 1 .. Len(requests') : PollOf(requests'[i], p) => p \in polling'
      /\ \A i \in 1 .. Len(responses') : PollOf(responses'[i], p) => p \in polling'
  BY DEF PollsAreOnce
<1>9. responses' = new  BY <1>2
<1>5. /\ \A i, j \in 1 .. Len(requests) : PollOf(requests[i], p) /\ PollOf(requests[j], p) => i = j
      /\ \A i, j \in 1 .. Len(responses) : PollOf(responses[i], p) /\ PollOf(responses[j], p) => i = j
      /\ \A i \in 1 .. Len(requests), j \in 1 .. Len(responses) :
           ~(PollOf(requests[i], p) /\ PollOf(responses[j], p))
      /\ \A i \in 1 .. Len(requests) : PollOf(requests[i], p) => p \in polling
      /\ \A i \in 1 .. Len(responses) : PollOf(responses[i], p) => p \in polling
  BY <1>1 DEF PollsAreOnce
<1>6. \A i \in 1 .. Len(new) : i + 1 \in 1 .. Len(responses) /\ i + 1 # 1 /\ new[i] = responses[i + 1]
  BY <1>3, <1>4
<1>7. 1 \in 1 .. Len(responses)  BY <1>3, <1>4
<1>8. p \notin polling' => p \notin polling \/ PollOf(responses[1], p)
  BY DEF PollOf
<1> QED BY <1>5, <1>6, <1>7, <1>8, <1>9

\* So are the exit checks, unless it was one.
LEMMA ChecksAreLeft ==
  ASSUME DesktopInv, responses # << >>, responses' = Tail(responses),
         UNCHANGED <<requests, core>>,
         \/ exit' = exit
         \/ exit' = "done"
         \/ responses[1].kind = "check" /\ exit # "done" /\ exit' \in {"no", "stops"}
  PROVE  CheckIsLast'
<1>1. DesktopTypeOK /\ CheckIsLast  BY DEF DesktopInv
<1>2. PICK new : new = Tail(responses)  OBVIOUS
<1>3. /\ Len(responses) >= 1 /\ Len(new) = Len(responses) - 1
      /\ \A i \in 1 .. Len(new) : new[i] = responses[i + 1]
  BY <1>1, <1>2, Taken DEF DesktopTypeOK
<1>4. Len(responses) \in Nat  BY <1>1, ChannelsAreTyped
<1>5. \A i \in 1 .. Len(new) : i + 1 \in 1 .. Len(responses) /\ i + 1 # 1 /\ new[i] = responses[i + 1]
  BY <1>3, <1>4
<1>6. 1 \in 1 .. Len(responses)  BY <1>3, <1>4
<1>7. exit \in {"no", "asked", "stops", "done"}  BY <1>1 DEF DesktopTypeOK
<1>8. responses' = new /\ requests' = requests /\ started' = started  BY <1>2 DEF core
<1>9. CASE exit' = "done"
  BY <1>9 DEF CheckIsLast
<1>10. CASE exit' = exit /\ exit \in {"no", "stops"}
  BY <1>1, <1>5, <1>8, <1>10 DEF CheckIsLast
<1>11. CASE exit' = exit /\ exit = "asked"
  BY <1>1, <1>4, <1>5, <1>8, <1>11 DEF CheckIsLast
<1>12. CASE responses[1].kind = "check" /\ exit # "done" /\ exit' \in {"no", "stops"}
  <2>1. exit \in {"asked", "done"}  BY <1>1, <1>6, <1>7, <1>12 DEF CheckIsLast
  <2>2. exit = "asked"  BY <1>12, <2>1
  <2>3. /\ \A i \in 1 .. Len(requests) : requests[i].kind # "check"
        /\ \A i \in 1 .. Len(responses) : responses[i].kind = "check" => i = 1
    BY <1>1, <1>6, <1>12, <2>2 DEF CheckIsLast
  <2> QED BY <1>5, <1>8, <1>12, <2>3 DEF CheckIsLast
<1> QED BY <1>7, <1>9, <1>10, <1>11, <1>12

\* An answer to a page: no poll older than the opening makes the page current.
LEMMA TakeAnswerIsSound == DesktopInv /\ TakeAnswer => DesktopInv'
<1> SUFFICES ASSUME DesktopInv, TakeAnswer PROVE DesktopInv'  OBVIOUS
<1> USE DEF Receives, ending
<1>1. responses # << >> /\ responses' = Tail(responses)
      /\ UNCHANGED <<requests, core, user, open, generation, shown, since>>
  BY DEF TakeAnswer
<1>2. /\ responses' \in Seq(Response) /\ Len(responses) \in Nat /\ Len(responses) > 0
      /\ Head(responses) = responses[1] /\ responses[1] \in Response
      /\ Len(responses') = Len(responses) - 1
      /\ \A i \in 1 .. Len(responses') : responses'[i] = responses[i + 1]
      /\ MessagesFitTheirPages' /\ AnswersAreInOrder' /\ ShownIsFresh' /\ RoomToOpen'
      /\ worker # "opens" /\ (worker = "failed" => responses' = << >> /\ responses[1].kind = "bare")
      /\ \A p \in Pages : Awaits(p, requests, responses) =>
           \/ Awaits(p, requests, responses)'
           \/ responses[1].page = p /\ responses[1].kind \in Answering
  BY <1>1, TakenKeeps
<1>3. PICK answer : answer = responses[1]  OBVIOUS
<1>4. /\ answer \in Response /\ answer.kind \in {"answer", "poll", "failed"}
      /\ IF answer.kind = "poll" THEN polling' = polling \ {answer.page} /\ UNCHANGED busy
                                 ELSE busy' = busy \ {answer.page} /\ UNCHANGED polling
      /\ loaded' = IF answer.page = Live \/ answer.kind = "failed" THEN loaded
                   ELSE loaded \cup {answer.page}
      /\ IF answer.page = Live /\ answer.kind # "failed"
           THEN /\ latest' = answer.seen
                /\ awaiting' = (awaiting /\ ~(answer.kind = "poll" /\ Fresh(answer)))
           ELSE UNCHANGED <<latest, awaiting>>
      /\ UNCHANGED <<open, generation, shown, since, exit, consent>>
  BY <1>2, <1>3 DEF TakeAnswer
<1>5. DesktopTypeOK'
  <2>1. DesktopTypeOK  BY DEF DesktopInv
  <2>2. loaded' \subseteq Pages /\ busy' \subseteq Pages /\ polling' \subseteq Pages
    BY <1>4, <2>1 DEF DesktopTypeOK, Response
  <2>3. latest' \in 0 .. NoRows
    BY <1>4, <2>1, Bounds DEF DesktopTypeOK, Response
  <2>4. awaiting' \in BOOLEAN
    BY <1>4, <2>1 DEF DesktopTypeOK
  <2> QED BY <1>1, <1>2, <1>4, <2>1, <2>2, <2>3, <2>4 DEF DesktopTypeOK, core, user
<1>6. worker # "failed"  BY <1>2, <1>3, <1>4
<1>7. StartIsAwaited'
  BY <1>1, <1>2, <1>6 DEF StartIsAwaited, core
<1>8. FlagsAreAwaited'
  BY <1>1, <1>2, <1>3, <1>4, <1>6 DEF DesktopInv, DesktopTypeOK, FlagsAreAwaited, core, Answering
<1>9. PollsAreOnce(requests, responses, polling)'
  BY <1>1, <1>3, <1>4, PollsAreLeft DEF PollOf
<1>10. OpeningIsAnswered'
  <2>1. OpeningIsAnswered /\ AnswersAreInOrder  BY DEF DesktopInv
  <2>2. \A i \in 1 .. Len(responses') : i + 1 \in 1 .. Len(responses)
                                        /\ responses'[i] = responses[i + 1]
    BY <1>2
  <2>3. 1 \in 1 .. Len(responses)  BY <1>2
  <2>4. \A i \in 1 .. Len(responses) : answer.seen <= responses[i].seen
    BY <1>3, <2>1, <2>3 DEF AnswersAreInOrder
  <2>5. since \in Nat /\ answer.seen \in Nat /\ \A i \in 1 .. Len(responses) : responses[i].seen \in Nat
    BY <1>4, ChannelsAreTyped, Bounds DEF DesktopInv, DesktopTypeOK, Response
  <2>6. ~awaiting' => latest' >= since /\ \A i \in 1 .. Len(responses) : responses[i].seen >= since
    <3>1. CASE ~awaiting
      BY <1>3, <1>4, <2>1, <2>3, <3>1 DEF OpeningIsAnswered
    <3>2. CASE awaiting /\ answer.page = Live /\ answer.kind = "poll" /\ answer.gen = generation
      <4>1. answer.seen >= since  BY <1>3, <2>1, <2>3, <3>2 DEF OpeningIsAnswered
      <4> QED BY <1>4, <2>4, <2>5, <3>2, <4>1
    <3> QED BY <1>4, <3>1, <3>2 DEF Fresh
  <2> QED BY <1>1, <1>4, <2>1, <2>2, <2>6 DEF OpeningIsAnswered
<1>11. CheckIsLast' /\ ExitEndsNoNewWork'
  BY <1>1, <1>4, ChecksAreLeft DEF DesktopInv, ExitEndsNoNewWork, core
<1> QED BY <1>2, <1>5, <1>7, <1>8, <1>9, <1>10, <1>11 DEF DesktopInv
\* What a response that no LIVE page waits for leaves of the opening.
LEMMA OpeningIsKept ==
  ASSUME DesktopInv, responses # << >>, responses' = Tail(responses),
         UNCHANGED <<requests, generation, awaiting, latest, since>>
  PROVE  OpeningIsAnswered'
<1>1. DesktopTypeOK /\ OpeningIsAnswered  BY DEF DesktopInv
<1>2. PICK new : new = Tail(responses)  OBVIOUS
<1>3. /\ Len(responses) >= 1 /\ Len(new) = Len(responses) - 1
      /\ \A i \in 1 .. Len(new) : new[i] = responses[i + 1]
  BY <1>1, <1>2, Taken DEF DesktopTypeOK
<1>4. Len(responses) \in Nat  BY <1>1, ChannelsAreTyped
<1>5. \A i \in 1 .. Len(new) : i + 1 \in 1 .. Len(responses) /\ new[i] = responses[i + 1]
  BY <1>3, <1>4
<1>6. responses' = new  BY <1>2
<1> QED BY <1>1, <1>5, <1>6 DEF OpeningIsAnswered

\* A response of the settings page: what it clears of the flags was awaited from it alone.
LEMMA SettingsAreTold ==
  ASSUME DesktopInv, NEW kinds \in SUBSET {"snapshot", "bare", "error", "check", "complete"},
         Receives(kinds), UNCHANGED <<polling, live>>,
         busy' \subseteq busy, loaded' \subseteq Pages, loaded' \ {Settings} = loaded \ {Settings},
         \* the page is cleared when its answer is taken
         Head(responses).kind \in Answering => Settings \notin busy',
         worker = "failed" => busy' \subseteq Forgotten,
         exit' \in {"no", "asked", "stops", "done"}, consent' \in BOOLEAN,
         \/ exit' = exit
         \/ exit' = "done"
         \/ Head(responses).kind = "check" /\ exit # "done" /\ exit' \in {"no", "stops"},
         ExitEndsNoNewWork'
  PROVE  DesktopInv'
<1>1. responses # << >> /\ responses' = Tail(responses)
      /\ UNCHANGED <<requests, core, user, open, generation, shown, since>>
  BY DEF Receives, live
<1>2. /\ responses' \in Seq(Response) /\ Len(responses) \in Nat /\ Len(responses) > 0
      /\ Head(responses) = responses[1] /\ responses[1] \in Response
      /\ Len(responses') = Len(responses) - 1
      /\ \A i \in 1 .. Len(responses') : responses'[i] = responses[i + 1]
      /\ MessagesFitTheirPages' /\ AnswersAreInOrder' /\ ShownIsFresh' /\ RoomToOpen'
      /\ worker # "opens" /\ (worker = "failed" => responses' = << >> /\ responses[1].kind = "bare")
      /\ \A p \in Pages : Awaits(p, requests, responses) =>
           \/ Awaits(p, requests, responses)'
           \/ responses[1].page = p /\ responses[1].kind \in Answering
  BY <1>1, TakenKeeps
<1>3. responses[1].kind \in kinds /\ responses[1].page = Settings
  <2>1. responses[1].kind \in kinds  BY <1>2 DEF Receives
  <2>2. 1 \in 1 .. Len(responses)  BY <1>2
  <2> QED BY <2>1, <2>2 DEF DesktopInv, MessagesFitTheirPages
<1>4. DesktopTypeOK'
  BY <1>1, <1>2 DEF DesktopInv, DesktopTypeOK, core, user, live
<1>5. StartIsAwaited'
  <2>1. Live # Settings  BY DesktopAssumption
  <2>2. StartIsAwaited  BY DEF DesktopInv
  <2>3. Live \in loaded' <=> Live \in loaded  BY <2>1
  <2> QED BY <1>1, <1>2, <2>2, <2>3 DEF StartIsAwaited, core, live
<1>6. FlagsAreAwaited'
  <2>1. DesktopTypeOK /\ FlagsAreAwaited  BY DEF DesktopInv
  <2> SUFFICES ASSUME NEW p \in busy', worker \notin {"opens", "ended"}
               PROVE  Awaits(p, requests, responses)' \/ (worker = "failed" /\ p \in Forgotten)
    BY <1>1 DEF FlagsAreAwaited, core
  <2>2. p \in busy /\ p \in Pages  BY <2>1 DEF DesktopTypeOK
  <2>3. CASE worker = "failed"
    BY <2>3
  <2>4. CASE worker # "failed"
    <3>1. Awaits(p, requests, responses)  BY <2>1, <2>2, <2>4 DEF FlagsAreAwaited
    <3> QED BY <1>2, <1>3, <2>2, <3>1
  <2> QED BY <2>3, <2>4
<1>7. PollsAreOnce(requests, responses, polling)'
  BY <1>1, PollsAreLeft
<1>8. OpeningIsAnswered'
  BY <1>1, OpeningIsKept DEF live
<1>9. CheckIsLast'
  BY <1>1, <1>2, ChecksAreLeft
<1> QED BY <1>2, <1>4, <1>5, <1>6, <1>7, <1>8, <1>9 DEF DesktopInv

\* A snapshot of the settings, or none: a failed start leaves only what Forgotten names busy.
LEMMA TakeSnapshotIsSound == DesktopInv /\ TakeSnapshot => DesktopInv'
<1> SUFFICES ASSUME DesktopInv, TakeSnapshot PROVE DesktopInv'  OBVIOUS
<1>1. DesktopTypeOK /\ StartIsAwaited /\ ExitEndsNoNewWork  BY DEF DesktopInv
<1>2. Receives({"snapshot", "bare"}) /\ UNCHANGED <<polling, live>> /\ exit' = exit /\ consent' = consent
  BY DEF TakeSnapshot, ending
<1>3. /\ busy' = IF Head(responses).kind = "bare" /\ Live \notin loaded THEN busy \cap Forgotten
                 ELSE busy \ {Settings}
      /\ loaded' = (IF Head(responses).kind = "bare" THEN loaded ELSE loaded \cup {Settings})
  BY DEF TakeSnapshot
<1>4. Settings \notin Forgotten /\ Settings \in Pages  BY DesktopAssumption DEF Pages
<1>5. busy' \subseteq busy /\ Settings \notin busy'  BY <1>3, <1>4
<1>6. loaded' \subseteq Pages /\ loaded' \ {Settings} = loaded \ {Settings}
  BY <1>1, <1>3, <1>4 DEF DesktopTypeOK
<1>7. worker = "failed" => busy' \subseteq Forgotten
  <2>1. responses # << >> /\ responses \in Seq(Response)  BY <1>1, <1>2 DEF Receives, DesktopTypeOK
  <2>2. Head(responses) = responses[1]  BY <2>1, Taken
  <2> QED BY <1>1, <1>3, <2>1, <2>2 DEF StartIsAwaited
<1>8. ExitEndsNoNewWork'  BY <1>1, <1>2 DEF ExitEndsNoNewWork, Receives, core
<1>9. exit' \in {"no", "asked", "stops", "done"} /\ consent' \in BOOLEAN
  BY <1>1, <1>2 DEF DesktopTypeOK
<1>10. {"snapshot", "bare"} \in SUBSET {"snapshot", "bare", "error", "check", "complete"}  OBVIOUS
<1> QED BY <1>2, <1>5, <1>6, <1>7, <1>8, <1>9, <1>10, SettingsAreTold

\* A failure clears every page that is not loaded, the settings with them.
LEMMA TakeErrorIsSound == DesktopInv /\ TakeError => DesktopInv'
<1> SUFFICES ASSUME DesktopInv, TakeError PROVE DesktopInv'  OBVIOUS
<1>1. DesktopTypeOK /\ StartIsAwaited /\ ExitEndsNoNewWork  BY DEF DesktopInv
<1>2. Receives({"error"}) /\ UNCHANGED <<polling, live>> /\ exit' = exit /\ consent' = consent
      /\ loaded' = loaded /\ busy' = busy \cap (loaded \ {Settings})
  BY DEF TakeError, ending
<1>3. worker # "failed"
  <2>1. responses # << >> /\ responses \in Seq(Response)  BY <1>1, <1>2 DEF Receives, DesktopTypeOK
  <2>2. Head(responses) = responses[1]  BY <2>1, Taken
  <2> QED BY <1>1, <1>2, <2>1, <2>2 DEF StartIsAwaited, Receives
<1>4. ExitEndsNoNewWork'  BY <1>1, <1>2 DEF ExitEndsNoNewWork, Receives, core
<1>5. exit' \in {"no", "asked", "stops", "done"} /\ consent' \in BOOLEAN /\ loaded' \subseteq Pages
      /\ busy' \subseteq busy /\ Settings \notin busy' /\ loaded' \ {Settings} = loaded \ {Settings}
  BY <1>1, <1>2 DEF DesktopTypeOK
<1>6. {"error"} \in SUBSET {"snapshot", "bare", "error", "check", "complete"}  OBVIOUS
<1> QED BY <1>2, <1>3, <1>4, <1>5, <1>6, SettingsAreTold

\* The exit check is answered: a stop nobody was asked about follows a check that found no work.
LEMMA TakeCheckIsSound == DesktopInv /\ TakeCheck => DesktopInv'
<1> SUFFICES ASSUME DesktopInv, TakeCheck PROVE DesktopInv'  OBVIOUS
<1>1. DesktopTypeOK /\ StartIsAwaited /\ CheckIsLast /\ ExitEndsNoNewWork  BY DEF DesktopInv
<1>2. Receives({"check"}) /\ UNCHANGED <<polling, live>> /\ loaded' = loaded /\ busy' = busy
  BY DEF TakeCheck, flags
<1>3. responses # << >> /\ responses \in Seq(Response)  BY <1>1, <1>2 DEF Receives, DesktopTypeOK
<1>4. /\ Head(responses) = responses[1] /\ Len(responses) >= 1
      /\ responses[1].kind = "check" /\ exit # "done"
  BY <1>2, <1>3, Taken DEF Receives
<1>5. worker # "failed" /\ responses[1].kind \notin Answering
  BY <1>1, <1>3, <1>4 DEF StartIsAwaited, Answering
<1>6. exit' \in {"no", "stops"} /\ consent' \in BOOLEAN
  <2>1. CASE consent' = consent  BY <1>1, <2>1 DEF TakeCheck, DesktopTypeOK
  <2>2. CASE consent' = TRUE  BY <2>2 DEF TakeCheck
  <2> QED BY <2>1, <2>2 DEF TakeCheck
<1>7. ~started
  <2>1. 1 \in 1 .. Len(responses)  BY <1>1, <1>4, ChannelsAreTyped
  <2>2. exit = "asked"  BY <1>1, <1>4, <2>1 DEF CheckIsLast, DesktopTypeOK
  <2> QED BY <1>1, <1>4, <2>1, <2>2 DEF CheckIsLast
<1>8. ExitEndsNoNewWork'  BY <1>2, <1>7 DEF ExitEndsNoNewWork, Receives, core
<1>9. /\ exit' \in {"no", "asked", "stops", "done"} /\ loaded' \subseteq Pages /\ busy' \subseteq busy
      /\ loaded' \ {Settings} = loaded \ {Settings}
  BY <1>1, <1>2, <1>6 DEF DesktopTypeOK
<1>10. {"check"} \in SUBSET {"snapshot", "bare", "error", "check", "complete"}  OBVIOUS
<1> QED BY <1>2, <1>4, <1>5, <1>6, <1>8, <1>9, <1>10, SettingsAreTold

\* The runtime has stopped.
LEMMA TakeCompleteIsSound == DesktopInv /\ TakeComplete => DesktopInv'
<1> SUFFICES ASSUME DesktopInv, TakeComplete PROVE DesktopInv'  OBVIOUS
<1>1. DesktopTypeOK /\ StartIsAwaited  BY DEF DesktopInv
<1>2. Receives({"complete"}) /\ UNCHANGED <<polling, live>> /\ loaded' = loaded /\ busy' = busy
      /\ exit' = "done" /\ consent' = consent
  BY DEF TakeComplete, flags
<1>3. responses # << >> /\ responses \in Seq(Response)  BY <1>1, <1>2 DEF Receives, DesktopTypeOK
<1>4. Head(responses) = responses[1] /\ responses[1].kind = "complete"
  BY <1>2, <1>3, Taken DEF Receives
<1>5. worker # "failed" /\ responses[1].kind \notin Answering
  BY <1>1, <1>3, <1>4 DEF StartIsAwaited, Answering
<1>6. ExitEndsNoNewWork'  BY <1>2 DEF ExitEndsNoNewWork
<1>7. /\ exit' \in {"no", "asked", "stops", "done"} /\ consent' \in BOOLEAN /\ loaded' \subseteq Pages
      /\ busy' \subseteq busy /\ loaded' \ {Settings} = loaded \ {Settings}
  BY <1>1, <1>2 DEF DesktopTypeOK
<1>8. {"complete"} \in SUBSET {"snapshot", "bare", "error", "check", "complete"}  OBVIOUS
<1> QED BY <1>2, <1>4, <1>5, <1>6, <1>7, <1>8, SettingsAreTold
\* The worker takes the first d requests, and what it responds tells of the world as it is now.
LEMMA WorkKeeps ==
  ASSUME DesktopInv, NEW rest \in Seq(Request), requests' = rest, NEW d \in Nat,
         Len(rest) = Len(requests) - d, \A i \in 1 .. Len(rest) : rest[i] = requests[i + d],
         NEW new \in Seq(Response), responses' = new, NEW n \in Nat, n = Len(responses),
         Len(new) >= n, \A i \in 1 .. n : new[i] = responses[i],
         \A i \in (n + 1) .. Len(new) :
           /\ new[i].seen = world'
           /\ new[i].kind \in {"snapshot", "bare", "error", "check", "complete"} => new[i].page = Settings
           /\ new[i].kind = "poll" => new[i].gen <= generation,
         world <= world', world' \in Nat, UNCHANGED <<user, live>>
  PROVE  /\ MessagesFitTheirPages' /\ AnswersAreInOrder' /\ OpeningIsAnswered' /\ ShownIsFresh'
         /\ RoomToOpen'
         /\ \A p \in Pages : Awaits(p, requests, responses) =>
              \/ Awaits(p, requests, responses)'
              \/ \E i \in 1 .. d : requests[i].page = p /\ requests[i].kind \in Asking
<1> USE DEF user, live
<1>1. DesktopTypeOK /\ MessagesFitTheirPages /\ AnswersAreInOrder /\ OpeningIsAnswered
      /\ ShownIsFresh /\ RoomToOpen
  BY DEF DesktopInv
<1>2. Len(requests) \in Nat /\ Len(rest) \in Nat /\ Len(new) \in Nat  BY <1>1, ChannelsAreTyped, Lengths
<1>3. \A i \in 1 .. Len(rest) : i + d \in 1 .. Len(requests) /\ rest[i] = requests[i + d]
  BY <1>2
<1>4. \A i \in 1 .. Len(new) : i \in 1 .. n \/ i \in (n + 1) .. Len(new)
  BY <1>2
<1>5. world \in Nat /\ since \in Nat
  BY <1>1, Bounds DEF DesktopTypeOK
<1>6. MessagesFitTheirPages'
  BY <1>1, <1>3, <1>4 DEF MessagesFitTheirPages
<1>7. AnswersAreInOrder'
  <2>1. since' <= world'  BY <1>1, <1>5 DEF AnswersAreInOrder
  <2>2. ASSUME NEW i \in 1 .. n PROVE new[i].seen <= world'
    <3>1. responses[i] \in Response  BY <1>1, ChannelsAreTyped
    <3>2. responses[i].seen \in Nat  BY <3>1, Bounds DEF Response
    <3>3. responses[i].seen <= world  BY <1>1 DEF AnswersAreInOrder
    <3> QED BY <1>5, <3>2, <3>3
  <2>3. \A i \in 1 .. Len(new) : new[i].seen <= world'
    BY <1>4, <2>2
  <2>4. ASSUME NEW i \in 1 .. Len(new), NEW j \in 1 .. Len(new), i <= j
        PROVE  new[i].seen <= new[j].seen
    <3>1. CASE j \in 1 .. n
      <4>1. i \in 1 .. n  BY <2>4, <3>1
      <4> QED BY <1>1, <2>4, <3>1, <4>1 DEF AnswersAreInOrder
    <3>2. CASE j \in (n + 1) .. Len(new)
      BY <2>3, <3>2
    <3> QED BY <1>4, <3>1, <3>2
  <2> QED BY <2>1, <2>3, <2>4 DEF AnswersAreInOrder
<1>8. OpeningIsAnswered'
  <2>1. world' >= since  BY <1>1, <1>5 DEF AnswersAreInOrder
  <2>2. \A i \in 1 .. Len(rest) : rest[i].kind = "poll" => rest[i].gen <= generation
    BY <1>1, <1>3 DEF OpeningIsAnswered
  <2>3. \A i \in 1 .. Len(new) : new[i].kind = "poll" =>
          new[i].gen <= generation /\ (new[i].gen = generation => new[i].seen >= since)
    BY <1>1, <1>4, <2>1 DEF OpeningIsAnswered
  <2>4. ~awaiting => latest >= since /\ \A i \in 1 .. Len(new) : new[i].seen >= since
    BY <1>1, <1>4, <2>1 DEF OpeningIsAnswered
  <2> QED BY <2>2, <2>3, <2>4 DEF OpeningIsAnswered
<1>9. ShownIsFresh' /\ RoomToOpen'
  BY <1>1 DEF ShownIsFresh, RoomToOpen, OnLive
<1>10. ASSUME NEW p \in Pages, Awaits(p, requests, responses),
              ~\E i \in 1 .. d : requests[i].page = p /\ requests[i].kind \in Asking
       PROVE  Awaits(p, requests, responses)'
  <2>1. CASE \E i \in 1 .. Len(requests) : requests[i].page = p /\ requests[i].kind \in Asking
    <3>1. PICK i \in 1 .. Len(requests) : requests[i].page = p /\ requests[i].kind \in Asking
      BY <2>1
    <3>2. i \notin 1 .. d  BY <1>10, <3>1
    <3>3. i - d \in 1 .. Len(rest) /\ (i - d) + d = i  BY <1>2, <3>1, <3>2
    <3>4. rest[i - d] = requests[i]  BY <3>3
    <3> QED BY <3>1, <3>3, <3>4 DEF Awaits
  <2>2. CASE \E i \in 1 .. n : responses[i].page = p /\ responses[i].kind \in Answering
    <3>1. \A i \in 1 .. n : i \in 1 .. Len(new)  BY <1>2
    <3> QED BY <2>2, <3>1 DEF Awaits
  <2> QED BY <1>10, <2>1, <2>2 DEF Awaits
<1> QED BY <1>6, <1>7, <1>8, <1>9, <1>10

\* One request is answered by one response: its poll, its check, or what clears its flag.
LEMMA ReplyIsSound ==
  ASSUME DesktopInv, Take, NEW r \in Response, responses' = Append(responses, r),
         NEW m \in Request, m = Head(requests), r.page = m.page, r.seen = world',
         r.kind \in {"snapshot", "bare", "error", "check", "complete"} => r.page = Settings,
         m.kind \in Asking => r.kind \in Answering,
         r.kind = "poll" => m.kind = "poll" /\ r.gen = m.gen,
         r.kind = "check" => m.kind = "check" /\ started' = FALSE,
         m.kind # "command" => (started' => started),
         world' \in 0 .. MaxWorld, world <= world', active' \in BOOLEAN, started' \in BOOLEAN,
         UNCHANGED <<worker, flags, loaded, user, live, ending>>
  PROVE  DesktopInv'
<1> USE DEF flags, ending
<1>1. DesktopTypeOK /\ StartIsAwaited /\ FlagsAreAwaited /\ PollsAreOnce(requests, responses, polling)
      /\ OpeningIsAnswered /\ CheckIsLast /\ ExitEndsNoNewWork
  BY DEF DesktopInv
<1>2. PICK rest, new, n : rest = Tail(requests) /\ new = Append(responses, r) /\ n = Len(responses)
  OBVIOUS
<1>3. /\ rest \in Seq(Request) /\ Len(requests) >= 1 /\ Len(rest) = Len(requests) - 1
      /\ m = requests[1] /\ \A i \in 1 .. Len(rest) : rest[i] = requests[i + 1]
  BY <1>1, <1>2, Taken DEF Take, DesktopTypeOK
<1>4. n \in Nat /\ Len(requests) \in Nat  BY <1>1, <1>2, ChannelsAreTyped
<1>5. /\ new \in Seq(Response) /\ Len(new) = n + 1 /\ new[n + 1] = r
      /\ \A i \in 1 .. n : new[i] = responses[i]
  BY <1>1, <1>2, Appended DEF DesktopTypeOK
<1>6. requests' = rest /\ responses' = new  BY <1>2 DEF Take
<1>7. 1 \in 1 .. Len(requests)  BY <1>3, <1>4
<1>8. /\ MessagesFitTheirPages' /\ AnswersAreInOrder' /\ OpeningIsAnswered' /\ ShownIsFresh'
      /\ RoomToOpen'
      /\ \A p \in Pages : Awaits(p, requests, responses) =>
           \/ Awaits(p, requests, responses)'
           \/ \E i \in 1 .. 1 : requests[i].page = p /\ requests[i].kind \in Asking
  <2>1. \A i \in (n + 1) .. Len(new) : i = n + 1  BY <1>4, <1>5
  <2>2. r.kind = "poll" => r.gen <= generation
    BY <1>1, <1>3, <1>7 DEF OpeningIsAnswered
  <2>3. Len(new) >= n /\ world' \in Nat /\ 1 \in Nat  BY <1>4, <1>5, Bounds
  <2>4. \A i \in (n + 1) .. Len(new) :
          /\ new[i].seen = world'
          /\ new[i].kind \in {"snapshot", "bare", "error", "check", "complete"} => new[i].page = Settings
          /\ new[i].kind = "poll" => new[i].gen <= generation
    BY <1>5, <2>1, <2>2
  <2>5. PICK d \in Nat : d = 1  OBVIOUS
  <2>6. Len(rest) = Len(requests) - d /\ \A i \in 1 .. Len(rest) : rest[i] = requests[i + d]
    BY <1>3, <2>5
  <2>7. Len(new) >= n /\ (\A i \in 1 .. n : new[i] = responses[i]) /\ world' \in Nat
        /\ n = Len(responses) /\ UNCHANGED <<user, live>> /\ world <= world'
    BY <1>2, <1>5, <2>3
  <2>8. /\ MessagesFitTheirPages' /\ AnswersAreInOrder' /\ OpeningIsAnswered' /\ ShownIsFresh'
        /\ RoomToOpen'
        /\ \A p \in Pages : Awaits(p, requests, responses) =>
             \/ Awaits(p, requests, responses)'
             \/ \E i \in 1 .. d : requests[i].page = p /\ requests[i].kind \in Asking
    BY <1>3, <1>4, <1>5, <1>6, <2>4, <2>6, <2>7, WorkKeeps
  <2> QED BY <2>5, <2>8
<1>9. DesktopTypeOK'
  BY <1>1, <1>3, <1>5, <1>6 DEF DesktopTypeOK, user, live
<1>10. StartIsAwaited'  BY DEF StartIsAwaited, Take
<1>11. FlagsAreAwaited'
  <2> SUFFICES ASSUME NEW p \in busy PROVE Awaits(p, requests, responses)'
    BY DEF FlagsAreAwaited
  <2>1. p \in Pages /\ Awaits(p, requests, responses)
    BY <1>1 DEF FlagsAreAwaited, DesktopTypeOK, Take
  <2>2. CASE \E i \in 1 .. 1 : requests[i].page = p /\ requests[i].kind \in Asking
    <3>1. r.page = p /\ r.kind \in Answering  BY <1>3, <2>2
    <3>2. n + 1 \in 1 .. Len(new)  BY <1>4, <1>5
    <3> QED BY <1>5, <1>6, <3>1, <3>2 DEF Awaits
  <2> QED BY <1>8, <2>1, <2>2
<1>12. PollsAreOnce(requests, responses, polling)'
  <2> SUFFICES ASSUME NEW p \in Pages PROVE
        /\ \A i, j \in 1 .. Len(requests') : PollOf(requests'[i], p) /\ PollOf(requests'[j], p) => i = j
        /\ \A i, j \in 1 .. Len(responses') :
             PollOf(responses'[i], p) /\ PollOf(responses'[j], p) => i = j
        /\ \A i \in 1 .. Len(requests'), j \in 1 .. Len(responses') :
             ~(PollOf(requests'[i], p) /\ PollOf(responses'[j], p))
        /\ \A i \in 1 .. Len(requests') : PollOf(requests'[i], p) => p \in polling'
        /\ \A i \in 1 .. Len(responses') : PollOf(responses'[i], p) => p \in polling'
    BY DEF PollsAreOnce
  <2>1. /\ \A i, j \in 1 .. Len(requests) : PollOf(requests[i], p) /\ PollOf(requests[j], p) => i = j
        /\ \A i, j \in 1 .. n : PollOf(responses[i], p) /\ PollOf(responses[j], p) => i = j
        /\ \A i \in 1 .. Len(requests), j \in 1 .. n :
             ~(PollOf(requests[i], p) /\ PollOf(responses[j], p))
        /\ \A i \in 1 .. Len(requests) : PollOf(requests[i], p) => p \in polling
        /\ \A i \in 1 .. n : PollOf(responses[i], p) => p \in polling
    BY <1>1, <1>2 DEF PollsAreOnce
  <2>2. \A i \in 1 .. Len(rest) : i + 1 \in 1 .. Len(requests) /\ i + 1 # 1 /\ rest[i] = requests[i + 1]
    BY <1>3, <1>4
  <2>3. \A i \in 1 .. Len(new) : i \in 1 .. n \/ (i = n + 1 /\ new[i] = r)
    BY <1>4, <1>5
  <2>4. PollOf(r, p) => PollOf(requests[1], p)  BY <1>3 DEF PollOf
  <2>5. \A i, j \in 1 .. Len(rest) : PollOf(rest[i], p) /\ PollOf(rest[j], p) => i = j
    BY <2>1, <2>2
  <2>6. \A i, j \in 1 .. Len(new) : PollOf(new[i], p) /\ PollOf(new[j], p) => i = j
    BY <1>5, <1>7, <2>1, <2>3, <2>4
  <2>7. \A i \in 1 .. Len(rest), j \in 1 .. Len(new) : ~(PollOf(rest[i], p) /\ PollOf(new[j], p))
    BY <1>5, <1>7, <2>1, <2>2, <2>3, <2>4
  <2>8. /\ \A i \in 1 .. Len(rest) : PollOf(rest[i], p) => p \in polling
        /\ \A i \in 1 .. Len(new) : PollOf(new[i], p) => p \in polling
    BY <1>5, <1>7, <2>1, <2>2, <2>3, <2>4
  <2> QED BY <1>6, <2>5, <2>6, <2>7, <2>8
<1>13. CheckIsLast'
  <2>1. exit \in {"no", "asked"}  BY <1>1 DEF Take, Stopping, Stopped, DesktopTypeOK
  <2>2. \A i \in 1 .. Len(rest) : i + 1 \in 1 .. Len(requests) /\ i + 1 # 1 /\ rest[i] = requests[i + 1]
    BY <1>3, <1>4
  <2>3. \A i \in 1 .. Len(new) : (i \in 1 .. n /\ new[i] = responses[i]) \/ (i = n + 1 /\ new[i] = r)
    BY <1>4, <1>5
  <2>4. CASE exit = "no"
    BY <1>1, <1>2, <1>3, <1>6, <1>7, <2>2, <2>3, <2>4 DEF CheckIsLast
  <2>5. CASE exit = "asked"
    <3>1. /\ \A i, j \in 1 .. Len(requests) :
               requests[i].kind = "check" =>
                 (requests[j].kind = "check" => i = j) /\ (requests[j].kind = "command" => j < i)
          /\ \A i, j \in 1 .. n :
               responses[i].kind = "check" /\ responses[j].kind = "check" => i = j
          /\ (\E i \in 1 .. n : responses[i].kind = "check") =>
               /\ ~started
               /\ \A i \in 1 .. Len(requests) : requests[i].kind \notin {"check", "command"}
      BY <1>1, <1>2, <2>5 DEF CheckIsLast
    <3>2. \A i, j \in 1 .. Len(rest) :
            rest[i].kind = "check" =>
              (rest[j].kind = "check" => i = j) /\ (rest[j].kind = "command" => j < i)
      <4>1. ASSUME NEW i \in 1 .. Len(rest), NEW j \in 1 .. Len(rest),
                   rest[i].kind = "check", rest[j].kind = "command"
            PROVE  j < i
        <5>1. j + 1 < i + 1  BY <2>2, <3>1, <4>1
        <5> QED BY <5>1
      <4>2. ASSUME NEW i \in 1 .. Len(rest), NEW j \in 1 .. Len(rest),
                   rest[i].kind = "check", rest[j].kind = "check"
            PROVE  i = j
        <5>1. j + 1 = i + 1  BY <2>2, <3>1, <4>2
        <5> QED BY <5>1
      <4> QED BY <4>1, <4>2
    <3>3. r.kind = "check" =>
            /\ started' = FALSE
            /\ \A i \in 1 .. n : responses[i].kind # "check"
            /\ \A i \in 1 .. Len(rest) : rest[i].kind \notin {"check", "command"}
      <4> SUFFICES ASSUME r.kind = "check" PROVE
            /\ \A i \in 1 .. n : responses[i].kind # "check"
            /\ \A i \in 1 .. Len(rest) : rest[i].kind \notin {"check", "command"}
        OBVIOUS
      <4>1. requests[1].kind = "check"  BY <1>3
      <4>2. \A i \in 1 .. n : responses[i].kind # "check"  BY <1>7, <3>1, <4>1
      <4>3. \A i \in 1 .. Len(requests) : i # 1 => requests[i].kind \notin {"check", "command"}
        BY <1>4, <1>7, <3>1, <4>1
      <4> QED BY <2>2, <4>2, <4>3
    <3>4. \A i, j \in 1 .. Len(new) : new[i].kind = "check" /\ new[j].kind = "check" => i = j
      BY <2>3, <3>1, <3>3
    <3>5. (\E i \in 1 .. Len(new) : new[i].kind = "check") =>
            /\ ~started'
            /\ \A i \in 1 .. Len(rest) : rest[i].kind \notin {"check", "command"}
      <4>1. CASE r.kind = "check"  BY <3>3, <4>1
      <4>2. CASE \E i \in 1 .. n : responses[i].kind = "check"
        BY <1>3, <1>7, <2>2, <3>1, <4>2
      <4> QED BY <2>3, <4>1, <4>2
    <3> QED BY <1>6, <2>5, <3>2, <3>4, <3>5 DEF CheckIsLast
  <2> QED BY <2>1, <2>4, <2>5
<1>14. ExitEndsNoNewWork'
  BY DEF ExitEndsNoNewWork, Take, Stopping, Stopped
<1> QED BY <1>8, <1>9, <1>10, <1>11, <1>12, <1>13, <1>14 DEF DesktopInv
\* A command that changes the runtime, or fails.
LEMMA CommandIsSound ==
  ASSUME DesktopInv, Take, Command(Head(requests)),
         UNCHANGED <<worker, flags, loaded, user, live, ending>>
  PROVE  DesktopInv'
<1>1. DesktopTypeOK  BY DEF DesktopInv
<1>2. PICK m : m = Head(requests)  OBVIOUS
<1>3. m \in Request /\ m.kind = "command"
  <2>1. requests \in Seq(Request) /\ requests # << >>  BY <1>1 DEF DesktopTypeOK, Take
  <2>2. Len(requests) \in Nat /\ Len(requests) >= 1 /\ m = requests[1]
    BY <1>2, <2>1, Taken, Lengths
  <2>3. m.kind = "command"  BY <1>2 DEF Command
  <2> QED BY <2>1, <2>2, <2>3, Lengths
<1>4. /\ m.page \in Pages /\ world \in 0 .. MaxWorld /\ active \in BOOLEAN /\ started \in BOOLEAN
  BY <1>1, <1>3 DEF Request, DesktopTypeOK
<1>5. CASE /\ world' = (IF world < MaxWorld THEN world + 1 ELSE world)
           /\ active' \in BOOLEAN
           /\ started' = (started \/ (active' /\ ~active))
           /\ responses' = Append(responses, Res(m.page, "answer", 0))
  <2>1. world' \in 0 .. MaxWorld /\ world <= world'  BY <1>4, <1>5, Bounds
  <2>2. started' \in BOOLEAN  BY <1>4, <1>5
  <2>3. PICK r : r = Res(m.page, "answer", 0)  OBVIOUS
  <2>4. /\ r \in Response /\ r.page = m.page /\ r.kind = "answer" /\ r.seen = world'
    BY <1>4, <1>5, <2>1, <2>3, Bounds DEF Res, Response
  <2> QED BY <1>2, <1>3, <1>5, <2>1, <2>2, <2>3, <2>4, ReplyIsSound DEF Answering, Asking
<1>6. CASE /\ UNCHANGED <<world, active, started>>
           /\ responses' = Append(responses,
                Res(m.page, IF m.page = Settings THEN "error" ELSE "failed", 0))
  <2>1. PICK r : r = Res(m.page, IF m.page = Settings THEN "error" ELSE "failed", 0)  OBVIOUS
  <2>2. /\ r \in Response /\ r.page = m.page /\ r.kind \in {"error", "failed"} /\ r.seen = world'
        /\ r.kind = "error" => r.page = Settings
    BY <1>4, <1>6, <2>1, Bounds DEF Res, Response
  <2>3. world' \in 0 .. MaxWorld /\ world <= world' /\ active' \in BOOLEAN /\ started' \in BOOLEAN
    BY <1>4, <1>6, Bounds
  <2> QED BY <1>2, <1>3, <1>6, <2>1, <2>2, <2>3, ReplyIsSound DEF Answering, Asking
<1> QED BY <1>2, <1>5, <1>6 DEF Command

\* A poll, Refresh or the exit check.
LEMMA LookIsSound ==
  ASSUME DesktopInv, Take, Look(Head(requests)),
         UNCHANGED <<worker, flags, loaded, user, live, ending>>
  PROVE  DesktopInv'
<1>1. DesktopTypeOK  BY DEF DesktopInv
<1>2. PICK m : m = Head(requests)  OBVIOUS
<1>3. /\ m \in Request /\ m.kind \in {"poll", "refresh", "check"}
      /\ m.kind \in {"refresh", "check"} => m.page = Settings
  <2>1. requests \in Seq(Request) /\ requests # << >>  BY <1>1 DEF DesktopTypeOK, Take
  <2>2. Len(requests) \in Nat /\ Len(requests) >= 1 /\ m = requests[1]
    BY <1>2, <2>1, Taken, Lengths
  <2>3. m.kind \in {"poll", "refresh", "check"}  BY <1>2 DEF Look
  <2>4. 1 \in 1 .. Len(requests)  BY <2>2
  <2> QED BY <2>1, <2>2, <2>3, <2>4, Lengths DEF DesktopInv, MessagesFitTheirPages
<1>4. /\ m.page \in Pages /\ m.gen \in 0 .. MaxOpenings
      /\ world \in 0 .. MaxWorld /\ active \in BOOLEAN /\ started \in BOOLEAN
  BY <1>1, <1>3 DEF Request, DesktopTypeOK
<1>5. UNCHANGED <<world, active>> /\ started' = (started /\ m.kind # "check")
  BY <1>2 DEF Look
<1>6. PICK r : r = Res(m.page, IF m.kind = "refresh" THEN "bare" ELSE m.kind, m.gen)  OBVIOUS
<1>7. responses' = Append(responses, r)  BY <1>2, <1>6 DEF Look
<1>8. /\ r \in Response /\ r.page = m.page /\ r.gen = m.gen /\ r.seen = world'
      /\ r.kind = IF m.kind = "refresh" THEN "bare" ELSE m.kind
  BY <1>3, <1>4, <1>5, <1>6 DEF Res, Response
<1>9. started' \in BOOLEAN /\ (started' => started) /\ (m.kind = "check" => started' = FALSE)
  BY <1>4, <1>5
<1>10. world' \in 0 .. MaxWorld /\ world <= world' /\ active' \in BOOLEAN
  BY <1>4, <1>5, Bounds
<1>11. /\ r.kind \in {"snapshot", "bare", "error", "check", "complete"} => r.page = Settings
       /\ m.kind \in Asking => r.kind \in Answering
       /\ r.kind = "poll" => m.kind = "poll" /\ r.gen = m.gen
       /\ r.kind = "check" => m.kind = "check" /\ started' = FALSE
  BY <1>3, <1>8, <1>9 DEF Asking, Answering
<1> QED BY <1>2, <1>3, <1>7, <1>8, <1>9, <1>10, <1>11, ReplyIsSound

\* The settings and a list of answers are responded, which hold nothing but these.
LEMMA ManyReplies ==
  ASSUME DesktopInv, NEW rest \in Seq(Request), requests' = rest, NEW d \in 0 .. 1,
         Len(rest) = Len(requests) - d, \A i \in 1 .. Len(rest) : rest[i] = requests[i + d],
         d = 1 => requests[1].kind = "restore" /\ requests[1].page = Maintenance,
         NEW S \in SUBSET Pages, d = 1 => Maintenance \in S, d = 0 => Pages = S \cup {Settings},
         responses' = responses \o <<Res(Settings, "snapshot", 0)>> \o Answers(S),
         worker \in {"opens", "runs"}, worker = "opens" => d = 0,
         worker' = "runs", UNCHANGED <<world, active, started, flags, loaded, user, live, ending>>
  PROVE  DesktopInv'
<1> USE DEF flags, ending
<1>1. DesktopTypeOK /\ StartIsAwaited /\ FlagsAreAwaited /\ PollsAreOnce(requests, responses, polling)
      /\ CheckIsLast /\ ExitEndsNoNewWork
  BY DEF DesktopInv
<1>2. PICK all, r, new, n : all = Answers(S) /\ r = Res(Settings, "snapshot", 0)
                              /\ new = (responses \o <<r>>) \o all /\ n = Len(responses)
  OBVIOUS
<1>3. world' \in 0 .. MaxWorld /\ world <= world' /\ world' \in Nat /\ active' \in BOOLEAN
  BY <1>1, Bounds DEF DesktopTypeOK
<1>4. /\ all \in Seq(Response)
      /\ \A i \in 1 .. Len(all) :
           all[i].page \in S /\ all[i].kind = "answer" /\ all[i].seen = world'
      /\ \A p \in S : \E i \in 1 .. Len(all) : all[i].page = p
  <2>1. PICK order, m, seen, work : /\ order = SetToSeq(S) /\ m = Cardinality(S)
                                    /\ seen = world' /\ work = active'
    OBVIOUS
  <2>2. IsFiniteSet(S) /\ m \in Nat  BY <2>1, PagesAreFinite, FS_CardinalityType
  <2>3. order \in [1 .. m -> S] /\ \A p \in S : \E i \in 1 .. m : order[i] = p
    <3>1. /\ SetToSeq(S) \in [1 .. Cardinality(S) -> S]
          /\ \A p \in S : \E i \in 1 .. Cardinality(S) : SetToSeq(S)[i] = p
      BY <2>2, OneOfEach
    <3> QED BY <2>1, <3>1
  <2> DEFINE answer(p) == [page |-> p, kind |-> "answer", gen |-> 0, seen |-> seen, work |-> work]
  <2>4. all = [i \in 1 .. m |-> answer(order[i])]
    BY <1>2, <2>1, <2>3 DEF Answers, Res
  <2>5. \A i \in 1 .. m : answer(order[i]) \in Response
    BY <1>3, <2>1, <2>3, Bounds DEF Response
  <2>6. all \in Seq(Response) /\ Len(all) = m
    BY <2>2, <2>4, <2>5
  <2>7. ASSUME NEW i \in 1 .. m
        PROVE  all[i].page = order[i] /\ all[i].kind = "answer" /\ all[i].seen = seen
    <3>1. PICK p, a : p = order[i] /\ a = answer(p)  OBVIOUS
    <3>2. all[i] = a  BY <2>4, <3>1
    <3> QED BY <3>1, <3>2
  <2>8. ASSUME NEW i \in 1 .. Len(all)
        PROVE  all[i].page \in S /\ all[i].kind = "answer" /\ all[i].seen = world'
    <3>1. i \in 1 .. m /\ order[i] \in S  BY <2>3, <2>6
    <3> QED BY <2>1, <2>7, <3>1
  <2>9. ASSUME NEW p \in S PROVE \E i \in 1 .. Len(all) : all[i].page = p
    <3>1. PICK i \in 1 .. m : order[i] = p  BY <2>3
    <3>2. all[i].page = p  BY <2>7, <3>1
    <3> QED BY <2>6, <3>1, <3>2
  <2> QED BY <2>6, <2>8, <2>9
<1>5. r \in Response /\ r.page = Settings /\ r.kind = "snapshot" /\ r.seen = world'
  BY <1>2, <1>3, Bounds DEF Res, Response, Pages
<1>6. /\ new \in Seq(Response) /\ Len(new) = n + 1 + Len(all) /\ new[n + 1] = r
      /\ \A i \in 1 .. n : new[i] = responses[i]
      /\ \A i \in 1 .. Len(all) : new[n + 1 + i] = all[i]
  BY <1>1, <1>2, <1>4, <1>5, Joined DEF DesktopTypeOK
<1>7. n \in Nat /\ Len(all) \in Nat /\ Len(requests) \in Nat /\ Len(rest) \in Nat
  BY <1>1, <1>2, <1>4, ChannelsAreTyped, Lengths
<1>8. responses' = new  BY <1>2
<1>9. \A i \in (n + 1) .. Len(new) :
        /\ new[i].seen = world'
        /\ new[i].kind = "answer" \/ (new[i].kind = "snapshot" /\ new[i].page = Settings)
  <2> SUFFICES ASSUME NEW i \in (n + 1) .. Len(new) PROVE
        /\ new[i].seen = world'
        /\ new[i].kind = "answer" \/ (new[i].kind = "snapshot" /\ new[i].page = Settings)
    OBVIOUS
  <2>1. CASE i = n + 1  BY <1>5, <1>6, <2>1
  <2>2. CASE i # n + 1
    <3>1. i - (n + 1) \in 1 .. Len(all) /\ n + 1 + (i - (n + 1)) = i  BY <1>6, <1>7, <2>2
    <3>2. new[i] = all[i - (n + 1)]  BY <1>6, <3>1
    <3> QED BY <1>4, <3>1, <3>2
  <2> QED BY <2>1, <2>2
<1>10. /\ MessagesFitTheirPages' /\ AnswersAreInOrder' /\ OpeningIsAnswered' /\ ShownIsFresh'
       /\ RoomToOpen'
       /\ \A p \in Pages : Awaits(p, requests, responses) =>
            \/ Awaits(p, requests, responses)'
            \/ \E i \in 1 .. d : requests[i].page = p /\ requests[i].kind \in Asking
  <2>1. \A i \in (n + 1) .. Len(new) :
          /\ new[i].seen = world'
          /\ new[i].kind \in {"snapshot", "bare", "error", "check", "complete"} => new[i].page = Settings
          /\ new[i].kind = "poll" => new[i].gen <= generation
    BY <1>9
  <2>2. Len(new) >= n /\ n = Len(responses) /\ d \in Nat /\ UNCHANGED <<user, live>>
    BY <1>2, <1>6, <1>7
  <2> QED BY <1>3, <1>6, <1>7, <1>8, <2>1, <2>2, WorkKeeps
<1>11. DesktopTypeOK'
  BY <1>1, <1>3, <1>6, <1>8 DEF DesktopTypeOK, user, live
<1>12. StartIsAwaited'  BY DEF StartIsAwaited
<1>13. ASSUME NEW p \in S \cup {Settings} PROVE Awaits(p, requests, responses)'
  <2>1. CASE p = Settings
    <3>1. n + 1 \in 1 .. Len(new)  BY <1>6, <1>7
    <3> QED BY <1>5, <1>6, <1>8, <2>1, <3>1 DEF Awaits, Answering
  <2>2. CASE p \in S
    <3>1. PICK i \in 1 .. Len(all) : all[i].page = p /\ all[i].kind = "answer"
      BY <1>4, <2>2
    <3>2. n + 1 + i \in 1 .. Len(new) /\ new[n + 1 + i] = all[i]  BY <1>6, <1>7, <3>1
    <3> QED BY <1>8, <3>1, <3>2 DEF Awaits, Answering
  <2> QED BY <2>1, <2>2
<1>14. FlagsAreAwaited'
  <2> SUFFICES ASSUME NEW p \in busy PROVE Awaits(p, requests, responses)'
    BY DEF FlagsAreAwaited
  <2>1. p \in Pages  BY <1>1 DEF DesktopTypeOK
  <2>2. CASE d = 0
    BY <1>13, <2>1, <2>2
  <2>3. CASE d = 1
    <3>1. Awaits(p, requests, responses)  BY <1>1, <2>3 DEF FlagsAreAwaited
    <3>2. CASE \E i \in 1 .. d : requests[i].page = p /\ requests[i].kind \in Asking
      <4>1. p = Maintenance  BY <2>3, <3>2
      <4> QED BY <1>13, <2>3, <4>1
    <3> QED BY <1>10, <2>1, <3>1, <3>2
  <2> QED BY <2>2, <2>3
<1>15. \A i \in 1 .. Len(rest) : i + d \in 1 .. Len(requests) /\ rest[i] = requests[i + d]
  BY <1>7
<1>16. \A i \in 1 .. Len(new) :
         (i \in 1 .. n /\ new[i] = responses[i]) \/ new[i].kind \in {"answer", "snapshot"}
  BY <1>6, <1>7, <1>9
<1>17. PollsAreOnce(requests, responses, polling)'
  <2> SUFFICES ASSUME NEW p \in Pages PROVE
        /\ \A i, j \in 1 .. Len(requests') : PollOf(requests'[i], p) /\ PollOf(requests'[j], p) => i = j
        /\ \A i, j \in 1 .. Len(responses') :
             PollOf(responses'[i], p) /\ PollOf(responses'[j], p) => i = j
        /\ \A i \in 1 .. Len(requests'), j \in 1 .. Len(responses') :
             ~(PollOf(requests'[i], p) /\ PollOf(responses'[j], p))
        /\ \A i \in 1 .. Len(requests') : PollOf(requests'[i], p) => p \in polling'
        /\ \A i \in 1 .. Len(responses') : PollOf(responses'[i], p) => p \in polling'
    BY DEF PollsAreOnce
  <2>1. /\ \A i, j \in 1 .. Len(requests) : PollOf(requests[i], p) /\ PollOf(requests[j], p) => i = j
        /\ \A i, j \in 1 .. n : PollOf(responses[i], p) /\ PollOf(responses[j], p) => i = j
        /\ \A i \in 1 .. Len(requests), j \in 1 .. n :
             ~(PollOf(requests[i], p) /\ PollOf(responses[j], p))
        /\ \A i \in 1 .. Len(requests) : PollOf(requests[i], p) => p \in polling
        /\ \A i \in 1 .. n : PollOf(responses[i], p) => p \in polling
    BY <1>1, <1>2 DEF PollsAreOnce
  <2>2. \A i \in 1 .. Len(new) : PollOf(new[i], p) => i \in 1 .. n /\ new[i] = responses[i]
    BY <1>16 DEF PollOf
  <2>3. ASSUME NEW i \in 1 .. Len(rest), NEW j \in 1 .. Len(rest),
               PollOf(rest[i], p), PollOf(rest[j], p)
        PROVE  i = j
    <3>1. i + d = j + d  BY <1>15, <2>1, <2>3
    <3> QED BY <3>1
  <2>4. \A i, j \in 1 .. Len(new) : PollOf(new[i], p) /\ PollOf(new[j], p) => i = j
    BY <2>1, <2>2
  <2>5. /\ \A i \in 1 .. Len(rest), j \in 1 .. Len(new) : ~(PollOf(rest[i], p) /\ PollOf(new[j], p))
        /\ \A i \in 1 .. Len(rest) : PollOf(rest[i], p) => p \in polling
        /\ \A i \in 1 .. Len(new) : PollOf(new[i], p) => p \in polling
    BY <1>15, <2>1, <2>2
  <2> QED BY <1>8, <2>3, <2>4, <2>5
<1>18. CheckIsLast'
  <2>1. exit \in {"no", "asked", "stops", "done"}  BY <1>1 DEF DesktopTypeOK
  <2>2. \A i \in 1 .. Len(new) : new[i].kind = "check" => i \in 1 .. n /\ new[i] = responses[i]
    BY <1>16
  <2>3. CASE exit \in {"no", "stops"}
    BY <1>1, <1>2, <1>8, <1>15, <2>2, <2>3 DEF CheckIsLast
  <2>4. CASE exit = "asked"
    <3>1. /\ \A i, j \in 1 .. Len(requests) :
               requests[i].kind = "check" =>
                 (requests[j].kind = "check" => i = j) /\ (requests[j].kind = "command" => j < i)
          /\ \A i, j \in 1 .. n :
               responses[i].kind = "check" /\ responses[j].kind = "check" => i = j
          /\ (\E i \in 1 .. n : responses[i].kind = "check") =>
               /\ ~started
               /\ \A i \in 1 .. Len(requests) : requests[i].kind \notin {"check", "command"}
      BY <1>1, <1>2, <2>4 DEF CheckIsLast
    <3>2. ASSUME NEW i \in 1 .. Len(rest), NEW j \in 1 .. Len(rest), rest[i].kind = "check"
          PROVE  (rest[j].kind = "check" => i = j) /\ (rest[j].kind = "command" => j < i)
      <4>1. (rest[j].kind = "check" => i + d = j + d) /\ (rest[j].kind = "command" => j + d < i + d)
        BY <1>15, <3>1, <3>2
      <4> QED BY <4>1
    <3>3. \A i, j \in 1 .. Len(new) : new[i].kind = "check" /\ new[j].kind = "check" => i = j
      BY <2>2, <3>1
    <3>4. (\E i \in 1 .. Len(new) : new[i].kind = "check") =>
            ~started /\ \A i \in 1 .. Len(rest) : rest[i].kind \notin {"check", "command"}
      BY <1>15, <2>2, <3>1
    <3> QED BY <1>8, <2>4, <3>2, <3>3, <3>4 DEF CheckIsLast
  <2>5. CASE exit = "done"  BY <2>5 DEF CheckIsLast
  <2> QED BY <2>1, <2>3, <2>4, <2>5
<1>19. ExitEndsNoNewWork'  BY <1>1 DEF ExitEndsNoNewWork
<1> QED BY <1>10, <1>11, <1>12, <1>14, <1>17, <1>18, <1>19 DEF DesktopInv

\* The core opens: every page is answered unasked.
LEMMA OpenIsSound == DesktopInv /\ Open => DesktopInv'
<1> SUFFICES ASSUME DesktopInv, Open PROVE DesktopInv'  OBVIOUS
<1>1. requests \in Seq(Request) /\ requests' = requests  BY DEF DesktopInv, DesktopTypeOK, Open
<1>2. Len(requests) \in Nat  BY <1>1, Lengths
<1>3. PICK d \in 0 .. 1 : d = 0  OBVIOUS
<1>4. Len(requests) = Len(requests) - d /\ \A i \in 1 .. Len(requests) : requests[i] = requests[i + d]
  BY <1>2, <1>3
<1>5. PICK S : S = Pages \ {Settings}  OBVIOUS
<1>6. S \in SUBSET Pages /\ Pages = S \cup {Settings}  BY <1>5 DEF Pages
<1>7. /\ responses' = responses \o <<Res(Settings, "snapshot", 0)>> \o Answers(S)
      /\ worker = "opens" /\ worker' = "runs"
      /\ UNCHANGED <<world, active, started, flags, loaded, user, live, ending>>
  BY <1>5 DEF Open
<1>8. /\ d = 1 => requests[1].kind = "restore" /\ requests[1].page = Maintenance
      /\ d = 1 => Maintenance \in S
      /\ d = 0 => Pages = S \cup {Settings}
      /\ worker = "opens" => d = 0
      /\ worker \in {"opens", "runs"}
  BY <1>3, <1>6, <1>7
<1> QED BY <1>1, <1>4, <1>6, <1>7, <1>8, ManyReplies

\* A database is restored.
LEMMA RestoreIsSound ==
  ASSUME DesktopInv, Take, Restore(Head(requests)),
         UNCHANGED <<worker, flags, loaded, user, live, ending>>
  PROVE  DesktopInv'
<1>1. requests \in Seq(Request) /\ requests # << >> /\ worker = "runs"
  BY DEF DesktopInv, DesktopTypeOK, Take
<1>2. PICK rest : rest = Tail(requests)  OBVIOUS
<1>3. /\ rest \in Seq(Request) /\ Len(requests) >= 1 /\ Len(rest) = Len(requests) - 1
      /\ Head(requests) = requests[1] /\ \A i \in 1 .. Len(rest) : rest[i] = requests[i + 1]
  BY <1>1, <1>2, Taken
<1>4. Len(requests) \in Nat  BY <1>1, Lengths
<1>5. requests[1].kind = "restore" /\ requests[1].page = Maintenance
  <2>1. requests[1].kind = "restore"  BY <1>3 DEF Restore
  <2>2. 1 \in 1 .. Len(requests)  BY <1>3, <1>4
  <2> QED BY <2>1, <2>2 DEF DesktopInv, MessagesFitTheirPages
<1>6. PICK d \in 0 .. 1 : d = 1  OBVIOUS
<1>7. Len(rest) = Len(requests) - d /\ \A i \in 1 .. Len(rest) : rest[i] = requests[i + d]
  BY <1>3, <1>6
<1>8. Plain \in SUBSET Pages /\ Maintenance \in Plain  BY DesktopAssumption DEF Plain, Pages
<1>9. /\ requests' = rest
      /\ responses' = responses \o <<Res(Settings, "snapshot", 0)>> \o Answers(Plain)
      /\ UNCHANGED <<world, active, started>> /\ worker' = "runs"
  BY <1>1, <1>2 DEF Restore, Take
<1>10. PICK S : S = Plain  OBVIOUS
<1>11. /\ d = 1 => requests[1].kind = "restore" /\ requests[1].page = Maintenance
       /\ d = 1 => Maintenance \in S
       /\ d = 0 => Pages = S \cup {Settings}
       /\ worker = "opens" => d = 0
       /\ worker \in {"opens", "runs"} /\ S \in SUBSET Pages
       /\ responses' = responses \o <<Res(Settings, "snapshot", 0)>> \o Answers(S)
  BY <1>1, <1>5, <1>6, <1>8, <1>9, <1>10
<1> QED BY <1>3, <1>7, <1>9, <1>11, ManyReplies

\* The worker executes a request.
LEMMA ExecuteIsSound == DesktopInv /\ Execute => DesktopInv'
<1> SUFFICES ASSUME DesktopInv, Execute PROVE DesktopInv'  OBVIOUS
<1>1. /\ Take /\ UNCHANGED <<worker, flags, loaded, user, live, ending>>
      /\ Command(Head(requests)) \/ Look(Head(requests)) \/ Restore(Head(requests))
  BY DEF Execute
<1> QED BY <1>1, CommandIsSound, LookIsSound, RestoreIsSound
\* The core cannot be opened, or has been shut down: the thread ends with a last response.
LEMMA LastReply ==
  ASSUME DesktopInv, NEW kind \in {"bare", "complete"}, requests' = << >>,
         responses' = Append(responses, Res(Settings, kind, 0)), active' \in BOOLEAN,
         UNCHANGED <<world, started, flags, loaded, user, live, ending>>,
         \/ worker = "opens" /\ worker' = "failed" /\ kind = "bare"
         \/ worker = "runs" /\ worker' = "ended"
  PROVE  DesktopInv'
<1> USE DEF flags, ending
<1>1. DesktopTypeOK /\ StartIsAwaited /\ PollsAreOnce(requests, responses, polling)
      /\ CheckIsLast /\ ExitEndsNoNewWork
  BY DEF DesktopInv
<1>2. PICK rest, r, new, n, d : rest = << >> /\ r = Res(Settings, kind, 0) /\ new = Append(responses, r)
                                /\ n = Len(responses) /\ d = Len(requests)
  OBVIOUS
<1>3. world' \in 0 .. MaxWorld /\ world <= world' /\ world' \in Nat
  BY <1>1, Bounds DEF DesktopTypeOK
<1>4. r \in Response /\ r.page = Settings /\ r.kind = kind /\ r.seen = world'
  BY <1>2, <1>3, Bounds DEF Res, Response, Pages
<1>5. /\ new \in Seq(Response) /\ Len(new) = n + 1 /\ new[n + 1] = r
      /\ \A i \in 1 .. n : new[i] = responses[i]
  BY <1>1, <1>2, <1>4, Appended DEF DesktopTypeOK
<1>6. n \in Nat /\ d \in Nat  BY <1>1, <1>2, ChannelsAreTyped
<1>7. rest \in Seq(Request) /\ Len(rest) = 0 /\ requests' = rest /\ responses' = new
  BY <1>2
<1>8. /\ MessagesFitTheirPages' /\ AnswersAreInOrder' /\ OpeningIsAnswered' /\ ShownIsFresh'
      /\ RoomToOpen'
  <2>1. \A i \in (n + 1) .. Len(new) : new[i] = r  BY <1>5, <1>6
  <2>2. \A i \in (n + 1) .. Len(new) :
          /\ new[i].seen = world'
          /\ new[i].kind \in {"snapshot", "bare", "error", "check", "complete"} => new[i].page = Settings
          /\ new[i].kind = "poll" => new[i].gen <= generation
    BY <1>4, <2>1
  <2>3. Len(new) >= n /\ n = Len(responses) /\ UNCHANGED <<user, live>>
    BY <1>2, <1>5, <1>6
  <2>4. Len(rest) = Len(requests) - d /\ \A i \in 1 .. Len(rest) : rest[i] = requests[i + d]
    BY <1>2, <1>6, <1>7
  <2> QED BY <1>3, <1>5, <1>6, <1>7, <2>2, <2>3, <2>4, WorkKeeps
<1>9. DesktopTypeOK'
  BY <1>1, <1>3, <1>5, <1>7 DEF DesktopTypeOK, user, live
<1>10. StartIsAwaited'
  <2>1. CASE worker = "opens"
    <3>1. n = 0 /\ Live \notin loaded /\ latest = NoRows  BY <1>1, <1>2, <2>1 DEF StartIsAwaited
    <3>2. Len(new) = 1 /\ new[1] = r /\ r.kind = "bare" /\ worker' = "failed"
      BY <1>4, <1>5, <2>1, <3>1
    <3> QED BY <1>7, <3>1, <3>2 DEF StartIsAwaited, live
  <2>2. CASE worker = "runs"
    BY <2>2 DEF StartIsAwaited
  <2> QED BY <2>1, <2>2
<1>11. FlagsAreAwaited'
  BY <1>5, <1>6, <1>7 DEF FlagsAreAwaited
<1>12. \A i \in 1 .. Len(new) : (i \in 1 .. n /\ new[i] = responses[i]) \/ new[i].kind = kind
  BY <1>4, <1>5, <1>6
<1>13. PollsAreOnce(requests, responses, polling)'
  <2> SUFFICES ASSUME NEW p \in Pages PROVE
        /\ \A i, j \in 1 .. Len(requests') : PollOf(requests'[i], p) /\ PollOf(requests'[j], p) => i = j
        /\ \A i, j \in 1 .. Len(responses') :
             PollOf(responses'[i], p) /\ PollOf(responses'[j], p) => i = j
        /\ \A i \in 1 .. Len(requests'), j \in 1 .. Len(responses') :
             ~(PollOf(requests'[i], p) /\ PollOf(responses'[j], p))
        /\ \A i \in 1 .. Len(requests') : PollOf(requests'[i], p) => p \in polling'
        /\ \A i \in 1 .. Len(responses') : PollOf(responses'[i], p) => p \in polling'
    BY DEF PollsAreOnce
  <2>1. /\ \A i, j \in 1 .. n : PollOf(responses[i], p) /\ PollOf(responses[j], p) => i = j
        /\ \A i \in 1 .. n : PollOf(responses[i], p) => p \in polling
    BY <1>1, <1>2 DEF PollsAreOnce
  <2>2. \A i \in 1 .. Len(new) : PollOf(new[i], p) => i \in 1 .. n /\ new[i] = responses[i]
    BY <1>12 DEF PollOf
  <2> QED BY <1>7, <2>1, <2>2
<1>14. CheckIsLast'
  <2>1. \A i \in 1 .. Len(new) : new[i].kind = "check" => i \in 1 .. n /\ new[i] = responses[i]
    BY <1>12
  <2>2. 1 .. Len(rest) = {}  BY <1>7
  <2> QED BY <1>1, <1>2, <1>7, <2>1, <2>2 DEF CheckIsLast
<1>15. ExitEndsNoNewWork'  BY <1>1 DEF ExitEndsNoNewWork
<1> QED BY <1>8, <1>9, <1>10, <1>11, <1>13, <1>14, <1>15 DEF DesktopInv

\* The core cannot be opened.
LEMMA OpenFailsIsSound == DesktopInv /\ OpenFails => DesktopInv'
<1> SUFFICES ASSUME DesktopInv, OpenFails PROVE DesktopInv'  OBVIOUS
<1>1. active' \in BOOLEAN  BY DEF OpenFails, DesktopInv, DesktopTypeOK
<1> QED BY <1>1, LastReply DEF OpenFails

\* The runtime is shut down.
LEMMA EndIsSound == DesktopInv /\ End => DesktopInv'
<1> SUFFICES ASSUME DesktopInv, End PROVE DesktopInv'  OBVIOUS
<1>1. active' \in BOOLEAN  BY DEF End
<1> QED BY <1>1, LastReply DEF End

----------------------------------------------------------------------------
(* The invariant is inductive.                                             *)

\* It holds at first: every page waits for the worker.
LEMMA DesktopInit == Init => DesktopInv
<1> SUFFICES ASSUME Init PROVE DesktopInv  OBVIOUS
<1>1. requests = << >> /\ responses = << >> /\ Len(requests) = 0 /\ Len(responses) = 0
  BY DEF Init
<1>2. DesktopTypeOK
  <2>1. requests \in Seq(Request) /\ responses \in Seq(Response)  BY <1>1
  <2>2. {busy, polling, loaded} \subseteq SUBSET Pages /\ page \in Pages  BY DEF Init, Pages
  <2>3. /\ world \in 0 .. MaxWorld /\ generation \in 0 .. MaxOpenings /\ since \in 0 .. MaxWorld
        /\ latest \in 0 .. NoRows /\ shown \in 0 .. NoRows
    BY Bounds DEF Init
  <2>4. /\ active \in BOOLEAN /\ started \in BOOLEAN /\ visible \in BOOLEAN /\ open \in BOOLEAN
        /\ awaiting \in BOOLEAN /\ consent \in BOOLEAN
    BY DEF Init
  <2> QED BY <2>1, <2>2, <2>3, <2>4 DEF Init, DesktopTypeOK
<1>3. MessagesFitTheirPages /\ StartIsAwaited /\ FlagsAreAwaited
  BY <1>1 DEF Init, MessagesFitTheirPages, StartIsAwaited, FlagsAreAwaited
<1>4. PollsAreOnce(requests, responses, polling)
  BY <1>1 DEF PollsAreOnce
<1>5. AnswersAreInOrder /\ OpeningIsAnswered
  BY <1>1, Bounds DEF Init, AnswersAreInOrder, OpeningIsAnswered
<1>6. ShownIsFresh /\ CheckIsLast /\ ExitEndsNoNewWork /\ RoomToOpen
  BY <1>1, Bounds DEF Init, ShownIsFresh, CheckIsLast, ExitEndsNoNewWork, RoomToOpen
<1> QED BY <1>2, <1>3, <1>4, <1>5, <1>6 DEF DesktopInv

\* Every step keeps it.
LEMMA DesktopStep == DesktopInv /\ [Next]_vars => DesktopInv'
<1> SUFFICES ASSUME DesktopInv, [Next]_vars PROVE DesktopInv'  OBVIOUS
<1>1. CASE Open  BY <1>1, OpenIsSound
<1>2. CASE OpenFails  BY <1>2, OpenFailsIsSound
<1>3. CASE Execute  BY <1>3, ExecuteIsSound
<1>4. CASE End  BY <1>4, EndIsSound
<1>5. CASE Changes  BY <1>5, ChangesIsSound
<1>6. CASE \E p \in Pages, kind \in {"command", "refresh", "restore"} : Click(p, kind)
  BY <1>6, ClickIsSound
<1>7. CASE \E p \in Pages, v \in BOOLEAN : GoTo(p, v)  BY <1>7, GoToIsSound
<1>8. CASE AskExit  BY <1>8, AskExitIsSound
<1>9. CASE Quit  BY <1>9, QuitIsSound
<1>10. CASE SeeVisible  BY <1>10, SeeVisibleIsSound
<1>11. CASE \E p \in Pages : Poll(p)  BY <1>11, PollIsSound
<1>12. CASE TakeAnswer  BY <1>12, TakeAnswerIsSound
<1>13. CASE Show  BY <1>13, ShowIsSound
<1>14. CASE TakeSnapshot  BY <1>14, TakeSnapshotIsSound
<1>15. CASE TakeError  BY <1>15, TakeErrorIsSound
<1>16. CASE TakeCheck  BY <1>16, TakeCheckIsSound
<1>17. CASE SendShutdown  BY <1>17, SendShutdownIsSound
<1>18. CASE TakeComplete  BY <1>18, TakeCompleteIsSound
<1>19. CASE UNCHANGED vars
  <2> USE <1>19 DEF vars, queues, core, flags, user, live, ending
  <2>1. DesktopTypeOK'  BY DEF DesktopInv, DesktopTypeOK
  <2>2. MessagesFitTheirPages' /\ FlagsAreAwaited' /\ PollsAreOnce(requests, responses, polling)'
    BY DEF DesktopInv, MessagesFitTheirPages, FlagsAreAwaited, Awaits, PollsAreOnce, PollOf
  <2>3. StartIsAwaited' /\ CheckIsLast' /\ ExitEndsNoNewWork' /\ RoomToOpen' /\ ShownIsFresh'
    BY DEF DesktopInv, StartIsAwaited, CheckIsLast, ExitEndsNoNewWork, RoomToOpen, OnLive, ShownIsFresh
  <2>4. AnswersAreInOrder' /\ OpeningIsAnswered'
    BY DEF DesktopInv, AnswersAreInOrder, OpeningIsAnswered
  <2> QED BY <2>1, <2>2, <2>3, <2>4 DEF DesktopInv
<1> QED BY <1>1, <1>2, <1>3, <1>4, <1>5, <1>6, <1>7, <1>8, <1>9, <1>10, <1>11, <1>12, <1>13, <1>14,
           <1>15, <1>16, <1>17, <1>18, <1>19 DEF Next

\* It holds in every reachable state.
THEOREM DesktopIsSound == Spec => []DesktopInv
  BY DesktopInit, DesktopStep, PTL DEF Spec

----------------------------------------------------------------------------
(* From indices to numbers of messages.                                    *)

\* A message of a page and of some kinds is counted.
LEMMA OneIsCounted ==
  ASSUME NEW q, NEW T, q \in Seq(T), NEW p, NEW kinds, NEW i \in 1 .. Len(q),
         q[i].page = p, q[i].kind \in kinds
  PROVE  Kinds(p, q, kinds) \in Nat /\ Kinds(p, q, kinds) > 0
<1> DEFINE found == {j \in DOMAIN q : q[j].page = p /\ q[j].kind \in kinds}
<1>1. DOMAIN q = 1 .. Len(q) /\ Len(q) \in Nat  OBVIOUS
<1>2. IsFiniteSet(1 .. Len(q))  BY <1>1, FS_Interval
<1>3. IsFiniteSet(found)  BY <1>1, <1>2, FS_Subset
<1>4. i \in found  BY <1>1
<1>5. Cardinality(found) \in Nat /\ Cardinality(found) # 0
  BY <1>3, <1>4, FS_CardinalityType, FS_EmptySet
<1> QED BY <1>5 DEF Kinds

\* The numbers are natural.
LEMMA CountsAreNumbers ==
  ASSUME NEW q, NEW T, q \in Seq(T), NEW p, NEW kinds
  PROVE  Kinds(p, q, kinds) \in Nat
<1> DEFINE found == {j \in DOMAIN q : q[j].page = p /\ q[j].kind \in kinds}
<1>1. DOMAIN q = 1 .. Len(q) /\ Len(q) \in Nat  OBVIOUS
<1>2. IsFiniteSet(1 .. Len(q))  BY <1>1, FS_Interval
<1>3. IsFiniteSet(found)  BY <1>1, <1>2, FS_Subset
<1> QED BY <1>3, FS_CardinalityType DEF Kinds

\* Where there is at most one message of them, it is counted once.
LEMMA AtMostOne ==
  ASSUME NEW q, NEW T, q \in Seq(T), NEW p, NEW kind,
         \A i, j \in 1 .. Len(q) :
           q[i].page = p /\ q[i].kind = kind /\ q[j].page = p /\ q[j].kind = kind => i = j
  PROVE  /\ Kinds(p, q, {kind}) \in {0, 1}
         /\ (\A i \in 1 .. Len(q) : ~(q[i].page = p /\ q[i].kind = kind)) => Kinds(p, q, {kind}) = 0
<1> DEFINE found == {j \in DOMAIN q : q[j].page = p /\ q[j].kind \in {kind}}
<1>1. DOMAIN q = 1 .. Len(q) /\ Len(q) \in Nat  OBVIOUS
<1>2. CASE found = {}
  <2>1. Cardinality(found) = 0  BY <1>2, FS_EmptySet
  <2> QED BY <2>1 DEF Kinds
<1>3. CASE found # {}
  <2>1. PICK i : i \in found  BY <1>3
  <2>2. found = {i}  BY <1>1, <2>1
  <2>3. Cardinality(found) = 1  BY <2>2, FS_Singleton
  <2>4. i \in 1 .. Len(q) /\ q[i].page = p /\ q[i].kind = kind  BY <1>1, <2>1
  <2> QED BY <2>3, <2>4 DEF Kinds
<1> QED BY <1>2, <1>3

\* The invariant says what the flags mean in numbers.
LEMMA FlagsAreCounted == DesktopInv => FlagsFollowTheChannels
<1> SUFFICES ASSUME DesktopInv PROVE FlagsFollowTheChannels  OBVIOUS
<1>1. DesktopTypeOK /\ FlagsAreAwaited /\ PollsAreOnce(requests, responses, polling)
  BY DEF DesktopInv
<1>2. requests \in Seq(Request) /\ responses \in Seq(Response)  BY <1>1 DEF DesktopTypeOK
<1>3. ASSUME NEW p, Awaits(p, requests, responses) PROVE Due(p) > 0
  <2>1. /\ Kinds(p, requests, {"command", "refresh", "restore"}) \in Nat
        /\ Kinds(p, responses, {"answer", "failed", "snapshot", "bare", "error"}) \in Nat
    BY <1>2, CountsAreNumbers
  <2>2. CASE \E i \in 1 .. Len(requests) : requests[i].page = p /\ requests[i].kind \in Asking
    <3>1. Kinds(p, requests, {"command", "refresh", "restore"}) > 0
      BY <1>2, <2>2, OneIsCounted DEF Asking
    <3> QED BY <2>1, <3>1 DEF Due
  <2>3. CASE \E i \in 1 .. Len(responses) : responses[i].page = p /\ responses[i].kind \in Answering
    <3>1. Kinds(p, responses, {"answer", "failed", "snapshot", "bare", "error"}) > 0
      BY <1>2, <2>3, OneIsCounted DEF Answering
    <3> QED BY <2>1, <3>1 DEF Due
  <2> QED BY <1>3, <2>2, <2>3 DEF Awaits
<1>4. BusyIsAnswered
  BY <1>1, <1>3 DEF FlagsAreAwaited, BusyIsAnswered
<1>5. PollsDoNotOverlap
  <2> SUFFICES ASSUME NEW p \in Pages
               PROVE  Kinds(p, requests, {"poll"}) + Kinds(p, responses, {"poll"})
                        <= IF p \in polling THEN 1 ELSE 0
    BY DEF PollsDoNotOverlap
  <2>1. /\ \A i, j \in 1 .. Len(requests) : PollOf(requests[i], p) /\ PollOf(requests[j], p) => i = j
        /\ \A i, j \in 1 .. Len(responses) : PollOf(responses[i], p) /\ PollOf(responses[j], p) => i = j
        /\ \A i \in 1 .. Len(requests), j \in 1 .. Len(responses) :
             ~(PollOf(requests[i], p) /\ PollOf(responses[j], p))
        /\ \A i \in 1 .. Len(requests) : PollOf(requests[i], p) => p \in polling
        /\ \A i \in 1 .. Len(responses) : PollOf(responses[i], p) => p \in polling
    BY <1>1 DEF PollsAreOnce
  <2>2. /\ Kinds(p, requests, {"poll"}) \in {0, 1}
        /\ (\A i \in 1 .. Len(requests) : ~PollOf(requests[i], p)) => Kinds(p, requests, {"poll"}) = 0
    <3>1. \A i, j \in 1 .. Len(requests) :
            requests[i].page = p /\ requests[i].kind = "poll" /\ requests[j].page = p
              /\ requests[j].kind = "poll"
              => i = j
      BY <2>1 DEF PollOf
    <3>2. /\ Kinds(p, requests, {"poll"}) \in {0, 1}
          /\ (\A i \in 1 .. Len(requests) : ~(requests[i].page = p /\ requests[i].kind = "poll"))
               => Kinds(p, requests, {"poll"}) = 0
      BY <1>2, <3>1, AtMostOne
    <3> QED BY <3>2 DEF PollOf
  <2>3. /\ Kinds(p, responses, {"poll"}) \in {0, 1}
        /\ (\A i \in 1 .. Len(responses) : ~PollOf(responses[i], p)) => Kinds(p, responses, {"poll"}) = 0
    <3>1. \A i, j \in 1 .. Len(responses) :
            responses[i].page = p /\ responses[i].kind = "poll" /\ responses[j].page = p
              /\ responses[j].kind = "poll"
              => i = j
      BY <2>1 DEF PollOf
    <3>2. /\ Kinds(p, responses, {"poll"}) \in {0, 1}
          /\ (\A i \in 1 .. Len(responses) : ~(responses[i].page = p /\ responses[i].kind = "poll"))
               => Kinds(p, responses, {"poll"}) = 0
      BY <1>2, <3>1, AtMostOne
    <3> QED BY <3>2 DEF PollOf
  <2>4. \/ \A i \in 1 .. Len(requests) : ~PollOf(requests[i], p)
        \/ \A i \in 1 .. Len(responses) : ~PollOf(responses[i], p)
    BY <2>1
  <2>5. p \notin polling => /\ \A i \in 1 .. Len(requests) : ~PollOf(requests[i], p)
                            /\ \A i \in 1 .. Len(responses) : ~PollOf(responses[i], p)
    BY <2>1
  <2> QED BY <2>2, <2>3, <2>4, <2>5
<1> QED BY <1>1, <1>4, <1>5 DEF FlagsFollowTheChannels

\* A page is busy only while something will clear its flag, and no two polls of a page overlap.
THEOREM FlagsFollow == Spec => []FlagsFollowTheChannels
  BY DesktopIsSound, FlagsAreCounted, PTL

\* The LIVE page shows nothing older than its opening, and an exit the user was not asked about
\* ends no work that was begun in the window.
THEOREM TheUserIsNotMisled == Spec => []UserIsNotMisled
<1>1. DesktopInv => UserIsNotMisled  BY DEF DesktopInv, UserIsNotMisled
<1> QED BY <1>1, DesktopIsSound, PTL
=============================================================================
