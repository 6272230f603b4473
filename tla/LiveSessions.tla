---------------------------- MODULE LiveSessions ----------------------------
(***************************************************************************)
(* What the watcher task of LiveWatcher does within a probe: the settings   *)
(* it works with, the session of each platform (platform/live.rs), what a   *)
(* session makes of a service's answers, and how a stream is resolved.      *)
(*                                                                         *)
(* One channel of one platform is followed.  Between any two steps of the   *)
(* task its broadcast, the saved settings and the saved list may change.    *)
(* Credentials are numbered; 0 is none.  SOOP keeps a login in its session, *)
(* CHZZK reads its two cookies for every request, KICK has none.            *)
(***************************************************************************)
EXTENDS Naturals

CONSTANTS
  Restricted,    \* the broadcasts that need a login
  Guarded,       \* the broadcasts that ask for a password
  LastBroadcast, \* bound: broadcasts of the channel
  LastUser,      \* bound: SOOP credentials
  Retries,       \* WORKER_MAX_RETRY
  MaxChanges     \* bound: changes of the settings and of the list

VARIABLES
  platform,  \* the platform of the channel
  air,       \* its latest broadcast, and whether it is on
  settings,  \* the saved settings
  listed,    \* the saved list enables the channel
  config,    \* the WatcherConfig in force
  noted,     \* the settings it was made from (last_settings)
  applied,   \* the channel is enabled in the applied list
  session,   \* the SOOP credentials whose cookies the session holds
  doing,     \* where the task is
  held,      \* what the task read before it awaits
  attempts,  \* requests sent to the Worker for this start
  verdict,   \* what the last probe said
  wasOff,    \* history: the channel was off at some time since the probe, or the tick, began
  unclear,   \* history: an answer of that probe was not one the service documents
  status,    \* the channel's status and broadcast
  display,   \* ... in the snapshot
  recording, \* the broadcast being recorded; 0: none
  password,  \* the broadcast the stream password is for
  request,   \* the last request that resolved a stream
  changes    \* changes made

vars == <<platform, air, settings, listed, config, noted, applied, session, doing, held, attempts,
          verdict, wasOff, unclear, status, display, recording, password, request, changes>>
world   == <<air, settings, listed, changes>>
ready   == <<config, noted, applied, session>>
probing == <<verdict, wasOff, unclear>>
show    == <<status, display, recording, password>>
resolve == <<held, attempts, request>>

None == 0
Broadcasts == 1 .. LastBroadcast
Users      == 0 .. LastUser
NaverStates == {"Missing", "Partial", "Configured"}   \* ChzzkAuthState
Verdicts    == {"NONE", "OFFLINE", "AUTH", "LIVE", "ERROR"}
Nothing     == [bno |-> None, password |-> None, user |-> 0, naver |-> "Missing", worker |-> FALSE]
NothingHeld == [bno |-> None, password |-> None, naver |-> "Missing"]

\* Type invariant.
SessionsTypeOK ==
  /\ platform \in {"SOOP", "CHZZK", "KICK"}
  /\ air \in [bno : Broadcasts \cup {None}, live : BOOLEAN]
  /\ {settings, noted} \subseteq [user : Users, naver : NaverStates, worker : BOOLEAN]
  /\ config \in [user : Users, password : Users, worker : BOOLEAN]
  /\ listed \in BOOLEAN /\ applied \in BOOLEAN /\ session \in Users
  /\ doing \in {"login", "select", "settings", "list", "relogin", "poll", "page", "ask", "recover", "resolve"}
  /\ held \in [bno : Broadcasts \cup {None}, password : Broadcasts \cup {None}, naver : NaverStates]
  /\ attempts \in 0 .. Retries /\ verdict \in Verdicts /\ wasOff \in BOOLEAN /\ unclear \in BOOLEAN
  /\ recording \in Broadcasts \cup {None} /\ password \in Broadcasts \cup {None}
  /\ changes \in 0 .. MaxChanges

----------------------------------------------------------------------------
(* The settings and the sessions.                                          *)

\* channels_require_soop
RequiresSoop(enabled) == platform = "SOOP" /\ enabled

\* WatcherConfig::from_values: the Worker and the SOOP password are read, and must be in order,
\* only when an enabled SOOP channel needs them.
Loadable(enabled) == RequiresSoop(enabled) => settings.worker
Loaded(enabled) ==
  [user |-> settings.user, password |-> IF RequiresSoop(enabled) THEN settings.user ELSE 0,
   worker |-> RequiresSoop(enabled)]

\* SoopLiveSession::login: the old cookies are dropped first; those of a login that then fails
\* may be kept.  refresh_soop_login does nothing without credentials.
LoggedIn(ok) ==
  IF config.user = 0 \/ config.password = 0 THEN session' = session
  ELSE session' \in IF ok THEN {config.user} ELSE {0, config.user}

Init ==
  /\ platform \in {"SOOP", "CHZZK", "KICK"}
  /\ air = [bno |-> None, live |-> FALSE]
  /\ settings \in [user : IF platform = "SOOP" THEN {0, 1} ELSE {0},
                   naver : IF platform = "CHZZK" THEN {"Missing", "Configured"} ELSE {"Missing"}, worker : {TRUE}]
  /\ listed \in BOOLEAN /\ applied = listed /\ noted = settings /\ config = Loaded(listed)
  /\ session = 0 /\ doing = "login" /\ attempts = 0 /\ request = Nothing
  /\ held = NothingHeld
  /\ verdict = "NONE" /\ wasOff = TRUE /\ unclear = FALSE
  /\ status = [shows |-> "UNKNOWN", bno |-> None] /\ display = status
  /\ recording = None /\ password = None /\ changes = 0

\* A broadcast begins or comes back, and ends.
Airs ==
  /\ \E b \in Broadcasts : /\ b = air.bno + 1 \/ (b = air.bno /\ ~air.live)
                           /\ air' = [bno |-> b, live |-> TRUE]
  /\ UNCHANGED <<platform, settings, listed, changes, ready, doing, resolve, probing, show>>
Leaves ==
  /\ air.live
  /\ air' = [air EXCEPT !.live = FALSE] /\ wasOff' = TRUE
  /\ UNCHANGED <<platform, settings, listed, changes, ready, doing, resolve, verdict, unclear, show>>

\* The settings the platform reads, or the list, are saved.
Change ==
  /\ changes < MaxChanges /\ changes' = changes + 1
  /\ \/ /\ UNCHANGED listed
        /\ \/ platform = "SOOP" /\ \E u \in Users \ {settings.user} : settings' = [settings EXCEPT !.user = u]
           \/ platform = "SOOP" /\ settings' = [settings EXCEPT !.worker = ~@]
           \/ platform = "CHZZK" /\ \E n \in NaverStates \ {settings.naver} : settings' = [settings EXCEPT !.naver = n]
     \/ listed' = ~listed /\ UNCHANGED settings
  /\ UNCHANGED <<platform, air, ready, doing, resolve, probing, show>>

\* channel_password: for the broadcast the snapshot shows.
Supply ==
  /\ display.shows = "PASSWORD_REQUIRED" /\ display.bno # None
  /\ password' = display.bno
  /\ UNCHANGED <<platform, world, ready, doing, resolve, probing, status, display, recording>>

\* Streamlink ends by itself.
RecorderEnds ==
  /\ recording # None /\ doing = "select"
  /\ recording' = None /\ status' = [status EXCEPT !.shows = "UNKNOWN"]
  /\ UNCHANGED <<platform, world, ready, doing, resolve, probing, display, password>>

\* The first login of the watcher, and a tick of its loop.
FirstLogin ==
  /\ doing = "login" /\ doing' = "select"
  /\ \E ok \in BOOLEAN : IF platform = "SOOP" THEN LoggedIn(ok) ELSE UNCHANGED session
  /\ UNCHANGED <<platform, world, config, noted, applied, resolve, probing, show>>
Tick ==
  /\ doing = "select" /\ doing' = "settings"
  /\ verdict' = "NONE" /\ wasOff' = TRUE /\ unclear' = FALSE /\ held' = NothingHeld /\ request' = Nothing
  /\ UNCHANGED <<platform, world, ready, attempts, show>>

\* Mutant: only a reload of the list logs in again.
Ignored(new) == FALSE

\* Another account or password, which the session must log in with.
AuthChanged(new) == new.user # config.user \/ new.password # config.password

\* The settings are checked: not due, unreadable, rejected or the same; or taken over, with a
\* login when the account changed (nothing of the task is in between).
KeepSettings ==
  /\ doing = "settings" /\ doing' = "list"
  /\ UNCHANGED <<platform, world, ready, resolve, probing, show>>
TakeSettings ==
  /\ doing = "settings" /\ doing' = "list"
  /\ settings # noted /\ Loadable(applied)
  /\ config' = Loaded(applied) /\ noted' = settings
  /\ IF AuthChanged(Loaded(applied)) /\ RequiresSoop(applied)
     THEN /\ session' \in IF config'.user = 0 THEN {session} ELSE {0, config'.user}
     ELSE UNCHANGED session
  /\ UNCHANGED <<platform, world, applied, resolve, probing, show>>

\* The list is reloaded: not due, the same or rejected; or applied after a login.  Nothing
\* reads the list during that login.  A recording of a channel that leaves it is stopped.
KeepList ==
  /\ doing = "list" /\ doing' = "poll"
  /\ UNCHANGED <<platform, world, ready, resolve, probing, show>>
TakeList ==
  /\ doing = "list" /\ listed # applied /\ Loadable(listed)
  /\ config' = Loaded(listed) /\ noted' = settings /\ applied' = listed
  /\ doing' = IF RequiresSoop(listed) THEN "relogin" ELSE "poll"
  /\ recording' = IF listed THEN recording ELSE None
  /\ status' = [status EXCEPT !.shows = IF listed THEN "UNKNOWN" ELSE "DISABLED"]
  /\ UNCHANGED <<platform, world, session, resolve, probing, display, password>>
Relogin ==
  /\ doing = "relogin" /\ doing' = "poll"
  /\ \E ok \in BOOLEAN : LoggedIn(ok)
  /\ UNCHANGED <<platform, world, config, noted, applied, resolve, probing, show>>

----------------------------------------------------------------------------
(* A probe.                                                                *)

\* The channel is not due, or is probed; CHZZK reads its cookies first.
Ends == doing' = "select" /\ display' = status'
Pass ==
  /\ doing = "poll" /\ UNCHANGED status /\ Ends
  /\ UNCHANGED <<platform, world, ready, resolve, probing, recording, password>>
Begin ==
  /\ doing = "poll" /\ applied
  /\ doing' = IF platform = "SOOP" THEN "page" ELSE "ask"
  /\ held' = [held EXCEPT !.naver = settings.naver]
  /\ wasOff' = ~air.live /\ unclear' = FALSE /\ verdict' = "NONE"
  /\ UNCHANGED <<platform, world, ready, attempts, request, show>>

\* What a service may answer: the truth, a refusal (401, 403, RESULT -6, or a restricted
\* broadcast without its playback), no such channel (404), another failure of the request, an
\* open broadcast without playback, or an answer of no documented form.
Authorised == IF platform = "SOOP" THEN session # 0 ELSE held.naver = "Configured"
Answers ==
  {"denied", "gone", "failed", "odd"} \cup
  (IF ~air.live THEN {"closed"}
   ELSE IF air.bno \in Restricted /\ platform # "KICK" /\ ~Authorised THEN {} ELSE {"open", "withheld"})

\* SoopLiveSession::probe, with the player API's answer: whatever is not RESULT 1 or -6, or
\* lacks the broadcast's data, counts as off.
SoopVerdict(answer) ==
  CASE answer \in {"closed", "odd", "withheld"} -> "OFFLINE" [] answer = "denied" -> "AUTH"
    [] answer = "open" -> "LIVE" [] OTHER -> "ERROR"

\* auth_failure: a login is asked for only when there are no cookies.
AuthFailure(naver) == IF naver = "Missing" THEN "AUTH" ELSE "ERROR"

\* Mutant: a channel that is refused is off.
RefusedIsOffline(answer, naver) ==
  IF answer \in {"closed", "gone", "denied"} THEN {"OFFLINE"}
  ELSE IF answer = "open" THEN {"LIVE"} ELSE {"ERROR"}

\* ChzzkLiveSession::probe and parse_probe_content: off when there is no such channel or no
\* content that says OPEN.
ChzzkVerdicts(answer, naver) ==
  CASE answer \in {"closed", "gone"} -> {"OFFLINE"} [] answer = "denied" -> {AuthFailure(naver)}
    [] answer = "open" -> {"LIVE"} [] answer = "odd" -> {"OFFLINE", "ERROR"} [] OTHER -> {"ERROR"}

\* KickLiveSession::probe, check_http_status and parse_probe: off only when the channel's own
\* answer has no livestream.
KickVerdict(answer) ==
  CASE answer = "closed" -> "OFFLINE" [] answer \in {"open", "withheld"} -> "LIVE" [] OTHER -> "ERROR"

\* LiveSession::probe
ProbeVerdicts(answer) ==
  CASE platform = "SOOP" -> {SoopVerdict(answer)} [] platform = "CHZZK" -> ChzzkVerdicts(answer, held.naver)
    [] platform = "KICK" -> {KickVerdict(answer)}

\* stream_password_for: a password for another broadcast is forgotten.
PasswordFor(b) == IF password = b THEN b ELSE None

\* What the poll of an idle channel, or the recheck of one being recorded, does with a verdict.
Judged(v) ==
  /\ verdict' = v
  /\ CASE v = "OFFLINE" ->
            /\ status' = [shows |-> "OFFLINE", bno |-> None] /\ recording' = None /\ password' = None
            /\ Ends /\ UNCHANGED held
       [] v = "LIVE" /\ recording # None ->
            /\ recording' = IF recording = air.bno THEN recording ELSE None
            /\ password' = IF recording = air.bno THEN password ELSE None
            /\ status' = IF recording = air.bno THEN status ELSE [shows |-> "UNKNOWN", bno |-> air.bno]
            /\ Ends /\ UNCHANGED held
       [] v = "LIVE" /\ recording = None /\ (air.bno \in Guarded => PasswordFor(air.bno) # None) ->
            /\ doing' = "resolve" /\ status' = [status EXCEPT !.bno = air.bno]
            /\ password' = IF air.bno \in Guarded THEN password ELSE None
            /\ held' = [held EXCEPT !.bno = air.bno, !.password = IF air.bno \in Guarded THEN PasswordFor(air.bno) ELSE None]
            /\ UNCHANGED <<recording, display>>
       [] v = "LIVE" /\ recording = None /\ air.bno \in Guarded /\ PasswordFor(air.bno) = None ->
            /\ status' = [shows |-> "PASSWORD_REQUIRED", bno |-> air.bno] /\ password' = None
            /\ Ends /\ UNCHANGED <<recording, held>>
       [] v = "AUTH" /\ recording = None ->
            /\ status' = [status EXCEPT !.shows = "AUTH"] /\ doing' = "recover"
            /\ UNCHANGED <<recording, password, held, display>>
       [] v = "ERROR" \/ (v = "AUTH" /\ recording # None) ->
            /\ status' = IF recording = None THEN [status EXCEPT !.shows = "ERROR"] ELSE status
            /\ Ends /\ UNCHANGED <<recording, password, held>>

\* SOOP's channel page: without a broadcast's number the channel is off.
Page ==
  /\ doing = "page"
  /\ \/ air.live /\ doing' = "ask" /\ UNCHANGED <<held, probing, show>>
     \/ ~air.live /\ Judged("OFFLINE") /\ UNCHANGED <<wasOff, unclear>>
     \/ unclear' = TRUE /\ Judged("OFFLINE") /\ UNCHANGED wasOff
     \/ Judged("ERROR") /\ UNCHANGED <<wasOff, unclear>>
  /\ UNCHANGED <<platform, world, ready, attempts, request>>

\* The answer to the request proper.
Ask ==
  /\ doing = "ask"
  /\ \E answer \in Answers : \E v \in ProbeVerdicts(answer) :
       /\ unclear' = (answer \in {"odd", "gone", "withheld"}) /\ Judged(v)
  /\ UNCHANGED <<platform, world, ready, wasOff, attempts, request>>

\* recover_auth: SOOP logs in again and, when that works, the channel is due at once; the others
\* have nothing to recover with.
Recover ==
  /\ doing = "recover"
  /\ IF platform = "SOOP" THEN \E ok \in BOOLEAN : LoggedIn(ok) ELSE UNCHANGED session
  /\ UNCHANGED status /\ Ends
  /\ UNCHANGED <<platform, world, config, noted, applied, resolve, probing, recording, password>>

----------------------------------------------------------------------------
(* start_recording of the broadcast that was probed.                       *)

Records(r) ==
  /\ request' = r /\ recording' = held.bno /\ attempts' = 0
  /\ status' = [shows |-> "RECORDING", bno |-> held.bno]
  /\ Ends /\ UNCHANGED password
Fails ==
  /\ attempts' = 0 /\ UNCHANGED recording
  /\ password' = IF held.bno \in Guarded THEN None ELSE password
  /\ status' = [shows |-> IF held.bno \in Guarded THEN "PASSWORD_REQUIRED" ELSE "ERROR", bno |-> held.bno]
  /\ Ends

\* SoopLiveSession::resolve_stream: the Worker gets the session's cookies and the password, and
\* is asked up to Retries times.
Asked == [Nothing EXCEPT !.bno = held.bno, !.password = held.password, !.user = session, !.worker = config.worker]
AskWorker ==
  /\ doing = "resolve" /\ platform = "SOOP"
  /\ \/ Records(Asked)
     \/ attempts + 1 < Retries /\ attempts' = attempts + 1 /\ request' = Asked /\ UNCHANGED <<doing, show>>
     \/ attempts + 1 >= Retries /\ request' = Asked /\ Fails
  /\ UNCHANGED <<platform, world, ready, probing, held>>

\* resolve_stream_with_auth: the cookies are read again.
MayResolve(b) == b \in Restricted => settings.naver = "Configured"
ResolvePlugin ==
  /\ doing = "resolve" /\ platform # "SOOP"
  /\ \/ /\ platform = "CHZZK" => MayResolve(held.bno)
        /\ Records([Nothing EXCEPT !.bno = held.bno, !.naver =
                      IF platform = "CHZZK" /\ held.bno \in Restricted THEN settings.naver ELSE "Missing"])
     \/ UNCHANGED request /\ Fails
  /\ UNCHANGED <<platform, world, ready, probing, held>>

Next ==
  \/ Airs \/ Leaves \/ Change \/ Supply \/ RecorderEnds \/ FirstLogin \/ Tick \/ KeepSettings \/ TakeSettings
  \/ KeepList \/ TakeList \/ Relogin \/ Pass \/ Begin \/ Page \/ Ask \/ Recover \/ AskWorker \/ ResolvePlugin

Spec == Init /\ [][Next]_vars

----------------------------------------------------------------------------
(* Safety.                                                                 *)

\* A channel is judged off only when it was off at some time of the probe, or when a service
\* other than KICK gave an answer that says nothing: never because the service refused, failed
\* or could not be reached.  A recording is stopped on this verdict.
OfflineIsTrue == verdict = "OFFLINE" => wasOff \/ (unclear /\ platform # "KICK")

\* Whatever was changed in between, an enabled SOOP channel is probed, and its stream asked for,
\* with the cookies of the account in force or with none, and with a Worker that is set; only
\* when the account was removed does the session keep the cookies it had.
SessionIsTheConfigured ==
  /\ doing \in {"page", "ask", "resolve"} /\ platform = "SOOP" =>
       config.worker /\ (config.user = 0 \/ session \in {0, config.user})
  /\ platform = "SOOP" /\ request.bno # None => request.worker

\* A stream is resolved with no other broadcast's password, and a restricted one of CHZZK only
\* with both cookies.
RequestIsForItsBroadcast ==
  /\ request.password \in {None, request.bno}
  /\ platform = "CHZZK" /\ request.bno \in Restricted => request.naver = "Configured"

SessionsAreSound == SessionsTypeOK /\ SessionIsTheConfigured /\ RequestIsForItsBroadcast
=============================================================================
