----------------------------- MODULE DesktopVod -----------------------------
(***************************************************************************)
(* The VOD page of the desktop application (vod_adapter.rs and controller.rs): *)
(* the draft the user fills, the analysis it is completed with, the download  *)
(* that is made of it and the preview.  Requests go to the controller's     *)
(* worker and back in order; the core's one job is shared with the queue,   *)
(* so any status may be of another video.                                  *)
(***************************************************************************)
EXTENDS Naturals, Sequences

CONSTANTS
  Urls,      \* videos
  NoUrl,     \* not a video
  MaxLooks,  \* bound: generations of the draft
  MaxVodJobs \* bound: jobs of the core

VARIABLES
  draft,      \* VodDraft: its URL, the URL analysed, and the job whose analysis it shows
  generation, \* thumbnail_generation
  waiting,    \* vod_busy
  polling,    \* a poll is in flight
  line,       \* requests to the worker and its responses, in order
  facade,     \* the core's VOD job: VodFacade's selected status
  videos,     \* history: the video of each job
  sent,       \* history: the last download, its URL and the job its choices are of
  picture,    \* the preview shown: of which video, job and generation
  picturing,  \* vod_thumbnail_job_id
  tried,      \* vod_thumbnail_attempt
  preview     \* the request for a preview in the core; vod_thumbnail_pending is that there is one

vars == <<draft, generation, waiting, polling, line, facade, videos, sent, picture, picturing, tried, preview>>
core   == <<facade, videos>>
images == <<picture, picturing, tried, preview>>

NoJob     == 0
Jobs      == 1 .. MaxVodJobs
NoPicture == [url |-> NoUrl, job |-> NoJob, generation |-> 0]
NoPreview == [at |-> "none"]

\* Type invariant.
DraftTypeOK ==
  /\ draft \in [url : Urls \cup {NoUrl}, analyzed : Urls \cup {NoUrl}, job : {NoJob} \cup Jobs]
  /\ generation \in 0 .. MaxLooks /\ waiting \in BOOLEAN /\ polling \in BOOLEAN
  /\ Len(line) <= 2 /\ \A i \in 1 .. Len(line) : line[i].kind \in {"analyze", "download", "refresh", "poll"}
  /\ facade \in [job : {NoJob} \cup Jobs, running : BOOLEAN, known : BOOLEAN]
  /\ videos \in [Jobs -> Urls \cup {NoUrl}]
  /\ picturing \in {NoJob} \cup Jobs /\ preview.at \in {"none", "check", "load", "answered"}

Init ==
  /\ draft = [url |-> NoUrl, analyzed |-> NoUrl, job |-> NoJob] /\ generation = 0
  /\ waiting = FALSE /\ polling = FALSE /\ line = <<>>
  /\ facade = [job |-> NoJob, running |-> FALSE, known |-> FALSE] /\ videos = [j \in Jobs |-> NoUrl]
  /\ sent = [url |-> NoUrl, job |-> NoJob]
  /\ picture = NoPicture /\ picturing = NoJob /\ tried = [generation |-> 0, job |-> NoJob] /\ preview = NoPreview

----------------------------------------------------------------------------
(* The page.  It does not change while a command is out (vod_busy).        *)

Analysed(d) == d.analyzed # NoUrl /\ d.analyzed = d.url

\* begin_analysis, and render_vod_draft, which takes the preview of what is no longer analysed.
BeginAnalysis(url) ==
  /\ generation < MaxLooks /\ generation' = generation + 1
  /\ draft' = [url |-> url, analyzed |-> NoUrl, job |-> NoJob]
  /\ picture' = NoPicture /\ picturing' = NoJob

EditUrl(url) ==
  /\ ~waiting /\ url # draft.url
  /\ BeginAnalysis(url)
  /\ UNCHANGED <<waiting, polling, line, core, sent, tried, preview>>

\* send_vod
Send(kind) == waiting' = TRUE /\ line' = Append(line, [kind |-> kind, url |-> draft.url, at |-> "asked"])
Analyze ==
  /\ ~waiting /\ draft.url # NoUrl
  /\ BeginAnalysis(draft.url) /\ Send("analyze")
  /\ UNCHANGED <<polling, core, sent, tried, preview>>

\* download_request: made of the draft, when it is analysed.
CanDownload(d) == Analysed(d)
Download ==
  /\ ~waiting /\ CanDownload(draft)
  /\ sent' = [url |-> draft.url, job |-> draft.job] /\ Send("download")
  /\ UNCHANGED <<draft, generation, polling, core, images>>

\* Refresh, and the poll timer.
Refresh ==
  /\ ~waiting /\ Send("refresh")
  /\ UNCHANGED <<draft, generation, polling, core, sent, images>>
Poll ==
  /\ ~waiting /\ ~polling /\ polling' = TRUE
  /\ line' = Append(line, [kind |-> "poll", url |-> NoUrl, at |-> "asked"])
  /\ UNCHANGED <<draft, generation, waiting, core, sent, images>>

----------------------------------------------------------------------------
(* The core.                                                               *)

\* A job starts if none runs: for the page, or for the queue.
CanStart == ~facade.running /\ facade.job < MaxVodJobs
Started(url) ==
  /\ facade' = [job |-> facade.job + 1, running |-> TRUE, known |-> FALSE]
  /\ videos' = [videos EXCEPT ![facade.job + 1] = url]
OtherJob(url) ==
  /\ CanStart /\ Started(url)
  /\ UNCHANGED <<draft, generation, waiting, polling, line, sent, images>>

\* A job comes to know its video, and ends.
JobKnows ==
  /\ facade.running /\ ~facade.known /\ facade' = [facade EXCEPT !.known = TRUE]
  /\ UNCHANGED <<draft, generation, waiting, polling, line, videos, sent, images>>
JobEnds ==
  /\ facade.running /\ facade' = [facade EXCEPT !.running = FALSE]
  /\ UNCHANGED <<draft, generation, waiting, polling, line, videos, sent, images>>

\* The worker answers the requests one after another with the status of the job by then.
Answered(i, ok) ==
  line' = [line EXCEPT ![i] = [kind |-> line[i].kind, at |-> "answered", ok |-> ok, known |-> facade'.known,
                               job |-> facade'.job, url |-> IF facade'.known THEN videos'[facade'.job] ELSE NoUrl]]
Serve ==
  /\ \E i \in 1 .. Len(line) :
       /\ line[i].at = "asked" /\ \A k \in 1 .. i - 1 : line[k].at = "answered"
       /\ \/ line[i].kind \in {"poll", "refresh"} /\ UNCHANGED core /\ Answered(i, TRUE)
          \/ line[i].kind \in {"analyze", "download"} /\ CanStart /\ Started(line[i].url) /\ Answered(i, TRUE)
          \/ UNCHANGED core /\ Answered(i, FALSE)
  /\ UNCHANGED <<draft, generation, waiting, polling, sent, images>>

\* vod_thumbnail: the picture of a job, if it is the current one before and after the download.
IsCurrent(f) == facade.known /\ facade.job = f.job
LoadPreview ==
  /\ preview.at = "check" /\ preview' = [preview EXCEPT !.at = IF IsCurrent(preview) THEN "load" ELSE "answered"]
  /\ UNCHANGED <<draft, generation, waiting, polling, line, core, sent, picture, picturing, tried>>
PreviewLoaded ==
  /\ preview.at = "load"
  /\ \E ok \in {FALSE, IsCurrent(preview)} : preview' = [preview EXCEPT !.at = "answered", !.ok = ok]
  /\ UNCHANGED <<draft, generation, waiting, polling, line, core, sent, picture, picturing, tried>>

----------------------------------------------------------------------------
(* The responses.                                                          *)

\* Mutant: an analysis is taken for whatever URL the page shows.
AnyAnalysis(a) == FALSE

\* sync_analysis: another video's is stale, and a draft that is complete keeps what it has.
Stale(a) == a.known /\ a.url # draft.url
Applies(a) == a.known /\ ~Stale(a) /\ ~Analysed(draft)

\* Response::Vod: render_vod_status, then the preview of the job's video is asked for, once for
\* each job and generation, and one at a time.
Receive ==
  /\ line # <<>> /\ Head(line).at = "answered" /\ line' = Tail(line)
  /\ LET a == Head(line)
     IN /\ IF a.kind = "poll" THEN polling' = FALSE /\ UNCHANGED waiting ELSE waiting' = FALSE /\ UNCHANGED polling
        /\ draft' = IF a.ok /\ Applies(a) THEN [url |-> draft.url, analyzed |-> draft.url, job |-> a.job] ELSE draft
        /\ IF a.ok /\ a.known /\ ~Stale(a)
           THEN /\ picturing' = a.job /\ picture' = IF picturing = a.job THEN picture ELSE NoPicture
                /\ IF preview = NoPreview /\ tried # [generation |-> generation, job |-> a.job]
                   THEN /\ tried' = [generation |-> generation, job |-> a.job]
                        /\ preview' = [at |-> "check", generation |-> generation, job |-> a.job, url |-> a.url, ok |-> FALSE]
                   ELSE UNCHANGED <<tried, preview>>
           ELSE UNCHANGED images
  /\ UNCHANGED <<generation, core, sent>>

\* thumbnail_is_current, and the job that is shown.
IsShown(f) == f.generation = generation /\ f.url = draft.url /\ Analysed(draft) /\ picturing = f.job
TakePreview ==
  /\ preview.at = "answered" /\ preview' = NoPreview
  /\ picture' = IF preview.ok /\ IsShown(preview)
                THEN [url |-> preview.url, job |-> preview.job, generation |-> preview.generation] ELSE picture
  /\ UNCHANGED <<draft, generation, waiting, polling, line, core, sent, picturing, tried>>

Next ==
  \/ \E url \in Urls : EditUrl(url) \/ OtherJob(url)
  \/ Analyze \/ Download \/ Refresh \/ Poll \/ JobKnows \/ JobEnds \/ Serve
  \/ LoadPreview \/ PreviewLoaded \/ Receive \/ TakePreview

Spec == Init /\ [][Next]_vars

----------------------------------------------------------------------------
(* Safety.                                                                 *)

VideoOf(job) == IF job = NoJob THEN NoUrl ELSE videos[job]

\* The qualities and PARTs of the page, and those a download is asked for with, are of the video
\* the page names, although statuses of other videos arrive all the time and late.
ChoicesAreOfTheVideo ==
  /\ Analysed(draft) => VideoOf(draft.job) = draft.url
  /\ ~Analysed(draft) => draft.job = NoJob
  /\ VideoOf(sent.job) = sent.url

\* The preview is of the video the page names and of the job last shown for it, asked for since
\* the user last changed the URL or asked for an analysis.
PreviewIsOfTheVideo ==
  picture # NoPicture =>
    /\ Analysed(draft) /\ picture.url = draft.url /\ VideoOf(picture.job) = draft.url
    /\ picture.job = picturing /\ picture.generation = generation

DraftIsSound == DraftTypeOK /\ ChoicesAreOfTheVideo /\ PreviewIsOfTheVideo
=============================================================================
