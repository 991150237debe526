------------------------------ MODULE Detail ------------------------------
(***************************************************************************)
(* The detail page of a recording: the panels that show the result of a    *)
(* job (quality, timeline, validation, preview videos) or start one         *)
(* (upload), each with a query it polls, a POST that starts the job, and    *)
(* the stream of job events that tells it to look again. The pager moves    *)
(* the same page to another recording.                                      *)
(*                                                                         *)
(* The jobs are those of JobQueue and RecordingPipeline: here a job runs    *)
(* until it ends and leaves its result or not. A panel is a kind of job and *)
(* a recording. The kinds "quality", "timeline", "validation" and "video"   *)
(* post by themselves when the server has nothing; an upload is started by  *)
(* its button.                                                              *)
(*                                                                         *)
(* Videos are "ready" for the server as soon as there is one of them: while *)
(* the job still writes it, or has other cameras to come. Such an answer is *)
(* "partial" here; the page takes it for "ready".                           *)
(***************************************************************************)
EXTENDS Naturals, FiniteSets, Functions, Client

CONSTANTS
  Panels,     \* kinds of jobs, each with a recording
  Sessions,   \* bound: the sets of panels that a behaviour is about
  Unable,     \* the panels whose job cannot be started: no .mcap file
  NoFolder,   \* the page is not open
  MaxCalls,   \* bound: POSTs of a kind on their way when another one is sent
  MaxNews     \* bound: events of an upload on their way when it is started again

Kinds == {"quality", "timeline", "validation", "video", "upload"}
Folders == {p[2] : p \in Panels}
Status == {"absent", "pending", "partial", "ready", "failed"}

ASSUME PanelsAssumption == \A p \in Panels : p = <<p[1], p[2]>> /\ p[1] \in Kinds
ASSUME DataAssumption == NoData \notin Status
ASSUME SessionsAssumption == Sessions \subseteq SUBSET Panels
ASSUME UnableAssumption == Unable \subseteq {p \in Panels : p[1] # "upload"}
ASSUME FolderAssumption == NoFolder \notin Folders
ASSUME BoundsAssumption == MaxCalls \in Nat \ {0} /\ MaxNews \in Nat \ {0}

VARIABLES
  watched,   \* the panels of this behaviour; the others have no job and no observer
  page,      \* the recording, the tab, whether the preview is open
  cache,     \* the query under each key
  calls,     \* POSTs on their way
  live,      \* the uploads the job list of the client has as active
  news,      \* events on their way to the client, for each panel
  active,    \* the server: panels whose job is queued or running
  stored,    \* the server: what the job left on disk
  missed     \* history: panels whose result the page has no occasion to ask for

client == <<page, cache, calls, live>>
server == <<active, stored>>
vars == <<watched, client, server, news, missed>>

-----------------------------------------------------------------------------
(* Panels and their requests *)

Automatic(p) == p[1] # "upload"

\* Without an event the page need not ask again: nothing polls an upload that
\* has not begun, nor videos of which there is one.
Silent(p) == p[1] \in {"upload", "video"}

\* The key of a panel's query is the request that it makes.
Key == [p \in Panels |->
  CASE p[1] = "quality" -> GetQuality(p[2])
    [] p[1] = "timeline" -> GetTimeline(p[2])
    [] p[1] = "validation" -> GetValidation(p[2])
    [] p[1] = "video" -> GetVideoStatus(p[2])
    [] p[1] = "upload" -> GetUpload(p[2])]

Post == [p \in Panels |->
  CASE p[1] = "quality" -> StartQualityAnalysis(p[2])
    [] p[1] = "timeline" -> StartTimelineAnalysis(p[2])
    [] p[1] = "validation" -> StartValidation(p[2])
    [] p[1] = "video" -> StartVideoGeneration(p[2])
    [] p[1] = "upload" -> StartUpload(p[2])]

Keys == Range(Key)
PanelAt == Inverse(Key, Panels, Keys)
PanelOf == Inverse(Post, Panels, Range(Post))
KindOf(call) == PanelOf[call.req][1]

\* Faulty variant: uploads are missing in the list.
InvalidatedButUploads(kind) == {Key[p] : p \in {q \in Panels : q[1] = kind /\ kind # "upload"}}

\* The keys that JOB_COMPLETION_INVALIDATIONS lists for a kind; a key without
\* parameters is the prefix of those of every recording.
Invalidated(kind) == {Key[p] : p \in {q \in Panels : q[1] = kind}}

-----------------------------------------------------------------------------
(* What is on the screen *)

TimelineReady(pg, qs) ==
  LET p == <<"timeline", pg.folder>> IN p \in watched => qs[Key[p]].data = "ready"

\* The component of a kind exists: a tab's content only while it is selected,
\* the preview only below a timeline.
Mounted(pg, qs, kind) ==
  /\ pg.folder # NoFolder
  /\ kind \in {"timeline", "video"} => pg.tab = "quality"
  /\ kind = "validation" => pg.tab = "validation"
  /\ kind = "video" => TimelineReady(pg, qs)

\* Its query has an observer.
Observed(pg, qs, p) ==
  /\ p \in watched
  /\ pg.folder = p[2]
  /\ Mounted(pg, qs, p[1])
  /\ p[1] = "video" => pg.open

Seen(p) == Observed(page, cache, p)
Data(p) == cache[Key[p]].data

\* useUploadStatus: an active job in the job list wins over the query.
Shown(p) == IF p \in live THEN "pending" ELSE Data(p)

\* The grid of the videos spins whenever it has none and no error.
Spinning(p) ==
  /\ Seen(p)
  /\ \/ Shown(p) = "pending"
     \/ Automatic(p) /\ Data(p) = NoData /\ cache[Key[p]].get # "none"
     \/ p[1] = "video" /\ Data(p) \in {"absent", NoData}

\* isPending of the mutation in the component of a kind.
Pending(kind) == \E c \in calls : c.heard /\ KindOf(c) = kind

\* The page goes to pg, the queries to qs and the POSTs to cs: a query that
\* gets its observer is fetched, one that loses it is aborted, and a component
\* that vanishes takes along who listens to its POST, and the open preview.
Render(pg, qs, cs) ==
  LET stays(kind) == Mounted(page, cache, kind) /\ Mounted(pg, qs, kind)
      next == [pg EXCEPT !.open = @ /\ stays("video")]
  IN  /\ page' = next
      /\ cache' = [k \in Keys |->
           LET seen == Observed(next, qs, PanelAt[k])
           IN  CASE seen = Seen(PanelAt[k]) -> qs[k]
                 [] seen /\ ~Seen(PanelAt[k]) -> Fetch(qs[k])
                 [] ~seen /\ Seen(PanelAt[k]) -> Dropped(qs[k])]
      /\ calls' = {IF stays(KindOf(c)) THEN c ELSE Unheard(c) : c \in cs}

\* A fetch that will see what the server has now makes up for a loss.
MadeUp(ks) == missed' = {p \in missed : Key[p] \notin ks}
NewlySeen == {Key[p] : p \in {q \in Panels : Observed(page', cache', q) /\ ~Seen(q)}}

-----------------------------------------------------------------------------
(* The page *)

Closed == [folder |-> NoFolder, tab |-> "quality", open |-> FALSE]

\* The route with the recording; the tab is "quality" on a new page and stays
\* under the pager.
Open(f) ==
  /\ page.folder # f
  /\ Render([page EXCEPT !.folder = f], cache, calls)
  /\ MadeUp(NewlySeen)
  /\ UNCHANGED <<live, news, server>>

Leave ==
  /\ page.folder # NoFolder
  /\ Render(Closed, cache, calls)
  /\ UNCHANGED <<live, news, server, missed>>

SelectTab(tab) ==
  /\ page.folder # NoFolder /\ page.tab # tab
  /\ Render([page EXCEPT !.tab = tab], cache, calls)
  /\ MadeUp(NewlySeen)
  /\ UNCHANGED <<live, news, server>>

TogglePreview ==
  /\ Mounted(page, cache, "video")
  /\ Render([page EXCEPT !.open = ~@], cache, calls)
  /\ MadeUp(NewlySeen)
  /\ UNCHANGED <<live, news, server>>

-----------------------------------------------------------------------------
(* Queries *)


\* refetchInterval, while the data says that a job is under way.
Poll(p) ==
  /\ Seen(p) /\ Data(p) = "pending"
  /\ cache[Key[p]].get = "none"
  /\ cache' = [cache EXCEPT ![Key[p]] = Fetch(@)]
  /\ MadeUp({Key[p]})
  /\ UNCHANGED <<page, calls, live, news, server>>

\* What the server says of a panel: a report, a state file or a video first,
\* then the job. A failed job is no longer among the active ones: "absent".
Answer(p) ==
  IF stored[p] # "absent" THEN stored[p]
  ELSE IF p \in active THEN "pending"
  ELSE IF p[1] = "video" /\ p \in Unable THEN "failed" ELSE "absent"

ServeGet(p) ==
  /\ cache[Key[p]].get = "sent"
  /\ cache' = [cache EXCEPT ![Key[p]] = Answered(@, Answer(p))]
  /\ UNCHANGED <<page, calls, live, news, server, missed>>

ReceiveGet(p) ==
  /\ cache[Key[p]].get = "answered"
  /\ Render(page, [cache EXCEPT ![Key[p]] = Applied(@)], calls)
  /\ MadeUp(NewlySeen)
  /\ UNCHANGED <<live, news, server>>

\* All retries failed: the data stays and is fetched again on the next occasion
\* only. While it is polled that is the next poll, no more than a slow answer.
GetGivesUp(p) ==
  /\ cache[Key[p]].get = "sent" /\ Data(p) # "pending"
  /\ cache' = [cache EXCEPT ![Key[p]] = Dropped(@)]
  /\ missed' = IF Silent(p) THEN missed \union {p} ELSE missed
  /\ UNCHANGED <<page, calls, live, news, server>>

-----------------------------------------------------------------------------
(* POSTs *)

Room(kind) == Cardinality({c \in calls : KindOf(c) = kind}) < MaxCalls

\* The effect of an automatic panel.
Start(p) ==
  /\ Automatic(p) /\ Seen(p)
  /\ Data(p) = "absent"
  /\ ~Pending(p[1])
  /\ Room(p[1])
  /\ calls' = calls \union {Call(Post[p])}
  /\ UNCHANGED <<page, cache, live, news, server, missed>>

\* The upload button.
PressUpload(p) ==
  /\ ~Automatic(p) /\ Seen(p)
  /\ Shown(p) # "pending" /\ ~Pending("upload")
  /\ Room(p[1])
  /\ calls' = calls \union {Call(Post[p])}
  /\ UNCHANGED <<page, cache, live, news, server, missed>>

\* Validation needs the report of the quality job.
Able(p) ==
  /\ p \notin Unable
  /\ LET q == <<"quality", p[2]>>
     IN  p[1] = "validation" /\ q \in watched => stored[q] = "ready"

\* The events of a panel's job. Of the automatic kinds only the end changes
\* anything here, and two ends in a row do no more than one.
Told(p, what) ==
  news' = IF ~Automatic(p) \/ (what = "ended" /\ news[p] = << >>)
          THEN [news EXCEPT ![p] = Append(@, what)] ELSE news

\* A report is there, or any video.
Found(p) == Automatic(p) /\ stored[p] # "absent"

CanStart(p) == ~Found(p) /\ p \notin active /\ Able(p)

\* start() of a facade: idempotent, and an upload overwrites.
StartAnswer(p) ==
  IF Found(p) THEN stored[p]
  ELSE IF p \in active \/ Able(p) THEN "pending"
  ELSE IF p[1] = "video" THEN "failed" ELSE "absent"

ServePost(c) ==
  LET p == PanelOf[c.req]
  IN  /\ c.at = "sent"
      /\ calls' = (calls \ {c}) \union {Succeeded(c, StartAnswer(p))}
      /\ IF CanStart(p)
         THEN /\ Len(news[p]) < MaxNews
              /\ active' = active \union {p}
              /\ Told(p, "active")
         ELSE UNCHANGED <<active, news>>
      /\ UNCHANGED <<page, cache, live, missed, stored>>

\* Faulty variant: the answer goes to the recording that is on the page.
WrittenToPage(c) ==
  LET here == <<KindOf(c), page.folder>>
  IN  Key[IF here \in Panels THEN here ELSE PanelOf[c.req]]

\* The key onSuccess writes to: that of the request.
WrittenTo(c) == Key[PanelOf[c.req]]

\* A list of videos that the end of their job has overtaken: nothing asks again.
Overtaken(c) ==
  LET p == PanelOf[c.req]
  IN  c.result = "partial" /\ p \notin active /\ news[p] = << >>

\* onSuccess writes the answer into the cache, whoever still listens.
ReceivePost(c) ==
  /\ c.at = "ok"
  /\ Render(page,
            [k \in Keys |-> IF k = WrittenTo(c) THEN Written(cache[k], c.result) ELSE cache[k]],
            calls \ {c})
  /\ missed' = {p \in missed \union (IF Overtaken(c) THEN {PanelOf[c.req]} ELSE {}) :
                 Key[p] \notin NewlySeen}
  /\ UNCHANGED <<live, news, server>>

\* The request or its answer is lost, and the button can be pressed again. An
\* automatic panel sends its POST again at once: no more than a slow answer.
LosePost(c) ==
  /\ KindOf(c) = "upload"
  /\ calls' = calls \ {c}
  /\ UNCHANGED <<page, cache, live, news, server, missed>>

-----------------------------------------------------------------------------
(* Jobs *)

\* A job that this page did not ask for: the chain after a recording, or the
\* bulk upload of the recordings page.
Schedule(p) ==
  /\ page.folder = NoFolder /\ p \in watched
  /\ p[1] \in {"quality", "validation", "upload"}
  /\ CanStart(p)
  /\ Len(news[p]) < MaxNews
  /\ active' = active \union {p}
  /\ Told(p, "active")
  /\ UNCHANGED <<client, stored, missed>>

\* An upload job saves that it has begun; ffmpeg opens the first video.
JobSaves(p) ==
  /\ p \in active
  /\ \/ p[1] = "upload" /\ stored' = [stored EXCEPT ![p] = "pending"]
     \/ /\ p[1] = "video" /\ stored[p] = "absent"
        /\ stored' = [stored EXCEPT ![p] = "partial"]
  /\ UNCHANGED <<client, active, news, missed>>

\* A job that fails removes the videos it has made, and one that finds no images
\* makes none.
Outcomes(p) ==
  IF Automatic(p) THEN {"ready", IF stored[p] = "partial" THEN "absent" ELSE stored[p]}
  ELSE IF stored[p] = "pending" THEN {"ready", "failed"} ELSE {stored[p]}

JobEnds(p) ==
  /\ p \in active
  /\ active' = active \ {p}
  /\ \E s \in Outcomes(p) : stored' = [stored EXCEPT ![p] = s]
  /\ Told(p, "ended")
  /\ UNCHANGED <<client, missed>>

-----------------------------------------------------------------------------
(* The event stream *)

\* Its first GET is joined by the refetch, and may have seen an older state.
Joined(p) == Seen(p) /\ Data(p) = NoData /\ cache[Key[p]].get = "answered"

\* invalidateQueries: a query without an observer is not fetched.
Invalidate(kind) ==
  cache' = [k \in Keys |->
              IF k \in Invalidated(kind) /\ Seen(PanelAt[k])
              THEN Refetch(cache[k]) ELSE cache[k]]

Deliver(p) ==
  /\ news[p] # << >>
  /\ news' = [news EXCEPT ![p] = Tail(@)]
  /\ live' = IF ~Automatic(p) /\ Head(news[p]) = "active" THEN live \union {p} ELSE live \ {p}
  /\ IF Head(news[p]) = "ended"
     THEN /\ Invalidate(p[1])
          /\ missed' = IF Silent(p) /\ Joined(p) THEN missed \union {p}
                       ELSE {q \in missed : Key[q] \notin Invalidated(p[1]) \/ ~Seen(q)}
     ELSE UNCHANGED <<cache, missed>>
  /\ UNCHANGED <<page, calls, server>>

\* The connection was lost, with all events since then, and is there again. The
\* snapshot replaces the job list and invalidates nothing.
Reconnect ==
  /\ missed' = missed \union
       {p \in Panels : Silent(p) /\ \E i \in DOMAIN news[p] : news[p][i] = "ended"}
  /\ news' = [p \in Panels |-> << >>]
  /\ live' = {p \in active : ~Automatic(p)}
  /\ UNCHANGED <<page, cache, calls, server>>

-----------------------------------------------------------------------------

Init ==
  /\ page = Closed
  /\ cache = [k \in Keys |-> NewQuery]
  /\ calls = {} /\ missed = {}
  /\ news = [p \in Panels |-> << >>]
  /\ watched \in Sessions
  /\ stored \in [Panels -> {"absent", "ready", "failed"}]
  /\ \A p \in Panels : stored[p] # "absent" => p \in watched
  /\ \A p \in Panels : stored[p] = "failed" => ~Automatic(p)
  /\ active \in SUBSET {p \in watched \ Unable : stored[p] = "absent"}
  /\ live = {p \in active : ~Automatic(p)}

Step ==
  \/ \E f \in Folders : Open(f)
  \/ Leave
  \/ \E tab \in {"quality", "validation"} : SelectTab(tab)
  \/ TogglePreview
  \/ \E p \in Panels :
       \/ Poll(p) \/ ServeGet(p) \/ ReceiveGet(p) \/ GetGivesUp(p)
       \/ Start(p) \/ PressUpload(p)
       \/ Schedule(p) \/ JobSaves(p) \/ JobEnds(p)
       \/ Deliver(p)
  \/ \E c \in calls : ServePost(c) \/ ReceivePost(c) \/ LosePost(c)
  \/ Reconnect

Next == Step /\ UNCHANGED watched

\* Timers fire, requests are answered, effects run, events arrive, jobs end.
GetStep(p) == Poll(p) \/ ServeGet(p) \/ ReceiveGet(p)
PostStep(p) == Start(p) \/ \E c \in calls : c.req = Post[p] /\ (ServePost(c) \/ ReceivePost(c))

Fairness ==
  \A p \in Panels : 
    /\ WF_vars(GetStep(p) /\ UNCHANGED watched) /\ WF_vars(PostStep(p) /\ UNCHANGED watched)
    /\ WF_vars(Deliver(p) /\ UNCHANGED watched) /\ WF_vars(JobEnds(p) /\ UNCHANGED watched)

Spec == Init /\ [][Next]_vars /\ Fairness

-----------------------------------------------------------------------------

CallType ==
  [req : {Post[p] : p \in Panels}, at : {"sent", "ok"}, result : Status \union {NoData},
   heard : BOOLEAN]

TypeOK ==
  /\ page \in [folder : Folders \union {NoFolder}, tab : {"quality", "validation"}, open : BOOLEAN]
  /\ cache \in [Keys -> Query(Status)]
  /\ calls \subseteq CallType
  /\ live \subseteq Panels /\ active \subseteq Panels /\ missed \subseteq Panels
  /\ news \in [Panels -> Seq({"active", "ended"})]
  /\ stored \in [Panels -> Status]

\* The variables have their types, and the page never shows a result for a
\* recording whose job has not left one: an answer that arrives after the pager
\* has moved on goes to the recording it was asked for (use-api.ts onSuccess).
\* Videos alone are shown before their job has ended, by the answer "ready" that
\* the first file brings about (media/router.py), and may be gone again.
ReadyIsReal ==
  /\ TypeOK
  /\ \A p \in Panels :
       /\ Automatic(p) /\ Data(p) = "ready" => stored[p] = "ready"
       /\ Data(p) = "partial" => p[1] = "video"

GaveUp(p) == Data(p) = NoData /\ cache[Key[p]].get = "none"

\* A job for videos that ends and leaves none.
Fruitless(p) == p[1] = "video" /\ JobEnds(p) /\ stored'[p] = "absent"


\* A result that is there, with no job about to replace it, comes to be shown
\* on the page that looks for it, and all of the videos where it has shown one
\* too early. The exceptions are in the history: the event that ended the job was
\* lost, the GET it caused failed for good, or the answer of a POST overtook it,
\* and nothing asks again.
Due(p) == stored[p] = "ready" /\ p \notin active /\ Seen(p)
DoneIsShown ==
  \A p \in Panels : []<>(Due(p) => Shown(p) = "ready" \/ GaveUp(p) \/ p \in missed)
=============================================================================
