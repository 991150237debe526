------------------------- MODULE RecordingPipeline -------------------------
(***************************************************************************)
(* What happens to a recording folder between the end of the recording and *)
(* the upload: the job queue (as JobLine, which JobQueue implements), the  *)
(* bodies of its jobs, the artifacts they leave in the folder, the API     *)
(* facades that read and request them, the post-recording chain, and the   *)
(* endpoints that delete and rename folders under a running job.           *)
(*                                                                         *)
(* A coroutine runs to its next suspension in one step. File system work   *)
(* of a job runs on a thread (asyncio.to_thread) and is split where another*)
(* actor, an I/O error or a crash can come between: reading the recording, *)
(* opening (and truncating) a file, filling it, transferring the zip. The  *)
(* threads of the pool also serve the folder operations and require_dir.   *)
(* Every artifact carries the recording it was computed from, which the    *)
(* code does not record and the properties need.                           *)
(***************************************************************************)
EXTENDS Naturals, Sequences

CONSTANTS
  Types,       \* subset of {"media", "quality", "timeline", "validation", "upload"}
  Folders,     \* paths below the output directory
  Recs,        \* recordings that may be made
  WithMcap,    \* the recordings whose recorder left an .mcap file
  WithStart,   \* the recordings whose metadata.yaml has a start time
  WithFrames,  \* the recordings that hold images to make a video of
  Faults,      \* subset of {"io", "crash", "delete", "rename"}: what may go wrong
  None

UploadStatus == {"uploading", "uploaded", "failed"}
Reports == Types \intersect {"quality", "timeline", "validation"}

ASSUME TypesAssumption == Types \subseteq {"media", "quality", "timeline", "validation", "upload"}
ASSUME RecsAssumption == {WithMcap, WithStart, WithFrames} \subseteq SUBSET Recs
ASSUME NoneAssumption ==
  None \notin Recs \union Folders \union (Types \X Folders) \union UploadStatus
\* A report is never taken for something else that a file may hold.
ASSUME MarkersAssumption == Recs \intersect ({"none", "torn"} \union UploadStatus) = {}
\* A queue that validates also makes the reports to validate.
ASSUME InputAssumption == "validation" \in Types => "quality" \in Types

VARIABLES
  line, running,  \* the job queue: waiting work and the work inside _execute
  body,           \* where the running job's body is
  rec,            \* Folders -> the recording stored under this path, or None
  art,            \* Folders -> Types -> what the job type's file holds
  remote,         \* recordings stored at the upload destination
  chain,          \* folders whose _run_post_recording_analysis sleeps
  checked,        \* folders an upload request has passed require_dir for
  raced,          \* history: folders whose path changed hands under the running job
  spoiled         \* history: folders where no report is to be expected

vars == <<line, running, body, rec, art, remote, chain, checked, raced, spoiled>>

Line == INSTANCE JobLine WITH NoWork <- None, phase <- "open"

\* "torn" is a file that was opened for writing and not completed.
Content == {"none", "torn"} \union Recs \union UploadStatus
Steps == {"idle", "read", "open", "fill", "transfer", "returned", "raised"}

TypeOK ==
  /\ Line!TypeOK
  /\ body \in [step : Steps, src : Recs \union {None},
               want : Content, file : Folders \union {None}]
  /\ rec \in [Folders -> Recs \union {None}]
  /\ art \in [Folders -> [Types -> Content]]
  /\ remote \in SUBSET Recs
  /\ chain \in SUBSET Folders
  /\ checked \in SUBSET Folders
  /\ raced \in SUBSET Folders
  /\ spoiled \in SUBSET Folders

NoBody == [step |-> "idle", src |-> None, want |-> "none", file |-> None]
NoArt == [t \in Types |-> "none"]

Init ==
  /\ line = <<>> /\ running = None /\ body = NoBody
  /\ rec = [f \in Folders |-> None]
  /\ art = [f \in Folders |-> NoArt]
  /\ remote = {} /\ chain = {} /\ checked = {} /\ raced = {}
  /\ spoiled = {}

-----------------------------------------------------------------------------
(* What the code asks of the disk and of the queue *)

Exists(f) == rec[f] # None
HasMcap(f) == rec[f] \in WithMcap

\* load_report, load_timeline: a missing or unparsable file gives None.
Loaded(f, t) == t \in Types /\ art[f][t] \in Recs

\* list_videos and the glob in _run_generate_media: any *.mp4 counts.
HasVideo(f) == art[f]["media"] # "none"

Busy(t, f) == Line!Busy(<<t, f>>)

\* enqueue_*: the line with the work at its end, unless it is busy already.
Enqueued(l, t, f) ==
  IF t \in Types /\ ~Busy(t, f) THEN Append(l, <<t, f>>) ELSE l

disk == <<rec, art, remote, raced, spoiled>>

-----------------------------------------------------------------------------
(* The facades of the API *)

\* start() of QualityAnalyzer and TimelineAnalyzer.
StartAnalysis(t, f) ==
  /\ t \in Types \intersect {"quality", "timeline"}
  /\ ~Loaded(f, t)
  /\ HasMcap(f)
  /\ Line!Request(<<t, f>>)
  /\ UNCHANGED <<body, chain, checked, disk>>

\* ValidationService.start.
StartValidation(f) ==
  /\ "validation" \in Types
  /\ ~Loaded(f, "validation")
  /\ Loaded(f, "quality")
  /\ Line!Request(<<"validation", f>>)
  /\ UNCHANGED <<body, chain, checked, disk>>

\* start_video_generation.
StartMedia(f) ==
  /\ "media" \in Types
  /\ ~HasVideo(f)
  /\ HasMcap(f)
  /\ Line!Request(<<"media", f>>)
  /\ UNCHANGED <<body, chain, checked, disk>>

\* require_dir is a plain function, so FastAPI runs it on the thread pool
\* before the coroutine of the endpoint. The other facades test the disk again.
CheckUpload(f) ==
  /\ "upload" \in Types
  /\ Exists(f)
  /\ checked' = checked \union {f}
  /\ UNCHANGED <<line, running, body, chain, disk>>

\* UploadService.start: it overwrites, so the state file is no obstacle.
StartUpload(f) ==
  /\ f \in checked
  /\ line' = Enqueued(line, "upload", f)
  /\ checked' = checked \ {f}
  /\ UNCHANGED <<running, body, chain, disk>>

\* UploadService.start_bulk for one folder: it tests the folder itself.
StartBulk(f) ==
  /\ "upload" \in Types
  /\ Exists(f)
  /\ Line!Request(<<"upload", f>>)
  /\ UNCHANGED <<body, chain, checked, disk>>

-----------------------------------------------------------------------------
(* The end of a recording *)

\* Nothing is left of recording r, so that r can stand for a new recording.
IsNew(r) ==
  /\ \A f \in Folders : rec[f] # r /\ \A t \in Types : art[f][t] # r
  /\ r \notin remote
  /\ body.src # r

\* Is the running job at work on the path f?
WorksOn(f) == running # None /\ running[2] = f

\* The folders of F change hands: what they held before no longer matters, but
\* a job that runs on such a path may mix two recordings.
RacedAfter(F) == (raced \ F) \union {f \in F : WorksOn(f)}

\* A recording r is complete under path f. A stop by the operator spawns the
\* post-recording analysis; a recorder that crashed leaves only its folder.
Record(f, r) ==
  /\ ~Exists(f)
  /\ IsNew(r)
  /\ rec' = [rec EXCEPT ![f] = r]
  /\ \/ chain' = chain \union {f}
     \/ chain' = chain
  /\ raced' = RacedAfter({f})
  /\ UNCHANGED <<line, running, body, art, remote, checked, spoiled>>

\* Faulty variant: validation is put in front of quality.
ChainReversed(f) ==
  LET v == IF Loaded(f, "validation") THEN line ELSE Enqueued(line, "validation", f)
  IN  IF Loaded(f, "quality") \/ ~HasMcap(f) THEN v ELSE Enqueued(v, "quality", f)

\* QualityAnalyzer.schedule, then ValidationService.schedule.
ChainLine(f) ==
  LET q == IF Loaded(f, "quality") \/ ~HasMcap(f) THEN line ELSE Enqueued(line, "quality", f)
  IN  IF Loaded(f, "validation") THEN q ELSE Enqueued(q, "validation", f)

\* _run_post_recording_analysis after its sleep: nothing in it suspends.
RunChain(f) ==
  /\ f \in chain
  /\ chain' = chain \ {f}
  /\ line' = ChainLine(f)
  /\ spoiled' = IF HasMcap(f) THEN spoiled ELSE spoiled \union {f}
  /\ UNCHANGED <<running, body, checked, rec, art, remote, raced>>

-----------------------------------------------------------------------------
(* The bodies of the jobs *)

\* Faulty variant: the body does not look for a finished report again.
FirstStepAgain(t, f) ==
  CASE t \in {"quality", "timeline", "media"} -> IF HasMcap(f) THEN "read" ELSE "raised"
    [] t = "validation" -> IF Loaded(f, "quality") THEN "open" ELSE "raised"
    [] t = "upload" -> IF rec[f] \in WithStart THEN "read" ELSE "raised"

\* The part of a body before its first suspension: the result that is already
\* there is skipped, a missing input raises, or the thread is started. Only
\* validation has its input in memory by then.
FirstStep(t, f) ==
  CASE t \in {"quality", "timeline"} ->
         IF Loaded(f, t) THEN "returned" ELSE IF HasMcap(f) THEN "read" ELSE "raised"
    [] t = "validation" ->
         IF Loaded(f, t) THEN "returned" ELSE IF Loaded(f, "quality") THEN "open" ELSE "raised"
    [] t = "media" ->
         IF HasVideo(f) THEN "returned" ELSE IF HasMcap(f) THEN "read" ELSE "raised"
    [] t = "upload" ->
         IF rec[f] \in WithStart THEN "read" ELSE "raised"

\* The worker takes the front job and enters its body. A body that does not
\* suspend is over in the same step in the code; here it ends by a step of
\* its own, so that what it saw is visible.
TakeJob ==
  /\ Line!Begin
  /\ LET t == Head(line)[1]
         f == Head(line)[2]
         src == IF FirstStep(t, f) = "open" THEN art[f]["quality"] ELSE None
     IN  body' = [NoBody EXCEPT !.step = FirstStep(t, f), !.src = src,
                                !.want = IF src = None THEN "none" ELSE src]
  /\ UNCHANGED <<chain, checked, disk>>

Job == running[1]
Path == running[2]
AtStep(s) == running # None /\ body.step = s
Unmoved == UNCHANGED <<line, running, chain, checked>>

\* Without images convert_mcap returns and no .mp4 is left.
HasOutput == Job = "media" => rec[Path] \in WithFrames

\* The thread reads the recording under the path, or packs its zip.
Read ==
  /\ AtStep("read")
  /\ Exists(Path)
  /\ body' = [body EXCEPT !.step = IF HasOutput THEN "open" ELSE "returned", !.src = rec[Path],
                          !.want = IF Job = "upload" THEN "uploading" ELSE rec[Path]]
  /\ Unmoved /\ UNCHANGED disk

\* The folder or its .mcap is gone, the .mcap is unreadable, the disk is full.
ReadFails ==
  /\ AtStep("read")
  /\ "io" \in Faults \/ ~HasMcap(Path)
  /\ body' = [body EXCEPT !.step = "raised"]
  /\ Unmoved /\ UNCHANGED disk

\* write_text or ffmpeg opens the file, by path, and truncates it.
OpenFile ==
  /\ AtStep("open")
  /\ Exists(Path)
  /\ art' = [art EXCEPT ![Path][Job] = "torn"]
  /\ body' = [body EXCEPT !.step = "fill", !.file = Path]
  /\ Unmoved /\ UNCHANGED <<rec, remote, raced, spoiled>>

\* Faulty variant: a file that cannot be written is only logged.
AfterFailureSwallowed == [body EXCEPT !.step = "returned", !.file = None]

\* Only the save of "uploaded" is inside the try of _run_upload: its handler
\* saves "failed" instead, and lets its own failure out like all the others.
AfterFailure ==
  IF body.want = "uploaded" THEN [body EXCEPT !.step = "open", !.want = "failed", !.file = None]
  ELSE [body EXCEPT !.step = "raised", !.file = None]

\* The folder is gone, or the file cannot be opened in it (read-only file
\* system, no free descriptor, I/O error); what it held stays.
OpenFails ==
  /\ AtStep("open")
  /\ "io" \in Faults \/ ~Exists(Path)
  /\ body' = AfterFailure
  /\ Unmoved /\ UNCHANGED disk

\* The step of the body after a file was written.
AfterFill ==
  CASE body.want = "uploading" -> "transfer"
    [] body.want = "failed" -> "raised"
    [] OTHER -> "returned"

\* The open file gets its content, wherever its folder is by now.
FillFile ==
  /\ AtStep("fill")
  /\ art' = [f \in Folders |-> IF f = body.file THEN [art[f] EXCEPT ![Job] = body.want]
                               ELSE art[f]]
  /\ body' = [body EXCEPT !.step = AfterFill, !.file = None]
  /\ Unmoved /\ UNCHANGED <<rec, remote, raced, spoiled>>

\* Faulty variant: the incomplete video is not unlinked.
CleanedNothing == art

\* On failure convert_mcap unlinks by path what it generated; the writers of
\* the reports and states have no such clean-up.
Cleaned ==
  IF Job = "media" /\ Exists(Path) THEN [art EXCEPT ![Path]["media"] = "none"] ELSE art

\* Writing stops half-way: the disk is full, ffmpeg fails.
TearFile ==
  /\ AtStep("fill")
  /\ "io" \in Faults
  /\ art' = Cleaned
  /\ body' = AfterFailure
  /\ Unmoved /\ UNCHANGED <<rec, remote, raced, spoiled>>

\* The destination has the zip; then the state "uploaded" is saved.
Transfer ==
  /\ AtStep("transfer")
  /\ remote' = remote \union {body.src}
  /\ body' = [body EXCEPT !.step = "open", !.want = "uploaded"]
  /\ Unmoved /\ UNCHANGED <<rec, art, raced, spoiled>>

\* Faulty variant: the result of the transfer is not looked at.
TransferFailsIgnored ==
  /\ AtStep("transfer")
  /\ "io" \in Faults \/ ~Exists(Path)
  /\ body' = [body EXCEPT !.step = "open", !.want = "uploaded"]
  /\ Unmoved /\ UNCHANGED disk

\* Faulty variant: _run_upload has no handler around the transfer.
TransferFailsUnhandled ==
  /\ AtStep("transfer")
  /\ "io" \in Faults \/ ~Exists(Path)
  /\ body' = [body EXCEPT !.step = "raised"]
  /\ Unmoved /\ UNCHANGED disk

\* The destination or a progress save raises: the handler saves "failed".
TransferFails ==
  /\ AtStep("transfer")
  /\ "io" \in Faults \/ ~Exists(Path)
  /\ body' = [body EXCEPT !.step = "open", !.want = "failed"]
  /\ Unmoved /\ UNCHANGED disk

\* Faulty variant: a job that raised keeps the worker.
EndJobReturned ==
  /\ body.step = "returned"
  /\ Line!End
  /\ body' = NoBody
  /\ UNCHANGED <<chain, checked, disk>>

\* The rest of _execute: JobQueue!Finish.
EndJob ==
  /\ body.step \in {"returned", "raised"}
  /\ Line!End
  /\ body' = NoBody
  /\ spoiled' = CASE Job = "quality" /\ body.step = "raised" -> spoiled \union {Path}
                  [] Job = "quality" /\ body.step = "returned" /\ Path \notin raced ->
                       spoiled \ {Path}
                  [] OTHER -> spoiled
  /\ UNCHANGED <<chain, checked, rec, art, remote, raced>>

Body == Read \/ ReadFails \/ OpenFile \/ OpenFails \/ FillFile \/ TearFile
          \/ Transfer \/ TransferFails

-----------------------------------------------------------------------------
(* Folder operations and crashes *)

\* delete_recordings for one folder: rmtree, whatever the queue does.
Delete(f) ==
  /\ "delete" \in Faults
  /\ Exists(f)
  /\ rec' = [rec EXCEPT ![f] = None]
  /\ art' = [art EXCEPT ![f] = NoArt]
  /\ body' = IF body.file = f THEN [body EXCEPT !.file = None] ELSE body
  /\ raced' = RacedAfter({f})
  /\ spoiled' = spoiled \union {f}
  /\ UNCHANGED <<line, running, remote, chain, checked>>

\* Faulty variant: the artifacts are copied and stay behind under the old path.
CarriedCopy(f, g) == [art EXCEPT ![g] = art[f]]

\* old_dir.rename(new_dir) moves the artifacts with the recording.
Carried(f, g) == [art EXCEPT ![g] = art[f], ![f] = NoArt]

\* rename_recording, whatever the queue does. An open file follows its folder,
\* the body keeps the old path.
Rename(f, g) ==
  /\ "rename" \in Faults
  /\ Exists(f) /\ ~Exists(g)
  /\ rec' = [rec EXCEPT ![g] = rec[f], ![f] = None]
  /\ art' = Carried(f, g)
  /\ body' = IF body.file = f THEN [body EXCEPT !.file = g] ELSE body
  /\ raced' = RacedAfter({f, g}) \union (IF f \in raced \/ WorksOn(f) THEN {g} ELSE {})
  /\ spoiled' = spoiled \union {f, g}
  /\ UNCHANGED <<line, running, remote, chain, checked>>

\* The process dies and is started again: everything in memory is lost, what
\* was written stays. A graceful shutdown differs only in that the thread of
\* the running job may still do some of its steps.
Crash ==
  /\ "crash" \in Faults
  /\ line' = <<>> /\ running' = None /\ body' = NoBody
  /\ chain' = {} /\ checked' = {} /\ spoiled' = {}
  /\ UNCHANGED <<rec, art, remote, raced>>

FolderOp == \E f, g \in Folders : Delete(f) \/ Rename(f, g)

Next ==
  \/ \E f \in Folders, t \in Types : StartAnalysis(t, f)
  \/ \E f \in Folders : StartValidation(f) \/ StartMedia(f) \/ CheckUpload(f)
                          \/ StartUpload(f) \/ StartBulk(f) \/ RunChain(f)
  \/ \E f \in Folders, r \in Recs : Record(f, r)
  \/ TakeJob \/ Body \/ EndJob
  \/ FolderOp
  \/ Crash

\* The event loop and the thread pool go on; nobody has to ask for anything.
Fairness ==
  /\ WF_vars(TakeJob)
  /\ WF_vars(Body)
  /\ WF_vars(EndJob)
  /\ \A f \in Folders : WF_vars(RunChain(f))

Spec == Init /\ [][Next]_vars /\ Fairness

-----------------------------------------------------------------------------
(* Properties *)

\* The variables have their types, and a report or video describes the recording
\* it lies with. Jobs keep a path, not a recording, and folders are deleted and
\* renamed under waiting jobs; the one exception is a path that changed hands
\* while a job ran on it.
ArtifactsMatch ==
  /\ TypeOK
  /\ \A f \in Folders \ raced, t \in Types : art[f][t] \in Recs => art[f][t] = rec[f]

\* A finished report stays as it is until its folder goes: no later job, from
\* whatever facade and in whatever order, truncates or replaces it, although no
\* writer looks at the file before it opens it.
ReportsSettle ==
  [][\A f \in Folders \ raced, t \in Reports :
       (Loaded(f, t) /\ art'[f][t] # art[f][t]) => FolderOp]_vars

\* A job that is about to be shown as completed has left its result behind.
CompletedMeansDone ==
  \A f \in Folders \ raced :
    (AtStep("returned") /\ Path = f) =>
      CASE Job \in Reports -> Loaded(f, Job)
        [] Job = "upload" -> art[f]["upload"] = "uploaded"
        [] Job = "media" -> HasVideo(f) \/ rec[f] \notin WithFrames

\* The state "uploaded" is a promise: the destination stores this recording.
UploadedIsStored ==
  \A f \in Folders \ raced :
    ("upload" \in Types /\ art[f]["upload"] = "uploaded") => rec[f] \in remote

\* An upload of f is between its first state and its last.
Uploads(f) ==
  /\ running = <<"upload", f>>
  /\ body.step \in {"fill", "transfer"} \/ (body.step = "open" /\ body.want # "uploading")

\* A folder shows "uploading" although no upload is under way: the button of
\* the UI stays disabled.
StuckUpload(f) ==
  /\ "upload" \in Types
  /\ art[f]["upload"] = "uploading"
  /\ ~Uploads(f)

\* The handler that has to say "failed" cannot open the state file either.
HandlerFails == OpenFails /\ body.want = "failed"

\* No single failure of an upload leaves a folder in "uploading": whatever step
\* of the body raises, the state "uploaded" and the progress included, the
\* handler has it replaced. Only a crash, an operation on the folder, or a state
\* file that cannot even be opened to say "failed" leave it there.
UploadsSettle ==
  [][\A f \in Folders \ raced :
       (~StuckUpload(f) /\ StuckUpload(f)') => (Crash \/ FolderOp \/ HandlerFails)]_vars

\* An incomplete video counts as a generated one, so nobody would replace it.
StuckVideo(f) ==
  /\ "media" \in Types
  /\ art[f]["media"] = "torn"
  /\ ~(running = <<"media", f>> /\ body.file = f)

\* "On failure, clean up generated files" (mcap_converter.py): no exception
\* leaves an incomplete video; only a crash or an operation on the folder can.
VideosSettle ==
  [][\A f \in Folders \ raced : (~StuckVideo(f) /\ StuckVideo(f)') => (Crash \/ FolderOp)]_vars

\* QualityAnalyzer.get, TimelineAnalyzer.get and ValidationService.get.
View(t, f) ==
  IF Loaded(f, t) THEN "ready" ELSE IF Busy(t, f) THEN "analyzing" ELSE "not_found"

\* A spinner of the UI does not turn for ever: "analyzing" is followed by a
\* report or by its absence, also for a job queued behind others.
AnalysisEnds ==
  \A f \in Folders, t \in Reports : []<>(View(t, f) # "analyzing")

\* _run_validation found no report to validate.
WithoutReport == AtStep("raised") /\ Job = "validation" /\ body.src = None

\* Validation runs behind the quality job that makes its report, however the
\* chains of several recordings and the requests of the operator interleave: it
\* fails for want of the report only where the quality job had failed or had
\* nothing to read, or its folder went away (recording/router.py:163-167).
ValidationFollowsReport == WithoutReport => Path \in spoiled

\* "The runtime-side failures always leave a `failed` state file behind"
\* (docs/domain/upload.md).
UploadFailureShown ==
  (AtStep("raised") /\ Job = "upload" /\ Exists(Path)) => art[Path]["upload"] = "failed"
=============================================================================
