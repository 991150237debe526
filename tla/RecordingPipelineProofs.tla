----------------------- MODULE RecordingPipelineProofs -----------------------
(***************************************************************************)
(* What the recording folders, their jobs and the faults keep to, for all  *)
(* sets of job types, folders and recordings: the four invariants of       *)
(* RecordingPipeline, and that reports, uploads and videos settle.         *)
(***************************************************************************)
EXTENDS RecordingPipeline, SequenceTheorems, TLAPS

\* A path without a recording has no artifacts that a new one could inherit.
Bare == \A f \in Folders : ~Exists(f) => art[f] = NoArt

\* A report or video belongs to the recording it lies with.
Matching == \A f \in Folders \ raced, t \in Types : art[f][t] \in Recs => art[f][t] = rec[f]

\* The place of the running body, its input and what it is about to write.
BodyExact ==
  /\ running = None <=> body.step = "idle"
  /\ body.step \in {"open", "fill", "transfer"} =>
       /\ body.src \in Recs
       /\ Job = "upload" => body.want \in UploadStatus
       /\ Job # "upload" => body.want = body.src
  /\ body.step = "transfer" => Job = "upload"
  /\ body.step = "read" => Job # "validation"

\* The input is the recording under the path, unless the path changed hands.
SourceExact ==
  body.step \in {"open", "fill", "transfer"} /\ Path \notin raced => body.src = rec[Path]

\* "uploaded" is what the handler is about to save only when the transfer is over.
WantExact ==
  (running # None /\ Job = "upload" /\ body.want = "uploaded") => body.src \in remote

\* An operation on the folder leaves a trace in both histories; Record, which
\* leaves one only in raced, needs a path that was cleared before.
Touched(f) == f \in raced /\ f \in spoiled

\* A file is open only while it is filled. Its folder is there, and is the one
\* of the job unless it was touched.
FileExact ==
  body.file # None =>
    /\ body.step = "fill" /\ Exists(body.file)
    /\ Touched(body.file) \/ body.file = Path

\* The result of the running job is in its folder.
Done ==
  CASE Job \in Reports -> Loaded(Path, Job)
    [] Job = "upload" -> art[Path]["upload"] = "uploaded"
    [] Job = "media" -> HasVideo(Path) \/ rec[Path] \notin WithFrames

\* While a body has not failed and its path was not touched, the folder is there,
\* no finished report is in the way, the open file is the one in the folder,
\* and a body that returned has left its result.
PathExact ==
  (running # None /\ body.step # "raised" /\ ~Touched(Path)) =>
    /\ Exists(Path)
    /\ body.step \in {"read", "open"} /\ Job \in Reports => ~Loaded(Path, Job)
    /\ body.step = "fill" => body.file = Path /\ art[Path][Job] = "torn"
    /\ body.step = "returned" => Done

\* Validation waits behind the quality job that makes its report, unless the
\* report is there or not to be expected.
ReportAhead ==
  \A i \in DOMAIN line, f \in Folders \ spoiled :
    line[i] = <<"validation", f>> =>
      \/ Loaded(f, "quality")
      \/ running = <<"quality", f>>
      \/ \E j \in 1 .. (i - 1) : line[j] = <<"quality", f>>

\* The inductive invariant.
IInv ==
  /\ TypeOK /\ Bare /\ Matching /\ UploadedIsStored
  /\ BodyExact /\ SourceExact /\ WantExact /\ FileExact /\ PathExact
  /\ ReportAhead /\ ValidationFollowsReport

-----------------------------------------------------------------------------
(* Lemmas on the state *)

\* The type invariant without the instance, and what the markers are not.
LEMMA Types1 ==
  TypeOK <=>
    /\ line \in Seq(Types \X Folders)
    /\ running \in (Types \X Folders) \union {None}
    /\ body \in [step : Steps, src : Recs \union {None},
                 want : Content, file : Folders \union {None}]
    /\ rec \in [Folders -> Recs \union {None}]
    /\ art \in [Folders -> [Types -> Content]]
    /\ remote \subseteq Recs /\ chain \subseteq Folders /\ checked \subseteq Folders
    /\ raced \subseteq Folders /\ spoiled \subseteq Folders
BY DEF TypeOK, Line!TypeOK, Line!Work

LEMMA TypesNext ==
  TypeOK' <=>
    /\ line' \in Seq(Types \X Folders)
    /\ running' \in (Types \X Folders) \union {None}
    /\ body' \in [step : Steps, src : Recs \union {None},
                  want : Content, file : Folders \union {None}]
    /\ rec' \in [Folders -> Recs \union {None}]
    /\ art' \in [Folders -> [Types -> Content]]
    /\ remote' \subseteq Recs /\ chain' \subseteq Folders /\ checked' \subseteq Folders
    /\ raced' \subseteq Folders /\ spoiled' \subseteq Folders
BY DEF TypeOK, Line!TypeOK, Line!Work

LEMMA Running ==
  ASSUME TypeOK, running # None
  PROVE  Job \in Types /\ Path \in Folders /\ running = <<Job, Path>>
BY Types1 DEF Job, Path

LEMMA NoArtHolds ==
  NoArt \in [Types -> Content] /\ \A t \in Types : NoArt[t] = "none"
BY DEF NoArt, Content

\* What an invariant says of the queue survives a step that lets the rest alone.
LEMMA SameWork ==
  ASSUME IInv, UNCHANGED <<running, body, rec, art, remote, raced>>,
         line' \in Seq(Types \X Folders), chain' \subseteq Folders, checked' \subseteq Folders,
         spoiled \subseteq spoiled', spoiled' \subseteq Folders, ReportAhead'
  PROVE  IInv'
<1> USE DEF IInv
<1>1. TypeOK'
  BY Types1, TypesNext
<1>2. (Bare /\ Matching /\ UploadedIsStored)'
  BY DEF Bare, Matching, UploadedIsStored, Exists
<1>3. (BodyExact /\ SourceExact /\ WantExact)'
  BY DEF BodyExact, SourceExact, WantExact, Job, Path
<1>4. FileExact'
  BY DEF FileExact, Touched, Exists, Path
<1>5. PathExact'
  BY DEF PathExact, Touched, Exists, Loaded, Done, HasVideo, Job, Path
<1>6. ValidationFollowsReport'
  BY DEF ValidationFollowsReport, WithoutReport, AtStep, Job, Path
<1> QED BY <1>1, <1>2, <1>3, <1>4, <1>5, <1>6

-----------------------------------------------------------------------------
(* Requests *)

\* Work at the end of the line: validation has to come after its report.
LEMMA AppendKeeps ==
  ASSUME TypeOK, ReportAhead, NEW t \in Types, NEW f \in Folders,
         NEW more \in SUBSET Folders, spoiled' = spoiled \union more,
         line' = Append(line, <<t, f>>), UNCHANGED <<running, art>>,
         t = "validation" => \/ f \in spoiled'
                             \/ Loaded(f, "quality")
                             \/ Busy("quality", f)
  PROVE  line' \in Seq(Types \X Folders) /\ ReportAhead'
<1>1. line \in Seq(Types \X Folders) /\ line' \in Seq(Types \X Folders)
  BY Types1
<1>2. /\ DOMAIN line' = 1..(Len(line) + 1) /\ DOMAIN line = 1..Len(line) /\ Len(line) \in Nat
      /\ \A i \in 1..Len(line) : line'[i] = line[i]
      /\ line'[Len(line) + 1] = <<t, f>>
  BY <1>1
<1>3. ASSUME NEW i \in DOMAIN line', NEW g \in Folders, g \notin spoiled',
             line'[i] = <<"validation", g>>
      PROVE  \/ Loaded(g, "quality")
             \/ running = <<"quality", g>>
             \/ \E j \in 1 .. (i - 1) : line'[j] = <<"quality", g>>
  <2>0. i \in 1..Len(line) \/ i = Len(line) + 1
    BY <1>2, <1>3
  <2>1. CASE i \in 1..Len(line)
    <3>1. line[i] = <<"validation", g>> /\ g \notin spoiled
      BY <1>2, <1>3, <2>1
    <3>2. \/ Loaded(g, "quality")
          \/ running = <<"quality", g>>
          \/ \E j \in 1 .. (i - 1) : line[j] = <<"quality", g>>
      BY <1>2, <2>1, <3>1 DEF ReportAhead
    <3>3. \A j \in 1 .. (i - 1) : line'[j] = line[j]
      BY <1>2, <2>1
    <3> QED BY <3>2, <3>3
  <2>2. CASE i = Len(line) + 1
    <3>1. t = "validation" /\ f = g
      BY <1>2, <1>3, <2>2
    <3>2. Loaded(g, "quality") \/ Busy("quality", g)
      BY <1>3, <3>1
    <3>3. Busy("quality", g) =>
            running = <<"quality", g>> \/ \E j \in 1..Len(line) : line[j] = <<"quality", g>>
      BY <1>2 DEF Busy, Line!Busy
    <3>4. \A j \in 1..Len(line) : line'[j] = line[j] /\ j \in 1 .. (i - 1)
      BY <1>2, <2>2
    <3> QED BY <3>2, <3>3, <3>4
  <2> QED BY <2>0, <2>1, <2>2
<1>4. ReportAhead'
  BY <1>3 DEF ReportAhead, Loaded
<1> QED BY <1>1, <1>4

\* The same work, and no report is lost that is still expected.
LEMMA ReportsKept ==
  ASSUME ReportAhead, UNCHANGED <<line, running>>,
         \A f \in Folders \ spoiled' :
           f \notin spoiled /\ (Loaded(f, "quality") => Loaded(f, "quality")')
  PROVE  ReportAhead'
<1>1. ASSUME NEW i \in DOMAIN line, NEW f \in Folders \ spoiled', line[i] = <<"validation", f>>
      PROVE  \/ Loaded(f, "quality")'
             \/ running = <<"quality", f>>
             \/ \E j \in 1 .. (i - 1) : line[j] = <<"quality", f>>
  BY <1>1 DEF ReportAhead
<1> QED BY <1>1 DEF ReportAhead, Loaded

\* The same work, more spoiled folders.
LEMMA SpoilKeeps ==
  ASSUME ReportAhead, spoiled \subseteq spoiled', UNCHANGED <<line, running, art>>
  PROVE  ReportAhead'
BY DEF ReportAhead, Loaded

\* enqueue_* of work whose input is there or on its way.
LEMMA EnqueueKeeps ==
  ASSUME IInv, NEW t \in Types, NEW f \in Folders,
         line' = Enqueued(line, t, f), UNCHANGED <<running, body, disk, chain>>,
         checked' \subseteq Folders,
         t = "validation" => Loaded(f, "quality")
  PROVE  IInv'
<1>0. spoiled' = spoiled \union {} /\ {} \in SUBSET Folders /\ chain \subseteq Folders
      /\ spoiled \subseteq Folders /\ line \in Seq(Types \X Folders)
  BY Types1 DEF IInv, disk
<1>1. CASE line' = line
  <2>1. ReportAhead'
    BY <1>1, SpoilKeeps DEF IInv, disk
  <2> QED BY <1>0, <1>1, <2>1, SameWork DEF disk
<1>2. CASE line' = Append(line, <<t, f>>)
  <2>1. line' \in Seq(Types \X Folders) /\ ReportAhead'
    BY <1>0, <1>2, AppendKeeps DEF IInv, disk
  <2> QED BY <1>0, <2>1, SameWork DEF disk
<1> QED BY <1>1, <1>2 DEF Enqueued

LEMMA RequestsKeep ==
  ASSUME IInv, NEW f \in Folders,
         \/ \E t \in Types : StartAnalysis(t, f)
         \/ StartValidation(f) \/ StartMedia(f) \/ CheckUpload(f)
         \/ StartUpload(f) \/ StartBulk(f)
  PROVE  IInv'
<1>0. checked \subseteq Folders
  BY Types1 DEF IInv
<1>1. ASSUME NEW t \in Types, Line!Request(<<t, f>>)
      PROVE  line' = Enqueued(line, t, f) /\ UNCHANGED running
  BY <1>1 DEF Line!Request, Enqueued, Busy
<1>2. ASSUME NEW t \in Types, StartAnalysis(t, f) PROVE IInv'
  BY <1>0, <1>1, <1>2, EnqueueKeeps DEF StartAnalysis
<1>3. CASE StartValidation(f)
  BY <1>0, <1>1, <1>3, EnqueueKeeps DEF StartValidation
<1>4. CASE StartMedia(f)
  BY <1>0, <1>1, <1>4, EnqueueKeeps DEF StartMedia
<1>5. CASE CheckUpload(f)
  <2>1. ReportAhead'
    BY <1>5, SpoilKeeps DEF IInv, CheckUpload, disk
  <2>2. line \in Seq(Types \X Folders) /\ chain \subseteq Folders /\ spoiled \subseteq Folders
    BY Types1 DEF IInv
  <2> QED BY <1>0, <1>5, <2>1, <2>2, SameWork DEF CheckUpload, disk
<1>6. CASE StartUpload(f)
  <2>1. CASE "upload" \in Types
    BY <1>0, <1>6, <2>1, EnqueueKeeps DEF StartUpload
  <2>2. CASE "upload" \notin Types
    <3>1. ReportAhead' /\ line' = line
      BY <1>6, <2>2, SpoilKeeps DEF IInv, StartUpload, Enqueued, disk
    <3>2. line \in Seq(Types \X Folders) /\ chain \subseteq Folders /\ spoiled \subseteq Folders
      BY Types1 DEF IInv
    <3> QED BY <1>0, <1>6, <3>1, <3>2, SameWork DEF StartUpload, disk
  <2> QED BY <2>1, <2>2
<1>7. CASE StartBulk(f)
  BY <1>0, <1>1, <1>7, EnqueueKeeps DEF StartBulk
<1> QED BY <1>2, <1>3, <1>4, <1>5, <1>6, <1>7

-----------------------------------------------------------------------------
(* The end of a recording and the chain behind it *)

\* Folders that change hands leave raced, or enter it under the running job.
LEMMA RacedIs ==
  ASSUME TypeOK, NEW F \in SUBSET Folders
  PROVE  /\ RacedAfter(F) \subseteq Folders
         /\ \A f \in Folders \ F : f \in RacedAfter(F) <=> f \in raced
         /\ \A f \in F : f \in RacedAfter(F) <=> running # None /\ f = Path
BY Types1 DEF RacedAfter, WorksOn, Path

LEMMA RecordKeeps ==
  ASSUME IInv, NEW f \in Folders, NEW r \in Recs, Record(f, r)
  PROVE  IInv'
<1> USE DEF IInv
<1>1. /\ ~Exists(f) /\ rec' = [rec EXCEPT ![f] = r] /\ raced' = RacedAfter({f})
      /\ UNCHANGED <<line, running, body, art, remote, spoiled>>
      /\ art[f] = NoArt /\ r \notin remote
  BY DEF Record, Bare, IsNew
<1>2. /\ raced' \subseteq Folders
      /\ \A g \in Folders \ {f} : g \in raced' <=> g \in raced
      /\ f \in raced' <=> running # None /\ f = Path
  BY <1>1, RacedIs
<1>3. rec \in [Folders -> Recs \union {None}] /\ None \notin Recs
  BY Types1, NoneAssumption
<1>4. \A g \in Folders \ {f} : rec'[g] = rec[g]
  BY <1>1, <1>3
<1>5. rec'[f] = r /\ r # None
  BY <1>1, <1>3
<1>6. TypeOK'
  <2>1. chain' \subseteq Folders /\ checked' \subseteq Folders
    BY Types1 DEF Record
  <2>2. rec' \in [Folders -> Recs \union {None}]
    BY <1>1, <1>3
  <2> QED BY <1>1, <1>2, <2>1, <2>2, Types1, TypesNext
<1>7. Bare'
  BY <1>1, <1>4, <1>5 DEF Bare, Exists
<1>8. Matching' /\ UploadedIsStored'
  <2>1. \A t \in Types : art[f][t] = "none"
    BY <1>1, NoArtHolds
  <2>2. "none" \notin Recs
    BY MarkersAssumption
  <2>3. ASSUME NEW g \in Folders, g \notin raced'
        PROVE  /\ \A t \in Types : art[g][t] \in Recs => art[g][t] = rec'[g]
               /\ "upload" \in Types /\ art[g]["upload"] = "uploaded" => rec'[g] \in remote
    <3>1. CASE g = f
      BY <2>1, <2>2, <3>1
    <3>2. CASE g # f
      BY <1>2, <1>4, <2>3, <3>2 DEF Matching, UploadedIsStored
    <3> QED BY <3>1, <3>2
  <2>4. art' = art /\ remote' = remote
    BY <1>1
  <2> QED BY <2>3, <2>4 DEF Matching, UploadedIsStored
<1>9. BodyExact' /\ WantExact' /\ ReportAhead' /\ ValidationFollowsReport'
  BY <1>1 DEF BodyExact, WantExact, ReportAhead, ValidationFollowsReport, WithoutReport, AtStep,
              Loaded, Job, Path
<1>10. SourceExact'
  BY <1>1, <1>2, <1>4, Running DEF SourceExact, BodyExact, Path
<1>11. FileExact'
  BY <1>1, <1>2, <1>3, <1>4, <1>5, Types1 DEF FileExact, Touched, Exists, Path, BodyExact
<1>12. PathExact'
  <2> SUFFICES ASSUME running # None, body.step # "raised", ~Touched(Path)' PROVE PathExact'
    BY <1>1 DEF PathExact, Path
  <2>1. Path \in Folders /\ Path' = Path /\ Job' = Job
    BY <1>1, Running DEF Path, Job
  <2>2. Path # f
    <3> SUFFICES ASSUME Path = f PROVE FALSE
      OBVIOUS
    <3>1. Path \in raced'
      BY <1>2, <2>1
    <3>2. Path \notin spoiled
      BY <1>1, <2>1, <3>1 DEF Touched
    <3> QED BY <1>1, <3>2 DEF PathExact, Touched
  <2>3. ~Touched(Path)
    BY <1>1, <1>2, <2>1, <2>2 DEF Touched
  <2>4. rec'[Path] = rec[Path]
    BY <1>4, <2>1, <2>2
  <2> QED BY <1>1, <2>1, <2>3, <2>4 DEF PathExact, Exists, Loaded, Done, HasVideo
<1> QED BY <1>6, <1>7, <1>8, <1>9, <1>10, <1>11, <1>12

LEMMA RunChainKeeps ==
  ASSUME IInv, NEW f \in Folders, RunChain(f)
  PROVE  IInv'
<1> DEFINE ready == Loaded(f, "quality") \/ ~HasMcap(f)
           q == IF ready THEN line ELSE Enqueued(line, "quality", f)
           more == IF HasMcap(f) THEN {} ELSE {f}
<1>1. /\ line' = IF Loaded(f, "validation") THEN q ELSE Enqueued(q, "validation", f)
      /\ spoiled' = spoiled \union more
      /\ UNCHANGED <<running, body, rec, art, remote, raced>>
      /\ chain' \subseteq Folders /\ checked' \subseteq Folders /\ spoiled' \subseteq Folders
  BY Types1 DEF RunChain, ChainLine, IInv
<1>2. line \in Seq(Types \X Folders)
  BY Types1 DEF IInv
<1>3. more \in SUBSET Folders
  OBVIOUS
<1> HIDE DEF more
<1> SUFFICES line' \in Seq(Types \X Folders) /\ ReportAhead'
  BY <1>1, SameWork
<1>4. CASE line' = line
  BY <1>1, <1>2, <1>4, SpoilKeeps DEF IInv
<1>5. CASE "quality" \in Types /\ line' = Append(line, <<"quality", f>>)
  BY <1>1, <1>3, <1>5, AppendKeeps DEF IInv
<1>6. CASE /\ "validation" \in Types /\ line' = Append(line, <<"validation", f>>)
           /\ f \in spoiled' \/ Loaded(f, "quality") \/ Busy("quality", f)
  BY <1>1, <1>3, <1>6, AppendKeeps DEF IInv
<1>7. CASE /\ "quality" \in Types /\ "validation" \in Types
           /\ line' = Append(Append(line, <<"quality", f>>), <<"validation", f>>)
  <2> DEFINE mid == Append(line, <<"quality", f>>)
             n == Len(line)
  <2>1. /\ n \in Nat /\ DOMAIN line = 1..n
        /\ line' \in Seq(Types \X Folders)
        /\ DOMAIN line' = 1..(n + 2)
        /\ \A i \in 1..n : line'[i] = line[i]
        /\ line'[n + 1] = <<"quality", f>> /\ line'[n + 2] = <<"validation", f>>
    BY <1>2, <1>7
  <2>2. ASSUME NEW i \in 1..(n + 2), NEW g \in Folders, g \notin spoiled',
               line'[i] = <<"validation", g>>
        PROVE  \/ Loaded(g, "quality")
               \/ running = <<"quality", g>>
               \/ \E j \in 1 .. (i - 1) : line'[j] = <<"quality", g>>
    <3>0. i \in 1..n \/ i = n + 1 \/ i = n + 2
      BY <2>1
    <3>1. CASE i \in 1..n
      <4>1. \/ Loaded(g, "quality")
            \/ running = <<"quality", g>>
            \/ \E j \in 1 .. (i - 1) : line[j] = <<"quality", g>>
        BY <1>1, <2>1, <2>2, <3>1 DEF IInv, ReportAhead
      <4>2. \A j \in 1 .. (i - 1) : line'[j] = line[j]
        BY <2>1, <3>1
      <4> QED BY <4>1, <4>2
    <3>2. CASE i = n + 1
      BY <2>1, <2>2, <3>2
    <3>3. CASE i = n + 2
      <4>1. g = f /\ n + 1 \in 1 .. (i - 1)
        BY <2>1, <2>2, <3>3
      <4> QED BY <2>1, <4>1
    <3> QED BY <3>0, <3>1, <3>2, <3>3
  <2>3. ReportAhead'
    BY <1>1, <2>1, <2>2 DEF ReportAhead, Loaded
  <2> QED BY <2>1, <2>3
<1>8. "validation" \in Types => "quality" \in Types
  BY InputAssumption
<1>9. ~HasMcap(f) => f \in spoiled'
  BY <1>1 DEF more
<1>10. CASE ready
  BY <1>1, <1>4, <1>6, <1>9, <1>10 DEF Enqueued
<1>11. CASE ~ready /\ "quality" \in Types /\ ~Busy("quality", f)
  BY <1>1, <1>5, <1>7, <1>11 DEF Enqueued
<1>12. CASE ~ready /\ ("quality" \in Types => Busy("quality", f))
  BY <1>1, <1>4, <1>6, <1>8, <1>12 DEF Enqueued
<1> QED BY <1>10, <1>11, <1>12

-----------------------------------------------------------------------------
(* Entering a body *)

LEMMA FirstStepIs ==
  ASSUME NEW t \in Types, NEW f \in Folders
  PROVE  /\ FirstStep(t, f) \in {"read", "open", "returned", "raised"}
         /\ FirstStep(t, f) = "read" => /\ t # "validation"
                                        /\ HasMcap(f) \/ rec[f] \in WithStart
                                        /\ t \in Reports => ~Loaded(f, t)
         /\ FirstStep(t, f) = "open" =>
              t = "validation" /\ Loaded(f, "quality") /\ ~Loaded(f, t)
         /\ FirstStep(t, f) = "returned" =>
              (t \in Reports /\ Loaded(f, t)) \/ (t = "media" /\ HasVideo(f))
         /\ t = "validation" /\ FirstStep(t, f) = "raised" => ~Loaded(f, "quality")
<1>1. t \in {"media", "quality", "timeline", "validation", "upload"}
  BY TypesAssumption
<1>2. CASE t \in {"quality", "timeline"}
  <2>1. FirstStep(t, f) =
          IF Loaded(f, t) THEN "returned" ELSE IF HasMcap(f) THEN "read" ELSE "raised"
    BY <1>2 DEF FirstStep
  <2> QED BY <1>2, <2>1 DEF Reports
<1>3. CASE t = "validation"
  <2>1. FirstStep(t, f) =
          IF Loaded(f, t) THEN "returned" ELSE IF Loaded(f, "quality") THEN "open" ELSE "raised"
    BY <1>3 DEF FirstStep
  <2> QED BY <1>3, <2>1 DEF Reports
<1>4. CASE t = "media"
  <2>1. FirstStep(t, f) =
          IF HasVideo(f) THEN "returned" ELSE IF HasMcap(f) THEN "read" ELSE "raised"
    BY <1>4 DEF FirstStep
  <2> QED BY <1>4, <2>1 DEF Reports
<1>5. CASE t = "upload"
  <2>1. FirstStep(t, f) = IF rec[f] \in WithStart THEN "read" ELSE "raised"
    BY <1>5 DEF FirstStep
  <2> QED BY <1>5, <2>1 DEF Reports
<1> QED BY <1>1, <1>2, <1>3, <1>4, <1>5

\* A folder with a report or a video is there.
LEMMA ArtifactsExist ==
  ASSUME IInv, NEW f \in Folders
  PROVE  /\ \A t \in Types : art[f][t] # "none" => Exists(f)
         /\ HasMcap(f) \/ rec[f] \in WithStart => Exists(f) /\ rec[f] \in Recs
<1>1. \A t \in Types : art[f][t] # "none" => Exists(f)
  BY NoArtHolds DEF IInv, Bare
<1>2. HasMcap(f) \/ rec[f] \in WithStart => rec[f] \in Recs
  BY RecsAssumption DEF HasMcap
<1> QED BY <1>1, <1>2, NoneAssumption DEF Exists

LEMMA TakeJobKeeps ==
  ASSUME IInv, TakeJob
  PROVE  IInv'
<1> DEFINE t == Head(line)[1]
           f == Head(line)[2]
           step == FirstStep(t, f)
           src == IF step = "open" THEN art[f]["quality"] ELSE None
           want == IF src = None THEN "none" ELSE src
<1>1. /\ line \in Seq(Types \X Folders) /\ line # <<>>
      /\ running = None /\ running' = Head(line) /\ line' = Tail(line)
      /\ UNCHANGED <<chain, checked, disk>>
  BY Types1 DEF TakeJob, Line!Begin, IInv
<1>2. t \in Types /\ f \in Folders /\ running' = <<t, f>> /\ line[1] = <<t, f>>
  BY <1>1
<1>3. running' # None /\ Job' = t /\ Path' = f
  BY <1>2, NoneAssumption DEF Job, Path
<1>4. body' = [step |-> step, src |-> src, want |-> want, file |-> None]
  BY DEF TakeJob, NoBody
<1>5. UNCHANGED <<rec, art, remote, raced, spoiled>>
  BY <1>1 DEF disk
<1>6. "none" \notin Recs /\ None \notin Recs
  BY MarkersAssumption, NoneAssumption
<1> HIDE DEF t, f
<1>7. /\ step \in {"read", "open", "returned", "raised"}
      /\ step = "read" => /\ t # "validation"
                          /\ HasMcap(f) \/ rec[f] \in WithStart
                          /\ t \in Reports => ~Loaded(f, t)
      /\ step = "open" => t = "validation" /\ Loaded(f, "quality") /\ ~Loaded(f, t)
      /\ step = "returned" => (t \in Reports /\ Loaded(f, t)) \/ (t = "media" /\ HasVideo(f))
      /\ t = "validation" /\ step = "raised" => ~Loaded(f, "quality")
  BY <1>2, FirstStepIs
<1> HIDE DEF step
<1>8. step = "open" => "quality" \in Types /\ src \in Recs /\ want = src
  BY <1>6, <1>7 DEF Loaded
<1>9. step # "open" => src = None /\ want = "none"
  OBVIOUS
<1> HIDE DEF src, want
<1>10. TypeOK'
  <2>1. body' \in [step : Steps, src : Recs \union {None}, want : Content,
                   file : Folders \union {None}]
    BY <1>4, <1>7, <1>8, <1>9 DEF Steps, Content
  <2>2. line' \in Seq(Types \X Folders) /\ running' \in Types \X Folders
    BY <1>1, <1>2
  <2> QED BY <1>1, <1>5, <2>1, <2>2, Types1, TypesNext DEF IInv
<1>11. Bare' /\ Matching' /\ UploadedIsStored'
  BY <1>5 DEF IInv, Bare, Matching, UploadedIsStored, Exists
<1>12. BodyExact'
  BY <1>3, <1>4, <1>7, <1>8 DEF BodyExact
<1>13. SourceExact'
  BY <1>2, <1>3, <1>4, <1>5, <1>7, <1>8 DEF SourceExact, IInv, Matching, src
<1>14. WantExact'
  BY <1>3, <1>4, <1>7, <1>8, <1>9 DEF WantExact
<1>15. FileExact'
  BY <1>4 DEF FileExact
<1>16. PathExact'
  <2>1. step \in {"read", "open", "returned"} => Exists(f)
    BY <1>2, <1>6, <1>7, ArtifactsExist DEF Loaded, HasVideo, Reports
  <2>2. step = "returned" => Done'
    <3>1. CASE t \in Reports
      BY <1>3, <1>5, <1>7, <3>1 DEF Done, Loaded, Reports
    <3>2. CASE t = "media"
      BY <1>3, <1>5, <1>7, <3>2 DEF Done, HasVideo, Reports
    <3> QED BY <1>7, <3>1, <3>2
  <2>3. step \in {"read", "open"} /\ t \in Reports => ~Loaded(f, t)
    BY <1>7
  <2> QED BY <1>3, <1>4, <1>5, <1>7, <2>1, <2>2, <2>3 DEF PathExact, Exists, Loaded
<1>17. ReportAhead'
  <2> SUFFICES ASSUME NEW i \in DOMAIN line', NEW g \in Folders, g \notin spoiled',
                      line'[i] = <<"validation", g>>
               PROVE  \/ Loaded(g, "quality")
                      \/ running' = <<"quality", g>>
                      \/ \E j \in 1 .. (i - 1) : line'[j] = <<"quality", g>>
    BY <1>5 DEF ReportAhead, Loaded
  <2>1. /\ DOMAIN line = 1..Len(line) /\ Len(line) \in Nat /\ i \in 1..(Len(line) - 1)
        /\ \A j \in 1..(Len(line) - 1) : line'[j] = line[j + 1]
    BY <1>1
  <2>2. i + 1 \in DOMAIN line /\ line[i + 1] = <<"validation", g>> /\ g \notin spoiled
    BY <1>5, <2>1
  <2>3. Loaded(g, "quality") \/ \E j \in 1 .. ((i + 1) - 1) : line[j] = <<"quality", g>>
    <3>1. running # <<"quality", g>>
      BY <1>1, InputAssumption, NoneAssumption, <1>2, <2>2
    <3> QED BY <2>2, <3>1 DEF IInv, ReportAhead
  <2>4. ASSUME NEW j \in 1 .. ((i + 1) - 1), line[j] = <<"quality", g>>
        PROVE  running' = <<"quality", g>> \/ \E k \in 1 .. (i - 1) : line'[k] = <<"quality", g>>
    <3>1. CASE j = 1
      BY <1>2, <2>4, <3>1
    <3>2. CASE j # 1
      <4>1. j - 1 \in 1 .. (i - 1) /\ line'[j - 1] = line[(j - 1) + 1] /\ (j - 1) + 1 = j
        BY <2>1, <3>2
      <4> QED BY <2>4, <4>1
    <3> QED BY <3>1, <3>2
  <2> QED BY <2>3, <2>4
<1>18. ValidationFollowsReport'
  <2> SUFFICES ASSUME t = "validation", step = "raised", f \notin spoiled PROVE FALSE
    BY <1>3, <1>4, <1>5 DEF ValidationFollowsReport, WithoutReport, AtStep
  <2>1. 1 \in DOMAIN line /\ line[1] = <<"validation", f>>
    BY <1>1, <1>2
  <2>2. running # <<"quality", f>>
    BY <1>1, <1>2, InputAssumption, NoneAssumption
  <2>3. \E j \in 1 .. (1 - 1) : line[j] = <<"quality", f>>
    BY <1>2, <1>7, <2>1, <2>2 DEF IInv, ReportAhead
  <2> QED BY <2>3
<1> QED BY <1>10, <1>11, <1>12, <1>13, <1>14, <1>15, <1>16, <1>17, <1>18 DEF IInv

-----------------------------------------------------------------------------
(* The steps of a body *)

\* What the invariant says of a body in progress.
LEMMA InBody ==
  ASSUME IInv, running # None
  PROVE  /\ Job \in Types /\ Path \in Folders
         /\ Job \in Reports \/ Job = "media" \/ Job = "upload"
         /\ body.src \in Recs \union {None} /\ body.want \in Content
         /\ body.file \in Folders \union {None}
         /\ body.step # "fill" => body.file = None
         /\ body = [step |-> body.step, src |-> body.src, want |-> body.want, file |-> body.file]
<1>1. Job \in Types /\ Path \in Folders
  BY Running DEF IInv
<1>2. body \in [step : Steps, src : Recs \union {None}, want : Content,
                file : Folders \union {None}]
  BY Types1 DEF IInv
<1>3. Job \in Reports \/ Job = "media" \/ Job = "upload"
  BY <1>1, TypesAssumption DEF Reports
<1> QED BY <1>1, <1>2, <1>3 DEF IInv, FileExact

\* What is left to show of a step that changes the body only.
LEMMA SameDisk ==
  ASSUME IInv, Unmoved, UNCHANGED disk,
         NEW step \in Steps, NEW src \in Recs \union {None}, NEW want \in Content,
         NEW file \in Folders \union {None},
         body' = [step |-> step, src |-> src, want |-> want, file |-> file],
         BodyExact', SourceExact', WantExact', FileExact', PathExact', ValidationFollowsReport'
  PROVE  IInv'
<1>1. UNCHANGED <<line, running, chain, checked, rec, art, remote, raced, spoiled>>
  BY DEF Unmoved, disk
<1>2. TypeOK'
  BY <1>1, Types1, TypesNext DEF IInv
<1>3. Bare' /\ Matching' /\ UploadedIsStored'
  BY <1>1 DEF IInv, Bare, Matching, UploadedIsStored, Exists
<1>4. ReportAhead'
  BY <1>1, SpoilKeeps DEF IInv
<1> QED BY <1>2, <1>3, <1>4 DEF IInv

\* A file gets new content c: an artifact of its folder's recording, a status
\* that is true, and no end of a finished quality report.
LEMMA WriteKeeps ==
  ASSUME IInv, UNCHANGED <<line, running, rec, remote, raced, spoiled>>,
         NEW g \in Folders, Exists(g), NEW c,
         \A f \in Folders \ {g} : art'[f] = art[f],
         \A t \in Types : art'[g][t] = IF t = Job THEN c ELSE art[g][t],
         g \notin raced => /\ c \in Recs => c = rec[g]
                           /\ Job = "upload" /\ c = "uploaded" => rec[g] \in remote,
         Job = "quality" /\ g \notin spoiled /\ Loaded(g, "quality") => c \in Recs
  PROVE  Bare' /\ Matching' /\ UploadedIsStored' /\ ReportAhead'
<1>1. Bare'
  BY DEF IInv, Bare, Exists
<1>2. ASSUME NEW f \in Folders, f \notin raced
      PROVE  /\ \A t \in Types : art'[f][t] \in Recs => art'[f][t] = rec[f]
             /\ "upload" \in Types /\ art'[f]["upload"] = "uploaded" => rec[f] \in remote
  <2>1. CASE f = g
    BY <1>2, <2>1 DEF IInv, Matching, UploadedIsStored
  <2>2. CASE f # g
    BY <1>2, <2>2 DEF IInv, Matching, UploadedIsStored
  <2> QED BY <2>1, <2>2
<1>3. ASSUME NEW f \in Folders, f \notin spoiled, Loaded(f, "quality")
      PROVE  Loaded(f, "quality")'
  BY <1>3 DEF Loaded
<1>4. ReportAhead'
  BY <1>3 DEF IInv, ReportAhead
<1> QED BY <1>1, <1>2, <1>4 DEF Matching, UploadedIsStored

LEMMA ReadKeeps ==
  ASSUME IInv, Read \/ ReadFails
  PROVE  IInv'
<1>0. running # None /\ Unmoved /\ UNCHANGED disk
  BY DEF Read, ReadFails, AtStep
<1>1. UNCHANGED <<line, running, rec, art, remote, raced, spoiled>>
      /\ UNCHANGED <<Job, Path>>
  BY <1>0 DEF Unmoved, disk, Job, Path
<1>2. Touched(Path)' <=> Touched(Path)
  BY <1>1 DEF Touched
<1>3. body.file = None
  BY <1>0, InBody DEF Read, ReadFails, AtStep
<1>4. CASE Read
  <2> DEFINE step == IF HasOutput THEN "open" ELSE "returned"
             want == IF Job = "upload" THEN "uploading" ELSE rec[Path]
  <2>1. body' = [step |-> step, src |-> rec[Path], want |-> want, file |-> None]
    BY <1>0, <1>3, <1>4, InBody DEF Read
  <2>2. rec[Path] \in Recs /\ step \in Steps /\ want \in Content
    BY <1>0, <1>4, InBody, Types1 DEF Read, Exists, Steps, Content, IInv, UploadStatus
  <2>3. body.step = "read" /\ Exists(Path)
    BY <1>4 DEF Read, AtStep
  <2> HIDE DEF want
  <2>4. step \in {"open", "returned"}
    OBVIOUS
  <2>5. BodyExact'
    <3>1. running' # None
      BY <1>0, <1>1
    <3>2. Job = "upload" => want \in UploadStatus
      BY DEF want, UploadStatus
    <3>3. Job # "upload" => want = rec[Path]
      BY DEF want
    <3> QED BY <1>1, <2>1, <2>2, <2>4, <3>1, <3>2, <3>3 DEF BodyExact
  <2>6. SourceExact'
    BY <1>1, <2>1 DEF SourceExact
  <2>7. WantExact'
    BY <1>1, <2>1 DEF WantExact, want
  <2>8. FileExact'
    BY <2>1 DEF FileExact
  <2>9. PathExact'
    <3> SUFFICES ASSUME ~Touched(Path) PROVE PathExact'
      BY <1>2 DEF PathExact
    <3>1. Job \in Reports => ~Loaded(Path, Job)
      BY <1>0, <2>3 DEF IInv, PathExact
    <3>2. step = "returned" => Done'
      BY <1>1, InBody, <1>0 DEF HasOutput, Done, Reports
    <3> QED BY <1>1, <2>1, <2>3, <2>4, <3>1, <3>2 DEF PathExact, Exists, Loaded
  <2>10. ValidationFollowsReport'
    BY <2>1, <2>4 DEF ValidationFollowsReport, WithoutReport, AtStep
  <2> QED BY <1>0, <2>1, <2>2, <2>5, <2>6, <2>7, <2>8, <2>9, <2>10, SameDisk
<1>5. CASE ReadFails
  <2>1. body' = [step |-> "raised", src |-> body.src, want |-> body.want, file |-> None]
    BY <1>0, <1>3, <1>5, InBody DEF ReadFails
  <2>2. body.src \in Recs \union {None} /\ body.want \in Content /\ "raised" \in Steps
    BY <1>0, InBody DEF Steps
  <2>3. BodyExact' /\ SourceExact' /\ FileExact' /\ PathExact'
    BY <1>0, <1>1, <2>1 DEF BodyExact, SourceExact, FileExact, PathExact
  <2>4. WantExact'
    BY <1>1, <2>1 DEF IInv, WantExact
  <2>5. ValidationFollowsReport'
    <3>1. body.step = "read"
      BY <1>5 DEF ReadFails, AtStep
    <3>2. body.step = "read" => Job # "validation"
      BY DEF IInv, BodyExact
    <3> QED BY <1>1, <2>1, <3>1, <3>2 DEF ValidationFollowsReport, WithoutReport, AtStep
  <2> QED BY <1>0, <2>1, <2>2, <2>3, <2>4, <2>5, SameDisk
<1> QED BY <1>4, <1>5

\* What is left to show of a step that writes a file.
LEMMA SamePlaces ==
  ASSUME IInv, Unmoved, UNCHANGED <<rec, remote, raced, spoiled>>,
         art' \in [Folders -> [Types -> Content]],
         NEW step \in Steps, NEW want \in Content, NEW file \in Folders \union {None},
         body' = [step |-> step, src |-> body.src, want |-> want, file |-> file],
         Bare', Matching', UploadedIsStored', ReportAhead',
         BodyExact', SourceExact', WantExact', FileExact', PathExact', ValidationFollowsReport'
  PROVE  IInv'
<1>1. body.src \in Recs \union {None}
  BY Types1 DEF IInv
<1>2. TypeOK'
  BY <1>1, Types1, TypesNext DEF IInv, Unmoved
<1> QED BY <1>2 DEF IInv

LEMMA OpenFileKeeps ==
  ASSUME IInv, OpenFile
  PROVE  IInv'
<1>1. running # None /\ body.step = "open" /\ Exists(Path) /\ Unmoved
  BY DEF OpenFile, AtStep
<1>2. /\ UNCHANGED <<line, running, rec, remote, raced, spoiled>>
      /\ UNCHANGED <<Job, Path>> /\ (Touched(Path)' <=> Touched(Path))
  BY DEF OpenFile, Unmoved, Job, Path, Touched
<1>3. Job \in Types /\ Path \in Folders
  BY <1>1, InBody
<1>4. body' = [step |-> "fill", src |-> body.src, want |-> body.want, file |-> Path]
  BY <1>1, InBody DEF OpenFile
<1>5. art \in [Folders -> [Types -> Content]] /\ art' = [art EXCEPT ![Path][Job] = "torn"]
  BY Types1 DEF OpenFile, IInv
<1>6. /\ art' \in [Folders -> [Types -> Content]]
      /\ \A f \in Folders \ {Path} : art'[f] = art[f]
      /\ \A t \in Types : art'[Path][t] = IF t = Job THEN "torn" ELSE art[Path][t]
  BY <1>3, <1>5 DEF Content
<1>7. "torn" \notin Recs
  BY MarkersAssumption
<1>8. Path \notin spoiled /\ Job = "quality" => ~Loaded(Path, "quality")
  BY <1>1, <1>3 DEF IInv, PathExact, Touched, Reports
<1>9. Bare' /\ Matching' /\ UploadedIsStored' /\ ReportAhead'
  BY <1>1, <1>2, <1>3, <1>6, <1>7, <1>8, WriteKeeps
<1>10. BodyExact' /\ SourceExact' /\ WantExact'
  BY <1>1, <1>2, <1>4 DEF IInv, BodyExact, SourceExact, WantExact
<1>11. FileExact'
  BY <1>1, <1>2, <1>4 DEF FileExact, Exists
<1>12. PathExact'
  BY <1>1, <1>2, <1>3, <1>4, <1>6 DEF PathExact, Exists
<1>13. ValidationFollowsReport'
  BY <1>4 DEF ValidationFollowsReport, WithoutReport, AtStep
<1>14. body.want \in Content /\ "fill" \in Steps
  BY <1>1, InBody DEF Steps
<1> QED BY <1>1, <1>2, <1>3, <1>4, <1>6, <1>9, <1>10, <1>11, <1>12, <1>13, <1>14, SamePlaces

LEMMA FillFileKeeps ==
  ASSUME IInv, FillFile
  PROVE  IInv'
<1>1. running # None /\ body.step = "fill" /\ Unmoved
  BY DEF FillFile, AtStep
<1>2. /\ UNCHANGED <<line, running, rec, remote, raced, spoiled>>
      /\ UNCHANGED <<Job, Path>> /\ (Touched(Path)' <=> Touched(Path))
  BY DEF FillFile, Unmoved, Job, Path, Touched
<1>3. /\ Job \in Types /\ Path \in Folders /\ body.file \in Folders \union {None}
      /\ Job \in Reports \/ Job = "media" \/ Job = "upload"
      /\ body.want \in Content
  BY <1>1, InBody
<1>4. body' = [step |-> AfterFill, src |-> body.src, want |-> body.want, file |-> None]
  BY <1>1, InBody DEF FillFile
<1>5. /\ AfterFill \in {"transfer", "raised", "returned"}
      /\ AfterFill = "transfer" => body.want = "uploading"
      /\ AfterFill = "returned" => body.want \notin {"uploading", "failed"}
  BY DEF AfterFill
<1>6. art \in [Folders -> [Types -> Content]]
      /\ art' = [f \in Folders |-> IF f = body.file THEN [art[f] EXCEPT ![Job] = body.want]
                                   ELSE art[f]]
  BY Types1 DEF FillFile, IInv
<1>7. /\ body.src \in Recs
      /\ Job = "upload" => body.want \in UploadStatus
      /\ Job # "upload" => body.want = body.src
      /\ Path \notin raced => body.src = rec[Path]
      /\ Job = "upload" /\ body.want = "uploaded" => body.src \in remote
  BY <1>1 DEF IInv, BodyExact, SourceExact, WantExact
<1>8. /\ "none" \notin Recs /\ "uploading" \notin Recs /\ "uploaded" \notin Recs
      /\ \A c \in UploadStatus : c \notin Recs
  BY MarkersAssumption DEF UploadStatus
<1>9. body.file # None => Exists(body.file) /\ (Touched(body.file) \/ body.file = Path)
  BY DEF IInv, FileExact
<1>10. ~Touched(Path) => body.file = Path
  BY <1>1 DEF IInv, PathExact
<1> HIDE DEF IInv
<1>11. /\ art' \in [Folders -> [Types -> Content]]
       /\ \A f \in Folders \ {body.file} : art'[f] = art[f]
       /\ body.file # None =>
            \A t \in Types : art'[body.file][t] = IF t = Job THEN body.want
                                                  ELSE art[body.file][t]
  BY <1>3, <1>6
<1>12. Bare' /\ Matching' /\ UploadedIsStored' /\ ReportAhead'
  <2>1. CASE body.file = None
    <3>1. art' = art
      BY <1>6, <2>1, NoneAssumption
    <3> QED BY <1>2, <3>1, SpoilKeeps DEF IInv, Bare, Matching, UploadedIsStored, Exists
  <2>2. CASE body.file # None
    <3>1. body.file \in Folders /\ Exists(body.file)
      BY <1>3, <1>9, <2>2
    <3>2. body.file \notin raced => body.file = Path /\ body.src = rec[Path]
      BY <1>7, <1>9, <2>2 DEF Touched
    <3>3. body.file \notin raced =>
            /\ body.want \in Recs => body.want = rec[body.file]
            /\ Job = "upload" /\ body.want = "uploaded" => rec[body.file] \in remote
      BY <1>7, <1>8, <3>2
    <3>4. Job = "quality" => body.want \in Recs
      BY <1>7
    <3> QED BY <1>2, <1>11, <2>2, <3>1, <3>3, <3>4, WriteKeeps
  <2> QED BY <2>1, <2>2
<1>13. BodyExact'
  <2>1. body.want = "uploading" => Job = "upload"
    BY <1>7, <1>8
  <2> QED BY <1>1, <1>2, <1>4, <1>5, <1>7, <2>1 DEF BodyExact
<1>14. SourceExact' /\ WantExact' /\ FileExact'
  BY <1>2, <1>4, <1>7 DEF SourceExact, WantExact, FileExact
<1>15. PathExact'
  <2> SUFFICES ASSUME ~Touched(Path), AfterFill # "raised" PROVE PathExact'
    BY <1>2, <1>4 DEF PathExact
  <2>1. Exists(Path) /\ body.file = Path /\ Path # None
    BY <1>1, <1>3, <1>10, NoneAssumption DEF IInv, PathExact
  <2>2. art'[Path][Job] = body.want
    BY <1>3, <1>11, <2>1
  <2>3. AfterFill = "returned" => Done'
    <3>1. CASE Job \in Reports
      BY <1>2, <1>3, <1>7, <2>2, <3>1 DEF Done, Loaded, Reports
    <3>2. CASE Job = "media"
      BY <1>2, <1>3, <1>7, <1>8, <2>2, <3>2 DEF Done, HasVideo, Reports
    <3>3. CASE Job = "upload"
      BY <1>2, <1>3, <1>5, <1>7, <2>2, <3>3 DEF Done, Reports, UploadStatus
    <3> QED BY <1>3, <3>1, <3>2, <3>3
  <2> QED BY <1>2, <1>4, <1>5, <2>1, <2>3 DEF PathExact, Exists
<1>16. ValidationFollowsReport'
  BY <1>4, <1>7, NoneAssumption DEF ValidationFollowsReport, WithoutReport, AtStep
<1>17. AfterFill \in Steps
  BY <1>5 DEF Steps
<1> QED BY <1>1, <1>2, <1>3, <1>4, <1>11, <1>12, <1>13, <1>14, <1>15, <1>16, <1>17, SamePlaces

\* A file that could not be opened, or not be filled.
LEMMA FailureKeeps ==
  ASSUME IInv, OpenFails \/ TearFile
  PROVE  IInv'
<1>1. running # None /\ body.step \in {"open", "fill"} /\ Unmoved
  BY DEF OpenFails, TearFile, AtStep
<1>2. /\ UNCHANGED <<line, running, rec, remote, raced, spoiled>>
      /\ UNCHANGED <<Job, Path>> /\ (Touched(Path)' <=> Touched(Path))
  BY DEF OpenFails, TearFile, Unmoved, disk, Job, Path, Touched
<1>3. Job \in Types /\ Path \in Folders /\ body.want \in Content
  BY <1>1, InBody
<1> DEFINE again == body.want = "uploaded"
           step == IF again THEN "open" ELSE "raised"
           want == IF again THEN "failed" ELSE body.want
<1>4. body' = [step |-> step, src |-> body.src, want |-> want, file |-> None]
  BY <1>1, InBody DEF OpenFails, TearFile, AfterFailure
<1>5. /\ body.src \in Recs
      /\ Job # "upload" => body.want = body.src
      /\ Path \notin raced => body.src = rec[Path]
  BY <1>1 DEF IInv, BodyExact, SourceExact
<1>6. "none" \notin Recs /\ "uploaded" \notin Recs
  BY MarkersAssumption DEF UploadStatus
<1>7. again => Job = "upload"
  BY <1>5, <1>6
<1>8. art \in [Folders -> [Types -> Content]] /\ (art' = art \/ art' = Cleaned)
  BY Types1 DEF OpenFails, TearFile, disk, IInv
<1>9. CASE art' = art
  <2>1. Bare' /\ Matching' /\ UploadedIsStored' /\ ReportAhead'
    BY <1>2, <1>9, SpoilKeeps DEF IInv, Bare, Matching, UploadedIsStored, Exists
  <2>2. BodyExact'
    BY <1>1, <1>2, <1>4, <1>5, <1>7 DEF BodyExact, UploadStatus
  <2>3. SourceExact' /\ WantExact' /\ FileExact'
    BY <1>2, <1>4, <1>5 DEF SourceExact, WantExact, FileExact
  <2>4. PathExact'
    BY <1>1, <1>2, <1>4, <1>7 DEF IInv, PathExact, Exists, Reports
  <2>5. ValidationFollowsReport'
    BY <1>4, <1>5, NoneAssumption DEF ValidationFollowsReport, WithoutReport, AtStep
  <2>6. step \in Steps /\ want \in Content /\ None \in Folders \union {None}
    BY <1>3 DEF Steps, Content, UploadStatus
  <2> HIDE DEF step, want, IInv
  <2> QED BY <1>1, <1>2, <1>4, <1>8, <1>9, <2>1, <2>2, <2>3, <2>4, <2>5, <2>6, SamePlaces
<1>10. CASE Job = "media" /\ Exists(Path) /\ art' = [art EXCEPT ![Path]["media"] = "none"]
  <2>1. step = "raised" /\ want = body.want
    BY <1>7, <1>10
  <2>2. /\ art' \in [Folders -> [Types -> Content]]
        /\ \A f \in Folders \ {Path} : art'[f] = art[f]
        /\ \A t \in Types : art'[Path][t] = IF t = Job THEN "none" ELSE art[Path][t]
    BY <1>3, <1>8, <1>10 DEF Content
  <2>3. Bare' /\ Matching' /\ UploadedIsStored' /\ ReportAhead'
    BY <1>2, <1>3, <1>6, <1>10, <2>2, WriteKeeps
  <2>4. BodyExact' /\ SourceExact' /\ WantExact' /\ FileExact' /\ PathExact'
    BY <1>1, <1>2, <1>4, <1>10, <2>1
       DEF BodyExact, SourceExact, WantExact, FileExact, PathExact
  <2>5. ValidationFollowsReport'
    BY <1>2, <1>10 DEF ValidationFollowsReport, WithoutReport
  <2>6. "raised" \in Steps /\ None \in Folders \union {None}
    BY DEF Steps
  <2> HIDE DEF step, want, IInv
  <2> QED BY <1>1, <1>2, <1>3, <1>4, <2>1, <2>2, <2>3, <2>4, <2>5, <2>6, SamePlaces
<1> QED BY <1>8, <1>9, <1>10 DEF Cleaned

LEMMA TransferKeeps ==
  ASSUME IInv, Transfer \/ TransferFails
  PROVE  IInv'
<1>1. running # None /\ body.step = "transfer" /\ Unmoved
  BY DEF Transfer, TransferFails, AtStep
<1>2. /\ UNCHANGED <<line, running, rec, art, raced, spoiled>>
      /\ UNCHANGED <<Job, Path>> /\ (Touched(Path)' <=> Touched(Path))
  BY DEF Transfer, TransferFails, Unmoved, disk, Job, Path, Touched
<1>3. /\ body.src \in Recs /\ Job = "upload"
      /\ Path \notin raced => body.src = rec[Path]
  BY <1>1 DEF IInv, BodyExact, SourceExact
<1>4. PICK want \in {"uploaded", "failed"} :
        /\ body' = [step |-> "open", src |-> body.src, want |-> want, file |-> None]
        /\ remote \subseteq remote' /\ remote' \subseteq Recs
        /\ want = "uploaded" => body.src \in remote'
  <2>1. CASE Transfer
    BY <1>1, <1>3, <2>1, InBody, Types1 DEF Transfer, IInv
  <2>2. CASE TransferFails
    BY <1>1, <1>3, <2>2, InBody, Types1 DEF TransferFails, disk, IInv
  <2> QED BY <2>1, <2>2
<1>5. Bare' /\ Matching' /\ UploadedIsStored'
  BY <1>2, <1>4 DEF IInv, Bare, Matching, UploadedIsStored, Exists
<1>6. ReportAhead'
  BY <1>2, SpoilKeeps DEF IInv
<1>7. BodyExact'
  BY <1>1, <1>2, <1>3, <1>4 DEF BodyExact, UploadStatus
<1>8. SourceExact' /\ WantExact' /\ FileExact'
  BY <1>2, <1>3, <1>4 DEF SourceExact, WantExact, FileExact
<1>9. PathExact'
  BY <1>1, <1>2, <1>3, <1>4 DEF IInv, PathExact, Exists, Reports
<1>10. ValidationFollowsReport'
  BY <1>4 DEF ValidationFollowsReport, WithoutReport, AtStep
<1>11. TypeOK'
  <2>1. want \in Content /\ "open" \in Steps
    BY DEF Content, UploadStatus, Steps
  <2>2. body' \in [step : Steps, src : Recs \union {None}, want : Content,
                   file : Folders \union {None}]
    BY <1>3, <1>4, <2>1
  <2> QED BY <1>1, <1>2, <1>4, <2>2, Types1, TypesNext DEF IInv, Unmoved
<1> QED BY <1>5, <1>6, <1>7, <1>8, <1>9, <1>10, <1>11 DEF IInv

\* The end of a job. Its report is there, or is not to be expected any more.
LEMMA EndJobKeeps ==
  ASSUME IInv, EndJob
  PROVE  IInv'
<1>1. /\ running # None /\ running' = None /\ body' = NoBody
      /\ body.step \in {"returned", "raised"}
      /\ UNCHANGED <<line, chain, checked, rec, art, remote, raced>>
  BY DEF EndJob, Line!End
<1>2. Job \in Types /\ Path \in Folders /\ running = <<Job, Path>>
  BY <1>1, Running DEF IInv
<1>3. /\ spoiled' \subseteq Folders
      /\ \A f \in spoiled \ spoiled' :
           Job = "quality" /\ f = Path /\ body.step = "returned" /\ Path \notin raced
      /\ Job = "quality" /\ body.step = "raised" => Path \in spoiled'
  <2>1. spoiled \subseteq Folders
    BY Types1 DEF IInv
  <2>2. CASE Job # "quality"
    <3>1. spoiled' = spoiled
      BY <2>2 DEF EndJob
    <3> QED BY <2>1, <2>2, <3>1
  <2>3. CASE Job = "quality" /\ body.step = "raised"
    <3>1. spoiled' = spoiled \union {Path}
      BY <2>3 DEF EndJob
    <3> QED BY <1>2, <2>1, <2>3, <3>1
  <2>4. CASE Job = "quality" /\ body.step = "returned" /\ Path \in raced
    <3>1. spoiled' = spoiled
      BY <2>4 DEF EndJob
    <3> QED BY <2>1, <2>4, <3>1
  <2>5. CASE Job = "quality" /\ body.step = "returned" /\ Path \notin raced
    <3>1. spoiled' = spoiled \ {Path}
      BY <2>5 DEF EndJob
    <3> QED BY <2>1, <2>5, <3>1
  <2> QED BY <1>1, <2>2, <2>3, <2>4, <2>5
<1>4. body.step = "returned" /\ Job = "quality" /\ ~Touched(Path) => Loaded(Path, "quality")
  BY <1>1, <1>2 DEF IInv, PathExact, Done, Reports
<1>5. ReportAhead'
  <2> SUFFICES ASSUME NEW i \in DOMAIN line, NEW f \in Folders, f \notin spoiled',
                      line[i] = <<"validation", f>>
               PROVE  \/ Loaded(f, "quality")
                      \/ \E j \in 1 .. (i - 1) : line[j] = <<"quality", f>>
    BY <1>1 DEF ReportAhead, Loaded
  <2>1. CASE f \in spoiled
    BY <1>3, <1>4, <2>1 DEF Touched
  <2>2. CASE f \notin spoiled /\ running = <<"quality", f>>
    <3>1. Job = "quality" /\ Path = f
      BY <2>2 DEF Job, Path
    <3> QED BY <1>1, <1>3, <1>4, <2>2, <3>1 DEF Touched
  <2>3. CASE f \notin spoiled /\ running # <<"quality", f>>
    BY <2>3 DEF IInv, ReportAhead
  <2> QED BY <2>1, <2>2, <2>3
<1>6. TypeOK'
  <2>1. body' \in [step : Steps, src : Recs \union {None}, want : Content,
                   file : Folders \union {None}]
    BY <1>1 DEF NoBody, Steps, Content
  <2> QED BY <1>1, <1>3, <2>1, Types1, TypesNext DEF IInv
<1>7. Bare' /\ Matching' /\ UploadedIsStored'
  BY <1>1 DEF IInv, Bare, Matching, UploadedIsStored, Exists
<1>8. BodyExact' /\ SourceExact' /\ WantExact' /\ FileExact' /\ PathExact'
  BY <1>1 DEF NoBody, BodyExact, SourceExact, WantExact, FileExact, PathExact
<1>9. ValidationFollowsReport'
  BY <1>1 DEF ValidationFollowsReport, WithoutReport, AtStep
<1> QED BY <1>5, <1>6, <1>7, <1>8, <1>9 DEF IInv

-----------------------------------------------------------------------------
(* Folder operations and crashes *)

\* A body whose open file may have moved or gone, under folders that changed hands.
LEMMA FolderOpKeepsBody ==
  ASSUME IInv, NEW F \in SUBSET Folders, NEW file \in Folders \union {None},
         UNCHANGED <<line, running, remote, chain, checked>>,
         body' = [body EXCEPT !.file = file],
         body.file \notin F => file = body.file,
         spoiled' = spoiled \union F, raced' \subseteq Folders,
         running # None /\ Path \in F => Path \in raced',
         \A f \in Folders \ F : /\ rec'[f] = rec[f] /\ art'[f] = art[f]
                                /\ f \in raced' <=> f \in raced,
         rec' \in [Folders -> Recs \union {None}], art' \in [Folders -> [Types -> Content]],
         FileExact', \A f \in F : Exists(f)' \/ art'[f] = NoArt,
         \A f \in F \ raced', t \in Types : art'[f][t] \in Recs => art'[f][t] = rec'[f],
         \A f \in F \ raced' :
           "upload" \in Types /\ art'[f]["upload"] = "uploaded" => rec'[f] \in remote
  PROVE  IInv'
<1>1. body \in [step : Steps, src : Recs \union {None}, want : Content,
                file : Folders \union {None}]
  BY Types1 DEF IInv
<1>2. /\ body' \in [step : Steps, src : Recs \union {None}, want : Content,
                    file : Folders \union {None}]
      /\ body'.step = body.step /\ body'.src = body.src /\ body'.want = body.want
      /\ body'.file = file
  BY <1>1
<1>3. Job' = Job /\ Path' = Path
  BY DEF Job, Path
<1>4. TypeOK'
  BY <1>2, Types1, TypesNext DEF IInv
<1>5. Bare' /\ Matching' /\ UploadedIsStored'
  BY DEF IInv, Bare, Matching, UploadedIsStored, Exists
<1>6. BodyExact' /\ WantExact'
  BY <1>2, <1>3 DEF IInv, BodyExact, WantExact
<1>7. running # None => Path \in Folders
  BY InBody
<1>8. SourceExact'
  BY <1>2, <1>3, <1>7 DEF IInv, SourceExact, BodyExact
<1>9. PathExact'
  <2> SUFFICES ASSUME running # None, body.step # "raised", ~Touched(Path)' PROVE PathExact'
    BY <1>2, <1>3 DEF PathExact, Touched
  <2>1. Path \in Folders \ F
    BY <1>3, <1>7 DEF Touched
  <2>2. /\ ~Touched(Path)
        /\ rec'[Path] = rec[Path] /\ art'[Path] = art[Path]
    BY <1>3, <2>1 DEF Touched
  <2>3. body.file = Path => file = Path
    BY <2>1
  <2> QED BY <1>2, <1>3, <2>1, <2>2, <2>3
          DEF IInv, PathExact, Exists, Loaded, Done, HasVideo
<1>10. ReportAhead'
  <2>1. ASSUME NEW f \in Folders, f \notin spoiled' PROVE art'[f] = art[f] /\ f \notin spoiled
    BY <2>1
  <2>2. ReportAhead
    BY DEF IInv
  <2>3. ASSUME NEW f \in Folders \ spoiled', Loaded(f, "quality") PROVE Loaded(f, "quality")'
    BY <2>1, <2>3 DEF Loaded
  <2> QED BY <2>1, <2>2, <2>3, ReportsKept
<1>11. ValidationFollowsReport'
  BY <1>2, <1>3 DEF IInv, ValidationFollowsReport, WithoutReport, AtStep
<1> QED BY <1>4, <1>5, <1>6, <1>8, <1>9, <1>10, <1>11 DEF IInv

LEMMA DeleteKeeps ==
  ASSUME IInv, NEW f \in Folders, Delete(f)
  PROVE  IInv'
<1> DEFINE F == {f}
<1>1. /\ rec \in [Folders -> Recs \union {None}] /\ art \in [Folders -> [Types -> Content]]
      /\ body \in [step : Steps, src : Recs \union {None}, want : Content,
                   file : Folders \union {None}]
  BY Types1 DEF IInv
<1>2. /\ rec' = [rec EXCEPT ![f] = None] /\ art' = [art EXCEPT ![f] = NoArt]
      /\ raced' = RacedAfter({f}) /\ spoiled' = spoiled \union {f}
      /\ UNCHANGED <<line, running, remote, chain, checked>>
  BY DEF Delete
<1>3. PICK file \in Folders \union {None} :
        /\ file = IF body.file = f THEN None ELSE body.file
        /\ body' = [body EXCEPT !.file = file]
  BY <1>1 DEF Delete
<1>4. /\ raced' \subseteq Folders
      /\ \A g \in Folders \ {f} : g \in raced' <=> g \in raced
      /\ f \in raced' <=> running # None /\ f = Path
  BY <1>2, RacedIs DEF IInv
<1>5. /\ rec' \in [Folders -> Recs \union {None}] /\ art' \in [Folders -> [Types -> Content]]
      /\ \A g \in Folders \ {f} : rec'[g] = rec[g] /\ art'[g] = art[g]
      /\ art'[f] = NoArt
  BY <1>1, <1>2, NoArtHolds
<1>6. \A t \in Types : art'[f][t] \notin Recs /\ art'[f][t] # "uploaded"
  BY <1>5, NoArtHolds, MarkersAssumption
<1>7. FileExact'
  <2> SUFFICES ASSUME file # None
               PROVE  body.step = "fill" /\ Exists(file)' /\ (Touched(file)' \/ file = Path)
    BY <1>1, <1>2, <1>3 DEF FileExact, Path
  <2>1. body.file = file /\ file \in Folders \ {f}
    BY <1>1, <1>3
  <2> QED BY <1>2, <1>4, <1>5, <2>1 DEF IInv, FileExact, Exists, Touched
<1>8. /\ UNCHANGED <<line, running, remote, chain, checked>>
      /\ spoiled' = spoiled \union F /\ raced' \subseteq Folders
      /\ rec' \in [Folders -> Recs \union {None}] /\ art' \in [Folders -> [Types -> Content]]
      /\ body' = [body EXCEPT !.file = file]
  BY <1>2, <1>3, <1>4, <1>5
<1>9. running # None /\ Path \in F => Path \in raced'
  BY <1>4
<1>10. /\ F \in SUBSET Folders
       /\ body.file \notin F => file = body.file
       /\ \A h \in Folders \ F : /\ rec'[h] = rec[h] /\ art'[h] = art[h]
                                 /\ h \in raced' <=> h \in raced
       /\ \A h \in F : Exists(h)' \/ art'[h] = NoArt
       /\ \A h \in F \ raced', t \in Types : art'[h][t] \in Recs => art'[h][t] = rec'[h]
       /\ \A h \in F \ raced' :
            "upload" \in Types /\ art'[h]["upload"] = "uploaded" => rec'[h] \in remote
  BY <1>3, <1>4, <1>5, <1>6
<1> HIDE DEF F, IInv
<1> QED BY <1>7, <1>8, <1>9, <1>10, FolderOpKeepsBody

LEMMA RenameKeeps ==
  ASSUME IInv, NEW f \in Folders, NEW g \in Folders, Rename(f, g)
  PROVE  IInv'
<1> DEFINE F == {f, g}
<1>1. /\ rec \in [Folders -> Recs \union {None}] /\ art \in [Folders -> [Types -> Content]]
      /\ body \in [step : Steps, src : Recs \union {None}, want : Content,
                   file : Folders \union {None}]
      /\ raced \subseteq Folders
  BY Types1 DEF IInv
<1>2. /\ Exists(f) /\ ~Exists(g) /\ f # g
      /\ rec' = [rec EXCEPT ![g] = rec[f], ![f] = None]
      /\ art' = [art EXCEPT ![g] = art[f], ![f] = NoArt]
      /\ spoiled' = spoiled \union F
      /\ UNCHANGED <<line, running, remote, chain, checked>>
  BY DEF Rename, Carried
<1>3. PICK file \in Folders \union {None} :
        /\ file = IF body.file = f THEN g ELSE body.file
        /\ body' = [body EXCEPT !.file = file]
  BY <1>1 DEF Rename
<1>4. /\ raced' \subseteq Folders
      /\ \A h \in Folders \ F : h \in raced' <=> h \in raced
      /\ running # None /\ Path \in F => Path \in raced'
      /\ f \in raced \/ (running # None /\ f = Path) => g \in raced'
  <2>1. raced' = RacedAfter(F) \union (IF f \in raced \/ WorksOn(f) THEN {g} ELSE {})
    BY DEF Rename
  <2>2. WorksOn(f) <=> running # None /\ f = Path
    BY DEF WorksOn, Path
  <2>3. /\ RacedAfter(F) \subseteq Folders
        /\ \A h \in Folders \ F : h \in RacedAfter(F) <=> h \in raced
        /\ \A h \in F : h \in RacedAfter(F) <=> running # None /\ h = Path
    BY RacedIs DEF IInv
  <2> QED BY <2>1, <2>2, <2>3
<1>5. /\ rec' \in [Folders -> Recs \union {None}] /\ art' \in [Folders -> [Types -> Content]]
      /\ \A h \in Folders \ F : rec'[h] = rec[h] /\ art'[h] = art[h]
      /\ rec'[g] = rec[f] /\ art'[g] = art[f] /\ art'[f] = NoArt
  BY <1>1, <1>2, NoArtHolds
<1>6. \A t \in Types : art'[f][t] \notin Recs /\ art'[f][t] # "uploaded"
  BY <1>5, NoArtHolds, MarkersAssumption
<1>7. Exists(g)'
  BY <1>2, <1>5 DEF Exists
<1>8. g \notin raced' =>
        /\ \A t \in Types : art'[g][t] \in Recs => art'[g][t] = rec'[g]
        /\ "upload" \in Types /\ art'[g]["upload"] = "uploaded" => rec'[g] \in remote
  BY <1>4, <1>5 DEF IInv, Matching, UploadedIsStored
<1>9. FileExact'
  <2> SUFFICES ASSUME file # None
               PROVE  body.step = "fill" /\ Exists(file)' /\ (Touched(file)' \/ file = Path)
    BY <1>1, <1>2, <1>3 DEF FileExact, Path
  <2>0. body.file # None /\ body.step = "fill" /\ Exists(body.file) /\ running # None
    <3>1. body.file # None
      BY NoneAssumption, <1>3
    <3> QED BY <3>1 DEF IInv, FileExact, BodyExact
  <2>1. CASE body.file = f
    <3>1. f \in raced \/ f = Path
      BY <2>0, <2>1 DEF IInv, FileExact, Touched
    <3> QED BY <1>2, <1>3, <1>4, <1>7, <2>0, <2>1, <3>1 DEF Touched
  <2>2. CASE body.file # f
    <3>1. body.file = file /\ file \in Folders \ F
      BY <1>1, <1>2, <1>3, <2>0, <2>2
    <3> QED BY <1>2, <1>4, <1>5, <2>0, <3>1 DEF IInv, FileExact, Exists, Touched
  <2> QED BY <2>1, <2>2
<1>10. /\ F \in SUBSET Folders
       /\ body.file \notin F => file = body.file
       /\ \A h \in Folders \ F : /\ rec'[h] = rec[h] /\ art'[h] = art[h]
                                 /\ h \in raced' <=> h \in raced
       /\ \A h \in F : Exists(h)' \/ art'[h] = NoArt
       /\ \A h \in F \ raced', t \in Types : art'[h][t] \in Recs => art'[h][t] = rec'[h]
       /\ \A h \in F \ raced' :
            "upload" \in Types /\ art'[h]["upload"] = "uploaded" => rec'[h] \in remote
  BY <1>3, <1>4, <1>5, <1>6, <1>7, <1>8
<1> HIDE DEF F, IInv
<1> QED BY <1>2, <1>3, <1>4, <1>5, <1>9, <1>10, FolderOpKeepsBody

LEMMA CrashKeeps ==
  ASSUME IInv, Crash
  PROVE  IInv'
<1>1. /\ line' = <<>> /\ running' = None /\ body' = NoBody
      /\ chain' = {} /\ checked' = {} /\ spoiled' = {}
      /\ UNCHANGED <<rec, art, remote, raced>>
  BY DEF Crash
<1>2. TypeOK'
  <2>1. NoBody \in [step : Steps, src : Recs \union {None}, want : Content,
                    file : Folders \union {None}]
    BY DEF NoBody, Steps, Content
  <2> QED BY <1>1, <2>1, Types1, TypesNext DEF IInv
<1>3. Bare' /\ Matching' /\ UploadedIsStored'
  BY <1>1 DEF IInv, Bare, Matching, UploadedIsStored, Exists
<1>4. BodyExact' /\ SourceExact' /\ WantExact' /\ FileExact' /\ PathExact'
  BY <1>1 DEF NoBody, BodyExact, SourceExact, WantExact, FileExact, PathExact
<1>5. ReportAhead' /\ ValidationFollowsReport'
  BY <1>1 DEF ReportAhead, ValidationFollowsReport, WithoutReport, AtStep
<1> QED BY <1>2, <1>3, <1>4, <1>5 DEF IInv
-----------------------------------------------------------------------------
(* The invariant *)

\* The invariant holds in every state of every behaviour.
THEOREM InvHolds == Spec => []IInv
<1>1. Init => IInv
  <2> SUFFICES ASSUME Init PROVE IInv
    OBVIOUS
  <2>1. /\ line = <<>> /\ running = None /\ body = NoBody
        /\ rec = [f \in Folders |-> None] /\ art = [f \in Folders |-> NoArt]
        /\ remote = {} /\ chain = {} /\ checked = {} /\ raced = {} /\ spoiled = {}
    BY DEF Init
  <2>2. NoBody \in [step : Steps, src : Recs \union {None}, want : Content,
                    file : Folders \union {None}]
    BY DEF NoBody, Steps, Content
  <2>3. TypeOK
    BY <2>1, <2>2, NoArtHolds, Types1
  <2>4. Bare /\ Matching /\ UploadedIsStored
    BY <2>1, NoArtHolds, MarkersAssumption DEF Bare, Matching, UploadedIsStored
  <2>5. BodyExact /\ SourceExact /\ WantExact /\ FileExact /\ PathExact
    BY <2>1 DEF NoBody, BodyExact, SourceExact, WantExact, FileExact, PathExact
  <2>6. ReportAhead /\ ValidationFollowsReport
    BY <2>1 DEF ReportAhead, ValidationFollowsReport, WithoutReport, AtStep
  <2> QED BY <2>3, <2>4, <2>5, <2>6 DEF IInv
<1>2. IInv /\ [Next]_vars => IInv'
  <2> SUFFICES ASSUME IInv, [Next]_vars PROVE IInv'
    OBVIOUS
  <2>1. CASE UNCHANGED vars
    <3>1. UNCHANGED <<line, running, body, rec, art, remote, chain, checked, raced, spoiled>>
      BY <2>1 DEF vars
    <3>2. ReportAhead'
      BY <3>1 DEF IInv, ReportAhead, Loaded
    <3> QED BY <3>1, <3>2, SameWork, Types1 DEF IInv
  <2>2. CASE \E f \in Folders, t \in Types : StartAnalysis(t, f)
    BY <2>2, RequestsKeep
  <2>3. CASE \E f \in Folders : StartValidation(f) \/ StartMedia(f) \/ CheckUpload(f)
                                  \/ StartUpload(f) \/ StartBulk(f) \/ RunChain(f)
    BY <2>3, RequestsKeep, RunChainKeeps
  <2>4. CASE \E f \in Folders, r \in Recs : Record(f, r)
    BY <2>4, RecordKeeps
  <2>5. CASE TakeJob \/ EndJob
    BY <2>5, TakeJobKeeps, EndJobKeeps
  <2>6. CASE Body
    BY <2>6, ReadKeeps, OpenFileKeeps, FillFileKeeps, FailureKeeps, TransferKeeps DEF Body
  <2>7. CASE FolderOp
    BY <2>7, DeleteKeeps, RenameKeeps DEF FolderOp
  <2>8. CASE Crash
    BY <2>8, CrashKeeps
  <2> QED BY <2>1, <2>2, <2>3, <2>4, <2>5, <2>6, <2>7, <2>8 DEF Next
<1> QED BY <1>1, <1>2, PTL DEF Spec

\* A report or video lies with the recording it describes, whatever is deleted,
\* renamed, recorded again or restarted under the queue.
THEOREM ArtifactsMatchHolds == Spec => []ArtifactsMatch
<1>1. IInv => ArtifactsMatch
  BY DEF IInv, Matching, ArtifactsMatch
<1> QED BY <1>1, InvHolds, PTL

\* A body that returns has left its result with the recording.
THEOREM CompletedMeansDoneHolds == Spec => []CompletedMeansDone
<1>1. IInv => CompletedMeansDone
  <2> SUFFICES ASSUME IInv, NEW f \in Folders \ raced, AtStep("returned"), Path = f
               PROVE  CASE Job \in Reports -> Loaded(f, Job)
                        [] Job = "upload" -> art[f]["upload"] = "uploaded"
                        [] Job = "media" -> HasVideo(f) \/ rec[f] \notin WithFrames
    BY DEF CompletedMeansDone
  <2>1. Done
    BY DEF IInv, PathExact, Touched, AtStep
  <2>2. Path = f
    OBVIOUS
  <2> QED BY <2>1, <2>2 DEF Done
<1> QED BY <1>1, InvHolds, PTL

\* The destination has what is shown as uploaded.
THEOREM UploadedIsStoredHolds == Spec => []UploadedIsStored
<1>1. IInv => UploadedIsStored
  BY DEF IInv
<1> QED BY <1>1, InvHolds, PTL

\* Validation finds its report unless the report could not be made.
THEOREM ValidationFollowsReportHolds == Spec => []ValidationFollowsReport
<1>1. IInv => ValidationFollowsReport
  BY DEF IInv
<1> QED BY <1>1, InvHolds, PTL

-----------------------------------------------------------------------------
(* What settles *)

\* Apart from crashes and folder operations only the worker touches artifacts.
LEMMA Writers ==
  ASSUME [Next]_vars, ~FolderOp, ~Crash
  PROVE  UNCHANGED <<running, body, art>> \/ TakeJob \/ Body \/ EndJob
<1>1. CASE UNCHANGED vars
  BY <1>1 DEF vars
<1>2. ASSUME NEW f \in Folders, NEW t \in Types, StartAnalysis(t, f)
      PROVE  UNCHANGED <<running, body, art>>
  BY <1>2 DEF StartAnalysis, Line!Request, disk
<1>3. ASSUME NEW f \in Folders,
             \/ StartValidation(f) \/ StartMedia(f) \/ CheckUpload(f)
             \/ StartUpload(f) \/ StartBulk(f) \/ RunChain(f)
      PROVE  UNCHANGED <<running, body, art>>
  BY <1>3 DEF StartValidation, StartMedia, CheckUpload, StartUpload, StartBulk, RunChain,
              Line!Request, disk
<1>4. ASSUME NEW f \in Folders, NEW r \in Recs, Record(f, r)
      PROVE  UNCHANGED <<running, body, art>>
  BY <1>4 DEF Record
<1> QED BY <1>1, <1>2, <1>3, <1>4 DEF Next

\* What a step of the body writes to the file of a job type in a folder.
LEMMA Writes ==
  ASSUME IInv, Body, NEW f \in Folders, NEW t \in Types, art'[f][t] # art[f][t]
  PROVE  \/ /\ OpenFile /\ f = Path /\ t = Job /\ art'[f][t] = "torn"
         \/ /\ FillFile /\ f = body.file /\ t = Job /\ art'[f][t] = body.want
         \/ /\ TearFile /\ f = Path /\ t = "media" /\ art'[f][t] = "none"
<1>1. art \in [Folders -> [Types -> Content]]
  BY Types1 DEF IInv
<1>2. OpenFile \/ FillFile \/ TearFile
  BY DEF Body, Read, ReadFails, OpenFails, Transfer, TransferFails, disk
<1>3. CASE OpenFile
  BY <1>1, <1>3 DEF OpenFile
<1>4. CASE FillFile
  <2>1. art'[f] = IF f = body.file THEN [art[f] EXCEPT ![Job] = body.want] ELSE art[f]
    BY <1>4 DEF FillFile
  <2> QED BY <1>1, <1>4, <2>1
<1>5. CASE TearFile
  BY <1>1, <1>5 DEF TearFile, Cleaned
<1> QED BY <1>2, <1>3, <1>4, <1>5

\* A body at work whose path kept its owner finds its folder, its file and its
\* own mark in it.
LEMMA AtWork ==
  ASSUME IInv, NEW f \in Folders \ raced
  PROVE  /\ body.step \in {"open", "fill", "transfer"} /\ Path = f => running # None /\ Exists(f)
         /\ body.step = "open" /\ Path = f /\ Job \in Reports => ~Loaded(f, Job)
         /\ body.step = "fill" /\ body.file = f => Path = f
         /\ body.step = "fill" /\ Path = f => body.file = f /\ art[f][Job] = "torn"
<1>1. /\ FileExact /\ PathExact
      /\ running = None <=> body.step = "idle"
      /\ ~Touched(f)
  BY DEF IInv, BodyExact, Touched
<1>2. body.step = "fill" /\ body.file = f => Path = f
  BY <1>1, NoneAssumption DEF FileExact
<1> QED BY <1>1, <1>2 DEF PathExact

\* "torn" marks neither a report nor a state of an upload.
LEMMA TornIsNone ==
  "torn" \notin Recs /\ "none" \notin Recs /\ "uploading" \notin Recs
BY MarkersAssumption DEF UploadStatus

\* A finished report stays until its folder is deleted or renamed.
THEOREM ReportsSettleHolds == Spec => ReportsSettle
<1> DEFINE Settled == \A f \in Folders \ raced, t \in Reports :
                        (Loaded(f, t) /\ art'[f][t] # art[f][t]) => FolderOp
<1>1. IInv /\ [Next]_vars => [Settled]_vars
  <2> SUFFICES ASSUME IInv, [Next]_vars, NEW f \in Folders \ raced, NEW t \in Reports,
                      Loaded(f, t), art'[f][t] # art[f][t], ~FolderOp
               PROVE  FALSE
    OBVIOUS
  <2>1. t \in Types /\ t # "media" /\ art[f][t] \in Recs
    BY DEF Reports, Loaded
  <2>2. Body
    <3>1. ~Crash
      BY DEF Crash
    <3>2. CASE TakeJob \/ EndJob
      BY <3>2 DEF TakeJob, EndJob, disk
    <3> QED BY <3>1, <3>2, Writers
  <2>3. CASE OpenFile /\ f = Path /\ t = Job
    BY <2>3, AtWork DEF OpenFile, AtStep
  <2>4. CASE FillFile /\ f = body.file /\ t = Job
    BY <2>1, <2>4, AtWork, TornIsNone DEF FillFile, AtStep
  <2> QED BY <2>1, <2>2, <2>3, <2>4, Writes
<1> QED BY <1>1, InvHolds, PTL DEF Spec, ReportsSettle

\* No failure of an upload but one of its handler leaves a folder in "uploading".
THEOREM UploadsSettleHolds == Spec => UploadsSettle
<1> DEFINE Settled == \A f \in Folders \ raced :
                        (~StuckUpload(f) /\ StuckUpload(f)') => (Crash \/ FolderOp \/ HandlerFails)
<1>1. IInv /\ [Next]_vars => [Settled]_vars
  <2> SUFFICES ASSUME IInv, [Next]_vars, NEW f \in Folders \ raced,
                      ~StuckUpload(f), StuckUpload(f)', ~Crash, ~FolderOp, ~HandlerFails
               PROVE  FALSE
    OBVIOUS
  <2>1. /\ "upload" \in Types /\ art'[f]["upload"] = "uploading"
        /\ ~Uploads(f)'
    BY DEF StuckUpload
  <2>2. body \in [step : Steps, src : Recs \union {None}, want : Content,
                  file : Folders \union {None}]
    BY Types1 DEF IInv
  <2>3. CASE art[f]["upload"] = "uploading"
    <3>1. /\ running = <<"upload", f>> /\ body.step \in {"open", "fill", "transfer"}
          /\ body.step = "open" => body.want # "uploading"
      BY <2>1, <2>3 DEF StuckUpload, Uploads
    <3>2. Path = f /\ Job = "upload"
      BY <3>1 DEF Path, Job
    <3>3. running # None /\ Exists(f) /\ body.step # "fill"
      BY <2>3, <3>1, <3>2, AtWork
    <3>4. OpenFile \/ (OpenFails /\ body.want = "uploaded") \/ Transfer \/ TransferFails
      <4>1. ~TakeJob /\ ~EndJob
        BY <3>1, <3>3 DEF TakeJob, Line!Begin, EndJob
      <4>2. Body
        BY <2>1, <3>1, <4>1, Writers DEF Uploads
      <4>3. body.step = "open" => body.want \in {"uploaded", "failed"}
        BY <3>1, <3>2, <3>3 DEF IInv, BodyExact, UploadStatus
      <4> QED BY <3>1, <3>2, <3>3, <4>2, <4>3
              DEF Body, Read, ReadFails, OpenFails, FillFile, TearFile, AtStep, HandlerFails
    <3>5. /\ running' = running /\ body'.step \in {"open", "fill"}
          /\ body'.step = "open" => body'.want # "uploading"
      BY <2>2, <3>4 DEF OpenFile, OpenFails, AfterFailure, Transfer, TransferFails, Unmoved
    <3> QED BY <2>1, <3>1, <3>5 DEF Uploads
  <2>4. CASE art[f]["upload"] # "uploading"
    <3>1. Body
      <4>1. CASE TakeJob \/ EndJob
        BY <2>1, <2>4, <4>1 DEF TakeJob, EndJob, disk
      <4> QED BY <2>1, <2>4, <4>1, Writers
    <3>2. FillFile /\ f = body.file /\ Job = "upload" /\ body.want = "uploading"
      BY <2>1, <2>4, <3>1, Writes
    <3>3. Path = f /\ running # None
      BY <3>2, AtWork DEF FillFile, AtStep
    <3>4. running = <<"upload", f>>
      BY <3>2, <3>3, Running DEF IInv
    <3>5. running' = running /\ body'.step = "transfer"
      BY <2>2, <3>2 DEF FillFile, AfterFill, Unmoved
    <3> QED BY <2>1, <3>4, <3>5 DEF Uploads
  <2> QED BY <2>3, <2>4
<1> QED BY <1>1, InvHolds, PTL DEF Spec, UploadsSettle

\* No failure of a conversion leaves an incomplete video.
THEOREM VideosSettleHolds == Spec => VideosSettle
<1> DEFINE Settled == \A f \in Folders \ raced :
                        (~StuckVideo(f) /\ StuckVideo(f)') => (Crash \/ FolderOp)
<1>1. IInv /\ [Next]_vars => [Settled]_vars
  <2> SUFFICES ASSUME IInv, [Next]_vars, NEW f \in Folders \ raced,
                      ~StuckVideo(f), StuckVideo(f)', ~Crash, ~FolderOp
               PROVE  FALSE
    OBVIOUS
  <2>1. /\ "media" \in Types /\ art'[f]["media"] = "torn"
        /\ ~(running' = <<"media", f>> /\ body'.file = f)
    BY DEF StuckVideo
  <2>2. /\ body \in [step : Steps, src : Recs \union {None}, want : Content,
                     file : Folders \union {None}]
        /\ art \in [Folders -> [Types -> Content]]
    BY Types1 DEF IInv
  <2>3. CASE art[f]["media"] = "torn"
    <3>1. running = <<"media", f>> /\ body.file = f
      BY <2>1, <2>3 DEF StuckVideo
    <3>2. Path = f /\ Job = "media" /\ running # None
      BY <2>1, <3>1, NoneAssumption DEF Path, Job
    <3>3. body.step = "fill" /\ Exists(f)
      BY <3>1, NoneAssumption DEF IInv, FileExact
    <3>4. FillFile \/ TearFile
      <4>1. ~TakeJob /\ ~EndJob
        BY <3>2, <3>3 DEF TakeJob, Line!Begin, EndJob
      <4>2. Body
        BY <2>1, <3>1, <4>1, Writers
      <4> QED BY <3>3, <4>2
              DEF Body, Read, ReadFails, OpenFile, OpenFails, Transfer, TransferFails, AtStep
    <3>5. body.want # "torn"
      BY <3>2, <3>3, TornIsNone DEF IInv, BodyExact
    <3>6. CASE FillFile
      BY <2>1, <2>2, <3>1, <3>2, <3>5, <3>6 DEF FillFile
    <3>7. CASE TearFile
      BY <2>1, <2>2, <3>2, <3>3, <3>7 DEF TearFile, Cleaned
    <3> QED BY <3>4, <3>6, <3>7
  <2>4. CASE art[f]["media"] # "torn"
    <3>1. Body
      <4>1. CASE TakeJob \/ EndJob
        BY <2>1, <2>4, <4>1 DEF TakeJob, EndJob, disk
      <4> QED BY <2>1, <2>4, <4>1, Writers
    <3>2. CASE OpenFile /\ f = Path /\ Job = "media"
      <4>1. running # None /\ running' = running /\ body'.file = f
        BY <2>2, <3>2 DEF OpenFile, AtStep, Unmoved
      <4> QED BY <2>1, <3>2, <4>1, Running DEF IInv
    <3>3. CASE FillFile /\ f = body.file /\ Job = "media" /\ body.want = "torn"
      BY <3>3, TornIsNone DEF FillFile, AtStep, IInv, BodyExact
    <3> QED BY <2>1, <2>4, <3>1, <3>2, <3>3, Writes
  <2> QED BY <2>3, <2>4
<1> QED BY <1>1, InvHolds, PTL DEF Spec, VideosSettle
=============================================================================
