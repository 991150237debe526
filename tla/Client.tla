------------------------------- MODULE Client -------------------------------
(***************************************************************************)
(* What the pages of the frontend share: the requests of the generated API *)
(* client, the way an answer ends them, and one entry of the query cache.  *)
(*                                                                         *)
(* A call is a request on its way; nothing orders two calls, so the server *)
(* may handle them in any order. A query is what TanStack Query keeps      *)
(* under one key: the data the components see and the GET that may be on   *)
(* its way, whose answer was taken at one moment and is applied at a later *)
(* one.                                                                    *)
(***************************************************************************)
EXTENDS Sequences

CONSTANT NoData  \* the data of a query that was never answered

-----------------------------------------------------------------------------
(* Calls *)

\* heard: somebody waits for the answer.
Call(req) == [req |-> req, at |-> "sent", result |-> NoData, heard |-> TRUE]
Unheard(call) == [call EXCEPT !.heard = FALSE]

\* fetchClient: a status outside 2xx throws, any other answer is the result.
Succeeded(call, result) == [call EXCEPT !.at = "ok", !.result = result]
Threw(call) == [call EXCEPT !.at = "failed"]

-----------------------------------------------------------------------------
(* Queries *)

Query(Values) ==
  [data : Values \union {NoData}, get : {"none", "sent", "answered"},
   answer : Values \union {NoData}]

NewQuery == [data |-> NoData, get |-> "none", answer |-> NoData]

\* A fetch joins the one that is on its way.
Fetch(q) == IF q.get = "none" THEN [q EXCEPT !.get = "sent"] ELSE q

\* invalidateQueries with an observer: the GET on its way is dropped for a new
\* one, but the first GET of a query is joined.
Refetch(q) ==
  IF q.data = NoData THEN Fetch(q) ELSE [q EXCEPT !.get = "sent", !.answer = NoData]

Answered(q, v) == [q EXCEPT !.get = "answered", !.answer = v]

Applied(q) == [data |-> q.answer, get |-> "none", answer |-> NoData]

\* The GET failed, or its last observer left and aborted it: the data stays.
Dropped(q) == [q EXCEPT !.get = "none", !.answer = NoData]

\* setQueryData does not touch a GET on its way.
Written(q, v) == [q EXCEPT !.data = v]

-----------------------------------------------------------------------------
(* Recording *)

StartRecording(topics) == [op |-> "startRecording", topics |-> topics]
StopRecording == [op |-> "stopRecording"]

-----------------------------------------------------------------------------
(* Topics *)

\* Which topics is left out: no page reads the subscription back.
UpdateSubscriptions == [op |-> "updateSubscriptions"]
PauseMonitor == [op |-> "pauseMonitor"]
ResumeMonitor == [op |-> "resumeMonitor"]

-----------------------------------------------------------------------------
(* Recordings *)

DeleteRecordings(folders) == [op |-> "deleteRecordings", folders |-> folders]

\* Task name and metadata go the way of the tags and are left out.
UpdateRecordingMeta(folder, tags) ==
  [op |-> "updateRecordingMeta", folders |-> {folder}, tags |-> tags]
BulkUpdateRecordingMeta(folders, add, remove) ==
  [op |-> "bulkUpdateRecordingMeta", folders |-> folders, add |-> add, remove |-> remove]

-----------------------------------------------------------------------------
(* Analysis, validation and media *)

GetQuality(folder) == [op |-> "getQuality", folders |-> {folder}]
StartQualityAnalysis(folder) == [op |-> "startQualityAnalysis", folders |-> {folder}]
GetTimeline(folder) == [op |-> "getTimeline", folders |-> {folder}]
StartTimelineAnalysis(folder) == [op |-> "startTimelineAnalysis", folders |-> {folder}]
GetTimelineMessages(folder, topic, from, to) ==
  [op |-> "getTimelineMessages", folders |-> {folder}, topic |-> topic, from |-> from, to |-> to]
GetValidation(folder) == [op |-> "getValidation", folders |-> {folder}]
StartValidation(folder) == [op |-> "startValidation", folders |-> {folder}]
GetVideoStatus(folder) == [op |-> "getVideoStatus", folders |-> {folder}]
StartVideoGeneration(folder) == [op |-> "startVideoGeneration", folders |-> {folder}]

-----------------------------------------------------------------------------
(* Upload and LeRobot *)

GetUpload(folder) == [op |-> "getUpload", folders |-> {folder}]
StartUpload(folder) == [op |-> "startUpload", folders |-> {folder}]
StartBulkUpload(folders) == [op |-> "startBulkUpload", folders |-> folders]
StartLeRobotExport(folders) == [op |-> "startLeRobotExport", folders |-> folders]
=============================================================================
