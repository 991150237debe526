------------------------------ MODULE Console ------------------------------
(***************************************************************************)
(* The recorder page and what outlives it: the recording store with its    *)
(* countdown and its two mutations, the banner of the last recording, the  *)
(* polled status, the live topic stream with its pause and resume calls,   *)
(* and the topic selection.                                                *)
(*                                                                         *)
(* One browser. Its steps run to the next await in one piece; every answer *)
(* is one step at the server and a later one in the page. The server is    *)
(* what the page can tell of it: the recording in progress, whose recorder *)
(* may die unnoticed, and the folders that hold an .mcap file.             *)
(***************************************************************************)
EXTENDS Integers, FiniteSetsExt, Client

CONSTANTS
  Topics,    \* topics that can be selected
  Defaults,  \* default_topics of the configuration
  Delays,    \* the delays that can be chosen, 0 for none
  MaxRecs,   \* bound: recordings the disk has room for
  MaxCalls   \* bound: calls on their way when the operator acts

ASSUME DefaultsAssumption == Defaults \subseteq Topics
ASSUME DelaysAssumption == Delays \subseteq Nat
ASSUME BoundsAssumption == MaxRecs \in Nat /\ MaxCalls \in Nat

Recs == 1..MaxRecs  \* in the order in which they were begun
NoRec == 0

VARIABLES
  page,         \* "recorder", or "recordings": the list
  stopLive,     \* stopLiveMonitorDuringRecording
  countdown,    \* countdownSec, 0 for null
  timer,        \* countdownTimer is armed
  isStarting, isStopping,
  banner,       \* finishedRecording; with it the recording that really finished,
                \* and whether the list was fetched for the banner alone
  calls,        \* calls on their way
  status,       \* the query of the recording status
  files,        \* the query of the recordings list
  awaiting,     \* the recording whose stop waits for the list
  selected,     \* selectedTopics
  sse,          \* connection status of the topic stream
  live, died, made, listed,   \* the server: recording in progress, its recorder
                              \* is dead, recordings begun, folders with an .mcap
  paused,       \* the topic monitor of the server is paused
  mixed,        \* history: pause and resume were on their way together, or lost
  shared        \* history: the list the stop waits for was not fetched for it

store == <<countdown, timer, isStarting, isStopping, banner>>
recorder == <<live, died, made, listed>>
stream == <<sse, mixed>>
waiting == <<awaiting, shared>>
vars == <<page, stopLive, store, calls, status, files, waiting, selected, stream,
          recorder, paused>>

NoBanner == [name |-> NoRec, of |-> NoRec, fresh |-> TRUE]
SseStatus == {"connecting", "connected", "disconnected"}

Init ==
  /\ page = "recordings" /\ stopLive \in BOOLEAN
  /\ countdown = 0 /\ timer = FALSE /\ isStarting = FALSE /\ isStopping = FALSE
  /\ banner = NoBanner /\ awaiting = NoRec
  /\ calls = {} /\ status = NewQuery /\ files = Fetch(NewQuery)
  /\ selected = {} /\ sse = "disconnected" /\ mixed = FALSE
  /\ live = NoRec /\ died = FALSE /\ made = 0 /\ listed = {}
  /\ paused = FALSE /\ shared = FALSE

-----------------------------------------------------------------------------
(* Calls *)

InFlight(op) == {c \in calls : c.req.op = op}
MonitorCalls == InFlight("pauseMonitor") \union InFlight("resumeMonitor")

\* The operator does not act while so many calls are on their way.
Room == Cardinality(calls) < MaxCalls

\* getIsRecording and useIsRecording: what the cache says.
IsRecording(s) == s.data = "recording"

\* The argument of useTopicsStream.
Enabled(s, stop) == ~IsRecording(s) \/ ~stop

MonitorCall(on) == Unheard(Call(IF on THEN ResumeMonitor ELSE PauseMonitor))
SubscribeCall == Unheard(Call(UpdateSubscriptions))

\* Faulty variant: only the stream is closed and opened.
RestreamAlone(s, stop, sent) ==
  LET on == Enabled(s, stop)
  IN  /\ calls' = sent
      /\ sse' = IF page # "recorder" \/ on = Enabled(status, stopLive) THEN sse
                ELSE IF on THEN "connecting" ELSE "disconnected"
      /\ UNCHANGED mixed

\* The two effects of useTopicsStream, when the argument may have changed.
Restream(s, stop, sent) ==
  LET on == Enabled(s, stop)
  IN  IF page # "recorder" \/ on = Enabled(status, stopLive)
      THEN calls' = sent /\ UNCHANGED stream
      ELSE /\ calls' = sent \union {MonitorCall(on)}
           /\ sse' = IF on THEN "connecting" ELSE "disconnected"
           /\ mixed' = (MonitorCalls # {})

-----------------------------------------------------------------------------
(* The record button and the space bar *)

\* startRecordingMutation.mutate
SendStart ==
  /\ calls' = calls \union {Call(StartRecording(selected))}
  /\ isStarting' = TRUE

\* startRecording of the store.
Start(delay) ==
  /\ banner' = NoBanner
  /\ IF delay = 0
     THEN SendStart /\ UNCHANGED <<countdown, timer>>
     ELSE countdown' = delay /\ timer' = TRUE /\ UNCHANGED <<calls, isStarting>>
  /\ UNCHANGED isStopping

\* Faulty variant: the timer of a cancelled countdown is forgotten.
StopKeepsTimer ==
  /\ IF countdown > 0
     THEN countdown' = 0 /\ UNCHANGED <<timer, calls, isStopping>>
     ELSE /\ calls' = calls \union {Call(StopRecording)}
          /\ isStopping' = TRUE
          /\ UNCHANGED <<countdown, timer>>
  /\ UNCHANGED <<banner, isStarting>>

\* stopRecording of the store.
Stop ==
  /\ IF countdown > 0
     THEN countdown' = 0 /\ timer' = FALSE /\ UNCHANGED <<calls, isStopping>>
     ELSE /\ calls' = calls \union {Call(StopRecording)}
          /\ isStopping' = TRUE
          /\ UNCHANGED <<countdown, timer>>
  /\ UNCHANGED <<banner, isStarting>>

Active == IsRecording(status) \/ countdown > 0

\* Faulty variant: the space bar does not look at the requests on their way.
PressUnlocked(delay) ==
  /\ page = "recorder" /\ Room
  /\ \/ Active /\ Stop
     \/ ~Active /\ sse = "connected" /\ selected # {} /\ Start(delay)
  /\ UNCHANGED <<page, stopLive, status, files, waiting, selected, stream, recorder, paused>>

\* toggle, and a click on the button, which is disabled where toggle returns.
\* The delay can be changed up to the press.
Press(delay) ==
  /\ page = "recorder" /\ Room
  /\ ~isStarting /\ ~isStopping
  /\ \/ Active /\ Stop
     \/ ~Active /\ sse = "connected" /\ selected # {} /\ Start(delay)
  /\ UNCHANGED <<page, stopLive, status, files, waiting, selected, stream, recorder, paused>>

\* tick: the countdown is in the store and goes on wherever the operator is.
Tick ==
  /\ timer
  /\ CASE countdown = 0 -> timer' = FALSE /\ UNCHANGED <<countdown, calls, isStarting>>
       [] countdown = 1 -> countdown' = 0 /\ timer' = FALSE /\ SendStart
       [] countdown > 1 -> countdown' = countdown - 1 /\ UNCHANGED <<timer, calls, isStarting>>
  /\ UNCHANGED <<page, stopLive, isStopping, banner, status, files, waiting, selected,
                 stream, recorder, paused>>

-----------------------------------------------------------------------------
(* The answers of the two mutations *)

\* onSuccess, onError and onSettled of startRecordingMutation. The list is
\* invalidated half a second later: RefreshList.
StartAnswered(call) ==
  /\ isStarting' = FALSE
  /\ status' = IF call.at = "ok" /\ page = "recorder" THEN Refetch(status) ELSE status
  /\ UNCHANGED <<isStopping, files, waiting, banner>>

Newest(list) == CHOOSE r \in list : \A s \in list : s <= r

\* The banner after the stop of recording r, given the fetched list: the entry
\* of that name, else the newest one, else the path in the answer.
Finished(r, list, fresh) ==
  [name |-> IF r \in list \/ list = {} THEN r ELSE Newest(list), of |-> r, fresh |-> fresh]

\* Faulty variant: the banner is taken from the cached list.
StopAnsweredFromCache(call) ==
  /\ status' = IF call.at = "ok" /\ page = "recorder" THEN Refetch(status) ELSE status
  /\ banner' = IF call.at = "ok" /\ files.data # NoData THEN Finished(call.result, files.data, TRUE)
               ELSE banner
  /\ isStopping' = FALSE
  /\ UNCHANGED <<isStarting, files, waiting>>

\* stopRecordingMutation up to the await of fetchQuery, or its error.
StopAnswered(call) ==
  /\ IF call.at = "ok"
     THEN /\ status' = IF page = "recorder" THEN Refetch(status) ELSE status
          /\ files' = Fetch(files)
          /\ awaiting' = call.result /\ shared' = (files.get # "none")
          /\ UNCHANGED isStopping
     ELSE isStopping' = FALSE /\ UNCHANGED <<status, files, waiting>>
  /\ UNCHANGED <<isStarting, banner>>

\* The rest of stopRecordingMutation, once the list is there or has failed.
StopSettled(list, fresh) ==
  /\ awaiting' = NoRec /\ shared' = FALSE
  /\ IF awaiting = NoRec
     THEN UNCHANGED <<isStopping, banner>>
     ELSE /\ isStopping' = FALSE
          /\ banner' = IF list = NoData THEN banner ELSE Finished(awaiting, list, fresh)

\* onSuccess of the banner's deletion closes whatever banner is open. The list
\* is invalidated, which the recorder page does not show.
DeleteAnswered(call) ==
  /\ banner' = IF call.at = "ok" THEN NoBanner ELSE banner
  /\ UNCHANGED <<isStarting, isStopping, status, files, waiting>>

Receive(c) ==
  /\ c.at # "sent"
  /\ calls' = calls \ {c}
  /\ \/ c.req.op = "startRecording" /\ StartAnswered(c)
     \/ c.req.op = "stopRecording" /\ StopAnswered(c)
     \/ c.req.op = "deleteRecordings" /\ DeleteAnswered(c)
  /\ UNCHANGED <<page, stopLive, countdown, timer, selected, stream, recorder, paused>>

-----------------------------------------------------------------------------
(* The banner *)

DeleteFinished ==
  /\ page = "recorder" /\ Room
  /\ banner # NoBanner
  /\ \A c \in InFlight("deleteRecordings") : ~c.heard
  /\ calls' = calls \union {Call(DeleteRecordings({banner.name}))}
  /\ UNCHANGED <<page, stopLive, store, status, files, waiting, selected, stream,
                 recorder, paused>>

DismissFinished ==
  /\ page = "recorder" /\ banner # NoBanner
  /\ banner' = NoBanner
  /\ UNCHANGED <<page, stopLive, countdown, timer, isStarting, isStopping, calls, status,
                 files, waiting, selected, stream, recorder, paused>>

-----------------------------------------------------------------------------
(* The polled status and the list *)

\* refetchInterval of useRecordingStatus and useIsRecording.
Poll ==
  /\ page = "recorder" /\ status.get = "none"
  /\ status' = Fetch(status)
  /\ UNCHANGED <<page, stopLive, store, calls, files, waiting, selected, stream, recorder, paused>>

\* A recorder that died is noticed by whoever asks for the status.
ServeStatus ==
  /\ status.get = "sent"
  /\ status' = Answered(status, IF live = NoRec \/ died THEN "idle" ELSE "recording")
  /\ live' = IF died THEN NoRec ELSE live
  /\ died' = FALSE
  /\ UNCHANGED <<page, stopLive, store, calls, files, waiting, selected, stream, made,
                 listed, paused>>

ReceiveStatus ==
  /\ status.get = "answered"
  /\ status' = Applied(status)
  /\ Restream(Applied(status), stopLive, calls)
  /\ UNCHANGED <<page, stopLive, store, files, waiting, selected, recorder, paused>>

LoseStatus ==
  /\ status.get # "none"
  /\ status' = Dropped(status)
  /\ UNCHANGED <<page, stopLive, store, calls, files, waiting, selected, stream, recorder, paused>>

ServeFiles ==
  /\ files.get = "sent"
  /\ files' = Answered(files, listed)
  /\ UNCHANGED <<page, stopLive, store, calls, status, waiting, selected, stream, recorder, paused>>

ReceiveFiles ==
  /\ files.get = "answered"
  /\ files' = Applied(files)
  /\ StopSettled(files.answer, ~shared)
  /\ UNCHANGED <<page, stopLive, countdown, timer, isStarting, calls, status, selected,
                 stream, recorder, paused>>

LoseFiles ==
  /\ files.get # "none"
  /\ files' = Dropped(files)
  /\ StopSettled(NoData, FALSE)
  /\ UNCHANGED <<page, stopLive, countdown, timer, isStarting, calls, status, selected,
                 stream, recorder, paused>>

\* Mutations and the job stream invalidate the list, which only a page that
\* shows it fetches again.
RefreshList ==
  /\ page = "recordings" /\ files.get # "sent"
  /\ files' = Refetch(files)
  /\ UNCHANGED <<page, stopLive, store, calls, status, waiting, selected, stream, recorder, paused>>

-----------------------------------------------------------------------------
(* Navigation, settings and topics *)

\* RecorderPage mounts: selection and subscription are set from the
\* configuration, the stream is opened, the status is fetched. The list loses
\* its observer, which aborts its GET: fetchQuery then returns what was cached.
OpenRecorder ==
  /\ page = "recordings" /\ Room
  /\ page' = "recorder"
  /\ selected' = Defaults
  /\ calls' = calls \union {MonitorCall(Enabled(status, stopLive)), SubscribeCall}
  /\ mixed' = (MonitorCalls # {})
  /\ sse' = IF Enabled(status, stopLive) THEN "connecting" ELSE "disconnected"
  /\ status' = Fetch(status)
  /\ files' = Dropped(files)
  /\ StopSettled(files.data, FALSE)
  /\ UNCHANGED <<stopLive, countdown, timer, isStarting, recorder, paused>>

\* RecorderPage unmounts: the stream is closed, but nothing pauses the monitor.
\* The callbacks of the banner's mutate() are not called any more.
OpenList ==
  /\ page = "recorder" /\ Room
  /\ page' = "recordings"
  /\ sse' = "disconnected"
  /\ status' = Dropped(status)
  /\ files' = Fetch(files)
  /\ LET deletes == InFlight("deleteRecordings")
     IN  calls' = (calls \ deletes) \union {Unheard(c) : c \in {d \in deletes : d.at = "sent"}}
  /\ UNCHANGED <<stopLive, store, waiting, selected, mixed, recorder, paused>>

SetStopLiveMonitor ==
  /\ page = "recorder" /\ Room
  /\ stopLive' = ~stopLive
  /\ Restream(status, ~stopLive, calls)
  /\ UNCHANGED <<page, store, status, files, waiting, selected, recorder, paused>>

\* handleToggle of TopicItem: the checkboxes are locked during a recording, not
\* during a countdown.
ToggleTopic(t) ==
  /\ page = "recorder" /\ Room
  /\ ~IsRecording(status)
  /\ selected' = SymDiff(selected, {t})
  /\ calls' = calls \union {SubscribeCall}
  /\ UNCHANGED <<page, stopLive, store, status, files, waiting, stream, recorder, paused>>

\* EventSource: onopen, and onerror before it tries again, which is shown as
\* "reconnecting" and means the same.
StreamEvent ==
  /\ sse # "disconnected"
  /\ sse' \in {"connected", "connecting"} \ {sse}
  /\ UNCHANGED <<page, stopLive, store, calls, status, files, waiting, selected, mixed,
                 recorder, paused>>

-----------------------------------------------------------------------------
(* The server *)

Done(c, answer) == calls' = (calls \ {c}) \union (IF c.heard THEN {answer} ELSE {})

\* RecorderService.start: one recording at a time, and of some topic. It may
\* also fail for want of room on the disk.
ServeStart(c) ==
  /\ c.req.op = "startRecording"
  /\ \/ /\ live = NoRec /\ c.req.topics # {} /\ made < MaxRecs
        /\ made' = made + 1 /\ live' = made + 1
        /\ Done(c, Succeeded(c, made + 1))
     \/ Done(c, Threw(c)) /\ UNCHANGED <<made, live>>
  /\ UNCHANGED <<died, listed, paused>>

\* RecorderService.stop ends a recording whose recorder has died like any other.
\* One that lives may write its .mcap file at the end, if it had none.
ServeStop(c) ==
  /\ c.req.op = "stopRecording"
  /\ IF live = NoRec
     THEN Done(c, Threw(c)) /\ UNCHANGED recorder
     ELSE /\ Done(c, Succeeded(c, live))
          /\ live' = NoRec /\ died' = FALSE
          /\ \/ listed' = listed
             \/ ~died /\ listed' = listed \union {live}
          /\ UNCHANGED made
  /\ UNCHANGED paused

\* delete_recordings skips a folder that is gone.
ServeDelete(c) ==
  /\ c.req.op = "deleteRecordings"
  /\ Done(c, Succeeded(c, NoData))
  /\ listed' = listed \ c.req.folders
  /\ UNCHANGED <<live, died, made, paused>>

ServeMonitor(c) ==
  /\ c.req.op \in {"updateSubscriptions", "pauseMonitor", "resumeMonitor"}
  /\ paused' = IF c \in MonitorCalls THEN c.req.op = "pauseMonitor" ELSE paused
  /\ Done(c, Succeeded(c, NoData))
  /\ UNCHANGED recorder

Serve(c) ==
  /\ c.at = "sent"
  /\ ServeStart(c) \/ ServeStop(c) \/ ServeDelete(c) \/ ServeMonitor(c)
  /\ UNCHANGED <<page, stopLive, store, status, files, waiting, selected, stream>>

\* A request that does not arrive, or an answer that does not.
Lose(c) ==
  /\ c.at # "failed"
  /\ Done(c, Threw(c))
  /\ mixed' = (mixed \/ c \in MonitorCalls)
  /\ UNCHANGED <<page, stopLive, store, status, files, waiting, selected, sse,
                 recorder, paused>>

\* The recorder creates its .mcap file, or dies.
RecorderStep ==
  /\ live # NoRec /\ ~died
  /\ \/ listed' = listed \union {live} /\ UNCHANGED died
     \/ died' = TRUE /\ UNCHANGED listed
  /\ UNCHANGED <<page, stopLive, store, calls, status, files, waiting, selected, stream,
                 live, made, paused>>

\* The recordings list deletes a folder.
DeleteElsewhere(r) ==
  /\ page = "recordings" /\ r \in listed
  /\ listed' = listed \ {r}
  /\ UNCHANGED <<page, stopLive, store, calls, status, files, waiting, selected, stream,
                 live, died, made, paused>>

-----------------------------------------------------------------------------

Operator ==
  \/ \E d \in Delays : Press(d)
  \/ \E t \in Topics : ToggleTopic(t)
  \/ DeleteFinished \/ DismissFinished \/ SetStopLiveMonitor
  \/ OpenRecorder \/ OpenList \/ RefreshList
  \/ \E r \in Recs : DeleteElsewhere(r)

Next ==
  \/ Operator
  \/ Tick
  \/ \E c \in calls : Serve(c) \/ Receive(c) \/ Lose(c)
  \/ Poll \/ ServeStatus \/ ReceiveStatus \/ LoseStatus
  \/ ServeFiles \/ ReceiveFiles \/ LoseFiles
  \/ StreamEvent
  \/ RecorderStep

Spec == Init /\ [][Next]_vars

-----------------------------------------------------------------------------
(* Properties *)

CallType ==
  [req : {StartRecording(ts) : ts \in SUBSET Topics} \union {StopRecording}
           \union {DeleteRecordings({r}) : r \in Recs}
           \union {UpdateSubscriptions, PauseMonitor, ResumeMonitor},
   at : {"sent", "ok", "failed"}, result : Recs \union {NoData}, heard : BOOLEAN]

TypeOK ==
  /\ page \in {"recorder", "recordings"} /\ stopLive \in BOOLEAN
  /\ countdown \in Nat /\ timer \in BOOLEAN
  /\ isStarting \in BOOLEAN /\ isStopping \in BOOLEAN
  /\ banner \in [name : Recs \union {NoRec}, of : Recs \union {NoRec}, fresh : BOOLEAN]
  /\ awaiting \in Recs \union {NoRec}
  /\ calls \subseteq CallType
  /\ status \in Query({"idle", "recording"}) /\ files \in Query(SUBSET Recs)
  /\ selected \in SUBSET Topics /\ sse \in SseStatus /\ mixed \in BOOLEAN
  /\ live \in Recs \union {NoRec} /\ died \in BOOLEAN /\ made \in 0..MaxRecs
  /\ listed \in SUBSET Recs /\ paused \in BOOLEAN
  /\ shared \in BOOLEAN

\* Start and stop requests exclude each other: at most one is on its way or
\* waits for the list after its answer, isStarting and isStopping say which, and
\* none is while a countdown runs. The end of a countdown sends without a look.
OneCommand ==
  LET starts == InFlight("startRecording")
      stops == InFlight("stopRecording")
  IN  /\ Cardinality(starts \union stops) + (IF awaiting = NoRec THEN 0 ELSE 1)
           + (IF countdown > 0 THEN 1 ELSE 0) <= 1
      /\ isStarting <=> starts # {}
      /\ isStopping <=> (stops # {} \/ awaiting # NoRec)

\* The variables have their types, and the countdown timer is armed exactly while
\* a countdown is shown, so that a cancelled countdown neither starts a recording
\* nor shortens the next one.
TimerExact == TypeOK /\ (timer <=> countdown > 0)

\* The banner, with its Delete button, never stands beside a recording that is
\* wanted or made: it is gone from the press on, whatever answer comes late.
BannerIsOver ==
  banner # NoBanner => live = NoRec /\ countdown = 0 /\ InFlight("startRecording") = {}

\* "Info about the just-finished recording" (store.ts): the banner names the
\* recording that the stop ended and not another one it then offers to delete.
\* It does not when the folder holds no .mcap, and when the list was fetched
\* for somebody else before the stop, or its fetch was aborted: the list that
\* "fetchQuery guarantees" to be fresh (mutations.ts) is not always.
BannerNamesFinished == banner.name = banner.of \/ banner.of \notin listed \/ ~banner.fresh

\* What the banner offers to delete is over, and is what it seems to be.
BannerIsTrue == BannerIsOver /\ BannerNamesFinished

\* "Pause / resume backend monitoring in lockstep with SSE disconnect"
\* (use-topics-stream.ts), as far as the network keeps their order: on the
\* recorder page, once its calls have arrived.
MonitorFollows ==
  (page = "recorder" /\ MonitorCalls = {} /\ ~mixed) => paused = (sse = "disconnected")

=============================================================================
