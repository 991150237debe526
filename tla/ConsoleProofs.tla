--------------------------- MODULE ConsoleProofs ---------------------------
(***************************************************************************)
(* Safety of Console for every set of topics, every choice of delays and   *)
(* any number of recordings and calls: Inv is inductive and implies        *)
(* OneCommand, TimerExact, BannerIsTrue and MonitorFollows.                *)
(***************************************************************************)
EXTENDS Console, TLAPS, FiniteSetTheorems, WellFoundedInduction

Starts == InFlight("startRecording")
Stops == InFlight("stopRecording")

\* OneCommand without counting.
CommandsExact ==
  /\ timer <=> countdown > 0
  /\ \A c \in Starts \union Stops : c.heard
  /\ \A c, d \in Starts \union Stops : c = d
  /\ countdown > 0 => Starts \union Stops = {} /\ awaiting = NoRec
  /\ awaiting # NoRec => Starts \union Stops = {}
  /\ isStarting <=> Starts # {}
  /\ isStopping <=> (Stops # {} \/ awaiting # NoRec)

\* Nothing is recorded from the stop at the server to the banner, because
\* nothing else is asked for in between.
StopIsOver ==
  /\ \A c \in Stops : c.at = "ok" => c.result \in Recs /\ live = NoRec
  /\ awaiting # NoRec => live = NoRec

\* A list fetched for the stop is taken after it.
ListIsLater ==
  (awaiting # NoRec /\ ~shared) =>
    /\ files.get # "none"
    /\ files.get = "answered" => awaiting \in files.answer \/ awaiting \notin listed

\* Of the pause and resume calls only the last one may be on its way, and it
\* says what the stream is.
MonitorExact ==
  /\ \A c \in MonitorCalls : ~c.heard
  /\ (page = "recorder" /\ ~mixed) =>
       \/ MonitorCalls = {} /\ (paused <=> sse = "disconnected")
       \/ \E c \in MonitorCalls :
            /\ MonitorCalls = {c}
            /\ c.req.op = "pauseMonitor" <=> sse = "disconnected"

\* A banner names a recording.
BannerExact ==
  /\ BannerIsTrue
  /\ banner # NoBanner => banner.name \in Recs

Inv ==
  /\ TypeOK
  /\ CommandsExact
  /\ StopIsOver
  /\ ListIsLater
  /\ BannerExact
  /\ MonitorExact

-----------------------------------------------------------------------------
(* The newest recording *)

\* A list that is not empty has a newest entry, so Newest is well defined.
LEMMA NewestExists ==
  ASSUME NEW list \in SUBSET Recs, list # {}
  PROVE  Newest(list) \in list
  <1>1. MaxRecs \in Nat
    BY BoundsAssumption
  <1> DEFINE T == {MaxRecs - r : r \in list}
  <1>2. T \subseteq Nat /\ T # {}
    <2>1. \A r \in list : MaxRecs - r \in Nat
      BY <1>1 DEF Recs
    <2>2. QED
      BY <2>1
  <1>3. PICK m \in T : \A n \in T : ~(<<n, m>> \in OpToRel(<, Nat))
    BY <1>2, WFMin, NatLessThanWellFounded
  <1>4. PICK r \in list : m = MaxRecs - r
    BY <1>3
  <1>5. \A s \in list : s <= r
    <2> SUFFICES ASSUME NEW s \in list PROVE s <= r
      OBVIOUS
    <2>1. MaxRecs - s \in T /\ MaxRecs - s \in Nat /\ m \in Nat
      BY <1>2, <1>3
    <2>2. ~(<<MaxRecs - s, m>> \in OpToRel(<, Nat))
      BY <1>3, <2>1
    <2>3. ~(MaxRecs - s < m)
      BY <2>1, <2>2 DEF OpToRel
    <2>4. QED
      BY <1>1, <1>4, <2>3 DEF Recs
  <1>6. QED
    BY <1>5, Zenon DEF Newest

-----------------------------------------------------------------------------
(* Calls *)

LEMMA NewCalls ==
  /\ \A ts \in SUBSET Topics :
       LET c == Call(StartRecording(ts))
       IN  c \in CallType /\ c.req.op = "startRecording" /\ c.heard /\ c.at = "sent"
  /\ LET c == Call(StopRecording)
     IN  c \in CallType /\ c.req.op = "stopRecording" /\ c.heard /\ c.at = "sent"
  /\ \A r \in Recs :
       LET c == Call(DeleteRecordings({r}))
       IN  c \in CallType /\ c.req.op = "deleteRecordings"
  /\ SubscribeCall \in CallType /\ SubscribeCall.req.op = "updateSubscriptions"
  /\ \A on \in BOOLEAN :
       /\ MonitorCall(on) \in CallType /\ ~MonitorCall(on).heard
       /\ MonitorCall(on).req.op = IF on THEN "resumeMonitor" ELSE "pauseMonitor"
  BY DEF Call, Unheard, CallType, StartRecording, StopRecording, DeleteRecordings,
         SubscribeCall, MonitorCall, UpdateSubscriptions, PauseMonitor, ResumeMonitor

LEMMA EndedCalls ==
  ASSUME NEW c \in CallType, NEW v \in Recs \union {NoData}
  PROVE  /\ Succeeded(c, v) \in CallType /\ Succeeded(c, v).req = c.req
         /\ Succeeded(c, v).heard = c.heard /\ Succeeded(c, v).at = "ok"
         /\ Succeeded(c, v).result = v
         /\ Threw(c) \in CallType /\ Threw(c).req = c.req
         /\ Threw(c).heard = c.heard /\ Threw(c).at = "failed"
         /\ Unheard(c) \in CallType /\ Unheard(c).req = c.req /\ ~Unheard(c).heard
  BY DEF CallType, Succeeded, Threw, Unheard

LEMMA Members ==
  /\ \A c : c \in Starts <=> c \in calls /\ c.req.op = "startRecording"
  /\ \A c : c \in Stops <=> c \in calls /\ c.req.op = "stopRecording"
  /\ \A c : c \in MonitorCalls <=>
              c \in calls /\ c.req.op \in {"pauseMonitor", "resumeMonitor"}
  BY DEF Starts, Stops, MonitorCalls, InFlight

-----------------------------------------------------------------------------
(* The button, and the end of a countdown *)

\* startRecordingMutation.mutate, when no command is on its way.
LEMMA SendStartKeeps ==
  ASSUME Inv, SendStart, countdown' = 0, timer' = FALSE,
         Starts \union Stops = {}, awaiting = NoRec,
         banner' = NoBanner,
         UNCHANGED <<page, stopLive, isStopping, status, files, waiting, selected, stream,
                     recorder, paused>>
  PROVE  Inv'
  <1> USE DEF Inv
  <1> DEFINE c == Call(StartRecording(selected))
  <1>1. /\ c \in CallType /\ c.req.op = "startRecording" /\ c.heard /\ c.at = "sent"
        /\ calls' = calls \union {c} /\ isStarting' = TRUE
    BY NewCalls DEF SendStart, TypeOK
  <1>2. Starts' = {c} /\ Stops' = {} /\ MonitorCalls' = MonitorCalls
    BY <1>1 DEF Starts, Stops, MonitorCalls, InFlight
  <1> HIDE DEF c
  <1>3. UNCHANGED <<page, isStopping, files, awaiting, shared, sse, mixed, live, listed, paused>>
    BY DEF waiting, stream, recorder
  <1>5. TypeOK'
    BY <1>1 DEF TypeOK, NoBanner, waiting, stream, recorder
  <1>6. CommandsExact'
    BY <1>1, <1>2, <1>3 DEF CommandsExact
  <1>7. StopIsOver' /\ ListIsLater'
    BY <1>2, <1>3 DEF StopIsOver, ListIsLater
  <1>8. BannerExact'
    BY DEF BannerExact, BannerIsTrue, BannerIsOver, BannerNamesFinished, NoBanner
  <1>9. MonitorExact'
    BY <1>2, <1>3 DEF MonitorExact
  <1>10. QED
    BY <1>5, <1>6, <1>7, <1>8, <1>9

LEMMA PressInv ==
  ASSUME Inv, NEW d \in Delays, Press(d)
  PROVE  Inv'
  <1> USE DEF Inv
  <1>1. /\ Starts \union Stops = {} /\ awaiting = NoRec /\ ~isStarting /\ ~isStopping
        /\ UNCHANGED <<page, stopLive, status, files, waiting, selected, stream, recorder, paused>>
        /\ UNCHANGED <<page, files, awaiting, shared, sse, mixed, live, listed, paused>>
    BY DEF Press, CommandsExact, waiting, stream, recorder
  <1>2. d \in Nat /\ countdown \in Nat
    BY DelaysAssumption DEF TypeOK
  <1>3. CASE Start(d) /\ ~Active /\ d = 0
    <2>1. countdown = 0 /\ timer = FALSE
      BY <1>2, <1>3 DEF Active, CommandsExact, TypeOK
    <2>2. SendStart /\ banner' = NoBanner /\ countdown' = 0 /\ timer' = FALSE
          /\ isStopping' = isStopping
      BY <1>3, <2>1 DEF Start
    <2>3. QED
      BY <1>1, <2>2, SendStartKeeps
  <1>4. CASE Start(d) /\ ~Active /\ d # 0
    <2>1. /\ countdown = 0 /\ countdown' = d /\ timer' = TRUE /\ banner' = NoBanner
          /\ UNCHANGED <<calls, isStarting, isStopping>>
      BY <1>2, <1>4 DEF Active, Start
    <2>2. Starts' = Starts /\ Stops' = Stops /\ MonitorCalls' = MonitorCalls
      BY <2>1 DEF Starts, Stops, MonitorCalls, InFlight
    <2>3. TypeOK'
      BY <1>1, <1>2, <2>1 DEF TypeOK, NoBanner, waiting, stream, recorder
    <2>4. CommandsExact'
      BY <1>1, <1>2, <1>4, <2>1, <2>2 DEF CommandsExact
    <2>5. StopIsOver' /\ ListIsLater' /\ MonitorExact'
      BY <1>1, <2>2 DEF StopIsOver, ListIsLater, MonitorExact
    <2>6. BannerExact'
      BY <2>1 DEF BannerExact, BannerIsTrue, BannerIsOver, BannerNamesFinished, NoBanner
    <2>7. QED
      BY <2>3, <2>4, <2>5, <2>6
  <1>5. CASE Stop /\ countdown > 0
    <2>1. /\ countdown' = 0 /\ timer' = FALSE
          /\ UNCHANGED <<calls, isStarting, isStopping, banner>>
      BY <1>5 DEF Stop
    <2>2. Starts' = Starts /\ Stops' = Stops /\ MonitorCalls' = MonitorCalls
          /\ InFlight("startRecording")' = InFlight("startRecording")
      BY <2>1 DEF Starts, Stops, MonitorCalls, InFlight
    <2>3. TypeOK'
      BY <1>1, <2>1 DEF TypeOK, waiting, stream, recorder
    <2>4. CommandsExact'
      BY <1>1, <2>1, <2>2 DEF CommandsExact
    <2>5. StopIsOver' /\ ListIsLater' /\ MonitorExact'
      BY <1>1, <2>2 DEF StopIsOver, ListIsLater, MonitorExact
    <2>6. BannerExact'
      BY <1>1, <2>1, <2>2 DEF BannerExact, BannerIsTrue, BannerIsOver, BannerNamesFinished
    <2>7. QED
      BY <2>3, <2>4, <2>5, <2>6
  <1>6. CASE Stop /\ countdown = 0
    <2> DEFINE c == Call(StopRecording)
    <2>1. /\ c \in CallType /\ c.req.op = "stopRecording" /\ c.heard /\ c.at = "sent"
          /\ calls' = calls \union {c} /\ isStopping' = TRUE
          /\ UNCHANGED <<countdown, timer, isStarting, banner>>
      BY <1>6, NewCalls DEF Stop
    <2> HIDE DEF c
    <2>2. /\ Starts' = Starts /\ Stops' = {c} /\ MonitorCalls' = MonitorCalls
          /\ InFlight("startRecording")' = InFlight("startRecording")
      BY <1>1, <2>1 DEF Starts, Stops, MonitorCalls, InFlight
    <2>3. TypeOK'
      BY <1>1, <2>1 DEF TypeOK, waiting, stream, recorder
    <2>4. CommandsExact'
      BY <1>1, <1>6, <2>1, <2>2 DEF CommandsExact
    <2>5. StopIsOver' /\ ListIsLater' /\ MonitorExact'
      BY <1>1, <2>1, <2>2 DEF StopIsOver, ListIsLater, MonitorExact
    <2>6. BannerExact'
      BY <1>1, <2>1, <2>2 DEF BannerExact, BannerIsTrue, BannerIsOver, BannerNamesFinished
    <2>7. QED
      BY <2>3, <2>4, <2>5, <2>6
  <1>7. QED
    BY <1>2, <1>3, <1>4, <1>5, <1>6 DEF Press

LEMMA TickInv ==
  ASSUME Inv, Tick
  PROVE  Inv'
  <1> USE DEF Inv
  <1>1. /\ countdown > 0 /\ countdown \in Nat /\ banner = NoBanner
        /\ Starts \union Stops = {} /\ awaiting = NoRec
        /\ UNCHANGED <<page, stopLive, isStopping, banner, status, files, waiting, selected,
                       stream, recorder, paused>>
        /\ UNCHANGED <<page, files, awaiting, shared, sse, mixed, live, listed, paused>>
    BY DEF Tick, CommandsExact, TypeOK, BannerExact, BannerIsTrue, BannerIsOver, waiting, stream,
           recorder
  <1>2. CASE countdown = 1
    <2>1. SendStart /\ countdown' = 0 /\ timer' = FALSE
      BY <1>2 DEF Tick
    <2>2. QED
      BY <1>1, <2>1, SendStartKeeps
  <1>3. CASE countdown > 1
    <2>1. countdown' = countdown - 1 /\ UNCHANGED <<timer, calls, isStarting>>
      BY <1>1, <1>3 DEF Tick
    <2>2. Starts' = Starts /\ Stops' = Stops /\ MonitorCalls' = MonitorCalls
      BY <2>1 DEF Starts, Stops, MonitorCalls, InFlight
    <2>3. TypeOK'
      BY <1>1, <1>3, <2>1 DEF TypeOK, waiting, stream, recorder
    <2>4. CommandsExact'
      BY <1>1, <1>3, <2>1, <2>2 DEF CommandsExact
    <2>5. StopIsOver' /\ ListIsLater' /\ MonitorExact'
      BY <1>1, <2>2 DEF StopIsOver, ListIsLater, MonitorExact
    <2>6. BannerExact'
      BY <1>1 DEF BannerExact, BannerIsTrue, BannerIsOver, BannerNamesFinished, NoBanner
    <2>7. QED
      BY <2>3, <2>4, <2>5, <2>6
  <1>4. QED
    BY <1>1, <1>2, <1>3

-----------------------------------------------------------------------------
(* Steps that leave the commands, the banner and the list alone *)

LEMMA QuietInv ==
  ASSUME Inv, TypeOK', Starts' = Starts, Stops' = Stops, MonitorCalls' = MonitorCalls,
         UNCHANGED <<page, countdown, timer, isStarting, isStopping, banner, files, awaiting,
                     shared, live, listed, paused, mixed>>,
         sse' = "disconnected" <=> sse = "disconnected"
  PROVE  Inv'
  <1> USE DEF Inv
  <1>1. CommandsExact' /\ StopIsOver' /\ ListIsLater' /\ MonitorExact'
    BY DEF CommandsExact, StopIsOver, ListIsLater, MonitorExact
  <1>2. BannerExact'
    BY DEF BannerExact, BannerIsTrue, BannerIsOver, BannerNamesFinished, Starts
  <1>3. QED
    BY <1>1, <1>2

LEMMA SameCalls ==
  ASSUME calls' = calls
  PROVE  Starts' = Starts /\ Stops' = Stops /\ MonitorCalls' = MonitorCalls
  BY DEF Starts, Stops, MonitorCalls, InFlight

LEMMA Queries ==
  ASSUME NEW V, NEW q \in Query(V), NEW v \in V \union {NoData}
  PROVE  /\ Fetch(q) \in Query(V) /\ Refetch(q) \in Query(V) /\ Answered(q, v) \in Query(V)
         /\ Applied(q) \in Query(V) /\ Dropped(q) \in Query(V)
         /\ q.data \in V \union {NoData} /\ q.answer \in V \union {NoData}
         /\ Fetch(q).get # "none" /\ (q.get = "none" => Fetch(q).get = "sent")
         /\ (q.get # "none" => Fetch(q) = q)
         /\ Answered(q, v).get = "answered" /\ Answered(q, v).answer = v
         /\ (Refetch(q) = Fetch(q) \/ Refetch(q).get = "sent")
  BY DEF Query, Fetch, Refetch, Answered, Applied, Dropped

LEMMA QueriesOfPage ==
  ASSUME TypeOK
  PROVE  /\ Fetch(status) \in Query({"idle", "recording"})
         /\ Refetch(status) \in Query({"idle", "recording"})
         /\ Answered(status, "idle") \in Query({"idle", "recording"})
         /\ Answered(status, "recording") \in Query({"idle", "recording"})
         /\ Applied(status) \in Query({"idle", "recording"})
         /\ Dropped(status) \in Query({"idle", "recording"})
         /\ Fetch(files) \in Query(SUBSET Recs)
         /\ Refetch(files) \in Query(SUBSET Recs)
         /\ Answered(files, listed) \in Query(SUBSET Recs)
         /\ Applied(files) \in Query(SUBSET Recs)
         /\ Dropped(files) \in Query(SUBSET Recs)
         /\ files.data \in (SUBSET Recs) \union {NoData}
         /\ files.answer \in (SUBSET Recs) \union {NoData}
         /\ Fetch(files).get # "none" /\ (files.get = "none" => Fetch(files).get = "sent")
         /\ (files.get # "none" => Fetch(files) = files)
         /\ Answered(files, listed).answer = listed
         /\ (Refetch(files) = Fetch(files) \/ Refetch(files).get = "sent")
  <1>1. /\ status \in Query({"idle", "recording"}) /\ files \in Query(SUBSET Recs)
        /\ listed \in SUBSET Recs
    BY DEF TypeOK
  <1> DEFINE S == {"idle", "recording"}
  <1>2. S = {"idle", "recording"} /\ status \in Query(S) /\ "idle" \in S \union {NoData}
        /\ "recording" \in S \union {NoData}
    BY <1>1
  <1>3. files \in Query(SUBSET Recs) /\ listed \in (SUBSET Recs) \union {NoData}
    BY <1>1
  <1> HIDE DEF S
  <1>4. /\ Fetch(status) \in Query(S) /\ Refetch(status) \in Query(S)
        /\ Applied(status) \in Query(S) /\ Dropped(status) \in Query(S)
        /\ Answered(status, "idle") \in Query(S)
    BY <1>2, Queries
  <1>5. Answered(status, "recording") \in Query(S)
    BY <1>2, Queries
  <1>6. /\ Fetch(files) \in Query(SUBSET Recs) /\ Refetch(files) \in Query(SUBSET Recs)
        /\ Answered(files, listed) \in Query(SUBSET Recs)
        /\ Applied(files) \in Query(SUBSET Recs) /\ Dropped(files) \in Query(SUBSET Recs)
        /\ files.data \in (SUBSET Recs) \union {NoData}
        /\ files.answer \in (SUBSET Recs) \union {NoData}
        /\ Fetch(files).get # "none" /\ (files.get = "none" => Fetch(files).get = "sent")
        /\ (files.get # "none" => Fetch(files) = files)
        /\ Answered(files, listed).answer = listed
        /\ (Refetch(files) = Fetch(files) \/ Refetch(files).get = "sent")
    BY <1>3, Queries
  <1>7. QED
    BY <1>2, <1>4, <1>5, <1>6

LEMMA QuietSteps ==
  ASSUME Inv,
         \/ Poll \/ LoseStatus \/ DeleteFinished \/ StreamEvent
         \/ \E t \in Topics : ToggleTopic(t)
  PROVE  Inv'
  <1> USE DEF Inv
  <1>1. CASE Poll \/ LoseStatus
    <2>1. TypeOK'
      BY <1>1, QueriesOfPage DEF TypeOK, Poll, LoseStatus, store, waiting, stream, recorder
    <2>2. QED
      BY <1>1, <2>1, QuietInv, SameCalls DEF Poll, LoseStatus, store, waiting, stream, recorder
  <1>2. CASE StreamEvent
    <2>1. TypeOK'
      BY <1>2 DEF TypeOK, StreamEvent, SseStatus, store, waiting, recorder
    <2>2. QED
      BY <1>2, <2>1, QuietInv, SameCalls DEF StreamEvent, store, waiting, recorder
  <1>3. CASE DeleteFinished
    <2> DEFINE c == Call(DeleteRecordings({banner.name}))
    <2>1. calls' = calls \union {c}
          /\ UNCHANGED <<page, stopLive, store, status, files, waiting, selected, stream,
                         recorder, paused>>
      BY <1>3 DEF DeleteFinished
    <2>2. banner.name \in Recs
      BY <1>3 DEF DeleteFinished, BannerExact
    <2>3. c \in CallType /\ c.req.op = "deleteRecordings"
      BY <2>2, NewCalls
    <2> HIDE DEF c
    <2>4. TypeOK'
      BY <2>1, <2>3 DEF TypeOK, store, waiting, stream, recorder
    <2>5. Starts' = Starts /\ Stops' = Stops /\ MonitorCalls' = MonitorCalls
      BY <2>1, <2>3 DEF Starts, Stops, MonitorCalls, InFlight
    <2>6. QED
      BY <2>1, <2>4, <2>5, QuietInv DEF store, waiting, stream, recorder
  <1>4. ASSUME NEW t \in Topics, ToggleTopic(t) PROVE Inv'
    <2>1. /\ calls' = calls \union {SubscribeCall} /\ selected' = SymDiff(selected, {t})
          /\ UNCHANGED <<page, stopLive, store, status, files, waiting, stream, recorder, paused>>
      BY <1>4 DEF ToggleTopic
    <2>2. SubscribeCall \in CallType /\ SubscribeCall.req.op = "updateSubscriptions"
      BY NewCalls
    <2>3. selected' \in SUBSET Topics
      BY <2>1 DEF SymDiff, TypeOK
    <2>4. TypeOK'
      <3>1. calls' \subseteq CallType
        BY <2>1, <2>2 DEF TypeOK
      <3>2. UNCHANGED <<page, stopLive, countdown, timer, isStarting, isStopping, banner,
                        status, files, awaiting, shared, sse, mixed, live, died, made,
                        listed, paused>>
        BY <2>1 DEF store, waiting, stream, recorder
      <3>3. QED
        BY <2>3, <3>1, <3>2 DEF TypeOK
    <2>5. Starts' = Starts /\ Stops' = Stops /\ MonitorCalls' = MonitorCalls
      BY <2>1, <2>2 DEF Starts, Stops, MonitorCalls, InFlight
    <2>6. QED
      BY <2>1, <2>4, <2>5, QuietInv DEF store, waiting, stream, recorder
  <1>5. QED
    BY <1>1, <1>2, <1>3, <1>4

-----------------------------------------------------------------------------
(* The answers of the commands *)

LEMMA ReceiveInv ==
  ASSUME Inv, NEW c \in calls, Receive(c)
  PROVE  Inv'
  <1> USE DEF Inv
  <1>1. /\ calls' = calls \ {c} /\ c.at # "sent" /\ c \in CallType
        /\ UNCHANGED <<page, stopLive, countdown, timer, selected, sse, mixed, live, died, made,
                       listed, paused>>
    BY DEF Receive, TypeOK, stream, recorder
  <1>2. CASE c.req.op = "startRecording" /\ StartAnswered(c)
    <2>1. /\ isStarting' = FALSE /\ status' \in {status, Refetch(status)}
          /\ UNCHANGED <<isStopping, files, awaiting, shared, banner>>
      BY <1>2 DEF StartAnswered, waiting
    <2>2. c \in Starts
      BY <1>2, Members
    <2>3. Starts' = {} /\ Stops' = {} /\ MonitorCalls' = MonitorCalls /\ Stops = {}
      <3>1. Starts' = Starts \ {c} /\ Stops' = Stops /\ MonitorCalls' = MonitorCalls
        BY <1>1, <1>2 DEF Starts, Stops, MonitorCalls, InFlight
      <3>2. \A d \in Starts \union Stops : d = c
        BY <2>2 DEF CommandsExact
      <3>3. c \notin Stops
        BY <1>2, Members
      <3>4. QED
        BY <3>1, <3>2, <3>3
    <2>4. TypeOK'
      <3>1. status' \in Query({"idle", "recording"})
        BY <2>1, QueriesOfPage DEF TypeOK
      <3>2. calls' \subseteq CallType
        BY <1>1 DEF TypeOK
      <3>3. /\ isStarting' \in BOOLEAN
            /\ UNCHANGED <<page, stopLive, countdown, timer, isStopping, banner, files, awaiting,
                           shared, selected, sse, mixed, live, died, made, listed, paused>>
        BY <1>1, <2>1
      <3>4. QED
        BY <3>1, <3>2, <3>3 DEF TypeOK
    <2>5. CommandsExact'
      BY <1>1, <2>1, <2>2, <2>3 DEF CommandsExact
    <2>6. StopIsOver' /\ ListIsLater' /\ MonitorExact'
      BY <1>1, <2>1, <2>3 DEF StopIsOver, ListIsLater, MonitorExact
    <2>7. BannerExact'
      BY <1>1, <2>1, <2>3 DEF BannerExact, BannerIsTrue, BannerIsOver, BannerNamesFinished, Starts
    <2>8. QED
      BY <2>4, <2>5, <2>6, <2>7
  <1>3. CASE c.req.op = "stopRecording" /\ StopAnswered(c)
    <2>1. c \in Stops
      BY <1>3, Members
    <2>2. Starts' = {} /\ Stops' = {} /\ MonitorCalls' = MonitorCalls /\ Starts = {}
      <3>1. Starts' = Starts /\ Stops' = Stops \ {c} /\ MonitorCalls' = MonitorCalls
        BY <1>1, <1>3 DEF Starts, Stops, MonitorCalls, InFlight
      <3>2. \A d \in Starts \union Stops : d = c
        BY <2>1 DEF CommandsExact
      <3>3. c \notin Starts
        BY <1>3, Members
      <3>4. QED
        BY <3>1, <3>2, <3>3
    <2>3. /\ awaiting = NoRec /\ countdown = 0 /\ isStopping /\ ~isStarting
          /\ UNCHANGED <<isStarting, banner>>
      BY <1>3, <2>1, <2>2 DEF StopAnswered, CommandsExact, TypeOK
    <2>4. BannerExact'
      BY <1>1, <2>2, <2>3 DEF BannerExact, BannerIsTrue, BannerIsOver, BannerNamesFinished, Starts
    <2>5. CASE c.at = "ok"
      <3>1. /\ c.result \in Recs /\ live = NoRec /\ c.result # NoRec
        BY <2>1, <2>5 DEF StopIsOver, Recs, NoRec
      <3>2. /\ status' \in {status, Refetch(status)} /\ files' = Fetch(files)
            /\ awaiting' = c.result /\ shared' = (files.get # "none")
            /\ isStopping' = isStopping
        BY <1>3, <2>5 DEF StopAnswered
      <3>3. TypeOK'
        BY <1>1, <2>3, <3>1, <3>2, QueriesOfPage DEF TypeOK, stream, recorder
      <3>4. CommandsExact'
        BY <1>1, <2>2, <2>3, <3>1, <3>2 DEF CommandsExact
      <3>5. StopIsOver' /\ MonitorExact'
        BY <1>1, <2>2, <3>1, <3>2 DEF StopIsOver, MonitorExact
      <3>6. ListIsLater'
        <4>1. ~shared' => files'.get = "sent"
          BY <3>2, QueriesOfPage
        <4>2. QED
          BY <4>1 DEF ListIsLater
      <3>7. QED
        BY <2>4, <3>3, <3>4, <3>5, <3>6
    <2>6. CASE c.at # "ok"
      <3>1. isStopping' = FALSE /\ UNCHANGED <<status, files, awaiting, shared>>
        BY <1>3, <2>6 DEF StopAnswered, waiting
      <3>2. TypeOK'
        BY <1>1, <2>3, <3>1 DEF TypeOK, stream, recorder
      <3>3. CommandsExact'
        BY <1>1, <2>2, <2>3, <3>1 DEF CommandsExact
      <3>4. StopIsOver' /\ ListIsLater' /\ MonitorExact'
        BY <1>1, <2>2, <2>3, <3>1 DEF StopIsOver, ListIsLater, MonitorExact
      <3>5. QED
        BY <2>4, <3>2, <3>3, <3>4
    <2>7. QED
      BY <2>5, <2>6
  <1>4. CASE c.req.op = "deleteRecordings" /\ DeleteAnswered(c)
    <2>1. /\ banner' \in {banner, NoBanner}
          /\ UNCHANGED <<isStarting, isStopping, status, files, awaiting, shared>>
      BY <1>4 DEF DeleteAnswered, waiting
    <2>2. Starts' = Starts /\ Stops' = Stops /\ MonitorCalls' = MonitorCalls
      BY <1>1, <1>4 DEF Starts, Stops, MonitorCalls, InFlight
    <2>3. TypeOK'
      <3>1. banner' \in [name : Recs \union {NoRec}, of : Recs \union {NoRec}, fresh : BOOLEAN]
        <4>1. NoBanner \in [name : Recs \union {NoRec}, of : Recs \union {NoRec}, fresh : BOOLEAN]
          BY DEF NoBanner
        <4>2. QED
          BY <2>1, <4>1 DEF TypeOK
      <3>2. calls' \subseteq CallType
        BY <1>1 DEF TypeOK
      <3>3. QED
        BY <1>1, <2>1, <3>1, <3>2 DEF TypeOK
    <2>4. CommandsExact' /\ StopIsOver' /\ ListIsLater' /\ MonitorExact'
      BY <1>1, <2>1, <2>2 DEF CommandsExact, StopIsOver, ListIsLater, MonitorExact
    <2>5. BannerExact'
      BY <1>1, <2>1, <2>2
      DEF BannerExact, BannerIsTrue, BannerIsOver, BannerNamesFinished, Starts, NoBanner
    <2>6. QED
      BY <2>3, <2>4, <2>5
  <1>5. QED
    BY <1>2, <1>3, <1>4 DEF Receive

-----------------------------------------------------------------------------
(* The polled status and the topic stream *)

\* Whether the stream is opened, closed or left, the last call says it.
LEMMA RestreamInv ==
  ASSUME Inv, NEW s, NEW stop, Restream(s, stop, calls),
         status' \in Query({"idle", "recording"}), stopLive' \in BOOLEAN,
         UNCHANGED <<page, countdown, timer, isStarting, isStopping, banner, files, awaiting,
                     shared, selected, live, died, made, listed, paused>>
  PROVE  Inv'
  <1> USE DEF Inv
  <1>1. CASE calls' = calls /\ UNCHANGED stream
    <2>1. TypeOK'
      BY <1>1 DEF TypeOK, stream
    <2>2. QED
      BY <1>1, <2>1, SameCalls, QuietInv DEF stream
  <1>2. ASSUME NEW on \in BOOLEAN,
               calls' = calls \union {MonitorCall(on)}, mixed' = (MonitorCalls # {}),
               sse' = IF on THEN "connecting" ELSE "disconnected"
        PROVE  Inv'
    <2> DEFINE c == MonitorCall(on)
    <2>1. /\ c \in CallType /\ ~c.heard
          /\ c.req.op = IF on THEN "resumeMonitor" ELSE "pauseMonitor"
          /\ calls' = calls \union {c}
      BY <1>2, NewCalls
    <2> HIDE DEF c
    <2>2. Starts' = Starts /\ Stops' = Stops /\ MonitorCalls' = MonitorCalls \union {c}
      BY <2>1 DEF Starts, Stops, MonitorCalls, InFlight
    <2>3. TypeOK'
      <3>1. calls' \subseteq CallType /\ mixed' \in BOOLEAN /\ sse' \in SseStatus
        BY <1>2, <2>1 DEF TypeOK, SseStatus
      <3>2. QED
        BY <3>1 DEF TypeOK
    <2>4. CommandsExact' /\ StopIsOver' /\ ListIsLater'
      BY <2>2 DEF CommandsExact, StopIsOver, ListIsLater
    <2>5. BannerExact'
      BY <2>2 DEF BannerExact, BannerIsTrue, BannerIsOver, BannerNamesFinished, Starts
    <2>6. MonitorExact'
      <3>1. \A d \in MonitorCalls' : ~d.heard
        BY <2>1, <2>2 DEF MonitorExact
      <3>2. ~mixed' => MonitorCalls' = {c}
        BY <1>2, <2>2
      <3>3. c.req.op = "pauseMonitor" <=> sse' = "disconnected"
        BY <1>2, <2>1
      <3>4. QED
        BY <3>1, <3>2, <3>3 DEF MonitorExact
    <2>7. QED
      BY <2>3, <2>4, <2>5, <2>6
  <1>3. Enabled(s, stop) \in BOOLEAN
    BY DEF Enabled
  <1>4. QED
    BY <1>1, <1>2, <1>3 DEF Restream

LEMMA StatusInv ==
  ASSUME Inv, ServeStatus \/ ReceiveStatus \/ SetStopLiveMonitor
  PROVE  Inv'
  <1> USE DEF Inv
  <1>1. CASE ServeStatus
    <2>1. /\ status' \in Query({"idle", "recording"})
          /\ live' \in {live, NoRec} /\ died' \in BOOLEAN
          /\ UNCHANGED <<page, stopLive, countdown, timer, isStarting, isStopping, banner, calls,
                         files, awaiting, shared, selected, sse, mixed, made, listed, paused>>
      BY <1>1, QueriesOfPage DEF ServeStatus, store, waiting, stream
    <2>2. TypeOK'
      <3>1. live' \in Recs \union {NoRec}
        BY <2>1 DEF TypeOK
      <3>2. QED
        BY <2>1, <3>1 DEF TypeOK
    <2>3. Starts' = Starts /\ Stops' = Stops /\ MonitorCalls' = MonitorCalls
      BY <2>1, SameCalls
    <2>4. CommandsExact' /\ StopIsOver' /\ ListIsLater' /\ MonitorExact'
      BY <2>1, <2>3 DEF CommandsExact, StopIsOver, ListIsLater, MonitorExact
    <2>5. BannerExact'
      BY <2>1, <2>3 DEF BannerExact, BannerIsTrue, BannerIsOver, BannerNamesFinished, Starts
    <2>6. QED
      BY <2>2, <2>3, <2>4, <2>5
  <1>2. CASE ReceiveStatus
    <2>1. /\ status' \in Query({"idle", "recording"}) /\ stopLive' \in BOOLEAN
          /\ Restream(Applied(status), stopLive, calls)
          /\ UNCHANGED <<page, countdown, timer, isStarting, isStopping, banner, files, awaiting,
                         shared, selected, live, died, made, listed, paused>>
      BY <1>2, QueriesOfPage DEF ReceiveStatus, TypeOK, store, waiting, recorder
    <2>2. QED
      BY <2>1, RestreamInv
  <1>3. CASE SetStopLiveMonitor
    <2>1. /\ status' \in Query({"idle", "recording"}) /\ stopLive' \in BOOLEAN
          /\ Restream(status, ~stopLive, calls)
          /\ UNCHANGED <<page, countdown, timer, isStarting, isStopping, banner, files, awaiting,
                         shared, selected, live, died, made, listed, paused>>
      BY <1>3 DEF SetStopLiveMonitor, TypeOK, store, waiting, recorder
    <2>2. QED
      BY <2>1, RestreamInv
  <1>4. QED
    BY <1>1, <1>2, <1>3

-----------------------------------------------------------------------------
(* The list, and the end of a stop *)

\* The banner that the stop ends in is true of the list it is taken from, if
\* that is later than the stop.
LEMMA SettleKeeps ==
  ASSUME Inv, NEW list \in (SUBSET Recs) \union {NoData}, NEW fresh \in BOOLEAN,
         StopSettled(list, fresh),
         (awaiting # NoRec /\ fresh /\ list # NoData) =>
            awaiting \in list \/ awaiting \notin listed,
         Starts' = Starts, Stops' = Stops,
         UNCHANGED <<countdown, timer, isStarting, live, listed>>
  PROVE  /\ CommandsExact' /\ StopIsOver' /\ ListIsLater' /\ BannerExact'
         /\ isStopping' \in BOOLEAN /\ awaiting' \in Recs \union {NoRec} /\ shared' \in BOOLEAN
         /\ banner' \in [name : Recs \union {NoRec}, of : Recs \union {NoRec}, fresh : BOOLEAN]
  <1> USE DEF Inv
  <1>1. awaiting' = NoRec /\ shared' = FALSE
    BY DEF StopSettled
  <1>2. StopIsOver' /\ ListIsLater' /\ awaiting' \in Recs \union {NoRec} /\ shared' \in BOOLEAN
    BY <1>1 DEF StopIsOver, ListIsLater
  <1>3. CASE banner' = banner
    <2>1. BannerExact'
      BY <1>3 DEF BannerExact, BannerIsTrue, BannerIsOver, BannerNamesFinished, Starts
    <2>2. CommandsExact' /\ isStopping' \in BOOLEAN
      BY <1>1 DEF StopSettled, CommandsExact, TypeOK
    <2>3. QED
      BY <1>2, <1>3, <2>1, <2>2 DEF TypeOK
  <1>4. CASE awaiting # NoRec /\ list # NoData /\ banner' = Finished(awaiting, list, fresh)
    <2>1. /\ awaiting \in Recs /\ live = NoRec /\ countdown = 0 /\ Starts = {} /\ Stops = {}
      BY <1>4 DEF CommandsExact, StopIsOver, TypeOK
    <2>2. isStopping' = FALSE
      BY <1>4 DEF StopSettled
    <2>3. CommandsExact' /\ isStopping' \in BOOLEAN
      BY <1>1, <2>1, <2>2 DEF CommandsExact
    <2>4. /\ banner'.of = awaiting /\ banner'.fresh = fresh /\ banner'.name \in Recs
          /\ awaiting \in list => banner'.name = awaiting
          /\ banner' \in [name : Recs \union {NoRec}, of : Recs \union {NoRec}, fresh : BOOLEAN]
      <3>1. list # {} => Newest(list) \in Recs
        BY <1>4, NewestExists
      <3> DEFINE n == IF awaiting \in list \/ list = {} THEN awaiting ELSE Newest(list)
      <3>2. banner' = [name |-> n, of |-> awaiting, fresh |-> fresh]
        BY <1>4 DEF Finished
      <3>3. n \in Recs /\ (awaiting \in list => n = awaiting)
        BY <2>1, <3>1
      <3> HIDE DEF n
      <3>4. QED
        BY <2>1, <3>2, <3>3
    <2>5. BannerExact'
      <3>1. BannerIsOver'
        BY <2>1 DEF BannerIsOver, Starts
      <3>2. BannerNamesFinished'
        BY <1>4, <2>4 DEF BannerNamesFinished
      <3>3. QED
        BY <2>4, <3>1, <3>2 DEF BannerExact, BannerIsTrue
    <2>6. QED
      BY <1>2, <2>3, <2>4, <2>5
  <1>5. QED
    BY <1>3, <1>4 DEF StopSettled

LEMMA FilesInv ==
  ASSUME Inv, ServeFiles \/ ReceiveFiles \/ LoseFiles \/ RefreshList
  PROVE  Inv'
  <1> USE DEF Inv
  <1>1. CASE ReceiveFiles \/ LoseFiles
    <2>1. /\ UNCHANGED <<page, stopLive, countdown, timer, isStarting, calls, status, selected,
                         sse, mixed, live, died, made, listed, paused>>
          /\ files' \in Query(SUBSET Recs)
      BY <1>1, QueriesOfPage DEF ReceiveFiles, LoseFiles, stream, recorder
    <2>2. Starts' = Starts /\ Stops' = Stops /\ MonitorCalls' = MonitorCalls
      BY <2>1, SameCalls
    <2>3. PICK list \in (SUBSET Recs) \union {NoData}, fresh \in BOOLEAN :
            /\ StopSettled(list, fresh)
            /\ (awaiting # NoRec /\ fresh /\ list # NoData) =>
                  awaiting \in list \/ awaiting \notin listed
      <3>1. CASE ReceiveFiles
        <4>1. /\ files.answer \in (SUBSET Recs) \union {NoData} /\ (~shared) \in BOOLEAN
              /\ StopSettled(files.answer, ~shared) /\ files.get = "answered"
          BY <3>1, QueriesOfPage DEF ReceiveFiles
        <4>2. (awaiting # NoRec /\ ~shared) =>
                awaiting \in files.answer \/ awaiting \notin listed
          BY <4>1 DEF ListIsLater
        <4>3. QED
          BY <4>1, <4>2
      <3>2. CASE LoseFiles
        BY <3>2 DEF LoseFiles
      <3>3. QED
        BY <1>1, <3>1, <3>2
    <2>4. /\ CommandsExact' /\ StopIsOver' /\ ListIsLater' /\ BannerExact'
          /\ isStopping' \in BOOLEAN /\ awaiting' \in Recs \union {NoRec} /\ shared' \in BOOLEAN
          /\ banner' \in [name : Recs \union {NoRec}, of : Recs \union {NoRec}, fresh : BOOLEAN]
      BY <2>1, <2>2, <2>3, SettleKeeps
    <2>5. TypeOK'
      BY <2>1, <2>4 DEF TypeOK
    <2>6. MonitorExact'
      BY <2>1, <2>2 DEF MonitorExact
    <2>7. QED
      BY <2>4, <2>5, <2>6
  <1>2. CASE ServeFiles \/ RefreshList
    <2>1. UNCHANGED <<page, stopLive, countdown, timer, isStarting, isStopping, banner, calls,
                      status, awaiting, shared, selected, sse, mixed, live, died, made, listed,
                      paused>>
      BY <1>2 DEF ServeFiles, RefreshList, store, waiting, stream, recorder
    <2>2. files' \in Query(SUBSET Recs)
      BY <1>2, QueriesOfPage DEF ServeFiles, RefreshList
    <2>3. TypeOK'
      BY <2>1, <2>2 DEF TypeOK
    <2>4. Starts' = Starts /\ Stops' = Stops /\ MonitorCalls' = MonitorCalls
      BY <2>1, SameCalls
    <2>5. CommandsExact' /\ StopIsOver' /\ MonitorExact'
      BY <2>1, <2>4 DEF CommandsExact, StopIsOver, MonitorExact
    <2>6. BannerExact'
      BY <2>1, <2>4 DEF BannerExact, BannerIsTrue, BannerIsOver, BannerNamesFinished, Starts
    <2>7. ListIsLater'
      <3>1. CASE ServeFiles
        <4>1. files'.get = "answered" /\ files'.answer = listed
          BY <3>1, QueriesOfPage DEF ServeFiles, Answered, TypeOK, Query
        <4>2. QED
          BY <2>1, <4>1 DEF ListIsLater
      <3>2. CASE RefreshList
        <4>1. files' = Fetch(files) \/ files'.get = "sent"
          BY <3>2, QueriesOfPage DEF RefreshList
        <4>2. files'.get # "sent" => files' = files
          BY <4>1, QueriesOfPage DEF TypeOK
        <4>3. QED
          BY <2>1, <4>2 DEF ListIsLater
      <3>3. QED
        BY <1>2, <3>1, <3>2
    <2>8. QED
      BY <2>3, <2>5, <2>6, <2>7
  <1>3. QED
    BY <1>1, <1>2

-----------------------------------------------------------------------------
(* Navigation *)

LEMMA OpenRecorderInv ==
  ASSUME Inv, OpenRecorder
  PROVE  Inv'
  <1> USE DEF Inv
  <1> DEFINE on == Enabled(status, stopLive)
             c == MonitorCall(on)
  <1>1. /\ page' = "recorder" /\ selected' = Defaults
        /\ calls' = calls \union {c, SubscribeCall} /\ mixed' = (MonitorCalls # {})
        /\ sse' = IF on THEN "connecting" ELSE "disconnected"
        /\ status' = Fetch(status) /\ files' = Dropped(files)
        /\ StopSettled(files.data, FALSE)
        /\ UNCHANGED <<stopLive, countdown, timer, isStarting, live, died, made, listed, paused>>
    BY DEF OpenRecorder, recorder
  <1>2. on \in BOOLEAN
    BY DEF Enabled
  <1>3. /\ c \in CallType /\ ~c.heard /\ c.req.op = IF on THEN "resumeMonitor" ELSE "pauseMonitor"
    BY <1>2, NewCalls
  <1>4. SubscribeCall \in CallType /\ SubscribeCall.req.op = "updateSubscriptions"
    BY NewCalls
  <1> HIDE DEF c, on
  <1>5. Starts' = Starts /\ Stops' = Stops /\ MonitorCalls' = MonitorCalls \union {c}
    BY <1>1, <1>3, <1>4 DEF Starts, Stops, MonitorCalls, InFlight
  <1>6. /\ CommandsExact' /\ StopIsOver' /\ ListIsLater' /\ BannerExact'
        /\ isStopping' \in BOOLEAN /\ awaiting' \in Recs \union {NoRec} /\ shared' \in BOOLEAN
        /\ banner' \in [name : Recs \union {NoRec}, of : Recs \union {NoRec}, fresh : BOOLEAN]
    <2>1. files.data \in (SUBSET Recs) \union {NoData}
      BY QueriesOfPage
    <2>2. QED
      BY <1>1, <1>5, <2>1, SettleKeeps
  <1>7. TypeOK'
    <2>1. calls' \subseteq CallType /\ mixed' \in BOOLEAN /\ sse' \in SseStatus
      BY <1>1, <1>3, <1>4 DEF TypeOK, SseStatus
    <2>2. selected' \in SUBSET Topics /\ page' \in {"recorder", "recordings"}
      BY <1>1, DefaultsAssumption
    <2>3. status' \in Query({"idle", "recording"}) /\ files' \in Query(SUBSET Recs)
      BY <1>1, QueriesOfPage
    <2>4. UNCHANGED <<stopLive, countdown, timer, isStarting, live, died, made, listed, paused>>
      BY <1>1
    <2>5. QED
      BY <1>6, <2>1, <2>2, <2>3, <2>4 DEF TypeOK
  <1>8. MonitorExact'
    <2>1. \A d \in MonitorCalls' : ~d.heard
      BY <1>3, <1>5 DEF MonitorExact
    <2>2. ~mixed' => MonitorCalls' = {c}
      BY <1>1, <1>5
    <2>3. c.req.op = "pauseMonitor" <=> sse' = "disconnected"
      BY <1>1, <1>2, <1>3
    <2>4. QED
      BY <2>1, <2>2, <2>3 DEF MonitorExact
  <1>9. QED
    BY <1>6, <1>7, <1>8

\* Leaving the page forgets who waits for a deletion, and no command.
LEMMA OpenListInv ==
  ASSUME Inv, OpenList
  PROVE  Inv'
  <1> USE DEF Inv
  <1> DEFINE deletes == InFlight("deleteRecordings")
             left == {Unheard(c) : c \in {d \in deletes : d.at = "sent"}}
  <1>1. /\ page' = "recordings" /\ sse' = "disconnected"
        /\ status' = Dropped(status) /\ files' = Fetch(files)
        /\ calls' = (calls \ deletes) \union left
        /\ UNCHANGED <<stopLive, countdown, timer, isStarting, isStopping, banner, awaiting, shared,
                       selected, mixed, live, died, made, listed, paused>>
    BY DEF OpenList, store, waiting, recorder
  <1>2. deletes \subseteq calls /\ \A c \in deletes : c \in CallType /\ c.req.op = "deleteRecordings"
    BY DEF InFlight, TypeOK
  <1>3. \A c \in left : c \in CallType /\ c.req.op = "deleteRecordings"
    <2> SUFFICES ASSUME NEW d \in deletes
                 PROVE  Unheard(d) \in CallType /\ Unheard(d).req.op = "deleteRecordings"
      OBVIOUS
    <2>1. d \in CallType /\ d.req.op = "deleteRecordings"
      BY <1>2
    <2>2. Unheard(d) \in CallType /\ Unheard(d).req = d.req
      BY <2>1, EndedCalls
    <2>3. QED
      BY <2>1, <2>2
  <1> HIDE DEF deletes, left
  <1>4. Starts' = Starts /\ Stops' = Stops /\ MonitorCalls' = MonitorCalls
    BY <1>1, <1>2, <1>3 DEF Starts, Stops, MonitorCalls, InFlight
  <1>5. TypeOK'
    <2>1. calls' \subseteq CallType
      BY <1>1, <1>3 DEF TypeOK
    <2>2. status' \in Query({"idle", "recording"}) /\ files' \in Query(SUBSET Recs)
      BY <1>1, QueriesOfPage
    <2>3. page' \in {"recorder", "recordings"} /\ sse' \in SseStatus
      BY <1>1 DEF SseStatus
    <2>4. UNCHANGED <<stopLive, countdown, timer, isStarting, isStopping, banner, awaiting, shared,
                      selected, mixed, live, died, made, listed, paused>>
      BY <1>1
    <2>5. QED
      BY <2>1, <2>2, <2>3, <2>4 DEF TypeOK
  <1>6. CommandsExact' /\ StopIsOver' /\ MonitorExact'
    BY <1>1, <1>4 DEF CommandsExact, StopIsOver, MonitorExact
  <1>7. BannerExact'
    BY <1>1, <1>4 DEF BannerExact, BannerIsTrue, BannerIsOver, BannerNamesFinished, Starts
  <1>8. ListIsLater'
    BY <1>1, QueriesOfPage DEF ListIsLater
  <1>9. QED
    BY <1>5, <1>6, <1>7, <1>8

LEMMA DismissInv ==
  ASSUME Inv, DismissFinished
  PROVE  Inv'
  <1> USE DEF Inv
  <1>1. /\ banner' = NoBanner
        /\ UNCHANGED <<page, stopLive, countdown, timer, isStarting, isStopping, calls, status, files,
                       awaiting, shared, selected, sse, mixed, live, died, made, listed, paused>>
    BY DEF DismissFinished, waiting, stream, recorder
  <1>2. TypeOK'
    BY <1>1 DEF TypeOK, NoBanner
  <1>3. Starts' = Starts /\ Stops' = Stops /\ MonitorCalls' = MonitorCalls
    BY <1>1, SameCalls
  <1>4. CommandsExact' /\ StopIsOver' /\ ListIsLater' /\ MonitorExact'
    BY <1>1, <1>3 DEF CommandsExact, StopIsOver, ListIsLater, MonitorExact
  <1>5. BannerExact'
    BY <1>1 DEF BannerExact, BannerIsTrue, BannerIsOver, BannerNamesFinished, NoBanner
  <1>6. QED
    BY <1>2, <1>4, <1>5

-----------------------------------------------------------------------------
(* The server *)

LEMMA DoneCalls ==
  ASSUME Inv, NEW c \in calls, NEW a \in CallType, a.req = c.req, a.heard = c.heard, Done(c, a)
  PROVE  /\ calls' \subseteq CallType
         /\ c \in Starts => Starts' = {a} /\ Starts = {c}
         /\ c \in Stops => Stops' = {a} /\ Stops = {c}
         /\ c \notin Starts => Starts' = Starts
         /\ c \notin Stops => Stops' = Stops
         /\ c \in MonitorCalls => MonitorCalls' = MonitorCalls \ {c}
         /\ c \notin MonitorCalls => MonitorCalls' = MonitorCalls
  <1> USE DEF Inv
  <1>1. calls' = (calls \ {c}) \union (IF c.heard THEN {a} ELSE {})
    BY DEF Done
  <1>2. calls' \subseteq CallType
    BY <1>1 DEF TypeOK
  <1>3. c \in Starts => Starts' = {a} /\ Starts = {c}
    <2> SUFFICES ASSUME c \in Starts PROVE Starts' = {a} /\ Starts = {c}
      OBVIOUS
    <2>1. c.heard /\ \A d \in Starts : d = c
      BY DEF CommandsExact
    <2>2. QED
      BY <1>1, <2>1 DEF Starts, InFlight
  <1>4. c \in Stops => Stops' = {a} /\ Stops = {c}
    <2> SUFFICES ASSUME c \in Stops PROVE Stops' = {a} /\ Stops = {c}
      OBVIOUS
    <2>1. c.heard /\ \A d \in Stops : d = c
      BY DEF CommandsExact
    <2>2. QED
      BY <1>1, <2>1 DEF Stops, InFlight
  <1>5. c \notin Starts => Starts' = Starts
    BY <1>1 DEF Starts, InFlight
  <1>6. c \notin Stops => Stops' = Stops
    BY <1>1 DEF Stops, InFlight
  <1>7. c \in MonitorCalls => MonitorCalls' = MonitorCalls \ {c}
    <2> SUFFICES ASSUME c \in MonitorCalls PROVE MonitorCalls' = MonitorCalls \ {c}
      OBVIOUS
    <2>1. ~c.heard
      BY DEF MonitorExact
    <2>2. QED
      BY <1>1, <2>1 DEF MonitorCalls, InFlight
  <1>8. c \notin MonitorCalls => MonitorCalls' = MonitorCalls
    BY <1>1 DEF MonitorCalls, InFlight
  <1>9. QED
    BY <1>2, <1>3, <1>4, <1>5, <1>6, <1>7, <1>8

\* A request whose answer tells nothing but that it failed.
LEMMA ThrewInv ==
  ASSUME Inv, NEW c \in calls, Done(c, Threw(c)),
         mixed' = (mixed \/ c \in MonitorCalls),
         UNCHANGED <<page, stopLive, countdown, timer, isStarting, isStopping, banner, status,
                     files, awaiting, shared, selected, sse, live, died, made, listed, paused>>
  PROVE  Inv'
  <1> USE DEF Inv
  <1> DEFINE a == Threw(c)
  <1>1. a \in CallType /\ a.req = c.req /\ a.heard = c.heard /\ a.at = "failed" /\ Done(c, a)
    BY EndedCalls DEF TypeOK
  <1> HIDE DEF a
  <1>2. /\ calls' \subseteq CallType
        /\ c \in Starts => Starts' = {a} /\ Starts = {c}
        /\ c \in Stops => Stops' = {a} /\ Stops = {c}
        /\ c \notin Starts => Starts' = Starts
        /\ c \notin Stops => Stops' = Stops
        /\ c \in MonitorCalls => MonitorCalls' = MonitorCalls \ {c}
        /\ c \notin MonitorCalls => MonitorCalls' = MonitorCalls
    BY <1>1, DoneCalls
  <1>3. ~(c \in Starts /\ c \in Stops)
    BY Members
  <1>4. TypeOK'
    <2>1. mixed' \in BOOLEAN
      BY DEF TypeOK
    <2>2. QED
      BY <1>2, <2>1 DEF TypeOK
  <1>5. CommandsExact'
    <2>1. Starts' # {} <=> Starts # {}
      BY <1>2
    <2>2. Stops' # {} <=> Stops # {}
      BY <1>2
    <2>3. \A d \in Starts' \union Stops' : d.heard
      BY <1>1, <1>2 DEF CommandsExact
    <2>4. \A d, e \in Starts' \union Stops' : d = e
      <3>1. \A d, e \in Starts \union Stops : d = e
        BY DEF CommandsExact
      <3>2. CASE c \in Starts
        BY <1>2, <1>3, <3>1, <3>2
      <3>3. CASE c \in Stops
        BY <1>2, <1>3, <3>1, <3>3
      <3>4. CASE c \notin Starts /\ c \notin Stops
        BY <1>2, <3>1, <3>4
      <3>5. QED
        BY <3>2, <3>3, <3>4
    <2>5. QED
      BY <2>1, <2>2, <2>3, <2>4 DEF CommandsExact
  <1>6. StopIsOver' /\ ListIsLater'
    BY <1>1, <1>2 DEF StopIsOver, ListIsLater
  <1>7. BannerExact'
    <2>1. Starts = {} => Starts' = {}
      BY <1>2
    <2>2. QED
      BY <2>1 DEF BannerExact, BannerIsTrue, BannerIsOver, BannerNamesFinished, Starts
  <1>8. MonitorExact'
    BY <1>2 DEF MonitorExact, TypeOK
  <1>9. QED
    BY <1>4, <1>5, <1>6, <1>7, <1>8

LEMMA LoseInv ==
  ASSUME Inv, NEW c \in calls, Lose(c)
  PROVE  Inv'
  <1>1. /\ Done(c, Threw(c)) /\ mixed' = (mixed \/ c \in MonitorCalls)
        /\ UNCHANGED <<page, stopLive, countdown, timer, isStarting, isStopping, banner, status,
                       files, awaiting, shared, selected, sse, live, died, made, listed, paused>>
    BY DEF Lose, store, waiting, recorder
  <1>2. QED
    BY <1>1, ThrewInv

\* A recording begins while its start is the only command, so that no banner is
\* open; it ends by a stop, so that none is open either.
LEMMA ServeInv ==
  ASSUME Inv, NEW c \in calls, Serve(c)
  PROVE  Inv'
  <1> USE DEF Inv
  <1>1. /\ UNCHANGED <<page, stopLive, countdown, timer, isStarting, isStopping, banner, status,
                       files, awaiting, shared, selected, sse, mixed>>
        /\ c \in CallType
    BY DEF Serve, TypeOK, store, waiting, stream
  <1>2. CASE ServeStart(c)
    <2>1. c \in Starts /\ c \notin MonitorCalls /\ c \notin Stops
      BY <1>2, Members DEF ServeStart
    <2>2. CASE Done(c, Threw(c)) /\ UNCHANGED <<made, live>>
      <3>1. mixed' = (mixed \/ c \in MonitorCalls)
        BY <1>1, <2>1 DEF TypeOK
      <3>2. UNCHANGED <<live, died, made, listed, paused>>
        BY <1>2, <2>2 DEF ServeStart
      <3>3. QED
        BY <1>1, <2>2, <3>1, <3>2, ThrewInv
    <2>3. CASE /\ live = NoRec /\ made < MaxRecs /\ made' = made + 1 /\ live' = made + 1
               /\ Done(c, Succeeded(c, made + 1))
      <3> DEFINE a == Succeeded(c, made + 1)
      <3>1. made + 1 \in Recs /\ made' \in 0..MaxRecs /\ UNCHANGED <<died, listed, paused>>
        BY <1>2, <2>3, BoundsAssumption DEF TypeOK, Recs, ServeStart
      <3>2. a \in CallType /\ a.req = c.req /\ a.heard = c.heard /\ Done(c, a)
        BY <1>1, <2>3, <3>1, EndedCalls
      <3> HIDE DEF a
      <3>3. /\ calls' \subseteq CallType /\ Starts' = {a} /\ Starts = {c}
            /\ Stops' = Stops /\ MonitorCalls' = MonitorCalls
        BY <2>1, <3>2, DoneCalls
      <3>4. Stops = {} /\ awaiting = NoRec /\ countdown = 0 /\ c.heard
        <4>1. \A d \in Stops : d = c
          BY <2>1 DEF CommandsExact
        <4>2. QED
          BY <2>1, <4>1 DEF CommandsExact, TypeOK
      <3>5. TypeOK'
        BY <1>1, <2>3, <3>1, <3>3 DEF TypeOK
      <3>6. CommandsExact'
        BY <1>1, <3>2, <3>3, <3>4 DEF CommandsExact
      <3>7. StopIsOver' /\ ListIsLater' /\ MonitorExact'
        BY <1>1, <3>1, <3>3, <3>4 DEF StopIsOver, ListIsLater, MonitorExact
      <3>8. BannerExact'
        <4>1. banner = NoBanner
          BY <3>3 DEF BannerExact, BannerIsTrue, BannerIsOver, Starts
        <4>2. QED
          BY <1>1, <4>1
          DEF BannerExact, BannerIsTrue, BannerIsOver, BannerNamesFinished, NoBanner
      <3>9. QED
        BY <3>5, <3>6, <3>7, <3>8
    <2>4. QED
      BY <1>2, <2>2, <2>3 DEF ServeStart
  <1>3. CASE ServeStop(c)
    <2>1. c \in Stops /\ c \notin MonitorCalls /\ c \notin Starts
      BY <1>3, Members DEF ServeStop
    <2>2. CASE live = NoRec
      <3>1. mixed' = (mixed \/ c \in MonitorCalls)
        BY <1>1, <2>1 DEF TypeOK
      <3>2. Done(c, Threw(c)) /\ UNCHANGED <<live, died, made, listed, paused>>
        BY <1>3, <2>2 DEF ServeStop, recorder
      <3>3. QED
        BY <1>1, <3>1, <3>2, ThrewInv
    <2>3. CASE live # NoRec
      <3> DEFINE a == Succeeded(c, live)
      <3>1. /\ Done(c, a) /\ live' = NoRec /\ died' = FALSE /\ UNCHANGED <<made, paused>>
            /\ listed' \in {listed, listed \union {live}} /\ live \in Recs
        BY <1>3, <2>3 DEF ServeStop, TypeOK
      <3>2. a \in CallType /\ a.req = c.req /\ a.heard = c.heard /\ a.result = live
        BY <1>1, <3>1, EndedCalls
      <3> HIDE DEF a
      <3>3. /\ calls' \subseteq CallType /\ Stops' = {a} /\ Stops = {c}
            /\ Starts' = Starts /\ MonitorCalls' = MonitorCalls
        BY <2>1, <3>1, <3>2, DoneCalls
      <3>4. Starts = {} /\ awaiting = NoRec /\ countdown = 0 /\ c.heard
        <4>1. \A d \in Starts : d = c
          BY <2>1 DEF CommandsExact
        <4>2. QED
          BY <2>1, <4>1 DEF CommandsExact, TypeOK
      <3>5. TypeOK'
        <4>1. live' \in Recs \union {NoRec} /\ listed' \in SUBSET Recs /\ died' \in BOOLEAN
          BY <3>1 DEF TypeOK
        <4>2. made' = made /\ paused' = paused /\ calls' \subseteq CallType
          BY <3>1, <3>3
        <4>3. QED
          BY <1>1, <4>1, <4>2 DEF TypeOK
      <3>6. CommandsExact'
        BY <1>1, <3>2, <3>3, <3>4 DEF CommandsExact
      <3>7. StopIsOver' /\ ListIsLater' /\ MonitorExact'
        BY <1>1, <3>1, <3>2, <3>3, <3>4 DEF StopIsOver, ListIsLater, MonitorExact
      <3>8. BannerExact'
        <4>1. banner = NoBanner
          BY <2>3 DEF BannerExact, BannerIsTrue, BannerIsOver
        <4>2. QED
          BY <1>1, <4>1
          DEF BannerExact, BannerIsTrue, BannerIsOver, BannerNamesFinished, NoBanner
      <3>9. QED
        BY <3>5, <3>6, <3>7, <3>8
    <2>4. QED
      BY <2>2, <2>3
  <1>4. CASE ServeDelete(c) \/ ServeMonitor(c)
    <2> DEFINE a == Succeeded(c, NoData)
    <2>1. Done(c, a) /\ UNCHANGED <<live, died, made>> /\ listed' \subseteq listed
      BY <1>4 DEF ServeDelete, ServeMonitor, recorder
    <2>2. a \in CallType /\ a.req = c.req /\ a.heard = c.heard
      BY <1>1, EndedCalls
    <2> HIDE DEF a
    <2>3. c \notin Starts /\ c \notin Stops
      BY <1>4, Members DEF ServeDelete, ServeMonitor
    <2>4. /\ calls' \subseteq CallType /\ Starts' = Starts /\ Stops' = Stops
          /\ c \in MonitorCalls => MonitorCalls' = MonitorCalls \ {c}
          /\ c \notin MonitorCalls => MonitorCalls' = MonitorCalls
      BY <2>1, <2>2, <2>3, DoneCalls
    <2>5. /\ c \in MonitorCalls => (paused' <=> c.req.op = "pauseMonitor")
          /\ c \notin MonitorCalls => paused' = paused
          /\ paused' \in BOOLEAN
      <3>1. CASE ServeDelete(c)
        BY <3>1, Members DEF ServeDelete, TypeOK
      <3>2. CASE ServeMonitor(c)
        <4>1. paused' = IF c \in MonitorCalls THEN c.req.op = "pauseMonitor" ELSE paused
          BY <3>2 DEF ServeMonitor
        <4>2. QED
          BY <4>1 DEF TypeOK
      <3>3. QED
        BY <1>4, <3>1, <3>2
    <2>6. TypeOK'
      <3>1. listed' \in SUBSET Recs
        BY <2>1 DEF TypeOK
      <3>2. QED
        BY <1>1, <2>1, <2>4, <2>5, <3>1 DEF TypeOK
    <2>7. CommandsExact' /\ StopIsOver'
      BY <1>1, <2>1, <2>4 DEF CommandsExact, StopIsOver
    <2>8. ListIsLater'
      BY <1>1, <2>1 DEF ListIsLater
    <2>9. BannerExact'
      BY <1>1, <2>1, <2>4 DEF BannerExact, BannerIsTrue, BannerIsOver, BannerNamesFinished, Starts
    <2>10. MonitorExact'
      <3>1. CASE c \in MonitorCalls
        <4>1. \A d \in MonitorCalls' : ~d.heard
          BY <2>4, <3>1 DEF MonitorExact
        <4>2. (page' = "recorder" /\ ~mixed') =>
                MonitorCalls' = {} /\ (paused' <=> sse' = "disconnected")
          BY <1>1, <2>4, <2>5, <3>1 DEF MonitorExact
        <4>3. QED
          BY <4>1, <4>2 DEF MonitorExact
      <3>2. CASE c \notin MonitorCalls
        BY <1>1, <2>4, <2>5, <3>2 DEF MonitorExact
      <3>3. QED
        BY <3>1, <3>2
    <2>11. QED
      BY <2>6, <2>7, <2>8, <2>9, <2>10
  <1>5. QED
    BY <1>2, <1>3, <1>4 DEF Serve

\* Folders come to the list only from the recording in progress.
LEMMA FoldersInv ==
  ASSUME Inv, RecorderStep \/ \E r \in Recs : DeleteElsewhere(r)
  PROVE  Inv'
  <1> USE DEF Inv
  <1>1. /\ UNCHANGED <<page, stopLive, countdown, timer, isStarting, isStopping, banner, calls,
                       status, files, awaiting, shared, selected, sse, mixed, live, made, paused>>
        /\ listed' \subseteq listed \union {live} /\ died' \in BOOLEAN
        /\ listed' \subseteq Recs
        /\ live = NoRec => listed' \subseteq listed
    BY DEF RecorderStep, DeleteElsewhere, TypeOK, store, waiting, stream
  <1>2. TypeOK'
    <2>1. listed' \in SUBSET Recs
      BY <1>1
    <2>2. QED
      BY <1>1, <2>1 DEF TypeOK
  <1>3. Starts' = Starts /\ Stops' = Stops /\ MonitorCalls' = MonitorCalls
    BY <1>1, SameCalls
  <1>4. CommandsExact' /\ StopIsOver' /\ MonitorExact'
    BY <1>1, <1>3 DEF CommandsExact, StopIsOver, MonitorExact
  <1>5. ListIsLater'
    BY <1>1 DEF ListIsLater, StopIsOver
  <1>6. BannerExact'
    BY <1>1, <1>3
    DEF BannerExact, BannerIsTrue, BannerIsOver, BannerNamesFinished, NoBanner, Starts
  <1>7. QED
    BY <1>2, <1>4, <1>5, <1>6

-----------------------------------------------------------------------------
(* Inv is inductive *)

LEMMA InitInv ==
  ASSUME Init
  PROVE  Inv
  <1>1. TypeOK
    <2>1. /\ NewQuery \in Query({"idle", "recording"}) /\ Fetch(NewQuery) \in Query(SUBSET Recs)
      BY DEF NewQuery, Query, Fetch
    <2>2. NoBanner \in [name : Recs \union {NoRec}, of : Recs \union {NoRec}, fresh : BOOLEAN]
      BY DEF NoBanner
    <2>3. MaxRecs \in Nat
      BY BoundsAssumption
    <2>4. /\ status \in Query({"idle", "recording"}) /\ files \in Query(SUBSET Recs)
          /\ banner \in [name : Recs \union {NoRec}, of : Recs \union {NoRec}, fresh : BOOLEAN]
      BY <2>1, <2>2 DEF Init
    <2>5. /\ page \in {"recorder", "recordings"} /\ stopLive \in BOOLEAN
          /\ countdown \in Nat /\ timer \in BOOLEAN
          /\ isStarting \in BOOLEAN /\ isStopping \in BOOLEAN
          /\ awaiting \in Recs \union {NoRec} /\ calls \subseteq CallType
      BY DEF Init
    <2>6. /\ selected \in SUBSET Topics /\ sse \in SseStatus /\ mixed \in BOOLEAN
          /\ live \in Recs \union {NoRec} /\ died \in BOOLEAN
          /\ listed \in SUBSET Recs /\ paused \in BOOLEAN /\ shared \in BOOLEAN
      BY DEF Init, SseStatus
    <2>7. made \in 0..MaxRecs
      BY <2>3 DEF Init
    <2>8. QED
      BY <2>4, <2>5, <2>6, <2>7 DEF TypeOK
  <1>2. Starts = {} /\ Stops = {} /\ MonitorCalls = {}
    BY DEF Init, Starts, Stops, MonitorCalls, InFlight
  <1>3. CommandsExact
    BY <1>2 DEF Init, CommandsExact
  <1>4. StopIsOver /\ ListIsLater
    BY <1>2 DEF Init, StopIsOver, ListIsLater
  <1>5. BannerExact
    BY DEF Init, BannerExact, BannerIsTrue, BannerIsOver, BannerNamesFinished, NoBanner
  <1>6. MonitorExact
    BY <1>2 DEF Init, MonitorExact
  <1>7. QED
    BY <1>1, <1>3, <1>4, <1>5, <1>6 DEF Inv

LEMMA NextInv ==
  ASSUME Inv, [Next]_vars
  PROVE  Inv'
  <1>1. CASE Operator
    <2>1. ASSUME NEW d \in Delays, Press(d) PROVE Inv'
      BY <2>1, PressInv
    <2>2. CASE DeleteFinished \/ \E t \in Topics : ToggleTopic(t)
      BY <2>2, QuietSteps
    <2>3. CASE DismissFinished
      BY <2>3, DismissInv
    <2>4. CASE SetStopLiveMonitor
      BY <2>4, StatusInv
    <2>5. CASE OpenRecorder
      BY <2>5, OpenRecorderInv
    <2>6. CASE OpenList
      BY <2>6, OpenListInv
    <2>7. CASE RefreshList
      BY <2>7, FilesInv
    <2>8. CASE \E r \in Recs : DeleteElsewhere(r)
      BY <2>8, FoldersInv
    <2>9. QED
      BY <1>1, <2>1, <2>2, <2>3, <2>4, <2>5, <2>6, <2>7, <2>8 DEF Operator
  <1>2. CASE Tick
    BY <1>2, TickInv
  <1>3. ASSUME NEW c \in calls, Serve(c) \/ Receive(c) \/ Lose(c) PROVE Inv'
    BY <1>3, ServeInv, ReceiveInv, LoseInv
  <1>4. CASE Poll \/ LoseStatus \/ StreamEvent
    BY <1>4, QuietSteps
  <1>5. CASE ServeStatus \/ ReceiveStatus
    BY <1>5, StatusInv
  <1>6. CASE ServeFiles \/ ReceiveFiles \/ LoseFiles
    BY <1>6, FilesInv
  <1>7. CASE RecorderStep
    BY <1>7, FoldersInv
  <1>8. CASE UNCHANGED vars
    <2>1. UNCHANGED <<page, stopLive, countdown, timer, isStarting, isStopping, banner, calls, status,
                      files, awaiting, shared, selected, sse, mixed, live, died, made, listed, paused>>
      BY <1>8 DEF vars, store, waiting, stream, recorder
    <2>2. TypeOK'
      BY <2>1 DEF Inv, TypeOK
    <2>3. QED
      BY <2>1, <2>2, SameCalls, QuietInv
  <1>9. QED
    BY <1>1, <1>2, <1>3, <1>4, <1>5, <1>6, <1>7, <1>8 DEF Next

\* The strengthened invariant holds in every state of Console.
THEOREM InvHolds == Spec => []Inv
  <1>1. Init => Inv
    BY InitInv
  <1>2. Inv /\ [Next]_vars => Inv'
    BY NextInv
  <1>3. QED
    BY <1>1, <1>2, PTL DEF Spec

-----------------------------------------------------------------------------
(* What it means for the recorder page *)

\* At most one start or stop request is on its way or unsettled, none while a
\* countdown runs, and the two flags say which: what mutations.ts and store.ts
\* achieve with isStarting, isStopping and a timer that sends without a look.
THEOREM OneCommandHolds == Spec => []OneCommand
  <1>1. Inv => OneCommand
    <2> SUFFICES ASSUME Inv PROVE OneCommand
      OBVIOUS
    <2> USE DEF Inv
    <2>1. Cardinality({}) = 0 /\ \A x : Cardinality({x}) = 1
      BY FS_EmptySet, FS_Singleton
    <2>2. Starts \union Stops = {} \/ \E c : Starts \union Stops = {c}
      BY DEF CommandsExact
    <2>3. Cardinality(Starts \union Stops) \in {0, 1}
      BY <2>1, <2>2
    <2>4. Starts \union Stops # {} => awaiting = NoRec /\ ~(countdown > 0)
      BY DEF CommandsExact
    <2>5. Cardinality(Starts \union Stops) + (IF awaiting = NoRec THEN 0 ELSE 1)
            + (IF countdown > 0 THEN 1 ELSE 0) <= 1
      <3>1. CASE Starts \union Stops = {}
        BY <2>1, <3>1 DEF CommandsExact
      <3>2. CASE Starts \union Stops # {}
        BY <2>3, <2>4, <3>2
      <3>3. QED
        BY <3>1, <3>2
    <2>6. QED
      BY <2>5 DEF OneCommand, CommandsExact, Starts, Stops
  <1>2. QED
    BY <1>1, InvHolds, PTL

\* The countdown timer of store.ts is armed exactly while a countdown is shown.
THEOREM TimerExactHolds == Spec => []TimerExact
  <1>1. Inv => TimerExact
    BY DEF Inv, CommandsExact, TimerExact
  <1>2. QED
    BY <1>1, InvHolds, PTL

\* The banner of the finished recording never stands beside a recording that is
\* wanted or made, and offers to delete what the stop ended unless the list it
\* was taken from was not fetched for it (stopRecordingMutation).
THEOREM BannerIsTrueHolds == Spec => []BannerIsTrue
  <1>1. Inv => BannerIsTrue
    BY DEF Inv, BannerExact
  <1>2. QED
    BY <1>1, InvHolds, PTL

\* The topic monitor of the server is paused exactly when the stream of the open
\* recorder page is closed, once the calls of useTopicsStream have arrived in order.
THEOREM MonitorFollowsHolds == Spec => []MonitorFollows
  <1>1. Inv => MonitorFollows
    BY DEF Inv, MonitorExact, MonitorFollows, TypeOK
  <1>2. QED
    BY <1>1, InvHolds, PTL
=============================================================================
