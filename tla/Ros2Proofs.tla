----------------------------- MODULE Ros2Proofs -----------------------------
(***************************************************************************)
(* Safety of the two components that talk to ROS 2, which share no state.   *)
(* The topic monitor, for all topics, settings and window lengths:          *)
(* PauseIsForgotten and SubscribedExact. The recorder, for every set of     *)
(* child processes: its types, HoldsExact (which is NoOrphan and            *)
(* HandlesExact), AnalysisAfterExit, EndsReported and CleanExit.            *)
(***************************************************************************)
EXTENDS Monitor, Recorder, TLAPS

-----------------------------------------------------------------------------
(* The topic monitor *)

\* A topic that is not subscribed has no statistics.
NothingKept == \A t \in Topics \ subs : stats[t] = NewStats(t)

\* From the first half of resume() on, until the next pause, nothing is left that was
\* measured over a pause.
Awake == (~paused \/ resuming) => \A t \in Topics : stats[t].slept = {}

IInv == TypeOK /\ NothingKept /\ Awake /\ SubscribedExact

USE DEF Never, Measures, Limit

LEMMA UnsetIsAges == Unset \in Ages
BY TimesAssumption DEF Unset, Ages

LEMMA NewIsStats == ASSUME NEW t \in Topics PROVE NewStats(t) \in Stats /\ NewStats(t).slept = {}
BY UnsetIsAges DEF NewStats, Stats

\* Setting times anew.
LEMMA AgedStats ==
  ASSUME NEW s \in Stats, NEW age \in Ages
  PROVE  /\ Aged(s, age) \in Stats
         /\ Aged(s, age).slept \subseteq s.slept
         /\ Aged(s, age).baseline = s.baseline /\ Aged(s, age).age = age
BY DEF Aged, Stats, StillSlept

LEMMA LearnStats ==
  ASSUME NEW s \in Stats
  PROVE  Learn(s) \in Stats /\ Learn(s).slept \subseteq s.slept
<1>1. s.age \in Ages
  BY DEF Stats
<1>2. [s.age EXCEPT !.learn = 0] \in Ages
  BY <1>1, TimesAssumption DEF Ages
<1>3. Aged(s, [s.age EXCEPT !.learn = 0]) \in Stats
      /\ Aged(s, [s.age EXCEPT !.learn = 0]).slept \subseteq s.slept
  BY <1>2, AgedStats
<1>4. [s EXCEPT !.baseline = IF s.ripe THEN "learned" ELSE @] \in Stats
      /\ [s EXCEPT !.baseline = IF s.ripe THEN "learned" ELSE @].slept = s.slept
  BY DEF Stats
<1> QED BY <1>3, <1>4 DEF Learn

LEMMA RefreshStats ==
  ASSUME NEW s \in Stats, NEW byStamp \in BOOLEAN
  PROVE  Refresh(s, byStamp) \in Stats /\ (s.slept = {} => Refresh(s, byStamp).slept = {})
<1>1. s.age \in Ages
  BY DEF Stats
<1>2. LossRestarted(s, byStamp) \in Ages
  BY <1>1, TimesAssumption DEF Ages, LossRestarted
<1> DEFINE age == [LossRestarted(s, byStamp) EXCEPT !.hz = IF @ > HzWindow THEN 0 ELSE @]
<1>3. age \in Ages
  BY <1>2, TimesAssumption DEF Ages
<1>4. Judge(s) \in {"inactive", "danger", "alive"}
  BY DEF Judge
<1>5. Aged(s, age) \in Stats
  BY <1>3, AgedStats
<1> DEFINE kept == StillSlept(s.slept, age) \union
                   (IF Judge(s) = "danger" /\ "last" \in s.slept THEN {"status"} ELSE {})
<1>6. kept \in SUBSET (Measures \union {"status"}) /\ (s.slept = {} => kept = {})
  BY DEF StillSlept
<1>7. Refresh(s, byStamp) = [Aged(s, age) EXCEPT !.status = Judge(s), !.slept = kept]
  BY DEF Refresh
<1> HIDE DEF age, kept
<1>8. [Aged(s, age) EXCEPT !.status = Judge(s), !.slept = kept] \in Stats
      /\ [Aged(s, age) EXCEPT !.status = Judge(s), !.slept = kept].slept = kept
  BY <1>4, <1>5, <1>6 DEF Stats
<1> QED BY <1>6, <1>7, <1>8

LEMMA ResetStats ==
  ASSUME NEW s \in Stats
  PROVE  ResetTiming(s) \in Stats /\ ResetTiming(s).slept = {}
BY UnsetIsAges DEF ResetTiming, Stats

LEMMA MessageAges ==
  ASSUME NEW s \in Stats, NEW headed \in BOOLEAN
  PROVE  AgesAfterMessage(s, headed) \in Ages
<1>1. s.age \in Ages
  BY DEF Stats
<1> QED BY <1>1, TimesAssumption DEF Ages, AgesAfterMessage

LEMMA OlderAges == ASSUME NEW age \in Ages PROVE Older(age) \in Ages
BY TimesAssumption DEF Ages, Older

-----------------------------------------------------------------------------

\* A step that leaves the subscriptions alone preserves the invariant if it keeps the
\* statistics of subscribed topics well-formed, those of others as they are, and nothing
\* slept where nothing may be.
LEMMA SameSubscriptions ==
  ASSUME IInv, UNCHANGED <<wanted, known, subs>>,
         stats' \in [Topics -> Stats],
         \A t \in Topics \ subs : stats'[t] = stats[t],
         (~paused' \/ resuming') => \A t \in subs : stats'[t].slept = {},
         paused' \in BOOLEAN, resuming' \in BOOLEAN,
         executor' \in {Idle} \union {Callback(t) : t \in Topics} \union
                       {Conversion(t) : t \in Topics} \union
                       {Discovery(f) : f \in SUBSET Topics}
  PROVE  IInv'
<1>1. TypeOK'
  BY DEF IInv, TypeOK
<1>2. NothingKept'
  BY DEF IInv, NothingKept, NewStats
<1>3. Awake'
  <2> SUFFICES ASSUME ~paused' \/ resuming', NEW t \in Topics PROVE stats'[t].slept = {}
    BY DEF Awake
  <2>1. CASE t \in subs
    BY <2>1
  <2>2. CASE t \notin subs
    BY <2>2, NewIsStats DEF IInv, NothingKept
  <2> QED BY <2>1, <2>2
<1>4. SubscribedExact'
  BY DEF IInv, SubscribedExact
<1> QED BY <1>1, <1>2, <1>3, <1>4 DEF IInv

\* The same for steps that change the subscriptions through Subscribe.
LEMMA NewSubscriptions ==
  ASSUME IInv, NEW new \in SUBSET Topics, Subscribe(new),
         wanted' \subseteq Topics, known' \subseteq Topics,
         new = wanted' \intersect known' \intersect Importable,
         UNCHANGED <<paused, resuming>>,
         executor' \in {Idle} \union {Callback(t) : t \in Topics} \union
                       {Conversion(t) : t \in Topics} \union
                       {Discovery(f) : f \in SUBSET Topics}
  PROVE  IInv'
<1>0. /\ subs' = new
      /\ stats' = [t \in Topics |-> IF t \in subs \intersect new THEN stats[t]
                                    ELSE NewStats(t)]
  BY DEF Subscribe
<1>1. TypeOK'
  BY <1>0, NewIsStats DEF IInv, TypeOK
<1>2. NothingKept'
  BY <1>0 DEF NothingKept, NewStats
<1>3. Awake'
  BY <1>0, NewIsStats DEF IInv, Awake
<1>4. SubscribedExact'
  BY <1>0 DEF SubscribedExact
<1> QED BY <1>1, <1>2, <1>3, <1>4 DEF IInv

\* Readers and commands.
LEMMA HandlerKeeps ==
  ASSUME IInv, GetTopicStats \/ ResetBaseline \/ Pause \/ Resume \/ Resumed
  PROVE  IInv'
<1> USE DEF IInv, TypeOK
<1>1. CASE GetTopicStats
  <2>1. PICK byStamp \in BOOLEAN :
          stats' = [t \in Topics |-> IF t \in subs THEN Refresh(Learn(stats[t]), byStamp)
                                     ELSE stats[t]]
    BY <1>1 DEF GetTopicStats, Each
  <2>2. ASSUME NEW t \in Topics
        PROVE  /\ Refresh(Learn(stats[t]), byStamp) \in Stats
               /\ stats[t].slept = {} => Refresh(Learn(stats[t]), byStamp).slept = {}
    <3>1. Learn(stats[t]) \in Stats /\ Learn(stats[t]).slept \subseteq stats[t].slept
      BY LearnStats
    <3> QED BY <3>1, RefreshStats
  <2>3. stats' \in [Topics -> Stats]
    BY <2>1, <2>2
  <2>4. (~paused \/ resuming) => \A t \in subs : stats'[t].slept = {}
    BY <2>1, <2>2 DEF Awake
  <2>5. \A t \in Topics \ subs : stats'[t] = stats[t]
    BY <2>1
  <2> QED BY <1>1, <2>3, <2>4, <2>5, SameSubscriptions DEF GetTopicStats
<1>2. CASE ResetBaseline
  <2>1. stats' = [t \in Topics |->
                    IF t \in subs
                    THEN [ResetTiming(stats[t]) EXCEPT
                            !.baseline = IF @ = "fixed" THEN @ ELSE "none"]
                    ELSE stats[t]]
    BY <1>2 DEF ResetBaseline, Each
  <2>2. ASSUME NEW t \in Topics
        PROVE  LET r == ResetTiming(stats[t])
                   n == [r EXCEPT !.baseline = IF @ = "fixed" THEN @ ELSE "none"]
               IN  n \in Stats /\ n.slept = {}
    <3> DEFINE r == ResetTiming(stats[t])
    <3>1. r \in Stats /\ r.slept = {}
      BY ResetStats
    <3> HIDE DEF r
    <3>2. [r EXCEPT !.baseline = IF @ = "fixed" THEN @ ELSE "none"] \in Stats
          /\ [r EXCEPT !.baseline = IF @ = "fixed" THEN @ ELSE "none"].slept = {}
      BY <3>1 DEF Stats
    <3> QED BY <3>2 DEF r
  <2>3. stats' \in [Topics -> Stats] /\ \A t \in subs : stats'[t].slept = {}
    BY <2>1, <2>2
  <2>4. \A t \in Topics \ subs : stats'[t] = stats[t]
    BY <2>1
  <2> QED BY <1>2, <2>3, <2>4, SameSubscriptions DEF ResetBaseline
<1>3. CASE Pause
  BY <1>3, SameSubscriptions DEF Pause
<1>4. CASE Resume
  <2>1. stats' = [t \in Topics |-> IF t \in subs THEN ResetTiming(stats[t]) ELSE stats[t]]
    BY <1>4 DEF Resume, Each
  <2>2. stats' \in [Topics -> Stats] /\ \A t \in subs : stats'[t].slept = {}
    BY <2>1, ResetStats
  <2>3. \A t \in Topics \ subs : stats'[t] = stats[t]
    BY <2>1
  <2> QED BY <1>4, <2>2, <2>3, SameSubscriptions DEF Resume
<1>5. CASE Resumed
  BY <1>5, SameSubscriptions DEF Resumed, Awake
<1> QED BY <1>1, <1>2, <1>3, <1>4, <1>5

\* Requests about one topic, and about the subscriptions.
LEMMA TopicHandlerKeeps ==
  ASSUME IInv, NEW t \in Topics, GetLatestMessage(t) \/ StartLive(t) \/ StopLive(t)
  PROVE  IInv'
<1> USE DEF IInv, TypeOK
<1>1. ASSUME NEW s \in Stats, NEW b \in BOOLEAN
      PROVE  /\ [s EXCEPT !.capture = TRUE] \in Stats
             /\ [s EXCEPT !.capture = TRUE].slept = s.slept
             /\ [s EXCEPT !.live = b] \in Stats
             /\ [s EXCEPT !.live = b].slept = s.slept
  BY DEF Stats
<1>2. CASE GetLatestMessage(t)
  <2>1. t \in subs /\ stats' = [stats EXCEPT ![t] = [stats[t] EXCEPT !.capture = TRUE]]
    BY <1>2 DEF GetLatestMessage
  <2>2. stats' \in [Topics -> Stats]
    BY <2>1, <1>1
  <2>3. \A u \in Topics : stats'[u].slept = stats[u].slept
    BY <2>1, <1>1
  <2>4. \A u \in Topics \ subs : stats'[u] = stats[u]
    BY <2>1
  <2> QED BY <1>2, <2>2, <2>3, <2>4, SameSubscriptions DEF GetLatestMessage, Awake
<1>3. CASE StartLive(t)
  <2>1. stats' = [u \in Topics |-> IF u \in subs THEN [stats[u] EXCEPT !.live = (u = t)]
                                   ELSE stats[u]]
    BY <1>3 DEF StartLive
  <2>2. stats' \in [Topics -> Stats]
    BY <2>1, <1>1
  <2>3. \A u \in Topics : stats'[u].slept = stats[u].slept
    BY <2>1, <1>1
  <2>4. \A u \in Topics \ subs : stats'[u] = stats[u]
    BY <2>1
  <2> QED BY <1>3, <2>2, <2>3, <2>4, SameSubscriptions DEF StartLive, Awake
<1>4. CASE StopLive(t)
  <2>1. t \in subs /\ stats' = [stats EXCEPT ![t] = [stats[t] EXCEPT !.live = FALSE]]
    BY <1>4 DEF StopLive
  <2>2. stats' \in [Topics -> Stats]
    BY <2>1, <1>1
  <2>3. \A u \in Topics : stats'[u].slept = stats[u].slept
    BY <2>1, <1>1
  <2>4. \A u \in Topics \ subs : stats'[u] = stats[u]
    BY <2>1
  <2> QED BY <1>4, <2>2, <2>3, <2>4, SameSubscriptions DEF StopLive, Awake
<1> QED BY <1>2, <1>3, <1>4

LEMMA SubscriptionKeeps ==
  ASSUME IInv, NEW topics \in SUBSET Topics, UpdateSubscriptions(topics) \/ Discover(topics)
  PROVE  IInv'
<1>1. CASE UpdateSubscriptions(topics)
  <2> DEFINE new == topics \intersect (subs \union (known \intersect Importable))
  <2>1. /\ Subscribe(new) /\ wanted' = topics
        /\ UNCHANGED <<known, paused, resuming, executor>>
    BY <1>1 DEF UpdateSubscriptions
  <2>2. new \in SUBSET Topics /\ new = wanted' \intersect known' \intersect Importable
    BY <2>1 DEF IInv, TypeOK, SubscribedExact
  <2> HIDE DEF new
  <2> QED BY <2>1, <2>2, NewSubscriptions DEF IInv, TypeOK
<1>2. CASE Discover(topics)
  BY <1>2, SameSubscriptions DEF Discover, IInv, TypeOK, Awake
<1> QED BY <1>1, <1>2

\* The timers, and time.
LEMMA TimerKeeps ==
  ASSUME IInv, Discovered \/ GapTick \/ Pass
  PROVE  IInv'
<1> USE DEF IInv, TypeOK
<1>1. CASE Discovered
  <2>1. executor.found \in SUBSET Topics
    BY <1>1 DEF Discovered, Idle, Callback, Conversion, Discovery
  <2> DEFINE new == subs \union (executor.found \intersect wanted \intersect Importable)
  <2>2. /\ Subscribe(new) /\ known' = known \union executor.found /\ executor' = Idle
        /\ UNCHANGED <<wanted, paused, resuming>>
    BY <1>1 DEF Discovered
  <2>3. new \in SUBSET Topics /\ new = wanted' \intersect known' \intersect Importable
    BY <2>1, <2>2 DEF SubscribedExact
  <2>4. wanted' \subseteq Topics /\ known' \subseteq Topics
    BY <2>1, <2>2
  <2> HIDE DEF new
  <2> QED BY <2>2, <2>3, <2>4, NewSubscriptions
<1>2. CASE GapTick
  <2>1. stats' = [t \in Topics |->
                    IF t \in subs
                    THEN IF stats[t].age.last > Gap /\ stats[t].status # "danger"
                         THEN [stats[t] EXCEPT !.alarm = IF "last" \in stats[t].slept
                                                         THEN "false" ELSE "true"]
                         ELSE stats[t]
                    ELSE stats[t]]
    BY <1>2 DEF GapTick, Each
  <2>2. ASSUME NEW s \in Stats, NEW a \in {"false", "true"}
        PROVE  [s EXCEPT !.alarm = a] \in Stats /\ [s EXCEPT !.alarm = a].slept = s.slept
    BY DEF Stats
  <2>3. stats' \in [Topics -> Stats] /\ \A t \in Topics : stats'[t].slept = stats[t].slept
    BY <2>1, <2>2
  <2>4. \A t \in Topics \ subs : stats'[t] = stats[t]
    BY <2>1
  <2> QED BY <1>2, <2>3, <2>4, SameSubscriptions DEF GapTick, Awake
<1>3. CASE Pass
  <2>1. stats' = [t \in Topics |->
                    IF t \in subs
                    THEN [stats[t] EXCEPT
                            !.age = Older(@),
                            !.slept = IF paused
                                      THEN @ \union {x \in Measures : stats[t].age[x] # Never}
                                      ELSE @]
                    ELSE stats[t]]
    BY <1>3 DEF Pass, Each
  <2>2. ASSUME NEW s \in Stats, NEW S \in SUBSET (Measures \union {"status"})
        PROVE  /\ [s EXCEPT !.age = Older(@), !.slept = S] \in Stats
               /\ [s EXCEPT !.age = Older(@), !.slept = S].slept = S
    BY OlderAges DEF Stats
  <2>3. \A t \in Topics : stats[t].slept \in SUBSET (Measures \union {"status"})
    BY DEF Stats
  <2>4. stats' \in [Topics -> Stats]
    BY <2>1, <2>2, <2>3
  <2>5. ~paused => \A t \in subs : stats'[t].slept = {}
    BY <2>1, <2>2, <2>3 DEF Awake
  <2>6. \A t \in Topics \ subs : stats'[t] = stats[t]
    BY <2>1
  <2> QED BY <1>3, <2>4, <2>5, <2>6, SameSubscriptions DEF Pass
<1> QED BY <1>1, <1>2, <1>3

\* Messages.
LEMMA MessageKeeps ==
  ASSUME IInv, NEW t \in Topics, Receive(t) \/ Count(t) \/ Converted(t)
  PROVE  IInv'
<1> USE DEF IInv, TypeOK
<1>1. CASE Receive(t)
  BY <1>1, SameSubscriptions DEF Receive, Awake
<1>2. CASE Count(t) /\ t \notin subs
  BY <1>2, SameSubscriptions DEF Count, Awake
<1>3. CASE Count(t) /\ t \in subs
  <2> DEFINE s == stats[t]
             aged == Aged(s, AgesAfterMessage(s, t \in Headed))
  <2>1. PICK ripe \in BOOLEAN, alarm \in {"false", "none"} :
          stats' = [stats EXCEPT ![t] = [aged EXCEPT !.ripe = ripe, !.capture = FALSE,
                                                     !.alarm = alarm]]
    BY <1>3 DEF Count
  <2>2. s \in Stats
    OBVIOUS
  <2>3. aged \in Stats /\ aged.slept \subseteq s.slept
    <3>1. AgesAfterMessage(s, t \in Headed) \in Ages
      <4>1. CASE t \in Headed
        <5>1. AgesAfterMessage(s, TRUE) \in Ages
          BY <2>2, MessageAges
        <5> QED BY <4>1, <5>1 DEF AgesAfterMessage
      <4>2. CASE t \notin Headed
        <5>1. AgesAfterMessage(s, FALSE) \in Ages
          BY <2>2, MessageAges
        <5> QED BY <4>2, <5>1 DEF AgesAfterMessage
      <4> QED BY <4>1, <4>2
    <3> QED BY <2>2, <3>1, AgedStats
  <2> HIDE DEF aged
  <2>4. /\ [aged EXCEPT !.ripe = ripe, !.capture = FALSE, !.alarm = alarm] \in Stats
        /\ [aged EXCEPT !.ripe = ripe, !.capture = FALSE, !.alarm = alarm].slept
             \subseteq s.slept
    BY <2>3 DEF Stats
  <2>5. stats' \in [Topics -> Stats] /\ \A u \in Topics : stats'[u].slept \subseteq stats[u].slept
    BY <2>1, <2>4
  <2>6. \A u \in Topics \ subs : stats'[u] = stats[u]
    BY <1>3, <2>1
  <2>7. executor' \in {Idle, Conversion(t)} /\ UNCHANGED <<wanted, known, subs, paused, resuming>>
    BY <1>3 DEF Count
  <2> QED BY <2>5, <2>6, <2>7, SameSubscriptions DEF Awake
<1>4. CASE Converted(t)
  <2>1. stats' = IF t \in subs THEN [stats EXCEPT ![t] = [stats[t] EXCEPT !.latest = TRUE]]
                 ELSE stats
    BY <1>4 DEF Converted
  <2>2. ASSUME NEW s \in Stats
        PROVE  [s EXCEPT !.latest = TRUE] \in Stats /\ [s EXCEPT !.latest = TRUE].slept = s.slept
    BY DEF Stats
  <2>3. stats' \in [Topics -> Stats] /\ \A u \in Topics : stats'[u].slept = stats[u].slept
    BY <2>1, <2>2
  <2>4. \A u \in Topics \ subs : stats'[u] = stats[u]
    BY <2>1
  <2> QED BY <1>4, <2>3, <2>4, SameSubscriptions DEF Converted, Awake
<1> QED BY <1>1, <1>2, <1>3, <1>4

-----------------------------------------------------------------------------

\* The invariant holds in every state of every behaviour.
THEOREM InvHolds == Spec => []IInv
<1>1. Init => IInv
  BY NewIsStats, TopicsAssumption
     DEF Init, IInv, TypeOK, NothingKept, Awake, SubscribedExact
<1>2. IInv /\ [Next]_vars => IInv'
  <2> SUFFICES ASSUME IInv, [Next]_vars PROVE IInv'
    OBVIOUS
  <2>1. CASE UNCHANGED vars
    BY <2>1 DEF vars, IInv, TypeOK, NothingKept, NewStats, Awake, SubscribedExact
  <2>2. CASE GetTopicStats \/ ResetBaseline \/ Pause \/ Resume \/ Resumed
    BY <2>2, HandlerKeeps
  <2>3. CASE Discovered \/ GapTick \/ Pass
    BY <2>3, TimerKeeps
  <2>4. CASE \E t \in Topics : GetLatestMessage(t) \/ StartLive(t) \/ StopLive(t)
    BY <2>4, TopicHandlerKeeps
  <2>5. CASE \E topics \in SUBSET Topics : UpdateSubscriptions(topics) \/ Discover(topics)
    BY <2>5, SubscriptionKeeps
  <2>6. CASE \E t \in Topics : Receive(t) \/ Count(t) \/ Converted(t)
    BY <2>6, MessageKeeps
  <2> QED BY <2>1, <2>2, <2>3, <2>4, <2>5, <2>6 DEF Next
<1> QED BY <1>1, <1>2, PTL DEF Spec

\* What is measured does not reach over a pause, for all topics and window lengths.
THEOREM PauseIsForgottenHolds == Spec => []PauseIsForgotten
<1>1. IInv => PauseIsForgotten
  BY DEF IInv, Awake, PauseIsForgotten
<1> QED BY <1>1, InvHolds, PTL

\* The subscriptions are what was selected, discovered and can be imported.
THEOREM SubscribedExactHolds == Spec => []SubscribedExact
<1>1. IInv => SubscribedExact
  BY DEF IInv
<1> QED BY <1>1, InvHolds, PTL

-----------------------------------------------------------------------------
(* The recorder *)

\* What the place of the blocking handler says about the child it works for.
\* The last conjunct is what makes CleanExit hold: lifespan stops the recorder
\* before it lets go of the server.
HandlerExact ==
  /\ local # NoProc <=> pc \in {"discover", "check", "meta"}
  /\ pc \in {"confirm", "wait"} => record # NoProc
  /\ down => pc \in {"idle", "wait"}
  /\ (down /\ pc = "idle") => record = NoProc

\* A recording given to the analysis is not the one being started either.
ChainExact == \A p \in chain : p # local

RecorderInv ==
  /\ RecorderTypeOK
  /\ HandlerExact
  /\ ChainExact
  /\ NoOrphan
  /\ HandlesExact
  /\ AnalysisAfterExit
  /\ EndsReported

-----------------------------------------------------------------------------
\* What a step of the child leaves alone: nothing that was dead comes to life,
\* and no process gets or loses its place.
LEMMA ChildInv ==
  ASSUME RecorderInv, NEW p \in Procs, Boot(p) \/ Unpause(p) \/ Close(p) \/ Die(p)
  PROVE  RecorderInv'
  <1> USE DEF RecorderInv
  <1>1. /\ UNCHANGED host
        /\ child[p] \notin {"none", "dead"}
        /\ child' \in [Procs -> {"none", "booting", "ready", "recording", "closing", "dead"}]
        /\ \A q \in Procs : q # p => child'[q] = child[q]
        /\ child'[p] # "none"
    BY DEF Boot, Unpause, Close, Die, Death, Alive, RecorderTypeOK
  <1>2. RecorderTypeOK'
    BY <1>1 DEF Boot, Unpause, Close, Die, Death, RecorderTypeOK, host
  <1>3. \A q \in Procs : Alive(q)' => Alive(q)
    BY <1>1 DEF Alive
  <1>4. \A q \in Procs : child'[q] # "none" => child[q] # "none"
    BY <1>1
  <1>5. NoOrphan' /\ AnalysisAfterExit'
    BY <1>1, <1>3 DEF NoOrphan, AnalysisAfterExit, host, RecorderTypeOK
  <1>6. HandlerExact' /\ ChainExact' /\ HandlesExact'
    BY <1>1 DEF HandlerExact, ChainExact, HandlesExact, host
  <1>7. EndsReported'
    BY <1>1, <1>4 DEF EndsReported, host
  <1>8. QED
    BY <1>2, <1>5, <1>6, <1>7

\* A new child takes the place of one that is dead and forgotten.
LEMMA LaunchInv ==
  ASSUME RecorderInv, NEW p \in Procs, Launch(p)
  PROVE  RecorderInv'
  <1> USE DEF RecorderInv
  <1>1. /\ record = NoProc /\ local = NoProc /\ p # NoProc
        /\ record' = record /\ local' = p /\ pc = "idle" /\ pc' = "discover" /\ down' = FALSE
    BY NoProcAssumption DEF Launch, HandlerExact, RecorderTypeOK, is_recording
  <1>2. /\ child' \in [Procs -> {"none", "booting", "ready", "recording", "closing", "dead"}]
        /\ \A q \in Procs : q # p => child'[q] = child[q] /\ verdict'[q] = verdict[q]
        /\ chain' = chain \ {p}
    BY DEF Launch, RecorderTypeOK
  <1>3. RecorderTypeOK'
    BY DEF Launch, RecorderTypeOK
  <1>4. HandlerExact'
    BY <1>1 DEF HandlerExact
  <1>5. ChainExact'
    BY <1>1, <1>2 DEF ChainExact
  <1>6. NoOrphan'
    BY <1>1, <1>2 DEF NoOrphan, Alive
  <1>7. HandlesExact'
    BY <1>1 DEF HandlesExact, Launch
  <1>8. AnalysisAfterExit'
    BY <1>1, <1>2 DEF AnalysisAfterExit, Alive, RecorderTypeOK
  <1>9. EndsReported'
    BY <1>1, <1>2 DEF EndsReported
  <1>10. QED
    BY <1>3, <1>4, <1>5, <1>6, <1>7, <1>8, <1>9

\* Steps that concern neither a child nor the handler: a start that fails before
\* there is a child leaves at most its QoS file, and the operator looks elsewhere.
LEMMA IdleInv ==
  ASSUME RecorderInv, StartFails \/ TurnToPage
  PROVE  RecorderInv'
  <1> USE DEF RecorderInv
  <1>1. UNCHANGED <<pc, down, local, record, pty, child, keys, bag, meta, verdict, chain>>
    BY DEF StartFails, TurnToPage
  <1>2. RecorderTypeOK'
    BY DEF StartFails, TurnToPage, RecorderTypeOK
  <1>3. HandlesExact'
    <2>1. CASE StartFails
      BY <2>1 DEF StartFails, HandlesExact, HandlerExact, is_recording
    <2>2. CASE TurnToPage
      BY <2>2 DEF TurnToPage, HandlesExact
    <2>3. QED
      BY <2>1, <2>2
  <1>4. HandlerExact' /\ ChainExact' /\ NoOrphan' /\ AnalysisAfterExit' /\ EndsReported'
    BY <1>1 DEF HandlerExact, ChainExact, NoOrphan, AnalysisAfterExit, EndsReported, Alive
  <1>5. QED
    BY <1>2, <1>3, <1>4

\* The other steps of start() that keep the child.
LEMMA StartInv ==
  ASSUME RecorderInv, WaitAndResume \/ StartupOk \/ StoreRecord
  PROVE  RecorderInv'
  <1> USE DEF RecorderInv
  <1>1. /\ UNCHANGED <<child, verdict, chain, pty, qos, down>>
        /\ local # NoProc /\ record = NoProc
        /\ {record', local'} = {record, local}
        /\ record' = NoProc \/ local' = NoProc
    BY DEF WaitAndResume, StartupOk, StoreRecord, HandlerExact, NoOrphan
  <1>2. RecorderTypeOK'
    BY DEF WaitAndResume, StartupOk, StoreRecord, RecorderTypeOK, HandlerExact
  <1>3. HandlerExact'
    BY DEF WaitAndResume, StartupOk, StoreRecord, HandlerExact
  <1>4. NoOrphan' /\ HandlesExact' /\ EndsReported'
    BY <1>1 DEF NoOrphan, HandlesExact, EndsReported, Alive
  <1>5. ChainExact' /\ AnalysisAfterExit'
    BY <1>1 DEF ChainExact, AnalysisAfterExit, Alive
  <1>6. QED
    BY <1>2, <1>3, <1>4, <1>5

\* A dead child is let go of: during start(), by get_status or at the end of stop().
LEMMA ReleaseInv ==
  ASSUME RecorderInv, StartupDeath \/ Poll \/ (Confirm /\ DetectCrash) \/ Exited
  PROVE  RecorderInv'
  <1> USE DEF RecorderInv
  <1> DEFINE p == IF pc = "check" THEN local ELSE record
  <1>1. /\ p \in Procs /\ ~Alive(p)
        /\ {record, local} \ {NoProc} = {p}
        /\ record' = NoProc /\ local' = NoProc /\ qos' = NoProc /\ pty' = pty \ {p}
        /\ child' = child
        /\ pc' = "idle"
    BY DEF StartupDeath, Poll, Confirm, DetectCrash, Exited, Reset, HandlerExact, NoOrphan,
           RecorderTypeOK, is_recording
  <1>2. \E v \in {"failed", "stopped", "crashed"} : verdict' = [verdict EXCEPT ![p] = v]
    BY DEF StartupDeath, Poll, Confirm, DetectCrash, Exited, HandlerExact
  <1>3. chain' = chain \/ (chain' = chain \union {p} /\ verdict'[p] = "stopped")
    BY <1>1 DEF StartupDeath, Poll, Confirm, DetectCrash, Exited, RecorderTypeOK
  <1>4. RecorderTypeOK'
    <2>1. /\ UNCHANGED <<keys, bag, meta, down, viewed>>
      BY DEF StartupDeath, Poll, Confirm, DetectCrash, Exited
    <2>2. QED
      BY <1>1, <1>2, <1>3, <2>1 DEF RecorderTypeOK
  <1>5. HandlerExact'
    BY <1>1 DEF HandlerExact
  <1>6. \A q \in Procs : Alive(q)' <=> Alive(q)
    BY <1>1 DEF Alive
  <1>7. NoOrphan' /\ HandlesExact'
    BY <1>1, <1>6 DEF NoOrphan, HandlesExact
  <1>8. p \notin chain
    BY <1>1 DEF ChainExact, AnalysisAfterExit
  <1>9. ChainExact' /\ AnalysisAfterExit'
    <2>1. \A q \in chain' : q \in Procs /\ ~Alive(q) /\ verdict'[q] = "stopped"
      BY <1>1, <1>2, <1>3, <1>8 DEF AnalysisAfterExit, RecorderTypeOK
    <2>2. NoProc \notin chain'
      BY <2>1, NoProcAssumption
    <2>3. QED
      BY <1>1, <1>6, <2>1, <2>2 DEF ChainExact, AnalysisAfterExit
  <1>10. EndsReported'
    BY <1>1, <1>2 DEF EndsReported, RecorderTypeOK
  <1>11. QED
    BY <1>4, <1>5, <1>7, <1>9, <1>10

\* The steps of stop() and of the shutdown that keep the child, and the answer
\* of a successful start.
LEMMA StopInv ==
  ASSUME RecorderInv, Stop \/ Shutdown \/ Kill \/ (Confirm /\ ~DetectCrash)
  PROVE  RecorderInv'
  <1> USE DEF RecorderInv
  <1>1. /\ UNCHANGED <<record, local, qos, pty, chain>>
        /\ child' \in [Procs -> {"none", "booting", "ready", "recording", "closing", "dead"}]
        /\ \A q \in Procs : Alive(q)' => Alive(q)
        /\ \A q \in Procs : child'[q] # "none" => child[q] # "none"
    BY DEF Stop, Shutdown, Kill, Confirm, Interrupted, Death, Alive, RecorderTypeOK, host,
           is_recording
  <1>2. \/ verdict' = verdict
        \/ (record \in Procs /\ verdict' = [verdict EXCEPT ![record] = "started"])
    BY NoProcAssumption DEF Stop, Shutdown, Kill, Confirm, host, HandlerExact, RecorderTypeOK
  <1>3. RecorderTypeOK'
    <2>1. /\ pc' \in {"idle", "wait"} /\ down' \in BOOLEAN
          /\ UNCHANGED <<keys, meta, viewed>>
      BY DEF Stop, Shutdown, Kill, Confirm, RecorderTypeOK, host
    <2>2. bag' \in [Procs -> {"none", "open", "closed", "cut"}]
      BY DEF Stop, Shutdown, Kill, Confirm, Death, RecorderTypeOK
    <2>3. verdict' \in [Procs -> {"none", "failed", "started", "stopped", "crashed"}]
      BY <1>2 DEF RecorderTypeOK
    <2>4. QED
      BY <1>1, <2>1, <2>2, <2>3 DEF RecorderTypeOK
  <1>4. HandlerExact'
    BY DEF HandlerExact, Stop, Shutdown, Kill, Confirm, host, is_recording
  <1>5. NoOrphan' /\ HandlesExact' /\ ChainExact'
    BY <1>1 DEF NoOrphan, HandlesExact, ChainExact
  <1>6. AnalysisAfterExit'
    BY <1>1, <1>2 DEF AnalysisAfterExit, RecorderTypeOK
  <1>7. EndsReported'
    BY <1>1, <1>2 DEF EndsReported, RecorderTypeOK
  <1>8. QED
    BY <1>3, <1>4, <1>5, <1>6, <1>7

-----------------------------------------------------------------------------
\* RecorderInv holds in every state of every behaviour of the recorder.
THEOREM RecorderInvariant == RecorderSpec => []RecorderInv
  <1>1. RecorderInit => RecorderInv
    BY NoProcAssumption, NoPtyAssumption DEF RecorderInit, RecorderInv, RecorderTypeOK, HandlerExact, ChainExact,
       NoOrphan, HandlesExact, AnalysisAfterExit, EndsReported, Alive
  <1>2. RecorderInv /\ [RecorderNext]_recorder => RecorderInv'
    <2> SUFFICES ASSUME RecorderInv, [RecorderNext]_recorder PROVE RecorderInv'
      OBVIOUS
    <2>1. ASSUME NEW p \in Procs, Launch(p) PROVE RecorderInv'
      BY <2>1, LaunchInv
    <2>2. CASE WaitAndResume \/ StartupOk \/ StoreRecord
      BY <2>2, StartInv
    <2>3. CASE StartupDeath \/ Poll \/ Exited
      BY <2>3, ReleaseInv
    <2>4. CASE Confirm
      BY <2>4, ReleaseInv, StopInv
    <2>5. CASE Stop \/ Shutdown \/ Kill
      BY <2>5, StopInv
    <2>6. ASSUME NEW p \in Procs, Boot(p) \/ Unpause(p) \/ Close(p) \/ Die(p) PROVE RecorderInv'
      BY <2>6, ChildInv
    <2>7. CASE StartFails \/ TurnToPage
      BY <2>7, IdleInv
    <2>8. CASE UNCHANGED recorder
      BY <2>8 DEF recorder, RecorderInv, RecorderTypeOK, HandlerExact, ChainExact, NoOrphan,
                  HandlesExact, AnalysisAfterExit, EndsReported, Alive
    <2>9. QED
      BY <2>1, <2>2, <2>3, <2>4, <2>5, <2>6, <2>7, <2>8 DEF RecorderNext
  <1>3. QED
    BY <1>1, <1>2, PTL DEF RecorderSpec

\* Every variable of the recorder keeps its type.
THEOREM RecorderTypes == RecorderSpec => []RecorderTypeOK
  <1>1. RecorderInv => RecorderTypeOK
    BY DEF RecorderInv
  <1>2. QED
    BY <1>1, RecorderInvariant, PTL

\* The backend never loses a live recorder, nor starts a second one, and pty and
\* QoS file live and die with the child's place in the backend.
THEOREM HoldsAreExact == RecorderSpec => []HoldsExact
  <1>1. RecorderInv => HoldsExact
    BY DEF RecorderInv, HoldsExact
  <1>2. QED
    BY <1>1, RecorderInvariant, PTL

\* The analysis gets stopped recordings only, and after the recorder's exit.
THEOREM AnalysisIsSafe == RecorderSpec => []AnalysisAfterExit
  <1>1. RecorderInv => AnalysisAfterExit
    BY DEF RecorderInv
  <1>2. QED
    BY <1>1, RecorderInvariant, PTL

\* No recording is let go of without telling the operator how it ended.
THEOREM EndsAreReported == RecorderSpec => []EndsReported
  <1>1. RecorderInv => EndsReported
    BY DEF RecorderInv
  <1>2. QED
    BY <1>1, RecorderInvariant, PTL

\* A shutdown that is over has left no recorder running.
THEOREM ExitIsClean == RecorderSpec => []CleanExit
  <1>1. RecorderInv => CleanExit
    BY NoProcAssumption DEF RecorderInv, HandlerExact, NoOrphan, CleanExit
  <1>2. QED
    BY <1>1, RecorderInvariant, PTL

=============================================================================
