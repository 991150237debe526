------------------------------ MODULE Monitor ------------------------------
(***************************************************************************)
(* The topic monitor: which topics are subscribed, and what is measured of *)
(* each of them and when the measuring began, under pause and resume.      *)
(*                                                                         *)
(* Two threads share one lock. The event loop runs the handlers of the API,*)
(* none of which awaits, one after the other; resume() is the only one that*)
(* does something outside its locked section that matters. The single      *)
(* thread of the rclpy executor runs the two timers and the callback of    *)
(* every message, which look around before they take the lock and after    *)
(* they have released it.                                                  *)
(*                                                                         *)
(* A field that holds a time is modelled by its age, in units of time. A   *)
(* callback between its look at the clock and the lock, and resume()       *)
(* between its two halves, take less than one unit.                        *)
(***************************************************************************)
EXTENDS Integers

CONSTANTS
  Topics,
  Importable,    \* topics whose message type can be imported
  Headed,        \* topics whose messages have a header.stamp
  Fixed,         \* topics with an expected rate in the configuration
  Defaults,      \* default_topics
  StampQuality,  \* the setting of that name
  Gap,           \* gap_threshold_sec
  HzWindow, LossWindow,  \* _HZ_WINDOW_SEC, _LOSS_RATE_WINDOW_SEC
  Warmup, MinSpan        \* of BaselineLearner

ASSUME TopicsAssumption ==
  Importable \union Headed \union Fixed \union Defaults \subseteq Topics
ASSUME StampAssumption == StampQuality \in BOOLEAN
ASSUME TimesAssumption == {Gap, HzWindow, LossWindow, Warmup, MinSpan} \subseteq Nat \ {0}

VARIABLES
  wanted,    \* _subscribed_topic_names
  known,     \* _discovered_topics
  subs,      \* _subscribed_set, the domain of _topic_stats
  stats,     \* _topic_stats; as of a new topic where there is none
  paused,    \* _paused
  resuming,  \* resume() has released the lock and not yet cleared _paused
  executor   \* what the thread of the executor is doing

vars == <<wanted, known, subs, stats, paused, resuming, executor>>

-----------------------------------------------------------------------------
(* What is kept of a topic *)

\* The age of a time that is not set.
Never == -1

\* From when on what is measured: the first message, the last one, the windows of
\* the rate, of the loss and of the stamps, the last stamp, the learning. Ages
\* are told apart up to these.
Limit == [first |-> Warmup, last |-> Gap + 1, hz |-> HzWindow + 1, loss |-> LossWindow,
          stamp |-> LossWindow, mark |-> 1, learn |-> MinSpan]
Measures == DOMAIN Limit

Ages == {a \in [Measures -> Int] : \A x \in Measures : Never <= a[x] /\ a[x] <= Limit[x]}
Unset == [x \in Measures |-> Never]

\* slept, history: what is measured over a time in which the monitor was paused,
\* "status" for a status that was judged by such a measure.
\* alarm, history: the danger logged since the last message, "false" when the time
\* it complains of was a pause.
Stats == [age : Ages, ripe : BOOLEAN, baseline : {"none", "fixed", "learned"},
          status : {"inactive", "danger", "alive"}, capture : BOOLEAN,
          latest : BOOLEAN, live : BOOLEAN,
          slept : SUBSET (Measures \union {"status"}),
          alarm : {"none", "true", "false"}]

NewStats(t) ==
  [age |-> Unset, ripe |-> FALSE, baseline |-> IF t \in Fixed THEN "fixed" ELSE "none",
   status |-> "inactive", capture |-> FALSE, latest |-> FALSE, live |-> FALSE,
   slept |-> {}, alarm |-> "none"]

Idle == [does |-> "nothing"]
Callback(t) == [does |-> "callback", topic |-> t]
Conversion(t) == [does |-> "conversion", topic |-> t]
Discovery(found) == [does |-> "discovery", found |-> found]

TypeOK ==
  /\ wanted \subseteq Topics /\ known \subseteq Topics /\ subs \subseteq Topics
  /\ stats \in [Topics -> Stats]
  /\ paused \in BOOLEAN /\ resuming \in BOOLEAN
  /\ executor \in {Idle} \union {Callback(t) : t \in Topics} \union
                  {Conversion(t) : t \in Topics} \union {Discovery(f) : f \in SUBSET Topics}

Init ==
  /\ wanted = Defaults /\ known = {} /\ subs = {}
  /\ stats = [t \in Topics |-> NewStats(t)]
  /\ paused = FALSE /\ resuming = FALSE
  /\ executor = Idle

\* What of slept is still true with these ages: what was set anew is not.
StillSlept(slept, age) == {x \in slept \intersect Measures : age[x] > 0}

\* s with these ages.
Aged(s, age) == [s EXCEPT !.age = age,
                          !.slept = StillSlept(@, age) \union (@ \intersect {"status"})]

\* The subscriptions become these; statistics of others are dropped, new ones begun.
Subscribe(new) ==
  /\ subs' = new
  /\ stats' = [t \in Topics |-> IF t \in subs \intersect new THEN stats[t] ELSE NewStats(t)]

\* stats of the subscribed topics become F of them.
Each(F(_)) == [t \in Topics |-> IF t \in subs THEN F(stats[t]) ELSE stats[t]]

-----------------------------------------------------------------------------
(* Readers *)

\* maybe_learn_baseline
Learn(s) ==
  IF s.baseline # "none" THEN s
  ELSE IF s.age.learn = Never
  THEN IF s.age.first >= Warmup THEN Aged(s, [s.age EXCEPT !.learn = 0]) ELSE s
  ELSE [s EXCEPT !.baseline = IF s.ripe THEN "learned" ELSE @]

\* _compute_status; "alive" stands for ok and warning.
Judge(s) ==
  IF s.age.last = Never THEN "inactive" ELSE IF s.age.last > Gap THEN "danger" ELSE "alive"

\* The windows of the loss that are used up begin anew. Which of the two is looked
\* at depends on whether stamps have come in since it began.
LossRestarted(s, byStamp) ==
  IF Judge(s) = "danger" \/ s.baseline = "none" THEN s.age
  ELSE IF byStamp /\ s.age.stamp # Never
  THEN [s.age EXCEPT !.stamp = IF @ >= LossWindow THEN 0 ELSE @]
  ELSE [s.age EXCEPT !.loss = IF @ >= LossWindow THEN 0 ELSE @]

\* refresh_cache
Refresh(s, byStamp) ==
  LET age == [LossRestarted(s, byStamp) EXCEPT !.hz = IF @ > HzWindow THEN 0 ELSE @]
  IN  [Aged(s, age) EXCEPT
         !.status = Judge(s),
         !.slept = StillSlept(s.slept, age) \union
                   (IF Judge(s) = "danger" /\ "last" \in s.slept THEN {"status"} ELSE {})]

GetTopicStats ==
  /\ ~resuming
  /\ \E byStamp \in BOOLEAN :
       /\ byStamp => StampQuality
       /\ LET Read(s) == Refresh(Learn(s), byStamp) IN stats' = Each(Read)
  /\ UNCHANGED <<wanted, known, subs, paused, resuming, executor>>

\* get_latest_message
GetLatestMessage(t) ==
  /\ ~resuming /\ t \in subs
  /\ stats' = [stats EXCEPT ![t].capture = TRUE]
  /\ UNCHANGED <<wanted, known, subs, paused, resuming, executor>>

-----------------------------------------------------------------------------
(* Commands *)

StartLive(t) ==
  /\ ~resuming
  /\ stats' = [u \in Topics |-> IF u \in subs THEN [stats[u] EXCEPT !.live = (u = t)]
                               ELSE stats[u]]
  /\ UNCHANGED <<wanted, known, subs, paused, resuming, executor>>

StopLive(t) ==
  /\ ~resuming /\ t \in subs
  /\ stats' = [stats EXCEPT ![t].live = FALSE]
  /\ UNCHANGED <<wanted, known, subs, paused, resuming, executor>>

\* Faulty variant: the learner is forgotten.
ResetTimingButLearner(s) ==
  [s EXCEPT !.age = [Unset EXCEPT !.learn = s.age.learn], !.ripe = FALSE,
            !.status = "inactive", !.capture = FALSE,
            !.slept = @ \intersect {"learn"}, !.alarm = "none"]

\* _reset_stats_timing
ResetTiming(s) ==
  [s EXCEPT !.age = Unset, !.ripe = FALSE, !.status = "inactive", !.capture = FALSE,
            !.slept = {}, !.alarm = "none"]

ResetBaseline ==
  /\ ~resuming
  /\ LET Restart(s) == [ResetTiming(s) EXCEPT
                          !.baseline = IF @ = "fixed" THEN @ ELSE "none"]
     IN  stats' = Each(Restart)
  /\ UNCHANGED <<wanted, known, subs, paused, resuming, executor>>

Pause ==
  /\ ~resuming
  /\ paused' = TRUE
  /\ UNCHANGED <<wanted, known, subs, stats, resuming, executor>>

\* The two halves of resume().
Resume ==
  /\ ~resuming
  /\ stats' = Each(ResetTiming)
  /\ resuming' = TRUE
  /\ UNCHANGED <<wanted, known, subs, paused, executor>>

Resumed ==
  /\ resuming
  /\ resuming' = FALSE /\ paused' = FALSE
  /\ UNCHANGED <<wanted, known, subs, stats, executor>>

UpdateSubscriptions(topics) ==
  /\ ~resuming
  /\ wanted' = topics
  /\ Subscribe(topics \intersect (subs \union (known \intersect Importable)))
  /\ UNCHANGED <<known, paused, resuming, executor>>

-----------------------------------------------------------------------------
(* The thread of the executor *)

\* on_discover_tick before the lock: the topics that are there now.
Discover(found) ==
  /\ executor = Idle
  /\ executor' = Discovery(found)
  /\ UNCHANGED <<wanted, known, subs, stats, paused, resuming>>

\* ... and under the lock.
Discovered ==
  /\ executor.does = "discovery"
  /\ known' = known \union executor.found
  /\ Subscribe(subs \union (executor.found \intersect wanted \intersect Importable))
  /\ executor' = Idle
  /\ UNCHANGED <<wanted, paused, resuming>>

\* Faulty variant: the status is compared the wrong way round.
GapTickInDanger ==
  LET Check(s) ==
        IF s.age.last > Gap /\ s.status = "danger"
        THEN [s EXCEPT !.alarm = IF "last" \in s.slept THEN "false" ELSE "true"]
        ELSE s
  IN  /\ executor = Idle
      /\ stats' = Each(Check)
      /\ UNCHANGED <<wanted, known, subs, paused, resuming, executor>>

\* on_gap_check_tick
GapTick ==
  LET Check(s) ==
        IF s.age.last > Gap /\ s.status # "danger"
        THEN [s EXCEPT !.alarm = IF "last" \in s.slept THEN "false" ELSE "true"]
        ELSE s
  IN  /\ executor = Idle
      /\ stats' = Each(Check)
      /\ UNCHANGED <<wanted, known, subs, paused, resuming, executor>>

\* on_message up to the lock; while paused it returns. An unsubscribed topic may
\* still have a message that was taken off before.
Receive(t) ==
  /\ executor = Idle /\ ~paused /\ t \in subs
  /\ executor' = Callback(t)
  /\ UNCHANGED <<wanted, known, subs, stats, paused, resuming>>

\* The ages after a message: it is the last one, and begins what has not begun.
AgesAfterMessage(s, headed) ==
  LET stamped == headed /\ s.baseline # "none"
  IN  [x \in Measures |->
         IF x = "last" \/ (x = "mark" /\ stamped) THEN 0
         ELSE IF x \in {"first", "hz", "loss"} \/ (x = "stamp" /\ stamped)
         THEN IF s.age[x] = Never THEN 0 ELSE s.age[x]
         ELSE s.age[x]]

\* on_message under the lock. The learner has enough messages sooner or later. A
\* gap the message ends is logged, which the history need not keep unless false.
Count(t) ==
  /\ executor = Callback(t)
  /\ IF t \notin subs
     THEN executor' = Idle /\ UNCHANGED stats
     ELSE LET s == stats[t]
          IN  /\ \E ripe \in BOOLEAN :
                   /\ s.ripe => ripe
                   /\ ripe => s.ripe \/ s.age.learn >= MinSpan
                   /\ stats' = [stats EXCEPT ![t] =
                        [Aged(s, AgesAfterMessage(s, t \in Headed)) EXCEPT
                           !.ripe = ripe, !.capture = FALSE,
                           !.alarm = IF s.age.last > Gap /\ "last" \in s.slept
                                     THEN "false" ELSE "none"]]
              /\ executor' = IF s.capture THEN Conversion(t) ELSE Idle
  /\ UNCHANGED <<wanted, known, subs, paused, resuming>>

\* on_message after the conversion, under the lock again.
Converted(t) ==
  /\ executor = Conversion(t)
  /\ executor' = Idle
  /\ stats' = IF t \in subs THEN [stats EXCEPT ![t].latest = TRUE] ELSE stats
  /\ UNCHANGED <<wanted, known, subs, paused, resuming>>

-----------------------------------------------------------------------------

\* A unit of time passes.
Older(age) ==
  [x \in Measures |-> IF age[x] = Never \/ age[x] = Limit[x] THEN age[x] ELSE age[x] + 1]

Pass ==
  /\ ~resuming /\ executor.does # "callback"
  /\ LET Wait(s) == [s EXCEPT !.age = Older(@),
                              !.slept = IF paused
                                        THEN @ \union {x \in Measures : s.age[x] # Never}
                                        ELSE @]
     IN  stats' = Each(Wait)
  /\ UNCHANGED <<wanted, known, subs, paused, resuming, executor>>

Next ==
  \/ GetTopicStats \/ ResetBaseline \/ Pause \/ Resume \/ Resumed
  \/ Discovered \/ GapTick \/ Pass
  \/ \E t \in Topics : GetLatestMessage(t) \/ StartLive(t) \/ StopLive(t)
  \/ \E topics \in SUBSET Topics : UpdateSubscriptions(topics) \/ Discover(topics)
  \/ \E t \in Topics : Receive(t) \/ Count(t) \/ Converted(t)

\* Handlers and callbacks come to their end. The executor serves a timer that is
\* due before the messages that wait.
Fairness ==
  /\ WF_vars(Resumed) /\ WF_vars(Discovered) /\ SF_vars(GapTick)
  /\ \A t \in Topics : WF_vars(Count(t)) /\ WF_vars(Converted(t))

Spec == Init /\ [][Next]_vars /\ Fairness

-----------------------------------------------------------------------------

\* A monitor that is not paused measures nothing over a time in which it was:
\* neither a gap, a rate, a loss, a stamp interval nor the learning of a baseline,
\* and no status was judged by one, whatever was read, sent, subscribed or reset
\* before, during and after the pause.
PauseIsForgotten == ~paused => \A t \in Topics : stats[t].slept = {}

\* Whenever the lock is free, exactly the topics are subscribed that are selected,
\* have been discovered, and have a type that can be imported; so neither a
\* discovery that was read before the selection changed brings a topic back, nor
\* does one get lost.
SubscribedExact == subs = wanted \intersect known \intersect Importable

\* A topic that has sent and falls silent for longer than the threshold, in a
\* monitor that goes on, comes to light: by its status or by a line of the log.
Stalled(t) == t \in subs /\ stats[t].age.last > Gap /\ ~paused
StallSurfaces ==
  \A t \in Topics :
    Stalled(t) ~> (stats[t].status = "danger" \/ stats[t].alarm # "none" \/ ~Stalled(t))

\* What the comment of resume() says: the time of a pause produces no false detection
\* of a gap.
PauseRaisesNoAlarm == \A t \in Topics : stats[t].alarm # "false"
=============================================================================
