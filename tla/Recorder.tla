------------------------------ MODULE Recorder ------------------------------
(***************************************************************************)
(* One recording at a time: ROS2BagRecorder (features/recording/service.py)*)
(* with its router, and the child process `ros2 bag record` it drives      *)
(* through a pty (infra/ros2).                                             *)
(*                                                                         *)
(* The endpoints call start(), stop() and get_status() without awaiting    *)
(* anything, so each of them blocks the event loop and no two of them      *)
(* interleave; `pc` says where the one handler in progress is. The child   *)
(* interleaves with every step: it boots, creates the bag, reads the SPACE *)
(* key, closes the bag after SIGINT or never does, and dies at any time.   *)
(* The child is external; its steps are what service.py and                *)
(* record_process.py expect of it. A name of Procs stands for one child    *)
(* process together with its bag folder, its pty master and the QoS file   *)
(* made for it, and is used again once the process is dead and forgotten.  *)
(* RecorderInit, RecorderNext and so on bear the component's name, so that *)
(* Ros2Proofs can have it beside the topic monitor.                        *)
(***************************************************************************)
CONSTANTS
  Procs,    \* child processes that may be around at the same time
  NoProc,   \* Python's None where a RecordProcess is expected
  NoPty     \* owner of a QoS file whose start got no pty, and so no child

ASSUME NoProcAssumption == NoProc \notin Procs
ASSUME NoPtyAssumption == NoPty \notin Procs /\ NoPty # NoProc

VARIABLES
  pc,       \* where the handler that blocks the event loop is
  down,     \* lifespan is past its yield: the server takes no requests
  local,    \* the RecordProcess start() has not yet stored
  record,   \* self._record
  qos,      \* the child for which self._qos_file was made
  pty,      \* children whose pty master is open
  child,    \* state of each process
  keys,     \* children whose pty holds the SPACE that ends the pause
  bag,      \* the folder a child writes: "cut" if it died before closing it
  meta,     \* children whose folder holds a recording_meta.json
  verdict,  \* the last thing the operator was told about a recording
  chain,    \* recordings handed to _run_post_recording_analysis
  viewed    \* the recorder page is mounted, in a browser tab that is shown

recorder == <<pc, down, local, record, qos, pty, child, keys, bag, meta, verdict, chain, viewed>>

\* Everything but what a child changes.
host == <<pc, down, local, record, qos, pty, meta, verdict, chain, viewed>>

RecorderTypeOK ==
  /\ pc \in {"idle", "discover", "check", "meta", "confirm", "wait"}
  /\ down \in BOOLEAN
  /\ local \in Procs \union {NoProc}
  /\ record \in Procs \union {NoProc}
  /\ qos \in Procs \union {NoProc, NoPty}
  /\ pty \in SUBSET Procs
  /\ child \in [Procs -> {"none", "booting", "ready", "recording", "closing", "dead"}]
  /\ keys \in SUBSET Procs
  /\ bag \in [Procs -> {"none", "open", "closed", "cut"}]
  /\ meta \in SUBSET Procs
  /\ verdict \in [Procs -> {"none", "failed", "started", "stopped", "crashed"}]
  /\ chain \in SUBSET Procs
  /\ viewed \in BOOLEAN

RecorderInit ==
  /\ pc = "idle" /\ down = FALSE
  /\ local = NoProc /\ record = NoProc /\ qos = NoProc
  /\ pty = {}
  /\ child = [p \in Procs |-> "none"]
  /\ keys = {}
  /\ bag = [p \in Procs |-> "none"]
  /\ meta = {}
  /\ verdict = [p \in Procs |-> "none"]
  /\ chain = {}
  /\ viewed \in BOOLEAN

Alive(p) == child[p] \notin {"none", "dead"}
is_recording == record # NoProc

-----------------------------------------------------------------------------
(* start() and the rest of start_recording *)

\* A start that gets no further than bag_record. One that is refused (already
\* recording, no topics, disk full) changes nothing. The QoS file of the others
\* is closed if Popen failed, a ROS2CommandError, and is kept if openpty did:
\* its OSError passes start() by.
StartFails ==
  /\ pc = "idle" /\ ~down
  /\ ~is_recording
  /\ qos' \in {NoProc, NoPty}
  /\ UNCHANGED <<pc, down, local, record, pty, child, keys, bag, meta, verdict, chain, viewed>>

\* start() up to bag_record, with QoS overrides or without.
Launch(p) ==
  /\ pc = "idle" /\ ~down
  /\ ~is_recording
  /\ ~Alive(p)
  /\ \E q \in {p, NoProc} : qos' = q
  /\ child' = [child EXCEPT ![p] = "booting"]
  /\ keys' = keys \ {p} /\ bag' = [bag EXCEPT ![p] = "none"]
  /\ meta' = meta \ {p} /\ chain' = chain \ {p}
  /\ verdict' = [verdict EXCEPT ![p] = "none"]
  /\ pty' = pty \union {p}
  /\ local' = p
  /\ pc' = "discover"
  /\ UNCHANGED <<down, record, viewed>>

\* _wait_and_resume: every topic is subscribed, the timeout is over or the
\* child is dead, and the extra delay is over. Writing to the pty of a dead
\* child succeeds.
WaitAndResume ==
  /\ pc = "discover"
  /\ keys' = keys \union {local}
  /\ pc' = "check"
  /\ UNCHANGED <<down, local, record, qos, pty, child, bag, meta, verdict, chain, viewed>>

\* Faulty variant: start() raises without cleaning up after the dead child.
StartupDeathLeaks ==
  /\ pc = "check"
  /\ ~Alive(local)
  /\ verdict' = [verdict EXCEPT ![local] = "failed"]
  /\ local' = NoProc
  /\ pc' = "idle"
  /\ UNCHANGED <<down, record, qos, pty, child, keys, bag, meta, chain, viewed>>

\* poll() after the resume finds a dead child: RecorderError.
StartupDeath ==
  /\ pc = "check"
  /\ ~Alive(local)
  /\ verdict' = [verdict EXCEPT ![local] = "failed"]
  /\ pty' = pty \ {local}
  /\ qos' = NoProc
  /\ local' = NoProc
  /\ pc' = "idle"
  /\ UNCHANGED <<down, record, child, keys, bag, meta, chain, viewed>>

\* poll() finds the child alive.
StartupOk ==
  /\ pc = "check"
  /\ Alive(local)
  /\ pc' = "meta"
  /\ UNCHANGED <<down, local, record, qos, pty, child, keys, bag, meta, verdict, chain, viewed>>

\* _write_meta needs the folder and may fail all the same; then the state is
\* stored in either case.
StoreRecord ==
  /\ pc = "meta"
  /\ \/ bag[local] # "none" /\ meta' = meta \union {local}
     \/ UNCHANGED meta
  /\ record' = local
  /\ local' = NoProc
  /\ pc' = "confirm"
  /\ UNCHANGED <<down, qos, pty, child, keys, bag, verdict, chain, viewed>>

\* RecordProcess.cleanup and _reset_state.
Reset ==
  /\ record' = NoProc /\ qos' = NoProc
  /\ pty' = pty \ {record}

\* Faulty variant: the state is reset without a word.
DetectCrashSilently ==
  /\ is_recording /\ ~Alive(record)
  /\ Reset
  /\ UNCHANGED <<verdict, down, local, child, keys, bag, meta, chain, viewed>>

\* _detect_crash, at the head of every get_status. The operator is told by the log.
DetectCrash ==
  /\ is_recording /\ ~Alive(record)
  /\ Reset
  /\ verdict' = [verdict EXCEPT ![record] = "crashed"]
  /\ UNCHANGED <<down, local, child, keys, bag, meta, chain, viewed>>

\* The router asks get_status for the start time and answers.
Confirm ==
  /\ pc = "confirm"
  /\ pc' = "idle"
  /\ \/ DetectCrash
     \/ /\ Alive(record)
        /\ verdict' = [verdict EXCEPT ![record] = "started"]
        /\ UNCHANGED <<down, local, record, qos, pty, child, keys, bag, meta, chain, viewed>>

-----------------------------------------------------------------------------
(* get_status, stop() and the shutdown *)

\* Faulty variant: get_status does not look at the process.
PollBlindly ==
  /\ pc = "idle" /\ ~down
  /\ is_recording
  /\ UNCHANGED recorder

\* GET /status; asking about a living child changes nothing.
Poll ==
  /\ pc = "idle" /\ ~down
  /\ DetectCrash
  /\ UNCHANGED pc

\* The operator opens or leaves the recorder page, the only one that polls the
\* status, and every second; or shows, hides or closes its tab.
TurnToPage ==
  /\ viewed' = ~viewed
  /\ UNCHANGED <<pc, down, local, record, qos, pty, child, keys, bag, meta, verdict, chain>>

\* send_signal(SIGINT) does nothing to a dead child.
Interrupted == [child EXCEPT ![record] = IF Alive(record) THEN "closing" ELSE @]

\* stop() up to the wait for the child.
Stop ==
  /\ pc = "idle" /\ ~down
  /\ is_recording
  /\ child' = Interrupted
  /\ pc' = "wait"
  /\ UNCHANGED <<down, local, record, qos, pty, keys, bag, meta, verdict, chain, viewed>>

\* Faulty variant: the recorder is left alone at shutdown.
ShutdownOnly ==
  /\ pc = "idle" /\ ~down
  /\ down' = TRUE
  /\ UNCHANGED <<pc, local, record, qos, pty, child, keys, bag, meta, verdict, chain, viewed>>

\* _shutdown_services, called when no request is left.
Shutdown ==
  /\ pc = "idle" /\ ~down
  /\ down' = TRUE
  /\ IF is_recording THEN child' = Interrupted /\ pc' = "wait"
                     ELSE UNCHANGED <<child, pc>>
  /\ UNCHANGED <<local, record, qos, pty, keys, bag, meta, verdict, chain, viewed>>

Death(p) ==
  /\ child' = [child EXCEPT ![p] = "dead"]
  /\ bag' = [bag EXCEPT ![p] = IF @ = "open" THEN "cut" ELSE @]

\* Faulty variant: no timeout on the wait.
NeverKill == FALSE

\* TimeoutExpired: kill().
Kill ==
  /\ pc = "wait"
  /\ Alive(record)
  /\ Death(record)
  /\ UNCHANGED <<host, keys>>

\* Faulty variant: the wait is not repeated after the timeout, and nothing is killed.
ExitedOrNot ==
  /\ pc = "wait"
  /\ verdict' = [verdict EXCEPT ![record] = "stopped"]
  /\ Reset
  /\ chain' = IF down THEN chain ELSE chain \union {record}
  /\ pc' = "idle"
  /\ UNCHANGED <<down, local, child, keys, bag, meta, viewed>>

\* wait() returns: the rest of stop(); the router spawns the analysis.
Exited ==
  /\ pc = "wait"
  /\ ~Alive(record)
  /\ verdict' = [verdict EXCEPT ![record] = "stopped"]
  /\ Reset
  /\ chain' = IF down THEN chain ELSE chain \union {record}
  /\ pc' = "idle"
  /\ UNCHANGED <<down, local, child, keys, bag, meta, viewed>>

-----------------------------------------------------------------------------
(* The child process *)

\* The bag folder is created and the topics are being subscribed.
Boot(p) ==
  /\ child[p] = "booting"
  /\ child' = [child EXCEPT ![p] = "ready"]
  /\ bag' = [bag EXCEPT ![p] = "open"]
  /\ UNCHANGED <<host, keys>>

\* It reads SPACE, whenever that was written.
Unpause(p) ==
  /\ child[p] = "ready"
  /\ p \in keys
  /\ child' = [child EXCEPT ![p] = "recording"]
  /\ keys' = keys \ {p}
  /\ UNCHANGED <<host, bag>>

\* It has flushed and closed the bag after SIGINT.
Close(p) ==
  /\ child[p] = "closing"
  /\ child' = [child EXCEPT ![p] = "dead"]
  /\ bag' = [bag EXCEPT ![p] = IF @ = "open" THEN "closed" ELSE @]
  /\ UNCHANGED <<host, keys>>

\* It fails, at any time.
Die(p) ==
  /\ Alive(p)
  /\ Death(p)
  /\ UNCHANGED <<host, keys>>

-----------------------------------------------------------------------------
RecorderNext ==
  \/ StartFails \/ \E p \in Procs : Launch(p)
  \/ WaitAndResume \/ StartupDeath \/ StartupOk \/ StoreRecord \/ Confirm
  \/ Poll \/ TurnToPage \/ Stop \/ Shutdown \/ Kill \/ Exited
  \/ \E p \in Procs : Boot(p) \/ Unpause(p) \/ Close(p) \/ Die(p)

\* The handler in progress goes on (each of its waits has a timeout). Anybody
\* may ask for the status at any time, but only a page that stays in view is
\* sure to. The child and the operator owe nothing.
RecorderFairness ==
  /\ WF_recorder(WaitAndResume) /\ WF_recorder(StartupDeath) /\ WF_recorder(StartupOk)
  /\ WF_recorder(StoreRecord) /\ WF_recorder(Confirm)
  /\ WF_recorder(Kill) /\ WF_recorder(Exited)
  /\ WF_recorder(viewed /\ Poll)

RecorderSpec == RecorderInit /\ [][RecorderNext]_recorder /\ RecorderFairness

-----------------------------------------------------------------------------
(* Properties *)

\* A running recorder is always within reach of the backend, and there is never
\* a second one: no order of starts, stops, failures and deaths makes the
\* backend forget a child that still writes a bag.
NoOrphan ==
  /\ \A p \in Procs : Alive(p) => p \in {record, local}
  /\ record = NoProc \/ local = NoProc

\* The resources of a child are held exactly as long as the backend holds the
\* child: the pty master is open ("closing it while recording is active triggers
\* EIO on the slave side"), nothing is leaked by any way out of a recording,
\* and the QoS file is gone with the child it was made for. The one QoS file
\* held without a child is that of a start that got no pty, and it does not
\* outlast the next start.
HandlesExact ==
  /\ pty = {record, local} \ {NoProc}
  /\ qos \in {record, local, NoProc} \/ (qos = NoPty /\ record = NoProc /\ local = NoProc)

\* What lives outside the backend is held by it, and what it holds lives.
HoldsExact == NoOrphan /\ HandlesExact

\* The post-recording analysis reads only bags that nobody writes any more, and
\* only those the operator stopped.
AnalysisAfterExit ==
  \A p \in chain : ~Alive(p) /\ p # record /\ verdict[p] = "stopped"

\* Every recording the backend has let go of has a verdict that ends it: a
\* child that died is not just forgotten, whichever handler finds out.
EndsReported ==
  \A p \in Procs :
    (child[p] # "none" /\ p \notin {record, local}) => verdict[p] \in {"failed", "stopped", "crashed"}

\* After an orderly shutdown no recorder is left behind.
CleanExit == (down /\ pc = "idle") => \A p \in Procs : ~Alive(p)

\* The event loop is blocked for a bounded time only, also by a recorder that
\* ignores SIGINT or dies under the handler.
HandlersReturn == pc # "idle" ~> pc = "idle"

\* "Called from get_status() so that frontend polling will naturally surface a
\* crash": with the recorder page in view, be it from before the crash or only
\* from long after it, a dead recorder does not go on as a recording in
\* progress, whatever handler is at work. While nobody views it, it may.
CrashSurfaces == (is_recording /\ ~Alive(record) /\ viewed) ~> (~is_recording \/ ~viewed)
=============================================================================
