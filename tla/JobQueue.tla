------------------------------ MODULE JobQueue ------------------------------
(***************************************************************************)
(* The background job queue, backend/app/features/jobs/service.py.         *)
(*                                                                         *)
(* All coroutines of the class run on one event loop, and its lock is never*)
(* held across a suspension: `put` on the unbounded asyncio.Queue and      *)
(* `_broadcast` do not suspend. So every enqueue_* call is one step, and   *)
(* so is everything `_execute` does after the body of a job returns or     *)
(* raises: status, release of the folder, history, eviction, wake-up. The  *)
(* worker suspends in `queue.get()` and inside the body of a job. Which of *)
(* the two outcomes a body has is left open here; RecordingPipeline decides*)
(* it from the files on disk.                                              *)
(*                                                                         *)
(* A job id is a record of the job's type, its target folder and a run     *)
(* number: uuid4 is unique, so the ids of evicted jobs may be used again   *)
(* once nothing refers to them, which keeps the model finite without       *)
(* bounding how many jobs a behaviour has. MaxRuns is the bound on the     *)
(* ids of one (type, folder); MaxHistory + |Waiters| + 1 of them are always*)
(* enough.                                                                 *)
(***************************************************************************)
EXTENDS Naturals, Sequences

CONSTANTS
  Types,       \* JobType members in use
  Folders,     \* target directories
  Waiters,     \* callers of wait_for_completion
  MaxHistory,  \* _MAX_HISTORY
  MaxRuns,     \* bound: ids per (type, folder)
  NoJob        \* Python's None where a job id is expected

JobId == [type : Types, folder : Folders, run : 1..MaxRuns]

ASSUME MaxHistoryAssumption == MaxHistory \in Nat \ {0}
ASSUME MaxRunsAssumption == MaxRuns \in Nat \ {0}
ASSUME NoJobAssumption == NoJob \notin JobId \union (Types \X Folders)

VARIABLES
  status,      \* JobId -> Job.status ("unmade": no such object)
  jobs,        \* keys of _jobs
  completion,  \* _completion_events: "none" (no key), "clear" or "set"
  queue,       \* _queue
  active,      \* _active_folders, by (type, folder)
  history,     \* _history, most recent first
  current,     \* the job inside _execute
  worker,      \* _worker_task: "new", "up", "stopped"
  waiting,     \* Waiters -> the job awaited in wait_for_completion
  woken        \* waiters whose event was set and that have not resumed yet

vars == <<status, jobs, completion, queue, active, history, current, worker,
          waiting, woken>>

Range1(s) == {s[i] : i \in DOMAIN s}

Queued == Range1(queue)
Remembered == Range1(history)
IsLive(j) == j \in Queued \/ j = current

TypeOK ==
  /\ status \in [JobId -> {"unmade", "queued", "running", "completed", "failed"}]
  /\ jobs \in SUBSET JobId
  /\ completion \in [JobId -> {"none", "clear", "set"}]
  /\ queue \in Seq(JobId)
  /\ active \in [Types \X Folders -> JobId \union {NoJob}]
  /\ history \in Seq(JobId)
  /\ current \in JobId \union {NoJob}
  /\ worker \in {"new", "up", "stopped"}
  /\ waiting \in [Waiters -> JobId \union {NoJob}]
  /\ woken \in SUBSET Waiters

Init ==
  /\ status = [j \in JobId |-> "unmade"]
  /\ jobs = {}
  /\ completion = [j \in JobId |-> "none"]
  /\ queue = <<>>
  /\ active = [k \in Types \X Folders |-> NoJob]
  /\ history = <<>>
  /\ current = NoJob
  /\ worker = "new"
  /\ waiting = [w \in Waiters |-> NoJob]
  /\ woken = {}

-----------------------------------------------------------------------------
(* Enqueueing *)

\* Faulty variant: the dedup test sees only jobs that already run.
ActiveJobRunningOnly(t, f) ==
  IF active[<<t, f>>] \in jobs /\ status[active[<<t, f>>]] = "running" THEN active[<<t, f>>] ELSE NoJob

\* _get_active_job, and the dedup test at the head of every enqueue_*.
ActiveJob(t, f) == IF active[<<t, f>>] \in jobs THEN active[<<t, f>>] ELSE NoJob

\* uuid4: an id that names no object and that nobody is waiting for.
IsFresh(j) == status[j] = "unmade" /\ \A w \in Waiters : waiting[w] # j

NewId(j, t, f) ==
  /\ j.type = t /\ j.folder = f
  /\ IsFresh(j)
  /\ \A i \in JobId : (i.type = t /\ i.folder = f /\ IsFresh(i)) => j.run <= i.run

\* enqueue_*: an existing active job is returned and nothing changes; else
\* the new job is registered and put on the queue.
Enqueue(t, f) ==
  /\ ActiveJob(t, f) = NoJob
  /\ \E j \in JobId :
       /\ NewId(j, t, f)
       /\ status' = [status EXCEPT ![j] = "queued"]
       /\ active' = [active EXCEPT ![<<t, f>>] = j]
       /\ jobs' = jobs \union {j}
       /\ completion' = [completion EXCEPT ![j] = "clear"]
       /\ queue' = Append(queue, j)
  /\ UNCHANGED <<history, current, worker, waiting, woken>>

-----------------------------------------------------------------------------
(* The worker *)

\* start(): the lifespan of the application calls it once.
Start ==
  /\ worker = "new"
  /\ worker' = "up"
  /\ UNCHANGED <<status, jobs, completion, queue, active, history, current,
                 waiting, woken>>

\* Faulty variant: the newest job is taken first (a LifoQueue).
TakeNewest ==
  /\ worker = "up"
  /\ current = NoJob
  /\ queue # <<>>
  /\ current' = queue[Len(queue)]
  /\ queue' = SubSeq(queue, 1, Len(queue) - 1)
  /\ status' = [status EXCEPT ![queue[Len(queue)]] = "running"]
  /\ UNCHANGED <<jobs, completion, active, history, worker, waiting, woken>>

\* queue.get() and the head of _execute.
TakeJob ==
  /\ worker = "up"
  /\ current = NoJob
  /\ queue # <<>>
  /\ current' = Head(queue)
  /\ queue' = Tail(queue)
  /\ status' = [status EXCEPT ![Head(queue)] = "running"]
  /\ UNCHANGED <<jobs, completion, active, history, worker, waiting, woken>>

\* The history list with job j pushed in front, before the old end is cut.
Pushed(j) == <<j>> \o history

\* Faulty variant: the first job beyond the limit is forgotten by the history only.
EvictedLate(j) == {Pushed(j)[i] : i \in (MaxHistory + 2)..Len(Pushed(j))}

Evicted(j) == {Pushed(j)[i] : i \in (MaxHistory + 1)..Len(Pushed(j))}
Kept(j) == SubSeq(Pushed(j), 1,
                  IF Len(Pushed(j)) > MaxHistory THEN MaxHistory ELSE Len(Pushed(j)))

\* The folder mapping without j, if it still names j.
Released(j) == [active EXCEPT ![<<j.type, j.folder>>] = IF @ = j THEN NoJob ELSE @]

\* Faulty variant: event.set() is left out.
WokenByNobody(j) == woken

\* event.set() releases everybody waiting for j; an evicted event is not found.
WokenBy(j) ==
  IF j \notin Evicted(j) /\ completion[j] # "none"
  THEN woken \union {w \in Waiters : waiting[w] = j}
  ELSE woken

\* The `finally` of _execute for job j, which ends with status st. An evicted
\* job is unreachable afterwards, so its id becomes free again.
Retire(j, st) ==
  /\ status' = [i \in JobId |-> IF i \in Evicted(j) THEN "unmade"
                                ELSE IF i = j THEN st ELSE status[i]]
  /\ active' = Released(j)
  /\ history' = Kept(j)
  /\ jobs' = jobs \ Evicted(j)
  /\ completion' = [i \in JobId |-> IF i \in Evicted(j) THEN "none"
                                    ELSE IF i = j /\ completion[i] # "none" THEN "set"
                                    ELSE completion[i]]
  /\ woken' = WokenBy(j)
  /\ current' = NoJob

\* The body returned, or raised an Exception.
Finish(outcome) ==
  /\ worker = "up"
  /\ current # NoJob
  /\ Retire(current, outcome)
  /\ UNCHANGED <<queue, worker, waiting>>

\* shutdown() with the worker in queue.get().
StopIdle ==
  /\ worker = "up"
  /\ current = NoJob
  /\ worker' = "stopped"
  /\ UNCHANGED <<status, jobs, completion, queue, active, history, current,
                 waiting, woken>>

\* shutdown() with the worker inside a body: CancelledError is not an
\* Exception, so the status stays "running", and the finally still runs.
CancelJob ==
  /\ worker = "up"
  /\ current # NoJob
  /\ worker' = "stopped"
  /\ Retire(current, "running")
  /\ UNCHANGED <<queue, waiting>>

Shutdown == StopIdle \/ CancelJob

-----------------------------------------------------------------------------
(* wait_for_completion *)

\* Only a known and unfinished job is waited for; other calls return at once.
\* The event of a cancelled job is already set, so the wait does not block.
Wait(w, j) ==
  /\ waiting[w] = NoJob
  /\ j \in jobs
  /\ status[j] \notin {"completed", "failed"}
  /\ waiting' = [waiting EXCEPT ![w] = j]
  /\ woken' = IF completion[j] = "set" THEN woken \union {w} ELSE woken
  /\ UNCHANGED <<status, jobs, completion, queue, active, history, current, worker>>

\* The coroutine resumes after event.wait() and answers _jobs.get(job_id).
Resume(w) ==
  /\ w \in woken
  /\ woken' = woken \ {w}
  /\ waiting' = [waiting EXCEPT ![w] = NoJob]
  /\ UNCHANGED <<status, jobs, completion, queue, active, history, current, worker>>

-----------------------------------------------------------------------------
Next ==
  \/ Start
  \/ \E t \in Types, f \in Folders : Enqueue(t, f)
  \/ TakeJob
  \/ \E outcome \in {"completed", "failed"} : Finish(outcome)
  \/ Shutdown
  \/ \E w \in Waiters : Resume(w) \/ \E j \in JobId : Wait(w, j)

\* The event loop runs ready callbacks, and the body of every job ends (ffmpeg
\* and S3 calls have timeouts); nobody is obliged to enqueue, wait or shut down.
Fairness ==
  /\ WF_vars(Start)
  /\ WF_vars(TakeJob)
  /\ WF_vars(\E outcome \in {"completed", "failed"} : Finish(outcome))
  /\ \A w \in Waiters : WF_vars(Resume(w))

Spec == Init /\ [][Next]_vars /\ Fairness

-----------------------------------------------------------------------------
(* Properties *)

SameWork(i, j) == i.type = j.type /\ i.folder = j.folder

\* "The same folder + same type is deduplicated" (docs/ARCHITECTURE.md): of
\* all jobs queued or running no two do the same work, whatever the order of
\* enqueues, completions and a shutdown.
NoDuplicateWork ==
  /\ \A a, b \in DOMAIN queue : SameWork(queue[a], queue[b]) => a = b
  /\ current # NoJob => \A a \in DOMAIN queue : ~SameWork(queue[a], current)

\* _active_folders is exact: it names precisely the live job of each (type,
\* folder). So a facade that asks it never sees a finished job, and a failed
\* or cancelled job never blocks its folder.
ActiveExact ==
  /\ \A t \in Types, f \in Folders :
       active[<<t, f>>] # NoJob =>
         /\ active[<<t, f>>].type = t /\ active[<<t, f>>].folder = f
         /\ IsLive(active[<<t, f>>])
         /\ status[active[<<t, f>>]] \in {"queued", "running"}
  /\ \A j \in JobId : IsLive(j) => active[<<j.type, j.folder>>] = j

\* Eviction drops exactly what nobody needs: _jobs and _completion_events hold
\* the live jobs and the at most MaxHistory remembered ones, each once; a live
\* job is never evicted and no finished one stays behind.
RegistryExact ==
  /\ jobs = {j \in JobId : IsLive(j)} \union Remembered
  /\ \A j \in JobId : IsLive(j) => j \notin Remembered
  /\ \A a, b \in DOMAIN history : history[a] = history[b] => a = b
  /\ Len(history) <= MaxHistory
  /\ \A j \in JobId : completion[j] # "none" <=> j \in jobs

\* The four stores of the queue agree with the jobs' states, whatever order of
\* enqueues, evictions, completions and a shutdown led here.
StoresExact == ActiveExact /\ RegistryExact

\* No lost wake-up in wait_for_completion: whoever still blocks, blocks on a
\* live job whose event is present and not set yet.
NoLostWakeup ==
  \A w \in Waiters :
    (waiting[w] # NoJob /\ w \notin woken) =>
      IsLive(waiting[w]) /\ completion[waiting[w]] = "clear"

\* FIFO: no job starts while one that was queued before it still waits. The
\* post-recording chain relies on it (quality before validation).
NoOvertaking ==
  [][\A a, b \in DOMAIN queue :
       (a < b /\ status'[queue[b]] = "running") => status'[queue[a]] # "queued"]_vars

\* Whoever waits for a job gets an answer unless the application goes down.
WaitersReturn ==
  \A w \in Waiters : waiting[w] # NoJob ~> (waiting[w] = NoJob \/ worker = "stopped")

WorkOf(j) == <<j.type, j.folder>>

Phase == CASE worker = "new" -> "new" [] worker = "up" -> "open" [] OTHER -> "closed"

Abstract == INSTANCE JobLine WITH
  NoWork <- NoJob,
  line <- [i \in DOMAIN queue |-> WorkOf(queue[i])],
  running <- IF current = NoJob THEN NoJob ELSE WorkOf(current),
  phase <- Phase

\* The queue implements the abstract line, fairness included: every request is
\* either busy already or joins the end of the line, the worker serves the
\* front, and no work waits for ever while the application is up.
ImplementsLine == Abstract!Spec
=============================================================================
