--------------------------- MODULE JobQueueProofs ---------------------------
(***************************************************************************)
(* Safety of JobQueue for every set of types, folders and waiters and for  *)
(* every history length: IInv is inductive and implies the type invariant, *)
(* NoDuplicateWork, StoresExact (ActiveExact and RegistryExact) and        *)
(* NoLostWakeup; no job overtakes another; and every step of the queue is  *)
(* a step of JobLine or leaves its variables alone.                        *)
(***************************************************************************)
EXTENDS JobQueue, SequenceTheorems, TLAPS

\* What the job objects' statuses say about where a job is.
StatusExact ==
  /\ \A j \in JobId : j \in Queued => status[j] = "queued"
  /\ current # NoJob => status[current] = "running" /\ worker = "up"
  /\ \A j \in JobId : status[j] = "unmade" <=> j \notin jobs

\* A job object is in at most one place of the queue, and not both queued and run.
QueueDistinct ==
  /\ \A a, b \in DOMAIN queue : queue[a] = queue[b] => a = b
  /\ current \notin Queued

\* An event is set exactly when its job has gone through the `finally`.
CompletionExact ==
  /\ \A j \in JobId : IsLive(j) => completion[j] = "clear"
  /\ \A j \in Remembered : completion[j] = "set"

\* The inductive invariant. ActiveExact alone is not inductive: that a retired
\* job's folder is free again needs QueueDistinct, and that a fresh id is not
\* live needs StatusExact and RegistryExact.
IInv ==
  /\ TypeOK
  /\ StatusExact
  /\ QueueDistinct
  /\ ActiveExact
  /\ RegistryExact
  /\ CompletionExact
  /\ NoLostWakeup

-----------------------------------------------------------------------------
(* Lemmas on the history list *)

\* Pushing a job in front of a full or partly filled history keeps it free of
\* repeats and within its bound, and splits old content and new job exactly
\* into what is kept and what is evicted; the new job itself is kept.
LEMMA HistoryPush ==
  ASSUME TypeOK, RegistryExact, NEW j \in JobId, j \notin Remembered
  PROVE  /\ Kept(j) \in Seq(JobId)
         /\ \A a, b \in DOMAIN Kept(j) : Kept(j)[a] = Kept(j)[b] => a = b
         /\ Len(Kept(j)) <= MaxHistory
         /\ Range1(Kept(j)) = (Remembered \union {j}) \ Evicted(j)
         /\ Evicted(j) \subseteq Remembered
         /\ j \notin Evicted(j)
  <1> DEFINE h == Pushed(j)
             n == Len(history)
  <1>1. history \in Seq(JobId) /\ n \in Nat /\ n <= MaxHistory
    BY DEF TypeOK, RegistryExact
  <1>2. MaxHistory \in Nat /\ MaxHistory >= 1
    BY MaxHistoryAssumption
  <1>3. /\ h \in Seq(JobId)
        /\ Len(h) = n + 1
        /\ h[1] = j
        /\ \A i \in 1..n : h[i + 1] = history[i]
    BY <1>1 DEF Pushed
  <1>4. \A a, b \in 1..Len(h) : h[a] = h[b] => a = b
    <2>1. \A a \in 2..(n + 1) : h[a] = history[a - 1] /\ a - 1 \in 1..n
      BY <1>1, <1>3
    <2>2. \A a, b \in 1..n : history[a] = history[b] => a = b
      BY <1>1 DEF RegistryExact
    <2>3. \A a \in 1..n : history[a] # j
      BY <1>1 DEF Remembered, Range1
    <2>4. \A a \in 1..(n + 1) : a = 1 \/ a \in 2..(n + 1)
      BY <1>1
    <2>5. QED
      BY <1>1, <1>3, <2>1, <2>2, <2>3, <2>4
  <1>4a. Range1(h) = Remembered \union {j}
    <2>1. DOMAIN history = 1..n /\ DOMAIN h = 1..(n + 1)
      BY <1>1, <1>3
    <2>2. ASSUME NEW x \in Remembered PROVE x \in Range1(h)
      <3>1. PICK i \in 1..n : x = history[i]
        BY <2>1, <2>2 DEF Remembered, Range1
      <3>2. i + 1 \in 1..(n + 1) /\ h[i + 1] = x
        BY <1>1, <1>3, <3>1
      <3>3. QED
        BY <2>1, <3>2 DEF Range1
    <2>3. ASSUME NEW x \in Range1(h) PROVE x \in Remembered \union {j}
      <3>1. PICK i \in 1..(n + 1) : x = h[i]
        BY <2>1, <2>3 DEF Range1
      <3>2. CASE i = 1
        BY <1>3, <3>1, <3>2
      <3>3. CASE i # 1
        <4>1. i - 1 \in 1..n /\ h[(i - 1) + 1] = history[i - 1] /\ (i - 1) + 1 = i
          BY <1>1, <1>3, <3>1, <3>3
        <4>2. QED
          BY <2>1, <3>1, <4>1 DEF Remembered, Range1
      <3>4. QED
        BY <3>2, <3>3
    <2>4. 1 \in 1..(n + 1)
      BY <1>1
    <2>5. j \in Range1(h)
      BY <1>3, <2>1, <2>4 DEF Range1
    <2>6. QED
      BY <2>2, <2>3, <2>5
  <1>5. CASE n < MaxHistory
    <2>1. Evicted(j) = {}
      BY <1>1, <1>2, <1>3, <1>5 DEF Evicted
    <2>2. Kept(j) = h
      BY <1>1, <1>2, <1>3, <1>5 DEF Kept
    <2>3. QED
      BY <1>4a, <1>1, <1>2, <1>3, <1>4, <1>5, <2>1, <2>2
  <1>6. CASE n = MaxHistory
    <2>1. Evicted(j) = {h[MaxHistory + 1]}
      BY <1>1, <1>2, <1>3, <1>6 DEF Evicted
    <2>2. Kept(j) = SubSeq(h, 1, MaxHistory)
      BY <1>1, <1>2, <1>3, <1>6 DEF Kept
    <2>3. /\ Kept(j) \in Seq(JobId)
          /\ Len(Kept(j)) = MaxHistory
          /\ \A i \in 1..MaxHistory : Kept(j)[i] = h[i]
      BY <1>1, <1>2, <1>3, <1>6, <2>2
    <2>4. Range1(Kept(j)) = (Remembered \union {j}) \ Evicted(j)
      <3>1. Range1(Kept(j)) = {h[i] : i \in 1..MaxHistory}
        BY <1>2, <2>3 DEF Range1
      <3>2. Remembered \union {j} = {h[i] : i \in 1..(MaxHistory + 1)}
        BY <1>4a, <1>2, <1>3, <1>6 DEF Range1
      <3>3. \A i \in 1..(MaxHistory + 1) : i = MaxHistory + 1 \/ i \in 1..MaxHistory
        BY <1>2
      <3>4. \A i \in 1..MaxHistory : h[i] # h[MaxHistory + 1]
        BY <1>2, <1>3, <1>4, <1>6
      <3>5. 1..MaxHistory \subseteq 1..(MaxHistory + 1) /\ MaxHistory + 1 \in 1..(MaxHistory + 1)
        BY <1>2
      <3> HIDE DEF h
      <3>6. QED
        BY <2>1, <3>1, <3>2, <3>3, <3>4, <3>5 DEF h
    <2>5. h[MaxHistory + 1] = history[MaxHistory]
      BY <1>2, <1>3, <1>6
    <2>6. h[MaxHistory + 1] \in Remembered
      BY <1>1, <1>2, <1>6, <2>5 DEF Remembered, Range1
    <2>7. h[MaxHistory + 1] # j
      BY <1>2, <1>3, <1>4, <1>6
    <2>8. \A a, b \in DOMAIN Kept(j) : Kept(j)[a] = Kept(j)[b] => a = b
      BY <1>2, <1>3, <1>4, <1>6, <2>3
    <2>9. QED
      BY <1>2, <2>1, <2>3, <2>4, <2>6, <2>7, <2>8
  <1>7. QED
    BY <1>1, <1>2, <1>5, <1>6

-----------------------------------------------------------------------------
(* IInv is inductive *)

\* Nothing exists before the worker is started.
LEMMA InitInv == Init => IInv
  <1> SUFFICES ASSUME Init PROVE IInv
    OBVIOUS
  <1> USE DEF Init
  <1>1. Queued = {} /\ Remembered = {}
    BY DEF Queued, Remembered, Range1
  <1>2. \A j \in JobId : ~IsLive(j)
    BY <1>1, NoJobAssumption DEF IsLive
  <1>3. TypeOK
    BY DEF TypeOK
  <1>4. StatusExact /\ QueueDistinct /\ CompletionExact /\ NoLostWakeup
    BY <1>1, <1>2 DEF StatusExact, QueueDistinct, CompletionExact, NoLostWakeup
  <1>5. ActiveExact
    BY <1>2 DEF ActiveExact
  <1>6. RegistryExact
    BY <1>1, <1>2, MaxHistoryAssumption DEF RegistryExact
  <1>7. QED
    BY <1>3, <1>4, <1>5, <1>6 DEF IInv

\* A call that finds no active job adds exactly one live job, of an id that no
\* other job has and for a folder whose entry was free.
LEMMA EnqueueInv ==
  ASSUME IInv, NEW t \in Types, NEW f \in Folders, Enqueue(t, f)
  PROVE  IInv'
  <1> USE DEF IInv
  <1>1. PICK j \in JobId :
          /\ NewId(j, t, f)
          /\ status' = [status EXCEPT ![j] = "queued"]
          /\ active' = [active EXCEPT ![<<t, f>>] = j]
          /\ jobs' = jobs \union {j}
          /\ completion' = [completion EXCEPT ![j] = "clear"]
          /\ queue' = Append(queue, j)
    BY DEF Enqueue
  <1>2. UNCHANGED <<history, current, worker, waiting, woken>>
    BY DEF Enqueue
  <1>3. j.type = t /\ j.folder = f /\ status[j] = "unmade"
    BY <1>1 DEF NewId, IsFresh
  <1>4. j \notin jobs /\ ~IsLive(j) /\ j \notin Remembered
    BY <1>3 DEF StatusExact, RegistryExact
  <1>5. active[<<t, f>>] = NoJob
    <2>1. active[<<t, f>>] \notin jobs \/ active[<<t, f>>] = NoJob
      BY DEF Enqueue, ActiveJob
    <2>2. active[<<t, f>>] \in JobId \union {NoJob}
      BY DEF TypeOK
    <2>3. QED
      BY <2>1, <2>2 DEF ActiveExact, RegistryExact
  <1>6. /\ DOMAIN queue = 1..Len(queue) /\ Len(queue) \in Nat
        /\ DOMAIN queue' = 1..(Len(queue) + 1)
        /\ \A a \in 1..Len(queue) : queue'[a] = queue[a]
        /\ queue'[Len(queue) + 1] = j
        /\ queue' \in Seq(JobId)
    BY <1>1 DEF TypeOK
  <1>7. Queued' = Queued \union {j}
    <2>1. \A x \in Queued : x \in Queued'
      BY <1>6 DEF Queued, Range1
    <2>2. j \in Queued'
      BY <1>6 DEF Queued, Range1
    <2>3. \A a \in 1..(Len(queue) + 1) : a \in 1..Len(queue) \/ a = Len(queue) + 1
      BY <1>6
    <2>4. \A x \in Queued' : x \in Queued \/ x = j
      BY <1>6, <2>3 DEF Queued, Range1
    <2>5. QED
      BY <2>1, <2>2, <2>4
  <1>8. Remembered' = Remembered
    BY <1>2 DEF Remembered
  <1>9. \A i \in JobId : IsLive(i)' <=> (IsLive(i) \/ i = j)
    BY <1>2, <1>7 DEF IsLive
  <1>10. TypeOK'
    BY <1>1, <1>2, <1>6 DEF TypeOK
  <1>11. StatusExact'
    <2>1. current # NoJob => current \in JobId /\ current # j
      BY <1>4 DEF TypeOK, IsLive
    <2>2. QED
      BY <1>1, <1>2, <1>7, <2>1 DEF StatusExact, TypeOK
  <1>12. QueueDistinct'
    <2>1. \A a \in 1..Len(queue) : queue[a] # j
      BY <1>4, <1>6 DEF IsLive, Queued, Range1
    <2>2. \A a \in 1..(Len(queue) + 1) : a \in 1..Len(queue) \/ a = Len(queue) + 1
      BY <1>6
    <2>3. \A a, b \in DOMAIN queue' : queue'[a] = queue'[b] => a = b
      BY <1>6, <2>1, <2>2 DEF QueueDistinct
    <2>4. current' \notin Queued'
      BY <1>2, <1>4, <1>7 DEF QueueDistinct, IsLive
    <2>5. QED
      BY <2>3, <2>4 DEF QueueDistinct
  <1>13. ActiveExact'
    <2>1. ASSUME NEW t2 \in Types, NEW f2 \in Folders, active'[<<t2, f2>>] # NoJob
          PROVE  /\ active'[<<t2, f2>>].type = t2 /\ active'[<<t2, f2>>].folder = f2
                 /\ IsLive(active[<<t2, f2>>])'
                 /\ status'[active'[<<t2, f2>>]] \in {"queued", "running"}
      <3>1. CASE t2 = t /\ f2 = f
        <4>1. active'[<<t2, f2>>] = j
          BY <1>1, <3>1 DEF TypeOK
        <4>2. status'[j] = "queued"
          BY <1>1 DEF TypeOK
        <4>3. j \in Queued'
          BY <1>7
        <4>4. QED
          BY <1>3, <3>1, <4>1, <4>2, <4>3 DEF IsLive
      <3>2. CASE ~(t2 = t /\ f2 = f)
        <4>1. active'[<<t2, f2>>] = active[<<t2, f2>>] /\ active[<<t2, f2>>] \in JobId
          BY <1>1, <2>1, <3>2 DEF TypeOK
        <4>2. active[<<t2, f2>>] # j
          BY <1>4, <2>1, <4>1 DEF ActiveExact
        <4>3. QED
          BY <1>1, <1>9, <2>1, <4>1, <4>2 DEF ActiveExact, TypeOK
      <3>3. QED
        BY <3>1, <3>2
    <2>2. ASSUME NEW i \in JobId, IsLive(i)'
          PROVE  active'[<<i.type, i.folder>>] = i
      <3>1. CASE i = j
        BY <1>1, <1>3, <3>1 DEF TypeOK
      <3>2. CASE i # j
        <4>1. IsLive(i) /\ active[<<i.type, i.folder>>] = i
          BY <1>9, <2>2, <3>2 DEF ActiveExact
        <4>2. <<i.type, i.folder>> # <<t, f>>
          BY <1>5, <4>1, NoJobAssumption
        <4>3. i.type \in Types /\ i.folder \in Folders
          BY DEF JobId
        <4>4. QED
          BY <1>1, <4>1, <4>2, <4>3 DEF TypeOK
      <3>3. QED
        BY <3>1, <3>2
    <2>3. QED
      BY <2>1, <2>2 DEF ActiveExact
  <1>14. RegistryExact'
    BY <1>1, <1>2, <1>4, <1>8, <1>9 DEF RegistryExact, TypeOK
  <1>15. CompletionExact'
    BY <1>1, <1>4, <1>8, <1>9 DEF CompletionExact, TypeOK, Remembered, RegistryExact
  <1>16. NoLostWakeup'
    BY <1>1, <1>2, <1>9 DEF NoLostWakeup, TypeOK
  <1>17. QED
    BY <1>10, <1>11, <1>12, <1>13, <1>14, <1>15, <1>16

\* The head of the queue moves into _execute; the live jobs stay the same.
LEMMA TakeInv ==
  ASSUME IInv, TakeJob
  PROVE  IInv'
  <1> USE DEF IInv
  <1> DEFINE j == Head(queue)
  <1>1. /\ worker = "up" /\ current = NoJob /\ queue # <<>>
        /\ current' = j /\ queue' = Tail(queue)
        /\ status' = [status EXCEPT ![j] = "running"]
        /\ UNCHANGED <<jobs, completion, active, history, worker, waiting, woken>>
    BY DEF TakeJob
  <1>2. /\ Len(queue) \in Nat /\ Len(queue) >= 1
        /\ DOMAIN queue = 1..Len(queue)
        /\ queue' \in Seq(JobId)
        /\ DOMAIN queue' = 1..(Len(queue) - 1)
        /\ \A a \in 1..(Len(queue) - 1) : queue'[a] = queue[a + 1]
        /\ j = queue[1] /\ j \in JobId
    BY <1>1 DEF TypeOK
  <1> HIDE DEF j
  <1>3. \A a, b \in 1..Len(queue) : queue[a] = queue[b] => a = b
    BY <1>2 DEF QueueDistinct
  <1>4. Queued = Queued' \union {j} /\ j \notin Queued'
    <2>1. \A a \in 1..(Len(queue) - 1) : a + 1 \in 1..Len(queue) /\ a + 1 # 1
      BY <1>2
    <2>2. \A x \in Queued' : x \in Queued /\ x # j
      BY <1>2, <1>3, <2>1 DEF Queued, Range1
    <2>3. j \in Queued
      BY <1>2 DEF Queued, Range1
    <2>4. ASSUME NEW a \in 1..Len(queue), a # 1
          PROVE  queue[a] \in Queued'
      <3>1. a - 1 \in 1..(Len(queue) - 1) /\ queue'[a - 1] = queue[a]
        BY <1>2, <2>4
      <3>2. QED
        BY <1>2, <3>1 DEF Queued, Range1
    <2>5. \A x \in Queued : x \in Queued' \/ x = j
      BY <1>2, <2>4 DEF Queued, Range1
    <2>6. QED
      BY <2>2, <2>3, <2>5
  <1>5. \A i \in JobId : IsLive(i)' <=> IsLive(i)
    BY <1>1, <1>4, NoJobAssumption DEF IsLive
  <1>6. Remembered' = Remembered
    BY <1>1 DEF Remembered
  <1>7. TypeOK'
    BY <1>1, <1>2 DEF TypeOK
  <1>8. StatusExact'
    <2>1. \A i \in JobId : i \in Queued' => i \in Queued /\ i # j
      BY <1>4
    <2>2. status[j] # "unmade" /\ j \in jobs
      BY <1>2, <1>4 DEF StatusExact
    <2>3. QED
      BY <1>1, <1>2, <2>1, <2>2 DEF StatusExact, TypeOK
  <1>9. QueueDistinct'
    <2>1. \A a \in 1..(Len(queue) - 1) : a + 1 \in 1..Len(queue)
      BY <1>2
    <2>2. \A a, b \in DOMAIN queue' : queue'[a] = queue'[b] => a = b
      BY <1>2, <1>3, <2>1
    <2>3. QED
      BY <1>1, <1>4, <2>2 DEF QueueDistinct
  <1>10. ActiveExact'
    <2>1. \A k \in DOMAIN active : active[k] \in JobId \union {NoJob}
      BY DEF TypeOK
    <2>2. active' = active /\ DOMAIN active = Types \X Folders
      BY <1>1 DEF TypeOK
    <2>3. \A i \in JobId : status[i] \in {"queued", "running"}
                             => status'[i] \in {"queued", "running"}
      BY <1>1, <1>2 DEF TypeOK
    <2>4. ASSUME NEW t \in Types, NEW f \in Folders, active'[<<t, f>>] # NoJob
          PROVE  /\ active'[<<t, f>>].type = t /\ active'[<<t, f>>].folder = f
                 /\ IsLive(active[<<t, f>>])'
                 /\ status'[active'[<<t, f>>]] \in {"queued", "running"}
      <3>1. active[<<t, f>>] \in JobId
        BY <2>1, <2>2, <2>4
      <3>2. IsLive(active[<<t, f>>])' <=> (active[<<t, f>>] \in Queued' \/ active[<<t, f>>] = current')
        BY <2>2 DEF IsLive
      <3>3. IsLive(active[<<t, f>>])
        BY <2>2, <2>4 DEF ActiveExact
      <3>4. QED
        BY <1>1, <1>4, <2>2, <2>3, <2>4, <3>1, <3>2, <3>3, NoJobAssumption DEF ActiveExact, IsLive
    <2>5. QED
      BY <1>5, <2>2, <2>4 DEF ActiveExact
  <1>11. RegistryExact' /\ CompletionExact'
    BY <1>1, <1>5, <1>6 DEF RegistryExact, CompletionExact
  <1>12. NoLostWakeup'
    <2>1. ASSUME NEW w \in Waiters, waiting'[w] # NoJob, w \notin woken'
          PROVE  IsLive(waiting[w])' /\ completion'[waiting'[w]] = "clear"
      <3>1. waiting[w] \in JobId /\ waiting' = waiting
        BY <1>1, <2>1 DEF TypeOK
      <3>2. QED
        BY <1>1, <1>4, <2>1, <3>1, NoJobAssumption DEF NoLostWakeup, IsLive
    <2>2. QED
      BY <2>1 DEF NoLostWakeup
  <1>13. QED
    BY <1>7, <1>8, <1>9, <1>10, <1>11, <1>12

\* The `finally` of a job, whatever status it ends with: it stops being live,
\* frees its folder, becomes the newest of the history, and every waiter of it
\* is woken. The worker may go on or be stopped.
LEMMA RetireInv ==
  ASSUME IInv, current # NoJob,
         NEW st \in {"running", "completed", "failed"}, Retire(current, st),
         UNCHANGED <<queue, waiting>>,
         worker' \in {"new", "up", "stopped"}
  PROVE  IInv'
  <1> USE DEF IInv
  <1> DEFINE j == current
  <1>1. /\ status' = [i \in JobId |-> IF i \in Evicted(j) THEN "unmade"
                                      ELSE IF i = j THEN st ELSE status[i]]
        /\ active' = Released(j)
        /\ history' = Kept(j)
        /\ jobs' = jobs \ Evicted(j)
        /\ completion' = [i \in JobId |-> IF i \in Evicted(j) THEN "none"
                                          ELSE IF i = j /\ completion[i] # "none" THEN "set"
                                          ELSE completion[i]]
        /\ woken' = WokenBy(j)
        /\ current' = NoJob
        /\ queue' = queue /\ waiting' = waiting
    BY DEF Retire
  <1>2. j \in JobId /\ IsLive(j) /\ j \notin Queued /\ j \notin Remembered
    BY DEF TypeOK, IsLive, QueueDistinct, RegistryExact
  <1> HIDE DEF j
  <1>3. /\ Kept(j) \in Seq(JobId)
        /\ \A a, b \in DOMAIN Kept(j) : Kept(j)[a] = Kept(j)[b] => a = b
        /\ Len(Kept(j)) <= MaxHistory
        /\ Range1(Kept(j)) = (Remembered \union {j}) \ Evicted(j)
        /\ Evicted(j) \subseteq Remembered
        /\ j \notin Evicted(j)
    BY <1>2, HistoryPush
  <1>4. Queued' = Queued
    BY <1>1 DEF Queued
  <1>5. Remembered' = (Remembered \union {j}) \ Evicted(j)
    BY <1>1, <1>3 DEF Remembered
  <1>6. \A i \in JobId : IsLive(i)' <=> i \in Queued
    BY <1>1, <1>4, NoJobAssumption DEF IsLive
  <1>7. \A i \in JobId : IsLive(i) <=> i \in Queued \/ i = j
    BY DEF IsLive, j
  <1>8. \A i \in JobId : i \in Queued => i # j /\ i \notin Remembered /\ i \notin Evicted(j)
    BY <1>2, <1>3, <1>7 DEF RegistryExact
  <1>9. Remembered \subseteq JobId
    BY DEF Remembered, Range1, TypeOK
  <1>10. \A t \in Types, f \in Folders :
           /\ active[<<t, f>>] \in JobId \union {NoJob}
           /\ active'[<<t, f>>] = IF active[<<t, f>>] = j THEN NoJob ELSE active[<<t, f>>]
    <2>1. j.type \in Types /\ j.folder \in Folders
      BY <1>2 DEF JobId
    <2>2. active' = [active EXCEPT ![<<j.type, j.folder>>] =
                       IF active[<<j.type, j.folder>>] = j
                       THEN NoJob ELSE active[<<j.type, j.folder>>]]
      BY <1>1 DEF Released
    <2>3. ASSUME NEW t \in Types, NEW f \in Folders, active[<<t, f>>] = j
          PROVE  t = j.type /\ f = j.folder
      BY <1>2, <2>3, NoJobAssumption DEF ActiveExact
    <2>4. active[<<j.type, j.folder>>] = j
      BY <1>2 DEF ActiveExact
    <2>5. QED
      BY <2>1, <2>2, <2>3, <2>4 DEF TypeOK
  <1>11. TypeOK'
    <2>1. active' \in [Types \X Folders -> JobId \union {NoJob}]
      BY <1>1 DEF Released, TypeOK
    <2>2. woken' \in SUBSET Waiters
      BY <1>1 DEF WokenBy, TypeOK
    <2>3. QED
      BY <1>1, <1>3, <2>1, <2>2 DEF TypeOK
  <1>12. StatusExact'
    <2>1. \A i \in JobId : i \in Queued' => status'[i] = "queued"
      BY <1>1, <1>4, <1>8 DEF StatusExact
    <2>2. \A i \in JobId : status'[i] = "unmade" <=> i \notin jobs'
      BY <1>1, <1>2, <1>3 DEF StatusExact, RegistryExact
    <2>3. QED
      BY <1>1, <2>1, <2>2 DEF StatusExact
  <1>13. QueueDistinct'
    <2>1. NoJob \notin Queued
      BY NoJobAssumption DEF Queued, Range1, TypeOK
    <2>2. QED
      BY <1>1, <1>4, <2>1 DEF QueueDistinct
  <1>14. ActiveExact'
    <2>1. ASSUME NEW t \in Types, NEW f \in Folders, active'[<<t, f>>] # NoJob
          PROVE  /\ active'[<<t, f>>].type = t /\ active'[<<t, f>>].folder = f
                 /\ IsLive(active[<<t, f>>])'
                 /\ status'[active'[<<t, f>>]] \in {"queued", "running"}
      <3>1. active'[<<t, f>>] = active[<<t, f>>] /\ active[<<t, f>>] \in JobId
            /\ active[<<t, f>>] # j
        BY <1>10, <2>1
      <3>2. active[<<t, f>>] \in Queued
        BY <1>7, <2>1, <3>1 DEF ActiveExact
      <3>3. status'[active[<<t, f>>]] = status[active[<<t, f>>]]
        BY <1>1, <1>8, <3>1, <3>2
      <3>4. active'[<<t, f>>] \in Queued'
        BY <1>4, <3>1, <3>2
      <3>5. QED
        BY <2>1, <3>1, <3>3, <3>4 DEF ActiveExact, IsLive
    <2>2. ASSUME NEW i \in JobId, IsLive(i)'
          PROVE  active'[<<i.type, i.folder>>] = i
      <3>1. i \in Queued /\ i # j
        BY <1>6, <1>8, <2>2
      <3>2. i.type \in Types /\ i.folder \in Folders
        BY DEF JobId
      <3>3. active[<<i.type, i.folder>>] = i
        BY <1>7, <3>1 DEF ActiveExact
      <3>4. QED
        BY <1>10, <3>1, <3>2, <3>3
    <2>3. QED
      BY <2>1, <2>2 DEF ActiveExact
  <1>15. RegistryExact'
    <2>1. jobs' = {i \in JobId : IsLive(i)'} \union Remembered'
      <3>1. jobs = {i \in JobId : IsLive(i)} \union Remembered
        BY DEF RegistryExact
      <3>2. \A i \in jobs' : i \in JobId /\ (IsLive(i)' \/ i \in Remembered')
        BY <1>1, <1>2, <1>5, <1>6, <1>7, <1>9, <3>1
      <3>3. \A i \in JobId : IsLive(i)' => i \in jobs'
        BY <1>1, <1>6, <1>7, <1>8, <3>1
      <3>4. \A i \in Remembered' : i \in jobs'
        BY <1>1, <1>2, <1>5, <3>1
      <3>5. QED
        BY <3>2, <3>3, <3>4
    <2>2. \A i \in JobId : IsLive(i)' => i \notin Remembered'
      BY <1>5, <1>6, <1>8
    <2>3. \A i \in JobId : completion'[i] # "none" <=> i \in jobs'
      BY <1>1, <1>2, <1>3 DEF RegistryExact
    <2>4. QED
      BY <1>1, <1>3, <2>1, <2>2, <2>3 DEF RegistryExact
  <1>16. CompletionExact'
    <2>1. \A i \in JobId : IsLive(i)' => completion'[i] = "clear"
      BY <1>1, <1>6, <1>7, <1>8 DEF CompletionExact
    <2>2. completion[j] = "clear"
      BY <1>2 DEF CompletionExact
    <2>3. \A i \in Remembered' : completion'[i] = "set"
      BY <1>1, <1>2, <1>5, <1>9, <2>2 DEF CompletionExact
    <2>4. QED
      BY <2>1, <2>3 DEF CompletionExact
  <1>17. NoLostWakeup'
    <2>1. ASSUME NEW w \in Waiters, waiting'[w] # NoJob, w \notin woken'
          PROVE  IsLive(waiting[w])' /\ completion'[waiting'[w]] = "clear"
      <3>1. waiting[w] \in JobId /\ waiting' = waiting
        BY <1>1, <2>1 DEF TypeOK
      <3>2. completion[j] = "clear"
        BY <1>2 DEF CompletionExact
      <3>3. w \notin woken /\ waiting[w] # j
        BY <1>1, <1>3, <2>1, <3>2 DEF WokenBy
      <3>4. waiting[w] \in Queued
        BY <1>7, <2>1, <3>1, <3>3 DEF NoLostWakeup
      <3>5. completion'[waiting[w]] = "clear"
        BY <1>6, <1>16, <3>1, <3>4 DEF CompletionExact
      <3>6. waiting'[w] \in Queued'
        BY <1>4, <3>1, <3>4
      <3>7. QED
        BY <3>1, <3>5, <3>6 DEF IsLive
    <2>2. QED
      BY <2>1 DEF NoLostWakeup
  <1>18. QED
    BY <1>11, <1>12, <1>13, <1>14, <1>15, <1>16, <1>17

\* Starting the worker, stopping an idle one, and the two steps of a waiter.
LEMMA OtherInv ==
  ASSUME IInv,
         Start \/ StopIdle \/ \E w \in Waiters : Resume(w) \/ \E j \in JobId : Wait(w, j)
  PROVE  IInv'
  <1> USE DEF IInv
  <1>1. /\ UNCHANGED <<status, jobs, completion, queue, active, history, current>>
        /\ current # NoJob => worker' = worker
        /\ worker' \in {"new", "up", "stopped"}
    BY DEF Start, StopIdle, Resume, Wait, TypeOK, StatusExact
  <1>2. Queued' = Queued /\ Remembered' = Remembered
    BY <1>1 DEF Queued, Remembered
  <1>3. \A j : IsLive(j)' <=> IsLive(j)
    BY <1>1, <1>2 DEF IsLive
  <1>4. TypeOK'
    BY DEF Start, StopIdle, Resume, Wait, TypeOK
  <1>5. StatusExact' /\ QueueDistinct' /\ CompletionExact'
    BY <1>1, <1>2, <1>3 DEF StatusExact, QueueDistinct, CompletionExact
  <1>6. ActiveExact'
    BY <1>1, <1>2 DEF ActiveExact, IsLive
  <1>7. RegistryExact'
    BY <1>1, <1>2, <1>3 DEF RegistryExact
  <1>8. NoLostWakeup'
    <2>1. ASSUME NEW w \in Waiters, waiting'[w] # NoJob, w \notin woken'
          PROVE  IsLive(waiting'[w]) /\ completion[waiting'[w]] = "clear"
      <3>1. CASE UNCHANGED <<waiting, woken>>
        BY <2>1, <3>1 DEF NoLostWakeup
      <3>2. CASE \E v \in Waiters : Resume(v)
        BY <2>1, <3>2 DEF NoLostWakeup, Resume, TypeOK
      <3>3. CASE \E v \in Waiters, j \in JobId : Wait(v, j)
        <4>1. PICK v \in Waiters, j \in JobId : Wait(v, j)
          BY <3>3
        <4>2. CASE w = v
          <5>1. waiting'[w] = j /\ completion[j] # "set" /\ j \in jobs
            BY <2>1, <4>1, <4>2 DEF Wait, TypeOK
          <5>2. IsLive(j)
            BY <5>1 DEF RegistryExact, CompletionExact
          <5>3. QED
            BY <5>1, <5>2 DEF CompletionExact
        <4>3. CASE w # v
          BY <2>1, <4>1, <4>3 DEF Wait, TypeOK, NoLostWakeup
        <4>4. QED
          BY <4>2, <4>3
      <3>4. QED
        BY <3>1, <3>2, <3>3 DEF Start, StopIdle
    <2>2. QED
      BY <1>1, <1>2, <2>1 DEF NoLostWakeup, IsLive
  <1>9. QED
    BY <1>4, <1>5, <1>6, <1>7, <1>8

\* IInv holds in every state of every behaviour of the queue.
THEOREM InductiveInvariant == Spec => []IInv
  <1>1. Init => IInv
    BY InitInv
  <1>2. IInv /\ [Next]_vars => IInv'
    <2> SUFFICES ASSUME IInv, [Next]_vars PROVE IInv'
      OBVIOUS
    <2>1. CASE Start \/ StopIdle \/ \E w \in Waiters : Resume(w) \/ \E j \in JobId : Wait(w, j)
      BY <2>1, OtherInv
    <2>2. ASSUME NEW t \in Types, NEW f \in Folders, Enqueue(t, f) PROVE IInv'
      BY <2>2, EnqueueInv
    <2>3. CASE TakeJob
      BY <2>3, TakeInv
    <2>4. ASSUME NEW outcome \in {"completed", "failed"}, Finish(outcome) PROVE IInv'
      BY <2>4, RetireInv DEF Finish
    <2>5. CASE CancelJob
      BY <2>5, RetireInv DEF CancelJob
    <2>6. CASE UNCHANGED vars
      BY <2>6 DEF vars, IInv, TypeOK, StatusExact, QueueDistinct, ActiveExact, RegistryExact,
                  CompletionExact, NoLostWakeup, IsLive, Queued, Remembered, Range1
    <2>7. QED
      BY <2>1, <2>2, <2>3, <2>4, <2>5, <2>6 DEF Next, Shutdown
  <1>3. QED
    BY <1>1, <1>2, PTL DEF Spec

-----------------------------------------------------------------------------
(* The theorems *)

\* Every variable of the queue keeps its type.
THEOREM TypeCorrect == Spec => []TypeOK
  <1>1. IInv => TypeOK
    BY DEF IInv
  <1>2. QED
    BY <1>1, InductiveInvariant, PTL

\* No two queued or running jobs do the same work.
THEOREM Dedup == Spec => []NoDuplicateWork
  <1>1. IInv => NoDuplicateWork
    <2> SUFFICES ASSUME IInv PROVE NoDuplicateWork
      OBVIOUS
    <2> USE DEF IInv
    <2>1. \A a \in DOMAIN queue : queue[a] \in JobId /\ queue[a] \in Queued
      BY DEF TypeOK, Queued, Range1
    <2>2. \A i, j \in JobId : (IsLive(i) /\ IsLive(j) /\ SameWork(i, j)) => i = j
      BY DEF ActiveExact, SameWork
    <2>3. current # NoJob => current \in JobId /\ IsLive(current)
      BY DEF TypeOK, IsLive
    <2>4. \A a \in DOMAIN queue : IsLive(queue[a])
      BY <2>1 DEF IsLive
    <2>5. \A a, b \in DOMAIN queue : SameWork(queue[a], queue[b]) => a = b
      BY <2>1, <2>2, <2>4 DEF QueueDistinct
    <2>6. current # NoJob => \A a \in DOMAIN queue : ~SameWork(queue[a], current)
      BY <2>1, <2>2, <2>3, <2>4 DEF QueueDistinct
    <2>7. QED
      BY <2>5, <2>6 DEF NoDuplicateWork
  <1>2. QED
    BY <1>1, InductiveInvariant, PTL

\* The folder mapping names exactly the live jobs; eviction never drops one, and
\* the registry is bounded by the live jobs and MaxHistory.
THEOREM StoresAreExact == Spec => []StoresExact
  <1>1. IInv => StoresExact
    BY DEF IInv, StoresExact
  <1>2. QED
    BY <1>1, InductiveInvariant, PTL

\* Nobody blocks on a job that is over.
THEOREM WakeupsArrive == Spec => []NoLostWakeup
  <1>1. IInv => NoLostWakeup
    BY DEF IInv
  <1>2. QED
    BY <1>1, InductiveInvariant, PTL

\* No job starts while one that was queued before it still waits: only the front
\* of the queue changes from queued to running, and nothing is before it.
THEOREM NoOvertakingHolds == Spec => NoOvertaking
  <1> DEFINE InOrder == \A a, b \in DOMAIN queue :
               (a < b /\ status'[queue[b]] = "running") => status'[queue[a]] # "queued"
  <1>1. IInv /\ [Next]_vars => InOrder
    <2> SUFFICES ASSUME IInv, [Next]_vars, NEW a \in DOMAIN queue, NEW b \in DOMAIN queue,
                        a < b, status'[queue[b]] = "running"
                 PROVE  FALSE
      OBVIOUS
    <2>1. /\ queue[b] \in JobId /\ queue[b] \in Queued /\ status[queue[b]] = "queued"
          /\ queue[b] # current
      BY DEF IInv, TypeOK, Queued, Range1, StatusExact, QueueDistinct
    <2>2. ~UNCHANGED status
      BY <2>1
    <2>3. ASSUME NEW t \in Types, NEW f \in Folders, Enqueue(t, f) PROVE FALSE
      BY <2>1, <2>3 DEF Enqueue, IInv, TypeOK
    <2>4. CASE TakeJob
      <3>1. queue[b] = Head(queue)
        BY <2>1, <2>4 DEF TakeJob, IInv, TypeOK
      <3>2. b = 1
        BY <2>4, <3>1 DEF TakeJob, IInv, TypeOK, QueueDistinct
      <3>3. QED
        BY <3>2 DEF IInv, TypeOK
    <2>5. ASSUME NEW outcome, Retire(current, outcome) PROVE FALSE
      BY <2>1, <2>5 DEF Retire
    <2>6. QED
      BY <2>2, <2>3, <2>4, <2>5
      DEF Next, vars, Start, Finish, Shutdown, StopIdle, CancelJob, Wait, Resume
  <1>2. QED
    BY <1>1, InductiveInvariant, PTL DEF Spec, NoOvertaking

-----------------------------------------------------------------------------
(* The queue implements the abstract line *)

\* The line of work that the queue of job ids q stands for.
LineOf(q) == [i \in DOMAIN q |-> WorkOf(q[i])]
RunningOf(c) == IF c = NoJob THEN NoJob ELSE WorkOf(c)

\* LineOf maps the operations of the queue to those of the line.
LEMMA LineLemma ==
  ASSUME NEW q \in Seq(JobId)
  PROVE  /\ LineOf(q) \in Seq(Types \X Folders)
         /\ \A j \in JobId : LineOf(Append(q, j)) = Append(LineOf(q), WorkOf(j))
         /\ q # <<>> => /\ LineOf(q) # <<>>
                        /\ WorkOf(Head(q)) = Head(LineOf(q))
                        /\ LineOf(Tail(q)) = Tail(LineOf(q))
  <1>1. \A j \in JobId : WorkOf(j) \in Types \X Folders
    BY DEF WorkOf, JobId
  <1>2. LineOf(q) \in Seq(Types \X Folders) /\ Len(LineOf(q)) = Len(q)
    <2>1. Len(q) \in Nat /\ DOMAIN q = 1..Len(q)
      OBVIOUS
    <2>2. LineOf(q) \in [1..Len(q) -> Types \X Folders]
      BY <1>1, <2>1 DEF LineOf
    <2>3. QED
      BY <2>1, <2>2
  <1>3. ASSUME NEW j \in JobId PROVE LineOf(Append(q, j)) = Append(LineOf(q), WorkOf(j))
    <2>1. /\ LineOf(Append(q, j)) \in Seq(Types \X Folders)
          /\ Append(LineOf(q), WorkOf(j)) \in Seq(Types \X Folders)
      BY <1>1, <1>2 DEF LineOf
    <2>2. /\ Len(LineOf(Append(q, j))) = Len(q) + 1
          /\ Len(Append(LineOf(q), WorkOf(j))) = Len(q) + 1
      BY <1>1, <1>2, <2>1 DEF LineOf
    <2>3. \A i \in 1..(Len(q) + 1) : LineOf(Append(q, j))[i] = Append(LineOf(q), WorkOf(j))[i]
      BY <1>1, <1>2 DEF LineOf
    <2>4. QED
      BY <2>1, <2>2, <2>3, SeqEqual
  <1>4. ASSUME q # <<>>
        PROVE  /\ LineOf(q) # <<>>
               /\ WorkOf(Head(q)) = Head(LineOf(q))
               /\ LineOf(Tail(q)) = Tail(LineOf(q))
    <2>1. Len(q) \in Nat /\ Len(q) > 0 /\ Tail(q) \in Seq(JobId) /\ Len(Tail(q)) = Len(q) - 1
      BY <1>4
    <2>2. LineOf(q) # <<>> /\ WorkOf(Head(q)) = Head(LineOf(q))
      BY <1>2, <2>1 DEF LineOf
    <2>3. /\ LineOf(Tail(q)) \in Seq(Types \X Folders)
          /\ Tail(LineOf(q)) \in Seq(Types \X Folders)
          /\ Len(LineOf(Tail(q))) = Len(q) - 1
          /\ Len(Tail(LineOf(q))) = Len(q) - 1
      BY <1>1, <1>2, <2>1, <2>2 DEF LineOf
    <2>4. ASSUME NEW i \in 1..(Len(q) - 1) PROVE LineOf(Tail(q))[i] = Tail(LineOf(q))[i]
      <3>1. i \in DOMAIN Tail(q) /\ Tail(q)[i] = q[i + 1] /\ i + 1 \in DOMAIN q
        BY <2>1
      <3>2. LineOf(Tail(q))[i] = WorkOf(q[i + 1]) /\ LineOf(q)[i + 1] = WorkOf(q[i + 1])
        BY <3>1 DEF LineOf
      <3>3. Tail(LineOf(q))[i] = LineOf(q)[i + 1]
        <4> DEFINE l == LineOf(q)
        <4>1. l \in Seq(Types \X Folders) /\ Len(l) = Len(q) /\ i \in 1..(Len(l) - 1)
          BY <1>2
        <4> HIDE DEF l
        <4>2. Tail(l)[i] = l[i + 1]
          BY <4>1, <2>1
        <4>3. QED
          BY <4>2 DEF l
      <3>4. QED
        BY <3>2, <3>3
    <2>5. \A i \in 1..Len(LineOf(Tail(q))) : LineOf(Tail(q))[i] = Tail(LineOf(q))[i]
      BY <2>3, <2>4
    <2>6. LineOf(Tail(q)) = Tail(LineOf(q))
      BY <2>3, <2>5, SeqEqual
    <2>7. QED
      BY <2>2, <2>6
  <1>5. QED
    BY <1>2, <1>3, <1>4

\* A request is accepted exactly when the abstract line is not busy with it.
LEMMA NotBusy ==
  ASSUME IInv, NEW t \in Types, NEW f \in Folders, ActiveJob(t, f) = NoJob
  PROVE  ~Abstract!Busy(<<t, f>>)
  <1> USE DEF IInv
  <1>1. ASSUME NEW j \in JobId, IsLive(j) PROVE WorkOf(j) # <<t, f>>
    <2>1. active[WorkOf(j)] = j /\ j \in jobs
      BY <1>1 DEF ActiveExact, RegistryExact, WorkOf
    <2>2. QED
      BY <2>1, NoJobAssumption DEF ActiveJob
  <1>2. \A i \in DOMAIN queue : queue[i] \in JobId /\ IsLive(queue[i])
    BY DEF TypeOK, IsLive, Queued, Range1
  <1>3. \A i \in DOMAIN queue : WorkOf(queue[i]) # <<t, f>>
    BY <1>1, <1>2
  <1>4. current # NoJob => WorkOf(current) # <<t, f>>
    BY <1>1 DEF TypeOK, IsLive
  <1>5. NoJob # <<t, f>>
    BY NoJobAssumption
  <1>6. QED
    BY <1>3, <1>4, <1>5 DEF Abstract!Busy

\* Each step of the queue is the step of the line it should be, or none.
LEMMA StepImplements ==
  ASSUME IInv, Next
  PROVE  Abstract!Next \/ UNCHANGED Abstract!vars
  <1> USE DEF IInv
  <1> DEFINE L == LineOf(queue)
             R == RunningOf(current)
  <1>1. queue \in Seq(JobId) /\ current \in JobId \union {NoJob}
    BY DEF TypeOK
  <1>2. \A j \in JobId : WorkOf(j) # NoJob /\ WorkOf(j) \in Types \X Folders /\ j # NoJob
    BY NoJobAssumption DEF WorkOf, JobId
  <1>3. CASE Start
    <2>1. Phase = "new" /\ Phase' = "open" /\ queue' = queue /\ current' = current
      BY <1>3 DEF Start, Phase
    <2>2. Abstract!Open
      BY <2>1 DEF Abstract!Open, WorkOf
    <2>3. QED
      BY <2>2 DEF Abstract!Next
  <1>4. ASSUME NEW t \in Types, NEW f \in Folders, Enqueue(t, f)
        PROVE  Abstract!Next
    <2>1. PICK j \in JobId : NewId(j, t, f) /\ queue' = Append(queue, j)
      BY <1>4 DEF Enqueue
    <2>2. WorkOf(j) = <<t, f>> /\ ActiveJob(t, f) = NoJob
      BY <1>4, <2>1 DEF NewId, WorkOf, Enqueue
    <2>3. current' = current /\ Phase' = Phase
      BY <1>4 DEF Enqueue, Phase
    <2>4. LineOf(queue') = Append(LineOf(queue), <<t, f>>)
      BY <1>1, <2>1, <2>2, LineLemma
    <2>5. ~Abstract!Busy(<<t, f>>)
      BY <2>2, NotBusy
    <2>6. Abstract!Request(<<t, f>>)
      BY <2>3, <2>4, <2>5 DEF Abstract!Request, LineOf, WorkOf
    <2>7. QED
      BY <2>6 DEF Abstract!Next, Abstract!Work
  <1>5. CASE TakeJob
    <2>1. /\ queue # <<>> /\ queue' = Tail(queue) /\ current = NoJob /\ current' = Head(queue)
          /\ Phase = "open" /\ Phase' = Phase
      BY <1>5 DEF TakeJob, Phase
    <2>2. Head(queue) \in JobId
      BY <1>1, <2>1
    <2>3. /\ LineOf(queue) # <<>> /\ WorkOf(Head(queue)) = Head(LineOf(queue))
          /\ LineOf(queue') = Tail(LineOf(queue))
      BY <1>1, <2>1, LineLemma
    <2>4. Abstract!Begin
      BY <1>2, <2>1, <2>2, <2>3 DEF Abstract!Begin, LineOf
    <2>5. QED
      BY <2>4 DEF Abstract!Next
  <1>6. ASSUME NEW outcome \in {"completed", "failed"}, Finish(outcome)
        PROVE  Abstract!Next
    <2>1. /\ queue' = queue /\ current \in JobId /\ current' = NoJob
          /\ Phase = "open" /\ Phase' = Phase
      BY <1>1, <1>6 DEF Finish, Retire, Phase
    <2>2. Abstract!End
      BY <1>2, <2>1 DEF Abstract!End, WorkOf
    <2>3. QED
      BY <2>2 DEF Abstract!Next
  <1>7. CASE Shutdown
    <2>1. /\ queue' = queue /\ current' = NoJob /\ Phase = "open" /\ Phase' = "closed"
      BY <1>7 DEF Shutdown, StopIdle, CancelJob, Retire, Phase
    <2>2. Abstract!Close
      BY <2>1 DEF Abstract!Close, WorkOf
    <2>3. QED
      BY <2>2 DEF Abstract!Next
  <1>8. ASSUME NEW w \in Waiters, Resume(w) \/ \E j \in JobId : Wait(w, j)
        PROVE  UNCHANGED Abstract!vars
    <2>1. queue' = queue /\ current' = current /\ Phase' = Phase
      BY <1>8 DEF Resume, Wait, Phase
    <2>2. QED
      BY <2>1 DEF Abstract!vars, WorkOf
  <1>9. QED
    BY <1>3, <1>4, <1>5, <1>6, <1>7, <1>8 DEF Next

\* JobQueue implements JobLine, as far as safety goes: whoever uses the queue
\* may reason about the line of work only, as RecordingPipeline does.
THEOREM QueueImplementsLine == Spec => Abstract!SafeSpec
  <1>1. Init => Abstract!Init
    BY DEF Init, Abstract!Init, Phase
  <1>2. IInv /\ [Next]_vars => [Abstract!Next]_(Abstract!vars)
    <2>1. CASE Next
      BY <2>1, StepImplements
    <2>2. CASE UNCHANGED vars
      BY <2>2 DEF vars, Abstract!vars, Phase, WorkOf
    <2>3. QED
      BY <2>1, <2>2
  <1>3. QED
    BY <1>1, <1>2, InductiveInvariant, PTL DEF Spec, Abstract!SafeSpec
=============================================================================
