------------------------------ MODULE JobLine ------------------------------
(***************************************************************************)
(* What the background job queue of OpenLUTRA promises its callers, without*)
(* job objects, ids, history or waiters: the pieces of work <<job type,    *)
(* folder>> wait in one line, each at most once; the single worker takes   *)
(* the front of the line when it is free; work ends sooner or later.       *)
(* JobQueue.tla is shown to implement this specification, and              *)
(* RecordingPipeline.tla is built on it.                                   *)
(***************************************************************************)
EXTENDS Sequences, Naturals

CONSTANTS
  Types, Folders,
  NoWork          \* what runs when nothing runs

Work == Types \X Folders

VARIABLES line, running, phase

vars == <<line, running, phase>>

\* k waits or runs.
Busy(k) == k = running \/ \E i \in DOMAIN line : line[i] = k

TypeOK ==
  /\ line \in Seq(Work)
  /\ running \in Work \union {NoWork}
  /\ phase \in {"new", "open", "closed"}

Init ==
  /\ line = <<>>
  /\ running = NoWork
  /\ phase = "new"

\* The worker starts serving.
Open ==
  /\ phase = "new"
  /\ phase' = "open"
  /\ UNCHANGED <<line, running>>

\* Somebody asks for work that is not busy; asking for busy work changes nothing.
Request(k) ==
  /\ ~Busy(k)
  /\ line' = Append(line, k)
  /\ UNCHANGED <<running, phase>>

\* The free worker takes the front of the line.
Begin ==
  /\ phase = "open"
  /\ running = NoWork
  /\ line # <<>>
  /\ running' = Head(line)
  /\ line' = Tail(line)
  /\ UNCHANGED phase

\* The work ends, well or badly.
End ==
  /\ phase = "open"
  /\ running # NoWork
  /\ running' = NoWork
  /\ UNCHANGED <<line, phase>>

\* The application goes down: what ran is abandoned, what waited stays waiting.
Close ==
  /\ phase = "open"
  /\ phase' = "closed"
  /\ running' = NoWork
  /\ UNCHANGED line

Next ==
  \/ Open
  \/ \E k \in Work : Request(k)
  \/ Begin
  \/ End
  \/ Close

SafeSpec == Init /\ [][Next]_vars

Spec == SafeSpec /\ WF_vars(Open) /\ WF_vars(Begin) /\ WF_vars(End)
=============================================================================
