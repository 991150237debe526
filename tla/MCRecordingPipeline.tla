------------------------ MODULE MCRecordingPipeline ------------------------
(* RecordingPipeline on small instances; every MC*.cfg of the pipeline chooses *)
(* the job types, the recordings and what may go wrong. The folders are alike, *)
(* and so are the recordings that agree on all three sets.                     *)
EXTENDS RecordingPipeline, TLC

Symmetry ==
  Permutations(Folders) \union
    {p \in Permutations(Recs) : \A r \in Recs : /\ (r \in WithMcap) = (p[r] \in WithMcap)
                                                /\ (r \in WithStart) = (p[r] \in WithStart)
                                                /\ (r \in WithFrames) = (p[r] \in WithFrames)}

\* Bound of the run upload: one job runs and one waits, or two wait. The body of a
\* job and what happens to the folder of one that waits do not depend on more.
TwoJobs == Len(line) + (IF running = None THEN 0 ELSE 1) <= 2
=============================================================================
