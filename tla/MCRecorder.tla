----------------------------- MODULE MCRecorder -----------------------------
(* Recorder on a small instance. The child processes are alike; symmetry is    *)
(* not used because the run checks liveness.                                   *)
EXTENDS Recorder
=============================================================================
