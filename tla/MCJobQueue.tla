----------------------------- MODULE MCJobQueue -----------------------------
(* JobQueue on a small instance: see MCJobQueue.cfg for the constants. *)
EXTENDS JobQueue
=============================================================================
