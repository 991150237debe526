----------------------------- MODULE MCConsole -----------------------------
(* Console on a small instance: one topic, so that the selection is empty or *)
(* not, two recordings, and a countdown of two ticks.                        *)
EXTENDS Console
=============================================================================
