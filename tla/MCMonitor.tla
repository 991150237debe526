----------------------------- MODULE MCMonitor -----------------------------
(* Monitor on a small instance: every window is one unit of time, one topic  *)
(* that can be subscribed and one that cannot.                               *)
EXTENDS Monitor
=============================================================================
