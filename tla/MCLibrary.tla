----------------------------- MODULE MCLibrary -----------------------------
(* Library on a small instance: two recordings, one of a task and one of none, *)
(* and a search text that matches one of them.                                 *)
EXTENDS Library, TLC

MCFolders == 1..2
MCTexts == {MCFolders, {2}}
MCDisks == {(1 :> "pick") @@ (2 :> "none")}
=============================================================================
