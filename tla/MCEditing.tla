----------------------------- MODULE MCEditing -----------------------------
(* Editing with two recordings and one tag (the rows of the dialog do not know *)
(* of each other).                                                             *)
EXTENDS Editing, TLC

MCSymmetry == Permutations(Folders)
=============================================================================
