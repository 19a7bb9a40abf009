----------------------------- MODULE MCFindGaps -----------------------------
(* Instances of FindGaps for TLC: see the .cfg files. *)
EXTENDS FindGaps
=============================================================================
