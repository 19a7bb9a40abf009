----------------------------- MODULE MCWorkQueue -----------------------------
(* Instances of WorkQueue for TLC: see the .cfg file. *)
EXTENDS WorkQueue
=============================================================================
