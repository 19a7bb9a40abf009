---------------------------- MODULE MCThreadPool ----------------------------
(* Instances of ThreadPool for TLC: see the .cfg files. *)
EXTENDS ThreadPool
=============================================================================
