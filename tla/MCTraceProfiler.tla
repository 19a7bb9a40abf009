-------------------------- MODULE MCTraceProfiler --------------------------
(* Instances of TraceProfiler for TLC: see the .cfg files. *)
EXTENDS TraceProfiler
=============================================================================
