----------------------------- MODULE MCLockTest -----------------------------
(* Instances of LockTest for TLC: see the .cfg files. *)
EXTENDS LockTest
=============================================================================
