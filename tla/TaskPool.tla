------------------------------ MODULE TaskPool ------------------------------
(***************************************************************************)
(* What the thread pool promises the application, whatever threads it has: *)
(* one subprogram at a time, called exactly once for every rank, and a     *)
(* call or a wait that ends only when that has been done.                  *)
(***************************************************************************)
EXTENDS Naturals

CONSTANTS Ranks, Routine, None

VARIABLES
  up,       \* are there threads?
  active,   \* the subprogram that was started, or None
  work,     \* the ranks it is to be called for
  calls     \* how often it was called for each rank

vars == <<up, active, work, calls>>

Uncalled == [r \in Ranks |-> 0]

Init == up = FALSE /\ active = None /\ work = {} /\ calls = Uncalled

Up     == active = None /\ up' = TRUE  /\ UNCHANGED <<active, work, calls>>
Down   == active = None /\ up' = FALSE /\ UNCHANGED <<active, work, calls>>

Start ==
  /\ active = None
  /\ active' \in Routine
  /\ work' \in {{}} \cup {0 .. r : r \in Ranks}
  /\ UNCHANGED <<up, calls>>

\* There is no second call for a rank.
Do(r) ==
  /\ r \in work
  /\ calls[r] = 0
  /\ calls' = [calls EXCEPT ![r] = 1]
  /\ UNCHANGED <<up, active, work>>

Finish ==
  /\ active # None
  /\ \A r \in work : calls[r] = 1
  /\ active' = None
  /\ work' = {}
  /\ calls' = Uncalled
  /\ UNCHANGED up

Next == Up \/ Down \/ Start \/ Finish \/ \E r \in Ranks : Do(r)

Spec == Init /\ [][Next]_vars
=============================================================================
