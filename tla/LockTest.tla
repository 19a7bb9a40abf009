------------------------------ MODULE LockTest ------------------------------
(***************************************************************************)
(* The tests of locks in prof-lean/locks.  A test starts threads at a      *)
(* barrier; until main says that it is finished they take the lock, look   *)
(* whether the shared sum is odd, and writers count it up twice.  main     *)
(* joins them, prints their counts, and runs the next test with the same   *)
(* barrier.                                                                *)
(*                                                                         *)
(* lock-test.c has only writers and tries several locks and one test       *)
(* without any; rwlock-test.c has readers as well.  The locks are those of *)
(* pthreads and of HPCToolkit: they exclude, and promise no order.         *)
(***************************************************************************)
EXTENDS Integers, FiniteSets, Sequences, FiniteSetsExt, Functions

CONSTANTS
  NumReaders, NumWriters,  \* of a test of rwlock-test; lock-test has as many
                           \* adders as there are threads in all
  MaxOps                   \* bound on the operations of a thread in one test

ASSUME LockTestAssumption ==
  NumReaders \in Nat /\ NumWriters \in Nat \ {0} /\ MaxOps \in Nat

\* A thread is its slot in thread_sum.
Thread == 0 .. NumReaders + NumWriters - 1
MainThread == -1

VARIABLES
  program,       \* "lock-test" or "rwlock-test"; never changes
  test,          \* the number of the test in this program
  pc,            \* where each thread is
  main,          \* "create", "barrier", "sleep", "join", "exit" or "error"
  started,       \* threads that are created and not joined
  at_barrier,    \* threads that have come to the barrier, main too
  finished, total_sum,
  holders,       \* the threads that hold the lock
  sum, num_odds, load,   \* locals of a thread
  thread_sum, thread_odds

which  == <<program, test>>
locals == <<sum, num_odds, load>>
shared == <<finished, total_sum, holders, thread_sum, thread_odds>>
vars   == <<which, pc, main, started, at_barrier, locals, shared>>

Reader == IF program = "rwlock-test" THEN 0 .. NumReaders - 1 ELSE {}
Writer == Thread \ Reader

\* lock-test tries four locks, rwlock-test two, all in the same way: one that
\* follows another test stands for all of them.
Tests == IF program = "lock-test" THEN <<"sync_add", "lock">> ELSE <<"lock", "lock">>

Zero == [t \in Thread |-> 0]

Init ==
  /\ program \in {"lock-test", "rwlock-test"}
  /\ test = 1 /\ main = "create"
  /\ pc = [t \in Thread |-> "none"]
  /\ started = {} /\ at_barrier = {}
  /\ finished = FALSE /\ total_sum = 0 /\ holders = {}
  /\ sum = Zero /\ num_odds = Zero /\ load = Zero
  /\ thread_sum = Zero /\ thread_odds = Zero

Goto(t, label) == pc' = [pc EXCEPT ![t] = label]
Count(f, t) == f' = [f EXCEPT ![t] = @ + 1]

-----------------------------------------------------------------------------
(* The barrier, for all threads and main. *)

Party_without_main == Thread
Party == Thread \cup {MainThread}

\* Who comes last lets all go; the barrier is then ready for its next use.
Arrive(x) ==
  at_barrier' = IF at_barrier \cup {x} = Party THEN {} ELSE at_barrier \cup {x}

-----------------------------------------------------------------------------
(* A thread.  An operator "x_..." before an operator "x" is a mutant of x. *)

EnterBarrier(t) ==
  /\ pc[t] = "enter"
  /\ Arrive(t)
  /\ Goto(t, "barrier")
  /\ UNCHANGED <<which, main, started, locals, shared>>

LeaveBarrier(t) ==
  /\ pc[t] = "barrier" /\ t \notin at_barrier
  /\ Goto(t, "loop")
  /\ UNCHANGED <<which, main, started, at_barrier, locals, shared>>

\* while (!finished); at the bound a thread waits for that.
Loop(t) ==
  /\ pc[t] = "loop"
  /\ \/ ~ finished /\ sum[t] < MaxOps
        /\ Goto(t, IF Tests[test] = "lock" THEN "lock" ELSE "check")
     \/ finished /\ Goto(t, "return")
  /\ UNCHANGED <<which, main, started, at_barrier, locals, shared>>

Excludes_readers_not(t) == holders \cap Writer = {}
Excludes(t) == IF t \in Reader THEN holders \cap Writer = {} ELSE holders = {}

Lock(t) ==
  /\ pc[t] = "lock" /\ Excludes(t)
  /\ holders' = holders \cup {t}
  /\ Goto(t, "check")
  /\ UNCHANGED <<which, main, started, at_barrier, locals, finished, total_sum,
                 thread_sum, thread_odds>>

Check(t) ==
  /\ pc[t] = "check"
  /\ IF total_sum % 2 = 1 THEN Count(num_odds, t) ELSE UNCHANGED num_odds
  /\ Goto(t, IF t \in Reader THEN "unlock"
             ELSE IF Tests[test] = "lock" THEN "load" ELSE "add")
  /\ UNCHANGED <<which, main, started, at_barrier, sum, load, shared>>

Delta_one == 1
Delta == 2

\* __sync_add_and_fetch(&total_sum, 2)
SyncAdd(t) ==
  /\ pc[t] = "add"
  /\ total_sum' = total_sum + Delta
  /\ Count(sum, t)
  /\ Goto(t, "loop")
  /\ UNCHANGED <<which, main, started, at_barrier, num_odds, load, finished, holders,
                 thread_sum, thread_odds>>

\* ++total_sum of a volatile: a load and a store, and the same again.
Load(t) ==
  /\ pc[t] \in {"load", "load_again"}
  /\ load' = [load EXCEPT ![t] = total_sum]
  /\ Goto(t, IF pc[t] = "load" THEN "store" ELSE "store_again")
  /\ UNCHANGED <<which, main, started, at_barrier, sum, num_odds, shared>>

Store(t) ==
  /\ pc[t] \in {"store", "store_again"}
  /\ total_sum' = load[t] + 1
  /\ load' = [load EXCEPT ![t] = 0]
  /\ Goto(t, IF pc[t] = "store" THEN "load_again" ELSE "unlock")
  /\ UNCHANGED <<which, main, started, at_barrier, sum, num_odds, finished, holders,
                 thread_sum, thread_odds>>

Unlock(t) ==
  /\ pc[t] = "unlock"
  /\ holders' = holders \ {t}
  /\ Count(sum, t)
  /\ Goto(t, "loop")
  /\ UNCHANGED <<which, main, started, at_barrier, num_odds, load, finished, total_sum,
                 thread_sum, thread_odds>>

Return(t) ==
  /\ pc[t] = "return"
  /\ thread_sum' = [thread_sum EXCEPT ![t] = sum[t]]
  /\ thread_odds' = [thread_odds EXCEPT ![t] = num_odds[t]]
  /\ sum' = [sum EXCEPT ![t] = 0] /\ num_odds' = [num_odds EXCEPT ![t] = 0]
  /\ Goto(t, "ended")
  /\ UNCHANGED <<which, main, started, at_barrier, load, finished, total_sum, holders>>

-----------------------------------------------------------------------------
(* main: addtest, for one test after the other. *)

\* pthread_create of the next thread, readers first; if one fails main exits.
Create ==
  LET t == Min(Thread \ started) IN
  /\ main = "create"
  /\ \/ /\ started' = started \cup {t}
        /\ Goto(t, "enter")
        /\ main' = IF started' = Thread THEN "barrier" ELSE "create"
     \/ main' = "error" /\ UNCHANGED <<started, pc>>
  /\ UNCHANGED <<which, at_barrier, locals, shared>>

MainBarrier ==
  /\ main = "barrier"
  /\ Arrive(MainThread)
  /\ main' = "sleep"
  /\ UNCHANGED <<which, pc, started, locals, shared>>

MainFinish_forgets ==
  /\ main = "sleep" /\ MainThread \notin at_barrier
  /\ main' = "join"
  /\ UNCHANGED <<which, pc, started, at_barrier, locals, shared>>

MainFinish ==
  /\ main = "sleep" /\ MainThread \notin at_barrier
  /\ finished' = TRUE
  /\ main' = "join"
  /\ UNCHANGED <<which, pc, started, at_barrier, locals, total_sum, holders,
                 thread_sum, thread_odds>>

MayJoin(t) == pc[t] = "ended"

\* pthread_join of the next thread.
Join ==
  LET t == Min(started) IN
  /\ main = "join" /\ started # {} /\ MayJoin(t)
  /\ started' = started \ {t}
  /\ UNCHANGED <<which, pc, main, at_barrier, locals, shared>>

\* All are joined: print, and on to the next test.
NextTest ==
  /\ main = "join" /\ started = {} /\ test < Len(Tests)
  /\ test' = test + 1
  /\ finished' = FALSE /\ total_sum' = 0
  /\ main' = "create"
  /\ UNCHANGED <<program, pc, started, at_barrier, locals, holders, thread_sum,
                 thread_odds>>

MainExit ==
  /\ main = "join" /\ started = {} /\ test = Len(Tests)
  /\ main' = "exit"
  /\ UNCHANGED <<which, pc, started, at_barrier, locals, shared>>

Ended == main \in {"exit", "error"} /\ UNCHANGED vars
-----------------------------------------------------------------------------
Adder(t) ==
  /\ main # "error"
  /\ \/ EnterBarrier(t) \/ LeaveBarrier(t) \/ Loop(t) \/ Lock(t) \/ Check(t)
     \/ SyncAdd(t) \/ Load(t) \/ Store(t) \/ Unlock(t) \/ Return(t)

Main ==
  \/ Create \/ Join
  \/ MainBarrier \/ MainFinish \/ NextTest \/ MainExit

Next == (\E t \in Thread : Adder(t)) \/ Main \/ Ended

Spec == Init /\ [][Next]_vars

\* Threads and main run; a lock that is free is given to somebody who waits, but
\* not to everybody in turn.
FairSpec == Spec /\ WF_vars(Main) /\ \A t \in Thread : WF_vars(Adder(t))

-----------------------------------------------------------------------------
(* Properties. *)

Joined == main \in {"join", "exit"} /\ started = {}

\* What the tests are for: with a lock, and with an atomic addition of two, nobody
\* ever sees an odd sum (lock-test.c:33-60).
NoOdds == \A t \in Thread : num_odds[t] = 0 /\ thread_odds[t] = 0

\* "total ops", printed from the shared sum, is the sum of what the threads counted
\* each for itself (lock-test.c:180, rwlock-test.c:196).
TotalIsSum ==
  Joined => total_sum = 2 * SumFunctionOnSet(thread_sum, Writer)

\* No thread runs before all were created and main is there to stop it, in the
\* later tests too, which use the barrier again (lock-test.c:29, 147, 186).
StartTogether ==
  \A t \in Thread : pc[t] \notin {"none", "enter", "barrier", "ended"} =>
    main \in {"sleep", "join"}

\* Every test ends: the threads see that it is finished, get the lock if they wait
\* for it, and are joined.
AllTestsEnd == <>(main \in {"exit", "error"})
=============================================================================
