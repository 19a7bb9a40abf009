------------------------------ MODULE WorkQueue ------------------------------
(***************************************************************************)
(* The thread library of AMG2013 (utilities/threading.c and the shared     *)
(* allocation of utilities/hypre_memory.c, with HYPRE_USE_PTHREADS): main  *)
(* puts work in a queue, every worker takes one item and then meets the    *)
(* others in a barrier.  To stop the workers, main puts one item for each. *)
(*                                                                         *)
(* An item of the application calls hypre_SharedMAlloc some times; each    *)
(* time all workers get the block that worker 0 allocates.  Blocks are     *)
(* numbered in the order they are allocated.                               *)
(***************************************************************************)
EXTENDS Integers, FiniteSets

CONSTANTS
  hypre_NumThreads,
  MAX_QUEUE,
  MaxItems,     \* bound on the items of the application
  Allocs,       \* how often an item calls hypre_SharedMAlloc
  NULL

ASSUME WorkQueueAssumption ==
  /\ hypre_NumThreads \in Nat \ {0} /\ MAX_QUEUE \in Nat \ {0} /\ MaxItems \in Nat
  /\ Allocs \in Nat \ {0}
  /\ NULL \notin Nat

Worker == 0 .. hypre_NumThreads - 1
Main == hypre_NumThreads      \* as hypre_GetThreadID has it
Thread == Worker \cup {Main}
Slot == 0 .. MAX_QUEUE - 1

VARIABLES
  pc,           \* where each thread is
  i,            \* the loop counter of main
  work_continue,
  lock,         \* who holds hypre_qptr->lock from one step to the next, or NULL
  worker_proc_queue, inp, outp, n_queue, n_working, n_waiting,
  item,         \* funcptr of each worker
  thb_count, thb_release,
  after,        \* what each worker does after the barrier it is in
  global_alloc_ptr, ptr,
  calls,        \* the calls each worker has made in its item
  error,        \* hypre_error_flag
  put,          \* how many items main has put for the application
  done,         \* history: the items that were run
  quiet         \* history: has main waited since it last put an item?

counters == <<n_queue, n_working, n_waiting>>
ring     == <<worker_proc_queue, inp, outp>>
queue    == <<ring, counters, error>>
barrier  == <<thb_count, thb_release, after>>
blocks   == <<global_alloc_ptr, ptr, calls>>
history  == <<put, done, quiet>>
vars     == <<pc, i, work_continue, lock, queue, item, barrier, blocks, history>>

Stop == 0       \* hypre_StopWorker as an item; others are 1 .. MaxItems

Init ==
  /\ pc = [t \in Thread |-> IF t = Main THEN "init" ELSE "none"]
  /\ i = 0
  /\ work_continue = TRUE
  /\ lock = NULL
  /\ worker_proc_queue = [s \in Slot |-> NULL] /\ inp = 0 /\ outp = 0
  /\ n_queue = 0 /\ n_working = 0 /\ n_waiting = 0
  /\ item = [t \in Worker |-> NULL]
  /\ thb_count = 0 /\ thb_release = 0
  /\ after = [t \in Worker |-> NULL]
  /\ global_alloc_ptr = 0 /\ ptr = [t \in Worker |-> 0]
  /\ calls = [t \in Worker |-> 0]
  /\ error = FALSE
  /\ put = 0 /\ done = {} /\ quiet = FALSE

Goto(t, label) == pc' = [pc EXCEPT ![t] = label]

-----------------------------------------------------------------------------
(* hypre_pthread_worker.  What it does from a lock to the unlock or the     *)
(* wait is one step.  An operator "x_..." before an operator "x" is a       *)
(* mutant of x.                                                             *)

\* The worker that gets the lock counts itself as working unless it does already.
Working(t) == n_working + (IF pc[t] \in {"start", "woken"} THEN 1 ELSE 0)
Waiting(t) == n_waiting - (IF pc[t] = "woken" THEN 1 ELSE 0)

\* It looks at work_continue before it looks at the queue, but not after a wait.
Enters(t) ==
  /\ lock = NULL
  /\ \/ pc[t] = "woken"
     \/ pc[t] \in {"start", "lock"} /\ work_continue

\* The queue is empty: wait.  The last to do so wakes main.
Wait(t) ==
  /\ Enters(t) /\ n_queue = 0
  /\ n_working' = Working(t) - 1
  /\ n_waiting' = Waiting(t) + 1
  /\ pc' = [u \in Thread |->
              IF u = t THEN "waiting"
              ELSE IF u = Main /\ n_working' = 0 /\ pc[u] = "finish" THEN "wait"
              ELSE pc[u]]
  /\ UNCHANGED <<i, work_continue, lock, ring, n_queue, error, item, barrier,
                 blocks, history>>

Take(t) ==
  /\ Enters(t) /\ n_queue # 0
  /\ n_working' = Working(t)
  /\ n_waiting' = Waiting(t)
  /\ n_queue' = n_queue - 1
  /\ item' = [item EXCEPT ![t] = worker_proc_queue[outp]]
  /\ outp' = (outp + 1) % MAX_QUEUE
  /\ Goto(t, "call")
  /\ UNCHANGED <<i, work_continue, lock, worker_proc_queue, inp, error, barrier,
                 blocks, history>>

\* A worker told to stop while it waits for the lock ends without an unlock.
EndLocked(t) ==
  /\ lock = NULL
  /\ pc[t] \in {"start", "lock"} /\ ~ work_continue
  /\ lock' = t
  /\ n_working' = Working(t)
  /\ Goto(t, "exited")
  /\ UNCHANGED <<i, work_continue, ring, n_queue, n_waiting, error, item, barrier,
                 blocks, history>>

Meet(t, next) ==
  /\ Goto(t, "enter")
  /\ after' = [after EXCEPT ![t] = next]
  /\ UNCHANGED <<thb_count, thb_release>>

CallStop(t) ==
  /\ pc[t] = "call" /\ item[t] = Stop
  /\ work_continue' = FALSE
  /\ Meet(t, "again")
  /\ UNCHANGED <<i, lock, queue, item, blocks, history>>

\* The item calls hypre_SharedMAlloc: worker 0 allocates, all meet, ...
CallItem(t) ==
  /\ pc[t] = "call" /\ item[t] # Stop
  /\ global_alloc_ptr' = global_alloc_ptr + (IF t = 0 THEN 1 ELSE 0)
  /\ calls' = [calls EXCEPT ![t] = @ + 1]
  /\ Meet(t, "read")
  /\ UNCHANGED <<i, work_continue, lock, queue, item, ptr, history>>

AfterRead_no_barrier == "return"
AfterRead == "enter"

\* ... copy the pointer, and meet again.
ReadPtr(t) ==
  /\ pc[t] = "read"
  /\ ptr' = [ptr EXCEPT ![t] = global_alloc_ptr]
  /\ Goto(t, AfterRead)
  /\ after' = [after EXCEPT ![t] = "return"]
  /\ UNCHANGED <<i, work_continue, lock, queue, item, thb_count, thb_release,
                 global_alloc_ptr, calls, history>>

\* The item goes on to its next call.
CallAgain(t) ==
  /\ pc[t] = "return" /\ calls[t] < Allocs
  /\ Goto(t, "call")
  /\ UNCHANGED <<i, work_continue, lock, queue, item, barrier, blocks, history>>

\* The item returns, and the workers meet in the barrier of the worker loop.
ReturnItem(t) ==
  /\ pc[t] = "return" /\ calls[t] = Allocs
  /\ calls' = [calls EXCEPT ![t] = 0]
  /\ done' = done \cup {item[t]}
  /\ Meet(t, "again")
  /\ UNCHANGED <<i, work_continue, lock, queue, item, global_alloc_ptr, ptr, put,
                 quiet>>

\* The second look at work_continue, without the lock.
Again(t) ==
  /\ pc[t] = "again"
  /\ Goto(t, IF work_continue THEN "lock" ELSE "exited")
  /\ UNCHANGED <<i, work_continue, lock, queue, item, barrier, blocks, history>>

-----------------------------------------------------------------------------
(* hypre_barrier.  The three places where workers meet share its counters. *)

Last_early(count) == count + 1 >= hypre_NumThreads - 1
Last(count) == count + 1 = hypre_NumThreads

Enter(t) ==
  /\ pc[t] = "enter"
  /\ IF Last(thb_count)
     THEN Goto(t, "release") /\ UNCHANGED thb_count
     ELSE Goto(t, "spin_release") /\ thb_count' = thb_count + 1
  /\ UNCHANGED <<i, work_continue, lock, queue, item, thb_release, after, blocks,
                 history>>

Release(t) ==
  /\ pc[t] = "release"
  /\ thb_release' = thb_release + 1
  /\ Goto(t, "spin_count")
  /\ UNCHANGED <<i, work_continue, lock, queue, item, thb_count, after, blocks,
                 history>>

SpinRelease(t) ==
  /\ pc[t] = "spin_release" /\ thb_release # 0
  /\ Goto(t, "count_down")
  /\ UNCHANGED <<i, work_continue, lock, queue, item, barrier, blocks, history>>

CountDown(t) ==
  /\ pc[t] = "count_down"
  /\ thb_count' = thb_count - 1
  /\ Goto(t, "spin_clear")
  /\ UNCHANGED <<i, work_continue, lock, queue, item, thb_release, after, blocks,
                 history>>

SpinCount(t) ==
  /\ pc[t] = "spin_count" /\ thb_count = 0
  /\ Goto(t, "clear")
  /\ UNCHANGED <<i, work_continue, lock, queue, item, barrier, blocks, history>>

Clear(t) ==
  /\ pc[t] = "clear"
  /\ thb_release' = 0
  /\ Goto(t, after[t])
  /\ UNCHANGED <<i, work_continue, lock, queue, item, thb_count, after, blocks,
                 history>>

Cleared == thb_release = 0

SpinClear(t) ==
  /\ pc[t] = "spin_clear" /\ Cleared
  /\ Goto(t, after[t])
  /\ UNCHANGED <<i, work_continue, lock, queue, item, barrier, blocks, history>>

-----------------------------------------------------------------------------
(* main. *)

\* HYPRE_InitPthreads, as far as it goes: pthread_create succeeds.
Create ==
  /\ pc[Main] = "init"
  /\ pc' = [pc EXCEPT ![i] = "start",
                      ![Main] = IF i + 1 = hypre_NumThreads THEN "app" ELSE "init"]
  /\ i' = IF i + 1 = hypre_NumThreads THEN 0 ELSE i + 1
  /\ UNCHANGED <<work_continue, lock, queue, item, barrier, blocks, history>>

Wakeable_nobody == {}
Wakeable == {t \in Worker : n_waiting # 0 /\ pc[t] = "waiting"}

\* hypre_work_put of an item; main goes to "label".  With a full queue the
\* assertion only reports, and the oldest item is overwritten.
hypre_work_put(x, label) ==
  /\ lock = NULL
  /\ \/ \E t \in Wakeable : pc' = [pc EXCEPT ![t] = "woken", ![Main] = label]
     \/ Wakeable = {} /\ Goto(Main, label)
  /\ error' = (error \/ n_queue = MAX_QUEUE)
  /\ n_queue' = n_queue + 1
  /\ worker_proc_queue' = [worker_proc_queue EXCEPT ![inp] = x]
  /\ inp' = (inp + 1) % MAX_QUEUE
  /\ UNCHANGED <<outp, n_working, n_waiting>>

PutItem ==
  /\ pc[Main] = "app" /\ put < MaxItems
  /\ hypre_work_put(put + 1, "app")
  /\ put' = put + 1
  /\ quiet' = FALSE
  /\ UNCHANGED <<i, work_continue, lock, item, barrier, blocks, done>>

\* hypre_work_wait
CallWait ==
  /\ pc[Main] = "app"
  /\ Goto(Main, "wait")
  /\ UNCHANGED <<i, work_continue, lock, queue, item, barrier, blocks, history>>

Quiesced_queue_only == n_queue = 0
Quiesced == n_queue = 0 /\ n_working = 0

WaitForFinish ==
  /\ pc[Main] = "wait" /\ lock = NULL
  /\ Goto(Main, IF Quiesced THEN "app" ELSE "finish")
  /\ quiet' = (IF Quiesced THEN put > 0 ELSE quiet)
  /\ UNCHANGED <<i, work_continue, lock, queue, item, barrier, blocks, put, done>>

\* pthread_cond_wait may return by itself.
WakeUp(t) ==
  /\ pc[t] \in {"waiting", "finish"}
  /\ Goto(t, IF t = Main THEN "wait" ELSE "woken")
  /\ UNCHANGED <<i, work_continue, lock, queue, item, barrier, blocks, history>>

\* HYPRE_DestroyPthreads, by an application that has put work for all workers alike:
\* else workers with different items would be in different barriers.
CallDestroy ==
  /\ pc[Main] = "app" /\ put % hypre_NumThreads = 0
  /\ Goto(Main, "stop")
  /\ UNCHANGED <<i, work_continue, lock, queue, item, barrier, blocks, history>>

StopWorkers == hypre_NumThreads

PutStop ==
  /\ pc[Main] = "stop"
  /\ hypre_work_put(Stop, IF i + 1 < StopWorkers THEN "stop" ELSE "join")
  /\ i' = IF i + 1 < StopWorkers THEN i + 1 ELSE 0
  /\ UNCHANGED <<work_continue, lock, item, barrier, blocks, history>>

\* After the last join the mutexes are destroyed and the queue is freed.
Join ==
  /\ pc[Main] = "join" /\ pc[i] = "exited"
  /\ Goto(Main, IF i + 1 = hypre_NumThreads THEN "down" ELSE "join")
  /\ i' = i + 1
  /\ UNCHANGED <<work_continue, lock, queue, item, barrier, blocks, history>>
-----------------------------------------------------------------------------
Work(t) ==
  \/ Wait(t) \/ Take(t) \/ EndLocked(t)
  \/ CallStop(t) \/ CallItem(t) \/ ReadPtr(t) \/ CallAgain(t)
  \/ ReturnItem(t) \/ Again(t)
  \/ Enter(t) \/ Release(t) \/ SpinRelease(t) \/ CountDown(t)
  \/ SpinCount(t) \/ Clear(t) \/ SpinClear(t)

Library == Create \/ WaitForFinish \/ PutStop \/ Join

Next ==
  \/ \E t \in Worker : Work(t)
  \/ \E t \in Thread : WakeUp(t)
  \/ Library \/ PutItem \/ CallWait \/ CallDestroy

Spec == Init /\ [][Next]_vars

\* Threads run, also main while it is in the library.
FairSpec == Spec /\ WF_vars(Library) /\ \A t \in Worker : WF_vars(Work(t))

-----------------------------------------------------------------------------
(* Properties. *)

Item == 1 .. MaxItems
InBarrier(t) == pc[t] \in {"enter", "spin_release", "count_down", "spin_clear",
                           "release", "spin_count", "clear"}

\* Every variable keeps its type.
TypeOK ==
  /\ pc \in [Thread -> {"none", "start", "woken", "lock", "waiting", "call", "read",
                        "return", "again", "exited", "enter", "spin_release",
                        "count_down", "spin_clear", "release", "spin_count", "clear",
                        "init", "app", "wait", "finish", "stop", "join", "down"}]
  /\ i \in 0 .. hypre_NumThreads
  /\ work_continue \in BOOLEAN /\ error \in BOOLEAN /\ quiet \in BOOLEAN
  /\ lock \in Worker \cup {NULL}
  /\ worker_proc_queue \in [Slot -> Item \cup {Stop, NULL}]
  /\ inp \in Slot /\ outp \in Slot
  /\ n_queue \in Nat
  /\ n_working \in 0 .. hypre_NumThreads /\ n_waiting \in 0 .. hypre_NumThreads
  /\ item \in [Worker -> Item \cup {Stop, NULL}]
  /\ thb_count \in 0 .. hypre_NumThreads - 1 /\ thb_release \in {0, 1}
  /\ after \in [Worker -> {"read", "return", "again", NULL}]
  /\ global_alloc_ptr \in Nat /\ ptr \in [Worker -> Nat]
  /\ calls \in [Worker -> 0 .. Allocs]
  /\ put \in 0 .. MaxItems /\ done \subseteq Item

Round(x) == (x - 1) \div hypre_NumThreads
\* Has t an item that has not returned?
HasItem(t) ==
  \/ pc[t] \in {"call", "read", "return"}
  \/ InBarrier(t) /\ after[t] \in {"read", "return"}

\* Workers go through the work in rounds of one item for each: unless the queue
\* overflowed, two workers never have items of different rounds, no item is taken
\* twice, and nobody leaves an item with another block than the one allocated
\* for this call (threading.c:168-191, 250-271, hypre_memory.c:217-234).
InRounds ==
  ~ error => \A t, u \in Worker :
    HasItem(t) /\ HasItem(u) =>
      /\ item[t] = Stop <=> item[u] = Stop
      /\ item[t] # Stop => Round(item[t]) = Round(item[u])
      /\ t # u /\ item[t] # Stop => item[t] # item[u]
      /\ pc[t] = "return" => ptr[t] = Round(item[t]) * Allocs + calls[t]

\* "Wait until all work is done and workers quiesce." (threading.c:212): when
\* hypre_work_wait returns every item was run and no worker is on its way to one.
WaitMeansDone ==
  [][pc[Main] = "wait" /\ pc'[Main] = "app" /\ ~ error =>
       done = 1 .. put /\ \A t \in Worker : ~ HasItem(t)]_vars

\* With a number of items that all workers have a share in, hypre_work_wait returns;
\* and after it HYPRE_DestroyPthreads does too.  It may not return without a wait: a
\* worker that has not started, or is between two rounds, then ends with the
\* lock held (threading.c:129-156, 168, 189, 213-220).
LibraryReturns ==
  /\ (pc[Main] = "wait" /\ put % hypre_NumThreads = 0 /\ ~ error)
       ~> pc[Main] = "app"
  /\ (pc[Main] = "stop" /\ quiet /\ ~ error) ~> pc[Main] = "down"
=============================================================================
