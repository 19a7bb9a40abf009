----------------------------- MODULE ThreadPool -----------------------------
(***************************************************************************)
(* The thread pool of miniFE (TPI.c, the pthread build): main and workers  *)
(* that spin on a control word each.  TPI_Init starts the workers, the     *)
(* TPI_Run and TPI_Start families hand them a subprogram, TPI_Wait joins   *)
(* them through a fan-in tree, TPI_Block parks them on a mutex and         *)
(* TPI_Finalize ends them.                                                 *)
(*                                                                         *)
(* A thread is its m_rank; Main is thread 0, which also runs the           *)
(* application, and it is the only caller of the interface.  Names with    *)
(* the prefix m_ are the fields of thread_pool and of its m_thread array.  *)
(***************************************************************************)
EXTENDS Integers, FiniteSets

CONSTANTS
  MaxThreads,   \* bound on the argument of TPI_Init (THREAD_COUNT_MAX is 256)
  WorkCounts,   \* values of the argument work_count
  NULL

ASSUME PoolAssumption ==
  /\ MaxThreads \in Nat \ {0}
  /\ WorkCounts \subseteq Nat /\ IsFiniteSet(WorkCounts)
  /\ NULL \notin Nat /\ NULL \notin {"user", "local_block"}

Thread == 0 .. MaxThreads - 1
Main == 0
Worker == Thread \ {Main}
MaxWork ==
  CHOOSE m \in WorkCounts \cup {MaxThreads} :
    \A c \in WorkCounts \cup {MaxThreads} : c <= m
Ranks == 0 .. MaxWork - 1

VARIABLES
  m_thread_count,
  m_work_routine,        \* NULL, "user" or "local_block"
  m_work_count, m_work_thread_count, m_work_count_claim,
  m_reduce_join,         \* is there a reduction?
  m_control,             \* of each thread: 1 to activate it, 0 when it is done
  m_thread_fan,          \* first child of each thread, for thread n too
  m_lock,                \* who holds m_lock[0], or NULL
  pc,                    \* where each thread is
  ending,                \* the workers that are in the termination barrier
  child,                 \* local "thread" of a loop over threads
  rank,                  \* work.rank
  call, result,          \* the call of the application in progress, its result
  calls,                 \* history: how often this run called each rank
  reduce,                \* history: the ranks in the reduce value of a thread
  joined                 \* history: how often the value of a thread was joined

fields  == <<m_work_routine, m_work_count, m_work_thread_count,
             m_work_count_claim, m_reduce_join>>
pool    == <<m_thread_count, m_thread_fan>>
history == <<calls, reduce, joined>>
vars    == <<fields, pool, m_control, m_lock, pc, ending, child, rank, call,
             result, history>>

Init ==
  /\ m_thread_count = 0
  /\ m_work_routine = NULL
  /\ m_work_count = 0 /\ m_work_thread_count = 0 /\ m_work_count_claim = 0
  /\ m_reduce_join = FALSE
  /\ m_control = [t \in Thread |-> 0]
  /\ m_thread_fan = [t \in 0 .. MaxThreads |-> 0]
  /\ m_lock = NULL
  /\ pc = [t \in Thread |-> IF t = Main THEN "app" ELSE "none"]
  /\ ending = {}
  /\ child = [t \in Thread |-> 0]
  /\ rank = [t \in Thread |-> 0]
  /\ call = "none" /\ result = "ok"
  /\ calls = [r \in Ranks |-> 0]
  /\ reduce = [t \in Thread |-> {}]
  /\ joined = [t \in Thread |-> 0]

Goto(t, label) == pc' = [pc EXCEPT ![t] = label]
Returns(code) == Goto(Main, "app") /\ result' = code
Workers == 1 .. m_thread_count - 1

\* The locals of a function die with it.
ClearLocals(t) ==
  child' = [child EXCEPT ![t] = 0] /\ rank' = [rank EXCEPT ![t] = 0]

-----------------------------------------------------------------------------
(* Every thread: run work if any, then wait for the children to finish.    *)
(* An operator "x_..." before an operator "x" is a mutant of x.            *)

\* local_barrier up to local_run; m_reduce_init for all but the root.
Barrier(t) ==
  /\ pc[t] = "barrier"
  /\ child' = [child EXCEPT ![t] = m_thread_fan[t + 1]]
  /\ reduce' = IF m_reduce_join /\ t # Main
               THEN [reduce EXCEPT ![t] = {}] ELSE reduce
  /\ Goto(t, IF m_work_routine # NULL THEN "run" ELSE "fan")
  /\ UNCHANGED <<fields, pool, m_control, m_lock, ending, rank, call, result, calls,
                 joined>>

Begin(t, r) ==
  /\ rank' = [rank EXCEPT ![t] = r]
  /\ calls' = [calls EXCEPT ![r] = @ + 1]
  /\ Goto(t, "work")

RankOf(t) == m_thread_count - 1 - t

\* local_run when there is a thread for every rank of the work.
RunRanked(t) ==
  LET r == RankOf(t) IN
  /\ pc[t] = "run"
  /\ m_work_count <= m_work_thread_count
  /\ IF r < m_work_count
     THEN Begin(t, r)
     ELSE Goto(t, "fan") /\ UNCHANGED <<rank, calls>>
  /\ UNCHANGED <<fields, pool, m_control, m_lock, ending, child, call, result, reduce,
                 joined>>

\* A load and a store instead: the decrement of another thread may undo this one.
atomic_fetch_and_decrement_torn ==
  m_work_count_claim' \in {m_work_count_claim - 1, m_work_count_claim}
atomic_fetch_and_decrement == m_work_count_claim' = m_work_count_claim - 1

Claimed_nonzero == m_work_count_claim # 0
Claimed == 0 < m_work_count_claim

\* local_run when there is not.
RunClaimed(t) ==
  /\ pc[t] = "run"
  /\ m_work_count > m_work_thread_count
  /\ atomic_fetch_and_decrement
  /\ IF Claimed
     THEN Begin(t, m_work_count - m_work_count_claim)
     ELSE Goto(t, "fan") /\ UNCHANGED <<rank, calls>>
  /\ UNCHANGED <<m_work_routine, m_work_count, m_work_thread_count,
                 m_reduce_join, pool, m_control, m_lock, ending, child, call, result,
                 reduce, joined>>

\* The subprogram returns.  local_block takes and releases m_lock[0] first.
EndWork(t) ==
  /\ pc[t] = "work"
  /\ m_work_routine = "local_block" /\ rank[t] # 0 => m_lock = NULL
  /\ reduce' = [reduce EXCEPT ![t] = @ \cup {rank[t]}]
  /\ Goto(t, IF m_work_count <= m_work_thread_count THEN "fan" ELSE "run")
  /\ UNCHANGED <<fields, pool, m_control, m_lock, ending, child, rank, call, result,
                 calls, joined>>

Finished(c) == m_control[c] # 1

AllIn_but_first(t) == m_thread_fan[t] + 1 >= child[t]
AllIn(t) == m_thread_fan[t] >= child[t]

\* Wait for the next child, last to first, and join its reduce value.
FanIn(t) ==
  LET c == child[t] - 1 IN
  /\ pc[t] = "fan"
  /\ ~ AllIn(t)
  /\ Finished(c)
  /\ child' = [child EXCEPT ![t] = c]
  /\ IF m_work_routine # NULL /\ m_reduce_join
     THEN /\ reduce' = [reduce EXCEPT ![t] = @ \cup reduce[c]]
          /\ joined' = [joined EXCEPT ![c] = @ + 1]
     ELSE UNCHANGED <<reduce, joined>>
  /\ UNCHANGED <<fields, pool, m_control, m_lock, pc, ending, rank, call, result,
                 calls>>

-----------------------------------------------------------------------------
(* Workers: local_driver. *)

Deactivate_forgotten(t) == UNCHANGED m_control
Deactivate(t) == m_control' = [m_control EXCEPT ![t] = 0]

\* The subtree of this worker is done: tell the parent.
Done(t) ==
  /\ pc[t] = "fan"
  /\ AllIn(t)
  /\ Deactivate(t)
  /\ Goto(t, IF t \in ending THEN "none" ELSE "spin")
  /\ ending' = ending \ {t}
  /\ ClearLocals(t)
  /\ UNCHANGED <<fields, pool, m_lock, call, result, history>>

Activated(t) ==
  /\ pc[t] = "spin"
  /\ m_control[t] # 0
  /\ Goto(t, "active")
  /\ UNCHANGED <<fields, pool, m_control, m_lock, ending, child, rank, call, result,
                 history>>

\* while ( thread_pool.m_work_routine )
Loop(t) ==
  /\ pc[t] = "active"
  /\ Goto(t, "barrier")
  /\ ending' = IF m_work_routine = NULL THEN ending \cup {t} ELSE ending
  /\ UNCHANGED <<fields, pool, m_control, m_lock, child, rank, call, result,
                 history>>

-----------------------------------------------------------------------------
(* Main: local_start and local_wait. *)

\* The history of the run ends with it.
ClearHistory ==
  /\ calls' = [r \in Ranks |-> 0]
  /\ reduce' = [t \in Thread |-> {}]
  /\ joined' = [t \in Thread |-> 0]

\* The calls that do not end with a local_wait.
Asynchronous == {"TPI_Start", "TPI_Start_reduce", "TPI_Start_threads_reduce",
                 "TPI_Block"}

AfterStart(name) ==
  IF name \in Asynchronous THEN Returns("ok")
  ELSE Goto(Main, "wait") /\ UNCHANGED result

local_start(name, threads, routine, count, join) ==
  /\ m_work_routine' = routine
  /\ m_work_count' = count
  /\ call' = name
  /\ UNCHANGED history
  /\ IF 1 < m_thread_count
     THEN /\ m_reduce_join' = join
          /\ m_work_thread_count' = threads
          /\ m_work_count_claim' = count
          /\ child' = [child EXCEPT ![Main] = m_thread_count]
          /\ Goto(Main, "activate")
          /\ UNCHANGED result
     ELSE /\ AfterStart(name)
          /\ UNCHANGED <<m_reduce_join, m_work_thread_count, m_work_count_claim,
                         child>>

NextToActivate_first_to_last == m_thread_count + 1 - child[Main]
NextToActivate == child[Main] - 1

\* The loop that activates the workers, last to first.
Activate ==
  /\ pc[Main] = "activate"
  /\ IF 1 < child[Main]
     THEN /\ m_control' = [m_control EXCEPT ![NextToActivate] = 1]
          /\ child' = [child EXCEPT ![Main] = @ - 1]
          /\ UNCHANGED <<pc, result>>
     ELSE AfterStart(call) /\ UNCHANGED <<m_control, child>>
  /\ UNCHANGED <<fields, pool, m_lock, ending, rank, call, history>>

\* local_wait: the barrier, or all of the work if there are no workers.
Wait ==
  /\ pc[Main] = "wait"
  /\ Goto(Main, IF 1 < m_thread_count THEN "barrier" ELSE "serial")
  /\ rank' = [rank EXCEPT ![Main] = 0]
  /\ UNCHANGED <<fields, pool, m_control, m_lock, ending, child, call, result, history>>

RunSerial ==
  LET r == rank[Main] IN
  /\ pc[Main] = "serial"
  /\ r < m_work_count
  /\ rank' = [rank EXCEPT ![Main] = r + 1]
  /\ calls' = [calls EXCEPT ![r] = @ + 1]
  /\ reduce' = [reduce EXCEPT ![Main] = @ \cup {r}]
  /\ UNCHANGED <<fields, pool, m_control, m_lock, ending, pc, child, call, result, joined>>

\* The end of local_wait, and of the call that made it.
Reset ==
  /\ \/ pc[Main] = "fan" /\ AllIn(Main) /\ call # "TPI_Init"
     \/ pc[Main] = "serial" /\ rank[Main] >= m_work_count
  /\ m_work_routine' = NULL /\ m_work_count' = 0
  /\ m_work_thread_count' = 0 /\ m_work_count_claim' = 0
  /\ m_reduce_join' = FALSE
  /\ m_thread_count' = IF call = "TPI_Finalize" THEN 0 ELSE m_thread_count
  /\ ClearLocals(Main) /\ ClearHistory
  /\ Returns("ok")
  /\ UNCHANGED <<m_thread_fan, m_control, m_lock, ending, call>>

-----------------------------------------------------------------------------
(* The interface, called by the application. *)

CanStart == pc[Main] = "app" /\ m_work_routine = NULL
AtLeastOne(n) == IF 0 < n THEN n ELSE 1

TPI_Run(count) ==
  /\ CanStart
  /\ local_start("TPI_Run", m_thread_count, "user", count, FALSE)
TPI_Run_threads ==
  /\ CanStart
  /\ local_start("TPI_Run_threads", m_thread_count, "user",
                 AtLeastOne(m_thread_count), FALSE)
TPI_Run_reduce(count) ==
  /\ CanStart /\ count > 0
  /\ local_start("TPI_Run_reduce", m_thread_count, "user", count, TRUE)
TPI_Run_threads_reduce ==
  /\ CanStart
  /\ local_start("TPI_Run_threads_reduce", m_thread_count, "user",
                 AtLeastOne(m_thread_count), TRUE)
TPI_Start(count) ==
  /\ CanStart
  /\ local_start("TPI_Start", m_thread_count - 1, "user", count, FALSE)
TPI_Start_threads ==
  /\ CanStart
  /\ local_start("TPI_Start_threads", m_thread_count - 1, "user",
                 AtLeastOne(m_thread_count - 1), FALSE)
TPI_Start_reduce(count) ==
  /\ CanStart /\ count > 0
  /\ local_start("TPI_Start_reduce", m_thread_count - 1, "user", count, TRUE)
TPI_Start_threads_reduce ==
  /\ CanStart
  /\ local_start("TPI_Start_threads_reduce", m_thread_count - 1, "user",
                 AtLeastOne(m_thread_count - 1), TRUE)

Start ==
  /\ \/ \E count \in WorkCounts : \/ TPI_Run(count) \/ TPI_Run_reduce(count)
                                  \/ TPI_Start(count) \/ TPI_Start_reduce(count)
     \/ TPI_Run_threads \/ TPI_Run_threads_reduce
     \/ TPI_Start_threads \/ TPI_Start_threads_reduce
  /\ UNCHANGED <<pool, m_control, m_lock, ending, rank>>

TPI_Wait ==
  /\ pc[Main] = "app"
  /\ m_work_routine = "user"
  /\ call' = "TPI_Wait"
  /\ Goto(Main, "wait")
  /\ UNCHANGED <<fields, pool, m_control, m_lock, ending, child, rank, result,
                 history>>

\* The mutex is taken before the workers are told to block on it.
TPI_Block ==
  /\ CanStart
  /\ m_lock = NULL
  /\ m_lock' = Main
  /\ local_start("TPI_Block", m_thread_count, "local_block", m_thread_count, FALSE)
  /\ UNCHANGED <<pool, m_control, ending, rank>>

TPI_Unblock ==
  /\ pc[Main] = "app"
  /\ m_work_routine = "local_block"
  /\ m_lock' = NULL
  /\ call' = "TPI_Unblock"
  /\ Goto(Main, "wait")
  /\ UNCHANGED <<fields, pool, m_control, ending, child, rank, result, history>>

TPI_Finalize ==
  /\ CanStart
  /\ local_start("TPI_Finalize", 0, NULL, 0, FALSE)
  /\ UNCHANGED <<pool, m_control, m_lock, ending, rank>>

\* A call that the state of the pool or its arguments forbid, or in which a mutex or
\* the attributes of a thread cannot be had, changes nothing.
Refused ==
  /\ pc[Main] = "app"
  /\ result' \in {"TPI_ERROR_ACTIVE"} \cup
       IF m_work_routine = NULL
       THEN {"TPI_ERROR_NULL", "TPI_ERROR_SIZE", "TPI_ERROR_INTERNAL"} ELSE {}
  /\ UNCHANGED <<fields, pool, m_control, m_lock, pc, ending, child, rank, call,
                 history>>

-----------------------------------------------------------------------------
(* TPI_Init. *)

\* "up <<= 1", k times.
TwoTo[k \in Nat] == IF k = 0 THEN 1 ELSE 2 * TwoTo[k - 1]

\* Thread l[1] of n has a child for the power of two l[2]: the powers above its rank
\* that lead to another thread.
Links(n) ==
  {l \in (0 .. n) \X (0 .. n) : TwoTo[l[2]] > l[1] /\ l[1] + TwoTo[l[2]] < n}

\* The children are numbered consecutively, those of thread 0 first.
FirstChild(t, n) == 1 + Cardinality({l \in Links(n) : l[1] < t})
FanOf(n) ==
  [t \in 0 .. MaxThreads |-> IF t <= n THEN FirstChild(t, n) ELSE m_thread_fan[t]]

\* The application does not call TPI_Init between a TPI_Start and its TPI_Wait.
TPI_Init(n) ==
  /\ CanStart
  /\ m_thread_count = 0
  /\ m_thread_fan' = FanOf(n)
  /\ m_control' = [t \in Thread |-> IF t <= n THEN 1 ELSE m_control[t]]
  /\ m_thread_count' = n
  /\ child' = [child EXCEPT ![Main] = n]
  /\ call' = "TPI_Init"
  /\ Goto(Main, "create")
  /\ UNCHANGED <<fields, m_lock, ending, rank, result, history>>

\* pthread_create of the next thread, last to first.
Create ==
  LET t == child[Main] - 1 IN
  /\ pc[Main] = "create"
  /\ 1 < child[Main]
  /\ child' = [child EXCEPT ![Main] = t]
  /\ pc' = [pc EXCEPT ![t] = "barrier"]
  /\ UNCHANGED <<fields, pool, m_control, m_lock, ending, rank, call, result,
                 history>>

CreateFails ==
  LET t == child[Main] - 1 IN
  /\ pc[Main] = "create"
  /\ 1 < child[Main]
  /\ child' = [child EXCEPT ![Main] = t]
  /\ m_control' = [m_control EXCEPT ![t] = 0]
  /\ Goto(Main, "undo")
  /\ UNCHANGED <<fields, pool, m_lock, ending, rank, call, result, history>>

\* The start up barrier of main, and the return of TPI_Init.
Created ==
  /\ pc[Main] = "create"
  /\ child[Main] <= 1
  /\ Goto(Main, "barrier")
  /\ UNCHANGED <<fields, pool, m_control, m_lock, ending, child, rank, call,
                 result, history>>

Started ==
  /\ pc[Main] = "fan" /\ AllIn(Main) /\ call = "TPI_Init"
  /\ Returns("ok") /\ ClearLocals(Main)
  /\ UNCHANGED <<fields, pool, m_control, m_lock, ending, call, history>>

ToUndo_but_first == child[Main] < m_thread_count - 2
ToUndo == child[Main] < m_thread_count - 1

\* A thread could not be created: end those that were, last to first.
Undo ==
  /\ pc[Main] = "undo"
  /\ IF ToUndo
     THEN /\ m_thread_count' = m_thread_count - 1
          /\ Goto(Main, "undo_activate")
          /\ UNCHANGED result
     ELSE m_thread_count' = 0 /\ Returns("TPI_ERROR_INTERNAL")
  /\ UNCHANGED <<fields, m_thread_fan, m_control, m_lock, ending, child, rank,
                 call, history>>

UndoActivate ==
  /\ pc[Main] = "undo_activate"
  /\ m_control[m_thread_count] # 1
  /\ m_control' = [m_control EXCEPT ![m_thread_count] = 1]
  /\ Goto(Main, "undo_wait")
  /\ UNCHANGED <<fields, pool, m_lock, ending, child, rank, call, result, history>>

UndoWait ==
  /\ pc[Main] = "undo_wait"
  /\ m_control[m_thread_count] # 1
  /\ Goto(Main, "undo")
  /\ UNCHANGED <<fields, pool, m_control, m_lock, ending, child, rank, call,
                 result, history>>

-----------------------------------------------------------------------------
App ==
  \/ Start \/ TPI_Wait \/ TPI_Block \/ TPI_Unblock \/ TPI_Finalize \/ Refused
  \/ \E n \in 1 .. MaxThreads : TPI_Init(n)

Step(t) ==
  \/ Barrier(t) \/ RunRanked(t) \/ RunClaimed(t) \/ EndWork(t) \/ FanIn(t)
  \/ t # Main /\ (Done(t) \/ Activated(t) \/ Loop(t))
  \/ t = Main /\ \/ Activate \/ Wait \/ RunSerial \/ Reset
                 \/ Create \/ CreateFails \/ Created \/ Started
                 \/ Undo \/ UndoActivate \/ UndoWait

Next == App \/ \E t \in Thread : Step(t)

Spec == Init /\ [][Next]_vars

\* The scheduler runs every thread and every subprogram returns; nothing makes
\* the application call the pool again.
FairSpec == Spec /\ \A t \in Thread : WF_vars(Step(t))

-----------------------------------------------------------------------------
(* Properties. *)

\* Every variable keeps its type.
TypeOK ==
  /\ m_thread_count \in 0 .. MaxThreads
  /\ m_work_routine \in {NULL, "user", "local_block"}
  /\ m_work_count \in 0 .. MaxWork
  /\ m_work_thread_count \in -1 .. MaxThreads
  /\ m_work_count_claim \in -MaxThreads .. MaxWork
  /\ m_reduce_join \in BOOLEAN
  /\ m_control \in [Thread -> {0, 1}]
  /\ m_thread_fan \in [0 .. MaxThreads -> 0 .. MaxThreads]
  /\ m_lock \in Thread \cup {NULL}
  /\ pc \in [Thread -> {"none", "app", "barrier", "run", "work", "fan", "spin",
                        "active", "activate", "wait", "serial", "create", "undo",
                        "undo_activate", "undo_wait"}]
  /\ ending \in SUBSET Worker
  /\ child \in [Thread -> 0 .. MaxThreads]
  /\ rank \in [Thread -> 0 .. MaxWork]
  /\ calls \in [Ranks -> Nat]
  /\ reduce \in [Thread -> SUBSET Ranks]
  /\ joined \in [Thread -> Nat]

\* local_wait is about to return to the application.
RunOver == m_work_routine = "user" /\
           \/ pc[Main] = "fan" /\ AllIn(Main)
           \/ pc[Main] = "serial" /\ rank[Main] >= m_work_count

\* "Every initialized reduce value will appear exactly once as the 'reduce'
\* argument of a call to the join function" (TPI.h:104-105), and at the end the
\* contributions of all ranks are in the value of the root.  A worker whose value a
\* parent has joined is parked: it is neither initializing that value, nor working
\* on, nor joining into it (TPI.h:123-126).
ReduceOnce ==
  /\ \A t \in Worker : joined[t] > 0 => pc[t] = "spin" /\ m_control[t] = 0
  /\ RunOver /\ m_reduce_join =>
       /\ \A t \in Workers : joined[t] = 1
       /\ reduce[Main] = 0 .. m_work_count - 1

\* The fields of the work are written only when every worker is parked, so that
\* no worker runs one call with the fields of another (TPI.c:405-418, 440-461).
FieldsStable ==
  [][m_work_routine' # m_work_routine \/ m_work_count' # m_work_count
       \/ m_work_thread_count' # m_work_thread_count
       \/ m_reduce_join' # m_reduce_join
     => \A t \in Worker : pc[t] = "none" \/ (pc[t] = "spin" /\ m_control[t] = 0)
    ]_vars

\* Between the calls of the application the pool is in one of its four states
\* (TPI.h:31-35): without threads if uninitialized, even after a TPI_Init that
\* failed half way; with every thread spinning and deactivated if ready.
PoolStates ==
  pc[Main] = "app" =>
    /\ \A t \in Worker \ Workers : pc[t] = "none"
    /\ m_work_routine = NULL =>
         \A t \in Workers : pc[t] = "spin" /\ m_control[t] = 0
    /\ m_lock = Main <=> m_work_routine = "local_block"

\* Every call of the interface returns to the application.
CallsReturn == (pc[Main] # "app") ~> (pc[Main] = "app")

\* "Blocked: extra threads blocked" (TPI.h:35): once TPI_Block has returned, no
\* worker comes out of local_block before TPI_Unblock.
BlockedStayBlocked ==
  pc[Main] = "app" /\ m_work_routine = "local_block" =>
    \A t \in Workers : m_control[t] = 1

\* The pool that the application sees: it is up from the return of TPI_Init to
\* the end of TPI_Finalize, and a rank is done when the subprogram is called, in
\* which the calls are those that the history counts.
TP == INSTANCE TaskPool
        WITH Routine <- {"user", "local_block"}, None <- NULL,
             up <- m_thread_count # 0 /\ (call = "TPI_Init" => pc[Main] = "app"),
             active <- m_work_routine,
             work <- {r \in Ranks : r < m_work_count}

\* The pool implements the abstract one, whatever the number of its threads: no rank
\* is left out, none is run twice, and no call or wait returns before all are run
\* (TPI.c:240-255, 434-463).
ImplementsTaskPool == TP!Spec
=============================================================================
