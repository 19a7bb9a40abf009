# A TLA+ verification of hpctoolkit-tests

The repository collects unit tests, stress tests and small applications for HPCToolkit and
the tools below it. Most of its 1099 files are bundled solvers (AMG, miniFE, nekbone,
lulesh), build machinery, or loops that exist to be profiled. What it has of coordination
logic is concurrent and distributed: a malloc stress test with a shared work list, a thread
pool, a profiler that runs in a signal handler, tests of locks, a work queue with a
hand-made barrier, an exchange over MPI with distributed termination and, on top of that,
distributed matrices that are put together and multiplied; and one sizeable sequential
algorithm, the gap search over address ranges. This project models those.

- [1. Inventory](#1-inventory)
- [2. Modules and how they correspond to the code](#2-modules-and-how-they-correspond-to-the-code)
- [3. Runs, bounds, fairness](#3-runs-bounds-fairness)
- [4. Where the code and its documentation disagree](#4-where-the-code-and-its-documentation-disagree)
- [5. Proofs](#5-proofs)
- [6. What is not modelled](#6-what-is-not-modelled)
- [7. Plan](#7-plan)

## 1. Inventory

| component | state | operations | what is hard | what makes it correct |
|---|---|---|---|---|
| `stress/memstress/memstress.c` | linked list, blocks, one mutex, two counters | `do_malloc` (malloc, fill, lock, delete, insert, unlock, verify, free), loops of `memstress`, `main` | interleaving, recycled blocks, exit while threads run, failure of malloc and `pthread_create` | each entry has one owner; the list is a FIFO; entries are never corrupt; it ends |
| TPI thread pool, miniFE's `TPI.c` | `thread_pool` fields, a control word and a fan-in range for each thread, a mutex | `TPI_Init`, `TPI_Finalize`, `TPI_Run*`, `TPI_Start*`, `TPI_Wait`, `TPI_Block`, `TPI_Unblock`, locks, reductions | spinning on plain fields, a claimed counter, a tree of joins, a half-failed start-up | every rank once, every reduce value once, fields stable, calls return |
| `dyninst/find-gaps.cpp` | map of address ranges, maps of symbols and functions, vector of gaps | `addRange`, `findNextGap`, `findGaps`, `printGaps` | long sequences of splits and merges, boundaries | coverage exact, gaps sound and complete |
| `cplus/` profiler | sample list, counter, timer, call stack of init, application and fini | init and fini callbacks, handler, `addSample`, `reduceSampleList` | a signal at any instruction, malloc under malloc, a late signal | no re-entry, the list keeps its ends and order and is bounded, the application ends |
| `prof-lean/locks` tests | shared sum, `finished`, a barrier, results for each thread | thread functions under each lock, `addtest`, `compute` | the barrier is used again by the next test, a thread that waits for the lock when the test ends | nobody sees an odd sum; totals add up; tests start together and end |
| AMG2013 `utilities/threading.c`, `hypre_memory.c` | ring of items, counters, a mutex and two conditions, a barrier of two counters, a shared pointer | `hypre_work_put`, `hypre_work_wait`, workers, `hypre_barrier`, `hypre_SharedMAlloc`, create and destroy | a barrier used again at once, a stale shared pointer, a worker that stops between two rounds | workers stay in step; a wait means done; wait and destroy return |
| AMG2013 `utilities/exchange_data.c` | MPI requests, a binary tree of processes | contacts, responses, second parts of long responses, termination sweep | reordering between calls, early or late termination | every contact is answered once, in the call it was made in; all return |
| AMG2013 `parcsr_mv` | assumed partition, communication package, vectors under way | `hypre_LocateAssummedPartition`, `hypre_NewCommPkgCreate`, `hypre_ParCSRMatrixMatvec`, `MatvecT` | who owns what is found out by messages, with no barrier between two matrices and the same tags | the package is the standard one, the products those of the whole matrix |
| AMG2013 `IJ_mv` | rows, an auxiliary matrix, values put aside for others | `Create`, `Initialize`, `SetValues`, `AddToValues`, `Assemble` | values of several processes in any order, several assemblies | each value reaches the owner's row as what it was |
| `stress/dlstress`, `unit-test/cpp_threads`, `catchthrow`, OpenMP and OMPT tests, loop suite | nothing shared of their own | run and be observed | — | — |
| `cskiplist/tangle` | a skip list of another repository | parallel insertion | needs that code | — |
| vdso, load-map and Dyninst printing tools, test script | none | print what they are told | — | — |
| solvers and kernels | vectors | straight-line numerics | — | — |

Memstress' threads meet at its list, the pool's threads and the application at `thread_pool`,
the profiler and the application at the lock of malloc and on the stack of one thread. The
components of AMG2013 are layers of one program: the matrix assembly and the communication
package both call the exchange, twice each, and both look up owners in the assumed
partition. The modules are put together the same way (section 2).

The hazards of each, with their lines, are in `PROJECT.json` ("hazards"), next to the
properties that would catch them going wrong.

## 2. Modules and how they correspond to the code

Definitions bear the names of the source where they can. An operator `x_something` before an
operator `x` is a deliberate slip in `x`, used only to see that a property notices it
(`PROJECT.json`, "mutants"). Modules `MC...` only choose instances.

    memstress      MemStress ---- implements ---> WorkList       MemStressProof
    thread pool    ThreadPool --- implements ---> TaskPool       ThreadPoolProof
    find-gaps      FindGaps ----- uses ---------> RangeSet       FindGapsProof
    profiler       TraceProfiler                                 TraceProfilerProof
    lock tests     LockTest                                      LockTestProof
    work queue     WorkQueue                                     WorkQueueProof
    AMG2013        DataExchange - implements ---> Exchange       DataExchangeProof
                   ParMatvec ---- composed of --> Exchange, CommPkg, AssumedPartition
                                                                 ParMatvecProof
                   IJMatrix ----- composed of --> Exchange, CommPkg, AssumedPartition

### MemStress, WorkList

`MemStress` has one action for each step of `do_malloc` that another thread can come between:
`Malloc`, `Fill` (a cell at a time), `Lock`, `Delete`, `Insert`, `Unlock`, `Verify` (a cell
at a time), `FreeEntry`, `FreeInfo`; `Clock` is the time check that ends a batch; `Create`
and `Join` are `main`'s loops; `MallocFails`, `CreateFails` and a failing verification end
the process as `err` and `errx` do. A thread begins as many batches as it likes before the
time is up: the counters, which the program only prints, stop at `MaxCount`, so another batch
is a cycle of states. Delete and insert are separate actions although a mutex covers them:
that they look like one is what is to be shown. `Malloc` may return any free block with
whatever content it has. `fifo` is a history variable. `WorkingSet` bounds the blocks in use
at every moment by the seeds and one pair for each thread at an exchange.

`WorkList` is what the list promises: a queue with an atomic `Add`, an atomic `Exchange`
(take the head, add an entry) and a `Discard`. `ImplementsWorkList` maps its queue to the
entries that are *reached through the pointers*, not to the history; while a thread stands
between delete and insert, the entry it took still counts as the head.

### ThreadPool, TaskPool

`ThreadPool` models `TPI.c` as built with pthreads. Thread 0 is main and runs both the
application (the actions under "The interface": any call, in any order, with any work count
of `WorkCounts`) and its own share of the work. A thread's place is `pc`; a barrier is
`Barrier`, then `RunRanked` or `RunClaimed` with `EndWork`, then `FanIn` for each child from
the last to the first, then `Done` (a worker) or `Reset` (main). `m_thread_fan` is computed
as `TPI_Init` computes it, including the element of index n. `CreateFails` and the `Undo`
steps are the failure path. The calls that are refused, or for which a mutex or the
attributes of a thread cannot be had, are in `Refused`. `calls`, `reduce` and `joined` are
histories of one run, cleared at its end.

Two things the application is taken to respect: it is one thread, and it does not call
`TPI_Init` between a `TPI_Start` and its `TPI_Wait`. Memory is sequentially consistent.

`TaskPool` is the pool as seen from outside, without threads: one subprogram at a time, a set
of ranks that it is for, a call of a rank only if there was none before, and an end only when
each has had its one call. Its `calls` are those that `ThreadPool` counts, so a second call of
a rank is a step that it does not allow. `ImplementsTaskPool` is checked for every pool size
up to the bound, serial pools included; that the claim of a rank is one atomic decrement is
what it rests on, and a decrement that another thread may undo breaks it.

### RangeSet, FindGaps

`RangeSet` has the two algorithms as operators over a set of records: `addRange` says what
becomes of the range to the left, of those inside and of the one to the right; `findNextGap`
walks adjacent ranges by the predicate that ends the walk. Iterators become `FirstOf` and
`LastOf`; `LeftEdge` keeps the quirk of an iterator that cannot go left of `begin()`.
`FindGaps` is the program around them: symbols, functions and blocks are chosen as they are
read (any block may belong to any function, and functions may share code), then every range
is merged in the order of the code, every symbol is searched, the gaps are sorted
(`std::sort`, external: any sorted permutation) and reported.

### TraceProfiler

One thread, two contexts: `main` (the init callback, the application, the fini callback) and
`handler`, which runs on top of main wherever main is and to its end. `addSample` and
`reduceSampleList` are one set of actions with locals for each context. The timer goes off
every `Period` ticks and leaves at most one signal pending, delivered at any later moment but
before the system call that disarms the timer returns. `shared_malloc` says whether the
handler has the application's allocator, as the Makefile builds it, or one of its own, as
`cplus/README` asks for; with a shared one `Hung` is the state that the README warns of.

### LockTest

Both programs, one test after the other with the same barrier. `EnterBarrier` and
`LeaveBarrier` are `pthread_barrier_wait`; `Loop` to `Unlock` the loop of a thread, `Return`
its results; `Create`, `MainBarrier`, `MainFinish`, `Join`, `NextTest` and `MainExit` are
`addtest` and the calls of it. `++total_sum` of a volatile is a load and a store, twice. The
locks are external: they exclude, readers share, and who waits may be passed over.

### WorkQueue

`Wait`, `Take` and `EndLocked` are what a worker does under the queue's lock; `CallItem`,
`ReadPtr`, `CallAgain` and `ReturnItem` an item that calls `hypre_SharedMAlloc` `Allocs`
times; `Enter` to `SpinClear` the barrier, one action for each access to its two counters,
which the worker loop and the allocation share. `hypre_work_put`, `WaitForFinish`,
`CallDestroy`, `PutStop` and `Join` are main. Condition variables may wake by themselves.
The assertion on a full queue only reports, so a put overwrites (`error`).

### DataExchange, Exchange

`DataExchange` is `hypre_DataExchangeList`: `Begin` up to the loop, `FillResponse` a probe
that finds a contact, `ResponsesComplete`, `ChildrenComplete`, `ReceiveFromParent` and
`Terminate` the branches of the loop, `PostProcess` the second parts. A message takes as long
as it likes: a probe or test may miss one, and those of different senders overtake each
other. Calls follow each other without a barrier. `PowersOfTwo` are the values of the loop variable
that is doubled, the least set that has 1 and is closed under doubling.

`Exchange` is the exchange with no messages: processes enter with a list of contacts, open
contacts are answered, and nobody leaves before all have entered and no contact is open.
`ImplementsExchange` shows that the sweep over the tree never lets anybody go early. A process
leaves when it stops probing, before it collects the second parts of its responses (`Gone`).

### AssumedPartition, CommPkg, ParMatvec

`AssumedPartition` has the two functions that must be inverse to each other. `CommPkg` has
the local steps as operators (`LocateRowCount`, `RangeContactList`, `RangeResponse`,
`RecvProcs`, `SendProcs`) and, for comparison, the standard package, which gathers from all.
`ParMatvec` puts them together for a sequence of matrices: `Locate`, `LocateRows` and
`Located` create the assumed partition by messages (the sort, of which the code asks nothing
but the order, may be any), two exchanges (an INSTANCE of `Exchange`) the package,
`StartProduct` and `FinishProduct` are the communication handle around the local products,
`Destroy` ends with a matrix. A value is the term it stands for, so that a product is a bag of
terms: one counted twice or taken from another product shows.

### IJMatrix

`Initialize`, `SetOrAddValues` and the steps of `Assemble` of a ParCSR matrix: the
`MPI_Allreduce` of how much is put aside, an exchange with those assumed for the rows, an
exchange with their owners, `Unpack`. A call is one row of a call in the code. `Aside` codes
an addition by a negative row number as the code does. `Modify` is called by the user and by
`Unpack`; before the first assembly it appends to a row, after it it changes what is there.
`Assembled` destroys the auxiliary matrix the first time only.

The owners of rows are those of columns: the assembly asks the partition of the columns
(`IJMatrix_parcsr.c:2296`), and `HYPRE_IJMatrixCreate` of a matrix whose rows are distributed
otherwise would look up the wrong process; such matrices are left out.

## 3. Runs, bounds, fairness

| run | question | instance | why it is enough |
|---|---|---|---|
| `memstress` | ownership, memory in use, abstract queue, clean end, it ends | 2 threads, 1 seed, batches of 1, 2 cells, 4+4 blocks, first fit | a block that is freed comes back at once; the list passes through lengths 0, 1 and 2 and all steps interleave; batches repeat without bound, and a batch of more differs only in that the clock is not looked at between its exchanges; 4 blocks are the two seeds and one in flight for each thread, and malloc may fail at any time |
| `pool` | ranks and reductions once, stable fields, abstract pool, every call returns | up to 4 threads, work counts 0 and 3 | 4 is the least number with a tree of depth two; 3 ranks are claimed by pools of 2 and of 3 with `TPI_Start`, are one each on 3, and leave a thread of 4 without work |
| `pool_block` | section 4 | up to 3 threads | |
| `find_gaps` | ranges, gaps, what is printed, end | addresses 0 to 4, up to 2 symbols, 4 symbols and blocks in all, 2 functions | up to three blocks give a left, an inner and a right neighbour at once; symbols that overlap, are empty or start together |
| `find_gaps_every_gap` | section 4 | 1 symbol, 1 block | |
| `trace` | the list under interruption, both allocators, the application ends | MIN 2, MAX 4, period 2, 12 ticks | several reductions, with signals in the application, in its malloc, during the disarming, and pending while the handler runs |
| `locks` | what the tests test, and that they end | 2 readers and a writer, or 3 adders; 1 operation each; 2 tests | readers together, reader and writer, and in `lock-test` writers against each other; the second test uses the barrier again |
| `work_queue` | workers in step, wait, destroy | 3 workers, ring of 3, 4 items, 2 allocations each | one round and one item more; the ring wraps and can overflow; two calls of the barrier directly after each other |
| `exchange` | answers, nothing left behind, abstract exchange | 4 processes, 2 calls, contacts that repeat or go to oneself, long responses | 4 is the least with a tree of depth two; a process may be in the second call while others are in the first |
| `par_matvec` | partition, package, products | 3 processes, 7 rows, 5 pairs of matrices with uneven and empty parts, both products with each | rows per process 3, 2, 2; a part that covers the ranges of two others; ranges cut in three; fully, banded and arrow-shaped matrices |
| `ij_matrix` | what an element is after each assembly, assemblies return | 3 processes, 5 rows, 5 partitions, 3 programs with 2 or 3 assemblies | all add to one row that others set; an element twice in one call; an assembly with nothing new |
| `ij_matrix_thrice` | section 4 | adds only, 3 assemblies | |

Bounds that are not in the code: `MaxCount` (how far `num_malloc` and `num_free` are counted; no
step depends on them), and in guards `MaxThreads` (256 in the code), `MaxSymbols`, `MaxInput`,
`MaxTime`, `MaxOps`, `MaxItems`, `MaxAssemblies`, `MaxContacts`. `FirstFit` in `MCMemStress` is an
action constraint: blocks of a kind are alike, so malloc takes the first free pair of an entry and an info;
symmetry does not go together with liveness.

Fairness.

- `MemStress`: weak fairness of each thread and of the clock. A mutex is only weakly fair, so
  a thread may be passed over for as many batches of another as fit into the time. That is
  enough since each thread stops asking for the mutex once the time is up: the run
  has the behaviours in which one goes on without end before that, and finds the slip of a
  side thread that overlooks the time.
- `ThreadPool`: weak fairness of each thread's own steps, among them the return of the
  subprogram; none for the application, which may never call again.
- `FindGaps`: the program goes on; reading ends.
- `TraceProfiler`: the process runs; the application is strongly fair in returning from its
  main, since it is interrupted, and goes into malloc, again and again.
- `LockTest`: weak fairness of main and of each thread. A lock that is free goes to somebody
  who waits, and need not go to everybody: the bound on operations, `finished` in the code,
  lets all end.
- `WorkQueue`: weak fairness of each worker and of main in the library. Deadlock is not
  checked, since the library does stop if it is used in ways that the code does not forbid:
  items that do not go round leave workers in the barrier, and `HYPRE_DestroyPthreads`
  without a wait may leave the lock with a worker that ended. `LibraryReturns` says when it
  does return.
- `DataExchange`: weak fairness of each process. It polls, so a message that is there is
  found. `ParMatvec`: the same, but MPI owes the end of a wait for *sends* only when all
  their receives are posted. `IJMatrix`: the same, and `MPI_Allreduce` returns when all have
  called it.

No run assumes that a wait ends. `trace` states one limit, `CoarseEnough`, under which
`MakesRoom` says that a reduction leaves a list that is not too long: `(MAX_SAMPLES - 1) *
period >= MIN_SAMPLES^2` microseconds, since below that the integer division of the elapsed
time leaves too small a spacing, and `MAX_SAMPLES > MIN_SAMPLES + 1`, since the last sample is
kept however near it is. The proof asked for the second: with lengths 2 and 3 and a period of
2, samples at 0, 2, 4 and 4 are all kept. The values of the code (30, 50, 2000) meet both by far;
a `PERIOD` of a few microseconds would not.

## 4. Where the code and its documentation disagree

Each of the three has a run with a counterexample.

- **`TPI_Block` leaves a worker spinning** (`pool_block`). `local_block` excuses rank 0, but
  `local_run` numbers ranks from the last thread, so rank 0 is a worker and main has the
  highest. `TPI.h:35` says "Blocked: extra threads blocked".
- **A gap below the lowest range is missed** (`find_gaps_every_gap`): `findNextGap` takes the
  first range of the set for the one that contains `start`. `find-gaps.cpp:451` says "Find
  the first gap in [start, end) that is not contained in rset". `GapsExact` shows that this is
  the only case.
- **A third assembly adds again** (`ij_matrix_thrice`): an assembly destroys what was put aside
  for other processes only when it is the first of the matrix
  (`IJMatrix_parcsr.c:1739, 1899`), so what was put aside before the second is sent again in
  the third, and an addition counts twice. `HYPRE_IJ_mv.h:121` says "Adds to any previous
  values at the specified locations".

Seen while modelling, in the models as the code has it, and without a run of its own:

- `TPI_Start_threads` waits (`TPI.c:900`) where `TPI.h:191` says "returns immediately", and
  started work also runs on main in `TPI_Wait` (`TPI.c:438`) where `TPI.h:161` says "on all
  but the 'main' calling thread".
- `addRange` alone does not always "compact adjacent ranges" (`find-gaps.cpp:214`): [0,2) of
  f, [2,3) of g, then [2,5) of f leaves two adjacent ranges of f. In the program ranges come
  function by function, and `RangesExact` holds.
- `hypre_work_wait` is to "Wait until all work is done" (`threading.c:212`); if the number of
  items is no multiple of the number of threads it waits for ever, as workers that got no
  item are missing from the barrier.
- `exchange_data.c:331`: with one process and no contacts `terminate` is read before it is
  set. `exchange_data.c:408` appends the size of a response, an `int`, with a copy of
  `response_obj_size` bytes: past its end if an object is larger, part of it if one is smaller.
  The comments of lines 455 and 474 call a receive posted that may not be.
- `rwlock-test.c:176-191` computes the statistics of the writers from the results of the
  readers.
- `exchange_data.c:134` wants two consecutive exchanges to differ in `rnum`, which is the
  assumption `RnumsAlternate`. `par_relax.c:3069` and `:3070` call one after the other
  `ParCSRMatrixToCSRMatrixAll` and `ParVectorToVectorAll`, both with an exchange of `rnum` 1
  (`par_csr_matrix.c:1681`, `par_vector.c:556`). There only process 0 is contacted, and
  whoever has rows and contacts it waits in between for a message that process 0 sends after
  the first exchange, so no contact comes early.
- Assembly: a process that does not call Initialize before it assembles again, with nothing put
  aside, skips an `MPI_Allreduce` that others may wait in. A column named twice in the first
  values of a row is stored twice, and a later set changes only the first. Of a row without an
  element in the diagonal block, `IJMatrix_parcsr.c:751` and `:1300` look at the first one of the
  next row and change that if it has the column; the model has the error only. A missing element
  after a found one of the diagonal block is passed over silently, as `not_found` is not set
  again. Line 2426 reads `row_list[j]` before it tests `j < num_rows`.

## 5. Proofs

All are for every value of the constants, from the named assumptions of the modules, which
TLC evaluates in the runs. Every leaf is checked by `tlapm`.

**`MemStressProof`**, for any number of threads, seeds, cells and blocks.
`TypeCorrect`: `Spec => []TypeOK`. Types rest on `Hooked`: an entry that is in the list or in
a thread's hands has its info, so no thread follows NULL. `Mutex`, the lemma
of the rest: `Spec => []MutualExclusion`, that one thread at a time is in the list, and it has
the mutex; inductive once threads that main has not created yet are known to be `Unborn`.

`OneOwnerEach`: `Spec => []SingleOwner`. The invariant `OwnerInv` has
three parts: `ListShape`, that the pointers spell out the history `fifo`; `NoOldYet`, where
a thread has no old entry; `OneOwner`, the property element by element. `DeleteStep` and
`InsertStep` are the heart: delete takes `fifo[1]` because `ListShape` says that the head is
that, and it is nobody else's because the queue has no repetition.
`CleanlyExits`: `Spec => []CleanExit`. `InfoInv` gives every info block one owner as well: the
thread that fills it, the entry once that is `Made`, the thread that frees it. The block of
an entry that is made is `Alike` in all its cells, and nobody but its owner writes, so
verification finds what it compares with. `ExitInv` counts: with `Seeds`, the pairs of a
thread and the number of a seed that it has put in, the list is as long as `Seeds` has
members, less one while somebody is `Between` delete and insert; with the mutex that is
at most one thread. Hence a thread that deletes never finds the list empty
(`ListNotEmpty`): its own seeds, or others in their place, are there. `Joins` says which
threads have ended when main joins, and at the exit all have. `WorkingSetBounded`:
`Spec => []WorkingSet`. The same count, in every state: the seeds being made (`Seeders`) are
none of `Seeds` (`SeedersFit`), a thread between delete and insert has an entry more and the
list one less, and every other block is of a thread in flight.

**`TraceProfilerProof`**, for any period, list lengths and time. `NeverReentered`:
`Spec => []NoReentry`, and `TotalIsTrue`: `Spec => []TotalTrue`. Both follow from
`ProfilerInv`: while the profiler's own code runs in the main flow the timer is stopped
(`expires = 0`, which no tick reaches), no signal is pending and no handler runs.
`TypeCorrect`, `ListSpansTheRun` and `ReductionMakesRoom`: `Spec` implies that `TypeOK`,
`SpansTheRun` and `MakesRoom` always hold. Their invariant is `SampleInv`. `Ordered`, `Spans`
and `InTime` describe the list between any two steps of `addSample`, when the last sample may
be counted but not yet in it. `Thinned` holds in the middle of a reduction: the two positions
are next to each other, what was kept is `delta` apart, so from there back to the start there
are that many `delta`s, while the whole list is hardly longer than `MinSamples` of them. That
`delta` is then at least `MinSamples` for a list that is too long needs `Paced`: a sample in
the handler takes a period of the timer, a pending signal being one that is to come. So a list
still too long at the end of a reduction would span more than the time that has passed.

**`LockTestProof`**, for any number of readers, writers and operations. `NobodyStartsEarly`:
`Spec => []StartTogether`; the invariant `StartInv` follows the barrier through its two uses:
while main waits at it everybody else waits or is on the way, and when it opens it is empty.
`NobodySeesOdd`: `Spec => []NoOdds`; the invariant `LockInv` says who holds the lock, that a
writer is alone with it, and that the sum is odd exactly while somebody is halfway. It needs
`StartInv` at the step to the next test, where all threads have ended. `TotalIsTrue`:
`Spec => []TotalIsSum`; by `CountInv` the shared sum is at any time of a test what the writers
have counted and added (`AddedByAll`), and a step changes the part of one thread (`AddedByOne`).
That sum is the library's, a recursive function over the subsets of a set: `SumExists` shows
that its equation has a solution, and `SumMore` and `SumDouble` are by a least subset for which
they are wrong (`LeastSubset`), which takes the place of induction.

**`WorkQueueProof`**, for any number of workers, items, allocations and places in the queue.
`TypeCorrect`: `Spec => []TypeOK`; `KeepsRounds`: `Spec => []InRounds`; `WaitIsDone`:
`Spec => WaitMeansDone`. `StateInv` is about the machinery. `CountInv`: each counter is the
number of workers at the places it counts. `BarrierInv`: at most one worker leads, and then
all others are in the barrier behind it; `thb_release` is set exactly from its release on.
`QueueInv`: as long as the queue did not overflow, the ring holds the items from the first not
taken to the last put. This makes the types inductive, also after an overflow. `RoundInv` is
about the work. There is a number of whole rounds (`RoundAt`) such that each worker that is
`Busy` has an item of the round after them, and another one than the others; all have
`Passed` as many barriers in it (`InStep`), and nobody has passed one while somebody has no
item yet. So when the leader opens the barrier all workers are busy, and either all go on or
all end their items (`MeetAlike`); in the latter case the items are a whole round of them, by
counting (`WholeRoundDone`). A worker that copies the pointer has passed an odd number of
barriers, so worker 0 has asked for this block and not for the next (`AskedAlike`). Main stops
the workers only after a multiple of their number of items (`CallDestroy`), without which
`WholeRound` fails and an item may meet a stop in the barrier.

**`ThreadPoolProof`**, for any bound on the threads, any pool up to it and any finite set of
work counts. `TypeCorrect`, `PoolInFourStates` and `ReducedOnce`: `Spec` implies that `TypeOK`,
`PoolStates` and `ReduceOnce` always hold; `FieldsAreStable`: `Spec => FieldsStable`;
`PoolIsImplemented`: `Spec => ImplementsTaskPool`, the refinement. The invariant `Base` starts
from the tree: `ChildrenNumbered` shows that the numbers of `TPI_Init` give every worker one
parent, with a lower number (each rank without its highest bit), and that the children of a
thread follow those of the one before it, which is `TreeShape`. `WorkersOK` says for each worker
what it may be doing given what main does: whether main has activated it (`On`), is starting,
ending or undoing the pool. `FanOK` says that a thread in its fan-in is past exactly the
children that have deactivated themselves, and one that has deactivated itself is past all of
its own. So when main has joined its children all workers are deactivated (`AllDone`): the least
one that is not would have a parent that is. `RankInv` knows which ranks have been called, from
the claims or from who is past its work; at the end everybody is, so all have been
(`AllCalled`), which the refinement needs where a call returns. `CallsInv` is the other half: no
rank is called twice, since one that is still to come (`Unrun`) was not called. Which those are
depends on how ranks are given out: those from the counter up where they are claimed, which is
where the decrement must be atomic; the ranks of the members that have not `RanThrough` where
each has its own; those from main's `rank` up in a serial pool. `UnrunKept` and `MainCalls` show
that no step makes a rank one to come, and `ThreadCalls` that the one that is called was to
come. `ReduceInv` adds the values: a child is joined once exactly when its parent `HasJoined`
it, and from then on its value is part of the parent's, because a thread that has deactivated
itself does not touch its value again (`JoinedDone`, `FanInReduces`). A rank that was claimed is
in some value or about to be (`AllKept`), and by the tree every value ends up in that of the
root (`AllGathered`).

**`ParMatvecProof`**, for any number of processes and rows, fewer rows than processes
included, and any sequence of matrices. The functions of `AssumedPartition` alone: `Tiling`,
the assumed ranges follow each other without gap or overlap; `InverseOfEachOther`, the process
computed for a row is the one whose range holds it, as the comments at
`par_csr_assumed_part.c:425` and `:468` claim. From `Division`, what `\div` and `%` give, the
rest is linear arithmetic with products taken apart by hand.

`PartitionIsTrue`: `Spec => []PartitionTrue`. Of the local steps, `TellsRight` shows that a
process tells each other one exactly the overlap of what it has and what that one is assumed
for (`Lo`, `Hi`), in at most one message, although the contacts are computed range by range and
owner by owner; `CountRight` and `AllTold`, that `locate_row_count` rows are found only when
all who overlap have told; `SortedRight`, that the pieces then lie next to each other once
they are sorted, whatever the sort does with them otherwise. The rest is about which messages
are there. `ExchangeInv` counts the exchanges that a process has entered and left by its round
and its place, and nobody has left more than another has entered. So nobody is in a later round
than a process that still locates its rows (`NobodyAhead`), and nobody locates rows of a round
that somebody is through with (`NobodyBehind`); the two exchanges of the package are what keeps
the matrices apart, as no barrier does. With that, `MailInv` says exactly what is under way
from `q` to `p`: the message of `q`'s round, unless `q` has not sent it or `p` has received it.
A receive from any process is then of the right matrix and tells something new (`Hears`).
`SettledInv` remembers that all who had to tell a process have done so, which is needed when
they go on to the next matrix. TLC checked `IInv` on the instance of `par_matvec` before.

`PackagesAreStandard`: `Spec => []SameAsStandard`. The local steps first, each for any input of
the kind that the step before gives: `ContactListRight`, one contact of each process that is
assumed for some of the columns, in order; `ResponseRight`, that the answer from a true part of
the partition names the owner of each column asked for; `FlatRight`, that the answers one
after the other do so for all columns; `RecvRight` and `RecvColsRight`, that the entries made of
them are those of the standard way and stand for the columns of one owner; `SendRight`, the
same for the sends once they are sorted. They rest on `SortedIs` and `SortedUnique`, what a
sorted set is and that there is one only, on `Runs` for the places where a new contact starts,
and on `FlattenRight`, where each sequence is in the concatenation. `FlattenSeq` is a recursive
function that the library chooses; that there is one (`FlattenExists`) is shown by the least
number for which there would be none, where a theorem of induction would take an operator.
`PackageInv` then follows the steps: `OpenInv`, which contacts are open, and that those to a
process that has not entered the exchange are; `AnswersInv`, that a contact of the first
exchange is open or has a right answer; `ToldInv`, that a process in the second exchange has the
columns of exactly the users that it has answered, each once. The last needs both directions:
nobody has told before it has entered, which is why a process that clears its list as it
enters, with others before it, loses nothing (`EnteredBefore`, `EnteredAfter`). The
two exchanges cannot be taken for each other because `ExchangeInv` gives the parity
(`SameExchange`). TLC checked all parts of `PackageInv` on the same instance.

`ProductsAreTrue`: `Spec => []ProductTrue`. `SumOfTerms` is the algebra: a sum of bags, each of
the terms of a set, is the bag of the terms of all the sets if no two have a term in common.
`FoldSeq` is again a recursive function that the library chooses, with the order in which it
takes the elements left open; it is shown to exist (`BagsExist`) and to have this value by a
least set for which it would not (`LeastSubset`). With the standard package, `SendsRight` says
what a process sends to whom, `ProductRight` and `ProductTRight` that with those vectors
received each row has every term once: `RecvPlaces` finds the entry that a column is in, and for
the transpose a row is in the sums of its owner only. What is left is that the vectors received
are those of this product. `DataInv` says exactly what is under way from `q` to `p`: the vectors
of `p`'s matrix that `q` has started and `p` is not through with, in order. A process may be
several products ahead of another, or in the next matrix. `WaitInv` says of whom: if `p` is
through with a product, or with its whole matrix, and `q` has not started it, then `q` has
nothing to send to `p` for it. A process goes on to the next matrix without looking at what
others still send; that it has received everything by then, with `NobodyBehind`,
is why nothing is left in the queues (`DestroyEndsProducts`). TLC checked `ProductInv` on the
instance of `par_matvec` before.

**`FindGapsProof`**, for any symbols and blocks over all natural addresses. `RangesAreExact`,
`GapsAreExact` and `PrintedIsTrue`: `Spec` implies that `RangesExact`, `GapsExact` and
`PrintedTrue` always hold. The lemma `AddRange` is about the operator alone: into a set of
ranges that are apart, `addRange` puts the new one so that the addresses covered are those
before and the new ones, and the ranges are apart again. `RangesInv` carries that through the
program, and knows besides that ranges of one function come together, without which compacting
is incomplete (section 4). `NextGapRight` is the same for `findNextGap`: the gap that it
returns starts at the first uncovered address (`GapAtStart`, `GapBehind`) and ends at the next
range (`StopsBefore`). `GapsInv` says of the search that everything left of the current
address is either covered or in a gap; it is kept by the sort because a permutation keeps the
set of gaps (`SortKeeps`).

**`DataExchangeProof`**, for any number of processes, calls, contacts and long responses.
`EachIsAnsweredRightly`: `Spec => []AnsweredRightly`; `NoneLeftBehind`:
`Spec => []NothingLeftBehind`; `ExchangeIsImplemented`: `Spec => ImplementsExchange`, the
refinement. The invariant `ExchangeInv` has these parts. `SweepInv`: in every call the sweep
has gone `Up` to a process only after it went up to its children, and `Down` to a process only
after its parent, so that `Up` at the root means up everywhere (`RootUp`, by the least process
where it is not), and who is down knows that all are up (`AllUp`). `TermInv`: there is one
termination message from `a` to `b` exactly while the sweep has passed `a` and not `b`.
`ContentInv`: of the contacts of `q` to `p` a first part is answered, in the right order, and
the rest is under way; the second parts that are still to come are those of `Long`, in the
same order; and a process that does not ask has neither contacts nor responses under way.
`PhaseInv` ties the flags to the places. None is inductive alone: a contact is taken by the right
call because its sender, who is not `Up`, holds everybody back in the same one, and the sweep
messages of two calls that follow each other are told apart by their tags (`CallGap`, `TagGap`)
because of `RnumsAlternate`. The refinement adds `OpenInv`: an open contact is one whose sender
is asking and whose rank is above the number of responses. Each step is then `Enter`, `Answer`
or `Leave` of `Exchange`, or unseen.

Only model-checked: liveness, which is outside of what the prover does; and `AssembledTrue` of
`IJMatrix`. It is no theorem of all programs: the matrices of `ij_matrix_thrice` refute it as they
do `AddedOnce` (a third assembly adds again), and a program that changes an element its assembled
row does not have gets an error. The programs of `ij_matrix` do neither: what
they put aside after the first assembly they put aside before the last one, and they change only
elements they have. A theorem would have to be of programs restricted in both ways.

## 6. What is not modelled

- `TPI_Lock`, `TPI_Unlock`, `alloc_reduce`, the build of `TPI.c` without threads.
- Weak memory orders, and the out-of-bounds element of `TPI_Init(256)`.
- `analyzeGap`'s PLT test, edge types and line map: printed from what Dyninst says.
- Clock steps backward and `errno` in the profiler; `dlsym` in `monitor.c`.
- The private heaps of `HYPRE_USE_UMALLOC`; failure of `pthread_create` in
  `HYPRE_InitPthreads`.
- Of the distributed matrices: multivectors, `Matvec_FF`, growth of buffers. Of the assembly:
  the path that inserts into the matrix directly (only after `SetDiagOffdSizes`, which nobody
  calls, and which reads locals it never set), calls of several rows other than one by one,
  `GetValues`, reading and printing, vectors, rows and columns that are distributed differently.
- `dlstress`: its two threads share nothing of their own, each has its half of the libraries
  and its own handles; what may go wrong is in the dynamic loader, which is not here.
- `cpp_threads` and `catchthrow`: threads that share nothing.
- The skip list, the MCS, PFQ and spin locks: in other repositories.
- The solvers of AMG2006, AMG2013 and miniFE, lulesh, nekbone and the kernels: bundled
  numerics, far the largest part of the lines and out of reach of explicit states; where
  processes or threads of them coordinate is what is modelled. AMG2006 has older copies of the
  layers modelled in their AMG2013 form.
- Generated files, tools that print, tests that only run to be profiled.

## 7. Plan

Done, in this order: `MemStress` and `WorkList` with their proofs; `ThreadPool`, `TaskPool`;
`RangeSet`, `FindGaps`; `TraceProfiler`; `DataExchange`, `Exchange`; `LockTest`; `WorkQueue`;
`AssumedPartition`, `CommPkg`, `ParMatvec`; `IJMatrix`; the proofs of section 5.

What is left:

1. Proofs: `AssembledTrue` of `IJMatrix`, of programs that assemble at most twice and then change
   only elements they have.
2. The coarsening of AMG2013 (`parcsr_ls/par_coarsen.c`): independent sets by random weights,
   composed over the communication package.
3. Vectors (`IJVector_parcsr.c`), which repeat the assembly in one dimension.
4. `TPI_Lock` and the regions of `alloc_reduce`.
