------------------------------ MODULE MemStress ------------------------------
(***************************************************************************)
(* stress/memstress/memstress.c: threads that share one FIFO work list.    *)
(* Every thread first seeds the list, then loops: malloc a new entry, take *)
(* the head of the list and append the new entry under one mutex, verify   *)
(* that the entry taken is not corrupt, free it.  The thread that frees an *)
(* entry is seldom the one that made it.                                   *)
(*                                                                         *)
(* A heap block is a member of Entry (a struct mem_entry) or of Info (a    *)
(* struct mem_info); entries and infos are the blocks now allocated, and   *)
(* malloc may return any other, so blocks are recycled with stale content. *)
(***************************************************************************)
EXTENDS Integers, Sequences, FiniteSets

CONSTANTS
  NumThreads,   \* num_threads
  Seed,         \* entries each thread seeds the list with (50)
  Batch,        \* calls between two looks at the clock (100)
  Size,         \* SIZE, the number of cells of an info block
  ProgTime,     \* prog_time
  MaxCount,     \* bound: how far num_malloc and num_free are counted
  Entry, Info,  \* heap blocks
  NULL

ASSUME SizesAssumption ==
  /\ NumThreads \in Nat \ {0} /\ Seed \in Nat \ {0} /\ Batch \in Nat \ {0}
  /\ Size \in Nat \ {0} /\ ProgTime \in Nat /\ MaxCount \in Nat
ASSUME BlocksAssumption ==
  NULL \notin Entry /\ NULL \notin Info
ASSUME HeapAssumption == IsFiniteSet(Entry)

Thread == 0 .. NumThreads - 1
ASSUME NullAssumption == NULL \notin Thread
Main == 0
Cell == 0 .. Size - 1

VARIABLES
  list_head, list_tail,   \* the work list
  next, info, a,          \* fields of the blocks: me->next, me->info, mi->a[]
  entries, infos,         \* blocks allocated by malloc and not yet freed
  mtx,                    \* the thread that holds the mutex, or NULL
  num_malloc, num_free,
  time,                   \* seconds since the start, as gettimeofday tells
  status,                 \* "running", or how the process ended
  pc,                     \* where each thread is
  phase, num,             \* "seed" or "work", and the loop counter
  new_me, new_mi, old_me, old_mi, \* locals of do_malloc
  i, val,
  fifo                    \* history: the entries inserted and not yet deleted

list  == <<list_head, list_tail, next>>
heap  == <<entries, infos>>
count == <<num_malloc, num_free>>
loop  == <<phase, num>>
local == <<new_me, new_mi, old_me, old_mi, i, val>>
vars  == <<list, info, a, heap, mtx, count, time, status, pc, loop, local,
           fifo>>

Init ==
  /\ list_head = NULL /\ list_tail = NULL
  /\ next = [e \in Entry |-> NULL]
  /\ info = [e \in Entry |-> NULL]
  /\ a = [m \in Info |-> [c \in Cell |-> Main]]
  /\ entries = {} /\ infos = {}
  /\ mtx = NULL
  /\ num_malloc = 0 /\ num_free = 0
  /\ time = 0
  /\ status = "running"
  /\ pc = [t \in Thread |-> IF t = Main THEN "create" ELSE "unborn"]
  /\ phase = [t \in Thread |-> "seed"]
  /\ num = [t \in Thread |-> 1]
  /\ new_me = [t \in Thread |-> NULL]
  /\ new_mi = [t \in Thread |-> NULL]
  /\ old_me = [t \in Thread |-> NULL]
  /\ old_mi = [t \in Thread |-> NULL]
  /\ i = [t \in Thread |-> 0]
  /\ val = [t \in Thread |-> t]
  /\ fifo = <<>>

At(t, label) == status = "running" /\ pc[t] = label
Goto(t, label) == pc' = [pc EXCEPT ![t] = label]

-----------------------------------------------------------------------------
(* The list.  Both operations assume that the caller holds the mutex.       *)
(* An operator "x_..." before an operator "x" is a mutant of x: a plausible *)
(* slip in the code that a property named in the README must catch.         *)

list_insert_at_head(me) ==
  /\ next' = [next EXCEPT ![me] = list_head]
  /\ list_head' = me
  /\ list_tail' = IF list_tail = NULL THEN me ELSE list_tail

list_insert(me) ==
  /\ next' = IF list_tail = NULL
             THEN [next EXCEPT ![me] = NULL]
             ELSE [next EXCEPT ![me] = NULL, ![list_tail] = me]
  /\ list_head' = IF list_tail = NULL THEN me ELSE list_head
  /\ list_tail' = me

list_delete ==
  /\ list_head' = IF list_head = NULL THEN NULL ELSE next[list_head]
  /\ list_tail' = IF list_head' = NULL THEN NULL ELSE list_tail
  /\ UNCHANGED next

-----------------------------------------------------------------------------
(* do_malloc, one action per step another thread can come between. *)

Malloc(t) ==
  /\ At(t, "malloc")
  /\ \E me \in Entry \ entries, mi \in Info \ infos :
       /\ entries' = entries \cup {me}
       /\ infos' = infos \cup {mi}
       /\ new_me' = [new_me EXCEPT ![t] = me]
       /\ new_mi' = [new_mi EXCEPT ![t] = mi]
  /\ i' = [i EXCEPT ![t] = 0]
  /\ Goto(t, "fill")
  /\ UNCHANGED <<list, info, a, mtx, count, time, status, loop, old_me, old_mi,
                 val, fifo>>

\* malloc returns NULL: err(1) ends the whole process.
MallocFails(t) ==
  /\ At(t, "malloc")
  /\ status' = "malloc_failed"
  /\ UNCHANGED <<list, info, a, heap, mtx, count, time, pc, loop, local, fifo>>

\* One cell of the new block; the last one also hooks the block to its entry.
Fill(t) ==
  /\ At(t, "fill")
  /\ a' = [a EXCEPT ![new_mi[t]][i[t]] = t]
  /\ IF i[t] = Size - 1
     THEN /\ info' = [info EXCEPT ![new_me[t]] = new_mi[t]]
          /\ Goto(t, "lock")
          /\ UNCHANGED i
     ELSE /\ i' = [i EXCEPT ![t] = @ + 1]
          /\ UNCHANGED <<info, pc>>
  /\ UNCHANGED <<list, heap, mtx, count, time, status, loop, new_me, new_mi,
                 old_me, old_mi, val, fifo>>

MutexFree == mtx = NULL

do_delete_set_too_late(t) == phase[t] = "work" /\ num[t] > 1
do_delete(t) == phase[t] = "work"

Lock(t) ==
  /\ At(t, "lock")
  /\ MutexFree
  /\ mtx' = t
  /\ Goto(t, IF do_delete(t) THEN "delete" ELSE "insert")
  /\ UNCHANGED <<list, info, a, heap, count, time, status, loop, local, fifo>>

\* The program only prints its counters: MaxCount bounds the model, not the code.
Counted(n) == IF n < MaxCount THEN n + 2 ELSE n

Delete_counts_down(t) ==
  /\ At(t, "delete")
  /\ old_me' = [old_me EXCEPT ![t] = list_head]
  /\ list_delete
  /\ fifo' = IF fifo = <<>> THEN fifo ELSE Tail(fifo)
  /\ num_free' = num_free - 2
  /\ Goto(t, "insert")
  /\ UNCHANGED <<info, a, heap, mtx, num_malloc, time, status, loop, new_me,
                 new_mi, old_mi, i, val>>

\* num_free counts the blocks of the head even when there was no head.
Delete(t) ==
  /\ At(t, "delete")
  /\ old_me' = [old_me EXCEPT ![t] = list_head]
  /\ list_delete
  /\ fifo' = IF fifo = <<>> THEN fifo ELSE Tail(fifo)
  /\ num_free' = Counted(num_free)
  /\ Goto(t, "insert")
  /\ UNCHANGED <<info, a, heap, mtx, num_malloc, time, status, loop, new_me,
                 new_mi, old_mi, i, val>>

Insert(t) ==
  /\ At(t, "insert")
  /\ list_insert(new_me[t])
  /\ fifo' = Append(fifo, new_me[t])
  /\ num_malloc' = Counted(num_malloc)
  /\ Goto(t, "unlock")
  /\ UNCHANGED <<info, a, heap, mtx, num_free, time, status, loop, local>>

\* Where the loops of memstress() go when a call of do_malloc returns.
Return(t) ==
  LET last == IF phase[t] = "seed" THEN Seed ELSE Batch IN
  /\ num' = [num EXCEPT ![t] = IF @ < last THEN @ + 1 ELSE 1]
  /\ phase' = [phase EXCEPT ![t] = IF num[t] < last THEN @ ELSE "work"]
  /\ Goto(t, IF phase[t] = "work" /\ num[t] = last THEN "clock" ELSE "malloc")
  /\ new_me' = [new_me EXCEPT ![t] = NULL]
  /\ new_mi' = [new_mi EXCEPT ![t] = NULL]
  /\ old_me' = [old_me EXCEPT ![t] = NULL]
  /\ old_mi' = [old_mi EXCEPT ![t] = NULL]
  /\ i' = [i EXCEPT ![t] = 0]
  /\ val' = [val EXCEPT ![t] = t]

\* After the unlock: return if there is no old entry.
Unlock(t) ==
  /\ At(t, "unlock")
  /\ mtx' = NULL
  /\ IF old_me[t] = NULL
     THEN Return(t)
     ELSE /\ i' = [i EXCEPT ![t] = 0]
          /\ Goto(t, "verify")
          /\ UNCHANGED <<loop, new_me, new_mi, old_me, old_mi, val>>
  /\ UNCHANGED <<list, info, a, heap, count, time, status, fifo>>

\* Read the block and its first cell, then one more cell per step against it;
\* errx ends the process.
Verify(t) ==
  /\ At(t, "verify")
  /\ i' = [i EXCEPT ![t] = @ + 1]
  /\ IF i[t] = 0
     THEN /\ old_mi' = [old_mi EXCEPT ![t] = info[old_me[t]]]
          /\ val' = [val EXCEPT ![t] = a[info[old_me[t]]][0]]
          /\ UNCHANGED status
     ELSE /\ status' = IF a[old_mi[t]][i[t]] # val[t]
                       THEN "corruption" ELSE status
          /\ UNCHANGED <<old_mi, val>>
  /\ IF i[t] + 1 = Size THEN Goto(t, "free_entry") ELSE UNCHANGED pc
  /\ UNCHANGED <<list, info, a, heap, mtx, count, time, loop, new_me, new_mi,
                 old_me, fifo>>

FreeEntry_leaks(t) ==
  /\ At(t, "free_entry")
  /\ Goto(t, "free_info")
  /\ UNCHANGED <<list, info, a, heap, mtx, count, time, status, loop, local,
                 fifo>>

FreeEntry(t) ==
  /\ At(t, "free_entry")
  /\ entries' = entries \ {old_me[t]}
  /\ Goto(t, "free_info")
  /\ UNCHANGED <<list, info, a, infos, mtx, count, time, status, loop, local,
                 fifo>>

FreeInfo(t) ==
  /\ At(t, "free_info")
  /\ infos' = infos \ {old_mi[t]}
  /\ Return(t)
  /\ UNCHANGED <<list, info, a, entries, mtx, count, time, status, fifo>>

-----------------------------------------------------------------------------
(* memstress() and main(). *)

TimeUp_for_main(t) == t = Main /\ time >= ProgTime
TimeUp(t) == time >= ProgTime

\* The time check that ends a batch: the thread is through, or begins another one.
Clock(t) ==
  /\ At(t, "clock")
  /\ \/ /\ TimeUp(t)
        /\ Goto(t, IF t = Main THEN "join" ELSE "done")
     \/ /\ ~ TimeUp(t)
        /\ Goto(t, "malloc")
  /\ UNCHANGED <<list, info, a, heap, mtx, count, time, status, loop, local,
                 fifo>>

\* main launches thread num, or starts its own share of the work.
Create ==
  /\ At(Main, "create")
  /\ IF num[Main] < NumThreads
     THEN /\ num' = [num EXCEPT ![Main] = @ + 1]
          /\ Goto(num[Main], "malloc")
     ELSE /\ num' = [num EXCEPT ![Main] = 1]
          /\ Goto(Main, "malloc")
  /\ UNCHANGED <<list, info, a, heap, mtx, count, time, status, phase, local,
                 fifo>>

CreateFails ==
  /\ At(Main, "create")
  /\ num[Main] < NumThreads
  /\ status' = "create_failed"
  /\ UNCHANGED <<list, info, a, heap, mtx, count, time, pc, loop, local, fifo>>

Joined_without_waiting(u) == TRUE
Joined(u) == pc[u] = "done"

\* pthread_join of thread num; after the last one the process exits.
Join ==
  /\ At(Main, "join")
  /\ IF num[Main] < NumThreads
     THEN /\ Joined(num[Main])
          /\ num' = [num EXCEPT ![Main] = @ + 1]
          /\ UNCHANGED status
     ELSE status' = "exited" /\ UNCHANGED num
  /\ UNCHANGED <<list, info, a, heap, mtx, count, time, pc, phase, local, fifo>>

Tick ==
  /\ status = "running"
  /\ time < ProgTime
  /\ time' = time + 1
  /\ UNCHANGED <<list, info, a, heap, mtx, count, status, pc, loop, local, fifo>>

\* The process has ended.
Exited == status # "running" /\ UNCHANGED vars

Work(t) ==
  \/ Malloc(t) \/ MallocFails(t) \/ Fill(t)
  \/ Lock(t) \/ Delete(t) \/ Insert(t) \/ Unlock(t)
  \/ Verify(t) \/ FreeEntry(t) \/ FreeInfo(t) \/ Clock(t)

Next ==
  \/ \E t \in Thread : Work(t)
  \/ Create \/ CreateFails \/ Join
  \/ Tick \/ Exited

Spec == Init /\ [][Next]_vars

\* The scheduler runs every thread that can run, and time passes.
FairSpec ==
  /\ Spec
  /\ \A t \in Thread : WF_vars(Work(t))
  /\ WF_vars(Create \/ Join)
  /\ WF_vars(Tick)

-----------------------------------------------------------------------------
(* Properties. *)

HeapTypeOK ==
  /\ list_head \in Entry \cup {NULL} /\ list_tail \in Entry \cup {NULL}
  /\ next \in [Entry -> Entry \cup {NULL}]
  /\ info \in [Entry -> Info \cup {NULL}]
  /\ a \in [Info -> [Cell -> Thread]]
  /\ entries \in SUBSET Entry /\ infos \in SUBSET Info
  /\ fifo \in Seq(Entry)

ControlTypeOK ==
  /\ mtx \in Thread \cup {NULL}
  /\ num_malloc \in Nat /\ num_free \in Nat /\ time \in 0 .. ProgTime
  /\ status \in {"running", "exited", "malloc_failed", "create_failed",
                 "corruption"}
  /\ pc \in [Thread -> {"unborn", "create", "malloc", "fill", "lock", "delete",
                        "insert", "unlock", "verify", "free_entry", "free_info",
                        "clock", "join", "done"}]
  /\ phase \in [Thread -> {"seed", "work"}]

LocalTypeOK ==
  /\ num \in [Thread -> Nat \ {0}]
  /\ new_me \in [Thread -> Entry \cup {NULL}]
  /\ new_mi \in [Thread -> Info \cup {NULL}]
  /\ old_me \in [Thread -> Entry \cup {NULL}]
  /\ old_mi \in [Thread -> Info \cup {NULL}]
  /\ i \in [Thread -> Nat]
  /\ val \in [Thread -> Thread]

\* Every variable keeps its type.
TypeOK == HeapTypeOK /\ ControlTypeOK /\ LocalTypeOK

HasNew(t) == pc[t] \in {"fill", "lock", "delete", "insert"}
HasOld(t) ==
  pc[t] \in {"insert", "unlock", "verify", "free_entry"} /\ old_me[t] # NULL

Queued == {fifo[k] : k \in 1 .. Len(fifo)}
NewOnes == {new_me[t] : t \in {u \in Thread : HasNew(u)}}
OldOnes == {old_me[t] : t \in {u \in Thread : HasOld(u)}}

\* Every allocated entry has exactly one owner - the list, the thread that made
\* it, or the thread that took it - and none is lost: no entry is freed twice,
\* used after it was freed, or leaked (memstress.c:158-210).
SingleOwner ==
  /\ entries = Queued \cup NewOnes \cup OldOnes
  /\ Queued \cap (NewOnes \cup OldOnes) = {}
  /\ NewOnes \cap OldOnes = {}
  /\ \A j, k \in 1 .. Len(fifo) : fifo[j] = fifo[k] => j = k
  /\ \A t, u \in Thread : t # u =>
       /\ HasNew(t) /\ HasNew(u) => new_me[t] # new_me[u]
       /\ HasOld(t) /\ HasOld(u) => old_me[t] # old_me[u]

\* The threads that have blocks of their own and no seed among them: an entry, or
\* at least its info.
InFlight ==
  {t \in Thread : /\ phase[t] = "work"
                  /\ HasNew(t) \/ HasOld(t) \/ pc[t] = "free_info"}

\* However long the program runs, its blocks are those that were seeded and, for
\* each thread that is at an exchange, one entry and one info: memory does not grow
\* with time (memstress.c:158-159, 181-190, 209-210).
WorkingSet ==
  /\ Cardinality(entries) <= NumThreads * Seed + Cardinality(InFlight)
  /\ Cardinality(infos) <= NumThreads * Seed + Cardinality(InFlight)

\* The check of lines 202-207 never fails: nobody writes to a block between the
\* fill that completes it and the verification, whoever does that.  And when main
\* returns, every side thread has been joined and the blocks still allocated are
\* those of the list, as many as were seeded (memstress.c:318-341).
CleanExit ==
  /\ status # "corruption"
  /\ status = "exited" =>
       /\ \A t \in Thread \ {Main} : pc[t] = "done"
       /\ Len(fifo) = NumThreads * Seed
       /\ entries = Queued
       /\ infos = {info[e] : e \in entries}

\* The program ends: no thread waits for the mutex or for a join forever.
Termination == <>(status # "running")
-----------------------------------------------------------------------------
(* What the list promises the threads: see WorkList. *)

\* The n-th entry from list_head along next, for as many as there are blocks.
Along ==
  LET Nth[n \in 1 .. Cardinality(Entry)] ==
        IF n = 1 THEN list_head
        ELSE LET e == Nth[n - 1] IN IF e = NULL THEN NULL ELSE next[e]
  IN  Nth
Reached ==
  [n \in 1 .. Cardinality({k \in DOMAIN Along : Along[k] # NULL}) |-> Along[n]]

\* An exchange takes effect at its insert: until then the entry deleted still
\* counts as the head of the queue.
Exchanging == {t \in Thread : pc[t] = "insert" /\ old_me[t] # NULL}
AbstractQueue ==
  IF Exchanging = {}
  THEN Reached
  ELSE <<old_me[CHOOSE t \in Exchanging : TRUE]>> \o Reached

AbstractGot ==
  [t \in Thread |->
    IF pc[t] \in {"unlock", "verify", "free_entry"} THEN old_me[t] ELSE NULL]

WL == INSTANCE WorkList
        WITH Item <- Entry, None <- NULL,
             queue <- AbstractQueue, got <- AbstractGot

\* do_malloc implements a queue with atomic Add, Exchange and Discard, in the
\* order of the pointers themselves (memstress.c:111-141, 181-190, 209).
ImplementsWorkList == WL!Spec
=============================================================================
