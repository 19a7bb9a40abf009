--------------------------- MODULE MemStressProof ---------------------------
(***************************************************************************)
(* Proofs about MemStress, for any number of threads, seeds and cells and  *)
(* any sets of blocks.  The mutex excludes; the work list keeps every      *)
(* entry, and gives each to one thread; an info block has one owner too    *)
(* and keeps what was written into it; a run that ends leaves exactly the  *)
(* seeds behind, and one that goes on never has more than the seeds and a  *)
(* pair of blocks for each thread that is at an exchange; and the program  *)
(* implements the queue of WorkList.                                       *)
(***************************************************************************)
EXTENDS MemStress, SequenceTheorems, FiniteSetTheorems, WellFoundedInduction, TLAPS

\* What the types rest on.  A pointer that a thread follows is not NULL, and the
\* entry it leads to has been hooked to its block: info is only ever assigned a
\* block, so once it is set it stays set.
Hooked(e) == e # NULL => info[e] \in Info

ListHooked ==
  Hooked(list_head) /\ Hooked(list_tail) /\ \A e \in Entry : Hooked(next[e])

ThreadOK(t) ==
  /\ Hooked(old_me[t])
  /\ pc[t] \in {"fill", "lock", "delete", "insert"} => new_me[t] \in Entry
  /\ pc[t] \in {"lock", "delete", "insert"} => Hooked(new_me[t])
  /\ pc[t] = "fill" => new_mi[t] \in Info /\ i[t] \in Cell
  /\ pc[t] = "verify" => /\ old_me[t] \in Entry /\ i[t] \in Cell
                         /\ i[t] > 0 => old_mi[t] \in Info

TypeInv == TypeOK /\ ListHooked /\ \A t \in Thread : ThreadOK(t)

LEMMA ConstantFacts ==
  /\ 0 \in Cell /\ Main \in Thread /\ Size - 1 \in Cell
  /\ Size \in Nat \ {0} /\ Cell \subseteq Nat /\ Thread \subseteq Nat
BY SizesAssumption DEF Cell, Main, Thread

LEMMA TypeInit == Init => TypeInv
BY ConstantFacts, SizesAssumption, BlocksAssumption
DEF Init, TypeInv, TypeOK, HeapTypeOK, ControlTypeOK, LocalTypeOK, ListHooked,
    ThreadOK, Hooked

-----------------------------------------------------------------------------
\* A step of one thread leaves alone where the others are and their locals.
Mine(t) ==
  <<pc[t], phase[t], new_me[t], new_mi[t], old_me[t], old_mi[t], i[t], val[t]>>

LEMMA OthersUnchanged ==
  ASSUME TypeInv, NEW t \in Thread, Work(t)
  PROVE  \A u \in Thread \ {t} : Mine(u)' = Mine(u)
<1> USE DEF TypeInv, TypeOK, ControlTypeOK, LocalTypeOK, At, Goto, Mine, loop, local
<1>1. CASE Malloc(t) BY <1>1 DEF Malloc
<1>2. CASE MallocFails(t) BY <1>2 DEF MallocFails
<1>3. CASE Fill(t) BY <1>3 DEF Fill
<1>4. CASE Lock(t) BY <1>4 DEF Lock
<1>5. CASE Delete(t) BY <1>5 DEF Delete, list_delete
<1>6. CASE Insert(t) BY <1>6 DEF Insert, list_insert
<1>7. CASE Unlock(t)
  <2>1. CASE old_me[t] = NULL BY <1>7, <2>1 DEF Unlock, Return
  <2>2. CASE old_me[t] # NULL BY <1>7, <2>2 DEF Unlock
  <2>3. QED BY <2>1, <2>2
<1>8. CASE Verify(t) BY <1>8 DEF Verify
<1>9. CASE FreeEntry(t) BY <1>9 DEF FreeEntry
<1>10. CASE FreeInfo(t) BY <1>10 DEF FreeInfo, Return
<1>11. CASE Clock(t) BY <1>11 DEF Clock
<1>12. QED
  BY <1>1, <1>2, <1>3, <1>4, <1>5, <1>6, <1>7, <1>8, <1>9, <1>10, <1>11 DEF Work

\* Only Fill writes to info, and what it writes is a block.
LEMMA InfoStaysSet ==
  ASSUME TypeInv, NEW t \in Thread, Work(t), NEW e \in Entry, info[e] \in Info
  PROVE  info'[e] \in Info
<1>1. CASE Fill(t)
  BY <1>1 DEF Fill, TypeInv, TypeOK, HeapTypeOK, ThreadOK, At
<1>2. CASE ~ Fill(t)
  BY <1>2 DEF Work, Malloc, MallocFails, Lock, Delete, Insert, Unlock, Verify,
     FreeEntry, FreeInfo, Clock
<1>3. QED
  BY <1>1, <1>2

LEMMA HeapTypeStep ==
  ASSUME TypeInv, NEW t \in Thread, Work(t)
  PROVE  HeapTypeOK'
<1> USE DEF TypeInv, TypeOK, HeapTypeOK, list, heap, At
<1>1. CASE Malloc(t) BY <1>1 DEF Malloc
<1>2. CASE MallocFails(t) BY <1>2 DEF MallocFails
<1>3. CASE Fill(t) BY <1>3 DEF Fill, ThreadOK
<1>4. CASE Lock(t) BY <1>4 DEF Lock
<1>5. CASE Delete(t) BY <1>5 DEF Delete, list_delete
<1>6. CASE Insert(t) BY <1>6 DEF Insert, list_insert, ThreadOK
<1>7. CASE Unlock(t) BY <1>7 DEF Unlock, Return
<1>8. CASE Verify(t) BY <1>8 DEF Verify
<1>9. CASE FreeEntry(t) BY <1>9 DEF FreeEntry
<1>10. CASE FreeInfo(t) BY <1>10 DEF FreeInfo, Return
<1>11. CASE Clock(t) BY <1>11 DEF Clock
<1>12. QED
  BY <1>1, <1>2, <1>3, <1>4, <1>5, <1>6, <1>7, <1>8, <1>9, <1>10, <1>11 DEF Work

LEMMA CountedType == \A n \in Nat : Counted(n) \in Nat
BY DEF Counted

LEMMA ControlTypeStep ==
  ASSUME TypeInv, NEW t \in Thread, Work(t)
  PROVE  ControlTypeOK'
<1> USE DEF TypeInv, TypeOK, ControlTypeOK, At, Goto, count, loop
<1>1. CASE Malloc(t) BY <1>1 DEF Malloc
<1>2. CASE MallocFails(t) BY <1>2 DEF MallocFails
<1>3. CASE Fill(t) BY <1>3 DEF Fill
<1>4. CASE Lock(t) BY <1>4 DEF Lock
<1>5. CASE Delete(t) BY <1>5, CountedType DEF Delete, list_delete
<1>6. CASE Insert(t) BY <1>6, CountedType DEF Insert, list_insert
<1>7. CASE Unlock(t) BY <1>7 DEF Unlock, Return
<1>8. CASE Verify(t) BY <1>8 DEF Verify
<1>9. CASE FreeEntry(t) BY <1>9 DEF FreeEntry
<1>10. CASE FreeInfo(t) BY <1>10 DEF FreeInfo, Return
<1>11. CASE Clock(t) BY <1>11 DEF Clock
<1>12. QED
  BY <1>1, <1>2, <1>3, <1>4, <1>5, <1>6, <1>7, <1>8, <1>9, <1>10, <1>11 DEF Work

LEMMA LocalTypeStep ==
  ASSUME TypeInv, NEW t \in Thread, Work(t)
  PROVE  LocalTypeOK'
<1> USE DEF TypeInv, TypeOK, LocalTypeOK, At, loop, local
<1>1. CASE Malloc(t) BY <1>1 DEF Malloc
<1>2. CASE MallocFails(t) BY <1>2 DEF MallocFails
<1>3. CASE Fill(t) BY <1>3 DEF Fill
<1>4. CASE Lock(t) BY <1>4 DEF Lock
<1>5. CASE Delete(t) BY <1>5 DEF Delete, list_delete, HeapTypeOK
<1>6. CASE Insert(t) BY <1>6 DEF Insert, list_insert
<1>7. CASE Unlock(t) BY <1>7 DEF Unlock, Return
<1>8. CASE Verify(t)
  <2>1. old_me[t] \in Entry /\ info[old_me[t]] \in Info
    BY <1>8, BlocksAssumption DEF Verify, ThreadOK, Hooked
  <2>2. a[info[old_me[t]]][0] \in Thread
    BY <2>1, ConstantFacts DEF HeapTypeOK
  <2>3. QED
    BY <1>8, <2>1, <2>2 DEF Verify
<1>9. CASE FreeEntry(t) BY <1>9 DEF FreeEntry
<1>10. CASE FreeInfo(t) BY <1>10 DEF FreeInfo, Return
<1>11. CASE Clock(t) BY <1>11 DEF Clock
<1>12. QED
  BY <1>1, <1>2, <1>3, <1>4, <1>5, <1>6, <1>7, <1>8, <1>9, <1>10, <1>11 DEF Work

LEMMA ListHookedStep ==
  ASSUME TypeInv, NEW t \in Thread, Work(t)
  PROVE  ListHooked'
<1> USE DEF TypeInv, TypeOK, HeapTypeOK, ListHooked, Hooked, list
<1>0. \A e \in Entry : info[e] \in Info => info'[e] \in Info
  BY InfoStaysSet
<1> USE <1>0
<1>1. CASE Malloc(t) BY <1>1 DEF Malloc
<1>2. CASE MallocFails(t) BY <1>2 DEF MallocFails
<1>3. CASE Fill(t) BY <1>3 DEF Fill
<1>4. CASE Lock(t) BY <1>4 DEF Lock
<1>5. CASE Delete(t) BY <1>5 DEF Delete, list_delete
<1>6. CASE Insert(t) BY <1>6 DEF Insert, list_insert, ThreadOK, At
<1>7. CASE Unlock(t) BY <1>7 DEF Unlock, Return
<1>8. CASE Verify(t) BY <1>8 DEF Verify
<1>9. CASE FreeEntry(t) BY <1>9 DEF FreeEntry
<1>10. CASE FreeInfo(t) BY <1>10 DEF FreeInfo, Return
<1>11. CASE Clock(t) BY <1>11 DEF Clock
<1>12. QED
  BY <1>1, <1>2, <1>3, <1>4, <1>5, <1>6, <1>7, <1>8, <1>9, <1>10, <1>11 DEF Work

LEMMA ThreadOKStep ==
  ASSUME TypeInv, NEW t \in Thread, Work(t)
  PROVE  \A u \in Thread : ThreadOK(u)'
<1>1. \A e \in Entry : info[e] \in Info => info'[e] \in Info
  BY InfoStaysSet
<1>2. ASSUME NEW u \in Thread, u # t PROVE ThreadOK(u)'
  <2>1. UNCHANGED Mine(u)
    BY <1>2, OthersUnchanged
  <2>2. QED
    BY <1>1, <2>1 DEF TypeInv, TypeOK, LocalTypeOK, ThreadOK, Hooked, Mine
<1>3. ThreadOK(t)'
  <2> USE <1>1, ConstantFacts, SizesAssumption, BlocksAssumption
      DEF TypeInv, TypeOK, ControlTypeOK, LocalTypeOK, ThreadOK, Hooked, At, Goto,
          loop, local
  <2>1. CASE Malloc(t) BY <2>1 DEF Malloc
  <2>2. CASE MallocFails(t) BY <2>2 DEF MallocFails
  <2>3. CASE Fill(t) BY <2>3 DEF Fill, Cell, HeapTypeOK
  <2>4. CASE Lock(t) BY <2>4 DEF Lock
  <2>5. CASE Delete(t) BY <2>5 DEF Delete, list_delete, ListHooked, HeapTypeOK
  <2>6. CASE Insert(t) BY <2>6 DEF Insert, list_insert, HeapTypeOK
  <2>7. CASE Unlock(t)
    <3>1. CASE old_me[t] = NULL BY <2>7, <3>1, ConstantFacts DEF Unlock, Return
    <3>2. CASE old_me[t] # NULL BY <2>7, <3>2, ConstantFacts DEF Unlock
    <3>3. QED BY <3>1, <3>2
  <2>8. CASE Verify(t) BY <2>8 DEF Verify, Cell
  <2>9. CASE FreeEntry(t) BY <2>9 DEF FreeEntry
  <2>10. CASE FreeInfo(t) BY <2>10 DEF FreeInfo, Return
  <2>11. CASE Clock(t) BY <2>11 DEF Clock
  <2>12. QED
    BY <2>1, <2>2, <2>3, <2>4, <2>5, <2>6, <2>7, <2>8, <2>9, <2>10, <2>11 DEF Work
<1>4. QED
  BY <1>2, <1>3

-----------------------------------------------------------------------------
LEMMA TypeStep == TypeInv /\ [Next]_vars => TypeInv'
<1> SUFFICES ASSUME TypeInv, [Next]_vars
             PROVE  TypeInv'
  OBVIOUS
<1>1. ASSUME NEW t \in Thread, Work(t) PROVE TypeInv'
  BY <1>1, HeapTypeStep, ControlTypeStep, LocalTypeStep, ListHookedStep, ThreadOKStep
  DEF TypeInv, TypeOK
<1> USE DEF TypeInv, TypeOK, HeapTypeOK, ControlTypeOK, LocalTypeOK, ListHooked,
            ThreadOK, Hooked, list, heap, count, local, loop
<1>2. CASE Create
  <2>1. HeapTypeOK' /\ ListHooked'
    BY <1>2 DEF Create
  <2>2. ControlTypeOK'
    BY <1>2 DEF Create, Goto
  <2>3. num' \in [Thread -> Nat \ {0}]
    BY <1>2, ConstantFacts DEF Create
  <2>4. LocalTypeOK'
    BY <1>2, <2>3 DEF Create
  <2>5. ASSUME NEW u \in Thread PROVE ThreadOK(u)'
    BY <1>2 DEF Create, Goto
  <2>6. QED
    BY <2>1, <2>2, <2>4, <2>5
<1>3. CASE CreateFails
  BY <1>3 DEF CreateFails
<1>4. CASE Join
  <2>1. num' \in [Thread -> Nat \ {0}]
    BY <1>4, ConstantFacts DEF Join
  <2>2. status' \in {"running", "exited"}
    BY <1>4 DEF Join, At
  <2>3. QED
    BY <1>4, <2>1, <2>2 DEF Join
<1>5. CASE Tick
  BY <1>5, SizesAssumption DEF Tick
<1>6. CASE UNCHANGED vars
  BY <1>6 DEF vars
<1>7. QED
  BY <1>1, <1>2, <1>3, <1>4, <1>5, <1>6 DEF Next, Exited

\* Every variable keeps its type, and no thread of memstress follows a NULL
\* pointer (memstress.c:111-210).
THEOREM TypeCorrect == Spec => []TypeOK
<1>1. TypeInv => TypeOK
  BY DEF TypeInv
<1>2. QED
  BY TypeInit, TypeStep, <1>1, PTL DEF Spec

-----------------------------------------------------------------------------
(* Mutual exclusion.  A thread that main has not created yet is nowhere near *)
(* the critical section, so creating it disturbs nobody.                     *)

InCritical(t) == pc[t] \in {"delete", "insert", "unlock"}

\* No two threads are ever between the lock and the unlock of the mutex
\* (memstress.c:181-190), and the thread that is there is its holder.
MutualExclusion ==
  \A t \in Thread : InCritical(t) <=> mtx = t

Unborn ==
  /\ num[Main] >= 1
  /\ \A u \in Thread : pc[u] = "create" => u = Main
  /\ pc[Main] = "create" =>
       \A u \in Thread : u >= num[Main] => pc[u] = "unborn"

MutexInv == MutualExclusion /\ Unborn

LEMMA MutexInit == Init => MutexInv
BY NullAssumption, ConstantFacts
DEF Init, MutexInv, MutualExclusion, InCritical, Unborn, Thread, Main

LEMMA MutexStep == TypeInv /\ MutexInv /\ [Next]_vars => MutexInv'
<1> SUFFICES ASSUME TypeInv, MutexInv, [Next]_vars
             PROVE  MutexInv'
  OBVIOUS
<1> USE DEF MutexInv, TypeInv, TypeOK, ControlTypeOK, LocalTypeOK
<1>1. ASSUME NEW t \in Thread, Work(t) PROVE MutualExclusion'
  <2> USE NullAssumption DEF MutualExclusion, InCritical, At, Goto, MutexFree
  <2>1. CASE Malloc(t) BY <2>1 DEF Malloc
  <2>2. CASE MallocFails(t) BY <2>2 DEF MallocFails
  <2>3. CASE Fill(t) BY <2>3 DEF Fill
  <2>4. CASE Lock(t) BY <2>4 DEF Lock
  <2>5. CASE Delete(t) BY <2>5 DEF Delete, list_delete
  <2>6. CASE Insert(t) BY <2>6 DEF Insert, list_insert
  <2>7. CASE Unlock(t)
    <3>1. CASE old_me[t] = NULL BY <2>7, <3>1 DEF Unlock, Return
    <3>2. CASE old_me[t] # NULL BY <2>7, <3>2 DEF Unlock
    <3>3. QED BY <3>1, <3>2
  <2>8. CASE Verify(t) BY <2>8 DEF Verify
  <2>9. CASE FreeEntry(t) BY <2>9 DEF FreeEntry
  <2>10. CASE FreeInfo(t) BY <2>10 DEF FreeInfo, Return
  <2>11. CASE Clock(t) BY <2>11 DEF Clock
  <2>12. QED
    BY <1>1, <2>1, <2>2, <2>3, <2>4, <2>5, <2>6, <2>7, <2>8, <2>9, <2>10, <2>11 DEF Work
<1>2. ASSUME NEW t \in Thread, Work(t) PROVE Unborn'
  <2>1. \A u \in Thread \ {t} : Mine(u)' = Mine(u)
    BY <1>2, OthersUnchanged
  <2>2. pc'[t] # "create" /\ pc[t] \notin {"create", "unborn"}
    BY <1>2
    DEF Work, Malloc, MallocFails, Fill, Lock, Delete, Insert, Unlock, Verify,
        FreeEntry, FreeInfo, Clock, Return, At, Goto
  <2>3. num'[Main] >= 1
    BY <1>2, LocalTypeStep, ConstantFacts DEF LocalTypeOK
  <2>4. \A u \in Thread : pc'[u] = pc[u] \/ (u = t /\ pc'[u] # "create")
    BY <2>1, <2>2 DEF Mine
  <2>5. pc'[Main] = "create" => num'[Main] = num[Main]
    BY <1>2, <2>2, <2>4, ConstantFacts
    DEF Work, Malloc, MallocFails, Fill, Lock, Delete, Insert, Unlock, Verify,
        FreeEntry, FreeInfo, Clock, Return, loop
  <2>6. QED
    BY <2>2, <2>3, <2>4, <2>5, ConstantFacts DEF Unborn
<1> USE ConstantFacts DEF MutualExclusion, InCritical, Unborn, At, Goto
<1>3. CASE Create
  <2>1. CASE num[Main] < NumThreads
    <3>0. num[Main] \in Nat \ {0}
      OBVIOUS
    <3>1. num[Main] \in Thread /\ num[Main] # Main
      BY <2>1, <3>0, SizesAssumption DEF Thread, Main
    <3>4. pc[num[Main]] = "unborn"
      BY <1>3, <3>0, <3>1 DEF Create
    <3>2. /\ pc' = [pc EXCEPT ![num[Main]] = "malloc"]
          /\ num' = [num EXCEPT ![Main] = @ + 1]
          /\ UNCHANGED mtx
      BY <1>3, <2>1 DEF Create
    <3>3. QED
      BY <3>1, <3>2, <3>4
  <2>2. CASE ~ (num[Main] < NumThreads)
    BY <1>3, <2>2 DEF Create
  <2>3. QED
    BY <2>1, <2>2
<1>4. CASE CreateFails
  BY <1>4 DEF CreateFails, loop
<1>5. CASE Join
  BY <1>5 DEF Join
<1>6. CASE Tick
  BY <1>6 DEF Tick, loop
<1>7. CASE UNCHANGED vars
  BY <1>7 DEF vars, loop
<1>8. QED
  BY <1>1, <1>2, <1>3, <1>4, <1>5, <1>6, <1>7 DEF Next, Exited

\* No two threads are between lock and unlock at once, and the one that is there
\* is the holder of the mutex (memstress.c:181-190).
THEOREM Mutex == Spec => []MutualExclusion
<1>1. MutexInv => MutualExclusion
  BY DEF MutexInv
<1>2. QED
  BY TypeInit, TypeStep, MutexInit, MutexStep, <1>1, PTL DEF Spec

-----------------------------------------------------------------------------
(* The work list, its entries and their info blocks. *)

\* The pointers spell out the history.
ListShape ==
  /\ fifo = <<>> => list_head = NULL /\ list_tail = NULL
  /\ fifo # <<>> => list_head = fifo[1] /\ list_tail = fifo[Len(fifo)]
  /\ \A k \in 1 .. Len(fifo) - 1 : next[fifo[k]] = fifo[k + 1]
  /\ fifo # <<>> => next[fifo[Len(fifo)]] = NULL

\* Before it deletes, a thread has no old entry; when it looks at one it has.
NoOldYet ==
  \A t \in Thread :
    /\ pc[t] \in {"unborn", "create", "malloc", "fill", "lock", "delete", "clock"} =>
         old_me[t] = NULL
    /\ pc[t] \in {"verify", "free_entry"} => old_me[t] # NULL

\* The owners of an entry, one by one.
Owned(e) ==
  \/ \E k \in 1 .. Len(fifo) : fifo[k] = e
  \/ \E t \in Thread : HasNew(t) /\ new_me[t] = e
  \/ \E t \in Thread : HasOld(t) /\ old_me[t] = e

OneOwner ==
  /\ \A e \in Entry : e \in entries <=> Owned(e)
  /\ \A j, k \in 1 .. Len(fifo) : fifo[j] = fifo[k] => j = k
  /\ \A k \in 1 .. Len(fifo), t \in Thread :
       /\ HasNew(t) => fifo[k] # new_me[t]
       /\ HasOld(t) => fifo[k] # old_me[t]
  /\ \A t, u \in Thread :
       /\ HasNew(t) /\ HasOld(u) => new_me[t] # old_me[u]
       /\ t # u /\ HasNew(t) /\ HasNew(u) => new_me[t] # new_me[u]
       /\ t # u /\ HasOld(t) /\ HasOld(u) => old_me[t] # old_me[u]

OwnerInv == ListShape /\ NoOldYet /\ OneOwner

LEMMA OwnerInit == Init => OwnerInv
<1> SUFFICES ASSUME Init PROVE OwnerInv
  OBVIOUS
<1>1. fifo = <<>> /\ Len(fifo) = 0 /\ entries = {}
  BY DEF Init
<1>2. \A t \in Thread : ~ HasNew(t) /\ ~ HasOld(t)
  BY DEF Init, HasNew, HasOld
<1>3. ListShape
  BY <1>1 DEF Init, ListShape
<1>4. NoOldYet
  BY DEF Init, NoOldYet
<1>5. OneOwner
  BY <1>1, <1>2 DEF OneOwner, Owned
<1>6. QED
  BY <1>3, <1>4, <1>5 DEF OwnerInv

LEMMA OwnerMeansSingle == TypeInv /\ OwnerInv => SingleOwner
<1> SUFFICES ASSUME TypeInv, OwnerInv PROVE SingleOwner
  OBVIOUS
<1> USE DEF OwnerInv, OneOwner
<1>1. /\ \A k \in 1 .. Len(fifo) : fifo[k] \in Entry
      /\ \A t \in Thread : (HasNew(t) => new_me[t] \in Entry) /\ (HasOld(t) => old_me[t] \in Entry)
      /\ entries \subseteq Entry
  BY DEF TypeInv, TypeOK, HeapTypeOK, LocalTypeOK, ThreadOK, HasNew, HasOld
<1>2. entries = Queued \cup NewOnes \cup OldOnes
  BY <1>1 DEF Owned, Queued, NewOnes, OldOnes
<1>3. Queued \cap (NewOnes \cup OldOnes) = {} /\ NewOnes \cap OldOnes = {}
  BY DEF Queued, NewOnes, OldOnes
<1>4. QED
  BY <1>2, <1>3 DEF SingleOwner

\* A step that moves no entry.
LEMMA OwnersKept ==
  ASSUME OneOwner, entries' = entries, fifo' = fifo,
         \A t \in Thread : /\ HasNew(t)' <=> HasNew(t)
                           /\ HasOld(t)' <=> HasOld(t)
                           /\ HasNew(t) => new_me'[t] = new_me[t]
                           /\ HasOld(t) => old_me'[t] = old_me[t]
  PROVE  OneOwner'
BY DEF OneOwner, Owned

-----------------------------------------------------------------------------
LEMMA NoOldYetStep ==
  ASSUME TypeInv, NoOldYet, NEW t \in Thread, Work(t)
  PROVE  NoOldYet'
<1>1. ASSUME NEW u \in Thread \ {t} PROVE old_me'[u] = old_me[u] /\ pc'[u] = pc[u]
  BY OthersUnchanged DEF Mine
<1>2. /\ pc'[t] \in {"unborn", "create", "malloc", "fill", "lock", "delete", "clock"} =>
           old_me'[t] = NULL
      /\ pc'[t] \in {"verify", "free_entry"} => old_me'[t] # NULL
  <2> USE DEF NoOldYet, TypeInv, TypeOK, ControlTypeOK, LocalTypeOK, At, Goto, loop, local
  <2>1. CASE Malloc(t) BY <2>1 DEF Malloc
  <2>2. CASE MallocFails(t) BY <2>2 DEF MallocFails
  <2>3. CASE Fill(t) BY <2>3 DEF Fill
  <2>4. CASE Lock(t) BY <2>4 DEF Lock
  <2>5. CASE Delete(t) BY <2>5 DEF Delete
  <2>6. CASE Insert(t) BY <2>6 DEF Insert
  <2>7. CASE Unlock(t)
    <3>1. CASE old_me[t] = NULL BY <2>7, <3>1 DEF Unlock, Return
    <3>2. CASE old_me[t] # NULL BY <2>7, <3>2 DEF Unlock
    <3>3. QED BY <3>1, <3>2
  <2>8. CASE Verify(t) BY <2>8 DEF Verify
  <2>9. CASE FreeEntry(t) BY <2>9 DEF FreeEntry
  <2>10. CASE FreeInfo(t) BY <2>10 DEF FreeInfo, Return
  <2>11. CASE Clock(t) BY <2>11 DEF Clock
  <2>12. QED
    BY <2>1, <2>2, <2>3, <2>4, <2>5, <2>6, <2>7, <2>8, <2>9, <2>10, <2>11 DEF Work
<1>3. QED
  BY <1>1, <1>2 DEF NoOldYet

\* Delete and insert, with the list as a sequence.
LEMMA TailFacts ==
  ASSUME NEW S, NEW q \in Seq(S), q # <<>>
  PROVE  /\ Len(Tail(q)) = Len(q) - 1 /\ Len(q) \in Nat \ {0}
         /\ \A k \in 1 .. Len(q) - 1 : Tail(q)[k] = q[k + 1]
         /\ Tail(q) = <<>> <=> Len(q) = 1
<1>1. Len(q) \in Nat \ {0}
  OBVIOUS
<1>2. /\ Tail(q) \in Seq(S) /\ Len(Tail(q)) = Len(q) - 1
      /\ \A k \in 1 .. Len(Tail(q)) : Tail(q)[k] = q[k + 1]
  BY HeadTailProperties
<1>3. Tail(q) = <<>> <=> Len(Tail(q)) = 0
  BY <1>2
<1>4. QED
  BY <1>1, <1>2, <1>3

LEMMA AppendFacts ==
  ASSUME NEW S, NEW q \in Seq(S), NEW e \in S
  PROVE  /\ Len(Append(q, e)) = Len(q) + 1 /\ Len(q) \in Nat
         /\ \A k \in 1 .. Len(q) : Append(q, e)[k] = q[k]
         /\ Append(q, e)[Len(q) + 1] = e
         /\ Append(q, e) # <<>>
OBVIOUS

LEMMA EmptyFacts ==
  ASSUME NEW S, NEW q \in Seq(S)
  PROVE  q = <<>> <=> Len(q) = 0
OBVIOUS

LEMMA DeleteStep ==
  ASSUME TypeInv, OwnerInv, NEW t \in Thread, Delete(t)
  PROVE  ListShape' /\ OneOwner'
<1> USE DEF OwnerInv
<1>1. fifo \in Seq(Entry) /\ Len(fifo) \in Nat /\ next \in [Entry -> Entry \cup {NULL}]
  BY DEF TypeInv, TypeOK, HeapTypeOK
<1>2. /\ pc[t] = "delete" /\ pc' = [pc EXCEPT ![t] = "insert"]
      /\ old_me' = [old_me EXCEPT ![t] = list_head]
      /\ list_head' = IF list_head = NULL THEN NULL ELSE next[list_head]
      /\ list_tail' = IF list_head' = NULL THEN NULL ELSE list_tail
      /\ UNCHANGED <<next, entries, new_me>>
      /\ fifo' = IF fifo = <<>> THEN fifo ELSE Tail(fifo)
  BY DEF Delete, list_delete, heap, At, Goto
<1>3. old_me[t] = NULL
  BY <1>2 DEF NoOldYet
<1>4. DOMAIN pc = Thread /\ DOMAIN old_me = Thread
  BY DEF TypeInv, TypeOK, ControlTypeOK, LocalTypeOK
<1>5. /\ \A u \in Thread : HasNew(u)' <=> HasNew(u)
      /\ \A u \in Thread \ {t} : (HasOld(u)' <=> HasOld(u)) /\ old_me'[u] = old_me[u]
      /\ HasOld(t)' <=> list_head # NULL
      /\ ~ HasOld(t) /\ old_me'[t] = list_head
  BY <1>2, <1>3, <1>4 DEF HasNew, HasOld
<1>6. CASE fifo = <<>>
  <2>1. list_head = NULL /\ list_tail = NULL
    BY <1>6 DEF ListShape
  <2>2. ListShape'
    BY <1>2, <1>6, <2>1 DEF ListShape
  <2>3. OneOwner'
    BY <1>2, <1>5, <1>6, <2>1, OwnersKept
  <2>4. QED BY <2>2, <2>3
<1>7. CASE fifo # <<>>
  <2> DEFINE n == Len(fifo)
  <2>1. /\ n \in Nat \ {0} /\ Len(fifo') = n - 1
        /\ \A k \in 1 .. n - 1 : fifo'[k] = fifo[k + 1]
        /\ fifo' = <<>> <=> n = 1
    BY <1>1, <1>2, <1>7, TailFacts
  <2>2. \A k \in 1 .. n : fifo[k] \in Entry /\ fifo[k] # NULL
    BY <1>1, BlocksAssumption
  <2>3. list_head = fifo[1] /\ list_head # NULL
    BY <1>7, <2>1, <2>2 DEF ListShape
  <2>4. ListShape'
    <3>1. CASE n = 1
      <4>1. list_head' = NULL /\ list_tail' = NULL
        BY <1>2, <1>7, <2>3, <3>1 DEF ListShape
      <4>2. fifo' = <<>> /\ Len(fifo') = 0
        BY <2>1, <3>1
      <4>3. QED
        BY <4>1, <4>2 DEF ListShape
    <3>2. CASE n # 1
      <4>1. list_head' = fifo[2] /\ list_head' # NULL
        BY <1>2, <1>7, <2>1, <2>2, <2>3, <3>2 DEF ListShape
      <4>2. list_tail' = fifo[n] /\ fifo'[n - 1] = fifo[n] /\ fifo'[1] = fifo[2]
        BY <1>2, <1>7, <2>1, <3>2, <4>1 DEF ListShape
      <4>3. \A k \in 1 .. n - 2 : next[fifo'[k]] = fifo'[k + 1]
        BY <2>1, <3>2 DEF ListShape
      <4>4. QED
        BY <1>2, <1>7, <2>1, <3>2, <4>1, <4>2, <4>3 DEF ListShape
    <3>3. QED BY <3>1, <3>2
  <2>5. \A e : (\E k \in 1 .. n : fifo[k] = e) <=>
               (\E k \in 1 .. n - 1 : fifo'[k] = e) \/ e = fifo[1]
    <3>1. \A k \in 1 .. n : k = 1 \/ k - 1 \in 1 .. n - 1
      BY <2>1
    <3>2. \A k \in 1 .. n - 1 : k + 1 \in 1 .. n
      BY <2>1
    <3>3. 1 \in 1 .. n
      BY <2>1
    <3>4. \A k \in 1 .. n : k # 1 => fifo'[k - 1] = fifo[k]
      BY <2>1
    <3>5. QED
      BY <2>1, <3>1, <3>2, <3>3, <3>4
  <2>6. \A j, k \in 1 .. n - 1 : fifo'[j] = fifo'[k] => j = k
    BY <2>1 DEF OneOwner
  <2>7. \A k \in 1 .. n - 1 : fifo'[k] # fifo[1]
    BY <2>1 DEF OneOwner
  <2>8. \A e \in Entry : Owned(e)' <=> Owned(e)
    BY <1>2, <1>5, <2>1, <2>3, <2>5 DEF Owned
  <2>9. OneOwner'
    BY <1>2, <1>5, <2>1, <2>3, <2>6, <2>7, <2>8 DEF OneOwner
  <2>10. QED BY <2>4, <2>9
<1>8. QED
  BY <1>6, <1>7

LEMMA InsertStep ==
  ASSUME TypeInv, OwnerInv, NEW t \in Thread, Insert(t)
  PROVE  ListShape' /\ OneOwner'
<1> USE DEF OwnerInv
<1> DEFINE me == new_me[t]
<1> DEFINE n == Len(fifo)
<1>1. fifo \in Seq(Entry) /\ n \in Nat /\ next \in [Entry -> Entry \cup {NULL}]
  BY DEF TypeInv, TypeOK, HeapTypeOK
<1>2. /\ pc[t] = "insert" /\ pc' = [pc EXCEPT ![t] = "unlock"]
      /\ next' = IF list_tail = NULL
                 THEN [next EXCEPT ![me] = NULL]
                 ELSE [next EXCEPT ![me] = NULL, ![list_tail] = me]
      /\ list_head' = IF list_tail = NULL THEN me ELSE list_head
      /\ list_tail' = me
      /\ UNCHANGED <<entries, new_me, old_me>>
      /\ fifo' = Append(fifo, me)
  BY DEF Insert, list_insert, heap, local, At, Goto
<1>3. DOMAIN pc = Thread
  BY DEF TypeInv, TypeOK, ControlTypeOK
<1>4. me \in Entry /\ me # NULL
  BY <1>2, BlocksAssumption DEF TypeInv, ThreadOK
<1>5. /\ \A u \in Thread \ {t} : HasNew(u)' <=> HasNew(u)
      /\ HasNew(t) /\ ~ HasNew(t)'
      /\ \A u \in Thread : HasOld(u)' <=> HasOld(u)
  BY <1>2, <1>3 DEF HasNew, HasOld
<1>6. /\ Len(fifo') = n + 1 /\ fifo'[n + 1] = me /\ fifo' # <<>>
      /\ \A k \in 1 .. n : fifo'[k] = fifo[k]
  BY <1>1, <1>2, <1>4, AppendFacts
<1>7. \A k \in 1 .. n : fifo[k] \in Entry /\ fifo[k] # NULL /\ fifo[k] # me
  BY <1>1, <1>5, BlocksAssumption DEF OneOwner
<1> HIDE DEF me, n
<1>8. ListShape'
  <2>1. CASE fifo = <<>>
    <3>1. n = 0 /\ list_tail = NULL
      BY <2>1 DEF n, ListShape
    <3>2. QED
      BY <1>1, <1>2, <1>4, <1>6, <3>1 DEF ListShape
  <2>2. CASE fifo # <<>>
    <3>1. n \in Nat \ {0}
      BY <1>1, <2>2, EmptyFacts DEF n
    <3>2. /\ list_head = fifo[1] /\ list_tail = fifo[n] /\ list_tail # NULL
          /\ list_tail \in Entry /\ list_tail # me
          /\ \A k \in 1 .. n - 1 : next[fifo[k]] = fifo[k + 1]
      BY <1>7, <2>2, <3>1 DEF n, ListShape
    <3>3. next' = [next EXCEPT ![me] = NULL, ![list_tail] = me]
      BY <1>2, <3>2
    <3>4. next'[me] = NULL /\ next'[list_tail] = me
      BY <1>1, <1>4, <3>2, <3>3
    <3>5. \A k \in 1 .. n - 1 : fifo[k] # list_tail
      BY <1>1, <3>1, <3>2 DEF n, OneOwner
    <3>6. \A k \in 1 .. n - 1 : next'[fifo[k]] = fifo[k + 1]
      BY <1>1, <1>4, <1>7, <3>1, <3>2, <3>3, <3>5
    <3>7. \A k \in 1 .. n : next'[fifo'[k]] = fifo'[k + 1]
      BY <1>6, <3>1, <3>2, <3>4, <3>6
    <3>8. list_head' = fifo'[1] /\ list_tail' = me
      BY <1>2, <1>6, <3>1, <3>2
    <3>9. QED
      BY <1>1, <1>6, <3>4, <3>7, <3>8 DEF ListShape
  <2>3. QED BY <2>1, <2>2
<1>9. OneOwner'
  <2>1. \A e : (\E k \in 1 .. n + 1 : fifo'[k] = e) <=>
               (\E k \in 1 .. n : fifo[k] = e) \/ e = me
    <3>1. \A k \in 1 .. n + 1 : k \in 1 .. n \/ k = n + 1
      BY <1>1
    <3>2. n + 1 \in 1 .. n + 1 /\ \A k \in 1 .. n : k \in 1 .. n + 1
      BY <1>1
    <3>3. QED
      BY <1>6, <3>1, <3>2
  <2>2. \A e \in Entry : Owned(e)' <=> Owned(e)
    BY <1>2, <1>5, <1>6, <2>1 DEF Owned, me, n
  <2>3. \A j, k \in 1 .. n + 1 : fifo'[j] = fifo'[k] => j = k
    <3>1. \A j \in 1 .. n + 1 : j \in 1 .. n \/ j = n + 1
      BY <1>1
    <3>2. QED
      BY <1>6, <1>7, <3>1 DEF n, OneOwner
  <2>4. \A k \in 1 .. n + 1, u \in Thread :
          /\ HasNew(u)' => fifo'[k] # new_me'[u]
          /\ HasOld(u)' => fifo'[k] # old_me'[u]
    <3>1. \A k \in 1 .. n + 1 : fifo'[k] = me \/ (k \in 1 .. n /\ fifo'[k] = fifo[k])
      BY <1>1, <1>6
    <3>2. \A u \in Thread : (HasNew(u)' => me # new_me'[u]) /\ (HasOld(u)' => me # old_me'[u])
      BY <1>2, <1>5 DEF OneOwner, me
    <3>3. QED
      BY <1>2, <1>5, <3>1, <3>2 DEF OneOwner, n
  <2>5. \A u, v \in Thread :
          /\ HasNew(u)' /\ HasOld(v)' => new_me'[u] # old_me'[v]
          /\ u # v /\ HasNew(u)' /\ HasNew(v)' => new_me'[u] # new_me'[v]
          /\ u # v /\ HasOld(u)' /\ HasOld(v)' => old_me'[u] # old_me'[v]
    BY <1>2, <1>5 DEF OneOwner
  <2>6. \A e \in Entry : e \in entries' <=> Owned(e)'
    BY <1>2, <2>2 DEF OneOwner
  <2>7. QED
    BY <1>6, <2>3, <2>4, <2>5, <2>6 DEF OneOwner
<1>10. QED
  BY <1>8, <1>9

LEMMA OwnerWorkStep ==
  ASSUME TypeInv, OwnerInv, NEW t \in Thread, Work(t)
  PROVE  OwnerInv'
<1>1. NoOldYet'
  BY NoOldYetStep DEF OwnerInv
<1>2. \A u \in Thread \ {t} :
        /\ HasNew(u)' <=> HasNew(u)
        /\ HasOld(u)' <=> HasOld(u)
        /\ new_me'[u] = new_me[u] /\ old_me'[u] = old_me[u]
  BY OthersUnchanged DEF Mine, HasNew, HasOld
<1> USE DEF OwnerInv, TypeInv, TypeOK, ControlTypeOK, LocalTypeOK, At, Goto
<1>3. CASE Malloc(t)
  <2>1. PICK me \in Entry \ entries :
          entries' = entries \cup {me} /\ new_me' = [new_me EXCEPT ![t] = me]
    BY <1>3 DEF Malloc
  <2>2. new_me'[t] = me /\ HasNew(t)' /\ ~ HasNew(t) /\ ~ HasOld(t) /\ ~ HasOld(t)'
    BY <1>3, <2>1 DEF Malloc, HasNew, HasOld
  <2>3. UNCHANGED <<list, fifo, old_me>>
    BY <1>3 DEF Malloc
  <2>4. ListShape'
    BY <2>3 DEF ListShape, list
  <2>5. ~ Owned(me)
    BY <2>1 DEF OneOwner
  <2>6. \A e \in Entry : Owned(e)' <=> Owned(e) \/ e = me
    BY <1>2, <2>2, <2>3 DEF Owned
  <2>7. OneOwner'
    <3>1. \A e \in Entry : e \in entries' <=> Owned(e)'
      BY <2>1, <2>6 DEF OneOwner
    <3>2. /\ \A k \in 1 .. Len(fifo) : fifo[k] # me
          /\ \A u \in Thread : (HasNew(u) => new_me[u] # me) /\ (HasOld(u) => old_me[u] # me)
      BY <2>5 DEF Owned
    <3>3. \A j, k \in 1 .. Len(fifo) : fifo[j] = fifo[k] => j = k
      BY DEF OneOwner
    <3>4. \A k \in 1 .. Len(fifo), u \in Thread :
            /\ HasNew(u)' => fifo[k] # new_me'[u]
            /\ HasOld(u)' => fifo[k] # old_me'[u]
      BY <1>2, <2>2, <2>3, <3>2 DEF OneOwner
    <3>5. ASSUME NEW u \in Thread, NEW v \in Thread
          PROVE  /\ HasNew(u)' /\ HasOld(v)' => new_me'[u] # old_me'[v]
                 /\ u # v /\ HasNew(u)' /\ HasNew(v)' => new_me'[u] # new_me'[v]
                 /\ u # v /\ HasOld(u)' /\ HasOld(v)' => old_me'[u] # old_me'[v]
      <4>1. CASE u # t /\ v # t
        BY <1>2, <2>3, <4>1 DEF OneOwner
      <4>2. CASE u = t /\ v # t
        BY <1>2, <2>2, <2>3, <3>2, <4>2
      <4>3. CASE u # t /\ v = t
        BY <1>2, <2>2, <2>3, <3>2, <4>3
      <4>4. CASE u = t /\ v = t
        BY <2>2, <4>4
      <4>5. QED
        BY <4>1, <4>2, <4>3, <4>4
    <3>6. QED
      BY <2>3, <3>1, <3>3, <3>4, <3>5 DEF OneOwner
  <2>8. QED BY <1>1, <2>4, <2>7
<1>4. CASE Delete(t) BY <1>1, <1>4, DeleteStep
<1>5. CASE Insert(t) BY <1>1, <1>5, InsertStep
<1>6. CASE FreeEntry(t)
  <2>1. entries' = entries \ {old_me[t]} /\ UNCHANGED <<list, fifo, new_me, old_me>>
    BY <1>6 DEF FreeEntry, local
  <2>2. HasOld(t) /\ ~ HasOld(t)' /\ ~ HasNew(t) /\ ~ HasNew(t)'
    BY <1>6 DEF FreeEntry, HasNew, HasOld, NoOldYet
  <2>3. ListShape'
    BY <2>1 DEF ListShape, list
  <2>4. \A e \in Entry : Owned(e)' <=> Owned(e) /\ e # old_me[t]
    <3>1. /\ \A k \in 1 .. Len(fifo) : fifo[k] # old_me[t]
          /\ \A u \in Thread : HasNew(u) => new_me[u] # old_me[t]
          /\ \A u \in Thread \ {t} : HasOld(u) => old_me[u] # old_me[t]
      BY <2>2 DEF OneOwner
    <3>2. \A e : (\E u \in Thread : HasOld(u)' /\ old_me'[u] = e) <=>
                 (\E u \in Thread : HasOld(u) /\ old_me[u] = e) /\ e # old_me[t]
      BY <1>2, <2>1, <2>2, <3>1
    <3>3. \A e : (\E u \in Thread : HasNew(u)' /\ new_me'[u] = e) <=>
                 (\E u \in Thread : HasNew(u) /\ new_me[u] = e)
      <4>1. \A u \in Thread : HasNew(u)' <=> HasNew(u)
        BY <1>2, <2>2
      <4>2. QED
        BY <2>1, <4>1
    <3>4. SUFFICES ASSUME NEW e \in Entry PROVE Owned(e)' <=> Owned(e) /\ e # old_me[t]
      OBVIOUS
    <3>5. CASE e = old_me[t]
      <4>1. ~ \E k \in 1 .. Len(fifo) : fifo[k] = e
        BY <3>1, <3>5
      <4>2. ~ \E u \in Thread : HasNew(u) /\ new_me[u] = e
        BY <3>1, <3>5
      <4>3. QED
        BY <2>1, <3>2, <3>3, <3>5, <4>1, <4>2 DEF Owned
    <3>6. CASE e # old_me[t]
      <4>1. (\E u \in Thread : HasOld(u)' /\ old_me'[u] = e) <=>
            (\E u \in Thread : HasOld(u) /\ old_me[u] = e)
        BY <3>2, <3>6
      <4>2. QED
        BY <2>1, <3>3, <3>6, <4>1 DEF Owned
    <3>7. QED BY <3>5, <3>6
  <2>5. OneOwner'
    BY <1>2, <2>1, <2>2, <2>4 DEF OneOwner
  <2>6. QED BY <1>1, <2>3, <2>5
<1>7. CASE ~ (Malloc(t) \/ Delete(t) \/ Insert(t) \/ FreeEntry(t))
  <2>1. UNCHANGED <<list, fifo, entries>>
    BY <1>7 DEF Work, MallocFails, Fill, Lock, Unlock, Verify, FreeInfo, Clock, heap, list
  <2>2. /\ HasNew(t)' <=> HasNew(t)
        /\ HasOld(t)' <=> HasOld(t)
        /\ HasNew(t) => new_me'[t] = new_me[t]
        /\ HasOld(t) => old_me'[t] = old_me[t]
    <3> USE DEF HasNew, HasOld, loop, local, NoOldYet
    <3>1. CASE MallocFails(t) BY <3>1 DEF MallocFails
    <3>2. CASE Fill(t) BY <3>2 DEF Fill
    <3>3. CASE Lock(t) BY <3>3 DEF Lock
    <3>4. CASE Unlock(t)
      <4>1. CASE old_me[t] = NULL BY <3>4, <4>1 DEF Unlock, Return
      <4>2. CASE old_me[t] # NULL BY <3>4, <4>2 DEF Unlock
      <4>3. QED BY <4>1, <4>2
    <3>5. CASE Verify(t) BY <3>5 DEF Verify
    <3>6. CASE FreeInfo(t) BY <3>6 DEF FreeInfo, Return
    <3>7. CASE Clock(t) BY <3>7 DEF Clock
    <3>8. QED
      BY <1>7, <3>1, <3>2, <3>3, <3>4, <3>5, <3>6, <3>7 DEF Work
  <2>3. OneOwner'
    BY <1>2, <2>1, <2>2, OwnersKept
  <2>4. ListShape'
    BY <2>1 DEF ListShape, list
  <2>5. QED BY <1>1, <2>3, <2>4
<1>8. QED
  BY <1>3, <1>4, <1>5, <1>6, <1>7

LEMMA OwnerStep == TypeInv /\ MutexInv /\ OwnerInv /\ [Next]_vars => OwnerInv'
<1> SUFFICES ASSUME TypeInv, MutexInv, OwnerInv, [Next]_vars PROVE OwnerInv'
  OBVIOUS
<1>1. ASSUME NEW t \in Thread, Work(t) PROVE OwnerInv'
  BY <1>1, OwnerWorkStep
<1>2. CASE Create
  <2>1. UNCHANGED <<list, entries, fifo, new_me, old_me>>
    BY <1>2 DEF Create, heap, local
  <2>2. \A u \in Thread :
          pc'[u] = pc[u] \/ (pc[u] \in {"create", "unborn"} /\ pc'[u] = "malloc")
    <3>1. num[Main] < NumThreads => num[Main] \in Thread /\ pc[num[Main]] = "unborn"
      <4>1. num[Main] \in Nat \ {0} /\ pc[Main] = "create"
        BY <1>2, ConstantFacts DEF Create, At, TypeInv, TypeOK, LocalTypeOK
      <4>2. num[Main] < NumThreads => num[Main] \in Thread
        BY <4>1, SizesAssumption DEF Thread
      <4>3. QED
        BY <4>1, <4>2 DEF MutexInv, Unborn, Thread
    <3>2. QED
      BY <1>2, <3>1, ConstantFacts DEF Create, At, Goto, TypeInv, TypeOK, ControlTypeOK
  <2>3. \A u \in Thread : (HasNew(u)' <=> HasNew(u)) /\ (HasOld(u)' <=> HasOld(u))
    BY <2>1, <2>2 DEF HasNew, HasOld
  <2>4. OneOwner'
    BY <2>1, <2>3, OwnersKept DEF OwnerInv
  <2>5. ListShape' /\ NoOldYet'
    BY <2>1, <2>2 DEF OwnerInv, ListShape, NoOldYet, list
  <2>6. QED BY <2>4, <2>5 DEF OwnerInv
<1>3. ASSUME UNCHANGED <<list, entries, fifo, new_me, old_me, pc>> PROVE OwnerInv'
  <2>1. OneOwner'
    BY <1>3, OwnersKept DEF OwnerInv, HasNew, HasOld
  <2>2. QED
    BY <1>3, <2>1 DEF OwnerInv, ListShape, NoOldYet, list
<1>4. CASE CreateFails \/ Join \/ Tick \/ UNCHANGED vars
  BY <1>3, <1>4 DEF CreateFails, Join, Tick, vars, heap, local
<1>5. QED
  BY <1>1, <1>2, <1>4 DEF Next, Exited

\* Every allocated entry is in the list or with the one thread that made or took it:
\* none is lost, freed twice or used by two threads (memstress.c:111-141, 158-210).
THEOREM OneOwnerEach == Spec => []SingleOwner
<1>1. QED
  BY TypeInit, TypeStep, MutexInit, MutexStep, OwnerInit, OwnerStep, OwnerMeansSingle, PTL
  DEF Spec

-----------------------------------------------------------------------------
(* The blocks of infos.  An entry is made once its maker does not have it  *)
(* any more; its block then belongs to it until the entry is freed, and to *)
(* the thread that freed it after that.                                    *)

Made(e) == e \in entries /\ \A t \in Thread : HasNew(t) => new_me[t] # e
HasInfo(t) == pc[t] = "free_info"

InfoOwned(m) ==
  \/ \E e \in Entry : Made(e) /\ info[e] = m
  \/ \E t \in Thread : HasNew(t) /\ new_mi[t] = m
  \/ \E t \in Thread : HasInfo(t) /\ old_mi[t] = m

OneInfoOwner ==
  /\ \A m \in Info : m \in infos <=> InfoOwned(m)
  /\ \A e, f \in Entry : Made(e) /\ Made(f) /\ info[e] = info[f] => e = f
  /\ \A e \in Entry, t \in Thread :
       /\ Made(e) /\ HasNew(t) => info[e] # new_mi[t]
       /\ Made(e) /\ HasInfo(t) => info[e] # old_mi[t]
  /\ \A t, u \in Thread :
       /\ HasNew(t) /\ HasInfo(u) => new_mi[t] # old_mi[u]
       /\ t # u /\ HasNew(t) /\ HasNew(u) => new_mi[t] # new_mi[u]
       /\ t # u /\ HasInfo(t) /\ HasInfo(u) => old_mi[t] # old_mi[u]

\* The cells of a block are filled one by one, then all alike for as long as the
\* block belongs to an entry, which is what a thread that verifies it looks at.
Alike(m) == \A c, d \in Cell : a[m][c] = a[m][d]
Filled(t) ==
  /\ pc[t] = "fill" => \A c \in Cell : c < i[t] => a[new_mi[t]][c] = t
  /\ pc[t] \in {"lock", "delete", "insert"} =>
       /\ info[new_me[t]] = new_mi[t] /\ new_mi[t] \in Info
       /\ Alike(new_mi[t])
Verified(t) ==
  /\ pc[t] = "verify" /\ i[t] > 0 =>
       /\ old_mi[t] = info[old_me[t]]
       /\ val[t] = a[old_mi[t]][0]
  /\ pc[t] = "free_entry" => old_mi[t] = info[old_me[t]]
  /\ pc[t] = "free_info" => old_mi[t] \in Info

Contents ==
  /\ \A e \in Entry : Made(e) => info[e] \in Info /\ Alike(info[e])
  /\ \A t \in Thread : Filled(t) /\ Verified(t)

InfoInv == OneInfoOwner /\ Contents /\ status # "corruption"

-----------------------------------------------------------------------------
(* The seeds. *)

\* What a thread does while it seeds; later it always finds an entry to take.
SeedingOf(t) ==
  /\ phase[t] = "seed" =>
       /\ pc[t] \in {"unborn", "create", "malloc", "fill", "lock", "insert", "unlock"}
       /\ pc[t] \in {"insert", "unlock"} => old_me[t] = NULL
       /\ pc[t] # "create" => num[t] <= Seed
       /\ pc[t] = "unborn" => num[t] = 1
  /\ phase[t] = "work" => /\ pc[t] \notin {"unborn", "create"}
                          /\ pc[t] \in {"insert", "unlock"} => old_me[t] # NULL
  /\ pc[t] = "clock" => num[t] = 1
Seeding == \A t \in Thread : SeedingOf(t)

\* The seeds a thread has put in the list, and all of them.
Seeded(t) ==
  IF phase[t] = "work" THEN Seed
  ELSE IF pc[t] = "create" THEN 0
  ELSE IF pc[t] = "unlock" THEN num[t] ELSE num[t] - 1
Seeds == {s \in Thread \X (1 .. Seed) : s[2] <= Seeded(s[1])}

\* Between delete and insert one of them is out of the list.
Between == \E t \in Thread : pc[t] = "insert" /\ phase[t] = "work"
SeedsInList == Len(fifo) + (IF Between THEN 1 ELSE 0) = Cardinality(Seeds)

\* main's loops.
Joins ==
  /\ \A t \in Thread : (pc[t] = "join" => t = Main) /\ (pc[t] = "done" => t # Main)
  /\ pc[Main] = "join" => \A u \in Thread \ {Main} : u < num[Main] => pc[u] = "done"
  /\ status = "exited" =>
       pc[Main] = "join" /\ \A u \in Thread \ {Main} : pc[u] = "done"

ExitInv == Seeding /\ SeedsInList /\ Joins

LEMMA InfoInit == Init => InfoInv
<1> SUFFICES ASSUME Init PROVE InfoInv
  OBVIOUS
<1>1. \A t \in Thread : pc[t] \in {"create", "unborn"}
  BY DEF Init
<1>2. \A t \in Thread : ~ HasNew(t) /\ ~ HasInfo(t)
  BY <1>1 DEF HasNew, HasInfo
<1>3. \A e \in Entry : ~ Made(e)
  BY DEF Init, Made
<1>4. OneInfoOwner
  BY <1>2, <1>3 DEF Init, OneInfoOwner, InfoOwned
<1>5. Contents /\ status # "corruption"
  BY <1>1, <1>3 DEF Init, Contents, Filled, Verified
<1> QED
  BY <1>4, <1>5 DEF InfoInv

\* Entries that a thread took are made; those it makes are not.
LEMMA TakenIsMade ==
  ASSUME TypeInv, OwnerInv, NEW t \in Thread
  PROVE  /\ HasOld(t) => old_me[t] \in Entry /\ Made(old_me[t])
         /\ HasNew(t) => new_me[t] \in Entry /\ new_me[t] \in entries /\ ~ Made(new_me[t])
         /\ pc[t] \in {"verify", "free_entry"} => HasOld(t)
<1> USE DEF TypeInv, TypeOK, LocalTypeOK, ThreadOK, OwnerInv
<1>1. ASSUME HasOld(t) PROVE old_me[t] \in Entry /\ Made(old_me[t])
  <2>1. old_me[t] \in Entry
    BY <1>1 DEF HasOld
  <2>2. old_me[t] \in entries
    BY <1>1, <2>1 DEF OneOwner, Owned
  <2> QED
    BY <1>1, <2>1, <2>2 DEF Made, OneOwner
<1>2. ASSUME HasNew(t) PROVE new_me[t] \in Entry /\ new_me[t] \in entries /\ ~ Made(new_me[t])
  <2>1. new_me[t] \in Entry
    BY <1>2 DEF HasNew
  <2>2. new_me[t] \in entries
    BY <1>2, <2>1 DEF OneOwner, Owned
  <2> QED
    BY <1>2, <2>1, <2>2 DEF Made
<1>3. pc[t] \in {"verify", "free_entry"} => HasOld(t)
  BY DEF NoOldYet, HasOld
<1> QED
  BY <1>1, <1>2, <1>3

\* A step that moves no block.
LEMMA InfosKept ==
  ASSUME OneInfoOwner, infos' = infos,
         \A e \in Entry : /\ Made(e)' <=> Made(e)
                          /\ Made(e) => info'[e] = info[e],
         \A t \in Thread : /\ HasNew(t)' <=> HasNew(t)
                           /\ HasInfo(t)' <=> HasInfo(t)
                           /\ HasNew(t) => new_mi'[t] = new_mi[t]
                           /\ HasInfo(t) => old_mi'[t] = old_mi[t]
  PROVE  OneInfoOwner'
<1>1. \A m : InfoOwned(m)' <=> InfoOwned(m)
  BY DEF InfoOwned
<1> QED
  BY <1>1 DEF OneInfoOwner

\* What a step of t leaves to the others.
Others(t) ==
  \A u \in Thread \ {t} :
    /\ pc'[u] = pc[u] /\ new_me'[u] = new_me[u] /\ new_mi'[u] = new_mi[u]
    /\ old_me'[u] = old_me[u] /\ old_mi'[u] = old_mi[u] /\ i'[u] = i[u] /\ val'[u] = val[u]

\* A step that writes to no block.
LEMMA ContentsKept ==
  ASSUME Contents, NEW t \in Thread, Others(t), UNCHANGED <<a, info>>,
         \A e \in Entry : Made(e)' => Made(e) \/ (info[e] \in Info /\ Alike(info[e])),
         Filled(t)', Verified(t)'
  PROVE  Contents'
<1>1. \A u \in Thread \ {t} : Filled(u)' /\ Verified(u)'
  BY DEF Contents, Filled, Verified, Others, Alike
<1>2. \A e \in Entry : Made(e)' => info'[e] \in Info /\ Alike(info[e])'
  BY DEF Contents, Alike
<1> QED
  BY <1>1, <1>2 DEF Contents

\* A step of t that neither makes nor frees, nor writes.
LEMMA InfoQuietStep ==
  ASSUME TypeInv, OwnerInv, InfoInv, NEW t \in Thread, Others(t),
         UNCHANGED <<a, info, infos, entries>>, status' # "corruption",
         HasNew(t)' <=> HasNew(t), HasNew(t) => UNCHANGED <<new_me[t], new_mi[t]>>,
         HasInfo(t)' <=> HasInfo(t), HasInfo(t) => UNCHANGED old_mi[t],
         Filled(t)', Verified(t)'
  PROVE  InfoInv'
<1>1. \A u \in Thread : /\ HasNew(u)' <=> HasNew(u)
                        /\ HasInfo(u)' <=> HasInfo(u)
                        /\ HasNew(u) => new_me'[u] = new_me[u] /\ new_mi'[u] = new_mi[u]
                        /\ HasInfo(u) => old_mi'[u] = old_mi[u]
  <2>1. ASSUME NEW u \in Thread \ {t}
        PROVE  /\ HasNew(u)' <=> HasNew(u)
               /\ HasInfo(u)' <=> HasInfo(u)
               /\ HasNew(u) => new_me'[u] = new_me[u] /\ new_mi'[u] = new_mi[u]
               /\ HasInfo(u) => old_mi'[u] = old_mi[u]
    BY DEF Others, HasNew, HasInfo
  <2> QED
    BY <2>1
<1>2. \A e \in Entry : Made(e)' <=> Made(e)
  BY <1>1 DEF Made
<1>3. OneInfoOwner'
  BY <1>1, <1>2, InfosKept DEF InfoInv
<1>4. Contents'
  BY <1>2, ContentsKept DEF InfoInv
<1> QED
  BY <1>3, <1>4 DEF InfoInv

\* malloc: the blocks of t are those that nobody owned.
LEMMA MallocInfo ==
  ASSUME TypeInv, OwnerInv, InfoInv, NEW t \in Thread, Others(t), Malloc(t)
  PROVE  InfoInv'
<1>1. PICK me \in Entry \ entries, mi \in Info \ infos :
        /\ entries' = entries \cup {me} /\ infos' = infos \cup {mi}
        /\ new_me' = [new_me EXCEPT ![t] = me] /\ new_mi' = [new_mi EXCEPT ![t] = mi]
  BY DEF Malloc
<1>2. /\ pc[t] = "malloc" /\ pc'[t] = "fill" /\ i'[t] = 0
      /\ new_me'[t] = me /\ new_mi'[t] = mi
      /\ UNCHANGED <<a, info, status, old_mi>>
  BY <1>1 DEF Malloc, At, Goto, TypeInv, TypeOK, ControlTypeOK, LocalTypeOK
<1>3. /\ ~ HasNew(t) /\ HasNew(t)' /\ ~ HasInfo(t) /\ ~ HasInfo(t)'
      /\ \A u \in Thread \ {t} :
           /\ HasNew(u)' <=> HasNew(u)
           /\ HasInfo(u)' <=> HasInfo(u)
           /\ new_me'[u] = new_me[u] /\ new_mi'[u] = new_mi[u] /\ old_mi'[u] = old_mi[u]
  BY <1>2 DEF HasNew, HasInfo, Others
<1>4. \A e \in Entry : Made(e)' <=> Made(e)
  <2>1. ASSUME NEW e \in Entry PROVE Made(e)' <=> Made(e)
    <3>1. CASE e = me
      BY <1>1, <1>2, <1>3, <3>1 DEF Made
    <3>2. CASE e # me
      BY <1>1, <1>2, <1>3, <3>2 DEF Made
    <3> QED
      BY <3>1, <3>2
  <2> QED
    BY <2>1
<1>5. ~ InfoOwned(mi)
  BY <1>1 DEF InfoInv, OneInfoOwner
<1>6. \A m \in Info : InfoOwned(m)' <=> InfoOwned(m) \/ m = mi
  BY <1>2, <1>3, <1>4 DEF InfoOwned
<1>7. OneInfoOwner'
  <2> USE DEF InfoInv, OneInfoOwner
  <2>1. \A m \in Info : m \in infos' <=> InfoOwned(m)'
    BY <1>1, <1>6
  <2>2. /\ \A e \in Entry : Made(e) => info[e] # mi
        /\ \A u \in Thread : HasNew(u) => new_mi[u] # mi
        /\ \A u \in Thread : HasInfo(u) => old_mi[u] # mi
    BY <1>5 DEF InfoOwned
  <2>3. \A e \in Entry, u \in Thread :
          /\ Made(e)' /\ HasNew(u)' => info'[e] # new_mi'[u]
          /\ Made(e)' /\ HasInfo(u)' => info'[e] # old_mi'[u]
    <3>1. ASSUME NEW e \in Entry, NEW u \in Thread, Made(e), HasNew(u)'
          PROVE  info[e] # new_mi'[u]
      BY <1>2, <1>3, <2>2, <3>1
    <3>2. ASSUME NEW e \in Entry, NEW u \in Thread, Made(e), HasInfo(u)'
          PROVE  info[e] # old_mi'[u]
      BY <1>2, <1>3, <2>2, <3>2
    <3> QED
      BY <1>2, <1>4, <3>1, <3>2
  <2>4. \A u, v \in Thread :
          /\ HasNew(u)' /\ HasInfo(v)' => new_mi'[u] # old_mi'[v]
          /\ u # v /\ HasNew(u)' /\ HasNew(v)' => new_mi'[u] # new_mi'[v]
          /\ u # v /\ HasInfo(u)' /\ HasInfo(v)' => old_mi'[u] # old_mi'[v]
    BY <1>2, <1>3, <2>2
  <2> QED
    BY <1>2, <1>4, <2>1, <2>3, <2>4
<1>8. Filled(t)' /\ Verified(t)'
  <2>1. \A c \in Cell : ~ (c < 0)
    BY ConstantFacts
  <2> QED
    BY <1>2, <2>1 DEF Filled, Verified
<1>9. Contents'
  BY <1>2, <1>4, <1>8, ContentsKept DEF InfoInv
<1> QED
  BY <1>2, <1>7, <1>9 DEF InfoInv

\* A cell is written in a block that no entry has yet.
LEMMA FillInfo ==
  ASSUME TypeInv, OwnerInv, InfoInv, NEW t \in Thread, Others(t), Fill(t)
  PROVE  InfoInv'
<1> DEFINE mi == new_mi[t]
           me == new_me[t]
<1>1. /\ pc[t] = "fill" /\ i[t] \in Cell /\ mi \in Info /\ me \in Entry
      /\ a' = [a EXCEPT ![mi][i[t]] = t]
      /\ UNCHANGED <<entries, infos, status, new_me, new_mi, old_me, old_mi>>
  BY DEF Fill, At, heap, TypeInv, ThreadOK
<1>2. /\ i[t] = Size - 1 => /\ info' = [info EXCEPT ![me] = mi]
                            /\ pc' = [pc EXCEPT ![t] = "lock"] /\ i' = i
      /\ i[t] # Size - 1 => /\ i' = [i EXCEPT ![t] = @ + 1] /\ UNCHANGED <<info, pc>>
  BY DEF Fill, Goto
<1> HIDE DEF mi, me
<1>3. HasNew(t) /\ HasNew(t)' /\ ~ HasInfo(t) /\ ~ HasInfo(t)' /\ pc'[t] \in {"fill", "lock"}
  BY <1>1, <1>2 DEF HasNew, HasInfo, TypeInv, TypeOK, ControlTypeOK
<1>4. /\ a \in [Info -> [Cell -> Thread]] /\ info \in [Entry -> Info \cup {NULL}]
      /\ \A m \in Info : m # mi => a'[m] = a[m]
      /\ \A e \in Entry : e # me => info'[e] = info[e]
      /\ \A c \in Cell : a'[mi][c] = IF c = i[t] THEN t ELSE a[mi][c]
  BY <1>1, <1>2 DEF TypeInv, TypeOK, HeapTypeOK
<1>5. \A u \in Thread : /\ HasNew(u)' <=> HasNew(u)
                        /\ HasInfo(u)' <=> HasInfo(u)
  BY <1>3 DEF Others, HasNew, HasInfo
<1>6. \A e \in Entry : /\ Made(e)' <=> Made(e)
                       /\ Made(e) => e # me /\ info[e] \in Info /\ info[e] # mi
  <2>1. \A e \in Entry : Made(e)' <=> Made(e)
    BY <1>1, <1>5 DEF Made
  <2>2. \A e \in Entry : Made(e) => e # me
    BY <1>3 DEF Made, me
  <2>3. \A e \in Entry : Made(e) => info[e] \in Info /\ info[e] # mi
    BY <1>3 DEF mi, InfoInv, Contents, OneInfoOwner
  <2> QED
    BY <2>1, <2>2, <2>3
<1>7. OneInfoOwner'
  BY <1>1, <1>4, <1>5, <1>6, InfosKept DEF InfoInv
<1>8. \A e \in Entry : Made(e)' => info'[e] \in Info /\ Alike(info[e])'
  BY <1>4, <1>6 DEF InfoInv, Contents, Alike
<1>9. ASSUME NEW u \in Thread \ {t} PROVE Filled(u)' /\ Verified(u)'
  <2>1. Filled(u) /\ Verified(u)
    BY DEF InfoInv, Contents
  <2>2. /\ pc'[u] = pc[u] /\ new_me'[u] = new_me[u] /\ new_mi'[u] = new_mi[u]
        /\ old_me'[u] = old_me[u] /\ old_mi'[u] = old_mi[u] /\ i'[u] = i[u] /\ val'[u] = val[u]
    BY DEF Others
  <2>3. HasNew(u) => new_me[u] # me /\ new_me[u] \in Entry /\ new_mi[u] # mi
    <3>1. HasNew(u) => new_me[u] # me
      BY <1>3 DEF me, OwnerInv, OneOwner
    <3>2. HasNew(u) => new_mi[u] # mi
      BY <1>3 DEF mi, InfoInv, OneInfoOwner
    <3> QED
      BY <3>1, <3>2, TakenIsMade
  <2>4. HasOld(u) => /\ old_me[u] \in Entry /\ old_me[u] # me
                     /\ info[old_me[u]] \in Info /\ info[old_me[u]] # mi
    BY <1>6, TakenIsMade
  <2>5. Filled(u)'
    <3>1. pc[u] = "fill" => new_mi[u] \in Info
      BY DEF TypeInv, ThreadOK
    <3>2. pc[u] = "fill" => \A c \in Cell : c < i[u] => a'[new_mi[u]][c] = u
      BY <1>4, <2>1, <2>3, <3>1 DEF Filled, HasNew
    <3>3. pc[u] \in {"lock", "delete", "insert"} =>
            /\ info'[new_me[u]] = new_mi[u] /\ new_mi[u] \in Info
            /\ a'[new_mi[u]] = a[new_mi[u]] /\ Alike(new_mi[u])
      BY <1>4, <2>1, <2>3 DEF Filled, HasNew
    <3> QED
      BY <2>2, <3>2, <3>3 DEF Filled, Alike
  <2>6. Verified(u)'
    <3>1. pc[u] \in {"verify", "free_entry"} =>
            /\ info'[old_me[u]] = info[old_me[u]]
            /\ a'[info[old_me[u]]] = a[info[old_me[u]]]
      BY <1>4, <2>4, TakenIsMade
    <3> QED
      BY <2>1, <2>2, <3>1 DEF Verified
  <2> QED
    BY <2>5, <2>6
<1>10. Filled(t)'
  <2>1. \A c \in Cell : c < i[t] => a[mi][c] = t
    BY <1>1 DEF InfoInv, Contents, Filled, mi
  <2>2. CASE i[t] = Size - 1
    <3>1. \A c \in Cell : c < i[t] \/ c = i[t]
      BY <2>2, ConstantFacts, SizesAssumption DEF Cell
    <3>2. \A c \in Cell : a'[mi][c] = t
      BY <1>4, <2>1, <3>1
    <3>3. pc'[t] = "lock" /\ info'[me] = mi
      BY <1>1, <1>2, <1>4, <2>2 DEF TypeInv, TypeOK, ControlTypeOK
    <3>4. new_me'[t] = me /\ new_mi'[t] = mi
      BY <1>1 DEF me, mi
    <3> QED
      BY <1>1, <3>2, <3>3, <3>4 DEF Filled, Alike
  <2>3. CASE i[t] # Size - 1
    <3>1. pc'[t] = "fill" /\ i'[t] = i[t] + 1 /\ new_mi'[t] = mi
      BY <1>1, <1>2, <2>3 DEF mi, TypeInv, TypeOK, LocalTypeOK
    <3>2. \A c \in Cell : c < i[t] + 1 => c < i[t] \/ c = i[t]
      BY <1>1, ConstantFacts
    <3>3. \A c \in Cell : c < i[t] + 1 => a'[mi][c] = t
      BY <1>4, <2>1, <3>2
    <3> QED
      BY <3>1, <3>3 DEF Filled
  <2> QED
    BY <2>2, <2>3
<1>11. Verified(t)'
  BY <1>3 DEF Verified
<1> QED
  BY <1>1, <1>7, <1>8, <1>9, <1>10, <1>11 DEF InfoInv, Contents

\* The entry of t, with its block, goes into the list.
LEMMA InsertInfo ==
  ASSUME TypeInv, OwnerInv, InfoInv, NEW t \in Thread, Others(t), Insert(t)
  PROVE  InfoInv'
<1> DEFINE mi == new_mi[t]
           me == new_me[t]
<1>1. /\ pc[t] = "insert" /\ pc'[t] = "unlock"
      /\ UNCHANGED <<entries, infos, a, info, status, new_me, new_mi, old_me, old_mi, i, val>>
  BY DEF Insert, At, Goto, heap, local, TypeInv, TypeOK, ControlTypeOK
<1>2. /\ HasNew(t) /\ ~ HasNew(t)' /\ ~ HasInfo(t) /\ ~ HasInfo(t)'
      /\ \A u \in Thread \ {t} :
           /\ HasNew(u)' <=> HasNew(u)
           /\ HasInfo(u)' <=> HasInfo(u)
  BY <1>1 DEF HasNew, HasInfo, Others
<1>3. /\ me \in Entry /\ me \in entries /\ ~ Made(me)
      /\ mi \in Info /\ info[me] = mi /\ Alike(mi)
  BY <1>1, <1>2, TakenIsMade DEF InfoInv, Contents, Filled
<1> HIDE DEF mi, me
<1>4. \A e \in Entry : Made(e)' <=> Made(e) \/ e = me
  <2>1. \A u \in Thread \ {t} : HasNew(u) => new_me[u] # me
    BY <1>2 DEF me, OwnerInv, OneOwner
  <2> QED
    BY <1>1, <1>2, <1>3, <2>1 DEF Made, me
<1>5. /\ \A e \in Entry : Made(e) => info[e] # mi
      /\ \A u \in Thread \ {t} : HasNew(u) => new_mi[u] # mi
      /\ \A u \in Thread : HasInfo(u) => old_mi[u] # mi
  BY <1>2 DEF mi, InfoInv, OneInfoOwner
<1>6. OneInfoOwner'
  <2>1. \A m : InfoOwned(m)' <=> InfoOwned(m)
    <3>1. \A m : (\E e \in Entry : Made(e)' /\ info'[e] = m)
                 <=> (\E e \in Entry : Made(e) /\ info[e] = m) \/ m = mi
      BY <1>1, <1>3, <1>4
    <3>2. \A m : (\E u \in Thread : HasNew(u) /\ new_mi[u] = m)
                 <=> (\E u \in Thread : HasNew(u)' /\ new_mi'[u] = m) \/ m = mi
      BY <1>1, <1>2 DEF mi
    <3>3. \A m : (\E u \in Thread : HasInfo(u)' /\ old_mi'[u] = m)
                 <=> (\E u \in Thread : HasInfo(u) /\ old_mi[u] = m)
      BY <1>1, <1>2
    <3> QED
      BY <3>1, <3>2, <3>3 DEF InfoOwned
  <2>2. \A e, f \in Entry : Made(e)' /\ Made(f)' /\ info'[e] = info'[f] => e = f
    BY <1>1, <1>3, <1>4, <1>5 DEF InfoInv, OneInfoOwner
  <2>3. \A e \in Entry, u \in Thread :
          /\ Made(e)' /\ HasNew(u)' => info'[e] # new_mi'[u]
          /\ Made(e)' /\ HasInfo(u)' => info'[e] # old_mi'[u]
    BY <1>1, <1>2, <1>3, <1>4, <1>5 DEF InfoInv, OneInfoOwner
  <2>4. \A u, v \in Thread :
          /\ HasNew(u)' /\ HasInfo(v)' => new_mi'[u] # old_mi'[v]
          /\ u # v /\ HasNew(u)' /\ HasNew(v)' => new_mi'[u] # new_mi'[v]
          /\ u # v /\ HasInfo(u)' /\ HasInfo(v)' => old_mi'[u] # old_mi'[v]
    BY <1>1, <1>2 DEF InfoInv, OneInfoOwner
  <2> QED
    BY <1>1, <2>1, <2>2, <2>3, <2>4 DEF InfoInv, OneInfoOwner
<1>7. Filled(t)' /\ Verified(t)'
  BY <1>1 DEF Filled, Verified
<1>8. Contents'
  BY <1>1, <1>3, <1>4, <1>7, ContentsKept DEF InfoInv
<1> QED
  BY <1>1, <1>6, <1>8 DEF InfoInv

\* The cells that a thread compares with the first are all like it.
LEMMA VerifyInfo ==
  ASSUME TypeInv, OwnerInv, InfoInv, NEW t \in Thread, Others(t), Verify(t)
  PROVE  InfoInv'
<1> DEFINE m == info[old_me[t]]
<1>1. /\ pc[t] = "verify" /\ i[t] \in Cell /\ old_me[t] \in Entry
      /\ UNCHANGED <<entries, infos, a, info, new_me, new_mi, old_me>>
      /\ i'[t] = i[t] + 1 /\ pc'[t] \in {"verify", "free_entry"}
  BY DEF Verify, At, Goto, heap, TypeInv, ThreadOK, TypeOK, ControlTypeOK, LocalTypeOK
<1>2. m \in Info /\ Alike(m)
  BY <1>1, TakenIsMade DEF InfoInv, Contents
<1>3. i[t] = 0 => old_mi'[t] = m /\ val'[t] = a[m][0] /\ status' = status
  BY <1>1 DEF Verify, TypeInv, TypeOK, LocalTypeOK
<1>4. i[t] # 0 => /\ old_mi'[t] = old_mi[t] /\ val'[t] = val[t]
                  /\ status' = IF a[old_mi[t]][i[t]] # val[t] THEN "corruption" ELSE status
  BY <1>1 DEF Verify
<1>5. i[t] # 0 => old_mi[t] = m /\ val[t] = a[m][0]
  <2>1. i[t] # 0 => i[t] > 0
    <3>1. i[t] \in Nat
      BY <1>1, SizesAssumption DEF Cell
    <3> QED
      BY <3>1
  <2>2. Verified(t)
    BY DEF InfoInv, Contents
  <2> QED
    BY <1>1, <2>1, <2>2 DEF Verified
<1>6. a[m][i[t]] = a[m][0]
  BY <1>1, <1>2, ConstantFacts DEF Alike
<1>7. old_mi'[t] = m /\ val'[t] = a[m][0] /\ status' = status
  BY <1>3, <1>4, <1>5, <1>6
<1>8. Filled(t)' /\ Verified(t)'
  BY <1>1, <1>7 DEF Filled, Verified
<1>9. ~ HasNew(t) /\ ~ HasNew(t)' /\ ~ HasInfo(t) /\ ~ HasInfo(t)'
  BY <1>1 DEF HasNew, HasInfo
<1> QED
  BY <1>1, <1>7, <1>8, <1>9, InfoQuietStep DEF InfoInv

\* The block passes from the entry that is freed to the thread that frees it.
LEMMA FreeEntryInfo ==
  ASSUME TypeInv, OwnerInv, InfoInv, NEW t \in Thread, Others(t), FreeEntry(t)
  PROVE  InfoInv'
<1> DEFINE me == old_me[t]
           mi == old_mi[t]
<1>1. /\ pc[t] = "free_entry" /\ pc'[t] = "free_info"
      /\ entries' = entries \ {me}
      /\ UNCHANGED <<infos, a, info, status, new_me, new_mi, old_me, old_mi, i, val>>
  BY DEF FreeEntry, At, Goto, local, TypeInv, TypeOK, ControlTypeOK
<1>2. /\ ~ HasNew(t) /\ ~ HasNew(t)' /\ ~ HasInfo(t) /\ HasInfo(t)'
      /\ \A u \in Thread \ {t} :
           /\ HasNew(u)' <=> HasNew(u)
           /\ HasInfo(u)' <=> HasInfo(u)
  BY <1>1 DEF HasNew, HasInfo, Others
<1>3. me \in Entry /\ Made(me) /\ mi \in Info /\ info[me] = mi
  <2>1. me \in Entry /\ Made(me)
    BY <1>1, TakenIsMade
  <2> QED
    BY <1>1, <2>1 DEF InfoInv, Contents, Verified
<1> HIDE DEF mi, me
<1>4. \A e \in Entry : Made(e)' <=> Made(e) /\ e # me
  <2>1. \A u \in Thread : HasNew(u)' <=> HasNew(u)
    BY <1>2
  <2> QED
    BY <1>1, <2>1 DEF Made
<1>5. /\ \A e \in Entry : Made(e) /\ e # me => info[e] # mi
      /\ \A u \in Thread : HasNew(u) => new_mi[u] # mi
      /\ \A u \in Thread : HasInfo(u) => old_mi[u] # mi
  BY <1>3 DEF InfoInv, OneInfoOwner
<1>6. OneInfoOwner'
  <2>1. \A m : InfoOwned(m)' <=> InfoOwned(m)
    <3>1. \A m : (\E e \in Entry : Made(e) /\ info[e] = m)
                 <=> (\E e \in Entry : Made(e)' /\ info'[e] = m) \/ m = mi
      BY <1>1, <1>3, <1>4
    <3>2. \A m : (\E u \in Thread : HasNew(u)' /\ new_mi'[u] = m)
                 <=> (\E u \in Thread : HasNew(u) /\ new_mi[u] = m)
      BY <1>1, <1>2
    <3>3. \A m : (\E u \in Thread : HasInfo(u)' /\ old_mi'[u] = m)
                 <=> (\E u \in Thread : HasInfo(u) /\ old_mi[u] = m) \/ m = mi
      BY <1>1, <1>2 DEF mi
    <3> QED
      BY <3>1, <3>2, <3>3 DEF InfoOwned
  <2>2. \A e, f \in Entry : Made(e)' /\ Made(f)' /\ info'[e] = info'[f] => e = f
    BY <1>1, <1>4 DEF InfoInv, OneInfoOwner
  <2>3. \A e \in Entry, u \in Thread :
          /\ Made(e)' /\ HasNew(u)' => info'[e] # new_mi'[u]
          /\ Made(e)' /\ HasInfo(u)' => info'[e] # old_mi'[u]
    BY <1>1, <1>2, <1>4, <1>5 DEF InfoInv, OneInfoOwner, mi
  <2>4. \A u, v \in Thread :
          /\ HasNew(u)' /\ HasInfo(v)' => new_mi'[u] # old_mi'[v]
          /\ u # v /\ HasNew(u)' /\ HasNew(v)' => new_mi'[u] # new_mi'[v]
          /\ u # v /\ HasInfo(u)' /\ HasInfo(v)' => old_mi'[u] # old_mi'[v]
    BY <1>1, <1>2, <1>5 DEF InfoInv, OneInfoOwner, mi
  <2> QED
    BY <1>1, <2>1, <2>2, <2>3, <2>4 DEF InfoInv, OneInfoOwner
<1>7. Filled(t)' /\ Verified(t)'
  BY <1>1, <1>3 DEF Filled, Verified, mi
<1>8. Contents'
  BY <1>1, <1>4, <1>7, ContentsKept DEF InfoInv
<1> QED
  BY <1>1, <1>6, <1>8 DEF InfoInv

LEMMA FreeInfoInfo ==
  ASSUME TypeInv, OwnerInv, InfoInv, NEW t \in Thread, Others(t), FreeInfo(t)
  PROVE  InfoInv'
<1> DEFINE mi == old_mi[t]
<1>1. /\ pc[t] = "free_info" /\ pc'[t] \in {"clock", "malloc"}
      /\ infos' = infos \ {mi} /\ UNCHANGED <<entries, a, info, status>>
  BY DEF FreeInfo, Return, At, Goto, TypeInv, TypeOK, ControlTypeOK
<1>2. /\ ~ HasNew(t) /\ ~ HasNew(t)' /\ HasInfo(t) /\ ~ HasInfo(t)'
      /\ \A u \in Thread \ {t} :
           /\ HasNew(u)' <=> HasNew(u)
           /\ HasInfo(u)' <=> HasInfo(u)
           /\ new_me'[u] = new_me[u] /\ new_mi'[u] = new_mi[u] /\ old_mi'[u] = old_mi[u]
  BY <1>1 DEF HasNew, HasInfo, Others
<1> HIDE DEF mi
<1>3. \A e \in Entry : Made(e)' <=> Made(e)
  BY <1>1, <1>2 DEF Made
<1>4. /\ \A e \in Entry : Made(e) => info[e] # mi
      /\ \A u \in Thread : HasNew(u) => new_mi[u] # mi
      /\ \A u \in Thread \ {t} : HasInfo(u) => old_mi[u] # mi
  BY <1>2 DEF mi, InfoInv, OneInfoOwner
<1>5. OneInfoOwner'
  <2>1. \A m : InfoOwned(m)' <=> InfoOwned(m) /\ m # mi
    <3>1. \A m : (\E e \in Entry : Made(e)' /\ info'[e] = m)
                 <=> (\E e \in Entry : Made(e) /\ info[e] = m) /\ m # mi
      BY <1>1, <1>3, <1>4
    <3>2. \A m : (\E u \in Thread : HasNew(u)' /\ new_mi'[u] = m)
                 <=> (\E u \in Thread : HasNew(u) /\ new_mi[u] = m) /\ m # mi
      BY <1>2, <1>4
    <3>3. \A m : (\E u \in Thread : HasInfo(u)' /\ old_mi'[u] = m)
                 <=> (\E u \in Thread : HasInfo(u) /\ old_mi[u] = m) /\ m # mi
      BY <1>2, <1>4 DEF mi
    <3> QED
      BY <3>1, <3>2, <3>3 DEF InfoOwned
  <2>2. \A e, f \in Entry : Made(e)' /\ Made(f)' /\ info'[e] = info'[f] => e = f
    BY <1>1, <1>3 DEF InfoInv, OneInfoOwner
  <2>3. \A e \in Entry, u \in Thread :
          /\ Made(e)' /\ HasNew(u)' => info'[e] # new_mi'[u]
          /\ Made(e)' /\ HasInfo(u)' => info'[e] # old_mi'[u]
    BY <1>1, <1>2, <1>3 DEF InfoInv, OneInfoOwner
  <2>4. \A u, v \in Thread :
          /\ HasNew(u)' /\ HasInfo(v)' => new_mi'[u] # old_mi'[v]
          /\ u # v /\ HasNew(u)' /\ HasNew(v)' => new_mi'[u] # new_mi'[v]
          /\ u # v /\ HasInfo(u)' /\ HasInfo(v)' => old_mi'[u] # old_mi'[v]
    BY <1>2 DEF InfoInv, OneInfoOwner
  <2> QED
    BY <1>1, <2>1, <2>2, <2>3, <2>4 DEF InfoInv, OneInfoOwner
<1>6. Filled(t)' /\ Verified(t)'
  BY <1>1 DEF Filled, Verified
<1>7. Contents'
  BY <1>1, <1>3, <1>6, ContentsKept DEF InfoInv
<1> QED
  BY <1>1, <1>5, <1>7 DEF InfoInv

LEMMA InfoWorkStep ==
  ASSUME TypeInv, OwnerInv, InfoInv, NEW t \in Thread, Work(t)
  PROVE  InfoInv'
<1>1. Others(t)
  BY OthersUnchanged DEF Mine, Others
<1>2. CASE Malloc(t) \/ Fill(t) \/ Insert(t) \/ Verify(t) \/ FreeEntry(t) \/ FreeInfo(t)
  BY <1>1, <1>2, MallocInfo, FillInfo, InsertInfo, VerifyInfo, FreeEntryInfo, FreeInfoInfo
<1>3. CASE MallocFails(t) \/ Lock(t) \/ Delete(t) \/ Unlock(t) \/ Clock(t)
  <2> USE DEF TypeInv, TypeOK, ControlTypeOK, LocalTypeOK, At, Goto, heap, local, loop
  <2>1. UNCHANGED <<a, info, infos, entries>>
    BY <1>3 DEF MallocFails, Lock, Delete, Unlock, Clock
  <2>2. status' # "corruption"
    BY <1>3 DEF MallocFails, Lock, Delete, Unlock, Clock, InfoInv
  <2>3. /\ pc[t] \in {"lock", "delete", "unlock", "clock", "malloc"}
        /\ pc[t] \in {"lock", "delete"} =>
             /\ pc'[t] \in {"delete", "insert"}
             /\ UNCHANGED <<new_me[t], new_mi[t]>>
        /\ pc[t] = "unlock" =>
             pc'[t] \in {"malloc", "clock"} \/ (pc'[t] = "verify" /\ i'[t] = 0)
        /\ pc[t] \in {"clock", "malloc"} => pc'[t] \in {"malloc", "join", "done"}
    <3>1. CASE MallocFails(t) BY <3>1 DEF MallocFails
    <3>2. CASE Lock(t) BY <3>2 DEF Lock
    <3>3. CASE Delete(t) BY <3>3 DEF Delete
    <3>4. CASE Unlock(t)
      <4>1. CASE old_me[t] = NULL BY <3>4, <4>1 DEF Unlock, Return
      <4>2. CASE old_me[t] # NULL BY <3>4, <4>2 DEF Unlock
      <4> QED BY <4>1, <4>2
    <3>5. CASE Clock(t) BY <3>5 DEF Clock
    <3> QED
      BY <1>3, <3>1, <3>2, <3>3, <3>4, <3>5
  <2>4. /\ HasNew(t)' <=> HasNew(t)
        /\ HasNew(t) => UNCHANGED <<new_me[t], new_mi[t]>>
        /\ ~ HasInfo(t) /\ ~ HasInfo(t)'
    BY <2>3 DEF HasNew, HasInfo
  <2>5. Filled(t)' /\ Verified(t)'
    <3>1. Filled(t)
      BY DEF InfoInv, Contents
    <3> QED
      BY <2>1, <2>3, <3>1 DEF Filled, Verified, Alike
  <2> HIDE DEF TypeInv, TypeOK, ControlTypeOK, LocalTypeOK, At, Goto, heap, local, loop
  <2> QED
    BY <1>1, <2>1, <2>2, <2>4, <2>5, InfoQuietStep
<1> QED
  BY <1>2, <1>3 DEF Work

\* What a step that starts nobody's work, or only begins it, leaves alone.
LEMMA InfoOutsideStep ==
  ASSUME InfoInv, UNCHANGED <<a, info, infos, entries, local>>, status' # "corruption",
         \A u \in Thread : pc'[u] = pc[u] \/ (pc[u] \in {"create", "unborn"} /\ pc'[u] = "malloc")
  PROVE  InfoInv'
<1>1. \A u \in Thread : (HasNew(u)' <=> HasNew(u)) /\ (HasInfo(u)' <=> HasInfo(u))
  BY DEF HasNew, HasInfo
<1>2. \A e \in Entry : Made(e)' <=> Made(e)
  BY <1>1 DEF Made, local
<1>3. OneInfoOwner'
  BY <1>1, <1>2, InfosKept DEF InfoInv, local
<1>4. \A u \in Thread : Filled(u)' /\ Verified(u)'
  BY DEF InfoInv, Contents, Filled, Verified, Alike, local
<1>5. Contents'
  BY <1>2, <1>4 DEF InfoInv, Contents, Alike
<1> QED
  BY <1>3, <1>5 DEF InfoInv

\* Where main starts a thread, or itself.
LEMMA CreateStarts ==
  ASSUME TypeInv, MutexInv, Create
  PROVE  \E u \in Thread :
           /\ pc[u] \in {"create", "unborn"} /\ pc' = [pc EXCEPT ![u] = "malloc"]
           /\ num[Main] < NumThreads => u = num[Main] /\ u # Main /\ pc[u] = "unborn"
           /\ ~ num[Main] < NumThreads => u = Main
<1>1. num[Main] \in Nat \ {0} /\ pc[Main] = "create" /\ Main \in Thread
  BY ConstantFacts DEF Create, At, TypeInv, TypeOK, LocalTypeOK
<1>2. CASE num[Main] < NumThreads
  <2>1. num[Main] \in Thread
    BY <1>1, <1>2, SizesAssumption DEF Thread
  <2>2. pc[num[Main]] = "unborn"
    BY <1>1, <2>1, ConstantFacts DEF MutexInv, Unborn
  <2>3. pc' = [pc EXCEPT ![num[Main]] = "malloc"] /\ num[Main] # Main
    BY <1>1, <1>2 DEF Create, Goto, Main
  <2> QED
    BY <1>2, <2>1, <2>2, <2>3
<1>3. CASE ~ num[Main] < NumThreads
  BY <1>1, <1>3 DEF Create, Goto
<1> QED
  BY <1>2, <1>3

LEMMA InfoStep ==
  TypeInv /\ MutexInv /\ OwnerInv /\ InfoInv /\ [Next]_vars => InfoInv'
<1> SUFFICES ASSUME TypeInv, MutexInv, OwnerInv, InfoInv, [Next]_vars PROVE InfoInv'
  OBVIOUS
<1>1. ASSUME NEW t \in Thread, Work(t) PROVE InfoInv'
  BY <1>1, InfoWorkStep
<1>2. CASE Create
  <2>1. \A u \in Thread :
          pc'[u] = pc[u] \/ (pc[u] \in {"create", "unborn"} /\ pc'[u] = "malloc")
    BY <1>2, CreateStarts DEF TypeInv, TypeOK, ControlTypeOK
  <2>2. UNCHANGED <<a, info, infos, entries, local, status>>
    BY <1>2 DEF Create, heap
  <2>3. status' # "corruption"
    BY <2>2 DEF InfoInv
  <2> QED
    BY <2>1, <2>2, <2>3, InfoOutsideStep
<1>3. CASE CreateFails \/ Join \/ Tick \/ UNCHANGED vars
  <2>1. UNCHANGED <<a, info, infos, entries, local, pc>>
    BY <1>3 DEF CreateFails, Join, Tick, vars, heap
  <2>2. status' # "corruption"
    BY <1>3 DEF CreateFails, Join, Tick, vars, InfoInv
  <2> QED
    BY <2>1, <2>2, InfoOutsideStep
<1> QED
  BY <1>1, <1>2, <1>3 DEF Next, Exited

-----------------------------------------------------------------------------
LEMMA SeededRange ==
  ASSUME TypeInv, Seeding, NEW t \in Thread
  PROVE  Seeded(t) \in 0 .. Seed
<1>1. Seed \in Nat \ {0} /\ num[t] \in Nat \ {0} /\ phase[t] \in {"seed", "work"}
  BY SizesAssumption DEF TypeInv, TypeOK, ControlTypeOK, LocalTypeOK
<1> QED
  BY <1>1 DEF Seeding, SeedingOf, Seeded

LEMMA SeedsFinite ==
  /\ IsFiniteSet(Thread \X (1 .. Seed))
  /\ Cardinality(Thread \X (1 .. Seed)) = NumThreads * Seed
  /\ IsFiniteSet(Seeds)
<1>1. /\ IsFiniteSet(Thread) /\ Cardinality(Thread) = NumThreads
      /\ IsFiniteSet(1 .. Seed) /\ Cardinality(1 .. Seed) = Seed
  BY FS_Interval, SizesAssumption DEF Thread
<1>2. IsFiniteSet(Thread \X (1 .. Seed))
  BY <1>1, FS_Product
<1>3. Cardinality(Thread \X (1 .. Seed)) = NumThreads * Seed
  BY <1>1, FS_Product
<1>4. IsFiniteSet(Seeds)
  BY <1>2, FS_Subset DEF Seeds
<1> QED
  BY <1>2, <1>3, <1>4

LEMMA SeedsKept ==
  ASSUME \A t \in Thread : Seeded(t)' = Seeded(t)
  PROVE  Seeds' = Seeds
<1>1. \A s \in Thread \X (1 .. Seed) : s[1] \in Thread
  OBVIOUS
<1> QED
  BY <1>1 DEF Seeds

\* One more seed of t.
LEMMA SeedAdded ==
  ASSUME TypeInv, Seeding, NEW t \in Thread, Seeded(t) < Seed, Seeded(t)' = Seeded(t) + 1,
         \A u \in Thread \ {t} : Seeded(u)' = Seeded(u)
  PROVE  Cardinality(Seeds') = Cardinality(Seeds) + 1
<1> PICK n : n = Seeded(t)
  OBVIOUS
<1>1. n \in Nat /\ n < Seed /\ Seed \in Nat
  BY SeededRange, SizesAssumption
<1>2. <<t, n + 1>> \in Thread \X (1 .. Seed)
  BY <1>1
<1>3. ASSUME NEW s \in Thread \X (1 .. Seed)
      PROVE  s[2] <= Seeded(s[1])' <=> s[2] <= Seeded(s[1]) \/ s = <<t, n + 1>>
  <2>1. s[1] \in Thread /\ s[2] \in Nat /\ s = <<s[1], s[2]>>
    OBVIOUS
  <2>2. CASE s[1] = t
    <3>1. s[2] <= n + 1 <=> s[2] <= n \/ s[2] = n + 1
      BY <1>1, <2>1
    <3> QED
      BY <2>1, <2>2, <3>1
  <2>3. CASE s[1] # t
    BY <2>1, <2>3
  <2> QED
    BY <2>2, <2>3
<1>4. Seeds' = Seeds \cup {<<t, n + 1>>}
  BY <1>2, <1>3 DEF Seeds
<1>5. <<t, n + 1>> \notin Seeds
  BY <1>1 DEF Seeds
<1> QED
  BY <1>4, <1>5, SeedsFinite, FS_AddElement

\* A thread about to delete finds an entry: its own seeds, or others in their place.
LEMMA ListNotEmpty ==
  ASSUME TypeInv, MutexInv, OwnerInv, Seeding, SeedsInList, NEW t \in Thread,
         pc[t] = "delete"
  PROVE  /\ phase[t] = "work" /\ ~ Between
         /\ Len(fifo) \in Nat \ {0} /\ fifo # <<>> /\ list_head # NULL
<1>1. phase[t] = "work"
  BY DEF Seeding, SeedingOf, TypeInv, TypeOK, ControlTypeOK
<1>2. ~ Between
  <2>1. ASSUME NEW u \in Thread, pc[u] = "insert" PROVE FALSE
    BY <2>1 DEF MutexInv, MutualExclusion, InCritical
  <2> QED
    BY <2>1 DEF Between
<1>3. Seed \in Nat \ {0}
  BY SizesAssumption
<1>4. <<t, 1>> \in Seeds
  BY <1>1, <1>3 DEF Seeds, Seeded
<1>5. Cardinality(Seeds) \in Nat \ {0}
  BY <1>4, SeedsFinite, FS_CardinalityType, FS_EmptySet
<1>6. fifo \in Seq(Entry) /\ Len(fifo) \in Nat
  BY DEF TypeInv, TypeOK, HeapTypeOK
<1>7. Len(fifo) = Cardinality(Seeds)
  BY <1>2, <1>6 DEF SeedsInList
<1>8. Len(fifo) \in Nat \ {0}
  BY <1>5, <1>7
<1>9. fifo # <<>>
  BY <1>6, <1>8, EmptyFacts
<1>10. fifo[1] \in Entry /\ list_head = fifo[1]
  BY <1>6, <1>8, <1>9 DEF OwnerInv, ListShape
<1> QED
  BY <1>1, <1>2, <1>8, <1>9, <1>10, BlocksAssumption

LEMMA LoopsUnchanged ==
  ASSUME TypeInv, NEW t \in Thread, Work(t)
  PROVE  \A u \in Thread \ {t} :
           /\ pc'[u] = pc[u] /\ phase'[u] = phase[u] /\ num'[u] = num[u]
           /\ old_me'[u] = old_me[u]
<1>1. \A u \in Thread \ {t} : num'[u] = num[u]
  BY DEF Work, Malloc, MallocFails, Fill, Lock, Delete, Insert, Unlock, Verify,
     FreeEntry, FreeInfo, Clock, Return, loop, TypeInv, TypeOK, LocalTypeOK
<1> QED
  BY <1>1, OthersUnchanged DEF Mine

LEMMA SeedingWorkStep ==
  ASSUME TypeInv, MutexInv, OwnerInv, Seeding, SeedsInList, NEW t \in Thread, Work(t)
  PROVE  Seeding'
<1>1. \A u \in Thread \ {t} : SeedingOf(u)'
  BY LoopsUnchanged DEF Seeding, SeedingOf
<1>2. SeedingOf(t)'
  <2>0. /\ SeedingOf(t) /\ num[t] \in Nat \ {0} /\ Seed \in Nat \ {0}
        /\ phase[t] \in {"seed", "work"}
    BY SizesAssumption DEF Seeding, TypeInv, TypeOK, ControlTypeOK, LocalTypeOK
  <2> USE <2>0 DEF SeedingOf, TypeInv, TypeOK, ControlTypeOK, LocalTypeOK, At, Goto, loop, local
  <2>1. CASE Malloc(t) BY <2>1 DEF Malloc
  <2>2. CASE MallocFails(t) BY <2>2 DEF MallocFails
  <2>3. CASE Fill(t) BY <2>3 DEF Fill
  <2>4. CASE Lock(t)
    BY <2>4 DEF Lock, do_delete, OwnerInv, NoOldYet
  <2>5. CASE Delete(t)
    <3>1. phase[t] = "work" /\ list_head # NULL
      BY <2>5, ListNotEmpty DEF Delete
    <3> QED
      BY <2>5, <3>1 DEF Delete
  <2>6. CASE Insert(t) BY <2>6 DEF Insert
  <2>7. CASE Unlock(t)
    <3>1. CASE old_me[t] = NULL BY <2>7, <3>1 DEF Unlock, Return
    <3>2. CASE old_me[t] # NULL BY <2>7, <3>2 DEF Unlock
    <3>3. QED BY <3>1, <3>2
  <2>8. CASE Verify(t) BY <2>8 DEF Verify
  <2>9. CASE FreeEntry(t) BY <2>9 DEF FreeEntry
  <2>10. CASE FreeInfo(t) BY <2>10 DEF FreeInfo, Return
  <2>11. CASE Clock(t) BY <2>11 DEF Clock
  <2>12. QED
    BY <2>1, <2>2, <2>3, <2>4, <2>5, <2>6, <2>7, <2>8, <2>9, <2>10, <2>11 DEF Work
<1> QED
  BY <1>1, <1>2 DEF Seeding

\* The seeds and what is between, seen from one thread.
LEMMA BetweenOthers ==
  ASSUME TypeInv, MutexInv, NEW t \in Thread, Work(t)
  PROVE  /\ \A u \in Thread \ {t} : Seeded(u)' = Seeded(u)
         /\ InCritical(t) => (Between <=> pc[t] = "insert" /\ phase[t] = "work")
         /\ InCritical(t) => (Between' <=> pc'[t] = "insert" /\ phase'[t] = "work")
         /\ (pc'[t] = "insert" /\ phase'[t] = "work" <=> pc[t] = "insert" /\ phase[t] = "work")
              => (Between' <=> Between)
<1>1. \A u \in Thread \ {t} : Seeded(u)' = Seeded(u)
  BY LoopsUnchanged DEF Seeded
<1>2. ASSUME InCritical(t), NEW u \in Thread \ {t} PROVE pc[u] # "insert"
  BY <1>2 DEF MutexInv, MutualExclusion, InCritical
<1>3. InCritical(t) => (Between <=> pc[t] = "insert" /\ phase[t] = "work")
  BY <1>2 DEF Between
<1>4. InCritical(t) => (Between' <=> pc'[t] = "insert" /\ phase'[t] = "work")
  BY <1>2, LoopsUnchanged DEF Between
<1>5. (pc'[t] = "insert" /\ phase'[t] = "work" <=> pc[t] = "insert" /\ phase[t] = "work")
              => (Between' <=> Between)
  BY LoopsUnchanged DEF Between
<1> QED
  BY <1>1, <1>3, <1>4, <1>5

LEMMA SeedsWorkStep ==
  ASSUME TypeInv, MutexInv, OwnerInv, Seeding, SeedsInList, NEW t \in Thread, Work(t)
  PROVE  SeedsInList'
<1>1. /\ fifo \in Seq(Entry) /\ Len(fifo) \in Nat
      /\ Cardinality(Seeds) \in Nat
  BY SeedsFinite, FS_CardinalityType DEF TypeInv, TypeOK, HeapTypeOK
<1>2. \A u \in Thread \ {t} : Seeded(u)' = Seeded(u)
  BY BetweenOthers
<1>3. SeedingOf(t) /\ num[t] \in Nat \ {0} /\ Seed \in Nat \ {0} /\ phase[t] \in {"seed", "work"}
  BY SizesAssumption DEF Seeding, TypeInv, TypeOK, ControlTypeOK, LocalTypeOK
<1>4. CASE Delete(t)
  <2>1. /\ pc[t] = "delete" /\ pc'[t] = "insert" /\ InCritical(t)
        /\ UNCHANGED <<phase, num>>
        /\ fifo' = IF fifo = <<>> THEN fifo ELSE Tail(fifo)
    BY <1>4 DEF Delete, At, Goto, loop, InCritical, TypeInv, TypeOK, ControlTypeOK
  <2>2. phase[t] = "work" /\ ~ Between /\ Len(fifo) \in Nat \ {0} /\ fifo # <<>>
    BY <2>1, ListNotEmpty
  <2>3. Between'
    BY <2>1, <2>2, BetweenOthers
  <2>4. Len(fifo') = Len(fifo) - 1
    BY <1>1, <2>1, <2>2, TailFacts
  <2>5. Seeds' = Seeds
    <3>1. Seeded(t)' = Seeded(t)
      BY <2>1, <2>2 DEF Seeded
    <3> QED
      BY <1>2, <3>1, SeedsKept
  <2> QED
    BY <1>1, <2>2, <2>3, <2>4, <2>5 DEF SeedsInList
<1>5. CASE Insert(t)
  <2>1. /\ pc[t] = "insert" /\ pc'[t] = "unlock" /\ InCritical(t)
        /\ UNCHANGED <<phase, num>>
        /\ fifo' = Append(fifo, new_me[t])
    BY <1>5 DEF Insert, At, Goto, loop, InCritical, TypeInv, TypeOK, ControlTypeOK
  <2>2. new_me[t] \in Entry
    BY <2>1 DEF TypeInv, ThreadOK
  <2>3. Len(fifo') = Len(fifo) + 1
    BY <1>1, <2>1, <2>2, AppendFacts
  <2>4. ~ Between' /\ (Between <=> phase[t] = "work")
    BY <2>1, BetweenOthers
  <2>5. CASE phase[t] = "work"
    <3>1. Seeded(t)' = Seeded(t)
      BY <2>1, <2>5 DEF Seeded
    <3>2. Seeds' = Seeds
      BY <1>2, <3>1, SeedsKept
    <3> QED
      BY <1>1, <2>3, <2>4, <2>5, <3>2 DEF SeedsInList
  <2>6. CASE phase[t] = "seed"
    <3>1. Seeded(t) = num[t] - 1 /\ Seeded(t)' = num[t] /\ num[t] <= Seed
      BY <1>3, <2>1, <2>6 DEF Seeded, SeedingOf
    <3>2. Seeded(t) < Seed /\ Seeded(t)' = Seeded(t) + 1
      BY <1>3, <3>1
    <3>3. Cardinality(Seeds') = Cardinality(Seeds) + 1
      BY <1>2, <3>2, SeedAdded
    <3> QED
      BY <1>1, <2>3, <2>4, <2>6, <3>3 DEF SeedsInList
  <2> QED
    BY <1>3, <2>5, <2>6
<1>6. CASE ~ (Delete(t) \/ Insert(t))
  <2>1. UNCHANGED fifo
    BY <1>6 DEF Work, Malloc, MallocFails, Fill, Lock, Unlock, Verify, FreeEntry, FreeInfo, Clock
  <2>2. /\ Seeded(t)' = Seeded(t)
        /\ pc'[t] = "insert" /\ phase'[t] = "work" <=> pc[t] = "insert" /\ phase[t] = "work"
    <3> USE <1>3 DEF SeedingOf, Seeded, TypeInv, TypeOK, ControlTypeOK, LocalTypeOK,
                     At, Goto, loop, local
    <3>1. CASE Malloc(t) BY <3>1 DEF Malloc
    <3>2. CASE MallocFails(t) BY <3>2 DEF MallocFails
    <3>3. CASE Fill(t) BY <3>3 DEF Fill
    <3>4. CASE Lock(t) BY <3>4 DEF Lock, do_delete
    <3>5. CASE Unlock(t)
      <4>1. CASE old_me[t] = NULL
        <5>1. pc[t] = "unlock" /\ phase[t] = "seed" /\ num[t] <= Seed
          BY <3>5, <4>1 DEF Unlock
        <5>2. pc'[t] = "malloc"
          BY <3>5, <4>1, <5>1 DEF Unlock, Return
        <5>3. CASE num[t] < Seed
          <6>1. phase'[t] = "seed" /\ num'[t] = num[t] + 1
            BY <3>5, <4>1, <5>1, <5>3 DEF Unlock, Return
          <6> QED
            BY <5>1, <5>2, <6>1
        <5>4. CASE num[t] = Seed
          <6>1. phase'[t] = "work"
            BY <3>5, <4>1, <5>1, <5>4 DEF Unlock, Return
          <6> QED
            BY <5>1, <5>2, <5>4, <6>1
        <5> QED
          BY <5>1, <5>3, <5>4
      <4>2. CASE old_me[t] # NULL BY <3>5, <4>2 DEF Unlock
      <4>3. QED BY <4>1, <4>2
    <3>6. CASE Verify(t) BY <3>6 DEF Verify
    <3>7. CASE FreeEntry(t) BY <3>7 DEF FreeEntry
    <3>8. CASE FreeInfo(t) BY <3>8 DEF FreeInfo, Return
    <3>9. CASE Clock(t) BY <3>9 DEF Clock
    <3> QED
      BY <1>6, <3>1, <3>2, <3>3, <3>4, <3>5, <3>6, <3>7, <3>8, <3>9 DEF Work
  <2>3. Seeds' = Seeds /\ (Between' <=> Between)
    BY <1>2, <2>2, SeedsKept, BetweenOthers
  <2> QED
    BY <2>1, <2>3 DEF SeedsInList
<1> QED
  BY <1>4, <1>5, <1>6

LEMMA JoinsWorkStep ==
  ASSUME TypeInv, Seeding, Joins, NEW t \in Thread, Work(t)
  PROVE  Joins'
<1> USE DEF At, Goto, TypeInv, TypeOK, ControlTypeOK, LocalTypeOK, loop
<1>1. \A u \in Thread \ {t} : pc'[u] = pc[u] /\ num'[u] = num[u]
  BY LoopsUnchanged
<1>2. pc[t] \notin {"done", "join"} /\ status = "running" /\ status' # "exited"
  BY DEF Work, Malloc, MallocFails, Fill, Lock, Delete, Insert, Unlock, Verify,
     FreeEntry, FreeInfo, Clock
<1>3. /\ pc'[t] = "join" => t = Main /\ pc[t] = "clock" /\ num'[t] = num[t]
      /\ pc'[t] = "done" => t # Main
  <2>1. CASE Unlock(t)
    <3>1. CASE old_me[t] = NULL BY <2>1, <3>1 DEF Unlock, Return
    <3>2. CASE old_me[t] # NULL BY <2>1, <3>2 DEF Unlock
    <3> QED BY <3>1, <3>2
  <2>2. CASE FreeInfo(t) BY <2>2 DEF FreeInfo, Return
  <2>3. CASE Clock(t) BY <2>3 DEF Clock
  <2>4. CASE ~ (Unlock(t) \/ FreeInfo(t) \/ Clock(t))
    <3>1. pc'[t] \notin {"join", "done"}
      BY <1>2, <2>4 DEF Work, Malloc, MallocFails, Fill, Lock, Delete, Insert, Verify, FreeEntry
    <3> QED
      BY <3>1
  <2> QED
    BY <2>1, <2>2, <2>3, <2>4
<1>4. \A u \in Thread : (pc'[u] = "join" => u = Main) /\ (pc'[u] = "done" => u # Main)
  BY <1>1, <1>3 DEF Joins
<1> HIDE DEF At, Goto, TypeInv, TypeOK, ControlTypeOK, LocalTypeOK, loop
<1>5. ASSUME pc'[Main] = "join", NEW u \in Thread \ {Main}, u < num'[Main]
      PROVE  pc'[u] = "done"
  <2>1. CASE t = Main
    <3>1. num'[Main] = 1
      BY <1>3, <1>5, <2>1 DEF Seeding, SeedingOf
    <3>2. u \in Nat /\ u # 0
      BY <1>5, ConstantFacts DEF Main
    <3> QED
      BY <1>5, <3>1, <3>2
  <2>2. CASE t # Main
    <3>1. pc[Main] = "join" /\ num'[Main] = num[Main]
      BY <1>1, <1>5, <2>2, ConstantFacts
    <3>2. pc[u] = "done"
      BY <1>5, <3>1 DEF Joins
    <3> QED
      BY <1>1, <1>2, <3>2
  <2> QED
    BY <2>1, <2>2
<1> QED
  BY <1>2, <1>4, <1>5 DEF Joins

-----------------------------------------------------------------------------
LEMMA ExitInit == Init => ExitInv
<1> SUFFICES ASSUME Init PROVE ExitInv
  OBVIOUS
<1> USE SizesAssumption, ConstantFacts
<1>1. /\ fifo = <<>> /\ Len(fifo) = 0 /\ status = "running"
      /\ \A t \in Thread : phase[t] = "seed" /\ num[t] = 1 /\ old_me[t] = NULL
      /\ pc = [t \in Thread |-> IF t = Main THEN "create" ELSE "unborn"]
  BY DEF Init
<1>2. Seeding
  BY <1>1 DEF Seeding, SeedingOf
<1>3. SeedsInList
  <2>1. \A t \in Thread : Seeded(t) = 0
    BY <1>1 DEF Seeded
  <2>2. \A s \in Thread \X (1 .. Seed) : s[1] \in Thread /\ s[2] \in Nat /\ s[2] > 0
    OBVIOUS
  <2>3. ASSUME NEW s \in Thread \X (1 .. Seed), s[2] <= Seeded(s[1]) PROVE FALSE
    <3>1. s[1] \in Thread /\ s[2] \in Nat /\ s[2] > 0
      BY <2>2
    <3>2. s[2] <= 0
      BY <2>1, <2>3, <3>1
    <3> QED
      BY <3>1, <3>2
  <2>4. Seeds = {}
    BY <2>3 DEF Seeds
  <2>5. ~ Between
    BY <1>1 DEF Between
  <2> QED
    BY <1>1, <2>4, <2>5, FS_EmptySet DEF SeedsInList
<1>4. Joins
  BY <1>1 DEF Joins
<1> QED
  BY <1>2, <1>3, <1>4 DEF ExitInv

LEMMA ExitCreateStep ==
  ASSUME TypeInv, MutexInv, ExitInv, Create
  PROVE  ExitInv'
<1>1. PICK u \in Thread :
        /\ pc[u] \in {"create", "unborn"} /\ pc' = [pc EXCEPT ![u] = "malloc"]
        /\ num[Main] < NumThreads => u = num[Main] /\ u # Main /\ pc[u] = "unborn"
        /\ ~ num[Main] < NumThreads => u = Main
  BY CreateStarts
<1>2. /\ pc[Main] = "create" /\ status = "running" /\ Main \in Thread
      /\ UNCHANGED <<phase, old_me, fifo, status>>
      /\ num' = [num EXCEPT ![Main] = num'[Main]]
      /\ num'[Main] = IF num[Main] < NumThreads THEN num[Main] + 1 ELSE 1
  BY ConstantFacts DEF Create, At, local, TypeInv, TypeOK, LocalTypeOK
<1>3. /\ \A v \in Thread \ {u} : pc'[v] = pc[v]
      /\ pc'[u] = "malloc"
      /\ \A v \in Thread \ {Main} : num'[v] = num[v]
  BY <1>1, <1>2 DEF TypeInv, TypeOK, ControlTypeOK, LocalTypeOK
<1>4. Seed \in Nat \ {0} /\ phase[Main] = "seed" /\ phase[u] = "seed" /\ (u # Main => num[u] = 1)
  BY <1>1, <1>2, SizesAssumption
  DEF ExitInv, Seeding, SeedingOf, TypeInv, TypeOK, ControlTypeOK
<1>5. u = Main => num'[Main] = 1
  BY <1>1, <1>2
<1>6. u # Main => pc'[Main] = "create"
  BY <1>2, <1>3
<1>7. ASSUME NEW v \in Thread PROVE SeedingOf(v)'
  <2>1. SeedingOf(v)
    BY DEF ExitInv, Seeding
  <2>2. CASE v = u
    BY <1>2, <1>3, <1>4, <1>5, <2>2 DEF SeedingOf
  <2>3. CASE v # u /\ v = Main
    BY <1>2, <1>4, <1>6, <2>3 DEF SeedingOf
  <2>4. CASE v # u /\ v # Main
    BY <1>2, <1>3, <2>1, <2>4 DEF SeedingOf
  <2> QED
    BY <2>2, <2>3, <2>4
<1>8. ASSUME NEW v \in Thread PROVE Seeded(v)' = Seeded(v)
  <2>1. CASE v = u
    BY <1>1, <1>2, <1>3, <1>4, <1>5, <2>1 DEF Seeded
  <2>2. CASE v # u /\ v = Main
    BY <1>2, <1>4, <1>6, <2>2 DEF Seeded
  <2>3. CASE v # u /\ v # Main
    BY <1>2, <1>3, <2>3 DEF Seeded
  <2> QED
    BY <2>1, <2>2, <2>3
<1>9. Between' <=> Between
  BY <1>1, <1>2, <1>3 DEF Between
<1>10. SeedsInList'
  BY <1>2, <1>8, <1>9, SeedsKept DEF ExitInv, SeedsInList
<1>11. Joins'
  BY <1>1, <1>2, <1>3, <1>6 DEF ExitInv, Joins
<1> QED
  BY <1>7, <1>10, <1>11 DEF ExitInv, Seeding

\* A step that moves no thread and leaves the list alone.
LEMMA ExitKept ==
  ASSUME TypeInv, ExitInv, UNCHANGED <<phase, old_me, fifo, pc>>,
         \A t \in Thread : num'[t] = num[t] \/ pc[t] = "join", Joins'
  PROVE  ExitInv'
<1>1. Seeding'
  <2>1. ASSUME NEW t \in Thread PROVE SeedingOf(t)'
    BY DEF ExitInv, Seeding, SeedingOf
  <2> QED
    BY <2>1 DEF Seeding
<1>2. ASSUME NEW t \in Thread PROVE Seeded(t)' = Seeded(t)
  BY DEF ExitInv, Seeding, SeedingOf, Seeded, TypeInv, TypeOK, ControlTypeOK
<1>3. SeedsInList'
  BY <1>2, SeedsKept DEF ExitInv, SeedsInList, Between
<1> QED
  BY <1>1, <1>3 DEF ExitInv

LEMMA ExitStep ==
  TypeInv /\ MutexInv /\ OwnerInv /\ ExitInv /\ [Next]_vars => ExitInv'
<1> SUFFICES ASSUME TypeInv, MutexInv, OwnerInv, ExitInv, [Next]_vars PROVE ExitInv'
  OBVIOUS
<1>1. ASSUME NEW t \in Thread, Work(t) PROVE ExitInv'
  BY <1>1, SeedingWorkStep, SeedsWorkStep, JoinsWorkStep DEF ExitInv
<1>2. CASE Create
  BY <1>2, ExitCreateStep
<1>3. CASE Join
  <2>1. pc[Main] = "join" /\ status = "running" /\ UNCHANGED <<phase, old_me, fifo, pc>>
    BY <1>3 DEF Join, At, local
  <2>2. \A t \in Thread : num'[t] = num[t] \/ pc[t] = "join"
    BY <1>3, <2>1 DEF Join, TypeInv, TypeOK, LocalTypeOK
  <2>3. num[Main] \in Nat /\ Main \in Thread
    BY ConstantFacts DEF TypeInv, TypeOK, LocalTypeOK
  <2>4. CASE num[Main] < NumThreads
    <3>1. num'[Main] = num[Main] + 1 /\ status' = status /\ pc[num[Main]] = "done"
      BY <1>3, <2>3, <2>4 DEF Join, Joined, TypeInv, TypeOK, LocalTypeOK
    <3>2. ASSUME NEW u \in Thread \ {Main}, u < num[Main] + 1 PROVE pc[u] = "done"
      <4>1. u < num[Main] \/ u = num[Main]
        BY <2>3, <3>2, ConstantFacts
      <4> QED
        BY <2>1, <3>1, <3>2, <4>1 DEF ExitInv, Joins
    <3>3. Joins'
      BY <2>1, <3>1, <3>2 DEF ExitInv, Joins
    <3> QED
      BY <2>1, <2>2, <3>3, ExitKept
  <2>5. CASE ~ num[Main] < NumThreads
    <3>1. UNCHANGED num
      BY <1>3, <2>5 DEF Join
    <3>2. \A u \in Thread \ {Main} : u < num[Main]
      BY <2>3, <2>5, SizesAssumption DEF Thread
    <3>3. Joins'
      BY <2>1, <3>1, <3>2 DEF ExitInv, Joins
    <3> QED
      BY <2>1, <2>2, <3>3, ExitKept
  <2> QED
    BY <2>4, <2>5
<1>4. CASE CreateFails \/ Tick \/ UNCHANGED vars
  <2>1. /\ UNCHANGED <<phase, num, old_me, fifo, pc>>
        /\ status' = "exited" => status = "exited"
    BY <1>4 DEF CreateFails, Tick, vars, loop, local
  <2>2. Joins'
    BY <2>1 DEF ExitInv, Joins
  <2> QED
    BY <2>1, <2>2, ExitKept
<1> QED
  BY <1>1, <1>2, <1>3, <1>4 DEF Next, Exited

\* When the process has exited, all threads have put in their seeds and hold nothing.
LEMMA ExitMeansClean ==
  TypeInv /\ OwnerInv /\ InfoInv /\ ExitInv => CleanExit
<1> SUFFICES ASSUME TypeInv, OwnerInv, InfoInv, ExitInv, status = "exited"
             PROVE  /\ \A t \in Thread \ {Main} : pc[t] = "done"
                    /\ Len(fifo) = NumThreads * Seed
                    /\ entries = Queued
                    /\ infos = {info[e] : e \in entries}
  BY DEF CleanExit, InfoInv
<1>1. \A t \in Thread : pc[t] \in {"join", "done"}
  BY DEF ExitInv, Joins
<1>2. \A t \in Thread : ~ HasNew(t) /\ ~ HasOld(t) /\ ~ HasInfo(t)
  BY <1>1 DEF HasNew, HasOld, HasInfo
<1>3. \A t \in Thread : Seeded(t) = Seed
  <2>1. \A t \in Thread : phase[t] = "work"
    BY <1>1 DEF ExitInv, Seeding, SeedingOf, TypeInv, TypeOK, ControlTypeOK
  <2> QED
    BY <2>1 DEF Seeded
<1>4. Seeds = Thread \X (1 .. Seed)
  <2>1. \A s \in Thread \X (1 .. Seed) : s[1] \in Thread /\ s[2] <= Seed
    BY SizesAssumption
  <2> QED
    BY <1>3, <2>1 DEF Seeds
<1>5. ~ Between
  BY <1>1 DEF Between
<1>6. Len(fifo) = NumThreads * Seed
  <2>1. Len(fifo) \in Nat
    BY DEF TypeInv, TypeOK, HeapTypeOK
  <2>2. Len(fifo) = Cardinality(Seeds)
    BY <1>5, <2>1 DEF ExitInv, SeedsInList
  <2> QED
    BY <1>4, <2>2, SeedsFinite
<1>7. entries = Queued
  <2>1. SingleOwner
    BY OwnerMeansSingle
  <2>2. NewOnes = {} /\ OldOnes = {}
    BY <1>2 DEF NewOnes, OldOnes
  <2> QED
    BY <2>1, <2>2 DEF SingleOwner
<1>8. infos = {info[e] : e \in entries}
  <2>1. \A e : Made(e) <=> e \in entries
    BY <1>2 DEF Made
  <2>2. entries \subseteq Entry /\ infos \subseteq Info
    BY DEF TypeInv, TypeOK, HeapTypeOK
  <2>3. \A m \in Info : m \in infos <=> \E e \in entries : info[e] = m
    BY <1>2, <2>1, <2>2 DEF InfoInv, OneInfoOwner, InfoOwned
  <2>4. \A e \in entries : info[e] \in Info
    BY <2>1, <2>2 DEF InfoInv, Contents
  <2> QED
    BY <2>2, <2>3, <2>4
<1> QED
  BY <1>1, <1>6, <1>7, <1>8 DEF ExitInv, Joins

\* No verification ever fails, and when main returns every side thread has been joined
\* and what is still allocated is the list, NumThreads * Seed entries, with their
\* blocks (memstress.c:202-207, 318-341).
THEOREM CleanlyExits == Spec => []CleanExit
<1>1. QED
  BY TypeInit, TypeStep, MutexInit, MutexStep, OwnerInit, OwnerStep, InfoInit, InfoStep,
     ExitInit, ExitStep, ExitMeansClean, PTL
  DEF Spec

-----------------------------------------------------------------------------
(* The working set.  The list is as long as there are seeds in it, one less *)
(* while a thread is between delete and insert; a thread that has blocks of *)
(* its own either fills a seed that is not there yet, or is in flight.      *)

Seeders == {t \in Thread : phase[t] = "seed" /\ HasNew(t)}

LEMMA UpTo == \A n \in Nat : IsFiniteSet(1 .. n) /\ Cardinality(1 .. n) = n
BY FS_Interval

LEMMA ImageSize ==
  ASSUME NEW D, IsFiniteSet(D), NEW f
  PROVE  /\ IsFiniteSet({f[x] : x \in D})
         /\ Cardinality({f[x] : x \in D}) <= Cardinality(D)
<1> DEFINE T == {f[x] : x \in D}
           g == [x \in D |-> f[x]]
<1>1. g \in Surjection(D, T)
  BY DEF Surjection
<1> QED
  BY <1>1, FS_Surjection

LEMMA UnionSize ==
  ASSUME NEW S, NEW T, IsFiniteSet(S), IsFiniteSet(T), NEW m \in Nat, NEW n \in Nat,
         Cardinality(S) <= m, Cardinality(T) <= n
  PROVE  IsFiniteSet(S \cup T) /\ Cardinality(S \cup T) <= m + n
<1>1. /\ IsFiniteSet(S \cup T) /\ IsFiniteSet(S \cap T)
      /\ Cardinality(S \cup T) = Cardinality(S) + Cardinality(T) - Cardinality(S \cap T)
  BY FS_Union, FS_Intersection
<1>2. /\ Cardinality(S) \in Nat /\ Cardinality(T) \in Nat
      /\ Cardinality(S \cap T) \in Nat
  BY <1>1, FS_CardinalityType
<1> QED
  BY <1>1, <1>2

LEMMA ThreadsFinite ==
  /\ IsFiniteSet(Seeders) /\ Cardinality(Seeders) \in Nat
  /\ IsFiniteSet(InFlight) /\ Cardinality(InFlight) \in Nat
<1>1. IsFiniteSet(Thread)
  BY FS_Interval, SizesAssumption DEF Thread
<1>2. Seeders \in SUBSET Thread /\ InFlight \in SUBSET Thread
  BY DEF Seeders, InFlight
<1> QED
  BY <1>1, <1>2, FS_Subset, FS_CardinalityType

\* The seeds that are being made and those that are there are all different.
LEMMA SeedersFit ==
  ASSUME TypeInv, Seeding
  PROVE  Cardinality(Seeders) + Cardinality(Seeds) <= NumThreads * Seed
<1> DEFINE Coming == {<<t, num[t]>> : t \in Seeders}
           h == [t \in Seeders |-> <<t, num[t]>>]
<1>1. ASSUME NEW t \in Seeders
      PROVE  num[t] \in 1 .. Seed /\ t \in Thread /\ Seeded(t) = num[t] - 1
  <2>1. t \in Thread /\ phase[t] = "seed" /\ pc[t] \in {"fill", "lock", "delete", "insert"}
    BY DEF Seeders, HasNew
  <2>2. num[t] \in Nat \ {0} /\ num[t] <= Seed /\ Seed \in Nat
    BY <2>1, SizesAssumption DEF TypeInv, TypeOK, LocalTypeOK, Seeding, SeedingOf
  <2> QED
    BY <2>1, <2>2 DEF Seeded
<1>2. Coming \subseteq Thread \X (1 .. Seed)
  BY <1>1
<1>3. Coming \cap Seeds = {}
  <2>1. ASSUME NEW t \in Seeders PROVE <<t, num[t]>> \notin Seeds
    BY <1>1 DEF Seeds
  <2> QED
    BY <2>1
<1>4. h \in Injection(Seeders, Coming)
  BY DEF Injection, IsInjective
<1>5. IsFiniteSet(Coming) /\ IsFiniteSet(Coming \cup Seeds)
  <2>1. Coming \cup Seeds \in SUBSET (Thread \X (1 .. Seed))
    BY <1>2 DEF Seeds
  <2> QED
    BY <1>2, <2>1, SeedsFinite, FS_Subset
<1>6. Cardinality(Seeders) <= Cardinality(Coming)
  BY <1>4, <1>5, FS_Injection
<1>7. Cardinality(Coming \cup Seeds) = Cardinality(Coming) + Cardinality(Seeds)
  <2>1. /\ Cardinality(Coming \cup Seeds)
             = Cardinality(Coming) + Cardinality(Seeds) - Cardinality(Coming \cap Seeds)
        /\ Cardinality(Coming \cap Seeds) = 0
    BY <1>3, <1>5, SeedsFinite, FS_Union, FS_EmptySet
  <2>2. Cardinality(Coming) \in Nat /\ Cardinality(Seeds) \in Nat
    BY <1>5, SeedsFinite, FS_CardinalityType
  <2> QED
    BY <2>1, <2>2
<1>8. Cardinality(Coming \cup Seeds) <= NumThreads * Seed
  <2>1. Coming \cup Seeds \in SUBSET (Thread \X (1 .. Seed))
    BY <1>2 DEF Seeds
  <2> QED
    BY <2>1, SeedsFinite, FS_Subset
<1>9. /\ Cardinality(Coming) \in Nat /\ Cardinality(Seeds) \in Nat
      /\ Cardinality(Seeders) \in Nat /\ NumThreads * Seed \in Nat
  BY <1>5, SeedsFinite, ThreadsFinite, FS_CardinalityType, SizesAssumption
<1> HIDE DEF Coming
<1> QED
  BY <1>6, <1>7, <1>8, <1>9

\* One block for each place of the list, one for each thread that makes a seed, one
\* for each in flight, and one for the entry that is out of the list.
Fits(S, q, n, f, x) ==
  S \subseteq {q[k] : k \in 1 .. Len(fifo)} \cup {n[t] : t \in Seeders}
              \cup {f[t] : t \in InFlight} \cup (IF Between THEN {x} ELSE {})

LEMMA BlocksFit ==
  ASSUME TypeInv, Seeding, SeedsInList, NEW S, NEW q, NEW n, NEW f, NEW x,
         Fits(S, q, n, f, x)
  PROVE  Cardinality(S) <= NumThreads * Seed + Cardinality(InFlight)
<1> DEFINE Q == {q[k] : k \in 1 .. Len(fifo)}
           N == {n[t] : t \in Seeders}
           F == {f[t] : t \in InFlight}
           X == IF Between THEN {x} ELSE {}
           out == IF Between THEN 1 ELSE 0
           l == Len(fifo)
           s == Cardinality(Seeders)
           w == Cardinality(InFlight)
           d == Cardinality(Seeds)
<1>1. l \in Nat /\ s \in Nat /\ w \in Nat /\ out \in Nat
  BY ThreadsFinite DEF TypeInv, TypeOK, HeapTypeOK
<1>2. IsFiniteSet(Q) /\ Cardinality(Q) <= l
  <2>1. IsFiniteSet(1 .. Len(fifo)) /\ Cardinality(1 .. Len(fifo)) = Len(fifo)
    BY <1>1, UpTo
  <2> DEFINE D == 1 .. Len(fifo)
  <2> HIDE DEF D
  <2>2. IsFiniteSet({q[k] : k \in D}) /\ Cardinality({q[k] : k \in D}) <= Cardinality(D)
    BY <2>1, ImageSize DEF D
  <2> QED
    BY <2>1, <2>2 DEF D
<1>3. IsFiniteSet(N) /\ Cardinality(N) <= s
  BY ThreadsFinite, ImageSize
<1>4. IsFiniteSet(F) /\ Cardinality(F) <= w
  BY ThreadsFinite, ImageSize
<1>5. IsFiniteSet(X) /\ Cardinality(X) <= out
  <2>1. CASE Between
    <3>1. X = {x} /\ out = 1
      BY <2>1
    <3>2. IsFiniteSet({x}) /\ Cardinality({x}) = 1
      BY FS_Singleton
    <3> HIDE DEF X, out
    <3> QED
      BY <3>1, <3>2
  <2>2. CASE ~ Between
    BY <2>2, FS_EmptySet
  <2> QED
    BY <2>1, <2>2
<1>6. l + out = d
  BY DEF SeedsInList
<1>7. s + d <= NumThreads * Seed /\ NumThreads * Seed \in Nat
  BY SeedersFit, SizesAssumption
<1>8. S \subseteq ((Q \cup N) \cup F) \cup X
  BY DEF Fits
<1> HIDE DEF Q, N, F, X, out, l, s, w, d
<1>9. IsFiniteSet(Q \cup N) /\ Cardinality(Q \cup N) <= l + s
  BY <1>1, <1>2, <1>3, UnionSize
<1>10. IsFiniteSet((Q \cup N) \cup F) /\ Cardinality((Q \cup N) \cup F) <= (l + s) + w
  <2>1. l + s \in Nat
    BY <1>1
  <2> QED
    BY <1>1, <1>4, <1>9, <2>1, UnionSize
<1>11. /\ IsFiniteSet(((Q \cup N) \cup F) \cup X)
       /\ Cardinality(((Q \cup N) \cup F) \cup X) <= ((l + s) + w) + out
  <2>1. (l + s) + w \in Nat
    BY <1>1
  <2> QED
    BY <1>1, <1>5, <1>10, <2>1, UnionSize
<1>12. IsFiniteSet(S) /\ Cardinality(S) <= Cardinality(((Q \cup N) \cup F) \cup X)
  BY <1>8, <1>11, FS_Subset
<1>13. Cardinality(S) \in Nat /\ Cardinality(((Q \cup N) \cup F) \cup X) \in Nat
  BY <1>11, <1>12, FS_CardinalityType
<1>14. Cardinality(S) <= NumThreads * Seed + w
  BY <1>1, <1>6, <1>7, <1>11, <1>12, <1>13
<1> QED
  BY <1>14 DEF w

\* Only the thread that is at its insert has a new entry and an old one.
LEMMA OneBetween ==
  ASSUME TypeInv, MutexInv, Seeding
  PROVE  \E b : \A t \in Thread : HasNew(t) /\ HasOld(t) => Between /\ t = b
<1>1. \A t, u \in Thread : pc[t] = "insert" /\ pc[u] = "insert" => t = u
  BY NullAssumption DEF MutexInv, MutualExclusion, InCritical
<1>2. ASSUME NEW t \in Thread, HasNew(t), HasOld(t) PROVE pc[t] = "insert" /\ Between
  BY <1>2 DEF HasNew, HasOld, Between, Seeding, SeedingOf, TypeInv, TypeOK, ControlTypeOK
<1> QED
  BY <1>1, <1>2

LEMMA WhoHasBlocks ==
  ASSUME TypeInv, Seeding
  PROVE  \A t \in Thread : /\ HasNew(t) => t \in Seeders \cup InFlight
                           /\ HasOld(t) \/ HasInfo(t) => t \in InFlight
BY DEF Seeding, SeedingOf, TypeInv, TypeOK, ControlTypeOK, Seeders, InFlight, HasNew,
       HasOld, HasInfo

LEMMA WorkingSetFits ==
  TypeInv /\ MutexInv /\ OwnerInv /\ InfoInv /\ ExitInv => WorkingSet
<1> SUFFICES ASSUME TypeInv, MutexInv, OwnerInv, InfoInv, ExitInv
             PROVE  WorkingSet
  OBVIOUS
<1>1. Seeding /\ SeedsInList /\ SingleOwner
  BY OwnerMeansSingle DEF ExitInv
<1>2. PICK b : \A t \in Thread : HasNew(t) /\ HasOld(t) => Between /\ t = b
  BY <1>1, OneBetween
<1>3. entries = Queued \cup NewOnes \cup OldOnes
  BY <1>1 DEF SingleOwner
<1>4. Cardinality(entries) <= NumThreads * Seed + Cardinality(InFlight)
  <2> DEFINE f == [t \in InFlight |-> IF HasNew(t) THEN new_me[t] ELSE old_me[t]]
             Places == {fifo[k] : k \in 1 .. Len(fifo)} \cup {new_me[t] : t \in Seeders}
                       \cup {f[t] : t \in InFlight} \cup (IF Between THEN {old_me[b]} ELSE {})
  <2>1. Queued \subseteq Places
    BY DEF Queued
  <2>2. ASSUME NEW t \in Thread, HasNew(t) PROVE new_me[t] \in Places
    BY <1>1, <2>2, WhoHasBlocks
  <2>3. ASSUME NEW t \in Thread, HasOld(t) PROVE old_me[t] \in Places
    BY <1>1, <1>2, <2>3, WhoHasBlocks
  <2>4. entries \subseteq Places
    BY <1>3, <2>1, <2>2, <2>3 DEF NewOnes, OldOnes
  <2>5. Fits(entries, fifo, new_me, f, old_me[b])
    BY <2>4 DEF Fits
  <2> HIDE DEF f
  <2> QED
    BY <1>1, <2>5, BlocksFit
<1>5. Cardinality(infos) <= NumThreads * Seed + Cardinality(InFlight)
  <2> DEFINE q == [k \in 1 .. Len(fifo) |-> info[fifo[k]]]
             f == [t \in InFlight |-> IF HasNew(t) THEN new_mi[t]
                                      ELSE IF HasOld(t) THEN info[old_me[t]] ELSE old_mi[t]]
             Places == {q[k] : k \in 1 .. Len(fifo)} \cup {new_mi[t] : t \in Seeders}
                       \cup {f[t] : t \in InFlight}
                       \cup (IF Between THEN {info[old_me[b]]} ELSE {})
  <2>1. ASSUME NEW e \in Entry, Made(e) PROVE info[e] \in Places
    <3>1. e \in Queued \/ \E t \in Thread : HasOld(t) /\ old_me[t] = e
      BY <1>3, <2>1 DEF Made, NewOnes, OldOnes
    <3>2. CASE e \in Queued
      BY <3>2 DEF Queued
    <3>3. ASSUME NEW t \in Thread, HasOld(t), old_me[t] = e PROVE info[e] \in Places
      BY <1>1, <1>2, <3>3, WhoHasBlocks
    <3> QED
      BY <3>1, <3>2, <3>3
  <2>2. ASSUME NEW t \in Thread, HasNew(t) PROVE new_mi[t] \in Places
    BY <1>1, <2>2, WhoHasBlocks
  <2>3. ASSUME NEW t \in Thread, HasInfo(t) PROVE old_mi[t] \in Places
    <3>1. t \in InFlight /\ ~ HasNew(t) /\ ~ HasOld(t)
      BY <1>1, <2>3, WhoHasBlocks DEF HasInfo, HasNew, HasOld
    <3> QED
      BY <3>1
  <2>4. infos \subseteq Places
    <3>1. infos \subseteq Info
      BY DEF TypeInv, TypeOK, HeapTypeOK
    <3>2. \A m \in infos : InfoOwned(m)
      BY <3>1 DEF InfoInv, OneInfoOwner
    <3> HIDE DEF Places
    <3> QED
      BY <3>2, <2>1, <2>2, <2>3 DEF InfoOwned
  <2>5. Fits(infos, q, new_mi, f, info[old_me[b]])
    BY <2>4 DEF Fits
  <2> HIDE DEF f, q
  <2> QED
    BY <1>1, <2>5, BlocksFit
<1> QED
  BY <1>4, <1>5 DEF WorkingSet

\* However long the program runs, what it has allocated is bounded by the seeds and one
\* entry and one info for each thread that is at an exchange (memstress.c:158-159, 209-210).
THEOREM WorkingSetBounded == Spec => []WorkingSet
<1>1. QED
  BY TypeInit, TypeStep, MutexInit, MutexStep, OwnerInit, OwnerStep, InfoInit, InfoStep,
     ExitInit, ExitStep, WorkingSetFits, PTL
  DEF Spec

-----------------------------------------------------------------------------
(* The list that the pointers make is the history, and the program         *)
(* implements WorkList.                                                    *)

\* A set of naturals has a least element.
LEMMA Least ==
  ASSUME NEW S \in SUBSET Nat, S # {}
  PROVE  \E x \in S : \A y \in S : x <= y
<1>1. PICK x \in S : \A y \in S : ~ (<<y, x>> \in OpToRel(<, Nat))
  BY NatLessThanWellFounded, WFMin
<1>2. ASSUME NEW y \in S PROVE x <= y
  <2>1. y < x => <<y, x>> \in OpToRel(<, Nat)
    BY Zenon DEF OpToRel
  <2>2. x \in Nat /\ y \in Nat /\ ~ (y < x)
    BY <1>1, <2>1
  <2>3. QED
    BY <2>2
<1>3. QED
  BY <1>2

\* A queue without repetition has no more entries than there are.
LEMMA FifoFits ==
  ASSUME TypeInv, OwnerInv
  PROVE  Len(fifo) \in Nat /\ Cardinality(Entry) \in Nat /\ Len(fifo) <= Cardinality(Entry)
<1>1. fifo \in Seq(Entry) /\ Len(fifo) \in Nat
  BY DEF TypeInv, TypeOK, HeapTypeOK
<1>2. \A j, k \in 1 .. Len(fifo) : fifo[j] = fifo[k] => j = k
  BY DEF OwnerInv, OneOwner
<1>3. fifo \in Injection(1 .. Len(fifo), Entry)
  BY <1>1, <1>2 DEF Injection, IsInjective
<1>4. IsFiniteSet(1 .. Len(fifo)) /\ Cardinality(1 .. Len(fifo)) = Len(fifo)
  BY <1>1, UpTo
<1>5. QED
  BY <1>1, <1>3, <1>4, HeapAssumption, FS_Injection, FS_CardinalityType

\* The recursion of Along, whose only solution is the history and then NULL.
AlongAt(f, n) ==
  IF n = 1 THEN list_head ELSE IF f[n - 1] = NULL THEN NULL ELSE next[f[n - 1]]

LEMMA AlongIsFifo ==
  ASSUME TypeInv, OwnerInv
  PROVE  Along = [n \in 1 .. Cardinality(Entry) |-> IF n <= Len(fifo) THEN fifo[n] ELSE NULL]
<1> DEFINE K == Cardinality(Entry)
           F == [n \in 1 .. K |-> IF n <= Len(fifo) THEN fifo[n] ELSE NULL]
<1>1. /\ fifo \in Seq(Entry) /\ Len(fifo) \in Nat /\ K \in Nat /\ Len(fifo) <= K
      /\ \A n \in 1 .. Len(fifo) : fifo[n] \in Entry /\ fifo[n] # NULL
  BY FifoFits, BlocksAssumption DEF TypeInv, TypeOK, HeapTypeOK
<1>2. ListShape
  BY DEF OwnerInv
<1> HIDE DEF K
<1>3. ASSUME NEW n \in 1 .. K PROVE F[n] = AlongAt(F, n)
  <2>1. CASE n = 1
    <3>1. fifo = <<>> <=> Len(fifo) = 0
      BY <1>1
    <3>2. QED
      BY <1>1, <1>2, <2>1, <3>1 DEF ListShape, AlongAt
  <2>2. CASE n # 1
    <3>1. n - 1 \in 1 .. K /\ n \in Nat
      BY <1>1, <2>2
    <3>2. CASE n <= Len(fifo)
      <4>1. n - 1 \in 1 .. Len(fifo) - 1
        BY <1>1, <3>1, <3>2
      <4>2. next[fifo[n - 1]] = fifo[n]
        BY <1>2, <4>1, <3>1 DEF ListShape
      <4>3. F[n - 1] = fifo[n - 1] /\ F[n] = fifo[n] /\ fifo[n - 1] # NULL
        BY <1>1, <3>1, <3>2, <4>1
      <4>4. QED
        BY <2>2, <4>2, <4>3 DEF AlongAt
    <3>3. CASE n - 1 = Len(fifo)
      <4>1. fifo # <<>> /\ n - 1 \in 1 .. Len(fifo)
        BY <1>1, <3>1, <3>3
      <4>2. next[fifo[n - 1]] = NULL
        BY <1>2, <3>3, <4>1 DEF ListShape
      <4>3. F[n - 1] = fifo[n - 1] /\ F[n] = NULL /\ fifo[n - 1] # NULL
        BY <1>1, <3>1, <3>3, <4>1
      <4>4. QED
        BY <2>2, <4>2, <4>3 DEF AlongAt
    <3>4. CASE n - 1 > Len(fifo)
      <4>1. F[n - 1] = NULL /\ F[n] = NULL
        BY <1>1, <3>1, <3>4
      <4>2. QED
        BY <2>2, <4>1 DEF AlongAt
    <3>5. QED
      BY <1>1, <3>1, <3>2, <3>3, <3>4
  <2>3. QED
    BY <2>1, <2>2
<1> HIDE DEF F
<1>4. Along = CHOOSE f : f = [n \in 1 .. K |-> AlongAt(f, n)]
  BY Zenon DEF Along, AlongAt, K
<1>5. F = [n \in 1 .. K |-> F[n]]
  BY DEF F
<1>6. F = [n \in 1 .. K |-> AlongAt(F, n)]
  BY <1>3, <1>5
<1>7. Along = [n \in 1 .. K |-> AlongAt(Along, n)]
  BY <1>4, <1>6
<1> DEFINE Other == {n \in 1 .. K : Along[n] # F[n]}
<1>8. ASSUME Other # {} PROVE FALSE
  <2>1. PICK n \in Other : \A m \in Other : n <= m
    <3>1. Other \in SUBSET Nat
      BY <1>1
    <3> HIDE DEF Other
    <3>2. QED
      BY <1>8, <3>1, Least
  <2>2. n \in 1 .. K /\ Along[n] # F[n]
    BY <2>1
  <2>3. n # 1 => Along[n - 1] = F[n - 1]
    <3>1. n # 1 => n - 1 \in 1 .. K /\ ~ (n <= n - 1)
      BY <1>1, <2>2
    <3>2. QED
      BY <2>1, <3>1
  <2>4. Along[n] = AlongAt(Along, n) /\ F[n] = AlongAt(F, n)
    BY <1>3, <1>7, <2>2
  <2>5. QED
    BY <2>2, <2>3, <2>4 DEF AlongAt
<1>9. Along = [n \in 1 .. K |-> Along[n]]
  BY <1>7
<1>10. Along = F
  BY <1>5, <1>8, <1>9
<1>11. QED
  BY <1>10 DEF F, K

LEMMA ReachedIsFifo == TypeInv /\ OwnerInv => Reached = fifo
<1> SUFFICES ASSUME TypeInv, OwnerInv PROVE Reached = fifo
  OBVIOUS
<1> DEFINE K == Cardinality(Entry)
<1>1. /\ fifo \in Seq(Entry) /\ Len(fifo) \in Nat /\ K \in Nat /\ Len(fifo) <= K
      /\ \A n \in 1 .. Len(fifo) : fifo[n] \in Entry /\ fifo[n] # NULL
  BY FifoFits, BlocksAssumption DEF TypeInv, TypeOK, HeapTypeOK
<1>2. Along = [n \in 1 .. K |-> IF n <= Len(fifo) THEN fifo[n] ELSE NULL]
  BY AlongIsFifo
<1> HIDE DEF K
<1>3. {k \in DOMAIN Along : Along[k] # NULL} = 1 .. Len(fifo)
  BY <1>1, <1>2
<1>4. Cardinality(1 .. Len(fifo)) = Len(fifo)
  BY <1>1, UpTo
<1>5. \A n \in 1 .. Len(fifo) : Along[n] = fifo[n]
  BY <1>1, <1>2
<1>6. Reached = [n \in 1 .. Len(fifo) |-> fifo[n]]
  BY <1>3, <1>4, <1>5 DEF Reached
<1>7. QED
  BY <1>1, <1>6

\* What a thread is about to exchange, and what it has received.
Takes(t) == IF pc[t] = "insert" THEN old_me[t] ELSE NULL
Got(t) == IF pc[t] \in {"unlock", "verify", "free_entry"} THEN old_me[t] ELSE NULL

\* At most one thread is exchanging, since it holds the mutex.
QueueRight ==
  /\ (\A t \in Thread : Takes(t) = NULL) => AbstractQueue = fifo
  /\ \A t \in Thread : Takes(t) # NULL => AbstractQueue = <<Takes(t)>> \o fifo

LEMMA QueueIsRight == TypeInv /\ MutexInv /\ OwnerInv => QueueRight
<1> SUFFICES ASSUME TypeInv, MutexInv, OwnerInv PROVE QueueRight
  OBVIOUS
<1>1. Reached = fifo
  BY ReachedIsFifo
<1>2. ASSUME \A t \in Thread : Takes(t) = NULL PROVE AbstractQueue = fifo
  BY <1>1, <1>2 DEF AbstractQueue, Exchanging, Takes
<1>3. ASSUME NEW t \in Thread, Takes(t) # NULL
      PROVE  AbstractQueue = <<Takes(t)>> \o fifo
  <2>1. pc[t] = "insert" /\ old_me[t] # NULL
    BY <1>3 DEF Takes
  <2>2. \A u \in Thread : pc[u] = "insert" => u = t
    BY <2>1 DEF MutexInv, MutualExclusion, InCritical
  <2>3. Exchanging = {t}
    BY <2>1, <2>2 DEF Exchanging
  <2>4. (CHOOSE u \in Exchanging : TRUE) = t
    BY <2>3
  <2>5. QED
    BY <1>1, <2>1, <2>3, <2>4 DEF AbstractQueue, Takes
<1>4. QED
  BY <1>2, <1>3 DEF QueueRight

LEMMA QueueStaysRight == (TypeInv /\ MutexInv /\ OwnerInv)' => QueueRight'
BY QueueIsRight, PTL

LEMMA GotIs == AbstractGot = [t \in Thread |-> Got(t)]
BY DEF AbstractGot, Got

LEMMA GotStays == AbstractGot' = [t \in Thread |-> Got(t)']
BY Zenon DEF AbstractGot, Got

LEMMA QueueKept ==
  ASSUME QueueRight, QueueRight', fifo' = fifo, \A t \in Thread : Takes(t)' = Takes(t)
  PROVE  AbstractQueue' = AbstractQueue
<1>1. CASE \A t \in Thread : Takes(t) = NULL
  <2>1. \A t \in Thread : Takes(t)' = NULL
    BY <1>1
  <2>2. AbstractQueue = fifo /\ AbstractQueue' = fifo'
    BY <1>1, <2>1 DEF QueueRight
  <2>3. QED
    BY <2>2
<1>2. ASSUME NEW t \in Thread, Takes(t) # NULL PROVE AbstractQueue' = AbstractQueue
  <2>1. AbstractQueue = <<Takes(t)>> \o fifo
    BY <1>2 DEF QueueRight
  <2>2. Takes(t)' # NULL
    BY <1>2
  <2>3. AbstractQueue' = <<Takes(t)'>> \o fifo'
    BY <2>2 DEF QueueRight
  <2>4. QED
    BY <2>1, <2>3
<1>3. QED
  BY <1>1, <1>2

\* A step that leaves the queue and what threads have of it alone.
Unseen == fifo' = fifo /\ \A t \in Thread : Takes(t)' = Takes(t) /\ Got(t)' = Got(t)

LEMMA UnseenStutters ==
  ASSUME QueueRight, QueueRight', Unseen
  PROVE  UNCHANGED <<AbstractQueue, AbstractGot>>
BY QueueKept, GotIs, GotStays DEF Unseen

LEMMA DeleteIsUnseen ==
  ASSUME TypeInv, MutexInv, OwnerInv, QueueRight, QueueRight', NEW t \in Thread, Delete(t)
  PROVE  UNCHANGED <<AbstractQueue, AbstractGot>>
<1>1. /\ fifo \in Seq(Entry) /\ old_me \in [Thread -> Entry \cup {NULL}]
      /\ DOMAIN pc = Thread
  BY DEF TypeInv, TypeOK, HeapTypeOK, ControlTypeOK, LocalTypeOK
<1>2. /\ pc[t] = "delete" /\ pc' = [pc EXCEPT ![t] = "insert"]
      /\ old_me' = [old_me EXCEPT ![t] = list_head]
      /\ fifo' = IF fifo = <<>> THEN fifo ELSE Tail(fifo)
  BY DEF Delete, At, Goto
<1>3. \A u \in Thread \ {t} : pc[u] # "insert" /\ pc'[u] = pc[u] /\ old_me'[u] = old_me[u]
  BY <1>1, <1>2 DEF MutexInv, MutualExclusion, InCritical
<1>4. \A u \in Thread \ {t} : Takes(u) = NULL /\ Takes(u)' = NULL /\ Got(u)' = Got(u)
  BY <1>3 DEF Takes, Got
<1>5. Takes(t) = NULL /\ Takes(t)' = list_head /\ Got(t) = NULL /\ Got(t)' = NULL
  BY <1>1, <1>2 DEF Takes, Got
<1>6. AbstractGot' = AbstractGot
  BY <1>4, <1>5, GotIs, GotStays
<1>7. AbstractQueue = fifo
  BY <1>4, <1>5 DEF QueueRight
<1>8. CASE fifo = <<>>
  <2>1. list_head = NULL
    BY <1>8 DEF OwnerInv, ListShape
  <2>2. \A u \in Thread : Takes(u)' = NULL
    BY <1>4, <1>5, <2>1
  <2>3. AbstractQueue' = fifo'
    BY <2>2 DEF QueueRight
  <2>4. QED
    BY <1>2, <1>6, <1>7, <1>8, <2>3
<1>9. CASE fifo # <<>>
  <2>1. list_head = fifo[1] /\ fifo[1] \in Entry
    BY <1>1, <1>9 DEF OwnerInv, ListShape
  <2>2. Takes(t)' # NULL
    BY <1>5, <2>1, BlocksAssumption
  <2>3. AbstractQueue' = <<fifo[1]>> \o Tail(fifo)
    BY <1>2, <1>5, <1>9, <2>1, <2>2 DEF QueueRight
  <2>4. <<fifo[1]>> \o Tail(fifo) = fifo
    BY <1>1, <1>9, HeadTailProperties
  <2>5. QED
    BY <1>6, <1>7, <2>3, <2>4
<1>10. QED
  BY <1>8, <1>9

LEMMA InsertIsSeen ==
  ASSUME TypeInv, MutexInv, OwnerInv, QueueRight, QueueRight', NEW t \in Thread, Insert(t)
  PROVE  WL!Next
<1> DEFINE new == new_me[t]  old == old_me[t]
<1>1. /\ fifo \in Seq(Entry) /\ old_me \in [Thread -> Entry \cup {NULL}]
      /\ DOMAIN pc = Thread
  BY DEF TypeInv, TypeOK, HeapTypeOK, ControlTypeOK, LocalTypeOK
<1>2. /\ pc[t] = "insert" /\ pc' = [pc EXCEPT ![t] = "unlock"]
      /\ old_me' = old_me /\ fifo' = Append(fifo, new)
  BY DEF Insert, At, Goto, local
<1>3. new \in Entry /\ new # NULL
  BY <1>2, BlocksAssumption DEF TypeInv, ThreadOK
<1>4. \A u \in Thread \ {t} : pc[u] # "insert" /\ pc'[u] = pc[u]
  BY <1>1, <1>2 DEF MutexInv, MutualExclusion, InCritical
<1>5. \A u \in Thread \ {t} : Takes(u) = NULL /\ Takes(u)' = NULL /\ Got(u)' = Got(u)
  BY <1>2, <1>4 DEF Takes, Got
<1>6. Takes(t) = old /\ Takes(t)' = NULL /\ Got(t) = NULL /\ Got(t)' = old
  BY <1>1, <1>2 DEF Takes, Got
<1>7. AbstractQueue' = Append(fifo, new)
  BY <1>2, <1>5, <1>6 DEF QueueRight
<1>8. \A u \in Thread : Got(u) # new
  BY <1>2, <1>3 DEF OwnerInv, OneOwner, HasNew, HasOld, Got
<1>9. \A k \in 1 .. Len(fifo) : fifo[k] # new
  BY <1>2 DEF OwnerInv, OneOwner, HasNew
<1>10. \A u \in Thread : AbstractGot[u] = Got(u)
  BY GotIs
<1> HIDE DEF new, old
<1>11. CASE old = NULL
  <2>1. AbstractQueue = fifo
    BY <1>5, <1>6, <1>11 DEF QueueRight
  <2>2. AbstractGot' = AbstractGot
    BY <1>5, <1>6, <1>11, GotIs, GotStays
  <2>3. new \notin WL!InUse
    BY <1>8, <1>9, <1>10, <2>1 DEF WL!InUse
  <2>4. WL!Add(new)
    BY <1>7, <2>1, <2>2, <2>3 DEF WL!Add
  <2>5. QED
    BY <1>3, <2>3, <2>4 DEF WL!Next
<1>12. CASE old # NULL
  <2>1. AbstractQueue = <<old>> \o fifo
    BY <1>6, <1>12 DEF QueueRight
  <2>2. old \in Entry /\ old # new
    BY <1>1, <1>2, <1>12 DEF OwnerInv, OneOwner, HasNew, HasOld, old, new
  <2>3. /\ AbstractQueue # <<>> /\ Head(AbstractQueue) = old /\ Tail(AbstractQueue) = fifo
        /\ \A k \in 1 .. Len(AbstractQueue) :
             AbstractQueue[k] = old \/ \E j \in 1 .. Len(fifo) : AbstractQueue[k] = fifo[j]
    BY <1>1, <2>1, <2>2
  <2>4. new \notin WL!InUse
    BY <1>8, <1>9, <1>10, <2>2, <2>3 DEF WL!InUse
  <2>5. AbstractGot' = [AbstractGot EXCEPT ![t] = old]
    BY <1>5, <1>6, GotIs, GotStays
  <2>6. WL!Exchange(t, new)
    BY <1>6, <1>7, <1>10, <2>3, <2>4, <2>5 DEF WL!Exchange
  <2>7. QED
    BY <1>3, <2>4, <2>6 DEF WL!Next
<1>13. QED
  BY <1>11, <1>12

LEMMA FreeEntryIsSeen ==
  ASSUME TypeInv, OwnerInv, QueueRight, QueueRight', NEW t \in Thread, FreeEntry(t)
  PROVE  WL!Next
<1>1. DOMAIN pc = Thread
  BY DEF TypeInv, TypeOK, ControlTypeOK
<1>2. /\ pc[t] = "free_entry" /\ pc' = [pc EXCEPT ![t] = "free_info"]
      /\ old_me' = old_me /\ fifo' = fifo
  BY DEF FreeEntry, At, Goto, local
<1>3. \A u \in Thread : Takes(u)' = Takes(u) /\ (u # t => Got(u)' = Got(u))
  BY <1>1, <1>2 DEF Takes, Got
<1>4. Got(t) # NULL /\ Got(t)' = NULL
  BY <1>1, <1>2 DEF OwnerInv, NoOldYet, Got
<1>5. AbstractQueue' = AbstractQueue
  BY <1>2, <1>3, QueueKept
<1>6. AbstractGot[t] # NULL /\ AbstractGot' = [AbstractGot EXCEPT ![t] = NULL]
  BY <1>3, <1>4, GotIs, GotStays
<1>7. QED
  BY <1>5, <1>6 DEF WL!Next, WL!Discard

\* All other steps of a thread.
LEMMA OtherWorkUnseen ==
  ASSUME TypeInv, OwnerInv, NEW t \in Thread,
         \/ Malloc(t) \/ MallocFails(t) \/ Fill(t) \/ Lock(t) \/ Unlock(t)
         \/ Verify(t) \/ FreeInfo(t) \/ Clock(t)
  PROVE  Unseen
<1> USE DEF Unseen, Takes, Got, At, Goto, local
<1>1. DOMAIN pc = Thread /\ old_me \in [Thread -> Entry \cup {NULL}]
  BY DEF TypeInv, TypeOK, ControlTypeOK, LocalTypeOK
<1>2. CASE Malloc(t) BY <1>1, <1>2 DEF Malloc
<1>3. CASE MallocFails(t) BY <1>1, <1>3 DEF MallocFails
<1>4. CASE Fill(t) BY <1>1, <1>4 DEF Fill
<1>5. CASE Lock(t) BY <1>1, <1>5 DEF Lock, OwnerInv, NoOldYet
<1>6. CASE Unlock(t) BY <1>1, <1>6 DEF Unlock, Return
<1>7. CASE Verify(t) BY <1>1, <1>7 DEF Verify
<1>8. CASE FreeInfo(t) BY <1>1, <1>8 DEF FreeInfo, Return
<1>9. CASE Clock(t) BY <1>1, <1>9 DEF Clock
<1>10. QED
  BY <1>2, <1>3, <1>4, <1>5, <1>6, <1>7, <1>8, <1>9

\* The steps outside of do_malloc.
LEMMA OutsideUnseen ==
  ASSUME TypeInv, MutexInv, Create \/ CreateFails \/ Join \/ Tick \/ UNCHANGED vars
  PROVE  Unseen
<1> USE DEF Unseen, Takes, Got, At, Goto, local
<1>1. DOMAIN pc = Thread /\ num[Main] \in Nat
  BY ConstantFacts DEF TypeInv, TypeOK, ControlTypeOK, LocalTypeOK
<1>2. CASE Create
  <2>1. PICK u \in Thread : pc[u] \in {"create", "unborn"} /\ pc' = [pc EXCEPT ![u] = "malloc"]
    <3>1. CASE num[Main] < NumThreads
      <4>1. num[Main] \in Thread
        BY <1>1, <3>1, SizesAssumption DEF Thread
      <4>2. pc[num[Main]] = "unborn"
        BY <1>1, <1>2, <4>1 DEF Create, MutexInv, Unborn
      <4>3. QED
        BY <1>2, <3>1, <4>1, <4>2 DEF Create
    <3>2. CASE ~ (num[Main] < NumThreads)
      BY <1>2, <3>2, ConstantFacts DEF Create
    <3>3. QED
      BY <3>1, <3>2
  <2>2. UNCHANGED <<fifo, old_me>>
    BY <1>2 DEF Create
  <2>3. QED
    BY <1>1, <2>1, <2>2
<1>3. CASE CreateFails \/ Join \/ Tick \/ UNCHANGED vars
  <2>1. UNCHANGED <<fifo, old_me, pc>>
    BY <1>3 DEF CreateFails, Join, Tick, vars
  <2>2. QED
    BY <2>1
<1>4. QED
  BY <1>2, <1>3

LEMMA StepAbstract ==
  ASSUME TypeInv, MutexInv, OwnerInv, QueueRight, QueueRight', [Next]_vars
  PROVE  [WL!Next]_WL!vars
<1>1. ASSUME NEW t \in Thread, Work(t) PROVE [WL!Next]_WL!vars
  <2>1. CASE Delete(t)
    BY <2>1, DeleteIsUnseen DEF WL!vars
  <2>2. CASE Insert(t)
    BY <2>2, InsertIsSeen
  <2>3. CASE FreeEntry(t)
    BY <2>3, FreeEntryIsSeen
  <2>4. CASE \/ Malloc(t) \/ MallocFails(t) \/ Fill(t) \/ Lock(t) \/ Unlock(t)
             \/ Verify(t) \/ FreeInfo(t) \/ Clock(t)
    BY <2>4, OtherWorkUnseen, UnseenStutters DEF WL!vars
  <2>5. QED
    BY <1>1, <2>1, <2>2, <2>3, <2>4 DEF Work
<1>2. CASE Create \/ CreateFails \/ Join \/ Tick \/ UNCHANGED vars
  BY <1>2, OutsideUnseen, UnseenStutters DEF WL!vars
<1>3. QED
  BY <1>1, <1>2 DEF Next, Exited

LEMMA InitAbstract == Init => WL!Init
<1> SUFFICES ASSUME Init PROVE WL!Init
  OBVIOUS
<1>1. TypeInv /\ MutexInv /\ OwnerInv
  BY TypeInit, MutexInit, OwnerInit
<1>2. QueueRight
  BY <1>1, QueueIsRight
<1>3. fifo = <<>> /\ \A t \in Thread : Takes(t) = NULL /\ Got(t) = NULL
  BY DEF Init, Takes, Got
<1>4. QED
  BY <1>2, <1>3, GotIs DEF WL!Init, QueueRight

\* do_malloc implements a queue with atomic Add, Exchange and Discard, whoever comes
\* between its steps (memstress.c:111-141, 181-190, 209).
THEOREM WorkListIsImplemented == Spec => ImplementsWorkList
<1>1. TypeInv /\ MutexInv /\ OwnerInv /\ [Next]_vars => (TypeInv /\ MutexInv /\ OwnerInv)'
  BY TypeStep, MutexStep, OwnerStep
<1>2. TypeInv /\ MutexInv /\ OwnerInv /\ (TypeInv /\ MutexInv /\ OwnerInv)' /\ [Next]_vars
        => [WL!Next]_WL!vars
  BY QueueIsRight, QueueStaysRight, StepAbstract
<1>3. Spec => [][WL!Next]_WL!vars
  BY TypeInit, MutexInit, OwnerInit, <1>1, <1>2, PTL DEF Spec
<1>4. Spec => WL!Init
  BY InitAbstract DEF Spec
<1>5. QED
  BY <1>3, <1>4 DEF ImplementsWorkList, WL!Spec
=============================================================================
