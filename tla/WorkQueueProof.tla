--------------------------- MODULE WorkQueueProof ---------------------------
(***************************************************************************)
(* The thread library of AMG2013 goes through its work in rounds, and      *)
(* hypre_work_wait waits for them, for any number of workers, of items and *)
(* of allocations, and any size of the queue: TypeOK, InRounds and         *)
(* WaitMeansDone of WorkQueue.                                             *)
(*                                                                         *)
(* StateInv is the machinery: what the counters count, who leads the       *)
(* barrier, where main is, what the ring holds.  RoundInv is about the     *)
(* work: after some whole rounds, the workers that are busy have one item  *)
(* each of the next, and have passed the same barriers in it.              *)
(***************************************************************************)
EXTENDS WorkQueue, FiniteSetTheorems, TLAPS

-----------------------------------------------------------------------------
(* The machinery. *)

\* What the counters of the queue and of the barrier count.
Works(t) == pc[t] \notin {"none", "start", "woken", "waiting"}
Waits(t) == pc[t] \in {"woken", "waiting"}
Gathers(t) == pc[t] \in {"spin_release", "count_down"}
WorkingOnes == {t \in Worker : Works(t)}
WaitingOnes == {t \in Worker : Waits(t)}
Gathered == {t \in Worker : Gathers(t)}

CountInv ==
  /\ n_working = Cardinality(WorkingOnes)
  /\ n_waiting = Cardinality(WaitingOnes)
  /\ thb_count = Cardinality(Gathered)

\* One worker at most leads the others through the barrier, when all are in it.
Leads(t) == pc[t] \in {"release", "spin_count", "clear"}
BarrierInv ==
  /\ \A t \in Worker : Leads(t) =>
       /\ thb_release = IF pc[t] = "release" THEN 0 ELSE 1
       /\ \A u \in Worker \ {t} :
            /\ pc[u] \in {"spin_release", "count_down", "spin_clear"}
            /\ pc[t] = "release" => pc[u] = "spin_release"
            /\ pc[t] = "clear" => pc[u] = "spin_clear"
  /\ (\A t \in Worker : ~ Leads(t)) =>
       /\ thb_release = 0
       /\ \A t \in Worker : pc[t] # "count_down"

\* Where main is in its loops.
MainPlace == {"init", "app", "wait", "finish", "stop", "join", "down"}
WorkerPlace ==
  {"none", "start", "woken", "lock", "waiting", "call", "read", "return", "again",
   "exited", "enter", "spin_release", "count_down", "spin_clear", "release",
   "spin_count", "clear"}
MainInv ==
  /\ pc[Main] \in MainPlace /\ \A t \in Worker : pc[t] \in WorkerPlace
  /\ i \in Nat /\ i <= hypre_NumThreads
  /\ pc[Main] \in {"init", "stop", "join"} => i < hypre_NumThreads
  /\ pc[Main] \in {"app", "wait", "finish"} => i = 0
  /\ \A t \in Worker : pc[t] = "none" => pc[Main] = "init" /\ t >= i
  /\ pc[Main] = "init" => \A t \in Worker : t >= i => pc[t] = "none"

\* What a worker knows of its item, wherever it is.
WorkerOK(t) ==
  /\ pc[t] = "call" => /\ calls[t] < Allocs /\ item[t] \in Item \cup {Stop}
                       /\ item[t] = Stop => calls[t] = 0
  /\ InBarrier(t) => after[t] \in {"read", "return", "again"}
  /\ pc[t] \in {"read", "return"} \/ (InBarrier(t) /\ after[t] \in {"read", "return"}) =>
       calls[t] \in 1 .. Allocs /\ item[t] \in Item
  /\ InBarrier(t) /\ after[t] = "again" => calls[t] = 0 /\ item[t] \in Item \cup {Stop}
  /\ pc[t] \notin {"call", "read", "return"} /\ ~ InBarrier(t) => calls[t] = 0

\* How many items main has put, those that stop the workers included, and how many of
\* them are taken.
Stopping == pc[Main] \in {"stop", "join", "down"}
Puts == put + (IF pc[Main] = "stop" THEN i
               ELSE IF pc[Main] \in {"join", "down"} THEN hypre_NumThreads ELSE 0)
Taken == Puts - n_queue
Nth(k) == IF k <= put THEN k ELSE Stop

\* As long as it does not overflow, the ring holds the items not yet taken, in order.
QueueInv ==
  /\ Taken \in Nat
  /\ Stopping => put % hypre_NumThreads = 0
  /\ error => \A s \in Slot : worker_proc_queue[s] # NULL
  /\ ~ error =>
       /\ n_queue <= MAX_QUEUE
       /\ inp = Puts % MAX_QUEUE /\ outp = Taken % MAX_QUEUE
       /\ \A k \in Taken + 1 .. Puts : worker_proc_queue[(k - 1) % MAX_QUEUE] = Nth(k)

StateInv ==
  /\ TypeOK /\ CountInv /\ BarrierInv /\ MainInv /\ QueueInv
  /\ \A t \in Worker : WorkerOK(t)

-----------------------------------------------------------------------------
(* The rounds. *)

\* A worker that spins until release is cleared again is through the barrier.
Through(t) == pc[t] = "spin_clear" /\ thb_release = 0
\* The workers that have taken their item of this round.  The round ends when the last
\* barrier opens.
Busy(t) ==
  \/ pc[t] \in {"call", "read", "return"}
  \/ InBarrier(t) /\ ~ (after[t] = "again" /\ Through(t))
BusyOnes == {t \in Worker : Busy(t)}

\* How many barriers a worker has passed in its item.
Passed(t) ==
  IF pc[t] \in {"call", "return"} THEN 2 * calls[t]
  ELSE IF pc[t] = "read" THEN 2 * calls[t] - 1
  ELSE IF after[t] = "read" THEN 2 * calls[t] - 2 + (IF Through(t) THEN 1 ELSE 0)
  ELSE IF after[t] = "return" THEN 2 * calls[t] - 1 + (IF Through(t) THEN 1 ELSE 0)
  ELSE IF item[t] = Stop THEN 0 ELSE 2 * Allocs

InStep ==
  \A t, u \in Worker : Busy(t) =>
    /\ Busy(u) => Passed(u) = Passed(t)
    /\ Passed(t) > 0 => Busy(u)

\* The blocks a worker has asked for in its item.
Asked(t) ==
  IF ~ Busy(t) THEN 0 ELSE IF InBarrier(t) /\ after[t] = "again" THEN Allocs ELSE calls[t]

AtEnd(t) == Busy(t) /\ InBarrier(t) /\ after[t] = "again"
\* A worker that has copied its pointer, until it uses the block.
Copied(t) == pc[t] = "return" \/ (InBarrier(t) /\ after[t] = "return")

\* The round after those that took `base' items and asked for `first' blocks.
RoundFrom(base, first) ==
  /\ Taken = base + Cardinality(BusyOnes)
  /\ \A t \in Worker : Busy(t) =>
       /\ base < put => item[t] \in base + 1 .. Taken /\ item[t] <= put
       /\ base >= put => item[t] = Stop
  /\ \A t, u \in Worker : Busy(t) /\ Busy(u) /\ item[t] = item[u] /\ item[t] # Stop => t = u
  /\ ~ Stopping \/ base < put =>
       /\ global_alloc_ptr = first + Asked(0)
       /\ \A t \in Worker : Copied(t) => ptr[t] = first + calls[t]
  /\ ~ Stopping => done = 1 .. base \cup {item[t] : t \in {u \in Worker : AtEnd(u)}}

RoundAt(r) == RoundFrom(r * hypre_NumThreads, r * Allocs)

RoundInv == ~ error => InStep /\ \E r \in Nat : RoundAt(r)

-----------------------------------------------------------------------------
LEMMA ConstantFacts ==
  /\ hypre_NumThreads \in Nat \ {0} /\ MAX_QUEUE \in Nat \ {0} /\ MaxItems \in Nat
  /\ Allocs \in Nat \ {0}
  /\ Worker \subseteq Nat /\ Main \notin Worker /\ 0 \in Worker /\ 0 \in Slot
  /\ IsFiniteSet(Worker) /\ Cardinality(Worker) = hypre_NumThreads
  /\ \A t \in Thread : t \in Worker \/ t = Main
  /\ Main \in Thread /\ Worker \subseteq Thread
  /\ NULL \notin Nat /\ Stop \notin Item /\ Item \subseteq Nat
<1>1. /\ hypre_NumThreads \in Nat \ {0} /\ MAX_QUEUE \in Nat \ {0} /\ MaxItems \in Nat
      /\ Allocs \in Nat \ {0} /\ NULL \notin Nat
  BY WorkQueueAssumption
<1>2. IsFiniteSet(Worker) /\ Cardinality(Worker) = hypre_NumThreads
  BY <1>1, FS_Interval DEF Worker
<1> QED
  BY <1>1, <1>2 DEF Worker, Main, Thread, Slot, Item, Stop

\* A set of workers that one worker enters, leaves or stays in.
LEMMA OneChanges ==
  ASSUME NEW S, NEW T, NEW t \in Worker, S \subseteq Worker, T \subseteq Worker,
         \A u \in Worker \ {t} : u \in T <=> u \in S
  PROVE  /\ Cardinality(S) \in 0 .. hypre_NumThreads
         /\ Cardinality(T) \in 0 .. hypre_NumThreads
         /\ t \in T /\ t \notin S => Cardinality(T) = Cardinality(S) + 1
         /\ t \notin T /\ t \in S => Cardinality(T) = Cardinality(S) - 1
         /\ (t \in T <=> t \in S) => Cardinality(T) = Cardinality(S)
<1>1. /\ IsFiniteSet(S) /\ Cardinality(S) <= hypre_NumThreads
      /\ IsFiniteSet(T) /\ Cardinality(T) <= hypre_NumThreads
  BY ConstantFacts, FS_Subset
<1>2. Cardinality(S) \in 0 .. hypre_NumThreads /\ Cardinality(T) \in 0 .. hypre_NumThreads
  BY <1>1, FS_CardinalityType, ConstantFacts
<1>3. t \in T /\ t \notin S => Cardinality(T) = Cardinality(S) + 1
  <2>1. t \in T /\ t \notin S => T = S \cup {t}
    OBVIOUS
  <2> QED
    BY <1>1, <2>1, FS_AddElement
<1>4. t \notin T /\ t \in S => Cardinality(T) = Cardinality(S) - 1
  <2>1. t \notin T /\ t \in S => T = S \ {t}
    OBVIOUS
  <2> QED
    BY <1>1, <2>1, FS_RemoveElement
<1>5. (t \in T <=> t \in S) => T = S
  OBVIOUS
<1> QED
  BY <1>2, <1>3, <1>4, <1>5

\* A set that one worker is not in has room for it.
LEMMA OneMissing ==
  ASSUME NEW S, NEW t \in Worker, S \subseteq Worker \ {t}
  PROVE  /\ Cardinality(S) \in 0 .. hypre_NumThreads - 1
         /\ Cardinality(S) + 1 = hypre_NumThreads => S = Worker \ {t}
<1>1. IsFiniteSet(Worker \ {t}) /\ Cardinality(Worker \ {t}) = hypre_NumThreads - 1
  BY ConstantFacts, FS_RemoveElement
<1>2. /\ IsFiniteSet(S) /\ Cardinality(S) <= hypre_NumThreads - 1
      /\ Cardinality(S) = hypre_NumThreads - 1 => S = Worker \ {t}
  BY <1>1, FS_Subset
<1> QED
  BY <1>2, FS_CardinalityType, ConstantFacts

\* A step of a worker leaves alone where the others are and what they have.
Others(t) ==
  \A u \in Worker \ {t} :
    /\ pc'[u] = pc[u] /\ after'[u] = after[u] /\ item'[u] = item[u]
    /\ ptr'[u] = ptr[u] /\ calls'[u] = calls[u]

LEMMA OthersKept ==
  ASSUME TypeOK, NEW t \in Worker, Work(t)
  PROVE  /\ Others(t)
         /\ pc'[Main] = pc[Main] \/ (Wait(t) /\ pc[Main] = "finish" /\ pc'[Main] = "wait")
<1> USE ConstantFacts DEF TypeOK, Goto, Others, ring, counters, queue, barrier, blocks, history
<1>1. CASE Wait(t) BY <1>1 DEF Wait
<1>2. CASE Take(t) BY <1>2 DEF Take
<1>3. CASE EndLocked(t) BY <1>3 DEF EndLocked
<1>4. CASE CallStop(t) BY <1>4 DEF CallStop, Meet
<1>5. CASE CallItem(t) BY <1>5 DEF CallItem, Meet
<1>6. CASE ReadPtr(t) BY <1>6 DEF ReadPtr
<1>7. CASE CallAgain(t) BY <1>7 DEF CallAgain
<1>8. CASE ReturnItem(t) BY <1>8 DEF ReturnItem, Meet
<1>9. CASE Again(t) BY <1>9 DEF Again
<1>10. CASE Enter(t) BY <1>10 DEF Enter
<1>11. CASE Release(t) BY <1>11 DEF Release
<1>12. CASE SpinRelease(t) BY <1>12 DEF SpinRelease
<1>13. CASE CountDown(t) BY <1>13 DEF CountDown
<1>14. CASE SpinCount(t) BY <1>14 DEF SpinCount
<1>15. CASE Clear(t) BY <1>15 DEF Clear
<1>16. CASE SpinClear(t) BY <1>16 DEF SpinClear
<1> QED
  BY <1>1, <1>2, <1>3, <1>4, <1>5, <1>6, <1>7, <1>8, <1>9, <1>10, <1>11, <1>12, <1>13,
     <1>14, <1>15, <1>16 DEF Work

\* What the other steps do to the workers: start one, or wake one.
Aside ==
  /\ UNCHANGED <<item, barrier, blocks, n_working, n_waiting, work_continue, outp, done, lock>>
  /\ \A u \in Worker :
       \/ pc'[u] = pc[u]
       \/ pc[u] = "none" /\ pc'[u] = "start"
       \/ pc[u] = "waiting" /\ pc'[u] = "woken"

LEMMA AsideSteps ==
  ASSUME TypeOK, MainInv,
         \/ Library \/ PutItem \/ CallWait \/ CallDestroy
         \/ \E t \in Thread : WakeUp(t)
         \/ UNCHANGED vars
  PROVE  Aside
<1> USE ConstantFacts DEF TypeOK, Goto, Aside, ring, counters, queue, barrier, blocks, history
<1>1. CASE Create
  <2>1. i \in Worker /\ pc[i] = "none" /\ pc[Main] = "init"
    BY <1>1 DEF Create, MainInv, Worker
  <2> QED
    BY <1>1, <2>1 DEF Create
<1>2. CASE WaitForFinish BY <1>2 DEF WaitForFinish
<1>3. ASSUME NEW x, NEW label, hypre_work_put(x, label)
      PROVE  /\ UNCHANGED <<outp, n_working, n_waiting>>
             /\ \A u \in Worker : \/ pc'[u] = pc[u]
                                  \/ pc[u] = "waiting" /\ pc'[u] = "woken"
  BY <1>3 DEF hypre_work_put, Wakeable
<1>4. CASE PutStop BY <1>3, <1>4 DEF PutStop
<1>5. CASE Join BY <1>5 DEF Join
<1>6. CASE PutItem BY <1>3, <1>6 DEF PutItem
<1>7. CASE CallWait BY <1>7 DEF CallWait
<1>8. CASE CallDestroy BY <1>8 DEF CallDestroy
<1>9. ASSUME NEW t \in Thread, WakeUp(t) PROVE Aside
  <2>1. CASE t = Main
    BY <1>9, <2>1 DEF WakeUp
  <2>2. CASE t \in Worker
    <3>1. pc[t] = "waiting" /\ pc' = [pc EXCEPT ![t] = "woken"]
      BY <1>9, <2>2 DEF WakeUp, MainInv, WorkerPlace
    <3> QED
      BY <1>9, <3>1 DEF WakeUp
  <2> QED
    BY <2>1, <2>2
<1>10. CASE UNCHANGED vars BY <1>10 DEF vars
<1> QED
  BY <1>1, <1>2, <1>4, <1>5, <1>6, <1>7, <1>8, <1>9, <1>10 DEF Library

-----------------------------------------------------------------------------
LEMMA CountInit == Init => CountInv
<1> SUFFICES ASSUME Init PROVE CountInv
  OBVIOUS
<1>1. \A t \in Worker : pc[t] = "none"
  BY ConstantFacts DEF Init
<1>2. WorkingOnes = {} /\ WaitingOnes = {} /\ Gathered = {}
  BY <1>1 DEF WorkingOnes, WaitingOnes, Gathered, Works, Waits, Gathers
<1> QED
  BY <1>2, FS_EmptySet DEF Init, CountInv

\* The sets that are counted, seen from a worker that takes a step.
LEMMA CountsMove ==
  ASSUME CountInv, NEW t \in Worker, \A u \in Worker \ {t} : pc'[u] = pc[u]
  PROVE  /\ n_working \in 0 .. hypre_NumThreads /\ n_waiting \in 0 .. hypre_NumThreads
         /\ thb_count \in 0 .. hypre_NumThreads
         /\ Works(t)' /\ ~ Works(t) => Cardinality(WorkingOnes') = n_working + 1
         /\ ~ Works(t)' /\ Works(t) => Cardinality(WorkingOnes') = n_working - 1
         /\ (Works(t)' <=> Works(t)) => Cardinality(WorkingOnes') = n_working
         /\ Waits(t)' /\ ~ Waits(t) => Cardinality(WaitingOnes') = n_waiting + 1
         /\ ~ Waits(t)' /\ Waits(t) => Cardinality(WaitingOnes') = n_waiting - 1
         /\ (Waits(t)' <=> Waits(t)) => Cardinality(WaitingOnes') = n_waiting
         /\ Gathers(t)' /\ ~ Gathers(t) => Cardinality(Gathered') = thb_count + 1
         /\ ~ Gathers(t)' /\ Gathers(t) => Cardinality(Gathered') = thb_count - 1
         /\ (Gathers(t)' <=> Gathers(t)) => Cardinality(Gathered') = thb_count
<1> DEFINE W == WorkingOnes
           V == WaitingOnes
           G == Gathered
<1>1. /\ W \subseteq Worker /\ W' \subseteq Worker
      /\ \A u \in Worker \ {t} : u \in W' <=> u \in W
      /\ (t \in W <=> Works(t)) /\ (t \in W' <=> Works(t)')
  BY DEF WorkingOnes, Works
<1>2. /\ V \subseteq Worker /\ V' \subseteq Worker
      /\ \A u \in Worker \ {t} : u \in V' <=> u \in V
      /\ (t \in V <=> Waits(t)) /\ (t \in V' <=> Waits(t)')
  BY DEF WaitingOnes, Waits
<1>3. /\ G \subseteq Worker /\ G' \subseteq Worker
      /\ \A u \in Worker \ {t} : u \in G' <=> u \in G
      /\ (t \in G <=> Gathers(t)) /\ (t \in G' <=> Gathers(t)')
  BY DEF Gathered, Gathers
<1>4. n_working = Cardinality(W) /\ n_waiting = Cardinality(V) /\ thb_count = Cardinality(G)
  BY DEF CountInv
<1> HIDE DEF W, V, G
<1>5. /\ n_working \in 0 .. hypre_NumThreads
      /\ Works(t)' /\ ~ Works(t) => Cardinality(W') = n_working + 1
      /\ ~ Works(t)' /\ Works(t) => Cardinality(W') = n_working - 1
      /\ (Works(t)' <=> Works(t)) => Cardinality(W') = n_working
  BY <1>1, <1>4, OneChanges
<1>6. /\ n_waiting \in 0 .. hypre_NumThreads
      /\ Waits(t)' /\ ~ Waits(t) => Cardinality(V') = n_waiting + 1
      /\ ~ Waits(t)' /\ Waits(t) => Cardinality(V') = n_waiting - 1
      /\ (Waits(t)' <=> Waits(t)) => Cardinality(V') = n_waiting
  BY <1>2, <1>4, OneChanges
<1>7. /\ thb_count \in 0 .. hypre_NumThreads
      /\ Gathers(t)' /\ ~ Gathers(t) => Cardinality(G') = thb_count + 1
      /\ ~ Gathers(t)' /\ Gathers(t) => Cardinality(G') = thb_count - 1
      /\ (Gathers(t)' <=> Gathers(t)) => Cardinality(G') = thb_count
  BY <1>3, <1>4, OneChanges
<1> QED
  BY <1>5, <1>6, <1>7 DEF W, V, G

LEMMA CountWorkStep ==
  ASSUME TypeOK, CountInv, MainInv, \A u \in Worker : WorkerOK(u), NEW t \in Worker, Work(t)
  PROVE  CountInv'
<1>1. \A u \in Worker \ {t} : pc'[u] = pc[u]
  BY OthersKept DEF Others
<1>2. t \in Thread /\ t # Main /\ pc \in [Thread -> WorkerPlace \cup MainPlace]
  BY ConstantFacts DEF TypeOK, WorkerPlace, MainPlace
<1>3. n_working \in Nat /\ n_waiting \in Nat /\ thb_count \in Nat
  BY <1>1, CountsMove
<1>4. /\ n_working' = n_working + (IF ~ Works(t) /\ Works(t)' THEN 1 ELSE 0)
                                - (IF Works(t) /\ ~ Works(t)' THEN 1 ELSE 0)
      /\ n_waiting' = n_waiting + (IF ~ Waits(t) /\ Waits(t)' THEN 1 ELSE 0)
                                - (IF Waits(t) /\ ~ Waits(t)' THEN 1 ELSE 0)
      /\ thb_count' = thb_count + (IF ~ Gathers(t) /\ Gathers(t)' THEN 1 ELSE 0)
                                - (IF Gathers(t) /\ ~ Gathers(t)' THEN 1 ELSE 0)
  <2> USE <1>2, <1>3 DEF Works, Waits, Gathers, Goto, Enters, Working, Waiting,
                         ring, counters, queue, barrier
  <2>1. CASE Wait(t) BY <2>1 DEF Wait
  <2>2. CASE Take(t) BY <2>2 DEF Take
  <2>3. CASE EndLocked(t) BY <2>3 DEF EndLocked
  <2>4. CASE CallStop(t) BY <2>4 DEF CallStop, Meet
  <2>5. CASE CallItem(t) BY <2>5 DEF CallItem, Meet
  <2>6. CASE ReadPtr(t) BY <2>6 DEF ReadPtr, AfterRead
  <2>7. CASE CallAgain(t) BY <2>7 DEF CallAgain
  <2>8. CASE ReturnItem(t) BY <2>8 DEF ReturnItem, Meet
  <2>9. CASE Again(t) BY <2>9 DEF Again
  <2>10. CASE Enter(t) BY <2>10 DEF Enter
  <2>11. CASE Release(t) BY <2>11 DEF Release
  <2>12. CASE SpinRelease(t) BY <2>12 DEF SpinRelease
  <2>13. CASE CountDown(t) BY <2>13 DEF CountDown
  <2>14. CASE SpinCount(t) BY <2>14 DEF SpinCount
  <2>15. ASSUME Clear(t) \/ SpinClear(t), InBarrier(t)
         PROVE  after[t] \in {"read", "return", "again"}
    BY <2>15 DEF WorkerOK
  <2>16. CASE Clear(t) BY <2>15, <2>16 DEF Clear, InBarrier
  <2>17. CASE SpinClear(t) BY <2>15, <2>17 DEF SpinClear, InBarrier
  <2> QED
    BY <2>1, <2>2, <2>3, <2>4, <2>5, <2>6, <2>7, <2>8, <2>9, <2>10, <2>11, <2>12, <2>13,
       <2>14, <2>16, <2>17 DEF Work
<1> QED
  BY <1>1, <1>3, <1>4, CountsMove DEF CountInv

LEMMA CountAsideStep ==
  ASSUME CountInv, Aside
  PROVE  CountInv'
<1>1. \A u \in Worker : /\ Works(u)' <=> Works(u)
                        /\ Waits(u)' <=> Waits(u)
                        /\ Gathers(u)' <=> Gathers(u)
  BY DEF Aside, Works, Waits, Gathers
<1>2. WorkingOnes' = WorkingOnes /\ WaitingOnes' = WaitingOnes /\ Gathered' = Gathered
  BY <1>1 DEF WorkingOnes, WaitingOnes, Gathered
<1> QED
  BY <1>2 DEF CountInv, Aside, barrier

-----------------------------------------------------------------------------
(* The barrier. *)

LEMMA BarrierInit == Init => BarrierInv
BY ConstantFacts DEF Init, BarrierInv, Leads

\* A worker outside of the barrier, or on its way into or out of it, means that nobody leads.
LEMMA NobodyLeads ==
  ASSUME BarrierInv, NEW t \in Worker, ~ Leads(t),
         pc[t] \notin {"spin_release", "count_down", "spin_clear"}
  PROVE  thb_release = 0 /\ \A u \in Worker : ~ Leads(u) /\ pc[u] # "count_down"
<1>1. \A u \in Worker : ~ Leads(u)
  <2>1. ASSUME NEW u \in Worker, Leads(u) PROVE FALSE
    BY <2>1 DEF BarrierInv
  <2> QED
    BY <2>1
<1> QED
  BY <1>1 DEF BarrierInv

\* A step of a worker that stays outside, or waits in front of the barrier.
LEMMA BarrierQuiet ==
  ASSUME BarrierInv, NEW t \in Worker, \A u \in Worker \ {t} : pc'[u] = pc[u],
         UNCHANGED thb_release, ~ Leads(t), ~ Leads(t)',
         \A u \in Worker : ~ Leads(u), pc'[t] # "count_down"
  PROVE  BarrierInv'
<1>1. thb_release = 0 /\ \A u \in Worker : pc[u] # "count_down"
  BY DEF BarrierInv
<1>2. \A u \in Worker : ~ Leads(u)' /\ pc'[u] # "count_down"
  BY <1>1 DEF Leads
<1> QED
  BY <1>1, <1>2 DEF BarrierInv

LEMMA BarrierWorkStep ==
  ASSUME TypeOK, CountInv, BarrierInv, \A u \in Worker : WorkerOK(u),
         NEW t \in Worker, Work(t)
  PROVE  BarrierInv'
<1>1. \A u \in Worker \ {t} : pc'[u] = pc[u]
  BY OthersKept DEF Others
<1>2. t \in Thread /\ t # Main /\ DOMAIN pc = Thread
  BY ConstantFacts DEF TypeOK
<1> USE <1>2 DEF Goto, barrier
<1>3. CASE Wait(t) \/ Take(t) \/ EndLocked(t) \/ CallStop(t) \/ CallItem(t) \/ ReadPtr(t)
           \/ CallAgain(t) \/ ReturnItem(t) \/ Again(t)
  <2>1. /\ UNCHANGED thb_release
        /\ ~ Leads(t) /\ pc[t] \notin {"spin_release", "count_down", "spin_clear"}
        /\ ~ Leads(t)' /\ pc'[t] # "count_down"
    BY <1>3 DEF Wait, Take, EndLocked, CallStop, CallItem, ReadPtr, CallAgain, ReturnItem,
                Again, Meet, AfterRead, Leads, Enters
  <2> QED
    BY <1>1, <2>1, NobodyLeads, BarrierQuiet
<1>4. CASE Enter(t)
  <2>1. pc[t] = "enter" /\ UNCHANGED thb_release /\ ~ Leads(t)
    BY <1>4 DEF Enter, Leads
  <2>2. thb_release = 0 /\ \A u \in Worker : ~ Leads(u) /\ pc[u] # "count_down"
    BY <2>1, NobodyLeads
  <2>3. CASE Last(thb_count)
    <3>1. pc'[t] = "release" /\ thb_count + 1 = hypre_NumThreads
      BY <1>4, <2>3 DEF Enter, Last
    <3>2. Gathered \subseteq Worker \ {t}
      BY <2>1 DEF Gathered, Gathers
    <3>3. Gathered = Worker \ {t}
      BY <3>1, <3>2, OneMissing DEF CountInv
    <3>4. \A u \in Worker \ {t} : pc[u] = "spin_release"
      BY <2>2, <3>3 DEF Gathered, Gathers
    <3> QED
      BY <1>1, <2>1, <2>2, <3>1, <3>4 DEF BarrierInv, Leads
  <2>4. CASE ~ Last(thb_count)
    <3>1. pc'[t] = "spin_release"
      BY <1>4, <2>4 DEF Enter
    <3> QED
      BY <1>1, <2>1, <2>2, <3>1, BarrierQuiet DEF Leads
  <2> QED
    BY <2>3, <2>4
<1>5. CASE Release(t)
  <2>1. pc[t] = "release" /\ pc'[t] = "spin_count" /\ thb_release' = thb_release + 1
    BY <1>5 DEF Release
  <2>2. thb_release = 0 /\ \A u \in Worker \ {t} : pc[u] = "spin_release"
    BY <2>1 DEF BarrierInv, Leads
  <2> QED
    BY <1>1, <2>1, <2>2 DEF BarrierInv, Leads
<1>6. CASE SpinRelease(t) \/ CountDown(t)
  <2>1. /\ \/ pc[t] = "spin_release" /\ thb_release # 0 /\ pc'[t] = "count_down"
           \/ pc[t] = "count_down" /\ pc'[t] = "spin_clear"
        /\ UNCHANGED thb_release
    BY <1>6 DEF SpinRelease, CountDown
  <2>2. PICK u \in Worker : Leads(u)
    BY <2>1 DEF BarrierInv
  <2>3. u # t /\ pc[u] = "spin_count" /\ thb_release = 1
    BY <2>1, <2>2 DEF BarrierInv, Leads
  <2>4. \A v \in Worker \ {u} : pc[v] \in {"spin_release", "count_down", "spin_clear"}
    BY <2>2 DEF BarrierInv
  <2> QED
    BY <1>1, <2>1, <2>3, <2>4 DEF BarrierInv, Leads
<1>7. CASE SpinCount(t)
  <2>1. pc[t] = "spin_count" /\ pc'[t] = "clear" /\ thb_count = 0 /\ UNCHANGED thb_release
    BY <1>7 DEF SpinCount
  <2>2. Gathered = {}
    <3>1. IsFiniteSet(Gathered)
      BY ConstantFacts, FS_Subset DEF Gathered
    <3> QED
      BY <2>1, <3>1, FS_EmptySet DEF CountInv
  <2>3. thb_release = 1 /\ \A u \in Worker \ {t} : pc[u] = "spin_clear"
    BY <2>1, <2>2 DEF BarrierInv, Leads, Gathered, Gathers
  <2> QED
    BY <1>1, <2>1, <2>3 DEF BarrierInv, Leads
<1>8. CASE Clear(t)
  <2>1. pc[t] = "clear" /\ pc'[t] = after[t] /\ thb_release' = 0
    BY <1>8 DEF Clear
  <2>2. after[t] \in {"read", "return", "again"}
    BY <2>1 DEF WorkerOK, InBarrier
  <2>3. \A u \in Worker \ {t} : pc[u] = "spin_clear"
    BY <2>1 DEF BarrierInv, Leads
  <2> QED
    BY <1>1, <2>1, <2>2, <2>3 DEF BarrierInv, Leads
<1>9. CASE SpinClear(t)
  <2>1. pc[t] = "spin_clear" /\ pc'[t] = after[t] /\ thb_release = 0 /\ UNCHANGED thb_release
    BY <1>9 DEF SpinClear, Cleared
  <2>2. after[t] \in {"read", "return", "again"}
    BY <2>1 DEF WorkerOK, InBarrier
  <2>3. \A u \in Worker : ~ Leads(u)
    BY <2>1 DEF BarrierInv, Leads
  <2> QED
    BY <1>1, <2>1, <2>2, <2>3, BarrierQuiet DEF Leads
<1> QED
  BY <1>3, <1>4, <1>5, <1>6, <1>7, <1>8, <1>9 DEF Work

LEMMA BarrierAsideStep ==
  ASSUME BarrierInv, Aside
  PROVE  BarrierInv'
<1>1. ASSUME NEW u \in Worker, pc'[u] # pc[u]
      PROVE  pc[u] \in {"none", "waiting"} /\ pc'[u] \in {"start", "woken"}
  BY <1>1 DEF Aside
<1>2. thb_release' = thb_release
  BY DEF Aside, barrier
<1>3. \A u \in Worker : Leads(u)' <=> Leads(u)
  BY <1>1 DEF Leads
<1> QED
  BY <1>1, <1>2, <1>3 DEF BarrierInv, Leads

-----------------------------------------------------------------------------
(* The loops of main, and what a worker knows of its item. *)

LEMMA MainInit == Init => MainInv
BY ConstantFacts DEF Init, MainInv, MainPlace, WorkerPlace

LEMMA MainWorkStep ==
  ASSUME TypeOK, MainInv, NEW t \in Worker, WorkerOK(t), Work(t)
  PROVE  MainInv'
<1>1. \A u \in Worker \ {t} : pc'[u] = pc[u]
  BY OthersKept DEF Others
<1>2. UNCHANGED i
  BY DEF Work, Wait, Take, EndLocked, CallStop, CallItem, ReadPtr, CallAgain, ReturnItem,
     Again, Enter, Release, SpinRelease, CountDown, SpinCount, Clear, SpinClear
<1>3. pc[t] # "none" /\ pc'[t] \in WorkerPlace \ {"none"}
  <2> USE ConstantFacts DEF TypeOK, Goto, WorkerPlace, Meet
  <2>1. CASE Clear(t) BY <2>1 DEF Clear, WorkerOK, InBarrier
  <2>2. CASE SpinClear(t) BY <2>2 DEF SpinClear, WorkerOK, InBarrier
  <2>3. CASE ~ (Clear(t) \/ SpinClear(t))
    BY <2>3 DEF Work, Wait, Take, EndLocked, CallStop, CallItem, ReadPtr, CallAgain,
       ReturnItem, Again, Enter, Release, SpinRelease, CountDown, SpinCount, Enters, AfterRead
  <2> QED
    BY <2>1, <2>2, <2>3
<1>4. pc'[Main] = pc[Main] \/ (pc[Main] = "finish" /\ pc'[Main] = "wait")
  BY OthersKept
<1> QED
  BY <1>1, <1>2, <1>3, <1>4 DEF MainInv, MainPlace

LEMMA MainOtherStep ==
  ASSUME TypeOK, MainInv,
         \/ Library \/ PutItem \/ CallWait \/ CallDestroy
         \/ \E t \in Thread : WakeUp(t)
         \/ UNCHANGED vars
  PROVE  MainInv'
<1>0. hypre_NumThreads \in Nat \ {0}
  BY ConstantFacts
<1>1. ASSUME \A u \in Worker : \/ pc'[u] = pc[u]
                               \/ pc[u] = "waiting" /\ pc'[u] = "woken",
             pc'[Main] \in MainPlace, i' \in Nat, i' <= hypre_NumThreads,
             pc'[Main] \in {"stop", "join"} => i' < hypre_NumThreads,
             pc'[Main] \in {"app", "wait", "finish"} => i' = 0,
             pc[Main] # "init", pc'[Main] # "init"
      PROVE  MainInv'
  BY <1>1 DEF MainInv, WorkerPlace
<1>2. Aside
  BY AsideSteps
<1> USE ConstantFacts DEF Goto
<1>3. ASSUME NEW x, NEW label, hypre_work_put(x, label)
      PROVE  /\ pc'[Main] = label
             /\ \A u \in Worker : \/ pc'[u] = pc[u]
                                  \/ pc[u] = "waiting" /\ pc'[u] = "woken"
  BY <1>3 DEF hypre_work_put, Wakeable, TypeOK
<1>4. CASE Create
  <2>1. i \in Worker /\ pc[i] = "none" /\ pc[Main] = "init"
    BY <1>4 DEF Create, MainInv, Worker
  <2>2. /\ pc' = [pc EXCEPT ![i] = "start",
                            ![Main] = IF i + 1 = hypre_NumThreads THEN "app" ELSE "init"]
        /\ i' = IF i + 1 = hypre_NumThreads THEN 0 ELSE i + 1
    BY <1>4 DEF Create
  <2>3. /\ \A u \in Worker \ {i} : pc'[u] = pc[u]
        /\ pc'[i] = "start"
        /\ pc'[Main] = IF i + 1 = hypre_NumThreads THEN "app" ELSE "init"
    BY <2>1, <2>2 DEF TypeOK
  <2>4. CASE i + 1 = hypre_NumThreads
    <3>1. \A u \in Worker \ {i} : u < i
      BY <1>0, <2>1, <2>4 DEF Worker
    <3>2. \A u \in Worker \ {i} : pc[u] # "none"
      BY <2>1, <3>1 DEF MainInv
    <3>3. pc'[Main] = "app" /\ i' = 0
      BY <2>2, <2>3, <2>4
    <3>4. \A u \in Worker : pc'[u] \in WorkerPlace \ {"none"}
      BY <2>1, <2>3, <3>2 DEF MainInv, WorkerPlace
    <3> QED
      BY <1>0, <3>3, <3>4 DEF MainInv, MainPlace
  <2>5. CASE i + 1 # hypre_NumThreads
    <3>1. i' \in Nat /\ i' < hypre_NumThreads /\ i' = i + 1
      BY <1>0, <2>1, <2>2, <2>5 DEF Worker
    <3>2. \A u \in Worker \ {i} : u >= i <=> u >= i + 1
      BY <2>1
    <3> QED
      BY <1>0, <2>1, <2>3, <2>5, <3>1, <3>2 DEF MainInv, MainPlace, WorkerPlace
  <2> QED
    BY <2>4, <2>5
<1>5. CASE WaitForFinish
  BY <1>0, <1>1, <1>5 DEF WaitForFinish, TypeOK, MainInv, MainPlace
<1>6. CASE PutStop
  <2>1. pc[Main] = "stop" /\ i \in Nat /\ i < hypre_NumThreads
    BY <1>6 DEF PutStop, MainInv
  <2>2. pc'[Main] = IF i + 1 < StopWorkers THEN "stop" ELSE "join"
    BY <1>3, <1>6 DEF PutStop
  <2>3. \A u \in Worker : pc'[u] = pc[u] \/ (pc[u] = "waiting" /\ pc'[u] = "woken")
    BY <1>3, <1>6 DEF PutStop
  <2>4. i' = IF i + 1 < StopWorkers THEN i + 1 ELSE 0
    BY <1>6 DEF PutStop
  <2> QED
    BY <1>0, <1>1, <2>1, <2>2, <2>3, <2>4 DEF MainPlace, StopWorkers
<1>7. CASE Join
  <2>1. /\ pc[Main] = "join" /\ i \in Nat /\ i < hypre_NumThreads /\ i' = i + 1
        /\ pc'[Main] = IF i + 1 = hypre_NumThreads THEN "down" ELSE "join"
        /\ \A u \in Worker : pc'[u] = pc[u]
    BY <1>7 DEF Join, TypeOK, MainInv
  <2> QED
    BY <1>0, <1>1, <2>1 DEF MainPlace
<1>8. CASE PutItem
  <2>1. pc[Main] = "app" /\ i = 0 /\ i' = i
    BY <1>8 DEF PutItem, MainInv
  <2>2. pc'[Main] = "app"
    BY <1>3, <1>8 DEF PutItem
  <2>3. \A u \in Worker : pc'[u] = pc[u] \/ (pc[u] = "waiting" /\ pc'[u] = "woken")
    BY <1>3, <1>8 DEF PutItem
  <2> QED
    BY <1>0, <1>1, <2>1, <2>2, <2>3 DEF MainPlace
<1>9. CASE CallWait
  BY <1>0, <1>1, <1>9 DEF CallWait, TypeOK, MainInv, MainPlace
<1>10. CASE CallDestroy
  BY <1>0, <1>1, <1>10 DEF CallDestroy, TypeOK, MainInv, MainPlace
<1>11. ASSUME NEW t \in Thread, WakeUp(t) PROVE MainInv'
  <2>1. UNCHANGED i
    BY <1>11 DEF WakeUp
  <2>2. CASE t = Main
    <3>1. pc[Main] = "finish" /\ pc'[Main] = "wait" /\ \A u \in Worker : pc'[u] = pc[u]
      BY <1>11, <2>2 DEF WakeUp, TypeOK, MainInv, MainPlace
    <3> QED
      BY <1>0, <1>1, <2>1, <3>1 DEF MainInv, MainPlace
  <2>3. CASE t \in Worker
    <3>1. pc[t] = "waiting" /\ pc' = [pc EXCEPT ![t] = "woken"]
      BY <1>11, <2>3 DEF WakeUp, MainInv, WorkerPlace
    <3> QED
      BY <2>1, <2>3, <3>1 DEF MainInv, WorkerPlace, TypeOK
  <2> QED
    BY <2>2, <2>3
<1>12. CASE UNCHANGED vars
  BY <1>12 DEF vars, MainInv
<1> QED
  BY <1>4, <1>5, <1>6, <1>7, <1>8, <1>9, <1>10, <1>11, <1>12 DEF Library

-----------------------------------------------------------------------------
LEMMA WorkerInit == Init => \A t \in Worker : WorkerOK(t)
BY ConstantFacts DEF Init, WorkerOK, InBarrier

LEMMA WorkerWorkStep ==
  ASSUME TypeOK, QueueInv, \A u \in Worker : WorkerOK(u), NEW t \in Worker, Work(t)
  PROVE  \A u \in Worker : WorkerOK(u)'
<1>1. ASSUME NEW u \in Worker \ {t} PROVE WorkerOK(u)'
  BY <1>1, OthersKept DEF Others, WorkerOK, InBarrier
<1>2. WorkerOK(t)'
  <2>0. /\ WorkerOK(t) /\ calls[t] \in 0 .. Allocs /\ Allocs \in Nat \ {0}
        /\ Item \subseteq Nat /\ Stop \notin Item /\ t \in Thread /\ t # Main /\ NULL \notin Nat
        /\ DOMAIN pc = Thread /\ DOMAIN calls = Worker /\ DOMAIN item = Worker
        /\ DOMAIN after = Worker
    BY ConstantFacts DEF TypeOK
  <2> USE <2>0 DEF Goto, WorkerOK, InBarrier, ring, counters, queue, barrier, blocks, history
  <2>1. CASE Wait(t) BY <2>1 DEF Wait, Enters
  <2>2. CASE Take(t)
    <3>1. /\ pc[t] \in {"start", "lock", "woken"} /\ pc'[t] = "call"
          /\ item'[t] = worker_proc_queue[outp] /\ UNCHANGED <<calls, after>> /\ n_queue # 0
      BY <2>2 DEF Take, Enters
    <3>2. outp \in Slot /\ worker_proc_queue[outp] \in Item \cup {Stop, NULL}
      BY DEF TypeOK
    <3>3. worker_proc_queue[outp] # NULL
      <4>1. CASE error
        BY <3>2, <4>1 DEF QueueInv
      <4>2. CASE ~ error
        <5>1. Taken \in Nat /\ n_queue \in Nat /\ n_queue # 0 /\ Puts = Taken + n_queue
          BY <3>1, ConstantFacts DEF QueueInv, TypeOK, Taken, Puts
        <5>2. Taken + 1 \in Taken + 1 .. Puts
          BY <5>1
        <5>3. worker_proc_queue[outp] = Nth(Taken + 1)
          <6>1. (Taken + 1) - 1 = Taken
            BY <5>1
          <6> QED
            BY <4>2, <5>2, <6>1 DEF QueueInv
        <5> QED
          BY <5>1, <5>3 DEF Nth, Stop
      <4> QED
        BY <4>1, <4>2
    <3> QED
      BY <3>1, <3>2, <3>3
  <2>3. CASE EndLocked(t) BY <2>3 DEF EndLocked
  <2>4. CASE CallStop(t) BY <2>4 DEF CallStop, Meet
  <2>5. CASE CallItem(t) BY <2>5 DEF CallItem, Meet
  <2>6. CASE ReadPtr(t) BY <2>6 DEF ReadPtr, AfterRead
  <2>7. CASE CallAgain(t) BY <2>7 DEF CallAgain
  <2>8. CASE ReturnItem(t) BY <2>8 DEF ReturnItem, Meet
  <2>9. CASE Again(t) BY <2>9 DEF Again
  <2>10. CASE Enter(t) BY <2>10 DEF Enter
  <2>11. CASE Release(t) BY <2>11 DEF Release
  <2>12. CASE SpinRelease(t) BY <2>12 DEF SpinRelease
  <2>13. CASE CountDown(t) BY <2>13 DEF CountDown
  <2>14. CASE SpinCount(t) BY <2>14 DEF SpinCount
  <2>15. CASE Clear(t) BY <2>15 DEF Clear
  <2>16. CASE SpinClear(t) BY <2>16 DEF SpinClear
  <2> QED
    BY <2>1, <2>2, <2>3, <2>4, <2>5, <2>6, <2>7, <2>8, <2>9, <2>10, <2>11, <2>12, <2>13,
       <2>14, <2>15, <2>16 DEF Work
<1> QED
  BY <1>1, <1>2

LEMMA WorkerAsideStep ==
  ASSUME Aside, \A u \in Worker : WorkerOK(u)
  PROVE  \A u \in Worker : WorkerOK(u)'
BY DEF Aside, WorkerOK, InBarrier, barrier, blocks

-----------------------------------------------------------------------------
(* The ring. *)

\* What \div and % give.
LEMMA Division ==
  ASSUME NEW n \in Nat \ {0}, NEW x \in Nat
  PROVE  /\ x \div n \in Nat /\ x % n \in 0 .. n - 1
         /\ x = n * (x \div n) + (x % n)
OBVIOUS

LEMMA Cancel ==
  ASSUME NEW n \in Nat, NEW p \in Int, NEW q \in Int, n * p < n * q
  PROVE  p < q
OBVIOUS

LEMMA OneMore == \A n, p \in Int : n * (p + 1) = n * p + n /\ n * p \in Int
OBVIOUS

LEMMA SameQuotient ==
  ASSUME NEW n \in Nat \ {0}, NEW p \in Int, NEW q \in Int,
         NEW s \in 0 .. n - 1, NEW v \in 0 .. n - 1, n * p + s = n * q + v
  PROVE  p = q /\ s = v
<1>1. n * p < n * (q + 1) /\ n * q < n * (p + 1)
  BY OneMore
<1>2. p < q + 1 /\ q < p + 1
  BY <1>1, Cancel
<1>3. p = q
  BY <1>2
<1> QED
  BY <1>3, OneMore

LEMMA Quotient ==
  ASSUME NEW n \in Nat \ {0}, NEW q \in Nat, NEW s \in 0 .. n - 1
  PROVE  (n * q + s) \div n = q /\ (n * q + s) % n = s
<1> PICK x : x = n * q + s
  OBVIOUS
<1>1. x \in Nat
  OBVIOUS
<1>2. x \div n \in Nat /\ x % n \in 0 .. n - 1 /\ n * q + s = n * (x \div n) + (x % n)
  BY <1>1, Division
<1> QED
  BY <1>2, SameQuotient

LEMMA SmallRemainder ==
  ASSUME NEW n \in Nat \ {0}
  PROVE  /\ \A s \in 0 .. n - 1 : s % n = s
         /\ n % n = 0
         /\ \A q \in Nat : (n * q) % n = 0
<1>1. \A s \in 0 .. n - 1 : s % n = s
  OBVIOUS
<1>2. n % n = 0
  OBVIOUS
<1>3. ASSUME NEW q \in Nat PROVE (n * q) % n = 0
  <2>0. 0 \in 0 .. n - 1
    OBVIOUS
  <2>1. (n * q + 0) % n = 0
    BY <2>0, Quotient, Zenon
  <2>2. n * q + 0 = n * q
    OBVIOUS
  <2> QED
    BY <2>1, <2>2, Zenon
<1> QED
  BY <1>1, <1>2, <1>3

LEMMA RemainderNext ==
  ASSUME NEW n \in Nat \ {0}, NEW x \in Nat
  PROVE  ((x % n) + 1) % n = (x + 1) % n
<1> PICK q, s : q = x \div n /\ s = x % n
  OBVIOUS
<1>1. q \in Nat /\ s \in 0 .. n - 1 /\ x = n * q + s
  BY Division
<1>2. CASE s + 1 < n
  <2>1. x + 1 = n * q + (s + 1) /\ s + 1 \in 0 .. n - 1
    BY <1>1, <1>2, OneMore
  <2>2. (x + 1) % n = s + 1
    BY <1>1, <2>1, Quotient
  <2>3. (s + 1) % n = s + 1
    BY <2>1, SmallRemainder
  <2> QED
    BY <2>2, <2>3
<1>3. CASE s + 1 = n
  <2> PICK p : p = q + 1
    OBVIOUS
  <2>1. x + 1 = n * p /\ p \in Nat
    BY <1>1, <1>3, OneMore
  <2>2. (x + 1) % n = 0
    BY <2>1, SmallRemainder
  <2>3. (s + 1) % n = 0
    BY <1>3, SmallRemainder
  <2> QED
    BY <2>2, <2>3
<1> QED
  BY <1>1, <1>2, <1>3

\* Numbers less than a round apart have different places.
LEMMA RemainderDiffers ==
  ASSUME NEW n \in Nat \ {0}, NEW x \in Nat, NEW y \in Nat, x < y, y < x + n
  PROVE  x % n # y % n
<1> SUFFICES ASSUME x % n = y % n PROVE FALSE
  OBVIOUS
<1> PICK p, q, s : p = x \div n /\ q = y \div n /\ s = x % n
  OBVIOUS
<1>1. /\ p \in Nat /\ q \in Nat /\ s \in 0 .. n - 1
      /\ x = n * p + s /\ y = n * q + s
  BY Division
<1>2. n * p < n * q /\ n * q < n * (p + 1)
  BY <1>1, OneMore
<1>3. p < q /\ q < p + 1
  BY <1>1, <1>2, Cancel
<1> QED
  BY <1>1, <1>3

\* n numbers in a row have all places.
LEMMA EveryPlace ==
  ASSUME NEW n \in Nat \ {0}, NEW x \in Nat, NEW s \in 0 .. n - 1
  PROVE  \E j \in Nat : x <= j /\ j < x + n /\ j % n = s
<1> PICK q, v : q = x \div n /\ v = x % n
  OBVIOUS
<1>1. q \in Nat /\ v \in 0 .. n - 1 /\ x = n * q + v
  BY Division
<1>2. CASE v <= s
  <2> PICK j : j = n * q + s
    OBVIOUS
  <2>1. j \in Nat /\ x <= j /\ j < x + n
    BY <1>1, <1>2, OneMore
  <2>2. j % n = s
    BY <1>1, <2>1, Quotient
  <2> QED
    BY <2>1, <2>2
<1>3. CASE s < v
  <2> PICK p : p = q + 1
    OBVIOUS
  <2>1. p \in Nat /\ n * p = n * q + n
    BY <1>1, OneMore
  <2> PICK j : j = n * p + s
    OBVIOUS
  <2>2. j \in Nat /\ x <= j /\ j < x + n
    BY <1>1, <1>3, <2>1
  <2>3. j % n = s
    BY <2>1, Quotient
  <2> QED
    BY <2>2, <2>3
<1> QED
  BY <1>1, <1>2, <1>3

LEMMA PutsType ==
  ASSUME TypeOK
  PROVE  Puts \in Nat /\ n_queue \in Nat /\ put \in Nat /\ Taken \in Int
BY ConstantFacts DEF TypeOK, Puts, Taken

LEMMA QueueInit == Init => QueueInv
<1> SUFFICES ASSUME Init PROVE QueueInv
  OBVIOUS
<1>1. /\ put = 0 /\ pc[Main] = "init" /\ n_queue = 0 /\ ~ error /\ inp = 0 /\ outp = 0
  BY ConstantFacts DEF Init
<1>2. Puts = 0 /\ Taken = 0 /\ ~ Stopping
  BY <1>1 DEF Puts, Taken, Stopping
<1>3. 0 % MAX_QUEUE = 0
  BY ConstantFacts, SmallRemainder
<1> QED
  BY <1>1, <1>2, <1>3, ConstantFacts DEF QueueInv

\* A step that leaves the queue and what main has put alone.
LEMMA QueueKept ==
  ASSUME QueueInv, UNCHANGED <<ring, n_queue, error, put>>, Puts' = Puts,
         Stopping' => Stopping \/ put % hypre_NumThreads = 0
  PROVE  QueueInv'
<1>1. Taken' = Taken
  BY DEF Taken
<1> QED
  BY <1>1 DEF QueueInv, Nth, ring

\* hypre_work_put appends its item to those that wait, or reports that it cannot.
LEMMA QueuePut ==
  ASSUME TypeOK, QueueInv, NEW x, NEW label, hypre_work_put(x, label), x # NULL,
         Puts' = Puts + 1, \A k \in 1 .. Puts : Nth(k)' = Nth(k),
         \A k : k = Puts + 1 => Nth(k)' = x,
         Stopping' => put' % hypre_NumThreads = 0
  PROVE  QueueInv' /\ Taken' = Taken
<1> PICK p, n, k0, m : p = Puts /\ n = n_queue /\ k0 = Taken /\ m = MAX_QUEUE
  OBVIOUS
<1>1. /\ p \in Nat /\ n \in Nat /\ k0 \in Nat /\ k0 = p - n /\ m \in Nat \ {0}
  BY PutsType, ConstantFacts DEF QueueInv, Taken
<1>2. /\ Puts' = p + 1 /\ n_queue' = n + 1
      /\ worker_proc_queue' = [worker_proc_queue EXCEPT ![inp] = x]
      /\ inp' = (inp + 1) % m /\ outp' = outp /\ (error' <=> error \/ n = m)
      /\ worker_proc_queue \in [Slot -> Item \cup {Stop, NULL}] /\ Slot = 0 .. m - 1
      /\ inp \in Slot
  BY DEF hypre_work_put, TypeOK, Slot
<1>3. Taken' = k0
  BY <1>1, <1>2 DEF Taken
<1>4. CASE ~ error /\ n # m
  <2>1. /\ n <= m /\ inp = p % m /\ outp = k0 % m
        /\ \A k \in k0 + 1 .. p : worker_proc_queue[(k - 1) % m] = Nth(k)
    BY <1>4 DEF QueueInv
  <2>2. n + 1 <= m
    BY <1>1, <1>4, <2>1
  <2>3. inp' = (p + 1) % m
    BY <1>1, <1>2, <2>1, RemainderNext
  <2>4. ASSUME NEW k \in k0 + 1 .. p + 1
        PROVE  worker_proc_queue'[(k - 1) % m] = Nth(k)'
    <3>1. CASE k = p + 1
      <4>1. (k - 1) % m = inp
        BY <1>1, <2>1, <3>1
      <4> QED
        BY <1>2, <3>1, <4>1
    <3>2. CASE k # p + 1
      <4>1. /\ k \in k0 + 1 .. p /\ k \in 1 .. p /\ k - 1 \in Nat
            /\ k - 1 < p /\ p < (k - 1) + m
        BY <1>1, <2>2, <3>2
      <4>2. (k - 1) % m # inp
        BY <1>1, <2>1, <4>1, RemainderDiffers
      <4>3. (k - 1) % m \in Slot
        BY <1>1, <1>2, <4>1, Division
      <4>4. worker_proc_queue'[(k - 1) % m] = Nth(k)
        BY <1>2, <2>1, <4>1, <4>2, <4>3
      <4> QED
        BY <4>1, <4>4
    <3> QED
      BY <3>1, <3>2
  <2> QED
    BY <1>1, <1>2, <1>3, <1>4, <2>1, <2>2, <2>3, <2>4 DEF QueueInv
<1>5. CASE error \/ n = m
  <2>1. ASSUME NEW s \in Slot PROVE worker_proc_queue[s] # NULL
    <3>1. CASE error
      BY <3>1 DEF QueueInv
    <3>2. CASE ~ error
      <4>1. p = k0 + m
        BY <1>1, <1>5, <3>2
      <4>2. PICK j \in Nat : k0 <= j /\ j < k0 + m /\ j % m = s
        <5>1. m \in Nat \ {0} /\ k0 \in Nat /\ s \in 0 .. m - 1
          BY <1>1, <1>2
        <5> QED
          BY <5>1, EveryPlace, Zenon
      <4> PICK k : k = j + 1
        OBVIOUS
      <4>5. k \in k0 + 1 .. p /\ k \in Nat /\ k - 1 = j
        BY <1>1, <4>1, <4>2
      <4>3. worker_proc_queue[s] = Nth(k)
        BY <3>2, <4>2, <4>5 DEF QueueInv
      <4>4. Nth(k) \in Nat
        BY <4>5 DEF Nth, Stop
      <4> QED
        BY <4>3, <4>4, ConstantFacts
    <3> QED
      BY <3>1, <3>2
  <2>2. error' /\ \A s \in Slot : worker_proc_queue'[s] # NULL
    BY <1>2, <1>5, <2>1
  <2> QED
    BY <1>1, <1>3, <2>2 DEF QueueInv
<1> QED
  BY <1>3, <1>4, <1>5

LEMMA QueueWorkStep ==
  ASSUME TypeOK, QueueInv, NEW t \in Worker, Work(t)
  PROVE  /\ QueueInv' /\ Puts' = Puts /\ (Stopping' <=> Stopping) /\ UNCHANGED put
         /\ Taken' = IF Take(t) THEN Taken + 1 ELSE Taken
<1>1. UNCHANGED <<i, put>>
  BY DEF Work, Wait, Take, EndLocked, CallStop, CallItem, ReadPtr, CallAgain, ReturnItem,
     Again, Enter, Release, SpinRelease, CountDown, SpinCount, Clear, SpinClear, history
<1>2. Puts' = Puts /\ (Stopping' <=> Stopping)
  BY <1>1, OthersKept DEF Puts, Stopping
<1>3. CASE Take(t)
  <2>1. /\ n_queue # 0 /\ n_queue' = n_queue - 1 /\ outp' = (outp + 1) % MAX_QUEUE
        /\ UNCHANGED <<worker_proc_queue, inp, error>>
    BY <1>3 DEF Take
  <2>2. Taken \in Nat /\ Taken' = Taken + 1 /\ Puts \in Nat /\ n_queue \in Nat
    BY <1>2, <2>1, PutsType DEF Taken, QueueInv
  <2>3. ~ error => outp' = (Taken + 1) % MAX_QUEUE
    BY <2>1, <2>2, RemainderNext, ConstantFacts DEF QueueInv
  <2>4. Taken + 1 + 1 .. Puts \subseteq Taken + 1 .. Puts
    BY <2>2
  <2>5. n_queue' <= n_queue
    BY <2>1, <2>2
  <2>6. ~ error => n_queue' <= MAX_QUEUE
    BY <2>1, <2>2, ConstantFacts DEF QueueInv
  <2> QED
    BY <1>1, <1>2, <1>3, <2>1, <2>2, <2>3, <2>4, <2>6 DEF QueueInv, Nth
<1>4. CASE ~ Take(t)
  <2>1. UNCHANGED <<ring, n_queue, error>>
    BY <1>4 DEF Work, Wait, EndLocked, CallStop, CallItem, ReadPtr, CallAgain, ReturnItem,
       Again, Enter, Release, SpinRelease, CountDown, SpinCount, Clear, SpinClear, queue,
       ring, counters
  <2> QED
    BY <1>1, <1>2, <1>4, <2>1, QueueKept DEF Taken
<1> QED
  BY <1>3, <1>4

LEMMA QueueOtherStep ==
  ASSUME TypeOK, MainInv, QueueInv,
         \/ Library \/ PutItem \/ CallWait \/ CallDestroy
         \/ \E t \in Thread : WakeUp(t)
         \/ UNCHANGED vars
  PROVE  /\ QueueInv' /\ Taken' = Taken
         /\ PutItem \/ (UNCHANGED put /\ (Stopping => Stopping'))
<1>1. /\ hypre_NumThreads \in Nat \ {0} /\ Main \in Thread /\ NULL \notin Nat
      /\ Worker \subseteq Thread /\ Main \notin Worker
  BY ConstantFacts
<1>2. Puts \in Nat /\ put \in Nat /\ i \in Nat
  BY PutsType DEF MainInv
<1>3. ASSUME UNCHANGED <<ring, n_queue, error, put>>, Puts' = Puts, Stopping => Stopping',
             Stopping' => Stopping \/ put % hypre_NumThreads = 0
      PROVE  QueueInv' /\ Taken' = Taken /\ UNCHANGED put /\ (Stopping => Stopping')
  BY <1>3, QueueKept DEF Taken
<1>4. ASSUME NEW x, NEW label, hypre_work_put(x, label) PROVE pc'[Main] = label
  BY <1>1, <1>4 DEF hypre_work_put, Wakeable, Goto, TypeOK
<1> USE DEF queue, counters
<1>5. CASE Create
  <2>1. i \in Worker /\ pc[Main] = "init" /\ pc'[Main] \in {"init", "app"}
    BY <1>1, <1>5 DEF Create, MainInv, Worker, TypeOK
  <2> QED
    BY <1>3, <1>5, <2>1 DEF Create, Puts, Stopping, history
<1>6. CASE WaitForFinish
  <2>1. pc[Main] = "wait" /\ pc'[Main] \in {"app", "finish"}
    BY <1>1, <1>6 DEF WaitForFinish, Goto, TypeOK
  <2> QED
    BY <1>3, <1>6, <2>1 DEF WaitForFinish, Puts, Stopping
<1>7. CASE PutStop
  <2>1. /\ pc[Main] = "stop" /\ i < hypre_NumThreads /\ UNCHANGED put
        /\ pc'[Main] = (IF i + 1 < StopWorkers THEN "stop" ELSE "join")
        /\ i' = IF i + 1 < StopWorkers THEN i + 1 ELSE 0
    BY <1>4, <1>7 DEF PutStop, MainInv, history
  <2>2. Puts = put + i /\ Stopping /\ Stopping'
    BY <2>1 DEF Puts, Stopping
  <2>3. Puts' = Puts + 1
    BY <1>1, <1>2, <2>1, <2>2 DEF Puts, StopWorkers
  <2>4. /\ \A k \in 1 .. Puts : Nth(k)' = Nth(k)
        /\ \A k : k = Puts + 1 => Nth(k)' = Stop
    BY <1>2, <2>1, <2>2 DEF Nth
  <2>5. Stop # NULL /\ put' % hypre_NumThreads = 0
    BY <1>1, <2>1, <2>2 DEF Stop, QueueInv
  <2>6. \E label : hypre_work_put(Stop, label)
    BY <1>7 DEF PutStop
  <2> QED
    BY <2>1, <2>2, <2>3, <2>4, <2>5, <2>6, QueuePut
<1>8. CASE Join
  <2>1. pc[Main] = "join" /\ pc'[Main] \in {"join", "down"}
    BY <1>1, <1>8 DEF Join, Goto, TypeOK
  <2> QED
    BY <1>3, <1>8, <2>1 DEF Join, Puts, Stopping, history
<1>9. CASE PutItem
  <2>1. pc[Main] = "app" /\ pc'[Main] = "app" /\ put' = put + 1
    BY <1>4, <1>9 DEF PutItem
  <2>2. Puts = put /\ ~ Stopping' /\ Puts' = Puts + 1
    BY <1>2, <2>1 DEF Puts, Stopping
  <2>3. /\ \A k \in 1 .. Puts : Nth(k)' = Nth(k)
        /\ \A k : k = Puts + 1 => Nth(k)' = put + 1
    BY <1>2, <2>1, <2>2 DEF Nth
  <2>4. put + 1 # NULL
    BY <1>1, <1>2
  <2>5. hypre_work_put(put + 1, "app")
    BY <1>9 DEF PutItem
  <2> QED
    BY <1>9, <2>2, <2>3, <2>4, <2>5, QueuePut
<1>10. CASE CallWait
  <2>1. pc[Main] = "app" /\ pc'[Main] = "wait"
    BY <1>1, <1>10 DEF CallWait, Goto, TypeOK
  <2> QED
    BY <1>3, <1>10, <2>1 DEF CallWait, Puts, Stopping, history
<1>11. CASE CallDestroy
  <2>1. /\ pc[Main] = "app" /\ pc'[Main] = "stop" /\ i = 0 /\ UNCHANGED i
        /\ put % hypre_NumThreads = 0
    BY <1>1, <1>11 DEF CallDestroy, Goto, TypeOK, MainInv
  <2> QED
    BY <1>2, <1>3, <1>11, <2>1 DEF CallDestroy, Puts, Stopping, history
<1>12. ASSUME NEW t \in Thread, WakeUp(t)
       PROVE  QueueInv' /\ Taken' = Taken /\ UNCHANGED put /\ (Stopping => Stopping')
  <2>1. pc'[Main] = pc[Main] \/ (pc[Main] = "finish" /\ pc'[Main] = "wait")
    BY <1>1, <1>12 DEF WakeUp, Goto, TypeOK, MainInv, MainPlace
  <2> QED
    BY <1>3, <1>12, <2>1 DEF WakeUp, Puts, Stopping, history
<1>13. CASE UNCHANGED vars
  BY <1>3, <1>13 DEF vars, Puts, Stopping, history
<1> QED
  BY <1>5, <1>6, <1>7, <1>8, <1>9, <1>10, <1>11, <1>12, <1>13 DEF Library

-----------------------------------------------------------------------------
(* Types. *)

ControlType ==
  /\ pc \in [Thread -> WorkerPlace \cup MainPlace]
  /\ i \in 0 .. hypre_NumThreads
  /\ work_continue \in BOOLEAN /\ error \in BOOLEAN /\ quiet \in BOOLEAN
  /\ lock \in Worker \cup {NULL}
  /\ put \in 0 .. MaxItems

QueueType ==
  /\ worker_proc_queue \in [Slot -> Item \cup {Stop, NULL}]
  /\ inp \in Slot /\ outp \in Slot
  /\ n_queue \in Nat

WorkType ==
  /\ item \in [Worker -> Item \cup {Stop, NULL}]
  /\ after \in [Worker -> {"read", "return", "again", NULL}]
  /\ global_alloc_ptr \in Nat /\ ptr \in [Worker -> Nat]
  /\ calls \in [Worker -> 0 .. Allocs]
  /\ done \subseteq Item

CountType ==
  /\ n_working \in 0 .. hypre_NumThreads /\ n_waiting \in 0 .. hypre_NumThreads
  /\ thb_count \in 0 .. hypre_NumThreads - 1 /\ thb_release \in {0, 1}

LEMMA TypeParts == TypeOK <=> ControlType /\ QueueType /\ WorkType /\ CountType
BY DEF TypeOK, ControlType, QueueType, WorkType, CountType, WorkerPlace, MainPlace

LEMMA TypeInit == Init => TypeOK
<1> SUFFICES ASSUME Init PROVE TypeOK
  OBVIOUS
<1> USE ConstantFacts
<1>1. ControlType
  <2>1. pc \in [Thread -> WorkerPlace \cup MainPlace]
    BY DEF Init, WorkerPlace, MainPlace
  <2>2. i \in 0 .. hypre_NumThreads /\ put \in 0 .. MaxItems /\ lock = NULL
    BY DEF Init
  <2>3. work_continue \in BOOLEAN /\ error \in BOOLEAN /\ quiet \in BOOLEAN
    BY DEF Init
  <2> QED
    BY <2>1, <2>2, <2>3 DEF ControlType
<1>2. QueueType BY DEF Init, QueueType
<1>3. WorkType BY DEF Init, WorkType
<1>4. CountType BY DEF Init, CountType
<1> QED
  BY <1>1, <1>2, <1>3, <1>4, TypeParts

LEMMA CountTypeStep ==
  ASSUME TypeOK, CountInv, BarrierInv, CountInv',
         (\E t \in Worker : Work(t)) \/ Aside
  PROVE  CountType'
<1>1. ASSUME NEW S, S \subseteq Worker PROVE Cardinality(S) \in 0 .. hypre_NumThreads
  BY <1>1, ConstantFacts, OneChanges
<1>2. /\ WorkingOnes' \subseteq Worker /\ WaitingOnes' \subseteq Worker
      /\ Gathered' \subseteq Worker
  BY DEF WorkingOnes, WaitingOnes, Gathered
<1> HIDE DEF WorkingOnes, WaitingOnes, Gathered
<1>3. /\ n_working' \in 0 .. hypre_NumThreads /\ n_waiting' \in 0 .. hypre_NumThreads
      /\ thb_count' \in 0 .. hypre_NumThreads
  BY <1>1, <1>2 DEF CountInv
<1>4. hypre_NumThreads \in Nat \ {0} /\ thb_count \in 0 .. hypre_NumThreads - 1
      /\ thb_release \in {0, 1}
  BY ConstantFacts DEF TypeOK
<1>5. thb_count' < hypre_NumThreads
  <2>1. CASE \E t \in Worker : Enter(t)
    <3>1. PICK t \in Worker : Enter(t)
      BY <2>1
    <3>2. Gathered \subseteq Worker \ {t}
      BY <3>1 DEF Enter, Gathered, Gathers
    <3>3. thb_count \in 0 .. hypre_NumThreads - 1
      BY <3>2, OneMissing DEF CountInv
    <3> QED
      BY <1>4, <3>1, <3>3 DEF Enter, Last
  <2>2. CASE ~ \E t \in Worker : Enter(t)
    <3>1. thb_count' = thb_count \/ thb_count' = thb_count - 1
      BY <2>2 DEF Aside, Work, Wait, Take, EndLocked, CallStop, CallItem, ReadPtr, CallAgain,
         ReturnItem, Again, Release, SpinRelease, CountDown, SpinCount, Clear, SpinClear,
         Meet, barrier
    <3> QED
      BY <1>4, <3>1
  <2> QED
    BY <2>1, <2>2
<1>6. thb_release' \in {0, 1}
  <2>1. CASE \E t \in Worker : Release(t)
    <3>1. PICK t \in Worker : Release(t)
      BY <2>1
    <3>2. thb_release = 0
      BY <3>1 DEF Release, BarrierInv, Leads
    <3> QED
      BY <3>1, <3>2 DEF Release
  <2>2. CASE ~ \E t \in Worker : Release(t)
    <3>1. thb_release' = thb_release \/ thb_release' = 0
      BY <2>2 DEF Aside, Work, Wait, Take, EndLocked, CallStop, CallItem, ReadPtr, CallAgain,
         ReturnItem, Again, Enter, SpinRelease, CountDown, SpinCount, Clear, SpinClear,
         Meet, barrier
    <3> QED
      BY <1>4, <3>1
  <2> QED
    BY <2>1, <2>2
<1> QED
  BY <1>3, <1>4, <1>5, <1>6 DEF CountType

LEMMA ControlWorkStep ==
  ASSUME TypeOK, NEW t \in Worker, WorkerOK(t), Work(t)
  PROVE  ControlType'
<1> USE ConstantFacts
    DEF TypeOK, ControlType, WorkerPlace, MainPlace, Goto, Meet, queue, barrier, blocks,
        history, InBarrier, WorkerOK
<1>1. CASE Wait(t) BY <1>1 DEF Wait
<1>2. CASE Take(t) BY <1>2 DEF Take
<1>3. CASE EndLocked(t) BY <1>3 DEF EndLocked
<1>4. CASE CallStop(t) BY <1>4 DEF CallStop
<1>5. CASE CallItem(t) BY <1>5 DEF CallItem
<1>6. CASE ReadPtr(t) BY <1>6 DEF ReadPtr, AfterRead
<1>7. CASE CallAgain(t) BY <1>7 DEF CallAgain
<1>8. CASE ReturnItem(t) BY <1>8 DEF ReturnItem
<1>9. CASE Again(t) BY <1>9 DEF Again
<1>10. CASE Enter(t) BY <1>10 DEF Enter
<1>11. CASE Release(t) BY <1>11 DEF Release
<1>12. CASE SpinRelease(t) BY <1>12 DEF SpinRelease
<1>13. CASE CountDown(t) BY <1>13 DEF CountDown
<1>14. CASE SpinCount(t) BY <1>14 DEF SpinCount
<1>15. CASE Clear(t) BY <1>15 DEF Clear
<1>16. CASE SpinClear(t) BY <1>16 DEF SpinClear
<1> QED
  BY <1>1, <1>2, <1>3, <1>4, <1>5, <1>6, <1>7, <1>8, <1>9, <1>10, <1>11, <1>12, <1>13,
     <1>14, <1>15, <1>16 DEF Work

LEMMA WorkWorkStep ==
  ASSUME TypeOK, NEW t \in Worker, WorkerOK(t), Work(t)
  PROVE  WorkType' /\ QueueType'
<1>0. (outp + 1) % MAX_QUEUE \in Slot
  <2>1. outp + 1 \in Nat /\ MAX_QUEUE \in Nat \ {0}
    BY ConstantFacts DEF TypeOK, Slot
  <2> QED
    BY <2>1, Division DEF Slot
<1> USE <1>0, ConstantFacts
    DEF TypeOK, WorkType, QueueType, Goto, Meet, ring, counters, queue, barrier, blocks,
        history, WorkerOK
<1>1. CASE Wait(t) BY <1>1 DEF Wait
<1>2. CASE Take(t) BY <1>2 DEF Take
<1>3. CASE EndLocked(t) BY <1>3 DEF EndLocked
<1>4. CASE CallStop(t) BY <1>4 DEF CallStop
<1>5. CASE CallItem(t) BY <1>5 DEF CallItem
<1>6. CASE ReadPtr(t) BY <1>6 DEF ReadPtr
<1>7. CASE CallAgain(t) BY <1>7 DEF CallAgain
<1>8. CASE ReturnItem(t)
  <2>1. done' = done \cup {item[t]} /\ item[t] \in Item
    BY <1>8 DEF ReturnItem
  <2>2. done' \subseteq Item
    BY <2>1 DEF TypeOK
  <2>3. after' \in [Worker -> {"read", "return", "again", NULL}]
    BY <1>8 DEF ReturnItem
  <2>4. calls' \in [Worker -> 0 .. Allocs]
    BY <1>8 DEF ReturnItem
  <2>5. UNCHANGED <<worker_proc_queue, inp, outp, n_queue, item, global_alloc_ptr, ptr>>
    BY <1>8 DEF ReturnItem
  <2> QED
    BY <2>2, <2>3, <2>4, <2>5
<1>9. CASE Again(t) BY <1>9 DEF Again
<1>10. CASE Enter(t) BY <1>10 DEF Enter
<1>11. CASE Release(t) BY <1>11 DEF Release
<1>12. CASE SpinRelease(t) BY <1>12 DEF SpinRelease
<1>13. CASE CountDown(t) BY <1>13 DEF CountDown
<1>14. CASE SpinCount(t) BY <1>14 DEF SpinCount
<1>15. CASE Clear(t) BY <1>15 DEF Clear
<1>16. CASE SpinClear(t) BY <1>16 DEF SpinClear
<1> QED
  BY <1>1, <1>2, <1>3, <1>4, <1>5, <1>6, <1>7, <1>8, <1>9, <1>10, <1>11, <1>12, <1>13,
     <1>14, <1>15, <1>16 DEF Work

LEMMA TypeOtherStep ==
  ASSUME TypeOK, MainInv, MainInv',
         \/ Library \/ PutItem \/ CallWait \/ CallDestroy
         \/ \E t \in Thread : WakeUp(t)
         \/ UNCHANGED vars
  PROVE  ControlType' /\ QueueType' /\ WorkType'
<1>0. (inp + 1) % MAX_QUEUE \in Slot
  <2>1. inp + 1 \in Nat /\ MAX_QUEUE \in Nat \ {0}
    BY ConstantFacts DEF TypeOK, Slot
  <2> QED
    BY <2>1, Division DEF Slot
<1>1. Aside
  BY AsideSteps
<1>2. WorkType'
  <2>1. global_alloc_ptr' = global_alloc_ptr
    BY <1>1 DEF Aside, blocks
  <2> QED
    BY <1>1, <2>1 DEF Aside, TypeOK, WorkType, barrier, blocks
<1>3. ASSUME NEW x \in Item \cup {Stop}, NEW label \in MainPlace, hypre_work_put(x, label)
      PROVE  QueueType' /\ error' \in BOOLEAN /\ pc' \in [Thread -> WorkerPlace \cup MainPlace]
  <2>1. QueueType'
    BY <1>0, <1>3 DEF hypre_work_put, TypeOK, QueueType
  <2>2. error' \in BOOLEAN
    BY <1>3 DEF hypre_work_put, TypeOK
  <2>3. pc \in [Thread -> WorkerPlace \cup MainPlace] /\ "woken" \in WorkerPlace
    BY DEF TypeOK, WorkerPlace, MainPlace
  <2>4. pc' \in [Thread -> WorkerPlace \cup MainPlace]
    BY <1>3, <2>3 DEF hypre_work_put, Goto
  <2> QED
    BY <2>1, <2>2, <2>4
<1>4. i' \in 0 .. hypre_NumThreads
  BY ConstantFacts DEF MainInv
<1>5. CASE PutItem
  <2>1. put + 1 \in Item /\ put + 1 \in 0 .. MaxItems /\ "app" \in MainPlace
    BY <1>5, ConstantFacts DEF PutItem, TypeOK, Item, MainPlace
  <2>2. hypre_work_put(put + 1, "app")
    BY <1>5 DEF PutItem
  <2>3. QueueType' /\ error' \in BOOLEAN /\ pc' \in [Thread -> WorkerPlace \cup MainPlace]
    BY <1>3, <2>1, <2>2
  <2> QED
    BY <1>2, <1>4, <1>5, <2>1, <2>3 DEF PutItem, TypeOK, ControlType
<1>6. CASE PutStop
  <2>1. \E label \in MainPlace : hypre_work_put(Stop, label)
    BY <1>6 DEF PutStop, MainPlace
  <2>2. QueueType' /\ error' \in BOOLEAN /\ pc' \in [Thread -> WorkerPlace \cup MainPlace]
    BY <1>3, <2>1
  <2> QED
    BY <1>2, <1>4, <1>6, <2>2 DEF PutStop, TypeOK, ControlType, history
<1>7. CASE ~ PutItem /\ ~ PutStop
  <2> USE DEF TypeOK, WorkerPlace, MainPlace, Goto
  <2>1. UNCHANGED <<worker_proc_queue, inp, outp, n_queue, error, lock, work_continue, put>>
    BY <1>7 DEF Library, Create, WaitForFinish, Join, CallWait, CallDestroy, WakeUp, vars,
       queue, ring, counters, history
  <2>2. quiet' \in BOOLEAN
    <3>1. quiet' = quiet \/ quiet' = (put > 0)
      BY <1>7 DEF Library, Create, WaitForFinish, Join, CallWait, CallDestroy, WakeUp, vars, history
    <3>2. quiet \in BOOLEAN /\ (put > 0) \in BOOLEAN
      OBVIOUS
    <3> QED
      BY <3>1, <3>2, Zenon
  <2>3. pc' \in [Thread -> WorkerPlace \cup MainPlace]
    BY <1>7 DEF Library, Create, WaitForFinish, Join, CallWait, CallDestroy, WakeUp, vars
  <2>4. QueueType'
    BY <2>1 DEF QueueType
  <2> QED
    BY <1>2, <1>4, <2>1, <2>2, <2>3, <2>4 DEF ControlType
<1> QED
  BY <1>5, <1>6, <1>7

-----------------------------------------------------------------------------
LEMMA StateInit == Init => StateInv
BY TypeInit, CountInit, BarrierInit, MainInit, QueueInit, WorkerInit DEF StateInv

LEMMA StateStep == StateInv /\ [Next]_vars => StateInv'
<1> SUFFICES ASSUME StateInv, [Next]_vars PROVE StateInv'
  OBVIOUS
<1>0. TypeOK /\ CountInv /\ BarrierInv /\ MainInv /\ QueueInv /\ \A t \in Worker : WorkerOK(t)
  BY DEF StateInv
<1>1. ASSUME NEW t \in Worker, Work(t) PROVE StateInv'
  <2>1. /\ CountInv' /\ BarrierInv' /\ MainInv' /\ QueueInv'
        /\ \A u \in Worker : WorkerOK(u)'
    BY <1>0, <1>1, CountWorkStep, BarrierWorkStep, MainWorkStep, QueueWorkStep, WorkerWorkStep
  <2>2. CountType'
    BY <1>0, <1>1, <2>1, CountTypeStep
  <2>3. ControlType' /\ WorkType' /\ QueueType'
    BY <1>0, <1>1, ControlWorkStep, WorkWorkStep
  <2>4. TypeOK'
    BY <2>2, <2>3, TypeParts, PTL
  <2> QED
    BY <2>1, <2>4 DEF StateInv
<1>2. ASSUME \/ Library \/ PutItem \/ CallWait \/ CallDestroy
             \/ \E t \in Thread : WakeUp(t)
             \/ UNCHANGED vars
      PROVE  StateInv'
  <2>1. Aside
    BY <1>0, <1>2, AsideSteps
  <2>2. /\ CountInv' /\ BarrierInv' /\ MainInv' /\ QueueInv'
        /\ \A u \in Worker : WorkerOK(u)'
    BY <1>0, <1>2, <2>1, CountAsideStep, BarrierAsideStep, MainOtherStep, QueueOtherStep,
       WorkerAsideStep
  <2>3. CountType'
    BY <1>0, <2>1, <2>2, CountTypeStep
  <2>4. ControlType' /\ WorkType' /\ QueueType'
    BY <1>0, <1>2, <2>2, TypeOtherStep
  <2>5. TypeOK'
    BY <2>3, <2>4, TypeParts, PTL
  <2> QED
    BY <2>2, <2>5 DEF StateInv
<1> QED
  BY <1>1, <1>2 DEF Next

\* Every variable keeps its type; in particular the counters of the queue and of the barrier
\* stay between zero and the number of workers, whatever overflows (threading.c:129-271).
THEOREM TypeCorrect == Spec => []TypeOK
<1>1. StateInv => TypeOK
  BY DEF StateInv
<1> QED
  BY StateInit, StateStep, <1>1, PTL DEF Spec

-----------------------------------------------------------------------------
(* The rounds go on. *)

\* What a worker that is busy has passed.
LEMMA PassedType ==
  ASSUME TypeOK, NEW t \in Worker, WorkerOK(t), Busy(t)
  PROVE  /\ Passed(t) \in Nat
         /\ calls[t] \in 0 .. Allocs /\ Allocs \in Nat \ {0}
         /\ item[t] \in Item \cup {Stop}
<1>1. calls[t] \in 0 .. Allocs /\ Allocs \in Nat \ {0}
  BY ConstantFacts DEF TypeOK
<1>2. item[t] \in Item \cup {Stop}
  BY DEF WorkerOK, Busy, InBarrier
<1>3. Passed(t) \in Nat
  BY <1>1 DEF WorkerOK, Busy, InBarrier, Passed
<1> QED
  BY <1>1, <1>2, <1>3

\* A worker that is not busy, or has just taken its item, keeps the others from passing.
LEMMA NobodyPassed ==
  ASSUME TypeOK, InStep, NEW t \in Worker, ~ Busy(t), NEW u \in Worker, WorkerOK(u), Busy(u)
  PROVE  Passed(u) = 0
<1>1. Passed(u) \in Nat
  BY PassedType
<1>2. ~ (Passed(u) > 0)
  BY DEF InStep
<1> QED
  BY <1>1, <1>2

\* The steps of one worker leave the others where they are in the round, unless it opens
\* the barrier.
LEMMA OthersInRound ==
  ASSUME TypeOK, BarrierInv, NEW t \in Worker, Work(t), ~ Clear(t), NEW u \in Worker \ {t}
  PROVE  /\ Busy(u)' <=> Busy(u)
         /\ Passed(u)' = Passed(u) /\ Asked(u)' = Asked(u)
         /\ AtEnd(u)' <=> AtEnd(u)
         /\ Copied(u)' <=> Copied(u)
         /\ item'[u] = item[u] /\ ptr'[u] = ptr[u] /\ calls'[u] = calls[u]
<1>1. /\ pc'[u] = pc[u] /\ after'[u] = after[u] /\ item'[u] = item[u]
      /\ ptr'[u] = ptr[u] /\ calls'[u] = calls[u]
  BY OthersKept DEF Others
<1>2. Through(u)' <=> Through(u)
  <2>1. CASE Release(t)
    <3>1. pc[u] = "spin_release"
      BY <2>1 DEF Release, BarrierInv, Leads
    <3> QED
      BY <1>1, <3>1 DEF Through
  <2>2. CASE ~ Release(t)
    <3>1. thb_release' = thb_release
      BY <2>2 DEF Work, Wait, Take, EndLocked, CallStop, CallItem, ReadPtr, CallAgain,
         ReturnItem, Again, Enter, SpinRelease, CountDown, SpinCount, SpinClear, Meet, barrier
    <3> QED
      BY <1>1, <3>1 DEF Through
  <2> QED
    BY <2>1, <2>2
<1>3. InBarrier(u)' <=> InBarrier(u)
  BY <1>1 DEF InBarrier
<1>4. Busy(u)' <=> Busy(u)
  BY <1>1, <1>2, <1>3 DEF Busy
<1>5. Passed(u)' = Passed(u)
  BY <1>1, <1>2 DEF Passed
<1>6. Asked(u)' = Asked(u)
  BY <1>1, <1>3, <1>4 DEF Asked
<1>7. (AtEnd(u)' <=> AtEnd(u)) /\ (Copied(u)' <=> Copied(u))
  BY <1>1, <1>3, <1>4 DEF AtEnd, Copied
<1> QED
  BY <1>1, <1>4, <1>5, <1>6, <1>7

\* A worker that only moves on: it waits, ends, goes through a barrier or to its next call.
MovesOn(t) ==
  \/ Wait(t) \/ EndLocked(t) \/ CallAgain(t) \/ Again(t) \/ Enter(t) \/ Release(t)
  \/ SpinRelease(t) \/ CountDown(t) \/ SpinCount(t) \/ SpinClear(t)

LEMMA MovesOnInRound ==
  ASSUME TypeOK, BarrierInv, NEW t \in Worker, WorkerOK(t), MovesOn(t)
  PROVE  /\ Busy(t)' <=> Busy(t)
         /\ Busy(t) => Passed(t)' = Passed(t)
         /\ Asked(t)' = Asked(t)
         /\ AtEnd(t)' <=> AtEnd(t)
         /\ Copied(t)' => Copied(t)
<1>1. t \in Thread /\ t # Main /\ DOMAIN pc = Thread
  BY ConstantFacts DEF TypeOK
<1>2. UNCHANGED <<after, calls, item>>
  BY DEF MovesOn, Wait, EndLocked, CallAgain, Again, Enter, Release, SpinRelease, CountDown,
     SpinCount, SpinClear, barrier, blocks
<1>3. calls[t] \in Nat
  BY ConstantFacts DEF TypeOK
<1>4. CASE Wait(t) \/ EndLocked(t) \/ Again(t)
  <2>1. /\ pc[t] \in {"start", "woken", "lock", "again"}
        /\ pc'[t] \in {"waiting", "exited", "lock"}
    BY <1>1, <1>4 DEF Wait, EndLocked, Again, Enters, Goto
  <2> QED
    BY <2>1 DEF Busy, InBarrier, Through, Asked, AtEnd, Copied
<1>5. CASE CallAgain(t)
  <2>1. pc[t] = "return" /\ pc'[t] = "call"
    BY <1>1, <1>5 DEF CallAgain, Goto
  <2> QED
    BY <1>2, <2>1 DEF Busy, InBarrier, Through, Passed, Asked, AtEnd, Copied
<1>6. CASE Enter(t) \/ Release(t) \/ SpinRelease(t) \/ CountDown(t) \/ SpinCount(t)
  <2>1. InBarrier(t) /\ InBarrier(t)' /\ ~ Through(t)
    BY <1>1, <1>6 DEF Enter, Release, SpinRelease, CountDown, SpinCount, InBarrier, Through, Goto
  <2>2. ~ Through(t)'
    <3>1. CASE CountDown(t)
      <4>1. PICK u \in Worker : Leads(u)
        BY <3>1 DEF CountDown, BarrierInv
      <4>2. t # u /\ pc[u] # "release" /\ thb_release = 1
        BY <3>1, <4>1 DEF CountDown, BarrierInv, Leads
      <4> QED
        BY <3>1, <4>2 DEF CountDown, Through
    <3>2. CASE ~ CountDown(t)
      <4>1. pc'[t] # "spin_clear"
        BY <1>1, <1>6, <3>2 DEF Enter, Release, SpinRelease, SpinCount, Goto
      <4> QED
        BY <4>1 DEF Through
    <3> QED
      BY <3>1, <3>2
  <2>3. /\ pc[t] \notin {"call", "read", "return"} /\ pc'[t] \notin {"call", "read", "return"}
    BY <2>1 DEF InBarrier
  <2> QED
    BY <1>2, <2>1, <2>2, <2>3 DEF Busy, Passed, Asked, AtEnd, Copied
<1>7. CASE SpinClear(t)
  <2>1. /\ pc[t] = "spin_clear" /\ InBarrier(t) /\ Through(t) /\ pc'[t] = after[t]
        /\ after[t] \in {"read", "return", "again"}
    BY <1>1, <1>7 DEF SpinClear, Cleared, InBarrier, Through, Goto, WorkerOK
  <2>2. ~ InBarrier(t)'
    BY <2>1 DEF InBarrier
  <2> QED
    BY <1>2, <1>3, <2>1, <2>2 DEF Busy, Passed, Asked, AtEnd, Copied
<1> QED
  BY <1>4, <1>5, <1>6, <1>7 DEF MovesOn

\* A step that leaves alone who is busy, and with what.
LEMMA RoundKept ==
  ASSUME NEW base \in Nat, NEW first \in Nat, RoundFrom(base, first),
         UNCHANGED <<item, put>>, Taken' = Taken, Stopping => Stopping',
         \A u \in Worker : Busy(u)' <=> Busy(u),
         ~ Stopping \/ base < put =>
           /\ global_alloc_ptr' = first + Asked(0)'
           /\ \A u \in Worker : Copied(u)' => ptr'[u] = first + calls'[u],
         ~ Stopping => done' = 1 .. base \cup {item[u] : u \in {v \in Worker : AtEnd(v)'}}
  PROVE  RoundFrom(base, first)'
<1>1. BusyOnes' = BusyOnes
  BY DEF BusyOnes
<1>2. Taken' = base + Cardinality(BusyOnes')
  BY <1>1 DEF RoundFrom
<1>3. \A u \in Worker : Busy(u)' =>
        /\ base < put' => item'[u] \in base + 1 .. Taken' /\ item'[u] <= put'
        /\ base >= put' => item'[u] = Stop
  BY DEF RoundFrom
<1>4. \A u, v \in Worker :
        Busy(u)' /\ Busy(v)' /\ item'[u] = item'[v] /\ item'[u] # Stop => u = v
  BY DEF RoundFrom
<1>5. ~ Stopping' \/ base < put' =>
        /\ global_alloc_ptr' = first + Asked(0)'
        /\ \A u \in Worker : Copied(u)' => ptr'[u] = first + calls'[u]
  OBVIOUS
<1>6. ~ Stopping' => done' = 1 .. base \cup {item'[u] : u \in {v \in Worker : AtEnd(v)'}}
  OBVIOUS
<1> QED
  BY <1>2, <1>3, <1>4, <1>5, <1>6, Zenon DEF RoundFrom

\* Busy workers stay in step if none passes a barrier.
LEMMA StillInStep ==
  ASSUME InStep, \A u \in Worker : Busy(u)' <=> Busy(u),
         \A u \in Worker : Busy(u) => Passed(u)' = Passed(u)
  PROVE  InStep'
BY DEF InStep

LEMMA MovesOnStep ==
  ASSUME StateInv, NEW t \in Worker, MovesOn(t), InStep,
         NEW base \in Nat, NEW first \in Nat, RoundFrom(base, first)
  PROVE  InStep' /\ RoundFrom(base, first)'
<1>0. TypeOK /\ BarrierInv /\ QueueInv /\ WorkerOK(t) /\ Work(t) /\ ~ Clear(t) /\ ~ Take(t)
  <2>1. t \in Thread /\ t # Main /\ DOMAIN pc = Thread
    BY ConstantFacts DEF StateInv, TypeOK
  <2>2. ~ Clear(t) /\ ~ Take(t)
    BY <2>1 DEF MovesOn, Wait, EndLocked, CallAgain, Again, Enter, Release, SpinRelease, CountDown,
       SpinCount, SpinClear, Clear, Take, Enters
  <2> QED
    BY <2>2 DEF StateInv, MovesOn, Work
<1>1. ASSUME NEW u \in Worker
      PROVE  /\ Busy(u)' <=> Busy(u)
             /\ Busy(u) => Passed(u)' = Passed(u)
             /\ Asked(u)' = Asked(u)
             /\ AtEnd(u)' <=> AtEnd(u)
             /\ Copied(u)' => Copied(u)
  BY <1>0, OthersInRound, MovesOnInRound
<1>2. UNCHANGED <<item, put, done, global_alloc_ptr, ptr, calls>>
  BY DEF MovesOn, Wait, EndLocked, CallAgain, Again, Enter, Release, SpinRelease, CountDown,
     SpinCount, SpinClear, blocks, history
<1>3. Taken' = Taken /\ (Stopping' <=> Stopping)
  BY <1>0, QueueWorkStep
<1>4. ~ Stopping \/ base < put =>
        /\ global_alloc_ptr' = first + Asked(0)'
        /\ \A u \in Worker : Copied(u)' => ptr'[u] = first + calls'[u]
  BY <1>1, <1>2, ConstantFacts DEF RoundFrom
<1>5. ~ Stopping => done' = 1 .. base \cup {item[u] : u \in {v \in Worker : AtEnd(v)'}}
  <2>1. {v \in Worker : AtEnd(v)'} = {v \in Worker : AtEnd(v)}
    BY <1>1
  <2> QED
    BY <1>2, <2>1 DEF RoundFrom
<1> QED
  BY <1>1, <1>2, <1>3, <1>4, <1>5, RoundKept, StillInStep

\* When the busy have Stop, main is stopping, and what the blocks are no longer matters.
LEMMA StopIsStopping ==
  ASSUME StateInv, NEW t \in Worker, Busy(t), item[t] = Stop,
         NEW base \in Nat, NEW first \in Nat, RoundFrom(base, first)
  PROVE  Stopping /\ base >= put
<1>1. put \in Nat /\ Puts \in Nat /\ n_queue \in Nat /\ Taken \in Int
  BY PutsType DEF StateInv
<1>2. base >= put
  BY <1>1 DEF RoundFrom, Stop
<1>3. Cardinality(BusyOnes) >= 1
  <2>1. BusyOnes \subseteq Worker /\ t \in BusyOnes /\ IsFiniteSet(BusyOnes)
    BY ConstantFacts, FS_Subset DEF BusyOnes
  <2>2. Cardinality(BusyOnes) \in Nat /\ Cardinality(BusyOnes) # 0
    BY <2>1, FS_CardinalityType, FS_EmptySet
  <2> QED
    BY <2>2
<1>4. Taken <= Puts
  BY <1>1 DEF Taken
<1>5. Cardinality(BusyOnes) \in Nat
  BY ConstantFacts, FS_Subset, FS_CardinalityType DEF BusyOnes
<1>6. Puts > put
  BY <1>1, <1>2, <1>3, <1>4, <1>5 DEF RoundFrom
<1> QED
  BY <1>1, <1>2, <1>6 DEF Puts, Stopping

\* A worker in its item, up to where it enters a barrier.
RunsOn(t) == CallStop(t) \/ CallItem(t) \/ ReadPtr(t) \/ ReturnItem(t)

LEMMA MeetsInRound ==
  ASSUME TypeOK, BarrierInv, NEW t \in Worker, WorkerOK(t), RunsOn(t)
  PROVE  /\ Busy(t) /\ Busy(t)' /\ ~ Through(t)' /\ InBarrier(t)' /\ ~ InBarrier(t)
         /\ Passed(t)' = Passed(t)
<1>1. t \in Thread /\ t # Main /\ DOMAIN pc = Thread
  BY ConstantFacts DEF TypeOK
<1>2. pc[t] \in {"call", "read", "return"} /\ pc'[t] = "enter"
  BY <1>1 DEF RunsOn, CallStop, CallItem, ReadPtr, ReturnItem, Meet, Goto, AfterRead
<1>3. Busy(t) /\ Busy(t)' /\ ~ Through(t)' /\ InBarrier(t)' /\ ~ InBarrier(t)
  BY <1>2 DEF Busy, InBarrier, Through
<1>4. calls[t] \in 0 .. Allocs /\ Allocs \in Nat \ {0} /\ Stop \notin Item
  BY ConstantFacts DEF TypeOK
<1>5. Passed(t)' = Passed(t)
  <2>1. CASE CallStop(t)
    <3>1. calls[t] = 0 /\ item'[t] = Stop /\ after'[t] = "again" /\ pc[t] = "call"
      BY <2>1 DEF CallStop, WorkerOK, Meet, TypeOK
    <3> QED
      BY <1>2, <3>1 DEF Passed
  <2>2. CASE CallItem(t)
    <3>1. calls'[t] = calls[t] + 1 /\ after'[t] = "read" /\ pc[t] = "call"
      BY <2>2 DEF CallItem, Meet, TypeOK
    <3> QED
      BY <1>2, <1>3, <1>4, <3>1 DEF Passed
  <2>3. CASE ReadPtr(t)
    <3>1. calls'[t] = calls[t] /\ after'[t] = "return" /\ pc[t] = "read"
      BY <2>3 DEF ReadPtr, TypeOK
    <3> QED
      BY <1>2, <1>3, <1>4, <3>1 DEF Passed
  <2>4. CASE ReturnItem(t)
    <3>1. /\ calls[t] = Allocs /\ item'[t] = item[t] /\ item[t] # Stop /\ after'[t] = "again"
          /\ pc[t] = "return"
      BY <1>4, <2>4 DEF ReturnItem, WorkerOK, Meet, TypeOK
    <3> QED
      BY <1>2, <1>3, <1>4, <3>1 DEF Passed
  <2> QED
    BY <2>1, <2>2, <2>3, <2>4 DEF RunsOn
<1> QED
  BY <1>3, <1>5

\* When a worker reads the pointer, worker 0 has allocated for this call, and not for
\* the next.
LEMMA AskedAlike ==
  ASSUME TypeOK, InStep, NEW t \in Worker, WorkerOK(t), WorkerOK(0), pc[t] = "read"
  PROVE  Asked(0) = calls[t]
<1>1. /\ calls[t] \in 1 .. Allocs /\ calls[0] \in 0 .. Allocs /\ Allocs \in Nat \ {0}
      /\ 0 \in Worker
  BY ConstantFacts DEF TypeOK, WorkerOK
<1>2. Busy(t) /\ Passed(t) = 2 * calls[t] - 1 /\ Passed(t) > 0
  BY <1>1 DEF Busy, Passed
<1>3. Busy(0) /\ Passed(0) = 2 * calls[t] - 1
  BY <1>1, <1>2 DEF InStep
<1>4. CASE pc[0] \in {"call", "read", "return"}
  <2>1. ~ InBarrier(0)
    BY <1>4 DEF InBarrier
  <2>2. calls[0] = calls[t]
    BY <1>1, <1>3, <1>4 DEF Passed
  <2> QED
    BY <1>3, <2>1, <2>2 DEF Asked
<1>5. CASE pc[0] \notin {"call", "read", "return"}
  <2>1. InBarrier(0) /\ after[0] \in {"read", "return", "again"}
    BY <1>3, <1>5 DEF Busy, WorkerOK
  <2>2. after[0] # "again"
    BY <1>1, <1>3, <1>5 DEF Passed
  <2>3. calls[0] = calls[t]
    BY <1>1, <1>3, <1>5, <2>1, <2>2 DEF Passed
  <2> QED
    BY <1>3, <2>2, <2>3 DEF Asked
<1> QED
  BY <1>4, <1>5

LEMMA MeetsStep ==
  ASSUME StateInv, NEW t \in Worker, RunsOn(t), InStep,
         NEW base \in Nat, NEW first \in Nat, RoundFrom(base, first)
  PROVE  InStep' /\ RoundFrom(base, first)'
<1>0. /\ TypeOK /\ BarrierInv /\ QueueInv /\ Work(t) /\ ~ Clear(t) /\ ~ Take(t)
      /\ \A u \in Worker : WorkerOK(u)
  <2>1. t \in Thread /\ t # Main /\ DOMAIN pc = Thread
    BY ConstantFacts DEF StateInv, TypeOK
  <2>2. ~ Clear(t) /\ ~ Take(t)
    BY <2>1 DEF RunsOn, CallStop, CallItem, ReadPtr, ReturnItem, Clear, Take, Enters
  <2> QED
    BY <2>2 DEF StateInv, RunsOn, Work
<1>1. ASSUME NEW u \in Worker \ {t}
      PROVE  /\ Busy(u)' <=> Busy(u)
             /\ Passed(u)' = Passed(u) /\ Asked(u)' = Asked(u)
             /\ AtEnd(u)' <=> AtEnd(u)
             /\ Copied(u)' <=> Copied(u)
             /\ ptr'[u] = ptr[u] /\ calls'[u] = calls[u]
  BY <1>0, OthersInRound
<1>2. /\ Busy(t) /\ Busy(t)' /\ ~ Through(t)' /\ InBarrier(t)' /\ ~ InBarrier(t)
      /\ Passed(t)' = Passed(t)
  BY <1>0, MeetsInRound
<1>3. InStep' /\ \A u \in Worker : Busy(u)' <=> Busy(u)
  BY <1>1, <1>2, StillInStep
<1>4. UNCHANGED <<item, put>> /\ Taken' = Taken /\ (Stopping' <=> Stopping)
  BY <1>0, QueueWorkStep DEF RunsOn, CallStop, CallItem, ReadPtr, ReturnItem
<1>5. /\ 0 \in Worker /\ calls[t] \in Nat /\ global_alloc_ptr \in Nat /\ Asked(t) = calls[t]
      /\ ptr \in [Worker -> Nat] /\ calls \in [Worker -> 0 .. Allocs] /\ Allocs \in Nat
  BY <1>0, <1>2, ConstantFacts DEF TypeOK, Asked
<1>6. /\ pc'[t] = "enter" /\ after' = [after EXCEPT ![t] = after'[t]]
      /\ after \in [Worker -> {"read", "return", "again", NULL}]
  BY <1>0 DEF RunsOn, CallStop, CallItem, ReadPtr, ReturnItem, Meet, Goto, AfterRead, TypeOK, Thread
<1>7. ASSUME ~ Stopping \/ base < put
      PROVE  /\ global_alloc_ptr' = first + Asked(0)'
             /\ \A u \in Worker : Copied(u)' => ptr'[u] = first + calls'[u]
  <2>1. /\ global_alloc_ptr = first + Asked(0) /\ Asked(0) \in Nat
        /\ \A u \in Worker : Copied(u) => ptr[u] = first + calls[u]
    BY <1>5, <1>7 DEF RoundFrom, Asked
  <2>2. CASE CallStop(t)
    <3>1. Stopping /\ base >= put
      BY <1>2, <2>2, StopIsStopping DEF CallStop
    <3>2. put \in Nat
      BY <1>0, PutsType
    <3> QED
      BY <1>7, <3>1, <3>2
  <2>3. CASE CallItem(t)
    <3>1. /\ global_alloc_ptr' = global_alloc_ptr + (IF t = 0 THEN 1 ELSE 0)
          /\ calls'[t] = calls[t] + 1 /\ after'[t] = "read" /\ UNCHANGED ptr
      BY <1>5, <1>6, <2>3 DEF CallItem, Meet
    <3>2. Asked(t)' = Asked(t) + 1
      BY <1>2, <1>5, <3>1 DEF Asked
    <3>3. ~ Copied(t)'
      BY <1>6, <3>1 DEF Copied
    <3>4. global_alloc_ptr' = first + Asked(0)'
      BY <1>1, <1>5, <2>1, <3>1, <3>2
    <3> QED
      BY <1>1, <2>1, <3>1, <3>3, <3>4
  <2>4. CASE ReadPtr(t)
    <3>1. /\ ptr'[t] = global_alloc_ptr /\ UNCHANGED <<global_alloc_ptr, calls>>
          /\ after'[t] = "return" /\ pc[t] = "read"
      BY <1>5, <1>6, <2>4 DEF ReadPtr
    <3>2. Asked(0) = calls[t]
      BY <1>0, <1>5, <3>1, AskedAlike
    <3>3. Asked(t)' = Asked(t)
      BY <1>2, <1>5, <3>1 DEF Asked
    <3>4. global_alloc_ptr' = first + Asked(0)'
      BY <1>1, <1>5, <2>1, <3>1, <3>3
    <3> QED
      BY <1>1, <2>1, <3>1, <3>2, <3>4
  <2>5. CASE ReturnItem(t)
    <3>1. /\ UNCHANGED <<global_alloc_ptr, ptr>> /\ calls[t] = Allocs /\ after'[t] = "again"
      BY <1>6, <2>5 DEF ReturnItem, Meet
    <3>2. Asked(t)' = Asked(t)
      BY <1>2, <1>5, <3>1 DEF Asked
    <3>3. ~ Copied(t)'
      BY <1>6, <3>1 DEF Copied
    <3>4. global_alloc_ptr' = first + Asked(0)'
      BY <1>1, <1>5, <2>1, <3>1, <3>2
    <3> QED
      BY <1>1, <2>1, <3>1, <3>3, <3>4
  <2> QED
    BY <2>2, <2>3, <2>4, <2>5 DEF RunsOn
<1>8. ASSUME ~ Stopping
      PROVE  done' = 1 .. base \cup {item[u] : u \in {v \in Worker : AtEnd(v)'}}
  <2>1. ~ AtEnd(t)
    BY <1>2 DEF AtEnd
  <2>2. CASE ReturnItem(t)
    <3>1. after'[t] = "again" /\ done' = done \cup {item[t]}
      BY <1>6, <2>2 DEF ReturnItem, Meet
    <3>2. AtEnd(t)'
      BY <1>2, <3>1 DEF AtEnd
    <3>3. {v \in Worker : AtEnd(v)'} = {v \in Worker : AtEnd(v)} \cup {t}
      BY <1>1, <3>2
    <3> QED
      BY <1>8, <3>1, <3>3 DEF RoundFrom
  <2>3. CASE CallItem(t) \/ ReadPtr(t)
    <3>1. after'[t] \in {"read", "return"} /\ done' = done
      BY <1>6, <2>3 DEF CallItem, ReadPtr, Meet, history
    <3>2. {v \in Worker : AtEnd(v)'} = {v \in Worker : AtEnd(v)}
      BY <1>1, <2>1, <3>1 DEF AtEnd
    <3> QED
      BY <1>8, <3>1, <3>2 DEF RoundFrom
  <2>4. CASE CallStop(t)
    BY <1>2, <1>8, <2>4, StopIsStopping DEF CallStop
  <2> QED
    BY <2>2, <2>3, <2>4 DEF RunsOn
<1> QED
  BY <1>3, <1>4, <1>7, <1>8, RoundKept

\* What is left to take is in whole rounds once main stops.
LEMMA WholeRound ==
  ASSUME NEW n \in Nat \ {0}, NEW r \in Nat, NEW x \in Nat, x % n = 0, r * n < x
  PROVE  r * n + n <= x
<1> PICK q : q = x \div n
  OBVIOUS
<1>1. q \in Nat /\ x = n * q + (x % n)
  BY Division
<1>2. x = n * q
  BY <1>1
<1>3. r * n = n * r
  OBVIOUS
<1>4. r < q
  BY <1>1, <1>2, <1>3, Cancel
<1> PICK p : p = r + 1
  OBVIOUS
<1>5. n * p = n * r + n /\ p \in Nat /\ p <= q
  BY <1>1, <1>4, OneMore
<1>6. n * p <= n * q
  BY <1>1, <1>5
<1> QED
  BY <1>2, <1>3, <1>5, <1>6

\* The worker that takes an item gets the first that nobody took.
LEMMA TakesNext ==
  ASSUME StateInv, ~ error, NEW t \in Worker, Take(t)
  PROVE  /\ Taken \in Nat /\ Taken' = Taken + 1 /\ Taken + 1 <= Puts
         /\ UNCHANGED put /\ put \in Nat /\ (Stopping' <=> Stopping)
         /\ item'[t] = (IF Taken + 1 <= put THEN Taken + 1 ELSE Stop)
         /\ ~ Busy(t) /\ Busy(t)' /\ Passed(t)' = 0 /\ ~ Copied(t)' /\ ~ AtEnd(t)'
         /\ Asked(t)' = 0 /\ Asked(t) = 0 /\ ~ AtEnd(t)
<1>0. TypeOK /\ QueueInv /\ Work(t) /\ WorkerOK(t)
  BY DEF StateInv, Work
<1>1. /\ Taken' = Taken + 1 /\ UNCHANGED put /\ (Stopping' <=> Stopping)
  BY <1>0, QueueWorkStep
<1> PICK k0, p : k0 = Taken /\ p = Puts
  OBVIOUS
<1>2. k0 \in Nat /\ p \in Nat /\ put \in Nat /\ n_queue \in Nat /\ k0 = p - n_queue
  BY <1>0, PutsType DEF QueueInv, Taken
<1>3. n_queue # 0 /\ item'[t] = worker_proc_queue[outp] /\ outp = k0 % MAX_QUEUE
  BY <1>0 DEF Take, TypeOK, QueueInv
<1> PICK k : k = k0 + 1
  OBVIOUS
<1>4. k \in k0 + 1 .. p /\ k - 1 = k0
  BY <1>2, <1>3
<1>5. item'[t] = Nth(k)
  BY <1>0, <1>3, <1>4 DEF QueueInv
<1>6. pc[t] \in {"start", "woken", "lock"} /\ pc'[t] = "call"
  <2>1. t \in Thread /\ t # Main /\ DOMAIN pc = Thread
    BY <1>0, ConstantFacts DEF TypeOK
  <2> QED
    BY <2>1 DEF Take, Enters, Goto
<1>7. calls[t] = 0 /\ calls'[t] = calls[t]
  BY <1>0, <1>6 DEF WorkerOK, InBarrier, Take, blocks
<1>8. /\ ~ Busy(t) /\ Busy(t)' /\ ~ Copied(t)' /\ ~ AtEnd(t)' /\ ~ AtEnd(t)
      /\ ~ InBarrier(t)'
  BY <1>6 DEF Busy, InBarrier, Copied, AtEnd
<1>9. Asked(t)' = 0 /\ Asked(t) = 0
  BY <1>7, <1>8 DEF Asked
<1>10. Passed(t)' = 0
  BY <1>6, <1>7 DEF Passed
<1>11. item'[t] = (IF Taken + 1 <= put THEN Taken + 1 ELSE Stop) /\ Taken + 1 <= Puts
  <2>1. item'[t] = (IF k <= put THEN k ELSE Stop)
    BY <1>5 DEF Nth
  <2>2. k <= p
    BY <1>2, <1>4
  <2>3. k = Taken + 1
    OBVIOUS
  <2> QED
    BY <2>1, <2>2, <2>3, Zenon
<1>12. Taken \in Nat /\ put \in Nat
  BY <1>2
<1> QED
  BY <1>1, <1>8, <1>9, <1>10, <1>11, <1>12

LEMMA TakeStep ==
  ASSUME StateInv, ~ error, NEW t \in Worker, Take(t), InStep, NEW r \in Nat, RoundAt(r)
  PROVE  InStep' /\ RoundAt(r)'
<1> PICK n, base, first : n = hypre_NumThreads /\ base = r * n /\ first = r * Allocs
  OBVIOUS
<1>1. n \in Nat \ {0} /\ base \in Nat /\ first \in Nat /\ RoundFrom(base, first)
  BY ConstantFacts DEF RoundAt
<1>2. /\ TypeOK /\ BarrierInv /\ QueueInv /\ Work(t) /\ ~ Clear(t)
      /\ \A u \in Worker : WorkerOK(u)
  <2>1. ~ Clear(t)
    BY DEF Take, Enters, Clear
  <2> QED
    BY <2>1 DEF StateInv, Work
<1> PICK k0 : k0 = Taken
  OBVIOUS
<1>3. /\ k0 \in Nat /\ Taken' = k0 + 1 /\ k0 + 1 <= Puts
      /\ UNCHANGED put /\ put \in Nat /\ (Stopping' <=> Stopping)
      /\ item'[t] = (IF k0 + 1 <= put THEN k0 + 1 ELSE Stop)
      /\ ~ Busy(t) /\ Busy(t)' /\ Passed(t)' = 0 /\ ~ Copied(t)' /\ ~ AtEnd(t)'
      /\ Asked(t)' = 0 /\ Asked(t) = 0 /\ ~ AtEnd(t)
  BY TakesNext
<1>4. ASSUME NEW u \in Worker \ {t}
      PROVE  /\ Busy(u)' <=> Busy(u)
             /\ Passed(u)' = Passed(u) /\ Asked(u)' = Asked(u)
             /\ AtEnd(u)' <=> AtEnd(u)
             /\ Copied(u)' <=> Copied(u)
             /\ item'[u] = item[u] /\ ptr'[u] = ptr[u] /\ calls'[u] = calls[u]
  BY <1>2, OthersInRound
<1>5. ASSUME NEW u \in Worker, Busy(u)' PROVE Passed(u)' = 0
  <2>1. CASE u = t
    BY <1>3, <2>1
  <2>2. CASE u # t
    BY <1>2, <1>3, <1>4, <1>5, <2>2, NobodyPassed
  <2> QED
    BY <2>1, <2>2
<1>6. InStep'
  BY <1>5 DEF InStep
<1>7. /\ k0 = base + Cardinality(BusyOnes) /\ Cardinality(BusyOnes) \in 0 .. n - 1
      /\ Cardinality(BusyOnes') = Cardinality(BusyOnes) + 1
  <2>1. BusyOnes \subseteq Worker \ {t} /\ BusyOnes \subseteq Worker /\ BusyOnes' \subseteq Worker
    BY <1>3 DEF BusyOnes
  <2>2. /\ t \in BusyOnes' /\ t \notin BusyOnes
        /\ \A u \in Worker \ {t} : u \in BusyOnes' <=> u \in BusyOnes
    BY <1>3, <1>4 DEF BusyOnes
  <2>3. Cardinality(BusyOnes) \in 0 .. n - 1
    BY <2>1, OneMissing
  <2>4. Cardinality(BusyOnes') = Cardinality(BusyOnes) + 1
    BY <2>1, <2>2, OneChanges
  <2> QED
    BY <1>1, <2>3, <2>4 DEF RoundFrom
<1>8. base < put => k0 + 1 <= put
  <2>1. SUFFICES ASSUME base < put, ~ (k0 + 1 <= put) PROVE FALSE
    OBVIOUS
  <2>2. Puts # put
    BY <1>3, <2>1
  <2>3. Stopping
    BY <1>1, <1>3, <2>2 DEF Puts, Stopping
  <2>4. base + n <= put
    BY <1>1, <1>2, <1>3, <2>1, <2>3, WholeRound DEF QueueInv
  <2> QED
    BY <1>1, <1>3, <1>7, <2>1, <2>4
<1>9. base < put => item'[t] = k0 + 1 /\ k0 + 1 \in base + 1 .. k0 + 1 /\ k0 + 1 <= put
  BY <1>1, <1>3, <1>7, <1>8
<1>10. base >= put => item'[t] = Stop
  BY <1>1, <1>3, <1>7
<1>11. \A u \in Worker : Busy(u)' =>
         /\ base < put' => item'[u] \in base + 1 .. Taken' /\ item'[u] <= put'
         /\ base >= put' => item'[u] = Stop
  <2>1. ASSUME NEW u \in Worker, Busy(u)', u # t
        PROVE  /\ base < put' => item'[u] \in base + 1 .. Taken' /\ item'[u] <= put'
               /\ base >= put' => item'[u] = Stop
    <3>1. /\ base < put => item[u] \in base + 1 .. k0 /\ item[u] <= put
          /\ base >= put => item[u] = Stop
      BY <1>1, <1>4, <2>1 DEF RoundFrom
    <3> QED
      BY <1>1, <1>3, <1>4, <2>1, <3>1
  <2> QED
    BY <1>3, <1>9, <1>10, <2>1
<1>12. \A u, v \in Worker :
         Busy(u)' /\ Busy(v)' /\ item'[u] = item'[v] /\ item'[u] # Stop => u = v
  <2>1. ASSUME NEW u \in Worker, u # t, Busy(u)', item'[u] # Stop
        PROVE  item'[u] # item'[t]
    <3>1. base < put /\ item[u] \in base + 1 .. k0
      BY <1>1, <1>3, <1>4, <2>1 DEF RoundFrom
    <3> QED
      BY <1>1, <1>3, <1>4, <1>9, <2>1, <3>1
  <2>2. ASSUME NEW u \in Worker, NEW v \in Worker, u # t, v # t, Busy(u)', Busy(v)',
               item'[u] = item'[v], item'[u] # Stop
        PROVE  u = v
    BY <1>1, <1>4, <2>2 DEF RoundFrom
  <2> QED
    BY <2>1, <2>2
<1>13. ASSUME ~ Stopping' \/ base < put'
       PROVE  /\ global_alloc_ptr' = first + Asked(0)'
              /\ \A u \in Worker : Copied(u)' => ptr'[u] = first + calls'[u]
  <2>1. Asked(0)' = Asked(0)
    BY <1>3, <1>4, ConstantFacts
  <2>2. global_alloc_ptr' = global_alloc_ptr
    BY DEF Take, blocks
  <2> QED
    BY <1>1, <1>3, <1>4, <1>13, <2>1, <2>2 DEF RoundFrom
<1>14. ASSUME ~ Stopping'
       PROVE  done' = 1 .. base \cup {item'[u] : u \in {v \in Worker : AtEnd(v)'}}
  <2>1. {v \in Worker : AtEnd(v)'} = {v \in Worker : AtEnd(v)} /\ t \notin {v \in Worker : AtEnd(v)}
    BY <1>3, <1>4
  <2>2. {item'[u] : u \in {v \in Worker : AtEnd(v)'}} = {item[u] : u \in {v \in Worker : AtEnd(v)}}
    BY <1>4, <2>1
  <2>3. done' = done
    BY DEF Take, history
  <2> QED
    BY <1>1, <1>3, <1>14, <2>2, <2>3 DEF RoundFrom
<1>15. Taken' = base + Cardinality(BusyOnes')
  BY <1>1, <1>3, <1>7
<1>16. RoundFrom(base, first)'
  BY <1>11, <1>12, <1>13, <1>14, <1>15, Zenon DEF RoundFrom
<1> QED
  BY <1>6, <1>16 DEF RoundAt

\* When the barrier is about to open, everybody has taken an item and is in it.
LEMMA AllMeet ==
  ASSUME StateInv, NEW t \in Worker, Clear(t), InStep
  PROVE  /\ \A u \in Worker : InBarrier(u) /\ ~ Through(u) /\ Busy(u) /\ Passed(u) = Passed(t)
         /\ BusyOnes = Worker
         /\ thb_release' = 0 /\ pc' = [pc EXCEPT ![t] = after[t]]
         /\ \A u \in Worker \ {t} : pc[u] = "spin_clear"
<1>1. /\ thb_release = 1 /\ pc[t] = "clear"
      /\ \A u \in Worker \ {t} : pc[u] = "spin_clear"
  BY DEF StateInv, BarrierInv, Leads, Clear
<1>2. \A u \in Worker : InBarrier(u) /\ ~ Through(u) /\ Busy(u)
  BY <1>1 DEF InBarrier, Through, Busy
<1> QED
  BY <1>1, <1>2 DEF InStep, BusyOnes, Clear, Goto

\* The workers of one round are at the same place: they all end their items, or all have
\* passed one barrier more.
LEMMA MeetAlike ==
  ASSUME StateInv, NEW t \in Worker, Clear(t), InStep,
         NEW base \in Nat, NEW first \in Nat, RoundFrom(base, first),
         NEW u \in Worker, after[u] = "again"
  PROVE  after[t] = "again"
<1>1. SUFFICES ASSUME after[t] # "again" PROVE FALSE
  OBVIOUS
<1>2. /\ InBarrier(t) /\ ~ Through(t) /\ Busy(t) /\ InBarrier(u) /\ ~ Through(u) /\ Busy(u)
      /\ Passed(u) = Passed(t)
  BY AllMeet
<1>3. /\ after[t] \in {"read", "return"} /\ item[t] \in Item /\ calls[t] \in 1 .. Allocs
  BY <1>1, <1>2 DEF StateInv, WorkerOK
<1>4. Allocs \in Nat \ {0} /\ put \in Nat /\ Stop \notin Item
  BY ConstantFacts, PutsType DEF StateInv
<1>5. pc[t] \notin {"call", "read", "return"} /\ pc[u] \notin {"call", "read", "return"}
  BY <1>2 DEF InBarrier
<1>6. Passed(t) = 2 * calls[t] - 2 \/ Passed(t) = 2 * calls[t] - 1
  BY <1>1, <1>2, <1>3, <1>5 DEF Passed
<1>7. item[u] # Stop
  <2>1. base < put
    BY <1>2, <1>3, <1>4 DEF RoundFrom
  <2> QED
    BY <1>2, <2>1 DEF RoundFrom, Stop
<1>8. Passed(u) = 2 * Allocs
  BY <1>2, <1>5, <1>7 DEF Passed
<1> QED
  BY <1>2, <1>3, <1>4, <1>6, <1>8

LEMMA ClearInItem ==
  ASSUME StateInv, NEW t \in Worker, Clear(t), InStep, after[t] # "again",
         NEW base \in Nat, NEW first \in Nat, RoundFrom(base, first)
  PROVE  InStep' /\ RoundFrom(base, first)'
<1>0. TypeOK /\ QueueInv /\ Work(t) /\ ~ Take(t) /\ \A u \in Worker : WorkerOK(u)
  BY DEF StateInv, Work, Clear, Take, Enters
<1>1. \A u \in Worker : after[u] # "again"
  BY MeetAlike
<1>2. /\ \A u \in Worker : InBarrier(u) /\ ~ Through(u) /\ Busy(u) /\ Passed(u) = Passed(t)
      /\ thb_release' = 0 /\ pc' = [pc EXCEPT ![t] = after[t]]
      /\ \A u \in Worker \ {t} : pc[u] = "spin_clear"
  BY AllMeet
<1>3. UNCHANGED <<item, after, calls, ptr, global_alloc_ptr, put, done>>
  BY DEF Clear, blocks, history
<1>4. ASSUME NEW u \in Worker
      PROVE  /\ Busy(u)' /\ Passed(u)' = Passed(u) + 1
             /\ Asked(u)' = Asked(u) /\ (Copied(u)' <=> Copied(u)) /\ ~ AtEnd(u)' /\ ~ AtEnd(u)
  <2>1. /\ after[u] \in {"read", "return"} /\ calls[u] \in Nat
    BY <1>0, <1>1, <1>2, ConstantFacts DEF WorkerOK, TypeOK
  <2>2. pc[u] \notin {"call", "read", "return"} /\ InBarrier(u) /\ ~ Through(u) /\ Busy(u)
    BY <1>2 DEF InBarrier
  <2>3. CASE u = t
    <3>1. pc'[u] = after[u]
      BY <1>0, <1>2, <2>3, ConstantFacts DEF TypeOK
    <3>2. ~ InBarrier(u)' /\ Busy(u)'
      BY <2>1, <3>1 DEF InBarrier, Busy
    <3>3. Passed(u)' = Passed(u) + 1
      BY <1>3, <2>1, <2>2, <3>1 DEF Passed
    <3>4. Asked(u)' = Asked(u)
      BY <1>3, <2>1, <2>2, <3>2 DEF Asked
    <3>5. (Copied(u)' <=> Copied(u)) /\ ~ AtEnd(u)' /\ ~ AtEnd(u)
      BY <1>3, <2>1, <2>2, <3>1, <3>2 DEF Copied, AtEnd
    <3> QED
      BY <3>2, <3>3, <3>4, <3>5
  <2>4. CASE u # t
    <3>1. pc'[u] = "spin_clear"
      BY <1>0, <1>2, <2>4, ConstantFacts DEF TypeOK
    <3>2. InBarrier(u)' /\ Through(u)'
      BY <1>2, <3>1 DEF InBarrier, Through
    <3>3. Busy(u)'
      BY <1>3, <2>1, <3>2 DEF Busy
    <3>4. Passed(u)' = Passed(u) + 1
      BY <1>3, <2>1, <2>2, <3>1, <3>2 DEF Passed
    <3>5. Asked(u)' = Asked(u)
      BY <1>3, <2>1, <2>2, <3>3 DEF Asked
    <3>6. (Copied(u)' <=> Copied(u)) /\ ~ AtEnd(u)' /\ ~ AtEnd(u)
      BY <1>3, <2>1, <2>2, <3>1, <3>2 DEF Copied, AtEnd
    <3> QED
      BY <3>3, <3>4, <3>5, <3>6
  <2> QED
    BY <2>3, <2>4
<1>5. InStep'
  BY <1>2, <1>4 DEF InStep
<1>6. Taken' = Taken /\ (Stopping' <=> Stopping)
  BY <1>0, QueueWorkStep
<1>7. ~ Stopping \/ base < put =>
        /\ global_alloc_ptr' = first + Asked(0)'
        /\ \A u \in Worker : Copied(u)' => ptr'[u] = first + calls'[u]
  BY <1>3, <1>4, ConstantFacts DEF RoundFrom
<1>8. ~ Stopping => done' = 1 .. base \cup {item[u] : u \in {v \in Worker : AtEnd(v)'}}
  <2>1. {v \in Worker : AtEnd(v)'} = {v \in Worker : AtEnd(v)}
    BY <1>4
  <2> QED
    BY <1>3, <2>1 DEF RoundFrom
<1>9. RoundFrom(base, first)'
  BY <1>2, <1>3, <1>4, <1>6, <1>7, <1>8, RoundKept
<1> QED
  BY <1>5, <1>9

\* As many different items as there are workers are a whole round of them.
LEMMA WholeRoundDone ==
  ASSUME NEW f, NEW base \in Nat,
         \A u \in Worker : f[u] \in base + 1 .. base + hypre_NumThreads,
         \A u, v \in Worker : f[u] = f[v] => u = v
  PROVE  {f[u] : u \in Worker} = base + 1 .. base + hypre_NumThreads
<1> DEFINE T == base + 1 .. base + hypre_NumThreads
           g == [u \in Worker |-> f[u]]
<1>1. /\ hypre_NumThreads \in Nat \ {0}
      /\ IsFiniteSet(Worker) /\ Cardinality(Worker) = hypre_NumThreads
  BY ConstantFacts
<1>2. IsFiniteSet(T) /\ Cardinality(T) = hypre_NumThreads
  <2> PICK a, b : a = base + 1 /\ b = base + hypre_NumThreads
    OBVIOUS
  <2>1. a \in Int /\ b \in Int /\ a <= b /\ b - a + 1 = hypre_NumThreads
    BY <1>1
  <2>2. IsFiniteSet(a .. b) /\ Cardinality(a .. b) = hypre_NumThreads
    BY <2>1, FS_Interval
  <2> QED
    BY <2>2
<1>3. g \in [Worker -> T] /\ \A u, v \in Worker : g[u] = g[v] => u = v
  OBVIOUS
<1>4. g \in Surjection(Worker, T)
  <2>1. g \in Injection(Worker, T)
    BY <1>3 DEF Injection, IsInjective
  <2> QED
    BY <1>1, <1>2, <2>1, FS_Injection
<1>5. \A y \in T : \E u \in Worker : g[u] = y
  BY <1>4 DEF Surjection
<1> QED
  BY <1>3, <1>5

LEMMA ClearAfterItem ==
  ASSUME StateInv, NEW t \in Worker, Clear(t), InStep, after[t] = "again",
         NEW base \in Nat, NEW first \in Nat, RoundFrom(base, first)
  PROVE  InStep' /\ RoundFrom(base + hypre_NumThreads, first + Allocs)'
<1>0. TypeOK /\ QueueInv /\ Work(t) /\ ~ Take(t)
  BY DEF StateInv, Work, Clear, Take, Enters
<1>1. /\ \A u \in Worker : InBarrier(u) /\ ~ Through(u) /\ Busy(u) /\ Passed(u) = Passed(t)
      /\ BusyOnes = Worker
      /\ thb_release' = 0 /\ pc' = [pc EXCEPT ![t] = after[t]]
      /\ \A u \in Worker \ {t} : pc[u] = "spin_clear"
  BY AllMeet
<1>2. UNCHANGED <<item, after, calls, ptr, global_alloc_ptr, put, done>>
  BY DEF Clear, blocks, history
<1>3. /\ hypre_NumThreads \in Nat \ {0} /\ Cardinality(Worker) = hypre_NumThreads
      /\ Allocs \in Nat \ {0} /\ 0 \in Worker /\ put \in Nat /\ n_queue \in Nat
      /\ global_alloc_ptr \in Nat
  BY <1>0, ConstantFacts DEF TypeOK
<1>4. \A u \in Worker : after[u] = "again"
  <2>1. SUFFICES ASSUME NEW u \in Worker, after[u] # "again" PROVE FALSE
    OBVIOUS
  <2>2. /\ after[u] \in {"read", "return"} /\ item[u] \in Item /\ calls[u] \in 1 .. Allocs
    BY <1>1, <2>1 DEF StateInv, WorkerOK
  <2>3. pc[t] \notin {"call", "read", "return"} /\ pc[u] \notin {"call", "read", "return"}
    BY <1>1 DEF InBarrier
  <2>4. Passed(u) = 2 * calls[u] - 2 \/ Passed(u) = 2 * calls[u] - 1
    BY <1>1, <2>2, <2>3 DEF Passed
  <2>5. item[t] # Stop
    <3>1. base < put
      BY <1>1, <1>3, <2>2, ConstantFacts DEF RoundFrom
    <3> QED
      BY <1>1, <3>1 DEF RoundFrom, Stop
  <2>6. Passed(t) = 2 * Allocs
    BY <1>1, <2>3, <2>5 DEF Passed
  <2> QED
    BY <1>1, <1>3, <2>2, <2>4, <2>6
<1>5. ASSUME NEW u \in Worker
      PROVE  /\ ~ Busy(u)' /\ ~ Copied(u)' /\ ~ AtEnd(u)' /\ AtEnd(u)
             /\ Asked(u)' = 0 /\ Asked(u) = Allocs
  <2>1. after[u] = "again" /\ after'[u] = "again" /\ InBarrier(u) /\ Busy(u)
    BY <1>1, <1>2, <1>4
  <2>2. CASE u = t
    <3>1. pc'[u] = "again"
      BY <1>0, <1>1, <1>4, <2>2, ConstantFacts DEF TypeOK
    <3> QED
      BY <2>1, <3>1 DEF Busy, InBarrier, Copied, AtEnd, Asked
  <2>3. CASE u # t
    <3>1. pc'[u] = "spin_clear"
      BY <1>0, <1>1, <2>3, ConstantFacts DEF TypeOK
    <3>2. Through(u)'
      BY <1>1, <3>1 DEF Through
    <3>3. ~ Busy(u)'
      BY <2>1, <3>1, <3>2 DEF Busy
    <3> QED
      BY <2>1, <3>1, <3>3 DEF Copied, AtEnd, Asked
  <2> QED
    BY <2>2, <2>3
<1>6. InStep' /\ BusyOnes' = {}
  BY <1>5 DEF InStep, BusyOnes
<1>7. Taken' = Taken /\ (Stopping' <=> Stopping)
  BY <1>0, QueueWorkStep
<1> PICK n, next : n = hypre_NumThreads /\ next = base + n
  OBVIOUS
<1>8. Taken = next /\ next \in Nat /\ base < next
  BY <1>1, <1>3 DEF RoundFrom
<1>9. Taken' = next + Cardinality(BusyOnes')
  BY <1>6, <1>7, <1>8, FS_EmptySet
<1>10. ASSUME ~ Stopping' \/ next < put'
       PROVE  /\ global_alloc_ptr' = first + Allocs + Asked(0)'
              /\ \A u \in Worker : Copied(u)' => ptr'[u] = first + Allocs + calls'[u]
  <2>1. ~ Stopping \/ base < put
    BY <1>2, <1>3, <1>7, <1>8, <1>10
  <2>2. global_alloc_ptr = first + Allocs
    BY <1>3, <1>5, <2>1 DEF RoundFrom
  <2> QED
    BY <1>2, <1>3, <1>5, <2>2
<1>11. ASSUME ~ Stopping'
       PROVE  done' = 1 .. next \cup {item'[u] : u \in {v \in Worker : AtEnd(v)'}}
  <2>1. {v \in Worker : AtEnd(v)'} = {} /\ {v \in Worker : AtEnd(v)} = Worker
    BY <1>5
  <2>2. done = 1 .. base \cup {item[u] : u \in Worker}
    BY <1>7, <1>11, <2>1 DEF RoundFrom
  <2>3. Puts = put
    BY <1>7, <1>11, <1>3 DEF Puts, Stopping
  <2>4. base < put
    BY <1>3, <1>8, <2>3 DEF Taken
  <2>5. \A u \in Worker : item[u] \in base + 1 .. base + n /\ item[u] # Stop
    BY <1>1, <1>8, <2>4 DEF RoundFrom, Stop
  <2>6. \A u, v \in Worker : item[u] = item[v] => u = v
    BY <1>1, <2>5 DEF RoundFrom
  <2>7. {item[u] : u \in Worker} = base + 1 .. base + n
    BY <2>5, <2>6, WholeRoundDone
  <2>8. 1 .. base \cup (base + 1 .. base + n) = 1 .. next
    BY <1>3
  <2> QED
    BY <1>2, <2>1, <2>2, <2>7, <2>8
<1> PICK shared : shared = first + Allocs
  OBVIOUS
<1>12. RoundFrom(next, shared)'
  BY <1>5, <1>9, <1>10, <1>11, Zenon DEF RoundFrom
<1> QED
  BY <1>6, <1>12

LEMMA ClearStep ==
  ASSUME StateInv, NEW t \in Worker, Clear(t), InStep, NEW r \in Nat, RoundAt(r)
  PROVE  InStep' /\ \E q \in Nat : RoundAt(q)'
<1> PICK base, first : base = r * hypre_NumThreads /\ first = r * Allocs
  OBVIOUS
<1>1. base \in Nat /\ first \in Nat /\ RoundFrom(base, first)
  BY ConstantFacts DEF RoundAt
<1>2. CASE after[t] # "again"
  <2>1. InStep' /\ RoundFrom(base, first)'
    BY <1>1, <1>2, ClearInItem
  <2> QED
    BY <2>1 DEF RoundAt
<1>3. CASE after[t] = "again"
  <2>1. InStep' /\ RoundFrom(base + hypre_NumThreads, first + Allocs)'
    BY <1>1, <1>3, ClearAfterItem
  <2> PICK q : q = r + 1
    OBVIOUS
  <2>2. /\ q \in Nat /\ base + hypre_NumThreads = q * hypre_NumThreads
        /\ first + Allocs = q * Allocs
    BY ConstantFacts
  <2>3. RoundFrom(q * hypre_NumThreads, q * Allocs)'
    BY <2>1, <2>2, Zenon
  <2> QED
    BY <2>1, <2>2, <2>3 DEF RoundAt
<1> QED
  BY <1>2, <1>3

LEMMA RoundInit == Init => RoundInv
<1> SUFFICES ASSUME Init PROVE RoundInv
  OBVIOUS
<1>1. /\ \A t \in Worker : pc[t] = "none"
      /\ put = 0 /\ pc[Main] = "init" /\ n_queue = 0 /\ global_alloc_ptr = 0 /\ done = {}
  BY ConstantFacts DEF Init
<1>2. \A t \in Worker : ~ Busy(t) /\ ~ AtEnd(t) /\ ~ Copied(t)
  BY <1>1 DEF Busy, AtEnd, Copied, InBarrier
<1>3. InStep /\ BusyOnes = {}
  BY <1>2 DEF InStep, BusyOnes
<1>4. Taken = 0 + Cardinality(BusyOnes)
  BY <1>1, <1>3, FS_EmptySet DEF Taken, Puts
<1>5. global_alloc_ptr = 0 + Asked(0)
  BY <1>1, <1>2, ConstantFacts DEF Asked
<1>6. done = 1 .. 0 \cup {item[t] : t \in {u \in Worker : AtEnd(u)}}
  BY <1>1, <1>2
<1>7. RoundFrom(0, 0)
  BY <1>2, <1>4, <1>5, <1>6, Zenon DEF RoundFrom
<1>8. 0 \in Nat /\ 0 * hypre_NumThreads = 0 /\ 0 * Allocs = 0
  BY ConstantFacts
<1>9. RoundFrom(0 * hypre_NumThreads, 0 * Allocs)
  BY <1>7, <1>8, Zenon
<1> QED
  BY <1>3, <1>8, <1>9, Zenon DEF RoundInv, RoundAt

LEMMA RoundWorkStep ==
  ASSUME StateInv, RoundInv, NEW t \in Worker, Work(t)
  PROVE  RoundInv'
<1>1. UNCHANGED error
  BY DEF Work, Wait, Take, EndLocked, CallStop, CallItem, ReadPtr, CallAgain, ReturnItem, Again,
     Enter, Release, SpinRelease, CountDown, SpinCount, Clear, SpinClear, queue
<1> SUFFICES ASSUME ~ error PROVE InStep' /\ \E r \in Nat : RoundAt(r)'
  BY <1>1 DEF RoundInv
<1>2. InStep
  BY DEF RoundInv
<1>3. PICK r \in Nat : RoundAt(r)
  BY DEF RoundInv
<1> PICK base, first : base = r * hypre_NumThreads /\ first = r * Allocs
  OBVIOUS
<1>4. base \in Nat /\ first \in Nat /\ RoundFrom(base, first)
  BY <1>3, ConstantFacts DEF RoundAt
<1>5. CASE Take(t)
  BY <1>2, <1>3, <1>5, TakeStep
<1>6. CASE Clear(t)
  BY <1>2, <1>3, <1>6, ClearStep
<1>7. CASE MovesOn(t)
  <2>1. InStep' /\ RoundFrom(base, first)'
    BY <1>2, <1>4, <1>7, MovesOnStep
  <2> QED
    BY <2>1 DEF RoundAt
<1>8. CASE RunsOn(t)
  <2>1. InStep' /\ RoundFrom(base, first)'
    BY <1>2, <1>4, <1>8, MeetsStep
  <2> QED
    BY <2>1 DEF RoundAt
<1> QED
  BY <1>5, <1>6, <1>7, <1>8 DEF Work, MovesOn, RunsOn

\* The others put items after those that are taken, and leave the busy alone.
LEMMA RoundOtherStep ==
  ASSUME StateInv, RoundInv,
         \/ Library \/ PutItem \/ CallWait \/ CallDestroy
         \/ \E t \in Thread : WakeUp(t)
         \/ UNCHANGED vars
  PROVE  RoundInv'
<1>1. /\ Aside /\ Taken' = Taken
      /\ PutItem \/ (UNCHANGED put /\ (Stopping => Stopping'))
  BY AsideSteps, QueueOtherStep DEF StateInv
<1>2. error => error'
  BY DEF Library, Create, WaitForFinish, PutStop, Join, PutItem, CallWait, CallDestroy, WakeUp,
     hypre_work_put, vars, queue
<1> SUFFICES ASSUME ~ error PROVE InStep' /\ \E r \in Nat : RoundAt(r)'
  BY <1>2 DEF RoundInv
<1>3. UNCHANGED <<item, after, thb_release, calls, ptr, global_alloc_ptr, done>>
  BY <1>1 DEF Aside, barrier, blocks
<1>4. ASSUME NEW u \in Worker
      PROVE  /\ Busy(u)' <=> Busy(u)
             /\ Busy(u) => Passed(u)' = Passed(u)
             /\ Asked(u)' = Asked(u)
             /\ AtEnd(u)' <=> AtEnd(u)
             /\ Copied(u)' <=> Copied(u)
  <2>1. CASE pc'[u] = pc[u]
    BY <1>3, <2>1 DEF Busy, Passed, Asked, AtEnd, Copied, Through, InBarrier
  <2>2. CASE pc[u] \in {"none", "waiting"} /\ pc'[u] \in {"start", "woken"}
    BY <1>3, <2>2 DEF Busy, Asked, AtEnd, Copied, InBarrier
  <2> QED
    BY <1>1, <2>1, <2>2 DEF Aside
<1>5. InStep'
  BY <1>4, StillInStep DEF RoundInv
<1>6. PICK r \in Nat : RoundAt(r)
  BY DEF RoundInv
<1> PICK base, first : base = r * hypre_NumThreads /\ first = r * Allocs
  OBVIOUS
<1>7. base \in Nat /\ first \in Nat /\ RoundFrom(base, first)
  BY <1>6, ConstantFacts DEF RoundAt
<1>8. ~ Stopping \/ base < put =>
        /\ global_alloc_ptr' = first + Asked(0)'
        /\ \A u \in Worker : Copied(u)' => ptr'[u] = first + calls'[u]
  BY <1>3, <1>4, <1>7, ConstantFacts DEF RoundFrom
<1>9. ~ Stopping => done' = 1 .. base \cup {item[u] : u \in {v \in Worker : AtEnd(v)'}}
  <2>1. {v \in Worker : AtEnd(v)'} = {v \in Worker : AtEnd(v)}
    BY <1>4
  <2> QED
    BY <1>3, <1>7, <2>1 DEF RoundFrom
<1>10. RoundFrom(base, first)'
  <2>1. CASE UNCHANGED put /\ (Stopping => Stopping')
    BY <1>1, <1>3, <1>4, <1>7, <1>8, <1>9, <2>1, RoundKept
  <2>2. CASE PutItem
    <3>1. ~ Stopping /\ put' = put + 1 /\ put \in Nat
      BY <2>2, PutsType DEF PutItem, Stopping, StateInv
    <3>2. BusyOnes' = BusyOnes
      BY <1>4 DEF BusyOnes
    <3>3. Taken' = base + Cardinality(BusyOnes')
      BY <1>1, <1>7, <3>2 DEF RoundFrom
    <3>4. ASSUME NEW u \in Worker, Busy(u)'
          PROVE  /\ base < put' => item'[u] \in base + 1 .. Taken' /\ item'[u] <= put'
                 /\ base >= put' => item'[u] = Stop
      <4>1. Busy(u)
        BY <1>4, <3>4
      <4>2. base < put
        BY <1>7, <3>1, <4>1, StopIsStopping DEF RoundFrom
      <4>3. item[u] \in base + 1 .. Taken /\ item[u] <= put /\ Taken \in Int
        BY <1>7, <4>1, <4>2, PutsType DEF RoundFrom, StateInv
      <4> QED
        BY <1>1, <1>3, <1>7, <3>1, <4>2, <4>3
    <3>5. \A u, v \in Worker :
            Busy(u)' /\ Busy(v)' /\ item'[u] = item'[v] /\ item'[u] # Stop => u = v
      BY <1>3, <1>4, <1>7 DEF RoundFrom
    <3>6. /\ global_alloc_ptr' = first + Asked(0)'
          /\ \A u \in Worker : Copied(u)' => ptr'[u] = first + calls'[u]
      BY <1>8, <3>1
    <3>7. done' = 1 .. base \cup {item'[u] : u \in {v \in Worker : AtEnd(v)'}}
      BY <1>3, <1>9, <3>1
    <3> QED
      BY <3>3, <3>4, <3>5, <3>6, <3>7, Zenon DEF RoundFrom
  <2> QED
    BY <1>1, <2>1, <2>2
<1> QED
  BY <1>5, <1>10 DEF RoundAt

LEMMA RoundStep == StateInv /\ RoundInv /\ [Next]_vars => RoundInv'
BY RoundWorkStep, RoundOtherStep DEF Next

\* In a round, items are those of that round, one for each worker.
LEMMA RoundOfItem ==
  ASSUME NEW r \in Nat, NEW x \in Int, NEW n, n = hypre_NumThreads,
         x \in r * n + 1 .. r * n + n
  PROVE  Round(x) = r
<1> PICK s : s = x - 1 - r * n
  OBVIOUS
<1>1. n \in Nat \ {0} /\ r * n \in Nat
  BY ConstantFacts
<1>2. s \in 0 .. n - 1 /\ x - 1 = n * r + s
  <2>1. r * n = n * r
    BY <1>1
  <2> QED
    BY <1>1, <2>1
<1>3. (n * r + s) \div n = r
  BY <1>1, <1>2, Quotient
<1> QED
  BY <1>2, <1>3 DEF Round

LEMMA RoundsAgree == StateInv /\ RoundInv => InRounds
<1> SUFFICES ASSUME StateInv, RoundInv, ~ error, NEW t \in Worker, NEW u \in Worker,
                    HasItem(t), HasItem(u)
             PROVE  /\ item[t] = Stop <=> item[u] = Stop
                    /\ item[t] # Stop => Round(item[t]) = Round(item[u])
                    /\ t # u /\ item[t] # Stop => item[t] # item[u]
                    /\ pc[t] = "return" => ptr[t] = Round(item[t]) * Allocs + calls[t]
  BY DEF InRounds
<1>1. PICK r \in Nat : RoundAt(r)
  BY DEF RoundInv
<1> PICK n, base, first : n = hypre_NumThreads /\ base = r * n /\ first = r * Allocs
  OBVIOUS
<1>2. /\ n \in Nat \ {0} /\ base \in Nat /\ first \in Nat /\ RoundFrom(base, first)
      /\ put \in Nat /\ Stop \notin Item
  BY <1>1, ConstantFacts, PutsType DEF RoundAt, StateInv
<1>3. Busy(t) /\ Busy(u)
  BY DEF HasItem, Busy
<1>4. Cardinality(BusyOnes) \in 0 .. n
  BY OneChanges DEF BusyOnes
<1>5. ASSUME NEW v \in Worker, Busy(v), base < put
      PROVE  /\ item[v] # Stop /\ Round(item[v]) = r
  <2>1. item[v] \in base + 1 .. Taken /\ Taken = base + Cardinality(BusyOnes)
    BY <1>2, <1>5 DEF RoundFrom
  <2>2. item[v] \in Int /\ item[v] \in base + 1 .. base + n
    BY <1>2, <1>4, <2>1
  <2>3. Round(item[v]) = r
    BY <2>2, RoundOfItem
  <2> QED
    BY <1>2, <2>2, <2>3 DEF Stop
<1>6. ASSUME NEW v \in Worker, Busy(v), ~ (base < put)
      PROVE  item[v] = Stop
  BY <1>2, <1>6 DEF RoundFrom
<1>7. t # u /\ item[t] # Stop => item[t] # item[u]
  BY <1>2, <1>3 DEF RoundFrom
<1>8. ASSUME pc[t] = "return"
      PROVE  ptr[t] = Round(item[t]) * Allocs + calls[t]
  <2>1. Copied(t) /\ item[t] \in Item
    BY <1>8 DEF Copied, StateInv, WorkerOK
  <2>2. base < put
    BY <1>2, <1>3, <1>6, <2>1
  <2>3. ptr[t] = first + calls[t] /\ Round(item[t]) = r
    BY <1>2, <1>3, <1>5, <2>1, <2>2 DEF RoundFrom
  <2> QED
    BY <2>3
<1> QED
  BY <1>3, <1>5, <1>6, <1>7, <1>8

\* Unless the queue overflowed, the workers go through the work in rounds, for any number of
\* workers, items and allocations: items of two rounds are never run at the same time, no item
\* is taken twice, and every worker leaves hypre_SharedMAlloc with the block of this call
\* (threading.c:168-191, 250-271, hypre_memory.c:217-234).
THEOREM KeepsRounds == Spec => []InRounds
<1>1. Init => StateInv /\ RoundInv
  BY StateInit, RoundInit
<1>2. StateInv /\ RoundInv /\ [Next]_vars => (StateInv /\ RoundInv)'
  BY StateStep, RoundStep
<1> QED
  BY <1>1, <1>2, RoundsAgree, PTL DEF Spec

LEMMA WaitReturns ==
  ASSUME StateInv, RoundInv, ~ error, Quiesced, pc[Main] = "wait"
  PROVE  done = 1 .. put /\ \A t \in Worker : ~ HasItem(t)
<1>1. \A t \in Worker : ~ Works(t)
  <2>1. IsFiniteSet(WorkingOnes) /\ Cardinality(WorkingOnes) = 0
    BY ConstantFacts, FS_Subset DEF WorkingOnes, StateInv, CountInv, Quiesced
  <2>2. WorkingOnes = {}
    BY <2>1, FS_EmptySet
  <2> QED
    BY <2>2 DEF WorkingOnes
<1>2. \A t \in Worker : ~ Busy(t) /\ ~ AtEnd(t) /\ ~ HasItem(t)
  BY <1>1 DEF Works, Busy, AtEnd, HasItem, InBarrier
<1>3. BusyOnes = {} /\ Cardinality(BusyOnes) = 0
  BY <1>2, FS_EmptySet DEF BusyOnes
<1>4. PICK r \in Nat : RoundAt(r)
  BY DEF RoundInv
<1> PICK base, first : base = r * hypre_NumThreads /\ first = r * Allocs
  OBVIOUS
<1>5. base \in Nat /\ RoundFrom(base, first) /\ put \in Nat
  BY <1>4, ConstantFacts, PutsType DEF RoundAt, StateInv
<1>6. ~ Stopping /\ Taken = put
  BY <1>5 DEF Stopping, Taken, Puts, Quiesced
<1>7. base = put
  BY <1>3, <1>5, <1>6 DEF RoundFrom
<1>8. done = 1 .. base \cup {item[t] : t \in {u \in Worker : AtEnd(u)}}
  BY <1>5, <1>6 DEF RoundFrom
<1>9. {item[t] : t \in {u \in Worker : AtEnd(u)}} = {}
  BY <1>2
<1> QED
  BY <1>2, <1>7, <1>8, <1>9

\* When hypre_work_wait returns and nothing overflowed, every item put so far was run and no
\* worker is on its way to one (threading.c:197-224).
THEOREM WaitIsDone == Spec => WaitMeansDone
<1>1. Init => StateInv /\ RoundInv
  BY StateInit, RoundInit
<1>2. StateInv /\ RoundInv /\ [Next]_vars => (StateInv /\ RoundInv)'
  BY StateStep, RoundStep
<1>3. ASSUME StateInv, RoundInv, [Next]_vars, pc[Main] = "wait", pc'[Main] = "app", ~ error
      PROVE  done = 1 .. put /\ \A t \in Worker : ~ HasItem(t)
  <2>1. DOMAIN pc = Thread /\ Main \in Thread /\ Main \notin Worker
    BY <1>3, ConstantFacts DEF StateInv, TypeOK
  <2>2. ~ \E t \in Worker : Work(t)
    BY <1>3, OthersKept DEF StateInv
  <2>3. ~ \E t \in Thread : WakeUp(t)
    BY <1>3, <2>1 DEF WakeUp, Goto
  <2>4. WaitForFinish
    BY <1>3, <2>2, <2>3 DEF Next, Library, Create, PutStop, Join, PutItem, CallWait, CallDestroy,
       vars
  <2>5. Quiesced
    BY <1>3, <2>1, <2>4 DEF WaitForFinish, Goto
  <2> QED
    BY <1>3, <2>5, WaitReturns
<1>4. StateInv /\ RoundInv /\ [Next]_vars =>
        [pc[Main] = "wait" /\ pc'[Main] = "app" /\ ~ error =>
           done = 1 .. put /\ \A t \in Worker : ~ HasItem(t)]_vars
  BY <1>3
<1> QED
  BY <1>1, <1>2, <1>4, PTL DEF Spec, WaitMeansDone
=============================================================================
