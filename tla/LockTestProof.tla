---------------------------- MODULE LockTestProof ----------------------------
(***************************************************************************)
(* Proofs about LockTest, for any number of readers and writers and any    *)
(* number of operations.                                                   *)
(***************************************************************************)
EXTENDS LockTest, FiniteSetTheorems, WellFoundedInduction, TLAPS

\* Where a thread is once the barrier let it go.
Released ==
  {"barrier", "loop", "lock", "check", "add", "load", "store", "load_again",
   "store_again", "unlock", "return", "ended"}

\* A thread that was created and has not come out of the barrier.
Waits(t) == pc[t] = "enter" \/ (pc[t] = "barrier" /\ t \in at_barrier)

StartTypeOK ==
  /\ main \in {"create", "barrier", "sleep", "join", "exit", "error"}
  /\ started \subseteq Thread /\ at_barrier \subseteq Thread \cup {MainThread}
  /\ pc \in [Thread -> Released \cup {"none", "enter"}]
  /\ \A t \in Thread : t \in at_barrier => pc[t] = "barrier"

\* Before main comes to the barrier.
Creating ==
  main \in {"create", "barrier"} =>
    /\ main = "create" <=> started # Thread
    /\ MainThread \notin at_barrier
    /\ \A t \in Thread :
         IF t \in started THEN Waits(t) ELSE pc[t] \in {"none", "ended"}

\* While main waits at the barrier, and after that.
Sleeping ==
  main = "sleep" =>
    /\ started = Thread
    /\ MainThread \in at_barrier => \A t \in Thread : Waits(t)
    /\ MainThread \notin at_barrier =>
         at_barrier = {} /\ \A t \in Thread : pc[t] \in Released

Joining ==
  /\ main = "join" =>
       /\ at_barrier = {}
       /\ \A t \in Thread : pc[t] \in Released
       /\ \A t \in Thread \ started : pc[t] = "ended"
  /\ main = "exit" => \A t \in Thread : pc[t] = "ended"
  /\ main = "error" => \A t \in Thread : pc[t] \in {"none", "enter", "barrier", "ended"}

StartInv == StartTypeOK /\ Creating /\ Sleeping /\ Joining

LEMMA ThreadFacts == Thread # {} /\ Thread \subseteq Nat /\ MainThread \notin Thread
BY LockTestAssumption DEF Thread, MainThread

\* A set of naturals has a least element; induction is done with it below.
LEMMA Least ==
  ASSUME NEW S \in SUBSET Nat, S # {}
  PROVE  \E x \in S : \A y \in S : x <= y
<1>1. PICK x \in S : \A y \in S : ~ (<<y, x>> \in OpToRel(<, Nat))
  BY NatLessThanWellFounded, WFMin
<1>2. ASSUME NEW y \in S PROVE x <= y
  <2>1. y < x => <<y, x>> \in OpToRel(<, Nat)
    BY Zenon DEF OpToRel
  <2>2. x \in Nat /\ y \in Nat /\ ~ (y < x)
    BY <1>1, <2>1
  <2>3. QED
    BY <2>2
<1>3. QED
  BY <1>2

\* Min, of the library, does choose an element.
LEMMA MinInSet ==
  ASSUME NEW S \in SUBSET Thread, S # {}
  PROVE  Min(S) \in S
<1>1. S \in SUBSET Nat
  BY ThreadFacts
<1>2. QED
  BY <1>1, Least DEF Min

LEMMA StartInit == Init => StartInv
BY ThreadFacts
DEF Init, StartInv, StartTypeOK, Creating, Sleeping, Joining, Waits, Released

\* All steps of a thread but the one into the barrier.
LEMMA RunStep ==
  ASSUME StartInv, NEW t \in Thread, Adder(t), ~ EnterBarrier(t)
  PROVE  /\ pc[t] \in Released /\ t \notin at_barrier
         /\ \E label \in Released \ {"barrier"} : pc' = [pc EXCEPT ![t] = label]
         /\ pc[t] # "ended"
         /\ UNCHANGED <<main, started, at_barrier>>
<1> USE DEF StartInv, StartTypeOK, Released, Goto
<1>1. CASE LeaveBarrier(t) BY <1>1 DEF LeaveBarrier
<1>2. CASE Loop(t) BY <1>2 DEF Loop
<1>3. CASE Lock(t) BY <1>3 DEF Lock
<1>4. CASE Check(t) BY <1>4 DEF Check
<1>5. CASE SyncAdd(t) BY <1>5 DEF SyncAdd
<1>6. CASE Load(t) BY <1>6 DEF Load
<1>7. CASE Store(t) BY <1>7 DEF Store
<1>8. CASE Unlock(t) BY <1>8 DEF Unlock
<1>9. CASE Return(t) BY <1>9 DEF Return
<1>10. QED
  BY <1>1, <1>2, <1>3, <1>4, <1>5, <1>6, <1>7, <1>8, <1>9 DEF Adder

LEMMA StartStep == StartInv /\ [Next]_vars => StartInv'
<1> SUFFICES ASSUME StartInv, [Next]_vars PROVE StartInv'
  OBVIOUS
<1> USE ThreadFacts DEF StartInv, StartTypeOK, Creating, Sleeping, Joining, Waits
<1>1. ASSUME NEW t \in Thread, Adder(t) PROVE StartInv'
  <2>1. main # "error"
    BY <1>1 DEF Adder
  <2>2. CASE EnterBarrier(t)
    <3>1. pc[t] = "enter" /\ pc' = [pc EXCEPT ![t] = "barrier"]
      BY <2>2 DEF EnterBarrier, Goto
    <3>2. UNCHANGED <<main, started>>
      BY <2>2 DEF EnterBarrier
    <3>3. main \in {"create", "barrier", "sleep"} /\ t \in started
      BY <2>1, <3>1 DEF Released
    <3>4. CASE at_barrier \cup {t} = Party
      <4>1. at_barrier' = {}
        BY <2>2, <3>4 DEF EnterBarrier, Arrive
      <4>2. MainThread \in at_barrier /\ \A u \in Thread \ {t} : u \in at_barrier
        BY <3>4 DEF Party
      <4>3. main = "sleep"
        BY <3>3, <4>2
      <4>4. \A u \in Thread : pc'[u] = "barrier"
        BY <3>1, <4>2
      <4>5. QED
        BY <3>1, <3>2, <4>1, <4>3, <4>4 DEF Released
    <3>5. CASE at_barrier \cup {t} # Party
      <4>1. at_barrier' = at_barrier \cup {t}
        BY <2>2, <3>5 DEF EnterBarrier, Arrive
      <4>2. main = "sleep" => MainThread \in at_barrier
        BY <3>1 DEF Released
      <4>3. QED
        BY <3>1, <3>2, <3>3, <4>1, <4>2 DEF Released
    <3>6. QED
      BY <3>4, <3>5
  <2>3. CASE ~ EnterBarrier(t)
    <3>1. /\ pc[t] \in Released /\ t \notin at_barrier /\ pc[t] # "ended"
          /\ UNCHANGED <<main, started, at_barrier>>
      BY <1>1, <2>3, RunStep
    <3>2. PICK label \in Released \ {"barrier"} : pc' = [pc EXCEPT ![t] = label]
      BY <1>1, <2>3, RunStep
    <3>3. main \notin {"create", "barrier", "exit"}
      BY <3>1 DEF Released
    <3>4. main = "sleep" => MainThread \notin at_barrier
      BY <3>1 DEF Released
    <3>5. QED
      BY <2>1, <3>1, <3>2, <3>3, <3>4
  <2>4. QED
    BY <2>2, <2>3
<1>2. CASE Create
  <2> DEFINE t == Min(Thread \ started)
  <2>1. Thread \ started # {}
    BY <1>2 DEF Create
  <2>2. t \in Thread \ started
    BY <2>1, MinInSet
  <2>3. CASE main' = "error" /\ UNCHANGED <<started, pc>>
    BY <1>2, <2>3 DEF Create, Released
  <2>4. CASE /\ started' = started \cup {t}
             /\ Goto(t, "enter")
             /\ main' = IF started' = Thread THEN "barrier" ELSE "create"
    <3> HIDE DEF t
    <3>1. main = "create" /\ UNCHANGED at_barrier
      BY <1>2 DEF Create
    <3>2. t \notin at_barrier
      BY <2>2, <3>1
    <3>3. \A u \in Thread : pc'[u] = IF u = t THEN "enter" ELSE pc[u]
      BY <2>4, <2>2 DEF Goto
    <3>4. pc' \in [Thread -> Released \cup {"none", "enter"}]
      BY <2>4, <2>2 DEF Goto
    <3>5. main' \in {"create", "barrier"}
      BY <2>4
    <3>6. QED
      BY <2>2, <2>4, <3>1, <3>2, <3>3, <3>4, <3>5
  <2>5. QED
    BY <1>2, <2>3, <2>4 DEF Create
<1>3. CASE MainBarrier
  <2>1. main = "barrier" /\ main' = "sleep" /\ UNCHANGED <<pc, started>>
    BY <1>3 DEF MainBarrier
  <2>2. CASE at_barrier \cup {MainThread} = Party
    BY <1>3, <2>1, <2>2 DEF MainBarrier, Arrive, Party, Released
  <2>3. CASE at_barrier \cup {MainThread} # Party
    BY <1>3, <2>1, <2>3 DEF MainBarrier, Arrive
  <2>4. QED
    BY <2>2, <2>3
<1>4. CASE MainFinish
  BY <1>4 DEF MainFinish
<1>5. CASE Join
  <2> DEFINE t == Min(started)
  <2>1. t \in started /\ pc[t] = "ended" /\ main = "join"
    BY <1>5, MinInSet DEF Join, MayJoin
  <2>2. started' = started \ {t} /\ UNCHANGED <<pc, main, at_barrier>>
    BY <1>5 DEF Join
  <2> HIDE DEF t
  <2>3. QED
    BY <2>1, <2>2
<1>6. CASE NextTest
  BY <1>6 DEF NextTest
<1>7. CASE MainExit
  BY <1>7 DEF MainExit
<1>8. CASE UNCHANGED vars
  BY <1>8 DEF vars
<1>9. QED
  BY <1>1, <1>2, <1>3, <1>4, <1>5, <1>6, <1>7, <1>8 DEF Next, Main, Ended

\* In every test no thread runs before all were created and main is at the barrier,
\* though the tests use one barrier again and again (lock-test.c:29, 147, 186).
THEOREM NobodyStartsEarly == Spec => []StartTogether
<1>1. StartInv => StartTogether
  BY DEF StartInv, StartTypeOK, Creating, Joining, Waits, StartTogether
<1>2. QED
  BY StartInit, StartStep, <1>1, PTL DEF Spec

-----------------------------------------------------------------------------
(* Nobody sees an odd sum.  A writer that holds the lock is alone with it, *)
(* and the sum is odd only between its two additions.                      *)

Counting == {"load", "store", "load_again", "store_again"}
Halfway  == {"load_again", "store_again"}
Holding  == Counting \cup {"check", "unlock"}

Even(n) == n % 2 = 0

LockTypeOK ==
  /\ program \in {"lock-test", "rwlock-test"} /\ test \in {1, 2}
  /\ total_sum \in Nat /\ load \in [Thread -> Nat]
  /\ holders \subseteq Thread

\* The threads that are where the lock is held hold it.
Held ==
  /\ Tests[test] = "lock" =>
       \A t \in Thread : (t \in holders <=> pc[t] \in Holding) /\ pc[t] # "add"
  /\ Tests[test] = "sync_add" =>
       holders = {} /\ \A t \in Thread : pc[t] \notin Counting \cup {"lock", "unlock"}

Exclusive ==
  /\ \A t, u \in holders : t # u => t \in Reader /\ u \in Reader
  /\ \A t \in Reader : pc[t] \notin Counting

Parity ==
  /\ (\A t \in Thread : pc[t] \notin Halfway) => Even(total_sum)
  /\ \A t \in Thread :
       /\ pc[t] \in Halfway => ~ Even(total_sum)
       /\ pc[t] \in {"store", "store_again"} => load[t] = total_sum

NoneSeen ==
  /\ num_odds = [t \in Thread |-> 0] /\ thread_odds = [t \in Thread |-> 0]

LockInv == LockTypeOK /\ Held /\ Exclusive /\ Parity /\ NoneSeen

LEMMA EvenFacts ==
  /\ Even(0)
  /\ \A n \in Nat : Even(n) => Even(n + 2)
  /\ \A n \in Nat : Even(n + 1) <=> ~ Even(n)
  /\ \A n \in Nat : n % 2 = 1 <=> ~ Even(n)
BY DEF Even

LEMMA TestsFacts ==
  /\ Len(Tests) = 2
  /\ \A k \in {1, 2} : Tests[k] \in {"lock", "sync_add"}
  /\ \A k \in {1, 2} : Tests[k] = "sync_add" => Reader = {}
  /\ Reader \subseteq Thread
BY LockTestAssumption DEF Tests, Reader, Thread

LEMMA LockInit == Init => LockInv
<1> SUFFICES ASSUME Init PROVE LockInv
  OBVIOUS
<1>1. \A t \in Thread : pc[t] = "none"
  BY DEF Init
<1>2. LockTypeOK /\ NoneSeen
  BY DEF Init, LockTypeOK, NoneSeen, Zero
<1>3. holders = {} /\ Reader \subseteq Thread
  BY LockTestAssumption DEF Init, Reader, Thread
<1>4. Held
  BY <1>1, <1>3 DEF Held, Holding, Counting
<1>5. Exclusive
  BY <1>1, <1>3 DEF Exclusive, Counting
<1>6. Parity
  BY <1>1, EvenFacts DEF Init, Parity, Halfway
<1>7. QED
  BY <1>2, <1>4, <1>5, <1>6 DEF LockInv

\* While nobody is halfway the sum is even; a thread that holds the lock or counts
\* without one is never beside a thread that is halfway.
LEMMA EvenWhenChecked ==
  ASSUME LockInv, NEW t \in Thread,
         pc[t] \in {"check", "load", "store", "add"}
  PROVE  Even(total_sum)
<1> USE DEF LockInv, LockTypeOK, Held, Exclusive, Parity, Holding, Counting, Halfway
<1>1. ASSUME NEW u \in Thread, pc[u] \in Halfway PROVE FALSE
  <2>1. Tests[test] = "lock"
    BY <1>1, TestsFacts
  <2>2. t \in holders /\ u \in holders /\ t # u
    BY <1>1, <2>1
  <2>3. u \in Reader
    BY <2>2
  <2>4. QED
    BY <1>1, <2>3
<1>2. QED
  BY <1>1

\* The steps of a thread.
LEMMA LockRunStep ==
  ASSUME StartInv, LockInv, NEW t \in Thread, Adder(t)
  PROVE  LockInv'
<1> USE TestsFacts
    DEF LockInv, LockTypeOK, Held, Exclusive, Parity, NoneSeen, Holding, Counting, Halfway,
        StartInv, StartTypeOK, Goto, which, locals, shared
<1>0. UNCHANGED <<program, test>> /\ UNCHANGED Reader /\ UNCHANGED Tests
  BY DEF Adder, EnterBarrier, LeaveBarrier, Loop, Lock, Check, SyncAdd, Load, Store,
     Unlock, Return, Reader, Tests
<1>1. CASE EnterBarrier(t)
  BY <1>0, <1>1 DEF EnterBarrier
<1>2. CASE LeaveBarrier(t)
  BY <1>0, <1>2 DEF LeaveBarrier
<1>3. CASE Loop(t)
  <2>1. pc[t] = "loop"
    BY <1>3 DEF Loop
  <2>2. CASE Goto(t, IF Tests[test] = "lock" THEN "lock" ELSE "check")
    <3>1. CASE Tests[test] = "lock"
      BY <1>0, <1>3, <2>1, <2>2, <3>1 DEF Loop
    <3>2. CASE Tests[test] # "lock"
      BY <1>0, <1>3, <2>1, <2>2, <3>2 DEF Loop
    <3>3. QED BY <3>1, <3>2
  <2>3. CASE Goto(t, "return")
    BY <1>0, <1>3, <2>1, <2>3 DEF Loop
  <2>4. QED
    BY <1>3, <2>2, <2>3 DEF Loop
<1>4. CASE Lock(t)
  <2>1. CASE t \in Reader
    BY <1>0, <1>4, <2>1 DEF Lock, Excludes, Writer
  <2>2. CASE t \notin Reader
    BY <1>0, <1>4, <2>2 DEF Lock, Excludes
  <2>3. QED BY <2>1, <2>2
<1>5. CASE Check(t)
  <2>1. Even(total_sum) /\ UNCHANGED num_odds
    BY <1>5, EvenWhenChecked, EvenFacts DEF Check
  <2>2. UNCHANGED <<load, total_sum, holders, thread_odds>> /\ pc[t] = "check"
    BY <1>5 DEF Check
  <2>3. CASE t \in Reader
    BY <1>0, <1>5, <2>1, <2>2, <2>3 DEF Check
  <2>4. CASE t \notin Reader /\ Tests[test] = "lock"
    BY <1>0, <1>5, <2>1, <2>2, <2>4 DEF Check
  <2>5. CASE t \notin Reader /\ Tests[test] = "sync_add"
    BY <1>0, <1>5, <2>1, <2>2, <2>5 DEF Check
  <2>6. QED
    BY <2>3, <2>4, <2>5
<1>6. CASE SyncAdd(t)
  <2>1. Even(total_sum)
    BY <1>6, EvenWhenChecked DEF SyncAdd
  <2>2. Even(total_sum') /\ total_sum' \in Nat
    BY <1>6, <2>1, EvenFacts DEF SyncAdd, Delta
  <2>3. QED
    BY <1>0, <1>6, <2>2 DEF SyncAdd
<1>7. CASE Load(t)
  BY <1>0, <1>7 DEF Load
<1>8. CASE Store(t)
  <2>1. Tests[test] = "lock" /\ t \in holders /\ t \notin Reader
    BY <1>8 DEF Store
  <2>2. \A u \in Thread \ {t} : pc[u] \notin Holding
    BY <2>1
  <2>3. total_sum' = total_sum + 1
    BY <1>8 DEF Store
  <2>4. pc[t] = "store" => Even(total_sum)
    BY EvenWhenChecked
  <2>5. QED
    BY <1>0, <1>8, <2>1, <2>2, <2>3, <2>4, EvenFacts DEF Store
<1>9. CASE Unlock(t)
  BY <1>0, <1>9 DEF Unlock
<1>10. CASE Return(t)
  BY <1>0, <1>10 DEF Return
<1>11. QED
  BY <1>1, <1>2, <1>3, <1>4, <1>5, <1>6, <1>7, <1>8, <1>9, <1>10 DEF Adder

LEMMA LockStep == StartInv /\ LockInv /\ [Next]_vars => LockInv'
<1> SUFFICES ASSUME StartInv, LockInv, [Next]_vars PROVE LockInv'
  OBVIOUS
<1>1. ASSUME NEW t \in Thread, Adder(t) PROVE LockInv'
  BY <1>1, LockRunStep
<1> USE TestsFacts
    DEF LockInv, LockTypeOK, Held, Exclusive, Parity, NoneSeen, Holding, Counting, Halfway,
        which, locals, shared
<1>0. UNCHANGED program /\ UNCHANGED Reader /\ UNCHANGED Tests
  BY DEF Next, Main, Ended, Adder, EnterBarrier, LeaveBarrier, Loop, Lock, Check, SyncAdd,
     Load, Store, Unlock, Return, Create, MainBarrier, MainFinish, Join, NextTest,
     MainExit, vars, Reader, Tests
<1> USE <1>0
<1>2. CASE Create
  <2>1. UNCHANGED <<which, locals, shared>>
    BY <1>2 DEF Create
  <2> DEFINE t == Min(Thread \ started)
  <2>2. pc' = pc \/ (Goto(t, "enter") /\ t \in Thread \ started)
    <3>1. main = "create" /\ Thread \ started # {}
      BY <1>2 DEF Create, StartInv, StartTypeOK, Creating
    <3>2. t \in Thread \ started
      BY <3>1, MinInSet
    <3>3. pc' = pc \/ Goto(t, "enter")
      BY <1>2 DEF Create
    <3>4. QED
      BY <3>2, <3>3
  <2> HIDE DEF t
  <2>3. \A u \in Thread :
          pc'[u] = pc[u] \/ (pc'[u] = "enter" /\ pc[u] \in {"none", "ended"})
    BY <1>2, <2>2 DEF Create, Goto, StartInv, StartTypeOK, Creating
  <2>4. LockTypeOK' /\ NoneSeen' /\ Exclusive'
    BY <2>1, <2>3
  <2>5. Held'
    BY <2>1, <2>3
  <2>6. Parity'
    BY <2>1, <2>3
  <2>7. QED
    BY <2>4, <2>5, <2>6
<1>3. CASE MainBarrier
  BY <1>3 DEF MainBarrier
<1>4. CASE MainFinish
  BY <1>4 DEF MainFinish
<1>5. CASE Join
  BY <1>5 DEF Join
<1>6. CASE NextTest
  <2>1. \A u \in Thread : pc[u] = "ended" /\ pc'[u] = "ended"
    BY <1>6 DEF NextTest, StartInv, Joining
  <2>2. test' \in {1, 2} /\ UNCHANGED <<program, load, holders, num_odds, thread_odds>>
    BY <1>6 DEF NextTest
  <2>3. holders = {} /\ total_sum' = 0
    BY <1>6, <2>1 DEF NextTest
  <2>4. LockTypeOK' /\ NoneSeen' /\ Exclusive'
    BY <2>1, <2>2, <2>3
  <2>5. Held'
    BY <2>1, <2>2, <2>3
  <2>6. Parity'
    BY <2>1, <2>2, <2>3, EvenFacts
  <2>7. QED
    BY <2>4, <2>5, <2>6
<1>7. CASE MainExit
  BY <1>7 DEF MainExit
<1>8. CASE UNCHANGED vars
  BY <1>8 DEF vars
<1>9. QED
  BY <1>1, <1>2, <1>3, <1>4, <1>5, <1>6, <1>7, <1>8 DEF Next, Main, Ended

\* With a lock, or an atomic addition of two, no thread ever sees an odd sum, in
\* all of the tests that follow each other (lock-test.c:33-60).
THEOREM NobodySeesOdd == Spec => []NoOdds
<1>1. LockInv => NoOdds
  BY DEF LockInv, NoneSeen, NoOdds
<1>2. QED
  BY StartInit, StartStep, LockInit, LockStep, <1>1, PTL DEF Spec
-----------------------------------------------------------------------------
(* Sums over a finite set.  What is claimed of all its subsets is proved   *)
(* from a least subset for which it is wrong: one element less, and it is  *)
(* right.                                                                  *)

\* In a family of finite sets there is one that is the least of its subsets.
LEMMA LeastSubset ==
  ASSUME NEW S, IsFiniteSet(S), NEW F \in SUBSET SUBSET S, F # {}
  PROVE  \E T \in F : \A x \in T : T \ {x} \notin F
<1> DEFINE Sizes == {Cardinality(T) : T \in F}
<1>1. \A T \in F : IsFiniteSet(T) /\ Cardinality(T) \in Nat
  BY FS_Subset, FS_CardinalityType
<1>2. PICK n \in Sizes : \A m \in Sizes : n <= m
  <2>1. Sizes \in SUBSET Nat /\ Sizes # {}
    BY <1>1
  <2> HIDE DEF Sizes
  <2>2. QED
    BY <2>1, Least
<1>3. PICK T \in F : Cardinality(T) = n
  BY <1>2
<1>4. ASSUME NEW x \in T, T \ {x} \in F PROVE FALSE
  <2>1. Cardinality(T \ {x}) = n - 1 /\ n \in Nat
    BY <1>1, <1>3, FS_RemoveElement
  <2>2. n <= Cardinality(T \ {x})
    BY <1>2, <1>4
  <2>3. QED
    BY <2>1, <2>2
<1>5. QED
  BY <1>4

First(S) == CHOOSE x \in S : TRUE

\* The recursive definition of the library's sum, over the sets in D: the equation
\* is g = SumOver(f, g, D).
SumOver(f, g, D) ==
  [S \in D |-> IF S = {} THEN 0 ELSE f[First(S)] + g[S \ {First(S)}]]

LEMMA FirstIn == \A S : S # {} => First(S) \in S
BY DEF First

\* Over the subsets of a finite set the equation has a solution: there is one over
\* those of no more than n elements, for every n.
LEMMA SumExists ==
  ASSUME NEW S, IsFiniteSet(S), NEW f
  PROVE  \E g : g = SumOver(f, g, SUBSET S)
<1> DEFINE D(n) == {T \in SUBSET S : Cardinality(T) <= n}
           Bad == {n \in Nat : ~ \E g : g = SumOver(f, g, D(n))}
<1>1. \A T \in SUBSET S :
        /\ IsFiniteSet(T) /\ Cardinality(T) \in Nat
        /\ T = {} <=> Cardinality(T) = 0
        /\ \A x \in T : Cardinality(T \ {x}) = Cardinality(T) - 1
  BY FS_Subset, FS_CardinalityType, FS_EmptySet, FS_RemoveElement
<1>2. ASSUME Bad # {} PROVE FALSE
  <2>1. PICK n \in Bad : \A m \in Bad : n <= m
    <3> HIDE DEF Bad
    <3>1. Bad \subseteq Nat
      BY DEF Bad
    <3>2. QED
      BY <1>2, <3>1, Least
  <2>2. n \in Nat /\ ~ \E g : g = SumOver(f, g, D(n))
    BY <2>1
  <2>3. CASE n = 0
    <3> DEFINE h == [T \in D(0) |-> 0]
    <3>1. \A T \in D(0) : T = {}
      BY <1>1
    <3>2. h = SumOver(f, h, D(0))
      BY <3>1 DEF SumOver
    <3>3. QED
      BY <2>2, <2>3, <3>2
  <2>4. CASE n # 0
    <3>1. n - 1 \in Nat /\ n - 1 \notin Bad
      <4> HIDE DEF Bad
      <4>1. n - 1 \in Nat /\ ~ (n <= n - 1)
        BY <2>2, <2>4
      <4>2. QED
        BY <2>1, <4>1
    <3>2. PICK g : g = SumOver(f, g, D(n - 1))
      BY <3>1
    <3> DEFINE h == SumOver(f, g, D(n))
    <3>3. ASSUME NEW T \in D(n - 1) PROVE h[T] = g[T]
      <4>1. T \in D(n)
        BY <1>1, <2>2, <3>1
      <4>2. g[T] = IF T = {} THEN 0 ELSE f[First(T)] + g[T \ {First(T)}]
        BY <3>2 DEF SumOver
      <4>3. h[T] = IF T = {} THEN 0 ELSE f[First(T)] + g[T \ {First(T)}]
        BY <4>1 DEF SumOver
      <4>4. QED
        BY <4>2, <4>3
    <3>4. \A T \in D(n) : T # {} => T \ {First(T)} \in D(n - 1)
      BY <1>1, <2>2, FirstIn
    <3>5. h = SumOver(f, h, D(n))
      <4> HIDE DEF D
      <4>1. \A T \in D(n) :
              (IF T = {} THEN 0 ELSE f[First(T)] + g[T \ {First(T)}])
              = IF T = {} THEN 0 ELSE f[First(T)] + h[T \ {First(T)}]
        BY <3>3, <3>4
      <4>2. QED
        BY <4>1 DEF SumOver
    <3>6. QED
      BY <2>2, <3>5
  <2>5. QED
    BY <2>3, <2>4
<1>3. Cardinality(S) \in Nat \ Bad
  BY <1>1, <1>2
<1>4. D(Cardinality(S)) = SUBSET S
  BY <1>1, FS_Subset
<1>5. QED
  BY <1>3, <1>4

\* The library's sum is the value of that solution at the whole set.
LEMMA SumIs ==
  ASSUME NEW S, IsFiniteSet(S), NEW f
  PROVE  \E g : g = SumOver(f, g, SUBSET S) /\ SumFunctionOnSet(f, S) = g[S]
<1> DEFINE h == CHOOSE g : g = SumOver(f, g, SUBSET S)
<1>1. h = SumOver(f, h, SUBSET S)
  BY SumExists
<1>2. SumFunctionOnSet(f, S) = h[S]
  BY Zenon DEF SumFunctionOnSet, FoldFunctionOnSet, MapThenFoldSet, SumOver, First
<1>3. QED
  BY <1>1, <1>2

\* One summand that is more by d.
LEMMA SumMore ==
  ASSUME NEW S, IsFiniteSet(S), NEW f, NEW h, NEW t, NEW d \in Nat,
         \A u \in S : f[u] \in Nat /\ h[u] = IF u = t THEN f[u] + d ELSE f[u]
  PROVE  /\ SumFunctionOnSet(f, S) \in Nat
         /\ SumFunctionOnSet(h, S) =
              IF t \in S THEN SumFunctionOnSet(f, S) + d ELSE SumFunctionOnSet(f, S)
<1>1. PICK a : a = SumOver(f, a, SUBSET S) /\ SumFunctionOnSet(f, S) = a[S]
  BY SumIs
<1>2. PICK b : b = SumOver(h, b, SUBSET S) /\ SumFunctionOnSet(h, S) = b[S]
  BY SumIs
<1> DEFINE Right(T) == a[T] \in Nat /\ b[T] = IF t \in T THEN a[T] + d ELSE a[T]
           Wrong == {T \in SUBSET S : ~ Right(T)}
<1>3. ASSUME Wrong # {} PROVE FALSE
  <2>1. PICK T \in Wrong : \A x \in T : T \ {x} \notin Wrong
    <3> HIDE DEF Wrong
    <3>1. Wrong \in SUBSET SUBSET S
      BY DEF Wrong
    <3>2. QED
      BY <1>3, <3>1, LeastSubset
  <2>2. T \in SUBSET S /\ ~ Right(T)
    BY <2>1
  <2>3. a[T] = (IF T = {} THEN 0 ELSE f[First(T)] + a[T \ {First(T)}])
    BY <1>1, <2>2 DEF SumOver
  <2>4. b[T] = (IF T = {} THEN 0 ELSE h[First(T)] + b[T \ {First(T)}])
    BY <1>2, <2>2 DEF SumOver
  <2>5. T # {}
    BY <2>2, <2>3, <2>4
  <2> DEFINE x == First(T)  U == T \ {x}
  <2>6. x \in T /\ x \in S
    BY <2>2, <2>5, FirstIn
  <2>7. Right(U)
    BY <2>1, <2>2, <2>6
  <2> HIDE DEF x
  <2>8. f[x] \in Nat /\ h[x] = IF x = t THEN f[x] + d ELSE f[x]
    BY <2>6
  <2>9. a[T] = f[x] + a[U] /\ b[T] = h[x] + b[U]
    BY <2>3, <2>4, <2>5 DEF x
  <2>10. t \in T <=> t = x \/ t \in U
    BY <2>6
  <2>11. x \notin U
    OBVIOUS
  <2> HIDE DEF U
  <2>12. Right(T)
    BY <2>7, <2>8, <2>9, <2>10, <2>11
  <2>13. QED
    BY <2>2, <2>12
<1>4. QED
  BY <1>1, <1>2, <1>3

\* All summands doubled.
LEMMA SumDouble ==
  ASSUME NEW S, IsFiniteSet(S), NEW f, NEW h,
         \A u \in S : f[u] \in Nat /\ h[u] = 2 * f[u]
  PROVE  /\ SumFunctionOnSet(f, S) \in Nat
         /\ SumFunctionOnSet(h, S) = 2 * SumFunctionOnSet(f, S)
<1>1. PICK a : a = SumOver(f, a, SUBSET S) /\ SumFunctionOnSet(f, S) = a[S]
  BY SumIs
<1>2. PICK b : b = SumOver(h, b, SUBSET S) /\ SumFunctionOnSet(h, S) = b[S]
  BY SumIs
<1> DEFINE Right(T) == a[T] \in Nat /\ b[T] = 2 * a[T]
           Wrong == {T \in SUBSET S : ~ Right(T)}
<1>3. ASSUME Wrong # {} PROVE FALSE
  <2>1. PICK T \in Wrong : \A x \in T : T \ {x} \notin Wrong
    <3> HIDE DEF Wrong
    <3>1. Wrong \in SUBSET SUBSET S
      BY DEF Wrong
    <3>2. QED
      BY <1>3, <3>1, LeastSubset
  <2>2. T \in SUBSET S /\ ~ Right(T)
    BY <2>1
  <2>3. a[T] = (IF T = {} THEN 0 ELSE f[First(T)] + a[T \ {First(T)}])
    BY <1>1, <2>2 DEF SumOver
  <2>4. b[T] = (IF T = {} THEN 0 ELSE h[First(T)] + b[T \ {First(T)}])
    BY <1>2, <2>2 DEF SumOver
  <2>5. T # {}
    BY <2>2, <2>3, <2>4
  <2> DEFINE x == First(T)  U == T \ {x}
  <2>6. x \in T /\ x \in S
    BY <2>2, <2>5, FirstIn
  <2>7. Right(U)
    BY <2>1, <2>2, <2>6
  <2> HIDE DEF x
  <2>8. f[x] \in Nat /\ h[x] = 2 * f[x]
    BY <2>6
  <2>9. a[T] = f[x] + a[U] /\ b[T] = h[x] + b[U]
    BY <2>3, <2>4, <2>5 DEF x
  <2> HIDE DEF U
  <2>10. Right(T)
    BY <2>7, <2>8, <2>9
  <2>11. QED
    BY <2>2, <2>10
<1>4. QED
  BY <1>1, <1>2, <1>3

-----------------------------------------------------------------------------
(* The count.  While a test runs the shared sum is twice what the writers  *)
(* counted, and what one of them has added in the operation it is in.      *)

LEMMA WriterFacts == IsFiniteSet(Writer) /\ Writer \subseteq Thread /\ Writer \cap Reader = {}
<1>1. IsFiniteSet(Thread)
  BY LockTestAssumption, FS_Interval DEF Thread
<1>2. QED
  BY <1>1, FS_Subset DEF Writer

Added(t) ==
  2 * (IF pc[t] = "ended" THEN thread_sum[t] ELSE sum[t])
  + (IF pc[t] \in Halfway THEN 1 ELSE IF pc[t] = "unlock" THEN 2 ELSE 0)

AddedByAll == SumFunctionOnSet([t \in Thread |-> Added(t)], Writer)

CountTypeOK == sum \in [Thread -> Nat] /\ thread_sum \in [Thread -> Nat]

Fresh == \A t \in Thread : pc[t] \in {"none", "enter", "barrier", "ended"} => sum[t] = 0

Counted ==
  /\ main \in {"create", "barrier"} => total_sum = 0
  /\ main \in {"sleep", "join", "exit"} => total_sum = AddedByAll

CountInv == CountTypeOK /\ Fresh /\ Counted

LEMMA AddedIsNat == CountTypeOK => \A t \in Thread : Added(t) \in Nat
BY DEF CountTypeOK, Added

\* When a thread alone changes what it added, by d, so does the sum.
LEMMA AddedByOne ==
  ASSUME CountTypeOK, UNCHANGED Writer, NEW t \in Thread, NEW d \in Nat,
         \A u \in Thread \ {t} : Added(u)' = Added(u),
         t \in Writer => Added(t)' = Added(t) + d
  PROVE  AddedByAll' = IF t \in Writer THEN AddedByAll + d ELSE AddedByAll
<1> DEFINE f == [u \in Thread |-> Added(u)]
           h == [u \in Thread |-> Added(u)']
<1>1. \A u \in Writer : f[u] \in Nat /\ h[u] = IF u = t THEN f[u] + d ELSE f[u]
  BY AddedIsNat, WriterFacts
<1>2. SumFunctionOnSet(h, Writer) =
        IF t \in Writer THEN SumFunctionOnSet(f, Writer) + d ELSE SumFunctionOnSet(f, Writer)
  <2> HIDE DEF f, h
  <2>1. QED
    BY <1>1, WriterFacts, SumMore
<1>3. AddedByAll = SumFunctionOnSet(f, Writer)
  BY DEF AddedByAll
<1>4. AddedByAll' = SumFunctionOnSet(h, Writer)
  BY Zenon DEF AddedByAll
<1>5. QED
  BY <1>2, <1>3, <1>4

\* Before anybody added anything the sum of it is zero.
LEMMA AddedByNone ==
  ASSUME \A t \in Writer : Added(t) = 0
  PROVE  AddedByAll = 0
<1> DEFINE f == [t \in Thread |-> Added(t)]
<1>1. \A t \in Writer : f[t] \in Nat /\ f[t] = 2 * f[t]
  BY WriterFacts
<1>2. SumFunctionOnSet(f, Writer) = 2 * SumFunctionOnSet(f, Writer)
  <2> HIDE DEF f
  <2>1. QED
    BY <1>1, WriterFacts, SumDouble
<1>3. SumFunctionOnSet(f, Writer) \in Nat
  <2> HIDE DEF f
  <2>1. QED
    BY <1>1, WriterFacts, SumDouble
<1>4. QED
  BY <1>2, <1>3 DEF AddedByAll

LEMMA CountInit == Init => CountInv
BY DEF Init, CountInv, CountTypeOK, Fresh, Counted, Zero

\* The steps of a thread.
LEMMA CountRunStep ==
  ASSUME StartInv, LockInv, CountInv, NEW t \in Thread, Adder(t)
  PROVE  CountInv'
<1> USE DEF StartInv, StartTypeOK, CountTypeOK, Fresh, Goto, which, locals, shared
<1>a. pc \in [Thread -> Released \cup {"none", "enter"}] /\ CountTypeOK /\ Fresh /\ Counted
  BY DEF CountInv
<1>b. UNCHANGED Writer /\ UNCHANGED main
  BY DEF Adder, EnterBarrier, LeaveBarrier, Loop, Lock, Check, SyncAdd, Load, Store,
     Unlock, Return, Reader, Writer
<1>c. total_sum \in Nat /\ sum[t] \in Nat /\ thread_sum[t] \in Nat
  BY <1>a DEF LockInv, LockTypeOK
<1>d. main \in {"create", "barrier"} => pc[t] = "enter"
  <2>1. main \in {"create", "barrier"} => Waits(t) \/ pc[t] \in {"none", "ended"}
    BY DEF Creating
  <2>2. pc[t] \notin {"none", "ended"} /\ (pc[t] = "barrier" => t \notin at_barrier)
    BY DEF Adder, EnterBarrier, LeaveBarrier, Loop, Lock, Check, SyncAdd, Load, Store,
       Unlock, Return
  <2>3. QED
    BY <2>1, <2>2 DEF Waits
<1>e. \A u \in Thread \ {t} :
        /\ pc'[u] = pc[u] /\ sum'[u] = sum[u] /\ thread_sum'[u] = thread_sum[u]
  BY <1>a DEF Adder, EnterBarrier, LeaveBarrier, Loop, Lock, Check, SyncAdd, Load, Store,
     Unlock, Return, Count
<1>f. \A u \in Thread \ {t} : Added(u)' = Added(u)
  BY <1>e DEF Added
<1>g. CountTypeOK' /\ Fresh'
  <2>1. \/ UNCHANGED <<sum, thread_sum>>
        \/ sum' = [sum EXCEPT ![t] = @ + 1] /\ UNCHANGED thread_sum
        \/ thread_sum' = [thread_sum EXCEPT ![t] = sum[t]] /\ sum' = [sum EXCEPT ![t] = 0]
    BY DEF Adder, EnterBarrier, LeaveBarrier, Loop, Lock, Check, SyncAdd, Load, Store,
       Unlock, Return, Count
  <2>2. CountTypeOK'
    BY <1>a, <1>c, <2>1
  <2>3. pc'[t] \in {"none", "enter", "barrier", "ended"} => sum'[t] = 0
    BY <1>a DEF Adder, EnterBarrier, LeaveBarrier, Loop, Lock, Check, SyncAdd, Load, Store,
       Unlock, Return, Count
  <2>4. QED
    BY <1>a, <1>e, <2>2, <2>3
\* It suffices that what the thread added and the shared sum grow alike.
<1>h. SUFFICES \E d \in Nat :
        /\ total_sum' = total_sum + d /\ (t \notin Writer \/ pc[t] = "enter" => d = 0)
        /\ t \in Writer => Added(t)' = Added(t) + d
  <2>1. PICK d \in Nat :
          /\ total_sum' = total_sum + d /\ (t \notin Writer \/ pc[t] = "enter" => d = 0)
          /\ t \in Writer => Added(t)' = Added(t) + d
    BY <1>h
  <2>2. AddedByAll' = IF t \in Writer THEN AddedByAll + d ELSE AddedByAll
    BY <1>a, <1>b, <1>f, <2>1, AddedByOne
  <2>3. Counted'
    BY <1>a, <1>b, <1>c, <1>d, <2>1, <2>2 DEF Counted
  <2>4. QED
    BY <1>g, <2>3 DEF CountInv
<1>1. CASE \/ EnterBarrier(t) \/ LeaveBarrier(t) \/ Loop(t) \/ Lock(t) \/ Check(t)
           \/ Load(t) \/ (Unlock(t) /\ t \notin Writer)
  <2>1. total_sum' = total_sum
    BY <1>1 DEF EnterBarrier, LeaveBarrier, Loop, Lock, Check, Load, Unlock
  <2>2. t \in Writer => Added(t)' = Added(t)
    BY <1>1, <1>a, <1>c
    DEF EnterBarrier, LeaveBarrier, Loop, Lock, Check, Load, Added, Halfway, Writer
  <2>3. QED
    BY <1>a, <1>c, <2>1, <2>2, AddedIsNat
<1>2. CASE SyncAdd(t)
  <2>1. Tests[test] = "sync_add"
    BY <1>2, TestsFacts DEF SyncAdd, LockInv, LockTypeOK, Held
  <2>2. t \in Writer
    BY <2>1, TestsFacts DEF LockInv, LockTypeOK, Writer
  <2>3. total_sum' = total_sum + 2 /\ Added(t)' = Added(t) + 2
    BY <1>2, <1>a, <1>c DEF SyncAdd, Delta, Count, Added, Halfway
  <2>4. QED
    BY <1>2, <2>2, <2>3 DEF SyncAdd
<1>3. CASE Store(t)
  <2>1. t \in Writer
    BY <1>3 DEF Store, LockInv, Exclusive, Counting, Writer
  <2>2. load[t] = total_sum
    BY <1>3 DEF Store, LockInv, Parity
  <2>3. total_sum' = total_sum + 1 /\ Added(t)' = Added(t) + 1
    BY <1>3, <1>a, <1>c, <2>2 DEF Store, Added, Halfway
  <2>4. QED
    BY <1>3, <2>1, <2>3 DEF Store
<1>4. CASE Unlock(t) /\ t \in Writer
  <2>1. total_sum' = total_sum /\ Added(t)' = Added(t)
    BY <1>4, <1>a, <1>c DEF Unlock, Count, Added, Halfway
  <2>2. QED
    BY <1>4, <1>a, <1>c, <2>1, AddedIsNat
<1>5. CASE Return(t)
  <2>1. total_sum' = total_sum /\ Added(t)' = Added(t)
    BY <1>5, <1>a, <1>c DEF Return, Added, Halfway
  <2>2. QED
    BY <1>5, <1>a, <1>c, <2>1, AddedIsNat
<1>6. QED
  BY <1>1, <1>2, <1>3, <1>4, <1>5 DEF Adder

\* The steps of main, of which only the start of the wait has something to show.
LEMMA CountStep == StartInv /\ LockInv /\ CountInv /\ [Next]_vars => CountInv'
<1> SUFFICES ASSUME StartInv, LockInv, CountInv, [Next]_vars PROVE CountInv'
  OBVIOUS
<1>1. ASSUME NEW t \in Thread, Adder(t) PROVE CountInv'
  BY <1>1, CountRunStep
<1> USE DEF CountInv, CountTypeOK, Fresh, Counted, StartInv, StartTypeOK, which, locals, shared
<1>2. CASE Create
  <2>1. main = "create" /\ main' \in {"create", "barrier", "error"}
        /\ UNCHANGED <<locals, shared>>
    BY <1>2 DEF Create
  <2> DEFINE t == Min(Thread \ started)
  <2>2. pc' = pc \/ Goto(t, "enter")
    BY <1>2 DEF Create
  <2>3. t \in Thread \ started
    BY <2>1, MinInSet DEF Creating
  <2> HIDE DEF t
  <2>4. \A u \in Thread : pc'[u] = pc[u] \/ (pc'[u] = "enter" /\ pc[u] \in {"none", "ended"})
    BY <2>1, <2>2, <2>3 DEF Goto, Creating
  <2>5. QED
    BY <2>1, <2>4
<1>3. CASE MainBarrier
  <2>1. main = "barrier" /\ main' = "sleep" /\ UNCHANGED <<which, pc, locals, shared>>
    BY <1>3 DEF MainBarrier
  <2>2. \A t \in Thread : pc[t] \in {"enter", "barrier"} /\ sum[t] = 0
    BY <2>1 DEF Creating, Waits
  <2>3. AddedByAll = 0
    <3>1. \A t \in Thread : Added(t) = 0
      BY <2>2 DEF Added, Halfway
    <3>2. QED
      BY <3>1, WriterFacts, AddedByNone
  <2>4. AddedByAll' = AddedByAll
    BY <2>1, Zenon DEF AddedByAll, Added, Writer, Reader, which, locals, shared
  <2>5. QED
    BY <2>1, <2>3, <2>4
<1>4. CASE NextTest
  <2>1. main' = "create" /\ total_sum' = 0 /\ UNCHANGED <<pc, locals, thread_sum>>
    BY <1>4 DEF NextTest
  <2>2. QED
    BY <2>1
<1>5. CASE MainFinish \/ Join \/ MainExit \/ UNCHANGED vars
  <2>1. UNCHANGED <<which, pc, locals, thread_sum, total_sum>>
    BY <1>5 DEF MainFinish, Join, MainExit, vars
  <2>2. \/ main' = main
        \/ main \in {"sleep", "join"} /\ main' \in {"join", "exit"}
    BY <1>5 DEF MainFinish, Join, MainExit, vars
  <2>3. AddedByAll' = AddedByAll
    BY <2>1, Zenon DEF AddedByAll, Added, Writer, Reader, which, locals
  <2>4. QED
    BY <2>1, <2>2, <2>3
<1>6. QED
  BY <1>1, <1>2, <1>3, <1>4, <1>5 DEF Next, Main, Ended

\* When all threads are joined the total that is printed, which they added up together,
\* is the sum of what the writers counted each for itself (lock-test.c:180,
\* rwlock-test.c:196).
THEOREM TotalIsTrue == Spec => []TotalIsSum
<1>1. ASSUME StartInv, CountInv, Joined PROVE total_sum = 2 * SumFunctionOnSet(thread_sum, Writer)
  <2>1. \A t \in Thread : pc[t] = "ended"
    BY <1>1 DEF Joined, StartInv, StartTypeOK, Joining
  <2> DEFINE f == [t \in Thread |-> Added(t)]
  <2>2. \A t \in Writer : thread_sum[t] \in Nat /\ f[t] = 2 * thread_sum[t]
    BY <1>1, <2>1, WriterFacts DEF CountInv, CountTypeOK, Added, Halfway
  <2>3. SumFunctionOnSet(f, Writer) = 2 * SumFunctionOnSet(thread_sum, Writer)
    <3> HIDE DEF f
    <3>1. QED
      BY <2>2, WriterFacts, SumDouble
  <2>4. QED
    BY <1>1, <2>3 DEF CountInv, Counted, AddedByAll, Joined
<1>2. StartInv /\ CountInv => TotalIsSum
  BY <1>1 DEF TotalIsSum
<1>3. QED
  BY StartInit, StartStep, LockInit, LockStep, CountInit, CountStep, <1>2, PTL DEF Spec
=============================================================================
