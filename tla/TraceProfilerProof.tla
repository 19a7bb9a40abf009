-------------------------- MODULE TraceProfilerProof --------------------------
(***************************************************************************)
(* Proofs about TraceProfiler, for any period, any list lengths, and any   *)
(* time that the run takes.                                                *)
(***************************************************************************)
EXTENDS TraceProfiler, TLAPS

\* What is needed of the types.
CoreTypeOK ==
  /\ now \in Nat /\ expires \in Nat /\ pending \in BOOLEAN
  /\ main \in Places
  /\ at \in [Context -> {"idle", "enter", "new", "reduce", "thin", "leave"}]
  /\ count \in Nat /\ total \in Nat /\ warned \in BOOLEAN

\* While the profiler's own code runs in the main flow the timer is stopped, and
\* nothing is left of it: no signal is pending and no handler runs.
Quiet ==
  main \in {"init_sample", "fini_sample", "fini_reduce", "exited", "failed"} =>
    expires = 0 /\ ~ pending /\ at["handler"] = "idle"

\* On the way there the timer is stopped, but a signal of it may still be handled.
Stopped == main = "stopping" => expires = 0

\* Where the main flow is in addSample; elsewhere it is not in it.
InAddSample ==
  /\ main \in {"init_sample", "fini_sample"} => at["main"] # "idle"
  /\ main = "fini_reduce" => at["main"] \in {"reduce", "thin", "leave"}
  /\ main \notin {"init_sample", "fini_sample", "fini_reduce"} => at["main"] = "idle"

\* fini counts its own sample before it takes it.
Counted ==
  /\ main = "fini_sample" =>
       ~ warned /\ total = count + (IF at["main"] = "enter" THEN 1 ELSE 0)
  /\ main \in {"fini_reduce", "exited"} =>
       total = count + (IF warned THEN 1 ELSE 0)
  /\ main \in {"init_sample", "app", "app_malloc", "stopping"} => ~ warned

ProfilerInv == CoreTypeOK /\ Quiet /\ Stopped /\ InAddSample /\ Counted

LEMMA ProfilerInit == Init => ProfilerInv
<1> SUFFICES ASSUME Init PROVE ProfilerInv
  OBVIOUS
<1>1. at["main"] = "enter" /\ at["handler"] = "idle"
  BY DEF Init, Context
<1>2. at \in [Context -> {"idle", "enter", "new", "reduce", "thin", "leave"}]
  BY DEF Init, Context
<1>3. CoreTypeOK
  BY <1>2 DEF Init, CoreTypeOK, Places
<1>4. Quiet /\ Stopped /\ InAddSample /\ Counted
  BY <1>1 DEF Init, Quiet, Stopped, InAddSample, Counted
<1>5. QED
  BY <1>3, <1>4 DEF ProfilerInv

\* The steps of addSample, in the handler or in the main flow.
LEMMA AddSampleStep ==
  ASSUME ProfilerInv, NEW c \in Context, AddSample(c)
  PROVE  ProfilerInv'
<1> USE DEF ProfilerInv, CoreTypeOK, Quiet, Stopped, InAddSample, Counted, Context, Places,
            Goto, Runs, InHandler, clock, flags
<1>1. CASE TakeTime(c)
  <2>1. CASE c = "main" BY <1>1, <2>1 DEF TakeTime
  <2>2. CASE c = "handler" BY <1>1, <2>2 DEF TakeTime
  <2>3. QED BY <2>1, <2>2
<1>2. CASE Push(c)
  <2>1. CASE c = "main" BY <1>2, <2>1 DEF Push
  <2>2. CASE c = "handler" BY <1>2, <2>2 DEF Push
  <2>3. QED BY <2>1, <2>2
<1>3. CASE BeginReduce(c)
  <2>1. CASE c = "main" BY <1>3, <2>1 DEF BeginReduce
  <2>2. CASE c = "handler" BY <1>3, <2>2 DEF BeginReduce
  <2>3. QED BY <2>1, <2>2
<1>4. CASE Thin(c)
  BY <1>4 DEF Thin
<1>5. CASE EndReduce(c)
  <2>1. CASE c = "main" BY <1>5, <2>1 DEF EndReduce
  <2>2. CASE c = "handler" BY <1>5, <2>2 DEF EndReduce
  <2>3. QED BY <2>1, <2>2
<1>6. QED
  BY <1>1, <1>2, <1>3, <1>4, <1>5 DEF AddSample

\* The steps of the signal and of the main flow.
LEMMA ProfilerStep == ProfilerInv /\ [Next]_vars => ProfilerInv'
<1> SUFFICES ASSUME ProfilerInv, [Next]_vars PROVE ProfilerInv'
  OBVIOUS
<1>1. ASSUME NEW c \in Context, AddSample(c) PROVE ProfilerInv'
  BY <1>1, AddSampleStep
<1> USE DEF ProfilerInv, CoreTypeOK, Quiet, Stopped, InAddSample, Counted, Context, Places,
            Goto, MainAt, InHandler, clock, flags, frame
<1>2. CASE Deliver BY <1>2 DEF Deliver
<1>3. CASE HandlerReturns BY <1>3 DEF HandlerReturns
<1>4. CASE StartTimer
  BY <1>4, SamplesAssumption DEF StartTimer
<1>5. CASE InitFails BY <1>5 DEF InitFails
<1>6. CASE AppMalloc BY <1>6 DEF AppMalloc
<1>7. CASE AppMallocReturns BY <1>7 DEF AppMallocReturns
<1>8. CASE AppReturns BY <1>8 DEF AppReturns, Disarm
<1>9. CASE FiniSample BY <1>9 DEF FiniSample, StopReturns
<1>10. CASE FiniReduce
  <2>1. CASE at["main"] = "leave" /\ UNCHANGED warned
    BY <1>10, <2>1 DEF FiniReduce
  <2>2. CASE at["main"] = "enter" /\ warned' = TRUE
    BY <1>10, <2>2 DEF FiniReduce
  <2>3. QED BY <1>10, <2>1, <2>2 DEF FiniReduce
<1>11. CASE Exit BY <1>11 DEF Exit
\* A timer that is stopped, expires = 0, never goes off.
<1>12. CASE Tick
  <2>1. now' \in Nat /\ now' > 0
    BY <1>12 DEF Tick
  <2>2. UNCHANGED <<main, at, count, total, warned>>
    BY <1>12 DEF Tick
  <2>3. CASE now' = expires
    <3>1. expires' \in Nat /\ pending' \in BOOLEAN
      <4>1. expires' = expires + Period
        BY <1>12, <2>3 DEF Tick
      <4>2. pending' = TRUE
        BY <1>12, <2>3 DEF Tick
      <4>3. expires \in Nat /\ Period \in Nat
        BY SamplesAssumption
      <4>4. QED BY <4>1, <4>2, <4>3
    <3>2. main \notin {"init_sample", "fini_sample", "fini_reduce", "exited", "failed", "stopping"}
      BY <2>1, <2>3
    <3>3. QED BY <2>1, <2>2, <3>1, <3>2
  <2>4. CASE now' # expires
    <3>1. UNCHANGED <<expires, pending>>
      BY <1>12, <2>4 DEF Tick
    <3>2. QED BY <2>1, <2>2, <3>1
  <2>5. QED BY <2>3, <2>4
<1>13. CASE UNCHANGED vars BY <1>13 DEF vars
<1>14. QED
  BY <1>1, <1>2, <1>3, <1>4, <1>5, <1>6, <1>7, <1>8, <1>9, <1>10, <1>11, <1>12, <1>13
  DEF Next, Program, Exited, Hung

\* The handler never interrupts the profiler's own code in the main flow, which has no
\* lock (trace.cpp:201-216, 225-241).
THEOREM NeverReentered == Spec => []NoReentry
<1>1. ProfilerInv => NoReentry
  BY DEF ProfilerInv, CoreTypeOK, Places, Quiet, InAddSample, NoReentry, InHandler
<1>2. QED
  BY ProfilerInit, ProfilerStep, <1>1, PTL DEF Spec

\* The number of samples that fini prints before it takes the last one is true
\* (trace.cpp:225-241), unless getcontext failed.
THEOREM TotalIsTrue == Spec => []TotalTrue
<1>1. ProfilerInv => TotalTrue
  BY DEF ProfilerInv, Counted, TotalTrue
<1>2. QED
  BY ProfilerInit, ProfilerStep, <1>1, PTL DEF Spec

-----------------------------------------------------------------------------
(* The list of samples. *)

\* The samples are in the order in which they were taken, from the first ...
Ordered ==
  \A k \in 2 .. Len(sampleList) :
    /\ sampleList[k - 1].count < sampleList[k].count
    /\ sampleList[k - 1].time <= sampleList[k].time
SpanTo(m) ==
  IF m = 0 THEN Len(sampleList) = 0
  ELSE /\ Len(sampleList) > 0 /\ sampleList[1].count = 1
       /\ sampleList[Len(sampleList)].count = m /\ Len(sampleList) <= m

\* ... to the last, which may still be on its way into the list.
New == \E c \in Context : at[c] = "new"
Spans == IF New THEN count > 0 /\ SpanTo(count - 1) ELSE SpanTo(count)

\* The list does not go beyond the time.
InTime ==
  /\ Len(sampleList) > 0 => sampleList[Len(sampleList)].time <= now
  /\ \A c \in Context : at[c] = "new" =>
       /\ time[c] <= now
       /\ Len(sampleList) > 0 => sampleList[Len(sampleList)].time <= time[c]

\* While the list is thinned out: what was kept is delta apart, so from the last of
\* it back to the start there are that many deltas, and the whole is hardly longer
\* than MinSamples of them.
Thinned(c) ==
  /\ it[c] = keep[c] + 1 /\ keep[c] > 0 /\ it[c] <= Len(sampleList)
  /\ \A k \in 2 .. keep[c] : sampleList[k].time >= sampleList[k - 1].time + delta[c]
  /\ sampleList[keep[c]].time >= (keep[c] - 1) * delta[c]
  /\ sampleList[Len(sampleList)].time < MinSamples * delta[c] + MinSamples
  /\ CoarseEnough /\ Len(sampleList) > MaxSamples => delta[c] >= MinSamples
ThinInv == \A c \in Context : at[c] = "thin" => Thinned(c)

\* A list that is too long is being reduced.
Sized ==
  CoarseEnough /\ (\A c \in Context : at[c] \notin {"reduce", "thin"}) =>
    Len(sampleList) <= MaxSamples

\* A sample in the handler takes a period of the timer: Due are those that are to come
\* for the times that it went off.  Those of init and fini take none.
Due == (IF pending THEN 1 ELSE 0) + (IF at["handler"] = "enter" THEN 1 ELSE 0)
ByFini ==
  IF main \in {"init_sample", "app", "app_malloc", "stopping"} THEN 0
  ELSE IF main = "fini_sample" /\ at["main"] = "enter" THEN 0 ELSE 1
Started == main = "init_sample" => count = IF at["main"] = "enter" THEN 0 ELSE 1
Ticks(n) == n * Period
Shots == count + Due
ByTimer == Shots - 1 - ByFini
Paced ==
  /\ expires > 0 => now < expires /\ Ticks(Shots) <= expires
  /\ Ticks(ByTimer) <= now

ListInv == Ordered /\ Spans /\ InTime /\ ThinInv /\ Sized /\ Started /\ Paced
SampleInv == ProfilerInv /\ TypeOK /\ ListInv

-----------------------------------------------------------------------------
(* Arithmetic. *)

\* What \div is for a positive divisor.
LEMMA Division ==
  ASSUME NEW a \in Nat, NEW b \in Nat \ {0}
  PROVE  /\ a \div b \in Nat /\ a \div b <= a
         /\ a < b * (a \div b) + b
OBVIOUS

LEMMA AtLeast ==
  ASSUME NEW a \in Nat, NEW b \in Nat \ {0}, a >= b * b
  PROVE  a \div b >= b
OBVIOUS

LEMMA OneMore == \A a, b \in Int : (a + 1) * b = a * b + b /\ a * b \in Int
OBVIOUS

LEMMA Monotone ==
  ASSUME NEW a \in Nat, NEW b \in Int, NEW c \in Int, b <= c
  PROVE  b * a <= c * a
OBVIOUS

LEMMA TicksAre ==
  /\ \A a \in Int : Ticks(a) \in Int /\ Ticks(a + 1) = Ticks(a) + Period
  /\ \A a, b \in Int : a <= b => Ticks(a) <= Ticks(b)
<1>1. Period \in Nat
  BY SamplesAssumption
<1>2. ASSUME NEW a \in Int PROVE Ticks(a) \in Int /\ Ticks(a + 1) = Ticks(a) + Period
  BY <1>1 DEF Ticks
<1>3. ASSUME NEW a \in Int, NEW b \in Int, a <= b PROVE Ticks(a) <= Ticks(b)
  BY <1>1, <1>3 DEF Ticks
<1> QED
  BY <1>2, <1>3

-----------------------------------------------------------------------------
(* The steps.  First those that leave the list alone. *)

LEMMA SampleTypes ==
  ASSUME TypeOK
  PROVE  /\ Len(sampleList) \in Nat /\ now \in Nat /\ now \in Int
         /\ \A k \in 1 .. Len(sampleList) :
              /\ sampleList[k] \in Samples
              /\ sampleList[k].count \in Nat
              /\ sampleList[k].time \in 0 .. MaxTime /\ sampleList[k].time \in Nat
<1>1. sampleList \in Seq(Samples) /\ now \in 0 .. MaxTime /\ MaxTime \in Nat
  BY SamplesAssumption DEF TypeOK
<1>2. ASSUME NEW k \in 1 .. Len(sampleList)
      PROVE  /\ sampleList[k] \in Samples
             /\ sampleList[k].count \in Nat
             /\ sampleList[k].time \in 0 .. MaxTime /\ sampleList[k].time \in Nat
  <2>1. sampleList[k] \in Samples
    BY <1>1
  <2> QED
    BY <1>1, <2>1 DEF Samples
<1> QED
  BY <1>1, <1>2

LEMMA OneInside ==
  ASSUME ProfilerInv, NEW c \in Context, at[c] # "idle", NEW d \in Context, d # c
  PROVE  at[d] = "idle"
BY DEF ProfilerInv, CoreTypeOK, Quiet, InAddSample, Context, Places

\* Nobody comes into addSample or out of it.
Around ==
  /\ UNCHANGED <<sampleList, count>> /\ now <= now' /\ now' \in 0 .. MaxTime
  /\ \A c \in Context :
       /\ (at'[c] = "new") = (at[c] = "new")
       /\ at[c] \in {"reduce", "thin"} => at'[c] \in {"reduce", "thin"}
       /\ at'[c] = "thin" => at[c] = "thin"
       /\ at'[c] \in {"new", "thin"} =>
            /\ time'[c] = time[c] /\ keep'[c] = keep[c] /\ it'[c] = it[c]
            /\ delta'[c] = delta[c]

LEMMA AroundKeeps ==
  ASSUME SampleInv, Around
  PROVE  Ordered' /\ Spans' /\ InTime' /\ ThinInv' /\ Sized'
<1> USE DEF SampleInv, ListInv
<1>1. Ordered'
  BY DEF Around, Ordered
<1>2. Spans'
  BY DEF Around, Spans, SpanTo, New
<1>3. InTime'
  <2>1. now \in Nat /\ now' \in Nat /\ sampleList \in Seq(Samples) /\ sampleList' = sampleList
    BY SamplesAssumption DEF TypeOK, Around
  <2>2. ASSUME Len(sampleList) > 0
        PROVE  sampleList[Len(sampleList)].time <= now'
    <3>1. sampleList[Len(sampleList)].time \in Nat
      BY <2>2, SampleTypes
    <3> QED
      BY <2>1, <2>2, <3>1 DEF InTime, Around
  <2>3. ASSUME NEW c \in Context, at'[c] = "new"
        PROVE  time'[c] <= now'
    <3>1. time[c] \in 0 .. MaxTime
      BY DEF TypeOK
    <3> QED
      BY <2>1, <2>3, <3>1, SamplesAssumption DEF InTime, Around
  <2>4. ASSUME NEW c \in Context, at'[c] = "new", Len(sampleList) > 0
        PROVE  sampleList[Len(sampleList)].time <= time'[c]
    BY <2>4 DEF InTime, Around
  <2> QED
    BY <2>1, <2>2, <2>3, <2>4 DEF InTime
<1>4. ThinInv'
  BY DEF Around, ThinInv, Thinned, CoarseEnough
<1>5. Sized'
  BY DEF Around, Sized, CoarseEnough
<1> QED
  BY <1>1, <1>2, <1>3, <1>4, <1>5

\* The pace holds as long as nothing more comes in.
LEMMA PaceTypes ==
  ASSUME TypeOK
  PROVE  /\ Shots \in Int /\ ByTimer \in Int
         /\ now \in Nat /\ expires \in Nat /\ count \in Nat
BY SamplesAssumption DEF TypeOK, Due, ByFini, Shots, ByTimer

LEMMA PaceTypesNext ==
  ASSUME TypeOK'
  PROVE  /\ Shots' \in Int /\ ByTimer' \in Int
         /\ now' \in Nat /\ expires' \in Nat /\ count' \in Nat
BY SamplesAssumption DEF TypeOK, Due, ByFini, Shots, ByTimer

LEMMA PaceKeeps ==
  ASSUME SampleInv, TypeOK', Shots' <= Shots \/ expires' = 0, ByTimer' <= ByTimer,
         now <= now', expires' = 0 \/ (expires' = expires /\ now' < expires)
  PROVE  Paced'
<1>1. PICK s \in Int, b \in Int : s = Shots /\ b = ByTimer
  BY PaceTypes DEF SampleInv
<1>2. PICK t \in Int, c \in Int : t = Shots' /\ c = ByTimer'
  BY PaceTypesNext
<1>3. /\ now \in Nat /\ expires \in Nat /\ now' \in Nat /\ expires' \in Nat
  BY PaceTypes, PaceTypesNext DEF SampleInv
<1>4. /\ expires > 0 => now < expires /\ Ticks(s) <= expires
      /\ Ticks(b) <= now
  BY <1>1 DEF SampleInv, ListInv, Paced
<1>5. /\ expires' # 0 => Ticks(t) <= Ticks(s)
      /\ Ticks(c) <= Ticks(b) /\ Ticks(t) \in Int /\ Ticks(s) \in Int
      /\ Ticks(c) \in Int /\ Ticks(b) \in Int
  BY <1>1, <1>2, TicksAre
<1>6. Ticks(c) <= now'
  BY <1>3, <1>4, <1>5
<1>7. ASSUME expires' > 0 PROVE now' < expires' /\ Ticks(t) <= expires'
  BY <1>3, <1>4, <1>5, <1>7
<1>8. Ticks(c) = Ticks(ByTimer)' /\ Ticks(t) = Ticks(Shots)'
  BY <1>2 DEF Ticks
<1> QED
  BY <1>6, <1>7, <1>8 DEF Paced

LEMMA DeliverKeeps ==
  ASSUME SampleInv, ProfilerInv', Deliver
  PROVE  SampleInv'
<1> USE DEF SampleInv, TypeOK
<1>1. /\ pending /\ at["handler"] = "idle" /\ at' = [at EXCEPT !["handler"] = "enter"]
      /\ pending' = FALSE
      /\ UNCHANGED <<now, expires, main, time, keep, it, delta, sampleList, count, total, flags>>
  BY DEF Deliver, InHandler, Goto
<1>2. TypeOK'
  BY <1>1 DEF flags
<1>3. Around
  BY <1>1, SamplesAssumption DEF Around
<1>4. Shots' <= Shots /\ ByTimer' <= ByTimer
  BY <1>1 DEF Shots, ByTimer, Due, ByFini, Context
<1>5. Paced'
  <2>1. expires' = 0 \/ (expires' = expires /\ now' < expires)
    BY <1>1 DEF ListInv, Paced
  <2>2. now <= now'
    BY <1>1, SamplesAssumption
  <2> QED
    BY <1>2, <1>4, <2>1, <2>2, PaceKeeps
<1>6. Started'
  BY <1>1 DEF ListInv, Started, Context
<1> QED
  BY <1>2, <1>3, <1>5, <1>6, AroundKeeps DEF ListInv

\* The locals of a call that returns.
LEMMA ForgetTypes ==
  ASSUME TypeOK, NEW c \in Context, Forget(c)
  PROVE  /\ time' \in [Context -> 0 .. MaxTime]
         /\ keep' \in [Context -> Nat] /\ it' \in [Context -> Nat]
         /\ delta' \in [Context -> 0 .. MaxTime]
         /\ \A d \in Context : d # c =>
              time'[d] = time[d] /\ keep'[d] = keep[d] /\ it'[d] = it[d] /\ delta'[d] = delta[d]
BY SamplesAssumption DEF TypeOK, Forget

\* A call of addSample returns, or is followed by one of reduceSampleList alone.
LEMMA ReturnKeeps ==
  ASSUME SampleInv, NEW c \in Context, Forget(c), at[c] \in {"enter", "leave"},
         NEW label \in {"idle", "reduce"}, at' = [at EXCEPT ![c] = label],
         main' \in Places, expires' \in Nat, warned' \in BOOLEAN,
         UNCHANGED <<now, pending, sampleList, count, total>>
  PROVE  TypeOK' /\ Around
<1>1. TypeOK'
  BY ForgetTypes DEF SampleInv, TypeOK
<1>2. now <= now' /\ now' \in 0 .. MaxTime
  BY SamplesAssumption DEF SampleInv, TypeOK
<1>3. ASSUME NEW d \in Context
      PROVE  /\ (at'[d] = "new") = (at[d] = "new")
             /\ at[d] \in {"reduce", "thin"} => at'[d] \in {"reduce", "thin"}
             /\ at'[d] = "thin" => at[d] = "thin"
             /\ at'[d] \in {"new", "thin"} => d # c
  BY DEF SampleInv, TypeOK
<1> QED
  BY <1>1, <1>2, <1>3, ForgetTypes DEF Around, SampleInv

LEMMA Steady == SampleInv => (expires = 0 \/ now < expires) /\ now <= now
BY PaceTypes DEF SampleInv, ListInv, Paced

LEMMA HandlerReturnsKeeps ==
  ASSUME SampleInv, ProfilerInv', HandlerReturns
  PROVE  SampleInv'
<1>1. /\ at["handler"] = "leave" /\ at' = [at EXCEPT !["handler"] = "idle"]
      /\ Forget("handler")
      /\ UNCHANGED <<now, expires, pending, main, sampleList, count, total, warned>>
  BY DEF HandlerReturns, Goto, clock, flags
<1>2. TypeOK' /\ Around
  <2>1. "handler" \in Context /\ main' \in Places /\ expires' \in Nat /\ warned' \in BOOLEAN
    BY <1>1 DEF SampleInv, TypeOK, Context
  <2> QED
    BY <1>1, <2>1, ReturnKeeps
<1>3. Started' /\ Shots' <= Shots /\ ByTimer' <= ByTimer
  BY <1>1, SamplesAssumption
  DEF SampleInv, ListInv, TypeOK, Started, Shots, ByTimer, Due, ByFini, Context
<1>4. Paced'
  BY <1>1, <1>2, <1>3, Steady, PaceKeeps
<1> QED
  BY <1>2, <1>3, <1>4, AroundKeeps DEF SampleInv, ListInv

\* The timer starts after the first sample.
LEMMA StartTimerKeeps ==
  ASSUME SampleInv, ProfilerInv', StartTimer
  PROVE  SampleInv'
<1>1. /\ main = "init_sample" /\ at["main"] = "leave" /\ at["handler"] = "idle"
      /\ at' = [at EXCEPT !["main"] = "idle"]
      /\ Forget("main") /\ expires' = now + Period /\ main' = "app"
      /\ UNCHANGED <<now, pending, sampleList, count, total, warned>>
  BY DEF StartTimer, MainAt, InHandler, Goto, flags
<1>2. now \in Nat /\ Period \in Nat \ {0} /\ count = 1 /\ ~ pending
  BY <1>1, PaceTypes, SamplesAssumption
  DEF SampleInv, ListInv, Started, ProfilerInv, Quiet
<1>3. TypeOK' /\ Around
  <2>1. "main" \in Context /\ main' \in Places /\ expires' \in Nat /\ warned' \in BOOLEAN
    BY <1>1, <1>2 DEF SampleInv, TypeOK, Context, Places
  <2> QED
    BY <1>1, <2>1, ReturnKeeps
<1>4. Shots' = 1 /\ ByTimer' = 0
  <2>1. at'["handler"] = "idle"
    BY <1>1 DEF SampleInv, TypeOK, Context
  <2> QED
    BY <1>1, <1>2, <2>1 DEF Shots, ByTimer, Due, ByFini
<1>5. Paced'
  <2>1. Ticks(1) = Period /\ Ticks(0) = 0
    BY <1>2 DEF Ticks
  <2>2. Ticks(Shots') = Period /\ Ticks(ByTimer') = 0
    BY <1>4, <2>1
  <2>3. now' < expires' /\ Period <= expires' /\ 0 <= now'
    BY <1>1, <1>2
  <2> QED
    BY <2>2, <2>3 DEF Paced, Ticks
<1>6. Started'
  BY <1>1 DEF Started
<1> QED
  BY <1>3, <1>5, <1>6, AroundKeeps DEF SampleInv, ListInv

LEMMA InitFailsKeeps ==
  ASSUME SampleInv, ProfilerInv', InitFails
  PROVE  SampleInv'
<1>1. /\ main = "init_sample" /\ at["main"] \in {"enter", "leave"}
      /\ at' = [at EXCEPT !["main"] = "idle"]
      /\ Forget("main") /\ main' = "failed"
      /\ UNCHANGED <<now, expires, pending, sampleList, count, total, warned>>
  BY DEF InitFails, Goto, clock, flags
<1>2. TypeOK' /\ Around
  <2>1. "main" \in Context /\ main' \in Places /\ expires' \in Nat /\ warned' \in BOOLEAN
    BY <1>1 DEF SampleInv, TypeOK, Context, Places
  <2> QED
    BY <1>1, <2>1, ReturnKeeps
<1>3. Started' /\ Shots' <= Shots /\ ByTimer' <= ByTimer
  BY <1>1, SamplesAssumption
  DEF SampleInv, TypeOK, Started, Shots, ByTimer, Due, ByFini, Context
<1>4. Paced'
  BY <1>1, <1>2, <1>3, Steady, PaceKeeps
<1> QED
  BY <1>2, <1>3, <1>4, AroundKeeps DEF SampleInv, ListInv

\* The steps of the application.
LEMMA AppKeeps ==
  ASSUME SampleInv, ProfilerInv', AppMalloc \/ AppMallocReturns \/ AppReturns
  PROVE  SampleInv'
<1>1. /\ main \in {"app", "app_malloc"} /\ main' \in {"app", "app_malloc", "stopping"}
      /\ expires' = expires \/ expires' = 0
      /\ UNCHANGED <<now, pending, at, time, keep, it, delta, sampleList, count, total, warned>>
  BY DEF AppMalloc, AppMallocReturns, AppReturns, Disarm, MainAt, frame, clock, flags
<1>2. TypeOK' /\ Around
  BY <1>1, SamplesAssumption DEF SampleInv, TypeOK, Around, Places
<1>3. Started' /\ Shots' <= Shots /\ ByTimer' <= ByTimer
  BY <1>1, SamplesAssumption DEF SampleInv, TypeOK, Started, Shots, ByTimer, Due, ByFini
<1>4. Paced'
  BY <1>1, <1>2, <1>3, Steady, PaceKeeps
<1> QED
  BY <1>2, <1>3, <1>4, AroundKeeps DEF SampleInv, ListInv

LEMMA FiniSampleKeeps ==
  ASSUME SampleInv, ProfilerInv', FiniSample
  PROVE  SampleInv'
<1>1. /\ main = "stopping" /\ main' = "fini_sample" /\ at' = [at EXCEPT !["main"] = "enter"]
      /\ total' = count + 1
      /\ UNCHANGED <<now, expires, pending, time, keep, it, delta, sampleList, count, warned>>
  BY DEF FiniSample, MainAt, Goto, clock, flags
<1>2. at["main"] = "idle"
  BY <1>1 DEF SampleInv, ProfilerInv, InAddSample
<1>3. TypeOK'
  <2>1. total' \in Nat /\ main' \in Places
    BY <1>1 DEF SampleInv, TypeOK, Places
  <2> QED
    BY <1>1, <2>1 DEF SampleInv, TypeOK
<1>4. Around
  BY <1>1, <1>2, SamplesAssumption DEF SampleInv, TypeOK, Around
<1>5. Started' /\ Shots' <= Shots /\ ByTimer' <= ByTimer
  BY <1>1, SamplesAssumption DEF SampleInv, TypeOK, Started, Shots, ByTimer, Due, ByFini, Context
<1>6. Paced'
  BY <1>1, <1>3, <1>5, Steady, PaceKeeps
<1> QED
  BY <1>3, <1>4, <1>5, <1>6, AroundKeeps DEF SampleInv, ListInv

LEMMA FiniReduceKeeps ==
  ASSUME SampleInv, ProfilerInv', FiniReduce
  PROVE  SampleInv'
<1>1. /\ main = "fini_sample" /\ at["main"] \in {"enter", "leave"} /\ warned' \in BOOLEAN
      /\ main' = "fini_reduce" /\ at' = [at EXCEPT !["main"] = "reduce"]
      /\ Forget("main")
      /\ UNCHANGED <<now, expires, pending, sampleList, count, total>>
  BY DEF FiniReduce, MainAt, Goto, clock, SampleInv, TypeOK
<1>2. TypeOK' /\ Around
  <2>1. "main" \in Context /\ main' \in Places /\ expires' \in Nat
    BY <1>1 DEF SampleInv, TypeOK, Context, Places
  <2> QED
    BY <1>1, <2>1, ReturnKeeps
<1>3. Started' /\ Shots' <= Shots /\ ByTimer' <= ByTimer
  BY <1>1, SamplesAssumption
  DEF SampleInv, TypeOK, Started, Shots, ByTimer, Due, ByFini, Context
<1>4. Paced'
  BY <1>1, <1>2, <1>3, Steady, PaceKeeps
<1> QED
  BY <1>2, <1>3, <1>4, AroundKeeps DEF SampleInv, ListInv

LEMMA ExitKeeps ==
  ASSUME SampleInv, ProfilerInv', Exit
  PROVE  SampleInv'
<1>1. /\ main = "fini_reduce" /\ at["main"] = "leave"
      /\ main' = "exited" /\ at' = [at EXCEPT !["main"] = "idle"]
      /\ Forget("main")
      /\ UNCHANGED <<now, expires, pending, sampleList, count, total, warned>>
  BY DEF Exit, MainAt, Goto, clock, flags
<1>2. TypeOK' /\ Around
  <2>1. "main" \in Context /\ main' \in Places /\ expires' \in Nat /\ warned' \in BOOLEAN
    BY <1>1 DEF SampleInv, TypeOK, Context, Places
  <2> QED
    BY <1>1, <2>1, ReturnKeeps
<1>3. Started' /\ Shots' <= Shots /\ ByTimer' <= ByTimer
  BY <1>1, SamplesAssumption
  DEF SampleInv, TypeOK, Started, Shots, ByTimer, Due, ByFini, Context
<1>4. Paced'
  BY <1>1, <1>2, <1>3, Steady, PaceKeeps
<1> QED
  BY <1>2, <1>3, <1>4, AroundKeeps DEF SampleInv, ListInv

\* When the timer goes off a period has passed since it did before.
LEMMA TickKeeps ==
  ASSUME SampleInv, ProfilerInv', Tick
  PROVE  SampleInv'
<1>1. /\ now < MaxTime /\ now' = now + 1 /\ now \in Nat /\ expires \in Nat
      /\ UNCHANGED <<main, at, time, keep, it, delta, sampleList, count, total, warned>>
  BY PaceTypes DEF Tick, frame, flags, SampleInv
<1>2. Period \in Nat \ {0} /\ MaxTime \in Nat
  BY SamplesAssumption
<1>3. Around
  BY <1>1, <1>2 DEF Around
<1>4. Started' /\ ByFini' = ByFini
  BY <1>1 DEF SampleInv, ListInv, Started, ByFini
<1>5. CASE now' # expires
  <2>1. expires' = expires /\ pending' = pending
    BY <1>5 DEF Tick
  <2>2. TypeOK'
    BY <1>1, <1>2, <2>1 DEF SampleInv, TypeOK
  <2>3. Shots' <= Shots /\ ByTimer' <= ByTimer
    BY <1>1, <2>1 DEF SampleInv, TypeOK, Shots, ByTimer, Due, ByFini
  <2>4. now <= now' /\ (expires = 0 \/ now' < expires)
    BY <1>1, <1>5, Steady
  <2>5. Paced'
    BY <2>1, <2>2, <2>3, <2>4, PaceKeeps
  <2> QED
    BY <1>3, <1>4, <2>2, <2>5, AroundKeeps DEF SampleInv, ListInv
<1>6. CASE now' = expires
  <2>1. expires' = expires + Period /\ pending' = TRUE
    BY <1>6 DEF Tick
  <2>2. TypeOK'
    BY <1>1, <1>2, <2>1 DEF SampleInv, TypeOK
  <2>3. PICK s \in Int, t \in Int, c \in Int : s = Shots /\ t = Shots' /\ c = ByTimer'
    BY PaceTypes, PaceTypesNext, <2>2 DEF SampleInv
  <2>4. t <= s + 1 /\ c <= t - 1
    BY <1>1, <2>1, <2>3 DEF SampleInv, TypeOK, Shots, ByTimer, Due, ByFini
  <2>5. expires > 0 /\ Ticks(s) <= expires
    BY <1>1, <1>6, <2>3 DEF SampleInv, ListInv, Paced
  <2>6. /\ Ticks(s + 1) = Ticks(s) + Period /\ Ticks(s) \in Int /\ Ticks(s + 1) \in Int
        /\ Ticks(t) <= Ticks(s + 1) /\ Ticks(t) \in Int
        /\ Ticks(c) <= Ticks(s) /\ Ticks(c) \in Int
    <3>1. c <= s /\ s + 1 \in Int
      BY <2>4
    <3> QED
      BY <2>3, <2>4, <3>1, TicksAre
  <2>7. now' < expires' /\ Ticks(t) <= expires' /\ Ticks(c) <= now'
    BY <1>1, <1>2, <1>6, <2>1, <2>5, <2>6
  <2>8. Ticks(c) = Ticks(ByTimer)' /\ Ticks(t) = Ticks(Shots)'
    BY <2>3 DEF Ticks
  <2>9. Paced'
    BY <2>7, <2>8 DEF Paced
  <2> QED
    BY <1>3, <1>4, <2>2, <2>9, AroundKeeps DEF SampleInv, ListInv
<1> QED
  BY <1>5, <1>6

-----------------------------------------------------------------------------
(* The steps of addSample. *)

\* Where the one context that is inside of it goes.
Moves(c, label) ==
  /\ at' = [at EXCEPT ![c] = label] /\ \A d \in Context : d # c => at[d] = "idle"
  /\ UNCHANGED <<now, expires, pending, main, total, warned>>

LEMMA MovesAt ==
  ASSUME SampleInv, NEW c \in Context, NEW label, Moves(c, label)
  PROVE  /\ at'[c] = label /\ \A d \in Context : d # c => at'[d] = "idle" /\ at[d] = "idle"
         /\ \A d \in Context : (at'[d] \notin {"idle", "enter"} => d = c)
BY DEF Moves, SampleInv, TypeOK

\* Within addSample the pace and the beginning do not change.
LEMMA MovesPace ==
  ASSUME SampleInv, TypeOK', NEW c \in Context, NEW label \in {"reduce", "thin", "leave"},
         Moves(c, label), at[c] \in {"new", "reduce", "thin"}, count' = count
  PROVE  Started' /\ Paced'
<1>1. at'[c] = label /\ \A d \in Context : d # c => at'[d] = "idle" /\ at[d] = "idle"
  BY MovesAt
<1>2. /\ at'["handler"] # "enter" /\ at["handler"] # "enter"
      /\ at'["main"] # "enter" /\ at["main"] # "enter"
  BY <1>1 DEF Context
<1>3. UNCHANGED <<now, expires, pending, main>>
  BY DEF Moves
<1>4. Started' /\ Shots' <= Shots /\ ByTimer' <= ByTimer
  BY <1>2, <1>3, SamplesAssumption
  DEF SampleInv, ListInv, TypeOK, Started, Shots, ByTimer, Due, ByFini
<1>5. Paced'
  BY <1>3, <1>4, Steady, PaceKeeps
<1> QED
  BY <1>4, <1>5

LEMMA TakeTimeKeeps ==
  ASSUME SampleInv, ProfilerInv', NEW c \in Context, TakeTime(c)
  PROVE  SampleInv'
<1>1. /\ at[c] = "enter" /\ time' = [time EXCEPT ![c] = now] /\ count' = count + 1
      /\ Moves(c, "new") /\ UNCHANGED <<keep, it, delta, sampleList>>
  <2>1. /\ at[c] = "enter" /\ time' = [time EXCEPT ![c] = now] /\ count' = count + 1
        /\ at' = [at EXCEPT ![c] = "new"]
        /\ UNCHANGED <<now, expires, pending, main, keep, it, delta, sampleList, total, warned>>
    BY DEF TakeTime, Goto, clock, flags
  <2>2. \A d \in Context : d # c => at[d] = "idle"
    BY <2>1, OneInside DEF SampleInv
  <2> QED
    BY <2>1, <2>2 DEF Moves
<1>2. at'[c] = "new" /\ \A d \in Context : d # c => at'[d] = "idle" /\ at[d] = "idle"
  BY <1>1, MovesAt
<1>3. UNCHANGED <<now, expires, pending, main, total, warned>>
      /\ at' = [at EXCEPT ![c] = "new"]
  BY <1>1 DEF Moves
<1>4. /\ now \in Nat /\ count \in Nat /\ Len(sampleList) \in Nat
      /\ \A d \in Context : at[d] # "new"
  BY <1>1, <1>2, SampleTypes DEF SampleInv, TypeOK
<1>5. TypeOK'
  BY <1>1, <1>3, <1>4, SamplesAssumption DEF SampleInv, TypeOK
<1>6. Ordered'
  BY <1>1 DEF SampleInv, ListInv, Ordered
<1>7. Spans'
  <2>1. SpanTo(count) /\ New'
    BY <1>2, <1>4 DEF SampleInv, ListInv, Spans, New
  <2>2. count' > 0 /\ count' - 1 = count
    BY <1>1, <1>4
  <2> QED
    BY <1>1, <2>1, <2>2 DEF Spans, SpanTo
<1>8. InTime'
  <2>1. \A d \in Context : at'[d] = "new" => time'[d] = now
    BY <1>1, <1>2 DEF SampleInv, TypeOK
  <2> QED
    BY <1>1, <1>3, <1>4, <2>1 DEF SampleInv, ListInv, InTime
<1>9. ThinInv'
  BY <1>2 DEF ThinInv
<1>10. Sized'
  <2>1. \A d \in Context : at[d] \notin {"reduce", "thin"}
    BY <1>1, <1>2
  <2> QED
    BY <1>1, <2>1 DEF SampleInv, ListInv, Sized, CoarseEnough
<1>11. /\ at'["handler"] # "enter" /\ at'["main"] # "enter"
       /\ (at["handler"] = "enter" /\ at["main"] # "enter" /\ c = "handler")
          \/ (at["main"] = "enter" /\ at["handler"] # "enter" /\ c = "main")
  BY <1>1, <1>2 DEF Context
<1>12. Started'
  BY <1>3, <1>4, <1>11, <1>1, SamplesAssumption
  DEF SampleInv, ListInv, Started, ProfilerInv, Quiet
<1>13. Paced'
  <2>1. c = "main" => main \in {"init_sample", "fini_sample"} /\ expires = 0 /\ ~ pending
    BY <1>1 DEF SampleInv, ProfilerInv, CoreTypeOK, Quiet, InAddSample, Places
  <2>2. CASE c = "main" /\ main = "init_sample"
    <3>1. count = 0 /\ expires' = 0 /\ now' \in Nat
      BY <1>1, <1>3, <1>4, <2>1, <2>2 DEF SampleInv, ListInv, Started
    <3>2. ByTimer' = 0
      BY <1>1, <1>3, <1>11, <2>1, <2>2, <3>1 DEF ByTimer, Shots, Due, ByFini
    <3>3. Ticks(0) = 0
      BY SamplesAssumption DEF Ticks
    <3>4. Ticks(ByTimer') = 0
      BY <3>2, <3>3
    <3> QED
      BY <3>1, <3>4 DEF Paced, Ticks
  <2>3. CASE c = "main" /\ main = "fini_sample"
    <3>1. ByTimer' <= ByTimer
      BY <2>3, <1>1, <1>3, <1>4, <1>11, <2>1 DEF ByTimer, Shots, Due, ByFini
    <3> QED
      BY <1>3, <1>5, <2>1, <2>3, <3>1, Steady, PaceKeeps
  <2>4. CASE c = "handler"
    <3>1. main \in Places /\ at["main"] # "enter" /\ pending \in BOOLEAN
      BY <2>4, <1>11 DEF SampleInv, TypeOK
    <3>2. Shots' <= Shots
      BY <3>1, <2>4, <1>1, <1>3, <1>4, <1>11 DEF Shots, Due
    <3>3. ByTimer' <= ByTimer
      BY <3>1, <2>4, <1>1, <1>3, <1>4, <1>11 DEF ByTimer, Shots, Due, ByFini
    <3> QED
      BY <1>3, <1>5, <3>2, <3>3, Steady, PaceKeeps
  <2> QED
    BY <2>1, <2>2, <2>3, <2>4 DEF Context
<1> QED
  BY <1>5, <1>6, <1>7, <1>8, <1>9, <1>10, <1>12, <1>13 DEF SampleInv, ListInv

LEMMA PushKeeps ==
  ASSUME SampleInv, ProfilerInv', NEW c \in Context, Push(c)
  PROVE  SampleInv'
<1> DEFINE n == Len(sampleList)
           s == [count |-> count, time |-> time[c]]
           label == IF n + 1 > MaxSamples THEN "reduce" ELSE "leave"
<1>1. /\ at[c] = "new" /\ sampleList' = Append(sampleList, s)
      /\ Moves(c, label) /\ UNCHANGED <<time, keep, it, delta, count>>
  <2>1. /\ at[c] = "new" /\ sampleList' = Append(sampleList, s)
        /\ at' = [at EXCEPT ![c] = label]
        /\ UNCHANGED <<now, expires, pending, main, time, keep, it, delta, count, total, warned>>
    BY DEF Push, Goto, clock, flags
  <2>2. \A d \in Context : d # c => at[d] = "idle"
    BY <2>1, OneInside DEF SampleInv
  <2> QED
    BY <2>1, <2>2 DEF Moves
<1>2. label \in {"reduce", "leave"}
  OBVIOUS
<1>3. /\ time[c] \in 0 .. MaxTime /\ MaxTime \in Nat /\ MaxSamples \in Nat
      /\ count \in Nat /\ sampleList \in Seq(Samples)
  BY SamplesAssumption DEF SampleInv, TypeOK
<1>4. /\ n \in Nat /\ now \in Nat
      /\ \A k \in 1 .. n : sampleList[k].count \in Nat /\ sampleList[k].time \in Nat
  BY SampleTypes DEF SampleInv
<1>5. s \in Samples /\ s.count = count /\ s.time = time[c]
  BY <1>3 DEF Samples
<1>6. /\ sampleList' \in Seq(Samples) /\ Len(sampleList') = n + 1
      /\ sampleList'[n + 1] = s
      /\ \A k \in 1 .. n : sampleList'[k] = sampleList[k]
  BY <1>1, <1>3, <1>5
<1>7. /\ count > 0 /\ SpanTo(count - 1)
      /\ time[c] <= now /\ (n > 0 => sampleList[n].time <= time[c])
  BY <1>1 DEF SampleInv, ListInv, Spans, New, InTime
<1>8. /\ at'[c] = label /\ \A d \in Context : d # c => at'[d] = "idle"
      /\ UNCHANGED <<now, expires, pending, main, total, warned>>
      /\ at' = [at EXCEPT ![c] = label]
  BY <1>1, MovesAt DEF Moves
<1> HIDE DEF s, label
<1>9. TypeOK'
  BY <1>1, <1>2, <1>6, <1>8 DEF SampleInv, TypeOK
<1>10. n > 0 => sampleList[n].count = count - 1
  BY <1>3, <1>4, <1>7 DEF SpanTo
<1>11. Ordered'
  <2>1. ASSUME NEW k \in 2 .. n + 1
        PROVE  /\ sampleList'[k - 1].count < sampleList'[k].count
               /\ sampleList'[k - 1].time <= sampleList'[k].time
    <3>1. CASE k <= n
      <4>1. k \in 2 .. n /\ k \in 1 .. n /\ k - 1 \in 1 .. n
        BY <3>1, <1>4
      <4>2. sampleList'[k] = sampleList[k] /\ sampleList'[k - 1] = sampleList[k - 1]
        BY <4>1, <1>6
      <4> QED
        BY <4>1, <4>2 DEF SampleInv, ListInv, Ordered
    <3>2. CASE k = n + 1
      <4>1. n \in 1 .. n /\ n > 0 /\ k - 1 = n
        BY <3>2, <1>4
      <4>2. sampleList'[k] = s /\ sampleList'[k - 1] = sampleList[n]
        BY <3>2, <4>1, <1>6
      <4>3. sampleList[n].count = count - 1 /\ sampleList[n].time <= time[c]
        BY <4>1, <1>7, <1>10
      <4> QED
        BY <4>2, <4>3, <1>3, <1>5
    <3> QED
      BY <3>1, <3>2, <1>4
  <2> QED
    BY <2>1, <1>6 DEF Ordered
<1>12. \A d \in Context : at'[d] # "new" /\ at'[d] # "thin"
  BY <1>2, <1>8
<1>13. Spans'
  <2>1. sampleList'[1].count = 1 /\ n + 1 <= count
    <3>1. CASE count = 1
      BY <3>1, <1>4, <1>5, <1>6, <1>7 DEF SpanTo
    <3>2. CASE count # 1
      <4>1. n > 0 /\ sampleList[1].count = 1 /\ n <= count - 1
        BY <3>2, <1>3, <1>7 DEF SpanTo
      <4> QED
        BY <4>1, <1>3, <1>4, <1>6
    <3> QED
      BY <3>1, <3>2
  <2>2. count' = count /\ Len(sampleList') > 0 /\ sampleList'[Len(sampleList')].count = count
    BY <1>1, <1>4, <1>5, <1>6
  <2> QED
    BY <2>1, <2>2, <1>6, <1>7, <1>12 DEF Spans, SpanTo, New
<1>14. InTime'
  BY <1>5, <1>6, <1>7, <1>8, <1>12 DEF InTime
<1>15. ThinInv'
  BY <1>12 DEF ThinInv
<1>16. Sized'
  BY <1>3, <1>4, <1>6, <1>8 DEF Sized, label
<1>17. Started' /\ Paced'
  BY <1>1, <1>2, <1>9, MovesPace
<1> QED
  BY <1>9, <1>11, <1>13, <1>14, <1>15, <1>16, <1>17 DEF SampleInv, ListInv

\* A list that is too long took so many periods that the spacing is not too small.
LEMMA SpacingIsWide ==
  ASSUME SampleInv, NEW c \in Context, at[c] = "reduce"
  PROVE  /\ Spacing \in 0 .. MaxTime
         /\ Len(sampleList) > 0 =>
              sampleList[Len(sampleList)].time < MinSamples * Spacing + MinSamples
         /\ CoarseEnough /\ Len(sampleList) > MaxSamples => Spacing >= MinSamples
<1> DEFINE n == Len(sampleList)
<1>1. /\ MinSamples \in Nat \ {0} /\ MaxSamples \in Nat /\ Period \in Nat \ {0} /\ MaxTime \in Nat
      /\ now \in 0 .. MaxTime /\ now \in Nat /\ n \in Nat /\ count \in Nat
      /\ \A k \in 1 .. n : sampleList[k].time \in Nat
  BY SamplesAssumption, SampleTypes DEF SampleInv, TypeOK
<1>2. PICK d \in Nat : d = Spacing /\ d <= now /\ now < MinSamples * d + MinSamples
  BY <1>1, Division DEF Spacing
<1>3. \A o \in Context : at[o] # "new" /\ at[o] # "enter"
  <2>1. \A o \in Context : o # c => at[o] = "idle"
    BY OneInside DEF SampleInv
  <2> QED
    BY <2>1
<1>4. ASSUME n > 0 PROVE sampleList[n].time < MinSamples * d + MinSamples
  <2>1. sampleList[n].time <= now /\ sampleList[n].time \in Nat
    BY <1>1, <1>4 DEF SampleInv, ListInv, InTime
  <2>2. MinSamples * d + MinSamples \in Int
    BY <1>1
  <2> QED
    BY <1>1, <1>2, <2>1, <2>2
<1>5. ASSUME CoarseEnough, n > MaxSamples PROVE d >= MinSamples
  <2>1. SpanTo(count)
    BY <1>3 DEF SampleInv, ListInv, Spans, New
  <2>2. n <= count
    BY <2>1, <1>1 DEF SpanTo
  <2>3. PICK b \in Int : b = ByTimer /\ MaxSamples - 1 <= b
    <3>1. Due \in Nat /\ ByFini \in {0, 1}
      BY DEF Due, ByFini
    <3>2. ByTimer \in Int /\ MaxSamples - 1 <= ByTimer
      BY <3>1, <2>2, <1>1, <1>5 DEF ByTimer, Shots
    <3> QED
      BY <3>2
  <2>4. Ticks(MaxSamples - 1) <= Ticks(b) /\ Ticks(b) \in Int /\ Ticks(MaxSamples - 1) \in Int
    <3>1. MaxSamples - 1 \in Int
      BY <1>1
    <3> QED
      BY <3>1, <2>3, TicksAre
  <2>5. Ticks(b) <= now
    BY <2>3 DEF SampleInv, ListInv, Paced
  <2>6. Ticks(MaxSamples - 1) >= MinSamples * MinSamples
    BY <1>5, Zenon DEF CoarseEnough, Ticks
  <2>7. MinSamples * MinSamples \in Int
    BY <1>1
  <2>8. now >= MinSamples * MinSamples
    BY <2>4, <2>5, <2>6, <2>7, <1>1
  <2> QED
    BY <2>8, <1>1, <1>2, AtLeast DEF Spacing
<1> QED
  BY <1>1, <1>2, <1>4, <1>5

LEMMA BeginReduceKeeps ==
  ASSUME SampleInv, ProfilerInv', NEW c \in Context, BeginReduce(c)
  PROVE  SampleInv'
<1> DEFINE n == Len(sampleList)
<1>1. at[c] = "reduce" /\ UNCHANGED <<now, expires, pending, main, time, sampleList, count, total, warned>>
  BY DEF BeginReduce, clock, flags
<1>2. \A d \in Context : d # c => at[d] = "idle"
  BY <1>1, OneInside DEF SampleInv
<1>3. /\ MinSamples \in Nat \ {0} /\ MaxSamples \in Nat /\ MinSamples < MaxSamples /\ n \in Nat
      /\ \A k \in 1 .. n : sampleList[k].time \in Nat
  BY SamplesAssumption, SampleTypes DEF SampleInv
<1>4. ASSUME NEW label \in {"thin", "leave"}, Moves(c, label)
      PROVE  /\ at'[c] = label /\ \A d \in Context : d # c => at'[d] = "idle"
             /\ at' = [at EXCEPT ![c] = label]
             /\ Ordered' /\ Spans' /\ InTime'
  <2>1. at'[c] = label /\ \A d \in Context : d # c => at'[d] = "idle"
    BY <1>4, MovesAt
  <2>2. \A d \in Context : at'[d] # "new" /\ at[d] # "new"
    BY <2>1, <1>1, <1>2
  <2>3. Ordered' /\ Spans' /\ InTime'
    BY <2>2, <1>1 DEF SampleInv, ListInv, Ordered, Spans, SpanTo, New, InTime
  <2> QED
    BY <1>4, <2>1, <2>3 DEF Moves
<1>5. CASE n <= MinSamples
  <2>1. Moves(c, "leave") /\ UNCHANGED <<keep, it, delta>>
    BY <1>1, <1>2, <1>5 DEF BeginReduce, Goto, Moves
  <2>2. /\ at'[c] = "leave" /\ \A d \in Context : d # c => at'[d] = "idle"
        /\ at' = [at EXCEPT ![c] = "leave"]
        /\ Ordered' /\ Spans' /\ InTime'
    BY <2>1, <1>4
  <2>3. TypeOK'
    BY <1>1, <2>1, <2>2 DEF SampleInv, TypeOK
  <2>4. ThinInv' /\ Sized'
    BY <1>1, <1>3, <1>5, <2>2 DEF ThinInv, Sized
  <2>5. Started' /\ Paced'
    BY <1>1, <2>1, <2>3, MovesPace
  <2> QED
    BY <2>2, <2>3, <2>4, <2>5 DEF SampleInv, ListInv
<1>6. CASE n > MinSamples
  <2>1. /\ Moves(c, "thin") /\ delta' = [delta EXCEPT ![c] = Spacing]
        /\ keep' = [keep EXCEPT ![c] = 1] /\ it' = [it EXCEPT ![c] = 2]
    BY <1>1, <1>2, <1>3, <1>6 DEF BeginReduce, Goto, Moves
  <2>2. /\ at'[c] = "thin" /\ \A d \in Context : d # c => at'[d] = "idle"
        /\ at' = [at EXCEPT ![c] = "thin"]
        /\ Ordered' /\ Spans' /\ InTime'
    BY <2>1, <1>4
  <2>3. PICK w \in 0 .. MaxTime :
          /\ w = Spacing
          /\ n > 0 => sampleList[n].time < MinSamples * w + MinSamples
          /\ CoarseEnough /\ n > MaxSamples => w >= MinSamples
    BY <1>1, SpacingIsWide
  <2>4. TypeOK'
    BY <1>1, <2>1, <2>2, <2>3 DEF SampleInv, TypeOK
  <2>5. delta'[c] = w /\ keep'[c] = 1 /\ it'[c] = 2
    BY <2>1, <2>3 DEF SampleInv, TypeOK
  <2>6. Thinned(c)'
    <3>1. sampleList[1].time >= (1 - 1) * w
      <4>1. sampleList[1].time \in Nat /\ w \in Nat
        BY <1>3, <1>6, SamplesAssumption
      <4> QED
        BY <4>1
    <3> QED
      BY <1>1, <1>3, <1>6, <2>3, <2>5, <3>1 DEF Thinned, CoarseEnough
  <2>7. ThinInv' /\ Sized'
    BY <2>2, <2>6 DEF ThinInv, Sized
  <2>8. Started' /\ Paced'
    BY <1>1, <2>1, <2>4, MovesPace
  <2> QED
    BY <2>2, <2>4, <2>7, <2>8 DEF SampleInv, ListInv
<1> QED
  BY <1>3, <1>5, <1>6

LEMMA WithoutIs ==
  ASSUME NEW S, NEW seq \in Seq(S), NEW k \in 1 .. Len(seq)
  PROVE  /\ Without(seq, k) \in Seq(S) /\ Len(Without(seq, k)) = Len(seq) - 1
         /\ \A j \in 1 .. Len(seq) - 1 :
              Without(seq, k)[j] = IF j < k THEN seq[j] ELSE seq[j + 1]
<1> DEFINE n == Len(seq)
           a == SubSeq(seq, 1, k - 1)
           b == SubSeq(seq, k + 1, n)
<1>1. n \in Nat /\ k \in 1 .. n /\ \A j \in 1 .. n : seq[j] \in S
  OBVIOUS
<1>2. a \in Seq(S) /\ Len(a) = k - 1 /\ \A j \in 1 .. k - 1 : a[j] = seq[j]
  BY <1>1
<1>3. b \in Seq(S) /\ Len(b) = n - k /\ \A j \in 1 .. n - k : b[j] = seq[k + j]
  BY <1>1
<1>4. Without(seq, k) = a \o b
  BY DEF Without
<1> HIDE DEF n, a, b
<1>5. a \o b \in Seq(S) /\ Len(a \o b) = n - 1
  <2>1. a \in Seq(S) /\ b \in Seq(S) /\ Len(a) = k - 1 /\ Len(b) = n - k
    BY <1>2, <1>3
  <2>2. a \o b \in Seq(S) /\ Len(a \o b) = Len(a) + Len(b)
    BY <2>1
  <2>3. (k - 1) + (n - k) = n - 1
    BY <1>1
  <2> QED
    BY <2>1, <2>2, <2>3
<1>6. ASSUME NEW j \in 1 .. n - 1
      PROVE  (a \o b)[j] = IF j < k THEN seq[j] ELSE seq[j + 1]
  <2>1. CASE j < k
    BY <1>1, <1>2, <1>3, <2>1
  <2>2. CASE j >= k
    <3>1. (a \o b)[j] = b[j - (k - 1)] /\ j - (k - 1) \in 1 .. n - k
      BY <1>1, <1>2, <1>3, <2>2
    <3>2. k + (j - (k - 1)) = j + 1
      BY <1>1
    <3> QED
      BY <1>1, <1>3, <2>2, <3>1, <3>2
  <2>3. j < k \/ j >= k
    BY <1>1
  <2> QED
    BY <2>1, <2>2, <2>3
<1> QED
  BY <1>4, <1>5, <1>6 DEF n

\* One round: the sample is kept, delta from the one before, or deleted.
LEMMA ThinKeeps ==
  ASSUME SampleInv, ProfilerInv', NEW c \in Context, Thin(c)
  PROVE  SampleInv'
<1>0. PICK n, i, k0, w : n = Len(sampleList) /\ i = it[c] /\ k0 = keep[c] /\ w = delta[c]
  OBVIOUS
<1> USE <1>0
<1>1. /\ at[c] = "thin" /\ ~ (i >= n)
      /\ UNCHANGED <<now, expires, pending, main, at, time, delta, count, total, warned>>
  BY <1>0 DEF Thin, AtLast, clock, flags
<1>2. \A d \in Context : d # c => at[d] = "idle"
  BY <1>1, OneInside DEF SampleInv
<1>3. /\ i = k0 + 1 /\ k0 > 0 /\ i <= n
      /\ \A k \in 2 .. k0 : sampleList[k].time >= sampleList[k - 1].time + w
      /\ sampleList[k0].time >= (k0 - 1) * w
      /\ sampleList[n].time < MinSamples * w + MinSamples
      /\ CoarseEnough /\ n > MaxSamples => w >= MinSamples
  BY <1>0, <1>1 DEF SampleInv, ListInv, ThinInv, Thinned
<1>4. /\ k0 \in Nat /\ i \in Nat /\ w \in Nat /\ n \in Nat /\ sampleList \in Seq(Samples)
      /\ MinSamples \in Nat \ {0} /\ MaxSamples \in Nat
      /\ \A k \in 1 .. n : sampleList[k].time \in Nat /\ sampleList[k].count \in Nat
  BY <1>0, SamplesAssumption, SampleTypes DEF SampleInv, TypeOK
<1>4a. k0 \in 1 .. n /\ i \in 1 .. n /\ i = k0 + 1 /\ i - 1 = k0 /\ i < n /\ i > 1
  <2>1. i = k0 + 1 /\ k0 > 0 /\ i <= n
    BY <1>3
  <2> QED
    BY <1>1, <1>4, <2>1
<1>5. /\ Ordered /\ Spans /\ InTime
      /\ SpanTo(count)
      /\ \A d \in Context : at[d] # "new"
  BY <1>1, <1>2 DEF SampleInv, ListInv, Spans, New
<1>6. Moves(c, "thin")
  <2>1. at' = [at EXCEPT ![c] = "thin"]
    BY <1>1 DEF SampleInv, TypeOK
  <2> QED
    BY <2>1, <1>1, <1>2 DEF Moves
<1>7. ASSUME ThinInv', TypeOK', Ordered', Spans', InTime' PROVE SampleInv'
  <2>1. Sized'
    BY <1>1 DEF Sized
  <2>2. Started' /\ Paced'
    BY <1>1, <1>6, <1>7, MovesPace
  <2> QED
    BY <1>7, <2>1, <2>2 DEF SampleInv, ListInv
<1>8. CASE FarEnough(c)
  <2>1. /\ keep' = [keep EXCEPT ![c] = i] /\ it' = [it EXCEPT ![c] = i + 1]
        /\ UNCHANGED sampleList
    BY <1>8 DEF Thin
  <2>2. sampleList[i].time >= sampleList[k0].time + w
    BY <1>8 DEF FarEnough
  <2>3. TypeOK'
    BY <1>1, <1>4, <2>1 DEF SampleInv, TypeOK
  <2>4. keep'[c] = i /\ it'[c] = i + 1
    BY <2>1 DEF SampleInv, TypeOK
  <2>5. (i - 1) * w <= sampleList[i].time
    <3>1. PICK j \in Int : j = k0 - 1
      BY <1>4
    <3>2. (j + 1) * w = j * w + w /\ j * w \in Int
      BY <1>4, OneMore
    <3>3. i - 1 = j + 1
      BY <1>3, <1>4, <3>1
    <3>4. j * w <= sampleList[k0].time
      <4>1. sampleList[k0].time >= j * w
        BY <1>3, <3>1
      <4>2. sampleList[k0].time \in Nat
        BY <1>4, <1>4a
      <4> QED
        BY <4>1, <4>2, <3>2
    <3>5. sampleList[k0].time \in Nat /\ sampleList[i].time \in Nat
      BY <1>4, <1>4a
    <3>6. (j + 1) * w <= sampleList[i].time
      <4> DEFINE x == j * w
                 y == (j + 1) * w
      <4>1. y = x + w /\ x \in Int /\ x <= sampleList[k0].time
        BY <3>2, <3>4
      <4> HIDE DEF x, y
      <4>2. y <= sampleList[i].time
        BY <4>1, <3>5, <2>2, <1>4
      <4> QED
        BY <4>2 DEF y
    <3> QED
      BY <3>3, <3>6
  <2>6. Thinned(c)'
    <3>1. ASSUME NEW k \in 2 .. i PROVE sampleList[k].time >= sampleList[k - 1].time + w
      <4>1. k \in 2 .. k0 \/ k = i
        BY <1>3, <1>4
      <4>2. i - 1 = k0
        BY <1>3, <1>4
      <4> QED
        BY <4>1, <4>2, <1>3, <2>2
    <3>2. sampleList[i].time >= (i - 1) * w
      <4>1. sampleList[i].time \in Nat /\ i - 1 \in Int
        BY <1>4, <1>4a
      <4>2. PICK x \in Int : x = (i - 1) * w
        BY <4>1, <1>4
      <4> QED
        BY <4>1, <4>2, <2>5
    <3>3. i + 1 <= n /\ i > 0
      BY <1>1, <1>3, <1>4
    <3> QED
      BY <1>1, <1>3, <2>1, <2>4, <3>1, <3>2, <3>3 DEF Thinned, CoarseEnough
  <2>7. ThinInv'
    BY <1>1, <1>2, <2>6 DEF ThinInv
  <2>8. Ordered' /\ Spans' /\ InTime'
    BY <1>1, <1>5, <2>1 DEF Ordered, Spans, SpanTo, New, InTime
  <2> QED
    BY <1>7, <2>3, <2>7, <2>8
<1>9. CASE ~ FarEnough(c)
  <2> DEFINE l == Without(sampleList, i)
  <2>1. sampleList' = l /\ UNCHANGED <<keep, it>>
    BY <1>9 DEF Thin
  <2>2. i \in 1 .. n /\ i < n /\ i > 1
    BY <1>4a
  <2>3. /\ l \in Seq(Samples) /\ Len(l) = n - 1
        /\ \A j \in 1 .. n - 1 : l[j] = IF j < i THEN sampleList[j] ELSE sampleList[j + 1]
    BY <1>4, <2>2, WithoutIs
  <2>4. TypeOK'
    BY <1>1, <2>1, <2>3 DEF SampleInv, TypeOK
  <2> HIDE DEF l
  <2>5. \A k \in 2 .. n : /\ sampleList[k - 1].count < sampleList[k].count
                          /\ sampleList[k - 1].time <= sampleList[k].time
    BY <1>5 DEF Ordered
  <2>6. ASSUME NEW k \in 2 .. n - 1
        PROVE  l[k - 1].count < l[k].count /\ l[k - 1].time <= l[k].time
    <3>1. k \in 1 .. n - 1 /\ k - 1 \in 1 .. n - 1 /\ k \in 2 .. n /\ k + 1 \in 2 .. n
          /\ k \in 1 .. n /\ k - 1 \in 1 .. n /\ k + 1 \in 1 .. n
      BY <1>4
    <3>2. /\ sampleList[k - 1].count < sampleList[k].count
          /\ sampleList[k - 1].time <= sampleList[k].time
      BY <2>5, <3>1
    <3>3. /\ sampleList[k].count < sampleList[k + 1].count
          /\ sampleList[k].time <= sampleList[k + 1].time
      <4>1. (k + 1) - 1 = k
        BY <3>1
      <4> QED
        BY <2>5, <3>1, <4>1
    <3>4. CASE k < i
      <4>1. l[k] = sampleList[k] /\ l[k - 1] = sampleList[k - 1]
        BY <3>4, <3>1, <2>3, <1>4
      <4> QED
        BY <4>1, <3>2
    <3>5. CASE k = i
      <4>1. l[k] = sampleList[k + 1] /\ l[k - 1] = sampleList[k - 1]
        BY <3>5, <3>1, <2>3, <1>4
      <4>2. /\ sampleList[k - 1].count \in Nat /\ sampleList[k].count \in Nat
            /\ sampleList[k + 1].count \in Nat /\ sampleList[k - 1].time \in Nat
            /\ sampleList[k].time \in Nat /\ sampleList[k + 1].time \in Nat
        BY <1>4, <3>1
      <4>3. /\ sampleList[k - 1].count < sampleList[k + 1].count
            /\ sampleList[k - 1].time <= sampleList[k + 1].time
        BY <3>2, <3>3, <4>2
      <4> QED
        BY <4>1, <4>3
    <3>6. CASE k > i
      <4>1. l[k] = sampleList[k + 1] /\ l[k - 1] = sampleList[k]
        BY <3>6, <3>1, <2>3, <1>4
      <4> QED
        BY <4>1, <3>3
    <3> QED
      BY <3>4, <3>5, <3>6, <1>4
  <2>7. Ordered'
    BY <2>1, <2>3, <2>6 DEF Ordered
  <2>8. l[1] = sampleList[1] /\ l[n - 1] = sampleList[n] /\ n - 1 > 0 /\ 1 < n - 1 + 1
    <3>1. 1 \in 1 .. n - 1 /\ n - 1 \in 1 .. n - 1 /\ ~ (n - 1 < i) /\ (n - 1) + 1 = n /\ 1 < i
      BY <1>4, <2>2
    <3> QED
      BY <3>1, <2>3
  <2>9. Spans'
    <3>1. count \in Nat /\ count # 0
      <4>1. count \in Nat
        BY DEF SampleInv, TypeOK
      <4> QED
        BY <4>1, <1>5, <2>2, <1>4 DEF SpanTo
    <3>2. /\ sampleList[1].count = 1 /\ sampleList[n].count = count /\ n <= count
      BY <3>1, <1>5 DEF SpanTo
    <3>3. SpanTo(count)'
      BY <3>1, <3>2, <1>1, <1>4, <2>1, <2>3, <2>8 DEF SpanTo
    <3>4. ~ New'
      BY <1>1, <1>5 DEF New
    <3> QED
      BY <3>3, <3>4 DEF Spans
  <2>10. InTime'
    BY <1>1, <1>4, <1>5, <2>1, <2>2, <2>3, <2>8 DEF InTime
  <2>11. Thinned(c)'
    <3>1. ASSUME NEW k \in 1 .. k0 PROVE l[k] = sampleList[k]
      <4>1. k \in 1 .. n - 1 /\ k < i
        BY <1>3, <1>4, <2>2
      <4> QED
        BY <4>1, <2>3
    <3>2. k0 \in 1 .. k0
      BY <1>4a
    <3>3. \A k \in 2 .. k0 : l[k].time >= l[k - 1].time + w
      <4>1. \A k \in 2 .. k0 : k \in 1 .. k0 /\ k - 1 \in 1 .. k0
        BY <1>4
      <4> QED
        BY <4>1, <3>1, <1>3
    <3>4. l[k0].time >= (k0 - 1) * w
      BY <3>1, <3>2, <1>3
    <3>5. i <= n - 1 /\ (n - 1 > MaxSamples => n > MaxSamples)
      BY <1>4, <2>2
    <3> QED
      BY <1>1, <1>3, <2>1, <2>3, <2>8, <3>3, <3>4, <3>5 DEF Thinned, CoarseEnough
  <2>12. ThinInv'
    BY <1>1, <1>2, <2>11 DEF ThinInv
  <2> QED
    BY <1>7, <2>4, <2>7, <2>9, <2>10, <2>12
<1> QED
  BY <1>8, <1>9

\* When the reduction ends, a list that is still too long would span more than the time.
LEMMA EndReduceKeeps ==
  ASSUME SampleInv, ProfilerInv', NEW c \in Context, EndReduce(c)
  PROVE  SampleInv'
<1>0. PICK n, k0, w : n = Len(sampleList) /\ k0 = keep[c] /\ w = delta[c]
  OBVIOUS
<1> USE <1>0
<1>1. /\ at[c] = "thin" /\ it[c] >= n /\ at' = [at EXCEPT ![c] = "leave"]
      /\ UNCHANGED <<now, expires, pending, main, time, keep, it, delta, sampleList, count, total,
                     warned>>
  BY <1>0 DEF EndReduce, AtLast, Goto, clock, flags
<1>2. \A d \in Context : d # c => at[d] = "idle"
  BY <1>1, OneInside DEF SampleInv
<1>3. /\ it[c] = k0 + 1 /\ k0 > 0 /\ it[c] <= n
      /\ sampleList[k0].time >= (k0 - 1) * w
      /\ sampleList[n].time < MinSamples * w + MinSamples
      /\ CoarseEnough /\ n > MaxSamples => w >= MinSamples
  BY <1>0, <1>1 DEF SampleInv, ListInv, ThinInv, Thinned
<1>4. /\ k0 \in Nat /\ it[c] \in Nat /\ w \in Nat /\ n \in Nat
      /\ MinSamples \in Nat \ {0} /\ MaxSamples \in Nat
      /\ \A k \in 1 .. n : sampleList[k].time \in Nat
  BY <1>0, SamplesAssumption, SampleTypes DEF SampleInv, TypeOK
<1>5. Moves(c, "leave")
  BY <1>1, <1>2 DEF Moves
<1>6. at'[c] = "leave" /\ \A d \in Context : d # c => at'[d] = "idle"
  BY <1>5, MovesAt
<1>7. TypeOK'
  BY <1>1 DEF SampleInv, TypeOK
<1>8. Ordered' /\ Spans' /\ InTime'
  <2>1. \A d \in Context : at'[d] # "new" /\ at[d] # "new"
    BY <1>1, <1>2, <1>6
  <2> QED
    BY <2>1, <1>1 DEF SampleInv, ListInv, Ordered, Spans, SpanTo, New, InTime
<1>9. ThinInv'
  BY <1>6 DEF ThinInv
<1>10. ASSUME CoarseEnough, n > MaxSamples PROVE FALSE
  <2>1. n = k0 + 1 /\ k0 - 1 >= MinSamples + 1 /\ n \in 2 .. n
    <3>1. MaxSamples > MinSamples + 1
      BY <1>10 DEF CoarseEnough
    <3>2. it[c] = k0 + 1 /\ k0 > 0 /\ it[c] <= n
      BY <1>3
    <3> QED
      BY <1>1, <1>4, <1>10, <3>1, <3>2
  <2>2. sampleList[k0].time <= sampleList[n].time
    <3>1. n - 1 = k0
      BY <2>1, <1>4
    <3>2. sampleList[n - 1].time <= sampleList[n].time
      BY <2>1, <1>4 DEF SampleInv, ListInv, Ordered
    <3> QED
      BY <3>1, <3>2
  <2>3. (MinSamples + 1) * w <= (k0 - 1) * w
    BY <2>1, <1>4, Monotone
  <2>4. (MinSamples + 1) * w = MinSamples * w + w /\ MinSamples * w \in Int
    BY <1>4, OneMore
  <2>5. (k0 - 1) * w \in Int
    BY <1>4
  <2>6. sampleList[k0].time \in Nat /\ sampleList[n].time \in Nat
    BY <2>1, <1>3, <1>4
  <2>7. w >= MinSamples
    BY <1>3, <1>10
  <2> DEFINE x == MinSamples * w
             y == (MinSamples + 1) * w
             z == (k0 - 1) * w
             a == sampleList[k0].time
             b == sampleList[n].time
  <2>8. /\ y <= z /\ y = x + w /\ x \in Int /\ z \in Int /\ a \in Nat /\ b \in Nat
        /\ a <= b /\ a >= z /\ b < x + MinSamples
    BY <2>2, <2>3, <2>4, <2>5, <2>6, <1>3, Zenon
  <2> HIDE DEF x, y, z, a, b
  <2> QED
    BY <2>7, <2>8, <1>4
<1>11. Sized'
  BY <1>1, <1>4, <1>10 DEF Sized, CoarseEnough
<1>12. Started' /\ Paced'
  BY <1>1, <1>5, <1>7, MovesPace
<1> QED
  BY <1>7, <1>8, <1>9, <1>11, <1>12 DEF SampleInv, ListInv

-----------------------------------------------------------------------------
LEMMA SampleInit == Init => SampleInv
<1> SUFFICES ASSUME Init PROVE SampleInv
  OBVIOUS
<1>1. ProfilerInv
  BY ProfilerInit
<1>2. TypeOK
  <2>1. 0 \in 0 .. MaxTime /\ 0 \in Nat
    BY SamplesAssumption
  <2>2. /\ time \in [Context -> 0 .. MaxTime] /\ delta \in [Context -> 0 .. MaxTime]
        /\ keep \in [Context -> Nat] /\ it \in [Context -> Nat]
    BY <2>1 DEF Init
  <2>3. at \in [Context -> {"idle", "enter", "new", "reduce", "thin", "leave"}]
    BY DEF Init, Context
  <2>4. /\ now \in 0 .. MaxTime /\ expires \in Nat /\ pending \in BOOLEAN /\ main \in Places
        /\ count \in Nat /\ total \in Nat /\ warned \in BOOLEAN
    BY <2>1 DEF Init, Places
  <2>5. sampleList \in Seq(Samples)
    BY DEF Init
  <2> QED
    BY <2>2, <2>3, <2>4, <2>5 DEF TypeOK
<1>3. /\ sampleList = <<>> /\ count = 0 /\ now = 0 /\ expires = 0 /\ ~ pending
      /\ main = "init_sample" /\ at["main"] = "enter" /\ at["handler"] = "idle"
  BY DEF Init, Context
<1>4. Len(sampleList) = 0 /\ \A c \in Context : at[c] \notin {"new", "thin"}
  BY <1>3 DEF Context
<1>5. Ordered /\ Spans /\ InTime /\ ThinInv /\ Sized
  BY <1>3, <1>4, SamplesAssumption DEF Ordered, Spans, SpanTo, New, InTime, ThinInv, Sized
<1>6. Started
  BY <1>3 DEF Started
<1>7. Paced
  <2>1. ByTimer = -1
    BY <1>3 DEF ByTimer, Shots, Due, ByFini
  <2>2. Ticks(-1) <= 0
    BY SamplesAssumption DEF Ticks
  <2> QED
    BY <2>1, <2>2, <1>3 DEF Paced
<1> QED
  BY <1>1, <1>2, <1>5, <1>6, <1>7 DEF SampleInv, ListInv

LEMMA SampleStep == SampleInv /\ [Next]_vars => SampleInv'
<1> SUFFICES ASSUME SampleInv, [Next]_vars PROVE SampleInv'
  OBVIOUS
<1>1. ProfilerInv'
  BY ProfilerStep DEF SampleInv
<1>2. ASSUME NEW c \in Context, AddSample(c) PROVE SampleInv'
  BY <1>1, <1>2, TakeTimeKeeps, PushKeeps, BeginReduceKeeps, ThinKeeps, EndReduceKeeps
  DEF AddSample
<1>3. CASE UNCHANGED vars
  <2>1. UNCHANGED <<now, expires, pending, main, at, time, keep, it, delta, sampleList, count,
                    total, warned>>
    BY <1>3 DEF vars, clock, frame, flags
  <2>2. TypeOK' /\ Around
    BY <2>1, SamplesAssumption DEF SampleInv, TypeOK, Around
  <2>3. Started' /\ Paced'
    BY <2>1 DEF SampleInv, ListInv, Started, Paced, Ticks, Shots, ByTimer, Due, ByFini
  <2> QED
    BY <1>1, <2>2, <2>3, AroundKeeps DEF SampleInv, ListInv
<1>4. CASE Program
  BY <1>1, <1>2, <1>4, DeliverKeeps, HandlerReturnsKeeps, StartTimerKeeps, InitFailsKeeps, AppKeeps,
     FiniSampleKeeps, FiniReduceKeeps, ExitKeeps
  DEF Program
<1> QED
  BY <1>1, <1>3, <1>4, AppKeeps, TickKeeps DEF Next, Exited, Hung

LEMMA SampleInvariant == Spec => []SampleInv
BY SampleInit, SampleStep, PTL DEF Spec

\* Every variable of the profiler keeps its type, with any list and at any interruption.
THEOREM TypeCorrect == Spec => []TypeOK
<1>1. SampleInv => TypeOK
  BY DEF SampleInv
<1> QED
  BY <1>1, SampleInvariant, PTL

\* However often the list is thinned out, it begins with the first sample, ends with the
\* last, and is in the order of the samples (trace.cpp:128-137, 156-170).
THEOREM ListSpansTheRun == Spec => []SpansTheRun
<1>1. SampleInv => SpansTheRun
  <2> SUFFICES ASSUME SampleInv PROVE SpansTheRun
    OBVIOUS
  <2>1. count \in Nat
    BY DEF SampleInv, TypeOK
  <2>2. ASSUME AtRest, count > 0
        PROVE  sampleList[1].count = 1 /\ sampleList[Len(sampleList)].count = count
    BY <2>1, <2>2 DEF SampleInv, ListInv, Spans, SpanTo, New, AtRest
  <2> QED
    BY <2>2 DEF SpansTheRun, SampleInv, ListInv, Ordered
<1> QED
  BY <1>1, SampleInvariant, PTL

\* A reduction leaves samples that are delta apart and, if the interrupts are not too fast
\* for the lengths, a list that has room (trace.cpp:126-150, 172-174).
THEOREM ReductionMakesRoom == Spec => []MakesRoom
<1>1. SampleInv => MakesRoom
  <2> SUFFICES ASSUME SampleInv PROVE MakesRoom
    OBVIOUS
  <2>1. ASSUME NEW c \in Context, at[c] = "thin", AtLast(c), NEW k \in 2 .. Len(sampleList) - 1
        PROVE  sampleList[k].time >= sampleList[k - 1].time + delta[c]
    <3>1. Thinned(c) /\ it[c] >= Len(sampleList)
      BY <2>1 DEF SampleInv, ListInv, ThinInv, AtLast
    <3>2. Len(sampleList) \in Nat /\ keep[c] \in Nat /\ it[c] \in Nat
      BY SampleTypes DEF SampleInv, TypeOK
    <3>3. k \in 2 .. keep[c]
      BY <3>1, <3>2 DEF Thinned
    <3> QED
      BY <3>1, <3>3 DEF Thinned
  <2>2. ASSUME CoarseEnough, AtRest PROVE Len(sampleList) <= MaxSamples
    BY <2>2 DEF SampleInv, ListInv, Sized, AtRest
  <2> QED
    BY <2>1, <2>2 DEF MakesRoom
<1> QED
  BY <1>1, SampleInvariant, PTL
=============================================================================
