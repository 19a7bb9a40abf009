---------------------------- MODULE TraceProfiler ----------------------------
(***************************************************************************)
(* cplus/: a profiler loaded into an application.  monitor.c runs its init *)
(* callback before main and its fini callback after, realtime.c drives a   *)
(* timer whose signal interrupts the application, and the handler adds a   *)
(* sample to a list that is thinned out when it is long.                   *)
(*                                                                         *)
(* There is one thread.  The handler runs on top of whatever main was      *)
(* doing, to its end, with the signal blocked.  App and handler call       *)
(* malloc and free; shared_malloc tells whether that is one allocator (as  *)
(* the Makefile builds it) or the handler has its own (as the README of    *)
(* the directory asks for).                                                *)
(***************************************************************************)
EXTENDS Integers, Sequences

CONSTANTS
  MinSamples, MaxSamples,  \* MIN_SAMPLES, MAX_SAMPLES
  Period,                  \* ticks of the clock between two timer interrupts
  MaxTime,                 \* bound: the last time the clock shows
  Builds                   \* the values of shared_malloc to look at

ASSUME SamplesAssumption ==
  /\ MinSamples \in Nat \ {0} /\ MaxSamples \in Nat /\ MinSamples < MaxSamples
  /\ Period \in Nat \ {0} /\ MaxTime \in Nat
  /\ Builds \subseteq BOOLEAN

Context == {"main", "handler"}

VARIABLES
  now,          \* get_usec() - time0
  expires,      \* when the timer goes off next, or 0 if it is stopped
  pending,      \* is the signal pending?
  main,         \* where the main flow of control is
  at,           \* where addSample is in each context
  time,         \* its local of that name
  keep, it,     \* locals of reduceSampleList: positions in the list
  delta,
  sampleList, count,
  total,        \* the number of samples that fini prints
  warned,       \* did getcontext fail in fini?
  shared_malloc \* how it was built; never changes

clock  == <<now, expires, pending>>
flags  == <<warned, shared_malloc>>
frame  == <<at, time, keep, it, delta>>
vars   == <<clock, main, frame, sampleList, count, total, flags>>

Init ==
  /\ now = 0 /\ expires = 0 /\ pending = FALSE
  /\ main = "init_sample"
  /\ at = [c \in Context |-> IF c = "main" THEN "enter" ELSE "idle"]
  /\ time = [c \in Context |-> 0]
  /\ keep = [c \in Context |-> 0]
  /\ it = [c \in Context |-> 0]
  /\ delta = [c \in Context |-> 0]
  /\ sampleList = <<>> /\ count = 0 /\ total = 0
  /\ warned = FALSE
  /\ shared_malloc \in Builds

-----------------------------------------------------------------------------
(* Who runs.  An operator "x_..." before an operator "x" is a mutant of x. *)

InHandler == at["handler"] # "idle"

\* Code of a context runs; of main only while no handler is on top of it.
Runs(c) == c = "handler" \/ ~ InHandler
MainAt(place) == main = place /\ ~ InHandler

\* malloc and free wait for the lock of the allocator, which the application
\* holds if it was interrupted inside of one.
Allocates(c) == ~ (shared_malloc /\ c = "handler" /\ main = "app_malloc")

Goto(c, label) == at' = [at EXCEPT ![c] = label]

-----------------------------------------------------------------------------
(* addSample and reduceSampleList, in either context. *)

TakeTime(c) ==
  /\ at[c] = "enter" /\ Runs(c)
  /\ time' = [time EXCEPT ![c] = now]
  /\ count' = count + 1
  /\ Goto(c, "new")
  /\ UNCHANGED <<clock, main, keep, it, delta, sampleList, total, flags>>

\* new Sample, push_back, and whether to reduce the list.
Push(c) ==
  /\ at[c] = "new" /\ Runs(c) /\ Allocates(c)
  /\ sampleList' = Append(sampleList, [count |-> count, time |-> time[c]])
  /\ Goto(c, IF Len(sampleList) + 1 > MaxSamples THEN "reduce" ELSE "leave")
  /\ UNCHANGED <<clock, main, time, keep, it, delta, count, total, flags>>

Spacing_unsigned == -(now \div MinSamples)
Spacing_of_max == now \div MaxSamples
Spacing == now \div MinSamples

BeginReduce(c) ==
  /\ at[c] = "reduce" /\ Runs(c)
  /\ IF Len(sampleList) <= MinSamples
     THEN Goto(c, "leave") /\ UNCHANGED <<keep, it, delta>>
     ELSE /\ delta' = [delta EXCEPT ![c] = Spacing]
          /\ keep' = [keep EXCEPT ![c] = 1]
          /\ it' = [it EXCEPT ![c] = 2]
          /\ Goto(c, "thin")
  /\ UNCHANGED <<clock, main, time, sampleList, count, total, flags>>

Without_erase_dropped(seq, k) == seq
Without(seq, k) == SubSeq(seq, 1, k - 1) \o SubSeq(seq, k + 1, Len(seq))

AtLast_one_past(c) == it[c] > Len(sampleList)
AtLast(c) == it[c] >= Len(sampleList)

FarEnough(c) ==
  sampleList[it[c]].time >= sampleList[keep[c]].time + delta[c]

\* One round of the loop: keep the sample or delete it.
Thin(c) ==
  /\ at[c] = "thin" /\ Runs(c) /\ ~ AtLast(c)
  /\ IF FarEnough(c)
     THEN /\ keep' = [keep EXCEPT ![c] = it[c]]
          /\ it' = [it EXCEPT ![c] = @ + 1]
          /\ UNCHANGED sampleList
     ELSE /\ Allocates(c)
          /\ sampleList' = Without(sampleList, it[c])
          /\ UNCHANGED <<keep, it>>
  /\ UNCHANGED <<clock, main, at, time, delta, count, total, flags>>

EndReduce(c) ==
  /\ at[c] = "thin" /\ Runs(c) /\ AtLast(c)
  /\ Goto(c, "leave")
  /\ UNCHANGED <<clock, main, time, keep, it, delta, sampleList, count, total,
                 flags>>

\* The call returns and its locals die.
Forget(c) ==
  /\ time' = [time EXCEPT ![c] = 0]
  /\ keep' = [keep EXCEPT ![c] = 0]
  /\ it' = [it EXCEPT ![c] = 0]
  /\ delta' = [delta EXCEPT ![c] = 0]

-----------------------------------------------------------------------------
(* The signal. *)

Deliver ==
  /\ pending /\ ~ InHandler
  /\ pending' = FALSE
  /\ Goto("handler", "enter")
  /\ UNCHANGED <<now, expires, main, time, keep, it, delta, sampleList, count,
                 total, flags>>

HandlerReturns ==
  /\ at["handler"] = "leave"
  /\ Goto("handler", "idle")
  /\ Forget("handler")
  /\ UNCHANGED <<clock, main, sampleList, count, total, flags>>

\* Time passes; a timer that goes off again finds its signal pending at most.
Tick ==
  /\ now < MaxTime
  /\ now' = now + 1
  /\ IF now' = expires
     THEN expires' = expires + Period /\ pending' = TRUE
     ELSE UNCHANGED <<expires, pending>>
  /\ UNCHANGED <<main, frame, sampleList, count, total, flags>>

-----------------------------------------------------------------------------
(* The main flow: monitor_init_process, the application, monitor_fini_process. *)

\* rt_make_timer and rt_start_timer.
StartTimer ==
  /\ MainAt("init_sample") /\ at["main"] = "leave"
  /\ Goto("main", "idle") /\ Forget("main")
  /\ expires' = now + Period
  /\ main' = "app"
  /\ UNCHANGED <<now, pending, sampleList, count, total, flags>>

\* getcontext or rt_make_timer fails: err(1) ends the process.
InitFails ==
  /\ main = "init_sample" /\ at["main"] \in {"enter", "leave"}
  /\ main' = "failed"
  /\ Goto("main", "idle") /\ Forget("main")
  /\ UNCHANGED <<clock, sampleList, count, total, flags>>

AppMalloc ==
  /\ MainAt("app")
  /\ main' = "app_malloc"
  /\ UNCHANGED <<clock, frame, sampleList, count, total, flags>>

AppMallocReturns ==
  /\ MainAt("app_malloc")
  /\ main' = "app"
  /\ UNCHANGED <<clock, frame, sampleList, count, total, flags>>

Disarm_forgotten == expires' = expires
Disarm == expires' = 0

\* main returns, and rt_stop_timer disarms the timer.
AppReturns ==
  /\ MainAt("app")
  /\ Disarm
  /\ main' = "stopping"
  /\ UNCHANGED <<now, pending, frame, sampleList, count, total, flags>>

\* A signal that is pending is delivered before the system call returns.
StopReturns == ~ pending

FiniSample ==
  /\ MainAt("stopping") /\ StopReturns
  /\ total' = count + 1
  /\ main' = "fini_sample"
  /\ Goto("main", "enter")
  /\ UNCHANGED <<clock, time, keep, it, delta, sampleList, count, flags>>

\* fini reduces the list once more, with or without the sample of its own.
FiniReduce ==
  /\ MainAt("fini_sample")
  /\ \/ at["main"] = "leave" /\ UNCHANGED warned
     \/ at["main"] = "enter" /\ warned' = TRUE
  /\ main' = "fini_reduce"
  /\ Goto("main", "reduce")
  /\ Forget("main")
  /\ UNCHANGED <<clock, sampleList, count, total, shared_malloc>>

Exit ==
  /\ MainAt("fini_reduce") /\ at["main"] = "leave"
  /\ main' = "exited"
  /\ Goto("main", "idle")
  /\ Forget("main")
  /\ UNCHANGED <<clock, sampleList, count, total, flags>>

Exited == main \in {"exited", "failed"} /\ UNCHANGED vars

\* A handler that waits for the lock of the main flow below it waits for ever.
Hung ==
  /\ \/ at["handler"] = "new"
     \/ at["handler"] = "thin" /\ ~ AtLast("handler") /\ ~ FarEnough("handler")
  /\ ~ Allocates("handler")
  /\ UNCHANGED vars
-----------------------------------------------------------------------------
AddSample(c) ==
  TakeTime(c) \/ Push(c) \/ BeginReduce(c) \/ Thin(c) \/ EndReduce(c)

Program ==
  \/ \E c \in Context : AddSample(c)
  \/ Deliver \/ HandlerReturns
  \/ StartTimer \/ InitFails \/ AppMallocReturns \/ AppReturns
  \/ FiniSample \/ FiniReduce \/ Exit

Next == Program \/ AppMalloc \/ Tick \/ Exited \/ Hung

Spec == Init /\ [][Next]_vars

\* The process runs; the application does not call malloc for ever.
FairSpec == Spec /\ WF_vars(Program) /\ SF_vars(AppReturns)

-----------------------------------------------------------------------------
(* Properties. *)

Samples == [count : Nat, time : 0 .. MaxTime]
Places == {"init_sample", "app", "app_malloc", "stopping", "fini_sample",
           "fini_reduce", "exited", "failed"}

\* Every variable keeps its type.
TypeOK ==
  /\ now \in 0 .. MaxTime /\ expires \in Nat /\ pending \in BOOLEAN
  /\ main \in Places
  /\ at \in [Context -> {"idle", "enter", "new", "reduce", "thin", "leave"}]
  /\ time \in [Context -> 0 .. MaxTime]
  /\ keep \in [Context -> Nat] /\ it \in [Context -> Nat]
  /\ delta \in [Context -> 0 .. MaxTime]
  /\ sampleList \in Seq(Samples)
  /\ count \in Nat /\ total \in Nat /\ warned \in BOOLEAN

\* The handler never interrupts addSample or reduceSampleList: they have no lock,
\* and are called in the main flow only before the timer is started and after it
\* was stopped (trace.cpp:201-216, 225-241).
NoReentry == InHandler => at["main"] = "idle"

\* Is no context inside of addSample?
AtRest == \A c \in Context : at[c] \in {"idle", "enter", "leave"}

\* "always keep last sample", and "never the end" for the one kept first: however
\* often the list is thinned out, it spans all of the run, in the order the samples
\* were taken (trace.cpp:128-137, 156-170).
SpansTheRun ==
  /\ AtRest /\ count > 0 =>
       /\ sampleList[1].count = 1
       /\ sampleList[Len(sampleList)].count = count
  /\ \A k \in 2 .. Len(sampleList) :
       /\ sampleList[k - 1].count < sampleList[k].count
       /\ sampleList[k - 1].time <= sampleList[k].time

\* When a reduction ends, the samples it kept are delta apart, but for the last, and
\* there is room: addSample never returns with a list too long, so not every sample
\* after the first MAX_SAMPLES pays for a reduction (trace.cpp:126-150, 172-174).
\* The rounding of delta can spoil that if the interrupts come too fast or the two
\* lengths are next to each other, which with the values of the code (30, 50, 2000
\* microseconds) they do not and are not.
CoarseEnough ==
  /\ MaxSamples > MinSamples + 1
  /\ (MaxSamples - 1) * Period >= MinSamples * MinSamples
MakesRoom ==
  /\ \A c \in Context : at[c] = "thin" /\ AtLast(c) =>
       \A k \in 2 .. Len(sampleList) - 1 :
         sampleList[k].time >= sampleList[k - 1].time + delta[c]
  /\ CoarseEnough /\ AtRest => Len(sampleList) <= MaxSamples

\* What fini prints is the number of samples that were taken (line 228), though
\* it is printed before the last one: no sample comes between or after.  Only if
\* getcontext failed is it one too many.
TotalTrue ==
  main = "exited" => total = count + (IF warned THEN 1 ELSE 0)

\* With an allocator of its own, the profiler lets the application end.
AppEnds == <>(main \in {"exited", "failed"} \/ shared_malloc)
=============================================================================
