------------------------------- MODULE WorkList -------------------------------
(***************************************************************************)
(* What the work list of memstress promises the threads that share it: a   *)
(* first-in first-out queue with two atomic operations, Add of a new item  *)
(* and Exchange of a new item for the oldest one.  An item that a thread   *)
(* received is its own until it discards it, and Exchange never fails.     *)
(***************************************************************************)
EXTENDS Sequences, Naturals

CONSTANTS Thread, Item, None

VARIABLES
  queue,   \* the items on the list, oldest first
  got      \* the item each thread received and has not discarded, or None

vars == <<queue, got>>

InUse == {queue[k] : k \in 1 .. Len(queue)} \cup {got[t] : t \in Thread}

Init == queue = <<>> /\ got = [t \in Thread |-> None]

Add(x) ==
  /\ queue' = Append(queue, x)
  /\ UNCHANGED got

Exchange(t, x) ==
  /\ got[t] = None
  /\ queue # <<>>
  /\ got' = [got EXCEPT ![t] = Head(queue)]
  /\ queue' = Append(Tail(queue), x)

Discard(t) ==
  /\ got[t] # None
  /\ got' = [got EXCEPT ![t] = None]
  /\ UNCHANGED queue

\* A step of the program that is none of the queue's.  (It comes first so that TLC
\* does not try the operations on it.)
Idle == UNCHANGED vars

\* A new item is one that is not in use.
Next ==
  \/ Idle
  \/ \E x \in Item \ InUse : Add(x) \/ \E t \in Thread : Exchange(t, x)
  \/ \E t \in Thread : Discard(t)

Spec == Init /\ [][Next]_vars
=============================================================================
