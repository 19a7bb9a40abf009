------------------------------ MODULE Exchange ------------------------------
(***************************************************************************)
(* What hypre_DataExchangeList promises: processes go through a sequence   *)
(* of exchanges together.  In an exchange a process opens a contact with   *)
(* others, which answer while they are in the same exchange, and nobody    *)
(* leaves it before all have entered and every contact is answered.        *)
(***************************************************************************)
EXTENDS Integers, FiniteSets

CONSTANTS
  Proc,
  NumExchanges,
  MaxContacts

VARIABLES
  entered,   \* of each process: the number of exchanges it has entered
  left,      \* of each process: the number of exchanges it has left
  open       \* contacts without an answer

vars == <<entered, left, open>>

Contact == [from : Proc, to : Proc, in : 1 .. NumExchanges, nr : 1 .. MaxContacts]

Init ==
  /\ entered = [p \in Proc |-> 0] /\ left = [p \in Proc |-> 0]
  /\ open = {}

\* p enters its next exchange with a list of contacts.
EnterWith(p, list) ==
  /\ entered[p] = left[p] /\ entered[p] < NumExchanges
  /\ entered' = [entered EXCEPT ![p] = @ + 1]
  /\ open' = open \cup list
  /\ UNCHANGED left

\* It has at most one contact of each number.
Enter(p) ==
  \E list \in SUBSET {c \in Contact : c.from = p /\ c.in = entered[p] + 1} :
    /\ \A c, d \in list : c.nr = d.nr => c = d
    /\ EnterWith(p, list)

Answer(c) ==
  /\ c \in open
  /\ entered[c.to] = c.in /\ left[c.to] < c.in
  /\ open' = open \ {c}
  /\ UNCHANGED <<entered, left>>

Leave(p) ==
  /\ left[p] < entered[p]
  /\ \A q \in Proc : entered[q] >= entered[p]
  /\ \A c \in open : c.in # entered[p]
  /\ left' = [left EXCEPT ![p] = @ + 1]
  /\ UNCHANGED <<entered, open>>

Next ==
  \/ \E p \in Proc : Enter(p) \/ Leave(p)
  \/ \E c \in open : Answer(c)

Spec == Init /\ [][Next]_vars
=============================================================================
