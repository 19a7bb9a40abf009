---------------------------- MODULE DataExchange ----------------------------
(***************************************************************************)
(* hypre_DataExchangeList of AMG2013 (utilities/exchange_data.c): a        *)
(* process contacts others that do not know how many contacts they will    *)
(* get.  It answers what it probes, waits for its own responses, and takes *)
(* part in a sweep up and down a binary tree that tells when to stop.  A   *)
(* response longer than agreed comes in two messages.                      *)
(*                                                                         *)
(* Messages of one sender, receiver and tag stay in order; how long they   *)
(* take is open, so a probe or a test may miss a message that was sent.    *)
(***************************************************************************)
EXTENDS Integers, Sequences, FiniteSets

CONSTANTS
  NumProcs,
  Rnums,         \* the argument rnum of each call that the program makes
  ContactLists,  \* each process's choices for contact_proc_list
  MaxContacts,   \* a bound on their lengths
  Verbose        \* whose responses may be longer than max_response_size

ASSUME ExchangeAssumption ==
  /\ NumProcs \in Nat \ {0}
  /\ Rnums \in Seq(Nat \ {0})
  /\ DOMAIN ContactLists = 0 .. NumProcs - 1
  /\ \A p \in 0 .. NumProcs - 1 : ContactLists[p] \subseteq Seq(0 .. NumProcs - 1)
  /\ MaxContacts \in Nat
  /\ \A p \in 0 .. NumProcs - 1 : \A list \in ContactLists[p] : Len(list) <= MaxContacts
  /\ Verbose \subseteq 0 .. NumProcs - 1

\* "two consequentive exchanges should have different rnums" (line 134).
ASSUME RnumsAlternate ==
  \A k \in 1 .. Len(Rnums) - 1 : Rnums[k] # Rnums[k + 1]

Proc == 0 .. NumProcs - 1
Root == 0
Call == 1 .. Len(Rnums)

VARIABLES
  pc,                  \* "out", "loop", "parent", "post" or "crash"
  call,                \* of each process: the number of its last call
  contact_proc_list,
  responses_complete, children_complete,
  responses,           \* initial_recv_buf, once responses_complete
  chan                 \* messages under way: of a sender, receiver and tag

flags == <<responses_complete, children_complete>>
vars  == <<pc, call, contact_proc_list, flags, responses, chan>>

Goto(p, label) == pc' = [pc EXCEPT ![p] = label]

-----------------------------------------------------------------------------
(* The tree.  An operator "x_..." before an operator "x" is a mutant of x. *)

\* The values of i in the loops: 1 and, as long as it is in the range, each one doubled.
Doubled(S) == 1 \in S /\ \A i \in S : 2 * i <= NumProcs => 2 * i \in S
PowersOfTwo ==
  {i \in 1 .. NumProcs : \A S \in SUBSET (1 .. NumProcs) : Doubled(S) => i \in S}

Children_without_last(p) ==
  {p + i : i \in {j \in PowersOfTwo : p % (2 * j) = 0 /\ p + j < NumProcs - 1}}
Children(p) ==
  {p + i : i \in {j \in PowersOfTwo : p % (2 * j) = 0 /\ p + j < NumProcs}}

\* Without its lowest bit, a process is its parent.
Parent(p) ==
  IF p = Root THEN Root
  ELSE p - CHOOSE i \in PowersOfTwo : p % i = 0 /\ p % (2 * i) # 0

-----------------------------------------------------------------------------
(* Messages. *)

Kinds == {"contact", "response", "term", "post"}

ContactTag(p) == <<"contact", Rnums[call[p]]>>
Tag(kind, p) == <<kind, Rnums[call[p]]>>

Tags == Kinds \X {Rnums[k] : k \in Call}
Channel == Proc \X Proc \X Tags

\* The contacts of p, and those to q, by their place in the list.
Indices(p) == DOMAIN contact_proc_list[p]
IndicesTo(p, q) == {i \in Indices(p) : contact_proc_list[p][i] = q}
Rank(i, set) == Cardinality({j \in set : j <= i})

\* The message for the request i of p, which asks for the messages of one tag
\* in the order of its requests.
Matching(p, i, among, kind) ==
  LET q == contact_proc_list[p][i]
  IN  chan[<<q, p, Tag(kind, p)>>][Rank(i, {j \in among : contact_proc_list[p][j] = q})]

Arrived(p, among, kind) ==
  \A q \in Proc :
    Len(chan[<<q, p, Tag(kind, p)>>]) >=
      Cardinality({i \in among : contact_proc_list[p][i] = q})

\* The messages that are left when the requests "among" of p are complete.
Received(p, among, kind) ==
  [c \in Channel |->
     IF c[2] = p /\ c[3] = Tag(kind, p)
     THEN SubSeq(chan[c],
                 Cardinality({i \in among : contact_proc_list[p][i] = c[1]}) + 1,
                 Len(chan[c]))
     ELSE chan[c]]

Take(from, to, tag, network) == [network EXCEPT ![<<from, to, tag>>] = Tail(@)]
Send(from, to, tag, message, network) ==
  [network EXCEPT ![<<from, to, tag>>] = Append(@, message)]

TermFrom(set, p) == \A q \in set : chan[<<q, p, Tag("term", p)>>] # <<>>
TakeTerm(set, p, network) ==
  [c \in Channel |->
     IF c[1] \in set /\ c[2] = p /\ c[3] = Tag("term", p)
     THEN Tail(network[c]) ELSE network[c]]
SendTerm(set, p, network) ==
  [c \in Channel |->
     IF c[1] = p /\ c[2] \in set /\ c[3] = Tag("term", p)
     THEN Append(network[c], "term") ELSE network[c]]

-----------------------------------------------------------------------------
Init ==
  /\ pc = [p \in Proc |-> "out"]
  /\ call = [p \in Proc |-> 0]
  /\ contact_proc_list = [p \in Proc |-> <<>>]
  /\ responses_complete = [p \in Proc |-> FALSE]
  /\ children_complete = [p \in Proc |-> FALSE]
  /\ responses = [p \in Proc |-> <<>>]
  /\ chan = [c \in Channel |-> <<>>]

\* The list of contacts as messages to q, oldest first.
ContactsTo(p, q, list) ==
  LET mine == {i \in DOMAIN list : list[i] = q}
  IN  [k \in 1 .. Cardinality(mine) |->
         [in |-> call[p] + 1, nr |-> CHOOSE i \in mine : Rank(i, mine) = k]]

\* With one process and no contacts, "terminate" and "tree" are not initialized:
\* the loop is skipped, or its last branch sends to children that are not there.
Uninitialized(list) == NumProcs = 1 /\ list = <<>>

\* The call up to the loop: the receives for the responses, the contacts, the
\* receives from the children.
Begin(p) ==
  /\ pc[p] = "out" /\ call[p] < Len(Rnums)
  /\ call' = [call EXCEPT ![p] = @ + 1]
  /\ \E list \in ContactLists[p] :
       /\ contact_proc_list' = [contact_proc_list EXCEPT ![p] = list]
       /\ responses_complete' = [responses_complete EXCEPT ![p] = (list = <<>>)]
       /\ chan' = [c \in Channel |->
                     IF c[1] = p /\ c[3] = ContactTag(p)'
                     THEN chan[c] \o ContactsTo(p, c[2], list)
                     ELSE chan[c]]
       /\ IF Uninitialized(list)
          THEN Goto(p, "post") \/ Goto(p, "crash")
          ELSE Goto(p, "loop")
  /\ children_complete' = [children_complete EXCEPT ![p] = (NumProcs = 1)]
  /\ responses' = [responses EXCEPT ![p] = <<>>]

Missing == [in |-> 0, nr |-> 0]

\* A probe finds a contact of some process: fill_response, the second part of a
\* response that is too long, the response.
FillResponse(p) ==
  /\ pc[p] = "loop"
  /\ \E q \in Proc, too_long \in BOOLEAN :
       /\ chan[<<q, p, ContactTag(p)>>] # <<>>
       /\ too_long => p \in Verbose
       /\ LET contact == Head(chan[<<q, p, ContactTag(p)>>])
              answer == [to |-> contact, by |-> p, in |-> call[p],
                         rest |-> IF too_long THEN Missing ELSE contact]
              rest == Take(q, p, ContactTag(p), chan)
              part == IF too_long THEN Send(p, q, Tag("post", p), contact, rest) ELSE rest
          IN  chan' = Send(p, q, Tag("response", p), answer, part)
  /\ UNCHANGED <<pc, call, contact_proc_list, flags, responses>>

\* MPI_Testall of the responses.
ResponsesComplete(p) ==
  /\ pc[p] = "loop" /\ ~ responses_complete[p]
  /\ Arrived(p, Indices(p), "response")
  /\ responses_complete' = [responses_complete EXCEPT ![p] = TRUE]
  /\ responses' = [responses EXCEPT ![p] =
                     [i \in Indices(p) |-> Matching(p, i, Indices(p), "response")]]
  /\ chan' = Received(p, Indices(p), "response")
  /\ Goto(p, IF NumProcs = 1 THEN "post" ELSE "loop")
  /\ UNCHANGED <<call, contact_proc_list, children_complete>>

ReadyForSweep(p) == responses_complete[p]

\* MPI_Testall of the term messages of the children; then tell the parent.
ChildrenComplete(p) ==
  /\ pc[p] = "loop" /\ ReadyForSweep(p) /\ ~ children_complete[p]
  /\ TermFrom(Children(p), p)
  /\ children_complete' = [children_complete EXCEPT ![p] = TRUE]
  /\ chan' = LET rest == TakeTerm(Children(p), p, chan)
             IN  IF p = Root THEN rest ELSE SendTerm({Parent(p)}, p, rest)
  /\ Goto(p, IF p = Root THEN "loop" ELSE "parent")
  /\ UNCHANGED <<call, contact_proc_list, responses_complete, responses>>

\* MPI_Irecv from the parent, only after the message to it was sent.
ReceiveFromParent(p) ==
  /\ pc[p] = "parent"
  /\ Goto(p, "loop")
  /\ UNCHANGED <<call, contact_proc_list, flags, responses, chan>>

TermToChildren_all_but_one(p) ==
  IF Children(p) = {} THEN {}
  ELSE Children(p) \ {CHOOSE q \in Children(p) : TRUE}
TermToChildren(p) == Children(p)

\* The root decides to terminate, others hear it from their parent.
Terminate(p) ==
  /\ pc[p] = "loop" /\ responses_complete[p] /\ children_complete[p]
  /\ NumProcs > 1
  /\ p # Root => TermFrom({Parent(p)}, p)
  /\ chan' = LET rest == IF p = Root THEN chan ELSE TakeTerm({Parent(p)}, p, chan)
             IN  SendTerm(TermToChildren(p), p, rest)
  /\ Goto(p, "post")
  /\ UNCHANGED <<call, contact_proc_list, flags, responses>>

LongOnes_none(p) == {}
LongOnes(p) == {i \in Indices(p) : responses[p][i].rest = Missing}

\* Post processing: receive the second parts, in the order of the contacts.  That the own
\* sends are then waited for is left out: their receives are posted whatever this process does.
PostProcess(p) ==
  /\ pc[p] = "post"
  /\ Arrived(p, LongOnes(p), "post")
  /\ chan' = Received(p, LongOnes(p), "post")
  /\ responses' = [responses EXCEPT ![p] =
       [i \in Indices(p) |->
          IF i \in LongOnes(p)
          THEN [responses[p][i] EXCEPT
                  !.rest = Matching(p, i, LongOnes(p), "post")]
          ELSE responses[p][i]]]
  /\ Goto(p, "out")
  /\ UNCHANGED <<call, contact_proc_list, flags>>

\* Every process has made all of its calls.
Finished ==
  /\ \A p \in Proc : pc[p] = "out" /\ call[p] = Len(Rnums)
  /\ UNCHANGED vars

-----------------------------------------------------------------------------
Step(p) ==
  \/ Begin(p) \/ FillResponse(p) \/ ResponsesComplete(p) \/ ChildrenComplete(p)
  \/ ReceiveFromParent(p) \/ Terminate(p) \/ PostProcess(p)

Next == (\E p \in Proc : Step(p)) \/ Finished

Spec == Init /\ [][Next]_vars

\* Every process runs, and the program makes the calls in all of them.
FairSpec == Spec /\ \A p \in Proc : WF_vars(Step(p))

-----------------------------------------------------------------------------
(* Properties. *)

\* When the call returns, the response in each place of the list is that of the
\* process in that place, made in the same exchange, to the contact in that place,
\* and with both of its parts (exchange_data.c:260-288, 429-433, 507-558).  Contacts may
\* repeat a process, and calls follow each other without a barrier between them.
AnsweredRightly ==
  \A p \in Proc : pc[p] = "out" /\ call[p] > 0 =>
    /\ Len(responses[p]) = Len(contact_proc_list[p])
    /\ \A i \in Indices(p) :
         LET contact == [in |-> call[p], nr |-> i]
         IN  responses[p][i] = [to |-> contact, by |-> contact_proc_list[p][i],
                                in |-> call[p], rest |-> contact]

\* When all processes are out of an exchange none of its messages is left behind,
\* which a receive of a later call with the same tag would take.
NothingLeftBehind ==
  (\A p, q \in Proc : pc[p] = "out" /\ call[p] = call[q]) =>
    \A c \in Channel : chan[c] = <<>>

\* All calls return in all processes.
AllReturn == <>(\A p \in Proc : pc[p] = "out" /\ call[p] = Len(Rnums))

\* A process leaves when it stops probing, a single one when it returns.
Gone(p) == pc[p] = "out" \/ (pc[p] = "post" /\ NumProcs > 1)

\* The contacts under way.
Open ==
  {c \in [from : Proc, to : Proc, in : Call, nr : 1 .. MaxContacts] :
     LET network == chan[<<c.from, c.to, <<"contact", Rnums[c.in]>>>>] IN
     \E k \in DOMAIN network : network[k] = [in |-> c.in, nr |-> c.nr]}

Abstract == INSTANCE Exchange WITH
  NumExchanges <- Len(Rnums),
  entered <- call,
  left <- [p \in Proc |-> IF Gone(p) THEN call[p] ELSE call[p] - 1],
  open <- Open

\* The exchange with all of its messages implements the exchange without any:
\* nobody stops probing before all processes are in the exchange and all of its
\* contacts, known to nobody but their senders, were answered.
ImplementsExchange == Abstract!Spec
=============================================================================
