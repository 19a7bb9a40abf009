------------------------------ MODULE ParMatvec ------------------------------
(***************************************************************************)
(* The distributed matrices of AMG2013 at work (parcsr_mv): for each of a  *)
(* sequence of matrices the processes locate the owners of the rows they   *)
(* are assumed for, find out in two exchanges what they receive and send,  *)
(* and multiply the matrix, or its transpose, by vectors.  The exchanges   *)
(* are those of module Exchange, which DataExchange implements.            *)
(*                                                                         *)
(* No barrier lies between a step and the next, or between two matrices:   *)
(* messages of the same tag from one process to another arrive in order,   *)
(* those of different processes in any order.  The number at a component   *)
(* of a vector stands for a term "of" a column or row in product "nr".     *)
(***************************************************************************)
EXTENDS CommPkg, Bags

CONSTANTS
  Programs,   \* sequences of matrices
  NumRounds,  \* the length of each
  Jobs        \* the products made with each matrix: 1 and, of its transpose, 2

ASSUME ProgramAssumption ==
  /\ NumRounds \in Nat
  /\ \A prg \in Programs :
       /\ DOMAIN prg = 1 .. NumRounds
       /\ \A k \in 1 .. NumRounds : IsMatrix(prg[k])
  /\ Jobs \in Seq({1, 2})

VARIABLES
  program,
  pc,         \* "start", "locate", "partition", "recvs", "contact", "sends" or "pkg",
              \* "product"
  round,      \* of each process: its current matrix, or the next
  apart,      \* its part of the assumed partition
  rows_found, \* while it locates the rows of that
  mail,       \* ranges under way, tag 17: of a sender and a receiver
  contacts, responses,       \* of the exchange it is in
  recvs, sends,              \* its communication package
  entered, left, open,       \* the exchanges
  nr,         \* how many products it has started with the matrix
  data,       \* vectors under way, tag 0: of a sender and a receiver
  y           \* the rows of the last product

exchange == <<entered, left, open>>
package  == <<recvs, sends>>
located  == <<apart, rows_found, mail>>
vars == <<program, pc, round, located, contacts, responses, package, exchange,
          nr, data, y>>

Ex == INSTANCE Exchange WITH NumExchanges <- 2 * NumRounds, MaxContacts <- NumProcs

A(p) == program[round[p]]
Cols(p) == A(p).col_map_offd[p]
Goto(p, label) == pc' = [pc EXCEPT ![p] = label]

Init ==
  /\ program \in Programs
  /\ pc = [p \in Proc |-> "start"] /\ round = [p \in Proc |-> 1]
  /\ apart = [p \in Proc |-> <<>>] /\ rows_found = [p \in Proc |-> 0]
  /\ mail = [c \in Proc \X Proc |-> <<>>]
  /\ contacts = [p \in Proc |-> <<>>] /\ responses = [p \in Proc |-> <<>>]
  /\ recvs = [p \in Proc |-> <<>>] /\ sends = [p \in Proc |-> <<>>]
  /\ Ex!Init
  /\ nr = [p \in Proc |-> 0] /\ data = [c \in Proc \X Proc |-> <<>>]
  /\ y = [p \in Proc |-> <<>>]

-----------------------------------------------------------------------------
(* Locate the owners of the assumed rows. *)

\* Up to the loop of receives.
Locate(p) ==
  /\ pc[p] = "start" /\ round[p] <= NumRounds
  /\ LET ranges == ContactRanges(p, ColStart(A(p), p), ColEnd(A(p), p))
         list   == UNION {RangeContacts(r) : r \in ranges}
         to(q)  == InOrder({c \in list : c.to = q})
     IN  mail' = [c \in Proc \X Proc |->
                    IF c[1] = p THEN mail[c] \o to(c[2]) ELSE mail[c]]
  /\ apart' = [apart EXCEPT ![p] = OwnPiece(p, ColStart(A(p), p), ColEnd(A(p), p))]
  /\ Goto(p, "locate")
  /\ UNCHANGED <<program, round, rows_found, contacts, responses, package, exchange, nr, data, y>>

RowsToFind(p) == LocateRowCount(p, ColStart(A(p), p), ColEnd(A(p), p))

\* One receive, from any process.
LocateRows(p) ==
  /\ pc[p] = "locate" /\ rows_found[p] # RowsToFind(p)
  /\ \E q \in Proc :
       /\ mail[<<q, p>>] # <<>>
       /\ LET range == Head(mail[<<q, p>>])
              piece == [proc |-> q, start |-> range.start, end |-> range.end]
          IN  /\ apart' = [apart EXCEPT ![p] = Append(@, piece)]
              /\ rows_found' = [rows_found EXCEPT ![p] = @ + RowsOf(piece)]
       /\ mail' = [mail EXCEPT ![<<q, p>>] = Tail(@)]
  /\ UNCHANGED <<program, pc, round, contacts, responses, package, exchange, nr, data, y>>

\* The sort and MPI_Waitall, which may return before the ranges are received.
Located(p) ==
  /\ pc[p] = "locate" /\ rows_found[p] = RowsToFind(p)
  /\ \E pieces \in SortsOf(apart[p]) : apart' = [apart EXCEPT ![p] = pieces]
  /\ rows_found' = [rows_found EXCEPT ![p] = 0]
  /\ Goto(p, "partition")
  /\ UNCHANGED <<program, round, mail, contacts, responses, package, exchange, nr, data, y>>

-----------------------------------------------------------------------------
(* Create the communication package. *)

\* Call hypre_DataExchangeList with a list of contacts.
CallExchange(p, list, label) ==
  /\ Ex!EnterWith(p, {[from |-> p, to |-> list[k].to, in |-> entered[p] + 1, nr |-> k] :
                        k \in DOMAIN list})
  /\ contacts' = [contacts EXCEPT ![p] = list]
  /\ responses' = [responses EXCEPT ![p] = [k \in DOMAIN list |-> <<>>]]
  /\ Goto(p, label)

ContactAssumedOwners(p) ==
  /\ pc[p] = "partition"
  /\ \E list \in {RangeContactList(Cols(p))} : CallExchange(p, list, "recvs")
  /\ UNCHANGED <<program, round, located, package, nr, data, y>>

\* c.to answers, called from its exchange.
FillRanges(c) ==
  /\ pc[c.to] = "recvs"
  /\ Ex!Answer(c)
  /\ responses' = [responses EXCEPT ![c.from][c.nr] =
                     RangeResponse(apart[c.to], contacts[c.from][c.nr].buf)]
  /\ UNCHANGED <<program, pc, round, located, contacts, package, nr, data, y>>

\* The exchange returns.
DetermineRecvProcs(p) ==
  /\ pc[p] = "recvs"
  /\ Ex!Leave(p)
  /\ recvs' = [recvs EXCEPT ![p] = RecvProcs(p, Cols(p), FlattenSeq(responses[p]))]
  /\ contacts' = [contacts EXCEPT ![p] = <<>>]
  /\ responses' = [responses EXCEPT ![p] = <<>>]
  /\ Goto(p, "contact")
  /\ UNCHANGED <<program, round, located, sends, nr, data, y>>

ContactRecvProcs(p) ==
  /\ pc[p] = "contact"
  /\ \E list \in {SendContactList(Cols(p), recvs[p])} : CallExchange(p, list, "sends")
  /\ sends' = [sends EXCEPT ![p] = <<>>]
  /\ UNCHANGED <<program, round, located, recvs, nr, data, y>>

FillSendProc(c) ==
  /\ pc[c.to] = "sends"
  /\ Ex!Answer(c)
  /\ sends' = [sends EXCEPT ![c.to] =
       Append(@, [proc |-> c.from, elmts |-> contacts[c.from][c.nr].buf])]
  /\ UNCHANGED <<program, pc, round, located, contacts, responses, recvs, nr, data, y>>

DetermineSendProcs(p) ==
  /\ pc[p] = "sends"
  /\ Ex!Leave(p)
  /\ \E list \in SendProcs(sends[p], ColStart(A(p), p)) :
       sends' = [sends EXCEPT ![p] = list]
  /\ contacts' = [contacts EXCEPT ![p] = <<>>]
  /\ responses' = [responses EXCEPT ![p] = <<>>]
  /\ Goto(p, "pkg")
  /\ UNCHANGED <<program, round, located, recvs, nr, data, y>>

-----------------------------------------------------------------------------
(* Products.  y == A x is job 1, y == A^T x is job 2. *)

Term(k, i) == [nr |-> k, of |-> i]
TermsOf(k, S) == SetToBag({Term(k, i) : i \in S})

SumOf(bags) == FoldSeq(LAMBDA b, sum : b (+) sum, EmptyBag, bags)

\* What p sends to each entry of its package: for job 1 its part of x, for job 2
\* its sums for columns of others.
SendData(p, job, k) ==
  IF job = 1
  THEN [i \in DOMAIN sends[p] |->
          [to |-> sends[p][i].proc,
           buf |-> [j \in DOMAIN sends[p][i].elmts |->
                      TermsOf(k, {ColStart(A(p), p) + sends[p][i].elmts[j]})]]]
  ELSE LET sum(col) == TermsOf(k, {r \in Own(A(p), p) : <<r, col>> \in A(p).nonzeros})
       IN  [i \in DOMAIN recvs[p] |->
              [to |-> recvs[p][i].proc,
               buf |-> [j \in DOMAIN RecvCols(Cols(p), recvs[p], i) |->
                          sum(RecvCols(Cols(p), recvs[p], i)[j])]]]

Senders(p, job) ==
  LET list == IF job = 1 THEN recvs[p] ELSE sends[p]
  IN  [i \in DOMAIN list |-> list[i].proc]

\* hypre_ParCSRCommHandleCreate: the receives are posted, the sends started.
StartProduct(p) ==
  /\ pc[p] = "pkg" /\ nr[p] < Len(Jobs)
  /\ nr' = [nr EXCEPT ![p] = @ + 1]
  /\ LET list == SendData(p, Jobs[nr[p] + 1], nr[p] + 1)
         to(q) == Sorted({i \in DOMAIN list : list[i].to = q})
     IN  data' = [c \in Proc \X Proc |->
                    IF c[1] = p
                    THEN data[c] \o [n \in DOMAIN to(c[2]) |-> list[to(c[2])[n]].buf]
                    ELSE data[c]]
  /\ Goto(p, "product")
  /\ UNCHANGED <<program, round, located, contacts, responses, package, exchange, y>>

\* The product of the local rows, or the local sums with those received.
Product(p, received) ==
  LET cols == Cols(p)
      from(j) == CHOOSE i \in DOMAIN recvs[p] :
                   RecvStart(recvs[p], i) <= j /\ j <= recvs[p][i].end
      x_tmp(j) == received[from(j)][j - RecvStart(recvs[p], from(j)) + 1]
  IN  [r \in Own(A(p), p) |->
         TermsOf(nr[p], {c \in Own(A(p), p) : <<r, c>> \in A(p).nonzeros}) (+)
         SumOf([j \in DOMAIN cols |->
                  IF <<r, cols[j]>> \in A(p).nonzeros THEN x_tmp(j) ELSE EmptyBag])]
ProductT(p, received) ==
  [c \in Own(A(p), p) |->
     TermsOf(nr[p], {r \in Own(A(p), p) : <<r, c>> \in A(p).nonzeros}) (+)
     SumOf([i \in DOMAIN sends[p] |->
              SumOf([j \in DOMAIN sends[p][i].elmts |->
                       IF ColStart(A(p), p) + sends[p][i].elmts[j] = c
                       THEN received[i][j] ELSE EmptyBag])])]

\* hypre_ParCSRCommHandleDestroy: the receives complete; the sends may before.
FinishProduct(p) ==
  /\ pc[p] = "product"
  /\ LET job == Jobs[nr[p]]  from == Senders(p, job)
     IN  /\ \A i \in DOMAIN from : data[<<from[i], p>>] # <<>>
         /\ data' = [c \in Proc \X Proc |->
                       IF c[2] = p /\ \E i \in DOMAIN from : from[i] = c[1]
                       THEN Tail(data[c]) ELSE data[c]]
         /\ LET received == [i \in DOMAIN from |-> Head(data[<<from[i], p>>])]
            IN  y' = [y EXCEPT ![p] = IF job = 1 THEN Product(p, received)
                                      ELSE ProductT(p, received)]
  /\ Goto(p, "pkg")
  /\ UNCHANGED <<program, round, located, contacts, responses, package, exchange, nr>>

\* hypre_NewCommPkgDestroy and hypre_ParCSRMatrixDestroyAssumedPartition.
Destroy(p) ==
  /\ pc[p] = "pkg" /\ nr[p] = Len(Jobs)
  /\ recvs' = [recvs EXCEPT ![p] = <<>>] /\ sends' = [sends EXCEPT ![p] = <<>>]
  /\ apart' = [apart EXCEPT ![p] = <<>>]
  /\ nr' = [nr EXCEPT ![p] = 0] /\ y' = [y EXCEPT ![p] = <<>>]
  /\ round' = [round EXCEPT ![p] = @ + 1]
  /\ Goto(p, "start")
  /\ UNCHANGED <<program, rows_found, mail, contacts, responses, exchange, data>>

Done(p) == pc[p] = "start" /\ round[p] = NumRounds + 1
Finished == (\A p \in Proc : Done(p)) /\ UNCHANGED vars

-----------------------------------------------------------------------------
Step(p) ==
  \/ Locate(p) \/ LocateRows(p) \/ Located(p)
  \/ ContactAssumedOwners(p) \/ DetermineRecvProcs(p)
  \/ ContactRecvProcs(p) \/ DetermineSendProcs(p)
  \/ \E c \in open : c.to = p /\ (FillRanges(c) \/ FillSendProc(c))
  \/ StartProduct(p) \/ FinishProduct(p) \/ Destroy(p)

Next == (\E p \in Proc : Step(p)) \/ Finished

Spec == Init /\ [][Next]_vars

\* Every process runs.  MPI owes the end of a wait for sends only when the receives
\* of all of them are posted.
WaitsForSends(p) ==
  \/ pc[p] = "locate" /\ rows_found[p] = RowsToFind(p)
  \/ pc[p] = "product"
SendsTaken(p) ==
  \A q \in Proc : /\ mail[<<p, q>>] = <<>>
                  /\ Len(data[<<p, q>>]) <= IF pc[q] = "product" THEN 1 ELSE 0
FairSpec ==
  Spec /\ \A p \in Proc : WF_vars(Step(p) /\ (WaitsForSends(p) => SendsTaken(p)))

-----------------------------------------------------------------------------
(* Properties. *)

\* When a process has located its rows its part of the assumed partition is the
\* range it is assumed for, cut into pieces in order, each with the process that owns
\* its rows in this matrix (par_csr_assumed_part.c:258-299).  The ranges come from any
\* process in any order, and those of two matrices have the same tag.
PartitionTrue ==
  \A p \in Proc : pc[p] \notin {"start", "locate"} =>
    LET pieces == apart[p]  n == Len(apart[p])
    IN  /\ \A k \in 1 .. n : pieces[k].start .. pieces[k].end \subseteq Own(A(p), pieces[k].proc)
        /\ \A k \in 1 .. n :
             pieces[k].start = IF k = 1 THEN RowStart(p) ELSE pieces[k - 1].end + 1
        /\ IF n = 0 THEN RowEnd(p) < RowStart(p) ELSE pieces[n].end = RowEnd(p)

\* The communication package is the one that the standard way gives, where every
\* process hears from all others (new_commpkg.c:422-424: the send processes are sorted
\* "to produce the same result as with the standard comm package").
SameAsStandard ==
  \A p \in Proc : pc[p] \in {"pkg", "product"} =>
    /\ recvs[p] = StandardRecvs(A(p), p)
    /\ sends[p] = StandardSends(A(p), p)

\* Each product is that of the whole matrix, or of its transpose, and of no other
\* product's vector: every term is there once (par_csr_matvec.c:106-155, 260-287).
\* Processes run ahead of each other by more than one product.
ProductTrue ==
  \A p \in Proc : pc[p] = "pkg" /\ nr[p] > 0 =>
    y[p] = [i \in Own(A(p), p) |->
              TermsOf(nr[p], {j \in Row : (IF Jobs[nr[p]] = 1 THEN <<i, j>> ELSE <<j, i>>)
                                             \in A(p).nonzeros})]

\* Every process comes to the end of the program.
AllDone == <>(\A p \in Proc : Done(p))
=============================================================================
