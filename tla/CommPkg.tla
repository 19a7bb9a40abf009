------------------------------- MODULE CommPkg -------------------------------
(***************************************************************************)
(* The local steps by which the processes of AMG2013 find out what they    *)
(* must send to each other to multiply a distributed matrix by a vector:   *)
(* hypre_LocateAssummedPartition, hypre_NewCommPkgCreate_core and the      *)
(* standard way, hypre_MatvecCommPkgCreate_core, as functions of the       *)
(* matrix and of what was received.  ParMatvec puts them together.         *)
(***************************************************************************)
EXTENDS AssumedPartition, Sequences, FiniteSets, FiniteSetsExt, SequencesExt

\* A square matrix: process p has the rows and columns from starts[p] to
\* starts[p + 1] - 1, knows the nonzeros of its rows, and numbers the columns of
\* others that it has nonzeros in, in order, in col_map_offd[p].
ColStart(A, p) == A.starts[p]
ColEnd(A, p) == A.starts[p + 1] - 1
Own(A, p) == ColStart(A, p) .. ColEnd(A, p)
Offd(A, p) == {c \in Row : \E r \in Own(A, p) : <<r, c>> \in A.nonzeros} \ Own(A, p)

\* The members of a set of numbers, in order.
Sorted(S) == [i \in 1 .. Cardinality(S) |->
                CHOOSE n \in S : Cardinality({m \in S : m <= n}) = i]

IsMatrix(A) ==
  /\ A.starts \in [0 .. NumProcs -> 0 .. NumRows] /\ A.nonzeros \subseteq Row \X Row
  /\ A.starts[0] = 0 /\ A.starts[NumProcs] = NumRows
  /\ \A p \in Proc : A.starts[p] <= A.starts[p + 1]
  /\ A.col_map_offd = [p \in Proc |-> Sorted(Offd(A, p))]

-----------------------------------------------------------------------------
(* hypre_LocateAssummedPartition for the rows start .. end of p. *)

NoOverlap(p, start, end) == RowEnd(p) < start \/ end < RowStart(p)

\* Rows of p that others are assumed for: at most two ranges.
ContactRanges(p, start, end) ==
  IF start > end THEN {}
  ELSE IF NoOverlap(p, start, end) THEN {[start |-> start, end |-> end]}
  ELSE {range \in {[start |-> start, end |-> RowStart(p) - 1],
                   [start |-> RowEnd(p) + 1, end |-> end]} : range.start <= range.end}

\* Who is assumed for a range, each with its part of the range.
RangeContacts(range) ==
  LET first == ProcFromRow(range.start)
      last  == Min({q \in first .. NumProcs - 1 : RowEnd(q) >= range.end})
  IN  IF first = ProcFromRow(range.end)
      THEN {[to |-> first, start |-> range.start, end |-> range.end]}
      ELSE {[to |-> q, start |-> Max({range.start, RowStart(q)}),
                       end |-> Min({range.end, RowEnd(q)})] : q \in first .. last}

\* Contacts in the order in which they are made.
InOrder(contacts) ==
  CHOOSE list \in [1 .. Cardinality(contacts) -> contacts] :
    \A j, k \in DOMAIN list : j < k => list[j].start < list[k].start

\* The rows that p is assumed for and must hear of.
LocateRowCount_with_own(p, start, end) == RowEnd(p) - RowStart(p) + 1
LocateRowCount_low_end_only(p, start, end) ==
  IF NoOverlap(p, start, end) THEN RowEnd(p) - RowStart(p) + 1
  ELSE IF RowStart(p) < start THEN start - RowStart(p) ELSE 0
LocateRowCount(p, start, end) ==
  IF NoOverlap(p, start, end) THEN RowEnd(p) - RowStart(p) + 1
  ELSE   (IF RowStart(p) < start THEN start - RowStart(p) ELSE 0)
       + (IF end < RowEnd(p) THEN RowEnd(p) - end ELSE 0)

\* What p has itself of the rows it is assumed for.
OwnPiece(p, start, end) ==
  LET piece == [proc |-> p, start |-> Max({RowStart(p), start}),
                end |-> Min({end, RowEnd(p)})]
  IN  IF piece.start <= piece.end THEN <<piece>> ELSE <<>>

RowsOf(piece) == piece.end - piece.start + 1

\* hypre_BigQsortbi and hypre_qsort2i: where the numbers stood, in an order in which no
\* number comes before a lesser one.
SortIndices(numbers) ==
  LET D == DOMAIN numbers
  IN  {f \in [D -> D] : /\ \A j, k \in D : f[j] = f[k] => j = k
                        /\ \A j, k \in D : j < k => numbers[f[j]] <= numbers[f[k]]}

\* The pieces by their first rows.
SortsOf(pieces) ==
  {[k \in DOMAIN pieces |-> pieces[si[k]]] :
     si \in SortIndices([k \in DOMAIN pieces |-> pieces[k].start])}

-----------------------------------------------------------------------------
(* hypre_NewCommPkgCreate_core. *)

\* The contacts: to whom is assumed for a column, the first and last such column.
\* A column beyond the range of the one before it starts a new contact.
RangeContactList(cols) ==
  LET starts == {i \in DOMAIN cols : i > 1 => cols[i] > RowEnd(ProcFromRow(cols[i - 1]))}
      last(i) == Max({j \in DOMAIN cols : \A s \in starts : s > i => j < s})
      contact(i) == [to |-> ProcFromRow(cols[i]), buf |-> <<cols[i], cols[last(i)]>>]
  IN  [k \in 1 .. Cardinality(starts) |-> contact(Sorted(starts)[k])]

\* hypre_RangeFillResponseIJDetermineRecvProcs: the owners of a range of columns,
\* each with the last column it has.
RangeResponse(pieces, buf) ==
  LET first == Min({j \in DOMAIN pieces : pieces[j].end >= buf[1]})
      last  == Min({j \in first .. Len(pieces) :
                      pieces[j].end >= buf[2] \/ j = Len(pieces)})
  IN  [k \in 1 .. last - first + 1 |->
         [proc |-> pieces[first + k - 1].proc, bound |-> pieces[first + k - 1].end]]

\* recv_procs and recv_vec_starts from the ranges: the columns from the end of one
\* entry to the end of the next come from its process.
RecvProcs(p, cols, ranges) ==
  LET end(k) == Cardinality({j \in DOMAIN cols :
                               \E m \in 1 .. k : cols[j] <= ranges[m].bound})
      used   == {k \in DOMAIN ranges : end(k) > end(k - 1)}
      next(k) == {m \in used : m > k}
      \* The last of the ranges of a process that follow each other.
      last   == Sorted({k \in used : /\ ranges[k].proc # p
                                     /\ next(k) # {} =>
                                          ranges[Min(next(k))].proc # ranges[k].proc})
  IN  [i \in DOMAIN last |-> [proc |-> ranges[last[i]].proc, end |-> end(last[i])]]

\* The places in col_map_offd of the columns that entry k of the recvs stands for.
RecvStart(recvs, k) == IF k = 1 THEN 1 ELSE recvs[k - 1].end + 1
RecvCols(cols, recvs, k) == SubSeq(cols, RecvStart(recvs, k), recvs[k].end)

\* The contacts of the second exchange: the columns, to who has them.
SendContactList(cols, recvs) ==
  [k \in DOMAIN recvs |-> [to |-> recvs[k].proc, buf |-> RecvCols(cols, recvs, k)]]

\* The send processes sorted, their elements as local indices.
LocalElmts_global(elmts, first_col_diag) == elmts
LocalElmts(elmts, first_col_diag) == [i \in DOMAIN elmts |-> elmts[i] - first_col_diag]
Localised(sends, order, first_col_diag) ==
  [k \in DOMAIN sends |-> [proc |-> sends[order[k]].proc,
                           elmts |-> LocalElmts(sends[order[k]].elmts, first_col_diag)]]
SendProcs_unsorted(sends, first_col_diag) ==
  {Localised(sends, [k \in DOMAIN sends |-> k], first_col_diag)}
SendProcs(sends, first_col_diag) ==
  {Localised(sends, orig_order, first_col_diag) :
     orig_order \in SortIndices([k \in DOMAIN sends |-> sends[k].proc])}

-----------------------------------------------------------------------------
(* hypre_MatvecCommPkgCreate_core: every process knows where the columns of all *)
(* start, and gathers from all others whom they receive from.                   *)

\* The process between whose starts a column lies.
OwnerOf(A, col) == CHOOSE q \in Proc : col \in Own(A, q)
Owners(A, p) == {OwnerOf(A, c) : c \in Offd(A, p)}

StandardRecvs(A, p) ==
  LET owners == Sorted(Owners(A, p))
  IN  [k \in DOMAIN owners |->
         [proc |-> owners[k],
          end |-> Cardinality({c \in Offd(A, p) : OwnerOf(A, c) <= owners[k]})]]

StandardSends(A, p) ==
  LET users == Sorted({q \in Proc : p \in Owners(A, q)})
      cols(q) == Sorted(Offd(A, q) \cap Own(A, p))
  IN  [k \in DOMAIN users |->
         [proc |-> users[k], elmts |-> LocalElmts(cols(users[k]), ColStart(A, p))]]
=============================================================================
