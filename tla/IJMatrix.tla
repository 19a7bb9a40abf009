------------------------------ MODULE IJMatrix ------------------------------
(***************************************************************************)
(* The matrix that the users of AMG2013 build (IJ_mv): every process sets  *)
(* and adds values in any row, those of rows it does not own are put aside *)
(* and sent to the owner when the matrix is assembled, in two exchanges:   *)
(* one to learn from who is assumed for a row who owns it, one with the    *)
(* values.  An assembled matrix may be initialized, changed and assembled  *)
(* again.                                                                  *)
(*                                                                         *)
(* A call is one row of a call in the code.  A row is the sequence of its  *)
(* elements, of the diagonal and the off-diagonal block in one.  The       *)
(* assumed partition is the one module ParMatvec shows to be created.      *)
(***************************************************************************)
EXTENDS CommPkg

CONSTANTS
  Programs,        \* the matrices, and the calls the processes make
  MaxAssemblies    \* the most calls of HYPRE_IJMatrixAssemble in one of them

Ops == {"initialize", "set", "add", "assemble"}
Elts == Seq([col : Row, val : Int])

ASSUME ProgramAssumption ==
  \A prg \in Programs :
    /\ prg.starts \in [0 .. NumProcs -> 0 .. NumRows]
    /\ prg.starts[0] = 0 /\ prg.starts[NumProcs] = NumRows
    /\ \A p \in Proc :
         /\ prg.starts[p] <= prg.starts[p + 1]
         /\ prg.calls[p] \in Seq([op : Ops, row : Row, elts : Elts])
         /\ prg.calls[p][1].op = "initialize"

VARIABLES
  program,
  pc,         \* "call"; in an assembly "reduce", "ranges", "owners" and "values"
  next,       \* the next call of each process
  ij,         \* its part of the matrix
  offered,    \* what it has given to each MPI_Allreduce it has called
  contacts, responses,   \* of the exchange it is in
  received,   \* the rows sent to it
  entered, left, open    \* the exchanges

exchange == <<entered, left, open>>
vars == <<program, pc, next, ij, offered, contacts, responses, received, exchange>>

Ex == INSTANCE Exchange WITH NumExchanges <- 2 * MaxAssemblies, MaxContacts <- NumProcs

OwnRows(p) == Own(program, p)
Goto(p, label) == pc' = [pc EXCEPT ![p] = label]

\* The auxiliary matrix (Translator) does not exist, holds the rows until they are
\* assembled (need_aux), or only what is put aside for others.
NewMatrix(prg, p) ==
  [assembled |-> FALSE, aux |-> "none", aside |-> <<>>,
   rows |-> [r \in Own(prg, p) |-> <<>>], error |-> FALSE]

Init ==
  /\ program \in Programs
  /\ pc = [p \in Proc |-> "call"] /\ next = [p \in Proc |-> 1]
  /\ ij = [p \in Proc |-> NewMatrix(program, p)]
  /\ offered = [p \in Proc |-> <<>>]
  /\ contacts = [p \in Proc |-> <<>>] /\ responses = [p \in Proc |-> <<>>]
  /\ received = [p \in Proc |-> <<>>]
  /\ Ex!Init

-----------------------------------------------------------------------------
(* Set and add values.  An operator "x_..." before an operator "x" is a mutant *)
(* of x.                                                                       *)

New(op, old, val) == IF op = "set" THEN val ELSE old + val

\* Before the assembly: elements that were in the row before the call are changed,
\* all others appended.
InsertInRow(row, op, elts) ==
  LET places(e) == {j \in DOMAIN row : row[j].col = e.col}
      at(j)     == SelectSeq(elts, LAMBDA e : j \in places(e) /\ j = Min(places(e)))
      value(j)  == FoldLeft(LAMBDA v, e : New(op, v, e.val), row[j].val, at(j))
  IN  [j \in DOMAIN row |-> [row[j] EXCEPT !.val = value(j)]]
        \o SelectSeq(elts, LAMBDA e : places(e) = {})

\* After it: element e of row r, once the ones before it have led to s.  A missing
\* element is an error that ends the call, unless a found one of the diagonal block
\* came before it: not_found is then still 0.  The diagonal element comes first.
\* Of a row with nothing in the diagonal block the code looks at the first element of the
\* next one instead (IJMatrix_parcsr.c:751, 1300), an error too unless it has this column.
ChangeElement(p, r, op, s, e) ==
  LET row    == s.row
      places == {j \in DOMAIN row : row[j].col = e.col}
      to(j)  == [row EXCEPT ![j].val = New(op, @, e.val)]
      known  == \E i \in OwnRows(p) : \E j \in DOMAIN ij[p].rows[i] :
                  ij[p].rows[i][j].col = e.col
      offd   == e.col \notin OwnRows(p)
  IN  IF s.stop THEN s
      ELSE IF places # {}
      THEN [s EXCEPT !.row = to(Min(places)),
                     !.not_found = IF offd THEN TRUE ELSE IF e.col = r THEN @ ELSE FALSE]
      ELSE IF s.not_found \/ e.col = r \/ (offd /\ ~ known)
      THEN [s EXCEPT !.stop = TRUE]
      ELSE [s EXCEPT !.not_found = offd]

ChangeRow(p, r, row, op, elts) ==
  IF Len(elts) > Len(row) THEN [row |-> row, stop |-> TRUE]
  ELSE FoldLeft(LAMBDA s, e : ChangeElement(p, r, op, s, e),
                [row |-> row, not_found |-> TRUE, stop |-> FALSE], elts)

\* A row of another process is put aside, with a negative number if to be added to.
Aside_negated(op, row) == IF op = "add" THEN -row ELSE row
Aside(op, row) == IF op = "add" THEN -row - 1 ELSE row
OpAside(number) == IF number < 0 THEN "add" ELSE "set"
RowAside(number) == IF number < 0 THEN -number - 1 ELSE number

\* hypre_IJMatrixSetValuesParCSR, hypre_IJMatrixAddToValuesParCSR.
Modify(p, m, op, r, elts) ==
  IF r \notin OwnRows(p)
  THEN [m EXCEPT !.aux = IF @ = "none" THEN "stash" ELSE @,
                 !.aside = Append(@, [number |-> Aside(op, r), elts |-> elts])]
  ELSE IF ~ m.assembled
  THEN [m EXCEPT !.rows[r] = InsertInRow(@, op, elts)]
  ELSE LET s == ChangeRow(p, r, m.rows[r], op, elts)
       IN  [m EXCEPT !.rows[r] = s.row, !.error = @ \/ s.stop]

\* hypre_IJMatrixInitializeParCSR.  An assembled matrix gets a new auxiliary matrix,
\* if it has none, as all processes must take part in the next assembly.
Initialized_unassembled(m) ==
  IF m.aux # "none" \/ m.assembled THEN m ELSE [m EXCEPT !.aux = "rows"]
Initialized(m) ==
  IF m.aux # "none" THEN m
  ELSE [m EXCEPT !.aux = IF m.assembled THEN "stash" ELSE "rows"]

Calls(p) == program.calls[p]
CallOf(p) == Calls(p)[next[p]]
AtCall(p, ops) == pc[p] = "call" /\ next[p] <= Len(Calls(p)) /\ CallOf(p).op \in ops

Initialize(p) ==
  /\ AtCall(p, {"initialize"})
  /\ ij' = [ij EXCEPT ![p] = Initialized(@)]
  /\ next' = [next EXCEPT ![p] = @ + 1]
  /\ UNCHANGED <<program, pc, offered, contacts, responses, received, exchange>>

SetOrAddValues(p) ==
  /\ AtCall(p, {"set", "add"})
  /\ ij' = [ij EXCEPT ![p] = Modify(p, @, CallOf(p).op, CallOf(p).row, CallOf(p).elts)]
  /\ next' = [next EXCEPT ![p] = @ + 1]
  /\ UNCHANGED <<program, pc, offered, contacts, responses, received, exchange>>

-----------------------------------------------------------------------------
(* Assemble. *)

\* The rows become those of the matrix, each with its diagonal element first, the last
\* one if there are several, and the auxiliary matrix is destroyed; but only the first
\* time.
DiagonalFirst(r, row) ==
  LET places == {j \in DOMAIN row : row[j].col = r}
  IN  IF places = {} THEN row ELSE <<row[Max(places)]>> \o RemoveAt(row, Max(places))
Assembled(m) ==
  IF m.assembled THEN m
  ELSE [m EXCEPT !.assembled = TRUE, !.aux = "none", !.aside = <<>>,
                 !.rows = [r \in DOMAIN m.rows |-> DiagonalFirst(r, m.rows[r])]]

Return(p) == Goto(p, "call") /\ next' = [next EXCEPT ![p] = @ + 1]

\* With an auxiliary matrix: MPI_Allreduce, of how much is put aside.
Assemble(p) ==
  /\ AtCall(p, {"assemble"})
  /\ ij[p].aux # "none"
  /\ offered' = [offered EXCEPT ![p] = Append(@, 2 * Len(ij[p].aside))]
  /\ Goto(p, "reduce")
  /\ UNCHANGED <<program, next, ij, contacts, responses, received, exchange>>

AssembleAgain(p) ==
  /\ AtCall(p, {"assemble"})
  /\ ij[p].aux = "none" /\ ij[p].assembled
  /\ Return(p)
  /\ UNCHANGED <<program, ij, offered, contacts, responses, received, exchange>>

Reduced(p) ==
  /\ pc[p] = "reduce"
  /\ \A q \in Proc : Len(offered[q]) >= Len(offered[p])
Reduction(p) == MapThenSumSet(LAMBDA q : offered[q][Len(offered[p])], Proc)

NothingAside(p) ==
  /\ Reduced(p) /\ Reduction(p) = 0
  /\ ij' = [ij EXCEPT ![p] = Assembled(@)]
  /\ Return(p)
  /\ UNCHANGED <<program, offered, contacts, responses, received, exchange>>

\* Call hypre_DataExchangeList.
CallExchange(p, list, label) ==
  /\ Ex!EnterWith(p, {[from |-> p, to |-> list[k].to, in |-> entered[p] + 1, nr |-> k] :
                        k \in DOMAIN list})
  /\ contacts' = [contacts EXCEPT ![p] = list]
  /\ Goto(p, label)

RowsAside(p) == {RowAside(ij[p].aside[i].number) : i \in DOMAIN ij[p].aside}

\* Who is assumed for the rows that are put aside.
ContactAssumedOwners(p) ==
  /\ Reduced(p) /\ Reduction(p) # 0
  /\ \E list \in {RangeContactList(Sorted(RowsAside(p)))} :
       /\ CallExchange(p, list, "ranges")
       /\ responses' = [responses EXCEPT ![p] = [k \in DOMAIN list |-> <<>>]]
  /\ UNCHANGED <<program, next, ij, offered, received>>

\* The part of the assumed partition of p: the owners of the rows it is assumed for.
AssumedPart(p) ==
  LET owners == Sorted({q \in Proc : OwnRows(q) \cap (RowStart(p) .. RowEnd(p)) # {}})
  IN  [k \in DOMAIN owners |->
         [proc |-> owners[k], end |-> Min({ColEnd(program, owners[k]), RowEnd(p)})]]

FillRanges(c) ==
  /\ pc[c.to] = "ranges"
  /\ Ex!Answer(c)
  /\ responses' = [responses EXCEPT ![c.from][c.nr] =
                     RangeResponse(AssumedPart(c.to), contacts[c.from][c.nr].buf)]
  /\ UNCHANGED <<program, pc, next, ij, offered, contacts, received>>

DetermineOwners(p) ==
  /\ pc[p] = "ranges"
  /\ Ex!Leave(p)
  /\ Goto(p, "owners")
  /\ UNCHANGED <<program, next, ij, offered, contacts, responses, received>>

\* The process of the first range that a row is not beyond.
RealProc(ranges, row) == ranges[Min({k \in DOMAIN ranges : row <= ranges[k].bound})].proc

\* To each owner what is put aside for it, in the order of the calls, signs included.
ValueContacts(aside, ranges) ==
  LET owner(i) == RealProc(ranges, RowAside(i.number))
      owners   == Sorted({owner(aside[k]) : k \in DOMAIN aside})
  IN  [k \in DOMAIN owners |->
         [to |-> owners[k], buf |-> SelectSeq(aside, LAMBDA i : owner(i) = owners[k])]]

ContactOwners(p) ==
  /\ pc[p] = "owners"
  /\ \E list \in {ValueContacts(ij[p].aside, FlattenSeq(responses[p]))} :
       CallExchange(p, list, "values")
  /\ responses' = [responses EXCEPT ![p] = <<>>]
  /\ received' = [received EXCEPT ![p] = <<>>]
  /\ UNCHANGED <<program, next, ij, offered>>

\* hypre_FillResponseIJOffProcVals.
FillValues(c) ==
  /\ pc[c.to] = "values"
  /\ Ex!Answer(c)
  /\ received' = [received EXCEPT ![c.to] = Append(@, contacts[c.from][c.nr].buf)]
  /\ UNCHANGED <<program, pc, next, ij, offered, contacts, responses>>

\* The received rows are set and added to in the order they came.
Unpacked(p, m, list) ==
  FoldLeft(LAMBDA n, i : Modify(p, n, OpAside(i.number), RowAside(i.number), i.elts),
           m, list)

Unpack(p) ==
  /\ pc[p] = "values"
  /\ Ex!Leave(p)
  /\ \E m \in {Unpacked(p, ij[p], FlattenSeq(received[p]))} :
       ij' = [ij EXCEPT ![p] = Assembled(m)]
  /\ contacts' = [contacts EXCEPT ![p] = <<>>]
  /\ received' = [received EXCEPT ![p] = <<>>]
  /\ Return(p)
  /\ UNCHANGED <<program, offered, responses>>

-----------------------------------------------------------------------------
Done(p) == pc[p] = "call" /\ next[p] > Len(Calls(p))
Finished == (\A p \in Proc : Done(p)) /\ UNCHANGED vars

Step(p) ==
  \/ Initialize(p) \/ SetOrAddValues(p)
  \/ Assemble(p) \/ AssembleAgain(p) \/ NothingAside(p)
  \/ ContactAssumedOwners(p) \/ DetermineOwners(p) \/ ContactOwners(p) \/ Unpack(p)
  \/ \E c \in open : c.to = p /\ (FillRanges(c) \/ FillValues(c))

Next == (\E p \in Proc : Step(p)) \/ Finished

Spec == Init /\ [][Next]_vars

\* Every process runs, and MPI_Allreduce returns when all have called it.
FairSpec == Spec /\ \A p \in Proc : WF_vars(Step(p))

-----------------------------------------------------------------------------
(* What the calls mean: those of a process in their order, and the ones to rows *)
(* of others when the matrix is assembled, after the owner's.                   *)

\* The calls of p between its assemblies k - 1 and k.
AssembliesBefore(p, i) == Cardinality({j \in 1 .. i - 1 : Calls(p)[j].op = "assemble"})
ChangesOf(p, k, r, c) ==
  LET mine == {i \in DOMAIN Calls(p) : /\ AssembliesBefore(p, i) = k - 1
                                       /\ Calls(p)[i].op \in {"set", "add"}
                                       /\ Calls(p)[i].row = r}
      change(i) == [e \in DOMAIN Calls(p)[i].elts |->
                      [op |-> Calls(p)[i].op] @@ Calls(p)[i].elts[e]]
      all == FlattenSeq([n \in 1 .. Cardinality(mine) |-> change(Sorted(mine)[n])])
  IN  SelectSeq(all, LAMBDA e : e.col = c)

\* The values an element may have after assembly k.
PerformAll(v, changes) == FoldLeft(LAMBDA w, e : New(e.op, w, e.val), v, changes)
Values(p, r, c) ==
  LET others == Proc \ {p}
      orders == {o \in [1 .. Cardinality(others) -> others] :
                   \A q \in others : \E i \in DOMAIN o : o[i] = q}
      after(v, k, o) ==
        PerformAll(v, FlattenSeq(<<ChangesOf(p, k, r, c)>>
                                   \o [i \in DOMAIN o |-> ChangesOf(o[i], k, r, c)]))
      values[k \in 0 .. MaxAssemblies] ==
        IF k = 0 THEN {0} ELSE {after(v, k, o) : v \in values[k - 1], o \in orders}
  IN  values

JustAssembled(p) ==
  pc[p] = "call" /\ next[p] > 1 /\ Calls(p)[next[p] - 1].op = "assemble"

\* An element is the sum of what the row has in its column.
ElementOf(row, c) ==
  LET places == {j \in DOMAIN row : row[j].col = c}
  IN  MapThenSumSet(LAMBDA j : row[j].val, places)

-----------------------------------------------------------------------------
(* Properties. *)

\* When a process returns from an assembly, its rows are what the calls of all
\* processes before that assembly mean, and no others: every value set or added
\* anywhere came to the row's owner, once and as what it was, though it was found by
\* asking others, and values from several processes come in any order
\* (IJMatrix_parcsr.c:1716-1733, 2300-2440, 2660-2745).
AssembledTrue ==
  \A p \in Proc : JustAssembled(p) =>
    /\ ~ ij[p].error
    /\ \A r \in OwnRows(p), c \in Row :
         ElementOf(ij[p].rows[r], c) \in Values(p, r, c)[AssembliesBefore(p, next[p])]

\* "Adds to any previous values at the specified locations" (HYPRE_IJ_mv.h:121-123), in
\* a matrix assembled before as well (93-94).  Of programs that only add: after an
\* assembly an element is the sum of all that was added to it.
AddedOnce ==
  \A p \in Proc : JustAssembled(p) =>
    \A r \in OwnRows(p), c \in Row :
      LET added(q, k) == PerformAll(0, ChangesOf(q, k, r, c))
          before == Proc \X (1 .. AssembliesBefore(p, next[p]))
      IN  ElementOf(ij[p].rows[r], c) = MapThenSumSet(LAMBDA qk : added(qk[1], qk[2]), before)

\* All calls return: the processes agree on whether to reduce, and to exchange
\* (IJMatrix_parcsr.c:1716-1721; Initialize recreates the auxiliary matrix, 294-306).
AssembliesReturn == <>(\A p \in Proc : Done(p))
=============================================================================
