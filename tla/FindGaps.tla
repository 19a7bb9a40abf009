------------------------------ MODULE FindGaps ------------------------------
(***************************************************************************)
(* dyninst/find-gaps.cpp: read the symbols and the functions of a binary,  *)
(* merge the blocks of the functions into one set of ranges, and report    *)
(* the parts of the symbols that no block covers.  What the binary holds   *)
(* is chosen as it is read.                                                *)
(***************************************************************************)
EXTENDS RangeSet, Sequences, FiniteSets

CONSTANTS
  MaxAddr,      \* addresses are 0 .. MaxAddr - 1
  Entry,        \* entry addresses of functions
  MaxSymbols, MaxInput,  \* bounds on the symbols, and with the blocks of code
  NULL

ASSUME GapsAssumption ==
  /\ MaxAddr \in Nat /\ MaxSymbols \in Nat /\ MaxInput \in Nat
  /\ Entry \subseteq Nat /\ NULL \notin Nat
  /\ NULL \notin [start : Nat, end : Nat]                \* no symbol is NULL
  /\ NULL \notin [start : Nat, end : Nat, finfo : Nat]   \* and no block
Address == 0 .. MaxAddr

VARIABLES
  phase,        \* the call that main is in
  symbolMap,    \* the symbols, at most one for each start address
  funcMap,      \* the functions read so far, by entry address
  finfo,        \* the function whose blocks are being read, or NULL
  rset,         \* finfo->rset of each function
  blocks,       \* the blocks read so far
  todo,         \* the ranges that are not yet in the global set
  global,       \* global set of ranges across all functions
  sit,          \* the symbols that are not yet searched for gaps
  sinfo, start, \* the symbol that is, or NULL, and where to go on in it
  gapVec,
  num_gaps, sum_size, located   \* what printGaps has reported

read  == <<symbolMap, funcMap, finfo, rset, blocks>>
found == <<sit, sinfo, start, gapVec>>
told  == <<num_gaps, sum_size, located>>
vars  == <<phase, read, todo, global, found, told>>

Init ==
  /\ phase = "readSymbols"
  /\ symbolMap = {} /\ funcMap = {} /\ finfo = NULL
  /\ rset = [f \in Entry |-> {}]
  /\ blocks = {} /\ todo = {} /\ global = {}
  /\ sit = {} /\ sinfo = NULL /\ start = 0 /\ gapVec = <<>>
  /\ num_gaps = 0 /\ sum_size = 0 /\ located = <<>>

-----------------------------------------------------------------------------
Symbol(first, end) == [start |-> first, end |-> end]

\* A symbol may be empty; one with the start of an earlier one is dropped.
ReadSymbol(s) ==
  /\ phase = "readSymbols"
  /\ Cardinality(symbolMap) < MaxSymbols
  /\ symbolMap' = IF \E q \in symbolMap : q.start = s.start
                  THEN symbolMap ELSE symbolMap \cup {s}
  /\ UNCHANGED <<phase, funcMap, finfo, rset, blocks, todo, global, found, told>>

SymbolsRead ==
  /\ phase = "readSymbols"
  /\ phase' = "readFunctions"
  /\ UNCHANGED <<read, todo, global, found, told>>

\* The blocks of a second function with the same entry are not read.
ReadFunction(entry) ==
  /\ phase = "readFunctions"
  /\ finfo' = IF entry \in funcMap THEN NULL ELSE entry
  /\ funcMap' = funcMap \cup {entry}
  /\ UNCHANGED <<phase, symbolMap, rset, blocks, todo, global, found, told>>

ReadBlock(first, end) ==
  LET block == Range(first, end, finfo) IN
  /\ phase = "readFunctions" /\ finfo # NULL
  /\ Cardinality(symbolMap) + Cardinality(blocks) < MaxInput
  /\ rset' = [rset EXCEPT ![finfo] = addRange(@, block)]
  /\ blocks' = blocks \cup {block}
  /\ UNCHANGED <<phase, symbolMap, funcMap, finfo, todo, global, found, told>>

FunctionsRead ==
  /\ phase = "readFunctions"
  /\ phase' = "findGaps"
  /\ finfo' = NULL
  /\ todo' = UNION {rset[f] : f \in funcMap}
  /\ sit' = symbolMap
  /\ UNCHANGED <<symbolMap, funcMap, rset, blocks, global, sinfo, start,
                 gapVec, told>>

-----------------------------------------------------------------------------
MergeRange_again(r) ==
  /\ phase = "findGaps" /\ r \in todo
  /\ global' = addRange(global, r)
  /\ UNCHANGED <<phase, read, todo, found, told>>

\* findGaps merges the functions by entry, and the ranges of each by start.
MergeRange(r) ==
  /\ phase = "findGaps" /\ r \in todo
  /\ \A q \in todo : r.finfo < q.finfo \/ (r.finfo = q.finfo /\ r.start <= q.start)
  /\ global' = addRange(global, r)
  /\ todo' = todo \ {r}
  /\ UNCHANGED <<phase, read, found, told>>

\* A block that holds the last address before the gap, if a range does.
Prev(gap) ==
  LET before == {b \in blocks : gap.start - 1 \in Addresses(b)} IN
  IF gap.start - 1 \in Covered(global) /\ before # {} THEN before ELSE {NULL}

NextGap ==
  IF sinfo # NULL /\ start < sinfo.end
  THEN findNextGap(global, start, sinfo.end) ELSE {}

FindGap ==
  /\ phase = "findGaps" /\ todo = {}
  /\ \E gap \in NextGap : \E prev \in Prev(gap) :
       /\ gapVec' = Append(gapVec, [start |-> gap.start, end |-> gap.end,
                                    sinfo |-> sinfo, prev |-> prev])
       /\ start' = gap.end
  /\ UNCHANGED <<phase, read, todo, global, sit, sinfo, told>>

NextSymbol(s) ==
  /\ phase = "findGaps" /\ todo = {}
  /\ NextGap = {}
  /\ s \in FirstOf(sit)
  /\ sit' = sit \ {s}
  /\ sinfo' = s
  /\ start' = s.start
  /\ UNCHANGED <<phase, read, todo, global, gapVec, told>>

Size(gap) == gap.end - gap.start
gapOrder(x, y) ==
  Size(y) < Size(x) \/ (Size(x) = Size(y) /\ x.start < y.start)

\* std::sort: any permutation in which no gap comes before a lesser one.
Sort ==
  LET D == DOMAIN gapVec IN
  /\ phase = "findGaps" /\ todo = {}
  /\ NextGap = {} /\ sit = {}
  /\ \E p \in [D -> D] :
       /\ \A j, k \in D : p[j] = p[k] => j = k
       /\ gapVec' = [k \in D |-> gapVec[p[k]]]
       /\ \A j, k \in D : j < k => ~ gapOrder(gapVec'[k], gapVec'[j])
  /\ phase' = "printGaps"
  /\ sinfo' = NULL
  /\ UNCHANGED <<read, todo, global, sit, start, told>>

-----------------------------------------------------------------------------
Location_start_only(gap) ==
  LET s == gap.sinfo IN
  IF gap.start <= s.start THEN "start"
  ELSE IF s.end <= gap.end THEN "end" ELSE "middle"

\* What analyzeGap says of the place of a gap in its symbol.
Location(gap) ==
  LET s == gap.sinfo IN
  IF gap.start <= s.start
  THEN IF s.end <= gap.end THEN "entire_function" ELSE "start"
  ELSE IF s.end <= gap.end THEN "end" ELSE "middle"

PrintGap ==
  LET gap == gapVec[num_gaps + 1] IN
  /\ phase = "printGaps" /\ num_gaps < Len(gapVec)
  /\ num_gaps' = num_gaps + 1
  /\ sum_size' = sum_size + Size(gap)
  /\ located' = Append(located, Location(gap))
  /\ UNCHANGED <<phase, read, todo, global, found>>

Exit ==
  /\ phase = "printGaps" /\ num_gaps = Len(gapVec)
  /\ phase' = "exited"
  /\ UNCHANGED <<read, todo, global, found, told>>

Exited == phase = "exited" /\ UNCHANGED vars

-----------------------------------------------------------------------------
Read ==
  \/ \E first, end \in Address : first <= end /\ ReadSymbol(Symbol(first, end))
  \/ \E entry \in Entry : ReadFunction(entry)
  \/ \E first, end \in Address : first < end /\ ReadBlock(first, end)

Proceed ==
  \/ SymbolsRead \/ FunctionsRead
  \/ \E r \in todo : MergeRange(r)
  \/ FindGap \/ \E s \in sit : NextSymbol(s)
  \/ Sort \/ PrintGap \/ Exit

Next == Read \/ Proceed \/ Exited

Spec == Init /\ [][Next]_vars

\* The program runs on, and a binary holds only so much to read.
FairSpec == Spec /\ WF_vars(Proceed)

-----------------------------------------------------------------------------
(* Properties. *)

BlocksOf(f) == {b \in blocks : b.finfo = f}

\* Splitting and compacting never lose an address and never invent one, neither
\* in the ranges of a function nor in the global set; no two ranges of a set
\* overlap, and no two of the same function touch (find-gaps.cpp:214-281).
RangesExact ==
  /\ \A f \in funcMap : Covered(rset[f]) = Covered(BlocksOf(f))
  /\ phase \notin {"readSymbols", "readFunctions"} =>
       Covered(global \cup todo) = Covered(blocks)
  /\ \A set \in {global} \cup {rset[f] : f \in funcMap} : \A q, r \in set :
       q # r /\ q.start <= r.start =>
         q.end < r.start \/ (q.end = r.start /\ q.finfo # r.finfo)

InSymbol(s) == s.start .. s.end - 1
GapsOf(s) == {gapVec[k] : k \in {j \in DOMAIN gapVec : gapVec[j].sinfo = s}}
Searched == IF phase = "printGaps" THEN symbolMap ELSE {}

\* Is there a range at or left of the start of the symbol?
Entered(s) == NotRightOf(global, s.start) # {} \/ global = {}

\* The gaps found of a symbol are exactly its addresses that no block covers, each
\* once, if some range begins at or below the start of the symbol; whatever the
\* symbol, no covered address is in a gap (find-gaps.cpp:456-497, 519-563).
GapsExact ==
  \A s \in Searched :
    LET found_of == UNION {Addresses(g) : g \in GapsOf(s)} IN
    /\ found_of \subseteq InSymbol(s) \ Covered(blocks)
    /\ Entered(s) => InSymbol(s) \ Covered(blocks) \subseteq found_of
    /\ \A g, h \in GapsOf(s) : g # h => g.end < h.start \/ h.end < g.start

\* What is printed of a gap is true: its previous block ends where it starts, and
\* is missing only at the start of a symbol; it is an "entire function" exactly if
\* no block covers any of the symbol (find-gaps.cpp:531-552, 652-664).
PrintedTrue ==
  \A k \in DOMAIN located :
    LET g == gapVec[k] IN
    /\ IF g.prev = NULL THEN g.start = g.sinfo.start ELSE g.prev.end = g.start
    /\ located[k] = "entire_function" <=>
         InSymbol(g.sinfo) \cap Covered(blocks) = {}

\* "Find the first gap in [start, end) that is not contained in rset" (line 451):
\* an uncovered address of a symbol is in some gap.
EveryGapFound ==
  \A s \in Searched :
    InSymbol(s) \ Covered(blocks) \subseteq UNION {Addresses(g) : g \in GapsOf(s)}

\* The search ends: it makes progress in every symbol.
Termination == <>(phase = "exited")
=============================================================================
