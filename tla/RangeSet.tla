------------------------------ MODULE RangeSet ------------------------------
(***************************************************************************)
(* RangeSet of dyninst/find-gaps.cpp: a std::map from the start of a range *)
(* to the range, here the set of its ranges.  A range [start, end) carries *)
(* the function it belongs to.  No two ranges have the same start.         *)
(* An operator "x_..." before an operator "x" is a mutant of x.            *)
(***************************************************************************)
EXTENDS Integers

Range(start, end, finfo) == [start |-> start, end |-> end, finfo |-> finfo]

\* The addresses of a range, and of all of the ranges of a set.
Addresses(r) == r.start .. r.end - 1
Covered(rset) == UNION {Addresses(r) : r \in rset}

FirstOf(rset) == {r \in rset : \A q \in rset : r.start <= q.start}
LastOf(rset)  == {r \in rset : \A q \in rset : q.start <= r.start}

\* upper_bound: the ranges strictly right of an address.
RightOf(rset, x) == {r \in rset : x < r.start}
NotRightOf(rset, x) == rset \ RightOf(rset, x)

addRange_drops_right(rset, new) ==
  {r \in rset : r.end < new.start \/ new.end < r.start} \cup {new}

\* Add one range: compact what touches it and has the same function, split what
\* overlaps it and has another.
addRange(rset, new) ==
  LET after  == RightOf(rset, new.start)
      left   == {r \in LastOf(NotRightOf(rset, new.start)) : new.start <= r.end}
      split  == {r \in left : r.start < new.start /\ r.finfo # new.finfo}
      merged == left \ split
      inside == {r \in after :
                   \A q \in after : q.start <= r.start => q.end <= new.end}
      right  == {r \in FirstOf(after \ inside) : r.start <= new.end}
      same   == {r \in right : r.finfo = new.finfo}
      start  == CHOOSE x \in {r.start : r \in merged} \cup {new.start} :
                  \A r \in merged : x <= r.start
      end    == CHOOSE x \in {r.end : r \in same} \cup {new.end} :
                  \A r \in same : r.end <= x
  IN  IF \E r \in left : new.end <= r.end
      THEN rset
      ELSE (rset \ (left \cup inside \cup right))
             \cup {[r EXCEPT !.end = new.start] : r \in split}
             \cup {[r EXCEPT !.start = new.end] : r \in right \ same}
             \cup {Range(start, end, new.finfo)}

\* Where a gap ends: at the next range if it starts before the limit.
GapEnd(next, limit) ==
  IF \E r \in next : r.start < limit
  THEN CHOOSE x \in {r.start : r \in next} : TRUE
  ELSE limit

\* The range a scan of [start, end) begins with: the one that may hold start or,
\* when the set has none so far left, the first of the set.
LeftEdge(rset, start) ==
  IF NotRightOf(rset, start) = {} THEN FirstOf(rset)
  ELSE LastOf(NotRightOf(rset, start))

LastAdjacent_skips_gaps(rset, left, limit) == LastOf(rset)

\* From the range left along adjacent ranges, as long as they end by the limit.
LastAdjacent(rset, left, limit) ==
  FirstOf({r \in rset :
    /\ left.start <= r.start
    /\ \/ limit < r.end
       \/ \A q \in FirstOf(RightOf(rset, r.start)) : r.end < q.start})

\* The first gap in [start, end), as a set that is empty if there is none.
findNextGap(rset, start, end) ==
  LET left == LeftEdge(rset, start)
      up   == FirstOf(RightOf(rset, start))
      it   == UNION {LastAdjacent(rset, l, end) : l \in left}
  IN  IF \A l \in left : l.end <= start
      THEN {[start |-> start, end |-> GapEnd(up, end)]}
      ELSE {[start |-> r.end,
             end |-> GapEnd(FirstOf(RightOf(rset, r.start)), end)] :
              r \in {q \in it : q.end < end}}
=============================================================================
