---------------------------- MODULE FindGapsProof ----------------------------
(***************************************************************************)
(* What find-gaps computes is right for every binary: proofs about the     *)
(* operators of RangeSet and the invariants of FindGaps.                   *)
(***************************************************************************)
EXTENDS FindGaps, TLAPS

WF == INSTANCE WellFoundedInduction
FS == INSTANCE FiniteSetTheorems

-----------------------------------------------------------------------------
(* Least and greatest elements. *)

LEMMA Least ==
  ASSUME NEW S \in SUBSET Nat, S # {}
  PROVE  \E x \in S : \A y \in S : x <= y
<1> DEFINE Less == {ss \in Nat \X Nat : ss[1] < ss[2]}
<1>1. WF!IsWellFoundedOn(Less, Nat)
  BY WF!NatLessThanWellFounded, Zenon DEF WF!OpToRel
<1>2. PICK x \in S : \A y \in S : ~ (<<y, x>> \in Less)
  BY <1>1, WF!WFMin, Zenon
<1>3. ASSUME NEW y \in S PROVE x <= y
  <2>1. ~ (<<y, x>> \in Less)
    BY <1>2
  <2>2. ~ (y < x)
    BY <2>1
  <2> QED
    BY <2>2
<1> QED
  BY <1>3

LEMMA Greatest ==
  ASSUME NEW n \in Nat, NEW S \in SUBSET (0 .. n), S # {}
  PROVE  \E x \in S : \A y \in S : y <= x
<1> DEFINE T == {n - y : y \in S}
<1>1. T \in SUBSET Nat /\ T # {}
  <2>1. \A y \in S : n - y \in Nat
    OBVIOUS
  <2>2. \E y \in S : TRUE
    OBVIOUS
  <2> QED
    BY <2>1, <2>2
<1>2. PICK z \in T : \A y \in T : z <= y
  BY <1>1, Least, Zenon
<1>3. PICK x \in S : z = n - x
  OBVIOUS
<1>4. ASSUME NEW y \in S PROVE y <= x
  <2>1. z <= n - y
    BY <1>2
  <2> QED
    BY <2>1, <1>3
<1> QED
  BY <1>4

-----------------------------------------------------------------------------
(* Sets of ranges. *)

Ranges == {r \in [start : Address, end : Address, finfo : Entry] : r.start < r.end}

\* No two ranges overlap, and no two of the same function touch.
Separate(ranges) ==
  \A q, r \in ranges : q # r /\ q.start <= r.start =>
    q.end < r.start \/ (q.end = r.start /\ q.finfo # r.finfo)

LEMMA RangeType ==
  ASSUME NEW r \in Ranges
  PROVE  /\ r = [start |-> r.start, end |-> r.end, finfo |-> r.finfo]
         /\ r.start \in Nat /\ r.end \in Nat /\ r.start < r.end /\ r.end <= MaxAddr
         /\ r.finfo \in Entry
BY GapsAssumption DEF Ranges, Address

LEMMA RangeIsRange ==
  ASSUME NEW x \in Address, NEW y \in Address, NEW f \in Entry, x < y
  PROVE  /\ Range(x, y, f) \in Ranges
         /\ Range(x, y, f).start = x /\ Range(x, y, f).end = y
         /\ Range(x, y, f).finfo = f
BY DEF Ranges, Range

LEMMA FirstExists ==
  ASSUME NEW ranges \in SUBSET Ranges, ranges # {}
  PROVE  \E r \in ranges : r \in FirstOf(ranges)
<1> DEFINE S == {r.start : r \in ranges}
<1>1. S \in SUBSET Nat /\ S # {}
  BY RangeType
<1>2. PICK x \in S : \A y \in S : x <= y
  BY <1>1, Least, Zenon
<1>3. PICK r \in ranges : x = r.start
  OBVIOUS
<1>4. \A q \in ranges : r.start <= q.start
  BY <1>2, <1>3
<1> QED
  BY <1>4 DEF FirstOf

LEMMA LastExists ==
  ASSUME NEW ranges \in SUBSET Ranges, ranges # {}
  PROVE  \E r \in ranges : r \in LastOf(ranges)
<1> DEFINE S == {r.start : r \in ranges}
<1>1. S \in SUBSET (0 .. MaxAddr) /\ S # {} /\ MaxAddr \in Nat
  BY RangeType, GapsAssumption
<1>2. PICK x \in S : \A y \in S : y <= x
  BY <1>1, Greatest, Zenon
<1>3. PICK r \in ranges : x = r.start
  OBVIOUS
<1>4. \A q \in ranges : q.start <= r.start
  BY <1>2, <1>3
<1> QED
  BY <1>4 DEF LastOf

LEMMA OneFirst ==
  ASSUME NEW ranges \in SUBSET Ranges, Separate(ranges),
         NEW part \in SUBSET ranges, NEW q \in FirstOf(part), NEW r \in FirstOf(part)
  PROVE  q = r
<1>1. q \in ranges /\ r \in ranges /\ q.start <= r.start /\ r.start <= q.start
  BY DEF FirstOf
<1> QED
  BY <1>1, RangeType DEF Separate

LEMMA OneLast ==
  ASSUME NEW ranges \in SUBSET Ranges, Separate(ranges),
         NEW part \in SUBSET ranges, NEW q \in LastOf(part), NEW r \in LastOf(part)
  PROVE  q = r
<1>1. q \in ranges /\ r \in ranges /\ q.start <= r.start /\ r.start <= q.start
  BY DEF LastOf
<1> QED
  BY <1>1, RangeType DEF Separate
-----------------------------------------------------------------------------
(* addRange. *)

\* The parts of addRange, one name for each of its local definitions.
After(ranges, new) == RightOf(ranges, new.start)
Left(ranges, new) ==
  {r \in LastOf(NotRightOf(ranges, new.start)) : new.start <= r.end}
Split(ranges, new) ==
  {r \in Left(ranges, new) : r.start < new.start /\ r.finfo # new.finfo}
Merged(ranges, new) == Left(ranges, new) \ Split(ranges, new)
Inside(ranges, new) ==
  {r \in After(ranges, new) :
     \A q \in After(ranges, new) : q.start <= r.start => q.end <= new.end}
Right(ranges, new) ==
  {r \in FirstOf(After(ranges, new) \ Inside(ranges, new)) : r.start <= new.end}
Same(ranges, new) == {r \in Right(ranges, new) : r.finfo = new.finfo}
Lo(merged, new) == CHOOSE x \in {r.start : r \in merged} \cup {new.start} :
                     \A r \in merged : x <= r.start
Hi(same, new) == CHOOSE x \in {r.end : r \in same} \cup {new.end} :
                   \A r \in same : r.end <= x

\* The parts of a range before and from an address.
HeadOf(r, x) == [r EXCEPT !.end = x]
TailOf(r, x) == [r EXCEPT !.start = x]

Kept(ranges, new) ==
  ranges \ (Left(ranges, new) \cup Inside(ranges, new) \cup Right(ranges, new))
Whole(ranges, new) ==
  Range(Lo(Merged(ranges, new), new), Hi(Same(ranges, new), new), new.finfo)
Inserted(ranges, new) ==
  Kept(ranges, new)
    \cup {HeadOf(r, new.start) : r \in Split(ranges, new)}
    \cup {TailOf(r, new.end) : r \in Right(ranges, new) \ Same(ranges, new)}
    \cup {Whole(ranges, new)}

LEMMA AddRangeCases ==
  ASSUME NEW ranges, NEW new
  PROVE  addRange(ranges, new) =
           IF \E r \in Left(ranges, new) : new.end <= r.end THEN ranges
           ELSE Inserted(ranges, new)
BY Zenon DEF addRange, Inserted, Kept, Whole, Lo, Hi, Same, Right, Inside, Merged, Split,
             Left, After, HeadOf, TailOf

\* Where addRange begins and ends the range it inserts.
LEMMA NewBounds ==
  ASSUME NEW ranges \in SUBSET Ranges, NEW new \in Ranges,
         NEW merged, NEW same,
         merged = {} \/ \E l \in ranges : merged = {l} /\ l.start <= new.start,
         same = {} \/ \E r \in ranges : same = {r} /\ new.end <= r.end
  PROVE  /\ merged = {} => Lo(merged, new) = new.start
         /\ \A l \in merged : Lo(merged, new) = l.start
         /\ same = {} => Hi(same, new) = new.end
         /\ \A r \in same : Hi(same, new) = r.end
<1> DEFINE Xs == {r.start : r \in merged} \cup {new.start}
           Ys == {r.end : r \in same} \cup {new.end}
           start_ == CHOOSE x \in Xs : \A r \in merged : x <= r.start
           end_ == CHOOSE y \in Ys : \A r \in same : r.end <= y
<1>1. start_ \in Xs /\ \A r \in merged : start_ <= r.start
  <2>1. \E x \in Xs : \A r \in merged : x <= r.start
    <3>1. CASE merged = {}
      BY <3>1
    <3>2. ASSUME NEW l \in ranges, merged = {l} PROVE \E x \in Xs : \A r \in merged : x <= r.start
      <4>1. l.start \in Xs /\ l.start <= l.start
        BY <3>2, RangeType
      <4> QED
        BY <4>1, <3>2
    <3> QED
      BY <3>1, <3>2
  <2> QED
    BY <2>1
<1>2. end_ \in Ys /\ \A r \in same : r.end <= end_
  <2>1. \E y \in Ys : \A r \in same : r.end <= y
    <3>1. CASE same = {}
      BY <3>1
    <3>2. ASSUME NEW l \in ranges, same = {l} PROVE \E y \in Ys : \A r \in same : r.end <= y
      <4>1. l.end \in Ys /\ l.end <= l.end
        BY <3>2, RangeType
      <4> QED
        BY <4>1, <3>2
    <3> QED
      BY <3>1, <3>2
  <2> QED
    BY <2>1
<1>3. merged = {} => start_ = new.start
  BY <1>1
<1>4. ASSUME NEW l \in merged PROVE start_ = l.start
  <2>1. l \in ranges /\ merged = {l} /\ l.start <= new.start
    OBVIOUS
  <2>2. Xs = {l.start, new.start}
    BY <2>1
  <2> HIDE DEF Xs
  <2>3. start_ <= l.start /\ start_ \in {l.start, new.start}
    BY <1>1, <2>1, <2>2
  <2> HIDE DEF start_
  <2> QED
    BY <2>1, <2>3, RangeType
<1>5. same = {} => end_ = new.end
  BY <1>2
<1>6. ASSUME NEW l \in same PROVE end_ = l.end
  <2>1. l \in ranges /\ same = {l} /\ new.end <= l.end
    OBVIOUS
  <2>2. Ys = {l.end, new.end}
    BY <2>1
  <2> HIDE DEF Ys
  <2>3. l.end <= end_ /\ end_ \in {l.end, new.end}
    BY <1>2, <2>1, <2>2
  <2> HIDE DEF end_
  <2> QED
    BY <2>1, <2>3, RangeType
<1> QED
  BY <1>3, <1>4, <1>5, <1>6 DEF Lo, Hi

\* How they lie.  "l" may only be the last range that begins no later
\* than the new one, "r" only the first that ends after it.
Lies(ranges, new, left, inside, right) ==
  /\ left \subseteq ranges /\ inside \subseteq ranges /\ right \subseteq ranges
  /\ \A r \in inside : new.start < r.start /\ r.end <= new.end
  /\ \A l \in left : /\ left = {l}
                     /\ l.start <= new.start /\ new.start <= l.end
  /\ \A r \in right : /\ right = {r}
                      /\ new.start < r.start /\ r.start <= new.end
                      /\ new.end < r.end
  /\ \A k \in ranges \ (left \cup inside \cup right) :
       \/ /\ k.start <= new.start
          /\ left = {} => k.end < new.start
          /\ \A l \in left : k.end < l.start \/ (k.end = l.start /\ k.finfo # l.finfo)
       \/ /\ new.start < k.start
          /\ right = {} => new.end < k.start
          /\ \A r \in right : r.end < k.start \/ (r.end = k.start /\ k.finfo # r.finfo)

LEMMA AddRangeParts ==
  ASSUME NEW ranges \in SUBSET Ranges, Separate(ranges), NEW new \in Ranges
  PROVE  Lies(ranges, new, Left(ranges, new), Inside(ranges, new), Right(ranges, new))
<1> DEFINE before == NotRightOf(ranges, new.start)
           after == After(ranges, new)
           left == Left(ranges, new)
           inside == Inside(ranges, new)
           right == Right(ranges, new)
<1>0. /\ after = RightOf(ranges, new.start)
      /\ left = {r \in LastOf(NotRightOf(ranges, new.start)) : new.start <= r.end}
      /\ inside = {r \in after :
                     \A q \in after : q.start <= r.start => q.end <= new.end}
      /\ right = {r \in FirstOf(after \ inside) : r.start <= new.end}
  BY DEF After, Left, Inside, Right
<1> HIDE DEF after, left, inside, right
<1> USE <1>0
<1>1. /\ before = {r \in ranges : r.start <= new.start}
      /\ after = {r \in ranges : new.start < r.start}
  BY RangeType DEF NotRightOf, RightOf
<1> HIDE DEF before
<1>2. left \subseteq ranges /\ inside \subseteq ranges /\ right \subseteq ranges
  BY <1>1 DEF LastOf, FirstOf, before
<1>3. ASSUME NEW r \in inside PROVE new.start < r.start /\ r.end <= new.end
  BY <1>1, RangeType
<1>4. ASSUME NEW l \in left
      PROVE left = {l} /\ l.start <= new.start /\ new.start <= l.end
  <2>1. l \in LastOf(before) /\ left \subseteq LastOf(before) /\ before \in SUBSET ranges
    BY <1>1 DEF before
  <2>2. \A k \in left : k = l
    BY <2>1, OneLast
  <2> QED
    BY <2>2, <1>1, <1>2 DEF LastOf, before
<1>5. ASSUME NEW r \in ranges, new.start < r.start, r \notin inside PROVE new.end < r.end
  <2>1. PICK q \in after : q.start <= r.start /\ ~ (q.end <= new.end)
    BY <1>1, <1>5
  <2>2. q \in ranges /\ (q = r \/ q.end < r.start \/ q.end = r.start)
    BY <2>1, <1>1 DEF Separate
  <2> QED
    BY <2>1, <2>2, RangeType
<1>6. ASSUME NEW r \in right
      PROVE /\ right = {r}
            /\ new.start < r.start /\ r.start <= new.end /\ new.end < r.end
  <2>1. /\ r \in FirstOf(after \ inside) /\ right \subseteq FirstOf(after \ inside)
        /\ after \ inside \in SUBSET ranges
    BY <1>1
  <2>2. \A k \in right : k = r
    BY <2>1, OneFirst
  <2>3. r \in ranges /\ new.start < r.start /\ r \notin inside
    BY <2>1, <1>1 DEF FirstOf
  <2>4. new.end < r.end
    BY <2>3, <1>5
  <2> QED
    BY <2>2, <2>3, <2>4
<1>7. ASSUME NEW k \in ranges \ (left \cup inside \cup right), k.start <= new.start
      PROVE /\ left = {} => k.end < new.start
            /\ \A l \in left : k.end < l.start \/ (k.end = l.start /\ k.finfo # l.finfo)
  <2>1. k \in before
    BY <1>1, <1>7
  <2>2. PICK last \in before : last \in LastOf(before)
    BY <2>1, <1>1, LastExists
  <2>3. last \in ranges /\ last.start <= new.start /\ k.start <= last.start
    BY <2>1, <2>2, <1>1 DEF LastOf
  <2>4. CASE last \in left
    <3>1. left = {last} /\ k # last
      BY <2>4, <1>4
    <3> QED
      BY <3>1, <2>3 DEF Separate
  <2>5. CASE last \notin left
    <3>1. last.end < new.start
      BY <2>2, <2>3, <2>5, RangeType DEF before
    <3>2. left = {}
      <4>1. ASSUME NEW l \in left PROVE FALSE
        <5>1. l \in LastOf(before) /\ before \in SUBSET ranges
          BY <1>1 DEF before
        <5>2. l = last
          BY <5>1, <2>2, OneLast
        <5> QED
          BY <5>2, <2>5
      <4> QED
        BY <4>1
    <3>3. k.end < new.start
      <4>1. k = last \/ k.end <= last.start
        BY <2>3, RangeType DEF Separate
      <4> QED
        BY <4>1, <3>1, <2>3, RangeType
    <3> QED
      BY <3>2, <3>3
  <2> QED
    BY <2>4, <2>5
<1>8. ASSUME NEW k \in ranges \ (left \cup inside \cup right), new.start < k.start
      PROVE /\ right = {} => new.end < k.start
            /\ \A r \in right : r.end < k.start \/ (r.end = k.start /\ k.finfo # r.finfo)
  <2>1. k \in after \ inside
    BY <1>1, <1>8
  <2>2. PICK first \in after \ inside : first \in FirstOf(after \ inside)
    BY <2>1, <1>1, FirstExists
  <2>3. first \in ranges /\ first.start <= k.start
    BY <2>1, <2>2, <1>1 DEF FirstOf
  <2>4. CASE first \in right
    <3>1. right = {first} /\ k # first
      BY <2>4, <1>6
    <3>2. first.end < k.start \/ (first.end = k.start /\ k.finfo # first.finfo)
      BY <3>1, <2>3 DEF Separate
    <3> QED
      BY <3>1, <3>2
  <2>5. CASE first \notin right
    <3>1. new.end < first.start
      BY <2>2, <2>3, <2>5, RangeType
    <3>2. right = {}
      <4>1. ASSUME NEW r \in right PROVE FALSE
        <5>1. r \in FirstOf(after \ inside) /\ after \ inside \in SUBSET ranges
          BY <1>1
        <5>2. r = first
          BY <5>1, <2>2, OneFirst
        <5> QED
          BY <5>2, <2>5
      <4> QED
        BY <4>1
    <3> QED
      BY <3>1, <3>2, <2>3, RangeType
  <2> QED
    BY <2>4, <2>5
<1>9. ASSUME NEW k \in ranges \ (left \cup inside \cup right)
      PROVE \/ /\ k.start <= new.start
               /\ left = {} => k.end < new.start
               /\ \A l \in left : k.end < l.start \/ (k.end = l.start /\ k.finfo # l.finfo)
            \/ /\ new.start < k.start
               /\ right = {} => new.end < k.start
               /\ \A r \in right : r.end < k.start \/ (r.end = k.start /\ k.finfo # r.finfo)
  <2>1. k.start <= new.start \/ new.start < k.start
    BY RangeType
  <2> QED
    BY <2>1, <1>7, <1>8, Zenon
<1>10. Lies(ranges, new, left, inside, right)
  BY <1>2, <1>3, <1>4, <1>6, <1>9, Zenon DEF Lies
<1> QED
  BY <1>10 DEF left, inside, right

LEMMA CoveredIff ==
  ASSUME NEW ranges, NEW x
  PROVE  x \in Covered(ranges) <=> \E r \in ranges : x \in Addresses(r)
BY DEF Covered

LEMMA AddressesIff ==
  ASSUME NEW r \in Ranges, NEW x
  PROVE  x \in Addresses(r) <=> x \in Nat /\ r.start <= x /\ x < r.end
BY RangeType DEF Addresses

\* Parts of the ranges of a set that is separate are separate.
LEMMA Nested ==
  ASSUME NEW ranges \in SUBSET Ranges, Separate(ranges), NEW parts \in SUBSET Ranges,
         NEW origin \in [parts -> ranges],
         \A e \in parts : /\ origin[e].start <= e.start /\ e.end <= origin[e].end
                          /\ e.finfo = origin[e].finfo,
         \A e, f \in parts : origin[e] = origin[f] => e = f
  PROVE  Separate(parts)
<1> SUFFICES ASSUME NEW e \in parts, NEW f \in parts, e # f, e.start <= f.start
             PROVE  e.end < f.start \/ (e.end = f.start /\ e.finfo # f.finfo)
  BY DEF Separate
<1> DEFINE k == origin[e]
           m == origin[f]
<1>1. k \in ranges /\ m \in ranges /\ k # m
  OBVIOUS
<1>2. /\ k.start <= e.start /\ e.end <= k.end /\ e.finfo = k.finfo
      /\ m.start <= f.start /\ f.end <= m.end /\ f.finfo = m.finfo
  OBVIOUS
<1> HIDE DEF k, m
<1>3. /\ k \in Ranges /\ m \in Ranges /\ e \in Ranges /\ f \in Ranges
  BY <1>1
<1>4. \/ k.end < m.start \/ (k.end = m.start /\ k.finfo # m.finfo)
      \/ m.end < k.start \/ m.end = k.start
  BY <1>1, <1>3, RangeType DEF Separate
<1>5. ASSUME NEW r \in Ranges
      PROVE  r.start \in Nat /\ r.end \in Nat /\ r.start < r.end
  BY RangeType
<1>6. ~ (m.end < k.start \/ m.end = k.start)
  BY <1>2, <1>3, <1>5
<1>7. k.end < m.start => e.end < f.start
  BY <1>2, <1>3, <1>5
<1>8. k.end = m.start => e.end < f.start \/ e.end = f.start
  BY <1>2, <1>3, <1>5
<1> QED
  BY <1>2, <1>4, <1>6, <1>7, <1>8

LEMMA HeadType ==
  ASSUME NEW r \in Ranges, NEW x \in Address, r.start < x
  PROVE  /\ HeadOf(r, x) \in Ranges
         /\ HeadOf(r, x).start = r.start /\ HeadOf(r, x).end = x
         /\ HeadOf(r, x).finfo = r.finfo
BY DEF HeadOf, Ranges

LEMMA TailType ==
  ASSUME NEW r \in Ranges, NEW x \in Address, x < r.end
  PROVE  /\ TailOf(r, x) \in Ranges
         /\ TailOf(r, x).start = x /\ TailOf(r, x).end = r.end
         /\ TailOf(r, x).finfo = r.finfo
BY DEF TailOf, Ranges

\* No range that ends where another function's range and the new one begin belongs to the
\* function of the new one.
NoSeam(ranges, new) ==
  \A k, l \in ranges :
    l.start = new.start /\ l.finfo # new.finfo /\ k.end = l.start => k.finfo # new.finfo

\* What addRange returns when no range holds all of the new one.
LEMMA InsertedRight ==
  ASSUME NEW ranges \in SUBSET Ranges, Separate(ranges), NEW new \in Ranges,
         \A l \in Left(ranges, new) : ~ (new.end <= l.end)
  PROVE  LET result == Inserted(ranges, new)
             whole == Whole(ranges, new)
         IN  /\ result \subseteq Ranges
             /\ Covered(result) = Covered(ranges) \cup Addresses(new)
             /\ \A e \in result \ {whole} :
                  \E k \in ranges : e.finfo = k.finfo /\ e.end <= k.end
             /\ whole.finfo = new.finfo
             /\ whole.end = new.end
                  \/ \E k \in ranges : k.finfo = new.finfo /\ new.start < k.start
             /\ NoSeam(ranges, new) => Separate(result)
<1> DEFINE left == Left(ranges, new)
           inside == Inside(ranges, new)
           right == Right(ranges, new)
           split == Split(ranges, new)
           same == Same(ranges, new)
           lo == Lo(left \ split, new)
           hi == Hi(same, new)
           heads == {HeadOf(r, new.start) : r \in split}
           tails == {TailOf(r, new.end) : r \in right \ same}
           kept == ranges \ (left \cup inside \cup right)
           whole == Range(lo, hi, new.finfo)
           result == kept \cup heads \cup tails \cup {whole}
<1>a. /\ result = Inserted(ranges, new) /\ whole = Whole(ranges, new)
      /\ split = {r \in left : r.start < new.start /\ r.finfo # new.finfo}
      /\ same = {r \in right : r.finfo = new.finfo}
  BY DEF Inserted, Whole, Merged, Kept, Split, Same
<1>b. Lies(ranges, new, left, inside, right)
  BY AddRangeParts
<1>c. heads = {HeadOf(r, new.start) : r \in split}
  OBVIOUS
<1>d. tails = {TailOf(r, new.end) : r \in right \ same}
  OBVIOUS
<1>e. /\ kept = ranges \ (left \cup inside \cup right)
      /\ whole = Range(lo, hi, new.finfo)
      /\ result = kept \cup heads \cup tails \cup {whole}
  OBVIOUS
<1>f. left \in SUBSET ranges /\ inside \in SUBSET ranges /\ right \in SUBSET ranges
  BY <1>b DEF Lies
<1>g. \A l \in left : ~ (new.end <= l.end)
  OBVIOUS
<1>h. lo = Lo(left \ split, new) /\ hi = Hi(same, new)
  OBVIOUS
<1> HIDE DEF left, inside, right, split, same, lo, hi, heads, tails, kept, whole, result
<1>i. /\ \A r \in inside : new.start < r.start /\ r.end <= new.end
      /\ \A l \in left : /\ left = {l}
                         /\ l.start <= new.start /\ new.start <= l.end
      /\ \A r \in right : /\ right = {r}
                          /\ new.start < r.start /\ r.start <= new.end
                          /\ new.end < r.end
  BY <1>b DEF Lies
<1>j. \A k \in ranges \ (left \cup inside \cup right) :
        \/ /\ k.start <= new.start
           /\ left = {} => k.end < new.start
           /\ \A l \in left : k.end < l.start \/ (k.end = l.start /\ k.finfo # l.finfo)
        \/ /\ new.start < k.start
           /\ right = {} => new.end < k.start
           /\ \A r \in right : r.end < k.start \/ (r.end = k.start /\ k.finfo # r.finfo)
  BY <1>b, Zenon DEF Lies
<1>k. \A l \in left : l.end < new.end
  BY <1>f, <1>g, RangeType
<1>l. /\ left \ split = {} => lo = new.start
      /\ \A l \in left \ split : lo = l.start
      /\ same = {} => hi = new.end
      /\ \A r \in same : hi = r.end
  <2>1. left \ split = {} \/ \E l \in ranges : left \ split = {l} /\ l.start <= new.start
    BY <1>f, <1>i
  <2>2. same = {} \/ \E r \in ranges : same = {r} /\ new.end <= r.end
    <3>1. ASSUME NEW r \in same PROVE same = {r} /\ r \in ranges /\ new.end <= r.end
      <4>1. r \in right /\ right = {r} /\ new.end < r.end /\ r \in ranges
        BY <1>a, <1>f, <1>i
      <4> QED
        BY <4>1, <1>a, RangeType
    <3> QED
      BY <3>1
  <2> QED
    BY <1>h, <2>1, <2>2, NewBounds
<1> USE <1>a, <1>c, <1>d, <1>e, <1>f, <1>i, <1>j, <1>k, <1>l
<1>1. lo \in Address /\ lo <= new.start /\ (lo # new.start => left \ split # {})
  <2>1. CASE left \ split = {}
    BY <2>1, RangeType DEF Ranges
  <2>2. CASE left \ split # {}
    <3>1. PICK l \in left \ split : TRUE
      BY <2>2
    <3> QED
      BY <3>1, <2>2, RangeType DEF Ranges
  <2> QED
    BY <2>1, <2>2
<1>2. hi \in Address /\ new.end <= hi /\ (hi # new.end => same # {})
  <2>1. CASE same = {}
    BY <2>1, RangeType DEF Ranges
  <2>2. CASE same # {}
    <3>1. PICK r \in same : r \in right
      BY <2>2
    <3>2. r \in Ranges /\ hi = r.end /\ new.end < r.end
      BY <3>1
    <3> QED
      BY <3>2, <2>2, RangeType DEF Ranges
  <2> QED
    BY <2>1, <2>2
<1>3. /\ whole \in Ranges
      /\ whole.start = lo /\ whole.end = hi /\ whole.finfo = new.finfo
  <2>1. lo < hi /\ new.finfo \in Entry
    BY <1>1, <1>2, RangeType DEF Address
  <2> QED
    BY <2>1, <1>1, <1>2, RangeIsRange
<1>4. ASSUME NEW l \in split
      PROVE  /\ l \in left /\ l \in Ranges /\ l.start < new.start
             /\ HeadOf(l, new.start) \in Ranges
             /\ HeadOf(l, new.start).start = l.start
             /\ HeadOf(l, new.start).end = new.start
             /\ HeadOf(l, new.start).finfo = l.finfo
  <2>1. l \in Ranges /\ l.start < new.start /\ new.start \in Address
    BY DEF Ranges
  <2> QED
    BY <2>1, HeadType
<1>5. ASSUME NEW r \in right \ same
      PROVE  /\ r \in right /\ r \in Ranges /\ new.end < r.end
             /\ TailOf(r, new.end) \in Ranges
             /\ TailOf(r, new.end).start = new.end
             /\ TailOf(r, new.end).end = r.end
             /\ TailOf(r, new.end).finfo = r.finfo
  <2>1. r \in Ranges /\ new.end < r.end /\ new.end \in Address
    BY DEF Ranges
  <2> QED
    BY <2>1, TailType
<1>6. heads \subseteq Ranges /\ tails \subseteq Ranges /\ kept \subseteq Ranges
  BY <1>4, <1>5
<1>7. result \subseteq Ranges
  BY <1>6, <1>3
\* Each part other than the new range lies in a range, and no two in the same.
<1>8. /\ heads = {} \/ \E l \in split : left = {l} /\ heads = {HeadOf(l, new.start)}
      /\ tails = {} \/ \E r \in right \ same : right = {r} /\ tails = {TailOf(r, new.end)}
      /\ left \cap right = {}
  <2>1. heads = {} \/ \E l \in split : left = {l} /\ heads = {HeadOf(l, new.start)}
    <3>1. ASSUME NEW l \in split PROVE left = {l} /\ heads = {HeadOf(l, new.start)}
      <4>1. left = {l} /\ split = {l}
        BY <1>4
      <4> QED
        BY <4>1
    <3> QED
      BY <3>1
  <2>2. tails = {} \/ \E r \in right \ same : right = {r} /\ tails = {TailOf(r, new.end)}
    <3>1. ASSUME NEW r \in right \ same PROVE right = {r} /\ tails = {TailOf(r, new.end)}
      <4>1. right = {r} /\ right \ same = {r}
        BY <1>5
      <4> QED
        BY <4>1
    <3> QED
      BY <3>1
  <2>3. left \cap right = {}
    BY RangeType
  <2> QED
    BY <2>1, <2>2, <2>3
<1>9. ASSUME NEW x
      PROVE  x \in Covered(result) <=> x \in Covered(ranges) \/ x \in Addresses(new)
  <2>1. ASSUME NEW e \in result, x \in Addresses(e)
        PROVE  x \in Addresses(new) \/ \E r \in ranges : x \in Addresses(r)
    <3>1. CASE e \in kept
      BY <3>1, <2>1
    <3>2. ASSUME NEW l \in split, e = HeadOf(l, new.start)
          PROVE  x \in Addresses(l)
      BY <3>2, <2>1, <1>4, AddressesIff, RangeType
    <3>3. ASSUME NEW r \in right \ same, e = TailOf(r, new.end)
          PROVE  x \in Addresses(r)
      BY <3>3, <2>1, <1>5, AddressesIff, RangeType
    <3>4. CASE e = whole
      <4>1. x \in Nat /\ lo <= x /\ x < hi
        BY <3>4, <2>1, <1>3, AddressesIff
      <4>2. CASE x < new.start
        <5>1. PICK l \in left \ split : lo = l.start
          BY <4>1, <4>2, <1>1, RangeType
        <5> QED
          BY <5>1, <4>1, <4>2, AddressesIff, RangeType
      <4>3. CASE new.end <= x
        <5>1. PICK r \in same : hi = r.end
          BY <4>1, <4>3, <1>2, RangeType
        <5>2. r \in Ranges /\ r \in ranges /\ r.start <= new.end
          BY <5>1
        <5> QED
          BY <5>1, <5>2, <4>1, <4>3, AddressesIff, RangeType
      <4> QED
        BY <4>1, <4>2, <4>3, AddressesIff, RangeType
    <3> QED
      BY <3>1, <3>2, <3>3, <3>4
  <2>2. ASSUME x \in Addresses(new) PROVE x \in Addresses(whole)
    BY <2>2, <1>1, <1>2, <1>3, AddressesIff, RangeType DEF Address
  <2>3. ASSUME NEW r \in ranges, x \in Addresses(r)
        PROVE  \E e \in result : x \in Addresses(e)
    <3>1. x \in Nat /\ r.start <= x /\ x < r.end
      BY <2>3, AddressesIff
    <3>2. ASSUME new.start <= x, x < new.end PROVE \E e \in result : x \in Addresses(e)
      BY <3>1, <3>2, <2>2, AddressesIff
    <3>3. CASE r \in left
      <4>1. x < new.end
        BY <3>1, <3>3, RangeType
      <4>2. CASE r \in split /\ x < new.start
        <5>1. HeadOf(r, new.start) \in result /\ x \in Addresses(HeadOf(r, new.start))
          BY <4>2, <3>1, <1>4, AddressesIff
        <5> QED
          BY <5>1
      <4>3. CASE r \notin split
        <5>1. lo = r.start
          BY <3>3, <4>3
        <5>2. x \in Addresses(whole)
          BY <5>1, <4>1, <3>1, <1>2, <1>3, AddressesIff, RangeType DEF Address
        <5> QED
          BY <5>2
      <4>4. CASE ~ (x < new.start)
        BY <4>4, <4>1, <3>1, <3>2, RangeType
      <4> QED
        BY <4>2, <4>3, <4>4
    <3>4. CASE r \in inside
      BY <3>4, <3>1, <3>2, RangeType
    <3>5. CASE r \in right
      <4>1. new.start <= x
        BY <3>1, <3>5, RangeType
      <4>2. CASE r \notin same /\ new.end <= x
        <5>1. TailOf(r, new.end) \in result /\ x \in Addresses(TailOf(r, new.end))
          BY <4>2, <3>5, <3>1, <1>5, AddressesIff
        <5> QED
          BY <5>1
      <4>3. CASE r \in same
        <5>1. hi = r.end
          BY <4>3
        <5>2. x \in Addresses(whole)
          BY <5>1, <4>1, <3>1, <1>1, <1>3, AddressesIff, RangeType DEF Address
        <5> QED
          BY <5>2
      <4>4. CASE ~ (new.end <= x)
        BY <4>4, <4>1, <3>1, <3>2, RangeType
      <4> QED
        BY <4>2, <4>3, <4>4
    <3>6. CASE r \in kept
      BY <3>6, <2>3
    <3> QED
      BY <3>3, <3>4, <3>5, <3>6
  <2> QED
    BY <2>1, <2>2, <2>3, CoveredIff
<1>10. ASSUME NEW e \in result \ {whole}
       PROVE  \E k \in ranges : e.finfo = k.finfo /\ e.end <= k.end
  <2>1. CASE e \in kept
    BY <2>1, RangeType
  <2>2. ASSUME NEW l \in split, e = HeadOf(l, new.start)
        PROVE  e.finfo = l.finfo /\ e.end <= l.end
    BY <2>2, <1>4
  <2>3. ASSUME NEW r \in right \ same, e = TailOf(r, new.end)
        PROVE  e.finfo = r.finfo /\ e.end <= r.end
    BY <2>3, <1>5, RangeType
  <2> QED
    BY <2>1, <2>2, <2>3
<1>11. whole.end = new.end \/ \E k \in ranges : k.finfo = new.finfo /\ new.start < k.start
  BY <1>2, <1>3
<1>12. ASSUME NoSeam(ranges, new)
       PROVE  Separate(result)
  <2> DEFINE parts == kept \cup heads \cup tails
  <2>1. Separate(parts)
    <3> DEFINE Origin(e, k) == /\ k.start <= e.start /\ e.end <= k.end /\ e.finfo = k.finfo
                               /\ e \in kept => k = e
                               /\ e \in heads \ kept => k \in left
                               /\ e \in tails \ (kept \cup heads) => k \in right
               origin == [e \in parts |-> CHOOSE k \in ranges : Origin(e, k)]
    <3>1. ASSUME NEW e \in parts PROVE \E k \in ranges : Origin(e, k)
      <4>1. CASE e \in kept
        BY <4>1, <1>6, <1>8, RangeType
      <4>2. CASE e \in heads \ kept
        <5>1. PICK l \in split : left = {l} /\ heads = {HeadOf(l, new.start)}
          BY <4>2, <1>8
        <5>2. e = HeadOf(l, new.start)
          BY <4>2, <5>1
        <5>3. l.start <= e.start /\ e.end <= l.end /\ e.finfo = l.finfo
          BY <5>2, <1>4, RangeType
        <5> QED
          BY <5>3, <1>4, <4>2
      <4>3. CASE e \in tails \ (kept \cup heads)
        <5>1. PICK r \in right \ same : right = {r} /\ tails = {TailOf(r, new.end)}
          BY <4>3, <1>8
        <5>2. e = TailOf(r, new.end)
          BY <4>3, <5>1
        <5>3. r.start <= e.start /\ e.end <= r.end /\ e.finfo = r.finfo
          BY <5>2, <1>5, RangeType
        <5> QED
          BY <5>3, <1>5, <4>3
      <4> QED
        BY <4>1, <4>2, <4>3
    <3>2. ASSUME NEW e \in parts PROVE origin[e] \in ranges /\ Origin(e, origin[e])
      BY <3>1
    <3>3. ASSUME NEW e \in parts, NEW f \in parts, origin[e] = origin[f] PROVE e = f
      <4> HIDE DEF origin, Origin, parts
      <4>1. Origin(e, origin[e]) /\ Origin(f, origin[e])
        BY <3>2, <3>3
      <4>2. /\ \A x, y \in heads : x = y
            /\ \A x, y \in tails : x = y
            /\ left \cap right = {} /\ kept \cap (left \cup right) = {}
        BY <1>8
      <4> QED
        BY <4>1, <4>2 DEF Origin, parts
    <3>4. origin \in [parts -> ranges]
      BY <3>2
    <3>5. parts \in SUBSET Ranges
      BY <1>6
    <3>6. \A e \in parts : /\ origin[e].start <= e.start /\ e.end <= origin[e].end
                           /\ e.finfo = origin[e].finfo
      BY <3>2
    <3> HIDE DEF origin
    <3> QED
      BY <3>3, <3>4, <3>5, <3>6, Nested
  <2>2. ASSUME NEW e \in parts
        PROVE  \/ e.end < lo \/ (e.end = lo /\ e.finfo # new.finfo)
               \/ hi < e.start \/ (hi = e.start /\ e.finfo # new.finfo)
    <3>1. CASE e \in kept /\ e.start <= new.start
      <4>1. e \in Ranges /\ ~ (new.start < e.start)
        BY <3>1, RangeType
      <4>2. /\ left = {} => e.end < new.start
            /\ \A l \in left : e.end < l.start \/ (e.end = l.start /\ e.finfo # l.finfo)
        BY <3>1, <4>1
      <4>3. CASE left = {}
        BY <4>1, <4>2, <4>3
      <4>4. ASSUME NEW l \in split PROVE e.end < lo
        <5>1. left = {l} /\ l.start < new.start
          BY <1>4
        <5>2. lo = new.start
          BY <5>1
        <5> QED
          BY <5>1, <5>2, <4>1, <4>2, RangeType
      <4>5. ASSUME NEW l \in left \ split
            PROVE  e.end < lo \/ (e.end = lo /\ e.finfo # new.finfo)
        <5>1. lo = l.start /\ (l.start = new.start \/ l.finfo = new.finfo)
          BY RangeType
        <5> QED
          BY <5>1, <4>2, <1>12, <3>1 DEF NoSeam
      <4> QED
        BY <4>3, <4>4, <4>5
    <3>2. CASE e \in kept /\ new.start < e.start
      <4>1. e \in Ranges /\ ~ (e.start <= new.start)
        BY <3>2, RangeType
      <4>2. /\ right = {} => new.end < e.start
            /\ \A r \in right : r.end < e.start \/ (r.end = e.start /\ e.finfo # r.finfo)
        BY <3>2, <4>1
      <4>3. CASE right = {}
        BY <4>2, <4>3
      <4>4. ASSUME NEW r \in right \ same PROVE hi < e.start
        <5>1. right = {r} /\ hi = new.end /\ new.end < r.end
          BY <1>5
        <5> QED
          BY <5>1, <4>1, <4>2, RangeType
      <4>5. ASSUME NEW r \in same
            PROVE  hi < e.start \/ (hi = e.start /\ e.finfo # new.finfo)
        BY <4>2
      <4> QED
        BY <4>3, <4>4, <4>5
    <3>3. ASSUME NEW l \in split, e = HeadOf(l, new.start)
          PROVE  e.end = lo /\ e.finfo # new.finfo
      BY <3>3, <1>4
    <3>4. ASSUME NEW r \in right \ same, e = TailOf(r, new.end)
          PROVE  hi = e.start /\ e.finfo # new.finfo
      BY <3>4, <1>5
    <3>5. e \in kept => e.start <= new.start \/ new.start < e.start
      BY RangeType
    <3> QED
      BY <3>1, <3>2, <3>3, <3>4, <3>5
  <2>3. lo < hi
    BY <1>1, <1>2, RangeType DEF Address
  <2> SUFFICES ASSUME NEW e \in result, NEW f \in result, e # f, e.start <= f.start
               PROVE  e.end < f.start \/ (e.end = f.start /\ e.finfo # f.finfo)
    BY DEF Separate
  <2>4. e \in Ranges /\ f \in Ranges
    BY <1>7
  <2> HIDE DEF parts
  <2>5. CASE e \in parts /\ f \in parts
    BY <2>1, <2>5 DEF Separate
  <2>6. CASE e = whole /\ f \in parts
    BY <2>6, <2>2, <2>3, <2>4, <1>3, RangeType
  <2>7. CASE f = whole /\ e \in parts
    BY <2>7, <2>2, <2>3, <2>4, <1>3, RangeType
  <2> QED
    BY <2>5, <2>6, <2>7 DEF parts
<1>13. Covered(result) = Covered(ranges) \cup Addresses(new)
  BY <1>9
<1> QED
  BY <1>3, <1>7, <1>10, <1>11, <1>12, <1>13

\* Adding a range to a set covers its addresses and no others, and leaves the set separate.
LEMMA AddRange ==
  ASSUME NEW ranges \in SUBSET Ranges, Separate(ranges), NEW new \in Ranges
  PROVE  /\ addRange(ranges, new) \subseteq Ranges
         /\ Covered(addRange(ranges, new)) = Covered(ranges) \cup Addresses(new)
         /\ NoSeam(ranges, new) => Separate(addRange(ranges, new))
         /\ \A e \in addRange(ranges, new) :
              \/ \E k \in ranges : e.finfo = k.finfo /\ e.end <= k.end
              \/ /\ e.finfo = new.finfo
                 /\ e.end = new.end
                      \/ \E k \in ranges : k.finfo = new.finfo /\ new.start < k.start
<1>1. CASE \E r \in Left(ranges, new) : new.end <= r.end
  <2>1. PICK l \in Left(ranges, new) : new.end <= l.end
    BY <1>1
  <2>2. addRange(ranges, new) = ranges
    BY <1>1, AddRangeCases
  <2>3. l \in Ranges /\ l \in ranges /\ l.start <= new.start
    BY <2>1, AddRangeParts DEF Lies
  <2>4. Addresses(new) \subseteq Addresses(l)
    BY <2>1, <2>3, AddressesIff, RangeType
  <2>5. Covered(ranges) = Covered(ranges) \cup Addresses(new)
    BY <2>3, <2>4, CoveredIff
  <2>6. \A e \in ranges : e.finfo = e.finfo /\ e.end <= e.end
    BY RangeType
  <2> QED
    BY <2>2, <2>5, <2>6, Zenon
<1>2. CASE ~ \E r \in Left(ranges, new) : new.end <= r.end
  <2>1. addRange(ranges, new) = Inserted(ranges, new)
    BY <1>2, AddRangeCases
  <2>2. \A l \in Left(ranges, new) : ~ (new.end <= l.end)
    BY <1>2
  <2> QED
    BY <2>1, <2>2, InsertedRight
<1> QED
  BY <1>1, <1>2

-----------------------------------------------------------------------------
(* Reading and merging. *)

\* Of each function its ranges are separate and cover its blocks; so do those of the global
\* set and those still to be merged, which lie behind the merged ones of their function.
RangesInv ==
  /\ phase \in {"readSymbols", "readFunctions", "findGaps", "printGaps", "exited"}
  /\ funcMap \subseteq Entry /\ finfo \in funcMap \cup {NULL}
  /\ rset \in [Entry -> SUBSET Ranges]
  /\ blocks \subseteq Ranges /\ \A b \in blocks : b.finfo \in funcMap
  /\ \A f \in Entry : /\ Separate(rset[f])
                      /\ \A r \in rset[f] : r.finfo = f
                      /\ Covered(rset[f]) = Covered(BlocksOf(f))
  /\ global \subseteq Ranges /\ Separate(global)
  /\ todo \subseteq UNION {rset[f] : f \in funcMap}
  /\ IF phase \in {"readSymbols", "readFunctions"}
     THEN global = {} /\ todo = {}
     ELSE Covered(global \cup todo) = Covered(blocks)
  /\ \A r \in global, q \in todo :
       r.finfo < q.finfo \/ (r.finfo = q.finfo /\ r.end < q.start)

LEMMA CoveredUnion ==
  ASSUME NEW A, NEW B
  PROVE  Covered(A \cup B) = Covered(A) \cup Covered(B)
BY DEF Covered

LEMMA CoveredOne ==
  ASSUME NEW r
  PROVE  Covered({r}) = Addresses(r)
BY DEF Covered

LEMMA ReadBlockStep ==
  ASSUME RangesInv, NEW first \in Address, NEW end \in Address, first < end,
         ReadBlock(first, end)
  PROVE  RangesInv'
<1> DEFINE block == Range(first, end, finfo)
           old == rset[finfo]
<1>1. /\ finfo \in Entry /\ finfo \in funcMap
      /\ phase = "readFunctions"
      /\ rset' = [rset EXCEPT ![finfo] = addRange(old, block)]
      /\ blocks' = blocks \cup {block}
      /\ UNCHANGED <<phase, symbolMap, funcMap, finfo, todo, global>>
  BY DEF ReadBlock, RangesInv
<1>2. block \in Ranges /\ block.finfo = finfo
  BY <1>1, RangeIsRange
<1> HIDE DEF block
<1>3. /\ old \in SUBSET Ranges /\ Separate(old) /\ \A r \in old : r.finfo = finfo
      /\ Covered(old) = Covered(BlocksOf(finfo))
  BY <1>1 DEF RangesInv
<1> HIDE DEF old
<1>4. NoSeam(old, block)
  BY <1>2, <1>3 DEF NoSeam
<1>5. /\ addRange(old, block) \subseteq Ranges /\ Separate(addRange(old, block))
      /\ Covered(addRange(old, block)) = Covered(old) \cup Addresses(block)
  BY <1>2, <1>3, <1>4, AddRange
<1>6. \A r \in addRange(old, block) : r.finfo = finfo
  <2>1. \A e \in addRange(old, block) :
          e.finfo = block.finfo \/ \E k \in old : e.finfo = k.finfo
    BY <1>2, <1>3, AddRange
  <2> QED
    BY <2>1, <1>2, <1>3
<1>7. rset' \in [Entry -> SUBSET Ranges] /\ rset \in [Entry -> SUBSET Ranges]
  BY <1>1, <1>5 DEF RangesInv
<1>8. ASSUME NEW f \in Entry
      PROVE  /\ Separate(rset'[f])
             /\ \A r \in rset'[f] : r.finfo = f
             /\ Covered(rset'[f]) = Covered(BlocksOf(f)')
  <2>1. CASE f = finfo
    <3>1. BlocksOf(f)' = BlocksOf(f) \cup {block}
      BY <2>1, <1>1, <1>2 DEF BlocksOf
    <3>2. Covered(BlocksOf(f)') = Covered(BlocksOf(f)) \cup Addresses(block)
      BY <3>1, Zenon DEF Covered
    <3>3. rset'[f] = addRange(old, block)
      BY <1>1, <1>7, <2>1
    <3> QED
      BY <3>2, <3>3, <2>1, <1>3, <1>5, <1>6
  <2>2. CASE f # finfo
    <3>1. BlocksOf(f)' = BlocksOf(f)
      BY <2>2, <1>1, <1>2 DEF BlocksOf
    <3>2. rset'[f] = rset[f]
      BY <1>1, <1>7, <2>2
    <3> QED
      BY <3>1, <3>2 DEF RangesInv
  <2> QED
    BY <2>1, <2>2
<1>9. todo = {} /\ global = {}
  BY <1>1 DEF RangesInv
<1>10. \A b \in blocks' : b \in Ranges /\ b.finfo \in funcMap'
  BY <1>1, <1>2 DEF RangesInv
<1> QED
  BY <1>1, <1>7, <1>8, <1>9, <1>10 DEF RangesInv, Separate

LEMMA MergeStep ==
  ASSUME RangesInv, NEW r \in todo, MergeRange(r)
  PROVE  RangesInv'
<1>1. /\ phase = "findGaps"
      /\ \A q \in todo : r.finfo < q.finfo \/ (r.finfo = q.finfo /\ r.start <= q.start)
      /\ global' = addRange(global, r)
      /\ todo' = todo \ {r}
      /\ UNCHANGED <<phase, read>>
  BY DEF MergeRange
<1>2. /\ todo \subseteq Ranges /\ global \in SUBSET Ranges /\ Separate(global)
      /\ \A k \in global, q \in todo :
           k.finfo < q.finfo \/ (k.finfo = q.finfo /\ k.end < q.start)
  BY DEF RangesInv
<1>3. \A f \in Entry : f \in Nat
  BY GapsAssumption
<1>4. \A q \in todo : q \in Ranges /\ q.finfo \in Nat /\ q.start \in Nat /\ q.end \in Nat
                      /\ q.start < q.end
  BY <1>2, <1>3, RangeType
<1>5. \A k \in global : k \in Ranges /\ k.finfo \in Nat /\ k.start \in Nat /\ k.end \in Nat
                        /\ k.start < k.end
  BY <1>2, <1>3, RangeType
<1>6. \A k \in global : k.finfo = r.finfo => k.end < r.start
  BY <1>2, <1>4, <1>5
<1>7. NoSeam(global, r)
  BY <1>4, <1>5, <1>6 DEF NoSeam
<1>8. /\ global' \subseteq Ranges /\ Separate(global')
      /\ Covered(global') = Covered(global) \cup Addresses(r)
  BY <1>1, <1>2, <1>7, AddRange
<1>9. ASSUME NEW e \in global', NEW q \in todo'
      PROVE  e.finfo < q.finfo \/ (e.finfo = q.finfo /\ e.end < q.start)
  <2>1. /\ e \in Ranges /\ e.finfo \in Nat /\ e.end \in Nat
        /\ q \in todo /\ q # r
    BY <1>1, <1>3, <1>8, RangeType
  <2>2. ASSUME NEW k \in global, e.finfo = k.finfo, e.end <= k.end
        PROVE  e.finfo < q.finfo \/ (e.finfo = q.finfo /\ e.end < q.start)
    BY <2>1, <2>2, <1>2, <1>4, <1>5
  <2>3. ASSUME e.finfo = r.finfo,
               e.end = r.end \/ \E k \in global : k.finfo = r.finfo /\ r.start < k.start
        PROVE  e.finfo < q.finfo \/ (e.finfo = q.finfo /\ e.end < q.start)
    <3>1. e.end = r.end
      BY <2>3, <1>4, <1>5, <1>6
    <3>2. CASE r.finfo < q.finfo
      BY <3>2, <2>3
    <3>3. CASE r.finfo = q.finfo /\ r.start <= q.start
      <4>1. r \in rset[r.finfo] /\ q \in rset[r.finfo] /\ r.finfo \in Entry
        BY <3>3, <2>1 DEF RangesInv
      <4>2. r.end < q.start
        BY <4>1, <3>3, <2>1 DEF RangesInv, Separate
      <4> QED
        BY <4>2, <3>1, <3>3, <2>3
    <3> QED
      BY <3>2, <3>3, <1>1, <2>1
  <2>4. \/ \E k \in global : e.finfo = k.finfo /\ e.end <= k.end
        \/ /\ e.finfo = r.finfo
           /\ e.end = r.end \/ \E k \in global : k.finfo = r.finfo /\ r.start < k.start
    BY <1>1, <1>2, AddRange
  <2> QED
    BY <2>2, <2>3, <2>4
<1>10. Covered(global' \cup todo') = Covered(blocks')
  <2>1. Covered(global') \cup Covered(todo') = Covered(global) \cup Addresses(r) \cup Covered(todo')
    BY <1>8
  <2>2. Covered(todo) = Addresses(r) \cup Covered(todo')
    <3>1. todo = {r} \cup todo'
      BY <1>1
    <3>2. Covered({r} \cup todo') = Covered({r}) \cup Covered(todo')
      BY CoveredUnion
    <3>3. Covered({r}) = Addresses(r)
      BY CoveredOne
    <3> QED
      BY <3>1, <3>2, <3>3, Zenon
  <2>3. Covered(global \cup todo) = Covered(blocks) /\ blocks' = blocks
    BY <1>1 DEF RangesInv, read
  <2>4. /\ Covered(global' \cup todo') = Covered(global') \cup Covered(todo')
        /\ Covered(global \cup todo) = Covered(global) \cup Covered(todo)
    BY CoveredUnion
  <2> QED
    BY <2>1, <2>2, <2>3, <2>4
<1> QED
  BY <1>1, <1>8, <1>9, <1>10 DEF RangesInv, read, BlocksOf

LEMMA FunctionsReadStep ==
  ASSUME RangesInv, FunctionsRead
  PROVE  RangesInv'
<1>1. /\ phase = "readFunctions" /\ phase' = "findGaps"
      /\ finfo' = NULL
      /\ todo' = UNION {rset[f] : f \in funcMap}
      /\ UNCHANGED <<funcMap, rset, blocks, global>>
  BY DEF FunctionsRead
<1>2. global = {}
  BY <1>1 DEF RangesInv
<1>3. ASSUME NEW x
      PROVE  x \in Covered(todo') <=> x \in Covered(blocks)
  <2>1. ASSUME NEW f \in funcMap
        PROVE  x \in Covered(rset[f]) <=> \E b \in blocks : b.finfo = f /\ x \in Addresses(b)
    <3>1. Covered(rset[f]) = Covered(BlocksOf(f))
      BY DEF RangesInv
    <3> QED
      BY <3>1, CoveredIff DEF BlocksOf
  <2>2. x \in Covered(todo') <=> \E f \in funcMap : x \in Covered(rset[f])
    BY <1>1 DEF Covered
  <2>3. x \in Covered(blocks) <=> \E b \in blocks : x \in Addresses(b)
    BY CoveredIff
  <2> QED
    BY <2>1, <2>2, <2>3 DEF RangesInv
<1>4. global' \cup todo' = todo' /\ blocks' = blocks
  BY <1>1, <1>2
<1>5. Covered(global' \cup todo') = Covered(blocks')
  BY <1>3, <1>4
<1> QED
  BY <1>1, <1>2, <1>5 DEF RangesInv, BlocksOf

\* RangesInv is inductive.
LEMMA RangesStep == RangesInv /\ [Next]_vars => RangesInv'
<1> SUFFICES ASSUME RangesInv, [Next]_vars
             PROVE  RangesInv'
  OBVIOUS
<1>1. ASSUME NEW s, ReadSymbol(s) PROVE RangesInv'
  BY <1>1 DEF ReadSymbol, RangesInv, BlocksOf
<1>2. ASSUME NEW entry \in Entry, ReadFunction(entry) PROVE RangesInv'
  BY <1>2 DEF ReadFunction, RangesInv, BlocksOf
<1>3. ASSUME NEW first \in Address, NEW end \in Address, first < end, ReadBlock(first, end)
      PROVE  RangesInv'
  BY <1>3, ReadBlockStep
<1>4. CASE SymbolsRead
  BY <1>4 DEF SymbolsRead, RangesInv, BlocksOf, read
<1>5. CASE FunctionsRead
  BY <1>5, FunctionsReadStep
<1>6. ASSUME NEW r \in todo, MergeRange(r) PROVE RangesInv'
  BY <1>6, MergeStep
<1>7. ASSUME symbolMap' = symbolMap, funcMap' = funcMap, finfo' = finfo, rset' = rset,
             blocks' = blocks, todo' = todo, global' = global,
             \/ phase' = phase
             \/ phase = "findGaps" /\ phase' = "printGaps"
             \/ phase = "printGaps" /\ phase' = "exited"
      PROVE  RangesInv'
  BY <1>7 DEF RangesInv, BlocksOf, read
<1>8. CASE FindGap
  BY <1>8, <1>7 DEF FindGap, read
<1>9. ASSUME NEW s, NextSymbol(s) PROVE RangesInv'
  BY <1>9, <1>7 DEF NextSymbol, read
<1>10. CASE Sort
  BY <1>10, <1>7 DEF Sort, read
<1>11. CASE PrintGap
  BY <1>11, <1>7 DEF PrintGap, read
<1>12. CASE Exit
  BY <1>12, <1>7 DEF Exit, read
<1>13. CASE UNCHANGED vars
  BY <1>13, <1>7 DEF vars, read
<1> QED
  BY <1>1, <1>2, <1>3, <1>4, <1>5, <1>6, <1>8, <1>9, <1>10, <1>11, <1>12, <1>13
  DEF Next, Read, Proceed, Exited

LEMMA RangesInit == Init => RangesInv
<1> SUFFICES ASSUME Init PROVE RangesInv
  OBVIOUS
<1>1. Covered({}) = {}
  BY DEF Covered
<1>2. \A f \in Entry : BlocksOf(f) = {}
  BY DEF Init, BlocksOf
<1> QED
  BY <1>1, <1>2 DEF Init, RangesInv, Separate

LEMMA RangesInvariant == Spec => []RangesInv
BY RangesInit, RangesStep, PTL DEF Spec

\* The ranges of each function and the global set lose no address and invent none; ranges of
\* a set do not overlap, and those of one function do not touch.
THEOREM RangesAreExact == Spec => []RangesExact
<1>1. RangesInv => RangesExact
  BY DEF RangesInv, RangesExact, Separate
<1> QED
  BY <1>1, RangesInvariant, PTL

-----------------------------------------------------------------------------
(* findNextGap. *)

\* A gap ends at the first range right of z, or at the limit.
LEMMA GapEndRight ==
  ASSUME NEW ranges \in SUBSET Ranges, Separate(ranges),
         NEW z \in Nat, NEW limit \in Nat, z < limit
  PROVE  LET e == GapEnd(FirstOf(RightOf(ranges, z)), limit) IN
         /\ e \in Nat /\ z < e /\ e <= limit
         /\ \A r \in ranges : z < r.start => e <= r.start
         /\ e < limit => \E r \in FirstOf(RightOf(ranges, z)) : r.start = e
<1> DEFINE e == GapEnd(FirstOf(RightOf(ranges, z)), limit)
           right == RightOf(ranges, z)
           next == FirstOf(right)
<1>1. right = {r \in ranges : z < r.start} /\ right \in SUBSET ranges
  BY DEF RightOf
<1>. SUFFICES /\ e \in Nat /\ z < e /\ e <= limit
              /\ \A r \in ranges : z < r.start => e <= r.start
              /\ e < limit => \E r \in next : r.start = e
  OBVIOUS
<1> HIDE DEF right, e
<1>2. \A r \in ranges : z < r.start => \E q \in next : q \in right /\ q.start <= r.start
  <2>1. ASSUME NEW r \in ranges, z < r.start
        PROVE  \E q \in next : q \in right /\ q.start <= r.start
    <3>1. PICK q \in right : q \in next
      BY <1>1, <2>1, FirstExists
    <3> QED
      BY <3>1, <1>1, <2>1 DEF FirstOf
  <2> QED
    BY <2>1
<1>3. CASE \E r \in next : r.start < limit
  <2>1. PICK r \in next : r.start < limit
    BY <1>3
  <2>2. next = {r}
    BY <1>1, OneFirst
  <2>3. {q.start : q \in next} = {r.start}
    BY <2>2
  <2>4. e = r.start
    <3>1. e = CHOOSE x \in {q.start : q \in next} : TRUE
      BY <1>3, Zenon DEF GapEnd, right, e
    <3> QED
      BY <3>1, <2>3
  <2>5. r \in ranges /\ z < r.start
    BY <1>1 DEF FirstOf
  <2> QED
    BY <2>1, <2>2, <2>4, <2>5, <1>2, RangeType DEF right
<1>4. CASE ~ \E r \in next : r.start < limit
  <2>1. e = limit
    BY <1>4 DEF GapEnd, right, e
  <2>2. ASSUME NEW r \in ranges, z < r.start PROVE limit <= r.start
    <3>1. PICK q \in next : q \in right /\ q.start <= r.start
      BY <1>2, <2>2
    <3>2. q \in Ranges /\ ~ (q.start < limit)
      BY <3>1, <1>1, <1>4
    <3> QED
      BY <3>1, <3>2, RangeType
  <2> QED
    BY <2>1, <2>2
<1> QED
  BY <1>3, <1>4

\* If an address behind a range is not covered, a range at or left of it is followed by
\* none that is adjacent.
LEMMA Stops ==
  ASSUME NEW ranges \in SUBSET Ranges, Separate(ranges),
         NEW l \in ranges, NEW a \in Nat, l.start <= a, a \notin Covered(ranges)
  PROVE  \E m \in ranges : /\ l.start <= m.start /\ m.start <= a /\ m.end <= a
                           /\ \A q \in FirstOf(RightOf(ranges, m.start)) : m.end < q.start
<1> DEFINE before == {k \in ranges : k.start <= a}
<1>1. before \in SUBSET ranges /\ before # {} /\ before \in SUBSET Ranges
  OBVIOUS
<1>2. PICK m \in before : m \in LastOf(before)
  BY <1>1, LastExists
<1>3. m \in ranges /\ l.start <= m.start /\ m.start <= a
  BY <1>2 DEF LastOf
<1>4. m.end <= a
  <2>1. a \notin Addresses(m)
    BY <1>3, CoveredIff
  <2> QED
    BY <2>1, <1>3, AddressesIff, RangeType
<1>5. ASSUME NEW q \in FirstOf(RightOf(ranges, m.start)) PROVE m.end < q.start
  <2>1. q \in ranges /\ m.start < q.start
    BY DEF FirstOf, RightOf
  <2>2. q \notin before
    BY <2>1, <1>2, RangeType DEF LastOf
  <2> QED
    BY <2>1, <2>2, <1>3, <1>4, RangeType
<1> QED
  BY <1>3, <1>4, <1>5

LEMMA LeftEdgeRight ==
  ASSUME NEW ranges \in SUBSET Ranges, Separate(ranges), NEW x \in Nat
  PROVE  /\ \A l \in LeftEdge(ranges, x) : l \in ranges /\ LeftEdge(ranges, x) = {l}
         /\ ranges # {} => LeftEdge(ranges, x) # {}
         /\ \A r \in ranges, l \in LeftEdge(ranges, x) :
              r.start <= x => l.start <= x /\ (r = l \/ r.end <= l.start)
<1> DEFINE before == NotRightOf(ranges, x)
<1>1. before = {r \in ranges : r.start <= x} /\ before \in SUBSET ranges
  BY RangeType DEF NotRightOf, RightOf
<1> HIDE DEF before
<1>2. CASE before = {}
  <2>1. LeftEdge(ranges, x) = FirstOf(ranges)
    BY <1>2 DEF LeftEdge, before
  <2>2. ranges \in SUBSET ranges
    OBVIOUS
  <2>3. \A l, k \in FirstOf(ranges) : l \in ranges /\ l = k
    BY <2>2, OneFirst DEF FirstOf
  <2> QED
    BY <2>1, <2>3, <1>1, <1>2, FirstExists
<1>3. CASE before # {}
  <2>1. LeftEdge(ranges, x) = LastOf(before)
    BY <1>3 DEF LeftEdge, before
  <2>2. \A l, k \in LastOf(before) : l \in ranges /\ l = k
    BY <1>1, OneLast DEF LastOf
  <2>3. LastOf(before) # {}
    BY <1>1, <1>3, LastExists
  <2>4. ASSUME NEW r \in ranges, NEW l \in LastOf(before), r.start <= x
        PROVE  l.start <= x /\ (r = l \/ r.end <= l.start)
    <3>1. l \in ranges /\ l.start <= x /\ r.start <= l.start
      BY <2>4, <1>1 DEF LastOf
    <3> QED
      BY <3>1, RangeType DEF Separate
  <2> QED
    BY <2>1, <2>2, <2>3, <2>4
<1> QED
  BY <1>2, <1>3


\* What findNextGap promises of [x, y).
GapIsRight(ranges, x, y, g) ==
  /\ g = [start |-> g.start, end |-> g.end]
  /\ g.start \in Nat /\ g.end \in Nat
  /\ x <= g.start /\ g.start < g.end /\ g.end <= y
  /\ \A a \in g.start .. g.end - 1 : a \notin Covered(ranges)
  /\ g.end < y => g.end \in Covered(ranges)
  /\ g.start > x => g.start - 1 \in Covered(ranges)

EnteredAt(ranges, x) == NotRightOf(ranges, x) # {} \/ ranges = {}

\* Nothing is skipped before the address z.
NoneBefore(ranges, x, z) ==
  EnteredAt(ranges, x) => \A a \in x .. z - 1 : a \in Covered(ranges)

LEMMA EnteredLeft ==
  ASSUME NEW ranges \in SUBSET Ranges, Separate(ranges), NEW x \in Nat,
         NotRightOf(ranges, x) # {}, NEW l \in LeftEdge(ranges, x)
  PROVE  l.start <= x
<1>1. PICK r \in ranges : r.start <= x
  BY RangeType DEF NotRightOf, RightOf
<1> QED
  BY <1>1, LeftEdgeRight

\* The case in which the range at or left of x ends by x.
LEMMA GapAtStart ==
  ASSUME NEW ranges \in SUBSET Ranges, Separate(ranges),
         NEW x \in Nat, NEW y \in Nat, x < y,
         \A l \in LeftEdge(ranges, x) : l.end <= x
  PROVE  GapIsRight(ranges, x, y,
           [start |-> x, end |-> GapEnd(FirstOf(RightOf(ranges, x)), y)])
<1> DEFINE e == GapEnd(FirstOf(RightOf(ranges, x)), y)
<1>1. /\ e \in Nat /\ x < e /\ e <= y
      /\ \A r \in ranges : x < r.start => e <= r.start
      /\ e < y => \E r \in FirstOf(RightOf(ranges, x)) : r.start = e
  BY GapEndRight
<1> HIDE DEF e
<1>2. ASSUME NEW a \in x .. e - 1 PROVE a \notin Covered(ranges)
  <2>1. SUFFICES ASSUME NEW r \in ranges, a \in Addresses(r) PROVE FALSE
    BY <2>1, CoveredIff
  <2>2. r.start <= a /\ a < r.end /\ r.start \in Nat /\ r.end \in Nat
    BY <2>1, AddressesIff, RangeType, <1>1
  <2>3. r.start <= x
    BY <2>2, <1>1
  <2>4. PICK l \in LeftEdge(ranges, x) : TRUE
    BY LeftEdgeRight
  <2>5. l \in Ranges /\ l.end <= x /\ l.start <= x /\ (r = l \/ r.end <= l.start)
    BY <2>3, <2>4, LeftEdgeRight
  <2>6. x <= a /\ a \in Int /\ l.start \in Nat /\ l.end \in Nat
    BY <2>5, <1>1, RangeType
  <2> QED
    BY <2>2, <2>5, <2>6
<1>3. ASSUME e < y PROVE e \in Covered(ranges)
  <2>1. PICK r \in FirstOf(RightOf(ranges, x)) : r.start = e
    BY <1>1, <1>3
  <2>2. r \in ranges
    BY DEF FirstOf, RightOf
  <2>3. e \in Addresses(r)
    BY <2>1, <2>2, AddressesIff, RangeType, <1>1
  <2> QED
    BY <2>2, <2>3, CoveredIff
<1> QED
  BY <1>1, <1>2, <1>3 DEF GapIsRight, e

\* The case in which it does not: r is the last of the adjacent ranges.
LEMMA GapBehind ==
  ASSUME NEW ranges \in SUBSET Ranges, Separate(ranges),
         NEW x \in Nat, NEW y \in Nat, x < y,
         NEW l \in LeftEdge(ranges, x), x < l.end,
         NEW r \in LastAdjacent(ranges, l, y), r.end < y
  PROVE  GapIsRight(ranges, x, y,
           [start |-> r.end, end |-> GapEnd(FirstOf(RightOf(ranges, r.start)), y)])
<1> DEFINE e == GapEnd(FirstOf(RightOf(ranges, r.start)), y)
<1>1. /\ r \in ranges /\ l.start <= r.start
      /\ (y < r.end \/ \A q \in FirstOf(RightOf(ranges, r.start)) : r.end < q.start)
  BY DEF LastAdjacent, FirstOf
<1>2. r.start \in Nat /\ r.end \in Nat /\ r.start < r.end
  BY <1>1, RangeType
<1>3. r.start < y
  BY <1>2
<1>4. /\ e \in Nat /\ e <= y
      /\ \A q \in ranges : r.start < q.start => e <= q.start
      /\ e < y => \E q \in FirstOf(RightOf(ranges, r.start)) : q.start = e
  BY <1>2, <1>3, GapEndRight
<1> HIDE DEF e
<1>5. r.end < e
  BY <1>1, <1>2, <1>4
<1>6. x < r.end
  <2>1. l \in ranges
    BY LeftEdgeRight
  <2> QED
    BY <2>1, <1>1, RangeType DEF Separate
<1>7. ASSUME NEW a \in r.end .. e - 1 PROVE a \notin Covered(ranges)
  <2>1. SUFFICES ASSUME NEW q \in ranges, a \in Addresses(q) PROVE FALSE
    BY <2>1, CoveredIff
  <2>2. q.start <= a /\ a < q.end /\ q.start \in Nat /\ q.end \in Nat
    BY <2>1, AddressesIff, RangeType, <1>2, <1>4
  <2>3. q.start <= r.start
    BY <2>2, <1>2, <1>4
  <2> QED
    BY <2>2, <2>3, <1>1, <1>2 DEF Separate
<1>8. ASSUME e < y PROVE e \in Covered(ranges)
  <2>1. PICK q \in FirstOf(RightOf(ranges, r.start)) : q.start = e
    BY <1>4, <1>8
  <2>2. q \in ranges
    BY DEF FirstOf, RightOf
  <2>3. e \in Addresses(q)
    BY <2>1, <2>2, AddressesIff, RangeType, <1>4
  <2> QED
    BY <2>2, <2>3, CoveredIff
<1>9. r.end - 1 \in Covered(ranges)
  <2>1. r.end - 1 \in Addresses(r)
    BY <1>1, <1>2, AddressesIff
  <2> QED
    BY <2>1, <1>1, CoveredIff
<1> QED
  BY <1>2, <1>4, <1>5, <1>6, <1>7, <1>8, <1>9 DEF GapIsRight, e

\* An uncovered address that a scan from l passes: it stops before that address.
LEMMA StopsBefore ==
  ASSUME NEW ranges \in SUBSET Ranges, Separate(ranges),
         NEW l \in ranges, NEW y \in Nat,
         NEW a \in Nat, l.start <= a, a \notin Covered(ranges)
  PROVE  /\ \E r \in LastAdjacent(ranges, l, y) : TRUE
         /\ \A r \in LastAdjacent(ranges, l, y) : r.end <= a
<1> DEFINE S == {r \in ranges :
                   /\ l.start <= r.start
                   /\ \/ y < r.end
                      \/ \A q \in FirstOf(RightOf(ranges, r.start)) : r.end < q.start}
<1>1. PICK m \in ranges : /\ l.start <= m.start /\ m.start <= a /\ m.end <= a
                          /\ \A q \in FirstOf(RightOf(ranges, m.start)) : m.end < q.start
  BY Stops
<1>2. m \in S /\ S \in SUBSET ranges
  BY <1>1
<1>3. LastAdjacent(ranges, l, y) = FirstOf(S)
  BY DEF LastAdjacent
<1> HIDE DEF S
<1>4. \E r \in S : r \in FirstOf(S)
  BY <1>2, FirstExists
<1>5. ASSUME NEW r \in FirstOf(S) PROVE r.end <= a
  <2>1. r \in ranges /\ r.start <= m.start
    BY <1>2 DEF FirstOf
  <2>2. r.end \in Nat /\ m.start \in Nat /\ m.end \in Nat
    BY <2>1, RangeType
  <2> QED
    BY <2>1, <2>2, <1>1 DEF Separate
<1> QED
  BY <1>3, <1>4, <1>5

\* The gap that findNextGap returns is one, and it is the first of [x, y).
LEMMA NextGapRight ==
  ASSUME NEW ranges \in SUBSET Ranges, Separate(ranges),
         NEW x \in Nat, NEW y \in Nat, x < y
  PROVE  /\ \A g \in findNextGap(ranges, x, y) :
              GapIsRight(ranges, x, y, g) /\ NoneBefore(ranges, x, g.start)
         /\ findNextGap(ranges, x, y) = {} => NoneBefore(ranges, x, y)
<1>1. CASE \A l \in LeftEdge(ranges, x) : l.end <= x
  <2> DEFINE e == GapEnd(FirstOf(RightOf(ranges, x)), y)
  <2>1. findNextGap(ranges, x, y) = {[start |-> x, end |-> e]}
    BY <1>1 DEF findNextGap
  <2>2. GapIsRight(ranges, x, y, [start |-> x, end |-> e])
    BY <1>1, GapAtStart
  <2>3. NoneBefore(ranges, x, x)
    BY DEF NoneBefore
  <2> QED
    BY <2>1, <2>2, <2>3
<1>2. CASE \E l \in LeftEdge(ranges, x) : ~ (l.end <= x)
  <2>1. PICK l \in LeftEdge(ranges, x) : ~ (l.end <= x)
    BY <1>2
  <2>2. l \in ranges /\ LeftEdge(ranges, x) = {l}
    BY LeftEdgeRight
  <2>3. x < l.end
    BY <2>1, <2>2, RangeType
  <2> DEFINE it == LastAdjacent(ranges, l, y)
             e(r) == GapEnd(FirstOf(RightOf(ranges, r.start)), y)
  <2>4. findNextGap(ranges, x, y) =
          {[start |-> r.end, end |-> e(r)] : r \in {q \in it : q.end < y}}
    <3>1. UNION {LastAdjacent(ranges, k, y) : k \in LeftEdge(ranges, x)} = it
      BY <2>2
    <3> QED
      BY <3>1, <1>2, Zenon DEF findNextGap
  <2>5. ASSUME NEW a \in Nat, x <= a, a \notin Covered(ranges), EnteredAt(ranges, x)
        PROVE  (\E r \in it : TRUE) /\ \A r \in it : r.end <= a
    <3>1. l.start <= a
      <4>1. l.start <= x
        BY <2>5, <2>2, EnteredLeft DEF EnteredAt
      <4> QED
        BY <4>1, <2>2, <2>5, RangeType
    <3> QED
      BY <3>1, <2>2, <2>5, StopsBefore
  <2>6. \A r \in it : r \in Ranges
    BY DEF LastAdjacent, FirstOf
  <2> HIDE DEF it
  <2>7. ASSUME NEW g \in findNextGap(ranges, x, y)
        PROVE  GapIsRight(ranges, x, y, g) /\ NoneBefore(ranges, x, g.start)
    <3>1. PICK r \in it : r.end < y /\ g = [start |-> r.end, end |-> e(r)]
      BY <2>4
    <3>2. GapIsRight(ranges, x, y, g)
      BY <3>1, <2>3, GapBehind DEF it
    <3>3. NoneBefore(ranges, x, r.end)
      BY <2>5, <2>6, RangeType DEF NoneBefore
    <3> QED
      BY <3>1, <3>2, <3>3
  <2>8. ASSUME findNextGap(ranges, x, y) = {} PROVE NoneBefore(ranges, x, y)
    <3>1. \A r \in it : ~ (r.end < y)
      BY <2>4, <2>8
    <3> QED
      BY <3>1, <2>5, <2>6, RangeType DEF NoneBefore
  <2> QED
    BY <2>7, <2>8
<1> QED
  BY <1>1, <1>2

-----------------------------------------------------------------------------
(* Searching the symbols. *)

Symbols == {s \in [start : Address, end : Address] : s.start <= s.end}
Gaps    == [start : Nat, end : Nat, sinfo : Symbols, prev : Ranges \cup {NULL}]

Found == {gapVec[k] : k \in DOMAIN gapVec}

Reading == phase \in {"readSymbols", "readFunctions"}

\* Nothing is searched before all of the functions are merged, and the list is sorted and
\* printed when every symbol is.
PhasesInv ==
  /\ symbolMap \subseteq Symbols /\ sit \subseteq symbolMap
  /\ sinfo \in symbolMap \cup {NULL} /\ sinfo \notin sit
  /\ start \in Nat
  /\ gapVec \in Seq(Gaps)
  /\ Reading \/ todo # {} => gapVec = <<>> /\ sinfo = NULL
  /\ phase = "findGaps" /\ sinfo = NULL => sit = symbolMap /\ gapVec = <<>>
  /\ phase \in {"printGaps", "exited"} => sit = {} /\ sinfo = NULL /\ todo = {}

\* A gap lies in a symbol that was or is being searched, and holds no covered address; on
\* either side it ends at a block or at the end of the symbol.
GapRight(g) ==
  /\ g.sinfo \in symbolMap \ sit
  /\ g.sinfo.start <= g.start /\ g.start < g.end /\ g.end <= g.sinfo.end
  /\ \A a \in g.start .. g.end - 1 : a \notin Covered(blocks)
  /\ g.end < g.sinfo.end => g.end \in Covered(blocks)
  /\ g.sinfo.start < g.start => g.start - 1 \in Covered(blocks)
  /\ IF g.prev = NULL THEN g.start = g.sinfo.start ELSE g.prev.end = g.start

Apart(g, h) == g.end < h.start \/ h.end < g.start

\* No uncovered address of s before z is in no gap.
SearchedTo(s, z) ==
  Entered(s) => \A a \in s.start .. z - 1 :
    a \in Covered(blocks) \/ \E g \in Found : g.sinfo = s /\ a \in Addresses(g)

\* The search of a symbol goes on behind its last gap, where a block begins.
CurrentInv ==
  sinfo # NULL =>
    /\ sinfo.start <= start /\ start <= sinfo.end
    /\ \A g \in Found : g.sinfo = sinfo => g.end <= start
    /\ start = sinfo.start \/ start = sinfo.end \/ start \in Covered(blocks)
    /\ SearchedTo(sinfo, start)

FoundInv ==
  /\ \A g \in Found : GapRight(g)
  /\ \A g, h \in Found : g # h /\ g.sinfo = h.sinfo => Apart(g, h)
  /\ ~ Reading => \A s \in symbolMap \ sit : s # sinfo => SearchedTo(s, s.end)

Places == {"entire_function", "start", "middle", "end"}

PrintedInv ==
  /\ num_gaps = Len(located) /\ num_gaps <= Len(gapVec) /\ num_gaps \in Nat
  /\ located \in Seq(Places)
  /\ \A k \in DOMAIN located : located[k] = Location(gapVec[k])
  /\ phase \notin {"printGaps", "exited"} => located = <<>>

GapsInv == PhasesInv /\ CurrentInv /\ FoundInv /\ PrintedInv

LEMMA FoundOf ==
  ASSUME NEW s
  PROVE  GapsOf(s) = {g \in Found : g.sinfo = s}
BY DEF GapsOf, Found

\* Before the search there is nothing to show.
LEMMA NothingFound ==
  ASSUME gapVec' = <<>>, sinfo' = NULL, Reading' \/ sit' = symbolMap'
  PROVE  CurrentInv' /\ FoundInv'
<1>1. Found' = {}
  BY DEF Found
<1> QED
  BY <1>1, Zenon DEF CurrentInv, FoundInv

LEMMA SymbolType ==
  ASSUME NEW s \in Symbols
  PROVE  s.start \in Nat /\ s.end \in Nat /\ s.start <= s.end /\ s # NULL
<1>1. s \in [start : Nat, end : Nat]
  BY GapsAssumption DEF Symbols, Address
<1>2. s # NULL
  BY <1>1, GapsAssumption
<1> QED
  BY <1>1, <1>2 DEF Symbols

\* A step that only prints, or sorts, or ends the search, keeps what was found.
LEMMA FoundKept ==
  ASSUME FoundInv, symbolMap \subseteq Symbols, ~ Reading, Found' = Found,
         UNCHANGED <<symbolMap, blocks, global, sit>>,
         sinfo' = sinfo \/ (sinfo # NULL => SearchedTo(sinfo, sinfo.end))
  PROVE  FoundInv'
<1>1. \A g : GapRight(g)' <=> GapRight(g)
  BY DEF GapRight
<1>2. ASSUME NEW s, NEW z PROVE SearchedTo(s, z)' <=> SearchedTo(s, z)
  BY DEF SearchedTo, Entered
<1>3. ASSUME NEW s \in symbolMap' \ sit', s # sinfo' PROVE SearchedTo(s, s.end)'
  <2>1. SearchedTo(s, s.end)
    <3>1. CASE s # sinfo
      BY <3>1, <1>3 DEF FoundInv
    <3>2. CASE s = sinfo /\ sinfo # NULL
      BY <3>2, <1>3
    <3>3. s # NULL
      BY <1>3, SymbolType
    <3> QED
      BY <3>1, <3>2, <3>3
  <2> QED
    BY <2>1, <1>2
<1> QED
  BY <1>1, <1>3 DEF FoundInv

LEMMA BlockNotNull ==
  ASSUME NEW b \in Ranges
  PROVE  b # NULL
<1>1. b \in [start : Nat, end : Nat, finfo : Nat]
  <2>1. b.finfo \in Nat /\ b.start \in Nat /\ b.end \in Nat
    BY RangeType, GapsAssumption
  <2> QED
    BY <2>1, RangeType
<1> QED
  BY <1>1, GapsAssumption

\* A block that holds the last address before a gap ends there; without one the gap is
\* the first of its symbol.
LEMMA PrevRight ==
  ASSUME blocks \subseteq Ranges, Covered(global) = Covered(blocks),
         NEW s \in Symbols, NEW g, g.start \in Nat, s.start <= g.start,
         g.start \notin Covered(blocks),
         s.start < g.start => g.start - 1 \in Covered(blocks),
         NEW prev \in Prev(g)
  PROVE  /\ prev \in Ranges \cup {NULL}
         /\ IF prev = NULL THEN g.start = s.start ELSE prev.end = g.start
<1> DEFINE before == {b \in blocks : g.start - 1 \in Addresses(b)}
<1>1. CASE g.start - 1 \in Covered(global) /\ before # {}
  <2>1. prev \in blocks /\ g.start - 1 \in Addresses(prev)
    BY <1>1 DEF Prev
  <2>2. prev \in Ranges /\ prev # NULL /\ prev.start \in Nat /\ prev.end \in Nat
    BY <2>1, RangeType, BlockNotNull
  <2>3. g.start \notin Addresses(prev)
    BY <2>1, CoveredIff
  <2>4. prev.end = g.start
    BY <2>1, <2>2, <2>3, AddressesIff
  <2> QED
    BY <2>2, <2>4
<1>2. CASE ~ (g.start - 1 \in Covered(global) /\ before # {})
  <2>1. prev = NULL
    BY <1>2 DEF Prev
  <2>2. g.start - 1 \notin Covered(blocks)
    BY <1>2, CoveredIff
  <2>3. g.start = s.start
    BY <2>2, SymbolType
  <2> QED
    BY <2>1, <2>3
<1> QED
  BY <1>1, <1>2

\* A symbol that was entered is entered from any later address on.
LEMMA EnteredOn ==
  ASSUME NEW s \in Symbols, NEW x \in Nat, s.start <= x, Entered(s),
         global \in SUBSET Ranges
  PROVE  EnteredAt(global, x)
<1>1. CASE global = {}
  BY <1>1 DEF EnteredAt
<1>2. CASE global # {}
  <2>1. PICK r \in global : ~ (s.start < r.start)
    BY <1>2 DEF Entered, NotRightOf, RightOf
  <2>2. ~ (x < r.start)
    BY <2>1, SymbolType, RangeType
  <2> QED
    BY <2>2 DEF EnteredAt, NotRightOf, RightOf
<1> QED
  BY <1>1, <1>2

\* What the global set promises once all of the functions are merged.
LEMMA Searchable ==
  ASSUME RangesInv, PhasesInv, phase = "findGaps", todo = {}
  PROVE  /\ global \in SUBSET Ranges /\ Separate(global)
         /\ Covered(global) = Covered(blocks) /\ blocks \subseteq Ranges
         /\ ~ Reading
         /\ sinfo # NULL =>
              sinfo \in Symbols /\ sinfo.start \in Nat /\ sinfo.end \in Nat
<1>1. global \cup todo = global
  OBVIOUS
<1> QED
  BY <1>1, SymbolType DEF RangesInv, PhasesInv, Reading

\* The last symbol is searched to its end when no gap is left.
LEMMA SearchedThrough ==
  ASSUME RangesInv, PhasesInv, CurrentInv, phase = "findGaps", todo = {},
         NextGap = {}, sinfo # NULL
  PROVE  SearchedTo(sinfo, sinfo.end)
<1>1. sinfo \in Symbols /\ sinfo.start \in Nat /\ sinfo.end \in Nat /\ start \in Nat
  BY Searchable DEF PhasesInv
<1>2. sinfo.start <= start /\ start <= sinfo.end /\ SearchedTo(sinfo, start)
  BY DEF CurrentInv
<1>3. ASSUME Entered(sinfo), NEW a \in sinfo.start .. sinfo.end - 1
      PROVE  a \in Covered(blocks) \/ \E g \in Found : g.sinfo = sinfo /\ a \in Addresses(g)
  <2>1. CASE a < start
    <3>1. a \in sinfo.start .. start - 1
      BY <2>1, <1>1, <1>2
    <3> QED
      BY <3>1, <1>2, <1>3 DEF SearchedTo
  <2>2. CASE ~ (a < start)
    <3>1. start < sinfo.end /\ a \in start .. sinfo.end - 1
      BY <2>2, <1>1, <1>2
    <3>2. findNextGap(global, start, sinfo.end) = {}
      BY <3>1 DEF NextGap
    <3>3. NoneBefore(global, start, sinfo.end)
      BY <3>1, <3>2, <1>1, Searchable, NextGapRight
    <3>4. EnteredAt(global, start)
      BY <1>1, <1>2, <1>3, Searchable, EnteredOn
    <3> QED
      BY <3>1, <3>3, <3>4, Searchable DEF NoneBefore
  <2> QED
    BY <2>1, <2>2
<1> QED
  BY <1>3 DEF SearchedTo

\* The gap that a step appends is right, and apart from the earlier ones of its symbol.
LEMMA FindGapRight ==
  ASSUME RangesInv, PhasesInv, CurrentInv, FoundInv, phase = "findGaps", todo = {},
         NEW gap \in NextGap, NEW prev \in Prev(gap), NEW new,
         new = [start |-> gap.start, end |-> gap.end, sinfo |-> sinfo, prev |-> prev]
  PROVE  /\ new \in Gaps /\ GapRight(new)
         /\ start <= new.start /\ new.sinfo = sinfo
         /\ \A h \in Found : h.sinfo = sinfo => h.end < new.start
         /\ NoneBefore(global, start, new.start)
<1>1. /\ sinfo # NULL /\ start < sinfo.end /\ start \in Nat
      /\ gap \in findNextGap(global, start, sinfo.end)
  BY DEF NextGap, PhasesInv
<1>2. /\ sinfo \in Symbols /\ sinfo.start \in Nat /\ sinfo.end \in Nat
      /\ global \in SUBSET Ranges /\ Separate(global)
      /\ Covered(global) = Covered(blocks) /\ blocks \subseteq Ranges
  BY <1>1, Searchable
<1>3. GapIsRight(global, start, sinfo.end, gap) /\ NoneBefore(global, start, gap.start)
  BY <1>1, <1>2, NextGapRight
<1>4. /\ gap.start \in Nat /\ gap.end \in Nat
      /\ start <= gap.start /\ gap.start < gap.end /\ gap.end <= sinfo.end
      /\ \A a \in gap.start .. gap.end - 1 : a \notin Covered(blocks)
      /\ gap.end < sinfo.end => gap.end \in Covered(blocks)
      /\ gap.start > start => gap.start - 1 \in Covered(blocks)
  BY <1>2, <1>3 DEF GapIsRight
<1>5. gap.start \notin Covered(blocks)
  BY <1>4
<1>6. /\ sinfo.start <= start
      /\ start = sinfo.start \/ start = sinfo.end \/ start \in Covered(blocks)
      /\ \A h \in Found : h.sinfo = sinfo => h.end <= start
  BY <1>1 DEF CurrentInv
<1>7. sinfo.start < gap.start => gap.start - 1 \in Covered(blocks)
  BY <1>1, <1>2, <1>4, <1>5, <1>6
<1>8. sinfo.start <= gap.start
  BY <1>1, <1>2, <1>4, <1>6
<1>9. /\ prev \in Ranges \cup {NULL}
      /\ IF prev = NULL THEN gap.start = sinfo.start ELSE prev.end = gap.start
  BY <1>2, <1>4, <1>5, <1>7, <1>8, PrevRight
<1>10. ASSUME NEW h \in Found, h.sinfo = sinfo PROVE h.end < gap.start
  <2>1. h \in Gaps
    BY DEF Found, PhasesInv
  <2>2. h.start \in Nat /\ h.end \in Nat /\ h.start < h.end /\ sinfo.start <= h.start
    BY <2>1, <1>10 DEF FoundInv, GapRight, Gaps
  <2>3. h.end <= start
    BY <1>6, <1>10
  <2> QED
    BY <2>2, <2>3, <1>1, <1>2, <1>4, <1>5, <1>6
<1>11. sinfo \in symbolMap \ sit
  BY <1>1 DEF PhasesInv
<1>12. new.start = gap.start /\ new.end = gap.end /\ new.sinfo = sinfo /\ new.prev = prev
  OBVIOUS
<1>13. new \in Gaps
  BY <1>2, <1>4, <1>9 DEF Gaps
<1>14. GapRight(new)
  BY <1>4, <1>7, <1>8, <1>9, <1>11, <1>12 DEF GapRight
<1> QED
  BY <1>3, <1>4, <1>10, <1>12, <1>13, <1>14

LEMMA FindGapStep ==
  ASSUME RangesInv, GapsInv, FindGap
  PROVE  PhasesInv' /\ CurrentInv' /\ FoundInv'
<1>1. phase = "findGaps" /\ todo = {}
  BY DEF FindGap
<1>. PICK gap \in NextGap : \E prev \in Prev(gap) :
       /\ gapVec' = Append(gapVec, [start |-> gap.start, end |-> gap.end,
                                    sinfo |-> sinfo, prev |-> prev])
       /\ start' = gap.end
  BY DEF FindGap
<1>2. PICK prev \in Prev(gap) :
        /\ gapVec' = Append(gapVec, [start |-> gap.start, end |-> gap.end,
                                     sinfo |-> sinfo, prev |-> prev])
        /\ start' = gap.end
  OBVIOUS
<1> DEFINE new == [start |-> gap.start, end |-> gap.end, sinfo |-> sinfo, prev |-> prev]
<1>3. new.end = gap.end
  OBVIOUS
<1>4. gapVec' = Append(gapVec, new) /\ start' = new.end
  BY <1>2
<1>5. /\ new \in Gaps /\ GapRight(new)
      /\ start <= new.start /\ new.sinfo = sinfo
      /\ \A h \in Found : h.sinfo = sinfo => h.end < new.start
      /\ NoneBefore(global, start, new.start)
  BY <1>1, FindGapRight DEF GapsInv
<1> HIDE DEF new
<1>6. /\ UNCHANGED <<phase, symbolMap, blocks, todo, global, sit, sinfo>>
      /\ sinfo # NULL
  BY <1>2 DEF FindGap, NextGap, read
<1>7. Found' = Found \cup {new} /\ gapVec' \in Seq(Gaps)
  BY <1>4, <1>5 DEF Found, GapsInv, PhasesInv
<1>8. /\ new.start \in Nat /\ new.end \in Nat /\ start \in Nat
      /\ new.start < new.end /\ new.end <= sinfo.end
      /\ new.end = sinfo.end \/ new.end \in Covered(blocks)
      /\ sinfo \in Symbols /\ sinfo.start \in Nat /\ sinfo.end \in Nat
      /\ sinfo.start <= start
  <2>1. sinfo \in Symbols /\ sinfo.start \in Nat /\ sinfo.end \in Nat
    BY <1>1, <1>6, Searchable DEF GapsInv
  <2>2. new.start \in Nat /\ new.end \in Nat
    BY <1>5 DEF Gaps
  <2> QED
    BY <2>1, <2>2, <1>5, <1>6 DEF GapRight, GapsInv, PhasesInv, CurrentInv
<1>9. PhasesInv'
  BY <1>1, <1>4, <1>6, <1>7, <1>8 DEF GapsInv, PhasesInv, Reading
<1>10. \A g : GapRight(g)' <=> GapRight(g)
  BY <1>6 DEF GapRight
<1>11. ASSUME NEW s, NEW z, SearchedTo(s, z) PROVE SearchedTo(s, z)'
  BY <1>6, <1>7, <1>11 DEF SearchedTo, Entered
<1>12. \A g \in Found : g.sinfo = sinfo => g.end \in Nat
  <2>1. \A g \in Found : g \in Gaps
    BY DEF GapsInv, PhasesInv, Found
  <2> QED
    BY <2>1 DEF Gaps
<1>13. ASSUME Entered(sinfo), NEW a \in sinfo.start .. new.end - 1
       PROVE  a \in Covered(blocks) \/ \E g \in Found' : g.sinfo = sinfo /\ a \in Addresses(g)
  <2>1. CASE a < start
    <3>1. a \in sinfo.start .. start - 1
      BY <2>1, <1>8
    <3>2. SearchedTo(sinfo, start)
      BY <1>6 DEF GapsInv, CurrentInv
    <3> QED
      BY <3>1, <3>2, <1>7, <1>13 DEF SearchedTo
  <2>2. CASE start <= a /\ a < new.start
    <3>1. a \in start .. new.start - 1
      BY <2>2, <1>8
    <3>2. EnteredAt(global, start) /\ Covered(global) = Covered(blocks)
      BY <1>1, <1>8, <1>13, Searchable, EnteredOn DEF GapsInv
    <3> QED
      BY <3>1, <3>2, <1>5 DEF NoneBefore
  <2>3. CASE new.start <= a
    <3>1. a \in Addresses(new)
      BY <2>3, <1>8 DEF Addresses
    <3> QED
      BY <3>1, <1>5, <1>7
  <2> QED
    BY <2>1, <2>2, <2>3, <1>8
<1>14. SearchedTo(sinfo, start)'
  <2>1. Entered(sinfo)' <=> Entered(sinfo)
    BY <1>6 DEF Entered
  <2>2. new.end \in Nat /\ Covered(blocks)' = Covered(blocks)
    BY <1>6, <1>8
  <2> QED
    BY <2>1, <2>2, <1>6, <1>4, <1>13 DEF SearchedTo
<1>15. CurrentInv'
  <2>1. \A g \in Found' : g.sinfo = sinfo => g.end <= new.end
    BY <1>5, <1>7, <1>8, <1>12
  <2>2. sinfo.start <= new.end
    BY <1>5, <1>8
  <2> QED
    BY <2>1, <2>2, <1>4, <1>6, <1>8, <1>14 DEF CurrentInv
<1>16. FoundInv'
  <2>1. \A g \in Found' : GapRight(g)'
    BY <1>5, <1>7, <1>10 DEF GapsInv, FoundInv
  <2>2. \A g, h \in Found' : g # h /\ g.sinfo = h.sinfo => Apart(g, h)
    BY <1>5, <1>7 DEF GapsInv, FoundInv, Apart
  <2>3. \A s \in symbolMap' \ sit' : s # sinfo' => SearchedTo(s, s.end)'
    BY <1>1, <1>6, <1>11 DEF GapsInv, FoundInv, Reading
  <2> QED
    BY <2>1, <2>2, <2>3 DEF FoundInv, Apart
<1> QED
  BY <1>9, <1>15, <1>16

LEMMA NextSymbolStep ==
  ASSUME RangesInv, GapsInv, NEW s, NextSymbol(s)
  PROVE  PhasesInv' /\ CurrentInv' /\ FoundInv'
<1>1. /\ phase = "findGaps" /\ todo = {} /\ NextGap = {}
      /\ s \in sit /\ sit' = sit \ {s} /\ sinfo' = s /\ start' = s.start
      /\ UNCHANGED <<phase, symbolMap, blocks, todo, global, gapVec>>
  BY DEF NextSymbol, FirstOf, read
<1>2. s \in symbolMap /\ s \in Symbols /\ s.start \in Nat /\ s.end \in Nat /\ s.start <= s.end
      /\ s # NULL
  BY <1>1, SymbolType DEF GapsInv, PhasesInv
<1>3. PhasesInv'
  BY <1>1, <1>2 DEF GapsInv, PhasesInv, Reading
<1>4. Found' = Found
  BY <1>1 DEF Found
<1>5. \A g \in Found : g.sinfo # s /\ g.sinfo \in symbolMap \ sit
  BY <1>1 DEF GapsInv, FoundInv, GapRight
<1>6. CurrentInv'
  <2>1. SearchedTo(s, s.start)'
    BY <1>1, <1>2 DEF SearchedTo
  <2> QED
    BY <2>1, <1>1, <1>2, <1>4, <1>5 DEF CurrentInv
<1>7. ASSUME NEW g \in Found PROVE GapRight(g)'
  BY <1>1, <1>5 DEF GapsInv, FoundInv, GapRight
<1>8. ASSUME NEW q \in symbolMap' \ sit', q # sinfo' PROVE SearchedTo(q, q.end)'
  <2>1. q \in symbolMap \ sit
    BY <1>1, <1>8
  <2>2. SearchedTo(q, q.end)
    <3>1. CASE q = sinfo
      <4>1. sinfo # NULL
        BY <2>1, <3>1, SymbolType DEF GapsInv, PhasesInv
      <4> QED
        BY <4>1, <3>1, <1>1, SearchedThrough DEF GapsInv
    <3>2. CASE q # sinfo
      BY <2>1, <3>2, <1>1 DEF GapsInv, FoundInv, Reading
    <3> QED
      BY <3>1, <3>2
  <2> QED
    BY <2>2, <1>1, <1>4 DEF SearchedTo, Entered
<1>9. \A g, h \in Found' : g # h /\ g.sinfo = h.sinfo => Apart(g, h)
  BY <1>4 DEF GapsInv, FoundInv
<1>10. FoundInv'
  BY <1>4, <1>7, <1>8, <1>9 DEF FoundInv, Apart
<1> QED
  BY <1>3, <1>6, <1>10

\* Sorting loses no gap and doubles none.
LEMMA SortKeeps ==
  ASSUME gapVec \in Seq(Gaps), Sort
  PROVE  Found' = Found /\ gapVec' \in Seq(Gaps)
<1> DEFINE D == DOMAIN gapVec
<1>1. D = 1 .. Len(gapVec) /\ Len(gapVec) \in Nat
  OBVIOUS
<1>2. PICK p \in [D -> D] : /\ \A j, k \in D : p[j] = p[k] => j = k
                            /\ gapVec' = [k \in D |-> gapVec[p[k]]]
  BY DEF Sort
<1>3. FS!IsFiniteSet(D)
  BY <1>1, FS!FS_Interval
<1>4. p \in FS!Injection(D, D)
  BY <1>2 DEF FS!Injection, FS!IsInjective
<1> HIDE DEF D
<1>5. p \in FS!Surjection(D, D)
  BY <1>3, <1>4, FS!FS_Injection
<1>6. \A j \in D : \E k \in D : p[k] = j
  BY <1>5 DEF FS!Surjection
<1>7. DOMAIN gapVec' = D /\ \A k \in D : gapVec'[k] = gapVec[p[k]]
  BY <1>2
<1>8. \A x : x \in Found' <=> x \in Found
  <2>1. \A x : x \in Found' <=> \E k \in D : x = gapVec[p[k]]
    BY <1>7 DEF Found
  <2>2. \A x : x \in Found <=> \E j \in D : x = gapVec[j]
    BY DEF Found, D
  <2> QED
    BY <2>1, <2>2, <1>2, <1>6
<1>9. gapVec' \in Seq(Gaps)
  <2>1. \A k \in D : gapVec[p[k]] \in Gaps
    BY <1>2 DEF D
  <2>2. gapVec' \in [1 .. Len(gapVec) -> Gaps]
    BY <2>1, <1>1, <1>2 DEF D
  <2> QED
    BY <2>2, <1>1
<1> QED
  BY <1>8, <1>9

LEMMA SortStep ==
  ASSUME RangesInv, GapsInv, Sort
  PROVE  PhasesInv' /\ CurrentInv' /\ FoundInv' /\ Len(gapVec') \in Nat
<1>1. /\ phase = "findGaps" /\ todo = {} /\ NextGap = {} /\ sit = {}
      /\ phase' = "printGaps" /\ sinfo' = NULL
      /\ UNCHANGED <<symbolMap, blocks, todo, global, sit, start>>
  BY DEF Sort, read
<1>2. Found' = Found /\ gapVec' \in Seq(Gaps)
  BY SortKeeps DEF GapsInv, PhasesInv
<1>3. PhasesInv'
  BY <1>1, <1>2 DEF GapsInv, PhasesInv, Reading
<1>4. CurrentInv'
  BY <1>1 DEF CurrentInv
<1>5. FoundInv'
  <2>1. sinfo # NULL => SearchedTo(sinfo, sinfo.end)
    BY <1>1, SearchedThrough DEF GapsInv
  <2> QED
    BY <2>1, <1>1, <1>2, FoundKept DEF GapsInv, PhasesInv, Reading
<1> QED
  BY <1>2, <1>3, <1>4, <1>5

LEMMA PrintGapStep ==
  ASSUME GapsInv, PrintGap
  PROVE  PrintedInv'
<1>1. /\ phase = "printGaps" /\ num_gaps < Len(gapVec)
      /\ num_gaps' = num_gaps + 1
      /\ located' = Append(located, Location(gapVec[num_gaps + 1]))
      /\ UNCHANGED <<phase, gapVec>>
  BY DEF PrintGap, found
<1>2. /\ num_gaps = Len(located) /\ num_gaps \in Nat /\ located \in Seq(Places)
      /\ \A k \in DOMAIN located : located[k] = Location(gapVec[k])
      /\ Len(gapVec) \in Nat
  BY DEF GapsInv, PrintedInv, PhasesInv
<1> DEFINE here == Location(gapVec[num_gaps + 1])
<1>3. here \in Places
  BY DEF Location, Places
<1>4. located' = Append(located, here)
  BY <1>1
<1> HIDE DEF here
<1>6. located' \in Seq(Places) /\ Len(located') = Len(located) + 1
  BY <1>2, <1>3, <1>4
<1>7. ASSUME NEW k \in DOMAIN located' PROVE located'[k] = Location(gapVec[k])
  <2>1. CASE k = Len(located) + 1
    <3>1. located'[k] = here
      BY <2>1, <1>2, <1>3, <1>4
    <3> QED
      BY <3>1, <2>1, <1>2 DEF here
  <2>2. CASE k # Len(located) + 1
    <3>1. k \in DOMAIN located /\ located'[k] = located[k]
      BY <2>2, <1>2, <1>3, <1>4
    <3> QED
      BY <3>1, <1>2
  <2> QED
    BY <2>1, <2>2
<1>8. \A k \in DOMAIN located' : located'[k] = Location(gapVec'[k])
  BY <1>7, <1>1
<1> QED
  BY <1>1, <1>2, <1>6, <1>8 DEF PrintedInv

\* Steps before the search: nothing is found and nothing printed.
LEMMA EarlyStep ==
  ASSUME GapsInv, Reading \/ (phase = "findGaps" /\ todo # {}),
         UNCHANGED <<gapVec, sinfo, start, told>>,
         Reading' \/ (phase' = "findGaps" /\ sit' = symbolMap'),
         symbolMap' \subseteq Symbols, sit' \subseteq symbolMap'
  PROVE  GapsInv'
<1>1. gapVec = <<>> /\ sinfo = NULL /\ start \in Nat
  BY DEF GapsInv, PhasesInv, Reading
<1>2. CurrentInv' /\ FoundInv'
  BY <1>1, NothingFound
<1>3. \A s \in symbolMap' : s # NULL
  BY SymbolType
<1>4. PhasesInv'
  BY <1>1, <1>3 DEF GapsInv, PhasesInv, Reading
<1>5. located = <<>> /\ num_gaps = 0
  BY DEF GapsInv, PrintedInv, Reading
<1>6. PrintedInv'
  BY <1>1, <1>5 DEF PrintedInv, told
<1> QED
  BY <1>2, <1>4, <1>6 DEF GapsInv

\* A step of the search prints nothing.
LEMMA NotPrinted ==
  ASSUME GapsInv, phase = "findGaps", UNCHANGED told, Len(gapVec') \in Nat
  PROVE  PrintedInv'
<1>1. located = <<>> /\ num_gaps = 0
  BY DEF GapsInv, PrintedInv
<1> QED
  BY <1>1 DEF PrintedInv, told

\* A step after the search keeps what was found.
LEMMA LateStep ==
  ASSUME GapsInv,
         UNCHANGED <<symbolMap, blocks, todo, global, sit, sinfo, start, gapVec>>,
         \/ phase' = phase
         \/ phase = "printGaps" /\ phase' = "exited"
  PROVE  PhasesInv' /\ CurrentInv' /\ FoundInv'
<1>1. PhasesInv'
  BY DEF GapsInv, PhasesInv, Reading
<1>2. Found' = Found
  BY DEF Found
<1>3. CurrentInv'
  BY <1>2 DEF GapsInv, CurrentInv, SearchedTo, Entered
<1>4. FoundInv'
  <2>1. CASE Reading
    <3>1. gapVec = <<>> /\ sinfo = NULL /\ Reading'
      BY <2>1 DEF GapsInv, PhasesInv, Reading
    <3> QED
      BY <3>1, NothingFound
  <2>2. CASE ~ Reading
    BY <2>2, <1>2, FoundKept DEF GapsInv, PhasesInv
  <2> QED
    BY <2>1, <2>2
<1> QED
  BY <1>1, <1>3, <1>4

LEMMA ReadSymbolStep ==
  ASSUME GapsInv, NEW first \in Address, NEW end \in Address, first <= end,
         ReadSymbol(Symbol(first, end))
  PROVE  GapsInv'
<1> DEFINE s == Symbol(first, end)
<1>1. s \in Symbols
  BY DEF Symbol, Symbols
<1>2. phase = "readSymbols" /\ UNCHANGED <<phase, gapVec, sinfo, start, told, sit>>
  BY DEF ReadSymbol, found
<1>3. symbolMap' = symbolMap \/ symbolMap' = symbolMap \cup {s}
  BY DEF ReadSymbol
<1> HIDE DEF s
<1>4. symbolMap' \subseteq Symbols /\ sit' \subseteq symbolMap'
  BY <1>1, <1>2, <1>3 DEF GapsInv, PhasesInv
<1>5. Reading /\ Reading'
  BY <1>2 DEF Reading
<1> QED
  BY <1>2, <1>4, <1>5, EarlyStep

\* GapsInv is inductive together with RangesInv.
LEMMA GapsStep == RangesInv /\ GapsInv /\ [Next]_vars => GapsInv'
<1> SUFFICES ASSUME RangesInv, GapsInv, [Next]_vars
             PROVE  GapsInv'
  OBVIOUS
<1> USE DEF read, found, Reading
<1>0. symbolMap \subseteq Symbols /\ sit \subseteq symbolMap /\ Len(gapVec) \in Nat
  BY DEF GapsInv, PhasesInv
<1>1. ASSUME NEW first \in Address, NEW end \in Address, first <= end,
             ReadSymbol(Symbol(first, end))
      PROVE  GapsInv'
  BY <1>1, ReadSymbolStep
<1>2. ASSUME NEW entry \in Entry, ReadFunction(entry) PROVE GapsInv'
  BY <1>0, <1>2, EarlyStep DEF ReadFunction
<1>3. ASSUME NEW first, NEW end, ReadBlock(first, end) PROVE GapsInv'
  BY <1>0, <1>3, EarlyStep DEF ReadBlock
<1>4. CASE SymbolsRead
  BY <1>0, <1>4, EarlyStep DEF SymbolsRead
<1>5. CASE FunctionsRead
  BY <1>0, <1>5, EarlyStep DEF FunctionsRead
<1>6. ASSUME NEW r \in todo, MergeRange(r) PROVE GapsInv'
  <2>1. phase = "findGaps" /\ sit = symbolMap
    BY <1>6 DEF MergeRange, GapsInv, PhasesInv
  <2> QED
    BY <2>1, <1>0, <1>6, EarlyStep DEF MergeRange
<1>7. CASE FindGap
  <2>1. PhasesInv' /\ CurrentInv' /\ FoundInv'
    BY <1>7, FindGapStep
  <2>2. phase = "findGaps" /\ UNCHANGED told
    BY <1>7 DEF FindGap
  <2>3. Len(gapVec') \in Nat
    BY <2>1 DEF PhasesInv
  <2> QED
    BY <2>1, <2>2, <2>3, NotPrinted DEF GapsInv
<1>8. ASSUME NEW s, NextSymbol(s) PROVE GapsInv'
  <2>1. PhasesInv' /\ CurrentInv' /\ FoundInv'
    BY <1>8, NextSymbolStep
  <2>2. phase = "findGaps" /\ UNCHANGED <<told, gapVec>>
    BY <1>8 DEF NextSymbol
  <2> QED
    BY <1>0, <2>1, <2>2, NotPrinted DEF GapsInv
<1>9. CASE Sort
  <2>1. phase = "findGaps" /\ UNCHANGED told
    BY <1>9 DEF Sort
  <2> QED
    BY <1>9, <2>1, SortStep, NotPrinted DEF GapsInv
<1>10. CASE PrintGap
  BY <1>10, PrintGapStep, LateStep DEF PrintGap, GapsInv
<1>11. CASE Exit
  <2>1. PrintedInv'
    BY <1>11 DEF Exit, GapsInv, PrintedInv, told, Location
  <2> QED
    BY <2>1, <1>11, LateStep DEF Exit, GapsInv
<1>12. CASE UNCHANGED vars
  <2>1. PrintedInv'
    BY <1>12 DEF vars, GapsInv, PrintedInv, told, Location
  <2> QED
    BY <2>1, <1>12, LateStep DEF vars, GapsInv
<1> QED
  BY <1>1, <1>2, <1>3, <1>4, <1>5, <1>6, <1>7, <1>8, <1>9, <1>10, <1>11, <1>12
  DEF Next, Read, Proceed, Exited

LEMMA GapsInit == Init => GapsInv
<1> SUFFICES ASSUME Init PROVE GapsInv
  OBVIOUS
<1>1. Found = {}
  BY DEF Init, Found
<1>2. PhasesInv /\ CurrentInv
  BY DEF Init, PhasesInv, CurrentInv
<1>3. FoundInv
  BY <1>1 DEF Init, FoundInv, Reading
<1>4. PrintedInv
  BY DEF Init, PrintedInv
<1> QED
  BY <1>2, <1>3, <1>4 DEF GapsInv

LEMMA GapsInvariant == Spec => []GapsInv
<1>1. RangesInv /\ GapsInv /\ [Next]_vars => RangesInv' /\ GapsInv'
  BY RangesStep, GapsStep
<1> QED
  BY RangesInit, GapsInit, <1>1, PTL DEF Spec

\* For every binary: the gaps found of a symbol are its addresses that no block covers, none
\* twice and none left out, unless every range begins behind the start of the symbol.
THEOREM GapsAreExact == Spec => []GapsExact
<1>1. ASSUME GapsInv, NEW s \in Searched
      PROVE  LET found_of == UNION {Addresses(g) : g \in GapsOf(s)} IN
             /\ found_of \subseteq InSymbol(s) \ Covered(blocks)
             /\ Entered(s) => InSymbol(s) \ Covered(blocks) \subseteq found_of
             /\ \A g, h \in GapsOf(s) : g # h => g.end < h.start \/ h.end < g.start
  <2>1. /\ s \in symbolMap \ sit /\ s # sinfo /\ ~ Reading
        /\ s.start \in Nat /\ s.end \in Nat
    BY <1>1, SymbolType DEF Searched, GapsInv, PhasesInv, Reading
  <2>2. \A g : g \in GapsOf(s) <=> g \in Found /\ g.sinfo = s
    BY FoundOf
  <2>3. ASSUME NEW g \in GapsOf(s), NEW a \in Addresses(g)
        PROVE  a \in InSymbol(s) /\ a \notin Covered(blocks)
    <3>1. g \in Gaps
      BY <1>1, <2>2 DEF GapsInv, PhasesInv, Found
    <3>2. g.start \in Nat /\ g.end \in Nat
      BY <3>1 DEF Gaps
    <3>3. GapRight(g) /\ g.sinfo = s
      BY <1>1, <2>2 DEF GapsInv, FoundInv
    <3> QED
      BY <3>2, <3>3, <2>1 DEF GapRight, Addresses, InSymbol
  <2>4. ASSUME Entered(s), NEW a \in InSymbol(s), a \notin Covered(blocks)
        PROVE  \E g \in GapsOf(s) : a \in Addresses(g)
    <3>1. SearchedTo(s, s.end)
      BY <1>1, <2>1 DEF GapsInv, FoundInv
    <3> QED
      BY <3>1, <2>2, <2>4 DEF SearchedTo, InSymbol
  <2>5. \A g, h \in GapsOf(s) : g # h => Apart(g, h)
    BY <1>1, <2>2 DEF GapsInv, FoundInv
  <2> QED
    BY <2>3, <2>4, <2>5 DEF Apart
<1>2. GapsInv => GapsExact
  BY <1>1 DEF GapsExact
<1> QED
  BY <1>2, GapsInvariant, PTL

\* For every binary: the block printed before a gap ends where the gap begins, and a gap is
\* called an entire function exactly if no block covers any of its symbol.
THEOREM PrintedIsTrue == Spec => []PrintedTrue
<1>1. ASSUME GapsInv, NEW k \in DOMAIN located
      PROVE  LET g == gapVec[k] IN
             /\ IF g.prev = NULL THEN g.start = g.sinfo.start ELSE g.prev.end = g.start
             /\ located[k] = "entire_function" <=>
                  InSymbol(g.sinfo) \cap Covered(blocks) = {}
  <2> DEFINE g == gapVec[k]
             s == g.sinfo
  <2>1. k \in DOMAIN gapVec
    BY <1>1 DEF GapsInv, PrintedInv, PhasesInv
  <2>2. g \in Gaps /\ GapRight(g)
    BY <1>1, <2>1 DEF GapsInv, PhasesInv, FoundInv, Found
  <2>3. located[k] = Location(g)
    BY <1>1 DEF GapsInv, PrintedInv
  <2> HIDE DEF g
  <2>4. /\ g.start \in Nat /\ g.end \in Nat /\ s.start \in Nat /\ s.end \in Nat
        /\ s.start <= g.start /\ g.start < g.end /\ g.end <= s.end
        /\ \A a \in g.start .. g.end - 1 : a \notin Covered(blocks)
        /\ g.end < s.end => g.end \in Covered(blocks)
        /\ s.start < g.start => g.start - 1 \in Covered(blocks)
        /\ IF g.prev = NULL THEN g.start = s.start ELSE g.prev.end = g.start
    <3>1. g.start \in Nat /\ g.end \in Nat /\ s \in Symbols
      BY <2>2 DEF Gaps
    <3> QED
      BY <3>1, <2>2, SymbolType DEF GapRight
  <2> HIDE DEF s
  <2>5. Location(g) = "entire_function" <=> g.start <= s.start /\ s.end <= g.end
    BY DEF Location, s
  <2>6. ASSUME g.start <= s.start, s.end <= g.end, NEW a \in InSymbol(s)
        PROVE  a \notin Covered(blocks)
    BY <2>4, <2>6 DEF InSymbol
  <2>7. ASSUME s.start < g.start PROVE \E a \in InSymbol(s) : a \in Covered(blocks)
    <3>1. g.start - 1 \in InSymbol(s)
      BY <2>4, <2>7 DEF InSymbol
    <3> QED
      BY <3>1, <2>4, <2>7
  <2>8. ASSUME g.end < s.end PROVE \E a \in InSymbol(s) : a \in Covered(blocks)
    <3>1. g.end \in InSymbol(s)
      BY <2>4, <2>8 DEF InSymbol
    <3> QED
      BY <3>1, <2>4, <2>8
  <2>9. Location(g) = "entire_function" <=> InSymbol(s) \cap Covered(blocks) = {}
    BY <2>4, <2>5, <2>6, <2>7, <2>8
  <2> QED
    BY <2>3, <2>4, <2>9 DEF g, s
<1>2. GapsInv => PrintedTrue
  BY <1>1 DEF PrintedTrue
<1> QED
  BY <1>2, GapsInvariant, PTL
=============================================================================
