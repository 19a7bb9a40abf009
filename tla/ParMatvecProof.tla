--------------------------- MODULE ParMatvecProof ---------------------------
(***************************************************************************)
(* The distributed matrices of AMG2013, for any number of processes and    *)
(* rows and any matrices: the two functions that compute the assumed       *)
(* partition are inverses of each other; what the processes tell each      *)
(* other about the rows they have makes each part of it true, although the *)
(* messages of one matrix and of the next look the same; what they find    *)
(* out in two exchanges is the communication package of the standard way;  *)
(* and with it every product is that of the whole matrix.                  *)
(***************************************************************************)
EXTENDS ParMatvec, FiniteSetTheorems, TLAPS

\* What \div is for a positive divisor.
LEMMA Division ==
  ASSUME NEW a \in Nat, NEW b \in Nat \ {0}
  PROVE  /\ a \div b \in Nat
         /\ b * (a \div b) <= a
         /\ a < b * (a \div b) + b
OBVIOUS

\* Products of natural numbers, taken apart by hand for the SMT solver.
LEMMA ProductIn == \A a, b \in Nat : a * b \in Nat
OBVIOUS

LEMMA Distributive ==
  \A a, b, c \in Int : a * (b + c) = a * b + a * c /\ (b + c) * a = b * a + c * a
OBVIOUS

LEMMA Cancel ==
  ASSUME NEW a \in Nat, NEW b \in Int, NEW c \in Int, a * b < a * c
  PROVE  b < c
OBVIOUS

LEMMA Monotone ==
  ASSUME NEW a \in Nat, NEW b \in Int, NEW c \in Int, b <= c
  PROVE  a * b <= a * c
OBVIOUS

-----------------------------------------------------------------------------
\* Each process has Size or Size + 1 rows, the first Extra processes have one more.
LEMMA Sizes ==
  /\ Size \in Nat /\ Extra \in Nat /\ Extra < NumProcs
  /\ NumRows = Size * NumProcs + Extra
<1>1. /\ Size \in Nat /\ NumProcs * Size <= NumRows
      /\ NumRows < NumProcs * Size + NumProcs
  BY Division, PartitionAssumption DEF Size
<1>2. NumProcs * Size = Size * NumProcs
  BY <1>1, PartitionAssumption
<1>3. Size * NumProcs \in Nat
  BY <1>1, ProductIn, PartitionAssumption
<1>4. QED
  BY <1>1, <1>2, <1>3, PartitionAssumption DEF Extra

\* The range of a process, without the minimum.
LEMMA RowRange ==
  ASSUME NEW p \in Nat
  PROVE  /\ RowStart(p) \in Nat
         /\ RowEnd(p) \in Int
         /\ p < Extra =>
              /\ RowStart(p) = (Size + 1) * p
              /\ RowEnd(p) = (Size + 1) * p + Size
         /\ p >= Extra =>
              /\ RowStart(p) = SwitchRow + Size * (p - Extra)
              /\ RowEnd(p) = SwitchRow + Size * (p - Extra) + Size - 1
<1>1. /\ Size \in Nat /\ Extra \in Nat /\ Size * p \in Nat
      /\ Size * (p + 1) = Size * p + Size
  BY Sizes, ProductIn, Distributive
<1>2. /\ (Size + 1) * p = Size * p + p
      /\ SwitchRow = Size * Extra + Extra
  BY Sizes, Distributive DEF SwitchRow
<1>3. Size * (p - Extra) = Size * p - Size * Extra
  BY Sizes
<1>4. Size * Extra \in Nat /\ Size * (p - Extra) \in Int
  BY Sizes, ProductIn
<1>5. QED
  BY <1>1, <1>2, <1>3, <1>4 DEF RowStart, RowEnd, MinOf

\* The rows are cut into the ranges of the processes, one after the other.
THEOREM Tiling ==
  /\ RowStart(0) = 0
  /\ \A p \in Proc : RowEnd(p) + 1 = RowStart(p + 1)
  /\ RowEnd(NumProcs - 1) = NumRows - 1
<1>1. RowStart(0) = 0
  BY Sizes DEF RowStart, MinOf
<1>2. \A p \in Proc : RowEnd(p) + 1 = RowStart(p + 1)
  <2>1. SUFFICES ASSUME NEW p \in Proc PROVE RowEnd(p) + 1 = RowStart(p + 1)
    OBVIOUS
  <2>2. p \in Nat /\ p + 1 \in Nat /\ Size * (p + 1) \in Nat
    BY Sizes, ProductIn, PartitionAssumption DEF Proc
  <2>3. QED
    BY <2>2, Sizes DEF RowStart, RowEnd, MinOf
<1>3. RowEnd(NumProcs - 1) = NumRows - 1
  <2>1. NumProcs - 1 + 1 = NumProcs
    BY PartitionAssumption
  <2>2. Size * NumProcs \in Nat
    BY Sizes, ProductIn, PartitionAssumption
  <2>3. QED
    BY <2>1, <2>2, Sizes, PartitionAssumption DEF RowEnd, MinOf
<1>4. QED
  BY <1>1, <1>2, <1>3

\* Of the rows below SwitchRow.
LEMMA LowRow ==
  ASSUME NEW row \in Row, row < SwitchRow
  PROVE  /\ ProcFromRow(row) \in Proc
         /\ row \in RowStart(ProcFromRow(row)) .. RowEnd(ProcFromRow(row))
<1> DEFINE q == row \div (Size + 1)
<1>1. row \in Nat /\ Size + 1 \in Nat \ {0} /\ SwitchRow \in Nat
  BY Sizes, ProductIn, PartitionAssumption DEF Row, SwitchRow
<1>2. q \in Nat /\ (Size + 1) * q <= row /\ row < (Size + 1) * q + (Size + 1)
  BY <1>1, Division
<1>3. ProcFromRow(row) = q
  BY <1>1 DEF ProcFromRow
<1>4. (Size + 1) * q < (Size + 1) * Extra
  BY <1>1, <1>2, ProductIn, Sizes DEF SwitchRow
<1>5. q < Extra
  BY <1>1, <1>2, <1>4, Cancel, Sizes
<1>6. (Size + 1) * q \in Nat
  BY <1>1, <1>2, ProductIn
<1> HIDE DEF q
<1>7. RowStart(q) = (Size + 1) * q /\ RowEnd(q) = (Size + 1) * q + Size
  BY <1>2, <1>5, RowRange
<1>8. q \in Proc /\ row \in RowStart(q) .. RowEnd(q)
  BY <1>1, <1>2, <1>5, <1>6, <1>7, Sizes, PartitionAssumption DEF Proc
<1>9. QED
  BY <1>3, <1>8

\* Of the others; there are none if Size is 0, by which ProcFromRow would divide.
LEMMA HighRow ==
  ASSUME NEW row \in Row, row >= SwitchRow
  PROVE  /\ Size > 0
         /\ ProcFromRow(row) \in Proc
         /\ row \in RowStart(ProcFromRow(row)) .. RowEnd(ProcFromRow(row))
<1> DEFINE d == (row - SwitchRow) \div Size
<1>1. /\ row \in Nat /\ SwitchRow \in Nat /\ row - SwitchRow \in Nat
      /\ SwitchRow = Size * Extra + Extra
  BY Sizes, ProductIn, Distributive, PartitionAssumption DEF Row, SwitchRow
<1>2. row < Size * NumProcs + Extra
  BY Sizes, PartitionAssumption DEF Row
<1>3. Size > 0
  BY <1>1, <1>2, Sizes, PartitionAssumption
<1>4. d \in Nat /\ Size * d <= row - SwitchRow /\ row - SwitchRow < Size * d + Size
  BY <1>1, <1>3, Division, Sizes
<1>5. ProcFromRow(row) = Extra + d
  BY <1>1 DEF ProcFromRow
<1> HIDE DEF d
<1>6. /\ Size * d \in Nat /\ Size * NumProcs \in Nat /\ Size * Extra \in Nat
      /\ Size * (Extra + d) = Size * Extra + Size * d
  BY <1>4, ProductIn, Distributive, Sizes, PartitionAssumption
<1>7. Size * (Extra + d) < Size * NumProcs
  BY <1>1, <1>2, <1>4, <1>6, Sizes
<1>8. Extra + d < NumProcs
  BY <1>4, <1>7, Cancel, Sizes, PartitionAssumption
<1>9. /\ RowStart(Extra + d) = SwitchRow + Size * d
      /\ RowEnd(Extra + d) = SwitchRow + Size * d + Size - 1
  BY <1>4, RowRange, Sizes
<1>10. /\ Extra + d \in Proc
       /\ row \in RowStart(Extra + d) .. RowEnd(Extra + d)
  BY <1>1, <1>4, <1>6, <1>8, <1>9, Sizes, PartitionAssumption DEF Proc
<1>11. QED
  BY <1>3, <1>5, <1>10

\* The range of a process ends before that of a later one starts.
LEMMA Ascending ==
  ASSUME NEW p \in Proc, NEW q \in Proc, p < q
  PROVE  RowEnd(p) < RowStart(q)
<1>1. /\ p \in Nat /\ q \in Nat /\ p + 1 \in Nat /\ p + 1 <= q
      /\ Size * (p + 1) \in Nat /\ Size * q \in Nat
  BY ProductIn, Sizes, PartitionAssumption DEF Proc
<1>2. Size * (p + 1) <= Size * q
  BY <1>1, Monotone, Sizes
<1>3. QED
  BY <1>1, <1>2, Sizes DEF RowStart, RowEnd, MinOf

\* The two computations agree: each row has one process.
LEMMA InverseOf ==
  ASSUME NEW row \in Row
  PROVE  /\ ProcFromRow(row) \in Proc
         /\ \A p \in Proc : row \in RowStart(p) .. RowEnd(p) <=> p = ProcFromRow(row)
<1> DEFINE q == ProcFromRow(row)
<1>2. q \in Proc /\ row \in RowStart(q) .. RowEnd(q)
  <2>1. row \in Int /\ SwitchRow \in Int
    BY Sizes, ProductIn, PartitionAssumption DEF Row, SwitchRow
  <2>2. CASE row < SwitchRow BY <2>2, LowRow
  <2>3. CASE row >= SwitchRow BY <2>3, HighRow
  <2>4. QED BY <2>1, <2>2, <2>3
<1> HIDE DEF q
<1>3. ASSUME NEW p \in Proc, row \in RowStart(p) .. RowEnd(p)
      PROVE  p = q
  <2>1. /\ p \in Nat /\ q \in Nat /\ row \in Int
        /\ RowStart(p) \in Int /\ RowEnd(p) \in Int
        /\ RowStart(q) \in Int /\ RowEnd(q) \in Int
    BY <1>2, RowRange, PartitionAssumption DEF Proc, Row
  <2>2. ~ (p < q)
    BY <1>2, <1>3, <2>1, Ascending
  <2>3. ~ (q < p)
    BY <1>2, <1>3, <2>1, Ascending
  <2>4. QED
    BY <2>1, <2>2, <2>3
<1>4. QED
  BY <1>2, <1>3 DEF q

\* What the comments at par_csr_assumed_part.c:425 and 468 ask for: a process is the
\* one that is assumed for a row exactly if the row lies in the range it is assumed for.
THEOREM InverseOfEachOther ==
  \A row \in Row :
    /\ ProcFromRow(row) \in Proc
    /\ \A p \in Proc : row \in RowStart(p) .. RowEnd(p) <=> p = ProcFromRow(row)
BY InverseOf

-----------------------------------------------------------------------------
(* Numbers. *)

\* A set of natural numbers has a least one.
LEMMA Least ==
  ASSUME NEW S \in SUBSET Nat, S # {}
  PROVE  \E x \in S : \A z \in S : x <= z
<1> DEFINE Less == {ss \in Nat \X Nat : ss[1] < ss[2]}
<1>1. IsWellFoundedOn(Less, Nat)
  BY NatLessThanWellFounded, Zenon DEF OpToRel
<1>2. PICK x \in S : \A z \in S : ~ (<<z, x>> \in Less)
  BY <1>1, WFMin, Zenon
<1>3. ASSUME NEW z \in S PROVE x <= z
  <2>1. z \in Nat /\ x \in Nat
    BY <1>2
  <2>2. ~ (z < x)
    BY <2>1, <1>2
  <2> QED
    BY <2>1, <2>2
<1> QED
  BY <1>3

\* What a function that does not fall from a number to the next does further on.
LEMMA Rising ==
  ASSUME NEW n \in Nat, NEW f \in [0 .. n -> Int],
         \A k \in 0 .. n - 1 : f[k] <= f[k + 1],
         NEW i \in 0 .. n, NEW j \in 0 .. n, i <= j
  PROVE  f[i] <= f[j]
<1> DEFINE S == {k \in 0 .. n : i <= k /\ f[k] < f[i]}
<1>1. SUFFICES ASSUME f[j] < f[i] PROVE FALSE
  OBVIOUS
<1>2. S \in SUBSET Nat /\ S # {}
  <2>1. j \in S
    BY <1>1
  <2>2. S \in SUBSET Nat
    OBVIOUS
  <2>3. S # {}
    BY <2>1
  <2> QED
    BY <2>2, <2>3
<1>3. PICK k \in S : \A m \in S : k <= m
  BY <1>2, Least, Zenon
<1>4. k # i /\ k - 1 \in 0 .. n - 1 /\ i <= k - 1 /\ k \in 0 .. n
  OBVIOUS
<1>5. ~ (k - 1 \in S)
  BY <1>3, <1>4
<1>6. f[i] <= f[k - 1] /\ f[k - 1] \in Int /\ f[k] \in Int
  BY <1>4, <1>5
<1>7. f[k - 1] <= f[k - 1 + 1]
  BY <1>4
<1>8. k - 1 + 1 = k
  BY <1>4
<1> QED
  BY <1>6, <1>7, <1>8

\* Intervals in order, none empty, none over another, that cover a .. b.
Cover(a, b, n, s, e) ==
  /\ \A k \in 1 .. n : a <= s[k] /\ s[k] <= e[k] /\ e[k] <= b
  /\ \A j, k \in 1 .. n : j < k => s[j] <= s[k]
  /\ \A j, k \in 1 .. n : j # k => s[j] .. e[j] \cap s[k] .. e[k] = {}
  /\ \A x \in a .. b : \E k \in 1 .. n : x \in s[k] .. e[k]

\* Intervals that follow each other from a to b.
Joined(a, b, n, s, e) ==
  /\ n = 0 => b < a
  /\ n > 0 => s[1] = a /\ e[n] = b
  /\ \A k \in 2 .. n : s[k] = e[k - 1] + 1

\* They are next to each other.
LEMMA NextToEachOther ==
  ASSUME NEW a \in Int, NEW b \in Int, NEW n \in Nat,
         NEW s \in [1 .. n -> Int], NEW e \in [1 .. n -> Int],
         Cover(a, b, n, s, e)
  PROVE  Joined(a, b, n, s, e)
<1>0. /\ \A k \in 1 .. n : a <= s[k] /\ s[k] <= e[k] /\ e[k] <= b
      /\ \A j, k \in 1 .. n : j < k => s[j] <= s[k]
      /\ \A j, k \in 1 .. n : j # k => s[j] .. e[j] \cap s[k] .. e[k] = {}
      /\ \A x \in a .. b : \E k \in 1 .. n : x \in s[k] .. e[k]
  BY DEF Cover
<1>1. ASSUME NEW j \in 1 .. n, NEW k \in 1 .. n, j < k PROVE e[j] < s[k]
  <2>1. s[j] \in Int /\ e[j] \in Int /\ s[k] \in Int /\ e[k] \in Int
    OBVIOUS
  <2>2. s[j] <= s[k] /\ s[k] <= e[k]
    BY <1>0, <1>1
  <2>3. s[j] .. e[j] \cap s[k] .. e[k] = {}
    BY <1>0, <1>1
  <2>4. s[k] \in s[k] .. e[k]
    BY <2>1, <2>2
  <2>5. ~ (s[k] \in s[j] .. e[j])
    BY <2>3, <2>4
  <2> QED
    BY <2>1, <2>2, <2>5
<1>2. n = 0 => b < a
  <2>1. ASSUME n = 0, a <= b PROVE FALSE
    <3>1. a \in a .. b
      BY <2>1
    <3> QED
      BY <3>1, <2>1, <1>0
  <2> QED
    BY <2>1
<1>3. ASSUME n > 0 PROVE s[1] = a /\ e[n] = b
  <2>1. /\ 1 \in 1 .. n /\ n \in 1 .. n
        /\ s[1] \in Int /\ e[1] \in Int /\ s[n] \in Int /\ e[n] \in Int
    BY <1>3
  <2>2. /\ a <= s[1] /\ s[1] <= e[1] /\ e[1] <= b
        /\ a <= s[n] /\ s[n] <= e[n] /\ e[n] <= b
    BY <2>1, <1>0
  <2>3. a \in a .. b /\ b \in a .. b
    BY <2>1, <2>2
  <2>4. PICK k \in 1 .. n : a \in s[k] .. e[k]
    BY <2>3, <1>0
  <2>5. PICK m \in 1 .. n : b \in s[m] .. e[m]
    BY <2>3, <1>0
  <2>6. /\ s[k] \in Int /\ e[k] \in Int /\ s[m] \in Int /\ e[m] \in Int
        /\ s[k] <= a /\ b <= e[m]
    BY <2>4, <2>5
  <2>7. s[1] <= s[k]
    <3>1. k = 1 \/ 1 < k
      OBVIOUS
    <3> QED
      BY <2>1, <2>6, <3>1, <1>0
  <2>8. s[1] = a
    BY <2>1, <2>2, <2>6, <2>7
  <2>9. m = n \/ e[m] < s[n]
    <3>1. m = n \/ m < n
      OBVIOUS
    <3> QED
      BY <2>1, <1>1, <3>1
  <2>10. e[n] = b
    BY <2>1, <2>2, <2>6, <2>9
  <2> QED
    BY <2>8, <2>10
<1>4. ASSUME NEW k \in 2 .. n PROVE s[k] = e[k - 1] + 1
  <2> PICK ek \in Int : ek = e[k - 1]
    OBVIOUS
  <2>1. /\ k \in 1 .. n /\ k - 1 \in 1 .. n /\ k - 1 < k
        /\ s[k] \in Int /\ e[k] \in Int /\ s[k - 1] \in Int
    OBVIOUS
  <2>2. /\ ek < s[k] /\ s[k] <= e[k] /\ e[k] <= b
        /\ a <= s[k - 1] /\ s[k - 1] <= ek
    BY <2>1, <1>1, <1>0
  <2>3. ek + 1 \in a .. b
    <3>1. a <= ek + 1 /\ ek + 1 <= b
      BY <2>1, <2>2
    <3> QED
      BY <3>1
  <2>4. PICK j \in 1 .. n : ek + 1 \in s[j] .. e[j]
    BY <2>3, <1>0
  <2>5. s[j] \in Int /\ e[j] \in Int /\ s[j] <= ek + 1 /\ ek + 1 <= e[j]
    BY <2>1, <2>4
  <2>6. CASE j >= k
    <3>1. s[k] <= s[j]
      <4>1. j = k \/ k < j
        BY <2>1, <2>6
      <4> QED
        BY <2>1, <2>5, <4>1, <1>0
    <3> QED
      BY <3>1, <2>1, <2>2, <2>5
  <2>7. CASE j < k
    <3>1. e[j] <= ek
      <4>1. CASE j = k - 1
        BY <4>1, <2>1
      <4>2. CASE j < k - 1
        <5>1. e[j] < s[k - 1]
          BY <4>2, <2>1, <1>1
        <5> QED
          BY <5>1, <2>1, <2>2, <2>5
      <4> QED
        BY <4>1, <4>2, <2>1, <2>7
    <3> QED
      BY <3>1, <2>1, <2>5
  <2> QED
    BY <2>6, <2>7, <2>1
<1> QED
  BY <1>2, <1>3, <1>4 DEF Joined

\* What sorting keeps: a permutation f of the places.
SortedBy(s, t, f) ==
  /\ t = [k \in 1 .. Len(s) |-> s[f[k]]] /\ Len(t) = Len(s)
  /\ \A j, k \in 1 .. Len(s) : f[j] = f[k] => j = k
  /\ \A j, k \in 1 .. Len(s) : j < k => t[j].start <= t[k].start
  /\ \A k \in 1 .. Len(s) : \E j \in 1 .. Len(s) : f[j] = k

\* A sort is a permutation of the places.
LEMMA SortPermutes ==
  ASSUME NEW D, IsFiniteSet(D), NEW numbers, DOMAIN numbers = D,
         NEW f \in SortIndices(numbers)
  PROVE  /\ f \in [D -> D]
         /\ \A j, k \in D : f[j] = f[k] => j = k
         /\ \A j, k \in D : j < k => numbers[f[j]] <= numbers[f[k]]
         /\ \A k \in D : \E j \in D : f[j] = k
<1>1. /\ f \in [D -> D]
      /\ \A j, k \in D : f[j] = f[k] => j = k
      /\ \A j, k \in D : j < k => numbers[f[j]] <= numbers[f[k]]
  BY DEF SortIndices
<1>2. \A k \in D : \E j \in D : f[j] = k
  <2>1. f \in Injection(D, D)
    BY <1>1 DEF Injection, IsInjective
  <2>2. f \in Surjection(D, D)
    BY <2>1, FS_Injection
  <2> QED
    BY <2>2 DEF Surjection
<1> QED
  BY <1>1, <1>2

\* hypre_BigQsortbi keeps the pieces and puts them in order.
LEMMA SortKeeps ==
  ASSUME NEW T, NEW s \in Seq(T), NEW t \in SortsOf(s)
  PROVE  t \in Seq(T) /\ \E f \in [1 .. Len(s) -> 1 .. Len(s)] : SortedBy(s, t, f)
<1> DEFINE D == 1 .. Len(s)
           numbers == [k \in D |-> s[k].start]
<1>1. DOMAIN s = D /\ Len(s) \in Nat /\ IsFiniteSet(D)
  BY FS_Interval
<1>2. PICK f \in SortIndices(numbers) : t = [k \in D |-> s[f[k]]]
  BY <1>1 DEF SortsOf
<1>3. /\ f \in [D -> D]
      /\ \A j, k \in D : f[j] = f[k] => j = k
      /\ \A j, k \in D : j < k => numbers[f[j]] <= numbers[f[k]]
      /\ \A k \in D : \E j \in D : f[j] = k
  <2>1. DOMAIN numbers = D
    OBVIOUS
  <2> HIDE DEF D, numbers
  <2> QED
    BY <1>1, <2>1, SortPermutes
<1>4. \A k \in D : t[k] = s[f[k]] /\ t[k] \in T
  BY <1>2, <1>3
<1>5. t \in Seq(T) /\ Len(t) = Len(s)
  <2>1. t \in [1 .. Len(s) -> T]
    BY <1>2, <1>4
  <2> QED
    BY <2>1, <1>1
<1>6. ASSUME NEW j \in D, NEW k \in D, j < k PROVE t[j].start <= t[k].start
  <2>1. f[j] \in D /\ f[k] \in D /\ t[j] = s[f[j]] /\ t[k] = s[f[k]]
    BY <1>3, <1>4
  <2>2. numbers[f[j]] = t[j].start /\ numbers[f[k]] = t[k].start
    BY <2>1
  <2>3. numbers[f[j]] <= numbers[f[k]]
    BY <1>3, <1>6
  <2> QED
    BY <2>2, <2>3
<1> QED
  BY <1>2, <1>3, <1>5, <1>6 DEF SortedBy

-----------------------------------------------------------------------------
(* The invariant. *)

\* The first and the last of the rows that p is assumed for and q has.
Lo(B, q, p) == IF ColStart(B, q) <= RowStart(p) THEN RowStart(p) ELSE ColStart(B, q)
Hi(B, q, p) == MinOf(ColEnd(B, q), RowEnd(p))
Overlap(B, q, p) == Lo(B, q, p) <= Hi(B, q, p)

\* What q tells p of a matrix.
Message(B, q, p) ==
  IF q # p /\ Overlap(B, q, p)
  THEN <<[to |-> p, start |-> Lo(B, q, p), end |-> Hi(B, q, p)]>> ELSE <<>>

Labels == {"start", "locate", "partition", "recvs", "contact", "sends", "pkg", "product"}
Early == {"start", "locate"}
Piece == [proc : Proc, start : Int, end : Int]

TypeInv ==
  /\ program \in Programs
  /\ pc \in [Proc -> Labels] /\ round \in [Proc -> 1 .. NumRounds + 1]
  /\ apart \in [Proc -> Seq(Piece)] /\ rows_found \in [Proc -> Nat]
  /\ DOMAIN mail = Proc \X Proc
  /\ entered \in [Proc -> Nat] /\ left \in [Proc -> Nat]
  /\ \A p \in Proc : pc[p] # "start" => round[p] <= NumRounds

\* How many exchanges of its round a process has entered and left.
EnteredAt(label) == IF label \in {"start", "locate", "partition"} THEN 0
                    ELSE IF label \in {"recvs", "contact"} THEN 1 ELSE 2
LeftAt(label) == IF label \in {"start", "locate", "partition", "recvs"} THEN 0
                 ELSE IF label \in {"contact", "sends"} THEN 1 ELSE 2

ExchangeInv ==
  /\ \A p \in Proc : entered[p] = 2 * (round[p] - 1) + EnteredAt(pc[p])
  /\ \A p \in Proc : left[p] = 2 * (round[p] - 1) + LeftAt(pc[p])
  /\ \A p, q \in Proc : left[p] <= entered[q]

\* Pieces tell of a process.
Told(pieces, q) == \E j \in 1 .. Len(pieces) : pieces[j].proc = q

\* The rows that p has been told of by others.
Heard(B, p, pieces) ==
  UNION {Lo(B, q, p) .. Hi(B, q, p) : q \in {r \in Proc \ {p} : Told(pieces, r)}}

\* Pieces of what p is assumed for, one of each process told of, its own among them.
PiecesRight(B, p, pieces) ==
  /\ \A j \in 1 .. Len(pieces) :
       /\ Overlap(B, pieces[j].proc, p)
       /\ pieces[j].start = Lo(B, pieces[j].proc, p) /\ pieces[j].end = Hi(B, pieces[j].proc, p)
  /\ \A j, k \in 1 .. Len(pieces) : pieces[j].proc = pieces[k].proc => j = k
  /\ Overlap(B, p, p) => Told(pieces, p)

\* q has told who is assumed for its rows in round r.
Sent(q, r) == round[q] > r \/ (round[q] = r /\ pc[q] # "start")

\* p has what q tells in q's round.
Received(p, q) ==
  \/ round[q] < round[p]
  \/ round[q] = round[p] /\ (pc[p] \notin Early \/ (pc[p] = "locate" /\ Told(apart[p], q)))

MailInv ==
  \A p, q \in Proc :
    mail[<<q, p>>] = IF pc[q] = "start" \/ Received(p, q) THEN <<>>
                 ELSE Message(A(q), q, p)

LocateInv ==
  \A p \in Proc : pc[p] = "locate" =>
    /\ PiecesRight(A(p), p, apart[p])
    /\ \A q \in Proc \ {p} : Told(apart[p], q) => Sent(q, round[p])
    /\ rows_found[p] = Cardinality(Heard(A(p), p, apart[p]))

FoundInv ==
  \A p \in Proc : pc[p] # "locate" => rows_found[p] = 0

\* All that have to tell p something have done so when p goes on.
SettledInv ==
  \A p, q \in Proc : pc[p] \notin Early /\ q # p /\ Overlap(A(p), q, p) => Sent(q, round[p])

\* PartitionTrue of one process, with no piece empty.
PartitionOf(B, p, pieces) ==
  /\ \A k \in 1 .. Len(pieces) : pieces[k].start <= pieces[k].end
  /\ \A k \in 1 .. Len(pieces) :
       pieces[k].start .. pieces[k].end \subseteq Own(B, pieces[k].proc)
  /\ \A k \in 1 .. Len(pieces) :
       pieces[k].start = IF k = 1 THEN RowStart(p) ELSE pieces[k - 1].end + 1
  /\ IF Len(pieces) = 0 THEN RowEnd(p) < RowStart(p)
     ELSE pieces[Len(pieces)].end = RowEnd(p)

PartitionInv ==
  \A p \in Proc : pc[p] \notin Early => PartitionOf(A(p), p, apart[p])

IInv == /\ TypeInv /\ ExchangeInv /\ MailInv /\ LocateInv /\ FoundInv
        /\ SettledInv /\ PartitionInv

-----------------------------------------------------------------------------
(* The rows that processes are assumed for and those that they have. *)

\* The least and the greatest of a set.
LEMMA MinIs ==
  ASSUME NEW S \in SUBSET Int, NEW m \in S, \A z \in S : m <= z
  PROVE  Min(S) = m
<1>1. \A z \in S : (\A w \in S : z <= w) => z = m
  OBVIOUS
<1>2. \E z \in S : \A w \in S : z <= w
  OBVIOUS
<1> QED
  BY <1>1, <1>2 DEF Min

LEMMA MaxIs ==
  ASSUME NEW S \in SUBSET Int, NEW m \in S, \A z \in S : m >= z
  PROVE  Max(S) = m
<1>1. \A z \in S : (\A w \in S : z >= w) => z = m
  OBVIOUS
<1>2. \E z \in S : \A w \in S : z >= w
  OBVIOUS
<1> QED
  BY <1>1, <1>2 DEF Max

\* Of two numbers.
LEMMA OfTwo ==
  ASSUME NEW a \in Int, NEW b \in Int
  PROVE  /\ Min({a, b}) = MinOf(a, b)
         /\ Max({a, b}) = IF a <= b THEN b ELSE a
<1>1. CASE a <= b
  <2>1. Min({a, b}) = a
    BY <1>1, MinIs
  <2>2. Max({a, b}) = b
    BY <1>1, MaxIs
  <2> QED
    BY <2>1, <2>2, <1>1 DEF MinOf
<1>2. CASE ~ (a <= b)
  <2>1. Min({a, b}) = b
    BY <1>2, MinIs
  <2>2. Max({a, b}) = a
    BY <1>2, MaxIs
  <2> QED
    BY <2>1, <2>2, <1>2 DEF MinOf
<1> QED
  BY <1>1, <1>2

\* What a process is assumed for lies among the rows, and may be nothing.
LEMMA AssumedRange ==
  ASSUME NEW p \in Proc
  PROVE  /\ RowStart(p) \in Nat /\ RowEnd(p) \in Int
         /\ RowStart(p) <= RowEnd(p) + 1 /\ RowEnd(p) <= NumRows - 1
<1>1. \A q \in Proc : /\ q \in Nat
                      /\ RowStart(q) \in Nat /\ RowEnd(q) \in Int
                      /\ RowStart(q) <= RowEnd(q) + 1
  <2> TAKE q \in Proc
  <2>1. q \in Nat
    BY PartitionAssumption DEF Proc
  <2>2. RowStart(q) \in Nat /\ RowEnd(q) \in Int
    BY <2>1, RowRange
  <2>3. Size * q \in Nat /\ Size * (q + 1) = Size * q + Size
    BY <2>1, ProductIn, Distributive, Sizes
  <2> QED
    BY <2>1, <2>2, <2>3, Sizes DEF RowStart, RowEnd, MinOf
<1>2. NumProcs - 1 \in Proc
  BY PartitionAssumption DEF Proc
<1>3. p = NumProcs - 1 \/ RowEnd(p) < RowStart(NumProcs - 1)
  <2>1. p = NumProcs - 1 \/ p < NumProcs - 1
    BY PartitionAssumption DEF Proc
  <2> QED
    BY <2>1, <1>2, Ascending
<1>4. /\ RowEnd(NumProcs - 1) = NumRows - 1 /\ RowStart(NumProcs - 1) \in Nat
      /\ RowStart(NumProcs - 1) <= RowEnd(NumProcs - 1) + 1
  BY <1>1, <1>2, Tiling
<1> QED
  BY <1>1, <1>3, <1>4, PartitionAssumption

\* The processes assumed for nothing are the last ones.
LEMMA NoneBetween ==
  ASSUME NEW p \in Proc, NEW q \in Proc, p < q, RowStart(q) <= RowEnd(q)
  PROVE  RowStart(p) <= RowEnd(p)
<1>1. p \in Nat /\ q \in Nat
  BY PartitionAssumption DEF Proc
<1>2. /\ Size * p \in Nat /\ Size * (p + 1) = Size * p + Size
      /\ Size * q \in Nat /\ Size * (q + 1) = Size * q + Size
  BY <1>1, ProductIn, Distributive, Sizes
<1> QED
  BY <1>1, <1>2, Sizes DEF RowStart, RowEnd, MinOf

\* The rows of a process in a matrix; those of a later process are behind them.
LEMMA Starts ==
  ASSUME NEW B, IsMatrix(B)
  PROVE  /\ \A q \in Proc : /\ ColStart(B, q) \in Nat /\ ColEnd(B, q) \in Int
                            /\ ColStart(B, q) <= ColEnd(B, q) + 1
                            /\ ColEnd(B, q) <= NumRows - 1
         /\ \A q, r \in Proc : q < r => ColEnd(B, q) < ColStart(B, r)
<1>1. /\ B.starts \in [0 .. NumProcs -> 0 .. NumRows]
      /\ \A q \in Proc : B.starts[q] <= B.starts[q + 1]
  BY DEF IsMatrix
<1>2. B.starts \in [0 .. NumProcs -> Int]
  BY <1>1
<1>3. \A k \in 0 .. NumProcs - 1 : B.starts[k] <= B.starts[k + 1]
  BY <1>1 DEF Proc
<1>4. ASSUME NEW q \in Proc
      PROVE  /\ ColStart(B, q) \in Nat /\ ColEnd(B, q) \in Int
             /\ ColStart(B, q) <= ColEnd(B, q) + 1
             /\ ColEnd(B, q) <= NumRows - 1
  <2>1. q \in 0 .. NumProcs /\ q + 1 \in 0 .. NumProcs
    BY PartitionAssumption DEF Proc
  <2>2. B.starts[q] \in 0 .. NumRows /\ B.starts[q + 1] \in 0 .. NumRows
    BY <1>1, <2>1
  <2>3. B.starts[q] <= B.starts[q + 1]
    BY <1>1
  <2> QED
    BY <2>2, <2>3, PartitionAssumption DEF ColStart, ColEnd
<1>5. ASSUME NEW q \in Proc, NEW r \in Proc, q < r
      PROVE  ColEnd(B, q) < ColStart(B, r)
  <2>1. q + 1 \in 0 .. NumProcs /\ r \in 0 .. NumProcs /\ q + 1 <= r
    BY <1>5, PartitionAssumption DEF Proc
  <2>2. B.starts[q + 1] <= B.starts[r]
    BY <1>2, <1>3, <2>1, Rising, PartitionAssumption, Zenon
  <2>3. B.starts[q + 1] \in Int /\ B.starts[r] \in Int
    BY <1>2, <2>1
  <2> QED
    BY <2>2, <2>3 DEF ColStart, ColEnd
<1> QED
  BY <1>4, <1>5

\* No two processes have a row.
LEMMA OneOwner ==
  ASSUME NEW B, IsMatrix(B), NEW q \in Proc, NEW r \in Proc, q # r,
         NEW x \in Int, ColStart(B, q) <= x, x <= ColEnd(B, q),
         ColStart(B, r) <= x, x <= ColEnd(B, r)
  PROVE  FALSE
<1>1. q < r \/ r < q
  BY PartitionAssumption DEF Proc
<1>2. /\ ColStart(B, q) \in Nat /\ ColEnd(B, q) \in Int
      /\ ColStart(B, r) \in Nat /\ ColEnd(B, r) \in Int
  BY Starts
<1>3. ColEnd(B, q) < ColStart(B, r) \/ ColEnd(B, r) < ColStart(B, q)
  BY <1>1, Starts
<1> QED
  BY <1>2, <1>3

-----------------------------------------------------------------------------
(* Whom a process tells of its rows. *)

\* Of a range of rows each process is told what it is assumed for, in one message.
LEMMA RangeContactsRight ==
  ASSUME NEW s \in Row, NEW e \in Row, s <= e, NEW p \in Proc,
         NEW lo \in Int, lo = IF s <= RowStart(p) THEN RowStart(p) ELSE s,
         NEW hi \in Int, hi = MinOf(e, RowEnd(p))
  PROVE  {c \in RangeContacts([start |-> s, end |-> e]) : c.to = p} =
           IF lo <= hi THEN {[to |-> p, start |-> lo, end |-> hi]} ELSE {}
<1> DEFINE range == [start |-> s, end |-> e]
           f == ProcFromRow(s)
           g == ProcFromRow(e)
<1>1. /\ f \in Proc /\ s \in RowStart(f) .. RowEnd(f)
      /\ g \in Proc /\ e \in RowStart(g) .. RowEnd(g)
      /\ \A q \in Proc : s \in RowStart(q) .. RowEnd(q) => q = f
      /\ \A q \in Proc : e \in RowStart(q) .. RowEnd(q) => q = g
  BY InverseOfEachOther
<1>2. /\ RowStart(f) \in Int /\ RowEnd(f) \in Int /\ RowStart(g) \in Int /\ RowEnd(g) \in Int
      /\ RowStart(p) \in Int /\ RowEnd(p) \in Int /\ s \in Int /\ e \in Int
      /\ f \in Int /\ g \in Int /\ p \in Int
  BY <1>1, AssumedRange, PartitionAssumption DEF Proc, Row
<1>3. /\ RowStart(f) <= s /\ s <= RowEnd(f) /\ RowStart(g) <= e /\ e <= RowEnd(g)
  BY <1>1, <1>2
<1>4. range.start = s /\ range.end = e
  OBVIOUS
<1> HIDE DEF f, g
<1>5. CASE f = g
  <2>1. RangeContacts(range) = {[to |-> f, start |-> s, end |-> e]}
    BY <1>4, <1>5 DEF RangeContacts, f, g
  <2>2. CASE p = f
    <3>1. lo = s /\ hi = e
      BY <2>2, <1>2, <1>3, <1>5 DEF MinOf
    <3> QED
      BY <3>1, <2>1, <2>2
  <2>3. CASE p # f
    <3>1. p < f \/ f < p
      BY <2>3, <1>2
    <3>2. RowEnd(p) < RowStart(f) \/ RowEnd(f) < RowStart(p)
      BY <3>1, <1>1, Ascending
    <3>3. ~ (lo <= hi)
      BY <3>2, <1>2, <1>3, <1>5 DEF MinOf
    <3> QED
      BY <3>3, <2>1, <2>3
  <2> QED
    BY <2>2, <2>3
<1>6. CASE f # g
  <2>1. f < g
    <3>1. ASSUME g < f PROVE FALSE
      <4>1. RowEnd(g) < RowStart(f)
        BY <3>1, <1>1, Ascending
      <4> QED
        BY <4>1, <1>2, <1>3
    <3> QED
      BY <3>1, <1>2, <1>6
  <2> DEFINE S == {q \in f .. NumProcs - 1 : RowEnd(q) >= e}
  <2>2. Min(S) = g
    <3>1. S \in SUBSET Int
      BY <1>2, PartitionAssumption
    <3>2. g \in S
      BY <1>1, <1>2, <1>3, <2>1, PartitionAssumption DEF Proc
    <3>3. ASSUME NEW q \in S PROVE g <= q
      <4>1. q \in Proc /\ q \in Int /\ RowEnd(q) >= e
        BY <1>1, PartitionAssumption DEF Proc
      <4>2. RowEnd(q) \in Int
        BY <4>1, AssumedRange
      <4>3. ASSUME q < g PROVE FALSE
        <5>1. RowEnd(q) < RowStart(g)
          BY <4>1, <4>3, <1>1, Ascending
        <5> QED
          BY <5>1, <4>1, <4>2, <1>2, <1>3
      <4> QED
        BY <4>1, <4>3, <1>2
    <3> HIDE DEF S
    <3> QED
      BY <3>1, <3>2, <3>3, MinIs
  <2> DEFINE contact(q) == [to |-> q, start |-> Max({s, RowStart(q)}),
                            end |-> Min({e, RowEnd(q)})]
  <2>3. RangeContacts(range) = {contact(q) : q \in f .. g}
    BY <2>2, <1>4, <1>6, Zenon DEF RangeContacts, f, g
  <2>4. contact(p) = [to |-> p, start |-> lo, end |-> hi]
    BY <1>2, OfTwo
  <2>5. \A q \in f .. g : contact(q).to = q
    OBVIOUS
  <2> HIDE DEF contact, S
  <2>6. p \in f .. g <=> lo <= hi
    <3>1. CASE p < f
      <4>1. RowEnd(p) < RowStart(f)
        BY <3>1, <1>1, Ascending
      <4> QED
        BY <4>1, <3>1, <1>2, <1>3 DEF MinOf
    <3>2. CASE g < p
      <4>1. RowEnd(g) < RowStart(p)
        BY <3>2, <1>1, Ascending
      <4> QED
        BY <4>1, <3>2, <1>2, <1>3 DEF MinOf
    <3>3. CASE p = f
      BY <3>3, <2>1, <1>2, <1>3 DEF MinOf
    <3>4. CASE p = g
      BY <3>4, <2>1, <1>2, <1>3 DEF MinOf
    <3>5. CASE f < p /\ p < g
      <4>1. RowEnd(f) < RowStart(p) /\ RowEnd(p) < RowStart(g)
        BY <3>5, <1>1, Ascending
      <4>2. RowStart(p) <= RowEnd(p)
        <5>1. RowStart(g) <= RowEnd(g)
          BY <1>2, <1>3
        <5> QED
          BY <5>1, <3>5, <1>1, NoneBetween
      <4> QED
        BY <4>1, <4>2, <3>5, <1>2, <1>3 DEF MinOf
    <3> QED
      BY <3>1, <3>2, <3>3, <3>4, <3>5, <1>2
  <2>7. {c \in RangeContacts(range) : c.to = p} = IF p \in f .. g THEN {contact(p)} ELSE {}
    BY <2>3, <2>5
  <2> QED
    BY <2>4, <2>6, <2>7
<1> QED
  BY <1>5, <1>6

\* A list of at most one contact.
LEMMA InOrderOfOne ==
  /\ InOrder({}) = <<>>
  /\ \A c : InOrder({c}) = <<c>>
<1>1. InOrder({}) = <<>>
  <2>1. Cardinality({}) = 0
    BY FS_EmptySet
  <2>2. <<>> \in [1 .. 0 -> {}]
    OBVIOUS
  <2>3. \A list \in [1 .. 0 -> {}] : list = <<>>
    OBVIOUS
  <2>4. \A j, k \in DOMAIN <<>> : FALSE
    OBVIOUS
  <2> QED
    BY <2>1, <2>2, <2>3, <2>4 DEF InOrder
<1>2. ASSUME NEW c PROVE InOrder({c}) = <<c>>
  <2>1. Cardinality({c}) = 1
    BY FS_Singleton
  <2>2. <<c>> \in [1 .. 1 -> {c}]
    OBVIOUS
  <2>3. \A list \in [1 .. 1 -> {c}] : list = <<c>>
    OBVIOUS
  <2>4. \A j, k \in 1 .. 1 : ~ (j < k)
    OBVIOUS
  <2>5. \A list \in [1 .. 1 -> {c}] :
          \A j, k \in DOMAIN list : j < k => list[j].start < list[k].start
    BY <2>4
  <2> QED
    BY <2>1, <2>2, <2>3, <2>5 DEF InOrder
<1> QED
  BY <1>1, <1>2

\* What hypre_LocateAssummedPartition sends for the rows of q: to each other process
\* what that is assumed for, if anything, and nothing else.
LEMMA TellsRight ==
  ASSUME NEW B, IsMatrix(B), NEW q \in Proc, NEW p \in Proc
  PROVE  InOrder({c \in UNION {RangeContacts(r) :
                               r \in ContactRanges(q, ColStart(B, q), ColEnd(B, q))} :
                    c.to = p}) = Message(B, q, p)
<1> DEFINE cs == ColStart(B, q)
           ce == ColEnd(B, q)
           told(r) == {c \in RangeContacts(r) : c.to = p}
           all == {c \in UNION {RangeContacts(r) : r \in ContactRanges(q, cs, ce)} : c.to = p}
           one == [to |-> p, start |-> Lo(B, q, p), end |-> Hi(B, q, p)]
<1>1. /\ cs \in Nat /\ ce \in Int /\ cs <= ce + 1 /\ ce <= NumRows - 1
  BY Starts
<1>2. /\ RowStart(p) \in Nat /\ RowEnd(p) \in Int /\ RowStart(p) <= RowEnd(p) + 1
      /\ RowStart(q) \in Nat /\ RowEnd(q) \in Int /\ RowStart(q) <= RowEnd(q) + 1
      /\ RowEnd(q) <= NumRows - 1
  BY AssumedRange
<1>3. /\ Lo(B, q, p) = IF cs <= RowStart(p) THEN RowStart(p) ELSE cs
      /\ Hi(B, q, p) = MinOf(ce, RowEnd(p))
  BY DEF Lo, Hi
<1>4. Lo(B, q, p) \in Int /\ Hi(B, q, p) \in Int
  BY <1>1, <1>2, <1>3 DEF MinOf
<1>5. p < q \/ q < p \/ p = q
  BY PartitionAssumption DEF Proc
<1>6. (p < q => RowEnd(p) < RowStart(q)) /\ (q < p => RowEnd(q) < RowStart(p))
  BY Ascending
<1>7. all = UNION {told(r) : r \in ContactRanges(q, cs, ce)}
  OBVIOUS
<1> HIDE DEF cs, ce
<1>8. all = IF q # p /\ Overlap(B, q, p) THEN {one} ELSE {}
  <2>1. CASE cs > ce
    <3>1. ContactRanges(q, cs, ce) = {}
      BY <2>1 DEF ContactRanges
    <3>2. ~ Overlap(B, q, p)
      BY <2>1, <1>1, <1>2, <1>3 DEF Overlap, MinOf
    <3>3. all = {}
      BY <3>1
    <3> QED
      BY <3>2, <3>3
  <2>2. CASE cs <= ce /\ NoOverlap(q, cs, ce)
    <3>1. ContactRanges(q, cs, ce) = {[start |-> cs, end |-> ce]}
      BY <2>2, <1>1 DEF ContactRanges
    <3>2. cs \in Row /\ ce \in Row
      BY <2>2, <1>1, PartitionAssumption DEF Row
    <3>3. told([start |-> cs, end |-> ce]) = IF Overlap(B, q, p) THEN {one} ELSE {}
      BY <3>2, <2>2, <1>3, <1>4, RangeContactsRight, Zenon DEF Overlap
    <3> HIDE DEF told
    <3>4. all = told([start |-> cs, end |-> ce])
      BY <3>1, <1>7
    <3>5. q = p => ~ Overlap(B, q, p)
      BY <2>2, <1>1, <1>2, <1>3 DEF NoOverlap, Overlap, MinOf
    <3> QED
      BY <3>3, <3>4, <3>5
  <2>3. CASE cs <= ce /\ ~ NoOverlap(q, cs, ce)
    <3> DEFINE low == [start |-> cs, end |-> RowStart(q) - 1]
               high == [start |-> RowEnd(q) + 1, end |-> ce]
    <3>1. ContactRanges(q, cs, ce) = {range \in {low, high} : range.start <= range.end}
      BY <2>3, <1>1 DEF ContactRanges
    <3>2. ~ (RowEnd(q) < cs) /\ ~ (ce < RowStart(q))
      BY <2>3 DEF NoOverlap
    <3>3. low \in ContactRanges(q, cs, ce) =>
            told(low) = IF p < q /\ Overlap(B, q, p) THEN {one} ELSE {}
      <4>1. ASSUME low \in ContactRanges(q, cs, ce)
            PROVE  told(low) = IF p < q /\ Overlap(B, q, p) THEN {one} ELSE {}
        <5>1. cs <= RowStart(q) - 1
          BY <4>1, <3>1
        <5>2. cs \in Row /\ RowStart(q) - 1 \in Row
          BY <5>1, <1>1, <1>2, PartitionAssumption DEF Row
        <5>3. PICK hi \in Int : hi = MinOf(RowStart(q) - 1, RowEnd(p))
          BY <1>2 DEF MinOf
        <5>7. PICK e \in Row : e = RowStart(q) - 1
          BY <5>2
        <5>4. told(low) = IF Lo(B, q, p) <= hi
                          THEN {[to |-> p, start |-> Lo(B, q, p), end |-> hi]} ELSE {}
          BY <5>1, <5>2, <5>3, <5>7, <1>3, <1>4, RangeContactsRight
        <5>5. CASE p < q
          <6>1. hi = Hi(B, q, p)
            BY <5>3, <5>5, <3>2, <1>1, <1>2, <1>3, <1>6 DEF MinOf
          <6> QED
            BY <6>1, <5>4, <5>5 DEF Overlap
        <5>6. CASE ~ (p < q)
          <6>1. ~ (Lo(B, q, p) <= hi)
            BY <5>3, <5>6, <5>1, <3>2, <1>1, <1>2, <1>3, <1>5, <1>6 DEF MinOf
          <6> QED
            BY <6>1, <5>4, <5>6
        <5> QED
          BY <5>5, <5>6
      <4> QED
        BY <4>1
    <3>4. high \in ContactRanges(q, cs, ce) =>
            told(high) = IF q < p /\ Overlap(B, q, p) THEN {one} ELSE {}
      <4>1. ASSUME high \in ContactRanges(q, cs, ce)
            PROVE  told(high) = IF q < p /\ Overlap(B, q, p) THEN {one} ELSE {}
        <5>1. RowEnd(q) + 1 <= ce
          BY <4>1, <3>1
        <5>2. ce \in Row /\ RowEnd(q) + 1 \in Row
          BY <5>1, <1>1, <1>2, PartitionAssumption DEF Row
        <5>3. PICK lo \in Int :
                lo = IF RowEnd(q) + 1 <= RowStart(p) THEN RowStart(p) ELSE RowEnd(q) + 1
          BY <1>2
        <5>7. PICK s \in Row : s = RowEnd(q) + 1
          BY <5>2
        <5>4. told(high) = IF lo <= Hi(B, q, p)
                           THEN {[to |-> p, start |-> lo, end |-> Hi(B, q, p)]} ELSE {}
          BY <5>1, <5>2, <5>3, <5>7, <1>3, <1>4, RangeContactsRight
        <5>5. CASE q < p
          <6>1. lo = Lo(B, q, p)
            BY <5>3, <5>5, <3>2, <1>1, <1>2, <1>3, <1>6
          <6> QED
            BY <6>1, <5>4, <5>5 DEF Overlap
        <5>6. CASE ~ (q < p)
          <6>1. ~ (lo <= Hi(B, q, p))
            BY <5>3, <5>6, <5>1, <3>2, <1>1, <1>2, <1>3, <1>5, <1>6 DEF MinOf
          <6> QED
            BY <6>1, <5>4, <5>6
        <5> QED
          BY <5>5, <5>6
      <4> QED
        BY <4>1
    <3>5. Overlap(B, q, p) /\ p < q => low \in ContactRanges(q, cs, ce)
      <4>1. Overlap(B, q, p) /\ p < q => cs <= RowStart(q) - 1
        BY <1>1, <1>2, <1>3, <1>6 DEF Overlap, MinOf
      <4> QED
        BY <4>1, <3>1
    <3>6. Overlap(B, q, p) /\ q < p => high \in ContactRanges(q, cs, ce)
      <4>1. Overlap(B, q, p) /\ q < p => RowEnd(q) + 1 <= ce
        BY <1>1, <1>2, <1>3, <1>6 DEF Overlap, MinOf
      <4> QED
        BY <4>1, <3>1
    <3>7. \A r \in ContactRanges(q, cs, ce) : r = low \/ r = high
      BY <3>1
    <3>8. p < q => q # p /\ ~ (q < p)
      BY PartitionAssumption DEF Proc
    <3>9. q < p => q # p
      BY PartitionAssumption DEF Proc
    <3> HIDE DEF told, low, high, one
    <3> QED
      BY <3>3, <3>4, <3>5, <3>6, <3>7, <3>8, <3>9, <1>5, <1>7
  <2> QED
    BY <2>1, <2>2, <2>3, <1>1
<1>9. InOrder({}) = <<>> /\ InOrder({one}) = <<one>>
  BY InOrderOfOne
<1> QED
  BY <1>8, <1>9 DEF Message, cs, ce

-----------------------------------------------------------------------------
(* What a process is told, and that it can stop when it has found all its rows. *)

\* The rows of p that others have.
Needed(B, p) == RowStart(p) .. RowEnd(p) \ Own(B, p)

\* The rows that p is assumed for and q has, one by one.
LEMMA LoHi ==
  ASSUME NEW B, IsMatrix(B), NEW q \in Proc, NEW p \in Proc
  PROVE  /\ Lo(B, q, p) \in Int /\ Hi(B, q, p) \in Int
         /\ \A x \in Int : Lo(B, q, p) <= x /\ x <= Hi(B, q, p) <=>
              /\ ColStart(B, q) <= x /\ x <= ColEnd(B, q)
              /\ RowStart(p) <= x /\ x <= RowEnd(p)
<1>1. /\ ColStart(B, q) \in Int /\ ColEnd(B, q) \in Int
      /\ RowStart(p) \in Int /\ RowEnd(p) \in Int
  BY Starts, AssumedRange
<1> QED
  BY <1>1 DEF Lo, Hi, MinOf

\* hypre_LocateAssummedPartition counts the rows that it must hear of.
LEMMA CountRight ==
  ASSUME NEW B, IsMatrix(B), NEW p \in Proc
  PROVE  /\ IsFiniteSet(Needed(B, p))
         /\ LocateRowCount(p, ColStart(B, p), ColEnd(B, p)) = Cardinality(Needed(B, p))
<1> DEFINE cs == ColStart(B, p)
           ce == ColEnd(B, p)
           rs == RowStart(p)
           re == RowEnd(p)
<1>1. /\ cs \in Int /\ ce \in Int /\ cs <= ce + 1
      /\ rs \in Int /\ re \in Int /\ rs <= re + 1
  BY Starts, AssumedRange
<1>2. Needed(B, p) = rs .. re \ cs .. ce
  BY DEF Needed, Own
<1> HIDE DEF cs, ce, rs, re
<1>3. CASE re < cs \/ ce < rs
  <2>1. LocateRowCount(p, cs, ce) = re - rs + 1
    BY <1>3 DEF LocateRowCount, NoOverlap, rs, re
  <2>2. rs .. re \ cs .. ce = rs .. re
    BY <1>1, <1>3
  <2>3. IsFiniteSet(rs .. re) /\ Cardinality(rs .. re) = IF rs > re THEN 0 ELSE re - rs + 1
    BY <1>1, FS_Interval
  <2>4. Needed(B, p) = rs .. re
    BY <2>2, <1>2
  <2>5. LocateRowCount(p, cs, ce) = Cardinality(rs .. re)
    BY <2>1, <2>3, <1>1
  <2> QED
    BY <2>3, <2>4, <2>5, Zenon DEF cs, ce
<1>4. CASE ~ (re < cs) /\ ~ (ce < rs)
  <2> DEFINE low == rs .. cs - 1
             high == ce + 1 .. re
  <2>1. LocateRowCount(p, cs, ce) =
          (IF rs < cs THEN cs - rs ELSE 0) + (IF ce < re THEN re - ce ELSE 0)
    BY <1>4 DEF LocateRowCount, NoOverlap, rs, re
  <2>2. rs .. re \ cs .. ce = low \cup high /\ low \cap high = {}
    BY <1>1, <1>4
  <2>3. /\ IsFiniteSet(low) /\ Cardinality(low) = IF rs > cs - 1 THEN 0 ELSE cs - 1 - rs + 1
        /\ IsFiniteSet(high) /\ Cardinality(high) = IF ce + 1 > re THEN 0 ELSE re - (ce + 1) + 1
    BY <1>1, FS_Interval
  <2> HIDE DEF low, high
  <2>4. /\ IsFiniteSet(low \cup high)
        /\ Cardinality(low \cup high) =
             Cardinality(low) + Cardinality(high) - Cardinality(low \cap high)
    BY <2>3, FS_Union
  <2>5. Cardinality(low \cap high) = 0
    BY <2>2, FS_EmptySet
  <2>6. Needed(B, p) = low \cup high
    BY <2>2, <1>2
  <2>7. LocateRowCount(p, cs, ce) = Cardinality(low \cup high)
    BY <2>1, <2>3, <2>4, <2>5, <1>1
  <2> QED
    BY <2>4, <2>6, <2>7, Zenon DEF cs, ce
<1> QED
  BY <1>3, <1>4

\* What p is told of are rows that it needs.
LEMMA HeardNeeded ==
  ASSUME NEW B, IsMatrix(B), NEW p \in Proc, NEW s
  PROVE  Heard(B, p, s) \subseteq Needed(B, p) /\ IsFiniteSet(Heard(B, p, s))
<1>1. ASSUME NEW x \in Heard(B, p, s) PROVE x \in Needed(B, p)
  <2>1. PICK q \in Proc \ {p} : x \in Lo(B, q, p) .. Hi(B, q, p)
    BY <1>1 DEF Heard
  <2>2. x \in Int /\ Lo(B, q, p) <= x /\ x <= Hi(B, q, p)
    BY <2>1, LoHi
  <2>3. /\ ColStart(B, q) <= x /\ x <= ColEnd(B, q)
        /\ RowStart(p) <= x /\ x <= RowEnd(p)
    BY <2>2, LoHi
  <2>4. ~ (ColStart(B, p) <= x /\ x <= ColEnd(B, p))
    BY <2>1, <2>2, <2>3, OneOwner
  <2>5. ColStart(B, p) \in Int /\ ColEnd(B, p) \in Int /\ RowStart(p) \in Int /\ RowEnd(p) \in Int
    BY Starts, AssumedRange
  <2> QED
    BY <2>2, <2>3, <2>4, <2>5 DEF Needed, Own
<1> QED
  BY <1>1, CountRight, FS_Subset

\* What p has itself is its first piece.
LEMMA OwnPieceRight ==
  ASSUME NEW B, IsMatrix(B), NEW p \in Proc,
         NEW s, s = OwnPiece(p, ColStart(B, p), ColEnd(B, p))
  PROVE  /\ s \in Seq(Piece) /\ PiecesRight(B, p, s)
         /\ \A q \in Proc \ {p} : ~ Told(s, q)
         /\ Heard(B, p, s) = {}
<1> DEFINE piece == [proc |-> p, start |-> Lo(B, p, p), end |-> Hi(B, p, p)]
<1>1. /\ ColStart(B, p) \in Int /\ ColEnd(B, p) \in Int
      /\ RowStart(p) \in Int /\ RowEnd(p) \in Int
  BY Starts, AssumedRange
<1>2. /\ Max({RowStart(p), ColStart(B, p)}) = Lo(B, p, p)
      /\ Min({ColEnd(B, p), RowEnd(p)}) = Hi(B, p, p)
      /\ Lo(B, p, p) \in Int /\ Hi(B, p, p) \in Int
  BY <1>1, OfTwo DEF Lo, Hi, MinOf
<1>3. s = IF Overlap(B, p, p) THEN <<piece>> ELSE <<>>
  BY <1>2 DEF OwnPiece, Overlap
<1>4. piece \in Piece /\ piece.proc = p
  BY <1>2 DEF Piece
<1>5. s \in Seq(Piece)
  BY <1>3, <1>4
<1>6. \A j \in 1 .. Len(s) : j = 1 /\ Overlap(B, p, p) /\ s[j] = piece
  BY <1>3
<1>7. Overlap(B, p, p) => Len(s) = 1
  BY <1>3
<1> HIDE DEF piece
<1>8. \A q \in Proc \ {p} : ~ Told(s, q)
  BY <1>4, <1>6 DEF Told
<1>9. Overlap(B, p, p) => Told(s, p)
  BY <1>4, <1>6, <1>7 DEF Told
<1>10. PiecesRight(B, p, s)
  BY <1>4, <1>6, <1>9 DEF PiecesRight, piece
<1> QED
  BY <1>5, <1>8, <1>10 DEF Heard

\* A piece of another process that p has not been told of.
LEMMA NextPieceRight ==
  ASSUME NEW B, IsMatrix(B), NEW p \in Proc, NEW q \in Proc, q # p, Overlap(B, q, p),
         NEW s \in Seq(Piece), PiecesRight(B, p, s), ~ Told(s, q),
         NEW piece, piece = [proc |-> q, start |-> Lo(B, q, p), end |-> Hi(B, q, p)]
  PROVE  /\ Append(s, piece) \in Seq(Piece) /\ PiecesRight(B, p, Append(s, piece))
         /\ \A r : Told(Append(s, piece), r) <=> Told(s, r) \/ r = q
         /\ RowsOf(piece) \in Nat
         /\ Cardinality(Heard(B, p, Append(s, piece))) =
              Cardinality(Heard(B, p, s)) + RowsOf(piece)
<1> DEFINE t == Append(s, piece)
           n == Len(s)
<1>1. Lo(B, q, p) \in Int /\ Hi(B, q, p) \in Int /\ Lo(B, q, p) <= Hi(B, q, p)
  BY LoHi DEF Overlap
<1>2. /\ piece \in Piece /\ piece.proc = q
      /\ piece.start = Lo(B, q, p) /\ piece.end = Hi(B, q, p)
  BY <1>1 DEF Piece
<1>3. /\ n \in Nat /\ t \in Seq(Piece) /\ Len(t) = n + 1
      /\ \A j \in 1 .. n : t[j] = s[j]
      /\ t[n + 1] = piece
  BY <1>2
<1> HIDE DEF t, n
<1>4. \A r : Told(t, r) <=> Told(s, r) \/ r = q
  <2> TAKE r
  <2>1. Told(s, r) => Told(t, r)
    BY <1>3 DEF Told, n
  <2>2. Told(t, q)
    <3>1. n + 1 \in 1 .. Len(t)
      BY <1>3
    <3> QED
      BY <3>1, <1>2, <1>3 DEF Told
  <2>3. ASSUME Told(t, r), r # q PROVE Told(s, r)
    <3>1. PICK j \in 1 .. Len(t) : t[j].proc = r
      BY <2>3 DEF Told
    <3>2. j # n + 1
      BY <3>1, <2>3, <1>2, <1>3
    <3>3. j \in 1 .. n
      BY <3>2, <1>3
    <3> QED
      BY <3>1, <3>3, <1>3 DEF Told, n
  <2> QED
    BY <2>1, <2>2, <2>3
<1>5. PiecesRight(B, p, t)
  <2>1. \A j \in 1 .. Len(t) : j \in 1 .. n \/ j = n + 1
    BY <1>3
  <2>2. ASSUME NEW j \in 1 .. Len(t)
        PROVE  /\ Overlap(B, t[j].proc, p)
               /\ t[j].start = Lo(B, t[j].proc, p) /\ t[j].end = Hi(B, t[j].proc, p)
    <3>1. CASE j \in 1 .. n
      BY <3>1, <1>3 DEF PiecesRight, n
    <3>2. CASE j = n + 1
      BY <3>2, <1>2, <1>3
    <3> QED
      BY <3>1, <3>2, <2>1
  <2>3. \A j \in 1 .. n : s[j].proc # q
    BY DEF Told, n
  <2>4. ASSUME NEW j \in 1 .. Len(t), NEW k \in 1 .. Len(t), t[j].proc = t[k].proc
        PROVE  j = k
    <3>1. CASE j \in 1 .. n /\ k \in 1 .. n
      BY <3>1, <2>4, <1>3 DEF PiecesRight, n
    <3>2. CASE j = n + 1 /\ k \in 1 .. n
      BY <3>2, <2>3, <2>4, <1>2, <1>3
    <3>3. CASE j \in 1 .. n /\ k = n + 1
      BY <3>3, <2>3, <2>4, <1>2, <1>3
    <3> QED
      BY <3>1, <3>2, <3>3, <2>1
  <2>5. Overlap(B, p, p) => Told(t, p)
    BY <1>4 DEF PiecesRight
  <2> QED
    BY <2>2, <2>4, <2>5 DEF PiecesRight
<1>6. RowsOf(piece) = Hi(B, q, p) - Lo(B, q, p) + 1 /\ RowsOf(piece) \in Nat
  BY <1>1, <1>2 DEF RowsOf
<1>7. Cardinality(Heard(B, p, t)) = Cardinality(Heard(B, p, s)) + RowsOf(piece)
  <2> DEFINE new == Lo(B, q, p) .. Hi(B, q, p)
             old == Heard(B, p, s)
  <2>1. Heard(B, p, t) = old \cup new
    BY <1>4 DEF Heard
  <2>2. ASSUME NEW x \in old, x \in new PROVE FALSE
    <3>1. PICK r \in Proc \ {p} : Told(s, r) /\ x \in Lo(B, r, p) .. Hi(B, r, p)
      BY DEF Heard
    <3>2. r # q
      BY <3>1
    <3>3. /\ x \in Int /\ Lo(B, r, p) <= x /\ x <= Hi(B, r, p)
          /\ Lo(B, q, p) <= x /\ x <= Hi(B, q, p)
      BY <3>1, <2>2, <1>1, LoHi
    <3>4. /\ ColStart(B, q) <= x /\ x <= ColEnd(B, q)
          /\ ColStart(B, r) <= x /\ x <= ColEnd(B, r)
      BY <3>3, LoHi
    <3> QED
      BY <3>2, <3>3, <3>4, OneOwner
  <2>3. old \cap new = {}
    BY <2>2
  <2>4. IsFiniteSet(new) /\ Cardinality(new) = Hi(B, q, p) - Lo(B, q, p) + 1
    BY <1>1, FS_Interval
  <2>5. IsFiniteSet(old) /\ Cardinality(old) \in Nat
    BY HeardNeeded, FS_CardinalityType
  <2> HIDE DEF old, new
  <2>6. Cardinality(old \cup new) = Cardinality(old) + Cardinality(new) - Cardinality(old \cap new)
    BY <2>4, <2>5, FS_Union
  <2>7. Cardinality(old \cap new) = 0
    BY <2>3, FS_EmptySet
  <2>8. Cardinality(old \cup new) = Cardinality(old) + RowsOf(piece)
    BY <2>4, <2>5, <2>6, <2>7, <1>1, <1>6
  <2> QED
    BY <2>1, <2>8 DEF old
<1> QED
  BY <1>3, <1>4, <1>5, <1>6, <1>7 DEF t

\* When p has found as many rows as it needs it has been told by all that have them.
LEMMA AllTold ==
  ASSUME NEW B, IsMatrix(B), NEW p \in Proc, NEW s,
         Cardinality(Heard(B, p, s)) = LocateRowCount(p, ColStart(B, p), ColEnd(B, p))
  PROVE  /\ Heard(B, p, s) = Needed(B, p)
         /\ \A q \in Proc \ {p} : Overlap(B, q, p) => Told(s, q)
<1>1. Heard(B, p, s) = Needed(B, p)
  BY HeardNeeded, CountRight, FS_Subset
<1>2. ASSUME NEW q \in Proc \ {p}, Overlap(B, q, p) PROVE Told(s, q)
  <2>1. PICK x \in Int : x = Lo(B, q, p)
    BY LoHi
  <2>2. Lo(B, q, p) <= x /\ x <= Hi(B, q, p)
    BY <2>1, <1>2 DEF Overlap
  <2>3. /\ ColStart(B, q) <= x /\ x <= ColEnd(B, q)
        /\ RowStart(p) <= x /\ x <= RowEnd(p)
    BY <2>2, LoHi
  <2>4. ~ (ColStart(B, p) <= x /\ x <= ColEnd(B, p))
    BY <2>3, OneOwner
  <2>5. ColStart(B, p) \in Int /\ ColEnd(B, p) \in Int /\ RowStart(p) \in Int /\ RowEnd(p) \in Int
    BY Starts, AssumedRange
  <2>6. x \in Heard(B, p, s)
    BY <2>3, <2>4, <2>5, <1>1 DEF Needed, Own
  <2>7. PICK r \in Proc \ {p} : Told(s, r) /\ x \in Lo(B, r, p) .. Hi(B, r, p)
    BY <2>6 DEF Heard
  <2>8. Lo(B, r, p) <= x /\ x <= Hi(B, r, p)
    BY <2>7, LoHi
  <2>9. ColStart(B, r) <= x /\ x <= ColEnd(B, r)
    BY <2>8, LoHi
  <2>10. r = q
    BY <2>3, <2>9, OneOwner
  <2> QED
    BY <2>7, <2>10
<1> QED
  BY <1>1, <1>2

\* The pieces, when all are there, sorted, are the range p is assumed for.
LEMMA SortedRight ==
  ASSUME NEW B, IsMatrix(B), NEW p \in Proc,
         NEW s \in Seq(Piece), PiecesRight(B, p, s), Heard(B, p, s) = Needed(B, p),
         NEW t \in SortsOf(s)
  PROVE  t \in Seq(Piece) /\ PartitionOf(B, p, t)
<1> DEFINE n == Len(s)
           a == RowStart(p)
           b == RowEnd(p)
<1>0. PICK f \in [1 .. n -> 1 .. n] : SortedBy(s, t, f)
  BY SortKeeps
<1>1. /\ t = [k \in 1 .. n |-> s[f[k]]] /\ Len(t) = n
      /\ \A j, k \in 1 .. n : f[j] = f[k] => j = k
      /\ \A j, k \in 1 .. n : j < k => t[j].start <= t[k].start
      /\ \A k \in 1 .. n : \E j \in 1 .. n : f[j] = k
  BY <1>0 DEF SortedBy
<1>2. n \in Nat /\ a \in Int /\ b \in Int
  BY AssumedRange
<1>13. t \in Seq(Piece) /\ Len(t) = n
  BY <1>1, SortKeeps
<1>14. \A k \in 1 .. n : t[k] \in Piece
  BY <1>13
<1> HIDE DEF n, a, b
<1> DEFINE first == [k \in 1 .. n |-> t[k].start]
           last  == [k \in 1 .. n |-> t[k].end]
<1>3. ASSUME NEW k \in 1 .. n
      PROVE  /\ t[k] = s[f[k]] /\ t[k] \in Piece
             /\ Overlap(B, t[k].proc, p)
             /\ t[k].start = Lo(B, t[k].proc, p) /\ t[k].end = Hi(B, t[k].proc, p)
  <2>1. t[k] = s[f[k]] /\ f[k] \in 1 .. n
    BY <1>1
  <2>2. t[k] \in Piece
    BY <1>14
  <2> QED
    BY <2>1, <2>2 DEF PiecesRight, n
<1>4. ASSUME NEW k \in 1 .. n
      PROVE  /\ t[k].proc \in Proc /\ t[k].start \in Int /\ t[k].end \in Int
             /\ a <= t[k].start /\ t[k].start <= t[k].end /\ t[k].end <= b
             /\ ColStart(B, t[k].proc) <= t[k].start /\ t[k].end <= ColEnd(B, t[k].proc)
  <2>1. t[k].proc \in Proc /\ t[k].start \in Int /\ t[k].end \in Int
    BY <1>3 DEF Piece
  <2>2. t[k].start <= t[k].end
    BY <1>3 DEF Overlap
  <2>3. /\ Lo(B, t[k].proc, p) \in Int /\ Hi(B, t[k].proc, p) \in Int
        /\ \A x \in Int : Lo(B, t[k].proc, p) <= x /\ x <= Hi(B, t[k].proc, p) <=>
             /\ ColStart(B, t[k].proc) <= x /\ x <= ColEnd(B, t[k].proc)
             /\ RowStart(p) <= x /\ x <= RowEnd(p)
    BY <2>1, LoHi
  <2>4. /\ ColStart(B, t[k].proc) <= t[k].start /\ RowStart(p) <= t[k].start
        /\ t[k].end <= ColEnd(B, t[k].proc) /\ t[k].end <= RowEnd(p)
    <3>1. /\ Lo(B, t[k].proc, p) <= t[k].start /\ t[k].start <= Hi(B, t[k].proc, p)
          /\ Lo(B, t[k].proc, p) <= t[k].end /\ t[k].end <= Hi(B, t[k].proc, p)
      BY <2>1, <2>2, <1>3
    <3> QED
      BY <3>1, <2>1, <2>3
  <2> QED
    BY <2>1, <2>2, <2>4 DEF a, b
<1>5. ASSUME NEW j \in 1 .. n, NEW k \in 1 .. n, j # k
      PROVE  first[j] .. last[j] \cap first[k] .. last[k] = {}
  <2>1. t[j].proc # t[k].proc
    <3>1. f[j] # f[k] /\ f[j] \in 1 .. n /\ f[k] \in 1 .. n
      BY <1>1, <1>5
    <3>2. t[j] = s[f[j]] /\ t[k] = s[f[k]]
      BY <1>3
    <3> QED
      BY <3>1, <3>2 DEF PiecesRight, n
  <2>2. ASSUME NEW x \in Int, t[j].start <= x, x <= t[j].end, t[k].start <= x, x <= t[k].end
        PROVE  FALSE
    <3>1. /\ t[j].proc \in Proc /\ t[k].proc \in Proc
          /\ t[j].start \in Int /\ t[j].end \in Int /\ t[k].start \in Int /\ t[k].end \in Int
          /\ ColStart(B, t[j].proc) <= t[j].start /\ t[j].end <= ColEnd(B, t[j].proc)
          /\ ColStart(B, t[k].proc) <= t[k].start /\ t[k].end <= ColEnd(B, t[k].proc)
      BY <1>4
    <3>2. /\ ColStart(B, t[j].proc) \in Int /\ ColEnd(B, t[j].proc) \in Int
          /\ ColStart(B, t[k].proc) \in Int /\ ColEnd(B, t[k].proc) \in Int
      BY SMTT(20), <3>1, Starts
    <3>3. /\ ColStart(B, t[j].proc) <= x /\ x <= ColEnd(B, t[j].proc)
          /\ ColStart(B, t[k].proc) <= x /\ x <= ColEnd(B, t[k].proc)
      BY SMTT(20), <2>2, <3>1, <3>2
    <3> QED
      BY <2>1, <3>1, <3>3, OneOwner
  <2>3. /\ first[j] = t[j].start /\ last[j] = t[j].end
        /\ first[k] = t[k].start /\ last[k] = t[k].end
    OBVIOUS
  <2>4. t[j].start \in Int /\ t[j].end \in Int /\ t[k].start \in Int /\ t[k].end \in Int
    BY <1>4
  <2> QED
    BY <2>2, <2>3, <2>4
<1>6. ASSUME NEW q \in Proc, Told(s, q)
      PROVE  \E k \in 1 .. n : t[k].proc = q /\ t[k].start = Lo(B, q, p) /\ t[k].end = Hi(B, q, p)
  <2>1. PICK i \in 1 .. n : s[i].proc = q
    BY <1>6 DEF Told, n
  <2>2. PICK k \in 1 .. n : f[k] = i
    BY <1>1
  <2>3. t[k].proc = q
    BY <2>1, <2>2, <1>3
  <2> QED
    BY <2>3, <1>3
<1>7. ASSUME NEW x \in a .. b PROVE \E k \in 1 .. n : x \in first[k] .. last[k]
  <2>1. x \in Int /\ RowStart(p) <= x /\ x <= RowEnd(p)
    BY <1>2 DEF a, b
  <2>2. \E q \in Proc : /\ Told(s, q)
                        /\ x \in Lo(B, q, p) .. Hi(B, q, p)
    <3>1. CASE x \in Needed(B, p)
      BY <3>1 DEF Heard
    <3>2. CASE ~ (x \in Needed(B, p))
      <4>1. ColStart(B, p) \in Int /\ ColEnd(B, p) \in Int /\ a = RowStart(p) /\ b = RowEnd(p)
        BY Starts DEF a, b
      <4>2. ColStart(B, p) <= x /\ x <= ColEnd(B, p)
        BY <3>2, <2>1, <4>1 DEF Needed, Own
      <4>3. Lo(B, p, p) \in Int /\ Hi(B, p, p) \in Int /\ Lo(B, p, p) <= x /\ x <= Hi(B, p, p)
        BY <4>2, <2>1, LoHi
      <4>4. Overlap(B, p, p)
        BY <4>3, <2>1 DEF Overlap
      <4> QED
        BY <4>3, <4>4, <2>1 DEF PiecesRight
    <3> QED
      BY <3>1, <3>2
  <2>3. PICK q \in Proc : Told(s, q) /\ x \in Lo(B, q, p) .. Hi(B, q, p)
    BY <2>2
  <2>4. PICK k \in 1 .. n : t[k].start = Lo(B, q, p) /\ t[k].end = Hi(B, q, p)
    BY <2>3, <1>6
  <2> QED
    BY <2>3, <2>4
<1>8. /\ first \in [1 .. n -> Int] /\ last \in [1 .. n -> Int]
      /\ \A k \in 1 .. n : a <= first[k] /\ first[k] <= last[k] /\ last[k] <= b
      /\ \A j, k \in 1 .. n : j < k => first[j] <= first[k]
  BY <1>1, <1>4
<1>9. \A k \in 1 .. n : first[k] = t[k].start /\ last[k] = t[k].end
  OBVIOUS
<1> HIDE DEF first, last
<1>10. /\ n = 0 => b < a
       /\ n > 0 => first[1] = a /\ last[n] = b
       /\ \A k \in 2 .. n : first[k] = last[k - 1] + 1
  <2>1. \A j, k \in 1 .. n : j # k => first[j] .. last[j] \cap first[k] .. last[k] = {}
    BY <1>5
  <2>2. \A x \in a .. b : \E k \in 1 .. n : x \in first[k] .. last[k]
    BY <1>7
  <2>3. Cover(a, b, n, first, last)
    BY <1>8, <2>1, <2>2 DEF Cover
  <2>4. Joined(a, b, n, first, last)
    BY <1>2, <1>8, <2>3, NextToEachOther
  <2> QED
    BY <2>4 DEF Joined
<1>11. ASSUME NEW k \in 1 .. n
       PROVE  /\ t[k].start .. t[k].end \subseteq Own(B, t[k].proc)
              /\ t[k].start = IF k = 1 THEN a ELSE t[k - 1].end + 1
  <2>1. t[k].start .. t[k].end \subseteq Own(B, t[k].proc)
    <3>1. ColStart(B, t[k].proc) \in Int /\ ColEnd(B, t[k].proc) \in Int
      BY <1>4, Starts
    <3>2. /\ t[k].start \in Int /\ t[k].end \in Int
          /\ ColStart(B, t[k].proc) <= t[k].start /\ t[k].end <= ColEnd(B, t[k].proc)
      BY <1>4
    <3> QED
      BY <3>1, <3>2 DEF Own
  <2>2. CASE k = 1
    BY <2>1, <2>2, <1>2, <1>9, <1>10
  <2>3. CASE k # 1
    <3>1. k \in 2 .. n /\ k - 1 \in 1 .. n
      BY <2>3, <1>2
    <3> QED
      BY <2>1, <2>3, <3>1, <1>9, <1>10
  <2> QED
    BY <2>2, <2>3
<1>12. IF n = 0 THEN b < a ELSE t[n].end = b
  <2>1. CASE n = 0
    BY <2>1, <1>10
  <2>2. CASE n # 0
    <3>1. n > 0 /\ n \in 1 .. n
      BY <2>2, <1>2
    <3> QED
      BY <3>1, <2>2, <1>9, <1>10
  <2> QED
    BY <2>1, <2>2
<1> QED
  BY <1>4, <1>11, <1>12, <1>13 DEF PartitionOf, a, b

-----------------------------------------------------------------------------
(* How far the processes can be from each other. *)

\* A process that is not through with the program has a matrix.
LEMMA MatrixOf ==
  ASSUME TypeInv, NEW p \in Proc, round[p] <= NumRounds
  PROVE  IsMatrix(A(p))
<1>1. program \in Programs /\ round[p] \in 1 .. NumRounds
  BY ProgramAssumption DEF TypeInv
<1> QED
  BY <1>1, ProgramAssumption DEF A

\* Nobody is in a later round than a process that has not entered an exchange in its own.
LEMMA NobodyAhead ==
  ASSUME TypeInv, ExchangeInv, NEW p \in Proc, NEW q \in Proc,
         pc[p] \in {"start", "locate", "partition"}
  PROVE  round[q] <= round[p]
<1>1. /\ entered[p] = 2 * (round[p] - 1) + EnteredAt(pc[p]) /\ EnteredAt(pc[p]) = 0
      /\ left[q] = 2 * (round[q] - 1) + LeftAt(pc[q]) /\ LeftAt(pc[q]) \in Nat
      /\ left[q] <= entered[p]
      /\ round[p] \in Int /\ round[q] \in Int
  BY SMTT(20), ProgramAssumption DEF ExchangeInv, EnteredAt, LeftAt, TypeInv
<1> QED
  BY <1>1

\* Nobody is behind a process that has its package, or early in the same round.
LEMMA NobodyBehind ==
  ASSUME TypeInv, ExchangeInv, NEW p \in Proc, NEW q \in Proc, pc[p] = "pkg"
  PROVE  round[p] < round[q] \/ (round[p] = round[q] /\ pc[q] \notin Early /\ pc[q] # "partition")
<1>1. /\ left[p] = 2 * (round[p] - 1) + LeftAt(pc[p])
      /\ entered[q] = 2 * (round[q] - 1) + EnteredAt(pc[q])
      /\ left[p] <= entered[q]
  BY DEF ExchangeInv
<1>2. LeftAt(pc[p]) = 2
  BY DEF LeftAt
<1>3. EnteredAt(pc[q]) \in 0 .. 2
  BY DEF EnteredAt
<1>4. EnteredAt(pc[q]) = 2 => pc[q] \notin Early /\ pc[q] # "partition"
  BY DEF EnteredAt, Early
<1>5. round[p] \in Int /\ round[q] \in Int
  BY ProgramAssumption DEF TypeInv
<1>6. round[p] < round[q] \/ (round[p] = round[q] /\ EnteredAt(pc[q]) = 2)
  BY <1>1, <1>2, <1>3, <1>5
<1> QED
  BY <1>4, <1>6

\* A process goes from a label to another, to a round, and enters or leaves exchanges.
LEMMA ExchangeStep ==
  ASSUME TypeInv, ExchangeInv, NEW p \in Proc, NEW label \in Labels, NEW r \in Int,
         NEW in \in Nat, NEW out \in Nat,
         pc' = [pc EXCEPT ![p] = label], round' = [round EXCEPT ![p] = r],
         entered' = [entered EXCEPT ![p] = in], left' = [left EXCEPT ![p] = out],
         in = 2 * (r - 1) + EnteredAt(label), out = 2 * (r - 1) + LeftAt(label),
         entered[p] <= in, out <= in, \A q \in Proc : out <= entered[q]
  PROVE  ExchangeInv'
<1>1. /\ pc \in [Proc -> Labels] /\ round \in [Proc -> Int]
      /\ entered \in [Proc -> Nat] /\ left \in [Proc -> Nat]
  BY ProgramAssumption DEF TypeInv
<1>2. ASSUME NEW q \in Proc
      PROVE  /\ entered'[q] = 2 * (round'[q] - 1) + EnteredAt(pc'[q])
             /\ left'[q] = 2 * (round'[q] - 1) + LeftAt(pc'[q])
  <2>1. CASE q = p
    <3>1. entered'[q] = in /\ round'[q] = r /\ pc'[q] = label /\ left'[q] = out
      BY <2>1, <1>1
    <3> QED
      BY <3>1
  <2>2. CASE q # p
    <3>1. entered'[q] = entered[q] /\ round'[q] = round[q] /\ pc'[q] = pc[q] /\ left'[q] = left[q]
      BY <2>2, <1>1
    <3> QED
      BY <3>1 DEF ExchangeInv
  <2> QED
    BY <2>1, <2>2
<1>3. ASSUME NEW q \in Proc, NEW s \in Proc PROVE left'[q] <= entered'[s]
  <2>1. /\ left'[q] = IF q = p THEN out ELSE left[q]
        /\ entered'[s] = IF s = p THEN in ELSE entered[s]
    BY <1>1
  <2>2. /\ left[q] <= entered[s] /\ left[q] <= entered[p] /\ out <= entered[s]
        /\ left[q] \in Nat /\ entered[s] \in Nat /\ entered[p] \in Nat
    BY <1>1 DEF ExchangeInv
  <2> QED
    BY <2>1, <2>2
<1> QED
  BY <1>2, <1>3 DEF ExchangeInv

-----------------------------------------------------------------------------
(* The steps. *)

\* What p hears is from this round.
LEMMA Hears ==
  ASSUME TypeInv, ExchangeInv, MailInv, LocateInv, NEW p \in Proc, NEW q \in Proc,
         pc[p] = "locate", mail[<<q, p>>] # <<>>
  PROVE  /\ q # p /\ round[q] = round[p] /\ pc[q] # "start"
         /\ ~ Told(apart[p], q) /\ Overlap(A(p), q, p)
         /\ mail[<<q, p>>] = <<[to |-> p, start |-> Lo(A(p), q, p), end |-> Hi(A(p), q, p)]>>
<1>1. /\ pc[q] # "start" /\ ~ Received(p, q)
      /\ mail[<<q, p>>] = Message(A(q), q, p)
  BY DEF MailInv
<1>2. round[p] \in Int /\ round[q] \in Int
  BY ProgramAssumption DEF TypeInv
<1>3. round[q] <= round[p]
  BY NobodyAhead
<1>4. round[q] = round[p] /\ ~ Told(apart[p], q)
  BY <1>1, <1>2, <1>3 DEF Received
<1>5. A(q) = A(p)
  BY <1>4 DEF A
<1>6. q # p /\ Overlap(A(p), q, p)
  BY <1>1, <1>5 DEF Message
<1> QED
  BY <1>1, <1>4, <1>5, <1>6 DEF Message

PieceFrom(B, q, p) == [proc |-> q, start |-> Lo(B, q, p), end |-> Hi(B, q, p)]

\* Of all but the steps that locate rows or go to the next matrix.
Quiet ==
  /\ UNCHANGED <<program, round, apart, rows_found, mail>>
  /\ \A p \in Proc : pc'[p] = pc[p] \/ (pc[p] \notin Early /\ pc'[p] \notin Early)

\* What each step says about the variables of the invariant.
LEMMA LocateSays ==
  ASSUME TypeInv, NEW p \in Proc, Locate(p)
  PROVE  /\ pc[p] = "start" /\ round[p] <= NumRounds /\ IsMatrix(A(p))
         /\ pc' = [pc EXCEPT ![p] = "locate"]
         /\ apart' = [apart EXCEPT ![p] = OwnPiece(p, ColStart(A(p), p), ColEnd(A(p), p))]
         /\ DOMAIN mail' = Proc \X Proc
         /\ \A q, r \in Proc : mail'[<<q, r>>] = IF q = p THEN mail[<<q, r>>] \o Message(A(p), p, r)
                                             ELSE mail[<<q, r>>]
         /\ UNCHANGED <<program, round, rows_found, entered, left>>
<1>1. pc[p] = "start" /\ round[p] <= NumRounds /\ IsMatrix(A(p))
  BY MatrixOf DEF Locate
<1> DEFINE list == UNION {RangeContacts(r) :
                            r \in ContactRanges(p, ColStart(A(p), p), ColEnd(A(p), p))}
           to(q) == InOrder({c \in list : c.to = q})
<1>2. mail' = [c \in Proc \X Proc |-> IF c[1] = p THEN mail[c] \o to(c[2]) ELSE mail[c]]
  BY Zenon DEF Locate
<1>3. \A r \in Proc : to(r) = Message(A(p), p, r)
  BY <1>1, TellsRight
<1> HIDE DEF to
<1>4. DOMAIN mail' = Proc \X Proc
  BY <1>2
<1>5. ASSUME NEW q \in Proc, NEW r \in Proc
      PROVE  mail'[<<q, r>>] =
               IF q = p THEN mail[<<q, r>>] \o Message(A(p), p, r) ELSE mail[<<q, r>>]
  BY <1>2, <1>3
<1>6. /\ pc' = [pc EXCEPT ![p] = "locate"]
      /\ apart' = [apart EXCEPT ![p] = OwnPiece(p, ColStart(A(p), p), ColEnd(A(p), p))]
      /\ UNCHANGED <<program, round, rows_found, entered, left>>
  BY DEF Locate, Goto, exchange
<1> QED
  BY <1>1, <1>4, <1>5, <1>6

\* A message that arrives is of this round and from a process not told of yet.
LEMMA LocateRowsSays ==
  ASSUME TypeInv, ExchangeInv, MailInv, LocateInv, NEW p \in Proc, LocateRows(p)
  PROVE  /\ pc[p] = "locate" /\ IsMatrix(A(p))
         /\ \E q \in Proc :
              /\ q # p /\ round[q] = round[p] /\ pc[q] # "start"
              /\ ~ Told(apart[p], q) /\ Overlap(A(p), q, p)
              /\ apart' = [apart EXCEPT ![p] = Append(apart[p], PieceFrom(A(p), q, p))]
              /\ rows_found' =
                   [rows_found EXCEPT ![p] = rows_found[p] + RowsOf(PieceFrom(A(p), q, p))]
              /\ mail' = [mail EXCEPT ![<<q, p>>] = <<>>]
         /\ UNCHANGED <<program, pc, round, entered, left>>
<1>1. pc[p] = "locate"
  BY DEF LocateRows
<1>2. IsMatrix(A(p))
  BY <1>1, MatrixOf DEF TypeInv
<1>3. PICK q \in Proc :
        /\ mail[<<q, p>>] # <<>>
        /\ apart' = [apart EXCEPT ![p] = Append(@, [proc |-> q, start |-> Head(mail[<<q, p>>]).start,
                                                    end |-> Head(mail[<<q, p>>]).end])]
        /\ rows_found' = [rows_found EXCEPT ![p] =
             @ + RowsOf([proc |-> q, start |-> Head(mail[<<q, p>>]).start,
                         end |-> Head(mail[<<q, p>>]).end])]
        /\ mail' = [mail EXCEPT ![<<q, p>>] = Tail(@)]
  BY DEF LocateRows
<1>4. /\ q # p /\ round[q] = round[p] /\ pc[q] # "start"
      /\ ~ Told(apart[p], q) /\ Overlap(A(p), q, p)
      /\ mail[<<q, p>>] = <<[to |-> p, start |-> Lo(A(p), q, p), end |-> Hi(A(p), q, p)]>>
  BY <1>1, <1>3, Hears
<1>5. /\ Head(mail[<<q, p>>]).start = Lo(A(p), q, p) /\ Head(mail[<<q, p>>]).end = Hi(A(p), q, p)
      /\ Tail(mail[<<q, p>>]) = <<>>
  BY <1>4
<1>6. mail' = [mail EXCEPT ![<<q, p>>] = <<>>]
  BY <1>3, <1>5
<1>7. /\ apart' = [apart EXCEPT ![p] = Append(apart[p], PieceFrom(A(p), q, p))]
      /\ rows_found' =
           [rows_found EXCEPT ![p] = rows_found[p] + RowsOf(PieceFrom(A(p), q, p))]
  BY <1>3, <1>5 DEF PieceFrom
<1>8. UNCHANGED <<program, pc, round, entered, left>>
  BY DEF LocateRows, exchange
<1> QED
  BY <1>1, <1>2, <1>4, <1>6, <1>7, <1>8

\* All is told when the count is reached.
LEMMA LocatedSays ==
  ASSUME TypeInv, LocateInv, NEW p \in Proc, Located(p)
  PROVE  /\ pc[p] = "locate" /\ IsMatrix(A(p)) /\ PiecesRight(A(p), p, apart[p])
         /\ Heard(A(p), p, apart[p]) = Needed(A(p), p)
         /\ \A q \in Proc \ {p} : Overlap(A(p), q, p) => Told(apart[p], q)
         /\ \E pieces \in SortsOf(apart[p]) : apart' = [apart EXCEPT ![p] = pieces]
         /\ pc' = [pc EXCEPT ![p] = "partition"]
         /\ rows_found' = [rows_found EXCEPT ![p] = 0]
         /\ UNCHANGED <<program, round, mail, entered, left>>
<1>1. pc[p] = "locate" /\ rows_found[p] = RowsToFind(p)
  BY DEF Located
<1>2. IsMatrix(A(p))
  BY <1>1, MatrixOf DEF TypeInv
<1>3. /\ PiecesRight(A(p), p, apart[p])
      /\ Cardinality(Heard(A(p), p, apart[p]))
           = LocateRowCount(p, ColStart(A(p), p), ColEnd(A(p), p))
  BY <1>1 DEF LocateInv, RowsToFind
<1>4. /\ Heard(A(p), p, apart[p]) = Needed(A(p), p)
      /\ \A q \in Proc \ {p} : Overlap(A(p), q, p) => Told(apart[p], q)
  BY <1>2, <1>3, AllTold
<1>5. /\ \E pieces \in SortsOf(apart[p]) : apart' = [apart EXCEPT ![p] = pieces]
      /\ pc' = [pc EXCEPT ![p] = "partition"]
      /\ rows_found' = [rows_found EXCEPT ![p] = 0]
      /\ UNCHANGED <<program, round, mail, entered, left>>
  BY DEF Located, Goto, exchange
<1> QED
  BY <1>1, <1>2, <1>3, <1>4, <1>5

\* The next round.
LEMMA DestroySays ==
  ASSUME NEW p \in Proc, Destroy(p)
  PROVE  /\ pc[p] = "pkg" /\ pc' = [pc EXCEPT ![p] = "start"]
         /\ round' = [round EXCEPT ![p] = round[p] + 1]
         /\ apart' = [apart EXCEPT ![p] = <<>>]
         /\ UNCHANGED <<program, rows_found, mail, entered, left>>
BY DEF Destroy, Goto, exchange

\* A step that goes on after the rows are located.
LEMMA GoOn ==
  ASSUME TypeInv, ExchangeInv, NEW p \in Proc, NEW label \in Labels \ Early,
         NEW in \in Nat, NEW out \in Nat, pc[p] \notin Early,
         pc' = [pc EXCEPT ![p] = label],
         entered' = [entered EXCEPT ![p] = in], left' = [left EXCEPT ![p] = out],
         UNCHANGED <<program, round, apart, rows_found, mail>>,
         in = 2 * (round[p] - 1) + EnteredAt(label), out = 2 * (round[p] - 1) + LeftAt(label),
         entered[p] <= in, out <= in, \A q \in Proc : out <= entered[q]
  PROVE  Quiet /\ TypeInv' /\ ExchangeInv'
<1>1. /\ pc \in [Proc -> Labels] /\ round \in [Proc -> Int]
      /\ entered \in [Proc -> Nat] /\ left \in [Proc -> Nat]
  BY ProgramAssumption DEF TypeInv
<1>2. \A q \in Proc : pc'[q] = IF q = p THEN label ELSE pc[q]
  BY <1>1
<1>3. Quiet
  BY <1>2 DEF Quiet
<1>4. /\ pc' \in [Proc -> Labels] /\ entered' \in [Proc -> Nat] /\ left' \in [Proc -> Nat]
  BY <1>1
<1>5. \A q \in Proc : pc'[q] # "start" => pc[q] # "start"
  BY <1>2 DEF Early
<1>6. TypeInv'
  BY <1>4, <1>5 DEF TypeInv
<1>7. round[p] \in Int /\ round' = [round EXCEPT ![p] = round[p]]
  BY <1>1
<1>8. ExchangeInv'
  BY <1>7, ExchangeStep
<1> QED
  BY <1>3, <1>6, <1>8

\* The calls of hypre_DataExchangeList.
LEMMA CallSays ==
  ASSUME TypeInv, ExchangeInv, NEW p \in Proc,
         ContactAssumedOwners(p) \/ ContactRecvProcs(p)
  PROVE  Quiet /\ TypeInv' /\ ExchangeInv'
<1>1. PICK label \in {"recvs", "sends"} :
        /\ pc[p] = IF label = "recvs" THEN "partition" ELSE "contact"
        /\ pc' = [pc EXCEPT ![p] = label]
        /\ entered[p] = left[p] /\ entered' = [entered EXCEPT ![p] = @ + 1] /\ left' = left
        /\ UNCHANGED <<program, round, apart, rows_found, mail>>
  <2>1. CASE ContactAssumedOwners(p)
    BY <2>1 DEF ContactAssumedOwners, CallExchange, Goto, Ex!EnterWith, located
  <2>2. CASE ContactRecvProcs(p)
    BY <2>2 DEF ContactRecvProcs, CallExchange, Goto, Ex!EnterWith, located
  <2> QED
    BY <2>1, <2>2
<1>2. /\ pc \in [Proc -> Labels] /\ round[p] \in Int
      /\ entered \in [Proc -> Nat] /\ left \in [Proc -> Nat]
  BY ProgramAssumption DEF TypeInv
<1>3. /\ entered[p] = 2 * (round[p] - 1) + EnteredAt(pc[p])
      /\ left[p] = 2 * (round[p] - 1) + LeftAt(pc[p])
      /\ \A q \in Proc : left[p] <= entered[q]
  BY DEF ExchangeInv
<1>4. PICK in \in Nat : in = entered[p] + 1
  BY <1>2
<1>5. PICK out \in Nat : out = left[p]
  BY <1>2
<1>6. entered' = [entered EXCEPT ![p] = in] /\ left' = [left EXCEPT ![p] = out]
  BY <1>1, <1>2, <1>4, <1>5
<1>7. label \in Labels \ Early /\ pc[p] \notin Early
  BY <1>1 DEF Labels, Early
<1>8. /\ EnteredAt(label) = EnteredAt(pc[p]) + 1 /\ EnteredAt(pc[p]) \in Nat
      /\ LeftAt(label) = LeftAt(pc[p])
  BY <1>1 DEF EnteredAt, LeftAt
<1>9. in = 2 * (round[p] - 1) + EnteredAt(label) /\ out = 2 * (round[p] - 1) + LeftAt(label)
  BY <1>2, <1>3, <1>4, <1>5, <1>8
<1>10. \A q \in Proc : out <= entered[q]
  BY <1>3, <1>5
<1>11. entered[p] <= in /\ out <= in
  BY <1>1, <1>2, <1>4, <1>5, <1>10
<1> QED
  BY <1>1, <1>6, <1>7, <1>9, <1>10, <1>11, GoOn

\* Its returns, for which all have entered.
LEMMA LeaveSays ==
  ASSUME TypeInv, ExchangeInv, NEW p \in Proc,
         DetermineRecvProcs(p) \/ DetermineSendProcs(p)
  PROVE  Quiet /\ TypeInv' /\ ExchangeInv'
<1>1. PICK label \in {"contact", "pkg"} :
        /\ pc[p] = IF label = "contact" THEN "recvs" ELSE "sends"
        /\ pc' = [pc EXCEPT ![p] = label]
        /\ left[p] < entered[p] /\ \A q \in Proc : entered[q] >= entered[p]
        /\ left' = [left EXCEPT ![p] = @ + 1] /\ entered' = entered
        /\ UNCHANGED <<program, round, apart, rows_found, mail>>
  <2>1. CASE DetermineRecvProcs(p)
    BY <2>1 DEF DetermineRecvProcs, Goto, Ex!Leave, located
  <2>2. CASE DetermineSendProcs(p)
    BY <2>2 DEF DetermineSendProcs, Goto, Ex!Leave, located
  <2> QED
    BY <2>1, <2>2
<1>2. /\ pc \in [Proc -> Labels] /\ round[p] \in Int
      /\ entered \in [Proc -> Nat] /\ left \in [Proc -> Nat]
  BY ProgramAssumption DEF TypeInv
<1>3. /\ entered[p] = 2 * (round[p] - 1) + EnteredAt(pc[p])
      /\ left[p] = 2 * (round[p] - 1) + LeftAt(pc[p])
  BY DEF ExchangeInv
<1>4. PICK in \in Nat : in = entered[p]
  BY <1>2
<1>5. PICK out \in Nat : out = left[p] + 1
  BY <1>2
<1>6. entered' = [entered EXCEPT ![p] = in] /\ left' = [left EXCEPT ![p] = out]
  BY <1>1, <1>2, <1>4, <1>5
<1>7. label \in Labels \ Early /\ pc[p] \notin Early
  BY <1>1 DEF Labels, Early
<1>8. /\ EnteredAt(label) = EnteredAt(pc[p]) /\ LeftAt(label) = LeftAt(pc[p]) + 1
      /\ LeftAt(label) = EnteredAt(label)
      /\ EnteredAt(pc[p]) \in Nat /\ LeftAt(pc[p]) \in Nat
  BY <1>1 DEF EnteredAt, LeftAt
<1>9. in = 2 * (round[p] - 1) + EnteredAt(label) /\ out = 2 * (round[p] - 1) + LeftAt(label)
  BY <1>2, <1>3, <1>4, <1>5, <1>8
<1>10. out = in
  BY <1>8, <1>9
<1>11. \A q \in Proc : out <= entered[q]
  BY <1>1, <1>2, <1>4, <1>10
<1>12. entered[p] <= in /\ out <= in
  BY <1>2, <1>4, <1>10
<1>13. /\ pc' = [pc EXCEPT ![p] = label]
       /\ UNCHANGED <<program, round, apart, rows_found, mail>>
  BY <1>1
<1> QED
  BY <1>6, <1>7, <1>9, <1>11, <1>12, <1>13, GoOn

\* The products touch neither the exchanges nor the located rows.
LEMMA ProductSays ==
  ASSUME TypeInv, ExchangeInv, NEW p \in Proc, StartProduct(p) \/ FinishProduct(p)
  PROVE  Quiet /\ TypeInv' /\ ExchangeInv'
<1>1. PICK label \in {"product", "pkg"} :
        /\ pc[p] = IF label = "pkg" THEN "product" ELSE "pkg"
        /\ pc' = [pc EXCEPT ![p] = label]
        /\ UNCHANGED <<program, round, apart, rows_found, mail, entered, left>>
  <2>1. CASE StartProduct(p)
    BY <2>1 DEF StartProduct, Goto, located, exchange
  <2>2. CASE FinishProduct(p)
    BY <2>2 DEF FinishProduct, Goto, located, exchange
  <2> QED
    BY <2>1, <2>2
<1>2. /\ pc \in [Proc -> Labels] /\ round[p] \in Int
      /\ entered \in [Proc -> Nat] /\ left \in [Proc -> Nat]
  BY ProgramAssumption DEF TypeInv
<1>3. /\ entered[p] = 2 * (round[p] - 1) + EnteredAt(pc[p])
      /\ left[p] = 2 * (round[p] - 1) + LeftAt(pc[p])
      /\ \A q \in Proc : left[p] <= entered[q]
  BY DEF ExchangeInv
<1>4. PICK in \in Nat : in = entered[p]
  BY <1>2
<1>5. PICK out \in Nat : out = left[p]
  BY <1>2
<1>6. entered' = [entered EXCEPT ![p] = in] /\ left' = [left EXCEPT ![p] = out]
  BY <1>1, <1>2, <1>4, <1>5
<1>7. label \in Labels \ Early /\ pc[p] \notin Early
  BY <1>1 DEF Labels, Early
<1>8. EnteredAt(label) = EnteredAt(pc[p]) /\ LeftAt(label) = LeftAt(pc[p])
  BY <1>1 DEF EnteredAt, LeftAt
<1>9. in = 2 * (round[p] - 1) + EnteredAt(label) /\ out = 2 * (round[p] - 1) + LeftAt(label)
  BY <1>2, <1>3, <1>4, <1>5, <1>8
<1>10. \A q \in Proc : out <= entered[q]
  BY <1>3, <1>5
<1>11. entered[p] <= in /\ out <= in
  BY <1>1, <1>2, <1>4, <1>5, <1>10
<1> QED
  BY <1>1, <1>6, <1>7, <1>9, <1>10, <1>11, GoOn

\* Answers, and no step at all.
LEMMA StillSays ==
  ASSUME TypeInv, ExchangeInv,
         \/ \E c \in open : FillRanges(c) \/ FillSendProc(c)
         \/ UNCHANGED vars
  PROVE  Quiet /\ TypeInv' /\ ExchangeInv'
<1>1. UNCHANGED <<program, pc, round, apart, rows_found, mail, entered, left>>
  <2>1. ASSUME NEW c \in open, FillRanges(c)
        PROVE  UNCHANGED <<program, pc, round, apart, rows_found, mail, entered, left>>
    BY <2>1 DEF FillRanges, Ex!Answer, located
  <2>2. ASSUME NEW c \in open, FillSendProc(c)
        PROVE  UNCHANGED <<program, pc, round, apart, rows_found, mail, entered, left>>
    BY <2>2 DEF FillSendProc, Ex!Answer, located
  <2>3. ASSUME UNCHANGED vars
        PROVE  UNCHANGED <<program, pc, round, apart, rows_found, mail, entered, left>>
    BY <2>3 DEF vars, located, exchange
  <2> QED
    BY <2>1, <2>2, <2>3
<1> QED
  BY <1>1 DEF Quiet, TypeInv, ExchangeInv

\* Quiet steps change nothing that the located rows are about.
LEMMA QuietKeeps ==
  ASSUME MailInv, LocateInv, FoundInv, SettledInv, PartitionInv, Quiet
  PROVE  MailInv' /\ LocateInv' /\ FoundInv' /\ SettledInv' /\ PartitionInv'
<1>1. \A p \in Proc : /\ pc'[p] = "start" <=> pc[p] = "start"
                      /\ pc'[p] = "locate" <=> pc[p] = "locate"
                      /\ pc'[p] \in Early <=> pc[p] \in Early
  BY DEF Quiet, Early
<1>2. UNCHANGED <<program, round, apart, rows_found, mail>>
  BY DEF Quiet
<1>3. \A p \in Proc : A(p)' = A(p)
  BY <1>2 DEF A
<1>4. \A p, q \in Proc : Received(p, q)' <=> Received(p, q)
  BY <1>1, <1>2 DEF Received
<1>5. \A q \in Proc, p \in Proc : Sent(q, round[p])' <=> Sent(q, round[p])
  BY <1>1, <1>2 DEF Sent
<1>6. MailInv'
  BY <1>1, <1>2, <1>3, <1>4 DEF MailInv
<1>7. LocateInv'
  BY <1>1, <1>2, <1>3, <1>5 DEF LocateInv
<1>8. FoundInv'
  BY <1>1, <1>2 DEF FoundInv
<1>9. SettledInv'
  BY <1>1, <1>2, <1>3, <1>5 DEF SettledInv
<1>10. PartitionInv'
  BY <1>1, <1>2, <1>3 DEF PartitionInv
<1> QED
  BY <1>6, <1>7, <1>8, <1>9, <1>10

\* The first step of a round keeps the invariant.
LEMMA LocateKeeps ==
  ASSUME IInv, NEW p \in Proc, Locate(p)
  PROVE  IInv'
<1>1. /\ TypeInv /\ ExchangeInv /\ MailInv /\ LocateInv /\ FoundInv
      /\ SettledInv /\ PartitionInv
  BY DEF IInv
<1>2. /\ pc[p] = "start" /\ round[p] <= NumRounds /\ IsMatrix(A(p))
      /\ pc' = [pc EXCEPT ![p] = "locate"]
      /\ apart' = [apart EXCEPT ![p] = OwnPiece(p, ColStart(A(p), p), ColEnd(A(p), p))]
      /\ DOMAIN mail' = Proc \X Proc
      /\ \A q, r \in Proc : mail'[<<q, r>>] = IF q = p THEN mail[<<q, r>>] \o Message(A(p), p, r)
                                              ELSE mail[<<q, r>>]
      /\ UNCHANGED <<program, round, rows_found, entered, left>>
  BY <1>1, LocateSays
<1>3. PICK own : own = OwnPiece(p, ColStart(A(p), p), ColEnd(A(p), p))
  OBVIOUS
<1>4. /\ own \in Seq(Piece) /\ PiecesRight(A(p), p, own)
      /\ \A q \in Proc \ {p} : ~ Told(own, q)
      /\ Heard(A(p), p, own) = {}
  BY <1>2, <1>3, OwnPieceRight
<1>5. /\ pc \in [Proc -> Labels] /\ round \in [Proc -> Int]
      /\ apart \in [Proc -> Seq(Piece)] /\ rows_found \in [Proc -> Nat]
      /\ entered \in [Proc -> Nat] /\ left \in [Proc -> Nat]
  BY <1>1, ProgramAssumption DEF TypeInv
<1>6. \A q \in Proc : /\ pc'[q] = IF q = p THEN "locate" ELSE pc[q]
                      /\ apart'[q] = IF q = p THEN own ELSE apart[q]
  BY <1>2, <1>3, <1>5
<1>7. \A q \in Proc : A(q)' = A(q)
  BY <1>2 DEF A
<1>8. TypeInv'
  <2>1. pc' \in [Proc -> Labels] /\ apart' \in [Proc -> Seq(Piece)]
    BY <1>2, <1>3, <1>4, <1>5 DEF Labels
  <2>2. \A q \in Proc : pc'[q] # "start" => round[q] <= NumRounds
    BY <1>1, <1>2, <1>6 DEF TypeInv
  <2> QED
    BY <1>1, <1>2, <2>1, <2>2 DEF TypeInv
<1>9. ExchangeInv'
  <2>1. \A q \in Proc : EnteredAt(pc'[q]) = EnteredAt(pc[q]) /\ LeftAt(pc'[q]) = LeftAt(pc[q])
    BY <1>2, <1>6 DEF EnteredAt, LeftAt
  <2> QED
    BY <1>1, <1>2, <2>1 DEF ExchangeInv
<1>10. \A q, s \in Proc : Sent(q, round[s]) => Sent(q, round[s])'
  BY <1>2, <1>6 DEF Sent
<1>11. MailInv'
  <2> SUFFICES ASSUME NEW r \in Proc, NEW q \in Proc
               PROVE  mail'[<<q, r>>] = IF pc'[q] = "start" \/ Received(r, q)' THEN <<>>
                                        ELSE Message(A(q)', q, r)
    BY DEF MailInv
  <2>1. CASE q = p
    <3>1. mail[<<p, r>>] = <<>>
      BY <1>1, <1>2 DEF MailInv
    <3>2. <<>> \o Message(A(p), p, r) = Message(A(p), p, r)
      BY DEF Message
    <3>3. mail'[<<q, r>>] = Message(A(p), p, r)
      BY <1>2, <2>1, <3>1, <3>2
    <3>4. ASSUME Received(r, p)', r # p PROVE ~ Overlap(A(p), p, r)
      <4>1. round[r] <= round[p]
        BY <1>1, <1>2, NobodyAhead
      <4>2. /\ round[p] = round[r]
            /\ pc[r] \notin Early \/ (pc[r] = "locate" /\ Told(apart[r], p))
        BY <1>2, <1>5, <1>6, <3>4, <4>1 DEF Received
      <4>3. A(r) = A(p)
        BY <4>2 DEF A
      <4>4. ~ Sent(p, round[r])
        BY <1>2, <1>5, <4>2 DEF Sent
      <4>5. ~ (pc[r] = "locate" /\ Told(apart[r], p))
        BY <1>1, <3>4, <4>4 DEF LocateInv
      <4>6. pc[r] \notin Early
        BY <4>2, <4>5
      <4> QED
        BY <1>1, <3>4, <4>3, <4>4, <4>6 DEF SettledInv
    <3>5. Received(r, p)' => Message(A(p), p, r) = <<>>
      BY <3>4 DEF Message
    <3> QED
      BY <1>6, <1>7, <2>1, <3>3, <3>5
  <2>2. CASE q # p
    <3>1. Received(r, q)' <=> Received(r, q)
      <4>1. CASE r = p
        BY <1>2, <1>4, <1>6, <2>2, <4>1 DEF Received, Early
      <4>2. CASE r # p
        BY <1>2, <1>6, <4>2 DEF Received
      <4> QED
        BY <4>1, <4>2
    <3> QED
      BY <1>1, <1>2, <1>6, <1>7, <2>2, <3>1 DEF MailInv
  <2> QED
    BY <2>1, <2>2
<1>12. LocateInv'
  <2> SUFFICES ASSUME NEW r \in Proc, pc'[r] = "locate"
               PROVE  /\ PiecesRight(A(r)', r, apart'[r])
                      /\ \A q \in Proc \ {r} : Told(apart'[r], q) => Sent(q, round[r])'
                      /\ rows_found'[r] = Cardinality(Heard(A(r)', r, apart'[r]))
    BY DEF LocateInv
  <2>1. CASE r = p
    <3>1. rows_found[p] = 0
      BY <1>1, <1>2 DEF FoundInv
    <3>2. Cardinality({}) = 0
      BY FS_EmptySet
    <3> QED
      BY <1>2, <1>4, <1>6, <1>7, <2>1, <3>1, <3>2
  <2>2. CASE r # p
    BY <1>1, <1>2, <1>6, <1>7, <1>10, <2>2 DEF LocateInv
  <2> QED
    BY <2>1, <2>2
<1>13. FoundInv'
  BY <1>1, <1>2, <1>6 DEF FoundInv
<1>14. SettledInv'
  BY <1>1, <1>2, <1>6, <1>7, <1>10 DEF SettledInv, Early
<1>15. PartitionInv'
  BY <1>1, <1>6, <1>7 DEF PartitionInv, Early
<1> QED
  BY <1>8, <1>9, <1>11, <1>12, <1>13, <1>14, <1>15 DEF IInv

\* Each receive does.
LEMMA LocateRowsKeeps ==
  ASSUME IInv, NEW p \in Proc, LocateRows(p)
  PROVE  IInv'
<1>1. /\ TypeInv /\ ExchangeInv /\ MailInv /\ LocateInv /\ FoundInv
      /\ SettledInv /\ PartitionInv
  BY DEF IInv
<1>2. /\ pc[p] = "locate" /\ IsMatrix(A(p))
      /\ UNCHANGED <<program, pc, round, entered, left>>
  BY <1>1, LocateRowsSays
<1>3. PICK q \in Proc :
        /\ q # p /\ round[q] = round[p] /\ pc[q] # "start"
        /\ ~ Told(apart[p], q) /\ Overlap(A(p), q, p)
        /\ apart' = [apart EXCEPT ![p] = Append(apart[p], PieceFrom(A(p), q, p))]
        /\ rows_found' =
             [rows_found EXCEPT ![p] = rows_found[p] + RowsOf(PieceFrom(A(p), q, p))]
        /\ mail' = [mail EXCEPT ![<<q, p>>] = <<>>]
  BY <1>1, LocateRowsSays
<1>4. /\ apart \in [Proc -> Seq(Piece)] /\ rows_found \in [Proc -> Nat]
      /\ DOMAIN mail = Proc \X Proc
  BY <1>1 DEF TypeInv
<1>5. /\ PiecesRight(A(p), p, apart[p])
      /\ rows_found[p] = Cardinality(Heard(A(p), p, apart[p]))
  BY <1>1, <1>2 DEF LocateInv
<1>6. PICK piece : piece = PieceFrom(A(p), q, p)
  OBVIOUS
<1>7. PICK pieces : pieces = Append(apart[p], piece)
  OBVIOUS
<1>8. /\ pieces \in Seq(Piece) /\ PiecesRight(A(p), p, pieces)
      /\ \A r : Told(pieces, r) <=> Told(apart[p], r) \/ r = q
      /\ RowsOf(piece) \in Nat
      /\ Cardinality(Heard(A(p), p, pieces)) =
           Cardinality(Heard(A(p), p, apart[p])) + RowsOf(piece)
  <2>1. piece = [proc |-> q, start |-> Lo(A(p), q, p), end |-> Hi(A(p), q, p)]
    BY <1>6 DEF PieceFrom
  <2>2. apart[p] \in Seq(Piece)
    BY <1>4
  <2> QED
    BY <1>2, <1>3, <1>5, <1>7, <2>1, <2>2, NextPieceRight
<1>9. \A r \in Proc :
        /\ apart'[r] = IF r = p THEN pieces ELSE apart[r]
        /\ rows_found'[r] = IF r = p THEN rows_found[p] + RowsOf(piece) ELSE rows_found[r]
  BY <1>3, <1>4, <1>6, <1>7
<1>10. \A r \in Proc : A(r)' = A(r)
  BY <1>2 DEF A
<1>11. TypeInv'
  <2>1. rows_found[p] + RowsOf(piece) \in Nat
    BY <1>4, <1>8
  <2>2. apart' \in [Proc -> Seq(Piece)] /\ rows_found' \in [Proc -> Nat]
    BY <1>3, <1>4, <1>6, <1>7, <1>8, <2>1
  <2>3. DOMAIN mail' = Proc \X Proc
    BY <1>3, <1>4
  <2> QED
    BY <1>1, <1>2, <2>2, <2>3 DEF TypeInv
<1>12. ExchangeInv'
  BY <1>1, <1>2 DEF ExchangeInv
<1>13. \A r, s \in Proc : Sent(s, round[r])' <=> Sent(s, round[r])
  BY <1>2 DEF Sent
<1>14. MailInv'
  <2> SUFFICES ASSUME NEW r \in Proc, NEW s \in Proc
               PROVE  mail'[<<s, r>>] = IF pc'[s] = "start" \/ Received(r, s)' THEN <<>>
                                        ELSE Message(A(s)', s, r)
    BY DEF MailInv
  <2>1. CASE s = q /\ r = p
    <3>1. mail'[<<s, r>>] = <<>>
      BY <1>3, <1>4, <2>1
    <3>2. Received(r, s)'
      BY <1>2, <1>3, <1>8, <1>9, <2>1 DEF Received
    <3> QED
      BY <3>1, <3>2
  <2>2. CASE s # q \/ r # p
    <3>1. mail'[<<s, r>>] = mail[<<s, r>>]
      BY <1>3, <1>4, <2>2
    <3>2. Received(r, s)' <=> Received(r, s)
      BY <1>2, <1>8, <1>9, <2>2 DEF Received
    <3> QED
      BY <1>1, <1>2, <1>10, <3>1, <3>2 DEF MailInv
  <2> QED
    BY <2>1, <2>2
<1>15. LocateInv'
  <2> SUFFICES ASSUME NEW r \in Proc, pc'[r] = "locate"
               PROVE  /\ PiecesRight(A(r)', r, apart'[r])
                      /\ \A s \in Proc \ {r} : Told(apart'[r], s) => Sent(s, round[r])'
                      /\ rows_found'[r] = Cardinality(Heard(A(r)', r, apart'[r]))
    BY DEF LocateInv
  <2>1. CASE r = p
    <3>1. Sent(q, round[p])
      BY <1>3 DEF Sent
    <3>2. \A s \in Proc \ {p} : Told(pieces, s) => Sent(s, round[p])
      BY <1>1, <1>2, <1>8, <3>1 DEF LocateInv
    <3>3. apart'[p] = pieces /\ rows_found'[p] = rows_found[p] + RowsOf(piece)
      BY <1>9
    <3> QED
      BY <1>5, <1>8, <1>10, <1>13, <2>1, <3>2, <3>3
  <2>2. CASE r # p
    BY <1>1, <1>2, <1>9, <1>10, <1>13, <2>2 DEF LocateInv
  <2> QED
    BY <2>1, <2>2
<1>16. FoundInv'
  BY <1>1, <1>2, <1>9 DEF FoundInv
<1>17. SettledInv'
  BY <1>1, <1>2, <1>10, <1>13 DEF SettledInv
<1>18. PartitionInv'
  BY <1>1, <1>2, <1>9, <1>10 DEF PartitionInv, Early
<1> QED
  BY <1>11, <1>12, <1>14, <1>15, <1>16, <1>17, <1>18 DEF IInv

\* The sort does, after which the part of the process is complete.
LEMMA LocatedKeeps ==
  ASSUME IInv, NEW p \in Proc, Located(p)
  PROVE  IInv'
<1>1. /\ TypeInv /\ ExchangeInv /\ MailInv /\ LocateInv /\ FoundInv
      /\ SettledInv /\ PartitionInv
  BY DEF IInv
<1>2. /\ pc[p] = "locate" /\ IsMatrix(A(p)) /\ PiecesRight(A(p), p, apart[p])
      /\ Heard(A(p), p, apart[p]) = Needed(A(p), p)
      /\ \A q \in Proc \ {p} : Overlap(A(p), q, p) => Told(apart[p], q)
      /\ pc' = [pc EXCEPT ![p] = "partition"]
      /\ rows_found' = [rows_found EXCEPT ![p] = 0]
      /\ UNCHANGED <<program, round, mail, entered, left>>
  BY <1>1, LocatedSays
<1>3. PICK pieces \in SortsOf(apart[p]) : apart' = [apart EXCEPT ![p] = pieces]
  BY <1>1, LocatedSays
<1>4. /\ pc \in [Proc -> Labels] /\ apart \in [Proc -> Seq(Piece)]
      /\ rows_found \in [Proc -> Nat] /\ round \in [Proc -> Int]
  BY <1>1, ProgramAssumption DEF TypeInv
<1>5. pieces \in Seq(Piece) /\ PartitionOf(A(p), p, pieces)
  <2>1. apart[p] \in Seq(Piece)
    BY <1>4
  <2> QED
    BY <1>2, <1>3, <2>1, SortedRight
<1>6. \A r \in Proc :
        /\ pc'[r] = IF r = p THEN "partition" ELSE pc[r]
        /\ apart'[r] = IF r = p THEN pieces ELSE apart[r]
        /\ rows_found'[r] = IF r = p THEN 0 ELSE rows_found[r]
  BY <1>2, <1>3, <1>4
<1>7. \A r \in Proc : A(r)' = A(r)
  BY <1>2 DEF A
<1>8. TypeInv'
  <2>1. /\ pc' \in [Proc -> Labels] /\ apart' \in [Proc -> Seq(Piece)]
        /\ rows_found' \in [Proc -> Nat]
    BY <1>2, <1>3, <1>4, <1>5 DEF Labels
  <2>2. \A q \in Proc : pc'[q] # "start" => round[q] <= NumRounds
    BY <1>1, <1>2, <1>6 DEF TypeInv
  <2> QED
    BY <1>1, <1>2, <2>1, <2>2 DEF TypeInv
<1>9. ExchangeInv'
  <2>1. \A q \in Proc : EnteredAt(pc'[q]) = EnteredAt(pc[q]) /\ LeftAt(pc'[q]) = LeftAt(pc[q])
    BY <1>2, <1>6 DEF EnteredAt, LeftAt
  <2> QED
    BY <1>1, <1>2, <2>1 DEF ExchangeInv
<1>10. \A r, s \in Proc : Sent(s, round[r])' <=> Sent(s, round[r])
  BY <1>2, <1>6 DEF Sent
<1>11. MailInv'
  <2> SUFFICES ASSUME NEW r \in Proc, NEW s \in Proc
               PROVE  mail'[<<s, r>>] = IF pc'[s] = "start" \/ Received(r, s)' THEN <<>>
                                        ELSE Message(A(s)', s, r)
    BY DEF MailInv
  <2>1. pc'[s] = "start" <=> pc[s] = "start"
    BY <1>2, <1>6
  <2>2. mail[<<s, r>>] = IF pc[s] = "start" \/ Received(r, s) THEN <<>>
                         ELSE Message(A(s), s, r)
    BY <1>1 DEF MailInv
  <2>3. CASE r # p
    <3>1. Received(r, s)' <=> Received(r, s)
      BY <1>2, <1>6, <2>3 DEF Received
    <3> QED
      BY <1>2, <1>7, <2>1, <2>2, <3>1
  <2>4. CASE r = p
    <3>1. Received(p, s)' <=> round[s] < round[p] \/ round[s] = round[p]
      BY <1>2, <1>6 DEF Received, Early
    <3>2. Received(p, s) <=> \/ round[s] < round[p]
                             \/ round[s] = round[p] /\ Told(apart[p], s)
      BY <1>2 DEF Received, Early
    <3>3. ASSUME round[s] = round[p], ~ Told(apart[p], s)
          PROVE  Message(A(s), s, p) = <<>>
      <4>1. A(s) = A(p)
        BY <3>3 DEF A
      <4> QED
        BY <1>2, <3>3, <4>1 DEF Message
    <3> QED
      BY <1>2, <1>7, <2>1, <2>2, <2>4, <3>1, <3>2, <3>3
  <2> QED
    BY <2>3, <2>4
<1>12. LocateInv'
  BY <1>1, <1>2, <1>6, <1>7, <1>10 DEF LocateInv
<1>13. FoundInv'
  BY <1>1, <1>6 DEF FoundInv
<1>14. SettledInv'
  <2>1. \A q \in Proc \ {p} : Overlap(A(p), q, p) => Sent(q, round[p])
    BY <1>1, <1>2 DEF LocateInv
  <2> QED
    BY <1>1, <1>6, <1>7, <1>10, <2>1 DEF SettledInv
<1>15. PartitionInv'
  BY <1>1, <1>5, <1>6, <1>7 DEF PartitionInv
<1> QED
  BY <1>8, <1>9, <1>11, <1>12, <1>13, <1>14, <1>15 DEF IInv

\* The end of a round does: everybody has heard of the process by then.
LEMMA DestroyKeeps ==
  ASSUME IInv, NEW p \in Proc, Destroy(p)
  PROVE  IInv'
<1>1. /\ TypeInv /\ ExchangeInv /\ MailInv /\ LocateInv /\ FoundInv
      /\ SettledInv /\ PartitionInv
  BY DEF IInv
<1>2. /\ pc[p] = "pkg" /\ pc' = [pc EXCEPT ![p] = "start"]
      /\ round' = [round EXCEPT ![p] = round[p] + 1]
      /\ apart' = [apart EXCEPT ![p] = <<>>]
      /\ UNCHANGED <<program, rows_found, mail, entered, left>>
  BY DestroySays
<1>3. /\ pc \in [Proc -> Labels] /\ apart \in [Proc -> Seq(Piece)]
      /\ round \in [Proc -> 1 .. NumRounds + 1] /\ round \in [Proc -> Int]
      /\ entered \in [Proc -> Nat] /\ left \in [Proc -> Nat]
      /\ round[p] <= NumRounds
  BY <1>1, <1>2, ProgramAssumption DEF TypeInv
<1>4. PICK next \in Int : next = round[p] + 1
  BY <1>3
<1>5. next \in 1 .. NumRounds + 1
  <2>1. round[p] \in 1 .. NumRounds + 1
    BY <1>3
  <2> QED
    BY <1>3, <1>4, <2>1, ProgramAssumption
<1>6. \A r \in Proc :
        /\ pc'[r] = IF r = p THEN "start" ELSE pc[r]
        /\ round'[r] = IF r = p THEN next ELSE round[r]
        /\ apart'[r] = IF r = p THEN <<>> ELSE apart[r]
  BY <1>2, <1>3, <1>4
<1>7. \A r \in Proc \ {p} : A(r)' = A(r)
  BY <1>2, <1>6 DEF A
<1>8. \A r \in Proc :
        round[p] < round[r] \/ (round[p] = round[r] /\ pc[r] \notin Early)
  BY <1>1, <1>2, NobodyBehind
<1>9. TypeInv'
  <2>1. /\ pc' \in [Proc -> Labels] /\ round' \in [Proc -> 1 .. NumRounds + 1]
        /\ apart' \in [Proc -> Seq(Piece)]
    <3>1. "start" \in Labels /\ <<>> \in Seq(Piece)
      BY DEF Labels
    <3> QED
      BY <1>2, <1>3, <1>4, <1>5, <3>1
  <2>2. \A q \in Proc : pc'[q] # "start" => round'[q] <= NumRounds
    BY <1>1, <1>6 DEF TypeInv
  <2> QED
    BY <1>1, <1>2, <2>1, <2>2 DEF TypeInv
<1>10. ExchangeInv'
  <2>1. /\ entered[p] = 2 * (round[p] - 1) + EnteredAt(pc[p])
        /\ left[p] = 2 * (round[p] - 1) + LeftAt(pc[p])
        /\ \A q \in Proc : left[p] <= entered[q]
    BY <1>1 DEF ExchangeInv
  <2>2. /\ EnteredAt(pc[p]) = 2 /\ LeftAt(pc[p]) = 2
        /\ EnteredAt("start") = 0 /\ LeftAt("start") = 0
    BY <1>2 DEF EnteredAt, LeftAt
  <2>3. PICK in \in Nat : in = entered[p]
    BY <1>3
  <2>4. PICK out \in Nat : out = left[p]
    BY <1>3
  <2>5. /\ entered' = [entered EXCEPT ![p] = in] /\ left' = [left EXCEPT ![p] = out]
        /\ round' = [round EXCEPT ![p] = next]
    BY <1>2, <1>3, <1>4, <2>3, <2>4
  <2>6. round[p] \in Int
    BY <1>3
  <2>7. in = 2 * (next - 1) + EnteredAt("start") /\ out = 2 * (next - 1) + LeftAt("start")
    BY <1>4, <2>1, <2>2, <2>3, <2>4, <2>6
  <2>8. entered[p] <= in /\ out <= in /\ \A q \in Proc : out <= entered[q]
    BY <1>3, <2>1, <2>3, <2>4
  <2>9. PICK label \in Labels : label = "start"
    BY DEF Labels
  <2>10. /\ pc' = [pc EXCEPT ![p] = label]
         /\ in = 2 * (next - 1) + EnteredAt(label) /\ out = 2 * (next - 1) + LeftAt(label)
    BY <1>2, <2>7, <2>9
  <2>11. TypeInv /\ ExchangeInv
    BY <1>1
  <2> QED
    BY <2>5, <2>8, <2>10, <2>11, ExchangeStep
<1>11. MailInv'
  <2> SUFFICES ASSUME NEW r \in Proc, NEW s \in Proc
               PROVE  mail'[<<s, r>>] = IF pc'[s] = "start" \/ Received(r, s)' THEN <<>>
                                        ELSE Message(A(s)', s, r)
    BY DEF MailInv
  <2>1. mail[<<s, r>>] = IF pc[s] = "start" \/ Received(r, s) THEN <<>>
                         ELSE Message(A(s), s, r)
    BY <1>1 DEF MailInv
  <2>2. CASE s = p
    <3>1. Received(r, p)
      BY <1>8 DEF Received
    <3> QED
      BY <1>2, <1>6, <2>1, <2>2, <3>1
  <2>3. CASE s # p /\ r = p
    <3>1. round[s] \in Int /\ round[p] \in Int
      BY <1>3
    <3>2. Received(p, s)' <=> round[s] <= round[p]
      BY <1>4, <1>6, <2>3, <3>1 DEF Received, Early
    <3>3. Received(p, s) <=> round[s] <= round[p]
      BY <1>2, <3>1 DEF Received, Early
    <3> QED
      BY <1>2, <1>6, <1>7, <2>1, <2>3, <3>2, <3>3
  <2>4. CASE s # p /\ r # p
    <3>1. Received(r, s)' <=> Received(r, s)
      BY <1>6, <2>4 DEF Received
    <3> QED
      BY <1>2, <1>6, <1>7, <2>1, <2>4, <3>1
  <2> QED
    BY <2>2, <2>3, <2>4
<1>12. \A r \in Proc \ {p}, s \in Proc : Sent(s, round[r]) => Sent(s, round[r])'
  <2> SUFFICES ASSUME NEW r \in Proc \ {p}, NEW s \in Proc, Sent(s, round[r])
               PROVE  Sent(s, round[r])'
    OBVIOUS
  <2>1. CASE s = p
    <3>1. round[r] \in Int /\ round[p] \in Int /\ round[r] <= round[p]
      BY <1>3, <2>1 DEF Sent
    <3> QED
      BY <1>4, <1>6, <2>1, <3>1 DEF Sent
  <2>2. CASE s # p
    BY <1>6, <2>2 DEF Sent
  <2> QED
    BY <2>1, <2>2
<1>13. LocateInv'
  BY <1>1, <1>2, <1>6, <1>7, <1>12 DEF LocateInv
<1>14. FoundInv'
  BY <1>1, <1>2, <1>6 DEF FoundInv
<1>15. SettledInv'
  BY <1>1, <1>6, <1>7, <1>12 DEF SettledInv, Early
<1>16. PartitionInv'
  BY <1>1, <1>6, <1>7 DEF PartitionInv, Early
<1> QED
  BY <1>9, <1>10, <1>11, <1>13, <1>14, <1>15, <1>16 DEF IInv

-----------------------------------------------------------------------------
(* The theorem. *)

\* The invariant holds at the start.
LEMMA AtStart ==
  ASSUME Init
  PROVE  IInv
<1>1. /\ program \in Programs
      /\ pc = [p \in Proc |-> "start"] /\ round = [p \in Proc |-> 1]
      /\ apart = [p \in Proc |-> <<>>] /\ rows_found = [p \in Proc |-> 0]
      /\ mail = [c \in Proc \X Proc |-> <<>>]
      /\ entered = [p \in Proc |-> 0] /\ left = [p \in Proc |-> 0]
  BY DEF Init, Ex!Init
<1>2. TypeInv
  <2>1. 1 \in 1 .. NumRounds + 1
    BY ProgramAssumption
  <2> QED
    BY <1>1, <2>1 DEF TypeInv, Labels
<1>3. ExchangeInv
  BY <1>1 DEF ExchangeInv, EnteredAt, LeftAt
<1>4. MailInv /\ LocateInv /\ FoundInv /\ SettledInv /\ PartitionInv
  BY <1>1 DEF MailInv, LocateInv, FoundInv, SettledInv, PartitionInv, Early
<1> QED
  BY <1>2, <1>3, <1>4 DEF IInv

\* Every step keeps it.
LEMMA NextKeeps ==
  ASSUME IInv, [Next]_vars
  PROVE  IInv'
<1>1. ASSUME Quiet /\ TypeInv' /\ ExchangeInv' PROVE IInv'
  BY <1>1, QuietKeeps DEF IInv
<1>2. TypeInv /\ ExchangeInv
  BY DEF IInv
<1>3. ASSUME NEW p \in Proc, Step(p) PROVE IInv'
  <2>1. CASE Locate(p)
    BY <2>1, LocateKeeps
  <2>2. CASE LocateRows(p)
    BY <2>2, LocateRowsKeeps
  <2>3. CASE Located(p)
    BY <2>3, LocatedKeeps
  <2>4. CASE ContactAssumedOwners(p) \/ ContactRecvProcs(p)
    BY <1>1, <1>2, <2>4, CallSays
  <2>5. CASE DetermineRecvProcs(p) \/ DetermineSendProcs(p)
    BY <1>1, <1>2, <2>5, LeaveSays
  <2>6. CASE \E c \in open : FillRanges(c) \/ FillSendProc(c)
    BY <1>1, <1>2, <2>6, StillSays
  <2>7. CASE StartProduct(p) \/ FinishProduct(p)
    BY <1>1, <1>2, <2>7, ProductSays
  <2>8. CASE Destroy(p)
    BY <2>8, DestroyKeeps
  <2> QED
    BY <1>3, <2>1, <2>2, <2>3, <2>4, <2>5, <2>6, <2>7, <2>8 DEF Step
<1>4. CASE UNCHANGED vars
  BY <1>1, <1>2, <1>4, StillSays
<1> QED
  BY <1>3, <1>4 DEF Next, Finished

\* Of any number of processes and rows, and any matrices: when a process has located
\* its rows, its part of the assumed partition is cut into pieces in order, each with the
\* process that owns its rows (hypre_LocateAssummedPartition), although nothing keeps
\* the ranges of one matrix from those of the next.
THEOREM PartitionIsTrue == Spec => []PartitionTrue
<1>1. IInv => PartitionTrue
  BY DEF IInv, PartitionInv, PartitionOf, PartitionTrue, Early
<1> QED
  BY AtStart, NextKeeps, <1>1, PTL DEF Spec

-----------------------------------------------------------------------------
(* Numbers in order. *)

\* f lists the n members of S in order.
Lists(f, n, S) ==
  /\ n \in Nat /\ f \in [1 .. n -> S]
  /\ \A i, j \in 1 .. n : i < j => f[i] < f[j]
  /\ \A x \in S : \E i \in 1 .. n : f[i] = x

\* Sorted lists a set.
LEMMA SortedIs ==
  ASSUME NEW S \in SUBSET Int, IsFiniteSet(S)
  PROVE  Lists(Sorted(S), Cardinality(S), S)
<1> DEFINE upTo(x) == {m \in S : m <= x}
           T == 1 .. Cardinality(S)
           f == [x \in S |-> Cardinality(upTo(x))]
<1>1. Cardinality(S) \in Nat /\ IsFiniteSet(T) /\ Cardinality(T) = Cardinality(S)
  BY FS_CardinalityType, FS_Interval
<1>2. ASSUME NEW x \in S PROVE IsFiniteSet(upTo(x)) /\ Cardinality(upTo(x)) \in T
  <2>1. upTo(x) \in SUBSET S
    OBVIOUS
  <2>2. /\ IsFiniteSet(upTo(x)) /\ Cardinality(upTo(x)) \in Nat
        /\ Cardinality(upTo(x)) <= Cardinality(S)
    BY <2>1, FS_Subset, FS_CardinalityType
  <2>3. x \in upTo(x)
    OBVIOUS
  <2>4. Cardinality(upTo(x)) # 0
    BY <2>2, <2>3, FS_EmptySet
  <2> QED
    BY <1>1, <2>2, <2>4
<1>3. ASSUME NEW x \in S, NEW z \in S, x < z
      PROVE  Cardinality(upTo(x)) < Cardinality(upTo(z))
  <2>1. upTo(x) \in SUBSET upTo(z)
    <3>1. \A m \in upTo(x) : m \in upTo(z)
      BY <1>3
    <3> QED
      BY <3>1
  <2>2. z \in upTo(z) /\ z \notin upTo(x)
    BY <1>3
  <2>3. /\ IsFiniteSet(upTo(z)) /\ Cardinality(upTo(z)) \in Int
        /\ Cardinality(upTo(x)) \in Int
    BY <1>2
  <2> HIDE DEF upTo
  <2>4. Cardinality(upTo(x)) <= Cardinality(upTo(z))
        /\ (Cardinality(upTo(z)) = Cardinality(upTo(x)) => upTo(z) = upTo(x))
    BY <2>1, <2>3, FS_Subset
  <2> QED
    BY <2>2, <2>3, <2>4
<1>4. \A x, z \in S : Cardinality(upTo(x)) = Cardinality(upTo(z)) => x = z
  <2> SUFFICES ASSUME NEW x \in S, NEW z \in S,
                      Cardinality(upTo(x)) = Cardinality(upTo(z)), x # z
               PROVE  FALSE
    OBVIOUS
  <2>1. x < z \/ z < x
    OBVIOUS
  <2>2. Cardinality(upTo(x)) \in Int /\ Cardinality(upTo(z)) \in Int
    BY <1>2
  <2> HIDE DEF upTo
  <2> QED
    BY <2>1, <2>2, <1>3
<1>5. f \in Injection(S, T)
  BY <1>2, <1>4 DEF Injection, IsInjective
<1>6. f \in Surjection(S, T)
  BY <1>1, <1>5, FS_Injection
<1>7. \A i \in T : \E x \in S : Cardinality(upTo(x)) = i
  BY <1>6 DEF Surjection
<1>8. Sorted(S) = [i \in T |-> CHOOSE x \in S : Cardinality(upTo(x)) = i]
  BY DEF Sorted
<1>9. \A i \in T : Sorted(S)[i] \in S /\ Cardinality(upTo(Sorted(S)[i])) = i
  <2> HIDE DEF upTo, T
  <2> QED
    BY <1>7, <1>8
<1>10. Sorted(S) \in [T -> S]
  BY <1>8, <1>9
<1>11. ASSUME NEW i \in T, NEW j \in T, i < j PROVE Sorted(S)[i] < Sorted(S)[j]
  <2>1. Sorted(S)[i] \in S /\ Sorted(S)[j] \in S
    BY <1>9
  <2>2. PICK x \in S, z \in S : x = Sorted(S)[i] /\ z = Sorted(S)[j]
    BY <2>1
  <2>3. Cardinality(upTo(x)) = i /\ Cardinality(upTo(z)) = j
    BY <1>9, <2>2
  <2>4. x # z /\ ~ (z < x)
    BY <1>3, <1>11, <2>3
  <2> QED
    BY <2>2, <2>4
<1>12. ASSUME NEW x \in S PROVE \E i \in T : Sorted(S)[i] = x
  BY <1>2, <1>4, <1>9
<1> QED
  BY <1>1, <1>10, <1>11, <1>12 DEF Lists

\* A list of a set is Sorted, and the rank of the number at i is i.
LEMMA SortedUnique ==
  ASSUME NEW S \in SUBSET Int, NEW n, NEW f, Lists(f, n, S)
  PROVE  /\ IsFiniteSet(S) /\ Cardinality(S) = n /\ Sorted(S) = f
         /\ \A i \in 1 .. n : /\ IsFiniteSet({x \in S : x <= f[i]})
                              /\ Cardinality({x \in S : x <= f[i]}) = i
<1>1. /\ n \in Nat /\ f \in [1 .. n -> S]
      /\ \A i, j \in 1 .. n : i < j => f[i] < f[j]
      /\ \A x \in S : \E i \in 1 .. n : f[i] = x
  BY DEF Lists
<1> DEFINE upTo(x) == {m \in S : m <= x}
<1>2. \A i, j \in 1 .. n : f[i] \in Int /\ (f[i] <= f[j] <=> i <= j)
  <2> SUFFICES ASSUME NEW i \in 1 .. n, NEW j \in 1 .. n
               PROVE  f[i] \in Int /\ (f[i] <= f[j] <=> i <= j)
    OBVIOUS
  <2>1. f[i] \in Int /\ f[j] \in Int
    BY <1>1
  <2>2. (i < j => f[i] < f[j]) /\ (j < i => f[j] < f[i])
    BY <1>1
  <2> QED
    BY <2>1, <2>2
<1>3. \A i, j \in 1 .. n : f[i] = f[j] => i = j
  <2> SUFFICES ASSUME NEW i \in 1 .. n, NEW j \in 1 .. n, f[i] = f[j] PROVE i = j
    OBVIOUS
  <2>1. f[i] <= f[j] /\ f[j] <= f[i]
    BY <1>2
  <2>2. i <= j /\ j <= i
    BY <1>2, <2>1
  <2> QED
    BY <2>2
<1>4. IsFiniteSet(S) /\ Cardinality(S) = n
  <2>1. f \in Bijection(1 .. n, S)
    BY <1>1, <1>3 DEF Bijection, Injection, Surjection, IsInjective
  <2>2. ExistsBijection(1 .. n, S)
    BY <2>1 DEF ExistsBijection
  <2>3. IsFiniteSet(1 .. n)
    BY <1>1, FS_Interval
  <2> QED
    BY <1>1, <2>2, <2>3, FS_Bijection, FS_CountingElements
<1>5. ASSUME NEW i \in 1 .. n PROVE IsFiniteSet(upTo(f[i])) /\ Cardinality(upTo(f[i])) = i
  <2> DEFINE g == [j \in 1 .. i |-> f[j]]
  <2>1. 1 .. i \subseteq 1 .. n /\ i \in Nat
    BY <1>1
  <2>2. \A j \in 1 .. i : f[j] \in upTo(f[i])
    BY <1>1, <1>2, <2>1
  <2>3. \A x \in upTo(f[i]) : \E j \in 1 .. i : f[j] = x
    <3> SUFFICES ASSUME NEW x \in upTo(f[i]) PROVE \E j \in 1 .. i : f[j] = x
      OBVIOUS
    <3>1. PICK j \in 1 .. n : f[j] = x
      BY <1>1
    <3>2. j <= i
      BY <1>2, <3>1
    <3> QED
      BY <3>1, <3>2
  <2>4. \A j, k \in 1 .. i : f[j] = f[k] => j = k
    BY <1>3, <2>1
  <2>5. g \in Bijection(1 .. i, upTo(f[i]))
    <3> HIDE DEF upTo
    <3> QED
      BY <2>2, <2>3, <2>4 DEF Bijection, Injection, Surjection, IsInjective
  <2>6. ExistsBijection(1 .. i, upTo(f[i]))
    BY <2>5 DEF ExistsBijection
  <2>7. IsFiniteSet(upTo(f[i]))
    BY <1>4, FS_Subset
  <2> QED
    BY <2>1, <2>6, <2>7, FS_CountingElements
<1>6. \A i \in 1 .. n : f[i] \in S /\ Cardinality(upTo(f[i])) = i
  BY <1>1, <1>5
<1>7. \A i \in 1 .. n : (CHOOSE x \in S : Cardinality(upTo(x)) = i) = f[i]
  <2> SUFFICES ASSUME NEW i \in 1 .. n
               PROVE  (CHOOSE x \in S : Cardinality(upTo(x)) = i) = f[i]
    OBVIOUS
  <2>1. \A x \in S : Cardinality(upTo(x)) = i => x = f[i]
    BY <1>1, <1>6
  <2> HIDE DEF upTo
  <2> QED
    BY <1>6, <2>1
<1>8. Sorted(S) = f
  <2>1. Sorted(S) = [i \in 1 .. n |-> CHOOSE x \in S : Cardinality(upTo(x)) = i]
    BY <1>4 DEF Sorted
  <2> HIDE DEF upTo
  <2>2. Sorted(S) = [i \in 1 .. n |-> f[i]]
    BY <1>7, <2>1
  <2> QED
    BY <1>1, <2>2
<1> QED
  BY <1>4, <1>5, <1>8

\* A set of natural numbers up to n has a greatest one.
LEMMA Greatest ==
  ASSUME NEW n \in Nat, NEW S \in SUBSET (1 .. n), S # {}
  PROVE  \E x \in S : \A z \in S : z <= x
<1> DEFINE T == {n - x : x \in S}
<1>1. T \in SUBSET Nat /\ T # {}
  <2>1. \A x \in S : n - x \in Nat
    OBVIOUS
  <2>2. PICK x \in S : TRUE
    OBVIOUS
  <2>3. n - x \in T
    OBVIOUS
  <2> QED
    BY <2>1, <2>3
<1>2. PICK t \in T : \A u \in T : t <= u
  BY <1>1, Least, Zenon
<1>3. PICK x \in S : t = n - x
  BY <1>2
<1>4. ASSUME NEW z \in S PROVE z <= x
  <2>1. t <= n - z
    BY <1>2
  <2> QED
    BY <2>1, <1>3
<1> QED
  BY <1>4

\* Where a function that never falls rises, and the runs between.
Rises(n, t) == {i \in 1 .. n : i > 1 => t[i - 1] < t[i]}
RunFrom(n, S, i) == {j \in 1 .. n : \A s \in S : s > i => j < s}

\* The runs of a row of numbers that does not fall: where each ends, and that they are
\* in order and all there is.
LEMMA Runs ==
  ASSUME NEW n \in Nat, NEW t \in [1 .. n -> Int],
         \A i, j \in 1 .. n : i <= j => t[i] <= t[j]
  PROVE  /\ \A i \in Rises(n, t) :
              /\ Max(RunFrom(n, Rises(n, t), i)) \in 1 .. n
              /\ \A j \in 1 .. n :
                   t[j] = t[i] <=> i <= j /\ j <= Max(RunFrom(n, Rises(n, t), i))
         /\ \A i, j \in Rises(n, t) : i < j => t[i] < t[j]
         /\ \A j \in 1 .. n : \E i \in Rises(n, t) : t[i] = t[j]
<1> DEFINE S == Rises(n, t)
<1>1. S \in SUBSET (1 .. n) /\ \A i \in S : i > 1 => t[i - 1] < t[i]
  BY DEF Rises
<1>2. ASSUME NEW i \in S, NEW j \in 1 .. n, j < i PROVE t[j] < t[i]
  <2>1. i \in 1 .. n /\ i > 1 /\ i - 1 \in 1 .. n /\ j <= i - 1
    BY <1>1, <1>2
  <2>2. t[i - 1] < t[i] /\ t[j] <= t[i - 1]
    BY <1>1, <2>1
  <2>3. t[i - 1] \in Int /\ t[i] \in Int /\ t[j] \in Int
    BY <2>1
  <2> QED
    BY <2>2, <2>3
<1>3. ASSUME NEW j \in 1 .. n PROVE \E i \in S : t[i] = t[j]
  <2> DEFINE E == {i \in 1 .. n : t[i] = t[j]}
  <2>1. E \in SUBSET Nat /\ E # {}
    OBVIOUS
  <2>2. PICK i \in E : \A k \in E : i <= k
    <3> HIDE DEF E
    <3> QED
      BY <2>1, Least, Zenon
  <2>3. i \in 1 .. n /\ t[i] = t[j]
    BY <2>2
  <2>4. i > 1 => t[i - 1] < t[i]
    <3> SUFFICES ASSUME i > 1 PROVE t[i - 1] < t[i]
      OBVIOUS
    <3>1. i - 1 \in 1 .. n /\ ~ (i <= i - 1)
      BY <2>3
    <3>2. t[i - 1] # t[i]
      BY <2>2, <2>3, <3>1
    <3>3. t[i - 1] <= t[i] /\ t[i - 1] \in Int /\ t[i] \in Int
      BY <2>3, <3>1
    <3> QED
      BY <3>2, <3>3
  <2>5. i \in S
    BY <2>3, <2>4 DEF Rises
  <2> QED
    BY <2>3, <2>5
<1>4. ASSUME NEW i \in S
      PROVE  /\ Max(RunFrom(n, S, i)) \in 1 .. n
             /\ \A j \in 1 .. n :
                  t[j] = t[i] <=> i <= j /\ j <= Max(RunFrom(n, S, i))
  <2> DEFINE L == RunFrom(n, S, i)
  <2>1. i \in 1 .. n
    BY <1>1
  <2>2. L \in SUBSET (1 .. n) /\ i \in L
    BY <2>1, <1>1 DEF RunFrom
  <2>3. PICK m \in L : \A z \in L : z <= m
    <3> HIDE DEF L, S
    <3> QED
      BY <2>2, Greatest, Zenon
  <2>4. Max(L) = m
    <3>1. L \in SUBSET Int /\ \A z \in L : m >= z
      BY <2>2, <2>3
    <3> HIDE DEF L, S
    <3> QED
      BY <3>1, <2>3, MaxIs
  <2>5. m \in 1 .. n /\ i <= m /\ \A s \in S : s > i => m < s
    BY <2>2, <2>3 DEF RunFrom
  <2>6. ASSUME NEW j \in 1 .. n, i <= j, j <= m PROVE t[j] = t[i]
    <3>1. SUFFICES ASSUME t[j] # t[i] PROVE FALSE
      OBVIOUS
    <3>2. PICK s \in S : t[s] = t[j]
      BY <1>3
    <3>3. s \in 1 .. n /\ s <= j
      <4>1. s \in 1 .. n
        BY <1>1
      <4>2. ~ (j < s)
        <5>1. j < s => t[j] < t[s]
          BY <1>2
        <5>2. t[j] \in Int
          OBVIOUS
        <5> QED
          BY <5>1, <5>2, <3>2
      <4> QED
        BY <4>1, <4>2
    <3>4. ~ (s > i)
      BY <2>5, <2>6, <3>3
    <3>5. s <= i /\ t[s] <= t[i] /\ t[i] <= t[j]
      BY <2>1, <2>6, <3>3, <3>4
    <3>6. t[i] \in Int /\ t[j] \in Int
      BY <2>1
    <3> QED
      BY <3>1, <3>2, <3>5, <3>6
  <2>7. ASSUME NEW j \in 1 .. n, m < j PROVE t[i] < t[j]
    <3>1. j \notin L
      BY <2>3, <2>5, <2>7
    <3>2. PICK s \in S : s > i /\ s <= j
      BY <1>1, <3>1 DEF RunFrom
    <3>3. s \in 1 .. n /\ t[i] < t[s] /\ t[s] <= t[j]
      BY <1>1, <1>2, <2>1, <3>2
    <3>4. t[i] \in Int /\ t[s] \in Int /\ t[j] \in Int
      BY <2>1, <3>3
    <3> QED
      BY <3>3, <3>4
  <2>8. ASSUME NEW j \in 1 .. n PROVE t[j] = t[i] <=> i <= j /\ j <= m
    <3>1. t[j] \in Int /\ t[i] \in Int
      BY <2>1
    <3>2. j < i => t[j] < t[i]
      BY <1>2
    <3> QED
      BY <2>1, <2>5, <2>6, <2>7, <3>1, <3>2
  <2> QED
    BY <2>4, <2>5, <2>8
<1>5. \A i, j \in S : i < j => t[i] < t[j]
  BY <1>1, <1>2
<1> QED
  BY <1>3, <1>4, <1>5

\* The process that is assumed for a row does not fall with the rows.
LEMMA ProcOrder ==
  /\ \A row \in Row : ProcFromRow(row) \in Proc /\ ProcFromRow(row) \in Int
  /\ \A c, d \in Row : c <= d => ProcFromRow(c) <= ProcFromRow(d)
  /\ \A c, d \in Row : d > RowEnd(ProcFromRow(c)) <=> ProcFromRow(c) < ProcFromRow(d)
<1>1. \A row \in Row : /\ ProcFromRow(row) \in Proc /\ ProcFromRow(row) \in Int /\ row \in Int
                       /\ RowStart(ProcFromRow(row)) <= row
                       /\ row <= RowEnd(ProcFromRow(row))
                       /\ RowStart(ProcFromRow(row)) \in Int
                       /\ RowEnd(ProcFromRow(row)) \in Int
  <2> SUFFICES ASSUME NEW row \in Row
               PROVE  /\ ProcFromRow(row) \in Proc /\ ProcFromRow(row) \in Int /\ row \in Int
                      /\ RowStart(ProcFromRow(row)) <= row
                      /\ row <= RowEnd(ProcFromRow(row))
                      /\ RowStart(ProcFromRow(row)) \in Int
                      /\ RowEnd(ProcFromRow(row)) \in Int
    OBVIOUS
  <2>1. ProcFromRow(row) \in Proc
    BY InverseOf
  <2>2. row \in RowStart(ProcFromRow(row)) .. RowEnd(ProcFromRow(row))
    BY <2>1, InverseOf
  <2>3. ProcFromRow(row) \in Nat /\ row \in Int
    BY <2>1, PartitionAssumption DEF Proc, Row
  <2>4. RowStart(ProcFromRow(row)) \in Int /\ RowEnd(ProcFromRow(row)) \in Int
    BY <2>1, AssumedRange
  <2> QED
    BY <2>1, <2>2, <2>3, <2>4
<1>2. ASSUME NEW c \in Row, NEW d \in Row, ProcFromRow(c) < ProcFromRow(d)
      PROVE  c < d /\ d > RowEnd(ProcFromRow(c))
  <2>1. RowEnd(ProcFromRow(c)) < RowStart(ProcFromRow(d))
    BY <1>1, <1>2, Ascending
  <2> QED
    BY <1>1, <2>1
<1>3. ASSUME NEW c \in Row, NEW d \in Row, c <= d PROVE ProcFromRow(c) <= ProcFromRow(d)
  <2>1. ~ (ProcFromRow(d) < ProcFromRow(c))
    <3>1. ~ (d < c)
      BY <1>1, <1>3
    <3> QED
      BY <1>2, <3>1
  <2> QED
    BY <1>1, <2>1
<1>4. ASSUME NEW c \in Row, NEW d \in Row, d > RowEnd(ProcFromRow(c))
      PROVE  ProcFromRow(c) < ProcFromRow(d)
  <2>1. c < d
    BY <1>1, <1>4
  <2>2. ProcFromRow(c) <= ProcFromRow(d)
    BY <1>1, <1>3, <2>1
  <2>3. ProcFromRow(c) # ProcFromRow(d)
    BY <1>1, <1>4
  <2> QED
    BY <1>1, <2>2, <2>3
<1> QED
  BY <1>1, <1>2, <1>3, <1>4

\* One contact of each process that is assumed for some of the columns C, in order, each
\* from the first to the last column that it is assumed for.
ContactRight(C, contact) ==
  /\ contact.to \in Proc /\ contact.buf[1] \in C /\ contact.buf[2] \in C
  /\ contact.buf[1] <= contact.buf[2]
  /\ ProcFromRow(contact.buf[1]) = contact.to /\ ProcFromRow(contact.buf[2]) = contact.to
  /\ \A c \in C : ProcFromRow(c) = contact.to => contact.buf[1] <= c /\ c <= contact.buf[2]
ContactsRight(C, list) ==
  /\ \A k \in DOMAIN list : ContactRight(C, list[k])
  /\ \A j, k \in DOMAIN list : j < k => list[j].to < list[k].to
  /\ \A c \in C : \E k \in DOMAIN list : list[k].to = ProcFromRow(c)

\* The list of contacts that hypre_NewCommPkgCreate_core makes is such.
LEMMA ContactListRight ==
  ASSUME NEW C \in SUBSET Row
  PROVE  /\ \E n \in Nat : DOMAIN RangeContactList(Sorted(C)) = 1 .. n
         /\ ContactsRight(C, RangeContactList(Sorted(C)))
<1> DEFINE n == Cardinality(C)
           cols == Sorted(C)
           t == [i \in 1 .. n |-> ProcFromRow(cols[i])]
           S == Rises(n, t)
           list == RangeContactList(cols)
<1>1. C \in SUBSET Int /\ IsFiniteSet(C)
  <2>1. IsFiniteSet(Row) /\ Row \subseteq Int
    BY FS_Interval, PartitionAssumption DEF Row
  <2> QED
    BY <2>1, FS_Subset
<1>2. /\ n \in Nat /\ cols \in [1 .. n -> C]
      /\ \A i, j \in 1 .. n : i < j => cols[i] < cols[j]
      /\ \A x \in C : \E i \in 1 .. n : cols[i] = x
  BY <1>1, SortedIs DEF Lists
<1>3. \A i \in 1 .. n : cols[i] \in C /\ cols[i] \in Row /\ cols[i] \in Int
  BY <1>1, <1>2
<1> HIDE DEF n, cols
<1>4. \A i, j \in 1 .. n : i <= j => cols[i] <= cols[j]
  <2> SUFFICES ASSUME NEW i \in 1 .. n, NEW j \in 1 .. n, i <= j PROVE cols[i] <= cols[j]
    OBVIOUS
  <2>1. i < j => cols[i] < cols[j]
    BY <1>2
  <2>2. i = j => cols[i] = cols[j]
    OBVIOUS
  <2>3. cols[i] \in Int /\ cols[j] \in Int
    BY <1>3
  <2> QED
    BY <2>1, <2>2, <2>3
<1>5. /\ t \in [1 .. n -> Int]
      /\ \A i, j \in 1 .. n : i <= j => t[i] <= t[j]
  BY <1>3, <1>4, ProcOrder
<1>6. /\ \A i \in S : /\ Max(RunFrom(n, S, i)) \in 1 .. n
                      /\ \A j \in 1 .. n :
                           t[j] = t[i] <=> i <= j /\ j <= Max(RunFrom(n, S, i))
      /\ \A i, j \in S : i < j => t[i] < t[j]
      /\ \A j \in 1 .. n : \E i \in S : t[i] = t[j]
  <2> HIDE DEF t
  <2> QED
    BY <1>2, <1>5, Runs
<1>7. DOMAIN cols = 1 .. n
  BY <1>2
<1>8. S = {i \in DOMAIN cols : i > 1 => cols[i] > RowEnd(ProcFromRow(cols[i - 1]))}
  <2> SUFFICES ASSUME NEW i \in 1 .. n, i > 1
               PROVE  t[i - 1] < t[i] <=> cols[i] > RowEnd(ProcFromRow(cols[i - 1]))
    BY <1>7 DEF Rises
  <2>1. i - 1 \in 1 .. n
    BY <1>2
  <2>2. cols[i - 1] \in Row /\ cols[i] \in Row
    BY <1>3, <2>1
  <2>3. t[i - 1] = ProcFromRow(cols[i - 1]) /\ t[i] = ProcFromRow(cols[i])
    BY <2>1
  <2> QED
    BY <2>2, <2>3, ProcOrder
<1> DEFINE last(i) == Max(RunFrom(n, S, i))
           contact(i) == [to |-> ProcFromRow(cols[i]), buf |-> <<cols[i], cols[last(i)]>>]
<1>9. list = [k \in 1 .. Cardinality(S) |-> contact(Sorted(S)[k])]
  BY <1>7, <1>8, Zenon DEF RangeContactList, RunFrom
<1>10. S \in SUBSET Int /\ IsFiniteSet(S) /\ S \in SUBSET (1 .. n)
  <2>1. S \in SUBSET (1 .. n) /\ IsFiniteSet(1 .. n)
    BY <1>2, FS_Interval DEF Rises
  <2> HIDE DEF S
  <2>2. IsFiniteSet(S)
    BY <2>1, FS_Subset
  <2> QED
    BY <2>1, <2>2
<1>11. /\ Cardinality(S) \in Nat
       /\ \A k \in 1 .. Cardinality(S) : Sorted(S)[k] \in S
       /\ \A j, k \in 1 .. Cardinality(S) : j < k => Sorted(S)[j] < Sorted(S)[k]
       /\ \A i \in S : \E k \in 1 .. Cardinality(S) : Sorted(S)[k] = i
  <2> HIDE DEF S
  <2> QED
    BY <1>10, SortedIs DEF Lists
<1>12. \A i \in 1 .. n : t[i] = ProcFromRow(cols[i])
  OBVIOUS
<1> HIDE DEF t, S, list
<1>13. ASSUME NEW i \in S PROVE ContactRight(C, contact(i))
  <2>1. i \in 1 .. n /\ last(i) \in 1 .. n
    BY <1>6, <1>10
  <2>2. t[i] = t[i] /\ i <= last(i)
    BY <1>6, <2>1
  <2>3. t[last(i)] = t[i]
    BY <1>6, <2>1, <2>2
  <2>4. cols[i] <= cols[last(i)]
    BY <1>4, <2>1, <2>2
  <2>5. ASSUME NEW c \in C, ProcFromRow(c) = ProcFromRow(cols[i])
        PROVE  cols[i] <= c /\ c <= cols[last(i)]
    <3>1. PICK j \in 1 .. n : cols[j] = c
      BY <1>2
    <3>2. t[j] = t[i]
      BY <1>12, <2>1, <2>5, <3>1
    <3>3. i <= j /\ j <= last(i)
      BY <1>6, <3>2
    <3> QED
      BY <1>4, <2>1, <3>1, <3>3
  <2>6. /\ cols[i] \in C /\ cols[last(i)] \in C /\ ProcFromRow(cols[i]) \in Proc
        /\ ProcFromRow(cols[last(i)]) = ProcFromRow(cols[i])
    BY <1>3, <1>12, <2>1, <2>3, ProcOrder
  <2> HIDE DEF last
  <2> QED
    BY <2>4, <2>5, <2>6 DEF ContactRight
<1>14. \A k \in DOMAIN list : /\ list[k] = contact(Sorted(S)[k]) /\ Sorted(S)[k] \in S
                              /\ list[k].to = t[Sorted(S)[k]]
  BY <1>9, <1>10, <1>11, <1>12
<1>15. \A k \in DOMAIN list : ContactRight(C, list[k])
  <2> HIDE DEF contact
  <2> QED
    BY <1>13, <1>14
<1>16. ASSUME NEW j \in DOMAIN list, NEW k \in DOMAIN list, j < k
       PROVE  list[j].to < list[k].to
  <2>1. Sorted(S)[j] < Sorted(S)[k] /\ Sorted(S)[j] \in S /\ Sorted(S)[k] \in S
    BY <1>9, <1>11, <1>16
  <2>2. t[Sorted(S)[j]] < t[Sorted(S)[k]]
    BY <1>6, <2>1
  <2> QED
    BY <1>14, <2>2
<1>17. ASSUME NEW c \in C PROVE \E k \in DOMAIN list : list[k].to = ProcFromRow(c)
  <2>1. PICK j \in 1 .. n : cols[j] = c
    BY <1>2
  <2>2. PICK i \in S : t[i] = t[j]
    BY <1>6
  <2>3. PICK k \in 1 .. Cardinality(S) : Sorted(S)[k] = i
    BY <1>11
  <2>4. k \in DOMAIN list
    BY <1>9
  <2> QED
    BY <1>12, <1>14, <2>1, <2>2, <2>3, <2>4
<1>18. DOMAIN list = 1 .. Cardinality(S)
  BY <1>9
<1> QED
  BY <1>11, <1>15, <1>16, <1>17, <1>18 DEF ContactsRight, list, cols

-----------------------------------------------------------------------------
(* The answers to the contacts. *)

Range_ == [proc : Proc, bound : Int]

\* Ranges that end at their bounds, in order, each with the process that has the numbers
\* from S in it in matrix B.
RangesRight(B, S, ranges) ==
  /\ ranges \in Seq(Range_)
  /\ \A j, k \in 1 .. Len(ranges) : j < k => ranges[j].bound < ranges[k].bound
  /\ \A c \in S : \E k \in 1 .. Len(ranges) :
       /\ c <= ranges[k].bound /\ c \in Own(B, ranges[k].proc)
       /\ \A j \in 1 .. k - 1 : ranges[j].bound < c

\* The answer to a contact: ranges of the rows that its receiver is assumed for.
AnswerRight(B, contact, ranges) ==
  /\ RangesRight(B, contact.buf[1] .. contact.buf[2], ranges)
  /\ \A k \in 1 .. Len(ranges) : /\ RowStart(contact.to) <= ranges[k].bound
                                 /\ ranges[k].bound <= RowEnd(contact.to)

\* hypre_RangeFillResponseIJDetermineRecvProcs answers from a true part of the assumed
\* partition.
LEMMA ResponseRight ==
  ASSUME NEW B, NEW p \in Proc, NEW pieces \in Seq(Piece), PartitionOf(B, p, pieces),
         NEW contact, contact.to = p, NEW b \in Int, NEW d \in Int,
         contact.buf[1] = b, contact.buf[2] = d,
         RowStart(p) <= b, b <= d, d <= RowEnd(p)
  PROVE  AnswerRight(B, contact, RangeResponse(pieces, contact.buf))
<1> DEFINE n == Len(pieces)
           first == Min({j \in DOMAIN pieces : pieces[j].end >= b})
           last == Min({j \in first .. n : pieces[j].end >= d \/ j = n})
           r == RangeResponse(pieces, contact.buf)
<1>1. /\ n \in Nat /\ DOMAIN pieces = 1 .. n
      /\ RowStart(p) \in Int /\ RowEnd(p) \in Int
      /\ \A k \in 1 .. n : /\ pieces[k].proc \in Proc /\ pieces[k].start \in Int
                           /\ pieces[k].end \in Int
  <2>1. n \in Nat /\ DOMAIN pieces = 1 .. n /\ \A k \in 1 .. n : pieces[k] \in Piece
    OBVIOUS
  <2>2. RowStart(p) \in Int /\ RowEnd(p) \in Int
    BY AssumedRange
  <2> HIDE DEF n
  <2> QED
    BY <2>1, <2>2 DEF Piece
<1>2. /\ \A k \in 1 .. n : pieces[k].start <= pieces[k].end
      /\ \A k \in 1 .. n : pieces[k].start .. pieces[k].end \subseteq Own(B, pieces[k].proc)
      /\ \A k \in 1 .. n :
           pieces[k].start = IF k = 1 THEN RowStart(p) ELSE pieces[k - 1].end + 1
      /\ n > 0 => pieces[n].end = RowEnd(p)
      /\ n = 0 => RowEnd(p) < RowStart(p)
  BY <1>1 DEF PartitionOf
<1>3. n > 0 /\ n \in 1 .. n /\ pieces[n].end = RowEnd(p)
  BY <1>1, <1>2
<1>4. r = [k \in 1 .. last - first + 1 |->
             [proc |-> pieces[first + k - 1].proc, bound |-> pieces[first + k - 1].end]]
  BY Zenon DEF RangeResponse
<1> HIDE DEF n, r
<1>5. \A j, k \in 1 .. n : j <= k => pieces[j].end <= pieces[k].end
  <2> SUFFICES ASSUME NEW j \in 1 .. n, NEW k \in 1 .. n, j <= k
               PROVE  pieces[j].end <= pieces[k].end
    OBVIOUS
  <2> DEFINE f == [i \in 0 .. n |-> IF i = 0 THEN RowStart(p) - 1 ELSE pieces[i].end]
  <2>1. f \in [0 .. n -> Int]
    BY <1>1
  <2>2. ASSUME NEW i \in 0 .. n - 1 PROVE f[i] <= f[i + 1]
    <3>1. i + 1 \in 1 .. n /\ i \in 0 .. n /\ i + 1 \in 0 .. n
      BY <1>1
    <3>2. /\ pieces[i + 1].start <= pieces[i + 1].end
          /\ pieces[i + 1].start = IF i + 1 = 1 THEN RowStart(p) ELSE pieces[i + 1 - 1].end + 1
      BY <1>2, <3>1
    <3>3. i + 1 - 1 = i /\ f[i + 1] = pieces[i + 1].end
      BY <3>1
    <3>4. pieces[i + 1].end \in Int /\ pieces[i + 1].start \in Int
      BY <1>1, <3>1
    <3>5. CASE i = 0
      BY <1>1, <3>2, <3>3, <3>4, <3>5
    <3>6. CASE i # 0
      <4>1. f[i] = pieces[i].end /\ pieces[i].end \in Int
        BY <1>1, <3>1, <3>6
      <4> QED
        BY SMTT(20), <3>2, <3>3, <3>4, <3>6, <4>1
    <3> QED
      BY <3>5, <3>6
  <2>3. j \in 0 .. n /\ k \in 0 .. n
    BY <1>1
  <2>4. f[j] = pieces[j].end /\ f[k] = pieces[k].end
    BY <2>3
  <2> HIDE DEF f
  <2>5. f[j] <= f[k]
    BY <1>1, <2>1, <2>2, <2>3, Rising
  <2> QED
    BY <2>4, <2>5
<1>6. ASSUME NEW j \in 1 .. n, NEW k \in 1 .. n, j < k PROVE pieces[j].end < pieces[k].end
  <2>1. k - 1 \in 1 .. n /\ j <= k - 1 /\ k # 1
    BY <1>1, <1>6
  <2>2. pieces[k].start = pieces[k - 1].end + 1 /\ pieces[k].start <= pieces[k].end
    BY <1>2, <2>1
  <2>3. pieces[j].end <= pieces[k - 1].end
    BY <1>5, <2>1
  <2>4. /\ pieces[j].end \in Int /\ pieces[k - 1].end \in Int
        /\ pieces[k].start \in Int /\ pieces[k].end \in Int
    BY <1>1, <2>1
  <2> QED
    BY SMTT(20), <2>2, <2>3, <2>4
<1>7. \A c \in b .. d : c <= pieces[n].end
  BY <1>1, <1>3
<1>8. ASSUME NEW c \in Int, c <= pieces[n].end, NEW m \in 1 .. n
      PROVE  \E j \in {i \in m .. n : pieces[i].end >= c} :
                 \A i \in {k \in m .. n : pieces[k].end >= c} : j <= i
  <2> DEFINE E == {i \in m .. n : pieces[i].end >= c}
  <2>1. n \in E
    BY <1>1, <1>3, <1>8
  <2>2. E \in SUBSET Nat /\ E # {}
    BY SMTT(20), <1>1, <2>1
  <2> HIDE DEF E
  <2>3. \E j \in E : \A i \in E : j <= i
    BY <2>2, Least, Zenon
  <2> QED
    BY <2>3 DEF E
<1>9. /\ first \in 1 .. n /\ pieces[first].end >= b
      /\ \A i \in 1 .. n : pieces[i].end >= b => first <= i
  <2> DEFINE E == {i \in 1 .. n : pieces[i].end >= b}
  <2>1. PICK j \in E : \A i \in E : j <= i
    <3>1. b <= pieces[n].end /\ 1 \in 1 .. n
      BY <1>1, <1>3
    <3> HIDE DEF E
    <3> QED
      BY <1>8, <3>1 DEF E
  <2>2. first = Min(E)
    BY <1>1
  <2>3. E \in SUBSET Int
    BY <1>1
  <2> HIDE DEF E, first
  <2>4. first = j
    BY <2>1, <2>2, <2>3, MinIs
  <2> QED
    BY <2>1, <2>4 DEF E
<1> HIDE DEF first
<1>10. /\ last \in first .. n /\ pieces[last].end >= d
       /\ \A i \in first .. n : pieces[i].end >= d => last <= i
  <2> DEFINE E == {i \in first .. n : pieces[i].end >= d}
             F == {j \in first .. n : pieces[j].end >= d \/ j = n}
  <2>1. PICK j \in E : \A i \in E : j <= i
    <3>1. d <= pieces[n].end
      BY <1>1, <1>3
    <3> HIDE DEF E
    <3> QED
      BY <1>8, <1>9, <3>1 DEF E
  <2>2. E = F
    BY <1>1, <1>3
  <2>3. E \in SUBSET Int /\ last = Min(E)
    <3>1. E \in SUBSET Int
      BY <1>1, <1>9
    <3>2. last = Min(F)
      OBVIOUS
    <3> HIDE DEF E, F, last
    <3> QED
      BY <2>2, <3>1, <3>2
  <2> HIDE DEF E, F, last
  <2>4. last = j
    BY <2>1, <2>3, MinIs
  <2> QED
    BY <2>1, <2>4 DEF E
<1> HIDE DEF last
<1> DEFINE m == last - first + 1
<1>11. m \in Nat /\ first \in Int /\ last \in Int /\ first >= 1 /\ last <= n /\ n \in Int
  BY <1>1, <1>9, <1>10
<1>12. /\ r = [k \in 1 .. m |->
                 [proc |-> pieces[first + k - 1].proc, bound |-> pieces[first + k - 1].end]]
       /\ \A k \in 1 .. m : first + k - 1 \in 1 .. n
  BY <1>4, <1>11
<1> HIDE DEF m
<1>13. /\ r \in Seq(Range_) /\ Len(r) = m
       /\ \A k \in 1 .. m : /\ r[k].proc = pieces[first + k - 1].proc
                            /\ r[k].bound = pieces[first + k - 1].end
  <2>1. \A k \in 1 .. m :
          [proc |-> pieces[first + k - 1].proc, bound |-> pieces[first + k - 1].end] \in Range_
    BY <1>1, <1>12 DEF Range_
  <2>2. r \in [1 .. m -> Range_]
    BY <1>12, <2>1
  <2>3. r \in Seq(Range_) /\ Len(r) = m
    BY <1>11, <2>2
  <2> QED
    BY <1>12, <2>3
<1>14. ASSUME NEW j \in 1 .. m, NEW k \in 1 .. m, j < k PROVE r[j].bound < r[k].bound
  <2>1. /\ first + j - 1 \in 1 .. n /\ first + k - 1 \in 1 .. n
        /\ first + j - 1 < first + k - 1
    <3>1. j \in Int /\ k \in Int
      BY <1>11
    <3>2. first + j - 1 < first + k - 1
      BY <1>11, <1>14, <3>1
    <3> QED
      BY <1>12, <3>2
  <2> QED
    BY <1>6, <1>13, <2>1
<1>15. ASSUME NEW k \in 1 .. m PROVE RowStart(p) <= r[k].bound /\ r[k].bound <= RowEnd(p)
  <2>1. first + k - 1 \in 1 .. n /\ 1 \in 1 .. n
    BY <1>3, <1>12
  <2>2. pieces[1].end <= pieces[first + k - 1].end /\ pieces[first + k - 1].end <= pieces[n].end
    BY <1>1, <1>3, <1>5, <2>1
  <2>3. pieces[1].start = RowStart(p) /\ pieces[1].start <= pieces[1].end
    BY <1>2, <2>1
  <2>4. pieces[first + k - 1].end \in Int /\ pieces[1].end \in Int
    BY <1>1, <2>1
  <2>5. r[k].bound = pieces[first + k - 1].end
    BY <1>13
  <2> QED
    BY <1>1, <1>3, <2>2, <2>3, <2>4, <2>5
<1>16. ASSUME NEW c \in b .. d
       PROVE  \E k \in 1 .. m :
                /\ c <= r[k].bound /\ c \in Own(B, r[k].proc)
                /\ \A j \in 1 .. k - 1 : r[j].bound < c
  <2>1. c \in Int /\ b <= c /\ c <= d
    OBVIOUS
  <2>2. PICK i \in {k \in 1 .. n : pieces[k].end >= c} :
               \A j \in {k \in 1 .. n : pieces[k].end >= c} : i <= j
    <3>1. 1 \in 1 .. n /\ c <= pieces[n].end
      BY <1>3, <1>7
    <3> QED
      BY <1>8, <2>1, <3>1
  <2>3. /\ i \in 1 .. n /\ pieces[i].end >= c
        /\ \A j \in 1 .. n : pieces[j].end >= c => i <= j
    BY <2>2
  <2>4. first <= i
    <3>1. pieces[i].end >= b
      BY <1>1, <2>1, <2>3
    <3> QED
      BY <1>9, <2>3, <3>1
  <2>5. i <= last
    <3>1. pieces[last].end >= c /\ last \in 1 .. n
      BY <1>1, <1>10, <1>11, <2>1
    <3> QED
      BY <2>3, <3>1
  <2>6. PICK k \in 1 .. m : first + k - 1 = i
    <3>1. i - first + 1 \in 1 .. m
      BY <1>11, <2>3, <2>4, <2>5 DEF m
    <3>2. first + (i - first + 1) - 1 = i
      BY <1>11, <2>3
    <3> QED
      BY <3>1, <3>2
  <2>7. pieces[i].start <= c
    <3>1. CASE i = 1
      BY <1>1, <1>2, <2>1, <2>3, <3>1
    <3>2. CASE i # 1
      <4>1. i - 1 \in 1 .. n /\ ~ (i <= i - 1)
        BY <1>11, <2>3, <3>2
      <4>2. ~ (pieces[i - 1].end >= c) /\ pieces[i - 1].end \in Int
        BY <1>1, <2>3, <4>1
      <4>3. pieces[i].start = pieces[i - 1].end + 1
        BY <1>2, <2>3, <3>2
      <4> QED
        BY <2>1, <4>2, <4>3
    <3> QED
      BY <3>1, <3>2
  <2>8. c \in pieces[i].start .. pieces[i].end
    BY <1>1, <2>1, <2>3, <2>7
  <2>9. c \in Own(B, pieces[i].proc)
    BY <1>2, <2>3, <2>8
  <2>10. ASSUME NEW j \in 1 .. k - 1 PROVE r[j].bound < c
    <3>1. j \in 1 .. m /\ first + j - 1 < i
      BY <1>11, <2>6
    <3>2. first + j - 1 \in 1 .. n /\ ~ (i <= first + j - 1)
      BY <1>11, <1>12, <2>3, <3>1
    <3>3. ~ (pieces[first + j - 1].end >= c) /\ pieces[first + j - 1].end \in Int
      BY <1>1, <2>3, <3>2
    <3>4. r[j].bound = pieces[first + j - 1].end
      BY <1>13, <3>1
    <3> QED
      BY <2>1, <3>3, <3>4
  <2> QED
    BY <1>13, <2>3, <2>6, <2>9, <2>10
<1>17. RangesRight(B, contact.buf[1] .. contact.buf[2], r)
  BY <1>13, <1>14, <1>16 DEF RangesRight
<1> QED
  BY <1>13, <1>15, <1>17 DEF AnswerRight, r

-----------------------------------------------------------------------------
(* The answers one after the other. *)

\* The recursive definition of the library's FlattenSeq, up to n.
Flattened(seqs, g, n) == [i \in 1 .. n |-> IF i = 1 THEN seqs[i] ELSE g[i - 1] \o seqs[i]]

\* The function that FlattenSeq chooses there is.
LEMMA FlattenExists ==
  ASSUME NEW seqs, NEW n \in Nat
  PROVE  \E g : g = Flattened(seqs, g, n)
<1> DEFINE Bad == {m \in Nat : ~ \E g : g = Flattened(seqs, g, m)}
<1>1. SUFFICES ASSUME Bad # {} PROVE FALSE
  OBVIOUS
<1>2. PICK m \in Bad : \A k \in Bad : m <= k
  <2>1. Bad \in SUBSET Nat
    OBVIOUS
  <2> HIDE DEF Bad
  <2> QED
    BY <1>1, <2>1, Least, Zenon
<1>3. m \in Nat /\ ~ \E g : g = Flattened(seqs, g, m)
  BY <1>2
<1>4. m # 0
  <2>1. <<>> = Flattened(seqs, <<>>, 0)
    BY DEF Flattened
  <2> QED
    BY <1>3, <2>1
<1>5. m - 1 \in Nat /\ m - 1 \notin Bad
  <2>1. m - 1 \in Nat /\ ~ (m <= m - 1)
    BY <1>3, <1>4
  <2> HIDE DEF Bad
  <2> QED
    BY <1>2, <2>1
<1>6. PICK g : g = Flattened(seqs, g, m - 1)
  BY <1>5
<1> DEFINE h == Flattened(seqs, g, m)
<1>7. ASSUME NEW i \in 1 .. m - 1 PROVE h[i] = g[i]
  <2>1. i \in 1 .. m
    BY <1>3, <1>5
  <2>2. h[i] = IF i = 1 THEN seqs[i] ELSE g[i - 1] \o seqs[i]
    BY <2>1 DEF Flattened
  <2>3. Flattened(seqs, g, m - 1)[i] = IF i = 1 THEN seqs[i] ELSE g[i - 1] \o seqs[i]
    BY DEF Flattened
  <2> QED
    BY <1>6, <2>2, <2>3
<1>8. h = Flattened(seqs, h, m)
  <2>1. \A i \in 1 .. m : (IF i = 1 THEN seqs[i] ELSE g[i - 1] \o seqs[i])
                          = IF i = 1 THEN seqs[i] ELSE h[i - 1] \o seqs[i]
    <3> SUFFICES ASSUME NEW i \in 1 .. m, i # 1 PROVE g[i - 1] = h[i - 1]
      OBVIOUS
    <3>1. i - 1 \in 1 .. m - 1
      BY <1>3
    <3> HIDE DEF h
    <3> QED
      BY <1>7, <3>1
  <2>2. h = [i \in 1 .. m |-> IF i = 1 THEN seqs[i] ELSE g[i - 1] \o seqs[i]]
    BY DEF Flattened
  <2> HIDE DEF h
  <2> QED
    BY <2>1, <2>2 DEF Flattened
<1> QED
  BY <1>3, <1>8

\* FlattenSeq is the value of that solution at the last of the sequences.
LEMMA FlattenIs ==
  ASSUME NEW n \in Nat \ {0}, NEW seqs, Len(seqs) = n
  PROVE  \E g : g = Flattened(seqs, g, n) /\ FlattenSeq(seqs) = g[n]
<1> DEFINE h == CHOOSE g : g = Flattened(seqs, g, n)
<1>1. h = Flattened(seqs, h, n)
  BY FlattenExists
<1>2. FlattenSeq(seqs) = h[n]
  BY Zenon DEF FlattenSeq, Flattened
<1> QED
  BY <1>1, <1>2

\* What stands where in two sequences put together.
LEMMA ConcatIs ==
  ASSUME NEW T, NEW s \in Seq(T), NEW t \in Seq(T)
  PROVE  /\ s \o t \in Seq(T) /\ Len(s \o t) = Len(s) + Len(t)
         /\ \A m \in 1 .. Len(s) : (s \o t)[m] = s[m]
         /\ \A k \in 1 .. Len(t) : (s \o t)[Len(s) + k] = t[k]
<1>1. Len(s) \in Nat /\ Len(t) \in Nat
  OBVIOUS
<1>2. s \o t \in Seq(T) /\ Len(s \o t) = Len(s) + Len(t)
  OBVIOUS
<1>3. \A m \in 1 .. Len(s) : (s \o t)[m] = s[m]
  OBVIOUS
<1>4. \A k \in 1 .. Len(t) : (s \o t)[Len(s) + k] = t[k]
  OBVIOUS
<1> QED
  BY <1>2, <1>3, <1>4

\* What stands where in flat: the sequences one after the other, the i-th of them from
\* behind off[i - 1] to off[i].
Offsets(n, seqs, off, flat) ==
  /\ off \in [0 .. n -> Nat] /\ off[0] = 0 /\ Len(flat) = off[n]
  /\ \A i \in 1 .. n : off[i] = off[i - 1] + Len(seqs[i])
  /\ \A i \in 1 .. n : \A k \in 1 .. Len(seqs[i]) : flat[off[i - 1] + k] = seqs[i][k]
  /\ \A m \in 1 .. off[n] : \E i \in 1 .. n : m - off[i - 1] \in 1 .. Len(seqs[i])

\* Sequences put together are a sequence, each at its place.
LEMMA FlattenRight ==
  ASSUME NEW T, NEW n \in Nat, NEW seqs \in [1 .. n -> Seq(T)]
  PROVE  /\ FlattenSeq(seqs) \in Seq(T)
         /\ \E off : Offsets(n, seqs, off, FlattenSeq(seqs))
<1>1. seqs \in Seq(Seq(T)) /\ Len(seqs) = n
  OBVIOUS
<1>2. CASE n = 0
  <2>1. FlattenSeq(seqs) = seqs
    BY <1>1, <1>2, Zenon DEF FlattenSeq
  <2>2. seqs \in Seq(T) /\ Len(seqs) = 0
    BY <1>1, <1>2
  <2> DEFINE off == [i \in 0 .. 0 |-> 0]
  <2>3. Offsets(n, seqs, off, seqs)
    BY <1>2, <2>2 DEF Offsets
  <2> QED
    BY <2>1, <2>2, <2>3
<1>3. CASE n # 0
  <2>1. PICK g : g = Flattened(seqs, g, n) /\ FlattenSeq(seqs) = g[n]
    <3>1. n \in Nat \ {0}
      BY <1>3
    <3> QED
      BY <1>1, <3>1, FlattenIs
  <2>2. \A i \in 1 .. n : g[i] = IF i = 1 THEN seqs[i] ELSE g[i - 1] \o seqs[i]
    BY <2>1 DEF Flattened
  <2> DEFINE off == [i \in 0 .. n |-> IF i = 0 THEN 0 ELSE Len(g[i])]
             Good(i) == /\ g[i] \in Seq(T)
                        /\ \A j \in 1 .. i : off[j] \in Nat /\ off[j - 1] \in Nat
                        /\ \A j \in 1 .. i : off[j] = off[j - 1] + Len(seqs[j])
                        /\ \A j \in 1 .. i : \A k \in 1 .. Len(seqs[j]) :
                             off[j - 1] + k \in 1 .. off[i] /\ g[i][off[j - 1] + k] = seqs[j][k]
                        /\ \A m \in 1 .. off[i] : \E j \in 1 .. i :
                             m - off[j - 1] \in 1 .. Len(seqs[j])
             Bad == {i \in 1 .. n : ~ Good(i)}
  <2>3. \A i \in 1 .. n : seqs[i] \in Seq(T) /\ Len(seqs[i]) \in Nat
    BY <1>1
  <2>4. \A i \in 1 .. n : off[i] = Len(g[i]) /\ off[i - 1] = IF i = 1 THEN 0 ELSE Len(g[i - 1])
    OBVIOUS
  <2>5. off[0] = 0 /\ DOMAIN off = 0 .. n
    OBVIOUS
  <2> HIDE DEF off
  <2>6. ASSUME Bad # {} PROVE FALSE
    <3>1. PICK i \in Bad : \A k \in Bad : i <= k
      <4>1. Bad \in SUBSET Nat
        OBVIOUS
      <4> HIDE DEF Bad
      <4> QED
        BY <2>6, <4>1, Least, Zenon
    <3>2. i \in 1 .. n /\ ~ Good(i)
      BY <3>1
    <3>3. CASE i = 1
      <4>1. g[1] = seqs[1] /\ off[1] = Len(seqs[1]) /\ off[0] = 0 /\ seqs[1] \in Seq(T)
        BY <2>2, <2>3, <2>4, <2>5, <3>2, <3>3
      <4>2. Good(1)
        BY <4>1
      <4> QED
        BY <3>2, <3>3, <4>2
    <3>4. CASE i # 1
      <4> DEFINE h == i - 1
      <4>1. h \in 1 .. n /\ ~ (i <= h) /\ i = h + 1 /\ h \in Nat /\ i \in Nat
        BY <3>2, <3>4
      <4>2. Good(h)
        <5> HIDE DEF Good, h
        <5> QED
          BY <3>1, <4>1
      <4>3. g[i] = g[h] \o seqs[i] /\ off[i] = Len(g[i]) /\ off[h] = Len(g[h])
        BY <2>2, <2>4, <3>2, <3>4, <4>1
      <4>4. /\ g[h] \in Seq(T) /\ seqs[i] \in Seq(T)
            /\ Len(g[h]) \in Nat /\ Len(seqs[i]) \in Nat
        BY <2>3, <3>2, <4>2
      <4> HIDE DEF h
      <4>5. /\ g[i] \in Seq(T) /\ off[i] = off[h] + Len(seqs[i])
            /\ \A m \in 1 .. off[h] : g[i][m] = g[h][m]
            /\ \A k \in 1 .. Len(seqs[i]) : g[i][off[h] + k] = seqs[i][k]
        <5>1. PICK s \in Seq(T), t \in Seq(T) : s = g[h] /\ t = seqs[i]
          BY <4>4
        <5>2. /\ g[i] = s \o t /\ off[h] = Len(s)
              /\ s \o t \in Seq(T) /\ Len(s \o t) = Len(s) + Len(t)
              /\ \A m \in 1 .. Len(s) : (s \o t)[m] = s[m]
              /\ \A k \in 1 .. Len(t) : (s \o t)[Len(s) + k] = t[k]
          BY <4>3, <5>1, ConcatIs
        <5> QED
          BY <4>3, <5>1, <5>2
      <4>6. off[h] \in Nat /\ off[i] \in Nat
        BY <4>3, <4>4, <4>5
      <4>7. \A j \in 1 .. i : j = i \/ j \in 1 .. h
        BY <4>1
      <4>8. i - 1 = h
        BY DEF h
      <4>9. \A j \in 1 .. i : off[j] \in Nat /\ off[j - 1] \in Nat
        BY <4>2, <4>6, <4>7, <4>8
      <4>10. \A j \in 1 .. i : off[j] = off[j - 1] + Len(seqs[j])
        BY <4>2, <4>5, <4>7, <4>8
      <4>11. ASSUME NEW j \in 1 .. i, NEW k \in 1 .. Len(seqs[j])
             PROVE  off[j - 1] + k \in 1 .. off[i] /\ g[i][off[j - 1] + k] = seqs[j][k]
        <5>1. CASE j = i
          <6>1. /\ off[j - 1] = off[h] /\ k \in 1 .. Len(seqs[i])
                /\ off[i] = off[h] + Len(seqs[i])
            BY <4>5, <4>8, <5>1
          <6>2. off[h] + k \in 1 .. off[i]
            BY SMTT(20), <4>4, <4>6, <6>1
          <6>3. g[i][off[h] + k] = seqs[i][k]
            BY <4>5, <6>1
          <6> QED
            BY <5>1, <6>1, <6>2, <6>3
        <5>2. CASE j \in 1 .. h
          <6>1. off[j - 1] + k \in 1 .. off[h] /\ g[h][off[j - 1] + k] = seqs[j][k]
            BY <4>2, <5>2
          <6>2. off[j - 1] + k \in 1 .. off[i]
            BY SMTT(20), <4>4, <4>5, <4>6, <6>1
          <6> QED
            BY <4>5, <6>1, <6>2
        <5> QED
          BY <4>7, <5>1, <5>2
      <4>12. ASSUME NEW m \in 1 .. off[i]
             PROVE  \E j \in 1 .. i : m - off[j - 1] \in 1 .. Len(seqs[j])
        <5>1. CASE m \in 1 .. off[h]
          <6>1. PICK j \in 1 .. h : m - off[j - 1] \in 1 .. Len(seqs[j])
            BY <4>2, <5>1
          <6>2. j \in 1 .. i
            BY <4>1
          <6> QED
            BY <6>1, <6>2
        <5>2. CASE ~ (m \in 1 .. off[h])
          <6>1. m - off[h] \in 1 .. Len(seqs[i])
            <7>1. PICK a \in Nat, b \in Nat : a = off[h] /\ b = Len(seqs[i])
              BY <4>4, <4>6
            <7>2. m \in 1 .. a + b /\ ~ (m \in 1 .. a)
              BY <4>5, <4>12, <5>2, <7>1
            <7>3. m - a \in 1 .. b
              BY <7>2
            <7> QED
              BY <7>1, <7>3
          <6>2. i \in 1 .. i
            BY <4>1
          <6> QED
            BY <4>8, <6>1, <6>2
        <5> QED
          BY <5>1, <5>2
      <4>13. Good(i)
        BY <4>5, <4>9, <4>10, <4>11, <4>12
      <4> QED
        BY <3>2, <4>13
    <3> QED
      BY <3>3, <3>4
  <2>7. n \in 1 .. n
    BY <1>3
  <2>8. Good(n)
    <3> HIDE DEF Good
    <3> QED
      BY <2>6, <2>7
  <2>9. FlattenSeq(seqs) = g[n] /\ Len(g[n]) = off[n]
    BY <2>1, <2>4, <2>7
  <2>10. off \in [0 .. n -> Nat]
    <3>1. \A i \in 0 .. n : off[i] \in Nat
      <4> SUFFICES ASSUME NEW i \in 0 .. n PROVE off[i] \in Nat
        OBVIOUS
      <4>1. i = 0 \/ i \in 1 .. n
        OBVIOUS
      <4> QED
        BY <2>5, <2>8, <4>1
    <3>2. off = [i \in 0 .. n |-> off[i]]
      BY DEF off
    <3> HIDE DEF off
    <3> QED
      BY <3>1, <3>2
  <2>11. Offsets(n, seqs, off, g[n])
    <3>1. /\ \A i \in 1 .. n : off[i] = off[i - 1] + Len(seqs[i])
          /\ \A i \in 1 .. n : \A k \in 1 .. Len(seqs[i]) : g[n][off[i - 1] + k] = seqs[i][k]
          /\ \A m \in 1 .. off[n] : \E i \in 1 .. n : m - off[i - 1] \in 1 .. Len(seqs[i])
      BY <2>8
    <3> QED
      BY <2>5, <2>9, <2>10, <3>1 DEF Offsets
  <2> QED
    BY <2>8, <2>9, <2>11
<1> QED
  BY <1>2, <1>3

\* What is at a place of a sequence of another is before what is at a place further on.
LEMMA OffsetsOrder ==
  ASSUME NEW n \in Nat, NEW seqs, NEW off, NEW flat, Offsets(n, seqs, off, flat),
         \A i \in 1 .. n : Len(seqs[i]) \in Nat,
         NEW i \in 1 .. n, NEW j \in 1 .. n,
         NEW k \in 1 .. Len(seqs[i]), NEW l \in 1 .. Len(seqs[j]),
         off[i - 1] + k < off[j - 1] + l
  PROVE  i < j \/ (i = j /\ k < l)
<1>1. /\ off \in [0 .. n -> Nat]
      /\ \A m \in 1 .. n : off[m] = off[m - 1] + Len(seqs[m])
  BY DEF Offsets
<1>2. \A m \in 0 .. n : off[m] \in Nat
  BY <1>1
<1>3. off \in [0 .. n -> Int]
  BY <1>1
<1>4. \A m \in 0 .. n - 1 : off[m] <= off[m + 1]
  <2> SUFFICES ASSUME NEW m \in 0 .. n - 1 PROVE off[m] <= off[m + 1]
    OBVIOUS
  <2>1. PICK x \in 1 .. n : x = m + 1 /\ x - 1 = m /\ m \in 0 .. n
    OBVIOUS
  <2>2. off[x] = off[m] + Len(seqs[x]) /\ Len(seqs[x]) \in Nat /\ x = m + 1
    BY <1>1, <2>1
  <2>3. off[m] \in Nat
    BY <1>2, <2>1
  <2> QED
    BY <2>2, <2>3
<1>5. ASSUME j < i PROVE FALSE
  <2>1. j \in 0 .. n /\ i - 1 \in 0 .. n /\ j - 1 \in 0 .. n /\ j <= i - 1
    BY <1>5
  <2>2. off[j] <= off[i - 1]
    BY <1>3, <1>4, <2>1, Rising
  <2>3. off[j] = off[j - 1] + Len(seqs[j])
    BY <1>1
  <2>4. /\ off[j] \in Nat /\ off[i - 1] \in Nat /\ off[j - 1] \in Nat
        /\ Len(seqs[j]) \in Nat /\ Len(seqs[i]) \in Nat
    BY <1>2, <2>1
  <2>5. k \in Int /\ l \in Int /\ k >= 1 /\ l <= Len(seqs[j])
    BY <2>4
  <2>6. PICK u \in Nat, v \in Nat, w \in Nat : u = off[j] /\ v = off[i - 1] /\ w = off[j - 1]
    BY <2>4
  <2>7. u <= v /\ u >= w + l
    BY SMTT(20), <2>2, <2>3, <2>4, <2>5, <2>6
  <2>8. v + k < w + l
    BY <2>6
  <2>9. PICK x \in Int, z \in Int : x = k /\ z = l /\ x >= 1
    BY <2>5
  <2>10. u <= v /\ u >= w + z /\ v + x < w + z
    BY <2>7, <2>8, <2>9
  <2> QED
    BY <2>9, <2>10
<1>6. ASSUME i = j PROVE k < l
  <2>1. off[i - 1] \in Nat /\ Len(seqs[i]) \in Nat
    BY <1>2
  <2> QED
    BY <1>6, <2>1
<1> QED
  BY <1>5, <1>6

\* The answers to all contacts tell of all columns.
LEMMA FlatRight ==
  ASSUME NEW B, NEW C \in SUBSET Row, NEW n \in Nat,
         NEW list, DOMAIN list = 1 .. n, ContactsRight(C, list),
         NEW answers \in [1 .. n -> Seq(Range_)],
         \A k \in 1 .. n : AnswerRight(B, list[k], answers[k])
  PROVE  RangesRight(B, C, FlattenSeq(answers))
<1> DEFINE flat == FlattenSeq(answers)
<1>1. flat \in Seq(Range_)
  BY FlattenRight
<1>2. PICK off : Offsets(n, answers, off, flat)
  BY FlattenRight
<1> HIDE DEF flat
<1>3. /\ off \in [0 .. n -> Nat] /\ Len(flat) = off[n]
      /\ \A i \in 1 .. n : \A k \in 1 .. Len(answers[i]) : flat[off[i - 1] + k] = answers[i][k]
      /\ \A m \in 1 .. off[n] : \E i \in 1 .. n : m - off[i - 1] \in 1 .. Len(answers[i])
  BY <1>2 DEF Offsets
<1>4. \A i \in 1 .. n : Len(answers[i]) \in Nat /\ off[i - 1] \in Nat /\ off[i] \in Nat
  <2> SUFFICES ASSUME NEW i \in 1 .. n
               PROVE  Len(answers[i]) \in Nat /\ off[i - 1] \in Nat /\ off[i] \in Nat
    OBVIOUS
  <2>1. answers[i] \in Seq(Range_) /\ i - 1 \in 0 .. n /\ i \in 0 .. n
    OBVIOUS
  <2> QED
    BY <1>3, <2>1
<1>5. \A m \in 1 .. Len(flat) : \E i \in 1 .. n : \E k \in 1 .. Len(answers[i]) :
        m = off[i - 1] + k /\ flat[m] = answers[i][k]
  <2> SUFFICES ASSUME NEW m \in 1 .. Len(flat)
               PROVE  \E i \in 1 .. n : \E k \in 1 .. Len(answers[i]) :
                        m = off[i - 1] + k /\ flat[m] = answers[i][k]
    OBVIOUS
  <2>1. PICK i \in 1 .. n : m - off[i - 1] \in 1 .. Len(answers[i])
    BY <1>3
  <2>2. m \in Int /\ off[i - 1] \in Nat
    BY <1>4
  <2>3. PICK k \in 1 .. Len(answers[i]) : k = m - off[i - 1]
    BY <2>1
  <2>4. k \in Int
    BY <1>4
  <2>5. m = off[i - 1] + k
    BY <2>2, <2>3, <2>4
  <2> QED
    BY <1>3, <2>5
<1>6. \A i, j \in 1 .. n : i < j => list[i].to < list[j].to
  BY DEF ContactsRight
<1>7. \A i \in 1 .. n :
        /\ list[i].to \in Proc /\ list[i].to \in Int
        /\ RowStart(list[i].to) \in Int /\ RowEnd(list[i].to) \in Int
  <2> SUFFICES ASSUME NEW i \in 1 .. n
               PROVE  /\ list[i].to \in Proc /\ list[i].to \in Int
                      /\ RowStart(list[i].to) \in Int /\ RowEnd(list[i].to) \in Int
    OBVIOUS
  <2>1. list[i].to \in Proc
    BY DEF ContactsRight, ContactRight
  <2> QED
    BY <2>1, AssumedRange, PartitionAssumption DEF Proc
<1>8. \A i \in 1 .. n : \A k \in 1 .. Len(answers[i]) :
        /\ answers[i][k].bound \in Int
        /\ RowStart(list[i].to) <= answers[i][k].bound
        /\ answers[i][k].bound <= RowEnd(list[i].to)
  <2> SUFFICES ASSUME NEW i \in 1 .. n, NEW k \in 1 .. Len(answers[i])
               PROVE  /\ answers[i][k].bound \in Int
                      /\ RowStart(list[i].to) <= answers[i][k].bound
                      /\ answers[i][k].bound <= RowEnd(list[i].to)
    OBVIOUS
  <2>1. answers[i] \in Seq(Range_)
    OBVIOUS
  <2>2. answers[i][k] \in Range_
    BY <2>1
  <2> QED
    BY <2>2 DEF AnswerRight, Range_
<1>9. \A i \in 1 .. n : \A j, k \in 1 .. Len(answers[i]) :
        j < k => answers[i][j].bound < answers[i][k].bound
  BY DEF AnswerRight, RangesRight
<1>10. ASSUME NEW i \in 1 .. n, NEW j \in 1 .. n, i < j,
              NEW k \in 1 .. Len(answers[i])
       PROVE  answers[i][k].bound < RowStart(list[j].to)
  <2>1. list[i].to < list[j].to
    BY <1>6, <1>10
  <2>2. RowEnd(list[i].to) < RowStart(list[j].to)
    BY <1>7, <2>1, Ascending
  <2>3. answers[i][k].bound <= RowEnd(list[i].to) /\ answers[i][k].bound \in Int
    BY <1>8
  <2>4. RowEnd(list[i].to) \in Int /\ RowStart(list[j].to) \in Int
    BY <1>7
  <2> QED
    BY <2>2, <2>3, <2>4
<1>11. ASSUME NEW l \in 1 .. Len(flat), NEW m \in 1 .. Len(flat), l < m
       PROVE  flat[l].bound < flat[m].bound
  <2>1. PICK i \in 1 .. n : \E k \in 1 .. Len(answers[i]) :
               l = off[i - 1] + k /\ flat[l] = answers[i][k]
    BY <1>5
  <2>2. PICK a \in 1 .. Len(answers[i]) : l = off[i - 1] + a /\ flat[l] = answers[i][a]
    BY <2>1
  <2>3. PICK j \in 1 .. n : \E k \in 1 .. Len(answers[j]) :
               m = off[j - 1] + k /\ flat[m] = answers[j][k]
    BY <1>5
  <2>4. PICK b \in 1 .. Len(answers[j]) : m = off[j - 1] + b /\ flat[m] = answers[j][b]
    BY <2>3
  <2>5. off[i - 1] + a < off[j - 1] + b
    BY <1>11, <2>2, <2>4
  <2>6. i < j \/ (i = j /\ a < b)
    BY <1>2, <1>4, <2>5, OffsetsOrder
  <2>7. CASE i < j
    <3>1. answers[i][a].bound < RowStart(list[j].to)
      BY <1>10, <2>7
    <3>2. RowStart(list[j].to) <= answers[j][b].bound
      BY <1>8
    <3>3. /\ answers[i][a].bound \in Int /\ answers[j][b].bound \in Int
          /\ RowStart(list[j].to) \in Int
      BY <1>7, <1>8
    <3>4. answers[i][a].bound < answers[j][b].bound
      BY SMTT(20), <3>1, <3>2, <3>3
    <3> QED
      BY <2>2, <2>4, <3>4
  <2>8. CASE i = j /\ a < b
    BY <1>9, <2>2, <2>4, <2>8
  <2> QED
    BY <2>6, <2>7, <2>8
<1>12. ASSUME NEW c \in C
       PROVE  \E k \in 1 .. Len(flat) :
                /\ c <= flat[k].bound /\ c \in Own(B, flat[k].proc)
                /\ \A j \in 1 .. k - 1 : flat[j].bound < c
  <2>1. PICK i \in 1 .. n : list[i].to = ProcFromRow(c)
    BY DEF ContactsRight
  <2>2. c \in Row /\ c \in Int
    BY DEF Row
  <2>3. c \in list[i].buf[1] .. list[i].buf[2]
    <3>1. ContactRight(C, list[i])
      BY DEF ContactsRight
    <3>2. list[i].buf[1] \in C /\ list[i].buf[2] \in C
      BY <3>1 DEF ContactRight
    <3>3. list[i].buf[1] \in Int /\ list[i].buf[2] \in Int
      <4>1. \A x \in C : x \in Int
        BY DEF Row
      <4> QED
        BY <3>2, <4>1
    <3>4. list[i].buf[1] <= c /\ c <= list[i].buf[2]
      BY <2>1, <3>1 DEF ContactRight
    <3> QED
      BY <2>2, <3>3, <3>4
  <2>4. PICK a \in 1 .. Len(answers[i]) :
               /\ c <= answers[i][a].bound /\ c \in Own(B, answers[i][a].proc)
               /\ \A j \in 1 .. a - 1 : answers[i][j].bound < c
    BY <2>3 DEF AnswerRight, RangesRight
  <2> DEFINE k == off[i - 1] + a
  <2>5. flat[k] = answers[i][a]
    BY <1>3
  <2>6. k \in 1 .. Len(flat)
    <3>1. off[i] = off[i - 1] + Len(answers[i])
      BY <1>2 DEF Offsets
    <3>2. off[i] <= off[n]
      <4>1. off \in [0 .. n -> Int] /\ i \in 0 .. n /\ n \in 0 .. n /\ i <= n
        BY <1>3
      <4>2. \A m \in 0 .. n - 1 : off[m] <= off[m + 1]
        <5> SUFFICES ASSUME NEW m \in 0 .. n - 1 PROVE off[m] <= off[m + 1]
          OBVIOUS
        <5>1. m + 1 \in 1 .. n /\ m + 1 - 1 = m
          OBVIOUS
        <5>2. off[m + 1] = off[m] + Len(answers[m + 1])
          BY <1>2, <5>1 DEF Offsets
        <5>3. off[m] \in Nat /\ Len(answers[m + 1]) \in Nat
          BY <1>4, <5>1
        <5> QED
          BY <5>2, <5>3
      <4> QED
        BY <4>1, <4>2, Rising
    <3>3. /\ off[i] \in Nat /\ off[i - 1] \in Nat /\ Len(answers[i]) \in Nat
          /\ off[n] \in Nat /\ Len(flat) = off[n]
      BY <1>3, <1>4
    <3>4. a \in Int /\ 1 <= a /\ a <= Len(answers[i])
      BY <3>3
    <3> QED
      BY SMTT(20), <3>1, <3>2, <3>3, <3>4
  <2>7. ASSUME NEW m \in 1 .. k - 1 PROVE flat[m].bound < c
    <3>1. off[i - 1] \in Nat /\ Len(answers[i]) \in Nat
      BY <1>4
    <3>2. k \in Int /\ a \in Int /\ k <= Len(flat) /\ Len(flat) \in Int
      BY <1>1, <2>6, <3>1
    <3>3. m \in 1 .. Len(flat) /\ m < k
      BY <3>2
    <3>4. PICK j \in 1 .. n : \E l \in 1 .. Len(answers[j]) :
                 m = off[j - 1] + l /\ flat[m] = answers[j][l]
      BY <1>5, <3>3
    <3>5. PICK l \in 1 .. Len(answers[j]) : m = off[j - 1] + l /\ flat[m] = answers[j][l]
      BY <3>4
    <3>6. off[j - 1] + l < off[i - 1] + a
      BY <3>3, <3>5
    <3>7. j < i \/ (j = i /\ l < a)
      BY <1>2, <1>4, <3>6, OffsetsOrder
    <3>8. CASE j < i
      <4>1. answers[j][l].bound < RowStart(list[i].to) /\ answers[j][l].bound \in Int
        BY <1>8, <1>10, <3>8
      <4>2. RowStart(list[i].to) <= c
        <5>1. c \in RowStart(list[i].to) .. RowEnd(list[i].to)
          BY <1>7, <2>1, <2>2, InverseOf
        <5> QED
          BY <1>7, <2>2, <5>1
      <4>3. RowStart(list[i].to) \in Int
        BY <1>7
      <4>4. answers[j][l].bound < c
        BY <2>2, <4>1, <4>2, <4>3
      <4> QED
        BY <3>5, <4>4
    <3>9. CASE j = i /\ l < a
      <4>1. l \in 1 .. a - 1
        BY <3>1, <3>2, <3>9
      <4> QED
        BY <2>4, <3>5, <3>9, <4>1
    <3> QED
      BY <3>7, <3>8, <3>9
  <2> QED
    BY <2>4, <2>5, <2>6, <2>7
<1> QED
  BY <1>1, <1>11, <1>12 DEF RangesRight, flat

-----------------------------------------------------------------------------
(* Whom a process receives from. *)

\* The owner of a column is the process that has it.
LEMMA OwnerIs ==
  ASSUME NEW B, IsMatrix(B), NEW q \in Proc, NEW c \in Int, c \in Own(B, q)
  PROVE  OwnerOf(B, c) = q
<1>1. ASSUME NEW r \in Proc, c \in Own(B, r) PROVE r = q
  <2>1. /\ ColStart(B, q) \in Int /\ ColEnd(B, q) \in Int
        /\ ColStart(B, r) \in Int /\ ColEnd(B, r) \in Int
    BY Starts
  <2>2. /\ ColStart(B, q) <= c /\ c <= ColEnd(B, q)
        /\ ColStart(B, r) <= c /\ c <= ColEnd(B, r)
    BY <1>1, <2>1 DEF Own
  <2> QED
    BY <2>2, OneOwner
<1> QED
  BY <1>1 DEF OwnerOf

\* Of two columns the later one has not an earlier owner.
LEMMA OwnerOrder ==
  ASSUME NEW B, IsMatrix(B), NEW q \in Proc, NEW r \in Proc,
         NEW c \in Int, NEW d \in Int, c \in Own(B, q), d \in Own(B, r), c <= d
  PROVE  q <= r
<1>1. /\ ColStart(B, q) \in Int /\ ColEnd(B, q) \in Int
      /\ ColStart(B, r) \in Int /\ ColEnd(B, r) \in Int
  BY Starts
<1>2. ColStart(B, q) <= c /\ d <= ColEnd(B, r)
  BY <1>1 DEF Own
<1>3. q \in Int /\ r \in Int
  BY PartitionAssumption DEF Proc
<1>4. r < q => ColEnd(B, r) < ColStart(B, q)
  BY Starts
<1> QED
  BY <1>1, <1>2, <1>3, <1>4

\* Counting the places of columns is counting the columns.
LEMMA PlacesCount ==
  ASSUME NEW C \in SUBSET Int, NEW n, NEW cols, Lists(cols, n, C), NEW D \in SUBSET C
  PROVE  /\ IsFiniteSet({j \in 1 .. n : cols[j] \in D})
         /\ Cardinality({j \in 1 .. n : cols[j] \in D}) = Cardinality(D)
<1> DEFINE E == {j \in 1 .. n : cols[j] \in D}
           f == [j \in E |-> cols[j]]
<1>1. /\ n \in Nat /\ cols \in [1 .. n -> C]
      /\ \A i, j \in 1 .. n : i < j => cols[i] < cols[j]
      /\ \A x \in C : \E i \in 1 .. n : cols[i] = x
  BY DEF Lists
<1>2. IsFiniteSet(E)
  <2>1. IsFiniteSet(1 .. n) /\ E \in SUBSET (1 .. n)
    BY <1>1, FS_Interval
  <2> QED
    BY <2>1, FS_Subset
<1>3. \A i, j \in 1 .. n : cols[i] = cols[j] => i = j
  <2> SUFFICES ASSUME NEW i \in 1 .. n, NEW j \in 1 .. n, cols[i] = cols[j] PROVE i = j
    OBVIOUS
  <2>1. cols[i] \in Int /\ cols[j] \in Int
    BY <1>1
  <2>2. ~ (i < j) /\ ~ (j < i)
    BY <1>1, <2>1
  <2> QED
    BY <2>2
<1>4. f \in Bijection(E, D)
  <2>1. f \in [E -> D]
    OBVIOUS
  <2>2. \A i, j \in E : f[i] = f[j] => i = j
    BY <1>3
  <2>3. \A x \in D : \E i \in E : f[i] = x
    BY <1>1
  <2> HIDE DEF E, f
  <2> QED
    BY <2>1, <2>2, <2>3 DEF Bijection, Injection, Surjection, IsInjective
<1>5. ExistsBijection(E, D)
  BY <1>4 DEF ExistsBijection
<1> HIDE DEF E
<1>6. Cardinality(D) = Cardinality(E)
  BY <1>2, <1>5, FS_Bijection
<1> QED
  BY <1>2, <1>6 DEF E

\* recv_procs and recv_vec_starts are those of the standard way.
LEMMA RecvRight ==
  ASSUME NEW B, IsMatrix(B), NEW p \in Proc, NEW ranges,
         RangesRight(B, Offd(B, p), ranges)
  PROVE  RecvProcs(p, Sorted(Offd(B, p)), ranges) = StandardRecvs(B, p)
<1> DEFINE C == Offd(B, p)
           cols == Sorted(C)
           n == Cardinality(C)
           m == Len(ranges)
           bound(k) == ranges[k].bound
           of(k) == ranges[k].proc
           E(k) == {j \in DOMAIN cols : \E i \in 1 .. k : cols[j] <= ranges[i].bound}
           used == {k \in DOMAIN ranges : Cardinality(E(k)) > Cardinality(E(k - 1))}
           next(k) == {i \in used : i > k}
           L == {k \in used : /\ ranges[k].proc # p
                              /\ next(k) # {} =>
                                   ranges[Min(next(k))].proc # ranges[k].proc}
           last == Sorted(L)
<1>1. RecvProcs(p, cols, ranges) =
        [i \in DOMAIN last |-> [proc |-> ranges[last[i]].proc, end |-> Cardinality(E(last[i]))]]
  BY Zenon DEF RecvProcs
<1>2. C \in SUBSET Int /\ IsFiniteSet(C)
  <2>1. IsFiniteSet(Row) /\ Row \subseteq Int
    BY FS_Interval, PartitionAssumption DEF Row
  <2>2. C \in SUBSET Row
    BY DEF Offd
  <2> HIDE DEF C
  <2> QED
    BY <2>1, <2>2, FS_Subset
<1>3. Lists(cols, n, C)
  BY <1>2, SortedIs
<1>4. /\ n \in Nat /\ DOMAIN cols = 1 .. n
      /\ \A j \in 1 .. n : cols[j] \in C /\ cols[j] \in Int
      /\ \A x \in C : \E j \in 1 .. n : cols[j] = x
  <2>1. n \in Nat /\ cols \in [1 .. n -> C] /\ \A x \in C : \E j \in 1 .. n : cols[j] = x
    BY <1>3 DEF Lists
  <2> HIDE DEF C, cols, n
  <2> QED
    BY <1>2, <2>1
<1>5. /\ m \in Nat /\ DOMAIN ranges = 1 .. m
      /\ \A k \in 1 .. m : of(k) \in Proc /\ of(k) \in Int /\ bound(k) \in Int
  <2>1. ranges \in Seq(Range_)
    BY DEF RangesRight
  <2>2. m \in Nat /\ DOMAIN ranges = 1 .. m /\ \A k \in 1 .. m : ranges[k] \in Range_
    BY <2>1
  <2>3. \A k \in 1 .. m : of(k) \in Proc /\ bound(k) \in Int
    BY <2>2 DEF Range_
  <2>4. \A q \in Proc : q \in Int
    BY PartitionAssumption DEF Proc
  <2> QED
    BY <2>2, <2>3, <2>4
<1>6. \A j, k \in 1 .. m : j < k => bound(j) < bound(k)
  BY DEF RangesRight
<1>7. \A c \in C : \E k \in 1 .. m :
        c <= bound(k) /\ c \in Own(B, of(k)) /\ \A j \in 1 .. k - 1 : bound(j) < c
  BY DEF RangesRight
<1>8. \A c \in C : c \notin Own(B, p)
  BY DEF Offd
<1> HIDE DEF C, cols, n, m
\* A column of range k.
<1> DEFINE In(c, k) == c <= bound(k) /\ c \in Own(B, of(k)) /\ \A j \in 1 .. k - 1 : bound(j) < c
<1>9. \A c \in C : c \in Int
  BY <1>2
<1>10. \A j, k \in 1 .. m : j <= k => bound(j) <= bound(k)
  <2> SUFFICES ASSUME NEW j \in 1 .. m, NEW k \in 1 .. m, j <= k PROVE bound(j) <= bound(k)
    OBVIOUS
  <2>1. bound(j) \in Int /\ bound(k) \in Int
    BY <1>5
  <2>2. j = k \/ j < k
    OBVIOUS
  <2>3. j < k => bound(j) < bound(k)
    BY <1>6
  <2> HIDE DEF bound
  <2> QED
    BY <2>1, <2>2, <2>3
<1>11. \A k \in 1 .. m : E(k) = {j \in 1 .. n : cols[j] \in {c \in C : c <= bound(k)}}
  <2> SUFFICES ASSUME NEW k \in 1 .. m, NEW j \in 1 .. n
               PROVE  (\E i \in 1 .. k : cols[j] <= bound(i)) <=> cols[j] <= bound(k)
    BY <1>4
  <2>1. k \in 1 .. k
    BY <1>5
  <2>2. ASSUME NEW i \in 1 .. k, cols[j] <= bound(i) PROVE cols[j] <= bound(k)
    <3>1. i \in 1 .. m /\ i <= k
      BY <1>5
    <3>2. bound(i) <= bound(k) /\ bound(i) \in Int /\ bound(k) \in Int /\ cols[j] \in Int
      BY <1>4, <1>5, <1>10, <3>1
    <3> HIDE DEF bound
    <3> QED
      BY <2>2, <3>2
  <2> QED
    BY <2>1, <2>2
<1>12. \A k \in 1 .. m : /\ IsFiniteSet(E(k)) /\ Cardinality(E(k)) \in Nat
                         /\ Cardinality(E(k)) = Cardinality({c \in C : c <= bound(k)})
  <2> SUFFICES ASSUME NEW k \in 1 .. m
               PROVE  /\ IsFiniteSet(E(k)) /\ Cardinality(E(k)) \in Nat
                      /\ Cardinality(E(k)) = Cardinality({c \in C : c <= bound(k)})
    OBVIOUS
  <2>1. {c \in C : c <= bound(k)} \in SUBSET C
    OBVIOUS
  <2>2. E(k) = {j \in 1 .. n : cols[j] \in {c \in C : c <= bound(k)}}
    BY <1>11
  <2> HIDE DEF E
  <2>3. /\ IsFiniteSet(E(k))
        /\ Cardinality(E(k)) = Cardinality({c \in C : c <= bound(k)})
    BY <1>2, <1>3, <2>1, <2>2, PlacesCount
  <2> QED
    BY <2>3, FS_CardinalityType
<1>13. \A k \in 1 .. m : k \in used <=> \E c \in C : In(c, k)
  <2> SUFFICES ASSUME NEW k \in 1 .. m PROVE k \in used <=> \E c \in C : In(c, k)
    OBVIOUS
  <2>1. k \in used <=> Cardinality(E(k)) > Cardinality(E(k - 1))
    BY <1>5
  <2>2. E(k - 1) \in SUBSET E(k)
    <3>1. \A i \in 1 .. k - 1 : i \in 1 .. k
      BY <1>5
    <3> QED
      BY <3>1
  <2>3. IsFiniteSet(E(k)) /\ Cardinality(E(k)) \in Nat
    BY <1>12
  <2>4. /\ IsFiniteSet(E(k - 1)) /\ Cardinality(E(k - 1)) \in Nat
        /\ Cardinality(E(k - 1)) <= Cardinality(E(k))
        /\ Cardinality(E(k)) = Cardinality(E(k - 1)) => E(k) = E(k - 1)
    <3> HIDE DEF E
    <3> QED
      BY <2>2, <2>3, FS_Subset, FS_CardinalityType
  <2>5. k \in used <=> E(k) # E(k - 1)
    <3> HIDE DEF E, used
    <3> QED
      BY <2>1, <2>3, <2>4
  <2>6. ASSUME E(k) # E(k - 1) PROVE \E c \in C : In(c, k)
    <3>1. PICK j \in E(k) : j \notin E(k - 1)
      BY <2>2, <2>6
    <3>2. j \in 1 .. n
      BY <1>4
    <3>3. cols[j] \in C /\ cols[j] \in Int
      BY <1>4, <3>2
    <3>4. cols[j] <= bound(k)
      BY <1>11, <3>1
    <3>5. \A i \in 1 .. k - 1 : ~ (cols[j] <= bound(i))
      BY <1>4, <3>1, <3>2
    <3>6. PICK i \in 1 .. m : In(cols[j], i)
      BY <1>7, <3>3
    <3>7. i = k
      <4>1. cols[j] <= bound(i) /\ \A l \in 1 .. i - 1 : bound(l) < cols[j]
        BY <3>6
      <4>2. ~ (i \in 1 .. k - 1)
        BY <3>5, <4>1
      <4>3. ~ (k \in 1 .. i - 1)
        <5>1. bound(k) \in Int
          BY <1>5
        <5> HIDE DEF bound
        <5> QED
          BY <3>3, <3>4, <4>1, <5>1
      <4>4. m \in Nat
        BY <1>5
      <4> QED
        BY <4>2, <4>3, <4>4
    <3> QED
      BY <3>3, <3>6, <3>7
  <2>7. ASSUME NEW c \in C, In(c, k) PROVE E(k) # E(k - 1)
    <3>1. PICK j \in 1 .. n : cols[j] = c
      BY <1>4
    <3>2. j \in E(k)
      BY <1>11, <2>7, <3>1
    <3>3. ASSUME NEW i \in 1 .. k - 1 PROVE ~ (cols[j] <= bound(i))
      <4>1. i \in 1 .. m
        BY <1>5
      <4>2. bound(i) < c /\ bound(i) \in Int /\ c \in Int
        BY <1>5, <1>9, <2>7, <4>1
      <4> HIDE DEF bound
      <4> QED
        BY <3>1, <4>2
    <3>4. j \notin E(k - 1)
      BY <3>3
    <3> QED
      BY <3>2, <3>4
  <2> QED
    BY <2>5, <2>6, <2>7
<1>14. used \in SUBSET (1 .. m)
  BY <1>5
<1>15. L = {k \in used : next(k) # {} => of(Min(next(k))) # of(k)}
  <2>1. ASSUME NEW k \in used PROVE of(k) # p
    <3>1. PICK c \in C : In(c, k)
      BY <1>13, <1>14
    <3> QED
      BY <1>8, <3>1
  <2> HIDE DEF used, next
  <2> QED
    BY <2>1
<1> HIDE DEF E, used, last, L
\* The least of the used ranges after one.
<1>16. ASSUME NEW k \in used, next(k) # {}
       PROVE  /\ Min(next(k)) \in used /\ Min(next(k)) > k
              /\ \A i \in used : i > k => Min(next(k)) <= i
  <2>1. next(k) \in SUBSET Nat
    <3>1. \A i \in 1 .. m : i \in Nat
      BY <1>5
    <3>2. next(k) \in SUBSET used
      OBVIOUS
    <3> HIDE DEF next
    <3> QED
      BY <1>14, <3>1, <3>2
  <2>2. PICK i \in next(k) : \A z \in next(k) : i <= z
    <3> HIDE DEF next
    <3> QED
      BY <1>16, <2>1, Least, Zenon
  <2>3. Min(next(k)) = i
    <3>1. next(k) \in SUBSET Int
      BY <2>1
    <3> HIDE DEF next
    <3> QED
      BY <2>2, <3>1, MinIs
  <2> QED
    BY <2>2, <2>3
\* Of two ranges used.
<1>17. ASSUME NEW k \in 1 .. m, NEW l \in 1 .. m, NEW c \in C, NEW d \in C,
              In(c, k), In(d, l), k < l
       PROVE  bound(k) < d /\ of(k) <= of(l)
  <2>1. k \in 1 .. l - 1
    BY <1>5, <1>17
  <2>2. bound(k) < d /\ c <= bound(k)
    BY <1>17, <2>1
  <2>3. bound(k) \in Int /\ c \in Int /\ d \in Int /\ of(k) \in Proc /\ of(l) \in Proc
    BY <1>5, <1>9
  <2>4. c <= d
    <3> HIDE DEF bound
    <3> QED
      BY <2>2, <2>3
  <2>5. c \in Own(B, of(k)) /\ d \in Own(B, of(l))
    BY <1>17
  <2>6. of(k) <= of(l)
    <3> HIDE DEF of
    <3> QED
      BY <2>3, <2>4, <2>5, OwnerOrder
  <2> QED
    BY <2>2, <2>6
<1>18. ASSUME NEW k \in used, NEW l \in used, k < l PROVE of(k) <= of(l)
  <2>1. PICK c \in C : In(c, k)
    BY <1>13, <1>14
  <2>2. PICK d \in C : In(d, l)
    BY <1>13, <1>14
  <2> QED
    BY <1>14, <1>17, <1>18, <2>1, <2>2
<1>19. ASSUME NEW k \in L, NEW l \in used, k < l PROVE of(k) < of(l)
  <2>1. k \in used /\ l \in next(k)
    BY <1>15, <1>19
  <2>2. next(k) # {}
    BY <2>1
  <2>3. of(Min(next(k))) # of(k)
    BY <1>15, <2>2
  <2>4. PICK i \in used : i = Min(next(k)) /\ i > k /\ i <= l
    BY <1>16, <1>19, <2>1, <2>2
  <2>5. of(i) # of(k) /\ of(k) <= of(i)
    BY <1>18, <2>1, <2>3, <2>4
  <2>6. i = l \/ of(i) <= of(l)
    <3>1. i = l \/ i < l
      BY <1>14, <2>4
    <3> QED
      BY <1>18, <3>1
  <2>7. of(i) \in Int /\ of(k) \in Int /\ of(l) \in Int
    BY <1>5, <1>14, <2>1
  <2> HIDE DEF of
  <2> QED
    BY <2>5, <2>6, <2>7
<1>20. \A k \in 1 .. m : \A c \in C : In(c, k) => OwnerOf(B, c) = of(k)
  BY <1>5, <1>9, OwnerIs
<1>21. ASSUME NEW k \in L
       PROVE  {c \in C : c <= bound(k)} = {c \in C : OwnerOf(B, c) <= of(k)}
  <2>1. k \in used /\ k \in 1 .. m
    BY <1>14, <1>15
  <2>2. ASSUME NEW c \in C PROVE c <= bound(k) <=> OwnerOf(B, c) <= of(k)
    <3>1. PICK l \in 1 .. m : In(c, l)
      BY <1>7
    <3>2. l \in used /\ OwnerOf(B, c) = of(l)
      BY <1>13, <1>20, <3>1
    <3>3. of(l) \in Int /\ of(k) \in Int /\ bound(k) \in Int /\ bound(l) \in Int /\ c \in Int
      BY <1>5, <1>9, <2>1
    <3>4. CASE k < l
      <4>1. of(k) < of(l)
        BY <1>19, <3>2, <3>4
      <4>2. bound(k) < c
        <5>1. k \in 1 .. l - 1
          BY <1>5, <2>1, <3>4
        <5> QED
          BY <3>1, <5>1
      <4> HIDE DEF of, bound
      <4> QED
        BY <3>2, <3>3, <4>1, <4>2
    <3>5. CASE l <= k
      <4>1. of(l) <= of(k)
        <5>1. l = k \/ l < k
          <6>1. l \in Int /\ k \in Int
            BY <1>5, <2>1
          <6> QED
            BY <3>5, <6>1
        <5>2. l < k => of(l) <= of(k)
          BY <1>18, <2>1, <3>2
        <5> HIDE DEF of
        <5> QED
          BY <3>3, <5>1, <5>2
      <4>2. c <= bound(l) /\ bound(l) <= bound(k)
        BY <1>10, <2>1, <3>1, <3>5
      <4> HIDE DEF of, bound
      <4> QED
        BY <3>2, <3>3, <4>1, <4>2
    <3> QED
      BY <1>5, <2>1, <3>4, <3>5
  <2> QED
    BY <2>2
<1>22. L \in SUBSET Int /\ IsFiniteSet(L) /\ L \in SUBSET used
  <2>1. L \in SUBSET (1 .. m) /\ L \in SUBSET used
    BY <1>14, <1>15
  <2>2. IsFiniteSet(1 .. m)
    BY <1>5, FS_Interval
  <2>3. IsFiniteSet(L)
    BY <2>1, <2>2, FS_Subset
  <2>4. \A i \in 1 .. m : i \in Int
    BY <1>5
  <2> QED
    BY <2>1, <2>3, <2>4
<1> DEFINE w == Cardinality(L)
           list == [i \in 1 .. w |-> of(last[i])]
<1>23. /\ w \in Nat /\ DOMAIN last = 1 .. w
       /\ \A i \in 1 .. w : last[i] \in L
       /\ \A i, j \in 1 .. w : i < j => last[i] < last[j]
       /\ \A k \in L : \E i \in 1 .. w : last[i] = k
  BY <1>22, SortedIs DEF Lists, last
<1>24. Owners(B, p) = {OwnerOf(B, c) : c \in C}
  BY DEF Owners, C
<1>25. ASSUME NEW c \in C PROVE \E i \in 1 .. w : of(last[i]) = OwnerOf(B, c)
  <2>1. PICK l \in 1 .. m : In(c, l)
    BY <1>7
  <2>2. l \in used /\ OwnerOf(B, c) = of(l)
    BY <1>13, <1>20, <2>1
  <2> DEFINE F == {k \in used : of(k) = of(l)}
  <2>3. PICK k \in F : \A z \in F : z <= k
    <3>1. F \in SUBSET (1 .. m) /\ l \in F
      BY <1>14, <2>2
    <3> HIDE DEF F
    <3> QED
      BY <1>5, <3>1, Greatest, Zenon
  <2>4. k \in used /\ of(k) = of(l)
    BY <2>3
  <2>5. k \in L
    <3>1. SUFFICES ASSUME next(k) # {}, of(Min(next(k))) = of(k) PROVE FALSE
      BY <1>15, <2>4
    <3>2. Min(next(k)) \in used /\ Min(next(k)) > k
      BY <1>16, <2>4, <3>1
    <3>3. Min(next(k)) \in F
      BY <2>4, <3>1, <3>2
    <3>4. Min(next(k)) <= k
      BY <2>3, <3>3
    <3>5. Min(next(k)) \in Int /\ k \in Int
      <4>1. \A i \in 1 .. m : i \in Int
        BY <1>5
      <4> HIDE DEF next
      <4> QED
        BY <1>14, <2>4, <3>2, <4>1
    <3> HIDE DEF next
    <3> QED
      BY <3>2, <3>4, <3>5
  <2> QED
    BY <1>23, <2>2, <2>4, <2>5
<1>26. Lists(list, w, Owners(B, p))
  <2>1. ASSUME NEW i \in 1 .. w PROVE list[i] \in Owners(B, p)
    <3>1. last[i] \in used
      BY <1>22, <1>23
    <3>2. PICK c \in C : In(c, last[i])
      BY <1>13, <1>14, <3>1
    <3>3. OwnerOf(B, c) = of(last[i])
      BY <1>14, <1>20, <3>1, <3>2
    <3>4. list[i] = of(last[i])
      OBVIOUS
    <3> QED
      BY <1>24, <3>3, <3>4
  <2>2. list \in [1 .. w -> Owners(B, p)]
    BY <2>1
  <2>3. ASSUME NEW i \in 1 .. w, NEW j \in 1 .. w, i < j PROVE list[i] < list[j]
    <3>1. last[i] \in L /\ last[j] \in used /\ last[i] < last[j]
      BY <1>22, <1>23, <2>3
    <3>2. of(last[i]) < of(last[j])
      BY <1>19, <3>1
    <3> QED
      BY <3>2
  <2>4. \A x \in Owners(B, p) : \E i \in 1 .. w : list[i] = x
    BY <1>24, <1>25
  <2> HIDE DEF list
  <2> QED
    BY <1>23, <2>2, <2>3, <2>4 DEF Lists
<1>27. Owners(B, p) \in SUBSET Int
  <2> SUFFICES ASSUME NEW x \in Owners(B, p) PROVE x \in Int
    OBVIOUS
  <2>1. PICK i \in 1 .. w : list[i] = x
    BY <1>26 DEF Lists
  <2>2. last[i] \in 1 .. m
    BY <1>14, <1>22, <1>23
  <2>3. of(last[i]) \in Int
    BY <1>5, <2>2
  <2> QED
    BY <2>1, <2>3
<1>28. Sorted(Owners(B, p)) = list
  <2> HIDE DEF list, w
  <2> QED
    BY <1>26, <1>27, SortedUnique
<1>29. StandardRecvs(B, p) =
         [i \in 1 .. w |->
            [proc |-> list[i], end |-> Cardinality({c \in C : OwnerOf(B, c) <= list[i]})]]
  <2>1. DOMAIN list = 1 .. w
    OBVIOUS
  <2> HIDE DEF list, w
  <2> QED
    BY <1>28, <2>1 DEF StandardRecvs, C
<1>30. \A i \in 1 .. w : /\ ranges[last[i]].proc = list[i]
                         /\ Cardinality(E(last[i])) =
                              Cardinality({c \in C : OwnerOf(B, c) <= list[i]})
  <2> SUFFICES ASSUME NEW i \in 1 .. w
               PROVE  /\ ranges[last[i]].proc = list[i]
                      /\ Cardinality(E(last[i])) =
                           Cardinality({c \in C : OwnerOf(B, c) <= list[i]})
    OBVIOUS
  <2>1. last[i] \in L /\ last[i] \in 1 .. m
    BY <1>14, <1>22, <1>23
  <2>2. list[i] = of(last[i])
    OBVIOUS
  <2>3. Cardinality(E(last[i])) = Cardinality({c \in C : c <= bound(last[i])})
    BY <1>12, <2>1
  <2>4. {c \in C : c <= bound(last[i])} = {c \in C : OwnerOf(B, c) <= of(last[i])}
    BY <1>21, <2>1
  <2> QED
    BY <2>2, <2>3, <2>4
<1> QED
  BY <1>1, <1>23, <1>29, <1>30 DEF C, cols

-----------------------------------------------------------------------------
(* Whom a process sends to. *)

\* Every column has an owner.
LEMMA HasOwner ==
  ASSUME NEW B, IsMatrix(B), NEW c \in Row
  PROVE  /\ OwnerOf(B, c) \in Proc /\ c \in Own(B, OwnerOf(B, c))
<1>1. /\ B.starts \in [0 .. NumProcs -> 0 .. NumRows]
      /\ B.starts[0] = 0 /\ B.starts[NumProcs] = NumRows
  BY DEF IsMatrix
<1>2. NumProcs \in Nat \ {0} /\ NumRows \in Nat /\ c \in Int /\ 0 <= c /\ c < NumRows
  BY PartitionAssumption DEF Row
<1>0. \A q \in 0 .. NumProcs : B.starts[q] \in Int
  <2>1. \A x \in 0 .. NumRows : x \in Int
    OBVIOUS
  <2> QED
    BY <1>1, <2>1
<1> DEFINE S == {q \in 0 .. NumProcs - 1 : c < B.starts[q + 1]}
<1>3. PICK q \in S : \A r \in S : q <= r
  <2>1. NumProcs - 1 + 1 = NumProcs /\ NumProcs - 1 \in 0 .. NumProcs - 1
    BY <1>2
  <2>2. NumProcs - 1 \in S
    BY <1>1, <1>2, <2>1
  <2>3. S \in SUBSET Nat /\ S # {}
    <3>1. S \in SUBSET Nat
      BY <1>2
    <3> HIDE DEF S
    <3> QED
      BY <2>2, <3>1
  <2> HIDE DEF S
  <2> QED
    BY <2>3, Least, Zenon
<1>4. q \in Proc /\ q \in Nat /\ c < B.starts[q + 1]
  BY <1>2, <1>3 DEF Proc
<1>5. B.starts[q] <= c
  <2>1. CASE q = 0
    BY <1>1, <1>2, <2>1
  <2>2. CASE q # 0
    <3>1. q - 1 \in 0 .. NumProcs - 1 /\ ~ (q <= q - 1) /\ q - 1 + 1 = q /\ q \in 0 .. NumProcs
      BY <1>2, <1>4, <2>2 DEF Proc
    <3>2. ~ (c < B.starts[q])
      BY <1>3, <3>1
    <3>3. B.starts[q] \in Int
      BY <1>0, <3>1
    <3> QED
      BY <1>2, <3>2, <3>3
  <2> QED
    BY <2>1, <2>2
<1>6. c \in Own(B, q)
  <2>1. q \in 0 .. NumProcs /\ q + 1 \in 0 .. NumProcs
    BY <1>2, <1>4 DEF Proc
  <2>2. B.starts[q] \in Int /\ B.starts[q + 1] \in Int
    BY <1>0, <2>1
  <2> QED
    BY <1>2, <1>4, <1>5, <2>2 DEF Own, ColStart, ColEnd
<1>7. OwnerOf(B, c) = q
  BY <1>2, <1>4, <1>6, OwnerIs
<1> QED
  BY <1>4, <1>6, <1>7

\* The columns of others: of each process some or none.
LEMMA OffdOf ==
  ASSUME NEW B, IsMatrix(B), NEW p \in Proc
  PROVE  /\ Offd(B, p) \in SUBSET Row /\ Offd(B, p) \in SUBSET Int /\ IsFiniteSet(Offd(B, p))
         /\ \A q \in Proc : Offd(B, p) \cap Own(B, q) = {c \in Offd(B, p) : OwnerOf(B, c) = q}
         /\ Owners(B, p) \in SUBSET (Proc \ {p}) /\ Owners(B, p) \in SUBSET Int
         /\ IsFiniteSet(Owners(B, p))
         /\ \A q \in Proc : q \in Owners(B, p) <=> Offd(B, p) \cap Own(B, q) # {}
<1> DEFINE C == Offd(B, p)
<1>1. C \in SUBSET Row /\ C \in SUBSET Int /\ IsFiniteSet(C)
  <2>1. IsFiniteSet(Row) /\ Row \subseteq Int
    BY FS_Interval, PartitionAssumption DEF Row
  <2>2. C \in SUBSET Row
    BY DEF Offd
  <2> HIDE DEF C
  <2> QED
    BY <2>1, <2>2, FS_Subset
<1>2. \A c \in C : c \notin Own(B, p)
  BY DEF Offd
<1>3. Owners(B, p) = {OwnerOf(B, c) : c \in C}
  BY DEF Owners
<1> HIDE DEF C
<1>4. \A c \in C : OwnerOf(B, c) \in Proc /\ c \in Own(B, OwnerOf(B, c))
  BY <1>1, HasOwner
<1>5. ASSUME NEW q \in Proc PROVE C \cap Own(B, q) = {c \in C : OwnerOf(B, c) = q}
  <2>1. \A c \in C : c \in Own(B, q) => OwnerOf(B, c) = q
    BY <1>1, OwnerIs
  <2> QED
    BY <1>4, <2>1
<1>6. Owners(B, p) \in SUBSET (Proc \ {p})
  BY <1>2, <1>3, <1>4
<1>7. IsFiniteSet(Proc) /\ Proc \subseteq Int
  BY FS_Interval, PartitionAssumption DEF Proc
<1>8. Owners(B, p) \in SUBSET Proc /\ Owners(B, p) \in SUBSET Int
  BY <1>6, <1>7
<1>9. IsFiniteSet(Owners(B, p))
  BY <1>7, <1>8, FS_Subset
<1>10. \A q \in Proc : q \in Owners(B, p) <=> C \cap Own(B, q) # {}
  BY <1>3, <1>5
<1> QED
  BY <1>1, <1>5, <1>6, <1>8, <1>9, <1>10 DEF C

\* The places of the first members of a list.
LEMMA FirstPlaces ==
  ASSUME NEW C \in SUBSET Int, NEW n, NEW cols, Lists(cols, n, C), NEW D \in SUBSET C,
         \A c, d \in C : c <= d /\ d \in D => c \in D
  PROVE  /\ Cardinality(D) \in 0 .. n
         /\ \A j \in 1 .. n : cols[j] \in D <=> j <= Cardinality(D)
<1> DEFINE J == {j \in 1 .. n : cols[j] \in D}
<1>1. /\ n \in Nat /\ cols \in [1 .. n -> C]
      /\ \A i, j \in 1 .. n : i < j => cols[i] < cols[j]
  BY DEF Lists
<1>2. Cardinality(J) = Cardinality(D)
  BY PlacesCount
<1>3. ASSUME NEW i \in 1 .. n, NEW j \in J, i <= j PROVE i \in J
  <2>1. cols[i] \in C /\ cols[j] \in D /\ cols[i] \in Int /\ cols[j] \in Int
    BY <1>1
  <2>2. i = j \/ cols[i] < cols[j]
    BY <1>1, <1>3
  <2>3. cols[i] <= cols[j] /\ cols[j] \in C
    BY <2>1, <2>2
  <2> QED
    BY <2>1, <2>3
<1>4. \E x \in 0 .. n : J = 1 .. x
  <2>1. CASE J = {}
    <3>1. 0 \in 0 .. n /\ 1 .. 0 = {}
      BY <1>1
    <3> HIDE DEF J
    <3> QED
      BY <2>1, <3>1
  <2>2. CASE J # {}
    <3>1. J \in SUBSET (1 .. n)
      OBVIOUS
    <3>2. PICK x \in J : \A z \in J : z <= x
      <4> HIDE DEF J
      <4> QED
        BY <1>1, <2>2, <3>1, Greatest, Zenon
    <3>3. x \in 0 .. n /\ x \in 1 .. n
      BY <1>1, <3>1, <3>2
    <3>4. \A z \in 1 .. x : z \in 1 .. n /\ z <= x
      BY <1>1, <3>3
    <3>5. \A z \in J : z \in 1 .. x
      BY <1>1, <3>1, <3>2
    <3> HIDE DEF J
    <3>6. J = 1 .. x
      BY <1>3, <3>2, <3>4, <3>5
    <3> QED
      BY <3>3, <3>6
  <2> QED
    BY <2>1, <2>2
<1>5. PICK x \in 0 .. n : J = 1 .. x
  BY <1>4
<1>6. Cardinality(D) = x
  <2>1. Cardinality(1 .. x) = x
    BY <1>1, FS_Interval
  <2> HIDE DEF J
  <2> QED
    BY <1>2, <1>5, <2>1
<1>7. \A j \in 1 .. n : j \in J <=> j <= x
  <2>1. \A j \in 1 .. n : j \in 1 .. x <=> j <= x
    BY <1>1
  <2> HIDE DEF J
  <2> QED
    BY <1>5, <2>1
<1> QED
  BY <1>6, <1>7

\* What stands for an entry of the standard package: the columns of its process, at
\* their places.
LEMMA RecvPlaces ==
  ASSUME NEW B, IsMatrix(B), NEW p \in Proc,
         NEW k \in DOMAIN StandardRecvs(B, p)
  PROVE  /\ StandardRecvs(B, p)[k].proc \in Owners(B, p)
         /\ RecvCols(Sorted(Offd(B, p)), StandardRecvs(B, p), k) =
              Sorted(Offd(B, p) \cap Own(B, StandardRecvs(B, p)[k].proc))
         /\ \A j \in DOMAIN Sorted(Offd(B, p)) :
              /\ RecvStart(StandardRecvs(B, p), k) <= j /\ j <= StandardRecvs(B, p)[k].end
                   <=> Sorted(Offd(B, p))[j] \in Own(B, StandardRecvs(B, p)[k].proc)
              /\ RecvStart(StandardRecvs(B, p), k) <= j /\ j <= StandardRecvs(B, p)[k].end
                   => /\ j - RecvStart(StandardRecvs(B, p), k) + 1 \in
                           DOMAIN RecvCols(Sorted(Offd(B, p)), StandardRecvs(B, p), k)
                      /\ RecvCols(Sorted(Offd(B, p)), StandardRecvs(B, p), k)
                           [j - RecvStart(StandardRecvs(B, p), k) + 1] = Sorted(Offd(B, p))[j]
<1> DEFINE C == Offd(B, p)
           cols == Sorted(C)
           n == Cardinality(C)
           owners == Sorted(Owners(B, p))
           w == Cardinality(Owners(B, p))
           R == StandardRecvs(B, p)
           below(q) == {c \in C : OwnerOf(B, c) <= q}
           a == RecvStart(R, k)
           e == R[k].end
           q == owners[k]
<1>1. /\ C \in SUBSET Row /\ C \in SUBSET Int /\ IsFiniteSet(C)
      /\ \A r \in Proc : C \cap Own(B, r) = {c \in C : OwnerOf(B, c) = r}
      /\ Owners(B, p) \in SUBSET Proc /\ Owners(B, p) \in SUBSET Int
      /\ IsFiniteSet(Owners(B, p))
  BY OffdOf
<1>2. Lists(cols, n, C)
  BY <1>1, SortedIs
<1>3. /\ w \in Nat /\ owners \in [1 .. w -> Owners(B, p)]
      /\ \A i, j \in 1 .. w : i < j => owners[i] < owners[j]
      /\ \A x \in Owners(B, p) : \E i \in 1 .. w : owners[i] = x
  BY <1>1, SortedIs DEF Lists
<1>4. R = [i \in 1 .. w |-> [proc |-> owners[i], end |-> Cardinality(below(owners[i]))]]
  <2>1. DOMAIN owners = 1 .. w
    BY <1>3
  <2> HIDE DEF owners, w
  <2> QED
    BY <2>1 DEF StandardRecvs, owners
<1> HIDE DEF owners, w, cols, n, R
<1>5. /\ k \in 1 .. w /\ k \in Nat /\ R[k].proc = q /\ e = Cardinality(below(q))
      /\ q \in Owners(B, p) /\ q \in Proc /\ q \in Int
  <2>1. k \in 1 .. w
    BY <1>4 DEF R
  <2>2. q \in Owners(B, p)
    BY <1>3, <2>1
  <2> QED
    BY <1>1, <1>3, <1>4, <2>1, <2>2
<1>6. \A c \in C : /\ OwnerOf(B, c) \in Proc /\ OwnerOf(B, c) \in Int
                   /\ OwnerOf(B, c) \in Owners(B, p) /\ c \in Own(B, OwnerOf(B, c))
  <2>1. \A c \in C : OwnerOf(B, c) \in Proc /\ c \in Own(B, OwnerOf(B, c))
    BY <1>1, HasOwner
  <2>2. \A c \in C : OwnerOf(B, c) \in Owners(B, p)
    BY DEF Owners
  <2> HIDE DEF C
  <2> QED
    BY <1>1, <2>1, <2>2
<1>7. ASSUME NEW r \in Int, NEW c \in C, NEW d \in C, c <= d, d \in below(r)
      PROVE  c \in below(r)
  <2>1. OwnerOf(B, c) <= OwnerOf(B, d)
    <3>1. c \in Int /\ d \in Int
      BY <1>1
    <3> QED
      BY <1>6, <1>7, <3>1, OwnerOrder
  <2>2. OwnerOf(B, d) <= r
    BY <1>7
  <2>3. OwnerOf(B, c) \in Int /\ OwnerOf(B, d) \in Int
    BY <1>6
  <2>4. OwnerOf(B, c) <= r
    BY <2>1, <2>2, <2>3
  <2> QED
    BY <2>4
<1>8. /\ n \in Nat /\ cols \in [1 .. n -> C]
      /\ \A j \in 1 .. n : cols[j] \in C
      /\ \A i, j \in 1 .. n : i < j => cols[i] < cols[j]
      /\ \A x \in C : \E j \in 1 .. n : cols[j] = x
  BY <1>2 DEF Lists
<1>9. ASSUME NEW r \in Int
      PROVE  /\ Cardinality(below(r)) \in 0 .. n
             /\ \A j \in 1 .. n : OwnerOf(B, cols[j]) <= r <=> j <= Cardinality(below(r))
  <2>1. below(r) \in SUBSET C /\ \A c, d \in C : c <= d /\ d \in below(r) => c \in below(r)
    BY <1>7
  <2>2. \A j \in 1 .. n : cols[j] \in below(r) <=> OwnerOf(B, cols[j]) <= r
    BY <1>8
  <2> HIDE DEF below, C
  <2>3. /\ Cardinality(below(r)) \in 0 .. n
        /\ \A j \in 1 .. n : cols[j] \in below(r) <=> j <= Cardinality(below(r))
    BY <1>1, <1>2, <2>1, FirstPlaces
  <2> QED
    BY <2>2, <2>3
<1>10. e \in 0 .. n /\ \A j \in 1 .. n : OwnerOf(B, cols[j]) <= q <=> j <= e
  <2> HIDE DEF below, e, q
  <2> QED
    BY <1>5, <1>9
<1>11. a \in 1 .. n + 1 /\ a <= e + 1
       /\ \A j \in 1 .. n : j >= a /\ OwnerOf(B, cols[j]) <= q <=> OwnerOf(B, cols[j]) = q
  <2>1. CASE k = 1
    <3>1. a = 1
      BY <2>1 DEF RecvStart
    <3>2. ASSUME NEW c \in C PROVE OwnerOf(B, c) >= q
      <4>1. PICK i \in 1 .. w : owners[i] = OwnerOf(B, c)
        BY <1>3, <1>6
      <4>2. i = 1 \/ owners[1] < owners[i]
        BY <1>3, <1>5, <2>1
      <4>3. OwnerOf(B, c) \in Int /\ q \in Int
        BY <1>5, <1>6
      <4> QED
        BY <2>1, <4>1, <4>2, <4>3
    <3>3. ASSUME NEW j \in 1 .. n
          PROVE  j >= a /\ OwnerOf(B, cols[j]) <= q <=> OwnerOf(B, cols[j]) = q
      <4>1. OwnerOf(B, cols[j]) >= q /\ OwnerOf(B, cols[j]) \in Int
        BY <1>6, <1>8, <3>2
      <4>2. q \in Int /\ j >= 1
        BY <1>5, <1>8
      <4> HIDE DEF q
      <4> QED
        BY <3>1, <4>1, <4>2
    <3>4. 1 \in 1 .. n + 1 /\ e \in Nat
      BY <1>8, <1>10
    <3> HIDE DEF e
    <3> QED
      BY <3>1, <3>3, <3>4
  <2>2. CASE k # 1
    <3> DEFINE o == owners[k - 1]
    <3>1. k - 1 \in 1 .. w /\ k - 1 < k
      BY <1>3, <1>5, <2>2
    <3>2. o \in Owners(B, p) /\ o \in Int /\ o < q
      <4>1. o \in Owners(B, p) /\ o < q
        BY <1>3, <1>5, <3>1
      <4> QED
        BY <1>1, <4>1
    <3>3. a = Cardinality(below(o)) + 1
      BY <1>4, <2>2, <3>1 DEF RecvStart
    <3>4. /\ Cardinality(below(o)) \in 0 .. n
          /\ \A j \in 1 .. n : OwnerOf(B, cols[j]) <= o <=> j <= Cardinality(below(o))
      <4> HIDE DEF below, o
      <4> QED
        BY <1>9, <3>2
    <3>5. PICK f \in 0 .. n : f = Cardinality(below(o))
      BY <3>4
    <3>6. a = f + 1 /\ \A j \in 1 .. n : OwnerOf(B, cols[j]) <= o <=> j <= f
      BY <3>3, <3>4, <3>5
    <3> HIDE DEF a, e, q, o, below
    <3>7. ASSUME NEW c \in C PROVE OwnerOf(B, c) <= o \/ OwnerOf(B, c) >= q
      <4>1. PICK i \in 1 .. w : owners[i] = OwnerOf(B, c)
        BY <1>3, <1>6
      <4>2. i < k - 1 \/ i = k - 1 \/ i = k \/ k < i
        BY <1>3, <1>5
      <4>3. (i < k - 1 => owners[i] < o) /\ (k < i => q < owners[i])
        BY <1>3, <1>5, <3>1 DEF q, o
      <4>4. OwnerOf(B, c) \in Int /\ q \in Int /\ o \in Int
        BY <1>5, <1>6, <3>2
      <4> QED
        BY <4>1, <4>2, <4>3, <4>4 DEF q, o
    <3>8. ASSUME NEW j \in 1 .. n
          PROVE  j >= a /\ OwnerOf(B, cols[j]) <= q <=> OwnerOf(B, cols[j]) = q
      <4>1. PICK x \in Int : x = OwnerOf(B, cols[j])
        BY <1>6, <1>8
      <4>2. x <= o \/ x >= q
        BY <1>8, <3>7, <4>1
      <4>3. x <= o <=> j <= f
        BY <3>6, <4>1
      <4>4. q \in Int /\ o \in Int /\ o < q /\ j \in Int /\ f \in Int
        BY <1>5, <1>8, <3>2
      <4>5. j >= f + 1 /\ x <= q <=> x = q
        BY <4>2, <4>3, <4>4
      <4> QED
        BY <3>6, <4>1, <4>5
    <3>9. f <= e
      <4>1. CASE f = 0
        BY <1>8, <1>10, <4>1
      <4>2. CASE f # 0
        <5>1. f \in 1 .. n /\ f <= f
          BY <1>8, <4>2
        <5>2. OwnerOf(B, cols[f]) <= o /\ OwnerOf(B, cols[f]) \in Int
          BY <1>6, <1>8, <3>6, <5>1
        <5>3. q \in Int /\ o \in Int /\ o < q
          BY <1>5, <3>2
        <5>4. OwnerOf(B, cols[f]) <= q
          BY <5>2, <5>3
        <5> QED
          BY <1>10, <5>1, <5>4
      <4> QED
        BY <4>1, <4>2
    <3>10. a \in 1 .. n + 1 /\ a <= e + 1
      <4>1. e \in Int /\ f \in Int /\ n \in Int /\ 0 <= f /\ f <= n
        BY <1>8, <1>10
      <4> QED
        BY <3>6, <3>9, <4>1
    <3> QED
      BY <3>8, <3>10
  <2> QED
    BY <2>1, <2>2
<1> DEFINE D == C \cap Own(B, q)
           s == RecvCols(cols, R, k)
           m == e - a + 1
<1>12. D = {c \in C : OwnerOf(B, c) = q}
  BY <1>1, <1>5
<1>13. s = SubSeq(cols, a, e)
  BY DEF RecvCols
<1> HIDE DEF a, e, s, D, q
<1>14. m \in Nat /\ a \in Nat /\ e \in Nat /\ 1 <= a /\ e <= n
  BY <1>8, <1>10, <1>11
<1>15. s = [i \in 1 .. m |-> cols[a + i - 1]]
  BY <1>8, <1>13, <1>14
<1>16. \A i \in 1 .. m : a + i - 1 \in 1 .. n /\ a + i - 1 >= a /\ a + i - 1 <= e
  BY <1>8, <1>14
<1>17. \A j \in 1 .. n : a <= j /\ j <= e <=> cols[j] \in D
  <2> SUFFICES ASSUME NEW j \in 1 .. n PROVE a <= j /\ j <= e <=> cols[j] \in D
    OBVIOUS
  <2>1. OwnerOf(B, cols[j]) <= q <=> j <= e
    BY <1>10
  <2>2. j >= a /\ OwnerOf(B, cols[j]) <= q <=> OwnerOf(B, cols[j]) = q
    BY <1>11
  <2>3. cols[j] \in D <=> OwnerOf(B, cols[j]) = q
    BY <1>8, <1>12
  <2>4. j >= a <=> a <= j
    BY <1>8, <1>14
  <2> QED
    BY <2>1, <2>2, <2>3, <2>4
<1>18. Lists(s, m, D)
  <2>1. s \in [1 .. m -> D]
    <3>1. \A i \in 1 .. m : cols[a + i - 1] \in D
      BY <1>16, <1>17
    <3> HIDE DEF m
    <3> QED
      BY <1>15, <3>1
  <2>2. ASSUME NEW i \in 1 .. m, NEW j \in 1 .. m, i < j PROVE s[i] < s[j]
    <3>1. /\ a + i - 1 \in 1 .. n /\ a + j - 1 \in 1 .. n
          /\ s[i] = cols[a + i - 1] /\ s[j] = cols[a + j - 1]
      BY <1>15, <1>16
    <3>2. a + i - 1 < a + j - 1
      BY <1>14, <2>2
    <3> QED
      BY <1>8, <3>1, <3>2
  <2>3. ASSUME NEW x \in D PROVE \E i \in 1 .. m : s[i] = x
    <3>0. x \in C
      BY <1>12
    <3>1. PICK j \in 1 .. n : cols[j] = x
      BY <1>8, <3>0
    <3>2. a <= j /\ j <= e
      BY <1>17, <3>1
    <3>3. j - a + 1 \in 1 .. m /\ a + (j - a + 1) - 1 = j
      BY <1>8, <1>14, <3>2
    <3>4. s[j - a + 1] = cols[j]
      BY <1>15, <3>3
    <3> QED
      BY <3>1, <3>3, <3>4
  <2> HIDE DEF m
  <2> QED
    BY <1>14, <2>1, <2>2, <2>3 DEF Lists
<1>19. D \in SUBSET Int
  BY <1>1, <1>12
<1>20. Sorted(D) = s
  <2> HIDE DEF m
  <2> QED
    BY <1>18, <1>19, SortedUnique
<1>21. ASSUME NEW j \in 1 .. n
       PROVE  /\ a <= j /\ j <= e <=> cols[j] \in Own(B, q)
              /\ a <= j /\ j <= e => j - a + 1 \in DOMAIN s /\ s[j - a + 1] = cols[j]
  <2>1. cols[j] \in D <=> cols[j] \in Own(B, q)
    BY <1>8 DEF D
  <2>2. ASSUME a <= j, j <= e PROVE j - a + 1 \in 1 .. m /\ a + (j - a + 1) - 1 = j
    BY <1>8, <1>14, <2>2
  <2>3. ASSUME a <= j, j <= e PROVE j - a + 1 \in DOMAIN s /\ s[j - a + 1] = cols[j]
    <3> HIDE DEF m
    <3> QED
      BY <1>15, <2>2, <2>3
  <2> QED
    BY <1>17, <2>1, <2>3
<1>22. DOMAIN cols = 1 .. n
  BY <1>8
<1> QED
  BY <1>5, <1>20, <1>21, <1>22 DEF D, a, e, s, q, R, cols

\* In particular.
LEMMA RecvColsRight ==
  ASSUME NEW B, IsMatrix(B), NEW p \in Proc,
         NEW k \in DOMAIN StandardRecvs(B, p)
  PROVE  /\ StandardRecvs(B, p)[k].proc \in Owners(B, p)
         /\ RecvCols(Sorted(Offd(B, p)), StandardRecvs(B, p), k) =
              Sorted(Offd(B, p) \cap Own(B, StandardRecvs(B, p)[k].proc))
BY RecvPlaces

\* The processes that have columns of p.
Users(B, p) == {q \in Proc : p \in Owners(B, q)}

\* What users of p have told it: each its columns of p, in order, and once.
ToldColumns(B, p, list) ==
  /\ list \in Seq([proc : Proc, elmts : Seq(Int)])
  /\ \A k \in DOMAIN list :
       /\ list[k].proc \in Users(B, p)
       /\ list[k].elmts = Sorted(Offd(B, list[k].proc) \cap Own(B, p))
  /\ \A j, k \in DOMAIN list : list[j].proc = list[k].proc => j = k

\* The sort and the local indices make of what all users have told the standard sends.
LEMMA SendRight ==
  ASSUME NEW B, IsMatrix(B), NEW p \in Proc, NEW heard, ToldColumns(B, p, heard),
         \A q \in Users(B, p) : \E k \in DOMAIN heard : heard[k].proc = q,
         NEW list \in SendProcs(heard, ColStart(B, p))
  PROVE  list = StandardSends(B, p)
<1> DEFINE U == Users(B, p)
           D == DOMAIN heard
           numbers == [k \in D |-> heard[k].proc]
<1>1. PICK n \in Nat : D = 1 .. n
  <2>1. heard \in Seq([proc : Proc, elmts : Seq(Int)])
    BY DEF ToldColumns
  <2>2. Len(heard) \in Nat /\ D = 1 .. Len(heard)
    BY <2>1
  <2> QED
    BY <2>2
<1>2. PICK f \in SortIndices(numbers) : list = Localised(heard, f, ColStart(B, p))
  BY DEF SendProcs
<1>3. /\ f \in [D -> D]
      /\ \A j, k \in D : f[j] = f[k] => j = k
      /\ \A j, k \in D : j < k => numbers[f[j]] <= numbers[f[k]]
      /\ \A k \in D : \E j \in D : f[j] = k
  <2>1. IsFiniteSet(D)
    BY <1>1, FS_Interval
  <2>2. DOMAIN numbers = D
    OBVIOUS
  <2> HIDE DEF D, numbers
  <2> QED
    BY <2>1, <2>2, SortPermutes
<1>4. /\ \A k \in D : heard[k].proc \in U /\ numbers[k] = heard[k].proc
      /\ \A k \in D : heard[k].elmts = Sorted(Offd(B, heard[k].proc) \cap Own(B, p))
      /\ \A j, k \in D : heard[j].proc = heard[k].proc => j = k
  BY DEF ToldColumns
<1>5. U \in SUBSET Int
  BY PartitionAssumption DEF Users, Proc
<1> DEFINE procs == [k \in D |-> heard[f[k]].proc]
<1> HIDE DEF D, U, numbers
<1>6. Lists(procs, n, U)
  <2>1. procs \in [1 .. n -> U]
    BY <1>1, <1>3, <1>4
  <2>2. ASSUME NEW j \in 1 .. n, NEW k \in 1 .. n, j < k PROVE procs[j] < procs[k]
    <3>1. j \in D /\ k \in D /\ f[j] \in D /\ f[k] \in D
      BY <1>1, <1>3
    <3>2. numbers[f[j]] <= numbers[f[k]]
      BY <1>3, <2>2, <3>1
    <3>3. f[j] # f[k]
      BY <1>3, <2>2, <3>1
    <3>4. heard[f[j]].proc # heard[f[k]].proc
      BY <1>4, <3>1, <3>3
    <3>5. numbers[f[j]] = procs[j] /\ numbers[f[k]] = procs[k]
      BY <1>4, <3>1
    <3>6. procs[j] \in Int /\ procs[k] \in Int
      BY <1>5, <2>1
    <3>7. procs[j] # procs[k]
      BY <3>1, <3>4
    <3> HIDE DEF procs
    <3> QED
      BY <3>2, <3>5, <3>6, <3>7
  <2>3. ASSUME NEW q \in U PROVE \E k \in 1 .. n : procs[k] = q
    <3>1. PICK k \in D : heard[k].proc = q
      BY DEF U, D
    <3>2. PICK j \in D : f[j] = k
      BY <1>3
    <3> QED
      BY <1>1, <3>1, <3>2
  <2> HIDE DEF procs
  <2> QED
    BY <2>1, <2>2, <2>3 DEF Lists
<1>7. Sorted(U) = procs
  <2> HIDE DEF procs
  <2> QED
    BY <1>5, <1>6, SortedUnique
<1>8. StandardSends(B, p) =
        [k \in D |-> [proc |-> procs[k],
                      elmts |-> LocalElmts(Sorted(Offd(B, procs[k]) \cap Own(B, p)),
                                           ColStart(B, p))]]
  <2>1. DOMAIN procs = D
    OBVIOUS
  <2> HIDE DEF procs
  <2> QED
    BY <1>7, <2>1 DEF StandardSends, U, Users
<1>9. list = [k \in D |-> [proc |-> heard[f[k]].proc,
                           elmts |-> LocalElmts(heard[f[k]].elmts, ColStart(B, p))]]
  BY <1>2 DEF Localised, D
<1>10. \A k \in D : /\ heard[f[k]].proc = procs[k]
                    /\ heard[f[k]].elmts = Sorted(Offd(B, procs[k]) \cap Own(B, p))
  BY <1>3, <1>4
<1> HIDE DEF procs
<1> QED
  BY <1>8, <1>9, <1>10

-----------------------------------------------------------------------------
(* The invariant of the packages. *)

\* The contact that p has made with the k-th of its list.
ContactOf(p, k) == [from |-> p, to |-> contacts[p][k].to, in |-> entered[p], nr |-> k]
InExchange == {"recvs", "sends"}

PackageType ==
  DOMAIN contacts = Proc /\ DOMAIN responses = Proc /\ DOMAIN recvs = Proc /\ DOMAIN sends = Proc

\* Contacts are open while their processes are in the exchange, and until their
\* receivers have entered it.
OpenInv ==
  /\ \A c \in open : \E p \in Proc : \E k \in DOMAIN contacts[p] :
       pc[p] \in InExchange /\ c = ContactOf(p, k)
  /\ \A p \in Proc : \A k \in DOMAIN contacts[p] :
       pc[p] \in InExchange /\ entered[contacts[p][k].to] < entered[p] => ContactOf(p, k) \in open

ContactInv ==
  \A p \in Proc :
    /\ pc[p] = "recvs" => contacts[p] = RangeContactList(Cols(p))
    /\ pc[p] = "sends" => contacts[p] = SendContactList(Cols(p), recvs[p])

\* A contact of the first exchange is open or has its answer.
AnswersInv ==
  \A p \in Proc : pc[p] = "recvs" =>
    /\ responses[p] = [k \in DOMAIN contacts[p] |-> responses[p][k]]
    /\ \A k \in DOMAIN contacts[p] :
         ContactOf(p, k) \in open \/ AnswerRight(A(p), contacts[p][k], responses[p][k])

RecvsInv ==
  \A p \in Proc : pc[p] \in {"contact", "sends", "pkg", "product"} =>
    recvs[p] = StandardRecvs(A(p), p)

\* q has entered the exchange that p is in, and has no contact open to p.
Answered(q, p) ==
  entered[q] >= entered[p] /\ \A c \in open : c.from = q /\ c.to = p => c.in # entered[p]

\* In the second exchange p has the columns of the users that it has answered.
ToldInv ==
  \A p \in Proc : pc[p] = "sends" =>
    /\ ToldColumns(A(p), p, sends[p])
    /\ \A q \in Users(A(p), p) :
         (\E k \in DOMAIN sends[p] : sends[p][k].proc = q) <=> Answered(q, p)

SendsInv ==
  \A p \in Proc : pc[p] \in {"pkg", "product"} => sends[p] = StandardSends(A(p), p)

PackageInv == /\ PackageType /\ OpenInv /\ ContactInv /\ AnswersInv
              /\ RecvsInv /\ ToldInv /\ SendsInv

\* Two processes in the same exchange are at the same step with the same matrix.
LEMMA SameExchange ==
  ASSUME TypeInv, ExchangeInv, NEW p \in Proc, NEW q \in Proc,
         pc[p] \in InExchange, pc[q] \in InExchange, entered[p] = entered[q]
  PROVE  pc[p] = pc[q] /\ round[p] = round[q] /\ A(p) = A(q)
<1>1. /\ entered[p] = 2 * (round[p] - 1) + EnteredAt(pc[p])
      /\ entered[q] = 2 * (round[q] - 1) + EnteredAt(pc[q])
  BY DEF ExchangeInv
<1>2. /\ EnteredAt(pc[p]) = IF pc[p] = "recvs" THEN 1 ELSE 2
      /\ EnteredAt(pc[q]) = IF pc[q] = "recvs" THEN 1 ELSE 2
  BY DEF EnteredAt, InExchange
<1>3. round[p] \in Int /\ round[q] \in Int
  BY ProgramAssumption DEF TypeInv
<1>4. round[p] = round[q] /\ EnteredAt(pc[p]) = EnteredAt(pc[q])
  <2>1. PICK i \in 1 .. 2 : i = EnteredAt(pc[p])
    BY <1>2
  <2>2. PICK j \in 1 .. 2 : j = EnteredAt(pc[q])
    BY <1>2
  <2>3. 2 * (round[p] - 1) + i = 2 * (round[q] - 1) + j
    BY <1>1, <2>1, <2>2
  <2>4. round[p] = round[q] /\ i = j
    BY <1>3, <2>3
  <2> QED
    BY <2>1, <2>2, <2>4
<1>5. pc[p] = pc[q]
  BY <1>2, <1>4 DEF InExchange
<1> QED
  BY <1>4, <1>5 DEF A

\* A contact is of a process in the exchange it is in.
LEMMA OpenContact ==
  ASSUME OpenInv, NEW c \in open
  PROVE  \E p \in Proc : \E k \in DOMAIN contacts[p] :
           /\ pc[p] \in InExchange /\ c = ContactOf(p, k)
           /\ c.from = p /\ c.to = contacts[p][k].to /\ c.in = entered[p] /\ c.nr = k
BY DEF OpenInv, ContactOf

\* Steps of a process that has no open contact, to one where it needs none.
LEMMA RestKeeps ==
  ASSUME PackageInv, NEW p \in Proc,
         program' = program, entered' = entered, open' = open, PackageType',
         \A r \in Proc \ {p} : /\ pc'[r] = pc[r] /\ round'[r] = round[r]
                               /\ contacts'[r] = contacts[r] /\ responses'[r] = responses[r]
                               /\ recvs'[r] = recvs[r] /\ sends'[r] = sends[r],
         pc'[p] \notin InExchange, \A c \in open : c.from # p,
         pc'[p] \in {"contact", "pkg", "product"} => recvs'[p] = StandardRecvs(A(p)', p),
         pc'[p] \in {"pkg", "product"} => sends'[p] = StandardSends(A(p)', p)
  PROVE  PackageInv'
<1>1. /\ OpenInv /\ ContactInv /\ AnswersInv /\ RecvsInv /\ ToldInv /\ SendsInv
  BY DEF PackageInv
<1>2. \A r \in Proc \ {p} : A(r)' = A(r) /\ Cols(r)' = Cols(r)
  BY DEF A, Cols
<1>3. /\ pc'[p] # "recvs" /\ pc'[p] # "sends"
  BY DEF InExchange
<1>4. \A r \in Proc \ {p} : \A k : ContactOf(r, k)' = ContactOf(r, k)
  BY DEF ContactOf
<1>5. OpenInv'
  <2>1. ASSUME NEW c \in open'
        PROVE  \E r \in Proc : \E k \in DOMAIN contacts'[r] :
                 pc'[r] \in InExchange /\ c = ContactOf(r, k)'
    <3>1. PICK r \in Proc : \E k \in DOMAIN contacts[r] :
            /\ pc[r] \in InExchange /\ c = ContactOf(r, k) /\ c.from = r
      BY <1>1, <2>1, OpenContact
    <3>2. r \in Proc \ {p}
      BY <2>1, <3>1
    <3> QED
      BY <1>4, <3>1, <3>2
  <2>2. ASSUME NEW r \in Proc, NEW k \in DOMAIN contacts'[r],
               pc'[r] \in InExchange, entered'[contacts'[r][k].to] < entered'[r]
        PROVE  ContactOf(r, k)' \in open'
    <3>1. r \in Proc \ {p}
      BY <2>2
    <3> QED
      BY <1>1, <1>4, <2>2, <3>1 DEF OpenInv
  <2> QED
    BY <2>1, <2>2 DEF OpenInv
<1>6. ContactInv'
  BY <1>1, <1>2, <1>3 DEF ContactInv
<1>7. AnswersInv'
  <2> SUFFICES ASSUME NEW r \in Proc, pc'[r] = "recvs"
               PROVE  /\ responses'[r] = [k \in DOMAIN contacts'[r] |-> responses'[r][k]]
                      /\ \A k \in DOMAIN contacts'[r] :
                           \/ ContactOf(r, k)' \in open'
                           \/ AnswerRight(A(r)', contacts'[r][k], responses'[r][k])
    BY DEF AnswersInv
  <2>1. r \in Proc \ {p}
    BY <1>3
  <2>2. pc[r] = "recvs" /\ A(r)' = A(r) /\ \A k : ContactOf(r, k)' = ContactOf(r, k)
    BY <1>2, <1>4, <2>1
  <2> QED
    BY <1>1, <2>1, <2>2 DEF AnswersInv
<1>8. RecvsInv'
  BY <1>1, <1>2, <1>3 DEF RecvsInv
<1>9. ToldInv'
  <2> SUFFICES ASSUME NEW r \in Proc, pc'[r] = "sends"
               PROVE  /\ ToldColumns(A(r)', r, sends'[r])
                      /\ \A q \in Users(A(r)', r) :
                           (\E k \in DOMAIN sends'[r] : sends'[r][k].proc = q)
                             <=> Answered(q, r)'
    BY DEF ToldInv
  <2>1. r \in Proc \ {p}
    BY <1>3
  <2>2. pc[r] = "sends" /\ A(r)' = A(r) /\ sends'[r] = sends[r]
    BY <1>2, <2>1
  <2>3. \A q : Answered(q, r)' <=> Answered(q, r)
    BY DEF Answered
  <2> QED
    BY <1>1, <2>2, <2>3 DEF ToldInv
<1>10. SendsInv'
  BY <1>1, <1>2, <1>3 DEF SendsInv
<1> QED
  BY <1>5, <1>6, <1>7, <1>8, <1>9, <1>10 DEF PackageInv

\* Out of the exchanges a process has no contact open.
LEMMA NoContact ==
  ASSUME OpenInv, NEW p \in Proc,
         pc[p] \notin InExchange \/ \A c \in open : c.in # entered[p]
  PROVE  \A c \in open : c.from # p
<1> SUFFICES ASSUME NEW c \in open, c.from = p PROVE FALSE
  OBVIOUS
<1>1. PICK r \in Proc : pc[r] \in InExchange /\ c.from = r /\ c.in = entered[r]
  BY OpenContact
<1> QED
  BY <1>1

\* The steps out of the exchanges keep the invariant of the packages.
LEMMA PassKeeps ==
  ASSUME IInv, PackageInv, NEW p \in Proc,
         \/ Locate(p) \/ LocateRows(p) \/ Located(p)
         \/ StartProduct(p) \/ FinishProduct(p) \/ Destroy(p)
  PROVE  PackageInv'
<1>1. /\ TypeInv /\ PackageType /\ OpenInv /\ RecvsInv /\ SendsInv
  BY DEF IInv, PackageInv
<1>2. /\ pc \in [Proc -> Labels] /\ DOMAIN round = Proc
      /\ DOMAIN recvs = Proc /\ DOMAIN sends = Proc
  BY <1>1 DEF TypeInv, PackageType
<1>3. /\ pc[p] \notin InExchange
      /\ UNCHANGED <<program, contacts, responses, entered, open>>
      /\ DOMAIN recvs' = Proc /\ DOMAIN sends' = Proc
      /\ \A r \in Proc \ {p} : /\ pc'[r] = pc[r] /\ round'[r] = round[r]
                               /\ recvs'[r] = recvs[r] /\ sends'[r] = sends[r]
      /\ \/ pc'[p] \in {"start", "locate", "partition"}
         \/ /\ pc[p] \in {"pkg", "product"} /\ pc'[p] \in {"pkg", "product"}
            /\ UNCHANGED <<round, recvs, sends>>
  <2>1. CASE Locate(p)
    BY <1>2, <2>1 DEF Locate, Goto, InExchange, package, exchange
  <2>2. CASE LocateRows(p)
    BY <1>2, <2>2 DEF LocateRows, InExchange, package, exchange
  <2>3. CASE Located(p)
    BY <1>2, <2>3 DEF Located, Goto, InExchange, package, exchange
  <2>4. CASE StartProduct(p)
    BY <1>2, <2>4 DEF StartProduct, Goto, InExchange, package, exchange
  <2>5. CASE FinishProduct(p)
    BY <1>2, <2>5 DEF FinishProduct, Goto, InExchange, package, exchange
  <2>6. CASE Destroy(p)
    BY <1>2, <2>6 DEF Destroy, Goto, InExchange, exchange
  <2> QED
    BY <2>1, <2>2, <2>3, <2>4, <2>5, <2>6
<1>4. \A c \in open : c.from # p
  BY <1>1, <1>3, NoContact
<1>5. PackageType'
  BY <1>1, <1>3 DEF PackageType
<1>6. pc'[p] \notin InExchange
  BY <1>3 DEF InExchange
<1>7. pc'[p] \in {"contact", "pkg", "product"} =>
        recvs'[p] = StandardRecvs(A(p)', p) /\ sends'[p] = StandardSends(A(p)', p)
  <2> SUFFICES ASSUME pc'[p] \in {"contact", "pkg", "product"}
               PROVE  recvs'[p] = StandardRecvs(A(p)', p) /\ sends'[p] = StandardSends(A(p)', p)
    OBVIOUS
  <2>1. pc[p] \in {"pkg", "product"} /\ UNCHANGED <<round, recvs, sends>>
    BY <1>3
  <2>2. A(p)' = A(p)
    BY <1>3, <2>1 DEF A
  <2> QED
    BY <1>1, <2>1, <2>2 DEF RecvsInv, SendsInv
<1> QED
  BY <1>3, <1>4, <1>5, <1>6, <1>7, RestKeeps

\* No step at all keeps it.
LEMMA StillKeeps ==
  ASSUME PackageInv, UNCHANGED vars
  PROVE  PackageInv'
<1>1. UNCHANGED <<program, pc, round, contacts, responses, recvs, sends, entered, left, open>>
  BY DEF vars, package, exchange
<1>2. \A q, p : Answered(q, p)' <=> Answered(q, p)
  BY <1>1 DEF Answered
<1>3. \A q, k : ContactOf(q, k)' = ContactOf(q, k)
  BY <1>1 DEF ContactOf
<1>4. \A p : A(p)' = A(p) /\ Cols(p)' = Cols(p)
  BY <1>1 DEF A, Cols
<1>5. PackageType' /\ ContactInv' /\ RecvsInv' /\ SendsInv'
  BY <1>1, <1>4 DEF PackageInv, PackageType, ContactInv, RecvsInv, SendsInv
<1>6. OpenInv'
  BY <1>1, <1>3 DEF PackageInv, OpenInv
<1>7. AnswersInv'
  BY <1>1, <1>3, <1>4 DEF PackageInv, AnswersInv
<1>8. ToldInv'
  BY <1>1, <1>2, <1>4 DEF PackageInv, ToldInv
<1> QED
  BY <1>5, <1>6, <1>7, <1>8 DEF PackageInv

\* The recvs that a process makes of the answers are those of the standard way.
LEMMA DetermineRecvProcsKeeps ==
  ASSUME IInv, PackageInv, NEW p \in Proc, DetermineRecvProcs(p)
  PROVE  PackageInv'
<1>1. /\ TypeInv /\ PackageType /\ OpenInv /\ ContactInv /\ AnswersInv
  BY DEF IInv, PackageInv
<1>2. /\ pc \in [Proc -> Labels] /\ DOMAIN contacts = Proc /\ DOMAIN responses = Proc
      /\ DOMAIN recvs = Proc /\ DOMAIN sends = Proc
  BY <1>1 DEF TypeInv, PackageType
<1>3. /\ pc[p] = "recvs" /\ pc' = [pc EXCEPT ![p] = "contact"]
      /\ \A c \in open : c.in # entered[p]
      /\ recvs' = [recvs EXCEPT ![p] = RecvProcs(p, Cols(p), FlattenSeq(responses[p]))]
      /\ contacts' = [contacts EXCEPT ![p] = <<>>]
      /\ responses' = [responses EXCEPT ![p] = <<>>]
      /\ UNCHANGED <<program, round, sends, entered, open>>
  BY DEF DetermineRecvProcs, Goto, Ex!Leave
<1>4. IsMatrix(A(p)) /\ A(p)' = A(p)
  <2>1. round[p] <= NumRounds
    BY <1>1, <1>3 DEF TypeInv
  <2> QED
    BY <1>1, <1>3, <2>1, MatrixOf DEF A
<1>5. Cols(p) = Sorted(Offd(A(p), p)) /\ Offd(A(p), p) \in SUBSET Row
  <2>1. A(p).col_map_offd = [q \in Proc |-> Sorted(Offd(A(p), q))]
    BY <1>4 DEF IsMatrix
  <2> QED
    BY <1>4, <2>1, OffdOf DEF Cols
<1>6. \A c \in open : c.from # p
  BY <1>1, <1>3, NoContact
<1>7. PICK n \in Nat : DOMAIN contacts[p] = 1 .. n
  BY <1>1, <1>3, <1>5, ContactListRight DEF ContactInv
<1>8. ContactsRight(Offd(A(p), p), contacts[p])
  BY <1>1, <1>3, <1>5, ContactListRight DEF ContactInv
<1>9. /\ responses[p] = [k \in 1 .. n |-> responses[p][k]]
      /\ \A k \in 1 .. n : AnswerRight(A(p), contacts[p][k], responses[p][k])
  <2>1. \A k : ContactOf(p, k) \notin open
    BY <1>6 DEF ContactOf
  <2> QED
    BY <1>1, <1>3, <1>7, <2>1 DEF AnswersInv
<1>10. responses[p] \in [1 .. n -> Seq(Range_)]
  <2>1. \A k \in 1 .. n : responses[p][k] \in Seq(Range_)
    BY <1>9 DEF AnswerRight, RangesRight
  <2> QED
    BY <1>9, <2>1
<1>11. RangesRight(A(p), Offd(A(p), p), FlattenSeq(responses[p]))
  BY <1>5, <1>7, <1>8, <1>9, <1>10, FlatRight
<1>12. recvs'[p] = StandardRecvs(A(p), p)
  BY <1>2, <1>3, <1>4, <1>5, <1>11, RecvRight
<1>13. PackageType'
  BY <1>2, <1>3 DEF PackageType
<1>14. \A r \in Proc \ {p} : /\ pc'[r] = pc[r] /\ round'[r] = round[r]
                             /\ contacts'[r] = contacts[r] /\ responses'[r] = responses[r]
                             /\ recvs'[r] = recvs[r] /\ sends'[r] = sends[r]
  BY <1>2, <1>3
<1>15. pc'[p] = "contact"
  BY <1>2, <1>3
<1>16. pc'[p] \notin InExchange /\ pc'[p] \notin {"pkg", "product"}
  BY <1>15 DEF InExchange
<1>17. program' = program /\ entered' = entered /\ open' = open
  BY <1>3
<1> QED
  BY <1>4, <1>6, <1>12, <1>13, <1>14, <1>16, <1>17, RestKeeps

\* The sends that a process makes of what users have told are those of the standard way.
LEMMA DetermineSendProcsKeeps ==
  ASSUME IInv, PackageInv, NEW p \in Proc, DetermineSendProcs(p)
  PROVE  PackageInv'
<1>1. /\ TypeInv /\ PackageType /\ OpenInv /\ RecvsInv /\ ToldInv
  BY DEF IInv, PackageInv
<1>2. /\ pc \in [Proc -> Labels] /\ DOMAIN contacts = Proc /\ DOMAIN responses = Proc
      /\ DOMAIN recvs = Proc /\ DOMAIN sends = Proc
  BY <1>1 DEF TypeInv, PackageType
<1>3. PICK list \in SendProcs(sends[p], ColStart(A(p), p)) :
        sends' = [sends EXCEPT ![p] = list]
  BY DEF DetermineSendProcs
<1>4. /\ pc[p] = "sends" /\ pc' = [pc EXCEPT ![p] = "pkg"]
      /\ \A q \in Proc : entered[q] >= entered[p]
      /\ \A c \in open : c.in # entered[p]
      /\ contacts' = [contacts EXCEPT ![p] = <<>>]
      /\ responses' = [responses EXCEPT ![p] = <<>>]
      /\ UNCHANGED <<program, round, recvs, entered, open>>
  BY DEF DetermineSendProcs, Goto, Ex!Leave
<1>5. IsMatrix(A(p)) /\ A(p)' = A(p)
  <2>1. round[p] <= NumRounds
    BY <1>1, <1>4 DEF TypeInv
  <2> QED
    BY <1>1, <1>4, <2>1, MatrixOf DEF A
<1>6. \A c \in open : c.from # p
  BY <1>1, <1>4, NoContact
<1>7. \A q \in Proc : Answered(q, p)
  BY <1>4 DEF Answered
<1>8. ToldColumns(A(p), p, sends[p])
  BY <1>1, <1>4 DEF ToldInv
<1>9. \A q \in Users(A(p), p) : \E k \in DOMAIN sends[p] : sends[p][k].proc = q
  BY <1>1, <1>4, <1>7 DEF ToldInv, Users
<1>10. list = StandardSends(A(p), p)
  BY <1>5, <1>8, <1>9, SendRight
<1>11. sends'[p] = StandardSends(A(p), p) /\ recvs'[p] = StandardRecvs(A(p), p)
  BY <1>1, <1>2, <1>3, <1>4, <1>10 DEF RecvsInv
<1>12. PackageType'
  BY <1>2, <1>3, <1>4 DEF PackageType
<1>13. \A r \in Proc \ {p} : /\ pc'[r] = pc[r] /\ round'[r] = round[r]
                             /\ contacts'[r] = contacts[r] /\ responses'[r] = responses[r]
                             /\ recvs'[r] = recvs[r] /\ sends'[r] = sends[r]
  BY <1>2, <1>3, <1>4
<1>14. pc'[p] = "pkg"
  BY <1>2, <1>4
<1>15. pc'[p] \notin InExchange
  BY <1>14 DEF InExchange
<1>16. program' = program /\ entered' = entered /\ open' = open
  BY <1>4
<1> QED
  BY <1>5, <1>6, <1>11, <1>12, <1>13, <1>15, <1>16, RestKeeps

\* The standard recvs are one for each owner.
LEMMA StandardProcs ==
  ASSUME NEW B, IsMatrix(B), NEW q \in Proc
  PROVE  /\ \A k \in DOMAIN StandardRecvs(B, q) : StandardRecvs(B, q)[k].proc \in Owners(B, q)
         /\ \A j, k \in DOMAIN StandardRecvs(B, q) :
              StandardRecvs(B, q)[j].proc = StandardRecvs(B, q)[k].proc => j = k
         /\ \A p \in Owners(B, q) : \E k \in DOMAIN StandardRecvs(B, q) :
              StandardRecvs(B, q)[k].proc = p
<1> DEFINE owners == Sorted(Owners(B, q))
           n == Cardinality(Owners(B, q))
<1>1. Owners(B, q) \in SUBSET Int /\ IsFiniteSet(Owners(B, q))
  BY OffdOf
<1>2. Lists(owners, n, Owners(B, q))
  BY <1>1, SortedIs
<1> HIDE DEF owners, n
<1>3. /\ n \in Nat /\ DOMAIN owners = 1 .. n
      /\ \A k \in 1 .. n : owners[k] \in Owners(B, q) /\ owners[k] \in Int
      /\ \A i, j \in 1 .. n : i < j => owners[i] < owners[j]
      /\ \A x \in Owners(B, q) : \E i \in 1 .. n : owners[i] = x
  BY <1>1, <1>2 DEF Lists
<1>4. /\ DOMAIN StandardRecvs(B, q) = 1 .. n
      /\ \A k \in 1 .. n : StandardRecvs(B, q)[k].proc = owners[k]
  BY <1>3 DEF StandardRecvs, owners
<1>5. ASSUME NEW j \in 1 .. n, NEW k \in 1 .. n, owners[j] = owners[k]
      PROVE  j = k
  <2>1. j < k \/ k < j \/ j = k
    OBVIOUS
  <2> QED
    BY <1>3, <1>5, <2>1
<1> QED
  BY <1>3, <1>4, <1>5

\* Contacts are with processes.
LEMMA ContactTo ==
  ASSUME TypeInv, ContactInv, RecvsInv, NEW p \in Proc, pc[p] \in InExchange,
         NEW k \in DOMAIN contacts[p]
  PROVE  /\ contacts[p][k].to \in Proc
         /\ pc[p] = "recvs" => ContactRight(Offd(A(p), p), contacts[p][k])
         /\ pc[p] = "sends" => /\ contacts[p][k].to \in Owners(A(p), p)
                               /\ contacts[p][k].buf =
                                    Sorted(Offd(A(p), p) \cap Own(A(p), contacts[p][k].to))
<1>1. IsMatrix(A(p))
  <2>1. round[p] <= NumRounds
    BY DEF TypeInv, InExchange
  <2> QED
    BY <2>1, MatrixOf
<1>2. Cols(p) = Sorted(Offd(A(p), p)) /\ Offd(A(p), p) \in SUBSET Row
  <2>1. A(p).col_map_offd = [q \in Proc |-> Sorted(Offd(A(p), q))]
    BY <1>1 DEF IsMatrix
  <2> QED
    BY <1>1, <2>1, OffdOf DEF Cols
<1>3. CASE pc[p] = "recvs"
  <2>1. ContactRight(Offd(A(p), p), contacts[p][k])
    BY <1>2, <1>3, ContactListRight DEF ContactInv, ContactsRight
  <2> QED
    BY <1>3, <2>1 DEF ContactRight
<1>4. CASE pc[p] = "sends"
  <2>1. contacts[p] = SendContactList(Cols(p), StandardRecvs(A(p), p))
    BY <1>4 DEF ContactInv, RecvsInv
  <2>2. /\ k \in DOMAIN StandardRecvs(A(p), p)
        /\ contacts[p][k].to = StandardRecvs(A(p), p)[k].proc
        /\ contacts[p][k].buf = RecvCols(Cols(p), StandardRecvs(A(p), p), k)
    BY <2>1 DEF SendContactList
  <2>3. /\ contacts[p][k].to \in Owners(A(p), p)
        /\ contacts[p][k].buf = Sorted(Offd(A(p), p) \cap Own(A(p), contacts[p][k].to))
    BY <1>1, <1>2, <2>2, RecvColsRight
  <2>4. contacts[p][k].to \in Proc
    BY <1>1, <2>3, OffdOf
  <2> QED
    BY <1>4, <2>3, <2>4
<1> QED
  BY <1>3, <1>4 DEF InExchange

\* The second exchange has one contact with each owner.
LEMMA OneContact ==
  ASSUME NEW B, IsMatrix(B), NEW q \in Proc, NEW cols,
         NEW list, list = SendContactList(cols, StandardRecvs(B, q))
  PROVE  /\ \A p \in Owners(B, q) : \E k \in DOMAIN list : list[k].to = p
         /\ \A j, k \in DOMAIN list : list[j].to = list[k].to => j = k
<1>1. /\ DOMAIN list = DOMAIN StandardRecvs(B, q)
      /\ \A k \in DOMAIN list : list[k].to = StandardRecvs(B, q)[k].proc
  BY DEF SendContactList
<1> QED
  BY <1>1, StandardProcs

\* Who has entered the second exchange before p is in it.
LEMMA EnteredBefore ==
  ASSUME TypeInv, ExchangeInv, NEW p \in Proc, NEW q \in Proc,
         pc[p] = "contact", entered[q] >= entered[p] + 1
  PROVE  pc[q] = "sends" /\ entered[q] = entered[p] + 1 /\ A(q) = A(p)
<1>1. PICK i \in Nat, j \in Nat :
        i = EnteredAt(pc[q]) /\ j = LeftAt(pc[q]) /\ i <= 2 /\ (j = i \/ j = i - 1)
  BY DEF EnteredAt, LeftAt
<1>2. EnteredAt(pc[p]) = 1
  BY DEF EnteredAt
<1>3. PICK a \in Int, b \in Int : a = round[p] /\ b = round[q]
  BY ProgramAssumption DEF TypeInv
<1>4. /\ entered[p] = 2 * (a - 1) + 1
      /\ entered[q] = 2 * (b - 1) + i /\ left[q] = 2 * (b - 1) + j
      /\ left[q] <= entered[p]
  BY <1>1, <1>2, <1>3 DEF ExchangeInv
<1>5. a = b /\ i = 2 /\ j = 1
  BY <1>1, <1>4
<1>6. pc[q] = "sends"
  BY <1>1, <1>5 DEF EnteredAt, LeftAt
<1> QED
  BY <1>3, <1>4, <1>5, <1>6 DEF A

\* Who enters the second exchange when p is in it.
LEMMA EnteredAfter ==
  ASSUME TypeInv, ExchangeInv, NEW p \in Proc, NEW q \in Proc,
         pc[p] = "sends", pc[q] \in {"partition", "contact"},
         entered[q] < entered[p]
  PROVE  pc[q] = "contact" /\ entered[q] + 1 = entered[p] /\ A(q) = A(p)
<1>1. PICK i \in Nat : i = EnteredAt(pc[q]) /\ i <= 1 /\ (i = 1 => pc[q] = "contact")
  BY DEF EnteredAt
<1>2. EnteredAt(pc[p]) = 2 /\ LeftAt(pc[p]) = 1
  BY DEF EnteredAt, LeftAt
<1>3. PICK a \in Int, b \in Int : a = round[p] /\ b = round[q]
  BY ProgramAssumption DEF TypeInv
<1>4. /\ entered[p] = 2 * (a - 1) + 2 /\ left[p] = 2 * (a - 1) + 1
      /\ entered[q] = 2 * (b - 1) + i
      /\ left[p] <= entered[q]
  BY <1>1, <1>2, <1>3 DEF ExchangeInv
<1>5. a = b /\ i = 1
  BY <1>1, <1>4
<1> QED
  BY <1>1, <1>3, <1>4, <1>5 DEF A

\* The calls of hypre_DataExchangeList: p enters with the contacts of its label.
LEMMA EnterKeeps ==
  ASSUME IInv, PackageInv, NEW p \in Proc, NEW label \in InExchange, NEW list,
         pc[p] = IF label = "recvs" THEN "partition" ELSE "contact",
         CallExchange(p, list, label),
         list = IF label = "recvs" THEN RangeContactList(Cols(p))
                ELSE SendContactList(Cols(p), recvs[p]),
         sends' = IF label = "recvs" THEN sends ELSE [sends EXCEPT ![p] = <<>>],
         UNCHANGED <<program, round, recvs>>
  PROVE  PackageInv'
<1>1. /\ TypeInv /\ ExchangeInv /\ PackageType /\ OpenInv /\ ContactInv /\ AnswersInv
      /\ RecvsInv /\ ToldInv /\ SendsInv
  BY DEF IInv, PackageInv
<1>2. /\ pc \in [Proc -> Labels] /\ DOMAIN contacts = Proc /\ DOMAIN responses = Proc
      /\ DOMAIN recvs = Proc /\ DOMAIN sends = Proc /\ entered \in [Proc -> Nat]
  BY <1>1 DEF TypeInv, PackageType
<1>3. /\ pc' = [pc EXCEPT ![p] = label] /\ entered' = [entered EXCEPT ![p] = @ + 1]
      /\ open' = open \cup {[from |-> p, to |-> list[k].to, in |-> entered[p] + 1, nr |-> k] :
                              k \in DOMAIN list}
      /\ contacts' = [contacts EXCEPT ![p] = list]
      /\ responses' = [responses EXCEPT ![p] = [k \in DOMAIN list |-> <<>>]]
  BY DEF CallExchange, Ex!EnterWith, Goto
<1>4. /\ \A r : A(r)' = A(r) /\ Cols(r)' = Cols(r)
      /\ IsMatrix(A(p))
  <2>1. round[p] <= NumRounds
    BY <1>1 DEF TypeInv
  <2> QED
    BY <1>1, <2>1, MatrixOf DEF A, Cols
<1>5. PackageType'
  BY <1>2, <1>3 DEF PackageType
<1>6. /\ pc[p] \notin InExchange /\ label \in {"recvs", "sends"}
      /\ \A c \in open : c.from # p
  <2>1. pc[p] \notin InExchange
    BY DEF InExchange
  <2> QED
    BY <1>1, <2>1, NoContact DEF InExchange
<1>7. /\ pc'[p] = label /\ contacts'[p] = list /\ entered'[p] = entered[p] + 1
      /\ responses'[p] = [k \in DOMAIN list |-> <<>>] /\ recvs'[p] = recvs[p]
      /\ \A r \in Proc \ {p} :
           /\ pc'[r] = pc[r] /\ contacts'[r] = contacts[r] /\ responses'[r] = responses[r]
           /\ recvs'[r] = recvs[r] /\ sends'[r] = sends[r] /\ entered'[r] = entered[r]
  BY <1>2, <1>3
<1>8. \A r \in Proc \ {p} : \A k : ContactOf(r, k)' = ContactOf(r, k)
  BY <1>7 DEF ContactOf
<1>9. \A k : ContactOf(p, k)' = [from |-> p, to |-> list[k].to, in |-> entered[p] + 1, nr |-> k]
  BY <1>7 DEF ContactOf
<1>10. open' = open \cup {ContactOf(p, k)' : k \in DOMAIN list}
  BY <1>3, <1>9
<1>11. OpenInv'
  <2>1. ASSUME NEW c \in open'
        PROVE  \E r \in Proc : \E k \in DOMAIN contacts'[r] :
                 pc'[r] \in InExchange /\ c = ContactOf(r, k)'
    <3>1. CASE c \in open
      <4>1. PICK r \in Proc : \E k \in DOMAIN contacts[r] :
              /\ pc[r] \in InExchange /\ c = ContactOf(r, k) /\ c.from = r
        BY <1>1, <3>1, OpenContact
      <4>2. r \in Proc \ {p}
        BY <1>6, <3>1, <4>1
      <4> QED
        BY <1>7, <1>8, <4>1, <4>2
    <3>2. CASE c \notin open
      BY <1>7, <1>10, <2>1, <3>2
    <3> QED
      BY <3>1, <3>2
  <2>2. ASSUME NEW r \in Proc, NEW k \in DOMAIN contacts'[r],
               pc'[r] \in InExchange, entered'[contacts'[r][k].to] < entered'[r]
        PROVE  ContactOf(r, k)' \in open'
    <3>1. CASE r = p
      BY <1>7, <1>10, <2>2, <3>1
    <3>2. CASE r # p
      <4>1. /\ pc[r] \in InExchange /\ k \in DOMAIN contacts[r]
            /\ contacts'[r] = contacts[r] /\ entered'[r] = entered[r]
        BY <1>7, <2>2, <3>2
      <4>2. PICK q \in Proc : q = contacts[r][k].to
        BY <1>1, <4>1, ContactTo
      <4>3. entered[q] \in Nat /\ entered[r] \in Nat /\ entered'[q] >= entered[q]
        BY <1>2, <1>3
      <4>4. entered'[q] \in Nat
        BY <1>2, <1>3
      <4>5. entered[q] < entered[r]
        BY <2>2, <4>1, <4>2, <4>3, <4>4
      <4>6. ContactOf(r, k) \in open
        BY <1>1, <4>1, <4>2, <4>5 DEF OpenInv
      <4> QED
        BY <1>8, <1>10, <3>2, <4>6
    <3> QED
      BY <3>1, <3>2
  <2> QED
    BY <2>1, <2>2 DEF OpenInv
<1>12. ContactInv'
  BY <1>1, <1>4, <1>6, <1>7 DEF ContactInv
<1>13. AnswersInv'
  <2> SUFFICES ASSUME NEW r \in Proc, pc'[r] = "recvs"
               PROVE  /\ responses'[r] = [k \in DOMAIN contacts'[r] |-> responses'[r][k]]
                      /\ \A k \in DOMAIN contacts'[r] :
                           \/ ContactOf(r, k)' \in open'
                           \/ AnswerRight(A(r)', contacts'[r][k], responses'[r][k])
    BY DEF AnswersInv
  <2>1. CASE r = p
    <3>1. responses'[p] = [k \in DOMAIN contacts'[p] |-> responses'[p][k]]
      BY <1>7
    <3> QED
      BY <1>7, <1>10, <2>1, <3>1
  <2>2. CASE r # p
    <3>1. pc[r] = "recvs"
      BY <1>7, <2>2
    <3>2. /\ responses[r] = [k \in DOMAIN contacts[r] |-> responses[r][k]]
          /\ \A k \in DOMAIN contacts[r] :
               ContactOf(r, k) \in open \/ AnswerRight(A(r), contacts[r][k], responses[r][k])
      BY <1>1, <3>1 DEF AnswersInv
    <3>3. /\ responses'[r] = responses[r] /\ contacts'[r] = contacts[r] /\ A(r)' = A(r)
          /\ \A k : ContactOf(r, k)' = ContactOf(r, k)
      BY <1>4, <1>7, <1>8, <2>2
    <3> QED
      BY <1>10, <3>2, <3>3
  <2> QED
    BY <2>1, <2>2
<1>14. RecvsInv'
  <2> SUFFICES ASSUME NEW r \in Proc, pc'[r] \in {"contact", "sends", "pkg", "product"}
               PROVE  recvs'[r] = StandardRecvs(A(r)', r)
    BY DEF RecvsInv
  <2>1. pc[r] \in {"contact", "sends", "pkg", "product"}
    BY <1>6, <1>7
  <2> QED
    BY <1>1, <1>4, <2>1 DEF RecvsInv
<1>15. SendsInv'
  BY <1>1, <1>4, <1>6, <1>7 DEF SendsInv
<1>16. ToldInv'
  <2> SUFFICES ASSUME NEW r \in Proc, pc'[r] = "sends"
               PROVE  /\ ToldColumns(A(r), r, sends'[r])
                      /\ \A q \in Users(A(r), r) :
                           (\E k \in DOMAIN sends'[r] : sends'[r][k].proc = q)
                             <=> Answered(q, r)'
    BY <1>4 DEF ToldInv
  <2>1. CASE r = p
    <3>1. label = "sends" /\ sends'[r] = <<>> /\ pc[p] = "contact"
      BY <1>2, <1>7, <2>1
    <3>2. ToldColumns(A(r), r, sends'[r])
      <4>1. \A T : <<>> \in Seq(T)
        OBVIOUS
      <4>2. DOMAIN <<>> = {}
        OBVIOUS
      <4>3. PICK told : told = sends'[r] /\ (\A T : told \in Seq(T)) /\ DOMAIN told = {}
        BY <3>1, <4>1, <4>2
      <4>4. ToldColumns(A(r), r, told)
        BY <4>3 DEF ToldColumns
      <4> QED
        BY <4>3, <4>4
    <3>3. ASSUME NEW q \in Users(A(p), p), Answered(q, p)'
          PROVE  FALSE
      <4>1. q \in Proc \ {p}
        BY <1>4, OffdOf DEF Users
      <4>2. /\ entered[q] >= entered[p] + 1
            /\ \A c \in open : c.from = q /\ c.to = p => c.in # entered[p] + 1
        BY <1>7, <1>10, <3>3, <4>1 DEF Answered
      <4>3. pc[q] = "sends" /\ entered[q] = entered[p] + 1 /\ A(q) = A(p)
        BY <1>1, <3>1, <4>1, <4>2, EnteredBefore
      <4>4. contacts[q] = SendContactList(Cols(q), StandardRecvs(A(q), q))
        BY <1>1, <4>1, <4>3 DEF ContactInv, RecvsInv
      <4>5. p \in Owners(A(q), q) /\ IsMatrix(A(q))
        BY <1>4, <4>3 DEF Users
      <4>6. PICK k \in DOMAIN contacts[q] : contacts[q][k].to = p
        BY <4>1, <4>4, <4>5, OneContact
      <4>7. entered[p] < entered[q] /\ pc[q] \in InExchange
        BY <1>2, <4>3 DEF InExchange
      <4>8. ContactOf(q, k) \in open
        BY <1>1, <4>1, <4>6, <4>7 DEF OpenInv
      <4>9. ContactOf(q, k).from = q /\ ContactOf(q, k).to = p /\ ContactOf(q, k).in = entered[q]
        BY <4>6 DEF ContactOf
      <4> QED
        BY <4>2, <4>3, <4>8, <4>9
    <3> QED
      BY <2>1, <3>1, <3>2, <3>3
  <2>2. CASE r # p
    <3>1. pc[r] = "sends" /\ sends'[r] = sends[r] /\ entered'[r] = entered[r]
      BY <1>7, <2>2
    <3>2. /\ ToldColumns(A(r), r, sends[r])
          /\ \A q \in Users(A(r), r) :
               (\E k \in DOMAIN sends[r] : sends[r][k].proc = q) <=> Answered(q, r)
      BY <1>1, <3>1 DEF ToldInv
    <3>3. ASSUME NEW q \in Users(A(r), r)
          PROVE  Answered(q, r)' <=> Answered(q, r)
      <4>1. q \in Proc
        BY DEF Users
      <4>2. CASE q # p
        <5>1. entered'[q] = entered[q] /\ \A k : ContactOf(p, k)'.from # q
          BY <1>7, <1>9, <4>1, <4>2
        <5> QED
          BY <1>10, <3>1, <5>1 DEF Answered
      <4>3. CASE q = p /\ entered[p] >= entered[r]
        <5>1. entered[p] \in Nat /\ entered[r] \in Nat
          BY <1>2
        <5>2. entered'[p] >= entered[r] /\ \A k : ContactOf(p, k)'.in # entered[r]
          BY <1>7, <1>9, <4>3, <5>1
        <5> QED
          BY <1>10, <3>1, <4>3, <5>2 DEF Answered
      <4>4. CASE q = p /\ ~ entered[p] >= entered[r]
        <5>1. entered[p] \in Nat /\ entered[r] \in Nat
          BY <1>2
        <5>2. pc[p] \in {"partition", "contact"} /\ entered[p] < entered[r]
          BY <4>4, <5>1
        <5>3. pc[p] = "contact" /\ entered[p] + 1 = entered[r] /\ A(p) = A(r)
          BY <1>1, <3>1, <5>2, EnteredAfter
        <5>4. list = SendContactList(Cols(p), StandardRecvs(A(p), p))
          BY <1>1, <5>3 DEF RecvsInv
        <5>5. r \in Owners(A(p), p)
          BY <4>4, <5>3 DEF Users
        <5>6. PICK k \in DOMAIN list : list[k].to = r
          BY <1>4, <5>4, <5>5, OneContact
        <5>7. /\ ContactOf(p, k)' \in open' /\ ContactOf(p, k)'.from = p
              /\ ContactOf(p, k)'.to = r /\ ContactOf(p, k)'.in = entered[r]
          BY <1>9, <1>10, <5>3, <5>6
        <5>8. ~ Answered(p, r)'
          BY <3>1, <5>7 DEF Answered
        <5> QED
          BY <4>4, <5>8 DEF Answered
      <4> QED
        BY <4>2, <4>3, <4>4
    <3> QED
      BY <3>1, <3>2, <3>3
  <2> QED
    BY <2>1, <2>2
<1> QED
  BY <1>5, <1>11, <1>12, <1>13, <1>14, <1>15, <1>16 DEF PackageInv

\* So do both calls.
LEMMA CallKeeps ==
  ASSUME IInv, PackageInv, NEW p \in Proc, ContactAssumedOwners(p) \/ ContactRecvProcs(p)
  PROVE  PackageInv'
<1>1. CASE ContactAssumedOwners(p)
  <2>1. PICK list : /\ list = RangeContactList(Cols(p)) /\ CallExchange(p, list, "recvs")
                    /\ pc[p] = "partition" /\ UNCHANGED <<program, round, recvs, sends>>
    BY <1>1 DEF ContactAssumedOwners, package
  <2>2. PICK label \in InExchange : label = "recvs"
    BY DEF InExchange
  <2> QED
    BY <2>1, <2>2, EnterKeeps
<1>2. CASE ContactRecvProcs(p)
  <2>1. PICK list : /\ list = SendContactList(Cols(p), recvs[p]) /\ CallExchange(p, list, "sends")
                    /\ pc[p] = "contact" /\ UNCHANGED <<program, round, recvs>>
                    /\ sends' = [sends EXCEPT ![p] = <<>>]
    BY <1>2 DEF ContactRecvProcs
  <2>2. PICK label \in InExchange : label = "sends"
    BY DEF InExchange
  <2> QED
    BY <2>1, <2>2, EnterKeeps
<1> QED
  BY <1>1, <1>2

\* Whose contact an answer is for.
LEMMA AnswerTo ==
  ASSUME TypeInv, ExchangeInv, OpenInv, ContactInv, RecvsInv, NEW c \in open,
         pc[c.to] \in InExchange, entered[c.to] = c.in
  PROVE  \E p \in Proc, q \in Proc : \E k \in DOMAIN contacts[q] :
           /\ c.to = p /\ c.from = q /\ c.nr = k /\ c.in = entered[p] /\ c.in = entered[q]
           /\ contacts[q][k].to = p /\ c = ContactOf(q, k)
           /\ pc[q] = pc[p] /\ A(q) = A(p)
<1>1. PICK q \in Proc : \E k \in DOMAIN contacts[q] :
        /\ pc[q] \in InExchange /\ c = ContactOf(q, k)
        /\ c.from = q /\ c.to = contacts[q][k].to /\ c.in = entered[q] /\ c.nr = k
  BY OpenContact
<1>2. PICK k \in DOMAIN contacts[q] :
        /\ pc[q] \in InExchange /\ c = ContactOf(q, k)
        /\ c.from = q /\ c.to = contacts[q][k].to /\ c.in = entered[q] /\ c.nr = k
  BY <1>1
<1>3. PICK p \in Proc : p = c.to
  BY <1>2, ContactTo
<1>4. pc[q] = pc[p] /\ A(q) = A(p)
  BY <1>2, <1>3, SameExchange
<1> QED
  BY <1>2, <1>3, <1>4

\* An answered contact is not one of those that must be open.
LEMMA AnswerOpen ==
  ASSUME TypeInv, OpenInv, ContactInv, RecvsInv, NEW c \in open, entered[c.to] = c.in,
         pc' = pc, entered' = entered, contacts' = contacts, open' = open \ {c}
  PROVE  OpenInv'
<1>1. \A r, k : ContactOf(r, k)' = ContactOf(r, k)
  BY DEF ContactOf
<1>2. ASSUME NEW d \in open'
      PROVE  \E r \in Proc : \E k \in DOMAIN contacts'[r] :
               pc'[r] \in InExchange /\ d = ContactOf(r, k)'
  BY <1>1, <1>2 DEF OpenInv
<1>3. ASSUME NEW r \in Proc, NEW k \in DOMAIN contacts'[r],
             pc'[r] \in InExchange, entered'[contacts'[r][k].to] < entered'[r]
      PROVE  ContactOf(r, k)' \in open'
  <2>1. ContactOf(r, k) \in open
    BY <1>3 DEF OpenInv
  <2>2. /\ ContactOf(r, k).to = contacts[r][k].to /\ ContactOf(r, k).in = entered[r]
    BY DEF ContactOf
  <2>3. contacts[r][k].to \in Proc
    BY <1>3, ContactTo
  <2>4. entered[contacts[r][k].to] \in Int /\ entered[r] \in Int
    BY <2>3 DEF TypeInv
  <2>5. entered[contacts[r][k].to] # entered[r]
    BY <1>3, <2>4
  <2>6. ContactOf(r, k) # c
    BY <2>2, <2>5
  <2> QED
    BY <1>1, <2>1, <2>6
<1> QED
  BY <1>2, <1>3 DEF OpenInv

\* An answer of the first exchange keeps the invariant.
LEMMA FillRangesKeeps ==
  ASSUME IInv, PackageInv, NEW c \in open, FillRanges(c)
  PROVE  PackageInv'
<1>1. /\ TypeInv /\ ExchangeInv /\ PartitionInv /\ PackageType /\ OpenInv /\ ContactInv
      /\ AnswersInv /\ RecvsInv /\ ToldInv /\ SendsInv
  BY DEF IInv, PackageInv
<1>2. /\ pc[c.to] = "recvs" /\ entered[c.to] = c.in /\ open' = open \ {c}
      /\ responses' = [responses EXCEPT ![c.from][c.nr] =
                         RangeResponse(apart[c.to], contacts[c.from][c.nr].buf)]
      /\ UNCHANGED <<program, pc, round, contacts, recvs, sends, entered>>
  BY DEF FillRanges, Ex!Answer, package
<1>3. PICK p \in Proc, q \in Proc : \E k \in DOMAIN contacts[q] :
        /\ c.to = p /\ c.from = q /\ c.nr = k /\ c.in = entered[p] /\ c.in = entered[q]
        /\ contacts[q][k].to = p /\ c = ContactOf(q, k)
        /\ pc[q] = pc[p] /\ A(q) = A(p)
  BY <1>1, <1>2, AnswerTo DEF InExchange
<1>4. PICK k \in DOMAIN contacts[q] :
        /\ c.to = p /\ c.from = q /\ c.nr = k /\ c.in = entered[p] /\ c.in = entered[q]
        /\ contacts[q][k].to = p /\ c = ContactOf(q, k)
        /\ pc[q] = pc[p] /\ A(q) = A(p)
  BY <1>3
<1>5. pc[p] = "recvs" /\ pc[q] = "recvs"
  BY <1>2, <1>4
<1> DEFINE answer == RangeResponse(apart[p], contacts[q][k].buf)
<1>6. responses' = [responses EXCEPT ![q][k] = answer]
  BY <1>2, <1>4
<1>7. AnswerRight(A(q), contacts[q][k], answer)
  <2>1. ContactRight(Offd(A(q), q), contacts[q][k])
    BY <1>1, <1>5, ContactTo DEF InExchange
  <2>2. IsMatrix(A(q))
    <3>1. round[q] <= NumRounds
      BY <1>1, <1>5 DEF TypeInv
    <3> QED
      BY <1>1, <3>1, MatrixOf
  <2>3. Offd(A(q), q) \in SUBSET Row
    BY <2>2, OffdOf
  <2>4. PICK b \in Row : b = contacts[q][k].buf[1]
    BY <2>1, <2>3 DEF ContactRight
  <2>5. PICK d \in Row : d = contacts[q][k].buf[2]
    BY <2>1, <2>3 DEF ContactRight
  <2>6. b <= d /\ ProcFromRow(b) = p /\ ProcFromRow(d) = p
    BY <1>4, <2>1, <2>4, <2>5 DEF ContactRight
  <2>7. RowStart(p) <= b /\ d <= RowEnd(p)
    BY <2>6, InverseOf
  <2>8. PartitionOf(A(q), p, apart[p])
    BY <1>1, <1>4, <1>5 DEF PartitionInv, Early
  <2>9. apart[p] \in Seq(Piece)
    BY <1>1 DEF TypeInv
  <2>10. b \in Int /\ d \in Int
    BY PartitionAssumption DEF Row
  <2> QED
    BY <1>4, <2>4, <2>5, <2>6, <2>7, <2>8, <2>9, <2>10, ResponseRight
<1> HIDE DEF answer
<1>8. PackageType'
  BY <1>1, <1>2, <1>6 DEF PackageType
<1>9. OpenInv'
  BY <1>1, <1>2, AnswerOpen
<1>10. \A r : A(r)' = A(r) /\ Cols(r)' = Cols(r)
  BY <1>2 DEF A, Cols
<1>11. ContactInv' /\ RecvsInv' /\ SendsInv'
  BY <1>1, <1>2, <1>10 DEF ContactInv, RecvsInv, SendsInv
<1>12. AnswersInv'
  <2> SUFFICES ASSUME NEW r \in Proc, pc[r] = "recvs"
               PROVE  /\ responses'[r] = [j \in DOMAIN contacts[r] |-> responses'[r][j]]
                      /\ \A j \in DOMAIN contacts[r] :
                           \/ ContactOf(r, j)' \in open'
                           \/ AnswerRight(A(r), contacts[r][j], responses'[r][j])
    BY <1>2, <1>10 DEF AnswersInv
  <2>1. /\ responses[r] = [j \in DOMAIN contacts[r] |-> responses[r][j]]
        /\ \A j \in DOMAIN contacts[r] :
             ContactOf(r, j) \in open \/ AnswerRight(A(r), contacts[r][j], responses[r][j])
    BY <1>1 DEF AnswersInv
  <2>2. \A j : /\ ContactOf(r, j)' = ContactOf(r, j)
               /\ ContactOf(r, j).from = r /\ ContactOf(r, j).nr = j
    BY <1>2 DEF ContactOf
  <2>3. r \in DOMAIN responses
    BY <1>1 DEF PackageType
  <2>4. CASE r = q
    <3>1. responses'[r] = [responses[r] EXCEPT ![k] = answer]
      BY <1>6, <2>3, <2>4
    <3>2. /\ responses'[r] = [j \in DOMAIN contacts[r] |-> responses'[r][j]]
          /\ \A j \in DOMAIN contacts[r] :
               responses'[r][j] = IF j = k THEN answer ELSE responses[r][j]
      <4>1. PICK old : old = responses[r]
        OBVIOUS
      <4>2. PICK D : D = DOMAIN contacts[r]
        OBVIOUS
      <4>3. old = [j \in D |-> old[j]]
        BY <2>1, <4>1, <4>2
      <4>4. responses'[r] = [old EXCEPT ![k] = answer]
        BY <3>1, <4>1
      <4>5. responses'[r] = [j \in D |-> IF j = k THEN answer ELSE old[j]]
        BY <4>3, <4>4
      <4> QED
        BY <4>1, <4>2, <4>5
    <3>3. ASSUME NEW j \in DOMAIN contacts[r]
          PROVE  \/ ContactOf(r, j)' \in open'
                 \/ AnswerRight(A(r), contacts[r][j], responses'[r][j])
      <4>1. CASE j = k
        BY <1>7, <2>4, <3>2, <4>1
      <4>2. CASE j # k
        <5>1. ContactOf(r, j) # c
          BY <1>4, <2>2, <4>2
        <5> QED
          BY <1>2, <2>1, <2>2, <3>2, <4>2, <5>1
      <4> QED
        BY <4>1, <4>2
    <3> QED
      BY <3>2, <3>3
  <2>5. CASE r # q
    <3>1. responses'[r] = responses[r]
      BY <1>6, <2>3, <2>5
    <3>2. \A j : ContactOf(r, j) # c
      BY <1>4, <2>2, <2>5
    <3> QED
      BY SMTT(20), <1>2, <2>1, <2>2, <3>1, <3>2
  <2> QED
    BY <2>4, <2>5
<1>13. ToldInv'
  <2> SUFFICES ASSUME NEW r \in Proc, pc[r] = "sends"
               PROVE  /\ ToldColumns(A(r), r, sends[r])
                      /\ \A s \in Users(A(r), r) :
                           (\E j \in DOMAIN sends[r] : sends[r][j].proc = s)
                             <=> Answered(s, r)'
    BY <1>2, <1>10 DEF ToldInv
  <2>1. r # p
    BY <1>5
  <2>2. \A s : Answered(s, r)' <=> Answered(s, r)
    BY <1>2, <1>4, <2>1 DEF Answered
  <2> QED
    BY <1>1, <2>2 DEF ToldInv
<1> QED
  BY <1>8, <1>9, <1>11, <1>12, <1>13 DEF PackageInv

\* So does one of the second.
LEMMA FillSendProcKeeps ==
  ASSUME IInv, PackageInv, NEW c \in open, FillSendProc(c)
  PROVE  PackageInv'
<1>1. /\ TypeInv /\ ExchangeInv /\ PackageType /\ OpenInv /\ ContactInv
      /\ AnswersInv /\ RecvsInv /\ ToldInv /\ SendsInv
  BY DEF IInv, PackageInv
<1>2. /\ pc[c.to] = "sends" /\ entered[c.to] = c.in /\ open' = open \ {c}
      /\ sends' = [sends EXCEPT ![c.to] =
                     Append(@, [proc |-> c.from, elmts |-> contacts[c.from][c.nr].buf])]
      /\ UNCHANGED <<program, pc, round, contacts, responses, recvs, entered>>
  BY DEF FillSendProc, Ex!Answer
<1>3. PICK p \in Proc, q \in Proc : \E k \in DOMAIN contacts[q] :
        /\ c.to = p /\ c.from = q /\ c.nr = k /\ c.in = entered[p] /\ c.in = entered[q]
        /\ contacts[q][k].to = p /\ c = ContactOf(q, k)
        /\ pc[q] = pc[p] /\ A(q) = A(p)
  BY <1>1, <1>2, AnswerTo DEF InExchange
<1>4. PICK k \in DOMAIN contacts[q] :
        /\ c.to = p /\ c.from = q /\ c.nr = k /\ c.in = entered[p] /\ c.in = entered[q]
        /\ contacts[q][k].to = p /\ c = ContactOf(q, k)
        /\ pc[q] = pc[p] /\ A(q) = A(p)
  BY <1>3
<1>5. pc[p] = "sends" /\ pc[q] = "sends"
  BY <1>2, <1>4
<1>6. IsMatrix(A(p))
  <2>1. round[p] <= NumRounds
    BY <1>1, <1>5 DEF TypeInv
  <2> QED
    BY <1>1, <2>1, MatrixOf
<1>7. PICK buf : buf = contacts[q][k].buf
  OBVIOUS
<1>8. /\ q \in Users(A(p), p) /\ buf = Sorted(Offd(A(p), q) \cap Own(A(p), p))
      /\ buf \in Seq(Int)
  <2>1. p \in Owners(A(p), q) /\ buf = Sorted(Offd(A(p), q) \cap Own(A(p), p))
    <3>1. contacts[q][k].to \in Owners(A(q), q)
      BY <1>1, <1>5, ContactTo DEF InExchange
    <3>2. contacts[q][k].buf = Sorted(Offd(A(q), q) \cap Own(A(q), contacts[q][k].to))
      BY <1>1, <1>5, ContactTo DEF InExchange
    <3> QED
      BY <1>4, <1>7, <3>1, <3>2
  <2>2. PICK S : S = Offd(A(p), q) \cap Own(A(p), p)
    OBVIOUS
  <2>3. S \in SUBSET Int /\ IsFiniteSet(S)
    BY <1>6, <2>2, OffdOf, FS_Subset
  <2>4. Lists(Sorted(S), Cardinality(S), S)
    BY <2>3, SortedIs
  <2>5. Sorted(S) \in Seq(Int)
    <3>1. Sorted(S) \in [1 .. Cardinality(S) -> S] /\ Cardinality(S) \in Nat
      BY <2>4 DEF Lists
    <3>2. Sorted(S) \in [1 .. Cardinality(S) -> Int]
      BY <2>3, <3>1
    <3> QED
      BY <3>1, <3>2
  <2> QED
    BY <2>1, <2>2, <2>5 DEF Users
<1>9. /\ sends'[p] = Append(sends[p], [proc |-> q, elmts |-> buf])
      /\ \A r \in Proc \ {p} : sends'[r] = sends[r]
  BY <1>1, <1>2, <1>4, <1>7 DEF PackageType
<1>10. PackageType'
  BY <1>1, <1>2 DEF PackageType
<1>11. OpenInv'
  BY <1>1, <1>2, AnswerOpen
<1>12. \A r : A(r)' = A(r) /\ Cols(r)' = Cols(r)
  BY <1>2 DEF A, Cols
<1>13. ContactInv' /\ RecvsInv'
  BY <1>1, <1>2, <1>12 DEF ContactInv, RecvsInv
<1>14. SendsInv'
  <2>1. \A r \in Proc : pc[r] \in {"pkg", "product"} => sends'[r] = sends[r]
    BY <1>5, <1>9
  <2> QED
    BY <1>1, <1>2, <1>12, <2>1 DEF SendsInv
<1>15. AnswersInv'
  <2> SUFFICES ASSUME NEW r \in Proc, pc[r] = "recvs"
               PROVE  /\ responses[r] = [j \in DOMAIN contacts[r] |-> responses[r][j]]
                      /\ \A j \in DOMAIN contacts[r] :
                           \/ ContactOf(r, j)' \in open'
                           \/ AnswerRight(A(r), contacts[r][j], responses[r][j])
    BY <1>2, <1>12 DEF AnswersInv
  <2>1. r # q
    BY <1>5
  <2>2. \A j : ContactOf(r, j)' = ContactOf(r, j) /\ ContactOf(r, j).from = r
    BY <1>2 DEF ContactOf
  <2>3. \A j : ContactOf(r, j) # c
    BY <1>4, <2>1, <2>2
  <2> QED
    BY <1>1, <1>2, <2>2, <2>3 DEF AnswersInv
<1>16. ToldInv'
  <2> SUFFICES ASSUME NEW r \in Proc, pc[r] = "sends"
               PROVE  /\ ToldColumns(A(r), r, sends'[r])
                      /\ \A s \in Users(A(r), r) :
                           (\E j \in DOMAIN sends'[r] : sends'[r][j].proc = s)
                             <=> Answered(s, r)'
    BY <1>2, <1>12 DEF ToldInv
  <2>1. /\ ToldColumns(A(r), r, sends[r])
        /\ \A s \in Users(A(r), r) :
             (\E j \in DOMAIN sends[r] : sends[r][j].proc = s) <=> Answered(s, r)
    BY <1>1 DEF ToldInv
  <2>2. CASE r # p
    <3>1. \A s : Answered(s, r)' <=> Answered(s, r)
      BY <1>2, <1>4, <2>2 DEF Answered
    <3> QED
      BY <1>9, <2>1, <2>2, <3>1
  <2>3. CASE r = p
    <3>1. PICK heard : heard = sends[p]
      OBVIOUS
    <3>2. ~ Answered(q, p)
      BY <1>4 DEF Answered
    <3>3. \A j \in DOMAIN heard : heard[j].proc # q
      BY <1>8, <2>1, <2>3, <3>1, <3>2
    <3>4. heard \in Seq([proc : Proc, elmts : Seq(Int)]) /\ Len(heard) \in Nat
      BY <2>1, <2>3, <3>1 DEF ToldColumns
    <3>5. PICK told : told = [proc |-> q, elmts |-> buf]
      OBVIOUS
    <3>6. told \in [proc : Proc, elmts : Seq(Int)] /\ told.proc = q /\ told.elmts = buf
      BY <1>8, <3>5
    <3>7. PICK n \in Nat : n = Len(heard)
      BY <3>4
    <3>8. /\ Append(heard, told) \in Seq([proc : Proc, elmts : Seq(Int)])
          /\ DOMAIN heard = 1 .. n /\ DOMAIN Append(heard, told) = 1 .. n + 1
          /\ \A j \in 1 .. n : Append(heard, told)[j] = heard[j]
          /\ Append(heard, told)[n + 1] = told
      BY <3>4, <3>6, <3>7
    <3>9. PICK new : new = Append(heard, told)
      OBVIOUS
    <3>10. \A j \in 1 .. n + 1 : j \in 1 .. n \/ j = n + 1
      OBVIOUS
    <3>11. /\ \A j \in DOMAIN heard : heard[j].proc \in Users(A(p), p)
           /\ \A j \in DOMAIN heard :
                heard[j].elmts = Sorted(Offd(A(p), heard[j].proc) \cap Own(A(p), p))
           /\ \A j, i \in DOMAIN heard : heard[j].proc = heard[i].proc => j = i
      BY <2>1, <2>3, <3>1 DEF ToldColumns
    <3>12. ToldColumns(A(p), p, new)
      <4>1. new \in Seq([proc : Proc, elmts : Seq(Int)]) /\ DOMAIN new = 1 .. n + 1
        BY <3>8, <3>9
      <4>2. \A j \in 1 .. n + 1 :
              /\ new[j].proc \in Users(A(p), p)
              /\ new[j].elmts = Sorted(Offd(A(p), new[j].proc) \cap Own(A(p), p))
        BY <1>8, <3>6, <3>8, <3>9, <3>10, <3>11
      <4>3. \A j, i \in 1 .. n + 1 : new[j].proc = new[i].proc => j = i
        BY <3>3, <3>6, <3>8, <3>9, <3>10, <3>11
      <4> QED
        BY <4>1, <4>2, <4>3 DEF ToldColumns
    <3>13. ASSUME NEW s \in Users(A(p), p)
           PROVE  (\E j \in DOMAIN new : new[j].proc = s) <=> Answered(s, p)'
      <4>1. CASE s # q
        <5>1. Answered(s, p)' <=> Answered(s, p)
          BY <1>2, <1>4, <4>1 DEF Answered
        <5>2. (\E j \in DOMAIN heard : heard[j].proc = s) <=> Answered(s, p)
          BY <2>1, <2>3, <3>1
        <5>3. (\E j \in 1 .. n + 1 : new[j].proc = s) <=> (\E j \in 1 .. n : heard[j].proc = s)
          BY <3>6, <3>8, <3>9, <3>10, <4>1
        <5> QED
          BY <3>8, <3>9, <5>1, <5>2, <5>3
      <4>2. CASE s = q
        <5>1. n + 1 \in DOMAIN new /\ new[n + 1].proc = q
          BY <3>6, <3>8, <3>9
        <5>2. ASSUME NEW d \in open', d.from = q, d.to = p, d.in = entered[p]
              PROVE  FALSE
          <6>1. d \in open /\ d # c
            BY <1>2, <5>2
          <6>2. PICK j \in DOMAIN contacts[q] :
                  d = ContactOf(q, j) /\ d.to = contacts[q][j].to
            BY <1>1, <5>2, <6>1, OpenContact
          <6>3. contacts[q][j].to = contacts[q][k].to
            BY <1>4, <5>2, <6>2
          <6>4. contacts[q] = SendContactList(Cols(q), StandardRecvs(A(q), q))
            BY <1>1, <1>5 DEF ContactInv, RecvsInv
          <6>5. j = k
            BY <1>4, <1>6, <6>3, <6>4, OneContact
          <6> QED
            BY <1>4, <6>1, <6>2, <6>5
        <5>3. entered[q] \in Int /\ entered[q] = entered[p] /\ entered' = entered
          BY <1>1, <1>2, <1>4 DEF TypeInv
        <5>4. Answered(q, p)'
          BY <5>2, <5>3 DEF Answered
        <5> QED
          BY <4>2, <5>1, <5>4
      <4> QED
        BY <4>1, <4>2
    <3>14. sends'[r] = new
      BY <1>9, <2>3, <3>1, <3>5, <3>9
    <3>15. ToldColumns(A(r), r, sends'[r])
      BY <2>3, <3>12, <3>14
    <3>16. \A s \in Users(A(r), r) :
             (\E j \in DOMAIN sends'[r] : sends'[r][j].proc = s) <=> Answered(s, r)'
      BY <2>3, <3>13, <3>14
    <3> QED
      BY <3>15, <3>16
  <2> QED
    BY <2>2, <2>3
<1> QED
  BY <1>10, <1>11, <1>13, <1>14, <1>15, <1>16 DEF PackageInv

-----------------------------------------------------------------------------
(* The theorem of the packages. *)

\* There is no package at the start.
LEMMA NoPackage ==
  ASSUME Init
  PROVE  PackageInv
<1>1. /\ pc = [p \in Proc |-> "start"] /\ open = {}
      /\ contacts = [p \in Proc |-> <<>>] /\ responses = [p \in Proc |-> <<>>]
      /\ recvs = [p \in Proc |-> <<>>] /\ sends = [p \in Proc |-> <<>>]
  BY DEF Init, Ex!Init
<1>2. PackageType
  BY <1>1 DEF PackageType
<1>3. OpenInv /\ ContactInv /\ AnswersInv /\ RecvsInv /\ ToldInv /\ SendsInv
  BY <1>1 DEF OpenInv, ContactInv, AnswersInv, RecvsInv, ToldInv, SendsInv, InExchange
<1> QED
  BY <1>2, <1>3 DEF PackageInv

\* Every step keeps the invariant of the packages.
LEMMA NextKeepsPackages ==
  ASSUME IInv, PackageInv, [Next]_vars
  PROVE  PackageInv'
<1>1. ASSUME NEW p \in Proc, Step(p) PROVE PackageInv'
  <2>1. CASE \/ Locate(p) \/ LocateRows(p) \/ Located(p)
             \/ StartProduct(p) \/ FinishProduct(p) \/ Destroy(p)
    BY <2>1, PassKeeps
  <2>2. CASE ContactAssumedOwners(p) \/ ContactRecvProcs(p)
    BY <2>2, CallKeeps
  <2>3. CASE DetermineRecvProcs(p)
    BY <2>3, DetermineRecvProcsKeeps
  <2>4. CASE DetermineSendProcs(p)
    BY <2>4, DetermineSendProcsKeeps
  <2>5. CASE \E c \in open : FillRanges(c) \/ FillSendProc(c)
    BY <2>5, FillRangesKeeps, FillSendProcKeeps
  <2> QED
    BY <1>1, <2>1, <2>2, <2>3, <2>4, <2>5 DEF Step
<1> QED
  BY <1>1, StillKeeps DEF Next, Finished

\* Of any number of processes and rows, and any matrices: the communication package that
\* a process makes of the answers of the two exchanges, in whatever order they come, is
\* the one of the standard way, where every process hears from all others
\* (hypre_NewCommPkgCreate_core, hypre_MatvecCommPkgCreate_core).
THEOREM PackagesAreStandard == Spec => []SameAsStandard
<1>1. PackageInv => SameAsStandard
  BY DEF PackageInv, RecvsInv, SendsInv, SameAsStandard
<1>2. Init => IInv /\ PackageInv
  BY AtStart, NoPackage
<1>3. (IInv /\ PackageInv) /\ [Next]_vars => (IInv /\ PackageInv)'
  BY NextKeeps, NextKeepsPackages
<1> QED
  BY <1>1, <1>2, <1>3, PTL DEF Spec

-----------------------------------------------------------------------------
(* The invariant of the products. *)

\* q sends to p for a product.
SendsFor(B, q, p, job) == IF job = 1 THEN q \in Owners(B, p) ELSE p \in Owners(B, q)

\* The columns of q in p.
Shared(B, q, p) == Sorted(Offd(B, p) \cap Own(B, q))

\* What q sends to p for each product.
Vectors(B, q, p) ==
  [k \in 1 .. Len(Jobs) |->
     IF Jobs[k] = 1
     THEN [j \in DOMAIN Shared(B, q, p) |-> TermsOf(k, {Shared(B, q, p)[j]})]
     ELSE [j \in DOMAIN Shared(B, p, q) |->
             TermsOf(k, {r \in Own(B, q) : <<r, Shared(B, p, q)[j]>> \in B.nonzeros})]]

\* The values of f at the numbers of S, in order.
Queue(f, S) == [n \in DOMAIN Sorted(S) |-> f[Sorted(S)[n]]]

\* How many products p is through with, and how many of round r have been started by q.
Through(p) == IF pc[p] = "product" THEN nr[p] - 1 ELSE nr[p]
StartedIn(q, r) ==
  IF round[q] > r THEN Len(Jobs) ELSE IF round[q] = r THEN nr[q] ELSE 0

\* The products for which a vector from q to p is under way.
UnderWay(q, p) ==
  {k \in 1 .. Len(Jobs) : /\ Through(p) < k /\ k <= StartedIn(q, round[p])
                          /\ SendsFor(A(p), q, p, Jobs[k])}

NrInv ==
  \A p \in Proc : /\ nr[p] \in 0 .. Len(Jobs)
                  /\ pc[p] \notin {"pkg", "product"} => nr[p] = 0
                  /\ pc[p] = "product" => nr[p] > 0

DataInv ==
  /\ DOMAIN nr = Proc /\ DOMAIN y = Proc /\ DOMAIN data = Proc \X Proc
  /\ \A p, q \in Proc :
       data[<<q, p>>] = Queue(Vectors(A(p), q, p), UnderWay(q, p))

\* Who has to send p something for a product is waited for by p.
WaitInv ==
  \A p, q \in Proc : \A k \in 1 .. Len(Jobs) :
    /\ nr[q] < k
    /\ round[q] < round[p] \/ (round[q] = round[p] /\ k <= Through(p))
    => ~ SendsFor(A(q), q, p, Jobs[k])

ProductInv == /\ NrInv /\ DataInv /\ WaitInv /\ ProductTrue

-----------------------------------------------------------------------------
(* Sums of bags.  What is claimed of all subsets of a finite set is proved from a *)
(* least one for which it is wrong.                                               *)

\* In a family of finite sets there is one that is the least of its subsets.
LEMMA LeastSubset ==
  ASSUME NEW S, IsFiniteSet(S), NEW F \in SUBSET SUBSET S, F # {}
  PROVE  \E T \in F : \A i \in T : T \ {i} \notin F
<1> DEFINE Counts == {Cardinality(T) : T \in F}
<1>1. \A T \in F : IsFiniteSet(T) /\ Cardinality(T) \in Nat
  BY FS_Subset, FS_CardinalityType
<1>2. PICK n \in Counts : \A m \in Counts : n <= m
  <2>1. Counts \in SUBSET Nat /\ Counts # {}
    BY <1>1
  <2> HIDE DEF Counts
  <2> QED
    BY <2>1, Least
<1>3. PICK T \in F : Cardinality(T) = n
  BY <1>2
<1>4. ASSUME NEW i \in T, T \ {i} \in F PROVE FALSE
  <2>1. Cardinality(T \ {i}) = n - 1 /\ n \in Nat
    BY <1>1, <1>3, FS_RemoveElement
  <2>2. n <= Cardinality(T \ {i})
    BY <1>2, <1>4
  <2> QED
    BY <2>1, <2>2
<1> QED
  BY <1>4

\* The member of a set that a sum takes first.
AnyOf(S) == CHOOSE i \in S : TRUE

\* The recursive definition of SumOf over the sets in D: the equation is
\* g = BagsOver(bags, g, D).
BagsOver(bags, g, D) ==
  [S \in D |-> IF S = {} THEN EmptyBag ELSE bags[AnyOf(S)] (+) g[S \ {AnyOf(S)}]]

\* It is one.
LEMMA AnyIn == \A S : S # {} => AnyOf(S) \in S
BY DEF AnyOf

\* Over the subsets of a finite set the equation has a solution.
LEMMA BagsExist ==
  ASSUME NEW S, IsFiniteSet(S), NEW bags
  PROVE  \E g : g = BagsOver(bags, g, SUBSET S)
<1> DEFINE D(n) == {T \in SUBSET S : Cardinality(T) <= n}
           Bad == {n \in Nat : ~ \E g : g = BagsOver(bags, g, D(n))}
<1>1. \A T \in SUBSET S :
        /\ IsFiniteSet(T) /\ Cardinality(T) \in Nat
        /\ T = {} <=> Cardinality(T) = 0
        /\ \A i \in T : Cardinality(T \ {i}) = Cardinality(T) - 1
  BY FS_Subset, FS_CardinalityType, FS_EmptySet, FS_RemoveElement
<1>2. ASSUME Bad # {} PROVE FALSE
  <2>1. PICK n \in Bad : \A m \in Bad : n <= m
    <3> HIDE DEF Bad
    <3>1. Bad \subseteq Nat
      BY DEF Bad
    <3> QED
      BY <1>2, <3>1, Least
  <2>2. n \in Nat /\ ~ \E g : g = BagsOver(bags, g, D(n))
    BY <2>1
  <2>3. CASE n = 0
    <3> DEFINE h == [T \in D(0) |-> EmptyBag]
    <3>1. \A T \in D(0) : T = {}
      BY <1>1
    <3>2. h = BagsOver(bags, h, D(0))
      BY <3>1 DEF BagsOver
    <3> QED
      BY <2>2, <2>3, <3>2
  <2>4. CASE n # 0
    <3>1. n - 1 \in Nat /\ n - 1 \notin Bad
      <4> HIDE DEF Bad
      <4>1. n - 1 \in Nat /\ ~ (n <= n - 1)
        BY <2>2, <2>4
      <4> QED
        BY <2>1, <4>1
    <3>2. PICK g : g = BagsOver(bags, g, D(n - 1))
      BY <3>1
    <3> DEFINE h == BagsOver(bags, g, D(n))
    <3>3. ASSUME NEW T \in D(n - 1) PROVE h[T] = g[T]
      <4>1. T \in D(n)
        BY <1>1, <2>2, <3>1
      <4>2. g[T] = IF T = {} THEN EmptyBag ELSE bags[AnyOf(T)] (+) g[T \ {AnyOf(T)}]
        BY <3>2 DEF BagsOver
      <4>3. h[T] = IF T = {} THEN EmptyBag ELSE bags[AnyOf(T)] (+) g[T \ {AnyOf(T)}]
        BY <4>1 DEF BagsOver
      <4> QED
        BY <4>2, <4>3
    <3>4. \A T \in D(n) : T # {} => T \ {AnyOf(T)} \in D(n - 1)
      BY <1>1, <2>2, AnyIn
    <3>5. h = BagsOver(bags, h, D(n))
      <4> HIDE DEF D
      <4>1. \A T \in D(n) :
              (IF T = {} THEN EmptyBag ELSE bags[AnyOf(T)] (+) g[T \ {AnyOf(T)}])
              = IF T = {} THEN EmptyBag ELSE bags[AnyOf(T)] (+) h[T \ {AnyOf(T)}]
        BY <3>3, <3>4
      <4> QED
        BY <4>1 DEF BagsOver
    <3> QED
      BY <2>2, <3>5
  <2> QED
    BY <2>3, <2>4
<1>3. Cardinality(S) \in Nat \ Bad
  BY <1>1, <1>2
<1>4. D(Cardinality(S)) = SUBSET S
  BY <1>1, FS_Subset
<1> QED
  BY <1>3, <1>4

\* The sum is the value of that solution at the whole set.
LEMMA SumIs ==
  ASSUME NEW S, IsFiniteSet(S), NEW bags, DOMAIN bags = S
  PROVE  \E g : g = BagsOver(bags, g, SUBSET S) /\ SumOf(bags) = g[S]
<1> DEFINE h == CHOOSE g : g = BagsOver(bags, g, SUBSET S)
<1>1. h = BagsOver(bags, h, SUBSET S)
  BY BagsExist
<1>2. SumOf(bags) = h[S]
  BY Zenon DEF SumOf, FoldSeq, FoldFunction, FoldFunctionOnSet, MapThenFoldSet, BagsOver, AnyOf
<1> QED
  BY <1>1, <1>2

\* The terms of two sets that have none in common.
LEMMA TermsOfBoth ==
  ASSUME NEW k, NEW S, NEW T, S \cap T = {}
  PROVE  TermsOf(k, S) (+) TermsOf(k, T) = TermsOf(k, S \cup T)
<1> DEFINE X == {Term(k, i) : i \in S}
           Z == {Term(k, i) : i \in T}
<1>1. X \cap Z = {}
  BY DEF Term
<1>2. {Term(k, i) : i \in S \cup T} = X \cup Z
  OBVIOUS
<1> HIDE DEF X, Z
<1>3. SetToBag(X) (+) SetToBag(Z) = SetToBag(X \cup Z)
  <2>1. DOMAIN SetToBag(X) = X /\ DOMAIN SetToBag(Z) = Z
    BY DEF SetToBag
  <2>2. \A e \in X \cup Z : (IF e \in X THEN SetToBag(X)[e] ELSE 0)
                            + (IF e \in Z THEN SetToBag(Z)[e] ELSE 0) = 1
    BY <1>1 DEF SetToBag
  <2>3. SetToBag(X) (+) SetToBag(Z) = [e \in X \cup Z |-> 1]
    BY <2>1, <2>2 DEF (+)
  <2> QED
    BY <2>3 DEF SetToBag
<1> QED
  BY <1>2, <1>3 DEF TermsOf, X, Z

\* There are no terms of no numbers.
LEMMA NoTerms == \A k : TermsOf(k, {}) = EmptyBag
BY DEF TermsOf, EmptyBag

\* A sum of the terms of sets that have none in common.
LEMMA SumOfTerms ==
  ASSUME NEW S, IsFiniteSet(S), NEW k, NEW terms, NEW bags, DOMAIN bags = S,
         \A i \in S : bags[i] = TermsOf(k, terms[i]),
         \A i, j \in S : i # j => terms[i] \cap terms[j] = {}
  PROVE  SumOf(bags) = TermsOf(k, UNION {terms[i] : i \in S})
<1>1. PICK g : g = BagsOver(bags, g, SUBSET S) /\ SumOf(bags) = g[S]
  BY SumIs
<1> DEFINE All(T) == UNION {terms[i] : i \in T}
           Wrong == {T \in SUBSET S : g[T] # TermsOf(k, All(T))}
<1>2. ASSUME Wrong # {} PROVE FALSE
  <2>1. PICK T \in Wrong : \A i \in T : T \ {i} \notin Wrong
    <3> HIDE DEF Wrong
    <3>1. Wrong \in SUBSET SUBSET S
      BY DEF Wrong
    <3> QED
      <4>1. PICK F \in SUBSET SUBSET S : F = Wrong /\ F # {}
        BY <1>2, <3>1
      <4>2. \E T \in F : \A i \in T : T \ {i} \notin F
        BY <4>1, LeastSubset
      <4> QED
        BY <4>1, <4>2
  <2>2. T \in SUBSET S /\ g[T] # TermsOf(k, All(T))
    BY <2>1
  <2>3. g[T] = (IF T = {} THEN EmptyBag ELSE bags[AnyOf(T)] (+) g[T \ {AnyOf(T)}])
    BY <1>1, <2>2 DEF BagsOver
  <2>4. T # {}
    <3>1. ASSUME T = {} PROVE All(T) = {}
      BY <3>1
    <3> QED
      BY <2>2, <2>3, <3>1, NoTerms
  <2>5. PICK i \in T : i = AnyOf(T)
    BY <2>4, AnyIn
  <2> DEFINE U == T \ {i}
  <2>6. g[U] = TermsOf(k, All(U))
    BY <2>1, <2>2, <2>5
  <2>7. g[T] = TermsOf(k, terms[i]) (+) TermsOf(k, All(U))
    BY <2>2, <2>3, <2>4, <2>5, <2>6
  <2>8. terms[i] \cap All(U) = {}
    BY <2>2
  <2>9. terms[i] \cup All(U) = All(T)
    <3>1. T = U \cup {i}
      OBVIOUS
    <3> HIDE DEF U
    <3> QED
      BY <3>1
  <2> HIDE DEF All, U
  <2> QED
    BY <2>2, <2>7, <2>8, <2>9, TermsOfBoth
<1>3. S \notin Wrong
  BY <1>2
<1> QED
  BY <1>1, <1>3

-----------------------------------------------------------------------------
(* Vectors under way. *)

\* Sorted lists a finite set of numbers, one list of any length.
LEMMA QueueOf ==
  ASSUME NEW S \in SUBSET Int, NEW n, NEW list, Lists(list, n, S), NEW f
  PROVE  Queue(f, S) = [i \in 1 .. n |-> f[list[i]]]
<1>1. Sorted(S) = list
  BY SortedUnique
<1>2. DOMAIN list = 1 .. n
  BY DEF Lists
<1> QED
  BY <1>1, <1>2 DEF Queue

\* There is nothing under way exactly if no product is.
LEMMA QueueEmpty ==
  ASSUME NEW S \in SUBSET Int, IsFiniteSet(S), NEW f
  PROVE  Queue(f, S) = <<>> <=> S = {}
<1>1. PICK n \in Nat : n = Cardinality(S)
  BY FS_CardinalityType
<1>2. PICK list : Lists(list, n, S)
  BY <1>1, SortedIs
<1>3. /\ list \in [1 .. n -> S] /\ \A s \in S : \E i \in 1 .. n : list[i] = s
  BY <1>2 DEF Lists
<1>0. Queue(f, S) = [i \in 1 .. n |-> f[list[i]]]
  BY <1>2, QueueOf
<1>4. CASE n = 0
  <2>1. S = {}
    BY <1>3, <1>4
  <2>2. Queue(f, S) = <<>>
    BY <1>0, <1>4
  <2> QED
    BY <2>1, <2>2
<1>5. CASE n > 0
  <2>1. 1 \in 1 .. n /\ list[1] \in S
    BY <1>3, <1>5
  <2>2. DOMAIN Queue(f, S) = 1 .. n /\ DOMAIN <<>> = {}
    BY <1>0
  <2> QED
    BY <2>1, <2>2
<1> QED
  BY <1>4, <1>5

\* A vector of a later product goes to the end.
LEMMA QueueAppend ==
  ASSUME NEW S \in SUBSET Int, IsFiniteSet(S), NEW k \in Int, \A s \in S : s < k, NEW f
  PROVE  Queue(f, S \cup {k}) = Queue(f, S) \o <<f[k]>>
<1>1. PICK n \in Nat : n = Cardinality(S)
  BY FS_CardinalityType
<1>2. PICK list : Lists(list, n, S)
  BY <1>1, SortedIs
<1>3. /\ list \in [1 .. n -> S] /\ \A s \in S : \E i \in 1 .. n : list[i] = s
      /\ \A i, j \in 1 .. n : i < j => list[i] < list[j]
  BY <1>2 DEF Lists
<1>0. Queue(f, S) = [i \in 1 .. n |-> f[list[i]]]
  BY <1>2, QueueOf
<1> DEFINE more == [i \in 1 .. n + 1 |-> IF i = n + 1 THEN k ELSE list[i]]
<1>4. \A i \in 1 .. n + 1 : i = n + 1 \/ i \in 1 .. n
  OBVIOUS
<1>5. Lists(more, n + 1, S \cup {k})
  <2>1. n + 1 \in Nat /\ more \in [1 .. n + 1 -> S \cup {k}]
    BY <1>3, <1>4
  <2>2. ASSUME NEW i \in 1 .. n + 1, NEW j \in 1 .. n + 1, i < j PROVE more[i] < more[j]
    <3>1. i \in 1 .. n
      BY <2>2
    <3>2. CASE j = n + 1
      <4>1. list[i] \in S /\ i # n + 1
        BY <1>3, <3>1
      <4> QED
        BY <3>2, <4>1
    <3>3. CASE j \in 1 .. n
      BY <1>3, <2>2, <3>1, <3>3
    <3> QED
      BY <1>4, <3>2, <3>3
  <2>3. ASSUME NEW s \in S \cup {k} PROVE \E i \in 1 .. n + 1 : more[i] = s
    <3>1. CASE s = k
      <4>1. n + 1 \in 1 .. n + 1
        OBVIOUS
      <4> QED
        BY <3>1, <4>1
    <3>2. CASE s \in S
      <4>1. PICK i \in 1 .. n : list[i] = s
        BY <1>3, <3>2
      <4>2. i \in 1 .. n + 1 /\ i # n + 1
        OBVIOUS
      <4> QED
        BY <4>1, <4>2
    <3> QED
      BY <3>1, <3>2
  <2> HIDE DEF more
  <2> QED
    BY <2>1, <2>2, <2>3 DEF Lists
<1>6. Queue(f, S \cup {k}) = [i \in 1 .. n + 1 |-> f[more[i]]]
  <2> HIDE DEF more
  <2> QED
    BY <1>5, QueueOf
<1> DEFINE T == {f[s] : s \in S \cup {k}}
           q == [i \in 1 .. n |-> f[list[i]]]
           one == <<f[k]>>
<1>7. q \in Seq(T) /\ Len(q) = n
  <2>1. q \in [1 .. n -> T]
    BY <1>3
  <2> HIDE DEF T, q
  <2> QED
    BY <2>1
<1>8. one \in Seq(T) /\ Len(one) = 1 /\ one[1] = f[k]
  OBVIOUS
<1> HIDE DEF T
<1>9. /\ q \o one \in Seq(T) /\ Len(q \o one) = n + 1
      /\ \A m \in 1 .. n : (q \o one)[m] = q[m]
      /\ (q \o one)[n + 1] = one[1]
  <2> HIDE DEF q, one
  <2>3. PICK u \in Seq(T) : u = q
    BY <1>7
  <2>4. PICK v \in Seq(T) : v = one
    BY <1>8
  <2>5. /\ u \o v \in Seq(T) /\ Len(u \o v) = Len(u) + Len(v)
        /\ \A m \in 1 .. Len(u) : (u \o v)[m] = u[m]
        /\ \A m \in 1 .. Len(v) : (u \o v)[Len(u) + m] = v[m]
    BY ConcatIs
  <2>1. /\ q \o one \in Seq(T) /\ Len(q \o one) = Len(q) + Len(one)
        /\ \A m \in 1 .. Len(q) : (q \o one)[m] = q[m]
        /\ \A m \in 1 .. Len(one) : (q \o one)[Len(q) + m] = one[m]
    BY Zenon, <2>3, <2>4, <2>5
  <2>2. 1 \in 1 .. Len(one)
    BY <1>8
  <2> QED
    BY <1>7, <1>8, <2>1, <2>2
<1>10. PICK both : both = q \o one
  OBVIOUS
<1>11. both \in Seq(T) /\ Len(both) = n + 1
  BY <1>9, <1>10
<1>12. both = [i \in 1 .. n + 1 |-> both[i]]
  BY <1>11
<1>13. \A i \in 1 .. n + 1 : both[i] = f[more[i]]
  <2>1. \A m \in 1 .. n : both[m] = f[list[m]]
    BY <1>9, <1>10
  <2>2. both[n + 1] = f[k]
    BY <1>8, <1>9, <1>10
  <2> QED
    BY <1>4, <2>1, <2>2
<1>14. both = Queue(f, S \cup {k})
  <2> HIDE DEF more
  <2> QED
    BY <1>6, <1>12, <1>13
<1> QED
  BY <1>0, <1>10, <1>14

\* The vector of the first product is the first, and the others are the rest.
LEMMA QueueTake ==
  ASSUME NEW S \in SUBSET Int, IsFiniteSet(S), NEW k \in S, \A s \in S : k <= s, NEW f
  PROVE  Head(Queue(f, S)) = f[k] /\ Tail(Queue(f, S)) = Queue(f, S \ {k})
<1>1. PICK n \in Nat : n = Cardinality(S)
  BY FS_CardinalityType
<1>2. PICK list : Lists(list, n, S)
  BY <1>1, SortedIs
<1>3. /\ list \in [1 .. n -> S] /\ \A s \in S : \E i \in 1 .. n : list[i] = s
      /\ \A i, j \in 1 .. n : i < j => list[i] < list[j]
  BY <1>2 DEF Lists
<1>0. Queue(f, S) = [i \in 1 .. n |-> f[list[i]]]
  BY <1>2, QueueOf
<1>4. PICK i \in 1 .. n : list[i] = k
  BY <1>3
<1>5. 1 \in 1 .. n /\ n - 1 \in Nat
  BY <1>4
<1>6. i = 1
  <2>1. ASSUME 1 < i PROVE FALSE
    <3>1. list[1] < list[i] /\ list[1] \in S /\ k <= list[1]
      BY <1>3, <1>5, <2>1
    <3>2. list[1] \in Int /\ k \in Int
      BY <3>1
    <3> QED
      BY <1>4, <3>1, <3>2
  <2> QED
    BY <2>1
<1> DEFINE rest == [j \in 1 .. n - 1 |-> list[j + 1]]
<1>7. \A j \in 1 .. n - 1 : j + 1 \in 1 .. n /\ 1 < j + 1
  BY <1>5
<1>8. Lists(rest, n - 1, S \ {k})
  <2>1. rest \in [1 .. n - 1 -> S \ {k}]
    <3> SUFFICES ASSUME NEW j \in 1 .. n - 1 PROVE list[j + 1] \in S \ {k}
      OBVIOUS
    <3>1. PICK m \in 1 .. n : m = j + 1 /\ 1 < m
      BY <1>7
    <3>2. list[1] < list[m] /\ list[m] \in S /\ list[1] = k
      BY <1>3, <1>4, <1>5, <1>6, <3>1
    <3>3. list[m] # k
      BY <3>2
    <3> QED
      BY <3>1, <3>2, <3>3
  <2>2. ASSUME NEW j \in 1 .. n - 1, NEW m \in 1 .. n - 1, j < m PROVE rest[j] < rest[m]
    <3>1. PICK j1 \in 1 .. n : j1 = j + 1
      BY <1>7
    <3>2. PICK m1 \in 1 .. n : m1 = m + 1
      BY <1>7
    <3>3. j1 < m1
      BY <2>2, <3>1, <3>2
    <3>4. list[j1] < list[m1]
      BY <1>3, <3>3
    <3> QED
      BY <3>1, <3>2, <3>4
  <2>3. ASSUME NEW s \in S \ {k} PROVE \E j \in 1 .. n - 1 : rest[j] = s
    <3>1. PICK m \in 1 .. n : list[m] = s
      BY <1>3
    <3>2. m # 1
      BY <1>4, <1>6, <3>1
    <3>3. PICK j \in 1 .. n - 1 : j = m - 1
      BY <3>2
    <3>4. j + 1 = m
      BY <3>3
    <3> QED
      BY <3>1, <3>4
  <2> HIDE DEF rest
  <2> QED
    BY <1>5, <2>1, <2>2, <2>3 DEF Lists
<1>9. Queue(f, S \ {k}) = [j \in 1 .. n - 1 |-> f[rest[j]]]
  <2> HIDE DEF rest
  <2> QED
    BY <1>8, QueueOf
<1> DEFINE T == {f[s] : s \in S}
           q == [j \in 1 .. n |-> f[list[j]]]
<1>10. q \in Seq(T) /\ Len(q) = n
  <2>1. q \in [1 .. n -> T]
    BY <1>3
  <2> HIDE DEF T, q
  <2> QED
    BY <2>1
<1>11. Head(q) = q[1] /\ Tail(q) = [j \in 1 .. n - 1 |-> q[j + 1]]
  <2>1. PICK v \in Seq(T) : v = q /\ Len(v) = n
    BY <1>10
  <2>2. v # <<>>
    BY <1>5, <2>1
  <2>3. Head(v) = v[1] /\ Tail(v) \in Seq(T) /\ Len(Tail(v)) = n - 1
    BY <1>5, <2>1, <2>2
  <2>4. \A j \in 1 .. n - 1 : Tail(v)[j] = v[j + 1]
    BY <1>5, <2>1, <2>2
  <2>5. PICK w \in Seq(T) : w = Tail(v) /\ Len(w) = n - 1
    BY <2>3
  <2>6. w = [j \in 1 .. n - 1 |-> w[j]]
    <3>1. w = [j \in 1 .. Len(w) |-> w[j]]
      <4> HIDE DEF T
      <4> QED
        OBVIOUS
    <3> QED
      BY <2>5, <3>1
  <2>7. w = [j \in 1 .. n - 1 |-> v[j + 1]]
    BY <2>4, <2>5, <2>6
  <2> HIDE DEF q
  <2> QED
    BY <2>1, <2>3, <2>5, <2>7
<1>12. q[1] = f[k] /\ \A j \in 1 .. n - 1 : q[j + 1] = f[rest[j]]
  BY <1>4, <1>5, <1>6, <1>7
<1>13. Tail(q) = Queue(f, S \ {k})
  <2> HIDE DEF q, rest
  <2> QED
    BY <1>9, <1>11, <1>12
<1> QED
  BY <1>0, <1>11, <1>12, <1>13

-----------------------------------------------------------------------------
(* What is sent for a product. *)

\* The columns of q in p, in order.
LEMMA SharedIs ==
  ASSUME NEW B, IsMatrix(B), NEW p \in Proc, NEW q \in Proc
  PROVE  \E n \in Nat : Lists(Shared(B, q, p), n, Offd(B, p) \cap Own(B, q))
<1> DEFINE D == Offd(B, p) \cap Own(B, q)
<1>1. /\ Offd(B, p) \in SUBSET Int /\ IsFiniteSet(Offd(B, p))
  BY OffdOf
<1>2. D \in SUBSET Int /\ IsFiniteSet(D)
  BY <1>1, FS_Subset
<1>3. Lists(Sorted(D), Cardinality(D), D) /\ Cardinality(D) \in Nat
  BY <1>2, SortedIs, FS_CardinalityType
<1> QED
  BY <1>3 DEF Shared

\* The standard sends are one for each user.
LEMMA StandardUsers ==
  ASSUME NEW B, IsMatrix(B), NEW p \in Proc
  PROVE  /\ \E n \in Nat : DOMAIN StandardSends(B, p) = 1 .. n
         /\ \A k \in DOMAIN StandardSends(B, p) :
              /\ StandardSends(B, p)[k].proc \in Users(B, p)
              /\ StandardSends(B, p)[k].elmts =
                   LocalElmts(Shared(B, p, StandardSends(B, p)[k].proc), ColStart(B, p))
         /\ \A j, k \in DOMAIN StandardSends(B, p) :
              StandardSends(B, p)[j].proc = StandardSends(B, p)[k].proc => j = k
         /\ \A q \in Users(B, p) : \E k \in DOMAIN StandardSends(B, p) :
              StandardSends(B, p)[k].proc = q
<1> DEFINE U == Users(B, p)
           users == Sorted(U)
           n == Cardinality(U)
<1>1. U \in SUBSET Int /\ IsFiniteSet(U)
  <2>1. IsFiniteSet(Proc) /\ Proc \in SUBSET Int
    BY PartitionAssumption, FS_Interval DEF Proc
  <2>2. U \in SUBSET Proc
    BY DEF Users
  <2> HIDE DEF U
  <2> QED
    BY <2>1, <2>2, FS_Subset
<1>2. Lists(users, n, U)
  <2> HIDE DEF U
  <2> QED
    BY <1>1, SortedIs
<1>3. StandardSends(B, p) =
        [k \in DOMAIN users |->
           [proc |-> users[k],
            elmts |-> LocalElmts(Sorted(Offd(B, users[k]) \cap Own(B, p)), ColStart(B, p))]]
  BY DEF StandardSends, Users
<1> HIDE DEF users, n, U
<1>4. /\ n \in Nat /\ DOMAIN users = 1 .. n
      /\ \A k \in 1 .. n : users[k] \in U /\ users[k] \in Int
      /\ \A i, j \in 1 .. n : i < j => users[i] < users[j]
      /\ \A x \in U : \E i \in 1 .. n : users[i] = x
  BY <1>1, <1>2 DEF Lists
<1>5. /\ DOMAIN StandardSends(B, p) = 1 .. n
      /\ \A k \in 1 .. n :
           /\ StandardSends(B, p)[k].proc = users[k]
           /\ StandardSends(B, p)[k].elmts = LocalElmts(Shared(B, p, users[k]), ColStart(B, p))
  <2>1. StandardSends(B, p) =
          [k \in 1 .. n |->
             [proc |-> users[k], elmts |-> LocalElmts(Shared(B, p, users[k]), ColStart(B, p))]]
    BY Zenon, <1>3, <1>4 DEF Shared
  <2> QED
    BY <2>1
<1>6. ASSUME NEW j \in 1 .. n, NEW k \in 1 .. n, users[j] = users[k]
      PROVE  j = k
  <2>1. j < k \/ k < j \/ j = k
    OBVIOUS
  <2> QED
    BY <1>4, <1>6, <2>1
<1> QED
  BY SMTT(20), <1>4, <1>5, <1>6 DEF U

\* What is sent is one vector to each process of S.
OneEach(list, n, S, f) ==
  /\ n \in Nat /\ DOMAIN list = 1 .. n
  /\ \A i \in 1 .. n : list[i].to \in S /\ list[i].buf = f[list[i].to]
  /\ \A i, j \in 1 .. n : list[i].to = list[j].to => i = j
  /\ \A q \in S : \E i \in 1 .. n : list[i].to = q

\* The vectors to p, in the order of the list.
VectorsTo(list, p) ==
  LET to == Sorted({i \in DOMAIN list : list[i].to = p})
  IN  [m \in DOMAIN to |-> list[to[m]].buf]

\* There is one or none.
LEMMA OneTo ==
  ASSUME NEW list, NEW n, NEW S, NEW f, OneEach(list, n, S, f), NEW p
  PROVE  VectorsTo(list, p) = IF p \in S THEN <<f[p]>> ELSE <<>>
<1> USE DEF OneEach
<1> DEFINE I == {i \in DOMAIN list : list[i].to = p}
           to == Sorted(I)
<1>0. VectorsTo(list, p) = [m \in DOMAIN to |-> list[to[m]].buf]
  BY DEF VectorsTo
<1>1. CASE p \in S
  <2>1. PICK i \in 1 .. n : list[i].to = p
    BY <1>1
  <2>2. I = {i}
    BY <2>1
  <2> DEFINE one == [m \in 1 .. 1 |-> i]
  <2>3. Lists(one, 1, I)
    <3>1. one \in [1 .. 1 -> I] /\ \A x \in I : \E m \in 1 .. 1 : one[m] = x
      BY <2>2
    <3>2. \A k, m \in 1 .. 1 : k < m => one[k] < one[m]
      OBVIOUS
    <3> HIDE DEF one, I
    <3> QED
      BY <3>1, <3>2 DEF Lists
  <2>4. I \in SUBSET Int
    BY <2>2
  <2>5. to = one
    <3> HIDE DEF one, I
    <3> QED
      BY <2>3, <2>4, SortedUnique
  <2>6. list[i].buf = f[p]
    BY <2>1
  <2>7. DOMAIN one = 1 .. 1 /\ \A m \in 1 .. 1 : list[one[m]].buf = f[p]
    BY <2>6
  <2>8. [m \in DOMAIN one |-> list[one[m]].buf] = [m \in 1 .. 1 |-> f[p]]
    <3> HIDE DEF one
    <3> QED
      BY <2>7
  <2>9. [m \in 1 .. 1 |-> f[p]] = <<f[p]>>
    OBVIOUS
  <2> HIDE DEF one, to
  <2> QED
    BY <1>0, <1>1, <2>5, <2>8, <2>9
<1>2. CASE p \notin S
  <2>1. I = {}
    BY <1>2
  <2> DEFINE none == [m \in 1 .. 0 |-> 0]
  <2>2. Lists(none, 0, {})
    BY DEF Lists
  <2>3. to = none
    <3> HIDE DEF none, I
    <3> QED
      BY <2>1, <2>2, SortedUnique
  <2>4. [m \in DOMAIN none |-> list[none[m]].buf] = <<>>
    OBVIOUS
  <2> HIDE DEF none, to
  <2> QED
    BY <1>0, <1>2, <2>3, <2>4
<1> QED
  BY <1>1, <1>2

\* The standard recvs are numbered, and their ends are numbers.
LEMMA RecvsAre ==
  ASSUME NEW B, IsMatrix(B), NEW p \in Proc
  PROVE  /\ \E n \in Nat : DOMAIN StandardRecvs(B, p) = 1 .. n
         /\ \A k \in DOMAIN StandardRecvs(B, p) : StandardRecvs(B, p)[k].end \in Nat
<1> DEFINE owners == Sorted(Owners(B, p))
           n == Cardinality(Owners(B, p))
           below(r) == {c \in Offd(B, p) : OwnerOf(B, c) <= r}
<1>1. /\ Owners(B, p) \in SUBSET Int /\ IsFiniteSet(Owners(B, p))
      /\ IsFiniteSet(Offd(B, p))
  BY OffdOf
<1>2. Lists(owners, n, Owners(B, p))
  BY <1>1, SortedIs
<1>3. \A r : Cardinality(below(r)) \in Nat
  <2> SUFFICES ASSUME NEW r PROVE Cardinality(below(r)) \in Nat
    OBVIOUS
  <2>1. below(r) \in SUBSET Offd(B, p)
    OBVIOUS
  <2> HIDE DEF below
  <2> QED
    BY <1>1, <2>1, FS_Subset, FS_CardinalityType
<1>4. StandardRecvs(B, p) =
        [k \in DOMAIN owners |-> [proc |-> owners[k], end |-> Cardinality(below(owners[k]))]]
  BY DEF StandardRecvs
<1> HIDE DEF owners, n, below
<1>5. n \in Nat /\ DOMAIN owners = 1 .. n
  BY <1>2 DEF Lists
<1> QED
  BY <1>3, <1>4, <1>5

\* What q sends for a product: to each that needs something the vector, one time.
LEMMA SendsRight ==
  ASSUME NEW q \in Proc, IsMatrix(A(q)), NEW k \in 1 .. Len(Jobs), Jobs[k] \in {1, 2},
         recvs[q] = StandardRecvs(A(q), q), sends[q] = StandardSends(A(q), q), NEW p \in Proc
  PROVE  VectorsTo(SendData(q, Jobs[k], k), p) =
           IF SendsFor(A(q), q, p, Jobs[k]) THEN <<Vectors(A(q), q, p)[k]>> ELSE <<>>
<1> DEFINE B == A(q)
           list == SendData(q, Jobs[k], k)
           S == IF Jobs[k] = 1 THEN Users(B, q) ELSE Owners(B, q)
           f == [r \in S |-> Vectors(B, q, r)[k]]
<1>1. \E n : OneEach(list, n, S, f)
  <2>1. CASE Jobs[k] = 1
    <3> DEFINE L == StandardSends(B, q)
    <3>1. PICK n \in Nat : DOMAIN L = 1 .. n
      BY StandardUsers
    <3>2. /\ \A i \in 1 .. n : /\ L[i].proc \in Users(B, q)
                               /\ L[i].elmts = LocalElmts(Shared(B, q, L[i].proc), ColStart(B, q))
          /\ \A i, j \in 1 .. n : L[i].proc = L[j].proc => i = j
          /\ \A r \in Users(B, q) : \E i \in 1 .. n : L[i].proc = r
      BY <3>1, StandardUsers
    <3>3. list = [i \in DOMAIN L |->
                    [to |-> L[i].proc,
                     buf |-> [j \in DOMAIN L[i].elmts |->
                                TermsOf(k, {ColStart(B, q) + L[i].elmts[j]})]]]
      BY <2>1 DEF SendData
    <3> HIDE DEF L, list
    <3>4. S = Users(B, q)
      BY <2>1
    <3>5. DOMAIN list = 1 .. n /\ \A i \in 1 .. n : list[i].to = L[i].proc
      BY <3>1, <3>3
    <3>6. ASSUME NEW i \in 1 .. n PROVE list[i].buf = f[list[i].to]
      <4>1. PICK r \in Proc : r = L[i].proc /\ r \in S /\ list[i].to = r
        BY <3>2, <3>4, <3>5 DEF Users
      <4>2. PICK w \in Nat : Lists(Shared(B, q, r), w, Offd(B, r) \cap Own(B, q))
        BY SharedIs
      <4>3. Offd(B, r) \in SUBSET Int
        BY OffdOf
      <4>4. DOMAIN Shared(B, q, r) = 1 .. w /\ \A j \in 1 .. w : Shared(B, q, r)[j] \in Int
        BY <4>2, <4>3 DEF Lists
      <4>5. L[i].elmts = [j \in 1 .. w |-> Shared(B, q, r)[j] - ColStart(B, q)]
        BY <3>2, <4>1, <4>4 DEF LocalElmts
      <4>6. ColStart(B, q) \in Int
        BY Starts
      <4>7. \A j \in 1 .. w : ColStart(B, q) + L[i].elmts[j] = Shared(B, q, r)[j]
        BY <4>4, <4>5, <4>6
      <4>8. list[i].buf = [j \in DOMAIN L[i].elmts |->
                             TermsOf(k, {ColStart(B, q) + L[i].elmts[j]})]
        BY <3>1, <3>3
      <4>9. DOMAIN L[i].elmts = 1 .. w
        BY <4>5
      <4>10. list[i].buf = [j \in 1 .. w |-> TermsOf(k, {Shared(B, q, r)[j]})]
        BY <4>7, <4>8, <4>9
      <4>11. Vectors(B, q, r)[k] = [j \in 1 .. w |-> TermsOf(k, {Shared(B, q, r)[j]})]
        BY <2>1, <4>4 DEF Vectors
      <4> HIDE DEF S
      <4> QED
        BY <4>1, <4>10, <4>11
    <3> HIDE DEF f, S
    <3>7. \A i \in 1 .. n : list[i].to \in S
      BY <3>2, <3>4, <3>5
    <3>8. \A i, j \in 1 .. n : list[i].to = list[j].to => i = j
      BY <3>2, <3>5
    <3>9. \A r \in S : \E i \in 1 .. n : list[i].to = r
      BY <3>2, <3>4, <3>5
    <3> QED
      BY <3>5, <3>6, <3>7, <3>8, <3>9 DEF OneEach
  <2>2. CASE Jobs[k] = 2
    <3> DEFINE L == StandardRecvs(B, q)
               cols(i) == RecvCols(Cols(q), L, i)
    <3>1. PICK n \in Nat : DOMAIN L = 1 .. n
      BY RecvsAre
    <3>2. /\ \A i \in 1 .. n : L[i].proc \in Owners(B, q)
          /\ \A i, j \in 1 .. n : L[i].proc = L[j].proc => i = j
          /\ \A r \in Owners(B, q) : \E i \in 1 .. n : L[i].proc = r
      BY <3>1, StandardProcs
    <3>3. \A i \in 1 .. n : cols(i) = Shared(B, L[i].proc, q)
      <4>1. Cols(q) = Sorted(Offd(B, q))
        BY DEF IsMatrix, Cols
      <4> SUFFICES ASSUME NEW i \in 1 .. n PROVE cols(i) = Shared(B, L[i].proc, q)
        OBVIOUS
      <4>2. i \in DOMAIN L
        BY <3>1
      <4>3. RecvCols(Sorted(Offd(B, q)), L, i) = Sorted(Offd(B, q) \cap Own(B, L[i].proc))
        BY <4>2, RecvColsRight
      <4> QED
        BY <4>1, <4>3 DEF Shared
    <3>4. list = [i \in DOMAIN L |->
                    [to |-> L[i].proc,
                     buf |-> [j \in DOMAIN cols(i) |->
                                TermsOf(k, {r \in Own(B, q) : <<r, cols(i)[j]>> \in B.nonzeros})]]]
      BY <2>2 DEF SendData
    <3> HIDE DEF L, list, cols
    <3>5. S = Owners(B, q)
      BY <2>2
    <3>6. DOMAIN list = 1 .. n /\ \A i \in 1 .. n : list[i].to = L[i].proc
      BY <3>1, <3>4
    <3>7. ASSUME NEW i \in 1 .. n PROVE list[i].buf = f[list[i].to]
      <4>1. PICK s \in S : s = L[i].proc /\ list[i].to = s
        BY <3>2, <3>5, <3>6
      <4>2. list[i].buf = [j \in DOMAIN Shared(B, s, q) |->
              TermsOf(k, {r \in Own(B, q) : <<r, Shared(B, s, q)[j]>> \in B.nonzeros})]
        BY <3>1, <3>3, <3>4, <4>1
      <4>3. Vectors(B, q, s)[k] = [j \in DOMAIN Shared(B, s, q) |->
              TermsOf(k, {r \in Own(B, q) : <<r, Shared(B, s, q)[j]>> \in B.nonzeros})]
        BY <2>2 DEF Vectors
      <4> HIDE DEF S
      <4> QED
        BY <4>1, <4>2, <4>3
    <3> HIDE DEF f, S
    <3>8. \A i \in 1 .. n : list[i].to \in S
      BY <3>2, <3>5, <3>6
    <3>9. \A i, j \in 1 .. n : list[i].to = list[j].to => i = j
      BY <3>2, <3>6
    <3>10. \A r \in S : \E i \in 1 .. n : list[i].to = r
      BY <3>2, <3>5, <3>6
    <3> QED
      BY <3>6, <3>7, <3>8, <3>9, <3>10 DEF OneEach
  <2> QED
    BY <2>1, <2>2
<1>2. PICK n : OneEach(list, n, S, f)
  BY <1>1
<1>3. VectorsTo(list, p) = IF p \in S THEN <<f[p]>> ELSE <<>>
  <2> HIDE DEF f, S, list
  <2> QED
    BY <1>2, OneTo
<1>4. p \in S <=> SendsFor(B, q, p, Jobs[k])
  BY DEF SendsFor, Users
<1>5. p \in S => f[p] = Vectors(B, q, p)[k]
  <2> HIDE DEF S
  <2> QED
    OBVIOUS
<1> HIDE DEF f, S
<1> QED
  BY <1>3, <1>4, <1>5

-----------------------------------------------------------------------------
(* What is computed of what is received. *)

\* Of every product and process the job is one or the other.
LEMMA JobOf == \A k \in 1 .. Len(Jobs) : Jobs[k] \in {1, 2}
BY ProgramAssumption

\* A x: to the terms of the columns of p are added those of the columns of others.
LEMMA ProductRight ==
  ASSUME NEW p \in Proc, IsMatrix(A(p)), recvs[p] = StandardRecvs(A(p), p),
         nr[p] \in 1 .. Len(Jobs), Jobs[nr[p]] = 1, NEW received,
         \A i \in DOMAIN recvs[p] : received[i] = Vectors(A(p), recvs[p][i].proc, p)[nr[p]]
  PROVE  Product(p, received) =
           [r \in Own(A(p), p) |-> TermsOf(nr[p], {c \in Row : <<r, c>> \in A(p).nonzeros})]
<1> DEFINE B == A(p)
           R == StandardRecvs(B, p)
           C == Offd(B, p)
           cols == Sorted(C)
           k == nr[p]
           from(j) == CHOOSE i \in DOMAIN R : RecvStart(R, i) <= j /\ j <= R[i].end
           x_tmp(j) == received[from(j)][j - RecvStart(R, from(j)) + 1]
           nz == B.nonzeros
<1>1. Cols(p) = cols /\ nz \subseteq Row \X Row
  BY DEF IsMatrix, Cols
<1>2. /\ C \in SUBSET Row /\ C \in SUBSET Int /\ IsFiniteSet(C)
      /\ \A q \in Proc : q \in Owners(B, p) <=> C \cap Own(B, q) # {}
  BY OffdOf
<1>3. PICK n \in Nat : Lists(cols, n, C)
  BY <1>2, SortedIs, FS_CardinalityType
<1>4. /\ DOMAIN cols = 1 .. n /\ \A j \in 1 .. n : cols[j] \in C
      /\ \A i, j \in 1 .. n : i < j => cols[i] < cols[j]
      /\ \A c \in C : \E j \in 1 .. n : cols[j] = c
  BY <1>3 DEF Lists
<1> HIDE DEF cols
<1>5. \A i, j \in 1 .. n : i # j => cols[i] # cols[j]
  <2> SUFFICES ASSUME NEW i \in 1 .. n, NEW j \in 1 .. n, i # j PROVE cols[i] # cols[j]
    OBVIOUS
  <2>1. cols[i] \in Int /\ cols[j] \in Int
    BY <1>2, <1>4
  <2>2. i < j \/ j < i
    OBVIOUS
  <2> QED
    BY <1>4, <2>1, <2>2
<1>6. ASSUME NEW j \in 1 .. n PROVE x_tmp(j) = TermsOf(k, {cols[j]})
  <2>1. \A i \in DOMAIN R :
          /\ R[i].proc \in Proc
          /\ RecvCols(cols, R, i) = Shared(B, R[i].proc, p)
          /\ RecvStart(R, i) <= j /\ j <= R[i].end <=> cols[j] \in Own(B, R[i].proc)
          /\ RecvStart(R, i) <= j /\ j <= R[i].end =>
               /\ j - RecvStart(R, i) + 1 \in DOMAIN RecvCols(cols, R, i)
               /\ RecvCols(cols, R, i)[j - RecvStart(R, i) + 1] = cols[j]
    <3> SUFFICES ASSUME NEW i \in DOMAIN R
                 PROVE  /\ R[i].proc \in Proc
                        /\ RecvCols(cols, R, i) = Shared(B, R[i].proc, p)
                        /\ RecvStart(R, i) <= j /\ j <= R[i].end <=> cols[j] \in Own(B, R[i].proc)
                        /\ RecvStart(R, i) <= j /\ j <= R[i].end =>
                             /\ j - RecvStart(R, i) + 1 \in DOMAIN RecvCols(cols, R, i)
                             /\ RecvCols(cols, R, i)[j - RecvStart(R, i) + 1] = cols[j]
      OBVIOUS
    <3>1. R[i].proc \in Owners(B, p) /\ Owners(B, p) \in SUBSET Proc
      BY RecvPlaces, OffdOf
    <3>2. RecvCols(cols, R, i) = Shared(B, R[i].proc, p)
      BY RecvPlaces DEF Shared, cols
    <3>3. j \in DOMAIN Sorted(Offd(B, p))
      BY <1>4 DEF cols
    <3>4. /\ RecvStart(R, i) <= j /\ j <= R[i].end <=> cols[j] \in Own(B, R[i].proc)
          /\ RecvStart(R, i) <= j /\ j <= R[i].end =>
               /\ j - RecvStart(R, i) + 1 \in DOMAIN RecvCols(cols, R, i)
               /\ RecvCols(cols, R, i)[j - RecvStart(R, i) + 1] = cols[j]
      BY <3>3, RecvPlaces DEF cols
    <3> QED
      BY <3>1, <3>2, <3>4
  <2>2. \E i \in DOMAIN R : RecvStart(R, i) <= j /\ j <= R[i].end
    <3>1. cols[j] \in Row /\ cols[j] \in C
      BY <1>2, <1>4
    <3>2. PICK q \in Proc : q = OwnerOf(B, cols[j]) /\ cols[j] \in Own(B, q)
      BY <3>1, HasOwner
    <3>3. q \in Owners(B, p)
      BY <1>2, <3>1, <3>2
    <3>4. PICK i \in DOMAIN R : R[i].proc = q
      BY <3>3, StandardProcs
    <3> QED
      BY <2>1, <3>2, <3>4
  <2>3. PICK i \in DOMAIN R : i = from(j) /\ RecvStart(R, i) <= j /\ j <= R[i].end
    BY <2>2
  <2>4. PICK m : m = j - RecvStart(R, i) + 1
    OBVIOUS
  <2>5. /\ m \in DOMAIN Shared(B, R[i].proc, p) /\ Shared(B, R[i].proc, p)[m] = cols[j]
    BY <2>1, <2>3, <2>4
  <2>6. received[i] = Vectors(B, R[i].proc, p)[k]
    OBVIOUS
  <2>7. Vectors(B, R[i].proc, p)[k] =
          [l \in DOMAIN Shared(B, R[i].proc, p) |-> TermsOf(k, {Shared(B, R[i].proc, p)[l]})]
    BY DEF Vectors
  <2>8. x_tmp(j) = received[i][m]
    BY <2>3, <2>4
  <2> HIDE DEF x_tmp, B, R, k
  <2> QED
    BY <2>5, <2>6, <2>7, <2>8
<1>7. ASSUME NEW r \in Own(B, p)
      PROVE  TermsOf(k, {c \in Own(B, p) : <<r, c>> \in nz}) (+)
             SumOf([j \in DOMAIN cols |-> IF <<r, cols[j]>> \in nz THEN x_tmp(j) ELSE EmptyBag])
             = TermsOf(k, {c \in Row : <<r, c>> \in nz})
  <2> DEFINE bags == [j \in 1 .. n |-> IF <<r, cols[j]>> \in nz THEN x_tmp(j) ELSE EmptyBag]
             terms == [j \in 1 .. n |-> IF <<r, cols[j]>> \in nz THEN {cols[j]} ELSE {}]
             X == {c \in Own(B, p) : <<r, c>> \in nz}
             Z == {c \in C : <<r, c>> \in nz}
  <2>1. \A j \in 1 .. n : bags[j] = TermsOf(k, terms[j])
    <3> SUFFICES ASSUME NEW j \in 1 .. n PROVE bags[j] = TermsOf(k, terms[j])
      OBVIOUS
    <3> HIDE DEF x_tmp, nz, k
    <3>1. CASE <<r, cols[j]>> \in nz
      BY <1>6, <3>1
    <3>2. CASE <<r, cols[j]>> \notin nz
      BY <3>2, NoTerms
    <3> QED
      BY <3>1, <3>2
  <2>2. \A i, j \in 1 .. n : i # j => terms[i] \cap terms[j] = {}
    BY <1>5
  <2>3. UNION {terms[j] : j \in 1 .. n} = Z
    <3>1. \A c \in Z : \E j \in 1 .. n : terms[j] = {c}
      BY <1>4
    <3>2. \A j \in 1 .. n : terms[j] \subseteq Z
      BY <1>4
    <3> HIDE DEF terms, Z
    <3> QED
      BY <3>1, <3>2
  <2>4. IsFiniteSet(1 .. n) /\ DOMAIN bags = 1 .. n
    BY FS_Interval
  <2>5. SumOf(bags) = TermsOf(k, Z)
    <3> HIDE DEF bags, terms, Z, k
    <3>1. SumOf(bags) = TermsOf(k, UNION {terms[j] : j \in 1 .. n})
      BY <2>1, <2>2, <2>4, SumOfTerms
    <3> QED
      BY <2>3, <3>1
  <2>6. X \cap Z = {}
    BY DEF Offd
  <2>7. X \cup Z = {c \in Row : <<r, c>> \in nz}
    <3>1. \A c : <<r, c>> \in nz => c \in Row
      BY <1>1
    <3>2. \A c \in Row : <<r, c>> \in nz => c \in Own(B, p) \/ c \in C
      BY DEF Offd
    <3> QED
      BY <1>2, <3>1, <3>2
  <2>8. TermsOf(k, X) (+) TermsOf(k, Z) = TermsOf(k, X \cup Z)
    <3> HIDE DEF X, Z, k
    <3> QED
      BY <2>6, TermsOfBoth
  <2> HIDE DEF X, Z, x_tmp, k, nz
  <2> QED
    BY <1>4, <2>5, <2>7, <2>8 DEF X
<1>8. Product(p, received) =
        [r \in Own(B, p) |->
           TermsOf(k, {c \in Own(B, p) : <<r, c>> \in nz}) (+)
           SumOf([j \in DOMAIN cols |-> IF <<r, cols[j]>> \in nz THEN x_tmp(j) ELSE EmptyBag])]
  <2> DEFINE in(j) == CHOOSE i \in DOMAIN recvs[p] :
                        RecvStart(recvs[p], i) <= j /\ j <= recvs[p][i].end
             x(j) == received[in(j)][j - RecvStart(recvs[p], in(j)) + 1]
  <2>1. Product(p, received) =
          [r \in Own(A(p), p) |->
             TermsOf(nr[p], {c \in Own(A(p), p) : <<r, c>> \in A(p).nonzeros}) (+)
             SumOf([j \in DOMAIN Cols(p) |->
                      IF <<r, Cols(p)[j]>> \in A(p).nonzeros THEN x(j) ELSE EmptyBag])]
    BY DEF Product
  <2>2. \A j : x(j) = x_tmp(j)
    OBVIOUS
  <2> HIDE DEF x, x_tmp
  <2> QED
    BY <1>1, <2>1, <2>2
<1>9. Product(p, received) =
        [r \in Own(B, p) |-> TermsOf(k, {c \in Row : <<r, c>> \in nz})]
  <2> HIDE DEF x_tmp, k, nz, B
  <2> QED
    BY <1>7, <1>8
<1> QED
  BY <1>9

\* A^T x: to the terms of the rows of p are added those of the rows of its users.
LEMMA ProductTRight ==
  ASSUME NEW p \in Proc, IsMatrix(A(p)), sends[p] = StandardSends(A(p), p),
         nr[p] \in 1 .. Len(Jobs), Jobs[nr[p]] = 2, NEW received,
         \A i \in DOMAIN sends[p] : received[i] = Vectors(A(p), sends[p][i].proc, p)[nr[p]]
  PROVE  ProductT(p, received) =
           [c \in Own(A(p), p) |-> TermsOf(nr[p], {r \in Row : <<r, c>> \in A(p).nonzeros})]
<1> DEFINE B == A(p)
           S == StandardSends(B, p)
           k == nr[p]
           nz == B.nonzeros
           user(i) == S[i].proc
           rows(q, c) == {r \in Own(B, q) : <<r, c>> \in nz}
           inner(i, c) == [j \in DOMAIN S[i].elmts |->
                             IF ColStart(B, p) + S[i].elmts[j] = c
                             THEN received[i][j] ELSE EmptyBag]
<1>1. nz \subseteq Row \X Row
  BY DEF IsMatrix
<1>2. PICK n \in Nat : DOMAIN S = 1 .. n
  BY StandardUsers
<1>3. /\ \A i \in 1 .. n : /\ user(i) \in Users(B, p)
                           /\ S[i].elmts = LocalElmts(Shared(B, p, user(i)), ColStart(B, p))
      /\ \A i, j \in 1 .. n : user(i) = user(j) => i = j
      /\ \A q \in Users(B, p) : \E i \in 1 .. n : user(i) = q
  BY <1>2, StandardUsers
<1>4. \A i \in 1 .. n : received[i] = Vectors(B, user(i), p)[k]
  BY <1>2
<1>5. ASSUME NEW i \in 1 .. n, NEW c \in Own(B, p)
      PROVE  SumOf(inner(i, c)) = TermsOf(k, rows(user(i), c))
  <2>1. PICK q \in Proc : q = user(i) /\ p \in Owners(B, q)
    BY <1>3 DEF Users
  <2>2. PICK w \in Nat : Lists(Shared(B, p, q), w, Offd(B, q) \cap Own(B, p))
    BY SharedIs
  <2>3. Offd(B, q) \in SUBSET Int /\ p # q
    BY <2>1, OffdOf
  <2> DEFINE cols == Shared(B, p, q)
             terms == [j \in 1 .. w |-> IF cols[j] = c THEN rows(q, c) ELSE {}]
             bags == inner(i, c)
  <2> HIDE DEF cols
  <2>4. /\ DOMAIN cols = 1 .. w
        /\ \A j \in 1 .. w : cols[j] \in Int
        /\ \A j, m \in 1 .. w : j < m => cols[j] < cols[m]
        /\ \A x \in Offd(B, q) \cap Own(B, p) : \E j \in 1 .. w : cols[j] = x
    BY <2>2, <2>3 DEF Lists, cols
  <2>5. \A j, m \in 1 .. w : j # m => cols[j] # cols[m]
    <3> SUFFICES ASSUME NEW j \in 1 .. w, NEW m \in 1 .. w, j # m PROVE cols[j] # cols[m]
      OBVIOUS
    <3>1. cols[j] \in Int /\ cols[m] \in Int /\ (j < m \/ m < j)
      BY <2>4
    <3> QED
      BY <2>4, <3>1
  <2>6. S[i].elmts = [j \in 1 .. w |-> cols[j] - ColStart(B, p)]
    BY <1>3, <2>1, <2>4 DEF LocalElmts, cols
  <2>7. ColStart(B, p) \in Int
    BY Starts
  <2>8. \A j \in 1 .. w : ColStart(B, p) + S[i].elmts[j] = cols[j]
    BY <2>4, <2>6, <2>7
  <2>9. received[i] = [j \in 1 .. w |-> TermsOf(k, rows(q, cols[j]))]
    <3>1. received[i] = Vectors(B, q, p)[k]
      BY <1>4, <2>1
    <3>2. Vectors(B, q, p)[k] = [j \in DOMAIN cols |-> TermsOf(k, rows(q, cols[j]))]
      BY DEF Vectors, cols
    <3> HIDE DEF rows, k, B
    <3> QED
      BY <2>4, <3>1, <3>2
  <2>10. DOMAIN S[i].elmts = 1 .. w
    BY <2>6
  <2>11. /\ DOMAIN bags = 1 .. w
         /\ \A j \in 1 .. w : bags[j] = IF cols[j] = c THEN received[i][j] ELSE EmptyBag
    <3> HIDE DEF S
    <3> QED
      BY <2>8, <2>10
  <2>12. \A j \in 1 .. w : bags[j] = TermsOf(k, terms[j])
    <3> SUFFICES ASSUME NEW j \in 1 .. w PROVE bags[j] = TermsOf(k, terms[j])
      OBVIOUS
    <3> HIDE DEF bags, k, rows
    <3>1. CASE cols[j] = c
      BY <2>9, <2>11, <3>1
    <3>2. CASE cols[j] # c
      BY <2>11, <3>2, NoTerms
    <3> QED
      BY <3>1, <3>2
  <2>13. \A j, m \in 1 .. w : j # m => terms[j] \cap terms[m] = {}
    BY <2>5
  <2>14. IsFiniteSet(1 .. w)
    BY FS_Interval
  <2>15. UNION {terms[j] : j \in 1 .. w} = rows(q, c)
    <3>1. \A j \in 1 .. w : terms[j] \subseteq rows(q, c)
      OBVIOUS
    <3>2. ASSUME NEW r \in rows(q, c) PROVE \E j \in 1 .. w : r \in terms[j]
      <4>1. r \in Own(B, q) /\ <<r, c>> \in nz
        OBVIOUS
      <4>2. c \in Row
        BY <1>1, <4>1
      <4>3. c \notin Own(B, q)
        <5>1. c \in Int
          BY <4>2 DEF Row
        <5>2. OwnerOf(B, c) = p
          BY <5>1, OwnerIs
        <5>3. c \in Own(B, q) => OwnerOf(B, c) = q
          BY <5>1, OwnerIs
        <5> QED
          BY <2>3, <5>2, <5>3
      <4>4. c \in Offd(B, q)
        BY <4>1, <4>2, <4>3 DEF Offd
      <4>5. PICK j \in 1 .. w : cols[j] = c
        BY <2>4, <4>4
      <4> HIDE DEF rows
      <4> QED
        BY <4>5
    <3> HIDE DEF terms, rows
    <3> QED
      BY <3>1, <3>2
  <2> HIDE DEF bags, terms, k, rows
  <2>16. SumOf(bags) = TermsOf(k, UNION {terms[j] : j \in 1 .. w})
    <3>1. PICK W : W = 1 .. w
      OBVIOUS
    <3>2. DOMAIN bags = W /\ IsFiniteSet(W)
      BY <2>11, <2>14, <3>1
    <3>3. \A j \in W : bags[j] = TermsOf(k, terms[j])
      BY <2>12, <3>1
    <3>4. \A j, m \in W : j # m => terms[j] \cap terms[m] = {}
      BY <2>13, <3>1
    <3>5. SumOf(bags) = TermsOf(k, UNION {terms[j] : j \in W})
      BY <3>2, <3>3, <3>4, SumOfTerms
    <3> QED
      BY <3>1, <3>5
  <2> QED
    BY <2>1, <2>15, <2>16 DEF bags
<1>6. ASSUME NEW c \in Own(B, p)
      PROVE  TermsOf(k, rows(p, c)) (+) SumOf([i \in DOMAIN S |-> SumOf(inner(i, c))])
             = TermsOf(k, {r \in Row : <<r, c>> \in nz})
  <2> DEFINE bags == [i \in 1 .. n |-> SumOf(inner(i, c))]
             terms == [i \in 1 .. n |-> rows(user(i), c)]
             Z == UNION {terms[i] : i \in 1 .. n}
  <2>1. \A q, s \in Proc : q # s => rows(q, c) \cap rows(s, c) = {}
    <3> SUFFICES ASSUME NEW q \in Proc, NEW s \in Proc, NEW r \in rows(q, c), r \in rows(s, c)
                 PROVE  q = s
      OBVIOUS
    <3>1. r \in Own(B, q) /\ r \in Own(B, s) /\ <<r, c>> \in nz
      OBVIOUS
    <3>2. r \in Int
      BY <1>1, <3>1 DEF Row
    <3> QED
      BY <3>1, <3>2, OwnerIs
  <2>2. \A i \in 1 .. n : user(i) \in Proc /\ user(i) # p
    <3> SUFFICES ASSUME NEW i \in 1 .. n PROVE user(i) \in Proc /\ user(i) # p
      OBVIOUS
    <3>1. user(i) \in Proc /\ p \in Owners(B, user(i))
      BY <1>3 DEF Users
    <3> HIDE DEF user
    <3> QED
      BY <3>1, OffdOf
  <2>3. \A i \in 1 .. n : bags[i] = TermsOf(k, terms[i])
    <3> HIDE DEF inner, rows, user, k
    <3> QED
      BY <1>5
  <2>4. \A i, j \in 1 .. n : i # j => terms[i] \cap terms[j] = {}
    <3> SUFFICES ASSUME NEW i \in 1 .. n, NEW j \in 1 .. n, i # j PROVE terms[i] \cap terms[j] = {}
      OBVIOUS
    <3>1. user(i) # user(j) /\ user(i) \in Proc /\ user(j) \in Proc
      BY <1>3, <2>2
    <3> HIDE DEF rows, user
    <3> QED
      BY <2>1, <3>1
  <2>5. IsFiniteSet(1 .. n) /\ DOMAIN bags = 1 .. n
    <3>1. DOMAIN bags = 1 .. n
      <4> HIDE DEF inner
      <4> QED
        OBVIOUS
    <3> QED
      BY <3>1, FS_Interval
  <2>6. SumOf(bags) = TermsOf(k, Z)
    <3> HIDE DEF bags, terms, k
    <3>1. SumOf(bags) = TermsOf(k, UNION {terms[i] : i \in 1 .. n})
      BY <2>3, <2>4, <2>5, SumOfTerms
    <3> QED
      BY <3>1
  <2>7. rows(p, c) \cap Z = {}
    <3>1. \A i \in 1 .. n : rows(p, c) \cap terms[i] = {}
      <4> HIDE DEF rows, user
      <4> QED
        BY <2>1, <2>2
    <3> HIDE DEF terms, rows
    <3> QED
      BY <3>1
  <2>8. rows(p, c) \cup Z = {r \in Row : <<r, c>> \in nz}
    <3>1. \A q : rows(q, c) \subseteq {r \in Row : <<r, c>> \in nz}
      BY <1>1
    <3>2. ASSUME NEW r \in Row, <<r, c>> \in nz, r \notin rows(p, c)
          PROVE  \E i \in 1 .. n : r \in terms[i]
      <4>1. PICK q \in Proc : r \in Own(B, q)
        BY HasOwner
      <4>2. q # p /\ r \in rows(q, c)
        BY <3>2, <4>1
      <4>3. c \in Row /\ c \in Int
        BY <1>1, <3>2 DEF Row
      <4>4. c \notin Own(B, q)
        <5>1. OwnerOf(B, c) = p /\ (c \in Own(B, q) => OwnerOf(B, c) = q)
          BY <4>3, OwnerIs
        <5> QED
          BY <4>2, <5>1
      <4>5. c \in Offd(B, q)
        BY <3>2, <4>1, <4>3, <4>4 DEF Offd
      <4>6. p \in Owners(B, q)
        BY <4>5, OffdOf
      <4>7. PICK i \in 1 .. n : user(i) = q
        BY <1>3, <4>6 DEF Users
      <4> HIDE DEF rows, user
      <4> QED
        BY <4>2, <4>7
    <3>3. \A i \in 1 .. n : terms[i] \subseteq {r \in Row : <<r, c>> \in nz}
      <4> HIDE DEF rows, user
      <4> QED
        BY <3>1
    <3> HIDE DEF terms, rows
    <3> QED
      BY <3>1, <3>2, <3>3
  <2>9. TermsOf(k, rows(p, c)) (+) TermsOf(k, Z) = TermsOf(k, rows(p, c) \cup Z)
    <3> HIDE DEF Z, k, rows
    <3> QED
      BY <2>7, TermsOfBoth
  <2> HIDE DEF Z, rows, inner, S, k
  <2> QED
    BY <1>2, <2>6, <2>8, <2>9
<1>7. ProductT(p, received) =
        [c \in Own(B, p) |->
           TermsOf(k, rows(p, c)) (+) SumOf([i \in DOMAIN S |-> SumOf(inner(i, c))])]
  BY DEF ProductT
<1>8. ProductT(p, received) =
        [c \in Own(B, p) |-> TermsOf(k, {r \in Row : <<r, c>> \in nz})]
  <2> HIDE DEF rows, inner, S, k, nz, B
  <2> QED
    BY <1>6, <1>7
<1> QED
  BY <1>8

-----------------------------------------------------------------------------
(* Products keep the invariant. *)

\* Nothing more under way.
LEMMA QueueSame ==
  ASSUME NEW S \in SUBSET Int, IsFiniteSet(S), NEW f
  PROVE  Queue(f, S) \o <<>> = Queue(f, S)
<1>1. PICK n \in Nat : n = Cardinality(S)
  BY FS_CardinalityType
<1>2. PICK list : Lists(list, n, S)
  BY <1>1, SortedIs
<1>3. /\ list \in [1 .. n -> S]
  BY <1>2 DEF Lists
<1>4. Queue(f, S) = [i \in 1 .. n |-> f[list[i]]]
  BY <1>2, QueueOf
<1> DEFINE T == {f[s] : s \in S}
<1>5. Queue(f, S) \in [1 .. n -> T]
  BY <1>3, <1>4
<1>6. PICK v \in Seq(T) : v = Queue(f, S)
  <2> HIDE DEF T
  <2> QED
    BY <1>5
<1>7. v \o <<>> = v
  <2> HIDE DEF T
  <2> QED
    OBVIOUS
<1> QED
  BY <1>6, <1>7

\* The products are numbered.
LEMMA UnderWayIn ==
  ASSUME NEW p, NEW q
  PROVE  UnderWay(q, p) \in SUBSET Int /\ IsFiniteSet(UnderWay(q, p))
<1>1. Len(Jobs) \in Nat
  BY ProgramAssumption
<1>2. IsFiniteSet(1 .. Len(Jobs)) /\ 1 .. Len(Jobs) \in SUBSET Int
  BY <1>1, FS_Interval
<1>3. UnderWay(q, p) \in SUBSET (1 .. Len(Jobs))
  BY DEF UnderWay
<1> QED
  BY <1>2, <1>3, FS_Subset

\* Whom p waits for.
LEMMA SendersRight ==
  ASSUME NEW p \in Proc, IsMatrix(A(p)), NEW job \in {1, 2},
         recvs[p] = StandardRecvs(A(p), p), sends[p] = StandardSends(A(p), p)
  PROVE  /\ DOMAIN Senders(p, job) = DOMAIN (IF job = 1 THEN recvs[p] ELSE sends[p])
         /\ \A i \in DOMAIN Senders(p, job) :
              /\ Senders(p, job)[i] = (IF job = 1 THEN recvs[p] ELSE sends[p])[i].proc
              /\ Senders(p, job)[i] \in Proc
              /\ SendsFor(A(p), Senders(p, job)[i], p, job)
         /\ \A q \in Proc : SendsFor(A(p), q, p, job) =>
              \E i \in DOMAIN Senders(p, job) : Senders(p, job)[i] = q
<1> DEFINE B == A(p)
<1>1. CASE job = 1
  <2>1. Senders(p, job) = [i \in DOMAIN recvs[p] |-> recvs[p][i].proc]
    BY <1>1 DEF Senders
  <2>2. \A q : SendsFor(B, q, p, job) <=> q \in Owners(B, p)
    BY <1>1 DEF SendsFor
  <2>3. Owners(B, p) \in SUBSET Proc
    BY OffdOf
  <2>4. /\ \A k \in DOMAIN recvs[p] : recvs[p][k].proc \in Owners(B, p)
        /\ \A q \in Owners(B, p) : \E k \in DOMAIN recvs[p] : recvs[p][k].proc = q
    BY StandardProcs
  <2> QED
    BY <1>1, <2>1, <2>2, <2>3, <2>4
<1>2. CASE job = 2
  <2>1. Senders(p, job) = [i \in DOMAIN sends[p] |-> sends[p][i].proc]
    BY <1>2 DEF Senders
  <2>2. \A q \in Proc : SendsFor(B, q, p, job) <=> q \in Users(B, p)
    BY <1>2 DEF SendsFor, Users
  <2>3. Users(B, p) \in SUBSET Proc
    BY DEF Users
  <2>4. /\ \A k \in DOMAIN sends[p] : sends[p][k].proc \in Users(B, p)
        /\ \A q \in Users(B, p) : \E k \in DOMAIN sends[p] : sends[p][k].proc = q
    BY StandardUsers
  <2> QED
    BY <1>2, <2>1, <2>2, <2>3, <2>4
<1> QED
  BY <1>1, <1>2

\* What the package is for a process that multiplies.
LEMMA PackageOf ==
  ASSUME IInv, PackageInv, NEW p \in Proc, pc[p] \in {"pkg", "product"}
  PROVE  /\ IsMatrix(A(p))
         /\ recvs[p] = StandardRecvs(A(p), p) /\ sends[p] = StandardSends(A(p), p)
<1>1. TypeInv /\ RecvsInv /\ SendsInv
  BY DEF IInv, PackageInv
<1>2. round[p] <= NumRounds
  BY <1>1 DEF TypeInv
<1> QED
  BY <1>1, <1>2, MatrixOf DEF RecvsInv, SendsInv

\* Steps that send and receive no vectors.
LEMMA OthersKeep ==
  ASSUME TypeInv, ProductInv, UNCHANGED <<program, round, nr, data, y>>,
         \A p \in Proc : pc'[p] = pc[p] \/ (/\ pc[p] \notin {"pkg", "product"}
                                             /\ pc'[p] # "product")
  PROVE  ProductInv'
<1>1. NrInv /\ DataInv /\ WaitInv /\ ProductTrue
  BY DEF ProductInv
<1>2. \A p \in Proc : nr[p] > 0 \/ pc'[p] = "product" => pc'[p] = pc[p]
  <2> SUFFICES ASSUME NEW p \in Proc, nr[p] > 0 \/ pc'[p] = "product" PROVE pc'[p] = pc[p]
    OBVIOUS
  <2>1. pc[p] \notin {"pkg", "product"} => ~ (nr[p] > 0)
    BY <1>1 DEF NrInv
  <2> QED
    BY <2>1
<1>3. \A p \in Proc : A(p)' = A(p)
  BY DEF A
<1>4. \A p \in Proc : pc'[p] = "product" <=> pc[p] = "product"
  OBVIOUS
<1>5. \A p \in Proc : Through(p)' = Through(p)
  BY <1>4 DEF Through
<1>6. \A q \in Proc : \A p \in Proc : UnderWay(q, p)' = UnderWay(q, p)
  BY <1>3, <1>5 DEF UnderWay, StartedIn
<1>7. NrInv'
  <2> SUFFICES ASSUME NEW p \in Proc
               PROVE  /\ nr'[p] \in 0 .. Len(Jobs)
                      /\ pc'[p] \notin {"pkg", "product"} => nr'[p] = 0
                      /\ pc'[p] = "product" => nr'[p] > 0
    BY DEF NrInv
  <2>1. /\ nr[p] \in 0 .. Len(Jobs)
        /\ pc[p] \notin {"pkg", "product"} => nr[p] = 0
        /\ pc[p] = "product" => nr[p] > 0
    BY <1>1 DEF NrInv
  <2>2. nr'[p] = nr[p]
    OBVIOUS
  <2> QED
    BY <1>4, <2>1, <2>2
<1>8. DataInv'
  BY <1>1, <1>3, <1>6 DEF DataInv
<1>9. WaitInv'
  BY <1>1, <1>3, <1>5 DEF WaitInv
<1>10. ProductTrue'
  BY <1>1, <1>2, <1>3 DEF ProductTrue
<1> QED
  BY <1>7, <1>8, <1>9, <1>10 DEF ProductInv

\* A process that starts a product is not ahead of one that its vector is for.
LEMMA StartProductKeeps ==
  ASSUME IInv, PackageInv, ProductInv, NEW q \in Proc, StartProduct(q)
  PROVE  ProductInv'
<1> DEFINE L == Len(Jobs)
<1>1. /\ TypeInv /\ ExchangeInv /\ NrInv /\ DataInv /\ WaitInv /\ ProductTrue
  BY DEF IInv, ProductInv
<1>2. /\ pc \in [Proc -> Labels] /\ round \in [Proc -> Int] /\ DOMAIN nr = Proc
      /\ L \in Nat /\ \A p \in Proc : nr[p] \in 0 .. L
  BY <1>1, ProgramAssumption DEF TypeInv, NrInv, DataInv
<1>3. PICK k \in 1 .. L : k = nr[q] + 1
  <2>1. nr[q] \in 0 .. L /\ nr[q] < L
    BY <1>2 DEF StartProduct
  <2> QED
    BY <1>2, <2>1
<1>4. /\ pc[q] = "pkg" /\ pc' = [pc EXCEPT ![q] = "product"]
      /\ nr' = [nr EXCEPT ![q] = k]
      /\ UNCHANGED <<program, round, recvs, sends, y>>
  BY <1>3 DEF StartProduct, Goto, package
<1>5. /\ \A p \in Proc : pc'[p] = IF p = q THEN "product" ELSE pc[p]
      /\ \A p \in Proc : nr'[p] = IF p = q THEN k ELSE nr[p]
      /\ DOMAIN nr' = Proc
  BY <1>2, <1>4
<1>6. \A p \in Proc : A(p)' = A(p)
  BY <1>4 DEF A
<1>7. \A p \in Proc : Through(p)' = Through(p)
  <2> SUFFICES ASSUME NEW p \in Proc PROVE Through(p)' = Through(p)
    OBVIOUS
  <2>1. CASE p = q
    <3>1. Through(p) = nr[q] /\ Through(p)' = k - 1
      BY <1>4, <1>5, <2>1 DEF Through
    <3> QED
      BY <1>2, <1>3, <3>1
  <2>2. CASE p # q
    BY <1>5, <2>2 DEF Through
  <2> QED
    BY <2>1, <2>2
<1>8. \A p \in Proc : nr[p] \in Int /\ nr'[p] \in Int /\ nr[p] <= nr'[p]
  <2> SUFFICES ASSUME NEW p \in Proc PROVE nr[p] \in Int /\ nr'[p] \in Int /\ nr[p] <= nr'[p]
    OBVIOUS
  <2>1. nr[p] \in Int
    BY <1>2
  <2>2. CASE p = q
    BY <1>3, <1>5, <2>1, <2>2
  <2>3. CASE p # q
    BY <1>5, <2>1, <2>3
  <2> QED
    BY <2>1, <2>2, <2>3
<1>9. NrInv'
  <2> SUFFICES ASSUME NEW p \in Proc
               PROVE  /\ nr'[p] \in 0 .. Len(Jobs)
                      /\ pc'[p] \notin {"pkg", "product"} => nr'[p] = 0
                      /\ pc'[p] = "product" => nr'[p] > 0
    BY DEF NrInv
  <2>1. CASE p = q
    BY <1>3, <1>5, <2>1
  <2>2. CASE p # q
    BY <1>1, <1>5, <2>2 DEF NrInv
  <2> QED
    BY <2>1, <2>2
<1>10. WaitInv'
  <2> SUFFICES ASSUME NEW p \in Proc, NEW s \in Proc, NEW j \in 1 .. L, nr'[s] < j,
                      \/ round'[s] < round'[p]
                      \/ round'[s] = round'[p] /\ j <= Through(p)'
               PROVE  ~ SendsFor(A(s)', s, p, Jobs[j])
    BY DEF WaitInv
  <2>1. nr[s] < j
    <3>1. nr[s] \in Int /\ nr'[s] \in Int /\ nr[s] <= nr'[s]
      BY <1>8
    <3> QED
      BY <3>1
  <2>2. round[s] < round[p] \/ (round[s] = round[p] /\ j <= Through(p))
    BY <1>4, <1>7
  <2> QED
    BY <1>1, <1>6, <2>1, <2>2 DEF WaitInv
<1>11. ProductTrue'
  BY <1>1, <1>4, <1>5, <1>6 DEF ProductTrue
<1>12. data' = [c \in Proc \X Proc |->
                  IF c[1] = q THEN data[c] \o VectorsTo(SendData(q, Jobs[k], k), c[2]) ELSE data[c]]
  BY <1>3 DEF StartProduct, VectorsTo
<1>13. \A p \in Proc : \A s \in Proc :
         data'[<<s, p>>] = IF s = q THEN data[<<q, p>>] \o VectorsTo(SendData(q, Jobs[k], k), p)
                           ELSE data[<<s, p>>]
  BY <1>12
<1>14. ASSUME NEW p \in Proc, NEW s \in Proc, s # q
       PROVE  data'[<<s, p>>] = Queue(Vectors(A(p)', s, p), UnderWay(s, p)')
  <2>1. StartedIn(s, round[p])' = StartedIn(s, round[p])
    BY <1>4, <1>5, <1>14 DEF StartedIn
  <2>2. UnderWay(s, p)' = UnderWay(s, p)
    BY <1>4, <1>6, <1>7, <2>1 DEF UnderWay
  <2> QED
    BY <1>1, <1>6, <1>13, <1>14, <2>2 DEF DataInv
<1>15. ASSUME NEW p \in Proc
       PROVE  data'[<<q, p>>] = Queue(Vectors(A(p)', q, p), UnderWay(q, p)')
  <2> DEFINE S == UnderWay(q, p)
             f == Vectors(A(p), q, p)
  <2>1. S \in SUBSET Int /\ IsFiniteSet(S)
    BY UnderWayIn
  <2>2. data[<<q, p>>] = Queue(f, S)
    BY <1>1 DEF DataInv
  <2>3. round[q] <= round[p] /\ round[q] \in Int /\ round[p] \in Int
    <3>1. round[q] \in Int /\ round[p] \in Int
      BY <1>2
    <3>2. round[q] < round[p] \/ round[q] = round[p]
      BY <1>1, <1>4, NobodyBehind
    <3> QED
      BY <3>1, <3>2
  <2>4. /\ IsMatrix(A(q)) /\ recvs[q] = StandardRecvs(A(q), q)
        /\ sends[q] = StandardSends(A(q), q)
    BY <1>4, PackageOf
  <2>5. VectorsTo(SendData(q, Jobs[k], k), p) =
          IF SendsFor(A(q), q, p, Jobs[k]) THEN <<Vectors(A(q), q, p)[k]>> ELSE <<>>
    BY <2>4, JobOf, SendsRight
  <2>6. S = {j \in 1 .. L : /\ Through(p) < j /\ j <= StartedIn(q, round[p])
                            /\ SendsFor(A(p), q, p, Jobs[j])}
    BY DEF UnderWay
  <2>7. UnderWay(q, p)' =
          {j \in 1 .. L : /\ Through(p) < j /\ j <= StartedIn(q, round[p])'
                          /\ SendsFor(A(p), q, p, Jobs[j])}
    BY <1>4, <1>6, <1>7 DEF UnderWay
  <2>8. CASE round[q] < round[p]
    <3>1. StartedIn(q, round[p]) = 0 /\ StartedIn(q, round[p])' = 0
      BY <1>4, <2>3, <2>8 DEF StartedIn
    <3>2. UnderWay(q, p)' = S
      BY <2>6, <2>7, <3>1
    <3>3. ~ SendsFor(A(q), q, p, Jobs[k])
      <4>1. nr[q] < k
        BY <1>3, <1>8
      <4> QED
        BY <1>1, <2>8, <4>1 DEF WaitInv
    <3>4. data'[<<q, p>>] = Queue(f, S) \o <<>>
      BY <1>13, <2>2, <2>5, <3>3
    <3> HIDE DEF S, f
    <3> QED
      BY <1>6, <2>1, <3>2, <3>4, QueueSame DEF f
  <2>9. CASE round[q] = round[p]
    <3>1. StartedIn(q, round[p]) = nr[q] /\ StartedIn(q, round[p])' = k
      BY <1>4, <1>5, <2>3, <2>9 DEF StartedIn
    <3>2. A(q) = A(p)
      BY <2>9 DEF A
    <3>3. \A j \in 1 .. L : j <= k <=> j <= nr[q] \/ j = k
      <4>1. nr[q] \in Int
        BY <1>8
      <4> QED
        BY <1>3, <4>1
    <3>4. CASE ~ SendsFor(A(p), q, p, Jobs[k])
      <4>1. UnderWay(q, p)' = S
        BY <2>6, <2>7, <3>1, <3>3, <3>4
      <4>2. data'[<<q, p>>] = Queue(f, S) \o <<>>
        BY <1>13, <2>2, <2>5, <3>2, <3>4
      <4> HIDE DEF S, f
      <4> QED
        BY <1>6, <2>1, <4>1, <4>2, QueueSame DEF f
    <3>5. CASE SendsFor(A(p), q, p, Jobs[k])
      <4>1. Through(p) < k
        <5>1. ~ (k <= Through(p))
          <6>1. nr[q] < k
            BY <1>3, <1>8
          <6> QED
            BY <1>1, <2>9, <3>2, <3>5, <6>1 DEF WaitInv
        <5>2. Through(p) \in Int
          BY <1>8 DEF Through
        <5> QED
          BY <5>1, <5>2
      <4>2. UnderWay(q, p)' = S \cup {k}
        BY <2>6, <2>7, <3>1, <3>3, <3>5, <4>1
      <4>3. \A j \in S : j < k
        <5>1. \A j \in S : j \in Int /\ j <= nr[q]
          BY <2>1, <2>6, <3>1
        <5>2. nr[q] \in Int
          BY <1>8
        <5> HIDE DEF S
        <5> QED
          BY <1>3, <5>1, <5>2
      <4>4. data'[<<q, p>>] = Queue(f, S) \o <<f[k]>>
        BY <1>13, <2>2, <2>5, <3>2, <3>5
      <4> HIDE DEF S, f
      <4>5. Queue(f, S \cup {k}) = Queue(f, S) \o <<f[k]>>
        <5>1. k \in Int
          OBVIOUS
        <5> QED
          BY <2>1, <4>3, <5>1, QueueAppend
      <4> QED
        BY <1>6, <4>2, <4>4, <4>5 DEF f
    <3> QED
      BY <3>4, <3>5
  <2> QED
    BY <2>3, <2>8, <2>9
<1>16. DataInv'
  <2>1. DOMAIN y' = Proc /\ DOMAIN data' = Proc \X Proc
    BY <1>1, <1>4, <1>12 DEF DataInv
  <2> QED
    BY <1>5, <1>14, <1>15, <2>1 DEF DataInv
<1> QED
  BY <1>9, <1>10, <1>11, <1>16 DEF ProductInv

\* What a process receives for a product is what was sent for it.
LEMMA FinishProductKeeps ==
  ASSUME IInv, PackageInv, ProductInv, NEW p \in Proc, FinishProduct(p)
  PROVE  ProductInv'
<1> DEFINE L == Len(Jobs)
<1>1. /\ TypeInv /\ NrInv /\ DataInv /\ WaitInv /\ ProductTrue
  BY DEF IInv, ProductInv
<1>2. /\ pc \in [Proc -> Labels] /\ round \in [Proc -> Int] /\ DOMAIN nr = Proc
      /\ DOMAIN y = Proc
      /\ L \in Nat /\ \A q \in Proc : nr[q] \in 0 .. L /\ nr[q] \in Int
  BY <1>1, ProgramAssumption DEF TypeInv, NrInv, DataInv
<1>3. /\ pc[p] = "product" /\ pc' = [pc EXCEPT ![p] = "pkg"]
      /\ UNCHANGED <<program, round, recvs, sends, nr>>
  BY DEF FinishProduct, Goto, package
<1>4. PICK k \in 1 .. L : k = nr[p]
  <2>1. nr[p] \in 0 .. L /\ nr[p] > 0
    BY <1>1, <1>2, <1>3 DEF NrInv
  <2> QED
    BY <1>2, <2>1
<1>5. \A q \in Proc : pc'[q] = IF q = p THEN "pkg" ELSE pc[q]
  BY <1>2, <1>3
<1>6. \A q \in Proc : A(q)' = A(q)
  BY <1>3 DEF A
<1>7. Through(p) = k - 1 /\ Through(p)' = k
  BY <1>3, <1>4, <1>5 DEF Through
<1>8. \A q \in Proc : q # p => Through(q)' = Through(q)
  BY <1>3, <1>5 DEF Through
<1>9. /\ IsMatrix(A(p)) /\ recvs[p] = StandardRecvs(A(p), p)
      /\ sends[p] = StandardSends(A(p), p)
  BY <1>3, PackageOf
<1> DEFINE from == Senders(p, Jobs[k])
           received == [i \in DOMAIN from |-> Head(data[<<from[i], p>>])]
<1>10. /\ \A i \in DOMAIN from : data[<<from[i], p>>] # <<>>
       /\ data' = [c \in Proc \X Proc |->
                     IF c[2] = p /\ \E i \in DOMAIN from : from[i] = c[1]
                     THEN Tail(data[c]) ELSE data[c]]
       /\ y' = [y EXCEPT ![p] = IF Jobs[k] = 1 THEN Product(p, received)
                                ELSE ProductT(p, received)]
  BY <1>4 DEF FinishProduct
<1>11. /\ DOMAIN from = DOMAIN (IF Jobs[k] = 1 THEN recvs[p] ELSE sends[p])
       /\ \A i \in DOMAIN from :
            /\ from[i] = (IF Jobs[k] = 1 THEN recvs[p] ELSE sends[p])[i].proc
            /\ from[i] \in Proc /\ SendsFor(A(p), from[i], p, Jobs[k])
       /\ \A q \in Proc : SendsFor(A(p), q, p, Jobs[k]) => \E i \in DOMAIN from : from[i] = q
  BY <1>9, JobOf, SendersRight
<1> HIDE DEF from
<1>12. \A q, r \in Proc : StartedIn(q, round[r])' = StartedIn(q, round[r])
  BY <1>3 DEF StartedIn
<1>13. \A q, r \in Proc : r # p => UnderWay(q, r)' = UnderWay(q, r)
  BY <1>3, <1>6, <1>8, <1>12 DEF UnderWay
<1>14. ASSUME NEW q \in Proc
       PROVE  /\ UnderWay(q, p) = {j \in 1 .. L : /\ k - 1 < j /\ j <= StartedIn(q, round[p])
                                                  /\ SendsFor(A(p), q, p, Jobs[j])}
              /\ UnderWay(q, p)' = UnderWay(q, p) \ {k}
  <2>1. UnderWay(q, p) = {j \in 1 .. L : /\ k - 1 < j /\ j <= StartedIn(q, round[p])
                                         /\ SendsFor(A(p), q, p, Jobs[j])}
    BY <1>7 DEF UnderWay
  <2>2. UnderWay(q, p)' = {j \in 1 .. L : /\ k < j /\ j <= StartedIn(q, round[p])
                                          /\ SendsFor(A(p), q, p, Jobs[j])}
    BY <1>3, <1>6, <1>7, <1>12 DEF UnderWay
  <2>3. \A j \in 1 .. L : k < j <=> k - 1 < j /\ j # k
    BY <1>2
  <2> QED
    BY <2>1, <2>2, <2>3
<1>15. \A q \in Proc : StartedIn(q, round[p]) \in Int
  BY <1>2 DEF StartedIn
<1>16. ASSUME NEW q \in Proc, SendsFor(A(p), q, p, Jobs[k])
       PROVE  /\ k \in UnderWay(q, p) /\ k <= StartedIn(q, round[p])
              /\ Head(data[<<q, p>>]) = Vectors(A(p), q, p)[k]
              /\ Tail(data[<<q, p>>]) = Queue(Vectors(A(p), q, p), UnderWay(q, p) \ {k})
  <2> DEFINE S == UnderWay(q, p)
             f == Vectors(A(p), q, p)
  <2>1. data[<<q, p>>] = Queue(f, S)
    BY <1>1 DEF DataInv
  <2>2. S \in SUBSET Int /\ IsFiniteSet(S)
    BY UnderWayIn
  <2>3. data[<<q, p>>] # <<>>
    BY <1>10, <1>11, <1>16
  <2>4. S # {}
    <3> HIDE DEF S, f
    <3> QED
      BY <2>1, <2>2, <2>3, QueueEmpty
  <2>5. S = {j \in 1 .. L : /\ k - 1 < j /\ j <= StartedIn(q, round[p])
                            /\ SendsFor(A(p), q, p, Jobs[j])}
    BY <1>14
  <2> HIDE DEF S, f
  <2>6. PICK j \in 1 .. L : k - 1 < j /\ j <= StartedIn(q, round[p])
    BY <2>4, <2>5
  <2>7. k <= StartedIn(q, round[p]) /\ k - 1 < k
    <3>1. StartedIn(q, round[p]) \in Int
      BY <1>15
    <3> QED
      BY <1>2, <2>6, <3>1
  <2>8. k \in S
    BY <1>16, <2>5, <2>7
  <2>9. \A s \in S : k <= s
    <3>1. \A s \in S : k - 1 < s /\ s \in Int
      BY <2>2, <2>5
    <3> QED
      BY <3>1
  <2>10. Head(Queue(f, S)) = f[k] /\ Tail(Queue(f, S)) = Queue(f, S \ {k})
    BY <2>2, <2>8, <2>9, QueueTake
  <2> QED
    BY <2>1, <2>7, <2>8, <2>10 DEF S, f
<1>17. ASSUME NEW q \in Proc, NEW r \in Proc
       PROVE  data'[<<q, r>>] = Queue(Vectors(A(r)', q, r), UnderWay(q, r)')
  <2>1. data[<<q, r>>] = Queue(Vectors(A(r), q, r), UnderWay(q, r))
    BY <1>1 DEF DataInv
  <2>2. data'[<<q, r>>] = IF r = p /\ \E i \in DOMAIN from : from[i] = q
                          THEN Tail(data[<<q, r>>]) ELSE data[<<q, r>>]
    BY <1>10
  <2>3. CASE r # p
    BY <1>6, <1>13, <2>1, <2>2, <2>3
  <2>4. CASE r = p /\ SendsFor(A(p), q, p, Jobs[k])
    <3>1. data'[<<q, p>>] = Tail(data[<<q, p>>])
      BY <1>11, <2>2, <2>4
    <3>2. Tail(data[<<q, p>>]) = Queue(Vectors(A(p), q, p), UnderWay(q, p) \ {k})
      BY <1>16, <2>4
    <3>3. UnderWay(q, p)' = UnderWay(q, p) \ {k}
      BY <1>14
    <3> QED
      BY <1>6, <2>4, <3>1, <3>2, <3>3
  <2>5. CASE r = p /\ ~ SendsFor(A(p), q, p, Jobs[k])
    <3>1. data'[<<q, p>>] = data[<<q, p>>]
      BY <1>11, <2>2, <2>5
    <3>2. k \notin UnderWay(q, p)
      BY <1>14, <2>5
    <3>3. UnderWay(q, p)' = UnderWay(q, p)
      <4>1. UnderWay(q, p)' = UnderWay(q, p) \ {k}
        BY <1>14
      <4>2. UnderWay(q, p) \ {k} = UnderWay(q, p)
        BY <3>2
      <4> QED
        BY <4>1, <4>2
    <3> QED
      BY <1>6, <2>1, <2>5, <3>1, <3>3
  <2> QED
    BY <2>3, <2>4, <2>5
<1>18. NrInv'
  <2> SUFFICES ASSUME NEW q \in Proc
               PROVE  /\ nr'[q] \in 0 .. Len(Jobs)
                      /\ pc'[q] \notin {"pkg", "product"} => nr'[q] = 0
                      /\ pc'[q] = "product" => nr'[q] > 0
    BY DEF NrInv
  <2>1. nr'[q] = nr[q]
    BY <1>3
  <2> QED
    BY <1>1, <1>5, <2>1 DEF NrInv
<1>19. DataInv'
  <2>1. DOMAIN nr' = Proc /\ DOMAIN y' = Proc /\ DOMAIN data' = Proc \X Proc
    BY <1>2, <1>3, <1>10
  <2> QED
    BY <1>17, <2>1 DEF DataInv
<1>20. WaitInv'
  <2> SUFFICES ASSUME NEW r \in Proc, NEW s \in Proc, NEW j \in 1 .. L, nr'[s] < j,
                      \/ round'[s] < round'[r]
                      \/ round'[s] = round'[r] /\ j <= Through(r)'
               PROVE  ~ SendsFor(A(s)', s, r, Jobs[j])
    BY DEF WaitInv
  <2>1. nr[s] < j /\ (round[s] < round[r] \/ (round[s] = round[r] /\ j <= Through(r)'))
    BY <1>3
  <2>2. CASE round[s] < round[r] \/ (round[s] = round[r] /\ j <= Through(r))
    BY <1>1, <1>6, <2>1, <2>2 DEF WaitInv
  <2>3. CASE round[s] = round[r] /\ ~ (j <= Through(r))
    <3>1. r = p /\ j <= Through(p)'
      BY <1>2, <1>8, <2>1, <2>3
    <3>2. j = k
      BY <1>2, <1>7, <2>3, <3>1
    <3>3. StartedIn(s, round[p]) = nr[s]
      <4>1. round[s] = round[p] /\ round[s] \in Int
        BY <1>2, <2>3, <3>1
      <4> QED
        BY <4>1 DEF StartedIn
    <3>4. A(s) = A(p)
      BY <2>3, <3>1 DEF A
    <3>5. nr[s] \in Int /\ ~ (k <= nr[s])
      BY <1>2, <2>1, <3>2
    <3> QED
      BY <1>6, <1>16, <3>1, <3>2, <3>3, <3>4, <3>5
  <2> QED
    BY <2>1, <2>2, <2>3
<1>21. \A i \in DOMAIN from : received[i] = Vectors(A(p), from[i], p)[k]
  BY <1>11, <1>16
<1> HIDE DEF received
<1>22. y'[p] = [i \in Own(A(p), p) |->
                  TermsOf(k, {j \in Row : (IF Jobs[k] = 1 THEN <<i, j>> ELSE <<j, i>>)
                                             \in A(p).nonzeros})]
  <2>1. nr[p] \in 1 .. Len(Jobs) /\ nr[p] = k
    BY <1>4
  <2>2. y'[p] = IF Jobs[k] = 1 THEN Product(p, received) ELSE ProductT(p, received)
    BY <1>2, <1>10
  <2>3. CASE Jobs[k] = 1
    <3>1. \A i \in DOMAIN recvs[p] : received[i] = Vectors(A(p), recvs[p][i].proc, p)[nr[p]]
      BY <1>11, <1>21, <2>1, <2>3
    <3>2. Product(p, received) =
            [i \in Own(A(p), p) |-> TermsOf(nr[p], {j \in Row : <<i, j>> \in A(p).nonzeros})]
      BY <1>9, <2>1, <2>3, <3>1, ProductRight
    <3> QED
      BY <2>1, <2>2, <2>3, <3>2
  <2>4. CASE Jobs[k] = 2
    <3>1. \A i \in DOMAIN sends[p] : received[i] = Vectors(A(p), sends[p][i].proc, p)[nr[p]]
      BY <1>11, <1>21, <2>1, <2>4
    <3>2. ProductT(p, received) =
            [i \in Own(A(p), p) |-> TermsOf(nr[p], {j \in Row : <<j, i>> \in A(p).nonzeros})]
      BY <1>9, <2>1, <2>4, <3>1, ProductTRight
    <3> QED
      BY <2>1, <2>2, <2>4, <3>2
  <2> QED
    BY <2>3, <2>4, JobOf
<1>23. ProductTrue'
  <2> SUFFICES ASSUME NEW q \in Proc, pc'[q] = "pkg", nr'[q] > 0
               PROVE  y'[q] = [i \in Own(A(q)', q) |->
                         TermsOf(nr'[q], {j \in Row :
                           (IF Jobs[nr'[q]] = 1 THEN <<i, j>> ELSE <<j, i>>) \in A(q)'.nonzeros})]
    BY DEF ProductTrue
  <2>1. nr'[q] = nr[q] /\ A(q)' = A(q)
    BY <1>3, <1>6
  <2>2. CASE q = p
    BY <1>4, <1>22, <2>1, <2>2
  <2>3. CASE q # p
    <3>1. y'[q] = y[q] /\ pc[q] = "pkg"
      BY <1>2, <1>5, <1>10, <2>3
    <3> QED
      BY <1>1, <2>1, <3>1 DEF ProductTrue
  <2> QED
    BY <2>2, <2>3
<1> QED
  BY <1>18, <1>19, <1>20, <1>23 DEF ProductInv

\* A process that is through with its matrix has received all that was sent for it, and
\* nobody has sent it anything for the next.
LEMMA DestroyEndsProducts ==
  ASSUME IInv, IInv', ProductInv, NEW p \in Proc, Destroy(p)
  PROVE  ProductInv'
<1> DEFINE L == Len(Jobs)
<1>1. /\ TypeInv /\ ExchangeInv /\ NrInv /\ DataInv /\ WaitInv /\ ProductTrue
      /\ TypeInv' /\ ExchangeInv'
  BY DEF IInv, ProductInv
<1>2. /\ pc \in [Proc -> Labels] /\ round \in [Proc -> Int] /\ DOMAIN nr = Proc
      /\ DOMAIN y = Proc
      /\ L \in Nat /\ \A q \in Proc : nr[q] \in 0 .. L /\ nr[q] \in Int
  BY <1>1, ProgramAssumption DEF TypeInv, NrInv, DataInv
<1>3. /\ pc[p] = "pkg" /\ nr[p] = L /\ pc' = [pc EXCEPT ![p] = "start"]
      /\ nr' = [nr EXCEPT ![p] = 0] /\ y' = [y EXCEPT ![p] = <<>>]
      /\ round' = [round EXCEPT ![p] = @ + 1]
      /\ UNCHANGED <<program, data, entered, left>>
  BY DEF Destroy, Goto, exchange
<1>4. PICK next \in Int : next = round[p] + 1
  BY <1>2
<1>5. /\ \A q \in Proc : pc'[q] = IF q = p THEN "start" ELSE pc[q]
      /\ \A q \in Proc : nr'[q] = IF q = p THEN 0 ELSE nr[q]
      /\ \A q \in Proc : round'[q] = IF q = p THEN next ELSE round[q]
      /\ \A q \in Proc : q # p => y'[q] = y[q]
      /\ DOMAIN nr' = Proc /\ DOMAIN y' = Proc
  BY <1>2, <1>3, <1>4
<1>6. \A q \in Proc : q # p => A(q)' = A(q)
  BY <1>3, <1>5 DEF A
<1>7. Through(p) = L /\ Through(p)' = 0
  BY <1>3, <1>5 DEF Through
<1>8. \A q \in Proc : q # p => Through(q)' = Through(q)
  BY <1>5 DEF Through
\* The others are at this matrix, or at the next without their packages.
<1>9. \A q \in Proc : q # p => round[q] = round[p] \/ (round[q] = next /\ nr[q] = 0)
  <2> SUFFICES ASSUME NEW q \in Proc, q # p
               PROVE  round[q] = round[p] \/ (round[q] = next /\ nr[q] = 0)
    OBVIOUS
  <2>1. round[q] \in Int /\ round[p] \in Int
    BY <1>2
  <2>2. round[p] < round[q] \/ round[p] = round[q]
    BY <1>1, <1>3, NobodyBehind
  <2>3. /\ left[q] = 2 * (round[q] - 1) + LeftAt(pc[q])
        /\ entered[p] = 2 * (round[p] - 1) + EnteredAt(pc[p])
        /\ left[q] <= entered[p]
    BY <1>1 DEF ExchangeInv
  <2>4. PICK i \in 0 .. 2 : i = LeftAt(pc[q])
    BY DEF LeftAt
  <2>5. EnteredAt(pc[p]) = 2
    BY <1>3 DEF EnteredAt
  <2>6. 2 * (round[q] - 1) + i <= 2 * (round[p] - 1) + 2
    BY <2>3, <2>4, <2>5
  <2>7. round[q] = round[p] \/ (round[q] = round[p] + 1 /\ i = 0)
    BY <2>1, <2>2, <2>6
  <2>8. i = 0 => pc[q] \notin {"pkg", "product"}
    BY <2>4 DEF LeftAt
  <2>9. pc[q] \notin {"pkg", "product"} => nr[q] = 0
    BY <1>1 DEF NrInv
  <2> QED
    BY <1>4, <2>7, <2>8, <2>9
<1>10. round[p] < next /\ round[p] # next /\ round[p] \in Int
  BY <1>2, <1>4
<1>11. \A q \in Proc : StartedIn(q, round[p])' = 0
  <2> SUFFICES ASSUME NEW q \in Proc PROVE StartedIn(q, round[p])' = 0
    OBVIOUS
  <2>1. round'[p] = next
    BY <1>5
  <2>2. CASE q = p
    BY <1>4, <1>5, <2>1, <2>2 DEF StartedIn
  <2>3. CASE q # p
    <3>1. round'[q] = round[q] /\ nr'[q] = nr[q]
      BY <1>5, <2>3
    <3>2. round[q] = round[p] \/ (round[q] = next /\ nr[q] = 0)
      BY <1>9, <2>3
    <3>3. ~ (round[q] > next) /\ (round[q] = next => nr[q] = 0)
      BY <1>10, <3>2
    <3> QED
      BY <2>1, <3>1, <3>3 DEF StartedIn
  <2> QED
    BY <2>2, <2>3
<1>12. \A q, r \in Proc : r # p => StartedIn(q, round[r])' = StartedIn(q, round[r])
  <2> SUFFICES ASSUME NEW q \in Proc, NEW r \in Proc, r # p
               PROVE  StartedIn(q, round[r])' = StartedIn(q, round[r])
    OBVIOUS
  <2>1. round'[r] = round[r]
    BY <1>5
  <2>2. CASE q # p
    BY <1>5, <2>1, <2>2 DEF StartedIn
  <2>3. CASE q = p
    <3>1. round[r] = round[p] \/ round[r] = next
      BY <1>9
    <3>2. CASE round[r] = round[p]
      <4>1. StartedIn(p, round[r]) = L
        BY <1>3, <1>10, <3>2 DEF StartedIn
      <4>2. round'[p] > round'[r]
        BY <1>5, <1>10, <2>1, <3>2
      <4>3. StartedIn(p, round[r])' = L
        BY <4>2 DEF StartedIn
      <4> QED
        BY <2>3, <4>1, <4>3
    <3>3. CASE round[r] = next
      <4>1. StartedIn(p, round[r]) = 0
        BY <1>10, <3>3 DEF StartedIn
      <4>2. round'[p] = round'[r] /\ nr'[p] = 0 /\ ~ (round'[p] > round'[r])
        BY <1>5, <2>1, <3>3
      <4>3. StartedIn(p, round[r])' = 0
        BY <4>2 DEF StartedIn
      <4> QED
        BY <2>3, <4>1, <4>3
    <3> QED
      BY <3>1, <3>2, <3>3
  <2> QED
    BY <2>2, <2>3
<1>13. ASSUME NEW q \in Proc, NEW r \in Proc
       PROVE  data'[<<q, r>>] = Queue(Vectors(A(r)', q, r), UnderWay(q, r)')
  <2>1. data'[<<q, r>>] = Queue(Vectors(A(r), q, r), UnderWay(q, r))
    BY <1>1, <1>3 DEF DataInv
  <2>2. CASE r # p
    <3>1. UnderWay(q, r)' = UnderWay(q, r)
      BY <1>6, <1>8, <1>12, <2>2 DEF UnderWay
    <3> QED
      BY <1>6, <2>1, <2>2, <3>1
  <2>3. CASE r = p
    <3>1. UnderWay(q, p) = {}
      <4>1. \A j \in 1 .. L : ~ (Through(p) < j)
        BY <1>2, <1>7
      <4> QED
        BY <4>1 DEF UnderWay
    <3>2. UnderWay(q, p)' = {}
      <4>1. \A j \in 1 .. L : ~ (j <= StartedIn(q, round[p])')
        BY <1>2, <1>11
      <4> QED
        BY <4>1 DEF UnderWay
    <3>3. \A f : Queue(f, {}) = <<>>
      BY QueueEmpty, FS_EmptySet
    <3> QED
      BY <2>1, <2>3, <3>1, <3>2, <3>3
  <2> QED
    BY <2>2, <2>3
<1>14. NrInv'
  <2> SUFFICES ASSUME NEW q \in Proc
               PROVE  /\ nr'[q] \in 0 .. Len(Jobs)
                      /\ pc'[q] \notin {"pkg", "product"} => nr'[q] = 0
                      /\ pc'[q] = "product" => nr'[q] > 0
    BY DEF NrInv
  <2>1. CASE q = p
    BY <1>2, <1>5, <2>1
  <2>2. CASE q # p
    BY <1>1, <1>5, <2>2 DEF NrInv
  <2> QED
    BY <2>1, <2>2
<1>15. DataInv'
  <2>1. DOMAIN data' = Proc \X Proc
    BY <1>1, <1>3 DEF DataInv
  <2> QED
    BY <1>5, <1>13, <2>1 DEF DataInv
<1>16. WaitInv'
  <2> SUFFICES ASSUME NEW r \in Proc, NEW s \in Proc, NEW j \in 1 .. L, nr'[s] < j,
                      \/ round'[s] < round'[r]
                      \/ round'[s] = round'[r] /\ j <= Through(r)'
               PROVE  ~ SendsFor(A(s)', s, r, Jobs[j])
    BY DEF WaitInv
  <2>0. j \in Int /\ ~ (j <= 0)
    OBVIOUS
  <2>1. CASE s # p /\ r # p
    BY <1>1, <1>5, <1>6, <1>8, <2>1 DEF WaitInv
  <2>2. CASE s # p /\ r = p
    <3>1. round'[s] = round[s] /\ round'[r] = next /\ nr[s] < j /\ A(s)' = A(s)
      BY <1>5, <1>6, <2>2
    <3>2. round[s] < next
      BY <1>7, <2>0, <2>2, <3>1
    <3>3. round[s] = round[p]
      BY <1>4, <1>9, <2>2, <3>2
    <3>4. j <= Through(p)
      BY <1>2, <1>7
    <3> QED
      BY <1>1, <2>2, <3>1, <3>3, <3>4 DEF WaitInv
  <2>3. CASE s = p /\ r # p
    <3>1. round'[s] = next /\ round'[r] = round[r] /\ Through(r)' = Through(r)
      BY <1>5, <1>8, <2>3
    <3>2. round[r] = round[p] \/ (round[r] = next /\ nr[r] = 0)
      BY <1>9, <2>3
    <3>3. round[r] = next /\ nr[r] = 0 /\ j <= Through(r)
      BY <1>10, <3>1, <3>2
    <3>4. Through(r) <= 0
      BY <3>3 DEF Through
    <3>5. Through(r) \in Int
      BY <1>2 DEF Through
    <3> QED
      BY <2>0, <3>3, <3>4, <3>5
  <2>4. CASE s = p /\ r = p
    BY <1>5, <1>7, <2>0, <2>4
  <2> QED
    BY <2>1, <2>2, <2>3, <2>4
<1>17. ProductTrue'
  <2> SUFFICES ASSUME NEW q \in Proc, pc'[q] = "pkg", nr'[q] > 0
               PROVE  y'[q] = [i \in Own(A(q)', q) |->
                         TermsOf(nr'[q], {j \in Row :
                           (IF Jobs[nr'[q]] = 1 THEN <<i, j>> ELSE <<j, i>>) \in A(q)'.nonzeros})]
    BY DEF ProductTrue
  <2>1. q # p
    BY <1>5
  <2>2. nr'[q] = nr[q] /\ A(q)' = A(q) /\ y'[q] = y[q] /\ pc[q] = "pkg"
    BY <1>5, <1>6, <2>1
  <2> QED
    BY <1>1, <2>2 DEF ProductTrue
<1> QED
  BY <1>14, <1>15, <1>16, <1>17 DEF ProductInv

-----------------------------------------------------------------------------
(* The theorem of the products. *)

\* No product is started at the start.
LEMMA NoProduct ==
  ASSUME Init
  PROVE  ProductInv
<1>1. /\ pc = [p \in Proc |-> "start"] /\ round = [p \in Proc |-> 1]
      /\ nr = [p \in Proc |-> 0] /\ data = [c \in Proc \X Proc |-> <<>>]
      /\ y = [p \in Proc |-> <<>>]
  BY DEF Init
<1>2. Len(Jobs) \in Nat
  BY ProgramAssumption
<1>3. \A p \in Proc : Through(p) = 0
  BY <1>1 DEF Through
<1>4. \A p, q \in Proc : StartedIn(q, round[p]) = 0
  BY <1>1 DEF StartedIn
<1>5. \A j \in 1 .. Len(Jobs) : ~ (j <= 0)
  BY <1>2
<1>6. NrInv
  BY <1>1, <1>2 DEF NrInv
<1>7. DataInv
  <2>1. \A p, q \in Proc : UnderWay(q, p) = {}
    BY <1>4, <1>5 DEF UnderWay
  <2>2. \A f : Queue(f, {}) = <<>>
    BY QueueEmpty, FS_EmptySet
  <2>3. \A p, q \in Proc : data[<<q, p>>] = <<>>
    BY <1>1
  <2>4. DOMAIN nr = Proc /\ DOMAIN y = Proc /\ DOMAIN data = Proc \X Proc
    BY <1>1
  <2> QED
    BY <2>1, <2>2, <2>3, <2>4 DEF DataInv
<1>8. WaitInv
  <2>1. \A p, q \in Proc : round[q] = round[p] /\ ~ (round[q] < round[p])
    BY <1>1
  <2> QED
    BY <1>3, <1>5, <2>1 DEF WaitInv
<1>9. ProductTrue
  BY <1>1 DEF ProductTrue
<1> QED
  BY <1>6, <1>7, <1>8, <1>9 DEF ProductInv

\* The steps of the other actions.
LEMMA RestKeepsProducts ==
  ASSUME IInv, ProductInv,
         \/ \E p \in Proc :
              \/ Locate(p) \/ LocateRows(p) \/ Located(p)
              \/ ContactAssumedOwners(p) \/ ContactRecvProcs(p)
              \/ DetermineRecvProcs(p) \/ DetermineSendProcs(p)
         \/ \E c \in open : FillRanges(c) \/ FillSendProc(c)
         \/ UNCHANGED vars
  PROVE  ProductInv'
<1>1. TypeInv /\ pc \in [Proc -> Labels]
  BY DEF IInv, TypeInv
<1> DEFINE Rest == /\ UNCHANGED <<program, round, nr, data, y>>
                   /\ \/ UNCHANGED pc
                      \/ \E p \in Proc : \E label \in Labels :
                           /\ pc[p] \notin {"pkg", "product"} /\ label # "product"
                           /\ pc' = [pc EXCEPT ![p] = label]
<1>2. Rest
  <2> USE DEF Labels
  <2>1. ASSUME NEW p \in Proc, Locate(p) PROVE Rest
    BY <2>1 DEF Locate, Goto
  <2>2. ASSUME NEW p \in Proc, LocateRows(p) PROVE Rest
    BY <2>2 DEF LocateRows
  <2>3. ASSUME NEW p \in Proc, Located(p) PROVE Rest
    BY <2>3 DEF Located, Goto
  <2>4. ASSUME NEW p \in Proc, ContactAssumedOwners(p) PROVE Rest
    BY <2>4 DEF ContactAssumedOwners, CallExchange, Goto, located
  <2>5. ASSUME NEW p \in Proc, ContactRecvProcs(p) PROVE Rest
    BY <2>5 DEF ContactRecvProcs, CallExchange, Goto, located
  <2>6. ASSUME NEW p \in Proc, DetermineRecvProcs(p) PROVE Rest
    BY <2>6 DEF DetermineRecvProcs, Goto
  <2>7. ASSUME NEW p \in Proc, DetermineSendProcs(p) PROVE Rest
    BY <2>7 DEF DetermineSendProcs, Goto
  <2>8. ASSUME NEW c \in open, FillRanges(c) PROVE Rest
    BY <2>8 DEF FillRanges
  <2>9. ASSUME NEW c \in open, FillSendProc(c) PROVE Rest
    BY <2>9 DEF FillSendProc
  <2>10. ASSUME UNCHANGED vars PROVE Rest
    BY <2>10 DEF vars
  <2> HIDE DEF Rest
  <2> QED
    BY <2>1, <2>2, <2>3, <2>4, <2>5, <2>6, <2>7, <2>8, <2>9, <2>10
<1>3. \A p \in Proc : pc'[p] = pc[p] \/ (/\ pc[p] \notin {"pkg", "product"}
                                         /\ pc'[p] # "product")
  BY <1>1, <1>2
<1> QED
  BY <1>1, <1>2, <1>3, OthersKeep

\* Every step keeps the invariant of the products.
LEMMA NextKeepsProducts ==
  ASSUME IInv, PackageInv, ProductInv, [Next]_vars
  PROVE  ProductInv'
<1>1. IInv'
  BY NextKeeps
<1>2. ASSUME NEW p \in Proc, Step(p) PROVE ProductInv'
  <2>1. CASE \/ Locate(p) \/ LocateRows(p) \/ Located(p)
             \/ ContactAssumedOwners(p) \/ ContactRecvProcs(p)
             \/ DetermineRecvProcs(p) \/ DetermineSendProcs(p)
    BY <2>1, RestKeepsProducts
  <2>2. CASE \E c \in open : FillRanges(c) \/ FillSendProc(c)
    BY <2>2, RestKeepsProducts
  <2>3. CASE StartProduct(p)
    BY <2>3, StartProductKeeps
  <2>4. CASE FinishProduct(p)
    BY <2>4, FinishProductKeeps
  <2>5. CASE Destroy(p)
    BY <1>1, <2>5, DestroyEndsProducts
  <2> QED
    BY <1>2, <2>1, <2>2, <2>3, <2>4, <2>5 DEF Step
<1>3. CASE UNCHANGED vars
  BY <1>3, RestKeepsProducts
<1> QED
  BY <1>2, <1>3 DEF Next, Finished

\* Of any number of processes and rows, any matrices and products: each is that of the
\* whole matrix, or of its transpose, with every term there once, and of no other
\* product's vector, although processes run ahead of each other and the vectors of
\* different products and matrices have the same tag (hypre_ParCSRMatrixMatvec,
\* hypre_ParCSRMatrixMatvecT).
THEOREM ProductsAreTrue == Spec => []ProductTrue
<1> DEFINE I == IInv /\ PackageInv /\ ProductInv
<1>1. I => ProductTrue
  BY DEF ProductInv
<1>2. Init => I
  BY AtStart, NoPackage, NoProduct
<1>3. I /\ [Next]_vars => I'
  BY NextKeeps, NextKeepsPackages, NextKeepsProducts
<1> QED
  BY <1>1, <1>2, <1>3, PTL DEF Spec
=============================================================================
