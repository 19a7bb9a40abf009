-------------------------- MODULE DataExchangeProof --------------------------
(***************************************************************************)
(* For any number of processes, calls and contacts: hypre_DataExchangeList *)
(* implements Exchange, answers every contact rightly and leaves no        *)
(* message behind.                                                         *)
(***************************************************************************)
EXTENDS DataExchange, FiniteSetTheorems, TLAPS

-----------------------------------------------------------------------------
(* Least and greatest numbers. *)

LEMMA Least ==
  ASSUME NEW S \in SUBSET Nat, S # {}
  PROVE  \E x \in S : \A y \in S : x <= y
<1> DEFINE Less == {ss \in Nat \X Nat : ss[1] < ss[2]}
<1>1. IsWellFoundedOn(Less, Nat)
  BY NatLessThanWellFounded, Zenon DEF OpToRel
<1>2. PICK x \in S : \A y \in S : ~ (<<y, x>> \in Less)
  BY <1>1, WFMin, Zenon
<1>3. ASSUME NEW y \in S PROVE x <= y
  <2>1. ~ (<<y, x>> \in Less)
    BY <1>2
  <2>2. ~ (y < x)
    BY <2>1
  <2> QED
    BY <2>2
<1> QED
  BY <1>3

LEMMA Greatest ==
  ASSUME NEW n \in Nat, NEW S \in SUBSET (0 .. n), S # {}
  PROVE  \E x \in S : \A y \in S : y <= x
<1> DEFINE T == {n - y : y \in S}
<1>1. T \in SUBSET Nat /\ T # {}
  <2>1. \A y \in S : n - y \in Nat
    OBVIOUS
  <2>2. \E y \in S : TRUE
    OBVIOUS
  <2> QED
    BY <2>1, <2>2
<1>2. PICK z \in T : \A y \in T : z <= y
  BY <1>1, Least, Zenon
<1>3. PICK x \in S : z = n - x
  OBVIOUS
<1>4. ASSUME NEW y \in S PROVE y <= x
  <2>1. z <= n - y
    BY <1>2
  <2> QED
    BY <2>1, <1>3
<1> QED
  BY <1>4

-----------------------------------------------------------------------------
(* The rank of a number in a set. *)

LEMMA RankIn ==
  ASSUME NEW n \in Nat, NEW S \in SUBSET (1 .. n)
  PROVE  /\ IsFiniteSet(S) /\ Cardinality(S) \in Nat
         /\ \A i \in S : Rank(i, S) \in 1 .. Cardinality(S)
         /\ \A i, j \in S : i < j => Rank(i, S) < Rank(j, S)
<1>1. IsFiniteSet(1 .. n)
  BY FS_Interval
<1>2. IsFiniteSet(S) /\ Cardinality(S) \in Nat
  BY <1>1, FS_Subset, FS_CardinalityType
<1> DEFINE upTo(i) == {k \in S : k <= i}
<1>3. ASSUME NEW i \in S
      PROVE  /\ IsFiniteSet(upTo(i)) /\ Cardinality(upTo(i)) \in 1 .. Cardinality(S)
             /\ Rank(i, S) = Cardinality(upTo(i))
  <2>1. upTo(i) \in SUBSET S
    OBVIOUS
  <2>2. /\ IsFiniteSet(upTo(i)) /\ Cardinality(upTo(i)) \in Nat
        /\ Cardinality(upTo(i)) <= Cardinality(S)
    BY <2>1, <1>2, FS_Subset, FS_CardinalityType
  <2>3. i \in upTo(i)
    OBVIOUS
  <2>4. Cardinality(upTo(i)) # 0
    BY <2>2, <2>3, FS_EmptySet
  <2> QED
    BY <1>2, <2>2, <2>4 DEF Rank
<1>4. ASSUME NEW i \in S, NEW j \in S, i < j PROVE Rank(i, S) < Rank(j, S)
  <2>1. upTo(i) \in SUBSET upTo(j)
    <3>1. \A k \in S : k \in Nat
      OBVIOUS
    <3>2. \A k \in upTo(i) : k \in upTo(j)
      BY <3>1, <1>4
    <3> QED
      BY <3>2
  <2>2. j \in upTo(j) /\ j \notin upTo(i)
    BY <1>4
  <2> HIDE DEF upTo
  <2>3. Cardinality(upTo(i)) <= Cardinality(upTo(j))
        /\ (Cardinality(upTo(j)) = Cardinality(upTo(i)) => upTo(j) = upTo(i))
    BY <2>1, <1>3, FS_Subset
  <2> QED
    BY <2>2, <2>3, <1>3
<1> QED
  BY <1>2, <1>3, <1>4

\* Every rank is that of one number.
LEMMA RankOnto ==
  ASSUME NEW n \in Nat, NEW S \in SUBSET (1 .. n), NEW k \in 1 .. Cardinality(S)
  PROVE  \E i \in S : Rank(i, S) = k /\ \A j \in S : Rank(j, S) = k => j = i
<1> DEFINE f == [i \in S |-> Rank(i, S)]
           T == 1 .. Cardinality(S)
<1>1. /\ IsFiniteSet(S) /\ Cardinality(S) \in Nat
      /\ \A i \in S : Rank(i, S) \in T
      /\ \A i, j \in S : i < j => Rank(i, S) < Rank(j, S)
  BY RankIn
<1>2. \A i, j \in S : Rank(i, S) = Rank(j, S) => i = j
  BY <1>1
<1>3. IsFiniteSet(T) /\ Cardinality(T) = Cardinality(S)
  BY <1>1, FS_Interval
<1>4. f \in Injection(S, T)
  BY <1>1, <1>2 DEF Injection, IsInjective
<1>5. f \in Surjection(S, T)
  BY <1>3, <1>4, FS_Injection
<1>6. PICK i \in S : f[i] = k
  BY <1>5 DEF Surjection
<1> QED
  BY <1>2, <1>6

\* A number larger than all is ranked last, and the ranks of the others stay.
LEMMA RankAdd ==
  ASSUME NEW n \in Nat, NEW S \in SUBSET (1 .. n), NEW j \in 1 .. n, \A i \in S : i < j
  PROVE  /\ Cardinality(S \cup {j}) = Cardinality(S) + 1
         /\ Rank(j, S \cup {j}) = Cardinality(S) + 1
         /\ \A i \in S : Rank(i, S \cup {j}) = Rank(i, S)
<1>1. IsFiniteSet(S)
  BY RankIn
<1>2. j \notin S
  OBVIOUS
<1>3. Cardinality(S \cup {j}) = Cardinality(S) + 1
  BY <1>1, <1>2, FS_AddElement
<1>4. {k \in S \cup {j} : k <= j} = S \cup {j}
  <2>1. \A k \in S \cup {j} : k <= j
    OBVIOUS
  <2> QED
    BY <2>1
<1>5. ASSUME NEW i \in S PROVE {k \in S \cup {j} : k <= i} = {k \in S : k <= i}
  OBVIOUS
<1> QED
  BY <1>3, <1>4, <1>5 DEF Rank

-----------------------------------------------------------------------------
(* The tree. *)

LEMMA Remainder ==
  ASSUME NEW a \in Nat, NEW b \in Nat \ {0}
  PROVE  a % b = 0 <=> \E k \in Nat : a = b * k
<1>1. /\ a \div b \in Nat
      /\ a = b * (a \div b) + (a % b) /\ a % b \in 0 .. b - 1
  OBVIOUS
<1>2. ASSUME NEW k \in Nat, a = b * k PROVE a % b = 0
  <2> DEFINE q == a \div b
             r == a % b
  <2>1. q \in Nat /\ r \in 0 .. b - 1 /\ b * k = b * q + r
    BY <1>1, <1>2
  <2> HIDE DEF q, r
  <2>2. k = q
    <3>1. CASE k > q
      <4>1. b * k >= b * (q + 1)
        BY <3>1, <2>1
      <4>2. b * (q + 1) = b * q + b
        BY <2>1
      <4> QED
        BY <4>1, <4>2, <2>1
    <3>2. CASE k < q
      <4>1. b * (k + 1) <= b * q
        BY <3>2, <2>1
      <4>2. b * (k + 1) = b * k + b
        BY <2>1
      <4> QED
        BY <4>1, <4>2, <2>1
    <3> QED
      BY <3>1, <3>2, <2>1
  <2>3. r = 0
    BY <2>1, <2>2
  <2> QED
    BY <2>3 DEF r
<1>3. ASSUME a % b = 0 PROVE \E k \in Nat : a = b * k
  <2>1. a = b * (a \div b) /\ a \div b \in Nat
    BY <1>1, <1>3
  <2> QED
    BY <2>1, Zenon
<1> QED
  BY <1>2, <1>3

LEMMA RemainderTwice ==
  ASSUME NEW a \in Nat, NEW b \in Nat \ {0}
  PROVE  a % (2 * b) = 0 <=> \E k \in Nat : a = (2 * b) * k
<1> DEFINE c == 2 * b
<1>1. c \in Nat \ {0}
  OBVIOUS
<1> HIDE DEF c
<1>2. a % c = 0 <=> \E k \in Nat : a = c * k
  BY <1>1, Remainder
<1> QED
  BY <1>2, Zenon DEF c

LEMMA EvenOdd ==
  ASSUME NEW k \in Nat
  PROVE  \E m \in Nat : k = 2 * m \/ k = 2 * m + 1
<1>1. k \div 2 \in Nat /\ (k = 2 * (k \div 2) \/ k = 2 * (k \div 2) + 1)
  OBVIOUS
<1> QED
  BY <1>1, Zenon

LEMMA PowersType == PowersOfTwo \in SUBSET (Nat \ {0}) /\ \A i \in PowersOfTwo : i <= NumProcs
BY ExchangeAssumption DEF PowersOfTwo

\* PowersOfTwo is the least of the sets that hold 1 and every number doubled.
LEMMA PowersLeast ==
  /\ Doubled(PowersOfTwo)
  /\ \A S \in SUBSET PowersOfTwo : Doubled(S) => S = PowersOfTwo
<1>1. Doubled(PowersOfTwo)
  <2>1. 1 \in PowersOfTwo
    BY ExchangeAssumption DEF PowersOfTwo, Doubled
  <2>2. ASSUME NEW i \in PowersOfTwo, 2 * i <= NumProcs PROVE 2 * i \in PowersOfTwo
    <3>1. i \in Nat \ {0} /\ 2 * i \in 1 .. NumProcs
      BY <2>2, PowersType, ExchangeAssumption
    <3> QED
      BY <3>1, <2>2 DEF PowersOfTwo, Doubled
  <2> QED
    BY <2>1, <2>2 DEF Doubled
<1>2. ASSUME NEW S \in SUBSET PowersOfTwo, Doubled(S) PROVE S = PowersOfTwo
  <2>1. S \in SUBSET (1 .. NumProcs)
    BY DEF PowersOfTwo
  <2> QED
    BY <2>1, <1>2 DEF PowersOfTwo
<1> QED
  BY <1>1, <1>2

LEMMA PowerIsDouble ==
  ASSUME NEW i \in PowersOfTwo
  PROVE  i = 1 \/ \E j \in PowersOfTwo : i = 2 * j
<1> DEFINE S == {k \in PowersOfTwo : k = 1 \/ \E j \in PowersOfTwo : k = 2 * j}
<1>1. Doubled(S)
  BY PowersLeast DEF Doubled
<1>2. S = PowersOfTwo
  BY <1>1, PowersLeast
<1> QED
  BY <1>2

\* Of two powers of two, twice the smaller divides the larger.
LEMMA PowersDivide ==
  ASSUME NEW i \in PowersOfTwo, NEW j \in PowersOfTwo, i < j
  PROVE  \E k \in Nat : j = (2 * i) * k
<1> DEFINE Good(k) == \A l \in PowersOfTwo : l < k => \E m \in Nat : k = (2 * l) * m
           S == {k \in PowersOfTwo : Good(k)}
<1>1. \A l \in PowersOfTwo : l \in Nat \ {0}
  BY PowersType
<1>2. 1 \in S
  <2>1. 1 \in PowersOfTwo
    BY PowersLeast DEF Doubled
  <2>2. Good(1)
    BY <1>1
  <2> QED
    BY <2>1, <2>2
<1>3. ASSUME NEW k \in S, 2 * k <= NumProcs PROVE 2 * k \in S
  <2>1. 2 * k \in PowersOfTwo /\ k \in Nat \ {0}
    BY <1>1, <1>3, PowersLeast DEF Doubled
  <2>2. ASSUME NEW l \in PowersOfTwo, l < 2 * k
        PROVE  \E m \in Nat : 2 * k = (2 * l) * m
    <3>1. CASE l = 1
      <4>1. 2 * k = (2 * l) * k
        BY <3>1, <2>1
      <4> QED
        BY <4>1, <2>1
    <3>2. ASSUME NEW l2 \in PowersOfTwo, l = 2 * l2
          PROVE  \E m \in Nat : 2 * k = (2 * l) * m
      <4>1. l2 \in Nat \ {0} /\ l2 < k
        BY <1>1, <2>1, <2>2, <3>2
      <4>2. PICK m \in Nat : k = (2 * l2) * m
        BY <4>1
      <4>3. 2 * k = (2 * l) * m
        BY <4>1, <4>2, <3>2
      <4> QED
        BY <4>3
    <3> QED
      BY <3>1, <3>2, PowerIsDouble
  <2> QED
    BY <2>1, <2>2
<1>4. Doubled(S)
  BY <1>2, <1>3 DEF Doubled
<1> HIDE DEF Good
<1>5. S = PowersOfTwo
  BY <1>4, PowersLeast
<1>6. Good(j)
  BY <1>5
<1> QED
  BY <1>6 DEF Good

\* The lowest bit of a number.
IsLow(i, q) == i \in PowersOfTwo /\ q % i = 0 /\ q % (2 * i) # 0

LEMMA LowBit ==
  ASSUME NEW q \in 1 .. NumProcs - 1
  PROVE  /\ \E i : IsLow(i, q)
         /\ \A i, j : IsLow(i, q) /\ IsLow(j, q) => i = j
<1>1. NumProcs \in Nat /\ q \in Nat \ {0} /\ \A i \in PowersOfTwo : i \in Nat \ {0} /\ i <= NumProcs
  BY PowersType, ExchangeAssumption
<1>2. \E i : IsLow(i, q)
  <2> DEFINE S == {i \in PowersOfTwo : q % i = 0}
  <2>1. S \in SUBSET (0 .. NumProcs) /\ 1 \in S
    <3>1. 1 \in PowersOfTwo
      BY PowersLeast DEF Doubled
    <3>2. q % 1 = 0
      <4>1. q = 1 * q
        BY <1>1
      <4> QED
        BY <4>1, <1>1, Remainder
    <3> QED
      BY <3>1, <3>2, <1>1
  <2>2. PICK i \in S : \A j \in S : j <= i
    BY <2>1, <1>1, Greatest
  <2>3. ASSUME q % (2 * i) = 0 PROVE FALSE
    <3>1. PICK k \in Nat : q = (2 * i) * k
      BY <2>3, <1>1, RemainderTwice
    <3>2. k >= 1
      BY <3>1, <1>1
    <3>3. (2 * i) * k >= 2 * i
      BY <3>2, <1>1
    <3>4. 2 * i <= NumProcs
      BY <3>1, <3>3, <1>1
    <3>5. 2 * i \in S
      BY <3>4, <2>3, PowersLeast DEF Doubled
    <3> QED
      BY <3>5, <2>2, <1>1
  <2> QED
    BY <2>3 DEF IsLow
<1>3. ASSUME NEW i, NEW j, IsLow(i, q), IsLow(j, q), i < j PROVE FALSE
  <2>1. i \in Nat \ {0} /\ j \in Nat \ {0} /\ i \in PowersOfTwo /\ j \in PowersOfTwo
    BY <1>1, <1>3 DEF IsLow
  <2>2. PICK k \in Nat : j = (2 * i) * k
    BY <1>3, <2>1, PowersDivide
  <2>3. PICK m \in Nat : q = j * m
    BY <1>1, <1>3, <2>1, Remainder DEF IsLow
  <2>4. q = (2 * i) * (k * m) /\ k * m \in Nat
    BY <2>1, <2>2, <2>3
  <2>5. q % (2 * i) = 0
    BY <2>1, <2>4, <1>1, RemainderTwice, Zenon
  <2> QED
    BY <2>5, <1>3 DEF IsLow
<1>4. ASSUME NEW i, NEW j, IsLow(i, q), IsLow(j, q) PROVE i = j
  <2>1. i \in Nat /\ j \in Nat
    BY <1>1, <1>4 DEF IsLow
  <2>2. ~ (i < j) /\ ~ (j < i)
    BY <1>3, <1>4
  <2> QED
    BY <2>1, <2>2
<1> QED
  BY <1>2, <1>4

LEMMA ParentIs ==
  ASSUME NEW q \in 1 .. NumProcs - 1, NEW i, IsLow(i, q)
  PROVE  Parent(q) = q - i
<1>1. q # Root
  BY DEF Root
<1> DEFINE j == CHOOSE j \in PowersOfTwo : q % j = 0 /\ q % (2 * j) # 0
<1>2. j \in PowersOfTwo /\ q % j = 0 /\ q % (2 * j) # 0
  BY DEF IsLow
<1>3. Parent(q) = q - j
  BY <1>1 DEF Parent
<1> HIDE DEF j
<1>4. j = i
  BY <1>2, LowBit DEF IsLow
<1> QED
  BY <1>3, <1>4

\* The parent of a process comes before it.
LEMMA ParentBefore ==
  ASSUME NEW q \in Proc, q # Root
  PROVE  Parent(q) \in Proc /\ Parent(q) < q /\ Parent(q) \in Nat /\ q \in Nat
<1>1. q \in 1 .. NumProcs - 1 /\ NumProcs \in Nat
  BY ExchangeAssumption DEF Proc, Root
<1>2. PICK i : IsLow(i, q)
  BY <1>1, LowBit
<1>3. i \in Nat \ {0}
  BY <1>2, PowersType DEF IsLow
<1>. q \in Nat
  BY <1>1
<1>4. PICK k \in Nat : q = i * k
  BY <1>2, <1>3, Remainder, Zenon DEF IsLow
<1>5. k >= 1
  BY <1>1, <1>3, <1>4
<1>6. i * k >= i
  BY <1>3, <1>5
<1>7. Parent(q) = q - i
  BY <1>1, <1>2, ParentIs
<1> QED
  BY <1>1, <1>3, <1>4, <1>6, <1>7 DEF Proc

\* The children of a process are those whose parent it is.
LEMMA ChildrenParent ==
  ASSUME NEW p \in Proc, NEW q
  PROVE  q \in Children(p) <=> q \in Proc /\ q # Root /\ Parent(q) = p
<1>1. p \in Nat /\ NumProcs \in Nat /\ p < NumProcs
  BY ExchangeAssumption DEF Proc
<1>2. ASSUME q \in Children(p) PROVE q \in Proc /\ q # Root /\ Parent(q) = p
  <2>1. PICK i \in PowersOfTwo : p % (2 * i) = 0 /\ p + i < NumProcs /\ q = p + i
    BY <1>2 DEF Children
  <2>2. i \in Nat \ {0}
    BY PowersType
  <2>3. q \in 1 .. NumProcs - 1
    BY <1>1, <2>1, <2>2
  <2>4. PICK k \in Nat : p = (2 * i) * k
    BY <1>1, <2>1, <2>2, RemainderTwice
  <2>5. q = i * (2 * k + 1)
    BY <2>1, <2>2, <2>4
  <2>6. q % i = 0
    BY <2>2, <2>3, <2>5, Remainder
  <2>7. ASSUME q % (2 * i) = 0 PROVE FALSE
    <3>. q \in Nat
      BY <2>3
    <3>1. PICK m \in Nat : q = (2 * i) * m
      BY <2>7, <2>2, RemainderTwice, Zenon
    <3>2. i * (2 * k + 1) = i * (2 * m)
      BY <3>1, <2>2, <2>5
    <3>3. 2 * k + 1 = 2 * m
      BY <3>2, <2>2
    <3> QED
      BY <3>3
  <2>8. Parent(q) = q - i
    BY <2>1, <2>3, <2>6, <2>7, ParentIs DEF IsLow
  <2> QED
    BY <1>1, <2>1, <2>2, <2>3, <2>8 DEF Proc, Root
<1>3. ASSUME q \in Proc, q # Root, Parent(q) = p PROVE q \in Children(p)
  <2>1. q \in 1 .. NumProcs - 1
    BY <1>1, <1>3 DEF Proc, Root
  <2>2. PICK i : IsLow(i, q)
    BY <2>1, LowBit
  <2>3. i \in Nat \ {0} /\ p = q - i
    BY <1>3, <2>1, <2>2, PowersType, ParentIs DEF IsLow
  <2>4. PICK k \in Nat : q = i * k
    BY <2>1, <2>2, <2>3, Remainder DEF IsLow
  <2>5. PICK m \in Nat : k = 2 * m \/ k = 2 * m + 1
    BY EvenOdd
  <2>6. k # 2 * m
    <3>1. SUFFICES ASSUME k = 2 * m PROVE FALSE
      OBVIOUS
    <3>2. q = (2 * i) * m
      BY <3>1, <2>3, <2>4
    <3>3. q \in Nat
      BY <2>1
    <3>4. q % (2 * i) = 0
      BY <3>2, <3>3, <2>3, RemainderTwice, Zenon
    <3> QED
      BY <3>4, <2>2 DEF IsLow
  <2>7. p = (2 * i) * m
    <3>1. i * (2 * m + 1) = (2 * i) * m + i
      BY <2>3
    <3> QED
      BY <3>1, <2>3, <2>4, <2>5, <2>6, <1>1
  <2>8. p % (2 * i) = 0
    BY <2>3, <2>7, <1>1, RemainderTwice, Zenon
  <2>9. q = p + i /\ p + i < NumProcs
    BY <2>1, <2>3, <1>1
  <2> QED
    BY <2>2, <2>8, <2>9 DEF Children, IsLow
<1> QED
  BY <1>2, <1>3

-----------------------------------------------------------------------------
(* The invariant. *)

RnumSet == {Rnums[k] : k \in Call}

ContactMsg == [in : Call, nr : 1 .. MaxContacts]
AnswerMsg  == [to : ContactMsg, by : Proc, in : Call, rest : ContactMsg \cup {Missing}]
Carried(kind) ==
  IF kind = "response" THEN AnswerMsg ELSE IF kind = "term" THEN {"term"} ELSE ContactMsg

TypeInv ==
  /\ pc \in [Proc -> {"out", "loop", "parent", "post", "crash"}]
  /\ call \in [Proc -> 0 .. Len(Rnums)]
  /\ contact_proc_list \in [Proc -> Seq(Proc)]
  /\ \A p \in Proc : Len(contact_proc_list[p]) <= MaxContacts
  /\ responses_complete \in [Proc -> BOOLEAN] /\ children_complete \in [Proc -> BOOLEAN]
  /\ responses \in [Proc -> Seq(AnswerMsg)]
  /\ chan = [c \in Channel |-> chan[c]]
  /\ \A a, b \in Proc, kind \in Kinds, r \in RnumSet :
       chan[<<a, b, <<kind, r>>>>] \in Seq(Carried(kind))

\* The flags of a process by its place.
PhaseInv ==
  \A p \in Proc :
    /\ pc[p] # "out" => call[p] > 0
    /\ pc[p] \in {"parent", "post", "crash"} \/ (pc[p] = "out" /\ call[p] > 0) =>
         responses_complete[p] /\ children_complete[p]
    /\ children_complete[p] /\ NumProcs > 1 => responses_complete[p]
    /\ NumProcs = 1 /\ pc[p] = "loop" => children_complete[p]

\* In the exchange n the sweep has gone up to p, and down to p.
Up(p, n)   == n < call[p] \/ (n = call[p] /\ responses_complete[p] /\ children_complete[p])
Down(p, n) == n < call[p] \/ (n = call[p] /\ pc[p] \in {"post", "out", "crash"})

SweepInv ==
  \A q \in Proc \ {Root}, n \in Call :
    /\ Up(Parent(q), n) => Up(q, n)
    /\ Down(q, n) => Down(Parent(q), n)

\* Between a process and its parent the sweep has passed the one and not the other.
Passing(a, b, n) ==
  \/ a # Root /\ b = Parent(a) /\ Up(a, n) /\ ~ Up(b, n)
  \/ b # Root /\ a = Parent(b) /\ Down(a, n) /\ ~ Down(b, n)

TermInv ==
  \A a, b \in Proc, r \in RnumSet :
    chan[<<a, b, <<"term", r>>>>] =
      IF \E n \in Call : Rnums[n] = r /\ Passing(a, b, n) THEN <<"term">> ELSE <<>>

Asking(q) == pc[q] = "loop" /\ ~ responses_complete[q]
Asked(q, i) == [in |-> call[q], nr |-> i]
AnswerTo(q, i, p, rest) == [to |-> Asked(q, i), by |-> p, in |-> call[q], rest |-> rest]
Answers(q, i, p) == {AnswerTo(q, i, p, Asked(q, i)), AnswerTo(q, i, p, Missing)}

\* Of the contacts of q to p the first are answered, and the others are under way.
ContactsRight(q, p, r) ==
  LET S == IndicesTo(q, p)
      R == chan[<<p, q, <<"response", r>>>>]
      C == chan[<<q, p, <<"contact", r>>>>]
  IN  IF Asking(q) /\ r = Rnums[call[q]]
      THEN /\ Len(R) + Len(C) = Cardinality(S)
           /\ \A i \in S : IF Rank(i, S) <= Len(R)
                           THEN R[Rank(i, S)] \in Answers(q, i, p)
                           ELSE C[Rank(i, S) - Len(R)] = Asked(q, i)
      ELSE R = <<>> /\ C = <<>>

\* The contacts of q that p answered with a first part.
Long(q, p) ==
  LET S == IndicesTo(q, p)
      R == chan[<<p, q, <<"response", Rnums[call[q]]>>>>]
  IN  {i \in S : IF responses_complete[q] THEN responses[q][i].rest = Missing
                 ELSE Rank(i, S) <= Len(R) /\ R[Rank(i, S)].rest = Missing}

PostRight(q, p, r) ==
  LET P == chan[<<p, q, <<"post", r>>>>] IN
  IF pc[q] \in {"loop", "parent", "post"} /\ r = Rnums[call[q]]
  THEN /\ Len(P) = Cardinality(Long(q, p))
       /\ \A i \in Long(q, p) : P[Rank(i, Long(q, p))] = Asked(q, i)
  ELSE P = <<>>

ResponsesRight(q) ==
  responses_complete[q] =>
    /\ Len(responses[q]) = Len(contact_proc_list[q])
    /\ \A i \in Indices(q) : responses[q][i] \in Answers(q, i, contact_proc_list[q][i])
    /\ pc[q] = "out" => \A i \in Indices(q) : responses[q][i].rest = Asked(q, i)

ContentInv ==
  /\ \A q, p \in Proc, r \in RnumSet : ContactsRight(q, p, r) /\ PostRight(q, p, r)
  /\ \A q \in Proc : ResponsesRight(q)

ExchangeInv == TypeInv /\ PhaseInv /\ SweepInv /\ TermInv /\ ContentInv

-----------------------------------------------------------------------------
(* What the actions do to the channels. *)

LEMMA ChannelType ==
  /\ \A a, b \in Proc, kind \in Kinds, r \in RnumSet : <<a, b, <<kind, r>>>> \in Channel
  /\ \A c \in Channel : \E a, b \in Proc, kind \in Kinds, r \in RnumSet :
       c = <<a, b, <<kind, r>>>>
BY DEF Channel, Tags, RnumSet

LEMMA ProcType == Root \in Proc /\ \A p \in Proc : p \in Nat /\ p < NumProcs
BY ExchangeAssumption DEF Root, Proc

LEMMA CallType ==
  /\ Len(Rnums) \in Nat
  /\ \A n \in Call : n \in Nat /\ n > 0 /\ n <= Len(Rnums) /\ Rnums[n] \in RnumSet
  /\ \A n \in Nat : n > 0 /\ n <= Len(Rnums) => n \in Call
BY ExchangeAssumption DEF Call, RnumSet

\* The contacts are sent in the order of their places.
LEMMA ContactsToRight ==
  ASSUME NEW p \in Proc, NEW q \in Proc, NEW list \in Seq(Proc), Len(list) <= MaxContacts,
         call[p] + 1 \in Call
  PROVE  LET mine == {i \in DOMAIN list : list[i] = q}
             C == ContactsTo(p, q, list)
         IN  /\ mine \in SUBSET (1 .. Len(list))
             /\ C \in Seq(ContactMsg) /\ Len(C) = Cardinality(mine)
             /\ \A i \in mine : C[Rank(i, mine)] = [in |-> call[p] + 1, nr |-> i]
<1> DEFINE mine == {i \in DOMAIN list : list[i] = q}
           C == ContactsTo(p, q, list)
           msg(k) == [in |-> call[p] + 1, nr |-> CHOOSE i \in mine : Rank(i, mine) = k]
           m == Cardinality(mine)
<1>1. /\ Len(list) \in Nat /\ mine \in SUBSET (1 .. Len(list))
      /\ \A i \in 1 .. Len(list) : i \in 1 .. MaxContacts
  BY ExchangeAssumption
<1>2. C = [k \in 1 .. m |-> msg(k)]
  BY DEF ContactsTo
<1> HIDE DEF mine, C
<1>3. m \in Nat /\ \A i \in mine : Rank(i, mine) \in 1 .. m
  BY <1>1, RankIn
<1>4. ASSUME NEW k \in 1 .. m PROVE msg(k) \in ContactMsg
  <2>1. \E i \in mine : Rank(i, mine) = k
    BY <1>1, RankOnto
  <2>2. (CHOOSE i \in mine : Rank(i, mine) = k) \in mine
    BY <2>1
  <2> QED
    BY <2>2, <1>1 DEF ContactMsg
<1>5. ASSUME NEW i \in mine PROVE C[Rank(i, mine)] = [in |-> call[p] + 1, nr |-> i]
  <2> DEFINE k == Rank(i, mine)
             j == CHOOSE j \in mine : Rank(j, mine) = k
  <2>1. k \in 1 .. m
    BY <1>3
  <2>2. j \in mine /\ Rank(j, mine) = k
    BY <1>5
  <2>3. j = i
    BY <2>1, <2>2, <1>1, RankOnto
  <2>4. C[k] = [in |-> call[p] + 1, nr |-> j]
    BY <2>1, <1>2
  <2> QED
    BY <2>3, <2>4
<1> HIDE DEF msg, m
<1>6. C \in Seq(ContactMsg) /\ Len(C) = m
  BY <1>2, <1>3, <1>4
<1> QED
  BY <1>1, <1>5, <1>6 DEF mine, C, m

\* What a process does with its list of contacts.
Begun(p, list) ==
  /\ Len(list) <= MaxContacts
  /\ pc[p] = "out" /\ call[p] + 1 \in Call
  /\ call' = [call EXCEPT ![p] = @ + 1]
  /\ contact_proc_list' = [contact_proc_list EXCEPT ![p] = list]
  /\ responses_complete' = [responses_complete EXCEPT ![p] = (list = <<>>)]
  /\ children_complete' = [children_complete EXCEPT ![p] = (NumProcs = 1)]
  /\ responses' = [responses EXCEPT ![p] = <<>>]
  /\ \/ ~ Uninitialized(list) /\ pc' = [pc EXCEPT ![p] = "loop"]
     \/ Uninitialized(list) /\ pc' = [pc EXCEPT ![p] = "post"]
     \/ Uninitialized(list) /\ pc' = [pc EXCEPT ![p] = "crash"]
  /\ chan' = [c \in Channel |-> chan'[c]]
  /\ \A a, b \in Proc, kind \in Kinds, r \in RnumSet :
       chan'[<<a, b, <<kind, r>>>>] =
         IF a = p /\ kind = "contact" /\ r = Rnums[call[p] + 1]
         THEN chan[<<a, b, <<kind, r>>>>] \o ContactsTo(p, b, list)
         ELSE chan[<<a, b, <<kind, r>>>>]

LEMMA BeginChanges ==
  ASSUME TypeInv, NEW p \in Proc, Begin(p)
  PROVE  \E list \in Seq(Proc) : Begun(p, list)
<1>1. /\ pc[p] = "out" /\ call[p] < Len(Rnums)
      /\ call' = [call EXCEPT ![p] = @ + 1]
      /\ children_complete' = [children_complete EXCEPT ![p] = (NumProcs = 1)]
      /\ responses' = [responses EXCEPT ![p] = <<>>]
  BY DEF Begin
<1>2. PICK list \in ContactLists[p] :
        /\ contact_proc_list' = [contact_proc_list EXCEPT ![p] = list]
        /\ responses_complete' = [responses_complete EXCEPT ![p] = (list = <<>>)]
        /\ chan' = [c \in Channel |->
                      IF c[1] = p /\ c[3] = ContactTag(p)'
                      THEN chan[c] \o ContactsTo(p, c[2], list)
                      ELSE chan[c]]
        /\ IF Uninitialized(list)
           THEN Goto(p, "post") \/ Goto(p, "crash")
           ELSE Goto(p, "loop")
  BY DEF Begin
<1>3. list \in Seq(Proc) /\ Len(list) <= MaxContacts
  BY ExchangeAssumption DEF Proc
<1>4. call[p] + 1 \in Call /\ call'[p] = call[p] + 1
  <2>1. call \in [Proc -> 0 .. Len(Rnums)]
    BY DEF TypeInv
  <2>2. call[p] \in Nat /\ call[p] < Len(Rnums)
    BY <1>1, <2>1, CallType
  <2> QED
    BY <1>1, <2>1, <2>2, CallType
<1>5. ContactTag(p)' = <<"contact", Rnums[call[p] + 1]>>
  BY <1>4 DEF ContactTag
<1>6. ASSUME NEW a \in Proc, NEW b \in Proc, NEW kind \in Kinds, NEW r \in RnumSet
      PROVE  chan'[<<a, b, <<kind, r>>>>] =
               IF a = p /\ kind = "contact" /\ r = Rnums[call[p] + 1]
               THEN chan[<<a, b, <<kind, r>>>>] \o ContactsTo(p, b, list)
               ELSE chan[<<a, b, <<kind, r>>>>]
  <2> DEFINE c == <<a, b, <<kind, r>>>>
  <2>1. c \in Channel
    BY ChannelType
  <2>2. c[1] = a /\ c[2] = b /\ c[3] = <<kind, r>>
    OBVIOUS
  <2> HIDE DEF c
  <2>3. chan'[c] = IF c[1] = p /\ c[3] = <<"contact", Rnums[call[p] + 1]>>
                   THEN chan[c] \o ContactsTo(p, c[2], list) ELSE chan[c]
    BY <2>1, <1>2, <1>5
  <2>4. c[3] = <<"contact", Rnums[call[p] + 1]>>
        <=> kind = "contact" /\ r = Rnums[call[p] + 1]
    BY <2>2
  <2>5. chan'[c] = IF a = p /\ kind = "contact" /\ r = Rnums[call[p] + 1]
                   THEN chan[c] \o ContactsTo(p, b, list) ELSE chan[c]
    BY <2>2, <2>3, <2>4
  <2> QED
    BY <2>5 DEF c
<1>7. chan' = [c \in Channel |-> chan'[c]]
  BY <1>2
<1>8. \/ ~ Uninitialized(list) /\ pc' = [pc EXCEPT ![p] = "loop"]
      \/ Uninitialized(list) /\ pc' = [pc EXCEPT ![p] = "post"]
      \/ Uninitialized(list) /\ pc' = [pc EXCEPT ![p] = "crash"]
  BY <1>2 DEF Goto
<1>9. Begun(p, list)
  BY <1>1, <1>2, <1>3, <1>4, <1>6, <1>7, <1>8, Zenon DEF Begun
<1> QED
  BY <1>3, <1>9

\* The answer of p to a contact of q.
Filled(p, q, contact, rest) ==
  LET r == Rnums[call[p]]
      answer == [to |-> contact, by |-> p, in |-> call[p], rest |-> rest]
  IN  /\ pc[p] = "loop" /\ call[p] \in Call
      /\ chan[<<q, p, <<"contact", r>>>>] # <<>>
      /\ contact = Head(chan[<<q, p, <<"contact", r>>>>])
      /\ rest = contact \/ rest = Missing
      /\ chan' = [c \in Channel |-> chan'[c]]
      /\ chan'[<<q, p, <<"contact", r>>>>] = Tail(chan[<<q, p, <<"contact", r>>>>])
      /\ chan'[<<p, q, <<"response", r>>>>] =
           Append(chan[<<p, q, <<"response", r>>>>], answer)
      /\ chan'[<<p, q, <<"post", r>>>>] =
           IF rest = Missing THEN Append(chan[<<p, q, <<"post", r>>>>], contact)
           ELSE chan[<<p, q, <<"post", r>>>>]
      /\ \A a, b \in Proc, kind \in Kinds, s \in RnumSet :
           \/ chan'[<<a, b, <<kind, s>>>>] = chan[<<a, b, <<kind, s>>>>]
           \/ s = r /\ kind = "contact" /\ a = q /\ b = p
           \/ s = r /\ kind \in {"response", "post"} /\ a = p /\ b = q
      /\ UNCHANGED <<pc, call, contact_proc_list, flags, responses>>

LEMMA FillResponseChanges ==
  ASSUME TypeInv, PhaseInv, NEW p \in Proc, FillResponse(p)
  PROVE  \E q \in Proc, contact \in ContactMsg, rest \in ContactMsg \cup {Missing} :
           Filled(p, q, contact, rest)
<1> DEFINE r == Rnums[call[p]]
<1>1. pc[p] = "loop" /\ call[p] \in Call /\ r \in RnumSet
  <2>1. pc[p] = "loop" /\ call[p] \in 0 .. Len(Rnums)
    BY DEF FillResponse, TypeInv
  <2>2. call[p] > 0
    BY <2>1 DEF PhaseInv
  <2> QED
    BY <2>1, <2>2, CallType
<1>2. /\ ContactTag(p) = <<"contact", r>> /\ Tag("post", p) = <<"post", r>>
      /\ Tag("response", p) = <<"response", r>>
  BY DEF ContactTag, Tag
<1>3. PICK q \in Proc, too_long \in BOOLEAN :
        /\ chan[<<q, p, ContactTag(p)>>] # <<>>
        /\ too_long => p \in Verbose
        /\ LET contact == Head(chan[<<q, p, ContactTag(p)>>])
               answer == [to |-> contact, by |-> p, in |-> call[p],
                          rest |-> IF too_long THEN Missing ELSE contact]
               rest == Take(q, p, ContactTag(p), chan)
               part == IF too_long THEN Send(p, q, Tag("post", p), contact, rest) ELSE rest
           IN  chan' = Send(p, q, Tag("response", p), answer, part)
  BY Zenon DEF FillResponse
<1> DEFINE contact == Head(chan[<<q, p, <<"contact", r>>>>])
           rest == IF too_long THEN Missing ELSE contact
           answer == [to |-> contact, by |-> p, in |-> call[p], rest |-> rest]
           taken == Take(q, p, <<"contact", r>>, chan)
           sent == IF too_long THEN Send(p, q, <<"post", r>>, contact, taken) ELSE taken
<1>4. /\ chan[<<q, p, <<"contact", r>>>>] # <<>>
      /\ chan' = Send(p, q, <<"response", r>>, answer, sent)
  BY <1>2, <1>3
<1>5. {"contact", "response", "post"} \subseteq Kinds
  BY DEF Kinds
<1>6. contact \in ContactMsg
  <2>1. chan[<<q, p, <<"contact", r>>>>] \in Seq(Carried("contact"))
    BY <1>1, <1>5 DEF TypeInv
  <2> QED
    BY <2>1, <1>4 DEF Carried
<1>7. contact # Missing
  <2>1. contact.in \in Call
    BY <1>6 DEF ContactMsg
  <2>2. contact.in > 0
    BY <2>1, CallType
  <2>3. Missing.in = 0
    BY DEF Missing
  <2> QED
    BY <2>2, <2>3
<1>8. /\ <<q, p, <<"contact", r>>>> \in Channel
      /\ <<p, q, <<"post", r>>>> \in Channel
      /\ <<p, q, <<"response", r>>>> \in Channel
  BY <1>1, <1>5, ChannelType
<1>9. rest \in ContactMsg \cup {Missing} /\ (rest = contact \/ rest = Missing)
      /\ (rest = Missing <=> too_long)
  BY <1>6, <1>7
<1> HIDE DEF contact, answer, rest, r
<1>10. chan = [c \in Channel |-> chan[c]]
  BY DEF TypeInv
<1>11. /\ taken = [c \in Channel |-> taken[c]]
       /\ \A c \in Channel :
            taken[c] = IF c = <<q, p, <<"contact", r>>>> THEN Tail(chan[c]) ELSE chan[c]
  BY <1>10 DEF Take
<1> HIDE DEF taken
<1>12. /\ sent = [c \in Channel |-> sent[c]]
       /\ \A c \in Channel :
            sent[c] = IF c = <<p, q, <<"post", r>>>> /\ too_long
                      THEN Append(taken[c], contact) ELSE taken[c]
  BY <1>11 DEF Send
<1> HIDE DEF sent
<1>13. /\ chan' = [c \in Channel |-> chan'[c]]
       /\ \A c \in Channel :
            chan'[c] = IF c = <<p, q, <<"response", r>>>>
                       THEN Append(sent[c], answer) ELSE sent[c]
  BY <1>4, <1>12 DEF Send
<1>14. /\ chan'[<<q, p, <<"contact", r>>>>] = Tail(chan[<<q, p, <<"contact", r>>>>])
       /\ chan'[<<p, q, <<"response", r>>>>] =
            Append(chan[<<p, q, <<"response", r>>>>], answer)
       /\ chan'[<<p, q, <<"post", r>>>>] =
            IF rest = Missing THEN Append(chan[<<p, q, <<"post", r>>>>], contact)
            ELSE chan[<<p, q, <<"post", r>>>>]
  BY <1>8, <1>9, <1>11, <1>12, <1>13
<1>15. ASSUME NEW a \in Proc, NEW b \in Proc, NEW kind \in Kinds, NEW s \in RnumSet
       PROVE  \/ chan'[<<a, b, <<kind, s>>>>] = chan[<<a, b, <<kind, s>>>>]
              \/ s = r /\ kind = "contact" /\ a = q /\ b = p
              \/ s = r /\ kind \in {"response", "post"} /\ a = p /\ b = q
  <2>1. <<a, b, <<kind, s>>>> \in Channel
    BY ChannelType
  <2> QED
    BY <2>1, <1>11, <1>12, <1>13
<1>16. UNCHANGED <<pc, call, contact_proc_list, flags, responses>>
  BY DEF FillResponse
<1>17. chan' = [c \in Channel |-> chan'[c]]
  BY <1>13
<1>18. Filled(p, q, contact, rest)
  BY <1>1, <1>4, <1>9, <1>14, <1>15, <1>16, <1>17, Zenon DEF Filled, contact, answer, r
<1> QED
  BY <1>6, <1>9, <1>18

\* How many of its requests ask a for a message, and what is left without those.
Wanted(p, a, among) == Cardinality({i \in among : contact_proc_list[p][i] = a})
Consumed(p, among, kind) ==
  /\ chan' = [c \in Channel |-> chan'[c]]
  /\ \A a, b \in Proc, k \in Kinds, r \in RnumSet :
       chan'[<<a, b, <<k, r>>>>] =
         IF b = p /\ k = kind /\ r = Rnums[call[p]]
         THEN SubSeq(chan[<<a, b, <<k, r>>>>], Wanted(p, a, among) + 1,
                     Len(chan[<<a, b, <<k, r>>>>]))
         ELSE chan[<<a, b, <<k, r>>>>]

LEMMA ReceivedIs ==
  ASSUME TypeInv, NEW p \in Proc, NEW among, NEW kind, call[p] \in Call,
         chan' = Received(p, among, kind)
  PROVE  Consumed(p, among, kind)
<1>1. chan' = [c \in Channel |->
         IF c[2] = p /\ c[3] = <<kind, Rnums[call[p]]>>
         THEN SubSeq(chan[c],
                     Wanted(p, c[1], among) + 1,
                     Len(chan[c]))
         ELSE chan[c]]
  BY DEF Received, Tag, Wanted
<1>2. ASSUME NEW a \in Proc, NEW b \in Proc, NEW k \in Kinds, NEW r \in RnumSet
      PROVE  chan'[<<a, b, <<k, r>>>>] =
                IF b = p /\ k = kind /\ r = Rnums[call[p]]
                THEN SubSeq(chan[<<a, b, <<k, r>>>>],
                            Wanted(p, a, among) + 1,
                            Len(chan[<<a, b, <<k, r>>>>]))
                ELSE chan[<<a, b, <<k, r>>>>]
  <2> DEFINE c == <<a, b, <<k, r>>>>
  <2>1. c \in Channel
    BY ChannelType
  <2>2. c[1] = a /\ c[2] = b /\ c[3] = <<k, r>>
    OBVIOUS
  <2> HIDE DEF c
  <2>3. chan'[c] = IF c[2] = p /\ c[3] = <<kind, Rnums[call[p]]>>
                   THEN SubSeq(chan[c],
                          Wanted(p, c[1], among) + 1,
                          Len(chan[c]))
                   ELSE chan[c]
    BY <2>1, <1>1
  <2>4. c[3] = <<kind, Rnums[call[p]]>> <=> k = kind /\ r = Rnums[call[p]]
    BY <2>2
  <2>5. chan'[c] = IF b = p /\ k = kind /\ r = Rnums[call[p]]
                   THEN SubSeq(chan[c],
                          Wanted(p, a, among) + 1,
                          Len(chan[c]))
                   ELSE chan[c]
    BY <2>2, <2>3, <2>4
  <2> QED
    BY <2>5 DEF c
<1>3. chan' = [c \in Channel |-> chan'[c]]
  BY <1>1
<1> QED
  BY <1>2, <1>3, Zenon DEF Consumed

\* Taking a message of the sweep from some, sending it to others.
LEMMA TermIs ==
  ASSUME TypeInv, NEW p \in Proc, NEW froms, NEW tos, call[p] \in Call,
         chan' = SendTerm(tos, p, TakeTerm(froms, p, chan))
  PROVE  /\ chan' = [c \in Channel |-> chan'[c]]
         /\ \A a, b \in Proc, k \in Kinds, r \in RnumSet :
              chan'[<<a, b, <<k, r>>>>] =
                LET rest == IF a \in froms /\ b = p /\ k = "term" /\ r = Rnums[call[p]]
                            THEN Tail(chan[<<a, b, <<k, r>>>>]) ELSE chan[<<a, b, <<k, r>>>>]
                IN  IF a = p /\ b \in tos /\ k = "term" /\ r = Rnums[call[p]]
                    THEN Append(rest, "term") ELSE rest
<1> DEFINE network == TakeTerm(froms, p, chan)
<1>1. network = [c \in Channel |->
        IF c[1] \in froms /\ c[2] = p /\ c[3] = <<"term", Rnums[call[p]]>>
        THEN Tail(chan[c]) ELSE chan[c]]
  BY DEF TakeTerm, Tag
<1> HIDE DEF network
<1>2. chan' = [c \in Channel |->
        IF c[1] = p /\ c[2] \in tos /\ c[3] = <<"term", Rnums[call[p]]>>
        THEN Append(network[c], "term") ELSE network[c]]
  BY DEF SendTerm, Tag, network
<1>3. ASSUME NEW a \in Proc, NEW b \in Proc, NEW k \in Kinds, NEW r \in RnumSet
      PROVE  network[<<a, b, <<k, r>>>>] =
               IF a \in froms /\ b = p /\ k = "term" /\ r = Rnums[call[p]]
               THEN Tail(chan[<<a, b, <<k, r>>>>]) ELSE chan[<<a, b, <<k, r>>>>]
  <2> DEFINE c == <<a, b, <<k, r>>>>
  <2>1. c \in Channel
    BY ChannelType
  <2>2. c[1] = a /\ c[2] = b /\ c[3] = <<k, r>>
    OBVIOUS
  <2> HIDE DEF c
  <2>3. c[3] = <<"term", Rnums[call[p]]>> <=> k = "term" /\ r = Rnums[call[p]]
    BY <2>2
  <2>4. network[c] = IF a \in froms /\ b = p /\ k = "term" /\ r = Rnums[call[p]]
                     THEN Tail(chan[c]) ELSE chan[c]
    BY <1>1, <2>1, <2>2, <2>3
  <2> QED
    BY <2>4 DEF c
<1>4. ASSUME NEW a \in Proc, NEW b \in Proc, NEW k \in Kinds, NEW r \in RnumSet
      PROVE  chan'[<<a, b, <<k, r>>>>] =
               IF a = p /\ b \in tos /\ k = "term" /\ r = Rnums[call[p]]
               THEN Append(network[<<a, b, <<k, r>>>>], "term") ELSE network[<<a, b, <<k, r>>>>]
  <2> DEFINE c == <<a, b, <<k, r>>>>
  <2>1. c \in Channel
    BY ChannelType
  <2>2. c[1] = a /\ c[2] = b /\ c[3] = <<k, r>>
    OBVIOUS
  <2> HIDE DEF c
  <2>3. c[3] = <<"term", Rnums[call[p]]>> <=> k = "term" /\ r = Rnums[call[p]]
    BY <2>2
  <2>4. chan'[c] = IF a = p /\ b \in tos /\ k = "term" /\ r = Rnums[call[p]]
                   THEN Append(network[c], "term") ELSE network[c]
    BY <1>2, <2>1, <2>2, <2>3
  <2> QED
    BY <2>4 DEF c
<1>5. chan' = [c \in Channel |-> chan'[c]]
  BY <1>2
<1>6. ASSUME NEW a \in Proc, NEW b \in Proc, NEW k \in Kinds, NEW r \in RnumSet
      PROVE  chan'[<<a, b, <<k, r>>>>] =
                LET rest == IF a \in froms /\ b = p /\ k = "term" /\ r = Rnums[call[p]]
                            THEN Tail(chan[<<a, b, <<k, r>>>>]) ELSE chan[<<a, b, <<k, r>>>>]
                IN  IF a = p /\ b \in tos /\ k = "term" /\ r = Rnums[call[p]]
                    THEN Append(rest, "term") ELSE rest
  BY <1>3, <1>4
<1> QED
  BY <1>5, <1>6

-----------------------------------------------------------------------------
(* What the sweep tells about the places of the processes. *)

LEMMA Places ==
  ASSUME TypeInv, PhaseInv, NEW p \in Proc
  PROVE  /\ call[p] \in 0 .. Len(Rnums) /\ call[p] \in Nat
         /\ call[p] # 0 => call[p] \in Call
         /\ pc[p] # "out" => call[p] \in Call
         /\ responses_complete[p] \in BOOLEAN /\ children_complete[p] \in BOOLEAN
         /\ pc[p] \in {"out", "loop", "parent", "post", "crash"}
<1>1. /\ call[p] \in 0 .. Len(Rnums)
      /\ responses_complete[p] \in BOOLEAN /\ children_complete[p] \in BOOLEAN
      /\ pc[p] \in {"out", "loop", "parent", "post", "crash"}
  BY DEF TypeInv
<1>2. pc[p] # "out" => call[p] > 0
  BY DEF PhaseInv
<1> QED
  BY <1>1, <1>2, CallType

LEMMA DownUp ==
  ASSUME TypeInv, PhaseInv, NEW p \in Proc, NEW n \in Call, Down(p, n)
  PROVE  Up(p, n)
<1>1. call[p] \in Nat /\ n \in Nat /\ n > 0
  BY Places, CallType
<1>2. CASE n < call[p]
  BY <1>2 DEF Up
<1>3. CASE n = call[p] /\ pc[p] \in {"post", "out", "crash"}
  <2>1. responses_complete[p] /\ children_complete[p]
    BY <1>1, <1>3 DEF PhaseInv
  <2> QED
    BY <2>1, <1>3 DEF Up
<1> QED
  BY <1>2, <1>3 DEF Down

\* Once the sweep is up at the root it has been everywhere.
LEMMA RootUp ==
  ASSUME SweepInv, NEW n \in Call, Up(Root, n), NEW p \in Proc
  PROVE  Up(p, n)
<1> DEFINE S == {q \in Proc : ~ Up(q, n)}
<1> SUFFICES ASSUME S # {} PROVE FALSE
  OBVIOUS
<1>1. S \in SUBSET Nat
  BY ProcType
<1>2. PICK q \in S : \A x \in S : q <= x
  BY <1>1, Least, Zenon
<1>3. q \in Proc /\ q # Root /\ ~ Up(q, n)
  BY <1>2
<1>4. Parent(q) \in Proc /\ Parent(q) < q /\ Parent(q) \in Nat /\ q \in Nat
  BY <1>3, ParentBefore
<1>5. Up(Parent(q), n)
  BY <1>2, <1>4
<1> QED
  BY <1>3, <1>5 DEF SweepInv

\* It starts downward at the root.
LEMMA DownRoot ==
  ASSUME SweepInv, NEW n \in Call, NEW p \in Proc, Down(p, n)
  PROVE  Down(Root, n)
<1> DEFINE S == {q \in Proc : Down(q, n)}
<1>1. S \in SUBSET Nat /\ S # {}
  BY ProcType
<1>2. PICK q \in S : \A x \in S : q <= x
  BY <1>1, Least, Zenon
<1>3. q \in Proc /\ Down(q, n)
  BY <1>2
<1>4. SUFFICES ASSUME q # Root PROVE FALSE
  BY <1>3
<1>5. Parent(q) \in Proc /\ Parent(q) < q /\ Parent(q) \in Nat /\ q \in Nat
  BY <1>3, <1>4, ParentBefore
<1>6. Down(Parent(q), n)
  BY <1>3, <1>4 DEF SweepInv
<1> QED
  BY <1>2, <1>5, <1>6

\* When it comes down to one process it has gone up from all.
LEMMA AllUp ==
  ASSUME TypeInv, PhaseInv, SweepInv, NEW n \in Call,
         NEW p \in Proc, Down(p, n), NEW q \in Proc
  PROVE  Up(q, n)
<1>1. Down(Root, n) /\ Root \in Proc
  BY DownRoot, ProcType
<1>2. Up(Root, n)
  BY <1>1, DownUp
<1> QED
  BY <1>2, RootUp

\* No process is two calls ahead of another.
LEMMA CallGap ==
  ASSUME TypeInv, PhaseInv, SweepInv, NEW p \in Proc, NEW q \in Proc
  PROVE  call[q] <= call[p] + 1
<1>1. call[p] \in Nat /\ call[q] \in 0 .. Len(Rnums)
  BY Places
<1>2. SUFFICES ASSUME call[q] > call[p] + 1 PROVE FALSE
  BY <1>1
<1> DEFINE n == call[q] - 1
<1>3. n \in Call /\ n < call[q] /\ n > call[p]
  BY <1>1, <1>2, CallType
<1> HIDE DEF n
<1>4. Down(q, n)
  BY <1>3 DEF Down
<1>5. Up(p, n)
  BY <1>3, <1>4, AllUp
<1> QED
  BY <1>1, <1>3, <1>5, CallType DEF Up

\* Calls with the same tag that are not the same are two apart.
LEMMA TagGap ==
  ASSUME NEW m \in Call, NEW n \in Call, Rnums[m] = Rnums[n], m <= n + 1, n <= m + 1
  PROVE  m = n
<1>1. Rnums[m] # Rnums[m + 1] \/ m + 1 > Len(Rnums)
  BY RnumsAlternate, CallType
<1>2. Rnums[n] # Rnums[n + 1] \/ n + 1 > Len(Rnums)
  BY RnumsAlternate, CallType
<1> QED
  BY <1>1, <1>2, CallType

LEMMA SameTag ==
  ASSUME TypeInv, PhaseInv, SweepInv, NEW p \in Proc, NEW q \in Proc,
         call[p] \in Call, call[q] \in Call, Rnums[call[p]] = Rnums[call[q]]
  PROVE  call[p] = call[q]
<1>1. call[q] <= call[p] + 1 /\ call[p] <= call[q] + 1
  BY CallGap
<1> QED
  BY <1>1, TagGap

\* A message of the sweep that has the tag of its sender or of its receiver is
\* of the call of that process.
LEMMA PassingNow ==
  ASSUME TypeInv, PhaseInv, SweepInv, NEW a \in Proc, NEW b \in Proc, NEW n \in Call,
         Passing(a, b, n), NEW c \in {a, b}, call[c] \in Call, Rnums[n] = Rnums[call[c]]
  PROVE  n = call[c]
<1>1. /\ call[a] \in Nat /\ call[b] \in Nat /\ n \in Nat
      /\ call[a] <= call[b] + 1
  BY Places, CallGap, CallType
<1>2. n <= call[a]
  BY <1>1 DEF Passing, Up, Down
<1>3. n >= call[b]
  BY <1>1 DEF Passing, Up, Down
<1>4. n <= call[c] + 1 /\ call[c] <= n + 1
  BY <1>1, <1>2, <1>3
<1> QED
  BY <1>4, TagGap

LEMMA TermComes ==
  ASSUME TypeInv, PhaseInv, SweepInv, TermInv, NEW a \in Proc, NEW b \in Proc,
         NEW c \in {a, b}, call[c] \in Call
  PROVE  LET network == chan[<<a, b, <<"term", Rnums[call[c]]>>>>]
         IN  /\ Passing(a, b, call[c]) => network = <<"term">>
             /\ ~ Passing(a, b, call[c]) => network = <<>>
<1> DEFINE r == Rnums[call[c]]
<1>1. r \in RnumSet
  BY CallType
<1>2. chan[<<a, b, <<"term", r>>>>] =
        IF \E n \in Call : Rnums[n] = r /\ Passing(a, b, n) THEN <<"term">> ELSE <<>>
  BY <1>1 DEF TermInv
<1>3. ASSUME NEW n \in Call, Rnums[n] = r, Passing(a, b, n) PROVE n = call[c]
  BY <1>3, PassingNow
<1> QED
  BY <1>2, <1>3

-----------------------------------------------------------------------------
(* The messages of the sweep. *)

LEMMA TermFrame ==
  ASSUME SweepInv, TermInv,
         \A q \in Proc, n \in Call : (Up(q, n)' <=> Up(q, n)) /\ (Down(q, n)' <=> Down(q, n)),
         \A a, b \in Proc, r \in RnumSet :
           chan'[<<a, b, <<"term", r>>>>] = chan[<<a, b, <<"term", r>>>>]
  PROVE  SweepInv' /\ TermInv'
<1>1. SweepInv'
  <2>1. ASSUME NEW q \in Proc \ {Root}, NEW n \in Call
        PROVE  /\ Up(Parent(q), n)' => Up(q, n)'
               /\ Down(q, n)' => Down(Parent(q), n)'
    <3>1. Parent(q) \in Proc
      BY ParentBefore
    <3>2. /\ Up(Parent(q), n) => Up(q, n)
          /\ Down(q, n) => Down(Parent(q), n)
      BY DEF SweepInv
    <3> QED
      BY <3>1, <3>2
  <2> QED
    BY <2>1 DEF SweepInv
<1>2. ASSUME NEW a \in Proc, NEW b \in Proc, NEW n \in Call
      PROVE  Passing(a, b, n)' <=> Passing(a, b, n)
  BY DEF Passing
<1>3. TermInv'
  <2>1. ASSUME NEW a \in Proc, NEW b \in Proc, NEW r \in RnumSet
        PROVE  chan'[<<a, b, <<"term", r>>>>] =
                 IF \E n \in Call : Rnums[n] = r /\ Passing(a, b, n)' THEN <<"term">> ELSE <<>>
    BY <1>2 DEF TermInv
  <2> QED
    BY <2>1, Zenon DEF TermInv, RnumSet, Call
<1> QED
  BY <1>1, <1>3

LEMMA Single ==
  ASSUME NumProcs = 1
  PROVE  Proc = {Root} /\ \A a, b \in Proc, n \in Call : ~ Passing(a, b, n)
BY DEF Proc, Root, Passing

LEMMA OneTerm == Tail(<<"term">>) = <<>> /\ Append(<<>>, "term") = <<"term">>
OBVIOUS

\* The children of a process differ from it and from its parent.
LEMMA Family ==
  ASSUME NEW p \in Proc
  PROVE  /\ \A q \in Children(p) : q \in Proc /\ q # Root /\ q # p /\ Parent(q) = p
         /\ p # Root => Parent(p) \in Proc /\ Parent(p) # p /\ Parent(p) \notin Children(p)
<1>1. ASSUME NEW q \in Children(p)
      PROVE  q \in Proc /\ q # Root /\ Parent(q) = p /\ p < q /\ p \in Nat /\ q \in Nat
  BY ChildrenParent, ParentBefore
<1>2. p # Root => Parent(p) \in Proc /\ Parent(p) < p /\ p \in Nat /\ Parent(p) \in Nat
  BY ParentBefore
<1>3. p # Root => Parent(p) \notin Children(p)
  BY <1>1, <1>2
<1> QED
  BY <1>1, <1>2, <1>3

LEMMA ChildrenCompleteSends ==
  ASSUME NEW p \in Proc, ChildrenComplete(p)
  PROVE  chan' = SendTerm(IF p = Root THEN {} ELSE {Parent(p)}, p,
                          TakeTerm(Children(p), p, chan))
<1>1. CASE p = Root
  <2>1. chan' = TakeTerm(Children(p), p, chan)
    BY <1>1 DEF ChildrenComplete
  <2> QED
    BY <2>1, <1>1 DEF SendTerm, TakeTerm
<1>2. CASE p # Root
  BY <1>2 DEF ChildrenComplete
<1> QED
  BY <1>1, <1>2

LEMMA TerminateSends ==
  ASSUME NEW p \in Proc, Terminate(p), TypeInv
  PROVE  chan' = SendTerm(Children(p), p,
                          TakeTerm(IF p = Root THEN {} ELSE {Parent(p)}, p, chan))
<1>1. CASE p = Root
  <2>1. chan' = SendTerm(Children(p), p, chan)
    BY <1>1 DEF Terminate, TermToChildren
  <2> QED
    BY <2>1, <1>1 DEF SendTerm, TakeTerm
<1>2. CASE p # Root
  BY <1>2 DEF Terminate, TermToChildren
<1> QED
  BY <1>1, <1>2

\* The sweep has come up from the children of p and goes on to its parent.
LEMMA ChildrenCompleteSweeps ==
  ASSUME TypeInv, PhaseInv, SweepInv, TermInv, NEW p \in Proc, ChildrenComplete(p)
  PROVE  SweepInv' /\ TermInv'
<1>1. /\ pc[p] = "loop" /\ responses_complete[p] /\ ~ children_complete[p]
      /\ TermFrom(Children(p), p)
      /\ children_complete' = [children_complete EXCEPT ![p] = TRUE]
      /\ pc' = [pc EXCEPT ![p] = IF p = Root THEN "loop" ELSE "parent"]
      /\ UNCHANGED <<call, responses_complete>>
  BY DEF ChildrenComplete, ReadyForSweep, Goto
<1>2. PICK n \in Call : n = call[p]
  BY <1>1, Places
<1> DEFINE tos == IF p = Root THEN {} ELSE {Parent(p)}
<1>3. ASSUME NEW a \in Proc, NEW b \in Proc, NEW r \in RnumSet
      PROVE  chan'[<<a, b, <<"term", r>>>>] =
               LET rest == IF a \in Children(p) /\ b = p /\ r = Rnums[n]
                           THEN Tail(chan[<<a, b, <<"term", r>>>>])
                           ELSE chan[<<a, b, <<"term", r>>>>]
               IN  IF a = p /\ b \in tos /\ r = Rnums[n] THEN Append(rest, "term") ELSE rest
  <2>1. chan' = SendTerm(tos, p, TakeTerm(Children(p), p, chan))
    BY ChildrenCompleteSends
  <2> HIDE DEF tos
  <2>2. "term" \in Kinds
    BY DEF Kinds
  <2> QED
    BY <2>1, <2>2, <1>2, TermIs
<1>4. \A q \in Children(p) : Up(q, n) /\ Passing(q, p, n)
  <2>1. ASSUME NEW q \in Children(p) PROVE Up(q, n) /\ Passing(q, p, n)
    <3>1. q \in Proc /\ q # Root /\ q # p /\ Parent(q) = p
      BY Family
    <3>2. chan[<<q, p, <<"term", Rnums[n]>>>>] # <<>>
      BY <1>1, <1>2 DEF TermFrom, Tag
    <3>3. Passing(q, p, n)
      BY <3>1, <3>2, <1>2, TermComes
    <3>4. ~ (p # Root /\ q = Parent(p))
      BY Family
    <3> QED
      BY <3>3, <3>4 DEF Passing
  <2> QED
    BY <2>1
<1>5. ~ Up(p, n) /\ ~ Down(p, n)
  BY <1>1, <1>2, CallType DEF Up, Down
<1>6. \A q \in Proc, m \in Call :
        /\ Up(q, m)' <=> Up(q, m) \/ (q = p /\ m = n)
        /\ Down(q, m)' <=> Down(q, m)
  <2>1. ASSUME NEW q \in Proc, NEW m \in Call
        PROVE  Up(q, m)' <=> Up(q, m) \/ (q = p /\ m = n)
    BY <1>1, <1>2 DEF Up, TypeInv
  <2>2. ASSUME NEW q \in Proc, NEW m \in Call
        PROVE  Down(q, m)' <=> Down(q, m)
    BY <1>1 DEF Down, TypeInv
  <2> QED
    BY <2>1, <2>2
<1> HIDE DEF tos
<1>7. SweepInv'
  <2>1. ASSUME NEW q \in Proc \ {Root}, NEW m \in Call
        PROVE  /\ Up(Parent(q), m)' => Up(q, m)'
               /\ Down(q, m)' => Down(Parent(q), m)'
    <3>1. Parent(q) \in Proc
      BY ParentBefore
    <3>2. /\ Up(Parent(q), m) => Up(q, m)
          /\ Down(q, m) => Down(Parent(q), m)
      BY DEF SweepInv
    <3>3. Parent(q) = p => q \in Children(p)
      BY ChildrenParent
    <3> QED
      BY <3>1, <3>2, <3>3, <1>4, <1>6
  <2> QED
    BY <2>1 DEF SweepInv
<1>8. ASSUME NEW a \in Proc, NEW b \in Proc, NEW m \in Call
      PROVE  Passing(a, b, m)' <=>
               \/ Passing(a, b, m) /\ ~ (a \in Children(p) /\ b = p /\ m = n)
               \/ a = p /\ b \in tos /\ m = n
  <2>1. Passing(a, b, m)' <=>
          \/ a # Root /\ b = Parent(a) /\ (Up(a, m) \/ (a = p /\ m = n))
             /\ ~ (Up(b, m) \/ (b = p /\ m = n))
          \/ b # Root /\ a = Parent(b) /\ Down(a, m) /\ ~ Down(b, m)
    BY <1>6 DEF Passing
  <2>2. CASE a = p /\ m = n
    <3>1. a # Root /\ b = Parent(a) <=> b \in tos
      BY <2>2 DEF tos
    <3>2. b \in tos => ~ Up(b, m) /\ b # p
      BY <2>2, <1>2, <1>5, Family DEF tos, SweepInv
    <3>3. ~ Down(a, m)
      BY <2>2, <1>5
    <3>4. ~ Passing(a, b, m)
      BY <2>2, <1>5 DEF Passing
    <3> QED
      BY <2>1, <2>2, <3>1, <3>2, <3>3, <3>4
  <2>3. CASE ~ (a = p /\ m = n) /\ b = p /\ m = n
    <3>1. a # Root /\ b = Parent(a) <=> a \in Children(p)
      BY <2>3, ChildrenParent
    <3>2. a \in Children(p) => ~ (b # Root /\ a = Parent(b))
      BY <2>3, Family
    <3> QED
      BY <2>1, <2>3, <3>1, <3>2 DEF Passing
  <2>4. CASE ~ (a = p /\ m = n) /\ ~ (b = p /\ m = n)
    BY <2>1, <2>4 DEF Passing
  <2> QED
    BY <2>2, <2>3, <2>4
<1>9. ASSUME NEW a \in Proc, NEW b \in Proc, NEW r \in RnumSet
      PROVE  chan'[<<a, b, <<"term", r>>>>] =
               IF \E m \in Call : Rnums[m] = r /\ Passing(a, b, m)' THEN <<"term">> ELSE <<>>
  <2>1. chan[<<a, b, <<"term", r>>>>] =
          IF \E m \in Call : Rnums[m] = r /\ Passing(a, b, m) THEN <<"term">> ELSE <<>>
    BY DEF TermInv
  <2>2. CASE a \in Children(p) /\ b = p /\ r = Rnums[n]
    <3>1. Passing(a, b, n) /\ a # p
      BY <2>2, <1>4, Family
    <3>2. chan[<<a, b, <<"term", r>>>>] = <<"term">>
      BY <2>1, <2>2, <3>1, <1>2
    <3>3. chan'[<<a, b, <<"term", r>>>>] = <<>>
      BY <1>3, <2>2, <3>1, <3>2, OneTerm
    <3>4. ASSUME NEW m \in Call, Rnums[m] = r, Passing(a, b, m)' PROVE FALSE
      <4>1. Passing(a, b, m) /\ m # n
        BY <1>8, <3>4, <2>2, <3>1
      <4> QED
        BY <4>1, <3>4, <2>2, <1>2, PassingNow
    <3> QED
      BY <3>3, <3>4
  <2>3. CASE a = p /\ b \in tos /\ r = Rnums[n]
    <3>1. a \notin Children(p)
      BY <2>3, Family
    <3>2. Passing(a, b, n)'
      BY <1>8, <1>2, <2>3
    <3>3. ~ Passing(a, b, n)
      BY <2>3, <1>5 DEF Passing
    <3>4. chan[<<a, b, <<"term", r>>>>] = <<>>
      BY <2>3, <3>3, <1>2, TermComes
    <3>5. chan'[<<a, b, <<"term", r>>>>] = <<"term">>
      BY <1>3, <2>3, <3>1, <3>4, OneTerm
    <3> QED
      BY <3>2, <3>5, <2>3, <1>2
  <2>4. CASE ~ (a \in Children(p) /\ b = p /\ r = Rnums[n])
             /\ ~ (a = p /\ b \in tos /\ r = Rnums[n])
    <3>1. chan'[<<a, b, <<"term", r>>>>] = chan[<<a, b, <<"term", r>>>>]
      BY <1>3, <2>4
    <3>2. \A m \in Call : Rnums[m] = r => (Passing(a, b, m)' <=> Passing(a, b, m))
      BY <1>8, <2>4
    <3> QED
      BY <2>1, <3>1, <3>2
  <2> QED
    BY <2>2, <2>3, <2>4
<1>10. TermInv'
  BY <1>9, Zenon DEF TermInv, RnumSet, Call
<1> QED
  BY <1>7, <1>10

\* The sweep has come down from the parent of p and goes on to its children.
LEMMA TerminateSweeps ==
  ASSUME TypeInv, PhaseInv, SweepInv, TermInv, NEW p \in Proc, Terminate(p)
  PROVE  SweepInv' /\ TermInv'
<1>1. /\ pc[p] = "loop" /\ responses_complete[p] /\ children_complete[p]
      /\ p # Root => TermFrom({Parent(p)}, p)
      /\ pc' = [pc EXCEPT ![p] = "post"]
      /\ UNCHANGED <<call, responses_complete, children_complete>>
  BY DEF Terminate, Goto, flags
<1>2. PICK n \in Call : n = call[p]
  BY <1>1, Places
<1> DEFINE froms == IF p = Root THEN {} ELSE {Parent(p)}
<1>3. ASSUME NEW a \in Proc, NEW b \in Proc, NEW r \in RnumSet
      PROVE  chan'[<<a, b, <<"term", r>>>>] =
               LET rest == IF a \in froms /\ b = p /\ r = Rnums[n]
                           THEN Tail(chan[<<a, b, <<"term", r>>>>])
                           ELSE chan[<<a, b, <<"term", r>>>>]
               IN  IF a = p /\ b \in Children(p) /\ r = Rnums[n]
                   THEN Append(rest, "term") ELSE rest
  <2>1. chan' = SendTerm(Children(p), p, TakeTerm(froms, p, chan))
    BY TerminateSends
  <2> HIDE DEF froms
  <2>2. "term" \in Kinds
    BY DEF Kinds
  <2> QED
    BY <2>1, <2>2, <1>2, TermIs
<1>4. ~ Down(p, n)
  BY <1>1, <1>2, CallType DEF Down
<1>5. p # Root => Down(Parent(p), n) /\ Passing(Parent(p), p, n)
  <2> SUFFICES ASSUME p # Root PROVE Down(Parent(p), n) /\ Passing(Parent(p), p, n)
    OBVIOUS
  <2>1. Parent(p) \in Proc /\ Parent(p) # p /\ Parent(p) \notin Children(p)
    BY Family
  <2>2. chan[<<Parent(p), p, <<"term", Rnums[n]>>>>] # <<>>
    BY <1>1, <1>2 DEF TermFrom, Tag
  <2>3. Passing(Parent(p), p, n)
    BY <2>1, <2>2, <1>2, TermComes
  <2>4. ~ (Parent(p) # Root /\ p = Parent(Parent(p)))
    BY <2>1, ChildrenParent
  <2> QED
    BY <2>3, <2>4 DEF Passing
<1>6. \A q \in Proc, m \in Call :
        /\ Down(q, m)' <=> Down(q, m) \/ (q = p /\ m = n)
        /\ Up(q, m)' <=> Up(q, m)
  <2>1. ASSUME NEW q \in Proc, NEW m \in Call
        PROVE  Down(q, m)' <=> Down(q, m) \/ (q = p /\ m = n)
    BY <1>1, <1>2 DEF Down, TypeInv
  <2>2. ASSUME NEW q \in Proc, NEW m \in Call
        PROVE  Up(q, m)' <=> Up(q, m)
    BY <1>1 DEF Up
  <2> QED
    BY <2>1, <2>2
<1> HIDE DEF froms
<1>7. SweepInv'
  <2>1. ASSUME NEW q \in Proc \ {Root}, NEW m \in Call
        PROVE  /\ Up(Parent(q), m)' => Up(q, m)'
               /\ Down(q, m)' => Down(Parent(q), m)'
    <3>1. Parent(q) \in Proc
      BY ParentBefore
    <3>2. /\ Up(Parent(q), m) => Up(q, m)
          /\ Down(q, m) => Down(Parent(q), m)
      BY DEF SweepInv
    <3> QED
      BY <3>1, <3>2, <1>5, <1>6
  <2> QED
    BY <2>1 DEF SweepInv
<1>8. ASSUME NEW a \in Proc, NEW b \in Proc, NEW m \in Call
      PROVE  Passing(a, b, m)' <=>
               \/ Passing(a, b, m) /\ ~ (a \in froms /\ b = p /\ m = n)
               \/ a = p /\ b \in Children(p) /\ m = n
  <2>1. Passing(a, b, m)' <=>
          \/ a # Root /\ b = Parent(a) /\ Up(a, m) /\ ~ Up(b, m)
          \/ b # Root /\ a = Parent(b) /\ (Down(a, m) \/ (a = p /\ m = n))
             /\ ~ (Down(b, m) \/ (b = p /\ m = n))
    BY <1>6 DEF Passing
  <2>2. CASE a = p /\ m = n
    <3>1. b # Root /\ a = Parent(b) <=> b \in Children(p)
      BY <2>2, ChildrenParent
    <3>2. b \in Children(p) => ~ Down(b, m) /\ b # p
      BY <2>2, <1>2, <1>4, Family DEF SweepInv
    <3>3. a \notin froms \/ b # p
      BY <2>2, Family DEF froms
    <3> QED
      BY <2>1, <2>2, <3>1, <3>2, <3>3 DEF Passing
  <2>3. CASE ~ (a = p /\ m = n) /\ b = p /\ m = n
    <3>1. b # Root /\ a = Parent(b) <=> a \in froms
      BY <2>3 DEF froms
    <3>2. a \in froms => ~ (a # Root /\ b = Parent(a))
      BY <2>3, Family, ChildrenParent DEF froms
    <3> QED
      BY <2>1, <2>3, <3>1, <3>2, Family DEF Passing
  <2>4. CASE ~ (a = p /\ m = n) /\ ~ (b = p /\ m = n)
    BY <2>1, <2>4 DEF Passing
  <2> QED
    BY <2>2, <2>3, <2>4
<1>9. ASSUME NEW a \in Proc, NEW b \in Proc, NEW r \in RnumSet
      PROVE  chan'[<<a, b, <<"term", r>>>>] =
               IF \E m \in Call : Rnums[m] = r /\ Passing(a, b, m)' THEN <<"term">> ELSE <<>>
  <2>1. chan[<<a, b, <<"term", r>>>>] =
          IF \E m \in Call : Rnums[m] = r /\ Passing(a, b, m) THEN <<"term">> ELSE <<>>
    BY DEF TermInv
  <2>2. CASE a \in froms /\ b = p /\ r = Rnums[n]
    <3>1. Passing(a, b, n) /\ a # p
      BY <2>2, <1>5, Family DEF froms
    <3>2. chan[<<a, b, <<"term", r>>>>] = <<"term">>
      BY <2>1, <2>2, <3>1, <1>2
    <3>3. chan'[<<a, b, <<"term", r>>>>] = <<>>
      BY <1>3, <2>2, <3>1, <3>2, OneTerm
    <3>4. ASSUME NEW m \in Call, Rnums[m] = r, Passing(a, b, m)' PROVE FALSE
      <4>1. Passing(a, b, m) /\ m # n
        BY <1>8, <3>4, <2>2, <3>1
      <4> QED
        BY <4>1, <3>4, <2>2, <1>2, PassingNow
    <3> QED
      BY <3>3, <3>4
  <2>3. CASE a = p /\ b \in Children(p) /\ r = Rnums[n]
    <3>1. b # p
      BY <2>3, Family
    <3>2. Passing(a, b, n)'
      BY <1>8, <1>2, <2>3
    <3>3. ~ Passing(a, b, n)
      BY <2>3, <1>4, Family, ChildrenParent DEF Passing
    <3>4. chan[<<a, b, <<"term", r>>>>] = <<>>
      BY <2>3, <3>3, <1>2, TermComes
    <3>5. chan'[<<a, b, <<"term", r>>>>] = <<"term">>
      BY <1>3, <2>3, <3>1, <3>4, OneTerm
    <3> QED
      BY <3>2, <3>5, <2>3, <1>2
  <2>4. CASE ~ (a \in froms /\ b = p /\ r = Rnums[n])
             /\ ~ (a = p /\ b \in Children(p) /\ r = Rnums[n])
    <3>1. chan'[<<a, b, <<"term", r>>>>] = chan[<<a, b, <<"term", r>>>>]
      BY <1>3, <2>4
    <3>2. \A m \in Call : Rnums[m] = r => (Passing(a, b, m)' <=> Passing(a, b, m))
      BY <1>8, <2>4
    <3> QED
      BY <2>1, <3>1, <3>2
  <2> QED
    BY <2>2, <2>3, <2>4
<1>10. TermInv'
  BY <1>9, Zenon DEF TermInv, RnumSet, Call
<1> QED
  BY <1>7, <1>10

\* With a single process there is no sweep.
LEMMA SingleSweeps ==
  ASSUME NumProcs = 1, SweepInv, TermInv,
         \A a, b \in Proc, r \in RnumSet :
           chan'[<<a, b, <<"term", r>>>>] = chan[<<a, b, <<"term", r>>>>]
  PROVE  SweepInv' /\ TermInv'
<1>1. ASSUME NEW a \in Proc, NEW b \in Proc, NEW r \in RnumSet
      PROVE  chan'[<<a, b, <<"term", r>>>>] = <<>>
  <2>1. ~ \E n \in Call : Rnums[n] = r /\ Passing(a, b, n)
    BY Single
  <2> QED
    BY <2>1 DEF TermInv
<1>2. \A a, b \in Proc, n \in Call : ~ Passing(a, b, n)'
  BY Single DEF Passing
<1>3. ASSUME NEW a \in Proc, NEW b \in Proc, NEW r \in RnumSet
      PROVE  chan'[<<a, b, <<"term", r>>>>] =
               IF \E m \in Call : Rnums[m] = r /\ Passing(a, b, m)' THEN <<"term">> ELSE <<>>
  BY <1>1, <1>2
<1>4. TermInv'
  BY <1>3, Zenon DEF TermInv, RnumSet, Call
<1> QED
  BY <1>4, Single DEF SweepInv

\* A process out of an exchange is all the way through it.
LEMMA BegunSweeps ==
  ASSUME TypeInv, PhaseInv, SweepInv, TermInv, NEW p \in Proc,
         NEW list \in Seq(Proc), Begun(p, list)
  PROVE  SweepInv' /\ TermInv'
<1>1. \A a, b \in Proc, r \in RnumSet :
        chan'[<<a, b, <<"term", r>>>>] = chan[<<a, b, <<"term", r>>>>]
  <2>1. "term" \in Kinds /\ "term" # "contact"
    BY DEF Kinds
  <2> QED
    BY <2>1 DEF Begun
<1>2. CASE NumProcs = 1
  BY <1>1, <1>2, SingleSweeps
<1>3. CASE NumProcs # 1
  <2>1. /\ pc[p] = "out"
        /\ pc' = [pc EXCEPT ![p] = "loop"]
        /\ call' = [call EXCEPT ![p] = @ + 1]
        /\ responses_complete' = [responses_complete EXCEPT ![p] = (list = <<>>)]
        /\ children_complete' = [children_complete EXCEPT ![p] = FALSE]
    BY <1>3 DEF Begun, Uninitialized
  <2>2. ASSUME NEW n \in Call
        PROVE  Up(p, n) /\ Down(p, n) <=> n <= call[p]
    <3>1. call[p] \in Nat /\ n \in Nat /\ n > 0
      BY Places, CallType
    <3>2. call[p] > 0 => responses_complete[p] /\ children_complete[p]
      BY <2>1 DEF PhaseInv
    <3> QED
      BY <3>1, <3>2, <2>1 DEF Up, Down
  <2>3. ASSUME NEW q \in Proc, NEW n \in Call
        PROVE  (Up(q, n)' <=> Up(q, n)) /\ (Down(q, n)' <=> Down(q, n))
    <3>1. call[q] \in Nat /\ n \in Nat
      BY Places, CallType
    <3>2. CASE q = p
      <4>1. call'[p] = call[p] + 1 /\ ~ children_complete'[p] /\ pc'[p] = "loop"
        BY <2>1 DEF TypeInv
      <4>2. (Up(p, n)' <=> n <= call[p]) /\ (Down(p, n)' <=> n <= call[p])
        BY <3>1, <3>2, <4>1 DEF Up, Down
      <4>3. (Up(p, n) <=> n <= call[p]) /\ (Down(p, n) <=> n <= call[p])
        BY <2>2, <3>1, <3>2, <2>1 DEF Up, Down
      <4> QED
        BY <3>2, <4>2, <4>3
    <3>3. CASE q # p
      BY <2>1, <3>3 DEF Up, Down, TypeInv
    <3> QED
      BY <3>2, <3>3
  <2> QED
    BY <1>1, <2>3, TermFrame
<1> QED
  BY <1>2, <1>3

LEMMA ResponsesCompleteSweeps ==
  ASSUME TypeInv, PhaseInv, SweepInv, TermInv, NEW p \in Proc, ResponsesComplete(p)
  PROVE  SweepInv' /\ TermInv'
<1>1. /\ pc[p] = "loop" /\ ~ responses_complete[p]
      /\ responses_complete' = [responses_complete EXCEPT ![p] = TRUE]
      /\ pc' = [pc EXCEPT ![p] = IF NumProcs = 1 THEN "post" ELSE "loop"]
      /\ UNCHANGED <<call, children_complete>>
  BY DEF ResponsesComplete, Goto
<1>2. \A a, b \in Proc, r \in RnumSet :
        chan'[<<a, b, <<"term", r>>>>] = chan[<<a, b, <<"term", r>>>>]
  <2>1. "term" \in Kinds /\ "term" # "response" /\ call[p] \in Call
    BY <1>1, Places DEF Kinds
  <2>2. chan' = Received(p, Indices(p), "response")
    BY DEF ResponsesComplete
  <2>3. Consumed(p, Indices(p), "response")
    BY <2>1, <2>2, ReceivedIs, Zenon
  <2> QED
    BY <2>1, <2>3 DEF Consumed
<1>3. CASE NumProcs = 1
  BY <1>2, <1>3, SingleSweeps
<1>4. CASE NumProcs # 1
  <2>1. NumProcs > 1
    BY <1>4, ExchangeAssumption
  <2>2. ~ children_complete[p]
    BY <1>1, <2>1 DEF PhaseInv
  <2>3. ASSUME NEW q \in Proc, NEW n \in Call
        PROVE  (Up(q, n)' <=> Up(q, n)) /\ (Down(q, n)' <=> Down(q, n))
    BY <1>1, <1>4, <2>2 DEF Up, Down, TypeInv
  <2> QED
    BY <1>2, <2>3, TermFrame
<1> QED
  BY <1>3, <1>4

LEMMA PostProcessSweeps ==
  ASSUME TypeInv, PhaseInv, SweepInv, TermInv, NEW p \in Proc, PostProcess(p)
  PROVE  SweepInv' /\ TermInv'
<1>1. /\ pc[p] = "post"
      /\ pc' = [pc EXCEPT ![p] = "out"]
      /\ UNCHANGED <<call, responses_complete, children_complete>>
  BY DEF PostProcess, Goto, flags
<1>2. \A a, b \in Proc, r \in RnumSet :
        chan'[<<a, b, <<"term", r>>>>] = chan[<<a, b, <<"term", r>>>>]
  <2>1. "term" \in Kinds /\ "term" # "post" /\ call[p] \in Call
    BY <1>1, Places DEF Kinds
  <2>2. chan' = Received(p, LongOnes(p), "post")
    BY DEF PostProcess
  <2>3. Consumed(p, LongOnes(p), "post")
    BY <2>1, <2>2, ReceivedIs, Zenon
  <2> QED
    BY <2>1, <2>3 DEF Consumed
<1>3. ASSUME NEW q \in Proc, NEW n \in Call
      PROVE  (Up(q, n)' <=> Up(q, n)) /\ (Down(q, n)' <=> Down(q, n))
  BY <1>1 DEF Up, Down, TypeInv
<1> QED
  BY <1>2, <1>3, TermFrame

LEMMA FilledSweeps ==
  ASSUME TypeInv, PhaseInv, SweepInv, TermInv, NEW p \in Proc,
         NEW q \in Proc, NEW contact, NEW rest, Filled(p, q, contact, rest)
  PROVE  SweepInv' /\ TermInv'
<1>1. UNCHANGED <<pc, call, responses_complete, children_complete>>
  BY DEF Filled, flags
<1>2. ASSUME NEW a \in Proc, NEW b \in Proc, NEW r \in RnumSet
      PROVE  chan'[<<a, b, <<"term", r>>>>] = chan[<<a, b, <<"term", r>>>>]
  <2>1. "term" \in Kinds /\ "term" \notin {"contact", "response", "post"}
    BY DEF Kinds
  <2> QED
    BY <2>1 DEF Filled
<1>3. ASSUME NEW x \in Proc, NEW n \in Call
      PROVE  (Up(x, n)' <=> Up(x, n)) /\ (Down(x, n)' <=> Down(x, n))
  BY <1>1 DEF Up, Down
<1> QED
  BY <1>2, <1>3, TermFrame

LEMMA ReceiveFromParentSweeps ==
  ASSUME TypeInv, PhaseInv, SweepInv, TermInv, NEW p \in Proc, ReceiveFromParent(p)
  PROVE  SweepInv' /\ TermInv'
<1>1. /\ pc[p] = "parent" /\ pc' = [pc EXCEPT ![p] = "loop"]
      /\ UNCHANGED <<call, responses_complete, children_complete, chan>>
  BY DEF ReceiveFromParent, Goto, flags
<1>2. ASSUME NEW q \in Proc, NEW n \in Call
      PROVE  (Up(q, n)' <=> Up(q, n)) /\ (Down(q, n)' <=> Down(q, n))
  BY <1>1 DEF Up, Down, TypeInv
<1> QED
  BY <1>1, <1>2, TermFrame

-----------------------------------------------------------------------------
(* The contacts and their answers. *)

LEMMA ChanTypes ==
  ASSUME TypeInv, NEW a \in Proc, NEW b \in Proc, NEW r \in RnumSet
  PROVE  /\ chan[<<a, b, <<"contact", r>>>>] \in Seq(ContactMsg)
         /\ chan[<<a, b, <<"post", r>>>>] \in Seq(ContactMsg)
         /\ chan[<<a, b, <<"response", r>>>>] \in Seq(AnswerMsg)
<1>1. {"contact", "post", "response"} \subseteq Kinds
  BY DEF Kinds
<1>2. /\ chan[<<a, b, <<"contact", r>>>>] \in Seq(Carried("contact"))
      /\ chan[<<a, b, <<"post", r>>>>] \in Seq(Carried("post"))
      /\ chan[<<a, b, <<"response", r>>>>] \in Seq(Carried("response"))
  BY <1>1 DEF TypeInv
<1> QED
  BY <1>2 DEF Carried

LEMMA IndicesAre ==
  ASSUME TypeInv, NEW q \in Proc, NEW p \in Proc
  PROVE  /\ contact_proc_list[q] \in Seq(Proc) /\ Len(contact_proc_list[q]) \in Nat
         /\ Len(contact_proc_list[q]) <= MaxContacts /\ MaxContacts \in Nat
         /\ Indices(q) = 1 .. Len(contact_proc_list[q])
         /\ IndicesTo(q, p) \in SUBSET Indices(q)
         /\ IndicesTo(q, p) \in SUBSET (1 .. Len(contact_proc_list[q]))
<1>1. contact_proc_list[q] \in Seq(Proc) /\ Len(contact_proc_list[q]) <= MaxContacts
  BY DEF TypeInv
<1>2. Len(contact_proc_list[q]) \in Nat /\ Indices(q) = 1 .. Len(contact_proc_list[q])
  BY <1>1 DEF Indices
<1>3. IndicesTo(q, p) \in SUBSET Indices(q)
  BY DEF IndicesTo
<1> QED
  BY <1>1, <1>2, <1>3, ExchangeAssumption

\* The ranks of the contacts of q to p.
LEMMA Ranks ==
  ASSUME TypeInv, NEW q \in Proc, NEW p \in Proc
  PROVE  LET S == IndicesTo(q, p) IN
         /\ Cardinality(S) \in Nat
         /\ \A i \in S : Rank(i, S) \in 1 .. Cardinality(S)
         /\ \A i, j \in S : i < j => Rank(i, S) < Rank(j, S)
         /\ \A i, j \in S : Rank(i, S) = Rank(j, S) => i = j
         /\ \A k \in 1 .. Cardinality(S) : \E i \in S : Rank(i, S) = k
<1> DEFINE S == IndicesTo(q, p)
           n == Len(contact_proc_list[q])
<1>1. n \in Nat /\ S \in SUBSET (1 .. n)
  BY IndicesAre
<1> HIDE DEF S, n
<1>2. /\ Cardinality(S) \in Nat
      /\ \A i \in S : Rank(i, S) \in 1 .. Cardinality(S)
      /\ \A i, j \in S : i < j => Rank(i, S) < Rank(j, S)
  BY <1>1, RankIn
<1>3. \A k \in 1 .. Cardinality(S) : \E i \in S : Rank(i, S) = k
  BY <1>1, RankOnto
<1>4. \A i, j \in S : Rank(i, S) = Rank(j, S) => i = j
  BY <1>1, <1>2
<1>5. /\ Cardinality(S) \in Nat
      /\ \A i \in S : Rank(i, S) \in 1 .. Cardinality(S)
      /\ \A i, j \in S : i < j => Rank(i, S) < Rank(j, S)
      /\ \A i, j \in S : Rank(i, S) = Rank(j, S) => i = j
      /\ \A k \in 1 .. Cardinality(S) : \E i \in S : Rank(i, S) = k
  BY <1>2, <1>3, <1>4
<1> QED
  BY <1>5 DEF S

\* What is there of the contacts of q to p, where neither is touched, stays right.
Untouched(q) ==
  /\ Asking(q)' <=> Asking(q)
  /\ (pc[q] \in {"loop", "parent", "post"})' <=> pc[q] \in {"loop", "parent", "post"}
  /\ call'[q] = call[q]
  /\ contact_proc_list'[q] = contact_proc_list[q]
  /\ responses_complete'[q] = responses_complete[q]
  /\ responses'[q] = responses[q]

LEMMA ContentFrame ==
  ASSUME NEW q \in Proc, NEW p \in Proc, NEW r \in RnumSet, Untouched(q),
         chan'[<<p, q, <<"response", r>>>>] = chan[<<p, q, <<"response", r>>>>],
         chan'[<<q, p, <<"contact", r>>>>] = chan[<<q, p, <<"contact", r>>>>],
         chan'[<<p, q, <<"post", r>>>>] = chan[<<p, q, <<"post", r>>>>],
         ContactsRight(q, p, r), PostRight(q, p, r)
  PROVE  ContactsRight(q, p, r)' /\ PostRight(q, p, r)'
<1>1. IndicesTo(q, p)' = IndicesTo(q, p)
  BY DEF IndicesTo, Indices, Untouched
<1>2. /\ \A i : Asked(q, i)' = Asked(q, i)
      /\ \A i : Answers(q, i, p)' = Answers(q, i, p)
  BY DEF Asked, Answers, AnswerTo, Untouched
<1>3. ContactsRight(q, p, r)'
  BY <1>1, <1>2 DEF ContactsRight, Untouched
<1>4. r = Rnums[call[q]] => Long(q, p)' = Long(q, p)
  BY <1>1 DEF Long, Untouched
<1>5. PostRight(q, p, r)'
  BY <1>2, <1>4 DEF PostRight, Untouched
<1> QED
  BY <1>3, <1>5

LEMMA ResponsesFrame ==
  ASSUME NEW q \in Proc, Untouched(q), pc'[q] = "out" => pc[q] = "out", ResponsesRight(q)
  PROVE  ResponsesRight(q)'
<1>1. /\ \A i : Asked(q, i)' = Asked(q, i)
      /\ \A i, p : Answers(q, i, p)' = Answers(q, i, p)
      /\ Indices(q)' = Indices(q)
  BY DEF Asked, Answers, AnswerTo, Indices, Untouched
<1> QED
  BY <1>1 DEF ResponsesRight, Untouched

\* The actions of the sweep touch no contact.
LEMMA SweepContent ==
  ASSUME ContentInv, \A q \in Proc : Untouched(q) /\ (pc'[q] = "out" => pc[q] = "out"),
         \A a, b \in Proc, kind \in Kinds \ {"term"}, r \in RnumSet :
           chan'[<<a, b, <<kind, r>>>>] = chan[<<a, b, <<kind, r>>>>]
  PROVE  ContentInv'
<1>1. {"contact", "post", "response"} \subseteq Kinds \ {"term"}
  BY DEF Kinds
<1>2. ASSUME NEW q \in Proc, NEW p \in Proc, NEW r \in RnumSet
      PROVE  ContactsRight(q, p, r)' /\ PostRight(q, p, r)'
  BY <1>1, ContentFrame DEF ContentInv
<1>3. ASSUME NEW q \in Proc PROVE ResponsesRight(q)'
  BY ResponsesFrame DEF ContentInv
<1> QED
  BY <1>2, <1>3 DEF ContentInv, RnumSet, Call

\* A contact that p finds is the first of q that p has not answered in the exchange
\* in which both are.
Answering(p, q, contact, i) ==
  LET S == IndicesTo(q, p) IN
  /\ Asking(q) /\ call[q] = call[p] /\ call[q] \in Call
  /\ i \in S /\ contact = Asked(q, i)
  /\ Rank(i, S) = Len(chan[<<p, q, <<"response", Rnums[call[p]]>>>>]) + 1

LEMMA FilledIs ==
  ASSUME ExchangeInv, NEW p \in Proc, NEW q \in Proc, NEW contact, NEW rest,
         Filled(p, q, contact, rest)
  PROVE  \E i \in IndicesTo(q, p) : Answering(p, q, contact, i)
<1> USE DEF ExchangeInv
<1> DEFINE S == IndicesTo(q, p)
<1>1. PICK r \in RnumSet : r = Rnums[call[p]]
  BY CallType DEF Filled
<1> DEFINE R == chan[<<p, q, <<"response", r>>>>]
           C == chan[<<q, p, <<"contact", r>>>>]
<1>2. /\ pc[p] = "loop" /\ call[p] \in Call /\ C # <<>> /\ contact = Head(C)
  BY <1>1 DEF Filled
<1>3. Asking(q) /\ r = Rnums[call[q]]
  BY <1>2 DEF ContentInv, ContactsRight
<1>4. call[q] \in Call
  BY <1>3, Places DEF Asking
<1>5. call[q] = call[p]
  BY <1>1, <1>2, <1>3, <1>4, SameTag
<1>6. /\ Len(R) + Len(C) = Cardinality(S)
      /\ \A i \in S : Rank(i, S) > Len(R) => C[Rank(i, S) - Len(R)] = Asked(q, i)
  <2>1. ContactsRight(q, p, r)
    BY DEF ContentInv
  <2>2. R \in Seq(AnswerMsg)
    BY ChanTypes
  <2>3. Len(R) \in Nat
    BY <2>2
  <2>4. /\ Len(R) + Len(C) = Cardinality(S)
        /\ \A i \in S : IF Rank(i, S) <= Len(R)
                        THEN R[Rank(i, S)] \in Answers(q, i, p)
                        ELSE C[Rank(i, S) - Len(R)] = Asked(q, i)
    BY <2>1, <1>3, Zenon DEF ContactsRight
  <2> HIDE DEF R, C, S
  <2>5. ASSUME NEW i \in S, Rank(i, S) > Len(R)
        PROVE  C[Rank(i, S) - Len(R)] = Asked(q, i)
    <3>1. Rank(i, S) \in Nat
      BY Ranks DEF S
    <3> QED
      BY <3>1, <2>3, <2>4, <2>5
  <2> QED
    BY <2>4, <2>5
<1>7. R \in Seq(AnswerMsg) /\ C \in Seq(ContactMsg)
  BY ChanTypes
<1> HIDE DEF R, C
<1>8. Len(R) \in Nat /\ Len(C) \in Nat \ {0} /\ contact = C[1]
  BY <1>2, <1>7
<1> DEFINE k == Len(R) + 1
<1>9. k \in 1 .. Cardinality(S)
  BY <1>6, <1>8, Ranks
<1>10. PICK i \in S : Rank(i, S) = k
  BY <1>9, Ranks
<1>11. C[1] = Asked(q, i)
  BY <1>6, <1>8, <1>10
<1>12. Answering(p, q, contact, i)
  BY <1>1, <1>3, <1>4, <1>5, <1>8, <1>10, <1>11 DEF Answering, R
<1> QED
  BY <1>12

LEMMA FilledContent ==
  ASSUME ExchangeInv, NEW p \in Proc, NEW q \in Proc, NEW contact \in ContactMsg,
         NEW rest \in ContactMsg \cup {Missing}, Filled(p, q, contact, rest)
  PROVE  ContentInv'
<1>1. PICK i \in IndicesTo(q, p) : Answering(p, q, contact, i)
  BY FilledIs
<1>2. PICK r \in RnumSet : r = Rnums[call[p]]
  BY CallType DEF Filled
<1> DEFINE S == IndicesTo(q, p)
           R == chan[<<p, q, <<"response", r>>>>]
           C == chan[<<q, p, <<"contact", r>>>>]
           P == chan[<<p, q, <<"post", r>>>>]
           answer == [to |-> contact, by |-> p, in |-> call[p], rest |-> rest]
<1>3. /\ Asking(q) /\ call[q] = call[p] /\ r = Rnums[call[q]]
      /\ i \in S /\ contact = Asked(q, i) /\ Rank(i, S) = Len(R) + 1
  BY <1>1, <1>2 DEF Answering
<1>4. /\ UNCHANGED <<pc, call, contact_proc_list, responses_complete, responses>>
      /\ chan'[<<q, p, <<"contact", r>>>>] = Tail(C) /\ C # <<>>
      /\ chan'[<<p, q, <<"response", r>>>>] = Append(R, answer)
      /\ chan'[<<p, q, <<"post", r>>>>] = IF rest = Missing THEN Append(P, contact) ELSE P
      /\ rest = contact \/ rest = Missing
  BY <1>2 DEF Filled, flags
<1>5. \A x \in Proc : Untouched(x)
  BY <1>4 DEF Untouched, Asking
<1>6. /\ R \in Seq(AnswerMsg) /\ C \in Seq(ContactMsg) /\ P \in Seq(ContactMsg)
      /\ ContactsRight(q, p, r) /\ PostRight(q, p, r)
  BY ChanTypes DEF ExchangeInv, ContentInv
<1>7. /\ IndicesTo(q, p)' = S /\ Asking(q)' /\ r = Rnums[call'[q]]
      /\ \A j : Asked(q, j)' = Asked(q, j)
      /\ \A j : Answers(q, j, p)' = Answers(q, j, p)
  BY <1>3, <1>4 DEF Asked, Answers, AnswerTo, IndicesTo, Indices, Asking
<1>8. /\ Cardinality(S) \in Nat
      /\ \A j \in S : Rank(j, S) \in Nat /\ Rank(j, S) > 0
      /\ \A j, k \in S : j < k => Rank(j, S) < Rank(k, S)
      /\ \A j, k \in S : Rank(j, S) = Rank(k, S) => j = k
      /\ S \in SUBSET (1 .. Len(contact_proc_list[q])) /\ Len(contact_proc_list[q]) \in Nat
  <2>1. /\ Cardinality(S) \in Nat
        /\ \A j \in S : Rank(j, S) \in 1 .. Cardinality(S)
        /\ \A j, k \in S : j < k => Rank(j, S) < Rank(k, S)
        /\ \A j, k \in S : Rank(j, S) = Rank(k, S) => j = k
    BY Ranks, Zenon DEF ExchangeInv
  <2>2. S \in SUBSET (1 .. Len(contact_proc_list[q])) /\ Len(contact_proc_list[q]) \in Nat
    BY IndicesAre DEF ExchangeInv
  <2> HIDE DEF S
  <2> QED
    BY <2>1, <2>2
<1>9. /\ Len(R) + Len(C) = Cardinality(S)
      /\ \A j \in S : IF Rank(j, S) <= Len(R)
                      THEN R[Rank(j, S)] \in Answers(q, j, p)
                      ELSE C[Rank(j, S) - Len(R)] = Asked(q, j)
  BY <1>3, <1>6, Zenon DEF ContactsRight
<1>10. answer \in Answers(q, i, p)
  BY <1>3, <1>4 DEF Answers, AnswerTo
<1>11. answer.rest = rest
  OBVIOUS
<1>12. pc[q] = "loop" /\ ~ responses_complete[q]
  BY <1>3 DEF Asking
<1> DEFINE L == {j \in S : Rank(j, S) <= Len(R) /\ R[Rank(j, S)].rest = Missing}
           R1 == chan'[<<p, q, <<"response", r>>>>]
           C1 == chan'[<<q, p, <<"contact", r>>>>]
           P1 == chan'[<<p, q, <<"post", r>>>>]
           L1 == {j \in S : Rank(j, S) <= Len(R1) /\ R1[Rank(j, S)].rest = Missing}
<1>13. Long(q, p) = L
  BY <1>3, <1>12 DEF Long
<1>14. Long(q, p)' = L1
  BY <1>3, <1>4, <1>7, <1>12 DEF Long
<1>15. /\ Len(P) = Cardinality(L)
       /\ \A j \in L : P[Rank(j, L)] = Asked(q, j)
  BY <1>3, <1>6, <1>12, <1>13, Zenon DEF PostRight
<1>16. R1 = Append(R, answer) /\ C1 = Tail(C)
       /\ P1 = IF rest = Missing THEN Append(P, contact) ELSE P
  BY <1>4
<1> HIDE DEF S, R, C, P, answer, R1, C1, P1
<1>17. /\ Len(R) \in Nat /\ Len(C) \in Nat \ {0}
       /\ Len(R1) = Len(R) + 1 /\ Len(C1) = Len(C) - 1
       /\ \A k \in 1 .. Len(R) : R1[k] = R[k]
       /\ R1[Len(R) + 1] = answer
       /\ \A k \in 1 .. Len(C1) : C1[k] = C[k + 1]
  BY <1>4, <1>6, <1>16 DEF C
<1>18. /\ Len(R1) + Len(C1) = Cardinality(S)
       /\ \A j \in S : IF Rank(j, S) <= Len(R1)
                       THEN R1[Rank(j, S)] \in Answers(q, j, p)
                       ELSE C1[Rank(j, S) - Len(R1)] = Asked(q, j)
  <2>1. Len(R1) + Len(C1) = Cardinality(S)
    BY <1>9, <1>17
  <2>2. ASSUME NEW j \in S, Rank(j, S) <= Len(R1)
        PROVE  R1[Rank(j, S)] \in Answers(q, j, p)
    <3>1. CASE Rank(j, S) <= Len(R)
      BY <3>1, <1>8, <1>9, <1>17
    <3>2. CASE Rank(j, S) = Len(R) + 1
      BY <3>2, <1>3, <1>8, <1>10, <1>17
    <3> QED
      BY <3>1, <3>2, <2>2, <1>8, <1>17
  <2>3. ASSUME NEW j \in S, ~ (Rank(j, S) <= Len(R1))
        PROVE  C1[Rank(j, S) - Len(R1)] = Asked(q, j)
    <3>1. C[Rank(j, S) - Len(R)] = Asked(q, j)
      BY <2>3, <1>8, <1>9, <1>17
    <3>2. Rank(j, S) <= Cardinality(S)
      BY Ranks DEF S, ExchangeInv
    <3>3. Rank(j, S) - Len(R1) \in 1 .. Len(C1)
      BY <2>1, <2>3, <3>2, <1>8, <1>17
    <3>4. C1[Rank(j, S) - Len(R1)] = C[(Rank(j, S) - Len(R1)) + 1]
      BY <3>3, <1>17
    <3>5. (Rank(j, S) - Len(R1)) + 1 = Rank(j, S) - Len(R)
      BY <1>8, <1>17
    <3> QED
      BY <3>1, <3>4, <3>5
  <2> QED
    BY <2>1, <2>2, <2>3
<1>19. ContactsRight(q, p, r)'
  BY <1>7, <1>18, Zenon DEF ContactsRight, S, R1, C1
<1>20. /\ Len(P1) = Cardinality(L1)
       /\ \A j \in L1 : P1[Rank(j, L1)] = Asked(q, j)
  <2>1. \A j \in S : j \in L1 <=> j \in L \/ (j = i /\ rest = Missing)
    <3>1. ASSUME NEW j \in S, Rank(j, S) <= Len(R)
          PROVE  j \in L1 <=> j \in L \/ (j = i /\ rest = Missing)
      BY <3>1, <1>3, <1>8, <1>17
    <3>2. ASSUME NEW j \in S, Rank(j, S) = Len(R) + 1
          PROVE  j \in L1 <=> j \in L \/ (j = i /\ rest = Missing)
      BY <3>2, <1>3, <1>8, <1>11, <1>17
    <3>3. ASSUME NEW j \in S, Rank(j, S) > Len(R) + 1
          PROVE  j \in L1 <=> j \in L \/ (j = i /\ rest = Missing)
      BY <3>3, <1>3, <1>8, <1>17
    <3> QED
      BY <3>1, <3>2, <3>3, <1>8, <1>17
  <2>2. CASE rest = Missing
    <3>1. L1 = L \cup {i}
      BY <2>1, <2>2, <1>3
    <3>2. \A j \in L : j < i
      BY <1>3, <1>8, <1>17
    <3>3. L \in SUBSET (1 .. Len(contact_proc_list[q])) /\ i \in 1 .. Len(contact_proc_list[q])
      BY <1>3, <1>8
    <3> HIDE DEF L, L1
    <3>4. /\ Cardinality(L \cup {i}) = Cardinality(L) + 1
          /\ Rank(i, L \cup {i}) = Cardinality(L) + 1
          /\ \A j \in L : Rank(j, L \cup {i}) = Rank(j, L)
      BY <3>2, <3>3, <1>8, RankAdd
    <3>5. Cardinality(L) \in Nat /\ \A j \in L : Rank(j, L) \in 1 .. Cardinality(L)
      BY <3>3, <1>8, RankIn
    <3>6. /\ Len(P1) = Len(P) + 1 /\ P1[Len(P) + 1] = contact
          /\ \A k \in 1 .. Len(P) : P1[k] = P[k]
      BY <2>2, <1>6, <1>16 DEF P
    <3>7. Len(P1) = Cardinality(L1)
      BY <3>1, <3>4, <3>6, <1>15
    <3>8. ASSUME NEW j \in L1 PROVE P1[Rank(j, L1)] = Asked(q, j)
      <4>1. CASE j \in L
        BY <4>1, <3>1, <3>4, <3>5, <3>6, <1>15
      <4>2. CASE j = i
        BY <4>2, <3>1, <3>4, <3>6, <1>3, <1>15
      <4> QED
        BY <4>1, <4>2, <3>1
    <3> QED
      BY <3>7, <3>8
  <2>3. CASE rest # Missing
    <3>1. L1 = L
      BY <2>1, <2>3
    <3> QED
      BY <3>1, <2>3, <1>15, <1>16
  <2> QED
    BY <2>2, <2>3
<1>21. PostRight(q, p, r)'
  <2>1. pc'[q] = "loop" /\ r = Rnums[call'[q]]
    BY <1>3, <1>4, <1>12
  <2> QED
    BY <2>1, <1>7, <1>14, <1>20 DEF PostRight, P1
<1>22. ASSUME NEW x \in Proc, NEW y \in Proc, NEW s \in RnumSet
       PROVE  ContactsRight(x, y, s)' /\ PostRight(x, y, s)'
  <2>1. CASE x = q /\ y = p /\ s = r
    BY <2>1, <1>19, <1>21
  <2>2. CASE ~ (x = q /\ y = p /\ s = r)
    <3>1. {"contact", "post", "response"} \subseteq Kinds
      BY DEF Kinds
    <3>2. /\ chan'[<<y, x, <<"response", s>>>>] = chan[<<y, x, <<"response", s>>>>]
          /\ chan'[<<x, y, <<"contact", s>>>>] = chan[<<x, y, <<"contact", s>>>>]
          /\ chan'[<<y, x, <<"post", s>>>>] = chan[<<y, x, <<"post", s>>>>]
      BY <2>2, <3>1, <1>2 DEF Filled
    <3>3. ContactsRight(x, y, s) /\ PostRight(x, y, s)
      BY DEF ExchangeInv, ContentInv
    <3> QED
      BY <3>2, <3>3, <1>5, ContentFrame
  <2> QED
    BY <2>1, <2>2
<1>23. ASSUME NEW x \in Proc PROVE ResponsesRight(x)'
  <2>1. ResponsesRight(x) /\ Untouched(x) /\ (pc'[x] = "out" => pc[x] = "out")
    BY <1>4, <1>5 DEF ExchangeInv, ContentInv
  <2> QED
    BY <2>1, ResponsesFrame
<1> QED
  BY <1>22, <1>23 DEF ContentInv, RnumSet, Call

\* A process begins with empty channels and fills those of its contacts.
LEMMA BegunContent ==
  ASSUME ExchangeInv, NEW p \in Proc, NEW list \in Seq(Proc), Begun(p, list)
  PROVE  ContentInv'
<1>1. /\ Len(list) <= MaxContacts /\ pc[p] = "out" /\ call[p] + 1 \in Call
      /\ call' = [call EXCEPT ![p] = @ + 1]
      /\ contact_proc_list' = [contact_proc_list EXCEPT ![p] = list]
      /\ responses_complete' = [responses_complete EXCEPT ![p] = (list = <<>>)]
      /\ responses' = [responses EXCEPT ![p] = <<>>]
  BY DEF Begun
<1>2. /\ call'[p] = call[p] + 1 /\ contact_proc_list'[p] = list
      /\ responses_complete'[p] = (list = <<>>) /\ responses'[p] = <<>>
      /\ pc'[p] \in {"loop", "post", "crash"}
      /\ list # <<>> => pc'[p] = "loop"
  <2>1. pc'[p] \in {"loop", "post", "crash"} /\ (list # <<>> => pc'[p] = "loop")
    BY DEF Begun, Uninitialized, ExchangeInv, TypeInv
  <2> QED
    BY <2>1, <1>1 DEF ExchangeInv, TypeInv
<1>3. \A a, b \in Proc, kind \in Kinds, r \in RnumSet :
        a # p \/ kind # "contact" => chan'[<<a, b, <<kind, r>>>>] = chan[<<a, b, <<kind, r>>>>]
  BY DEF Begun
<1>4. {"contact", "post", "response"} \subseteq Kinds
  BY DEF Kinds
<1>5. ASSUME NEW q \in Proc, q # p PROVE Untouched(q) /\ pc'[q] = pc[q]
  <2>1. pc'[q] = pc[q]
    BY <1>5 DEF Begun, ExchangeInv, TypeInv
  <2> QED
    BY <2>1, <1>1, <1>5 DEF Untouched, Asking, ExchangeInv, TypeInv
<1>6. ASSUME NEW q \in Proc, NEW r \in RnumSet
      PROVE  ContactsRight(p, q, r)' /\ PostRight(p, q, r)'
  <2>1. ContactsRight(p, q, r) /\ PostRight(p, q, r)
    BY DEF ExchangeInv, ContentInv
  <2>2. /\ chan[<<q, p, <<"response", r>>>>] = <<>>
        /\ chan[<<p, q, <<"contact", r>>>>] = <<>>
        /\ chan[<<q, p, <<"post", r>>>>] = <<>>
    BY <2>1, <1>1 DEF ContactsRight, PostRight, Asking
  <2> DEFINE S == {i \in DOMAIN list : list[i] = q}
             C == ContactsTo(p, q, list)
  <2>3. /\ chan'[<<q, p, <<"response", r>>>>] = <<>>
        /\ chan'[<<q, p, <<"post", r>>>>] = <<>>
    BY <2>2, <1>3, <1>4
  <2>4. IndicesTo(p, q)' = S
    BY <1>2 DEF IndicesTo, Indices
  <2>5. /\ S \in SUBSET (1 .. Len(list)) /\ Len(list) \in Nat
        /\ C \in Seq(ContactMsg) /\ Len(C) = Cardinality(S)
        /\ \A i \in S : C[Rank(i, S)] = [in |-> call[p] + 1, nr |-> i]
    <3>1. Len(list) \in Nat
      OBVIOUS
    <3>2. Len(list) <= MaxContacts /\ call[p] + 1 \in Call
      BY <1>1
    <3>3. /\ S \in SUBSET (1 .. Len(list))
          /\ C \in Seq(ContactMsg) /\ Len(C) = Cardinality(S)
          /\ \A i \in S : C[Rank(i, S)] = [in |-> call[p] + 1, nr |-> i]
      BY <3>2, ContactsToRight, Zenon
    <3> QED
      BY <3>1, <3>3, Zenon
  <2>6. chan'[<<p, q, <<"contact", r>>>>] = IF r = Rnums[call'[p]] THEN C ELSE <<>>
    <3>1. chan'[<<p, q, <<"contact", r>>>>] =
            IF r = Rnums[call[p] + 1] THEN <<>> \o C ELSE <<>>
      <4>1. "contact" \in Kinds
        BY <1>4
      <4>2. chan'[<<p, q, <<"contact", r>>>>] =
              IF p = p /\ "contact" = "contact" /\ r = Rnums[call[p] + 1]
              THEN chan[<<p, q, <<"contact", r>>>>] \o C
              ELSE chan[<<p, q, <<"contact", r>>>>]
        BY <4>1, Zenon DEF Begun
      <4> HIDE DEF C
      <4> QED
        BY <4>2, <2>2
    <3>2. <<>> \o C = C
      BY <2>5
    <3> QED
      BY <3>1, <3>2, <1>2
  <2>7. \A i : Asked(p, i)' = [in |-> call[p] + 1, nr |-> i]
    BY <1>2 DEF Asked
  <2> HIDE DEF S, C
  <2>8. Cardinality(S) \in Nat /\ \A i \in S : Rank(i, S) \in 1 .. Cardinality(S)
    BY <2>5, RankIn
  <2>9. ASSUME list = <<>> PROVE S = {} /\ C = <<>>
    <3>1. S = {}
      BY <2>5, <2>9
    <3>2. Len(C) = 0
      BY <3>1, <2>5, FS_EmptySet
    <3> QED
      BY <3>1, <3>2, <2>5
  <2>10. Asking(p)' <=> list # <<>>
    BY <1>2 DEF Asking
  <2>11. ContactsRight(p, q, r)'
    <3>1. CASE list # <<>> /\ r = Rnums[call'[p]]
      <4>1. 0 + Len(C) = Cardinality(S)
        BY <2>5, <2>8
      <4>2. \A i \in S : ~ (Rank(i, S) <= 0) /\ C[Rank(i, S) - 0] = Asked(p, i)'
        BY <2>5, <2>7, <2>8
      <4>3. chan'[<<p, q, <<"contact", r>>>>] = C /\ Len(<<>>) = 0
        BY <2>6, <3>1
      <4> QED
        BY <4>1, <4>2, <4>3, <2>3, <2>4, <2>10, <3>1 DEF ContactsRight
    <3>2. CASE ~ (list # <<>> /\ r = Rnums[call'[p]])
      <4>1. chan'[<<p, q, <<"contact", r>>>>] = <<>>
        BY <2>6, <2>9, <3>2
      <4> QED
        BY <4>1, <2>3, <2>10, <3>2 DEF ContactsRight
    <3> QED
      BY <3>1, <3>2
  <2>12. PostRight(p, q, r)'
    <3>1. r = Rnums[call'[p]] => Long(p, q)' = {}
      <4>1. CASE list = <<>>
        BY <2>4, <2>9, <4>1 DEF Long
      <4>2. CASE list # <<>>
        <5>1. ~ responses_complete'[p]
          BY <1>2, <4>2
        <5>2. \A i \in S : ~ (Rank(i, S) <= Len(<<>>))
          BY <2>8
        <5> QED
          BY <5>1, <5>2, <2>3, <2>4 DEF Long
      <4> QED
        BY <4>1, <4>2
    <3>2. Cardinality({}) = 0 /\ Len(<<>>) = 0
      BY FS_EmptySet
    <3> QED
      BY <3>1, <3>2, <2>3 DEF PostRight
  <2> QED
    BY <2>11, <2>12
<1>7. ASSUME NEW q \in Proc, NEW x \in Proc, NEW r \in RnumSet, q # p
      PROVE  ContactsRight(q, x, r)' /\ PostRight(q, x, r)'
  <2>1. /\ chan'[<<x, q, <<"response", r>>>>] = chan[<<x, q, <<"response", r>>>>]
        /\ chan'[<<q, x, <<"contact", r>>>>] = chan[<<q, x, <<"contact", r>>>>]
        /\ chan'[<<x, q, <<"post", r>>>>] = chan[<<x, q, <<"post", r>>>>]
    BY <1>3, <1>4, <1>7
  <2>2. ContactsRight(q, x, r) /\ PostRight(q, x, r)
    BY DEF ExchangeInv, ContentInv
  <2> QED
    BY <2>1, <2>2, <1>5, <1>7, ContentFrame
<1>8. ASSUME NEW q \in Proc PROVE ResponsesRight(q)'
  <2>1. CASE q # p
    <3>1. ResponsesRight(q)
      BY DEF ExchangeInv, ContentInv
    <3> QED
      BY <3>1, <2>1, <1>5, ResponsesFrame
  <2>2. CASE q = p
    <3>1. Indices(p)' = DOMAIN list
      BY <1>2 DEF Indices
    <3>2. list = <<>> => DOMAIN list = {} /\ Len(list) = 0
      OBVIOUS
    <3> QED
      BY <3>1, <3>2, <2>2, <1>2 DEF ResponsesRight
  <2> QED
    BY <2>1, <2>2
<1> QED
  BY <1>6, <1>7, <1>8 DEF ContentInv, RnumSet, Call

\* All answers of q to the contacts of p are there, in the order of the contacts.
LEMMA AllAnswered ==
  ASSUME ExchangeInv, NEW p \in Proc, NEW q \in Proc, Asking(p),
         Arrived(p, Indices(p), "response")
  PROVE  LET S == IndicesTo(p, q)
             R == chan[<<q, p, <<"response", Rnums[call[p]]>>>>]
         IN  /\ R \in Seq(AnswerMsg) /\ Len(R) = Cardinality(S)
             /\ chan[<<p, q, <<"contact", Rnums[call[p]]>>>>] = <<>>
             /\ \A i \in S : Rank(i, S) <= Len(R) /\ Rank(i, S) \in 1 .. Len(R)
                             /\ R[Rank(i, S)] \in Answers(p, i, q)
<1>1. PICK r \in RnumSet : r = Rnums[call[p]]
  BY Places, CallType DEF Asking, ExchangeInv
<1> DEFINE S == IndicesTo(p, q)
           R == chan[<<q, p, <<"response", r>>>>]
           C == chan[<<p, q, <<"contact", r>>>>]
<1>2. R \in Seq(AnswerMsg) /\ C \in Seq(ContactMsg)
  BY ChanTypes DEF ExchangeInv
<1>3. Len(R) >= Cardinality(S)
  BY <1>1 DEF Arrived, Tag, IndicesTo
<1>4. ContactsRight(p, q, r)
  BY DEF ExchangeInv, ContentInv
<1>5. /\ Len(R) + Len(C) = Cardinality(S)
      /\ \A i \in S : IF Rank(i, S) <= Len(R)
                      THEN R[Rank(i, S)] \in Answers(p, i, q)
                      ELSE C[Rank(i, S) - Len(R)] = Asked(p, i)
  BY <1>1, <1>4, Zenon DEF ContactsRight
<1>6. Cardinality(S) \in Nat /\ \A i \in S : Rank(i, S) \in 1 .. Cardinality(S)
  BY Ranks, Zenon DEF ExchangeInv
<1> HIDE DEF S, R, C
<1>7. Len(R) = Cardinality(S) /\ C = <<>>
  BY <1>2, <1>3, <1>5, <1>6
<1>8. \A i \in S : Rank(i, S) <= Len(R) /\ Rank(i, S) \in 1 .. Len(R)
                   /\ R[Rank(i, S)] \in Answers(p, i, q)
  BY <1>5, <1>6, <1>7
<1> QED
  BY <1>1, <1>2, <1>7, <1>8, Zenon DEF S, R, C

\* The response taken for the contact i is the one to it.
LEMMA ResponseFor ==
  ASSUME ExchangeInv, NEW p \in Proc, Asking(p), Arrived(p, Indices(p), "response"),
         NEW i \in Indices(p)
  PROVE  LET q == contact_proc_list[p][i]
             S == IndicesTo(p, q)
         IN  /\ q \in Proc /\ i \in S
             /\ Matching(p, i, Indices(p), "response") =
                  chan[<<q, p, <<"response", Rnums[call[p]]>>>>][Rank(i, S)]
             /\ Matching(p, i, Indices(p), "response") \in AnswerMsg
             /\ Matching(p, i, Indices(p), "response") \in Answers(p, i, q)
<1> DEFINE q == contact_proc_list[p][i]
           S == IndicesTo(p, q)
           R == chan[<<q, p, <<"response", Rnums[call[p]]>>>>]
<1>1. q \in Proc
  <2>1. contact_proc_list[p] \in Seq(Proc) /\ i \in 1 .. Len(contact_proc_list[p])
    BY IndicesAre DEF ExchangeInv
  <2> QED
    BY <2>1
<1>2. i \in S
  BY DEF IndicesTo
<1>3. Matching(p, i, Indices(p), "response") = R[Rank(i, S)]
  BY DEF Matching, Tag, IndicesTo
<1>4. /\ R \in Seq(AnswerMsg)
      /\ \A j \in S : Rank(j, S) \in 1 .. Len(R) /\ R[Rank(j, S)] \in Answers(p, j, q)
  BY <1>1, AllAnswered, Zenon
<1> HIDE DEF S, R
<1>5. R[Rank(i, S)] \in AnswerMsg
  BY <1>2, <1>4
<1> QED
  BY <1>1, <1>2, <1>3, <1>4, <1>5, Zenon DEF S, R

LEMMA NothingAfter ==
  ASSUME NEW T, NEW s \in Seq(T)
  PROVE  SubSeq(s, Len(s) + 1, Len(s)) = <<>>
<1>1. Len(s) \in Nat
  OBVIOUS
<1>2. Len(s) + 1 > Len(s)
  BY <1>1
<1> QED
  BY <1>1, <1>2

LEMMA ResponsesCompleteContent ==
  ASSUME ExchangeInv, NEW p \in Proc, ResponsesComplete(p)
  PROVE  ContentInv' /\ responses' \in [Proc -> Seq(AnswerMsg)]
<1> DEFINE taken == [i \in Indices(p) |-> Matching(p, i, Indices(p), "response")]
           n == Len(contact_proc_list[p])
<1>1. /\ pc[p] = "loop" /\ ~ responses_complete[p]
      /\ Arrived(p, Indices(p), "response")
      /\ responses_complete' = [responses_complete EXCEPT ![p] = TRUE]
      /\ responses' = [responses EXCEPT ![p] = taken]
      /\ chan' = Received(p, Indices(p), "response")
      /\ pc' = [pc EXCEPT ![p] = IF NumProcs = 1 THEN "post" ELSE "loop"]
      /\ UNCHANGED <<call, contact_proc_list>>
  BY DEF ResponsesComplete, Goto
<1>2. /\ pc'[p] \in {"loop", "post"} /\ responses_complete'[p] /\ responses'[p] = taken
      /\ \A q \in Proc : q # p => Untouched(q) /\ pc'[q] = pc[q]
  <2>1. /\ pc'[p] \in {"loop", "post"} /\ responses_complete'[p] /\ responses'[p] = taken
    BY <1>1 DEF ExchangeInv, TypeInv
  <2>2. ASSUME NEW q \in Proc, q # p PROVE Untouched(q) /\ pc'[q] = pc[q]
    BY <1>1, <2>2 DEF Untouched, Asking, ExchangeInv, TypeInv
  <2> QED
    BY <2>1, <2>2
<1>3. Asking(p)
  BY <1>1 DEF Asking
<1>4. PICK r \in RnumSet : r = Rnums[call[p]]
  BY <1>1, Places, CallType DEF ExchangeInv
<1>5. Consumed(p, Indices(p), "response")
  <2>1. call[p] \in Call
    BY <1>1, Places DEF ExchangeInv
  <2> QED
    BY <2>1, <1>1, ReceivedIs, Zenon DEF ExchangeInv
<1>6. \A q \in Proc : Wanted(p, q, Indices(p)) = Cardinality(IndicesTo(p, q))
  BY DEF Wanted, IndicesTo
<1>7. n \in Nat /\ Indices(p) = 1 .. n /\ \A q \in Proc : IndicesTo(p, q) \in SUBSET Indices(p)
  BY IndicesAre DEF ExchangeInv
<1>8. ASSUME NEW i \in Indices(p)
      PROVE  /\ contact_proc_list[p][i] \in Proc
             /\ i \in IndicesTo(p, contact_proc_list[p][i])
             /\ taken[i] \in AnswerMsg
             /\ taken[i] \in Answers(p, i, contact_proc_list[p][i])
             /\ taken[i] = chan[<<contact_proc_list[p][i], p, <<"response", r>>>>]
                             [Rank(i, IndicesTo(p, contact_proc_list[p][i]))]
  <2> HIDE DEF taken
  <2>1. taken[i] = Matching(p, i, Indices(p), "response")
    BY DEF taken
  <2> QED
    BY <2>1, <1>1, <1>3, <1>4, ResponseFor
<1>9. taken \in Seq(AnswerMsg) /\ Len(taken) = n
  <2>1. taken = [i \in 1 .. n |-> taken[i]]
    BY <1>7
  <2>2. \A i \in 1 .. n : taken[i] \in AnswerMsg
    BY <1>7, <1>8
  <2> HIDE DEF taken, n
  <2> QED
    BY <2>1, <2>2, <1>7
<1> HIDE DEF taken
<1>10. {"contact", "post", "response"} \subseteq Kinds
  BY DEF Kinds
<1>11. /\ \A i : Asked(p, i)' = Asked(p, i)
       /\ \A i, q : Answers(p, i, q)' = Answers(p, i, q)
       /\ Indices(p)' = Indices(p) /\ \A q : IndicesTo(p, q)' = IndicesTo(p, q)
  BY <1>1 DEF Asked, Answers, AnswerTo, Indices, IndicesTo
<1>12. ASSUME NEW q \in Proc, NEW s \in RnumSet
       PROVE  ContactsRight(p, q, s)' /\ PostRight(p, q, s)'
  <2> DEFINE S == IndicesTo(p, q)
             R == chan[<<q, p, <<"response", r>>>>]
  <2>1. /\ R \in Seq(AnswerMsg) /\ Len(R) = Cardinality(S)
        /\ chan[<<p, q, <<"contact", r>>>>] = <<>>
        /\ \A i \in S : Rank(i, S) <= Len(R)
    <3>1. /\ R \in Seq(AnswerMsg) /\ Len(R) = Cardinality(S)
          /\ chan[<<p, q, <<"contact", r>>>>] = <<>>
          /\ \A i \in S : Rank(i, S) <= Len(R) /\ Rank(i, S) \in 1 .. Len(R)
                          /\ R[Rank(i, S)] \in Answers(p, i, q)
      BY <1>1, <1>3, <1>4, AllAnswered, Zenon
    <3> QED
      BY <3>1, Zenon
  <2>2. /\ ContactsRight(p, q, s) /\ PostRight(p, q, s)
    BY DEF ExchangeInv, ContentInv
  <2>3. s # r => chan[<<q, p, <<"response", s>>>>] = <<>>
                 /\ chan[<<p, q, <<"contact", s>>>>] = <<>>
    BY <2>2, <1>4 DEF ContactsRight
  <2>4. /\ chan'[<<p, q, <<"contact", s>>>>] = chan[<<p, q, <<"contact", s>>>>]
        /\ chan'[<<q, p, <<"post", s>>>>] = chan[<<q, p, <<"post", s>>>>]
    BY <1>5, <1>10 DEF Consumed
  <2>5. chan'[<<q, p, <<"response", s>>>>] = <<>>
    <3>1. CASE s = r
      <4>1. chan'[<<q, p, <<"response", s>>>>] = SubSeq(R, Cardinality(S) + 1, Len(R))
        BY <3>1, <1>4, <1>5, <1>6, <1>10 DEF Consumed
      <4> QED
        BY <4>1, <2>1, NothingAfter
    <3>2. CASE s # r
      BY <3>2, <2>3, <1>4, <1>5, <1>10 DEF Consumed
    <3> QED
      BY <3>1, <3>2
  <2>6. ~ Asking(p)'
    BY <1>2 DEF Asking
  <2>7. chan'[<<p, q, <<"contact", s>>>>] = <<>>
    BY <2>1, <2>3, <2>4
  <2>8. ContactsRight(p, q, s)'
    BY <2>5, <2>6, <2>7 DEF ContactsRight
  <2>9. Long(p, q)' = Long(p, q)
    <3>1. \A i \in S : i \in Indices(p) /\ contact_proc_list[p][i] = q
      BY DEF IndicesTo
    <3>2. \A i \in S : taken[i] = R[Rank(i, S)]
      BY <3>1, <1>8
    <3>3. Long(p, q)' = {i \in S : taken[i].rest = Missing}
      BY <1>2, <1>11 DEF Long
    <3>4. Long(p, q) = {i \in S : Rank(i, S) <= Len(R) /\ R[Rank(i, S)].rest = Missing}
      BY <1>1, <1>4 DEF Long
    <3> HIDE DEF S, R
    <3>5. \A i \in S : taken[i].rest = Missing
                       <=> Rank(i, S) <= Len(R) /\ R[Rank(i, S)].rest = Missing
      BY <3>2, <2>1
    <3> QED
      BY <3>3, <3>4, <3>5
  <2>10. PostRight(p, q, s)'
    BY <2>2, <2>4, <2>9, <1>1, <1>2, <1>11 DEF PostRight
  <2> QED
    BY <2>8, <2>10
<1>13. ASSUME NEW q \in Proc, NEW x \in Proc, NEW s \in RnumSet, q # p
       PROVE  ContactsRight(q, x, s)' /\ PostRight(q, x, s)'
  <2>1. /\ chan'[<<x, q, <<"response", s>>>>] = chan[<<x, q, <<"response", s>>>>]
        /\ chan'[<<q, x, <<"contact", s>>>>] = chan[<<q, x, <<"contact", s>>>>]
        /\ chan'[<<x, q, <<"post", s>>>>] = chan[<<x, q, <<"post", s>>>>]
    BY <1>5, <1>10, <1>13 DEF Consumed
  <2>2. ContactsRight(q, x, s) /\ PostRight(q, x, s)
    BY DEF ExchangeInv, ContentInv
  <2> QED
    BY <2>1, <2>2, <1>2, <1>13, ContentFrame
<1>14. ASSUME NEW q \in Proc PROVE ResponsesRight(q)'
  <2>1. CASE q # p
    <3>1. ResponsesRight(q)
      BY DEF ExchangeInv, ContentInv
    <3> QED
      BY <3>1, <2>1, <1>2, ResponsesFrame
  <2>2. CASE q = p
    <3>1. pc'[p] # "out" /\ contact_proc_list'[p] = contact_proc_list[p]
      BY <1>1, <1>2
    <3>2. Len(responses'[p]) = Len(contact_proc_list'[p])
      BY <3>1, <1>2, <1>9
    <3>3. \A i \in Indices(p) : responses'[p][i] \in Answers(p, i, contact_proc_list[p][i])
      BY <1>2, <1>8
    <3>4. \A i : Answers(p, i, contact_proc_list[p][i])' = Answers(p, i, contact_proc_list[p][i])
      BY <1>1 DEF Answers, AnswerTo, Asked
    <3>5. Indices(p)' = Indices(p)
      BY <1>11
    <3> QED
      BY <3>1, <3>2, <3>3, <3>4, <3>5, <2>2 DEF ResponsesRight
  <2> QED
    BY <2>1, <2>2
<1>15. responses' \in [Proc -> Seq(AnswerMsg)]
  BY <1>1, <1>9 DEF ExchangeInv, TypeInv
<1> QED
  BY <1>12, <1>13, <1>14, <1>15 DEF ContentInv, RnumSet, Call

\* Post processing: the second parts are there in the order of the contacts.
LEMMA PostProcessContent ==
  ASSUME ExchangeInv, NEW p \in Proc, PostProcess(p)
  PROVE  ContentInv' /\ responses' \in [Proc -> Seq(AnswerMsg)]
<1> DEFINE n == Len(contact_proc_list[p])
           LO == LongOnes(p)
           part(i) == Matching(p, i, LO, "post")
           whole(i) == [responses[p][i] EXCEPT !.rest = part(i)]
           made == [i \in Indices(p) |-> IF i \in LO THEN whole(i) ELSE responses[p][i]]
<1>1. /\ pc[p] = "post"
      /\ chan' = Received(p, LongOnes(p), "post")
      /\ responses' = [responses EXCEPT ![p] = made]
      /\ pc' = [pc EXCEPT ![p] = "out"]
      /\ UNCHANGED <<call, contact_proc_list, responses_complete, children_complete>>
  BY Zenon DEF PostProcess, Goto, flags
<1>2. PICK r \in RnumSet : r = Rnums[call[p]]
  BY <1>1, Places, CallType DEF ExchangeInv
<1>3. Consumed(p, LongOnes(p), "post")
  <2>1. call[p] \in Call
    BY <1>1, Places DEF ExchangeInv
  <2> QED
    BY <2>1, <1>1, ReceivedIs, Zenon DEF ExchangeInv
<1>4. responses_complete[p]
  BY <1>1 DEF ExchangeInv, PhaseInv
<1>5. n \in Nat /\ Indices(p) = 1 .. n /\ n <= MaxContacts
      /\ \A q \in Proc : IndicesTo(p, q) \in SUBSET Indices(p)
  BY IndicesAre DEF ExchangeInv
<1>6. /\ Len(responses[p]) = n
      /\ \A i \in Indices(p) : responses[p][i] \in Answers(p, i, contact_proc_list[p][i])
  BY <1>4 DEF ResponsesRight, ExchangeInv, ContentInv
<1>7. ASSUME NEW q \in Proc
      PROVE  /\ {i \in LO : contact_proc_list[p][i] = q} = Long(p, q)
             /\ Wanted(p, q, LongOnes(p)) = Cardinality(Long(p, q))
  <2>1. {i \in LO : contact_proc_list[p][i] = q} = Long(p, q)
    BY <1>4 DEF LongOnes, Long, IndicesTo
  <2> QED
    BY <2>1 DEF Wanted
<1>8. ASSUME NEW q \in Proc
      PROVE  LET P == chan[<<q, p, <<"post", r>>>>] IN
             /\ P \in Seq(ContactMsg) /\ Len(P) = Cardinality(Long(p, q))
             /\ \A i \in Long(p, q) : P[Rank(i, Long(p, q))] = Asked(p, i)
  <2>1. chan[<<q, p, <<"post", r>>>>] \in Seq(ContactMsg)
    BY ChanTypes DEF ExchangeInv
  <2>2. PostRight(p, q, r)
    BY DEF ExchangeInv, ContentInv
  <2> QED
    BY <2>1, <2>2, <1>1, <1>2 DEF PostRight
<1>9. ASSUME NEW i \in Indices(p) PROVE contact_proc_list[p][i] \in Proc
  <2>1. contact_proc_list[p] \in Seq(Proc) /\ i \in 1 .. Len(contact_proc_list[p])
    BY IndicesAre DEF ExchangeInv
  <2> QED
    BY <2>1
<1>10. ASSUME NEW i \in LO PROVE part(i) = Asked(p, i)
  <2> DEFINE q == contact_proc_list[p][i]
  <2>1. q \in Proc
    BY <1>9 DEF LongOnes
  <2>2. i \in Long(p, q)
    BY <2>1, <1>7
  <2>3. part(i) = chan[<<q, p, <<"post", r>>>>][Rank(i, Long(p, q))]
    BY <2>1, <1>2, <1>7 DEF Matching, Tag
  <2> HIDE DEF q, part
  <2> QED
    BY <2>1, <2>2, <2>3, <1>8
<1>11. ASSUME NEW i \in Indices(p)
       PROVE  /\ made[i] \in Answers(p, i, contact_proc_list[p][i])
              /\ made[i].rest = Asked(p, i)
              /\ made[i] \in AnswerMsg
  <2> DEFINE q == contact_proc_list[p][i]
             answer == responses[p][i]
  <2>1. answer = AnswerTo(p, i, q, Asked(p, i)) \/ answer = AnswerTo(p, i, q, Missing)
    BY <1>6 DEF Answers
  <2>2. i \in LO <=> answer.rest = Missing
    BY DEF LongOnes
  <2>3. made[i] = AnswerTo(p, i, q, Asked(p, i))
    <3> HIDE DEF answer, part
    <3>1. CASE i \in LO
      <4>1. made[i] = [answer EXCEPT !.rest = part(i)]
        BY <3>1 DEF answer
      <4>2. made[i] = [answer EXCEPT !.rest = Asked(p, i)]
        BY <3>1, <4>1, <1>10
      <4> HIDE DEF made, q
      <4> QED
        BY <4>2, <2>1 DEF AnswerTo
    <3>2. CASE i \notin LO
      <4>1. made[i] = answer /\ answer.rest # Missing
        BY <3>2, <2>2 DEF answer
      <4>2. AnswerTo(p, i, q, Missing).rest = Missing
        BY DEF AnswerTo
      <4> HIDE DEF made, q
      <4> QED
        BY <4>1, <4>2, <2>1
    <3> QED
      BY <3>1, <3>2
  <2> HIDE DEF made
  <2>4. AnswerTo(p, i, q, Asked(p, i)).rest = Asked(p, i)
    BY DEF AnswerTo
  <2>5. Asked(p, i) \in ContactMsg
    <3>1. call[p] \in Call
      BY <1>1, Places DEF ExchangeInv
    <3>2. i \in 1 .. MaxContacts
      BY <1>5, ExchangeAssumption
    <3> QED
      BY <3>1, <3>2 DEF Asked, ContactMsg
  <2>6. AnswerTo(p, i, q, Asked(p, i)) \in AnswerMsg
    <3>1. call[p] \in Call /\ q \in Proc
      BY <1>1, <1>9, Places DEF ExchangeInv
    <3> QED
      BY <2>5, <3>1 DEF AnswerTo, AnswerMsg
  <2> QED
    BY <2>3, <2>4, <2>6 DEF Answers
<1>12. made \in Seq(AnswerMsg) /\ Len(made) = n /\ DOMAIN made = Indices(p)
  <2>1. DOMAIN made = 1 .. n
    BY <1>5
  <2>2. \A i \in 1 .. n : made[i] \in AnswerMsg
    BY <1>5, <1>11
  <2>3. made = [i \in 1 .. n |-> made[i]]
    BY <1>5
  <2> HIDE DEF made
  <2> QED
    BY <2>1, <2>2, <2>3, <1>5
<1> HIDE DEF made, LO
<1>13. /\ pc'[p] = "out" /\ responses'[p] = made
       /\ \A q \in Proc : q # p => Untouched(q) /\ pc'[q] = pc[q]
  <2>1. pc'[p] = "out" /\ responses'[p] = made
    BY <1>1 DEF ExchangeInv, TypeInv
  <2>2. ASSUME NEW q \in Proc, q # p PROVE Untouched(q) /\ pc'[q] = pc[q]
    BY <1>1, <2>2 DEF Untouched, Asking, ExchangeInv, TypeInv
  <2> QED
    BY <2>1, <2>2
<1>14. {"contact", "post", "response"} \subseteq Kinds
  BY DEF Kinds
<1>15. /\ \A i : Asked(p, i)' = Asked(p, i)
       /\ \A i, q : Answers(p, i, q)' = Answers(p, i, q)
       /\ Indices(p)' = Indices(p)
  BY <1>1 DEF Asked, Answers, AnswerTo, Indices
<1>16. ASSUME NEW q \in Proc, NEW s \in RnumSet
       PROVE  ContactsRight(p, q, s)' /\ PostRight(p, q, s)'
  <2>1. ContactsRight(p, q, s) /\ PostRight(p, q, s)
    BY DEF ExchangeInv, ContentInv
  <2>2. /\ chan[<<q, p, <<"response", s>>>>] = <<>>
        /\ chan[<<p, q, <<"contact", s>>>>] = <<>>
    BY <2>1, <1>1 DEF ContactsRight, Asking
  <2>3. /\ chan'[<<q, p, <<"response", s>>>>] = <<>>
        /\ chan'[<<p, q, <<"contact", s>>>>] = <<>>
    BY <2>2, <1>3, <1>14 DEF Consumed
  <2>4. chan'[<<q, p, <<"post", s>>>>] = <<>>
    <3>1. CASE s = r
      <4> DEFINE P == chan[<<q, p, <<"post", r>>>>]
      <4>1. P \in Seq(ContactMsg) /\ Len(P) = Cardinality(Long(p, q))
        BY <1>8
      <4>2. chan'[<<q, p, <<"post", s>>>>] = SubSeq(P, Cardinality(Long(p, q)) + 1, Len(P))
        BY <3>1, <1>2, <1>3, <1>7, <1>14 DEF Consumed
      <4> QED
        BY <4>1, <4>2, NothingAfter
    <3>2. CASE s # r
      <4>1. chan[<<q, p, <<"post", s>>>>] = <<>>
        BY <3>2, <2>1, <1>2 DEF PostRight
      <4> QED
        BY <3>2, <4>1, <1>2, <1>3, <1>14 DEF Consumed
    <3> QED
      BY <3>1, <3>2
  <2>5. ~ Asking(p)'
    BY <1>13 DEF Asking
  <2> QED
    BY <2>3, <2>4, <2>5, <1>13 DEF ContactsRight, PostRight
<1>17. ASSUME NEW q \in Proc, NEW x \in Proc, NEW s \in RnumSet, q # p
       PROVE  ContactsRight(q, x, s)' /\ PostRight(q, x, s)'
  <2>1. /\ chan'[<<x, q, <<"response", s>>>>] = chan[<<x, q, <<"response", s>>>>]
        /\ chan'[<<q, x, <<"contact", s>>>>] = chan[<<q, x, <<"contact", s>>>>]
        /\ chan'[<<x, q, <<"post", s>>>>] = chan[<<x, q, <<"post", s>>>>]
    BY <1>3, <1>14, <1>17 DEF Consumed
  <2>2. ContactsRight(q, x, s) /\ PostRight(q, x, s)
    BY DEF ExchangeInv, ContentInv
  <2> QED
    BY <2>1, <2>2, <1>13, <1>17, ContentFrame
<1>18. ASSUME NEW q \in Proc PROVE ResponsesRight(q)'
  <2>1. CASE q # p
    <3>1. ResponsesRight(q)
      BY DEF ExchangeInv, ContentInv
    <3> QED
      BY <3>1, <2>1, <1>13, ResponsesFrame
  <2>2. CASE q = p
    BY <2>2, <1>1, <1>11, <1>12, <1>13, <1>15 DEF ResponsesRight
  <2> QED
    BY <2>1, <2>2
<1>19. responses' \in [Proc -> Seq(AnswerMsg)]
  BY <1>1, <1>12 DEF ExchangeInv, TypeInv
<1> QED
  BY <1>16, <1>17, <1>18, <1>19 DEF ContentInv, RnumSet, Call

-----------------------------------------------------------------------------
(* Every action keeps the invariant. *)

LEMMA TermTyped ==
  ASSUME TermInv'
  PROVE  \A a, b \in Proc, r \in RnumSet :
           chan'[<<a, b, <<"term", r>>>>] \in Seq(Carried("term"))
<1>1. <<>> \in Seq({"term"}) /\ <<"term">> \in Seq({"term"})
  OBVIOUS
<1>2. ASSUME NEW a \in Proc, NEW b \in Proc, NEW r \in RnumSet
      PROVE  chan'[<<a, b, <<"term", r>>>>] \in {<<>>, <<"term">>}
  BY DEF TermInv, RnumSet, Call
<1> QED
  BY <1>1, <1>2 DEF Carried

\* The messages that are not of the sweep.
ContentKinds == {"contact", "post", "response"}

LEMMA ContentKindsAre ==
  /\ Kinds = ContentKinds \cup {"term"} /\ Kinds \ {"term"} = ContentKinds
  /\ "term" \in Kinds /\ ContentKinds \subseteq Kinds
BY DEF Kinds, ContentKinds

LEMMA ChanTypeNext ==
  ASSUME TermInv', chan' = [c \in Channel |-> chan'[c]],
         \A a, b \in Proc, kind \in ContentKinds, r \in RnumSet :
           chan'[<<a, b, <<kind, r>>>>] \in Seq(Carried(kind))
  PROVE  /\ chan' = [c \in Channel |-> chan'[c]]
         /\ \A a, b \in Proc, kind \in Kinds, r \in RnumSet :
              chan'[<<a, b, <<kind, r>>>>] \in Seq(Carried(kind))
BY TermTyped, ContentKindsAre

\* After a step of the sweep.
LEMMA SweepChannels ==
  ASSUME TypeInv, NEW p \in Proc, call[p] \in Call, NEW froms, NEW tos,
         chan' = SendTerm(tos, p, TakeTerm(froms, p, chan))
  PROVE  /\ chan' = [c \in Channel |-> chan'[c]]
         /\ \A a, b \in Proc, kind \in ContentKinds, r \in RnumSet :
              chan'[<<a, b, <<kind, r>>>>] = chan[<<a, b, <<kind, r>>>>]
<1>1. ASSUME NEW a \in Proc, NEW b \in Proc, NEW kind \in ContentKinds, NEW r \in RnumSet
      PROVE  chan'[<<a, b, <<kind, r>>>>] = chan[<<a, b, <<kind, r>>>>]
  <2>1. kind \in Kinds /\ kind # "term"
    BY ContentKindsAre DEF ContentKinds
  <2> QED
    BY <2>1, TermIs
<1>2. chan' = [c \in Channel |-> chan'[c]]
  BY TermIs
<1> QED
  BY <1>1, <1>2

LEMMA SweepTypes ==
  ASSUME TypeInv, TermInv', chan' = [c \in Channel |-> chan'[c]],
         \A a, b \in Proc, kind \in ContentKinds, r \in RnumSet :
           chan'[<<a, b, <<kind, r>>>>] = chan[<<a, b, <<kind, r>>>>],
         pc' \in [Proc -> {"out", "loop", "parent", "post", "crash"}],
         children_complete' \in [Proc -> BOOLEAN],
         UNCHANGED <<call, contact_proc_list, responses_complete, responses>>
  PROVE  TypeInv'
<1>1. ASSUME NEW a \in Proc, NEW b \in Proc, NEW kind \in ContentKinds, NEW r \in RnumSet
      PROVE  chan'[<<a, b, <<kind, r>>>>] \in Seq(Carried(kind))
  <2>1. kind \in Kinds /\ chan'[<<a, b, <<kind, r>>>>] = chan[<<a, b, <<kind, r>>>>]
    BY ContentKindsAre
  <2>2. chan[<<a, b, <<kind, r>>>>] \in Seq(Carried(kind))
    BY <2>1 DEF TypeInv
  <2> QED
    BY <2>1, <2>2
<1>2. \A a, b \in Proc, kind \in Kinds, r \in RnumSet :
        chan'[<<a, b, <<kind, r>>>>] \in Seq(Carried(kind))
  BY <1>1, ChanTypeNext
<1>3. /\ call' \in [Proc -> 0 .. Len(Rnums)]
      /\ contact_proc_list' \in [Proc -> Seq(Proc)]
      /\ \A p \in Proc : Len(contact_proc_list'[p]) <= MaxContacts
      /\ responses_complete' \in [Proc -> BOOLEAN]
      /\ responses' \in [Proc -> Seq(AnswerMsg)]
  BY DEF TypeInv
<1> QED
  BY <1>2, <1>3, Zenon DEF TypeInv, RnumSet, Call, Channel, Tags, AnswerMsg, ContactMsg, Carried

LEMMA BeginKeeps ==
  ASSUME ExchangeInv, NEW p \in Proc, Begin(p)
  PROVE  ExchangeInv'
<1>1. PICK list \in Seq(Proc) : Begun(p, list)
  BY BeginChanges DEF ExchangeInv
<1>2. SweepInv' /\ TermInv'
  BY <1>1, BegunSweeps DEF ExchangeInv
<1>3. ContentInv'
  BY <1>1, BegunContent
<1>4. /\ Len(list) <= MaxContacts /\ call[p] + 1 \in Call
      /\ call' = [call EXCEPT ![p] = @ + 1]
      /\ contact_proc_list' = [contact_proc_list EXCEPT ![p] = list]
      /\ responses_complete' = [responses_complete EXCEPT ![p] = (list = <<>>)]
      /\ children_complete' = [children_complete EXCEPT ![p] = (NumProcs = 1)]
      /\ responses' = [responses EXCEPT ![p] = <<>>]
      /\ \/ ~ Uninitialized(list) /\ pc' = [pc EXCEPT ![p] = "loop"]
         \/ Uninitialized(list) /\ pc' = [pc EXCEPT ![p] = "post"]
         \/ Uninitialized(list) /\ pc' = [pc EXCEPT ![p] = "crash"]
      /\ chan' = [c \in Channel |-> chan'[c]]
  BY <1>1 DEF Begun
<1>5. /\ pc \in [Proc -> {"out", "loop", "parent", "post", "crash"}]
      /\ call \in [Proc -> 0 .. Len(Rnums)]
      /\ contact_proc_list \in [Proc -> Seq(Proc)]
      /\ \A q \in Proc : Len(contact_proc_list[q]) <= MaxContacts
      /\ responses_complete \in [Proc -> BOOLEAN] /\ children_complete \in [Proc -> BOOLEAN]
      /\ responses \in [Proc -> Seq(AnswerMsg)]
  BY DEF ExchangeInv, TypeInv
<1>6. TypeInv'
  <2>1. ASSUME NEW a \in Proc, NEW b \in Proc, NEW kind \in ContentKinds, NEW r \in RnumSet
        PROVE  chan'[<<a, b, <<kind, r>>>>] \in Seq(Carried(kind))
    <3>1. kind \in Kinds /\ chan[<<a, b, <<kind, r>>>>] \in Seq(Carried(kind))
      BY ContentKindsAre DEF ExchangeInv, TypeInv
    <3>2. CASE a = p /\ kind = "contact" /\ r = Rnums[call[p] + 1]
      <4>1. ContactsTo(p, b, list) \in Seq(ContactMsg)
        BY <1>4, ContactsToRight, Zenon
      <4>2. chan[<<a, b, <<kind, r>>>>] \in Seq(ContactMsg) /\ Carried(kind) = ContactMsg
        BY <3>1, <3>2 DEF Carried
      <4>3. chan'[<<a, b, <<kind, r>>>>] =
              chan[<<a, b, <<kind, r>>>>] \o ContactsTo(p, b, list)
        BY <3>1, <3>2, <1>1 DEF Begun
      <4> QED
        BY <4>1, <4>2, <4>3
    <3>3. CASE ~ (a = p /\ kind = "contact" /\ r = Rnums[call[p] + 1])
      BY <3>1, <3>3, <1>1 DEF Begun
    <3> QED
      BY <3>2, <3>3
  <2>2. \A a, b \in Proc, kind \in Kinds, r \in RnumSet :
          chan'[<<a, b, <<kind, r>>>>] \in Seq(Carried(kind))
    BY <2>1, <1>2, <1>4, ChanTypeNext
  <2>3. pc' \in [Proc -> {"out", "loop", "parent", "post", "crash"}]
    BY <1>4, <1>5
  <2>4. /\ call' \in [Proc -> 0 .. Len(Rnums)]
        /\ contact_proc_list' \in [Proc -> Seq(Proc)]
        /\ \A q \in Proc : Len(contact_proc_list'[q]) <= MaxContacts
        /\ responses_complete' \in [Proc -> BOOLEAN]
        /\ children_complete' \in [Proc -> BOOLEAN]
    BY <1>4, <1>5, CallType
  <2>5. responses' \in [Proc -> Seq(AnswerMsg)]
    <3>1. <<>> \in Seq(AnswerMsg)
      OBVIOUS
    <3> QED
      BY <3>1, <1>4, <1>5
  <2> QED
    BY <2>2, <2>3, <2>4, <2>5, <1>4, Zenon
    DEF TypeInv, RnumSet, Call, Channel, Tags, AnswerMsg, ContactMsg, Carried
<1>7. PhaseInv'
  <2>1. ASSUME NEW q \in Proc
        PROVE  /\ pc'[q] # "out" => call'[q] > 0
               /\ pc'[q] \in {"parent", "post", "crash"} \/ (pc'[q] = "out" /\ call'[q] > 0) =>
                    responses_complete'[q] /\ children_complete'[q]
               /\ children_complete'[q] /\ NumProcs > 1 => responses_complete'[q]
               /\ NumProcs = 1 /\ pc'[q] = "loop" => children_complete'[q]
    <3>1. CASE q # p
      <4>1. /\ pc'[q] = pc[q] /\ call'[q] = call[q]
            /\ responses_complete'[q] = responses_complete[q]
            /\ children_complete'[q] = children_complete[q]
        BY <3>1, <1>4, <1>5
      <4> QED
        BY <4>1 DEF ExchangeInv, PhaseInv
    <3>2. CASE q = p
      <4>1. /\ call'[p] > 0 /\ call[p] + 1 > 0
            /\ responses_complete'[p] <=> list = <<>>
            /\ children_complete'[p] <=> NumProcs = 1
        BY <1>4, <1>5, CallType
      <4>2. /\ pc'[p] \in {"loop", "post", "crash"}
            /\ pc'[p] # "loop" => NumProcs = 1 /\ list = <<>>
        BY <1>4, <1>5 DEF Uninitialized
      <4>3. CASE NumProcs = 1
        <5>1. children_complete'[p] /\ ~ (NumProcs > 1)
          BY <4>1, <4>3
        <5> QED
          BY <3>2, <4>1, <4>2, <5>1
      <4>4. CASE NumProcs # 1
        <5>1. ~ children_complete'[p] /\ pc'[p] = "loop"
          BY <4>1, <4>2, <4>4
        <5> QED
          BY <3>2, <4>1, <4>4, <5>1
      <4> QED
        BY <4>3, <4>4
    <3> QED
      BY <3>1, <3>2
  <2> QED
    BY <2>1 DEF PhaseInv
<1> QED
  BY <1>2, <1>3, <1>6, <1>7 DEF ExchangeInv

LEMMA FillResponseKeeps ==
  ASSUME ExchangeInv, NEW p \in Proc, FillResponse(p)
  PROVE  ExchangeInv'
<1>1. PICK q \in Proc, contact \in ContactMsg, rest \in ContactMsg \cup {Missing} :
        Filled(p, q, contact, rest)
  BY FillResponseChanges DEF ExchangeInv
<1>2. SweepInv' /\ TermInv'
  BY <1>1, FilledSweeps DEF ExchangeInv
<1>3. ContentInv'
  BY <1>1, FilledContent
<1>4. /\ UNCHANGED <<pc, call, contact_proc_list, responses_complete, children_complete, responses>>
      /\ chan' = [c \in Channel |-> chan'[c]] /\ call[p] \in Call
  BY <1>1 DEF Filled, flags
<1>5. PICK r \in RnumSet : r = Rnums[call[p]]
  BY <1>4, CallType
<1>6. TypeInv'
  <2>1. ASSUME NEW a \in Proc, NEW b \in Proc, NEW kind \in ContentKinds, NEW s \in RnumSet
        PROVE  chan'[<<a, b, <<kind, s>>>>] \in Seq(Carried(kind))
    <3>1. kind \in Kinds /\ chan[<<a, b, <<kind, s>>>>] \in Seq(Carried(kind))
      BY ContentKindsAre DEF ExchangeInv, TypeInv
    <3>2. CASE chan'[<<a, b, <<kind, s>>>>] = chan[<<a, b, <<kind, s>>>>]
      BY <3>1, <3>2
    <3>3. CASE s = r /\ kind = "contact" /\ a = q /\ b = p
      <4>1. chan[<<a, b, <<kind, s>>>>] # <<>>
            /\ chan'[<<a, b, <<kind, s>>>>] = Tail(chan[<<a, b, <<kind, s>>>>])
        BY <3>3, <1>1, <1>5 DEF Filled
      <4> QED
        BY <3>1, <4>1
    <3>4. CASE s = r /\ kind = "post" /\ a = p /\ b = q
      <4>1. chan'[<<a, b, <<kind, s>>>>] = IF rest = Missing
              THEN Append(chan[<<a, b, <<kind, s>>>>], contact)
              ELSE chan[<<a, b, <<kind, s>>>>]
        BY <3>4, <1>1, <1>5 DEF Filled
      <4>2. Carried(kind) = ContactMsg
        BY <3>4 DEF Carried
      <4> QED
        BY <3>1, <4>1, <4>2
    <3>5. CASE s = r /\ kind = "response" /\ a = p /\ b = q
      <4> DEFINE answer == [to |-> contact, by |-> p, in |-> call[p], rest |-> rest]
      <4>1. chan'[<<a, b, <<kind, s>>>>] = Append(chan[<<a, b, <<kind, s>>>>], answer)
        BY <3>5, <1>1, <1>5 DEF Filled
      <4>2. Carried(kind) = AnswerMsg
        BY <3>5 DEF Carried
      <4>3. answer \in AnswerMsg
        BY <1>4 DEF AnswerMsg
      <4> QED
        BY <3>1, <4>1, <4>2, <4>3
    <3> QED
      BY <3>1, <3>2, <3>3, <3>4, <3>5, <1>1, <1>5 DEF Filled
  <2>2. \A a, b \in Proc, kind \in Kinds, s \in RnumSet :
          chan'[<<a, b, <<kind, s>>>>] \in Seq(Carried(kind))
    BY <2>1, <1>2, <1>4, ChanTypeNext
  <2>3. /\ pc' \in [Proc -> {"out", "loop", "parent", "post", "crash"}]
        /\ call' \in [Proc -> 0 .. Len(Rnums)]
        /\ contact_proc_list' \in [Proc -> Seq(Proc)]
        /\ \A x \in Proc : Len(contact_proc_list'[x]) <= MaxContacts
        /\ responses_complete' \in [Proc -> BOOLEAN]
        /\ children_complete' \in [Proc -> BOOLEAN]
        /\ responses' \in [Proc -> Seq(AnswerMsg)]
    BY <1>4 DEF ExchangeInv, TypeInv
  <2> QED
    BY <2>2, <2>3, <1>4, Zenon
    DEF TypeInv, RnumSet, Call, Channel, Tags, AnswerMsg, ContactMsg, Carried
<1>7. PhaseInv'
  BY <1>4 DEF ExchangeInv, PhaseInv
<1> QED
  BY <1>2, <1>3, <1>6, <1>7 DEF ExchangeInv

\* What stays of the content after messages of one kind were received.
LEMMA ConsumedTypes ==
  ASSUME TypeInv, TermInv', NEW p \in Proc, NEW among, NEW k \in ContentKinds,
         Consumed(p, among, k),
         \A a \in Proc, r \in RnumSet :
           r = Rnums[call[p]] => chan'[<<a, p, <<k, r>>>>] = <<>>
  PROVE  /\ chan' = [c \in Channel |-> chan'[c]]
         /\ \A a, b \in Proc, kind \in Kinds, r \in RnumSet :
              chan'[<<a, b, <<kind, r>>>>] \in Seq(Carried(kind))
<1>1. ASSUME NEW a \in Proc, NEW b \in Proc, NEW kind \in ContentKinds, NEW r \in RnumSet
      PROVE  chan'[<<a, b, <<kind, r>>>>] \in Seq(Carried(kind))
  <2>1. kind \in Kinds /\ chan[<<a, b, <<kind, r>>>>] \in Seq(Carried(kind))
    BY ContentKindsAre DEF TypeInv
  <2>2. CASE b = p /\ kind = k /\ r = Rnums[call[p]]
    <3>1. chan'[<<a, b, <<kind, r>>>>] = <<>>
      BY <2>2
    <3> QED
      BY <3>1
  <2>3. CASE ~ (b = p /\ kind = k /\ r = Rnums[call[p]])
    BY <2>1, <2>3 DEF Consumed
  <2> QED
    BY <2>2, <2>3
<1>2. chan' = [c \in Channel |-> chan'[c]]
  BY DEF Consumed
<1> QED
  BY <1>1, <1>2, ChanTypeNext

LEMMA ResponsesCompleteKeeps ==
  ASSUME ExchangeInv, NEW p \in Proc, ResponsesComplete(p)
  PROVE  ExchangeInv'
<1>1. /\ pc[p] = "loop"
      /\ responses_complete' = [responses_complete EXCEPT ![p] = TRUE]
      /\ chan' = Received(p, Indices(p), "response")
      /\ pc' = [pc EXCEPT ![p] = IF NumProcs = 1 THEN "post" ELSE "loop"]
      /\ UNCHANGED <<call, contact_proc_list, children_complete>>
  BY DEF ResponsesComplete, Goto
<1>2. SweepInv' /\ TermInv'
  BY ResponsesCompleteSweeps DEF ExchangeInv
<1>3. ContentInv' /\ responses' \in [Proc -> Seq(AnswerMsg)]
  BY ResponsesCompleteContent
<1>4. /\ pc \in [Proc -> {"out", "loop", "parent", "post", "crash"}]
      /\ call \in [Proc -> 0 .. Len(Rnums)]
      /\ contact_proc_list \in [Proc -> Seq(Proc)]
      /\ \A q \in Proc : Len(contact_proc_list[q]) <= MaxContacts
      /\ responses_complete \in [Proc -> BOOLEAN] /\ children_complete \in [Proc -> BOOLEAN]
  BY DEF ExchangeInv, TypeInv
<1>5. call[p] \in Call
  BY <1>1, Places DEF ExchangeInv
<1>6. Consumed(p, Indices(p), "response")
  BY <1>1, <1>5, ReceivedIs, Zenon DEF ExchangeInv
<1>7. \A a \in Proc, r \in RnumSet : chan'[<<a, p, <<"response", r>>>>] = <<>>
  <2>1. ASSUME NEW a \in Proc, NEW r \in RnumSet PROVE chan'[<<a, p, <<"response", r>>>>] = <<>>
    <3>1. ContactsRight(p, a, r)'
      BY <1>3 DEF ContentInv, RnumSet, Call
    <3>2. ~ Asking(p)'
      BY <1>1, <1>4 DEF Asking
    <3> QED
      BY <3>1, <3>2 DEF ContactsRight
  <2> QED
    BY <2>1
<1>8. TypeInv'
  <2>1. "response" \in ContentKinds
    BY DEF ContentKinds
  <2>2. /\ chan' = [c \in Channel |-> chan'[c]]
        /\ \A a, b \in Proc, kind \in Kinds, r \in RnumSet :
             chan'[<<a, b, <<kind, r>>>>] \in Seq(Carried(kind))
    BY <2>1, <1>2, <1>6, <1>7, ConsumedTypes, Zenon DEF ExchangeInv
  <2>3. /\ pc' \in [Proc -> {"out", "loop", "parent", "post", "crash"}]
        /\ call' \in [Proc -> 0 .. Len(Rnums)]
        /\ contact_proc_list' \in [Proc -> Seq(Proc)]
        /\ \A q \in Proc : Len(contact_proc_list'[q]) <= MaxContacts
        /\ responses_complete' \in [Proc -> BOOLEAN]
        /\ children_complete' \in [Proc -> BOOLEAN]
    BY <1>1, <1>4
  <2> QED
    BY <2>2, <2>3, <1>3, Zenon
    DEF TypeInv, RnumSet, Call, Channel, Tags, AnswerMsg, ContactMsg, Carried
<1>9. PhaseInv'
  BY <1>1, <1>4 DEF ExchangeInv, PhaseInv
<1> QED
  BY <1>2, <1>3, <1>8, <1>9 DEF ExchangeInv

LEMMA PostProcessKeeps ==
  ASSUME ExchangeInv, NEW p \in Proc, PostProcess(p)
  PROVE  ExchangeInv'
<1>1. /\ pc[p] = "post"
      /\ chan' = Received(p, LongOnes(p), "post")
      /\ pc' = [pc EXCEPT ![p] = "out"]
      /\ UNCHANGED <<call, contact_proc_list, responses_complete, children_complete>>
  BY Zenon DEF PostProcess, Goto, flags
<1>2. SweepInv' /\ TermInv'
  BY PostProcessSweeps DEF ExchangeInv
<1>3. ContentInv' /\ responses' \in [Proc -> Seq(AnswerMsg)]
  BY PostProcessContent
<1>4. /\ pc \in [Proc -> {"out", "loop", "parent", "post", "crash"}]
      /\ call \in [Proc -> 0 .. Len(Rnums)]
      /\ contact_proc_list \in [Proc -> Seq(Proc)]
      /\ \A q \in Proc : Len(contact_proc_list[q]) <= MaxContacts
      /\ responses_complete \in [Proc -> BOOLEAN] /\ children_complete \in [Proc -> BOOLEAN]
  BY DEF ExchangeInv, TypeInv
<1>5. call[p] \in Call
  BY <1>1, Places DEF ExchangeInv
<1>6. Consumed(p, LongOnes(p), "post")
  BY <1>1, <1>5, ReceivedIs, Zenon DEF ExchangeInv
<1>7. \A a \in Proc, r \in RnumSet : chan'[<<a, p, <<"post", r>>>>] = <<>>
  <2>1. ASSUME NEW a \in Proc, NEW r \in RnumSet PROVE chan'[<<a, p, <<"post", r>>>>] = <<>>
    <3>1. PostRight(p, a, r)'
      BY <1>3 DEF ContentInv, RnumSet, Call
    <3>2. pc'[p] = "out"
      BY <1>1, <1>4
    <3> QED
      BY <3>1, <3>2 DEF PostRight
  <2> QED
    BY <2>1
<1>8. TypeInv'
  <2>1. "post" \in ContentKinds
    BY DEF ContentKinds
  <2>2. /\ chan' = [c \in Channel |-> chan'[c]]
        /\ \A a, b \in Proc, kind \in Kinds, r \in RnumSet :
             chan'[<<a, b, <<kind, r>>>>] \in Seq(Carried(kind))
    BY <2>1, <1>2, <1>6, <1>7, ConsumedTypes, Zenon DEF ExchangeInv
  <2>3. /\ pc' \in [Proc -> {"out", "loop", "parent", "post", "crash"}]
        /\ call' \in [Proc -> 0 .. Len(Rnums)]
        /\ contact_proc_list' \in [Proc -> Seq(Proc)]
        /\ \A q \in Proc : Len(contact_proc_list'[q]) <= MaxContacts
        /\ responses_complete' \in [Proc -> BOOLEAN]
        /\ children_complete' \in [Proc -> BOOLEAN]
    BY <1>1, <1>4
  <2> QED
    BY <2>2, <2>3, <1>3, Zenon
    DEF TypeInv, RnumSet, Call, Channel, Tags, AnswerMsg, ContactMsg, Carried
<1>9. PhaseInv'
  BY <1>1, <1>4 DEF ExchangeInv, PhaseInv
<1> QED
  BY <1>2, <1>3, <1>8, <1>9 DEF ExchangeInv

LEMMA ChildrenCompleteKeeps ==
  ASSUME ExchangeInv, NEW p \in Proc, ChildrenComplete(p)
  PROVE  ExchangeInv'
<1>1. /\ pc[p] = "loop" /\ responses_complete[p]
      /\ children_complete' = [children_complete EXCEPT ![p] = TRUE]
      /\ pc' = [pc EXCEPT ![p] = IF p = Root THEN "loop" ELSE "parent"]
      /\ UNCHANGED <<call, contact_proc_list, responses_complete, responses>>
  BY DEF ChildrenComplete, ReadyForSweep, Goto
<1>2. SweepInv' /\ TermInv'
  BY ChildrenCompleteSweeps DEF ExchangeInv
<1>3. /\ pc \in [Proc -> {"out", "loop", "parent", "post", "crash"}]
      /\ children_complete \in [Proc -> BOOLEAN]
  BY DEF ExchangeInv, TypeInv
<1>4. /\ chan' = [c \in Channel |-> chan'[c]]
      /\ \A a, b \in Proc, kind \in ContentKinds, r \in RnumSet :
           chan'[<<a, b, <<kind, r>>>>] = chan[<<a, b, <<kind, r>>>>]
  <2> DEFINE tos == IF p = Root THEN {} ELSE {Parent(p)}
  <2>1. chan' = SendTerm(tos, p, TakeTerm(Children(p), p, chan))
    BY ChildrenCompleteSends
  <2> HIDE DEF tos
  <2>2. call[p] \in Call
    BY <1>1, Places DEF ExchangeInv
  <2> QED
    BY <2>1, <2>2, SweepChannels DEF ExchangeInv
<1>5. ContentInv'
  <2>1. \A q \in Proc : Untouched(q) /\ (pc'[q] = "out" => pc[q] = "out")
    BY <1>1, <1>3 DEF Untouched, Asking
  <2> QED
    BY <2>1, <1>4, ContentKindsAre, SweepContent DEF ExchangeInv
<1>6. TypeInv'
  <2>1. /\ pc' \in [Proc -> {"out", "loop", "parent", "post", "crash"}]
        /\ children_complete' \in [Proc -> BOOLEAN]
    BY <1>1, <1>3
  <2> QED
    BY <2>1, <1>1, <1>2, <1>4, SweepTypes, Zenon DEF ExchangeInv
<1>7. PhaseInv'
  BY <1>1, <1>3 DEF ExchangeInv, PhaseInv
<1> QED
  BY <1>2, <1>5, <1>6, <1>7 DEF ExchangeInv

LEMMA TerminateKeeps ==
  ASSUME ExchangeInv, NEW p \in Proc, Terminate(p)
  PROVE  ExchangeInv'
<1>1. /\ pc[p] = "loop" /\ responses_complete[p] /\ children_complete[p]
      /\ pc' = [pc EXCEPT ![p] = "post"]
      /\ UNCHANGED <<call, contact_proc_list, responses_complete, children_complete, responses>>
  BY DEF Terminate, Goto, flags
<1>2. SweepInv' /\ TermInv'
  BY TerminateSweeps DEF ExchangeInv
<1>3. /\ pc \in [Proc -> {"out", "loop", "parent", "post", "crash"}]
      /\ children_complete \in [Proc -> BOOLEAN]
  BY DEF ExchangeInv, TypeInv
<1>4. /\ chan' = [c \in Channel |-> chan'[c]]
      /\ \A a, b \in Proc, kind \in ContentKinds, r \in RnumSet :
           chan'[<<a, b, <<kind, r>>>>] = chan[<<a, b, <<kind, r>>>>]
  <2> DEFINE froms == IF p = Root THEN {} ELSE {Parent(p)}
  <2>1. chan' = SendTerm(Children(p), p, TakeTerm(froms, p, chan))
    BY TerminateSends DEF ExchangeInv
  <2> HIDE DEF froms
  <2>2. call[p] \in Call
    BY <1>1, Places DEF ExchangeInv
  <2> QED
    BY <2>1, <2>2, SweepChannels DEF ExchangeInv
<1>5. ContentInv'
  <2>1. \A q \in Proc : Untouched(q) /\ (pc'[q] = "out" => pc[q] = "out")
    BY <1>1, <1>3 DEF Untouched, Asking
  <2> QED
    BY <2>1, <1>4, ContentKindsAre, SweepContent DEF ExchangeInv
<1>6. TypeInv'
  <2>1. /\ pc' \in [Proc -> {"out", "loop", "parent", "post", "crash"}]
        /\ children_complete' \in [Proc -> BOOLEAN]
    BY <1>1, <1>3
  <2> QED
    BY <2>1, <1>1, <1>2, <1>4, SweepTypes, Zenon DEF ExchangeInv
<1>7. PhaseInv'
  BY <1>1, <1>3 DEF ExchangeInv, PhaseInv
<1> QED
  BY <1>2, <1>5, <1>6, <1>7 DEF ExchangeInv

LEMMA ReceiveFromParentKeeps ==
  ASSUME ExchangeInv, NEW p \in Proc, ReceiveFromParent(p)
  PROVE  ExchangeInv'
<1>1. /\ pc[p] = "parent" /\ pc' = [pc EXCEPT ![p] = "loop"]
      /\ UNCHANGED <<call, contact_proc_list, responses_complete, children_complete, responses,
                     chan>>
  BY DEF ReceiveFromParent, Goto, flags
<1>2. SweepInv' /\ TermInv'
  BY ReceiveFromParentSweeps DEF ExchangeInv
<1>3. /\ pc \in [Proc -> {"out", "loop", "parent", "post", "crash"}]
      /\ children_complete \in [Proc -> BOOLEAN]
      /\ responses_complete[p] /\ children_complete[p]
      /\ chan = [c \in Channel |-> chan[c]]
  BY <1>1 DEF ExchangeInv, TypeInv, PhaseInv
<1>4. /\ chan' = [c \in Channel |-> chan'[c]]
      /\ \A a, b \in Proc, kind \in ContentKinds, r \in RnumSet :
           chan'[<<a, b, <<kind, r>>>>] = chan[<<a, b, <<kind, r>>>>]
  BY <1>1, <1>3
<1>5. ContentInv'
  <2>1. \A q \in Proc : Untouched(q) /\ (pc'[q] = "out" => pc[q] = "out")
    BY <1>1, <1>3 DEF Untouched, Asking
  <2> QED
    BY <2>1, <1>4, ContentKindsAre, SweepContent DEF ExchangeInv
<1>6. TypeInv'
  <2>1. /\ pc' \in [Proc -> {"out", "loop", "parent", "post", "crash"}]
        /\ children_complete' \in [Proc -> BOOLEAN]
    BY <1>1, <1>3
  <2> QED
    BY <2>1, <1>1, <1>2, <1>4, SweepTypes, Zenon DEF ExchangeInv
<1>7. PhaseInv'
  BY <1>1, <1>3 DEF ExchangeInv, PhaseInv
<1> QED
  BY <1>2, <1>5, <1>6, <1>7 DEF ExchangeInv

LEMMA InitInv == Init => ExchangeInv
<1> SUFFICES ASSUME Init PROVE ExchangeInv
  OBVIOUS
<1>1. /\ \A p \in Proc : /\ pc[p] = "out" /\ call[p] = 0 /\ contact_proc_list[p] = <<>>
                         /\ responses_complete[p] = FALSE /\ children_complete[p] = FALSE
                         /\ responses[p] = <<>>
      /\ chan = [c \in Channel |-> chan[c]]
      /\ \A a, b \in Proc, kind \in Kinds, r \in RnumSet : chan[<<a, b, <<kind, r>>>>] = <<>>
  BY ChannelType DEF Init
<1>2. TypeInv
  <2>1. ASSUME NEW a \in Proc, NEW b \in Proc, NEW kind \in Kinds, NEW r \in RnumSet
        PROVE  chan[<<a, b, <<kind, r>>>>] \in Seq(Carried(kind))
    <3>1. chan[<<a, b, <<kind, r>>>>] = <<>>
      BY <1>1
    <3> QED
      BY <3>1
  <2>2. /\ pc \in [Proc -> {"out", "loop", "parent", "post", "crash"}]
        /\ call \in [Proc -> 0 .. Len(Rnums)]
        /\ responses_complete \in [Proc -> BOOLEAN] /\ children_complete \in [Proc -> BOOLEAN]
    BY CallType DEF Init
  <2>3. /\ contact_proc_list \in [Proc -> Seq(Proc)]
        /\ \A p \in Proc : Len(contact_proc_list[p]) <= MaxContacts
    BY <1>1, ExchangeAssumption DEF Init
  <2>4. responses \in [Proc -> Seq(AnswerMsg)]
    BY DEF Init
  <2> QED
    BY <2>1, <2>2, <2>3, <2>4, <1>1, Zenon DEF TypeInv
<1>3. PhaseInv
  BY <1>1 DEF PhaseInv
<1>4. \A p \in Proc, n \in Call : ~ Up(p, n) /\ ~ Down(p, n)
  BY <1>1, CallType DEF Up, Down
<1>5. SweepInv
  BY <1>4, ParentBefore DEF SweepInv
<1>6. TermInv
  <2>1. ASSUME NEW a \in Proc, NEW b \in Proc, NEW r \in RnumSet
        PROVE  /\ chan[<<a, b, <<"term", r>>>>] = <<>>
               /\ ~ \E n \in Call : Rnums[n] = r /\ Passing(a, b, n)
    BY <1>1, <1>4, ContentKindsAre DEF Passing
  <2> QED
    BY <2>1 DEF TermInv
<1>7. ContentInv
  <2>1. ASSUME NEW q \in Proc, NEW p \in Proc, NEW r \in RnumSet
        PROVE  ContactsRight(q, p, r) /\ PostRight(q, p, r)
    <3>1. /\ chan[<<p, q, <<"response", r>>>>] = <<>> /\ chan[<<q, p, <<"contact", r>>>>] = <<>>
          /\ chan[<<p, q, <<"post", r>>>>] = <<>>
      BY <1>1, ContentKindsAre DEF ContentKinds
    <3> QED
      BY <3>1, <1>1 DEF ContactsRight, PostRight, Asking
  <2>2. ASSUME NEW q \in Proc PROVE ResponsesRight(q)
    BY <1>1 DEF ResponsesRight
  <2> QED
    BY <2>1, <2>2 DEF ContentInv
<1> QED
  BY <1>2, <1>3, <1>5, <1>6, <1>7 DEF ExchangeInv

LEMMA NextInv == ExchangeInv /\ [Next]_vars => ExchangeInv'
<1> SUFFICES ASSUME ExchangeInv, [Next]_vars PROVE ExchangeInv'
  OBVIOUS
<1>1. ASSUME NEW p \in Proc, Step(p) PROVE ExchangeInv'
  BY <1>1, BeginKeeps, FillResponseKeeps, ResponsesCompleteKeeps, ChildrenCompleteKeeps,
     ReceiveFromParentKeeps, TerminateKeeps, PostProcessKeeps DEF Step
<1>2. ASSUME UNCHANGED vars PROVE ExchangeInv'
  <2>1. /\ UNCHANGED <<pc, call, contact_proc_list, responses_complete, children_complete,
                       responses, chan>>
    BY <1>2 DEF vars, flags
  <2>2. TypeInv'
    BY <2>1, Zenon DEF ExchangeInv, TypeInv, RnumSet, Call, Channel, Tags, AnswerMsg, ContactMsg,
                       Carried
  <2>3. PhaseInv'
    BY <2>1 DEF ExchangeInv, PhaseInv
  <2>4. SweepInv' /\ TermInv'
    BY <2>1, TermFrame DEF ExchangeInv, Up, Down
  <2>5. ContentInv'
    <3>1. \A q \in Proc : Untouched(q) /\ (pc'[q] = "out" => pc[q] = "out")
      BY <2>1 DEF Untouched, Asking
    <3> QED
      BY <3>1, <2>1, SweepContent DEF ExchangeInv
  <2> QED
    BY <2>2, <2>3, <2>4, <2>5 DEF ExchangeInv
<1> QED
  BY <1>1, <1>2 DEF Next, Finished

THEOREM ExchangeInvHolds == Spec => []ExchangeInv
BY InitInv, NextInv, PTL DEF Spec

-----------------------------------------------------------------------------
(* What the invariant says. *)

\* When a call returns its responses are those of the contacted, whole and in the
\* places of the contacts.
THEOREM EachIsAnsweredRightly == Spec => []AnsweredRightly
<1>1. ExchangeInv => AnsweredRightly
  <2> SUFFICES ASSUME ExchangeInv, NEW p \in Proc, pc[p] = "out", call[p] > 0
               PROVE  /\ Len(responses[p]) = Len(contact_proc_list[p])
                      /\ \A i \in Indices(p) :
                           LET contact == [in |-> call[p], nr |-> i]
                           IN  responses[p][i] =
                                 [to |-> contact, by |-> contact_proc_list[p][i],
                                  in |-> call[p], rest |-> contact]
    BY DEF AnsweredRightly
  <2>1. responses_complete[p]
    BY DEF ExchangeInv, PhaseInv
  <2>2. ResponsesRight(p)
    BY DEF ExchangeInv, ContentInv
  <2>3. /\ Len(responses[p]) = Len(contact_proc_list[p])
        /\ \A i \in Indices(p) : responses[p][i] \in Answers(p, i, contact_proc_list[p][i])
        /\ \A i \in Indices(p) : responses[p][i].rest = Asked(p, i)
    BY <2>1, <2>2 DEF ResponsesRight
  <2>4. ASSUME NEW i \in Indices(p)
        PROVE  responses[p][i] = AnswerTo(p, i, contact_proc_list[p][i], Asked(p, i))
    <3>1. \/ responses[p][i] = AnswerTo(p, i, contact_proc_list[p][i], Asked(p, i))
          \/ responses[p][i] = AnswerTo(p, i, contact_proc_list[p][i], Missing)
      BY <2>3 DEF Answers
    <3>2. AnswerTo(p, i, contact_proc_list[p][i], Missing).rest = Missing
      BY DEF AnswerTo
    <3> QED
      BY <3>1, <3>2, <2>3
  <2> QED
    BY <2>3, <2>4 DEF AnswerTo, Asked
<1> QED
  BY <1>1, ExchangeInvHolds, PTL

\* Between two exchanges there is no message under way.
THEOREM NoneLeftBehind == Spec => []NothingLeftBehind
<1>1. ExchangeInv => NothingLeftBehind
  <2> SUFFICES ASSUME ExchangeInv, \A p, q \in Proc : pc[p] = "out" /\ call[p] = call[q],
                      NEW c \in Channel
               PROVE  chan[c] = <<>>
    BY DEF NothingLeftBehind
  <2>1. PICK a \in Proc : \E b \in Proc, kind \in Kinds, r \in RnumSet :
          c = <<a, b, <<kind, r>>>>
    BY ChannelType
  <2>2. PICK b \in Proc, kind \in Kinds, r \in RnumSet : c = <<a, b, <<kind, r>>>>
    BY <2>1
  <2>3. /\ ContactsRight(a, b, r) /\ ContactsRight(b, a, r) /\ PostRight(b, a, r)
        /\ ~ Asking(a) /\ ~ Asking(b) /\ pc[b] = "out"
    BY DEF ExchangeInv, ContentInv, Asking
  <2>4. CASE kind = "contact"
    BY <2>2, <2>3, <2>4 DEF ContactsRight
  <2>5. CASE kind = "response"
    BY <2>2, <2>3, <2>5 DEF ContactsRight
  <2>6. CASE kind = "post"
    BY <2>2, <2>3, <2>6 DEF PostRight
  <2>7. CASE kind = "term"
    <3>1. ASSUME NEW n \in Call, Passing(a, b, n) PROVE FALSE
      <4>1. Up(a, n) \/ Down(a, n)
        BY <3>1 DEF Passing
      <4>2. call[a] \in Nat /\ call[a] = call[b] /\ n \in Nat /\ n > 0
        BY Places, CallType DEF ExchangeInv
      <4>3. n <= call[b] /\ pc[b] = "out"
        BY <4>1, <4>2 DEF Up, Down
      <4>4. Down(b, n)
        BY <4>2, <4>3 DEF Down
      <4>5. Up(b, n)
        BY <4>4, DownUp DEF ExchangeInv
      <4> QED
        BY <3>1, <4>4, <4>5 DEF Passing
    <3>2. chan[<<a, b, <<"term", r>>>>] =
            IF \E n \in Call : Rnums[n] = r /\ Passing(a, b, n) THEN <<"term">> ELSE <<>>
      BY DEF ExchangeInv, TermInv
    <3> QED
      BY <2>2, <2>7, <3>1, <3>2
  <2> QED
    BY <2>4, <2>5, <2>6, <2>7 DEF Kinds
<1> QED
  BY <1>1, ExchangeInvHolds, PTL

-----------------------------------------------------------------------------
(* The refinement. *)

Contacts == [from : Proc, to : Proc, in : Call, nr : 1 .. MaxContacts]
Left == [p \in Proc |-> IF Gone(p) THEN call[p] ELSE call[p] - 1]

\* A contact is open from the call of its sender to its answer.
IsOpen(c) ==
  /\ Asking(c.from) /\ c.in = call[c.from] /\ c.nr \in IndicesTo(c.from, c.to)
  /\ Rank(c.nr, IndicesTo(c.from, c.to)) >
       Len(chan[<<c.to, c.from, <<"response", Rnums[c.in]>>>>])

OpenInv == \A c \in Contacts : c \in Open <=> IsOpen(c)

LEMMA OpenRight == ExchangeInv => OpenInv
<1> SUFFICES ASSUME ExchangeInv, NEW c \in Contacts PROVE c \in Open <=> IsOpen(c)
  BY DEF OpenInv
<1>1. /\ c.from \in Proc /\ c.to \in Proc /\ c.in \in Call /\ c.nr \in 1 .. MaxContacts
  BY DEF Contacts
<1>2. PICK q \in Proc, p \in Proc, r \in RnumSet : q = c.from /\ p = c.to /\ r = Rnums[c.in]
  BY <1>1, CallType
<1> DEFINE S == IndicesTo(q, p)
           R == chan[<<p, q, <<"response", r>>>>]
           C == chan[<<q, p, <<"contact", r>>>>]
<1>3. R \in Seq(AnswerMsg) /\ C \in Seq(ContactMsg)
  BY ChanTypes DEF ExchangeInv
<1>4. c \in Open <=> \E k \in DOMAIN C : C[k] = [in |-> c.in, nr |-> c.nr]
  BY <1>2 DEF Open, Contacts
<1>5. ContactsRight(q, p, r)
  BY DEF ExchangeInv, ContentInv
<1>6. /\ Cardinality(S) \in Nat
      /\ \A i \in S : Rank(i, S) \in 1 .. Cardinality(S)
      /\ \A k \in 1 .. Cardinality(S) : \E i \in S : Rank(i, S) = k
  BY Ranks, Zenon DEF ExchangeInv
<1>7. IsOpen(c) <=> Asking(q) /\ c.in = call[q] /\ c.nr \in S /\ Rank(c.nr, S) > Len(R)
  BY <1>2 DEF IsOpen
<1>8. CASE ~ (Asking(q) /\ r = Rnums[call[q]])
  <2>1. C = <<>>
    BY <1>5, <1>8 DEF ContactsRight
  <2>2. DOMAIN C = {}
    BY <2>1
  <2> QED
    BY <2>2, <1>2, <1>4, <1>7, <1>8
<1>9. CASE Asking(q) /\ r = Rnums[call[q]]
  <2>1. /\ Len(R) + Len(C) = Cardinality(S)
        /\ \A i \in S : IF Rank(i, S) <= Len(R)
                        THEN R[Rank(i, S)] \in Answers(q, i, p)
                        ELSE C[Rank(i, S) - Len(R)] = Asked(q, i)
    BY <1>5, <1>9, Zenon DEF ContactsRight
  <2> HIDE DEF S, R, C
  <2>2. /\ Len(R) \in Nat /\ Len(C) \in Nat /\ DOMAIN C = 1 .. Len(C)
    BY <1>3
  <2>3. ASSUME NEW k \in DOMAIN C, C[k] = [in |-> c.in, nr |-> c.nr]
        PROVE  c.in = call[q] /\ c.nr \in S /\ Rank(c.nr, S) > Len(R)
    <3>1. Len(R) + k \in 1 .. Cardinality(S)
      BY <2>1, <2>2, <1>6
    <3>2. PICK i \in S : Rank(i, S) = Len(R) + k
      BY <3>1, <1>6
    <3>3. C[k] = Asked(q, i)
      <4>1. ~ (Rank(i, S) <= Len(R)) /\ Rank(i, S) - Len(R) = k
        BY <3>2, <2>2
      <4> QED
        BY <4>1, <2>1
    <3>4. c.in = call[q] /\ c.nr = i
      BY <2>3, <3>3 DEF Asked
    <3> QED
      BY <3>2, <3>4, <2>2
  <2>4. ASSUME c.in = call[q], c.nr \in S, Rank(c.nr, S) > Len(R)
        PROVE  \E k \in DOMAIN C : C[k] = [in |-> c.in, nr |-> c.nr]
    <3> DEFINE k == Rank(c.nr, S) - Len(R)
    <3>1. Rank(c.nr, S) \in 1 .. Cardinality(S)
      BY <2>4, <1>6
    <3>2. k \in 1 .. Len(C)
      BY <3>1, <2>1, <2>2, <2>4
    <3>3. C[k] = Asked(q, c.nr)
      BY <3>1, <2>1, <2>2, <2>4
    <3> QED
      BY <3>2, <3>3, <2>2, <2>4 DEF Asked
  <2> QED
    BY <2>3, <2>4, <1>4, <1>7, <1>9
<1> QED
  BY <1>8, <1>9

\* A contact whose sender and answers are untouched stays open, or not.
LEMMA OpenFrame ==
  ASSUME NEW c \in Contacts, Untouched(c.from),
         LET r == Rnums[c.in] IN
         chan'[<<c.to, c.from, <<"response", r>>>>] = chan[<<c.to, c.from, <<"response", r>>>>]
  PROVE  IsOpen(c)' <=> IsOpen(c)
<1>1. IndicesTo(c.from, c.to)' = IndicesTo(c.from, c.to)
  BY DEF IndicesTo, Indices, Untouched
<1> QED
  BY <1>1 DEF IsOpen, Untouched

\* The contacts that stay and those that do not determine the open ones.
LEMMA OpenNext ==
  ASSUME OpenInv, OpenInv'
  PROVE  /\ Open \in SUBSET Contacts /\ (Open)' \in SUBSET Contacts
         /\ \A c \in Contacts : (c \in Open <=> IsOpen(c)) /\ (c \in (Open)' <=> IsOpen(c)')
<1>1. Open \in SUBSET Contacts /\ (Open)' \in SUBSET Contacts
  BY DEF Open, Contacts, Call
<1>2. \A c \in Contacts : c \in (Open)' <=> IsOpen(c)'
  BY DEF OpenInv, Contacts, Call
<1> QED
  BY <1>1, <1>2 DEF OpenInv

LEMMA ContactParts ==
  ASSUME NEW c \in Contacts
  PROVE  /\ c.from \in Proc /\ c.to \in Proc /\ c.in \in Call /\ c.nr \in 1 .. MaxContacts
         /\ Rnums[c.in] \in RnumSet
BY CallType DEF Contacts

\* Steps that the exchange does not see.
Unseen == (Open)' = Open /\ Left' = Left /\ call' = call

LEMMA UnseenStep == Unseen => UNCHANGED Abstract!vars
BY DEF Unseen, Abstract!vars, Left

LEMMA SweepUnseen ==
  ASSUME ExchangeInv, OpenInv, OpenInv',
         \A q \in Proc : Untouched(q) /\ (Gone(q)' <=> Gone(q)),
         \A a, b \in Proc, kind \in ContentKinds, r \in RnumSet :
           chan'[<<a, b, <<kind, r>>>>] = chan[<<a, b, <<kind, r>>>>]
  PROVE  (Open)' = Open /\ Left' = Left
<1>1. ASSUME NEW c \in Contacts PROVE IsOpen(c)' <=> IsOpen(c)
  BY ContactParts, OpenFrame DEF ContentKinds
<1>2. (Open)' = Open
  BY <1>1, OpenNext
<1>3. Left' = Left
  BY DEF Left, Untouched
<1> QED
  BY <1>2, <1>3

LEMMA ChildrenCompleteUnseen ==
  ASSUME ExchangeInv, OpenInv, OpenInv', NEW p \in Proc, ChildrenComplete(p)
  PROVE  Unseen
<1>1. /\ pc[p] = "loop" /\ responses_complete[p]
      /\ pc' = [pc EXCEPT ![p] = IF p = Root THEN "loop" ELSE "parent"]
      /\ UNCHANGED <<call, contact_proc_list, responses_complete, responses>>
  BY DEF ChildrenComplete, ReadyForSweep, Goto
<1>2. pc \in [Proc -> {"out", "loop", "parent", "post", "crash"}]
  BY DEF ExchangeInv, TypeInv
<1>3. \A q \in Proc : Untouched(q) /\ (Gone(q)' <=> Gone(q))
  BY <1>1, <1>2 DEF Untouched, Asking, Gone
<1>4. \A a, b \in Proc, kind \in ContentKinds, r \in RnumSet :
        chan'[<<a, b, <<kind, r>>>>] = chan[<<a, b, <<kind, r>>>>]
  <2> DEFINE tos == IF p = Root THEN {} ELSE {Parent(p)}
  <2>1. chan' = SendTerm(tos, p, TakeTerm(Children(p), p, chan))
    BY ChildrenCompleteSends
  <2> HIDE DEF tos
  <2>2. call[p] \in Call
    BY <1>1, Places DEF ExchangeInv
  <2> QED
    BY <2>1, <2>2, SweepChannels DEF ExchangeInv
<1> QED
  BY <1>1, <1>3, <1>4, SweepUnseen DEF Unseen

LEMMA ReceiveFromParentUnseen ==
  ASSUME ExchangeInv, OpenInv, OpenInv', NEW p \in Proc, ReceiveFromParent(p)
  PROVE  Unseen
<1>1. /\ pc[p] = "parent" /\ pc' = [pc EXCEPT ![p] = "loop"]
      /\ UNCHANGED <<call, contact_proc_list, responses_complete, responses, chan>>
  BY DEF ReceiveFromParent, Goto, flags
<1>2. /\ pc \in [Proc -> {"out", "loop", "parent", "post", "crash"}]
      /\ responses_complete[p]
  BY <1>1 DEF ExchangeInv, TypeInv, PhaseInv
<1>3. \A q \in Proc : Untouched(q) /\ (Gone(q)' <=> Gone(q))
  BY <1>1, <1>2 DEF Untouched, Asking, Gone
<1> QED
  BY <1>1, <1>3, SweepUnseen DEF Unseen

\* When the responses of p are complete none of its contacts is open.
LEMMA ResponsesCompleteUnseen ==
  ASSUME ExchangeInv, OpenInv, OpenInv', NEW p \in Proc, ResponsesComplete(p)
  PROVE  Unseen
<1>1. /\ pc[p] = "loop" /\ ~ responses_complete[p]
      /\ Arrived(p, Indices(p), "response")
      /\ responses_complete' = [responses_complete EXCEPT ![p] = TRUE]
      /\ responses' = [responses EXCEPT ![p] =
                         [i \in Indices(p) |-> Matching(p, i, Indices(p), "response")]]
      /\ chan' = Received(p, Indices(p), "response")
      /\ pc' = [pc EXCEPT ![p] = IF NumProcs = 1 THEN "post" ELSE "loop"]
      /\ UNCHANGED <<call, contact_proc_list>>
  BY DEF ResponsesComplete, Goto
<1>2. /\ pc \in [Proc -> {"out", "loop", "parent", "post", "crash"}]
      /\ responses_complete \in [Proc -> BOOLEAN]
      /\ responses \in [Proc -> Seq(AnswerMsg)]
  BY DEF ExchangeInv, TypeInv
<1>3. /\ \A q \in Proc : q # p => Untouched(q)
      /\ \A q \in Proc : Gone(q)' <=> Gone(q)
      /\ Asking(p) /\ ~ Asking(p)'
  <2>1. ASSUME NEW q \in Proc, q # p PROVE Untouched(q)
    BY <1>1, <1>2, <2>1 DEF Untouched, Asking
  <2>2. ASSUME NEW q \in Proc PROVE Gone(q)' <=> Gone(q)
    BY <1>1, <1>2 DEF Gone
  <2>3. Asking(p) /\ ~ Asking(p)'
    BY <1>1, <1>2 DEF Asking
  <2> QED
    BY <2>1, <2>2, <2>3
<1>4. Consumed(p, Indices(p), "response")
  <2>1. call[p] \in Call
    BY <1>1, Places DEF ExchangeInv
  <2> QED
    BY <2>1, <1>1, ReceivedIs, Zenon DEF ExchangeInv
<1>5. ASSUME NEW c \in Contacts PROVE IsOpen(c)' <=> IsOpen(c)
  <2>1. CASE c.from # p
    <3>1. "response" \in Kinds
      BY DEF Kinds
    <3>2. chan'[<<c.to, c.from, <<"response", Rnums[c.in]>>>>] =
            chan[<<c.to, c.from, <<"response", Rnums[c.in]>>>>]
      BY <3>1, <2>1, <1>4, ContactParts DEF Consumed
    <3> QED
      BY <3>2, <2>1, <1>3, ContactParts, OpenFrame
  <2>2. CASE c.from = p
    <3> DEFINE S == IndicesTo(p, c.to)
               R == chan[<<c.to, p, <<"response", Rnums[call[p]]>>>>]
    <3>1. ~ IsOpen(c)'
      BY <2>2, <1>3 DEF IsOpen
    <3>2. R \in Seq(AnswerMsg) /\ \A i \in S : Rank(i, S) <= Len(R) /\ Rank(i, S) \in 1 .. Len(R)
      <4>1. c.to \in Proc
        BY ContactParts
      <4>2. /\ R \in Seq(AnswerMsg) /\ Len(R) = Cardinality(S)
            /\ chan[<<p, c.to, <<"contact", Rnums[call[p]]>>>>] = <<>>
            /\ \A i \in S : Rank(i, S) <= Len(R) /\ Rank(i, S) \in 1 .. Len(R)
                            /\ R[Rank(i, S)] \in Answers(p, i, c.to)
        BY <4>1, <1>1, <1>3, AllAnswered, Zenon
      <4> QED
        BY <4>2, Zenon
    <3>3. IsOpen(c) => c.nr \in S /\ Rank(c.nr, S) > Len(R)
      BY <2>2 DEF IsOpen
    <3> HIDE DEF S, R
    <3>4. ~ IsOpen(c)
      BY <3>2, <3>3
    <3> QED
      BY <3>1, <3>4
  <2> QED
    BY <2>1, <2>2
<1>6. (Open)' = Open
  BY <1>5, OpenNext
<1>7. Left' = Left
  BY <1>1, <1>3 DEF Left
<1> QED
  BY <1>1, <1>6, <1>7 DEF Unseen

LEMMA BeginEnters ==
  ASSUME ExchangeInv, OpenInv, OpenInv', NEW p \in Proc, Begin(p)
  PROVE  Abstract!Enter(p)
<1>1. PICK list \in Seq(Proc) : Begun(p, list)
  BY BeginChanges DEF ExchangeInv
<1>2. /\ pc[p] = "out" /\ call[p] + 1 \in Call
      /\ call' = [call EXCEPT ![p] = @ + 1]
      /\ contact_proc_list' = [contact_proc_list EXCEPT ![p] = list]
      /\ responses_complete' = [responses_complete EXCEPT ![p] = (list = <<>>)]
      /\ responses' = [responses EXCEPT ![p] = <<>>]
      /\ \/ ~ Uninitialized(list) /\ pc' = [pc EXCEPT ![p] = "loop"]
         \/ Uninitialized(list) /\ pc' = [pc EXCEPT ![p] = "post"]
         \/ Uninitialized(list) /\ pc' = [pc EXCEPT ![p] = "crash"]
  BY <1>1 DEF Begun
<1>3. /\ pc \in [Proc -> {"out", "loop", "parent", "post", "crash"}]
      /\ call \in [Proc -> 0 .. Len(Rnums)]
      /\ contact_proc_list \in [Proc -> Seq(Proc)]
      /\ responses_complete \in [Proc -> BOOLEAN]
      /\ responses \in [Proc -> Seq(AnswerMsg)]
  BY DEF ExchangeInv, TypeInv
<1>4. \A q \in Proc : q # p => Untouched(q) /\ (Gone(q)' <=> Gone(q))
  <2>1. ASSUME NEW q \in Proc, q # p PROVE Untouched(q) /\ (Gone(q)' <=> Gone(q))
    <3>1. pc'[q] = pc[q]
      BY <2>1, <1>2, <1>3
    <3> QED
      BY <3>1, <2>1, <1>2, <1>3 DEF Untouched, Asking, Gone
  <2> QED
    BY <2>1
<1>5. Gone(p) /\ ~ Gone(p)' /\ ~ Asking(p)
  <2>1. pc'[p] = "loop" \/ (NumProcs = 1 /\ pc'[p] \in {"post", "crash"})
    BY <1>2, <1>3 DEF Uninitialized
  <2> QED
    BY <2>1, <1>2 DEF Gone, Asking
<1> DEFINE new == {c \in (Open)' : c.from = p}
<1>6. ASSUME NEW c \in Contacts, c.from # p PROVE IsOpen(c)' <=> IsOpen(c)
  <2>1. "response" \in Kinds /\ "response" # "contact"
    BY DEF Kinds
  <2>2. chan'[<<c.to, c.from, <<"response", Rnums[c.in]>>>>] =
          chan[<<c.to, c.from, <<"response", Rnums[c.in]>>>>]
    BY <2>1, <1>1, ContactParts DEF Begun
  <2> QED
    BY <2>2, <1>4, <1>6, ContactParts, OpenFrame
<1>7. \A c \in Contacts : c.from = p => ~ IsOpen(c)
  BY <1>5 DEF IsOpen
<1>8. (Open)' = Open \cup new
  BY <1>6, <1>7, OpenNext
<1>9. \A c \in new : /\ c \in Contacts /\ c.from = p /\ c.in = call[p] + 1
                     /\ c.nr \in IndicesTo(p, c.to)'
  <2>1. ASSUME NEW c \in new
        PROVE  /\ c \in Contacts /\ c.from = p /\ c.in = call[p] + 1
               /\ c.nr \in IndicesTo(p, c.to)'
    <3>1. c \in Contacts /\ c.from = p /\ IsOpen(c)'
      BY OpenNext
    <3>2. call'[p] = call[p] + 1
      BY <1>2, <1>3
    <3> QED
      BY <3>1, <3>2 DEF IsOpen
  <2> QED
    BY <2>1
<1>10. ASSUME NEW c \in new, NEW d \in new, c.nr = d.nr PROVE c = d
  <2>1. /\ c.nr \in IndicesTo(p, c.to)' /\ d.nr \in IndicesTo(p, d.to)'
        /\ c.from = p /\ d.from = p /\ c.in = d.in
        /\ c \in Contacts /\ d \in Contacts
    BY <1>9
  <2>2. c.to = d.to
    BY <2>1, <1>10 DEF IndicesTo
  <2> HIDE DEF new
  <2> QED
    BY <2>1, <2>2, <1>10 DEF Contacts
<1> HIDE DEF new
<1>11. new \in SUBSET {c \in Contacts : c.from = p /\ c.in = call[p] + 1}
  BY <1>9
<1>12. Left' = Left /\ Left[p] = call[p] /\ call[p] < Len(Rnums)
  <2>1. ASSUME NEW q \in Proc
        PROVE  (IF Gone(q)' THEN call'[q] ELSE call'[q] - 1) =
                 (IF Gone(q) THEN call[q] ELSE call[q] - 1)
    <3>1. CASE q = p
      BY <3>1, <1>2, <1>3, <1>5
    <3>2. CASE q # p
      BY <3>2, <1>2, <1>3, <1>4
    <3> QED
      BY <3>1, <3>2
  <2>2. Left' = Left
    BY <2>1 DEF Left
  <2>3. call[p] < Len(Rnums)
    BY <1>2, <1>3, CallType
  <2> QED
    BY <2>2, <2>3, <1>5 DEF Left
<1>13. Abstract!EnterWith(p, new)
  BY <1>2, <1>8, <1>12 DEF Abstract!EnterWith, Left
<1>14. Abstract!Contact = Contacts
  BY DEF Abstract!Contact, Contacts, Call
<1> QED
  BY <1>10, <1>11, <1>13, <1>14 DEF Abstract!Enter

\* p answers the oldest contact of q, and with it closes that contact only.
LEMMA FillResponseAnswers ==
  ASSUME ExchangeInv, OpenInv, OpenInv', NEW p \in Proc, FillResponse(p)
  PROVE  \E c \in Open : Abstract!Answer(c)
<1>1. PICK q \in Proc, contact \in ContactMsg, rest \in ContactMsg \cup {Missing} :
        Filled(p, q, contact, rest)
  BY FillResponseChanges DEF ExchangeInv
<1>2. PICK i \in IndicesTo(q, p) : Answering(p, q, contact, i)
  BY <1>1, FilledIs
<1>3. PICK r \in RnumSet : r = Rnums[call[p]]
  BY <1>1, CallType DEF Filled
<1> DEFINE S == IndicesTo(q, p)
           R == chan[<<p, q, <<"response", r>>>>]
           answer == [to |-> contact, by |-> p, in |-> call[p], rest |-> rest]
           c0 == [from |-> q, to |-> p, in |-> call[p], nr |-> i]
<1>4. /\ pc[p] = "loop" /\ call[p] \in Call
      /\ UNCHANGED <<pc, call, contact_proc_list, responses_complete, responses>>
      /\ chan'[<<p, q, <<"response", r>>>>] = Append(R, answer)
  BY <1>1, <1>3 DEF Filled, flags
<1>5. /\ Asking(q) /\ call[q] = call[p] /\ i \in S /\ contact = Asked(q, i)
      /\ Rank(i, S) = Len(R) + 1
  BY <1>2, <1>3 DEF Answering
<1>6. R \in Seq(AnswerMsg)
  BY ChanTypes DEF ExchangeInv
<1>7. /\ \A j \in S : Rank(j, S) \in Nat
      /\ \A j, k \in S : Rank(j, S) = Rank(k, S) => j = k
  <2>1. /\ Cardinality(S) \in Nat
        /\ \A j \in S : Rank(j, S) \in 1 .. Cardinality(S)
        /\ \A j, k \in S : Rank(j, S) = Rank(k, S) => j = k
    BY Ranks, Zenon DEF ExchangeInv
  <2> HIDE DEF S
  <2> QED
    BY <2>1
<1>8. c0 \in Contacts
  <2>1. i \in 1 .. MaxContacts
    BY <1>5 DEF Asked, ContactMsg
  <2> QED
    BY <2>1, <1>4 DEF Contacts
<1>9. \A x \in Proc : Untouched(x)
  BY <1>4 DEF Untouched, Asking
<1>10. Len(chan'[<<p, q, <<"response", r>>>>]) = Len(R) + 1 /\ Len(R) \in Nat
  BY <1>4, <1>6
<1>11. S' = S
  BY <1>4 DEF IndicesTo, Indices
<1>12. ASSUME NEW c \in Contacts PROVE IsOpen(c)' <=> IsOpen(c) /\ c # c0
  <2>1. c.from \in Proc /\ c.to \in Proc /\ c.in \in Call /\ Rnums[c.in] \in RnumSet
    BY ContactParts
  <2>2. CASE c.from = q /\ c.to = p /\ c.in = call[p]
    <3>1. IsOpen(c) <=> c.nr \in S /\ Rank(c.nr, S) > Len(R)
      BY <2>2, <1>3, <1>5 DEF IsOpen
    <3>2. IsOpen(c)' <=> c.nr \in S /\ Rank(c.nr, S) > Len(R) + 1
      <4>1. Asking(q)' /\ call'[q] = call[q]
        BY <1>5, <1>9 DEF Untouched
      <4> QED
        BY <4>1, <2>2, <1>3, <1>5, <1>10, <1>11 DEF IsOpen
    <3>3. c = c0 <=> c.nr = i
      BY <2>2, <1>8 DEF Contacts
    <3> HIDE DEF S, R, c0
    <3> QED
      BY <3>1, <3>2, <3>3, <1>5, <1>7, <1>10
  <2>3. CASE c.from = q /\ c.to = p /\ c.in # call[p]
    BY <2>3, <1>4, <1>5 DEF IsOpen
  <2>4. CASE ~ (c.from = q /\ c.to = p)
    <3>1. "response" \in Kinds /\ "response" # "contact" /\ "response" # "post"
      BY DEF Kinds
    <3>2. chan'[<<c.to, c.from, <<"response", Rnums[c.in]>>>>] =
            chan[<<c.to, c.from, <<"response", Rnums[c.in]>>>>]
      BY <3>1, <2>1, <2>4, <1>1 DEF Filled
    <3> QED
      BY <3>2, <2>1, <2>4, <1>9, OpenFrame
  <2> QED
    BY <2>2, <2>3, <2>4
<1>13. IsOpen(c0)
  BY <1>3, <1>5, <1>10 DEF IsOpen
<1> HIDE DEF c0
<1>14. c0 \in Open /\ (Open)' = Open \ {c0}
  BY <1>8, <1>12, <1>13, OpenNext
<1>15. Left' = Left /\ call' = call /\ Left[p] < call[p]
  <2>1. Left' = Left
    BY <1>4 DEF Left, Gone
  <2>2. ~ Gone(p)
    BY <1>4 DEF Gone
  <2> QED
    BY <2>1, <2>2, <1>4, CallType DEF Left
<1> QED
  BY <1>14, <1>15 DEF Abstract!Answer, Left, c0

\* When p stops probing, the sweep has been to all processes.
LEMMA TerminateSeesAll ==
  ASSUME ExchangeInv, NEW p \in Proc, Terminate(p), NEW q \in Proc
  PROVE  Up(q, call[p])
<1> USE DEF ExchangeInv
<1>1. /\ pc[p] = "loop" /\ responses_complete[p] /\ children_complete[p]
      /\ p # Root => TermFrom({Parent(p)}, p)
  BY DEF Terminate
<1>2. PICK n \in Call : n = call[p]
  BY <1>1, Places
<1>3. CASE p = Root
  <2>1. Up(Root, n)
    BY <1>1, <1>2, <1>3 DEF Up
  <2> QED
    BY <2>1, <1>2, RootUp
<1>4. CASE p # Root
  <2>1. Parent(p) \in Proc /\ Parent(p) # p /\ Parent(p) \notin Children(p)
    BY <1>4, Family
  <2>2. chan[<<Parent(p), p, <<"term", Rnums[n]>>>>] # <<>>
    BY <1>1, <1>2, <1>4 DEF TermFrom, Tag
  <2>3. Passing(Parent(p), p, n)
    BY <2>1, <2>2, <1>2, TermComes
  <2>4. ~ (Parent(p) # Root /\ p = Parent(Parent(p)))
    BY <2>1, ChildrenParent
  <2>5. Down(Parent(p), n)
    BY <2>3, <2>4 DEF Passing
  <2> QED
    BY <2>1, <2>5, <1>2, AllUp
<1> QED
  BY <1>3, <1>4

\* A process stops probing when all have entered and have their answers.
LEMMA TerminateLeaves ==
  ASSUME ExchangeInv, OpenInv, OpenInv', NEW p \in Proc, Terminate(p)
  PROVE  Abstract!Leave(p)
<1>1. /\ pc[p] = "loop" /\ responses_complete[p] /\ children_complete[p] /\ NumProcs > 1
      /\ pc' = [pc EXCEPT ![p] = "post"]
      /\ UNCHANGED <<call, contact_proc_list, responses_complete, children_complete, responses>>
  BY DEF Terminate, Goto, flags
<1>2. /\ pc \in [Proc -> {"out", "loop", "parent", "post", "crash"}]
      /\ call \in [Proc -> 0 .. Len(Rnums)] /\ call[p] \in Call
  BY <1>1, Places DEF ExchangeInv, TypeInv
<1>3. \A q \in Proc : Untouched(q)
  BY <1>1, <1>2 DEF Untouched, Asking
<1>4. \A a, b \in Proc, kind \in ContentKinds, r \in RnumSet :
        chan'[<<a, b, <<kind, r>>>>] = chan[<<a, b, <<kind, r>>>>]
  <2> DEFINE froms == IF p = Root THEN {} ELSE {Parent(p)}
  <2>1. chan' = SendTerm(Children(p), p, TakeTerm(froms, p, chan))
    BY TerminateSends DEF ExchangeInv
  <2> HIDE DEF froms
  <2> QED
    BY <2>1, <1>2, SweepChannels DEF ExchangeInv
<1>5. ASSUME NEW c \in Contacts PROVE IsOpen(c)' <=> IsOpen(c)
  BY <1>3, <1>4, ContactParts, OpenFrame DEF ContentKinds
<1>6. (Open)' = Open
  BY <1>5, OpenNext
<1>7. ASSUME NEW q \in Proc PROVE call[q] >= call[p]
  <2>1. Up(q, call[p])
    BY TerminateSeesAll
  <2>2. call[p] \in Nat /\ call[q] \in Nat
    BY <1>2
  <2> QED
    BY <2>1, <2>2 DEF Up
<1>8. ASSUME NEW c \in Open PROVE c.in # call[p]
  <2>1. c \in Contacts /\ IsOpen(c)
    BY OpenNext
  <2>2. Up(c.from, call[p])
    BY <2>1, ContactParts, TerminateSeesAll
  <2>3. call[c.from] \in Nat /\ call[p] \in Nat
    BY <2>1, <1>2, ContactParts
  <2> QED
    BY <2>1, <2>2, <2>3 DEF IsOpen, Up, Asking
<1>9. ~ Gone(p) /\ Gone(p)' /\ \A q \in Proc : q # p => (Gone(q)' <=> Gone(q))
  BY <1>1, <1>2 DEF Gone
<1>10. Left' = [Left EXCEPT ![p] = @ + 1] /\ Left[p] < call[p] /\ call' = call
  <2>1. ASSUME NEW q \in Proc
        PROVE  (IF Gone(q)' THEN call'[q] ELSE call'[q] - 1) =
                 (IF q = p THEN call[p] - 1 + 1
                  ELSE IF Gone(q) THEN call[q] ELSE call[q] - 1)
    <3>1. CASE q = p
      BY <3>1, <1>1, <1>2, <1>9, CallType
    <3>2. CASE q # p
      BY <3>2, <1>1, <1>9
    <3> QED
      BY <3>1, <3>2
  <2>2. Left[p] = call[p] - 1
    BY <1>9 DEF Left
  <2>3. Left' = [Left EXCEPT ![p] = @ + 1]
    BY <2>1, <2>2 DEF Left
  <2>4. call[p] - 1 < call[p]
    BY <1>2, CallType
  <2> QED
    BY <2>2, <2>3, <2>4, <1>1
<1> QED
  BY <1>6, <1>7, <1>8, <1>10 DEF Abstract!Leave, Left

\* A process alone leaves when it returns; otherwise it has left before.
LEMMA PostProcessLeaves ==
  ASSUME ExchangeInv, OpenInv, OpenInv', NEW p \in Proc, PostProcess(p)
  PROVE  Unseen \/ Abstract!Leave(p)
<1>1. /\ pc[p] = "post"
      /\ chan' = Received(p, LongOnes(p), "post")
      /\ responses' = [responses EXCEPT ![p] = responses'[p]]
      /\ pc' = [pc EXCEPT ![p] = "out"]
      /\ UNCHANGED <<call, contact_proc_list, responses_complete>>
  <2>1. \E x : responses' = [responses EXCEPT ![p] = x]
    BY Zenon DEF PostProcess
  <2>2. responses \in [Proc -> Seq(AnswerMsg)]
    BY DEF ExchangeInv, TypeInv
  <2>3. responses' = [responses EXCEPT ![p] = responses'[p]]
    BY <2>1, <2>2
  <2>4. /\ pc[p] = "post"
        /\ chan' = Received(p, LongOnes(p), "post")
        /\ pc' = [pc EXCEPT ![p] = "out"]
        /\ UNCHANGED <<call, contact_proc_list, responses_complete>>
    BY Zenon DEF PostProcess, Goto, flags
  <2> QED
    BY <2>3, <2>4
<1>2. /\ pc \in [Proc -> {"out", "loop", "parent", "post", "crash"}]
      /\ call \in [Proc -> 0 .. Len(Rnums)] /\ call[p] \in Call
      /\ responses \in [Proc -> Seq(AnswerMsg)]
  BY <1>1, Places DEF ExchangeInv, TypeInv
<1>3. \A q \in Proc : q # p => Untouched(q) /\ (Gone(q)' <=> Gone(q))
  <2>1. ASSUME NEW q \in Proc, q # p PROVE Untouched(q) /\ (Gone(q)' <=> Gone(q))
    <3>1. pc'[q] = pc[q] /\ responses'[q] = responses[q]
      BY <2>1, <1>1, <1>2
    <3> QED
      BY <3>1, <1>1 DEF Untouched, Asking, Gone
  <2> QED
    BY <2>1
<1>4. ~ Asking(p) /\ ~ Asking(p)' /\ Gone(p)' /\ (Gone(p) <=> NumProcs > 1)
  BY <1>1, <1>2 DEF Asking, Gone
<1>5. Consumed(p, LongOnes(p), "post")
  BY <1>1, <1>2, ReceivedIs, Zenon DEF ExchangeInv
<1>6. ASSUME NEW c \in Contacts PROVE IsOpen(c)' <=> IsOpen(c)
  <2>1. CASE c.from = p
    BY <2>1, <1>4 DEF IsOpen
  <2>2. CASE c.from # p
    <3>1. "response" \in Kinds /\ "response" # "post"
      BY DEF Kinds
    <3>2. chan'[<<c.to, c.from, <<"response", Rnums[c.in]>>>>] =
            chan[<<c.to, c.from, <<"response", Rnums[c.in]>>>>]
      BY <3>1, <1>5, ContactParts DEF Consumed
    <3> QED
      BY <3>2, <2>2, <1>3, ContactParts, OpenFrame
  <2> QED
    BY <2>1, <2>2
<1>7. (Open)' = Open
  BY <1>6, OpenNext
<1>8. CASE NumProcs > 1
  <2>1. Left' = Left
    BY <1>1, <1>3, <1>4, <1>8 DEF Left
  <2> QED
    BY <2>1, <1>1, <1>7 DEF Unseen
<1>9. CASE NumProcs = 1
  <2>1. Proc = {p}
    BY <1>9, Single
  <2>2. Open = {}
    <3>1. ASSUME NEW c \in Open PROVE FALSE
      <4>1. c \in Contacts /\ IsOpen(c)
        BY OpenNext
      <4>2. c.from = p
        BY <4>1, <2>1, ContactParts
      <4> QED
        BY <4>1, <4>2, <1>4 DEF IsOpen
    <3> QED
      BY <3>1
  <2>3. Left' = [Left EXCEPT ![p] = @ + 1] /\ Left[p] < call[p] /\ call' = call
    BY <1>1, <1>2, <1>4, <1>9, <2>1 DEF Left
  <2>4. call[p] >= call[p]
    BY <1>2
  <2> QED
    BY <2>1, <2>2, <2>3, <2>4, <1>7 DEF Abstract!Leave, Left
<1>10. NumProcs > 1 \/ NumProcs = 1
  BY ExchangeAssumption
<1> QED
  BY <1>8, <1>9, <1>10

\* Every step of the exchange is one of the abstract exchange, or not seen in it.
LEMMA StepImplements ==
  ASSUME ExchangeInv, OpenInv, OpenInv', [Next]_vars
  PROVE  [Abstract!Next]_(Abstract!vars)
<1>1. CASE UNCHANGED vars
  <2>1. (Open)' = Open /\ Left' = Left /\ call' = call
    BY <1>1 DEF vars, flags, Open, Left, Gone
  <2> QED
    BY <2>1, UnseenStep DEF Unseen
<1>2. ASSUME NEW p \in Proc, Step(p) PROVE [Abstract!Next]_(Abstract!vars)
  <2>1. CASE Begin(p)
    BY <2>1, BeginEnters DEF Abstract!Next
  <2>2. CASE FillResponse(p)
    BY <2>2, FillResponseAnswers DEF Abstract!Next
  <2>3. CASE ResponsesComplete(p)
    BY <2>3, ResponsesCompleteUnseen, UnseenStep
  <2>4. CASE ChildrenComplete(p)
    BY <2>4, ChildrenCompleteUnseen, UnseenStep
  <2>5. CASE ReceiveFromParent(p)
    BY <2>5, ReceiveFromParentUnseen, UnseenStep
  <2>6. CASE Terminate(p)
    BY <2>6, TerminateLeaves DEF Abstract!Next
  <2>7. CASE PostProcess(p)
    BY <2>7, PostProcessLeaves, UnseenStep DEF Abstract!Next
  <2> QED
    BY <1>2, <2>1, <2>2, <2>3, <2>4, <2>5, <2>6, <2>7 DEF Step
<1> QED
  BY <1>1, <1>2 DEF Next, Finished

LEMMA InitImplements == Init => Abstract!Init
<1> SUFFICES ASSUME Init PROVE Abstract!Init
  OBVIOUS
<1>1. ExchangeInv
  BY InitInv
<1>2. OpenInv
  BY <1>1, OpenRight
<1>3. call = [p \in Proc |-> 0] /\ \A p \in Proc : pc[p] = "out"
  BY DEF Init
<1>4. Open = {}
  <2>1. ASSUME NEW c \in Open PROVE FALSE
    <3>1. c \in Contacts
      BY DEF Open, Contacts, Call
    <3>2. IsOpen(c) /\ c.from \in Proc
      BY <3>1, <1>2, ContactParts DEF OpenInv
    <3> QED
      BY <3>2, <1>3 DEF IsOpen, Asking
  <2> QED
    BY <2>1
<1>5. Left = [p \in Proc |-> 0]
  BY <1>3 DEF Left, Gone
<1> QED
  BY <1>3, <1>4, <1>5 DEF Abstract!Init, Left

\* The exchange with its messages implements the one without: processes enter it
\* one by one, answer each other's contacts, and leave it when all have entered and
\* every contact is answered.
THEOREM ExchangeIsImplemented == Spec => ImplementsExchange
<1>1. Init => Abstract!Init
  BY InitImplements
<1>2. ExchangeInv /\ OpenInv /\ OpenInv' /\ [Next]_vars => [Abstract!Next]_(Abstract!vars)
  BY StepImplements
<1>3. ExchangeInv => OpenInv
  BY OpenRight
<1> QED
  BY <1>1, <1>2, <1>3, ExchangeInvHolds, PTL DEF Spec, ImplementsExchange, Abstract!Spec
=============================================================================
