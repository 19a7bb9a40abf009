-------------------------- MODULE ThreadPoolProof --------------------------
(***************************************************************************)
(* What is proved of the thread pool, for any bound on the threads, any    *)
(* pool size up to it and any finite set of work counts: its types, the    *)
(* states it is in between calls, that the fields of the work are written  *)
(* while all workers are parked, that a reduction joins each value once    *)
(* and loses none, and that it implements TaskPool.                        *)
(*                                                                         *)
(* The heart of it is the tree.  TPI_Init numbers the children of the      *)
(* threads consecutively, so that the fan-in of a thread from its last     *)
(* child to its first visits exactly the threads above the place it has    *)
(* got to; who has deactivated itself has seen all of its children do so;  *)
(* and as every worker has one parent, with a lower number, all are        *)
(* deactivated when main has joined its own children.                      *)
(***************************************************************************)
EXTENDS ThreadPool, FiniteSetTheorems, TLAPS

WF == INSTANCE WellFoundedInduction

-----------------------------------------------------------------------------
(* The tree that TPI_Init numbers. *)

\* A set of naturals that is not empty has a least member.
LEMMA Least ==
  ASSUME NEW S \in SUBSET Nat, S # {}
  PROVE  \E x \in S : \A y \in S : x <= y
<1> DEFINE Less == {ss \in Nat \X Nat : ss[1] < ss[2]}
<1>1. WF!IsWellFoundedOn(Less, Nat)
  BY WF!NatLessThanWellFounded, Zenon DEF WF!OpToRel
<1>2. PICK x \in S : \A y \in S : ~ (<<y, x>> \in Less)
  BY <1>1, WF!WFMin, Zenon
<1>3. ASSUME NEW y \in S PROVE x <= y
  <2>1. ~ (<<y, x>> \in Less)
    BY <1>2
  <2>2. ~ (y < x)
    BY <2>1
  <2> QED
    BY <2>2
<1> QED
  BY <1>3

\* f doubles from one up to m.
Doubles(f, m) ==
  f \in [Nat -> Nat] /\ f[0] = 1 /\ \A k \in 1 .. m : f[k] = 2 * f[k - 1]

\* There is a function that doubles as far as one likes.
LEMMA DoublesExists ==
  ASSUME NEW m \in Nat
  PROVE  \E f : Doubles(f, m)
<1> DEFINE S == {k \in Nat : ~ \E f : Doubles(f, k)}
<1>1. SUFFICES ASSUME S # {} PROVE FALSE
  OBVIOUS
<1>2. PICK l \in S : \A k \in S : l <= k
  BY <1>1, Least
<1>3. l # 0
  <2> DEFINE f == [k \in Nat |-> 1]
  <2>1. Doubles(f, 0)
    BY DEF Doubles
  <2> QED
    BY <2>1
<1>4. PICK f : Doubles(f, l - 1)
  <2>1. l - 1 \in Nat /\ l - 1 \notin S
    BY <1>2, <1>3
  <2> QED
    BY <2>1
<1> DEFINE g == [f EXCEPT ![l] = 2 * f[l - 1]]
<1>5. l \in Nat \ {0} /\ f \in [Nat -> Nat] /\ f[0] = 1
      /\ \A k \in 1 .. l - 1 : f[k] = 2 * f[k - 1]
  BY <1>3, <1>4 DEF Doubles
<1>6. g \in [Nat -> Nat] /\ g[0] = 1
  BY <1>5
<1>7. ASSUME NEW k \in 1 .. l PROVE g[k] = 2 * g[k - 1]
  <2>1. k \in Nat /\ k - 1 \in Nat /\ k - 1 # l /\ g[k - 1] = f[k - 1]
    BY <1>5
  <2>2. CASE k = l
    BY <1>5, <2>1, <2>2
  <2>3. CASE k # l
    BY <1>5, <2>1, <2>3
  <2> QED
    BY <2>2, <2>3
<1>8. Doubles(g, l)
  BY <1>6, <1>7 DEF Doubles
<1> QED
  BY <1>8

\* Two that double agree as far as both do.
LEMMA DoublesUnique ==
  \A f, g : \A m, l \in Nat :
    m <= l /\ Doubles(f, m) /\ Doubles(g, l) => f[m] = g[m]
<1>1. SUFFICES ASSUME NEW f, NEW g, NEW m \in Nat, NEW l \in Nat,
                      m <= l, Doubles(f, m), Doubles(g, l)
               PROVE  f[m] = g[m]
  BY Zenon
<1> DEFINE S == {k \in Nat : k <= m /\ f[k] # g[k]}
<1>2. SUFFICES ASSUME S # {} PROVE FALSE
  BY <1>1
<1>3. PICK k \in S : \A j \in S : k <= j
  BY <1>2, Least
<1>4. k # 0
  BY <1>1 DEF Doubles
<1>5. k - 1 \in Nat /\ k - 1 \notin S /\ k \in 1 .. m /\ k \in 1 .. l
  BY <1>1, <1>3, <1>4
<1>6. f[k] = 2 * f[k - 1] /\ g[k] = 2 * g[k - 1]
  BY <1>1, <1>5 DEF Doubles
<1> QED
  BY <1>1, <1>5, <1>6

\* TPI_Init's "up" is one, doubled k times.
LEMMA TwoToDoubles ==
  TwoTo \in [Nat -> Nat] /\ TwoTo[0] = 1 /\ \A k \in Nat : TwoTo[k + 1] = 2 * TwoTo[k]
<1> DEFINE G(m) == CHOOSE f : Doubles(f, m)
           F == [k \in Nat |-> G(k)[k]]
<1>1. \A m \in Nat : Doubles(G(m), m)
  BY DoublesExists, Zenon
<1> HIDE DEF G
<1>2. F \in [Nat -> Nat] /\ F[0] = 1
  BY <1>1 DEF Doubles
<1>3. ASSUME NEW k \in Nat \ {0} PROVE F[k] = 2 * F[k - 1]
  <2>1. k - 1 \in Nat /\ k - 1 <= k /\ k \in 1 .. k /\ k \in Nat
    OBVIOUS
  <2> PICK j : j = k - 1
    OBVIOUS
  <2>2. Doubles(G(j), j) /\ Doubles(G(k), k)
    BY <1>1, <2>1
  <2>3. G(j)[j] = G(k)[j]
    BY <2>1, <2>2, DoublesUnique
  <2>4. G(k)[k] = 2 * G(k)[k - 1]
    BY <2>1, <2>2 DEF Doubles
  <2> QED
    BY <2>1, <2>3, <2>4
<1>4. F = [k \in Nat |-> IF k = 0 THEN 1 ELSE 2 * F[k - 1]]
  <2>1. \A k \in Nat : F[k] = IF k = 0 THEN 1 ELSE 2 * F[k - 1]
    BY <1>2, <1>3
  <2> QED
    BY <2>1
<1> HIDE DEF F
<1>5. TwoTo = [k \in Nat |-> IF k = 0 THEN 1 ELSE 2 * TwoTo[k - 1]]
  BY <1>4 DEF TwoTo
<1>6. TwoTo[0] = 1 /\ \A k \in Nat : TwoTo[k + 1] = 2 * TwoTo[k]
  <2>1. TwoTo[0] = 1
    BY <1>5
  <2>2. ASSUME NEW k \in Nat PROVE TwoTo[k + 1] = 2 * TwoTo[k]
    <3>1. k + 1 \in Nat /\ k + 1 # 0 /\ k + 1 - 1 = k
      OBVIOUS
    <3> QED
      BY <1>5, <3>1
  <2> QED
    BY <2>1, <2>2
<1>7. ASSUME NEW k \in Nat PROVE TwoTo[k] \in Nat
  <2> DEFINE S == {i \in Nat : TwoTo[i] \notin Nat}
  <2>1. SUFFICES ASSUME S # {} PROVE FALSE
    OBVIOUS
  <2>2. PICK i \in S : \A j \in S : i <= j
    BY <2>1, Least
  <2>3. i # 0
    BY <1>6
  <2> PICK j \in Nat : i = j + 1
    <3>1. i - 1 \in Nat /\ i = i - 1 + 1
      BY <2>3
    <3> QED
      BY <3>1
  <2>4. TwoTo[j] \in Nat
    BY <2>2
  <2> QED
    BY <1>6, <2>2, <2>4
<1> QED
  BY <1>5, <1>6, <1>7

\* The bits of a rank: the powers of two grow, and every number from one on lies between
\* two of them.
LEMMA TwoToGrows ==
  /\ \A k \in Nat : TwoTo[k] > k
  /\ \A j, k \in Nat : j < k => 2 * TwoTo[j] <= TwoTo[k]
  /\ \A w \in Nat \ {0} : \E k \in Nat : TwoTo[k] <= w /\ w < 2 * TwoTo[k]
<1>1. TwoTo[0] = 1 /\ (\A k \in Nat : TwoTo[k] \in Nat /\ TwoTo[k + 1] = 2 * TwoTo[k])
  BY TwoToDoubles
<1>2. ASSUME NEW n \in Nat PROVE TwoTo[n] > n
  <2> DEFINE S == {k \in Nat : ~ (TwoTo[k] > k)}
  <2>1. SUFFICES ASSUME S # {} PROVE FALSE
    OBVIOUS
  <2>2. PICK k \in S : \A i \in S : k <= i
    BY <2>1, Least
  <2>3. k # 0
    BY <1>1
  <2>4. PICK j \in Nat : k = j + 1
    <3>1. k - 1 \in Nat /\ k = k - 1 + 1
      BY <2>3
    <3> QED
      BY <3>1
  <2>5. TwoTo[j] > j
    BY <2>2, <2>4
  <2> QED
    BY <1>1, <2>2, <2>4, <2>5
<1>3. ASSUME NEW j \in Nat, NEW n \in Nat, j < n PROVE 2 * TwoTo[j] <= TwoTo[n]
  <2> DEFINE S == {k \in Nat : j < k /\ ~ (2 * TwoTo[j] <= TwoTo[k])}
  <2>1. SUFFICES ASSUME S # {} PROVE FALSE
    BY <1>3
  <2>2. PICK k \in S : \A i \in S : k <= i
    BY <2>1, Least
  <2>3. k # 0
    OBVIOUS
  <2>4. PICK i \in Nat : k = i + 1
    <3>1. k - 1 \in Nat /\ k = k - 1 + 1
      BY <2>3
    <3> QED
      BY <3>1
  <2>5. i = j \/ (j < i /\ 2 * TwoTo[j] <= TwoTo[i])
    BY <2>2, <2>4
  <2> QED
    BY <1>1, <2>2, <2>4, <2>5
<1>4. ASSUME NEW w \in Nat \ {0} PROVE \E k \in Nat : TwoTo[k] <= w /\ w < 2 * TwoTo[k]
  <2> DEFINE S == {k \in Nat : w < TwoTo[k]}
  <2>1. w \in S
    BY <1>2
  <2>2. PICK k \in S : \A i \in S : k <= i
    BY <2>1, Least
  <2>3. k # 0
    BY <1>1
  <2>4. PICK i \in Nat : k = i + 1
    <3>1. k - 1 \in Nat /\ k = k - 1 + 1
      BY <2>3
    <3> QED
      BY <3>1
  <2>5. ~ (w < TwoTo[i])
    BY <2>2, <2>4
  <2> QED
    BY <1>1, <2>2, <2>4, <2>5
<1> QED
  BY <1>2, <1>3, <1>4

\* The threads 1 .. n - 1 are each the child of one lower thread.
ChildOf(n) == [l \in Links(n) |-> l[1] + TwoTo[l[2]]]

\* What a link says of its two numbers.
LEMMA LinkIs ==
  ASSUME NEW n \in Nat, NEW l \in Links(n)
  PROVE  /\ l[1] \in Nat /\ l[2] \in Nat /\ l = <<l[1], l[2]>>
         /\ TwoTo[l[2]] \in Nat /\ TwoTo[l[2]] > l[1] /\ l[1] + TwoTo[l[2]] < n
<1>1. l \in (0 .. n) \X (0 .. n) /\ TwoTo[l[2]] > l[1] /\ l[1] + TwoTo[l[2]] < n
  BY DEF Links
<1>2. l[1] \in Nat /\ l[2] \in Nat /\ l = <<l[1], l[2]>>
  BY <1>1
<1> QED
  BY <1>1, <1>2, TwoToDoubles

\* No thread is the child of two.
LEMMA OneParent ==
  ASSUME NEW n \in Nat
  PROVE  ChildOf(n) \in Injection(Links(n), 1 .. n - 1)
<1>1. ASSUME NEW l \in Links(n) PROVE l[1] + TwoTo[l[2]] \in 1 .. n - 1
  BY LinkIs
<1>2. ASSUME NEW l \in Links(n), NEW m \in Links(n), l[1] + TwoTo[l[2]] = m[1] + TwoTo[m[2]]
      PROVE  l = m
  <2> PICK s, t, j, k : s = l[1] /\ j = l[2] /\ t = m[1] /\ k = m[2]
    OBVIOUS
  <2>1. /\ s \in Nat /\ t \in Nat /\ j \in Nat /\ k \in Nat
        /\ l = <<s, j>> /\ m = <<t, k>>
        /\ TwoTo[j] \in Nat /\ TwoTo[k] \in Nat /\ s < TwoTo[j] /\ t < TwoTo[k]
        /\ s + TwoTo[j] = t + TwoTo[k]
    BY <1>2, LinkIs
  <2>2. ~ (j < k) /\ ~ (k < j)
    BY <2>1, TwoToGrows
  <2> QED
    BY <2>1, <2>2
<1> QED
  BY <1>1, <1>2 DEF ChildOf, Injection, IsInjective

\* Every worker is a child: of its rank without the highest bit.
LEMMA ParentExists ==
  ASSUME NEW n \in Nat, NEW w \in 1 .. n - 1
  PROVE  \E l \in Links(n) : ChildOf(n)[l] = w /\ l[1] < w
<1>1. PICK k \in Nat : TwoTo[k] <= w /\ w < 2 * TwoTo[k]
  BY TwoToGrows
<1>2. TwoTo[k] \in Nat /\ TwoTo[k] > k
  BY TwoToDoubles, TwoToGrows
<1> PICK t : t = w - TwoTo[k]
  OBVIOUS
<1>3. t \in 0 .. n /\ k \in 0 .. n /\ TwoTo[k] > t /\ t + TwoTo[k] < n /\ t + TwoTo[k] = w /\ t < w
  BY <1>1, <1>2
<1> PICK l : l = <<t, k>>
  OBVIOUS
<1>4. l \in Links(n) /\ l[1] = t /\ l[2] = k
  BY <1>3 DEF Links
<1> QED
  BY <1>3, <1>4 DEF ChildOf

\* The numbers that TPI_Init gives are those of TreeShape.
LEMMA ChildrenNumbered ==
  ASSUME NEW n \in Nat \ {0}
  PROVE  /\ FirstChild(0, n) = 1
         /\ FirstChild(n, n) = n
         /\ \A t \in 0 .. n : FirstChild(t, n) \in 1 .. n
         /\ \A t \in 0 .. n - 1 : t < FirstChild(t, n) /\ FirstChild(t, n) <= FirstChild(t + 1, n)
<1> DEFINE Before(t) == {l \in Links(n) : l[1] < t}
<1>1. ChildOf(n) \in Surjection(Links(n), 1 .. n - 1)
  BY ParentExists, OneParent DEF Surjection, Injection
<1>2. IsFiniteSet(Links(n)) /\ Cardinality(Links(n)) = n - 1
  <2>1. IsFiniteSet(1 .. n - 1) /\ Cardinality(1 .. n - 1) = n - 1
    BY FS_Interval
  <2> QED
    BY <1>1, <2>1, OneParent, FS_Injection, Zenon
<1>3. \A t : Before(t) \in SUBSET Links(n)
  OBVIOUS
<1>4. \A t : IsFiniteSet(Before(t)) /\ Cardinality(Before(t)) \in Nat /\ Cardinality(Before(t)) <= n - 1
  BY <1>2, <1>3, FS_Subset, FS_CardinalityType
<1>5. Before(0) = {}
  BY LinkIs
<1>6. Before(n) = Links(n)
  <2>1. \A l \in Links(n) : l[1] < n
    BY LinkIs
  <2> QED
    BY <2>1
<1>7. ASSUME NEW t \in 0 .. n - 1 PROVE Cardinality(Before(t)) <= Cardinality(Before(t + 1))
  <2>1. \A l \in Links(n) : l[1] < t => l[1] < t + 1
    BY LinkIs
  <2>2. Before(t) \in SUBSET Before(t + 1)
    BY <2>1
  <2> QED
    BY <1>4, <2>2, FS_Subset
<1>8. ASSUME NEW t \in 0 .. n - 1 PROVE t <= Cardinality(Before(t))
  <2> DEFINE g == [w \in 1 .. t |-> CHOOSE l \in Links(n) : ChildOf(n)[l] = w /\ l[1] < w]
  <2>1. ASSUME NEW w \in 1 .. t
        PROVE  g[w] \in Links(n) /\ ChildOf(n)[g[w]] = w /\ g[w][1] < w
    <3>1. w \in 1 .. n - 1
      OBVIOUS
    <3>2. \E l \in Links(n) : ChildOf(n)[l] = w /\ l[1] < w
      BY <3>1, ParentExists
    <3>3. g[w] = CHOOSE l \in Links(n) : ChildOf(n)[l] = w /\ l[1] < w
      OBVIOUS
    <3> QED
      BY <3>2, <3>3, Zenon
  <2>2. ASSUME NEW w \in 1 .. t PROVE g[w] \in Before(t)
    <3>1. g[w][1] \in Nat /\ g[w][1] < w /\ w <= t
      BY <2>1, LinkIs
    <3> QED
      BY <2>1, <3>1
  <2>3. g \in Injection(1 .. t, Before(t))
    <3>1. g \in [1 .. t -> Before(t)]
      BY <2>2
    <3>2. \A v, w \in 1 .. t : g[v] = g[w] => v = w
      BY <2>1
    <3> HIDE DEF g
    <3> QED
      BY <3>1, <3>2 DEF Injection, IsInjective
  <2>4. Cardinality(1 .. t) = t
    BY FS_Interval
  <2> HIDE DEF g
  <2> QED
    BY <1>4, <2>3, <2>4, FS_Injection
<1>9. \A t : FirstChild(t, n) = 1 + Cardinality(Before(t))
  BY DEF FirstChild
<1> HIDE DEF Before
<1>10. FirstChild(0, n) = 1 /\ FirstChild(n, n) = n
  BY <1>2, <1>5, <1>6, <1>9, FS_EmptySet
<1>11. \A t \in 0 .. n : FirstChild(t, n) \in 1 .. n
  BY <1>4, <1>9
<1>12. \A t \in 0 .. n - 1 : t < FirstChild(t, n)
  BY <1>4, <1>8, <1>9
<1>13. \A t \in 0 .. n - 1 : FirstChild(t, n) <= FirstChild(t + 1, n)
  BY <1>4, <1>7, <1>9
<1> QED
  BY <1>10, <1>11, <1>12, <1>13

\* Every worker is a child of a lower thread.
LEMMA HasParent ==
  ASSUME NEW n \in Nat \ {0}, NEW fan, NEW w \in 1 .. n - 1,
         \A t \in 0 .. n : fan[t] \in Nat, fan[0] = 1, fan[n] = n, \A t \in 0 .. n - 1 : t < fan[t]
  PROVE  \E p \in 0 .. w - 1 : w \in fan[p] .. fan[p + 1] - 1
<1> DEFINE S == {p \in Nat : p < n /\ w < fan[p + 1]}
<1>1. n - 1 \in S
  OBVIOUS
<1>2. PICK p \in S : \A q \in S : p <= q
  BY <1>1, Least
<1>3. fan[p] <= w
  <2>1. CASE p = 0
    BY <2>1
  <2>2. CASE p # 0
    <3> PICK q : q = p - 1
      OBVIOUS
    <3>1. q \in Nat /\ p = q + 1 /\ fan[p] \in Nat
      BY <2>2
    <3>2. ~ (p <= q) /\ q < n
      BY <3>1
    <3>3. ~ (w < fan[q + 1])
      BY <1>2, <3>1, <3>2
    <3> QED
      BY <3>1, <3>3
  <2> QED
    BY <2>1, <2>2
<1>4. p < w
  <2>1. p < fan[p] /\ fan[p] \in Nat
    BY <1>2
  <2> QED
    BY <1>3, <2>1
<1> QED
  BY <1>2, <1>3, <1>4

\* The largest count there is.
LEMMA MaxWorkIs ==
  MaxWork \in Nat /\ MaxThreads <= MaxWork /\ \A c \in WorkCounts : c <= MaxWork
<1> DEFINE S == WorkCounts \cup {MaxThreads}
<1>1. S \in SUBSET Nat /\ IsFiniteSet(S)
  BY PoolAssumption, FS_AddElement
<1> HIDE DEF S
<1>2. \E n \in Nat : \E f \in [1 .. n -> Nat] : \A c \in S : \E i \in 1 .. n : f[i] = c
  <2>1. Cardinality(S) \in Nat /\ ExistsBijection(1 .. Cardinality(S), S)
    BY <1>1, FS_CardinalityType
  <2> PICK n \in Nat : n = Cardinality(S)
    BY <2>1
  <2>2. PICK f : f \in Bijection(1 .. n, S)
    BY <2>1 DEF ExistsBijection
  <2>3. f \in [1 .. n -> S] /\ \A c \in S : \E i \in 1 .. n : f[i] = c
    BY <2>2 DEF Bijection, Injection, Surjection
  <2>4. f \in [1 .. n -> Nat]
    BY <1>1, <2>3
  <2> QED
    BY <2>3, <2>4
<1>3. PICK n \in Nat : \E f \in [1 .. n -> Nat] : \A c \in S : \E i \in 1 .. n : f[i] = c
  BY <1>2
<1>4. PICK f \in [1 .. n -> Nat] : \A c \in S : \E i \in 1 .. n : f[i] = c
  BY <1>3
<1>5. \E u \in Nat : \A i \in 1 .. n : f[i] <= u
  <2> DEFINE Bounded(k) == \E u \in Nat : \A i \in 1 .. k : f[i] <= u
             Bad == {k \in Nat : k <= n /\ ~ Bounded(k)}
  <2>1. SUFFICES ASSUME Bad # {} PROVE FALSE
    <3> HIDE DEF Bounded
    <3>1. n \in Nat /\ n <= n
      OBVIOUS
    <3>2. Bad = {} => Bounded(n)
      BY <3>1
    <3> QED
      BY <3>2 DEF Bounded
  <2>2. PICK k \in Bad : \A j \in Bad : k <= j
    BY <2>1, Least
  <2>3. k # 0
    <3>1. \A i \in 1 .. 0 : f[i] <= 0
      OBVIOUS
    <3> QED
      BY <3>1
  <2>4. PICK j \in Nat : k = j + 1
    <3>1. k - 1 \in Nat /\ k = k - 1 + 1
      BY <2>3
    <3> QED
      BY <3>1
  <2>5. ~ (k <= j) /\ j <= n
    BY <2>4
  <2>6. PICK u \in Nat : \A i \in 1 .. j : f[i] <= u
    BY <2>2, <2>5
  <2>7. f[k] \in Nat
    BY <2>4
  <2> PICK v : v = u + f[k]
    OBVIOUS
  <2>8. v \in Nat /\ u <= v /\ f[k] <= v
    BY <2>7
  <2>9. ASSUME NEW i \in 1 .. k PROVE f[i] <= v
    <3>1. CASE i = k
      BY <2>8, <3>1
    <3>2. CASE i # k
      <4>1. i \in 1 .. j /\ f[i] \in Nat
        BY <2>4, <2>5, <3>2
      <4> QED
        BY <2>6, <2>8, <4>1
    <3> QED
      BY <3>1, <3>2
  <2> QED
    BY <2>2, <2>8, <2>9
<1> DEFINE U == {u \in Nat : \A c \in S : c <= u}
<1>6. U # {}
  BY <1>4, <1>5
<1>7. PICK u \in U : \A v \in U : u <= v
  BY <1>6, Least
<1>8. u \in S
  <2>1. SUFFICES ASSUME u \notin S PROVE FALSE
    OBVIOUS
  <2>2. MaxThreads \in S /\ MaxThreads \in Nat \ {0}
    BY PoolAssumption DEF S
  <2>3. u - 1 \in Nat /\ ~ (u <= u - 1)
    BY <2>2, <1>7
  <2>4. \A c \in S : c <= u - 1
    BY <1>1, <1>7, <2>1
  <2> QED
    BY <1>7, <2>3, <2>4
<1>9. MaxWork \in S /\ \A c \in S : c <= MaxWork
  BY <1>7, <1>8 DEF MaxWork, S
<1> QED
  BY <1>1, <1>9 DEF S

-----------------------------------------------------------------------------
(* The inductive invariant. *)

\* The tree of n threads: the children of a thread have higher numbers than it, and every
\* worker is the child of one.
TreeShape(n) ==
  /\ m_thread_fan[0] = 1 /\ m_thread_fan[n] = n
  /\ \A t \in 0 .. n - 1 : t < m_thread_fan[t] /\ m_thread_fan[t] <= m_thread_fan[t + 1]
Kids(t) == m_thread_fan[t] .. m_thread_fan[t + 1] - 1

\* What main is doing.
Undoing  == pc[Main] \in {"undo", "undo_activate", "undo_wait"}
Barriers == {"barrier", "run", "work", "fan"}
Starting == call = "TPI_Init" /\ pc[Main] \in {"create"} \cup Barriers
Ending   == call = "TPI_Finalize" /\ pc[Main] # "app"

\* The workers that main has activated or created for what it is doing.
On(t) ==
  /\ t \in Workers /\ ~ Undoing
  /\ pc[Main] \in {"create", "activate"} => child[Main] <= t
  /\ pc[Main] = "app" => m_work_routine # NULL

\* What a worker is doing.
Gone(t)   == pc[t] = "none" /\ t \notin ending
Parked(t) == pc[t] = "spin" /\ m_control[t] = 0 /\ t \notin ending
Called(t) == pc[t] \in {"spin", "active"} /\ m_control[t] = 1 /\ t \notin ending
Meets(t)  == pc[t] \in {"barrier", "fan"} /\ m_control[t] = 1
Runs(t)   == pc[t] \in {"run", "work"} /\ m_control[t] = 1 /\ t \notin ending

OnOK(t) ==
  IF Starting THEN Parked(t) \/ (Meets(t) /\ t \notin ending)
  ELSE IF Ending THEN \/ Called(t) \/ (Meets(t) /\ t \in ending)
                      \/ (Gone(t) /\ m_control[t] = 0)
  ELSE Parked(t) \/ Called(t) \/ Runs(t) \/ (Meets(t) /\ t \notin ending)

OffOK(t) ==
  IF t \notin Workers THEN Gone(t)
  ELSE IF pc[Main] = "create" THEN Gone(t) /\ m_control[t] = 1
  ELSE Parked(t)

\* child[Main] is the thread that could not be created, m_thread_count the one that ends.
UndoOK(t) ==
  IF child[Main] < t /\ (t < m_thread_count \/ (t = m_thread_count /\ pc[Main] = "undo_activate"))
  THEN Parked(t) \/ (Meets(t) /\ t \notin ending)
  ELSE IF t = m_thread_count /\ pc[Main] = "undo_wait"
  THEN Called(t) \/ (Meets(t) /\ t \in ending) \/ (Gone(t) /\ m_control[t] = 0)
  ELSE Gone(t)

WorkerOK(t) == IF Undoing THEN UndoOK(t) ELSE IF On(t) THEN OnOK(t) ELSE OffOK(t)

MainOK ==
  /\ pc[Main] \in {"app", "barrier", "run", "work", "fan", "activate", "wait", "serial",
                   "create", "undo", "undo_activate", "undo_wait"}
  /\ pc[Main] = "create" => m_thread_count > 0 /\ child[Main] \in 1 .. m_thread_count
  /\ Undoing => child[Main] \in 1 .. m_thread_count - 1
  /\ Undoing \/ pc[Main] = "create" => call = "TPI_Init"
  /\ Starting \/ Undoing \/ Ending => m_work_routine = NULL
  /\ Starting => m_thread_count > 0
  /\ pc[Main] \in {"barrier", "fan", "run", "work", "activate"} /\ call # "TPI_Init" =>
       m_thread_count > 1
  /\ pc[Main] \in {"run", "work", "activate", "wait", "serial"} => call # "TPI_Init"
  /\ pc[Main] = "activate" => child[Main] \in 1 .. m_thread_count
  /\ pc[Main] \in {"barrier", "fan", "run", "work", "activate", "wait", "serial"}
       /\ call # "TPI_Init" => (m_work_routine = NULL <=> call = "TPI_Finalize")
  /\ pc[Main] \in {"run", "work"} => m_work_routine # NULL
  /\ pc[Main] = "serial" => m_thread_count <= 1
  /\ pc[Main] \in {"barrier", "run", "work", "fan", "wait", "serial"} => call \notin Asynchronous
  /\ pc[Main] \in {"undo_activate", "undo_wait"} => m_thread_count < MaxThreads

FieldsOK ==
  /\ m_thread_count <= 1 \/ m_work_routine = NULL =>
       /\ ~ m_reduce_join /\ m_work_count_claim = 0
  /\ m_work_routine = NULL => m_work_count = 0 /\ m_work_thread_count = 0
  /\ m_reduce_join => m_work_routine = "user"
  /\ m_work_thread_count <= m_thread_count
  /\ m_work_count_claim <= m_work_count

LockOK ==
  /\ m_lock \in {Main, NULL}
  /\ m_lock = Main <=> m_work_routine = "local_block" /\ call = "TPI_Block"
  /\ pc[Main] \in {"app", "activate"} /\ m_work_routine = "local_block" => call = "TPI_Block"

\* The fan-in of t has got as far as its place and its "child" say.
FanOK(t) ==
  /\ pc[t] = "fan" =>
       /\ child[t] \in m_thread_fan[t] .. m_thread_fan[t + 1]
       /\ \A c \in child[t] .. m_thread_fan[t + 1] - 1 : m_control[c] = 0
  /\ pc[t] \in {"run", "work"} => child[t] = m_thread_fan[t + 1]
  /\ On(t) /\ m_control[t] = 0 => \A c \in Kids(t) : m_control[c] = 0

TreeInv ==
  m_thread_count > 0 /\ ~ Undoing =>
    TreeShape(m_thread_count) /\ \A t \in 0 .. m_thread_count - 1 : FanOK(t)

\* The threads of the pool that have no more to run.
Past(t) == pc[t] = "fan" \/ (On(t) /\ m_control[t] = 0)
Members == 0 .. m_thread_count - 1
Ranked == m_work_count <= m_work_thread_count

RankOK(t) ==
  /\ pc[t] = "work" =>
       rank[t] \in 0 .. m_work_count - 1 /\ (Ranked => rank[t] = RankOf(t))
  /\ Ranked /\ (pc[t] = "work" \/ Past(t)) /\ RankOf(t) < m_work_count =>
       calls[RankOf(t)] > 0
  /\ ~ Ranked /\ Past(t) => m_work_count_claim <= 0

ClaimOK ==
  /\ ~ Ranked => \A r \in 0 .. m_work_count - 1 :
       r < m_work_count - m_work_count_claim => calls[r] > 0
  /\ m_work_count_claim >= - Cardinality({t \in Members : Past(t)})

RankInv ==
  m_work_routine # NULL /\ m_thread_count > 1 =>
    (\A t \in Members : RankOK(t)) /\ ClaimOK

SerialInv ==
  pc[Main] = "serial" =>
    rank[Main] \in 0 .. m_work_count /\ \A r \in 0 .. rank[Main] - 1 : calls[r] > 0

\* Has p joined the value of its child c?
HasJoined(p, c) == (pc[p] = "fan" /\ child[p] <= c) \/ (On(p) /\ m_control[p] = 0)

JoinOK(p, c) ==
  /\ joined[c] = IF HasJoined(p, c) THEN 1 ELSE 0
  /\ HasJoined(p, c) => reduce[c] \subseteq reduce[p]

\* What is in the value of a thread of the pool.
ValueOK(t) ==
  /\ reduce[t] \subseteq 0 .. m_work_count - 1
  /\ pc[t] \notin {"run", "work"} /\ ~ Past(t) => reduce[t] = {}
  /\ Ranked /\ Past(t) /\ RankOf(t) < m_work_count => RankOf(t) \in reduce[t]

\* A rank that was claimed is in a value, or will be when its subprogram returns.
Kept(r) == \E t \in Members : r \in reduce[t] \/ (pc[t] = "work" /\ rank[t] = r)
AllKept ==
  ~ Ranked => \A r \in 0 .. m_work_count - 1 :
                r < m_work_count - m_work_count_claim => Kept(r)

Idle == m_work_routine = NULL => calls = [r \in Ranks |-> 0] /\ reduce = [t \in Thread |-> {}]

ReduceInv ==
  /\ Idle
  /\ ~ m_reduce_join => joined = [t \in Thread |-> 0]
  /\ m_reduce_join =>
       /\ \A t \in Thread \ Workers : joined[t] = 0
       /\ \A p \in Members : \A c \in Kids(p) : JoinOK(p, c)
       /\ \A t \in Members : ValueOK(t)
       /\ AllKept

WorkersOK == \A t \in Worker : WorkerOK(t)

\* What holds in every state, but for the reduction.
Base ==
  TypeOK /\ MainOK /\ FieldsOK /\ LockOK /\ WorkersOK /\ TreeInv /\ RankInv /\ SerialInv

-----------------------------------------------------------------------------
(* Lemmas on the steps. *)

\* What a step does not touch of another worker leaves it as it was.
LEMMA Untouched ==
  ASSUME WorkersOK, NEW t \in Worker,
         UNCHANGED <<pc[t], m_control[t], pc[Main], call, child[Main], m_thread_count,
                     m_work_routine>>,
         t \in ending' <=> t \in ending
  PROVE  WorkerOK(t)'
<1>1. WorkerOK(t)
  BY DEF WorkersOK
<1> QED
  BY <1>1 DEF WorkerOK, OnOK, OffOK, UndoOK, On, Gone, Parked, Called, Meets, Runs, Undoing,
              Starting, Ending, Thread, Worker, Main, Workers

-----------------------------------------------------------------------------
(* The steps of run, fan-in and activation: they belong to one thread. *)

\* A thread of the pool and its children are threads.
LEMMA FanType ==
  ASSUME TypeOK, NEW t \in 0 .. m_thread_count - 1
  PROVE  t \in Thread /\ m_thread_fan[t] \in 0 .. MaxThreads /\ m_thread_fan[t + 1] \in 0 .. MaxThreads
<1>1. m_thread_count \in 0 .. MaxThreads /\ MaxThreads \in Nat
  BY PoolAssumption DEF TypeOK
<1>2. t \in 0 .. MaxThreads /\ t + 1 \in 0 .. MaxThreads /\ t \in Thread
  BY <1>1 DEF Thread
<1> QED
  BY <1>2 DEF TypeOK

\* What a step of t leaves as it is.
Local(t) ==
  /\ UNCHANGED <<pool, call, result, m_work_routine, m_work_count, m_work_thread_count,
                 m_reduce_join, m_lock>>
  /\ \A s \in Thread \ {t} : /\ UNCHANGED <<pc[s], child[s], rank[s], m_control[s]>>
                             /\ s \in ending' <=> s \in ending
  /\ m_control[t] = 0 => m_control'[t] = 0
  /\ \A r \in Ranks : calls[r] > 0 => calls'[r] > 0
  /\ t = Main => pc[Main] \in Barriers /\ pc'[Main] \in Barriers

\* A step of one thread leaves main at what it is doing.
LEMMA LocalMain ==
  ASSUME NEW t \in Thread, Local(t)
  PROVE  /\ Undoing' <=> Undoing
         /\ Starting' <=> Starting
         /\ Ending' <=> Ending
         /\ \A s \in Thread : On(s)' <=> On(s)
         /\ Workers' = Workers /\ Members' = Members
<1>1. Main \in Thread
  BY PoolAssumption DEF Main, Thread
<1>2. (Undoing' <=> Undoing) /\ (Starting' <=> Starting) /\ (Ending' <=> Ending)
  <2>1. CASE t = Main
    BY <2>1 DEF Undoing, Starting, Ending, Local, Barriers
  <2>2. CASE t # Main
    <3>1. pc'[Main] = pc[Main] /\ call' = call
      BY <1>1, <2>2 DEF Local
    <3> QED
      BY <3>1 DEF Undoing, Starting, Ending
  <2> QED
    BY <2>1, <2>2
<1>3. Workers' = Workers /\ Members' = Members
  BY DEF Local, pool, Workers, Members
<1>4. ASSUME NEW s \in Thread PROVE On(s)' <=> On(s)
  BY <1>1, <1>2, <1>3 DEF Local, On, Barriers
<1> QED
  BY <1>2, <1>3, <1>4

\* A step of t keeps the invariant when it keeps what the invariant says of t.
LEMMA LocalKeeps ==
  ASSUME Base, NEW t \in Thread, Local(t), TypeOK',
         t = Main => MainOK',
         t # Main => WorkerOK(t)',
         m_thread_count > 0 /\ ~ Undoing => FanOK(t)',
         m_work_routine # NULL /\ m_thread_count > 1 => RankOK(t)' /\ ClaimOK',
         m_work_count_claim' <= m_work_count_claim,
         m_work_count_claim' = m_work_count_claim \/ (m_work_routine # NULL /\ m_thread_count > 1)
  PROVE  Base'
<1>1. Main \in Thread /\ Worker = Thread \ {Main} /\ TypeOK
  BY PoolAssumption DEF Main, Worker, Thread, Base
<1>2. UNCHANGED <<m_thread_count, m_thread_fan, call, result, m_work_routine, m_work_count,
                  m_work_thread_count, m_reduce_join, m_lock>>
  BY DEF Local, pool
<1>3. /\ Undoing' <=> Undoing
      /\ Starting' <=> Starting
      /\ Ending' <=> Ending
      /\ \A s \in Thread : On(s)' <=> On(s)
      /\ Workers' = Workers /\ Members' = Members
  BY LocalMain
<1>4. MainOK'
  <2>1. CASE t = Main
    BY <2>1
  <2>2. CASE t # Main
    <3>1. UNCHANGED <<pc[Main], child[Main]>>
      BY <1>1, <2>2 DEF Local
    <3> QED
      BY <1>2, <1>3, <3>1 DEF Base, MainOK
  <2> QED
    BY <2>1, <2>2
<1>5. FieldsOK'
  BY <1>1, <1>2 DEF Base, FieldsOK, TypeOK
<1>6. LockOK'
  <2>1. pc'[Main] \in {"app", "activate"} => pc'[Main] = pc[Main]
    BY <1>1 DEF Local, Barriers
  <2> QED
    BY <1>2, <2>1 DEF Base, LockOK
<1>7. WorkersOK'
  <2> SUFFICES ASSUME NEW s \in Worker, s # t PROVE WorkerOK(s)'
    BY DEF WorkersOK, Main, Worker
  <2>1. WorkerOK(s) /\ s \in Thread
    BY DEF Base, WorkersOK, Worker
  <2>2. UNCHANGED <<pc[s], m_control[s]>> /\ (s \in ending' <=> s \in ending)
    BY <2>1 DEF Local
  <2>3. CASE Undoing
    <3>1. UNCHANGED <<pc[Main], child[Main]>>
      <4>1. t # Main
        BY <2>3 DEF Local, Barriers, Undoing
      <4> QED
        BY <1>1, <4>1 DEF Local
    <3> QED
      BY <1>2, <1>3, <2>1, <2>2, <2>3, <3>1
         DEF WorkerOK, UndoOK, Parked, Meets, Called, Gone
  <2>4. CASE ~ Undoing
    <3>1. pc'[Main] = "create" <=> pc[Main] = "create"
      BY <1>1 DEF Local, Barriers
    <3> QED
      BY <1>2, <1>3, <2>1, <2>2, <2>4, <3>1
         DEF WorkerOK, OnOK, OffOK, Parked, Meets, Called, Gone, Runs
  <2> QED
    BY <2>3, <2>4
<1>8. TreeInv'
  <2> SUFFICES ASSUME m_thread_count > 0, ~ Undoing PROVE TreeInv'
    BY <1>2, <1>3 DEF TreeInv
  <2>1. TreeShape(m_thread_count) /\ \A s \in 0 .. m_thread_count - 1 : FanOK(s)
    BY DEF Base, TreeInv
  <2>2. TreeShape(m_thread_count)'
    BY <1>2, <2>1 DEF TreeShape
  <2>3. ASSUME NEW s \in 0 .. m_thread_count - 1 PROVE FanOK(s)'
    <3>1. CASE s = t
      BY <3>1
    <3>2. CASE s # t
      <4>1. s \in Thread /\ FanOK(s) /\ \A c \in Kids(s) : c \in Thread
        <5>1. m_thread_count \in 0 .. MaxThreads /\ MaxThreads \in Nat
          BY <1>1, PoolAssumption DEF TypeOK
        <5>2. m_thread_fan[s] \in 0 .. MaxThreads /\ m_thread_fan[s + 1] \in 0 .. MaxThreads
          BY <1>1, FanType
        <5> QED
          BY <2>1, <5>1, <5>2 DEF Thread, Kids
      <4>2. UNCHANGED <<pc[s], child[s], m_control[s], Kids(s)>>
        BY <1>2, <3>2, <4>1 DEF Local, Kids
      <4>3. \A c \in Thread : m_control[c] = 0 => m_control'[c] = 0
        BY DEF Local
      <4> PICK above : above = child[s] .. m_thread_fan[s + 1] - 1
        OBVIOUS
      <4>4. pc[s] = "fan" => /\ child[s] \in m_thread_fan[s] .. m_thread_fan[s + 1]
                             /\ \A c \in above : m_control[c] = 0
        BY <4>1 DEF FanOK
      <4>5. pc[s] = "fan" => above \subseteq Kids(s)
        <5>1. m_thread_count \in 0 .. MaxThreads /\ MaxThreads \in Nat
          BY <1>1, PoolAssumption DEF TypeOK
        <5>2. m_thread_fan[s] \in 0 .. MaxThreads /\ m_thread_fan[s + 1] \in 0 .. MaxThreads
          BY <1>1, FanType
        <5> QED
          BY <4>4, <5>2 DEF Kids
      <4>6. pc'[s] = "fan" => /\ child'[s] \in m_thread_fan'[s] .. m_thread_fan'[s + 1]
                              /\ \A c \in above : m_control'[c] = 0
        BY <1>2, <4>1, <4>2, <4>3, <4>4, <4>5
      <4>7. On(s)' /\ m_control'[s] = 0 => \A c \in Kids(s) : m_control'[c] = 0
        BY <1>3, <4>1, <4>2, <4>3 DEF FanOK
      <4>8. above = child'[s] .. m_thread_fan'[s + 1] - 1 /\ Kids(s)' = Kids(s)
        BY <1>2, <4>2
      <4>9. pc'[s] \in {"run", "work"} => child'[s] = m_thread_fan'[s + 1]
        BY <1>2, <4>1, <4>2 DEF FanOK
      <4> QED
        BY <4>6, <4>7, <4>8, <4>9 DEF FanOK
    <3> QED
      BY <3>1, <3>2
  <2> QED
    BY <1>2, <2>2, <2>3 DEF TreeInv
<1>9. RankInv'
  <2> SUFFICES ASSUME m_work_routine # NULL, m_thread_count > 1 PROVE RankInv'
    BY <1>2 DEF RankInv
  <2>1. (\A s \in Members : RankOK(s)) /\ (Ranked' <=> Ranked)
    BY <1>2 DEF Base, RankInv, Ranked
  <2>2. ASSUME NEW s \in Members, s # t PROVE RankOK(s)'
    <3>1. s \in Thread /\ RankOK(s) /\ RankOf(s) \in Nat /\ RankOf(s)' = RankOf(s)
      <4>1. m_thread_count \in 0 .. MaxThreads /\ s \in 0 .. m_thread_count - 1
        BY <1>1 DEF TypeOK, Members
      <4>2. s \in Thread /\ RankOf(s) \in Nat
        BY <4>1, PoolAssumption DEF RankOf, Thread
      <4> QED
        BY <1>2, <2>1, <4>2 DEF RankOf
    <3>2. UNCHANGED <<pc[s], rank[s], m_control[s]>> /\ (Past(s)' <=> Past(s))
      BY <1>3, <2>2, <3>1 DEF Local, Past
    <3>3. RankOf(s) < m_work_count => RankOf(s) \in Ranks
      BY <1>1, <3>1, MaxWorkIs DEF Ranks, TypeOK
    <3>4. RankOf(s) < m_work_count /\ calls[RankOf(s)] > 0 => calls'[RankOf(s)] > 0
      BY <3>3 DEF Local
    <3>5. m_work_count_claim <= 0 => m_work_count_claim' <= 0
      BY <1>1 DEF TypeOK
    <3> QED
      BY <1>2, <2>1, <3>1, <3>2, <3>4, <3>5 DEF RankOK
  <2> QED
    BY <1>3, <2>2 DEF RankInv
<1>10. SerialInv'
  <2>1. pc'[Main] = "serial" => pc[Main] = "serial" /\ rank'[Main] = rank[Main]
    BY <1>1 DEF Local, Barriers
  <2>2. \A r \in 0 .. m_work_count - 1 : r \in Ranks
    BY <1>1, MaxWorkIs DEF Ranks, TypeOK
  <2>3. pc[Main] = "serial" =>
          rank[Main] \in 0 .. m_work_count /\ \A r \in 0 .. rank[Main] - 1 : r \in Ranks
    <3>1. m_work_count \in Nat
      BY <1>1, MaxWorkIs DEF TypeOK
    <3>2. pc[Main] = "serial" => rank[Main] \in 0 .. m_work_count
      BY DEF Base, SerialInv
    <3> QED
      BY <2>2, <3>1, <3>2
  <2> QED
    BY <1>2, <2>1, <2>3 DEF Base, SerialInv, Local
<1> QED
  BY <1>4, <1>5, <1>6, <1>7, <1>8, <1>9, <1>10 DEF Base

\* The members of the pool that do something are no more than its threads.
LEMMA MembersFinite ==
  ASSUME NEW n \in Nat, NEW A \in SUBSET (0 .. n - 1)
  PROVE  IsFiniteSet(A) /\ Cardinality(A) \in Nat /\ Cardinality(A) <= n
<1>1. IsFiniteSet(0 .. n - 1)
        /\ Cardinality(0 .. n - 1) = IF 0 > n - 1 THEN 0 ELSE n - 1 - 0 + 1
  BY FS_Interval
<1>2. Cardinality(0 .. n - 1) = n
  BY <1>1
<1> QED
  BY <1>1, <1>2, FS_Subset, FS_CardinalityType

\* A step of t that claims no rank keeps what is known of the claims.
LEMMA ClaimKept ==
  ASSUME Base, NEW t \in Thread, Local(t), TypeOK', m_work_count_claim' = m_work_count_claim,
         Past(t) => Past(t)', m_work_routine # NULL, m_thread_count > 1
  PROVE  ClaimOK'
<1>1. /\ UNCHANGED <<m_thread_count, m_work_count, m_work_thread_count>>
      /\ Members' = Members /\ (Ranked' <=> Ranked)
  BY LocalMain DEF Local, pool, Ranked
<1>2. TypeOK /\ ClaimOK
  BY DEF Base, RankInv
<1> PICK A, B : A = {s \in Members : Past(s)} /\ B = {s \in Members : Past(s)'}
  OBVIOUS
<1>3. IsFiniteSet(B) /\ Cardinality(A) \in Nat /\ Cardinality(B) \in Nat
      /\ B = {s \in Members : Past(s)}'
  <2>1. m_thread_count \in Nat
    BY <1>2, PoolAssumption DEF TypeOK
  <2>2. A \in SUBSET (0 .. m_thread_count - 1) /\ B \in SUBSET (0 .. m_thread_count - 1)
    BY DEF Members
  <2>3. B = {s \in Members : Past(s)}'
    BY <1>1
  <2> QED
    BY <2>1, <2>2, <2>3, MembersFinite
<1>4. A \in SUBSET B
  <2>1. Members \subseteq Thread
    BY <1>2, PoolAssumption DEF Members, Thread, TypeOK
  <2>2. ASSUME NEW s \in Thread, s # t PROVE Past(s)' <=> Past(s)
    BY <2>2, LocalMain DEF Local, Past
  <2> QED
    BY <2>1, <2>2
<1>5. Cardinality(A) <= Cardinality(B)
  BY <1>3, <1>4, FS_Subset
<1>6. m_work_count_claim >= - Cardinality(B)
  BY <1>2, <1>3, <1>5 DEF ClaimOK, TypeOK
<1>7. ~ Ranked => \A r \in 0 .. m_work_count - 1 :
        r < m_work_count - m_work_count_claim => calls'[r] > 0
  <2>1. \A r \in 0 .. m_work_count - 1 : r \in Ranks
    BY <1>2, MaxWorkIs DEF TypeOK, Ranks
  <2> QED
    BY <1>2, <2>1 DEF ClaimOK, Local
<1> QED
  BY <1>1, <1>3, <1>6, <1>7 DEF ClaimOK

\* Who is in local_barrier is a thread of the pool that main has called.
LEMMA InBarrier ==
  ASSUME Base, NEW t \in Thread, pc[t] \in Barriers
  PROVE  /\ t # Main => t \in Worker /\ m_control[t] = 1
         /\ ~ Undoing => t \in Members /\ (t # Main => On(t))
         /\ pc[t] \in {"run", "work"} => /\ m_work_routine # NULL /\ m_thread_count > 1
                                         /\ ~ Undoing /\ ~ Starting /\ ~ Ending
<1>1. TypeOK /\ MainOK /\ Worker = Thread \ {Main} /\ m_thread_count \in Nat
  <2>1. TypeOK /\ MainOK
    BY DEF Base
  <2>2. m_thread_count \in 0 .. MaxThreads /\ MaxThreads \in Nat
    BY <2>1, PoolAssumption DEF TypeOK
  <2> QED
    BY <2>1, <2>2 DEF Worker
<1>2. CASE t = Main
  <2>1. ~ Undoing
    BY <1>2 DEF Undoing, Barriers
  <2>2. m_thread_count > 0
    BY <1>1, <1>2 DEF MainOK, Starting, Barriers
  <2>3. t \in Members
    BY <1>1, <1>2, <2>2 DEF Main, Members
  <2>4. pc[t] \in {"run", "work"} => /\ m_work_routine # NULL /\ m_thread_count > 1
                                     /\ ~ Starting /\ ~ Ending
    BY <1>1, <1>2 DEF MainOK, Starting, Ending
  <2> QED
    BY <1>2, <2>1, <2>3, <2>4
<1>3. CASE t # Main
  <2>1. t \in Worker /\ WorkerOK(t)
    BY <1>1, <1>3 DEF Base, WorkersOK
  <2>2. CASE Undoing
    <3>1. Meets(t)
      BY <2>1, <2>2 DEF WorkerOK, UndoOK, Parked, Meets, Called, Gone, Barriers
    <3> QED
      BY <1>3, <2>1, <2>2, <3>1 DEF Meets
  <2>3. CASE ~ Undoing
    <3>1. On(t) /\ OnOK(t) /\ m_control[t] = 1
      BY <2>1, <2>3 DEF WorkerOK, OnOK, OffOK, Parked, Meets, Called, Gone, Runs, Barriers
    <3>2. t \in Members
      BY <1>1, <3>1 DEF On, Workers, Members
    <3>3. pc[t] \in {"run", "work"} => ~ Starting /\ ~ Ending
      BY <3>1 DEF OnOK, Parked, Meets, Called, Gone
    <3>4. m_thread_count > 1
      BY <1>1, <3>1 DEF On, Workers
    <3>5. ~ Starting /\ ~ Ending => m_work_routine # NULL
      BY <1>1, <2>3, <3>1, <3>4 DEF On, MainOK, Starting, Ending, Undoing, Barriers
    <3> QED
      BY <2>1, <2>3, <3>1, <3>2, <3>3, <3>4, <3>5
  <2> QED
    BY <2>2, <2>3
<1> QED
  BY <1>2, <1>3

\* Main is no worker, and every other thread is one.
LEMMA MainOff ==
  ~ On(Main) /\ \A t \in Thread : t # Main => t \in Worker
BY DEF On, Main, Workers, Worker

\* Each of the steps of local_barrier and local_run keeps the invariant.
LEMMA BarrierKeeps ==
  ASSUME Base, NEW t \in Thread, Barrier(t)
  PROVE  Base'
<1>1. /\ pc[t] = "barrier" /\ t \in Thread
      /\ pc' = [pc EXCEPT ![t] = IF m_work_routine # NULL THEN "run" ELSE "fan"]
      /\ child' = [child EXCEPT ![t] = m_thread_fan[t + 1]]
      /\ UNCHANGED <<fields, pool, m_control, m_lock, ending, rank, call, result, calls, joined>>
  BY DEF Barrier, Goto
<1>2. TypeOK /\ MainOK
  BY DEF Base
<1>3. /\ pc'[t] = IF m_work_routine # NULL THEN "run" ELSE "fan"
      /\ child'[t] = m_thread_fan[t + 1] /\ child'[t] \in 0 .. MaxThreads
      /\ UNCHANGED <<m_thread_count, m_thread_fan, m_work_routine, m_work_count,
                     m_work_thread_count, m_work_count_claim, m_reduce_join>>
  BY <1>1, <1>2, PoolAssumption DEF TypeOK, fields, pool, Thread
<1>4. TypeOK'
  <2>1. pc' \in [Thread -> {"none", "app", "barrier", "run", "work", "fan", "spin",
                        "active", "activate", "wait", "serial", "create", "undo",
                        "undo_activate", "undo_wait"}]
    BY <1>1, <1>2 DEF TypeOK
  <2>2. child' \in [Thread -> 0 .. MaxThreads]
    BY <1>1, <1>2, <1>3 DEF TypeOK
  <2>3. reduce' \in [Thread -> SUBSET Ranks]
    BY <1>2 DEF TypeOK, Barrier
  <2> QED
    BY <1>1, <1>2, <1>3, <2>1, <2>2, <2>3 DEF TypeOK
<1>5. /\ t # Main => t \in Worker /\ m_control[t] = 1
      /\ ~ Undoing => t \in Members /\ (t # Main => On(t))
  BY <1>1, InBarrier DEF Barriers
<1>6. Local(t)
  BY <1>1, <1>2, <1>3 DEF Local, Barriers, TypeOK
<1>7. /\ Undoing' <=> Undoing
      /\ Starting' <=> Starting
      /\ Ending' <=> Ending
      /\ \A s \in Thread : On(s)' <=> On(s)
      /\ Workers' = Workers /\ Members' = Members
  BY <1>6, LocalMain
<1>8. t = Main => MainOK'
  <2>1. t = Main /\ m_work_routine # NULL => call # "TPI_Init"
    BY <1>1, <1>2 DEF MainOK, Starting, Barriers
  <2> QED
    BY <1>1, <1>3, <1>2, <1>6, <1>7, <2>1 DEF MainOK, Local, Undoing
<1>9. t # Main => WorkerOK(t)'
  <2> SUFFICES ASSUME t # Main PROVE WorkerOK(t)'
    OBVIOUS
  <2>1. WorkerOK(t) /\ pc'[Main] = pc[Main] /\ child'[Main] = child[Main] /\ t \in Worker
    BY <1>1, <1>2, <1>5 DEF Base, WorkersOK, Main, TypeOK
  <2>2. m_work_routine # NULL => ~ Undoing /\ ~ Starting /\ ~ Ending
    BY <1>2 DEF MainOK
  <2> QED
    BY <1>1, <1>2, <1>3, <1>5, <1>7, <2>1, <2>2
       DEF WorkerOK, OnOK, UndoOK, OffOK, Gone, Parked, Called, Meets, Runs, TypeOK
<1>10. m_thread_count > 0 /\ ~ Undoing => FanOK(t)'
  <2> SUFFICES ASSUME m_thread_count > 0, ~ Undoing PROVE FanOK(t)'
    OBVIOUS
  <2>1. m_thread_fan[t] <= m_thread_fan[t + 1]
    BY <1>5 DEF Base, TreeInv, TreeShape, Members
  <2>2. m_thread_fan[t] \in 0 .. MaxThreads /\ m_thread_fan[t + 1] \in 0 .. MaxThreads
    BY <1>2, <1>5, FanType DEF Members
  <2>3. ~ (On(t) /\ m_control[t] = 0)
    BY <1>5, MainOff
  <2> QED
    BY <1>1, <1>3, <1>7, <2>1, <2>2, <2>3 DEF FanOK
<1>11. m_work_routine # NULL /\ m_thread_count > 1 => RankOK(t)' /\ ClaimOK'
  <2> SUFFICES ASSUME m_work_routine # NULL, m_thread_count > 1 PROVE RankOK(t)' /\ ClaimOK'
    OBVIOUS
  <2>1. ~ Past(t) /\ ~ Past(t)'
    BY <1>1, <1>3, <1>5, <1>7, MainOff DEF Past
  <2>2. ClaimOK'
    BY <1>3, <1>4, <1>6, <2>1, ClaimKept
  <2>3. RankOK(t)'
    BY <1>3, <2>1 DEF RankOK
  <2> QED
    BY <2>2, <2>3
<1>12. m_work_count_claim' <= m_work_count_claim /\ m_work_count_claim' = m_work_count_claim
  BY <1>2, <1>3 DEF TypeOK
<1> QED
  BY <1>4, <1>6, <1>8, <1>9, <1>10, <1>11, <1>12, LocalKeeps

\* A thread that goes on with its work, or ends it, is still in the barrier.
LEMMA StaysIn ==
  ASSUME Base, NEW t \in Thread, pc[t] \in {"run", "work"}, Local(t),
         pc'[t] \in {"run", "work", "fan"}, m_control'[t] = m_control[t],
         t \in ending' <=> t \in ending, child'[t] = child[t]
  PROVE  /\ t = Main => MainOK'
         /\ t # Main => WorkerOK(t)'
         /\ m_thread_count > 0 /\ ~ Undoing => FanOK(t)'
<1>1. /\ t # Main => t \in Worker /\ m_control[t] = 1
      /\ t \in Members /\ (t # Main => On(t))
      /\ m_work_routine # NULL /\ m_thread_count > 1 /\ ~ Undoing /\ ~ Starting /\ ~ Ending
  BY InBarrier DEF Barriers
<1>2. TypeOK /\ MainOK /\ FanOK(t)
  <2>1. TypeOK /\ MainOK /\ TreeInv
    BY DEF Base
  <2>2. m_thread_count > 0
    BY <1>1, <2>1, PoolAssumption DEF TypeOK
  <2> QED
    BY <1>1, <2>1, <2>2 DEF TreeInv, Members
<1>3. /\ Undoing' <=> Undoing
      /\ Starting' <=> Starting
      /\ Ending' <=> Ending
      /\ \A s \in Thread : On(s)' <=> On(s)
  BY LocalMain
<1>4. UNCHANGED <<m_thread_count, m_thread_fan, m_work_routine, call>>
  BY DEF Local, pool
<1>5. t = Main => MainOK'
  <2>1. t = Main => call # "TPI_Init"
    BY <1>1, <1>2 DEF MainOK
  <2> QED
    BY <1>1, <1>2, <1>3, <1>4, <2>1 DEF MainOK, Undoing
<1>6. t # Main => WorkerOK(t)'
  <2> SUFFICES ASSUME t # Main PROVE WorkerOK(t)'
    OBVIOUS
  <2>1. WorkerOK(t)
    BY <1>1 DEF Base, WorkersOK
  <2>2. OnOK(t)
    BY <1>1, <2>1 DEF WorkerOK
  <2>3. t \notin ending
    BY <1>1, <2>2 DEF OnOK, Gone, Parked, Called, Meets, Runs
  <2>4. Runs(t)' \/ (Meets(t)' /\ t \notin ending')
    BY <1>1, <2>3 DEF Runs, Meets
  <2>5. OnOK(t)'
    BY <1>1, <1>3, <2>4 DEF OnOK
  <2> QED
    BY <1>1, <1>3, <2>5 DEF WorkerOK
<1>7. FanOK(t)'
  <2>1. child'[t] = m_thread_fan[t + 1]
    BY <1>2 DEF FanOK
  <2>2. m_thread_fan[t] <= m_thread_fan[t + 1]
    <3>1. m_thread_count > 0 /\ TreeInv
      BY <1>1, <1>2, PoolAssumption DEF TypeOK, Base
    <3> QED
      BY <1>1, <3>1 DEF TreeInv, TreeShape, Members
  <2>3. m_thread_fan[t] \in Nat /\ m_thread_fan[t + 1] \in Nat
    BY <1>1, <1>2, FanType DEF Members
  <2>4. ~ (On(t)' /\ m_control'[t] = 0)
    BY <1>1, <1>3, MainOff
  <2> QED
    BY <1>4, <2>1, <2>2, <2>3, <2>4 DEF FanOK
<1> QED
  BY <1>5, <1>6, <1>7

\* With a thread for every rank, each thread has the rank of its own.
LEMMA RunRankedKeeps ==
  ASSUME Base, NEW t \in Thread, RunRanked(t)
  PROVE  Base'
<1> PICK r : r = RankOf(t)
  OBVIOUS
<1>1. /\ pc[t] = "run" /\ Ranked
      /\ UNCHANGED <<fields, pool, m_control, m_lock, ending, child, call, result, reduce, joined>>
      /\ \/ /\ r < m_work_count
            /\ rank' = [rank EXCEPT ![t] = r]
            /\ calls' = [calls EXCEPT ![r] = @ + 1]
            /\ pc' = [pc EXCEPT ![t] = "work"]
         \/ /\ ~ (r < m_work_count)
            /\ pc' = [pc EXCEPT ![t] = "fan"]
            /\ UNCHANGED <<rank, calls>>
  BY DEF RunRanked, Ranked, Begin, Goto
<1>2. TypeOK
  BY DEF Base
<1>3. UNCHANGED <<m_thread_count, m_thread_fan, m_work_routine, m_work_count,
                  m_work_thread_count, m_work_count_claim, m_reduce_join>>
  BY <1>1 DEF fields, pool
<1>4. /\ t # Main => t \in Worker /\ m_control[t] = 1
      /\ t \in Members /\ m_work_routine # NULL /\ m_thread_count > 1
  BY <1>1, InBarrier DEF Barriers
<1>5. r \in Nat /\ (r < m_work_count => r \in Ranks /\ r \in 0 .. MaxWork /\ calls[r] \in Nat)
  <2>1. m_thread_count \in 0 .. MaxThreads /\ MaxThreads \in Nat /\ m_work_count \in 0 .. MaxWork
    BY <1>2, PoolAssumption DEF TypeOK
  <2>2. r \in Nat
    BY <1>4, <2>1 DEF Members, RankOf
  <2>3. r < m_work_count => r \in Ranks /\ r \in 0 .. MaxWork
    BY <2>1, <2>2, MaxWorkIs DEF Ranks
  <2> QED
    BY <1>2, <2>2, <2>3 DEF TypeOK
<1>6. TypeOK'
  <2>1. pc' \in [Thread -> {"none", "app", "barrier", "run", "work", "fan", "spin",
                        "active", "activate", "wait", "serial", "create", "undo",
                        "undo_activate", "undo_wait"}]
    BY <1>1, <1>2 DEF TypeOK
  <2>2. rank' \in [Thread -> 0 .. MaxWork] /\ calls' \in [Ranks -> Nat]
    <3>1. rank \in [Thread -> 0 .. MaxWork] /\ calls \in [Ranks -> Nat]
      BY <1>2 DEF TypeOK
    <3> QED
      BY <1>1, <1>5, <3>1
  <2> QED
    BY <1>1, <1>2, <1>3, <2>1, <2>2 DEF TypeOK
<1>7. pc'[t] \in {"work", "fan"} /\ RankOf(t)' = r /\ Ranked'
  BY <1>1, <1>2, <1>3 DEF TypeOK, RankOf, Ranked
<1>8. Local(t)
  <2>1. \A i \in Ranks : calls[i] > 0 => calls'[i] > 0
    <3>1. calls \in [Ranks -> Nat]
      BY <1>2 DEF TypeOK
    <3> QED
      BY <1>1, <1>5, <3>1
  <2> QED
    BY <1>1, <1>2, <1>3, <1>7, <2>1 DEF Local, Barriers, TypeOK
<1>9. ~ Past(t)
  BY <1>1, <1>4, MainOff DEF Past
<1>10. RankOK(t)'
  <2>1. pc'[t] = "work" => r < m_work_count /\ rank'[t] = r /\ calls'[r] > 0
    BY <1>1, <1>2, <1>5 DEF TypeOK
  <2>2. ~ (pc'[t] = "work") => ~ (r < m_work_count)
    BY <1>1, <1>2 DEF TypeOK
  <2>3. m_work_count \in Nat
    BY <1>2, MaxWorkIs DEF TypeOK
  <2> QED
    BY <1>3, <1>5, <1>7, <2>1, <2>2, <2>3 DEF RankOK
<1>11. ClaimOK'
  BY <1>3, <1>4, <1>6, <1>8, <1>9, ClaimKept
<1>12. m_work_count_claim' <= m_work_count_claim /\ m_work_count_claim' = m_work_count_claim
  BY <1>2, <1>3 DEF TypeOK
<1>13. /\ t = Main => MainOK'
       /\ t # Main => WorkerOK(t)'
       /\ m_thread_count > 0 /\ ~ Undoing => FanOK(t)'
  BY <1>1, <1>7, <1>8, StaysIn
<1> QED
  BY <1>6, <1>8, <1>10, <1>11, <1>12, <1>13, LocalKeeps

\* With more ranks than threads, the claims go from the first rank up.
LEMMA RunClaimedKeeps ==
  ASSUME Base, NEW t \in Thread, RunClaimed(t)
  PROVE  Base'
<1> PICK r : r = m_work_count - m_work_count_claim
  OBVIOUS
<1>1. /\ pc[t] = "run" /\ m_work_count > m_work_thread_count
      /\ m_work_count_claim' = m_work_count_claim - 1
      /\ UNCHANGED <<m_work_routine, m_work_count, m_work_thread_count, m_reduce_join,
                     pool, m_control, m_lock, ending, child, call, result, reduce, joined>>
      /\ \/ /\ 0 < m_work_count_claim
            /\ rank' = [rank EXCEPT ![t] = r]
            /\ calls' = [calls EXCEPT ![r] = @ + 1]
            /\ pc' = [pc EXCEPT ![t] = "work"]
         \/ /\ ~ (0 < m_work_count_claim)
            /\ pc' = [pc EXCEPT ![t] = "fan"]
            /\ UNCHANGED <<rank, calls>>
  BY DEF RunClaimed, atomic_fetch_and_decrement, Claimed, Begin, Goto
<1>2. TypeOK /\ FieldsOK
  BY DEF Base
<1>3. UNCHANGED <<m_thread_count, m_thread_fan>>
  BY <1>1 DEF pool
<1>4. /\ t # Main => t \in Worker /\ m_control[t] = 1
      /\ t \in Members /\ m_work_routine # NULL /\ m_thread_count > 1
  BY <1>1, InBarrier DEF Barriers
<1>5. /\ m_work_count \in 0 .. MaxWork /\ m_work_thread_count \in Int
      /\ m_work_count_claim \in Int /\ m_work_count_claim <= m_work_count
      /\ m_thread_count \in Nat /\ m_thread_count <= MaxThreads /\ ~ Ranked /\ ~ Ranked'
      /\ m_work_count_claim <= MaxWork /\ MaxWork \in Nat /\ MaxThreads \in Nat
  <2>1. /\ m_work_count \in 0 .. MaxWork /\ m_work_thread_count \in Int
        /\ m_work_count_claim \in -MaxThreads .. MaxWork /\ m_work_count_claim <= m_work_count
        /\ m_thread_count \in 0 .. MaxThreads /\ MaxWork \in Nat /\ MaxThreads \in Nat
    BY <1>2, PoolAssumption, MaxWorkIs DEF TypeOK, FieldsOK
  <2> QED
    BY <1>1, <2>1 DEF Ranked
<1>6. 0 < m_work_count_claim => r \in 0 .. m_work_count - 1 /\ r \in Ranks /\ r \in 0 .. MaxWork
  BY <1>5 DEF Ranks
<1>7. ~ Past(t) /\ ClaimOK
  BY <1>1, <1>4, MainOff DEF Past, Base, RankInv
<1> PICK A, B : A = {s \in Members : Past(s)} /\ B = {s \in Members : Past(s)'}
  OBVIOUS
<1>8. /\ A \in SUBSET (0 .. m_thread_count - 1) /\ A \cup {t} \in SUBSET (0 .. m_thread_count - 1)
      /\ B \in SUBSET (0 .. m_thread_count - 1) /\ t \notin A
  BY <1>4, <1>7 DEF Members
<1>9. /\ IsFiniteSet(A) /\ Cardinality(A) \in Nat
      /\ IsFiniteSet(B) /\ Cardinality(B) \in Nat
      /\ Cardinality(A \cup {t}) <= m_thread_count
  BY <1>5, <1>8, MembersFinite
<1>10. Cardinality(A \cup {t}) = Cardinality(A) + 1
  BY <1>8, <1>9, FS_AddElement
<1>11. m_work_count_claim >= - Cardinality(A)
  BY <1>7 DEF ClaimOK
<1>12. pc'[t] = (IF 0 < m_work_count_claim THEN "work" ELSE "fan")
  BY <1>1, <1>2 DEF TypeOK
<1>13. \A i \in Ranks : calls[i] > 0 => calls'[i] > 0
  <2>1. calls \in [Ranks -> Nat]
    BY <1>2 DEF TypeOK
  <2> QED
    BY <1>1, <1>6, <2>1
<1>14. Local(t)
  BY <1>1, <1>2, <1>12, <1>13 DEF Local, Barriers, TypeOK
<1>15. Members' = Members
  BY <1>14, LocalMain
<1>16. TypeOK'
  <2>1. pc' \in [Thread -> {"none", "app", "barrier", "run", "work", "fan", "spin",
                        "active", "activate", "wait", "serial", "create", "undo",
                        "undo_activate", "undo_wait"}]
    BY <1>1, <1>2 DEF TypeOK
  <2>2. rank' \in [Thread -> 0 .. MaxWork] /\ calls' \in [Ranks -> Nat]
    <3>1. rank \in [Thread -> 0 .. MaxWork] /\ calls \in [Ranks -> Nat]
      BY <1>2 DEF TypeOK
    <3> QED
      BY <1>1, <1>6, <3>1
  <2>3. m_work_count_claim' \in -MaxThreads .. MaxWork
    BY <1>1, <1>5, <1>9, <1>10, <1>11
  <2> QED
    BY <1>1, <1>2, <1>3, <2>1, <2>2, <2>3 DEF TypeOK
<1>17. RankOK(t)'
  <2>1. pc'[t] = "work" => rank'[t] = r /\ 0 < m_work_count_claim
    BY <1>1, <1>2, <1>12 DEF TypeOK
  <2>2. ~ (pc'[t] = "work") => m_work_count_claim' <= 0
    BY <1>1, <1>5, <1>12
  <2>3. ~ (pc'[t] = "work" /\ Past(t)')
    <3>1. On(t)' /\ t \in Thread => m_control'[t] = 1
      BY <1>1, <1>4, <1>14, LocalMain, MainOff
    <3> QED
      BY <3>1 DEF Past
  <2> QED
    BY <1>1, <1>5, <1>6, <2>1, <2>2, <2>3 DEF RankOK
<1>18. ClaimOK'
  <2>1. ASSUME NEW i \in 0 .. m_work_count - 1, i < m_work_count - m_work_count_claim'
        PROVE  calls'[i] > 0
    <3>1. i \in Ranks
      BY <1>5 DEF Ranks
    <3>2. CASE i < r
      <4>1. calls[i] > 0
        BY <1>5, <1>7, <3>2 DEF ClaimOK
      <4> QED
        BY <1>13, <3>1, <4>1
    <3>3. CASE ~ (i < r)
      <4>1. i = r /\ 0 < m_work_count_claim
        BY <1>1, <1>5, <2>1, <3>3
      <4>2. calls \in [Ranks -> Nat] /\ calls' = [calls EXCEPT ![r] = @ + 1]
        BY <1>1, <1>2, <4>1 DEF TypeOK
      <4> QED
        BY <3>1, <4>1, <4>2
    <3> QED
      BY <3>2, <3>3
  <2>2. B = {s \in Members : Past(s)}'
    BY <1>15
  <2>3. A \subseteq B
    <3>1. Members \subseteq Thread
      BY <1>5 DEF Members, Thread
    <3>2. ASSUME NEW s \in Thread, s # t PROVE Past(s)' <=> Past(s)
      BY <1>14, <3>2, LocalMain DEF Local, Past
    <3> QED
      BY <1>7, <3>1, <3>2
  <2>4. m_work_count_claim' >= - Cardinality(B)
    <3>1. CASE 0 < m_work_count_claim
      BY <1>1, <1>5, <1>9, <3>1
    <3>2. CASE ~ (0 < m_work_count_claim)
      <4>1. t \in B
        BY <1>4, <1>12, <3>2 DEF Past
      <4>2. Cardinality(A \cup {t}) <= Cardinality(B)
        BY <1>9, <2>3, <4>1, FS_Subset
      <4> QED
        BY <1>1, <1>5, <1>9, <1>10, <1>11, <4>2
    <3> QED
      BY <3>1, <3>2
  <2> QED
    BY <1>1, <2>1, <2>2, <2>4 DEF ClaimOK
<1>19. m_work_count_claim' <= m_work_count_claim
  BY <1>1, <1>5
<1>20. /\ t = Main => MainOK'
       /\ t # Main => WorkerOK(t)'
       /\ m_thread_count > 0 /\ ~ Undoing => FanOK(t)'
  BY <1>1, <1>12, <1>14, StaysIn
<1> QED
  BY <1>4, <1>14, <1>16, <1>17, <1>18, <1>19, <1>20, LocalKeeps

\* The subprogram returns.
LEMMA EndWorkKeeps ==
  ASSUME Base, NEW t \in Thread, EndWork(t)
  PROVE  Base'
<1>1. /\ pc[t] = "work"
      /\ reduce' = [reduce EXCEPT ![t] = @ \cup {rank[t]}]
      /\ pc' = [pc EXCEPT ![t] = IF Ranked THEN "fan" ELSE "run"]
      /\ UNCHANGED <<fields, pool, m_control, m_lock, ending, child, rank, call, result,
                     calls, joined>>
  BY DEF EndWork, Goto, Ranked
<1>2. TypeOK
  BY DEF Base
<1>3. UNCHANGED <<m_thread_count, m_thread_fan, m_work_routine, m_work_count,
                  m_work_thread_count, m_work_count_claim, m_reduce_join>>
  BY <1>1 DEF fields, pool
<1>4. /\ t # Main => t \in Worker /\ m_control[t] = 1
      /\ t \in Members /\ m_work_routine # NULL /\ m_thread_count > 1
  BY <1>1, InBarrier DEF Barriers
<1>5. RankOK(t)
  BY <1>4 DEF Base, RankInv
<1>6. rank[t] \in Ranks
  BY <1>1, <1>2, <1>5, MaxWorkIs DEF RankOK, Ranks, TypeOK
<1>7. TypeOK'
  <2>1. pc' \in [Thread -> {"none", "app", "barrier", "run", "work", "fan", "spin",
                        "active", "activate", "wait", "serial", "create", "undo",
                        "undo_activate", "undo_wait"}]
    BY <1>1, <1>2 DEF TypeOK
  <2>2. reduce' \in [Thread -> SUBSET Ranks]
    BY <1>1, <1>2, <1>6 DEF TypeOK
  <2> QED
    BY <1>1, <1>2, <1>3, <2>1, <2>2 DEF TypeOK
<1>8. pc'[t] = (IF Ranked THEN "fan" ELSE "run") /\ (Ranked' <=> Ranked) /\ RankOf(t)' = RankOf(t)
  BY <1>1, <1>2, <1>3 DEF TypeOK, Ranked, RankOf
<1>9. Local(t)
  BY <1>1, <1>2, <1>3, <1>8 DEF Local, Barriers, TypeOK
<1>10. ~ Past(t)
  BY <1>1, <1>4, MainOff DEF Past
<1>11. RankOK(t)'
  <2>1. Past(t)' => Ranked
    <3>1. On(t)' /\ t \in Thread => m_control'[t] = 1
      BY <1>1, <1>4, <1>9, LocalMain, MainOff
    <3> QED
      BY <1>8, <3>1 DEF Past
  <2> QED
    BY <1>1, <1>3, <1>5, <1>8, <2>1 DEF RankOK
<1>12. ClaimOK'
  BY <1>3, <1>4, <1>7, <1>9, <1>10, ClaimKept
<1>13. m_work_count_claim' <= m_work_count_claim /\ m_work_count_claim' = m_work_count_claim
  BY <1>2, <1>3 DEF TypeOK
<1>14. /\ t = Main => MainOK'
       /\ t # Main => WorkerOK(t)'
       /\ m_thread_count > 0 /\ ~ Undoing => FanOK(t)'
  BY <1>1, <1>8, <1>9, StaysIn
<1> QED
  BY <1>7, <1>9, <1>11, <1>12, <1>13, <1>14, LocalKeeps

\* The fan-in goes from the last child to the first, each one deactivated.
LEMMA FanInKeeps ==
  ASSUME Base, NEW t \in Thread, FanIn(t)
  PROVE  Base'
<1> PICK c : c = child[t] - 1
  OBVIOUS
<1>1. /\ pc[t] = "fan" /\ ~ (m_thread_fan[t] >= child[t]) /\ m_control[c] # 1
      /\ child' = [child EXCEPT ![t] = c]
      /\ UNCHANGED <<fields, pool, m_control, m_lock, pc, ending, rank, call, result, calls>>
      /\ \/ /\ reduce' = [reduce EXCEPT ![t] = @ \cup reduce[c]]
            /\ joined' = [joined EXCEPT ![c] = @ + 1]
         \/ UNCHANGED <<reduce, joined>>
  BY DEF FanIn, AllIn, Finished
<1>2. TypeOK
  BY DEF Base
<1>3. UNCHANGED <<m_thread_count, m_thread_fan, m_work_routine, m_work_count,
                  m_work_thread_count, m_work_count_claim, m_reduce_join>>
  BY <1>1 DEF fields, pool
<1>4. c \in Thread /\ c \in 0 .. MaxThreads /\ m_thread_fan[t] <= c
  <2>1. child[t] \in 0 .. MaxThreads /\ MaxThreads \in Nat /\ m_thread_fan[t] \in 0 .. MaxThreads
    BY <1>2, PoolAssumption DEF TypeOK, Thread
  <2> QED
    BY <1>1, <2>1 DEF Thread
<1>5. TypeOK'
  <2>1. child' \in [Thread -> 0 .. MaxThreads]
    BY <1>1, <1>2, <1>4 DEF TypeOK
  <2>2. reduce' \in [Thread -> SUBSET Ranks] /\ joined' \in [Thread -> Nat]
    <3>1. /\ reduce \in [Thread -> SUBSET Ranks] /\ joined \in [Thread -> Nat]
          /\ reduce[c] \in SUBSET Ranks /\ reduce[t] \in SUBSET Ranks /\ joined[c] \in Nat
      BY <1>2, <1>4 DEF TypeOK
    <3> QED
      BY <1>1, <3>1
  <2> QED
    BY <1>1, <1>2, <1>3, <2>1, <2>2 DEF TypeOK
<1>6. child'[t] = c /\ m_control[c] = 0
  BY <1>1, <1>2, <1>4 DEF TypeOK
<1>7. Local(t)
  BY <1>1, <1>2, <1>3, <1>6 DEF Local, Barriers, TypeOK
<1>8. /\ Undoing' <=> Undoing
      /\ Starting' <=> Starting
      /\ Ending' <=> Ending
      /\ \A s \in Thread : On(s)' <=> On(s)
      /\ Workers' = Workers /\ Members' = Members
  BY <1>7, LocalMain
<1>9. t = Main => MainOK'
  <2>1. t = Main => pc'[Main] = "fan" /\ pc[Main] = "fan"
    BY <1>1
  <2> QED
    BY <1>1, <1>3, <1>8, <2>1 DEF Base, MainOK, Undoing
<1>10. t # Main => WorkerOK(t)'
  <2> SUFFICES ASSUME t # Main PROVE WorkerOK(t)'
    OBVIOUS
  <2>1. t \in Worker /\ child'[Main] = child[Main]
    BY <1>1, <1>2, PoolAssumption DEF Worker, TypeOK, Main, Thread
  <2> QED
    BY <1>1, <1>3, <2>1, Untouched DEF Base
<1>11. /\ ~ Undoing => t \in Members
       /\ m_work_routine # NULL => ~ Undoing
  BY <1>1, InBarrier DEF Barriers, Base, MainOK
<1>12. m_thread_count > 0 /\ ~ Undoing => FanOK(t)'
  <2> SUFFICES ASSUME m_thread_count > 0, ~ Undoing PROVE FanOK(t)'
    OBVIOUS
  <2>1. FanOK(t)
    BY <1>11 DEF Base, TreeInv, Members
  <2>2. m_thread_fan[t] \in 0 .. MaxThreads /\ m_thread_fan[t + 1] \in 0 .. MaxThreads
        /\ child[t] \in 0 .. MaxThreads
    BY <1>2, <1>11, FanType DEF Members, TypeOK
  <2>3. c \in m_thread_fan[t] .. m_thread_fan[t + 1]
    BY <1>1, <1>4, <2>1, <2>2 DEF FanOK
  <2>4. \A i \in c .. m_thread_fan[t + 1] - 1 : m_control[i] = 0
    <3>1. \A i \in child[t] .. m_thread_fan[t + 1] - 1 : m_control[i] = 0
      BY <1>1, <2>1 DEF FanOK
    <3>2. ASSUME NEW i \in c .. m_thread_fan[t + 1] - 1 PROVE i = c \/ i \in child[t] .. m_thread_fan[t + 1] - 1
      BY <1>4, <2>2
    <3> QED
      BY <1>6, <3>1, <3>2
  <2>5. Kids(t)' = Kids(t)
    BY <1>3 DEF Kids
  <2> QED
    BY <1>1, <1>3, <1>6, <1>8, <2>1, <2>3, <2>4, <2>5 DEF FanOK
<1>13. m_work_routine # NULL /\ m_thread_count > 1 => RankOK(t)' /\ ClaimOK'
  <2> SUFFICES ASSUME m_work_routine # NULL, m_thread_count > 1 PROVE RankOK(t)' /\ ClaimOK'
    OBVIOUS
  <2>1. Past(t) /\ Past(t)' /\ RankOK(t)
    BY <1>1, <1>11 DEF Past, Base, RankInv
  <2>2. RankOf(t)' = RankOf(t) /\ (Ranked' <=> Ranked)
    BY <1>3 DEF RankOf, Ranked
  <2>3. RankOK(t)'
    BY <1>1, <1>3, <2>1, <2>2 DEF RankOK
  <2> QED
    BY <1>3, <1>5, <1>7, <2>1, <2>3, ClaimKept
<1>14. m_work_count_claim' <= m_work_count_claim /\ m_work_count_claim' = m_work_count_claim
  BY <1>2, <1>3 DEF TypeOK
<1> QED
  BY <1>5, <1>7, <1>9, <1>10, <1>12, <1>13, <1>14, LocalKeeps

\* A worker that has joined its children deactivates itself.
LEMMA DoneKeeps ==
  ASSUME Base, NEW t \in Thread, t # Main, Done(t)
  PROVE  Base'
<1>1. /\ pc[t] = "fan" /\ m_thread_fan[t] >= child[t]
      /\ m_control' = [m_control EXCEPT ![t] = 0]
      /\ pc' = [pc EXCEPT ![t] = IF t \in ending THEN "none" ELSE "spin"]
      /\ ending' = ending \ {t}
      /\ child' = [child EXCEPT ![t] = 0] /\ rank' = [rank EXCEPT ![t] = 0]
      /\ UNCHANGED <<fields, pool, m_lock, call, result, history>>
  BY DEF Done, AllIn, Deactivate, Goto, ClearLocals
<1>2. TypeOK
  BY DEF Base
<1>3. UNCHANGED <<m_thread_count, m_thread_fan, m_work_routine, m_work_count,
                  m_work_thread_count, m_work_count_claim, m_reduce_join, calls, reduce, joined>>
  BY <1>1 DEF fields, pool, history
<1>4. TypeOK'
  <2>1. pc' \in [Thread -> {"none", "app", "barrier", "run", "work", "fan", "spin",
                        "active", "activate", "wait", "serial", "create", "undo",
                        "undo_activate", "undo_wait"}]
    BY <1>1, <1>2 DEF TypeOK
  <2>2. m_control' \in [Thread -> {0, 1}] /\ ending' \in SUBSET Worker
    BY <1>1, <1>2 DEF TypeOK
  <2>3. child' \in [Thread -> 0 .. MaxThreads] /\ rank' \in [Thread -> 0 .. MaxWork]
    <3>1. 0 \in 0 .. MaxThreads /\ 0 \in 0 .. MaxWork
      BY PoolAssumption, MaxWorkIs
    <3>2. child \in [Thread -> 0 .. MaxThreads] /\ rank \in [Thread -> 0 .. MaxWork]
      BY <1>2 DEF TypeOK
    <3> QED
      BY <1>1, <3>1, <3>2
  <2> QED
    BY <1>1, <1>2, <1>3, <2>1, <2>2, <2>3 DEF TypeOK
<1>5. pc'[t] = (IF t \in ending THEN "none" ELSE "spin") /\ m_control'[t] = 0 /\ t \notin ending'
  BY <1>1, <1>2 DEF TypeOK
<1>6. Local(t)
  BY <1>1, <1>2, <1>3, <1>5 DEF Local, TypeOK
<1>7. /\ Undoing' <=> Undoing
      /\ Starting' <=> Starting
      /\ Ending' <=> Ending
      /\ \A s \in Thread : On(s)' <=> On(s)
      /\ Workers' = Workers /\ Members' = Members
  BY <1>6, LocalMain
<1>8. /\ t \in Worker
      /\ ~ Undoing => t \in Members /\ On(t)
      /\ m_work_routine # NULL => ~ Undoing
  BY <1>1, InBarrier, MainOff DEF Barriers, Base, MainOK
<1>9. pc'[Main] = pc[Main] /\ child'[Main] = child[Main]
  BY <1>6, PoolAssumption DEF Local, Main, Thread
<1>10. WorkerOK(t)'
  <2>1. WorkerOK(t)
    BY <1>8 DEF Base, WorkersOK
  <2>2. Parked(t)' \/ (t \in ending /\ Gone(t)')
    BY <1>5 DEF Parked, Gone
  <2>3. CASE Undoing
    BY <1>1, <1>3, <1>5, <1>7, <1>9, <2>1, <2>2, <2>3
       DEF WorkerOK, UndoOK, Parked, Meets, Called, Gone
  <2>4. CASE ~ Undoing
    BY <1>1, <1>5, <1>7, <1>8, <2>1, <2>2, <2>4
       DEF WorkerOK, OnOK, Parked, Meets, Called, Gone, Runs
  <2> QED
    BY <2>3, <2>4
<1>11. m_thread_count > 0 /\ ~ Undoing => FanOK(t)'
  <2> SUFFICES ASSUME m_thread_count > 0, ~ Undoing PROVE FanOK(t)'
    OBVIOUS
  <2>1. FanOK(t)
    BY <1>8 DEF Base, TreeInv, Members
  <2>2. m_thread_fan[t] \in 0 .. MaxThreads /\ m_thread_fan[t + 1] \in 0 .. MaxThreads
        /\ child[t] \in 0 .. MaxThreads
    BY <1>2, <1>8, FanType DEF Members, TypeOK
  <2>3. child[t] = m_thread_fan[t]
    BY <1>1, <2>1, <2>2 DEF FanOK
  <2>4. \A c \in Kids(t) : m_control[c] = 0 /\ c \in Thread
    BY <1>1, <2>1, <2>2, <2>3, PoolAssumption DEF FanOK, Kids, Thread
  <2>5. \A c \in Kids(t) : m_control'[c] = 0
    BY <1>1, <1>2, <2>4 DEF TypeOK
  <2>6. Kids(t)' = Kids(t)
    BY <1>3 DEF Kids
  <2> QED
    BY <1>5, <2>5, <2>6 DEF FanOK
<1>12. m_work_routine # NULL /\ m_thread_count > 1 => RankOK(t)' /\ ClaimOK'
  <2> SUFFICES ASSUME m_work_routine # NULL, m_thread_count > 1 PROVE RankOK(t)' /\ ClaimOK'
    OBVIOUS
  <2>1. Past(t) /\ Past(t)' /\ RankOK(t)
    BY <1>1, <1>5, <1>7, <1>8 DEF Past, Base, RankInv
  <2>2. RankOf(t)' = RankOf(t) /\ (Ranked' <=> Ranked)
    BY <1>3 DEF RankOf, Ranked
  <2>3. RankOK(t)'
    BY <1>3, <1>5, <2>1, <2>2 DEF RankOK
  <2> QED
    BY <1>3, <1>4, <1>6, <2>1, <2>3, ClaimKept
<1>13. m_work_count_claim' <= m_work_count_claim /\ m_work_count_claim' = m_work_count_claim
  BY <1>2, <1>3 DEF TypeOK
<1> QED
  BY <1>4, <1>6, <1>10, <1>11, <1>12, <1>13, LocalKeeps

\* A worker that main has activated goes round its loop.
LEMMA LoopKeeps ==
  ASSUME Base, NEW t \in Thread, t # Main, Activated(t) \/ Loop(t)
  PROVE  Base'
<1>1. /\ UNCHANGED <<fields, pool, m_control, m_lock, child, rank, call, result, history>>
      /\ \/ /\ pc[t] = "spin" /\ m_control[t] # 0
            /\ pc' = [pc EXCEPT ![t] = "active"] /\ ending' = ending
         \/ /\ pc[t] = "active" /\ pc' = [pc EXCEPT ![t] = "barrier"]
            /\ ending' = IF m_work_routine = NULL THEN ending \cup {t} ELSE ending
  BY DEF Activated, Loop, Goto
<1>2. TypeOK /\ t \in Worker
  BY MainOff DEF Base
<1>3. UNCHANGED <<m_thread_count, m_thread_fan, m_work_routine, m_work_count,
                  m_work_thread_count, m_work_count_claim, m_reduce_join, calls, reduce, joined>>
  BY <1>1 DEF fields, pool, history
<1>4. TypeOK'
  <2>1. pc' \in [Thread -> {"none", "app", "barrier", "run", "work", "fan", "spin",
                        "active", "activate", "wait", "serial", "create", "undo",
                        "undo_activate", "undo_wait"}]
    BY <1>1, <1>2 DEF TypeOK
  <2>2. ending' \in SUBSET Worker
    BY <1>1, <1>2 DEF TypeOK
  <2> QED
    BY <1>1, <1>2, <1>3, <2>1, <2>2 DEF TypeOK
<1>5. /\ pc'[t] = IF pc[t] = "spin" THEN "active" ELSE "barrier"
      /\ pc[t] \in {"spin", "active"}
      /\ pc[t] = "spin" => m_control[t] = 1
  BY <1>1, <1>2 DEF TypeOK
<1>6. Local(t)
  BY <1>1, <1>2, <1>3 DEF Local, TypeOK
<1>7. /\ Undoing' <=> Undoing
      /\ Starting' <=> Starting
      /\ Ending' <=> Ending
      /\ \A s \in Thread : On(s)' <=> On(s)
      /\ Workers' = Workers /\ Members' = Members
  BY <1>6, LocalMain
<1>8. pc'[Main] = pc[Main] /\ child'[Main] = child[Main]
  BY <1>6, PoolAssumption DEF Local, Main, Thread
<1>9. WorkerOK(t) /\ MainOK
  BY <1>2 DEF Base, WorkersOK
<1>10. Called(t)
  BY <1>5, <1>9 DEF WorkerOK, UndoOK, OnOK, OffOK, Parked, Meets, Called, Gone, Runs
<1>11. WorkerOK(t)'
  <2>1. \/ Called(t)'
        \/ m_work_routine = NULL /\ Meets(t)' /\ t \in ending'
        \/ m_work_routine # NULL /\ Meets(t)' /\ t \notin ending'
    BY <1>1, <1>5, <1>10 DEF Called, Meets
  <2>2. CASE Undoing
    <3>1. m_work_routine = NULL
      BY <1>9, <2>2 DEF MainOK
    <3>2. UndoOK(t) /\ ~ Parked(t) /\ ~ Meets(t) /\ ~ Gone(t)
      BY <1>9, <1>10, <2>2 DEF WorkerOK, Called, Parked, Meets, Gone
    <3> QED
      BY <1>3, <1>7, <1>8, <2>1, <2>2, <3>1, <3>2 DEF WorkerOK, UndoOK
  <2>3. CASE ~ Undoing
    <3>1. On(t) /\ ~ Starting /\ OnOK(t)
      BY <1>9, <1>10, <2>3 DEF WorkerOK, OnOK, OffOK, Called, Parked, Meets, Gone
    <3>2. ~ Ending => m_work_routine # NULL
      <4>1. m_thread_count > 1
        BY <1>2, <3>1, PoolAssumption DEF On, Workers, TypeOK
      <4> QED
        BY <1>9, <2>3, <3>1, <4>1 DEF On, MainOK, Starting, Ending, Undoing, Barriers
    <3>3. Ending => m_work_routine = NULL
      BY <1>9 DEF MainOK
    <3> QED
      BY <1>7, <2>1, <2>3, <3>1, <3>2, <3>3 DEF WorkerOK, OnOK
  <2> QED
    BY <2>2, <2>3
<1>12. ~ Past(t) /\ ~ Past(t)' /\ m_control'[t] = 1
  BY <1>1, <1>5, <1>10 DEF Past, Called
<1>13. m_thread_count > 0 /\ ~ Undoing => FanOK(t)'
  BY <1>5, <1>12 DEF FanOK
<1>14. m_work_routine # NULL /\ m_thread_count > 1 => RankOK(t)' /\ ClaimOK'
  <2>1. RankOK(t)'
    BY <1>5, <1>12 DEF RankOK
  <2> QED
    BY <1>3, <1>4, <1>6, <1>12, <2>1, ClaimKept
<1>15. m_work_count_claim' <= m_work_count_claim /\ m_work_count_claim' = m_work_count_claim
  BY <1>2, <1>3 DEF TypeOK
<1> QED
  BY <1>4, <1>6, <1>11, <1>13, <1>14, <1>15, LocalKeeps

-----------------------------------------------------------------------------
(* The steps of main between which no worker runs. *)

Quiet == \A w \in Worker : IF w \in Workers THEN Parked(w) ELSE Gone(w)

\* Before a call starts the workers are parked.
LEMMA QuietBefore ==
  ASSUME Base, pc[Main] = "app", m_work_routine = NULL
  PROVE  Quiet
<1>1. SUFFICES ASSUME NEW w \in Worker
               PROVE  IF w \in Workers THEN Parked(w) ELSE Gone(w)
  BY DEF Quiet
<1>2. WorkerOK(w)
  BY DEF Base, WorkersOK
<1> QED
  BY <1>2 DEF WorkerOK, OffOK, On, Undoing

\* As long as nothing is claimed no rank is below the claims.
LEMMA NoneBelow ==
  \A n, m : n \in Nat /\ m = n => \A r \in 0 .. n - 1 : ~ (r < n - m)
OBVIOUS

\* A member of the pool is a thread.
LEMMA BelowMax ==
  \A n \in 0 .. MaxThreads : \A s \in 0 .. n - 1 : s \in Thread
BY PoolAssumption DEF Thread

\* The invariant of a state in which the workers are parked and main runs nothing.
LEMMA QuietAfter ==
  ASSUME TypeOK', MainOK', FieldsOK', LockOK', Quiet', ~ Undoing',
         \A w \in Worker : ~ On(w)',
         pc'[Main] \notin Barriers \cup {"serial", "create"},
         m_thread_count' > 0 => TreeShape(m_thread_count)',
         m_work_routine' # NULL /\ m_thread_count' > 1 => m_work_count_claim' = m_work_count'
  PROVE  Base'
<1>1. \A s \in Thread : /\ pc'[s] \notin Barriers
                        /\ ~ On(s)'
                        /\ ~ Past(s)'
  <2>1. ASSUME NEW s \in Thread PROVE pc'[s] \notin Barriers /\ ~ On(s)'
    <3>1. CASE s = Main
      BY <3>1 DEF On, Main, Workers
    <3>2. CASE s # Main
      <4>1. s \in Worker
        BY <3>2, MainOff
      <4>2. pc'[s] \in {"spin", "none"}
        BY <4>1 DEF Quiet, Gone, Parked
      <4> QED
        BY <4>1, <4>2 DEF Barriers
    <3> QED
      BY <3>1, <3>2
  <2> QED
    BY <2>1 DEF Past, Barriers
<1>2. WorkersOK'
  <2> SUFFICES ASSUME NEW w \in Worker PROVE WorkerOK(w)'
    BY DEF WorkersOK
  <2> QED
    BY DEF WorkerOK, OffOK, Quiet
<1>3. \A s \in 0 .. m_thread_count' - 1 : s \in Thread
  <2>1. m_thread_count' \in 0 .. MaxThreads
    BY DEF TypeOK
  <2> QED
    BY <2>1, BelowMax, Zenon
<1>4. TreeInv'
  <2>1. ASSUME NEW s \in 0 .. m_thread_count' - 1 PROVE FanOK(s)'
    BY <1>1, <1>3 DEF FanOK, Barriers
  <2> QED
    BY <2>1 DEF TreeInv
<1>5. RankInv'
  <2> SUFFICES ASSUME m_work_routine' # NULL, m_thread_count' > 1 PROVE RankInv'
    BY DEF RankInv
  <2>1. \A s \in Members' : RankOK(s)'
    BY <1>1, <1>3 DEF RankOK, Members, Barriers
  <2>2. m_work_count' \in Nat /\ m_work_count_claim' = m_work_count' /\ m_thread_count' \in Nat
    BY MaxWorkIs, PoolAssumption DEF TypeOK
  <2> PICK B : B = {s \in Members : Past(s)}'
    OBVIOUS
  <2>3. Cardinality(B) \in Nat
    <3>1. B \in SUBSET (0 .. m_thread_count' - 1)
      BY DEF Members
    <3> QED
      BY <2>2, <3>1, MembersFinite
  <2>4. ClaimOK'
    <3>1. \A r \in 0 .. m_work_count' - 1 : ~ (r < m_work_count' - m_work_count_claim')
      BY <2>2, NoneBelow, Zenon
    <3>2. m_work_count_claim' >= - Cardinality(B)
      BY <2>2, <2>3
    <3> QED
      BY <2>2, <3>1, <3>2 DEF ClaimOK
  <2> QED
    BY <2>1, <2>4 DEF RankInv
<1>6. SerialInv'
  BY DEF SerialInv
<1> QED
  BY <1>2, <1>4, <1>5, <1>6 DEF Base

\* local_start, whatever interface function calls it.
LEMMA StartKeeps ==
  ASSUME Base, pc[Main] = "app", m_work_routine = NULL,
         NEW name, NEW threads, NEW routine, NEW count, NEW join,
         local_start(name, threads, routine, count, join),
         UNCHANGED <<pool, m_control, ending, rank>>,
         threads \in -1 .. m_thread_count, count \in 0 .. MaxWork, join \in BOOLEAN,
         routine \in {NULL, "user", "local_block"}, name # "TPI_Init",
         routine = NULL <=> name = "TPI_Finalize",
         routine = NULL => count = 0 /\ threads = 0, join => routine = "user",
         m_lock' \in {Main, NULL}, m_lock' = Main <=> routine = "local_block",
         routine = "local_block" <=> name = "TPI_Block"
  PROVE  Base'
<1>1. TypeOK /\ MainOK /\ FieldsOK /\ Quiet /\ m_thread_count \in 0 .. MaxThreads /\ MaxThreads \in Nat
      /\ MaxWork \in Nat /\ count \in Nat
  <2>1. TypeOK /\ MainOK /\ FieldsOK
    BY DEF Base
  <2>2. Quiet
    BY QuietBefore
  <2>3. m_thread_count \in 0 .. MaxThreads /\ MaxThreads \in Nat /\ MaxWork \in Nat
    BY <2>1, PoolAssumption, MaxWorkIs DEF TypeOK
  <2> QED
    BY <2>1, <2>2, <2>3
<1>2. /\ m_work_routine' = routine /\ m_work_count' = count /\ call' = name
      /\ UNCHANGED <<m_thread_count, m_thread_fan, m_control, ending, rank, calls, reduce, joined>>
  BY DEF local_start, pool, history
<1>3. \/ /\ 1 < m_thread_count /\ m_reduce_join' = join
         /\ m_work_thread_count' = threads /\ m_work_count_claim' = count
         /\ child' = [child EXCEPT ![Main] = m_thread_count]
         /\ pc' = [pc EXCEPT ![Main] = "activate"] /\ result' = result
      \/ /\ ~ (1 < m_thread_count)
         /\ pc' = [pc EXCEPT ![Main] = IF name \in Asynchronous THEN "app" ELSE "wait"]
         /\ UNCHANGED <<m_reduce_join, m_work_thread_count, m_work_count_claim, child>>
  BY DEF local_start, AfterStart, Goto, Returns
<1>4. Main \in Thread /\ Main \notin Worker
  BY PoolAssumption DEF Main, Thread, Worker
<1> PICK many : many \in BOOLEAN /\ (many <=> 1 < m_thread_count)
  OBVIOUS
<1> DEFINE Given == /\ m_reduce_join \in BOOLEAN /\ m_work_thread_count \in -1 .. MaxThreads
                    /\ m_work_count_claim \in -MaxThreads .. MaxWork
                    /\ m_work_thread_count <= m_thread_count
                    /\ ~ m_reduce_join /\ m_work_count_claim = 0 /\ m_work_thread_count = 0
<1>16. Given
  BY <1>1 DEF TypeOK, FieldsOK
<1>17. /\ many => m_reduce_join' = join /\ m_work_thread_count' = threads /\ m_work_count_claim' = count
       /\ ~ many => UNCHANGED <<m_reduce_join, m_work_thread_count, m_work_count_claim>>
  BY <1>3
<1>18. /\ m_reduce_join' \in BOOLEAN /\ m_work_thread_count' \in -1 .. MaxThreads
       /\ m_work_count_claim' \in -MaxThreads .. MaxWork
       /\ m_work_count_claim' <= count /\ m_work_thread_count' <= m_thread_count
       /\ m_work_count_claim' = 0 \/ m_work_count_claim' = count
  BY <1>1, <1>16, <1>17
<1>5. pc'[Main] = IF 1 < m_thread_count THEN "activate"
                  ELSE IF name \in Asynchronous THEN "app" ELSE "wait"
  BY <1>1, <1>3, <1>4 DEF TypeOK
<1>6. TypeOK'
  <2>1. pc' \in [Thread -> {"none", "app", "barrier", "run", "work", "fan", "spin",
                        "active", "activate", "wait", "serial", "create", "undo",
                        "undo_activate", "undo_wait"}]
    BY <1>1, <1>3 DEF TypeOK
  <2>2. child' \in [Thread -> 0 .. MaxThreads]
    BY <1>1, <1>3 DEF TypeOK
  <2> QED
    BY <1>1, <1>2, <1>4, <1>18, <2>1, <2>2 DEF TypeOK
<1>7. ~ Undoing' /\ ~ Starting' /\ (Ending' => routine = NULL)
  BY <1>2, <1>5 DEF Undoing, Starting, Ending
<1>8. MainOK'
  <2>1. m_thread_count > 1 => child'[Main] = m_thread_count
    BY <1>1, <1>3, <1>4 DEF TypeOK
  <2>2. name = "TPI_Finalize" => name \notin Asynchronous
    BY DEF Asynchronous
  <2> QED
    BY <1>1, <1>2, <1>5, <1>7, <2>1, <2>2 DEF MainOK, Undoing
<1>9. FieldsOK'
  BY <1>1, <1>2, <1>16, <1>17, <1>18, PoolAssumption DEF FieldsOK
<1>10. LockOK'
  BY <1>2 DEF LockOK
<1>11. Quiet'
  <2> SUFFICES ASSUME NEW w \in Worker PROVE (IF w \in Workers THEN Parked(w) ELSE Gone(w))'
    BY DEF Quiet
  <2>1. IF w \in Workers THEN Parked(w) ELSE Gone(w)
    BY <1>1 DEF Quiet
  <2>2. pc'[w] = pc[w]
    <3>1. \E label : pc' = [pc EXCEPT ![Main] = label]
      BY <1>3
    <3> QED
      BY <1>1, <1>4, <3>1 DEF TypeOK, Worker
  <2> QED
    BY <1>2, <2>1, <2>2 DEF Parked, Gone, Workers
<1>12. \A w \in Worker : ~ On(w)'
  BY <1>1, <1>2, <1>3, <1>4, <1>5 DEF On, Workers, TypeOK
<1>13. m_thread_count' > 0 => TreeShape(m_thread_count)'
  <2>1. pc[Main] = "app" => ~ Undoing
    BY DEF Undoing
  <2> QED
    BY <1>2, <2>1 DEF Base, TreeInv, TreeShape
<1>14. pc'[Main] \notin Barriers \cup {"serial", "create"}
  BY <1>5 DEF Barriers
<1>15. m_work_routine' # NULL /\ m_thread_count' > 1 => m_work_count_claim' = m_work_count'
  BY <1>1, <1>2, <1>3
<1> QED
  BY <1>6, <1>7, <1>8, <1>9, <1>10, <1>11, <1>12, <1>13, <1>14, <1>15, QuietAfter

\* The calls that run a subprogram of the user.
LEMMA UserStart ==
  ASSUME Base, CanStart, NEW name, NEW threads, NEW count, NEW join,
         local_start(name, threads, "user", count, join),
         UNCHANGED <<pool, m_control, m_lock, ending, rank>>,
         name \notin {"TPI_Init", "TPI_Finalize", "TPI_Block"},
         threads \in {m_thread_count, m_thread_count - 1},
         count \in 0 .. MaxWork, join \in BOOLEAN
  PROVE  Base'
<1>1. pc[Main] = "app" /\ m_work_routine = NULL
  BY DEF CanStart
<1>2. m_thread_count \in Nat
  BY PoolAssumption DEF Base, TypeOK
<1>3. threads \in -1 .. m_thread_count
  BY <1>2
<1>4. "user" # NULL
  BY PoolAssumption
<1>5. m_lock' \in {Main, NULL} /\ m_lock' # Main
  BY <1>1, PoolAssumption DEF Base, LockOK, Main
<1> QED
  BY <1>1, <1>3, <1>4, <1>5, StartKeeps

\* The TPI_Run and TPI_Start families.
LEMMA StartsKeep ==
  ASSUME Base, Start
  PROVE  Base'
<1>1. UNCHANGED <<pool, m_control, m_lock, ending, rank>>
  BY DEF Start
<1>2. m_thread_count \in 0 .. MaxThreads /\ MaxThreads \in Nat \ {0} /\ MaxWork \in Nat /\ MaxThreads <= MaxWork
  BY PoolAssumption, MaxWorkIs DEF Base, TypeOK
<1>3. AtLeastOne(m_thread_count) \in 0 .. MaxWork /\ AtLeastOne(m_thread_count - 1) \in 0 .. MaxWork
  BY <1>2 DEF AtLeastOne
<1>4. \A c \in WorkCounts : c \in 0 .. MaxWork
  BY MaxWorkIs, PoolAssumption
<1>5. ASSUME NEW c \in WorkCounts, TPI_Run(c) PROVE Base'
  BY <1>1, <1>4, <1>5, UserStart DEF TPI_Run
<1>6. ASSUME NEW c \in WorkCounts, TPI_Run_reduce(c) PROVE Base'
  BY <1>1, <1>4, <1>6, UserStart DEF TPI_Run_reduce
<1>7. ASSUME NEW c \in WorkCounts, TPI_Start(c) PROVE Base'
  BY <1>1, <1>4, <1>7, UserStart DEF TPI_Start
<1>8. ASSUME NEW c \in WorkCounts, TPI_Start_reduce(c) PROVE Base'
  BY <1>1, <1>4, <1>8, UserStart DEF TPI_Start_reduce
<1>9. ASSUME TPI_Run_threads PROVE Base'
  BY <1>1, <1>3, <1>9, UserStart DEF TPI_Run_threads
<1>10. ASSUME TPI_Run_threads_reduce PROVE Base'
  BY <1>1, <1>3, <1>10, UserStart DEF TPI_Run_threads_reduce
<1>11. ASSUME TPI_Start_threads PROVE Base'
  BY <1>1, <1>3, <1>11, UserStart DEF TPI_Start_threads
<1>12. ASSUME TPI_Start_threads_reduce PROVE Base'
  BY <1>1, <1>3, <1>12, UserStart DEF TPI_Start_threads_reduce
<1> QED
  BY <1>5, <1>6, <1>7, <1>8, <1>9, <1>10, <1>11, <1>12, Zenon DEF Start

\* TPI_Block starts the subprogram that blocks on the mutex main has taken.
LEMMA BlockKeeps ==
  ASSUME Base, TPI_Block
  PROVE  Base'
<1>1. /\ pc[Main] = "app" /\ m_work_routine = NULL /\ m_lock' = Main
      /\ local_start("TPI_Block", m_thread_count, "local_block", m_thread_count, FALSE)
      /\ UNCHANGED <<pool, m_control, ending, rank>>
  BY DEF TPI_Block, CanStart
<1>2. m_thread_count \in -1 .. m_thread_count /\ m_thread_count \in 0 .. MaxWork
  BY PoolAssumption, MaxWorkIs DEF Base, TypeOK
<1>3. "local_block" # NULL
  BY PoolAssumption
<1> QED
  BY <1>1, <1>2, <1>3, StartKeeps

\* TPI_Finalize starts no subprogram at all.
LEMMA FinalizeKeeps ==
  ASSUME Base, TPI_Finalize
  PROVE  Base'
<1>1. /\ pc[Main] = "app" /\ m_work_routine = NULL
      /\ local_start("TPI_Finalize", 0, NULL, 0, FALSE)
      /\ UNCHANGED <<pool, m_control, m_lock, ending, rank>>
  BY DEF TPI_Finalize, CanStart
<1>2. 0 \in -1 .. m_thread_count /\ 0 \in 0 .. MaxWork
  BY PoolAssumption, MaxWorkIs DEF Base, TypeOK
<1>3. NULL \notin {"user", "local_block"} /\ m_lock' \in {Main, NULL} /\ m_lock' # Main
  BY <1>1, PoolAssumption DEF Base, LockOK, Main
<1> QED
  BY <1>1, <1>2, <1>3, StartKeeps

\* A step of main that leaves the workers and the fields of the work alone.
LEMMA MainKeeps ==
  ASSUME Base, TypeOK', MainOK', LockOK', SerialInv',
         UNCHANGED <<m_control, ending, pool, m_work_routine, m_work_count,
                     m_work_thread_count, m_work_count_claim, m_reduce_join>>,
         \A s \in Worker : UNCHANGED <<pc[s], child[s], rank[s]>>,
         \A r \in Ranks : calls[r] > 0 => calls'[r] > 0,
         ~ Undoing, ~ Undoing', Starting' <=> Starting, Ending' <=> Ending,
         \A s \in Worker : On(s)' <=> On(s),
         pc'[Main] # "create", pc[Main] = "create" => \A s \in Workers : On(s),
         pc[Main] \notin {"fan", "run", "work"}, pc'[Main] \notin {"fan", "run", "work"}
  PROVE  Base'
<1>1. UNCHANGED <<m_thread_count, m_thread_fan>> /\ Workers' = Workers /\ Members' = Members
  BY DEF pool, Workers, Members
<1>2. TypeOK
  BY DEF Base
<1>3. FieldsOK'
  BY <1>1 DEF Base, FieldsOK
<1>4. WorkersOK'
  <2> SUFFICES ASSUME NEW s \in Worker PROVE WorkerOK(s)'
    BY DEF WorkersOK
  <2>1. WorkerOK(s) /\ pc'[s] = pc[s]
    BY DEF Base, WorkersOK
  <2> QED
    BY <1>1, <2>1 DEF WorkerOK, OnOK, OffOK, Parked, Meets, Called, Gone, Runs
<1>5. \A s \in Thread : s = Main \/ s \in Worker
  BY MainOff
<1>6. \A s \in 0 .. m_thread_count - 1 : s \in Thread
  BY <1>2, BelowMax DEF TypeOK
<1>7. TreeInv'
  <2> SUFFICES ASSUME m_thread_count > 0 PROVE TreeInv'
    BY <1>1 DEF TreeInv
  <2>1. TreeShape(m_thread_count) /\ \A s \in 0 .. m_thread_count - 1 : FanOK(s)
    BY DEF Base, TreeInv
  <2>2. TreeShape(m_thread_count)'
    BY <1>1, <2>1 DEF TreeShape
  <2>3. ASSUME NEW s \in 0 .. m_thread_count - 1 PROVE FanOK(s)'
    <3>1. CASE s = Main
      <4>1. ~ On(Main)'
        BY DEF On, Main, Workers
      <4> QED
        BY <3>1, <4>1 DEF FanOK
    <3>2. CASE s # Main
      <4>1. s \in Worker /\ FanOK(s)
        BY <1>5, <1>6, <2>1, <3>2
      <4>2. Kids(s)' = Kids(s)
        BY <1>1 DEF Kids
      <4>3. UNCHANGED <<pc[s], child[s], m_control[s]>> /\ (On(s)' <=> On(s))
        BY <4>1
      <4> QED
        BY <1>1, <4>1, <4>2, <4>3 DEF FanOK
    <3> QED
      BY <3>1, <3>2
  <2> QED
    BY <1>1, <2>2, <2>3 DEF TreeInv
<1>8. RankInv'
  <2> SUFFICES ASSUME m_work_routine # NULL, m_thread_count > 1 PROVE RankInv'
    BY <1>1 DEF RankInv
  <2>1. (\A s \in Members : RankOK(s)) /\ ClaimOK /\ (Ranked' <=> Ranked)
    BY DEF Base, RankInv, Ranked
  <2>2. ~ Past(Main) /\ ~ Past(Main)'
    BY DEF Past, On, Main, Workers
  <2>3. ASSUME NEW s \in Members PROVE (Past(s)' <=> Past(s)) /\ RankOK(s)'
    <3>1. s \in Thread
      BY <1>6 DEF Members
    <3>2. CASE s = Main
      BY <2>2, <3>2 DEF RankOK
    <3>3. CASE s # Main
      <4>1. s \in Worker /\ UNCHANGED <<pc[s], rank[s], m_control[s]>>
        BY <1>5, <3>1, <3>3
      <4>2. Past(s)' <=> Past(s)
        BY <4>1 DEF Past
      <4>3. RankOf(s)' = RankOf(s) /\ (RankOf(s) < m_work_count => RankOf(s) \in Ranks)
        <5>1. m_thread_count \in Nat /\ m_work_count \in 0 .. MaxWork /\ MaxWork \in Nat
          BY <1>2, PoolAssumption, MaxWorkIs DEF TypeOK
        <5> QED
          BY <1>1, <5>1 DEF RankOf, Members, Ranks
      <4> QED
        BY <2>1, <4>1, <4>2, <4>3 DEF RankOK
    <3> QED
      BY <3>2, <3>3
  <2>4. ClaimOK'
    <3>1. {s \in Members : Past(s)}' = {s \in Members : Past(s)}
      BY <1>1, <2>3
    <3>2. \A r \in 0 .. m_work_count - 1 : r \in Ranks
      BY <1>2, MaxWorkIs DEF TypeOK, Ranks
    <3> QED
      BY <2>1, <3>1, <3>2 DEF ClaimOK
  <2> QED
    BY <1>1, <2>3, <2>4 DEF RankInv
<1> QED
  BY <1>3, <1>4, <1>7, <1>8 DEF Base

\* Main goes to wait.
LEMMA WaitsKeep ==
  ASSUME Base, TPI_Wait \/ TPI_Unblock \/ Wait
  PROVE  Base'
<1>1. /\ UNCHANGED <<fields, pool, m_control, ending, child, history>>
      /\ \/ /\ pc[Main] = "app" /\ m_work_routine = "user" /\ call' = "TPI_Wait"
            /\ pc' = [pc EXCEPT ![Main] = "wait"] /\ UNCHANGED <<m_lock, rank>>
         \/ /\ pc[Main] = "app" /\ m_work_routine = "local_block" /\ call' = "TPI_Unblock"
            /\ pc' = [pc EXCEPT ![Main] = "wait"] /\ m_lock' = NULL /\ rank' = rank
         \/ /\ pc[Main] = "wait" /\ UNCHANGED <<call, m_lock>>
            /\ pc' = [pc EXCEPT ![Main] = IF 1 < m_thread_count THEN "barrier" ELSE "serial"]
            /\ rank' = [rank EXCEPT ![Main] = 0]
  BY DEF TPI_Wait, TPI_Unblock, Wait, Goto
<1>2. /\ UNCHANGED <<m_thread_count, m_thread_fan, m_work_routine, m_work_count,
                     m_work_thread_count, m_work_count_claim, m_reduce_join, calls, reduce,
                     joined>>
      /\ TypeOK /\ MainOK /\ LockOK /\ m_thread_count \in Nat /\ m_work_count \in Nat
      /\ Main \in Thread /\ Main \notin Worker /\ NULL # Main /\ 0 \in 0 .. MaxWork
  <2>1. TypeOK /\ MainOK /\ LockOK
    BY DEF Base
  <2>2. Main \in Thread /\ Main \notin Worker /\ NULL # Main /\ 0 \in 0 .. MaxWork
    BY PoolAssumption, MaxWorkIs DEF Main, Thread, Worker
  <2>3. m_thread_count \in Nat /\ m_work_count \in Nat
    BY <2>1, PoolAssumption, MaxWorkIs DEF TypeOK
  <2> QED
    BY <1>1, <2>1, <2>2, <2>3 DEF fields, pool, history
<1>3. pc'[Main] = IF pc[Main] = "app" THEN "wait" ELSE IF 1 < m_thread_count THEN "barrier" ELSE "serial"
  BY <1>1, <1>2 DEF TypeOK
<1>4. TypeOK'
  <2>1. pc' \in [Thread -> {"none", "app", "barrier", "run", "work", "fan", "spin",
                        "active", "activate", "wait", "serial", "create", "undo",
                        "undo_activate", "undo_wait"}]
    BY <1>1, <1>2 DEF TypeOK
  <2>2. rank' \in [Thread -> 0 .. MaxWork] /\ m_lock' \in Thread \cup {NULL}
    BY <1>1, <1>2 DEF TypeOK
  <2> QED
    BY <1>1, <1>2, <2>1, <2>2 DEF TypeOK
<1>5. ~ Undoing /\ ~ Undoing'
  BY <1>1, <1>3 DEF Undoing
<1>6. ~ Starting /\ ~ Starting'
  BY <1>1, <1>2, <1>3 DEF Starting, Barriers, MainOK
<1>7. Ending' <=> Ending
  BY <1>1, <1>3 DEF Ending
<1>8. MainOK'
  <2>1. m_work_routine = NULL <=> call' = "TPI_Finalize"
    BY <1>1, <1>2, PoolAssumption DEF MainOK
  <2>2. call' # "TPI_Init"
    BY <1>1, <1>2 DEF MainOK
  <2>3. call' \notin Asynchronous
    BY <1>1, <1>2 DEF MainOK, Asynchronous
  <2> QED
    BY <1>1, <1>2, <1>3, <1>5, <1>6, <1>7, <2>1, <2>2, <2>3 DEF MainOK, Undoing
<1>9. LockOK'
  BY <1>1, <1>2, <1>3 DEF LockOK
<1>10. SerialInv'
  <2>1. pc'[Main] = "serial" => rank'[Main] = 0
    BY <1>1, <1>2, <1>3 DEF TypeOK
  <2> QED
    BY <1>2, <2>1 DEF SerialInv
<1>11. \A s \in Worker : UNCHANGED <<pc[s], child[s], rank[s]>>
  <2>1. rank \in [Thread -> 0 .. MaxWork]
    BY <1>2 DEF TypeOK
  <2>2. \A s \in Worker : s \in Thread /\ s # Main
    BY DEF Worker
  <2>3. \A s \in Worker : pc'[s] = pc[s]
    BY <1>1, <1>2, <2>2 DEF TypeOK
  <2>4. \A s \in Worker : rank'[s] = rank[s]
    BY <1>1, <2>1, <2>2
  <2> QED
    BY <1>1, <2>3, <2>4
<1>12. \A s \in Worker : On(s)' <=> On(s)
  BY <1>1, <1>2, <1>3, <1>5, PoolAssumption DEF On, Workers
<1> QED
  BY <1>1, <1>2, <1>3, <1>4, <1>5, <1>6, <1>7, <1>8, <1>9, <1>10, <1>11, <1>12, MainKeeps

\* The invariant does not look at the result of a call.
LEMMA RefusedKeeps ==
  ASSUME Base, UNCHANGED <<fields, pool, m_control, m_lock, pc, ending, child, rank, call,
  history>>
  PROVE  Base'
BY DEF Base, TypeOK, MainOK, FieldsOK, LockOK, WorkersOK, TreeInv, RankInv, SerialInv, fields,
       pool, history, WorkerOK, OnOK, OffOK, UndoOK, On, Gone, Parked, Called, Meets, Runs,
       Undoing, Starting, Ending, Workers, FanOK, TreeShape, Kids, RankOK, ClaimOK, Ranked,
       RankOf, Past,
       Members

\* A pool without workers runs the ranks one by one.
LEMMA RunSerialKeeps ==
  ASSUME Base, RunSerial
  PROVE  Base'
<1> PICK r : r = rank[Main]
  OBVIOUS
<1>1. /\ pc[Main] = "serial" /\ r < m_work_count
      /\ rank' = [rank EXCEPT ![Main] = r + 1]
      /\ calls' = [calls EXCEPT ![r] = @ + 1]
      /\ reduce' = [reduce EXCEPT ![Main] = @ \cup {r}]
      /\ UNCHANGED <<fields, pool, m_control, m_lock, ending, pc, child, call, result, joined>>
  BY DEF RunSerial
<1>2. /\ TypeOK /\ MainOK /\ LockOK /\ SerialInv
      /\ Main \in Thread /\ Main \notin Worker
  BY PoolAssumption DEF Base, Main, Thread, Worker
<1>3. /\ UNCHANGED <<m_thread_count, m_thread_fan, m_work_routine, m_work_count,
                     m_work_thread_count, m_work_count_claim, m_reduce_join>>
      /\ m_work_count \in 0 .. MaxWork /\ MaxWork \in Nat /\ r \in Nat /\ r \in Ranks
      /\ r + 1 \in 0 .. MaxWork
  <2>1. m_work_count \in 0 .. MaxWork /\ MaxWork \in Nat /\ r \in 0 .. MaxWork
    BY <1>2, MaxWorkIs DEF TypeOK
  <2> QED
    BY <1>1, <2>1 DEF fields, pool, Ranks
<1>4. calls \in [Ranks -> Nat] /\ calls' \in [Ranks -> Nat]
      /\ \A i \in Ranks : calls'[i] = IF i = r THEN calls[i] + 1 ELSE calls[i]
  <2>1. calls \in [Ranks -> Nat]
    BY <1>2 DEF TypeOK
  <2> QED
    BY <1>1, <1>3, <2>1
<1>5. rank \in [Thread -> 0 .. MaxWork] /\ rank' \in [Thread -> 0 .. MaxWork]
  <2>1. rank \in [Thread -> 0 .. MaxWork]
    BY <1>2 DEF TypeOK
  <2> QED
    BY <1>1, <1>3, <2>1
<1>6. reduce' \in [Thread -> SUBSET Ranks]
  <2>1. reduce \in [Thread -> SUBSET Ranks]
    BY <1>2 DEF TypeOK
  <2> QED
    BY <1>1, <1>3, <2>1
<1>7. TypeOK'
  BY <1>1, <1>2, <1>3, <1>4, <1>5, <1>6 DEF TypeOK
<1>8. /\ Undoing' <=> Undoing
      /\ Starting' <=> Starting
      /\ Ending' <=> Ending
      /\ \A s \in Worker : On(s)' <=> On(s)
  BY <1>1, <1>3 DEF Undoing, Starting, Ending, On, Workers
<1>9. MainOK' /\ LockOK'
  BY <1>1, <1>2, <1>3, <1>8 DEF MainOK, LockOK
<1>10. SerialInv'
  <2>1. rank'[Main] = r + 1
    BY <1>1, <1>2, <1>5
  <2>2. \A i \in 0 .. r - 1 : i \in Ranks /\ calls[i] > 0
    BY <1>1, <1>2, <1>3 DEF SerialInv, Ranks
  <2>3. ASSUME NEW i \in 0 .. r PROVE calls'[i] > 0
    <3>1. CASE i = r
      BY <1>3, <1>4, <3>1
    <3>2. CASE i # r
      <4>1. i \in 0 .. r - 1
        BY <1>3, <3>2
      <4> QED
        BY <1>4, <2>2, <3>2, <4>1
    <3> QED
      BY <3>1, <3>2
  <2>4. r + 1 \in 0 .. m_work_count /\ r + 1 - 1 = r
    BY <1>1, <1>3
  <2> QED
    BY <1>1, <1>3, <2>1, <2>3, <2>4 DEF SerialInv
<1>11. \A s \in Worker : UNCHANGED <<pc[s], child[s], rank[s]>>
  BY <1>1, <1>2, <1>5 DEF Worker
<1>12. \A i \in Ranks : calls[i] > 0 => calls'[i] > 0
  BY <1>4
<1>13. ~ Undoing
  BY <1>1 DEF Undoing
<1> QED
  BY <1>1, <1>3, <1>7, <1>8, <1>9, <1>10, <1>11, <1>12, <1>13, MainKeeps

\* All workers are created.
LEMMA CreatedKeeps ==
  ASSUME Base, Created
  PROVE  Base'
<1>1. /\ pc[Main] = "create" /\ child[Main] <= 1
      /\ pc' = [pc EXCEPT ![Main] = "barrier"]
      /\ UNCHANGED <<fields, pool, m_control, m_lock, ending, child, rank, call, result, history>>
  BY DEF Created, Goto
<1>2. /\ TypeOK /\ MainOK /\ LockOK /\ SerialInv
      /\ Main \in Thread /\ Main \notin Worker
  BY PoolAssumption DEF Base, Main, Thread, Worker
<1>3. UNCHANGED <<m_thread_count, m_thread_fan, m_work_routine, m_work_count, m_work_thread_count,
                  m_work_count_claim, m_reduce_join, calls, reduce, joined>>
  BY <1>1 DEF fields, pool, history
<1>4. TypeOK' /\ pc'[Main] = "barrier"
  <2>1. pc' \in [Thread -> {"none", "app", "barrier", "run", "work", "fan", "spin",
                        "active", "activate", "wait", "serial", "create", "undo",
                        "undo_activate", "undo_wait"}]
    BY <1>1, <1>2 DEF TypeOK
  <2>2. pc'[Main] = "barrier"
    BY <1>1, <1>2 DEF TypeOK
  <2> QED
    BY <1>1, <1>2, <1>3, <2>1, <2>2 DEF TypeOK
<1>5. m_thread_count > 0 /\ call = "TPI_Init" /\ child[Main] = 1 /\ m_work_routine = NULL
  BY <1>1, <1>2, PoolAssumption DEF MainOK, TypeOK, Starting
<1>6. ~ Undoing /\ ~ Undoing' /\ Starting /\ Starting' /\ ~ Ending /\ ~ Ending'
  BY <1>1, <1>4, <1>5 DEF Undoing, Starting, Ending, Barriers
<1>7. MainOK' /\ LockOK' /\ SerialInv'
  <2>1. "TPI_Init" \notin Asynchronous
    BY DEF Asynchronous
  <2> QED
    BY <1>1, <1>2, <1>3, <1>4, <1>5, <1>6, <2>1 DEF MainOK, LockOK, SerialInv, Undoing
<1>8. /\ \A s \in Worker : UNCHANGED <<pc[s], child[s], rank[s]>>
      /\ \A s \in Worker : On(s)' <=> On(s)
      /\ \A s \in Workers : On(s)
  <2>1. \A s \in Worker : pc'[s] = pc[s]
    BY <1>1, <1>2 DEF TypeOK
  <2>2. \A s \in Workers : child[Main] <= s
    BY <1>5, <1>2, PoolAssumption DEF Workers, TypeOK
  <2> QED
    BY <1>1, <1>3, <1>4, <1>6, <2>1, <2>2 DEF On, Workers
<1> QED
  BY <1>1, <1>3, <1>4, <1>6, <1>7, <1>8, MainKeeps

-----------------------------------------------------------------------------
(* The ends of the calls. *)

\* When main has joined its children every worker has deactivated itself: the value of
\* each went up the tree.
LEMMA AllDone ==
  ASSUME Base, pc[Main] = "fan", AllIn(Main)
  PROVE  \A w \in Workers : m_control[w] = 0
<1>1. TypeOK /\ MainOK /\ ~ Undoing /\ TreeInv
  BY DEF Base, Undoing
<1>2. m_thread_count \in 0 .. MaxThreads /\ MaxThreads \in Nat /\ Main \in Thread /\ Main = 0
  BY <1>1, PoolAssumption DEF TypeOK, Main, Thread
<1>3. m_thread_count > 0
  BY <1>2, InBarrier, <1>1 DEF Barriers, Members
<1>4. TreeShape(m_thread_count) /\ \A s \in 0 .. m_thread_count - 1 : FanOK(s)
  BY <1>1, <1>3 DEF TreeInv
<1>5. \A s \in 0 .. m_thread_count : m_thread_fan[s] \in Nat
  <2>1. m_thread_fan \in [0 .. MaxThreads -> 0 .. MaxThreads]
    BY <1>1 DEF TypeOK
  <2> QED
    BY <1>2, <2>1
<1> DEFINE Late == {w \in Workers : m_control[w] # 0}
<1>6. SUFFICES ASSUME Late # {} PROVE FALSE
  OBVIOUS
<1>7. Late \in SUBSET Nat
  BY <1>2 DEF Workers
<1>8. PICK w \in Late : \A v \in Late : w <= v
  BY <1>6, <1>7, Least
<1>9. w \in 1 .. m_thread_count - 1 /\ m_control[w] # 0
  BY DEF Workers
<1>10. PICK p \in 0 .. w - 1 : w \in m_thread_fan[p] .. m_thread_fan[p + 1] - 1
  <2>1. /\ m_thread_fan[0] = 1 /\ m_thread_fan[m_thread_count] = m_thread_count
        /\ \A t \in 0 .. m_thread_count - 1 : t < m_thread_fan[t]
    BY <1>4 DEF TreeShape
  <2>2. m_thread_count \in Nat \ {0}
    BY <1>2, <1>3
  <2> QED
    BY <1>5, <1>9, <2>1, <2>2, HasParent
<1>11. p \in 0 .. m_thread_count - 1 /\ w \in Kids(p) /\ FanOK(p) /\ ~ (w <= p)
  BY <1>2, <1>4, <1>9, <1>10 DEF Kids
<1>12. CASE p = 0
  <2>1. child[0] \in m_thread_fan[0] .. m_thread_fan[0 + 1]
        /\ \A c \in child[0] .. m_thread_fan[0 + 1] - 1 : m_control[c] = 0
    BY <1>2, <1>11, <1>12 DEF FanOK
  <2>2. m_thread_fan[0] >= child[0]
    BY <1>2 DEF AllIn
  <2>3. m_thread_fan[0] \in Nat /\ m_thread_fan[0 + 1] \in Nat
    BY <1>2, <1>3, <1>5
  <2>4. child[0] = m_thread_fan[0]
    BY <2>1, <2>2, <2>3
  <2> QED
    BY <1>9, <1>11, <1>12, <2>1, <2>4 DEF Kids
<1>13. CASE p # 0
  <2>1. p \in Workers
    BY <1>2, <1>11, <1>13 DEF Workers
  <2>2. m_control[p] = 0
    BY <1>8, <1>11, <2>1
  <2>3. On(p)
    BY <1>1, <2>1 DEF On
  <2> QED
    BY <1>9, <1>11, <2>2, <2>3 DEF FanOK
<1> QED
  BY <1>12, <1>13

\* The end of a run finds the workers parked, and that of the pool finds none.
LEMMA QuietAtReset ==
  ASSUME Base, \/ pc[Main] = "fan" /\ AllIn(Main)
               \/ pc[Main] = "serial"
  PROVE  \A w \in Worker :
           IF w \in Workers /\ call # "TPI_Finalize" THEN Parked(w) ELSE Gone(w)
<1>1. SUFFICES ASSUME NEW w \in Worker
               PROVE  IF w \in Workers /\ call # "TPI_Finalize" THEN Parked(w) ELSE Gone(w)
  OBVIOUS
<1>2. WorkerOK(w) /\ MainOK /\ ~ Undoing
  BY DEF Base, WorkersOK, Undoing
<1>3. CASE w \notin Workers
  BY <1>2, <1>3 DEF WorkerOK, OffOK, On
<1>4. CASE w \in Workers
  <2>1. m_thread_count > 1
    <3>1. m_thread_count \in Nat
      BY PoolAssumption DEF Base, TypeOK
    <3> QED
      BY <1>4, <3>1 DEF Workers
  <2>2. pc[Main] = "fan" /\ m_control[w] = 0
    BY <1>2, <1>4, <2>1, AllDone DEF MainOK, Base, TypeOK
  <2>3. On(w)
    BY <1>2, <1>4, <2>2 DEF On
  <2>4. Ending <=> call = "TPI_Finalize"
    BY <2>2 DEF Ending
  <2>5. Starting => ~ Ending
    BY DEF Starting, Ending
  <2> QED
    BY <1>2, <1>4, <2>2, <2>3, <2>4, <2>5
       DEF WorkerOK, OnOK, Parked, Gone, Called, Meets, Runs
<1> QED
  BY <1>3, <1>4

\* The end of local_wait.
LEMMA ResetKeeps ==
  ASSUME Base, Reset
  PROVE  Base'
<1>1. /\ \/ pc[Main] = "fan" /\ AllIn(Main) /\ call # "TPI_Init"
         \/ pc[Main] = "serial" /\ rank[Main] >= m_work_count
      /\ m_work_routine' = NULL /\ m_work_count' = 0
      /\ m_work_thread_count' = 0 /\ m_work_count_claim' = 0
      /\ m_reduce_join' = FALSE
      /\ m_thread_count' = IF call = "TPI_Finalize" THEN 0 ELSE m_thread_count
      /\ child' = [child EXCEPT ![Main] = 0] /\ rank' = [rank EXCEPT ![Main] = 0]
      /\ calls' = [r \in Ranks |-> 0]
      /\ reduce' = [t \in Thread |-> {}]
      /\ joined' = [t \in Thread |-> 0]
      /\ pc' = [pc EXCEPT ![Main] = "app"]
      /\ UNCHANGED <<m_thread_fan, m_control, m_lock, ending, call>>
  BY DEF Reset, ClearLocals, ClearHistory, Returns, Goto
<1>2. /\ TypeOK /\ MainOK /\ LockOK
      /\ Main \in Thread /\ Main \notin Worker /\ 0 \in 0 .. MaxWork /\ 0 \in 0 .. MaxThreads
      /\ 0 \in -1 .. MaxThreads /\ 0 \in -MaxThreads .. MaxWork
  BY PoolAssumption, MaxWorkIs DEF Base, Main, Thread, Worker
<1>3. TypeOK' /\ pc'[Main] = "app"
  <2>1. pc' \in [Thread -> {"none", "app", "barrier", "run", "work", "fan", "spin",
                        "active", "activate", "wait", "serial", "create", "undo",
                        "undo_activate", "undo_wait"}] /\ pc'[Main] = "app"
    BY <1>1, <1>2 DEF TypeOK
  <2>2. child' \in [Thread -> 0 .. MaxThreads] /\ rank' \in [Thread -> 0 .. MaxWork]
    <3>1. child \in [Thread -> 0 .. MaxThreads] /\ rank \in [Thread -> 0 .. MaxWork]
      BY <1>2 DEF TypeOK
    <3> QED
      BY <1>1, <1>2, <3>1
  <2>3. /\ calls' \in [Ranks -> Nat] /\ joined' \in [Thread -> Nat]
        /\ reduce' \in [Thread -> SUBSET Ranks]
    BY <1>1
  <2>4. m_thread_count' \in 0 .. MaxThreads
    BY <1>1, <1>2 DEF TypeOK
  <2> QED
    BY <1>1, <1>2, <2>1, <2>2, <2>3, <2>4 DEF TypeOK
<1>4. ~ Undoing /\ ~ Undoing' /\ ~ Starting' /\ ~ Ending'
  BY <1>1, <1>3 DEF Undoing, Starting, Ending, Barriers
<1>5. MainOK'
  BY <1>1, <1>3, <1>4 DEF MainOK, Undoing
<1>6. FieldsOK'
  BY <1>1, <1>3, PoolAssumption DEF FieldsOK, TypeOK
<1>7. LockOK'
  <2>1. call \notin Asynchronous
    BY <1>1, <1>2 DEF MainOK
  <2> QED
    BY <1>1, <1>2, <2>1, PoolAssumption DEF LockOK, Asynchronous
<1>8. Quiet'
  <2> SUFFICES ASSUME NEW w \in Worker PROVE (IF w \in Workers THEN Parked(w) ELSE Gone(w))'
    BY DEF Quiet
  <2>1. IF w \in Workers /\ call # "TPI_Finalize" THEN Parked(w) ELSE Gone(w)
    BY <1>1, QuietAtReset
  <2>2. pc'[w] = pc[w] /\ UNCHANGED <<m_control, ending>>
    BY <1>1, <1>2 DEF TypeOK, Worker
  <2>3. w \in Workers' <=> (w \in Workers /\ call # "TPI_Finalize")
    <3>1. w \in Nat \ {0} /\ m_thread_count \in Nat
      BY <1>2, PoolAssumption DEF Worker, Thread, Main, TypeOK
    <3> QED
      BY <1>1, <3>1 DEF Workers
  <2> QED
    BY <2>1, <2>2, <2>3 DEF Parked, Gone
<1>9. \A w \in Worker : ~ On(w)'
  BY <1>1, <1>3 DEF On
<1>10. m_thread_count' > 0 => TreeShape(m_thread_count)'
  BY <1>1, <1>4 DEF Base, TreeInv, TreeShape
<1>11. pc'[Main] \notin Barriers \cup {"serial", "create"}
  BY <1>3 DEF Barriers
<1> QED
  BY <1>1, <1>3, <1>4, <1>5, <1>6, <1>7, <1>8, <1>9, <1>10, <1>11, QuietAfter

\* The end of TPI_Init.
LEMMA StartedKeeps ==
  ASSUME Base, Started
  PROVE  Base'
<1>1. /\ pc[Main] = "fan" /\ AllIn(Main) /\ call = "TPI_Init"
      /\ pc' = [pc EXCEPT ![Main] = "app"]
      /\ child' = [child EXCEPT ![Main] = 0] /\ rank' = [rank EXCEPT ![Main] = 0]
      /\ UNCHANGED <<m_work_routine, m_work_count, m_work_thread_count, m_work_count_claim,
                     m_reduce_join, m_thread_count, m_thread_fan, m_control, m_lock, ending,
                     call, calls, reduce, joined>>
  BY DEF Started, ClearLocals, Returns, Goto, fields, pool, history
<1>2. /\ TypeOK /\ MainOK /\ LockOK /\ FieldsOK
      /\ Main \in Thread /\ Main \notin Worker /\ 0 \in 0 .. MaxWork /\ 0 \in 0 .. MaxThreads
  BY PoolAssumption, MaxWorkIs DEF Base, Main, Thread, Worker
<1>3. TypeOK' /\ pc'[Main] = "app"
  <2>1. pc' \in [Thread -> {"none", "app", "barrier", "run", "work", "fan", "spin",
                        "active", "activate", "wait", "serial", "create", "undo",
                        "undo_activate", "undo_wait"}] /\ pc'[Main] = "app"
    BY <1>1, <1>2 DEF TypeOK
  <2>2. child' \in [Thread -> 0 .. MaxThreads] /\ rank' \in [Thread -> 0 .. MaxWork]
    <3>1. child \in [Thread -> 0 .. MaxThreads] /\ rank \in [Thread -> 0 .. MaxWork]
      BY <1>2 DEF TypeOK
    <3> QED
      BY <1>1, <1>2, <3>1
  <2> QED
    BY <1>1, <1>2, <2>1, <2>2 DEF TypeOK
<1>4. /\ ~ Undoing /\ ~ Undoing' /\ ~ Starting' /\ ~ Ending'
      /\ m_work_routine = NULL
  BY <1>1, <1>2, <1>3 DEF Undoing, Starting, Ending, Barriers, MainOK
<1>5. MainOK'
  BY <1>1, <1>3, <1>4 DEF MainOK, Undoing
<1>6. FieldsOK' /\ LockOK'
  BY <1>1, <1>2, <1>4, PoolAssumption DEF FieldsOK, LockOK
<1>7. Quiet'
  <2> SUFFICES ASSUME NEW w \in Worker PROVE (IF w \in Workers THEN Parked(w) ELSE Gone(w))'
    BY DEF Quiet
  <2>1. IF w \in Workers THEN Parked(w) ELSE Gone(w)
    BY <1>1, QuietAtReset
  <2>2. pc'[w] = pc[w] /\ UNCHANGED <<m_control, ending, m_thread_count>>
    BY <1>1, <1>2 DEF TypeOK, Worker
  <2> QED
    BY <2>1, <2>2 DEF Parked, Gone, Workers
<1>8. \A w \in Worker : ~ On(w)'
  BY <1>1, <1>3, <1>4 DEF On
<1>9. m_thread_count' > 0 => TreeShape(m_thread_count)'
  BY <1>1, <1>4 DEF Base, TreeInv, TreeShape
<1>10. pc'[Main] \notin Barriers \cup {"serial", "create"}
  BY <1>3 DEF Barriers
<1> QED
  BY <1>1, <1>3, <1>4, <1>5, <1>6, <1>7, <1>8, <1>9, <1>10, QuietAfter

-----------------------------------------------------------------------------
(* TPI_Init, and what it does when a thread cannot be created. *)

\* TPI_Init numbers the tree and sets the control words before it creates a worker.
LEMMA InitCallKeeps ==
  ASSUME Base, NEW n \in 1 .. MaxThreads, TPI_Init(n)
  PROVE  Base'
<1>1. /\ pc[Main] = "app" /\ m_work_routine = NULL /\ m_thread_count = 0
      /\ m_thread_fan' = FanOf(n)
      /\ m_control' = [t \in Thread |-> IF t <= n THEN 1 ELSE m_control[t]]
      /\ m_thread_count' = n
      /\ child' = [child EXCEPT ![Main] = n]
      /\ call' = "TPI_Init"
      /\ pc' = [pc EXCEPT ![Main] = "create"]
      /\ UNCHANGED <<m_work_routine, m_work_count, m_work_thread_count, m_work_count_claim,
                     m_reduce_join, m_lock, ending, rank, calls, reduce, joined>>
  BY DEF TPI_Init, CanStart, Goto, fields, history
<1>2. /\ TypeOK /\ MainOK /\ LockOK /\ FieldsOK
      /\ Main \in Thread /\ Main \notin Worker /\ n \in Nat \ {0} /\ MaxThreads \in Nat
      /\ n \in 0 .. MaxThreads
  BY PoolAssumption DEF Base, Main, Thread, Worker
<1>3. /\ m_thread_fan' \in [0 .. MaxThreads -> 0 .. MaxThreads]
      /\ \A t \in 0 .. n : m_thread_fan'[t] = FirstChild(t, n)
  <2>1. \A t \in 0 .. n : FirstChild(t, n) \in 0 .. MaxThreads
    BY <1>2, ChildrenNumbered
  <2>2. m_thread_fan \in [0 .. MaxThreads -> 0 .. MaxThreads]
    BY <1>2 DEF TypeOK
  <2>3. \A t \in 0 .. MaxThreads : t <= n => t \in 0 .. n
    BY <1>2
  <2>4. \A t \in 0 .. n : t \in 0 .. MaxThreads /\ t <= n
    BY <1>2
  <2> QED
    BY <1>1, <2>1, <2>2, <2>3, <2>4 DEF FanOf
<1>4. TreeShape(m_thread_count)'
  <2>1. 0 \in 0 .. n /\ n \in 0 .. n /\ \A t \in 0 .. n - 1 : t \in 0 .. n /\ t + 1 \in 0 .. n
    BY <1>2
  <2> QED
    BY <1>1, <1>2, <1>3, <2>1, ChildrenNumbered DEF TreeShape
<1>5. TypeOK' /\ pc'[Main] = "create" /\ child'[Main] = n
  <2>1. pc' \in [Thread -> {"none", "app", "barrier", "run", "work", "fan", "spin",
                        "active", "activate", "wait", "serial", "create", "undo",
                        "undo_activate", "undo_wait"}] /\ pc'[Main] = "create"
    BY <1>1, <1>2 DEF TypeOK
  <2>2. child' \in [Thread -> 0 .. MaxThreads] /\ child'[Main] = n
    BY <1>1, <1>2 DEF TypeOK
  <2>3. m_control' \in [Thread -> {0, 1}]
    BY <1>1, <1>2 DEF TypeOK
  <2> QED
    BY <1>1, <1>2, <1>3, <2>1, <2>2, <2>3 DEF TypeOK
<1>6. ~ Undoing' /\ Starting' /\ ~ Ending'
  BY <1>1, <1>5 DEF Undoing, Starting, Ending
<1>7. MainOK'
  BY <1>1, <1>2, <1>5, <1>6 DEF MainOK, Undoing
<1>8. FieldsOK'
  BY <1>1, <1>2 DEF FieldsOK
<1>9. LockOK'
  BY <1>1, <1>2, <1>5, PoolAssumption DEF LockOK
<1>10. \A w \in Worker : ~ On(w)' /\ Gone(w)'
  <2> SUFFICES ASSUME NEW w \in Worker PROVE ~ On(w)' /\ Gone(w)'
    OBVIOUS
  <2>1. w \notin Workers
    BY <1>1 DEF Workers, Worker, Thread, Main
  <2>2. Gone(w)
    BY <1>1, <2>1, QuietBefore DEF Quiet
  <2>3. pc'[w] = pc[w]
    BY <1>1, <1>2 DEF TypeOK, Worker
  <2>4. w \in 1 .. n - 1 => ~ (n <= w)
    BY <1>2
  <2> QED
    BY <1>1, <1>5, <2>2, <2>3, <2>4 DEF Gone, On, Workers
<1>11. WorkersOK'
  <2> SUFFICES ASSUME NEW w \in Worker PROVE WorkerOK(w)'
    BY DEF WorkersOK
  <2>1. w \in Workers' => m_control'[w] = 1
    <3>1. w \in Thread /\ (w \in 1 .. n - 1 => w <= n)
      BY <1>2 DEF Worker
    <3> QED
      BY <1>1, <3>1 DEF Workers
  <2> QED
    BY <1>5, <1>6, <1>10, <2>1 DEF WorkerOK, OffOK
<1>12. TreeInv'
  <2>1. ASSUME NEW s \in 0 .. n - 1 PROVE FanOK(s)'
    <3>1. s \in Thread
      BY <1>2, BelowMax
    <3>2. ~ On(s)' /\ pc'[s] \notin Barriers
      <4>1. CASE s = Main
        BY <1>5, <4>1 DEF On, Main, Workers, Barriers
      <4>2. CASE s # Main
        BY <1>10, <3>1, <4>2, MainOff DEF Gone, Barriers
      <4> QED
        BY <4>1, <4>2
    <3> QED
      BY <3>2 DEF FanOK, Barriers
  <2> QED
    BY <1>1, <1>4, <2>1 DEF TreeInv
<1>13. RankInv' /\ SerialInv'
  BY <1>1, <1>5 DEF RankInv, SerialInv
<1> QED
  BY <1>5, <1>7, <1>8, <1>9, <1>11, <1>12, <1>13 DEF Base

\* A worker is created: it goes straight to the start up barrier.
LEMMA CreateKeeps ==
  ASSUME Base, Create
  PROVE  Base'
<1> PICK t : t = child[Main] - 1
  OBVIOUS
<1>1. /\ pc[Main] = "create" /\ 1 < child[Main]
      /\ child' = [child EXCEPT ![Main] = t]
      /\ pc' = [pc EXCEPT ![t] = "barrier"]
      /\ UNCHANGED <<m_work_routine, m_work_count, m_work_thread_count, m_work_count_claim,
                     m_reduce_join, m_thread_count, m_thread_fan, m_control, m_lock, ending,
                     rank, call, calls, reduce, joined>>
  BY DEF Create, fields, pool, history
<1>2. /\ TypeOK /\ MainOK /\ LockOK /\ FieldsOK
      /\ Main \in Thread /\ Main \notin Worker /\ Main = 0
  BY PoolAssumption DEF Base, Main, Thread, Worker
<1>3. /\ m_thread_count \in 1 .. MaxThreads /\ MaxThreads \in Nat
      /\ child[Main] \in 1 .. m_thread_count /\ t \in 1 .. m_thread_count - 1
      /\ t \in 0 .. MaxThreads /\ t \in Worker /\ t \in Workers
      /\ call = "TPI_Init" /\ m_work_routine = NULL
  <2>1. /\ m_thread_count \in 0 .. MaxThreads /\ MaxThreads \in Nat /\ m_thread_count > 0
        /\ child[Main] \in 1 .. m_thread_count
        /\ call = "TPI_Init" /\ m_work_routine = NULL
    BY <1>1, <1>2, PoolAssumption DEF MainOK, TypeOK, Starting
  <2> QED
    BY <1>1, <2>1 DEF Worker, Thread, Main, Workers
<1>4. TypeOK' /\ pc'[Main] = "create" /\ child'[Main] = t /\ pc'[t] = "barrier"
  <2>1. pc' \in [Thread -> {"none", "app", "barrier", "run", "work", "fan", "spin",
                        "active", "activate", "wait", "serial", "create", "undo",
                        "undo_activate",
                        "undo_wait"}] /\ pc'[Main] = "create" /\ pc'[t] = "barrier"
    BY <1>1, <1>2, <1>3 DEF TypeOK, Worker
  <2>2. child' \in [Thread -> 0 .. MaxThreads] /\ child'[Main] = t
    BY <1>1, <1>2, <1>3 DEF TypeOK
  <2> QED
    BY <1>1, <1>2, <2>1, <2>2 DEF TypeOK
<1>5. ~ Undoing /\ ~ Undoing' /\ Starting /\ Starting' /\ ~ Ending /\ ~ Ending'
  BY <1>1, <1>3, <1>4 DEF Undoing, Starting, Ending
<1>6. MainOK' /\ FieldsOK' /\ LockOK'
  BY <1>1, <1>2, <1>3, <1>4, <1>5 DEF MainOK, FieldsOK, LockOK, Undoing
<1>7. \A s \in Worker : On(s)' <=> (On(s) \/ s = t)
  <2>1. \A s \in Worker : s \in Nat
    BY PoolAssumption DEF Worker, Thread
  <2>2. \A s \in Worker : t <= s <=> (child[Main] <= s \/ s = t)
    BY <1>3, <2>1
  <2> QED
    BY <1>1, <1>3, <1>4, <1>5, <2>2 DEF On, Workers
<1>8. ~ On(t)
  BY <1>1, <1>3 DEF On
<1>9. WorkerOK(t) /\ m_control[t] = 1 /\ t \notin ending
  <2>1. WorkerOK(t)
    BY <1>3 DEF Base, WorkersOK
  <2> QED
    BY <1>1, <1>3, <1>5, <1>8, <2>1 DEF WorkerOK, OffOK, Gone
<1>10. WorkersOK'
  <2> SUFFICES ASSUME NEW s \in Worker PROVE WorkerOK(s)'
    BY DEF WorkersOK
  <2>1. CASE s = t
    BY <1>1, <1>4, <1>5, <1>7, <1>9, <2>1 DEF WorkerOK, OnOK, Meets
  <2>2. CASE s # t
    <3>1. WorkerOK(s) /\ pc'[s] = pc[s]
      BY <1>1, <1>2, <2>2 DEF Base, WorkersOK, TypeOK, Worker
    <3> QED
      BY <1>1, <1>4, <1>5, <1>7, <2>2, <3>1
         DEF WorkerOK, OnOK, OffOK, Parked, Meets, Called, Gone, Runs, Workers
  <2> QED
    BY <2>1, <2>2
<1>11. TreeInv'
  <2>1. TreeShape(m_thread_count) /\ \A s \in 0 .. m_thread_count - 1 : FanOK(s)
    BY <1>3, <1>5 DEF Base, TreeInv
  <2>2. TreeShape(m_thread_count)'
    BY <1>1, <2>1 DEF TreeShape
  <2>3. ASSUME NEW s \in 0 .. m_thread_count - 1 PROVE FanOK(s)'
    <3>1. s \in Thread
      BY <1>3, BelowMax
    <3>2. CASE s = Main
      BY <1>4, <3>2, MainOff DEF FanOK, On, Main, Workers
    <3>3. CASE s = t
      BY <1>1, <1>4, <1>9, <3>3 DEF FanOK
    <3>4. CASE s # Main /\ s # t
      <4>1. s \in Worker /\ pc'[s] = pc[s] /\ child'[s] = child[s]
        BY <1>1, <1>2, <3>1, <3>4, MainOff DEF TypeOK
      <4>2. (On(s)' <=> On(s)) /\ Kids(s)' = Kids(s)
        BY <1>1, <1>7, <3>4, <4>1 DEF Kids
      <4> QED
        BY <1>1, <2>1, <4>1, <4>2 DEF FanOK
    <3> QED
      BY <3>2, <3>3, <3>4
  <2> QED
    BY <1>1, <2>2, <2>3 DEF TreeInv
<1>12. RankInv' /\ SerialInv'
  BY <1>1, <1>3, <1>4 DEF RankInv, SerialInv
<1> QED
  BY <1>4, <1>6, <1>10, <1>11, <1>12 DEF Base

\* A worker cannot be created.
LEMMA CreateFailsKeeps ==
  ASSUME Base, CreateFails
  PROVE  Base'
<1> PICK t : t = child[Main] - 1
  OBVIOUS
<1>1. /\ pc[Main] = "create" /\ 1 < child[Main]
      /\ child' = [child EXCEPT ![Main] = t]
      /\ m_control' = [m_control EXCEPT ![t] = 0]
      /\ pc' = [pc EXCEPT ![Main] = "undo"]
      /\ UNCHANGED <<m_work_routine, m_work_count, m_work_thread_count, m_work_count_claim,
                     m_reduce_join, m_thread_count, m_thread_fan, m_lock, ending,
                     rank, call, calls, reduce, joined>>
  BY DEF CreateFails, Goto, fields, pool, history
<1>2. /\ TypeOK /\ MainOK /\ LockOK /\ FieldsOK
      /\ Main \in Thread /\ Main \notin Worker /\ Main = 0
  BY PoolAssumption DEF Base, Main, Thread, Worker
<1>3. /\ m_thread_count \in 1 .. MaxThreads /\ MaxThreads \in Nat
      /\ child[Main] \in 1 .. m_thread_count /\ t \in 1 .. m_thread_count - 1
      /\ t \in 0 .. MaxThreads
      /\ call = "TPI_Init" /\ m_work_routine = NULL
  <2>1. /\ m_thread_count \in 0 .. MaxThreads /\ MaxThreads \in Nat /\ m_thread_count > 0
        /\ child[Main] \in 1 .. m_thread_count
        /\ call = "TPI_Init" /\ m_work_routine = NULL
    BY <1>1, <1>2, PoolAssumption DEF MainOK, TypeOK, Starting
  <2> QED
    BY <1>1, <2>1
<1>4. TypeOK' /\ pc'[Main] = "undo" /\ child'[Main] = t
  <2>1. pc' \in [Thread -> {"none", "app", "barrier", "run", "work", "fan", "spin",
                        "active", "activate", "wait", "serial", "create", "undo",
                        "undo_activate", "undo_wait"}] /\ pc'[Main] = "undo"
    BY <1>1, <1>2 DEF TypeOK
  <2>2. child' \in [Thread -> 0 .. MaxThreads] /\ child'[Main] = t
    BY <1>1, <1>2, <1>3 DEF TypeOK
  <2>3. m_control' \in [Thread -> {0, 1}]
    BY <1>1, <1>2 DEF TypeOK
  <2> QED
    BY <1>1, <1>2, <2>1, <2>2, <2>3 DEF TypeOK
<1>5. ~ Undoing /\ Undoing' /\ Starting /\ ~ Starting' /\ ~ Ending /\ ~ Ending'
  BY <1>1, <1>3, <1>4 DEF Undoing, Starting, Ending, Barriers
<1>6. MainOK' /\ FieldsOK' /\ LockOK'
  BY <1>1, <1>2, <1>3, <1>4, <1>5 DEF MainOK, FieldsOK, LockOK
<1>7. WorkersOK'
  <2> SUFFICES ASSUME NEW s \in Worker PROVE WorkerOK(s)'
    BY DEF WorkersOK
  <2>1. WorkerOK(s) /\ s \in Nat \ {0} /\ pc'[s] = pc[s]
    BY <1>1, <1>2 DEF Base, WorkersOK, TypeOK, Worker, Thread, Main
  <2>2. CASE t < s /\ s < m_thread_count
    <3>1. On(s) /\ m_control'[s] = m_control[s]
      BY <1>1, <1>2, <1>3, <1>5, <2>1, <2>2 DEF On, Workers, TypeOK, Worker
    <3>2. Parked(s) \/ (Meets(s) /\ s \notin ending)
      BY <1>5, <2>1, <3>1 DEF WorkerOK, OnOK
    <3>3. UndoOK(s)'
      BY <1>1, <1>4, <2>1, <2>2, <3>1, <3>2 DEF UndoOK, Parked, Meets
    <3> QED
      BY <1>5, <3>3 DEF WorkerOK
  <2>3. CASE ~ (t < s /\ s < m_thread_count)
    <3>1. ~ On(s)
      BY <1>1, <1>3, <2>1, <2>3 DEF On, Workers
    <3>2. Gone(s)
      BY <1>1, <1>5, <2>1, <3>1 DEF WorkerOK, OffOK
    <3>3. UndoOK(s)'
      BY <1>1, <1>4, <2>1, <2>3, <3>2 DEF UndoOK, Gone
    <3> QED
      BY <1>5, <3>3 DEF WorkerOK
  <2> QED
    BY <2>2, <2>3
<1>8. TreeInv' /\ RankInv' /\ SerialInv'
  BY <1>1, <1>3, <1>4, <1>5 DEF TreeInv, RankInv, SerialInv
<1> QED
  BY <1>4, <1>6, <1>7, <1>8 DEF Base

\* The next of those that were, or the end.
LEMMA UndoKeeps ==
  ASSUME Base, Undo
  PROVE  Base'
<1> PICK n : n = m_thread_count
  OBVIOUS
<1>1. /\ pc[Main] = "undo"
      /\ UNCHANGED <<m_work_routine, m_work_count, m_work_thread_count, m_work_count_claim,
                     m_reduce_join, m_thread_fan, m_control, m_lock, ending, child,
                     rank, call, calls, reduce, joined>>
      /\ \/ /\ child[Main] < n - 1
            /\ m_thread_count' = n - 1 /\ pc' = [pc EXCEPT ![Main] = "undo_activate"]
         \/ /\ ~ (child[Main] < n - 1)
            /\ m_thread_count' = 0 /\ pc' = [pc EXCEPT ![Main] = "app"]
  BY DEF Undo, ToUndo, Goto, Returns, fields, history
<1>2. /\ TypeOK /\ MainOK /\ LockOK /\ FieldsOK
      /\ Main \in Thread /\ Main \notin Worker /\ Main = 0
  BY PoolAssumption DEF Base, Main, Thread, Worker
<1>3. /\ n \in 0 .. MaxThreads /\ MaxThreads \in Nat
      /\ child[Main] \in 1 .. n - 1 /\ m_thread_count' \in 0 .. MaxThreads /\ m_thread_count' < MaxThreads
      /\ call = "TPI_Init" /\ m_work_routine = NULL /\ Undoing
  <2>1. n \in 0 .. MaxThreads /\ MaxThreads \in Nat \ {0} /\ child[Main] \in 1 .. n - 1
        /\ call = "TPI_Init" /\ m_work_routine = NULL /\ Undoing
    BY <1>1, <1>2, PoolAssumption DEF MainOK, TypeOK, Undoing
  <2> QED
    BY <1>1, <2>1
<1>4. TypeOK' /\ pc'[Main] = IF child[Main] < n - 1 THEN "undo_activate" ELSE "app"
  <2>1. pc' \in [Thread -> {"none", "app", "barrier", "run", "work", "fan", "spin",
                        "active", "activate", "wait", "serial", "create", "undo",
                        "undo_activate", "undo_wait"}]
    BY <1>1, <1>2 DEF TypeOK
  <2>2. pc'[Main] = IF child[Main] < n - 1 THEN "undo_activate" ELSE "app"
    BY <1>1, <1>2 DEF TypeOK
  <2> QED
    BY <1>1, <1>2, <1>3, <2>1, <2>2 DEF TypeOK
<1>5. \A s \in Worker : /\ pc'[s] = pc[s] /\ s \in Nat
                        /\ IF child[Main] < s /\ s < n THEN Parked(s) \/ (Meets(s) /\ s \notin ending)
                                                       ELSE Gone(s)
  <2> SUFFICES ASSUME NEW s \in Worker
               PROVE /\ pc'[s] = pc[s] /\ s \in Nat
                     /\ IF child[Main] < s /\ s < n
                        THEN Parked(s) \/ (Meets(s) /\ s \notin ending) ELSE Gone(s)
    OBVIOUS
  <2>0. s \in Thread /\ s # Main /\ s \in Nat
    BY <1>2, PoolAssumption DEF Worker, Thread
  <2>1. pc'[s] = pc[s]
    BY <1>1, <1>2, <2>0 DEF TypeOK
  <2>2. UndoOK(s)
    BY <1>3 DEF Base, WorkersOK, WorkerOK
  <2> QED
    BY <1>1, <2>0, <2>1, <2>2 DEF UndoOK
<1>6. CASE child[Main] < n - 1
  <2>1. m_thread_count' = n - 1 /\ pc'[Main] = "undo_activate"
    BY <1>1, <1>4, <1>6
  <2>2. Undoing' /\ ~ Starting' /\ ~ Ending'
    BY <1>1, <1>3, <2>1 DEF Undoing, Starting, Ending, Barriers
  <2>3. MainOK'
    <3>1. child'[Main] \in 1 .. m_thread_count' - 1
      BY <1>1, <1>3, <1>6, <2>1
    <3> QED
      BY <1>1, <1>3, <2>1, <2>2, <3>1 DEF MainOK
  <2>4. FieldsOK' /\ LockOK'
    BY <1>1, <1>2, <1>3, <2>1 DEF FieldsOK, LockOK
  <2>5. WorkersOK'
    <3> SUFFICES ASSUME NEW s \in Worker PROVE WorkerOK(s)'
      BY DEF WorkersOK
    <3>1. s < n <=> (s < n - 1 \/ s = n - 1)
      BY <1>3, <1>5
    <3>2. UndoOK(s)'
      BY <1>1, <1>5, <2>1, <3>1 DEF UndoOK, Parked, Meets, Gone
    <3> QED
      BY <2>2, <3>2 DEF WorkerOK
  <2>6. TreeInv' /\ RankInv' /\ SerialInv'
    BY <1>1, <1>3, <2>1, <2>2 DEF TreeInv, RankInv, SerialInv
  <2> QED
    BY <1>4, <2>3, <2>4, <2>5, <2>6 DEF Base
<1>7. CASE ~ (child[Main] < n - 1)
  <2>1. m_thread_count' = 0 /\ pc'[Main] = "app"
    BY <1>1, <1>4, <1>7
  <2>2. ~ Undoing' /\ ~ Starting' /\ ~ Ending'
    BY <2>1 DEF Undoing, Starting, Ending, Barriers
  <2>3. MainOK'
    BY <2>1, <2>2 DEF MainOK, Undoing
  <2>4. FieldsOK' /\ LockOK'
    BY <1>1, <1>2, <1>3, <2>1, PoolAssumption DEF FieldsOK, LockOK
  <2>5. \A w \in Worker : Gone(w)' /\ w \notin Workers'
    <3> SUFFICES ASSUME NEW w \in Worker PROVE Gone(w)' /\ w \notin Workers'
      OBVIOUS
    <3>1. ~ (child[Main] < w /\ w < n)
      BY <1>3, <1>5, <1>7
    <3>2. w \notin Workers'
      BY <2>1 DEF Workers
    <3> QED
      BY <1>1, <1>5, <3>1, <3>2 DEF Gone
  <2>6. Quiet'
    BY <2>5 DEF Quiet
  <2>7. \A w \in Worker : ~ On(w)'
    BY <2>5 DEF On
  <2>8. pc'[Main] \notin Barriers \cup {"serial", "create"}
    BY <2>1 DEF Barriers
  <2>9. ~ (m_thread_count' > 0) /\ ~ (m_thread_count' > 1)
    BY <2>1
  <2> QED
    BY <1>4, <2>2, <2>3, <2>4, <2>6, <2>7, <2>8, <2>9, QuietAfter
<1> QED
  BY <1>6, <1>7

\* It is told to go round its loop, which it finds over.
LEMMA UndoActivateKeeps ==
  ASSUME Base, UndoActivate
  PROVE  Base'
<1> PICK n : n = m_thread_count
  OBVIOUS
<1>1. /\ pc[Main] = "undo_activate" /\ m_control[n] # 1
      /\ m_control' = [m_control EXCEPT ![n] = 1]
      /\ pc' = [pc EXCEPT ![Main] = "undo_wait"]
      /\ UNCHANGED <<m_work_routine, m_work_count, m_work_thread_count, m_work_count_claim,
                     m_reduce_join, m_thread_count, m_thread_fan, m_lock, ending, child,
                     rank, call, calls, reduce, joined>>
  BY DEF UndoActivate, Goto, fields, pool, history
<1>2. /\ TypeOK /\ MainOK /\ LockOK /\ FieldsOK
      /\ Main \in Thread /\ Main \notin Worker /\ Main = 0
  BY PoolAssumption DEF Base, Main, Thread, Worker
<1>3. /\ n \in 0 .. MaxThreads /\ MaxThreads \in Nat /\ n < MaxThreads
      /\ child[Main] \in 1 .. n - 1 /\ n \in Worker
      /\ call = "TPI_Init" /\ m_work_routine = NULL /\ Undoing
  <2>1. n \in 0 .. MaxThreads /\ MaxThreads \in Nat /\ n < MaxThreads /\ child[Main] \in 1 .. n - 1
        /\ call = "TPI_Init" /\ m_work_routine = NULL /\ Undoing
    BY <1>1, <1>2, PoolAssumption DEF MainOK, TypeOK, Undoing
  <2> QED
    BY <2>1 DEF Worker, Thread, Main
<1>4. TypeOK' /\ pc'[Main] = "undo_wait"
  <2>1. pc' \in [Thread -> {"none", "app", "barrier", "run", "work", "fan", "spin",
                        "active", "activate", "wait", "serial", "create", "undo",
                        "undo_activate", "undo_wait"}] /\ pc'[Main] = "undo_wait"
    BY <1>1, <1>2 DEF TypeOK
  <2>2. m_control' \in [Thread -> {0, 1}]
    BY <1>1, <1>2 DEF TypeOK
  <2> QED
    BY <1>1, <1>2, <2>1, <2>2 DEF TypeOK
<1>5. Undoing' /\ ~ Starting' /\ ~ Ending'
  BY <1>1, <1>3, <1>4 DEF Undoing, Starting, Ending, Barriers
<1>6. MainOK' /\ FieldsOK' /\ LockOK'
  BY <1>1, <1>2, <1>3, <1>4, <1>5 DEF MainOK, FieldsOK, LockOK
<1>7. WorkersOK'
  <2> SUFFICES ASSUME NEW s \in Worker PROVE WorkerOK(s)'
    BY DEF WorkersOK
  <2>1. UndoOK(s) /\ s \in Nat /\ s \in Thread
    BY <1>2, <1>3 DEF Base, WorkersOK, WorkerOK, Worker, Thread
  <2>2. pc'[s] = pc[s] /\ (s # n => m_control'[s] = m_control[s])
    BY <1>1, <1>2, <2>1 DEF TypeOK, Worker
  <2>3. CASE s = n
    <3>1. Parked(s)
      BY <1>1, <1>3, <2>1, <2>3 DEF UndoOK, Meets
    <3>2. m_control'[s] = 1
      BY <1>1, <1>2, <2>1, <2>3 DEF TypeOK
    <3>3. Called(s)'
      BY <1>1, <2>2, <3>1, <3>2 DEF Called, Parked
    <3>4. ~ (s < m_thread_count') /\ pc'[Main] # "undo_activate" /\ s = m_thread_count'
      BY <1>1, <1>3, <1>4, <2>3
    <3>5. UndoOK(s)'
      BY <1>4, <3>3, <3>4 DEF UndoOK
    <3> QED
      BY <1>5, <3>5 DEF WorkerOK
  <2>4. CASE s # n
    <3>1. UndoOK(s)'
      BY <1>1, <1>4, <2>1, <2>2, <2>4 DEF UndoOK, Parked, Meets, Gone
    <3> QED
      BY <1>5, <3>1 DEF WorkerOK
  <2> QED
    BY <2>3, <2>4
<1>8. TreeInv' /\ RankInv' /\ SerialInv'
  BY <1>1, <1>3, <1>4, <1>5 DEF TreeInv, RankInv, SerialInv
<1> QED
  BY <1>4, <1>6, <1>7, <1>8 DEF Base

\* It has gone.
LEMMA UndoWaitKeeps ==
  ASSUME Base, UndoWait
  PROVE  Base'
<1> PICK n : n = m_thread_count
  OBVIOUS
<1>1. /\ pc[Main] = "undo_wait" /\ m_control[n] # 1
      /\ pc' = [pc EXCEPT ![Main] = "undo"]
      /\ UNCHANGED <<m_work_routine, m_work_count, m_work_thread_count, m_work_count_claim,
                     m_reduce_join, m_thread_count, m_thread_fan, m_control, m_lock, ending,
                     child,
                     rank, call, calls, reduce, joined>>
  BY DEF UndoWait, Goto, fields, pool, history
<1>2. /\ TypeOK /\ MainOK /\ LockOK /\ FieldsOK
      /\ Main \in Thread /\ Main \notin Worker
  BY PoolAssumption DEF Base, Main, Thread, Worker
<1>3. /\ n \in 0 .. MaxThreads /\ child[Main] \in 1 .. n - 1 /\ MaxThreads \in Nat
      /\ call = "TPI_Init" /\ m_work_routine = NULL /\ Undoing
  BY <1>1, <1>2, PoolAssumption DEF MainOK, TypeOK, Undoing
<1>4. TypeOK' /\ pc'[Main] = "undo"
  <2>1. pc' \in [Thread -> {"none", "app", "barrier", "run", "work", "fan", "spin",
                        "active", "activate", "wait", "serial", "create", "undo",
                        "undo_activate", "undo_wait"}] /\ pc'[Main] = "undo"
    BY <1>1, <1>2 DEF TypeOK
  <2> QED
    BY <1>1, <1>2, <2>1 DEF TypeOK
<1>5. Undoing' /\ ~ Starting' /\ ~ Ending'
  BY <1>1, <1>3, <1>4 DEF Undoing, Starting, Ending, Barriers
<1>6. MainOK' /\ FieldsOK' /\ LockOK'
  BY <1>1, <1>2, <1>3, <1>4, <1>5 DEF MainOK, FieldsOK, LockOK
<1>7. WorkersOK'
  <2> SUFFICES ASSUME NEW s \in Worker PROVE WorkerOK(s)'
    BY DEF WorkersOK
  <2>1. UndoOK(s) /\ s \in Nat /\ pc'[s] = pc[s]
    BY <1>1, <1>2, <1>3 DEF Base, WorkersOK, WorkerOK, Worker, Thread, TypeOK
  <2>2. UndoOK(s)'
    BY <1>1, <1>3, <1>4, <2>1 DEF UndoOK, Parked, Meets, Gone, Called
  <2> QED
    BY <1>5, <2>2 DEF WorkerOK
<1>8. TreeInv' /\ RankInv' /\ SerialInv'
  BY <1>1, <1>3, <1>4, <1>5 DEF TreeInv, RankInv, SerialInv
<1> QED
  BY <1>4, <1>6, <1>7, <1>8 DEF Base

-----------------------------------------------------------------------------
(* The loop of local_start that activates the workers. *)

\* All workers are activated.
LEMMA ActivateEndKeeps ==
  ASSUME Base, pc[Main] = "activate", ~ (1 < child[Main]), AfterStart(call),
         UNCHANGED <<fields, pool, m_control, m_lock, child, ending, rank, call, history>>
  PROVE  Base'
<1>1. /\ pc' = [pc EXCEPT ![Main] = IF call \in Asynchronous THEN "app" ELSE "wait"]
      /\ UNCHANGED <<m_work_routine, m_work_count, m_work_thread_count, m_work_count_claim,
                     m_reduce_join, m_thread_count, m_thread_fan, calls, reduce, joined>>
  BY DEF AfterStart, Goto, Returns, fields, pool, history
<1>2. /\ TypeOK /\ MainOK /\ LockOK /\ SerialInv
      /\ Main \in Thread /\ Main \notin Worker
  BY PoolAssumption DEF Base, Main, Thread, Worker
<1>3. TypeOK' /\ pc'[Main] = IF call \in Asynchronous THEN "app" ELSE "wait"
  <2>1. pc' \in [Thread -> {"none", "app", "barrier", "run", "work", "fan", "spin",
                        "active", "activate", "wait", "serial", "create", "undo",
                        "undo_activate", "undo_wait"}]
    BY <1>1, <1>2 DEF TypeOK
  <2>2. pc'[Main] = IF call \in Asynchronous THEN "app" ELSE "wait"
    BY <1>1, <1>2 DEF TypeOK
  <2> QED
    BY <1>1, <1>2, <2>1, <2>2 DEF TypeOK
<1>4. /\ m_thread_count \in Nat /\ child[Main] = 1 /\ call # "TPI_Init" /\ m_thread_count > 1
      /\ m_work_routine = NULL <=> call = "TPI_Finalize"
  BY <1>2, PoolAssumption DEF MainOK, TypeOK
<1>5. call \in Asynchronous => m_work_routine # NULL
  BY <1>4 DEF Asynchronous
<1>6. /\ ~ Undoing /\ ~ Undoing' /\ ~ Starting /\ ~ Starting'
      /\ Ending <=> call = "TPI_Finalize"
      /\ Ending' <=> call = "TPI_Finalize"
  <2>1. call = "TPI_Finalize" => call \notin Asynchronous
    BY DEF Asynchronous
  <2> QED
    BY <1>3, <1>4, <2>1 DEF Undoing, Starting, Ending, Barriers
<1>7. MainOK'
  BY <1>1, <1>2, <1>3, <1>4, <1>5, <1>6 DEF MainOK, Undoing
<1>8. LockOK' /\ SerialInv'
  BY <1>1, <1>2, <1>3 DEF LockOK, SerialInv
<1>9. \A s \in Worker : pc'[s] = pc[s]
  BY <1>1, <1>2 DEF TypeOK, Worker
<1>10. \A s \in Worker : On(s)' <=> On(s)
  <2>1. \A s \in Workers : child[Main] <= s
    BY <1>4 DEF Workers
  <2> QED
    BY <1>1, <1>3, <1>5, <1>6, <2>1 DEF On, Workers
<1>11. pc'[Main] \notin {"create", "fan", "run", "work"}
  BY <1>3
<1> QED
  BY <1>1, <1>3, <1>6, <1>7, <1>8, <1>9, <1>10, <1>11, MainKeeps

\* One worker is activated, or all are.
LEMMA ActivateKeeps ==
  ASSUME Base, Activate
  PROVE  Base'
<1>1. CASE ~ (1 < child[Main])
  <2>1. /\ pc[Main] = "activate" /\ AfterStart(call)
        /\ UNCHANGED <<fields, pool, m_control, m_lock, child, ending, rank, call, history>>
    BY <1>1 DEF Activate
  <2> QED
    BY <1>1, <2>1, ActivateEndKeeps
<1>2. CASE 1 < child[Main]
  <2> PICK x : x = child[Main] - 1
    OBVIOUS
  <2>1. /\ pc[Main] = "activate"
        /\ m_control' = [m_control EXCEPT ![x] = 1]
        /\ child' = [child EXCEPT ![Main] = x]
        /\ UNCHANGED <<m_work_routine, m_work_count, m_work_thread_count, m_work_count_claim,
                       m_reduce_join, m_thread_count, m_thread_fan, pc, m_lock, ending,
                       rank, call, calls, reduce, joined>>
    BY <1>2 DEF Activate, NextToActivate, fields, pool, history
  <2>2. /\ TypeOK /\ MainOK /\ LockOK /\ FieldsOK
        /\ Main \in Thread /\ Main \notin Worker /\ Main = 0
    BY PoolAssumption DEF Base, Main, Thread, Worker
  <2>3. /\ m_thread_count \in 2 .. MaxThreads /\ MaxThreads \in Nat
        /\ x \in 1 .. m_thread_count - 1 /\ x \in 0 .. MaxThreads
        /\ child[Main] = x + 1 /\ x \in Worker /\ x \in Workers /\ x \in Thread
        /\ call # "TPI_Init"
    <3>1. /\ m_thread_count \in 0 .. MaxThreads /\ MaxThreads \in Nat /\ m_thread_count > 1
          /\ child[Main] \in 1 .. m_thread_count /\ call # "TPI_Init"
      BY <2>1, <2>2, PoolAssumption DEF MainOK, TypeOK
    <3> QED
      BY <1>2, <3>1 DEF Worker, Thread, Main, Workers
  <2>4. TypeOK' /\ child'[Main] = x /\ m_control'[x] = 1
    <3>1. child' \in [Thread -> 0 .. MaxThreads] /\ child'[Main] = x
      BY <2>1, <2>2, <2>3 DEF TypeOK
    <3>2. m_control' \in [Thread -> {0, 1}] /\ m_control'[x] = 1
      BY <2>1, <2>2, <2>3 DEF TypeOK
    <3> QED
      BY <2>1, <2>2, <3>1, <3>2 DEF TypeOK
  <2>5. /\ ~ Undoing /\ ~ Undoing' /\ ~ Starting /\ ~ Starting'
        /\ Ending' <=> Ending
    BY <2>1, <2>3 DEF Undoing, Starting, Ending, Barriers
  <2>6. MainOK' /\ FieldsOK' /\ LockOK'
    BY <2>1, <2>2, <2>3, <2>4, <2>5 DEF MainOK, FieldsOK, LockOK, Undoing
  <2>7. \A s \in Worker : On(s)' <=> (On(s) \/ s = x)
    <3>1. \A s \in Worker : s \in Nat
      BY PoolAssumption DEF Worker, Thread
    <3>2. \A s \in Worker : x <= s <=> (child[Main] <= s \/ s = x)
      BY <2>3, <3>1
    <3> QED
      BY <2>1, <2>3, <2>4, <2>5, <3>2 DEF On, Workers
  <2>8. ~ On(x) /\ Parked(x)
    <3>1. WorkerOK(x)
      BY <2>3 DEF Base, WorkersOK
    <3>2. ~ On(x)
      BY <2>1, <2>3 DEF On
    <3> QED
      BY <2>1, <2>3, <2>5, <3>1, <3>2 DEF WorkerOK, OffOK
  <2>9. WorkersOK'
    <3> SUFFICES ASSUME NEW s \in Worker PROVE WorkerOK(s)'
      BY DEF WorkersOK
    <3>1. CASE s = x
      <4>1. Called(s)'
        BY <2>1, <2>4, <2>8, <3>1 DEF Called, Parked
      <4> QED
        BY <2>5, <2>7, <3>1, <4>1 DEF WorkerOK, OnOK
    <3>2. CASE s # x
      <4>1. WorkerOK(s) /\ m_control'[s] = m_control[s]
        BY <2>1, <2>2, <3>2 DEF Base, WorkersOK, TypeOK, Worker
      <4> QED
        BY <2>1, <2>5, <2>7, <3>2, <4>1
           DEF WorkerOK, OnOK, OffOK, Parked, Meets, Called, Gone, Runs, Workers
    <3> QED
      BY <3>1, <3>2
  <2>10. \A s \in Thread : s = Main \/ s \in Worker
    BY MainOff
  <2>11. \A s \in 0 .. m_thread_count - 1 : s \in Thread
    BY <2>3, BelowMax
  <2>12. TreeInv'
    <3>1. TreeShape(m_thread_count) /\ \A s \in 0 .. m_thread_count - 1 : FanOK(s)
      BY <2>3, <2>5 DEF Base, TreeInv
    <3>2. TreeShape(m_thread_count)'
      BY <2>1, <3>1 DEF TreeShape
    <3>3. ASSUME NEW s \in 0 .. m_thread_count - 1 PROVE FanOK(s)'
      <4>1. CASE s = Main
        BY <2>1, <4>1 DEF FanOK, On, Main, Workers
      <4>2. CASE s = x
        BY <2>1, <2>4, <2>8, <4>2 DEF FanOK, Parked
      <4>3. CASE s # Main /\ s # x /\ ~ On(s)
        <5>1. s \in Worker /\ s \in Thread
          BY <2>10, <2>11, <4>3
        <5>2. pc[s] \notin Barriers
          BY <2>5, <4>3, <5>1, InBarrier
        <5> QED
          BY <2>1, <2>7, <4>3, <5>1, <5>2 DEF FanOK, Barriers
      <4>4. CASE s # Main /\ s # x /\ On(s)
        <5>1. s \in Worker /\ s \in Thread /\ s \in Nat
          BY <2>10, <2>11, <4>4
        <5>2. x < s
          BY <2>1, <2>3, <4>4, <5>1 DEF On
        <5>3. s < m_thread_fan[s] /\ m_thread_fan[s] \in Nat /\ m_thread_fan[s + 1] \in 0 .. MaxThreads
          <6>1. m_thread_fan[s] \in 0 .. MaxThreads /\ m_thread_fan[s + 1] \in 0 .. MaxThreads
            BY <2>2, FanType
          <6> QED
            BY <2>3, <3>1, <6>1 DEF TreeShape
        <5>4. child'[s] = child[s] /\ m_control'[s] = m_control[s]
          BY <2>1, <2>2, <2>3, <4>4, <5>1 DEF TypeOK
        <5>5. \A c \in Kids(s) : c \in Thread /\ c # x
          BY <2>3, <5>2, <5>3 DEF Kids, Thread
        <5>6. \A c \in Kids(s) : m_control'[c] = m_control[c]
          BY <2>1, <2>2, <5>5 DEF TypeOK
        <5>7. FanOK(s)
          BY <3>1
        <5>8. pc[s] = "fan" =>
                /\ child[s] \in m_thread_fan[s] .. m_thread_fan[s + 1]
                /\ \A c \in child[s] .. m_thread_fan[s + 1] - 1 : m_control[c] = 0 /\ c \in Kids(s)
          BY <5>3, <5>7 DEF FanOK, Kids
        <5>9. Kids(s)' = Kids(s)
          BY <2>1 DEF Kids
        <5> QED
          BY <2>1, <2>7, <4>4, <5>1, <5>4, <5>6, <5>7, <5>8, <5>9 DEF FanOK
      <4> QED
        BY <4>1, <4>2, <4>3, <4>4
    <3> QED
      BY <2>1, <3>2, <3>3 DEF TreeInv
  <2>13. RankInv'
    <3> SUFFICES ASSUME m_work_routine # NULL PROVE RankInv'
      BY <2>1 DEF RankInv
    <3>1. (\A s \in Members : RankOK(s)) /\ ClaimOK /\ (Ranked' <=> Ranked)
      BY <2>1, <2>3 DEF Base, RankInv, Ranked
    <3>2. ASSUME NEW s \in Members PROVE Past(s)' <=> Past(s)
      <4>1. s \in Thread
        BY <2>11 DEF Members
      <4>2. CASE s = Main
        BY <2>1, <4>2 DEF Past, On, Main, Workers
      <4>3. CASE s = x
        BY <2>1, <2>4, <2>8, <4>3 DEF Past, Parked
      <4>4. CASE s # Main /\ s # x
        <5>1. s \in Worker /\ m_control'[s] = m_control[s]
          BY <2>1, <2>2, <2>10, <4>1, <4>4 DEF TypeOK
        <5> QED
          BY <2>1, <2>7, <4>4, <5>1 DEF Past
      <4> QED
        BY <4>2, <4>3, <4>4
    <3>3. ASSUME NEW s \in Members PROVE RankOK(s)'
      <4>1. RankOf(s)' = RankOf(s) /\ RankOK(s)
        BY <2>1, <3>1 DEF RankOf
      <4> QED
        BY <2>1, <3>1, <3>2, <4>1 DEF RankOK
    <3>4. Members' = Members
      BY <2>1 DEF Members
    <3>5. {s \in Members : Past(s)}' = {s \in Members : Past(s)}
      BY <3>2, <3>4
    <3>6. ClaimOK'
      BY <2>1, <3>1, <3>5 DEF ClaimOK
    <3> QED
      BY <3>3, <3>4, <3>6 DEF RankInv
  <2>14. SerialInv'
    BY <2>1 DEF SerialInv
  <2> QED
    BY <2>4, <2>6, <2>9, <2>12, <2>13, <2>14 DEF Base
<1> QED
  BY <1>1, <1>2

-----------------------------------------------------------------------------
(* The invariant holds, and what follows from it. *)

\* The invariant holds at the start, when there is no pool.
LEMMA InitKeeps == Init => Base
<1> SUFFICES ASSUME Init PROVE Base
  OBVIOUS
<1>1. /\ MaxThreads \in Nat \ {0} /\ MaxWork \in Nat /\ Main \in Thread /\ Main \notin Worker
      /\ 0 \in 0 .. MaxThreads /\ 0 \in 0 .. MaxWork
      /\ 0 \in -1 .. MaxThreads /\ 0 \in -MaxThreads .. MaxWork
  BY PoolAssumption, MaxWorkIs DEF Main, Thread, Worker
<1>2. TypeOK
  <2>1. /\ m_thread_count \in 0 .. MaxThreads /\ m_work_count \in 0 .. MaxWork
        /\ m_work_thread_count \in -1 .. MaxThreads
        /\ m_work_count_claim \in -MaxThreads .. MaxWork
        /\ m_work_routine \in {NULL, "user", "local_block"} /\ m_reduce_join \in BOOLEAN
        /\ m_lock \in Thread \cup {NULL} /\ ending \in SUBSET Worker
    BY <1>1, Zenon DEF Init
  <2>2. /\ m_control \in [Thread -> {0, 1}] /\ m_thread_fan \in [0 .. MaxThreads -> 0 .. MaxThreads]
        /\ child \in [Thread -> 0 .. MaxThreads] /\ rank \in [Thread -> 0 .. MaxWork]
    BY <1>1 DEF Init
  <2>3. /\ calls \in [Ranks -> Nat] /\ reduce \in [Thread -> SUBSET Ranks]
        /\ joined \in [Thread -> Nat]
    BY <1>1 DEF Init
  <2>4. pc \in [Thread -> {"none", "app", "barrier", "run", "work", "fan", "spin",
                        "active", "activate", "wait", "serial", "create", "undo",
                        "undo_activate", "undo_wait"}]
    BY <1>1 DEF Init
  <2> QED
    BY <2>1, <2>2, <2>3, <2>4 DEF TypeOK
<1>3. /\ m_thread_count = 0 /\ pc[Main] = "app" /\ call = "none" /\ m_work_routine = NULL
      /\ Workers = {} /\ ending = {} /\ \A s \in Worker : pc[s] = "none"
  BY <1>1 DEF Init, Workers, Worker
<1>4. ~ Undoing /\ ~ Starting /\ ~ Ending
  BY <1>3 DEF Undoing, Starting, Ending, Barriers
<1>5. MainOK
  BY <1>3, <1>4 DEF MainOK
<1>6. FieldsOK /\ LockOK
  <2>1. NULL # "local_block" /\ NULL # Main
    BY PoolAssumption DEF Main
  <2>2. /\ m_lock = NULL /\ m_work_routine = NULL /\ m_reduce_join = FALSE /\ m_thread_count = 0
        /\ m_work_count = 0 /\ m_work_thread_count = 0 /\ m_work_count_claim = 0
    BY DEF Init
  <2>3. FieldsOK
    BY <2>2 DEF FieldsOK
  <2>4. LockOK
    BY <2>1, <2>2 DEF LockOK
  <2> QED
    BY <2>3, <2>4
<1>7. WorkersOK
  BY <1>3, <1>4 DEF WorkersOK, WorkerOK, On, OffOK, Gone
<1>8. TreeInv /\ RankInv /\ SerialInv
  BY <1>3 DEF TreeInv, RankInv, SerialInv
<1> QED
  BY <1>2, <1>5, <1>6, <1>7, <1>8 DEF Base

\* Every step keeps the invariant.
LEMMA NextKeeps == Base /\ [Next]_vars => Base'
<1> SUFFICES ASSUME Base, [Next]_vars PROVE Base'
  OBVIOUS
<1>1. CASE Start \/ TPI_Block \/ TPI_Finalize
  BY <1>1, StartsKeep, BlockKeeps, FinalizeKeeps
<1>2. CASE TPI_Wait \/ TPI_Unblock \/ Wait
  BY <1>2, WaitsKeep
<1>3. CASE Refused
  BY <1>3, RefusedKeeps DEF Refused
<1>4. CASE UNCHANGED vars
  BY <1>4, RefusedKeeps DEF vars
<1>5. ASSUME NEW n \in 1 .. MaxThreads, TPI_Init(n) PROVE Base'
  BY <1>5, InitCallKeeps
<1>6. ASSUME NEW t \in Thread, Barrier(t) \/ RunRanked(t) \/ RunClaimed(t) \/ EndWork(t) \/ FanIn(t)
      PROVE  Base'
  BY <1>6, BarrierKeeps, RunRankedKeeps, RunClaimedKeeps, EndWorkKeeps, FanInKeeps
<1>7. ASSUME NEW t \in Thread, t # Main, Done(t) \/ Activated(t) \/ Loop(t)
      PROVE  Base'
  BY <1>7, DoneKeeps, LoopKeeps
<1>8. CASE Activate \/ RunSerial \/ Reset \/ Create \/ CreateFails \/ Created \/ Started
  BY <1>8, ActivateKeeps, RunSerialKeeps, ResetKeeps, CreateKeeps, CreateFailsKeeps, CreatedKeeps,
     StartedKeeps
<1>9. CASE Undo \/ UndoActivate \/ UndoWait
  BY <1>9, UndoKeeps, UndoActivateKeeps, UndoWaitKeeps
<1> QED
  BY <1>1, <1>2, <1>3, <1>4, <1>5, <1>6, <1>7, <1>8, <1>9 DEF Next, App, Step

\* The invariant holds in every reachable state.
LEMMA Inductive == Spec => []Base
<1> QED
  BY InitKeeps, NextKeeps, PTL DEF Spec

\* Every variable keeps its type: no field of the pool leaves its range, the fetch-and-
\* decrement of the claims does not go below minus the number of threads, and m_thread_fan is
\* read inside its bounds.
THEOREM TypeCorrect == Spec => []TypeOK
<1>1. Base => TypeOK
  BY DEF Base
<1> QED
  BY <1>1, Inductive, PTL

\* What the invariant says of a pool that is between two calls.
LEMMA PoolStatesHold == Base => PoolStates
<1> SUFFICES ASSUME Base, pc[Main] = "app"
      PROVE  /\ \A t \in Worker \ Workers : pc[t] = "none"
             /\ m_work_routine = NULL => \A t \in Workers : pc[t] = "spin" /\ m_control[t] = 0
             /\ m_lock = Main <=> m_work_routine = "local_block"
  BY DEF PoolStates
<1>1. ~ Undoing
  BY DEF Undoing
<1>2. \A t \in Worker \ Workers : pc[t] = "none"
  BY <1>1 DEF Base, WorkersOK, WorkerOK, On, OffOK, Gone
<1>3. ASSUME m_work_routine = NULL, NEW t \in Workers
      PROVE  pc[t] = "spin" /\ m_control[t] = 0
  <2>1. t \in Worker /\ ~ On(t)
    BY <1>3, PoolAssumption DEF Base, TypeOK, Workers, Worker, Thread, Main, On
  <2> QED
    BY <2>1, <1>1 DEF Base, WorkersOK, WorkerOK, OffOK, Parked
<1>4. m_lock = Main <=> m_work_routine = "local_block"
  BY DEF Base, LockOK
<1> QED
  BY <1>2, <1>3, <1>4, Zenon

\* Between the calls of the application the pool is in one of the four states that TPI.h
\* documents: no worker is left behind by a TPI_Init that failed or by TPI_Finalize, every
\* worker of a ready pool is parked, and main holds the mutex just while the pool is blocked.
THEOREM PoolInFourStates == Spec => []PoolStates
<1> QED
  BY PoolStatesHold, Inductive, PTL

\* A step that changes the fields of the work finds every worker parked, or none at all.
FieldsStep ==
  m_work_routine' # m_work_routine \/ m_work_count' # m_work_count
       \/ m_work_thread_count' # m_work_thread_count
       \/ m_reduce_join' # m_reduce_join
     => \A t \in Worker : pc[t] = "none" \/ (pc[t] = "spin" /\ m_control[t] = 0)

\* Only local_start and the end of local_wait change the fields.
LEMMA FieldsStepHolds == Base /\ [Next]_vars => FieldsStep
<1> SUFFICES ASSUME Base, [Next]_vars,
                    ~ UNCHANGED <<m_work_routine, m_work_count, m_work_thread_count,
                    m_reduce_join>>
             PROVE  \A t \in Worker : pc[t] = "none" \/ (pc[t] = "spin" /\ m_control[t] = 0)
  BY DEF FieldsStep
<1>1. (pc[Main] = "app" /\ m_work_routine = NULL) \/ Reset
  <2>1. CASE Start \/ TPI_Block \/ TPI_Finalize
    BY <2>1 DEF Start, TPI_Block, TPI_Finalize, CanStart, TPI_Run, TPI_Run_threads,
                TPI_Run_reduce,
                TPI_Run_threads_reduce, TPI_Start, TPI_Start_threads, TPI_Start_reduce,
                TPI_Start_threads_reduce
  <2>2. CASE TPI_Wait \/ TPI_Unblock \/ Wait \/ Refused \/ UNCHANGED vars
    BY <2>2 DEF TPI_Wait, TPI_Unblock, Wait, Refused, vars, fields
  <2>3. ASSUME NEW n \in 1 .. MaxThreads, TPI_Init(n) PROVE FALSE
    BY <2>3 DEF TPI_Init, fields
  <2>4. ASSUME NEW t \in Thread, Barrier(t) \/ RunRanked(t) \/ RunClaimed(t) \/ EndWork(t) \/ FanIn(t)
        PROVE  FALSE
    BY <2>4 DEF Barrier, RunRanked, RunClaimed, EndWork, FanIn, fields
  <2>5. ASSUME NEW t \in Thread, Done(t) \/ Activated(t) \/ Loop(t)
        PROVE  FALSE
    BY <2>5 DEF Done, Activated, Loop, fields
  <2>6. CASE Activate \/ RunSerial \/ Create \/ CreateFails \/ Created \/ Started
    BY <2>6 DEF Activate, RunSerial, Create, CreateFails, Created, Started, fields
  <2>7. CASE Undo \/ UndoActivate \/ UndoWait
    BY <2>7 DEF Undo, UndoActivate, UndoWait, fields
  <2> QED
    BY <2>1, <2>2, <2>3, <2>4, <2>5, <2>6, <2>7 DEF Next, App, Step
<1>2. CASE pc[Main] = "app" /\ m_work_routine = NULL
  BY <1>2, QuietBefore DEF Quiet, Parked, Gone
<1>3. CASE Reset
  BY <1>3, QuietAtReset DEF Reset, Parked, Gone
<1> QED
  BY <1>1, <1>2, <1>3

\* The fields of the work are written only when every worker is parked: no worker runs one
\* call with the fields of another, which is why local_run may read them without a lock.
THEOREM FieldsAreStable == Spec => FieldsStable
<1>1. Base /\ [Next]_vars => [FieldsStep]_vars
  BY FieldsStepHolds
<1>2. Spec => [][FieldsStep]_vars
  BY <1>1, Inductive, PTL DEF Spec
<1> QED
  BY <1>2 DEF FieldsStable, FieldsStep

-----------------------------------------------------------------------------
(* The reduction: each value is joined once, by the parent of its thread. *)

\* Numbers that do not fall from one thread to the next do not fall at all.
LEMMA FanGrows ==
  ASSUME NEW n \in Nat, NEW fan, \A t \in 0 .. n : fan[t] \in Nat,
         \A t \in 0 .. n - 1 : fan[t] <= fan[t + 1]
  PROVE  \A s, t \in 0 .. n : s <= t => fan[s] <= fan[t]
<1> SUFFICES ASSUME NEW s \in 0 .. n PROVE \A t \in 0 .. n : s <= t => fan[s] <= fan[t]
  OBVIOUS
<1> DEFINE Below == {t \in 0 .. n : s <= t /\ ~ (fan[s] <= fan[t])}
<1>1. SUFFICES ASSUME Below # {} PROVE FALSE
  OBVIOUS
<1>2. PICK t \in Below : \A u \in Below : t <= u
  <2>1. Below \in SUBSET Nat
    OBVIOUS
  <2> QED
    BY <1>1, <2>1, Least
<1>3. t \in 0 .. n /\ s < t /\ ~ (fan[s] <= fan[t])
  OBVIOUS
<1>4. t - 1 \in 0 .. n - 1 /\ (t - 1) + 1 = t /\ s <= t - 1 /\ t - 1 \in 0 .. n
  BY <1>3
<1>5. fan[s] <= fan[t - 1]
  BY <1>2, <1>4
<1>6. fan[t - 1] <= fan[t] /\ fan[s] \in Nat /\ fan[t - 1] \in Nat /\ fan[t] \in Nat
  BY <1>3, <1>4
<1> QED
  BY <1>3, <1>5, <1>6

\* What a reduction implies: there are workers, and main runs a subprogram of the user.
LEMMA Reducing ==
  ASSUME Base, m_reduce_join
  PROVE  /\ m_work_routine = "user" /\ m_work_routine # NULL
         /\ m_thread_count \in 0 .. MaxThreads /\ MaxThreads \in Nat /\ m_thread_count > 1
         /\ ~ Undoing /\ ~ Starting /\ ~ Ending
         /\ pc[Main] \notin {"create", "serial", "undo", "undo_activate", "undo_wait"}
         /\ TreeShape(m_thread_count)
         /\ \A t \in Members : t \in Thread /\ FanOK(t) /\ RankOK(t) /\ m_thread_fan[t] \in Nat
         /\ Main \in Members
         /\ \A t \in Workers : t \in Worker /\ t \in Members /\ t # Main
         /\ \A t \in Members : t # Main => t \in Workers
         /\ \A t \in Workers : IF On(t) THEN OnOK(t) ELSE Parked(t)
<1>1. TypeOK /\ MainOK /\ FieldsOK
  BY DEF Base
<1>2. m_thread_count \in 0 .. MaxThreads /\ MaxThreads \in Nat
  BY <1>1, PoolAssumption DEF TypeOK
<1>3. /\ m_work_routine = "user" /\ m_work_routine # NULL /\ m_thread_count > 1
  <2>1. m_work_routine = "user" /\ ~ (m_thread_count <= 1) /\ m_work_routine # NULL
    BY <1>1 DEF FieldsOK
  <2> QED
    BY <1>2, <2>1
<1>4. /\ ~ Undoing /\ ~ Starting /\ ~ Ending
      /\ pc[Main] \notin {"create", "serial", "undo", "undo_activate", "undo_wait"}
  <2>1. ~ (m_thread_count <= 1)
    BY <1>2, <1>3
  <2>2. ~ Undoing /\ ~ Starting /\ ~ Ending
    BY <1>1, <1>3 DEF MainOK
  <2> QED
    BY <1>1, <1>3, <2>1, <2>2 DEF MainOK, Undoing, Starting
<1>5. /\ Main \in Members /\ (\A t \in Workers : t \in Worker /\ t \in Members /\ t # Main)
      /\ \A t \in Members : t # Main => t \in Workers
  BY <1>2, <1>3 DEF Main, Members, Workers, Worker, Thread
<1>6. /\ TreeShape(m_thread_count)
      /\ \A t \in Members : t \in Thread /\ FanOK(t) /\ RankOK(t) /\ m_thread_fan[t] \in Nat
  <2>1. TreeShape(m_thread_count) /\ \A t \in Members : FanOK(t)
    BY <1>2, <1>3, <1>4 DEF Base, TreeInv, Members
  <2>2. \A t \in Members : RankOK(t)
    BY <1>3 DEF Base, RankInv
  <2>3. \A t \in Members : t \in Thread /\ m_thread_fan[t] \in 0 .. MaxThreads
    BY <1>1, FanType DEF Members
  <2>4. \A t \in Members : m_thread_fan[t] \in Nat
    BY <1>2, <2>3
  <2> QED
    BY <2>1, <2>2, <2>3, <2>4
<1>7. ASSUME NEW t \in Workers PROVE IF On(t) THEN OnOK(t) ELSE Parked(t)
  <2>1. WorkerOK(t)
    BY <1>5 DEF Base, WorkersOK
  <2> QED
    BY <1>4, <2>1 DEF WorkerOK, OffOK
<1> QED
  BY <1>2, <1>3, <1>4, <1>5, <1>6, <1>7

\* The children of a thread are workers with higher numbers, and of no other thread.
LEMMA KidsIn ==
  ASSUME TypeOK, TreeShape(m_thread_count), NEW p \in Members, NEW c \in Kids(p)
  PROVE  /\ c \in Workers /\ c \in Members /\ c \in Thread /\ p < c
         /\ \A q \in Members : c \in Kids(q) => q = p
<1>1. m_thread_count \in Nat /\ m_thread_count \in 0 .. MaxThreads /\ MaxThreads \in Nat
  BY PoolAssumption DEF TypeOK
<1> PICK n \in Nat : n = m_thread_count
  BY <1>1
<1>2. \A t \in 0 .. n : m_thread_fan[t] \in Nat
  <2>1. m_thread_fan \in [0 .. MaxThreads -> 0 .. MaxThreads] /\ n \in 0 .. MaxThreads /\ MaxThreads \in Nat
    BY <1>1 DEF TypeOK
  <2> QED
    BY <2>1
<1>3. \A t \in 0 .. n - 1 : t < m_thread_fan[t] /\ m_thread_fan[t] <= m_thread_fan[t + 1]
  BY <1>1 DEF TreeShape
<1>4. \A s, t \in 0 .. n : s <= t => m_thread_fan[s] <= m_thread_fan[t]
  BY <1>2, <1>3, FanGrows
<1>5. /\ m_thread_fan[n] = n /\ p \in 0 .. n - 1 /\ c \in Int
      /\ m_thread_fan[p] <= c /\ c < m_thread_fan[p + 1]
  BY <1>1, <1>2 DEF TreeShape, Kids, Members
<1>6. c \in 1 .. n - 1 /\ p < c
  <2>1. m_thread_fan[p + 1] <= n /\ p < m_thread_fan[p] /\ m_thread_fan[p] \in Nat /\ m_thread_fan[p + 1] \in Nat
    BY <1>2, <1>3, <1>4, <1>5
  <2> QED
    BY <1>5, <2>1
<1>7. ASSUME NEW q \in Members, c \in Kids(q) PROVE q = p
  <2>1. /\ q \in 0 .. n - 1 /\ m_thread_fan[q] <= c /\ c < m_thread_fan[q + 1]
    BY <1>2, <1>7 DEF Kids, Members
  <2>2. m_thread_fan[q] \in Nat /\ m_thread_fan[q + 1] \in Nat /\ m_thread_fan[p] \in Nat /\ m_thread_fan[p + 1] \in Nat
    BY <1>2, <1>5, <2>1
  <2>3. ~ (q + 1 <= p)
    BY <1>4, <1>5, <2>1, <2>2
  <2>4. ~ (p + 1 <= q)
    BY <1>4, <1>5, <2>1, <2>2
  <2> QED
    BY <1>5, <2>1, <2>3, <2>4
<1>8. c \in Workers /\ c \in Members /\ c \in Thread
  BY <1>1, <1>6 DEF Workers, Members, Thread
<1> QED
  BY <1>6, <1>7, <1>8

\* So they are during a reduction.
LEMMA KidsAre ==
  ASSUME Base, m_reduce_join, NEW p \in Members, NEW c \in Kids(p)
  PROVE  /\ c \in Workers /\ c \in Members /\ c \in Thread /\ p < c
         /\ \A q \in Members : c \in Kids(q) => q = p
<1>1. TypeOK /\ TreeShape(m_thread_count)
  BY Reducing DEF Base
<1> QED
  BY <1>1, KidsIn

\* A child is joined after it has deactivated itself.
LEMMA JoinedDone ==
  ASSUME Base, m_reduce_join, NEW p \in Members, NEW c \in Kids(p), HasJoined(p, c)
  PROVE  m_control[c] = 0
<1>1. FanOK(p) /\ c \in Int /\ m_thread_fan[p] \in Nat
  BY Reducing DEF Kids
<1>2. CASE On(p) /\ m_control[p] = 0
  BY <1>1, <1>2 DEF FanOK
<1>3. CASE pc[p] = "fan" /\ child[p] <= c
  <2>1. child[p] \in Int /\ \A d \in child[p] .. m_thread_fan[p + 1] - 1 : m_control[d] = 0
    BY <1>1, <1>3 DEF FanOK
  <2> QED
    BY <1>1, <1>3, <2>1 DEF Kids
<1> QED
  BY <1>2, <1>3 DEF HasJoined

\* A step that reduces nothing.
LEMMA NoReduction ==
  ASSUME ReduceInv, ~ m_reduce_join', joined' = joined \/ joined' = [t \in Thread |-> 0],
         ~ m_reduce_join \/ joined' = [t \in Thread |-> 0], Idle'
  PROVE  ReduceInv'
BY DEF ReduceInv

\* A step that changes nothing of a reduction.
LEMMA ReduceSame ==
  ASSUME ReduceInv, Idle', UNCHANGED <<fields, pool, reduce, joined>>,
         \A t \in Members : /\ Past(t)' <=> Past(t)
                            /\ pc[t] = "work" => pc'[t] = "work" /\ rank'[t] = rank[t]
                            /\ pc[t] = "run" => pc'[t] \in {"run", "work"},
         \A p \in Members : \A c \in Kids(p) : HasJoined(p, c)' <=> HasJoined(p, c)
  PROVE  ReduceInv'
<1>1. /\ UNCHANGED <<m_work_routine, m_work_count, m_work_thread_count, m_work_count_claim,
                     m_reduce_join, m_thread_count, m_thread_fan>>
      /\ Members' = Members /\ Workers' = Workers /\ (Ranked' <=> Ranked)
      /\ (\A t : Kids(t)' = Kids(t) /\ RankOf(t)' = RankOf(t))
  BY DEF fields, pool, Members, Workers, Ranked, Kids, RankOf
<1>2. ~ m_reduce_join' => joined' = [t \in Thread |-> 0]
  BY <1>1 DEF ReduceInv
<1>3. ASSUME m_reduce_join'
      PROVE  /\ \A t \in Thread \ Workers' : joined'[t] = 0
             /\ \A p \in Members' : \A c \in Kids(p)' : JoinOK(p, c)'
             /\ \A t \in Members' : ValueOK(t)'
             /\ AllKept'
  <2>1. /\ \A t \in Thread \ Workers : joined[t] = 0
        /\ \A p \in Members : \A c \in Kids(p) : JoinOK(p, c)
        /\ \A t \in Members : ValueOK(t)
        /\ AllKept
    BY <1>1, <1>3 DEF ReduceInv
  <2>2. \A t \in Thread \ Workers' : joined'[t] = 0
    BY <1>1, <2>1
  <2>3. \A p \in Members' : \A c \in Kids(p)' : JoinOK(p, c)'
    BY <1>1, <2>1 DEF JoinOK
  <2>4. \A t \in Members' : ValueOK(t)'
    BY <1>1, <2>1 DEF ValueOK
  <2>5. AllKept'
    <3>1. \A r : Kept(r) => Kept(r)'
      BY <1>1 DEF Kept
    <3> QED
      BY <1>1, <2>1, <3>1 DEF AllKept
  <2> QED
    BY <2>2, <2>3, <2>4, <2>5
<1> QED
  BY <1>2, <1>3 DEF ReduceInv

\* A step of t that joins nothing.
LEMMA ReduceLocal ==
  ASSUME Base, ReduceInv, NEW t \in Members, Local(t), m_reduce_join, joined' = joined,
         \A s \in Thread \ {t} : reduce'[s] = reduce[s],
         reduce[t] \subseteq reduce'[t],
         reduce'[t] = reduce[t] \/ t = Main \/ m_control[t] # 0,
         ValueOK(t)', AllKept',
         \A c \in Kids(t) : HasJoined(t, c)' <=> HasJoined(t, c)
  PROVE  ReduceInv'
<1>1. /\ UNCHANGED <<m_work_routine, m_work_count, m_work_thread_count, m_reduce_join,
                     m_thread_count, m_thread_fan>>
      /\ Members' = Members /\ Workers' = Workers /\ (Ranked' <=> Ranked)
      /\ (\A s : Kids(s)' = Kids(s) /\ RankOf(s)' = RankOf(s))
  BY DEF Local, pool, Members, Workers, Ranked, Kids, RankOf
<1>2. /\ \A s \in Thread \ Workers : joined[s] = 0
      /\ \A p \in Members : \A c \in Kids(p) : JoinOK(p, c)
      /\ \A s \in Members : ValueOK(s)
  BY DEF ReduceInv
<1>3. /\ m_work_routine # NULL /\ Main \in Thread
      /\ \A s \in Members : s \in Thread
  BY Reducing
<1>4. \A s \in Thread : On(s)' <=> On(s)
  <2>1. t \in Thread
    BY <1>3
  <2> QED
    BY <2>1, LocalMain
<1>5. \A s \in Thread \ {t} : UNCHANGED <<pc[s], child[s], rank[s], m_control[s]>>
  BY DEF Local
<1>6. ASSUME NEW s \in Members PROVE ValueOK(s)'
  <2>1. CASE s = t
    BY <2>1
  <2>2. CASE s # t
    <3>1. UNCHANGED <<pc[s], m_control[s], reduce[s]>> /\ (On(s)' <=> On(s)) /\ ValueOK(s)
      BY <1>2, <1>3, <1>4, <1>5, <2>2
    <3> QED
      BY <1>1, <3>1 DEF ValueOK, Past
  <2> QED
    BY <2>1, <2>2
<1>7. ASSUME NEW p \in Members, NEW c \in Kids(p) PROVE JoinOK(p, c)'
  <2>1. c \in Thread /\ c # p /\ c \in Workers /\ p \in Thread /\ JoinOK(p, c) /\ c # Main
    <3>1. c \in Workers /\ c \in Thread /\ p < c
      BY KidsAre
    <3>2. p \in 0 .. m_thread_count - 1
      BY DEF Members
    <3>3. c # p
      BY <3>1, <3>2
    <3>4. c # Main
      BY <3>1, Reducing
    <3> QED
      BY <1>2, <1>3, <3>1, <3>3, <3>4
  <2>2. HasJoined(p, c)' <=> HasJoined(p, c)
    <3>1. CASE p = t
      BY <3>1
    <3>2. CASE p # t
      <4>1. UNCHANGED <<pc[p], child[p], m_control[p]>> /\ (On(p)' <=> On(p))
        BY <1>4, <1>5, <2>1, <3>2
      <4> QED
        BY <4>1 DEF HasJoined
    <3> QED
      BY <3>1, <3>2
  <2>3. HasJoined(p, c) => reduce'[c] = reduce[c] /\ reduce[p] \subseteq reduce'[p]
    <3>1. HasJoined(p, c) => m_control[c] = 0
      BY JoinedDone
    <3> QED
      BY <2>1, <3>1
  <2> QED
    BY <2>1, <2>2, <2>3 DEF JoinOK
<1>8. Idle'
  BY <1>1, <1>3 DEF Idle
<1> QED
  BY <1>1, <1>2, <1>6, <1>7, <1>8 DEF ReduceInv

\* The thread that a local step is about.
LEMMA Worked ==
  ASSUME Base, m_reduce_join, NEW t \in Thread, pc[t] \in Barriers
  PROVE  /\ t \in Members /\ (t = Main \/ (m_control[t] # 0 /\ On(t))) /\ ~ (On(t) /\ m_control[t] = 0)
         /\ FanOK(t) /\ RankOK(t) /\ m_thread_fan[t] \in Nat /\ \A c \in Kids(t) : c \in Int
<1>1. ~ Undoing
  BY Reducing
<1>2. t # Main => m_control[t] = 1
  BY InBarrier
<1>3. t \in Members /\ (t # Main => On(t))
  BY <1>1, InBarrier
<1>4. FanOK(t) /\ RankOK(t) /\ m_thread_fan[t] \in Nat
  BY <1>3, Reducing
<1>5. t = Main => ~ On(t)
  BY MainOff
<1> QED
  BY <1>2, <1>3, <1>4, <1>5 DEF Kids

\* m_reduce_init finds nothing in the value of the thread.
LEMMA BarrierReduces ==
  ASSUME Base, ReduceInv, m_reduce_join, NEW t \in Thread, Barrier(t)
  PROVE  ReduceInv'
<1>1. /\ pc[t] = "barrier"
      /\ child' = [child EXCEPT ![t] = m_thread_fan[t + 1]]
      /\ reduce' = IF t # Main THEN [reduce EXCEPT ![t] = {}] ELSE reduce
      /\ pc' = [pc EXCEPT ![t] = "run"]
      /\ UNCHANGED <<fields, pool, m_control, m_lock, ending, rank, call, result, calls, joined>>
  BY Reducing DEF Barrier, Goto
<1>2. /\ t \in Members /\ ~ (On(t) /\ m_control[t] = 0)
  BY <1>1, Worked DEF Barriers
<1>3. TypeOK
  BY DEF Base
<1>4. ValueOK(t) /\ AllKept
  BY <1>2 DEF ReduceInv
<1>5. reduce[t] = {} /\ ~ Past(t)
  BY <1>1, <1>2, <1>4 DEF ValueOK, Past
<1>6. reduce' = reduce
  <2>1. reduce \in [Thread -> SUBSET Ranks]
    BY <1>3 DEF TypeOK
  <2> QED
    BY <1>1, <1>5, <2>1
<1>7. pc'[t] = "run" /\ \A s \in Thread \ {t} : UNCHANGED <<pc[s], child[s], rank[s], m_control[s]>>
  BY <1>1, <1>3 DEF TypeOK
<1>8. Local(t)
  BY <1>1, <1>7 DEF Local, fields, Barriers
<1>9. On(t)' <=> On(t)
  BY <1>8, LocalMain
<1>10. ValueOK(t)'
  <2>1. m_work_count' = m_work_count /\ m_control' = m_control
    BY <1>1 DEF fields
  <2>2. ~ Past(t)'
    BY <1>2, <1>7, <1>9, <2>1 DEF Past
  <2> QED
    BY <1>4, <1>5, <1>6, <1>7, <2>1, <2>2 DEF ValueOK
<1>11. AllKept'
  <2>1. \A s \in Thread : pc[s] = "work" => pc'[s] = "work"
    BY <1>1, <1>7
  <2>2. \A s \in Members : s \in Thread
    BY Reducing
  <2>3. \A r : Kept(r) => Kept(r)'
    BY <1>1, <1>6, <2>1, <2>2 DEF Kept, Members, pool
  <2> QED
    BY <1>1, <1>4, <2>3 DEF AllKept, fields, Ranked
<1>12. \A c \in Kids(t) : HasJoined(t, c)' <=> HasJoined(t, c)
  BY <1>1, <1>2, <1>7, <1>9 DEF HasJoined
<1> QED
  BY <1>1, <1>2, <1>6, <1>8, <1>10, <1>11, <1>12, ReduceLocal

\* A rank that is claimed is kept by the thread that runs it.
LEMMA RunReduces ==
  ASSUME Base, ReduceInv, m_reduce_join, NEW t \in Thread, RunRanked(t) \/ RunClaimed(t)
  PROVE  ReduceInv'
<1>1. /\ pc[t] = "run"
      /\ UNCHANGED <<m_work_routine, m_work_count, m_work_thread_count, m_reduce_join, pool,
                     m_control, m_lock, ending, child, call, result, reduce, joined>>
      /\ pc' = [pc EXCEPT ![t] = "work"] \/ pc' = [pc EXCEPT ![t] = "fan"]
      /\ calls' = calls \/ \E r : calls' = [calls EXCEPT ![r] = @ + 1]
      /\ rank' = rank \/ \E r : rank' = [rank EXCEPT ![t] = r]
  BY DEF RunRanked, RunClaimed, Begin, Goto, fields
<1>2. \/ /\ Ranked /\ m_work_count_claim' = m_work_count_claim
         /\ ~ (RankOf(t) < m_work_count) => pc' = [pc EXCEPT ![t] = "fan"]
         /\ RankOf(t) < m_work_count => pc' = [pc EXCEPT ![t] = "work"]
      \/ /\ ~ Ranked /\ m_work_count_claim' = m_work_count_claim - 1
         /\ 0 < m_work_count_claim => /\ pc' = [pc EXCEPT ![t] = "work"]
                                      /\ rank' = [rank EXCEPT ![t] = m_work_count - m_work_count_claim]
  <2>1. CASE RunRanked(t)
    BY <2>1 DEF RunRanked, Begin, Goto, fields, Ranked
  <2>2. CASE RunClaimed(t)
    <3>1. m_work_count \in Int /\ m_work_thread_count \in Int
      BY MaxWorkIs, PoolAssumption DEF Base, TypeOK
    <3>2. ~ Ranked
      BY <2>2, <3>1 DEF RunClaimed, Ranked
    <3> QED
      BY <2>2, <3>2 DEF RunClaimed, atomic_fetch_and_decrement, Begin, Goto, Claimed
  <2> QED
    BY <2>1, <2>2
<1>3. /\ t \in Members /\ ~ (On(t) /\ m_control[t] = 0) /\ FanOK(t) /\ m_thread_fan[t] \in Nat
      /\ TypeOK /\ TypeOK'
  BY <1>1, Worked, RunRankedKeeps, RunClaimedKeeps DEF Barriers, Base
<1>4. ValueOK(t) /\ AllKept
  BY <1>3 DEF ReduceInv
<1>5. /\ pc'[t] \in {"work", "fan"}
      /\ \A s \in Thread \ {t} : UNCHANGED <<pc[s], child[s], rank[s], m_control[s]>>
  BY <1>1, <1>3 DEF TypeOK
<1>6. Local(t)
  <2>1. \A r \in Ranks : calls[r] > 0 => calls'[r] > 0
    <3>1. calls \in [Ranks -> Nat]
      BY <1>3 DEF TypeOK
    <3>2. CASE calls' = calls
      BY <3>2
    <3>3. ASSUME NEW r, calls' = [calls EXCEPT ![r] = @ + 1]
          PROVE  \A q \in Ranks : calls[q] > 0 => calls'[q] > 0
      <4> SUFFICES ASSUME NEW q \in Ranks, calls[q] > 0 PROVE calls'[q] > 0
        OBVIOUS
      <4>1. calls[q] \in Nat /\ (calls'[q] = calls[q] \/ calls'[q] = calls[q] + 1)
        BY <3>1, <3>3
      <4> QED
        BY <4>1
    <3> QED
      BY <1>1, <3>2, <3>3
  <2> QED
    BY <1>1, <1>5, <2>1 DEF Local, Barriers
<1>7. On(t)' <=> On(t)
  BY <1>6, LocalMain
<1>8. (Ranked' <=> Ranked) /\ RankOf(t)' = RankOf(t) /\ Members' = Members
  BY <1>1 DEF Ranked, RankOf, Members, pool
<1>9. ValueOK(t)'
  <2>1. pc'[t] = "fan" /\ Ranked => ~ (RankOf(t) < m_work_count)
    BY <1>2, <1>3 DEF TypeOK
  <2>2. Past(t)' => pc'[t] = "fan"
    BY <1>1, <1>3, <1>7 DEF Past
  <2> QED
    BY <1>1, <1>4, <1>5, <1>8, <2>1, <2>2 DEF ValueOK, Past
<1>10. AllKept'
  <2>1. ASSUME ~ Ranked', NEW r \in 0 .. m_work_count' - 1, r < m_work_count' - m_work_count_claim'
        PROVE  Kept(r)'
    <3>1. /\ m_work_count \in Int /\ m_work_count_claim \in Int /\ m_work_count' = m_work_count
          /\ r \in 0 .. m_work_count - 1
          /\ \A s \in Members : s \in Thread
      <4>1. /\ m_work_count \in 0 .. MaxWork /\ m_work_count_claim \in -MaxThreads .. MaxWork
            /\ MaxWork \in Nat /\ MaxThreads \in Nat
        BY <1>3, MaxWorkIs, PoolAssumption DEF TypeOK
      <4>2. m_work_count' = m_work_count /\ r \in 0 .. m_work_count - 1
        BY <1>1, <2>1
      <4>3. \A s \in Members : s \in Thread
        BY Reducing
      <4> QED
        BY <4>1, <4>2, <4>3
    <3>2. m_work_count_claim' = m_work_count_claim - 1
      BY <1>2, <1>8, <2>1
    <3>3. CASE r < m_work_count - m_work_count_claim
      <4>1. Kept(r)
        BY <1>4, <1>8, <2>1, <3>1, <3>3 DEF AllKept
      <4> QED
        BY <1>1, <1>5, <1>8, <3>1, <4>1 DEF Kept
    <3>4. CASE ~ (r < m_work_count - m_work_count_claim)
      <4>1. r = m_work_count - m_work_count_claim /\ 0 < m_work_count_claim
        BY <2>1, <3>1, <3>2, <3>4
      <4>2. pc'[t] = "work" /\ rank'[t] = r
        BY <1>2, <1>3, <1>8, <2>1, <4>1 DEF TypeOK
      <4> QED
        BY <1>3, <1>8, <4>2 DEF Kept
    <3> QED
      BY <3>3, <3>4
  <2> QED
    BY <2>1 DEF AllKept
<1>11. \A c \in Kids(t) : HasJoined(t, c)' <=> HasJoined(t, c)
  <2> SUFFICES ASSUME NEW c \in Kids(t) PROVE HasJoined(t, c)' <=> HasJoined(t, c)
    OBVIOUS
  <2>1. child[t] = m_thread_fan[t + 1] /\ child' = child
    BY <1>1, <1>3 DEF FanOK
  <2>2. ~ (child[t] <= c)
    <3>1. c < m_thread_fan[t + 1] /\ c \in Int /\ m_thread_fan[t + 1] \in Int
      <4>1. m_thread_fan[t + 1] \in 0 .. MaxThreads /\ MaxThreads \in Nat
        BY <1>3, FanType, PoolAssumption DEF Members
      <4> QED
        BY <1>3, <4>1 DEF Kids
    <3> QED
      BY <2>1, <3>1
  <2> QED
    BY <1>1, <1>3, <1>7, <2>1, <2>2 DEF HasJoined
<1> QED
  BY <1>1, <1>3, <1>6, <1>9, <1>10, <1>11, ReduceLocal

\* The subprogram puts its rank into the value of its thread.
LEMMA EndWorkReduces ==
  ASSUME Base, ReduceInv, m_reduce_join, NEW t \in Thread, EndWork(t)
  PROVE  ReduceInv'
<1>1. /\ pc[t] = "work"
      /\ reduce' = [reduce EXCEPT ![t] = @ \cup {rank[t]}]
      /\ pc' = [pc EXCEPT ![t] = IF Ranked THEN "fan" ELSE "run"]
      /\ UNCHANGED <<fields, pool, m_control, m_lock, ending, child, rank, call, result,
                     calls, joined>>
  BY DEF EndWork, Goto, Ranked
<1>2. /\ t \in Members /\ ~ (On(t) /\ m_control[t] = 0) /\ FanOK(t) /\ m_thread_fan[t] \in Nat
      /\ RankOK(t) /\ TypeOK /\ (t = Main \/ m_control[t] # 0)
  BY <1>1, Worked DEF Barriers, Base
<1>3. ValueOK(t) /\ AllKept
  BY <1>2 DEF ReduceInv
<1>4. /\ pc'[t] = IF Ranked THEN "fan" ELSE "run"
      /\ \A s \in Thread \ {t} : UNCHANGED <<pc[s], child[s], rank[s], m_control[s]>>
  BY <1>1, <1>2 DEF TypeOK
<1>5. Local(t)
  BY <1>1, <1>4 DEF Local, Barriers, fields
<1>6. On(t)' <=> On(t)
  BY <1>5, LocalMain
<1>7. /\ (Ranked' <=> Ranked) /\ RankOf(t)' = RankOf(t) /\ Members' = Members
      /\ m_work_count' = m_work_count /\ m_work_count_claim' = m_work_count_claim
  BY <1>1 DEF Ranked, RankOf, Members, pool, fields
<1>8. /\ reduce'[t] = reduce[t] \cup {rank[t]}
      /\ \A s \in Thread \ {t} : reduce'[s] = reduce[s]
  BY <1>1, <1>2 DEF TypeOK
<1>9. ValueOK(t)'
  <2>1. rank[t] \in 0 .. m_work_count - 1 /\ (Ranked => rank[t] = RankOf(t))
    BY <1>1, <1>2 DEF RankOK
  <2>2. Past(t)' => Ranked
    BY <1>1, <1>2, <1>4, <1>6 DEF Past
  <2>3. ~ Ranked => pc'[t] = "run"
    BY <1>4
  <2>4. Ranked => Past(t)'
    BY <1>4 DEF Past
  <2> QED
    BY <1>3, <1>7, <1>8, <2>1, <2>2, <2>3, <2>4 DEF ValueOK
<1>10. AllKept'
  <2>1. ASSUME NEW r, Kept(r) PROVE Kept(r)'
    <3>1. PICK s \in Members : r \in reduce[s] \/ (pc[s] = "work" /\ rank[s] = r)
      BY <2>1 DEF Kept
    <3>2. s \in Thread
      BY <3>1, Reducing
    <3>3. CASE s = t
      BY <1>2, <1>7, <1>8, <3>1, <3>3 DEF Kept
    <3>4. CASE s # t
      BY <1>4, <1>7, <1>8, <3>1, <3>2, <3>4 DEF Kept
    <3> QED
      BY <3>3, <3>4
  <2> QED
    BY <1>3, <1>7, <2>1 DEF AllKept
<1>11. \A c \in Kids(t) : HasJoined(t, c)' <=> HasJoined(t, c)
  <2> SUFFICES ASSUME NEW c \in Kids(t) PROVE HasJoined(t, c)' <=> HasJoined(t, c)
    OBVIOUS
  <2>1. child[t] = m_thread_fan[t + 1] /\ child' = child
    BY <1>1, <1>2 DEF FanOK
  <2>2. ~ (child[t] <= c)
    <3>1. c < m_thread_fan[t + 1] /\ c \in Int /\ m_thread_fan[t + 1] \in Int
      <4>1. m_thread_fan[t + 1] \in 0 .. MaxThreads /\ MaxThreads \in Nat
        BY <1>2, FanType, PoolAssumption DEF Members
      <4> QED
        BY <1>2, <4>1 DEF Kids
    <3> QED
      BY <2>1, <3>1
  <2> QED
    BY <1>1, <1>2, <1>6, <2>1, <2>2 DEF HasJoined
<1> QED
  BY <1>1, <1>2, <1>5, <1>8, <1>9, <1>10, <1>11, ReduceLocal

\* A worker deactivates itself with all of its children joined.
LEMMA DoneReduces ==
  ASSUME Base, ReduceInv, m_reduce_join, NEW t \in Thread, t # Main, Done(t)
  PROVE  ReduceInv'
<1>1. /\ pc[t] = "fan" /\ m_thread_fan[t] >= child[t]
      /\ m_control' = [m_control EXCEPT ![t] = 0]
      /\ pc' = [pc EXCEPT ![t] = IF t \in ending THEN "none" ELSE "spin"]
      /\ ending' = ending \ {t}
      /\ child' = [child EXCEPT ![t] = 0] /\ rank' = [rank EXCEPT ![t] = 0]
      /\ UNCHANGED <<fields, pool, m_lock, call, result, history>>
  BY DEF Done, AllIn, Deactivate, Goto, ClearLocals
<1>2. /\ t \in Members /\ On(t) /\ FanOK(t) /\ m_thread_fan[t] \in Nat /\ TypeOK
  BY <1>1, Worked DEF Barriers, Base
<1>3. /\ \A s \in Thread \ {t} : UNCHANGED <<pc[s], child[s], rank[s], m_control[s]>>
      /\ m_control'[t] = 0 /\ pc'[t] \in {"none", "spin"}
  BY <1>1, <1>2 DEF TypeOK
<1>4. Local(t)
  BY <1>1, <1>3 DEF Local, fields, history
<1>5. /\ \A s \in Thread : On(s)' <=> On(s)
      /\ \A s \in Members : s \in Thread
  BY <1>4, LocalMain, Reducing
<1>6. \A s \in Members : Past(s)' <=> Past(s)
  <2> SUFFICES ASSUME NEW s \in Members PROVE Past(s)' <=> Past(s)
    OBVIOUS
  <2>1. CASE s = t
    BY <1>1, <1>2, <1>3, <1>5, <2>1 DEF Past
  <2>2. CASE s # t
    BY <1>3, <1>5, <2>2 DEF Past
  <2> QED
    BY <2>1, <2>2
<1>7. \A p \in Members : \A c \in Kids(p) : HasJoined(p, c)' <=> HasJoined(p, c)
  <2> SUFFICES ASSUME NEW p \in Members, NEW c \in Kids(p)
               PROVE  HasJoined(p, c)' <=> HasJoined(p, c)
    OBVIOUS
  <2>1. CASE p = t
    <3>1. child[t] <= c
      <4>1. child[t] \in Nat
        <5>1. child[t] \in 0 .. MaxThreads /\ MaxThreads \in Nat
          BY <1>2, PoolAssumption DEF TypeOK
        <5> QED
          BY <5>1
      <4>2. m_thread_fan[t] <= c /\ c \in Int
        BY <1>2, <2>1 DEF Kids
      <4> QED
        BY <1>1, <1>2, <4>1, <4>2
    <3> QED
      BY <1>1, <1>2, <1>3, <1>5, <2>1, <3>1 DEF HasJoined
  <2>2. CASE p # t
    BY <1>3, <1>5, <2>2 DEF HasJoined
  <2> QED
    BY <2>1, <2>2
<1>8. \A s \in Members : /\ pc[s] = "work" => pc'[s] = "work" /\ rank'[s] = rank[s]
                         /\ pc[s] = "run" => pc'[s] \in {"run", "work"}
  BY <1>1, <1>3, <1>5
<1>9. Idle'
  BY <1>1, Reducing DEF Idle, fields
<1> QED
  BY <1>1, <1>6, <1>7, <1>8, <1>9, ReduceSame DEF history

\* A worker that comes back to its loop has joined nothing.
LEMMA LoopReduces ==
  ASSUME Base, ReduceInv, m_reduce_join, NEW t \in Thread, t # Main, Activated(t) \/ Loop(t)
  PROVE  ReduceInv'
<1>1. /\ pc[t] \in {"spin", "active"}
      /\ pc' = [pc EXCEPT ![t] = "active"] \/ pc' = [pc EXCEPT ![t] = "barrier"]
      /\ UNCHANGED <<fields, pool, m_control, m_lock, child, rank, call, result, history>>
      /\ pc[t] = "spin" => m_control[t] # 0
      /\ ending' = ending \/ m_work_routine = NULL
  BY DEF Activated, Loop, Goto
<1>2. TypeOK /\ t \in Worker /\ WorkerOK(t) /\ ~ Undoing /\ ~ Starting /\ ~ Ending
  BY Reducing, MainOff DEF Base, WorkersOK
<1>3. m_control[t] # 0
  BY <1>1, <1>2 DEF WorkerOK, OnOK, OffOK, Gone, Parked, Called, Meets, Runs
<1>4. /\ \A s \in Thread \ {t} : UNCHANGED <<pc[s], child[s], rank[s], m_control[s]>>
      /\ pc'[t] \in {"active", "barrier"}
  BY <1>1, <1>2 DEF TypeOK
<1>5. Local(t)
  BY <1>1, <1>4, Reducing DEF Local, fields, history
<1>6. /\ \A s \in Thread : On(s)' <=> On(s)
      /\ \A s \in Members : s \in Thread
  BY <1>5, LocalMain, Reducing
<1>7. \A s \in Members : Past(s)' <=> Past(s)
  BY <1>1, <1>3, <1>4, <1>6 DEF Past
<1>8. \A p \in Members : \A c \in Kids(p) : HasJoined(p, c)' <=> HasJoined(p, c)
  BY <1>1, <1>3, <1>4, <1>6 DEF HasJoined
<1>9. \A s \in Members : /\ pc[s] = "work" => pc'[s] = "work" /\ rank'[s] = rank[s]
                         /\ pc[s] = "run" => pc'[s] \in {"run", "work"}
  BY <1>1, <1>4, <1>6
<1>10. Idle'
  BY <1>1, Reducing DEF Idle, fields
<1> QED
  BY <1>1, <1>7, <1>8, <1>9, <1>10, ReduceSame DEF history

\* The heart of it: a value is joined when its thread is done with it, and only then.
LEMMA FanInReduces ==
  ASSUME Base, ReduceInv, m_reduce_join, NEW t \in Thread, FanIn(t)
  PROVE  ReduceInv'
<1> PICK c : c = child[t] - 1
  OBVIOUS
<1>1. /\ pc[t] = "fan" /\ ~ (m_thread_fan[t] >= child[t]) /\ m_control[c] # 1
      /\ child' = [child EXCEPT ![t] = c]
      /\ reduce' = [reduce EXCEPT ![t] = @ \cup reduce[c]]
      /\ joined' = [joined EXCEPT ![c] = @ + 1]
      /\ UNCHANGED <<fields, pool, m_control, m_lock, pc, ending, rank, call, result, calls>>
  BY Reducing DEF FanIn, AllIn, Finished
<1>2. /\ t \in Members /\ ~ (On(t) /\ m_control[t] = 0) /\ FanOK(t) /\ m_thread_fan[t] \in Nat
      /\ TypeOK /\ (t = Main \/ m_control[t] # 0)
  BY <1>1, Worked DEF Barriers, Base
<1>3. child[t] = c + 1 /\ c \in Kids(t)
  <2>1. child[t] \in m_thread_fan[t] .. m_thread_fan[t + 1]
    BY <1>1, <1>2 DEF FanOK
  <2>2. m_thread_fan[t + 1] \in 0 .. MaxThreads /\ MaxThreads \in Nat
    BY <1>2, FanType, PoolAssumption DEF Members
  <2> QED
    BY <1>1, <1>2, <2>1, <2>2 DEF Kids
<1>4. /\ c \in Workers /\ c \in Members /\ c \in Thread /\ t < c
      /\ \A q \in Members : c \in Kids(q) => q = t
  BY <1>2, <1>3, KidsAre
<1>5. /\ \A s \in Thread \ Workers : joined[s] = 0
      /\ \A p \in Members : \A d \in Kids(p) : JoinOK(p, d)
      /\ \A s \in Members : ValueOK(s)
      /\ AllKept
  BY DEF ReduceInv
<1>6. ~ HasJoined(t, c) /\ joined[c] = 0
  <2>1. ~ HasJoined(t, c)
    BY <1>2, <1>3, <1>4 DEF HasJoined, Kids
  <2> QED
    BY <1>2, <1>3, <1>5, <2>1 DEF JoinOK
<1>7. /\ UNCHANGED <<m_work_routine, m_work_count, m_work_count_claim, m_reduce_join, m_control, pc, rank>>
      /\ (Ranked' <=> Ranked) /\ Members' = Members /\ Workers' = Workers
      /\ \A s : RankOf(s)' = RankOf(s) /\ Kids(s)' = Kids(s)
  BY <1>1 DEF Ranked, RankOf, Kids, Members, Workers, pool, fields
<1>8. \A s \in Thread : On(s)' <=> On(s)
  <2>1. pc[Main] \in {"create", "activate"} => child'[Main] = child[Main]
    <3>1. Main \in Thread
      BY Reducing
    <3>2. child \in [Thread -> 0 .. MaxThreads]
      BY <1>2 DEF TypeOK
    <3> QED
      BY <1>1, <3>1, <3>2
  <2> QED
    BY <1>7, <2>1 DEF On, Undoing
<1>9. /\ \A s \in Thread \ {t} : reduce'[s] = reduce[s] /\ child'[s] = child[s]
      /\ reduce'[t] = reduce[t] \cup reduce[c] /\ child'[t] = c
      /\ \A s \in Thread \ {c} : joined'[s] = joined[s]
      /\ joined'[c] = 1
  BY <1>1, <1>2, <1>4, <1>6 DEF TypeOK
<1>10. \A s \in Members : s \in Thread
  BY Reducing
<1>11. ASSUME NEW s \in Members PROVE ValueOK(s)' /\ reduce[s] \subseteq reduce'[s]
  <2>1. Past(s)' <=> Past(s)
    BY <1>7, <1>8, <1>10 DEF Past
  <2>2. ValueOK(s) /\ ValueOK(c)
    BY <1>4, <1>5
  <2>3. CASE s = t
    BY <1>1, <1>7, <1>9, <2>1, <2>2, <2>3 DEF ValueOK, Past
  <2>4. CASE s # t
    BY <1>7, <1>9, <1>10, <2>1, <2>2, <2>4 DEF ValueOK
  <2> QED
    BY <2>3, <2>4
<1>12. AllKept'
  <2>1. \A r : Kept(r) => Kept(r)'
    BY <1>7, <1>11 DEF Kept
  <2> QED
    BY <1>5, <1>7, <2>1 DEF AllKept
<1>13. \A s \in Thread \ Workers' : joined'[s] = 0
  BY <1>4, <1>5, <1>7, <1>9
<1>14. ASSUME NEW p \in Members, NEW d \in Kids(p) PROVE JoinOK(p, d)'
  <2>1. /\ JoinOK(p, d) /\ d \in Thread /\ p \in Thread /\ d \in Workers
        /\ (d = c <=> (p = t /\ d = c))
    BY <1>4, <1>5, <1>10, KidsAre
  <2>2. CASE p # t
    <3>1. HasJoined(p, d)' <=> HasJoined(p, d)
      BY <1>7, <1>8, <1>9, <2>1, <2>2 DEF HasJoined
    <3>2. joined'[d] = joined[d] /\ reduce'[p] = reduce[p]
      BY <1>9, <2>1, <2>2
    <3>3. HasJoined(p, d) => reduce'[d] = reduce[d]
      <4>1. HasJoined(p, d) => m_control[d] = 0
        BY JoinedDone
      <4>2. d # Main
        BY <2>1, Reducing
      <4> QED
        BY <1>2, <1>9, <2>1, <4>1, <4>2
    <3> QED
      BY <2>1, <3>1, <3>2, <3>3 DEF JoinOK
  <2>3. CASE p = t /\ d # c
    <3>1. HasJoined(p, d)' <=> HasJoined(p, d)
      <4>1. c <= d <=> child[t] <= d
        <5>1. d \in Int /\ c \in Int
          BY <1>2, <1>3, <2>3 DEF Kids
        <5> QED
          BY <1>3, <2>3, <5>1
      <4> QED
        BY <1>7, <1>8, <1>9, <2>1, <2>3, <4>1 DEF HasJoined
    <3>2. joined'[d] = joined[d] /\ reduce[p] \subseteq reduce'[p]
      BY <1>9, <2>1, <2>3
    <3>3. d # t
      <4>1. t < d /\ t \in Int
        BY <1>2, <2>3, KidsAre DEF Members
      <4> QED
        BY <4>1
    <3>4. reduce'[d] = reduce[d]
      BY <1>9, <2>1, <3>3
    <3> QED
      BY <2>1, <3>1, <3>2, <3>4 DEF JoinOK
  <2>4. CASE p = t /\ d = c
    <3>1. c # t
      BY <1>2, <1>4 DEF Members
    <3>2. HasJoined(t, c)'
      <4>1. c <= c
        BY <1>2, <1>3 DEF Kids
      <4> QED
        BY <1>1, <1>9, <4>1 DEF HasJoined
    <3> QED
      BY <1>4, <1>9, <2>4, <3>1, <3>2 DEF JoinOK
  <2> QED
    BY <2>2, <2>3, <2>4
<1>15. Idle'
  BY <1>7, Reducing DEF Idle
<1> QED
  BY <1>5, <1>7, <1>11, <1>12, <1>13, <1>14, <1>15 DEF ReduceInv

\* Main goes on without a worker noticing, or activates one.
LEMMA MainReduces ==
  ASSUME Base, Base', ReduceInv, m_reduce_join, TPI_Wait \/ TPI_Unblock \/ Wait \/ Activate
  PROVE  ReduceInv'
<1>1. /\ pc[Main] \in {"app", "wait", "activate"}
      /\ \/ child' = child \/ child' = [child EXCEPT ![Main] = @ - 1]
      /\ \/ pc' = pc /\ pc[Main] = "activate"
         \/ pc' = [pc EXCEPT ![Main] = "app"] \/ pc' = [pc EXCEPT ![Main] = "wait"]
         \/ pc' = [pc EXCEPT ![Main] = "barrier"] \/ pc' = [pc EXCEPT ![Main] = "serial"]
      /\ rank' = rank \/ rank' = [rank EXCEPT ![Main] = 0]
      /\ UNCHANGED <<fields, pool, ending, history>>
  BY DEF TPI_Wait, TPI_Unblock, Wait, Activate, AfterStart, Returns, Goto
<1>2. /\ TypeOK /\ Main \in Members /\ Main \in Thread /\ (\A s \in Members : s \in Thread)
      /\ m_work_routine # NULL /\ ~ Undoing /\ m_thread_count \in Nat
      /\ \A s \in Members : s # Main => s \in Workers
      /\ \A s \in Workers : s # Main /\ s \in Thread /\ s \in Nat
  BY Reducing DEF Base, Workers
<1>3. m_reduce_join' /\ ~ Undoing'
  <2>1. m_reduce_join'
    BY <1>1 DEF fields
  <2> QED
    BY <2>1 DEF Base, MainOK, FieldsOK, Undoing
<1>4. /\ \A s \in Thread \ {Main} : pc'[s] = pc[s] /\ child'[s] = child[s] /\ rank'[s] = rank[s]
      /\ pc[Main] \notin {"fan", "run", "work"} /\ pc'[Main] \notin {"fan", "run", "work", "create"}
      /\ Workers' = Workers /\ Members' = Members
  BY <1>1, <1>2 DEF TypeOK, Workers, Members, pool
<1>5. ASSUME NEW s \in Workers
      PROVE  On(s)' /\ m_control'[s] = 0 <=> On(s) /\ m_control[s] = 0
  <2>1. CASE TPI_Wait \/ TPI_Unblock \/ Wait
    <3>1. /\ m_control' = m_control /\ pc[Main] \in {"app", "wait"}
          /\ pc'[Main] \in {"wait", "barrier", "serial"}
      BY <1>2, <2>1 DEF TPI_Wait, TPI_Unblock, Wait, Goto, TypeOK
    <3> QED
      BY <1>2, <1>3, <1>4, <3>1 DEF On
  <2>2. CASE Activate /\ 1 < child[Main]
    <3> PICK c : c = child[Main] - 1
      OBVIOUS
    <3>1. /\ pc[Main] = "activate" /\ pc' = pc
          /\ m_control' = [m_control EXCEPT ![c] = 1]
          /\ child' = [child EXCEPT ![Main] = c]
      BY <2>2 DEF Activate, NextToActivate
    <3>2. child'[Main] = c /\ child[Main] \in Nat
      <4>1. child[Main] \in 0 .. MaxThreads /\ MaxThreads \in Nat
        BY <1>2, PoolAssumption DEF TypeOK
      <4> QED
        BY <1>2, <3>1, <4>1 DEF TypeOK
    <3>3. CASE s = c
      <4>1. m_control'[s] = 1
        BY <1>2, <3>1, <3>3 DEF TypeOK
      <4>2. ~ On(s)
        BY <1>2, <3>1, <3>2, <3>3 DEF On
      <4> QED
        BY <4>1, <4>2
    <3>4. CASE s # c
      <4>1. m_control'[s] = m_control[s]
        BY <1>2, <3>1, <3>4 DEF TypeOK
      <4>2. child[Main] <= s <=> c <= s
        BY <1>2, <3>2, <3>4
      <4> QED
        BY <1>2, <1>3, <1>4, <3>1, <3>2, <4>1, <4>2 DEF On
    <3> QED
      BY <3>3, <3>4
  <2>3. CASE Activate /\ ~ (1 < child[Main])
    <3>1. /\ pc[Main] = "activate" /\ m_control' = m_control
          /\ pc'[Main] \in {"app", "wait"}
      BY <1>2, <2>3 DEF Activate, AfterStart, Returns, Goto, TypeOK
    <3>2. child[Main] <= s
      <4>1. child[Main] \in 0 .. MaxThreads /\ MaxThreads \in Nat
        BY <1>2, PoolAssumption DEF TypeOK
      <4> QED
        BY <2>3, <4>1 DEF Workers
    <3>3. m_work_routine' # NULL
      BY <1>1, <1>2 DEF fields
    <3> QED
      BY <1>2, <1>3, <1>4, <3>1, <3>2, <3>3 DEF On
  <2> QED
    BY <2>1, <2>2, <2>3
<1>6. ~ On(Main) /\ ~ On(Main)'
  BY <1>2, <1>4 DEF On
<1>7. \A s \in Members : Past(s)' <=> Past(s)
  <2> SUFFICES ASSUME NEW s \in Members PROVE Past(s)' <=> Past(s)
    OBVIOUS
  <2>1. CASE s = Main
    BY <1>4, <1>6, <2>1 DEF Past
  <2>2. CASE s # Main
    BY <1>2, <1>4, <1>5, <2>2 DEF Past
  <2> QED
    BY <2>1, <2>2
<1>8. \A p \in Members : \A c \in Kids(p) : HasJoined(p, c)' <=> HasJoined(p, c)
  <2> SUFFICES ASSUME NEW p \in Members, NEW c \in Kids(p)
               PROVE  HasJoined(p, c)' <=> HasJoined(p, c)
    OBVIOUS
  <2>1. CASE p = Main
    BY <1>4, <1>6, <2>1 DEF HasJoined
  <2>2. CASE p # Main
    BY <1>2, <1>4, <1>5, <2>2 DEF HasJoined
  <2> QED
    BY <2>1, <2>2
<1>9. \A s \in Members : /\ pc[s] = "work" => pc'[s] = "work" /\ rank'[s] = rank[s]
                         /\ pc[s] = "run" => pc'[s] \in {"run", "work"}
  BY <1>2, <1>4
<1>10. Idle'
  BY <1>1, <1>2 DEF Idle, fields
<1> QED
  BY <1>1, <1>7, <1>8, <1>9, <1>10, ReduceSame DEF history

\* At the start of a call every value is empty.
LEMMA StartReduces ==
  ASSUME Base, ReduceInv, pc[Main] = "app", m_work_routine = NULL,
         NEW name, NEW threads, NEW routine, NEW count \in Nat, NEW join,
         local_start(name, threads, routine, count, join),
         UNCHANGED <<pool, m_control, ending, rank>>
  PROVE  ReduceInv'
<1>1. /\ TypeOK /\ ~ m_reduce_join /\ ~ Undoing /\ Quiet
      /\ Main \in Thread /\ Main \notin Worker
  BY QuietBefore, PoolAssumption DEF Base, FieldsOK, Undoing, Main, Thread, Worker
<1>2. /\ calls' = calls /\ reduce' = reduce /\ joined' = joined /\ joined = [t \in Thread |-> 0]
      /\ calls = [r \in Ranks |-> 0] /\ reduce = [t \in Thread |-> {}]
  BY <1>1 DEF local_start, history, ReduceInv, Idle
<1>3. Idle'
  BY <1>2 DEF Idle
<1>4. CASE ~ m_reduce_join'
  BY <1>1, <1>2, <1>3, <1>4, NoReduction
<1>5. CASE m_reduce_join'
  <2>1. /\ 1 < m_thread_count
        /\ m_work_count' = count /\ m_work_count_claim' = count
        /\ child'[Main] = m_thread_count /\ pc' = [pc EXCEPT ![Main] = "activate"]
        /\ UNCHANGED <<m_thread_count, m_thread_fan, m_control>>
    BY <1>1, <1>5 DEF local_start, Goto, TypeOK, pool
  <2>2. /\ pc'[Main] = "activate" /\ (\A s \in Thread \ {Main} : pc'[s] = pc[s])
        /\ Workers' = Workers /\ Members' = Members /\ (\A s : Kids(s)' = Kids(s))
    BY <1>1, <2>1 DEF TypeOK, Workers, Members, Kids
  <2>3. m_thread_count \in 0 .. MaxThreads /\ MaxThreads \in Nat
    BY <1>1, PoolAssumption DEF TypeOK
  <2>4. TreeShape(m_thread_count)
    BY <1>1, <2>1, <2>3 DEF Base, TreeInv
  <2>5. \A s \in Members : s \in Thread /\ (s # Main => s \in Worker /\ s \in Workers)
    BY <2>3 DEF Members, Thread, Worker, Workers, Main
  <2>6. \A s : ~ On(s)'
    <3> SUFFICES ASSUME NEW s, On(s)' PROVE FALSE
      OBVIOUS
    <3>1. s \in Workers /\ m_thread_count <= s
      BY <2>1, <2>2 DEF On
    <3> QED
      BY <2>3, <3>1 DEF Workers
  <2>7. \A s \in Members : pc'[s] \in {"activate", "spin"}
    <3> SUFFICES ASSUME NEW s \in Members, s # Main PROVE pc'[s] = "spin"
      BY <2>2
    <3> QED
      BY <1>1, <2>2, <2>5 DEF Quiet, Parked
  <2>8. \A s \in Members' : ValueOK(s)'
    BY <1>2, <2>2, <2>5, <2>6, <2>7 DEF ValueOK, Past
  <2>9. \A p \in Members' : \A c \in Kids(p)' : JoinOK(p, c)'
    <3> SUFFICES ASSUME NEW p \in Members, NEW c \in Kids(p) PROVE JoinOK(p, c)'
      BY <2>2
    <3>1. c \in Thread
      BY <1>1, <2>4, KidsIn
    <3>2. ~ HasJoined(p, c)'
      BY <2>6, <2>7 DEF HasJoined
    <3> QED
      BY <1>2, <3>1, <3>2 DEF JoinOK
  <2>10. AllKept'
    BY <2>1, NoneBelow DEF AllKept
  <2>11. \A t \in Thread \ Workers' : joined'[t] = 0
    BY <1>2
  <2> QED
    BY <1>3, <1>5, <2>8, <2>9, <2>10, <2>11 DEF ReduceInv
<1> QED
  BY <1>4, <1>5

\* All calls that start something.
LEMMA AppReduces ==
  ASSUME Base, ReduceInv, Start \/ TPI_Block \/ TPI_Finalize
  PROVE  ReduceInv'
<1>1. m_thread_count \in Nat /\ WorkCounts \subseteq Nat
  <2>1. m_thread_count \in 0 .. MaxThreads /\ MaxThreads \in Nat
    BY PoolAssumption DEF Base, TypeOK
  <2> QED
    BY <2>1, PoolAssumption
<1>2. AtLeastOne(m_thread_count) \in Nat /\ AtLeastOne(m_thread_count - 1) \in Nat
  BY <1>1 DEF AtLeastOne
<1>3. /\ pc[Main] = "app" /\ m_work_routine = NULL /\ UNCHANGED <<pool, m_control, ending, rank>>
      /\ \E name, threads, routine, join : \E count \in Nat :
           local_start(name, threads, routine, count, join)
  <2>1. CASE Start
    <3>1. ASSUME NEW count \in WorkCounts,
                 TPI_Run(count) \/ TPI_Run_reduce(count) \/ TPI_Start(count) \/ TPI_Start_reduce(count)
          PROVE  /\ CanStart
                 /\ \E name, threads, routine, join : \E n \in Nat :
                      local_start(name, threads, routine, n, join)
      BY <1>1, <3>1, Zenon DEF TPI_Run, TPI_Run_reduce, TPI_Start, TPI_Start_reduce
    <3>2. CASE TPI_Run_threads \/ TPI_Run_threads_reduce \/ TPI_Start_threads \/ TPI_Start_threads_reduce
      <4>1. /\ CanStart
            /\ \E name, threads, routine, join : \E n \in Nat :
                 local_start(name, threads, routine, n, join)
        BY <1>2, <3>2, Zenon
           DEF TPI_Run_threads, TPI_Run_threads_reduce, TPI_Start_threads,
               TPI_Start_threads_reduce
      <4> QED
        BY <2>1, <4>1 DEF Start, CanStart
    <3> QED
      BY <2>1, <3>1, <3>2 DEF Start, CanStart
  <2>2. CASE TPI_Block
    BY <1>1, <2>2, Zenon DEF TPI_Block, CanStart
  <2>3. CASE TPI_Finalize
    <3>1. 0 \in Nat
      OBVIOUS
    <3> QED
      BY <2>3, <3>1, Zenon DEF TPI_Finalize, CanStart
  <2> QED
    BY <2>1, <2>2, <2>3
<1>4. PICK name, threads, routine, join : \E count \in Nat :
           local_start(name, threads, routine, count, join)
  BY <1>3
<1>5. PICK count \in Nat : local_start(name, threads, routine, count, join)
  BY <1>4
<1> QED
  BY <1>3, <1>5, StartReduces

\* The steps that start, end or undo the pool, and those of a pool without workers.
LEMMA OtherReduces ==
  ASSUME Base, ReduceInv,
         \/ RunSerial \/ Reset \/ Create \/ CreateFails \/ Created \/ Started
         \/ Undo \/ UndoActivate \/ UndoWait
         \/ \E n \in 1 .. MaxThreads : TPI_Init(n)
  PROVE  ReduceInv'
<1>1. CASE Reset
  BY <1>1, NoReduction DEF Reset, ClearHistory, Idle
<1>2. CASE RunSerial
  <2>1. TypeOK /\ MainOK /\ FieldsOK /\ SerialInv /\ pc[Main] = "serial"
    BY <1>2 DEF Base, RunSerial
  <2>2. m_thread_count <= 1 /\ ~ m_reduce_join
    BY <2>1 DEF MainOK, FieldsOK
  <2>3. m_work_routine # NULL
    <3>1. rank[Main] \in 0 .. m_work_count /\ rank[Main] < m_work_count
      BY <1>2, <2>1 DEF RunSerial, SerialInv
    <3>2. m_work_count # 0
      BY <3>1
    <3> QED
      BY <2>1, <3>2 DEF FieldsOK
  <2>4. joined' = joined /\ m_work_routine' = m_work_routine /\ m_reduce_join' = m_reduce_join
    BY <1>2 DEF RunSerial, fields
  <2> QED
    BY <2>2, <2>3, <2>4, NoReduction DEF Idle
<1>3. CASE \/ Create \/ CreateFails \/ Created \/ Started \/ Undo \/ UndoActivate \/ UndoWait
           \/ \E n \in 1 .. MaxThreads : TPI_Init(n)
  <2>1. UNCHANGED <<fields, history>>
    BY <1>3 DEF Create, CreateFails, Created, Started, Undo, UndoActivate, UndoWait, TPI_Init
  <2>2. ~ m_reduce_join
    <3>1. CASE \E n \in 1 .. MaxThreads : TPI_Init(n)
      BY <3>1 DEF TPI_Init, CanStart, Base, FieldsOK
    <3>2. CASE Create \/ CreateFails \/ Created \/ Undo \/ UndoActivate \/ UndoWait
      BY <3>2, Reducing DEF Create, CreateFails, Created, Undo, UndoActivate, UndoWait
    <3>3. CASE Started
      BY <3>3, Reducing DEF Started, Starting, Barriers
    <3> QED
      BY <1>3, <3>1, <3>2, <3>3
  <2> QED
    BY <2>1, <2>2, NoReduction DEF Idle, fields, history, ReduceInv
<1> QED
  BY <1>1, <1>2, <1>3

\* The steps of the threads when there is no reduction.
LEMMA ThreadsIdle ==
  ASSUME Base, ReduceInv, ~ m_reduce_join, NEW t \in Thread,
         \/ Barrier(t) \/ RunRanked(t) \/ RunClaimed(t) \/ EndWork(t) \/ FanIn(t)
         \/ Done(t) \/ Activated(t) \/ Loop(t)
  PROVE  ReduceInv'
<1>1. /\ UNCHANGED <<m_work_routine, m_reduce_join, joined>>
      /\ m_work_routine = NULL => UNCHANGED <<calls, reduce>>
  <2>1. CASE Barrier(t) \/ FanIn(t)
    BY <2>1 DEF Barrier, FanIn, fields
  <2>2. CASE RunRanked(t) \/ RunClaimed(t) \/ EndWork(t)
    <3>1. m_work_routine # NULL
      BY <2>2, InBarrier DEF RunRanked, RunClaimed, EndWork, Barriers
    <3> QED
      BY <2>2, <3>1 DEF RunRanked, RunClaimed, EndWork, fields
  <2>3. CASE Done(t) \/ Activated(t) \/ Loop(t)
    BY <2>3 DEF Done, Activated, Loop, fields, history
  <2> QED
    BY <2>1, <2>2, <2>3
<1>2. Idle'
  BY <1>1 DEF ReduceInv, Idle
<1> QED
  BY <1>1, <1>2, NoReduction

\* Every step keeps what is known of the reduction.
LEMMA ReduceStep == Base /\ ReduceInv /\ [Next]_vars => ReduceInv'
<1> SUFFICES ASSUME Base, ReduceInv, [Next]_vars PROVE ReduceInv'
  OBVIOUS
<1>1. Base'
  BY NextKeeps
<1>2. CASE Refused \/ UNCHANGED vars
  <2>1. UNCHANGED <<fields, pool, m_control, pc, child, rank, history>>
    BY <1>2 DEF Refused, vars
  <2> QED
    BY <2>1 DEF ReduceInv, Idle, JoinOK, ValueOK, AllKept, Kept, HasJoined, Past, On, Ranked,
                RankOf,
                Members, Workers, Kids, Undoing, fields, pool, history
<1>3. CASE Start \/ TPI_Block \/ TPI_Finalize
  BY <1>3, AppReduces
<1>4. CASE \/ RunSerial \/ Reset \/ Create \/ CreateFails \/ Created \/ Started
           \/ Undo \/ UndoActivate \/ UndoWait
           \/ \E n \in 1 .. MaxThreads : TPI_Init(n)
  BY <1>4, OtherReduces
<1>5. CASE TPI_Wait \/ TPI_Unblock \/ Wait \/ Activate
  <2>1. CASE m_reduce_join
    BY <1>1, <1>5, <2>1, MainReduces
  <2>2. CASE ~ m_reduce_join
    <3>1. UNCHANGED <<fields, history>>
      BY <1>5 DEF TPI_Wait, TPI_Unblock, Wait, Activate
    <3> QED
      BY <2>2, <3>1, NoReduction DEF Idle, fields, history, ReduceInv
  <2> QED
    BY <2>1, <2>2
<1>6. ASSUME NEW t \in Thread, Barrier(t) \/ RunRanked(t) \/ RunClaimed(t) \/ EndWork(t) \/ FanIn(t)
      PROVE  ReduceInv'
  BY <1>6, ThreadsIdle, BarrierReduces, RunReduces, EndWorkReduces, FanInReduces
<1>7. ASSUME NEW t \in Thread, t # Main, Done(t) \/ Activated(t) \/ Loop(t)
      PROVE  ReduceInv'
  BY <1>7, ThreadsIdle, DoneReduces, LoopReduces
<1> QED
  BY <1>2, <1>3, <1>4, <1>5, <1>6, <1>7 DEF Next, App, Step

\* Both invariants hold in every reachable state.
LEMMA ReduceInductive == Spec => [](Base /\ ReduceInv)
<1>1. Init => ReduceInv
  BY DEF Init, ReduceInv, Idle
<1> QED
  BY InitKeeps, NextKeeps, ReduceStep, <1>1, PTL DEF Spec

\* Every worker has a parent in the tree.
LEMMA ParentOf ==
  ASSUME Base, m_reduce_join, NEW w \in Workers
  PROVE  \E p \in Members : w \in Kids(p) /\ p < w
<1>1. /\ m_thread_count \in 0 .. MaxThreads /\ MaxThreads \in Nat /\ m_thread_count > 1
      /\ TreeShape(m_thread_count)
  BY Reducing
<1> PICK n \in Nat \ {0} : n = m_thread_count
  BY <1>1
<1>2. \A s \in 0 .. n : m_thread_fan[s] \in Nat
  <2>1. m_thread_fan \in [0 .. MaxThreads -> 0 .. MaxThreads]
    BY DEF Base, TypeOK
  <2> QED
    BY <1>1, <2>1
<1>3. w \in 1 .. n - 1
  BY DEF Workers
<1>4. PICK p \in 0 .. w - 1 : w \in m_thread_fan[p] .. m_thread_fan[p + 1] - 1
  <2>1. /\ m_thread_fan[0] = 1 /\ m_thread_fan[n] = n
        /\ \A t \in 0 .. n - 1 : t < m_thread_fan[t]
    BY <1>1 DEF TreeShape
  <2> QED
    BY <1>2, <1>3, <2>1, HasParent
<1> QED
  BY <1>3, <1>4 DEF Kids, Members

\* A worker whose value was joined is parked.
LEMMA JoinedParked ==
  ASSUME Base, ReduceInv, NEW t \in Worker, joined[t] > 0
  PROVE  pc[t] = "spin" /\ m_control[t] = 0
<1>1. t \in Thread /\ joined[t] # 0
  BY DEF Worker
<1>2. m_reduce_join
  BY <1>1 DEF ReduceInv
<1>3. t \in Workers
  BY <1>1, <1>2 DEF ReduceInv
<1>4. PICK p \in Members : t \in Kids(p)
  BY <1>2, <1>3, ParentOf
<1>5. HasJoined(p, t)
  BY <1>1, <1>2, <1>4 DEF ReduceInv, JoinOK
<1>6. m_control[t] = 0
  BY <1>2, <1>4, <1>5, JoinedDone
<1>7. ~ Starting /\ ~ Ending /\ (IF On(t) THEN OnOK(t) ELSE Parked(t))
  BY <1>2, <1>3, Reducing
<1> QED
  BY <1>6, <1>7 DEF OnOK, Parked, Called, Meets, Runs

\* When main has joined its children, every thread has run its work.
LEMMA AllPast ==
  ASSUME Base, pc[Main] = "fan", AllIn(Main)
  PROVE  \A t \in Members : Past(t) /\ (t # Main => t \in Workers /\ On(t) /\ m_control[t] = 0)
<1>1. ~ Undoing /\ m_thread_count \in Nat
  <2>1. m_thread_count \in 0 .. MaxThreads /\ MaxThreads \in Nat
    BY PoolAssumption DEF Base, TypeOK
  <2> QED
    BY <2>1 DEF Undoing
<1> SUFFICES ASSUME NEW t \in Members, t # Main
             PROVE  t \in Workers /\ On(t) /\ m_control[t] = 0
  BY DEF Past
<1>2. t \in Workers
  BY <1>1 DEF Members, Workers, Main
<1> QED
  BY <1>1, <1>2, AllDone DEF On

\* At the end of a run, every rank of it has been called.
LEMMA AllCalled ==
  ASSUME Base, m_work_routine # NULL, NEW r \in 0 .. m_work_count - 1,
         \/ pc[Main] = "fan" /\ AllIn(Main)
         \/ pc[Main] = "serial" /\ rank[Main] >= m_work_count
  PROVE  calls[r] > 0
<1>1. TypeOK /\ MainOK /\ FieldsOK /\ SerialInv /\ RankInv
  BY DEF Base
<1>2. /\ m_work_count \in Nat /\ m_thread_count \in Nat
      /\ m_work_thread_count \in Int /\ m_work_count_claim \in Int
  <2>1. /\ m_thread_count \in 0 .. MaxThreads /\ MaxThreads \in Nat /\ MaxWork \in Nat
        /\ m_work_count \in 0 .. MaxWork /\ m_work_thread_count \in -1 .. MaxThreads
        /\ m_work_count_claim \in -MaxThreads .. MaxWork
    BY <1>1, PoolAssumption, MaxWorkIs DEF TypeOK
  <2> QED
    BY <2>1
<1>3. CASE pc[Main] = "serial" /\ rank[Main] >= m_work_count
  BY <1>1, <1>2, <1>3 DEF SerialInv
<1>4. CASE pc[Main] = "fan" /\ AllIn(Main)
  <2>1. m_thread_count > 1
    <3>1. call # "TPI_Init"
      BY <1>1, <1>4 DEF MainOK, Starting, Barriers
    <3> QED
      BY <1>1, <1>4, <3>1 DEF MainOK
  <2>2. (\A t \in Members : RankOK(t)) /\ ClaimOK
    BY <1>1, <2>1 DEF RankInv
  <2>3. \A t \in Members : Past(t)
    BY <1>4, AllPast
  <2>4. CASE Ranked
    <3> DEFINE t == m_thread_count - 1 - r
    <3>1. m_work_count <= m_work_thread_count /\ m_work_thread_count <= m_thread_count
      BY <1>1, <2>4 DEF Ranked, FieldsOK
    <3>2. r \in Nat /\ r < m_work_count /\ r < m_thread_count
      BY <1>2, <3>1
    <3>3. t \in Members /\ RankOf(t) = r
      BY <1>2, <3>2 DEF Members, RankOf
    <3>4. RankOK(t) /\ Past(t)
      BY <2>2, <2>3, <3>3
    <3> QED
      BY <2>4, <3>2, <3>3, <3>4 DEF RankOK
  <2>5. CASE ~ Ranked
    <3>1. Main \in Members
      BY <2>1, <1>2 DEF Main, Members
    <3>2. m_work_count_claim <= 0
      BY <2>2, <2>3, <2>5, <3>1 DEF RankOK
    <3>3. r < m_work_count - m_work_count_claim
      BY <1>2, <3>2
    <3> QED
      BY <2>2, <2>5, <3>3 DEF ClaimOK
  <2> QED
    BY <2>4, <2>5
<1> QED
  BY <1>3, <1>4

\* When main has joined its children, every value is joined once and the root has it all.
LEMMA AllGathered ==
  ASSUME Base, ReduceInv, m_reduce_join, pc[Main] = "fan", AllIn(Main)
  PROVE  /\ \A t \in Workers : joined[t] = 1
         /\ reduce[Main] = 0 .. m_work_count - 1
<1>1. /\ \A p \in Members : \A c \in Kids(p) : JoinOK(p, c)
      /\ \A t \in Members : ValueOK(t)
      /\ AllKept
  BY DEF ReduceInv
<1>2. /\ Main \in Members /\ FanOK(Main) /\ m_thread_fan[Main] \in Nat /\ Main = 0
      /\ m_thread_count \in 0 .. MaxThreads /\ MaxThreads \in Nat /\ TypeOK
      /\ \A t \in Members : t # Main => t \in Workers
  BY Reducing DEF Main, Base
<1>3. ASSUME NEW p \in Members, NEW c \in Kids(p) PROVE HasJoined(p, c)
  <2>1. CASE p = Main
    <3>1. m_thread_fan[p] >= child[p] /\ c \in m_thread_fan[p] .. m_thread_fan[p + 1] - 1
      BY <2>1 DEF AllIn, Kids
    <3>2. child[p] \in Nat
      <4>1. child[Main] \in 0 .. MaxThreads
        BY <1>2, Reducing DEF TypeOK
      <4> QED
        BY <1>2, <2>1, <4>1
    <3> QED
      BY <1>2, <2>1, <3>1, <3>2 DEF HasJoined
  <2>2. CASE p # Main
    BY <2>2, AllPast DEF HasJoined
  <2> QED
    BY <2>1, <2>2
<1>4. ASSUME NEW w \in Workers PROVE joined[w] = 1
  BY <1>1, <1>3, ParentOf DEF JoinOK
<1> DEFINE Left == {w \in Workers : ~ (reduce[w] \subseteq reduce[Main])}
<1>5. Left = {}
  <2> SUFFICES ASSUME Left # {} PROVE FALSE
    OBVIOUS
  <2>1. Left \in SUBSET Nat
    BY <1>2 DEF Workers
  <2>2. PICK w \in Left : \A v \in Left : w <= v
    BY <2>1, Least
  <2>3. PICK p \in Members : w \in Kids(p) /\ p < w
    BY ParentOf
  <2>4. reduce[w] \subseteq reduce[p]
    BY <1>1, <1>3, <2>3 DEF JoinOK
  <2>5. CASE p = Main
    BY <2>4, <2>5
  <2>6. CASE p # Main
    <3>1. p \in Workers
      BY <1>2, <2>6
    <3>2. ~ (w <= p)
      BY <2>1, <2>3 DEF Members
    <3>3. p \notin Left
      BY <2>2, <3>2
    <3> QED
      BY <2>4, <3>1, <3>3
  <2> QED
    BY <2>5, <2>6
<1>6. \A t \in Members : reduce[t] \subseteq reduce[Main]
  BY <1>2, <1>5
<1>7. \A t \in Members : Past(t) /\ pc[t] # "work"
  <2> SUFFICES ASSUME NEW t \in Members PROVE Past(t) /\ pc[t] # "work"
    OBVIOUS
  <2>1. CASE t = Main
    BY <2>1 DEF Past
  <2>2. CASE t # Main
    <3>1. t \in Workers /\ On(t) /\ m_control[t] = 0 /\ Past(t)
      BY <2>2, AllPast
    <3>2. OnOK(t) /\ ~ Starting /\ ~ Ending
      BY <3>1, Reducing
    <3> QED
      BY <3>1, <3>2 DEF OnOK, Parked, Called, Meets, Runs
  <2> QED
    BY <2>1, <2>2
<1>8. ASSUME NEW r \in 0 .. m_work_count - 1 PROVE r \in reduce[Main]
  <2>1. /\ m_work_count \in Nat /\ m_thread_count \in Nat
        /\ m_work_thread_count \in Int /\ m_work_count_claim \in Int
    <3>1. /\ MaxWork \in Nat
          /\ m_work_count \in 0 .. MaxWork /\ m_work_thread_count \in -1 .. MaxThreads
          /\ m_work_count_claim \in -MaxThreads .. MaxWork
      BY <1>2, MaxWorkIs DEF TypeOK
    <3> QED
      BY <1>2, <3>1
  <2>2. CASE Ranked
    <3> DEFINE t == m_thread_count - 1 - r
    <3>1. m_work_count <= m_work_thread_count /\ m_work_thread_count <= m_thread_count
      BY <2>2 DEF Ranked, FieldsOK, Base
    <3>2. r \in Nat /\ r < m_work_count /\ r < m_thread_count
      BY <2>1, <3>1
    <3>3. t \in Members /\ RankOf(t) = r
      BY <2>1, <3>2 DEF Members, RankOf
    <3>4. r \in reduce[t]
      BY <1>1, <1>7, <2>2, <3>2, <3>3 DEF ValueOK
    <3> QED
      BY <1>6, <3>3, <3>4
  <2>3. CASE ~ Ranked
    <3>1. RankOK(Main) /\ Past(Main)
      BY <1>2, <1>7, Reducing
    <3>2. m_work_count_claim <= 0
      BY <2>3, <3>1 DEF RankOK
    <3>3. r < m_work_count - m_work_count_claim
      BY <2>1, <3>2
    <3>4. Kept(r)
      BY <1>1, <2>3, <3>3 DEF AllKept
    <3> QED
      BY <1>6, <1>7, <3>4 DEF Kept
  <2> QED
    BY <2>2, <2>3
<1>9. reduce[Main] \subseteq 0 .. m_work_count - 1
  BY <1>1, <1>2 DEF ValueOK
<1> QED
  BY <1>4, <1>8, <1>9

\* "Every initialized reduce value will appear exactly once" (TPI.h:104-105): at the end of a
\* reduction each worker's value was joined once and the value of the root has the ranks of the
\* work, all of them; and a worker whose value was joined is parked until the next call.
THEOREM ReducedOnce == Spec => []ReduceOnce
<1>1. ASSUME Base, ReduceInv PROVE ReduceOnce
  <2>1. \A t \in Worker : joined[t] > 0 => pc[t] = "spin" /\ m_control[t] = 0
    BY <1>1, JoinedParked
  <2>2. ASSUME RunOver, m_reduce_join
        PROVE  (\A t \in Workers : joined[t] = 1) /\ reduce[Main] = 0 .. m_work_count - 1
    <3>1. pc[Main] # "serial"
      BY <1>1, <2>2, Reducing
    <3>2. pc[Main] = "fan" /\ AllIn(Main)
      BY <2>2, <3>1 DEF RunOver
    <3> QED
      BY <1>1, <2>2, <3>2, AllGathered
  <2> QED
    BY <2>1, <2>2, Zenon DEF ReduceOnce
<1> QED
  BY <1>1, ReduceInductive, PTL

-----------------------------------------------------------------------------
(* No rank is called twice. *)

\* A member of the pool whose subprogram, if it has one, was called.
RanThrough(t) == pc[t] = "work" \/ Past(t)

\* The call of this rank is still to come, if there is one at all.
Unrun(r) ==
  IF m_work_routine = NULL THEN TRUE
  ELSE IF m_thread_count <= 1 THEN pc[Main] = "serial" => r >= rank[Main]
  ELSE IF Ranked THEN \A t \in Members : RankOf(t) = r => ~ RanThrough(t)
  ELSE r >= m_work_count - m_work_count_claim

CallsInv ==
  \A r \in Ranks : calls[r] \in {0, 1} /\ (Unrun(r) => calls[r] = 0)

LEMMA CallsKept ==
  ASSUME CallsInv, calls' = calls, \A r \in Ranks : Unrun(r)' => Unrun(r)
  PROVE  CallsInv'
BY DEF CallsInv

\* One rank is called, and was not called before.
CallsOne ==
  \E r \in 0 .. m_work_count - 1 : calls[r] = 0 /\ calls' = [calls EXCEPT ![r] = 1]

LEMMA CallsRank ==
  ASSUME Base, CallsInv, NEW r \in 0 .. m_work_count - 1, Unrun(r), ~ Unrun(r)',
         calls' = [calls EXCEPT ![r] = @ + 1],
         \A q \in Ranks : q # r /\ Unrun(q)' => Unrun(q)
  PROVE  CallsInv' /\ CallsOne
<1>1. r \in Ranks /\ calls \in [Ranks -> Nat]
  <2>1. m_work_count \in 0 .. MaxWork /\ MaxWork \in Nat /\ calls \in [Ranks -> Nat]
    BY MaxWorkIs DEF Base, TypeOK
  <2> QED
    BY <2>1 DEF Ranks
<1>2. calls[r] = 0
  BY <1>1 DEF CallsInv
<1>3. calls' = [calls EXCEPT ![r] = 1]
  BY <1>1, <1>2
<1>4. CallsInv'
  <2> SUFFICES ASSUME NEW q \in Ranks PROVE calls'[q] \in {0, 1} /\ (Unrun(q)' => calls'[q] = 0)
    BY DEF CallsInv
  <2>1. CASE q = r
    BY <1>1, <1>3, <2>1
  <2>2. CASE q # r
    BY <1>1, <1>3, <2>2 DEF CallsInv
  <2> QED
    BY <2>1, <2>2
<1> QED
  BY <1>2, <1>3, <1>4 DEF CallsOne

\* What a thread of the pool does while a subprogram runs.
ThreadStep(t) ==
  \/ Barrier(t) \/ RunRanked(t) \/ RunClaimed(t) \/ EndWork(t) \/ FanIn(t)
  \/ (t # Main /\ (Done(t) \/ Activated(t) \/ Loop(t)))

LEMMA Running ==
  ASSUME Base, m_work_routine # NULL
  PROVE  /\ TypeOK /\ ~ Undoing /\ ~ Starting /\ ~ Ending /\ Main \in Thread
         /\ m_thread_count \in 0 .. MaxThreads /\ MaxThreads \in Nat
         /\ m_work_count \in Nat /\ m_work_thread_count \in Int /\ m_work_count_claim \in Int
         /\ m_work_count_claim <= m_work_count /\ (\A s \in Members : s \in Thread)
<1>1. TypeOK /\ MainOK /\ FieldsOK
  BY DEF Base
<1>2. /\ m_thread_count \in 0 .. MaxThreads /\ MaxThreads \in Nat /\ MaxWork \in Nat
      /\ m_work_count \in 0 .. MaxWork /\ m_work_thread_count \in -1 .. MaxThreads
      /\ m_work_count_claim \in -MaxThreads .. MaxWork
  BY <1>1, PoolAssumption, MaxWorkIs DEF TypeOK
<1>3. ~ Undoing /\ ~ Starting /\ ~ Ending
  BY <1>1 DEF MainOK
<1>4. Main \in Thread /\ \A s \in Members : s \in Thread
  BY <1>2, PoolAssumption DEF Members, Thread, Main
<1>5. m_work_count_claim <= m_work_count
  BY <1>1 DEF FieldsOK
<1> QED
  BY <1>1, <1>2, <1>3, <1>4, <1>5

LEMMA ThreadLocal ==
  ASSUME Base, m_work_routine # NULL, NEW t \in Thread, ThreadStep(t)
  PROVE  Local(t)
<1>1. TypeOK /\ Main \in Thread
  BY Running
<1>2. CASE Barrier(t)
  BY <1>1, <1>2 DEF Barrier, Goto, Local, TypeOK, fields, Barriers
<1>3. CASE RunRanked(t) \/ RunClaimed(t)
  <2>1. /\ pc[t] = "run"
        /\ UNCHANGED <<m_work_routine, m_work_count, m_work_thread_count, m_reduce_join, pool,
                       m_control, m_lock, ending, child, call, result>>
        /\ pc' = [pc EXCEPT ![t] = "work"] \/ pc' = [pc EXCEPT ![t] = "fan"]
        /\ calls' = calls \/ \E r : calls' = [calls EXCEPT ![r] = @ + 1]
        /\ rank' = rank \/ \E r : rank' = [rank EXCEPT ![t] = r]
    BY <1>3 DEF RunRanked, RunClaimed, Begin, Goto, fields
  <2>2. \A r \in Ranks : calls[r] > 0 => calls'[r] > 0
    <3>1. CASE calls' = calls
      BY <3>1
    <3>2. ASSUME NEW q, calls' = [calls EXCEPT ![q] = @ + 1]
          PROVE  \A r \in Ranks : calls[r] > 0 => calls'[r] > 0
      <4> SUFFICES ASSUME NEW r \in Ranks, calls[r] > 0 PROVE calls'[r] > 0
        OBVIOUS
      <4>1. calls \in [Ranks -> Nat] /\ calls[r] \in Nat
        BY <1>1 DEF TypeOK
      <4>2. calls'[r] = calls[r] \/ calls'[r] = calls[r] + 1
        BY <3>2, <4>1
      <4> QED
        BY <4>1, <4>2
    <3> QED
      BY <2>1, <3>1, <3>2
  <2>3. /\ pc'[t] \in {"work", "fan"}
        /\ \A s \in Thread \ {t} : UNCHANGED <<pc[s], child[s], rank[s], m_control[s]>>
    BY <1>1, <2>1 DEF TypeOK
  <2> QED
    BY <2>1, <2>2, <2>3 DEF Local, Barriers
<1>4. CASE EndWork(t)
  BY <1>1, <1>4 DEF EndWork, Goto, Local, TypeOK, fields, Barriers
<1>5. CASE FanIn(t)
  BY <1>1, <1>5 DEF FanIn, Local, TypeOK, fields, Barriers
<1>6. CASE t # Main /\ Done(t)
  BY <1>1, <1>6 DEF Done, Deactivate, ClearLocals, Goto, Local, TypeOK, fields, history
<1>7. CASE t # Main /\ (Activated(t) \/ Loop(t))
  BY <1>1, <1>7 DEF Activated, Loop, Goto, Local, TypeOK, fields, history
<1> QED
  BY <1>2, <1>3, <1>4, <1>5, <1>6, <1>7 DEF ThreadStep

\* Nobody in the barrier is past, but for who is in the fan-in.
LEMMA NotPast ==
  ASSUME Base, NEW t \in Thread, pc[t] \in Barriers
  PROVE  ~ (On(t) /\ m_control[t] = 0)
BY InBarrier, MainOff

\* Who has run through stays so until the run ends.
LEMMA RanStays ==
  ASSUME Base, m_work_routine # NULL, NEW t \in Thread, ThreadStep(t), RanThrough(t), Ranked
  PROVE  RanThrough(t)'
<1>1. TypeOK /\ ~ Undoing /\ ~ Starting /\ ~ Ending
  BY Running
<1>2. On(t)' <=> On(t)
  BY ThreadLocal, LocalMain
<1>3. CASE Barrier(t) \/ RunRanked(t) \/ RunClaimed(t)
  <2>1. pc[t] \in {"barrier", "run"}
    BY <1>3 DEF Barrier, RunRanked, RunClaimed
  <2> QED
    BY <2>1, NotPast DEF RanThrough, Past, Barriers
<1>4. CASE EndWork(t)
  BY <1>1, <1>4 DEF EndWork, Goto, RanThrough, Past, Ranked, TypeOK
<1>5. CASE FanIn(t)
  BY <1>5 DEF FanIn, RanThrough, Past
<1>6. CASE t # Main /\ Done(t)
  <2>1. pc[t] = "fan" /\ m_control'[t] = 0
    BY <1>1, <1>6 DEF Done, Deactivate, TypeOK
  <2>2. On(t)
    BY <1>1, <1>6, <2>1, InBarrier DEF Barriers
  <2> QED
    BY <1>2, <2>1, <2>2 DEF RanThrough, Past
<1>7. CASE t # Main /\ (Activated(t) \/ Loop(t))
  <2>1. pc[t] \in {"spin", "active"} /\ (pc[t] = "spin" => m_control[t] # 0)
    BY <1>7 DEF Activated, Loop
  <2>2. t \in Worker /\ WorkerOK(t)
    BY <1>7, MainOff DEF Base, WorkersOK
  <2>3. m_control[t] # 0
    BY <1>1, <2>1, <2>2 DEF WorkerOK, OnOK, OffOK, Gone, Parked, Called, Meets, Runs
  <2> QED
    BY <2>1, <2>3 DEF RanThrough, Past
<1> QED
  BY <1>3, <1>4, <1>5, <1>6, <1>7 DEF ThreadStep

\* A step of a thread makes no rank one that is still to come.
LEMMA UnrunKept ==
  ASSUME Base, m_work_routine # NULL, NEW t \in Thread, ThreadStep(t),
         NEW r \in Ranks, Unrun(r)'
  PROVE  Unrun(r)
<1>1. /\ Local(t) /\ TypeOK /\ Main \in Thread /\ m_work_count \in Nat
      /\ m_work_count_claim \in Int /\ \A s \in Members : s \in Thread
  BY Running, ThreadLocal
<1>2. /\ UNCHANGED <<m_work_routine, m_work_count, m_work_thread_count, m_thread_count>>
      /\ Members' = Members /\ (\A s \in Thread : On(s)' <=> On(s))
      /\ (Ranked' <=> Ranked) /\ \A s : RankOf(s)' = RankOf(s)
  BY <1>1, LocalMain DEF Local, pool, Ranked, RankOf
<1>3. CASE m_thread_count <= 1
  <2>1. pc[Main] = "serial" => pc'[Main] = "serial" /\ rank'[Main] = rank[Main]
    BY <1>1 DEF Local, Barriers
  <2> QED
    BY <1>2, <1>3, <2>1 DEF Unrun
<1>4. CASE ~ (m_thread_count <= 1) /\ Ranked
  <2> SUFFICES ASSUME NEW s \in Members, RankOf(s) = r, RanThrough(s) PROVE FALSE
    BY <1>4 DEF Unrun
  <2>1. ~ RanThrough(s)'
    BY <1>2, <1>4 DEF Unrun
  <2>2. CASE s = t
    BY <1>4, <2>1, <2>2, RanStays
  <2>3. CASE s # t
    <3>1. UNCHANGED <<pc[s], m_control[s]>> /\ (On(s)' <=> On(s))
      BY <1>1, <1>2, <2>3 DEF Local
    <3> QED
      BY <2>1, <3>1 DEF RanThrough, Past
  <2> QED
    BY <2>2, <2>3
<1>5. CASE ~ (m_thread_count <= 1) /\ ~ Ranked
  <2>1. m_work_count_claim' = m_work_count_claim \/ m_work_count_claim' = m_work_count_claim - 1
    BY DEF ThreadStep, Barrier, RunRanked, RunClaimed, atomic_fetch_and_decrement, EndWork, FanIn,
           Done, Activated, Loop, fields
  <2>2. r \in Int /\ r >= m_work_count - m_work_count_claim'
    BY <1>2, <1>5 DEF Unrun, Ranks
  <2>3. r >= m_work_count - m_work_count_claim
    BY <1>1, <2>1, <2>2
  <2> QED
    BY <1>5, <2>3 DEF Unrun
<1> QED
  BY <1>3, <1>4, <1>5

\* A thread calls a rank that was not called before, or none.
LEMMA ThreadCalls ==
  ASSUME Base, CallsInv, NEW t \in Thread, ThreadStep(t)
  PROVE  CallsInv' /\ (calls' = calls \/ CallsOne)
<1>1. CASE m_work_routine = NULL
  <2>1. calls' = calls
    <3>1. ~ RunRanked(t) /\ ~ RunClaimed(t)
      BY <1>1, InBarrier DEF RunRanked, RunClaimed, Barriers
    <3> QED
      BY <3>1 DEF ThreadStep, Barrier, EndWork, FanIn, Done, Activated, Loop, history
  <2> QED
    BY <1>1, <2>1, CallsKept DEF Unrun
<1>2. CASE m_work_routine # NULL
  <2>1. \A q \in Ranks : Unrun(q)' => Unrun(q)
    BY <1>2, UnrunKept
  <2>2. CASE calls' = calls
    BY <2>1, <2>2, CallsKept
  <2>3. CASE calls' # calls /\ RunRanked(t)
    <3> PICK r : r = RankOf(t)
      OBVIOUS
    <3>1. /\ pc[t] = "run" /\ Ranked /\ r < m_work_count /\ calls' = [calls EXCEPT ![r] = @ + 1]
          /\ pc' = [pc EXCEPT ![t] = "work"]
          /\ UNCHANGED <<m_work_routine, m_work_count, m_work_thread_count, pool>>
      BY <2>3 DEF RunRanked, Begin, Goto, Ranked, fields
    <3>2. /\ t \in Members /\ m_thread_count > 1 /\ ~ RanThrough(t) /\ TypeOK
          /\ m_thread_count \in Nat /\ m_work_count \in Nat /\ ~ (m_thread_count <= 1)
      <4>1. t \in Members /\ m_thread_count > 1
        BY <3>1, InBarrier DEF Barriers
      <4>2. TypeOK /\ m_thread_count \in 0 .. MaxThreads /\ MaxThreads \in Nat /\ m_work_count \in Nat
        BY <1>2, Running
      <4>3. ~ RanThrough(t)
        BY <3>1, NotPast DEF RanThrough, Past, Barriers
      <4> QED
        BY <4>1, <4>2, <4>3
    <3>3. r \in 0 .. m_work_count - 1 /\ \A s \in Members : RankOf(s) = r => s = t
      BY <3>1, <3>2 DEF Members, RankOf
    <3>4. Unrun(r)
      BY <3>1, <3>2, <3>3 DEF Unrun
    <3>5. ~ Unrun(r)'
      <4>1. RanThrough(t)' /\ Ranked' /\ RankOf(t)' = r /\ t \in Members'
        BY <3>1, <3>2 DEF RanThrough, TypeOK, Ranked, RankOf, Members, pool
      <4>2. m_work_routine' # NULL /\ ~ (m_thread_count' <= 1)
        BY <1>2, <3>1, <3>2 DEF pool
      <4> QED
        BY <4>1, <4>2 DEF Unrun
    <3> QED
      BY <2>1, <3>1, <3>3, <3>4, <3>5, CallsRank
  <2>4. CASE calls' # calls /\ RunClaimed(t)
    <3> PICK r : r = m_work_count - m_work_count_claim
      OBVIOUS
    <3>1. /\ pc[t] = "run" /\ m_work_count > m_work_thread_count /\ 0 < m_work_count_claim
          /\ calls' = [calls EXCEPT ![r] = @ + 1] /\ m_work_count_claim' = m_work_count_claim - 1
          /\ UNCHANGED <<m_work_routine, m_work_count, m_work_thread_count, pool>>
      BY <2>4 DEF RunClaimed, Claimed, atomic_fetch_and_decrement, Begin
    <3>2. /\ m_thread_count > 1 /\ m_thread_count \in Nat /\ m_work_count \in Nat
          /\ m_work_count_claim \in Int /\ m_work_count_claim <= m_work_count
          /\ ~ (m_thread_count <= 1) /\ m_work_thread_count \in Int
      <4>1. m_thread_count > 1
        BY <3>1, InBarrier DEF Barriers
      <4>2. /\ m_thread_count \in 0 .. MaxThreads /\ MaxThreads \in Nat /\ m_work_count \in Nat
            /\ m_work_count_claim \in Int /\ m_work_count_claim <= m_work_count
            /\ m_work_thread_count \in Int
        BY <1>2, Running
      <4> QED
        BY <4>1, <4>2
    <3>3. r \in 0 .. m_work_count - 1 /\ ~ Ranked /\ ~ Ranked'
      BY <3>1, <3>2 DEF Ranked
    <3>4. Unrun(r)
      BY <1>2, <3>2, <3>3 DEF Unrun
    <3>5. ~ Unrun(r)'
      <4>1. ~ (r >= m_work_count' - m_work_count_claim')
        BY <3>1, <3>2
      <4>2. m_work_routine' # NULL /\ ~ (m_thread_count' <= 1)
        BY <1>2, <3>1, <3>2 DEF pool
      <4> QED
        BY <3>3, <4>1, <4>2 DEF Unrun
    <3> QED
      BY <2>1, <3>1, <3>3, <3>4, <3>5, CallsRank
  <2>5. calls' = calls \/ RunRanked(t) \/ RunClaimed(t)
    BY DEF ThreadStep, Barrier, FanIn, EndWork, Done, Activated, Loop, history
  <2> QED
    BY <2>2, <2>3, <2>4, <2>5
<1> QED
  BY <1>1, <1>2


\* So does main without workers.
LEMMA SerialCalls ==
  ASSUME Base, CallsInv, RunSerial
  PROVE  CallsInv' /\ CallsOne
<1> PICK r : r = rank[Main]
  OBVIOUS
<1>1. /\ pc[Main] = "serial" /\ r < m_work_count
      /\ calls' = [calls EXCEPT ![r] = @ + 1]
      /\ rank' = [rank EXCEPT ![Main] = r + 1]
      /\ UNCHANGED <<fields, pool, pc, call>>
  BY DEF RunSerial
<1>2. TypeOK /\ MainOK /\ FieldsOK /\ SerialInv /\ Main \in Thread
  BY PoolAssumption DEF Base, Main, Thread
<1>3. r \in 0 .. m_work_count - 1 /\ m_thread_count <= 1 /\ rank'[Main] = r + 1
  <2>1. r \in 0 .. m_work_count /\ m_work_count \in 0 .. MaxWork /\ MaxWork \in Nat
    BY <1>1, <1>2, MaxWorkIs DEF SerialInv, TypeOK
  <2> QED
    BY <1>1, <1>2, <2>1 DEF MainOK, TypeOK
<1>4. m_work_routine # NULL
  <2>1. m_work_count # 0
    BY <1>3
  <2> QED
    BY <1>2, <2>1 DEF FieldsOK
<1>5. /\ \A q \in Ranks : Unrun(q) <=> q >= r
      /\ \A q \in Ranks : Unrun(q)' <=> q >= r + 1
  BY <1>1, <1>3, <1>4 DEF Unrun, fields, pool
<1>6. r \in Ranks /\ \A q \in Ranks : q \in Int
  <2>1. m_work_count \in 0 .. MaxWork /\ MaxWork \in Nat
    BY <1>2, MaxWorkIs DEF TypeOK
  <2> QED
    BY <1>3, <2>1 DEF Ranks
<1>7. Unrun(r) /\ ~ Unrun(r)' /\ \A q \in Ranks : q # r /\ Unrun(q)' => Unrun(q)
  <2>1. Unrun(r) /\ ~ Unrun(r)'
    BY <1>5, <1>6
  <2>2. \A q \in Ranks : q >= r + 1 => q >= r
    BY <1>6
  <2> QED
    BY <1>5, <2>1, <2>2
<1> QED
  BY <1>1, <1>3, <1>7, CallsRank

\* The steps of main while a subprogram is active: a worker that it activates has not
\* run through, and it activates none that has.
LEMMA MainCalls ==
  ASSUME Base, CallsInv, m_work_routine # NULL, TPI_Wait \/ TPI_Unblock \/ Wait \/ Activate
  PROVE  CallsInv'
<1>1. /\ TypeOK /\ Main \in Thread /\ ~ Undoing /\ MainOK /\ SerialInv
      /\ m_thread_count \in 0 .. MaxThreads /\ MaxThreads \in Nat
  BY Running DEF Base
<1>2. /\ UNCHANGED <<fields, pool, history>>
      /\ pc[Main] \in {"app", "wait", "activate"}
      /\ pc'[Main] \in {"app", "wait", "activate", "barrier", "serial"}
      /\ pc'[Main] = "serial" => rank'[Main] = 0
      /\ \A s \in Thread \ {Main} : pc'[s] = pc[s]
      /\ m_control' = m_control \/ Activate
  <2>1. CASE TPI_Wait \/ TPI_Unblock
    BY <1>1, <2>1 DEF TPI_Wait, TPI_Unblock, Goto, TypeOK
  <2>2. CASE Wait
    BY <1>1, <2>2 DEF Wait, Goto, TypeOK
  <2>3. CASE Activate
    BY <1>1, <2>3 DEF Activate, AfterStart, Returns, Goto, TypeOK
  <2> QED
    BY <2>1, <2>2, <2>3
<1>3. ASSUME NEW r \in Ranks, Unrun(r)' PROVE Unrun(r)
  <2>1. /\ UNCHANGED <<m_work_routine, m_work_count, m_work_thread_count, m_work_count_claim,
                       m_thread_count>>
        /\ Members' = Members /\ (Ranked' <=> Ranked) /\ Workers' = Workers
        /\ \A s : RankOf(s)' = RankOf(s)
    BY <1>2 DEF fields, pool, Members, Ranked, RankOf, Workers
  <2>2. CASE m_thread_count <= 1
    BY <1>2, <2>2 DEF Unrun
  <2>3. CASE ~ (m_thread_count <= 1) /\ Ranked
    <3> SUFFICES ASSUME NEW s \in Members, RankOf(s) = r, RanThrough(s) PROVE RanThrough(s)'
      BY <1>3, <2>1, <2>3 DEF Unrun
    <3>1. s # Main /\ s \in Thread /\ s \in Workers /\ s \in Worker /\ s \in Nat
      <4>1. s # Main
        BY <1>2, MainOff DEF RanThrough, Past
      <4> QED
        BY <1>1, <4>1 DEF Members, Workers, Worker, Thread, Main
    <3>2. pc'[s] = pc[s]
      BY <1>2, <3>1
    <3>3. CASE pc[s] \in {"work", "fan"}
      BY <3>2, <3>3 DEF RanThrough, Past
    <3>4. CASE On(s) /\ m_control[s] = 0
      <4>1. On(s)' /\ m_control'[s] = 0
        <5>1. CASE m_control' = m_control /\ ~ Activate
          <6>1. CASE TPI_Wait \/ TPI_Unblock
            BY <1>1, <2>1, <3>1, <5>1, <6>1, <3>4 DEF TPI_Wait, TPI_Unblock, Goto, On, Undoing, TypeOK
          <6>2. CASE Wait
            BY <1>1, <2>1, <3>1, <5>1, <6>2, <3>4 DEF Wait, Goto, On, Undoing, TypeOK
          <6> QED
            BY <5>1, <6>1, <6>2
        <5>2. CASE Activate /\ 1 < child[Main]
          <6>1. /\ pc[Main] = "activate" /\ pc' = pc
                /\ m_control' = [m_control EXCEPT ![child[Main] - 1] = 1]
                /\ child' = [child EXCEPT ![Main] = @ - 1]
            BY <5>2 DEF Activate, NextToActivate
          <6>2. child[Main] \in Nat /\ child'[Main] = child[Main] - 1 /\ child[Main] <= s
            <7>1. child[Main] \in 0 .. MaxThreads /\ child'[Main] = child[Main] - 1
              BY <1>1, <6>1 DEF TypeOK
            <7> QED
              BY <1>1, <3>4, <6>1, <7>1 DEF On
          <6>3. s # child[Main] - 1 /\ child'[Main] <= s
            BY <3>1, <6>2
          <6>4. m_control'[s] = 0
            BY <1>1, <3>1, <3>4, <6>1, <6>3 DEF TypeOK
          <6> QED
            BY <1>1, <2>1, <3>1, <6>1, <6>3, <6>4 DEF On, Undoing
        <5>3. CASE Activate /\ ~ (1 < child[Main])
          <6>1. m_control' = m_control /\ pc'[Main] \in {"app", "wait"}
            BY <1>1, <5>3 DEF Activate, AfterStart, Returns, Goto, TypeOK
          <6> QED
            BY <2>1, <3>1, <3>4, <6>1 DEF On, Undoing
        <5> QED
          BY <1>2, <5>1, <5>2, <5>3
      <4> QED
        BY <4>1 DEF RanThrough, Past
    <3> QED
      BY <3>3, <3>4 DEF RanThrough, Past
  <2>4. CASE ~ (m_thread_count <= 1) /\ ~ Ranked
    BY <1>3, <2>1, <2>4 DEF Unrun
  <2> QED
    BY <2>2, <2>3, <2>4
<1> QED
  BY <1>2, <1>3, CallsKept DEF history

LEMMA CallsStep == Base /\ CallsInv /\ [Next]_vars => CallsInv'
<1> SUFFICES ASSUME Base, CallsInv, [Next]_vars PROVE CallsInv'
  OBVIOUS
<1>1. ASSUME NEW t \in Thread, ThreadStep(t) PROVE CallsInv'
  BY <1>1, ThreadCalls
<1>2. CASE RunSerial
  BY <1>2, SerialCalls
<1>3. CASE Reset
  <2>1. \A r \in Ranks : calls'[r] = 0
    BY <1>3 DEF Reset, ClearHistory
  <2> QED
    BY <2>1 DEF CallsInv
<1>4. CASE Refused \/ UNCHANGED vars
  <2>1. UNCHANGED <<fields, pool, m_control, pc, child, rank, history>>
    BY <1>4 DEF Refused, vars
  <2> QED
    BY <2>1 DEF CallsInv, Unrun, RanThrough, Past, On, Ranked, RankOf, Members, Workers, Undoing,
                fields, pool, history
<1>5. CASE m_work_routine = NULL /\ calls' = calls
  BY <1>5, CallsKept DEF Unrun
<1>6. CASE Start \/ TPI_Block \/ TPI_Finalize
  <2>1. m_work_routine = NULL /\ calls' = calls
    BY <1>6 DEF Start, TPI_Block, TPI_Finalize, CanStart, TPI_Run, TPI_Run_threads,
                TPI_Run_reduce, TPI_Run_threads_reduce, TPI_Start, TPI_Start_threads,
                TPI_Start_reduce, TPI_Start_threads_reduce, local_start, history
  <2> QED
    BY <1>5, <2>1
<1>7. CASE \/ Create \/ CreateFails \/ Created \/ Started \/ Undo \/ UndoActivate \/ UndoWait
           \/ \E n \in 1 .. MaxThreads : TPI_Init(n)
  <2>1. calls' = calls
    BY <1>7 DEF Create, CreateFails, Created, Started, Undo, UndoActivate, UndoWait, TPI_Init,
                history
  <2>2. m_work_routine = NULL
    BY <1>7 DEF Create, CreateFails, Created, Started, Undo, UndoActivate, UndoWait, TPI_Init,
                CanStart, Base, MainOK, Undoing, Starting, Barriers
  <2> QED
    BY <1>5, <2>1, <2>2
<1>8. CASE TPI_Wait \/ TPI_Unblock \/ Wait \/ Activate
  <2>1. CASE m_work_routine # NULL
    BY <1>8, <2>1, MainCalls
  <2>2. CASE m_work_routine = NULL
    <3>1. calls' = calls
      BY <1>8 DEF TPI_Wait, TPI_Unblock, Wait, Activate, history
    <3> QED
      BY <1>5, <2>2, <3>1
  <2> QED
    BY <2>1, <2>2
<1> QED
  BY <1>1, <1>2, <1>3, <1>4, <1>6, <1>7, <1>8 DEF Next, App, Step, ThreadStep

LEMMA CallsInductive == Spec => [](Base /\ ReduceInv /\ CallsInv)
<1>1. Init => CallsInv
  BY DEF Init, CallsInv
<1> QED
  BY InitKeeps, NextKeeps, ReduceInductive, CallsStep, <1>1, PTL DEF Spec

-----------------------------------------------------------------------------
(* The pool implements the abstract one. *)

\* The refinement mapping.
IsUp == m_thread_count # 0 /\ (call = "TPI_Init" => pc[Main] = "app")
\* The ranks that the subprogram is to be called for.
Work == {r \in Ranks : r < m_work_count}

\* A step that shows nothing of itself.
LEMMA Stutters ==
  ASSUME UNCHANGED <<m_work_routine, calls>>, IsUp' <=> IsUp, Work' = Work
  PROVE  UNCHANGED TP!vars
<1>1. IsUp' = IsUp
  BY Zenon DEF IsUp
<1> QED
  BY <1>1, Zenon DEF TP!vars, IsUp, Work

\* One rank is called.
LEMMA DoesRank ==
  ASSUME Base, UNCHANGED <<m_work_routine, m_work_count>>, IsUp' <=> IsUp, CallsOne
  PROVE  [TP!Next]_TP!vars
<1>1. IsUp' = IsUp
  BY Zenon DEF IsUp
<1>2. PICK r \in 0 .. m_work_count - 1 : calls[r] = 0 /\ calls' = [calls EXCEPT ![r] = 1]
  BY DEF CallsOne
<1>3. m_work_count \in 0 .. MaxWork /\ MaxWork \in Nat
  BY MaxWorkIs DEF Base, TypeOK
<1>4. r \in Ranks /\ r \in Work /\ Work' = Work
  BY <1>3 DEF Ranks, Work
<1>5. TP!Do(r)
  BY <1>1, <1>2, <1>4, Zenon DEF TP!Do, IsUp, Work
<1> QED
  BY <1>4, <1>5 DEF TP!Next

\* local_start starts a subprogram, or none.
LEMMA StartsAbstract ==
  ASSUME Base, ReduceInv, pc[Main] = "app", m_work_routine = NULL,
         NEW name, NEW threads, NEW routine, NEW count \in 0 .. MaxWork, NEW join,
         local_start(name, threads, routine, count, join),
         UNCHANGED <<pool, m_control, ending, rank>>, name # "TPI_Init",
         routine \in {"user", "local_block"} \/ (routine = NULL /\ count = 0)
  PROVE  [TP!Next]_TP!vars
<1>1. /\ m_work_routine' = routine /\ m_work_count' = count /\ call' = name
      /\ UNCHANGED history
  BY DEF local_start
<1>2. calls = [r \in Ranks |-> 0] /\ calls' = calls
  BY <1>1 DEF ReduceInv, Idle, history
<1>3. MaxWork \in Nat /\ m_work_count = 0
  BY MaxWorkIs DEF Base, FieldsOK
<1>4. Work = {} /\ Work' = {r \in Ranks : r < count}
  BY <1>1, <1>3 DEF Work, Ranks
<1>5. IsUp' <=> IsUp
  BY <1>1 DEF IsUp, pool
<1>6. CASE routine = NULL /\ count = 0
  <2>1. Work' = {}
    BY <1>3, <1>4, <1>6 DEF Ranks
  <2> QED
    BY <1>1, <1>2, <1>4, <1>5, <1>6, <2>1, Stutters
<1>7. CASE routine \in {"user", "local_block"}
  <2>1. Work' \in {{}} \cup {0 .. r : r \in Ranks}
    <3>1. CASE count = 0
      BY <1>3, <1>4, <3>1 DEF Ranks
    <3>2. CASE count # 0
      <4>1. count - 1 \in Ranks /\ Work' = 0 .. count - 1
        BY <1>3, <1>4, <3>2 DEF Ranks
      <4> QED
        BY <4>1
    <3> QED
      BY <3>1, <3>2
  <2>2. IsUp' = IsUp
    BY <1>5, Zenon DEF IsUp
  <2>3. TP!Start
    BY <1>1, <1>2, <1>7, <2>1, <2>2, Zenon DEF TP!Start, IsUp, Work
  <2> QED
    BY <2>3 DEF TP!Next
<1> QED
  BY <1>6, <1>7

\* All calls that start something, or the end of the pool.
LEMMA AppAbstract ==
  ASSUME Base, ReduceInv, Start \/ TPI_Block \/ TPI_Finalize
  PROVE  [TP!Next]_TP!vars
<1>1. /\ m_thread_count \in 0 .. MaxWork /\ WorkCounts \subseteq 0 .. MaxWork /\ 0 \in 0 .. MaxWork
      /\ AtLeastOne(m_thread_count) \in 0 .. MaxWork
      /\ AtLeastOne(m_thread_count - 1) \in 0 .. MaxWork
  <2>1. m_thread_count \in 0 .. MaxThreads /\ MaxThreads \in Nat \ {0} /\ MaxWork \in Nat
        /\ MaxThreads <= MaxWork
    BY PoolAssumption, MaxWorkIs DEF Base, TypeOK
  <2>2. WorkCounts \subseteq 0 .. MaxWork
    <3> SUFFICES ASSUME NEW c \in WorkCounts PROVE c \in 0 .. MaxWork
      OBVIOUS
    <3>1. c \in Nat /\ c <= MaxWork
      BY PoolAssumption, MaxWorkIs
    <3> QED
      BY <2>1, <3>1
  <2> QED
    BY <2>1, <2>2 DEF AtLeastOne
<1> DEFINE Starts(name, routine, count) ==
             \E threads, join : local_start(name, threads, routine, count, join)
<1>2. ASSUME NEW name, NEW routine, NEW count \in 0 .. MaxWork, Starts(name, routine, count),
             pc[Main] = "app", m_work_routine = NULL,
             UNCHANGED <<pool, m_control, ending, rank>>, name # "TPI_Init",
             routine \in {"user", "local_block"} \/ (routine = NULL /\ count = 0)
      PROVE  [TP!Next]_TP!vars
  BY <1>2, StartsAbstract
<1> HIDE DEF Starts
<1>3. CASE Start
  <2>1. /\ pc[Main] = "app" /\ m_work_routine = NULL
        /\ UNCHANGED <<pool, m_control, ending, rank>>
    BY <1>3 DEF Start, CanStart, TPI_Run, TPI_Run_threads, TPI_Run_reduce,
                TPI_Run_threads_reduce, TPI_Start, TPI_Start_threads, TPI_Start_reduce,
                TPI_Start_threads_reduce
  <2>2. ASSUME NEW count \in WorkCounts,
               TPI_Run(count) \/ TPI_Run_reduce(count) \/ TPI_Start(count) \/ TPI_Start_reduce(count)
        PROVE  [TP!Next]_TP!vars
    <3>1. PICK name \in {"TPI_Run", "TPI_Run_reduce", "TPI_Start", "TPI_Start_reduce"} :
            Starts(name, "user", count)
      BY <2>2, Zenon DEF TPI_Run, TPI_Run_reduce, TPI_Start, TPI_Start_reduce, Starts
    <3> QED
      BY <1>1, <1>2, <2>1, <3>1
  <2>3. ASSUME \/ TPI_Run_threads \/ TPI_Run_threads_reduce
               \/ TPI_Start_threads \/ TPI_Start_threads_reduce
        PROVE  [TP!Next]_TP!vars
    <3>1. PICK name \in {"TPI_Run_threads", "TPI_Run_threads_reduce", "TPI_Start_threads",
                         "TPI_Start_threads_reduce"} :
            \E count \in 0 .. MaxWork : Starts(name, "user", count)
      BY <1>1, <2>3, Zenon
         DEF TPI_Run_threads, TPI_Run_threads_reduce, TPI_Start_threads, TPI_Start_threads_reduce,
             Starts
    <3>2. PICK count \in 0 .. MaxWork : Starts(name, "user", count)
      BY <3>1
    <3> QED
      BY <1>2, <2>1, <3>1, <3>2
  <2> QED
    BY <1>3, <2>2, <2>3 DEF Start
<1>4. CASE TPI_Block
  <2>1. /\ pc[Main] = "app" /\ m_work_routine = NULL
        /\ UNCHANGED <<pool, m_control, ending, rank>>
        /\ Starts("TPI_Block", "local_block", m_thread_count)
    BY <1>4, Zenon DEF TPI_Block, CanStart, Starts
  <2> QED
    BY <1>1, <1>2, <2>1
<1>5. CASE TPI_Finalize
  <2>1. /\ pc[Main] = "app" /\ m_work_routine = NULL
        /\ UNCHANGED <<pool, m_control, ending, rank>>
        /\ Starts("TPI_Finalize", NULL, 0)
    BY <1>5, Zenon DEF TPI_Finalize, CanStart, Starts
  <2> QED
    BY <1>1, <1>2, <2>1
<1> QED
  BY <1>3, <1>4, <1>5

\* The end of local_wait: all ranks were called.
LEMMA ResetAbstract ==
  ASSUME Base, ReduceInv, CallsInv, Reset
  PROVE  [TP!Next]_TP!vars
<1>1. /\ \/ pc[Main] = "fan" /\ AllIn(Main) /\ call # "TPI_Init"
         \/ pc[Main] = "serial" /\ rank[Main] >= m_work_count
      /\ m_work_routine' = NULL /\ m_work_count' = 0
      /\ m_thread_count' = IF call = "TPI_Finalize" THEN 0 ELSE m_thread_count
      /\ call' = call
      /\ calls' = [r \in Ranks |-> 0]
  BY DEF Reset, ClearHistory
<1>2. /\ MainOK /\ FieldsOK /\ call # "TPI_Init" /\ MaxWork \in Nat
      /\ m_work_routine = NULL <=> call = "TPI_Finalize"
  BY <1>1, MaxWorkIs DEF Base, MainOK
<1>3. Work' = {}
  BY <1>1, <1>2 DEF Work, Ranks
<1>4. CASE call = "TPI_Finalize"
  <2>1. m_work_routine = NULL /\ m_work_count = 0 /\ calls' = calls
    BY <1>1, <1>2, <1>4 DEF FieldsOK, ReduceInv, Idle
  <2>2. Work = {}
    BY <1>2, <2>1 DEF Work, Ranks
  <2>3. IsUp' = FALSE
    BY <1>1, <1>4 DEF IsUp
  <2>4. TP!Down
    BY <1>1, <1>3, <2>1, <2>2, <2>3, Zenon DEF TP!Down, IsUp, Work
  <2> QED
    BY <2>4 DEF TP!Next
<1>5. CASE call # "TPI_Finalize"
  <2>1. m_work_routine # NULL
    BY <1>2, <1>5
  <2>2. \A r \in Work : calls[r] = 1
    <3> SUFFICES ASSUME NEW r \in Ranks, r < m_work_count PROVE calls[r] = 1
      BY DEF Work
    <3>1. m_work_count \in Nat /\ r \in Nat
      BY <1>2 DEF Base, TypeOK, Ranks
    <3>2. calls[r] > 0
      BY <1>1, <2>1, <3>1, AllCalled
    <3> QED
      BY <3>2 DEF CallsInv
  <2>3. IsUp' = IsUp
    <3>1. IsUp' <=> IsUp
      BY <1>1, <1>2, <1>5 DEF IsUp
    <3> QED
      BY <3>1, Zenon DEF IsUp
  <2>4. TP!Finish
    BY <1>1, <1>3, <2>1, <2>2, <2>3, Zenon DEF TP!Finish, TP!Uncalled, IsUp, Work
  <2> QED
    BY <2>4 DEF TP!Next
<1> QED
  BY <1>4, <1>5

\* A step of a thread of the pool is seen only when it calls a rank.
LEMMA ThreadAbstract ==
  ASSUME Base, CallsInv, NEW t \in Thread, ThreadStep(t)
  PROVE  [TP!Next]_TP!vars
<1>1. TypeOK /\ Main \in Thread
  BY PoolAssumption DEF Base, Main, Thread
<1>2. /\ UNCHANGED <<pool, call, m_work_routine, m_work_count>>
      /\ \/ pc' = pc
         \/ \E label : pc' = [pc EXCEPT ![t] = label] /\ label # "app"
      /\ pc[t] # "app" \/ pc' = pc
  <2>1. CASE Barrier(t) \/ FanIn(t) \/ EndWork(t)
    BY <2>1, Zenon DEF Barrier, FanIn, EndWork, Goto, fields
  <2>2. CASE RunRanked(t) \/ RunClaimed(t)
    BY <2>2, Zenon DEF RunRanked, RunClaimed, Begin, Goto, fields
  <2>3. CASE Done(t) \/ Activated(t) \/ Loop(t)
    BY <2>3, Zenon DEF Done, Activated, Loop, Goto, fields
  <2> QED
    BY <2>1, <2>2, <2>3 DEF ThreadStep
<1>3. pc'[Main] = "app" <=> pc[Main] = "app"
  BY <1>1, <1>2 DEF TypeOK
<1>4. IsUp' <=> IsUp
  BY <1>2, <1>3 DEF IsUp, pool
<1>5. CASE calls' = calls
  <2>1. Work' = Work
    BY <1>2 DEF Work
  <2> QED
    BY <1>2, <1>4, <1>5, <2>1, Stutters
<1>6. CASE CallsOne
  BY <1>2, <1>4, <1>6, DoesRank
<1> QED
  BY <1>5, <1>6, ThreadCalls

\* A step of main that changes no field of the work and calls no rank.
LEMMA MainAbstract ==
  ASSUME Base,
         \/ TPI_Wait \/ TPI_Unblock \/ Wait \/ Activate \/ Refused \/ UNCHANGED vars
         \/ Create \/ CreateFails \/ Created \/ Undo \/ UndoActivate \/ UndoWait
         \/ \E n \in 1 .. MaxThreads : TPI_Init(n)
  PROVE  [TP!Next]_TP!vars
<1>1. TypeOK /\ MainOK /\ Main \in Thread
  BY PoolAssumption DEF Base, Main, Thread
<1>2. UNCHANGED <<fields, history>>
  BY DEF TPI_Wait, TPI_Unblock, Wait, Activate, Refused, vars, Create, CreateFails, Created,
         Undo, UndoActivate, UndoWait, TPI_Init
<1>3. Work' = Work /\ UNCHANGED <<m_work_routine, calls>>
  BY <1>2 DEF Work, fields, history
<1>4. IsUp' <=> IsUp
  <2>1. CASE TPI_Wait \/ TPI_Unblock
    BY <2>1 DEF TPI_Wait, TPI_Unblock, IsUp, pool
  <2>2. CASE Wait \/ Activate
    <3>1. call # "TPI_Init"
      BY <1>1, <2>2 DEF Wait, Activate, MainOK
    <3> QED
      BY <2>2, <3>1 DEF Wait, Activate, IsUp, pool
  <2>3. CASE Refused \/ UNCHANGED vars
    BY <2>3 DEF Refused, vars, IsUp, pool
  <2>4. CASE \E n \in 1 .. MaxThreads : TPI_Init(n)
    <3>1. m_thread_count = 0 /\ call' = "TPI_Init" /\ pc' = [pc EXCEPT ![Main] = "create"]
      BY <2>4 DEF TPI_Init, Goto
    <3>2. pc'[Main] # "app"
      BY <1>1, <3>1 DEF TypeOK
    <3> QED
      BY <3>1, <3>2 DEF IsUp
  <2>5. CASE Create \/ CreateFails \/ Created \/ UndoActivate \/ UndoWait
    <3>1. pc[Main] \in {"create", "undo", "undo_activate", "undo_wait"} /\ call' = call
      BY <2>5 DEF Create, CreateFails, Created, UndoActivate, UndoWait
    <3>2. call = "TPI_Init" /\ pc[Main] # "app"
      BY <1>1, <3>1 DEF MainOK, Undoing
    <3>3. \/ \E label \in {"barrier", "undo", "undo_wait"} : pc' = [pc EXCEPT ![Main] = label]
          \/ \E s : pc' = [pc EXCEPT ![s] = "barrier"]
      BY <2>5 DEF Create, CreateFails, Created, UndoActivate, UndoWait, Goto
    <3>4. pc'[Main] # "app"
      BY <1>1, <3>2, <3>3 DEF TypeOK
    <3> QED
      BY <3>1, <3>2, <3>4 DEF IsUp
  <2>6. CASE Undo
    <3>1. /\ pc[Main] = "undo" /\ call' = call
          /\ \/ m_thread_count' = 0
             \/ pc' = [pc EXCEPT ![Main] = "undo_activate"]
      BY <2>6 DEF Undo, Goto
    <3>2. call = "TPI_Init" /\ pc[Main] # "app"
      BY <1>1, <3>1 DEF MainOK, Undoing
    <3>3. m_thread_count' = 0 \/ pc'[Main] # "app"
      BY <1>1, <3>1 DEF TypeOK
    <3> QED
      BY <3>1, <3>2, <3>3 DEF IsUp
  <2> QED
    BY <2>1, <2>2, <2>3, <2>4, <2>5, <2>6
<1> QED
  BY <1>3, <1>4, Stutters

\* A pool without workers does its ranks one by one.
LEMMA RunSerialAbstract ==
  ASSUME Base, CallsInv, RunSerial
  PROVE  [TP!Next]_TP!vars
<1>1. UNCHANGED <<fields, pool, pc, call>>
  BY DEF RunSerial
<1> QED
  BY <1>1, SerialCalls, DoesRank DEF IsUp, fields, pool

\* TPI_Init returns.
LEMMA StartedAbstract ==
  ASSUME Base, Started
  PROVE  [TP!Next]_TP!vars
<1>1. /\ pc[Main] = "fan" /\ call = "TPI_Init" /\ call' = call
      /\ pc' = [pc EXCEPT ![Main] = "app"]
      /\ UNCHANGED <<m_work_routine, m_work_count, m_thread_count, calls>>
  BY DEF Started, Returns, Goto, fields, pool, history
<1>2. TypeOK /\ Main \in Thread /\ m_work_routine = NULL /\ m_thread_count > 0 /\ m_thread_count \in Int
  <2>1. TypeOK /\ Main \in Thread /\ m_work_routine = NULL /\ m_thread_count > 0
    BY <1>1, PoolAssumption DEF Base, MainOK, Starting, Barriers, Main, Thread
  <2>2. m_thread_count \in 0 .. MaxThreads /\ MaxThreads \in Nat
    BY <2>1, PoolAssumption DEF TypeOK
  <2> QED
    BY <2>1, <2>2
<1>3. Work' = Work
  BY <1>1 DEF Work
<1>4. IsUp' = TRUE
  <2>1. pc'[Main] = "app" /\ m_thread_count' # 0
    BY <1>1, <1>2 DEF TypeOK
  <2> QED
    BY <2>1 DEF IsUp
<1>5. TP!Up
  BY <1>1, <1>2, <1>3, <1>4, Zenon DEF TP!Up, IsUp, Work
<1> QED
  BY <1>5 DEF TP!Next

\* Every step of the pool is a step of the abstract one, or unseen.
LEMMA StepAbstract == Base /\ ReduceInv /\ CallsInv /\ [Next]_vars => [TP!Next]_TP!vars
<1> SUFFICES ASSUME Base, ReduceInv, CallsInv, [Next]_vars PROVE [TP!Next]_TP!vars
  OBVIOUS
<1>1. CASE Start \/ TPI_Block \/ TPI_Finalize
  BY <1>1, AppAbstract
<1>2. CASE \/ TPI_Wait \/ TPI_Unblock \/ Wait \/ Activate \/ Refused \/ UNCHANGED vars
           \/ Create \/ CreateFails \/ Created \/ Undo \/ UndoActivate \/ UndoWait
           \/ \E n \in 1 .. MaxThreads : TPI_Init(n)
  BY <1>2, MainAbstract
<1>3. CASE RunSerial \/ Reset \/ Started
  BY <1>3, RunSerialAbstract, ResetAbstract, StartedAbstract
<1>4. ASSUME NEW t \in Thread, ThreadStep(t) PROVE [TP!Next]_TP!vars
  BY <1>4, ThreadAbstract
<1> QED
  BY <1>1, <1>2, <1>3, <1>4 DEF Next, App, Step, ThreadStep

\* The pool starts as the abstract one does.
LEMMA InitAbstract == Init => TP!Init
<1> SUFFICES ASSUME Init PROVE TP!Init
  OBVIOUS
<1>1. IsUp = FALSE /\ m_work_routine = NULL
  BY DEF Init, IsUp
<1>2. Work = {} /\ calls = [r \in Ranks |-> 0]
  BY MaxWorkIs DEF Init, Work, Ranks
<1> QED
  BY <1>1, <1>2, Zenon DEF TP!Init, TP!Uncalled, IsUp, Work

\* The pool implements the abstract one, whatever the number of its threads: one subprogram at a
\* time, called for no rank twice, and a call or a wait returns only when it was called once for
\* every rank.
THEOREM PoolIsImplemented == Spec => ImplementsTaskPool
<1>1. Spec => [][TP!Next]_TP!vars
  BY CallsInductive, StepAbstract, PTL DEF Spec
<1>2. Spec => TP!Init
  BY InitAbstract DEF Spec
<1> QED
  BY <1>1, <1>2 DEF ImplementsTaskPool, TP!Spec
=============================================================================
