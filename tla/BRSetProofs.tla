---------------------------- MODULE BRSetProofs -----------------------------
(***************************************************************************)
(* Proofs about BRSet for every set of items, every hash and every table   *)
(* size: the hash table implements AbstractSet.                             *)
(*                                                                         *)
(* Linear probing is right as long as no bucket on the way from an item's  *)
(* home to its own is empty (Chained).  An insertion keeps that, a removal *)
(* breaks it and the cleanup behind it repairs it, one bucket at a time.   *)
(* Every table has an empty bucket, so there is a point where no probe     *)
(* passes: seen from there the buckets are in a line, not in a ring, and   *)
(* each item lies at or behind its home.                                   *)
(***************************************************************************)
EXTENDS BRSet, Integers, TLAPS, FiniteSetTheorems, WellFoundedInduction

-----------------------------------------------------------------------------
(* Numbers and loops *)

LEMMA LeastNumber ==
  ASSUME NEW T, T \subseteq Nat, T # {}
  PROVE  \E m \in T : \A n \in T : m <= n
<1>1. IsWellFoundedOn(OpToRel(<, Nat), Nat)
  BY NatLessThanWellFounded
<1>2. PICK m \in T : \A n \in T : ~(<<n, m>> \in OpToRel(<, Nat))
  BY <1>1, WFMin
<1>3. \A n \in T : ~(n < m)
  BY <1>2 DEF OpToRel
<1>4. QED
  BY <1>3

\* What holds before the first turn of a loop, and after a turn if before it, holds
\* after every turn: X[n] are the states it may be in after n turns.
LEMMA LoopKeeps ==
  ASSUME NEW m \in Nat, NEW X, NEW f, f[0] \in X[0],
         \A n \in 1 .. m : f[n - 1] \in X[n - 1] => f[n] \in X[n]
  PROVE  \A n \in 0 .. m : f[n] \in X[n]
<1> DEFINE Bad == {n \in 0 .. m : f[n] \notin X[n]}
<1>1. SUFFICES ASSUME Bad # {} PROVE FALSE
  OBVIOUS
<1>2. PICK k \in Bad : \A i \in Bad : k <= i
  <2>1. Bad \subseteq Nat
    OBVIOUS
  <2> HIDE DEF Bad
  <2>2. QED
    BY <1>1, <2>1, LeastNumber
<1>3. k \in 1 .. m /\ f[k] \notin X[k]
  OBVIOUS
<1>4. k - 1 \in 0 .. m /\ k - 1 \notin Bad
  <2>1. k - 1 < k
    BY <1>3
  <2> HIDE DEF Bad
  <2>2. QED
    BY <1>2, <1>3, <2>1
<1>5. f[k - 1] \in X[k - 1]
  BY <1>4
<1>6. QED
  BY <1>3, <1>5

\* f is m turns of a loop: G[n] is turn n, X[n] the states it may be in after it.
Turns(f, m, start, X, G) ==
  /\ f = [n \in 0 .. m |-> f[n]]
  /\ f[0] = start
  /\ \A n \in 1 .. m : f[n] = G[n][f[n - 1]]
  /\ \A n \in 0 .. m : f[n] \in X[n]

\* A loop whose turn n maps X[n - 1] to X[n] can be run.
LEMMA LoopRuns ==
  ASSUME NEW m \in Nat, NEW X, NEW G, NEW start \in X[0],
         \A n \in 1 .. m : \A x \in X[n - 1] : G[n][x] \in X[n]
  PROVE  \E f : Turns(f, m, start, X, G)
<1> DEFINE Bad == {k \in 0 .. m : ~\E f : Turns(f, k, start, X, G)}
<1>1. SUFFICES ASSUME Bad # {} PROVE FALSE
  OBVIOUS
<1>2. PICK k \in Bad : \A i \in Bad : k <= i
  <2>1. Bad \subseteq Nat
    OBVIOUS
  <2> HIDE DEF Bad
  <2>2. QED
    BY <1>1, <2>1, LeastNumber
<1>3. k \in 0 .. m /\ ~\E f : Turns(f, k, start, X, G)
  OBVIOUS
<1>4. k # 0
  <2>1. ASSUME k = 0 PROVE Turns([n \in 0 .. 0 |-> start], k, start, X, G)
    BY <2>1 DEF Turns
  <2>2. QED
    BY <1>3, <2>1
<1>5. k - 1 \in 0 .. m /\ k - 1 \notin Bad
  <2>1. k - 1 < k /\ k - 1 \in 0 .. m
    BY <1>3, <1>4
  <2> HIDE DEF Bad
  <2>2. QED
    BY <1>2, <1>3, <2>1
<1>6. PICK f : Turns(f, k - 1, start, X, G)
  BY <1>5
<1> DEFINE g == [n \in 0 .. k |-> IF n = k THEN G[k][f[k - 1]] ELSE f[n]]
<1>7. g[0] = start /\ g = [n \in 0 .. k |-> g[n]]
  BY <1>3, <1>4, <1>6 DEF Turns
<1>8. \A n \in 1 .. k : g[n] = G[n][g[n - 1]] /\ g[n] \in X[n]
  <2> SUFFICES ASSUME NEW n \in 1 .. k PROVE g[n] = G[n][g[n - 1]] /\ g[n] \in X[n]
    OBVIOUS
  <2>1. n - 1 \in 0 .. k - 1 /\ g[n - 1] = f[n - 1] /\ f[n - 1] \in X[n - 1]
    BY <1>3, <1>6 DEF Turns
  <2>2. n \in 1 .. m
    BY <1>3
  <2>3. CASE n = k
    BY <1>3, <2>1, <2>2, <2>3
  <2>4. CASE n # k
    <3>1. n \in 1 .. k - 1 /\ n \in 0 .. k - 1 /\ n \in 0 .. k
      BY <1>3, <2>4
    <3>2. f[n] = G[n][f[n - 1]] /\ f[n] \in X[n]
      BY <1>6, <3>1 DEF Turns
    <3>3. g[n] = f[n]
      BY <2>4, <3>1
    <3> HIDE DEF g
    <3>4. QED
      BY <2>1, <3>2, <3>3
  <2>5. QED
    BY <2>3, <2>4
<1>9. Turns(g, k, start, X, G)
  <2>1. g[0] \in X[0]
    BY <1>7
  <2>2. \A n \in 0 .. k : n = 0 \/ n \in 1 .. k
    BY <1>3
  <2> HIDE DEF g
  <2>3. \A n \in 0 .. k : g[n] \in X[n]
    BY <1>8, <2>1, <2>2
  <2>4. QED
    BY <1>7, <1>8, <2>3 DEF Turns
<1>10. QED
  BY <1>3, <1>9

\* f starts there and takes the turns of G as long as it is where it should be.
Follows(f, m, start, X, G) ==
  /\ f[0] = start
  /\ \A n \in 1 .. m : f[n - 1] \in X[n - 1] => f[n] = G[n][f[n - 1]]

LEMMA LoopEnds ==
  ASSUME NEW m \in Nat, NEW X, NEW G, NEW start \in X[0],
         \A n \in 1 .. m : \A x \in X[n - 1] : G[n][x] \in X[n],
         NEW f, Follows(f, m, start, X, G)
  PROVE  \A n \in 0 .. m : f[n] \in X[n]
<1>1. \A n \in 1 .. m : f[n - 1] \in X[n - 1] => f[n] \in X[n]
  BY DEF Follows
<1>2. f[0] \in X[0]
  BY DEF Follows
<1>3. QED
  BY <1>1, <1>2, LoopKeeps

-----------------------------------------------------------------------------
(* The ring of buckets *)

\* how many buckets a probe goes on from bucket a to get to b
Dist(size, a, b) == IF a <= b THEN b - a ELSE b + size - a

Home(set, item) == HashOf[KeyOf[item]] % set.size

Records ==
  UNION {[size : {TableSizes[n]},
          table : [0 .. TableSizes[n] - 1 -> Item \cup {NULL}],
          itemCount : Nat] : n \in 2 .. Len(TableSizes)}

LEMMA RecordType ==
  ASSUME NEW set \in Records
  PROVE  /\ set.size \in Nat \ {0}
         /\ set.table \in [0 .. set.size - 1 -> Item \cup {NULL}]
         /\ set.itemCount \in Nat
         /\ \E n \in 2 .. Len(TableSizes) : set.size = TableSizes[n]
         /\ set = [size |-> set.size, table |-> set.table, itemCount |-> set.itemCount]
         /\ Threshold(set.size) \in Nat /\ Threshold(set.size) < set.size
<1>1. PICK n \in 2 .. Len(TableSizes) :
         set \in [size : {TableSizes[n]},
                  table : [0 .. TableSizes[n] - 1 -> Item \cup {NULL}],
                  itemCount : Nat]
  BY DEF Records
<1>2. TableSizes[n] \in Nat \ {0} /\ Threshold(TableSizes[n]) < TableSizes[n]
  BY SizesAssumption
<1>3. Threshold(TableSizes[n]) \in Nat
  BY <1>2 DEF Threshold
<1>4. set.size = TableSizes[n]
  BY <1>1
<1>5. QED
  BY <1>1, <1>2, <1>3, <1>4

LEMMA AddOnRing ==
  ASSUME NEW size \in Nat \ {0}, NEW a \in 0 .. size - 1, NEW k \in 0 .. size - 1
  PROVE  /\ (a + k) % size \in 0 .. size - 1
         /\ (a + k) % size = IF a + k < size THEN a + k ELSE a + k - size
         /\ Dist(size, a, (a + k) % size) = k
<1>1. (a + k) % size = IF a + k < size THEN a + k ELSE a + k - size
  <2>1. CASE a + k < size
    BY <2>1
  <2>2. CASE a + k >= size
    <3>1. a + k - size \in 0 .. size - 1
      BY <2>2
    <3>2. a + k = size * 1 + (a + k - size)
      OBVIOUS
    <3>3. QED
      BY <2>2, <3>1, <3>2
  <2>3. QED
    BY <2>1, <2>2
<1>2. QED
  BY <1>1 DEF Dist

LEMMA HomeType ==
  ASSUME NEW set \in Records, NEW item \in Item
  PROVE  Home(set, item) \in 0 .. set.size - 1
BY RecordType, KeyAssumption DEF Home

\* Seen from an empty bucket e, the buckets are in a line that ends with e.
Line(size, e, b) == Dist(size, e + 1, b)

LEMMA LineType ==
  ASSUME NEW size \in Nat \ {0}, NEW e \in 0 .. size - 1, NEW b \in 0 .. size - 1
  PROVE  /\ Line(size, e, b) \in 0 .. size - 1
         /\ Line(size, e, e) = size - 1
         /\ \A c \in 0 .. size - 1 : Line(size, e, c) = Line(size, e, b) => c = b
BY DEF Line, Dist

\* Whoever can get to b without passing e is before b in the line, and what it
\* passes is what is between them in the line.
LEMMA LineUp ==
  ASSUME NEW size \in Nat \ {0}, NEW e \in 0 .. size - 1,
         NEW h \in 0 .. size - 1, NEW b \in 0 .. size - 1
  PROVE  /\ ~(Dist(size, h, e) < Dist(size, h, b)) => Line(size, e, h) <= Line(size, e, b)
         /\ Line(size, e, h) <= Line(size, e, b) =>
              \A c \in 0 .. size - 1 :
                 Dist(size, h, c) < Dist(size, h, b)
                   <=> (Line(size, e, h) <= Line(size, e, c) /\ Line(size, e, c) < Line(size, e, b))
BY DEF Line, Dist

LEMMA NextInLine ==
  ASSUME NEW size \in Nat \ {0}, NEW e \in 0 .. size - 1, NEW b \in 0 .. size - 1,
         NEW k \in 0 .. size - 1, Line(size, e, b) + k <= size - 1
  PROVE  /\ (b + k) % size \in 0 .. size - 1
         /\ Line(size, e, (b + k) % size) = Line(size, e, b) + k
<1> DEFINE c == (b + k) % size
<1>1. c = (IF b + k < size THEN b + k ELSE b + k - size) /\ c \in 0 .. size - 1
  BY AddOnRing
<1> HIDE DEF c
<1>2. Line(size, e, c) = Line(size, e, b) + k
  BY <1>1 DEF Line, Dist
<1>3. QED
  BY <1>1, <1>2 DEF c

-----------------------------------------------------------------------------
(* Tables *)

\* No two items of the table are equivalent.
Distinct(set) ==
  \A b, c \in 0 .. set.size - 1 :
     /\ set.table[b] # NULL
     /\ set.table[c] # NULL
     /\ Eq(set.table[b], set.table[c])
     => b = c

\* The buckets on the way from the home of item to b are all taken.
Reaches(set, item, b) ==
  \A c \in 0 .. set.size - 1 :
     Dist(set.size, Home(set, item), c) < Dist(set.size, Home(set, item), b)
       => set.table[c] # NULL

Chained(set) ==
  \A b \in 0 .. set.size - 1 : set.table[b] # NULL => Reaches(set, set.table[b], b)

\* A table that may be one item too full ...
Shape(set) ==
  /\ set \in Records
  /\ Distinct(set)
  /\ Chained(set)
  /\ set.itemCount = Cardinality(Contents(set))

\* ... and one between two calls.
WellFormed(set) == Shape(set) /\ set.itemCount <= Threshold(set.size)

\* Where the probe for item may end.
Ends(set, item, b) ==
  /\ b \in 0 .. set.size - 1
  /\ set.table[b] = NULL \/ Eq(set.table[b], item)
  /\ \A c \in 0 .. set.size - 1 :
        Dist(set.size, Home(set, item), c) < Dist(set.size, Home(set, item), b)
          => set.table[c] # NULL /\ ~Eq(set.table[c], item)

HasEmpty(set) == \E e \in 0 .. set.size - 1 : set.table[e] = NULL

LEMMA ProbeEnds ==
  ASSUME NEW set \in Records, NEW item \in Item, HasEmpty(set)
  PROVE  Ends(set, item, Probe(set, item))
<1> DEFINE size == set.size
           home == Home(set, item)
           At(k) == (home + k) % size
           Stops(k) == set.table[At(k)] = NULL \/ Eq(set.table[At(k)], item)
           First(k) == Stops(k) /\ \A j \in 0 .. k - 1 : ~Stops(j)
           k0 == CHOOSE k \in 0 .. size - 1 : First(k)
           Stop == {k \in 0 .. size - 1 : Stops(k)}
<1>1. size \in Nat \ {0} /\ home \in 0 .. size - 1
  BY RecordType, HomeType
<1>2. \A c \in 0 .. size - 1 : Dist(size, home, c) \in 0 .. size - 1 /\ At(Dist(size, home, c)) = c
  <2> SUFFICES ASSUME NEW c \in 0 .. size - 1
               PROVE  Dist(size, home, c) \in 0 .. size - 1 /\ At(Dist(size, home, c)) = c
    OBVIOUS
  <2> HIDE DEF size, home
  <2>1. Dist(size, home, c) \in 0 .. size - 1
    BY <1>1 DEF Dist
  <2>2. At(Dist(size, home, c)) = IF home + Dist(size, home, c) < size
                                  THEN home + Dist(size, home, c)
                                  ELSE home + Dist(size, home, c) - size
    BY <1>1, <2>1, AddOnRing
  <2>3. QED
    BY <1>1, <2>1, <2>2 DEF Dist
<1>3. PICK k \in Stop : \A j \in Stop : k <= j
  <2>1. PICK e \in 0 .. size - 1 : set.table[e] = NULL
    BY DEF HasEmpty
  <2>2. Dist(size, home, e) \in Stop
    BY <1>2, <2>1
  <2>3. Stop \subseteq Nat
    OBVIOUS
  <2> HIDE DEF Stop
  <2>4. QED
    BY <2>2, <2>3, LeastNumber
<1>4. k \in 0 .. size - 1 /\ First(k)
  <2>1. \A j \in 0 .. k - 1 : ~(k <= j) /\ j \in 0 .. size - 1
    BY <1>1
  <2>2. QED
    BY <1>3, <2>1
<1>5. k0 \in 0 .. size - 1 /\ First(k0)
  <2> HIDE DEF First, size
  <2>1. QED
    BY <1>4
<1>6. Probe(set, item) = At(k0)
  BY DEF Probe, Home
<1> HIDE DEF k0
<1>7. At(k0) \in 0 .. size - 1 /\ Dist(size, home, At(k0)) = k0
  <2> HIDE DEF home, size
  <2>1. QED
    BY <1>1, <1>5, AddOnRing
<1>8. ASSUME NEW c \in 0 .. size - 1, Dist(size, home, c) < k0
      PROVE  set.table[c] # NULL /\ ~Eq(set.table[c], item)
  <2>1. Dist(size, home, c) \in 0 .. k0 - 1
    BY <1>2, <1>5, <1>8
  <2>2. QED
    BY <1>2, <1>5, <2>1
<1>9. QED
  BY <1>5, <1>6, <1>7, <1>8 DEF Ends

LEMMA EndsOnce ==
  ASSUME NEW set \in Records, NEW item \in Item, NEW b, NEW c,
         Ends(set, item, b), Ends(set, item, c)
  PROVE  b = c
<1> DEFINE h == Home(set, item)
           size == set.size
<1>1. size \in Nat \ {0} /\ h \in 0 .. size - 1
  BY RecordType, HomeType
<1>2. b \in 0 .. size - 1 /\ c \in 0 .. size - 1
  BY DEF Ends
<1>3. ~(Dist(size, h, b) < Dist(size, h, c)) /\ ~(Dist(size, h, c) < Dist(size, h, b))
  BY DEF Ends
<1> HIDE DEF h, size
<1>4. QED
  BY <1>1, <1>2, <1>3 DEF Dist

\* An item of a chained table is where its own probe ends.
LEMMA EndsAtItem ==
  ASSUME NEW set \in Records, Distinct(set), NEW b \in 0 .. set.size - 1,
         set.table[b] # NULL, Reaches(set, set.table[b], b),
         NEW item \in Item, Eq(set.table[b], item)
  PROVE  Ends(set, item, b)
<1>1. Home(set, set.table[b]) = Home(set, item)
  BY DEF Eq, Home
<1>2. ASSUME NEW c \in 0 .. set.size - 1,
             Dist(set.size, Home(set, item), c) < Dist(set.size, Home(set, item), b)
      PROVE  set.table[c] # NULL /\ ~Eq(set.table[c], item)
  <2>1. set.table[c] # NULL
    BY <1>1, <1>2 DEF Reaches
  <2>2. c # b
    BY <1>2, RecordType, HomeType DEF Dist
  <2>3. QED
    BY <2>1, <2>2 DEF Distinct, Eq
<1>3. QED
  BY <1>2 DEF Ends

-----------------------------------------------------------------------------
(* Contents *)

LEMMA ImageSize ==
  ASSUME NEW S, IsFiniteSet(S), NEW f, \A x, y \in S : f[x] = f[y] => x = y
  PROVE  IsFiniteSet({f[x] : x \in S}) /\ Cardinality({f[x] : x \in S}) = Cardinality(S)
<1> DEFINE T == {f[x] : x \in S}
           g == [x \in S |-> f[x]]
<1>1. g \in Bijection(S, T)
  BY DEF Bijection, Injection, IsInjective, Surjection
<1>2. ExistsBijection(S, T)
  BY <1>1 DEF ExistsBijection
<1> HIDE DEF T
<1>3. IsFiniteSet(T) /\ Cardinality(T) = Cardinality(S)
  BY <1>2, FS_Bijection
<1>4. QED
  BY <1>3 DEF T

Used(set) == {b \in 0 .. set.size - 1 : set.table[b] # NULL}

\* the members of A that have no equivalent in B
Apart(A, B) == {a \in A : \A x \in B : ~Eq(x, a)}

LEMMA ContentsType ==
  ASSUME NEW set \in Records
  PROVE  /\ Contents(set) = {set.table[b] : b \in Used(set)}
         /\ Contents(set) \subseteq Item
         /\ \A b \in 0 .. set.size - 1 : set.table[b] \in Item \/ set.table[b] = NULL
         /\ IsFiniteSet(Contents(set))
         /\ Cardinality(Contents(set)) \in Nat
         /\ Cardinality(Contents(set)) <= Threshold(TableSizes[Len(TableSizes)])
         /\ Distinct(set) => Cardinality(Contents(set)) = Cardinality(Used(set))
<1>1. set.table \in [0 .. set.size - 1 -> Item \cup {NULL}] /\ set.size \in Nat \ {0}
  BY RecordType
<1>2. Contents(set) = {set.table[b] : b \in Used(set)}
  BY <1>1 DEF Contents, Used
<1>3. Contents(set) \subseteq Item
  BY <1>1 DEF Contents
<1>4. IsFiniteSet(Contents(set)) /\ Cardinality(Contents(set)) \in Nat
      /\ Cardinality(Contents(set)) <= Cardinality(Item)
  BY <1>3, CapacityAssumption, FS_Subset, FS_CardinalityType
<1>5. Cardinality(Contents(set)) <= Threshold(TableSizes[Len(TableSizes)])
  <2>1. Cardinality(Item) \in Nat
    BY CapacityAssumption, FS_CardinalityType
  <2>2. Threshold(TableSizes[Len(TableSizes)]) \in Nat
    BY SizesAssumption, CapacityAssumption DEF Threshold
  <2>3. QED
    BY <1>4, <2>1, <2>2, CapacityAssumption
<1>6. ASSUME Distinct(set) PROVE Cardinality(Contents(set)) = Cardinality(Used(set))
  <2>1. IsFiniteSet(Used(set))
    <3> DEFINE I == 0 .. set.size - 1
    <3>1. IsFiniteSet(I)
      BY <1>1, FS_Interval
    <3>2. Used(set) \in SUBSET I
      BY DEF Used
    <3> HIDE DEF I
    <3>3. QED
      BY <3>1, <3>2, FS_Subset
  <2>2. \A x, y \in Used(set) : set.table[x] = set.table[y] => x = y
    BY <1>6 DEF Distinct, Used, Eq
  <2>3. QED
    BY <1>2, <2>1, <2>2, ImageSize
<1>7. QED
  BY <1>1, <1>2, <1>3, <1>4, <1>5, <1>6

LEMMA EmptyBucket ==
  ASSUME NEW set, WellFormed(set)
  PROVE  HasEmpty(set)
<1> DEFINE I == 0 .. set.size - 1
<1>1. set \in Records /\ Distinct(set) /\ Cardinality(Contents(set)) <= Threshold(set.size)
  BY DEF WellFormed, Shape
<1>2. SUFFICES ASSUME ~HasEmpty(set) PROVE FALSE
  OBVIOUS
<1>3. Used(set) = I
  BY <1>2 DEF Used, HasEmpty
<1>4. set.size \in Nat \ {0} /\ Threshold(set.size) \in Nat /\ Threshold(set.size) < set.size
  BY <1>1, RecordType
<1>5. Cardinality(I) = set.size
  BY <1>4, FS_Interval
<1>6. Cardinality(Contents(set)) = Cardinality(I)
  BY <1>1, <1>3, ContentsType
<1>7. QED
  BY <1>1, <1>4, <1>5, <1>6

\* A probe that ends at an empty bucket shows that the set has no equivalent.
LEMMA ProbeFinds ==
  ASSUME NEW set, WellFormed(set), NEW item \in Item
  PROVE  LET b == Probe(set, item)
         IN  /\ Ends(set, item, b)
             /\ \A c \in 0 .. set.size - 1 :
                   set.table[c] # NULL /\ Eq(set.table[c], item) => c = b
<1> DEFINE b == Probe(set, item)
<1>1. set \in Records /\ Distinct(set) /\ Chained(set)
  BY DEF WellFormed, Shape
<1>2. Ends(set, item, b)
  BY <1>1, EmptyBucket, ProbeEnds
<1>3. ASSUME NEW c \in 0 .. set.size - 1, set.table[c] # NULL, Eq(set.table[c], item)
      PROVE  c = b
  <2>1. Ends(set, item, c)
    BY <1>1, <1>3, EndsAtItem DEF Chained
  <2>2. QED
    BY <1>1, <1>2, <2>1, EndsOnce
<1>4. QED
  BY <1>2, <1>3

\* The item that a probe finds, among the contents.
LEMMA GetIsMember ==
  ASSUME NEW set, WellFormed(set), NEW item \in Item
  PROVE  /\ SetGet(set, item) # NULL =>
              SetGet(set, item) \in Contents(set) /\ Eq(SetGet(set, item), item)
         /\ \A a \in Contents(set) : Eq(a, item) => a = SetGet(set, item)
<1> DEFINE b == Probe(set, item)
<1>1. /\ Ends(set, item, b)
      /\ \A c \in 0 .. set.size - 1 :
                   set.table[c] # NULL /\ Eq(set.table[c], item) => c = b
  BY ProbeFinds
<1>2. set \in Records
  BY DEF WellFormed, Shape
<1>3. SetGet(set, item) = set.table[b]
  BY DEF SetGet
<1>4. b \in 0 .. set.size - 1 /\ (set.table[b] = NULL \/ Eq(set.table[b], item))
  BY <1>1 DEF Ends
<1> HIDE DEF b
<1>5. DOMAIN set.table = 0 .. set.size - 1
  BY <1>2, RecordType
<1>6. QED
  BY <1>1, <1>3, <1>4, <1>5 DEF Contents

-----------------------------------------------------------------------------
(* One bucket is filled or emptied *)

WithTable(set, table, count) == [size |-> set.size, table |-> table, itemCount |-> count]

LEMMA WithTableType ==
  ASSUME NEW set \in Records, NEW table \in [0 .. set.size - 1 -> Item \cup {NULL}],
         NEW count \in Nat
  PROVE  WithTable(set, table, count) \in Records
<1>1. PICK n \in 2 .. Len(TableSizes) : set.size = TableSizes[n]
  BY RecordType
<1>2. WithTable(set, table, count)
        \in [size : {TableSizes[n]},
             table : [0 .. TableSizes[n] - 1 -> Item \cup {NULL}],
             itemCount : Nat]
  BY <1>1 DEF WithTable
<1>3. QED
  BY <1>1, <1>2 DEF Records

Updated(set, b, item, count) == [set EXCEPT !.table[b] = item, !.itemCount = count]

LEMMA UpdatedIs ==
  ASSUME NEW set \in Records, NEW b, NEW item, NEW count
  PROVE  Updated(set, b, item, count) = WithTable(set, [set.table EXCEPT ![b] = item], count)
<1>1. PICK size, table, old : set = [size |-> size, table |-> table, itemCount |-> old]
  BY RecordType
<1> DEFINE one == [size |-> size, table |-> [table EXCEPT ![b] = item], itemCount |-> old]
<1>2. [set EXCEPT !.table[b] = item, !.itemCount = count]
        = [[set EXCEPT !.table[b] = item] EXCEPT !.itemCount = count]
  BY <1>1
<1>3. [set EXCEPT !.table[b] = item] = one
  BY <1>1
<1>4. [one EXCEPT !.itemCount = count]
        = [size |-> size, table |-> [table EXCEPT ![b] = item], itemCount |-> count]
  OBVIOUS
<1>5. QED
  BY <1>1, <1>2, <1>3, <1>4 DEF Updated, WithTable

\* Place, where b is the bucket the probe ends at.
Filled(set, b, item) ==
  WithTable(set, [set.table EXCEPT ![b] = item],
            IF set.table[b] = NULL THEN set.itemCount + 1 ELSE set.itemCount)

\* What BRSetRemove does to bucket b before it adds an item again.
Emptied(set, b) == WithTable(set, [set.table EXCEPT ![b] = NULL], set.itemCount - 1)

LEMMA PlaceFills ==
  ASSUME NEW set \in Records, NEW item
  PROVE  Place(set, item) = Filled(set, Probe(set, item), item)
<1> DEFINE b == Probe(set, item)
           count == IF set.table[b] = NULL THEN set.itemCount + 1 ELSE set.itemCount
<1>1. Place(set, item) = Updated(set, b, item, count)
  BY DEF Place, Updated
<1>2. Filled(set, b, item) = WithTable(set, [set.table EXCEPT ![b] = item], count)
  BY DEF Filled
<1> HIDE DEF b, count
<1>3. QED
  BY <1>1, <1>2, UpdatedIs DEF b

LEMMA TakeEmpties ==
  ASSUME NEW set \in Records, NEW b
  PROVE  Take(set, b) = Emptied(set, b)
<1> DEFINE count == set.itemCount - 1
<1>1. Take(set, b) = Updated(set, b, NULL, count)
  BY DEF Take, Updated
<1>2. Emptied(set, b) = WithTable(set, [set.table EXCEPT ![b] = NULL], count)
  BY DEF Emptied
<1> HIDE DEF count
<1>3. QED
  BY <1>1, <1>2, UpdatedIs

\* The item put into bucket b takes the place of its equivalent, if there was one.
LEMMA FillKeeps ==
  ASSUME NEW set \in Records, Distinct(set), set.itemCount = Cardinality(Contents(set)),
         NEW item \in Item, NEW b \in 0 .. set.size - 1,
         set.table[b] = NULL \/ Eq(set.table[b], item),
         \A c \in 0 .. set.size - 1 : set.table[c] # NULL /\ Eq(set.table[c], item) => c = b
  PROVE  LET new == Filled(set, b, item)
         IN  /\ new \in Records
             /\ Distinct(new)
             /\ new.itemCount = Cardinality(Contents(new))
             /\ Contents(new) = Apart(Contents(set), {item}) \cup {item}
             /\ new.size = set.size
             /\ new.table = [set.table EXCEPT ![b] = item]
             /\ new.itemCount = IF set.table[b] = NULL THEN set.itemCount + 1 ELSE set.itemCount
<1> DEFINE new == Filled(set, b, item)
           N == set.size
           C == Contents(set)
<1>1. /\ set.table \in [0 .. N - 1 -> Item \cup {NULL}]
      /\ set.itemCount \in Nat /\ N \in Nat \ {0}
  BY RecordType
<1>2. /\ new.size = N
      /\ new.table = [set.table EXCEPT ![b] = item]
      /\ new.itemCount = IF set.table[b] = NULL THEN set.itemCount + 1 ELSE set.itemCount
  BY DEF Filled, WithTable
<1>3. new.table \in [0 .. N - 1 -> Item \cup {NULL}] /\ new.itemCount \in Nat
  BY <1>1, <1>2
<1>4. new \in Records
  BY <1>1, <1>3, WithTableType DEF Filled, WithTable
<1>5. /\ new.table[b] = item
      /\ \A c \in 0 .. N - 1 : c # b => new.table[c] = set.table[c]
  BY <1>1, <1>2
<1>6. item # NULL
  BY KeyAssumption
<1> HIDE DEF new
<1>7. Distinct(new)
  BY <1>2, <1>5, <1>6 DEF Distinct, Eq
<1>8. Contents(new) = {new.table[c] : c \in 0 .. N - 1} \ {NULL} /\ C = {set.table[c] : c \in 0 .. N - 1} \ {NULL}
  BY <1>1, <1>2, <1>3 DEF Contents
<1>9. Contents(new) = Apart(C, {item}) \cup {item}
  <2>1. \A c \in 0 .. N - 1 :
           c # b /\ set.table[c] # NULL => ~Eq(item, set.table[c])
    BY DEF Eq
  <2>2. set.table[b] # NULL => Eq(item, set.table[b])
    BY DEF Eq
  <2> HIDE DEF C
  <2>3. \A a \in Contents(new) : a \in Apart(C, {item}) \cup {item}
    BY <1>5, <1>8, <2>1 DEF Apart
  <2>4. \A a \in Apart(C, {item}) \cup {item} : a \in Contents(new)
    BY <1>5, <1>6, <1>8, <2>2 DEF Apart
  <2>5. QED
    BY <2>3, <2>4
<1>10. new.itemCount = Cardinality(Contents(new))
  <2>1. IsFiniteSet(C) /\ Cardinality(C) = set.itemCount
    BY ContentsType
  <2>2. CASE set.table[b] = NULL
    <3>1. Apart(C, {item}) = C /\ item \notin C
      BY <1>8, <2>2 DEF Apart, Eq
    <3> HIDE DEF C
    <3>2. Cardinality(C \cup {item}) = Cardinality(C) + 1
      BY <2>1, <3>1, FS_AddElement
    <3>3. QED
      BY <1>2, <1>9, <2>1, <2>2, <3>1, <3>2
  <2>3. CASE set.table[b] # NULL
    <3> DEFINE old == set.table[b]
    <3>1. old \in C /\ Apart(C, {item}) = C \ {old} /\ item \notin C \ {old}
      <4>1. \A a \in C : Eq(item, a) <=> a = old
        BY <1>8, <2>3 DEF Eq
      <4>2. old \in C
        BY <1>8, <2>3
      <4>3. item \in C => item = old
        BY <4>1 DEF Eq
      <4> HIDE DEF old, C
      <4>4. QED
        BY <4>1, <4>2, <4>3 DEF Apart
    <3> HIDE DEF C, old
    <3>2. IsFiniteSet(C \ {old}) /\ Cardinality(C \ {old}) = Cardinality(C) - 1
      BY <2>1, <3>1, FS_RemoveElement
    <3>3. Cardinality((C \ {old}) \cup {item}) = Cardinality(C \ {old}) + 1
      BY <3>1, <3>2, FS_AddElement
    <3>4. Cardinality(C) \in Nat
      BY <2>1, FS_CardinalityType
    <3>5. Cardinality(Contents(new)) = Cardinality(C)
      <4>1. Contents(new) = (C \ {old}) \cup {item}
        BY <1>9, <3>1
      <4>2. QED
        BY <3>2, <3>3, <3>4, <4>1
    <3>6. QED
      BY <1>2, <2>1, <2>3, <3>5
  <2>4. QED
    BY <2>2, <2>3
<1>11. QED
  BY <1>2, <1>4, <1>7, <1>9, <1>10 DEF new

LEMMA EmptyKeeps ==
  ASSUME NEW set \in Records, Distinct(set), set.itemCount = Cardinality(Contents(set)),
         NEW b \in 0 .. set.size - 1, set.table[b] # NULL
  PROVE  LET new == Emptied(set, b)
         IN  /\ new \in Records
             /\ Distinct(new)
             /\ new.itemCount = Cardinality(Contents(new))
             /\ Contents(new) = Contents(set) \ {set.table[b]}
             /\ new.size = set.size
             /\ new.table = [set.table EXCEPT ![b] = NULL]
             /\ new.itemCount = set.itemCount - 1
<1> DEFINE new == Emptied(set, b)
           N == set.size
           C == Contents(set)
           old == set.table[b]
<1>1. /\ set.table \in [0 .. N - 1 -> Item \cup {NULL}]
      /\ set.itemCount \in Nat /\ N \in Nat \ {0}
  BY RecordType
<1>2. /\ new.size = N
      /\ new.table = [set.table EXCEPT ![b] = NULL]
      /\ new.itemCount = set.itemCount - 1
  BY DEF Emptied, WithTable
<1>3. IsFiniteSet(C) /\ Cardinality(C) = set.itemCount
  BY ContentsType
<1>4. C = {set.table[c] : c \in 0 .. N - 1} \ {NULL} /\ old \in C
  BY <1>1 DEF Contents
<1>5. Cardinality(C \ {old}) = set.itemCount - 1 /\ set.itemCount - 1 \in Nat
  <2> HIDE DEF C, old
  <2>1. IsFiniteSet(C \ {old}) /\ Cardinality(C \ {old}) = Cardinality(C) - 1
    BY <1>3, <1>4, FS_RemoveElement
  <2>2. Cardinality(C \ {old}) \in Nat
    BY <2>1, FS_CardinalityType
  <2>3. QED
    BY <1>3, <2>1, <2>2
<1>6. new.table \in [0 .. N - 1 -> Item \cup {NULL}]
  BY <1>1, <1>2
<1>7. new \in Records
  BY <1>5, <1>6, <1>2, WithTableType DEF Emptied, WithTable
<1>8. /\ new.table[b] = NULL
      /\ \A c \in 0 .. N - 1 : c # b => new.table[c] = set.table[c]
  BY <1>1, <1>2
<1> HIDE DEF new
<1>9. Distinct(new)
  BY <1>2, <1>8 DEF Distinct, Eq
<1>10. Contents(new) = {new.table[c] : c \in 0 .. N - 1} \ {NULL}
  BY <1>2, <1>6 DEF Contents
<1>11. Contents(new) = C \ {old}
  <2>1. \A c \in 0 .. N - 1 : c # b /\ set.table[c] # NULL => set.table[c] # old
    BY DEF Distinct, Eq
  <2> HIDE DEF C, old
  <2>2. \A a : a \in Contents(new) <=> a \in C \ {old}
    BY <1>4, <1>8, <1>10, <2>1 DEF old
  <2>3. QED
    BY <2>2
<1>12. QED
  BY <1>2, <1>5, <1>7, <1>9, <1>11 DEF new

LEMMA PlaceShape ==
  ASSUME NEW set, WellFormed(set), NEW item \in Item
  PROVE  /\ Shape(Place(set, item))
         /\ Place(set, item).size = set.size
         /\ Place(set, item).itemCount <= set.itemCount + 1
         /\ Contents(Place(set, item)) = Apart(Contents(set), {item}) \cup {item}
<1> DEFINE b == Probe(set, item)
           new == Filled(set, b, item)
<1>1. /\ set \in Records /\ Distinct(set) /\ Chained(set)
      /\ set.itemCount = Cardinality(Contents(set))
  BY DEF WellFormed, Shape
<1>2. /\ Ends(set, item, b)
      /\ \A c \in 0 .. set.size - 1 :
            set.table[c] # NULL /\ Eq(set.table[c], item) => c = b
  BY ProbeFinds
<1>3. Place(set, item) = new
  BY <1>1, PlaceFills
<1> HIDE DEF b
<1>4. b \in 0 .. set.size - 1 /\ (set.table[b] = NULL \/ Eq(set.table[b], item))
  BY <1>2 DEF Ends
<1>5. /\ new \in Records
      /\ Distinct(new)
      /\ new.itemCount = Cardinality(Contents(new))
      /\ Contents(new) = Apart(Contents(set), {item}) \cup {item}
      /\ new.size = set.size
      /\ new.table = [set.table EXCEPT ![b] = item]
      /\ new.itemCount = IF set.table[b] = NULL THEN set.itemCount + 1 ELSE set.itemCount
  BY <1>1, <1>2, <1>4, FillKeeps
<1> HIDE DEF new
<1>6. set.table \in [0 .. set.size - 1 -> Item \cup {NULL}] /\ set.itemCount \in Nat
  BY <1>1, RecordType
<1>7. new.table[b] = item /\ \A c \in 0 .. set.size - 1 : c # b => new.table[c] = set.table[c]
  BY <1>4, <1>5, <1>6
<1>8. item # NULL
  BY KeyAssumption
<1>9. \A x : Home(new, x) = Home(set, x)
  BY <1>5 DEF Home
<1>10. Chained(new)
  <2> SUFFICES ASSUME NEW a \in 0 .. set.size - 1, new.table[a] # NULL
               PROVE  Reaches(new, new.table[a], a)
    BY <1>5 DEF Chained
  <2>1. CASE a = b
    BY <1>2, <1>5, <1>7, <1>8, <1>9, <2>1 DEF Reaches, Ends
  <2>2. CASE a # b
    <3>1. Reaches(set, set.table[a], a) /\ new.table[a] = set.table[a]
      BY <1>1, <1>7, <2>2 DEF Chained
    <3>2. QED
      BY <1>5, <1>7, <1>8, <1>9, <3>1 DEF Reaches
  <2>3. QED
    BY <2>1, <2>2
<1>11. new.itemCount <= set.itemCount + 1
  BY <1>5, <1>6
<1>12. QED
  BY <1>3, <1>5, <1>10, <1>11 DEF Shape

-----------------------------------------------------------------------------
(* A new table, and growth *)

LEMMA InitSizeIs ==
  ASSUME NEW capacity \in 0 .. TableSizes[Len(TableSizes) - 1]
  PROVE  /\ \E n \in 2 .. Len(TableSizes) : InitSize(capacity) = TableSizes[n]
         /\ \A n \in 2 .. Len(TableSizes) - 1 :
               capacity = TableSizes[n] => InitSize(capacity) = TableSizes[n + 1]
<1> DEFINE First(n) == /\ TableSizes[n] >= capacity
                       /\ \A m \in 1 .. n - 1 : TableSizes[m] < capacity
           first == CHOOSE n \in DOMAIN TableSizes : First(n)
           Big == {n \in DOMAIN TableSizes : TableSizes[n] >= capacity}
           L == Len(TableSizes)
<1>1. /\ L \in Nat /\ L >= 2 /\ DOMAIN TableSizes = 1 .. L
      /\ \A n \in 1 .. L : TableSizes[n] \in Nat
      /\ \A m, n \in 1 .. L : m < n => TableSizes[m] < TableSizes[n]
  BY SizesAssumption, CapacityAssumption
<1>2. capacity \in Nat /\ capacity <= TableSizes[L - 1]
  BY <1>1
<1>3. PICK k \in Big : \A n \in Big : k <= n
  <2>1. L - 1 \in Big /\ Big \subseteq Nat
    BY <1>1, <1>2
  <2> HIDE DEF Big
  <2>2. QED
    BY <2>1, LeastNumber
<1>4. k \in 1 .. L - 1 /\ First(k)
  <2>1. k <= L - 1 /\ k \in 1 .. L
    <3>1. L - 1 \in Big
      BY <1>1, <1>2
    <3>2. QED
      BY <1>1, <1>3, <3>1
  <2>2. ASSUME NEW m \in 1 .. k - 1 PROVE TableSizes[m] < capacity
    <3>1. m \in 1 .. L /\ ~(k <= m)
      BY <1>1, <2>1
    <3>2. m \notin Big
      BY <1>3, <3>1
    <3>3. QED
      BY <1>1, <1>2, <3>1, <3>2
  <2>3. QED
    BY <1>1, <1>3, <2>1, <2>2
<1>5. first \in 1 .. L /\ First(first)
  <2> HIDE DEF First
  <2>1. QED
    BY <1>1, <1>4
<1>6. InitSize(capacity) = TableSizes[first + 1]
  BY DEF InitSize
<1> HIDE DEF first
<1>7. \A n \in 1 .. L : First(n) => n = first
  <2> SUFFICES ASSUME NEW n \in 1 .. L, First(n) PROVE n = first
    OBVIOUS
  <2>1. ~(n < first) /\ ~(first < n)
    <3>1. n < first => n \in 1 .. first - 1
      BY <1>1, <1>5
    <3>2. first < n => first \in 1 .. n - 1
      BY <1>1, <1>5
    <3>3. TableSizes[n] \in Nat /\ TableSizes[first] \in Nat
      BY <1>1, <1>5
    <3>4. QED
      BY <1>2, <1>5, <3>1, <3>2, <3>3
  <2>2. QED
    BY <1>5, <2>1
<1>8. first = k
  BY <1>1, <1>4, <1>7
<1>9. ASSUME NEW n \in 2 .. L - 1, capacity = TableSizes[n] PROVE first = n
  <2>1. First(n) /\ n \in 1 .. L
    BY <1>1, <1>2, <1>9
  <2>2. QED
    BY <1>7, <2>1
<1>10. QED
  BY <1>1, <1>4, <1>6, <1>8, <1>9

LEMMA InitWellFormed ==
  ASSUME NEW capacity \in 0 .. TableSizes[Len(TableSizes) - 1]
  PROVE  /\ WellFormed(SetInit(capacity))
         /\ Contents(SetInit(capacity)) = {}
         /\ SetInit(capacity).size = InitSize(capacity)
<1> DEFINE set == SetInit(capacity)
<1>1. PICK n \in 2 .. Len(TableSizes) : InitSize(capacity) = TableSizes[n]
  BY InitSizeIs
<1>2. /\ set.size = TableSizes[n]
      /\ set.table = [b \in 0 .. TableSizes[n] - 1 |-> NULL]
      /\ set.itemCount = 0
      /\ set = [size |-> set.size, table |-> set.table, itemCount |-> set.itemCount]
  BY <1>1 DEF SetInit
<1> HIDE DEF set
<1>3. set \in Records
  BY <1>2 DEF Records
<1>4. Contents(set) = {}
  BY <1>2 DEF Contents
<1>5. Distinct(set) /\ Chained(set)
  BY <1>2 DEF Distinct, Chained
<1>6. Shape(set) /\ set.itemCount <= Threshold(set.size)
  BY <1>2, <1>3, <1>4, <1>5, FS_EmptySet, RecordType DEF Shape
<1>7. set.size = InitSize(capacity)
  BY <1>1, <1>2
<1>8. QED
  BY <1>4, <1>6, <1>7 DEF set, WellFormed

-----------------------------------------------------------------------------
(* A loop over the buckets of a table *)

\* the items of the first n buckets
Before(set, n) == {set.table[b] : b \in 0 .. n - 1} \ {NULL}

LEMMA BeforeSteps ==
  ASSUME NEW set \in Records, Distinct(set)
  PROVE  /\ Before(set, 0) = {}
         /\ Before(set, set.size) = Contents(set)
         /\ \A n \in 0 .. set.size : Before(set, n) \subseteq Contents(set)
         /\ \A n \in 1 .. set.size :
               \/ set.table[n - 1] = NULL /\ Before(set, n) = Before(set, n - 1)
               \/ /\ set.table[n - 1] # NULL /\ set.table[n - 1] \in Item
                  /\ Before(set, n) = Before(set, n - 1) \cup {set.table[n - 1]}
                  /\ \A a \in Before(set, n - 1) : ~Eq(a, set.table[n - 1])
<1>1. set.table \in [0 .. set.size - 1 -> Item \cup {NULL}] /\ set.size \in Nat \ {0}
  BY RecordType
<1>2. Contents(set) = {set.table[b] : b \in 0 .. set.size - 1} \ {NULL}
  BY <1>1 DEF Contents
<1>3. Before(set, 0) = {} /\ Before(set, set.size) = Contents(set)
  BY <1>1, <1>2 DEF Before
<1>4. ASSUME NEW n \in 0 .. set.size PROVE Before(set, n) \subseteq Contents(set)
  BY <1>1, <1>2 DEF Before
<1>5. ASSUME NEW n \in 1 .. set.size
      PROVE  \/ set.table[n - 1] = NULL /\ Before(set, n) = Before(set, n - 1)
             \/ /\ set.table[n - 1] # NULL /\ set.table[n - 1] \in Item
                /\ Before(set, n) = Before(set, n - 1) \cup {set.table[n - 1]}
                /\ \A a \in Before(set, n - 1) : ~Eq(a, set.table[n - 1])
  <2>1. n - 1 \in 0 .. set.size - 1
    BY <1>1
  <2>2. \A b : b \in 0 .. n - 1 <=> (b \in 0 .. (n - 1) - 1 \/ b = n - 1)
    BY <1>1
  <2>3. Before(set, n) = ({set.table[b] : b \in 0 .. (n - 1) - 1} \cup {set.table[n - 1]}) \ {NULL}
    BY <2>2 DEF Before
  <2>4. CASE set.table[n - 1] = NULL
    BY <2>3, <2>4 DEF Before
  <2>5. CASE set.table[n - 1] # NULL
    <3>1. set.table[n - 1] \in Item
      BY <1>1, <2>1, <2>5
    <3>2. Before(set, n) = Before(set, n - 1) \cup {set.table[n - 1]}
      BY <2>3, <2>5 DEF Before
    <3>3. ASSUME NEW b \in 0 .. (n - 1) - 1, set.table[b] # NULL
          PROVE  ~Eq(set.table[b], set.table[n - 1])
      <4>1. b \in 0 .. set.size - 1 /\ b # n - 1
        BY <1>1
      <4>2. QED
        BY <2>1, <2>5, <3>3, <4>1 DEF Distinct
    <3>4. QED
      BY <2>5, <3>1, <3>2, <3>3 DEF Before
  <2>6. QED
    BY <2>4, <2>5
<1>6. QED
  BY <1>3, <1>4, <1>5

\* A table that is one item too full grows into one that is not.
LEMMA GrowWellFormed ==
  ASSUME NEW set, Shape(set), set.itemCount <= Threshold(set.size) + 1,
         set.itemCount > Threshold(set.size)
  PROVE  /\ WellFormed(SetGrow(set, set.size))
         /\ Contents(SetGrow(set, set.size)) = Contents(set)
<1> DEFINE L == Len(TableSizes)
           N == set.size
           start == SetInit(N)
           M == start.size
           Turn(x, n) == LET t == set.table[n - 1]
                         IN  IF t = NULL THEN x ELSE Place(x, t)
           After(f) == [n \in 0 .. N |-> IF n = 0 THEN start ELSE Turn(f[n - 1], n)]
           after[n \in 0 .. N] ==
             IF n = 0 THEN start
             ELSE LET t == set.table[n - 1]
                  IN  IF t = NULL THEN after[n - 1] ELSE Place(after[n - 1], t)
           Copied(x, n) == /\ WellFormed(x) /\ x.size = M
                           /\ Contents(x) = Before(set, n)
           X == [n \in 0 .. N |-> {x \in Records : Copied(x, n)}]
           G == [n \in 1 .. N |-> [x \in Records |-> Turn(x, n)]]
<1>1. set \in Records /\ Distinct(set) /\ set.itemCount = Cardinality(Contents(set))
  BY DEF Shape
<1>2. PICK n \in 2 .. L - 1 : N = TableSizes[n]
  <2>1. PICK n \in 2 .. L : N = TableSizes[n]
    BY <1>1, RecordType
  <2>2. set.itemCount <= Threshold(TableSizes[L])
    BY <1>1, ContentsType
  <2>3. n # L
    BY <1>1, <2>1, <2>2, RecordType
  <2>4. L \in Nat
    BY SizesAssumption
  <2>5. QED
    BY <2>1, <2>3, <2>4
<1>3. N \in 0 .. TableSizes[L - 1] /\ N \in Nat
  BY <1>2, SizesAssumption
<1>4. /\ WellFormed(start) /\ Contents(start) = {} /\ M = TableSizes[n + 1]
  BY <1>2, <1>3, InitWellFormed, InitSizeIs
<1>5. Threshold(N) + 1 <= Threshold(M)
  <2>1. Threshold(N) < Threshold(M)
    BY <1>2, <1>4, SizesAssumption
  <2>2. Threshold(N) \in Nat /\ Threshold(M) \in Nat
    BY <1>1, <1>4, RecordType DEF WellFormed, Shape
  <2>3. QED
    BY <2>1, <2>2
<1>6. \A k \in 1 .. N : \A x \in Records : Copied(x, k - 1) => Copied(Turn(x, k), k)
  <2> SUFFICES ASSUME NEW k \in 1 .. N, NEW x \in Records, Copied(x, k - 1)
               PROVE  Copied(Turn(x, k), k)
    OBVIOUS
  <2> DEFINE t == set.table[k - 1]
  <2>1. CASE t = NULL
    <3>1. Before(set, k) = Before(set, k - 1)
      BY <1>1, <2>1, BeforeSteps
    <3>2. QED
      BY <2>1, <3>1
  <2>2. CASE t # NULL
    <3> DEFINE y == Place(x, t)
    <3>1. /\ t \in Item
          /\ Before(set, k) = Before(set, k - 1) \cup {t}
          /\ \A a \in Before(set, k - 1) : ~Eq(a, t)
          /\ Before(set, k) \subseteq Contents(set)
      BY <1>1, <1>3, <2>2, BeforeSteps
    <3>2. /\ Shape(y) /\ y.size = M
          /\ Contents(y) = Apart(Contents(x), {t}) \cup {t}
      <4> HIDE DEF t, M
      <4>1. QED
        BY <3>1, PlaceShape
    <3>3. Contents(y) = Before(set, k)
      <4> HIDE DEF y, t, M
      <4>1. Apart(Before(set, k - 1), {t}) = Before(set, k - 1)
        BY <3>1 DEF Apart, Eq
      <4>2. QED
        BY <3>1, <3>2, <4>1
    <3>4. y.itemCount <= Threshold(M)
      <4> HIDE DEF y, t, M
      <4>1. y.itemCount = Cardinality(Contents(y))
        BY <3>2 DEF Shape
      <4>2. IsFiniteSet(Contents(set)) /\ Cardinality(Contents(set)) = set.itemCount
        BY <1>1, ContentsType
      <4>3. /\ Cardinality(Contents(y)) <= set.itemCount
            /\ Cardinality(Contents(y)) \in Nat /\ set.itemCount \in Nat
        BY <3>1, <3>3, <4>2, FS_Subset, FS_CardinalityType
      <4>4. Threshold(N) \in Nat /\ Threshold(M) \in Nat
        BY <1>1, <3>2, RecordType DEF Shape
      <4>5. QED
        BY <1>5, <4>1, <4>3, <4>4
    <3>5. QED
      BY <2>2, <3>2, <3>3, <3>4 DEF WellFormed
  <2>3. QED
    BY <2>1, <2>2
<1>7. \A x : WellFormed(x) => x \in Records
  BY DEF WellFormed, Shape
<1>8. start \in X[0]
  <2>1. Before(set, 0) = {}
    BY <1>1, BeforeSteps
  <2>2. Copied(start, 0)
    BY <1>4, <2>1
  <2> HIDE DEF Copied, start
  <2>3. start \in Records
    BY <1>7, <2>2 DEF Copied
  <2>4. QED
    BY <1>3, <2>2, <2>3
<1>9. \A k \in 1 .. N : \A x \in X[k - 1] : G[k][x] = Turn(x, k) /\ Turn(x, k) \in X[k]
  <2> SUFFICES ASSUME NEW k \in 1 .. N, NEW x \in X[k - 1]
               PROVE  G[k][x] = Turn(x, k) /\ Turn(x, k) \in X[k]
    OBVIOUS
  <2>1. k - 1 \in 0 .. N /\ k \in 0 .. N
    BY <1>3
  <2> HIDE DEF Turn, Copied
  <2>2. x \in Records /\ Copied(x, k - 1)
    BY <2>1
  <2>3. Copied(Turn(x, k), k)
    BY <1>6, <2>2
  <2>4. Turn(x, k) \in Records
    BY <1>7, <2>3 DEF Copied
  <2>5. QED
    BY <2>1, <2>2, <2>3, <2>4
<1>10. SetGrow(set, N) = after[N]
  BY DEF SetGrow
<1> HIDE DEF N, start, X, G, Turn
<1>11. after = After(after)
  <2>1. PICK f : Turns(f, N, start, X, G)
    BY <1>3, <1>8, <1>9, LoopRuns
  <2>2. \A k \in 1 .. N : f[k] = Turn(f[k - 1], k)
    <3> SUFFICES ASSUME NEW k \in 1 .. N PROVE f[k] = Turn(f[k - 1], k)
      OBVIOUS
    <3>1. k - 1 \in 0 .. N
      BY <1>3
    <3>2. f[k - 1] \in X[k - 1] /\ f[k] = G[k][f[k - 1]]
      BY <2>1, <3>1 DEF Turns
    <3>3. QED
      BY <1>9, <3>2
  <2>3. f = After(f)
    <3>1. \A k \in 0 .. N : f[k] = IF k = 0 THEN start ELSE Turn(f[k - 1], k)
      <4>1. \A k \in 0 .. N : k = 0 \/ k \in 1 .. N
        BY <1>3
      <4>2. f[0] = start
        BY <2>1 DEF Turns
      <4>3. QED
        BY <2>2, <4>1, <4>2
    <3>2. f = [k \in 0 .. N |-> f[k]]
      BY <2>1 DEF Turns
    <3>3. QED
      BY <3>1, <3>2
  <2>4. QED
    BY <2>3 DEF Turn
<1> HIDE DEF after
<1>12. after[N] \in X[N]
  <2>1. after[0] \in X[0]
    BY <1>3, <1>8, <1>11
  <2>2. \A k \in 1 .. N : after[k - 1] \in X[k - 1] => after[k] \in X[k]
    <3> SUFFICES ASSUME NEW k \in 1 .. N, after[k - 1] \in X[k - 1] PROVE after[k] \in X[k]
      OBVIOUS
    <3>1. k \in 0 .. N /\ k # 0
      BY <1>3
    <3>2. after[k] = Turn(after[k - 1], k)
      BY <1>11, <3>1
    <3>3. QED
      BY <1>9, <3>2
  <2>3. \A k \in 0 .. N : after[k] \in X[k]
    BY <1>3, <2>1, <2>2, LoopKeeps
  <2>4. QED
    BY <1>3, <2>3
<1>13. Copied(after[N], N)
  BY <1>3, <1>12 DEF X
<1>14. QED
  <2>1. Before(set, N) = Contents(set)
    BY <1>1, BeforeSteps DEF N
  <2>2. QED
    BY <1>10, <1>13, <2>1 DEF N

LEMMA AddWellFormed ==
  ASSUME NEW set, WellFormed(set), NEW item \in Item
  PROVE  /\ WellFormed(SetAdd(set, item))
         /\ Contents(SetAdd(set, item)) = Apart(Contents(set), {item}) \cup {item}
<1> DEFINE placed == Place(set, item)
<1>1. /\ Shape(placed) /\ placed.size = set.size
      /\ placed.itemCount <= set.itemCount + 1
      /\ Contents(placed) = Apart(Contents(set), {item}) \cup {item}
  BY PlaceShape
<1>2. /\ set.itemCount \in Nat /\ Threshold(set.size) \in Nat
      /\ set.itemCount <= Threshold(set.size) /\ placed.itemCount \in Nat
  BY <1>1, RecordType DEF WellFormed, Shape
<1>3. SetAdd(set, item) = IF placed.itemCount > Threshold(set.size)
                          THEN SetGrow(placed, set.size) ELSE placed
  BY DEF SetAdd
<1> HIDE DEF placed
<1>4. CASE placed.itemCount > Threshold(set.size)
  <2>1. placed.itemCount <= Threshold(set.size) + 1
    BY <1>1, <1>2
  <2>2. WellFormed(SetGrow(placed, placed.size))
        /\ Contents(SetGrow(placed, placed.size)) = Contents(placed)
    BY <1>1, <1>4, <2>1, GrowWellFormed
  <2>3. QED
    BY <1>1, <1>3, <1>4, <2>2
<1>5. CASE ~(placed.itemCount > Threshold(set.size))
  <2>1. placed.itemCount <= Threshold(placed.size)
    BY <1>1, <1>2, <1>5
  <2>2. QED
    BY <1>1, <1>3, <1>5, <2>1 DEF WellFormed
<1>6. QED
  BY <1>4, <1>5

-----------------------------------------------------------------------------
(* The cleanup behind a removed item *)

\* Reaches, seen in the line that ends with e.
Straight(set, e, item, c) ==
  LET L(x) == Line(set.size, e, x)
      h == Home(set, item)
  IN  /\ L(h) <= L(c)
      /\ \A a \in 0 .. set.size - 1 : L(h) <= L(a) /\ L(a) < L(c) => set.table[a] # NULL

LEMMA ReachesIsStraight ==
  ASSUME NEW set \in Records, NEW e \in 0 .. set.size - 1, set.table[e] = NULL,
         NEW c \in 0 .. set.size - 1, NEW item \in Item
  PROVE  Reaches(set, item, c) <=> Straight(set, e, item, c)
<1> DEFINE h == Home(set, item)
           N == set.size
<1>1. N \in Nat \ {0} /\ h \in 0 .. N - 1
  BY RecordType, HomeType
<1>2. /\ ~(Dist(N, h, e) < Dist(N, h, c)) => Line(N, e, h) <= Line(N, e, c)
      /\ Line(N, e, h) <= Line(N, e, c) =>
           \A a \in 0 .. N - 1 :
              Dist(N, h, a) < Dist(N, h, c)
                <=> (Line(N, e, h) <= Line(N, e, a) /\ Line(N, e, a) < Line(N, e, c))
  <2> HIDE DEF h, N
  <2>1. e \in 0 .. N - 1 /\ c \in 0 .. N - 1
    BY DEF N
  <2>2. QED
    BY <1>1, <2>1, LineUp
<1>3. ASSUME Reaches(set, item, c) PROVE Straight(set, e, item, c)
  <2>1. \A a \in 0 .. N - 1 : Dist(N, h, a) < Dist(N, h, c) => set.table[a] # NULL
    BY <1>3 DEF Reaches
  <2>2. ~(Dist(N, h, e) < Dist(N, h, c))
    BY <2>1
  <2>3. QED
    BY <1>2, <2>1, <2>2 DEF Straight
<1>4. ASSUME Straight(set, e, item, c) PROVE Reaches(set, item, c)
  BY <1>2, <1>4 DEF Straight, Reaches
<1>5. QED
  BY <1>3, <1>4

\* An item of s was in set at the same bucket or, in the line, at or behind the
\* bucket it is at now, and that is not before b.
Moved(set, b, e, s) ==
  LET L(x) == Line(set.size, e, x)
  IN  \A c \in 0 .. set.size - 1 :
         s.table[c] # NULL =>
           \E d \in 0 .. set.size - 1 :
              /\ set.table[d] = s.table[c]
              /\ d = c \/ (L(b) <= L(c) /\ L(c) <= L(d))

\* s is set without the item of bucket b.
WithoutItem(set, b, s) ==
  /\ s \in Records
  /\ s.size = set.size
  /\ Distinct(s)
  /\ s.itemCount = Cardinality(Contents(s))
  /\ Contents(s) = Contents(set) \ {set.table[b]}

\* k buckets behind b are cleaned up, none of which was empty.
Cleaning(set, b, e, s, k) ==
  LET L(x) == Line(set.size, e, x)
  IN  /\ WithoutItem(set, b, s)
      /\ Moved(set, b, e, s)
      /\ L(b) + k < L(e)
      /\ \A c \in 0 .. set.size - 1 :
            L(c) < L(b) \/ L(c) > L(b) + k => s.table[c] = set.table[c]
      /\ \A c \in 0 .. set.size - 1 :
            L(c) <= L(b) + k /\ s.table[c] # NULL => Straight(s, e, s.table[c], c)

\* An empty bucket was met.
Cleaned(set, b, e, s) ==
  WellFormed(s) /\ WithoutItem(set, b, s) /\ Moved(set, b, e, s)

\* The table, its empty bucket e and the bucket b whose item is removed.
Removing(set, b, e) ==
  /\ WellFormed(set)
  /\ b \in 0 .. set.size - 1 /\ set.table[b] # NULL
  /\ e \in 0 .. set.size - 1 /\ set.table[e] = NULL

LEMMA ItemsStraight ==
  ASSUME NEW set, NEW b, NEW e, Removing(set, b, e)
  PROVE  /\ set \in Records /\ Distinct(set) /\ Chained(set)
         /\ set.itemCount = Cardinality(Contents(set))
         /\ set.size \in Nat \ {0}
         /\ \A c \in 0 .. set.size - 1 :
               Line(set.size, e, c) \in Nat /\ Line(set.size, e, c) <= Line(set.size, e, e)
         /\ \A c, d \in 0 .. set.size - 1 : Line(set.size, e, c) = Line(set.size, e, d) => c = d
         /\ \A x \in Item : Line(set.size, e, Home(set, x)) \in Nat
         /\ \A c \in 0 .. set.size - 1 :
               set.table[c] # NULL =>
                 set.table[c] \in Item /\ Straight(set, e, set.table[c], c)
<1>1. /\ set \in Records /\ Distinct(set) /\ Chained(set)
      /\ set.itemCount = Cardinality(Contents(set))
      /\ e \in 0 .. set.size - 1 /\ set.table[e] = NULL
  BY DEF Removing, WellFormed, Shape
<1>2. set.size \in Nat \ {0} /\ set.table \in [0 .. set.size - 1 -> Item \cup {NULL}]
  BY <1>1, RecordType
<1>3. /\ \A c \in 0 .. set.size - 1 :
            Line(set.size, e, c) \in 0 .. set.size - 1 /\ Line(set.size, e, e) = set.size - 1
      /\ \A c, d \in 0 .. set.size - 1 : Line(set.size, e, c) = Line(set.size, e, d) => c = d
  BY <1>1, <1>2, LineType
<1>4. \A x \in Item : Home(set, x) \in 0 .. set.size - 1
  BY <1>1, HomeType
<1>5. \A c \in 0 .. set.size - 1 :
         set.table[c] # NULL => set.table[c] \in Item /\ Straight(set, e, set.table[c], c)
  BY <1>1, <1>2, ReachesIsStraight DEF Chained
<1>6. \A c \in 0 .. set.size - 1 :
         Line(set.size, e, c) \in Nat /\ Line(set.size, e, c) <= Line(set.size, e, e)
  BY <1>1, <1>2, <1>3
<1>7. QED
  BY <1>1, <1>2, <1>3, <1>4, <1>5, <1>6

LEMMA CleanStart ==
  ASSUME NEW set, NEW b, NEW e, Removing(set, b, e)
  PROVE  Cleaning(set, b, e, Take(set, b), 0)
<1> DEFINE s == Emptied(set, b)
           L(x) == Line(set.size, e, x)
<1>1. /\ set \in Records /\ Distinct(set)
      /\ set.itemCount = Cardinality(Contents(set))
      /\ set.size \in Nat \ {0}
  BY ItemsStraight
<1>2. b \in 0 .. set.size - 1 /\ set.table[b] # NULL /\ e \in 0 .. set.size - 1 /\ set.table[e] = NULL
  BY DEF Removing
<1>3. Take(set, b) = s
  BY <1>1, TakeEmpties
<1>4. /\ WithoutItem(set, b, s)
      /\ s.size = set.size
      /\ s.table = [set.table EXCEPT ![b] = NULL]
  BY <1>1, <1>2, EmptyKeeps DEF WithoutItem
<1> HIDE DEF s
<1>5. set.table \in [0 .. set.size - 1 -> Item \cup {NULL}]
  BY <1>1, RecordType
<1>6. s.table[b] = NULL /\ \A c \in 0 .. set.size - 1 : c # b => s.table[c] = set.table[c]
  BY <1>2, <1>4, <1>5
<1>7. Moved(set, b, e, s)
  BY <1>6 DEF Moved
<1>8. /\ \A c \in 0 .. set.size - 1 : L(c) \in Nat /\ L(c) <= L(e)
      /\ \A c, d \in 0 .. set.size - 1 : L(c) = L(d) => c = d
  BY ItemsStraight
<1>9. L(b) + 0 < L(e)
  BY <1>2, <1>8
<1>10. \A c \in 0 .. set.size - 1 : L(c) < L(b) \/ L(c) > L(b) + 0 => s.table[c] = set.table[c]
  BY <1>2, <1>6, <1>8
<1>11. ASSUME NEW c \in 0 .. set.size - 1, L(c) <= L(b) + 0, s.table[c] # NULL
       PROVE  Straight(s, e, s.table[c], c)
  <2>1. c # b /\ s.table[c] = set.table[c] /\ L(c) < L(b)
    BY <1>2, <1>6, <1>8, <1>11
  <2>2. Straight(set, e, set.table[c], c)
    BY <1>11, <2>1, ItemsStraight
  <2>3. \A x : Home(s, x) = Home(set, x)
    BY <1>4 DEF Home
  <2>4. ASSUME NEW a \in 0 .. set.size - 1, L(a) < L(c) PROVE s.table[a] = set.table[a]
    BY <1>2, <1>6, <1>8, <2>1, <2>4
  <2>5. QED
    BY <1>4, <2>1, <2>2, <2>3, <2>4 DEF Straight
<1>12. QED
  BY <1>3, <1>4, <1>7, <1>9, <1>10, <1>11 DEF Cleaning

\* What Cleaning says of the next bucket in the line, q.
LEMMA NextToClean ==
  ASSUME NEW set, NEW b, NEW e, Removing(set, b, e),
         NEW s, NEW k \in Nat, Cleaning(set, b, e, s, k),
         NEW q \in 0 .. set.size - 1,
         Line(set.size, e, q) = Line(set.size, e, b) + k + 1
  PROVE  /\ s \in Records /\ s.size = set.size /\ Distinct(s)
         /\ s.itemCount = Cardinality(Contents(s))
         /\ s.itemCount \in Nat
         /\ s.itemCount <= Threshold(s.size)
         /\ s.table \in [0 .. set.size - 1 -> Item \cup {NULL}]
         /\ s.table[q] = set.table[q]
         /\ s.table[e] = NULL
         /\ \A x : Home(s, x) = Home(set, x)
<1> DEFINE L(x) == Line(set.size, e, x)
           C == Contents(set)
           r == set.table[b]
<1>1. WithoutItem(set, b, s)
  BY DEF Cleaning
<1>2. /\ s \in Records /\ s.size = set.size /\ Distinct(s)
      /\ s.itemCount = Cardinality(Contents(s))
      /\ Contents(s) = C \ {r}
  BY <1>1 DEF WithoutItem
<1>3. s.table \in [0 .. set.size - 1 -> Item \cup {NULL}] /\ s.itemCount \in Nat
      /\ Threshold(set.size) \in Nat
  BY <1>2, RecordType
<1>4. \A c \in 0 .. set.size - 1 : L(c) \in Nat
  BY ItemsStraight
<1>5. e \in 0 .. set.size - 1 /\ set.table[e] = NULL /\ b \in 0 .. set.size - 1
  BY DEF Removing
<1>6. s.table[q] = set.table[q] /\ s.table[e] = set.table[e]
  <2>1. L(q) > L(b) + k
    BY <1>4, <1>5
  <2>2. L(e) > L(b) + k
    BY <1>4, <1>5 DEF Cleaning
  <2>3. QED
    BY <1>5, <2>1, <2>2 DEF Cleaning
<1>7. s.itemCount <= Threshold(s.size)
  <2>1. IsFiniteSet(C) /\ set.itemCount = Cardinality(C)
    BY ContentsType, ItemsStraight
  <2>2. set.itemCount <= Threshold(set.size)
    BY DEF Removing, WellFormed
  <2> HIDE DEF C, r
  <2>3. Cardinality(C \ {r}) <= Cardinality(C) /\ Cardinality(C) \in Nat
        /\ Cardinality(C \ {r}) \in Nat
    BY <2>1, FS_Subset, FS_CardinalityType
  <2>4. QED
    BY <1>2, <1>3, <2>1, <2>2, <2>3
<1>8. \A x : Home(s, x) = Home(set, x)
  BY <1>2 DEF Home
<1>9. QED
  BY <1>2, <1>3, <1>5, <1>6, <1>7, <1>8

\* An empty bucket ends the cleanup: no way to an item behind it leads through it.
LEMMA CleanEnd ==
  ASSUME NEW set, NEW b, NEW e, Removing(set, b, e),
         NEW s, NEW k \in Nat, Cleaning(set, b, e, s, k),
         NEW q \in 0 .. set.size - 1,
         Line(set.size, e, q) = Line(set.size, e, b) + k + 1,
         s.table[q] = NULL
  PROVE  Cleaned(set, b, e, s)
<1> DEFINE N == set.size
           L(x) == Line(N, e, x)
<1>1. /\ s \in Records /\ s.size = N /\ Distinct(s)
      /\ s.itemCount = Cardinality(Contents(s))
      /\ s.itemCount <= Threshold(s.size)
      /\ s.table \in [0 .. N - 1 -> Item \cup {NULL}]
      /\ s.table[e] = NULL /\ set.table[q] = NULL
      /\ \A x : Home(s, x) = Home(set, x)
  BY NextToClean
<1>2. /\ \A c \in 0 .. N - 1 : L(c) \in Nat
      /\ \A c, d \in 0 .. N - 1 : L(c) = L(d) => c = d
      /\ \A x \in Item : L(Home(set, x)) \in Nat
      /\ \A c \in 0 .. N - 1 :
            set.table[c] # NULL => Straight(set, e, set.table[c], c)
  BY ItemsStraight
<1>3. b \in 0 .. N - 1 /\ e \in 0 .. N - 1
  BY DEF Removing
<1>4. /\ \A c \in 0 .. N - 1 : L(c) > L(b) + k => s.table[c] = set.table[c]
      /\ \A c \in 0 .. N - 1 :
            L(c) <= L(b) + k /\ s.table[c] # NULL => Straight(s, e, s.table[c], c)
  BY DEF Cleaning
<1>5. ASSUME NEW c \in 0 .. N - 1, s.table[c] # NULL
      PROVE  Reaches(s, s.table[c], c)
  <2> DEFINE i == s.table[c]
             h == Home(set, i)
  <2>1. i \in Item
    BY <1>1, <1>5
  <2>2. Straight(s, e, i, c)
    <3>1. CASE L(c) <= L(b) + k
      BY <1>4, <1>5, <3>1
    <3>2. CASE ~(L(c) <= L(b) + k)
      <4>1. L(c) > L(b) + k /\ c # q /\ L(c) \in Nat /\ L(b) \in Nat
        BY <1>2, <1>3, <1>5, <3>2
      <4>2. L(c) > L(q) /\ i = set.table[c]
        BY <1>2, <1>4, <4>1
      <4>3. /\ L(h) <= L(c)
            /\ \A a \in 0 .. N - 1 : L(h) <= L(a) /\ L(a) < L(c) => set.table[a] # NULL
        BY <1>2, <1>5, <4>2 DEF Straight
      <4>4. L(h) > L(q)
        <5>1. ~(L(h) <= L(q))
          BY <1>1, <4>2, <4>3
        <5>2. L(h) \in Nat /\ L(q) \in Nat
          BY <1>2, <2>1
        <5>3. QED
          BY <5>1, <5>2
      <4>5. ASSUME NEW a \in 0 .. N - 1, L(h) <= L(a), L(a) < L(c)
            PROVE  s.table[a] # NULL
        <5>1. L(a) > L(b) + k
          <6>1. L(a) \in Nat /\ L(h) \in Nat /\ L(q) \in Nat
            BY <1>2, <2>1
          <6>2. QED
            BY <4>1, <4>4, <4>5, <6>1
        <5>2. QED
          BY <1>4, <4>3, <4>5, <5>1
      <4>6. QED
        BY <1>1, <4>3, <4>5 DEF Straight
    <3>3. QED
      BY <3>1, <3>2
  <2> HIDE DEF i
  <2>3. QED
    BY <1>1, <1>3, <2>1, <2>2, ReachesIsStraight DEF i
<1>6. WellFormed(s)
  BY <1>1, <1>5 DEF WellFormed, Shape, Chained
<1>7. QED
  BY <1>6 DEF Cleaned, Cleaning

\* The item of the next bucket, added again, is where its probe ends now: at an
\* empty bucket between b and the one it was in.
LEMMA CleanStep ==
  ASSUME NEW set, NEW b, NEW e, Removing(set, b, e),
         NEW s, NEW k \in Nat, Cleaning(set, b, e, s, k),
         NEW q \in 0 .. set.size - 1,
         Line(set.size, e, q) = Line(set.size, e, b) + k + 1,
         s.table[q] # NULL
  PROVE  Cleaning(set, b, e, SetAdd(Take(s, q), s.table[q]), k + 1)
<1> DEFINE N == set.size
           L(x) == Line(N, e, x)
           t == s.table[q]
           h == Home(set, t)
           taken == Emptied(s, q)
           p == Probe(taken, t)
           new == Filled(taken, p, t)
<1>1. /\ s \in Records /\ s.size = N /\ Distinct(s)
      /\ s.itemCount = Cardinality(Contents(s)) /\ s.itemCount \in Nat
      /\ s.itemCount <= Threshold(s.size)
      /\ s.table \in [0 .. N - 1 -> Item \cup {NULL}]
      /\ s.table[e] = NULL /\ set.table[q] = t
      /\ \A x : Home(s, x) = Home(set, x)
  BY NextToClean
<1>2. /\ \A c \in 0 .. N - 1 : L(c) \in Nat /\ L(c) <= L(e)
      /\ \A c, d \in 0 .. N - 1 : L(c) = L(d) => c = d
      /\ \A x \in Item : L(Home(set, x)) \in Nat
      /\ \A c \in 0 .. N - 1 :
            set.table[c] # NULL => Straight(set, e, set.table[c], c)
      /\ N \in Nat \ {0}
  BY ItemsStraight
<1>3. b \in 0 .. N - 1 /\ e \in 0 .. N - 1
  BY DEF Removing
<1>4. /\ WithoutItem(set, b, s)
      /\ Moved(set, b, e, s)
      /\ L(b) + k < L(e)
      /\ \A c \in 0 .. N - 1 :
            L(c) < L(b) \/ L(c) > L(b) + k => s.table[c] = set.table[c]
      /\ \A c \in 0 .. N - 1 :
            L(c) <= L(b) + k /\ s.table[c] # NULL => Straight(s, e, s.table[c], c)
  BY DEF Cleaning
<1>5. t \in Item /\ t # NULL
  BY <1>1, KeyAssumption
<1>6. /\ taken \in Records /\ Distinct(taken)
      /\ taken.itemCount = Cardinality(Contents(taken))
      /\ Contents(taken) = Contents(s) \ {t}
      /\ taken.size = N
      /\ taken.table = [s.table EXCEPT ![q] = NULL]
      /\ taken.itemCount = s.itemCount - 1
  BY <1>1, EmptyKeeps
<1>7. Take(s, q) = taken
  BY <1>1, TakeEmpties
<1> HIDE DEF taken
<1>8. taken.table[q] = NULL /\ \A c \in 0 .. N - 1 : c # q => taken.table[c] = s.table[c]
  BY <1>1, <1>6
<1>9. \A x : Home(taken, x) = Home(set, x)
  BY <1>6 DEF Home
<1>10. Ends(taken, t, p)
  <2>1. HasEmpty(taken)
    BY <1>6, <1>8 DEF HasEmpty
  <2>2. QED
    BY <1>5, <1>6, <2>1, ProbeEnds
<1>11. Place(taken, t) = new
  BY <1>6, PlaceFills
<1> HIDE DEF p
<1>12. \A c \in 0 .. N - 1 : taken.table[c] # NULL => ~Eq(taken.table[c], t)
  BY <1>1, <1>8 DEF Distinct
<1>13. p \in 0 .. N - 1 /\ taken.table[p] = NULL
  BY <1>6, <1>10, <1>12 DEF Ends
<1>14. /\ L(h) <= L(p) /\ L(p) <= L(q)
       /\ \A a \in 0 .. N - 1 : L(h) <= L(a) /\ L(a) < L(p) => taken.table[a] # NULL
  <2>1. h \in 0 .. N - 1
    BY <1>1, <1>5, <1>9, HomeType
  <2>2. /\ ~(Dist(N, h, e) < Dist(N, h, p)) => L(h) <= L(p)
        /\ L(h) <= L(p) =>
             \A a \in 0 .. N - 1 :
                Dist(N, h, a) < Dist(N, h, p) <=> (L(h) <= L(a) /\ L(a) < L(p))
    <3> HIDE DEF N, h, p
    <3>1. QED
      BY <1>2, <1>3, <1>13, <2>1, LineUp
  <2>3. \A a \in 0 .. N - 1 : Dist(N, h, a) < Dist(N, h, p) => taken.table[a] # NULL
    BY <1>6, <1>9, <1>10 DEF Ends
  <2>4. taken.table[e] = NULL
    BY <1>1, <1>3, <1>8
  <2>5. L(h) <= L(p)
    BY <1>3, <2>2, <2>3, <2>4
  <2>6. L(h) <= L(q)
    BY <1>1, <1>2, <1>5 DEF Straight
  <2>7. ~(L(q) < L(p))
    BY <1>8, <2>2, <2>3, <2>5, <2>6
  <2>8. L(q) \in Nat /\ L(p) \in Nat
    BY <1>2, <1>13
  <2>9. QED
    BY <2>2, <2>3, <2>5, <2>7, <2>8
<1>15. L(b) <= L(p)
  <2> SUFFICES ASSUME L(p) < L(b) PROVE FALSE
    BY <1>2, <1>3, <1>13
  <2>1. L(p) < L(q) /\ p # q
    BY <1>2, <1>3, <1>13
  <2>2. set.table[p] # NULL
    BY <1>1, <1>2, <1>5, <1>13, <1>14, <2>1 DEF Straight
  <2>3. taken.table[p] = set.table[p]
    BY <1>4, <1>8, <1>13, <2>1
  <2>4. QED
    BY <1>13, <2>2, <2>3
<1>16. /\ new \in Records /\ Distinct(new)
       /\ new.itemCount = Cardinality(Contents(new))
       /\ Contents(new) = Apart(Contents(taken), {t}) \cup {t}
       /\ new.size = N
       /\ new.table = [taken.table EXCEPT ![p] = t]
       /\ new.itemCount = taken.itemCount + 1
  BY <1>5, <1>6, <1>12, <1>13, FillKeeps
<1>17. SetAdd(Take(s, q), t) = new
  <2>1. Threshold(s.size) \in Nat
    BY <1>1, RecordType
  <2> HIDE DEF new, t
  <2>2. ~(new.itemCount > Threshold(taken.size))
    BY <1>1, <1>6, <1>16, <2>1
  <2>3. QED
    BY <1>7, <1>11, <2>2 DEF SetAdd
<1> HIDE DEF new
<1>18. taken.table \in [0 .. N - 1 -> Item \cup {NULL}]
  BY <1>1, <1>6
<1>19. new.table[p] = t /\ \A c \in 0 .. N - 1 : c # p => new.table[c] = taken.table[c]
  BY <1>13, <1>16, <1>18
<1>20. WithoutItem(set, b, new)
  <2>1. Contents(new) = Contents(s)
    <3>1. t \in Contents(s)
      BY <1>1, <1>5 DEF Contents
    <3>2. \A a \in Contents(taken) : ~Eq(t, a)
      BY <1>6, <1>12, <1>18 DEF Contents, Eq
    <3> HIDE DEF t
    <3>3. QED
      BY <1>6, <1>16, <3>1, <3>2 DEF Apart
  <2>2. QED
    BY <1>4, <1>16, <2>1 DEF WithoutItem
<1>21. Moved(set, b, e, new)
  <2> SUFFICES ASSUME NEW c \in 0 .. N - 1, new.table[c] # NULL
               PROVE  \E d \in 0 .. N - 1 : /\ set.table[d] = new.table[c]
                                            /\ d = c \/ (L(b) <= L(c) /\ L(c) <= L(d))
    BY DEF Moved
  <2>1. CASE c = p
    BY <1>1, <1>14, <1>15, <1>19, <2>1
  <2>2. CASE c # p
    <3>1. new.table[c] = s.table[c]
      BY <1>8, <1>19, <2>2
    <3>2. QED
      BY <1>4, <3>1 DEF Moved
  <2>3. QED
    BY <2>1, <2>2
<1>22. L(b) + (k + 1) < L(e)
  <2>1. q # e
    BY <1>1, <1>5
  <2>2. L(q) # L(e) /\ L(q) <= L(e) /\ L(q) \in Nat /\ L(e) \in Nat
    BY <1>2, <1>3, <2>1
  <2>3. L(q) = L(b) + (k + 1)
    BY <1>2, <1>3
  <2>4. QED
    BY <2>2, <2>3
<1>23. ASSUME NEW c \in 0 .. N - 1, L(c) < L(b) \/ L(c) > L(b) + (k + 1)
       PROVE  new.table[c] = set.table[c]
  <2>1. L(b) \in Nat /\ L(c) \in Nat /\ L(p) \in Nat /\ L(q) \in Nat
    BY <1>2, <1>3, <1>13
  <2>2. c # p /\ c # q /\ (L(c) < L(b) \/ L(c) > L(b) + k)
    BY <1>14, <1>15, <1>23, <2>1
  <2>3. QED
    BY <1>4, <1>8, <1>19, <2>2
<1>24. ASSUME NEW c \in 0 .. N - 1, L(c) <= L(b) + (k + 1), new.table[c] # NULL
       PROVE  Straight(new, e, new.table[c], c)
  <2>1. L(b) \in Nat /\ L(c) \in Nat /\ L(p) \in Nat /\ L(q) \in Nat
    BY <1>2, <1>3, <1>13
  <2>2. \A x : Home(new, x) = Home(set, x)
    BY <1>16 DEF Home
  <2>3. \A a \in 0 .. N - 1 : taken.table[a] # NULL => new.table[a] # NULL
    BY <1>5, <1>19
  <2>4. CASE c = p
    <3>1. new.table[c] = t
      BY <1>19, <2>4
    <3>2. QED
      BY <1>14, <1>16, <2>2, <2>3, <2>4, <3>1 DEF Straight
  <2>5. CASE c # p
    <3>1. c # q /\ new.table[c] = s.table[c]
      BY <1>8, <1>19, <1>24, <2>5
    <3>2. L(c) # L(q)
      BY <1>2, <3>1
    <3>3. L(c) <= L(b) + k /\ L(c) < L(q)
      BY <1>24, <2>1, <3>2
    <3>4. Straight(s, e, s.table[c], c)
      BY <1>4, <1>24, <3>1, <3>3
    <3>5. ASSUME NEW a \in 0 .. N - 1, L(a) < L(c), s.table[a] # NULL
          PROVE  new.table[a] # NULL
      <4>1. a # q
        BY <2>1, <3>3, <3>5
      <4>2. QED
        BY <1>8, <2>3, <3>5, <4>1
    <3>6. QED
      BY <1>1, <1>16, <2>2, <3>1, <3>4, <3>5 DEF Straight
  <2>6. QED
    BY <2>4, <2>5
<1>25. Cleaning(set, b, e, new, k + 1)
  BY <1>20, <1>21, <1>22, <1>23, <1>24 DEF Cleaning
<1>26. QED
  BY <1>17, <1>25

-----------------------------------------------------------------------------
(* Removal *)

\* The cleanup loop of BRSetRemove ends with the item gone and the table repaired.
LEMMA RemoveCleans ==
  ASSUME NEW set, NEW e, NEW item \in Item, Removing(set, Probe(set, item), e)
  PROVE  Cleaned(set, Probe(set, item), e, SetRemove(set, item))
<1> DEFINE N == set.size
           m == N - 1
           b == Probe(set, item)
           L(x) == Line(N, e, x)
           start == [set |-> Take(set, b), done |-> FALSE]
           Turn(x, k) == Cleanup(x, (b + k) % N)
           After(f) == [k \in 0 .. m |-> IF k = 0 THEN start ELSE Turn(f[k - 1], k)]
           after[k \in 0 .. m] ==
             IF k = 0 THEN start ELSE Cleanup(after[k - 1], (b + k) % N)
           States == [set : Records, done : BOOLEAN]
           Tidy(x, k) == IF x.done THEN Cleaned(set, b, e, x.set)
                                   ELSE Cleaning(set, b, e, x.set, k)
           X == [k \in 0 .. m |-> {x \in States : Tidy(x, k)}]
           G == [k \in 1 .. m |-> [x \in States |-> Turn(x, k)]]
<1>1. N \in Nat \ {0} /\ m \in Nat
  BY ItemsStraight
<1>2. /\ b \in 0 .. N - 1 /\ set.table[b] # NULL
      /\ e \in 0 .. N - 1 /\ set.table[e] = NULL
      /\ L(b) \in 0 .. N - 1 /\ L(e) = N - 1
  <2>1. /\ b \in 0 .. N - 1 /\ set.table[b] # NULL
        /\ e \in 0 .. N - 1 /\ set.table[e] = NULL
    BY DEF Removing
  <2> HIDE DEF b, N
  <2>2. QED
    BY <1>1, <2>1, LineType
<1>3. SetRemove(set, item) = after[m].set
  BY <1>2 DEF SetRemove
<1> HIDE DEF b, after
<1>4. \A x : \A k : Cleaned(set, b, e, x) \/ Cleaning(set, b, e, x, k) => x \in Records
  BY DEF Cleaned, Cleaning, WithoutItem
<1>5. start \in X[0]
  <2>1. Cleaning(set, b, e, Take(set, b), 0)
    BY CleanStart DEF b
  <2>2. Take(set, b) \in Records
    BY <1>4, <2>1
  <2>3. start \in States /\ Tidy(start, 0)
    BY <2>1, <2>2
  <2> HIDE DEF start, States, Tidy, m
  <2>4. QED
    BY <1>1, <2>3
<1>6. \A k \in 1 .. m : \A x \in States : Tidy(x, k - 1) => Turn(x, k) \in States /\ Tidy(Turn(x, k), k)
  <2> SUFFICES ASSUME NEW k \in 1 .. m, NEW x \in States, Tidy(x, k - 1)
               PROVE  Turn(x, k) \in States /\ Tidy(Turn(x, k), k)
    OBVIOUS
  <2> DEFINE q == (b + k) % N
             t == x.set.table[q]
  <2>1. x.set \in Records /\ x.done \in BOOLEAN
        /\ x = [set |-> x.set, done |-> x.done]
    OBVIOUS
  <2>2. PICK s, d : x = [set |-> s, done |-> d]
    BY <2>1
  <2>3. Turn(x, k) = IF x.done \/ t = NULL THEN [set |-> x.set, done |-> TRUE]
                     ELSE [set |-> SetAdd(Take(x.set, q), t), done |-> x.done]
    <3> HIDE DEF q
    <3>1. Cleanup(x, q) = IF x.done \/ t = NULL THEN [set |-> x.set, done |-> TRUE]
                     ELSE [set |-> SetAdd(Take(x.set, q), t), done |-> x.done]
      <4>1. \A y : [x EXCEPT !.done = y] = [set |-> x.set, done |-> y]
        BY <2>2
      <4>2. [x EXCEPT !.set = SetAdd(Take(@, q), t)]
              = [set |-> SetAdd(Take(x.set, q), t), done |-> x.done]
        <5> DEFINE y == SetAdd(Take(x.set, q), t)
        <5>1. [x EXCEPT !.set = SetAdd(Take(@, q), t)] = [x EXCEPT !.set = y]
          OBVIOUS
        <5> HIDE DEF y
        <5>2. [x EXCEPT !.set = y] = [set |-> y, done |-> x.done]
          BY <2>2
        <5>3. QED
          BY <5>1, <5>2 DEF y
      <4>3. QED
        BY <4>1, <4>2 DEF Cleanup
    <3>2. QED
      BY <3>1 DEF q
  <2> HIDE DEF Turn
  <2>4. CASE x.done
    <3>1. Cleaned(set, b, e, x.set)
      BY <2>4
    <3>2. QED
      BY <2>1, <2>3, <2>4, <3>1
  <2>5. CASE ~x.done
    <3>1. Cleaning(set, b, e, x.set, k - 1) /\ k - 1 \in Nat
      BY <1>1, <2>5
    <3>2. L(b) + (k - 1) < N - 1
      BY <1>2, <3>1 DEF Cleaning
    <3>3. q \in 0 .. N - 1 /\ L(q) = L(b) + (k - 1) + 1
      <4>1. k \in 0 .. N - 1 /\ L(b) + k <= N - 1
        BY <1>1, <1>2, <3>2
      <4> HIDE DEF N
      <4>2. q \in 0 .. N - 1 /\ L(q) = L(b) + k
        BY <1>1, <1>2, <4>1, NextInLine
      <4> HIDE DEF q
      <4>3. QED
        BY <1>2, <1>1, <4>1, <4>2
    <3> HIDE DEF q
    <3>4. CASE t = NULL
      <4>1. Cleaned(set, b, e, x.set)
        BY <3>1, <3>3, <3>4, CleanEnd DEF b
      <4>2. QED
        BY <2>1, <2>3, <3>4, <4>1
    <3>5. CASE t # NULL
      <4>1. Cleaning(set, b, e, SetAdd(Take(x.set, q), t), (k - 1) + 1)
        BY <3>1, <3>3, <3>5, CleanStep DEF b
      <4>2. (k - 1) + 1 = k
        OBVIOUS
      <4>3. Cleaning(set, b, e, SetAdd(Take(x.set, q), t), k)
        BY <4>1, <4>2
      <4> HIDE DEF t
      <4>4. SetAdd(Take(x.set, q), t) \in Records
        BY <1>4, <4>3
      <4>5. QED
        BY <2>1, <2>3, <2>5, <3>5, <4>3, <4>4
    <3>6. QED
      BY <3>4, <3>5
  <2>6. QED
    BY <2>1, <2>4, <2>5
<1>7. \A k \in 1 .. m : \A x \in X[k - 1] : G[k][x] = Turn(x, k) /\ Turn(x, k) \in X[k]
  <2> SUFFICES ASSUME NEW k \in 1 .. m, NEW x \in X[k - 1]
               PROVE  G[k][x] = Turn(x, k) /\ Turn(x, k) \in X[k]
    OBVIOUS
  <2>1. k - 1 \in 0 .. m /\ k \in 0 .. m
    BY <1>1
  <2> HIDE DEF Turn, Tidy, States, m
  <2>2. x \in States /\ Tidy(x, k - 1)
    BY <2>1
  <2>3. Turn(x, k) \in States /\ Tidy(Turn(x, k), k)
    BY <1>6, <2>2
  <2>4. QED
    BY <2>1, <2>2, <2>3
<1> HIDE DEF m, start, X, G, Turn
<1>8. after = After(after)
  <2>1. PICK f : Turns(f, m, start, X, G)
    BY <1>1, <1>5, <1>7, LoopRuns
  <2>2. \A k \in 1 .. m : f[k] = Turn(f[k - 1], k)
    <3> SUFFICES ASSUME NEW k \in 1 .. m PROVE f[k] = Turn(f[k - 1], k)
      OBVIOUS
    <3>1. k - 1 \in 0 .. m
      BY <1>1
    <3>2. f[k - 1] \in X[k - 1] /\ f[k] = G[k][f[k - 1]]
      BY <2>1, <3>1 DEF Turns
    <3>3. QED
      BY <1>7, <3>2
  <2>3. f = After(f)
    <3>1. \A k \in 0 .. m : f[k] = IF k = 0 THEN start ELSE Turn(f[k - 1], k)
      <4>1. \A k \in 0 .. m : k = 0 \/ k \in 1 .. m
        BY <1>1
      <4>2. f[0] = start
        BY <2>1 DEF Turns
      <4>3. QED
        BY <2>2, <4>1, <4>2
    <3>2. f = [k \in 0 .. m |-> f[k]]
      BY <2>1 DEF Turns
    <3>3. QED
      BY <3>1, <3>2
  <2>4. QED
    BY <2>3 DEF Turn, after
<1>9. after[m] \in X[m]
  <2>1. after[0] \in X[0]
    BY <1>1, <1>5, <1>8
  <2>2. \A k \in 1 .. m : after[k - 1] \in X[k - 1] => after[k] \in X[k]
    <3> SUFFICES ASSUME NEW k \in 1 .. m, after[k - 1] \in X[k - 1] PROVE after[k] \in X[k]
      OBVIOUS
    <3>1. k \in 0 .. m /\ k # 0
      BY <1>1
    <3>2. after[k] = Turn(after[k - 1], k)
      BY <1>8, <3>1
    <3>3. QED
      BY <1>7, <3>2
  <2>3. \A k \in 0 .. m : after[k] \in X[k]
    BY <1>1, <2>1, <2>2, LoopKeeps
  <2>4. QED
    BY <1>1, <2>3
<1>10. Tidy(after[m], m)
  BY <1>1, <1>9 DEF X
<1>11. ~Cleaning(set, b, e, after[m].set, m)
  BY <1>1, <1>2 DEF Cleaning, m
<1>12. QED
  BY <1>3, <1>10, <1>11 DEF b

\* In terms of buckets, not of the line: what is before the removed item's bucket
\* afterwards was before it already.
LEMMA RemoveWellFormed ==
  ASSUME NEW set, WellFormed(set), NEW item \in Item
  PROVE  LET b == Probe(set, item)
             new == SetRemove(set, item)
         IN  /\ WellFormed(new)
             /\ new.size = set.size
             /\ Contents(new) = Apart(Contents(set), {item})
             /\ Contents(new) = Contents(set) \ {set.table[b]}
             /\ \A c \in 0 .. b - 1 :
                   new.table[c] # NULL =>
                     \E d \in 0 .. b - 1 : set.table[d] = new.table[c]
<1> DEFINE b == Probe(set, item)
           new == SetRemove(set, item)
           N == set.size
<1>1. set \in Records /\ Distinct(set)
  BY DEF WellFormed, Shape
<1>2. /\ Ends(set, item, b)
      /\ \A c \in 0 .. N - 1 : set.table[c] # NULL /\ Eq(set.table[c], item) => c = b
  BY ProbeFinds
<1>3. b \in 0 .. N - 1 /\ (set.table[b] = NULL \/ Eq(set.table[b], item))
  BY <1>2 DEF Ends
<1>4. set.table \in [0 .. N - 1 -> Item \cup {NULL}] /\ N \in Nat \ {0}
  BY <1>1, RecordType
<1>5. Apart(Contents(set), {item}) = Contents(set) \ {set.table[b]}
  <2>1. Contents(set) = {set.table[c] : c \in 0 .. N - 1} \ {NULL}
    BY <1>4 DEF Contents
  <2>2. \A a \in Contents(set) : Eq(item, a) <=> a = set.table[b]
    <3> SUFFICES ASSUME NEW a \in Contents(set) PROVE Eq(item, a) <=> a = set.table[b]
      OBVIOUS
    <3> HIDE DEF b
    <3>1. PICK c \in 0 .. N - 1 : a = set.table[c] /\ a # NULL
      BY <2>1
    <3>2. QED
      BY <1>2, <1>3, <3>1 DEF Eq
  <2> HIDE DEF b
  <2>3. QED
    BY <2>2 DEF Apart
<1>6. CASE set.table[b] = NULL
  <2>1. new = set
    BY <1>6 DEF SetRemove
  <2>2. Contents(set) \ {NULL} = Contents(set)
    BY DEF Contents
  <2> HIDE DEF b, new
  <2>3. Contents(new) = Contents(set) \ {set.table[b]}
    BY <1>6, <2>1, <2>2
  <2>4. QED
    BY <1>5, <2>1, <2>3 DEF b, new
<1>7. CASE set.table[b] # NULL
  <2>1. PICK e \in 0 .. N - 1 : set.table[e] = NULL
    BY EmptyBucket DEF HasEmpty
  <2>2. Removing(set, b, e)
    BY <1>3, <1>7, <2>1 DEF Removing
  <2>3. Cleaned(set, b, e, new)
    BY <2>2, RemoveCleans
  <2> HIDE DEF new, b
  <2>4. /\ WellFormed(new) /\ new.size = N
        /\ Contents(new) = Contents(set) \ {set.table[b]}
    BY <2>3 DEF Cleaned, WithoutItem
  <2>5. ASSUME NEW c \in 0 .. b - 1, new.table[c] # NULL
        PROVE  \E d \in 0 .. b - 1 : set.table[d] = new.table[c]
    <3>1. c \in 0 .. N - 1
      BY <1>3, <1>4
    <3>2. PICK d \in 0 .. N - 1 :
             /\ set.table[d] = new.table[c]
             /\ d = c \/ (Line(N, e, b) <= Line(N, e, c) /\ Line(N, e, c) <= Line(N, e, d))
      BY <2>3, <2>5, <3>1 DEF Cleaned, Moved
    <3> HIDE DEF N
    <3>3. d \in 0 .. b - 1
      BY <1>3, <1>4, <2>1, <3>2 DEF Line, Dist
    <3>4. QED
      BY <3>2, <3>3
  <2>6. QED
    BY <1>5, <2>4, <2>5 DEF new, b
<1>8. QED
  BY <1>6, <1>7

-----------------------------------------------------------------------------
(* Two sets *)

\* BRSetUnion: the items of other replace their equivalents in set.
LEMMA UnionWellFormed ==
  ASSUME NEW set, WellFormed(set), NEW other, WellFormed(other)
  PROVE  /\ WellFormed(SetUnion(set, other))
         /\ Contents(SetUnion(set, other)) = Apart(Contents(set), Contents(other)) \cup Contents(other)
<1> DEFINE N == other.size
           A == Contents(set)
           Turn(x, n) == LET t == other.table[n - 1]
                         IN  IF t = NULL THEN x ELSE SetAdd(x, t)
           After(f) == [n \in 0 .. N |-> IF n = 0 THEN set ELSE Turn(f[n - 1], n)]
           after[n \in 0 .. N] ==
             IF n = 0 THEN set
             ELSE LET t == other.table[n - 1]
                  IN  IF t = NULL THEN after[n - 1] ELSE SetAdd(after[n - 1], t)
           Done(x, n) == WellFormed(x) /\ Contents(x) = Apart(A, Before(other, n)) \cup Before(other, n)
           X == [n \in 0 .. N |-> {x \in Records : Done(x, n)}]
           G == [n \in 1 .. N |-> [x \in Records |-> Turn(x, n)]]
<1>1. other \in Records /\ Distinct(other) /\ N \in Nat
  BY RecordType DEF WellFormed, Shape
<1>2. \A x : WellFormed(x) => x \in Records
  BY DEF WellFormed, Shape
<1>3. \A n \in 1 .. N : \A x \in Records : Done(x, n - 1) => Done(Turn(x, n), n)
  <2> SUFFICES ASSUME NEW n \in 1 .. N, NEW x \in Records, Done(x, n - 1)
               PROVE  Done(Turn(x, n), n)
    OBVIOUS
  <2> DEFINE t == other.table[n - 1]
             B == Before(other, n - 1)
  <2>1. CASE t = NULL
    <3>1. Before(other, n) = B
      BY <1>1, <2>1, BeforeSteps
    <3>2. QED
      BY <2>1, <3>1
  <2>2. CASE t # NULL
    <3>1. /\ t \in Item
          /\ Before(other, n) = B \cup {t}
          /\ \A a \in B : ~Eq(a, t)
      BY <1>1, <2>2, BeforeSteps
    <3> HIDE DEF t
    <3>2. /\ WellFormed(SetAdd(x, t))
          /\ Contents(SetAdd(x, t)) = Apart(Contents(x), {t}) \cup {t}
      BY <3>1, AddWellFormed
    <3>3. Apart(Apart(A, B) \cup B, {t}) \cup {t} = Apart(A, B \cup {t}) \cup (B \cup {t})
      <4> HIDE DEF A, B
      <4>1. QED
        BY <3>1 DEF Apart, Eq
    <3>4. QED
      BY <2>2, <3>1, <3>2, <3>3 DEF t
  <2>3. QED
    BY <2>1, <2>2
<1>4. set \in X[0]
  <2>1. Before(other, 0) = {}
    BY <1>1, BeforeSteps
  <2>2. Done(set, 0)
    BY <2>1 DEF Apart
  <2> HIDE DEF Done
  <2>3. QED
    BY <1>1, <1>2, <2>2
<1>5. \A n \in 1 .. N : \A x \in X[n - 1] : G[n][x] = Turn(x, n) /\ Turn(x, n) \in X[n]
  <2> SUFFICES ASSUME NEW n \in 1 .. N, NEW x \in X[n - 1]
               PROVE  G[n][x] = Turn(x, n) /\ Turn(x, n) \in X[n]
    OBVIOUS
  <2>1. n - 1 \in 0 .. N /\ n \in 0 .. N
    BY <1>1
  <2> HIDE DEF Turn, Done
  <2>2. x \in Records /\ Done(x, n - 1)
    BY <2>1
  <2>3. Done(Turn(x, n), n)
    BY <1>3, <2>2
  <2>4. Turn(x, n) \in Records
    BY <1>2, <2>3 DEF Done
  <2>5. QED
    BY <2>1, <2>2, <2>3, <2>4
<1>6. SetUnion(set, other) = after[N]
  BY DEF SetUnion
<1> HIDE DEF N, X, G, Turn
<1>7. after = After(after)
  <2>1. PICK f : Turns(f, N, set, X, G)
    BY <1>1, <1>4, <1>5, LoopRuns
  <2>2. \A n \in 0 .. N : n = 0 \/ (n \in 1 .. N /\ n - 1 \in 0 .. N)
    BY <1>1
  <2>3. \A n \in 1 .. N : n - 1 \in 0 .. N => f[n] = Turn(f[n - 1], n)
    BY <1>5, <2>1 DEF Turns
  <2>4. \A n \in 0 .. N : f[n] = IF n = 0 THEN set ELSE Turn(f[n - 1], n)
    BY <2>1, <2>2, <2>3 DEF Turns
  <2>5. f = After(f)
    <3>1. f = [n \in 0 .. N |-> f[n]]
      BY <2>1 DEF Turns
    <3>2. QED
      BY <2>4, <3>1
  <2>6. QED
    BY <2>5 DEF Turn
<1> HIDE DEF after
<1>8. after[N] \in X[N]
  <2>1. after[0] = set
    BY <1>1, <1>7
  <2>2. \A n \in 1 .. N : n \in 0 .. N /\ n # 0
    BY <1>1
  <2>3. \A n \in 1 .. N : after[n - 1] \in X[n - 1] => after[n] = G[n][after[n - 1]]
    BY <1>5, <1>7, <2>2
  <2>4. Follows(after, N, set, X, G)
    BY <2>1, <2>3 DEF Follows
  <2>5. \A n \in 0 .. N : after[n] \in X[n]
    BY <1>1, <1>4, <1>5, <2>4, LoopEnds
  <2>6. QED
    BY <1>1, <2>5
<1>9. Done(after[N], N)
  BY <1>1, <1>8 DEF X
<1>10. Before(other, N) = Contents(other)
  BY <1>1, BeforeSteps DEF N
<1>11. QED
  BY <1>6, <1>9, <1>10

\* BRSetMinus: the items with an equivalent in other go.
LEMMA MinusWellFormed ==
  ASSUME NEW set, WellFormed(set), NEW other, WellFormed(other)
  PROVE  /\ WellFormed(SetMinus(set, other))
         /\ Contents(SetMinus(set, other)) = Apart(Contents(set), Contents(other))
<1> DEFINE N == other.size
           A == Contents(set)
           Turn(x, n) == LET t == other.table[n - 1]
                         IN  IF t = NULL THEN x ELSE SetRemove(x, t)
           After(f) == [n \in 0 .. N |-> IF n = 0 THEN set ELSE Turn(f[n - 1], n)]
           after[n \in 0 .. N] ==
             IF n = 0 THEN set
             ELSE LET t == other.table[n - 1]
                  IN  IF t = NULL THEN after[n - 1] ELSE SetRemove(after[n - 1], t)
           Done(x, n) == WellFormed(x) /\ Contents(x) = Apart(A, Before(other, n))
           X == [n \in 0 .. N |-> {x \in Records : Done(x, n)}]
           G == [n \in 1 .. N |-> [x \in Records |-> Turn(x, n)]]
<1>1. other \in Records /\ Distinct(other) /\ N \in Nat
  BY RecordType DEF WellFormed, Shape
<1>2. \A x : WellFormed(x) => x \in Records
  BY DEF WellFormed, Shape
<1>3. \A n \in 1 .. N : \A x \in Records : Done(x, n - 1) => Done(Turn(x, n), n)
  <2> SUFFICES ASSUME NEW n \in 1 .. N, NEW x \in Records, Done(x, n - 1)
               PROVE  Done(Turn(x, n), n)
    OBVIOUS
  <2> DEFINE t == other.table[n - 1]
             B == Before(other, n - 1)
  <2>1. CASE t = NULL
    <3>1. Before(other, n) = B
      BY <1>1, <2>1, BeforeSteps
    <3>2. QED
      BY <2>1, <3>1
  <2>2. CASE t # NULL
    <3>1. /\ t \in Item
          /\ Before(other, n) = B \cup {t}
          /\ \A a \in B : ~Eq(a, t)
      BY <1>1, <2>2, BeforeSteps
    <3> HIDE DEF t
    <3>2. /\ WellFormed(SetRemove(x, t))
          /\ Contents(SetRemove(x, t)) = Apart(Contents(x), {t})
      BY <3>1, RemoveWellFormed
    <3>3. Apart(Apart(A, B), {t}) = Apart(A, B \cup {t})
      <4> HIDE DEF A, B
      <4>1. QED
        BY <3>1 DEF Apart, Eq
    <3>4. QED
      BY <2>2, <3>1, <3>2, <3>3 DEF t
  <2>3. QED
    BY <2>1, <2>2
<1>4. set \in X[0]
  <2>1. Before(other, 0) = {}
    BY <1>1, BeforeSteps
  <2>2. Done(set, 0)
    BY <2>1 DEF Apart
  <2> HIDE DEF Done
  <2>3. QED
    BY <1>1, <1>2, <2>2
<1>5. \A n \in 1 .. N : \A x \in X[n - 1] : G[n][x] = Turn(x, n) /\ Turn(x, n) \in X[n]
  <2> SUFFICES ASSUME NEW n \in 1 .. N, NEW x \in X[n - 1]
               PROVE  G[n][x] = Turn(x, n) /\ Turn(x, n) \in X[n]
    OBVIOUS
  <2>1. n - 1 \in 0 .. N /\ n \in 0 .. N
    BY <1>1
  <2> HIDE DEF Turn, Done
  <2>2. x \in Records /\ Done(x, n - 1)
    BY <2>1
  <2>3. Done(Turn(x, n), n)
    BY <1>3, <2>2
  <2>4. Turn(x, n) \in Records
    BY <1>2, <2>3 DEF Done
  <2>5. QED
    BY <2>1, <2>2, <2>3, <2>4
<1>6. SetMinus(set, other) = after[N]
  BY DEF SetMinus
<1> HIDE DEF N, X, G, Turn
<1>7. after = After(after)
  <2>1. PICK f : Turns(f, N, set, X, G)
    BY <1>1, <1>4, <1>5, LoopRuns
  <2>2. \A n \in 0 .. N : n = 0 \/ (n \in 1 .. N /\ n - 1 \in 0 .. N)
    BY <1>1
  <2>3. \A n \in 1 .. N : n - 1 \in 0 .. N => f[n] = Turn(f[n - 1], n)
    BY <1>5, <2>1 DEF Turns
  <2>4. \A n \in 0 .. N : f[n] = IF n = 0 THEN set ELSE Turn(f[n - 1], n)
    BY <2>1, <2>2, <2>3 DEF Turns
  <2>5. f = After(f)
    <3>1. f = [n \in 0 .. N |-> f[n]]
      BY <2>1 DEF Turns
    <3>2. QED
      BY <2>4, <3>1
  <2>6. QED
    BY <2>5 DEF Turn
<1> HIDE DEF after
<1>8. after[N] \in X[N]
  <2>1. after[0] = set
    BY <1>1, <1>7
  <2>2. \A n \in 1 .. N : n \in 0 .. N /\ n # 0
    BY <1>1
  <2>3. \A n \in 1 .. N : after[n - 1] \in X[n - 1] => after[n] = G[n][after[n - 1]]
    BY <1>5, <1>7, <2>2
  <2>4. Follows(after, N, set, X, G)
    BY <2>1, <2>3 DEF Follows
  <2>5. \A n \in 0 .. N : after[n] \in X[n]
    BY <1>1, <1>4, <1>5, <2>4, LoopEnds
  <2>6. QED
    BY <1>1, <2>5
<1>9. Done(after[N], N)
  BY <1>1, <1>8 DEF X
<1>10. Before(other, N) = Contents(other)
  BY <1>1, BeforeSteps DEF N
<1>11. QED
  BY <1>6, <1>9, <1>10

\* a has an equivalent in the set other
Shared(other, a) == \E x \in Contents(other) : Eq(x, a)

LEMMA ContainsIsShared ==
  ASSUME NEW other, WellFormed(other), NEW a \in Item
  PROVE  SetContains(other, a) <=> Shared(other, a)
<1>1. NULL \notin Contents(other)
  BY DEF Contents
<1>2. QED
  BY <1>1, GetIsMember DEF SetContains, Shared

\* Before turn n + 1 of the loop of BRSetIntersect: the buckets it has passed hold
\* shared items only, no shared item is gone, and every turn has passed a bucket or
\* removed an item.
Intersecting(set, other, x, n) ==
  /\ WellFormed(x.set) /\ x.set.size = set.size
  /\ x.b \in 0 .. set.size
  /\ Contents(x.set) \subseteq Contents(set)
  /\ \A a \in Contents(set) : Shared(other, a) => a \in Contents(x.set)
  /\ \A c \in 0 .. x.b - 1 : x.set.table[c] # NULL => Shared(other, x.set.table[c])
  /\ x.b = set.size \/ n <= x.b + (set.itemCount - x.set.itemCount)

LEMMA IntersectStep ==
  ASSUME NEW set, WellFormed(set), NEW other, WellFormed(other),
         NEW x \in [set : Records, b : Nat], NEW n \in Nat, Intersecting(set, other, x, n)
  PROVE  /\ Intersecting(set, other, IntersectTurn(x, other), n + 1)
         /\ IntersectTurn(x, other) \in [set : Records, b : Nat]
<1> DEFINE s == x.set
           b == x.b
           N == set.size
           t == s.table[b]
           new == SetRemove(s, t)
<1>1. PICK s0, b0 : x = [set |-> s0, b |-> b0]
  OBVIOUS
<1>2. IntersectTurn(x, other) = IF b = s.size THEN x
                                ELSE IF t # NULL /\ ~SetContains(other, t)
                                THEN [set |-> new, b |-> b] ELSE [set |-> s, b |-> b + 1]
  <2>1. [x EXCEPT !.b = @ + 1] = [set |-> s, b |-> b + 1]
    BY <1>1
  <2>2. [x EXCEPT !.set = SetRemove(@, t)] = [set |-> new, b |-> b]
    <3> HIDE DEF new
    <3>1. [x EXCEPT !.set = new] = [set |-> new, b |-> b]
      BY <1>1
    <3>2. QED
      BY <3>1 DEF new
  <2>3. QED
    BY <2>1, <2>2 DEF IntersectTurn
<1>3. /\ WellFormed(s) /\ s.size = N /\ b \in 0 .. N
      /\ Contents(s) \subseteq Contents(set)
      /\ \A a \in Contents(set) : Shared(other, a) => a \in Contents(s)
      /\ \A c \in 0 .. b - 1 : s.table[c] # NULL => Shared(other, s.table[c])
      /\ b = N \/ n <= b + (set.itemCount - s.itemCount)
  BY DEF Intersecting
<1>4. /\ s \in Records /\ s.itemCount = Cardinality(Contents(s))
      /\ set.itemCount \in Nat /\ s.itemCount \in Nat /\ N \in Nat
      /\ s.table \in [0 .. N - 1 -> Item \cup {NULL}]
  BY <1>3, RecordType DEF WellFormed, Shape
<1>5. CASE b = N
  <2>1. IntersectTurn(x, other) = x
    BY <1>2, <1>3, <1>5
  <2>2. QED
    BY <1>5, <2>1 DEF Intersecting
<1>6. CASE b # N /\ t # NULL /\ ~SetContains(other, t)
  <2>1. b \in 0 .. N - 1 /\ t \in Item
    BY <1>3, <1>4, <1>6
  <2>2. Probe(s, t) = b
    <3>1. Eq(s.table[b], t)
      BY DEF Eq
    <3>2. s.table[b] # NULL
      BY <1>6
    <3> HIDE DEF s, t, b
    <3>3. QED
      BY <1>3, <2>1, <3>1, <3>2, ProbeFinds
  <2>3. /\ WellFormed(new) /\ new.size = N
        /\ Contents(new) = Contents(s) \ {t}
        /\ \A c \in 0 .. b - 1 :
              new.table[c] # NULL => \E d \in 0 .. b - 1 : s.table[d] = new.table[c]
    <3> DEFINE p == Probe(s, t)
    <3> HIDE DEF s, t, b
    <3>1. /\ WellFormed(new) /\ new.size = s.size
          /\ Contents(new) = Contents(s) \ {s.table[p]}
          /\ \A c \in 0 .. p - 1 :
                new.table[c] # NULL => \E d \in 0 .. p - 1 : s.table[d] = new.table[c]
      BY <1>3, <2>1, RemoveWellFormed
    <3>2. s.table[b] = t
      BY DEF t
    <3> HIDE DEF new
    <3>3. QED
      BY <1>3, <2>2, <3>1, <3>2
  <2>4. IntersectTurn(x, other) = [set |-> new, b |-> b]
    BY <1>2, <1>3, <1>6
  <2>5. ~Shared(other, t)
    BY <1>6, <2>1, ContainsIsShared
  <2>6. new.itemCount = s.itemCount - 1
    <3>1. t \in Contents(s)
      BY <1>4, <1>6, <2>1 DEF Contents
    <3>2. IsFiniteSet(Contents(s)) /\ new.itemCount = Cardinality(Contents(new))
      BY <1>4, <2>3, ContentsType DEF WellFormed, Shape
    <3> HIDE DEF s, t, new
    <3>3. QED
      BY <1>4, <2>3, <3>1, <3>2, FS_RemoveElement
  <2> HIDE DEF new, t, s, b
  <2>7. n + 1 <= b + (set.itemCount - new.itemCount)
    BY <1>3, <1>4, <1>6, <2>1, <2>6
  <2>8. /\ \A a \in Contents(set) : Shared(other, a) => a \in Contents(new)
        /\ Contents(new) \subseteq Contents(set)
        /\ \A c \in 0 .. b - 1 : new.table[c] # NULL => Shared(other, new.table[c])
    BY <1>3, <2>3, <2>5
  <2>9. new \in Records /\ b \in Nat
    BY <2>1, <2>3 DEF WellFormed, Shape
  <2>10. QED
    BY <1>3, <2>3, <2>4, <2>7, <2>8, <2>9 DEF Intersecting
<1>7. CASE b # N /\ ~(t # NULL /\ ~SetContains(other, t))
  <2>1. b \in 0 .. N - 1 /\ (t = NULL \/ t \in Item)
    BY <1>3, <1>4, <1>7
  <2>2. IntersectTurn(x, other) = [set |-> s, b |-> b + 1]
    BY <1>2, <1>3, <1>7
  <2>3. t # NULL => Shared(other, t)
    BY <1>7, <2>1, ContainsIsShared
  <2>4. \A c \in 0 .. (b + 1) - 1 : s.table[c] # NULL => Shared(other, s.table[c])
    <3>1. \A c \in 0 .. (b + 1) - 1 : c \in 0 .. b - 1 \/ c = b
      BY <2>1, <1>4
    <3>2. QED
      BY <1>3, <2>3, <3>1
  <2> HIDE DEF t, s, b
  <2>5. n + 1 <= (b + 1) + (set.itemCount - s.itemCount) /\ b + 1 \in 0 .. N
    BY <1>3, <1>4, <1>7, <2>1
  <2>6. QED
    BY <1>3, <1>4, <2>2, <2>4, <2>5 DEF Intersecting
<1>8. QED
  BY <1>5, <1>6, <1>7

\* BRSetIntersect: the items without an equivalent in other go, and the loop ends.
LEMMA IntersectWellFormed ==
  ASSUME NEW set, WellFormed(set), NEW other, WellFormed(other)
  PROVE  /\ WellFormed(SetIntersect(set, other))
         /\ Contents(SetIntersect(set, other))
              = Contents(set) \ Apart(Contents(set), Contents(other))
<1> DEFINE N == 2 * set.size
           start == [set |-> set, b |-> 0]
           Turn(x) == IntersectTurn(x, other)
           After(f) == [n \in 0 .. N |-> IF n = 0 THEN start ELSE Turn(f[n - 1])]
           after[n \in 0 .. N] == IF n = 0 THEN start ELSE IntersectTurn(after[n - 1], other)
           States == [set : Records, b : Nat]
           X == [n \in 0 .. N |-> {x \in States : Intersecting(set, other, x, n)}]
           G == [n \in 1 .. N |-> [x \in States |-> Turn(x)]]
<1>1. set \in Records /\ N \in Nat /\ set.size \in Nat /\ set.itemCount \in Nat
      /\ set.itemCount < set.size
  <2>1. set \in Records /\ set.itemCount <= Threshold(set.size)
    BY DEF WellFormed, Shape
  <2>2. QED
    BY <2>1, RecordType
<1>2. start \in X[0]
  <2>1. Intersecting(set, other, start, 0)
    BY <1>1 DEF Intersecting
  <2>2. start \in States
    BY <1>1
  <2> HIDE DEF start, States
  <2>3. QED
    BY <1>1, <2>1, <2>2
<1>3. \A n \in 1 .. N : \A x \in X[n - 1] : G[n][x] = Turn(x) /\ Turn(x) \in X[n]
  <2> SUFFICES ASSUME NEW n \in 1 .. N, NEW x \in X[n - 1]
               PROVE  G[n][x] = Turn(x) /\ Turn(x) \in X[n]
    OBVIOUS
  <2>1. n - 1 \in 0 .. N /\ n \in 0 .. N /\ n - 1 \in Nat /\ (n - 1) + 1 = n
    BY <1>1
  <2>2. x \in States /\ Intersecting(set, other, x, n - 1)
    <3> HIDE DEF States
    <3>1. QED
      BY <2>1
  <2>3. Intersecting(set, other, Turn(x), (n - 1) + 1) /\ Turn(x) \in States
    BY <2>1, <2>2, IntersectStep
  <2> HIDE DEF Turn, States
  <2>4. Intersecting(set, other, Turn(x), n)
    BY <2>1, <2>3
  <2>5. QED
    BY <2>1, <2>2, <2>3, <2>4
<1>4. SetIntersect(set, other) = after[N].set
  BY DEF SetIntersect
<1> HIDE DEF N, X, G, Turn, start
<1>5. after = After(after)
  <2>1. PICK f : Turns(f, N, start, X, G)
    BY <1>1, <1>2, <1>3, LoopRuns
  <2>2. \A n \in 0 .. N : n = 0 \/ (n \in 1 .. N /\ n - 1 \in 0 .. N)
    BY <1>1
  <2>3. \A n \in 1 .. N : n - 1 \in 0 .. N => f[n] = Turn(f[n - 1])
    BY <1>3, <2>1 DEF Turns
  <2>4. \A n \in 0 .. N : f[n] = IF n = 0 THEN start ELSE Turn(f[n - 1])
    BY <2>1, <2>2, <2>3 DEF Turns
  <2>5. f = After(f)
    <3>1. f = [n \in 0 .. N |-> f[n]]
      BY <2>1 DEF Turns
    <3>2. QED
      BY <2>4, <3>1
  <2>6. QED
    BY <2>5 DEF Turn
<1> HIDE DEF after
<1>6. after[N] \in X[N]
  <2>1. after[0] = start
    BY <1>1, <1>5
  <2>2. \A n \in 1 .. N : n \in 0 .. N /\ n # 0
    BY <1>1
  <2>3. \A n \in 1 .. N : after[n - 1] \in X[n - 1] => after[n] = G[n][after[n - 1]]
    BY <1>3, <1>5, <2>2
  <2>4. Follows(after, N, start, X, G)
    BY <2>1, <2>3 DEF Follows
  <2>5. \A n \in 0 .. N : after[n] \in X[n]
    BY <1>1, <1>2, <1>3, <2>4, LoopEnds
  <2>6. QED
    BY <1>1, <2>5
<1> DEFINE x == after[N]
<1>7. Intersecting(set, other, x, N)
  BY <1>1, <1>6 DEF X
<1> HIDE DEF x
<1>8. /\ WellFormed(x.set) /\ x.set.size = set.size
      /\ Contents(x.set) \subseteq Contents(set)
      /\ \A a \in Contents(set) : Shared(other, a) => a \in Contents(x.set)
      /\ \A c \in 0 .. x.b - 1 : x.set.table[c] # NULL => Shared(other, x.set.table[c])
      /\ x.b \in 0 .. set.size
      /\ x.b = set.size \/ N <= x.b + (set.itemCount - x.set.itemCount)
  BY <1>7 DEF Intersecting
<1>9. x.b = set.size
  <2>1. x.set.itemCount \in Nat
    BY <1>8, RecordType DEF WellFormed, Shape
  <2>2. N = 2 * set.size
    BY DEF N
  <2>3. QED
    BY <1>1, <1>8, <2>1, <2>2
<1>10. \A a \in Contents(x.set) : Shared(other, a)
  <2>1. DOMAIN x.set.table = 0 .. set.size - 1
    BY <1>8, RecordType DEF WellFormed, Shape
  <2>2. QED
    BY <1>8, <1>9, <2>1 DEF Contents
<1>11. Contents(x.set) = Contents(set) \ Apart(Contents(set), Contents(other))
  BY <1>8, <1>10 DEF Shared, Apart
<1>12. QED
  BY <1>4, <1>8, <1>11 DEF x

-----------------------------------------------------------------------------
(* Iteration *)

\* how many items are in the buckets before b
Rank(set, b) == Cardinality(Used(set) \cap (0 .. b - 1))

LEMMA Ranks ==
  ASSUME NEW set, WellFormed(set)
  PROVE  /\ set.itemCount = Cardinality(Used(set))
         /\ \A b \in Used(set) : Rank(set, b) \in Nat
         /\ \A b, c \in Used(set) : b < c => Rank(set, b) < Rank(set, c)
         /\ \A b, c \in Used(set) :
               b < c /\ (\A d \in Used(set) : b < d => c <= d) => Rank(set, c) = Rank(set, b) + 1
         /\ \A b \in Used(set) : (\A d \in Used(set) : d <= b) => Rank(set, b) + 1 = set.itemCount
         /\ \A b \in Used(set) : Rank(set, b) < set.itemCount
         /\ \A b \in Used(set) : (\A d \in Used(set) : b <= d) => Rank(set, b) = 0
         /\ Used(set) = {} <=> set.itemCount = 0
<1> DEFINE U == Used(set)
           Low(b) == U \cap (0 .. b - 1)
<1>1. set \in Records /\ set.itemCount = Cardinality(Used(set))
  BY ContentsType DEF WellFormed, Shape
<1>2. IsFiniteSet(U) /\ U \subseteq Nat
  <2> DEFINE I == 0 .. set.size - 1
  <2>1. set.size \in Nat
    BY <1>1, RecordType
  <2>2. IsFiniteSet(I) /\ U \in SUBSET I /\ I \subseteq Nat
    BY <2>1, FS_Interval DEF Used
  <2> HIDE DEF I, U
  <2>3. QED
    BY <2>2, FS_Subset
<1> HIDE DEF U
<1>3. \A b : IsFiniteSet(Low(b)) /\ Cardinality(Low(b)) \in Nat
  <2>1. \A b : Low(b) \in SUBSET U
    OBVIOUS
  <2> HIDE DEF Low
  <2>2. QED
    BY <1>2, <2>1, FS_Subset, FS_CardinalityType
<1>4. \A b \in U : /\ IsFiniteSet(Low(b) \cup {b})
                   /\ Cardinality(Low(b) \cup {b}) = Cardinality(Low(b)) + 1
  <2>1. \A b \in U : b \notin Low(b)
    BY <1>2
  <2> HIDE DEF Low
  <2>2. QED
    BY <1>3, <2>1, FS_AddElement
<1>5. ASSUME NEW b \in U, NEW c \in U, b < c PROVE Cardinality(Low(b)) < Cardinality(Low(c))
  <2>1. Low(b) \cup {b} \in SUBSET Low(c)
    BY <1>2, <1>5
  <2> HIDE DEF Low
  <2>2. Cardinality(Low(b) \cup {b}) <= Cardinality(Low(c))
    BY <1>3, <2>1, FS_Subset
  <2>3. QED
    BY <1>3, <1>4, <2>2
<1>6. ASSUME NEW b \in U, NEW c \in U, b < c, \A d \in U : b < d => c <= d
      PROVE  Cardinality(Low(c)) = Cardinality(Low(b)) + 1
  <2>1. ASSUME NEW d \in U PROVE d \in 0 .. c - 1 <=> (d \in 0 .. b - 1 \/ d = b)
    BY <1>2, <1>6
  <2>2. Low(c) = Low(b) \cup {b}
    BY <2>1
  <2> HIDE DEF Low
  <2>3. QED
    BY <1>4, <2>2
<1>7. ASSUME NEW b \in U, \A d \in U : d <= b PROVE Cardinality(Low(b)) + 1 = Cardinality(U)
  <2>1. ASSUME NEW d \in U PROVE d \in 0 .. b - 1 \/ d = b
    BY <1>2, <1>7
  <2>2. U = Low(b) \cup {b}
    BY <2>1
  <2> HIDE DEF Low
  <2>3. QED
    BY <1>4, <2>2
<1>8. ASSUME NEW b \in U PROVE Cardinality(Low(b)) < Cardinality(U)
  <2>1. Low(b) \cup {b} \in SUBSET U
    OBVIOUS
  <2> HIDE DEF Low
  <2>2. Cardinality(Low(b) \cup {b}) <= Cardinality(U) /\ Cardinality(U) \in Nat
    BY <1>2, <2>1, FS_Subset, FS_CardinalityType
  <2>3. Cardinality(Low(b) \cup {b}) = Cardinality(Low(b)) + 1 /\ Cardinality(Low(b)) \in Nat
    BY <1>3, <1>4
  <2>4. QED
    BY <2>2, <2>3
<1>9. ASSUME NEW b \in U, \A d \in U : b <= d PROVE Cardinality(Low(b)) = 0
  <2>1. Low(b) = {}
    BY <1>2, <1>9
  <2> HIDE DEF Low
  <2>2. QED
    BY <2>1, FS_EmptySet
<1>10. U = {} <=> Cardinality(U) = 0
  BY <1>2, FS_EmptySet
<1>11. \A b : Rank(set, b) = Cardinality(Low(b))
  BY DEF Rank, U
<1> HIDE DEF Low
<1>12. QED
  BY <1>1, <1>3, <1>5, <1>6, <1>7, <1>8, <1>9, <1>10, <1>11 DEF U

\* BRSetIterate gives the first item behind the one it is given.
LEMMA IterateNext ==
  ASSUME NEW set, WellFormed(set), NEW previous,
         NEW from \in Nat,
         \/ previous = NULL /\ from = 0
         \/ /\ previous # NULL /\ previous \in Item
            /\ \E b \in Used(set) : set.table[b] = previous /\ from = b + 1
  PROVE  \/ /\ \A d \in Used(set) : ~(from <= d)
            /\ Iterate(set, previous) = NULL
         \/ \E c \in Used(set) : /\ from <= c
                                 /\ \A d \in Used(set) : from <= d => c <= d
                                 /\ Iterate(set, previous) = set.table[c]
<1> DEFINE rest == {b \in from .. set.size - 1 : set.table[b] # NULL}
           first == CHOOSE b \in rest : \A c \in rest : b <= c
<1>1. set \in Records /\ set.size \in Nat
  BY RecordType DEF WellFormed, Shape
<1>2. (IF previous = NULL THEN 0 ELSE Probe(set, previous) + 1) = from
  <2>1. CASE previous = NULL /\ from = 0
    BY <2>1
  <2>2. CASE previous # NULL /\ previous \in Item
             /\ \E b \in Used(set) : set.table[b] = previous /\ from = b + 1
    <3>1. PICK b \in Used(set) : set.table[b] = previous /\ from = b + 1
      BY <2>2
    <3>2. b \in 0 .. set.size - 1 /\ set.table[b] # NULL /\ Eq(set.table[b], previous)
      BY <2>2, <3>1 DEF Used, Eq
    <3>3. b = Probe(set, previous)
      BY <2>2, <3>2, ProbeFinds
    <3>4. QED
      BY <2>2, <3>1, <3>3
  <2>3. QED
    BY <2>1, <2>2
<1>3. Iterate(set, previous) = IF rest = {} THEN NULL ELSE set.table[first]
  <2> DEFINE f == IF previous = NULL THEN 0 ELSE Probe(set, previous) + 1
             Rest(n) == {b \in n .. set.size - 1 : set.table[b] # NULL}
             Least(n) == CHOOSE b \in Rest(n) : \A c \in Rest(n) : b <= c
  <2>1. Iterate(set, previous) = IF Rest(f) = {} THEN NULL ELSE set.table[Least(f)]
    BY DEF Iterate
  <2>2. f = from
    BY <1>2
  <2> HIDE DEF f
  <2>3. QED
    BY <2>1, <2>2
<1>4. \A d : d \in rest <=> (d \in Used(set) /\ from <= d)
  BY <1>1 DEF Used
<1> HIDE DEF rest
<1>5. CASE rest = {}
  BY <1>3, <1>4, <1>5
<1>6. CASE rest # {}
  <2>1. rest \subseteq Nat
    BY <1>1, <1>4 DEF Used
  <2>2. \E b \in rest : \A c \in rest : b <= c
    BY <1>6, <2>1, LeastNumber
  <2>3. first \in rest /\ \A c \in rest : first <= c
    BY <2>2
  <2> HIDE DEF first
  <2>4. QED
    BY <1>3, <1>4, <1>6, <2>3
<1>7. QED
  BY <1>5, <1>6

\* what the n-th call gives, counted from 0: the item with n others before it
Visited(set, n, v) ==
  IF n < set.itemCount THEN \E b \in Used(set) : Rank(set, b) = n /\ v = set.table[b]
                       ELSE v = NULL

LEMMA VisitStep ==
  ASSUME NEW set, WellFormed(set), NEW n \in 1 .. set.itemCount, NEW v, Visited(set, n - 1, v)
  PROVE  Visited(set, n, Iterate(set, v))
<1>1. set \in Records /\ set.itemCount \in Nat
  BY RecordType DEF WellFormed, Shape
<1>2. PICK b \in Used(set) : Rank(set, b) = n - 1 /\ v = set.table[b]
  BY <1>1 DEF Visited
<1>3. /\ b \in Nat /\ v # NULL /\ v \in Item
      /\ \A d \in Used(set) : d \in Nat
  <2>1. set.table \in [0 .. set.size - 1 -> Item \cup {NULL}] /\ set.size \in Nat
    BY <1>1, RecordType
  <2>2. QED
    BY <1>2, <2>1 DEF Used
<1>4. b + 1 \in Nat
  BY <1>3
<1>5. \/ /\ \A d \in Used(set) : ~(b + 1 <= d)
         /\ Iterate(set, v) = NULL
      \/ \E c \in Used(set) : /\ b + 1 <= c
                              /\ \A d \in Used(set) : b + 1 <= d => c <= d
                              /\ Iterate(set, v) = set.table[c]
  <2>1. \E a \in Used(set) : set.table[a] = v /\ b + 1 = a + 1
    BY <1>2
  <2>2. QED
    BY <1>3, <1>4, <2>1, IterateNext
<1>6. CASE (\A d \in Used(set) : ~(b + 1 <= d)) /\ Iterate(set, v) = NULL
  <2>1. \A d \in Used(set) : d <= b
    BY <1>3, <1>6
  <2>2. Rank(set, b) + 1 = set.itemCount
    BY <2>1, Ranks
  <2>3. ~(n < set.itemCount)
    BY <1>1, <1>2, <2>2
  <2>4. QED
    BY <1>6, <2>3 DEF Visited
<1>7. ASSUME NEW c \in Used(set), b + 1 <= c, \A d \in Used(set) : b + 1 <= d => c <= d,
             Iterate(set, v) = set.table[c]
      PROVE  Visited(set, n, Iterate(set, v))
  <2>1. b < c /\ \A d \in Used(set) : b < d => c <= d
    BY <1>3, <1>7
  <2>2. Rank(set, c) = Rank(set, b) + 1 /\ Rank(set, c) < set.itemCount
    BY <2>1, Ranks
  <2>3. Rank(set, c) = n
    BY <1>2, <2>2
  <2>4. QED
    BY <1>7, <2>2, <2>3 DEF Visited
<1>8. QED
  BY <1>5, <1>6, <1>7

LEMMA VisitsAll ==
  ASSUME NEW set, WellFormed(set)
  PROVE  LET count == set.itemCount
             visit[n \in 0 .. count] == Iterate(set, IF n = 0 THEN NULL ELSE visit[n - 1])
         IN  /\ {visit[n] : n \in 0 .. count - 1} = Contents(set)
             /\ visit[count] = NULL
             /\ count = Cardinality(Contents(set))
<1> DEFINE count == set.itemCount
           start == Iterate(set, NULL)
           After(f) == [n \in 0 .. count |-> Iterate(set, IF n = 0 THEN NULL ELSE f[n - 1])]
           visit[n \in 0 .. count] == Iterate(set, IF n = 0 THEN NULL ELSE visit[n - 1])
           Values == Item \cup {NULL}
           X == [n \in 0 .. count |-> {v \in Values : Visited(set, n, v)}]
           G == [n \in 1 .. count |-> [v \in Values |-> Iterate(set, v)]]
<1>1. set \in Records /\ count \in Nat /\ count = Cardinality(Contents(set))
  BY RecordType DEF WellFormed, Shape
<1>2. set.table \in [0 .. set.size - 1 -> Item \cup {NULL}]
  BY <1>1, RecordType
<1>3. \A n, v : Visited(set, n, v) => v \in Values
  BY <1>2 DEF Visited, Used
<1>4. Visited(set, 0, start)
  <2>1. \/ /\ \A d \in Used(set) : ~(0 <= d)
           /\ start = NULL
        \/ \E c \in Used(set) : /\ 0 <= c
                                /\ \A d \in Used(set) : 0 <= d => c <= d
                                /\ start = set.table[c]
    BY IterateNext
  <2>2. \A d \in Used(set) : d \in Nat
    BY <1>1, RecordType DEF Used
  <2> HIDE DEF start
  <2>3. CASE Used(set) = {}
    BY <1>1, <2>1, <2>3, Ranks DEF Visited
  <2>4. CASE Used(set) # {}
    <3>1. PICK c \in Used(set) : (\A d \in Used(set) : c <= d) /\ start = set.table[c]
      BY <2>1, <2>2, <2>4
    <3>2. Rank(set, c) = 0 /\ Rank(set, c) < count
      BY <3>1, Ranks
    <3>3. QED
      BY <3>1, <3>2 DEF Visited
  <2>5. QED
    BY <2>3, <2>4
<1> HIDE DEF Values
<1>5. start \in X[0]
  BY <1>1, <1>3, <1>4
<1>6. \A n \in 1 .. count : \A v \in X[n - 1] :
         G[n][v] = Iterate(set, v) /\ Iterate(set, v) \in X[n]
  <2> SUFFICES ASSUME NEW n \in 1 .. count, NEW v \in X[n - 1]
               PROVE  G[n][v] = Iterate(set, v) /\ Iterate(set, v) \in X[n]
    OBVIOUS
  <2>1. n - 1 \in 0 .. count /\ n \in 0 .. count
    BY <1>1
  <2>2. v \in Values /\ Visited(set, n - 1, v)
    BY <2>1
  <2>3. Visited(set, n, Iterate(set, v))
    BY <2>2, VisitStep
  <2>4. QED
    BY <1>3, <2>1, <2>2, <2>3
<1> HIDE DEF X, G, start
<1>7. visit = After(visit)
  <2> HIDE DEF count
  <2>1. PICK f : Turns(f, count, start, X, G)
    BY <1>1, <1>5, <1>6, LoopRuns
  <2>2. \A n \in 0 .. count : n = 0 \/ (n \in 1 .. count /\ n - 1 \in 0 .. count)
    BY <1>1
  <2>3. \A n \in 1 .. count : n - 1 \in 0 .. count => f[n] = Iterate(set, f[n - 1])
    BY <1>6, <2>1 DEF Turns
  <2>4. \A n \in 0 .. count : f[n] = Iterate(set, IF n = 0 THEN NULL ELSE f[n - 1])
    BY <2>1, <2>2, <2>3 DEF Turns, start
  <2>5. f = After(f)
    <3>1. f = [n \in 0 .. count |-> f[n]]
      BY <2>1 DEF Turns
    <3>2. QED
      BY <2>4, <3>1
  <2>6. QED
    BY <2>5
<1> HIDE DEF visit
<1>8. \A n \in 0 .. count : visit[n] \in X[n]
  <2> HIDE DEF count
  <2>1. visit[0] = start
    BY <1>1, <1>7 DEF start
  <2>2. \A n \in 1 .. count : n \in 0 .. count /\ n # 0
    BY <1>1
  <2>3. \A n \in 1 .. count : visit[n - 1] \in X[n - 1] => visit[n] = G[n][visit[n - 1]]
    BY <1>6, <1>7, <2>2
  <2>4. Follows(visit, count, start, X, G)
    BY <2>1, <2>3 DEF Follows
  <2>5. \A n \in 1 .. count : \A v \in X[n - 1] : G[n][v] \in X[n]
    BY <1>6
  <2>6. QED
    BY <1>1, <1>5, <2>4, <2>5, LoopEnds
<1>9. \A n \in 0 .. count : Visited(set, n, visit[n])
  BY <1>8 DEF X
<1>10. visit[count] = NULL
  BY <1>1, <1>9 DEF Visited
<1>11. Contents(set) = {set.table[b] : b \in Used(set)}
  BY <1>1, ContentsType
<1>12. \A n \in 0 .. count - 1 : visit[n] \in Contents(set)
  <2> SUFFICES ASSUME NEW n \in 0 .. count - 1 PROVE visit[n] \in Contents(set)
    OBVIOUS
  <2>1. n \in 0 .. count /\ n < count
    BY <1>1
  <2>2. QED
    BY <1>9, <1>11, <2>1 DEF Visited
<1>13. \A a \in Contents(set) : \E n \in 0 .. count - 1 : visit[n] = a
  <2> SUFFICES ASSUME NEW a \in Contents(set) PROVE \E n \in 0 .. count - 1 : visit[n] = a
    OBVIOUS
  <2>1. PICK b \in Used(set) : a = set.table[b]
    BY <1>11
  <2> DEFINE n == Rank(set, b)
  <2>2. n \in Nat /\ n < count
    BY Ranks
  <2>3. n \in 0 .. count - 1 /\ n \in 0 .. count
    BY <1>1, <2>2
  <2>4. PICK c \in Used(set) : Rank(set, c) = n /\ visit[n] = set.table[c]
    BY <1>9, <2>2, <2>3 DEF Visited
  <2>5. b = c
    <3>1. b \in Nat /\ c \in Nat
      BY <1>1, RecordType DEF Used
    <3>2. ~(b < c) /\ ~(c < b)
      BY <2>2, <2>4, Ranks
    <3>3. QED
      BY <3>1, <3>2
  <2> HIDE DEF n
  <2>6. QED
    BY <2>1, <2>3, <2>4, <2>5
<1>14. {visit[n] : n \in 0 .. count - 1} = Contents(set)
  BY <1>12, <1>13
<1>15. QED
  BY <1>1, <1>10, <1>14 DEF visit

-----------------------------------------------------------------------------
(* The abstract operators *)

LEMMA MemberIs ==
  ASSUME NEW A, A \subseteq Item, NEW item \in Item
  PROVE  /\ Abstract!Member(A, item) = NULL <=> \A a \in A : ~Eq(a, item)
         /\ Abstract!Member(A, item) # NULL =>
              Abstract!Member(A, item) \in A /\ Eq(Abstract!Member(A, item), item)
<1> DEFINE same == {a \in A : KeyOf[a] = KeyOf[item]}
           m == CHOOSE a \in same : TRUE
<1>1. Abstract!Member(A, item) = IF same = {} THEN NULL ELSE m
  BY DEF Abstract!Member
<1>2. same # {} => m \in same
  OBVIOUS
<1> HIDE DEF m
<1>3. QED
  BY <1>1, <1>2, KeyAssumption DEF Eq

LEMMA GetIsAbstract ==
  ASSUME NEW set, WellFormed(set), NEW item \in Item
  PROVE  SetGet(set, item) = Abstract!Member(Contents(set), item)
<1>1. Contents(set) \subseteq Item /\ NULL \notin Contents(set)
  BY ContentsType DEF WellFormed, Shape, Contents
<1>2. /\ SetGet(set, item) # NULL =>
              SetGet(set, item) \in Contents(set) /\ Eq(SetGet(set, item), item)
      /\ \A a \in Contents(set) : Eq(a, item) => a = SetGet(set, item)
  BY GetIsMember
<1>3. QED
  BY <1>1, <1>2, MemberIs

LEMMA WithoutIsApart ==
  ASSUME NEW A, A \subseteq Item, NEW B, B \subseteq Item
  PROVE  /\ Abstract!Without(A, B) = Apart(A, B)
         /\ Abstract!Within(A, B) = A \ Apart(A, B)
<1>1. Abstract!Without(A, B) = Apart(A, B)
  BY MemberIs DEF Abstract!Without, Apart
<1>2. QED
  BY <1>1 DEF Abstract!Within

-----------------------------------------------------------------------------
(* The sets in use *)

\* The inductive invariant: between two calls every table is well-formed.
TablesInv == sets \in [SetName -> Records] /\ \A s \in SetName : WellFormed(sets[s])

LEMMA InitTables ==
  ASSUME Init
  PROVE  TablesInv
<1>1. \A s \in SetName : WellFormed(SetInit(Capacity[s]))
  BY CapacityAssumption, InitWellFormed
<1>2. \A s \in SetName : SetInit(Capacity[s]) \in Records
  BY <1>1 DEF WellFormed, Shape
<1>3. QED
  BY <1>1, <1>2 DEF Init, TablesInv

\* A call that puts a well-formed table in the place of one is a call of AbstractSet.
LEMMA ChangeIsResult ==
  ASSUME TablesInv, NEW name, NEW s \in SetName, NEW arg, NEW set, WellFormed(set), NEW r,
         Changes(name, s, arg, set, r)
  PROVE  TablesInv' /\ Abstract!Result(name, s, arg, Contents(set), r)
<1>1. sets' = [sets EXCEPT ![s] = set] /\ call' = <<name, s, arg>> /\ ret' = r
  BY DEF Changes
<1>2. set \in Records
  BY DEF WellFormed, Shape
<1>3. TablesInv'
  BY <1>1, <1>2 DEF TablesInv
<1>4. \A x \in SetName : sets'[x] = IF x = s THEN set ELSE sets[x]
  BY <1>1 DEF TablesInv
<1>5. [x \in SetName |-> Contents(sets'[x])]
        = [[x \in SetName |-> Contents(sets[x])] EXCEPT ![s] = Contents(set)]
  BY <1>4
<1>6. QED
  BY <1>1, <1>3, <1>5 DEF Abstract!Result

LEMMA ClearWellFormed ==
  ASSUME NEW set, WellFormed(set)
  PROVE  LET new == [set EXCEPT !.table = [b \in DOMAIN @ |-> NULL], !.itemCount = 0]
         IN  WellFormed(new) /\ Contents(new) = {}
<1> DEFINE empty == [b \in 0 .. set.size - 1 |-> NULL]
           new == WithTable(set, empty, 0)
<1>1. set \in Records
  BY DEF WellFormed, Shape
<1>2. PICK n, t, c : set = [size |-> n, table |-> t, itemCount |-> c]
  BY <1>1, RecordType
<1>3. set.table \in [0 .. set.size - 1 -> Item \cup {NULL}] /\ Threshold(set.size) \in Nat
  BY <1>1, RecordType
<1>4. [set EXCEPT !.table = [b \in DOMAIN @ |-> NULL], !.itemCount = 0] = new
  <2> DEFINE one == [size |-> n, table |-> empty, itemCount |-> c]
  <2>1. [b \in DOMAIN set.table |-> NULL] = empty
    BY <1>3
  <2> HIDE DEF empty
  <2>2. [set EXCEPT !.table = empty] = one
    BY <1>2
  <2>3. [one EXCEPT !.itemCount = 0] = new
    BY <1>2 DEF WithTable
  <2>4. [set EXCEPT !.table = empty, !.itemCount = 0]
          = [[set EXCEPT !.table = empty] EXCEPT !.itemCount = 0]
    BY <1>2
  <2>5. [set EXCEPT !.table = [b \in DOMAIN @ |-> NULL], !.itemCount = 0]
          = [set EXCEPT !.table = empty, !.itemCount = 0]
    BY <2>1
  <2>6. QED
    BY <2>2, <2>3, <2>4, <2>5
<1>5. new.size = set.size /\ new.table = empty /\ new.itemCount = 0
  BY DEF WithTable
<1>6. new \in Records
  BY <1>1, WithTableType
<1> HIDE DEF new
<1>7. Contents(new) = {}
  BY <1>5 DEF Contents
<1>8. Distinct(new) /\ Chained(new)
  BY <1>5 DEF Distinct, Chained
<1>9. WellFormed(new)
  BY <1>3, <1>5, <1>6, <1>7, <1>8, FS_EmptySet DEF WellFormed, Shape
<1>10. QED
  BY <1>4, <1>7, <1>9

LEMMA IntersectsIsAbstract ==
  ASSUME NEW set, WellFormed(set), NEW other, WellFormed(other)
  PROVE  SetIntersects(set, other)
           = (Contents(set) \ Apart(Contents(set), Contents(other)) # {})
<1> DEFINE I == Contents(set) \ Apart(Contents(set), Contents(other))
<1>1. other \in Records
  BY DEF WellFormed, Shape
<1>2. Contents(other) = {other.table[b] : b \in Used(other)} /\ Contents(other) \subseteq Item
  BY <1>1, ContentsType
<1>3. SetIntersects(set, other) <=> \E a \in Contents(other) : Shared(set, a)
  <2>1. SetIntersects(set, other) <=> \E a \in Contents(other) : SetContains(set, a)
    BY <1>2 DEF SetIntersects, Used
  <2>2. QED
    BY <1>2, <2>1, ContainsIsShared
<1>4. (\E a \in Contents(other) : Shared(set, a)) <=> I # {}
  BY DEF Shared, Apart, Eq
<1>5. SetIntersects(set, other) \in BOOLEAN
  BY DEF SetIntersects
<1> HIDE DEF I
<1>6. SetIntersects(set, other) = (I # {})
  BY <1>3, <1>4, <1>5
<1>7. QED
  BY <1>6 DEF I

\* Every step of the tables is a step of the sets, or none.
LEMMA NextTables ==
  ASSUME TablesInv, [Next]_vars
  PROVE  TablesInv' /\ [Abstract!ANext]_(Abstract!avars)
<1> DEFINE C(s) == Contents(sets[s])
<1>1. \A s \in SetName : /\ WellFormed(sets[s]) /\ C(s) \subseteq Item
                         /\ sets[s].itemCount = Cardinality(C(s))
  BY ContentsType DEF TablesInv, WellFormed, Shape
<1>2. CASE UNCHANGED vars
  <2>1. sets' = sets /\ call' = call /\ ret' = ret
    BY <1>2 DEF vars
  <2>2. QED
    BY <2>1 DEF TablesInv, Abstract!avars
<1>3. \A s \in SetName : [x \in SetName |-> Contents(sets[x])][s] = C(s)
  OBVIOUS
<1>4. ASSUME NEW s \in SetName, NEW i \in Item,
             BRSetAdd(s, i) \/ BRSetRemove(s, i) \/ BRSetGet(s, i)
      PROVE  TablesInv' /\ Abstract!ANext
  <2>1. /\ Apart(C(s), {i}) = Abstract!Without(C(s), {i})
        /\ SetGet(sets[s], i) = Abstract!Member(C(s), i)
    BY <1>1, GetIsAbstract, WithoutIsApart
  <2>2. CASE BRSetAdd(s, i)
    <3>1. TablesInv' /\ Abstract!Result("add", s, i, Contents(SetAdd(sets[s], i)), SetGet(sets[s], i))
      BY <1>1, <2>2, AddWellFormed, ChangeIsResult DEF BRSetAdd
    <3>2. Contents(SetAdd(sets[s], i)) = Abstract!Without(C(s), {i}) \cup {i}
      BY <1>1, <2>1, AddWellFormed
    <3>3. QED
      BY <1>3, <2>1, <3>1, <3>2 DEF Abstract!ANext
  <2>3. CASE BRSetRemove(s, i)
    <3>1. WellFormed(SetRemove(sets[s], i)) /\ Contents(SetRemove(sets[s], i)) = Apart(C(s), {i})
      BY <1>1, RemoveWellFormed
    <3>2. TablesInv' /\ Abstract!Result("remove", s, i, Contents(SetRemove(sets[s], i)), SetGet(sets[s], i))
      BY <2>3, <3>1, ChangeIsResult DEF BRSetRemove
    <3>3. QED
      BY <1>3, <2>1, <3>1, <3>2 DEF Abstract!ANext
  <2>4. CASE BRSetGet(s, i)
    <3>1. TablesInv' /\ Abstract!Result("get", s, i, C(s), SetGet(sets[s], i))
      BY <1>1, <2>4, ChangeIsResult DEF BRSetGet
    <3>2. QED
      BY <1>3, <2>1, <3>1 DEF Abstract!ANext
  <2>5. QED
    BY <1>4, <2>2, <2>3, <2>4
<1>5. ASSUME NEW s \in SetName, BRSetCount(s) \/ BRSetClear(s)
      PROVE  TablesInv' /\ Abstract!ANext
  <2>1. CASE BRSetCount(s)
    <3>1. TablesInv' /\ Abstract!Result("count", s, NULL, C(s), sets[s].itemCount)
      BY <1>1, <2>1, ChangeIsResult DEF BRSetCount
    <3> DEFINE A == [x \in SetName |-> Contents(sets[x])]
    <3>2. C(s) = A[s] /\ sets[s].itemCount = Cardinality(A[s])
      BY <1>1
    <3>3. Abstract!Result("count", s, NULL, A[s], Cardinality(A[s]))
      BY <3>1, <3>2
    <3>4. Abstract!Cardinality(A[s]) = Cardinality(A[s])
      BY Zenon DEF Abstract!Cardinality, Cardinality
    <3>5. Abstract!ANext
      BY <3>3, <3>4, Zenon DEF Abstract!ANext
    <3>6. QED
      BY <3>1, <3>5
  <2>2. CASE BRSetClear(s)
    <3> DEFINE new == [sets[s] EXCEPT !.table = [b \in DOMAIN @ |-> NULL], !.itemCount = 0]
    <3>1. WellFormed(new) /\ Contents(new) = {}
      BY <1>1, ClearWellFormed
    <3>2. Changes("clear", s, NULL, new, NULL)
      BY <2>2 DEF BRSetClear
    <3> HIDE DEF new
    <3>3. TablesInv' /\ Abstract!Result("clear", s, NULL, {}, NULL)
      BY <3>1, <3>2, ChangeIsResult
    <3>4. QED
      BY <3>3 DEF Abstract!ANext
  <2>3. QED
    BY <1>5, <2>1, <2>2
<1>6. ASSUME NEW s \in SetName, NEW o \in SetName,
             \/ BRSetUnion(s, o) \/ BRSetMinus(s, o)
             \/ BRSetIntersect(s, o) \/ BRSetIntersects(s, o)
      PROVE  TablesInv' /\ Abstract!ANext
  <2>1. /\ Apart(C(s), C(o)) = Abstract!Without(C(s), C(o))
        /\ C(s) \ Apart(C(s), C(o)) = Abstract!Within(C(s), C(o))
    BY <1>1, WithoutIsApart
  <2>2. CASE BRSetUnion(s, o)
    <3>1. /\ WellFormed(SetUnion(sets[s], sets[o]))
          /\ Contents(SetUnion(sets[s], sets[o])) = Apart(C(s), C(o)) \cup C(o)
      BY <1>1, UnionWellFormed
    <3>2. TablesInv' /\ Abstract!Result("union", s, o, Apart(C(s), C(o)) \cup C(o), NULL)
      BY <2>2, <3>1, ChangeIsResult DEF BRSetUnion
    <3>3. QED
      BY <1>3, <2>1, <3>2 DEF Abstract!ANext
  <2>3. CASE BRSetMinus(s, o)
    <3>1. /\ WellFormed(SetMinus(sets[s], sets[o]))
          /\ Contents(SetMinus(sets[s], sets[o])) = Apart(C(s), C(o))
      BY <1>1, MinusWellFormed
    <3>2. TablesInv' /\ Abstract!Result("minus", s, o, Apart(C(s), C(o)), NULL)
      BY <2>3, <3>1, ChangeIsResult DEF BRSetMinus
    <3>3. QED
      BY <1>3, <2>1, <3>2 DEF Abstract!ANext
  <2>4. CASE BRSetIntersect(s, o)
    <3>1. /\ WellFormed(SetIntersect(sets[s], sets[o]))
          /\ Contents(SetIntersect(sets[s], sets[o])) = C(s) \ Apart(C(s), C(o))
      BY <1>1, IntersectWellFormed
    <3>2. TablesInv' /\ Abstract!Result("intersect", s, o, C(s) \ Apart(C(s), C(o)), NULL)
      BY <2>4, <3>1, ChangeIsResult DEF BRSetIntersect
    <3>3. QED
      BY <1>3, <2>1, <3>2 DEF Abstract!ANext
  <2>5. CASE BRSetIntersects(s, o)
    <3>1. SetIntersects(sets[s], sets[o]) = (Abstract!Within(C(s), C(o)) # {})
      BY <1>1, <2>1, IntersectsIsAbstract
    <3>2. TablesInv' /\ Abstract!Result("intersects", s, o, C(s), SetIntersects(sets[s], sets[o]))
      BY <1>1, <2>5, ChangeIsResult DEF BRSetIntersects
    <3>3. QED
      BY <1>3, <3>1, <3>2 DEF Abstract!ANext
  <2>6. QED
    BY <1>6, <2>2, <2>3, <2>4, <2>5
<1>7. QED
  BY <1>2, <1>4, <1>5, <1>6 DEF Next

-----------------------------------------------------------------------------
(* Theorems *)

\* Between two calls every table is well-formed: no two items are equivalent, no
\* empty bucket lies on the way from an item's home to its bucket, the count is
\* right and does not exceed the load at which BRSetAdd grows the table.
THEOREM TablesStayWellFormed == Spec => []TablesInv
<1>1. Init => TablesInv
  BY InitTables
<1>2. TablesInv /\ [Next]_vars => TablesInv'
  BY NextTables
<1>3. QED
  BY <1>1, <1>2, PTL DEF Spec

\* Every table has one of the sizes of tableSizes, a bucket for each index and a
\* count that fits, also after growth and re-insertion.
THEOREM TypeCorrect == Spec => []TypeOK
<1>1. TablesInv => TypeOK
  <2> SUFFICES ASSUME TablesInv, NEW s \in SetName
               PROVE  /\ sets[s].size \in {TableSizes[n] : n \in 2 .. Len(TableSizes)}
                      /\ sets[s].table \in [0 .. sets[s].size - 1 -> Item \cup {NULL}]
                      /\ sets[s].itemCount \in 0 .. sets[s].size
    BY DEF TypeOK
  <2>1. sets[s] \in Records /\ sets[s].itemCount <= Threshold(sets[s].size)
    BY DEF TablesInv, WellFormed
  <2>2. QED
    BY <2>1, RecordType
<1>2. QED
  BY <1>1, TablesStayWellFormed, PTL

\* Every probe loop of BRSet.c meets an empty bucket or an equivalent, and every item
\* is found from its own hash, whatever was added, removed or moved before.
THEOREM ProbesAlwaysEnd == Spec => []ProbesEnd
<1>1. TablesInv => ProbesEnd
  <2> SUFFICES ASSUME TablesInv, NEW s \in SetName
               PROVE  /\ \E b \in DOMAIN sets[s].table : sets[s].table[b] = NULL
                      /\ \A i \in Contents(sets[s]) : SetGet(sets[s], i) = i
    BY DEF ProbesEnd
  <2>1. sets[s] \in Records /\ WellFormed(sets[s])
    BY DEF TablesInv
  <2>2. DOMAIN sets[s].table = 0 .. sets[s].size - 1 /\ Contents(sets[s]) \subseteq Item
    BY <2>1, RecordType, ContentsType
  <2>3. \E b \in DOMAIN sets[s].table : sets[s].table[b] = NULL
    BY <2>1, <2>2, EmptyBucket DEF HasEmpty
  <2>4. \A i \in Contents(sets[s]) : SetGet(sets[s], i) = i
    BY <2>1, <2>2, GetIsMember DEF Eq
  <2>5. QED
    BY <2>3, <2>4
<1>2. QED
  BY <1>1, TablesStayWellFormed, PTL

\* Following BRSetIterate from NULL meets every item once and then NULL, although each
\* call finds its place by probing for the item of the call before.
THEOREM IterationIsComplete == Spec => []IterationComplete
<1>1. TablesInv => IterationComplete
  BY VisitsAll DEF TablesInv, IterationComplete
<1>2. QED
  BY <1>1, TablesStayWellFormed, PTL

\* The hash table implements a set: every call of BRSet.h does to the contents, and
\* returns, what AbstractSet says.
THEOREM TablesImplementSets == Spec => ImplementsSet
<1>1. Init => Abstract!AInit
  <2>1. \A s \in SetName : Contents(SetInit(Capacity[s])) = {}
    BY CapacityAssumption, InitWellFormed
  <2>2. QED
    BY <2>1 DEF Init, Abstract!AInit
<1>2. TablesInv /\ [Next]_vars => [Abstract!ANext]_(Abstract!avars)
  BY NextTables
<1>3. QED
  BY <1>1, <1>2, TablesStayWellFormed, PTL DEF Spec, ImplementsSet, Abstract!ASpec

=============================================================================
