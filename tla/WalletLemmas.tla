---------------------------- MODULE WalletLemmas ----------------------------
(***************************************************************************)
(* What the operators of Wallet compute, for every argument: the lists     *)
(* that Select and InsertAt return, sums of amounts, and the length        *)
(* BRWalletUnusedAddrs gives an address chain.                             *)
(*                                                                         *)
(* The recursive functions among them are shown to exist, and to do what   *)
(* they should, by taking the least number at which they would fail.       *)
(***************************************************************************)
EXTENDS Wallet, TLAPS, FiniteSetTheorems, SequenceTheorems

-----------------------------------------------------------------------------
(* Numbers *)

LEMMA NatLeast ==
  ASSUME NEW T, T \subseteq Nat, T # {}
  PROVE  \E m \in T : \A n \in T : m <= n
<1>1. IsWellFoundedOn(OpToRel(<, Nat), Nat)
  BY NatLessThanWellFounded
<1>2. PICK m \in T : \A n \in T : ~(<<n, m>> \in OpToRel(<, Nat))
  BY <1>1, WFMin
<1>3. \A n \in T : ~(n < m)
  BY <1>2 DEF OpToRel
<1>4. QED
  BY <1>3

LEMMA MinIs ==
  ASSUME NEW S, S \subseteq Nat, S # {}
  PROVE  Min(S) \in S /\ \A y \in S : Min(S) <= y
  BY NatLeast DEF Min

LEMMA MaxIs ==
  ASSUME NEW n \in Nat, NEW S, S \subseteq 0 .. n, S # {}
  PROVE  Max(S) \in S /\ \A y \in S : y <= Max(S)
<1> DEFINE T == {n - x : x \in S}
<1>1. T \subseteq Nat /\ T # {}
  <2>1. \A x \in S : n - x \in Nat
    <3> TAKE x \in S
    <3>1. x \in 0 .. n
      OBVIOUS
    <3>2. QED
      BY <3>1
  <2>2. QED
    BY <2>1
<1>2. PICK m \in T : \A k \in T : m <= k
  <2> HIDE DEF T
  <2> QED BY <1>1, NatLeast
<1>3. PICK x \in S : m = n - x
  OBVIOUS
<1>4. \A y \in S : x >= y
  <2> TAKE y \in S
  <2>1. m <= n - y /\ x \in Int /\ y \in Int
    BY <1>2
  <2>2. QED
    BY <1>3, <2>1
<1>5. Max(S) \in S /\ \A y \in S : Max(S) >= y
  <2> HIDE DEF T
  <2> QED BY <1>4 DEF Max
<1>6. QED
  BY <1>5

\* the windows of an address chain follow one another
LEMMA Windows ==
  ASSUME NEW g \in Nat, NEW k \in Nat, NEW m \in Nat, k < m
  PROVE  g * k + g <= g * m /\ g * k \in Nat /\ g * m \in Nat
<1>1. PICK d \in Nat : m = k + 1 + d
  <2>1. m - k - 1 \in Nat /\ m = k + 1 + (m - k - 1)
    OBVIOUS
  <2>2. QED
    BY <2>1
<1>2. g * m = g * k + g + g * d
  BY <1>1
<1>3. g * d \in Nat /\ g * k \in Nat
  OBVIOUS
<1>4. QED
  BY <1>2, <1>3

-----------------------------------------------------------------------------
(* Lists *)

LEMMA BeforeMembers ==
  ASSUME NEW seq, NEW x, NEW y, Before(seq, x, y)
  PROVE  x \in ToSet(seq) /\ y \in ToSet(seq)
  BY DEF Before, ToSet

LEMMA InjectiveBefore ==
  ASSUME NEW A, NEW seq \in Seq(A)
  PROVE  IsInjective(seq) <=> \A x : ~Before(seq, x, x)
<1>1. DOMAIN seq \subseteq Int
  OBVIOUS
<1>2. ASSUME IsInjective(seq), NEW x, Before(seq, x, x) PROVE FALSE
  BY <1>1, <1>2 DEF IsInjective, Before
<1>3. ASSUME \A x : ~Before(seq, x, x), NEW i \in DOMAIN seq, NEW j \in DOMAIN seq, seq[i] = seq[j]
      PROVE  i = j
  <2>1. ~(i < j) /\ ~(j < i)
    BY <1>3 DEF Before
  <2>2. QED
    BY <1>1, <2>1
<1>4. QED
  BY <1>2, <1>3 DEF IsInjective

LEMMA AppendIs ==
  ASSUME NEW A, NEW seq \in Seq(A), NEW x \in A
  PROVE  /\ Append(seq, x) \in Seq(A)
         /\ ToSet(Append(seq, x)) = ToSet(seq) \cup {x}
         /\ \A a, b : Before(Append(seq, x), a, b) <=>
                        Before(seq, a, b) \/ (a \in ToSet(seq) /\ b = x)
<1> DEFINE r == Append(seq, x)
           n == Len(seq)
<1>1. /\ n \in Nat /\ DOMAIN seq = 1 .. n /\ DOMAIN r = 1 .. n + 1
      /\ \A i \in 1 .. n : r[i] = seq[i]
      /\ r[n + 1] = x /\ r \in Seq(A)
  OBVIOUS
<1> HIDE DEF r, n
<1>2. ToSet(r) = ToSet(seq) \cup {x}
  BY <1>1 DEF ToSet
<1>3. ASSUME NEW a, NEW b, Before(r, a, b) PROVE Before(seq, a, b) \/ (a \in ToSet(seq) /\ b = x)
  <2>1. PICK i, j \in 1 .. n + 1 : i < j /\ r[i] = a /\ r[j] = b
    BY <1>1, <1>3 DEF Before
  <2>2. i \in 1 .. n /\ a = seq[i] /\ a \in ToSet(seq)
    BY <1>1, <2>1 DEF ToSet
  <2>3. CASE j = n + 1
    BY <1>1, <2>1, <2>2, <2>3
  <2>4. CASE j # n + 1
    BY <1>1, <2>1, <2>2, <2>4 DEF Before
  <2>5. QED
    BY <2>3, <2>4
<1>4. ASSUME NEW a, NEW b, Before(seq, a, b) PROVE Before(r, a, b)
  <2>1. PICK i, j \in 1 .. n : i < j /\ seq[i] = a /\ seq[j] = b
    BY <1>1, <1>4 DEF Before
  <2>2. i \in 1 .. n + 1 /\ j \in 1 .. n + 1 /\ r[i] = a /\ r[j] = b
    BY <1>1, <2>1
  <2>3. QED
    BY <1>1, <2>1, <2>2 DEF Before
<1>5. ASSUME NEW a \in ToSet(seq) PROVE Before(r, a, x)
  <2>1. PICK i \in 1 .. n : seq[i] = a
    BY <1>1 DEF ToSet
  <2>2. i \in 1 .. n + 1 /\ n + 1 \in 1 .. n + 1 /\ i < n + 1 /\ r[i] = a
    BY <1>1, <2>1
  <2>3. QED
    BY <1>1, <2>2 DEF Before
<1>6. QED
  BY <1>1, <1>2, <1>3, <1>4, <1>5 DEF r

\* the function that Select defines, on the first k positions of seq
Selection(f, seq, S, k) ==
  f = [n \in 0 .. k |->
         IF n = 0 THEN <<>>
         ELSE IF seq[n] \in S THEN Append(f[n - 1], seq[n]) ELSE f[n - 1]]

LEMMA SelectionExists ==
  ASSUME NEW seq, NEW S, NEW m \in Nat
  PROVE  \E f : Selection(f, seq, S, m)
<1> DEFINE Step(acc, n) == IF seq[n] \in S THEN Append(acc, seq[n]) ELSE acc
           Rec(f, k) == f = [n \in 0 .. k |-> IF n = 0 THEN <<>> ELSE Step(f[n - 1], n)]
           Bad == {k \in Nat : ~\E f : Rec(f, k)}
<1>1. SUFFICES ASSUME Bad # {} PROVE FALSE
  BY DEF Selection
<1>2. PICK k \in Bad : \A i \in Bad : k <= i
  <2>1. Bad \subseteq Nat
    OBVIOUS
  <2> HIDE DEF Bad
  <2>2. QED
    BY <1>1, <2>1, NatLeast
<1> HIDE DEF Step
<1>3. k # 0
  <2>1. Rec([n \in 0 .. 0 |-> <<>>], 0)
    OBVIOUS
  <2>2. QED
    BY <2>1
<1>4. k \in Nat /\ k - 1 \in Nat /\ k - 1 \notin Bad
  <2>1. k \in Nat
    OBVIOUS
  <2> HIDE DEF Bad
  <2>2. QED
    BY <1>2, <1>3, <2>1
<1>5. PICK f : Rec(f, k - 1)
  BY <1>4
<1> DEFINE g == [n \in 0 .. k |-> IF n = k THEN Step(f[k - 1], k) ELSE f[n]]
<1>6. Rec(g, k)
  <2>1. ASSUME NEW n \in 0 .. k PROVE g[n] = IF n = 0 THEN <<>> ELSE Step(g[n - 1], n)
    <3>1. CASE n = k
      BY <1>3, <1>4, <3>1
    <3>2. CASE n # k
      <4>1. n \in 0 .. (k - 1) /\ g[n] = f[n]
        BY <1>4, <3>2
      <4>2. f[n] = IF n = 0 THEN <<>> ELSE Step(f[n - 1], n)
        BY <1>5, <4>1
      <4>3. n # 0 => n - 1 \in 0 .. k /\ n - 1 # k
        BY <1>4, <3>2
      <4>4. QED
        BY <4>1, <4>2, <4>3
    <3>3. QED
      BY <3>1, <3>2
  <2>2. QED
    BY <2>1
<1>7. QED
  BY <1>4, <1>6

LEMMA SelectIs ==
  ASSUME NEW A, NEW seq \in Seq(A), NEW S
  PROVE  /\ Select(seq, S) \in Seq(A)
         /\ ToSet(Select(seq, S)) = ToSet(seq) \cap S
         /\ \A a, b : Before(Select(seq, S), a, b) <=> Before(seq, a, b) /\ a \in S /\ b \in S
<1> DEFINE m == Len(seq)
           sel == CHOOSE f : Selection(f, seq, S, m)
           seen(n) == {seq[i] : i \in 1 .. n}
           pairs(n, a, b) == \E i, j \in 1 .. n : i < j /\ seq[i] = a /\ seq[j] = b
           Fine(n) == /\ sel[n] \in Seq(A) /\ ToSet(sel[n]) = seen(n) \cap S
                      /\ \A a, b : Before(sel[n], a, b) <=> pairs(n, a, b) /\ a \in S /\ b \in S
           Bad == {n \in 0 .. m : ~Fine(n)}
<1>1. m \in Nat /\ DOMAIN seq = 1 .. m /\ \A n \in 1 .. m : seq[n] \in A
  OBVIOUS
<1>2. Select(seq, S) = sel[m]
  BY DEF Select, Selection
<1>3. Selection(sel, seq, S, m)
  BY <1>1, SelectionExists
<1> HIDE DEF sel
<1>4. sel[0] = <<>> /\ \A n \in 1 .. m :
        sel[n] = IF seq[n] \in S THEN Append(sel[n - 1], seq[n]) ELSE sel[n - 1]
  <2>1. sel = [n \in 0 .. m |->
                 IF n = 0 THEN <<>>
                 ELSE IF seq[n] \in S THEN Append(sel[n - 1], seq[n]) ELSE sel[n - 1]]
    BY <1>3 DEF Selection
  <2>2. 0 \in 0 .. m /\ \A n \in 1 .. m : n \in 0 .. m /\ n # 0
    BY <1>1
  <2> HIDE DEF m
  <2>3. sel[0] = <<>>
    BY <2>1, <2>2
  <2>4. QED
    BY <2>1, <2>2, <2>3
<1>5. Bad = {}
  <2>1. SUFFICES ASSUME Bad # {} PROVE FALSE
    OBVIOUS
  <2>2. PICK n \in Bad : \A i \in Bad : n <= i
    <3>1. Bad \subseteq Nat
      OBVIOUS
    <3> HIDE DEF Bad
    <3>2. QED
      BY <2>1, <3>1, NatLeast
  <2>3. n \in 0 .. m /\ ~Fine(n)
    OBVIOUS
  <2>4. n # 0
    <3>1. Fine(0)
      BY <1>4 DEF ToSet, Before
    <3>2. QED
      BY <2>3, <3>1
  <2>5. n \in 1 .. m /\ n - 1 \in 0 .. m
    BY <1>1, <2>3, <2>4
  <2>6. Fine(n - 1)
    <3>1. n - 1 \notin Bad
      <4> HIDE DEF Bad
      <4> QED BY <2>2, <2>5
    <3>2. QED
      BY <2>5, <3>1
  <2>7. seen(n) = seen(n - 1) \cup {seq[n]}
    BY <2>5
  <2>8. \A a, b : pairs(n, a, b) <=> pairs(n - 1, a, b) \/ (a \in seen(n - 1) /\ b = seq[n])
    <3>1. ASSUME NEW a, NEW b, pairs(n, a, b)
          PROVE  pairs(n - 1, a, b) \/ (a \in seen(n - 1) /\ b = seq[n])
      <4>1. PICK i, j \in 1 .. n : i < j /\ seq[i] = a /\ seq[j] = b
        BY <3>1
      <4>2. i \in 1 .. n - 1 /\ (j = n \/ j \in 1 .. n - 1)
        BY <2>5, <4>1
      <4>3. QED
        BY <4>1, <4>2
    <3>2. ASSUME NEW a, NEW b, pairs(n - 1, a, b) PROVE pairs(n, a, b)
      BY <2>5, <3>2
    <3>3. ASSUME NEW a \in seen(n - 1) PROVE pairs(n, a, seq[n])
      <4>1. PICK i \in 1 .. n - 1 : seq[i] = a
        OBVIOUS
      <4>2. i \in 1 .. n /\ n \in 1 .. n /\ i < n
        BY <2>5, <4>1
      <4>3. QED
        BY <4>1, <4>2
    <3>4. QED
      BY <3>1, <3>2, <3>3
  <2>9. Fine(n)
    <3> HIDE DEF seen, pairs
    <3>1. CASE seq[n] \in S
      <4>1. sel[n] = Append(sel[n - 1], seq[n]) /\ seq[n] \in A
        BY <1>1, <1>4, <2>5, <3>1
      <4>2. sel[n - 1] \in Seq(A)
        BY <2>6
      <4>3. /\ sel[n] \in Seq(A) /\ ToSet(sel[n]) = ToSet(sel[n - 1]) \cup {seq[n]}
            /\ \A a, b : Before(sel[n], a, b) <=>
                           Before(sel[n - 1], a, b) \/ (a \in ToSet(sel[n - 1]) /\ b = seq[n])
        BY <4>1, <4>2, AppendIs
      <4>4. QED
        BY <2>6, <2>7, <2>8, <3>1, <4>3
    <3>2. CASE seq[n] \notin S
      <4>1. sel[n] = sel[n - 1]
        BY <1>4, <2>5, <3>2
      <4>2. QED
        BY <2>6, <2>7, <2>8, <3>2, <4>1
    <3>3. QED
      BY <3>1, <3>2
  <2>10. QED
    BY <2>3, <2>9
<1>6. Fine(m)
  <2>1. m \notin Bad /\ m \in 0 .. m
    <3> HIDE DEF Bad
    <3> QED BY <1>1, <1>5
  <2>2. QED
    BY <2>1
<1>7. seen(m) = ToSet(seq) /\ \A a, b : pairs(m, a, b) <=> Before(seq, a, b)
  BY <1>1 DEF ToSet, Before
<1> HIDE DEF seen, pairs
<1>8. QED
  BY <1>2, <1>6, <1>7

\* InsertAt puts x behind the first k members and keeps their order
LEMMA InsertIs ==
  ASSUME NEW A, NEW seq \in Seq(A), NEW k \in 0 .. Len(seq), NEW x \in A
  PROVE  LET r == InsertAt(seq, k + 1, x) IN
         /\ r \in Seq(A) /\ ToSet(r) = ToSet(seq) \cup {x}
         /\ \A a, b : Before(seq, a, b) => Before(r, a, b)
         /\ \A i \in 1 .. k : Before(r, seq[i], x)
         /\ IsInjective(seq) /\ x \notin ToSet(seq) => IsInjective(r)
<1> DEFINE r == InsertAt(seq, k + 1, x)
           n == Len(seq)
           at(i) == IF i <= k THEN i ELSE i + 1
<1>1. /\ n \in Nat /\ k \in Nat /\ k <= n /\ DOMAIN seq = 1 .. n
      /\ r \in Seq(A) /\ DOMAIN r = 1 .. n + 1
      /\ \A i \in 1 .. k : r[i] = seq[i]
      /\ r[k + 1] = x
      /\ \A i \in k + 2 .. n + 1 : r[i] = seq[i - 1]
  <2>1. n \in Nat /\ k \in Nat /\ k <= n /\ DOMAIN seq = 1 .. n
    OBVIOUS
  <2>2. r = SubSeq(seq, 1, k) \o <<x>> \o SubSeq(seq, k + 1, n)
    <3>1. (k + 1) - 1 = k
      BY <2>1
    <3>2. QED
      BY <3>1 DEF InsertAt
  <2>3. /\ SubSeq(seq, 1, k) \in Seq(A) /\ Len(SubSeq(seq, 1, k)) = k
        /\ \A i \in 1 .. k : SubSeq(seq, 1, k)[i] = seq[i]
    BY <2>1
  <2>4. /\ SubSeq(seq, k + 1, n) \in Seq(A) /\ Len(SubSeq(seq, k + 1, n)) = n - k
        /\ \A i \in 1 .. n - k : SubSeq(seq, k + 1, n)[i] = seq[k + i]
    <3>1. k + 1 \in Int /\ n \in Int /\ \A i \in k + 1 .. n : seq[i] \in A
      BY <2>1
    <3> HIDE DEF n
    <3>2. /\ SubSeq(seq, k + 1, n) \in Seq(A)
          /\ Len(SubSeq(seq, k + 1, n)) = IF k + 1 <= n THEN n - (k + 1) + 1 ELSE 0
          /\ \A i \in 1 .. n - (k + 1) + 1 : SubSeq(seq, k + 1, n)[i] = seq[(k + 1) + i - 1]
      BY <3>1, SubSeqProperties
    <3>3. n - (k + 1) + 1 = n - k /\ \A i \in 1 .. n - k : (k + 1) + i - 1 = k + i
      BY <2>1
    <3>4. Len(SubSeq(seq, k + 1, n)) = n - k
      BY <2>1, <3>2
    <3>5. QED
      BY <3>2, <3>3, <3>4
  <2> DEFINE u == SubSeq(seq, 1, k)
             v == SubSeq(seq, k + 1, n)
  <2> HIDE DEF u, v, n
  <2>5. /\ u \o <<x>> \in Seq(A) /\ Len(u \o <<x>>) = k + 1
        /\ \A i \in 1 .. k : (u \o <<x>>)[i] = seq[i]
        /\ (u \o <<x>>)[k + 1] = x
    <3>1. u \in Seq(A) /\ Len(u) = k /\ \A i \in 1 .. k : u[i] = seq[i]
      BY <2>3 DEF u
    <3>2. <<x>> \in Seq(A) /\ Len(<<x>>) = 1 /\ <<x>>[1] = x
      OBVIOUS
    <3>3. /\ u \o <<x>> \in Seq(A) /\ Len(u \o <<x>>) = Len(u) + Len(<<x>>)
          /\ \A i \in 1 .. Len(u) + Len(<<x>>) : (u \o <<x>>)[i] =
                        IF i <= Len(u) THEN u[i] ELSE <<x>>[i - Len(u)]
      BY <3>1, <3>2, ConcatProperties
    <3>4. k \in Nat /\ k + 1 \in 1 .. k + 1 /\ ~(k + 1 <= k) /\ (k + 1) - k = 1
          /\ \A i \in 1 .. k : i \in 1 .. k + 1 /\ i <= k
      BY <2>1
    <3>5. QED
      BY <3>1, <3>2, <3>3, <3>4
  <2> DEFINE w == u \o <<x>>
  <2>6. w \in Seq(A) /\ Len(w) = k + 1 /\ v \in Seq(A) /\ Len(v) = n - k /\ r = w \o v
    BY <2>2, <2>4, <2>5 DEF u, v
  <2> HIDE DEF w, r
  <2>7. /\ r \in Seq(A) /\ Len(r) = n + 1
        /\ \A i \in 1 .. k + 1 : r[i] = w[i]
        /\ \A i \in k + 2 .. n + 1 : r[i] = v[i - (k + 1)]
    <3>1. /\ r \in Seq(A) /\ Len(r) = Len(w) + Len(v)
          /\ \A i \in 1 .. Len(w) + Len(v) :
               r[i] = IF i <= Len(w) THEN w[i] ELSE v[i - Len(w)]
      BY <2>6, ConcatProperties
    <3>2. Len(r) = n + 1 /\ Len(w) + Len(v) = n + 1
      BY <2>1, <2>6, <3>1
    <3>3. ASSUME NEW i \in 1 .. k + 1 PROVE r[i] = w[i]
      <4>1. i \in 1 .. n + 1 /\ i <= k + 1
        BY <2>1
      <4>2. QED
        BY <2>6, <3>1, <3>2, <4>1
    <3>4. ASSUME NEW i \in k + 2 .. n + 1 PROVE r[i] = v[i - (k + 1)]
      <4>1. i \in 1 .. n + 1 /\ ~(i <= k + 1)
        BY <2>1
      <4>2. QED
        BY <2>6, <3>1, <3>2, <4>1
    <3>5. QED
      BY <3>1, <3>2, <3>3, <3>4
  <2>8. \A i \in k + 2 .. n + 1 : r[i] = seq[i - 1]
    <3> TAKE i \in k + 2 .. n + 1
    <3>1. i - (k + 1) \in 1 .. n - k /\ k + (i - (k + 1)) = i - 1
      BY <2>1
    <3>2. v[i - (k + 1)] = seq[k + (i - (k + 1))]
      BY <2>4, <3>1 DEF v
    <3>3. QED
      BY <2>7, <3>1, <3>2
  <2>9. r[k + 1] = x /\ \A i \in 1 .. k : r[i] = seq[i]
    BY <2>1, <2>5, <2>7 DEF w
  <2>10. QED
    BY <2>1, <2>7, <2>8, <2>9
<1> HIDE DEF r, n
<1>2. \A i \in 1 .. n : at(i) \in 1 .. n + 1 /\ r[at(i)] = seq[i]
  <2> TAKE i \in 1 .. n
  <2>1. CASE i <= k
    <3>1. i \in 1 .. k /\ i \in 1 .. n + 1 /\ at(i) = i
      BY <1>1, <2>1
    <3>2. QED
      BY <1>1, <3>1
  <2>2. CASE ~(i <= k)
    <3>1. i + 1 \in k + 2 .. n + 1 /\ (i + 1) - 1 = i /\ at(i) = i + 1
      BY <1>1, <2>2
    <3>2. QED
      BY <1>1, <3>1
  <2>3. QED
    BY <2>1, <2>2
<1>3. \A i \in 1 .. n + 1 : i = k + 1 \/ \E j \in 1 .. n : i = at(j)
  <2> TAKE i \in 1 .. n + 1
  <2>1. CASE i <= k
    <3>1. i \in 1 .. n /\ at(i) = i
      BY <1>1, <2>1
    <3>2. QED
      BY <3>1
  <2>2. CASE i > k + 1
    <3>1. i - 1 \in 1 .. n /\ at(i - 1) = i
      BY <1>1, <2>2
    <3>2. QED
      BY <3>1
  <2>3. QED
    BY <1>1, <2>1, <2>2
<1>4. ToSet(r) = ToSet(seq) \cup {x}
  <2>1. ToSet(r) = {r[i] : i \in 1 .. n + 1} /\ ToSet(seq) = {seq[i] : i \in 1 .. n}
    BY <1>1 DEF ToSet
  <2>2. k + 1 \in 1 .. n + 1
    BY <1>1
  <2> HIDE DEF at
  <2>3. ASSUME NEW i \in 1 .. n + 1 PROVE r[i] \in ToSet(seq) \cup {x}
    <3>1. i = k + 1 \/ \E j \in 1 .. n : i = at(j)
      BY <1>3
    <3>2. QED
      BY <1>1, <1>2, <2>1, <3>1
  <2>4. \A j \in 1 .. n : seq[j] \in {r[i] : i \in 1 .. n + 1}
    BY <1>2
  <2>5. x \in {r[i] : i \in 1 .. n + 1}
    BY <1>1, <2>2
  <2>6. QED
    BY <2>1, <2>3, <2>4, <2>5
<1>5. \A i, j \in 1 .. n : i < j => at(i) < at(j)
  BY <1>1
<1> HIDE DEF at
<1>6. \A a, b : Before(seq, a, b) => Before(r, a, b)
  <2> SUFFICES ASSUME NEW a, NEW b, Before(seq, a, b) PROVE Before(r, a, b)
    OBVIOUS
  <2>1. PICK i, j \in 1 .. n : i < j /\ seq[i] = a /\ seq[j] = b
    BY <1>1 DEF Before
  <2>2. QED
    BY <1>1, <1>2, <1>5, <2>1 DEF Before
<1>7. \A i \in 1 .. k : Before(r, seq[i], x)
  <2> TAKE i \in 1 .. k
  <2>1. i \in 1 .. n + 1 /\ k + 1 \in 1 .. n + 1 /\ i < k + 1
    BY <1>1
  <2>2. QED
    BY <1>1, <2>1 DEF Before
<1>8. ASSUME IsInjective(seq), x \notin ToSet(seq) PROVE IsInjective(r)
  <2>1. \A j \in 1 .. n : seq[j] # x
    BY <1>1, <1>8 DEF ToSet
  <2>2. \A i, j \in 1 .. n : seq[i] = seq[j] => i = j
    BY <1>1, <1>8 DEF IsInjective
  <2>3. ASSUME NEW i \in 1 .. n + 1, NEW j \in 1 .. n + 1, r[i] = r[j] PROVE i = j
    <3>1. i = k + 1 \/ \E a \in 1 .. n : i = at(a) /\ r[i] = seq[a]
      BY <1>2, <1>3
    <3>2. j = k + 1 \/ \E b \in 1 .. n : j = at(b) /\ r[j] = seq[b]
      BY <1>2, <1>3
    <3>3. r[k + 1] = x
      BY <1>1
    <3>4. QED
      BY <2>1, <2>2, <2>3, <3>1, <3>2, <3>3
  <2>4. QED
    BY <1>1, <2>3 DEF IsInjective
<1>9. QED
  BY <1>1, <1>4, <1>6, <1>7, <1>8 DEF r

-----------------------------------------------------------------------------
(* Sums of amounts *)

Pick(s) == CHOOSE x \in s : TRUE

\* f is the function that MapThenSumSet defines on the subsets of S
Sums(f, S) ==
  f = [s \in SUBSET S |-> IF s = {} THEN 0 ELSE OutAmount(Pick(s)) + f[s \ {Pick(s)}]]

LEMMA PickIs ==
  ASSUME NEW s, s # {}
  PROVE  Pick(s) \in s
  BY DEF Pick

LEMMA SumIs ==
  ASSUME NEW S
  PROVE  SumAmounts(S) = (CHOOSE f : Sums(f, S))[S]
  BY DEF SumAmounts, MapThenSumSet, MapThenFoldSet, Sums, Pick

LEMMA SumsExist ==
  ASSUME NEW S, IsFiniteSet(S)
  PROVE  \E f : Sums(f, S)
<1> DEFINE small(k) == {s \in SUBSET S : Cardinality(s) <= k}
           Step(f, s) == IF s = {} THEN 0 ELSE OutAmount(Pick(s)) + f[s \ {Pick(s)}]
           Rec(f, k) == f = [s \in small(k) |-> Step(f, s)]
           Bad == {k \in Nat : ~\E f : Rec(f, k)}
<1>1. \A s \in SUBSET S : IsFiniteSet(s) /\ Cardinality(s) \in Nat
  BY FS_Subset, FS_CardinalityType
<1>2. \A s \in SUBSET S : s # {} =>
        s \ {Pick(s)} \in SUBSET S /\ Cardinality(s \ {Pick(s)}) = Cardinality(s) - 1
  <2> SUFFICES ASSUME NEW s \in SUBSET S, s # {}
               PROVE  s \ {Pick(s)} \in SUBSET S /\ Cardinality(s \ {Pick(s)}) = Cardinality(s) - 1
    OBVIOUS
  <2>1. Pick(s) \in s
    BY PickIs
  <2>2. QED
    BY <1>1, <2>1, FS_RemoveElement
<1>3. \A s \in SUBSET S : Cardinality(s) = 0 => s = {}
  BY <1>1, FS_EmptySet
<1>4. Bad = {}
  <2>1. SUFFICES ASSUME Bad # {} PROVE FALSE
    OBVIOUS
  <2>2. PICK k \in Bad : \A i \in Bad : k <= i
    <3>1. Bad \subseteq Nat
      OBVIOUS
    <3> HIDE DEF Bad
    <3>2. QED
      BY <2>1, <3>1, NatLeast
  <2>3. k # 0
    <3>1. ASSUME NEW s \in small(0) PROVE s = {}
      BY <1>1, <1>3
    <3> DEFINE f0 == [s \in small(0) |-> 0]
    <3>2. Rec(f0, 0)
      <4> HIDE DEF small
      <4> QED BY <3>1
    <3>3. QED
      BY <3>2
  <2>4. k \in Nat /\ k - 1 \in Nat /\ k - 1 \notin Bad
    <3>1. k \in Nat
      OBVIOUS
    <3> HIDE DEF Bad
    <3>2. QED
      BY <2>2, <2>3, <3>1
  <2>5. PICK f : Rec(f, k - 1)
    BY <2>4
  <2> DEFINE g == [s \in small(k) |-> Step(f, s)]
  <2>6. \A s \in small(k) : s # {} => s \ {Pick(s)} \in small(k - 1) /\ s \ {Pick(s)} \in small(k)
    BY <1>1, <1>2, <2>4
  <2>7. \A s \in small(k - 1) : s \in small(k) /\ g[s] = f[s]
    <3>1. \A s \in small(k - 1) : s \in small(k)
      BY <1>1, <2>4
    <3> HIDE DEF small, Step
    <3>2. QED
      BY <2>5, <3>1
  <2>8. Rec(g, k)
    <3>1. ASSUME NEW s \in small(k) PROVE Step(f, s) = Step(g, s)
      <4> HIDE DEF g, small
      <4> QED BY <2>6, <2>7
    <3>2. g = [s \in small(k) |-> Step(g, s)]
      <4> HIDE DEF Step, small
      <4> QED BY <3>1
    <3>3. QED
      BY <3>2
  <2>9. QED
    <3>1. \E h : Rec(h, k)
      <4> HIDE DEF Rec
      <4> QED BY <2>8
    <3>2. QED
      BY <3>1
<1>5. Cardinality(S) \in Nat /\ Cardinality(S) \notin Bad
  <2> HIDE DEF Bad
  <2> QED BY <1>1, <1>4
<1>6. PICK f : Rec(f, Cardinality(S))
  BY <1>5
<1>7. small(Cardinality(S)) = SUBSET S
  BY FS_Subset
<1>8. QED
  BY <1>6, <1>7 DEF Sums

LEMMA SumsAgree ==
  ASSUME NEW S, IsFiniteSet(S), NEW T, T \subseteq S, NEW f, Sums(f, S), NEW g, Sums(g, T)
  PROVE  \A s \in SUBSET T : f[s] = g[s]
<1> DEFINE Bad == {n \in Nat : \E s \in SUBSET T : Cardinality(s) = n /\ f[s] # g[s]}
<1>1. \A s \in SUBSET T : IsFiniteSet(s) /\ Cardinality(s) \in Nat
  BY FS_Subset, FS_CardinalityType
<1>2. SUFFICES ASSUME Bad # {} PROVE FALSE
  BY <1>1
<1>3. PICK n \in Bad : \A i \in Bad : n <= i
  <2>1. Bad \subseteq Nat
    OBVIOUS
  <2> HIDE DEF Bad
  <2>2. QED
    BY <1>2, <2>1, NatLeast
<1>4. PICK s \in SUBSET T : Cardinality(s) = n /\ f[s] # g[s]
  BY <1>3
<1>5. /\ f[s] = IF s = {} THEN 0 ELSE OutAmount(Pick(s)) + f[s \ {Pick(s)}]
      /\ g[s] = IF s = {} THEN 0 ELSE OutAmount(Pick(s)) + g[s \ {Pick(s)}]
  <2>1. s \in SUBSET S
    OBVIOUS
  <2> HIDE DEF Bad
  <2>2. QED
    BY <2>1 DEF Sums
<1>6. s # {} /\ f[s \ {Pick(s)}] # g[s \ {Pick(s)}]
  BY <1>4, <1>5
<1>7. /\ s \ {Pick(s)} \in SUBSET T /\ Cardinality(s \ {Pick(s)}) = n - 1
      /\ n - 1 \in Nat /\ n \in Nat
  <2>1. Pick(s) \in s
    BY <1>6, PickIs
  <2>2. Cardinality(s \ {Pick(s)}) = n - 1 /\ IsFiniteSet(s \ {Pick(s)}) /\ n \in Nat
    BY <1>1, <1>4, <2>1, FS_RemoveElement
  <2>3. Cardinality(s \ {Pick(s)}) \in Nat
    BY <2>2, FS_CardinalityType
  <2>4. QED
    BY <2>2, <2>3
<1>8. n - 1 \in Bad
  BY <1>6, <1>7
<1>9. QED
  <2> HIDE DEF Bad
  <2> QED BY <1>3, <1>7, <1>8

LEMMA SumStep ==
  ASSUME NEW S, IsFiniteSet(S), S # {}
  PROVE  SumAmounts(S) = OutAmount(Pick(S)) + SumAmounts(S \ {Pick(S)})
<1> DEFINE f == CHOOSE f : Sums(f, S)
           T == S \ {Pick(S)}
           g == CHOOSE g : Sums(g, T)
<1>1. T \subseteq S /\ IsFiniteSet(T)
  BY FS_Subset
<1>2. Sums(f, S) /\ Sums(g, T)
  BY <1>1, SumsExist
<1>3. SumAmounts(S) = f[S] /\ SumAmounts(T) = g[T]
  BY SumIs
<1> HIDE DEF f, g
<1>4. f[S] = OutAmount(Pick(S)) + f[T]
  BY <1>2 DEF Sums
<1>5. f[T] = g[T]
  <2> HIDE DEF T
  <2> QED BY <1>1, <1>2, SumsAgree
<1>6. QED
  BY <1>3, <1>4, <1>5

LEMMA SumEmpty == SumAmounts({}) = 0
<1> DEFINE f == CHOOSE f : Sums(f, {})
<1>1. Sums(f, {})
  BY FS_EmptySet, SumsExist
<1>2. SumAmounts({}) = f[{}]
  BY SumIs
<1> HIDE DEF f
<1>3. f[{}] = 0
  BY <1>1 DEF Sums
<1>4. QED
  BY <1>2, <1>3

\* the order in which a sum takes its terms does not matter
LEMMA SumTakes ==
  ASSUME NEW S, IsFiniteSet(S), \A u \in S : OutAmount(u) \in Nat
  PROVE  /\ SumAmounts(S) \in Nat
         /\ \A x \in S : SumAmounts(S) = OutAmount(x) + SumAmounts(S \ {x})
<1> DEFINE Fine(s) == /\ SumAmounts(s) \in Nat
                      /\ \A x \in s : SumAmounts(s) = OutAmount(x) + SumAmounts(s \ {x})
           Bad == {n \in Nat : \E s \in SUBSET S : Cardinality(s) = n /\ ~Fine(s)}
<1>1. \A s \in SUBSET S : IsFiniteSet(s) /\ Cardinality(s) \in Nat
  BY FS_Subset, FS_CardinalityType
<1>2. SUFFICES ASSUME Bad # {} PROVE FALSE
  <2>1. S \in SUBSET S
    OBVIOUS
  <2>2. QED
    BY <1>1, <2>1
<1>3. PICK n \in Bad : \A i \in Bad : n <= i
  <2>1. Bad \subseteq Nat
    OBVIOUS
  <2> HIDE DEF Bad
  <2>2. QED
    BY <1>2, <2>1, NatLeast
<1>4. PICK s \in SUBSET S : Cardinality(s) = n /\ ~Fine(s)
  BY <1>3
<1>5. \A r \in SUBSET S : Cardinality(r) < n => Fine(r)
  <2> SUFFICES ASSUME NEW r \in SUBSET S, Cardinality(r) < n, ~Fine(r) PROVE FALSE
    OBVIOUS
  <2> HIDE DEF Fine
  <2>1. Cardinality(r) \in Bad /\ Cardinality(r) \in Nat /\ n \in Nat
    BY <1>1
  <2> HIDE DEF Bad
  <2>2. QED
    BY <1>3, <2>1
<1>6. s # {}
  BY <1>4, SumEmpty
<1>7. \A x \in s : /\ s \ {x} \in SUBSET S /\ Cardinality(s \ {x}) < n
                   /\ OutAmount(x) \in Nat
  <2> HIDE DEF Fine, Bad
  <2> TAKE x \in s
  <2>1. Cardinality(s \ {x}) = Cardinality(s) - 1
    BY <1>1, FS_RemoveElement
  <2>2. QED
    BY <1>1, <1>4, <2>1
<1>8. \A x \in s : Fine(s \ {x})
  BY <1>5, <1>7
<1> DEFINE c == Pick(s)
<1>9. c \in s /\ SumAmounts(s) = OutAmount(c) + SumAmounts(s \ {c})
  BY <1>1, <1>6, PickIs, SumStep
<1> HIDE DEF c
<1>10. SumAmounts(s) \in Nat
  BY <1>7, <1>8, <1>9
<1>11. ASSUME NEW x \in s PROVE SumAmounts(s) = OutAmount(x) + SumAmounts(s \ {x})
  <2>1. CASE x = c
    BY <1>9, <2>1
  <2>2. CASE x # c
    <3>1. SumAmounts(s \ {c}) = OutAmount(x) + SumAmounts((s \ {c}) \ {x})
      BY <1>8, <1>9, <2>2
    <3>2. SumAmounts(s \ {x}) = OutAmount(c) + SumAmounts((s \ {x}) \ {c})
      BY <1>8, <1>9, <2>2
    <3>3. (s \ {c}) \ {x} = (s \ {x}) \ {c}
      OBVIOUS
    <3>4. (s \ {c}) \ {x} \in SUBSET S /\ Cardinality((s \ {c}) \ {x}) < n
      <4> HIDE DEF Fine, Bad
      <4>1. s \ {c} \in SUBSET S /\ x \in s \ {c} /\ Cardinality(s \ {c}) < n
        BY <1>7, <1>9, <2>2
      <4>2. Cardinality((s \ {c}) \ {x}) = Cardinality(s \ {c}) - 1
        BY <1>1, <4>1, FS_RemoveElement
      <4>3. n \in Nat /\ Cardinality(s \ {c}) \in Nat
        BY <1>1, <1>4, <4>1
      <4>4. QED
        BY <4>1, <4>2, <4>3
    <3>5. SumAmounts((s \ {c}) \ {x}) \in Nat
      BY <1>5, <3>4
    <3> HIDE DEF Fine, Bad
    <3>6. QED
      BY <1>7, <1>9, <3>1, <3>2, <3>3, <3>5
  <2>3. QED
    BY <2>1, <2>2
<1>12. QED
  BY <1>4, <1>10, <1>11

LEMMA SumMinus ==
  ASSUME NEW S, IsFiniteSet(S), \A u \in S : OutAmount(u) \in Nat, NEW T, T \subseteq S
  PROVE  SumAmounts(S) = SumAmounts(S \ T) + SumAmounts(T)
<1> DEFINE Fine(t) == SumAmounts(S) = SumAmounts(S \ t) + SumAmounts(t)
           Bad == {n \in Nat : \E t \in SUBSET S : Cardinality(t) = n /\ ~Fine(t)}
<1>1. \A t \in SUBSET S : IsFiniteSet(t) /\ Cardinality(t) \in Nat /\ SumAmounts(t) \in Nat
  BY FS_Subset, FS_CardinalityType, SumTakes
<1>2. SUFFICES ASSUME Bad # {} PROVE FALSE
  BY <1>1
<1>3. PICK n \in Bad : \A i \in Bad : n <= i
  <2>1. Bad \subseteq Nat
    OBVIOUS
  <2> HIDE DEF Bad
  <2>2. QED
    BY <1>2, <2>1, NatLeast
<1>4. PICK t \in SUBSET S : Cardinality(t) = n /\ ~Fine(t)
  BY <1>3
<1>5. t # {}
  <2>1. Fine({})
    <3>1. S \ {} = S /\ SumAmounts(S) \in Nat
      BY <1>1
    <3>2. QED
      BY <3>1, SumEmpty
  <2> HIDE DEF Fine
  <2>2. QED
    BY <1>4, <2>1
<1>6. PICK x \in t : TRUE
  BY <1>5
<1> DEFINE r == t \ {x}
<1>7. r \in SUBSET S /\ Cardinality(r) = n - 1 /\ n - 1 \in Nat /\ n \in Nat
  <2> HIDE DEF Fine, Bad
  <2>1. r \in SUBSET S /\ Cardinality(r) = Cardinality(t) - 1
    BY <1>1, FS_RemoveElement
  <2>2. QED
    BY <1>1, <1>4, <2>1
<1>8. Fine(r)
  <2>1. n - 1 \notin Bad
    <3> HIDE DEF Bad
    <3> QED BY <1>3, <1>7
  <2> HIDE DEF Fine
  <2>2. QED
    BY <1>7, <2>1
<1>9. SumAmounts(t) = OutAmount(x) + SumAmounts(r)
  BY <1>1, SumTakes
<1>10. SumAmounts(S \ r) = OutAmount(x) + SumAmounts(S \ t)
  <2>1. x \in S \ r /\ (S \ r) \ {x} = S \ t
    OBVIOUS
  <2>2. IsFiniteSet(S \ r) /\ \A u \in S \ r : OutAmount(u) \in Nat
    BY FS_Subset
  <2>3. QED
    BY <2>1, <2>2, SumTakes
<1>11. /\ SumAmounts(r) \in Nat /\ SumAmounts(S \ t) \in Nat /\ OutAmount(x) \in Nat
       /\ SumAmounts(S \ r) \in Nat
  BY <1>1, <1>7
<1>12. QED
  <2>1. SumAmounts(S) = SumAmounts(S \ r) + SumAmounts(r)
    BY <1>8
  <2>2. SumAmounts(S) = SumAmounts(S \ t) + SumAmounts(t)
    <3> HIDE DEF Fine, Bad, r
    <3> QED BY <1>9, <1>10, <1>11, <2>1
  <2>3. QED
    BY <1>4, <2>2

\* outputs are added that were not there, and of all some are taken away
LEMMA SumChange ==
  ASSUME NEW S, IsFiniteSet(S), NEW T, IsFiniteSet(T), S \cap T = {},
         \A u \in S \cup T : OutAmount(u) \in Nat, NEW U, U \subseteq S \cup T
  PROVE  /\ SumAmounts((S \cup T) \ U) = SumAmounts(S) + SumAmounts(T) - SumAmounts(U)
         /\ SumAmounts((S \cup T) \ U) \in Nat
<1>1. IsFiniteSet(S \cup T)
  BY FS_Union
<1>2. SumAmounts(S \cup T) = SumAmounts((S \cup T) \ U) + SumAmounts(U)
  BY <1>1, SumMinus
<1>3. SumAmounts(S \cup T) = SumAmounts(S) + SumAmounts(T)
  <2>1. (S \cup T) \ T = S
    OBVIOUS
  <2>2. SumAmounts(S \cup T) = SumAmounts((S \cup T) \ T) + SumAmounts(T)
    BY <1>1, SumMinus
  <2>3. QED
    BY <2>1, <2>2
<1>4. IsFiniteSet((S \cup T) \ U) /\ IsFiniteSet(U)
  BY <1>1, FS_Subset
<1>5. /\ SumAmounts((S \cup T) \ U) \in Nat /\ SumAmounts(U) \in Nat
      /\ SumAmounts(S) \in Nat /\ SumAmounts(T) \in Nat
  BY <1>4, SumTakes
<1>6. QED
  BY <1>2, <1>3, <1>5

-----------------------------------------------------------------------------
(* Addresses *)

IsImage(T, f, S) == T = {f[x] : x \in S}

LEMMA ImageFinite ==
  ASSUME NEW S, IsFiniteSet(S), NEW f, NEW T, IsImage(T, f, S)
  PROVE  IsFiniteSet(T)
<1> DEFINE g == [x \in S |-> f[x]]
<1>1. g \in Surjection(S, T)
  BY DEF Surjection, IsImage
<1>2. QED
  BY <1>1, FS_Surjection

LEMMA OutAddrsFinite ==
  ASSUME WalletAssumption, NEW t \in Tx
  PROVE  IsFiniteSet(OutAddrs(t))
<1> DEFINE f == [n \in DOMAIN Outs[t] |-> Outs[t][n].addr]
<1>1. Len(Outs[t]) \in Nat /\ DOMAIN Outs[t] = 1 .. Len(Outs[t])
  BY DEF WalletAssumption
<1>2. IsFiniteSet(DOMAIN Outs[t])
  BY <1>1, FS_Interval
<1>3. IsImage(OutAddrs(t), f, DOMAIN Outs[t])
  BY DEF OutAddrs, IsImage
<1> HIDE DEF f
<1>4. QED
  BY <1>2, <1>3, ImageFinite

LEMMA OwnOutputsIs ==
  ASSUME WalletAssumption, NEW t \in Tx, NEW cnt
  PROVE  /\ IsFiniteSet(OwnOutputs(cnt, t))
         /\ \A u \in OwnOutputs(cnt, t) : u[1] = t /\ OutAmount(u) \in Nat
<1> DEFINE K == {k \in DOMAIN Outs[t] : Outs[t][k].addr \in AllAddrs(cnt)}
           f == [k \in K |-> <<t, k - 1>>]
<1>1. /\ Len(Outs[t]) \in Nat /\ DOMAIN Outs[t] = 1 .. Len(Outs[t])
      /\ \A k \in DOMAIN Outs[t] : Outs[t][k].amount \in Nat
  <2> DEFINE Out == [addr : STRING \X Nat, amount : Nat]
  <2>1. Outs[t] \in Seq(Out)
    BY DEF WalletAssumption
  <2>2. \A o \in Out : o.amount \in Nat
    OBVIOUS
  <2> HIDE DEF Out
  <2>3. \A k \in DOMAIN Outs[t] : Outs[t][k] \in Out
    BY <2>1
  <2>4. QED
    BY <2>1, <2>2, <2>3
<1>2. IsFiniteSet(K)
  <2>1. IsFiniteSet(DOMAIN Outs[t])
    BY <1>1, FS_Interval
  <2>2. QED
    BY <2>1, FS_Subset
<1>3. IsImage(OwnOutputs(cnt, t), f, K)
  BY DEF OwnOutputs, IsImage
<1>4. \A k \in K : f[k] = <<t, k - 1>> /\ (k - 1) + 1 = k /\ Outs[t][k].amount \in Nat
  BY <1>1
<1> HIDE DEF f, K
<1>5. IsFiniteSet(OwnOutputs(cnt, t))
  BY <1>2, <1>3, ImageFinite
<1>6. ASSUME NEW u \in OwnOutputs(cnt, t) PROVE u[1] = t /\ OutAmount(u) \in Nat
  <2>1. PICK k \in K : u = f[k]
    BY <1>3 DEF IsImage
  <2>2. u[1] = t /\ u[2] + 1 = k
    BY <1>4, <2>1
  <2>3. QED
    BY <1>4, <2>2 DEF OutAmount
<1>7. QED
  BY <1>5, <1>6

\* the chain never shrinks: some window of `gap' addresses is unused
LEMMA UnusedAddrsIs ==
  ASSUME NEW cnt \in [Chains -> Nat], NEW used, IsFiniteSet(used), NEW c \in Chains,
         NEW gap \in Nat \ {0}
  PROVE  /\ UnusedAddrs(cnt, used, c, gap) \in [Chains -> Nat]
         /\ \A d \in Chains : UnusedAddrs(cnt, used, c, gap)[d] >= cnt[d]
<1> DEFINE N == Cardinality(used)
           Covered(n) == \A i \in n - gap .. n - 1 : i >= 0 /\ <<c, i>> \notin used
           longest == cnt[c] + gap * (N + 1)
           good == {n \in cnt[c] .. longest : Covered(n)}
           from(k) == cnt[c] + gap * k
<1>1. N \in Nat /\ cnt[c] \in Nat /\ gap \in Nat
  BY FS_CardinalityType
<1>2. UnusedAddrs(cnt, used, c, gap) = [cnt EXCEPT ![c] = Min(good)]
  BY DEF UnusedAddrs
<1>3. \A k \in 0 .. N : /\ k \in Nat /\ gap * k \in Nat /\ gap * (N + 1) \in Nat
                        /\ from(k) \in Nat /\ from(k) + gap \in cnt[c] .. longest
  <2> TAKE k \in 0 .. N
  <2>1. k \in Nat /\ N + 1 \in Nat /\ k < N + 1
    BY <1>1
  <2>2. gap * k + gap <= gap * (N + 1) /\ gap * k \in Nat /\ gap * (N + 1) \in Nat
    BY <1>1, <2>1, Windows
  <2> DEFINE a == gap * k
             b == gap * (N + 1)
  <2>3. a + gap <= b /\ a \in Nat /\ b \in Nat
    BY <2>2
  <2> HIDE DEF a, b, N
  <2>4. cnt[c] + a \in Nat /\ cnt[c] + a + gap \in cnt[c] .. cnt[c] + b
    BY <1>1, <2>3
  <2>5. QED
    BY <2>1, <2>2, <2>4 DEF a, b
<1>4. good # {}
  <2> SUFFICES ASSUME good = {} PROVE FALSE
    OBVIOUS
  <2> DEFINE Hit(k, i) == i \in from(k) .. from(k) + gap - 1 /\ <<c, i>> \in used
             hit == [k \in 0 .. N |-> CHOOSE i \in Nat : Hit(k, i)]
             f == [k \in 0 .. N |-> <<c, hit[k]>>]
  <2>1. \A k \in 0 .. N : \E i \in Nat : Hit(k, i)
    <3> TAKE k \in 0 .. N
    <3> DEFINE n == from(k) + gap
    <3>1. from(k) \in Nat /\ n \in cnt[c] .. longest
      BY <1>3
    <3>2. ~Covered(n)
      BY <3>1
    <3> HIDE DEF from
    <3>3. n - gap = from(k) /\ n - 1 = from(k) + gap - 1
      BY <1>1, <3>1
    <3>4. PICK i \in from(k) .. from(k) + gap - 1 : ~(i >= 0 /\ <<c, i>> \notin used)
      BY <3>2, <3>3
    <3>5. i \in Nat /\ i >= 0
      BY <3>1, <3>4
    <3>6. QED
      BY <3>4, <3>5
  <2>2. \A k \in 0 .. N : hit[k] \in Nat /\ Hit(k, hit[k])
    <3> HIDE DEF Hit
    <3> QED BY <2>1
  <2> HIDE DEF hit
  <2>3. f \in [0 .. N -> used]
    BY <2>2
  <2>4. IsFiniteSet(0 .. N) /\ Cardinality(0 .. N) = N + 1
    <3> HIDE DEF N
    <3> QED BY <1>1, FS_Interval
  <2>5. PICK x, y \in 0 .. N : x # y /\ f[x] = f[y]
    <3> DEFINE D == 0 .. N
    <3> HIDE DEF f, N
    <3>1. N < N + 1 /\ Cardinality(used) < Cardinality(D)
      BY <1>1, <2>4 DEF N
    <3>2. f \in [D -> used] /\ IsFiniteSet(D) /\ IsFiniteSet(used)
      BY <2>3, <2>4
    <3> HIDE DEF D
    <3>3. \E x, y \in D : x # y /\ f[x] = f[y]
      BY <3>1, <3>2, FS_PigeonHole
    <3>4. QED
      BY <3>3 DEF D
  <2>6. hit[x] = hit[y]
    BY <2>5
  <2>7. \A k, m \in 0 .. N : k < m => hit[k] < hit[m]
    <3> SUFFICES ASSUME NEW k \in 0 .. N, NEW m \in 0 .. N, k < m PROVE hit[k] < hit[m]
      OBVIOUS
    <3>1. gap * k + gap <= gap * m /\ gap * k \in Nat /\ gap * m \in Nat
      BY <1>1, <1>3, Windows
    <3>2. hit[k] <= from(k) + gap - 1 /\ from(m) <= hit[m] /\ hit[k] \in Nat /\ hit[m] \in Nat
      <4>1. hit[k] \in from(k) .. from(k) + gap - 1 /\ hit[m] \in from(m) .. from(m) + gap - 1
        BY <2>2
      <4>2. from(k) \in Nat /\ from(m) \in Nat /\ hit[k] \in Nat /\ hit[m] \in Nat
        BY <1>3, <2>2
      <4> HIDE DEF from
      <4>3. QED
        BY <1>1, <4>1, <4>2
    <3> DEFINE a == gap * k
               b == gap * m
    <3>3. a + gap <= b /\ a \in Nat /\ b \in Nat /\ hit[k] <= cnt[c] + a + gap - 1 /\ cnt[c] + b <= hit[m]
      BY <3>1, <3>2
    <3> HIDE DEF a, b
    <3>4. QED
      BY <1>1, <3>2, <3>3
  <2>8. x < y \/ y < x
    BY <2>5
  <2>9. hit[x] < hit[y] \/ hit[y] < hit[x]
    BY <2>7, <2>8
  <2>10. hit[x] \in Nat
    BY <2>2
  <2>11. QED
    BY <2>6, <2>9, <2>10
<1>5. Min(good) \in good
  <2>1. good \subseteq Nat
    BY <1>1
  <2> HIDE DEF good
  <2>2. QED
    BY <1>4, <2>1, MinIs
<1>6. Min(good) \in Nat /\ Min(good) >= cnt[c]
  BY <1>1, <1>5
<1> HIDE DEF good
<1>7. QED
  BY <1>1, <1>2, <1>6

LEMMA ExtendChainsIs ==
  ASSUME WalletAssumption, NEW cnt \in [Chains -> Nat], NEW used, IsFiniteSet(used)
  PROVE  /\ ExtendChains(cnt, used) \in [Chains -> Nat]
         /\ \A d \in Chains : ExtendChains(cnt, used)[d] >= cnt[d]
<1> DEFINE one == UnusedAddrs(cnt, used, "external", GapLimit["external"])
           two == UnusedAddrs(one, used, "internal", GapLimit["internal"])
<1>1. "external" \in Chains /\ "internal" \in Chains
  BY DEF Chains
<1>2. GapLimit["external"] \in Nat \ {0} /\ GapLimit["internal"] \in Nat \ {0}
  BY <1>1 DEF WalletAssumption
<1>3. one \in [Chains -> Nat] /\ \A d \in Chains : one[d] >= cnt[d]
  BY <1>1, <1>2, UnusedAddrsIs
<1> HIDE DEF one
<1>4. two \in [Chains -> Nat] /\ \A d \in Chains : two[d] >= one[d]
  BY <1>1, <1>2, <1>3, UnusedAddrsIs
<1>5. ExtendChains(cnt, used) = two
  BY DEF ExtendChains, one
<1> HIDE DEF two
<1>6. \A d \in Chains : two[d] >= cnt[d]
  BY <1>3, <1>4
<1>7. QED
  BY <1>4, <1>5, <1>6

LEMMA AllAddrsGrow ==
  ASSUME NEW cnt \in [Chains -> Nat], NEW more \in [Chains -> Nat],
         \A d \in Chains : more[d] >= cnt[d]
  PROVE  AllAddrs(cnt) \subseteq AllAddrs(more)
<1> SUFFICES ASSUME NEW a \in AllAddrs(cnt) PROVE a \in AllAddrs(more)
  OBVIOUS
<1>1. PICK c \in Chains : \E i \in 0 .. cnt[c] - 1 : a = <<c, i>>
  BY DEF AllAddrs
<1>2. PICK i \in 0 .. cnt[c] - 1 : a = <<c, i>>
  BY <1>1
<1>3. i \in 0 .. more[c] - 1
  <2>1. cnt[c] \in Nat /\ more[c] \in Nat /\ more[c] >= cnt[c]
    OBVIOUS
  <2>2. QED
    BY <1>2, <2>1
<1>4. QED
  BY <1>2, <1>3 DEF AllAddrs

=============================================================================
