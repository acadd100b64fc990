---------------------------- MODULE ChainProofs -----------------------------
(***************************************************************************)
(* Proofs about Chain for every block tree, every set of peers and every   *)
(* difficulty interval.                                                    *)
(*                                                                         *)
(* Heights and checkpoints are facts about one block, but the handlers     *)
(* copy blocks from memory to a thread's batch, from there to the store,   *)
(* and after a restart back into memory.  The inductive invariant says     *)
(* that all these places hold sound blocks only, and that trimming leaves  *)
(* the checkpoints and the tip where they are.                             *)
(*                                                                         *)
(* The first part is what a walk back from a block meets (Branch): the     *)
(* chain of parents in memory, one height after the other.  A walk is a    *)
(* recursive function.  That it exists, and what it meets, is shown by     *)
(* taking the least number at which it would fail.                         *)
(***************************************************************************)
EXTENDS Chain, TLAPS, WellFoundedInduction

\* f holds blocks at their true heights, each without a parent or with the one it
\* was relayed with
Linked(f) ==
  /\ Memory(f)
  /\ \A b \in DOMAIN f : f[b].height = Depth[b]
  /\ \A b \in DOMAIN f : f[b].prev \in {NoBlock, Prev[b]}

\* and none in the place of a checkpoint
Sound(f) ==
  /\ Linked(f)
  /\ \A b \in DOMAIN f : \A c \in Checkpoint : Depth[c] = Depth[b] => b = c

-----------------------------------------------------------------------------
(* Numbers and walks *)

LEMMA NatLeast ==
  ASSUME NEW T, T \subseteq Nat, T # {}
  PROVE  \E m \in T : \A n \in T : m <= n
<1>1. IsWellFoundedOn(OpToRel(<, Nat), Nat)
  BY NatLessThanWellFounded
<1>2. PICK m \in T : \A n \in T : ~(<<n, m>> \in OpToRel(<, Nat))
  BY <1>1, WFMin
<1>3. \A n \in T : ~(n < m)
  BY <1>2 DEF OpToRel
<1>4. QED
  BY <1>3

\* m steps of a walk in S that starts at b
WalkIn(S, step, b, m) ==
  \E f \in [0 .. m -> S] : f[0] = b /\ \A n \in 1 .. m : f[n] = step[f[n - 1]]

LEMMA Walk ==
  ASSUME NEW S, NEW step \in [S -> S], NEW b \in S, NEW m \in Nat
  PROVE  WalkIn(S, step, b, m)
<1> DEFINE Is(k, f) == f[0] = b /\ \A n \in 1 .. k : f[n] = step[f[n - 1]]
           Bad == {k \in Nat : ~\E f \in [0 .. k -> S] : Is(k, f)}
<1>1. SUFFICES Bad = {}
  BY DEF WalkIn
<1>2. SUFFICES ASSUME Bad # {} PROVE FALSE
  OBVIOUS
<1>3. PICK k \in Bad : \A i \in Bad : k <= i
  <2> HIDE DEF Bad
  <2>1. Bad \subseteq Nat
    BY DEF Bad
  <2>2. QED
    BY <1>2, <2>1, NatLeast
<1>4. k # 0
  <2>1. [n \in 0 .. 0 |-> b] \in [0 .. 0 -> S] /\ Is(0, [n \in 0 .. 0 |-> b])
    OBVIOUS
  <2>2. QED
    BY <2>1
<1>5. k \in Nat /\ k - 1 \in Nat /\ k - 1 \notin Bad
  <2>1. k \in Nat
    OBVIOUS
  <2> HIDE DEF Bad
  <2>2. QED
    BY <1>3, <1>4, <2>1
<1>6. PICK f \in [0 .. (k - 1) -> S] : Is(k - 1, f)
  BY <1>5
<1> DEFINE g == [n \in 0 .. k |-> IF n = k THEN step[f[k - 1]] ELSE f[n]]
<1>7. g \in [0 .. k -> S]
  BY <1>5, <1>6
<1>8. Is(k, g)
  <2>1. g[0] = b
    BY <1>4, <1>5, <1>6
  <2>2. ASSUME NEW n \in 1 .. k PROVE g[n] = step[g[n - 1]]
    <3>1. g[n - 1] = f[n - 1]
      BY <1>5, <2>2
    <3>2. CASE n = k
      BY <1>5, <3>1, <3>2
    <3>3. CASE n # k
      <4>1. n \in 1 .. (k - 1) /\ n \in 0 .. k
        BY <1>5, <3>3
      <4>2. g[n] = f[n] /\ f[n] = step[f[n - 1]]
        BY <1>6, <3>3, <4>1
      <4>3. QED
        BY <3>1, <4>2
    <3>4. QED
      BY <3>2, <3>3
  <2>3. QED
    BY <2>1, <2>2
<1>9. QED
  BY <1>5, <1>7, <1>8

-----------------------------------------------------------------------------
(* Branch *)

\* f is the walk back from b
Back(f, mem, b) ==
  /\ f[0] = b
  /\ \A n \in 1 .. mem[b].height :
       f[n] = IF f[n - 1] \in DOMAIN mem THEN mem[f[n - 1]].prev ELSE NoBlock
  /\ Branch(mem, b) = DOMAIN mem \cap {f[n] : n \in 0 .. mem[b].height}

LEMMA BackExists ==
  ASSUME ChainAssumption, NEW mem, Linked(mem), NEW b \in DOMAIN mem
  PROVE  \E f : Back(f, mem, b)
<1> DEFINE H == mem[b].height
           S == Block \cup {NoBlock}
           step == [x \in S |-> IF x \in DOMAIN mem THEN mem[x].prev ELSE NoBlock]
           back[n \in 0 .. H] ==
             IF n = 0 THEN b
             ELSE LET x == back[n - 1] IN IF x \in DOMAIN mem THEN mem[x].prev ELSE NoBlock
<1>1. H \in Nat /\ b \in S
  BY DEF Linked, Memory, Objects
<1>2. step \in [S -> S]
  BY DEF Linked, Memory, Objects
<1>3. PICK f \in [0 .. H -> S] : f[0] = b /\ \A n \in 1 .. H : f[n] = step[f[n - 1]]
  <2>1. WalkIn(S, step, b, H)
    <3> HIDE DEF back, H, S, step
    <3> QED BY <1>1, <1>2, Walk
  <2>2. QED
    BY <2>1 DEF WalkIn
<1>4. f = [n \in 0 .. H |->
             IF n = 0 THEN b
             ELSE LET x == f[n - 1] IN IF x \in DOMAIN mem THEN mem[x].prev ELSE NoBlock]
  <2>1. ASSUME NEW n \in 0 .. H, n # 0
        PROVE  f[n] = IF f[n - 1] \in DOMAIN mem THEN mem[f[n - 1]].prev ELSE NoBlock
    <3>1. n \in 1 .. H /\ n - 1 \in 0 .. H
      BY <1>1, <2>1
    <3>2. f[n - 1] \in S /\ f[n] = step[f[n - 1]]
      BY <1>3, <3>1
    <3>3. QED
      BY <3>2
  <2>2. QED
    BY <1>3, <2>1
<1>5. back = [n \in 0 .. H |->
                IF n = 0 THEN b
                ELSE LET x == back[n - 1] IN IF x \in DOMAIN mem THEN mem[x].prev ELSE NoBlock]
  BY <1>4
<1>6. Branch(mem, b) = DOMAIN mem \cap {back[n] : n \in 0 .. H}
  BY DEF Branch
<1> HIDE DEF back
<1>7. back[0] = b
  BY <1>1, <1>5
<1>8. \A n \in 1 .. H :
        back[n] = IF back[n - 1] \in DOMAIN mem THEN mem[back[n - 1]].prev ELSE NoBlock
  BY <1>1, <1>5
<1>9. Back(back, mem, b)
  BY <1>6, <1>7, <1>8, Zenon DEF Back
<1>10. QED
  BY <1>9

\* what the walk meets in memory it meets one height below the other, without a gap
LEMMA BackHeights ==
  ASSUME ChainAssumption, NEW mem, Linked(mem), NEW b \in DOMAIN mem,
         NEW f, Back(f, mem, b)
  PROVE  \A n \in 0 .. mem[b].height :
           f[n] \in DOMAIN mem =>
             /\ mem[f[n]].height = mem[b].height - n
             /\ \A i \in 0 .. n : f[i] \in DOMAIN mem
<1> DEFINE H == mem[b].height
           Fine(n) == f[n] \in DOMAIN mem => /\ mem[f[n]].height = H - n
                                             /\ \A i \in 0 .. n : f[i] \in DOMAIN mem
           Bad == {n \in 0 .. H : ~Fine(n)}
<1>0. H \in Nat
  BY DEF Linked, Memory, Objects
<1>1. SUFFICES ASSUME Bad # {} PROVE FALSE
  OBVIOUS
<1>2. Bad \subseteq Nat
  OBVIOUS
<1>3. PICK n \in Bad : \A i \in Bad : n <= i
  <2> HIDE DEF Bad
  <2> QED BY <1>1, <1>2, NatLeast
<1>4. n \in 0 .. H /\ ~Fine(n) /\ f[n] \in DOMAIN mem
  BY <1>3
<1>5. n # 0
  <2>1. Fine(0)
    BY <1>0 DEF Back
  <2>2. QED
    BY <1>4, <2>1
<1>6. n \in 1 .. H /\ n - 1 \in 0 .. H
  BY <1>0, <1>4, <1>5
<1>7. Fine(n - 1)
  <2>1. n - 1 \notin Bad
    <3> HIDE DEF Bad
    <3> QED BY <1>3, <1>6
  <2>2. QED
    BY <1>6, <2>1
<1>8. f[n] = IF f[n - 1] \in DOMAIN mem THEN mem[f[n - 1]].prev ELSE NoBlock
  BY <1>6 DEF Back
<1>9. f[n] \in Block /\ f[n] # NoBlock
  BY <1>4 DEF ChainAssumption, Linked, Memory
<1>10. f[n - 1] \in DOMAIN mem /\ f[n] = mem[f[n - 1]].prev
  BY <1>8, <1>9
<1>11. f[n - 1] \in Block /\ f[n] = Prev[f[n - 1]] /\ mem[f[n - 1]].height = Depth[f[n - 1]]
  BY <1>9, <1>10 DEF Linked, Memory
<1>12. mem[f[n]].height = H - n
  <2>1. Depth[f[n - 1]] = Depth[f[n]] + 1 /\ Depth[f[n]] \in Nat /\ Depth[f[n - 1]] \in Nat
    BY <1>9, <1>11 DEF ChainAssumption
  <2>2. mem[f[n]].height = Depth[f[n]]
    BY <1>4 DEF Linked
  <2>3. Depth[f[n - 1]] = H - (n - 1)
    BY <1>7, <1>10, <1>11
  <2>4. QED
    BY <1>0, <1>6, <2>1, <2>2, <2>3
<1>13. \A i \in 0 .. n : f[i] \in DOMAIN mem
  <2>1. \A i \in 0 .. (n - 1) : f[i] \in DOMAIN mem
    BY <1>7, <1>10
  <2>2. \A i \in 0 .. n : i = n \/ i \in 0 .. (n - 1)
    BY <1>6
  <2>3. QED
    BY <1>4, <2>1, <2>2
<1>14. QED
  BY <1>4, <1>12, <1>13

\* A branch runs from its block down, through every height.
LEMMA BranchHeights ==
  ASSUME ChainAssumption, NEW mem, Sound(mem), NEW b \in DOMAIN mem
  PROVE  /\ b \in Branch(mem, b)
         /\ Branch(mem, b) \subseteq DOMAIN mem
         /\ \A x \in Branch(mem, b) :
              /\ mem[x].height \in Nat /\ mem[x].height <= mem[b].height
              /\ \A h \in mem[x].height .. mem[b].height :
                   \E y \in Branch(mem, b) : mem[y].height = h
<1> DEFINE H == mem[b].height
<1>1. PICK f : Back(f, mem, b)
  BY BackExists DEF Sound
<1>2. \A n \in 0 .. H : f[n] \in DOMAIN mem =>
             /\ mem[f[n]].height = H - n
             /\ \A i \in 0 .. n : f[i] \in DOMAIN mem
  BY <1>1, BackHeights DEF Sound
<1>3. H \in Nat /\ Branch(mem, b) = DOMAIN mem \cap {f[n] : n \in 0 .. H} /\ f[0] = b
  BY <1>1 DEF Back, Sound, Linked, Memory, Objects
<1>4. b \in Branch(mem, b)
  <2>1. 0 \in 0 .. H
    BY <1>3
  <2>2. QED
    BY <1>3, <2>1
<1> HIDE DEF H
<1>5. ASSUME NEW x \in Branch(mem, b)
      PROVE  /\ mem[x].height \in Nat /\ mem[x].height <= H
             /\ \A h \in mem[x].height .. H : \E y \in Branch(mem, b) : mem[y].height = h
  <2>1. PICK n \in 0 .. H : x = f[n]
    BY <1>3
  <2>2. mem[x].height = H - n /\ \A i \in 0 .. n : f[i] \in DOMAIN mem
    BY <1>2, <1>3, <2>1
  <2>3. ASSUME NEW h \in mem[x].height .. H
        PROVE  \E y \in Branch(mem, b) : mem[y].height = h
    <3>1. H - h \in 0 .. n /\ H - h \in 0 .. H /\ H - (H - h) = h
      BY <1>3, <2>1, <2>2
    <3>2. f[H - h] \in Branch(mem, b) /\ mem[f[H - h]].height = h
      BY <1>2, <1>3, <2>2, <3>1
    <3>3. QED
      BY <3>2
  <2>4. QED
    BY <1>3, <2>2, <2>3
<1>6. QED
  BY <1>3, <1>4, <1>5 DEF H

\* A branch ends where the walk has no parent to go on with.
LEMMA BranchEnds ==
  ASSUME ChainAssumption, NEW mem, Sound(mem), NEW b \in DOMAIN mem, NEW c \in DOMAIN mem,
         mem[b].prev = c, mem[c].prev = NoBlock
  PROVE  Branch(mem, b) \subseteq {b, c}
<1> DEFINE H == mem[b].height
<1>1. PICK f : Back(f, mem, b)
  BY BackExists DEF Sound
<1>2. H \in Nat
  BY DEF Sound, Linked, Memory, Objects
<1>3. ASSUME NEW n \in 0 .. H, f[n] \in DOMAIN mem, n > 1 PROVE FALSE
  <2>1. 2 \in 0 .. n /\ 1 \in 1 .. H /\ 2 \in 1 .. H
    BY <1>2, <1>3
  <2>2. f[2] \in DOMAIN mem
    BY <1>1, <1>3, <2>1, BackHeights DEF Sound
  <2>3. f[0] = b /\ f[1] = c
    <3>1. f[1] = IF f[1 - 1] \in DOMAIN mem THEN mem[f[1 - 1]].prev ELSE NoBlock
      BY <1>1, <2>1 DEF Back
    <3>2. QED
      BY <1>1, <3>1 DEF Back
  <2>4. f[2] = NoBlock
    <3>1. f[2] = IF f[2 - 1] \in DOMAIN mem THEN mem[f[2 - 1]].prev ELSE NoBlock
      BY <1>1, <2>1 DEF Back
    <3>2. QED
      BY <2>3, <3>1
  <2>5. QED
    BY <2>2, <2>4 DEF ChainAssumption, Sound, Linked, Memory
<1>4. ASSUME NEW x \in Branch(mem, b) PROVE x \in {b, c}
  <2>1. PICK n \in 0 .. H : x = f[n] /\ f[n] \in DOMAIN mem
    BY <1>1 DEF Back
  <2>2. n = 0 \/ n = 1
    BY <1>2, <1>3, <2>1
  <2>3. CASE n = 0
    BY <1>1, <2>1, <2>3 DEF Back
  <2>4. CASE n = 1
    <3>1. 1 \in 1 .. H
      BY <1>2, <2>4
    <3>2. f[1] = IF f[1 - 1] \in DOMAIN mem THEN mem[f[1 - 1]].prev ELSE NoBlock
      BY <1>1, <3>1 DEF Back
    <3>3. QED
      BY <1>1, <2>1, <2>4, <3>2 DEF Back
  <2>5. QED
    BY <2>2, <2>3, <2>4
<1>5. QED
  BY <1>4

-----------------------------------------------------------------------------
(* Lowest *)

LEMMA LowestIs ==
  ASSUME NEW f, NEW S, S # {}, \A x \in S : f[x].height \in Nat
  PROVE  /\ \A x \in S : Lowest(f, S) <= f[x].height
         /\ \E x \in S : Lowest(f, S) = f[x].height
         /\ Lowest(f, S) \in Nat
<1> DEFINE T == {f[x].height : x \in S}
<1>1. T \subseteq Nat /\ T # {}
  OBVIOUS
<1>2. \E m \in T : \A n \in T : m <= n
  <2> HIDE DEF T
  <2> QED BY <1>1, NatLeast
<1>3. Min(T) \in T /\ \A n \in T : Min(T) <= n
  <2> HIDE DEF T
  <2> QED BY <1>2 DEF Min
<1>4. QED
  BY <1>1, <1>3 DEF Lowest

\* no height in T is below m, and m is one of them
LEMMA LowestEquals ==
  ASSUME NEW f, NEW S, \A x \in S : f[x].height \in Nat,
         NEW x \in S, \A y \in S : f[x].height <= f[y].height
  PROVE  Lowest(f, S) = f[x].height
<1>1. PICK y \in S : Lowest(f, S) = f[y].height
  BY LowestIs
<1>2. Lowest(f, S) <= f[x].height /\ f[x].height <= f[y].height
  BY LowestIs
<1>3. f[x].height \in Nat /\ f[y].height \in Nat
  OBVIOUS
<1>4. QED
  BY <1>1, <1>2, <1>3

-----------------------------------------------------------------------------
(* SaveBatch *)

\* the lowest of the blocks f is at a difficulty transition
StartsOnTransition(f) ==
  DOMAIN f # {} => \E x \in DOMAIN f : /\ f[x].height % Interval = 0
                                        /\ \A y \in DOMAIN f : f[x].height <= f[y].height

\* the way up to the next multiple of I
LEMMA NextMultiple ==
  ASSUME NEW I \in Nat \ {0}, NEW r \in Nat
  PROVE  (I - (r % I)) % I \in Nat /\ (r + ((I - (r % I)) % I)) % I = 0
<1>1. r % I \in 0 .. (I - 1)
  OBVIOUS
<1>2. CASE r % I = 0
  <2>1. I % I = 0
    OBVIOUS
  <2>2. QED
    BY <1>2, <2>1
<1>3. CASE r % I # 0
  <2>1. I - (r % I) \in 1 .. (I - 1)
    BY <1>1, <1>3
  <2>2. (I - (r % I)) % I = I - (r % I)
    BY <2>1
  <2>3. (r + (I - (r % I))) % I = 0
    <3>1. r = I * (r \div I) + (r % I) /\ r \div I \in Nat
      OBVIOUS
    <3>2. r + (I - (r % I)) = I * ((r \div I) + 1)
      BY <1>1, <3>1
    <3>3. \A q \in Nat : (I * q) % I = 0
      OBVIOUS
    <3>4. QED
      BY <3>1, <3>2, <3>3
  <2>4. QED
    BY <2>1, <2>2, <2>3
<1>4. QED
  BY <1>2, <1>3

\* The loop over the blocks to save drops those below the first transition; as the
\* walk misses no height, the first it keeps is a transition.
LEMMA BatchStarts ==
  ASSUME ChainAssumption, NEW mem, Sound(mem), NEW b \in DOMAIN mem, NEW count \in Nat
  PROVE  StartsOnTransition(SaveBatch(mem, b, count))
<1> DEFINE H == mem[b].height
           walk == Above(mem, Branch(mem, b), H - count)
           root == Lowest(mem, walk)
           past == (Interval - (root % Interval)) % Interval
           S == Above(mem, walk, root + past - 1)
           batch == [x \in S |-> mem[x]]
<1>0. H \in Nat
  BY DEF Sound, Linked, Memory, Objects
<1>1. CASE count = 0
  BY <1>1 DEF SaveBatch, StartsOnTransition, Empty
<1>2. CASE count # 0 /\ S = {}
  <2>1. SaveBatch(mem, b, count) = batch
    BY <1>2 DEF SaveBatch
  <2>2. DOMAIN batch = S
    OBVIOUS
  <2> HIDE DEF S, batch
  <2>3. QED
    BY <1>2, <2>1, <2>2 DEF StartsOnTransition
<1>3. CASE count # 0 /\ S # {}
  <2>1. /\ b \in Branch(mem, b)
        /\ Branch(mem, b) \subseteq DOMAIN mem
        /\ \A x \in Branch(mem, b) :
             /\ mem[x].height \in Nat /\ mem[x].height <= H
             /\ \A h \in mem[x].height .. H :
                  \E y \in Branch(mem, b) : mem[y].height = h
    BY BranchHeights
  <2>2. /\ walk = {x \in Branch(mem, b) : mem[x].height > H - count}
        /\ S = {x \in walk : mem[x].height > root + past - 1}
    BY DEF Above
  <2> HIDE DEF walk, root, past, S
  <2>3. b \in walk /\ \A x \in walk : mem[x].height \in Nat
    BY <1>0, <1>3, <2>1, <2>2
  <2>4. /\ \A x \in walk : root <= mem[x].height
        /\ \E x \in walk : root = mem[x].height
        /\ root \in Nat
    BY <2>3, LowestIs DEF root
  <2>5. past \in Nat /\ (root + past) % Interval = 0
    BY <2>4, NextMultiple DEF past, ChainAssumption
  <2>6. PICK z \in S : mem[z].height >= root + past /\ mem[z].height <= H
    BY <1>3, <2>1, <2>2, <2>3, <2>4, <2>5
  <2>7. PICK r \in walk : root = mem[r].height
    BY <2>4
  <2>8. root + past \in mem[r].height .. H
    BY <1>0, <2>1, <2>2, <2>3, <2>4, <2>5, <2>6, <2>7
  <2>9. PICK y \in Branch(mem, b) : mem[y].height = root + past
    BY <2>1, <2>2, <2>7, <2>8
  <2>10. y \in S
    <3>1. mem[r].height > H - count
      BY <2>2, <2>7
    <3>2. y \in walk
      BY <1>0, <2>2, <2>4, <2>5, <2>7, <2>9, <3>1
    <3>3. QED
      BY <2>2, <2>4, <2>5, <2>9, <3>2
  <2>11. \A x \in S : mem[x].height >= root + past
    BY <2>2, <2>3, <2>4, <2>5
  <2>12. SaveBatch(mem, b, count) = batch
    BY <1>3 DEF SaveBatch, walk, root, past, S
  <2>13. DOMAIN batch = S /\ \A x \in S : batch[x] = mem[x]
    OBVIOUS
  <2> HIDE DEF batch
  <2>14. StartsOnTransition(batch)
    <3>1. \A x \in S : mem[y].height <= mem[x].height
      BY <2>4, <2>5, <2>9, <2>11, <2>2, <2>3
    <3>2. QED
      BY <2>5, <2>9, <2>10, <2>13, <3>1 DEF StartsOnTransition
  <2>15. QED
    BY <2>12, <2>14
<1>4. QED
  BY <1>1, <1>2, <1>3

\* a batch that is added to the store moves its start to the lower of the two
LEMMA MergeStarts ==
  ASSUME NEW f, Sound(f), StartsOnTransition(f), NEW g, Sound(g), StartsOnTransition(g)
  PROVE  StartsOnTransition([x \in DOMAIN f \cup DOMAIN g |-> IF x \in DOMAIN f THEN f[x] ELSE g[x]])
<1> DEFINE m == [x \in DOMAIN f \cup DOMAIN g |-> IF x \in DOMAIN f THEN f[x] ELSE g[x]]
<1>1. /\ \A x \in DOMAIN f : m[x].height = f[x].height /\ f[x].height \in Nat
      /\ \A x \in DOMAIN g : m[x].height = g[x].height /\ g[x].height \in Nat
      /\ DOMAIN m = DOMAIN f \cup DOMAIN g
  BY DEF Sound, Linked, Memory, Objects
<1> HIDE DEF m
<1>2. CASE DOMAIN f = {} \/ DOMAIN g = {}
  BY <1>1, <1>2 DEF StartsOnTransition, m
<1>3. CASE DOMAIN f # {} /\ DOMAIN g # {}
  <2>1. PICK x \in DOMAIN f : /\ f[x].height % Interval = 0
                              /\ \A y \in DOMAIN f : f[x].height <= f[y].height
    BY <1>3 DEF StartsOnTransition
  <2>2. PICK z \in DOMAIN g : /\ g[z].height % Interval = 0
                              /\ \A y \in DOMAIN g : g[z].height <= g[y].height
    BY <1>3 DEF StartsOnTransition
  <2>3. CASE f[x].height <= g[z].height
    <3>1. \A y \in DOMAIN m : m[x].height <= m[y].height
      BY <1>1, <2>1, <2>2, <2>3
    <3>2. QED
      BY <1>1, <2>1, <3>1 DEF StartsOnTransition, m
  <2>4. CASE ~(f[x].height <= g[z].height)
    <3>1. \A y \in DOMAIN m : m[z].height <= m[y].height
      BY <1>1, <2>1, <2>2, <2>4
    <3>2. QED
      BY <1>1, <2>2, <3>1 DEF StartsOnTransition, m
  <2>5. QED
    BY <2>3, <2>4
<1>4. QED
  BY <1>2, <1>3 DEF m

-----------------------------------------------------------------------------
(* Blocks, the store and the threads *)

\* what may be handed to saveBlocks, and be found in the store
Saveable(f) == Sound(f) /\ StartsOnTransition(f)

OrphanMap(f) == DOMAIN f \subseteq Block \cup {NoBlock} /\ f \in [DOMAIN f -> Orphans]

BlocksInv == Sound(blocks) /\ CheckpointsKept /\ lastBlock \in DOMAIN blocks

TodoInv ==
  /\ DOMAIN todo = Peer
  /\ \A p \in Peer : /\ Saveable(todo[p].save)
                     /\ todo[p].alive \in BOOLEAN
                     /\ todo[p].next \in Orphans \cup {NoOrphan}

RestInv ==
  /\ estimatedHeight \in Nat /\ filterLoaded \in BOOLEAN /\ pastCount \in 0 .. PastBlocks
  /\ txHeight \in [Tx -> Nat \cup {Unconfirmed}]
  /\ fault \in {"none", "lastFreed", "noMainBlock", "noJoin", "savedFreed"}
  /\ rescans \in Nat /\ restarts \in Nat

\* the inductive invariant
IInv == BlocksInv /\ Saveable(saved) /\ OrphanMap(orphans) /\ TodoInv /\ RestInv

-----------------------------------------------------------------------------
(* The operators on blocks *)

\* a part of a sound set of blocks is sound
LEMMA SoundPart ==
  ASSUME NEW f, Sound(f), NEW S, S \subseteq DOMAIN f
  PROVE  Sound([x \in S |-> f[x]])
  BY DEF Sound, Linked, Memory

\* no blocks, as in an idle thread or a new store
LEMMA SaveableEmpty == Saveable(Empty)
  BY DEF Saveable, Sound, Linked, StartsOnTransition, Memory, Empty

\* adding a block at its true height that contradicts no checkpoint
LEMMA SoundAdd ==
  ASSUME ChainAssumption, NEW f, Sound(f), NEW b \in Block, NEW h, h = Depth[b],
         \A c \in Checkpoint : Depth[c] = Depth[b] => c = b
  PROVE  /\ Sound(Add(f, b, h))
         /\ DOMAIN Add(f, b, h) = DOMAIN f \cup {b}
<1>1. [height |-> h, prev |-> Prev[b]] \in Objects
  BY DEF ChainAssumption, Objects
<1>2. Add(f, b, h) = [x \in DOMAIN f \cup {b} |->
                        IF x = b THEN [height |-> h, prev |-> Prev[b]] ELSE f[x]]
  BY DEF Add, Put
<1>3. QED
  BY <1>1, <1>2 DEF Sound, Linked, Memory

\* the blocks of a batch are blocks of memory, from a transition on
LEMMA SaveableBatch ==
  ASSUME ChainAssumption, NEW mem, Sound(mem), NEW b \in DOMAIN mem, NEW count \in Nat
  PROVE  Saveable(SaveBatch(mem, b, count))
<1> DEFINE walk == Above(mem, Branch(mem, b), mem[b].height - count)
           root == Lowest(mem, walk)
           past == (Interval - (root % Interval)) % Interval
           S == Above(mem, walk, root + past - 1)
<1>1. S \subseteq DOMAIN mem
  BY DEF Above, Branch
<1>2. Sound([x \in S |-> mem[x]])
  <2> HIDE DEF S
  <2> QED BY <1>1, SoundPart
<1>3. Sound(SaveBatch(mem, b, count))
  BY <1>2, SaveableEmpty DEF SaveBatch, Saveable
<1>4. QED
  BY <1>3, BatchStarts DEF Saveable

\* the height a block gets from its parent is its true height
LEMMA HeightFromParent ==
  ASSUME ChainAssumption, Sound(blocks), NEW b \in Block, ParentKnown(b)
  PROVE  NewHeight(b) = Depth[b] /\ NewHeight(b) \in Nat
  BY DEF ChainAssumption, Sound, Linked, Memory, ParentKnown, NewHeight

\* trimming spares every checkpoint
LEMMA TrimSparesCheckpoints ==
  ASSUME ChainAssumption, CheckpointAssumption, Sound(blocks), CheckpointsKept,
         NEW b \in Block, ParentKnown(b)
  PROVE  Checkpoint \subseteq DOMAIN Kept(b)
<1> SUFFICES ASSUME NEW c \in Checkpoint, c \in Trimmed(b)
             PROVE  FALSE
  BY DEF Kept, CheckpointsKept
<1>1. /\ blocks[c].height < NewHeight(b) - IntervalAt(NewHeight(b))
      /\ blocks[c].height % IntervalAt(NewHeight(b)) # 0
  BY DEF Trimmed
<1>2. blocks[c].height = Depth[c] /\ Depth[c] \in Nat
  BY DEF Sound, Linked, CheckpointsKept, ChainAssumption
<1>3. NewHeight(b) \in Nat
  BY HeightFromParent
<1>4. CASE NewHeight(b) < DGWStart
  <2>1. IntervalAt(NewHeight(b)) = Interval
    BY <1>4 DEF IntervalAt
  <2>2. Depth[c] < DGWStart
    BY <1>1, <1>2, <1>3, <1>4, <2>1 DEF ChainAssumption
  <2>3. QED
    BY <1>1, <1>2, <2>1, <2>2 DEF CheckpointAssumption, ChainAssumption
<1>5. CASE ~(NewHeight(b) < DGWStart)
  <2>1. IntervalAt(NewHeight(b)) = 1
    BY <1>5 DEF IntervalAt
  <2>2. Depth[c] % 1 = 0
    BY <1>2
  <2>3. QED
    BY <1>1, <1>2, <2>1, <2>2
<1>6. QED
  BY <1>4, <1>5

\* what the verification leaves in memory
LEMMA KeptSound ==
  ASSUME ChainAssumption, CheckpointAssumption, BlocksInv, NEW b \in Block,
         ParentKnown(b), lastBlock \notin Trimmed(b)
  PROVE  /\ Sound(Kept(b))
         /\ Checkpoint \subseteq DOMAIN Kept(b)
         /\ lastBlock \in DOMAIN Kept(b)
<1>1. Sound(Kept(b))
  BY SoundPart DEF Kept, BlocksInv
<1>2. QED
  BY <1>1, TrimSparesCheckpoints DEF BlocksInv, Kept

-----------------------------------------------------------------------------
(* How a handler ends: _peerRelayedBlock keeps the block or drops it *)

\* what thread p goes on with is sound
LEMMA ContinueSound ==
  ASSUME TodoInv, NEW p \in Peer, NEW freed, NEW save, Saveable(save),
         NEW next \in Orphans \cup {NoOrphan}, Continue(p, freed, save, next)
  PROVE  TodoInv'
<1>1. \A q \in Peer :
        todo'[q] = IF q = p THEN [save |-> save, alive |-> TRUE, next |-> next]
                   ELSE [save |-> todo[q].save, next |-> todo[q].next,
                         alive |-> todo[q].alive /\ freed \cap DOMAIN todo[q].save = {}]
  BY DEF Continue
<1>2. DOMAIN todo' = Peer
  BY DEF Continue
<1>3. ASSUME NEW q \in Peer
      PROVE  /\ Saveable(todo'[q].save)
             /\ todo'[q].alive \in BOOLEAN
             /\ todo'[q].next \in Orphans \cup {NoOrphan}
  <2>1. CASE q = p
    <3>1. todo'[q] = [save |-> save, alive |-> TRUE, next |-> next]
      BY <1>1, <2>1
    <3>2. todo'[q].save = save /\ todo'[q].alive = TRUE /\ todo'[q].next = next
      BY <3>1
    <3>3. QED
      BY <3>2, Zenon
  <2>2. CASE q # p
    <3> DEFINE live == todo[q].alive /\ freed \cap DOMAIN todo[q].save = {}
    <3>1. todo'[q] = [save |-> todo[q].save, next |-> todo[q].next, alive |-> live]
      BY <1>1, <2>2
    <3>2. live \in BOOLEAN
      OBVIOUS
    <3>3. todo'[q].save = todo[q].save /\ todo'[q].alive = live /\ todo'[q].next = todo[q].next
      <4> HIDE DEF live
      <4> QED BY <3>1
    <3>4. QED
      <4> HIDE DEF live
      <4> QED BY <3>2, <3>3, Zenon DEF TodoInv
  <2>3. QED
    BY <2>1, <2>2
<1>4. QED
  BY <1>2, <1>3 DEF TodoInv

\* a dropped block leaves the thread idle
LEMMA DropSound ==
  ASSUME TodoInv, OrphanMap(orphans), estimatedHeight \in Nat,
         NEW p \in Peer, NEW freed, Drop(p, freed)
  PROVE  TodoInv' /\ OrphanMap(orphans)' /\ estimatedHeight' \in Nat
<1>1. TodoInv'
  BY ContinueSound, SaveableEmpty DEF Drop
<1>2. QED
  BY <1>1 DEF Drop, OrphanMap

\* a kept block takes the orphan that waits for it along
LEMMA KeepSound ==
  ASSUME TodoInv, estimatedHeight \in Nat,
         NEW p \in Peer, NEW freed, NEW b, NEW h \in Nat \cup {UnknownHeight},
         NEW orph, OrphanMap(orph), NEW save, Saveable(save),
         Keep(p, freed, b, h, orph, save)
  PROVE  TodoInv' /\ OrphanMap(orphans)' /\ estimatedHeight' \in Nat
<1>1. CASE h = UnknownHeight
  <2>1. /\ orphans' = orph
        /\ Continue(p, freed, save, NoOrphan)
        /\ estimatedHeight' = estimatedHeight
    BY <1>1 DEF Keep
  <2>2. TodoInv'
    BY <2>1, ContinueSound
  <2>3. QED
    BY <2>1, <2>2 DEF OrphanMap
<1>2. CASE h # UnknownHeight
  <2> DEFINE next == IF b \in DOMAIN orph THEN orph[b] ELSE NoOrphan
  <2>1. /\ orphans' = [k \in DOMAIN orph \ {b} |-> orph[k]]
        /\ Continue(p, freed, save, next)
        /\ estimatedHeight' = IF h > estimatedHeight THEN h ELSE estimatedHeight
    BY <1>2 DEF Keep
  <2>2. next \in Orphans \cup {NoOrphan}
    BY DEF OrphanMap
  <2>3. TodoInv'
    <3> HIDE DEF next
    <3> QED BY <2>1, <2>2, ContinueSound
  <2>4. OrphanMap(orphans)'
    BY <2>1 DEF OrphanMap
  <2>5. estimatedHeight' \in Nat
    BY <1>2, <2>1
  <2>6. QED
    BY <2>3, <2>4, <2>5
<1>3. QED
  BY <1>1, <1>2

\* an orphan under the hash of its parent
LEMMA OrphanPut ==
  ASSUME ChainAssumption, NEW f, OrphanMap(f), NEW o \in Orphans
  PROVE  OrphanMap(Put(f, Prev[o.block], o))
<1>1. Prev[o.block] \in Block \cup {NoBlock}
  BY DEF ChainAssumption, Orphans
<1>2. QED
  BY <1>1 DEF OrphanMap, Put

-----------------------------------------------------------------------------
(* _peerRelayedBlock, one lemma per outcome *)

\* what every outcome of a handler re-establishes
Outcome ==
  /\ BlocksInv' /\ TodoInv' /\ OrphanMap(orphans)' /\ estimatedHeight' \in Nat
  /\ txHeight' \in [Tx -> Nat \cup {Unconfirmed}]

\* What holds once block b has passed _PeerManagerVerifyBlock: h is its height and
\* mem what is left in memory.
Verified(b, h, mem) ==
  /\ b \in Block /\ h = Depth[b] /\ h \in Nat
  /\ Sound(mem) /\ Checkpoint \subseteq DOMAIN mem /\ lastBlock \in DOMAIN mem
  /\ \A c \in Checkpoint : Depth[c] = Depth[b] => c = b

\* memory with the new block, whichever of b and the old tip is the tip
LEMMA AddKeepsBlocksInv ==
  ASSUME ChainAssumption, NEW b, NEW h, NEW mem, Verified(b, h, mem),
         blocks' = Add(mem, b, h), lastBlock' \in {b, lastBlock}
  PROVE  BlocksInv'
<1>1. Sound(Add(mem, b, h)) /\ DOMAIN Add(mem, b, h) = DOMAIN mem \cup {b}
  BY SoundAdd DEF Verified
<1>2. QED
  BY <1>1 DEF Verified, BlocksInv, CheckpointsKept

\* what LoadMempools leaves of the orphans
LEMMA MempoolsSound ==
  ASSUME OrphanMap(orphans), NEW h, NEW orph \in LoadMempools(h)
  PROVE  OrphanMap(orph)
<1>1. OrphanMap(Empty)
  BY DEF OrphanMap, Empty
<1>2. QED
  BY <1>1 DEF LoadMempools

\* the heights of a confirmed transaction
LEMMA ConfirmType ==
  ASSUME RestInv, NEW b, NEW h \in Nat
  PROVE  Confirm(b, h) \in [Tx -> Nat \cup {Unconfirmed}]
  BY DEF Confirm, RestInv

\* the tip moves to b
LEMMA ExtendSound ==
  ASSUME ChainAssumption, IInv, NEW p \in Peer, NEW b, NEW h, NEW mem,
         Verified(b, h, mem), Extend(p, b, h, mem)
  PROVE  Outcome
<1> DEFINE batch == SaveBatch(Add(mem, b, h), b, SaveCount(h))
<1>1. BlocksInv'
  BY AddKeepsBlocksInv DEF Extend
<1>2. Saveable(batch)
  <2>0. Sound(Add(mem, b, h)) /\ DOMAIN Add(mem, b, h) = DOMAIN mem \cup {b}
    BY SoundAdd DEF Verified
  <2>1. b \in DOMAIN Add(mem, b, h)
    BY <2>0
  <2>2. SaveCount(h) \in Nat
    BY DEF SaveCount, CompleteCount, Verified, ChainAssumption
  <2>3. QED
    BY <2>0, <2>1, <2>2, SaveableBatch
<1>3. PICK orph \in LoadMempools(h) : Keep(p, Trimmed(b), b, h, orph, batch)
  BY DEF Extend
<1>4. TodoInv' /\ OrphanMap(orphans)' /\ estimatedHeight' \in Nat
  <2> HIDE DEF batch
  <2> QED BY <1>2, <1>3, MempoolsSound, KeepSound DEF IInv, RestInv, Verified
<1>5. txHeight' \in [Tx -> Nat \cup {Unconfirmed}]
  BY ConfirmType DEF Extend, Verified, IInv
<1>6. QED
  BY <1>1, <1>4, <1>5 DEF Outcome

\* the copy in memory is replaced
LEMMA ExistingSound ==
  ASSUME ChainAssumption, IInv, NEW p \in Peer, NEW b, NEW h, NEW mem,
         Verified(b, h, mem), ExistingBlock(p, b, h, mem)
  PROVE  Outcome
<1>1. BlocksInv'
  BY AddKeepsBlocksInv DEF ExistingBlock
<1>2. Keep(p, Trimmed(b) \cup {b}, b, h, orphans, Empty)
  BY DEF ExistingBlock
<1>3. TodoInv' /\ OrphanMap(orphans)' /\ estimatedHeight' \in Nat
  BY <1>2, KeepSound, SaveableEmpty DEF IInv, RestInv, Verified
<1>4. txHeight' = Confirm(b, h) \/ txHeight' = txHeight
  BY DEF ExistingBlock
<1>5. txHeight' \in [Tx -> Nat \cup {Unconfirmed}]
  BY <1>4, ConfirmType DEF Verified, IInv, RestInv
<1>6. QED
  BY <1>1, <1>3, <1>5 DEF Outcome

\* the block waits until the rescan completes
LEMMA PostponeSound ==
  ASSUME ChainAssumption, IInv, NEW p \in Peer, NEW b, NEW h, NEW mem,
         Verified(b, h, mem), PostponeBlock(p, b, h, mem)
  PROVE  Outcome
<1> DEFINE o == [block |-> b, height |-> h]
<1>1. BlocksInv'
  BY DEF PostponeBlock, Verified, BlocksInv, CheckpointsKept
<1>2. o \in Orphans /\ o.block = b
  BY DEF Orphans, Verified
<1>3. OrphanMap(Put(orphans, Prev[b], o))
  <2> HIDE DEF o
  <2> QED BY <1>2, OrphanPut DEF IInv
<1>4. Keep(p, Trimmed(b), b, h, Put(orphans, Prev[b], o), Empty)
  BY DEF PostponeBlock
<1>5. TodoInv' /\ OrphanMap(orphans)' /\ estimatedHeight' \in Nat
  <2> HIDE DEF o
  <2> QED BY <1>3, <1>4, KeepSound, SaveableEmpty DEF IInv, RestInv, Verified
<1>6. QED
  BY <1>1, <1>5 DEF Outcome, PostponeBlock, IInv, RestInv

\* forks below the last checkpoint are dropped
LEMMA OldForkSound ==
  ASSUME ChainAssumption, IInv, NEW p \in Peer, NEW b, NEW h, NEW mem,
         Verified(b, h, mem), IgnoreOldFork(p, b, h, mem)
  PROVE  Outcome
<1>1. BlocksInv'
  BY DEF IgnoreOldFork, Verified, BlocksInv, CheckpointsKept
<1>2. TodoInv' /\ OrphanMap(orphans)' /\ estimatedHeight' \in Nat
  BY DropSound DEF IgnoreOldFork, IInv, RestInv
<1>3. QED
  BY <1>1, <1>2 DEF Outcome, IgnoreOldFork, IInv, RestInv

\* a fork that is not longer
LEMMA ForkSound ==
  ASSUME ChainAssumption, IInv, NEW p \in Peer, NEW b, NEW h, NEW mem,
         Verified(b, h, mem), AddFork(p, b, h, mem)
  PROVE  Outcome
<1>1. BlocksInv'
  BY AddKeepsBlocksInv DEF AddFork
<1>2. TodoInv' /\ OrphanMap(orphans)' /\ estimatedHeight' \in Nat
  BY KeepSound, SaveableEmpty DEF AddFork, IInv, RestInv, Verified
<1>3. QED
  BY <1>1, <1>2 DEF Outcome, AddFork, IInv, RestInv

\* the heights after a reorganisation
LEMMA ReorgHeightsType ==
  ASSUME RestInv, NEW mem, Sound(mem), NEW fork, fork \subseteq DOMAIN mem,
         NEW join, NEW joined, NEW kept
  PROVE  ReorgHeights(mem, fork, join, joined, kept) \in [Tx -> Nat \cup {Unconfirmed}]
<1>1. ASSUME NEW t \in Tx
      PROVE  ReorgHeights(mem, fork, join, joined, kept)[t] \in Nat \cup {Unconfirmed}
  <2> DEFINE at == {x \in Above(mem, fork, join) : t \in TxOf[x]}
             x0 == CHOOSE x \in at : TRUE
  <2>1. ReorgHeights(mem, fork, join, joined, kept)[t] =
          IF joined /\ at # {} THEN mem[x0].height
          ELSE IF txHeight[t] > join /\ t \notin kept THEN Unconfirmed ELSE txHeight[t]
    BY DEF ReorgHeights
  <2>2. at # {} => x0 \in at
    <3> HIDE DEF at
    <3> QED OBVIOUS
  <2>3. at \subseteq DOMAIN mem
    BY DEF Above
  <2>4. at # {} => mem[x0].height \in Nat
    <3> HIDE DEF at, x0
    <3> QED BY <2>2, <2>3 DEF Sound, Linked, Memory, Objects
  <2>5. txHeight[t] \in Nat \cup {Unconfirmed}
    BY DEF RestInv
  <2>6. QED
    <3> HIDE DEF at, x0
    <3> QED BY <2>1, <2>4, <2>5
<1>2. ReorgHeights(mem, fork, join, joined, kept) =
        [t \in Tx |-> ReorgHeights(mem, fork, join, joined, kept)[t]]
  BY DEF ReorgHeights
<1>3. QED
  BY <1>1, <1>2

\* the tip moves to the longer branch
LEMMA ReorganizeSound ==
  ASSUME ChainAssumption, IInv, NEW p \in Peer, NEW b, NEW h, NEW mem,
         Verified(b, h, mem), Reorganize(p, b, h, mem)
  PROVE  Outcome
<1> DEFINE mem2 == Add(mem, b, h)
           fork == Branch(mem2, b)
           main == Branch(mem2, lastBlock)
           joined == fork \cap main # {}
           join == IF joined THEN Max({mem2[x].height : x \in fork \cap main})
                   ELSE Lowest(mem2, main) - 1
           batch == SaveBatch(mem2, b, IF h = estimatedHeight THEN CompleteCount(h) ELSE 0)
<1>1. BlocksInv'
  BY AddKeepsBlocksInv DEF Reorganize
<1>2. Sound(mem2) /\ b \in DOMAIN mem2
  <2>1. Sound(mem2) /\ DOMAIN mem2 = DOMAIN mem \cup {b}
    BY SoundAdd DEF Verified
  <2>2. QED
    BY <2>1
<1>3. Saveable(batch)
  <2>1. (IF h = estimatedHeight THEN CompleteCount(h) ELSE 0) \in Nat
    BY DEF CompleteCount, Verified, ChainAssumption
  <2> HIDE DEF mem2
  <2> QED BY <1>2, <2>1, SaveableBatch
<1>4. /\ \E orph \in LoadMempools(h) : Keep(p, Trimmed(b), b, h, orph, batch)
      /\ \E kept \in KeptHeights(join) : txHeight' = ReorgHeights(mem2, fork, join, joined, kept)
  BY Zenon DEF Reorganize
<1>5. TodoInv' /\ OrphanMap(orphans)' /\ estimatedHeight' \in Nat
  <2> HIDE DEF batch
  <2>1. PICK orph \in LoadMempools(h) : Keep(p, Trimmed(b), b, h, orph, batch)
    BY <1>4
  <2>2. QED
    BY <1>3, <2>1, MempoolsSound, KeepSound DEF IInv, RestInv, Verified
<1>6. fork \subseteq DOMAIN mem2
  BY DEF Branch
<1>7. txHeight' \in [Tx -> Nat \cup {Unconfirmed}]
  <2> HIDE DEF mem2, fork, join, joined
  <2> QED BY <1>2, <1>4, <1>6, ReorgHeightsType DEF IInv
<1>8. QED
  BY <1>1, <1>5, <1>7 DEF Outcome

\* a fault stops the process and changes nothing else
LEMMA CrashSound ==
  ASSUME IInv, NEW what, Crash(what)
  PROVE  Outcome
  BY DEF Crash, Outcome, IInv, BlocksInv, TodoInv, RestInv, CheckpointsKept

\* every outcome for a valid block
LEMMA FollowSound ==
  ASSUME ChainAssumption, IInv, NEW p \in Peer, NEW b, NEW h, NEW mem,
         Verified(b, h, mem), FollowBlock(p, b, h, mem)
  PROVE  Outcome
<1>1. CASE Extend(p, b, h, mem)
  BY <1>1, ExtendSound
<1>2. CASE ExistingBlock(p, b, h, mem)
  BY <1>2, ExistingSound
<1>3. CASE ExistingBelowMain(h, mem) \/ ForkWithoutJoin(b, h, mem)
  BY <1>3, CrashSound DEF ExistingBelowMain, ForkWithoutJoin
<1>4. CASE PostponeBlock(p, b, h, mem)
  BY <1>4, PostponeSound
<1>5. CASE IgnoreOldFork(p, b, h, mem)
  BY <1>5, OldForkSound
<1>6. CASE AddFork(p, b, h, mem)
  BY <1>6, ForkSound
<1>7. CASE Reorganize(p, b, h, mem)
  BY <1>7, ReorganizeSound
<1>8. QED
  BY <1>1, <1>2, <1>3, <1>4, <1>5, <1>6, <1>7 DEF FollowBlock

\* the variables that follow a handler's outcome
LEMMA FollowRest ==
  ASSUME NEW p, NEW b, NEW h, NEW mem, FollowBlock(p, b, h, mem)
  PROVE  /\ UNCHANGED <<filterLoaded, saved, rescans, restarts>>
         /\ fault' \in {fault, "noMainBlock", "noJoin"}
  BY DEF FollowBlock, Extend, ExistingBlock, ExistingBelowMain, PostponeBlock, IgnoreOldFork,
         AddFork, Reorganize, ForkWithoutJoin, Settled, Crash

\* the counter of verified blocks stays within its limit
LEMMA PastCountedType ==
  ASSUME ChainAssumption, RestInv, NEW b
  PROVE  PastCounted(b) \in 0 .. PastBlocks
  BY DEF PastCounted, RestInv, ChainAssumption

\* what has been established when a relayed block or orphan passes the checks
LEMMA VerifiedBlock ==
  ASSUME ChainAssumption, CheckpointAssumption, BlocksInv, NEW b \in Block,
         ParentKnown(b), lastBlock \notin Trimmed(b), VerifyBlock(b)
  PROVE  Verified(b, NewHeight(b), Kept(b))
<1>1. NewHeight(b) = Depth[b] /\ NewHeight(b) \in Nat
  BY HeightFromParent DEF BlocksInv
<1>2. \A c \in Checkpoint : Depth[c] = Depth[b] => c = b
  BY <1>1 DEF VerifyBlock
<1>3. QED
  BY <1>1, <1>2, KeptSound DEF Verified

\* a block as it is relayed
LEMMA RelayedIsOrphan ==
  ASSUME ChainAssumption, NEW b \in Block
  PROVE  Relayed(b) \in Orphans
BY DEF Relayed, Orphans, ChainAssumption

\* _peerRelayedBlock preserves the invariant, whatever is relayed
LEMMA HandleBlockSound ==
  ASSUME ChainAssumption, CheckpointAssumption, IInv, NEW p \in Peer,
         NEW o \in Orphans, HandleBlock(p, o)
  PROVE  IInv'
<1>0. o.block \in Block /\ o.height \in Nat \cup {UnknownHeight}
  BY DEF Orphans
<1>1. CASE IgnoreBlock(p)
  <2>1. TodoInv' /\ OrphanMap(orphans)' /\ estimatedHeight' \in Nat
    BY <1>1, DropSound DEF IgnoreBlock, IInv, RestInv
  <2>2. QED
    BY <1>1, <2>1 DEF IgnoreBlock, Settled, IInv, RestInv, BlocksInv, CheckpointsKept
<1>2. CASE AddOrphan(p, o)
  <2>1. CASE o.block \in Stale
    <3>1. TodoInv' /\ OrphanMap(orphans)' /\ estimatedHeight' \in Nat
      BY <1>2, <2>1, DropSound DEF AddOrphan, IInv, RestInv
    <3>2. QED
      BY <1>2, <3>1 DEF AddOrphan, Settled, IInv, RestInv, BlocksInv, CheckpointsKept
  <2>2. CASE o.block \notin Stale
    <3>1. Keep(p, {}, o.block, o.height, Put(orphans, Prev[o.block], o), Empty)
      BY <1>2, <2>2 DEF AddOrphan
    <3>2. OrphanMap(Put(orphans, Prev[o.block], o))
      BY OrphanPut DEF IInv
    <3>3. TodoInv' /\ OrphanMap(orphans)' /\ estimatedHeight' \in Nat
      BY <1>0, <3>1, <3>2, KeepSound, SaveableEmpty DEF IInv, RestInv
    <3>4. QED
      BY <1>2, <3>3 DEF AddOrphan, Settled, IInv, RestInv, BlocksInv, CheckpointsKept
  <2>3. QED
    BY <2>1, <2>2
<1>3. CASE FreeLastBlock(o.block)
  <2>1. Outcome
    BY <1>3, CrashSound DEF FreeLastBlock
  <2>2. QED
    BY <1>3, <2>1 DEF FreeLastBlock, Crash, Outcome, IInv, RestInv
<1>4. CASE /\ ParentKnown(o.block) /\ lastBlock \notin Trimmed(o.block)
           /\ pastCount' = PastCounted(o.block)
           /\ RejectBlock(p, o.block)
  <2>1. BlocksInv'
    BY <1>0, <1>4, KeptSound DEF RejectBlock, IInv, BlocksInv, CheckpointsKept
  <2>2. TodoInv' /\ OrphanMap(orphans)' /\ estimatedHeight' \in Nat
    BY <1>4, DropSound DEF RejectBlock, IInv, RestInv
  <2>3. pastCount' \in 0 .. PastBlocks
    BY <1>4, PastCountedType DEF IInv
  <2>4. QED
    BY <1>4, <2>1, <2>2, <2>3 DEF RejectBlock, Settled, IInv, RestInv
<1>5. CASE /\ ParentKnown(o.block) /\ lastBlock \notin Trimmed(o.block)
           /\ pastCount' = PastCounted(o.block) /\ VerifyBlock(o.block)
           /\ FollowBlock(p, o.block, NewHeight(o.block), Kept(o.block))
  <2>1. Verified(o.block, NewHeight(o.block), Kept(o.block))
    BY <1>0, <1>5, VerifiedBlock DEF IInv
  <2>2. Outcome
    BY <1>5, <2>1, FollowSound
  <2>3. /\ UNCHANGED <<filterLoaded, saved, rescans, restarts>>
        /\ fault' \in {fault, "noMainBlock", "noJoin"}
    BY <1>5, FollowRest
  <2>4. pastCount' \in 0 .. PastBlocks
    BY <1>5, PastCountedType DEF IInv
  <2>5. QED
    BY <2>2, <2>3, <2>4 DEF Outcome, IInv, RestInv
<1>6. QED
  BY <1>1, <1>2, <1>3, <1>4, <1>5 DEF HandleBlock

-----------------------------------------------------------------------------
(* The other steps *)

\* the store holds what a batch brings, and what it had
LEMMA SaveBlocksSound ==
  ASSUME IInv, NEW p \in Peer, SaveBlocks(p)
  PROVE  IInv'
<1> DEFINE batch == todo[p].save
           merged == [x \in DOMAIN batch \cup DOMAIN saved |->
                        IF x \in DOMAIN batch THEN batch[x] ELSE saved[x]]
<1>1. Saveable(batch) /\ Saveable(saved)
  BY DEF IInv, TodoInv
<1>2. Saveable(merged)
  <2> HIDE DEF batch
  <2>1. Sound(merged)
    BY <1>1 DEF Saveable, Sound, Linked, Memory
  <2>2. QED
    BY <1>1, <2>1, MergeStarts DEF Saveable
<1>3. saved' \in {saved, batch, merged}
  BY DEF SaveBlocks
<1>4. Saveable(saved)'
  <2> HIDE DEF batch, merged
  <2> QED BY <1>1, <1>2, <1>3
<1>5. TodoInv'
  <2>1. todo' = [todo EXCEPT ![p] = [save |-> Empty, alive |-> TRUE, next |-> todo[p].next]]
    BY DEF SaveBlocks
  <2>2. ASSUME NEW q \in Peer
        PROVE  /\ Saveable(todo'[q].save)
               /\ todo'[q].alive \in BOOLEAN
               /\ todo'[q].next \in Orphans \cup {NoOrphan}
    <3>1. CASE q = p
      <4>1. todo'[q] = [save |-> Empty, alive |-> TRUE, next |-> todo[p].next]
        BY <2>1, <3>1 DEF IInv, TodoInv
      <4>2. todo'[q].save = Empty /\ todo'[q].alive = TRUE /\ todo'[q].next = todo[p].next
        BY <4>1
      <4>3. QED
        BY <4>2, SaveableEmpty, Zenon DEF IInv, TodoInv
    <3>2. CASE q # p
      <4>1. todo'[q] = todo[q]
        BY <2>1, <3>2 DEF IInv, TodoInv
      <4>2. QED
        BY <4>1 DEF IInv, TodoInv
    <3>3. QED
      BY <3>1, <3>2
  <2>3. QED
    BY <2>1, <2>2 DEF IInv, TodoInv
<1>6. BlocksInv' /\ OrphanMap(orphans)' /\ RestInv'
  BY DEF SaveBlocks, IInv, BlocksInv, CheckpointsKept, RestInv
<1>7. QED
  BY <1>4, <1>5, <1>6 DEF IInv

\* loading or resetting the bloom filter
LEMMA FilterSound ==
  ASSUME ChainAssumption, IInv,
         (\E p \in Peer : SelectDownloadPeer(p)) \/ ResetFilter \/ UpdateFilter
  PROVE  IInv'
<1>1. OrphanMap(Empty)
  BY DEF OrphanMap, Empty
<1>2. CASE \E p \in Peer : SelectDownloadPeer(p)
  <2>1. estimatedHeight' \in Nat
    BY <1>2 DEF SelectDownloadPeer, ChainAssumption
  <2>2. QED
    BY <1>1, <1>2, <2>1 DEF SelectDownloadPeer, LoadBloomFilter, IInv, BlocksInv,
                            CheckpointsKept, TodoInv, RestInv
<1>3. CASE ResetFilter
  BY <1>3 DEF ResetFilter, IInv, BlocksInv, CheckpointsKept, TodoInv, RestInv
<1>4. CASE UpdateFilter
  BY <1>1, <1>4 DEF UpdateFilter, LoadBloomFilter, IInv, BlocksInv, CheckpointsKept, TodoInv,
                    RestInv
<1>5. QED
  BY <1>2, <1>3, <1>4

\* every rescan starts at a block in memory
LEMMA RescanSound ==
  ASSUME ChainAssumption, IInv,
         Rescan \/ RescanFromLastHardcodedCheckpoint
           \/ \E n \in RescanHeights : RescanFromBlockNumber(n)
  PROVE  IInv'
<1>1. \E b \in DOMAIN blocks : RescanFrom(b)
  <2>1. CASE Rescan
    BY <2>1 DEF Rescan, IInv, BlocksInv, CheckpointsKept, ChainAssumption
  <2>2. CASE RescanFromLastHardcodedCheckpoint
    BY <2>2 DEF RescanFromLastHardcodedCheckpoint
  <2>3. CASE \E n \in RescanHeights : RescanFromBlockNumber(n)
    BY <2>3 DEF RescanFromBlockNumber, Branch
  <2>4. QED
    BY <2>1, <2>2, <2>3
<1>2. PICK b \in DOMAIN blocks : RescanFrom(b)
  BY <1>1
<1>3. QED
  BY <1>2 DEF RescanFrom, IInv, BlocksInv, CheckpointsKept, TodoInv, RestInv

\* the checkpoints as BRPeerManagerNew makes them
LEMMA CheckpointsSound ==
  ASSUME ChainAssumption, CheckpointAssumption
  PROVE  Sound(CheckpointBlocks) /\ DOMAIN CheckpointBlocks = Checkpoint
<1>1. \A c \in Checkpoint : /\ c \in Block /\ CheckpointBlocks[c] \in Objects
                            /\ CheckpointBlocks[c].height = Depth[c]
                            /\ CheckpointBlocks[c].prev = NoBlock
  BY DEF ChainAssumption, CheckpointBlocks, Objects
<1>2. DOMAIN CheckpointBlocks = Checkpoint
  BY DEF CheckpointBlocks
<1>3. CheckpointBlocks \in [Checkpoint -> Objects]
  BY <1>1 DEF CheckpointBlocks
<1>4. QED
  BY <1>1, <1>2, <1>3 DEF Sound, Linked, Memory, CheckpointAssumption

\* a thread with nothing left to do
LEMMA IdleSound ==
  Saveable(Idle.save) /\ Idle.alive \in BOOLEAN /\ Idle.next \in Orphans \cup {NoOrphan}
<1>1. Idle.save = Empty /\ Idle.alive = TRUE /\ Idle.next = NoOrphan
  BY DEF Idle
<1>2. QED
  BY <1>1, SaveableEmpty, Zenon

\* what is loaded into memory is sound, and so are the orphans
LEMMA BootSound ==
  ASSUME ChainAssumption, CheckpointAssumption, Sound(saved),
         NEW C, C \subseteq DOMAIN saved, NEW R, R \subseteq DOMAIN saved, Boot(C, R)
  PROVE  Sound(blocks)' /\ DOMAIN blocks' = Checkpoint \cup C /\ OrphanMap(orphans)'
<1>1. blocks' = [x \in Checkpoint \cup C |-> IF x \in C THEN saved[x] ELSE CheckpointBlocks[x]]
  BY DEF Boot
<1>2. Sound(blocks)' /\ DOMAIN blocks' = Checkpoint \cup C
  BY <1>1, CheckpointsSound DEF Sound, Linked, Memory
<1> DEFINE K == {saved[x].prev : x \in R}
           at(k) == CHOOSE y \in R : saved[y].prev = k
<1>3. orphans' = [k \in K |-> [block |-> at(k), height |-> saved[at(k)].height]]
  BY Zenon DEF Boot
<1>4. \A k \in K : at(k) \in R
  OBVIOUS
<1>5. K \subseteq Block \cup {NoBlock}
  BY DEF Sound, Linked, Memory, Objects
<1>6. \A y \in R : [block |-> y, height |-> saved[y].height] \in Orphans
  BY DEF Sound, Linked, Memory, Objects, Orphans
<1>7. OrphanMap(orphans)'
  <2> HIDE DEF K, at
  <2>1. \A k \in K : [block |-> at(k), height |-> saved[at(k)].height] \in Orphans
    BY <1>4, <1>6
  <2>2. QED
    BY <1>3, <1>5, <2>1 DEF OrphanMap
<1>8. QED
  BY <1>2, <1>7

\* a restart rebuilds memory from the store and the checkpoints
LEMMA RestartSound ==
  ASSUME ChainAssumption, CheckpointAssumption, IInv, Restart
  PROVE  IInv'
<1>1. PICK S \in SUBSET DOMAIN saved :
        \/ Boot({}, S) /\ lastBlock' = StartPoint
        \/ \E s \in StartBlocks :
              LET C == ChainFrom(S, s) IN
              /\ Boot(C, {x \in S : saved[x].prev \notin {saved[y].prev : y \in C}})
              /\ lastBlock' \in {x \in C : \A y \in C : saved[y].height <= saved[x].height}
  BY Zenon DEF Restart
<1>2. BlocksInv' /\ OrphanMap(orphans)'
  <2>1. CASE Boot({}, S) /\ lastBlock' = StartPoint
    BY <2>1, BootSound DEF IInv, Saveable, BlocksInv, CheckpointsKept, ChainAssumption
  <2>2. ASSUME NEW s \in StartBlocks, NEW C, C = ChainFrom(S, s),
               Boot(C, {x \in S : saved[x].prev \notin {saved[y].prev : y \in C}}),
               lastBlock' \in C
        PROVE  BlocksInv' /\ OrphanMap(orphans)'
    <3>1. C \subseteq DOMAIN saved
      BY <2>2 DEF ChainFrom, StartBlocks
    <3> DEFINE R == {x \in S : saved[x].prev \notin {saved[y].prev : y \in C}}
    <3>2. R \subseteq DOMAIN saved /\ Boot(C, R)
      BY <2>2
    <3>3. Sound(blocks)' /\ DOMAIN blocks' = Checkpoint \cup C /\ OrphanMap(orphans)'
      <4> HIDE DEF R
      <4> QED BY <3>1, <3>2, BootSound DEF IInv, Saveable
    <3>4. QED
      BY <2>2, <3>3 DEF BlocksInv, CheckpointsKept
  <2>3. QED
    BY <1>1, <2>1, <2>2
<1>3. TodoInv'
  <2>1. todo' = [p \in Peer |-> Idle]
    BY DEF Restart
  <2>2. QED
    BY <2>1, IdleSound DEF TodoInv
<1>4. RestInv'
  <2>1. filterLoaded' \in BOOLEAN
    BY Zenon DEF Restart
  <2>2. /\ estimatedHeight' = 0 /\ pastCount' = 0 /\ fault' = "none"
        /\ txHeight' = txHeight /\ rescans' = rescans /\ restarts' = restarts + 1
    BY Zenon DEF Restart
  <2>3. QED
    BY <2>1, <2>2 DEF IInv, RestInv, ChainAssumption
<1>5. Saveable(saved)'
  BY DEF Restart, IInv
<1>6. QED
  BY <1>2, <1>3, <1>4, <1>5 DEF IInv

-----------------------------------------------------------------------------
(* The theorems *)

\* the initial state of the program
LEMMA InitSound ==
  ASSUME ChainAssumption, CheckpointAssumption, Init
  PROVE  IInv
<1>1. BlocksInv
  BY CheckpointsSound DEF Init, BlocksInv, CheckpointsKept, ChainAssumption
<1>2. OrphanMap(orphans) /\ Saveable(saved)
  BY SaveableEmpty DEF Init, OrphanMap, Empty
<1>3. TodoInv
  <2>1. todo = [p \in Peer |-> Idle]
    BY DEF Init
  <2>2. QED
    BY <2>1, IdleSound DEF TodoInv
<1>4. RestInv
  <2>1. filterLoaded \in BOOLEAN
    BY Zenon DEF Init
  <2>2. txHeight \in [Tx -> Nat \cup {Unconfirmed}]
    BY DEF Init
  <2>3. QED
    BY <2>1, <2>2 DEF Init, RestInv, ChainAssumption
<1>5. QED
  BY <1>1, <1>2, <1>3, <1>4 DEF IInv

\* IInv is inductive
LEMMA NextSound ==
  ASSUME ChainAssumption, CheckpointAssumption, IInv, [Next]_vars
  PROVE  IInv'
<1>1. ASSUME NEW p \in Peer, NEW b \in Block, RelayedBlock(p, b)
      PROVE  IInv'
  <2>1. Relayed(b) \in Orphans
    BY RelayedIsOrphan, ChainAssumption
  <2>2. QED
    BY <1>1, <2>1, HandleBlockSound DEF RelayedBlock
<1>2. ASSUME NEW p \in Peer, NextOrphan(p)
      PROVE  IInv'
  <2>1. todo[p].next \in Orphans
    BY <1>2 DEF NextOrphan, IInv, TodoInv
  <2>2. QED
    BY <1>2, <2>1, HandleBlockSound DEF NextOrphan
<1>3. ASSUME NEW p \in Peer, SaveBlocks(p)
      PROVE  IInv'
  BY <1>3, SaveBlocksSound
<1>4. CASE (\E p \in Peer : SelectDownloadPeer(p)) \/ ResetFilter \/ UpdateFilter
  BY <1>4, FilterSound
<1>5. CASE Rescan \/ RescanFromLastHardcodedCheckpoint
             \/ \E n \in RescanHeights : RescanFromBlockNumber(n)
  BY <1>5, RescanSound
<1>6. CASE Restart
  BY <1>6, RestartSound
<1>7. CASE UNCHANGED vars
  BY <1>7 DEF vars, IInv, BlocksInv, CheckpointsKept, TodoInv, RestInv
<1>8. QED
  BY <1>1, <1>2, <1>3, <1>4, <1>5, <1>6, <1>7 DEF Next

\* IInv holds throughout: every block in memory, in a batch on its way to saveBlocks
\* and in the store is sound, and the tip is in memory.
THEOREM Invariance == Spec => []IInv
<1>1. Init => IInv
  BY InitSound, ChainAssumption, CheckpointAssumption
<1>2. IInv /\ [Next]_vars => IInv'
  BY NextSound, ChainAssumption, CheckpointAssumption
<1>3. QED
  BY <1>1, <1>2, PTL DEF Spec

\* Every variable keeps its type; lastBlock is never NULL, although trimming frees
\* blocks and a rescan looks its start up in memory.
THEOREM TypeCorrect == Spec => []TypeOK
<1>1. IInv => TypeOK
  <2> SUFFICES ASSUME IInv PROVE TypeOK
    OBVIOUS
  <2>1. Memory(blocks) /\ Memory(saved) /\ lastBlock \in Block
    BY DEF IInv, BlocksInv, Saveable, Sound, Linked, Memory
  <2>2. \A p \in Peer : Memory(todo[p].save)
    BY DEF IInv, TodoInv, Saveable, Sound, Linked
  <2>3. QED
    BY <2>1, <2>2 DEF IInv, OrphanMap, TodoInv, RestInv, TypeOK
<1>2. QED
  BY <1>1, Invariance, PTL

\* Blocks in memory and in the store have their true heights.
THEOREM HeightsAreCorrect == Spec => []HeightsCorrect
<1>1. IInv => HeightsCorrect
  BY DEF IInv, BlocksInv, Saveable, Sound, Linked, HeightsCorrect
<1>2. QED
  BY <1>1, Invariance, PTL

\* The trimming of _PeerManagerVerifyBlock never frees a checkpoint.
THEOREM CheckpointsAreKept == Spec => []CheckpointsKept
<1>1. IInv => CheckpointsKept
  BY DEF IInv, BlocksInv
<1>2. QED
  BY <1>1, Invariance, PTL

\* No block in memory stands in the place of a checkpoint.
THEOREM CheckpointsAreRespected == Spec => []CheckpointsRespected
<1>1. IInv => CheckpointsRespected
  BY DEF IInv, BlocksInv, Sound, Linked, CheckpointsRespected
<1>2. QED
  BY <1>1, Invariance, PTL

\* The store starts at a difficulty transition, whichever threads' batches reach it
\* and in whatever order: every batch does, as the walk it is cut from misses no
\* height, and a single block that is added is a transition itself.
THEOREM StoreStartsOnTransition == Spec => []SavedFromTransition
<1>1. IInv => SavedFromTransition
  <2> SUFFICES ASSUME IInv, DOMAIN saved # {}
               PROVE  Lowest(saved, DOMAIN saved) % Interval = 0
    BY DEF SavedFromTransition
  <2>1. Sound(saved) /\ StartsOnTransition(saved)
    BY DEF IInv, Saveable
  <2>2. PICK x \in DOMAIN saved : /\ saved[x].height % Interval = 0
                                  /\ \A y \in DOMAIN saved : saved[x].height <= saved[y].height
    BY <2>1 DEF StartsOnTransition
  <2>3. \A y \in DOMAIN saved : saved[y].height \in Nat
    BY <2>1 DEF Sound, Linked, Memory, Objects
  <2>4. Lowest(saved, DOMAIN saved) = saved[x].height
    BY <2>2, <2>3, LowestEquals
  <2>5. QED
    BY <2>2, <2>4
<1>2. QED
  BY <1>1, Invariance, PTL

\* The tip after a handler of _peerRelayedBlock is the old one or a higher block.
LEMMA HandleBlockMovesForward ==
  ASSUME ChainAssumption, CheckpointAssumption, IInv, NEW p \in Peer,
         NEW o \in Orphans, HandleBlock(p, o)
  PROVE  lastBlock' = lastBlock \/ Depth[lastBlock'] > Depth[lastBlock]
<1> DEFINE b == o.block  h == NewHeight(b)  mem == Kept(b)
<1>1. b \in Block
  BY DEF Orphans
<1>2. lastBlock \in Block /\ LastHeight = Depth[lastBlock] /\ Depth[lastBlock] \in Nat
  BY DEF IInv, BlocksInv, Sound, Linked, Memory, LastHeight, ChainAssumption
<1>3. CASE lastBlock' = lastBlock
  BY <1>3
<1>4. CASE lastBlock' # lastBlock
  <2>1. ParentKnown(b) /\ (Extend(p, b, h, mem) \/ Reorganize(p, b, h, mem))
    BY <1>4 DEF HandleBlock, IgnoreBlock, AddOrphan, FreeLastBlock, RejectBlock, FollowBlock,
                ExistingBlock, ExistingBelowMain, PostponeBlock, IgnoreOldFork, AddFork,
                ForkWithoutJoin, Crash
  <2>2. h = Depth[b] /\ h \in Nat
    BY <1>1, <2>1, HeightFromParent DEF IInv, BlocksInv
  <2>3. CASE Extend(p, b, h, mem)
    <3>1. Prev[b] = lastBlock /\ lastBlock' = b
      BY <2>3 DEF Extend
    <3>2. Depth[b] = Depth[lastBlock] + 1
      BY <1>1, <1>2, <3>1 DEF ChainAssumption
    <3>3. QED
      BY <1>2, <3>1, <3>2
  <2>4. CASE Reorganize(p, b, h, mem)
    BY <1>2, <2>2, <2>4 DEF Reorganize, Longer
  <2>5. QED
    BY <2>1, <2>3, <2>4
<1>5. QED
  BY <1>3, <1>4

\* The tip only moves to a higher block, unless the user rescans or restarts: a fork
\* of the same length, an orphan processed late or a block relayed twice never sets
\* it back.
THEOREM TipMovesForward == Spec => MovesForward
<1> DEFINE Forward == \/ lastBlock' = lastBlock
                      \/ Depth[lastBlock'] > Depth[lastBlock]
                      \/ rescans' # rescans \/ restarts' # restarts
<1>1. ASSUME IInv, Next PROVE Forward
  <2>1. ASSUME NEW p \in Peer, NEW b \in Block, RelayedBlock(p, b)
        PROVE  Forward
    <3>1. Relayed(b) \in Orphans
      BY RelayedIsOrphan, ChainAssumption
    <3>2. QED
      BY <1>1, <2>1, <3>1, HandleBlockMovesForward, ChainAssumption, CheckpointAssumption
         DEF RelayedBlock
  <2>2. ASSUME NEW p \in Peer, NextOrphan(p)
        PROVE  Forward
    <3>1. todo[p].next \in Orphans
      BY <1>1, <2>2 DEF NextOrphan, IInv, TodoInv
    <3>2. QED
      BY <1>1, <2>2, <3>1, HandleBlockMovesForward, ChainAssumption, CheckpointAssumption
         DEF NextOrphan
  <2>3. CASE \/ \E p \in Peer : SaveBlocks(p) \/ SelectDownloadPeer(p)
             \/ ResetFilter \/ UpdateFilter
    BY <2>3 DEF SaveBlocks, SelectDownloadPeer, ResetFilter, UpdateFilter
  <2>4. CASE \/ Rescan \/ RescanFromLastHardcodedCheckpoint
             \/ \E n \in RescanHeights : RescanFromBlockNumber(n)
    <3>1. rescans' = rescans + 1
      BY <2>4 DEF Rescan, RescanFromLastHardcodedCheckpoint, RescanFromBlockNumber, RescanFrom
    <3>2. QED
      BY <1>1, <3>1 DEF IInv, RestInv
  <2>5. CASE Restart
    BY <1>1, <2>5 DEF Restart, IInv, RestInv
  <2>6. QED
    BY <1>1, <2>1, <2>2, <2>3, <2>4, <2>5 DEF Next
<1>2. IInv /\ [Next]_vars => [Forward]_vars
  BY <1>1
<1>3. QED
  BY <1>2, Invariance, PTL DEF Spec, MovesForward
=============================================================================
