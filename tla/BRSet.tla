------------------------------- MODULE BRSet -------------------------------
(***************************************************************************)
(* The hash set of src/Modules/core/BRSet.c: open addressing with linear    *)
(* probing, growth at a load factor of about 2/3, and deletion that takes   *)
(* out and re-adds every item of the run behind the removed one.  Blocks,   *)
(* orphans, transactions, spent outputs and addresses all live in such      *)
(* sets, so a lost item here is a lost transaction or block there.          *)
(*                                                                          *)
(* A set is a record of size, table (bucket -> item or NULL) and itemCount. *)
(* A probe loop is modelled by the bucket it ends at, a loop over buckets   *)
(* by a recursive function of its turns.                                    *)
(***************************************************************************)
EXTENDS Naturals, FiniteSets, Sequences

CONSTANTS SetName,     \* the sets in use
          Item,        \* item pointers
          KeyOf,       \* what eq() compares
          HashOf,      \* hash() of each key, before % size
          TableSizes,  \* tableSizes[], as far as the instance can grow
          Capacity,    \* the capacity each set is created with
          NULL

\* "limit load factor to 2/3": the item count above which a table grows.
Threshold(size) == ((size + 2) \div 3) * 2

\* The array tableSizes: the sizes grow, and (the first is never used) a table at
\* its threshold has an empty bucket.
ASSUME SizesAssumption ==
    /\ TableSizes \in Seq(Nat \ {0})
    /\ \A m, n \in DOMAIN TableSizes : m < n => TableSizes[m] < TableSizes[n]
    /\ \A n \in 2 .. Len(TableSizes) : Threshold(TableSizes[n]) < TableSizes[n]
    \* a table that has just grown takes all its items without growing again
    /\ \A n \in 2 .. Len(TableSizes) - 1 :
          Threshold(TableSizes[n]) < Threshold(TableSizes[n + 1])

\* Memory ends before the last table size is outgrown.
ASSUME CapacityAssumption ==
    /\ Len(TableSizes) >= 2
    /\ Capacity \in [SetName -> 0 .. TableSizes[Len(TableSizes) - 1]]
    /\ IsFiniteSet(Item) /\ Cardinality(Item) <= Threshold(TableSizes[Len(TableSizes)])

ASSUME KeyAssumption ==
    /\ NULL \notin Item
    /\ \A i \in Item : HashOf[KeyOf[i]] \in Nat

VARIABLES sets,   \* [SetName -> set record]
          call,   \* the last call, as <<name, set, argument>>
          ret     \* what it returned

vars == <<sets, call, ret>>

Eq(a, b) == KeyOf[a] = KeyOf[b]

-----------------------------------------------------------------------------
(* The table.                                                               *)

\* _SetInit: the size after the first one that holds capacity.
InitSize(capacity) ==
    LET n == CHOOSE n \in DOMAIN TableSizes :
                /\ TableSizes[n] >= capacity
                /\ \A m \in 1 .. n - 1 : TableSizes[m] < capacity
    IN  TableSizes[n + 1]

\* mutant: the buckets are numbered from 1
SetInit_FromOne(capacity) ==
    [size |-> InitSize(capacity),
     table |-> [b \in 1 .. InitSize(capacity) |-> NULL],
     itemCount |-> 0]

SetInit(capacity) ==
    [size |-> InitSize(capacity),
     table |-> [b \in 0 .. InitSize(capacity) - 1 |-> NULL],
     itemCount |-> 0]

\* Where the probe for item ends: the first bucket, from the hash on, that is
\* empty or holds an equivalent.
Probe(set, item) ==
    LET home == HashOf[KeyOf[item]] % set.size
        At(k) == (home + k) % set.size
        Stops(k) == \/ set.table[At(k)] = NULL
                    \/ Eq(set.table[At(k)], item)
    IN  At(CHOOSE k \in 0 .. set.size - 1 : Stops(k) /\ \A j \in 0 .. k - 1 : ~Stops(j))

Place(set, item) ==
    LET b == Probe(set, item)
    IN  [set EXCEPT !.table[b] = item,
                    !.itemCount = IF set.table[b] = NULL THEN @ + 1 ELSE @]

\* _SetGrow: a new table of the next size takes the items in bucket order.  Its
\* BRSetAdd never grows in turn (SizesAssumption), so it is Place.
SetGrow(set, capacity) ==
    LET after[n \in 0 .. set.size] ==
            IF n = 0 THEN SetInit(capacity)
            ELSE LET t == set.table[n - 1]
                 IN  IF t = NULL THEN after[n - 1] ELSE Place(after[n - 1], t)
    IN  after[set.size]

SetAdd(set, item) ==
    LET placed == Place(set, item)
    IN  IF placed.itemCount > Threshold(set.size)
        THEN SetGrow(placed, set.size) ELSE placed

\* The item of bucket b is taken out.
Take(set, b) == [set EXCEPT !.table[b] = NULL, !.itemCount = @ - 1]

\* One turn of the cleanup loop of BRSetRemove: the item of bucket b, if there
\* is one, is taken out and added again; an empty bucket ends the loop.
Cleanup(acc, b) ==
    LET t == acc.set.table[b]
    IN  IF acc.done \/ t = NULL THEN [acc EXCEPT !.done = TRUE]
        ELSE [acc EXCEPT !.set = SetAdd(Take(@, b), t)]

\* mutant: the run behind the removed item stays where it is
SetRemove_NoCleanup(set, item) ==
    LET b == Probe(set, item)
    IN  IF set.table[b] = NULL THEN set ELSE Take(set, b)

SetRemove(set, item) ==
    LET b == Probe(set, item)
        after[k \in 0 .. set.size - 1] ==
            IF k = 0 THEN [set |-> Take(set, b), done |-> FALSE]
            ELSE Cleanup(after[k - 1], (b + k) % set.size)
    IN  IF set.table[b] = NULL THEN set ELSE after[set.size - 1].set

SetGet(set, item) == set.table[Probe(set, item)]

SetContains(set, item) == SetGet(set, item) # NULL

SetIntersects(set, other) ==
    \E b \in 0 .. other.size - 1 :
        other.table[b] # NULL /\ SetContains(set, other.table[b])

SetUnion(set, other) ==
    LET after[n \in 0 .. other.size] ==
            IF n = 0 THEN set
            ELSE LET t == other.table[n - 1]
                 IN  IF t = NULL THEN after[n - 1] ELSE SetAdd(after[n - 1], t)
    IN  after[other.size]

SetMinus(set, other) ==
    LET after[n \in 0 .. other.size] ==
            IF n = 0 THEN set
            ELSE LET t == other.table[n - 1]
                 IN  IF t = NULL THEN after[n - 1] ELSE SetRemove(after[n - 1], t)
    IN  after[other.size]

\* mutant: goes on to the next bucket after a removal
SetIntersect_Advance(set, other) ==
    LET Turn(acc, b) ==
            LET t == acc.table[b]
            IN  IF t # NULL /\ ~SetContains(other, t) THEN SetRemove(acc, t) ELSE acc
        after[n \in 0 .. set.size] == IF n = 0 THEN set ELSE Turn(after[n - 1], n - 1)
    IN  after[set.size]

\* One turn of the loop of BRSetIntersect.  It looks at a bucket again after it
\* removed its item, because the cleanup may have moved another one there.
IntersectTurn(acc, other) ==
    LET t == acc.set.table[acc.b]
    IN  IF acc.b = acc.set.size THEN acc
        ELSE IF t # NULL /\ ~SetContains(other, t)
        THEN [acc EXCEPT !.set = SetRemove(@, t)]
        ELSE [acc EXCEPT !.b = @ + 1]

\* Every turn goes on to the next bucket or removes an item, which bounds them.
SetIntersect(set, other) ==
    LET after[n \in 0 .. 2 * set.size] ==
            IF n = 0 THEN [set |-> set, b |-> 0] ELSE IntersectTurn(after[n - 1], other)
    IN  after[2 * set.size].set

\* mutant: starts at the bucket of previous, not behind it
Iterate_Stuck(set, previous) ==
    LET from == IF previous = NULL THEN 0 ELSE Probe(set, previous)
        rest == {b \in from .. set.size - 1 : set.table[b] # NULL}
    IN  IF rest = {} THEN NULL
        ELSE set.table[CHOOSE b \in rest : \A c \in rest : b <= c]

\* BRSetIterate: the first item behind the bucket the probe for previous ends at.
Iterate(set, previous) ==
    LET from == IF previous = NULL THEN 0 ELSE Probe(set, previous) + 1
        rest == {b \in from .. set.size - 1 : set.table[b] # NULL}
    IN  IF rest = {} THEN NULL
        ELSE set.table[CHOOSE b \in rest : \A c \in rest : b <= c]

-----------------------------------------------------------------------------
(* One action per function of BRSet.h.                                      *)

Init ==
    /\ sets = [s \in SetName |-> SetInit(Capacity[s])]
    /\ call = NULL
    /\ ret = NULL

Changes(name, s, arg, set, r) ==
    /\ sets' = [sets EXCEPT ![s] = set]
    /\ call' = <<name, s, arg>>
    /\ ret' = r

BRSetAdd(s, i)    == Changes("add", s, i, SetAdd(sets[s], i), SetGet(sets[s], i))
BRSetRemove(s, i) == Changes("remove", s, i, SetRemove(sets[s], i), SetGet(sets[s], i))
BRSetGet(s, i)    == Changes("get", s, i, sets[s], SetGet(sets[s], i))
BRSetCount(s)     == Changes("count", s, NULL, sets[s], sets[s].itemCount)

BRSetClear(s) ==
    Changes("clear", s, NULL,
            [sets[s] EXCEPT !.table = [b \in DOMAIN @ |-> NULL], !.itemCount = 0], NULL)

BRSetUnion(s, o)      == Changes("union", s, o, SetUnion(sets[s], sets[o]), NULL)
BRSetMinus(s, o)      == Changes("minus", s, o, SetMinus(sets[s], sets[o]), NULL)
BRSetIntersect(s, o)  == Changes("intersect", s, o, SetIntersect(sets[s], sets[o]), NULL)
BRSetIntersects(s, o) == Changes("intersects", s, o, sets[s], SetIntersects(sets[s], sets[o]))

Next ==
    \/ \E s \in SetName, i \in Item :
          BRSetAdd(s, i) \/ BRSetRemove(s, i) \/ BRSetGet(s, i)
    \/ \E s \in SetName : BRSetCount(s) \/ BRSetClear(s)
    \/ \E s \in SetName : \E o \in SetName \ {s} :
          \/ BRSetUnion(s, o) \/ BRSetMinus(s, o)
          \/ BRSetIntersect(s, o) \/ BRSetIntersects(s, o)

Spec == Init /\ [][Next]_vars

-----------------------------------------------------------------------------
(* Properties.                                                              *)

Contents(set) == {set.table[b] : b \in DOMAIN set.table} \ {NULL}

\* Every set is a table of one of the sizes, but not the first, with one bucket per
\* index.
TypeOK ==
    \A s \in SetName :
        /\ sets[s].size \in {TableSizes[n] : n \in 2 .. Len(TableSizes)}
        /\ sets[s].table \in [0 .. sets[s].size - 1 -> Item \cup {NULL}]
        /\ sets[s].itemCount \in 0 .. sets[s].size

\* No probe runs for ever or misses its item: between calls every table has an
\* empty bucket, and every item is the one its own probe ends at, whatever was
\* removed from the run of buckets before it (BRSet.c:94, 115, 126, 188).
ProbesEnd ==
    \A s \in SetName :
        /\ \E b \in DOMAIN sets[s].table : sets[s].table[b] = NULL
        /\ \A i \in Contents(sets[s]) : SetGet(sets[s], i) = i

\* Following BRSetIterate from NULL gives as many items as BRSetCount says, all of the
\* set's, and then NULL (BRSet.c:198-219): none is skipped and none comes twice.
IterationComplete ==
    \A s \in SetName :
        LET count == sets[s].itemCount
            visit[n \in 0 .. count] ==
                Iterate(sets[s], IF n = 0 THEN NULL ELSE visit[n - 1])
        IN  /\ {visit[n] : n \in 0 .. count - 1} = Contents(sets[s])
            /\ visit[count] = NULL
            /\ count = Cardinality(Contents(sets[s]))

\* The table implements a set: read through Contents, every call of BRSet.h does
\* and returns what AbstractSet says (BRSet.h:29-67).
Abstract == INSTANCE AbstractSet WITH contents <- [s \in SetName |-> Contents(sets[s])]

ImplementsSet == Abstract!ASpec

=============================================================================
