---------------------------- MODULE AbstractSet ----------------------------
(***************************************************************************)
(* What the functions of BRSet.h promise, with no hash table: a set holds   *)
(* at most one item of each equivalence class of eq().  contents[s] is the  *)
(* set of items held by s, call the last call made, ret what it returned.   *)
(***************************************************************************)
EXTENDS Naturals, FiniteSets

CONSTANTS SetName,    \* the BRSet pointers in use
          Item,       \* the item pointers
          KeyOf,      \* eq(a, b) compares KeyOf[a] with KeyOf[b]
          NULL        \* the null pointer

VARIABLES contents, call, ret

avars == <<contents, call, ret>>

\* The member of A that eq() takes for item, or NULL.
Member(A, item) ==
    LET same == {a \in A : KeyOf[a] = KeyOf[item]}
    IN  IF same = {} THEN NULL ELSE CHOOSE a \in same : TRUE

\* The members of A without an equivalent in B, and those with one.
Without(A, B) == {a \in A : Member(B, a) = NULL}
Within(A, B)  == A \ Without(A, B)

AInit == contents = [s \in SetName |-> {}] /\ call = NULL /\ ret = NULL

\* A call on s with argument arg leaves A in s and returns r.
Result(name, s, arg, A, r) ==
    /\ call' = <<name, s, arg>>
    /\ contents' = [contents EXCEPT ![s] = A]
    /\ ret' = r

ANext ==
    \/ \E s \in SetName, i \in Item :
          LET A == contents[s]
              m == Member(A, i)
          IN  \/ Result("add", s, i, Without(A, {i}) \cup {i}, m)
              \/ Result("remove", s, i, Without(A, {i}), m)
              \/ Result("get", s, i, A, m)
    \/ \E s \in SetName :
          \/ Result("clear", s, NULL, {}, NULL)
          \/ Result("count", s, NULL, contents[s], Cardinality(contents[s]))
    \/ \E s, o \in SetName :
          LET A == contents[s]
              B == contents[o]
          IN  \/ Result("union", s, o, Without(A, B) \cup B, NULL)
              \/ Result("minus", s, o, Without(A, B), NULL)
              \/ Result("intersect", s, o, Within(A, B), NULL)
              \/ Result("intersects", s, o, A, Within(A, B) # {})

ASpec == AInit /\ [][ANext]_avars
=============================================================================
