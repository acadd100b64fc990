------------------------------ MODULE MCBRSet ------------------------------
(* Two sets over three keys, one of them with two equivalent items.  In a  *)
(* table of 7 two keys share bucket 5 and the third is at home in bucket 6, *)
(* so that runs wrap round; a third item makes a table of 3 grow.           *)
EXTENDS BRSet, TLC

CONSTANTS s1, s2, ia, ia2, ib, ic

MCSetName == {s1, s2}
MCItem == {ia, ia2, ib, ic}
MCKeyOf == (ia :> "a") @@ (ia2 :> "a") @@ (ib :> "b") @@ (ic :> "c")
MCHashOf == [k \in {"a", "b", "c"} |->
               CASE k = "a" -> 6 [] k = "b" -> 12 [] k = "c" -> 5]
MCTableSizes == <<1, 3, 7>>
MCCapacity == (s1 :> 0) @@ (s2 :> 3)
=============================================================================
