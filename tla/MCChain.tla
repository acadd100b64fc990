------------------------------ MODULE MCChain -------------------------------
(* Small block trees for Chain. *)
EXTENDS Chain, TLC

CONSTANTS g0, a1, a2, a3, a4, a5, b3, b4, b5, x2, none, t1, t2, t3, p, q

Shape == g0 :> <<none, 0>> @@ a1 :> <<g0, 1>> @@ a2 :> <<a1, 2>> @@ a3 :> <<a2, 3>>
     @@ a4 :> <<a3, 4>> @@ a5 :> <<a4, 5>> @@ b3 :> <<a2, 3>> @@ b4 :> <<b3, 4>>
     @@ b5 :> <<b4, 5>> @@ x2 :> <<a1, 2>>

\* the part of the tree an instance takes
MCPrev == [b \in Block |-> IF Shape[b][1] \in Block THEN Shape[b][1] ELSE none]

MCDepth == [b \in Block |-> Shape[b][2]]

\* t1 is mined on every branch, t2 on one
MCTxOf == [b \in Block |-> IF b = a3 THEN {t1, t2} ELSE IF b = b4 THEN {t1} ELSE {}]

\* t1 is mined on both branches, t2 below the block where they join, t3 on one branch
MCTxOfDGW == a2 :> {t2} @@ a3 :> {t1, t3} @@ b4 :> {t1} @@ [b \in Block |-> {}]

\* q has no more than the genesis block
MCPeerHeight == p :> 4 @@ q :> 0

MCPeerHeightLow == p :> 4 @@ q :> 3
=============================================================================
