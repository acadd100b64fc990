------------------------------ MODULE MCWallet ------------------------------
(***************************************************************************)
(* A wallet with a payment A, two transactions B and C that both spend it, *)
(* a time-locked D that spends the change of B, and an unrelated payment E.*)
(***************************************************************************)
EXTENDS Wallet

Pay(a, n) == [addr |-> a, amount |-> n]

MCTx == {"A", "B", "C", "D", "E"}

\* without the unrelated payment
MCTxChain == MCTx \ {"E"}

MCIns == [t \in Tx |->
  CASE t = "A" -> {<<"elsewhere", 0>>}
    [] t = "B" -> {<<"A", 0>>}
    [] t = "C" -> {<<"A", 0>>}
    [] t = "D" -> {<<"B", 1>>}
    [] t = "E" -> {<<"elsewhere", 1>>}]

MCOuts == [t \in Tx |->
  CASE t = "A" -> <<Pay(<<"external", 0>>, 5)>>
    [] t = "B" -> <<Pay(<<"other", 0>>, 2), Pay(<<"internal", 0>>, 3)>>
    [] t = "C" -> <<Pay(<<"other", 1>>, 5)>>
    [] t = "D" -> <<Pay(<<"external", 0>>, 3)>>
    [] t = "E" -> <<Pay(NoAddr, 0), Pay(<<"external", 2>>, 7)>>]

\* D is locked until height 9, C until the second tick of the clock
MCLockTime == [t \in Tx |-> IF t = "D" THEN 9 ELSE IF t = "C" THEN MaxLockHeight + 1 ELSE 0]

MCGap == [c \in Chains |-> 1]

MCOldWallet == {[rows |-> <<[tx |-> "A", height |-> 1]>>, chain |-> <<{"A"}>>]}

\* A stop between the row updates of a reorganisation: A is unconfirmed already, C
\* that spends it not yet.  C is the wallet's for that alone, and comes first.
MCTornWallet == {[rows |-> <<[tx |-> "C", height |-> 1], [tx |-> "A", height |-> Unconfirmed]>>,
                  chain |-> <<>>]}

\* a new wallet, or one whose database holds the payment A, confirmed
MCSaved == {[rows |-> <<>>, chain |-> <<>>]} \cup MCOldWallet

\* the same, or one that was stopped in a reorganisation
MCSavedTorn == MCSaved \cup MCTornWallet
=============================================================================
