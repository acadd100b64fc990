-------------------------- MODULE PublishPromise --------------------------
(***************************************************************************)
(* What BRPeerManagerPublishTx promises its caller: for a transaction it is *)
(* given, the callback is called at most once, and as long as it has not    *)
(* been called somebody still holds it.  The Swift wrapper passes the       *)
(* completion handler as a retained pointer and releases it in the callback *)
(* (src/ravenwallet/src/BRCore.swift:793-801), so a second call would       *)
(* release it twice and a lost one would leak it and leave the user waiting.*)
(***************************************************************************)
CONSTANT Tx

VARIABLE stage

PInit == stage = [t \in Tx |-> "idle"]

Advance(t, from, to) == stage[t] = from /\ stage' = [stage EXCEPT ![t] = to]

Asked(t)    == Advance(t, "idle", "waiting")
Answered(t) == Advance(t, "waiting", "called")

PNext == \E t \in Tx : Asked(t) \/ Answered(t)

PSpec == PInit /\ [][PNext]_stage
=============================================================================
