----------------------------- MODULE ChainFresh -----------------------------
(***************************************************************************)
(* Proofs about Chain, for every block tree, in a process that has neither *)
(* rescanned nor restarted.                                                *)
(*                                                                         *)
(* First, no orphan is left behind.  An orphan is taken out when its       *)
(* parent is kept by the handler.  Blocks that are in memory without       *)
(* having been relayed are checkpoints above the tip, and a chain that is  *)
(* built on one of those could overtake the tip and leave orphans below    *)
(* it.  The invariant shows that it cannot: a checkpoint above the tip has *)
(* no parent in memory, so the walk to the join of such a fork fails.      *)
(*                                                                         *)
(* Then, every transaction of the main chain is confirmed at the height of *)
(* its block.  A reorganisation must find the join of the branches and all *)
(* blocks of the new one above it in memory: it does if no difficulty      *)
(* interval reaches past the last checkpoint, since forks start above that *)
(* one and nothing there is trimmed.                                       *)
(***************************************************************************)
EXTENDS ChainProofs

\* no orphan waits for a block of a chain
Waiting == \A k \in DOMAIN orphans \cap DOMAIN blocks : Depth[k] > Depth[lastBlock]

\* above the tip there are checkpoints only, as BRPeerManagerNew made them
AboveTip ==
  \A x \in DOMAIN blocks :
    Depth[x] > Depth[lastBlock] => x \in Checkpoint /\ blocks[x].prev = NoBlock

\* below the last checkpoint there are no forks: the tip is alone at its height
TipAlone ==
  \A x \in DOMAIN blocks :
    Depth[x] = Depth[lastBlock] /\ Depth[lastBlock] < Depth[LastCheckpoint] => x = lastBlock

Fresh == Waiting /\ AboveTip /\ TipAlone

\* the inductive invariant, on top of IInv
FreshInv == rescans = 0 /\ restarts = 0 => Fresh

-----------------------------------------------------------------------------
(* Facts *)

LEMMA LastCheckpointIs ==
  ASSUME CheckpointAssumption
  PROVE  LastCheckpoint \in Checkpoint /\ \A d \in Checkpoint : Depth[d] <= Depth[LastCheckpoint]
  BY DEF CheckpointAssumption, LastCheckpoint

\* the orphan that waited for a kept block has been taken out
LEMMA KeepTakesOrphan ==
  ASSUME NEW p, NEW freed, NEW b, NEW h, NEW orph, NEW save, Keep(p, freed, b, h, orph, save)
  PROVE  /\ DOMAIN orphans' \subseteq DOMAIN orph
         /\ h # UnknownHeight => b \notin DOMAIN orphans'
  BY DEF Keep

\* what is left in memory after the verification
LEMMA KeptIs ==
  ASSUME NEW b
  PROVE  DOMAIN Kept(b) \subseteq DOMAIN blocks /\ \A x \in DOMAIN Kept(b) : Kept(b)[x] = blocks[x]
  BY DEF Kept

\* The tip stays, blocks are freed at most, and a new orphan waits for a block that is
\* not in memory or is above the tip.
LEMMA TipStays ==
  ASSUME Fresh, lastBlock' = lastBlock, DOMAIN blocks' \subseteq DOMAIN blocks,
         \A x \in DOMAIN blocks' : blocks'[x] = blocks[x],
         \A k \in DOMAIN orphans' \cap DOMAIN blocks' :
            k \in DOMAIN orphans \/ Depth[k] > Depth[lastBlock]
  PROVE  Fresh'
<1>1. Waiting'
  BY DEF Fresh, Waiting
<1>2. AboveTip'
  BY DEF Fresh, AboveTip
<1>3. TipAlone'
  BY DEF Fresh, TipAlone
<1>4. QED
  BY <1>1, <1>2, <1>3 DEF Fresh

-----------------------------------------------------------------------------
(* _peerRelayedBlock *)

\* what is known of a valid block whose parent is in memory
Follows(b, h, mem) ==
  /\ Verified(b, h, mem)
  /\ DOMAIN mem \subseteq DOMAIN blocks /\ \A x \in DOMAIN mem : mem[x] = blocks[x]
  /\ Prev[b] \in DOMAIN blocks /\ Depth[b] = Depth[Prev[b]] + 1 /\ Depth[Prev[b]] \in Nat
  /\ lastBlock \in Block /\ Depth[lastBlock] \in Nat /\ LastHeight = Depth[lastBlock]
  /\ \A x \in DOMAIN blocks : x \in Block /\ Depth[x] \in Nat

\* the tip moves one up: a checkpoint at its new height would be the new tip
LEMMA ExtendFresh ==
  ASSUME ChainAssumption, CheckpointAssumption, Fresh, NEW p, NEW b, NEW h, NEW mem,
         Follows(b, h, mem), Extend(p, b, h, mem)
  PROVE  Fresh'
<1>1. /\ blocks' = Add(mem, b, h) /\ lastBlock' = b /\ Prev[b] = lastBlock
      /\ \E orph \in LoadMempools(h) :
           Keep(p, Trimmed(b), b, h, orph, SaveBatch(Add(mem, b, h), b, SaveCount(h)))
  BY DEF Extend
<1>2. /\ DOMAIN blocks' = DOMAIN mem \cup {b} /\ \A x \in DOMAIN mem \ {b} : blocks'[x] = blocks[x]
      /\ b \in Block /\ h = Depth[b] /\ h \in Nat /\ Depth[b] = Depth[lastBlock] + 1
      /\ Depth[lastBlock] \in Nat
  <2>1. /\ DOMAIN Add(mem, b, h) = DOMAIN mem \cup {b}
        /\ \A x \in DOMAIN mem \ {b} : Add(mem, b, h)[x] = mem[x]
        /\ Add(mem, b, h)[b] = [height |-> h, prev |-> Prev[b]]
    BY DEF Add, Put
  <2>2. QED
    BY <1>1, <2>1 DEF Follows, Verified
<1>3. b \notin DOMAIN orphans' /\ DOMAIN orphans' \subseteq DOMAIN orphans
  <2>1. h # UnknownHeight
    BY <1>2 DEF UnknownHeight
  <2>2. \A orph \in LoadMempools(h) : DOMAIN orph \subseteq DOMAIN orphans
    BY DEF LoadMempools, Empty
  <2>3. QED
    BY <1>1, <2>1, <2>2, KeepTakesOrphan
<1>4. \A x \in DOMAIN mem \ {b} :
        /\ x \in DOMAIN blocks /\ Depth[x] \in Nat
        /\ Depth[x] > Depth[lastBlock] => x \in Checkpoint /\ Depth[x] # Depth[b]
  BY DEF Follows, Verified, Fresh, AboveTip
<1>5. Waiting'
  BY <1>1, <1>2, <1>3, <1>4 DEF Fresh, Waiting
<1>6. AboveTip'
  BY <1>1, <1>2, <1>4 DEF Fresh, AboveTip
<1>7. TipAlone'
  BY <1>1, <1>2, <1>4 DEF TipAlone
<1>8. QED
  BY <1>5, <1>6, <1>7 DEF Fresh

\* a block in memory that is relayed again is at the tip's height at most
LEMMA ExistingFresh ==
  ASSUME ChainAssumption, CheckpointAssumption, Fresh, NEW p, NEW b, NEW h, NEW mem,
         Follows(b, h, mem), b \in DOMAIN mem, Prev[b] # lastBlock, ExistingBlock(p, b, h, mem)
  PROVE  Fresh'
<1>1. /\ blocks' = Add(mem, b, h) /\ lastBlock' = lastBlock
      /\ Keep(p, Trimmed(b) \cup {b}, b, h, orphans, Empty)
  BY DEF ExistingBlock
<1>2. /\ DOMAIN blocks' = DOMAIN mem /\ \A x \in DOMAIN mem \ {b} : blocks'[x] = blocks[x]
      /\ DOMAIN mem \subseteq DOMAIN blocks
  <2>1. /\ DOMAIN Add(mem, b, h) = DOMAIN mem \cup {b}
        /\ \A x \in DOMAIN mem \ {b} : Add(mem, b, h)[x] = mem[x]
        /\ Add(mem, b, h)[b] = [height |-> h, prev |-> Prev[b]]
    BY DEF Add, Put
  <2>2. QED
    BY <1>1, <2>1 DEF Follows
<1>3. ~(Depth[b] > Depth[lastBlock])
  <2> SUFFICES ASSUME Depth[b] > Depth[lastBlock] PROVE FALSE
    OBVIOUS
  <2>1. b \in Checkpoint
    BY <1>2 DEF Fresh, AboveTip
  <2>2. Prev[b] \notin Checkpoint /\ Depth[b] <= Depth[LastCheckpoint]
    BY <2>1, LastCheckpointIs DEF CheckpointAssumption
  <2>3. /\ Prev[b] \in DOMAIN blocks /\ Depth[b] = Depth[Prev[b]] + 1
        /\ Depth[Prev[b]] \in Nat /\ Depth[lastBlock] \in Nat /\ Depth[LastCheckpoint] \in Nat
    BY LastCheckpointIs DEF Follows, ChainAssumption
  <2>4. ~(Depth[Prev[b]] > Depth[lastBlock])
    BY <2>2, <2>3 DEF Fresh, AboveTip
  <2>5. Depth[Prev[b]] = Depth[lastBlock] /\ Depth[lastBlock] < Depth[LastCheckpoint]
    BY <2>2, <2>3, <2>4
  <2>6. QED
    BY <2>3, <2>5 DEF Fresh, TipAlone
<1>4. DOMAIN orphans' \subseteq DOMAIN orphans
  BY <1>1, KeepTakesOrphan
<1>5. Waiting'
  BY <1>1, <1>2, <1>4 DEF Fresh, Waiting
<1>6. AboveTip'
  BY <1>1, <1>2, <1>3 DEF Fresh, AboveTip
<1>7. TipAlone'
  BY <1>1, <1>2 DEF Fresh, TipAlone
<1>8. QED
  BY <1>5, <1>6, <1>7 DEF Fresh

\* a fork of the same length at most
LEMMA ForkFresh ==
  ASSUME ChainAssumption, CheckpointAssumption, Fresh, NEW p, NEW b, NEW h, NEW mem,
         Follows(b, h, mem), h > Depth[LastCheckpoint], AddFork(p, b, h, mem)
  PROVE  Fresh'
<1>1. /\ blocks' = Add(mem, b, h) /\ lastBlock' = lastBlock /\ ~(h > LastHeight)
      /\ Keep(p, Trimmed(b), b, h, orphans, Empty)
  BY DEF AddFork, Longer
<1>2. /\ DOMAIN blocks' = DOMAIN mem \cup {b} /\ \A x \in DOMAIN mem \ {b} : blocks'[x] = blocks[x]
      /\ DOMAIN mem \subseteq DOMAIN blocks
      /\ h = Depth[b] /\ h \in Nat /\ LastHeight = Depth[lastBlock] /\ Depth[lastBlock] \in Nat
  <2>1. /\ DOMAIN Add(mem, b, h) = DOMAIN mem \cup {b}
        /\ \A x \in DOMAIN mem \ {b} : Add(mem, b, h)[x] = mem[x]
        /\ Add(mem, b, h)[b] = [height |-> h, prev |-> Prev[b]]
    BY DEF Add, Put
  <2>2. QED
    BY <1>1, <2>1 DEF Follows, Verified
<1>3. DOMAIN orphans' \subseteq DOMAIN orphans /\ b \notin DOMAIN orphans'
  <2>1. h # UnknownHeight
    BY <1>2 DEF UnknownHeight
  <2>2. QED
    BY <1>1, <2>1, KeepTakesOrphan
<1>4. Depth[LastCheckpoint] \in Nat
  BY LastCheckpointIs DEF ChainAssumption
<1>5. Waiting'
  BY <1>1, <1>2, <1>3 DEF Fresh, Waiting
<1>6. AboveTip'
  BY <1>1, <1>2 DEF Fresh, AboveTip
<1>7. TipAlone'
  BY <1>1, <1>2, <1>4 DEF TipAlone
<1>8. QED
  BY <1>5, <1>6, <1>7 DEF Fresh

\* A fork that overtakes the tip starts at the tip's height: one on a checkpoint above
\* the tip does not join the main chain, and does not end below it either.
LEMMA OvertakesByOne ==
  ASSUME ChainAssumption, CheckpointAssumption, Fresh, NEW p, NEW b, NEW h, NEW mem,
         Follows(b, h, mem), b \notin DOMAIN mem, Prev[b] \in DOMAIN mem,
         Reorganize(p, b, h, mem)
  PROVE  h = Depth[lastBlock] + 1
<1> DEFINE mem2 == Add(mem, b, h)
           fork == Branch(mem2, b)
           main == Branch(mem2, lastBlock)
           c == Prev[b]
<1>1. h > Depth[lastBlock] /\ (fork \cap main # {} \/ Lowest(mem2, fork) < Lowest(mem2, main))
  BY DEF Reorganize, Longer, Follows
<1>2. /\ DOMAIN mem2 = DOMAIN mem \cup {b} /\ mem2[b] = [height |-> h, prev |-> c]
      /\ \A x \in DOMAIN mem : mem2[x] = blocks[x]
  <2>1. /\ DOMAIN Add(mem, b, h) = DOMAIN mem \cup {b}
        /\ \A x \in DOMAIN mem \ {b} : Add(mem, b, h)[x] = mem[x]
        /\ Add(mem, b, h)[b] = [height |-> h, prev |-> Prev[b]]
    BY DEF Add, Put
  <2>2. QED
    BY <2>1 DEF Follows
<1>3. /\ h = Depth[b] /\ h \in Nat /\ h = Depth[c] + 1 /\ Depth[c] \in Nat
      /\ Depth[lastBlock] \in Nat /\ lastBlock \in DOMAIN mem
  BY DEF Follows, Verified
<1>4. Sound(mem2)
  BY SoundAdd DEF Follows, Verified
<1> SUFFICES ASSUME Depth[c] > Depth[lastBlock] PROVE FALSE
  BY <1>1, <1>3
<1>5. mem2[c].prev = NoBlock /\ mem2[b].prev = c /\ c \in DOMAIN mem2
  BY <1>2 DEF Follows, Fresh, AboveTip
<1> HIDE DEF mem2
<1>6. fork \subseteq {b, c}
  BY <1>2, <1>4, <1>5, BranchEnds
<1>7. b \in fork /\ fork \subseteq DOMAIN mem2
  BY <1>2, <1>4, BranchHeights
<1>8. /\ lastBlock \in main /\ main \subseteq DOMAIN mem2
      /\ \A x \in main : mem2[x].height <= mem2[lastBlock].height
  BY <1>2, <1>3, <1>4, BranchHeights
<1>9. \A x \in DOMAIN mem2 : mem2[x].height = Depth[x] /\ mem2[x].height \in Nat
  BY <1>4 DEF Sound, Linked, Memory, Objects
<1>10. \A x \in fork : mem2[x].height > Depth[lastBlock]
  <2>1. h > Depth[lastBlock] /\ Depth[b] > Depth[lastBlock] /\ Depth[c] > Depth[lastBlock]
    BY <1>1, <1>3
  <2>2. \A x \in fork : x \in DOMAIN mem2 /\ (x = b \/ x = c)
    BY <1>6, <1>7
  <2>3. QED
    BY <1>9, <2>1, <2>2
<1>11. \A x \in main : mem2[x].height <= Depth[lastBlock]
  BY <1>2, <1>3, <1>8, <1>9
<1>12. fork \cap main = {}
  BY <1>3, <1>7, <1>9, <1>10, <1>11
<1> HIDE DEF fork, main
<1>13. \E x \in fork : Lowest(mem2, fork) = mem2[x].height
  BY <1>7, <1>9, LowestIs
<1>14. Lowest(mem2, main) <= mem2[lastBlock].height /\ Lowest(mem2, main) \in Nat
  BY <1>8, <1>9, LowestIs
<1>15. Lowest(mem2, fork) > Depth[lastBlock] /\ Lowest(mem2, fork) \in Nat
  BY <1>7, <1>9, <1>10, <1>13
<1>16. Lowest(mem2, main) <= Depth[lastBlock]
  BY <1>2, <1>3, <1>9, <1>14
<1>17. QED
  BY <1>1, <1>3, <1>12, <1>14, <1>15, <1>16

\* the tip moves to the longer branch, above every checkpoint
LEMMA ReorganizeFresh ==
  ASSUME ChainAssumption, CheckpointAssumption, Fresh, NEW p, NEW b, NEW h, NEW mem,
         Follows(b, h, mem), b \notin DOMAIN mem, Prev[b] \in DOMAIN mem,
         h > Depth[LastCheckpoint], Reorganize(p, b, h, mem)
  PROVE  Fresh'
<1>1. /\ blocks' = Add(mem, b, h) /\ lastBlock' = b
      /\ \E orph \in LoadMempools(h) :
           Keep(p, Trimmed(b), b, h, orph,
                SaveBatch(Add(mem, b, h), b, IF h = estimatedHeight THEN CompleteCount(h) ELSE 0))
  BY Zenon DEF Reorganize
<1>2. /\ DOMAIN blocks' = DOMAIN mem \cup {b} /\ \A x \in DOMAIN mem \ {b} : blocks'[x] = blocks[x]
      /\ b \in Block /\ h = Depth[b] /\ h \in Nat /\ h = Depth[lastBlock] + 1
      /\ Depth[lastBlock] \in Nat
  <2>1. /\ DOMAIN Add(mem, b, h) = DOMAIN mem \cup {b}
        /\ \A x \in DOMAIN mem \ {b} : Add(mem, b, h)[x] = mem[x]
    BY DEF Add, Put
  <2>2. QED
    BY <1>1, <2>1, OvertakesByOne DEF Follows, Verified
<1>3. b \notin DOMAIN orphans' /\ DOMAIN orphans' \subseteq DOMAIN orphans
  <2>1. h # UnknownHeight
    BY <1>2 DEF UnknownHeight
  <2>2. \A orph \in LoadMempools(h) : DOMAIN orph \subseteq DOMAIN orphans
    BY DEF LoadMempools, Empty
  <2>3. QED
    BY <1>1, <2>1, <2>2, KeepTakesOrphan
<1>4. \A c \in Checkpoint : Depth[c] < h /\ Depth[c] \in Nat
  BY <1>2, LastCheckpointIs DEF ChainAssumption
<1>5. \A x \in DOMAIN mem \ {b} :
        x \in DOMAIN blocks /\ Depth[x] \in Nat /\ ~(Depth[x] > Depth[lastBlock])
  <2> SUFFICES ASSUME NEW x \in DOMAIN mem \ {b}, Depth[x] > Depth[lastBlock] PROVE FALSE
    BY DEF Follows
  <2>1. x \in Checkpoint /\ Depth[x] \in Nat
    BY DEF Follows, Fresh, AboveTip
  <2>2. QED
    BY <1>2, <1>4, <2>1
<1>6. Waiting'
  BY <1>1, <1>2, <1>3, <1>5 DEF Fresh, Waiting
<1>7. AboveTip'
  <2>1. ASSUME NEW x \in DOMAIN blocks' PROVE ~(Depth[x] > h)
    <3>0. h = Depth[b] /\ h \in Nat
      BY <1>2
    <3>1. CASE x = b
      BY <3>0, <3>1
    <3>2. CASE x # b
      <4>1. x \in DOMAIN mem \ {b}
        BY <1>2, <3>2
      <4>2. Depth[x] \in Nat /\ ~(Depth[x] > Depth[lastBlock])
        BY <1>5, <4>1
      <4>3. QED
        BY <1>2, <4>2
    <3>3. QED
      BY <3>1, <3>2
  <2>2. QED
    BY <1>1, <1>2, <2>1 DEF AboveTip
<1>8. TipAlone'
  <2>1. ~(Depth[b] < Depth[LastCheckpoint])
    BY <1>2, <1>4, LastCheckpointIs
  <2>2. QED
    BY <1>1, <2>1 DEF TipAlone
<1>9. QED
  BY <1>6, <1>7, <1>8 DEF Fresh

\* the parent of the block that is verified is not freed
LEMMA ParentKept ==
  ASSUME ChainAssumption, BlocksInv, NEW b \in Block, ParentKnown(b)
  PROVE  Prev[b] \in DOMAIN Kept(b)
<1>1. NewHeight(b) = blocks[Prev[b]].height + 1 /\ blocks[Prev[b]].height \in Nat
  BY DEF NewHeight, ParentKnown, BlocksInv, Sound, Linked, Memory, Objects
<1>2. IntervalAt(NewHeight(b)) \in Nat \ {0}
  BY DEF IntervalAt, ChainAssumption
<1>3. Prev[b] \notin Trimmed(b)
  BY <1>1, <1>2 DEF Trimmed
<1>4. QED
  BY <1>3 DEF Kept, ParentKnown

LEMMA VerifiedFollows ==
  ASSUME ChainAssumption, CheckpointAssumption, BlocksInv, NEW b \in Block,
         ParentKnown(b), lastBlock \notin Trimmed(b), VerifyBlock(b)
  PROVE  Follows(b, NewHeight(b), Kept(b))
<1>1. Verified(b, NewHeight(b), Kept(b))
  BY VerifiedBlock
<1>2. /\ Prev[b] \in DOMAIN blocks /\ Depth[b] = Depth[Prev[b]] + 1 /\ Depth[Prev[b]] \in Nat
      /\ \A x \in DOMAIN blocks : x \in Block /\ Depth[x] \in Nat
  BY DEF ParentKnown, ChainAssumption, BlocksInv, Sound, Linked, Memory
<1>3. lastBlock \in Block /\ Depth[lastBlock] \in Nat /\ LastHeight = Depth[lastBlock]
  BY DEF BlocksInv, Sound, Linked, Memory, LastHeight, ChainAssumption
<1>4. QED
  BY <1>1, <1>2, <1>3, KeptIs DEF Follows

LEMMA CrashFresh ==
  ASSUME Fresh, NEW what, Crash(what) PROVE Fresh'
  BY DEF Crash, Fresh, Waiting, AboveTip, TipAlone

LEMMA HandleBlockFresh ==
  ASSUME ChainAssumption, CheckpointAssumption, IInv, Fresh, NEW p \in Peer,
         NEW o \in Orphans, HandleBlock(p, o)
  PROVE  Fresh'
<1> DEFINE b == o.block  h == NewHeight(b)  mem == Kept(b)
<1>0. b \in Block /\ o.height \in Nat \cup {UnknownHeight}
  BY DEF Orphans
<1>1. CASE IgnoreBlock(p)
  BY <1>1, TipStays DEF IgnoreBlock, Drop
<1>2. CASE AddOrphan(p, o)
  <2>1. UNCHANGED <<blocks, lastBlock>> /\ Prev[b] \notin DOMAIN blocks
    BY <1>2 DEF AddOrphan, ParentKnown
  <2>2. DOMAIN orphans' \subseteq DOMAIN orphans \cup {Prev[b]}
    <3>1. CASE b \in Stale
      BY <1>2, <3>1 DEF AddOrphan, Drop
    <3>2. CASE b \notin Stale
      <4>1. Keep(p, {}, b, o.height, Put(orphans, Prev[b], o), Empty)
        BY <1>2, <3>2 DEF AddOrphan
      <4>2. DOMAIN Put(orphans, Prev[b], o) = DOMAIN orphans \cup {Prev[b]}
        BY DEF Put
      <4>3. QED
        BY <4>1, <4>2, KeepTakesOrphan
    <3>3. QED
      BY <3>1, <3>2
  <2>3. QED
    BY <2>1, <2>2, TipStays
<1>3. CASE FreeLastBlock(b)
  BY <1>3, CrashFresh DEF FreeLastBlock
<1>4. CASE RejectBlock(p, b)
  BY <1>4, KeptIs, TipStays DEF RejectBlock, Drop
<1>5. CASE /\ ParentKnown(b) /\ lastBlock \notin Trimmed(b) /\ VerifyBlock(b)
           /\ FollowBlock(p, b, h, mem)
  <2>1. Follows(b, h, mem) /\ Prev[b] \in DOMAIN mem
    BY <1>0, <1>5, VerifiedFollows, ParentKept DEF IInv
  <2>2. CASE Extend(p, b, h, mem)
    BY <2>1, <2>2, ExtendFresh
  <2>3. CASE Prev[b] # lastBlock /\ b \in DOMAIN mem /\ ExistingBlock(p, b, h, mem)
    BY <2>1, <2>3, ExistingFresh
  <2>4. CASE ExistingBelowMain(h, mem) \/ ForkWithoutJoin(b, h, mem)
    BY <2>4, CrashFresh DEF ExistingBelowMain, ForkWithoutJoin
  <2>5. CASE PostponeBlock(p, b, h, mem)
    <3>1. /\ blocks' = mem /\ lastBlock' = lastBlock /\ h > LastHeight + 1
          /\ Keep(p, Trimmed(b), b, h, Put(orphans, Prev[b], [block |-> b, height |-> h]), Empty)
      BY <2>5 DEF PostponeBlock, MinedDuringRescan
    <3>2. DOMAIN orphans' \subseteq DOMAIN orphans \cup {Prev[b]}
      <4>1. DOMAIN Put(orphans, Prev[b], [block |-> b, height |-> h]) = DOMAIN orphans \cup {Prev[b]}
        BY DEF Put
      <4>2. QED
        BY <3>1, <4>1, KeepTakesOrphan
    <3>3. Depth[Prev[b]] > Depth[lastBlock]
      BY <2>1, <3>1 DEF Follows, Verified
    <3>4. QED
      BY <3>1, <3>2, <3>3, KeptIs, TipStays
  <2>6. CASE IgnoreOldFork(p, b, h, mem)
    BY <2>6, KeptIs, TipStays DEF IgnoreOldFork, Drop
  <2>7. CASE h > Depth[LastCheckpoint] /\ AddFork(p, b, h, mem)
    BY <2>1, <2>7, ForkFresh
  <2>8. CASE b \notin DOMAIN mem /\ h > Depth[LastCheckpoint] /\ Reorganize(p, b, h, mem)
    BY <2>1, <2>8, ReorganizeFresh
  <2>9. QED
    BY <1>5, <2>2, <2>3, <2>4, <2>5, <2>6, <2>7, <2>8 DEF FollowBlock
<1>6. QED
  BY <1>1, <1>2, <1>3, <1>4, <1>5 DEF HandleBlock

-----------------------------------------------------------------------------
(* The theorem *)

LEMMA InitFresh ==
  ASSUME ChainAssumption, CheckpointAssumption, Init PROVE Fresh
<1>1. blocks = CheckpointBlocks /\ lastBlock = StartPoint /\ orphans = Empty
  BY DEF Init
<1>2. Waiting
  BY <1>1 DEF Waiting, Empty
<1>3. AboveTip
  BY <1>1 DEF AboveTip, CheckpointBlocks
<1>4. TipAlone
  BY <1>1 DEF TipAlone, CheckpointBlocks, CheckpointAssumption, ChainAssumption
<1>5. QED
  BY <1>2, <1>3, <1>4 DEF Fresh

LEMMA NextFresh ==
  ASSUME ChainAssumption, CheckpointAssumption, IInv, FreshInv, [Next]_vars
  PROVE  FreshInv'
<1>0. rescans \in Nat /\ restarts \in Nat
  BY DEF IInv, RestInv
<1>1. ASSUME NEW p \in Peer, NEW o \in Orphans, HandleBlock(p, o) PROVE FreshInv'
  <2>1. UNCHANGED <<rescans, restarts>>
    BY <1>1, FollowRest DEF HandleBlock, IgnoreBlock, AddOrphan, FreeLastBlock, Crash, RejectBlock,
       Settled
  <2>2. QED
    BY <1>1, <2>1, HandleBlockFresh DEF FreshInv
<1>2. ASSUME NEW p \in Peer, NEW b \in Block, RelayedBlock(p, b) PROVE FreshInv'
  <2>1. Relayed(b) \in Orphans
    BY RelayedIsOrphan, ChainAssumption
  <2>2. QED
    BY <1>1, <1>2, <2>1 DEF RelayedBlock
<1>3. ASSUME NEW p \in Peer, NextOrphan(p) PROVE FreshInv'
  <2>1. todo[p].next \in Orphans
    BY <1>3 DEF NextOrphan, IInv, TodoInv
  <2>2. QED
    BY <1>1, <1>3, <2>1 DEF NextOrphan
<1>4. CASE \/ \E p \in Peer : SaveBlocks(p) \/ SelectDownloadPeer(p)
           \/ ResetFilter \/ UpdateFilter
  <2>1. UNCHANGED <<blocks, lastBlock, rescans, restarts>>
    BY <1>4 DEF SaveBlocks, SelectDownloadPeer, ResetFilter, UpdateFilter
  <2>2. DOMAIN orphans' \subseteq DOMAIN orphans
    BY <1>4 DEF SaveBlocks, SelectDownloadPeer, ResetFilter, UpdateFilter, LoadBloomFilter, Empty
  <2>3. QED
    BY <2>1, <2>2, TipStays DEF FreshInv
<1>5. CASE \/ Rescan \/ RescanFromLastHardcodedCheckpoint
           \/ \E n \in RescanHeights : RescanFromBlockNumber(n)
  <2>1. rescans' = rescans + 1
    BY <1>5 DEF Rescan, RescanFromLastHardcodedCheckpoint, RescanFromBlockNumber, RescanFrom
  <2>2. QED
    BY <1>0, <2>1 DEF FreshInv
<1>6. CASE Restart
  <2>1. restarts' = restarts + 1
    BY <1>6, Zenon DEF Restart
  <2>2. QED
    BY <1>0, <2>1 DEF FreshInv
<1>7. CASE UNCHANGED vars
  BY <1>7 DEF vars, FreshInv, Fresh, Waiting, AboveTip, TipAlone
<1>8. QED
  BY <1>2, <1>3, <1>4, <1>5, <1>6, <1>7 DEF Next

\* In a process that has not rescanned no orphan is left behind once its parent is part
\* of a chain, however the peers' threads and the reorganisations interleave.
THEOREM OrphansAreTaken == Spec => []OrphansWait
<1>1. Init => FreshInv
  BY InitFresh, ChainAssumption, CheckpointAssumption DEF FreshInv
<1>2. IInv /\ FreshInv /\ [Next]_vars => FreshInv'
  BY NextFresh, ChainAssumption, CheckpointAssumption
<1>3. IInv /\ FreshInv => OrphansWait
  <2> SUFFICES ASSUME IInv, Fresh, NEW k \in DOMAIN orphans \cap DOMAIN blocks
               PROVE  blocks[k].height > LastHeight
    BY DEF FreshInv, OrphansWait
  <2>1. blocks[k].height = Depth[k] /\ LastHeight = Depth[lastBlock]
    BY DEF IInv, BlocksInv, Sound, Linked, LastHeight
  <2>2. QED
    BY <2>1 DEF Fresh, Waiting
<1>4. QED
  BY <1>1, <1>2, <1>3, Invariance, PTL DEF Spec

-----------------------------------------------------------------------------
(* Branches and ancestors *)

\* A branch has one block at a height, and with a block its parent.
LEMMA BranchFacts ==
  ASSUME ChainAssumption, NEW mem, Linked(mem), NEW b \in DOMAIN mem
  PROVE  /\ b \in Branch(mem, b) /\ Branch(mem, b) \subseteq DOMAIN mem
         /\ \A x \in Branch(mem, b) : Depth[x] \in Nat /\ Depth[x] <= Depth[b]
         /\ \A x, y \in Branch(mem, b) : Depth[x] = Depth[y] => x = y
         /\ \A x \in Branch(mem, b) :
              mem[x].prev \in DOMAIN mem => mem[x].prev \in Branch(mem, b)
<1> DEFINE H == mem[b].height
<1>1. PICK f : Back(f, mem, b)
  BY BackExists
<1>2. \A n \in 0 .. H : f[n] \in DOMAIN mem =>
             /\ mem[f[n]].height = H - n
             /\ \A i \in 0 .. n : f[i] \in DOMAIN mem
  BY <1>1, BackHeights
<1>3. /\ H \in Nat /\ H = Depth[b]
      /\ \A x \in DOMAIN mem : x \in Block /\ mem[x].height = Depth[x] /\ Depth[x] \in Nat
  BY DEF Linked, Memory, Objects
<1>4. f[0] = b /\ Branch(mem, b) = DOMAIN mem \cap {f[n] : n \in 0 .. H}
  BY <1>1 DEF Back
<1>5. \A n \in 1 .. H : f[n] = IF f[n - 1] \in DOMAIN mem THEN mem[f[n - 1]].prev ELSE NoBlock
  BY <1>1 DEF Back
<1> HIDE DEF H
<1>6. \A x \in Branch(mem, b) : \E n \in 0 .. H : x = f[n] /\ Depth[x] = H - n
  BY <1>2, <1>3, <1>4
<1>7. b \in Branch(mem, b) /\ Branch(mem, b) \subseteq DOMAIN mem
  <2>1. 0 \in 0 .. H
    BY <1>3
  <2>2. QED
    BY <1>4, <2>1
<1>8. \A x \in Branch(mem, b) : Depth[x] \in Nat /\ Depth[x] <= Depth[b]
  BY <1>3, <1>6, <1>7
<1>9. ASSUME NEW x \in Branch(mem, b), NEW y \in Branch(mem, b), Depth[x] = Depth[y]
      PROVE  x = y
  <2>1. PICK n \in 0 .. H : x = f[n] /\ Depth[x] = H - n
    BY <1>6
  <2>2. PICK k \in 0 .. H : y = f[k] /\ Depth[y] = H - k
    BY <1>6
  <2>3. n = k
    BY <1>3, <1>9, <2>1, <2>2
  <2>4. QED
    BY <2>1, <2>2, <2>3
<1>10. ASSUME NEW x \in Branch(mem, b), mem[x].prev \in DOMAIN mem
       PROVE  mem[x].prev \in Branch(mem, b)
  <2>1. PICK n \in 0 .. H : x = f[n] /\ Depth[x] = H - n
    BY <1>6
  <2>2. x \in DOMAIN mem /\ mem[x].prev = Prev[x] /\ Prev[x] \in Block
    BY <1>3, <1>7, <1>10 DEF Linked, ChainAssumption
  <2>3. Depth[x] = Depth[Prev[x]] + 1 /\ Depth[Prev[x]] \in Nat
    BY <1>3, <2>2 DEF ChainAssumption
  <2>4. n + 1 \in 1 .. H /\ (n + 1) - 1 = n
    BY <1>3, <2>1, <2>3
  <2>5. f[n + 1] = mem[x].prev
    BY <1>5, <2>1, <2>2, <2>4
  <2>6. n + 1 \in 0 .. H
    BY <2>4
  <2>7. QED
    BY <1>4, <1>10, <2>5, <2>6
<1>11. QED
  BY <1>7, <1>8, <1>9, <1>10

\* A set that has b, and with a block of the branch its parent, has the branch.
LEMMA BranchInduction ==
  ASSUME ChainAssumption, NEW mem, Linked(mem), NEW b \in DOMAIN mem, NEW A, b \in A,
         \A x \in Branch(mem, b) \cap A : mem[x].prev \in DOMAIN mem => mem[x].prev \in A
  PROVE  Branch(mem, b) \subseteq A
<1> DEFINE H == mem[b].height
<1>1. PICK f : Back(f, mem, b)
  BY BackExists
<1>2. \A n \in 0 .. H : f[n] \in DOMAIN mem => \A i \in 0 .. n : f[i] \in DOMAIN mem
  BY <1>1, BackHeights
<1>3. H \in Nat /\ NoBlock \notin DOMAIN mem
  BY DEF Linked, Memory, Objects, ChainAssumption
<1>4. f[0] = b /\ Branch(mem, b) = DOMAIN mem \cap {f[n] : n \in 0 .. H}
  BY <1>1 DEF Back
<1>5. \A n \in 1 .. H : f[n] = IF f[n - 1] \in DOMAIN mem THEN mem[f[n - 1]].prev ELSE NoBlock
  BY <1>1 DEF Back
<1> HIDE DEF H
<1> DEFINE Bad == {n \in 0 .. H : f[n] \in DOMAIN mem /\ f[n] \notin A}
<1>6. SUFFICES ASSUME Bad # {} PROVE FALSE
  BY <1>4
<1>7. PICK n \in Bad : \A i \in Bad : n <= i
  <2>1. Bad \subseteq Nat
    OBVIOUS
  <2> HIDE DEF Bad
  <2> QED BY <1>6, <2>1, NatLeast
<1>8. n \in 0 .. H /\ f[n] \in DOMAIN mem /\ f[n] \notin A /\ n # 0
  BY <1>4, <1>7
<1>9. n \in 1 .. H /\ n - 1 \in 0 .. H /\ n - 1 \in 0 .. n /\ ~(n <= n - 1)
  BY <1>3, <1>8
<1>10. f[n - 1] \in DOMAIN mem /\ f[n] = mem[f[n - 1]].prev
  BY <1>2, <1>5, <1>8, <1>9
<1>11. f[n - 1] \in A
  BY <1>7, <1>9, <1>10
<1>12. f[n - 1] \in Branch(mem, b)
  BY <1>4, <1>9, <1>10
<1>13. QED
  BY <1>8, <1>10, <1>11, <1>12

LEMMA AncestorFacts ==
  ASSUME ChainAssumption, NEW b \in Block
  PROVE  /\ b \in Ancestors(b) /\ Ancestors(b) \subseteq Block
         /\ \A x \in Ancestors(b) : Depth[x] \in Nat /\ Depth[x] <= Depth[b]
         /\ \A x, y \in Ancestors(b) : Depth[x] = Depth[y] => x = y
         /\ \A x \in Ancestors(b) : Prev[x] \in Block => Prev[x] \in Ancestors(b)
<1>1. Linked(Tree) /\ DOMAIN Tree = Block /\ \A x \in Block : Tree[x].prev = Prev[x]
  BY DEF Tree, Linked, Memory, Objects, ChainAssumption
<1>2. QED
  BY <1>1, BranchFacts DEF Ancestors

\* A set that has b, and with an ancestor its parent, has all ancestors.
LEMMA AncestorInduction ==
  ASSUME ChainAssumption, NEW b \in Block, NEW A, b \in A,
         \A x \in Ancestors(b) \cap A : Prev[x] \in Block => Prev[x] \in A
  PROVE  Ancestors(b) \subseteq A
<1>1. Linked(Tree) /\ DOMAIN Tree = Block /\ \A x \in Block : Tree[x].prev = Prev[x]
  BY DEF Tree, Linked, Memory, Objects, ChainAssumption
<1>2. \A x \in Branch(Tree, b) \cap A : Tree[x].prev \in DOMAIN Tree => Tree[x].prev \in A
  BY <1>1, AncestorFacts DEF Ancestors
<1>3. QED
  BY <1>1, <1>2, BranchInduction DEF Ancestors

\* The ancestors of an ancestor x are those not above it.
LEMMA AncestorsBelow ==
  ASSUME ChainAssumption, NEW b \in Block, NEW x \in Ancestors(b)
  PROVE  Ancestors(x) = {y \in Ancestors(b) : Depth[y] <= Depth[x]}
<1>1. x \in Block /\ Depth[x] \in Nat /\ Depth[b] \in Nat
  BY AncestorFacts
<1>2. Ancestors(x) \subseteq Ancestors(b)
  BY <1>1, AncestorFacts, AncestorInduction
<1> DEFINE A == {y \in Block : Depth[y] <= Depth[x] => y \in Ancestors(x)}
<1>3. b \in A
  <2>1. Depth[x] <= Depth[b]
    BY AncestorFacts
  <2>2. Depth[b] <= Depth[x] => b = x
    BY <1>1, <2>1, AncestorFacts
  <2>3. QED
    BY <1>1, <2>2, AncestorFacts
<1>4. ASSUME NEW z \in Ancestors(b), z \in A, Prev[z] \in Block PROVE Prev[z] \in A
  <2>1. Depth[z] = Depth[Prev[z]] + 1 /\ Depth[Prev[z]] \in Nat /\ Prev[z] \in Ancestors(b)
    BY <1>4, AncestorFacts DEF ChainAssumption
  <2>2. CASE Depth[z] <= Depth[x]
    <3>1. z \in Ancestors(x)
      BY <1>4, <2>2
    <3>2. Prev[z] \in Ancestors(x)
      BY <1>1, <1>4, <3>1, AncestorFacts
    <3>3. QED
      BY <1>4, <3>2
  <2>3. CASE Depth[z] = Depth[x] + 1
    <3>1. Prev[z] = x
      BY <1>1, <2>1, <2>3, AncestorFacts
    <3>2. QED
      BY <1>1, <1>4, <3>1, AncestorFacts
  <2>4. CASE Depth[z] > Depth[x] + 1
    BY <1>1, <1>4, <2>1, <2>4
  <2>5. QED
    BY <1>1, <2>1, <2>2, <2>3, <2>4
<1>5. Ancestors(b) \subseteq A
  <2> HIDE DEF A
  <2> QED BY <1>3, <1>4, AncestorInduction
<1>6. \A y \in Ancestors(x) : Depth[y] <= Depth[x]
  BY <1>1, AncestorFacts
<1>7. QED
  BY <1>2, <1>5, <1>6

LEMMA AncestorsOfChild ==
  ASSUME ChainAssumption, NEW b \in Block, Prev[b] \in Block
  PROVE  Ancestors(b) = {b} \cup Ancestors(Prev[b])
<1>1. Prev[b] \in Ancestors(b) /\ b \in Ancestors(b)
  BY AncestorFacts
<1>2. Ancestors(Prev[b]) = {y \in Ancestors(b) : Depth[y] <= Depth[Prev[b]]}
  BY <1>1, AncestorsBelow
<1>3. Depth[b] = Depth[Prev[b]] + 1 /\ Depth[Prev[b]] \in Nat
  BY DEF ChainAssumption
<1>4. ASSUME NEW y \in Ancestors(b) PROVE y = b \/ Depth[y] <= Depth[Prev[b]]
  <2>1. Depth[y] \in Nat /\ Depth[y] <= Depth[b]
    BY AncestorFacts
  <2>2. Depth[y] = Depth[b] => y = b
    BY <1>1, AncestorFacts
  <2>3. QED
    BY <1>3, <2>1, <2>2
<1>5. QED
  BY <1>1, <1>2, <1>4

LEMMA BranchInAncestors ==
  ASSUME ChainAssumption, NEW mem, Linked(mem), NEW b \in DOMAIN mem
  PROVE  Branch(mem, b) \subseteq Ancestors(b)
<1>1. b \in Block /\ DOMAIN mem \subseteq Block /\ NoBlock \notin Block
  BY DEF Linked, Memory, ChainAssumption
<1>2. ASSUME NEW x \in Branch(mem, b) \cap Ancestors(b), mem[x].prev \in DOMAIN mem
      PROVE  mem[x].prev \in Ancestors(b)
  <2>1. x \in DOMAIN mem
    BY BranchFacts
  <2>2. mem[x].prev = Prev[x]
    BY <1>1, <1>2, <2>1 DEF Linked
  <2>3. QED
    BY <1>1, <1>2, <2>2, AncestorFacts
<1>3. QED
  BY <1>1, <1>2, AncestorFacts, BranchInduction

-----------------------------------------------------------------------------
(* Memory above the last checkpoint *)

\* a block above the last checkpoint is in memory with its parent
WholeMemory(mem) ==
  \A x \in DOMAIN mem :
    Depth[LastCheckpoint] < Depth[x] => mem[x].prev = Prev[x] /\ Prev[x] \in DOMAIN mem

\* every branch of whole memory goes back to the last checkpoint
LEMMA ReachesLastCheckpoint ==
  ASSUME ChainAssumption, CheckpointAssumption, NEW mem, Sound(mem), WholeMemory(mem),
         NEW b \in DOMAIN mem, Depth[LastCheckpoint] <= Depth[b]
  PROVE  LastCheckpoint \in Branch(mem, b)
<1> DEFINE B == Branch(mem, b)
           T == {Depth[x] : x \in B}
           last == LastCheckpoint
<1>1. /\ Linked(mem) /\ last \in Checkpoint /\ Depth[last] \in Nat
      /\ \A x \in DOMAIN mem : x \in Block /\ mem[x].height = Depth[x] /\ Depth[x] \in Nat
  BY LastCheckpointIs DEF Sound, Linked, Memory, ChainAssumption
<1> HIDE DEF last
<1>2. /\ b \in B /\ B \subseteq DOMAIN mem
      /\ \A x \in B : mem[x].prev \in DOMAIN mem => mem[x].prev \in B
  BY <1>1, BranchFacts
<1>3. PICK y \in B : \A x \in B : Depth[y] <= Depth[x]
  <2> HIDE DEF B
  <2>1. T \subseteq Nat /\ T # {}
    BY <1>1, <1>2
  <2>2. PICK m \in T : \A n \in T : m <= n
    <3> HIDE DEF T
    <3> QED BY <2>1, NatLeast
  <2>3. QED
    BY <2>2
<1>4. Depth[y] <= Depth[last]
  <2> SUFFICES ASSUME Depth[last] < Depth[y] PROVE FALSE
    BY <1>1, <1>2, <1>3
  <2>1. mem[y].prev = Prev[y] /\ Prev[y] \in DOMAIN mem
    BY <1>2, <1>3 DEF WholeMemory, last
  <2>2. Prev[y] \in B /\ Depth[y] = Depth[Prev[y]] + 1 /\ Depth[Prev[y]] \in Nat
    BY <1>1, <1>2, <1>3, <2>1 DEF ChainAssumption
  <2>3. QED
    BY <1>3, <2>2
<1>5. Depth[last] \in mem[y].height .. mem[b].height
  BY <1>1, <1>2, <1>3, <1>4 DEF last
<1>6. PICK z \in B : mem[z].height = Depth[last]
  BY <1>1, <1>3, <1>5, BranchHeights
<1>7. z = last
  BY <1>1, <1>2, <1>6 DEF Sound
<1>8. QED
  BY <1>6, <1>7 DEF last

\* A transition above the last checkpoint frees nothing, one up to it only what is
\* below.
LEMMA TrimmedBelow ==
  ASSUME ChainAssumption, CheckpointAssumption, LateCheckpoint, BlocksInv, NEW b \in Block,
         ParentKnown(b), NEW x \in Trimmed(b)
  PROVE  Depth[x] < Depth[LastCheckpoint]
<1>1. /\ Linked(blocks) /\ Prev[b] \in DOMAIN blocks /\ LastCheckpoint \in Block
      /\ \A y \in DOMAIN blocks : blocks[y].height = Depth[y] /\ Depth[y] \in Nat
  BY LastCheckpointIs DEF BlocksInv, Sound, Linked, Memory, Objects, ParentKnown, ChainAssumption
<1>2. NewHeight(b) \in Nat /\ Depth[LastCheckpoint] \in Nat /\ DGWStart \in Nat
  BY <1>1 DEF NewHeight, ChainAssumption
<1>3. /\ x \in Branch(blocks, Prev[b])
      /\ blocks[x].height < NewHeight(b) - IntervalAt(NewHeight(b))
      /\ blocks[x].height % IntervalAt(NewHeight(b)) # 0
  BY DEF Trimmed
<1>4. blocks[x].height = Depth[x] /\ Depth[x] \in Nat
  BY <1>1, <1>3, BranchFacts
<1>5. NewHeight(b) < DGWStart
  <2> SUFFICES ASSUME ~(NewHeight(b) < DGWStart) PROVE FALSE
    OBVIOUS
  <2>1. IntervalAt(NewHeight(b)) = 1
    BY DEF IntervalAt
  <2>2. QED
    BY <1>3, <1>4, <2>1
<1>6. IntervalAt(NewHeight(b)) \in Nat \ {0}
  BY DEF IntervalAt, ChainAssumption
<1>7. QED
  BY <1>2, <1>3, <1>4, <1>5, <1>6 DEF LateCheckpoint

\* the trimming leaves memory whole
LEMMA WholeKept ==
  ASSUME ChainAssumption, CheckpointAssumption, LateCheckpoint, BlocksInv, WholeMemory(blocks),
         NEW b \in Block, ParentKnown(b)
  PROVE  WholeMemory(Kept(b))
<1> SUFFICES ASSUME NEW x \in DOMAIN Kept(b), Depth[LastCheckpoint] < Depth[x]
             PROVE  Kept(b)[x].prev = Prev[x] /\ Prev[x] \in DOMAIN Kept(b)
  BY DEF WholeMemory
<1>1. x \in DOMAIN blocks /\ Kept(b)[x] = blocks[x]
  BY KeptIs
<1>2. blocks[x].prev = Prev[x] /\ Prev[x] \in DOMAIN blocks
  BY <1>1 DEF WholeMemory
<1>3. /\ x \in Block /\ Prev[x] \in Block /\ LastCheckpoint \in Block
      /\ Depth[x] = Depth[Prev[x]] + 1 /\ Depth[Prev[x]] \in Nat /\ Depth[LastCheckpoint] \in Nat
  BY <1>1, <1>2, LastCheckpointIs DEF BlocksInv, Sound, Linked, Memory, ChainAssumption
<1>4. Prev[x] \notin Trimmed(b)
  BY <1>3, TrimmedBelow
<1>5. QED
  BY <1>1, <1>2, <1>4 DEF Kept

\* a block joins its parent
LEMMA WholeAdd ==
  ASSUME NEW mem, WholeMemory(mem), NEW b, NEW h, Prev[b] \in DOMAIN mem
  PROVE  WholeMemory(Add(mem, b, h))
BY DEF WholeMemory, Add, Put

LEMMA HandleBlockWhole ==
  ASSUME ChainAssumption, CheckpointAssumption, LateCheckpoint, BlocksInv, WholeMemory(blocks),
         NEW p \in Peer, NEW o \in Orphans, HandleBlock(p, o)
  PROVE  WholeMemory(blocks)'
<1> DEFINE b == o.block  h == NewHeight(b)  mem == Kept(b)
<1>0. b \in Block
  BY DEF Orphans
<1>1. CASE UNCHANGED blocks
  BY <1>1 DEF WholeMemory
<1>2. CASE IgnoreBlock(p) \/ AddOrphan(p, o) \/ FreeLastBlock(b)
  BY <1>1, <1>2 DEF IgnoreBlock, AddOrphan, FreeLastBlock, Crash
<1>3. CASE ParentKnown(b) /\ (blocks' = mem \/ blocks' = Add(mem, b, h))
  <2>1. WholeMemory(mem) /\ Prev[b] \in DOMAIN mem
    BY <1>0, <1>3, WholeKept, ParentKept
  <2> HIDE DEF mem, h, b
  <2>2. WholeMemory(Add(mem, b, h))
    BY <2>1, WholeAdd
  <2>3. QED
    BY <1>3, <2>1, <2>2 DEF WholeMemory
<1>4. CASE ParentKnown(b) /\ RejectBlock(p, b)
  BY <1>3, <1>4 DEF RejectBlock
<1>5. CASE ParentKnown(b) /\ FollowBlock(p, b, h, mem)
  <2> HIDE DEF mem, h, b
  <2>1. \/ blocks' = mem \/ blocks' = Add(mem, b, h) \/ UNCHANGED blocks
    <3>1. CASE Reorganize(p, b, h, mem)
      BY <3>1, Zenon DEF Reorganize
    <3>2. CASE ~Reorganize(p, b, h, mem)
      BY <1>5, <3>2 DEF FollowBlock, Extend, ExistingBlock, ExistingBelowMain, ForkWithoutJoin,
         AddFork, PostponeBlock, IgnoreOldFork, Crash
    <3>3. QED
      BY <3>1, <3>2
  <2>2. QED
    BY <1>1, <1>3, <1>5, <2>1
<1>6. QED
  BY <1>2, <1>4, <1>5 DEF HandleBlock

LEMMA InitWhole ==
  ASSUME ChainAssumption, CheckpointAssumption, Init PROVE WholeMemory(blocks)
<1>1. DOMAIN blocks = Checkpoint /\ Checkpoint \subseteq Block
  BY DEF Init, CheckpointBlocks, ChainAssumption
<1>2. ASSUME NEW x \in Checkpoint PROVE ~(Depth[LastCheckpoint] < Depth[x])
  BY <1>1, LastCheckpointIs DEF ChainAssumption
<1>3. QED
  BY <1>1, <1>2 DEF WholeMemory

-----------------------------------------------------------------------------
(* Confirmations *)

\* the heights of the wallet's transactions are those of the chain that ends in tip
Confirms(heights, tip) ==
  \A x \in Ancestors(tip) : \A t \in TxOf[x] : heights[t] = Depth[x]

\* a block is confirmed on top of the chain
LEMMA ConfirmNext ==
  ASSUME ChainAssumption, TxAssumption, NEW b \in Block, NEW h, h = Depth[b],
         Prev[b] \in Block, Confirms(txHeight, Prev[b])
  PROVE  Confirms(Confirm(b, h), b)
<1>1. Ancestors(b) = {b} \cup Ancestors(Prev[b]) /\ b \in Ancestors(b)
  BY AncestorsOfChild
<1>2. ASSUME NEW x \in Ancestors(b), NEW t \in TxOf[x] PROVE Confirm(b, h)[t] = Depth[x]
  <2>1. t \in Tx
    BY <1>2, AncestorFacts DEF ChainAssumption
  <2>2. CASE t \in TxOf[b]
    <3>1. x = b
      BY <1>1, <1>2, <2>2 DEF TxAssumption
    <3>2. QED
      BY <2>1, <2>2, <3>1 DEF Confirm
  <2>3. CASE t \notin TxOf[b]
    <3>1. x \in Ancestors(Prev[b])
      BY <1>1, <1>2, <2>3
    <3>2. QED
      BY <1>2, <2>1, <2>3, <3>1 DEF Confirm, Confirms
  <2>4. QED
    BY <2>2, <2>3
<1>3. QED
  BY <1>2 DEF Confirms

\* a block of the chain is confirmed again
LEMMA ConfirmAgain ==
  ASSUME ChainAssumption, TxAssumption, NEW tip \in Block, NEW b \in Ancestors(tip), NEW h,
         h = Depth[b], Confirms(txHeight, tip)
  PROVE  Confirms(Confirm(b, h), tip)
<1> SUFFICES ASSUME NEW x \in Ancestors(tip), NEW t \in TxOf[x]
             PROVE  Confirm(b, h)[t] = Depth[x]
  BY DEF Confirms
<1>1. t \in Tx
  BY AncestorFacts DEF ChainAssumption
<1>2. t \in TxOf[b] => x = b
  BY DEF TxAssumption
<1>3. QED
  BY <1>1, <1>2 DEF Confirm, Confirms

\* the highest block of a set of blocks in memory
LEMMA HighestIs ==
  ASSUME NEW f, NEW S, S # {}, NEW H \in Nat,
         \A x \in S : f[x].height \in Nat /\ f[x].height <= H
  PROVE  \E x \in S : Max({f[y].height : y \in S}) = f[x].height
<1> DEFINE T == {f[y].height : y \in S}
           U == {H - n : n \in T}
<1>1. T # {} /\ \A n \in T : n \in Nat /\ n <= H
  OBVIOUS
<1> HIDE DEF T
<1>2. U \subseteq Nat /\ U # {}
  BY <1>1
<1>3. PICK m \in U : \A n \in U : m <= n
  <2> HIDE DEF U
  <2> QED BY <1>2, NatLeast
<1>4. PICK k \in T : m = H - k
  OBVIOUS
<1>5. \A n \in T : k >= n
  <2> SUFFICES ASSUME NEW n \in T PROVE k >= n
    OBVIOUS
  <2>1. m <= H - n
    BY <1>3
  <2>2. QED
    BY <1>1, <1>4, <2>1
<1>6. Max(T) \in T
  BY <1>4, <1>5 DEF Max
<1>7. QED
  BY <1>6 DEF T

\* A reorganisation that finds a join gives every transaction of the new branch its
\* height: those above the join are all in memory, and the others the two branches
\* share.  They are not above the join, so it does not matter which of the rest keep
\* their heights.
LEMMA ReorgConfirms ==
  ASSUME ChainAssumption, TxAssumption, NEW mem, Sound(mem), NEW b \in DOMAIN mem,
         NEW tip \in DOMAIN mem, Confirms(txHeight, tip),
         NEW y \in Branch(mem, b) \cap Branch(mem, tip), NEW kept
  PROVE  Confirms(ReorgHeights(mem, Branch(mem, b), Depth[y], TRUE, kept), b)
<1> DEFINE fork == Branch(mem, b)
           join == Depth[y]
           new == ReorgHeights(mem, fork, join, TRUE, kept)
           At(t) == {x \in Above(mem, fork, join) : t \in TxOf[x]}
<1>1. /\ b \in Block /\ tip \in Block /\ Linked(mem)
      /\ \A x \in DOMAIN mem : mem[x].height = Depth[x] /\ Depth[x] \in Nat
  BY DEF Sound, Linked, Memory, Objects
<1>2. /\ fork \subseteq DOMAIN mem /\ fork \subseteq Ancestors(b)
      /\ y \in Ancestors(b) /\ y \in Ancestors(tip) /\ join \in Nat
  BY <1>1, BranchFacts, BranchInAncestors
<1>3. /\ Ancestors(y) = {x \in Ancestors(b) : Depth[x] <= join}
      /\ Ancestors(y) = {x \in Ancestors(tip) : Depth[x] <= join}
  BY <1>1, <1>2, AncestorsBelow
<1>4. ASSUME NEW x \in Ancestors(b), Depth[x] > join PROVE x \in Above(mem, fork, join)
  <2>1. Depth[x] \in Nat /\ Depth[x] <= Depth[b]
    BY <1>1, AncestorFacts
  <2>2. Depth[x] \in mem[y].height .. mem[b].height
    BY <1>1, <1>2, <1>4, <2>1
  <2>3. PICK z \in fork : mem[z].height = Depth[x]
    BY <2>2, BranchHeights
  <2>4. Depth[z] = Depth[x] /\ z \in Ancestors(b)
    BY <1>1, <1>2, <2>3
  <2>5. z = x
    BY <1>1, <2>4, AncestorFacts
  <2>6. QED
    BY <1>4, <2>3, <2>5 DEF Above
<1>5. \A t \in Tx : new[t] =
        IF At(t) # {} THEN mem[CHOOSE x \in At(t) : TRUE].height
        ELSE IF txHeight[t] > join /\ t \notin kept THEN Unconfirmed ELSE txHeight[t]
  BY DEF ReorgHeights
<1> HIDE DEF new
<1>6. ASSUME NEW x \in Ancestors(b), NEW t \in TxOf[x] PROVE new[t] = Depth[x]
  <2>1. t \in Tx /\ Depth[x] \in Nat
    BY <1>1, AncestorFacts DEF ChainAssumption
  <2>2. \A z \in At(t) : z \in Ancestors(b) /\ z \in DOMAIN mem /\ t \in TxOf[z]
    BY <1>2 DEF Above
  <2>3. new[t] = IF At(t) # {} THEN mem[CHOOSE z \in At(t) : TRUE].height
                 ELSE IF txHeight[t] > join /\ t \notin kept THEN Unconfirmed ELSE txHeight[t]
    BY <1>5, <2>1
  <2>4. Depth[x] > join => x \in At(t)
    BY <1>4, <1>6
  <2> DEFINE at == At(t)
             c == CHOOSE z \in at : TRUE
  <2> HIDE DEF at
  <2>5. CASE at # {}
    <3>1. c \in at
      BY <2>5
    <3>2. c \in Ancestors(b) /\ t \in TxOf[c] /\ new[t] = Depth[c]
      BY <1>1, <2>2, <2>3, <2>5, <3>1 DEF at
    <3>3. x = c
      BY <1>1, <1>6, <3>2 DEF TxAssumption
    <3>4. QED
      BY <3>2, <3>3
  <2>6. CASE at = {}
    <3>1. ~(Depth[x] > join)
      BY <2>4, <2>6 DEF at
    <3>2. x \in Ancestors(tip)
      BY <1>2, <1>3, <2>1, <3>1
    <3>3. txHeight[t] = Depth[x]
      BY <1>6, <3>2 DEF Confirms
    <3>4. new[t] = txHeight[t]
      BY <2>3, <2>6, <3>1, <3>3 DEF at
    <3>5. QED
      BY <3>3, <3>4
  <2>7. QED
    BY <2>5, <2>6
<1>7. QED
  BY <1>6 DEF Confirms, new

LEMMA ReorganizeConfirms ==
  ASSUME ChainAssumption, CheckpointAssumption, TxAssumption, NEW p, NEW b, NEW h, NEW mem,
         Verified(b, h, mem), Confirms(txHeight, lastBlock), Reorganize(p, b, h, mem),
         WholeMemory(mem), Prev[b] \in DOMAIN mem,
         Depth[LastCheckpoint] <= Depth[b], Depth[LastCheckpoint] <= Depth[lastBlock]
  PROVE  Confirms(txHeight', lastBlock')
<1> DEFINE mem2 == Add(mem, b, h)
           fork == Branch(mem2, b)
           main == Branch(mem2, lastBlock)
           joined == fork \cap main # {}
           join == IF joined THEN Max({mem2[x].height : x \in fork \cap main})
                   ELSE Lowest(mem2, main) - 1
<1>1. /\ blocks' = mem2 /\ lastBlock' = b
      /\ \E kept \in KeptHeights(join) : txHeight' = ReorgHeights(mem2, fork, join, joined, kept)
  BY Zenon DEF Reorganize
<1>2. Sound(mem2) /\ DOMAIN mem2 = DOMAIN mem \cup {b} /\ lastBlock \in DOMAIN mem
  BY SoundAdd DEF Verified
<1>3. /\ b \in DOMAIN mem2 /\ lastBlock \in DOMAIN mem2 /\ Linked(mem2)
      /\ \A x \in DOMAIN mem2 : mem2[x].height = Depth[x] /\ Depth[x] \in Nat
  BY <1>2 DEF Sound, Linked, Memory, Objects
<1>4. WholeMemory(mem2)
  BY WholeAdd
<1> HIDE DEF mem2
<1>5. LastCheckpoint \in fork \cap main
  BY <1>2, <1>3, <1>4, ReachesLastCheckpoint
<1>6. \A x \in fork \cap main : mem2[x].height \in Nat /\ mem2[x].height <= Depth[b]
  BY <1>3, BranchFacts
<1>7. PICK y \in fork \cap main : Max({mem2[x].height : x \in fork \cap main}) = mem2[y].height
  <2> DEFINE S == fork \cap main
  <2>1. S # {} /\ \A x \in S : mem2[x].height \in Nat /\ mem2[x].height <= Depth[b]
    BY <1>5, <1>6
  <2>2. Depth[b] \in Nat
    BY <1>3
  <2> HIDE DEF S
  <2>3. \E x \in S : Max({mem2[y].height : y \in S}) = mem2[x].height
    BY <2>1, <2>2, HighestIs
  <2>4. QED
    BY <2>3 DEF S
<1>8. y \in DOMAIN mem2
  BY <1>3, <1>7, BranchFacts
<1>9. join = Depth[y] /\ joined = TRUE
  BY <1>3, <1>5, <1>7, <1>8
<1> HIDE DEF join, joined
<1>10. PICK kept : txHeight' = ReorgHeights(mem2, fork, join, joined, kept)
  BY <1>1
<1>11. Confirms(ReorgHeights(mem2, fork, Depth[y], TRUE, kept), b)
  BY <1>2, <1>3, <1>7, ReorgConfirms
<1>12. QED
  BY <1>1, <1>9, <1>10, <1>11

LEMMA HandleBlockConfirms ==
  ASSUME ChainAssumption, CheckpointAssumption, TxAssumption, LateCheckpoint, IInv, Fresh,
         WholeMemory(blocks), Confirms(txHeight, lastBlock), NEW p \in Peer, NEW o \in Orphans,
         HandleBlock(p, o)
  PROVE  Confirms(txHeight', lastBlock')
<1> DEFINE b == o.block  h == NewHeight(b)  mem == Kept(b)
<1>0. b \in Block /\ BlocksInv
  BY DEF Orphans, IInv
<1>1. CASE UNCHANGED <<txHeight, lastBlock>>
  BY <1>1
<1>2. CASE IgnoreBlock(p) \/ AddOrphan(p, o) \/ FreeLastBlock(b) \/ RejectBlock(p, b)
  BY <1>1, <1>2 DEF IgnoreBlock, AddOrphan, FreeLastBlock, RejectBlock, Crash
<1>3. CASE /\ ParentKnown(b) /\ lastBlock \notin Trimmed(b) /\ VerifyBlock(b)
           /\ FollowBlock(p, b, h, mem)
  <2>1. Follows(b, h, mem) /\ Verified(b, h, mem)
    BY <1>0, <1>3, VerifiedFollows DEF Follows
  <2>2. h = Depth[b] /\ Sound(mem) /\ lastBlock \in DOMAIN mem /\ lastBlock \in Block
    BY <2>1 DEF Verified, Sound, Linked, Memory
  <2>3. WholeMemory(mem) /\ Prev[b] \in DOMAIN mem
    BY <1>0, <1>3, WholeKept, ParentKept
  <2> HIDE DEF h, mem, b
  <2>4. CASE Extend(p, b, h, mem)
    <3>1. lastBlock' = b /\ Prev[b] = lastBlock /\ txHeight' = Confirm(b, h)
      BY <2>4 DEF Extend
    <3>2. QED
      BY <1>0, <2>2, <3>1, ConfirmNext
  <2>5. CASE ExistingBlock(p, b, h, mem)
    <3>1. /\ lastBlock' = lastBlock
          /\ txHeight' = IF b \in Branch(mem, lastBlock) THEN Confirm(b, h) ELSE txHeight
      BY <2>5 DEF ExistingBlock
    <3>2. Branch(mem, lastBlock) \subseteq Ancestors(lastBlock)
      BY <2>2, BranchInAncestors DEF Sound
    <3>3. QED
      BY <2>2, <3>1, <3>2, ConfirmAgain
  <2>6. CASE \/ ExistingBelowMain(h, mem) \/ ForkWithoutJoin(b, h, mem) \/ AddFork(p, b, h, mem)
             \/ PostponeBlock(p, b, h, mem) \/ IgnoreOldFork(p, b, h, mem)
    BY <1>1, <2>6
       DEF ExistingBelowMain, ForkWithoutJoin, AddFork, PostponeBlock, IgnoreOldFork, Crash
  <2>7. CASE b \notin DOMAIN mem /\ h > Depth[LastCheckpoint] /\ Reorganize(p, b, h, mem)
    <3>1. h = Depth[lastBlock] + 1
      BY <2>1, <2>3, <2>7, OvertakesByOne
    <3>2. Depth[lastBlock] \in Nat /\ Depth[LastCheckpoint] \in Nat
      BY <2>1, LastCheckpointIs DEF Follows, ChainAssumption
    <3>3. Depth[LastCheckpoint] <= Depth[b] /\ Depth[LastCheckpoint] <= Depth[lastBlock]
      BY <2>2, <2>7, <3>1, <3>2
    <3>4. QED
      BY <2>1, <2>3, <2>7, <3>3, ReorganizeConfirms
  <2>8. QED
    BY <1>3, <2>4, <2>5, <2>6, <2>7 DEF FollowBlock, h, mem, b
<1>4. QED
  BY <1>2, <1>3 DEF HandleBlock

\* the inductive invariant, on top of IInv and FreshInv
ConfirmsInv ==
  rescans = 0 /\ restarts = 0 => WholeMemory(blocks) /\ Confirms(txHeight, lastBlock)

LEMMA NextConfirms ==
  ASSUME ChainAssumption, CheckpointAssumption, TxAssumption, LateCheckpoint, IInv, FreshInv,
         ConfirmsInv, [Next]_vars
  PROVE  ConfirmsInv'
<1>0. rescans \in Nat /\ restarts \in Nat /\ BlocksInv
  BY DEF IInv, RestInv
<1>1. CASE UNCHANGED <<blocks, txHeight, lastBlock, rescans, restarts>>
  BY <1>1 DEF ConfirmsInv, WholeMemory
<1>2. ASSUME NEW p \in Peer, NEW o \in Orphans, HandleBlock(p, o) PROVE ConfirmsInv'
  <2>1. UNCHANGED <<rescans, restarts>>
    BY <1>2, FollowRest DEF HandleBlock, IgnoreBlock, AddOrphan, FreeLastBlock, Crash, RejectBlock,
       Settled
  <2>2. SUFFICES ASSUME rescans = 0, restarts = 0
                 PROVE  WholeMemory(blocks)' /\ Confirms(txHeight', lastBlock')
    BY <2>1 DEF ConfirmsInv
  <2>3. Fresh /\ WholeMemory(blocks) /\ Confirms(txHeight, lastBlock)
    BY <2>2 DEF FreshInv, ConfirmsInv
  <2>4. QED
    BY <1>0, <1>2, <2>3, HandleBlockConfirms, HandleBlockWhole
<1>3. ASSUME NEW p \in Peer, NEW b \in Block, RelayedBlock(p, b) PROVE ConfirmsInv'
  <2>1. Relayed(b) \in Orphans
    BY RelayedIsOrphan
  <2>2. QED
    BY <1>2, <1>3, <2>1 DEF RelayedBlock
<1>4. ASSUME NEW p \in Peer, NextOrphan(p) PROVE ConfirmsInv'
  <2>1. todo[p].next \in Orphans
    BY <1>4 DEF NextOrphan, IInv, TodoInv
  <2>2. QED
    BY <1>2, <1>4, <2>1 DEF NextOrphan
<1>5. CASE \/ \E p \in Peer : SaveBlocks(p) \/ SelectDownloadPeer(p)
           \/ ResetFilter \/ UpdateFilter \/ UNCHANGED vars
  BY <1>1, <1>5 DEF SaveBlocks, SelectDownloadPeer, ResetFilter, UpdateFilter, vars
<1>6. CASE \/ Rescan \/ RescanFromLastHardcodedCheckpoint
           \/ \E n \in RescanHeights : RescanFromBlockNumber(n)
  <2>1. rescans' = rescans + 1
    BY <1>6 DEF Rescan, RescanFromLastHardcodedCheckpoint, RescanFromBlockNumber, RescanFrom
  <2>2. QED
    BY <1>0, <2>1 DEF ConfirmsInv
<1>7. CASE Restart
  <2>1. restarts' = restarts + 1
    BY <1>7, Zenon DEF Restart
  <2>2. QED
    BY <1>0, <2>1 DEF ConfirmsInv
<1>8. QED
  BY <1>3, <1>4, <1>5, <1>6, <1>7 DEF Next

\* In a process that has not rescanned every transaction of the main chain is confirmed
\* at the height of its block, through every interleaving of threads, orphans and
\* reorganisations, whichever confirmations BRWalletSetTxUnconfirmedAfter misses.
THEOREM ConfirmationsFollowChain == Spec => []ConfirmedOnMain
<1>1. ASSUME Init PROVE ConfirmsInv
  <2>1. lastBlock = StartPoint
    BY <1>1 DEF Init
  <2>2. QED
    BY <1>1, <2>1, InitWhole, ChainAssumption, CheckpointAssumption, TxAssumption
       DEF ConfirmsInv, Confirms, TxAssumption
<1>2. Init => FreshInv
  BY InitFresh, ChainAssumption, CheckpointAssumption DEF FreshInv
<1>3. IInv /\ FreshInv /\ [Next]_vars => FreshInv'
  BY NextFresh, ChainAssumption, CheckpointAssumption
<1>4. ASSUME LateCheckpoint, IInv, FreshInv, ConfirmsInv, [Next]_vars PROVE ConfirmsInv'
  BY <1>4, NextConfirms, ChainAssumption, CheckpointAssumption, TxAssumption
<1>5. ConfirmsInv => ConfirmedOnMain
  BY DEF ConfirmsInv, ConfirmedOnMain, Confirms
<1>6. CASE LateCheckpoint
  <2>1. Init => ConfirmsInv
    BY <1>1
  <2>2. IInv /\ FreshInv /\ ConfirmsInv /\ [Next]_vars => ConfirmsInv'
    BY <1>4, <1>6
  <2>3. QED
    BY <1>2, <1>3, <1>5, <2>1, <2>2, Invariance, PTL DEF Spec
<1>7. CASE ~LateCheckpoint
  <2>1. ConfirmedOnMain
    BY <1>7 DEF ConfirmedOnMain
  <2>2. QED
    BY <2>1, PTL
<1>8. QED
  BY <1>6, <1>7
=============================================================================
