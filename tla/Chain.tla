------------------------------- MODULE Chain --------------------------------
(***************************************************************************)
(* The block tree of BRPeerManager.c: the blocks in memory, the orphans,   *)
(* the tip of the main chain, the reorganisations, the rescans, and what   *)
(* is handed to the persistent store and read back after a restart.        *)
(*                                                                         *)
(* A block stands for its hash.  Every callback of a peer's thread runs    *)
(* with manager->lock held; the lock is released before the thread hands   *)
(* blocks to saveBlocks and before it processes the orphan that follows    *)
(* the block, so the threads of other peers come in between.  `todo' is    *)
(* what a thread still has to do.                                          *)
(***************************************************************************)
EXTENDS Integers, FiniteSets, FiniteSetsExt

CONSTANTS
  Block,          \* the blocks peers may relay
  NoBlock,        \* NULL, and the all-zero prevBlock of a checkpoint
  Prev,           \* block->prevBlock as relayed, NoBlock for the genesis block
  Depth,          \* the true height of a block
  Checkpoint,     \* params->checkpoints
  StartPoint,     \* the checkpoint that earliestKeyTime selects
  Tx,             \* transactions of the wallet
  TxOf,           \* TxOf[b]: the wallet's transactions in block b
  BadTarget,      \* blocks whose target breaks the difficulty rules
  Stale,          \* blocks more than a week old: not kept as orphans
  Kawpow,         \* blocks whose header has a height field (BRMerkleBlockParse)
  Peer,           \* peer threads
  PeerHeight,     \* PeerHeight[p]: the last block p reported
  PeerLag,        \* the 10 blocks a peer may be behind
  Interval,       \* BLOCK_DIFFICULTY_INTERVAL
  DGWStart,       \* DGW_START_BLOCK
  PastBlocks,     \* DGW_PAST_BLOCKS
  Exempt,         \* the heights 1219736 .. 1219916 whose target is not checked
  RescanHeights,  \* heights BRPeerManagerRescanFromBlockNumber may be given
  MaxRescans,     \* bound: calls of the rescan functions
  MaxRestarts     \* bound: restarts of the app

VARIABLES
  blocks,          \* manager->blocks: a function from hashes to [height, prev]
  orphans,         \* manager->orphans: a function from prevBlock to [block, height]
  lastBlock,       \* manager->lastBlock
  estimatedHeight, \* manager->estimatedHeight
  filterLoaded,    \* manager->bloomFilter # NULL
  pastCount,       \* the static counter of BRMerkleBlockVerifyDifficulty
  todo,            \* todo[p]: the blocks to save and the orphan to process next
  saved,           \* the persistent store: like blocks
  txHeight,        \* tx->blockHeight in the wallet
  fault,           \* the NULL or freed block the program has run into
  rescans, restarts

vars == <<blocks, orphans, lastBlock, estimatedHeight, filterLoaded, pastCount,
          todo, saved, txHeight, fault, rescans, restarts>>

Unconfirmed == -1      \* TX_UNCONFIRMED
UnknownHeight == -1    \* BLOCK_UNKNOWN_HEIGHT
Empty == [x \in {} |-> x]
NoOrphan == [block |-> NoBlock, height |-> UnknownHeight]
Idle == [save |-> Empty, alive |-> TRUE, next |-> NoOrphan]

ASSUME ChainAssumption ==
  /\ NoBlock \notin Block
  /\ Prev \in [Block -> Block \cup {NoBlock}]
  /\ Depth \in [Block -> Nat]
  /\ \A b \in Block : Prev[b] # NoBlock => Depth[b] = Depth[Prev[b]] + 1
  /\ Checkpoint \subseteq Block /\ StartPoint \in Checkpoint
  /\ TxOf \in [Block -> SUBSET Tx] /\ Kawpow \subseteq Block
  /\ PeerHeight \in [Peer -> Nat] /\ RescanHeights \subseteq Nat
  /\ Interval \in Nat \ {0} /\ DGWStart \in Nat /\ PastBlocks \in Nat

\* The arrays of BRChainParams.c: there is a last checkpoint, one at most per height,
\* none right after another, and "they must be at difficulty transition boundaries":
\* Interval apart at first, every block from DGWStart on.
ASSUME CheckpointAssumption ==
  /\ \E c \in Checkpoint : \A d \in Checkpoint : Depth[d] <= Depth[c]
  /\ \A c, d \in Checkpoint : Depth[c] = Depth[d] => c = d
  /\ \A c \in Checkpoint : Prev[c] \notin Checkpoint
  /\ \A c \in Checkpoint : Depth[c] % Interval = 0 \/ Depth[c] >= DGWStart

-----------------------------------------------------------------------------
(* Blocks in memory.  mem is manager->blocks at some point of a handler. *)

Put(f, k, v) == [x \in DOMAIN f \cup {k} |-> IF x = k THEN v ELSE f[x]]

\* the params->checkpoints of BRPeerManagerNew: no prevBlock
CheckpointBlocks == [c \in Checkpoint |-> [height |-> Depth[c], prev |-> NoBlock]]

LastCheckpoint == CHOOSE c \in Checkpoint : \A d \in Checkpoint : Depth[d] <= Depth[c]

\* b and the blocks a walk back from b meets: BRSetGet(manager->blocks, &b->prevBlock)
\* until it returns NULL
Branch(mem, b) ==
  LET back[n \in 0 .. mem[b].height] ==
        IF n = 0 THEN b
        ELSE LET x == back[n - 1] IN IF x \in DOMAIN mem THEN mem[x].prev ELSE NoBlock
  IN  DOMAIN mem \cap {back[n] : n \in 0 .. mem[b].height}

\* the tree as the peers have it, and the blocks from b down to its root
Tree == [x \in Block |-> [height |-> Depth[x], prev |-> Prev[x]]]
Ancestors(b) == Branch(Tree, b)

\* A chain has a transaction once, and none of the wallet's up to StartPoint, which
\* is older than its keys (earliestKeyTime).
ASSUME TxAssumption ==
  /\ \A b \in Block : \A x, y \in Ancestors(b) : TxOf[x] \cap TxOf[y] # {} => x = y
  /\ \A x \in Ancestors(StartPoint) : TxOf[x] = {}

Above(mem, S, h) == {x \in S : mem[x].height > h}

Lowest(mem, S) == Min({mem[x].height : x \in S})

OnMainChain(mem, b) == b \in Branch(mem, lastBlock)

LastHeight == blocks[lastBlock].height

-----------------------------------------------------------------------------
(* _PeerManagerVerifyBlock, for a block whose parent is in memory *)

IntervalAt(h) == IF h < DGWStart THEN Interval ELSE 1

\* mutant: one above the tip, whatever the parent
NewHeight_Tip(b) == LastHeight + 1

NewHeight(b) == blocks[Prev[b]].height + 1

IsTransition(b) == NewHeight(b) % IntervalAt(NewHeight(b)) = 0

\* the block at the previous difficulty transition is in memory
TransitionKnown(b) ==
  IsTransition(b) => \E x \in Branch(blocks, Prev[b]) :
                       blocks[x].height = NewHeight(b) - IntervalAt(NewHeight(b))

\* mutant: frees the transition blocks too
Trimmed_All(b) ==
  IF IsTransition(b) /\ TransitionKnown(b)
  THEN {x \in Branch(blocks, Prev[b]) :
          blocks[x].height < NewHeight(b) - IntervalAt(NewHeight(b))}
  ELSE {}

\* at a transition, the blocks below the previous one are freed, valid or not
Trimmed(b) ==
  IF IsTransition(b) /\ TransitionKnown(b)
  THEN {x \in Branch(blocks, Prev[b]) :
          /\ blocks[x].height < NewHeight(b) - IntervalAt(NewHeight(b))
          /\ blocks[x].height % IntervalAt(NewHeight(b)) # 0}
  ELSE {}

Kept(b) == [x \in DOMAIN blocks \ Trimmed(b) |-> blocks[x]]

\* DarkGravityWaveTarget averages over PastBlocks blocks: with fewer in memory
\* its result is taken to differ from the target of every block.
TargetComputable(b) ==
  /\ NewHeight(b) > DGWStart
  /\ Cardinality(Above(blocks, Branch(blocks, Prev[b]), NewHeight(b) - 1 - PastBlocks))
       = PastBlocks

\* BRMerkleBlockVerifyDifficulty: the first PastBlocks blocks since the app
\* started are not checked, except for the fixed target of block DGWStart
DifficultyVerified(b) ==
  \/ NewHeight(b) < DGWStart
  \/ pastCount < PastBlocks /\ (NewHeight(b) = DGWStart => b \notin BadTarget)
  \/ pastCount >= PastBlocks /\ NewHeight(b) \in Exempt
  \/ pastCount >= PastBlocks /\ TargetComputable(b) /\ b \notin BadTarget

PastCounted(b) ==
  IF TransitionKnown(b) /\ NewHeight(b) >= DGWStart /\ pastCount < PastBlocks
  THEN pastCount + 1 ELSE pastCount

\* mutant: a checkpoint's height may hold another block
VerifyBlock_NoCheckpoint(b) == TransitionKnown(b) /\ DifficultyVerified(b)

VerifyBlock(b) ==
  /\ TransitionKnown(b)
  /\ DifficultyVerified(b)
  /\ \A c \in Checkpoint : Depth[c] = NewHeight(b) => c = b

-----------------------------------------------------------------------------
(* _peerRelayedBlock.  o is the block relayed by, or left to, peer p's      *)
(* thread.  Bare headers newer than a week before earliestKeyTime are       *)
(* ignored without effect.                                                  *)

ParentKnown(b) == Prev[b] \in DOMAIN blocks

\* Thread p goes on with `save' and `next'.  Blocks freed meanwhile may be
\* among those that other threads are about to save.
Continue(p, freed, save, next) ==
  todo' = [q \in Peer |->
             IF q = p THEN [save |-> save, alive |-> TRUE, next |-> next]
             ELSE [save |-> todo[q].save, next |-> todo[q].next,
                   alive |-> todo[q].alive /\ freed \cap DOMAIN todo[q].save = {}]]

\* block b is dropped
Drop(p, freed) ==
  /\ Continue(p, freed, Empty, NoOrphan)
  /\ UNCHANGED <<orphans, estimatedHeight>>

\* mutant: the orphan that waits for b is left where it is
Keep_LeaveOrphan(p, freed, b, h, orph, save) ==
  /\ orphans' = orph
  /\ Continue(p, freed, save, NoOrphan)
  /\ estimatedHeight' = IF h > estimatedHeight THEN h ELSE estimatedHeight

\* b stays, in memory or among the orphans orph, with height h: the orphan that
\* was waiting for it is taken out and processed next
Keep(p, freed, b, h, orph, save) ==
  IF h = UnknownHeight
  THEN /\ orphans' = orph
       /\ Continue(p, freed, save, NoOrphan)
       /\ UNCHANGED estimatedHeight
  ELSE /\ orphans' = [k \in DOMAIN orph \ {b} |-> orph[k]]
       /\ Continue(p, freed, save, IF b \in DOMAIN orph THEN orph[b] ELSE NoOrphan)
       /\ estimatedHeight' = IF h > estimatedHeight THEN h ELSE estimatedHeight

Settled == UNCHANGED <<filterLoaded, saved, fault, rescans, restarts>>

\* the process ends, whatever it was about to store
Crash(what) ==
  /\ fault' = what
  /\ UNCHANGED <<blocks, orphans, lastBlock, estimatedHeight, filterLoaded, todo, saved,
                 txHeight, rescans, restarts>>

\* mutant: the blocks below the first transition are saved as well
SaveBatch_All(mem, b, count) ==
  IF count = 0 THEN Empty
  ELSE [x \in Above(mem, Branch(mem, b), mem[b].height - count) |-> mem[x]]

\* The blocks saved: up to `count' blocks back from b, without the ones below
\* the first difficulty transition.
SaveBatch(mem, b, count) ==
  LET walk == Above(mem, Branch(mem, b), mem[b].height - count)
      root == Lowest(mem, walk)
      past == (Interval - (root % Interval)) % Interval
  IN  IF count = 0 THEN Empty
      ELSE [x \in Above(mem, walk, root + past - 1) |-> mem[x]]

CompleteCount(h) == (h % Interval) + Interval + 1

SaveCount(h) ==
  IF h = estimatedHeight THEN CompleteCount(h)
  ELSE IF h % Interval = 0 THEN 1 ELSE 0

\* What may be left of the orphans at the end of a download: with another peer to
\* load it for, or at a high rate of false positives, _PeerManagerLoadMempools loads
\* the bloom filter again.
LoadMempools(h) == IF h = estimatedHeight THEN {orphans, Empty} ELSE {orphans}

\* _PeerManagerUpdateTx, BRWalletUpdateTransactions
Confirm(b, h) == [t \in Tx |-> IF t \in TxOf[b] THEN h ELSE txHeight[t]]

\* a filter update is pending
IgnoreBlock(p) ==
  /\ ~filterLoaded
  /\ Drop(p, {})
  /\ Settled /\ UNCHANGED <<blocks, lastBlock, pastCount, txHeight>>

AddOrphan(p, o) ==
  LET b == o.block IN
  /\ filterLoaded /\ ~ParentKnown(b)
  /\ IF b \in Stale THEN Drop(p, {})
     ELSE Keep(p, {}, b, o.height, Put(orphans, Prev[b], o), Empty)
  /\ Settled /\ UNCHANGED <<blocks, lastBlock, pastCount, txHeight>>

\* the next use of manager->lastBlock reads freed memory
FreeLastBlock(b) ==
  /\ lastBlock \in Trimmed(b)
  /\ Crash("lastFreed") /\ UNCHANGED pastCount

RejectBlock(p, b) ==
  /\ blocks' = Kept(b)
  /\ Drop(p, Trimmed(b))
  /\ Settled /\ UNCHANGED <<lastBlock, txHeight>>

(* From here on b is valid, its height is h, and mem is what the verification *)
(* has left in memory.                                                        *)

Add(mem, b, h) == Put(mem, b, [height |-> h, prev |-> Prev[b]])

Extend(p, b, h, mem) ==
  LET mem2 == Add(mem, b, h) IN
  /\ Prev[b] = lastBlock
  /\ blocks' = mem2 /\ lastBlock' = b
  /\ txHeight' = Confirm(b, h)
  /\ \E orph \in LoadMempools(h) :
       Keep(p, Trimmed(b), b, h, orph, SaveBatch(mem2, b, SaveCount(h)))
  /\ Settled

\* In memory already.  The old copy is freed.
ExistingBlock(p, b, h, mem) ==
  LET main == Branch(mem, lastBlock) IN
  /\ Lowest(mem, main) <= h
  /\ blocks' = Add(mem, b, h)
  /\ txHeight' = IF b \in main THEN Confirm(b, h) ELSE txHeight
  /\ Keep(p, Trimmed(b) \cup {b}, b, h, orphans, Empty)
  /\ Settled /\ UNCHANGED lastBlock

\* the walk down the main chain ends in NULL above the block
ExistingBelowMain(h, mem) ==
  /\ Lowest(mem, Branch(mem, lastBlock)) > h
  /\ Crash("noMainBlock")

MinedDuringRescan(p, h) == LastHeight < PeerHeight[p] /\ h > LastHeight + 1

\* "marking new block as orphan until rescan completes"
PostponeBlock(p, b, h, mem) ==
  /\ MinedDuringRescan(p, h)
  /\ blocks' = mem
  /\ Keep(p, Trimmed(b), b, h, Put(orphans, Prev[b], [block |-> b, height |-> h]), Empty)
  /\ Settled /\ UNCHANGED <<lastBlock, txHeight>>

IgnoreOldFork(p, b, h, mem) ==
  /\ ~MinedDuringRescan(p, h) /\ h <= Depth[LastCheckpoint]
  /\ blocks' = mem
  /\ Drop(p, Trimmed(b))
  /\ Settled /\ UNCHANGED <<lastBlock, txHeight>>

\* mutant: a fork as long as the main chain replaces it
Longer_OrEqual(h) == h >= LastHeight

\* the fork is longer than the main chain
Longer(h) == h > LastHeight

AddFork(p, b, h, mem) ==
  /\ ~Longer(h)
  /\ blocks' = Add(mem, b, h)
  /\ Keep(p, Trimmed(b), b, h, orphans, Empty)
  /\ Settled /\ UNCHANGED <<lastBlock, txHeight>>

\* mutant: the lowest block of the fork is taken for the join
ReorgHeights_Above(mem, fork, join, joined, kept) ==
  [t \in Tx |->
     LET at == {x \in Above(mem, fork, join + 1) : t \in TxOf[x]}
     IN  IF joined /\ at # {} THEN mem[CHOOSE x \in at : TRUE].height
         ELSE IF txHeight[t] > join /\ t \notin kept THEN Unconfirmed ELSE txHeight[t]]

\* The transactions above the join that BRWalletSetTxUnconfirmedAfter may leave alone:
\* its scan from the end of the wallet's array stops at the first one confirmed at or
\* below the join.  The order of the array is Wallet's business; here it is any.
KeptHeights(join) ==
  IF \E t \in Tx : txHeight[t] \in 0 .. join
  THEN SUBSET {t \in Tx : txHeight[t] > join} ELSE {{}}

\* BRWalletSetTxUnconfirmedAfter(join), then BRWalletUpdateTransactions for the
\* blocks of the fork above the join (none of which share a transaction)
ReorgHeights(mem, fork, join, joined, kept) ==
  [t \in Tx |->
     LET at == {x \in Above(mem, fork, join) : t \in TxOf[x]}
     IN  IF joined /\ at # {} THEN mem[CHOOSE x \in at : TRUE].height
         ELSE IF txHeight[t] > join /\ t \notin kept THEN Unconfirmed ELSE txHeight[t]]

\* The walk back ends at the highest block both branches share or, if they share
\* none, one below the end of the main chain in memory: then no transaction of the
\* new branch gets a height.
Reorganize(p, b, h, mem) ==
  LET mem2 == Add(mem, b, h)
      fork == Branch(mem2, b)  main == Branch(mem2, lastBlock)
      joined == fork \cap main # {}
      join == IF joined THEN Max({mem2[x].height : x \in fork \cap main})
              ELSE Lowest(mem2, main) - 1
  IN
  /\ Longer(h)
  /\ joined \/ Lowest(mem2, fork) < Lowest(mem2, main)
  /\ blocks' = mem2 /\ lastBlock' = b
  /\ \E kept \in KeptHeights(join) :
       txHeight' = ReorgHeights(mem2, fork, join, joined, kept)
  /\ \E orph \in LoadMempools(h) :
       Keep(p, Trimmed(b), b, h, orph,
            SaveBatch(mem2, b, IF h = estimatedHeight THEN CompleteCount(h) ELSE 0))
  /\ Settled

\* the walk back from the fork ends in NULL before it meets the main chain
ForkWithoutJoin(b, h, mem) ==
  LET mem2 == Add(mem, b, h)
      fork == Branch(mem2, b)  main == Branch(mem2, lastBlock)
  IN
  /\ Longer(h)
  /\ fork \cap main = {} /\ Lowest(mem2, fork) >= Lowest(mem2, main)
  /\ Crash("noJoin")

FollowBlock(p, b, h, mem) ==
  \/ Extend(p, b, h, mem)
  \/ /\ Prev[b] # lastBlock /\ b \in DOMAIN mem
     /\ ExistingBlock(p, b, h, mem) \/ ExistingBelowMain(h, mem)
  \/ /\ Prev[b] # lastBlock /\ b \notin DOMAIN mem
     /\ \/ PostponeBlock(p, b, h, mem)
        \/ IgnoreOldFork(p, b, h, mem)
        \/ /\ ~MinedDuringRescan(p, h) /\ h > Depth[LastCheckpoint]
           /\ AddFork(p, b, h, mem) \/ Reorganize(p, b, h, mem) \/ ForkWithoutJoin(b, h, mem)

HandleBlock(p, o) ==
  \/ IgnoreBlock(p)
  \/ AddOrphan(p, o)
  \/ /\ filterLoaded /\ ParentKnown(o.block)
     /\ \/ FreeLastBlock(o.block)
        \/ /\ lastBlock \notin Trimmed(o.block)
           /\ pastCount' = PastCounted(o.block)
           /\ \/ ~VerifyBlock(o.block) /\ RejectBlock(p, o.block)
              \/ /\ VerifyBlock(o.block)
                 /\ FollowBlock(p, o.block, NewHeight(o.block), Kept(o.block))

-----------------------------------------------------------------------------
(* The steps of the program *)

Running == fault = "none"

\* BRMerkleBlockParse: the height is unknown unless the header has it
Relayed(b) == [block |-> b, height |-> IF b \in Kawpow THEN Depth[b] ELSE UnknownHeight]

RelayedBlock(p, b) ==
  /\ Running /\ todo[p] = Idle
  /\ HandleBlock(p, Relayed(b))

\* the recursive call of _peerRelayedBlock
NextOrphan(p) ==
  /\ Running /\ todo[p].save = Empty /\ todo[p].next # NoOrphan
  /\ HandleBlock(p, todo[p].next)

\* manager->saveBlocks, called without the lock: CoreDatabase.saveBlocks copies
\* the blocks and queues one transaction, which replaces the store if the blocks
\* are more than one.
SaveBlocks(p) ==
  LET batch == todo[p].save IN
  /\ Running /\ batch # Empty
  /\ IF todo[p].alive
     THEN /\ saved' = IF Cardinality(DOMAIN batch) > 1 THEN batch
                      ELSE [x \in DOMAIN batch \cup DOMAIN saved |->
                              IF x \in DOMAIN batch THEN batch[x] ELSE saved[x]]
          /\ UNCHANGED fault
     ELSE fault' = "savedFreed" /\ UNCHANGED saved
  /\ todo' = [todo EXCEPT ![p] = [save |-> Empty, alive |-> TRUE, next |-> @.next]]
  /\ UNCHANGED <<blocks, orphans, lastBlock, estimatedHeight, filterLoaded, pastCount,
                 txHeight, rescans, restarts>>

\* _PeerManagerLoadBloomFilter
LoadBloomFilter == orphans' = Empty /\ filterLoaded' = TRUE

\* _peerConnected, for the peer that becomes the download peer
SelectDownloadPeer(p) ==
  /\ Running /\ PeerHeight[p] + PeerLag >= LastHeight
  /\ estimatedHeight' = PeerHeight[p]
  /\ LoadBloomFilter
  /\ UNCHANGED <<blocks, lastBlock, pastCount, todo, saved, txHeight, fault, rescans,
                 restarts>>

\* _peerRelayedTx: the filter misses some of the next unused addresses
ResetFilter ==
  /\ Running /\ filterLoaded /\ filterLoaded' = FALSE
  /\ UNCHANGED <<blocks, orphans, lastBlock, estimatedHeight, pastCount, todo, saved,
                 txHeight, fault, rescans, restarts>>

\* _updateFilterPingDone
UpdateFilter ==
  /\ Running /\ estimatedHeight > 0
  /\ LoadBloomFilter
  /\ UNCHANGED <<blocks, lastBlock, estimatedHeight, pastCount, todo, saved, txHeight,
                 fault, rescans, restarts>>

\* a rescan needs a connection; the download peer is replaced afterwards
RescanFrom(b) ==
  /\ Running /\ estimatedHeight > 0 /\ rescans < MaxRescans
  /\ rescans' = rescans + 1
  /\ lastBlock' = b
  /\ UNCHANGED <<blocks, orphans, estimatedHeight, filterLoaded, pastCount, todo, saved,
                 txHeight, fault, restarts>>

\* BRPeerManagerRescan: BRSetGet finds the checkpoint, or returns NULL
Rescan == RescanFrom(IF StartPoint \in DOMAIN blocks THEN StartPoint ELSE NoBlock)

RescanFromLastHardcodedCheckpoint ==
  LastCheckpoint \in DOMAIN blocks /\ RescanFrom(LastCheckpoint)

\* BRPeerManagerRescanFromBlockNumber: the block of the main chain with that
\* height, else the checkpoint with it, else the checkpoint before it or the first
RescanFromBlockNumber(n) ==
  LET onMain == {x \in Branch(blocks, lastBlock) : blocks[x].height = n}
      exact  == {c \in Checkpoint : Depth[c] = n} \cap DOMAIN blocks
      below  == {c \in Checkpoint : Depth[c] < n}
      before == {c \in Checkpoint : IF below = {} THEN \A d \in Checkpoint : Depth[c] <= Depth[d]
                                     ELSE c \in below /\ \A d \in below : Depth[d] <= Depth[c]}
      from   == IF onMain # {} THEN onMain ELSE IF exact # {} THEN exact
                ELSE before \cap DOMAIN blocks
  IN  \E b \in from : RescanFrom(b)

\* the highest saved blocks on a difficulty interval
StartBlocks ==
  LET starts == {x \in DOMAIN saved : saved[x].height % Interval = 0}
  IN  {x \in starts : \A y \in starts : saved[y].height <= saved[x].height}

\* S: what is left of the saved blocks in orphans, where those with the same
\* prevBlock overwrite one another
Loaded(S) ==
  /\ {saved[x].prev : x \in S} = {saved[x].prev : x \in DOMAIN saved}
  /\ \A x, y \in S : saved[x].prev = saved[y].prev => x = y

\* s and the blocks of S that follow it
ChainFrom(S, s) ==
  LET follows(x) ==
        LET n == saved[x].height - saved[s].height
            at[i \in 0 .. n] == IF i = 0 THEN {s} ELSE {y \in S : saved[y].prev \in at[i - 1]}
        IN  n >= 0 /\ x \in at[n]
  IN  {x \in S \cup {s} : follows(x)}

\* the blocks C are in memory with the checkpoints, those of R are orphans
Boot(C, R) ==
  /\ blocks' = [x \in Checkpoint \cup C |-> IF x \in C THEN saved[x] ELSE CheckpointBlocks[x]]
  /\ orphans' = [k \in {saved[x].prev : x \in R} |->
                   LET x == CHOOSE y \in R : saved[y].prev = k
                   IN  [block |-> x, height |-> saved[x].height]]

\* BRPeerManagerNew with the saved blocks, in any order
Restart ==
  /\ restarts < MaxRestarts
  /\ restarts' = restarts + 1
  /\ \E S \in SUBSET DOMAIN saved :
       /\ Loaded(S)
       /\ \/ StartBlocks = {} /\ Boot({}, S) /\ lastBlock' = StartPoint
          \/ \E s \in StartBlocks :
               LET C == ChainFrom(S, s) IN
               /\ Boot(C, {x \in S : saved[x].prev \notin {saved[y].prev : y \in C}})
               /\ lastBlock' \in {x \in C : \A y \in C : saved[y].height <= saved[x].height}
  /\ estimatedHeight' = 0 /\ filterLoaded' = FALSE /\ pastCount' = 0
  /\ todo' = [p \in Peer |-> Idle]
  /\ fault' = "none"
  /\ UNCHANGED <<saved, txHeight, rescans>>

Init ==
  /\ blocks = CheckpointBlocks /\ lastBlock = StartPoint
  /\ orphans = Empty /\ saved = Empty
  /\ estimatedHeight = 0 /\ filterLoaded = FALSE /\ pastCount = 0
  /\ todo = [p \in Peer |-> Idle]
  /\ txHeight = [t \in Tx |-> Unconfirmed]
  /\ fault = "none" /\ rescans = 0 /\ restarts = 0

\* a fault ends the process; the app can be started again at any time
Next ==
  \/ \E p \in Peer, b \in Block : RelayedBlock(p, b)
  \/ \E p \in Peer : NextOrphan(p)
  \/ \E p \in Peer : SaveBlocks(p)
  \/ \E p \in Peer : SelectDownloadPeer(p)
  \/ ResetFilter
  \/ UpdateFilter
  \/ Rescan
  \/ RescanFromLastHardcodedCheckpoint
  \/ \E n \in RescanHeights : RescanFromBlockNumber(n)
  \/ Restart

Spec == Init /\ [][Next]_vars

-----------------------------------------------------------------------------
(* Properties *)

\* blocks and orphans as they are stored
Objects == [height : Nat, prev : Block \cup {NoBlock}]
Orphans == [block : Block, height : Nat \cup {UnknownHeight}]

Memory(f) == DOMAIN f \subseteq Block /\ f \in [DOMAIN f -> Objects]

\* Every variable keeps the type of the C data it models; manager->lastBlock is
\* never NULL, whatever was trimmed, rescanned or restored.
TypeOK ==
  /\ Memory(blocks) /\ Memory(saved)
  /\ DOMAIN orphans \subseteq Block \cup {NoBlock}
  /\ orphans \in [DOMAIN orphans -> Orphans]
  /\ lastBlock \in Block
  /\ estimatedHeight \in Nat /\ filterLoaded \in BOOLEAN /\ pastCount \in 0 .. PastBlocks
  /\ DOMAIN todo = Peer
  /\ \A p \in Peer : /\ Memory(todo[p].save) /\ todo[p].alive \in BOOLEAN
                     /\ todo[p].next \in Orphans \cup {NoOrphan}
  /\ txHeight \in [Tx -> Nat \cup {Unconfirmed}]
  /\ fault \in {"none", "lastFreed", "noMainBlock", "noJoin", "savedFreed"}

\* The height given to a block when its parent was in memory is its true height,
\* in memory and in the store, through orphans processed late, reorganisations,
\* trimming, rescans and restarts (what "height must be saved/restored along with
\* serialized block" in BRPeerManagerNew relies on).
HeightsCorrect ==
  /\ \A b \in DOMAIN blocks : blocks[b].height = Depth[b]
  /\ \A b \in DOMAIN saved : saved[b].height = Depth[b]

\* The trimming in _PeerManagerVerifyBlock, which frees blocks of any branch, never
\* frees a checkpoint: BRPeerManagerRescan always finds the one it starts from.
CheckpointsKept == Checkpoint \subseteq DOMAIN blocks

\* No block that differs from a checkpoint of its height is ever accepted, whether
\* it arrives in order, as an orphan, on a fork or from the store.
CheckpointsRespected ==
  \A b \in DOMAIN blocks : \A c \in Checkpoint : Depth[c] = Depth[b] => b = c

\* The last checkpoint is not below DGW_START_BLOCK: so it is for each network of
\* BRChainParams.c.
LateCheckpoint == DGWStart <= Depth[LastCheckpoint]

\* "set transaction heights for new main chain" (BRPeerManager.c:1362): in a process
\* that has not rescanned, every transaction of the main chain is confirmed in the
\* wallet, at the height of its block, after any number of reorganisations.  A
\* confirmation of a branch that was left may survive (ConfirmedByChain in Wallet), and
\* does no harm to those of the chain.
ConfirmedOnMain ==
  LateCheckpoint /\ rescans = 0 /\ restarts = 0 =>
    \A x \in Ancestors(lastBlock) : \A t \in TxOf[x] : txHeight[t] = Depth[x]

\* "make sure the set of blocks to be saved starts at a difficulty interval": so
\* does the store, whichever threads' batches reach it and in whatever order.
SavedFromTransition ==
  DOMAIN saved # {} => Lowest(saved, DOMAIN saved) % Interval = 0

\* "check if the next block was received as an orphan": in a process that has not
\* rescanned, no orphan is left behind once its parent is part of a chain.
OrphansWait ==
  (rescans = 0 /\ restarts = 0) =>
    \A k \in DOMAIN orphans \cap DOMAIN blocks : blocks[k].height > LastHeight

\* The tip only moves to a higher block, unless the user rescans or restarts.
MovesForward ==
  [][\/ lastBlock' = lastBlock
     \/ Depth[lastBlock'] > Depth[lastBlock]
     \/ rescans' # rescans \/ restarts' # restarts]_vars

-----------------------------------------------------------------------------
(* What comments in the code say, and the code does not keep *)

\* "make a copy before crossing thread boundary" (CoreDatabase.saveBlocks): the
\* blocks a thread hands to saveBlocks, after it has released manager->lock, are
\* still allocated when they are copied.
SavesAlive == \A p \in Peer : todo[p].alive

\* "verifies the block difficulty target is correct for the block's position in
\* the chain" (BRMerkleBlockVerifyDifficulty): a block with the right target that
\* extends the main chain passes.
GoodTargetVerified ==
  filterLoaded =>
    \A b \in Block \ BadTarget : Prev[b] = lastBlock => DifficultyVerified(b)
=============================================================================
