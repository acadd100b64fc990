# TLA+ verification of the Ravencoin wallet core

This directory specifies the core of the wallet: the C library in `Modules/core` that
follows the block chain over SPV connections and keeps the user's ledger, the part of
the Swift app that stores what the library hands it, and the app's replicated key-value
store. The modules are written from the code; each definition names the function it
stands for and `PROJECT.json` ("map") gives its lines.

| file | content |
| --- | --- |
| `Wallet.tla` | `BRWallet.c`: transactions, address chains, ledger |
| `WalletLemmas.tla`, `WalletProofs.tla`, `WalletFresh.tla` | proofs about `Wallet`: its operators; the inductive invariant; the cached ledger |
| `MCWallet.tla`, `MCWallet*.cfg` | transactions and bounds for TLC |
| `Chain.tla` | `BRPeerManager.c`: block tree, orphans, reorganisation, rescan, store, restart |
| `ChainProofs.tla`, `ChainFresh.tla` | proofs about `Chain`: branches, batches, the inductive invariant; orphans and confirmations |
| `MCChain.tla`, `MCChain*.cfg` | block trees and bounds for TLC |
| `Publish.tla`, `PublishPromise.tla` | `BRPeerManager.c`: connections, publishing; what a publish callback is promised |
| `PublishProofs.tla` | proofs about `Publish`, the refinement among them |
| `MCPublish.tla`, `MCPublish.cfg` | peers, transactions and bounds for TLC |
| `BRSet.tla`, `AbstractSet.tla` | `BRSet.c`: the hash table; the set it implements |
| `BRSetProofs.tla` | proofs about `BRSet`, the refinement among them |
| `MCBRSet.tla`, `MCBRSet.cfg` | items, hashes and table sizes for TLC |
| `KVStore.tla` | `BRReplicatedKVStore.swift`: devices that synchronise with a remote store |
| `KVStoreProofs.tla` | proofs about `KVStore` |
| `MCKVStore.tla`, `MCKVStore*.cfg` | devices and bounds for TLC |
| `PROJECT.json` | components, runs, mutants, source map, findings, hazards, theorems |

To run: `tlc -config MCWallet.cfg MCWallet` (any other cfg with the module whose
name it begins with) and `tlapm ChainProofs.tla` (likewise the other proof modules).

## 1. Inventory

### Components, their state and operations

**Wallet** (`BRWallet.c`). State: `transactions` (ordered array), `allTx` (hash set
that owns the transactions, foreign ones included), `blockHeight`, the external and
internal address chains, and the ledger computed by `_BRWalletUpdateBalance`:
`utxos`, `spentOutputs`, `invalidTx`, `pendingTx`, `usedAddrs`, `balance`,
`balanceHist`, totals. Operations: register, remove (with dependents), update
heights and timestamps, unconfirm after a height, generate addresses, validity
query, transaction creation. It has a lock of its own, released between the parts
of a removal. *Correct if* the cached ledger is what the transactions imply, no
output counts twice, nothing freed stays listed, and heights follow the chain.

**Block tree and sync** (`BRPeerManager.c`, `BRMerkleBlock.c`). State: `blocks`,
`orphans`, `checkpoints`, `lastBlock`, `lastOrphan`, `estimatedHeight`, the bloom
filter, and a static counter inside `BRMerkleBlockVerifyDifficulty`. Operations:
`_peerRelayedBlock` (orphan, extend, known block, fork, reorganisation),
`_PeerManagerVerifyBlock` (difficulty, checkpoints, trimming of old blocks), the
three rescans, `BRPeerManagerNew` from the saved blocks. *Correct if* heights are
right, checkpoints are kept and respected, the tip only moves up, the wallet's
confirmations are those of the main chain, and what is saved can be restarted from.

**Persistent store** (`CoreDatabase.swift`). State: tables of blocks, transactions
and peers. Operations: `saveBlocks` (replace, or add a single block), `loadBlocks`,
transaction add/update/delete; each on its own queue. *Correct if* what is loaded
after a stop at any point is a state the core can continue from.

**Peer manager: connections** (`BRPeerManager.c`). State: `peers`,
`connectedPeers`, `downloadPeer`, `connectFailureCount`, `missBehavingCount`,
`syncStartHeight`. Operations: connect, disconnect, `_peerConnected`,
`_peerDisconnected`, filter update, sync timeout. *Correct if* a download peer is
always replaced or the failure is reported, and the filter covers the wallet's
addresses while blocks are downloaded.

**Transaction publishing** (`BRPeerManager.c`). State: `publishedTx`,
`publishedTxHashes`, `txRelays`, `txRequests`. Operations: publish, inv/getdata/
reject/relay callbacks, ping callbacks, timeouts. *Correct if* each publish callback
is called exactly once and no transaction is dropped that a peer still relays.

**Peer protocol** (`BRPeer.c`). State: connection status, handshake flags, ping
callbacks, pending block hashes, timers. Operations: one handler per message.

**Hash set** (`BRSet.c`), used by all of the above: open addressing with
backward-shift deletion and growth. *Correct if* it is a set.

**Replicated key-value store** (`BRReplicatedKVStore.swift`). State: the versioned
rows of each key, the remote version last recorded, `syncRunning`. Operations: `set`,
`del`, `setRemoteVersion`, `syncAllKeys`, `syncKey`. *Correct if* a recorded version
means the same value on both sides, a fetch never replaces a newer local write, every
sync ends and all devices agree in the end.

**Partial merkle tree, bloom filter, coin selection, assets, keys, encodings,
hashes**: algorithms without shared state (`BRMerkleBlock.c`, `BRBloomFilter.c`,
`BRWallet.c`, `BRTransaction.c`, `BRAssets.c`, `BRScript.c`, `BRKey.c`, ...).

**Other Swift code**: `BRCore.swift` and `WalletManager.swift` forward callbacks;
`WalletManager+Auth.swift` counts PIN attempts and wipes; the rest is user interface
and HTTP plumbing.

### How they interact

Each peer has a thread. Its message handlers call the peer manager's callbacks,
which run with `manager->lock` held and call the wallet, whose functions take
`wallet->lock`. The user's thread calls the wallet directly
(`BRWalletReceiveAddress`, transaction creation) and the peer manager (connect,
rescan, publish). `saveBlocks` and the wallet's `txAdded`/`txUpdated`/`txDeleted`
callbacks run after the respective lock is released and enqueue database work.

### What is hard

The list with lines is in `PROJECT.json` ("hazards"). In short:

- pointers that cross an unlock (`saveBlocks`), removals done in several critical
  sections, the reads of `BRWalletUnusedAddrs` between them;
- blocks in any order from several peers: orphans, postponed blocks, a rescan or a
  filter reload in the middle, forks that begin where memory was trimmed;
- a restart between a batch and the next one, saved blocks loaded in any order;
- caches: the ledger is recomputed only on some updates, the array is sorted only at
  insertion, the static difficulty counter is never reset;
- arithmetic of block heights as `uint32_t` with `TX_UNCONFIRMED = INT32_MAX`;
- publish callbacks that must come once although five handlers of several threads may
  take them, one disconnect time for two kinds of timeout, decisions made under the
  lock and acted on after it;
- a hash table that moves its items while it is being walked;
- syncs of several devices over a network that loses answers and delivers late, with
  the app writing, or stopping, between two database transactions.

## 2. Plan

| order | module | models | status |
| --- | --- | --- | --- |
| 1 | `Wallet`, `WalletProofs` | `BRWallet.c`: ledger, order, removals, reorganisation | done |
| 2 | `Chain`, `ChainProofs`, `ChainFresh` | block tree, store of blocks, restart | done |
| 3 | `Publish`, `PublishPromise`, `PublishProofs` | publishing, connections, download peer, timeouts, disconnects | done |
| 4 | `BRSet`, `AbstractSet`, `BRSetProofs` | the hash set implements a set | done |
| 5 | `KVStore`, `KVStoreProofs` | replicated store, with faults and liveness | done |
| 6 | proofs | every safety property of the passing runs; that `Publish` implements `PublishPromise` and `BRSet` implements `AbstractSet` | done |
| 7 | `Sync` | composition of `Chain` and `Wallet`, transaction table of the store | open |
| 8 | `TxRelays` | relay counts, removal of unrelayed transactions, filter updates | open |
| 9 | `PinAuth`, `Coins`, `MerkleTree` | PIN lock-out; coin selection and the partial merkle tree against a reference | open |

Theorems worth proving next: with `Sync`, that the composition of `Chain` and `Wallet`
gives `Wallet` the consistent chain it assumes.

## 3. Wallet

The variables are the fields of `struct BRWalletStruct` of the same name; `height`
and `timestamp` are fields of each transaction. `chain` is the environment: the
confirmed blocks as far as the peer manager has followed them, which obey consensus
(`ConsistentChain`: confirmed once, after the parents, no conflicts). Amounts are
small numbers; an address is a chain and an index; an outpoint is a transaction and
an output number.

| action | code |
| --- | --- |
| `Init` | `BRWalletNew` on the rows of the database |
| `RegisterTransaction` | `BRWalletRegisterTransaction` |
| `RemoveTransaction`, `RemoveStep` | `BRWalletRemoveTransaction`, one critical section a step |
| `MarkTransaction` | `BRWalletUpdateTransactions(TX_UNCONFIRMED)` by relay counts |
| `NewBlock`, `UpdateStep` | `BRWalletUpdateTransactions` for a block |
| `Reorg`, `UpdateStep` | `BRWalletSetTxUnconfirmedAfter`, then an update per block of the fork, newest first |
| `GenerateAddrs` | `BRWalletUnusedAddrs` |
| `Tick` | `time(NULL)` advances |

All mutators but `BRWalletUnusedAddrs` run with `manager->lock` held, so they do not
overlap; `calls` is what the holder still has to call. `IsAscending` and `IsValid` bound
the recursion over ancestors by the number of transactions, which no chain of parents
exceeds. The loops of `_BRWalletUpdateBalance` and `BRWalletNew` and the two recursions
are recursive functions, so that theorems can be proved about them. Sizes matter only
through `Oversize`, sequences through `FinalSequence`. The two calls of
`BRWalletUnusedAddrs` that follow a registration after the unlock (1404-1405) are part
of `RegisterTransaction`: whoever comes in between can only generate addresses, from the
same set of used ones, and no more than those calls do. Not modelled: dust outputs of
`BRWalletTransactionIsPending`, asset outputs, signing, transaction creation and fee
computation.

### Runs

Transactions (`MCWallet.tla`): A pays the wallet, B and C both spend A's output (a
double spend), D spends B's change to an address of the wallet and is time locked, E
is an unrelated payment. Since D pays the wallet, it may arrive before B, and B is then
put into the list behind it. The database (`Saved`) is a set of rows, in the order in which
it happens to return them, with the chain of the blocks saved with them.

| run | bounds | result |
| --- | --- | --- |
| `wallet` | A–D, 2 blocks, 1 reorganisation of depth 1, 1 clock tick, gap limit 1, database empty, with A confirmed, or torn (below); 128,807 distinct states | passes |
| `wallet_conflict` | A–D | violates `BalanceExcludesInvalid` |
| `wallet_reorg` | A–E, 3 blocks | violates `ConfirmedByChain` |
| `wallet_lock` | A–E, 3 blocks | violates `LockOpensAtHeight` |

The passing run checks `BalanceIsUtxoSum`, `HistoryMatches`, `NoDoubleCount`,
`ConfirmedIsCounted`, `UtxosUnspent`, `NoDanglingTx`, `LedgerFresh`,
`ValidityAgrees`, the action property `RemovesOnlyDependents` and the liveness
property `CallsReturn`. The bounds are the least that give a double spend with a
dependent on the losing side, a removal that recurses, a lock that opens, and a
reorganisation that takes back a confirmation and confirms the other side. The torn
database (`MCTornWallet`) is what a stop between the row updates of a reorganisation
leaves: A is unconfirmed again, its child C is not yet, C comes first, and C is the
wallet's for no other reason than that it spends A. Addresses
are generated while a removal is under way. `UIntMod` (64) and `Unconfirmed` (31) stand for
2^32 and 2^31 - 1 and keep their order relative to all heights.

`ValidityAgrees` is stated for transactions whose unconfirmed ancestors are listed in
order, because without that it is false, in this instance too: a new wallet is told of
D, which pays it, then of C, then of D's parent B, which is put at the end of the list.
B is invalid, because C spends the same output; but the ledger, which goes through the
list once, has counted D before it finds that out, while `BRWalletTransactionIsValid`
walks from D to B and says that D is not valid. The balance then holds a payment that the
wallet reports as invalid. The attempt to prove the unconditional form led to this case.

`LockOpensAtHeight` asks that a transaction that was held back as pending and is still
unconfirmed joins the balance only when the chain has reached its lock height. In the
counterexample D is registered at height 2 and is pending, as its lock height is 9; then
the peer manager marks it as verified, with `TX_UNCONFIRMED` for the height. That raises
`wallet->blockHeight`, and since D is pending the ledger is recomputed: D is counted.
Were 1594 to leave `TX_UNCONFIRMED` out, TLC finds no violation up to a depth of 12
steps. The property leaves out blocks below `LockWindow`, where `wallet->blockHeight -
180` wraps (179); the wrap is in the model, but no property is about it.

Deadlock is checked: address generation is always possible, as it is in the code.

**Fairness.** The only assumption is that the thread that holds `manager->lock`
goes on with its calls (`Fairness`, weak fairness of `ManagerCall`): nothing in
those calls waits for anything but `wallet->lock`, whose critical sections are
finite. It is written with `[]<>` over a state predicate, because `ManagerCall` is
enabled exactly when `calls` is not empty.

## 4. Chain

A block stands for its hash; `Prev` and `Depth` are the true tree, of which the
program sees what peers relay. `blocks`, `orphans`, `lastBlock`, `estimatedHeight`
are the manager's fields; `pastCount` the static counter of
`BRMerkleBlockVerifyDifficulty`; `saved` the block table; `txHeight` the wallet as
the block tree sees it (its own finer behaviour is in `Wallet`).

`_peerRelayedBlock` runs with `manager->lock` held and is one step, `RelayedBlock`.
After the unlock the thread calls `saveBlocks` and then recurses on the orphan that
was waiting for the block; `todo[p]` holds both, `SaveBlocks` and `NextOrphan` are
the steps, and other threads come in between. `todo[p].alive` records whether all of
the pointers in the batch still refer to allocated blocks.

`fault` records a use of a NULL or freed block: `lastFreed` (the tip was trimmed by
a fork below it), `noMainBlock` and `noJoin` (a walk back runs out of blocks in
memory), `savedFreed`. A fault ends the process; `Restart` starts it again from the
store, or at any other moment.

| action | code |
| --- | --- |
| `RelayedBlock`, `NextOrphan` | `_peerRelayedBlock`: `IgnoreBlock`, `AddOrphan`, `RejectBlock`, `Extend`, `ExistingBlock`, `PostponeBlock`, `IgnoreOldFork`, `AddFork`, `Reorganize` and the faults are its branches |
| `SaveBlocks` | `CoreDatabase.saveBlocks` |
| `SelectDownloadPeer` | `_peerConnected` |
| `ResetFilter`, `UpdateFilter` | `_peerRelayedTx`, `_updateFilterPingDone` |
| `Rescan`, `RescanFromLastHardcodedCheckpoint`, `RescanFromBlockNumber` | the functions of those names |
| `Restart` | `BRPeerManagerNew` on the saved blocks, in any order |

Abstractions: whether a block's target is right is a constant (`BadTarget`); the moving
average itself is not computed, only whether the blocks it needs are in memory
(`TargetComputable`), and with fewer its result is taken to be wrong. Stale blocks are a
constant set, and so are those whose header carries a height (`Kawpow`). The order of
the wallet's array, at which the scan of `BRWalletSetTxUnconfirmedAfter` stops early, is
`Wallet`'s: in a reorganisation any of the transactions above the join may keep its
height as soon as one is confirmed at or below the join (`KeptHeights`). Not modelled:
`lastOrphan` (it only avoids a repeated `getblocks`), block locators, timeouts, the
false positive rate (its effect, a reload of the filter, is a choice), bare headers near
`earliestKeyTime`, peers' misbehaviour counts.

### Runs

`MCChain.tla` has the tree g0–a1–a2–(a3 | b3–b4–b5) with checkpoints g0 and a2, and
x2, a child of a1 that contradicts a2; a4 and a5 make the branch longer for the runs from
a later checkpoint.

| run | bounds | result |
| --- | --- | --- |
| `chain` | two peers that report heights 4 and 0, interval 2, DGW from height 5 over 2 blocks, b5 with a wrong target, 1 rescan, 1 restart; 554,953 distinct states | passes |
| `chain_dgw` | a1 is the last checkpoint, between two intervals, DGW from height 1, three transactions; 505,231 distinct states | passes |
| `chain_save` | two peers | violates `SavesAlive` |
| `chain_rescan` | a rescan after the counter has passed | violates `GoodTargetVerified` |

`chain` checks `HeightsCorrect`, `CheckpointsKept`, `CheckpointsRespected`, `OrphansWait`
and `MovesForward`; `chain_dgw` checks `SavedFromTransition` and `ConfirmedOnMain` in the
setting of the shipped networks. The interval 2 lets a branch of five blocks cross two
transitions, so that trimming, partial batches and a fork across a trimmed part all
happen. The faults `lastFreed`, `noMainBlock` and `noJoin` are reached in `chain`, and
`savedFreed` follows the state that `chain_save` finds.

`ConfirmedOnMain` says what the loop at 1361 is for: every transaction of the main chain
has the height of its block. It does not say that nothing else is confirmed, which is
false: see `wallet_reorg`. It is stated for networks whose last checkpoint is not below
`DGW_START_BLOCK` (`LateCheckpoint`). That holds for every set of parameters in
`BRChainParams.c` (1195000 and 240000 against 338778 and 6048; regtest has 0), and it is
what makes every reorganisation find its join: forks from below the last checkpoint are
dropped (1328), and above it nothing is trimmed, because the interval is 1. With
`Interval` 2 and a checkpoint below `DGWStart`, as in `chain`, a fork can outgrow the
part of the main chain in memory; the branches `noJoin` and `noMainBlock` of the model
are there for that, and no shipped network reaches them.

`ConfirmedOnMain` and `OrphansWait` are stated for a process that has neither rescanned
nor restarted: a rescan deliberately confirms again from an earlier block, and keeps
orphans whose parents are above the new tip.

The chain runs do not check deadlock: a fault ends the process, and the bound on
restarts then leaves no step.

## 5. Publish

One lock guards the peer manager, and a handler that runs under it is one step. What the
code does after the unlock is a step of its own, with the decision taken before it kept
in a variable: `due` (callbacks to call), `reconnect` (threads that will call
`BRPeerManagerConnect`), `midConnect` (threads that have released the lock in it, to
call `syncStarted` or to wait for DNS answers in `_PeerManagerFindPeers`), `pub[t] =
"asking"` (`BRPeerManagerPublishTx` between its two).

`status[p]` is the place of a peer's object: in `connectedPeers` from "connecting" to
"ended". A peer whose own handler closed its socket is "closed"; one that another
thread disconnected may still handle a message, and ends in its own time. `timed`
has the peers with a disconnect time, whichever reason set it, as the code has one
field for all. `inv[p]` are the pending transactions p was told of, `load[p]` what its
filter and mempool callbacks wait for. `owner[t]` says who frees the transaction:
the app, the published list, the wallet, or nobody any more. Heights are reduced to
`behind` (the chain is below what the download peer reported).

One assumption is about the network. A transaction is signed here and published once, so
while its callback is pending nobody else has it: a peer announces it only if this node
told it the hash, and a transaction that a peer sends, or that a block confirms, is in
the wallet by then (`t \in inWallet` in `HasTx`, `RelayedTx` and `RelayedBlock`). The
code has no such guard: `_PeerManagerUpdateTx` (439-449) would drop a listed entry that
a block confirms together with its callback.

| action | code |
| --- | --- |
| `Connect`, `ConnectRelocked`, `Disconnect` | `BRPeerManagerConnect`, `BRPeerManagerDisconnect` |
| `PublishTx`, `PublishTxRelocked` | `BRPeerManagerPublishTx` |
| `ConnectedMisfit`, `ConnectedOther`, `ConnectedDownload` | `_PeerDidConnect` and the branches of `_peerConnected` |
| `RequestedTx`, `HasTx`, `RelayedTx` | `_peerRequestedTx`, `_peerHasTx`, `_peerRelayedTx` |
| `RelayedBlock` | `_peerRelayedBlock`, as far as it reaches timeouts and the published list |
| `LoadBloomFilterDone`, `MempoolDone` | the callbacks of those names, success |
| `ThreadEnds` | the end of `_peerThreadRoutine`: failed pongs |
| `PeerDisconnected` | `_peerDisconnected` up to the unlock |
| `CallCallback` | `txCallback(txInfo, error)` |

### Run

| run | bounds | result |
| --- | --- | --- |
| `publish` | 2 peers, 2 transactions, `MAX_CONNECT_FAILURES` 1, at most one thread that reconnects; 833,867 distinct states up to symmetry | passes |

- `CalledOnce`: `Publish` implements `PublishPromise`, in which a transaction goes from
  idle to waiting to called and never on from there. `BRCore.swift` releases a closure
  in the callback, so a second call would use freed memory. That the callback comes at
  all is not promised: see below.
- `PendingIsListsOwn`: a transaction with a pending callback is the list's alone, so
  the free at `BRPeerManager.c:868`, which does not ask the wallet, frees nothing the
  wallet has.
- `AnnouncedIsTimed`: a peer that was told of a pending transaction has a disconnect
  time, although the same field is cancelled for other reasons.
- `DownloadPeerLive`: `downloadPeer` is never a peer that was freed.

Two peers are the least that give a download peer and another one that answers for it;
two transactions the least for "cancel the timeout, unless another callback is pending".
With one allowed failure both the reconnect and the giving up happen. The sets of peers
and transactions are symmetric, and every property is a safety property. Deadlock is
checked.

Met on the way, and listed as hazards because nothing in the repository says
otherwise: a publish callback can stay pending with no peer left until the next
`BRPeerManagerConnect`, because the last peer gives up between the two locks of
`BRPeerManagerPublishTx` (2028) or because failures count past `MAX_CONNECT_FAILURES`
without being equal to it (851); a mempool answer of a peer that was replaced ends the
sync and cancels the sync timeout of the new download peer (564).

## 6. BRSet

`sets[s]` is the struct with its table of buckets; items have keys (equality) and
hashes. The operators follow the C functions bucket by bucket: probing from the hash,
growth above the load factor, the reinsertion of what follows a removed item,
`BRSetIntersect` with its bucket examined again (`IntersectTurn`). A probe is the bucket
it ends at; a loop over buckets is a recursive function of its turns. `call` and `ret`
hold the last call and its result, so that the abstract specification speaks about
results too.

`AbstractSet` is what `BRSet.h` promises: contents as a set of items in which no two are
equivalent. `ImplementsSet` is the refinement, with the items in the table for the
contents; it covers what every call changes and what it returns. `ProbesEnd` says that
there is an empty bucket and that every item is found from its hash, `IterationComplete`
that `BRSetIterate` gives each item once and ends.

| run | bounds | result |
| --- | --- | --- |
| `brset` | 2 sets, 3 keys, one with 2 equivalent items, table sizes 1, 3, 7; 16,498 distinct states | passes |

The hashes put two keys into bucket 5 of 7 and one into bucket 6, so that a run of
items wraps round the end of the table, and the third item makes a table of 3 grow: the
cases of a removal before, in and after a wrapped run, of a growth during a union, and
of an intersection that moves items behind the walk all occur. A call with one set as
both arguments is not modelled; the wallet and the peer manager make none.

## 7. KVStore

Several devices share one remote store, which is external: it is modelled from the
protocol `BRRemoteKVStoreAdaptor`, its HTTP client, and the adaptor of the repository's
tests. A put or delete must name the present version, or 1 where there is none.
Each database transaction and each handling of a request by the remote is a step;
`job[d][k]` says how far `_syncKey` has got, `late` has the requests whose answer
nobody waits for any more. `single[d]` says that the sync was started by `syncKey`. A get of
version 0 may give the newest value, as the protocol's comment says, or a conflict, as the
adaptor of the tests does.

| action | code |
| --- | --- |
| `Set`, `Del` | `set`, `del` of the app, at any time |
| `SyncAllKeys`, `KeysAnswered` | `syncAllKeys` and the completion of `remote.keys` |
| `SyncKey`, `VerAnswered` | `syncKey` and the completion of `remote.ver` |
| `ReadRecorded`, `Decide` | the two reads of `_syncKey` |
| `RemoteWrites`, `RemoteReads` | the remote answers put, del, get |
| `Store`, `Drop`, `Mark` | `_set`, `_del`, `setRemoteVersion`, each in its transaction |
| `StoreMalformed` | the fetched value cannot be decrypted: the row is deleted |
| `Throw` | a database transaction, or the decryption of the row, throws |
| `Unanswered`, `LateArrives`, `Restart` | lost answers or requests, late requests, the app stopped |

| run | bounds | result |
| --- | --- | --- |
| `kvstore` | 2 devices, 1 key, 2 writes, 1 fault, 1 overlapping sync; 317,470 distinct states | passes |
| `kvstore_throw` | the same | violates `SyncEnds` |

One key is enough because `_syncKey` handles each alone; two devices and two writes give
every conflict between a local and a remote value, one fault is a lost put that was
applied, one that arrives late, a stop between `_set` and `setRemoteVersion`, a value that
cannot be decrypted, or an error thrown in `_syncKey`.

Where `_syncKey` throws decides what becomes of the sync. Its writing transactions are
in blocks that catch the error and complete; its two reads (579, 590-591) are not. Under
`syncAllKeys` the caller catches that too (518-523), so such a sync always ends
(`AllKeysSyncEnds`). Under `syncKey` nothing does: `syncRunning` stays set with no job
left, and every sync after it is refused (`SyncEnds`, run `kvstore_throw`). For the same
reason `Converges` has the premise that every device finds no sync running again and
again.

**Fairness** (`FairSpec`). A running sync goes on (weak fairness of `KeysAnswered` and
`JobStep`): its steps are database transactions and completions that the HTTP client
calls with an answer or an error. A request under way arrives in the end. The last
assumption is the user's part: whoever has the store goes on calling `syncAllKeys`
(strong fairness, since `syncRunning` refuses it now and then). At this commit only
the tests call it, so `Converges` says what the store gives to a caller that does.
`AllKeysSyncEnds` does not rest on it.

`AllKeysSyncEnds` and `Converges` are checked under it, and `SyncEnds` is violated under
it. `Converges` also rests on the bound on overlapping syncs, and not by accident:
`_set` and `setRemoteVersion` stamp a row with the time of the recording, so a device
that has just fetched a value looks newer than the one that wrote it. Two devices whose
syncs overlap again and again can then overwrite each other for ever. The comment on
`_syncKey` says that concurrency "will be so low" that this is acceptable; the model
states that as finitely many overlaps.

## 8. What is proved

Each theorem holds for every value of the constants that meets the named assumptions:
every set of transactions, block tree, set of peers, devices and keys, and every bound.
TLC evaluates the assumptions in the runs of the module.

| module | theorem | statement |
| --- | --- | --- |
| `WalletProofs` | `Invariance` | `Spec => []IInv` |
| | `TypeCorrect` | `TypeOK`: heights, totals and balance keep their types, none below zero |
| | `BalanceIsTheSum` | `BalanceIsUtxoSum` |
| | `HistoryIsComplete` | `HistoryMatches` |
| | `ConflictsCountOnce` | `NoDoubleCount` |
| | `ConfirmedCounts` | `ConfirmedIsCounted` |
| | `UtxosAreUnspent` | `UtxosUnspent` |
| | `NothingDangles` | `NoDanglingTx` |
| | `RemovalIsContained` | `RemovesOnlyDependents` |
| `WalletFresh` | `CacheInvariance` | `Spec => []CacheInv` |
| | `LedgerIsFresh` | `LedgerFresh` |
| | `ValidityIsKnown` | `ValidityAgrees` |
| `ChainProofs` | `Invariance` | `Spec => []IInv` |
| | `TypeCorrect` | `TypeOK`, including that `lastBlock` is never NULL |
| | `HeightsAreCorrect` | `HeightsCorrect` |
| | `CheckpointsAreKept` | `CheckpointsKept` |
| | `CheckpointsAreRespected` | `CheckpointsRespected` |
| | `StoreStartsOnTransition` | `SavedFromTransition` |
| | `TipMovesForward` | `MovesForward` |
| `ChainFresh` | `OrphansAreTaken` | `OrphansWait` |
| | `ConfirmationsFollowChain` | `ConfirmedOnMain` |
| `BRSetProofs` | `TablesStayWellFormed` | `Spec => []TablesInv` |
| | `TypeCorrect` | `TypeOK` |
| | `ProbesAlwaysEnd` | `ProbesEnd` |
| | `IterationIsComplete` | `IterationComplete` |
| | `TablesImplementSets` | `ImplementsSet`: `BRSet` implements `AbstractSet` |
| `PublishProofs` | `Invariance` | `Spec => []IInv` |
| | `TypeCorrect` | `TypeOK` |
| | `FreesOnlyItsOwn` | `PendingIsListsOwn` |
| | `AnnouncedPeersAreTimed` | `AnnouncedIsTimed` |
| | `DownloadPeerNeverDangles` | `DownloadPeerLive` |
| | `CallbackComesOnce` | `CalledOnce`: `Publish` implements `PublishPromise` |
| `KVStoreProofs` | `Invariance` | `Spec => []IInv` |
| | `TypeCorrect` | `TypeOK` |
| | `ShortcutIsSound` | `SyncedMeansSame` |
| | `AppWritesAreKept` | `OverwritesOnlyOlder` |

### Assumptions

- `WalletAssumption`: types of the constants; heights are below `TX_UNCONFIRMED`.
- `SpendsAssumption`: no two transactions spend each other. An input names a transaction
  by its hash.
- `SavedAssumption`: what the database may hold when the wallet starts. `BRWalletNew`
  does not check that a loaded transaction is the wallet's (it looks at the first one
  only), and relies on the database, which holds what an earlier wallet registered: no
  transaction twice, and each pays an address or spends an output that does. Nothing is
  asked of the order of the rows (`loadTransactions` has no `ORDER BY`), nor of a
  parent's row: it may come later, be unconfirmed under a confirmed child, or not be
  there. The saved blocks are a consistent chain. Left out are two kinds of rows. One is
  a row whose only tie is an address beyond those generated at start (a spare one; the
  peer manager generates those again before it loads a filter, so before any mutator
  runs). The other is a row that pays no address and spends only outputs of parents that
  are in the saved blocks but whose own rows are missing or say otherwise, as after a
  parent that was confirmed while the wallet did not own it, or a stop inside a
  reorganisation's row updates while the store still has the blocks above the join. (One
  serial queue makes all changes, `CoreDatabase.swift:40`, and the blocks are saved after
  the heights they gave.) With such a row `NoDanglingTx` would not follow: take the list
  D, X, A, where D only spends A, the saved chain has A and its row is unconfirmed. X is
  confirmed, A is removed and the scan for dependents stops at X, so D stays. When D is
  confirmed, `_BRWalletContainsTx` rejects it and `BRWalletUpdateTransactions` frees it
  while it is listed.
- `ChainAssumption`: types; a block is one higher than its parent.
- `CheckpointAssumption`: one checkpoint per height and a last one, no two in a row,
  each on an interval boundary or above `DGWStart`, as the comment on `BRChainParams`
  demands and its arrays have it.
- `TxAssumption`: a chain has a transaction once, and none of the wallet's up to
  `StartPoint`, which `BRPeerManagerNew` chooses older than `earliestKeyTime`.
- `SizesAssumption`: the sizes grow, a table at its threshold has an empty bucket, and one
  that has just grown takes its items without growing again. All entries of `tableSizes`
  but the first meet it, and the first is never the size of a table, because `_SetInit`
  takes the entry after the first one that is not below the capacity.
- `CapacityAssumption`: the last entry of `tableSizes`, about 2^32 buckets, is never
  outgrown. The code reads behind the array otherwise.
- `KeyAssumption`: an item is not NULL, a hash is a natural number.
- `PublishAssumption`, `KVAssumption`: limits are positive, `None` is no peer, there is
  a key, bounds are numbers.

### Wallet

`IInv` has these parts. `ListInv`: the list is injective and made of allocated
transactions. `OwnInv`: each has a `Reason` to be the wallet's or is `Loaded`, which is
what makes `NoDanglingTx` inductive: `BRWalletUpdateTransactions` frees a confirmed
transaction that `_BRWalletContainsTx` rejects without looking at the list, so no listed
one may be rejected at that moment. A registered transaction that only spends the
wallet's money loses its tie when the parent is removed; that its removal comes first is
because the list has the parent before it (`Before`) and the scan for dependents stops
only at lower heights. For one from the database neither need be so: its parent may
stand behind it, or be missing, and be removed without it. But it is not confirmed
before its parent is (`ConsistentChain`), and a transaction that the chain has is
allocated (`Held`): removals take unconfirmed ones only, and are not started between the
updates of a block. So when the update that could free it comes, its tie is there.
`LedgerInv`: the ledger is right for the present list and heights (`LedgerOK`).
`CallsInv`: what is to be removed is unconfirmed with nothing but unconfirmed ones
behind it (`Trailing`), so the scan reaches every dependent, and each call waits for one
that is to be removed later (`Awaited`); updates are those of blocks of the chain.
`StateInv` and `ChainInv` are types and the consistency of the chain.

1. `WalletLemmas` has what the operators compute: a selection keeps order and members
   (`SelectIs`), an insertion keeps the rest in order (`InsertIs`), a sum changes by what
   is added and taken (`SumChange`), and address chains only grow (`ExtendChainsIs`).
2. `LedgerStepOK`: a turn of the loop of `_BRWalletUpdateBalance` keeps `LedgerOK`, in
   each of its three branches; hence the whole loop does. The recursive functions are
   unfolded one step at a time, and facts about all steps follow from the least
   counterexample (`NatLeast`).
3. One lemma per action. Where the code does not recompute the ledger, `LedgerOK` carries
   over because what changed was neither pending nor invalid.
4. `WalletFresh` compares two runs of the loop, one with the heights and addresses of the
   last recomputation (`Cached`), one with those of now: as long as the same transactions
   are pending, every turn decides alike (`SameTurn`). For `ValidityAgrees` the recursion
   over ancestors is compared with the one pass over the list.

### Chain

None of the properties is inductive. A block moves from memory to a thread's batch,
to the store, and after a restart back to memory; so `IInv` says of all three places
that heights are true, links are the tree's and no checkpoint is contradicted
(`Sound`), that batches and store begin on an interval boundary (`Saveable`), that every
checkpoint and the tip are in memory, that orphans are filed under their parent
(`OrphanMap`), and that what threads still have to do is of the same kind (`TodoInv`).

1. The walk back from a block goes down one height at a time
   (`BranchHeights`), so the part of it that `saveBlocks` gets reaches a boundary
   (`BatchStarts`), and so does the store once a batch is added or replaces it
   (`MergeStarts`).
2. `SoundPart`, `SoundAdd`, `SaveableBatch`, `HeightFromParent`: parts of sound memory
   are sound; a verified block one above a sound parent can be added.
3. `TrimSparesCheckpoints`, `KeptSound`: trimming keeps checkpoints, because they lie
   on boundaries of the interval in force, and what it keeps is sound.
4. One lemma for each outcome of `_peerRelayedBlock`, combined in `HandleBlockSound`;
   one step for each other action, combined in `NextSound`.
5. `TipMovesForward` uses `IInv` to turn "higher according to the stored heights" into
   "higher in the tree".
6. `OrphansWait` needs more (`ChainFresh`): memory also holds checkpoints above the
   tip, which no peer has relayed. If a chain built on one could overtake the tip,
   orphans below would be left behind. `FreshInv` says that above the tip there is
   nothing but such stubs (`AboveTip`) and, below the last checkpoint, no fork at the
   tip's height (`TipAlone`); as no stub has a parent in memory, the walk from such a
   chain to its join fails before it becomes the main one.
7. `ConfirmedOnMain` is stated with the ancestors in the true tree, of which memory
   holds a part. `BranchInAncestors` ties memory to the tree, and `TxAssumption` makes
   the height of a transaction in it unique. `WholeMemory`: above the last checkpoint
   every block in memory has its parent there, for nothing is trimmed above it
   (`TrimmedBelow`, where `LateCheckpoint` is used) and forks from below it are dropped;
   so both branches of a reorganisation reach the last checkpoint
   (`ReachesLastCheckpoint`) and it finds its join.
8. `ReorgConfirms` is the step that matters: above the join the fork in memory has every
   ancestor of the new tip, so each of their transactions is given its height, whatever
   the scan of the wallet left alone; at and below the join both tips have the same
   ancestors, and nothing changes. What the abandoned branch alone confirmed is not claimed
   to be reset.

### Publish

`IInv` adds to the type and the properties themselves `TxInv` and `InvInv`. While a
transaction's callback waits, no thread has taken it, it was not called and the wallet
has not seen the transaction; once the entry has lost its callback, exactly one thread
has taken or called it (`due[t] + calls[t] = 1`). A peer knows of pending transactions
only, and only after its handshake. `CallbackComesOnce` maps a transaction to "waiting",
"called" or "idle", shows that `PublishPromise` holds initially, and that under `IInv`
every action is silent, asks or calls.

### BRSet

Linear probing is right as long as no bucket between an item's home and its own is empty
(`Chained`). With that no two items are equivalent (`Distinct`) and that the count does
not exceed the threshold, this is `WellFormed`, and `TablesInv` asks it of every set
between two calls. The table is a ring; but a table within its threshold has an empty
bucket, which no probe passes, and seen from there the buckets are in a line (`Line`) in
which each item lies at or behind its home.

1. `LoopRuns`, `LoopEnds`: what a recursive function of a loop's turns yields, if each
   turn leads from one set of states to the next.
2. `ProbeEnds`, `ProbeFinds`, `GetIsMember`: a probe ends, at the equivalent item if there
   is one. `FillKeeps`, `EmptyKeeps`: what filling or emptying a bucket keeps.
3. `GrowWellFormed`: the new table takes the items of the old one without growing.
4. `RemoveCleans`: behind the removed item the code takes out and adds again each item up
   to the first empty bucket. `Cleaning` says that after k turns the items up to the
   place the walk has reached are chained, the buckets behind it are as they were, and
   no item has moved to a bucket before the removed one or behind its own (`Moved`).
5. `IntersectWellFormed`: a removal moves items behind the walk, into the bucket that the
   code examines again; each turn passes a bucket or removes an item, so the turns end.
6. `VisitsAll`: the n-th call of `BRSetIterate` gives the item with n others before it
   (`Ranks`).
7. `TablesImplementSets` maps a table to its `Contents` and shows for each call that it
   changes and returns what `AbstractSet` says.

### KVStore

`RowsKnow` and `JobsKnow` say what a row, the object and the job in between know of each
other: a version names one state of its row or object, so what a job has read still
holds when it acts, provided that the versions it remembers are the present ones. There
is a clause per state of a job (`AnswerKnows`, `RequestKnows`, ...). `AppWritesAreKept`
follows from the clause of the fetch: a job that is about to store knows that the row it
decided for was not written after the object.

## 9. What is only model-checked

- Liveness: `CallsReturn` of `Wallet`, `AllKeysSyncEnds` and `Converges` of `KVStore`. The
  prover handles neither fairness nor `ENABLED`.
- Nothing is claimed of `ConfirmedOnMain` with a last checkpoint below `DGWStart`, which no
  network has, nor after a rescan or a restart.
- The six findings, which are counterexamples.

Facts about a recursive function on every input are proved where they are needed, by
the least number at which they fail; theorems of the library that take an operator as a
parameter cannot be used.

## 10. Findings

Each is a run that TLC finishes with a counterexample; details and quotes are in
`PROJECT.json`.

- `wallet_conflict`: when the later of two conflicting transactions is mined, the
  earlier one stays counted (`BRWallet.c:1604`): the ledger is recomputed in the old
  array order.
- `wallet_reorg`: `BRWalletSetTxUnconfirmedAfter` assumes the array is ordered by
  height, and updates do not keep that order (`BRWallet.c:1624`).
- `wallet_lock`: marking a pending transaction as verified or not raises
  `wallet->blockHeight` to `TX_UNCONFIRMED` and recomputes the ledger with it, so the
  transaction is counted before its lock height (`BRWallet.c:1594`).
- `chain_save`: blocks handed to `saveBlocks` after the unlock can be freed by
  another peer's thread (`BRPeerManager.c:1413`).
- `chain_rescan`: the counter that suspends the difficulty check is never reset, so
  the first block after a rescan to a recent checkpoint fails
  (`BRMerkleBlock.c:384`).
- `kvstore_throw`: an error thrown by a read of `_syncKey` leaves `syncRunning` set after
  `syncKey`, and no sync starts any more (`BRReplicatedKVStore.swift:553`). The app calls
  `syncKey` only if `syncImmediately` is on, and never switches it on.

A child that was listed before its parent stays counted when the parent turns out to be
invalid (section 3, `ValidityAgrees`).

Seen while reading, with no property because the part is not modelled or the code does
not say what is meant: `_updateFilterLoadDone` uses `downloadPeer`, which may be NULL by
then (`BRPeerManager.c:376`); `BRPeerSendMempool` marks hashes as known that were not
announced (`BRPeer.c:1727`); a fork accepted below the last checkpoint can never be
extended over (`BRPeerManager.c:1328`); a reconnect decided before
`BRPeerManagerDisconnect` follows after it (893); `isConnected` is cleared before it
decides whether `syncStopped` is called (891); a fetched value that cannot be decrypted
deletes the row (`BRReplicatedKVStore.swift:686`), and as the row is then the newer of
the two, the next sync deletes the object on the server.

## 11. What is not modelled

Most of the repository's lines are not the wallet's own: hash functions with their
tables (`Modules/core/crypto`), secp256k1, nettle, unbound, sqlite3, bzip2 and the pods.
They compute on byte strings, or are third-party libraries, and none of the state
above is in them; that is why the map covers a small share of the repository.

Of the wallet's own code:

- key derivation, addresses, encodings, scripts, asset payloads, signing and bloom
  filter bits are conversions of byte strings without protocol state, out of TLC's
  reach;
- coin selection and the partial merkle tree are algorithms without state of their
  own; the PIN counter is a small sequential one. They come last in the plan;
- of the peer manager, relay counts (`txRelays`, `txRequests`) with the removal of
  unrelayed transactions, the round of pings that updates a filter, DNS discovery and
  the list of stored peers, misbehaviour counts, fee filters;
- of the peer protocol, parsing, and the flow of getblocks, getdata and inv within one
  peer;
- the transaction and peer tables of the database;
- the user interface and the HTTP services, which hold none of the core's state.
