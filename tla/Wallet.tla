------------------------------- MODULE Wallet -------------------------------
(***************************************************************************)
(* The wallet of BRWallet.c: the transactions a user's keys are involved   *)
(* in, the address chains, and the ledger (unspent outputs, balance) that  *)
(* _BRWalletUpdateBalance derives from them.                               *)
(*                                                                         *)
(* Every mutator but BRWalletUnusedAddrs is called by BRPeerManager.c with *)
(* manager->lock held, so mutators never overlap.  A removal and a chain   *)
(* reorganisation are several critical sections of wallet->lock; `calls'   *)
(* is what the thread that holds manager->lock still has to call, and the  *)
(* user's thread can run BRWalletUnusedAddrs between two of them.          *)
(*                                                                         *)
(* `chain' is the environment: the blocks the network has confirmed, as    *)
(* far as the peer manager has followed them.                              *)
(***************************************************************************)
EXTENDS Integers, FiniteSets, Sequences, SequencesExt, FiniteSetsExt

CONSTANTS
  Tx,            \* the transactions that can reach the wallet
  Ins,           \* Ins[t]: the outpoints <<hash, n>> that t spends
  Outs,          \* Outs[t]: sequence of [addr, amount]; output n is Outs[t][n + 1]
  LockTime,      \* LockTime[t]: a height below MaxLockHeight, else a time
  FinalSequence, \* the transactions whose inputs all have sequence UINT32_MAX
  Oversize,      \* the transactions larger than TX_MAX_SIZE
  MaxLockHeight, \* TX_MAX_LOCK_HEIGHT
  LockWindow,    \* the 180 blocks of _BRWalletUpdateBalance
  Unconfirmed,   \* TX_UNCONFIRMED (INT32_MAX), larger than any block height
  UIntMod,       \* 2^32: block heights are uint32_t
  GapLimit,      \* SEQUENCE_GAP_LIMIT_EXTERNAL and _INTERNAL, by chain
  SpareAddrs,    \* the 100 addresses _PeerManagerLoadBloomFilter adds to the gap
  Saved,         \* what the database may hold at start: rows [tx, height] and the
                 \* chain of its saved blocks
  MaxHeight,     \* bound: the longest chain
  MaxReorgDepth, \* bound: the blocks a reorganisation takes back
  MaxReorgs,     \* bound: the number of reorganisations
  MaxTime        \* bound: the ticks of the clock

VARIABLES
  transactions,  \* wallet->transactions, in the wallet's order
  allTx,         \* wallet->allTx: also unconfirmed non-wallet transactions
  height,        \* tx->blockHeight
  timestamp,     \* tx->timestamp: 0 means unverified, 1 any other time
  blockHeight,   \* wallet->blockHeight
  count,         \* the lengths of the external and internal address chains
  ledger,        \* what _BRWalletUpdateBalance last computed
  now,           \* time(NULL)
  chain,         \* environment: chain[h] is the set of transactions of block h
  reorgs,        \* number of reorganisations so far
  calls          \* calls the peer manager's thread has still to make

vars == <<transactions, allTx, height, timestamp, blockHeight, count, ledger,
          now, chain, reorgs, calls>>

Chains == {"external", "internal"}

\* every clock reading is above the lock times that are heights
Times == MaxLockHeight .. MaxLockHeight + MaxTime

\* Address i of a chain is <<chain, i>>; an output without address has addr NoAddr.
NoAddr == <<"none", 0>>

ASSUME WalletAssumption ==
  /\ IsFiniteSet(Tx)
  /\ DOMAIN Ins = Tx /\ DOMAIN Outs = Tx /\ LockTime \in [Tx -> Nat]
  /\ \A t \in Tx : Outs[t] \in Seq([addr : STRING \X Nat, amount : Nat])
  /\ \A t \in Tx : \A u \in Ins[t] : u[2] \in Nat
  /\ Oversize \subseteq Tx /\ FinalSequence \subseteq Tx
  /\ {MaxLockHeight, LockWindow, Unconfirmed, UIntMod} \subseteq Nat
  /\ {MaxHeight, MaxReorgDepth, MaxReorgs, MaxTime} \subseteq Nat
  /\ MaxHeight < Unconfirmed /\ Unconfirmed < UIntMod /\ LockWindow < UIntMod
  /\ GapLimit \in [Chains -> Nat \ {0}] /\ SpareAddrs \in Nat

-----------------------------------------------------------------------------
(* Addresses and outputs *)

\* wallet->allAddrs holds exactly the addresses of the two chains
AllAddrs(cnt) == UNION {{<<c, i>> : i \in 0 .. cnt[c] - 1} : c \in Chains}

OutAddrs(t) == {Outs[t][n].addr : n \in DOMAIN Outs[t]}

OutAmount(u) == Outs[u[1]][u[2] + 1].amount

SumAmounts(S) == MapThenSumSet(OutAmount, S)

Parents(t) == {u[1] : u \in Ins[t]}

Spends(t, p) == p \in Parents(t)

Conflict(t, s) == t # s /\ Ins[t] \cap Ins[s] # {}

\* a transaction names those it spends by their hashes: none spends one that spends it
ASSUME SpendsAssumption == \A t, s \in Tx : ~(Spends(t, s) /\ Spends(s, t))

\* t pays the wallet; outpoint u does
Pays(cnt, t) == OutAddrs(t) \cap AllAddrs(cnt) # {}

OwnOutput(cnt, u) == u[2] < Len(Outs[u[1]]) /\ Outs[u[1]][u[2] + 1].addr \in AllAddrs(cnt)

\* _BRWalletContainsTx: t pays the wallet, or spends an output that pays it
ContainsTx(all, cnt, t) ==
  Pays(cnt, t) \/ \E u \in Ins[t] : u[1] \in all /\ OwnOutput(cnt, u)

\* BRWalletUnusedAddrs: the chain grows until `gap' unused addresses follow the
\* last used one; an address found used as it is generated restarts the gap.
UnusedAddrs(cnt, used, c, gap) ==
  LET Covered(n) == \A i \in n - gap .. n - 1 : i >= 0 /\ <<c, i>> \notin used
      longest    == cnt[c] + gap * (Cardinality(used) + 1)
  IN  [cnt EXCEPT ![c] = Min({n \in cnt[c] .. longest : Covered(n)})]

\* the two calls of BRWalletNew and BRWalletRegisterTransaction
ExtendChains(cnt, used) ==
  UnusedAddrs(UnusedAddrs(cnt, used, "external", GapLimit["external"]),
              used, "internal", GapLimit["internal"])

-----------------------------------------------------------------------------
(* The order of wallet->transactions *)

\* the members of S that seq holds, in its order
Select(seq, S) ==
  LET sel[n \in 0 .. Len(seq)] ==
        IF n = 0 THEN <<>>
        ELSE IF seq[n] \in S THEN Append(sel[n - 1], seq[n]) ELSE sel[n - 1]
  IN  sel[Len(seq)]

\* _BRWalletTxIsAscending: a must come after b.  The recursion climbs from a to
\* the parents the wallet knows; hts and all are tx->blockHeight and wallet->allTx.
Ascends(hts, a, b, parentAscends) ==
  \/ hts[a] > hts[b]
  \/ /\ hts[a] = hts[b]
     /\ Spends(a, b) \/ (~Spends(b, a) /\ parentAscends)

ParentAscends(hts, all, a, b) ==
  LET asc[n \in 0 .. Cardinality(Tx), x \in Tx] ==
        Ascends(hts, x, b, n > 0 /\ \E p \in Parents(x) \cap all : asc[n - 1, p])
  IN  \E p \in Parents(a) \cap all : asc[Cardinality(Tx), p]

IsAscending(hts, all, a, b) == Ascends(hts, a, b, ParentAscends(hts, all, a, b))

\* _txChainIndex: the last position in chain c of an output address of t, or -1
TxChainIndex(cnt, t, c) ==
  Max({-1} \cup {i \in 0 .. cnt[c] - 1 : <<c, i>> \in OutAddrs(t)})

\* _BRWalletTxCompare(a, b) > 0
ComesAfter(hts, all, cnt, a, b) ==
  LET ai == TxChainIndex(cnt, a, "internal")
      j  == TxChainIndex(cnt, b, IF ai = -1 THEN "external" ELSE "internal")
      i  == IF ai = -1 THEN TxChainIndex(cnt, a, "external") ELSE ai
  IN  \/ IsAscending(hts, all, a, b)
      \/ /\ ~IsAscending(hts, all, b, a)
         /\ i # -1 /\ j # -1 /\ i > j

\* _BRWalletInsertTx: walk back from the end past all that come after t
InsertTx(txs, hts, all, cnt, t) ==
  LET stop == Max({0} \cup {i \in DOMAIN txs : ~ComesAfter(hts, all, cnt, txs[i], t)})
  IN  InsertAt(txs, stop + 1, t)

-----------------------------------------------------------------------------
(* The ledger *)

EmptyLedger ==
  [utxos |-> {}, spentOutputs |-> {}, invalidTx |-> {}, pendingTx |-> {},
   usedAddrs |-> {}, balance |-> 0, prevBalance |-> 0, balanceHist |-> <<>>,
   totalSent |-> 0, totalReceived |-> 0]

\* mutants of IsInvalid: only one of the two tests
IsInvalid_ParentsOnly(led, t) == Parents(t) \cap led.invalidTx # {}

IsInvalid_SpentOnly(led, t) == Ins[t] \cap led.spentOutputs # {}

\* an unconfirmed t that spends an output already spent, or an invalid parent
IsInvalid(led, t) == Ins[t] \cap led.spentOutputs # {} \/ Parents(t) \cap led.invalidTx # {}

\* the checks of a future lock time; wallet->blockHeight - 180 is a uint32_t
IsLocked(bh, time, t) ==
  \/ LockTime[t] < MaxLockHeight /\ LockTime[t] > (bh - LockWindow) % UIntMod
  \/ t \notin FinalSequence /\ LockTime[t] > time

\* t is an unconfirmed transaction that cannot be spent from yet
IsPending(led, bh, time, t) ==
  \/ t \in Oversize
  \/ Ins[t] # {} /\ IsLocked(bh, time, t)
  \/ Parents(t) \cap led.pendingTx # {}

OwnOutputs(cnt, t) ==
  {<<t, n - 1>> : n \in {k \in DOMAIN Outs[t] : Outs[t][k].addr \in AllAddrs(cnt)}}

\* mutant: looks at the outputs spent before t, not at those t spends
SpentUtxos_Before(led, cnt, t) ==
  (led.utxos \cup OwnOutputs(cnt, t)) \cap led.spentOutputs

\* the unspent outputs that t, or a transaction before it, turns out to spend
SpentUtxos(led, cnt, t) ==
  (led.utxos \cup OwnOutputs(cnt, t)) \cap (led.spentOutputs \cup Ins[t])

\* mutant: adds the balance instead of what it grew by
Gain_Balance(from, to) == IF to > from THEN to ELSE 0

Gain(from, to) == IF to > from THEN to - from ELSE 0

\* one iteration of the loop of _BRWalletUpdateBalance
LedgerStep(led, hts, bh, cnt, time, t) ==
  LET spent   == led.spentOutputs \cup Ins[t]
      own     == OwnOutputs(cnt, t)
      gone    == SpentUtxos(led, cnt, t)
      balance == led.balance + SumAmounts(own) - SumAmounts(gone)
  IN  IF hts[t] = Unconfirmed /\ IsInvalid(led, t)
      THEN [led EXCEPT !.invalidTx = @ \cup {t}, !.balanceHist = Append(@, led.balance)]
      ELSE IF hts[t] = Unconfirmed /\ IsPending(led, bh, time, t)
      THEN [led EXCEPT !.spentOutputs = spent, !.pendingTx = @ \cup {t},
                       !.balanceHist = Append(@, led.balance)]
      ELSE [led EXCEPT !.spentOutputs = spent,
                       !.usedAddrs = @ \cup (OutAddrs(t) \ {NoAddr}),
                       !.utxos = (@ \cup own) \ gone,
                       !.balance = balance,
                       !.prevBalance = balance,
                       !.balanceHist = Append(@, balance),
                       !.totalReceived = @ + Gain(led.prevBalance, balance),
                       !.totalSent = @ + Gain(balance, led.prevBalance)]

\* _BRWalletUpdateBalance
UpdateBalance(txs, hts, bh, cnt, time) ==
  LET led[n \in 0 .. Len(txs)] ==
        IF n = 0 THEN EmptyLedger ELSE LedgerStep(led[n - 1], hts, bh, cnt, time, txs[n])
  IN  led[Len(txs)]

\* BRWalletNew on the rows of the database, in the order it returns them
LoadTransactions(rows, hts) ==
  LET Load(txs, t) == InsertTx(txs, hts, ToSet(txs) \cup {t}, [c \in Chains |-> 0], t)
      loaded[n \in 0 .. Len(rows)] == IF n = 0 THEN <<>> ELSE Load(loaded[n - 1], rows[n])
  IN  loaded[Len(rows)]

LoadCount(rows) ==
  ExtendChains([c \in Chains |-> 0], (UNION {OutAddrs(t) : t \in ToSet(rows)}) \ {NoAddr})

\* What consensus guarantees of a chain: transactions are confirmed once, after
\* their parents, and never two that conflict.
Mined(ch) == UNION Range(ch)

ConsistentChain(ch) ==
  /\ \A i, j \in DOMAIN ch : i # j => ch[i] \cap ch[j] = {}
  /\ \A t, s \in Mined(ch) : ~Conflict(t, s)
  /\ \A i \in DOMAIN ch : \A t \in ch[i] :
       Parents(t) \cap Tx \subseteq UNION {ch[j] : j \in 1 .. i}

\* The database holds what an earlier wallet was given: each transaction once, each
\* the wallet's by the addresses it generates at start, also if the output it spends
\* is of a transaction stored later, or not stored; and the chain of the saved blocks.
\* A stop between the row updates of txUpdated may leave any heights: a child may be
\* confirmed and its parent not.  Only what ties a row to the wallet by nothing but an
\* output it spends must not be torn from the saved chain: if that chain confirmed the
\* parent, its row says so.  (One serial queue writes all of it, the blocks after the
\* heights they gave: CoreDatabase.swift:40.)
ASSUME SavedAssumption ==
  \A db \in Saved :
    LET rows == db.rows
        cnt  == LoadCount([i \in DOMAIN rows |-> rows[i].tx])
    IN
    /\ rows \in Seq([tx : Tx, height : 1 .. MaxHeight \cup {Unconfirmed}])
    /\ \A i, j \in DOMAIN rows : rows[i].tx = rows[j].tx => i = j
    /\ db.chain \in Seq(SUBSET Tx) /\ Len(db.chain) <= MaxHeight /\ ConsistentChain(db.chain)
    /\ \A i \in DOMAIN rows :
         \/ Pays(cnt, rows[i].tx)
         \/ \E u \in Ins[rows[i].tx] :
              /\ u[1] \in Tx /\ OwnOutput(cnt, u)
              /\ \A h \in DOMAIN db.chain : u[1] \in db.chain[h] =>
                   \E j \in DOMAIN rows : rows[j] = [tx |-> u[1], height |-> h]

Init ==
  \E db \in Saved :
    LET rows == db.rows
        txs  == [i \in DOMAIN rows |-> rows[i].tx]
    IN  /\ height = [t \in Tx |-> IF \E i \in DOMAIN rows : rows[i].tx = t
                                  THEN rows[CHOOSE i \in DOMAIN rows : rows[i].tx = t].height
                                  ELSE Unconfirmed]
        /\ timestamp = [t \in Tx |-> 0]
        /\ allTx = ToSet(txs)
        /\ transactions = LoadTransactions(txs, height)
        /\ blockHeight = 0
        /\ count = LoadCount(txs)
        /\ now = MaxLockHeight
        /\ ledger = UpdateBalance(transactions, height, 0, count, now)
        /\ chain = db.chain
        /\ reorgs = 0
        /\ calls = <<>>

-----------------------------------------------------------------------------
(* Steps of the peer manager's threads: manager->lock is free if calls = <<>> *)

\* A transaction relayed by a peer (or published by the user) that the wallet
\* does not hold.  Registering one it holds changes nothing.  The chains are extended
\* right after the unlock (1404-1405), here in the same step: a thread that comes in
\* between generates, with the same used addresses, no more than these two calls do.
RegisterTransaction(t) ==
  /\ calls = <<>>
  /\ t \notin allTx
  /\ height' = [height EXCEPT ![t] = Unconfirmed]
  /\ timestamp' = [timestamp EXCEPT ![t] = 0]
  /\ allTx' = allTx \cup {t}
  /\ IF ContainsTx(allTx, count, t)
     THEN /\ transactions' = InsertTx(transactions, height', allTx', count, t)
          /\ ledger' = UpdateBalance(transactions', height', blockHeight, count, now)
          /\ count' = ExtendChains(count, ledger'.usedAddrs)
     ELSE UNCHANGED <<transactions, ledger, count>>
  /\ UNCHANGED <<blockHeight, now, chain, reorgs, calls>>

\* BRWalletTxUnconfirmedBefore(TX_UNCONFIRMED): the trailing unconfirmed ones
TxUnconfirmed ==
  {transactions[i] : i \in {k \in DOMAIN transactions :
     \A j \in k .. Len(transactions) : height[transactions[j]] = Unconfirmed}}

\* _requestUnrelayedTxGetdataDone: no peer has t, so it has left the mempools
RemoveTransaction(t) ==
  /\ calls = <<>>
  /\ t \in TxUnconfirmed
  /\ calls' = <<<<"remove", t>>>>
  /\ UNCHANGED <<transactions, allTx, height, timestamp, blockHeight, count, ledger,
                 now, chain, reorgs>>

\* mutant: whatever comes after t depends on it
Dependents_Later(t) ==
  LET at == Max({0} \cup {i \in DOMAIN transactions : transactions[i] = t})
  IN  SubSeq(transactions, at + 1, Len(transactions))

\* the dependents of t that the scan of BRWalletRemoveTransaction finds, in the
\* order it removes them: it stops at the first transaction of a lower height
Dependents(t) ==
  LET low  == Max({0} \cup {i \in DOMAIN transactions : height[transactions[i]] < height[t]})
      tail == SubSeq(transactions, low + 1, Len(transactions))
  IN  Select(tail, {s \in Tx \ {t} : Spends(s, t)})

\* mutants: the ledger is not recomputed; t is freed but still listed; t stays
TakeOut_OldLedger(t) ==
  /\ allTx' = allTx \ {t}
  /\ transactions' = Select(transactions, Tx \ {t})
  /\ UNCHANGED ledger

TakeOut_Listed(t) == allTx' = allTx \ {t} /\ UNCHANGED <<transactions, ledger>>

TakeOut_Nothing(t) == UNCHANGED <<allTx, transactions, ledger>>

TakeOut(t) ==
  /\ allTx' = allTx \ {t}
  /\ transactions' = Select(transactions, Tx \ {t})
  /\ ledger' = UpdateBalance(transactions', height, blockHeight, count, now)

\* One critical section of BRWalletRemoveTransaction: with dependents, recurse on
\* them and then on t again; without, take t out and recompute the ledger.
RemoveStep ==
  /\ calls # <<>> /\ Head(calls)[1] = "remove"
  /\ LET t    == Head(calls)[2]
         deps == Dependents(t)
     IN  IF t \in allTx /\ deps # <<>>
         THEN /\ calls' = [i \in DOMAIN deps |-> <<"remove", deps[i]>>] \o calls
              /\ UNCHANGED <<allTx, transactions, ledger>>
         ELSE /\ calls' = Tail(calls)
              /\ IF t \in allTx THEN TakeOut(t) ELSE UNCHANGED <<allTx, transactions, ledger>>
  /\ UNCHANGED <<height, timestamp, blockHeight, count, now, chain, reorgs>>

\* mutant: a transaction that was invalid does not matter
NeedsUpdate_Pending(t) == t \in ledger.pendingTx

\* a change to t calls for a new ledger
NeedsUpdate(t) == t \in ledger.pendingTx \cup ledger.invalidTx

\* BRWalletUpdateTransactions.  The order is not restored, the ledger only
\* recomputed if a pending or invalid transaction changed, and a confirmed
\* transaction that is not the wallet's is freed.
UpdateTransactions(S, h, ts) ==
  LET changed == {t \in S \cap allTx : height[t] # h \/ timestamp[t] # ts}
      own     == {t \in changed : ContainsTx(allTx, count, t)}
      bh      == IF h > blockHeight THEN h ELSE blockHeight
      hts     == [t \in Tx |-> IF t \in changed THEN h ELSE height[t]]
  IN  /\ blockHeight' = bh
      /\ height' = hts
      /\ timestamp' = [t \in Tx |-> IF t \in changed THEN ts ELSE timestamp[t]]
      /\ allTx' = IF h # Unconfirmed THEN allTx \ (changed \ own) ELSE allTx
      /\ ledger' = IF \E t \in own : NeedsUpdate(t)
                   THEN UpdateBalance(transactions, hts, bh, count, now)
                   ELSE ledger
      /\ UNCHANGED <<transactions, count, now>>

\* the trailing transactions above height h
ConfirmedAfter(h) ==
  LET low == Max({0} \cup {i \in DOMAIN transactions : height[transactions[i]] <= h})
  IN  {transactions[i] : i \in low + 1 .. Len(transactions)}

\* mutants: height 0 for unconfirmed; the ledger is not recomputed
SetTxUnconfirmedAfter_Zero(h) ==
  /\ blockHeight' = h
  /\ height' = [t \in Tx |-> IF t \in ConfirmedAfter(h) THEN 0 ELSE height[t]]
  /\ UNCHANGED <<ledger, transactions, allTx, timestamp, count, now>>

SetTxUnconfirmedAfter_OldLedger(h) ==
  /\ blockHeight' = h
  /\ height' = [t \in Tx |-> IF t \in ConfirmedAfter(h) THEN Unconfirmed ELSE height[t]]
  /\ UNCHANGED <<ledger, transactions, allTx, timestamp, count, now>>

\* BRWalletSetTxUnconfirmedAfter
SetTxUnconfirmedAfter(h) ==
  LET hit == ConfirmedAfter(h)
  IN  /\ blockHeight' = h
      /\ height' = [t \in Tx |-> IF t \in hit THEN Unconfirmed ELSE height[t]]
      /\ ledger' = IF hit # {} THEN UpdateBalance(transactions, height', h, count, now)
                               ELSE ledger
      /\ UNCHANGED <<transactions, allTx, timestamp, count, now>>

\* relay counts: t is verified (1) when enough peers have it, unverified (0) when
\* too few do; the callers check that t is unconfirmed
MarkTransaction(t, ts) ==
  /\ calls = <<>>
  /\ t \in allTx /\ height[t] = Unconfirmed /\ timestamp[t] # ts
  /\ UpdateTransactions({t}, Unconfirmed, ts)
  /\ UNCHANGED <<chain, reorgs, calls>>

\* the next update of the peer manager's thread
UpdateStep ==
  /\ calls # <<>> /\ Head(calls)[1] = "update"
  /\ UpdateTransactions(Head(calls)[2], Head(calls)[3], 1)
  /\ calls' = Tail(calls)
  /\ UNCHANGED <<chain, reorgs>>

\* The peer relays the transactions of a block that match the wallet's filter
\* before the block itself, and no others concern the wallet: a block is the set
\* of known transactions it confirms.
BlocksAfter(ch) == SUBSET (allTx \ Mined(ch))

UpdateCalls(blocks, first) ==
  LET all == [i \in DOMAIN blocks |-> <<"update", blocks[i], first + i - 1>>]
  IN  Reverse(Select(all, {c \in ToSet(all) : c[2] # {}}))

\* _peerRelayedBlock, a block that extends the main chain
NewBlock(S) ==
  /\ calls = <<>>
  /\ Len(chain) < MaxHeight
  /\ chain' = Append(chain, S)
  /\ ConsistentChain(chain')
  /\ calls' = UpdateCalls(<<S>>, Len(chain'))
  /\ UNCHANGED <<transactions, allTx, height, timestamp, blockHeight, count, ledger,
                 now, reorgs>>

\* _peerRelayedBlock, a fork that overtakes the main chain by one block: what was
\* confirmed after the join is unconfirmed, then each block of the fork is
\* applied, newest first
Reorg(depth) ==
  LET join == Len(chain) - depth IN
  /\ calls = <<>>
  /\ join >= 0 /\ Len(chain) < MaxHeight
  /\ reorgs < MaxReorgs /\ reorgs' = reorgs + 1
  /\ \E fork \in [1 .. depth + 1 -> BlocksAfter(SubSeq(chain, 1, join))] :
       /\ chain' = SubSeq(chain, 1, join) \o fork
       /\ ConsistentChain(chain')
       /\ calls' = UpdateCalls(fork, join + 1)
  /\ SetTxUnconfirmedAfter(join)

-----------------------------------------------------------------------------
(* Steps of other threads *)

\* BRWalletReceiveAddress, the change address of a new transaction (gap 1), or
\* the spare addresses of _PeerManagerLoadBloomFilter
GenerateAddrs(c, gap) ==
  /\ gap = 1 \/ calls = <<>>
  /\ count' = UnusedAddrs(count, ledger.usedAddrs, c, gap)
  /\ UNCHANGED <<transactions, allTx, height, timestamp, blockHeight, ledger, now,
                 chain, reorgs, calls>>

Tick ==
  /\ now + 1 \in Times
  /\ now' = now + 1
  /\ UNCHANGED <<transactions, allTx, height, timestamp, blockHeight, count, ledger,
                 chain, reorgs, calls>>

ManagerCall == RemoveStep \/ UpdateStep

Next ==
  \/ \E t \in Tx : RegisterTransaction(t)
  \/ \E t \in Tx : RemoveTransaction(t)
  \/ \E t \in Tx, ts \in {0, 1} : MarkTransaction(t, ts)
  \/ \E S \in BlocksAfter(chain) : NewBlock(S)
  \/ \E depth \in 1 .. MaxReorgDepth : Reorg(depth)
  \/ ManagerCall
  \/ \E c \in Chains, spare \in BOOLEAN :
       GenerateAddrs(c, IF spare THEN GapLimit[c] + SpareAddrs ELSE 1)
  \/ Tick

\* The thread that holds manager->lock finishes its calls.  This is weak fairness
\* of ManagerCall spelled out: it is enabled just when calls is not empty.
Fairness == []<>(calls = <<>>) \/ []<><<ManagerCall>>_vars

Spec == Init /\ [][Next]_vars /\ Fairness

-----------------------------------------------------------------------------
(* Properties *)

\* Every variable keeps the type of the C field it models.
TypeOK ==
  /\ transactions \in Seq(Tx) /\ allTx \subseteq Tx
  /\ height \in [Tx -> 1 .. MaxHeight \cup {Unconfirmed}]
  /\ timestamp \in [Tx -> {0, 1}]
  /\ blockHeight \in 0 .. MaxHeight \cup {Unconfirmed}
  /\ count \in [Chains -> Nat]
  /\ now \in Times /\ chain \in Seq(SUBSET Tx) /\ reorgs \in 0 .. MaxReorgs
  /\ {ledger.balance, ledger.totalSent, ledger.totalReceived} \subseteq Nat

Counted == ToSet(transactions) \ (ledger.invalidTx \cup ledger.pendingTx)

\* The cached balance is the sum of the unspent outputs the wallet offers for
\* spending, and the running totals explain it (_BRWalletUpdateBalance keeps the
\* three apart, and its callers decide when they are recomputed).
BalanceIsUtxoSum ==
  /\ ledger.balance = SumAmounts(ledger.utxos)
  /\ ledger.balance = ledger.totalReceived - ledger.totalSent

\* The balance history has one entry for each transaction (the assertion at the
\* end of _BRWalletUpdateBalance, read by BRWalletBalanceAfterTx) at every moment
\* wallet->lock is free, in the middle of a removal too; the last is the balance.
HistoryMatches ==
  /\ Len(ledger.balanceHist) = Len(transactions)
  /\ transactions # <<>> => Last(ledger.balanceHist) = ledger.balance

\* Of two unconfirmed transactions that spend the same output at most one is
\* counted, whatever reorganisations and removals came before.
NoDoubleCount ==
  \A t, s \in Counted :
    Conflict(t, s) => height[t] # Unconfirmed \/ height[s] # Unconfirmed

\* A confirmed transaction is never left out of the balance: an update that
\* confirms a pending or invalid transaction refreshes the ledger.
ConfirmedIsCounted ==
  \A t \in ToSet(transactions) : height[t] # Unconfirmed => t \in Counted

\* No unspent output is offered that a counted transaction spends.
UtxosUnspent ==
  \A t \in Counted : Ins[t] \cap ledger.utxos = {}

\* wallet->transactions only refers to transactions that are still allocated
\* (those of wallet->allTx), and holds none twice.
NoDanglingTx ==
  /\ ToSet(transactions) \subseteq allTx
  /\ IsInjective(transactions)

\* The cached ledger is what a recomputation would give, unless a lock has opened
\* or closed since (the code waits for the next transaction then); addresses
\* generated since can only add outputs.
LedgerFresh ==
  LET fresh == UpdateBalance(transactions, height, blockHeight, count, now)
  IN  ledger.pendingTx = fresh.pendingTx =>
        /\ ledger.invalidTx = fresh.invalidTx
        /\ ledger.spentOutputs = fresh.spentOutputs
        /\ ledger.usedAddrs = fresh.usedAddrs
        /\ ledger.utxos \subseteq fresh.utxos

\* BRWalletTransactionIsValid: no spent input, no invalid ancestor
IsValid(t) ==
  LET valid[n \in 0 .. Cardinality(Tx)] ==
        {x \in Tx : \/ height[x] # Unconfirmed
                    \/ /\ IF x \in allTx THEN x \notin ledger.invalidTx
                                         ELSE Ins[x] \cap ledger.spentOutputs = {}
                       /\ n > 0 => \A p \in Parents(x) \cap allTx : p \in valid[n - 1]}
  IN  t \in valid[Cardinality(Tx)]

\* x stands before y in seq
Before(seq, x, y) == \E i, j \in DOMAIN seq : i < j /\ seq[i] = x /\ seq[j] = y

\* L holds the unconfirmed ancestors of its members, each listed before what spends it
InOrder(L) ==
  \A t \in L, p \in allTx :
    height[t] = Unconfirmed /\ height[p] = Unconfirmed /\ Spends(t, p) =>
      p \in L /\ Before(transactions, p, t)

\* What BRWalletTransactionIsValid tells the user of a wallet transaction, from a
\* walk over its ancestors, is what the balance assumes of it, as long as the list
\* has the ancestors in order (a parent that arrives late may be put behind it).
ValidityAgrees ==
  \A t \in ToSet(transactions) :
    (\E L \in SUBSET ToSet(transactions) : t \in L /\ InOrder(L)) =>
      (IsValid(t) <=> t \notin ledger.invalidTx)

\* A removal takes out unconfirmed transactions only: the one it was called for
\* and those that descend from it, although it frees its dependents in critical
\* sections of their own.
RemovesOnlyDependents ==
  [][ \A t \in ToSet(transactions) \ ToSet(transactions') :
        /\ calls # <<>> /\ Head(calls) = <<"remove", t>>
        /\ height[t] = Unconfirmed
        /\ t # Last(calls)[2] => \E p \in Parents(t) : <<"remove", p>> \in ToSet(calls) ]_vars

\* The recursion of BRWalletRemoveTransaction, which starts over on a transaction
\* after it has removed its dependents, ends.
CallsReturn == calls # <<>> ~> calls = <<>>

-----------------------------------------------------------------------------
(* What the comments of BRWallet.c say, and the code does not keep *)

\* "marks all transactions confirmed after blockHeight as unconfirmed": whenever
\* the peer manager is done with a block, every transaction the wallet holds to
\* be confirmed is confirmed at that height of the chain.
ConfirmedByChain ==
  calls = <<>> =>
    \A t \in ToSet(transactions) :
      height[t] # Unconfirmed => height[t] \in DOMAIN chain /\ t \in chain[height[t]]

\* "current wallet balance, not including transactions known to be invalid": an
\* unconfirmed transaction that spends an output which a confirmed transaction of
\* the wallet spends is invalid, and not part of the balance.
BalanceExcludesInvalid ==
  calls = <<>> =>
    \A t \in Counted, s \in ToSet(transactions) :
      height[t] = Unconfirmed /\ Conflict(t, s) => height[s] = Unconfirmed

\* "check if tx is pending ... future lockTime": a transaction that was held back as
\* pending and is still unconfirmed joins the balance only when the chain has reached
\* its lock height (blocks below LockWindow, where the subtraction wraps, aside).
LockOpensAtHeight ==
  [][ \A t \in ledger.pendingTx :
        /\ t \in Counted' /\ height'[t] = Unconfirmed
        /\ LockTime[t] < MaxLockHeight /\ blockHeight' >= LockWindow
        => LockTime[t] <= Len(chain') ]_vars
=============================================================================
