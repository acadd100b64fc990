----------------------------- MODULE WalletFresh -----------------------------
(***************************************************************************)
(* Proofs that the wallet's cached ledger is the one a recomputation would *)
(* give, and that BRWalletTransactionIsValid agrees with it.  The ledger   *)
(* was computed from the list of now and from heights and addresses of     *)
(* before; two runs of _BRWalletUpdateBalance over the same list, one with *)
(* those of then and one with those of now, are compared turn by turn.     *)
(***************************************************************************)
EXTENDS WalletProofs

-----------------------------------------------------------------------------
(* The turns of _BRWalletUpdateBalance *)

\* f[n] is the ledger after n turns; m turns are made
Turns(f, m, txs, hts, bh, cnt, time) ==
  /\ f[0] = EmptyLedger /\ f[m] = UpdateBalance(txs, hts, bh, cnt, time)
  /\ \A n \in 1 .. m : f[n] = LedgerStep(f[n - 1], hts, bh, cnt, time, txs[n])
  /\ \A n \in 0 .. m : LedgerFields(f[n])

LEMMA FieldsStep ==
  ASSUME NEW led, LedgerFields(led), NEW t, NEW hts, NEW bh, NEW cnt, NEW time
  PROVE  LedgerFields(LedgerStep(led, hts, bh, cnt, time, t))
<1>1. CASE hts[t] = Unconfirmed /\ IsInvalid(led, t)
  BY <1>1, InvalidStep
<1>2. CASE ~(hts[t] = Unconfirmed /\ IsInvalid(led, t)) /\ hts[t] = Unconfirmed /\ IsPending(led, bh, time, t)
  BY <1>2, PendingStep
<1>3. CASE ~(hts[t] = Unconfirmed /\ IsInvalid(led, t)) /\ ~(hts[t] = Unconfirmed /\ IsPending(led, bh, time, t))
  BY <1>3, CountedStep
<1>4. QED
  BY <1>1, <1>2, <1>3

LEMMA TurnsExist ==
  ASSUME NEW txs \in Seq(Tx), NEW hts, NEW bh, NEW cnt, NEW time
  PROVE  \E f : Turns(f, Len(txs), txs, hts, bh, cnt, time)
<1> DEFINE m == Len(txs)
           f == CHOOSE g : Ledgers(g, txs, hts, bh, cnt, time, m)
           Bad == {n \in 0 .. m : ~LedgerFields(f[n])}
<1>1. m \in Nat
  OBVIOUS
<1>2. UpdateBalance(txs, hts, bh, cnt, time) = f[m]
  BY DEF UpdateBalance, Ledgers
<1>3. Ledgers(f, txs, hts, bh, cnt, time, m)
  BY <1>1, LedgersExist
<1> HIDE DEF f, m
<1>4. f[0] = EmptyLedger
      /\ \A n \in 1 .. m : f[n] = LedgerStep(f[n - 1], hts, bh, cnt, time, txs[n])
  <2>1. f = [n \in 0 .. m |->
               IF n = 0 THEN EmptyLedger ELSE LedgerStep(f[n - 1], hts, bh, cnt, time, txs[n])]
    BY <1>3 DEF Ledgers
  <2>2. 0 \in 0 .. m /\ \A n \in 1 .. m : n \in 0 .. m /\ n # 0
    BY <1>1
  <2>3. f[0] = EmptyLedger
    BY <2>1, <2>2
  <2>4. QED
    BY <2>1, <2>2, <2>3
<1>5. Bad = {}
  <2>1. SUFFICES ASSUME Bad # {} PROVE FALSE
    OBVIOUS
  <2>2. PICK n \in Bad : \A i \in Bad : n <= i
    <3>1. Bad \subseteq Nat
      OBVIOUS
    <3> HIDE DEF Bad
    <3>2. QED
      BY <2>1, <3>1, NatLeast
  <2>3. n \in 0 .. m /\ ~LedgerFields(f[n])
    OBVIOUS
  <2>4. n # 0
    <3>1. LedgerFields(EmptyLedger)
      BY DEF LedgerFields, EmptyLedger
    <3>2. QED
      BY <1>4, <2>3, <3>1
  <2>5. n \in 1 .. m /\ n - 1 \in 0 .. m
    BY <1>1, <2>3, <2>4
  <2>6. n - 1 \notin Bad
    <3> HIDE DEF Bad
    <3> QED BY <2>2, <2>5
  <2>7. LedgerFields(f[n - 1])
    BY <2>5, <2>6
  <2>8. LedgerFields(LedgerStep(f[n - 1], hts, bh, cnt, time, txs[n]))
    BY <2>7, FieldsStep
  <2>9. QED
    BY <1>4, <2>3, <2>5, <2>8
<1>6. Turns(f, m, txs, hts, bh, cnt, time)
  BY <1>2, <1>4, <1>5 DEF Turns
<1>7. QED
  BY <1>6 DEF m

\* what turn n makes of its transaction
Rejects(led, hts, t) == hts[t] = Unconfirmed /\ IsInvalid(led, t)

Defers(led, hts, bh, time, t) ==
  ~Rejects(led, hts, t) /\ hts[t] = Unconfirmed /\ IsPending(led, bh, time, t)

\* a turn decides about its own transaction and no other
LEMMA TurnDecides ==
  ASSUME NEW led, LedgerFields(led), NEW t, NEW hts, NEW bh, NEW cnt, NEW time
  PROVE  LET new == LedgerStep(led, hts, bh, cnt, time, t) IN
         /\ new.invalidTx = led.invalidTx \cup (IF Rejects(led, hts, t) THEN {t} ELSE {})
         /\ new.pendingTx = led.pendingTx \cup (IF Defers(led, hts, bh, time, t) THEN {t} ELSE {})
<1>1. CASE Rejects(led, hts, t)
  BY <1>1, InvalidStep DEF Rejects, Defers
<1>2. CASE Defers(led, hts, bh, time, t)
  BY <1>2, PendingStep DEF Rejects, Defers
<1>3. CASE ~Rejects(led, hts, t) /\ ~Defers(led, hts, bh, time, t)
  BY <1>3, CountedStep DEF Rejects, Defers
<1>4. QED
  BY <1>1, <1>2, <1>3

\* turn i alone decides whether txs[i] is invalid or pending
LEMMA DecidedOnce ==
  ASSUME NEW txs \in Seq(Tx), IsInjective(txs), NEW hts, NEW bh, NEW cnt, NEW time, NEW f,
         Turns(f, Len(txs), txs, hts, bh, cnt, time),
         NEW n \in 0 .. Len(txs), NEW i \in 1 .. Len(txs)
  PROVE  /\ txs[i] \in f[n].invalidTx <=> i <= n /\ Rejects(f[i - 1], hts, txs[i])
         /\ txs[i] \in f[n].pendingTx <=> i <= n /\ Defers(f[i - 1], hts, bh, time, txs[i])
<1> DEFINE m == Len(txs)
           t == txs[i]
           rej == Rejects(f[i - 1], hts, t)
           def == Defers(f[i - 1], hts, bh, time, t)
           Fine(k) == /\ t \in f[k].invalidTx <=> i <= k /\ rej
                      /\ t \in f[k].pendingTx <=> i <= k /\ def
           Bad == {k \in 0 .. m : ~Fine(k)}
<1>1. m \in Nat /\ i \in Nat /\ DOMAIN txs = 1 .. m
  OBVIOUS
<1>2. /\ f[0] = EmptyLedger
      /\ \A k \in 1 .. m : f[k] = LedgerStep(f[k - 1], hts, bh, cnt, time, txs[k])
      /\ \A k \in 0 .. m : LedgerFields(f[k])
  BY DEF Turns
<1>3. SUFFICES ASSUME Bad # {} PROVE FALSE
  OBVIOUS
<1>4. PICK k \in Bad : \A j \in Bad : k <= j
  <2>1. Bad \subseteq Nat
    OBVIOUS
  <2> HIDE DEF Bad
  <2>2. QED
    BY <1>3, <2>1, NatLeast
<1>5. k \in 0 .. m /\ ~Fine(k)
  OBVIOUS
<1> HIDE DEF rej, def
<1>6. k # 0
  <2>1. Fine(0)
    <3>1. ~(i <= 0)
      OBVIOUS
    <3>2. QED
      BY <1>2, <3>1 DEF EmptyLedger
  <2>2. QED
    BY <1>5, <2>1
<1>7. k \in 1 .. m /\ k - 1 \in 0 .. m /\ k \in Nat
  <2> HIDE DEF m
  <2> QED BY <1>1, <1>5, <1>6
<1>8. Fine(k - 1)
  <2>1. k - 1 \notin Bad
    <3> HIDE DEF Bad
    <3> QED BY <1>4, <1>7
  <2> HIDE DEF Fine
  <2>2. QED
    BY <1>7, <2>1
<1>9. /\ f[k].invalidTx = f[k - 1].invalidTx \cup (IF Rejects(f[k - 1], hts, txs[k]) THEN {txs[k]} ELSE {})
      /\ f[k].pendingTx = f[k - 1].pendingTx \cup
                            (IF Defers(f[k - 1], hts, bh, time, txs[k]) THEN {txs[k]} ELSE {})
  BY <1>2, <1>7, TurnDecides
<1>10. CASE i = k
  <2>1. ~(i <= k - 1) /\ i <= k
    BY <1>1, <1>7, <1>10
  <2>2. Fine(k)
    BY <1>8, <1>9, <1>10, <2>1 DEF rej, def
  <2>3. QED
    BY <1>5, <2>2
<1>11. CASE i # k
  <2>1. txs[k] # t
    BY <1>1, <1>7, <1>11 DEF IsInjective
  <2>2. i <= k <=> i <= k - 1
    BY <1>1, <1>7, <1>11
  <2>3. Fine(k)
    BY <1>8, <1>9, <2>1, <2>2
  <2>4. QED
    BY <1>5, <2>3
<1>12. QED
  BY <1>10, <1>11
-----------------------------------------------------------------------------
(* Two runs over the same list *)

\* the old ledger agrees with the new one, but may lack outputs
SameLedger(old, new) ==
  /\ old.invalidTx = new.invalidTx /\ old.pendingTx = new.pendingTx
  /\ old.spentOutputs = new.spentOutputs /\ old.usedAddrs = new.usedAddrs
  /\ old.utxos \subseteq new.utxos

LEMMA OwnOutputsGrow ==
  ASSUME NEW cnt, NEW more, AllAddrs(cnt) \subseteq AllAddrs(more), NEW t
  PROVE  OwnOutputs(cnt, t) \subseteq OwnOutputs(more, t)
  BY DEF OwnOutputs

\* one turn of both runs that decides alike
LEMMA SameTurn ==
  ASSUME NEW old, NEW new, LedgerFields(old), LedgerFields(new), SameLedger(old, new), NEW t,
         NEW hts0, NEW bh0, NEW cnt0, NEW time0, NEW hts, NEW bh, NEW cnt, NEW time,
         AllAddrs(cnt0) \subseteq AllAddrs(cnt),
         Rejects(old, hts0, t) <=> Rejects(new, hts, t),
         Defers(old, hts0, bh0, time0, t) <=> Defers(new, hts, bh, time, t)
  PROVE  SameLedger(LedgerStep(old, hts0, bh0, cnt0, time0, t), LedgerStep(new, hts, bh, cnt, time, t))
<1> DEFINE o == LedgerStep(old, hts0, bh0, cnt0, time0, t)
           w == LedgerStep(new, hts, bh, cnt, time, t)
<1>1. CASE Rejects(old, hts0, t)
  <2>1. /\ o.utxos = old.utxos /\ o.spentOutputs = old.spentOutputs
        /\ o.invalidTx = old.invalidTx \cup {t} /\ o.pendingTx = old.pendingTx
        /\ o.usedAddrs = old.usedAddrs
    BY <1>1, InvalidStep DEF Rejects
  <2>2. /\ w.utxos = new.utxos /\ w.spentOutputs = new.spentOutputs
        /\ w.invalidTx = new.invalidTx \cup {t} /\ w.pendingTx = new.pendingTx
        /\ w.usedAddrs = new.usedAddrs
    BY <1>1, InvalidStep DEF Rejects
  <2> HIDE DEF o, w
  <2>3. SameLedger(o, w)
    BY <2>1, <2>2 DEF SameLedger
  <2>4. QED
    BY <2>3 DEF o, w
<1>2. CASE Defers(old, hts0, bh0, time0, t)
  <2>1. /\ o.utxos = old.utxos /\ o.spentOutputs = old.spentOutputs \cup Ins[t]
        /\ o.invalidTx = old.invalidTx /\ o.pendingTx = old.pendingTx \cup {t}
        /\ o.usedAddrs = old.usedAddrs
    BY <1>2, PendingStep DEF Rejects, Defers
  <2>2. /\ w.utxos = new.utxos /\ w.spentOutputs = new.spentOutputs \cup Ins[t]
        /\ w.invalidTx = new.invalidTx /\ w.pendingTx = new.pendingTx \cup {t}
        /\ w.usedAddrs = new.usedAddrs
    BY <1>2, PendingStep DEF Rejects, Defers
  <2> HIDE DEF o, w
  <2>3. SameLedger(o, w)
    BY <2>1, <2>2 DEF SameLedger
  <2>4. QED
    BY <2>3 DEF o, w
<1>3. CASE ~Rejects(old, hts0, t) /\ ~Defers(old, hts0, bh0, time0, t)
  <2>1. /\ o.utxos = (old.utxos \cup OwnOutputs(cnt0, t)) \ SpentUtxos(old, cnt0, t)
        /\ o.spentOutputs = old.spentOutputs \cup Ins[t]
        /\ o.invalidTx = old.invalidTx /\ o.pendingTx = old.pendingTx
        /\ o.usedAddrs = old.usedAddrs \cup (OutAddrs(t) \ {NoAddr})
    BY <1>3, CountedStep DEF Rejects, Defers
  <2>2. /\ w.utxos = (new.utxos \cup OwnOutputs(cnt, t)) \ SpentUtxos(new, cnt, t)
        /\ w.spentOutputs = new.spentOutputs \cup Ins[t]
        /\ w.invalidTx = new.invalidTx /\ w.pendingTx = new.pendingTx
        /\ w.usedAddrs = new.usedAddrs \cup (OutAddrs(t) \ {NoAddr})
    BY <1>3, CountedStep DEF Rejects, Defers
  <2> HIDE DEF o, w
  <2>3. o.utxos = (old.utxos \cup OwnOutputs(cnt0, t)) \ (old.spentOutputs \cup Ins[t])
    BY <2>1 DEF SpentUtxos
  <2>4. w.utxos = (new.utxos \cup OwnOutputs(cnt, t)) \ (new.spentOutputs \cup Ins[t])
    BY <2>2 DEF SpentUtxos
  <2>5. OwnOutputs(cnt0, t) \subseteq OwnOutputs(cnt, t)
    BY OwnOutputsGrow
  <2>6. o.utxos \subseteq w.utxos
    BY <2>3, <2>4, <2>5 DEF SameLedger
  <2>7. SameLedger(o, w)
    BY <2>1, <2>2, <2>6 DEF SameLedger
  <2>8. QED
    BY <2>7 DEF o, w
<1>4. QED
  BY <1>1, <1>2, <1>3

LEMMA SameRuns ==
  ASSUME NEW txs \in Seq(Tx), IsInjective(txs),
         NEW hts0, NEW bh0, NEW cnt0, NEW time0, NEW hts, NEW bh, NEW cnt, NEW time,
         AllAddrs(cnt0) \subseteq AllAddrs(cnt),
         NEW old, old = UpdateBalance(txs, hts0, bh0, cnt0, time0),
         NEW new, new = UpdateBalance(txs, hts, bh, cnt, time),
         \A t \in ToSet(txs) :
           /\ hts[t] = Unconfirmed => hts0[t] = Unconfirmed
           /\ hts[t] # Unconfirmed => t \notin old.invalidTx,
         old.pendingTx = new.pendingTx
  PROVE  SameLedger(old, new)
<1> DEFINE m == Len(txs)
<1>1. PICK f : Turns(f, m, txs, hts0, bh0, cnt0, time0)
  BY TurnsExist
<1>2. PICK g : Turns(g, m, txs, hts, bh, cnt, time)
  BY TurnsExist
<1>3. m \in Nat /\ m \in 0 .. m /\ DOMAIN txs = 1 .. m
  OBVIOUS
<1>4. f[m] = old /\ g[m] = new /\ f[0] = EmptyLedger /\ g[0] = EmptyLedger
  BY <1>1, <1>2 DEF Turns
<1> DEFINE Bad == {n \in 0 .. m : ~SameLedger(f[n], g[n])}
<1>5. Bad = {}
  <2>1. SUFFICES ASSUME Bad # {} PROVE FALSE
    OBVIOUS
  <2>2. PICK n \in Bad : \A i \in Bad : n <= i
    <3>1. Bad \subseteq Nat
      OBVIOUS
    <3> HIDE DEF Bad
    <3>2. QED
      BY <2>1, <3>1, NatLeast
  <2>3. n \in 0 .. m /\ ~SameLedger(f[n], g[n])
    OBVIOUS
  <2>4. n # 0
    BY <1>4, <2>3 DEF SameLedger
  <2>5. n \in 1 .. m /\ n - 1 \in 0 .. m /\ n <= m
    <3> HIDE DEF m
    <3> QED BY <1>3, <2>3, <2>4
  <2>6. SameLedger(f[n - 1], g[n - 1])
    <3>1. n - 1 \notin Bad
      <4> HIDE DEF Bad
      <4> QED BY <2>2, <2>5
    <3>2. QED
      BY <2>5, <3>1
  <2> DEFINE t == txs[n]
             o == f[n - 1]
             w == g[n - 1]
  <2>7. t \in ToSet(txs)
    BY <1>3, <2>5 DEF ToSet
  <2>8. /\ t \in old.invalidTx <=> Rejects(o, hts0, t)
        /\ t \in old.pendingTx <=> Defers(o, hts0, bh0, time0, t)
    BY <1>1, <1>3, <1>4, <2>5, DecidedOnce
  <2>9. t \in new.pendingTx <=> Defers(w, hts, bh, time, t)
    BY <1>2, <1>3, <1>4, <2>5, DecidedOnce
  <2>10. /\ LedgerFields(o) /\ f[n] = LedgerStep(o, hts0, bh0, cnt0, time0, t)
         /\ LedgerFields(w) /\ g[n] = LedgerStep(w, hts, bh, cnt, time, t)
    BY <1>1, <1>2, <2>5 DEF Turns
  <2> HIDE DEF t, o, w
  <2>11. SameLedger(o, w)
    BY <2>6 DEF o, w
  <2>12. IsInvalid(o, t) <=> IsInvalid(w, t)
    BY <2>11 DEF SameLedger, IsInvalid
  <2>13. Rejects(o, hts0, t) <=> Rejects(w, hts, t)
    BY <2>7, <2>8, <2>12 DEF Rejects
  <2>14. Defers(o, hts0, bh0, time0, t) <=> Defers(w, hts, bh, time, t)
    BY <2>8, <2>9
  <2>15. SameLedger(f[n], g[n])
    BY <2>10, <2>11, <2>13, <2>14, SameTurn
  <2>16. QED
    BY <2>3, <2>15
<1>6. SameLedger(f[m], g[m])
  <2>1. m \notin Bad
    <3> HIDE DEF Bad
    <3> QED BY <1>5
  <2>2. QED
    BY <1>3, <2>1
<1>7. QED
  BY <1>4, <1>6

\* an invalid transaction makes those behind it that spend it invalid
LEMMA InvalidSpreads ==
  ASSUME NEW txs \in Seq(Tx), IsInjective(txs), NEW hts, NEW bh, NEW cnt, NEW time,
         NEW led, led = UpdateBalance(txs, hts, bh, cnt, time),
         NEW p, NEW t, Before(txs, p, t), Spends(t, p), p \in led.invalidTx, hts[t] = Unconfirmed
  PROVE  t \in led.invalidTx
<1> DEFINE m == Len(txs)
<1>1. PICK f : Turns(f, m, txs, hts, bh, cnt, time)
  BY TurnsExist
<1>2. m \in Nat /\ m \in 0 .. m /\ DOMAIN txs = 1 .. m
  OBVIOUS
<1>3. f[m] = led
  BY <1>1 DEF Turns
<1>4. PICK i, j \in 1 .. m : i < j /\ txs[i] = p /\ txs[j] = t
  BY <1>2 DEF Before
<1>5. /\ i <= j - 1 /\ j - 1 \in 0 .. m /\ i <= m /\ j <= m
  BY <1>2, <1>4
<1>6. Rejects(f[i - 1], hts, txs[i])
  BY <1>1, <1>2, <1>3, <1>4, DecidedOnce
<1>7. txs[i] \in f[j - 1].invalidTx
  BY <1>1, <1>5, <1>6, DecidedOnce
<1>8. Rejects(f[j - 1], hts, txs[j])
  BY <1>4, <1>7 DEF Rejects, IsInvalid, Spends
<1>9. QED
  BY <1>1, <1>2, <1>3, <1>4, <1>5, <1>8, DecidedOnce

-----------------------------------------------------------------------------
(* The cache *)

\* The ledger was computed from the list of now, when no more addresses were known
\* and every transaction that is unconfirmed now was so already.
Cached(hts, bh, cnt, time) ==
  /\ ledger = UpdateBalance(transactions, hts, bh, cnt, time)
  /\ cnt \in [Chains -> Nat] /\ \A c \in Chains : count[c] >= cnt[c]
  /\ \A t \in ToSet(transactions) : height[t] = Unconfirmed => hts[t] = Unconfirmed

CacheInv == \E hts, bh, cnt, time : Cached(hts, bh, cnt, time)

LEMMA CacheRenewed ==
  ASSUME NEW bh, NEW cnt \in [Chains -> Nat], NEW time, \A c \in Chains : count'[c] >= cnt[c],
         ledger' = UpdateBalance(transactions', height', bh, cnt, time)
  PROVE  CacheInv'
<1>1. ASSUME NEW hts, hts = height' PROVE Cached(hts, bh, cnt, time)'
  BY <1>1 DEF Cached
<1>2. \E hts : Cached(hts, bh, cnt, time)'
  BY <1>1
<1>3. QED
  BY <1>2 DEF CacheInv

LEMMA CacheKept ==
  ASSUME CacheInv, ledger' = ledger, transactions' = transactions,
         count \in [Chains -> Nat], count' \in [Chains -> Nat],
         \A c \in Chains : count'[c] >= count[c],
         \A t \in ToSet(transactions) : height'[t] = Unconfirmed => height[t] = Unconfirmed
  PROVE  CacheInv'
<1>1. PICK hts, bh, cnt, time : Cached(hts, bh, cnt, time)
  BY DEF CacheInv
<1>2. \A c \in Chains : count'[c] >= cnt[c]
  <2> SUFFICES ASSUME NEW c \in Chains PROVE count'[c] >= cnt[c]
    OBVIOUS
  <2>1. count'[c] \in Nat /\ count[c] \in Nat /\ cnt[c] \in Nat /\ count'[c] >= count[c] /\ count[c] >= cnt[c]
    BY <1>1 DEF Cached
  <2>2. QED
    BY <2>1
<1>3. Cached(hts, bh, cnt, time)'
  BY <1>1, <1>2 DEF Cached
<1>4. QED
  BY <1>3 DEF CacheInv

LEMMA CacheUpdate ==
  ASSUME IInv, CacheInv, NEW S, NEW h, NEW ts,
         h = Unconfirmed => \A t \in S : height[t] = Unconfirmed,
         UpdateTransactions(S, h, ts)
  PROVE  CacheInv'
<1> DEFINE changed == {t \in S \cap allTx : height[t] # h \/ timestamp[t] # ts}
           own     == {t \in changed : ContainsTx(allTx, count, t)}
           bh      == IF h > blockHeight THEN h ELSE blockHeight
           hts     == [t \in Tx |-> IF t \in changed THEN h ELSE height[t]]
<1>1. /\ height' = hts
      /\ ledger' = IF \E t \in own : NeedsUpdate(t)
                   THEN UpdateBalance(transactions, hts, bh, count, now)
                   ELSE ledger
      /\ transactions' = transactions /\ count' = count
  BY DEF UpdateTransactions
<1>2. count \in [Chains -> Nat] /\ \A c \in Chains : count[c] >= count[c]
  BY DEF IInv, Core, StateInv
<1>3. CASE \E t \in own : NeedsUpdate(t)
  <2>1. ledger' = UpdateBalance(transactions', height', bh, count, now)
    BY <1>1, <1>3
  <2> HIDE DEF bh, hts, changed, own
  <2>2. QED
    BY <1>1, <1>2, <2>1, CacheRenewed
<1>4. CASE ~\E t \in own : NeedsUpdate(t)
  <2>1. ledger' = ledger
    BY <1>1, <1>4
  <2>2. \A t \in ToSet(transactions) : t \in Tx
    BY DEF IInv, Core, ListInv, NoDanglingTx
  <2>3. ASSUME NEW t \in ToSet(transactions), hts[t] = Unconfirmed PROVE height[t] = Unconfirmed
    BY <2>2, <2>3
  <2> HIDE DEF bh, hts, changed, own
  <2>4. \A t \in ToSet(transactions) : height'[t] = Unconfirmed => height[t] = Unconfirmed
    BY <1>1, <2>3
  <2>5. QED
    BY <1>1, <1>2, <2>1, <2>4, CacheKept
<1>5. QED
  BY <1>3, <1>4

LEMMA CacheNext ==
  ASSUME WalletAssumption, IInv, IInv', CacheInv, [Next]_vars
  PROVE  CacheInv'
<1>1. count \in [Chains -> Nat] /\ count' \in [Chains -> Nat] /\ \A c \in Chains : count[c] >= count[c]
  BY DEF IInv, Core, StateInv
<1>2. ToSet(transactions) \subseteq allTx /\ allTx \subseteq Tx /\ height \in [Tx -> 1 .. MaxHeight \cup {Unconfirmed}]
  BY DEF IInv, Core, ListInv, NoDanglingTx, StateInv
<1>3. ASSUME UNCHANGED <<transactions, ledger, height, count>> PROVE CacheInv'
  BY <1>1, <1>3, CacheKept
<1>4. CASE \E t \in Tx : RegisterTransaction(t)
  <2>1. PICK t \in Tx : RegisterTransaction(t)
    BY <1>4
  <2>2. CASE ContainsTx(allTx, count, t)
    <3>1. /\ ledger' = UpdateBalance(transactions', height', blockHeight, count, now)
          /\ count' = ExtendChains(count, ledger'.usedAddrs)
      BY <2>1, <2>2 DEF RegisterTransaction
    <3>2. IsFiniteSet(ledger'.usedAddrs)
      BY DEF IInv, Core, LedgerInv, LedgerOK, LedgerMoney
    <3>3. \A c \in Chains : count'[c] >= count[c]
      BY <1>1, <3>1, <3>2, ExtendChainsIs
    <3>4. QED
      BY <1>1, <3>1, <3>3, CacheRenewed
  <2>3. CASE ~ContainsTx(allTx, count, t)
    <3>1. /\ t \notin allTx /\ height' = [height EXCEPT ![t] = Unconfirmed]
          /\ transactions' = transactions /\ ledger' = ledger /\ count' = count
      BY <2>1, <2>3 DEF RegisterTransaction
    <3>2. \A s \in ToSet(transactions) : height'[s] = height[s]
      BY <1>2, <3>1
    <3>3. QED
      BY <1>1, <3>1, <3>2, CacheKept
  <2>4. QED
    BY <2>2, <2>3
<1>5. CASE \E t \in Tx : RemoveTransaction(t)
  BY <1>3, <1>5 DEF RemoveTransaction
<1>6. CASE \E t \in Tx, ts \in {0, 1} : MarkTransaction(t, ts)
  <2>1. PICK t \in Tx, ts \in {0, 1} : MarkTransaction(t, ts)
    BY <1>6
  <2>2. UpdateTransactions({t}, Unconfirmed, ts) /\ \A s \in {t} : height[s] = Unconfirmed
    BY <2>1 DEF MarkTransaction
  <2>3. QED
    BY <2>2, CacheUpdate
<1>7. CASE \E S \in BlocksAfter(chain) : NewBlock(S)
  BY <1>3, <1>7 DEF NewBlock
<1>8. CASE \E depth \in 1 .. MaxReorgDepth : Reorg(depth)
  <2>1. PICK h : SetTxUnconfirmedAfter(h)
    BY <1>8 DEF Reorg
  <2> DEFINE hit == ConfirmedAfter(h)
  <2>2. /\ height' = [t \in Tx |-> IF t \in hit THEN Unconfirmed ELSE height[t]]
        /\ ledger' = IF hit # {} THEN UpdateBalance(transactions, height', h, count, now) ELSE ledger
        /\ transactions' = transactions /\ count' = count
    BY <2>1 DEF SetTxUnconfirmedAfter
  <2> HIDE DEF hit
  <2>3. CASE hit # {}
    <3>1. ledger' = UpdateBalance(transactions', height', h, count, now)
      BY <2>2, <2>3
    <3>2. QED
      BY <1>1, <2>2, <3>1, CacheRenewed
  <2>4. CASE hit = {}
    <3>1. height' = height /\ ledger' = ledger
      BY <1>2, <2>2, <2>4
    <3>2. QED
      BY <1>3, <2>2, <3>1
  <2>5. QED
    BY <2>3, <2>4
<1>9. CASE RemoveStep
  <2> DEFINE t == Head(calls)[2]
  <2>1. height' = height /\ count' = count
    BY <1>9 DEF RemoveStep
  <2>2. CASE TakeOut(t)
    <3>1. ledger' = UpdateBalance(transactions', height', blockHeight, count, now)
      BY <2>1, <2>2 DEF TakeOut
    <3>2. QED
      BY <1>1, <2>1, <3>1, CacheRenewed
  <2>3. CASE ~TakeOut(t)
    <3>1. UNCHANGED <<transactions, ledger>>
      BY <1>9, <2>3 DEF RemoveStep
    <3>2. QED
      BY <1>3, <2>1, <3>1
  <2>4. QED
    BY <2>2, <2>3
<1>10. CASE UpdateStep
  <2>1. /\ CallsInv /\ calls # <<>> /\ Head(calls)[1] = "update"
        /\ UpdateTransactions(Head(calls)[2], Head(calls)[3], 1)
    BY <1>10 DEF IInv, UpdateStep
  <2>2. Head(calls)[3] # Unconfirmed
    BY <1>10, UpdateHeight
  <2>3. QED
    BY <2>1, <2>2, CacheUpdate
<1>11. CASE \E c \in Chains, spare \in BOOLEAN :
              GenerateAddrs(c, IF spare THEN GapLimit[c] + SpareAddrs ELSE 1)
  <2>1. PICK c \in Chains, spare \in BOOLEAN :
          GenerateAddrs(c, IF spare THEN GapLimit[c] + SpareAddrs ELSE 1)
    BY <1>11
  <2> DEFINE gap == IF spare THEN GapLimit[c] + SpareAddrs ELSE 1
  <2>2. /\ count' = UnusedAddrs(count, ledger.usedAddrs, c, gap)
        /\ transactions' = transactions /\ ledger' = ledger /\ height' = height
    BY <2>1 DEF GenerateAddrs
  <2>3. gap \in Nat \ {0}
    BY GapIs
  <2>4. IsFiniteSet(ledger.usedAddrs)
    BY DEF IInv, Core, LedgerInv, LedgerOK, LedgerMoney
  <2> HIDE DEF gap
  <2>5. \A d \in Chains : count'[d] >= count[d]
    BY <1>1, <2>2, <2>3, <2>4, UnusedAddrsIs
  <2>6. QED
    BY <1>1, <2>2, <2>5, CacheKept
<1>12. CASE Tick
  BY <1>3, <1>12 DEF Tick
<1>13. CASE UNCHANGED vars
  BY <1>3, <1>13 DEF vars
<1>14. QED
  BY <1>4, <1>5, <1>6, <1>7, <1>8, <1>9, <1>10, <1>11, <1>12, <1>13 DEF Next, ManagerCall

-----------------------------------------------------------------------------
(* BRWalletTransactionIsValid *)

\* the transactions it finds valid when their parents in V are
ValidGiven(n, V) ==
  {x \in Tx : \/ height[x] # Unconfirmed
              \/ /\ IF x \in allTx THEN x \notin ledger.invalidTx
                                   ELSE Ins[x] \cap ledger.spentOutputs = {}
                 /\ n > 0 => \A p \in Parents(x) \cap allTx : p \in V}

Valids(f, k) == f = [n \in 0 .. k |-> ValidGiven(n, f[n - 1])]

LEMMA ValidsExist ==
  ASSUME NEW m \in Nat
  PROVE  \E f : Valids(f, m)
<1> DEFINE Bad == {k \in Nat : ~\E f : Valids(f, k)}
<1>1. SUFFICES ASSUME Bad # {} PROVE FALSE
  OBVIOUS
<1>2. PICK k \in Bad : \A i \in Bad : k <= i
  <2>1. Bad \subseteq Nat
    OBVIOUS
  <2> HIDE DEF Bad
  <2>2. QED
    BY <1>1, <2>1, NatLeast
<1>3. \A V, W : ValidGiven(0, V) = ValidGiven(0, W)
  BY DEF ValidGiven
<1>4. k # 0
  <2> DEFINE g == [n \in 0 .. 0 |-> ValidGiven(0, {})]
  <2>1. \A n \in 0 .. 0 : n = 0 /\ g[n] = ValidGiven(n, g[n - 1])
    BY <1>3
  <2>2. Valids(g, 0)
    BY <2>1 DEF Valids
  <2>3. QED
    BY <2>2
<1>5. k \in Nat /\ k - 1 \in Nat /\ k - 1 \notin Bad
  <2>1. k \in Nat
    OBVIOUS
  <2> HIDE DEF Bad
  <2>2. QED
    BY <1>2, <1>4, <2>1
<1>6. PICK f : Valids(f, k - 1)
  BY <1>5
<1> DEFINE g == [n \in 0 .. k |-> IF n = k THEN ValidGiven(k, f[k - 1]) ELSE f[n]]
<1>7. Valids(g, k)
  <2>1. ASSUME NEW n \in 0 .. k PROVE g[n] = ValidGiven(n, g[n - 1])
    <3>1. CASE n = k
      <4>1. k - 1 \in 0 .. k /\ k - 1 # k
        BY <1>4, <1>5
      <4>2. g[k - 1] = f[k - 1] /\ g[n] = ValidGiven(k, f[k - 1])
        BY <3>1, <4>1
      <4>3. QED
        BY <3>1, <4>2
    <3>2. CASE n # k /\ n # 0
      <4>1. n \in 0 .. (k - 1) /\ g[n] = f[n] /\ n - 1 \in 0 .. k /\ n - 1 # k
        BY <1>5, <3>2
      <4>2. g[n - 1] = f[n - 1]
        BY <4>1
      <4>3. f[n] = ValidGiven(n, f[n - 1])
        BY <1>6, <4>1 DEF Valids
      <4>4. QED
        BY <4>1, <4>2, <4>3
    <3>3. CASE n # k /\ n = 0
      <4>1. n \in 0 .. (k - 1) /\ g[n] = f[n]
        BY <1>5, <3>3
      <4>2. f[n] = ValidGiven(n, f[n - 1])
        BY <1>6, <4>1 DEF Valids
      <4>3. QED
        BY <1>3, <3>3, <4>1, <4>2
    <3>4. QED
      BY <3>1, <3>2, <3>3
  <2>2. g = [n \in 0 .. k |-> g[n]]
    OBVIOUS
  <2> HIDE DEF g
  <2>3. QED
    BY <2>1, <2>2 DEF Valids
<1>8. QED
  BY <1>5, <1>7

\* its walk over ancestors that are in order ends as the ledger says
LEMMA ValidityIs ==
  ASSUME WalletAssumption, IInv, CacheInv, NEW L \in SUBSET ToSet(transactions), InOrder(L), NEW t \in L
  PROVE  IsValid(t) <=> t \notin ledger.invalidTx
<1> DEFINE m == Cardinality(Tx)
           f == CHOOSE g : Valids(g, m)
           Fine(n) == \A x \in L : x \in f[n] <=> x \notin ledger.invalidTx
           Bad == {n \in 0 .. m : ~Fine(n)}
<1>1. m \in Nat
  BY FS_CardinalityType DEF WalletAssumption
<1>2. IsValid(t) <=> t \in f[m]
  BY DEF IsValid, Valids, ValidGiven
<1>3. Valids(f, m)
  BY <1>1, ValidsExist
<1> HIDE DEF f, m
<1>4. \A n \in 0 .. m : f[n] = ValidGiven(n, f[n - 1])
  BY <1>3 DEF Valids
<1>5. /\ transactions \in Seq(Tx) /\ IsInjective(transactions)
      /\ ToSet(transactions) \subseteq allTx /\ allTx \subseteq Tx
      /\ ledger.invalidTx \subseteq {x \in ToSet(transactions) : height[x] = Unconfirmed}
  BY DEF IInv, Core, ListInv, NoDanglingTx, LedgerInv, LedgerOK, LedgerSpends
<1>6. ASSUME NEW x \in L, NEW p \in allTx, Spends(x, p), height[x] = Unconfirmed,
             height[p] = Unconfirmed, x \notin ledger.invalidTx
      PROVE  p \in L /\ p \notin ledger.invalidTx
  <2>1. p \in L /\ Before(transactions, p, x)
    BY <1>6 DEF InOrder
  <2>2. PICK hts, bh, cnt, time : Cached(hts, bh, cnt, time)
    BY DEF CacheInv
  <2>3. ledger = UpdateBalance(transactions, hts, bh, cnt, time) /\ hts[x] = Unconfirmed
    BY <1>6, <2>2 DEF Cached
  <2>4. QED
    BY <1>5, <1>6, <2>1, <2>3, InvalidSpreads
<1>7. \A n \in 0 .. m : \A p \in Tx : height[p] # Unconfirmed => p \in f[n]
  BY <1>4 DEF ValidGiven
<1>8. Bad = {}
  <2>1. SUFFICES ASSUME Bad # {} PROVE FALSE
    OBVIOUS
  <2>2. PICK n \in Bad : \A i \in Bad : n <= i
    <3>1. Bad \subseteq Nat
      BY <1>1
    <3> HIDE DEF Bad
    <3>2. QED
      BY <2>1, <3>1, NatLeast
  <2>3. n \in 0 .. m /\ ~Fine(n)
    OBVIOUS
  <2>4. n > 0 => n - 1 \in 0 .. m /\ Fine(n - 1)
    <3>1. n > 0 => n - 1 \in 0 .. m /\ n - 1 \notin Bad
      <4> HIDE DEF Bad
      <4> QED BY <1>1, <2>2, <2>3
    <3> HIDE DEF Fine
    <3>2. QED
      BY <3>1
  <2>5. ASSUME NEW x \in L PROVE x \in f[n] <=> x \notin ledger.invalidTx
    <3>1. x \in allTx /\ x \in Tx
      BY <1>5
    <3>2. x \in f[n] <=> \/ height[x] # Unconfirmed
                         \/ /\ x \notin ledger.invalidTx
                            /\ n > 0 => \A p \in Parents(x) \cap allTx : p \in f[n - 1]
      BY <1>4, <2>3, <3>1 DEF ValidGiven
    <3>3. height[x] # Unconfirmed => x \notin ledger.invalidTx
      BY <1>5
    <3>4. ASSUME height[x] = Unconfirmed, x \notin ledger.invalidTx, n > 0, NEW p \in Parents(x) \cap allTx
          PROVE  p \in f[n - 1]
      <4>1. Spends(x, p) /\ p \in Tx
        BY <1>5 DEF Spends
      <4>2. CASE height[p] # Unconfirmed
        BY <1>7, <2>4, <3>4, <4>1, <4>2
      <4>3. CASE height[p] = Unconfirmed
        <5>1. p \in L /\ p \notin ledger.invalidTx
          BY <1>6, <3>4, <4>1, <4>3
        <5>2. QED
          BY <2>4, <3>4, <5>1
      <4>4. QED
        BY <4>2, <4>3
    <3>5. QED
      BY <3>2, <3>3, <3>4
  <2>6. QED
    BY <2>3, <2>5
<1>9. Fine(m)
  <2>1. m \in 0 .. m /\ m \notin Bad
    <3> HIDE DEF Bad
    <3> QED BY <1>1, <1>8
  <2> HIDE DEF Fine
  <2>2. QED
    BY <2>1
<1>10. QED
  BY <1>2, <1>9

-----------------------------------------------------------------------------
(* The theorems *)

\* The cached ledger always comes from the list as it is.
THEOREM CacheInvariance == Spec => []CacheInv
<1>1. Init /\ IInv => CacheInv
  <2> SUFFICES ASSUME Init, IInv PROVE CacheInv
    OBVIOUS
  <2>1. ledger = UpdateBalance(transactions, height, 0, count, now)
    BY DEF Init
  <2>2. count \in [Chains -> Nat] /\ \A c \in Chains : count[c] >= count[c]
    BY DEF IInv, Core, StateInv
  <2>3. Cached(height, 0, count, now)
    BY <2>1, <2>2 DEF Cached
  <2>4. QED
    BY <2>3 DEF CacheInv
<1>2. IInv /\ IInv' /\ CacheInv /\ [Next]_vars => CacheInv'
  BY CacheNext, WalletAssumption
<1>3. QED
  BY <1>1, <1>2, Invariance, PTL DEF Spec

\* The cached ledger is what a recomputation would give, unless a lock has opened
\* or closed since; addresses generated since can only add outputs.
THEOREM LedgerIsFresh == Spec => []LedgerFresh
<1>1. IInv /\ CacheInv => LedgerFresh
  <2> SUFFICES ASSUME IInv, CacheInv PROVE LedgerFresh
    OBVIOUS
  <2> DEFINE fresh == UpdateBalance(transactions, height, blockHeight, count, now)
  <2>1. PICK hts, bh, cnt, time : Cached(hts, bh, cnt, time)
    BY DEF CacheInv
  <2>2. /\ transactions \in Seq(Tx) /\ IsInjective(transactions) /\ count \in [Chains -> Nat]
        /\ ledger.invalidTx \subseteq {x \in ToSet(transactions) : height[x] = Unconfirmed}
    BY DEF IInv, Core, ListInv, NoDanglingTx, StateInv, LedgerInv, LedgerOK, LedgerSpends
  <2>3. AllAddrs(cnt) \subseteq AllAddrs(count)
    BY <2>1, <2>2, AllAddrsGrow DEF Cached
  <2>4. ledger = UpdateBalance(transactions, hts, bh, cnt, time)
        /\ \A t \in ToSet(transactions) :
             /\ height[t] = Unconfirmed => hts[t] = Unconfirmed
             /\ height[t] # Unconfirmed => t \notin ledger.invalidTx
    BY <2>1, <2>2 DEF Cached
  <2>5. ledger.pendingTx = fresh.pendingTx => SameLedger(ledger, fresh)
    BY <2>2, <2>3, <2>4, SameRuns
  <2> HIDE DEF fresh
  <2>6. ledger.pendingTx = fresh.pendingTx =>
          /\ ledger.invalidTx = fresh.invalidTx /\ ledger.spentOutputs = fresh.spentOutputs
          /\ ledger.usedAddrs = fresh.usedAddrs /\ ledger.utxos \subseteq fresh.utxos
    BY <2>5 DEF SameLedger
  <2>7. QED
    BY <2>6 DEF LedgerFresh, fresh
<1>2. QED
  BY <1>1, Invariance, CacheInvariance, PTL

\* BRWalletTransactionIsValid says of a transaction whose ancestors are in order what
\* the balance assumes of it.
THEOREM ValidityIsKnown == Spec => []ValidityAgrees
<1>1. IInv /\ CacheInv => ValidityAgrees
  <2> SUFFICES ASSUME IInv, CacheInv PROVE ValidityAgrees
    OBVIOUS
  <2>1. ASSUME NEW t \in ToSet(transactions), NEW L \in SUBSET ToSet(transactions), t \in L, InOrder(L)
        PROVE  IsValid(t) <=> t \notin ledger.invalidTx
    BY <2>1, ValidityIs, WalletAssumption
  <2>2. QED
    BY <2>1 DEF ValidityAgrees
<1>2. QED
  BY <1>1, Invariance, CacheInvariance, PTL


=============================================================================
