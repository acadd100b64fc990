---------------------------- MODULE WalletProofs ----------------------------
(***************************************************************************)
(* Proofs about Wallet, for every set of transactions.                     *)
(*                                                                         *)
(* First what _BRWalletUpdateBalance computes: LedgerOK holds after every  *)
(* turn of its loop.  Then the wallet: its list holds no transaction that  *)
(* has been freed, because each has a Reason to be the wallet's that no    *)
(* call takes away, or comes from the database and has one when its block  *)
(* arrives; and the ledger stays right when it is not recomputed.          *)
(***************************************************************************)
EXTENDS WalletLemmas

-----------------------------------------------------------------------------
(* The ledger *)

\* the fields that _BRWalletUpdateBalance fills
LedgerFields(led) ==
  led = [utxos |-> led.utxos, spentOutputs |-> led.spentOutputs, invalidTx |-> led.invalidTx,
         pendingTx |-> led.pendingTx, usedAddrs |-> led.usedAddrs, balance |-> led.balance,
         prevBalance |-> led.prevBalance, balanceHist |-> led.balanceHist,
         totalSent |-> led.totalSent, totalReceived |-> led.totalReceived]

\* which of the transactions seen so far count, and what they spend
LedgerSpends(led, seen, hts) ==
  /\ \A t \in seen \ (led.invalidTx \cup led.pendingTx) : Ins[t] \cap led.utxos = {}
  /\ led.invalidTx \cup led.pendingTx \subseteq {t \in seen : hts[t] = Unconfirmed}
  /\ \A t \in seen \ led.invalidTx : Ins[t] \subseteq led.spentOutputs
  /\ \A t, s \in seen \ led.invalidTx :
       Conflict(t, s) => hts[t] # Unconfirmed \/ hts[s] # Unconfirmed

\* what the outputs are worth, and how that came about
LedgerMoney(led, seen) ==
  /\ IsFiniteSet(led.utxos) /\ IsFiniteSet(led.usedAddrs)
  /\ \A u \in led.utxos : u[1] \in seen /\ OutAmount(u) \in Nat
  /\ led.balance = SumAmounts(led.utxos) /\ led.prevBalance = led.balance
  /\ led.balance = led.totalReceived - led.totalSent
  /\ led.balance \in Nat /\ led.totalReceived \in Nat /\ led.totalSent \in Nat

\* one entry per transaction
LedgerHist(led, n) ==
  /\ led.balanceHist \in Seq(Nat) /\ Len(led.balanceHist) = n
  /\ n > 0 => led.balanceHist[n] = led.balance

\* what holds of a ledger after n transactions, those of seen
LedgerOK(led, seen, n, hts) ==
  /\ LedgerFields(led) /\ LedgerSpends(led, seen, hts) /\ LedgerMoney(led, seen)
  /\ LedgerHist(led, n)

-----------------------------------------------------------------------------
(* One turn of the loop *)

LEMMA InvalidStep ==
  ASSUME NEW led, LedgerFields(led), NEW t, NEW hts, NEW bh, NEW cnt, NEW time,
         hts[t] = Unconfirmed /\ IsInvalid(led, t)
  PROVE  LET new == LedgerStep(led, hts, bh, cnt, time, t) IN
         /\ LedgerFields(new)
         /\ new.utxos = led.utxos /\ new.spentOutputs = led.spentOutputs
         /\ new.invalidTx = led.invalidTx \cup {t} /\ new.pendingTx = led.pendingTx
         /\ new.usedAddrs = led.usedAddrs
         /\ new.balance = led.balance /\ new.prevBalance = led.prevBalance
         /\ new.balanceHist = Append(led.balanceHist, led.balance)
         /\ new.totalSent = led.totalSent /\ new.totalReceived = led.totalReceived
  BY DEF LedgerStep, LedgerFields

LEMMA PendingStep ==
  ASSUME NEW led, LedgerFields(led), NEW t, NEW hts, NEW bh, NEW cnt, NEW time,
         ~(hts[t] = Unconfirmed /\ IsInvalid(led, t)),
         hts[t] = Unconfirmed /\ IsPending(led, bh, time, t)
  PROVE  LET new == LedgerStep(led, hts, bh, cnt, time, t) IN
         /\ LedgerFields(new)
         /\ new.utxos = led.utxos /\ new.spentOutputs = led.spentOutputs \cup Ins[t]
         /\ new.invalidTx = led.invalidTx /\ new.pendingTx = led.pendingTx \cup {t}
         /\ new.usedAddrs = led.usedAddrs
         /\ new.balance = led.balance /\ new.prevBalance = led.prevBalance
         /\ new.balanceHist = Append(led.balanceHist, led.balance)
         /\ new.totalSent = led.totalSent /\ new.totalReceived = led.totalReceived
  BY DEF LedgerStep, LedgerFields

LEMMA CountedStep ==
  ASSUME NEW led, LedgerFields(led), NEW t, NEW hts, NEW bh, NEW cnt, NEW time,
         ~(hts[t] = Unconfirmed /\ IsInvalid(led, t)),
         ~(hts[t] = Unconfirmed /\ IsPending(led, bh, time, t))
  PROVE  LET new  == LedgerStep(led, hts, bh, cnt, time, t)
             own  == OwnOutputs(cnt, t)
             gone == SpentUtxos(led, cnt, t)
             bal  == led.balance + SumAmounts(own) - SumAmounts(gone)
         IN
         /\ LedgerFields(new)
         /\ new.utxos = (led.utxos \cup own) \ gone
         /\ new.spentOutputs = led.spentOutputs \cup Ins[t]
         /\ new.invalidTx = led.invalidTx /\ new.pendingTx = led.pendingTx
         /\ new.usedAddrs = led.usedAddrs \cup (OutAddrs(t) \ {NoAddr})
         /\ new.balance = bal /\ new.prevBalance = bal
         /\ new.balanceHist = Append(led.balanceHist, bal)
         /\ new.totalReceived = led.totalReceived + Gain(led.prevBalance, bal)
         /\ new.totalSent = led.totalSent + Gain(bal, led.prevBalance)
  BY DEF LedgerStep, LedgerFields

LEMMA HistStep ==
  ASSUME NEW n \in Nat, NEW led, LedgerHist(led, n), NEW new, new.balance \in Nat,
         new.balanceHist = Append(led.balanceHist, new.balance)
  PROVE  LedgerHist(new, n + 1)
<1>1. led.balanceHist \in Seq(Nat) /\ Len(led.balanceHist) = n
  BY DEF LedgerHist
<1> DEFINE old == led.balanceHist
           bal == new.balance
<1>2. old \in Seq(Nat) /\ Len(old) = n /\ bal \in Nat /\ new.balanceHist = Append(old, bal)
  BY <1>1
<1> HIDE DEF old, bal
<1>3. Append(old, bal) \in Seq(Nat) /\ Len(Append(old, bal)) = n + 1 /\ Append(old, bal)[n + 1] = bal
  BY <1>2
<1>4. QED
  BY <1>2, <1>3 DEF LedgerHist, bal

LEMMA LedgerStepOK ==
  ASSUME WalletAssumption, NEW seen, NEW n \in Nat, NEW hts, NEW led, LedgerOK(led, seen, n, hts),
         NEW t \in Tx, t \notin seen, NEW bh, NEW cnt, NEW time
  PROVE  LedgerOK(LedgerStep(led, hts, bh, cnt, time, t), seen \cup {t}, n + 1, hts)
<1> DEFINE new == LedgerStep(led, hts, bh, cnt, time, t)
<1>1. LedgerFields(led) /\ LedgerSpends(led, seen, hts) /\ LedgerMoney(led, seen) /\ LedgerHist(led, n)
  BY DEF LedgerOK
<1>2. led.balance \in Nat
  BY <1>1 DEF LedgerMoney
<1>3. CASE hts[t] = Unconfirmed /\ IsInvalid(led, t)
  <2>1. /\ LedgerFields(new)
        /\ new.utxos = led.utxos /\ new.spentOutputs = led.spentOutputs
        /\ new.invalidTx = led.invalidTx \cup {t} /\ new.pendingTx = led.pendingTx
        /\ new.usedAddrs = led.usedAddrs
        /\ new.balance = led.balance /\ new.prevBalance = led.prevBalance
        /\ new.balanceHist = Append(led.balanceHist, led.balance)
        /\ new.totalSent = led.totalSent /\ new.totalReceived = led.totalReceived
    BY <1>1, <1>3, InvalidStep
  <2> HIDE DEF new
  <2>2. LedgerSpends(new, seen \cup {t}, hts)
    BY <1>1, <1>3, <2>1 DEF LedgerSpends
  <2>3. LedgerMoney(new, seen \cup {t})
    BY <1>1, <2>1 DEF LedgerMoney
  <2>4. LedgerHist(new, n + 1)
    BY <1>1, <1>2, <2>1, HistStep
  <2>5. QED
    BY <2>1, <2>2, <2>3, <2>4 DEF LedgerOK, new
<1>4. CASE ~(hts[t] = Unconfirmed /\ IsInvalid(led, t)) /\ hts[t] = Unconfirmed /\ IsPending(led, bh, time, t)
  <2>1. /\ LedgerFields(new)
        /\ new.utxos = led.utxos /\ new.spentOutputs = led.spentOutputs \cup Ins[t]
        /\ new.invalidTx = led.invalidTx /\ new.pendingTx = led.pendingTx \cup {t}
        /\ new.usedAddrs = led.usedAddrs
        /\ new.balance = led.balance /\ new.prevBalance = led.prevBalance
        /\ new.balanceHist = Append(led.balanceHist, led.balance)
        /\ new.totalSent = led.totalSent /\ new.totalReceived = led.totalReceived
    BY <1>1, <1>4, PendingStep
  <2> HIDE DEF new
  <2>2. LedgerSpends(new, seen \cup {t}, hts)
    <3>1. Ins[t] \cap led.spentOutputs = {}
      BY <1>4 DEF IsInvalid
    <3>2. \A s \in seen \ led.invalidTx : ~Conflict(t, s) /\ ~Conflict(s, t)
      BY <1>1, <3>1 DEF LedgerSpends, Conflict
    <3>3. QED
      BY <1>1, <1>4, <2>1, <3>2 DEF LedgerSpends, Conflict
  <2>3. LedgerMoney(new, seen \cup {t})
    BY <1>1, <2>1 DEF LedgerMoney
  <2>4. LedgerHist(new, n + 1)
    BY <1>1, <1>2, <2>1, HistStep
  <2>5. QED
    BY <2>1, <2>2, <2>3, <2>4 DEF LedgerOK, new
<1>5. CASE ~(hts[t] = Unconfirmed /\ IsInvalid(led, t)) /\ ~(hts[t] = Unconfirmed /\ IsPending(led, bh, time, t))
  <2> DEFINE own  == OwnOutputs(cnt, t)
             gone == SpentUtxos(led, cnt, t)
             bal  == led.balance + SumAmounts(own) - SumAmounts(gone)
  <2>1. /\ LedgerFields(new)
        /\ new.utxos = (led.utxos \cup own) \ gone
        /\ new.spentOutputs = led.spentOutputs \cup Ins[t]
        /\ new.invalidTx = led.invalidTx /\ new.pendingTx = led.pendingTx
        /\ new.usedAddrs = led.usedAddrs \cup (OutAddrs(t) \ {NoAddr})
        /\ new.balance = bal /\ new.prevBalance = bal
        /\ new.balanceHist = Append(led.balanceHist, bal)
        /\ new.totalReceived = led.totalReceived + Gain(led.prevBalance, bal)
        /\ new.totalSent = led.totalSent + Gain(bal, led.prevBalance)
    BY <1>1, <1>5, CountedStep
  <2> HIDE DEF new
  <2>2. gone = (led.utxos \cup own) \cap (led.spentOutputs \cup Ins[t])
    BY DEF SpentUtxos
  <2>3. LedgerSpends(new, seen \cup {t}, hts)
    <3> DEFINE counted == seen \ (led.invalidTx \cup led.pendingTx)
    <3>1. \A s \in counted : Ins[s] \subseteq led.spentOutputs
      BY <1>1 DEF LedgerSpends
    <3>2. \A s \in counted \cup {t} : Ins[s] \cap new.utxos = {}
      BY <2>1, <2>2, <3>1
    <3>3. hts[t] = Unconfirmed => Ins[t] \cap led.spentOutputs = {}
      BY <1>5 DEF IsInvalid
    <3>4. hts[t] = Unconfirmed => \A s \in seen \ led.invalidTx : ~Conflict(t, s) /\ ~Conflict(s, t)
      BY <1>1, <3>3 DEF LedgerSpends, Conflict
    <3> HIDE DEF own, gone, bal
    <3>5. /\ \A s \in (seen \cup {t}) \ (new.invalidTx \cup new.pendingTx) : Ins[s] \cap new.utxos = {}
          /\ new.invalidTx \cup new.pendingTx \subseteq {s \in seen \cup {t} : hts[s] = Unconfirmed}
      BY <1>1, <2>1, <3>2 DEF LedgerSpends
    <3>6. \A s \in (seen \cup {t}) \ new.invalidTx : Ins[s] \subseteq new.spentOutputs
      BY <1>1, <2>1 DEF LedgerSpends
    <3>7. \A r, s \in (seen \cup {t}) \ new.invalidTx :
            Conflict(r, s) => hts[r] # Unconfirmed \/ hts[s] # Unconfirmed
      BY <1>1, <2>1, <3>4 DEF LedgerSpends, Conflict
    <3>8. QED
      BY <3>5, <3>6, <3>7 DEF LedgerSpends
  <2>4. /\ bal = SumAmounts(new.utxos) /\ bal \in Nat /\ IsFiniteSet(new.utxos)
        /\ \A u \in new.utxos : u[1] \in seen \cup {t} /\ OutAmount(u) \in Nat
    <3>1. /\ IsFiniteSet(led.utxos) /\ \A u \in led.utxos : u[1] \in seen /\ OutAmount(u) \in Nat
          /\ led.balance = SumAmounts(led.utxos)
      BY <1>1 DEF LedgerMoney
    <3>2. IsFiniteSet(own) /\ \A u \in own : u[1] = t /\ OutAmount(u) \in Nat
      BY OwnOutputsIs
    <3>3. led.utxos \cap own = {}
      BY <3>1, <3>2
    <3>4. gone \subseteq led.utxos \cup own
      BY <2>2
    <3> DEFINE old == led.utxos
    <3> HIDE DEF own, gone, old
    <3>5. /\ SumAmounts((old \cup own) \ gone) = SumAmounts(old) + SumAmounts(own) - SumAmounts(gone)
          /\ SumAmounts((old \cup own) \ gone) \in Nat
      BY <3>1, <3>2, <3>3, <3>4, SumChange DEF old
    <3>6. IsFiniteSet((old \cup own) \ gone)
      BY <3>1, <3>2, FS_Union, FS_Difference DEF old
    <3>7. QED
      BY <2>1, <3>1, <3>2, <3>5, <3>6 DEF old
  <2>5. IsFiniteSet(new.usedAddrs)
    <3>1. IsFiniteSet(led.usedAddrs)
      BY <1>1 DEF LedgerMoney
    <3>2. IsFiniteSet(OutAddrs(t) \ {NoAddr})
      BY OutAddrsFinite, FS_Difference
    <3> DEFINE old == led.usedAddrs
               more == OutAddrs(t) \ {NoAddr}
    <3> HIDE DEF old, more
    <3>3. IsFiniteSet(old \cup more)
      BY <3>1, <3>2, FS_Union DEF old, more
    <3>4. new.usedAddrs = old \cup more
      BY <2>1 DEF old, more
    <3>5. QED
      BY <3>3, <3>4
  <2> HIDE DEF own, gone, bal
  <2>6. /\ bal = new.totalReceived - new.totalSent
        /\ new.totalReceived \in Nat /\ new.totalSent \in Nat
    <3>1. /\ led.prevBalance \in Nat /\ led.prevBalance = led.totalReceived - led.totalSent
          /\ led.totalReceived \in Nat /\ led.totalSent \in Nat
      BY <1>1 DEF LedgerMoney
    <3> DEFINE prev == led.prevBalance
               received == led.totalReceived
               sent == led.totalSent
    <3>2. /\ prev \in Nat /\ received \in Nat /\ sent \in Nat /\ prev = received - sent /\ bal \in Nat
          /\ new.totalReceived = received + Gain(prev, bal) /\ new.totalSent = sent + Gain(bal, prev)
      BY <2>1, <2>4, <3>1
    <3> HIDE DEF prev, received, sent, bal
    <3>3. /\ received + Gain(prev, bal) \in Nat /\ sent + Gain(bal, prev) \in Nat
          /\ bal = (received + Gain(prev, bal)) - (sent + Gain(bal, prev))
      <4>1. /\ bal > prev => Gain(prev, bal) = bal - prev /\ Gain(bal, prev) = 0
            /\ ~(bal > prev) => Gain(prev, bal) = 0 /\ Gain(bal, prev) = prev - bal
        BY <3>2 DEF Gain
      <4>2. CASE bal > prev
        BY <3>2, <4>1, <4>2
      <4>3. CASE ~(bal > prev)
        BY <3>2, <4>1, <4>3
      <4>4. QED
        BY <4>2, <4>3
    <3>4. QED
      BY <3>2, <3>3
  <2>7. LedgerMoney(new, seen \cup {t})
    BY <2>1, <2>4, <2>5, <2>6 DEF LedgerMoney
  <2>8. LedgerHist(new, n + 1)
    BY <1>1, <2>1, <2>4, HistStep
  <2>9. QED
    BY <2>1, <2>3, <2>7, <2>8 DEF LedgerOK, new
<1>6. QED
  BY <1>3, <1>4, <1>5

\* the ledgers that _BRWalletUpdateBalance goes through
Ledgers(f, txs, hts, bh, cnt, time, k) ==
  f = [n \in 0 .. k |->
         IF n = 0 THEN EmptyLedger ELSE LedgerStep(f[n - 1], hts, bh, cnt, time, txs[n])]

LEMMA LedgersExist ==
  ASSUME NEW txs, NEW hts, NEW bh, NEW cnt, NEW time, NEW m \in Nat
  PROVE  \E f : Ledgers(f, txs, hts, bh, cnt, time, m)
<1> DEFINE Step(acc, n) == LedgerStep(acc, hts, bh, cnt, time, txs[n])
           Rec(f, k) == f = [n \in 0 .. k |-> IF n = 0 THEN EmptyLedger ELSE Step(f[n - 1], n)]
           Bad == {k \in Nat : ~\E f : Rec(f, k)}
<1>1. SUFFICES ASSUME Bad # {} PROVE FALSE
  BY DEF Ledgers
<1>2. PICK k \in Bad : \A i \in Bad : k <= i
  <2>1. Bad \subseteq Nat
    OBVIOUS
  <2> HIDE DEF Bad
  <2>2. QED
    BY <1>1, <2>1, NatLeast
<1> HIDE DEF Step
<1>3. k # 0
  <2>1. Rec([n \in 0 .. 0 |-> EmptyLedger], 0)
    OBVIOUS
  <2>2. QED
    BY <2>1
<1>4. k \in Nat /\ k - 1 \in Nat /\ k - 1 \notin Bad
  <2>1. k \in Nat
    OBVIOUS
  <2> HIDE DEF Bad
  <2>2. QED
    BY <1>2, <1>3, <2>1
<1>5. PICK f : Rec(f, k - 1)
  BY <1>4
<1> DEFINE g == [n \in 0 .. k |-> IF n = k THEN Step(f[k - 1], k) ELSE f[n]]
<1>6. Rec(g, k)
  <2>1. ASSUME NEW n \in 0 .. k PROVE g[n] = IF n = 0 THEN EmptyLedger ELSE Step(g[n - 1], n)
    <3>1. CASE n = k
      BY <1>3, <1>4, <3>1
    <3>2. CASE n # k
      <4>1. n \in 0 .. (k - 1) /\ g[n] = f[n]
        BY <1>4, <3>2
      <4>2. f[n] = IF n = 0 THEN EmptyLedger ELSE Step(f[n - 1], n)
        BY <1>5, <4>1
      <4>3. n # 0 => n - 1 \in 0 .. k /\ n - 1 # k
        BY <1>4, <3>2
      <4>4. QED
        BY <4>1, <4>2, <4>3
    <3>3. QED
      BY <3>1, <3>2
  <2>2. QED
    BY <2>1
<1>7. QED
  BY <1>4, <1>6

LEMMA UpdateBalanceOK ==
  ASSUME WalletAssumption, NEW txs \in Seq(Tx), IsInjective(txs), NEW hts, NEW bh, NEW cnt, NEW time
  PROVE  LedgerOK(UpdateBalance(txs, hts, bh, cnt, time), ToSet(txs), Len(txs), hts)
<1> DEFINE m == Len(txs)
           led == CHOOSE f : Ledgers(f, txs, hts, bh, cnt, time, m)
           seen(n) == {txs[i] : i \in 1 .. n}
           Fine(n) == LedgerOK(led[n], seen(n), n, hts)
           Bad == {n \in 0 .. m : ~Fine(n)}
<1>1. m \in Nat /\ DOMAIN txs = 1 .. m /\ \A n \in 1 .. m : txs[n] \in Tx
  OBVIOUS
<1>2. UpdateBalance(txs, hts, bh, cnt, time) = led[m]
  BY DEF UpdateBalance, Ledgers
<1>3. Ledgers(led, txs, hts, bh, cnt, time, m)
  BY <1>1, LedgersExist
<1> HIDE DEF led
<1>4. led[0] = EmptyLedger
      /\ \A n \in 1 .. m : led[n] = LedgerStep(led[n - 1], hts, bh, cnt, time, txs[n])
  <2>1. led = [n \in 0 .. m |->
                 IF n = 0 THEN EmptyLedger ELSE LedgerStep(led[n - 1], hts, bh, cnt, time, txs[n])]
    BY <1>3 DEF Ledgers
  <2>2. 0 \in 0 .. m /\ \A n \in 1 .. m : n \in 0 .. m /\ n # 0
    BY <1>1
  <2> HIDE DEF m
  <2>3. led[0] = EmptyLedger
    BY <2>1, <2>2
  <2>4. QED
    BY <2>1, <2>2, <2>3
<1>5. Bad = {}
  <2>1. SUFFICES ASSUME Bad # {} PROVE FALSE
    OBVIOUS
  <2>2. PICK n \in Bad : \A i \in Bad : n <= i
    <3>1. Bad \subseteq Nat
      OBVIOUS
    <3> HIDE DEF Bad
    <3>2. QED
      BY <2>1, <3>1, NatLeast
  <2>3. n \in 0 .. m /\ ~Fine(n)
    OBVIOUS
  <2>4. n # 0
    <3>1. seen(0) = {}
      OBVIOUS
    <3>2. LedgerOK(EmptyLedger, {}, 0, hts)
      <4>1. LedgerFields(EmptyLedger)
        BY DEF LedgerFields, EmptyLedger
      <4>2. LedgerSpends(EmptyLedger, {}, hts)
        BY DEF LedgerSpends, EmptyLedger
      <4>3. LedgerMoney(EmptyLedger, {})
        BY FS_EmptySet, SumEmpty DEF LedgerMoney, EmptyLedger
      <4>4. LedgerHist(EmptyLedger, 0)
        BY DEF LedgerHist, EmptyLedger
      <4>5. QED
        BY <4>1, <4>2, <4>3, <4>4 DEF LedgerOK
    <3>3. QED
      BY <1>4, <2>3, <3>1, <3>2
  <2>5. n \in 1 .. m /\ n - 1 \in 0 .. m /\ n - 1 \in Nat /\ (n - 1) + 1 = n
    BY <1>1, <2>3, <2>4
  <2>6. Fine(n - 1)
    <3>1. n - 1 \notin Bad
      <4> HIDE DEF Bad
      <4> QED BY <2>2, <2>5
    <3> HIDE DEF Fine
    <3>2. QED
      BY <2>5, <3>1
  <2>7. seen(n) = seen(n - 1) \cup {txs[n]} /\ txs[n] \in Tx
    <3>1. \A i : i \in 1 .. n <=> i \in 1 .. n - 1 \/ i = n
      <4> HIDE DEF Bad, m
      <4> QED BY <2>5
    <3>2. seen(n) = seen(n - 1) \cup {txs[n]}
      BY <3>1
    <3>3. QED
      BY <1>1, <2>5, <3>2
  <2>8. txs[n] \notin seen(n - 1)
    <3> SUFFICES ASSUME NEW i \in 1 .. n - 1, txs[i] = txs[n] PROVE FALSE
      OBVIOUS
    <3>1. i \in 1 .. m /\ n \in 1 .. m /\ i # n
      BY <1>1, <2>5
    <3>2. QED
      BY <1>1, <3>1 DEF IsInjective
  <2> HIDE DEF seen
  <2>9. LedgerOK(LedgerStep(led[n - 1], hts, bh, cnt, time, txs[n]), seen(n - 1) \cup {txs[n]}, (n - 1) + 1, hts)
    BY <2>5, <2>6, <2>7, <2>8, LedgerStepOK
  <2>10. Fine(n)
    BY <1>4, <2>5, <2>7, <2>9
  <2>11. QED
    BY <2>3, <2>10
<1>6. Fine(m)
  <2>1. m \notin Bad /\ m \in 0 .. m
    <3> HIDE DEF Bad
    <3> QED BY <1>1, <1>5
  <2> HIDE DEF Fine
  <2>2. QED
    BY <2>1
<1>7. seen(m) = ToSet(txs)
  BY <1>1 DEF ToSet
<1> HIDE DEF seen
<1>8. QED
  BY <1>2, <1>6, <1>7

\* A ledger stays right when transactions that it counts are confirmed.
LEMMA LedgerConfirm ==
  ASSUME NEW led, NEW seen, NEW n, NEW hts, LedgerOK(led, seen, n, hts), NEW new,
         \A t \in seen : new[t] # hts[t] =>
                           new[t] # Unconfirmed /\ t \notin led.invalidTx \cup led.pendingTx
  PROVE  LedgerOK(led, seen, n, new)
<1>1. LedgerSpends(led, seen, hts)
  BY DEF LedgerOK
<1>2. LedgerSpends(led, seen, new)
  BY <1>1 DEF LedgerSpends
<1>3. QED
  BY <1>2 DEF LedgerOK

-----------------------------------------------------------------------------
(* The inductive invariant *)

ListInv == transactions \in Seq(Tx) /\ allTx \subseteq Tx /\ NoDanglingTx

\* Why t is the wallet's: it pays an address, or spends an output that does.  The
\* parent is not removed before t is: the scan for dependents of the parent finds t
\* behind it.
Reason(all, txs, cnt, t) ==
  \/ Pays(cnt, t)
  \/ \E u \in Ins[t] : /\ u[1] \in all /\ OwnOutput(cnt, u)
                       /\ u[1] \in ToSet(txs) => Before(txs, u[1], t)

\* p is allocated while the chain holds it: a removal takes unconfirmed transactions
\* only, and starts when the updates of the last block have been made.
Held(p) ==
  \A h \in DOMAIN chain : p \in chain[h] =>
    /\ p \in allTx
    /\ height[p] = h \/ \E i \in DOMAIN calls : calls[i] = <<"update", chain[h], h>>

\* The database does not say that a parent stands before t, nor that it is stored:
\* its removal may leave t in the list.  But t is not confirmed before its parent is,
\* and then the parent is held.
Loaded(t) == \E u \in Ins[t] : u[1] \in Tx /\ OwnOutput(count, u) /\ Held(u[1])

OwnInv ==
  \A t \in ToSet(transactions) : Reason(allTx, transactions, count, t) \/ Loaded(t)

StateInv ==
  /\ height \in [Tx -> 1 .. MaxHeight \cup {Unconfirmed}]
  /\ timestamp \in [Tx -> {0, 1}]
  /\ blockHeight \in 0 .. MaxHeight \cup {Unconfirmed}
  /\ count \in [Chains -> Nat] /\ now \in Times

LedgerInv == LedgerOK(ledger, ToSet(transactions), Len(transactions), height)

Core == ListInv /\ StateInv /\ LedgerInv

ChainInv ==
  /\ chain \in Seq(SUBSET Tx) /\ Len(chain) <= MaxHeight /\ reorgs \in 0 .. MaxReorgs
  /\ ConsistentChain(chain)

\* t and everything behind it is unconfirmed
Trailing(t) ==
  /\ t \in ToSet(transactions)
  /\ \A s \in Tx : Before(transactions, t, s) => height[s] = Unconfirmed

\* what a removal may take out: t is unconfirmed and at the end of the list, or was
\* taken out already
Removable(t) == height[t] = Unconfirmed /\ (Trailing(t) \/ t \notin allTx)

\* all but the last of the calls depends on one that is removed later
Awaited(cs) ==
  \A i \in DOMAIN cs : \/ cs[i][2] = cs[Len(cs)][2]
                       \/ \E j \in i + 1 .. Len(cs) : Spends(cs[i][2], cs[j][2])

RemoveCalls ==
  /\ calls \in Seq({"remove"} \X Tx)
  /\ \A i \in DOMAIN calls : Removable(calls[i][2])
  /\ Awaited(calls)

BlockCalls ==
  /\ calls \in Seq({"update"} \X (SUBSET Tx) \X (1 .. MaxHeight))
  /\ \A i \in DOMAIN calls : \E h \in DOMAIN chain : calls[i] = <<"update", chain[h], h>>

CallsInv == RemoveCalls \/ BlockCalls

IInv == Core /\ OwnInv /\ ChainInv /\ CallsInv

-----------------------------------------------------------------------------
(* Facts *)

LEMMA HeightIs ==
  ASSUME WalletAssumption
  PROVE  /\ MaxHeight \in Nat /\ Unconfirmed \in Nat /\ MaxHeight < Unconfirmed
         /\ \A h \in 1 .. MaxHeight \cup {Unconfirmed} : h \in Nat /\ h <= Unconfirmed
         /\ \A h \in 1 .. MaxHeight : h # Unconfirmed
<1>1. MaxHeight \in Nat /\ Unconfirmed \in Nat /\ MaxHeight < Unconfirmed
  BY DEF WalletAssumption
<1>2. QED
  BY <1>1

\* an output that pays the wallet makes its transaction the wallet's
LEMMA OwnOutputPays ==
  ASSUME WalletAssumption, NEW t \in Tx, NEW u \in Ins[t], u[1] \in Tx, NEW cnt, OwnOutput(cnt, u)
  PROVE  Pays(cnt, u[1])
<1>1. /\ u[2] \in Nat /\ Len(Outs[u[1]]) \in Nat /\ DOMAIN Outs[u[1]] = 1 .. Len(Outs[u[1]])
      /\ u[2] < Len(Outs[u[1]]) /\ Outs[u[1]][u[2] + 1].addr \in AllAddrs(cnt)
  BY DEF WalletAssumption, OwnOutput
<1> DEFINE n == u[2]
           len == Len(Outs[u[1]])
<1>2. n + 1 \in DOMAIN Outs[u[1]]
  <2>1. n \in Nat /\ len \in Nat /\ n < len
    BY <1>1
  <2> HIDE DEF n, len
  <2>2. n + 1 \in 1 .. len
    BY <2>1
  <2>3. QED
    BY <1>1, <2>2 DEF len
<1>3. Outs[u[1]][u[2] + 1].addr \in OutAddrs(u[1])
  BY <1>2 DEF OutAddrs
<1>4. QED
  BY <1>1, <1>3 DEF Pays

LEMMA ReasonContains ==
  ASSUME NEW all, NEW txs, NEW cnt, NEW t, Reason(all, txs, cnt, t)
  PROVE  ContainsTx(all, cnt, t)
  BY DEF Reason, ContainsTx

\* more addresses are never a reason less
LEMMA PaysGrow ==
  ASSUME NEW cnt \in [Chains -> Nat], NEW more \in [Chains -> Nat],
         \A d \in Chains : more[d] >= cnt[d]
  PROVE  /\ \A t : Pays(cnt, t) => Pays(more, t)
         /\ \A u : OwnOutput(cnt, u) => OwnOutput(more, u)
         /\ \A all, txs, t : Reason(all, txs, cnt, t) => Reason(all, txs, more, t)
<1>1. AllAddrs(cnt) \subseteq AllAddrs(more)
  BY AllAddrsGrow
<1>2. \A t : Pays(cnt, t) => Pays(more, t)
  BY <1>1 DEF Pays
<1>3. \A u : OwnOutput(cnt, u) => OwnOutput(more, u)
  BY <1>1 DEF OwnOutput
<1>4. \A all, txs, t : Reason(all, txs, cnt, t) => Reason(all, txs, more, t)
  BY <1>2, <1>3 DEF Reason
<1>5. QED
  BY <1>2, <1>3, <1>4

\* what the chain holds stays held while no updates are due
LEMMA QuietHeld ==
  ASSUME NEW p, Held(p), \A i \in DOMAIN calls : calls[i][1] # "update", chain' = chain,
         \A h \in DOMAIN chain : p \in chain[h] => p \in allTx' /\ height'[p] = height[p]
  PROVE  Held(p)'
<1>1. ASSUME NEW h \in DOMAIN chain, p \in chain[h] PROVE p \in allTx' /\ height'[p] = h
  BY <1>1 DEF Held
<1>2. QED
  BY <1>1 DEF Held

\* the manager is idle, or removes: no updates are due
LEMMA NoUpdates ==
  ASSUME calls = <<>> \/ RemoveCalls
  PROVE  \A i \in DOMAIN calls : calls[i][1] # "update"
<1>1. CASE calls = <<>>
  BY <1>1
<1>2. CASE RemoveCalls
  <2> DEFINE T == {"remove"} \X Tx
  <2>1. calls \in Seq(T)
    BY <1>2 DEF RemoveCalls
  <2>2. \A x \in T : x[1] # "update"
    OBVIOUS
  <2> HIDE DEF T
  <2>3. \A i \in DOMAIN calls : calls[i] \in T
    BY <2>1
  <2>4. QED
    BY <2>2, <2>3
<1>3. QED
  BY <1>1, <1>2

LEMMA LoadedKept ==
  ASSUME NEW t, Loaded(t), \A u : OwnOutput(count, u) => OwnOutput(count', u),
         \A p \in Tx : Held(p) => Held(p)'
  PROVE  Loaded(t)'
<1>1. PICK u \in Ins[t] : u[1] \in Tx /\ OwnOutput(count, u) /\ Held(u[1])
  BY DEF Loaded
<1>2. OwnOutput(count', u)
  BY <1>1
<1>3. ASSUME NEW p, p = u[1] PROVE Held(p)'
  BY <1>1, <1>3
<1>4. Held(u[1])'
  BY <1>3
<1>5. QED
  BY <1>1, <1>2, <1>4 DEF Loaded

\* a step that leaves the transactions and the chain alone
LEMMA OwnSame ==
  ASSUME OwnInv, UNCHANGED <<transactions, allTx, height, chain>>,
         calls' = calls \/ \A i \in DOMAIN calls : calls[i][1] # "update",
         count \in [Chains -> Nat], count' \in [Chains -> Nat], \A d \in Chains : count'[d] >= count[d]
  PROVE  OwnInv'
<1>1. ASSUME NEW p, Held(p) PROVE Held(p)'
  <2>1. CASE calls' = calls
    BY <1>1, <2>1 DEF Held
  <2>2. CASE \A i \in DOMAIN calls : calls[i][1] # "update"
    <3>1. \A h \in DOMAIN chain : p \in chain[h] => p \in allTx'
      BY <1>1 DEF Held
    <3>2. QED
      BY <1>1, <2>2, <3>1, QuietHeld
  <2>3. QED
    BY <2>1, <2>2
<1>2. /\ \A u : OwnOutput(count, u) => OwnOutput(count', u)
      /\ \A t : Reason(allTx, transactions, count, t) => Reason(allTx, transactions, count', t)
  BY PaysGrow
<1>3. ASSUME NEW t \in ToSet(transactions)
      PROVE  Reason(allTx, transactions, count', t) \/ Loaded(t)'
  <2>1. CASE Reason(allTx, transactions, count, t)
    BY <1>2, <2>1
  <2>2. CASE Loaded(t)
    BY <1>1, <1>2, <2>2, LoadedKept
  <2>3. QED
    BY <2>1, <2>2 DEF OwnInv
<1>4. QED
  BY <1>3 DEF OwnInv

-----------------------------------------------------------------------------
(* _BRWalletInsertTx *)

\* a transaction comes behind the ones it spends that are confirmed no later
LEMMA ParentFirst ==
  ASSUME SpendsAssumption, NEW t \in Tx, NEW p \in Tx, Spends(t, p), NEW hts, NEW all, NEW cnt,
         hts[p] \in Nat, hts[t] \in Nat, hts[p] <= hts[t]
  PROVE  ~ComesAfter(hts, all, cnt, p, t)
<1>1. ~Spends(p, t)
  BY DEF SpendsAssumption
<1>2. ~IsAscending(hts, all, p, t)
  BY <1>1 DEF IsAscending, Ascends
<1>3. IsAscending(hts, all, t, p)
  BY <1>1 DEF IsAscending, Ascends
<1>4. QED
  BY <1>2, <1>3 DEF ComesAfter

LEMMA InsertTxIs ==
  ASSUME NEW txs \in Seq(Tx), NEW t \in Tx, NEW hts, NEW all, NEW cnt
  PROVE  LET r == InsertTx(txs, hts, all, cnt, t) IN
         /\ r \in Seq(Tx) /\ ToSet(r) = ToSet(txs) \cup {t}
         /\ \A a, b : Before(txs, a, b) => Before(r, a, b)
         /\ \A p \in ToSet(txs) : ~ComesAfter(hts, all, cnt, p, t) => Before(r, p, t)
         /\ IsInjective(txs) /\ t \notin ToSet(txs) => IsInjective(r)
<1> DEFINE stops == {0} \cup {i \in DOMAIN txs : ~ComesAfter(hts, all, cnt, txs[i], t)}
           stop == Max(stops)
           r == InsertAt(txs, stop + 1, t)
<1>1. r = InsertTx(txs, hts, all, cnt, t)
  BY DEF InsertTx
<1>2. Len(txs) \in Nat /\ DOMAIN txs = 1 .. Len(txs) /\ stops \subseteq 0 .. Len(txs) /\ stops # {}
  OBVIOUS
<1>3. stop \in 0 .. Len(txs) /\ \A i \in stops : i <= stop
  <2> HIDE DEF stops
  <2> QED BY <1>2, MaxIs
<1> HIDE DEF stop
<1>4. /\ r \in Seq(Tx) /\ ToSet(r) = ToSet(txs) \cup {t}
      /\ \A a, b : Before(txs, a, b) => Before(r, a, b)
      /\ \A i \in 1 .. stop : Before(r, txs[i], t)
      /\ IsInjective(txs) /\ t \notin ToSet(txs) => IsInjective(r)
  <2> HIDE DEF stops
  <2> QED BY <1>3, InsertIs
<1> HIDE DEF r
<1>5. ASSUME NEW p \in ToSet(txs), ~ComesAfter(hts, all, cnt, p, t) PROVE Before(r, p, t)
  <2>1. PICK i \in DOMAIN txs : txs[i] = p
    BY DEF ToSet
  <2>2. i \in stops
    BY <1>5, <2>1
  <2>3. i \in 1 .. stop
    <3> HIDE DEF stops
    <3> QED BY <1>2, <1>3, <2>1, <2>2
  <2>4. QED
    BY <1>4, <2>1, <2>3
<1>6. QED
  BY <1>1, <1>4, <1>5
-----------------------------------------------------------------------------
(* The steps: each keeps the invariant *)

\* an idle manager has no calls left
LEMMA IdleCalls ==
  ASSUME calls' = <<>>
  PROVE  CallsInv'
  BY DEF CallsInv, BlockCalls

\* the list with t put in: t has its reason, and the others keep theirs
LEMMA InsertReason ==
  ASSUME WalletAssumption, SpendsAssumption, ListInv, NEW t \in Tx, t \notin allTx,
         ContainsTx(allTx, count, t), NEW hts \in [Tx -> 1 .. MaxHeight \cup {Unconfirmed}],
         hts[t] = Unconfirmed
  PROVE  LET all == allTx \cup {t}
             r == InsertTx(transactions, hts, all, count, t)
         IN  /\ r \in Seq(Tx) /\ IsInjective(r) /\ ToSet(r) = ToSet(transactions) \cup {t}
             /\ Reason(all, r, count, t)
             /\ \A s \in ToSet(transactions) :
                  Reason(allTx, transactions, count, s) => Reason(all, r, count, s)
<1> DEFINE all == allTx \cup {t}
           r == InsertTx(transactions, hts, all, count, t)
<1>1. transactions \in Seq(Tx) /\ ToSet(transactions) \subseteq allTx /\ IsInjective(transactions)
      /\ allTx \subseteq Tx
  BY DEF ListInv, NoDanglingTx
<1>2. t \notin ToSet(transactions)
  BY <1>1
<1>3. /\ r \in Seq(Tx) /\ ToSet(r) = ToSet(transactions) \cup {t}
      /\ \A a, b : Before(transactions, a, b) => Before(r, a, b)
      /\ \A p \in ToSet(transactions) : ~ComesAfter(hts, all, count, p, t) => Before(r, p, t)
      /\ IsInjective(r)
  <2> HIDE DEF all
  <2> QED BY <1>1, <1>2, InsertTxIs
<1> HIDE DEF r
<1>4. ASSUME NEW s \in ToSet(transactions), Reason(allTx, transactions, count, s)
      PROVE  Reason(all, r, count, s)
  <2>1. Reason(allTx, transactions, count, s)
    BY <1>4
  <2>2. CASE Pays(count, s)
    BY <2>2 DEF Reason
  <2>3. CASE ~Pays(count, s)
    <3>1. PICK u \in Ins[s] : /\ u[1] \in allTx /\ OwnOutput(count, u)
                              /\ u[1] \in ToSet(transactions) => Before(transactions, u[1], s)
      BY <2>1, <2>3 DEF Reason
    <3>2. u[1] \in ToSet(r) => u[1] \in ToSet(transactions)
      BY <1>3, <3>1
    <3>3. QED
      BY <1>3, <3>1, <3>2 DEF Reason
  <2>4. QED
    BY <2>2, <2>3
<1>5. Reason(all, r, count, t)
  <2>1. CASE Pays(count, t)
    BY <2>1 DEF Reason
  <2>2. CASE ~Pays(count, t)
    <3>1. PICK u \in Ins[t] : u[1] \in allTx /\ OwnOutput(count, u)
      BY <2>2 DEF ContainsTx
    <3>2. u[1] \in Tx /\ Spends(t, u[1])
      BY <1>1, <3>1 DEF Spends, Parents
    <3>3. hts[u[1]] \in Nat /\ hts[t] \in Nat /\ hts[u[1]] <= hts[t]
      BY <3>2, HeightIs
    <3>4. ~ComesAfter(hts, all, count, u[1], t)
      BY <3>2, <3>3, ParentFirst
    <3>5. u[1] \in ToSet(r) => u[1] \in ToSet(transactions)
      BY <1>3, <3>1
    <3>6. u[1] \in ToSet(r) => Before(r, u[1], t)
      BY <1>3, <3>4, <3>5
    <3>7. QED
      BY <3>1, <3>6 DEF Reason
  <2>3. QED
    BY <2>1, <2>2
<1>6. QED
  BY <1>1, <1>3, <1>4, <1>5 DEF r

LEMMA RegisterOK ==
  ASSUME WalletAssumption, SpendsAssumption, IInv, NEW t \in Tx, RegisterTransaction(t)
  PROVE  IInv'
<1>1. ListInv /\ OwnInv /\ StateInv /\ LedgerInv /\ ChainInv
  BY DEF IInv, Core
<1>2. /\ t \notin allTx /\ allTx' = allTx \cup {t} /\ calls' = <<>>
      /\ height' = [height EXCEPT ![t] = Unconfirmed]
      /\ timestamp' = [timestamp EXCEPT ![t] = 0]
      /\ UNCHANGED <<blockHeight, now, chain, reorgs>>
  BY DEF RegisterTransaction
<1>3. /\ height' \in [Tx -> 1 .. MaxHeight \cup {Unconfirmed}] /\ height'[t] = Unconfirmed
      /\ timestamp' \in [Tx -> {0, 1}]
      /\ \A s \in Tx \ {t} : height'[s] = height[s]
  BY <1>1, <1>2 DEF StateInv
<1>4. ChainInv' /\ CallsInv'
  BY <1>1, <1>2, IdleCalls DEF ChainInv
<1>7. ASSUME NEW p \in Tx, Held(p) PROVE Held(p)'
  <2>1. calls = <<>>
    BY DEF RegisterTransaction
  <2>2. \A h \in DOMAIN chain : p \in chain[h] => p \in allTx' /\ height'[p] = height[p]
    BY <1>2, <1>3, <1>7 DEF Held
  <2>3. QED
    BY <1>2, <1>7, <2>1, <2>2, QuietHeld, NoUpdates
<1>5. CASE ContainsTx(allTx, count, t)
  <2>1. /\ transactions' = InsertTx(transactions, height', allTx \cup {t}, count, t)
        /\ ledger' = UpdateBalance(transactions', height', blockHeight, count, now)
        /\ count' = ExtendChains(count, ledger'.usedAddrs)
    BY <1>2, <1>5 DEF RegisterTransaction
  <2>2. /\ transactions' \in Seq(Tx) /\ IsInjective(transactions')
        /\ ToSet(transactions') = ToSet(transactions) \cup {t}
        /\ Reason(allTx', transactions', count, t)
        /\ \A s \in ToSet(transactions) :
             Reason(allTx, transactions, count, s) => Reason(allTx', transactions', count, s)
    BY <1>1, <1>2, <1>3, <1>5, <2>1, InsertReason
  <2>3. LedgerInv'
    BY <2>1, <2>2, UpdateBalanceOK DEF LedgerInv
  <2>4. IsFiniteSet(ledger'.usedAddrs)
    BY <2>3 DEF LedgerInv, LedgerOK, LedgerMoney
  <2>5. count \in [Chains -> Nat] /\ count' \in [Chains -> Nat] /\ \A d \in Chains : count'[d] >= count[d]
    BY <1>1, <2>1, <2>4, ExtendChainsIs DEF StateInv
  <2>6. OwnInv'
    <3>1. /\ \A u : OwnOutput(count, u) => OwnOutput(count', u)
          /\ \A s : Reason(allTx', transactions', count, s) => Reason(allTx', transactions', count', s)
      BY <2>5, PaysGrow
    <3>2. ASSUME NEW s \in ToSet(transactions)
          PROVE  Reason(allTx', transactions', count', s) \/ Loaded(s)'
      <4>1. CASE Reason(allTx, transactions, count, s)
        BY <2>2, <3>1, <4>1
      <4>2. CASE Loaded(s)
        BY <1>7, <3>1, <4>2, LoadedKept
      <4>3. QED
        BY <1>1, <4>1, <4>2 DEF OwnInv
    <3>3. Reason(allTx', transactions', count', t)
      BY <2>2, <3>1
    <3>4. QED
      BY <2>2, <3>2, <3>3 DEF OwnInv
  <2>7. StateInv'
    BY <1>1, <1>2, <1>3, <2>5 DEF StateInv
  <2>8. ListInv'
    BY <1>1, <1>2, <2>2 DEF ListInv, NoDanglingTx
  <2>9. QED
    BY <1>4, <2>3, <2>6, <2>7, <2>8 DEF IInv, Core
<1>6. CASE ~ContainsTx(allTx, count, t)
  <2>1. UNCHANGED <<transactions, ledger, count>>
    BY <1>6 DEF RegisterTransaction
  <2>2. ListInv'
    BY <1>1, <1>2, <2>1 DEF ListInv, NoDanglingTx
  <2>3. OwnInv'
    <3>1. ASSUME NEW s \in ToSet(transactions)
          PROVE  Reason(allTx', transactions, count, s) \/ Loaded(s)'
      <4>1. CASE Reason(allTx, transactions, count, s)
        BY <1>2, <4>1 DEF Reason
      <4>2. CASE Loaded(s)
        BY <1>7, <2>1, <4>2, LoadedKept
      <4>3. QED
        BY <1>1, <4>1, <4>2 DEF OwnInv
    <3>2. QED
      BY <2>1, <3>1 DEF OwnInv
  <2>4. \A s \in ToSet(transactions) : height'[s] = height[s]
    BY <1>1, <1>2, <1>3 DEF ListInv, NoDanglingTx
  <2>5. LedgerInv'
    BY <1>1, <2>1, <2>4, LedgerConfirm DEF LedgerInv
  <2>6. StateInv'
    BY <1>1, <1>2, <1>3, <2>1 DEF StateInv
  <2>7. QED
    BY <1>4, <2>2, <2>3, <2>5, <2>6 DEF IInv, Core
<1>8. QED
  BY <1>5, <1>6

\* BRWalletUpdateTransactions: if what is confirmed of the list is the wallet's, it
\* frees no transaction of the list, nor one that is the reason of another; and it
\* recomputes the ledger when it has to.
LEMMA UpdateTransactionsOK ==
  ASSUME WalletAssumption, Core, NEW S, NEW h \in 1 .. MaxHeight \cup {Unconfirmed},
         NEW ts \in {0, 1}, h = Unconfirmed => \A t \in S : height[t] = Unconfirmed,
         h # Unconfirmed => \A t \in ToSet(transactions) \cap S : ContainsTx(allTx, count, t),
         UpdateTransactions(S, h, ts)
  PROVE  /\ Core'
         /\ \A t \in ToSet(transactions) :
              Reason(allTx, transactions, count, t) => Reason(allTx', transactions', count', t)
         /\ \A t \in allTx : ContainsTx(allTx, count, t) => t \in allTx'
         /\ height' = [t \in Tx |-> IF t \in S \cap allTx THEN h ELSE height[t]]
         /\ transactions' = transactions /\ count' = count
<1> DEFINE changed == {t \in S \cap allTx : height[t] # h \/ timestamp[t] # ts}
           own     == {t \in changed : ContainsTx(allTx, count, t)}
           bh      == IF h > blockHeight THEN h ELSE blockHeight
           hts     == [t \in Tx |-> IF t \in changed THEN h ELSE height[t]]
<1>1. /\ blockHeight' = bh /\ height' = hts
      /\ timestamp' = [t \in Tx |-> IF t \in changed THEN ts ELSE timestamp[t]]
      /\ allTx' = IF h # Unconfirmed THEN allTx \ (changed \ own) ELSE allTx
      /\ ledger' = IF \E t \in own : NeedsUpdate(t)
                   THEN UpdateBalance(transactions, hts, bh, count, now)
                   ELSE ledger
      /\ transactions' = transactions /\ count' = count /\ now' = now
  BY DEF UpdateTransactions
<1>2. ListInv /\ StateInv /\ LedgerInv
  BY DEF Core
<1>3. transactions \in Seq(Tx) /\ ToSet(transactions) \subseteq allTx /\ IsInjective(transactions)
      /\ allTx \subseteq Tx
  BY <1>2 DEF ListInv, NoDanglingTx
<1>4. \A t \in ToSet(transactions) : t \in changed /\ h # Unconfirmed => t \in own
  OBVIOUS
<1>5. allTx' \subseteq allTx /\ \A t \in allTx : ContainsTx(allTx, count, t) => t \in allTx'
  BY <1>1
<1>6. ListInv'
  BY <1>1, <1>3, <1>4, <1>5 DEF ListInv, NoDanglingTx
<1>7. ASSUME NEW t \in ToSet(transactions), Reason(allTx, transactions, count, t)
      PROVE  Reason(allTx', transactions, count, t)
  <2>1. CASE Pays(count, t)
    BY <2>1 DEF Reason
  <2>2. CASE ~Pays(count, t)
    <3>1. PICK u \in Ins[t] : /\ u[1] \in allTx /\ OwnOutput(count, u)
                              /\ u[1] \in ToSet(transactions) => Before(transactions, u[1], t)
      BY <1>7, <2>2 DEF Reason
    <3>2. Pays(count, u[1])
      BY <1>3, <3>1, OwnOutputPays
    <3>3. u[1] \in allTx'
      BY <1>5, <3>1, <3>2 DEF ContainsTx
    <3>4. QED
      BY <3>1, <3>3 DEF Reason
  <2>3. QED
    BY <2>1, <2>2
<1>8. StateInv'
  <2>1. height' \in [Tx -> 1 .. MaxHeight \cup {Unconfirmed}] /\ timestamp' \in [Tx -> {0, 1}]
    BY <1>1, <1>2 DEF StateInv
  <2>2. blockHeight' \in 0 .. MaxHeight \cup {Unconfirmed}
    BY <1>1, <1>2 DEF StateInv
  <2>3. QED
    BY <1>1, <1>2, <2>1, <2>2 DEF StateInv
<1>9. LedgerInv'
  <2>1. CASE \E t \in own : NeedsUpdate(t)
    <3>1. ledger' = UpdateBalance(transactions, hts, bh, count, now)
      BY <1>1, <2>1
    <3> HIDE DEF hts, bh
    <3>2. QED
      BY <1>1, <1>3, <3>1, UpdateBalanceOK DEF LedgerInv
  <2>2. CASE ~\E t \in own : NeedsUpdate(t)
    <3>1. ledger' = ledger
      BY <1>1, <2>2
    <3>2. ASSUME NEW t \in ToSet(transactions), hts[t] # height[t]
          PROVE  hts[t] # Unconfirmed /\ t \notin ledger.invalidTx \cup ledger.pendingTx
      <4>1. t \in Tx /\ t \in changed /\ hts[t] = h
        BY <1>3, <3>2
      <4>2. h # Unconfirmed /\ t \in own
        BY <1>4, <3>2, <4>1
      <4>3. QED
        BY <2>2, <3>2, <4>1, <4>2 DEF NeedsUpdate
    <3> HIDE DEF hts
    <3>3. LedgerOK(ledger, ToSet(transactions), Len(transactions), hts)
      BY <1>2, <3>2, LedgerConfirm DEF LedgerInv
    <3>4. QED
      BY <1>1, <3>1, <3>3 DEF LedgerInv
  <2>3. QED
    BY <2>1, <2>2
<1>10. hts = [t \in Tx |-> IF t \in S \cap allTx THEN h ELSE height[t]]
  OBVIOUS
<1>11. QED
  BY <1>1, <1>5, <1>6, <1>7, <1>8, <1>9, <1>10 DEF Core

LEMMA MarkOK ==
  ASSUME WalletAssumption, IInv, NEW t \in Tx, NEW ts \in {0, 1}, MarkTransaction(t, ts)
  PROVE  IInv'
<1>1. /\ Core /\ OwnInv /\ ChainInv /\ height[t] = Unconfirmed
      /\ UpdateTransactions({t}, Unconfirmed, ts)
      /\ calls = <<>> /\ calls' = <<>> /\ UNCHANGED <<chain, reorgs>>
  BY DEF IInv, MarkTransaction
<1>2. Core' /\ transactions' = transactions /\ count' = count
      /\ height' = [s \in Tx |-> IF s \in {t} \cap allTx THEN Unconfirmed ELSE height[s]]
  <2> DEFINE S == {t}
  <2>1. (\A s \in S : height[s] = Unconfirmed) /\ UpdateTransactions(S, Unconfirmed, ts)
    BY <1>1
  <2> HIDE DEF S
  <2>2. /\ Core' /\ transactions' = transactions /\ count' = count
        /\ height' = [s \in Tx |-> IF s \in S \cap allTx THEN Unconfirmed ELSE height[s]]
    BY <1>1, <2>1, UpdateTransactionsOK
  <2>3. QED
    BY <2>2 DEF S
<1>3. allTx' = allTx /\ height' = height
  <2>1. height \in [Tx -> 1 .. MaxHeight \cup {Unconfirmed}]
    BY <1>1 DEF Core, StateInv
  <2>2. allTx' = allTx
    BY <1>1 DEF UpdateTransactions
  <2>3. QED
    BY <1>1, <1>2, <2>1, <2>2
<1>4. OwnInv'
  <2>1. count \in [Chains -> Nat] /\ \A d \in Chains : count[d] >= count[d]
    BY <1>1 DEF Core, StateInv
  <2>2. QED
    BY <1>1, <1>2, <1>3, <2>1, OwnSame
<1>5. QED
  BY <1>1, <1>2, <1>4, IdleCalls DEF IInv, ChainInv

\* the update at the head of the calls is of a block
LEMMA UpdateHeight ==
  ASSUME WalletAssumption, IInv, UpdateStep
  PROVE  /\ BlockCalls /\ BlockCalls' /\ Head(calls)[3] \in 1 .. MaxHeight /\ Head(calls)[3] # Unconfirmed
         /\ Head(calls)[3] \in DOMAIN chain /\ Head(calls)[2] = chain[Head(calls)[3]]
         /\ \A i \in DOMAIN calls : calls[i] # Head(calls) =>
              \E j \in DOMAIN calls' : calls'[j] = calls[i]
<1>1. CallsInv /\ calls # <<>> /\ Head(calls)[1] = "update" /\ calls' = Tail(calls)
  BY DEF IInv, UpdateStep
<1>2. BlockCalls
  <2>1. ASSUME RemoveCalls PROVE FALSE
    <3>1. calls \in Seq({"remove"} \X Tx)
      BY <2>1 DEF RemoveCalls
    <3>2. Head(calls) \in {"remove"} \X Tx
      BY <1>1, <3>1
    <3>3. QED
      BY <1>1, <3>2
  <2>2. QED
    BY <1>1, <2>1 DEF CallsInv
<1> DEFINE T == {"update"} \X (SUBSET Tx) \X (1 .. MaxHeight)
<1>3. calls \in Seq(T) /\ \A i \in DOMAIN calls : \E h \in DOMAIN chain : calls[i] = <<"update", chain[h], h>>
  BY <1>2 DEF BlockCalls
<1> HIDE DEF T
<1>4. /\ Tail(calls) \in Seq(T) /\ 1 \in DOMAIN calls /\ Head(calls) = calls[1] /\ calls[1] \in T
      /\ \A i \in DOMAIN Tail(calls) : i + 1 \in DOMAIN calls /\ Tail(calls)[i] = calls[i + 1]
      /\ \A i \in DOMAIN calls : i = 1 \/ (i - 1 \in DOMAIN Tail(calls) /\ Tail(calls)[i - 1] = calls[i])
  <2>1. /\ Tail(calls) \in Seq(T) /\ Len(Tail(calls)) = Len(calls) - 1
        /\ \A i \in 1 .. Len(Tail(calls)) : Tail(calls)[i] = calls[i + 1]
    BY <1>1, <1>3, HeadTailProperties
  <2>2. /\ DOMAIN Tail(calls) = 1 .. Len(Tail(calls)) /\ DOMAIN calls = 1 .. Len(calls)
        /\ Len(calls) \in Nat \ {0} /\ Head(calls) = calls[1] /\ \A i \in DOMAIN calls : calls[i] \in T
    BY <1>1, <1>3, <2>1
  <2>3. \A i \in DOMAIN calls : i = 1 \/ (i - 1 \in DOMAIN Tail(calls) /\ (i - 1) + 1 = i)
    BY <2>1, <2>2
  <2>4. QED
    BY <2>1, <2>2, <2>3
<1>5. BlockCalls'
  <2>1. UNCHANGED chain
    BY DEF UpdateStep
  <2>2. \A i \in DOMAIN Tail(calls) : \E h \in DOMAIN chain : Tail(calls)[i] = <<"update", chain[h], h>>
    BY <1>3, <1>4
  <2>3. \A i \in DOMAIN calls' : \E h \in DOMAIN chain' : calls'[i] = <<"update", chain'[h], h>>
    BY <1>1, <2>1, <2>2
  <2>4. QED
    BY <1>1, <1>4, <2>3 DEF BlockCalls, T
<1>6. PICK h \in DOMAIN chain : Head(calls) = <<"update", chain[h], h>>
  BY <1>3, <1>4
<1>7. Head(calls)[3] = h /\ Head(calls)[2] = chain[h] /\ h \in 1 .. MaxHeight
  BY <1>4, <1>6 DEF T
<1>8. h # Unconfirmed
  BY <1>7, HeightIs
<1>9. QED
  BY <1>1, <1>2, <1>4, <1>5, <1>6, <1>7, <1>8

LEMMA UpdateStepOK ==
  ASSUME WalletAssumption, IInv, UpdateStep
  PROVE  IInv'
<1> DEFINE S == Head(calls)[2]
           h == Head(calls)[3]
<1>1. /\ Core /\ OwnInv /\ ChainInv /\ UpdateTransactions(S, h, 1)
      /\ UNCHANGED <<chain, reorgs>>
  BY DEF IInv, UpdateStep
<1>2. /\ BlockCalls' /\ h \in 1 .. MaxHeight /\ h # Unconfirmed /\ h \in DOMAIN chain /\ S = chain[h]
      /\ \A i \in DOMAIN calls : calls[i] # Head(calls) => \E j \in DOMAIN calls' : calls'[j] = calls[i]
  BY UpdateHeight
<1>3. ListInv /\ ToSet(transactions) \subseteq Tx /\ allTx \subseteq Tx
  BY <1>1 DEF Core, ListInv, NoDanglingTx
<1>4. ASSUME NEW t \in ToSet(transactions) \cap S PROVE ContainsTx(allTx, count, t)
  <2>1. CASE Reason(allTx, transactions, count, t)
    BY <2>1, ReasonContains
  <2>2. CASE Loaded(t)
    <3>1. PICK u \in Ins[t] : u[1] \in Tx /\ OwnOutput(count, u) /\ Held(u[1])
      BY <2>2 DEF Loaded
    <3>2. u[1] \in Parents(t) \cap Tx /\ t \in chain[h]
      BY <1>2, <3>1 DEF Parents
    <3>7. \A i \in DOMAIN chain : \A s \in chain[i] :
            Parents(s) \cap Tx \subseteq UNION {chain[j] : j \in 1 .. i}
      BY <1>1 DEF ChainInv, ConsistentChain
    <3>8. u[1] \in UNION {chain[j] : j \in 1 .. h}
      <4> HIDE DEF S, h
      <4> QED BY <1>2, <3>2, <3>7
    <3>3. PICK j \in 1 .. h : u[1] \in chain[j]
      <4> HIDE DEF S, h
      <4> QED BY <3>8
    <3>4. j \in DOMAIN chain
      BY <1>1, <1>2 DEF ChainInv
    <3>5. u[1] \in allTx
      BY <3>1, <3>3, <3>4 DEF Held
    <3>6. QED
      BY <3>1, <3>5 DEF ContainsTx
  <2>3. QED
    BY <1>1, <2>1, <2>2 DEF OwnInv
<1>5. /\ Core'
      /\ \A t \in ToSet(transactions) :
           Reason(allTx, transactions, count, t) => Reason(allTx', transactions', count', t)
      /\ \A t \in allTx : ContainsTx(allTx, count, t) => t \in allTx'
      /\ height' = [t \in Tx |-> IF t \in S \cap allTx THEN h ELSE height[t]]
      /\ transactions' = transactions /\ count' = count
  <2> HIDE DEF S, h
  <2> QED BY <1>1, <1>2, <1>4, UpdateTransactionsOK
<1>6. ASSUME NEW p \in Tx, Held(p), Pays(count, p) PROVE Held(p)'
  <2> SUFFICES ASSUME NEW k \in DOMAIN chain, p \in chain[k]
               PROVE  p \in allTx' /\ (height'[p] = k \/ \E i \in DOMAIN calls' : calls'[i] = <<"update", chain[k], k>>)
    BY <1>1 DEF Held
  <2>1. p \in allTx /\ (height[p] = k \/ \E i \in DOMAIN calls : calls[i] = <<"update", chain[k], k>>)
    BY <1>6 DEF Held
  <2>2. p \in allTx'
    BY <1>5, <1>6, <2>1 DEF ContainsTx
  <2>3. CASE k = h
    <3>1. p \in S \cap allTx
      BY <1>2, <2>1, <2>3
    <3> HIDE DEF S, h
    <3>2. QED
      BY <1>5, <2>2, <2>3, <3>1
  <2>4. CASE k # h
    <3>1. p \notin S
      BY <1>1, <1>2, <2>4 DEF ChainInv, ConsistentChain
    <3>2. height'[p] = height[p]
      <4> HIDE DEF S, h
      <4> QED BY <1>5, <3>1
    <3>3. \A i \in DOMAIN calls : calls[i] = <<"update", chain[k], k>> => calls[i] # Head(calls)
      BY <2>4
    <3>4. QED
      BY <1>2, <2>1, <2>2, <3>2, <3>3
  <2>5. QED
    BY <2>3, <2>4
<1>7. OwnInv'
  <2> SUFFICES ASSUME NEW t \in ToSet(transactions)
               PROVE  Reason(allTx', transactions', count', t) \/ Loaded(t)'
    BY <1>5 DEF OwnInv
  <2>1. CASE Reason(allTx, transactions, count, t)
    BY <1>5, <2>1
  <2>2. CASE Loaded(t)
    <3>1. PICK u \in Ins[t] : u[1] \in Tx /\ OwnOutput(count, u) /\ Held(u[1])
      BY <2>2 DEF Loaded
    <3>2. Pays(count, u[1])
      BY <1>3, <3>1, OwnOutputPays
    <3>3. ASSUME NEW p, p = u[1] PROVE Held(p)'
      BY <1>6, <3>1, <3>2, <3>3
    <3>4. Held(u[1])'
      BY <3>3
    <3>5. QED
      BY <1>5, <3>1, <3>4 DEF Loaded
  <2>3. QED
    BY <1>1, <2>1, <2>2 DEF OwnInv
<1>8. QED
  BY <1>1, <1>2, <1>5, <1>7 DEF IInv, ChainInv, CallsInv

\* BRWalletSetTxUnconfirmedAfter
LEMMA SetTxUnconfirmedAfterOK ==
  ASSUME WalletAssumption, Core, NEW h \in 0 .. MaxHeight, SetTxUnconfirmedAfter(h)
  PROVE  /\ Core' /\ transactions' = transactions /\ allTx' = allTx /\ count' = count
         /\ \A t \in Tx : height[t] <= h => height'[t] = height[t]
<1> DEFINE hit == ConfirmedAfter(h)
<1>1. /\ blockHeight' = h
      /\ height' = [t \in Tx |-> IF t \in hit THEN Unconfirmed ELSE height[t]]
      /\ ledger' = IF hit # {} THEN UpdateBalance(transactions, height', h, count, now) ELSE ledger
      /\ UNCHANGED <<transactions, allTx, timestamp, count, now>>
  BY DEF SetTxUnconfirmedAfter
<1>2. ListInv /\ StateInv /\ LedgerInv
  BY DEF Core
<1>6. \A t \in hit : ~(height[t] <= h)
  <2> DEFINE lows == {0} \cup {i \in DOMAIN transactions : height[transactions[i]] <= h}
             low == Max(lows)
  <2>0. Len(transactions) \in Nat /\ DOMAIN transactions = 1 .. Len(transactions)
    <3>1. transactions \in Seq(Tx)
      BY <1>2 DEF ListInv
    <3>2. QED
      BY <3>1
  <2>1. /\ Len(transactions) \in Nat /\ DOMAIN transactions = 1 .. Len(transactions)
        /\ lows \subseteq 0 .. Len(transactions) /\ lows # {}
    BY <2>0
  <2>2. low \in 0 .. Len(transactions) /\ \A i \in lows : i <= low
    <3> HIDE DEF lows
    <3> QED BY <2>1, MaxIs
  <2> SUFFICES ASSUME NEW i \in low + 1 .. Len(transactions) PROVE ~(height[transactions[i]] <= h)
    BY DEF ConfirmedAfter
  <2>3. i \in DOMAIN transactions /\ ~(i <= low)
    <3> HIDE DEF low
    <3> QED BY <2>1, <2>2
  <2>4. i \notin lows
    <3> HIDE DEF lows, low
    <3> QED BY <2>2, <2>3
  <2>5. QED
    BY <2>3, <2>4
<1> HIDE DEF hit
<1>3. ListInv'
  BY <1>1, <1>2 DEF ListInv, NoDanglingTx
<1>4. StateInv'
  BY <1>1, <1>2 DEF StateInv
<1>5. LedgerInv'
  <2>1. CASE hit # {}
    <3>1. transactions \in Seq(Tx) /\ IsInjective(transactions)
      BY <1>2 DEF ListInv, NoDanglingTx
    <3>2. QED
      BY <1>1, <2>1, <3>1, UpdateBalanceOK DEF LedgerInv
  <2>2. CASE hit = {}
    <3>1. height' = height
      BY <1>1, <1>2, <2>2 DEF StateInv
    <3>2. QED
      BY <1>1, <1>2, <2>2, <3>1 DEF LedgerInv
  <2>3. QED
    BY <2>1, <2>2
<1>7. QED
  BY <1>1, <1>3, <1>4, <1>5, <1>6 DEF Core

LEMMA FunctionIsSeq ==
  ASSUME NEW T, NEW n \in Nat, NEW f \in [1 .. n -> T]
  PROVE  f \in Seq(T) /\ Len(f) = n
<1>1. \A m \in Nat : [1 .. m -> T] \subseteq Seq(T)
  BY SeqDef
<1>2. f \in Seq(T)
  BY <1>1
<1>3. Len(f) \in Nat /\ 1 .. Len(f) = 1 .. n
  BY <1>2
<1>4. QED
  BY <1>2, <1>3

\* a sequence whose entries all occur in another
LEMMA SameEntries ==
  ASSUME NEW a, NEW b, NEW n \in Nat, DOMAIN a = 1 .. n, DOMAIN b = 1 .. n,
         \A i \in 1 .. n : \E j \in 1 .. n : a[i] = b[j]
  PROVE  ToSet(a) \subseteq ToSet(b)
<1>1. ASSUME NEW x \in ToSet(a) PROVE x \in ToSet(b)
  <2>1. PICK i \in 1 .. n : x = a[i]
    BY DEF ToSet
  <2>2. PICK j \in 1 .. n : a[i] = b[j]
    OBVIOUS
  <2>3. QED
    BY <2>1, <2>2 DEF ToSet
<1>2. QED
  BY <1>1

\* the calls that apply a fork, or one block
LEMMA UpdateCallsIs ==
  ASSUME WalletAssumption, NEW blocks \in Seq(SUBSET Tx), NEW first \in Nat \ {0},
         first + Len(blocks) - 1 <= MaxHeight
  PROVE  /\ UpdateCalls(blocks, first) \in Seq({"update"} \X (SUBSET Tx) \X (1 .. MaxHeight))
         /\ ToSet(UpdateCalls(blocks, first)) =
              {<<"update", blocks[i], first + i - 1>> : i \in {k \in DOMAIN blocks : blocks[k] # {}}}
<1> DEFINE T == {"update"} \X (SUBSET Tx) \X (1 .. MaxHeight)
           all == [i \in DOMAIN blocks |-> <<"update", blocks[i], first + i - 1>>]
           some == Select(all, {c \in ToSet(all) : c[2] # {}})
<1>1. Len(blocks) \in Nat /\ DOMAIN blocks = 1 .. Len(blocks) /\ MaxHeight \in Nat
  BY HeightIs
<1>2. ASSUME NEW i \in DOMAIN blocks PROVE <<"update", blocks[i], first + i - 1>> \in T
  <2>1. blocks[i] \in SUBSET Tx
    OBVIOUS
  <2>2. first + i - 1 \in 1 .. MaxHeight
    BY <1>1
  <2>3. QED
    BY <2>1, <2>2
<1> HIDE DEF T
<1>3. all \in Seq(T)
  <2>1. all \in [1 .. Len(blocks) -> T]
    BY <1>1, <1>2
  <2> HIDE DEF all
  <2>2. QED
    BY <1>1, <2>1, FunctionIsSeq
<1>4. some \in Seq(T) /\ ToSet(some) = ToSet(all) \cap {c \in ToSet(all) : c[2] # {}}
  <2> HIDE DEF all
  <2> QED BY <1>3, SelectIs
<1>8. ToSet(some) = {<<"update", blocks[i], first + i - 1>> : i \in {k \in DOMAIN blocks : blocks[k] # {}}}
  <2>1. ToSet(all) = {<<"update", blocks[i], first + i - 1>> : i \in DOMAIN blocks}
    BY DEF ToSet
  <2> HIDE DEF all, some
  <2>2. QED
    BY <1>4, <2>1
<1> HIDE DEF some
<1>5. Reverse(some) \in Seq(T) /\ ToSet(Reverse(some)) = ToSet(some)
  <2>1. Len(some) \in Nat /\ \A i \in 1 .. Len(some) : some[i] \in T
    BY <1>4
  <2> DEFINE n == Len(some)
  <2> HIDE DEF n
  <2>2. n \in Nat /\ \A i \in 1 .. n : some[i] \in T
    BY <2>1 DEF n
  <2>3. \A i \in 1 .. n : (n - i) + 1 \in 1 .. n
    BY <2>2
  <2>4. [i \in 1 .. n |-> some[(n - i) + 1]] \in [1 .. n -> T]
    BY <2>2, <2>3
  <2>5. Reverse(some) = [i \in 1 .. n |-> some[(n - i) + 1]]
    BY DEF Reverse, n
  <2>6. ToSet(Reverse(some)) = ToSet(some)
    <3>1. /\ DOMAIN Reverse(some) = 1 .. n /\ DOMAIN some = 1 .. n
          /\ \A i \in 1 .. n : Reverse(some)[i] = some[(n - i) + 1]
      BY <1>4, <2>5 DEF n
    <3>2. \A i \in 1 .. n : (n - ((n - i) + 1)) + 1 = i
      BY <2>2
    <3>3. \A i \in 1 .. n : \E j \in 1 .. n : some[i] = Reverse(some)[j]
      BY <2>3, <3>1, <3>2
    <3>4. \A i \in 1 .. n : \E j \in 1 .. n : Reverse(some)[i] = some[j]
      BY <2>3, <3>1
    <3>5. ToSet(Reverse(some)) \subseteq ToSet(some)
      BY <2>2, <3>1, <3>4, SameEntries
    <3>6. ToSet(some) \subseteq ToSet(Reverse(some))
      BY <2>2, <3>1, <3>3, SameEntries
    <3>7. QED
      BY <3>5, <3>6
  <2>7. QED
    BY <2>2, <2>4, <2>5, <2>6, FunctionIsSeq
<1>6. UpdateCalls(blocks, first) = Reverse(some)
  BY DEF UpdateCalls, some
<1>7. QED
  BY <1>5, <1>6, <1>8 DEF T

\* The blocks from height `first' on are new, those below stay: the updates called for
\* are those of the chain, and what was held is held.
LEMMA BlocksHeld ==
  ASSUME WalletAssumption, NEW blocks \in Seq(SUBSET Tx), NEW first \in Nat \ {0},
         first + Len(blocks) - 1 = Len(chain'), Len(chain') <= MaxHeight,
         chain' \in Seq(SUBSET Tx), calls = <<>>, calls' = UpdateCalls(blocks, first),
         \A i \in DOMAIN blocks : chain'[first + i - 1] = blocks[i] /\ blocks[i] \subseteq allTx,
         \A k \in 1 .. first - 1 : k \in DOMAIN chain /\ chain'[k] = chain[k],
         allTx' = allTx, \A p \in Tx : height[p] \in 1 .. first - 1 => height'[p] = height[p]
  PROVE  BlockCalls' /\ \A p \in Tx : Held(p) => Held(p)'
<1> DEFINE T == {"update"} \X (SUBSET Tx) \X (1 .. MaxHeight)
           n == Len(blocks)
<1>1. /\ n \in Nat /\ DOMAIN blocks = 1 .. n /\ Len(chain') \in Nat /\ DOMAIN chain' = 1 .. Len(chain')
  OBVIOUS
<1>2. /\ calls' \in Seq(T)
      /\ ToSet(calls') = {<<"update", blocks[i], first + i - 1>> : i \in {k \in DOMAIN blocks : blocks[k] # {}}}
  BY <1>1, UpdateCallsIs
<1> HIDE DEF T, n
<1>3. \A i \in 1 .. n : first + i - 1 \in 1 .. Len(chain')
  BY <1>1 DEF n
<1>4. \A k \in 1 .. Len(chain') : k \in 1 .. first - 1 \/ \E i \in 1 .. n : first + i - 1 = k
  <2> SUFFICES ASSUME NEW k \in 1 .. Len(chain'), ~(k \in 1 .. first - 1)
               PROVE  \E i \in 1 .. n : first + i - 1 = k
    OBVIOUS
  <2>1. k - first + 1 \in 1 .. n /\ first + (k - first + 1) - 1 = k
    BY <1>1 DEF n
  <2>2. QED
    BY <2>1
<1>5. BlockCalls'
  <2>1. ASSUME NEW i \in DOMAIN calls'
        PROVE  \E k \in DOMAIN chain' : calls'[i] = <<"update", chain'[k], k>>
    <3>1. calls'[i] \in ToSet(calls')
      BY DEF ToSet
    <3>2. PICK j \in DOMAIN blocks : calls'[i] = <<"update", blocks[j], first + j - 1>>
      BY <1>2, <3>1
    <3>3. QED
      BY <1>1, <1>3, <3>2
  <2>2. QED
    BY <1>2, <2>1 DEF BlockCalls, T
<1>6. ASSUME NEW p \in Tx, Held(p), NEW k \in DOMAIN chain', p \in chain'[k]
      PROVE  p \in allTx' /\ (height'[p] = k \/ \E i \in DOMAIN calls' : calls'[i] = <<"update", chain'[k], k>>)
  <2>1. CASE k \in 1 .. first - 1
    <3>1. p \in chain[k] /\ k \in DOMAIN chain
      BY <1>6, <2>1
    <3>2. p \in allTx /\ height[p] = k
      BY <1>6, <3>1 DEF Held
    <3>3. QED
      BY <2>1, <3>2
  <2>2. CASE k \notin 1 .. first - 1
    <3>1. PICK j \in 1 .. n : first + j - 1 = k
      BY <1>1, <1>4, <2>2
    <3>2. p \in blocks[j] /\ chain'[k] = blocks[j] /\ blocks[j] # {} /\ p \in allTx
      BY <1>1, <1>6, <3>1
    <3>3. <<"update", chain'[k], k>> \in ToSet(calls')
      BY <1>1, <1>2, <3>1, <3>2
    <3>4. QED
      BY <3>2, <3>3 DEF ToSet
  <2>3. QED
    BY <2>1, <2>2
<1>7. QED
  BY <1>5, <1>6 DEF Held

LEMMA NewBlockOK ==
  ASSUME WalletAssumption, IInv, NEW S \in BlocksAfter(chain), NewBlock(S)
  PROVE  IInv'
<1>1. /\ Core /\ OwnInv /\ ChainInv /\ Len(chain) < MaxHeight /\ chain' = Append(chain, S)
      /\ ConsistentChain(chain') /\ calls = <<>> /\ calls' = UpdateCalls(<<S>>, Len(chain'))
      /\ UNCHANGED <<transactions, allTx, height, timestamp, blockHeight, count, ledger, now, reorgs>>
  BY DEF IInv, NewBlock
<1>2. S \in SUBSET Tx /\ S \subseteq allTx
  BY <1>1 DEF Core, ListInv, BlocksAfter
<1>3. chain \in Seq(SUBSET Tx) /\ MaxHeight \in Nat /\ Len(chain) \in Nat
  BY <1>1, HeightIs DEF ChainInv
<1>4. /\ chain' \in Seq(SUBSET Tx) /\ Len(chain') = Len(chain) + 1 /\ chain'[Len(chain')] = S
      /\ \A k \in 1 .. Len(chain) : k \in DOMAIN chain /\ chain'[k] = chain[k]
  BY <1>1, <1>2, <1>3
<1>5. ChainInv'
  BY <1>1, <1>3, <1>4 DEF ChainInv
<1>6. <<S>> \in Seq(SUBSET Tx) /\ Len(<<S>>) = 1 /\ DOMAIN <<S>> = {1} /\ <<S>>[1] = S
  BY <1>2
<1>7. BlockCalls' /\ \A p \in Tx : Held(p) => Held(p)'
  <2> DEFINE blocks == <<S>>
             first == Len(chain')
  <2>1. /\ first \in Nat \ {0} /\ first + Len(blocks) - 1 = Len(chain') /\ Len(chain') <= MaxHeight
        /\ first + 1 - 1 = first /\ first - 1 = Len(chain)
    BY <1>1, <1>3, <1>4, <1>6
  <2> HIDE DEF blocks
  <2>2. \A i \in DOMAIN blocks : chain'[first + i - 1] = blocks[i] /\ blocks[i] \subseteq allTx
    BY <1>2, <1>4, <1>6, <2>1 DEF blocks
  <2>3. blocks \in Seq(SUBSET Tx) /\ calls' = UpdateCalls(blocks, first)
    BY <1>1, <1>6 DEF blocks
  <2>4. \A k \in 1 .. first - 1 : k \in DOMAIN chain /\ chain'[k] = chain[k]
    BY <1>4, <2>1
  <2> HIDE DEF first
  <2>5. QED
    BY <1>1, <1>4, <2>1, <2>2, <2>3, <2>4, BlocksHeld
<1>8. Core'
  BY <1>1 DEF Core, ListInv, NoDanglingTx, StateInv, LedgerInv
<1>9. OwnInv'
  <2>1. ASSUME NEW t \in ToSet(transactions), Loaded(t) PROVE Loaded(t)'
    BY <1>1, <1>7, <2>1, LoadedKept
  <2>2. QED
    BY <1>1, <2>1 DEF OwnInv
<1>10. QED
  BY <1>5, <1>7, <1>8, <1>9 DEF IInv, CallsInv

(* A prefix of a sequence; the blocks of the chain up to the join are one (Reorg). *)
LEMMA PrefixIs ==
  ASSUME NEW S, NEW s, NEW n \in Nat, \A i \in 1 .. n : s[i] \in S
  PROVE  /\ SubSeq(s, 1, n) \in Seq(S) /\ Len(SubSeq(s, 1, n)) = n
         /\ \A i \in 1 .. n : SubSeq(s, 1, n)[i] = s[i]
<1> DEFINE p == SubSeq(s, 1, n)
<1>1. /\ p \in Seq(S)
      /\ Len(p) = IF 1 <= n THEN n - 1 + 1 ELSE 0
      /\ \A i \in 1 .. n - 1 + 1 : p[i] = s[1 + i - 1]
  BY SubSeqProperties
<1> HIDE DEF p
<1>2. \A i \in 1 .. n : i \in 1 .. n - 1 + 1 /\ 1 + i - 1 = i
  OBVIOUS
<1>3. Len(p) = n
  BY <1>1
<1>4. p \in Seq(S) /\ Len(p) = n /\ \A i \in 1 .. n : p[i] = s[i]
  BY <1>1, <1>2, <1>3
<1>5. QED
  BY <1>4 DEF p

LEMMA ReorgOK ==
  ASSUME WalletAssumption, IInv, NEW depth \in 1 .. MaxReorgDepth, Reorg(depth)
  PROVE  IInv'
<1> DEFINE join == Len(chain) - depth
           base == SubSeq(chain, 1, join)
<1>1. /\ Core /\ OwnInv /\ ChainInv /\ calls = <<>> /\ join >= 0 /\ Len(chain) < MaxHeight
      /\ reorgs < MaxReorgs /\ reorgs' = reorgs + 1 /\ SetTxUnconfirmedAfter(join)
  BY DEF IInv, Reorg
<1>2. PICK fork \in [1 .. depth + 1 -> BlocksAfter(base)] :
        /\ chain' = base \o fork /\ ConsistentChain(chain')
        /\ calls' = UpdateCalls(fork, join + 1)
  BY DEF Reorg
<1>3. /\ chain \in Seq(SUBSET Tx) /\ Len(chain) \in Nat /\ MaxHeight \in Nat /\ depth \in Nat
      /\ reorgs \in 0 .. MaxReorgs /\ MaxReorgs \in Nat /\ DOMAIN chain = 1 .. Len(chain)
  <2>1. chain \in Seq(SUBSET Tx) /\ reorgs \in 0 .. MaxReorgs
    BY <1>1 DEF ChainInv
  <2>2. MaxReorgs \in Nat /\ MaxHeight \in Nat /\ MaxReorgDepth \in Nat
    BY DEF WalletAssumption
  <2>3. QED
    BY <2>1, <2>2
<1>4. join \in 0 .. MaxHeight /\ join \in Nat /\ join <= Len(chain) /\ join + (depth + 1) = Len(chain) + 1
  BY <1>1, <1>3
<1>5. base \in Seq(SUBSET Tx) /\ Len(base) = join /\ \A i \in 1 .. join : base[i] = chain[i]
  <2> DEFINE B == SUBSET Tx
  <2> HIDE DEF join
  <2>1. \A i \in 1 .. join : chain[i] \in B
    BY <1>3, <1>4
  <2> HIDE DEF B
  <2>2. base \in Seq(B) /\ Len(base) = join /\ \A i \in 1 .. join : base[i] = chain[i]
    BY <1>4, <2>1, PrefixIs
  <2>3. QED
    BY <2>2 DEF B
<1>6. /\ fork \in Seq(SUBSET Tx) /\ Len(fork) = depth + 1
      /\ \A i \in DOMAIN fork : fork[i] \subseteq allTx
  <2>0. \A i \in DOMAIN fork : fork[i] \subseteq allTx
    BY <1>2 DEF BlocksAfter
  <2>1. BlocksAfter(base) \subseteq SUBSET Tx
    BY <1>1 DEF Core, ListInv, BlocksAfter
  <2> HIDE DEF base
  <2> DEFINE B == SUBSET Tx
             k == depth + 1
  <2>2. fork \in [1 .. k -> B] /\ k \in Nat
    BY <1>3, <2>1
  <2> HIDE DEF B, k
  <2>3. fork \in Seq(B) /\ Len(fork) = k
    BY <2>2, FunctionIsSeq
  <2>4. QED
    BY <2>0, <2>3 DEF B, k
<1>7. /\ ChainInv' /\ Len(chain') = join + Len(fork)
      /\ \A i \in 1 .. join : chain'[i] = chain[i]
      /\ \A i \in DOMAIN fork : chain'[(join + 1) + i - 1] = fork[i]
  <2> DEFINE B == SUBSET Tx
  <2> HIDE DEF base, join, B
  <2>1. base \in Seq(B) /\ fork \in Seq(B)
    BY <1>5, <1>6 DEF B
  <2>2. /\ base \o fork \in Seq(B) /\ Len(base \o fork) = Len(base) + Len(fork)
        /\ \A i \in 1 .. Len(base) + Len(fork) :
             (base \o fork)[i] = IF i <= Len(base) THEN base[i] ELSE fork[i - Len(base)]
    BY <2>1, ConcatProperties
  <2>3. chain' \in Seq(SUBSET Tx) /\ Len(chain') = Len(chain) + 1 /\ Len(chain') = join + Len(fork)
    BY <1>2, <1>4, <1>5, <1>6, <2>2 DEF B
  <2>4. Len(chain') <= MaxHeight /\ reorgs' \in 0 .. MaxReorgs
    BY <1>1, <1>3, <2>3
  <2>8. Len(base) = join /\ Len(fork) \in Nat /\ join \in Nat
    BY <1>4, <1>5, <1>6
  <2>5. ASSUME NEW i \in 1 .. join PROVE chain'[i] = chain[i]
    <3>1. i \in 1 .. Len(base) + Len(fork) /\ i <= Len(base)
      BY <2>8
    <3>2. QED
      BY <1>2, <1>5, <2>2, <3>1
  <2>6. ASSUME NEW i \in DOMAIN fork PROVE chain'[(join + 1) + i - 1] = fork[i]
    <3>1. i \in 1 .. Len(fork) /\ Len(fork) \in Nat
      BY <1>6
    <3>2. /\ (join + 1) + i - 1 \in 1 .. Len(base) + Len(fork) /\ ~((join + 1) + i - 1 <= Len(base))
          /\ ((join + 1) + i - 1) - Len(base) = i
      BY <2>8, <3>1
    <3>3. QED
      BY <1>2, <2>2, <3>2
  <2>7. QED
    BY <1>2, <2>3, <2>4, <2>5, <2>6 DEF ChainInv
<1>8. /\ Core' /\ transactions' = transactions /\ allTx' = allTx /\ count' = count
      /\ \A t \in Tx : height[t] <= join => height'[t] = height[t]
  <2> HIDE DEF join
  <2> QED BY <1>1, <1>4, SetTxUnconfirmedAfterOK
<1>9. BlockCalls' /\ \A p \in Tx : Held(p) => Held(p)'
  <2> DEFINE first == join + 1
  <2> HIDE DEF base, join
  <2>1. /\ first \in Nat \ {0} /\ first + Len(fork) - 1 = Len(chain') /\ first - 1 = join
        /\ Len(fork) \in Nat
    BY <1>3, <1>4, <1>6, <1>7
  <2>2. Len(chain') <= MaxHeight /\ chain' \in Seq(SUBSET Tx)
    BY <1>7 DEF ChainInv
  <2>3. \A k \in 1 .. first - 1 : k \in DOMAIN chain /\ chain'[k] = chain[k]
    <3>1. \A k \in 1 .. join : k \in DOMAIN chain
      BY <1>3, <1>4
    <3>2. QED
      BY <1>7, <2>1, <3>1
  <2>4. \A p \in Tx : height[p] \in 1 .. first - 1 => height'[p] = height[p]
    <3>1. \A h \in 1 .. first - 1 : h <= join
      BY <1>4, <2>1
    <3>2. QED
      BY <1>8, <3>1, Zenon
  <2>5. calls' = UpdateCalls(fork, first)
    BY <1>2
  <2>6. \A i \in DOMAIN fork : chain'[first + i - 1] = fork[i] /\ fork[i] \subseteq allTx
    BY <1>6, <1>7
  <2> HIDE DEF first
  <2>7. QED
    BY <1>1, <1>6, <1>8, <2>1, <2>2, <2>3, <2>4, <2>5, <2>6, BlocksHeld
<1>10. OwnInv'
  <2>1. ASSUME NEW t \in ToSet(transactions), Loaded(t) PROVE Loaded(t)'
    BY <1>8, <1>9, <2>1, LoadedKept
  <2>2. QED
    BY <1>1, <1>8, <2>1 DEF OwnInv
<1>11. QED
  BY <1>7, <1>8, <1>9, <1>10 DEF IInv, CallsInv

\* the calls left are as good as they were if the transactions do not change
LEMMA SameCalls ==
  ASSUME CallsInv, UNCHANGED <<transactions, allTx, height, chain, calls>>
  PROVE  CallsInv'
  BY DEF CallsInv, RemoveCalls, Removable, Trailing, BlockCalls

LEMMA GenerateAddrsOK ==
  ASSUME WalletAssumption, IInv, NEW c \in Chains, NEW gap \in Nat \ {0}, GenerateAddrs(c, gap)
  PROVE  IInv'
<1>1. /\ ListInv /\ OwnInv /\ StateInv /\ LedgerInv /\ ChainInv /\ CallsInv
      /\ count' = UnusedAddrs(count, ledger.usedAddrs, c, gap)
      /\ UNCHANGED <<transactions, allTx, height, timestamp, blockHeight, ledger, now,
                     chain, reorgs, calls>>
  BY DEF IInv, Core, GenerateAddrs
<1>2. IsFiniteSet(ledger.usedAddrs)
  BY <1>1 DEF LedgerInv, LedgerOK, LedgerMoney
<1>3. count \in [Chains -> Nat] /\ count' \in [Chains -> Nat] /\ \A d \in Chains : count'[d] >= count[d]
  BY <1>1, <1>2, UnusedAddrsIs DEF StateInv
<1>4. OwnInv'
  BY <1>1, <1>3, OwnSame
<1>5. CallsInv'
  BY <1>1, SameCalls
<1>6. QED
  BY <1>1, <1>3, <1>4, <1>5 DEF IInv, Core, ListInv, NoDanglingTx, StateInv, LedgerInv, ChainInv

LEMMA TickOK ==
  ASSUME IInv, Tick
  PROVE  IInv'
<1>1. /\ ListInv /\ OwnInv /\ StateInv /\ LedgerInv /\ ChainInv /\ CallsInv
      /\ now' \in Times
      /\ UNCHANGED <<transactions, allTx, height, timestamp, blockHeight, count, ledger,
                     chain, reorgs, calls>>
  BY DEF IInv, Core, Tick
<1>2. CallsInv' /\ OwnInv'
  <2>1. count \in [Chains -> Nat] /\ \A d \in Chains : count[d] >= count[d]
    BY <1>1 DEF StateInv
  <2>2. QED
    BY <1>1, <2>1, SameCalls, OwnSame
<1>3. QED
  BY <1>1, <1>2 DEF IInv, Core, ListInv, NoDanglingTx, StateInv, LedgerInv, ChainInv

-----------------------------------------------------------------------------
(* BRWalletRemoveTransaction *)

LEMMA RemoveTransactionOK ==
  ASSUME IInv, NEW t \in Tx, RemoveTransaction(t)
  PROVE  IInv'
<1>1. /\ Core /\ OwnInv /\ ChainInv /\ t \in TxUnconfirmed /\ calls = <<>> /\ calls' = <<<<"remove", t>>>>
      /\ UNCHANGED <<transactions, allTx, height, timestamp, blockHeight, count, ledger,
                     now, chain, reorgs>>
  BY DEF IInv, RemoveTransaction
<1>2. transactions \in Seq(Tx) /\ IsInjective(transactions)
  BY <1>1 DEF Core, ListInv, NoDanglingTx
<1>3. PICK k \in DOMAIN transactions :
        t = transactions[k] /\ \A j \in k .. Len(transactions) : height[transactions[j]] = Unconfirmed
  BY <1>1 DEF TxUnconfirmed
<1>4. Removable(t)
  <2>1. k \in Nat /\ Len(transactions) \in Nat /\ k \in 1 .. Len(transactions)
        /\ DOMAIN transactions = 1 .. Len(transactions)
    BY <1>2
  <2>2. height[t] = Unconfirmed
    BY <1>3, <2>1
  <2>3. ASSUME NEW s \in Tx, Before(transactions, t, s) PROVE height[s] = Unconfirmed
    <3>1. PICK i, j \in DOMAIN transactions : i < j /\ transactions[i] = t /\ transactions[j] = s
      BY <2>3 DEF Before
    <3>2. i = k
      BY <1>2, <1>3, <3>1 DEF IsInjective
    <3>3. j \in k .. Len(transactions)
      BY <2>1, <3>1, <3>2
    <3>4. QED
      BY <1>3, <3>1, <3>3
  <2>4. t \in ToSet(transactions)
    BY <1>3 DEF ToSet
  <2>5. QED
    BY <2>2, <2>3, <2>4 DEF Removable, Trailing
<1>5. Removable(t)'
  BY <1>1, <1>4 DEF Removable, Trailing
<1>6. RemoveCalls'
  <2> DEFINE one == <<<<"remove", t>>>>
  <2>1. /\ one \in Seq({"remove"} \X Tx) /\ DOMAIN one = {1} /\ Len(one) = 1
        /\ one[1] = <<"remove", t>> /\ one[1][2] = t
    OBVIOUS
  <2> HIDE DEF one
  <2>2. Awaited(one)
    BY <2>1 DEF Awaited
  <2>3. calls' = one
    BY <1>1 DEF one
  <2>4. (\A i \in DOMAIN calls : Removable(calls[i][2]))'
    BY <1>5, <2>1, <2>3 DEF Removable, Trailing
  <2>5. QED
    BY <2>1, <2>2, <2>3, <2>4 DEF RemoveCalls, Removable, Trailing
<1>7. OwnInv'
  <2>1. count \in [Chains -> Nat] /\ \A d \in Chains : count[d] >= count[d]
    BY <1>1 DEF Core, StateInv
  <2>2. QED
    BY <1>1, <2>1, NoUpdates, OwnSame
<1>8. QED
  BY <1>1, <1>6, <1>7 DEF IInv, Core, ListInv, NoDanglingTx, StateInv, LedgerInv, ChainInv, CallsInv

LEMMA AwaitedTail ==
  ASSUME NEW A, NEW cs \in Seq(A), cs # <<>>, Awaited(cs)
  PROVE  Awaited(Tail(cs))
<1> DEFINE n == Len(cs)
           r == Tail(cs)
<1>1. /\ n \in Nat \ {0} /\ DOMAIN cs = 1 .. n
      /\ Len(r) = n - 1 /\ DOMAIN r = 1 .. n - 1 /\ \A i \in 1 .. n - 1 : r[i] = cs[i + 1]
  BY HeadTailProperties
<1>2. ASSUME NEW i \in 1 .. n - 1
      PROVE  r[i][2] = r[n - 1][2] \/ \E j \in i + 1 .. n - 1 : Spends(r[i][2], r[j][2])
  <2> HIDE DEF n, r
  <2>1. i + 1 \in 1 .. n /\ (i + 1) + 1 = i + 2 /\ r[i] = cs[i + 1] /\ n - 1 \in 1 .. n - 1 /\ r[n - 1] = cs[n]
    BY <1>1
  <2>2. cs[i + 1][2] = cs[n][2] \/ \E j \in (i + 1) + 1 .. n : Spends(cs[i + 1][2], cs[j][2])
    BY <1>1, <2>1 DEF Awaited, n
  <2>3. ASSUME NEW j \in (i + 1) + 1 .. n, Spends(cs[i + 1][2], cs[j][2])
        PROVE  \E k \in i + 1 .. n - 1 : Spends(r[i][2], r[k][2])
    <3>1. j - 1 \in i + 1 .. n - 1 /\ j - 1 \in 1 .. n - 1 /\ (j - 1) + 1 = j
      BY <1>1
    <3>2. r[j - 1] = cs[j]
      BY <1>1, <3>1
    <3>3. QED
      BY <2>1, <2>3, <3>1, <3>2
  <2>4. QED
    BY <2>1, <2>2, <2>3
<1>3. QED
  <2> HIDE DEF n, r
  <2>1. Awaited(r)
    BY <1>1, <1>2 DEF Awaited
  <2>2. QED
    BY <2>1 DEF r

LEMMA AwaitedConcat ==
  ASSUME NEW A, NEW cs \in Seq(A), cs # <<>>, Awaited(cs), NEW new \in Seq(A),
         \A i \in DOMAIN new : Spends(new[i][2], cs[1][2])
  PROVE  Awaited(new \o cs)
<1> DEFINE n == Len(cs)
           m == Len(new)
           r == new \o cs
<1>1. /\ n \in Nat \ {0} /\ m \in Nat /\ DOMAIN cs = 1 .. n /\ DOMAIN new = 1 .. m
      /\ Len(r) = m + n /\ DOMAIN r = 1 .. m + n
      /\ \A i \in 1 .. m + n : r[i] = IF i <= m THEN new[i] ELSE cs[i - m]
  BY ConcatProperties
<1> HIDE DEF n, m, r
<1>2. r[m + n] = cs[n] /\ r[m + 1] = cs[1]
  <2>1. m + n \in 1 .. m + n /\ m + 1 \in 1 .. m + n /\ ~(m + n <= m) /\ ~(m + 1 <= m)
        /\ (m + n) - m = n /\ (m + 1) - m = 1
    BY <1>1
  <2>2. QED
    BY <1>1, <2>1
<1>3. ASSUME NEW i \in 1 .. m + n
      PROVE  r[i][2] = r[m + n][2] \/ \E j \in i + 1 .. m + n : Spends(r[i][2], r[j][2])
  <2>1. CASE i <= m
    <3>1. i \in 1 .. m /\ r[i] = new[i] /\ m + 1 \in i + 1 .. m + n
      BY <1>1, <2>1
    <3>2. Spends(r[i][2], r[m + 1][2])
      BY <1>1, <1>2, <3>1
    <3>3. QED
      BY <3>1, <3>2
  <2>2. CASE ~(i <= m)
    <3>1. i - m \in 1 .. n /\ r[i] = cs[i - m]
      BY <1>1, <2>2
    <3>2. cs[i - m][2] = cs[n][2] \/ \E j \in (i - m) + 1 .. n : Spends(cs[i - m][2], cs[j][2])
      BY <1>1, <3>1 DEF Awaited, n
    <3>3. ASSUME NEW j \in (i - m) + 1 .. n, Spends(cs[i - m][2], cs[j][2])
          PROVE  \E k \in i + 1 .. m + n : Spends(r[i][2], r[k][2])
      <4>1. j + m \in i + 1 .. m + n /\ j + m \in 1 .. m + n /\ ~(j + m <= m) /\ (j + m) - m = j
        BY <1>1, <2>2
      <4>2. r[j + m] = cs[j]
        BY <1>1, <4>1
      <4>3. QED
        BY <3>1, <3>3, <4>1, <4>2
    <3>4. QED
      BY <1>2, <3>1, <3>2, <3>3
  <2>3. QED
    BY <2>1, <2>2
<1>4. QED
  <2>1. Awaited(r)
    BY <1>1, <1>3 DEF Awaited
  <2>2. QED
    BY <2>1 DEF r

\* What the scan of BRWalletRemoveTransaction finds: transactions at the end of the
\* list that spend t, and all those behind t.
LEMMA DependentsAre ==
  ASSUME WalletAssumption, ListInv, StateInv, NEW t \in Tx, height[t] = Unconfirmed
  PROVE  /\ Dependents(t) \in Seq(Tx)
         /\ \A s \in ToSet(Dependents(t)) : Spends(s, t) /\ height[s] = Unconfirmed /\ Trailing(s)
         /\ Trailing(t) =>
              \A s \in Tx : Before(transactions, t, s) /\ Spends(s, t) => s \in ToSet(Dependents(t))
<1> DEFINE n    == Len(transactions)
           lows == {0} \cup {i \in DOMAIN transactions : height[transactions[i]] < height[t]}
           low  == Max(lows)
           tail == SubSeq(transactions, low + 1, n)
           S    == {s \in Tx \ {t} : Spends(s, t)}
<1>1. /\ n \in Nat /\ DOMAIN transactions = 1 .. n /\ \A i \in 1 .. n : transactions[i] \in Tx
      /\ IsInjective(transactions)
  BY DEF ListInv, NoDanglingTx
<1>2. Dependents(t) = Select(tail, S)
  BY DEF Dependents
<1>3. lows \subseteq 0 .. n /\ lows # {}
  BY <1>1
<1>4. low \in lows /\ low \in 0 .. n /\ \A i \in lows : i <= low
  <2> HIDE DEF lows, n
  <2> QED BY <1>1, <1>3, MaxIs
<1>5. \A i \in low + 1 .. n : transactions[i] \in Tx /\ height[transactions[i]] = Unconfirmed
  <2> SUFFICES ASSUME NEW i \in low + 1 .. n
               PROVE  transactions[i] \in Tx /\ height[transactions[i]] = Unconfirmed
    OBVIOUS
  <2>1. i \in 1 .. n /\ ~(i <= low)
    <3> HIDE DEF low, n
    <3> QED BY <1>1, <1>4
  <2>2. i \notin lows
    <3> HIDE DEF lows, low
    <3> QED BY <1>4, <2>1
  <2>3. transactions[i] \in Tx /\ ~(height[transactions[i]] < Unconfirmed)
    BY <1>1, <2>1, <2>2
  <2>4. height[transactions[i]] \in Nat /\ height[transactions[i]] <= Unconfirmed /\ Unconfirmed \in Nat
    BY <2>3, HeightIs DEF StateInv
  <2>5. QED
    BY <2>3, <2>4
<1>6. /\ tail \in Seq(Tx) /\ DOMAIN tail = 1 .. n - low
      /\ \A i \in 1 .. n - low : tail[i] = transactions[low + i]
  <2> HIDE DEF low, n
  <2>1. low + 1 \in Int /\ n \in Int
    BY <1>1, <1>4
  <2>2. /\ tail \in Seq(Tx) /\ Len(tail) = IF low + 1 <= n THEN n - (low + 1) + 1 ELSE 0
        /\ \A i \in 1 .. n - (low + 1) + 1 : tail[i] = transactions[(low + 1) + i - 1]
    <3> DEFINE a == low + 1
    <3>1. a \in Int /\ n \in Int /\ \A i \in a .. n : transactions[i] \in Tx
      BY <1>5, <2>1
    <3> HIDE DEF a
    <3>2. /\ SubSeq(transactions, a, n) \in Seq(Tx)
          /\ Len(SubSeq(transactions, a, n)) = IF a <= n THEN n - a + 1 ELSE 0
          /\ \A i \in 1 .. n - a + 1 : SubSeq(transactions, a, n)[i] = transactions[a + i - 1]
      BY <3>1, SubSeqProperties
    <3>3. QED
      BY <3>2 DEF a
  <2>3. n - (low + 1) + 1 = n - low /\ (~(low + 1 <= n) => n - low = 0) /\ n - low \in Nat
    BY <1>1, <1>4
  <2>4. \A i \in 1 .. n - low : (low + 1) + i - 1 = low + i
    BY <1>1, <1>4, <2>3
  <2>5. DOMAIN tail = 1 .. Len(tail)
    BY <2>2
  <2> HIDE DEF tail
  <2>6. Len(tail) = n - low
    BY <2>2, <2>3
  <2>7. QED
    BY <2>2, <2>3, <2>4, <2>5, <2>6
<1> HIDE DEF low, tail, S
<1>7. Select(tail, S) \in Seq(Tx) /\ ToSet(Select(tail, S)) = ToSet(tail) \cap S
  BY <1>6, SelectIs
<1>8. ASSUME NEW s \in ToSet(tail) PROVE height[s] = Unconfirmed /\ Trailing(s)
  <2>1. PICK k \in 1 .. n - low : tail[k] = s
    BY <1>6 DEF ToSet
  <2>2. low + k \in low + 1 .. n /\ low + k \in 1 .. n /\ transactions[low + k] = s
    <3> HIDE DEF n
    <3> QED BY <1>1, <1>4, <1>6, <2>1
  <2>3. ASSUME NEW r \in Tx, Before(transactions, s, r) PROVE height[r] = Unconfirmed
    <3>1. PICK i, j \in DOMAIN transactions : i < j /\ transactions[i] = s /\ transactions[j] = r
      BY <2>3 DEF Before
    <3>2. i = low + k
      BY <1>1, <2>2, <3>1 DEF IsInjective
    <3>3. j \in low + 1 .. n
      <4>1. i \in 1 .. n /\ j \in 1 .. n
        BY <1>1, <3>1
      <4> HIDE DEF n
      <4>2. QED
        BY <1>1, <1>4, <2>2, <3>1, <3>2, <4>1
    <3>4. QED
      BY <1>5, <3>1, <3>3
  <2>4. s \in ToSet(transactions)
    BY <1>1, <2>2 DEF ToSet
  <2>5. QED
    BY <1>5, <2>2, <2>3, <2>4 DEF Trailing
<1>9. ASSUME Trailing(t), NEW s \in Tx, Before(transactions, t, s), Spends(s, t)
      PROVE  s \in ToSet(tail) \cap S
  <2>1. PICK i, j \in DOMAIN transactions : i < j /\ transactions[i] = t /\ transactions[j] = s
    BY <1>9 DEF Before
  <2>2. i \in 1 .. n /\ j \in 1 .. n /\ i # j
    BY <1>1, <2>1
  <2>3. s # t
    BY <1>1, <2>1, <2>2 DEF IsInjective
  <2>4. ~(j <= low)
    <3> SUFFICES ASSUME j <= low PROVE FALSE
      OBVIOUS
    <3>1. low \in 1 .. n /\ i < low /\ low # 0
      <4> HIDE DEF n, lows
      <4> QED BY <1>1, <1>4, <2>1, <2>2
    <3>2. height[transactions[low]] < Unconfirmed
      BY <1>4, <3>1
    <3>3. Before(transactions, t, transactions[low]) /\ transactions[low] \in Tx
      BY <1>1, <2>1, <3>1 DEF Before
    <3>4. height[transactions[low]] = Unconfirmed
      BY <1>9, <3>3 DEF Trailing
    <3>5. Unconfirmed \in Nat
      BY HeightIs
    <3>6. QED
      BY <3>2, <3>4, <3>5
  <2>5. j - low \in 1 .. n - low /\ low + (j - low) = j
    <3> HIDE DEF n, lows
    <3>1. n \in Nat /\ low \in 0 .. n /\ j \in 1 .. n
      BY <1>1, <1>4, <2>2
    <3>2. j > low
      BY <2>4, <3>1
    <3>3. QED
      BY <3>1, <3>2
  <2>6. tail[j - low] = s
    BY <1>6, <2>1, <2>5
  <2>7. s \in ToSet(tail)
    BY <1>6, <2>5, <2>6 DEF ToSet
  <2>8. QED
    BY <1>9, <2>3, <2>7 DEF S
<1>10. QED
  BY <1>2, <1>7, <1>8, <1>9 DEF S

\* Taking t out of the list: nobody behind it spends it, so no other loses its reason.
LEMMA TakeOutOK ==
  ASSUME WalletAssumption, Core, NEW t \in Tx, Removable(t), t \in allTx, Dependents(t) = <<>>,
         TakeOut(t), UNCHANGED <<height, timestamp, blockHeight, count, now>>
  PROVE  /\ Core'
         /\ \A s \in ToSet(transactions') :
              Reason(allTx, transactions, count, s) => Reason(allTx', transactions', count', s)
         /\ \A s : Removable(s) => Removable(s)'
         /\ ToSet(transactions') = ToSet(transactions) \ {t}
<1>1. ListInv /\ StateInv /\ LedgerInv /\ Trailing(t) /\ height[t] = Unconfirmed
  BY DEF Core, Removable
<1>2. /\ allTx' = allTx \ {t} /\ transactions' = Select(transactions, Tx \ {t})
      /\ ledger' = UpdateBalance(transactions', height, blockHeight, count, now)
      /\ height' = height /\ timestamp' = timestamp /\ blockHeight' = blockHeight
      /\ count' = count /\ now' = now
  BY DEF TakeOut
<1>3. transactions \in Seq(Tx) /\ ToSet(transactions) \subseteq allTx /\ IsInjective(transactions)
      /\ allTx \subseteq Tx
  BY <1>1 DEF ListInv, NoDanglingTx
<1>4. /\ transactions' \in Seq(Tx)
      /\ ToSet(transactions') = ToSet(transactions) \cap (Tx \ {t})
      /\ \A a, b : Before(transactions', a, b) <=>
                     Before(transactions, a, b) /\ a \in Tx \ {t} /\ b \in Tx \ {t}
  BY <1>2, <1>3, SelectIs
<1>5. ToSet(transactions') = ToSet(transactions) \ {t}
  BY <1>3, <1>4
<1>6. IsInjective(transactions')
  <2>1. \A x : ~Before(transactions, x, x)
    BY <1>3, InjectiveBefore
  <2>2. \A x : ~Before(transactions', x, x)
    BY <1>4, <2>1
  <2>3. QED
    BY <1>4, <2>2, InjectiveBefore
<1>7. ListInv'
  BY <1>2, <1>3, <1>4, <1>5, <1>6 DEF ListInv, NoDanglingTx
<1>8. ASSUME NEW s \in ToSet(transactions'), Reason(allTx, transactions, count, s)
      PROVE  Reason(allTx', transactions', count, s)
  <2>1. s \in ToSet(transactions) /\ s \in Tx \ {t} /\ Reason(allTx, transactions, count, s)
    BY <1>3, <1>5, <1>8
  <2>2. CASE Pays(count, s)
    BY <2>2 DEF Reason
  <2>3. CASE ~Pays(count, s)
    <3>1. PICK u \in Ins[s] : /\ u[1] \in allTx /\ OwnOutput(count, u)
                              /\ u[1] \in ToSet(transactions) => Before(transactions, u[1], s)
      BY <2>1, <2>3 DEF Reason
    <3>2. u[1] # t
      <4> SUFFICES ASSUME u[1] = t PROVE FALSE
        OBVIOUS
      <4>1. Before(transactions, t, s) /\ Spends(s, t)
        BY <1>1, <3>1 DEF Trailing, Spends, Parents
      <4>2. s \in ToSet(Dependents(t))
        BY <1>1, <2>1, <4>1, DependentsAre
      <4>3. QED
        BY <4>2 DEF ToSet
    <3>3. u[1] \in allTx' /\ u[1] \in Tx \ {t}
      BY <1>2, <1>3, <3>1, <3>2
    <3>4. u[1] \in ToSet(transactions') => Before(transactions', u[1], s)
      BY <1>4, <2>1, <3>1, <3>3
    <3>5. QED
      BY <3>1, <3>3, <3>4 DEF Reason
  <2>4. QED
    BY <2>2, <2>3
<1>9. StateInv'
  BY <1>1, <1>2 DEF StateInv
<1>10. LedgerInv'
  BY <1>2, <1>4, <1>6, UpdateBalanceOK DEF LedgerInv
<1>11. ASSUME NEW s, Removable(s) PROVE Removable(s)'
  <2>1. height'[s] = Unconfirmed
    BY <1>2, <1>11 DEF Removable
  <2>2. s \notin allTx => s \notin allTx'
    BY <1>2
  <2>3. s = t => s \notin allTx'
    BY <1>2
  <2>4. Trailing(s) /\ s # t => Trailing(s)'
    BY <1>2, <1>4, <1>5 DEF Trailing
  <2>5. QED
    BY <1>11, <2>1, <2>2, <2>3, <2>4 DEF Removable
<1>12. QED
  BY <1>2, <1>5, <1>7, <1>8, <1>9, <1>10, <1>11 DEF Core

\* the removal that is under way while its first call is of this kind
LEMMA RemovesOn ==
  ASSUME IInv, calls # <<>>, Head(calls)[1] = "remove"
  PROVE  /\ RemoveCalls /\ calls \in Seq({"remove"} \X Tx)
         /\ 1 \in DOMAIN calls /\ Head(calls) = calls[1] /\ calls[1] \in {"remove"} \X Tx
         /\ Head(calls)[2] \in Tx /\ Removable(Head(calls)[2])
<1>1. RemoveCalls
  <2>1. ASSUME BlockCalls PROVE FALSE
    <3> DEFINE T == {"update"} \X (SUBSET Tx) \X (1 .. MaxHeight)
    <3>1. calls \in Seq(T)
      BY <2>1 DEF BlockCalls
    <3> HIDE DEF T
    <3>2. Head(calls) \in T
      BY <3>1
    <3>3. QED
      BY <3>2 DEF T
  <2>2. QED
    BY <2>1 DEF IInv, CallsInv
<1>2. calls \in Seq({"remove"} \X Tx)
  BY <1>1 DEF RemoveCalls
<1> DEFINE T == {"remove"} \X Tx
<1>3. 1 \in DOMAIN calls /\ Head(calls) = calls[1] /\ calls[1] \in T
  <2>1. calls \in Seq(T)
    BY <1>2
  <2> HIDE DEF T
  <2>2. QED
    BY <2>1
<1>4. Removable(Head(calls)[2])
  BY <1>1, <1>3 DEF RemoveCalls
<1>5. QED
  BY <1>1, <1>2, <1>3, <1>4

\* the calls after one returns
LEMMA TailCalls ==
  ASSUME RemoveCalls, calls # <<>>, calls' = Tail(calls), \A s : Removable(s) => Removable(s)'
  PROVE  RemoveCalls'
<1> DEFINE T == {"remove"} \X Tx
<1>1. calls \in Seq(T) /\ Awaited(calls) /\ \A i \in DOMAIN calls : Removable(calls[i][2])
  BY DEF RemoveCalls
<1> HIDE DEF T
<1>2. Tail(calls) \in Seq(T) /\ \A i \in DOMAIN Tail(calls) : \E j \in DOMAIN calls : Tail(calls)[i] = calls[j]
  <2>1. /\ Tail(calls) \in Seq(T) /\ Len(Tail(calls)) = Len(calls) - 1
        /\ \A i \in 1 .. Len(Tail(calls)) : Tail(calls)[i] = calls[i + 1]
    BY <1>1, HeadTailProperties
  <2>2. /\ DOMAIN Tail(calls) = 1 .. Len(Tail(calls)) /\ DOMAIN calls = 1 .. Len(calls)
        /\ Len(calls) \in Nat
    BY <1>1, <2>1
  <2>3. QED
    BY <2>1, <2>2
<1>3. Awaited(Tail(calls))
  BY <1>1, AwaitedTail
<1>4. \A i \in DOMAIN calls' : Removable(calls[i][2])'
  <2> SUFFICES ASSUME NEW i \in DOMAIN Tail(calls), NEW s, s = Tail(calls)[i][2] PROVE Removable(s)'
    BY DEF Removable, Trailing
  <2>1. Removable(s)
    BY <1>1, <1>2
  <2>2. QED
    BY <2>1
<1>5. QED
  BY <1>2, <1>3, <1>4 DEF RemoveCalls, Removable, Trailing, T

LEMMA RemoveStepOK ==
  ASSUME WalletAssumption, IInv, RemoveStep
  PROVE  IInv'
<1> DEFINE t == Head(calls)[2]
           deps == Dependents(t)
           new == [i \in DOMAIN deps |-> <<"remove", deps[i]>>]
           T == {"remove"} \X Tx
<1>1. /\ Core /\ OwnInv /\ ChainInv /\ calls # <<>> /\ Head(calls)[1] = "remove"
      /\ UNCHANGED <<height, timestamp, blockHeight, count, now, chain, reorgs>>
  BY DEF IInv, RemoveStep
<1>2. /\ RemoveCalls /\ calls \in Seq(T) /\ 1 \in DOMAIN calls /\ Head(calls) = calls[1]
      /\ t \in Tx /\ Removable(t)
  BY <1>1, RemovesOn
<1>3. ChainInv'
  BY <1>1 DEF ChainInv
<1>8. \A i \in DOMAIN calls : calls[i][1] # "update"
  BY <1>2, NoUpdates
<1>9. count \in [Chains -> Nat] /\ \A d \in Chains : count[d] >= count[d]
  BY <1>1 DEF Core, StateInv
<1>4. CASE t \in allTx /\ deps # <<>>
  <2>1. calls' = new \o calls /\ UNCHANGED <<allTx, transactions, ledger>>
    BY <1>4 DEF RemoveStep
  <2>2. /\ deps \in Seq(Tx)
        /\ \A s \in ToSet(deps) : Spends(s, t) /\ height[s] = Unconfirmed /\ Trailing(s)
    BY <1>1, <1>2, DependentsAre DEF Core, Removable
  <2>3. Core' /\ \A s : Removable(s)' <=> Removable(s)
    BY <1>1, <2>1 DEF Core, ListInv, NoDanglingTx, StateInv, LedgerInv, Removable, Trailing
  <2>9. OwnInv'
    BY <1>1, <1>8, <1>9, <2>1, OwnSame
  <2>4. /\ new \in Seq(T) /\ DOMAIN new = DOMAIN deps
        /\ \A i \in DOMAIN new : Removable(new[i][2]) /\ Spends(new[i][2], calls[1][2])
    <3> HIDE DEF deps
    <3>1. Len(deps) \in Nat /\ DOMAIN deps = 1 .. Len(deps) /\ \A i \in DOMAIN deps : deps[i] \in Tx
      BY <2>2
    <3>2. new \in [1 .. Len(deps) -> T]
      BY <3>1
    <3>3. new \in Seq(T)
      <4> HIDE DEF new, T
      <4> QED BY <3>1, <3>2, FunctionIsSeq
    <3>4. ASSUME NEW i \in DOMAIN new PROVE Removable(new[i][2]) /\ Spends(new[i][2], calls[1][2])
      <4>1. deps[i] \in ToSet(deps) /\ new[i][2] = deps[i]
        BY DEF ToSet
      <4> HIDE DEF new
      <4>2. QED
        BY <1>2, <2>2, <4>1 DEF Removable
    <3>5. DOMAIN new = DOMAIN deps
      OBVIOUS
    <3>6. QED
      BY <3>3, <3>4, <3>5
  <2> HIDE DEF new, T, deps
  <2>5. Awaited(new \o calls)
    BY <1>1, <1>2, <2>4, AwaitedConcat DEF RemoveCalls
  <2>6. /\ new \o calls \in Seq(T)
        /\ \A i \in DOMAIN (new \o calls) : Removable((new \o calls)[i][2])
    <3>1. /\ new \o calls \in Seq(T) /\ Len(new \o calls) = Len(new) + Len(calls)
          /\ \A i \in 1 .. Len(new) + Len(calls) : (new \o calls)[i] =
                        IF i <= Len(new) THEN new[i] ELSE calls[i - Len(new)]
      BY <1>2, <2>4, ConcatProperties
    <3>2. /\ DOMAIN (new \o calls) = 1 .. Len(new) + Len(calls)
          /\ Len(new) \in Nat /\ Len(calls) \in Nat /\ DOMAIN new = 1 .. Len(new)
          /\ DOMAIN calls = 1 .. Len(calls)
      BY <1>2, <2>4, <3>1
    <3>3. ASSUME NEW i \in 1 .. Len(new) + Len(calls) PROVE Removable((new \o calls)[i][2])
      <4>1. CASE i <= Len(new)
        <5>1. i \in DOMAIN new /\ (new \o calls)[i] = new[i]
          BY <3>1, <3>2, <4>1
        <5>2. QED
          BY <2>4, <5>1
      <4>2. CASE ~(i <= Len(new))
        <5>1. i - Len(new) \in DOMAIN calls /\ (new \o calls)[i] = calls[i - Len(new)]
          BY <3>1, <3>2, <4>2
        <5>2. QED
          BY <1>2, <5>1 DEF RemoveCalls
      <4>3. QED
        BY <4>1, <4>2
    <3>4. QED
      BY <3>1, <3>2, <3>3
  <2>7. RemoveCalls'
    <3>1. \A i \in DOMAIN calls' : Removable(calls[i][2])'
      <4> SUFFICES ASSUME NEW i \in DOMAIN (new \o calls), NEW s, s = (new \o calls)[i][2]
                   PROVE  Removable(s)'
        BY <2>1 DEF Removable, Trailing
      <4>1. QED
        BY <2>3, <2>6
    <3>2. QED
      BY <2>1, <2>5, <2>6, <3>1 DEF RemoveCalls, Removable, Trailing, T
  <2>8. QED
    BY <1>3, <2>3, <2>7, <2>9 DEF IInv, CallsInv
<1>5. CASE t \in allTx /\ deps = <<>>
  <2>1. calls' = Tail(calls) /\ TakeOut(t)
    BY <1>5 DEF RemoveStep
  <2>2. /\ Core' /\ \A s : Removable(s) => Removable(s)'
        /\ \A s \in ToSet(transactions') :
             Reason(allTx, transactions, count, s) => Reason(allTx', transactions', count', s)
        /\ ToSet(transactions') = ToSet(transactions) \ {t}
    BY <1>1, <1>2, <1>5, <2>1, TakeOutOK
  <2>3. RemoveCalls'
    BY <1>1, <1>2, <2>1, <2>2, TailCalls
  <2>4. ASSUME NEW p \in Tx, Held(p) PROVE Held(p)'
    <3>1. ASSUME NEW k \in DOMAIN chain, p \in chain[k] PROVE p \in allTx'
      <4>1. p \in allTx /\ height[p] = k
        BY <1>8, <2>4, <3>1 DEF Held
      <4>2. k \in 1 .. MaxHeight
        BY <1>1, HeightIs DEF ChainInv
      <4>3. p # t
        BY <1>2, <4>1, <4>2, HeightIs DEF Removable
      <4>4. QED
        BY <2>1, <4>1, <4>3 DEF TakeOut
    <3>2. \A k \in DOMAIN chain : p \in chain[k] => p \in allTx' /\ height'[p] = height[p]
      BY <1>1, <3>1
    <3>3. QED
      BY <1>1, <1>8, <2>4, <3>2, QuietHeld
  <2>5. OwnInv'
    <3>1. ASSUME NEW s \in ToSet(transactions')
          PROVE  Reason(allTx', transactions', count', s) \/ Loaded(s)'
      <4>1. s \in ToSet(transactions)
        BY <2>2
      <4>2. CASE Reason(allTx, transactions, count, s)
        BY <2>2, <4>2
      <4>3. CASE Loaded(s)
        BY <1>1, <2>4, <4>3, LoadedKept
      <4>4. QED
        BY <1>1, <4>1, <4>2, <4>3 DEF OwnInv
    <3>2. QED
      BY <3>1 DEF OwnInv
  <2>6. QED
    BY <1>3, <2>2, <2>3, <2>5 DEF IInv, CallsInv
<1>6. CASE t \notin allTx
  <2>1. calls' = Tail(calls) /\ UNCHANGED <<allTx, transactions, ledger>>
    BY <1>6 DEF RemoveStep
  <2>2. Core' /\ \A s : Removable(s) => Removable(s)'
    BY <1>1, <2>1 DEF Core, ListInv, NoDanglingTx, StateInv, LedgerInv, Removable, Trailing
  <2>3. RemoveCalls'
    BY <1>1, <1>2, <2>1, <2>2, TailCalls
  <2>4. OwnInv'
    BY <1>1, <1>8, <1>9, <2>1, OwnSame
  <2>5. QED
    BY <1>3, <2>2, <2>3, <2>4 DEF IInv, CallsInv
<1>10. QED
  BY <1>4, <1>5, <1>6

-----------------------------------------------------------------------------
(* BRWalletNew *)

LoadStep(txs, hts, t) == InsertTx(txs, hts, ToSet(txs) \cup {t}, [c \in Chains |-> 0], t)

\* the lists that the loop of BRWalletNew goes through
Loads(f, rows, hts, k) ==
  f = [n \in 0 .. k |-> IF n = 0 THEN <<>> ELSE LoadStep(f[n - 1], hts, rows[n])]

LEMMA LoadsExist ==
  ASSUME NEW rows, NEW hts, NEW m \in Nat
  PROVE  \E f : Loads(f, rows, hts, m)
<1> DEFINE Step(acc, n) == LoadStep(acc, hts, rows[n])
           Rec(f, k) == f = [n \in 0 .. k |-> IF n = 0 THEN <<>> ELSE Step(f[n - 1], n)]
           Bad == {k \in Nat : ~\E f : Rec(f, k)}
<1>1. SUFFICES ASSUME Bad # {} PROVE FALSE
  BY DEF Loads
<1>2. PICK k \in Bad : \A i \in Bad : k <= i
  <2>1. Bad \subseteq Nat
    OBVIOUS
  <2> HIDE DEF Bad
  <2>2. QED
    BY <1>1, <2>1, NatLeast
<1> HIDE DEF Step
<1>3. k # 0
  <2>1. Rec([n \in 0 .. 0 |-> <<>>], 0)
    OBVIOUS
  <2>2. QED
    BY <2>1
<1>4. k \in Nat /\ k - 1 \in Nat /\ k - 1 \notin Bad
  <2>1. k \in Nat
    OBVIOUS
  <2> HIDE DEF Bad
  <2>2. QED
    BY <1>2, <1>3, <2>1
<1>5. PICK f : Rec(f, k - 1)
  BY <1>4
<1> DEFINE g == [n \in 0 .. k |-> IF n = k THEN Step(f[k - 1], k) ELSE f[n]]
<1>6. Rec(g, k)
  <2>1. ASSUME NEW n \in 0 .. k PROVE g[n] = IF n = 0 THEN <<>> ELSE Step(g[n - 1], n)
    <3>1. CASE n = k
      BY <1>3, <1>4, <3>1
    <3>2. CASE n # k
      <4>1. n \in 0 .. (k - 1) /\ g[n] = f[n]
        BY <1>4, <3>2
      <4>2. f[n] = IF n = 0 THEN <<>> ELSE Step(f[n - 1], n)
        BY <1>5, <4>1
      <4>3. n # 0 => n - 1 \in 0 .. k /\ n - 1 # k
        BY <1>4, <3>2
      <4>4. QED
        BY <4>1, <4>2, <4>3
    <3>3. QED
      BY <3>1, <3>2
  <2>2. QED
    BY <2>1
<1>7. QED
  BY <1>4, <1>6

\* what the first n rows give: a list of them
LoadOK(r, rows, n) ==
  r \in Seq(Tx) /\ ToSet(r) = {rows[i] : i \in 1 .. n} /\ IsInjective(r)

LEMMA LoadStepOK ==
  ASSUME NEW rows \in Seq(Tx), IsInjective(rows), NEW hts,
         NEW n \in 1 .. Len(rows), NEW r, LoadOK(r, rows, n - 1)
  PROVE  LoadOK(LoadStep(r, hts, rows[n]), rows, n)
<1> DEFINE t == rows[n]
           all == ToSet(r) \cup {t}
           zero == [c \in Chains |-> 0]
           new == InsertTx(r, hts, all, zero, t)
           old(k) == {rows[i] : i \in 1 .. k}
<1>1. /\ Len(rows) \in Nat /\ DOMAIN rows = 1 .. Len(rows) /\ n \in Nat
      /\ t \in Tx /\ \A i \in 1 .. n : i \in 1 .. Len(rows) /\ rows[i] \in Tx
  OBVIOUS
<1>2. r \in Seq(Tx) /\ ToSet(r) = old(n - 1) /\ IsInjective(r)
  BY DEF LoadOK
<1>3. \A i \in 1 .. n - 1 : rows[i] # t
  BY <1>1 DEF IsInjective
<1>4. t \notin ToSet(r)
  BY <1>2, <1>3
<1>5. new \in Seq(Tx) /\ ToSet(new) = ToSet(r) \cup {t} /\ IsInjective(new)
  <2> HIDE DEF all, zero, t
  <2> QED BY <1>1, <1>2, <1>4, InsertTxIs
<1> HIDE DEF new
<1>6. ToSet(new) = old(n)
  <2>1. \A i : i \in 1 .. n <=> i \in 1 .. n - 1 \/ i = n
    BY <1>1
  <2>2. QED
    BY <1>2, <1>5, <2>1
<1>7. LoadOK(new, rows, n)
  BY <1>5, <1>6 DEF LoadOK
<1>8. QED
  BY <1>7 DEF LoadStep, new

LEMMA LoadIs ==
  ASSUME NEW rows \in Seq(Tx), IsInjective(rows), NEW hts
  PROVE  LoadOK(LoadTransactions(rows, hts), rows, Len(rows))
<1> DEFINE m == Len(rows)
           f == CHOOSE g : Loads(g, rows, hts, m)
           Fine(n) == LoadOK(f[n], rows, n)
           Bad == {n \in 0 .. m : ~Fine(n)}
<1>1. m \in Nat /\ DOMAIN rows = 1 .. m /\ \A n \in 1 .. m : rows[n] \in Tx
  OBVIOUS
<1>2. LoadTransactions(rows, hts) = f[m]
  BY DEF LoadTransactions, Loads, LoadStep
<1>3. Loads(f, rows, hts, m)
  BY <1>1, LoadsExist
<1> HIDE DEF f
<1>4. f[0] = <<>> /\ \A n \in 1 .. m : f[n] = LoadStep(f[n - 1], hts, rows[n])
  <2>1. f = [n \in 0 .. m |-> IF n = 0 THEN <<>> ELSE LoadStep(f[n - 1], hts, rows[n])]
    BY <1>3 DEF Loads
  <2>2. 0 \in 0 .. m /\ \A n \in 1 .. m : n \in 0 .. m /\ n # 0
    BY <1>1
  <2> HIDE DEF m
  <2>3. f[0] = <<>>
    BY <2>1, <2>2
  <2>4. QED
    BY <2>1, <2>2, <2>3
<1>5. Bad = {}
  <2>1. SUFFICES ASSUME Bad # {} PROVE FALSE
    OBVIOUS
  <2>2. PICK n \in Bad : \A i \in Bad : n <= i
    <3>1. Bad \subseteq Nat
      OBVIOUS
    <3> HIDE DEF Bad
    <3>2. QED
      BY <2>1, <3>1, NatLeast
  <2>3. n \in 0 .. m /\ ~Fine(n)
    OBVIOUS
  <2>4. n # 0
    <3>1. LoadOK(<<>>, rows, 0)
      BY DEF LoadOK, ToSet, IsInjective
    <3>2. QED
      BY <1>4, <2>3, <3>1
  <2>5. n \in 1 .. m /\ n - 1 \in 0 .. m
    BY <1>1, <2>3, <2>4
  <2>6. Fine(n - 1)
    <3>1. n - 1 \notin Bad
      <4> HIDE DEF Bad
      <4> QED BY <2>2, <2>5
    <3> HIDE DEF Fine
    <3>2. QED
      BY <2>5, <3>1
  <2>7. LoadOK(LoadStep(f[n - 1], hts, rows[n]), rows, n)
    BY <2>5, <2>6, LoadStepOK
  <2>8. QED
    BY <1>4, <2>3, <2>5, <2>7
<1>6. m \notin Bad /\ m \in 0 .. m
  <2> HIDE DEF Bad
  <2> QED BY <1>1, <1>5
<1>7. Fine(m)
  <2> HIDE DEF Fine
  <2> QED BY <1>6
<1>8. QED
  BY <1>2, <1>7

LEMMA LoadCountIs ==
  ASSUME WalletAssumption, NEW rows \in Seq(Tx)
  PROVE  LoadCount(rows) \in [Chains -> Nat]
<1> DEFINE S == ToSet(rows)
           f == [t \in Tx |-> OutAddrs(t)]
           T == {OutAddrs(t) : t \in S}
           zero == [c \in Chains |-> 0]
<1>1. S \subseteq Tx
  BY DEF ToSet
<1>2. IsFiniteSet(S)
  BY <1>1, FS_Subset DEF WalletAssumption
<1>3. IsFiniteSet(T)
  <2>1. IsImage(T, f, S)
    BY <1>1 DEF IsImage
  <2> HIDE DEF T, f, S
  <2>2. QED
    BY <1>2, <2>1, ImageFinite
<1>4. \A x \in T : IsFiniteSet(x)
  BY <1>1, OutAddrsFinite
<1>5. IsFiniteSet(UNION T)
  <2> HIDE DEF T
  <2> QED BY <1>3, <1>4, FS_UNION
<1>6. IsFiniteSet((UNION T) \ {NoAddr})
  <2> DEFINE U == UNION T
  <2>1. IsFiniteSet(U)
    BY <1>5
  <2> HIDE DEF U
  <2>2. IsFiniteSet(U \ {NoAddr})
    BY <2>1, FS_Difference
  <2>3. QED
    BY <2>2 DEF U
<1>7. zero \in [Chains -> Nat]
  OBVIOUS
<1>8. ExtendChains(zero, (UNION T) \ {NoAddr}) \in [Chains -> Nat]
  <2> HIDE DEF T, zero
  <2> QED BY <1>6, <1>7, ExtendChainsIs
<1>9. QED
  BY <1>8 DEF LoadCount

LEMMA InitOK ==
  ASSUME WalletAssumption, SavedAssumption, Init
  PROVE  IInv
<1> DEFINE HtSet == 1 .. MaxHeight \cup {Unconfirmed}
           Txs(rows) == [i \in DOMAIN rows |-> rows[i].tx]
<1>0. PICK db \in Saved :
        LET rows == db.rows IN
        /\ height = [t \in Tx |-> IF \E i \in DOMAIN rows : rows[i].tx = t
                                  THEN rows[CHOOSE i \in DOMAIN rows : rows[i].tx = t].height
                                  ELSE Unconfirmed]
        /\ timestamp = [t \in Tx |-> 0]
        /\ allTx = ToSet(Txs(rows))
        /\ transactions = LoadTransactions(Txs(rows), height)
        /\ blockHeight = 0
        /\ count = LoadCount(Txs(rows))
        /\ now = MaxLockHeight
        /\ ledger = UpdateBalance(transactions, height, 0, count, now)
        /\ chain = db.chain
        /\ reorgs = 0
        /\ calls = <<>>
  BY DEF Init
<1> DEFINE rows == db.rows
<1>1. /\ height = [t \in Tx |-> IF \E i \in DOMAIN rows : rows[i].tx = t
                                THEN rows[CHOOSE i \in DOMAIN rows : rows[i].tx = t].height
                                ELSE Unconfirmed]
      /\ timestamp = [t \in Tx |-> 0]
      /\ allTx = ToSet(Txs(rows))
      /\ transactions = LoadTransactions(Txs(rows), height)
      /\ blockHeight = 0
      /\ count = LoadCount(Txs(rows))
      /\ now = MaxLockHeight
      /\ ledger = UpdateBalance(transactions, height, 0, count, now)
      /\ chain = db.chain
      /\ reorgs = 0
      /\ calls = <<>>
  BY <1>0
<1> DEFINE txs == Txs(rows)
<1>2. /\ rows \in Seq([tx : Tx, height : HtSet])
      /\ \A i, j \in DOMAIN rows : rows[i].tx = rows[j].tx => i = j
      /\ chain \in Seq(SUBSET Tx) /\ Len(chain) <= MaxHeight /\ ConsistentChain(chain)
      /\ \A i \in DOMAIN rows :
           \/ Pays(count, rows[i].tx)
           \/ \E u \in Ins[rows[i].tx] :
                /\ u[1] \in Tx /\ OwnOutput(count, u)
                /\ \A h \in DOMAIN chain : u[1] \in chain[h] =>
                     \E j \in DOMAIN rows : rows[j] = [tx |-> u[1], height |-> h]
  <2>1. LET cnt == LoadCount(Txs(rows)) IN
        /\ rows \in Seq([tx : Tx, height : HtSet])
        /\ \A i, j \in DOMAIN rows : rows[i].tx = rows[j].tx => i = j
        /\ db.chain \in Seq(SUBSET Tx) /\ Len(db.chain) <= MaxHeight /\ ConsistentChain(db.chain)
        /\ \A i \in DOMAIN rows :
             \/ Pays(cnt, rows[i].tx)
             \/ \E u \in Ins[rows[i].tx] :
                  /\ u[1] \in Tx /\ OwnOutput(cnt, u)
                  /\ \A h \in DOMAIN db.chain : u[1] \in db.chain[h] =>
                       \E j \in DOMAIN rows : rows[j] = [tx |-> u[1], height |-> h]
    BY DEF SavedAssumption
  <2> HIDE DEF rows, HtSet, Txs
  <2>2. QED
    BY <1>1, <2>1
<1> HIDE DEF rows
<1>3. /\ Len(rows) \in Nat /\ DOMAIN rows = 1 .. Len(rows)
      /\ \A i \in DOMAIN rows : rows[i].tx \in Tx /\ rows[i].height \in HtSet
  <2> DEFINE R == [tx : Tx, height : HtSet]
  <2>1. rows \in Seq(R)
    BY <1>2
  <2>2. \A x \in R : x.tx \in Tx /\ x.height \in HtSet
    OBVIOUS
  <2> HIDE DEF R, HtSet
  <2>3. Len(rows) \in Nat /\ DOMAIN rows = 1 .. Len(rows) /\ \A i \in DOMAIN rows : rows[i] \in R
    BY <2>1
  <2>4. QED
    BY <2>2, <2>3
<1>4. txs \in Seq(Tx) /\ Len(txs) = Len(rows) /\ DOMAIN txs = DOMAIN rows /\ IsInjective(txs)
  <2>1. txs \in [1 .. Len(rows) -> Tx]
    BY <1>3
  <2>2. DOMAIN txs = DOMAIN rows /\ \A i \in DOMAIN rows : txs[i] = rows[i].tx
    OBVIOUS
  <2> HIDE DEF txs
  <2>3. txs \in Seq(Tx) /\ Len(txs) = Len(rows)
    BY <1>3, <2>1, FunctionIsSeq
  <2>4. IsInjective(txs)
    BY <1>2, <2>2 DEF IsInjective
  <2>5. QED
    BY <2>2, <2>3, <2>4
<1>5. height \in [Tx -> HtSet] /\ \A i \in DOMAIN rows : height[rows[i].tx] = rows[i].height
  <2> HIDE DEF HtSet
  <2>1. ASSUME NEW i \in DOMAIN rows PROVE height[rows[i].tx] = rows[i].height
    <3>1. (CHOOSE k \in DOMAIN rows : rows[k].tx = rows[i].tx) = i
      BY <1>2
    <3>2. QED
      BY <1>1, <1>3, <3>1
  <2>2. ASSUME NEW t \in Tx PROVE height[t] \in HtSet
    <3>1. CASE \E i \in DOMAIN rows : rows[i].tx = t
      <4>1. PICK i \in DOMAIN rows : rows[i].tx = t
        BY <3>1
      <4>2. height[t] = rows[i].height
        BY <2>1, <4>1
      <4>3. QED
        BY <1>3, <4>2
    <3>2. CASE ~\E i \in DOMAIN rows : rows[i].tx = t
      <4>1. height[t] = Unconfirmed
        BY <1>1, <3>2
      <4>2. QED
        BY <4>1 DEF HtSet
    <3>3. QED
      BY <3>1, <3>2
  <2>3. \E T : height \in [Tx -> T]
    <3>1. height \in [Tx -> {height[t] : t \in Tx}]
      BY <1>1
    <3>2. QED
      BY <3>1
  <2>4. QED
    BY <2>1, <2>2, <2>3
<1> HIDE DEF txs
<1>7. LoadOK(transactions, txs, Len(txs))
  <2>1. transactions = LoadTransactions(txs, height)
    BY <1>1 DEF txs
  <2>2. QED
    BY <1>4, <2>1, LoadIs
<1>8. /\ transactions \in Seq(Tx) /\ IsInjective(transactions)
      /\ ToSet(transactions) = {txs[i] : i \in 1 .. Len(txs)}
  BY <1>7 DEF LoadOK
<1>9. allTx = ToSet(transactions) /\ allTx \subseteq Tx
  <2>1. allTx = {txs[i] : i \in DOMAIN txs}
    BY <1>1 DEF ToSet, txs
  <2>2. QED
    BY <1>3, <1>4, <1>8, <2>1
<1>10. ListInv
  BY <1>8, <1>9 DEF ListInv, NoDanglingTx
<1>11. OwnInv
  <2> SUFFICES ASSUME NEW s \in ToSet(transactions)
               PROVE  Reason(allTx, transactions, count, s) \/ Loaded(s)
    BY DEF OwnInv
  <2>0. PICK i \in DOMAIN rows : s = txs[i]
    <3>1. ToSet(transactions) = {txs[i] : i \in 1 .. Len(txs)}
      BY <1>8
    <3>2. PICK i \in 1 .. Len(txs) : s = txs[i]
      BY <3>1
    <3>3. i \in DOMAIN rows
      BY <1>3, <1>4
    <3>4. QED
      BY <3>2, <3>3
  <2>1. \A k \in DOMAIN rows : txs[k] = rows[k].tx
    BY DEF txs
  <2>2. CASE Pays(count, txs[i])
    BY <2>0, <2>2 DEF Reason
  <2>3. CASE ~Pays(count, txs[i])
    <3>1. PICK u \in Ins[s] :
            /\ u[1] \in Tx /\ OwnOutput(count, u)
            /\ \A h \in DOMAIN chain : u[1] \in chain[h] =>
                 \E j \in DOMAIN rows : rows[j] = [tx |-> u[1], height |-> h]
      <4>1. rows[i].tx = s
        BY <2>0, <2>1
      <4>2. ~Pays(count, rows[i].tx)
        BY <2>0, <2>3, <4>1
      <4>3. \E u \in Ins[rows[i].tx] :
              /\ u[1] \in Tx /\ OwnOutput(count, u)
              /\ \A h \in DOMAIN chain : u[1] \in chain[h] =>
                   \E j \in DOMAIN rows : rows[j] = [tx |-> u[1], height |-> h]
        BY <1>2, <2>0, <4>2, Zenon
      <4>4. QED
        BY <4>1, <4>3, Zenon
    <3>2. ASSUME NEW h \in DOMAIN chain, NEW p, p = u[1], p \in chain[h]
          PROVE  p \in allTx /\ height[p] = h
      <4>1. PICK j \in DOMAIN rows : rows[j] = [tx |-> p, height |-> h]
        BY <3>1, <3>2, Zenon
      <4>2. rows[j].tx = p /\ rows[j].height = h
        BY <4>1
      <4>3. height[p] = h
        BY <1>5, <4>2
      <4>4. p \in ToSet(txs)
        <5>1. j \in DOMAIN txs /\ txs[j] = p
          BY <2>1, <4>1, <4>2 DEF txs
        <5>2. QED
          BY <5>1 DEF ToSet
      <4>5. QED
        BY <1>1, <4>3, <4>4 DEF txs
    <3>3. Held(u[1])
      BY <3>2 DEF Held
    <3>4. QED
      BY <3>1, <3>3 DEF Loaded
  <2>4. QED
    BY <2>2, <2>3
<1>12. StateInv
  <2>1. count \in [Chains -> Nat]
    BY <1>1, <1>4, LoadCountIs DEF txs
  <2>2. now \in Times
    BY <1>1 DEF Times, WalletAssumption
  <2>3. blockHeight \in 0 .. MaxHeight
    BY <1>1, HeightIs
  <2>4. timestamp \in [Tx -> {0, 1}]
    BY <1>1
  <2>5. QED
    BY <1>5, <2>1, <2>2, <2>3, <2>4 DEF StateInv
<1>13. LedgerInv
  <2>1. ledger = UpdateBalance(transactions, height, 0, count, now)
    BY <1>1
  <2>2. QED
    BY <1>8, <2>1, UpdateBalanceOK DEF LedgerInv
<1>14. ChainInv
  <2>1. reorgs \in 0 .. MaxReorgs
    BY <1>1 DEF WalletAssumption
  <2>2. QED
    BY <1>2, <2>1 DEF ChainInv
<1>15. CallsInv
  BY <1>1 DEF CallsInv, BlockCalls
<1>16. QED
  BY <1>10, <1>11, <1>12, <1>13, <1>14, <1>15 DEF IInv, Core

-----------------------------------------------------------------------------
(* The theorems *)

LEMMA GapIs ==
  ASSUME WalletAssumption, NEW c \in Chains, NEW spare \in BOOLEAN
  PROVE  (IF spare THEN GapLimit[c] + SpareAddrs ELSE 1) \in Nat \ {0}
<1> DEFINE g == GapLimit[c]
<1>1. g \in Nat \ {0} /\ SpareAddrs \in Nat
  BY DEF WalletAssumption
<1> HIDE DEF g
<1>2. g + SpareAddrs \in Nat \ {0}
  BY <1>1
<1>3. QED
  BY <1>2 DEF g

\* Every step of the wallet keeps the inductive invariant.
LEMMA NextOK ==
  ASSUME WalletAssumption, SpendsAssumption, IInv, [Next]_vars
  PROVE  IInv'
<1>1. CASE \E t \in Tx : RegisterTransaction(t)
  BY <1>1, RegisterOK
<1>2. CASE \E t \in Tx : RemoveTransaction(t)
  BY <1>2, RemoveTransactionOK
<1>3. CASE \E t \in Tx, ts \in {0, 1} : MarkTransaction(t, ts)
  BY <1>3, MarkOK
<1>4. CASE \E S \in BlocksAfter(chain) : NewBlock(S)
  BY <1>4, NewBlockOK
<1>5. CASE \E depth \in 1 .. MaxReorgDepth : Reorg(depth)
  BY <1>5, ReorgOK
<1>6. CASE RemoveStep
  BY <1>6, RemoveStepOK
<1>7. CASE UpdateStep
  BY <1>7, UpdateStepOK
<1>8. CASE \E c \in Chains, spare \in BOOLEAN :
             GenerateAddrs(c, IF spare THEN GapLimit[c] + SpareAddrs ELSE 1)
  <2>1. PICK c \in Chains, spare \in BOOLEAN :
          GenerateAddrs(c, IF spare THEN GapLimit[c] + SpareAddrs ELSE 1)
    BY <1>8
  <2>2. (IF spare THEN GapLimit[c] + SpareAddrs ELSE 1) \in Nat \ {0}
    BY GapIs
  <2>3. QED
    BY <2>1, <2>2, GenerateAddrsOK
<1>9. CASE Tick
  BY <1>9, TickOK
<1>10. CASE UNCHANGED vars
  <2>1. UNCHANGED <<transactions, allTx, height, timestamp, blockHeight, count, ledger, now,
                    chain, reorgs, calls>>
    BY <1>10 DEF vars
  <2>2. CallsInv' /\ OwnInv'
    <3>1. count \in [Chains -> Nat] /\ \A d \in Chains : count[d] >= count[d]
      BY DEF IInv, Core, StateInv
    <3>2. QED
      BY <2>1, <3>1, SameCalls, OwnSame DEF IInv
  <2>3. QED
    BY <2>1, <2>2 DEF IInv, Core, ListInv, NoDanglingTx, StateInv, LedgerInv, ChainInv
<1>11. QED
  BY <1>1, <1>2, <1>3, <1>4, <1>5, <1>6, <1>7, <1>8, <1>9, <1>10 DEF Next, ManagerCall

\* IInv holds in every state of the wallet, whatever is registered, removed,
\* confirmed or reorganised and whenever the user's thread generates addresses.
THEOREM Invariance == Spec => []IInv
<1>1. Init => IInv
  BY InitOK, WalletAssumption, SavedAssumption
<1>2. IInv /\ [Next]_vars => IInv'
  BY NextOK, WalletAssumption, SpendsAssumption
<1>3. QED
  BY <1>1, <1>2, PTL DEF Spec

\* Every variable keeps the type of the C field it models: no sum of
\* _BRWalletUpdateBalance goes below zero, although the fields are unsigned.
THEOREM TypeCorrect == Spec => []TypeOK
<1>1. IInv => TypeOK
  <2> SUFFICES ASSUME IInv PROVE TypeOK
    OBVIOUS
  <2>1. ListInv /\ StateInv /\ LedgerInv /\ ChainInv
    BY DEF IInv, Core
  <2>2. ledger.balance \in Nat /\ ledger.totalSent \in Nat /\ ledger.totalReceived \in Nat
    BY <2>1 DEF LedgerInv, LedgerOK, LedgerMoney
  <2>3. QED
    BY <2>1, <2>2 DEF TypeOK, ListInv, StateInv, ChainInv
<1>2. QED
  BY <1>1, Invariance, PTL

\* The balance is the sum of the unspent outputs and the difference of the totals.
THEOREM BalanceIsTheSum == Spec => []BalanceIsUtxoSum
<1>1. IInv => BalanceIsUtxoSum
  BY DEF IInv, Core, LedgerInv, LedgerOK, LedgerMoney, BalanceIsUtxoSum
<1>2. QED
  BY <1>1, Invariance, PTL

\* The balance history has an entry for each transaction, the last is the balance.
THEOREM HistoryIsComplete == Spec => []HistoryMatches
<1>1. IInv => HistoryMatches
  <2> SUFFICES ASSUME IInv PROVE HistoryMatches
    OBVIOUS
  <2>1. transactions \in Seq(Tx) /\ LedgerHist(ledger, Len(transactions))
    BY DEF IInv, Core, ListInv, LedgerInv, LedgerOK
  <2> DEFINE hist == ledger.balanceHist
             n == Len(transactions)
  <2>2. /\ n \in Nat /\ (transactions # <<>> => n > 0)
        /\ hist \in Seq(Nat) /\ Len(hist) = n /\ (n > 0 => hist[n] = ledger.balance)
    BY <2>1 DEF LedgerHist
  <2> HIDE DEF hist, n
  <2>3. Last(hist) = hist[n]
    BY <2>2 DEF Last
  <2>4. QED
    BY <2>2, <2>3 DEF HistoryMatches, hist, n
<1>2. QED
  BY <1>1, Invariance, PTL

\* Of two unconfirmed transactions that conflict at most one is counted.
THEOREM ConflictsCountOnce == Spec => []NoDoubleCount
<1>1. IInv => NoDoubleCount
  BY DEF IInv, Core, LedgerInv, LedgerOK, LedgerSpends, NoDoubleCount, Counted
<1>2. QED
  BY <1>1, Invariance, PTL

\* A confirmed transaction is part of the balance, also when the ledger was not
\* recomputed as it was confirmed.
THEOREM ConfirmedCounts == Spec => []ConfirmedIsCounted
<1>1. IInv => ConfirmedIsCounted
  BY DEF IInv, Core, LedgerInv, LedgerOK, LedgerSpends, ConfirmedIsCounted, Counted
<1>2. QED
  BY <1>1, Invariance, PTL

\* No unspent output is offered that a counted transaction spends.
THEOREM UtxosAreUnspent == Spec => []UtxosUnspent
<1>1. IInv => UtxosUnspent
  BY DEF IInv, Core, LedgerInv, LedgerOK, LedgerSpends, UtxosUnspent, Counted
<1>2. QED
  BY <1>1, Invariance, PTL

\* The wallet's list never refers to a transaction that has been freed.
THEOREM NothingDangles == Spec => []NoDanglingTx
<1>1. IInv => NoDanglingTx
  BY DEF IInv, Core, ListInv
<1>2. QED
  BY <1>1, Invariance, PTL

-----------------------------------------------------------------------------
(* What a step may take out of the list *)

\* every other step keeps the list or adds to it
LEMMA OthersKeep ==
  ASSUME IInv, [Next]_vars, ~RemoveStep
  PROVE  ToSet(transactions) \subseteq ToSet(transactions')
<1>1. CASE \E t \in Tx : RegisterTransaction(t)
  <2>1. PICK t \in Tx : RegisterTransaction(t)
    BY <1>1
  <2>2. CASE ContainsTx(allTx, count, t)
    <3>1. transactions' = InsertTx(transactions, height', allTx', count, t)
      BY <2>1, <2>2 DEF RegisterTransaction
    <3>2. transactions \in Seq(Tx)
      BY DEF IInv, Core, ListInv
    <3>3. ToSet(transactions') = ToSet(transactions) \cup {t}
      BY <3>1, <3>2, InsertTxIs
    <3>4. QED
      BY <3>3
  <2>3. CASE ~ContainsTx(allTx, count, t)
    BY <2>1, <2>3 DEF RegisterTransaction
  <2>4. QED
    BY <2>2, <2>3
<1>2. CASE ~\E t \in Tx : RegisterTransaction(t)
  <2>1. transactions' = transactions
    BY <1>2 DEF Next, ManagerCall, RemoveTransaction, MarkTransaction, NewBlock, Reorg, UpdateStep,
               UpdateTransactions, SetTxUnconfirmedAfter, GenerateAddrs, Tick, vars
  <2>2. QED
    BY <2>1
<1>3. QED
  BY <1>1, <1>2

\* A removal takes out unconfirmed transactions only: the one it was called for and
\* those that descend from it.
THEOREM RemovalIsContained == Spec => RemovesOnlyDependents
<1> DEFINE Contained ==
      \A t \in ToSet(transactions) \ ToSet(transactions') :
        /\ calls # <<>> /\ Head(calls) = <<"remove", t>>
        /\ height[t] = Unconfirmed
        /\ t # Last(calls)[2] => \E p \in Parents(t) : <<"remove", p>> \in ToSet(calls)
<1>1. IInv /\ [Next]_vars => [Contained]_vars
  <2> SUFFICES ASSUME IInv, [Next]_vars, NEW t \in ToSet(transactions) \ ToSet(transactions')
               PROVE  /\ calls # <<>> /\ Head(calls) = <<"remove", t>>
                      /\ height[t] = Unconfirmed
                      /\ t # Last(calls)[2] => \E p \in Parents(t) : <<"remove", p>> \in ToSet(calls)
    OBVIOUS
  <2>1. RemoveStep
    BY OthersKeep
  <2> DEFINE c == Head(calls)[2]
  <2>2. calls # <<>> /\ Head(calls)[1] = "remove"
    BY <2>1 DEF RemoveStep
  <2>3. /\ RemoveCalls /\ calls \in Seq({"remove"} \X Tx) /\ 1 \in DOMAIN calls
        /\ Head(calls) = calls[1] /\ calls[1] \in {"remove"} \X Tx /\ c \in Tx /\ Removable(c)
    BY <2>2, RemovesOn
  <2>4. c \in allTx /\ Dependents(c) = <<>> /\ TakeOut(c)
    BY <2>1 DEF RemoveStep
  <2>5. UNCHANGED <<height, timestamp, blockHeight, count, now>> /\ Core
    BY <2>1 DEF RemoveStep, IInv
  <2>6. ToSet(transactions') = ToSet(transactions) \ {c}
    BY <2>3, <2>4, <2>5, TakeOutOK, WalletAssumption
  <2>7. t = c
    BY <2>6
  <2>8. Head(calls) = <<"remove", t>> /\ height[t] = Unconfirmed
    BY <2>3, <2>7 DEF Removable
  <2>9. ASSUME t # Last(calls)[2] PROVE \E p \in Parents(t) : <<"remove", p>> \in ToSet(calls)
    <3> DEFINE T == {"remove"} \X Tx
    <3>1. calls \in Seq(T) /\ \A x \in T : x = <<"remove", x[2]>>
      BY <2>3
    <3> HIDE DEF T
    <3>2. /\ Len(calls) \in Nat /\ DOMAIN calls = 1 .. Len(calls) /\ Last(calls) = calls[Len(calls)]
          /\ \A i \in DOMAIN calls : calls[i] \in T
      BY <3>1 DEF Last
    <3>3. calls[1][2] = t /\ Awaited(calls)
      BY <2>3, <2>7 DEF RemoveCalls
    <3>4. PICK j \in 1 + 1 .. Len(calls) : Spends(t, calls[j][2])
      BY <2>3, <2>9, <3>2, <3>3 DEF Awaited
    <3>5. j \in DOMAIN calls
      BY <3>2
    <3>6. calls[j] = <<"remove", calls[j][2]>> /\ calls[j] \in ToSet(calls)
      BY <3>1, <3>2, <3>5 DEF ToSet
    <3>7. QED
      BY <3>4, <3>6 DEF Spends
  <2>10. QED
    BY <2>2, <2>8, <2>9
<1>2. QED
  BY <1>1, Invariance, PTL DEF Spec, RemovesOnlyDependents


=============================================================================
