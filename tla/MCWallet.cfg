SPECIFICATION Spec
CONSTANTS
  Tx <- MCTxChain
  Ins <- MCIns
  Outs <- MCOuts
  LockTime <- MCLockTime
  FinalSequence = {}
  Oversize = {}
  MaxLockHeight = 50
  LockWindow = 2
  Unconfirmed = 31
  UIntMod = 64
  GapLimit <- MCGap
  SpareAddrs = 0
  Saved <- MCSavedTorn
  MaxHeight = 2
  MaxReorgDepth = 1
  MaxReorgs = 1
  MaxTime = 1
INVARIANTS
  TypeOK
  BalanceIsUtxoSum
  HistoryMatches
  NoDoubleCount
  ConfirmedIsCounted
  UtxosUnspent
  NoDanglingTx
  LedgerFresh
  ValidityAgrees
PROPERTIES
  RemovesOnlyDependents
  CallsReturn
