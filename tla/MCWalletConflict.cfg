SPECIFICATION Spec
CONSTANTS
  Tx <- MCTxChain
  Ins <- MCIns
  Outs <- MCOuts
  LockTime <- MCLockTime
  FinalSequence = {}
  Oversize = {}
  MaxLockHeight = 50
  LockWindow = 2
  Unconfirmed = 31
  UIntMod = 64
  GapLimit <- MCGap
  SpareAddrs = 1
  Saved <- MCSaved
  MaxHeight = 2
  MaxReorgDepth = 1
  MaxReorgs = 1
  MaxTime = 0
INVARIANTS
  BalanceExcludesInvalid
