SPECIFICATION Spec
CONSTANTS
  Tx <- MCTx
  Ins <- MCIns
  Outs <- MCOuts
  LockTime <- MCLockTime
  FinalSequence = {}
  Oversize = {}
  MaxLockHeight = 50
  LockWindow = 2
  Unconfirmed = 31
  UIntMod = 64
  GapLimit <- MCGap
  SpareAddrs = 1
  Saved <- MCSaved
  MaxHeight = 3
  MaxReorgDepth = 1
  MaxReorgs = 1
  MaxTime = 0
INVARIANTS
  ConfirmedByChain
