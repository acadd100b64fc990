SPECIFICATION Spec
CONSTANTS
  g0 = g0 a1 = a1 a2 = a2 a3 = a3 a4 = a4 a5 = a5 b3 = b3 b4 = b4 b5 = b5
  x2 = x2
  none = none t1 = t1 t2 = t2 t3 = t3 p = p q = q
  Block = {a1, a2, a3, a4, a5, b3, b4}
  NoBlock = none
  Prev <- MCPrev
  Depth <- MCDepth
  Checkpoint = {a1}
  StartPoint = a1
  Tx = {t1, t2, t3}
  TxOf <- MCTxOfDGW
  BadTarget = {}
  Stale = {a1, a2}
  Kawpow = {b4}
  Peer = {p, q}
  PeerHeight <- MCPeerHeightLow
  PeerLag = 1
  Interval = 2
  DGWStart = 1
  PastBlocks = 2
  Exempt = {}
  RescanHeights = {}
  MaxRescans = 1
  MaxRestarts = 1
INVARIANTS
  SavedFromTransition
  ConfirmedOnMain
CHECK_DEADLOCK FALSE
