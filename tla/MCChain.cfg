SPECIFICATION Spec
CONSTANTS
  g0 = g0 a1 = a1 a2 = a2 a3 = a3 a4 = a4 a5 = a5 b3 = b3 b4 = b4 b5 = b5
  x2 = x2
  none = none t1 = t1 t2 = t2 t3 = t3 p = p q = q
  Block = {g0, a1, a2, a3, b3, b4, b5, x2}
  NoBlock = none
  Prev <- MCPrev
  Depth <- MCDepth
  Checkpoint = {g0, a2}
  StartPoint = g0
  Tx = {t1, t2}
  TxOf <- MCTxOf
  BadTarget = {b5}
  Stale = {g0, a1, a2, a3, b3, x2}
  Kawpow = {b5}
  Peer = {p, q}
  PeerHeight <- MCPeerHeight
  PeerLag = 1
  Interval = 2
  DGWStart = 5
  PastBlocks = 2
  Exempt = {}
  RescanHeights = {3}
  MaxRescans = 1
  MaxRestarts = 1
INVARIANTS
  TypeOK
  HeightsCorrect
  CheckpointsKept
  CheckpointsRespected
  OrphansWait
PROPERTIES
  MovesForward
CHECK_DEADLOCK FALSE
