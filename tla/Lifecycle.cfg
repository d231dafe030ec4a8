SPECIFICATION FairSpec
CONSTANTS
  Calls = {c1, c2, c3}
  Nodes = {n1, n2}
  Timers = {t1, t2}
  IdleTimeout = 1
  NoNode = NoNode
  NoCall = NoCall
  NoTimer = NoTimer
INVARIANTS
  NodeInUseRuns
  IInv
PROPERTIES
  ImplementsSharedNode
  WaitersWake
  IdleNodeIsClosed
  CloseFreesNodes
