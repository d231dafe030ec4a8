SPECIFICATION LockFairSpec
CONSTANTS
  Callers = {d1, d2, d3}
  Keys = {k1, k2}
  Gates = {g1, g2, g3}
  NoCaller = NoCaller
  NoGate = NoGate
  NoKey = NoKey
INVARIANTS
  FreePathIsOpen
  LInv
PROPERTIES
  ImplementsPathMutex
  LockIsGranted
