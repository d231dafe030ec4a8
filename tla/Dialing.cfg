SPECIFICATION FairSpec
CONSTANTS
  Peers = {p1, p2}
  Gateways = {w1}
  HasIndexer = FALSE
  Rounds = {r1, r2}
INVARIANTS
  FailureIsProvable
  DialingInv
PROPERTIES
  StartDecides
  WarmNodeRecovers
