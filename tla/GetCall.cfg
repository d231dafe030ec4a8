SPECIFICATION FairSpec
CONSTANTS
  NoCall = NoCall
  Calls = {c1}
  GatewayCount = 3
CHECK_DEADLOCK FALSE
INVARIANTS
  UnverifiedIsLastResort
  GetInv
PROPERTIES
  NothingBeginsToPublish
  GetReturns
