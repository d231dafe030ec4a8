SPECIFICATION Spec
CONSTANTS
  h1 = h1
  h2 = h2
  Calls = {c1, c2}
  GatewayHosts <- ThreeGateways
  PrimaryTimeout = 2
  StepTimeout = 1
  MaxBackoff = 2
  DefaultBackoff = 1
  Second = 2
  DurationRange = 16
  RetryAfters = {3, 5}
  Budgets = {0, 2}
  MaxTime = 6
CHECK_DEADLOCK FALSE
SYMMETRY Symmetry

  
  
PROPERTIES
  OnlyUnderWayIntrude
  EveryGatewayHasItsTurn
