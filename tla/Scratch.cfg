SPECIFICATION FairSpec
CONSTANTS
  Downloads = {d1, d2}
  Processes = {p1, p2}
  Spellings = {given}
  Scratches = {s1, s2, s3}
  NoScratch = NoScratch
  StaleAfter = 2
  Suspends = FALSE
  MaxCrashes = 1
INVARIANTS
  YoungStagingIsThere
  ScratchInv
PROPERTIES
  
  LeftoversAreSwept
