SPECIFICATION Spec
CONSTANTS
  Callers = {d1, d2, d3}
  Keys = {k1}
  Gates = {g1, g2, g3}
  NoCaller = NoCaller
  NoGate = NoGate
  NoKey = NoKey
  Kinds = {"file", "directory"}
  Previous = {"nothing", "file", "directory"}
  Faults = TRUE
  MaxCrashes = 1
CHECK_DEADLOCK FALSE
SYMMETRY Symmetry
INVARIANTS
  SuccessStays
  ReplaceInv
PROPERTY FilesNeverVanish
