SPECIFICATION Spec
CONSTANTS
  Nodes = {n1, n2}
  Peers = {a1, a2, a3, a4}
  Configured = {a1}
  Books = {{"dialable", "private"}, {"private", "named"}}
  MaxPeers = 2
  Lifetime = 1
  NoFile = NoFile
  MaxCrashes = 1
SYMMETRY Symmetry
INVARIANTS
  ReadersSeeWhole
  SnapshotInv
PROPERTY SnapshotIsKept
