CONSTANTS
  w1 = w1
  w2 = w2
  Workers = {w1, w2}
  Captures <- MCCaptures
  MaxFlows = 1
  Exports = 1
  Clients = {c1, c2}
  Chunks = 2

SPECIFICATION MCSpec

CHECK_DEADLOCK FALSE

INVARIANTS
  SnapshotsComplete

PROPERTIES
  FinalSnapshotServed
