SPECIFICATION LiveSpec
CONSTANTS
  Parts = {"settle", "growth", "failover"}
  N = 3
  MaxLsn = 1
  MaxTimeline = 1
  MinSyncs = {0}
  NodeCounts = {1, 2}
  Events = {"join", "leave", "resize", "restart", "interrupt"}
INVARIANTS NeverFails LatestCommitKept
PROPERTIES CommitsAreDurable Converges
