SPECIFICATION DisturbedSpec
CONSTANTS
  Parts = {"settle"}
  N = 3
  MaxLsn = 1
  MaxTimeline = 2
  MinSyncs = {0, 1}
  NodeCounts = {1, 2}
  Events = {"join", "leave", "resize", "restart", "interrupt", "failover"}
INVARIANT QuorumsOverlap
PROPERTY StrictNeverRelaxes
