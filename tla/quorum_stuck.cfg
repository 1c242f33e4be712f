SPECIFICATION LiveSpec
CONSTANTS
  Parts = {"settle"}
  N = 4
  MaxLsn = 0
  MaxTimeline = 1
  MinSyncs = {0}
  NodeCounts = {2}
  Events = {"join", "leave", "interrupt"}
PROPERTY Converges
