CONSTANTS n1 = n1 n2 = n2 n3 = n3 s1 = s1 s2 = s2 None = None
CONSTANTS Members = {n1, n2, n3} Sites = {s1, s2} MaxLsn = 2 MaxTimeline = 2 MaxCrashes = 2
CONSTANT RaceConfigs <- TimelineChecked
SPECIFICATION RaceSpec
CHECK_DEADLOCK FALSE
INVARIANT DefersToPossibleLeader
