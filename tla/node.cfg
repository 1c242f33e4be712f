CONSTANTS None = None Nodes = {n1, n2, n3} Hosts = {h1, h2}
CONSTANTS Parts = {"executor", "postgresql", "rewind", "bootstrap", "restarts", "parameters", "recovery conf"}
CONSTANTS ForceReinit = {FALSE} Mixed = FALSE
CONSTANTS MaxTasks = 3 MaxOps = 3 MaxTimeline = 3 MaxLen = 3 MaxDeaths = 1 MaxFaults = 2
CONSTANTS LoopWait = 1 MaxTime = 2 MaxStart = 2
SPECIFICATION Spec
CHECK_DEADLOCK FALSE
INVARIANTS  RoleAnnounced SafepointIsSafe  OneSystem 
PROPERTIES CancelReturns Rejoins GetsLeader  FollowsWanted
