CONSTANTS Nodes = {n1, n2, n3} First = n1 Pair = {n1, n2} Second = n2 None = None Placeholder = Placeholder
CONSTANT Parts = {"failsafe", "member slots", "logical slots", "multisync", "citus", "health", "config"}
CONSTANTS Ttl = 2 Cycle = 1 NodeCount = 1 Strict = {TRUE, FALSE} SlowReload = FALSE SlotsTtl = 1
CONSTANTS MaxTick = 4 MaxLsn = 1 MaxChanges = 2 MaxPos = 3 MaxFaults = 2
CONSTANTS LoopWait = 1 MaxClients = 2 MaxOutages = 1 LateJoin = FALSE
SPECIFICATION Spec
CHECK_DEADLOCK FALSE
INVARIANTS OnePrimary WalRetained CopyIsUsable SyncHasCommits NeverPausedForGood
INVARIANTS  RunsAsWritten SuccessIsApplied
PROPERTIES LeaderSurvives StaleSlotsDropped CommitsGoOn 
PROPERTIES ClusterServed ChangesOnlyItsSetting NodesAgree
