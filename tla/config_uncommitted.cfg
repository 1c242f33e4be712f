CONSTANTS Nodes = {n1, n2} Leader = n1 None = None
CONSTANTS Nested = TRUE MaxClients = 2 MaxFaults = 1
SPECIFICATION DcSpec
CHECK_DEADLOCK FALSE
INVARIANT AppliesWhatWasWritten
