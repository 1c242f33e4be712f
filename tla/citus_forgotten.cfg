CONSTANTS Hosts = {h1, h2, h3} None = None First = h1
CONSTANTS LateJoin = TRUE MaxChanges = 1 MaxEvents = 1 MaxFaults = 1
SPECIFICATION CtSpec
CHECK_DEADLOCK FALSE
PROPERTY EventuallyInSync
