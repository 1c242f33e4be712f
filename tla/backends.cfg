CONSTANT None = None
CONSTANTS Nodes = {a, b} Machines = {a, b, c} Hosts = {a, b}
CONSTANTS Backends = {"etcd", "client", "etcd3", "consul", "zookeeper", "raft", "kubernetes"}
CONSTANTS StaleCache = FALSE TrustRelock = FALSE StaleRecreate = FALSE FirstVersion = 1 Skew = 0
CONSTANTS TTL = 2 LoopWait = 1 MaxSync = 1 MaxVersions = 2 MaxLate = 1 MaxTerm = 2 MaxLease = 2 MaxSession = 2
CONSTANTS MaxIndex = 4 MaxRev = 3 MaxStamp = 4 MaxFlight = 1
SPECIFICATION Spec
SYMMETRY Symmetry
CHECK_DEADLOCK FALSE
INVARIANTS  ServedAgain
 
