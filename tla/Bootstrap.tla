----------------------------- MODULE Bootstrap -----------------------------
(* How a cluster comes into being: the race for the initialize key, initdb  *)
(* or a custom method, post_bootstrap, the cancellation of a failed         *)
(* attempt, and the nodes that copy the leader or already have data.        *)
EXTENDS Naturals, FiniteSets

CONSTANTS
  Nodes, None,
  MaxFaults,  \* bound: failures of bootstrap, of copies and of leaders
  Mixed       \* nodes with data may meet nodes that bootstrap a new system

VARIABLES
  key,  \* init: the initialize key, "absent", "" or a system; leader: of the
        \* leader key
  node, \* of each: step; data: None or the system in its data directory;
        \* init and leader: what it has read
  faults

bootVars == <<key, node, faults>>

Old == "old"   \* the system of data directories that exist from the start

(* Empty data directories everywhere, or an existing cluster that Patroni   *)
(* takes over.                                                              *)
BootInit ==
  /\ key = [init |-> "absent", leader |-> None] /\ faults = 0
  /\ \E have \in {{}, Nodes} \cup (IF Mixed THEN SUBSET Nodes ELSE {}) :
       node = [n \in Nodes |-> [step |-> "idle", data |-> IF n \in have THEN Old ELSE None,
                                init |-> "absent", leader |-> None]]

Valid(init) == init \notin {"absent", ""}
Goto(n, step) == node' = [node EXCEPT ![n].step = step]
Fault == faults < MaxFaults /\ faults' = faults + 1

(* A cycle begins with load_cluster_from_dcs().                             *)
LoadCluster(n) ==
  /\ node[n].step \in {"idle", "member", "initialized", "recovery"}
  /\ node' = [node EXCEPT ![n].init = key.init, ![n].leader = key.leader,
                ![n].step = CASE @ = "initialized" -> "post" [] @ = "recovery" -> "check" [] OTHER -> "loaded"]
  /\ UNCHANGED <<key, faults>>

(* initialize(create_new, sysid): the key must be absent, or there.         *)
Initialize(createNew, value) ==
  IF createNew = (key.init = "absent") THEN [key EXCEPT !.init = value] ELSE key

-----------------------------------------------------------------------------
(* Mutant of Bootstrap_: the node goes on although somebody was faster.     *)
BootstrapAnyway(n) ==
  /\ node[n].step = "loaded" /\ node[n].data = None
  /\ node[n].leader = None /\ node[n].init = "absent"
  /\ key' = Initialize(TRUE, "")
  /\ Goto(n, "bootstrap") /\ UNCHANGED faults

(* bootstrap() of a node with an empty data directory.                      *)
Bootstrap_(n) ==
  /\ node[n].step = "loaded" /\ node[n].data = None
  /\ node[n].leader = None /\ node[n].init = "absent"
  /\ key' = Initialize(TRUE, "")
  /\ Goto(n, IF key.init = "absent" THEN "bootstrap" ELSE "idle") /\ UNCHANGED faults

(* bootstrap() in the executor: initdb or the custom method, then start();  *)
(* a custom method leaves PostgreSQL in recovery.                           *)
RunBootstrap(n) ==
  /\ node[n].step = "bootstrap"
  /\ \E custom \in BOOLEAN :
       node' = [node EXCEPT ![n].data = n, ![n].step = IF custom THEN "recovery" ELSE "initialized"]
  /\ UNCHANGED <<key, faults>>

BootstrapFails(n) ==
  /\ node[n].step \in {"bootstrap", "initialized"} /\ Fault
  /\ Goto(n, "cancel") /\ UNCHANGED key

(* post_bootstrap() of the HA loop: waits for the end of recovery, runs the *)
(* script and creates the users, then arms the watchdog.                    *)
EndOfRecovery(n) ==
  /\ node[n].step = "check" /\ Goto(n, "initialized") /\ UNCHANGED <<key, faults>>

PostBootstrap(n) ==
  /\ node[n].step = "post"
  /\ \/ Goto(n, "register") /\ UNCHANGED faults
     \/ Fault /\ Goto(n, "cancel")
  /\ UNCHANGED key

(* The key gets the system identifier; then the leader key is written       *)
(* without a condition.                                                     *)
Register(n) ==
  /\ node[n].step = "register"
  /\ key' = Initialize(node[n].init = "absent", node[n].data)
  /\ Goto(n, "take") /\ UNCHANGED faults

TakeLeader(n) ==
  /\ node[n].step = "take" /\ key' = [key EXCEPT !.leader = n]
  /\ Goto(n, "member") /\ UNCHANGED faults

(* Mutant of CancelInitialization: the key is left behind.                  *)
CancelNothing(n) ==
  /\ node[n].step = "cancel" /\ Goto(n, "move") /\ UNCHANGED <<key, faults>>

(* cancel_initialization(): the key is deleted, whatever it says; then      *)
(* PostgreSQL is stopped, the data directory moved away, and Patroni exits  *)
(* (to be started again).                                                   *)
CancelInitialization(n) ==
  /\ node[n].step = "cancel" /\ key' = [key EXCEPT !.init = "absent"]
  /\ Goto(n, "move") /\ UNCHANGED faults

MoveDataDirectory(n) ==
  /\ node[n].step = "move"
  /\ node' = [node EXCEPT ![n].data = None, ![n].step = "idle"] /\ UNCHANGED <<key, faults>>

-----------------------------------------------------------------------------
(* There is a leader: the data is copied from it or from a replica that     *)
(* allows it.                                                               *)
CloneFrom(n) == {m \in Nodes \ {n} : m = node[n].leader \/ node[m].step = "member"}

CreateReplica(n) ==
  /\ node[n].step = "loaded" /\ node[n].data = None /\ node[n].leader \notin {None, n}
  /\ \E m \in CloneFrom(n) :
       node' = [node EXCEPT ![n].data = node[m].data, ![n].step = "member"]
  /\ UNCHANGED <<key, faults>>

CreateReplicaFails(n) ==
  /\ node[n].step = "loaded" /\ node[n].data = None /\ node[n].leader \notin {None, n}
  /\ Fault /\ Goto(n, "idle") /\ UNCHANGED key

(* No leader, and somebody has the initialize key.                          *)
WaitForLeader(n) ==
  /\ node[n].step = "loaded" /\ node[n].data = None
  /\ node[n].leader = None /\ node[n].init # "absent"
  /\ Goto(n, "idle") /\ UNCHANGED <<key, faults>>

(* A node with data: it must belong to the system of the key, which it      *)
(* writes if there is none and no leader.                                   *)
Join(n) ==
  /\ node[n].step = "loaded" /\ node[n].data # None
  /\ IF Valid(node[n].init)
     THEN Goto(n, IF node[n].init = node[n].data THEN "join" ELSE "exited") /\ UNCHANGED key
     ELSE /\ Goto(n, "join")
          /\ key' = IF node[n].leader = None THEN Initialize(node[n].init = "absent", node[n].data) ELSE key
  /\ UNCHANGED faults

AttemptToAcquireLeader(n) ==
  /\ node[n].step = "join" /\ Goto(n, "member")
  /\ key' = IF key.leader = None THEN [key EXCEPT !.leader = n] ELSE key
  /\ UNCHANGED faults

LeaderExpires ==
  /\ key.leader # None /\ Fault /\ key' = [key EXCEPT !.leader = None] /\ UNCHANGED node

BootStep(n) ==
  \/ LoadCluster(n) \/ Bootstrap_(n) \/ RunBootstrap(n) \/ EndOfRecovery(n) \/ PostBootstrap(n)
  \/ Register(n) \/ TakeLeader(n) \/ CancelInitialization(n) \/ MoveDataDirectory(n)
  \/ CreateReplica(n) \/ WaitForLeader(n) \/ Join(n) \/ AttemptToAcquireLeader(n)

BootNext ==
  \/ \E n \in Nodes : BootStep(n) \/ BootstrapFails(n) \/ CreateReplicaFails(n)
  \/ LeaderExpires

BootSpec == BootInit /\ [][BootNext]_bootVars

-----------------------------------------------------------------------------
(* All nodes that take part in the cluster have the data of one system, the *)
(* one the initialize key names: no two nodes are initialized separately.   *)
Member(n) == node[n].step \in {"member", "join", "take"}
OneSystem ==
  /\ \A m, n \in Nodes : Member(m) /\ Member(n) => node[m].data = node[n].data
  /\ \A n \in Nodes : key.leader = n /\ Valid(key.init) => node[n].data = key.init

(* The cluster gets a leader, also when an attempt to bootstrap it fails.   *)
GetsLeader == <>[](key.leader # None)
=============================================================================
