---------------------------- MODULE MCBackends ----------------------------
(* Every DCS implementation for TLC, each on its own: backend says which    *)
(* one a behaviour is about.                                                *)
EXTENDS Naturals, Sequences, FiniteSets, TLC

CONSTANTS Nodes, None, Machines, Hosts,
  Backends,       \* the implementations that are checked
  TTL, LoopWait,
  StaleCache,     \* Etcd v3: the cache may be read while the watch lags behind
  TrustRelock,    \* Consul: update_leader() does not look at its answers
  StaleRecreate,  \* ZooKeeper: the key may change before it is recreated
  FirstVersion,   \* ZooKeeper: version /sync begins with
  Skew,           \* Raft: between the clocks of the nodes
  MaxSync, MaxVersions, MaxLate, MaxTerm, MaxLease, MaxSession, MaxIndex, MaxRev, MaxStamp, MaxFlight

VARIABLES server, client, net, backend

vars == <<server, client, net, backend>>

E2 == INSTANCE Etcd
EC == INSTANCE EtcdClient
E3 == INSTANCE Etcd3
CO == INSTANCE Consul
ZK == INSTANCE ZooKeeper WITH MaxSync <- MaxVersions
RA == INSTANCE Raft
KU == INSTANCE Kubernetes

Init ==
  /\ backend \in Backends
  /\ \/ backend = "etcd" /\ E2!Init
     \/ backend = "client" /\ EC!Init
     \/ backend = "etcd3" /\ E3!Init
     \/ backend = "consul" /\ CO!Init
     \/ backend = "zookeeper" /\ ZK!Init
     \/ backend = "raft" /\ RA!Init
     \/ backend = "kubernetes" /\ KU!Init

Next ==
  /\ \/ backend = "etcd" /\ E2!Next
     \/ backend = "client" /\ EC!Next
     \/ backend = "etcd3" /\ E3!Next
     \/ backend = "consul" /\ CO!Next
     \/ backend = "zookeeper" /\ ZK!Next
     \/ backend = "raft" /\ RA!Next
     \/ backend = "kubernetes" /\ KU!Next
  /\ UNCHANGED backend

Spec == Init /\ [][Next]_vars

Owner ==
  CASE backend = "etcd" -> E2!Owner [] backend = "etcd3" -> E3!Owner [] backend = "consul" -> CO!Owner
    [] backend = "zookeeper" -> ZK!Owner [] backend = "raft" -> RA!Owner [] backend = "kubernetes" -> KU!Owner
    [] OTHER -> None

Sure ==
  CASE backend = "etcd" -> E2!Sure [] backend = "etcd3" -> E3!Sure [] backend = "consul" -> CO!Sure
    [] backend = "zookeeper" -> ZK!Sure [] backend = "raft" -> RA!Sure [] backend = "kubernetes" -> KU!Sure
    [] OTHER -> {}

Key == INSTANCE LeaderKey WITH owner <- Owner, sure <- Sure

(* Each implementation of attempt_to_acquire_leader(), update_leader() and  *)
(* delete_leader(), with lost answers, retries, late requests, caches and   *)
(* sessions, implements LeaderKey: the key never passes from one node to    *)
(* another without being free, and is never freed while its holder counts   *)
(* on the last answer.                                                      *)
KeyImplemented == Key!KeySpec

(* A write of /sync that its writer was told succeeded followed the version *)
(* the writer had read (set_sync_state_value(version=...)).                 *)
SyncSerialized ==
  /\ backend = "etcd" => E2!SyncSerialized
  /\ backend = "zookeeper" => ZK!SyncSerialized

(* While nothing else breaks, a client that can reach a member of etcd has  *)
(* at most one call that fails (AbstractEtcdClientWithFailover).            *)
ServedAgain == backend = "client" => EC!ServedAgain

Symmetry == Permutations(Nodes)
=============================================================================
