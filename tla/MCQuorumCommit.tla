---------------------------- MODULE MCQuorumCommit ----------------------------
(* QuorumCommit on three instances, one behaviour being about one of them:  *)
(* "settle", the constants of the configuration with an environment that    *)
(* falls silent at some point; "growth", four nodes that join a primary;    *)
(* "failover", three nodes and another primary.  DisturbedSpec has one      *)
(* instance, in which everything happens and nobody commits.                *)
EXTENDS QuorumCommit

CONSTANT Parts  \* the instances that are checked

VARIABLES
  part,    \* which instance
  quiet,   \* the environment has fallen silent
  beat     \* flips with every step of the HA loop

live == <<vars, part, quiet, beat>>

Growth == INSTANCE QuorumCommit WITH N <- 4, MaxLsn <- 2, MaxTimeline <- 1, MinSyncs <- {0},
                                     NodeCounts <- {1, 2}, Events <- {"join", "interrupt", "restart"}
Failing == INSTANCE QuorumCommit WITH N <- 3, MaxLsn <- 1, MaxTimeline <- 2, MinSyncs <- {0},
                                      NodeCounts <- {1, 2}, Events <- {"join", "interrupt", "failover"}

Settle == part = "settle" /\ ~quiet /\ quiet' = TRUE /\ UNCHANGED <<vars, part, beat>>

LiveInit ==
  /\ part \in Parts /\ quiet = FALSE /\ beat = FALSE
  /\ \/ part = "settle" /\ Init
     \/ part = "growth" /\ Growth!Init
     \/ part = "failover" /\ Failing!Init

LiveNext ==
  \/ part = "settle" /\ System /\ beat' = ~beat /\ UNCHANGED <<part, quiet>>
  \/ part = "settle" /\ Database /\ UNCHANGED <<part, quiet, beat>>
  \/ part = "settle" /\ ~quiet /\ Environment /\ UNCHANGED <<part, quiet, beat>>
  \/ part = "growth" /\ Growth!Next /\ UNCHANGED <<part, quiet, beat>>
  \/ part = "failover" /\ Failing!Next /\ UNCHANGED <<part, quiet, beat>>
  \/ Settle

(* The HA loop runs every loop_wait seconds, and connected standbys stream. *)
LiveSpec ==
  /\ LiveInit /\ [][LiveNext]_live
  /\ part = "settle" => []<><<beat' # beat>>_beat
  /\ WF_live(part = "settle" /\ (\E n \in Nodes : Replicate(n)) /\ UNCHANGED <<part, quiet, beat>>)

(* An environment that never falls silent.  No commit is acknowledged: the   *)
(* protocol does not look at the acknowledged ones.                         *)
DisturbedNext ==
  \/ System /\ UNCHANGED <<part, quiet, beat>>
  \/ Environment /\ UNCHANGED <<part, quiet, beat>>
  \/ (Write \/ \E n \in Nodes : Replicate(n)) /\ UNCHANGED <<part, quiet, beat>>

DisturbedInit == Init /\ part \in Parts /\ quiet = FALSE /\ beat = FALSE

DisturbedSpec == DisturbedInit /\ [][DisturbedNext]_live

(* quorum.py: the changes "take the system to this desired state from any   *)
(* other arbitrary state given arbitrary changes is node availability,      *)
(* configuration and interrupted transitions".                              *)
Converges == <>[](quiet => Desired)

(* The resolver ends without an error whatever disturbed it, no failover    *)
(* being among it.                                                          *)
NeverFails == part = "settle" => ResolverNeverFails

(* docs/replication_modes.rst, on voters that "can achieve quorum", while a *)
(* cluster grows to four nodes.                                             *)
LatestCommitKept == part = "growth" => Growth!QuorumHasLatestCommit
=============================================================================
