---------------------------- MODULE HealthChecks ----------------------------
(* What the REST API answers to load balancers and probes while the HA loop *)
(* renews, loses and acquires the leader key.  A handler runs in a thread   *)
(* of its own and reads the memory of the loop (dcs.cluster, _leader_expiry,*)
(* state and role) and PostgreSQL at any moment.  Time passes in ticks.     *)
EXTENDS Naturals, FiniteSets, FiniteSetsExt

CONSTANTS
  Nodes, None,
  First,         \* the leader at the beginning
  Sync,          \* the synchronous standbys at the beginning
  NoLoadBalance, \* nodes with the tag noloadbalance
  Ttl, LoopWait,
  SlowAnswers,   \* answers of the DCS may take ticks
  MaxLsn,        \* bound: WAL positions
  MaxFaults      \* bound: changes of who reaches the DCS, PostgreSQL crashes

VARIABLES
  hk,  \* owner and left: of the leader key; lsn: of /status; sync: of /sync;
       \* standby, paused: of /config; reach: nodes that reach the DCS; faults;
       \* calm: the disturbances are over
  hn   \* pg: state; role; lsn: replayed; expiry: time left of _leader_expiry;
       \* sent: update_leader() has no answer yet; promoting; since: ticks since
       \* the last cycle; view: dcs.cluster or None

hcVars == <<hk, hn>>

Forever == LoopWait + 2 * Ttl

HcInit ==
  \E standby, paused \in BOOLEAN :
    /\ ~(standby /\ paused)
    /\ hk = [owner |-> First, left |-> Ttl, lsn |-> 1, sync |-> IF standby THEN {} ELSE Sync,
             standby |-> standby, paused |-> paused, reach |-> Nodes, faults |-> 0, calm |-> FALSE]
    /\ hn = [n \in Nodes |->
              [pg |-> "running", lsn |-> 1, expiry |-> IF n = First THEN Ttl ELSE 0, sent |-> FALSE,
               promoting |-> FALSE, since |-> 0, view |-> [lsn |-> 1],
               role |-> IF n # First THEN "replica" ELSE IF standby THEN "standby_leader" ELSE "primary"]]

-----------------------------------------------------------------------------
(* ha.py: is_leader().                                                      *)
IsLeader(n) == hn[n].expiry > 0

(* dcs.cluster is None once it is older than ttl, and after an error.       *)
ClusterOf(n) == IF hn[n].since < Ttl THEN hn[n].view ELSE None

Sources(n) == {m \in Nodes \ {n} : hn[m].pg = "running" /\ hn[m].role \in {"primary", "standby_leader"}}
Streaming(n) == hn[n].pg = "running" /\ hn[n].role # "primary" /\ (Sources(n) # {} \/ hn[n].role = "standby_leader")

(* latest_end_lsn, as the WAL receiver knows it; 0 without one.             *)
LatestEndLsn(n) ==
  IF Streaming(n) /\ Sources(n) # {} THEN Max({hn[m].lsn : m \in Sources(n)}) ELSE 0

(* get_postgresql_status(): PostgreSQL answers while it is running; the     *)
(* role is the one of pg_is_in_recovery(), except in a standby cluster.     *)
PostgresqlStatus(n) ==
  [state |-> hn[n].pg,
   role  |-> hn[n].role,
   pause |-> hk.paused,
   lsn   |-> IF hn[n].pg = "running" THEN hn[n].lsn ELSE 0,
   end   |-> LatestEndLsn(n),
   sync  |-> hn[n].pg = "running" /\ hn[n].role = "replica" /\ ClusterOf(n) # None /\ n \in hk.sync]

LeaderOptime(n) ==
  Max({PostgresqlStatus(n).end, IF ClusterOf(n) = None THEN 0 ELSE ClusterOf(n).lsn})

(* do_GET(): 200 (TRUE) or 503, for each route.                             *)
ReplicaStatus(n, lag) ==
  LET r == PostgresqlStatus(n) IN
  /\ n \notin NoLoadBalance /\ ~(LeaderOptime(n) > r.lsn + lag)
  /\ r.role = "replica" /\ r.state = "running"

DetachedInPause(n) == ClusterOf(n) = None /\ PostgresqlStatus(n).pause

LeaderStatus(n) ==
  IF DetachedInPause(n) THEN PostgresqlStatus(n).role \in {"primary", "standby_leader"} ELSE IsLeader(n)

PrimaryStatus(n) ==
  IF DetachedInPause(n) THEN PostgresqlStatus(n).role = "primary" ELSE IsLeader(n) /\ ~hk.standby

StandbyLeaderStatus(n) ==
  IF DetachedInPause(n) THEN PostgresqlStatus(n).role = "standby_leader"
  ELSE IsLeader(n) /\ hk.standby /\ PostgresqlStatus(n).role \in {"replica", "standby_leader"}

ReplicaRoute(n, lag) == ReplicaStatus(n, lag) /\ ~(~DetachedInPause(n) /\ IsLeader(n) /\ hk.standby)

ReadOnlyRoute(n) == PrimaryStatus(n) \/ StandbyLeaderStatus(n) \/ ReplicaRoute(n, MaxLsn)
SyncRoute(n) == ClusterOf(n) # None /\ PostgresqlStatus(n).sync /\ ReplicaRoute(n, MaxLsn)
AsyncRoute(n) == ClusterOf(n) # None /\ ~PostgresqlStatus(n).sync /\ ReplicaRoute(n, MaxLsn)
ReadOnlySyncRoute(n) == ClusterOf(n) # None /\ (PrimaryStatus(n) \/ StandbyLeaderStatus(n) \/ SyncRoute(n))
HealthRoute(n) == PostgresqlStatus(n).state = "running"

(* Mutant of LivenessRoute: ttl is not counted.                             *)
LivenessInTime(n) == hk.paused \/ hn[n].since < LoopWait

(* do_GET_liveness(): next_run is the last cycle and loop_wait.             *)
LivenessRoute(n) ==
  LET threshold == IF hn[n].role = "primary" /\ hn[n].pg # "stopped" THEN Ttl ELSE 2 * Ttl IN
  hk.paused \/ hn[n].since < LoopWait + threshold

(* _readiness() with mode=apply.                                            *)
ReadinessRoute(n, lag) ==
  \/ IsLeader(n)
  \/ /\ hn[n].pg = "running" /\ Streaming(n)
     /\ ~(ClusterOf(n) = None /\ LatestEndLsn(n) = 0)
     /\ LeaderOptime(n) <= hn[n].lsn + lag

-----------------------------------------------------------------------------
Holds(n) == hk.owner = n
(* load_cluster_from_dcs(): a node without the lock is not the leader.      *)
Seen(n, h) == [h EXCEPT !.view = [lsn |-> hk.lsn], !.since = 0, !.expiry = IF Holds(n) THEN @ ELSE 0]

(* Mutant of SetIsLeader: no expiry.                                        *)
LeaderForGood(h, value) == [h EXCEPT !.expiry = IF value THEN Forever ELSE 0]
SetIsLeader(h, value) == [h EXCEPT !.expiry = IF value THEN Ttl ELSE 0]

Cycles(n) == n \in hk.reach /\ ~hn[n].sent /\ hn[n].pg \in {"running", "stopped"}

(* The leader's cycle: update_lock() writes the key and /status, a stopped  *)
(* PostgreSQL is started again.                                             *)
UpdateLock(n) ==
  /\ Cycles(n) /\ Holds(n)
  /\ hk' = [hk EXCEPT !.left = Ttl, !.lsn = IF hn[n].pg = "running" THEN hn[n].lsn ELSE @]
  /\ hn' = [hn EXCEPT ![n] = [Seen(n, @) EXCEPT !.sent = TRUE]]

(* Mutant of Answer: only acquire_lock() sets _leader_expiry.               *)
AnswerWithoutExpiry(n) ==
  /\ hn[n].sent /\ n \in hk.reach
  /\ hn' = [hn EXCEPT ![n] = [@ EXCEPT
              !.sent = FALSE,
              !.pg = IF hn[n].pg = "stopped" THEN "starting" ELSE hn[n].pg,
              !.promoting = hn[n].pg = "running" /\ hn[n].role = "replica"]]
  /\ UNCHANGED hk

(* update_lock() got its answer: set_is_leader(); a leader whose PostgreSQL *)
(* is down starts it, one that is not promoted yet promotes.                *)
Answer(n) ==
  /\ hn[n].sent /\ n \in hk.reach
  /\ hn' = [hn EXCEPT ![n] = [SetIsLeader(@, TRUE) EXCEPT
              !.sent = FALSE,
              !.pg = IF hn[n].pg = "stopped" THEN "starting" ELSE hn[n].pg,
              !.promoting = hn[n].pg = "running" /\ hn[n].role = "replica"]]
  /\ UNCHANGED hk

(* A cycle that sees the key gone or in other hands: demote().              *)
Deposed(n) ==
  /\ Cycles(n) /\ ~Holds(n) /\ hn[n].role # "replica" /\ ~(hk.paused /\ hk.owner = None)
  /\ hn' = [hn EXCEPT ![n] = [Seen(n, @) EXCEPT !.pg = "starting", !.role = "replica", !.promoting = FALSE]]
  /\ UNCHANGED hk

(* Without a leader: the node that wins the race; in pause only the one     *)
(* that already is the primary.  The race is modelled in LeaderRace.        *)
AcquireLock(n) ==
  /\ Cycles(n) /\ hk.owner = None /\ hn[n].pg = "running"
  /\ IF hk.paused THEN hn[n].role = "primary" ELSE hn[n].role = "replica"
  /\ \A m \in Nodes : hn[m].pg = "running" => hn[m].lsn <= hn[n].lsn
  /\ hk' = [hk EXCEPT !.owner = n, !.left = Ttl, !.sync = @ \ {n}]
  /\ hn' = [hn EXCEPT ![n] = [SetIsLeader(Seen(n, @), TRUE) EXCEPT !.promoting = hn[n].role = "replica"]]

(* The cycle of a replica; a stopped PostgreSQL is started.                 *)
ReplicaCycle(n) ==
  /\ Cycles(n) /\ ~Holds(n) /\ (hn[n].role = "replica" \/ (hk.paused /\ hk.owner = None))
  /\ hn' = [hn EXCEPT ![n] = [Seen(n, @) EXCEPT
              !.promoting = FALSE, !.pg = IF hn[n].pg = "stopped" /\ ~hk.paused THEN "starting" ELSE hn[n].pg]]
  /\ UNCHANGED hk

(* _handle_dcs_error(): reset_cluster(), and a primary stops: it takes a    *)
(* while, and set_is_leader(False) comes after it.                          *)
HandleDcsError(n) ==
  /\ n \notin hk.reach /\ hn[n].pg \in {"running", "stopped"}
  /\ hn' = [hn EXCEPT ![n] = [@ EXCEPT
              !.view = None, !.since = 0, !.sent = FALSE, !.promoting = FALSE,
              !.pg = IF hn[n].pg = "running" /\ hn[n].role # "replica" /\ ~hk.paused THEN "stopping"
                     ELSE IF hn[n].pg = "stopped" /\ ~hk.paused /\ hn[n].role = "replica" THEN "starting"
                     ELSE hn[n].pg]]
  /\ UNCHANGED hk

StoppedByDemote(n) ==
  /\ hn[n].pg = "stopping"
  /\ hn' = [hn EXCEPT ![n] = [SetIsLeader(@, FALSE) EXCEPT !.pg = "starting", !.role = "replica"]]
  /\ UNCHANGED hk

Started(n) == hn[n].pg = "starting" /\ hn' = [hn EXCEPT ![n].pg = "running"] /\ UNCHANGED hk

Promoted(n) ==
  /\ hn[n].promoting /\ hn[n].pg = "running"
  /\ hn' = [hn EXCEPT ![n].promoting = FALSE, ![n].role = IF hk.standby THEN "standby_leader" ELSE "primary"]
  /\ UNCHANGED hk

-----------------------------------------------------------------------------
Write(n) ==
  /\ hn[n].pg = "running" /\ hn[n].role \in {"primary", "standby_leader"} /\ hn[n].lsn < MaxLsn
  /\ hn' = [hn EXCEPT ![n].lsn = @ + 1] /\ UNCHANGED hk

Replay(n) ==
  /\ hn[n].role = "replica" /\ Streaming(n) /\ hn[n].lsn < LatestEndLsn(n)
  /\ hn' = [hn EXCEPT ![n].lsn = @ + 1] /\ UNCHANGED hk

Fault ==
  /\ hk.faults < MaxFaults
  /\ \E n \in Nodes :
       \/ /\ hk' = [hk EXCEPT !.faults = @ + 1, !.reach = IF n \in @ THEN @ \ {n} ELSE @ \cup {n}]
          /\ UNCHANGED hn
       \/ /\ hn[n].pg = "running" /\ ~hk.paused
          /\ hn' = [hn EXCEPT ![n].pg = "stopped", ![n].promoting = FALSE]
          /\ hk' = [hk EXCEPT !.faults = @ + 1]

(* The disturbances end: from now on cycles are in time.                    *)
Heal == ~hk.calm /\ hk' = [hk EXCEPT !.calm = TRUE, !.reach = Nodes, !.faults = MaxFaults] /\ UNCHANGED hn

Tick ==
  /\ SlowAnswers \/ \A n \in Nodes : ~hn[n].sent
  /\ hk.calm => \A n \in Nodes : hn[n].since < LoopWait
  /\ hk' = [hk EXCEPT !.left = Max({1, @}) - 1, !.owner = IF hk.left <= 1 THEN None ELSE @]
  /\ hn' = [n \in Nodes |-> [hn[n] EXCEPT !.expiry = Max({1, @}) - 1, !.since = Min({@ + 1, Forever})]]

HcNode(n) ==
  \/ UpdateLock(n) \/ Answer(n) \/ Deposed(n) \/ AcquireLock(n) \/ ReplicaCycle(n)
  \/ HandleDcsError(n) \/ StoppedByDemote(n) \/ Started(n) \/ Promoted(n)

HcNext == \/ \E n \in Nodes : HcNode(n) \/ Write(n) \/ Replay(n)
          \/ Fault \/ Heal \/ Tick

-----------------------------------------------------------------------------
(* At most one node answers 200 on /primary, and at most one on             *)
(* /standby-leader: a load balancer never splits the writes, although each  *)
(* node answers from its memory.                                            *)
OnePrimaryAnswers ==
  \A m, n \in Nodes :
    (PrimaryStatus(m) /\ PrimaryStatus(n)) \/ (StandbyLeaderStatus(m) /\ StandbyLeaderStatus(n)) => m = n

(* api.py, do_GET_liveness(): on the primary the liveness probe fails only  *)
(* after the leader key expired.                                            *)
ProbeFailsAfterExpiry == \A n \in Nodes : hn[n].role = "primary" /\ ~LivenessRoute(n) => hk.owner # n

(* No answer makes others act on a leader that is not one.                  *)
AnswersAreTrue == OnePrimaryAnswers /\ ProbeFailsAfterExpiry

(* The cluster is served: one node takes the writes and is a primary, every *)
(* other one takes reads unless tagged noloadbalance, under /sync or under  *)
(* /async, and every node is live, healthy and ready.                       *)
Served ==
  /\ \A n \in Nodes : LivenessRoute(n) /\ HealthRoute(n) /\ ReadinessRoute(n, 0)
  /\ \E l \in Nodes :
       /\ LeaderStatus(l) /\ hn[l].role = (IF hk.standby THEN "standby_leader" ELSE "primary")
       /\ IF hk.standby THEN StandbyLeaderStatus(l) ELSE PrimaryStatus(l)
       /\ ReadOnlyRoute(l) /\ ReadOnlySyncRoute(l)
       /\ \A n \in Nodes \ ({l} \cup NoLoadBalance) :
            ReadOnlyRoute(n) /\ ReplicaRoute(n, 0) /\ ~LeaderStatus(n) /\ (SyncRoute(n) # AsyncRoute(n))
=============================================================================
