------------------------------ MODULE LeaderLease ------------------------------
(***************************************************************************)
(* The leader key: how the HA loops of several nodes take, keep and lose   *)
(* it, promote and demote PostgreSQL accordingly, and what the watchdog    *)
(* device adds (patroni/ha.py, patroni/watchdog/base.py).                  *)
(*                                                                         *)
(* Time is discrete.  A process may stop running between any two of its    *)
(* steps for any time; only the watchdog bounds that.  The key carries its *)
(* remaining TTL, the device the time left before it resets the machine.   *)
(* The cluster is not paused, is not a standby cluster, and failsafe_mode  *)
(* is off.                                                                 *)
(***************************************************************************)
EXTENDS Integers

CONSTANTS
  Nodes,
  None,          \* no leader
  TTL,           \* ttl
  Timeout,       \* WatchdogConfig.timeout: ttl - safety_margin, or ttl // 2
  HasWatchdog,   \* mode required with a device, or no device and mode not required
  RenewBound,    \* longest delay from renewing the key to the keepalive
  AcquireBound   \* longest delay from writing the key to activating the watchdog

ASSUME LeaseAssumption ==
  /\ None \notin Nodes
  /\ TTL \in Nat \ {0} /\ Timeout \in 1..TTL
  /\ HasWatchdog \in BOOLEAN
  /\ RenewBound \in Nat \ {0} /\ AcquireBound \in Nat \ {0}

VARIABLES
  owner,   \* the node in the leader key
  left,    \* how long the key still lives
  pc,      \* where the HA loop of each node is
  view,    \* the leader it loaded at the start of the cycle
  pg,      \* PostgreSQL and the asynchronous task that works on it
  how,     \* the kind of demote() that is running
  dog,     \* time left on the watchdog device, 0 when it is not armed
  armed    \* Watchdog.is_running of the Patroni process

vars == <<owner, left, pc, view, pg, how, dog, armed>>

(* idle: between cycles; loaded: knows the cluster; updated: has renewed   *)
(* the key; held: the same during a long action; enforce: in               *)
(* enforce_primary_role(); demoting: in demote().                          *)
Steps == {"idle", "loaded", "updated", "held", "enforce", "demoting", "crashed"}

(* scheduled: promote was scheduled and can be cancelled; failed: its      *)
(* pre_promote script failed; committed: past the point of no return;      *)
(* stopping: shutting down as primary; stopped: before the key is released.*)
Postgres == {"replica", "scheduled", "failed", "committed", "primary", "stopping",
             "stopped"}

Init ==
  /\ owner = None /\ left = 0
  /\ pc = [n \in Nodes |-> "idle"]
  /\ view = [n \in Nodes |-> None]
  /\ pg = [n \in Nodes |-> "replica"]
  /\ how = [n \in Nodes |-> "nolock"]
  /\ dog = [n \in Nodes |-> 0]
  /\ armed = [n \in Nodes |-> FALSE]

-----------------------------------------------------------------------------
(* The steps of a cycle *)

(* PostgreSQL may acknowledge commits. *)
Accepts(n) == pg[n] \in {"primary", "stopping"}

(* AsyncExecutor.busy *)
Busy(n) == pg[n] \in {"scheduled", "committed", "stopping", "stopped"}

Goto(n, step) == pc' = [pc EXCEPT ![n] = step] /\ view' = [view EXCEPT ![n] = None]

(* demote() up to the signal to PostgreSQL, called from the HA loop.  The  *)
(* graceful one may be running in the background, and goes on.             *)
Demote(n, mode) ==
  /\ pg' = [pg EXCEPT ![n] = "stopping"]
  /\ how' = [how EXCEPT ![n] = IF pg[n] = "stopping" THEN @ ELSE mode]
  /\ Goto(n, "demoting")

DemoteIfPrimary(n) ==
  IF Accepts(n) THEN Demote(n, "nolock")
  ELSE Goto(n, "idle") /\ UNCHANGED <<pg, how>>

(* _handle_dcs_error() *)
HandleDcsError(n) == DemoteIfPrimary(n)

(* Mutant of DeleteKey: without the comparison with the own name. *)
DeleteAnyKey(n) == owner' = None /\ left' = 0

(* A write of the key by n, one whose answer is an error, and a deletion,  *)
(* which only removes the node's own key and whose failure is not noticed. *)
WriteKey(n) == owner' = n /\ left' = TTL
MaybeWriteKey(n, allowed) == (allowed /\ WriteKey(n)) \/ UNCHANGED <<owner, left>>
DeleteKey(n) ==
  \/ owner = n /\ owner' = None /\ left' = 0
  \/ UNCHANGED <<owner, left>>

(* load_cluster_from_dcs() *)
LoadCluster(n) ==
  /\ pc[n] = "idle"
  /\ pc' = [pc EXCEPT ![n] = "loaded"]
  /\ view' = [view EXCEPT ![n] = owner]
  /\ UNCHANGED <<owner, left, pg, how, dog, armed>>

LoadClusterFails(n) ==
  /\ pc[n] = "idle"
  /\ HandleDcsError(n)
  /\ UNCHANGED <<owner, left, dog, armed>>

(* update_lock(): the key is renewed, or created again when it expired. *)
Renewable(n) == owner \in {n, None}

UpdateLock(n) ==
  /\ pc[n] = "loaded" /\ view[n] = n
  /\ Renewable(n)
  /\ WriteKey(n)
  /\ Goto(n, IF Busy(n) THEN "held" ELSE "updated")
  /\ UNCHANGED <<pg, how, dog, armed>>

UpdateLockError(n) ==
  /\ pc[n] = "loaded" /\ view[n] = n
  /\ MaybeWriteKey(n, Renewable(n))
  /\ HandleDcsError(n)
  /\ UNCHANGED <<dog, armed>>

(* ... and the end of update_lock(): Watchdog.keepalive(). *)
Ping(n) == dog' = [dog EXCEPT ![n] = IF armed[n] THEN Timeout ELSE @]

Keepalive(n) ==
  /\ pc[n] \in {"updated", "held"}
  /\ Ping(n)
  /\ Goto(n, IF pc[n] = "held" THEN "idle" ELSE "enforce")
  /\ UNCHANGED <<owner, left, pg, how, armed>>

(* Mutant of Switchover: the key is released before PostgreSQL has stopped. *)
SwitchoverReleasesFirst(n) ==
  /\ pc[n] = "updated" /\ pg[n] = "primary"
  /\ Ping(n)
  /\ DeleteKey(n)
  /\ pg' = [pg EXCEPT ![n] = "stopping"]
  /\ how' = [how EXCEPT ![n] = "graceful"]
  /\ Goto(n, "idle")
  /\ UNCHANGED armed

(* ... followed by process_manual_failover_from_leader(), which runs a     *)
(* graceful demote() in the background.                                    *)
Switchover(n) ==
  /\ pc[n] = "updated" /\ pg[n] = "primary"
  /\ Ping(n)
  /\ pg' = [pg EXCEPT ![n] = "stopping"]
  /\ how' = [how EXCEPT ![n] = "graceful"]
  /\ Goto(n, "idle")
  /\ UNCHANGED <<owner, left, armed>>

(* update_lock() returned False while nothing runs in the background. *)
LostLock(n) ==
  /\ pc[n] = "loaded" /\ view[n] = n
  /\ ~Renewable(n) /\ ~Busy(n)
  /\ DemoteIfPrimary(n)
  /\ UNCHANGED <<owner, left, dog, armed>>

(* process_unhealthy_cluster() of the healthiest node: acquire_lock(). *)
AcquireLock(n) ==
  /\ pc[n] = "loaded" /\ view[n] = None /\ ~Busy(n)
  /\ owner = None
  /\ WriteKey(n)
  /\ Goto(n, "enforce")
  /\ UNCHANGED <<pg, how, dog, armed>>

AcquireLockError(n) ==
  /\ pc[n] = "loaded" /\ view[n] = None /\ ~Busy(n)
  /\ MaybeWriteKey(n, owner = None)
  /\ HandleDcsError(n)
  /\ UNCHANGED <<dog, armed>>

(* Mutant of Follow: a primary that lost the key goes on. *)
FollowAsPrimary(n) ==
  /\ pc[n] = "loaded" /\ view[n] # n /\ ~Busy(n)
  /\ Goto(n, "idle")
  /\ UNCHANGED <<owner, left, pg, how, dog, armed>>

(* Another node leads, or this one is not the healthiest or lost the race. *)
Follow(n) ==
  /\ pc[n] = "loaded" /\ view[n] # n /\ ~Busy(n)
  /\ DemoteIfPrimary(n)
  /\ UNCHANGED <<owner, left, dog, armed>>

(* handle_long_action_in_progress() without the lock: a promote that can   *)
(* still be cancelled is, and a primary is stopped.                        *)
LongAction(n) ==
  /\ pc[n] = "loaded" /\ Busy(n)
  /\ view[n] # n \/ ~Renewable(n)
  /\ IF pg[n] = "stopping"
     THEN Demote(n, "nolock")
     ELSE /\ pg' = [pg EXCEPT ![n] = IF @ = "scheduled" THEN "replica" ELSE @]
          /\ Goto(n, "idle") /\ UNCHANGED how
  /\ UNCHANGED <<owner, left, dog, armed>>

-----------------------------------------------------------------------------
(* enforce_primary_role() *)

Activate(n) ==
  /\ pc[n] = "enforce" /\ HasWatchdog /\ ~armed[n]
  /\ dog' = [dog EXCEPT ![n] = Timeout]
  /\ armed' = [armed EXCEPT ![n] = TRUE]
  /\ UNCHANGED <<owner, left, pc, view, pg, how>>

ActivateFails(n) ==
  /\ pc[n] = "enforce" /\ HasWatchdog /\ ~armed[n]
  /\ IF pg[n] = "primary"
     THEN Demote(n, "release") /\ UNCHANGED <<owner, left>>
     ELSE DeleteKey(n) /\ Goto(n, "idle") /\ UNCHANGED <<pg, how>>
  /\ UNCHANGED <<dog, armed>>

Guarded(n) == armed[n] \/ ~HasWatchdog

SchedulePromote(n) ==
  /\ pc[n] = "enforce" /\ Guarded(n) /\ pg[n] = "replica"
  /\ pg' = [pg EXCEPT ![n] = "scheduled"]
  /\ Goto(n, "idle")
  /\ UNCHANGED <<owner, left, how, dog, armed>>

ReleaseAfterFailure(n) ==
  /\ pc[n] = "enforce" /\ Guarded(n) /\ pg[n] = "failed"
  /\ DeleteKey(n)
  /\ pg' = [pg EXCEPT ![n] = "replica"]
  /\ Goto(n, "idle")
  /\ UNCHANGED <<how, dog, armed>>

(* Nothing to do for a primary; a standby whose /sync key changed waits. *)
EnforceDone(n) ==
  /\ pc[n] = "enforce" /\ Guarded(n)
  /\ Goto(n, "idle")
  /\ UNCHANGED <<owner, left, pg, how, dog, armed>>

(* One of the requests to the DCS on the way raised an error. *)
EnforceError(n) ==
  /\ pc[n] = "enforce"
  /\ HandleDcsError(n)
  /\ UNCHANGED <<owner, left, dog, armed>>

-----------------------------------------------------------------------------
(* The asynchronous tasks *)

(* Postgresql.promote() up to CriticalTask.complete(). *)
PrePromote(n) ==
  /\ pg[n] = "scheduled"
  /\ \E result \in {"committed", "failed"} : pg' = [pg EXCEPT ![n] = result]
  /\ UNCHANGED <<owner, left, pc, view, how, dog, armed>>

Promote(n) ==
  /\ pg[n] = "committed"
  /\ \E result \in {"primary", "replica"} : pg' = [pg EXCEPT ![n] = result]
  /\ UNCHANGED <<owner, left, pc, view, how, dog, armed>>

(* Postgresql.stop() has reached the safepoint: Watchdog.disable(). *)
Stopped(n) ==
  /\ pg[n] = "stopping"
  /\ pg' = [pg EXCEPT ![n] = IF how[n] = "nolock" THEN "replica" ELSE "stopped"]
  /\ pc' = [pc EXCEPT ![n] = IF @ = "demoting" /\ how[n] # "release" THEN "idle" ELSE @]
  /\ dog' = [dog EXCEPT ![n] = IF armed[n] THEN 0 ELSE @]
  /\ armed' = [armed EXCEPT ![n] = FALSE]
  /\ UNCHANGED <<owner, left, view, how>>

(* release_leader_key_voluntarily() at the end of demote(), with the lock  *)
(* of the AsyncExecutor: not in the middle of a cycle.                     *)
Release(n) ==
  /\ pg[n] = "stopped"
  /\ pc[n] = IF how[n] = "release" THEN "demoting" ELSE "idle"
  /\ DeleteKey(n)
  /\ pg' = [pg EXCEPT ![n] = "replica"]
  /\ Goto(n, "idle")
  /\ UNCHANGED <<how, dog, armed>>

-----------------------------------------------------------------------------
(* Processes and time *)

(* The Patroni process dies: its tasks with it, not PostgreSQL and not the *)
(* timer of the device.                                                    *)
Crash(n) ==
  /\ pc[n] # "crashed"
  /\ Goto(n, "crashed")
  /\ pg' = [pg EXCEPT ![n] = IF @ \in {"scheduled", "failed", "stopped"}
                               THEN "replica" ELSE @]
  /\ how' = [how EXCEPT ![n] = "nolock"]
  /\ armed' = [armed EXCEPT ![n] = FALSE]
  /\ UNCHANGED <<owner, left, dog>>

(* A promotion PostgreSQL has begun is over before Patroni is back. *)
Start(n) ==
  /\ pc[n] = "crashed" /\ pg[n] # "committed"
  /\ Goto(n, "idle")
  /\ UNCHANGED <<owner, left, pg, how, dog, armed>>

(* Ha.shutdown(), after which Patroni may be started again. *)
Shutdown(n) ==
  /\ pc[n] = "idle" /\ pg[n] = "primary"
  /\ Demote(n, "release")
  /\ UNCHANGED <<owner, left, dog, armed>>

(* The delays that are assumed: from the write of the key to the keepalive *)
(* of a running watchdog, or to the activation of one that is not.         *)
AwaitsKeepalive(n) == armed[n] /\ pc[n] \in {"updated", "held"}
AwaitsActivation(n) == ~armed[n] /\ pc[n] \in {"updated", "enforce"}

Prompt(n) ==
  /\ AwaitsKeepalive(n) => TTL - left < RenewBound
  /\ AwaitsActivation(n) => TTL - left < AcquireBound

Fires(n) == dog[n] = 1

(* One unit of time: keys expire and watchdogs reset their machines. *)
Tick ==
  /\ HasWatchdog => \A n \in Nodes : Prompt(n)
  /\ left' = IF left = 0 THEN 0 ELSE left - 1
  /\ owner' = IF left' = 0 THEN None ELSE owner
  /\ dog' = [n \in Nodes |-> IF dog[n] = 0 THEN 0 ELSE dog[n] - 1]
  /\ pc' = [n \in Nodes |-> IF Fires(n) THEN "crashed" ELSE pc[n]]
  /\ view' = [n \in Nodes |-> IF Fires(n) THEN None ELSE view[n]]
  /\ pg' = [n \in Nodes |-> IF Fires(n) THEN "replica" ELSE pg[n]]
  /\ how' = [n \in Nodes |-> IF Fires(n) THEN "nolock" ELSE how[n]]
  /\ armed' = [n \in Nodes |-> IF Fires(n) THEN FALSE ELSE armed[n]]

Loop(n) ==
  \/ LoadCluster(n) \/ LoadClusterFails(n)
  \/ UpdateLock(n) \/ UpdateLockError(n) \/ Keepalive(n) \/ Switchover(n) \/ LostLock(n)
  \/ AcquireLock(n) \/ AcquireLockError(n) \/ Follow(n) \/ LongAction(n)
  \/ Activate(n) \/ ActivateFails(n) \/ SchedulePromote(n) \/ ReleaseAfterFailure(n)
  \/ EnforceDone(n) \/ EnforceError(n)

Task(n) == PrePromote(n) \/ Promote(n) \/ Stopped(n) \/ Release(n)

Next ==
  \/ \E n \in Nodes : Loop(n) \/ Task(n) \/ Crash(n) \/ Start(n) \/ Shutdown(n)
  \/ Tick

Spec == Init /\ [][Next]_vars

-----------------------------------------------------------------------------
(* Properties *)

(* The types of the variables. *)
TypeOK ==
  /\ owner \in Nodes \cup {None} /\ left \in 0..TTL
  /\ pc \in [Nodes -> Steps]
  /\ view \in [Nodes -> Nodes \cup {None}]
  /\ pg \in [Nodes -> Postgres]
  /\ how \in [Nodes -> {"nolock", "release", "graceful"}]
  /\ dog \in [Nodes -> 0..Timeout]
  /\ armed \in [Nodes -> BOOLEAN]

(* docs/watchdog.rst: "To avoid split-brain Patroni needs to ensure         *)
(* PostgreSQL will not accept any transaction commits after leader key      *)
(* expires in the DCS."                                                     *)
PrimaryHoldsKey == \A n \in Nodes : Accepts(n) => owner = n

(* Never two of them. *)
OnePrimary == \A m, n \in Nodes : Accepts(m) /\ Accepts(n) => m = n

(* Why: from the decision to promote until PostgreSQL has stopped, the      *)
(* watchdog will reset the machine before the key expires.                  *)
AtRisk(n) == pg[n] \in {"scheduled", "committed", "primary", "stopping"}
KeyOutlivesWatchdog ==
  \A n \in Nodes : AtRisk(n) => owner = n /\ dog[n] \in 1..left

(* The delays under which it holds.  With Timeout = TTL // 2 the delay of   *)
(* the keepalive does not matter: the device fires before it gets too long. *)
SafeTiming ==
  /\ HasWatchdog
  /\ AcquireBound + Timeout <= TTL
  /\ 2 * Timeout <= TTL + 1 \/ RenewBound + Timeout <= TTL

(* Watchdog.activate(): "While watchdog is active keepalive needs to be     *)
(* called every time loop_wait expires."  Only a leader calls it, so        *)
(* between two cycles an armed watchdog belongs to one.                     *)
ArmedIsLeader ==
  \A n \in Nodes : armed[n] /\ pc[n] = "idle" /\ pg[n] \in {"replica", "failed"} => owner = n
-----------------------------------------------------------------------------
(* The inductive invariant behind KeyOutlivesWatchdog *)

(* The loop that has just written the key still owns it. *)
WriterOwns ==
  \A n \in Nodes :
    /\ AwaitsActivation(n) => owner = n /\ TTL - left <= AcquireBound
    /\ AwaitsKeepalive(n) =>
         /\ owner = n /\ TTL - left <= RenewBound
         /\ left - dog[n] >= TTL - Timeout
    /\ armed[n] /\ pc[n] = "enforce" => owner = n /\ dog[n] <= left

(* Promotions and shutdowns are over when the loop gets to enforce. *)
NotBusy == \A n \in Nodes : pc[n] \in {"updated", "enforce"} => ~Busy(n)

(* A process that runs a watchdog has not let it expire. *)
ArmedTicks == \A n \in Nodes : armed[n] => dog[n] >= 1

IInv == TypeOK /\ KeyOutlivesWatchdog /\ WriterOwns /\ NotBusy /\ ArmedTicks
=============================================================================
