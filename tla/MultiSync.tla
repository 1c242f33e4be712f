------------------------------ MODULE MultiSync ------------------------------
(* Synchronous replication to a fixed number of standbys (synchronous_mode: *)
(* on): synchronous_standby_names, the /sync key, and who may be promoted.  *)
(* Every step of the leader's cycle may be the last one before a crash.     *)
EXTENDS Naturals, FiniteSets, FiniteSetsExt

CONSTANTS
  Nodes, None,
  First,       \* the leader at the beginning
  NodeCount,   \* synchronous_node_count
  Strict,      \* synchronous_mode_strict: a set of BOOLEAN values
  SlowReload,  \* PostgreSQL may need longer than 2 seconds to reload
  Placeholder, \* __patroni_strict_sync_replica_placeholder__
  MaxLsn,      \* bound: WAL positions
  MaxFaults    \* bound: lost connections, crashes, failed writes

VARIABLES
  repl,    \* wal: of each node; ssn: configured; eff: in effect; acked: what
           \* clients were told is committed; primary; streaming: standbys
  sync,    \* leader, voters: of the /sync key; nosync: members that are
           \* about to stop
  handler, \* SyncHandler of each node: seen, the last known value; flush:
           \* _primary_flush_lsn; ready: _ready_replicas
  cycle    \* of the primary: step, old: voters at its start, voters, picked,
           \* allow: allow_promote; strict; faults

syVars == <<repl, sync, handler, cycle>>

Idle == [step |-> "idle", old |-> {}, voters |-> {}, picked |-> {}, allow |-> {}]

SyInit ==
  /\ repl = [wal |-> [n \in Nodes |-> 0], ssn |-> {}, eff |-> {}, acked |-> 0, primary |-> First,
             streaming |-> Nodes \ {First}]
  /\ sync = [leader |-> First, voters |-> {}, nosync |-> {}]
  /\ handler = [n \in Nodes |-> [seen |-> {}, flush |-> 0, ready |-> {}]]
  /\ \E s \in Strict : cycle = [run |-> Idle, strict |-> s, faults |-> 0]

Primary == repl.primary
Up == Primary # None
Reloaded == SlowReload \/ repl.eff = repl.ssn
MinSynchronousNodes == IF cycle.strict THEN 1 ELSE 0

-----------------------------------------------------------------------------
(* _handle_synchronous_standby_names_change(): what is ready is forgotten   *)
(* if it is not named any more, and what is new must catch up.              *)
Changed(h, eff) ==
  IF eff = h.seen THEN h
  ELSE [seen |-> eff, flush |-> repl.wal[Primary], ready |-> h.ready \cap eff]

(* Mutant of CaughtUp: whoever is named is synchronous at once.             *)
NamedIsEnough(h, n) == TRUE

(* A standby is really synchronous when it has caught up with what had been *)
(* written when it was named.                                               *)
CaughtUp(h, n) == repl.wal[n] >= h.flush

(* _process_replica_readiness() with the /sync key the cycle began with.    *)
Processed(h, old, replicas) ==
  [h EXCEPT !.ready = @ \cup {n \in replicas \cap h.seen : n \in old \/ CaughtUp(h, n)}]

(* Mutant of Replicas: every member counts, connected or not.               *)
AllMembers == Nodes \ {Primary}

(* Standbys that stream and do not object.                                  *)
Replicas == repl.streaming \ sync.nosync

(* current_state(): synchronous standbys are preferred.  Among equals the   *)
(* order depends on priorities and positions.                               *)
Picks ==
  {s \in SUBSET Replicas :
     /\ Cardinality(s) = Min({NodeCount, Cardinality(Replicas)})
     /\ \A n \in s, m \in Replicas \ s : m \in repl.eff => n \in repl.eff}
Confirmed(h, picked) == picked \cap h.seen \cap h.ready

CurrentState(n, old) == Processed(Changed(handler[n], repl.eff), old, Replicas)

(* set_synchronous_standby_names(): nobody to wait for, but somebody is     *)
(* needed.                                                                  *)
Names(nodes, num) == IF nodes = {} /\ num >= 1 THEN {Placeholder} ELSE nodes

-----------------------------------------------------------------------------
(* A write of the /sync key, after which the cycle continues with then; or  *)
(* it fails, or only seems to.                                              *)
WriteSyncState(leader, voters, then) ==
  \/ sync' = [sync EXCEPT !.leader = leader, !.voters = voters] /\ cycle' = [cycle EXCEPT !.run = then]
  \/ /\ cycle.faults < MaxFaults /\ cycle' = [cycle EXCEPT !.run = Idle, !.faults = @ + 1]
     /\ sync' \in {sync, [sync EXCEPT !.leader = leader, !.voters = voters]}

(* _process_multisync_replication(), and _handle_synchronous_strict_mode(), *)
(* until something has to be written to the /sync key.                      *)
Begin ==
  LET h == CurrentState(Primary, sync.voters)
      named == h.seen \ {Placeholder}
      SetNames(names) == repl' = [repl EXCEPT !.ssn = names] IN
  /\ Up /\ Reloaded /\ cycle.run.step = "idle" /\ handler' = [handler EXCEPT ![Primary] = h]
  /\ \E picked \in Picks :
       LET allow == Confirmed(h, picked)
           run == [step |-> "reduce", old |-> sync.voters, voters |-> sync.voters, picked |-> picked, allow |-> allow]
       IN
       \/ /\ picked = sync.voters /\ sync.voters # allow /\ UNCHANGED repl
          /\ WriteSyncState(Primary, allow, [run EXCEPT !.voters = allow])
       \/ /\ ~(picked = sync.voters /\ sync.voters # allow) /\ UNCHANGED sync
          /\ IF Cardinality(picked) < MinSynchronousNodes
             THEN SetNames(Names(sync.voters, 1)) /\ UNCHANGED cycle
             ELSE /\ IF picked = {} /\ sync.voters = {} THEN SetNames({}) ELSE UNCHANGED repl
                  /\ IF picked = sync.voters /\ named = picked THEN UNCHANGED cycle
                     ELSE cycle' = [cycle EXCEPT !.run = run]

(* The /sync key is reduced to the common nodes first.                      *)
Reduce ==
  LET run == cycle.run
      common == run.voters \cap run.allow IN
  /\ Up /\ run.step = "reduce" /\ UNCHANGED <<repl, handler>>
  /\ IF common = run.voters
     THEN cycle' = [cycle EXCEPT !.run.step = "assign"] /\ UNCHANGED sync
     ELSE WriteSyncState(Primary, common, [run EXCEPT !.step = "assign", !.voters = common])

(* Then synchronous_standby_names is set; PostgreSQL may or may not have    *)
(* reloaded it when the handler looks.                                      *)
Assign ==
  LET run == cycle.run IN
  /\ Up /\ run.step = "assign" /\ UNCHANGED sync
  /\ \E loaded \in BOOLEAN :
       LET eff == IF loaded THEN run.picked ELSE repl.eff IN
       /\ repl' = [repl EXCEPT !.ssn = run.picked, !.eff = eff]
       /\ handler' = [handler EXCEPT ![Primary] = Changed(@, eff)]
  /\ cycle' = [cycle EXCEPT !.run = IF run.picked = {} \/ run.allow = run.picked
                                    THEN [run EXCEPT !.step = "publish"] ELSE [run EXCEPT !.step = "extend"]]

(* A look two seconds later at who is synchronous by now.                   *)
Extend ==
  LET h == CurrentState(Primary, cycle.run.old) IN
  /\ Up /\ Reloaded /\ cycle.run.step = "extend" /\ UNCHANGED <<repl, sync>>
  /\ handler' = [handler EXCEPT ![Primary] = h]
  /\ \E picked \in Picks : cycle' = [cycle EXCEPT !.run.step = "publish", !.run.allow = Confirmed(h, picked)]

Publish ==
  LET run == cycle.run IN
  /\ Up /\ run.step = "publish" /\ UNCHANGED <<repl, handler>>
  /\ IF run.allow # {} /\ run.allow # run.voters
     THEN WriteSyncState(Primary, run.allow, Idle)
     ELSE cycle' = [cycle EXCEPT !.run = Idle] /\ UNCHANGED sync

-----------------------------------------------------------------------------
(* PostgreSQL: a commit is acknowledged when everybody named has it.        *)
Commit ==
  /\ Up /\ repl.wal[Primary] < MaxLsn
  /\ repl' = [repl EXCEPT !.wal[Primary] = @ + 1] /\ UNCHANGED <<sync, handler, cycle>>
Acknowledge ==
  /\ Up /\ repl.acked < repl.wal[Primary]
  /\ repl.eff \subseteq Nodes /\ \A n \in repl.eff : repl.wal[n] > repl.acked
  /\ repl' = [repl EXCEPT !.acked = @ + 1] /\ UNCHANGED <<sync, handler, cycle>>
Replicate(n) ==
  /\ Up /\ n \in repl.streaming /\ repl.wal[n] < repl.wal[Primary]
  /\ repl' = [repl EXCEPT !.wal[n] = @ + 1] /\ UNCHANGED <<sync, handler, cycle>>
Reload ==
  /\ Up /\ repl.eff # repl.ssn
  /\ repl' = [repl EXCEPT !.eff = repl.ssn] /\ UNCHANGED <<sync, handler, cycle>>

(* A standby loses its connection, at once or after while_not_sync_standby()*)
(* has told the primary; it connects again, what it had more than the       *)
(* primary is gone.                                                         *)
WhileNotSyncStandby(n) ==
  /\ Up /\ n \in repl.streaming /\ cycle.faults < MaxFaults /\ n \notin sync.nosync
  /\ sync' = [sync EXCEPT !.nosync = @ \cup {n}]
  /\ cycle' = [cycle EXCEPT !.faults = @ + 1] /\ UNCHANGED <<repl, handler>>
Disconnect(n) ==
  /\ n \in repl.streaming /\ (n \in sync.nosync \/ cycle.faults < MaxFaults)
  /\ repl' = [repl EXCEPT !.streaming = @ \ {n}] /\ UNCHANGED <<sync, handler>>
  /\ cycle' = [cycle EXCEPT !.faults = IF n \in sync.nosync THEN @ ELSE @ + 1]
Connect(n) ==
  /\ Up /\ n \notin repl.streaming \cup {Primary}
  /\ repl' = [repl EXCEPT !.streaming = @ \cup {n}, !.wal[n] = Min({@, repl.wal[Primary]})]
  /\ sync' = [sync EXCEPT !.nosync = @ \ {n}] /\ UNCHANGED <<handler, cycle>>

(* The primary fails.  A node of the /sync key, the old leader included, is *)
(* promoted once _process_multisync_prepromote() has written the key.       *)
Fail ==
  /\ Up /\ cycle.faults < MaxFaults
  /\ repl' = [repl EXCEPT !.primary = None, !.streaming = {}]
  /\ cycle' = [cycle EXCEPT !.faults = @ + 1, !.run = Idle] /\ UNCHANGED <<sync, handler>>

ProcessMultisyncPrepromote(n) ==
  LET others == IF cycle.strict THEN (sync.voters \cup {sync.leader}) \ {n} ELSE {}
      names == Names(others, MinSynchronousNodes) IN
  /\ ~Up /\ n \in sync.voters \cup {sync.leader}
  /\ sync' = [sync EXCEPT !.leader = n, !.voters = others]
  /\ repl' = [repl EXCEPT !.primary = n, !.ssn = names, !.eff = names]
  /\ UNCHANGED <<handler, cycle>>

MultisyncCycle == Begin \/ Reduce \/ Assign \/ Extend \/ Publish
SyNext ==
  \/ MultisyncCycle \/ Commit \/ Acknowledge \/ Reload \/ Fail
  \/ \E n \in Nodes : Replicate(n) \/ WhileNotSyncStandby(n) \/ Disconnect(n) \/ Connect(n)
                      \/ ProcessMultisyncPrepromote(n)

SySpec == SyInit /\ [][SyNext]_syVars

-----------------------------------------------------------------------------
(* The invariant _process_multisync_replication() keeps: whoever is named   *)
(* in the /sync key has every commit a client was told of, so that no       *)
(* failover loses one.                                                      *)
SyncHasCommits == \A n \in sync.voters \cup {sync.leader} : repl.wal[n] >= repl.acked

(* Without strict mode a standby that stops, is lost or was never confirmed *)
(* holds up commits only until the next cycles: in the end everything       *)
(* written is acknowledged.                                                 *)
NothingPending == Up /\ ~cycle.strict => repl.acked = repl.wal[Primary]
=============================================================================
