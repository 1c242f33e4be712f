----------------------------- MODULE QuorumCommit -----------------------------
(***************************************************************************)
(* Quorum based synchronous replication: the loop of the primary that      *)
(* keeps the /sync key of the DCS and synchronous_standby_names of its     *)
(* PostgreSQL in agreement (Ha._process_quorum_replication, SyncHandler),  *)
(* and the leader race that reads the key (Ha._is_healthiest_node).        *)
(*                                                                         *)
(* A WAL is the sequence of the timelines its records were written on, so  *)
(* that a prefix is a common history.  That the deposed primary has        *)
(* stopped before another node is promoted is the subject of LeaderLease   *)
(* and assumed here: a promotion ends the cycle of the former primary.     *)
(***************************************************************************)
EXTENDS QuorumResolver

CONSTANTS
  N,             \* the members of the cluster are the nodes 1..N
  MaxLsn,        \* bound: records in a WAL
  MaxTimeline,   \* bound: promotions
  MinSyncs,      \* the values of min_synchronous_nodes: 1 with synchronous_mode_strict
  NodeCounts,    \* the values synchronous_node_count takes
  Events         \* which events of the environment occur

ASSUME NodesAssumption == N \in Nat \ {0} /\ MaxLsn \in Nat /\ MaxTimeline \in Nat \ {0}
ASSUME ConfigAssumption ==
  /\ MinSyncs # {} /\ MinSyncs \subseteq {0, 1}
  /\ NodeCounts # {} /\ NodeCounts \subseteq Nat \ {0}
  /\ Events \subseteq {"join", "leave", "resize", "restart", "interrupt", "failover"}

VARIABLES
  sync,      \* the /sync key: leader (0 when empty), quorum and voters
  ssn,       \* synchronous_standby_names of the primary: ANY num (names)
  handler,   \* the SyncHandler object of each node
  primary,   \* the node that runs as primary
  timeline,  \* its timeline
  active,    \* the standbys SyncHandler.current_state() finds eligible
  wal,       \* the WAL each node has flushed
  acked,     \* history: the WAL acknowledged to clients
  wanted,    \* synchronous_node_count
  minSync,   \* min_synchronous_nodes, fixed for a behaviour
  todo       \* transitions of the resolver the running cycle has yet to apply

vars == <<sync, ssn, handler, primary, timeline, active, wal, acked, wanted, minSync,
          todo>>

Nodes == 1..N

EmptySsn == [num |-> 0, names |-> {}]
NewHandler == [known |-> EmptySsn, ready |-> {}, flush |-> 0]

Init ==
  /\ sync = [leader |-> 0, quorum |-> 0, voters |-> {}]
  /\ ssn = EmptySsn
  /\ handler = [n \in Nodes |-> NewHandler]
  /\ primary = 1
  /\ timeline = 1
  /\ active = {}
  /\ wal = [n \in Nodes |-> <<>>]
  /\ acked = <<>>
  /\ wanted \in NodeCounts
  /\ minSync \in MinSyncs
  /\ todo = <<>>

-----------------------------------------------------------------------------
(* SyncHandler *)

(* _handle_synchronous_standby_names_change(): forget the replicas that    *)
(* are not listed any more and memorize how far the listed ones must get.  *)
HandleChange(h, value) ==
  IF value = h.known THEN h
  ELSE [known |-> value, ready |-> h.ready \cap value.names, flush |-> Len(wal[primary])]

(* Mutant of ProcessReadiness: a listed replica is ready at once. *)
ReadyWhenListed(h) == [h EXCEPT !.ready = @ \cup (active \cap h.known.names)]

(* _process_replica_readiness() in quorum commit mode. *)
ProcessReadiness(h) ==
  [h EXCEPT !.ready = @ \cup {n \in active \cap h.known.names : Len(wal[n]) >= h.flush}]

(* The SyncHandler of the primary when current_state() has returned. *)
Refreshed == ProcessReadiness(HandleChange(handler[primary], ssn))

(* PostgreSQL does not accept ANY 0 (...) and goes on with the old value. *)
Accepted(old, value) == IF value.num = 0 /\ value.names # {} THEN old ELSE value

(* set_synchronous_standby_names(): the value takes effect, and unless it  *)
(* is unchanged or the placeholder its change is noticed at once.  The     *)
(* placeholder, a name of no member, requires num standbys and lists none: *)
(* parse_sync_standby_names() leaves it out of the members.                *)
SetSsn(h, names, num) ==
  LET value == Accepted(ssn, [num |-> num, names |-> names])
      placeholder == num >= 1 /\ names = {}
  IN /\ ssn' = value
     /\ handler' = [handler EXCEPT ![primary] =
          IF value = ssn \/ placeholder THEN h ELSE HandleChange(h, value)]

-----------------------------------------------------------------------------
(* One HA loop of the primary: Ha._process_quorum_replication() *)

(* _maybe_enable_synchronous_mode() *)
EnableSync ==
  /\ sync.leader = 0 /\ todo = <<>>
  /\ sync' = [leader |-> primary, quorum |-> 0, voters |-> {}]
  /\ UNCHANGED <<minSync, ssn, handler, primary, timeline, active, wal, acked, wanted, todo>>

(* The resolver as it is constructed from the state just read. *)
ResolverInput ==
  Resolver(sync.leader, sync.quorum, sync.voters, ssn.num, ssn.names,
           Cardinality(Refreshed.ready \cap active), active, wanted, primary)

(* Mutant of StrictMode: looks at the voters of the key. *)
StrictModeByKey == sync.leader = primary /\ Cardinality(sync.voters) < minSync

(* _handle_synchronous_strict_mode() returns True: too few standbys to go  *)
(* on, keep what satisfies the key and wait.                               *)
StrictMode == sync.leader = primary /\ Cardinality(active) < minSync

StrictCycle ==
  /\ sync.leader # 0 /\ todo = <<>>
  /\ StrictMode
  /\ SetSsn(Refreshed, sync.voters,
            Max({minSync, Cardinality(sync.voters) - sync.quorum}))
  /\ UNCHANGED <<minSync, sync, primary, timeline, active, wal, acked, wanted, todo>>

(* In non-strict mode nobody is left to wait for: the list is removed, but *)
(* the resolver still works with the state read before.                    *)
NobodyLeft ==
  /\ sync.leader = primary /\ minSync = 0
  /\ active = {} /\ sync.voters = {} /\ ssn # EmptySsn

Cycle ==
  /\ sync.leader # 0 /\ todo = <<>>
  /\ ~StrictMode
  /\ IF NobodyLeft
     THEN SetSsn(Refreshed, {}, 0)
     ELSE ssn' = ssn /\ handler' = [handler EXCEPT ![primary] = Refreshed]
  /\ todo' = Transitions(ResolverInput)
  /\ UNCHANGED <<minSync, sync, primary, timeline, active, wal, acked, wanted>>

(* A "quorum" transition: write_sync_state(). *)
ApplyQuorum ==
  /\ todo # <<>> /\ Head(todo).type = "quorum"
  /\ sync' = [leader |-> Head(todo).leader, quorum |-> Head(todo).num,
              voters |-> Head(todo).names]
  /\ todo' = Tail(todo)
  /\ UNCHANGED <<minSync, ssn, handler, primary, timeline, active, wal, acked, wanted>>

(* A "sync" transition: set_synchronous_standby_names(). *)
ApplySync ==
  /\ todo # <<>> /\ Head(todo).type = "sync"
  /\ SetSsn(handler[primary], Head(todo).names, Head(todo).num)
  /\ todo' = Tail(todo)
  /\ UNCHANGED <<minSync, sync, primary, timeline, active, wal, acked, wanted>>

(* A "restart" transition: read the state again. *)
ApplyRestart ==
  /\ todo # <<>> /\ Head(todo).type = "restart"
  /\ todo' = <<>>
  /\ UNCHANGED <<minSync, sync, ssn, handler, primary, timeline, active, wal, acked, wanted>>

(* _check_timeout(), or the answer of the DCS to the last write was an     *)
(* error: the rest of the cycle is dropped.                                *)
Interrupt ==
  /\ "interrupt" \in Events
  /\ todo # <<>>
  /\ todo' = <<>>
  /\ UNCHANGED <<minSync, sync, ssn, handler, primary, timeline, active, wal, acked, wanted>>

-----------------------------------------------------------------------------
(* The leader race *)

Members(key) == key.voters \cup {key.leader}

(* Mutant of HealthiestNode: a candidate outside the key counts itself. *)
HealthiestByOwnVote(c, reached) ==
  LET ahead == {n \in reached : Len(wal[n]) > Len(wal[c])}
  IN /\ ahead \subseteq {sync.leader}
     /\ Cardinality(reached \ ahead) >= sync.quorum

(* _is_healthiest_node(): what c concludes from the answers of the members *)
(* it could reach.  Only the former leader may be ahead.                   *)
HealthiestNode(c, reached) ==
  LET ahead == {n \in reached : Len(wal[n]) > Len(wal[c])}
      votes == Cardinality(reached \ ahead) - (IF c \in Members(sync) THEN 0 ELSE 1)
  IN /\ ahead \subseteq {sync.leader}
     /\ votes >= sync.quorum \/ (ahead = {} /\ sync.leader = c)

(* Mutant of PrepromoteSsn: the new primary always counts as a member. *)
PrepromoteAsMember(c) ==
  Accepted(EmptySsn, [num |-> Max({Cardinality(Members(sync)) - sync.quorum - 1, minSync}),
                      names |-> Members(sync) \ {c}])

(* _process_quorum_prepromote(): satisfy the key as it is.  A standby      *)
(* lists nobody before: demote() and recover() clear the parameter.        *)
PrepromoteSsn(c) ==
  LET numsync == Cardinality(Members(sync)) - sync.quorum
                   - (IF c \in Members(sync) THEN 1 ELSE 0)
  IN Accepted(EmptySsn, [num |-> Max({numsync, minSync}), names |-> Members(sync) \ {c}])

(* c wins the race and is promoted.  Its SyncHandler will see the new      *)
(* value at its first cycle.                                               *)
Failover(c) ==
  /\ "failover" \in Events
  /\ timeline < MaxTimeline
  /\ sync.leader # 0
  /\ \E reached \in SUBSET (Members(sync) \ {c}) : HealthiestNode(c, reached)
  /\ ssn' = PrepromoteSsn(c)
  /\ primary' = c
  /\ timeline' = timeline + 1
  /\ active' = {}
  /\ todo' = <<>>
  /\ UNCHANGED <<minSync, sync, handler, wal, acked, wanted>>

-----------------------------------------------------------------------------
(* PostgreSQL, the operator and the processes *)

CommonPrefix(s, t) ==
  LET common == {k \in 0..Min({Len(s), Len(t)}) : \A i \in 1..k : s[i] = t[i]}
  IN SubSeq(s, 1, Max(common))

(* A standby streams from the primary, after pg_rewind when it diverged. *)
Join(n) ==
  /\ "join" \in Events
  /\ n # primary /\ n \notin active
  /\ active' = active \cup {n}
  /\ wal' = [wal EXCEPT ![n] = CommonPrefix(wal[n], wal[primary])]
  /\ UNCHANGED <<minSync, sync, ssn, handler, primary, timeline, acked, wanted, todo>>

Leave(n) ==
  /\ "leave" \in Events
  /\ active' = active \ {n}
  /\ n \in active
  /\ UNCHANGED <<minSync, sync, ssn, handler, primary, timeline, wal, acked, wanted, todo>>

(* The operator changes synchronous_node_count. *)
Resize(k) ==
  /\ "resize" \in Events
  /\ k # wanted
  /\ wanted' = k
  /\ UNCHANGED <<minSync, sync, ssn, handler, primary, timeline, active, wal, acked, todo>>

(* Patroni is restarted while PostgreSQL keeps running, and has something   *)
(* to forget.                                                               *)
PatroniRestart(n) ==
  /\ "restart" \in Events
  /\ handler[n] # NewHandler \/ (n = primary /\ todo # <<>>)
  /\ handler' = [handler EXCEPT ![n] = NewHandler]
  /\ todo' = IF n = primary THEN <<>> ELSE todo
  /\ UNCHANGED <<minSync, sync, ssn, primary, timeline, active, wal, acked, wanted>>

Write ==
  /\ Len(wal[primary]) < MaxLsn
  /\ wal' = [wal EXCEPT ![primary] = Append(@, timeline)]
  /\ UNCHANGED <<minSync, sync, ssn, handler, primary, timeline, active, acked, wanted, todo>>

Replicate(n) ==
  /\ n \in active
  /\ wal[n] # wal[primary]
  /\ wal' = [wal EXCEPT ![n] = SubSeq(wal[primary], 1, Len(@) + 1)]
  /\ UNCHANGED <<minSync, sync, ssn, handler, primary, timeline, active, acked, wanted, todo>>

Holds(n, log) == IsPrefix(log, wal[n])

(* A commit is released when num of the connected names have flushed it. *)
Durable(log) ==
  Cardinality({n \in ssn.names \cap active : Holds(n, log)}) >= ssn.num

Acknowledge(k) ==
  LET log == SubSeq(wal[primary], 1, k)
  IN /\ k > Len(acked)
     /\ Durable(log)
     /\ acked' = log
     /\ UNCHANGED <<minSync, sync, ssn, handler, primary, timeline, active, wal, wanted, todo>>

-----------------------------------------------------------------------------
System == EnableSync \/ StrictCycle \/ Cycle \/ ApplyQuorum \/ ApplySync \/ ApplyRestart

Environment ==
  \/ Interrupt
  \/ \E n \in Nodes : Failover(n) \/ Join(n) \/ Leave(n) \/ PatroniRestart(n)
  \/ \E k \in NodeCounts : Resize(k)

Database ==
  \/ Write
  \/ \E n \in Nodes : Replicate(n)
  \/ \E k \in 1..Len(wal[primary]) : Acknowledge(k)

Next == System \/ Environment \/ Database

Spec == Init /\ [][Next]_vars

-----------------------------------------------------------------------------
(* Properties *)

(* The types of the variables. *)
TypeOK ==
  /\ sync \in [leader : 0..N, quorum : 0..N, voters : SUBSET Nodes]
  /\ ssn \in [num : 0..N, names : SUBSET Nodes]
  /\ \A n \in Nodes :
       /\ handler[n].known \in [num : 0..N, names : SUBSET Nodes]
       /\ handler[n].ready \subseteq Nodes
       /\ handler[n].flush \in 0..MaxLsn
  /\ primary \in Nodes /\ timeline \in 1..MaxTimeline
  /\ active \subseteq Nodes \ {primary}
  /\ \A n \in Nodes : wal[n] \in BoundedSeq(1..MaxTimeline, MaxLsn)
  /\ acked \in BoundedSeq(1..MaxTimeline, MaxLsn)
  /\ wanted \in NodeCounts /\ minSync \in MinSyncs
  /\ \A i \in 1..Len(todo) : todo[i].type \in {"quorum", "sync", "restart"}

(* quorum.py promises changes "from any other arbitrary state": whatever    *)
(* interrupted cycles, restarts and failovers left behind, the resolver     *)
(* ends neither with a QuorumError nor with a failed assertion.             *)
ResolverNeverFails ==
  sync.leader # 0 /\ todo = <<>> => ~Raised(GenerateTransitions(ResolverInput))

(* check_invariants() on the real places instead of the copies the resolver *)
(* works on, in every state between two writes: the standbys that can       *)
(* acknowledge a commit meet the members that can elect a leader.           *)
QuorumsOverlap ==
  sync.voters # {} =>
    Cardinality(Members(sync) \cup ssn.names \cup {primary})
      <= sync.quorum + Min({ssn.num, Cardinality(ssn.names)}) + 1

(* docs/replication_modes.rst: "at all times any subset of voters that can  *)
(* achieve quorum includes at least one node with the latest successful     *)
(* commit".                                                                 *)
QuorumHasLatestCommit ==
  sync.leader # 0 =>
    \A voters \in SUBSET Members(sync) :
      Cardinality(voters) > sync.quorum => \E n \in voters : Holds(n, acked)

(* What clients rely on, as a refinement: primaries come and go, and        *)
(* acknowledged commits stay in the log of whichever node leads.            *)
Promised == INSTANCE CommittedLog WITH log <- wal[primary], committed <- acked
CommitsAreDurable == Promised!Spec

(* synchronous_mode_strict: once commits wait for a standby they always do. *)
StrictNeverRelaxes == [][minSync > 0 /\ ssn.num > 0 => ssn'.num > 0]_vars

(* The state quorum.py calls desired: voters and synchronous_standby_names  *)
(* are the active standbys and quorum + numsync is their number.            *)
Desired ==
  LET numsync == Min({wanted, Cardinality(active)})
  IN /\ sync = [leader |-> primary, quorum |-> Cardinality(active) - numsync,
                voters |-> active]
     /\ ssn = [num |-> numsync, names |-> active]
=============================================================================
