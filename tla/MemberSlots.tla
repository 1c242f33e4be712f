----------------------------- MODULE MemberSlots -----------------------------
(* The physical replication slots that every node keeps for every member, so*)
(* that a member that is away for less than member_slots_ttl finds the WAL  *)
(* it needs, whoever is the leader when it comes back.                      *)
EXTENDS Naturals, FiniteSets, FiniteSetsExt

CONSTANTS
  Nodes, None,
  First,       \* the leader at the beginning
  SlotsTtl,    \* member_slots_ttl, in ticks
  MaxLsn,      \* bound: WAL positions
  MaxChanges   \* bound: members that go away, and failovers

VARIABLES
  wal,    \* of each node: its WAL position
  slots,  \* of each node: restart_lsn of the slot for each member, None without
  status, \* the /status key: lsn of each slot, None without; retain: retain_slots
  msdcs   \* leader; members; retain: _last_retain_slots of the leader, the time
          \* each name has left; away: how long a member is away; covered: those
          \* whose slots were complete when they left; changes so far

msVars == <<wal, slots, status, msdcs>>

MsInit ==
  /\ wal = [n \in Nodes |-> 0]
  /\ slots = [n \in Nodes |-> [m \in Nodes |-> IF m = n THEN None ELSE 0]]
  /\ status = [lsn |-> [m \in Nodes |-> 0], retain |-> Nodes]
  /\ msdcs = [leader |-> First, members |-> Nodes, retain |-> [m \in Nodes |-> SlotsTtl],
              away |-> [m \in Nodes |-> 0], covered |-> {}, changes |-> 0]

Alive(n) == n \in msdcs.members
IsLeader(n) == n = msdcs.leader

-----------------------------------------------------------------------------
(* _get_members_slots(): the other members, and what the /status key says   *)
(* is to be retained.                                                       *)
GetMembersSlots(n) == (msdcs.members \cup status.retain) \ {n}

(* The feedback a slot is advanced with: on replicas what the leader has    *)
(* published for a member; a retained slot has none.                        *)
SlotLsn(n, m) == IF IsLeader(n) \/ m \notin msdcs.members THEN None ELSE status.lsn[m]

(* _ensure_physical_slots(): a missing slot is created where the node is    *)
(* now, an inactive one is advanced.                                        *)
EnsurePhysicalSlots(n, m) ==
  IF slots[n][m] = None THEN wal[n]
  ELSE IF SlotLsn(n, m) # None /\ SlotLsn(n, m) > slots[n][m]
  THEN Min({SlotLsn(n, m), wal[n]}) ELSE slots[n][m]

(* sync_replication_slots(), _drop_incorrect_slots() included.              *)
SyncReplicationSlots(n) ==
  slots' = [slots EXCEPT ![n] =
              [m \in Nodes |-> IF m \in GetMembersSlots(n) THEN EnsurePhysicalSlots(n, m) ELSE None]]

(* Mutant of BuildRetainSlots: every slot of the leader counts as one of a  *)
(* member.                                                                  *)
RetainAllSlots ==
  [m \in Nodes |-> IF slots[msdcs.leader][m] # None \/ m = msdcs.leader THEN SlotsTtl ELSE msdcs.retain[m]]

(* _build_retain_slots(): the time of what belongs to a member begins anew; *)
(* Postgresql.slots() names the leader too.                                 *)
BuildRetainSlots ==
  [m \in Nodes |-> IF m \in msdcs.members /\ (slots[msdcs.leader][m] # None \/ m = msdcs.leader)
                   THEN SlotsTtl ELSE msdcs.retain[m]]

(* A cycle of the leader: update_leader() writes the /status key, then the  *)
(* slots are synchronised with what the cycle has loaded before.            *)
WriteStatus(n) ==
  /\ msdcs' = [msdcs EXCEPT !.retain = BuildRetainSlots]
  /\ status' = [lsn |-> [m \in Nodes |-> IF m = n THEN wal[n] ELSE slots[n][m]],
                retain |-> {m \in Nodes : msdcs.retain'[m] > 0}]

LeaderCycle(n) ==
  /\ IsLeader(n) /\ Alive(n) /\ WriteStatus(n)
  /\ SyncReplicationSlots(n) /\ UNCHANGED wal

ReplicaCycle(n) ==
  /\ ~IsLeader(n) /\ Alive(n) /\ SyncReplicationSlots(n)
  /\ UNCHANGED <<wal, status, msdcs>>

(* Mutant of AcquireLeaderLock: a new leader forgets who was retained.      *)
AcquireAndForget(n) ==
  /\ msdcs.leader = None /\ Alive(n)
  /\ msdcs' = [msdcs EXCEPT !.leader = n, !.retain = [m \in Nodes |-> 0]]
  /\ UNCHANGED <<wal, slots, status>>

(* acquire_leader_lock(): the names in the /status key are retained for     *)
(* another ttl.                                                             *)
AcquireLeaderLock(n) ==
  /\ msdcs.leader = None /\ Alive(n)
  /\ msdcs' = [msdcs EXCEPT !.leader = n, !.retain = [m \in Nodes |-> IF m \in status.retain THEN SlotsTtl ELSE 0]]
  /\ UNCHANGED <<wal, slots, status>>

-----------------------------------------------------------------------------
(* PostgreSQL: the leader writes, standbys stream through their slots.      *)
WriteWal(n) ==
  /\ IsLeader(n) /\ Alive(n) /\ wal[n] < MaxLsn
  /\ wal' = [wal EXCEPT ![n] = @ + 1] /\ UNCHANGED <<slots, status, msdcs>>

Stream(n) ==
  /\ Alive(n) /\ msdcs.leader \notin {None, n} /\ slots[msdcs.leader][n] # None
  /\ wal[n] < wal[msdcs.leader]
  /\ wal' = [wal EXCEPT ![n] = @ + 1]
  /\ slots' = [slots EXCEPT ![msdcs.leader][n] = Max({@, wal[n] + 1})]
  /\ UNCHANGED <<status, msdcs>>

(* A member goes away (the leader releases its key, or it expires) and      *)
(* comes back.  Its return is expected to find its WAL if the leader had    *)
(* seen it and every other node had its slot when it left.                  *)
Covered(m) ==
  /\ m \in status.retain /\ msdcs.retain[m] = SlotsTtl
  /\ \A n \in Nodes \ {m} : slots[n][m] # None /\ slots[n][m] <= wal[m]
GoAway(m) ==
  /\ Alive(m) /\ msdcs.changes < MaxChanges /\ Cardinality(msdcs.members) > 1
  /\ msdcs' = [msdcs EXCEPT !.members = @ \ {m}, !.changes = @ + 1, !.away[m] = 0,
                 !.leader = IF @ = m THEN None ELSE @,
                 !.covered = IF Covered(m) THEN @ \cup {m} ELSE @ \ {m}]
  /\ UNCHANGED <<wal, slots, status>>

ComeBack(m) ==
  /\ ~Alive(m) /\ UNCHANGED <<wal, slots, status>>
  /\ msdcs' = [msdcs EXCEPT !.members = @ \cup {m}, !.covered = @ \ {m}]

Failover ==
  /\ msdcs.leader # None /\ msdcs.changes < MaxChanges
  /\ msdcs' = [msdcs EXCEPT !.leader = None, !.changes = @ + 1] /\ UNCHANGED <<wal, slots, status>>

(* Cycles are shorter than the ttl: time only passes for the leader's list  *)
(* when there is a leader.                                                  *)
Tick ==
  /\ msdcs.leader # None /\ msdcs.members # Nodes
  /\ msdcs' = [msdcs EXCEPT !.retain = [m \in Nodes |-> IF @[m] = 0 \/ Alive(m) THEN @[m] ELSE @[m] - 1],
                            !.away = [m \in Nodes |-> IF Alive(m) \/ @[m] = SlotsTtl THEN @[m] ELSE @[m] + 1]]
  /\ UNCHANGED <<wal, slots, status>>

MsCycle(n) == LeaderCycle(n) \/ ReplicaCycle(n) \/ AcquireLeaderLock(n)
MsNext ==
  \/ \E n \in Nodes : MsCycle(n) \/ WriteWal(n) \/ Stream(n) \/ GoAway(n) \/ ComeBack(n)
  \/ Failover \/ Tick

-----------------------------------------------------------------------------
(* member_slots_ttl: a member that is away for less than that long, and had *)
(* its slots when it left, finds a slot on the leader that has kept the WAL *)
(* it needs, whatever failovers there were in the meantime.                 *)
WalRetained ==
  \A m \in msdcs.covered :
    msdcs.leader # None /\ msdcs.away[m] < SlotsTtl =>
      slots[msdcs.leader][m] # None /\ slots[msdcs.leader][m] <= wal[m]

(* A slot of a member that stays away does not hold back WAL forever: it is *)
(* dropped on every node.                                                   *)
NoStaleSlots == \A n \in msdcs.members, m \in Nodes \ msdcs.members : slots[n][m] = None
=============================================================================
