-------------------------------- MODULE Citus --------------------------------
(* The Citus coordinator's pg_dist_node table for one group of workers: the *)
(* tasks that the HA loop and the REST API add, the thread that works on    *)
(* them in a transaction, and the rows that turn one topology into another. *)
(* Node ids are drawn from a small set again once they are free.            *)
EXTENDS Naturals, Sequences, FiniteSets, SequencesExt

CONSTANTS
  Hosts, None,
  First,       \* the leader of the group at the beginning
  LateJoin,    \* a node that is not registered may become the leader
  MaxChanges,  \* bound: changes of the group in the DCS
  MaxEvents,   \* bound: requests of the workers
  MaxFaults    \* bound: failed queries, demotions of the coordinator

VARIABLES
  table,  \* rows: host and whether it is marked as demoted, of each node id;
          \* pid: id of the primary's row; txn: both, in the open transaction
  mpp,    \* cache: _pg_dist_group; task: of _tasks; inflight; reload:
          \* _schedule_load_pg_dist_group; proc: the task the thread works on
  group   \* of the DCS: leader, standbys; counters of the bounds; waiting: the
          \* tasks (task, proc) a request waits for; stuck: a request waits for nothing

ctVars == <<table, mpp, group>>

NoIds == [h \in {} |-> 0]
Group(prim, role, ids, event, rest) ==
  [prim |-> prim, role |-> role, ids |-> ids, event |-> event, rest |-> rest, fresh |-> FALSE, failover |-> FALSE]
NoGroup == Group(None, "none", NoIds, "after_promote", FALSE)
Rows(rows, pid) == [rows |-> rows, pid |-> pid]

CtInit ==
  /\ table = [now |-> Rows(NoIds, 0), txn |-> None]
  /\ mpp = [cache |-> NoGroup, task |-> None, inflight |-> None, reload |-> TRUE, proc |-> None]
  /\ \E s \in SUBSET (Hosts \ {First}) :
       group = [leader |-> First, standbys |-> s, changes |-> 0, events |-> 0, faults |-> 0,
                              waiting |-> {}, stuck |-> FALSE]

Put(f, k, v) == [x \in DOMAIN f \cup {k} |-> IF x = k THEN v ELSE f[x]]
Without(f, ks) == [x \in DOMAIN f \ ks |-> f[x]]
OneOf(S) == CHOOSE x \in S : TRUE

-----------------------------------------------------------------------------
(* PgDistGroup.transition(): what becomes of the primary's row.  The old    *)
(* topology is changed on the way, see role.                                *)
Node(h, role, id) == [host |-> h, role |-> role, id |-> id]

Samples(old, new) ==
  [ups |-> <<>>, ids |-> new.ids, gone |-> DOMAIN old.ids \ (DOMAIN new.ids \cup {old.prim}),
   added |-> DOMAIN new.ids \ (DOMAIN old.ids \cup {new.prim}), role |-> old.role, failover |-> old.failover]

SamePrimary(old, new) ==
  LET s == Samples(old, new)
      id == old.ids[old.prim] IN
  [s EXCEPT !.ids = Put(@, new.prim, id), !.failover = @ \/ old.role # new.role,
            !.ups = IF old.role = new.role THEN <<>> ELSE <<Node(new.prim, new.role, id)>>]

(* The new primary was a secondary: the rows are swapped, or a new standby  *)
(* gets its row.                                                            *)
RegisteredPrimary(old, new) ==
  LET s == Samples(old, new)
      oid == old.ids[old.prim]
      nid == old.ids[new.prim]
      swapped == Node(old.prim, "secondary", nid)
      last == Node(new.prim, new.role, oid)
      ids == Put(new.ids, new.prim, oid) IN
  IF old.prim \notin DOMAIN new.ids /\ s.added # {}
  THEN LET a == OneOf(s.added) IN
       [s EXCEPT !.ups = <<Node(a, "secondary", nid), last>>, !.ids = Put(ids, a, nid),
                 !.added = @ \ {a}, !.role = "secondary", !.failover = TRUE]
  ELSE [s EXCEPT !.ups = IF old.role = "primary" THEN <<Node(old.prim, "demoted", oid), swapped, last>>
                         ELSE <<swapped, last>>,
                 !.ids = Put(ids, old.prim, nid), !.failover = TRUE,
                 !.role = IF @ = "primary" THEN "demoted" ELSE @]

(* It was never registered: the row of a standby that is gone may be used   *)
(* for the old primary.                                                     *)
UnknownPrimary(old, new) ==
  LET s == Samples(old, new)
      last == Node(new.prim, new.role, old.ids[old.prim])
      ids == Put(new.ids, new.prim, old.ids[old.prim])
      again == old.prim \notin DOMAIN new.ids /\ old.role = "demoted" /\ Cardinality(s.gone) > Cardinality(s.added) IN
  IF s.gone # {} /\ (again \/ old.prim \in DOMAIN new.ids)
  THEN LET g == OneOf(s.gone) IN
       [s EXCEPT !.ups = <<last, Node(old.prim, "secondary", old.ids[g])>>, !.gone = @ \ {g},
                 !.ids = Put(ids, old.prim, old.ids[g]), !.failover = TRUE]
  ELSE [s EXCEPT !.ups = <<last>>, !.ids = ids, !.failover = TRUE]

PrimaryRow(old, new) ==
  CASE old.prim = None -> [Samples(old, new) EXCEPT !.ups = <<Node(new.prim, new.role, 0)>>]
    [] old.prim # None /\ old.prim = new.prim -> SamePrimary(old, new)
    [] old.prim # new.prim /\ old.prim # None /\ new.prim \in DOMAIN old.ids -> RegisteredPrimary(old, new)
    [] OTHER -> UnknownPrimary(old, new)

(* Mutant of Standbys: rows of standbys that are gone are forgotten.        *)
ForgetGone(old, new) ==
  LET s == PrimaryRow(old, new)
      known == [h \in DOMAIN s.ids |-> IF h # new.prim /\ s.ids[h] = 0 /\ h \in DOMAIN old.ids \ {old.prim}
                                       THEN old.ids[h] ELSE s.ids[h]] IN
  [ups |-> s.ups \o [i \in 1..Cardinality(s.added) |-> Node(SetToSeq(s.added)[i], "secondary", 0)],
   ids |-> known, role |-> s.role, failover |-> s.failover]

(* The rest of transition(): standbys keep their rows, new ones take those  *)
(* of standbys that are gone; what is left is added or removed, unless the  *)
(* primary's row was changed.                                               *)
Standbys(old, new) ==
  LET s == PrimaryRow(old, new)
      known == [h \in DOMAIN s.ids |-> IF h # new.prim /\ s.ids[h] = 0 /\ h \in DOMAIN old.ids \ {old.prim}
                                       THEN old.ids[h] ELSE s.ids[h]]
      gone == SetToSeq(s.gone)
      added == SetToSeq(s.added)
      n == IF Len(gone) < Len(added) THEN Len(gone) ELSE Len(added)
      paired == [h \in DOMAIN known |-> IF \E i \in 1..n : added[i] = h
                                        THEN old.ids[gone[CHOOSE i \in 1..n : added[i] = h]] ELSE known[h]]
      goneLeft == SubSeq(gone, n + 1, Len(gone))
      addedLeft == SubSeq(added, n + 1, Len(added))
      reused == [i \in 1..n |-> Node(added[i], "secondary", old.ids[gone[i]])] IN
  IF s.failover
  THEN [ups |-> s.ups \o reused, role |-> s.role, failover |-> TRUE,
        ids |-> [h \in (DOMAIN paired \cup Range(goneLeft)) \ Range(addedLeft) |->
                   IF h \in Range(goneLeft) THEN old.ids[h] ELSE paired[h]]]
  ELSE [ups |-> s.ups \o reused \o [i \in DOMAIN goneLeft |-> Node(goneLeft[i], "none", 0)]
                      \o [i \in DOMAIN addedLeft |-> Node(addedLeft[i], "secondary", 0)],
        ids |-> paired, role |-> s.role, failover |-> FALSE]

(* update_node() in the database: a node with no role is removed, one with  *)
(* an id is updated, one without an id is added unless it is demoted.  Host *)
(* names are unique, rows that are updated or removed must exist, adding a  *)
(* node again returns its id.                                               *)
UpdateNode(state, node) ==
  LET rows == state.rows
      row == <<node.host, node.role = "demoted">>
      used == {i \in DOMAIN rows : rows[i] = row}
      free == CHOOSE i \in 1..Cardinality(DOMAIN rows) + 1 : i \notin DOMAIN rows IN
  CASE ~state.ok -> state
    [] state.ok /\ node.role = "none" -> [state EXCEPT !.ok = used # {}, !.rows = Without(@, used)]
    [] state.ok /\ node.role # "none" /\ node.id # 0 ->
         [state EXCEPT !.ok = node.id \in DOMAIN rows /\ used \ {node.id} = {}, !.rows = Put(@, node.id, row)]
    [] OTHER -> IF node.role = "demoted" \/ used # {} THEN state
                ELSE [state EXCEPT !.rows = Put(@, free, row), !.pid = IF node.role = "primary" THEN free ELSE @]

(* The state is named so that TLC evaluates it once.                        *)
UpdateOnce(state, node) == CHOOSE next \in {UpdateNode(s, node) : s \in {state}} : TRUE
UpdateGroup(state, nodes) ==
  LET after[i \in 0..Len(nodes)] ==
        IF i = 0 THEN [ok |-> TRUE, rows |-> state.rows, pid |-> state.pid] ELSE UpdateOnce(after[i - 1], nodes[i])
  IN after[Len(nodes)]

(* The ids that citus_add_node() has returned are remembered.               *)
WithIds(ids, rows) ==
  [h \in DOMAIN ids |-> IF ids[h] = 0 /\ \E i \in DOMAIN rows : rows[i] = <<h, FALSE>> /\ i \notin Range(ids)
                        THEN CHOOSE i \in DOMAIN rows : rows[i] = <<h, FALSE>> /\ i \notin Range(ids) ELSE ids[h]]

-----------------------------------------------------------------------------
(* add_task(): the topology of the group as it is in the DCS.               *)
NewTask(event, rest) ==
  Group(group.leader, IF event = "before_demote" THEN "demoted" ELSE "primary",
        [h \in group.standbys \cup {group.leader} |-> 0], event, rest)
SameTask(t, u) ==
  t # None /\ u # None /\ t.event = u.event /\ t.prim = u.prim /\ t.role = u.role /\ DOMAIN t.ids = DOMAIN u.ids

(* _add_task(): tasks of the REST API take precedence over those of the HA  *)
(* loop, also while their transaction is young.                             *)
Accepted(t) ==
  /\ ~(~t.rest /\ mpp.task # None /\ mpp.task.rest)
  /\ ~(~t.rest /\ mpp.inflight # None /\ mpp.inflight.rest /\ mpp.inflight.fresh)
  /\ IF mpp.task # None THEN ~SameTask(t, mpp.task)
     ELSE mpp.reload \/ ~SameTask(t, mpp.cache) \/ mpp.inflight # None

AddTask(t) ==
  mpp' = [mpp EXCEPT !.task = t, !.proc = IF mpp.proc = None THEN None ELSE [mpp.proc EXCEPT !.over = TRUE]]

(* A request that waits for a task that is no longer there is not woken.    *)
Override(waiting) ==
  [group EXCEPT !.waiting = IF waiting THEN @ \cup {"task"} ELSE @ \ {"task"},
                !.stuck = @ \/ "task" \in group.waiting]

SyncMetaData ==
  /\ Accepted(NewTask("after_promote", FALSE)) /\ AddTask(NewTask("after_promote", FALSE))
  /\ group' = Override(FALSE) /\ UNCHANGED table

HandleEvent(event) ==
  /\ group.events < MaxEvents /\ UNCHANGED table
  /\ Accepted(NewTask(event, TRUE)) /\ AddTask(NewTask(event, TRUE))
  /\ group' = [Override(event = "before_demote") EXCEPT !.events = @ + 1]

-----------------------------------------------------------------------------
(* The thread.  load_pg_dist_group(): the cache is built from the table,    *)
(* where a group may have no primary, or no row at all.                     *)
LoadPgDistGroup ==
  LET rows == table.now.rows
      hosts == {rows[i][1] : i \in DOMAIN rows}
      ids == [h \in hosts |-> CHOOSE i \in DOMAIN rows : rows[i][1] = h] IN
  /\ mpp.reload /\ mpp.inflight = None /\ mpp.proc = None /\ UNCHANGED <<table, group>>
  /\ mpp' = [mpp EXCEPT !.reload = FALSE,
               !.cache = IF table.now.pid \in DOMAIN rows
                         THEN Group(rows[table.now.pid][1], "primary", ids, "after_promote", FALSE)
                         ELSE Group(None, "none", ids, "after_promote", FALSE)]

(* pick_task(): nothing to do, or the task is taken.                        *)
PickTask ==
  /\ mpp.task # None /\ mpp.proc = None /\ (mpp.inflight # None \/ ~mpp.reload) /\ UNCHANGED table
  /\ IF mpp.inflight = None /\ SameTask(mpp.task, mpp.cache)
     THEN mpp' = [mpp EXCEPT !.task = None] /\ group' = Override(FALSE)
     ELSE /\ mpp' = [mpp EXCEPT !.proc = [task |-> mpp.task, over |-> FALSE, cut |-> FALSE]]
          /\ group' = [group EXCEPT !.waiting = IF "task" \in @ THEN {"proc"} ELSE @]

Woken == [group EXCEPT !.waiting = @ \ {"proc"}]

(* A query failed: the connection is closed, which ends the transaction,    *)
(* and everything is loaded again.                                          *)
Failed(now) ==
  /\ table' = [now |-> now, txn |-> None]
  /\ mpp' = [mpp EXCEPT !.inflight = None, !.reload = TRUE, !.proc = None,
                        !.task = IF mpp.proc.over THEN @ ELSE None]

(* process_task() and what process_tasks() does with its result: the        *)
(* transaction is committed or stays open, an update has failed, or the     *)
(* connection is lost, perhaps when the commit was done.                    *)
Fine(result) == result.ok /\ ~mpp.proc.cut
Final(result) == Fine(result) /\ mpp.proc.task.event = "after_promote"
Rest == IF mpp.proc.over THEN mpp.task ELSE None
Done(moved, result) ==
  [mpp.proc.task EXCEPT !.ids = WithIds(moved.ids, result.rows), !.failover = moved.failover]

Committed(moved, result) ==
  /\ Final(result) /\ group' = Woken /\ table' = [now |-> Rows(result.rows, result.pid), txn |-> None]
  /\ mpp' = [mpp EXCEPT !.cache = [Done(moved, result) EXCEPT !.failover = FALSE], !.inflight = None,
                        !.task = Rest, !.proc = None]
Opened(moved, result) ==
  /\ Fine(result) /\ ~Final(result) /\ group' = Woken
  /\ table' = [table EXCEPT !.txn = Rows(result.rows, result.pid)]
  /\ mpp' = [mpp EXCEPT !.cache = IF mpp.inflight = None /\ mpp.cache.prim # None
                                  THEN [mpp.cache EXCEPT !.role = moved.role] ELSE mpp.cache,
                        !.inflight = [Done(moved, result) EXCEPT !.fresh = TRUE], !.task = Rest, !.proc = None]
Refused(result) == ~Fine(result) /\ group' = Woken /\ Failed(table.now)
Lost(result) ==
  /\ group.faults < MaxFaults /\ group' = [Woken EXCEPT !.faults = @ + 1]
  /\ \E late \in BOOLEAN : Failed(IF late /\ Final(result) THEN Rows(result.rows, result.pid) ELSE table.now)

ProcessTask ==
  /\ mpp.proc # None
  /\ \E moved \in {Standbys(IF mpp.inflight # None THEN mpp.inflight ELSE mpp.cache, mpp.proc.task)} :
     \E result \in {UpdateGroup(IF table.txn # None THEN table.txn ELSE table.now, moved.ups)} :
       Committed(moved, result) \/ Opened(moved, result) \/ Refused(result) \/ Lost(result)

(* Time: the deadline of the transaction.                                   *)
Deadline ==
  /\ mpp.inflight # None /\ mpp.inflight.fresh /\ UNCHANGED <<table, group>>
  /\ mpp' = [mpp EXCEPT !.inflight.fresh = FALSE]

(* Mutant of Rollback: the transaction is committed as it is.               *)
CommitTooOld ==
  /\ mpp.inflight # None /\ mpp.proc = None /\ (mpp.reload \/ (mpp.task # None /\ ~mpp.inflight.fresh))
  /\ table' = [now |-> table.txn, txn |-> None] /\ mpp' = [mpp EXCEPT !.inflight = None] /\ UNCHANGED group

(* run(): a transaction that is too old is rolled back when there is        *)
(* something else to do.                                                    *)
Rollback ==
  /\ mpp.inflight # None /\ mpp.proc = None /\ (mpp.reload \/ (mpp.task # None /\ ~mpp.inflight.fresh))
  /\ table' = [table EXCEPT !.txn = None] /\ mpp' = [mpp EXCEPT !.inflight = None] /\ UNCHANGED group

(* on_demote() of the coordinator, which is promoted again; the server has  *)
(* cut the connection.                                                      *)
OnDemote ==
  /\ group.faults < MaxFaults /\ table' = [table EXCEPT !.txn = None]
  /\ mpp' = [cache |-> NoGroup, task |-> None, inflight |-> None, reload |-> TRUE,
             proc |-> IF mpp.proc = None THEN None ELSE [mpp.proc EXCEPT !.over = TRUE, !.cut = TRUE]]
  /\ group' = [Override(FALSE) EXCEPT !.faults = @ + 1]

(* The worker group changes: another leader, a standby more or less.        *)
Registered == {table.now.rows[i][1] : i \in DOMAIN table.now.rows}
ChangeGroup ==
  /\ group.changes < MaxChanges /\ UNCHANGED <<table, mpp>>
  /\ \/ \E h \in Hosts \ {group.leader}, s \in SUBSET Hosts :
          /\ h \notin s /\ (h \in group.standbys \/ LateJoin) /\ (LateJoin \/ h \in Registered)
          /\ group' = [group EXCEPT !.leader = h, !.standbys = s, !.changes = @ + 1]
     \/ \E s \in SUBSET (Hosts \ {group.leader}) :
          s # group.standbys /\ group' = [group EXCEPT !.standbys = s, !.changes = @ + 1]

CitusThread == LoadPgDistGroup \/ PickTask \/ ProcessTask \/ Rollback
CtNext ==
  \/ SyncMetaData \/ CitusThread \/ Deadline \/ OnDemote \/ ChangeGroup
  \/ \E event \in {"before_demote", "before_promote", "after_promote"} : HandleEvent(event)

(* The HA loop and the thread run, and deadlines pass.                      *)
CtSpec == CtInit /\ [][CtNext]_ctVars /\ WF_ctVars(SyncMetaData) /\ WF_ctVars(CitusThread) /\ WF_ctVars(Deadline)

-----------------------------------------------------------------------------
(* A host that is marked as demoted, which pauses the clients, is only seen *)
(* within the transaction: however a switchover ends, nothing of it stays.  *)
NeverPausedForGood == \A i \in DOMAIN table.now.rows : ~table.now.rows[i][2]

(* sync_meta_data(): in the end the table says what the DCS says, whatever  *)
(* calls were made, lost or failed on the way.                              *)
InSync ==
  /\ table.txn = None /\ table.now.pid \in DOMAIN table.now.rows
  /\ table.now.rows[table.now.pid] = <<group.leader, FALSE>>
  /\ {table.now.rows[i] : i \in DOMAIN table.now.rows} = {<<h, FALSE>> : h \in group.standbys \cup {group.leader}}

(* citus.py: an inconsistency "will be automatically resolved on the next   *)
(* Patroni heartbeat loop".                                                 *)
EventuallyInSync == <>[]InSync

(* PgDistTask.wait(): a request that waits for a task is woken.             *)
NobodyStuck == ~group.stuck
=============================================================================
