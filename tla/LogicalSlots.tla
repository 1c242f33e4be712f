---------------------------- MODULE LogicalSlots ----------------------------
(* A permanent logical slot on the primary and its copy on a standby: the   *)
(* HA loop of the standby (SlotsHandler), the thread that advances the copy *)
(* (SlotsAdvanceThread) and the task that copies the slot from the primary. *)
(* Positions and transaction numbers share one scale.                       *)
EXTENDS Naturals, FiniteSetsExt

CONSTANTS
  None,
  MaxPos,    \* bound: WAL positions
  MaxFaults  \* bound: restarts of PostgreSQL and Patroni, failed advances

VARIABLES
  prim,  \* pos; flush and cx: confirmed_flush_lsn and catalog_xmin of the
         \* slot; phys: catalog_xmin of the standby's physical slot; vac: the
         \* transactions whose catalog rows are vacuumed; dcs: lsn in /status
  stby,  \* up; has: the copy exists; flush, cx; replay; role; faults
  queue, \* value: of _logical_slots_processing_queue, 0 for None, None if the
         \* slot is not in it; force: _force_readiness_check; create: the slot
         \* is to be copied; data: what the copying task has read
  adv    \* sched: _scheduled, None for {}, 0 for {database: {}}; lsn: the
         \* thread's, 0 when it is between slots; result; copy: _copy_slots

lsVars == <<prim, stby, queue, adv>>

LsInit ==
  /\ prim = [pos |-> 1, flush |-> 1, cx |-> 1, phys |-> None, vac |-> 0, dcs |-> 1]
  /\ stby \in [up : {TRUE}, has : BOOLEAN, flush : {1}, cx : {1}, replay : {1}, role : {"replica"}, faults : {0}]
  /\ queue = [value |-> None, force |-> TRUE, create |-> FALSE, data |-> None]
  /\ adv = [sched |-> None, lsn |-> 0, result |-> "none", copy |-> FALSE]

Replica == stby.role = "replica"
Fault == stby.faults < MaxFaults

-----------------------------------------------------------------------------
(* PostgreSQL on the primary, and its HA loop that publishes the position   *)
(* of the slot.                                                             *)
Write ==
  /\ prim.pos < MaxPos /\ prim' = [prim EXCEPT !.pos = @ + 1] /\ UNCHANGED <<stby, queue, adv>>
Consume ==
  /\ prim.flush < prim.pos
  /\ \E x \in prim.cx..prim.flush + 1 : prim' = [prim EXCEPT !.flush = @ + 1, !.cx = x]
  /\ UNCHANGED <<stby, queue, adv>>
Vacuum ==
  LET horizon == Min({prim.cx} \cup ({prim.phys} \ {None})) IN
  /\ horizon > prim.vac /\ prim' = [prim EXCEPT !.vac = horizon] /\ UNCHANGED <<stby, queue, adv>>

(* process_permanent_slots() and the leader's write_status().               *)
ProcessPermanentSlots ==
  /\ prim.dcs # prim.flush /\ prim' = [prim EXCEPT !.dcs = prim.flush] /\ UNCHANGED <<stby, queue, adv>>

(* The standby replays, and reports the catalog_xmin of its slots: that of  *)
(* the physical slot only moves forward.                                    *)
Replay ==
  /\ stby.up /\ stby.replay < prim.pos
  /\ stby' = [stby EXCEPT !.replay = @ + 1] /\ UNCHANGED <<prim, queue, adv>>
HotStandbyFeedback ==
  LET cx == IF stby.has THEN stby.cx ELSE None IN
  /\ stby.up /\ Replica
  /\ \/ cx = None /\ prim.phys # None
     \/ cx # None /\ (IF prim.phys = None THEN TRUE ELSE prim.phys < cx)
  /\ prim' = [prim EXCEPT !.phys = cx] /\ UNCHANGED <<stby, queue, adv>>

-----------------------------------------------------------------------------
(* _update_pending_logical_slot_primary(): what is remembered when the      *)
(* physical slot has a catalog_xmin.                                        *)
Remembered(value) == IF value = 0 THEN prim.cx ELSE value

(* Mutant of Ready: nothing needs to be overtaken.                          *)
ReadyWhenHeld(value) == ~stby.has \/ (prim.phys # None /\ prim.phys <= stby.cx)

(* _ready_logical_slots()                                                   *)
Ready(value) == ~stby.has \/ (prim.phys # None /\ Remembered(value) <= prim.phys /\ prim.phys <= stby.cx)

(* check_logical_slots_readiness(), after the queue was filled with what    *)
(* exists if that was asked for.  Without a catalog_xmin nothing changes.   *)
CheckLogicalSlotsReadiness ==
  LET value == IF ~queue.force THEN queue.value ELSE IF stby.has THEN 0 ELSE None IN
  CASE value = None -> None
    [] value # None /\ prim.phys = None -> value
    [] OTHER -> IF Ready(value) THEN None ELSE Remembered(value)

(* Mutant of AdvanceValue: it goes where the standby is.                    *)
AdvanceToReplay == stby.replay

(* We can not advance past replay_lsn.                                      *)
AdvanceValue == Min({prim.dcs, stby.replay})

(* _ensure_logical_slots_replica() and SlotsAdvanceThread.schedule(): what  *)
(* has failed is not scheduled again, it is copied.                         *)
Schedule ==
  adv' = [adv EXCEPT !.copy = FALSE,
            !.sched = IF stby.has /\ stby.flush < AdvanceValue /\ ~adv.copy THEN AdvanceValue ELSE @]

(* sync_replication_slots() on the standby, when no task is running.        *)
SyncReplicationSlots ==
  /\ Replica /\ stby.up /\ queue.data = None /\ Schedule
  /\ queue' = [value |-> CheckLogicalSlotsReadiness, force |-> FALSE, data |-> None,
               create |-> ~stby.has \/ adv.copy]
  /\ UNCHANGED <<prim, stby>>

(* copy_logical_slots(): the state is read from the primary, and takes the  *)
(* place of the slot while PostgreSQL is down.                              *)
ReadSlot ==
  /\ Replica /\ queue.create
  /\ queue' = [queue EXCEPT !.data = [flush |-> prim.flush, cx |-> prim.cx], !.create = FALSE]
  /\ UNCHANGED <<prim, stby, adv>>
StopForCopy ==
  /\ queue.data # None /\ stby.up
  /\ stby' = [stby EXCEPT !.up = FALSE] /\ UNCHANGED <<prim, queue, adv>>

Clean == [adv EXCEPT !.sched = None, !.copy = FALSE]

CopyLogicalSlots ==
  /\ queue.data # None /\ ~stby.up /\ adv' = Clean
  /\ stby' = [stby EXCEPT !.up = TRUE, !.has = TRUE, !.flush = queue.data.flush, !.cx = queue.data.cx]
  /\ queue' = [queue EXCEPT !.value = 0, !.force = TRUE, !.data = None] /\ UNCHANGED prim

-----------------------------------------------------------------------------
(* SlotsAdvanceThread: sync_slots_in_database() takes the position,         *)
(* sync_slot() runs the query and then, under the lock, removes what it has *)
(* done.  Removing what clean() has removed raises, and leaves an empty     *)
(* dict behind.                                                             *)
TakePosition ==
  /\ adv.sched \notin {None, 0} /\ adv.lsn = 0
  /\ adv' = [adv EXCEPT !.lsn = adv.sched, !.result = "none"] /\ UNCHANGED <<prim, stby, queue>>

AdvanceSlot ==
  /\ adv.lsn # 0 /\ adv.result = "none" /\ UNCHANGED <<prim, queue>>
  /\ \/ /\ stby.up /\ stby.has /\ adv' = [adv EXCEPT !.result = "done"]
        /\ \E x \in stby.cx..Max({stby.cx, adv.lsn}) :
             stby' = [stby EXCEPT !.flush = Max({@, adv.lsn}), !.cx = x]
     \/ ~(stby.up /\ stby.has) /\ adv' = [adv EXCEPT !.result = "failed"] /\ UNCHANGED stby
     \/ /\ stby.up /\ Fault /\ stby' = [stby EXCEPT !.faults = @ + 1]
        /\ adv' = [adv EXCEPT !.result = "invalid"]

SyncSlot ==
  LET copy == adv.result = "invalid" IN
  /\ adv.lsn # 0 /\ adv.result # "none" /\ UNCHANGED <<prim, stby, queue>>
  /\ adv' = [lsn |-> 0, result |-> "none", copy |-> adv.copy \/ (copy /\ adv.sched # None),
             sched |-> IF copy /\ adv.sched \in {None, 0} THEN 0
                       ELSE IF copy \/ adv.sched = adv.lsn THEN None ELSE adv.sched]

-----------------------------------------------------------------------------
(* on_promote()                                                             *)
OnPromote ==
  /\ Replica /\ stby.up /\ queue.data = None /\ adv' = Clean
  /\ stby' = [stby EXCEPT !.role = "primary"] /\ UNCHANGED <<prim, queue>>

(* PostgreSQL is stopped and started, and while it is down the physical     *)
(* slot may go; schedule() asks for another check.                          *)
StopStandby ==
  /\ Replica /\ stby.up /\ queue.data = None /\ Fault
  /\ stby' = [stby EXCEPT !.up = FALSE, !.faults = @ + 1] /\ UNCHANGED <<prim, queue, adv>>
DropPhysicalSlot ==
  /\ Replica /\ ~stby.up /\ queue.data = None /\ prim.phys # None
  /\ prim' = [prim EXCEPT !.phys = None] /\ UNCHANGED <<stby, queue, adv>>
StartStandby ==
  /\ ~stby.up /\ queue.data = None
  /\ stby' = [stby EXCEPT !.up = TRUE] /\ queue' = [queue EXCEPT !.force = TRUE] /\ UNCHANGED <<prim, adv>>

(* Patroni is restarted.                                                    *)
RestartPatroni ==
  /\ Replica /\ Fault /\ stby' = [stby EXCEPT !.faults = @ + 1]
  /\ queue' = [value |-> None, force |-> TRUE, create |-> FALSE, data |-> None]
  /\ adv' = [sched |-> None, lsn |-> 0, result |-> "none", copy |-> FALSE] /\ UNCHANGED prim

LsNext ==
  \/ Write \/ Consume \/ Vacuum \/ ProcessPermanentSlots \/ Replay \/ HotStandbyFeedback
  \/ SyncReplicationSlots \/ ReadSlot \/ StopForCopy \/ CopyLogicalSlots
  \/ TakePosition \/ AdvanceSlot \/ SyncSlot
  \/ OnPromote \/ StopStandby \/ DropPhysicalSlot \/ StartStandby \/ RestartPatroni

LsSpec == LsInit /\ [][LsNext]_lsVars

-----------------------------------------------------------------------------
(* _ready_logical_slots(): a copy that on_promote() does not warn about is  *)
(* safe to use: the catalog rows it needs were not vacuumed.                *)
ReadyIsSafe == Replica /\ stby.up /\ stby.has /\ queue.value = None /\ ~queue.force => prim.vac <= stby.cx

(* The copy is never ahead of what the subscriber has confirmed, so that it *)
(* misses nothing after a failover, however late the thread acts on the     *)
(* position it was given.                                                   *)
NothingSkipped == stby.has => stby.flush <= prim.flush

(* A subscriber can go on from a copy after a failover.                     *)
CopyIsUsable == ReadyIsSafe /\ NothingSkipped
=============================================================================
