------------------------------- MODULE Rewind -------------------------------
(* How a node whose WAL may have diverged joins the leader again: the check *)
(* of its timeline, crash recovery, pg_rewind, and the new copy if the data *)
(* directory has to go.  A WAL is the sequence of the timelines its records *)
(* were written on; the first record of a timeline is written by a          *)
(* promotion and the last one of a clean shutdown is its checkpoint.        *)
EXTENDS Naturals, Sequences, SequencesExt, FiniteSets

CONSTANTS
  MaxTimeline, \* bound: promotions
  MaxLen,      \* bound: records the leader writes
  MaxFaults    \* bound: deaths of PostgreSQL and failures of pg_rewind

VARIABLES
  local,  \* wal; proc: "up" or "down"; control: the state in pg_control;
          \* data: "ok", "damaged" or "empty"; conf: the node it follows; allowed
          \* by its configuration; timeline: _last_timeline; faults so far
  leader, \* wal, name; up: holds the key and can be reached; promoted; control:
          \* timeline in pg_control; task: the CHECKPOINT; ckpt: its Rewind is
          \* in state CHECKPOINT; shows: what its member key says
  rw      \* state; crash: crash recovery was done; recovering; task of the
          \* executor; source: timeline of the leader of the last verdict

rwVars == <<local, leader, rw>>

Names == {1, 2}
Allowed == {{"rewind"}, {"remove"}, {"rewind", "remove"}}
Timeline(wal) == Last(wal)

NewLeader_(wal, name, ckpt) ==
  [wal |-> wal, name |-> name, up |-> TRUE, promoted |-> FALSE, control |-> Timeline(wal),
   task |-> "none", ckpt |-> ckpt, shows |-> "replica"]

RwInit ==
  /\ \E wal \in {<<1>>, <<1, 1>>}, s \in 1..2, a \in Allowed,
        c \in {"production", "shut down", "shut down in recovery", "in archive recovery"} :
       /\ local = [wal |-> wal, proc |-> "down", control |-> c, data |-> "ok", conf |-> 0,
                   allowed |-> a, timeline |-> 0, faults |-> 0]
       /\ leader = NewLeader_([i \in 1..s |-> 1], 1, FALSE)
  /\ rw = [state |-> "INITIAL", crash |-> FALSE, recovering |-> FALSE, task |-> "none", source |-> 0]

-----------------------------------------------------------------------------
(* The leader: promote() in the background, then CHECKPOINT in a thread     *)
(* unless pg_control already names the new timeline.                        *)
(* Mutant of Promote: the Rewind object keeps the state of an earlier life. *)
PromoteWithoutReset ==
  /\ leader.up /\ ~leader.promoted
  /\ leader' = [leader EXCEPT !.promoted = TRUE, !.wal = Append(@, Timeline(@) + 1)]
  /\ UNCHANGED <<local, rw>>

Promote ==
  /\ leader.up /\ ~leader.promoted
  /\ leader' = [leader EXCEPT !.promoted = TRUE, !.wal = Append(@, Timeline(@) + 1),
                              !.ckpt = FALSE, !.task = "none"]
  /\ UNCHANGED <<local, rw>>

EnsureCheckpointAfterPromote ==
  /\ leader.up /\ leader.promoted /\ ~leader.ckpt
  /\ \/ /\ leader.task \in {"ok", "failed"}
        /\ leader' = [leader EXCEPT !.ckpt = leader.task = "ok", !.task = "none"]
     \/ /\ leader.task = "none" /\ leader.control = Timeline(leader.wal)
        /\ leader' = [leader EXCEPT !.ckpt = TRUE]
     \/ /\ leader.task = "none" /\ leader.control # Timeline(leader.wal)
        /\ leader' = [leader EXCEPT !.task = "running"]
  /\ UNCHANGED <<local, rw>>

Checkpoint ==
  /\ leader.task = "running"
  /\ leader' = [leader EXCEPT !.task = "ok", !.control = Timeline(leader.wal)]
  /\ UNCHANGED <<local, rw>>

CheckpointFails ==
  /\ leader.task = "running" /\ local.faults < MaxFaults
  /\ leader' = [leader EXCEPT !.task = "failed"]
  /\ local' = [local EXCEPT !.faults = @ + 1] /\ UNCHANGED rw

TouchMember ==
  /\ leader.up
  /\ leader' = [leader EXCEPT !.shows = IF ~leader.promoted THEN "replica"
                                        ELSE IF leader.ckpt THEN "ready" ELSE "waiting"]
  /\ UNCHANGED <<local, rw>>

LeaderWrites ==
  /\ leader.up /\ leader.promoted /\ Len(leader.wal) < MaxLen
  /\ leader' = [leader EXCEPT !.wal = Append(@, Timeline(@))] /\ UNCHANGED <<local, rw>>

LeaderGone ==
  /\ leader.up /\ leader.promoted /\ Timeline(leader.wal) < MaxTimeline
  /\ leader' = [leader EXCEPT !.up = FALSE] /\ UNCHANGED <<local, rw>>

(* Another node, or the same one again, has won the race with a part of the *)
(* WAL.  The history files of older timelines are kept: timelines are unique*)
Elect ==
  /\ ~leader.up
  /\ \E n \in 1..Len(leader.wal), name \in Names :
       /\ leader.wal[n] = Timeline(leader.wal)
       /\ leader' = NewLeader_(SubSeq(leader.wal, 1, n), name, name = leader.name /\ leader.ckpt)
  /\ UNCHANGED <<local, rw>>

-----------------------------------------------------------------------------
Allow == "rewind" \in local.allowed \/ "remove" \in local.allowed
TriggerCheckDivergedLsn(r) ==
  IF Allow /\ r.state # "NEED" THEN [r EXCEPT !.state = "CHECK"] ELSE r

(* History of the leader's timelines: parent and switchpoint.               *)
Parents == {leader.wal[i] : i \in 1..Len(leader.wal)} \ {Timeline(leader.wal)}
Switchpoint(t) == CHOOSE i \in 1..Len(leader.wal) : leader.wal[i] = t /\ leader.wal[i + 1] # t

(* Where the node believes to be: pg_control of a crashed standby only has  *)
(* the minimum recovery ending location.                                    *)
LocalLsns ==
  IF local.proc = "up" \/ local.control = "shut down in recovery" THEN {Len(local.wal)}
  ELSE IF local.control = "shut down" THEN {Len(local.wal) - 1}
  ELSE IF local.control = "in archive recovery" THEN {n \in 1..Len(local.wal) : local.wal[n] = Timeline(local.wal)}
  ELSE {}
InRecovery == local.proc = "up" \/ local.control # "shut down"

NeedRewind(lsn) ==
  LET t == Timeline(local.wal) p == Timeline(leader.wal) IN
  \/ t > p
  \/ /\ t < p /\ t \notin Parents
  \/ /\ t < p /\ t \in Parents
     /\ IF InRecovery THEN lsn > Switchpoint(t)
        ELSE lsn >= Switchpoint(t) \/ Switchpoint(t) # lsn + 1

CheckTimelineAndLsn(r) ==
  IF r.state # "CHECK" \/ ~leader.up \/ leader.shows = "replica" \/ ~leader.promoted \/ LocalLsns = {}
  THEN {r}
  ELSE {[r EXCEPT !.state = IF NeedRewind(lsn) THEN "NEED" ELSE "NOT_NEED",
                  !.source = Timeline(leader.wal)] : lsn \in LocalLsns}

(* _handle_crash_recovery() and _handle_rewind_or_reinitialize(): the task  *)
(* that is started, or none.                                                *)
CrashRecoveryPossible(r) == ~r.crash /\ (~leader.up \/ "rewind" \in local.allowed)
NeededAndPossible(r) == leader.up /\ r.state = "NEED"
Task(r) ==
  IF ~NeededAndPossible(r) THEN "none"
  ELSE IF "rewind" \notin local.allowed THEN "reinitialize"
  ELSE IF local.proc = "down" /\ local.control = "in archive recovery" /\ CrashRecoveryPossible(r)
  THEN "crash recovery" ELSE "rewind"
Run(r, task) == [r EXCEPT !.task = task, !.crash = @ \/ task = "crash recovery"]

(* recover() of a node that does not hold the key.                          *)
Recover ==
  /\ local.proc = "down" /\ local.data # "empty" /\ rw.task = "none"
  /\ IF local.control = "production" /\ CrashRecoveryPossible(rw)
     THEN rw' = Run(rw, "crash recovery") /\ UNCHANGED local
     ELSE LET executed == rw.state \in {"SUCCESS", "FAILED"} IN
          \E r \in CheckTimelineAndLsn(IF executed THEN rw ELSE TriggerCheckDivergedLsn(rw)) :
            IF Task(r) # "none" THEN rw' = Run(r, Task(r)) /\ UNCHANGED local
            ELSE rw' = [r EXCEPT !.recovering = TRUE, !.task = "start"]
                 /\ local' = [local EXCEPT !.conf = IF leader.up THEN leader.name ELSE 0]
  /\ UNCHANGED leader

(* A cycle with PostgreSQL up: the state is reset after a recovery, then    *)
(* follow() looks at the leader and the timelines.                          *)
Recovered ==
  IF rw.recovering
  THEN [rw EXCEPT !.recovering = FALSE, !.crash = FALSE,
                  !.state = IF @ = "SUCCESS" THEN "INITIAL" ELSE @]
  ELSE rw

Behind == local.timeline # 0 /\ leader.shows # "replica" /\ local.timeline < Timeline(leader.wal)

(* Mutant of Follow: the timelines of member and leader are not compared.   *)
FollowWithoutTimeline ==
  /\ local.proc = "up" /\ rw.task = "none" /\ leader.up
  /\ \E r \in CheckTimelineAndLsn(Recovered) :
       IF Task(r) # "none" THEN rw' = Run(r, Task(r)) /\ UNCHANGED local
       ELSE IF local.conf # leader.name
       THEN rw' = TriggerCheckDivergedLsn(r) /\ local' = [local EXCEPT !.conf = leader.name]
       ELSE rw' = r /\ local' = [local EXCEPT !.timeline = Timeline(local.wal)]
  /\ UNCHANGED leader

Follow ==
  /\ local.proc = "up" /\ rw.task = "none" /\ leader.up
  /\ \E r \in CheckTimelineAndLsn(Recovered) :
       IF Task(r) # "none" THEN rw' = Run(r, Task(r)) /\ UNCHANGED local
       ELSE IF local.conf # leader.name
       THEN rw' = TriggerCheckDivergedLsn(r) /\ local' = [local EXCEPT !.conf = leader.name]
       ELSE /\ IF Behind THEN \E q \in CheckTimelineAndLsn(TriggerCheckDivergedLsn(r)) : rw' = Run(q, Task(q))
               ELSE rw' = r
            /\ local' = [local EXCEPT !.timeline = Timeline(local.wal)]
  /\ UNCHANGED leader

-----------------------------------------------------------------------------
(* The tasks of the executor.  ensure_clean_shutdown() runs PostgreSQL in   *)
(* single-user mode, without the recovery configuration.                    *)
EnsureCleanShutdown ==
  /\ rw.task = "crash recovery" /\ rw' = [rw EXCEPT !.task = "none"]
  /\ local' = [local EXCEPT !.control = "shut down", !.wal = Append(@, Timeline(@))]
  /\ UNCHANGED leader

(* execute() up to pg_rewind: the leader must show that it has run a        *)
(* checkpoint, and be a primary when it is asked.                           *)
Execute ==
  /\ rw.task = "rewind"
  /\ local' = [local EXCEPT !.proc = "down",
                            !.control = IF local.proc = "up" THEN "shut down in recovery" ELSE @]
  /\ rw' = [rw EXCEPT !.task = IF leader.up /\ leader.shows = "ready" /\ leader.promoted
                               THEN "pg_rewind" ELSE "none",
                      !.source = Timeline(leader.wal)]
  /\ UNCHANGED leader

(* pg_rewind goes by the timeline in the leader's pg_control.  It connects  *)
(* right after the check, and a leader that is demoted ends the connection. *)
Connected == leader.up /\ leader.promoted /\ rw.source = Timeline(leader.wal)

PgRewind ==
  /\ rw.task = "pg_rewind" /\ Connected
  /\ rw' = [rw EXCEPT !.task = "none", !.state = "SUCCESS"]
  /\ local' = [local EXCEPT !.data = "ok",
                 !.wal = IF leader.control = Timeline(leader.wal) THEN leader.wal ELSE @,
                 !.control = IF leader.control = Timeline(leader.wal) THEN "in archive recovery" ELSE @]
  /\ UNCHANGED leader

(* It fails: if the leader is there, or pg_control was damaged, for good;   *)
(* otherwise it is tried again.                                             *)
PgRewindFails ==
  /\ rw.task = "pg_rewind" /\ (Connected => local.faults < MaxFaults)
  /\ \E damaged \in BOOLEAN :
       LET failed == damaged \/ (leader.up /\ leader.promoted)
           removed == failed /\ "remove" \in local.allowed IN
       /\ rw' = [rw EXCEPT !.task = "none", !.state = IF removed THEN "INITIAL" ELSE IF failed THEN "FAILED" ELSE @]
       /\ local' = [local EXCEPT !.data = IF removed THEN "empty" ELSE IF failed THEN "damaged" ELSE @,
                                 !.faults = IF Connected THEN @ + 1 ELSE @]
  /\ UNCHANGED leader

(* _do_reinitialize(), and bootstrap() once the data directory is gone:     *)
(* clone() and follow().                                                    *)
Clone ==
  /\ rw.task = "reinitialize" \/ (rw.task = "none" /\ local.data = "empty")
  /\ leader.up /\ leader.promoted
  /\ local' = [local EXCEPT !.wal = leader.wal, !.data = "ok", !.control = "in archive recovery",
                            !.proc = "down", !.conf = leader.name]
  /\ rw' = [rw EXCEPT !.state = "INITIAL", !.task = "start"]
  /\ UNCHANGED leader

(* There is nobody to copy from.                                            *)
CloneFails ==
  /\ rw.task = "reinitialize" /\ ~leader.up
  /\ rw' = [rw EXCEPT !.task = "none", !.state = "INITIAL"]
  /\ local' = [local EXCEPT !.proc = "down", !.data = "empty"] /\ UNCHANGED leader

Start ==
  /\ rw.task = "start" /\ rw' = [rw EXCEPT !.task = "none"]
  /\ local' = [local EXCEPT !.proc = IF local.data = "ok" THEN "up" ELSE "down",
                            !.control = IF local.data = "ok" THEN "in archive recovery" ELSE @]
  /\ UNCHANGED leader

(* A standby only gets WAL that continues its own.                          *)
Stream ==
  /\ local.proc = "up" /\ leader.up /\ local.conf = leader.name
  /\ IsPrefix(local.wal, leader.wal) /\ local.wal # leader.wal
  /\ local' = [local EXCEPT !.wal = SubSeq(leader.wal, 1, Len(@) + 1)] /\ UNCHANGED <<leader, rw>>

Dies ==
  /\ local.proc = "up" /\ rw.task = "none" /\ local.faults < MaxFaults
  /\ local' = [local EXCEPT !.proc = "down", !.faults = @ + 1] /\ UNCHANGED <<leader, rw>>

RwLeader == Promote \/ EnsureCheckpointAfterPromote \/ Checkpoint \/ TouchMember \/ Elect
RwNode == Recover \/ Follow \/ EnsureCleanShutdown \/ Execute \/ PgRewind \/ PgRewindFails \/ Clone \/ CloneFails \/ Start

RwNext == RwLeader \/ RwNode \/ Stream \/ CheckpointFails \/ LeaderWrites \/ LeaderGone \/ Dies

-----------------------------------------------------------------------------
(* A successful pg_rewind leaves the node with a part of the WAL of the     *)
(* leader it was run against: it was not run before pg_control of the       *)
(* leader had the new timeline (checkpoint_after_promote).                  *)
RewoundFollows ==
  rw.state = "SUCCESS" /\ leader.promoted /\ rw.source = Timeline(leader.wal) => IsPrefix(local.wal, leader.wal)

(* A node that has to be rewound, restored or only started follows the      *)
(* leader again in the end, unless pg_rewind has failed for good.           *)
Joined == local.proc = "up" /\ IsPrefix(local.wal, leader.wal)
Rejoined == Joined \/ rw.state = "FAILED" \/ local.data = "damaged"
Rejoins == <>[]Rejoined
=============================================================================
