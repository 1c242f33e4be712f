------------------------------ MODULE Restarts ------------------------------
(* Restarts of PostgreSQL asked for over the REST API, at once or at a later*)
(* time, as the API threads and the HA loop carry them out.  What a thread  *)
(* does while it holds the executor's lock is one step.                     *)
EXTENDS Naturals, Integers, FiniteSets

CONSTANTS
  LoopWait,   \* loop_wait, in ticks
  MaxTime,    \* bound: time
  MaxStart    \* bound: starts of PostgreSQL

VARIABLES
  clock,  \* now
  pgs,    \* start: which postmaster runs; role; flag: a restart is pending; paused
  sched,  \* patroni.scheduled_restart: on, at, filter, start: the postmaster it
          \* was asked for, id
  exec,   \* the task of the executor: "none", "restart" or "promote"; id and
          \* start: of the scheduled restart it carries out, or 0
  api,    \* the request for an immediate restart: "none" or "matched"
  log     \* gone: cancelled schedules; last: the id given last; wrong: a restart
          \* was carried out for a postmaster it was not asked for; recovering

rsVars == <<clock, pgs, sched, exec, api, log>>

Roles == {"primary", "replica"}
Filters == {"any", "primary", "replica", "pending"}
NoSchedule == [on |-> FALSE, at |-> 0, filter |-> "any", start |-> 0, id |-> 0]
Idle == [task |-> "none", id |-> 0, start |-> 0]

RsInit ==
  /\ clock = 0 /\ sched = NoSchedule /\ exec = Idle /\ api = "none"
  /\ \E r \in Roles, f \in BOOLEAN : pgs = [start |-> 1, role |-> r, flag |-> f, paused |-> FALSE]
  /\ log = [gone |-> {}, last |-> 0, wrong |-> FALSE, recovering |-> FALSE]

RestartMatches(filter) ==
  CASE filter = "any" -> TRUE
    [] filter = "pending" -> pgs.flag
    [] OTHER -> filter = pgs.role

(* parse_schedule(), then schedule_future_restart() under the lock: there   *)
(* is one schedule.                                                         *)
ParseSchedule == {at \in clock..MaxTime : ~pgs.paused}
ScheduleFutureRestart(at, filter) ==
  IF sched.on THEN UNCHANGED <<sched, log>>
  ELSE /\ sched' = [on |-> TRUE, at |-> at, filter |-> filter, start |-> pgs.start, id |-> log.last + 1]
       /\ log' = [log EXCEPT !.last = @ + 1]

PostRestartAt ==
  /\ log.last < 2 /\ ~sched.on
  /\ \E at \in ParseSchedule, f \in {"any", "replica", "pending"} : ScheduleFutureRestart(at, f)
  /\ UNCHANGED <<clock, pgs, exec, api>>

DeleteFutureRestart == sched' = NoSchedule

DeleteRestart ==
  /\ sched.on /\ DeleteFutureRestart
  /\ log' = [log EXCEPT !.gone = @ \cup {sched.id}] /\ UNCHANGED <<clock, pgs, exec, api>>

-----------------------------------------------------------------------------
(* POST /restart without a schedule: the conditions are checked before the  *)
(* lock is taken.                                                           *)
PostRestart ==
  /\ api = "none" /\ pgs.start < MaxStart
  /\ \E f \in Filters : RestartMatches(f) /\ api' = "matched"
  /\ UNCHANGED <<clock, pgs, sched, exec, log>>

Restart ==
  /\ api # "none" /\ api' = "none"
  /\ IF exec.task # "none" THEN UNCHANGED <<exec, log>>
     ELSE exec' = [Idle EXCEPT !.task = "restart"] /\ log' = [log EXCEPT !.recovering = TRUE]
  /\ UNCHANGED <<clock, pgs, sched>>

(* should_run_scheduled_action(): not yet, too late, or now.                *)
Delta == sched.at - clock
NotYet == Delta > LoopWait
TooLate == Delta < -((LoopWait * 3) \div 2)

(* Mutant of EvaluateScheduledRestart: an earlier restart does not count.   *)
EvaluateAnyStart ==
  /\ exec.task = "none" /\ sched.on /\ ~pgs.paused /\ ~NotYet
  /\ DeleteFutureRestart
  /\ IF ~TooLate /\ RestartMatches(sched.filter)
     THEN exec' = [task |-> "restart", id |-> sched.id, start |-> sched.start] /\ log' = [log EXCEPT !.recovering = TRUE]
     ELSE UNCHANGED <<exec, log>>
  /\ UNCHANGED <<clock, pgs, api>>

(* evaluate_scheduled_restart(), at the end of a cycle.                     *)
EvaluateScheduledRestart ==
  /\ exec.task = "none" /\ sched.on
  /\ \/ sched.start # pgs.start /\ DeleteFutureRestart /\ UNCHANGED <<exec, log>>
     \/ /\ sched.start = pgs.start /\ ~pgs.paused /\ ~NotYet
        /\ DeleteFutureRestart
        /\ IF ~TooLate /\ RestartMatches(sched.filter)
           THEN exec' = [task |-> "restart", id |-> sched.id, start |-> sched.start] /\ log' = [log EXCEPT !.recovering = TRUE]
           ELSE UNCHANGED <<exec, log>>
  /\ UNCHANGED <<clock, pgs, api>>

(* The restart in the executor; the flag is reset by the start.             *)
DoRestart ==
  /\ exec.task = "restart"
  /\ pgs' = [pgs EXCEPT !.start = @ + 1, !.flag = FALSE] /\ exec' = Idle
  /\ log' = [log EXCEPT !.wrong = @ \/ exec.id \in log.gone \/ (exec.id # 0 /\ exec.start # pgs.start)]
  /\ UNCHANGED <<clock, sched, api>>

(* The next cycle finds PostgreSQL up; otherwise post_recover() gives the   *)
(* leader key away.                                                         *)
PostRecover ==
  /\ log.recovering /\ exec.task = "none"
  /\ log' = [log EXCEPT !.recovering = FALSE]
  /\ \/ UNCHANGED pgs
     \/ pgs.role = "primary" /\ pgs' = [pgs EXCEPT !.role = "replica"]
  /\ UNCHANGED <<clock, sched, exec, api>>

(* The cluster goes on: failovers, configuration changes, pause, restarts   *)
(* by other means.                                                          *)
PromoteTask ==
  /\ exec.task = "none" /\ pgs.role = "replica"
  /\ exec' = [Idle EXCEPT !.task = "promote"] /\ UNCHANGED <<clock, pgs, sched, api, log>>
Promoted ==
  /\ exec.task = "promote" /\ exec' = Idle /\ pgs' = [pgs EXCEPT !.role = "primary"]
  /\ UNCHANGED <<clock, sched, api, log>>
NeedsRestart == ~pgs.flag /\ pgs' = [pgs EXCEPT !.flag = TRUE] /\ UNCHANGED <<clock, sched, exec, api, log>>
Pause == pgs' = [pgs EXCEPT !.paused = ~@] /\ UNCHANGED <<clock, sched, exec, api, log>>
RestartsByItself ==
  /\ exec.task = "none" /\ pgs.start < MaxStart /\ pgs' = [pgs EXCEPT !.start = @ + 1, !.flag = FALSE]
  /\ UNCHANGED <<clock, sched, exec, api, log>>
Tick == clock < MaxTime + 2 * LoopWait + 1 /\ clock' = clock + 1 /\ UNCHANGED <<pgs, sched, exec, api, log>>

RsNext ==
  \/ PostRestartAt \/ DeleteRestart \/ PostRestart \/ Restart \/ EvaluateScheduledRestart \/ DoRestart \/ PostRecover
  \/ PromoteTask \/ Promoted \/ NeedsRestart \/ Pause \/ RestartsByItself \/ Tick

RsSpec == RsInit /\ [][RsNext]_rsVars

-----------------------------------------------------------------------------
(* A scheduled restart is not carried out after it was deleted, nor for     *)
(* another postmaster than the one that ran when it was asked for           *)
(* (postmaster_start_time).                                                 *)
RestartsAsAsked == ~log.wrong

=============================================================================
