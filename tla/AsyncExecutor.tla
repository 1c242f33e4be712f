---------------------------- MODULE AsyncExecutor ----------------------------
(* The executor of long tasks: the HA loop and the REST API schedule a task,*)
(* a thread of the pool runs it, and a forced reinitialize or the shutdown  *)
(* cancels it.  Every step is one block under one lock: run_cycle() holds   *)
(* the executor's lock for a whole cycle, the worker only for the blocks    *)
(* around the task.                                                         *)
EXTENDS Naturals, FiniteSets

CONSTANTS
  MaxTasks,    \* bound: tasks scheduled in a behaviour
  ForceReinit  \* the values of "force" in requests to reinitialize

Tasks == 1..MaxTasks
NoTask == 0

VARIABLES
  ex,     \* AsyncExecutor: action: the task scheduled_action stands for;
          \* cancelled; event: _finish_event; submitted: tasks so far
  crit,   \* CriticalTask: cancelled, result; denied: tasks that were
          \* cancelled successfully
  sub,    \* CancellableSubprocess: cancelled; process: the task whose
          \* subprocess runs
  worker, \* [Tasks -> where the thread of a task is]
  caller  \* of cancel(): at; stopping: for the shutdown, after which there
          \* are no more cycles and requests

execVars == <<ex, crit, sub, worker, caller>>

NoResult == [cancelled |-> FALSE, result |-> FALSE]

ExecInit ==
  /\ ex = [action |-> NoTask, cancelled |-> FALSE, event |-> FALSE, submitted |-> 0]
  /\ crit = [cancelled |-> FALSE, result |-> FALSE, denied |-> {}]
  /\ sub = [cancelled |-> FALSE, process |-> NoTask]
  /\ worker = [t \in Tasks |-> "none"]
  /\ caller = [at |-> "idle", stopping |-> FALSE]

Submit ==
  /\ ex' = [action |-> ex.submitted + 1, cancelled |-> FALSE, event |-> TRUE, submitted |-> ex.submitted + 1]
  /\ worker' = [worker EXCEPT ![ex.submitted + 1] = "queued"]

(* Mutant of Schedule: a busy executor takes another task.                  *)
ScheduleAlways == ex.submitted < MaxTasks /\ Submit

(* schedule() and run_async(): a task is only taken by an idle executor.    *)
Schedule == ex.action = NoTask /\ ex.submitted < MaxTasks /\ Submit

(* A cycle of the HA loop, or a restart asked for by the REST API, that     *)
(* starts a task.                                                           *)
TryRunAsync == ~caller.stopping /\ Schedule /\ UNCHANGED <<crit, sub, caller>>

(* Mutant of CancelCritical: cancels a task that has completed.             *)
CancelTooLate ==
  /\ ~caller.stopping /\ ex.action # NoTask
  /\ crit' = [crit EXCEPT !.cancelled = TRUE, !.denied = @ \cup {ex.action}]
  /\ UNCHANGED <<ex, sub, worker, caller>>

(* handle_long_action_in_progress(): the lock is lost during a restart.     *)
(* CriticalTask.cancel() answers False once there is a result.              *)
CancelCritical ==
  /\ ~caller.stopping /\ ex.action # NoTask /\ ~crit.result
  /\ crit' = [crit EXCEPT !.cancelled = TRUE, !.denied = @ \cup {ex.action}]
  /\ UNCHANGED <<ex, sub, worker, caller>>

-----------------------------------------------------------------------------
(* AsyncExecutor.run(), in the thread of task t.                            *)
Goto(t, place) == worker' = [worker EXCEPT ![t] = place]

Begin(t) ==
  /\ worker[t] = "queued"
  /\ IF ex.cancelled THEN Goto(t, "finally") /\ UNCHANGED ex
     ELSE Goto(t, "begun") /\ ex' = [ex EXCEPT !.event = FALSE]
  /\ UNCHANGED <<crit, sub, caller>>

ResetIsCancelled(t) ==
  /\ worker[t] = "begun" /\ Goto(t, "task") /\ sub' = [sub EXCEPT !.cancelled = FALSE]
  /\ UNCHANGED <<ex, crit, caller>>

(* Postgresql.start() under the lock of the critical task.                  *)
StartPostmaster(t) ==
  /\ worker[t] = "task"
  /\ IF crit.cancelled THEN Goto(t, "finally") /\ UNCHANGED crit
     ELSE Goto(t, "started") /\ crit' = [crit EXCEPT !.result = TRUE]
  /\ UNCHANGED <<ex, sub, caller>>

(* CancellableSubprocess.call(): raises when it was cancelled before.       *)
CallSubprocess(t) ==
  /\ worker[t] \in {"task", "started"}
  /\ IF sub.cancelled THEN Goto(t, "finally") /\ UNCHANGED sub
     ELSE Goto(t, "subprocess") /\ sub' = [sub EXCEPT !.process = t]
  /\ UNCHANGED <<ex, crit, caller>>

(* The subprocess ends, by itself or because it was terminated or killed.   *)
SubprocessEnds(t) ==
  /\ worker[t] = "subprocess" /\ Goto(t, "finally") /\ sub' = [sub EXCEPT !.process = NoTask]
  /\ UNCHANGED <<ex, crit, caller>>

(* Mutant of Finally: the event is not set.                                 *)
FinallyWithoutEvent(t) ==
  /\ worker[t] = "finally" /\ Goto(t, "done")
  /\ ex' = [ex EXCEPT !.action = NoTask]
  /\ crit' = [crit EXCEPT !.cancelled = FALSE, !.result = FALSE]
  /\ UNCHANGED <<sub, caller>>

(* Event.set() wakes whoever waits, even if the event is cleared again      *)
(* before the waiting thread runs.                                          *)
Finally(t) ==
  /\ worker[t] = "finally" /\ Goto(t, "done")
  /\ ex' = [ex EXCEPT !.action = NoTask, !.event = TRUE]
  /\ crit' = [crit EXCEPT !.cancelled = FALSE, !.result = FALSE]
  /\ caller' = [caller EXCEPT !.at = IF @ = "waiting" THEN "woken" ELSE @]
  /\ UNCHANGED sub

-----------------------------------------------------------------------------
(* reinitialize() and shutdown(), which begin with cancel().                *)
Reinitialize ==
  /\ ~caller.stopping /\ caller.at = "idle" /\ ex.submitted < MaxTasks
  /\ \E force \in ForceReinit : caller' = [caller EXCEPT !.at = IF force THEN "cancel" ELSE "schedule"]
  /\ UNCHANGED <<ex, crit, sub, worker>>

Shutdown ==
  /\ caller = [at |-> "idle", stopping |-> FALSE] /\ caller' = [at |-> "cancel", stopping |-> TRUE]
  /\ UNCHANGED <<ex, crit, sub, worker>>

Return == [caller EXCEPT !.at = IF caller.stopping THEN "stopped" ELSE "schedule"]

(* cancel(): the flag, under the lock; the subprocess; then the wait.       *)
CancelTask ==
  /\ caller.at = "cancel"
  /\ IF ex.action = NoTask THEN caller' = Return /\ UNCHANGED ex
     ELSE caller' = [caller EXCEPT !.at = "kill"] /\ ex' = [ex EXCEPT !.cancelled = TRUE]
  /\ UNCHANGED <<crit, sub, worker>>

(* Mutant of CancelSubprocess: the end of the task is not waited for.       *)
CancelWithoutWait ==
  /\ caller.at = "kill" /\ sub' = [sub EXCEPT !.cancelled = TRUE]
  /\ caller' = [caller EXCEPT !.at = "woken"]
  /\ UNCHANGED <<ex, crit, worker>>

CancelSubprocess ==
  /\ caller.at = "kill" /\ sub' = [sub EXCEPT !.cancelled = TRUE]
  /\ caller' = [caller EXCEPT !.at = IF ex.event THEN "woken" ELSE "waiting"]
  /\ UNCHANGED <<ex, crit, worker>>

ResetAction ==
  /\ caller.at = "woken" /\ ex' = [ex EXCEPT !.action = NoTask] /\ caller' = Return
  /\ UNCHANGED <<crit, sub, worker>>

ScheduleReinit ==
  /\ caller.at = "schedule" /\ caller' = [caller EXCEPT !.at = "idle"]
  /\ IF ex.action = NoTask /\ ex.submitted < MaxTasks THEN Schedule ELSE UNCHANGED <<ex, worker>>
  /\ UNCHANGED <<crit, sub>>

ExecWork(t) ==
  \/ Begin(t) \/ ResetIsCancelled(t) \/ StartPostmaster(t) \/ CallSubprocess(t)
  \/ SubprocessEnds(t) \/ Finally(t)

ExecCancel == CancelTask \/ CancelSubprocess \/ ResetAction \/ ScheduleReinit

ExecNext ==
  \/ TryRunAsync \/ CancelCritical \/ Reinitialize \/ Shutdown
  \/ ExecCancel \/ \E t \in Tasks : ExecWork(t)

ExecSpec == ExecInit /\ [][ExecNext]_execVars

-----------------------------------------------------------------------------
InTask == {t \in Tasks : worker[t] \in {"begun", "task", "started", "subprocess"}}

(* CancellableExecutor: "There must be only one such process so that        *)
(* AsyncExecutor can easily cancel it."  No two tasks run at once, whatever *)
(* is scheduled, cancelled and woken in between.                            *)
OneTaskAtATime == \A s, t \in InTask : s = t

(* CriticalTask: "When cancel() returns True it is guaranteed that the      *)
(* background task will notice the is_cancelled flag": no postmaster is     *)
(* started by a task the HA loop cancelled.                                 *)
CancelledNeverStarts == \A t \in crit.denied : worker[t] # "started"

(* When the cancel() of the shutdown has returned, no task touches          *)
(* PostgreSQL any more.                                                     *)
ShutdownQuiesces == caller.at = "stopped" => InTask = {}

(* Only the task the executor was asked for works on PostgreSQL.            *)
TasksUnderControl == OneTaskAtATime /\ CancelledNeverStarts /\ ShutdownQuiesces

(* cancel() returns, also when the task had just begun and missed the       *)
(* cancellation of its subprocess.                                          *)
CancelReturns == caller.at = "waiting" ~> caller.at # "waiting"
=============================================================================
