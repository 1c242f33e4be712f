----------------------------- MODULE Postgresql -----------------------------
(* One node's PostgreSQL as Patroni starts, stops, restarts, reconfigures   *)
(* and promotes it, and the callbacks that tell the outside world about it. *)
(* One operation runs at a time; the postmaster and the thread that runs    *)
(* the callbacks go their own way.                                          *)
EXTENDS Naturals

CONSTANT MaxOps  \* bound: operations of a behaviour

VARIABLES
  os,  \* proc: "none", "starting", "running" or "stopping"; standby: a
       \* recovery configuration is in place; users: clients have backends;
       \* safe: on_safepoint() was called, the watchdog is disarmed
  pg,  \* state, role, pending: __cb_pending, called: __cb_called, ops so far
  op,  \* the operation in progress: step, block: block_callbacks, restart:
       \* within restart(), change: change_role of follow(), role it asks for,
       \* listed: user backends are waited for
  cb   \* CallbackExecutor: slot: _cmd, running and last: the role that the
       \* callback that runs, or ran last, was given

pgVars == <<os, pg, op, cb>>

Roles == {"primary", "promoted", "replica", "standby_leader", "demoted"}
None_ == "none"
NoOp == [step |-> "idle", block |-> FALSE, restart |-> FALSE, change |-> FALSE, role |-> None_,
         listed |-> FALSE]

PgInit ==
  \E standby \in BOOLEAN :
    /\ os = [proc |-> "none", standby |-> standby, users |-> FALSE, safe |-> FALSE]
    /\ pg = [state |-> "stopped", role |-> IF standby THEN "replica" ELSE "primary",
             pending |-> None_, called |-> FALSE, ops |-> 0]
    /\ op = NoOp
    /\ cb = [slot |-> None_, running |-> None_, last |-> None_]

-----------------------------------------------------------------------------
(* call_nowait() of anything but on_reload: call() kills the callback that  *)
(* runs, or leaves it running if it cannot, and fills the slot.             *)
Announced(role) == IF role = "promoted" THEN "primary" ELSE role
CallNowait(c, role) ==
  {[c EXCEPT !.slot = Announced(role), !.running = r] : r \in {None_, c.running}}

(* Mutant of RunCallback: the slot is emptied after the callback was waited *)
(* for instead of when it was started.                                      *)
RunThenClear ==
  \/ /\ cb.slot # None_ /\ cb.running = None_
     /\ cb' = [cb EXCEPT !.running = cb.slot, !.last = cb.slot]
     /\ UNCHANGED <<os, pg, op>>
  \/ /\ cb.running # None_ /\ cb' = [cb EXCEPT !.running = None_, !.slot = None_]
     /\ UNCHANGED <<os, pg, op>>

(* CallbackExecutor.run().                                                  *)
RunCallback ==
  \/ /\ cb.slot # None_ /\ cb.running = None_
     /\ cb' = [slot |-> None_, running |-> cb.slot, last |-> cb.slot]
     /\ UNCHANGED <<os, pg, op>>
  \/ /\ cb.running # None_ /\ cb' = [cb EXCEPT !.running = None_]
     /\ UNCHANGED <<os, pg, op>>

-----------------------------------------------------------------------------
(* start(), once it has been decided on: the role is the one asked for or   *)
(* the one the data directory tells.                                        *)
RoleFromDataDirectory == IF os.standby THEN "replica" ELSE "primary"

(* PostmasterProcess.from_pidfile() and start(): a stale postmaster.pid is  *)
(* recognised and ignored.                                                  *)
IsRunning == os.proc # "none"
Spawn == os' = [os EXCEPT !.proc = "starting", !.users = FALSE, !.safe = FALSE]

Start ==
  /\ op.step = "start"
  /\ IF IsRunning
     THEN pg' = [pg EXCEPT !.state = "starting"] /\ op' = [op EXCEPT !.step = "finish"] /\ UNCHANGED os
     ELSE /\ pg' = [pg EXCEPT !.state = "starting",
                              !.pending = IF op.block THEN @ ELSE "start",
                              !.role = IF op.role = None_ THEN RoleFromDataDirectory ELSE op.role]
          /\ Spawn
          /\ op' = [op EXCEPT !.step = "wait"]
  /\ UNCHANGED cb

(* check_startup_state_changed(): what was pending is called, or on_start   *)
(* if PostgreSQL has restarted by itself.                                   *)
StartupChanged ==
  /\ pg.state = "starting"
  /\ \/ /\ os.proc = "none"
        /\ pg' = [pg EXCEPT !.state = "start_failed"] /\ UNCHANGED cb
     \/ /\ os.proc = "running"
        /\ pg' = [pg EXCEPT !.state = "running", !.pending = None_,
                            !.called = IF pg.pending = "noop" THEN @ ELSE TRUE]
        /\ IF pg.pending = "noop" THEN UNCHANGED cb ELSE cb' \in CallNowait(cb, pg.role)

(* wait_for_startup(): until PostgreSQL is up or gone, or the time is up.   *)
WaitForStartup ==
  /\ op.step = "wait" /\ op' = [op EXCEPT !.step = "finish"] /\ UNCHANGED os
  /\ StartupChanged \/ UNCHANGED <<pg, cb>>

(* The HA loop looks at a PostgreSQL that is still starting.                *)
CheckForStartup == op = NoOp /\ StartupChanged /\ UNCHANGED <<os, op>>

(* Mutant of Finish: follow() leaves the role change to the callback that   *)
(* start() has pending.                                                     *)
FinishSilently ==
  /\ op.step = "finish" /\ op' = NoOp
  /\ pg' = [pg EXCEPT !.state = IF op.restart /\ @ \notin {"running", "starting"} THEN "restart_failed" ELSE @]
  /\ UNCHANGED <<cb, os>>

(* The end of start(), restart() and follow().                              *)
Finish ==
  /\ op.step = "finish" /\ op' = NoOp
  /\ pg' = [pg EXCEPT !.state = IF op.restart /\ @ \notin {"running", "starting"} THEN "restart_failed" ELSE @,
                      !.called = @ \/ op.change]
  /\ IF op.change THEN cb' \in CallNowait(cb, pg.role) ELSE UNCHANGED cb
  /\ UNCHANGED os

-----------------------------------------------------------------------------
(* stop(): nothing runs, the signal fails, or the postmaster shuts down.    *)
Stopped(called) ==
  IF op.restart
  THEN op' = [op EXCEPT !.step = "start", !.block = TRUE] /\ UNCHANGED <<pg, cb>>
  ELSE /\ op' = NoOp
       /\ pg' = [pg EXCEPT !.state = "stopped", !.called = @ \/ called]
       /\ IF called THEN cb' \in CallNowait(cb, pg.role) ELSE UNCHANGED cb

SignalStop ==
  \/ op' = [op EXCEPT !.step = "signaled"] /\ pg' = [pg EXCEPT !.state = IF op.restart THEN @ ELSE "stopping"]
  \/ /\ pg' = [pg EXCEPT !.state = "stop_failed"]
     /\ op' = IF op.restart THEN [op EXCEPT !.step = "finish"] ELSE NoOp

Stop ==
  /\ op.step = "stop"
  /\ \/ ~IsRunning /\ Stopped(FALSE) /\ os' = [os EXCEPT !.safe = ~op.restart]
     \/ IsRunning /\ SignalStop /\ UNCHANGED <<os, cb>>

(* Mutant of WaitForConnectionClose: the signal is taken for its effect.    *)
CloseAtOnce ==
  /\ op.step = "signaled"
  /\ op' = [op EXCEPT !.step = IF op.restart THEN "stopping" ELSE "backends", !.listed = os.users]
  /\ UNCHANGED <<os, pg, cb>>

(* _wait_for_connection_close(): the postmaster has begun to shut down and  *)
(* takes no more clients; then its children are listed.                     *)
WaitForConnectionClose ==
  /\ op.step = "signaled" /\ os.proc \in {"stopping", "none"}
  /\ op' = [op EXCEPT !.step = IF op.restart THEN "stopping" ELSE "backends", !.listed = os.users]
  /\ UNCHANGED <<os, pg, cb>>

(* wait_for_user_backends_to_close(): they are gone, or the time is up.     *)
WaitForUserBackends ==
  /\ op.step = "backends" /\ op' = [op EXCEPT !.step = "stopping"]
  /\ \/ (op.listed => ~os.users) /\ os' = [os EXCEPT !.safe = TRUE]
     \/ UNCHANGED os
  /\ UNCHANGED <<pg, cb>>

(* postmaster.wait() returns, or terminate_postmaster() has made an end.    *)
PostmasterGone ==
  /\ op.step = "stopping"
  /\ os' = [os EXCEPT !.proc = "none", !.users = FALSE, !.safe = ~op.restart]
  /\ Stopped(TRUE)

-----------------------------------------------------------------------------
Begin(next) == op = NoOp /\ pg.ops < MaxOps /\ op' = next

DoStart ==
  /\ Begin([NoOp EXCEPT !.step = "start"])
  /\ pg' = [pg EXCEPT !.ops = @ + 1] /\ UNCHANGED <<os, cb>>

DoStop ==
  /\ Begin([NoOp EXCEPT !.step = "stop"])
  /\ pg' = [pg EXCEPT !.ops = @ + 1] /\ UNCHANGED <<os, cb>>

(* Ha.demote() after it has stopped PostgreSQL.                             *)
SetDemoted ==
  /\ op = NoOp /\ os.proc = "none" /\ pg.role = "primary"
  /\ pg' = [pg EXCEPT !.role = "demoted"] /\ UNCHANGED <<os, op, cb>>

DoRestart ==
  /\ Begin([NoOp EXCEPT !.step = "stop", !.restart = TRUE])
  /\ pg' = [pg EXCEPT !.ops = @ + 1, !.state = "restarting", !.pending = "restart"] /\ UNCHANGED <<os, cb>>

(* follow(): recovery configuration, then reload, restart or start.  The    *)
(* callback is on_role_change if one was called before and the role changes.*)
ChangeRole(role) ==
  pg.called /\ (pg.role \in {"primary", "demoted"} \/ {pg.role, role} = {"replica", "standby_leader"})

DoFollow ==
  \E role \in {"replica", "standby_leader"}, reload \in BOOLEAN :
    LET change == ChangeRole(role)
        pending == IF change THEN "noop" ELSE pg.pending IN
    IF IsRunning /\ reload
    THEN /\ pg.role # "primary" /\ Begin([NoOp EXCEPT !.step = "finish", !.change = change])
         /\ pg' = [pg EXCEPT !.ops = @ + 1, !.pending = pending, !.role = IF change THEN role ELSE @]
         /\ os' = [os EXCEPT !.standby = TRUE] /\ UNCHANGED cb
    ELSE LET running == IsRunning IN
         /\ Begin([step |-> IF running THEN "stop" ELSE "start", block |-> change, restart |-> running,
                   change |-> change, role |-> role, listed |-> FALSE])
         /\ pg' = [pg EXCEPT !.ops = @ + 1,
                             !.state = IF running THEN "restarting" ELSE @,
                             !.pending = IF running /\ ~change THEN "restart" ELSE pending]
         /\ os' = [os EXCEPT !.standby = TRUE] /\ UNCHANGED cb

(* promote(): pre_promote and pg_ctl may fail; otherwise the role is        *)
(* promoted until the control file says that PostgreSQL is in production.   *)
DoPromote ==
  /\ os.proc = "running" /\ pg.state = "running" /\ pg.role \notin {"primary", "promoted"}
  /\ Begin([NoOp EXCEPT !.step = "promoted"])
  /\ os' = [os EXCEPT !.standby = FALSE]
  /\ pg' = [pg EXCEPT !.ops = @ + 1, !.role = "promoted", !.called = TRUE]
  /\ cb' \in CallNowait(cb, "promoted")

WaitPromote ==
  /\ op.step = "promoted" /\ op' = NoOp
  /\ pg' = [pg EXCEPT !.role = IF os.proc = "running" THEN "primary" ELSE @]
  /\ UNCHANGED <<os, cb>>

(* PostgreSQL opens its connections; it may die at any time.                *)
ComesUp == os.proc = "starting" /\ os' = [os EXCEPT !.proc = "running"] /\ UNCHANGED <<pg, op, cb>>
Dies ==
  /\ os.proc \in {"starting", "running"}
  /\ os' = [os EXCEPT !.proc = "none", !.users = FALSE] /\ UNCHANGED <<pg, op, cb>>

(* Clients connect until the postmaster acts on the signal.                 *)
Connect == os.proc = "running" /\ ~os.users /\ os' = [os EXCEPT !.users = TRUE] /\ UNCHANGED <<pg, op, cb>>
ShutsDown ==
  /\ os.proc \in {"starting", "running"} /\ op.step \in {"signaled", "backends", "stopping"}
  /\ os' = [os EXCEPT !.proc = "stopping"] /\ UNCHANGED <<pg, op, cb>>
BackendsEnd == os.proc = "stopping" /\ os.users /\ os' = [os EXCEPT !.users = FALSE] /\ UNCHANGED <<pg, op, cb>>

PgNext ==
  \/ Start \/ WaitForStartup \/ CheckForStartup \/ Finish \/ Stop \/ WaitForConnectionClose
  \/ WaitForUserBackends \/ PostmasterGone \/ WaitPromote
  \/ RunCallback \/ ComesUp \/ Dies \/ Connect \/ ShutsDown \/ BackendsEnd
  \/ DoStart \/ DoStop \/ SetDemoted \/ DoRestart \/ DoFollow \/ DoPromote

PgSpec == PgInit /\ [][PgNext]_pgVars

-----------------------------------------------------------------------------
(* When PostgreSQL is up and nothing is in progress, the callback that was  *)
(* requested last was given the role the node has: what the callbacks       *)
(* maintain (a virtual IP, a DNS record) does not point at a former role.   *)
RoleAnnounced ==
  op = NoOp /\ pg.state = "running" /\ os.proc = "running" =>
    Announced(pg.role) = IF cb.slot # None_ THEN cb.slot ELSE cb.last

(* stop(): "A safepoint is when no user backend can return a successful     *)
(* commit to users": once the watchdog was disarmed for a stop, no client   *)
(* has a backend before PostgreSQL is started again.                        *)
SafepointIsSafe == os.safe => ~os.users
=============================================================================
