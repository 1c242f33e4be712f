------------------------------- MODULE MCNode -------------------------------
(* The parts of one node for TLC, each on its own: part says which one a    *)
(* behaviour is about.                                                      *)
EXTENDS Naturals, Sequences, FiniteSets

CONSTANTS Nodes, None,
  Hosts,        \* RecoveryConf: nodes to stream from
  Parts,        \* the parts that are checked
  ForceReinit,  \* AsyncExecutor: requests to reinitialize are forced
  Mixed,        \* Bootstrap: nodes with data meet nodes that bootstrap
  MaxTasks, MaxOps, MaxTimeline, MaxLen, MaxDeaths, MaxFaults, LoopWait, MaxTime, MaxStart

VARIABLES
  part,
  ex, crit, sub, worker, caller,      \* AsyncExecutor
  os, pg, op, cb,                     \* Postgresql
  local, leader, rw,                  \* Rewind
  key, node, faults,                  \* Bootstrap
  clock, pgs, sched, exec, api, log,  \* Restarts
  want, srv, pat, used                \* PgParameters, RecoveryConf

AE == INSTANCE AsyncExecutor
PG == INSTANCE Postgresql
RW == INSTANCE Rewind WITH MaxFaults <- MaxDeaths
BS == INSTANCE Bootstrap
RS == INSTANCE Restarts
PV == INSTANCE PgParameters WITH Values <- 1..3, Faults <- {}, MaxChanges <- 3
RC == INSTANCE RecoveryConf WITH NeedsRestart <- FALSE, Password <- TRUE, LateReload <- FALSE, MaxChanges <- 4

execVars == <<ex, crit, sub, worker, caller>>
pgVars == <<os, pg, op, cb>>
rwVars == <<local, leader, rw>>
bootVars == <<key, node, faults>>
rsVars == <<clock, pgs, sched, exec, api, log>>
confVars == <<want, srv, pat, used>>

vars == <<part, execVars, pgVars, rwVars, bootVars, rsVars, confVars>>

(* The variables of the other parts are 0.                                  *)
Init ==
  /\ part \in Parts
  /\ IF part = "executor" THEN AE!ExecInit ELSE ex = 0 /\ crit = 0 /\ sub = 0 /\ worker = 0 /\ caller = 0
  /\ IF part = "postgresql" THEN PG!PgInit ELSE os = 0 /\ pg = 0 /\ op = 0 /\ cb = 0
  /\ IF part = "rewind" THEN RW!RwInit ELSE local = 0 /\ leader = 0 /\ rw = 0
  /\ IF part = "bootstrap" THEN BS!BootInit ELSE key = 0 /\ node = 0 /\ faults = 0
  /\ IF part = "restarts" THEN RS!RsInit ELSE clock = 0 /\ pgs = 0 /\ sched = 0 /\ exec = 0 /\ api = 0 /\ log = 0
  /\ \/ part = "parameters" /\ PV!PvInit
     \/ part = "recovery conf" /\ RC!RcInit
     \/ part \notin {"parameters", "recovery conf"} /\ want = 0 /\ srv = 0 /\ pat = 0 /\ used = 0

Next ==
  /\ UNCHANGED part
  /\ IF part = "executor" THEN AE!ExecNext ELSE UNCHANGED execVars
  /\ IF part = "postgresql" THEN PG!PgNext ELSE UNCHANGED pgVars
  /\ IF part = "rewind" THEN RW!RwNext ELSE UNCHANGED rwVars
  /\ IF part = "bootstrap" THEN BS!BootNext ELSE UNCHANGED bootVars
  /\ IF part = "restarts" THEN RS!RsNext ELSE UNCHANGED rsVars
  /\ \/ part = "parameters" /\ PV!PvNext
     \/ part = "recovery conf" /\ RC!RcNext
     \/ part \notin {"parameters", "recovery conf"} /\ UNCHANGED confVars

(* The threads of the pool and the caller of cancel() keep running, and     *)
(* every subprocess ends.                                                   *)
ExecutorFairness ==
  /\ WF_execVars(part = "executor" /\ AE!ExecCancel)
  /\ \A t \in 1..MaxTasks : WF_execVars(part = "executor" /\ AE!ExecWork(t))

(* The leader and the node run their cycles; the tasks, promotions and      *)
(* checkpoints that were begun end; a new leader is elected.                *)
RewindFairness ==
  LET Does(A) == part = "rewind" /\ A IN
  /\ WF_rwVars(Does(RW!Promote)) /\ WF_rwVars(Does(RW!EnsureCheckpointAfterPromote))
  /\ WF_rwVars(Does(RW!Checkpoint)) /\ WF_rwVars(Does(RW!TouchMember)) /\ WF_rwVars(Does(RW!Elect))
  /\ WF_rwVars(Does(RW!RwNode)) /\ WF_rwVars(Does(RW!Stream))

(* Every node runs its cycles and the tasks end.                            *)
BootstrapFairness == \A n \in Nodes : WF_bootVars(part = "bootstrap" /\ BS!BootStep(n))

(* Patroni's cycles run, and PostgreSQL starts.                             *)
ParametersFairness ==
  LET Does(A) == part = "parameters" /\ A IN
  /\ WF_confVars(Does(PV!RunCycle)) /\ WF_confVars(Does(PV!Start)) /\ WF_confVars(Does(PV!ComesUp))
  /\ WF_confVars(Does(PV!HandleParameterChange))

(* The same, and the node to follow accepts connections.                    *)
RecoveryConfFairness ==
  LET Does(A) == part = "recovery conf" /\ A IN
  /\ WF_confVars(Does(RC!Follow)) /\ WF_confVars(Does(RC!FollowStarting)) /\ WF_confVars(Does(RC!Recover))
  /\ WF_confVars(Does(RC!Start)) /\ WF_confVars(Does(RC!ComesUp)) /\ WF_confVars(Does(RC!Reload))
  /\ \A h \in Hosts : WF_confVars(Does(want = h /\ RC!Connect(h)))

Spec ==
  /\ Init /\ [][Next]_vars
  /\ ExecutorFairness /\ RewindFairness /\ BootstrapFairness
  /\ ParametersFairness /\ RecoveryConfFairness

-----------------------------------------------------------------------------
(* AsyncExecutor: no two tasks run at once, a task whose critical part was  *)
(* cancelled starts no postmaster, and no task runs after the shutdown's    *)
(* cancel().                                                                *)
TasksUnderControl == part = "executor" => AE!TasksUnderControl

(* AsyncExecutor: cancel() returns.                                         *)
CancelReturns == (part = "executor" /\ caller.at = "waiting") ~> (part = "executor" => caller.at # "waiting")

(* Postgresql: the callbacks were told the role the node has.               *)
RoleAnnounced == part = "postgresql" => PG!RoleAnnounced

(* Postgresql: the watchdog is only disarmed when no client can commit.     *)
SafepointIsSafe == part = "postgresql" => PG!SafepointIsSafe

(* Rewind: a successful pg_rewind leaves a part of the leader's WAL.        *)
RewoundFollows == part = "rewind" => RW!RewoundFollows

(* Rewind: a node follows the leader again in the end.                      *)
Rejoins == <>[](part = "rewind" => RW!Rejoined)

(* Bootstrap: all nodes have data of one system.                            *)
OneSystem == part = "bootstrap" => BS!OneSystem

(* Bootstrap: in the end there is a leader.                                 *)
GetsLeader == <>[](part = "bootstrap" => key.leader # None)

(* Restarts: a scheduled restart is carried out as it was asked for.        *)
RestartsAsAsked == part = "restarts" => RS!RestartsAsAsked

(* Parameters: what was configured is in effect in the end, or known to     *)
(* need a restart.                                                          *)
EventuallyApplied == <>[](part = "parameters" => PV!Applied)

(* Recovery parameters: a standby streams from the node it is to follow in  *)
(* the end.                                                                 *)
FollowsWanted == <>[](part = "recovery conf" => RC!FollowsWanted)
=============================================================================
