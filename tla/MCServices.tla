----------------------------- MODULE MCServices -----------------------------
(* What the nodes do for each other and for clients, for TLC, each on its   *)
(* own: part says which one a behaviour is about.                           *)
EXTENDS Naturals, Sequences, FiniteSets

CONSTANTS Nodes, First, None, Placeholder,
  Pair, Second,  \* HealthChecks, DynamicConfig: First and Second
  Parts,         \* the parts that are checked
  Ttl, LoopWait, Cycle, NodeCount, Strict, SlowReload, SlotsTtl, LateJoin,
  MaxTick, MaxLsn, MaxChanges, MaxPos, MaxFaults, MaxClients, MaxOutages

VARIABLES
  part,
  net, fkey, fnode,            \* Failsafe
  wal, slots, status, msdcs,   \* MemberSlots
  prim, stby, queue, adv,      \* LogicalSlots
  repl, sync, handler, cycle,  \* MultiSync
  table, mpp, group,           \* Citus
  hk, hn,                      \* HealthChecks
  ck, nd, cl, flt              \* DynamicConfig

FS == INSTANCE Failsafe
MS == INSTANCE MemberSlots
LS == INSTANCE LogicalSlots
SY == INSTANCE MultiSync
CT == INSTANCE Citus WITH Hosts <- Nodes, MaxChanges <- MaxOutages, MaxEvents <- MaxOutages,
                         MaxFaults <- MaxOutages
HC == INSTANCE HealthChecks WITH Nodes <- Pair, Sync <- {Second}, NoLoadBalance <- {}, SlowAnswers <- FALSE,
                                 MaxFaults <- MaxOutages
DC == INSTANCE DynamicConfig WITH Nodes <- Pair, Leader <- First, Nested <- FALSE, MaxFaults <- MaxOutages

fsVars == <<net, fkey, fnode>>
msVars == <<wal, slots, status, msdcs>>
lsVars == <<prim, stby, queue, adv>>
syVars == <<repl, sync, handler, cycle>>
ctVars == <<table, mpp, group>>
hcVars == <<hk, hn>>
dcVars == <<ck, nd, cl, flt>>

vars == <<part, fsVars, msVars, lsVars, syVars, ctVars, hcVars, dcVars>>

(* The variables of the other parts are 0.                                  *)
Init ==
  /\ part \in Parts
  /\ IF part = "failsafe" THEN FS!FsInit ELSE net = 0 /\ fkey = 0 /\ fnode = 0
  /\ IF part = "member slots" THEN MS!MsInit ELSE wal = 0 /\ slots = 0 /\ status = 0 /\ msdcs = 0
  /\ IF part = "logical slots" THEN LS!LsInit ELSE prim = 0 /\ stby = 0 /\ queue = 0 /\ adv = 0
  /\ IF part = "multisync" THEN SY!SyInit ELSE repl = 0 /\ sync = 0 /\ handler = 0 /\ cycle = 0
  /\ IF part = "citus" THEN CT!CtInit ELSE table = 0 /\ mpp = 0 /\ group = 0
  /\ IF part = "health" THEN HC!HcInit ELSE hk = 0 /\ hn = 0
  /\ IF part = "config" THEN DC!DcInit ELSE ck = 0 /\ nd = 0 /\ cl = 0 /\ flt = 0

Next ==
  /\ UNCHANGED part
  /\ IF part = "failsafe" THEN FS!FsNext ELSE UNCHANGED fsVars
  /\ IF part = "member slots" THEN MS!MsNext ELSE UNCHANGED msVars
  /\ IF part = "logical slots" THEN LS!LsNext ELSE UNCHANGED lsVars
  /\ IF part = "multisync" THEN SY!SyNext ELSE UNCHANGED syVars
  /\ IF part = "citus" THEN CT!CtNext ELSE UNCHANGED ctVars
  /\ IF part = "health" THEN HC!HcNext ELSE UNCHANGED hcVars
  /\ IF part = "config" THEN DC!DcNext ELSE UNCHANGED dcVars

(* Time passes, and the HA loop of every member runs.                       *)
MemberSlotsFairness ==
  LET Does(A) == part = "member slots" /\ A IN
  /\ WF_msVars(Does(MS!Tick)) /\ \A n \in Nodes : WF_msVars(Does(MS!MsCycle(n)))

(* The HA loop of the primary runs; PostgreSQL reloads, acknowledges and    *)
(* streams.                                                                 *)
MultiSyncFairness ==
  LET Does(A) == part = "multisync" /\ A IN
  /\ WF_syVars(Does(SY!MultisyncCycle)) /\ WF_syVars(Does(SY!Acknowledge)) /\ WF_syVars(Does(SY!Reload))
  /\ \A n \in Nodes : WF_syVars(Does(SY!Replicate(n)))

(* The HA loop of the coordinator and the thread of CitusHandler run, and   *)
(* deadlines pass.                                                          *)
CitusFairness ==
  LET Does(A) == part = "citus" /\ A IN
  /\ WF_ctVars(Does(CT!SyncMetaData)) /\ WF_ctVars(Does(CT!CitusThread)) /\ WF_ctVars(Does(CT!Deadline))

(* The DCS is reached again in the end; time passes; every node runs its    *)
(* HA loop, PostgreSQL starts, promotes and replays.                        *)
HealthFairness ==
  LET Does(A) == part = "health" /\ A IN
  /\ WF_hcVars(Does(HC!Heal)) /\ WF_hcVars(Does(HC!Tick))
  /\ \A n \in Pair :
       /\ WF_hcVars(Does(HC!Answer(n))) /\ WF_hcVars(Does(HC!UpdateLock(n))) /\ WF_hcVars(Does(HC!ReplicaCycle(n)))
       /\ WF_hcVars(Does(HC!Deposed(n))) /\ WF_hcVars(Does(HC!AcquireLock(n))) /\ WF_hcVars(Does(HC!StoppedByDemote(n)))
       /\ WF_hcVars(Does(HC!Started(n))) /\ WF_hcVars(Does(HC!Promoted(n))) /\ WF_hcVars(Does(HC!Replay(n)))

(* Every node is started again and runs its cycles.                         *)
ConfigFairness ==
  LET Does(A) == part = "config" /\ A IN
  \A n \in Pair :
    /\ WF_dcVars(Does(DC!Start(n))) /\ WF_dcVars(Does(DC!RestoreConfig(n)))
    /\ WF_dcVars(Does(DC!HaCycle(n))) /\ WF_dcVars(Does(DC!RunCycle(n)))

Spec ==
  /\ Init /\ [][Next]_vars
  /\ MemberSlotsFairness /\ MultiSyncFairness /\ CitusFairness /\ HealthFairness /\ ConfigFairness

-----------------------------------------------------------------------------
(* Failsafe: one primary at a time.                                         *)
OnePrimary == part = "failsafe" => FS!OnePrimary

(* Failsafe: no demotion of a leader that reaches every member.             *)
LeaderSurvives == [][part = "failsafe" => FS!LeaderSurvives]_vars

(* Member slots: the WAL a member needs is kept while it is away for a      *)
(* short time.                                                              *)
WalRetained == part = "member slots" => MS!WalRetained

(* Member slots: no slot of a member that stays away is kept for good.      *)
StaleSlotsDropped == <>[](part = "member slots" => MS!NoStaleSlots)

(* Logical slots: a copy that is ready can be used after a failover, and    *)
(* misses nothing.                                                          *)
CopyIsUsable == part = "logical slots" => LS!CopyIsUsable

(* Several synchronous standbys: whoever is in /sync has every commit.      *)
SyncHasCommits == part = "multisync" => SY!SyncHasCommits

(* Several synchronous standbys: no lost standby holds up the commits for   *)
(* good.                                                                    *)
CommitsGoOn == <>[](part = "multisync" => SY!NothingPending)

(* Citus: clients are not left paused.                                      *)
NeverPausedForGood == part = "citus" => CT!NeverPausedForGood

(* Citus: pg_dist_node follows the DCS in the end.                          *)
MetadataFollows == <>[](part = "citus" => CT!InSync)

(* Health checks: one node takes the writes, and the liveness probe of a    *)
(* primary fails only when its key is gone.                                 *)
AnswersAreTrue == part = "health" => HC!AnswersAreTrue

(* Health checks: in the end every node answers as what it is.              *)
ClusterServed == <>[](part = "health" => HC!Served)

(* Dynamic configuration: a node runs with the version it has seen, and its *)
(* timeouts fit.                                                            *)
RunsAsWritten == part = "config" => DC!RunsAsWritten

(* Dynamic configuration: what patronictl pause reports is so.              *)
SuccessIsApplied == part = "config" => DC!SuccessIsApplied

(* Dynamic configuration: no writer takes back what another wrote.          *)
ChangesOnlyItsSetting == [][part = "config" => DC!ChangesOnlyItsSetting]_vars

(* Dynamic configuration: in the end all nodes agree.                       *)
NodesAgree == <>[](part = "config" => DC!Agreed)
=============================================================================
