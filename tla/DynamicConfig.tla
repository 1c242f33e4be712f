---------------------------- MODULE DynamicConfig ----------------------------
(* The dynamic configuration: written to the /config key through the REST   *)
(* API and by patronictl, read by every node in its HA cycle, adjusted,     *)
(* applied and kept in a file next to the data directory.                   *)
EXTENDS Naturals, Sequences, FiniteSets, FiniteSetsExt, Functions

CONSTANTS
  Nodes, None,
  Leader,     \* the node with the leader lock
  Nested,     \* requests may also change a setting inside of a section
  MaxClients, \* bound: requests
  MaxFaults   \* bound: crashes, lost answers, removals of the key

VARIABLES
  ck,   \* value and version of /config, 0: no key; log: the values it had
  nd,   \* view: dcs.cluster.config; seen: _modify_version; dyn: the dynamic
        \* configuration; cache: patroni.dynamic.json; paused: global_config,
        \* shown in the member key; alive; restoring
  cl,   \* the clients: at, kind, node, req, what they read and its version,
        \* ran and touched: nodes with a cycle, with a changed member key since
  flt   \* faults so far

dcVars == <<ck, nd, cl, flt>>

Clients == 1..MaxClients

Timeouts == {"loop_wait", "retry_timeout", "ttl"}
Keys == Timeouts \cup {"pause", "parameter"}  \* parameter: inside of the section postgresql
Bad == 1000  \* a value int() does not take

Plain == [k \in Keys |-> IF k = "ttl" THEN 30 ELSE 0]
Requests ==
  {[key |-> "pause", val |-> 1], [key |-> "ttl", val |-> 20], [key |-> "ttl", val |-> Bad]}
    \cup (IF Nested THEN {[key |-> "parameter", val |-> 1]} ELSE {})
Overwrites == {[Plain EXCEPT !["loop_wait"] = 28]}

-----------------------------------------------------------------------------
(* patch_config(): a value of None removes the key (0: absent).             *)
PatchConfig(config, req) == [config EXCEPT ![req.key] = req.val]

Default == [loop_wait |-> 10, retry_timeout |-> 10, ttl |-> 30]
Minimum == [loop_wait |-> 1, retry_timeout |-> 3, ttl |-> 20]

(* __get_and_maybe_adjust_int_value().                                      *)
IntValue(config, k) == Max({IF config[k] = 0 THEN Default[k] ELSE config[k], Minimum[k]})
Stored(config, k) == IF config[k] = 0 THEN 0 ELSE Max({config[k], Minimum[k]})

(* Mutant of ValidateAndAdjustTimeouts: retry_timeout is counted once.      *)
AdjustOneRetry(config) ==
  LET loop_wait == IntValue(config, "loop_wait")
      retry_timeout == IntValue(config, "retry_timeout")
      ttl == IntValue(config, "ttl")
      c == [k \in Keys |-> IF k \in Timeouts THEN Stored(config, k) ELSE config[k]]
  IN IF loop_wait + retry_timeout > ttl THEN [c EXCEPT !["loop_wait"] = Max({1, ttl - retry_timeout})] ELSE c

(* _validate_and_adjust_timeouts(): loop_wait + 2 * retry_timeout <= ttl.   *)
ValidateAndAdjustTimeouts(config) ==
  LET loop_wait == IntValue(config, "loop_wait")
      retry_timeout == IntValue(config, "retry_timeout")
      ttl == IntValue(config, "ttl")
      c == [k \in Keys |-> IF k \in Timeouts THEN Stored(config, k) ELSE config[k]]
  IN IF 1 + 2 * retry_timeout > ttl
     THEN [c EXCEPT !["loop_wait"] = 1, !["retry_timeout"] = (ttl - 1) \div 2]
     ELSE IF loop_wait + 2 * retry_timeout > ttl
     THEN [c EXCEPT !["loop_wait"] = ttl - 2 * retry_timeout]
     ELSE c

Valid(config) == Bad \notin Range(config)

-----------------------------------------------------------------------------
Idle == [at |-> "idle", kind |-> "", node |-> None, req |-> None, value |-> Plain, version |-> 0,
         ran |-> {}, touched |-> {}]
Ended(at) == [Idle EXCEPT !.at = at]

DcInit ==
  /\ ck = [value |-> Plain, version |-> 1, log |-> <<Plain>>]
  /\ nd = [n \in Nodes |->
            [view |-> [value |-> Plain, version |-> 1, by |-> None], seen |-> 1, dyn |-> Plain, cache |-> Plain,
             paused |-> FALSE, alive |-> TRUE, restoring |-> FALSE]]
  /\ cl = [c \in Clients |-> Idle]
  /\ flt = 0

WriteConfig(value) ==
  ck' = [value |-> value, version |-> Len(ck.log) + 1, log |-> Append(ck.log, value)]

-----------------------------------------------------------------------------
(* The handlers read the key: dcs.get_cluster() also replaces dcs.cluster   *)
(* of the node.  edit-config reads it in a process of its own.              *)
Read(c) ==
  /\ cl[c].at = "idle" /\ \A d \in 1..(c - 1) : cl[d].at # "idle"
  /\ \E kind \in {"patch", "put", "edit", "pause"}, n \in {m \in Nodes : nd[m].alive} :
       /\ kind \in {"edit", "pause"} /\ nd[Leader].alive => n = Leader   \* leader first
       /\ kind # "put" => ck.version # 0   \* do_PATCH_config: 503; edit-config: no config key
       /\ \E req \in IF kind = "put" THEN Overwrites ELSE Requests :
            /\ kind = "pause" => req.key = "pause" /\ req.val # ck.value["pause"]
            /\ cl' = [cl EXCEPT ![c] = [@ EXCEPT !.at = "read", !.kind = kind, !.node = IF kind = "edit" THEN None ELSE n, !.req = req,
                                                 !.value = ck.value, !.version = ck.version]]
       /\ nd' = IF kind = "edit" THEN nd
                ELSE [nd EXCEPT ![n].view = [value |-> ck.value, version |-> ck.version, by |-> c]]
  /\ UNCHANGED <<ck, flt>>

(* data = cluster.config.data.copy() is shallow: patch_config() changes a   *)
(* setting inside of a section in the data of dcs.cluster as well.          *)
Patch(c) ==
  /\ cl[c].at = "read"
  /\ cl' = [cl EXCEPT ![c].at = "patched",
                      ![c].value = IF cl[c].kind = "put" THEN cl[c].req ELSE PatchConfig(@, cl[c].req)]
  /\ LET n == cl[c].node IN
     nd' = IF cl[c].kind = "patch" /\ cl[c].req.key = "parameter" /\ nd[n].view.by = c
           THEN [nd EXCEPT ![n].view.value = PatchConfig(@, cl[c].req)] ELSE nd
  /\ UNCHANGED <<ck, flt>>

Changed(c) == IF cl[c].version = 0 THEN TRUE ELSE cl[c].value # ck.log[cl[c].version]

Answered(c, version) ==
  cl' = [cl EXCEPT ![c] = IF @.kind = "pause"
                          THEN [@ EXCEPT !.at = "waiting", !.version = version, !.value = Plain, !.node = None]
                          ELSE Ended("done")]

(* Mutant of Commit: set_config_value() without the version.                *)
CommitBlindly(c) ==
  /\ cl[c].at = "patched" /\ Changed(c)
  /\ WriteConfig(cl[c].value) /\ Answered(c, ck'.version) /\ UNCHANGED <<nd, flt>>

(* set_config_value() with the version that was read; PUT has none.         *)
Commit(c) ==
  /\ cl[c].at = "patched" /\ Changed(c)
  /\ cl[c].kind = "put" \/ cl[c].version = ck.version
  /\ WriteConfig(cl[c].value) /\ Answered(c, ck'.version) /\ UNCHANGED <<nd, flt>>

NotChanged(c) ==
  /\ cl[c].at = "patched" /\ ~Changed(c)
  /\ Answered(c, cl[c].version) /\ UNCHANGED <<ck, nd, flt>>

(* 409: somebody else was faster.                                           *)
Conflict(c) ==
  /\ cl[c].at = "patched" /\ Changed(c) /\ cl[c].kind # "put" /\ cl[c].version # ck.version
  /\ cl' = [cl EXCEPT ![c] = Ended("failed")] /\ UNCHANGED <<ck, nd, flt>>

(* 409 or 502: the DCS did not answer; it may have written the value.       *)
CommitFails(c) ==
  /\ cl[c].at = "patched" /\ Changed(c) /\ flt < MaxFaults /\ flt' = flt + 1
  /\ \/ UNCHANGED ck
     \/ (cl[c].kind = "put" \/ cl[c].version = ck.version) /\ WriteConfig(cl[c].value)
  /\ cl' = [cl EXCEPT ![c] = Ended("failed")] /\ UNCHANGED nd

-----------------------------------------------------------------------------
(* Mutant of HaCycle: the leader does not notice that the key is gone.      *)
HaCycleNoRestore(n) ==
  /\ nd[n].alive /\ ~nd[n].restoring
  /\ LET paused == IF ck.version = 0 THEN nd[n].paused ELSE ck.value["pause"] = 1 IN
     /\ nd' = [nd EXCEPT ![n].view = [value |-> ck.value, version |-> ck.version, by |-> None],
                         ![n].paused = paused]
     /\ \E wal_moved \in BOOLEAN :
          cl' = [c \in Clients |-> [cl[c] EXCEPT
                  !.ran = IF cl[c].at = "waiting" THEN @ \cup {n} ELSE @,
                  !.touched = IF cl[c].at = "waiting" /\ (wal_moved \/ paused # nd[n].paused) THEN @ \cup {n} ELSE @]]
  /\ UNCHANGED <<ck, flt>>

(* ha.py, _run_cycle(): load_cluster_from_dcs(), global_config.update(),    *)
(* touch_member() with the pause flag in the end.                           *)
HaCycle(n) ==
  /\ nd[n].alive /\ ~nd[n].restoring
  /\ LET paused == IF ck.version = 0 THEN nd[n].paused ELSE ck.value["pause"] = 1 IN
     /\ nd' = [nd EXCEPT ![n].view = [value |-> ck.value, version |-> ck.version, by |-> None],
                         ![n].paused = paused,
                         ![n].restoring = n = Leader /\ ck.version = 0]
     /\ \E wal_moved \in BOOLEAN :
          cl' = [c \in Clients |-> [cl[c] EXCEPT
                  !.ran = IF cl[c].at = "waiting" THEN @ \cup {n} ELSE @,
                  !.touched = IF cl[c].at = "waiting" /\ (wal_moved \/ paused # nd[n].paused) THEN @ \cup {n} ELSE @]]
  /\ UNCHANGED <<ck, flt>>

(* The leader finds no /config: it writes what it has in memory.            *)
RestoreConfig(n) ==
  /\ nd[n].alive /\ nd[n].restoring
  /\ WriteConfig(nd[n].dyn)
  /\ nd' = [nd EXCEPT ![n].restoring = FALSE, ![n].view = [value |-> nd[n].dyn, version |-> ck'.version, by |-> None]]
  /\ UNCHANGED <<cl, flt>>

(* set_dynamic_configuration() of what dcs.cluster holds: a configuration   *)
(* that cannot be validated is remembered as seen and not applied.          *)
SetDynamicConfiguration(h, view) ==
  IF view.version = h.seen THEN h
  ELSE [h EXCEPT !.seen = view.version, !.dyn = IF Valid(view.value) THEN ValidateAndAdjustTimeouts(view.value) ELSE @]

(* Mutant of RunCycle: the configuration of a new version is only applied   *)
(* when no request is open at the node.                                     *)
RunCycleWhenIdle(n) ==
  /\ nd[n].alive /\ ~nd[n].restoring
  /\ LET h == IF nd[n].view.version = 0 THEN nd[n]
              ELSE IF nd[n].view.by # None THEN [nd[n] EXCEPT !.seen = nd[n].view.version]
              ELSE SetDynamicConfiguration(nd[n], nd[n].view)
     IN nd' = [nd EXCEPT ![n] = [h EXCEPT !.cache = h.dyn]]
  /\ UNCHANGED <<ck, cl, flt>>

(* __main__.py, _run_cycle(): applies it and saves it to the file.          *)
RunCycle(n) ==
  /\ nd[n].alive /\ ~nd[n].restoring
  /\ LET h == IF nd[n].view.version = 0 THEN nd[n] ELSE SetDynamicConfiguration(nd[n], nd[n].view)
     IN nd' = [nd EXCEPT ![n] = [h EXCEPT !.cache = h.dyn]]
  /\ UNCHANGED <<ck, cl, flt>>

Crash(n) ==
  /\ nd[n].alive /\ flt < MaxFaults /\ flt' = flt + 1
  /\ nd' = [nd EXCEPT ![n].alive = FALSE] /\ UNCHANGED <<ck, cl>>

(* Config._load_cache(), ensure_dcs_access(), apply_dynamic_configuration();*)
(* global_config is updated in the first cycle before anything uses it.     *)
Start(n) ==
  /\ ~nd[n].alive
  /\ LET view == [value |-> ck.value, version |-> ck.version, by |-> None]
         h == [nd[n] EXCEPT !.alive = TRUE, !.restoring = FALSE, !.seen = 0, !.dyn = nd[n].cache, !.view = view]
         g == IF ck.version = 0 THEN h ELSE SetDynamicConfiguration(h, view)
     IN nd' = [nd EXCEPT ![n] = [g EXCEPT !.paused = (IF ck.version = 0 THEN g.dyn ELSE ck.value)["pause"] = 1]]
  /\ UNCHANGED <<ck, cl, flt>>

(* patronictl remove: delete_cluster().                                     *)
Remove ==
  /\ ck.version # 0 /\ flt < MaxFaults /\ flt' = flt + 1
  /\ ck' = [ck EXCEPT !.version = 0] /\ UNCHANGED <<nd, cl>>

-----------------------------------------------------------------------------
(* patronictl pause and resume: wait_until_pause_is_applied().  The time    *)
(* is over after loop_wait + 1 seconds, when every living node has run a    *)
(* cycle; a member whose key has not changed is taken for dead.             *)
Pending(c) == {n \in Nodes : nd[n].paused # (cl[c].req.val = 1)}

(* Mutant of Applied: does not wait.                                        *)
AppliedAtOnce(c) ==
  cl[c].at = "waiting" /\ cl' = [cl EXCEPT ![c].at = "success"] /\ UNCHANGED <<ck, nd, flt>>

Applied(c) ==
  /\ cl[c].at = "waiting"
  /\ \/ Pending(c) = {}
     \/ (\A n \in Nodes : nd[n].alive => n \in cl[c].ran) /\ Pending(c) \cap cl[c].touched = {}
  /\ cl' = [cl EXCEPT ![c].at = "success"] /\ UNCHANGED <<ck, nd, flt>>

NotApplied(c) ==
  /\ cl[c].at = "waiting"
  /\ \A n \in Nodes : nd[n].alive => n \in cl[c].ran
  /\ Pending(c) \cap cl[c].touched # {}
  /\ cl' = [cl EXCEPT ![c] = Ended("done")] /\ UNCHANGED <<ck, nd, flt>>

-----------------------------------------------------------------------------
DcNode(n) == HaCycle(n) \/ RestoreConfig(n) \/ RunCycle(n)

DcClient(c) ==
  Read(c) \/ Patch(c) \/ Commit(c) \/ NotChanged(c) \/ Conflict(c) \/ CommitFails(c) \/ Applied(c) \/ NotApplied(c)

DcNext ==
  \/ \E n \in Nodes : DcNode(n) \/ Crash(n) \/ Start(n)
  \/ \E c \in Clients : DcClient(c)
  \/ Remove

DcSpec == DcInit /\ [][DcNext]_dcVars

-----------------------------------------------------------------------------
(* A PATCH or edit-config that is answered with success changes its own     *)
(* setting and nothing else, whatever was written since it read the key.    *)
ChangesOnlyItsSetting ==
  \A c \in Clients :
    cl[c].at = "patched" /\ cl'[c].at \in {"waiting", "done"} /\ cl[c].kind # "put" /\ ck' # ck
      => ck'.value = PatchConfig(ck.value, cl[c].req)

(* config.py: "If the version didn't change there is nothing to do".  What  *)
(* a node runs with is the value the key had in the version it has seen.    *)
AppliesWhatWasWritten ==
  \A n \in Nodes :
    LET v == nd[n].seen IN
    v # 0 /\ Valid(ck.log[v]) => nd[n].dyn = ValidateAndAdjustTimeouts(ck.log[v])

(* Every node runs with timeouts that leave room for two retries in a ttl,  *)
(* after any sequence of changes, from any writer or from the file.         *)
TimeoutsFit ==
  \A n \in Nodes :
    IntValue(nd[n].dyn, "loop_wait") + 2 * IntValue(nd[n].dyn, "retry_timeout") <= IntValue(nd[n].dyn, "ttl")

(* Every node runs with what was written, made to fit.                      *)
RunsAsWritten == AppliesWhatWasWritten /\ TimeoutsFit

(* When patronictl reports that the cluster is paused (resumed), every      *)
(* living node that shares its view of /config is.                          *)
SuccessIsApplied ==
  \A c \in Clients : cl[c].at = "success" =>
    \A n \in Nodes : nd[n].alive /\ ck.version = cl[c].version => nd[n].paused = (cl[c].req.val = 1)

(* In the end every node runs with what is in the key.                      *)
Agreed ==
  \A n \in Nodes : Valid(ck.value) => ck.version # 0 /\ nd[n].dyn = ValidateAndAdjustTimeouts(ck.value)
=============================================================================
