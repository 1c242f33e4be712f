---------------------------- MODULE PgParameters ----------------------------
(* The PostgreSQL parameters of one node: how a change of the configuration *)
(* reaches postgresql.conf and the server, when a restart is pending, and   *)
(* with what a standby starts.  Two parameters stand for all: hi needs a    *)
(* restart and is compared with pg_controldata (max_connections), lo does   *)
(* not and may be overridden in parameters_primary.                         *)
EXTENDS Naturals, FiniteSetsExt

CONSTANTS
  Values,     \* of the parameters, a set of positive numbers
  Faults,     \* "starting": the configuration may change while PostgreSQL
              \* starts; "query": reading pg_settings may fail; "slow": a reload
              \* may take longer than a second; "join": Patroni may be
              \* restarted on a running standby
  MaxChanges  \* bound: changes of the configuration, the role or PostgreSQL

VARIABLES
  want,  \* postgresql.parameters in the configuration: hi, lo (0: absent) and
         \* plo of parameters_primary (0: absent)
  srv,   \* PostgreSQL: state, role, hi and lo in effect, file: postgresql.conf,
         \* ctl: hi in pg_controldata, paused: replay is paused
  pat,   \* seen: the configuration that was applied last; role: last effective
         \* one, eff: effective configuration; server: _server_parameters;
         \* pending: pending_restart_reason is not empty
  used   \* changes so far

pvVars == <<want, srv, pat, used>>

Default == Min(Values)
InEffect(lo) == IF lo = 0 THEN Default ELSE lo

PvInit ==
  \E role \in {"primary", "replica"}, ctl \in Values :
    LET conf == [hi |-> Default, lo |-> 0] IN
    /\ want = [hi |-> Default, lo |-> 0, plo |-> 0] /\ used = 0
    /\ srv = [state |-> "stopped", role |-> role, hi |-> Default, lo |-> Default, file |-> conf,
              ctl |-> ctl, paused |-> FALSE]
    /\ pat = [seen |-> want, role |-> role, eff |-> conf, server |-> conf, pending |-> FALSE]

-----------------------------------------------------------------------------
(* build_effective_postgresql_configuration(): what is passed on the        *)
(* command line is not overridden.                                          *)
Effective(role) ==
  [hi |-> want.hi, lo |-> IF role = "primary" /\ want.plo # 0 THEN want.plo ELSE want.lo]

(* conf_changed of reload_config(): a value differs from pg_settings, is    *)
(* not given any more, or was set back to what is in pg_settings.           *)
Changed(conf) ==
  \/ conf.hi # srv.hi \/ pat.server.hi # srv.hi
  \/ conf.lo = 0 /\ pat.server.lo # 0
  \/ conf.lo # 0 /\ (conf.lo # srv.lo \/ (pat.server.lo # 0 /\ pat.server.lo # srv.lo))

(* write_postgresql_conf() and a reload of the server.                      *)
Written(conf) == [srv EXCEPT !.file = conf, !.lo = InEffect(conf.lo)]

(* reload_config() of a server that is running: pending_restart is what     *)
(* pg_settings says a second later.                                         *)
ReloadConfig(conf) ==
  IF Changed(conf)
  THEN /\ srv' = Written(conf)
       /\ \E late \in {FALSE} \cup {"slow" \in Faults} :
            pat' = [pat EXCEPT !.server = conf, !.pending = (IF late THEN srv.file.hi ELSE conf.hi) # srv.hi,
                               !.seen = want, !.role = srv.role, !.eff = conf]
  ELSE /\ pat' = [pat EXCEPT !.server = conf, !.pending = FALSE, !.seen = want, !.role = srv.role, !.eff = conf]
       /\ UNCHANGED srv

(* Otherwise it is only remembered, for start() to write it.                *)
Remember(conf) ==
  /\ pat' = [pat EXCEPT !.server = conf, !.pending = FALSE, !.seen = want, !.role = srv.role, !.eff = conf]
  /\ UNCHANGED srv

(* "XXX: query can raise an exception": the configuration counts as applied.*)
ReloadFails(conf) ==
  /\ "query" \in Faults
  /\ pat' = [pat EXCEPT !.seen = want, !.role = srv.role, !.eff = conf] /\ UNCHANGED srv

(* __main__.py, _run_cycle(): the configuration or the role has changed.    *)
RunCycle ==
  LET conf == Effective(srv.role) IN
  /\ want # pat.seen \/ srv.role # pat.role
  /\ srv.state # "starting" \/ "starting" \in Faults
  /\ IF want = pat.seen /\ conf = pat.eff THEN pat' = [pat EXCEPT !.role = srv.role] /\ UNCHANGED srv
     ELSE IF srv.state = "running" THEN ReloadConfig(conf) \/ ReloadFails(conf)
     ELSE Remember(conf)
  /\ UNCHANGED <<want, used>>

(* set_synchronous_standby_names(), set_enforce_hot_standby_feedback() and  *)
(* follow(do_reload=True) write the file and reload, and nothing else.      *)
Rewrite ==
  /\ srv.state = "running" /\ srv.file # pat.server
  /\ srv' = Written(pat.server) /\ UNCHANGED <<want, pat, used>>

-----------------------------------------------------------------------------
(* effective_configuration: a standby starts with at least what is in       *)
(* pg_controldata.                                                          *)
EffectiveConfiguration ==
  IF srv.role = "primary" THEN pat.server
  ELSE [pat.server EXCEPT !.hi = IF srv.ctl > @ THEN srv.ctl ELSE @]

Start ==
  /\ srv.state = "stopped"
  /\ \E conf \in {EffectiveConfiguration} :
       /\ srv' = [srv EXCEPT !.state = "starting", !.file = conf, !.hi = conf.hi, !.lo = InEffect(conf.lo)]
       /\ pat' = [pat EXCEPT !.pending = conf.hi # pat.server.hi]
  /\ UNCHANGED <<want, used>>

(* A primary writes its parameters to the WAL and to pg_control.            *)
ComesUp ==
  /\ srv.state = "starting"
  /\ srv' = [srv EXCEPT !.state = "running", !.ctl = IF srv.role = "primary" THEN srv.hi ELSE @]
  /\ UNCHANGED <<want, pat, used>>

(* Mutant of HandleParameterChange: replay stays paused.                    *)
NotResumed ==
  /\ srv.paused /\ srv.state = "stopped" /\ srv' = [srv EXCEPT !.paused = FALSE] /\ UNCHANGED <<want, pat, used>>

(* handle_parameter_change(): replay is resumed, which ends the server, and *)
(* recover() starts it.                                                     *)
HandleParameterChange ==
  /\ srv.paused /\ srv' = [srv EXCEPT !.paused = FALSE, !.state = "stopped"] /\ UNCHANGED <<want, pat, used>>

(* load_current_server_parameters(): Patroni is started on a running        *)
(* server; reload_config() follows on a primary.                            *)
JoinRunning ==
  LET now == [hi |-> srv.hi, lo |-> IF srv.file.lo = 0 THEN 0 ELSE srv.lo] IN
  /\ srv.state = "running" /\ used < MaxChanges /\ used' = used + 1 /\ UNCHANGED want
  /\ IF srv.role = "primary"
     THEN /\ srv' = Written([hi |-> want.hi, lo |-> want.lo])
          /\ pat' = [seen |-> want, role |-> "none", eff |-> [hi |-> want.hi, lo |-> want.lo],
                     server |-> [hi |-> want.hi, lo |-> want.lo], pending |-> want.hi # srv.hi]
     ELSE /\ "join" \in Faults /\ UNCHANGED srv
          /\ pat' = [seen |-> want, role |-> "none", eff |-> [hi |-> want.hi, lo |-> want.lo],
                     server |-> now, pending |-> FALSE]

-----------------------------------------------------------------------------
Edit ==
  /\ used < MaxChanges /\ used' = used + 1 /\ UNCHANGED <<srv, pat>>
  /\ \/ \E v \in Values : v # want.hi /\ want' = [want EXCEPT !.hi = v]
     \/ \E v \in Values \cup {0} : v # want.lo /\ want' = [want EXCEPT !.lo = v]
     \/ \E v \in Values \cup {0} : v # want.plo /\ want' = [want EXCEPT !.plo = v]

(* The server stops, or Patroni stops it to restart it, and is promoted or  *)
(* demoted.                                                                 *)
Stop(role) ==
  /\ srv.state # "stopped" /\ used < MaxChanges /\ used' = used + 1
  /\ srv' = [srv EXCEPT !.state = "stopped", !.paused = FALSE, !.role = role] /\ UNCHANGED <<want, pat>>
Promote ==
  /\ srv.state = "running" /\ srv.role = "replica" /\ ~srv.paused /\ used < MaxChanges /\ used' = used + 1
  /\ srv' = [srv EXCEPT !.role = "primary", !.ctl = srv.hi] /\ UNCHANGED <<want, pat>>

(* A change of hi on the primary is replayed.                               *)
ParameterChange(v) ==
  /\ srv.role = "replica" /\ srv.state # "stopped" /\ ~srv.paused /\ v # srv.ctl
  /\ used < MaxChanges /\ used' = used + 1
  /\ srv' = [srv EXCEPT !.ctl = v, !.paused = v > srv.hi /\ srv.state = "running",
                        !.state = IF v > srv.hi /\ srv.state = "starting" THEN "stopped" ELSE @]
  /\ UNCHANGED <<want, pat>>

PvNext ==
  \/ RunCycle \/ Rewrite \/ Start \/ ComesUp \/ HandleParameterChange \/ JoinRunning \/ Edit \/ Promote
  \/ Stop(srv.role) \/ (srv.role = "primary" /\ Stop("replica"))
  \/ \E v \in Values : ParameterChange(v)

PvSpec ==
  /\ PvInit /\ [][PvNext]_pvVars
  /\ WF_pvVars(RunCycle) /\ WF_pvVars(Start) /\ WF_pvVars(ComesUp) /\ WF_pvVars(HandleParameterChange)

-----------------------------------------------------------------------------
(* docs, "applied asynchronously (upon the next wake up cycle)": what does  *)
(* not need a restart is in effect, with the overrides of the role the node *)
(* has, and pending_restart is set exactly when a restart would change hi.  *)
(* Replay goes on.                                                          *)
Applied ==
  /\ srv.state = "running" /\ ~srv.paused
  /\ srv.lo = InEffect(Effective(srv.role).lo)
  /\ pat.pending <=> srv.hi # want.hi
EventuallyApplied == <>[]Applied
=============================================================================
