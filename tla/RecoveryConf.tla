---------------------------- MODULE RecoveryConf ----------------------------
(* Whom a standby streams from: primary_conninfo in postgresql.conf, what   *)
(* Patroni believes is in effect without asking PostgreSQL in every cycle,  *)
(* and the reload or the restart that corrects it.  PostgreSQL 12 and later.*)
EXTENDS Naturals

CONSTANTS
  Hosts,         \* nodes that can be named in primary_conninfo
  None,          \* no primary_conninfo
  NeedsRestart,  \* primary_conninfo is only read at start (PostgreSQL 12)
  Password,      \* the replication user has one: there is a passfile
  LateReload,    \* the files may be reloaded later than the next cycle of Patroni
  MaxChanges     \* bound: elections, edits and crashes

VARIABLES
  want,  \* _get_node_to_follow()
  srv,   \* state; conf: primary_conninfo in postgresql.conf, auto: in
         \* postgresql.auto.conf; pass: host in the passfile; signal:
         \* standby.signal exists; hup: a reload is due; guc: in effect;
         \* receiver: host the WAL receiver is connected to
  pat,   \* params: _recovery_params; current: _current_recovery_params;
         \* same: files (and the postmaster) that have the remembered mtime;
         \* passfile: its mtime was remembered; task: restarting; joined
  used   \* changes so far

rcVars == <<want, srv, pat, used>>

Files == {"conf", "auto", "pass", "postmaster"}

RcInit ==
  \E h \in Hosts :
    /\ want = h /\ used = 0
    /\ srv = [state |-> "running", conf |-> h, auto |-> None, pass |-> h, signal |-> TRUE, hup |-> FALSE,
              guc |-> h, receiver |-> None]
    /\ pat = [params |-> h, current |-> None, same |-> {}, passfile |-> FALSE, task |-> FALSE, joined |-> TRUE]

-----------------------------------------------------------------------------
(* postgresql.auto.conf is read last; a new value ends the WAL receiver.    *)
InFiles(s) == IF s.auto # None THEN s.auto ELSE s.conf
Loaded(s) ==
  [s EXCEPT !.hup = FALSE, !.guc = IF NeedsRestart THEN @ ELSE InFiles(s),
            !.receiver = IF NeedsRestart \/ InFiles(s) = s.guc THEN @ ELSE None]
Reloading(s) == [s EXCEPT !.hup = TRUE]

(* write_pgpass() and write_postgresql_conf(), which removes what           *)
(* postgresql.auto.conf says; the mtime of the passfile is remembered.      *)
WritePgpass(s, host) == [s EXCEPT !.pass = IF Password /\ host # None THEN host ELSE @]
Written(s, host) == [WritePgpass(s, host) EXCEPT !.conf = host, !.auto = None]
ChangedBy(s) == {"conf"} \cup (IF s.auto # None THEN {"auto"} ELSE {})
Remembers(p, s, host) ==
  [p EXCEPT !.same = IF Password /\ host # None THEN (@ \ ChangedBy(s)) \cup {"pass"} ELSE @ \ ChangedBy(s),
            !.passfile = @ \/ (Password /\ host # None)]

(* Nothing was touched since pg_settings was read.  Without a passfile None *)
(* is compared with False, which never matches.                             *)
Unchanged == Files \subseteq pat.same /\ pat.passfile

(* The query failed and only the postmaster is another one: PostgreSQL has  *)
(* crashed, "return values like nothing changed in the config".             *)
LooksCrashed == Files \ pat.same = {"postmaster"} /\ pat.passfile

Connects == srv.state = "running"

(* _check_passfile(): the file has the line for the wanted node.            *)
CheckPassfile == Password => srv.pass = want

(* Mutant of CheckPrimaryConninfo: only the cached value is looked at.      *)
CompareCached(current) == current = want

(* _check_primary_conninfo(): what the WAL receiver uses is compared if     *)
(* there is one.                                                            *)
CheckPrimaryConninfo(current) ==
  IF want = None \/ current = None THEN current = want
  ELSE /\ want = IF srv.receiver # None THEN srv.receiver ELSE current
       /\ CheckPassfile

-----------------------------------------------------------------------------
(* build_recovery_params(): of all parameters, the host to connect to.      *)
BuildRecoveryParams == want

(* write_recovery_conf(): standby.signal is written; the parameters to be   *)
(* written count as the current ones.                                       *)
WriteRecoveryConf(p) ==
  [p EXCEPT !.params = BuildRecoveryParams, !.current = BuildRecoveryParams, !.joined = FALSE]

(* follow(do_reload=True): the files are written and reloaded.              *)
FollowReload(p) ==
  /\ srv' = Reloading([Written(srv, want) EXCEPT !.signal = TRUE])
  /\ pat' = WriteRecoveryConf(Remembers(p, srv, want))

(* follow() in the executor: the server is stopped and started.             *)
FollowRestart(p) ==
  /\ srv' = [srv EXCEPT !.signal = TRUE, !.state = "stopped", !.receiver = None, !.hup = FALSE]
  /\ pat' = [WriteRecoveryConf(p) EXCEPT !.task = TRUE]

(* What check_recovery_conf() found, once it knows the current parameters.  *)
Compare(p) ==
  IF CheckPrimaryConninfo(p.current)
  THEN LET q == IF Password /\ want # None /\ p.current # None
                THEN [p EXCEPT !.same = @ \cup {"pass"}, !.passfile = TRUE] ELSE p
       IN IF p.joined THEN FollowReload(q)
          ELSE pat' = [q EXCEPT !.joined = FALSE] /\ UNCHANGED srv
  ELSE IF NeedsRestart THEN FollowRestart(p) ELSE FollowReload(p)

(* Ha.follow() in a cycle of a standby, with check_recovery_conf() and      *)
(* _read_recovery_params().                                                 *)
Follow ==
  /\ srv.state \in {"running", "recovering"} /\ ~pat.task /\ UNCHANGED <<want, used>>
  /\ srv.hup => LateReload
  /\ IF ~srv.signal THEN FollowRestart(pat)
     ELSE IF Unchanged THEN Connects /\ Compare(pat)
     ELSE IF Connects
          THEN Compare([pat EXCEPT !.current = srv.guc, !.same = @ \cup {"conf", "auto", "postmaster"}])
     ELSE ~LooksCrashed /\ FollowRestart(pat)

(* The same while PostgreSQL is starting: only what was written counts.     *)
FollowStarting ==
  /\ srv.state = "starting" /\ ~pat.task /\ UNCHANGED <<want, used>>
  /\ ~srv.signal \/ pat.current # want
  /\ IF ~srv.signal \/ NeedsRestart THEN FollowRestart(pat) ELSE FollowReload(pat)

(* recover(): follow() of a server that does not run.                       *)
Recover ==
  /\ srv.state = "stopped" /\ ~pat.task /\ UNCHANGED <<want, used>>
  /\ pat' = [WriteRecoveryConf(pat) EXCEPT !.task = TRUE]
  /\ srv' = [srv EXCEPT !.signal = TRUE]

(* start() writes postgresql.conf.                                          *)
Start ==
  /\ srv.state = "stopped" /\ pat.task /\ UNCHANGED <<want, used>>
  /\ srv' = [Written(srv, pat.params) EXCEPT !.state = "starting", !.guc = pat.params]
  /\ pat' = [Remembers(pat, srv, pat.params) EXCEPT !.task = FALSE, !.same = @ \ {"postmaster"}]

(* reload_config() and set_synchronous_standby_names() write the file too.  *)
Rewrite ==
  /\ srv.state = "running" /\ ~pat.task /\ used < MaxChanges /\ used' = used + 1 /\ UNCHANGED want
  /\ srv' = Reloading(Written(srv, pat.params)) /\ pat' = Remembers(pat, srv, pat.params)

(* load_current_server_parameters(): Patroni is started again.              *)
Join ==
  /\ srv.state = "running" /\ ~pat.task /\ used < MaxChanges /\ used' = used + 1 /\ UNCHANGED <<want, srv>>
  /\ pat' = [params |-> srv.guc, current |-> None, same |-> {}, passfile |-> FALSE, task |-> FALSE, joined |-> TRUE]

-----------------------------------------------------------------------------
(* PostgreSQL and people.                                                   *)
ComesUp ==
  /\ srv.state \in {"starting", "recovering"} /\ srv' = [srv EXCEPT !.state = "running"]
  /\ UNCHANGED <<want, pat, used>>
Reload == srv.hup /\ srv.state # "stopped" /\ srv' = Loaded(srv) /\ UNCHANGED <<want, pat, used>>
Connect(h) ==
  /\ srv.state = "running" /\ srv.receiver = None /\ srv.guc = h /\ (Password => srv.pass = h)
  /\ srv' = [srv EXCEPT !.receiver = h] /\ UNCHANGED <<want, pat, used>>

Elect ==
  /\ used < MaxChanges /\ used' = used + 1 /\ UNCHANGED <<pat, srv>>
  /\ want' \in (Hosts \cup {None}) \ {want}
Edit ==
  /\ used < MaxChanges /\ used' = used + 1 /\ UNCHANGED want
  /\ \E h \in Hosts :
       \/ srv' = Reloading([srv EXCEPT !.auto = h]) /\ pat' = [pat EXCEPT !.same = @ \ {"auto"}]
       \/ srv' = Reloading([srv EXCEPT !.conf = h]) /\ pat' = [pat EXCEPT !.same = @ \ {"conf"}]
       \/ Password /\ srv' = [srv EXCEPT !.pass = h] /\ pat' = [pat EXCEPT !.same = @ \ {"pass"}]
       \/ srv' = [srv EXCEPT !.signal = FALSE] /\ UNCHANGED pat
Disconnect ==
  /\ srv.receiver # None /\ srv' = [srv EXCEPT !.receiver = None] /\ UNCHANGED <<want, pat>>
  /\ used < MaxChanges /\ used' = used + 1
Crash ==
  /\ used < MaxChanges /\ used' = used + 1 /\ ~pat.task /\ srv.state # "stopped" /\ UNCHANGED want
  /\ \/ srv' = [srv EXCEPT !.state = "stopped", !.receiver = None, !.hup = FALSE] /\ UNCHANGED pat
     \/ srv' = [srv EXCEPT !.state = "recovering", !.receiver = None] /\ UNCHANGED pat
     \/ /\ srv.signal
        /\ srv' = [srv EXCEPT !.state = "recovering", !.receiver = None, !.hup = FALSE, !.guc = InFiles(srv)]
        /\ pat' = [pat EXCEPT !.same = @ \ {"postmaster"}]

RcNext ==
  \/ Follow \/ FollowStarting \/ Recover \/ Start \/ Rewrite \/ Join
  \/ ComesUp \/ Reload \/ Elect \/ Edit \/ Disconnect \/ Crash \/ \E h \in Hosts : Connect(h)

-----------------------------------------------------------------------------
(* docs, "follow the leader": the standby is connected to the node it is to *)
(* follow, or to none, whatever was edited behind Patroni's back.           *)
FollowsWanted == srv.state = "running" /\ srv.receiver = want

=============================================================================
