----------------------------- MODULE LeaderRace -----------------------------
(* Who may become leader: the race after the leader key is gone, and manual *)
(* failover and switchover.  The key itself is an atomic compare-and-set    *)
(* here; LeaderLease looks at how it is renewed and lost.  A node decides    *)
(* on the answers of the members it reaches and takes the key in a later    *)
(* step.  Quorum commit, whose race counts votes, is in QuorumCommit.       *)
EXTENDS Integers, FiniteSets

CONSTANTS
  Members,        \* the nodes
  Sites,          \* names of sites
  None,           \* nobody, nothing
  RaceConfigs,    \* configurations to start from
  MaxLsn,         \* bound: WAL positions are 1..MaxLsn
  MaxTimeline,    \* bound: timelines are 1..MaxTimeline
  MaxCrashes      \* bound: how often PostgreSQL or its node may crash

ASSUME RaceAssumption ==
  /\ None \notin Members /\ IsFiniteSet(Members)
  /\ \A c \in RaceConfigs : c.first \in Members /\ c.maxLag \in Nat /\ c.priority \in [Members -> Int]

VARIABLES
  cfg,        \* [first, sync, paused, checkTimeline, failsafe, maxLag, nofailover, priority, watchdogFailed, site]
  node,       \* [Members -> [pg, tl, lsn]]: PostgreSQL of every node
  leaderKey,  \* owner of the leader key, or None
  failover,   \* the /failover key
  status,     \* the /status key: [lsn, site]
  history,    \* timeline of the /history key
  sync,       \* the /sync key: [leader, standbys]
  failsafe,   \* members of the /failsafe key
  members,    \* nodes with a member key
  won,        \* [Members -> /failover as read by a node that decided to take the key, or None]
  promoting,  \* nodes that took the key and are not promoted yet
  backoff,    \* nodes that gave the key up after a failed pre_promote script
  requests,   \* manual requests so far
  crashes

raceVars == <<cfg, node, leaderKey, failover, status, history, sync, failsafe,
              members, won, promoting, backoff, requests, crashes>>
keys == <<failover, status, history, sync, failsafe>>

NoFailover == [leader |-> None, candidate |-> None, site |-> None, scheduled |-> None]

(* Failover.__len__(): a schedule alone is no request.                      *)
Requested(f) == f.leader # None \/ f.candidate # None \/ f.site # None

(* manual_failover(): a site is only stored without a candidate.            *)
ManualFailover(leader, candidate, site, at) ==
  [leader |-> leader, candidate |-> candidate,
   site |-> IF candidate = None THEN site ELSE None, scheduled |-> at]

SyncModeIsActive == cfg.sync /\ sync.leader # None

SyncMatches(n, checkLeader) ==
  sync.leader # None /\ (n \in sync.standbys \/ (checkLeader /\ n = sync.leader))

-----------------------------------------------------------------------------
(* What a node learns about another one within the two seconds of           *)
(* fetch_node_status(): nothing if it does not answer or its PostgreSQL     *)
(* does not run.                                                            *)
Reachable(m, reach) == m \in reach /\ node[m].pg \in {"replica", "primary"}

Position(m) == IF node[m].pg = "primary" THEN 0 ELSE node[m].lsn

FailoverLimitation(m, reach) ==
  ~Reachable(m, reach) \/ m \in cfg.nofailover \/ m \in cfg.watchdogFailed

(* Mutant of IsLagging: off by one.                                         *)
LaggingOffByOne(lsn) == lsn + cfg.maxLag + 1 < status.lsn

IsLagging(lsn) == lsn + cfg.maxLag < status.lsn

(* The site rules of _is_healthiest_node(): whether a node of this site     *)
(* yields, and against whom the others compare their priority.              *)
SiteRules(n, eligible) ==
  LET mine == cfg.site[n]
      wanted == failover.site
      current == status.site
      at == {m \in eligible : cfg.site[m] = (IF wanted # None THEN wanted ELSE current)}
      remote == {m \in eligible : cfg.site[m] # current}
  IN IF wanted # None
       THEN IF at # {} /\ mine # wanted THEN [yields |-> TRUE, against |-> {}]
            ELSE IF mine = wanted THEN [yields |-> FALSE, against |-> at]
            ELSE IF current # None /\ current # wanted
              THEN [yields |-> remote # {} /\ mine = current,
                    against |-> IF mine # current THEN remote ELSE eligible]
            ELSE [yields |-> FALSE, against |-> eligible]
     ELSE IF current # None
       THEN [yields |-> at # {} /\ mine # current,
             against |-> IF mine = current THEN at ELSE eligible]
     ELSE [yields |-> FALSE, against |-> eligible]

(* Mutant of HealthiestAmong: yields to an equal priority.                  *)
YieldsOnTie(n, group, checkLag, formerLeader, reach) ==
  LET able == {m \in group \ {n} : m \notin cfg.nofailover /\ ~FailoverLimitation(m, reach)}
  IN /\ checkLag => ~IsLagging(node[n].lsn)
     /\ cfg.checkTimeline => node[n].tl >= history
     /\ \A m \in able : node[m].pg # "primary" /\ node[n].lsn >= Position(m)
     /\ \A m \in able : Position(m) = node[n].lsn => cfg.priority[n] > cfg.priority[m]

(* _is_healthiest_node() outside of quorum commit.                          *)
HealthiestAmong(n, group, checkLag, formerLeader, reach) ==
  LET able == {m \in group \ {n} : m \notin cfg.nofailover /\ ~FailoverLimitation(m, reach)}
      ahead == {m \in able : node[n].lsn < Position(m)}
      rules == SiteRules(n, {m \in able : Position(m) = node[n].lsn})
      former == IF SyncModeIsActive THEN sync.leader ELSE formerLeader
  IN /\ checkLag => ~IsLagging(node[n].lsn)
     /\ cfg.checkTimeline => node[n].tl >= history
     /\ \A m \in able : node[m].pg # "primary"
     /\ \A m \in ahead : SyncModeIsActive /\ m = sync.leader
     /\ ~rules.yields
     /\ \A m \in rules.against : cfg.priority[n] < cfg.priority[m] => m = former

(* get_failover_candidates() and is_failover_possible().                    *)
FailoverCandidates(n, excludeCandidate, filterSite) ==
  {m \in members \ {n} :
     /\ SyncModeIsActive /\ ~SyncMatches(m, FALSE) => Requested(failover) /\ failover.leader = None
     /\ Requested(failover) /\ excludeCandidate => m # failover.candidate
     /\ m \notin cfg.nofailover
     /\ ~excludeCandidate /\ failover.candidate # None => m = failover.candidate
     /\ filterSite /\ failover.site # None => cfg.site[m] = failover.site}

IsFailoverPossible(n, clusterLsn, excludeCandidate, filterSite, reach) ==
  \E m \in FailoverCandidates(n, excludeCandidate, filterSite) :
    /\ ~FailoverLimitation(m, reach)
    /\ IF clusterLsn > 0 THEN Position(m) >= clusterLsn ELSE ~IsLagging(Position(m))
    /\ cfg.checkTimeline => node[m].tl >= history

(* manual_failover_process_no_leader(), which answers nothing when it       *)
(* removed a request whose candidate is gone.                               *)
RemovesRequest(n) ==
  /\ failover.candidate \notin {None, n} /\ cfg.paused
  /\ failover.candidate \notin members /\ node[n].pg = "primary"

ManualFailoverNoLeader(n, reach) ==
  LET c == failover.candidate
      outsider == SyncModeIsActive /\ ~SyncMatches(n, TRUE)
      others == {m \in members \ {failover.leader} : SyncModeIsActive => SyncMatches(m, FALSE)}
  IN \/ c = n
     \/ /\ ~cfg.paused
        /\ c # None \/ failover.site # None => ~outsider
        /\ c \in members => FailoverLimitation(c, reach)
        /\ IF failover.leader = n THEN ~IsFailoverPossible(n, 0, c # None, FALSE, reach)
           ELSE HealthiestAmong(n, others, FALSE, None, reach)

(* Mutant of IsHealthiestNode: a running primary is always the healthiest.  *)
PrimaryIsHealthiest(n, formerLeader, reach) ==
  /\ n \notin backoff
  /\ node[n].pg = "primary" \/ HealthiestAmong(n, Members, TRUE, formerLeader, reach)

(* is_healthiest_node().  The group of an automatic failover is every node  *)
(* in old_cluster, in /failsafe or with a member key, that is every node:   *)
(* one that left for good does not answer.  The leader of old_cluster,      *)
(* whose higher priority is ignored, is whoever this node last saw.         *)
IsHealthiestNode(n, formerLeader, reach) ==
  /\ n \notin backoff
  /\ IF cfg.paused /\ n \notin cfg.nofailover /\ Requested(failover)
        /\ failover.scheduled = None /\ ~RemovesRequest(n)
     THEN ManualFailoverNoLeader(n, reach)
     ELSE \/ node[n].pg = "primary" /\ (cfg.paused \/ node[n].tl >= history)
          \/ /\ node[n].pg = "replica" /\ ~cfg.paused /\ n \notin cfg.nofailover
             /\ IF Requested(failover)
                THEN /\ failover.leader # None /\ SyncModeIsActive => SyncMatches(n, TRUE)
                     /\ ManualFailoverNoLeader(n, reach)
                ELSE /\ n \notin cfg.watchdogFailed
                     /\ cfg.failsafe /\ failsafe # {} => n \in failsafe
                     /\ SyncModeIsActive => SyncMatches(n, TRUE)
                     /\ HealthiestAmong(n,
                          {m \in Members : SyncModeIsActive => SyncMatches(m, TRUE)},
                          TRUE, formerLeader, reach)

-----------------------------------------------------------------------------
RaceInit ==
  /\ cfg \in RaceConfigs
  /\ LET p == cfg.first IN
       /\ node = [n \in Members |-> [pg |-> IF n = p THEN "primary" ELSE "replica", tl |-> 1, lsn |-> 1]]
       /\ leaderKey = p
       /\ status = [lsn |-> 1, site |-> cfg.site[p]]
       /\ sync = IF cfg.sync THEN [leader |-> p, standbys |-> {}] ELSE [leader |-> None, standbys |-> {}]
  /\ failover = NoFailover /\ history = 1 /\ failsafe = Members /\ members = Members
  /\ won = [n \in Members |-> None]
  /\ promoting = {} /\ backoff = {} /\ requests = 0 /\ crashes = 0

(* follow(): a primary that is not leader is demoted and comes back as a    *)
(* replica, everybody else goes on.                                         *)
Demoted(n) == [node EXCEPT ![n].pg = IF @ = "primary" THEN "stopped" ELSE @]

(* A node goes from its decision to acquire_lock() in less time than        *)
(* another one needs to take the key, to be promoted and to lose it again.  *)
LockAttemptsDone == \A n \in Members : won[n] = None

Running(n) == node[n].pg \in {"replica", "primary"}

(* load_cluster_from_dcs() with a leader, and process_healthy_cluster() of  *)
(* a node without the lock.                                                 *)
FollowLeader(n) ==
  /\ leaderKey \notin {None, n} /\ Running(n) /\ won[n] = None
  /\ node' = IF cfg.paused THEN node ELSE Demoted(n)
  /\ members' = members \cup {n}
  /\ UNCHANGED <<cfg, leaderKey, keys, won, promoting, backoff, requests, crashes>>

(* process_unhealthy_cluster() up to the answer of is_healthiest_node(),    *)
(* with the members that answer in time.                                    *)
Race(n) ==
  /\ leaderKey = None /\ Running(n) /\ won[n] = None
  /\ \E reach \in SUBSET (Members \ {n}), former \in Members \cup {None} :
       IF IsHealthiestNode(n, former, reach)
       THEN won' = [won EXCEPT ![n] = failover] /\ UNCHANGED node
       ELSE UNCHANGED won /\ node' = IF cfg.paused THEN node ELSE Demoted(n)
  /\ failover' = IF Requested(failover) /\ failover.scheduled = None /\ n \notin cfg.nofailover
                    /\ n \notin backoff /\ RemovesRequest(n)
                 THEN NoFailover ELSE failover
  /\ members' = members \cup {n}
  /\ UNCHANGED <<cfg, leaderKey, status, history, sync, failsafe, promoting, backoff, requests, crashes>>

(* process_unhealthy_cluster() from acquire_lock() on.  The request the     *)
(* node had read is cleaned up, whatever the key holds by then.             *)
AcquireLock(n) ==
  /\ won[n] # None /\ Running(n)
  /\ won' = [won EXCEPT ![n] = None]
  /\ IF leaderKey = None
     THEN /\ leaderKey' = n
          /\ failover' =
               IF ~Requested(won[n]) THEN failover
               ELSE IF cfg.paused /\ won[n].leader # None /\ won[n].candidate # None
                 THEN IF failover = won[n]
                      THEN ManualFailover(None, won[n].candidate, won[n].site, won[n].scheduled)
                      ELSE failover
               ELSE NoFailover
          /\ promoting' = IF node[n].pg = "replica" THEN promoting \cup {n} ELSE promoting
          /\ UNCHANGED node
     ELSE /\ node' = IF cfg.paused THEN node ELSE Demoted(n)
          /\ UNCHANGED <<leaderKey, failover, promoting>>
  /\ UNCHANGED <<cfg, status, history, sync, failsafe, members, backoff, requests, crashes>>

(* enforce_primary_role() and the promote it schedules.  Without the        *)
(* watchdog it requires, or after a failed pre_promote script, the node     *)
(* gives the key up again.                                                  *)
Promote(n) ==
  /\ leaderKey = n /\ node[n].pg = "replica" /\ node[n].tl < MaxTimeline
  /\ n \in promoting \/ ~cfg.paused
  /\ cfg.paused \/ n \notin cfg.watchdogFailed
  /\ node' = [node EXCEPT ![n].pg = "primary", ![n].tl = @ + 1]
  /\ promoting' = promoting \ {n}
  /\ UNCHANGED <<cfg, leaderKey, keys, members, won, backoff, requests, crashes>>

ReleaseKey(n) ==
  /\ n \in promoting /\ leaderKey = n /\ ~cfg.paused
  /\ leaderKey' = None /\ promoting' = promoting \ {n}
  /\ \/ n \in cfg.watchdogFailed /\ UNCHANGED <<backoff, crashes>>
     \/ /\ n \notin cfg.watchdogFailed /\ crashes < MaxCrashes
        /\ backoff' = backoff \cup {n} /\ crashes' = crashes + 1
  /\ UNCHANGED <<cfg, node, keys, members, won, requests>>

BackoffEnds(n) ==
  /\ n \in backoff /\ backoff' = backoff \ {n}
  /\ UNCHANGED <<cfg, node, leaderKey, keys, members, won, promoting, requests, crashes>>

(* process_manual_failover_from_leader(): nothing to do yet, a demotion to  *)
(* start, or a request to drop.                                             *)
AwaitsSchedule(f) ==
  Requested(f) => f.scheduled # None /\ (cfg.paused \/ f.scheduled = "future")

DemoteRequested(n, reach) ==
  /\ failover.scheduled # "stale"
  /\ failover.leader \in {None, n} /\ failover.candidate # n
  /\ failover.candidate # None \/ ~cfg.paused
  /\ IsFailoverPossible(n, 0, FALSE, TRUE, reach)

(* process_healthy_cluster() of the leader: update_lock() writes /status    *)
(* and /failsafe, a request may end in a graceful demotion, which releases  *)
(* the key, otherwise the history is written.                               *)
LeaderCycle(n) ==
  /\ leaderKey = n /\ node[n].pg = "primary"
  /\ status' = [lsn |-> node[n].lsn, site |-> cfg.site[n]]
  /\ failsafe' = IF cfg.failsafe THEN members \cup {n} ELSE failsafe
  /\ members' = members \cup {n}
  /\ \E reach \in SUBSET (Members \ {n}) :
       IF ~AwaitsSchedule(failover) /\ DemoteRequested(n, reach)
       THEN /\ LockAttemptsDone /\ leaderKey' = None /\ node' = Demoted(n)
            /\ UNCHANGED <<failover, history>>
       ELSE /\ failover' = IF AwaitsSchedule(failover) THEN failover ELSE NoFailover
            /\ history' = node[n].tl
            /\ UNCHANGED <<leaderKey, node>>
  /\ UNCHANGED <<cfg, sync, won, promoting, backoff, requests, crashes>>

(* In pause the holder of the key is not promoted: without a request for it *)
(* the key is deleted.                                                      *)
PausedNotPrimary(n) ==
  /\ cfg.paused /\ leaderKey = n /\ node[n].pg = "replica" /\ n \notin promoting
  /\ failover.candidate # n
  /\ leaderKey' = None
  /\ UNCHANGED <<cfg, node, keys, members, won, promoting, backoff, requests, crashes>>

-----------------------------------------------------------------------------
(* RestApiHandler.is_failover_possible(): asked before a request that is    *)
(* not scheduled is stored.                                                 *)
ApiFailoverPossible(r, reach) ==
  LET group == IF r.candidate # None THEN members \cap {r.candidate}
               ELSE {m \in members : /\ r.site # None => cfg.site[m] = r.site
                                     /\ IF cfg.sync THEN SyncMatches(m, FALSE) ELSE m # leaderKey}
  IN /\ r.leader \in {None, leaderKey}
     /\ r.candidate # None /\ r.leader # None /\ cfg.sync => SyncMatches(r.candidate, FALSE)
     /\ \E m \in group : ~FailoverLimitation(m, reach)

(* do_POST_failover() and do_POST_switchover().                             *)
ApiAccepts(r, reach) ==
  /\ r.leader = None => r.candidate # None /\ r.scheduled = None
  /\ cfg.paused => r.scheduled = None /\ r.candidate # None
  /\ r.leader # r.candidate
  /\ r.scheduled = None => ApiFailoverPossible(r, reach)

(* _do_failover_or_switchover() of patronictl, which writes to the DCS      *)
(* itself when the REST API does not answer.                                *)
CtlAccepts(r) ==
  /\ IF r.leader = None THEN r.candidate # None /\ r.scheduled = None ELSE r.leader = leaderKey
  /\ r.site # None => \E m \in members : cfg.site[m] = r.site
  /\ LET names == {m \in members \ {leaderKey} :
                     m \notin cfg.nofailover /\ (r.site # None => cfg.site[m] = r.site)}
     IN names # {} /\ (r.candidate # None => r.candidate \in names)
  /\ cfg.paused => r.scheduled = None

Request ==
  /\ requests = 0 /\ requests' = 1
  /\ \E l \in {None, leaderKey}, c \in Members \cup {None}, s \in Sites \cup {None},
        at \in {None, "future"}, reach \in {Members} :
       LET r == ManualFailover(l, c, s, at)
       IN /\ ApiAccepts(r, reach) \/ CtlAccepts(r)
          /\ failover' = r
  /\ UNCHANGED <<cfg, node, leaderKey, status, history, sync, failsafe, members, won, promoting, backoff, crashes>>

(* do_DELETE_switchover().                                                  *)
DeleteSwitchover ==
  /\ Requested(failover) /\ failover.scheduled # None
  /\ failover' = NoFailover
  /\ UNCHANGED <<cfg, node, leaderKey, status, history, sync, failsafe, members, won, promoting, backoff, requests, crashes>>

(* should_run_scheduled_action(): the schedule is due for a while and stale *)
(* afterwards.                                                              *)
TimePasses ==
  /\ failover.scheduled \in {"future", "due"}
  /\ failover' = [failover EXCEPT !.scheduled = IF @ = "future" THEN "due" ELSE "stale"]
  /\ UNCHANGED <<cfg, node, leaderKey, status, history, sync, failsafe, members, won, promoting, backoff, requests, crashes>>

-----------------------------------------------------------------------------
KeyExpires ==
  /\ leaderKey # None /\ LockAttemptsDone
  /\ crashes' = IF Running(leaderKey) THEN crashes + 1 ELSE crashes
  /\ crashes' <= MaxCrashes
  /\ leaderKey' = None /\ promoting' = promoting \ {leaderKey}
  /\ UNCHANGED <<cfg, node, keys, members, won, backoff, requests>>

CrashNode(n) ==
  /\ Running(n) /\ crashes < MaxCrashes /\ crashes' = crashes + 1
  /\ node' = [node EXCEPT ![n].pg = "stopped"]
  /\ won' = [won EXCEPT ![n] = None] /\ promoting' = promoting \ {n}
  /\ UNCHANGED <<cfg, leaderKey, keys, members, backoff, requests>>

MemberExpires(n) ==
  /\ ~Running(n) /\ n \in members /\ members' = members \ {n}
  /\ UNCHANGED <<cfg, node, leaderKey, keys, won, promoting, backoff, requests, crashes>>

(* A stopped PostgreSQL comes back as a replica: by recover() or the end of  *)
(* demote(), and in pause also by its operator.                             *)
StartReplica(n) ==
  /\ ~Running(n)
  /\ node' = [node EXCEPT ![n].pg = "replica"]
  /\ members' = members \cup {n}
  /\ UNCHANGED <<cfg, leaderKey, keys, won, promoting, backoff, requests, crashes>>

(* PostgreSQL: WAL is written by a primary and streamed or, after pg_rewind,*)
(* copied from it.                                                          *)
WriteWal(n) ==
  /\ node[n].pg = "primary" /\ node[n].lsn < MaxLsn
  /\ node' = [node EXCEPT ![n].lsn = @ + 1]
  /\ UNCHANGED <<cfg, leaderKey, keys, members, won, promoting, backoff, requests, crashes>>

StreamWal(n, p) ==
  /\ node[n].pg = "replica" /\ node[p].pg = "primary" /\ n \notin promoting
  /\ node[n].tl <= node[p].tl /\ <<node[n].tl, node[n].lsn>> # <<node[p].tl, node[p].lsn>>
  /\ node[n].lsn > node[p].lsn => leaderKey = p /\ won[n] = None
  /\ node' = [node EXCEPT ![n] = [@ EXCEPT !.tl = node[p].tl, !.lsn = node[p].lsn]]
  /\ UNCHANGED <<cfg, leaderKey, keys, members, won, promoting, backoff, requests, crashes>>

(* The synchronous standbys a leader registers (see MultiSync).             *)
SetSync(n) ==
  /\ cfg.sync /\ leaderKey = n /\ node[n].pg = "primary"
  /\ \E S \in SUBSET {m \in Members : node[m].pg = "replica" /\ node[m].tl = node[n].tl
                                      /\ node[m].lsn = node[n].lsn} :
       /\ sync # [leader |-> n, standbys |-> S]
       /\ sync' = [leader |-> n, standbys |-> S]
  /\ UNCHANGED <<cfg, node, leaderKey, failover, status, history, failsafe, members, won, promoting, backoff, requests, crashes>>

RaceNext ==
  \/ \E n \in Members :
       \/ FollowLeader(n) \/ Race(n) \/ AcquireLock(n) \/ Promote(n) \/ ReleaseKey(n)
       \/ BackoffEnds(n) \/ LeaderCycle(n) \/ PausedNotPrimary(n) \/ CrashNode(n)
       \/ MemberExpires(n) \/ StartReplica(n) \/ WriteWal(n) \/ SetSync(n)
       \/ \E p \in Members : StreamWal(n, p)
  \/ Request \/ DeleteSwitchover \/ TimePasses \/ KeyExpires

RaceSpec == RaceInit /\ [][RaceNext]_raceVars

-----------------------------------------------------------------------------
(* A replica that the others count although it keeps out of the race.       *)
Unfit(m) ==
  /\ node[m].pg = "replica" /\ m \notin cfg.nofailover \cup cfg.watchdogFailed
  /\ \/ cfg.checkTimeline /\ node[m].tl < history
     \/ cfg.failsafe /\ failsafe # {} /\ m \notin failsafe

Fit(n) ==
  /\ node[n].pg = "replica" /\ n \notin cfg.nofailover \cup cfg.watchdogFailed
  /\ ~Unfit(n) /\ ~IsLagging(node[n].lsn) /\ (SyncModeIsActive => SyncMatches(n, TRUE))

(* A switchover to a node that lost its place in /sync: it does not race    *)
(* and everybody waits for it.                                              *)
WaitsForOutsider ==
  /\ failover.leader # None /\ failover.candidate # None
  /\ SyncModeIsActive /\ ~SyncMatches(failover.candidate, TRUE)

RaceStands ==
  /\ leaderKey = None /\ ~cfg.paused /\ LockAttemptsDone /\ backoff = {}
  /\ \A n \in Members : node[n].pg # "primary"
  /\ ~WaitsForOutsider
  /\ \E n \in Members : Fit(n)

(* The nodes of a cluster without a leader do not wait for each other: when *)
(* everybody answers, somebody may be promoted and nobody is unfit, at      *)
(* least one node finds itself to be the healthiest.                        *)
SomeoneWins ==
  RaceStands /\ (\A m \in Members : ~Unfit(m))
    => \E n \in Members : IsHealthiestNode(n, None, Members)

(* The same when some node is unfit.  The comment in _is_healthiest_node(): *)
(* "if we observe a node that can become a leader and is ahead, we defer to *)
(* that node".                                                              *)
DefersToPossibleLeader ==
  RaceStands => \E n \in Members : IsHealthiestNode(n, None, Members)

(* Who takes a free key is fit for it when it does, whatever changed since  *)
(* it decided to: a primary that comes back after its key expired does not  *)
(* discard the promotion of another node, and a failover nobody asked for   *)
(* loses at most maximum_lag_on_failover of what the last leader reported.  *)
WinnerIsFit ==
  [][\A n \in Members : leaderKey = None /\ leaderKey' = n =>
       /\ node[n].pg = "primary" /\ ~cfg.paused => node[n].tl >= history
       /\ node[n].pg = "replica" /\ ~Requested(won[n]) => node[n].lsn + cfg.maxLag >= status.lsn]_raceVars
=============================================================================
