-------------------------- MODULE LeaderRaceProofs --------------------------
(* Who takes a free leader key is fit for it at that moment, although it    *)
(* decided to take it earlier, on what it had read from the DCS, and when   *)
(* the key is free somebody takes it: proved for any number of nodes, any   *)
(* configuration, any sequence of failures and requests.                    *)
EXTENDS LeaderRace, FiniteSetTheorems, WellFoundedInduction, TLAPS

RaceNodes == [pg : {"primary", "replica", "stopped"}, tl : Nat, lsn : Nat]
Failovers == [leader : Members \cup {None}, candidate : Members \cup {None}, site : Sites \cup {None},
              scheduled : {None, "future", "due", "stale"}]

RaceTypeOK ==
  /\ cfg.maxLag \in Nat /\ history \in Nat /\ status.lsn \in Nat
  /\ node \in [Members -> RaceNodes]
  /\ leaderKey \in Members \cup {None} /\ promoting \in SUBSET Members
  /\ failover \in Failovers /\ won \in [Members -> Failovers \cup {None}]

(* Only a running node is about to take the key, and never the one that has *)
(* it; whoever waits for its promotion has the key and is still a replica.  *)
RaceOrderly ==
  /\ \A n \in Members : won[n] # None => Running(n) /\ leaderKey # n
  /\ \A n \in promoting : leaderKey = n /\ node[n].pg = "replica"

(* What a node found out when it decided to take the key still holds.       *)
StillFit(n) ==
  /\ node[n].pg = "primary" => node[n].tl >= history
  /\ node[n].pg = "replica" /\ ~Requested(won[n]) => node[n].lsn + cfg.maxLag >= status.lsn

(* As long as no leader has been at work since: there is no key, or its     *)
(* owner waits for its promotion and may still give it up.  In pause a      *)
(* replica only takes the key on request.                                   *)
RaceDecided ==
  /\ cfg.paused => \A n \in Members : won[n] # None /\ node[n].pg = "replica" => Requested(won[n])
  /\ ~cfg.paused /\ (leaderKey = None \/ leaderKey \in promoting) =>
       \A n \in Members : won[n] # None => StillFit(n)

RaceInv == RaceTypeOK /\ RaceOrderly /\ RaceDecided

-----------------------------------------------------------------------------
(* A step that leaves the leader key, /status and /history alone and        *)
(* changes PostgreSQL of at most one node n: whoever is about to take the   *)
(* key keeps its role and its timeline, and only gains WAL.                 *)
QuietStep(n, h) ==
  /\ cfg' = cfg /\ history' = history /\ status' = status /\ leaderKey' = leaderKey /\ failover' \in Failovers
  /\ h \in RaceNodes /\ node' = [node EXCEPT ![n] = h]
  /\ won' = won \/ won' = [won EXCEPT ![n] = None]
  /\ promoting' = promoting \/ promoting' = promoting \ {n}
  /\ h.pg = node[n].pg \/ (won'[n] = None /\ n \notin promoting')
  /\ won'[n] = None \/ (h.lsn >= node[n].lsn /\ h.tl >= node[n].tl)

(* Such a step preserves the invariant.                                     *)
LEMMA QuietStepKeeps ==
  ASSUME RaceInv, NEW n \in Members, NEW h, QuietStep(n, h)
  PROVE  RaceInv'
  <1>1. /\ node'[n] = h /\ \A m \in Members : m # n => node'[m] = node[m]
        /\ \A m \in Members : m # n => won'[m] = won[m]
        /\ won'[n] = None \/ won'[n] = won[n]
    BY DEF RaceInv, RaceTypeOK, QuietStep
  <1>2. RaceTypeOK'
    BY DEF RaceInv, RaceTypeOK, QuietStep
  <1>3. RaceOrderly'
    <2>1. \A m \in Members : won'[m] # None => Running(m)' /\ leaderKey' # m
      BY <1>1 DEF RaceInv, RaceOrderly, Running, QuietStep
    <2>2. \A m \in promoting' : leaderKey' = m /\ node'[m].pg = "replica"
      BY <1>1 DEF RaceInv, RaceTypeOK, RaceOrderly, QuietStep
    <2>3. QED BY <2>1, <2>2 DEF RaceOrderly
  <1>4. RaceDecided'
    <2>1. CASE cfg.paused
      BY <1>1, <2>1 DEF RaceInv, RaceDecided, QuietStep
    <2>2. CASE ~cfg.paused
      <3>1. SUFFICES ASSUME leaderKey' = None \/ leaderKey' \in promoting', NEW m \in Members, won'[m] # None
                     PROVE  StillFit(m)'
        BY <2>2 DEF RaceDecided, QuietStep
      <3>2. won[m] # None /\ won'[m] = won[m] /\ StillFit(m)
        BY <1>1, <2>2, <3>1 DEF RaceInv, RaceDecided, QuietStep
      <3>3. /\ node[m] \in RaceNodes /\ node'[m] \in RaceNodes
            /\ node'[m].pg = node[m].pg /\ node'[m].lsn >= node[m].lsn /\ node'[m].tl >= node[m].tl
        BY <1>1, <3>1 DEF RaceInv, RaceTypeOK, QuietStep, RaceNodes
      <3>4. cfg' = cfg /\ cfg.maxLag \in Nat /\ history' = history /\ history \in Nat /\ status' = status
            /\ status.lsn \in Nat
        BY DEF RaceInv, RaceTypeOK, QuietStep
      <3>5. Requested(won'[m]) <=> Requested(won[m])
        BY <3>2
      <3>6. QED BY <3>2, <3>3, <3>4, <3>5 DEF StillFit, RaceNodes
    <2>3. QED BY <2>1, <2>2
  <1>5. QED BY <1>2, <1>3, <1>4 DEF RaceInv

(* demote() of a node that runs as a primary.                               *)
LEMMA DemotedNode ==
  ASSUME RaceTypeOK, NEW n \in Members
  PROVE  \E h \in RaceNodes : /\ Demoted(n) = [node EXCEPT ![n] = h] /\ h.lsn = node[n].lsn /\ h.tl = node[n].tl
                              /\ h.pg = node[n].pg \/ node[n].pg = "primary"
  <1> DEFINE h == [node[n] EXCEPT !.pg = IF @ = "primary" THEN "stopped" ELSE @]
  <1>1. node[n] \in RaceNodes
    BY DEF RaceTypeOK
  <1>2. h \in RaceNodes /\ h.lsn = node[n].lsn /\ h.tl = node[n].tl /\ (h.pg = node[n].pg \/ node[n].pg = "primary")
    BY <1>1 DEF RaceNodes
  <1>3. Demoted(n) = [node EXCEPT ![n] = h]
    BY DEF Demoted, RaceTypeOK
  <1>4. QED BY <1>2, <1>3

(* A node that does not hold the key and follows or loses the race.         *)
LEMMA DemotedKeeps ==
  ASSUME RaceInv, NEW n \in Members, node' = (IF cfg.paused THEN node ELSE Demoted(n)),
         cfg' = cfg, history' = history, status' = status, leaderKey' = leaderKey, promoting' = promoting,
         failover' \in Failovers, won' = won \/ won' = [won EXCEPT ![n] = None], won'[n] = None
  PROVE  RaceInv'
  <1>1. PICK h \in RaceNodes : /\ node' = [node EXCEPT ![n] = h] /\ h.lsn = node[n].lsn /\ h.tl = node[n].tl
                               /\ h.pg = node[n].pg \/ node[n].pg = "primary"
    <2>1. CASE cfg.paused
      <3>1. node' = [node EXCEPT ![n] = node[n]] /\ node[n] \in RaceNodes
        BY <2>1 DEF RaceInv, RaceTypeOK
      <3>2. QED BY <3>1
    <2>2. CASE ~cfg.paused
      BY <2>2, DemotedNode DEF RaceInv
    <2>3. QED BY <2>1, <2>2
  <1>2. h.pg = node[n].pg \/ n \notin promoting
    BY <1>1 DEF RaceInv, RaceOrderly
  <1>3. QuietStep(n, h)
    BY <1>1, <1>2 DEF QuietStep
  <1>4. QED BY <1>3, QuietStepKeeps

(* A step that changes neither the nodes nor the keys but /failover.        *)
LEMMA RequestKeeps ==
  ASSUME RaceInv, node' = node, cfg' = cfg, history' = history, status' = status, leaderKey' = leaderKey,
         promoting' = promoting, won' = won, failover' \in Failovers
  PROVE  RaceInv'
  <1>1. RaceTypeOK'
    BY DEF RaceInv, RaceTypeOK
  <1>2. RaceOrderly'
    BY DEF RaceInv, RaceOrderly, Running
  <1>3. RaceDecided'
    BY DEF RaceInv, RaceDecided, StillFit
  <1>4. QED BY <1>1, <1>2, <1>3 DEF RaceInv
-----------------------------------------------------------------------------
(* What the answer of is_healthiest_node() says about the node itself.      *)
LEMMA HealthiestIsFit ==
  ASSUME RaceTypeOK, NEW n \in Members, NEW former, NEW reach, IsHealthiestNode(n, former, reach)
  PROVE  /\ cfg.paused /\ node[n].pg = "replica" => Requested(failover)
         /\ ~cfg.paused /\ node[n].pg = "primary" => node[n].tl >= history
         /\ ~cfg.paused /\ node[n].pg = "replica" /\ ~Requested(failover) => node[n].lsn + cfg.maxLag >= status.lsn
  <1>1. cfg.paused /\ node[n].pg = "replica" => Requested(failover)
    BY DEF IsHealthiestNode
  <1>2. ~cfg.paused /\ node[n].pg = "primary" => node[n].tl >= history
    BY DEF IsHealthiestNode
  <1>3. ASSUME ~cfg.paused, node[n].pg = "replica", ~Requested(failover)
        PROVE  node[n].lsn + cfg.maxLag >= status.lsn
    <2>1. ~IsLagging(node[n].lsn)
      BY <1>3 DEF IsHealthiestNode, HealthiestAmong
    <2>2. node[n].lsn \in Nat /\ cfg.maxLag \in Nat /\ status.lsn \in Nat
      BY DEF RaceTypeOK, RaceNodes
    <2>3. QED BY <2>1, <2>2 DEF IsLagging
  <1>4. QED BY <1>1, <1>2, <1>3

(* The decision to take the key.                                            *)
LEMMA RaceKeeps ==
  ASSUME RaceInv, NEW n \in Members, Race(n)
  PROVE  RaceInv'
  <1>1. /\ leaderKey = None /\ Running(n) /\ won[n] = None /\ leaderKey' = leaderKey /\ promoting' = promoting
        /\ cfg' = cfg /\ status' = status /\ history' = history
    BY DEF Race
  <1>2. failover' \in Failovers /\ failover \in Failovers
    BY DEF Race, NoFailover, Failovers, RaceInv, RaceTypeOK
  <1>3. PICK reach \in SUBSET (Members \ {n}), former \in Members \cup {None} :
          IF IsHealthiestNode(n, former, reach)
          THEN won' = [won EXCEPT ![n] = failover] /\ node' = node
          ELSE won' = won /\ node' = IF cfg.paused THEN node ELSE Demoted(n)
    BY DEF Race
  <1>4. CASE ~IsHealthiestNode(n, former, reach)
    BY <1>1, <1>2, <1>3, <1>4, DemotedKeeps
  <1>5. CASE IsHealthiestNode(n, former, reach)
    <2>1. /\ won' = [won EXCEPT ![n] = failover] /\ node' = node
          /\ won'[n] = failover /\ \A m \in Members : m # n => won'[m] = won[m]
      BY <1>3, <1>5 DEF RaceInv, RaceTypeOK
    <2>2. RaceTypeOK'
      BY <1>1, <1>2, <2>1 DEF RaceInv, RaceTypeOK
    <2>3. n # None
      BY RaceAssumption
    <2>4. RaceOrderly'
      BY <1>1, <2>1, <2>3 DEF RaceInv, RaceOrderly, Running
    <2>5. RaceDecided'
      <3>1. CASE cfg.paused
        BY <1>1, <1>5, <2>1, <3>1, HealthiestIsFit DEF RaceInv, RaceDecided
      <3>2. CASE ~cfg.paused
        <4>1. ASSUME NEW m \in Members, won'[m] # None PROVE StillFit(m)'
          <5>1. CASE m = n
            BY <1>1, <1>5, <2>1, <3>2, <5>1, HealthiestIsFit DEF RaceInv, StillFit
          <5>2. CASE m # n
            BY <1>1, <2>1, <3>2, <4>1, <5>2 DEF RaceInv, RaceDecided, StillFit
          <5>3. QED BY <5>1, <5>2
        <4>2. QED BY <1>1, <3>2, <4>1 DEF RaceDecided
      <3>3. QED BY <3>1, <3>2
    <2>6. QED BY <2>2, <2>4, <2>5 DEF RaceInv
  <1>6. QED BY <1>4, <1>5

(* The key is taken, or somebody was faster.                                *)
LEMMA AcquireKeeps ==
  ASSUME RaceInv, NEW n \in Members, AcquireLock(n)
  PROVE  RaceInv'
  <1>1. /\ won[n] # None /\ Running(n) /\ won' = [won EXCEPT ![n] = None]
        /\ cfg' = cfg /\ status' = status /\ history' = history
    BY DEF AcquireLock
  <1>2. won'[n] = None /\ \A m \in Members : m # n => won'[m] = won[m]
    BY <1>1 DEF RaceInv, RaceTypeOK
  <1>3. CASE leaderKey # None
    BY <1>1, <1>2, <1>3, DemotedKeeps DEF AcquireLock, RaceInv, RaceTypeOK
  <1>4. CASE leaderKey = None
    <2>1. /\ leaderKey' = n /\ node' = node
          /\ promoting' = IF node[n].pg = "replica" THEN promoting \cup {n} ELSE promoting
      BY <1>4 DEF AcquireLock
    <2>2. failover' \in Failovers
      <3>1. won[n] \in Failovers /\ failover \in Failovers
        BY <1>1 DEF RaceInv, RaceTypeOK
      <3>2. ManualFailover(None, won[n].candidate, won[n].site, won[n].scheduled) \in Failovers
        BY <3>1 DEF ManualFailover, Failovers
      <3>3. NoFailover \in Failovers
        BY DEF NoFailover, Failovers
      <3>4. QED BY <1>4, <3>1, <3>2, <3>3 DEF AcquireLock
    <2>3. promoting = {} /\ n # None
      BY <1>4, RaceAssumption DEF RaceInv, RaceTypeOK, RaceOrderly
    <2>4. RaceTypeOK'
      BY <1>1, <2>1, <2>2 DEF RaceInv, RaceTypeOK
    <2>5. RaceOrderly'
      BY <1>1, <1>2, <2>1, <2>3 DEF RaceInv, RaceOrderly, Running
    <2>6. RaceDecided'
      BY <1>1, <1>2, <1>4, <2>1 DEF RaceInv, RaceDecided, StillFit
    <2>7. QED BY <2>4, <2>5, <2>6 DEF RaceInv
  <1>5. QED BY <1>3, <1>4

(* The holder of the key is promoted: from now on nobody else's decision    *)
(* counts until it is void.                                                 *)
LEMMA PromoteKeeps ==
  ASSUME RaceInv, NEW n \in Members, Promote(n)
  PROVE  RaceInv'
  <1> DEFINE h == [node[n] EXCEPT !.pg = "primary", !.tl = @ + 1]
  <1>1. /\ leaderKey = n /\ leaderKey' = n /\ node' = [node EXCEPT ![n] = h] /\ promoting' = promoting \ {n}
        /\ won' = won /\ cfg' = cfg /\ status' = status /\ history' = history /\ failover' = failover
    BY DEF Promote, keys, RaceInv, RaceTypeOK
  <1>2. h \in RaceNodes
    <2>1. node[n] \in RaceNodes
      BY DEF RaceInv, RaceTypeOK
    <2>2. node[n].tl + 1 \in Nat
      BY <2>1 DEF RaceNodes
    <2>3. QED BY <2>1, <2>2 DEF RaceNodes
  <1> HIDE DEF h
  <1>3. node'[n] = h /\ \A m \in Members : m # n => node'[m] = node[m]
    BY <1>1 DEF RaceInv, RaceTypeOK
  <1>4. won[n] = None /\ n # None
    BY <1>1, RaceAssumption DEF RaceInv, RaceOrderly
  <1>5. RaceTypeOK'
    BY <1>1, <1>2 DEF RaceInv, RaceTypeOK
  <1>6. RaceOrderly'
    BY <1>1, <1>3, <1>4 DEF RaceInv, RaceTypeOK, RaceOrderly, Running
  <1>7. RaceDecided'
    BY <1>1, <1>3, <1>4 DEF RaceInv, RaceDecided
  <1>8. QED BY <1>5, <1>6, <1>7 DEF RaceInv

(* The key is given up or expires.                                          *)
LEMMA KeyGoneKeeps ==
  ASSUME RaceInv, NEW n \in Members, leaderKey = n,
         leaderKey' = None, promoting' = promoting \ {n}, cfg' = cfg, node' = node, won' = won,
         history' = history, status' = status, failover' = failover,
         n \in promoting \/ cfg.paused \/ LockAttemptsDone
  PROVE  RaceInv'
  <1>1. RaceTypeOK'
    BY DEF RaceInv, RaceTypeOK
  <1>2. promoting' = {} /\ \A m \in Members : m # None
    BY RaceAssumption DEF RaceInv, RaceTypeOK, RaceOrderly
  <1>3. RaceOrderly'
    BY <1>2 DEF RaceInv, RaceOrderly, Running
  <1>4. RaceDecided'
    BY DEF RaceInv, RaceDecided, StillFit, LockAttemptsDone
  <1>5. QED BY <1>1, <1>3, <1>4 DEF RaceInv

(* The cycle of a leader: it may write /status and /history, since it only  *)
(* gives the key up when nobody is about to take it.                        *)
LEMMA LeaderCycleKeeps ==
  ASSUME RaceInv, NEW n \in Members, LeaderCycle(n)
  PROVE  RaceInv'
  <1>1. /\ leaderKey = n /\ node[n].pg = "primary" /\ status' = [lsn |-> node[n].lsn, site |-> cfg.site[n]]
        /\ won' = won /\ promoting' = promoting /\ cfg' = cfg
    BY DEF LeaderCycle
  <1>2. node[n] \in RaceNodes /\ n \notin promoting /\ n # None /\ promoting = {}
    BY <1>1, RaceAssumption DEF RaceInv, RaceTypeOK, RaceOrderly
  <1>3. status'.lsn \in Nat
    BY <1>1, <1>2 DEF RaceNodes
  <1>4. CASE LockAttemptsDone /\ leaderKey' = None /\ node' = Demoted(n) /\ failover' = failover /\ history' = history
    <2>1. PICK h \in RaceNodes : node' = [node EXCEPT ![n] = h]
      BY <1>4, DemotedNode DEF RaceInv
    <2>2. RaceTypeOK'
      BY <1>1, <1>3, <1>4, <2>1 DEF RaceInv, RaceTypeOK
    <2>3. RaceOrderly' /\ RaceDecided'
      BY <1>1, <1>2, <1>4 DEF RaceOrderly, RaceDecided, LockAttemptsDone
    <2>4. QED BY <2>2, <2>3 DEF RaceInv
  <1>5. CASE /\ failover' = IF AwaitsSchedule(failover) THEN failover ELSE NoFailover
             /\ history' = node[n].tl /\ leaderKey' = leaderKey /\ node' = node
    <2>1. failover' \in Failovers /\ history' \in Nat
      BY <1>2, <1>5 DEF NoFailover, Failovers, RaceInv, RaceTypeOK, RaceNodes
    <2>2. RaceTypeOK'
      BY <1>1, <1>3, <1>5, <2>1 DEF RaceInv, RaceTypeOK
    <2>3. RaceOrderly'
      BY <1>1, <1>5 DEF RaceInv, RaceOrderly, Running
    <2>4. RaceDecided'
      BY <1>1, <1>2, <1>5 DEF RaceInv, RaceDecided
    <2>5. QED BY <2>2, <2>3, <2>4 DEF RaceInv
  <1>6. QED BY <1>4, <1>5 DEF LeaderCycle
-----------------------------------------------------------------------------
(* The steps of a node that the lemmas above do not name.                   *)
LEMMA NodeStepKeeps ==
  ASSUME RaceInv, NEW n \in Members,
         FollowLeader(n) \/ BackoffEnds(n) \/ CrashNode(n) \/ MemberExpires(n) \/ StartReplica(n) \/ WriteWal(n)
           \/ SetSync(n) \/ \E p \in Members : StreamWal(n, p)
  PROVE  RaceInv'
  <1>1. node[n] \in RaceNodes /\ failover \in Failovers
    BY DEF RaceInv, RaceTypeOK
  <1>2. CASE FollowLeader(n)
    BY <1>1, <1>2, DemotedKeeps DEF FollowLeader, keys
  <1>3. CASE BackoffEnds(n) \/ MemberExpires(n) \/ SetSync(n)
    BY <1>1, <1>3, RequestKeeps DEF BackoffEnds, MemberExpires, SetSync, keys
  <1>4. CASE CrashNode(n)
    <2> DEFINE h == [node[n] EXCEPT !.pg = "stopped"]
    <2>1. h \in RaceNodes
      BY <1>1 DEF RaceNodes
    <2>2. node' = [node EXCEPT ![n] = h] /\ won' = [won EXCEPT ![n] = None] /\ won'[n] = None
      BY <1>4 DEF CrashNode, RaceInv, RaceTypeOK
    <2> HIDE DEF h
    <2>3. QuietStep(n, h)
      BY <1>1, <1>4, <2>1, <2>2 DEF CrashNode, QuietStep, keys
    <2>4. QED BY <2>3, QuietStepKeeps
  <1>5. CASE StartReplica(n)
    <2> DEFINE h == [node[n] EXCEPT !.pg = "replica"]
    <2>1. h \in RaceNodes
      BY <1>1 DEF RaceNodes
    <2>2. node' = [node EXCEPT ![n] = h]
      BY <1>5 DEF StartReplica, RaceInv, RaceTypeOK
    <2>3. won[n] = None /\ n \notin promoting
      BY <1>5 DEF StartReplica, RaceInv, RaceOrderly, Running
    <2> HIDE DEF h
    <2>4. QuietStep(n, h)
      BY <1>1, <1>5, <2>1, <2>2, <2>3 DEF StartReplica, QuietStep, keys
    <2>5. QED BY <2>4, QuietStepKeeps
  <1>6. CASE WriteWal(n)
    <2> DEFINE h == [node[n] EXCEPT !.lsn = node[n].lsn + 1]
    <2>1. node[n].lsn \in Nat /\ node[n].tl \in Nat
      BY <1>1 DEF RaceNodes
    <2>2. h \in RaceNodes /\ h.pg = node[n].pg /\ h.tl = node[n].tl /\ h.lsn = node[n].lsn + 1
      BY <1>1, <2>1 DEF RaceNodes
    <2>3. node' = [node EXCEPT ![n] = h]
      BY <1>6 DEF WriteWal, RaceInv, RaceTypeOK
    <2> HIDE DEF h
    <2>4. h.lsn >= node[n].lsn /\ h.tl >= node[n].tl
      BY <2>1, <2>2
    <2>5. QuietStep(n, h)
      BY <1>1, <1>6, <2>2, <2>3, <2>4 DEF WriteWal, QuietStep, keys
    <2>6. QED BY <2>5, QuietStepKeeps
  <1>7. CASE \E p \in Members : StreamWal(n, p)
    <2>1. PICK p \in Members : StreamWal(n, p)
      BY <1>7
    <2> DEFINE h == [node[n] EXCEPT !.tl = node[p].tl, !.lsn = node[p].lsn]
    <2>2. node[p] \in RaceNodes
      BY DEF RaceInv, RaceTypeOK
    <2>3. h \in RaceNodes /\ h.pg = node[n].pg /\ h.tl = node[p].tl /\ h.lsn = node[p].lsn
      BY <1>1, <2>2 DEF RaceNodes
    <2>4. node' = [node EXCEPT ![n] = h]
      BY <2>1 DEF StreamWal, RaceInv, RaceTypeOK
    <2> HIDE DEF h
    <2>5. won[n] = None \/ (h.lsn >= node[n].lsn /\ h.tl >= node[n].tl)
      <3>1. node[n].lsn \in Nat /\ node[p].lsn \in Nat /\ node[n].tl \in Nat /\ node[p].tl \in Nat
        BY <1>1, <2>2 DEF RaceNodes
      <3>2. node[n].tl <= node[p].tl /\ (node[n].lsn > node[p].lsn => won[n] = None)
        BY <2>1 DEF StreamWal
      <3>3. QED BY <2>3, <3>1, <3>2
    <2>6. QuietStep(n, h)
      BY <1>1, <2>1, <2>3, <2>4, <2>5 DEF StreamWal, QuietStep, keys
    <2>7. QED BY <2>6, QuietStepKeeps
  <1>8. QED BY <1>2, <1>3, <1>4, <1>5, <1>6, <1>7

(* Every step preserves the invariant.                                      *)
LEMMA RaceStep ==
  ASSUME RaceInv, [RaceNext]_raceVars
  PROVE  RaceInv'
  <1>1. failover \in Failovers
    BY DEF RaceInv, RaceTypeOK
  <1>2. ASSUME NEW n \in Members, ReleaseKey(n) \/ PausedNotPrimary(n)
        PROVE  RaceInv'
    <2>1. promoting' = promoting \ {n}
      BY <1>2 DEF ReleaseKey, PausedNotPrimary
    <2>2. QED BY <1>2, <2>1, KeyGoneKeeps DEF ReleaseKey, PausedNotPrimary, keys
  <1>3. CASE KeyExpires
    <2>1. leaderKey \in Members
      BY <1>3 DEF KeyExpires, RaceInv, RaceTypeOK
    <2>2. QED BY <1>3, <2>1, KeyGoneKeeps DEF KeyExpires, keys
  <1>4. CASE Request
    <2>1. PICK l \in {None, leaderKey}, c \in Members \cup {None}, s \in Sites \cup {None}, at \in {None, "future"} :
            failover' = ManualFailover(l, c, s, at)
      BY <1>4 DEF Request
    <2>2. failover' \in Failovers
      BY <2>1 DEF ManualFailover, Failovers, RaceInv, RaceTypeOK
    <2>3. QED BY <1>4, <2>2, RequestKeeps DEF Request
  <1>5. CASE DeleteSwitchover
    BY <1>5, RequestKeeps DEF DeleteSwitchover, NoFailover, Failovers
  <1>6. CASE TimePasses
    <2>1. failover' \in Failovers
      BY <1>1, <1>6 DEF TimePasses, Failovers
    <2>2. QED BY <1>6, <2>1, RequestKeeps DEF TimePasses
  <1>7. CASE UNCHANGED raceVars
    BY <1>1, <1>7, RequestKeeps DEF raceVars
  <1>8. QED BY <1>2, <1>3, <1>4, <1>5, <1>6, <1>7, RaceKeeps, AcquireKeeps, PromoteKeeps, LeaderCycleKeeps,
              NodeStepKeeps DEF RaceNext

(* The first state.                                                         *)
LEMMA RaceInvInit == RaceInit => RaceInv
  <1> SUFFICES ASSUME RaceInit PROVE RaceInv
    OBVIOUS
  <1>1. cfg.first \in Members /\ cfg.maxLag \in Nat /\ leaderKey = cfg.first
        /\ node = [n \in Members |-> [pg |-> IF n = cfg.first THEN "primary" ELSE "replica", tl |-> 1, lsn |-> 1]]
    BY RaceAssumption DEF RaceInit
  <1>2. node \in [Members -> RaceNodes]
    BY <1>1 DEF RaceNodes
  <1>3. RaceTypeOK
    BY <1>1, <1>2 DEF RaceInit, RaceTypeOK, NoFailover, Failovers
  <1>4. RaceOrderly /\ RaceDecided
    BY DEF RaceInit, RaceOrderly, RaceDecided
  <1>5. QED BY <1>3, <1>4 DEF RaceInv

(* WinnerIsFit: who takes a free leader key is fit for it at that moment,   *)
(* whatever happened since is_healthiest_node() answered.  A primary that   *)
(* comes back after its key expired does not discard a promotion that the   *)
(* /history key has, and a failover nobody asked for does not lose more     *)
(* than maximum_lag_on_failover of what the last leader wrote to /status.   *)
THEOREM WinnerFit == RaceSpec => WinnerIsFit
  <1> DEFINE Fits == \A n \in Members : leaderKey = None /\ leaderKey' = n =>
                       /\ node[n].pg = "primary" /\ ~cfg.paused => node[n].tl >= history
                       /\ node[n].pg = "replica" /\ ~Requested(won[n]) => node[n].lsn + cfg.maxLag >= status.lsn
  <1>1. RaceInit => RaceInv
    BY RaceInvInit
  <1>2. RaceInv /\ [RaceNext]_raceVars => RaceInv'
    BY RaceStep
  <1>3. RaceInv /\ [RaceNext]_raceVars => [Fits]_raceVars
    <2> SUFFICES ASSUME RaceInv, RaceNext, NEW n \in Members, leaderKey = None, leaderKey' = n
                 PROVE  /\ node[n].pg = "primary" /\ ~cfg.paused => node[n].tl >= history
                        /\ node[n].pg = "replica" /\ ~Requested(won[n]) => node[n].lsn + cfg.maxLag >= status.lsn
      OBVIOUS
    <2>1. n # None
      BY RaceAssumption
    <2>2. \E m \in Members : AcquireLock(m)
      BY <2>1 DEF RaceNext, FollowLeader, Race, Promote, ReleaseKey, BackoffEnds, LeaderCycle, PausedNotPrimary,
                  CrashNode, MemberExpires, StartReplica, WriteWal, SetSync, StreamWal, Request, DeleteSwitchover,
                  TimePasses, KeyExpires
    <2>3. AcquireLock(n)
      BY <2>2 DEF AcquireLock
    <2>4. won[n] # None /\ Running(n)
      BY <2>3 DEF AcquireLock
    <2>5. QED BY <2>4 DEF RaceInv, RaceDecided, StillFit
  <1>4. QED BY <1>1, <1>2, <1>3, PTL DEF RaceSpec, WinnerIsFit
-----------------------------------------------------------------------------
(* Somebody wins. *)

(* A set of numbers has a least one, and so induction is a proof about the  *)
(* least counterexample.                                                    *)
LEMMA LeastNat ==
  ASSUME NEW T \in SUBSET Nat, T # {}
  PROVE  \E m \in T : \A n \in T : m <= n
  <1>1. IsWellFoundedOn(OpToRel(<, Nat), Nat)
    BY NatLessThanWellFounded, Zenon
  <1>2. PICK m \in T : \A n \in T : ~(<<n, m>> \in OpToRel(<, Nat))
    BY <1>1, WFMin, Zenon
  <1>3. \A n \in T : ~(n < m)
    BY <1>2 DEF OpToRel
  <1>4. QED BY <1>3

(* Among finitely many nodes one is best, whatever number they are rated by.*)
LEMMA BestOf ==
  ASSUME NEW f, NEW All, NEW Some, Some \in SUBSET All, Some # {}, IsFiniteSet(All), f \in [All -> Int]
  PROVE  \E x \in Some : \A y \in Some : f[y] <= f[x]
  <1> DEFINE HasBest(S) == \E x \in S : \A y \in S : f[y] <= f[x]
             Bad == {n \in Nat : \E S \in SUBSET All : S # {} /\ Cardinality(S) = n /\ ~HasBest(S)}
  <1>1. \A S \in SUBSET All : /\ IsFiniteSet(S) /\ Cardinality(S) \in Nat
                              /\ \A x \in S : Cardinality(S \ {x}) = Cardinality(S) - 1
    <2>1. ASSUME NEW S \in SUBSET All
          PROVE  IsFiniteSet(S)
      BY FS_Subset
    <2>2. QED BY <2>1, FS_CardinalityType, FS_RemoveElement
  <1>2. SUFFICES ASSUME Bad # {} PROVE FALSE
    <2>1. Cardinality(Some) \in Nat
      BY <1>1
    <2>2. QED BY <1>2, <2>1
  <1>3. PICK n \in Bad : \A k \in Bad : n <= k
    BY <1>2, LeastNat
  <1>4. PICK S \in SUBSET All : S # {} /\ Cardinality(S) = n /\ ~HasBest(S)
    BY <1>3
  <1>5. PICK x \in S : TRUE
    BY <1>4
  <1>6. S \ {x} # {}
    BY <1>4, <1>5
  <1>7. HasBest(S \ {x})
    <2>1. Cardinality(S \ {x}) = n - 1 /\ n - 1 \in Nat
      BY <1>1, <1>4, <1>5
    <2>2. n - 1 \notin Bad
      BY <1>3, <2>1
    <2>3. QED BY <1>6, <2>1, <2>2
  <1>8. PICK y \in S \ {x} : \A z \in S \ {x} : f[z] <= f[y]
    BY <1>7
  <1>9. \A z \in S : f[z] \in Int
    OBVIOUS
  <1>10. CASE f[x] <= f[y]
    BY <1>4, <1>8, <1>9, <1>10
  <1>11. CASE f[y] <= f[x]
    BY <1>4, <1>5, <1>8, <1>9, <1>11
  <1>12. QED BY <1>5, <1>8, <1>9, <1>10, <1>11

(* The site rules of _is_healthiest_node(): among the nodes that are ahead  *)
(* of the others some are preferred, and they only compare their priority   *)
(* with each other.                                                         *)
LEMMA SitesPrefer ==
  ASSUME NEW Top \in SUBSET Members, Top # {}
  PROVE  \E P \in SUBSET Top :
           /\ P # {}
           /\ \A n \in P : \A eligible \in SUBSET Top :
                /\ ~SiteRules(n, eligible).yields
                /\ SiteRules(n, eligible).against \in SUBSET P
  <1> DEFINE At(s) == {m \in Top : cfg.site[m] = s}
             Away == {m \in Top : cfg.site[m] # status.site}
  <1>1. CASE failover.site # None /\ At(failover.site) # {}
    <2>1. \A n \in At(failover.site) : \A eligible \in SUBSET Top :
            /\ ~SiteRules(n, eligible).yields /\ SiteRules(n, eligible).against \in SUBSET At(failover.site)
      BY <1>1 DEF SiteRules
    <2>2. QED BY <1>1, <2>1
  <1>2. CASE failover.site # None /\ At(failover.site) = {} /\ status.site \notin {None, failover.site} /\ Away # {}
    <2>1. \A n \in Away : \A eligible \in SUBSET Top :
            /\ ~SiteRules(n, eligible).yields /\ SiteRules(n, eligible).against \in SUBSET Away
      BY <1>2 DEF SiteRules
    <2>2. QED BY <1>2, <2>1
  <1>3. CASE failover.site # None /\ At(failover.site) = {} /\ status.site \notin {None, failover.site} /\ Away = {}
    <2>1. \A n \in Top : \A eligible \in SUBSET Top :
            /\ ~SiteRules(n, eligible).yields /\ SiteRules(n, eligible).against \in SUBSET Top
      BY <1>3 DEF SiteRules
    <2>2. QED BY <2>1
  <1>4. CASE failover.site # None /\ At(failover.site) = {} /\ status.site \in {None, failover.site}
    <2>1. \A n \in Top : \A eligible \in SUBSET Top :
            /\ ~SiteRules(n, eligible).yields /\ SiteRules(n, eligible).against \in SUBSET Top
      BY <1>4 DEF SiteRules
    <2>2. QED BY <2>1
  <1>5. CASE failover.site = None /\ status.site # None /\ At(status.site) # {}
    <2>1. \A n \in At(status.site) : \A eligible \in SUBSET Top :
            /\ ~SiteRules(n, eligible).yields /\ SiteRules(n, eligible).against \in SUBSET At(status.site)
      BY <1>5 DEF SiteRules
    <2>2. QED BY <1>5, <2>1
  <1>6. CASE failover.site = None /\ (status.site = None \/ At(status.site) = {})
    <2>1. \A n \in Top : \A eligible \in SUBSET Top :
            /\ ~SiteRules(n, eligible).yields /\ SiteRules(n, eligible).against \in SUBSET Top
      BY <1>6 DEF SiteRules
    <2>2. QED BY <2>1
  <1>7. QED BY <1>1, <1>2, <1>3, <1>4, <1>5, <1>6

(* A node that nobody is ahead of, and that is preferred among those as far *)
(* as it is, finds itself to be the healthiest of its group.                *)
LEMMA BestIsHealthiest ==
  ASSUME RaceTypeOK, IsFiniteSet(Members), cfg.priority \in [Members -> Int],
         \A n \in Members : node[n].pg # "primary",
         NEW E \in SUBSET Members, E # {},
         \A n \in E : cfg.checkTimeline => node[n].tl >= history,
         NEW group \in SUBSET Members,
         \A m \in group : node[m].pg = "replica" /\ m \notin cfg.nofailover \cup cfg.watchdogFailed => m \in E
  PROVE  \E n \in E : /\ HealthiestAmong(n, group, FALSE, None, Members)
                      /\ \A m \in E : node[m].lsn <= node[n].lsn
  <1> DEFINE lsns == [n \in Members |-> node[n].lsn]
  <1>1. lsns \in [Members -> Int] /\ \A n \in Members : lsns[n] = node[n].lsn /\ node[n].lsn \in Nat
    BY DEF RaceTypeOK, RaceNodes
  <1>2. PICK t \in E : \A m \in E : lsns[m] <= lsns[t]
    <2> HIDE DEF lsns
    <2>1. QED BY <1>1, BestOf
  <1> DEFINE Top == {m \in E : node[m].lsn = node[t].lsn}
  <1>3. Top \in SUBSET Members /\ Top # {}
    OBVIOUS
  <1>4. PICK P \in SUBSET Top : /\ P # {}
                                /\ \A n \in P : \A eligible \in SUBSET Top :
                                     /\ ~SiteRules(n, eligible).yields
                                     /\ SiteRules(n, eligible).against \in SUBSET P
    <2> HIDE DEF Top
    <2>1. QED BY <1>3, SitesPrefer
  <1>5. PICK n \in P : \A m \in P : cfg.priority[m] <= cfg.priority[n]
    <2>1. P \in SUBSET Members
      BY <1>3
    <2>2. QED BY <1>4, <2>1, BestOf
  <1>6. n \in E /\ node[n].lsn = node[t].lsn /\ \A m \in E : node[m].lsn <= node[n].lsn
    BY <1>1, <1>2
  <1> DEFINE able == {m \in group \ {n} : m \notin cfg.nofailover /\ ~FailoverLimitation(m, Members)}
             eligible == {m \in able : Position(m) = node[n].lsn}
  <1>7. \A m \in able : m \in E /\ node[m].pg = "replica" /\ Position(m) = node[m].lsn
    BY DEF FailoverLimitation, Reachable, Position
  <1>8. {m \in able : node[n].lsn < Position(m)} = {}
    BY <1>1, <1>6, <1>7
  <1>9. eligible \in SUBSET Top
    BY <1>6, <1>7
  <1>10. /\ ~SiteRules(n, eligible).yields
         /\ \A m \in SiteRules(n, eligible).against : ~(cfg.priority[n] < cfg.priority[m])
    <2>1. ~SiteRules(n, eligible).yields /\ SiteRules(n, eligible).against \in SUBSET P
      BY <1>4, <1>9
    <2>2. \A m \in P : cfg.priority[m] <= cfg.priority[n] /\ cfg.priority[m] \in Int /\ cfg.priority[n] \in Int
      BY <1>3, <1>5
    <2>3. \A m \in P : ~(cfg.priority[n] < cfg.priority[m])
      BY <2>2
    <2>4. QED BY <2>1, <2>3, Zenon
  <1>11. cfg.checkTimeline => node[n].tl >= history
    BY <1>6
  <1>12. HealthiestAmong(n, group, FALSE, None, Members)
    <2>1. \A m \in able : node[m].pg # "primary"
      BY <1>7
    <2>2. \A m \in {m \in able : node[n].lsn < Position(m)} : SyncModeIsActive /\ m = sync.leader
      BY <1>8
    <2>3. \A m \in SiteRules(n, eligible).against :
            cfg.priority[n] < cfg.priority[m] => m = (IF SyncModeIsActive THEN sync.leader ELSE None)
      BY <1>10
    <2>4. QED BY <1>10, <1>11, <2>1, <2>2, <2>3, Zenon DEF HealthiestAmong
  <1>13. QED BY <1>6, <1>12

(* The nodes that may win: those the others count and that do not keep out  *)
(* of the race.                                                             *)
Entrants ==
  {m \in Members : /\ node[m].pg = "replica" /\ m \notin cfg.nofailover \cup cfg.watchdogFailed
                   /\ SyncModeIsActive => SyncMatches(m, TRUE)}

(* What the race depends on besides the types.                              *)
RaceSettled == cfg \in RaceConfigs /\ members \in SUBSET Members

(* Without a request the entrants with the most WAL are not lagging, as     *)
(* some fit node is not.                                                    *)
LEMMA AutomaticFailover ==
  ASSUME RaceTypeOK, RaceSettled, RaceStands, \A m \in Members : ~Unfit(m), ~Requested(failover)
  PROVE  \E n \in Members : IsHealthiestNode(n, None, Members)
  <1>1. IsFiniteSet(Members) /\ cfg.priority \in [Members -> Int] /\ cfg.maxLag \in Nat /\ status.lsn \in Nat
    BY RaceAssumption DEF RaceSettled, RaceTypeOK
  <1>2. PICK f \in Members : Fit(f)
    BY DEF RaceStands
  <1>3. f \in Entrants
    BY <1>2 DEF Fit, Entrants
  <1>4. \A n \in Entrants : cfg.checkTimeline => node[n].tl >= history
    BY DEF Entrants, Unfit, RaceTypeOK, RaceNodes
  <1> DEFINE group == {m \in Members : SyncModeIsActive => SyncMatches(m, TRUE)}
  <1>5. \A m \in group : node[m].pg = "replica" /\ m \notin cfg.nofailover \cup cfg.watchdogFailed => m \in Entrants
    BY DEF Entrants
  <1>6. PICK n \in Entrants : /\ HealthiestAmong(n, group, FALSE, None, Members)
                              /\ \A m \in Entrants : node[m].lsn <= node[n].lsn
    <2>1. Entrants \in SUBSET Members /\ Entrants # {} /\ \A m \in Members : node[m].pg # "primary"
      BY <1>3 DEF Entrants, RaceStands
    <2>2. group \in SUBSET Members
      OBVIOUS
    <2> HIDE DEF group
    <2>3. QED BY <1>1, <1>4, <1>5, <2>1, <2>2, BestIsHealthiest
  <1>7. ~IsLagging(node[n].lsn)
    <2>1. node[f].lsn \in Nat /\ node[n].lsn \in Nat /\ node[f].lsn <= node[n].lsn
      BY <1>3, <1>6 DEF RaceTypeOK, RaceNodes, Entrants
    <2>2. QED BY <1>1, <1>2, <2>1 DEF Fit, IsLagging
  <1>8. HealthiestAmong(n, group, TRUE, None, Members)
    BY <1>6, <1>7 DEF HealthiestAmong
  <1>9. /\ n \in Members /\ n \notin backoff /\ node[n].pg = "replica" /\ ~cfg.paused /\ n \notin cfg.nofailover
        /\ n \notin cfg.watchdogFailed /\ (SyncModeIsActive => SyncMatches(n, TRUE))
        /\ cfg.failsafe /\ failsafe # {} => n \in failsafe
    BY <1>6 DEF Entrants, RaceStands, Unfit
  <1>10. IsHealthiestNode(n, None, Members)
    BY <1>8, <1>9 DEF IsHealthiestNode
  <1>11. QED BY <1>9, <1>10

(* With a request for a candidate that runs, the candidate wins.            *)
LEMMA CandidateWins ==
  ASSUME RaceStands, Requested(failover), failover.candidate \in Members, node[failover.candidate].pg = "replica",
         failover.candidate \notin cfg.nofailover, None \notin Members
  PROVE  IsHealthiestNode(failover.candidate, None, Members)
  <1>1. ~cfg.paused /\ backoff = {}
    BY DEF RaceStands
  <1>2. failover.leader # None /\ SyncModeIsActive => SyncMatches(failover.candidate, TRUE)
    BY DEF RaceStands, WaitsForOutsider
  <1>3. ManualFailoverNoLeader(failover.candidate, Members)
    BY DEF ManualFailoverNoLeader
  <1>4. QED BY <1>1, <1>2, <1>3 DEF IsHealthiestNode

(* Without one the others elect somebody, the leader that is to be replaced *)
(* only when there is nobody else.                                          *)
LEMMA RequestedFailover ==
  ASSUME RaceTypeOK, RaceSettled, RaceStands, \A m \in Members : ~Unfit(m), Requested(failover)
  PROVE  \E n \in Members : IsHealthiestNode(n, None, Members)
  <1> DEFINE c == failover.candidate
  <1>1. /\ IsFiniteSet(Members) /\ None \notin Members /\ cfg.priority \in [Members -> Int]
        /\ c \in Members \cup {None}
    BY RaceAssumption DEF RaceSettled, RaceTypeOK, Failovers
  <1>2. CASE c \in Members /\ node[c].pg = "replica" /\ c \notin cfg.nofailover
    BY <1>1, <1>2, CandidateWins
  <1>3. CASE ~(c \in Members /\ node[c].pg = "replica" /\ c \notin cfg.nofailover)
    <2>1. /\ ~cfg.paused /\ backoff = {} /\ \A m \in Members : node[m].pg # "primary"
          /\ \E n \in Members : Fit(n)
      BY DEF RaceStands
    <2>2. c \in members => FailoverLimitation(c, Members)
      BY <1>3, <2>1 DEF FailoverLimitation, Reachable, RaceSettled
    <2>3. Entrants # {} /\ Entrants \in SUBSET Members
      BY <2>1 DEF Fit, Entrants
    <2>4. \A n \in Entrants : cfg.checkTimeline => node[n].tl >= history
      BY DEF Entrants, Unfit, RaceTypeOK, RaceNodes
    <2>5. ASSUME NEW n \in Entrants,
                 IF failover.leader = n THEN ~IsFailoverPossible(n, 0, c # None, FALSE, Members)
                 ELSE HealthiestAmong(n, {m \in members \ {failover.leader} : SyncModeIsActive => SyncMatches(m, FALSE)},
                                      FALSE, None, Members)
          PROVE  IsHealthiestNode(n, None, Members)
      <3>1. /\ n \in Members /\ node[n].pg = "replica" /\ n \notin cfg.nofailover
            /\ SyncModeIsActive => SyncMatches(n, TRUE)
        BY DEF Entrants
      <3>2. ManualFailoverNoLeader(n, Members)
        BY <2>1, <2>2, <2>5, <3>1 DEF ManualFailoverNoLeader
      <3>3. QED BY <2>1, <3>1, <3>2 DEF IsHealthiestNode
    <2>6. CASE Entrants \ {failover.leader} # {}
      <3> DEFINE E == Entrants \ {failover.leader}
                 others == {m \in members \ {failover.leader} : SyncModeIsActive => SyncMatches(m, FALSE)}
      <3>1. others \in SUBSET Members
        BY DEF RaceSettled
      <3>2. \A m \in others : node[m].pg = "replica" /\ m \notin cfg.nofailover \cup cfg.watchdogFailed => m \in E
        BY <3>1 DEF Entrants, SyncMatches
      <3>3. \E n \in E : HealthiestAmong(n, others, FALSE, None, Members)
        <4>1. E \in SUBSET Members /\ E # {} /\ \A n \in E : cfg.checkTimeline => node[n].tl >= history
          BY <2>3, <2>4, <2>6
        <4> HIDE DEF E, others
        <4>2. QED BY <1>1, <2>1, <3>1, <3>2, <4>1, BestIsHealthiest
      <3>4. QED BY <2>3, <2>5, <3>3
    <2>7. CASE Entrants \ {failover.leader} = {}
      <3>1. failover.leader \in Entrants /\ failover.leader \in Members /\ failover.leader # None
        BY <1>1, <2>3, <2>7
      <3>2. ASSUME NEW m \in FailoverCandidates(failover.leader, c # None, FALSE), ~FailoverLimitation(m, Members)
            PROVE  FALSE
        <4>1. m \in Members /\ m # failover.leader /\ (SyncModeIsActive => SyncMatches(m, TRUE))
          BY <3>1 DEF FailoverCandidates, SyncMatches, RaceSettled
        <4>2. m \in Entrants
          BY <2>1, <3>2, <4>1 DEF FailoverLimitation, Reachable, Entrants
        <4>3. QED BY <2>7, <4>1, <4>2
      <3>3. ~IsFailoverPossible(failover.leader, 0, c # None, FALSE, Members)
        BY <3>2 DEF IsFailoverPossible
      <3>4. QED BY <2>5, <3>1, <3>3
    <2>8. QED BY <2>6, <2>7
  <1>4. QED BY <1>2, <1>3

(* SomeoneWins: is_healthiest_node() of some node says yes whenever the     *)
(* race stands still, so that no rule of the race, nor two of them          *)
(* together, make every node wait for another one.                          *)
THEOREM SomebodyWins == RaceSpec => []SomeoneWins
  <1>1. RaceInit => RaceInv
    BY RaceInvInit
  <1>2. RaceInv /\ [RaceNext]_raceVars => RaceInv'
    BY RaceStep
  <1>3. RaceInit => RaceSettled
    BY DEF RaceInit, RaceSettled
  <1>4. RaceSettled /\ [RaceNext]_raceVars => RaceSettled'
    BY DEF RaceSettled, RaceNext, raceVars, keys, FollowLeader, Race, AcquireLock, Promote, ReleaseKey, BackoffEnds,
           LeaderCycle, PausedNotPrimary, CrashNode, MemberExpires, StartReplica, WriteWal, SetSync, StreamWal, Request,
           DeleteSwitchover, TimePasses, KeyExpires
  <1>5. RaceInv /\ RaceSettled => SomeoneWins
    BY AutomaticFailover, RequestedFailover DEF RaceInv, SomeoneWins
  <1>6. QED BY <1>1, <1>2, <1>3, <1>4, <1>5, PTL DEF RaceSpec
=============================================================================
