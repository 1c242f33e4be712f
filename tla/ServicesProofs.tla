--------------------------- MODULE ServicesProofs ---------------------------
(* Proofs about the services beside the leader key: who may be the primary  *)
(* in failsafe mode and with synchronous standbys, what the health checks   *)
(* of the REST API answer, what becomes of a change of the dynamic          *)
(* configuration, what replication slots retain, and what clients see of a  *)
(* switchover of Citus workers.  For any set of nodes, any number of faults *)
(* and any length of a behaviour.                                           *)
EXTENDS MCServices, FiniteSetTheorems, SequenceTheorems, WellFoundedInduction, TLAPS

-----------------------------------------------------------------------------
(* Failsafe mode.                                                           *)

FsNodes == [role : {"primary", "replica", "dead"}, known : SUBSET Nodes, left : 0..Ttl, name : Nodes \cup {""},
            step : {"idle", "asking", "race", "healthiest", "promote", "dead"}, since : 0..Cycle,
            asked : SUBSET Nodes, refused : BOOLEAN]
FsKeys == [holder : Nodes \cup {None}, left : 0..Ttl, failsafe : SUBSET Nodes, members : SUBSET Nodes]

FsTypeOK == fnode \in [Nodes -> FsNodes] /\ fkey \in FsKeys

IsPrimary(n) == fnode[n].role = "primary"

(* The steps of a cycle belong to a role.                                   *)
FsRoles ==
  \A n \in Nodes : /\ fnode[n].step = "asking" => IsPrimary(n)
                   /\ fnode[n].step \in {"race", "healthiest", "promote"} => fnode[n].role = "replica"

(* A primary holds the key, or every member of the /failsafe key takes it   *)
(* for the leader: until the end of its present cycle at least.             *)
FsBacked ==
  \A n \in Nodes : IsPrimary(n) =>
    /\ fnode[n].known = fkey.failsafe
    /\ \/ fkey.holder = n /\ fkey.left + fnode[n].since >= Ttl
       \/ /\ n \in fnode[n].known
          /\ \A m \in fnode[n].known \ {n} : fnode[m].left + fnode[n].since >= Ttl /\ fnode[m].name = n

(* Who was asked and accepted, accepted in this very tick.                  *)
FsAsked ==
  \A n \in Nodes : fnode[n].step = "asking" /\ ~fnode[n].refused =>
    /\ n \in fnode[n].known
    /\ \A m \in fnode[n].asked \ {n} : fnode[m].left = Ttl /\ fnode[m].name = n

(* A race began when there was neither a key nor a primary.  If there is a  *)
(* key now, the race ends before the key does.                              *)
FsRaces ==
  \A n \in Nodes : fnode[n].step \in {"race", "healthiest"} =>
    \/ /\ fkey.holder = None /\ fnode[n].known = fkey.failsafe
       /\ \A m \in Nodes : ~IsPrimary(m)
    \/ fkey.holder # None /\ fkey.left + fnode[n].since > Cycle

(* Whoever is about to promote holds the key, and nobody is a primary.      *)
FsPromotes ==
  \A n \in Nodes : fnode[n].step = "promote" =>
    /\ fkey.holder = n /\ fkey.left + fnode[n].since >= Ttl /\ fnode[n].known = fkey.failsafe
    /\ \A m \in Nodes : ~IsPrimary(m)

FsSingle == \A m, n \in Nodes : IsPrimary(m) /\ IsPrimary(n) => m = n

FsInv == FsTypeOK /\ FsRoles /\ FsBacked /\ FsAsked /\ FsRaces /\ FsPromotes /\ FsSingle

FsTimes == Ttl \in Nat /\ Cycle \in Nat /\ Cycle < Ttl
FsNames == None \notin Nodes /\ "" \notin Nodes

(* The ends of the ranges the timers move in.                               *)
LEMMA FsRange ==
  ASSUME FsTimes
  PROVE  0 \in 0..Ttl /\ Ttl \in 0..Ttl /\ 0 \in 0..Cycle
  BY DEF FsTimes

(* The fields of a typed state of failsafe mode.                            *)
LEMMA FsFacts ==
  ASSUME FsTypeOK
  PROVE  /\ \A n \in Nodes : /\ fnode[n] \in FsNodes /\ fnode[n].role \in {"primary", "replica", "dead"}
                             /\ fnode[n].known \in SUBSET Nodes /\ fnode[n].left \in 0..Ttl
                             /\ fnode[n].name \in Nodes \cup {""} /\ fnode[n].since \in 0..Cycle
                             /\ fnode[n].asked \in SUBSET Nodes /\ fnode[n].refused \in BOOLEAN
                             /\ fnode[n].step \in {"idle", "asking", "race", "healthiest", "promote", "dead"}
         /\ fkey.holder \in Nodes \cup {None} /\ fkey.left \in 0..Ttl /\ fkey.failsafe \in SUBSET Nodes
         /\ fkey.members \in SUBSET Nodes
  BY DEF FsTypeOK, FsNodes, FsKeys

(* One node's record changes.                                               *)
LEMMA FsOne ==
  ASSUME FsTypeOK, NEW n \in Nodes, NEW d \in FsNodes, fnode' = [fnode EXCEPT ![n] = d], fkey' \in FsKeys
  PROVE  FsTypeOK' /\ fnode'[n] = d /\ \A m \in Nodes : m # n => fnode'[m] = fnode[m]
  BY DEF FsTypeOK

(* A node that does not become a primary and keeps what others were told.   *)
FsQuiet(n, d) ==
  /\ d \in FsNodes
  /\ d.role = "primary" => IsPrimary(n) /\ d.known = fnode[n].known /\ d.since = fnode[n].since
  /\ d.left = fnode[n].left /\ d.name = fnode[n].name

(* A step of one node that neither becomes primary nor touches the lock:    *)
(* the invariant asks only for what the node knows after it.                *)
LEMMA FsQuietStep ==
  ASSUME FsTimes, FsNames, FsInv, NEW n \in Nodes, NEW d, FsQuiet(n, d), fnode' = [fnode EXCEPT ![n] = d],
         fkey' \in FsKeys, fkey'.holder = fkey.holder, fkey'.left = fkey.left, fkey'.failsafe = fkey.failsafe,
         d.step = "asking" => d.role = "primary" /\
           (~d.refused => n \in d.known /\ \A m \in d.asked \ {n} : fnode[m].left = Ttl /\ fnode[m].name = n),
         d.step \in {"race", "healthiest"} =>
           /\ d.role = "replica"
           /\ \/ fkey.holder = None /\ d.known = fkey.failsafe /\ \A m \in Nodes : ~IsPrimary(m)
              \/ fkey.holder # None /\ fkey.left + d.since > Cycle,
         d.step # "promote"
  PROVE  FsInv'
  <1>1. FsTypeOK' /\ fnode'[n] = d /\ \A m \in Nodes : m # n => fnode'[m] = fnode[m]
    BY FsOne DEF FsInv, FsQuiet
  <1>2. /\ \A m \in Nodes : IsPrimary(m)' => IsPrimary(m)
        /\ \A m \in Nodes : IsPrimary(m)' => fnode'[m].known = fnode[m].known /\ fnode'[m].since = fnode[m].since
        /\ \A m \in Nodes : fnode'[m].left = fnode[m].left /\ fnode'[m].name = fnode[m].name
    BY <1>1 DEF FsQuiet, IsPrimary
  <1>3. \A m \in Nodes : fnode[m].known \in SUBSET Nodes /\ fnode[m].asked \in SUBSET Nodes
    BY FsFacts DEF FsInv
  <1>4. FsRoles'
    BY <1>1 DEF FsInv, FsRoles, IsPrimary
  <1>5. FsBacked'
    <2>1. ASSUME NEW p \in Nodes, IsPrimary(p)'
          PROVE  /\ fnode'[p].known = fkey'.failsafe
                 /\ \/ fkey'.holder = p /\ fkey'.left + fnode'[p].since >= Ttl
                    \/ /\ p \in fnode'[p].known
                       /\ \A m \in fnode'[p].known \ {p} : fnode'[m].left + fnode'[p].since >= Ttl /\ fnode'[m].name = p
      <3>1. IsPrimary(p) /\ fnode'[p].known = fnode[p].known /\ fnode'[p].since = fnode[p].since
        BY <1>2, <2>1
      <3>2. /\ fnode[p].known = fkey.failsafe
            /\ \/ fkey.holder = p /\ fkey.left + fnode[p].since >= Ttl
               \/ /\ p \in fnode[p].known
                  /\ \A m \in fnode[p].known \ {p} : fnode[m].left + fnode[p].since >= Ttl /\ fnode[m].name = p
        BY <3>1 DEF FsInv, FsBacked
      <3>3. QED BY <1>2, <1>3, <3>1, <3>2
    <2>2. QED BY <2>1 DEF FsBacked
  <1>6. FsAsked'
    <2>1. ASSUME NEW p \in Nodes, fnode'[p].step = "asking", ~fnode'[p].refused
          PROVE  p \in fnode'[p].known /\ \A m \in fnode'[p].asked \ {p} : fnode'[m].left = Ttl /\ fnode'[m].name = p
      <3>1. CASE p = n
        <4>1. d.asked \in SUBSET Nodes
          BY DEF FsQuiet, FsNodes
        <4>2. QED BY <1>1, <1>2, <2>1, <3>1, <4>1
      <3>2. CASE p # n
        BY <1>1, <1>2, <1>3, <2>1, <3>2 DEF FsInv, FsAsked
      <3>3. QED BY <3>1, <3>2
    <2>2. QED BY <2>1 DEF FsAsked
  <1>7. FsRaces'
    BY <1>1, <1>2 DEF FsInv, FsRaces
  <1>8. FsPromotes'
    BY <1>1, <1>2 DEF FsInv, FsPromotes
  <1>9. FsSingle'
    BY <1>2 DEF FsInv, FsSingle
  <1>10. QED BY <1>1, <1>4, <1>5, <1>6, <1>7, <1>8, <1>9 DEF FsInv

(* While a node prepares to promote, or races for a free key, there is no   *)
(* primary; while there is one, all the others it counts on are locked.     *)
LEMMA FsLocked ==
  ASSUME FsTimes, FsNames, FsInv, NEW p \in Nodes, IsPrimary(p)
  PROVE  /\ \A n \in Nodes : fnode[n].step # "promote"
         /\ \A n \in Nodes : fnode[n].step \in {"race", "healthiest"} =>
                               fkey.holder # None /\ fkey.left + fnode[n].since > Cycle
         /\ \A n \in Nodes : n # p => ~IsPrimary(n)
         /\ \A n \in Nodes : fnode[n].role = "replica" => ~(FS!Unlocked(n) /\ FS!MayRace(n))
  <1>1. \A n \in Nodes : fnode[n].step # "promote"
    BY DEF FsInv, FsPromotes
  <1>2. \A n \in Nodes : fnode[n].step \in {"race", "healthiest"} =>
                           fkey.holder # None /\ fkey.left + fnode[n].since > Cycle
    BY DEF FsInv, FsRaces
  <1>3. \A n \in Nodes : n # p => ~IsPrimary(n)
    BY DEF FsInv, FsSingle
  <1>4. ASSUME NEW n \in Nodes, fnode[n].role = "replica", FS!Unlocked(n), FS!MayRace(n)
        PROVE  FALSE
    <2>1. fkey.holder = None /\ (fnode[n].left = 0 \/ fnode[n].name = "") /\ n # p
      BY <1>4 DEF FS!Unlocked, IsPrimary
    <2>2. /\ fnode[p].known = fkey.failsafe /\ p \in fnode[p].known
          /\ \A m \in fnode[p].known \ {p} : fnode[m].left + fnode[p].since >= Ttl /\ fnode[m].name = p
      BY <2>1 DEF FsInv, FsBacked, FsNames
    <2>3. n \in fnode[p].known
      BY <1>4, <2>2 DEF FS!MayRace
    <2>4. fnode[p].since \in 0..Cycle /\ fnode[n].left + fnode[p].since >= Ttl /\ fnode[n].name = p
      BY <2>1, <2>2, <2>3, FsFacts DEF FsInv
    <2>5. fnode[n].name # ""
      BY <2>4 DEF FsNames
    <2>6. fnode[n].left = 0 => fnode[p].since >= Ttl
      BY <2>4
    <2>7. fnode[p].since \in 0..Cycle /\ ~(fnode[p].since >= Ttl)
      BY <2>4 DEF FsTimes
    <2>8. QED BY <2>1, <2>5, <2>6, <2>7
  <1>5. QED BY <1>1, <1>2, <1>3, <1>4

(* update_lock(): the holder renews the leader key and publishes failsafe.  *)
LEMMA FsUpdateLock ==
  ASSUME FsTimes, FsNames, FsInv, NEW n \in Nodes, FS!UpdateLock(n)
  PROVE  FsInv'
  <1>0. FsTypeOK /\ IsPrimary(n) /\ fnode[n].step = "idle" /\ 0 \in 0..Cycle /\ 0 \in 0..Ttl
    BY FsRange DEF FS!UpdateLock, FsInv, IsPrimary
  <1>1. CASE fkey.holder \in {n, None}
    <2> DEFINE config == fkey.members \cup {n}
               d == [fnode[n] EXCEPT !.known = config, !.left = 0, !.name = "", !.since = 0]
    <2>1. fkey' = [fkey EXCEPT !.holder = n, !.left = Ttl, !.failsafe = config, !.members = config]
      BY <1>1 DEF FS!UpdateLock, FS!FailsafeConfig
    <2>2. fnode' = [fnode EXCEPT ![n] = d]
      BY <1>0, <1>1 DEF FS!UpdateLock, FS!FailsafeConfig, FsTypeOK, FsNodes
    <2>3. config \in SUBSET Nodes /\ fkey \in FsKeys /\ fnode[n] \in FsNodes /\ Ttl \in 0..Ttl
      BY <1>0, FsFacts, FsRange DEF FsTypeOK
    <2> HIDE DEF config
    <2>4. /\ fkey' \in FsKeys /\ fkey'.holder = n /\ fkey'.left = Ttl /\ fkey'.failsafe = config
      BY <2>1, <2>3 DEF FsKeys
    <2>5. /\ d \in FsNodes /\ d.known = config /\ d.since = 0 /\ d.role = fnode[n].role
          /\ d.step = fnode[n].step
      BY <1>0, <2>3 DEF FsNodes
    <2> HIDE DEF d
    <2>6. FsTypeOK' /\ fnode'[n] = d /\ \A m \in Nodes : m # n => fnode'[m] = fnode[m]
      BY <1>0, <2>2, <2>4, <2>5, FsOne
    <2>7. \A m \in Nodes : m # n => ~IsPrimary(m)' /\ fnode[m].step # "promote" /\ fnode[m].step # "asking"
      BY <1>0, <2>6, FsLocked DEF IsPrimary, FsInv, FsRoles
    <2>8. \A m \in Nodes : fnode[m].since \in 0..Cycle
      BY <1>0, FsFacts
    <2>9. FsRoles' /\ FsAsked' /\ FsPromotes' /\ FsSingle'
      BY <1>0, <2>5, <2>6, <2>7 DEF FsInv, FsRoles, FsAsked, FsPromotes, FsSingle, IsPrimary
    <2>10. FsBacked'
      <3>1. fkey'.left + fnode'[n].since >= Ttl
        BY <2>4, <2>5, <2>6 DEF FsTimes
      <3>2. QED BY <2>4, <2>5, <2>6, <2>7, <3>1 DEF FsBacked
    <2>11. FsRaces'
      <3>1. ASSUME NEW m \in Nodes, fnode'[m].step \in {"race", "healthiest"}
            PROVE  fkey'.holder # None /\ fkey'.left + fnode'[m].since > Cycle
        <4>1. m # n
          BY <1>0, <2>5, <2>6, <3>1
        <4>2. fkey'.left + fnode'[m].since > Cycle
          BY <2>4, <2>6, <2>8, <4>1 DEF FsTimes
        <4>3. QED BY <2>4, <4>2 DEF FsNames
      <3>2. QED BY <3>1 DEF FsRaces
    <2>12. QED BY <2>6, <2>9, <2>10, <2>11 DEF FsInv
  <1>2. CASE fkey.holder \notin {n, None}
    <2> DEFINE d == [fnode[n] EXCEPT !.role = "replica", !.known = fkey.failsafe]
    <2>1. fnode' = [fnode EXCEPT ![n] = d] /\ fkey' = fkey
      BY <1>0, <1>2 DEF FS!UpdateLock, FsTypeOK, FsNodes
    <2>2. fnode[n] \in FsNodes /\ fkey.failsafe \in SUBSET Nodes /\ fkey' \in FsKeys
      BY <1>0, <2>1, FsFacts DEF FsTypeOK
    <2>3. FsQuiet(n, d) /\ d.step = "idle"
      BY <1>0, <2>2 DEF FsQuiet, FsNodes
    <2> HIDE DEF d
    <2>4. QED BY <2>1, <2>2, <2>3, FsQuietStep
  <1>3. QED BY <1>1, <1>2

(* _handle_dcs_error(): a primary without the DCS begins to ask the         *)
(* members.                                                                 *)
LEMMA FsHandleDcsError ==
  ASSUME FsTimes, FsNames, FsInv, NEW n \in Nodes, FS!HandleDcsError(n)
  PROVE  FsInv'
  <1> DEFINE d == [fnode[n] EXCEPT !.step = "asking", !.asked = {n}, !.refused = n \notin fnode[n].known]
  <1>1. FsTypeOK /\ IsPrimary(n) /\ fkey' = fkey /\ fnode[n] \in FsNodes /\ fkey' \in FsKeys
    BY DEF FS!HandleDcsError, FsInv, IsPrimary, FsTypeOK
  <1>2. fnode' = [fnode EXCEPT ![n] = d]
    BY <1>1 DEF FS!HandleDcsError, FsTypeOK, FsNodes
  <1>3. /\ FsQuiet(n, d) /\ d.step = "asking" /\ d.role = "primary" /\ d.asked = {n}
        /\ d.known = fnode[n].known
    BY <1>1 DEF FsQuiet, FsNodes, IsPrimary
  <1>4. ~d.refused => n \in d.known
    BY <1>1 DEF FsNodes
  <1> HIDE DEF d
  <1>5. QED BY <1>1, <1>2, <1>3, <1>4, FsQuietStep

(* load_cluster_from_dcs() of a replica, which goes on to the race if the   *)
(* cluster is unlocked for it.                                              *)
LEMMA FsLoadCluster ==
  ASSUME FsTimes, FsNames, FsInv, NEW n \in Nodes, FS!LoadCluster(n)
  PROVE  FsInv'
  <1> DEFINE races == FS!Unlocked(n) /\ FS!MayRace(n)
             step == IF races THEN "race" ELSE "idle"
             d == [fnode[n] EXCEPT !.known = fkey.failsafe, !.since = 0, !.step = step]
  <1>1. /\ FsTypeOK /\ fnode[n].role = "replica" /\ fnode[n] \in FsNodes /\ fkey \in FsKeys
        /\ fkey' = [fkey EXCEPT !.members = @ \cup {n}] /\ fkey.failsafe \in SUBSET Nodes /\ 0 \in 0..Cycle
    BY FsFacts, FsRange DEF FS!LoadCluster, FsInv, FsTypeOK
  <1>2. fnode' = [fnode EXCEPT ![n] = d]
    BY <1>1 DEF FS!LoadCluster, FsTypeOK, FsNodes
  <1>3. fkey' \in FsKeys /\ fkey'.holder = fkey.holder /\ fkey'.left = fkey.left /\ fkey'.failsafe = fkey.failsafe
    BY <1>1 DEF FsKeys
  <1>4. step \in {"idle", "race"} /\ (step = "race" => races)
    OBVIOUS
  <1>5. races => fkey.holder = None /\ \A m \in Nodes : ~IsPrimary(m)
    BY <1>1, FsLocked DEF FS!Unlocked
  <1> HIDE DEF step, races
  <1>6. FsQuiet(n, d) /\ d.step = step /\ d.role = "replica" /\ d.known = fkey.failsafe
    BY <1>1, <1>4 DEF FsQuiet, FsNodes
  <1> HIDE DEF d
  <1>7. QED BY <1>2, <1>3, <1>4, <1>5, <1>6, FsQuietStep

(* is_healthiest_node(): a primary that answers ends the race.              *)
LEMMA FsRace ==
  ASSUME FsTimes, FsNames, FsInv, NEW n \in Nodes, FS!Race(n)
  PROVE  FsInv'
  <1> DEFINE step == IF FS!IsHealthiestNode(n) THEN "healthiest" ELSE "idle"
             d == [fnode[n] EXCEPT !.step = step]
  <1>1. /\ FsTypeOK /\ fnode[n].step = "race" /\ fnode[n].role = "replica" /\ fnode[n] \in FsNodes
        /\ fkey' = fkey /\ fkey' \in FsKeys
    BY DEF FS!Race, FsInv, FsTypeOK, FsRoles
  <1>2. fnode' = [fnode EXCEPT ![n] = d]
    BY DEF FS!Race
  <1>3. step \in {"idle", "healthiest"}
    OBVIOUS
  <1> HIDE DEF step
  <1>4. /\ FsQuiet(n, d) /\ d.step = step /\ d.role = "replica" /\ d.known = fnode[n].known
        /\ d.since = fnode[n].since
    BY <1>1, <1>3 DEF FsQuiet, FsNodes
  <1>5. \/ fkey.holder = None /\ fnode[n].known = fkey.failsafe /\ \A m \in Nodes : ~IsPrimary(m)
        \/ fkey.holder # None /\ fkey.left + fnode[n].since > Cycle
    BY <1>1 DEF FsInv, FsRaces
  <1> HIDE DEF d
  <1>6. QED BY <1>1, <1>2, <1>3, <1>4, <1>5, FsQuietStep

(* acquire_lock(): the node takes a key that is still free.                 *)
LEMMA FsAcquireLock ==
  ASSUME FsTimes, FsNames, FsInv, NEW n \in Nodes, FS!AcquireLock(n)
  PROVE  FsInv'
  <1>1. /\ FsTypeOK /\ fnode[n].step = "healthiest" /\ fnode[n].role = "replica" /\ fnode[n] \in FsNodes
        /\ fkey \in FsKeys /\ 0 \in 0..Cycle /\ Ttl \in 0..Ttl
    BY FsRange DEF FS!AcquireLock, FsInv, FsTypeOK, FsRoles
  <1>2. CASE FS!OnDcs(n) /\ fkey.holder = None
    <2> DEFINE d == [fnode[n] EXCEPT !.step = "promote", !.since = 0]
    <2>1. fkey' = [fkey EXCEPT !.holder = n, !.left = Ttl] /\ fnode' = [fnode EXCEPT ![n] = d]
      BY <1>1, <1>2 DEF FS!AcquireLock, FsTypeOK, FsNodes
    <2>2. fkey' \in FsKeys /\ fkey'.holder = n /\ fkey'.left = Ttl /\ fkey'.failsafe = fkey.failsafe
      BY <1>1, <2>1 DEF FsKeys
    <2>3. d \in FsNodes /\ d.step = "promote" /\ d.since = 0 /\ d.role = "replica" /\ d.known = fnode[n].known
      BY <1>1 DEF FsNodes
    <2> HIDE DEF d
    <2>4. FsTypeOK' /\ fnode'[n] = d /\ \A m \in Nodes : m # n => fnode'[m] = fnode[m]
      BY <1>1, <2>1, <2>2, <2>3, FsOne
    <2>5. fnode[n].known = fkey.failsafe /\ \A m \in Nodes : ~IsPrimary(m)
      BY <1>1, <1>2 DEF FsInv, FsRaces
    <2>6. \A m \in Nodes : ~IsPrimary(m)' /\ fnode'[m].step # "asking" /\ fnode[m].step # "promote"
      BY <1>2, <2>3, <2>4, <2>5 DEF IsPrimary, FsInv, FsRoles, FsPromotes, FsNames
    <2>7. FsRoles' /\ FsBacked' /\ FsAsked' /\ FsSingle'
      BY <2>3, <2>4, <2>6 DEF FsInv, FsRoles, FsBacked, FsAsked, FsSingle
    <2>8. FsPromotes'
      <3>1. Ttl + 0 >= Ttl
        BY DEF FsTimes
      <3>2. QED BY <2>2, <2>3, <2>4, <2>5, <2>6, <3>1 DEF FsPromotes
    <2>9. FsRaces'
      <3>1. ASSUME NEW m \in Nodes, fnode'[m].step \in {"race", "healthiest"}
            PROVE  fkey'.holder # None /\ fkey'.left + fnode'[m].since > Cycle
        <4>1. m # n /\ fnode[m].since \in 0..Cycle
          BY <1>1, <2>3, <2>4, <3>1, FsFacts
        <4>2. fkey'.left + fnode'[m].since > Cycle
          BY <2>2, <2>4, <4>1 DEF FsTimes
        <4>3. QED BY <2>2, <4>2 DEF FsNames
      <3>2. QED BY <3>1 DEF FsRaces
    <2>10. QED BY <2>4, <2>7, <2>8, <2>9 DEF FsInv
  <1>3. CASE ~(FS!OnDcs(n) /\ fkey.holder = None)
    <2> DEFINE d == [fnode[n] EXCEPT !.step = "idle"]
    <2>1. fnode' = [fnode EXCEPT ![n] = d] /\ fkey' = fkey
      BY <1>3 DEF FS!AcquireLock
    <2>2. FsQuiet(n, d) /\ d.step = "idle"
      BY <1>1 DEF FsQuiet, FsNodes
    <2> HIDE DEF d
    <2>3. QED BY <1>1, <2>1, <2>2, FsQuietStep
  <1>4. QED BY <1>2, <1>3

(* enforce_primary_role() of the node that took the key.                    *)
LEMMA FsPromote ==
  ASSUME FsTimes, FsNames, FsInv, NEW n \in Nodes, FS!Promote(n)
  PROVE  FsInv'
  <1> DEFINE d == [fnode[n] EXCEPT !.step = "idle", !.role = "primary", !.left = 0, !.name = ""]
  <1>1. /\ FsTypeOK /\ fnode[n].step = "promote" /\ fnode[n] \in FsNodes /\ fkey' = fkey /\ fkey' \in FsKeys
        /\ 0 \in 0..Ttl
    BY FsRange DEF FS!Promote, FsInv, FsTypeOK
  <1>2. fnode' = [fnode EXCEPT ![n] = d]
    BY <1>1 DEF FS!Promote, FsTypeOK, FsNodes
  <1>3. /\ d \in FsNodes /\ d.step = "idle" /\ d.role = "primary" /\ d.known = fnode[n].known
        /\ d.since = fnode[n].since
    BY <1>1 DEF FsNodes
  <1> HIDE DEF d
  <1>4. FsTypeOK' /\ fnode'[n] = d /\ \A m \in Nodes : m # n => fnode'[m] = fnode[m]
    BY <1>1, <1>2, <1>3, FsOne
  <1>5. /\ fkey.holder = n /\ fkey.left + fnode[n].since >= Ttl /\ fnode[n].known = fkey.failsafe
        /\ \A m \in Nodes : ~IsPrimary(m)
    BY <1>1 DEF FsInv, FsPromotes
  <1>6. \A m \in Nodes : m # n => ~IsPrimary(m)' /\ fnode'[m].step \notin {"asking", "promote"}
    BY <1>4, <1>5 DEF IsPrimary, FsInv, FsRoles, FsPromotes
  <1>7. FsRoles' /\ FsAsked' /\ FsSingle' /\ FsPromotes'
    BY <1>3, <1>4, <1>6 DEF FsInv, FsRoles, FsAsked, FsSingle, FsPromotes, IsPrimary
  <1>8. FsBacked'
    BY <1>1, <1>3, <1>4, <1>5, <1>6 DEF FsBacked
  <1>9. FsRaces'
    <2>1. n # None
      BY DEF FsNames
    <2>2. QED BY <1>1, <1>3, <1>4, <1>5, <2>1 DEF FsInv, FsRaces
  <1>10. QED BY <1>4, <1>7, <1>8, <1>9 DEF FsInv

(* A member is asked: it takes the caller for the leader, or refuses.       *)
LEMMA FsCall ==
  ASSUME FsTimes, FsNames, FsInv, NEW n \in Nodes, NEW m \in Nodes, FS!CallFailsafeMember(n, m)
  PROVE  FsInv'
  <1>1. /\ FsTypeOK /\ fnode[n].step = "asking" /\ m \in fnode[n].known \ fnode[n].asked /\ fkey' = fkey
        /\ IsPrimary(n) /\ fnode[n] \in FsNodes /\ fnode[m] \in FsNodes /\ fkey' \in FsKeys
    BY DEF FS!CallFailsafeMember, FsInv, FsTypeOK, FsRoles
  <1>2. CASE FS!Reaches(n, m) /\ fnode[m].role # "primary"
    <2> DEFINE asked == fnode[n].asked \cup {m}
               d == [fnode[n] EXCEPT !.asked = asked]
               e == [fnode[m] EXCEPT !.left = Ttl, !.name = n]
    <2>1. m # n
      BY <1>1, <1>2 DEF IsPrimary
    <2>2. fnode' = [[fnode EXCEPT ![n] = d] EXCEPT ![m] = e]
      BY <1>1, <1>2, <2>1 DEF FS!CallFailsafeMember, FS!UpdateFailsafe, FsTypeOK, FsNodes
    <2>3. asked \in SUBSET Nodes /\ Ttl \in 0..Ttl /\ n \in Nodes \cup {""}
      BY <1>1, FsFacts, FsRange
    <2>4. /\ d \in FsNodes /\ d.asked = asked /\ d.role = fnode[n].role /\ d.step = fnode[n].step
          /\ d.known = fnode[n].known /\ d.since = fnode[n].since /\ d.refused = fnode[n].refused
      BY <1>1, <2>3 DEF FsNodes
    <2>5. /\ e \in FsNodes /\ e.left = Ttl /\ e.name = n /\ e.role = fnode[m].role /\ e.step = fnode[m].step
          /\ e.known = fnode[m].known /\ e.since = fnode[m].since /\ e.refused = fnode[m].refused
      BY <1>1, <2>3 DEF FsNodes
    <2> HIDE DEF d, e
    <2>6. /\ fnode' \in [Nodes -> FsNodes] /\ fnode'[n] = d /\ fnode'[m] = e
          /\ \A q \in Nodes : q # n /\ q # m => fnode'[q] = fnode[q]
      BY <1>1, <2>1, <2>2, <2>4, <2>5 DEF FsTypeOK
    <2>7. \A q \in Nodes : /\ fnode'[q].role = fnode[q].role /\ fnode'[q].step = fnode[q].step
                           /\ fnode'[q].known = fnode[q].known /\ fnode'[q].since = fnode[q].since
                           /\ fnode'[q].refused = fnode[q].refused
      BY <2>4, <2>5, <2>6
    <2>8. \A q \in Nodes : q # n => ~IsPrimary(q) /\ fnode[q].step # "asking"
      BY <1>1, FsLocked DEF FsInv, FsRoles
    <2>9. FsTypeOK' /\ FsRoles' /\ FsRaces' /\ FsPromotes' /\ FsSingle'
      BY <1>1, <2>6, <2>7 DEF FsInv, FsTypeOK, FsRoles, FsRaces, FsPromotes, FsSingle, IsPrimary
    <2>10. \A q \in Nodes : q # m /\ q # n => fnode'[q].left = fnode[q].left /\ fnode'[q].name = fnode[q].name
      BY <2>6
    <2>11. fnode[n].known \in SUBSET Nodes /\ fnode[n].asked \in SUBSET Nodes /\ fnode[n].since \in 0..Cycle
      BY <1>1, FsFacts
    <2>12. FsBacked'
      <3>1. \A q \in Nodes : IsPrimary(q)' => q = n
        BY <2>7, <2>8 DEF IsPrimary
      <3>2. Ttl + fnode[n].since >= Ttl
        BY <2>11 DEF FsTimes
      <3>3. /\ fnode[n].known = fkey.failsafe
            /\ \/ fkey.holder = n /\ fkey.left + fnode[n].since >= Ttl
               \/ /\ n \in fnode[n].known
                  /\ \A q \in fnode[n].known \ {n} : fnode[q].left + fnode[n].since >= Ttl /\ fnode[q].name = n
        BY <1>1 DEF FsInv, FsBacked
      <3>4. fnode'[n].known = fnode[n].known /\ fnode'[n].since = fnode[n].since
        BY <2>7
      <3>5. ASSUME NEW q \in fnode[n].known \ {n}, fnode[q].left + fnode[n].since >= Ttl /\ fnode[q].name = n
            PROVE  fnode'[q].left + fnode'[n].since >= Ttl /\ fnode'[q].name = n
        <4>1. CASE q = m
          BY <2>5, <2>6, <3>2, <3>4, <4>1
        <4>2. CASE q # m
          BY <2>10, <2>11, <3>4, <3>5, <4>2
        <4>3. QED BY <4>1, <4>2
      <3>6. /\ fnode'[n].known = fkey'.failsafe
            /\ \/ fkey'.holder = n /\ fkey'.left + fnode'[n].since >= Ttl
               \/ /\ n \in fnode'[n].known
                  /\ \A q \in fnode'[n].known \ {n} : fnode'[q].left + fnode'[n].since >= Ttl /\ fnode'[q].name = n
        BY <1>1, <3>3, <3>4, <3>5
      <3>7. QED BY <3>1, <3>6 DEF FsBacked
    <2>13. FsAsked'
      <3>1. \A q \in Nodes : fnode'[q].step = "asking" => q = n
        BY <2>7, <2>8
      <3>2. ~fnode[n].refused =>
              n \in fnode[n].known /\ \A q \in fnode[n].asked \ {n} : fnode[q].left = Ttl /\ fnode[q].name = n
        BY <1>1 DEF FsInv, FsAsked
      <3>3. ~fnode[n].refused => \A q \in asked \ {n} : fnode'[q].left = Ttl /\ fnode'[q].name = n
        BY <2>5, <2>6, <2>10, <2>11, <3>2
      <3>4. QED BY <2>4, <2>6, <2>7, <3>1, <3>2, <3>3 DEF FsAsked
    <2>14. QED BY <2>9, <2>12, <2>13 DEF FsInv
  <1>3. CASE ~(FS!Reaches(n, m) /\ fnode[m].role # "primary")
    <2> DEFINE asked == fnode[n].asked \cup {m}
               d == [fnode[n] EXCEPT !.asked = asked, !.refused = TRUE]
    <2>1. fnode' = [fnode EXCEPT ![n] = d]
      BY <1>1, <1>3 DEF FS!CallFailsafeMember, FsTypeOK, FsNodes
    <2>2. asked \in SUBSET Nodes
      BY <1>1, FsFacts
    <2>3. FsQuiet(n, d) /\ d.step = "asking" /\ d.role = "primary" /\ d.refused
      BY <1>1, <2>2 DEF FsQuiet, FsNodes, IsPrimary
    <2> HIDE DEF d
    <2>4. QED BY <1>1, <2>1, <2>3, FsQuietStep
  <1>4. QED BY <1>2, <1>3

(* A node that has just been started.                                       *)
LEMMA FsNew ==
  ASSUME FsTimes
  PROVE  /\ FS!NewNode \in FsNodes /\ FS!NewNode.role = "replica" /\ FS!NewNode.step = "idle"
         /\ FS!NewNode.since = 0 /\ FS!NewNode.refused = FALSE /\ FS!NewNode.left = 0
  BY FsRange DEF FS!NewNode, FsNodes

(* All were asked: either all of them take this node for the leader from    *)
(* now on, or it steps down.                                                *)
LEMMA FsCheckFailsafeTopology ==
  ASSUME FsTimes, FsNames, FsInv, NEW n \in Nodes, FS!CheckFailsafeTopology(n)
  PROVE  FsInv'
  <1>1. /\ FsTypeOK /\ fnode[n].step = "asking" /\ fnode[n].known \subseteq fnode[n].asked /\ fkey' = fkey
        /\ IsPrimary(n) /\ fnode[n] \in FsNodes /\ fkey' \in FsKeys /\ fnode[n].refused \in BOOLEAN
        /\ fnode[n].known \in SUBSET Nodes /\ Ttl \in 0..Ttl
    BY FsFacts, FsRange DEF FS!CheckFailsafeTopology, FsInv, FsTypeOK, FsRoles
  <1> DEFINE d == fnode'[n]
  <1>2. \A q \in Nodes : q # n => ~IsPrimary(q) /\ fnode[q].step \notin {"asking", "promote"}
    BY <1>1, FsLocked DEF FsInv, FsRoles
  <1>3. \A q \in Nodes : fnode[q].step \in {"race", "healthiest"} =>
                           fkey.holder # None /\ fkey.left + fnode[q].since > Cycle
    BY <1>1, FsLocked
  <1>4. /\ d \in FsNodes /\ d.step = "idle" /\ d.known = fnode[n].known /\ d.since = 0
        /\ d.role = IF fnode[n].refused THEN "replica" ELSE "primary"
        /\ fnode' = [fnode EXCEPT ![n] = d]
    <2> DEFINE no == [FS!NewNode EXCEPT !.known = fnode[n].known]
               yes == [FS!NewNode EXCEPT !.role = "primary", !.known = fnode[n].known, !.left = Ttl]
    <2>1. fnode' = [fnode EXCEPT ![n] = IF fnode[n].refused THEN no ELSE yes]
      BY DEF FS!CheckFailsafeTopology
    <2>2. no \in FsNodes /\ no.step = "idle" /\ no.known = fnode[n].known /\ no.since = 0 /\ no.role = "replica"
      BY <1>1, FsNew DEF FsNodes
    <2>3. yes \in FsNodes /\ yes.step = "idle" /\ yes.known = fnode[n].known /\ yes.since = 0 /\ yes.role = "primary"
      BY <1>1, FsNew DEF FsNodes
    <2> HIDE DEF no, yes
    <2>4. d = IF fnode[n].refused THEN no ELSE yes
      BY <1>1, <2>1 DEF FsTypeOK
    <2>5. QED BY <2>1, <2>2, <2>3, <2>4
  <1> HIDE DEF d
  <1>5. FsTypeOK' /\ fnode'[n] = d /\ \A q \in Nodes : q # n => fnode'[q] = fnode[q]
    BY <1>1, <1>4, FsOne
  <1>6. \A q \in Nodes : q # n => ~IsPrimary(q)'
    BY <1>2, <1>5 DEF IsPrimary
  <1>7. FsRoles' /\ FsAsked' /\ FsPromotes' /\ FsSingle'
    BY <1>2, <1>4, <1>5, <1>6 DEF FsInv, FsRoles, FsAsked, FsPromotes, FsSingle
  <1>8. FsRaces'
    BY <1>1, <1>3, <1>4, <1>5 DEF FsRaces
  <1>9. FsBacked'
    <2>1. ASSUME IsPrimary(n)'
          PROVE  /\ fnode'[n].known = fkey'.failsafe
                 /\ n \in fnode'[n].known
                 /\ \A q \in fnode'[n].known \ {n} : fnode'[q].left + fnode'[n].since >= Ttl /\ fnode'[q].name = n
      <3>1. ~fnode[n].refused
        BY <1>4, <1>5, <2>1 DEF IsPrimary
      <3>2. /\ n \in fnode[n].known /\ fnode[n].known = fkey.failsafe
            /\ \A q \in fnode[n].asked \ {n} : fnode[q].left = Ttl /\ fnode[q].name = n
        BY <1>1, <3>1 DEF FsInv, FsAsked, FsBacked
      <3>3. Ttl + 0 >= Ttl
        BY DEF FsTimes
      <3>4. QED BY <1>1, <1>4, <1>5, <3>2, <3>3
    <2>2. QED BY <1>6, <2>1 DEF FsBacked
  <1>10. QED BY <1>5, <1>7, <1>8, <1>9 DEF FsInv

(* The first leader dies.                                                   *)
LEMMA FsCrash ==
  ASSUME FsTimes, FsNames, First \in Nodes, FsInv, FS!Crash
  PROVE  FsInv'
  <1> DEFINE d == [FS!NewNode EXCEPT !.role = "dead", !.step = "dead"]
  <1>1. /\ FsTypeOK /\ IsPrimary(First) /\ fkey' = fkey /\ fkey' \in FsKeys
        /\ fnode' = [fnode EXCEPT ![First] = d]
    BY DEF FS!Crash, FsInv, FsTypeOK, IsPrimary
  <1>2. d \in FsNodes /\ d.role = "dead" /\ d.step = "dead"
    BY FsNew DEF FsNodes
  <1> HIDE DEF d
  <1>3. FsTypeOK' /\ fnode'[First] = d /\ \A m \in Nodes : m # First => fnode'[m] = fnode[m]
    BY <1>1, <1>2, FsOne
  <1>4. \A m \in Nodes : ~IsPrimary(m)' /\ fnode'[m].step \notin {"asking", "promote"}
    BY <1>1, <1>2, <1>3, FsLocked DEF IsPrimary, FsInv, FsRoles
  <1>5. FsRoles' /\ FsBacked' /\ FsAsked' /\ FsPromotes' /\ FsSingle'
    BY <1>2, <1>3, <1>4 DEF FsInv, FsRoles, FsBacked, FsAsked, FsPromotes, FsSingle
  <1>6. FsRaces'
    <2>1. \A q \in Nodes : fnode[q].step \in {"race", "healthiest"} =>
                             fkey.holder # None /\ fkey.left + fnode[q].since > Cycle
      BY <1>1, FsLocked
    <2>2. QED BY <1>1, <1>2, <1>3, <2>1 DEF FsRaces
  <1>7. QED BY <1>3, <1>5, <1>6 DEF FsInv

(* Time passes only when every cycle, race and call is within its time; so  *)
(* what a primary, or a node that races, counts on lasts until then.        *)
LEMMA FsTick ==
  ASSUME FsTimes, FsNames, FsInv, FS!Tick
  PROVE  FsInv'
  <1> DEFINE Down(t) == IF t = 0 THEN 0 ELSE t - 1
             since(n) == IF fnode[n].role # "primary" /\ fnode[n].step = "idle" THEN 0
                         ELSE IF fnode[n].since = Cycle THEN Cycle ELSE fnode[n].since + 1
  <1>1. FsTypeOK /\ fkey \in FsKeys
    BY DEF FsInv, FsTypeOK
  <1>2. \A n \in Nodes : \/ fnode[n].role = "dead" \/ (fnode[n].role = "replica" /\ fnode[n].step = "idle")
                         \/ fnode[n].since < Cycle /\ fnode[n].step # "asking"
    BY DEF FS!Tick, FS!InTime
  <1>3. \A t \in 0..Ttl : Down(t) \in 0..Ttl /\ (t > 0 => Down(t) = t - 1)
    BY DEF FsTimes
  <1>4. \A n \in Nodes : since(n) \in 0..Cycle
    <2>1. ASSUME NEW n \in Nodes PROVE since(n) \in 0..Cycle
      <3> DEFINE s == fnode[n].since
      <3>1. s \in 0..Cycle
        BY <1>1, FsFacts
      <3> HIDE DEF s
      <3>2. 0 \in 0..Cycle /\ Cycle \in 0..Cycle /\ (s # Cycle => s + 1 \in 0..Cycle)
        BY <3>1 DEF FsTimes
      <3>3. QED BY <3>2 DEF s
    <2>2. QED BY <2>1
  <1>5. ASSUME NEW n \in Nodes
        PROVE  /\ fnode'[n] \in FsNodes /\ fnode'[n].left = Down(fnode[n].left) /\ fnode'[n].since = since(n)
               /\ fnode'[n].role = fnode[n].role /\ fnode'[n].step = fnode[n].step
               /\ fnode'[n].known = fnode[n].known /\ fnode'[n].name = fnode[n].name
               /\ fnode'[n].asked = fnode[n].asked /\ fnode'[n].refused = fnode[n].refused
    <2> DEFINE d == fnode'[n]
    <2>1. d = [fnode[n] EXCEPT !.left = Down(fnode[n].left), !.since = since(n)]
      BY <1>1, FsFacts DEF FS!Tick, FsNodes
    <2>2. fnode[n] \in FsNodes /\ Down(fnode[n].left) \in 0..Ttl /\ since(n) \in 0..Cycle
      BY <1>1, <1>3, <1>4, FsFacts
    <2> HIDE DEF Down, since, d
    <2>3. /\ d \in FsNodes /\ d.left = Down(fnode[n].left) /\ d.since = since(n)
          /\ d.role = fnode[n].role /\ d.step = fnode[n].step
          /\ d.known = fnode[n].known /\ d.name = fnode[n].name
          /\ d.asked = fnode[n].asked /\ d.refused = fnode[n].refused
      BY <2>1, <2>2 DEF FsNodes
    <2>4. QED BY <2>3 DEF d
  <1>6. fnode' \in [Nodes -> FsNodes]
    <2>1. fnode' = [n \in Nodes |-> fnode'[n]]
      BY DEF FS!Tick
    <2>2. QED BY <1>5, <2>1
  <1>7. /\ fkey' \in FsKeys /\ fkey'.failsafe = fkey.failsafe
        /\ fkey.left > 1 => fkey'.left = fkey.left - 1 /\ fkey'.holder = fkey.holder
        /\ ~(fkey.left > 1) => fkey'.holder = None
    <2>1. CASE fkey.left > 1
      <3> DEFINE k == fkey.left - 1
      <3>1. fkey' = [fkey EXCEPT !.left = k]
        BY <2>1 DEF FS!Tick
      <3>2. k \in 0..Ttl
        <4> DEFINE l == fkey.left
        <4>1. l \in 0..Ttl
          BY <1>1 DEF FsKeys
        <4> HIDE DEF l
        <4>2. l > 1 => l - 1 \in 0..Ttl
          BY <4>1 DEF FsTimes
        <4>3. QED BY <2>1, <4>2 DEF l
      <3> HIDE DEF k
      <3>3. fkey' \in FsKeys /\ fkey'.failsafe = fkey.failsafe /\ fkey'.left = k /\ fkey'.holder = fkey.holder
        BY <1>1, <3>1, <3>2 DEF FsKeys
      <3>4. QED BY <2>1, <3>3 DEF k
    <2>2. CASE ~(fkey.left > 1)
      <3>1. fkey' = [fkey EXCEPT !.left = 0, !.holder = None]
        BY <2>2 DEF FS!Tick
      <3>2. QED BY <1>1, <2>2, <3>1, FsRange DEF FsKeys
    <2>3. QED BY <2>1, <2>2
  <1>8. \A n \in Nodes : /\ IsPrimary(n) \/ fnode[n].step \in {"race", "healthiest", "promote"} =>
                              /\ fnode[n].since < Cycle /\ fnode[n].step # "asking"
                              /\ fnode[n].since \in 0..Cycle /\ fnode'[n].since = fnode[n].since + 1
                         /\ IsPrimary(n)' <=> IsPrimary(n)
    <2>1. ASSUME NEW n \in Nodes, IsPrimary(n) \/ fnode[n].step \in {"race", "healthiest", "promote"}
          PROVE  /\ fnode[n].since < Cycle /\ fnode[n].step # "asking"
                 /\ fnode[n].since \in 0..Cycle /\ fnode'[n].since = fnode[n].since + 1
      <3>1. ~(fnode[n].role = "dead") /\ ~(fnode[n].role = "replica" /\ fnode[n].step = "idle")
        BY <2>1 DEF IsPrimary, FsInv, FsRoles
      <3>2. fnode[n].since < Cycle /\ fnode[n].step # "asking" /\ fnode[n].since \in 0..Cycle
        BY <1>1, <1>2, <3>1, FsFacts
      <3>3. ~(fnode[n].role # "primary" /\ fnode[n].step = "idle") /\ fnode[n].since # Cycle
        BY <2>1, <3>2 DEF IsPrimary, FsTimes
      <3>4. fnode'[n].since = fnode[n].since + 1
        BY <1>5, <3>3
      <3>5. QED BY <3>2, <3>4
    <2>2. QED BY <1>5, <2>1 DEF IsPrimary
  <1> HIDE DEF Down, since
  <1>9. FsTypeOK' /\ FsRoles' /\ FsSingle'
    BY <1>5, <1>6, <1>7, <1>8 DEF FsInv, FsTypeOK, FsRoles, FsSingle, IsPrimary
  <1>10. FsAsked'
    BY <1>5, <1>8 DEF FsInv, FsAsked, FsRoles
  <1>11. fkey.left \in 0..Ttl /\ \A n \in Nodes : fnode[n].left \in 0..Ttl /\ fnode[n].known \in SUBSET Nodes
    BY <1>1, FsFacts
  (* A key that lasts beyond the present cycle is not the one that expires. *)
  <1>12. ASSUME NEW n \in Nodes, fnode[n].since < Cycle, fnode[n].since \in 0..Cycle,
                fnode'[n].since = fnode[n].since + 1, fkey.left + fnode[n].since > Cycle
         PROVE  /\ fkey'.holder = fkey.holder /\ fkey'.left + fnode'[n].since = fkey.left + fnode[n].since
    <2>1. fkey.left > 1
      BY <1>11, <1>12 DEF FsTimes
    <2>2. QED BY <1>7, <1>11, <1>12, <2>1
  <1>13. FsBacked'
    <2>1. ASSUME NEW n \in Nodes, IsPrimary(n)'
          PROVE  /\ fnode'[n].known = fkey'.failsafe
                 /\ \/ fkey'.holder = n /\ fkey'.left + fnode'[n].since >= Ttl
                    \/ /\ n \in fnode'[n].known
                       /\ \A m \in fnode'[n].known \ {n} : fnode'[m].left + fnode'[n].since >= Ttl /\ fnode'[m].name = n
      <3>1. /\ IsPrimary(n) /\ fnode[n].since < Cycle /\ fnode[n].since \in 0..Cycle
            /\ fnode'[n].since = fnode[n].since + 1 /\ fnode'[n].known = fnode[n].known
        BY <1>5, <1>8, <2>1
      <3>2. /\ fnode[n].known = fkey.failsafe
            /\ \/ fkey.holder = n /\ fkey.left + fnode[n].since >= Ttl
               \/ /\ n \in fnode[n].known
                  /\ \A m \in fnode[n].known \ {n} : fnode[m].left + fnode[n].since >= Ttl /\ fnode[m].name = n
        BY <3>1 DEF FsInv, FsBacked
      <3>3. CASE fkey.holder = n /\ fkey.left + fnode[n].since >= Ttl
        <4>1. fkey.left + fnode[n].since > Cycle
          BY <1>11, <3>1, <3>3 DEF FsTimes
        <4>2. QED BY <1>7, <1>12, <3>1, <3>2, <3>3, <4>1
      <3>4. CASE /\ n \in fnode[n].known
                 /\ \A m \in fnode[n].known \ {n} : fnode[m].left + fnode[n].since >= Ttl /\ fnode[m].name = n
        <4>1. ASSUME NEW m \in fnode[n].known \ {n}
              PROVE  fnode'[m].left + fnode'[n].since >= Ttl /\ fnode'[m].name = n
          <5>1. m \in Nodes /\ fnode[m].left + fnode[n].since >= Ttl /\ fnode[m].name = n /\ fnode[m].left \in 0..Ttl
            BY <1>11, <3>4
          <5>2. fnode'[m].left = Down(fnode[m].left) /\ fnode'[m].name = n
            BY <1>5, <5>1
          <5>3. fnode[m].left > 0
            BY <3>1, <5>1 DEF FsTimes
          <5>4. fnode'[m].left = fnode[m].left - 1
            BY <1>3, <5>1, <5>2, <5>3
          <5>5. fnode'[m].left + fnode'[n].since >= Ttl
            BY <3>1, <5>1, <5>4 DEF FsTimes
          <5>6. QED BY <5>2, <5>5
        <4>2. QED BY <1>7, <3>1, <3>2, <3>4, <4>1
      <3>5. QED BY <3>2, <3>3, <3>4
    <2>2. QED BY <2>1 DEF FsBacked
  <1>14. FsRaces'
    <2>1. ASSUME NEW n \in Nodes, fnode'[n].step \in {"race", "healthiest"}
          PROVE  \/ /\ fkey'.holder = None /\ fnode'[n].known = fkey'.failsafe
                    /\ \A m \in Nodes : ~IsPrimary(m)'
                 \/ fkey'.holder # None /\ fkey'.left + fnode'[n].since > Cycle
      <3>1. fnode[n].step \in {"race", "healthiest"} /\ fnode'[n].known = fnode[n].known
        BY <1>5, <2>1
      <3>2. fnode[n].since < Cycle /\ fnode[n].since \in 0..Cycle /\ fnode'[n].since = fnode[n].since + 1
        BY <1>8, <3>1
      <3>3. \/ /\ fkey.holder = None /\ fnode[n].known = fkey.failsafe
               /\ \A m \in Nodes : ~IsPrimary(m)
            \/ fkey.holder # None /\ fkey.left + fnode[n].since > Cycle
        BY <3>1 DEF FsInv, FsRaces
      <3>4. QED BY <1>7, <1>8, <1>12, <3>1, <3>2, <3>3
    <2>2. QED BY <2>1 DEF FsRaces
  <1>15. FsPromotes'
    <2>1. ASSUME NEW n \in Nodes, fnode'[n].step = "promote"
          PROVE  /\ fkey'.holder = n /\ fkey'.left + fnode'[n].since >= Ttl /\ fnode'[n].known = fkey'.failsafe
                 /\ \A m \in Nodes : ~IsPrimary(m)'
      <3>1. fnode[n].step = "promote" /\ fnode'[n].known = fnode[n].known
        BY <1>5, <2>1
      <3>2. fnode[n].since < Cycle /\ fnode[n].since \in 0..Cycle /\ fnode'[n].since = fnode[n].since + 1
        BY <1>8, <3>1
      <3>3. /\ fkey.holder = n /\ fkey.left + fnode[n].since >= Ttl /\ fnode[n].known = fkey.failsafe
            /\ \A m \in Nodes : ~IsPrimary(m)
        BY <3>1 DEF FsInv, FsPromotes
      <3>4. fkey.left + fnode[n].since > Cycle
        BY <1>11, <3>2, <3>3 DEF FsTimes
      <3>5. QED BY <1>7, <1>8, <1>12, <3>1, <3>2, <3>3, <3>4
    <2>2. QED BY <2>1 DEF FsPromotes
  <1>16. QED BY <1>9, <1>10, <1>13, <1>14, <1>15 DEF FsInv

(* The first leader has published itself.                                   *)
LEMMA FsStart ==
  ASSUME FsTimes, FsNames, First \in Nodes, FS!FsInit
  PROVE  FsInv
  <1>1. PICK members \in {ms \in SUBSET Nodes : First \in ms}, failsafe \in {{}, Nodes} :
          /\ fkey = [holder |-> First, left |-> Ttl, failsafe |-> failsafe \cap members, members |-> members]
          /\ fnode = [n \in Nodes |-> [FS!NewNode EXCEPT !.known = failsafe \cap members,
                                                         !.role = IF n = First THEN "primary" ELSE @]]
    BY DEF FS!FsInit
  <1> DEFINE known == failsafe \cap members
             role(n) == IF n = First THEN "primary" ELSE "replica"
  <1>2. known \in SUBSET Nodes /\ \A n \in Nodes : role(n) \in {"primary", "replica"}
    OBVIOUS
  <1>3. \A n \in Nodes : fnode[n] = [FS!NewNode EXCEPT !.known = known, !.role = role(n)]
    BY <1>1, FsNew DEF FsNodes
  <1>4. fkey \in FsKeys /\ fkey.holder = First /\ fkey.left = Ttl /\ fkey.failsafe = known
    BY <1>1, <1>2, FsRange DEF FsKeys
  <1> HIDE DEF known
  <1>5. ASSUME NEW n \in Nodes
        PROVE  /\ fnode[n] \in FsNodes /\ fnode[n].role = role(n) /\ fnode[n].step = "idle"
               /\ fnode[n].known = known /\ fnode[n].since = 0
    <2> DEFINE d == fnode[n]
               r == role(n)
    <2>1. d = [FS!NewNode EXCEPT !.known = known, !.role = r] /\ r \in {"primary", "replica"}
      BY <1>2, <1>3
    <2> HIDE DEF d, r
    <2>2. d \in FsNodes /\ d.role = r /\ d.step = "idle" /\ d.known = known /\ d.since = 0
      BY <1>2, <2>1, FsNew DEF FsNodes
    <2>3. QED BY <2>2 DEF d, r
  <1>6. FsTypeOK
    BY <1>1, <1>4, <1>5 DEF FsTypeOK
  <1>7. \A n \in Nodes : IsPrimary(n) => n = First
    BY <1>5 DEF IsPrimary
  <1>8. Ttl + 0 >= Ttl
    BY DEF FsTimes
  <1>9. FsRoles /\ FsBacked /\ FsAsked /\ FsRaces /\ FsPromotes /\ FsSingle
    BY <1>4, <1>5, <1>7, <1>8 DEF FsRoles, FsBacked, FsAsked, FsRaces, FsPromotes, FsSingle
  <1>10. QED BY <1>6, <1>9 DEF FsInv

(* Every step of failsafe mode keeps the invariant.                         *)
LEMMA FsStep ==
  ASSUME FsTimes, FsNames, First \in Nodes, FsInv, [FS!FsNext]_(FS!fsVars)
  PROVE  FsInv'
  <1>1. CASE fkey' = fkey /\ fnode' = fnode
    BY <1>1 DEF FsInv, FsTypeOK, FsRoles, FsBacked, FsAsked, FsRaces, FsPromotes, FsSingle, IsPrimary
  <1>2. CASE FS!FsNext
    BY <1>1, <1>2, FsUpdateLock, FsHandleDcsError, FsCheckFailsafeTopology, FsLoadCluster, FsRace,
       FsAcquireLock, FsPromote, FsCall, FsCrash, FsTick DEF FS!FsNext, FS!LinkBreaks, FS!DcsChanges
  <1>3. QED BY <1>1, <1>2 DEF FS!fsVars

(* OnePrimary of the module on its own.                                     *)
LEMMA FailsafeProved ==
  ASSUME Ttl \in Nat, Cycle \in Nat, Cycle < Ttl, None \notin Nodes, "" \notin Nodes, First \in Nodes
  PROVE  FS!FsSpec => []FS!OnePrimary
  <1>1. FsTimes /\ FsNames
    BY DEF FsTimes, FsNames
  <1>2. FS!FsInit => FsInv
    BY <1>1, FsStart
  <1>3. FsInv /\ [FS!FsNext]_(FS!fsVars) => FsInv'
    BY <1>1, FsStep
  <1>4. FsInv => FS!OnePrimary
    BY DEF FsInv, FsSingle, IsPrimary, FS!OnePrimary
  <1>5. QED BY <1>2, <1>3, <1>4, PTL DEF FS!FsSpec

(* In failsafe mode there is never more than one primary: a leader without  *)
(* its key goes on only while every node that may take the key is bound to  *)
(* it, if a cycle takes less than the ttl.                                  *)
THEOREM FailsafeOnePrimary ==
  ASSUME Ttl \in Nat, Cycle \in Nat, Cycle < Ttl, None \notin Nodes, "" \notin Nodes, First \in Nodes
  PROVE  Spec => []OnePrimary
  <1> DEFINE Here == part = "failsafe"
  <1>1. Init /\ Here => FS!FsInit
    BY DEF Init
  <1>2. Here /\ [Next]_vars => Here' /\ [FS!FsNext]_(FS!fsVars)
    BY DEF Next, vars, fsVars, FS!fsVars
  <1>3. ~Here /\ [Next]_vars => ~Here'
    BY DEF Next, vars
  <1>4. FS!FsSpec => []FS!OnePrimary
    BY FailsafeProved
  <1>5. (Here => FS!OnePrimary) => OnePrimary
    BY DEF OnePrimary
  <1> HIDE DEF Here
  <1>6. QED BY <1>1, <1>2, <1>3, <1>4, <1>5, PTL DEF Spec, FS!FsSpec

(* No key but its own beside a primary: nobody takes the key while there    *)
(* is one.                                                                  *)
FsHolder == \A n \in Nodes : IsPrimary(n) => fkey.holder \in {n, None}

(* Every node is alive and reaches every other one.                         *)
FsConnected == net.cut = {} /\ \A m \in Nodes : fnode[m].role # "dead"

(* The leader has accepted itself, and as long as all nodes are connected   *)
(* nobody has refused, unless the leader is not in the /failsafe key.       *)
FsAccepted ==
  \A n \in Nodes : fnode[n].step = "asking" =>
    n \in fnode[n].asked /\ (FsConnected /\ fnode[n].refused => n \notin fnode[n].known)

FsNets == [cut : SUBSET (SUBSET Nodes), dcs : SUBSET Nodes, time : Nat, faults : Nat]

FsInvToo == FsInv /\ net \in FsNets /\ FsHolder /\ FsAccepted

(* What a step of node n does to it, and to nobody else: it takes a key     *)
(* only if there is no other primary, and asks or is demoted for a reason.  *)
FsSame(m) ==
  /\ fnode'[m].role = fnode[m].role /\ fnode'[m].step = fnode[m].step /\ fnode'[m].known = fnode[m].known
  /\ fnode'[m].asked = fnode[m].asked /\ fnode'[m].refused = fnode[m].refused
FsTurn(n) ==
  /\ \A m \in Nodes \ {n} : FsSame(m)
  /\ net' \in FsNets /\ (net'.cut = {} => net.cut = {})
  /\ fnode[n].role = "dead" => fnode'[n].role = "dead"
  /\ fkey'.holder \in {fkey.holder, None} \/ \A m \in Nodes : IsPrimary(m)' => m = n
  /\ IsPrimary(n)' => fkey'.holder \in {n, None}
  /\ fnode'[n].step = "asking" =>
       n \in fnode'[n].asked /\ (FsConnected /\ fnode'[n].refused => n \notin fnode'[n].known)
  /\ IsPrimary(n) /\ n \in fnode[n].known /\ FsConnected => fnode'[n].role # "replica"

(* Such a step preserves the invariant, and demotes no leader that reaches  *)
(* all nodes.                                                               *)
LEMMA FsTurnKeeps ==
  ASSUME FsInvToo, NEW n \in Nodes, FsTurn(n)
  PROVE  FsHolder' /\ FsAccepted' /\ FS!LeaderSurvives
  <1>1. FsConnected' => FsConnected
    BY DEF FsConnected, FsTurn, FsSame
  <1>2. FsHolder'
    <2>1. SUFFICES ASSUME NEW m \in Nodes, IsPrimary(m)' PROVE fkey'.holder \in {m, None}
      BY DEF FsHolder
    <2>2. CASE m = n
      BY <2>1, <2>2 DEF FsTurn
    <2>3. CASE m # n
      <3>1. IsPrimary(m)
        BY <2>1, <2>3 DEF FsTurn, FsSame, IsPrimary
      <3>2. fkey'.holder \in {fkey.holder, None}
        BY <2>1, <2>3 DEF FsTurn
      <3>3. QED BY <3>1, <3>2 DEF FsInvToo, FsHolder
    <2>4. QED BY <2>2, <2>3
  <1>3. FsAccepted'
    <2>1. SUFFICES ASSUME NEW m \in Nodes, fnode'[m].step = "asking"
                   PROVE  m \in fnode'[m].asked /\ (FsConnected' /\ fnode'[m].refused => m \notin fnode'[m].known)
      BY DEF FsAccepted
    <2>2. CASE m = n
      BY <1>1, <2>1, <2>2 DEF FsTurn
    <2>3. CASE m # n
      <3>1. FsSame(m)
        BY <2>3 DEF FsTurn
      <3>2. QED BY <1>1, <2>1, <3>1 DEF FsSame, FsInvToo, FsAccepted
    <2>4. QED BY <2>2, <2>3
  <1>4. FS!LeaderSurvives
    <2>1. SUFFICES ASSUME NEW m \in Nodes, IsPrimary(m), m \in fnode[m].known, FsConnected
                   PROVE  fnode'[m].role # "replica"
      BY DEF FS!LeaderSurvives, IsPrimary, FsConnected
    <2>2. CASE m = n
      BY <2>1, <2>2 DEF FsTurn
    <2>3. CASE m # n
      BY <2>1, <2>3 DEF FsTurn, FsSame, IsPrimary
    <2>4. QED BY <2>2, <2>3
  <1>5. QED BY <1>2, <1>3, <1>4

(* The record of a node changes in some fields.                             *)
LEMMA FsOther ==
  ASSUME FsTypeOK, NEW n \in Nodes, NEW d, fnode' = [fnode EXCEPT ![n] = d]
  PROVE  fnode'[n] = d /\ \A m \in Nodes \ {n} : FsSame(m)
  BY DEF FsTypeOK, FsSame

(* The leader: it keeps or takes again its own key, which nobody else has.  *)
LEMMA FsLeaderTurn ==
  ASSUME FsInvToo, NEW n \in Nodes,
         FS!UpdateLock(n) \/ FS!HandleDcsError(n) \/ FS!CheckFailsafeTopology(n) \/ FS!Promote(n)
  PROVE  FsTurn(n)
  <1>1. /\ FsTypeOK /\ fnode[n] \in FsNodes /\ net' = net /\ net \in FsNets
        /\ \A m \in Nodes : IsPrimary(n) /\ IsPrimary(m) => m = n
    BY FsFacts DEF FsInvToo, FsInv, FsSingle, FS!UpdateLock, FS!HandleDcsError, FS!CheckFailsafeTopology, FS!Promote
  <1>2. CASE FS!UpdateLock(n)
    <2>1. IsPrimary(n) /\ fnode[n].step = "idle" /\ fkey.holder \in {n, None}
      BY <1>2 DEF FS!UpdateLock, IsPrimary, FsInvToo, FsHolder
    <2> DEFINE d == [fnode[n] EXCEPT !.known = FS!FailsafeConfig(n), !.left = 0, !.name = "", !.since = 0]
    <2>2. fnode' = [fnode EXCEPT ![n] = d] /\ fkey'.holder = n
      <3>1. fkey' = [fkey EXCEPT !.holder = n, !.left = Ttl, !.failsafe = FS!FailsafeConfig(n),
                                 !.members = fkey.members \cup {n}]
        BY <1>2, <2>1 DEF FS!UpdateLock
      <3>2. fnode' = [fnode EXCEPT ![n] = d]
        BY <1>1, <1>2, <2>1 DEF FS!UpdateLock, FsTypeOK
      <3>3. QED BY <1>1, <3>1, <3>2 DEF FsTypeOK, FsKeys
    <2>3. d.role = "primary" /\ d.step = "idle"
      BY <1>1, <2>1 DEF FsNodes, IsPrimary
    <2> HIDE DEF d
    <2>4. fnode'[n] = d /\ \A m \in Nodes \ {n} : FsSame(m)
      BY <1>1, <2>2, FsOther
    <2>5. \A m \in Nodes : IsPrimary(m)' => m = n
      BY <1>1, <2>1, <2>4 DEF FsSame, IsPrimary
    <2>6. QED BY <1>1, <2>1, <2>2, <2>3, <2>4, <2>5 DEF FsTurn, IsPrimary
  <1>3. CASE FS!HandleDcsError(n)
    <2>1. IsPrimary(n) /\ fkey' = fkey
      BY <1>3 DEF FS!HandleDcsError, IsPrimary
    <2> DEFINE d == [fnode[n] EXCEPT !.step = "asking", !.asked = {n}, !.refused = n \notin fnode[n].known]
    <2>2. fnode' = [fnode EXCEPT ![n] = d]
      BY <1>1, <1>3 DEF FS!HandleDcsError, FsTypeOK
    <2>3. d.role = "primary" /\ d.known = fnode[n].known /\ n \in d.asked /\ (d.refused => n \notin fnode[n].known)
      BY <1>1, <2>1 DEF FsNodes, IsPrimary
    <2> HIDE DEF d
    <2>4. fnode'[n] = d /\ \A m \in Nodes \ {n} : FsSame(m)
      BY <1>1, <2>2, FsOther
    <2>5. QED BY <1>1, <2>1, <2>3, <2>4 DEF FsTurn, IsPrimary, FsInvToo, FsHolder
  <1>4. CASE FS!CheckFailsafeTopology(n)
    <2>1. IsPrimary(n) /\ fnode[n].step = "asking" /\ fkey' = fkey
      BY <1>4 DEF FS!CheckFailsafeTopology, FsInvToo, FsInv, FsRoles
    <2> DEFINE d == IF fnode[n].refused THEN [FS!NewNode EXCEPT !.known = fnode[n].known]
                    ELSE [FS!NewNode EXCEPT !.role = "primary", !.known = fnode[n].known, !.left = Ttl]
    <2>2. fnode' = [fnode EXCEPT ![n] = d]
      BY <1>4 DEF FS!CheckFailsafeTopology
    <2>3. d.step = "idle" /\ (d.role = "replica" => fnode[n].refused)
      BY DEF FS!NewNode
    <2> HIDE DEF d
    <2>4. fnode'[n] = d /\ \A m \in Nodes \ {n} : FsSame(m)
      BY <1>1, <2>2, FsOther
    <2>5. FsConnected /\ fnode[n].refused => n \notin fnode[n].known
      BY <2>1 DEF FsInvToo, FsAccepted
    <2>6. QED BY <1>1, <2>1, <2>3, <2>4, <2>5 DEF FsTurn, IsPrimary, FsInvToo, FsHolder
  <1>5. CASE FS!Promote(n)
    <2>1. fkey.holder = n /\ fkey' = fkey /\ ~IsPrimary(n) /\ fnode[n].role = "replica"
      BY <1>5 DEF FS!Promote, FsInvToo, FsInv, FsPromotes, FsRoles
    <2> DEFINE d == [fnode[n] EXCEPT !.step = "idle", !.role = "primary", !.left = 0, !.name = ""]
    <2>2. fnode' = [fnode EXCEPT ![n] = d]
      BY <1>1, <1>5 DEF FS!Promote, FsTypeOK
    <2>3. d.role = "primary" /\ d.step = "idle"
      BY <1>1 DEF FsNodes
    <2> HIDE DEF d
    <2>4. fnode'[n] = d /\ \A m \in Nodes \ {n} : FsSame(m)
      BY <1>1, <2>2, FsOther
    <2>5. QED BY <1>1, <2>1, <2>3, <2>4 DEF FsTurn, IsPrimary
  <1>6. QED BY <1>2, <1>3, <1>4, <1>5


(* A replica, which takes the key only when there is no primary.            *)
LEMMA FsReplicaTurn ==
  ASSUME FsInvToo, NEW n \in Nodes, FS!LoadCluster(n) \/ FS!Race(n) \/ FS!AcquireLock(n)
  PROVE  FsTurn(n)
  <1>1. FsTypeOK /\ fnode[n] \in FsNodes /\ net' = net /\ net \in FsNets
    BY FsFacts DEF FsInvToo, FsInv, FS!LoadCluster, FS!Race, FS!AcquireLock
  <1>2. fnode[n].role = "replica"
    BY DEF FsInvToo, FsInv, FsRoles, FS!LoadCluster, FS!Race, FS!AcquireLock
  <1>5. fnode'[n].role = "replica" /\ fnode'[n].step # "asking" /\ \A m \in Nodes \ {n} : FsSame(m)
    <2>1. ASSUME NEW d, d.role = "replica", d.step # "asking", fnode' = [fnode EXCEPT ![n] = d]
          PROVE  fnode'[n].role = "replica" /\ fnode'[n].step # "asking" /\ \A m \in Nodes \ {n} : FsSame(m)
      BY <1>1, <2>1, FsOther
    <2>2. CASE FS!LoadCluster(n)
      <3>1. PICK s \in {"idle", "race"} :
              fnode' = [fnode EXCEPT ![n].known = fkey.failsafe, ![n].since = 0, ![n].step = s]
        BY <2>2 DEF FS!LoadCluster
      <3> DEFINE d == [fnode[n] EXCEPT !.known = fkey.failsafe, !.since = 0, !.step = s]
      <3>2. fnode' = [fnode EXCEPT ![n] = d]
        BY <1>1, <3>1 DEF FsTypeOK
      <3>3. d.role = "replica" /\ d.step # "asking"
        BY <1>1, <1>2 DEF FsNodes
      <3>4. QED BY <2>1, <3>2, <3>3
    <2>3. CASE FS!Race(n)
      <3>1. PICK s \in {"idle", "healthiest"} : fnode' = [fnode EXCEPT ![n].step = s]
        BY <2>3 DEF FS!Race
      <3> DEFINE d == [fnode[n] EXCEPT !.step = s]
      <3>2. fnode' = [fnode EXCEPT ![n] = d]
        BY <1>1, <3>1 DEF FsTypeOK
      <3>3. d.role = "replica" /\ d.step # "asking"
        BY <1>1, <1>2 DEF FsNodes
      <3>4. QED BY <2>1, <3>2, <3>3
    <2>4. CASE FS!AcquireLock(n)
      <3> DEFINE d == [fnode[n] EXCEPT !.step = "promote", !.since = 0]
                 e == [fnode[n] EXCEPT !.step = "idle"]
      <3>1. fnode' = [fnode EXCEPT ![n] = d] \/ fnode' = [fnode EXCEPT ![n] = e]
        BY <1>1, <2>4 DEF FS!AcquireLock, FsTypeOK
      <3>2. d.role = "replica" /\ d.step # "asking" /\ e.role = "replica" /\ e.step # "asking"
        BY <1>1, <1>2 DEF FsNodes
      <3>3. QED BY <2>1, <3>1, <3>2
    <2>5. QED BY <2>2, <2>3, <2>4
  <1>6. fkey'.holder = fkey.holder \/ \A m \in Nodes : ~IsPrimary(m)
    <2>1. CASE FS!LoadCluster(n)
      BY <1>1, <2>1 DEF FS!LoadCluster, FsTypeOK, FsKeys
    <2>2. CASE FS!Race(n)
      BY <2>2 DEF FS!Race
    <2>3. CASE FS!AcquireLock(n)
      BY <2>3 DEF FS!AcquireLock, FsInvToo, FsInv, FsRaces
    <2>4. QED BY <2>1, <2>2, <2>3
  <1>7. fkey'.holder \in {fkey.holder, None} \/ \A m \in Nodes : IsPrimary(m)' => m = n
    BY <1>5, <1>6 DEF FsSame, IsPrimary
  <1>8. QED BY <1>1, <1>2, <1>5, <1>7 DEF FsTurn, IsPrimary

(* The leader calls a member, which accepts: it is reached, and is no       *)
(* primary itself.                                                          *)
LEMMA FsCallTurn ==
  ASSUME FsInvToo, NEW n \in Nodes, NEW m \in Nodes, FS!CallFailsafeMember(n, m)
  PROVE  FsTurn(n)
  <1>1. /\ FsTypeOK /\ fnode[n] \in FsNodes /\ fnode[m] \in FsNodes /\ net' = net /\ net \in FsNets /\ fkey' = fkey
        /\ fnode[n].step = "asking" /\ IsPrimary(n) /\ n \in fnode[n].asked /\ n # m
    BY FsFacts DEF FsInvToo, FsInv, FsRoles, FsAccepted, FS!CallFailsafeMember
  <1>2. FsConnected => FS!Reaches(n, m) /\ fnode[m].role # "primary"
    BY <1>1 DEF FsConnected, FS!Reaches, FsInvToo, FsInv, FsSingle, IsPrimary
  <1>3. CASE FS!Reaches(n, m) /\ fnode[m].role # "primary"
    <2>1. fnode' = [fnode EXCEPT ![n].asked = fnode[n].asked \cup {m}, ![m].left = Ttl, ![m].name = n]
      BY <1>3 DEF FS!CallFailsafeMember, FS!UpdateFailsafe
    <2>2. /\ fnode'[n] = [fnode[n] EXCEPT !.asked = fnode[n].asked \cup {m}]
          /\ fnode'[m] = [fnode[m] EXCEPT !.left = Ttl, !.name = n]
          /\ \A k \in Nodes \ {m, n} : fnode'[k] = fnode[k]
      BY <1>1, <2>1 DEF FsTypeOK
    <2>3. FsSame(m)
      BY <1>1, <2>2 DEF FsSame, FsNodes
    <2>4. \A k \in Nodes \ {n} : FsSame(k)
      BY <2>2, <2>3 DEF FsSame
    <2>5. /\ fnode'[n].role = fnode[n].role /\ fnode'[n].known = fnode[n].known
          /\ fnode'[n].refused = fnode[n].refused /\ n \in fnode'[n].asked
      BY <1>1, <2>2 DEF FsNodes
    <2>6. QED BY <1>1, <2>4, <2>5 DEF FsTurn, IsPrimary, FsInvToo, FsHolder, FsAccepted
  <1>4. CASE ~(FS!Reaches(n, m) /\ fnode[m].role # "primary")
    <2> DEFINE d == [fnode[n] EXCEPT !.asked = fnode[n].asked \cup {m}, !.refused = TRUE]
    <2>1. fnode' = [fnode EXCEPT ![n] = d]
      BY <1>1, <1>4 DEF FS!CallFailsafeMember, FsTypeOK
    <2>2. d.role = fnode[n].role /\ n \in d.asked
      BY <1>1 DEF FsNodes
    <2> HIDE DEF d
    <2>3. fnode'[n] = d /\ \A k \in Nodes \ {n} : FsSame(k)
      BY <1>1, <2>1, FsOther
    <2>4. QED BY <1>1, <1>2, <1>4, <2>2, <2>3 DEF FsTurn, IsPrimary, FsInvToo, FsHolder
  <1>5. QED BY <1>3, <1>4

(* Links break, the leader crashes, time passes.                            *)
LEMMA FsWorldTurn ==
  ASSUME FsInvToo, First \in Nodes, FS!LinkBreaks \/ FS!DcsChanges \/ FS!Crash \/ FS!Tick
  PROVE  FsTurn(First)
  <1>1. FsTypeOK /\ net' \in FsNets /\ (net'.cut = {} => net.cut = {})
    <2>1. FsTypeOK /\ net \in FsNets /\ net.faults + 1 \in Nat /\ net.time + 1 \in Nat
      BY DEF FsInvToo, FsInv, FsNets
    <2>2. CASE FS!LinkBreaks
      <3>1. PICK p \in SUBSET Nodes : net' = [net EXCEPT !.cut = net.cut \cup {p}, !.faults = net.faults + 1]
        BY <2>2 DEF FS!LinkBreaks
      <3>2. QED BY <2>1, <3>1 DEF FsNets
    <2>3. CASE FS!DcsChanges
      <3>1. PICK dcs \in SUBSET Nodes : net' = [net EXCEPT !.dcs = dcs, !.faults = net.faults + 1]
        BY <2>3 DEF FS!DcsChanges
      <3>2. QED BY <2>1, <3>1 DEF FsNets
    <2>4. CASE FS!Crash
      BY <2>1, <2>4 DEF FS!Crash, FsNets
    <2>5. CASE FS!Tick
      BY <2>1, <2>5 DEF FS!Tick, FsNets
    <2>6. QED BY <2>1, <2>2, <2>3, <2>4, <2>5
  <1>2. CASE FS!Crash
    <2> DEFINE d == [FS!NewNode EXCEPT !.role = "dead", !.step = "dead"]
    <2>1. fnode' = [fnode EXCEPT ![First] = d] /\ fkey' = fkey
      BY <1>2 DEF FS!Crash
    <2>2. d.role = "dead" /\ d.step = "dead"
      BY DEF FS!NewNode
    <2> HIDE DEF d
    <2>3. fnode'[First] = d /\ \A k \in Nodes \ {First} : FsSame(k)
      BY <1>1, <2>1, FsOther
    <2>4. QED BY <1>1, <2>1, <2>2, <2>3 DEF FsTurn, IsPrimary
  <1>3. CASE FS!LinkBreaks \/ FS!DcsChanges \/ FS!Tick
    <2>1. \A k \in Nodes : FsSame(k)
      <3>1. CASE FS!Tick
        <4>1. SUFFICES ASSUME NEW k \in Nodes PROVE FsSame(k)
          OBVIOUS
        <4>2. fnode[k] \in FsNodes
          BY <1>1, FsFacts
        <4>3. PICK l, t : fnode'[k] = [fnode[k] EXCEPT !.left = l, !.since = t]
          BY <3>1 DEF FS!Tick
        <4>4. QED BY <4>2, <4>3 DEF FsSame, FsNodes
      <3>2. CASE FS!LinkBreaks \/ FS!DcsChanges
        BY <3>2 DEF FS!LinkBreaks, FS!DcsChanges, FsSame
      <3>3. QED BY <1>3, <3>1, <3>2
    <2>2. fkey'.holder \in {fkey.holder, None}
      <3>1. fkey \in FsKeys
        BY <1>1 DEF FsTypeOK
      <3>2. fkey' = fkey \/ fkey' = [fkey EXCEPT !.left = fkey.left - 1] \/ fkey' = [fkey EXCEPT !.left = 0, !.holder = None]
        BY <1>3 DEF FS!LinkBreaks, FS!DcsChanges, FS!Tick
      <3>3. QED BY <3>1, <3>2 DEF FsKeys
    <2>3. QED BY <1>1, <2>1, <2>2 DEF FsTurn, FsSame, IsPrimary, FsInvToo, FsHolder, FsAccepted
  <1>4. QED BY <1>2, <1>3

(* Every step of failsafe mode keeps the invariant, and demotes no leader   *)
(* that everybody accepts.                                                  *)
LEMMA FsStepToo ==
  ASSUME FsTimes, FsNames, First \in Nodes, FsInvToo, FS!FsNext
  PROVE  FsInvToo' /\ FS!LeaderSurvives
  <1>1. FsInv'
    BY FsStep DEF FsInvToo
  <1>2. \E n \in Nodes : FsTurn(n)
    BY FsLeaderTurn, FsReplicaTurn, FsCallTurn, FsWorldTurn DEF FS!FsNext
  <1>3. net' \in FsNets /\ FsHolder' /\ FsAccepted' /\ FS!LeaderSurvives
    BY <1>2, FsTurnKeeps DEF FsTurn
  <1>4. QED BY <1>1, <1>3 DEF FsInvToo

(* No outage of the DCS, however long and for whom, demotes a leader that   *)
(* is in the /failsafe key and reaches all other nodes: for any nodes, ttl  *)
(* and sequence of outages.                                                 *)
THEOREM FailsafeLeaderSurvives ==
  ASSUME Ttl \in Nat, Cycle \in Nat, Cycle < Ttl, None \notin Nodes, "" \notin Nodes, First \in Nodes
  PROVE  Spec => LeaderSurvives
  <1> DEFINE Here == part = "failsafe"
             Only == Here => FS!LeaderSurvives
  <1>1. FsTimes /\ FsNames
    BY DEF FsTimes, FsNames
  <1>2. Init /\ Here => FsInvToo
    <2>1. ASSUME Init, Here PROVE FsInvToo
      <3>1. FS!FsInit
        BY <2>1 DEF Init
      <3>2. FsInv
        BY <1>1, <3>1, FsStart
      <3>3. \A n \in Nodes : fnode[n].step = "idle" /\ (IsPrimary(n) => n = First)
        <4>1. PICK k : fnode = [n \in Nodes |-> [FS!NewNode EXCEPT !.known = k, !.role = IF n = First THEN "primary" ELSE @]]
          BY <3>1 DEF FS!FsInit
        <4>2. QED BY <4>1 DEF FS!NewNode, IsPrimary
      <3>4. fkey.holder = First /\ net \in FsNets
        <4>1. PICK f, ms : fkey = [holder |-> First, left |-> Ttl, failsafe |-> f, members |-> ms]
          BY <3>1 DEF FS!FsInit
        <4>2. net = [cut |-> {}, dcs |-> Nodes, time |-> 0, faults |-> 0]
          BY <3>1 DEF FS!FsInit
        <4>3. QED BY <4>1, <4>2 DEF FsNets
      <3>5. QED BY <3>2, <3>3, <3>4 DEF FsInvToo, FsHolder, FsAccepted
    <2>2. QED BY <2>1
  <1>3. (Here => FsInvToo) /\ [Next]_vars => (Here => FsInvToo)'
    <2>1. ASSUME FsInvToo, Here, FS!FsNext PROVE FsInvToo'
      BY <1>1, <2>1, FsStepToo
    <2>2. ASSUME FsInvToo, UNCHANGED vars PROVE FsInvToo'
      <3>1. net' = net /\ fkey' = fkey /\ fnode' = fnode
        BY <2>2 DEF vars, fsVars
      <3>2. [FS!FsNext]_(FS!fsVars)
        BY <3>1 DEF FS!fsVars
      <3>3. FsInv'
        BY <1>1, <2>2, <3>2, FsStep DEF FsInvToo
      <3>4. QED BY <2>2, <3>1, <3>3 DEF FsInvToo, FsHolder, FsAccepted, FsConnected, IsPrimary
    <2>3. QED BY <2>1, <2>2 DEF Next, vars
  <1>4. (Here => FsInvToo) /\ [Next]_vars => [Only]_vars
    <2>1. ASSUME FsInvToo, Here, Next PROVE FS!LeaderSurvives
      BY <1>1, <2>1, FsStepToo DEF Next
    <2>2. QED BY <2>1
  <1>5. LeaderSurvives <=> [][Only]_vars
    BY DEF LeaderSurvives
  <1> HIDE DEF Only, Here
  <1>6. QED BY <1>2, <1>3, <1>4, <1>5, PTL DEF Spec

-----------------------------------------------------------------------------
(* Synchronous replication to a fixed number of standbys.                   *)

SyNames == Nodes \cup {Placeholder}
SyRepl == [wal : [Nodes -> Nat], ssn : SUBSET SyNames, eff : SUBSET SyNames, acked : Nat,
           primary : Nodes \cup {None}, streaming : SUBSET Nodes]
SySync == [leader : Nodes, voters : SUBSET Nodes, nosync : SUBSET Nodes]
SyHandler == [seen : SUBSET SyNames, flush : Nat, ready : SUBSET Nodes]
SyRun == [step : {"idle", "reduce", "assign", "extend", "publish"}, old : SUBSET Nodes, voters : SUBSET Nodes,
          picked : SUBSET Nodes, allow : SUBSET Nodes]
SyTypeOK ==
  /\ repl \in SyRepl /\ sync \in SySync /\ handler \in [Nodes -> SyHandler]
  /\ cycle \in [run : SyRun, strict : BOOLEAN, faults : Nat]

(* The members among them have everything that was acknowledged.            *)
HaveCommits(names) == \A n \in names \cap Nodes : repl.wal[n] >= repl.acked

(* The /sync key names the primary, and only standbys every commit waits    *)
(* for.                                                                     *)
SyKey ==
  /\ HaveCommits(sync.voters \cup {sync.leader})
  /\ repl.primary # None => sync.leader = repl.primary /\ sync.voters \subseteq repl.eff \cap repl.ssn

(* What the primary's SyncHandler knows of the value in effect: whoever is  *)
(* ready has the commits, and so has whoever catches up.                    *)
SyReady ==
  /\ \A n \in Nodes : handler[n].ready \subseteq handler[n].seen
  /\ \A p \in Nodes : repl.primary = p =>
       /\ repl.eff \in {handler[p].seen, repl.ssn}
       /\ HaveCommits(handler[p].ready \cap repl.eff)
       /\ repl.eff = handler[p].seen => repl.acked <= handler[p].flush \/ HaveCommits(repl.eff)

(* What a cycle of the primary has decided and has not written yet.         *)
SyReducing(p) ==
  cycle.run.step \in {"reduce", "assign"} =>
    /\ cycle.run.old \cup cycle.run.allow \subseteq repl.eff \cap repl.ssn
    /\ HaveCommits(cycle.run.old \cup cycle.run.allow)
    /\ \/ handler[p].seen = repl.eff /\ repl.eff = repl.ssn
       \/ /\ cycle.run.picked = {} /\ cycle.run.old = {} /\ repl.ssn = {}
          /\ repl.eff \in {handler[p].seen, {}}
SyExtending ==
  cycle.run.step = "extend" =>
    /\ repl.ssn = cycle.run.picked /\ cycle.run.old \cap cycle.run.picked \subseteq repl.eff
    /\ HaveCommits(cycle.run.old \cap cycle.run.picked)
SyPublishing ==
  cycle.run.step = "publish" => cycle.run.allow \subseteq repl.ssn \cap repl.eff /\ HaveCommits(cycle.run.allow)
SyCycle ==
  \A p \in Nodes : repl.primary = p /\ cycle.run.step # "idle" =>
    /\ cycle.run.voters = sync.voters /\ cycle.run.allow \subseteq cycle.run.picked
    /\ cycle.run.step = "assign" => cycle.run.voters \subseteq cycle.run.allow
    /\ SyReducing(p) /\ SyExtending /\ SyPublishing
SyDown == repl.primary = None => cycle.run = SY!Idle

SyInv == SyTypeOK /\ SyKey /\ SyReady /\ SyCycle /\ SyDown

SyGiven == SlowReload = FALSE /\ Placeholder \notin Nodes /\ None \notin Nodes /\ First \in Nodes
           /\ Strict \subseteq BOOLEAN

(* The fields of a typed state of synchronous replication.                  *)
LEMMA SyFacts ==
  ASSUME SyTypeOK
  PROVE  /\ repl.wal \in [Nodes -> Nat] /\ repl.acked \in Nat /\ repl.primary \in Nodes \cup {None}
         /\ repl.ssn \subseteq SyNames /\ repl.eff \subseteq SyNames /\ repl.streaming \subseteq Nodes
         /\ sync.leader \in Nodes /\ sync.voters \subseteq Nodes /\ sync.nosync \subseteq Nodes
         /\ \A n \in Nodes : /\ handler[n] \in SyHandler /\ handler[n].seen \subseteq SyNames
                             /\ handler[n].flush \in Nat /\ handler[n].ready \subseteq Nodes
         /\ cycle.run \in SyRun /\ cycle.run.old \subseteq Nodes /\ cycle.run.voters \subseteq Nodes
         /\ cycle.run.picked \subseteq Nodes /\ cycle.run.allow \subseteq Nodes
         /\ cycle.strict \in BOOLEAN /\ cycle.faults \in Nat
  BY DEF SyTypeOK, SyRepl, SySync, SyHandler, SyRun

(* PostgreSQL writes, receives and loses WAL, but nothing is acknowledged.  *)
SyWal ==
  /\ repl'.ssn = repl.ssn /\ repl'.eff = repl.eff /\ repl'.primary = repl.primary /\ repl'.acked = repl.acked
  /\ sync'.leader = sync.leader /\ sync'.voters = sync.voters /\ handler' = handler /\ cycle'.run = cycle.run
  /\ \A n \in Nodes : repl.wal[n] >= repl.acked => repl'.wal[n] >= repl.acked

(* A step that leaves the handlers, /sync and the run alone and only adds   *)
(* WAL keeps the invariant.                                                 *)
LEMMA SyWalKeeps ==
  ASSUME SyInv, SyTypeOK', SyWal
  PROVE  SyInv'
  <1>1. ASSUME NEW S, HaveCommits(S) PROVE HaveCommits(S)'
    BY <1>1 DEF HaveCommits, SyWal
  <1>2. SyKey'
    BY <1>1 DEF SyInv, SyKey, SyWal
  <1>3. SyReady'
    BY <1>1 DEF SyInv, SyReady, SyWal
  <1>4. SyCycle'
    <2>1. ASSUME NEW p \in Nodes, SyReducing(p) PROVE SyReducing(p)'
      BY <1>1, <2>1 DEF SyReducing, SyWal
    <2>2. SyExtending => SyExtending'
      BY <1>1 DEF SyExtending, SyWal
    <2>3. SyPublishing => SyPublishing'
      BY <1>1 DEF SyPublishing, SyWal
    <2>4. QED BY <2>1, <2>2, <2>3 DEF SyInv, SyCycle, SyWal
  <1>5. SyDown'
    BY DEF SyInv, SyDown, SyWal, SY!Idle
  <1>6. QED BY <1>2, <1>3, <1>4, <1>5 DEF SyInv

(* A commit waits for everybody named.                                      *)
LEMMA SyCommit ==
  ASSUME SyInv, SyGiven, SY!Commit
  PROVE  SyInv'
  <1> DEFINE p == repl.primary
  <1>1. SyTypeOK /\ p \in Nodes
    BY SyFacts DEF SyInv, SY!Commit, SY!Up, SY!Primary
  <1>2. repl.wal[p] \in Nat /\ repl.acked \in Nat /\ \A n \in Nodes : repl.wal[n] \in Nat
    BY <1>1, SyFacts
  <1> DEFINE w == [repl.wal EXCEPT ![p] = repl.wal[p] + 1]
  <1>3. repl' = [repl EXCEPT !.wal = w] /\ sync' = sync /\ handler' = handler /\ cycle' = cycle
    BY DEF SY!Commit, SY!Primary
  <1>4. w \in [Nodes -> Nat] /\ \A n \in Nodes : repl.wal[n] >= repl.acked => w[n] >= repl.acked
    BY <1>1, <1>2, SyFacts
  <1> HIDE DEF p, w
  <1>5. SyTypeOK' /\ SyWal
    BY <1>1, <1>3, <1>4 DEF SyTypeOK, SyRepl, SyWal
  <1>6. QED BY <1>5, SyWalKeeps

(* A standby receives WAL.                                                  *)
LEMMA SyReplicate ==
  ASSUME SyInv, SyGiven, NEW n \in Nodes, SY!Replicate(n)
  PROVE  SyInv'
  <1>1. SyTypeOK
    BY DEF SyInv
  <1>2. repl.acked \in Nat /\ \A m \in Nodes : repl.wal[m] \in Nat
    BY <1>1, SyFacts
  <1> DEFINE w == [repl.wal EXCEPT ![n] = repl.wal[n] + 1]
  <1>3. repl' = [repl EXCEPT !.wal = w] /\ sync' = sync /\ handler' = handler /\ cycle' = cycle
    BY DEF SY!Replicate
  <1>4. w \in [Nodes -> Nat] /\ \A m \in Nodes : repl.wal[m] >= repl.acked => w[m] >= repl.acked
    BY <1>1, <1>2, SyFacts
  <1> HIDE DEF w
  <1>5. SyTypeOK' /\ SyWal
    BY <1>1, <1>3, <1>4 DEF SyTypeOK, SyRepl, SyWal
  <1>6. QED BY <1>5, SyWalKeeps

(* while_not_sync_standby(): a standby tells the primary not to count on    *)
(* it.                                                                      *)
LEMMA SyAnnounce ==
  ASSUME SyInv, SyGiven, NEW n \in Nodes, SY!WhileNotSyncStandby(n)
  PROVE  SyInv'
  <1>1. SyTypeOK
    BY DEF SyInv
  <1> DEFINE s == sync.nosync \cup {n}
             f == cycle.faults + 1
  <1>2. repl' = repl /\ sync' = [sync EXCEPT !.nosync = s] /\ handler' = handler /\ cycle' = [cycle EXCEPT !.faults = f]
    BY DEF SY!WhileNotSyncStandby
  <1>3. s \subseteq Nodes /\ f \in Nat
    BY <1>1, SyFacts
  <1> HIDE DEF s, f
  <1>4. SyTypeOK' /\ SyWal
    BY <1>1, <1>2, <1>3 DEF SyTypeOK, SySync, SyWal
  <1>5. QED BY <1>4, SyWalKeeps

(* A standby loses its connection.                                          *)
LEMMA SyDisconnect ==
  ASSUME SyInv, SyGiven, NEW n \in Nodes, SY!Disconnect(n)
  PROVE  SyInv'
  <1>1. SyTypeOK
    BY DEF SyInv
  <1> DEFINE s == repl.streaming \ {n}
             f == IF n \in sync.nosync THEN cycle.faults ELSE cycle.faults + 1
  <1>2. repl' = [repl EXCEPT !.streaming = s] /\ sync' = sync /\ handler' = handler /\ cycle' = [cycle EXCEPT !.faults = f]
    BY DEF SY!Disconnect
  <1>3. s \subseteq Nodes /\ f \in Nat
    BY <1>1, SyFacts
  <1> HIDE DEF s, f
  <1>4. SyTypeOK' /\ SyWal
    BY <1>1, <1>2, <1>3 DEF SyTypeOK, SyRepl, SyWal
  <1>5. QED BY <1>4, SyWalKeeps

(* What a standby has more than the primary was never acknowledged.         *)
LEMMA SyConnect ==
  ASSUME SyInv, SyGiven, NEW n \in Nodes, SY!Connect(n)
  PROVE  SyInv'
  <1> DEFINE p == repl.primary
             l == SY!Min({repl.wal[n], repl.wal[p]})
             w == [repl.wal EXCEPT ![n] = l]
             s == repl.streaming \cup {n}
             q == sync.nosync \ {n}
  <1>1. SyTypeOK /\ p \in Nodes
    BY SyFacts DEF SyInv, SY!Connect, SY!Up, SY!Primary
  <1>2. repl.wal[n] \in Nat /\ repl.wal[p] \in Nat /\ repl.acked \in Nat /\ repl.wal[p] >= repl.acked
    <2>1. sync.leader = p
      BY <1>1 DEF SyInv, SyKey, SyGiven
    <2>2. repl.wal[p] >= repl.acked
      BY <1>1, <2>1 DEF SyInv, SyKey, HaveCommits
    <2>3. QED BY <1>1, <2>2, SyFacts
  <1>3. repl' = [repl EXCEPT !.streaming = s, !.wal = w] /\ sync' = [sync EXCEPT !.nosync = q]
        /\ handler' = handler /\ cycle' = cycle
    BY DEF SY!Connect, SY!Primary
  <1>4. l \in Nat /\ (repl.wal[n] >= repl.acked => l >= repl.acked)
    <2>1. ASSUME NEW a \in Nat, NEW b \in Nat PROVE SY!Min({a, b}) \in {a, b}
      <3>1. \E x \in {a, b} : \A y \in {a, b} : x <= y
        <4>1. CASE a <= b
          BY <4>1
        <4>2. CASE b <= a
          BY <4>2
        <4>3. QED BY <4>1, <4>2
      <3>2. QED BY <3>1 DEF SY!Min
    <2>2. l \in {repl.wal[n], repl.wal[p]}
      BY <1>2, <2>1
    <2> HIDE DEF l
    <2>3. QED BY <1>2, <2>2
  <1> HIDE DEF l
  <1>5. /\ w \in [Nodes -> Nat] /\ s \subseteq Nodes /\ q \subseteq Nodes
        /\ \A m \in Nodes : repl.wal[m] >= repl.acked => w[m] >= repl.acked
    BY <1>1, <1>4, SyFacts
  <1> HIDE DEF p, w, s, q
  <1>6. SyTypeOK' /\ SyWal
    BY <1>1, <1>3, <1>5 DEF SyTypeOK, SyRepl, SySync, SyWal
  <1>7. QED BY <1>6, SyWalKeeps

(* A commit waits for everybody named, so the others the cycle has in mind  *)
(* have it as well.                                                         *)
LEMMA SyAcknowledge ==
  ASSUME SyInv, SyGiven, SY!Acknowledge
  PROVE  SyInv'
  <1> DEFINE a == repl.acked + 1
  <1>0. PICK p \in Nodes : p = repl.primary
    BY SyFacts DEF SyInv, SY!Acknowledge, SY!Up, SY!Primary
  <1>1. SyTypeOK /\ p # None
    BY <1>0 DEF SyInv, SyGiven
  <1>2. repl.acked \in Nat /\ a \in Nat /\ \A n \in Nodes : repl.wal[n] \in Nat
    BY <1>1, SyFacts
  <1>3. repl' = [repl EXCEPT !.acked = a] /\ sync' = sync /\ handler' = handler /\ cycle' = cycle
    BY DEF SY!Acknowledge
  <1>4. repl.wal[p] >= a /\ \A n \in repl.eff : n \in Nodes /\ repl.wal[n] >= a
    BY <1>0, <1>1, <1>2 DEF SY!Acknowledge, SY!Primary
  <1> HIDE DEF a
  <1>5. SyTypeOK'
    BY <1>1, <1>2, <1>3 DEF SyTypeOK, SyRepl
  <1>6. /\ repl'.ssn = repl.ssn /\ repl'.eff = repl.eff /\ repl'.primary = p /\ repl.primary = p
        /\ repl'.wal = repl.wal /\ repl'.acked = a
    BY <1>0, <1>1, <1>3 DEF SyTypeOK, SyRepl
  <1>7. ASSUME NEW S, S \subseteq repl.eff \cup {p} PROVE HaveCommits(S)'
    BY <1>4, <1>6, <1>7 DEF HaveCommits
  <1>8. SyKey'
    BY <1>1, <1>3, <1>6, <1>7 DEF SyInv, SyKey
  <1>9. SyReady'
    BY <1>3, <1>6, <1>7 DEF SyInv, SyReady
  <1>10. SyCycle'
    <2>1. SyReducing(p) => SyReducing(p)'
      BY <1>3, <1>6, <1>7 DEF SyReducing
    <2>2. SyExtending => SyExtending'
      BY <1>3, <1>6, <1>7 DEF SyExtending
    <2>3. SyPublishing => SyPublishing'
      BY <1>3, <1>6, <1>7 DEF SyPublishing
    <2>4. QED BY <1>3, <1>6, <2>1, <2>2, <2>3 DEF SyInv, SyCycle
  <1>11. QED BY <1>1, <1>5, <1>6, <1>8, <1>9, <1>10 DEF SyInv, SyDown

(* PostgreSQL applies synchronous_standby_names.                            *)
LEMMA SyReload ==
  ASSUME SyInv, SyGiven, SY!Reload
  PROVE  SyInv'
  <1>0. PICK p \in Nodes : p = repl.primary
    BY SyFacts DEF SyInv, SY!Reload, SY!Up, SY!Primary
  <1>1. SyTypeOK /\ p # None
    BY <1>0 DEF SyInv, SyGiven
  <1>2. repl' = [repl EXCEPT !.eff = repl.ssn] /\ sync' = sync /\ handler' = handler /\ cycle' = cycle
        /\ repl.eff # repl.ssn
    BY DEF SY!Reload
  <1>3. SyTypeOK'
    BY <1>1, <1>2 DEF SyTypeOK, SyRepl
  <1>4. /\ repl'.ssn = repl.ssn /\ repl'.eff = repl.ssn /\ repl'.primary = p /\ repl.primary = p
        /\ repl'.wal = repl.wal /\ repl'.acked = repl.acked
    BY <1>0, <1>1, <1>2 DEF SyTypeOK, SyRepl
  <1>5. ASSUME NEW S, HaveCommits(S) PROVE HaveCommits(S)'
    BY <1>4, <1>5 DEF HaveCommits
  <1>6. SyKey'
    BY <1>1, <1>2, <1>4, <1>5 DEF SyInv, SyKey
  <1>7. repl.eff = handler[p].seen /\ handler[p].ready \subseteq repl.eff /\ HaveCommits(handler[p].ready)
    <2>1. repl.eff = handler[p].seen /\ handler[p].ready \subseteq handler[p].seen
          /\ HaveCommits(handler[p].ready \cap repl.eff)
      BY <1>1, <1>2, <1>4 DEF SyInv, SyReady
    <2>2. QED BY <2>1 DEF HaveCommits
  <1>8. SyReady'
    <2>1. HaveCommits(handler[p].ready \cap repl.ssn)'
      BY <1>2, <1>4, <1>7 DEF HaveCommits
    <2>2. QED BY <1>1, <1>2, <1>4, <1>7, <2>1 DEF SyInv, SyReady
  <1>9. SyCycle'
    <2>1. SyReducing(p) => SyReducing(p)'
      BY <1>2, <1>4, <1>5, <1>7 DEF SyReducing
    <2>2. SyExtending => SyExtending'
      BY <1>2, <1>4, <1>5 DEF SyExtending
    <2>3. SyPublishing => SyPublishing'
      BY <1>2, <1>4, <1>5 DEF SyPublishing
    <2>4. QED BY <1>2, <1>4, <2>1, <2>2, <2>3 DEF SyInv, SyCycle
  <1>10. QED BY <1>1, <1>3, <1>4, <1>6, <1>8, <1>9 DEF SyInv, SyDown

(* The primary fails.                                                       *)
LEMMA SyFail ==
  ASSUME SyInv, SyGiven, SY!Fail
  PROVE  SyInv'
  <1> DEFINE f == cycle.faults + 1
  <1>1. SyTypeOK
    BY DEF SyInv
  <1>2. repl' = [repl EXCEPT !.primary = None, !.streaming = {}] /\ sync' = sync /\ handler' = handler
        /\ cycle' = [cycle EXCEPT !.faults = f, !.run = SY!Idle]
    BY DEF SY!Fail
  <1>3. f \in Nat /\ SY!Idle \in SyRun
    BY <1>1, SyFacts DEF SyRun, SY!Idle
  <1> HIDE DEF f
  <1>4. SyTypeOK' /\ cycle'.run = SY!Idle
    BY <1>1, <1>2, <1>3 DEF SyTypeOK, SyRepl
  <1>5. repl'.primary = None /\ repl'.wal = repl.wal /\ repl'.acked = repl.acked
    BY <1>1, <1>2 DEF SyTypeOK, SyRepl
  <1>6. SyKey'
    BY <1>1, <1>2, <1>5 DEF SyInv, SyKey, HaveCommits
  <1>7. SyReady' /\ SyCycle' /\ SyDown'
    BY <1>2, <1>4, <1>5 DEF SyInv, SyReady, SyCycle, SyDown, SyGiven
  <1>8. QED BY <1>4, <1>6, <1>7 DEF SyInv

(* Whoever is promoted has the commits, and waits for the others only if    *)
(* they have them, too.                                                     *)
LEMMA SyPrepromote ==
  ASSUME SyInv, SyGiven, NEW n \in Nodes, SY!ProcessMultisyncPrepromote(n)
  PROVE  SyInv'
  <1>0. PICK others, names : /\ others = IF cycle.strict THEN (sync.voters \cup {sync.leader}) \ {n} ELSE {}
                             /\ names = SY!Names(others, SY!MinSynchronousNodes)
    OBVIOUS
  <1>1. SyTypeOK /\ repl.primary = None /\ n \in sync.voters \cup {sync.leader}
    BY DEF SyInv, SY!ProcessMultisyncPrepromote, SY!Up, SY!Primary
  <1>2. /\ sync' = [sync EXCEPT !.leader = n, !.voters = others]
        /\ repl' = [repl EXCEPT !.primary = n, !.ssn = names, !.eff = names]
        /\ handler' = handler /\ cycle' = cycle
    BY <1>0 DEF SY!ProcessMultisyncPrepromote
  <1>3. others \subseteq Nodes /\ HaveCommits(others) /\ HaveCommits({n})
    BY <1>0, <1>1, SyFacts DEF SyInv, SyKey, HaveCommits
  <1>4. names \subseteq SyNames /\ others \subseteq names /\ names \subseteq others \cup {Placeholder}
    BY <1>0, <1>3 DEF SY!Names, SyNames
  <1>5. SyTypeOK' /\ sync'.leader = n /\ sync'.voters = others
    BY <1>1, <1>2, <1>3, <1>4 DEF SyTypeOK, SyRepl, SySync
  <1>6. repl'.primary = n /\ repl'.ssn = names /\ repl'.eff = names /\ repl'.wal = repl.wal /\ repl'.acked = repl.acked
    BY <1>1, <1>2 DEF SyTypeOK, SyRepl
  <1>7. HaveCommits(names)' /\ HaveCommits(others \cup {n})'
    BY <1>3, <1>4, <1>6 DEF HaveCommits, SyGiven
  <1>8. SyKey'
    BY <1>4, <1>5, <1>6, <1>7 DEF SyKey
  <1>9. SyReady'
    <2>1. HaveCommits(handler[n].ready \cap names)'
      BY <1>2, <1>7 DEF HaveCommits
    <2>2. QED BY <1>2, <1>6, <1>7, <2>1 DEF SyInv, SyReady
  <1>10. cycle'.run.step = "idle"
    BY <1>1, <1>2 DEF SyInv, SyDown, SY!Idle
  <1>11. SyCycle' /\ SyDown'
    BY <1>6, <1>10 DEF SyCycle, SyDown, SyGiven
  <1>12. QED BY <1>5, <1>8, <1>9, <1>11 DEF SyInv

(* A look of the primary's SyncHandler: whoever it holds to be synchronous  *)
(* has the commits.                                                         *)
SyLooked(h) ==
  /\ h \in SyHandler /\ h.seen = repl.eff /\ h.ready \subseteq repl.eff /\ HaveCommits(h.ready)
  /\ repl.acked <= h.flush \/ HaveCommits(repl.eff)

(* _handle_synchronous_standby_names_change() of the primary counts nobody  *)
(* who may lack a commit.                                                   *)
LEMMA SyChanged ==
  ASSUME SyInv, NEW p \in Nodes, repl.primary = p, p # None
  PROVE  SyLooked(SY!Changed(handler[p], repl.eff))
  <1>1. SyTypeOK /\ sync.leader = p /\ HaveCommits({p})
    BY DEF SyInv, SyKey, HaveCommits
  <1>2. CASE repl.eff = handler[p].seen
    <2>1. SY!Changed(handler[p], repl.eff) = handler[p]
      BY <1>2 DEF SY!Changed
    <2>2. handler[p].ready \subseteq repl.eff /\ HaveCommits(handler[p].ready \cap repl.eff)
          /\ (repl.acked <= handler[p].flush \/ HaveCommits(repl.eff))
      BY <1>2 DEF SyInv, SyReady
    <2>3. HaveCommits(handler[p].ready)
      BY <2>2 DEF HaveCommits
    <2>4. QED BY <1>1, <1>2, <2>1, <2>2, <2>3, SyFacts DEF SyLooked
  <1>3. CASE repl.eff # handler[p].seen
    <2> DEFINE h == [seen |-> repl.eff, flush |-> repl.wal[p], ready |-> handler[p].ready \cap repl.eff]
    <2>1. SY!Changed(handler[p], repl.eff) = h
      BY <1>3 DEF SY!Changed, SY!Primary
    <2>2. repl.eff \subseteq SyNames /\ repl.wal[p] \in Nat /\ handler[p].ready \subseteq Nodes /\ repl.acked \in Nat
      BY <1>1, SyFacts
    <2>3. h \in SyHandler
      BY <2>2 DEF SyHandler
    <2>4. h.seen = repl.eff /\ h.flush = repl.wal[p] /\ h.ready = handler[p].ready \cap repl.eff
      OBVIOUS
    <2> HIDE DEF h
    <2>5. HaveCommits(h.ready) /\ repl.acked <= h.flush
      BY <1>1, <2>2, <2>4 DEF HaveCommits, SyInv, SyReady
    <2>6. QED BY <2>1, <2>3, <2>4, <2>5 DEF SyLooked
  <1>4. QED BY <1>2, <1>3

(* current_state(): the standbys taken for synchronous have every           *)
(* acknowledged commit.                                                     *)
LEMMA SyLooks ==
  ASSUME SyInv, NEW p \in Nodes, repl.primary = p, p # None, NEW old \in SUBSET Nodes, HaveCommits(old \cap repl.eff)
  PROVE  SyLooked(SY!CurrentState(p, old))
  <1> DEFINE c == SY!Changed(handler[p], repl.eff)
             new == {n \in SY!Replicas \cap c.seen : n \in old \/ SY!CaughtUp(c, n)}
             r == c.ready \cup new
  <1>1. SyLooked(c) /\ SyTypeOK
    BY SyChanged DEF SyInv
  <1>2. SY!CurrentState(p, old) = [c EXCEPT !.ready = r]
    BY DEF SY!CurrentState, SY!Processed
  <1>3. new \subseteq Nodes /\ new \subseteq c.seen /\ \A n \in new : n \in old \/ repl.wal[n] >= c.flush
    BY <1>1, SyFacts DEF SY!Replicas, SY!CaughtUp
  <1> HIDE DEF c, new
  <1>4. c.seen = repl.eff /\ c.flush \in Nat /\ c.ready \subseteq Nodes /\ repl.acked \in Nat
        /\ c.ready \subseteq repl.eff /\ HaveCommits(c.ready)
        /\ \A n \in Nodes : repl.wal[n] \in Nat
    BY <1>1, SyFacts DEF SyLooked, SyHandler
  <1>5. HaveCommits(new)
    <2>1. CASE HaveCommits(repl.eff)
      BY <1>3, <1>4, <2>1 DEF HaveCommits
    <2>2. CASE repl.acked <= c.flush
      <3>1. ASSUME NEW n \in new PROVE repl.wal[n] >= repl.acked
        <4>1. CASE n \in old
          BY <1>3, <1>4, <4>1 DEF HaveCommits
        <4>2. CASE repl.wal[n] >= c.flush
          BY <1>3, <1>4, <2>2, <4>2
        <4>3. QED BY <1>3, <4>1, <4>2
      <3>2. QED BY <3>1 DEF HaveCommits
    <2>3. QED BY <1>1, <2>1, <2>2 DEF SyLooked
  <1>6. r \subseteq Nodes /\ r \subseteq repl.eff /\ HaveCommits(r)
    BY <1>3, <1>4, <1>5 DEF HaveCommits
  <1> HIDE DEF r
  <1> DEFINE h == [c EXCEPT !.ready = r]
  <1>7. h \in SyHandler /\ h.seen = c.seen /\ h.flush = c.flush /\ h.ready = r
    BY <1>1, <1>6 DEF SyLooked, SyHandler
  <1> HIDE DEF h
  <1>8. SyLooked(h)
    BY <1>1, <1>4, <1>6, <1>7 DEF SyLooked
  <1>9. QED BY <1>2, <1>8 DEF h

(* The look is kept, and only synchronous_standby_names may change besides. *)
LEMMA SyLookKept ==
  ASSUME SyInv, NEW p \in Nodes, repl.primary = p, NEW h, SyLooked(h), handler' = [handler EXCEPT ![p] = h],
         repl'.primary = p, repl'.eff = repl.eff, repl'.wal = repl.wal, repl'.acked = repl.acked
  PROVE  /\ SyReady' /\ handler' \in [Nodes -> SyHandler] /\ handler'[p] = h
         /\ \A S : HaveCommits(S) => HaveCommits(S)'
  <1>1. SyTypeOK
    BY DEF SyInv
  <1>2. handler' \in [Nodes -> SyHandler] /\ handler'[p] = h /\ \A n \in Nodes : n # p => handler'[n] = handler[n]
    BY <1>1 DEF SyLooked, SyTypeOK
  <1>3. ASSUME NEW S, HaveCommits(S) PROVE HaveCommits(S)'
    BY <1>3 DEF HaveCommits
  <1>4. HaveCommits(h.ready \cap repl.eff)
    BY DEF SyLooked, HaveCommits
  <1>5. SyReady'
    BY <1>2, <1>3, <1>4 DEF SyInv, SyReady, SyLooked
  <1>6. QED BY <1>2, <1>3, <1>5

(* A write of the /sync key, or an attempt that may have failed.            *)
LEMMA SyWritten ==
  ASSUME SyInv, repl'.primary # None, repl'.primary = repl.primary, NEW W \in SUBSET Nodes,
         W \subseteq repl.eff \cap repl.ssn, HaveCommits(W), repl' = repl, NEW then \in SyRun,
         SY!WriteSyncState(repl.primary, W, then)
  PROVE  /\ SyKey' /\ sync' \in SySync /\ cycle' \in [run : SyRun, strict : BOOLEAN, faults : Nat]
         /\ \/ cycle'.run = then /\ sync'.voters = W
            \/ cycle'.run = SY!Idle
  <1> DEFINE s == [sync EXCEPT !.leader = repl.primary, !.voters = W]
             f == cycle.faults + 1
  <1>1. SyTypeOK /\ repl.primary \in Nodes
    BY SyFacts DEF SyInv
  <1>2. s \in SySync /\ s.leader = repl.primary /\ s.voters = W /\ f \in Nat /\ SY!Idle \in SyRun
    <2>1. f \in Nat /\ SY!Idle \in SyRun
      BY <1>1, SyFacts DEF SyRun, SY!Idle
    <2>2. QED BY <1>1, <2>1 DEF SyTypeOK, SySync
  <1>3. \/ sync' = s /\ cycle' = [cycle EXCEPT !.run = then]
        \/ sync' \in {sync, s} /\ cycle' = [cycle EXCEPT !.run = SY!Idle, !.faults = f]
    BY DEF SY!WriteSyncState
  <1> HIDE DEF s, f
  <1>4. /\ sync' \in SySync /\ cycle' \in [run : SyRun, strict : BOOLEAN, faults : Nat]
        /\ \/ cycle'.run = then /\ sync'.voters = W
           \/ cycle'.run = SY!Idle
    BY <1>1, <1>2, <1>3 DEF SyTypeOK
  <1>5. HaveCommits({repl.primary} \cup W) /\ SyKey
    BY DEF SyInv, SyKey, HaveCommits
  <1>6. CASE sync' = s
    BY <1>2, <1>4, <1>5, <1>6 DEF SyKey, HaveCommits
  <1>7. CASE sync' = sync
    BY <1>4, <1>5, <1>7 DEF SyKey, HaveCommits
  <1>8. QED BY <1>3, <1>4, <1>6, <1>7

(* A cycle that only looked, was interrupted by an error or is finished.    *)
LEMMA SyIdle ==
  ASSUME SyTypeOK', SyKey', SyReady', repl'.primary # None, cycle'.run.step = "idle"
  PROVE  SyInv'
  BY DEF SyInv, SyCycle, SyDown

(* _process_multisync_replication() reads the /sync key and picks standbys. *)
LEMMA SyBegin ==
  ASSUME SyInv, SyGiven, SY!Begin
  PROVE  SyInv'
  <1>1. PICK p \in Nodes : p = repl.primary /\ p # None
    BY SyFacts DEF SyInv, SY!Begin, SY!Up, SY!Primary, SyGiven
  <1>2. PICK h : h = SY!CurrentState(p, sync.voters)
    OBVIOUS
  <1>3. SyTypeOK /\ HaveCommits(sync.voters) /\ sync.voters \subseteq repl.eff \cap repl.ssn
        /\ sync.leader = p /\ repl.eff = repl.ssn /\ cycle.run.step = "idle" /\ sync.voters \in SUBSET Nodes
    <2>1. HaveCommits(sync.voters \cup {sync.leader}) /\ SyTypeOK
      BY DEF SyInv, SyKey
    <2>2. HaveCommits(sync.voters)
      BY <2>1 DEF HaveCommits
    <2>3. QED BY <1>1, <2>1, <2>2, SyFacts DEF SyInv, SyKey, SyGiven, SY!Begin, SY!Reloaded
  <1>4. SyLooked(h)
    <2>1. HaveCommits(sync.voters \cap repl.eff)
      BY <1>3 DEF HaveCommits
    <2>2. QED BY <1>1, <1>2, <1>3, <2>1, SyLooks
  <1>5. handler' = [handler EXCEPT ![p] = h]
    BY <1>1, <1>2 DEF SY!Begin, SY!Primary
  <1>6. PICK picked \in SY!Picks :
          LET allow == SY!Confirmed(h, picked)
              run == [step |-> "reduce", old |-> sync.voters, voters |-> sync.voters, picked |-> picked, allow |-> allow]
              named == h.seen \ {Placeholder}
          IN
          \/ /\ picked = sync.voters /\ sync.voters # allow /\ UNCHANGED repl
             /\ SY!WriteSyncState(p, allow, [run EXCEPT !.voters = allow])
          \/ /\ UNCHANGED sync
             /\ \/ repl' = [repl EXCEPT !.ssn = SY!Names(sync.voters, 1)] /\ UNCHANGED cycle
                \/ /\ \/ picked = {} /\ sync.voters = {} /\ repl' = [repl EXCEPT !.ssn = {}]
                      \/ UNCHANGED repl
                   /\ UNCHANGED cycle \/ cycle' = [cycle EXCEPT !.run = run]
    BY <1>1, <1>2, Zenon DEF SY!Begin, SY!Primary
  <1>7. PICK allow : allow = SY!Confirmed(h, picked)
    OBVIOUS
  <1>8. picked \in SUBSET Nodes /\ allow \in SUBSET Nodes /\ allow \subseteq picked /\ allow \subseteq repl.eff \cap repl.ssn
        /\ HaveCommits(allow)
    <2>1. picked \in SUBSET Nodes
      BY <1>3, SyFacts DEF SY!Picks, SY!Replicas
    <2>2. QED BY <1>3, <1>4, <1>7, <2>1 DEF SY!Confirmed, SyLooked, HaveCommits
  <1>9. PICK run, run2 :
          /\ run = [step |-> "reduce", old |-> sync.voters, voters |-> sync.voters, picked |-> picked, allow |-> allow]
          /\ run2 = [step |-> "reduce", old |-> sync.voters, voters |-> allow, picked |-> picked, allow |-> allow]
    OBVIOUS
  <1>10. run \in SyRun /\ run2 \in SyRun
    BY <1>3, <1>8, <1>9 DEF SyRun
  <1>11. CASE UNCHANGED repl /\ SY!WriteSyncState(p, allow, run2)
    <2>1. repl'.primary # None /\ repl'.primary = repl.primary
      BY <1>1, <1>11
    <2>2. /\ SyKey' /\ sync' \in SySync /\ cycle' \in [run : SyRun, strict : BOOLEAN, faults : Nat]
          /\ \/ cycle'.run = run2 /\ sync'.voters = allow
             \/ cycle'.run = SY!Idle
      BY <1>1, <1>8, <1>10, <1>11, <2>1, SyWritten
    <2>3. SyReady' /\ handler' \in [Nodes -> SyHandler] /\ handler'[p] = h /\ \A S : HaveCommits(S) => HaveCommits(S)'
      BY <1>1, <1>4, <1>5, <1>11, SyLookKept
    <2>4. SyTypeOK'
      BY <1>3, <1>11, <2>2, <2>3 DEF SyTypeOK
    <2>5. CASE cycle'.run = SY!Idle
      BY <2>1, <2>2, <2>3, <2>4, <2>5, SyIdle DEF SY!Idle
    <2>6. CASE cycle'.run = run2 /\ sync'.voters = allow
      <3>1. HaveCommits(sync.voters \cup allow)
        BY <1>3, <1>8 DEF HaveCommits
      <3>2. SyReducing(p)'
        BY <1>3, <1>4, <1>8, <1>9, <1>11, <2>3, <2>6, <3>1 DEF SyReducing, SyLooked
      <3>3. SyCycle' /\ SyDown'
        BY <1>1, <1>8, <1>9, <1>11, <2>1, <2>6, <3>2 DEF SyCycle, SyDown, SyExtending, SyPublishing
      <3>4. QED BY <2>2, <2>3, <2>4, <3>3 DEF SyInv
    <2>7. QED BY <2>2, <2>5, <2>6
  <1>12. ASSUME NEW names \in SUBSET SyNames, sync.voters \subseteq names, sync' = sync,
                repl' = [repl EXCEPT !.ssn = names],
                cycle' = cycle \/ /\ cycle' = [cycle EXCEPT !.run = run]
                                  /\ names = repl.ssn \/ (names = {} /\ picked = {} /\ sync.voters = {})
         PROVE  SyInv'
    <2>1. /\ repl' \in SyRepl /\ repl'.primary = p /\ repl'.eff = repl.eff /\ repl'.wal = repl.wal
          /\ repl'.acked = repl.acked /\ repl'.ssn = names
      BY <1>1, <1>3, <1>12 DEF SyTypeOK, SyRepl
    <2>2. SyReady' /\ handler' \in [Nodes -> SyHandler] /\ handler'[p] = h /\ \A S : HaveCommits(S) => HaveCommits(S)'
      BY <1>1, <1>4, <1>5, <2>1, SyLookKept
    <2>3. SyTypeOK'
      BY <1>3, <1>10, <1>12, <2>1, <2>2 DEF SyTypeOK
    <2>4. SyKey'
      BY <1>1, <1>3, <1>12, <2>1, <2>2 DEF SyInv, SyKey
    <2>5. CASE cycle' = cycle
      BY <1>1, <1>3, <2>1, <2>2, <2>3, <2>4, <2>5, SyIdle
    <2>6. CASE /\ cycle' = [cycle EXCEPT !.run = run]
               /\ names = repl.ssn \/ (names = {} /\ picked = {} /\ sync.voters = {})
      <3>1. HaveCommits(sync.voters \cup allow)
        BY <1>3, <1>8 DEF HaveCommits
      <3>2. cycle'.run = run
        BY <1>3, <2>6 DEF SyTypeOK
      <3>3. SyReducing(p)'
        <4>1. /\ cycle'.run.old = sync.voters /\ cycle'.run.allow = allow /\ cycle'.run.picked = picked
              /\ handler'[p].seen = repl.eff
          BY <1>4, <1>9, <2>2, <3>2 DEF SyLooked
        <4>2. HaveCommits(sync.voters \cup allow)'
          BY <1>12, <2>1, <3>1 DEF HaveCommits
        <4>3. HaveCommits(cycle.run.old \cup cycle.run.allow)'
          BY <1>12, <4>1, <4>2 DEF HaveCommits
        <4>4. cycle'.run.old \cup cycle'.run.allow \subseteq repl'.eff \cap repl'.ssn
          BY <1>3, <1>8, <2>1, <2>6, <4>1
        <4>5. QED BY <1>3, <2>1, <2>6, <4>1, <4>3, <4>4 DEF SyReducing
      <3>4. SyCycle' /\ SyDown'
        BY <1>1, <1>8, <1>9, <1>12, <2>1, <3>2, <3>3 DEF SyCycle, SyDown, SyExtending, SyPublishing
      <3>5. QED BY <2>2, <2>3, <2>4, <3>4 DEF SyInv
    <2>7. QED BY <1>12, <2>5, <2>6
  <1>13. CASE sync' = sync /\ repl' = [repl EXCEPT !.ssn = SY!Names(sync.voters, 1)] /\ cycle' = cycle
    <2>1. SY!Names(sync.voters, 1) \in SUBSET SyNames /\ sync.voters \subseteq SY!Names(sync.voters, 1)
      BY <1>3 DEF SY!Names, SyNames
    <2>2. QED BY <1>12, <1>13, <2>1
  <1>14. CASE sync' = sync /\ repl' = [repl EXCEPT !.ssn = {}] /\ picked = {} /\ sync.voters = {}
              /\ (cycle' = cycle \/ cycle' = [cycle EXCEPT !.run = run])
    BY <1>12, <1>14
  <1>15. CASE sync' = sync /\ repl' = repl /\ (cycle' = cycle \/ cycle' = [cycle EXCEPT !.run = run])
    <2>1. repl' = [repl EXCEPT !.ssn = repl.ssn] /\ repl.ssn \in SUBSET SyNames
      BY <1>3, <1>15 DEF SyTypeOK, SyRepl
    <2>2. QED BY <1>3, <1>12, <1>15, <2>1
  <1>16. QED
    <2>1. [run EXCEPT !.voters = allow] = run2
      BY <1>9
    <2>2. QED BY <1>6, <1>7, <1>9, <1>11, <1>13, <1>14, <1>15, <2>1

(* The /sync key is reduced to the common nodes.                            *)
LEMMA SyReduce ==
  ASSUME SyInv, SyGiven, SY!Reduce
  PROVE  SyInv'
  <1>1. PICK p \in Nodes : p = repl.primary /\ p # None
    BY SyFacts DEF SyInv, SY!Reduce, SY!Up, SY!Primary, SyGiven
  <1>2. PICK run, common : run = cycle.run /\ common = run.voters \cap run.allow
    OBVIOUS
  <1>3. SyTypeOK /\ run.step = "reduce" /\ repl' = repl /\ handler' = handler
    BY <1>2 DEF SyInv, SY!Reduce
  <1>4. run \in SyRun /\ run.voters = sync.voters /\ run.allow \subseteq run.picked /\ SyReducing(p)
    BY <1>1, <1>2, <1>3, SyFacts DEF SyInv, SyCycle
  <1>5. PICK then : then = [run EXCEPT !.step = "assign", !.voters = common]
    OBVIOUS
  <1>6. /\ common \in SUBSET Nodes /\ then \in SyRun /\ then.step = "assign" /\ then.voters = common
        /\ then.old = run.old /\ then.allow = run.allow /\ then.picked = run.picked
    BY <1>2, <1>4, <1>5 DEF SyRun
  <1>7. HaveCommits(common) /\ common \subseteq repl.eff \cap repl.ssn /\ common \subseteq run.allow
    BY <1>2, <1>3, <1>4 DEF SyReducing, HaveCommits
  <1>8. SyReady'
    BY <1>3 DEF SyInv, SyReady, HaveCommits
  <1>9. ASSUME cycle'.run = then, sync'.voters = common, SyTypeOK', SyKey' PROVE SyInv'
    <2>1. SyReducing(p)'
      BY <1>2, <1>3, <1>4, <1>6, <1>9 DEF SyReducing, HaveCommits
    <2>2. SyCycle' /\ SyDown'
      BY <1>1, <1>3, <1>4, <1>6, <1>7, <1>9, <2>1 DEF SyCycle, SyDown, SyExtending, SyPublishing
    <2>3. QED BY <1>8, <1>9, <2>2 DEF SyInv
  <1>10. CASE common = run.voters
    <2>1. cycle' = [cycle EXCEPT !.run.step = "assign"] /\ sync' = sync
      BY <1>2, <1>10 DEF SY!Reduce
    <2>2. then = [run EXCEPT !.step = "assign"]
      BY <1>4, <1>5, <1>10 DEF SyRun
    <2>3. cycle' = [cycle EXCEPT !.run = then]
      BY <1>2, <2>1, <2>2
    <2>4. SyTypeOK' /\ cycle'.run = then
      BY <1>3, <1>6, <2>1, <2>3 DEF SyTypeOK
    <2>5. SyKey'
      BY <1>3, <2>1 DEF SyInv, SyKey, HaveCommits
    <2>6. QED BY <1>4, <1>9, <1>10, <2>1, <2>4, <2>5
  <1>11. CASE common # run.voters
    <2>1. SY!WriteSyncState(p, common, then)
      BY <1>1, <1>2, <1>5, <1>11 DEF SY!Reduce, SY!Primary
    <2>2. repl'.primary # None /\ repl'.primary = repl.primary
      BY <1>1, <1>3
    <2>3. /\ SyKey' /\ sync' \in SySync /\ cycle' \in [run : SyRun, strict : BOOLEAN, faults : Nat]
          /\ \/ cycle'.run = then /\ sync'.voters = common
             \/ cycle'.run = SY!Idle
      BY <1>1, <1>3, <1>6, <1>7, <2>1, <2>2, SyWritten
    <2>4. SyTypeOK'
      BY <1>3, <2>3 DEF SyTypeOK
    <2>5. CASE cycle'.run = SY!Idle
      BY <1>8, <2>2, <2>3, <2>4, <2>5, SyIdle DEF SY!Idle
    <2>6. QED BY <1>9, <2>3, <2>4, <2>5
  <1>12. QED BY <1>10, <1>11

(* synchronous_standby_names is set.                                        *)
LEMMA SyPublish ==
  ASSUME SyInv, SyGiven, SY!Publish
  PROVE  SyInv'
  <1>1. PICK p \in Nodes : p = repl.primary /\ p # None
    BY SyFacts DEF SyInv, SY!Publish, SY!Up, SY!Primary, SyGiven
  <1>2. PICK allow : allow = cycle.run.allow
    OBVIOUS
  <1>3. SyTypeOK /\ cycle.run.step = "publish" /\ repl' = repl /\ handler' = handler
    BY DEF SyInv, SY!Publish
  <1>4. allow \in SUBSET Nodes /\ allow \subseteq repl.eff \cap repl.ssn /\ HaveCommits(allow)
    BY <1>1, <1>2, <1>3, SyFacts DEF SyInv, SyCycle, SyPublishing
  <1>5. SyReady' /\ repl'.primary # None /\ repl'.primary = repl.primary
    BY <1>1, <1>3 DEF SyInv, SyReady, HaveCommits
  <1>6. SY!Idle \in SyRun /\ SY!Idle.step = "idle"
    BY DEF SyRun, SY!Idle
  <1>7. CASE cycle' = [cycle EXCEPT !.run = SY!Idle] /\ sync' = sync
    <2>1. SyTypeOK' /\ cycle'.run = SY!Idle
      BY <1>3, <1>6, <1>7 DEF SyTypeOK
    <2>2. SyKey'
      BY <1>3, <1>7 DEF SyInv, SyKey, HaveCommits
    <2>3. QED BY <1>5, <1>6, <2>1, <2>2, SyIdle
  <1>8. CASE SY!WriteSyncState(p, allow, SY!Idle)
    <2>1. /\ SyKey' /\ sync' \in SySync /\ cycle' \in [run : SyRun, strict : BOOLEAN, faults : Nat]
          /\ \/ cycle'.run = SY!Idle /\ sync'.voters = allow
             \/ cycle'.run = SY!Idle
      BY <1>1, <1>3, <1>4, <1>5, <1>6, <1>8, SyWritten
    <2>2. SyTypeOK'
      BY <1>3, <2>1 DEF SyTypeOK
    <2>3. QED BY <1>5, <1>6, <2>1, <2>2, SyIdle
  <1>9. QED BY <1>1, <1>2, <1>7, <1>8 DEF SY!Publish, SY!Primary

(* A second look, and the /sync key is extended to those that are           *)
(* synchronous by now.                                                      *)
LEMMA SyExtend ==
  ASSUME SyInv, SyGiven, SY!Extend
  PROVE  SyInv'
  <1>1. PICK p \in Nodes : p = repl.primary /\ p # None
    BY SyFacts DEF SyInv, SY!Extend, SY!Up, SY!Primary, SyGiven
  <1>2. PICK run : run = cycle.run
    OBVIOUS
  <1>3. SyTypeOK /\ run.step = "extend" /\ repl' = repl /\ sync' = sync /\ repl.eff = repl.ssn
    BY <1>2 DEF SyInv, SY!Extend, SY!Reloaded, SyGiven
  <1>4. /\ run \in SyRun /\ run.voters = sync.voters /\ run.old \in SUBSET Nodes /\ repl.ssn = run.picked
        /\ HaveCommits(run.old \cap repl.eff)
    BY <1>1, <1>2, <1>3, SyFacts DEF SyInv, SyCycle, SyExtending
  <1>5. PICK h : h = SY!CurrentState(p, run.old)
    OBVIOUS
  <1>6. SyLooked(h)
    BY <1>1, <1>4, <1>5, SyLooks
  <1>7. handler' = [handler EXCEPT ![p] = h]
    BY <1>1, <1>2, <1>5 DEF SY!Extend, SY!Primary
  <1>8. PICK allow : allow \subseteq h.seen \cap h.ready
                     /\ cycle' = [cycle EXCEPT !.run.step = "publish", !.run.allow = allow]
    <2>1. PICK picked \in SY!Picks :
            cycle' = [cycle EXCEPT !.run.step = "publish", !.run.allow = SY!Confirmed(h, picked)]
      BY <1>1, <1>2, <1>5 DEF SY!Extend, SY!Primary
    <2>2. QED BY <2>1 DEF SY!Confirmed
  <1>9. allow \in SUBSET Nodes /\ allow \subseteq repl.eff \cap repl.ssn /\ allow \subseteq run.picked /\ HaveCommits(allow)
    BY <1>3, <1>4, <1>6, <1>8 DEF SyLooked, SyHandler, HaveCommits
  <1>10. PICK then : then = [run EXCEPT !.step = "publish", !.allow = allow]
    OBVIOUS
  <1>11. /\ then \in SyRun /\ then.step = "publish" /\ then.allow = allow /\ then.voters = run.voters
         /\ then.picked = run.picked
    BY <1>4, <1>9, <1>10 DEF SyRun
  <1>12. cycle' = [cycle EXCEPT !.run = then]
    BY <1>2, <1>3, <1>8, <1>10 DEF SyTypeOK, SyRun
  <1>13. SyReady' /\ handler' \in [Nodes -> SyHandler]
    BY <1>1, <1>3, <1>6, <1>7, SyLookKept
  <1>14. SyTypeOK' /\ cycle'.run = then
    BY <1>3, <1>11, <1>12, <1>13 DEF SyTypeOK
  <1>15. SyKey'
    BY <1>3 DEF SyInv, SyKey, HaveCommits
  <1>16. SyPublishing'
    BY <1>3, <1>9, <1>11, <1>14 DEF SyPublishing, HaveCommits
  <1>17. SyCycle' /\ SyDown'
    BY <1>1, <1>3, <1>4, <1>9, <1>11, <1>14, <1>16 DEF SyCycle, SyDown, SyReducing, SyExtending
  <1>18. QED BY <1>13, <1>14, <1>15, <1>17 DEF SyInv

(* New standbys must catch up with what the primary has written so far,     *)
(* which is all that can be acknowledged.                                   *)
LEMMA SyAssign ==
  ASSUME SyInv, SyGiven, SY!Assign
  PROVE  SyInv'
  <1>1. PICK p \in Nodes : p = repl.primary /\ p # None
    BY SyFacts DEF SyInv, SY!Assign, SY!Up, SY!Primary, SyGiven
  <1>2. PICK run : run = cycle.run
    OBVIOUS
  <1>3. SyTypeOK /\ run.step = "assign" /\ sync' = sync
    BY <1>2 DEF SyInv, SY!Assign
  <1>4. PICK e : /\ e \in {run.picked, repl.eff} /\ repl' = [repl EXCEPT !.ssn = run.picked, !.eff = e]
                 /\ handler' = [handler EXCEPT ![p] = SY!Changed(handler[p], e)]
    BY <1>1, <1>2 DEF SY!Assign, SY!Primary
  <1>5. /\ run \in SyRun /\ run.voters = sync.voters /\ run.allow \subseteq run.picked /\ run.voters \subseteq run.allow
        /\ SyReducing(p) /\ run.picked \subseteq Nodes
    BY <1>1, <1>2, <1>3, SyFacts DEF SyInv, SyCycle
  <1>6. /\ run.old \cup run.allow \subseteq repl.eff \cap repl.ssn /\ HaveCommits(run.old \cup run.allow)
        /\ \/ handler[p].seen = repl.eff
           \/ run.picked = {} /\ repl.eff \in {handler[p].seen, {}}
    BY <1>2, <1>3, <1>5 DEF SyReducing
  <1>7. /\ handler[p].ready \subseteq handler[p].seen /\ HaveCommits(handler[p].ready \cap repl.eff)
        /\ (repl.eff = handler[p].seen => repl.acked <= handler[p].flush \/ HaveCommits(repl.eff))
        /\ handler[p] \in SyHandler
    BY <1>1, <1>3, SyFacts DEF SyInv, SyReady
  <1>8. /\ HaveCommits(handler[p].ready \cap e)
        /\ e = handler[p].seen => repl.acked <= handler[p].flush \/ HaveCommits(e)
    <2>1. CASE e = {}
      BY <2>1 DEF HaveCommits
    <2>2. CASE e # {}
      BY <1>4, <1>6, <1>7, <2>2 DEF HaveCommits
    <2>3. QED BY <2>1, <2>2
  <1>9. PICK h : h = SY!Changed(handler[p], e)
    OBVIOUS
  <1>10. /\ h \in SyHandler /\ h.seen = e /\ h.ready \subseteq e /\ HaveCommits(h.ready)
         /\ repl.acked <= h.flush \/ HaveCommits(e)
    <2>1. CASE e = handler[p].seen
      <3>1. h = handler[p]
        BY <1>9, <2>1 DEF SY!Changed
      <3>2. QED BY <1>7, <1>8, <2>1, <3>1 DEF HaveCommits
    <2>2. CASE e # handler[p].seen
      <3>1. h = [seen |-> e, flush |-> repl.wal[p], ready |-> handler[p].ready \cap e]
        BY <1>1, <1>9, <2>2 DEF SY!Changed, SY!Primary
      <3>2. e \subseteq SyNames /\ repl.wal[p] \in Nat /\ handler[p].ready \subseteq Nodes /\ repl.acked \in Nat
        BY <1>3, <1>4, <1>5, SyFacts DEF SyNames
      <3>3. h \in SyHandler /\ h.seen = e /\ h.flush = repl.wal[p] /\ h.ready = handler[p].ready \cap e
        BY <3>1, <3>2 DEF SyHandler
      <3>4. repl.wal[p] >= repl.acked
        BY <1>1 DEF SyInv, SyKey, HaveCommits
      <3>5. repl.acked <= h.flush
        BY <3>2, <3>3, <3>4
      <3>6. QED BY <1>8, <3>3, <3>5
    <2>3. QED BY <2>1, <2>2
  <1>11. /\ repl' \in SyRepl /\ repl'.primary = p /\ repl'.wal = repl.wal /\ repl'.acked = repl.acked
         /\ repl'.ssn = run.picked /\ repl'.eff = e
    BY <1>1, <1>3, <1>4, <1>5 DEF SyTypeOK, SyRepl, SyNames
  <1>12. handler' \in [Nodes -> SyHandler] /\ handler'[p] = h /\ \A n \in Nodes : n # p => handler'[n] = handler[n]
    BY <1>3, <1>4, <1>9, <1>10 DEF SyTypeOK
  <1>13. ASSUME NEW S, HaveCommits(S) PROVE HaveCommits(S)'
    BY <1>11, <1>13 DEF HaveCommits
  <1>14. SyReady'
    <2>1. HaveCommits(h.ready \cap e)
      BY <1>10 DEF HaveCommits
    <2>2. QED BY <1>10, <1>11, <1>12, <1>13, <2>1 DEF SyInv, SyReady
  <1>15. SyKey'
    BY <1>1, <1>3, <1>4, <1>5, <1>6, <1>11, <1>13 DEF SyInv, SyKey
  <1>16. PICK then : /\ then \in {[run EXCEPT !.step = "publish"], [run EXCEPT !.step = "extend"]}
                     /\ cycle' = [cycle EXCEPT !.run = then]
    BY <1>2 DEF SY!Assign
  <1>17. /\ then \in SyRun /\ then.step \in {"publish", "extend"} /\ then.old = run.old /\ then.voters = run.voters
         /\ then.picked = run.picked /\ then.allow = run.allow
    BY <1>5, <1>16 DEF SyRun
  <1>18. SyTypeOK' /\ cycle'.run = then
    BY <1>3, <1>11, <1>12, <1>16, <1>17 DEF SyTypeOK
  <1>19. run.old \cap run.picked \subseteq e /\ run.allow \subseteq e
         /\ HaveCommits(run.old \cap run.picked) /\ HaveCommits(run.allow)
    BY <1>4, <1>5, <1>6 DEF HaveCommits
  <1>20. SyExtending' /\ SyPublishing'
    BY <1>5, <1>11, <1>13, <1>17, <1>18, <1>19 DEF SyExtending, SyPublishing
  <1>21. SyCycle' /\ SyDown'
    BY <1>1, <1>3, <1>5, <1>11, <1>17, <1>18, <1>20 DEF SyCycle, SyDown, SyReducing
  <1>22. QED BY <1>14, <1>15, <1>18, <1>21 DEF SyInv

(* A cluster begins with nothing acknowledged.                              *)
LEMMA SyStart ==
  ASSUME SyGiven, SY!SyInit
  PROVE  SyInv
  <1>1. PICK s \in BOOLEAN : cycle = [run |-> SY!Idle, strict |-> s, faults |-> 0]
    BY DEF SY!SyInit, SyGiven
  <1>2. SY!Idle \in SyRun /\ SY!Idle.step = "idle"
    BY DEF SyRun, SY!Idle
  <1>3. cycle \in [run : SyRun, strict : BOOLEAN, faults : Nat] /\ cycle.run = SY!Idle
    BY <1>1, <1>2
  <1>4. repl \in SyRepl /\ sync \in SySync /\ handler \in [Nodes -> SyHandler]
    BY DEF SY!SyInit, SyGiven, SyRepl, SySync, SyHandler, SyNames
  <1>5. /\ repl.acked = 0 /\ repl.primary = First /\ repl.ssn = {} /\ repl.eff = {} /\ \A n \in Nodes : repl.wal[n] = 0
        /\ sync.leader = First /\ sync.voters = {}
        /\ \A n \in Nodes : handler[n].seen = {} /\ handler[n].ready = {} /\ handler[n].flush = 0
    BY DEF SY!SyInit
  <1>6. \A S : HaveCommits(S)
    BY <1>5 DEF HaveCommits
  <1>7. SyKey /\ SyReady
    BY <1>5, <1>6 DEF SyKey, SyReady
  <1>8. SyCycle /\ SyDown
    BY <1>2, <1>3, <1>5 DEF SyCycle, SyDown, SyGiven
  <1>9. QED BY <1>3, <1>4, <1>7, <1>8 DEF SyInv, SyTypeOK

(* Every step of synchronous replication keeps the invariant.               *)
LEMMA SyStep ==
  ASSUME SyGiven, SyInv, [SY!SyNext]_(SY!syVars)
  PROVE  SyInv'
  <1>1. CASE UNCHANGED <<repl, sync, handler, cycle>>
    BY <1>1 DEF SyInv, SyTypeOK, SyKey, SyReady, SyCycle, SyReducing, SyExtending, SyPublishing, SyDown, HaveCommits,
                SY!Idle
  <1>2. CASE SY!SyNext
    BY <1>2, SyBegin, SyReduce, SyAssign, SyExtend, SyPublish, SyCommit, SyAcknowledge, SyReload, SyFail,
       SyReplicate, SyAnnounce, SyDisconnect, SyConnect, SyPrepromote DEF SY!SyNext, SY!MultisyncCycle
  <1>3. QED BY <1>1, <1>2 DEF SY!syVars

(* SyncHasCommits of the module on its own.                                 *)
LEMMA MultiSyncProved ==
  ASSUME SlowReload = FALSE, Placeholder \notin Nodes, None \notin Nodes, First \in Nodes, Strict \subseteq BOOLEAN
  PROVE  SY!SySpec => []SY!SyncHasCommits
  <1>1. SyGiven
    BY DEF SyGiven
  <1>2. SY!SyInit => SyInv
    BY <1>1, SyStart
  <1>3. SyInv /\ [SY!SyNext]_(SY!syVars) => SyInv'
    BY <1>1, SyStep
  <1>4. SyInv => SY!SyncHasCommits
    BY SyFacts DEF SyInv, SyKey, HaveCommits, SY!SyncHasCommits
  <1>5. QED BY <1>2, <1>3, <1>4, PTL DEF SY!SySpec

(* Whoever the /sync key names, the leader included, has every commit a     *)
(* client was told of, so that _process_multisync_prepromote() promotes     *)
(* only nodes without loss; for any number of standbys, strict or not,      *)
(* whichever steps fail, if PostgreSQL reloads within the two seconds       *)
(* Patroni gives it.                                                        *)
THEOREM VotersHaveCommits ==
  ASSUME SlowReload = FALSE, Placeholder \notin Nodes, None \notin Nodes, First \in Nodes, Strict \subseteq BOOLEAN
  PROVE  Spec => []SyncHasCommits
  <1> DEFINE Here == part = "multisync"
  <1>1. Init /\ Here => SY!SyInit
    BY DEF Init
  <1>2. Here /\ [Next]_vars => Here' /\ [SY!SyNext]_(SY!syVars)
    BY DEF Next, vars, syVars, SY!syVars
  <1>3. ~Here /\ [Next]_vars => ~Here'
    BY DEF Next, vars
  <1>4. SY!SySpec => []SY!SyncHasCommits
    BY MultiSyncProved
  <1>5. (Here => SY!SyncHasCommits) => SyncHasCommits
    BY DEF SyncHasCommits
  <1> HIDE DEF Here
  <1>6. QED BY <1>1, <1>2, <1>3, <1>4, <1>5, PTL DEF Spec, SY!SySpec


-----------------------------------------------------------------------------
(* The health checks of the REST API.                                       *)

HcNodes == [pg : {"running", "stopped", "starting", "stopping"}, role : {"primary", "replica", "standby_leader"},
            lsn : Nat, expiry : 0..Ttl, sent : BOOLEAN, promoting : BOOLEAN, since : Nat,
            view : [lsn : Nat] \cup {None}]
HcKeys == [owner : Pair \cup {None}, left : 0..Ttl, lsn : Nat, sync : SUBSET {Second}, standby : BOOLEAN,
           paused : BOOLEAN, reach : SUBSET Pair, faults : Nat, calm : BOOLEAN]

HcTypeOK == hk \in HcKeys /\ hn \in [Pair -> HcNodes]

(* _leader_expiry ends with the leader key at the latest, an answer that is *)
(* still to come is about a key that was just renewed, and the owner of the *)
(* key had a cycle in its ttl.                                              *)
HcLease ==
  /\ hk.owner # None => hk.left > 0
  /\ \A n \in Pair : /\ hn[n].expiry > 0 => hk.owner = n /\ hn[n].expiry <= hk.left
                     /\ hn[n].sent => hk.owner = n /\ hk.left = Ttl
                     /\ hk.owner = n => hk.left + hn[n].since <= Ttl

(* In pause nobody takes the place of the first primary.                    *)
HcPaused ==
  hk.paused => /\ hk.owner \in {First, None}
               /\ \A n \in Pair : hn[n].role # "replica" \/ hn[n].promoting => n = First

HcInv == HcTypeOK /\ HcLease /\ HcPaused

HcGiven == Ttl \in Nat \ {0} /\ LoopWait \in Nat /\ MaxOutages \in Nat /\ None \notin Pair /\ First \in Pair

(* The larger and the smaller of two numbers.                               *)
LEMMA HcMaxMin ==
  ASSUME NEW a \in Nat, NEW b \in Nat
  PROVE  /\ HC!Max({a, b}) = IF a >= b THEN a ELSE b
         /\ HC!Min({a, b}) = IF a <= b THEN a ELSE b
  <1>1. HC!Max({a, b}) = IF a >= b THEN a ELSE b
    BY DEF HC!Max
  <1>2. HC!Min({a, b}) = IF a <= b THEN a ELSE b
    BY DEF HC!Min
  <1>3. QED BY <1>1, <1>2

(* A step of node n after which it is h; it may renew its key or take a     *)
(* free one.                                                                *)
HcTurn(n, h) ==
  /\ h \in HcNodes /\ hn' = [hn EXCEPT ![n] = h]
  /\ hk' \in HcKeys /\ hk'.paused = hk.paused
  /\ \/ hk'.owner = hk.owner /\ (hk'.left = hk.left \/ (hk.owner = n /\ hk'.left = Ttl))
     \/ hk.owner = None /\ hk'.owner = n /\ hk'.left = Ttl /\ (hk.paused => n = First)
  /\ h.expiry > 0 => hk'.owner = n /\ h.expiry <= hk'.left
  /\ h.sent => hk'.owner = n /\ hk'.left = Ttl
  /\ hk'.owner = n => hk'.left + h.since <= Ttl
  /\ hk.paused /\ (h.role # "replica" \/ h.promoting) => n = First

(* Such a step preserves the invariant.                                     *)
LEMMA HcTurnKeeps ==
  ASSUME HcGiven, HcInv, NEW n \in Pair, NEW h, HcTurn(n, h)
  PROVE  HcInv'
  <1>1. hn'[n] = h /\ \A m \in Pair : m # n => hn'[m] = hn[m]
    BY DEF HcInv, HcTypeOK, HcTurn
  <1>2. HcTypeOK'
    BY DEF HcInv, HcTypeOK, HcTurn
  <1>3. HcLease'
    <2>1. hk'.owner # None => hk'.left > 0
      BY DEF HcTurn, HcGiven, HcInv, HcLease
    <2>2. ASSUME NEW m \in Pair
          PROVE  /\ hn'[m].expiry > 0 => hk'.owner = m /\ hn'[m].expiry <= hk'.left
                 /\ hn'[m].sent => hk'.owner = m /\ hk'.left = Ttl
                 /\ hk'.owner = m => hk'.left + hn'[m].since <= Ttl
      <3>1. CASE m = n
        BY <1>1, <3>1 DEF HcTurn
      <3>2. CASE m # n
        <4>1. hn'[m] = hn[m] /\ m # None
          BY <1>1, <3>2 DEF HcGiven
        <4>2. /\ hn[m].expiry > 0 => hk.owner = m /\ hn[m].expiry <= hk.left
              /\ hn[m].sent => hk.owner = m /\ hk.left = Ttl
              /\ hk.owner = m => hk.left + hn[m].since <= Ttl
          BY DEF HcInv, HcLease
        <4>3. (hk.owner = m \/ hk'.owner = m) => hk'.owner = hk.owner /\ hk'.left = hk.left
          BY <3>2, <4>1 DEF HcTurn
        <4>4. QED BY <4>1, <4>2, <4>3
      <3>3. QED BY <3>1, <3>2
    <2>3. QED BY <2>1, <2>2 DEF HcLease
  <1>4. HcPaused'
    BY <1>1 DEF HcInv, HcPaused, HcTurn
  <1>5. QED BY <1>2, <1>3, <1>4 DEF HcInv

(* What the invariant says of one node.                                     *)
LEMMA HcFacts ==
  ASSUME HcGiven, HcInv, NEW n \in Pair
  PROVE  /\ hn[n] \in HcNodes /\ hk \in HcKeys /\ n # None
         /\ hn[n].expiry \in Nat /\ hn[n].since \in Nat /\ hk.left \in Nat /\ hk.left <= Ttl /\ Ttl \in Nat
         /\ hk.owner # None => hk.left > 0
         /\ hn[n].expiry > 0 => hk.owner = n /\ hn[n].expiry <= hk.left
         /\ hn[n].sent => hk.owner = n /\ hk.left = Ttl
         /\ hk.owner = n => hk.left + hn[n].since <= Ttl
         /\ hk.paused => hk.owner \in {First, None}
         /\ hk.paused /\ (hn[n].role # "replica" \/ hn[n].promoting) => n = First
  <1>1. hn[n] \in HcNodes /\ hk \in HcKeys /\ n # None /\ Ttl \in Nat
    BY DEF HcInv, HcTypeOK, HcGiven
  <1>2. hn[n].expiry \in Nat /\ hn[n].since \in Nat /\ hk.left \in Nat /\ hk.left <= Ttl
    BY <1>1 DEF HcNodes, HcKeys
  <1>3. QED BY <1>1, <1>2 DEF HcInv, HcLease, HcPaused

(* A step that leaves the keys alone and does not make a leader.            *)
LEMMA HcQuietKeeps ==
  ASSUME HcGiven, HcInv, NEW n \in Pair, NEW h \in HcNodes, hn' = [hn EXCEPT ![n] = h], hk' = hk,
         h.expiry \in {0, hn[n].expiry}, h.sent => hn[n].sent, h.since \in {0, hn[n].since},
         h.role \in {"replica", hn[n].role} \/ hn[n].promoting, h.promoting => hn[n].promoting
  PROVE  HcInv'
  <1>1. HcTurn(n, h)
    BY HcFacts DEF HcTurn
  <1>2. QED BY <1>1, HcTurnKeeps

(* The cycle of the leader, and the answer to update_leader().              *)
LEMMA HcLeaderSteps ==
  ASSUME HcGiven, HcInv, NEW n \in Pair, HC!UpdateLock(n) \/ HC!Answer(n) \/ HC!AcquireLock(n)
  PROVE  HcInv'
  <1>1. /\ hn[n] \in HcNodes /\ hk \in HcKeys /\ Ttl \in 0..Ttl /\ Ttl + 0 <= Ttl
    BY HcFacts DEF HcGiven
  <1>2. CASE HC!UpdateLock(n)
    <2> DEFINE h == [[hn[n] EXCEPT !.view = [lsn |-> hk.lsn], !.since = 0] EXCEPT !.sent = TRUE]
               k == [hk EXCEPT !.left = Ttl, !.lsn = IF hn[n].pg = "running" THEN hn[n].lsn ELSE @]
    <2>1. hk' = k /\ hn' = [hn EXCEPT ![n] = h] /\ hk.owner = n
      BY <1>1, <1>2 DEF HC!UpdateLock, HC!Seen, HC!Holds, HcNodes
    <2>2. h \in HcNodes /\ h.expiry = hn[n].expiry /\ h.since = 0 /\ h.role = hn[n].role /\ h.promoting = hn[n].promoting
      BY <1>1 DEF HcNodes, HcKeys
    <2>3. k \in HcKeys /\ k.owner = hk.owner /\ k.left = Ttl /\ k.paused = hk.paused
      BY <1>1 DEF HcNodes, HcKeys
    <2> HIDE DEF h, k
    <2>4. HcTurn(n, h)
      BY <1>1, <2>1, <2>2, <2>3, HcFacts DEF HcTurn
    <2>5. QED BY <2>4, HcTurnKeeps
  <1>3. CASE HC!Answer(n)
    <2> DEFINE h == [[hn[n] EXCEPT !.expiry = Ttl] EXCEPT
                       !.sent = FALSE, !.pg = IF hn[n].pg = "stopped" THEN "starting" ELSE hn[n].pg,
                       !.promoting = hn[n].pg = "running" /\ hn[n].role = "replica"]
    <2>1. hk' = hk /\ hn' = [hn EXCEPT ![n] = h] /\ hn[n].sent
      BY <1>3 DEF HC!Answer, HC!SetIsLeader
    <2>2. h \in HcNodes /\ h.expiry = Ttl /\ ~h.sent /\ h.since = hn[n].since /\ h.role = hn[n].role
      BY <1>1 DEF HcNodes
    <2> HIDE DEF h
    <2>3. hk.owner = n /\ hk.left = Ttl
      BY <2>1, HcFacts
    <2>4. HcTurn(n, h)
      BY <1>1, <2>1, <2>2, <2>3, HcFacts DEF HcTurn
    <2>5. QED BY <2>4, HcTurnKeeps
  <1>4. CASE HC!AcquireLock(n)
    <2> DEFINE h == [[[hn[n] EXCEPT !.view = [lsn |-> hk.lsn], !.since = 0, !.expiry = 0] EXCEPT !.expiry = Ttl]
                      EXCEPT !.promoting = hn[n].role = "replica"]
               k == [hk EXCEPT !.owner = n, !.left = Ttl, !.sync = @ \ {n}]
    <2>1. hk' = k /\ hn' = [hn EXCEPT ![n] = h] /\ hk.owner = None /\ (hk.paused => hn[n].role = "primary") /\ ~hn[n].sent
      BY <1>1, <1>4, HcFacts DEF HC!AcquireLock, HC!Seen, HC!SetIsLeader, HC!Holds, HC!Cycles
    <2>2. h \in HcNodes /\ h.expiry = Ttl /\ h.sent = hn[n].sent /\ h.since = 0 /\ h.role = hn[n].role
      BY <1>1 DEF HcNodes, HcKeys
    <2>3. k \in HcKeys /\ k.owner = n /\ k.left = Ttl /\ k.paused = hk.paused
      BY <1>1 DEF HcNodes, HcKeys
    <2> HIDE DEF h, k
    <2>4. hk.paused => n = First
      BY <2>1, HcFacts
    <2>5. HcTurn(n, h)
      BY <1>1, <2>1, <2>2, <2>3, <2>4 DEF HcTurn
    <2>6. QED BY <2>5, HcTurnKeeps
  <1>5. QED BY <1>2, <1>3, <1>4

(* The steps that leave the keys alone.                                     *)
LEMMA HcOtherSteps ==
  ASSUME HcGiven, HcInv, NEW n \in Pair,
         HC!Deposed(n) \/ HC!ReplicaCycle(n) \/ HC!HandleDcsError(n) \/ HC!StoppedByDemote(n) \/ HC!Started(n)
           \/ HC!Promoted(n) \/ HC!Write(n) \/ HC!Replay(n)
  PROVE  HcInv'
  <1>1. hn[n] \in HcNodes /\ hk \in HcKeys /\ 0 \in 0..Ttl
    BY HcFacts DEF HcGiven
  <1>2. CASE HC!Deposed(n)
    <2> DEFINE h == [[hn[n] EXCEPT !.view = [lsn |-> hk.lsn], !.since = 0, !.expiry = 0] EXCEPT
                       !.pg = "starting", !.role = "replica", !.promoting = FALSE]
    <2>1. hk' = hk /\ hn' = [hn EXCEPT ![n] = h]
      BY <1>2 DEF HC!Deposed, HC!Seen, HC!Holds
    <2>2. h \in HcNodes /\ h.expiry = 0 /\ h.sent = hn[n].sent /\ h.since = 0 /\ h.role = "replica" /\ ~h.promoting
      BY <1>1 DEF HcNodes, HcKeys
    <2> HIDE DEF h
    <2>3. QED BY <2>1, <2>2, HcQuietKeeps
  <1>3. CASE HC!ReplicaCycle(n)
    <2> DEFINE h == [[hn[n] EXCEPT !.view = [lsn |-> hk.lsn], !.since = 0, !.expiry = 0] EXCEPT
                       !.promoting = FALSE, !.pg = IF hn[n].pg = "stopped" /\ ~hk.paused THEN "starting" ELSE hn[n].pg]
    <2>1. hk' = hk /\ hn' = [hn EXCEPT ![n] = h]
      BY <1>3 DEF HC!ReplicaCycle, HC!Seen, HC!Holds
    <2>2. h \in HcNodes /\ h.expiry = 0 /\ h.sent = hn[n].sent /\ h.since = 0 /\ h.role = hn[n].role /\ ~h.promoting
      BY <1>1 DEF HcNodes, HcKeys
    <2> HIDE DEF h
    <2>3. QED BY <2>1, <2>2, HcQuietKeeps
  <1>4. CASE HC!HandleDcsError(n)
    <2> DEFINE pg == IF hn[n].pg = "running" /\ hn[n].role # "replica" /\ ~hk.paused THEN "stopping"
                     ELSE IF hn[n].pg = "stopped" /\ ~hk.paused /\ hn[n].role = "replica" THEN "starting"
                     ELSE hn[n].pg
               h == [hn[n] EXCEPT !.view = None, !.since = 0, !.sent = FALSE, !.promoting = FALSE, !.pg = pg]
    <2>1. hk' = hk /\ hn' = [hn EXCEPT ![n] = h]
      BY <1>4 DEF HC!HandleDcsError
    <2>2. pg \in {"running", "stopped", "starting", "stopping"}
      BY <1>1 DEF HcNodes
    <2> HIDE DEF pg
    <2>3. /\ h \in HcNodes /\ h.expiry = hn[n].expiry /\ ~h.sent /\ h.since = 0 /\ h.role = hn[n].role
          /\ ~h.promoting
      BY <1>1, <2>2 DEF HcNodes
    <2> HIDE DEF h
    <2>4. QED BY <2>1, <2>3, HcQuietKeeps
  <1>5. CASE HC!StoppedByDemote(n)
    <2> DEFINE h == [[hn[n] EXCEPT !.expiry = 0] EXCEPT !.pg = "starting", !.role = "replica"]
    <2>1. hk' = hk /\ hn' = [hn EXCEPT ![n] = h]
      BY <1>5 DEF HC!StoppedByDemote, HC!SetIsLeader
    <2>2. /\ h \in HcNodes /\ h.expiry = 0 /\ h.sent = hn[n].sent /\ h.since = hn[n].since /\ h.role = "replica"
          /\ h.promoting = hn[n].promoting
      BY <1>1 DEF HcNodes
    <2> HIDE DEF h
    <2>3. QED BY <2>1, <2>2, HcQuietKeeps
  <1>6. CASE HC!Started(n)
    <2> DEFINE h == [hn[n] EXCEPT !.pg = "running"]
    <2>1. hk' = hk /\ hn' = [hn EXCEPT ![n] = h]
      BY <1>6 DEF HC!Started, HcInv, HcTypeOK
    <2>2. /\ h \in HcNodes /\ h.expiry = hn[n].expiry /\ h.sent = hn[n].sent /\ h.since = hn[n].since
          /\ h.role = hn[n].role /\ h.promoting = hn[n].promoting
      BY <1>1 DEF HcNodes
    <2> HIDE DEF h
    <2>3. QED BY <2>1, <2>2, HcQuietKeeps
  <1>7. CASE HC!Promoted(n)
    <2> DEFINE h == [hn[n] EXCEPT !.promoting = FALSE, !.role = IF hk.standby THEN "standby_leader" ELSE "primary"]
    <2>1. hk' = hk /\ hn' = [hn EXCEPT ![n] = h] /\ hn[n].promoting
      BY <1>7 DEF HC!Promoted, HcInv, HcTypeOK
    <2>2. /\ h \in HcNodes /\ h.expiry = hn[n].expiry /\ h.sent = hn[n].sent /\ h.since = hn[n].since
          /\ ~h.promoting
      BY <1>1 DEF HcNodes
    <2> HIDE DEF h
    <2>3. QED BY <2>1, <2>2, HcQuietKeeps
  <1>8. CASE HC!Write(n) \/ HC!Replay(n)
    <2> DEFINE h == [hn[n] EXCEPT !.lsn = hn[n].lsn + 1]
    <2>1. hk' = hk /\ hn' = [hn EXCEPT ![n] = h]
      BY <1>8 DEF HC!Write, HC!Replay, HcInv, HcTypeOK
    <2>2. hn[n].lsn + 1 \in Nat
      BY <1>1 DEF HcNodes
    <2>3. /\ h \in HcNodes /\ h.expiry = hn[n].expiry /\ h.sent = hn[n].sent /\ h.since = hn[n].since
          /\ h.role = hn[n].role /\ h.promoting = hn[n].promoting
      BY <1>1, <2>2 DEF HcNodes
    <2> HIDE DEF h
    <2>4. QED BY <2>1, <2>3, HcQuietKeeps
  <1>9. QED BY <1>2, <1>3, <1>4, <1>5, <1>6, <1>7, <1>8

(* Time passes: the key and every _leader_expiry get older together.        *)
LEMMA HcTickKeeps ==
  ASSUME HcGiven, HcInv, HC!Tick
  PROVE  HcInv'
  <1> DEFINE k == [hk EXCEPT !.left = HC!Max({1, @}) - 1, !.owner = IF hk.left <= 1 THEN None ELSE @]
             h(n) == [hn[n] EXCEPT !.expiry = HC!Max({1, @}) - 1, !.since = HC!Min({@ + 1, HC!Forever})]
  <1>1. hk' = k /\ hn' = [n \in Pair |-> h(n)] /\ \A n \in Pair : ~hn[n].sent
    BY DEF HC!Tick
  <1>2. hk \in HcKeys /\ hk.left \in 0..Ttl /\ Ttl \in Nat \ {0} /\ 1 \in Nat
    BY DEF HcInv, HcTypeOK, HcKeys, HcGiven
  <1>3. HC!Max({1, hk.left}) - 1 = IF hk.left > 1 THEN hk.left - 1 ELSE 0
    BY <1>2, HcMaxMin
  <1>4. /\ k \in HcKeys /\ k.owner = (IF hk.left <= 1 THEN None ELSE hk.owner) /\ k.paused = hk.paused
        /\ k.left = IF hk.left > 1 THEN hk.left - 1 ELSE 0
    <2>1. (IF hk.left > 1 THEN hk.left - 1 ELSE 0) \in 0..Ttl
      BY <1>2
    <2> HIDE DEF HcGiven
    <2>2. QED BY <1>2, <1>3, <2>1 DEF HcKeys
  <1>5. ASSUME NEW n \in Pair
        PROVE  /\ h(n) \in HcNodes /\ h(n).sent = hn[n].sent /\ h(n).role = hn[n].role
               /\ h(n).promoting = hn[n].promoting /\ h(n).since <= hn[n].since + 1
               /\ h(n).expiry = IF hn[n].expiry > 1 THEN hn[n].expiry - 1 ELSE 0
    <2>1. hn[n] \in HcNodes /\ hn[n].expiry \in 0..Ttl /\ hn[n].since \in Nat
      BY DEF HcInv, HcTypeOK, HcNodes
    <2>2. HC!Max({1, hn[n].expiry}) - 1 = IF hn[n].expiry > 1 THEN hn[n].expiry - 1 ELSE 0
      BY <1>2, <2>1, HcMaxMin
    <2>3. (IF hn[n].expiry > 1 THEN hn[n].expiry - 1 ELSE 0) \in 0..Ttl
      BY <1>2, <2>1
    <2>4. HC!Forever \in Nat /\ hn[n].since + 1 \in Nat
      BY <1>2, <2>1 DEF HC!Forever, HcGiven
    <2>5. PICK s : s = HC!Min({hn[n].since + 1, HC!Forever})
      OBVIOUS
    <2>6. s = IF hn[n].since + 1 <= HC!Forever THEN hn[n].since + 1 ELSE HC!Forever
      BY <2>4, <2>5, HcMaxMin
    <2>7. s \in Nat /\ s <= hn[n].since + 1
      BY <2>4, <2>6
    <2>8. PICK e : e = HC!Max({1, hn[n].expiry}) - 1
      OBVIOUS
    <2>9. h(n) = [hn[n] EXCEPT !.expiry = e, !.since = s]
      BY <2>5, <2>8
    <2>10. e \in 0..Ttl /\ e = IF hn[n].expiry > 1 THEN hn[n].expiry - 1 ELSE 0
      BY <2>2, <2>3, <2>8
    <2> HIDE DEF h
    <2>11. /\ h(n) \in HcNodes /\ h(n).sent = hn[n].sent /\ h(n).role = hn[n].role
           /\ h(n).promoting = hn[n].promoting /\ h(n).since = s /\ h(n).expiry = e
      BY <2>1, <2>7, <2>9, <2>10 DEF HcNodes
    <2>12. QED BY <2>7, <2>10, <2>11
  <1> HIDE DEF k, h
  <1>6. HcTypeOK'
    BY <1>1, <1>4, <1>5 DEF HcTypeOK
  <1>7. HcLease'
    <2>1. hk'.owner # None => hk'.left > 0
      BY <1>1, <1>2, <1>4
    <2>2. ASSUME NEW n \in Pair
          PROVE  /\ hn'[n].expiry > 0 => hk'.owner = n /\ hn'[n].expiry <= hk'.left
                 /\ hn'[n].sent => hk'.owner = n /\ hk'.left = Ttl
                 /\ hk'.owner = n => hk'.left + hn'[n].since <= Ttl
      <3>1. hn'[n] = h(n) /\ h(n).since \in Nat /\ h(n).expiry \in Nat
        BY <1>1, <1>5 DEF HcNodes
      <3>2. /\ hn[n].expiry \in Nat /\ hn[n].since \in Nat /\ n # None
            /\ hn[n].expiry > 0 => hk.owner = n /\ hn[n].expiry <= hk.left
            /\ hk.owner = n => hk.left + hn[n].since <= Ttl
        BY HcFacts
      <3>3. hn'[n].expiry > 0 => hk'.owner = n /\ hn'[n].expiry <= hk'.left
        BY <1>1, <1>2, <1>4, <1>5, <3>1, <3>2
      <3>4. ~hn'[n].sent
        BY <1>1, <1>5, <3>1
      <3>5. hk'.owner = n => hk'.left + hn'[n].since <= Ttl
        BY <1>1, <1>2, <1>4, <1>5, <3>1, <3>2
      <3>6. QED BY <3>3, <3>4, <3>5
    <2>3. QED BY <2>1, <2>2 DEF HcLease
  <1>8. HcPaused'
    BY <1>1, <1>4, <1>5 DEF HcInv, HcPaused
  <1>9. QED BY <1>6, <1>7, <1>8 DEF HcInv

(* Faults and their end change neither the leader key nor a leader.         *)
LEMMA HcFaultKeeps ==
  ASSUME HcGiven, HcInv, HC!Fault \/ HC!Heal
  PROVE  HcInv'
  <1>1. hk \in HcKeys /\ hk.faults + 1 \in Nat /\ MaxOutages \in Nat
    BY DEF HcInv, HcTypeOK, HcKeys, HcGiven
  <1>2. hk' \in HcKeys /\ hk'.owner = hk.owner /\ hk'.left = hk.left /\ hk'.paused = hk.paused
    <2>1. CASE HC!Heal
      BY <1>1, <2>1 DEF HC!Heal, HcKeys
    <2>2. CASE HC!Fault
      <3>1. \/ \E n \in Pair : hk' = [hk EXCEPT !.faults = @ + 1, !.reach = IF n \in @ THEN @ \ {n} ELSE @ \cup {n}]
            \/ hk' = [hk EXCEPT !.faults = @ + 1]
        BY <2>2 DEF HC!Fault
      <3>2. CASE hk' = [hk EXCEPT !.faults = @ + 1]
        BY <1>1, <3>2 DEF HcKeys
      <3>3. ASSUME NEW n \in Pair, hk' = [hk EXCEPT !.faults = @ + 1, !.reach = IF n \in @ THEN @ \ {n} ELSE @ \cup {n}]
            PROVE  hk' \in HcKeys /\ hk'.owner = hk.owner /\ hk'.left = hk.left /\ hk'.paused = hk.paused
        <4>1. PICK R : R = IF n \in hk.reach THEN hk.reach \ {n} ELSE hk.reach \cup {n}
          OBVIOUS
        <4>2. R \in SUBSET Pair
          BY <1>1, <4>1 DEF HcKeys
        <4>3. hk' = [hk EXCEPT !.faults = hk.faults + 1, !.reach = R]
          BY <3>3, <4>1
        <4>4. QED BY <1>1, <4>2, <4>3 DEF HcKeys
      <3>4. QED BY <3>1, <3>2, <3>3
    <2>3. QED BY <2>1, <2>2
  <1>3. CASE hn' = hn
    BY <1>2, <1>3 DEF HcInv, HcTypeOK, HcLease, HcPaused
  <1>4. CASE \E n \in Pair : hn' = [hn EXCEPT ![n].pg = "stopped", ![n].promoting = FALSE]
    <2>1. PICK n \in Pair : hn' = [hn EXCEPT ![n].pg = "stopped", ![n].promoting = FALSE]
      BY <1>4
    <2> DEFINE h == [hn[n] EXCEPT !.pg = "stopped", !.promoting = FALSE]
    <2>2. hn' = [hn EXCEPT ![n] = h]
      BY <2>1 DEF HcInv, HcTypeOK
    <2>3. /\ h \in HcNodes /\ h.expiry = hn[n].expiry /\ h.sent = hn[n].sent /\ h.since = hn[n].since
          /\ h.role = hn[n].role /\ ~h.promoting
      <3>1. hn[n] \in HcNodes
        BY HcFacts
      <3>2. QED BY <3>1 DEF HcNodes
    <2> HIDE DEF h
    <2>4. HcTurn(n, h)
      BY <1>2, <2>2, <2>3, HcFacts DEF HcTurn
    <2>5. QED BY <2>4, HcTurnKeeps
  <1>5. QED BY <1>3, <1>4 DEF HC!Fault, HC!Heal

(* Every step preserves the invariant.                                      *)
LEMMA HcStep ==
  ASSUME HcGiven, HcInv, [HC!HcNext]_(HC!hcVars)
  PROVE  HcInv'
  <1>1. CASE UNCHANGED HC!hcVars
    BY <1>1 DEF HC!hcVars, HcInv, HcTypeOK, HcLease, HcPaused
  <1>2. QED BY <1>1, HcLeaderSteps, HcOtherSteps, HcTickKeeps, HcFaultKeeps DEF HC!HcNext, HC!HcNode

(* The beginning.                                                           *)
LEMMA HcStart ==
  ASSUME HcGiven, HC!HcInit
  PROVE  HcInv
  <1>1. PICK standby \in BOOLEAN, paused \in BOOLEAN :
          /\ hk = [owner |-> First, left |-> Ttl, lsn |-> 1, sync |-> IF standby THEN {} ELSE {Second},
                   standby |-> standby, paused |-> paused, reach |-> Pair, faults |-> 0, calm |-> FALSE]
          /\ hn = [n \in Pair |->
                    [pg |-> "running", lsn |-> 1, expiry |-> IF n = First THEN Ttl ELSE 0, sent |-> FALSE,
                     promoting |-> FALSE, since |-> 0, view |-> [lsn |-> 1],
                     role |-> IF n # First THEN "replica" ELSE IF standby THEN "standby_leader" ELSE "primary"]]
    BY DEF HC!HcInit
  <1>2. 0 \in 0..Ttl /\ Ttl \in 0..Ttl /\ Ttl > 0 /\ Ttl + 0 <= Ttl /\ First \in Pair
    BY DEF HcGiven
  <1>3. hk \in HcKeys
    BY <1>1, <1>2 DEF HcKeys
  <1>4. hn \in [Pair -> HcNodes]
    BY <1>1, <1>2 DEF HcNodes
  <1>5. HcLease
    BY <1>1, <1>2 DEF HcLease
  <1>6. HcPaused
    BY <1>1 DEF HcPaused
  <1>7. QED BY <1>3, <1>4, <1>5, <1>6 DEF HcInv, HcTypeOK

(* What the invariant says of the answers.                                  *)
LEMMA HcAnswers ==
  ASSUME HcGiven, HcInv
  PROVE  HC!AnswersAreTrue
  <1>1. ASSUME NEW n \in Pair, HC!PrimaryStatus(n) \/ HC!StandbyLeaderStatus(n)
        PROVE  IF hk.paused THEN n = First ELSE hk.owner = n
    <2>1. CASE HC!DetachedInPause(n)
      <3>1. hk.paused /\ hn[n].role # "replica"
        BY <1>1, <2>1 DEF HC!DetachedInPause, HC!PostgresqlStatus, HC!PrimaryStatus, HC!StandbyLeaderStatus
      <3>2. QED BY <3>1, HcFacts
    <2>2. CASE ~HC!DetachedInPause(n)
      <3>1. hn[n].expiry > 0
        BY <1>1, <2>2 DEF HC!PrimaryStatus, HC!StandbyLeaderStatus, HC!IsLeader
      <3>2. hk.owner = n /\ n # None /\ (hk.paused => hk.owner \in {First, None})
        BY <3>1, HcFacts
      <3>3. QED BY <3>2
    <2>3. QED BY <2>1, <2>2
  <1>2. HC!OnePrimaryAnswers
    BY <1>1 DEF HC!OnePrimaryAnswers
  <1>3. HC!ProbeFailsAfterExpiry
    <2>1. SUFFICES ASSUME NEW n \in Pair, hk.owner = n PROVE HC!LivenessRoute(n)
      BY DEF HC!ProbeFailsAfterExpiry
    <2>2. /\ hn[n].since \in Nat /\ hk.left \in Nat /\ hk.left > 0 /\ hk.left + hn[n].since <= Ttl
          /\ LoopWait \in Nat /\ Ttl \in Nat
      BY <2>1, HcFacts DEF HcGiven
    <2>3. hn[n].since < LoopWait + Ttl /\ hn[n].since < LoopWait + 2 * Ttl
      BY <2>2
    <2>4. QED BY <2>3 DEF HC!LivenessRoute
  <1>4. QED BY <1>2, <1>3 DEF HC!AnswersAreTrue

(* At most one node answers 200 on /primary and at most one on              *)
(* /standby-leader, though each answers from its own memory: a load         *)
(* balancer never splits the writes; and the liveness probe of a primary    *)
(* fails only after its leader key expired.  For any number of nodes, any   *)
(* ttl and loop_wait and any faults, if the answers of the DCS take no      *)
(* time.                                                                    *)
THEOREM HealthAnswersTrue ==
  ASSUME Ttl \in Nat \ {0}, LoopWait \in Nat, MaxOutages \in Nat, None \notin Pair, First \in Pair
  PROVE  Spec => []AnswersAreTrue
  <1> DEFINE Here == part = "health"
  <1>1. HcGiven
    BY DEF HcGiven
  <1>2. Init /\ Here => HcInv
    BY <1>1, HcStart DEF Init
  <1>3. Here /\ [Next]_vars => Here' /\ [HC!HcNext]_(HC!hcVars)
    BY DEF Next, vars, hcVars, HC!hcVars
  <1>4. ~Here /\ [Next]_vars => ~Here'
    BY DEF Next, vars
  <1>5. HcInv /\ [HC!HcNext]_(HC!hcVars) => HcInv'
    BY <1>1, HcStep
  <1>6. (Here => HcInv) => AnswersAreTrue
    BY <1>1, HcAnswers DEF AnswersAreTrue
  <1> HIDE DEF Here
  <1>7. QED BY <1>2, <1>3, <1>4, <1>5, <1>6, PTL DEF Spec

-----------------------------------------------------------------------------
(* The dynamic configuration.                                               *)

DcConfigs == [DC!Keys -> Nat]
DcPause == [key |-> "pause", val |-> 1]
DcViews == [value : DcConfigs, version : Nat, by : DC!Clients \cup {None}]
DcNodes == [view : DcViews, seen : Nat, dyn : DcConfigs, cache : DcConfigs, paused : BOOLEAN, alive : BOOLEAN,
            restoring : BOOLEAN]
DcClients == [at : {"idle", "read", "patched", "waiting", "success", "done", "failed"},
              kind : {"", "patch", "put", "edit", "pause"}, node : Pair \cup {None},
              req : DC!Requests \cup DC!Overwrites \cup {None}, value : DcConfigs, version : Nat,
              ran : SUBSET Pair, touched : SUBSET Pair]
DcKeys == [value : DcConfigs, version : Nat, log : Seq(DcConfigs)]

DcTypeOK == ck \in DcKeys /\ nd \in [Pair -> DcNodes] /\ cl \in [DC!Clients -> DcClients]

(* loop_wait, two retries and the ttl, as the HA loop uses them.            *)
DcFits(config) ==
  DC!IntValue(config, "loop_wait") + 2 * DC!IntValue(config, "retry_timeout") <= DC!IntValue(config, "ttl")

(* The key has the last value that was written, or is gone.                 *)
DcLast == ck.version \in {0, Len(ck.log)} /\ (ck.version # 0 => ck.value = ck.log[ck.version])

(* A node looks at a value the key had, and runs with the one it has seen.  *)
DcNodeOK(h, log) ==
  /\ h.view.version \in 0..Len(log) /\ (h.view.version # 0 => h.view.value = log[h.view.version])
  /\ h.seen \in 0..Len(log)
  /\ h.seen # 0 /\ DC!Valid(log[h.seen]) => h.dyn = DC!ValidateAndAdjustTimeouts(log[h.seen])
  /\ DcFits(h.dyn) /\ DcFits(h.cache)

(* A request holds the value of the version it has read, or that value with *)
(* its own change; patronictl waits for a version that pauses the cluster.  *)
DcClientOK(r, log) ==
  /\ r.at \in {"read", "patched"} =>
       /\ r.version \in 0..Len(log)
       /\ IF r.kind = "put" THEN r.req \in DC!Overwrites ELSE r.req \in DC!Requests /\ r.version # 0
       /\ r.kind = "pause" => r.req = DcPause
  /\ r.at = "read" /\ r.kind # "put" => r.value = log[r.version]
  /\ r.at = "patched" /\ r.kind # "put" => r.value = DC!PatchConfig(log[r.version], r.req)
  /\ IF r.at \in {"waiting", "success"}
     THEN r.version \in 1..Len(log) /\ r.req = DcPause /\ log[r.version]["pause"] = 1
     ELSE r.ran = {}

(* While the key has the version that patronictl waits for, whoever has run *)
(* a cycle is paused.                                                       *)
DcApplied ==
  \A c \in DC!Clients, n \in Pair :
    /\ cl[c].version = ck.version /\ nd[n].alive
    /\ cl[c].at = "success" \/ (cl[c].at = "waiting" /\ n \in cl[c].ran)
    => nd[n].paused

DcInv ==
  /\ DcTypeOK /\ DcLast /\ DcApplied
  /\ \A n \in Pair : DcNodeOK(nd[n], ck.log)
  /\ \A c \in DC!Clients : DcClientOK(cl[c], ck.log)

(* What __get_and_maybe_adjust_int_value() returns, and that the value it   *)
(* stores is read back as the same one.                                     *)
LEMMA DcIntValues ==
  ASSUME NEW config \in DcConfigs
  PROVE  /\ DC!IntValue(config, "loop_wait") \in Nat /\ DC!IntValue(config, "loop_wait") >= 1
         /\ DC!IntValue(config, "retry_timeout") \in Nat /\ DC!IntValue(config, "retry_timeout") >= 3
         /\ DC!IntValue(config, "ttl") \in Nat /\ DC!IntValue(config, "ttl") >= 20
         /\ \A k \in DC!Timeouts : DC!Stored(config, k) \in Nat
         /\ \A k \in DC!Timeouts : config[k] >= DC!Minimum[k] => DC!IntValue(config, k) = config[k]
         /\ \A k \in DC!Timeouts, other \in DcConfigs :
              other[k] = DC!Stored(config, k) => DC!IntValue(other, k) = DC!IntValue(config, k)
  <1>1. ASSUME NEW a \in Nat, NEW b \in Nat PROVE DC!Max({a, b}) = IF a >= b THEN a ELSE b
    BY DEF DC!Max
  <1>2. /\ DC!Default["loop_wait"] = 10 /\ DC!Default["retry_timeout"] = 10 /\ DC!Default["ttl"] = 30
        /\ DC!Minimum["loop_wait"] = 1 /\ DC!Minimum["retry_timeout"] = 3 /\ DC!Minimum["ttl"] = 20
    BY DEF DC!Default, DC!Minimum
  <1>3. \A k \in DC!Timeouts : DC!Default[k] \in Nat /\ DC!Minimum[k] \in Nat /\ DC!Minimum[k] > 0
                               /\ DC!Default[k] >= DC!Minimum[k] /\ DC!Default[k] > 0
    BY <1>2 DEF DC!Timeouts
  <1>4. ASSUME NEW k \in DC!Timeouts, NEW c \in DcConfigs
        PROVE  /\ c[k] \in Nat
               /\ DC!IntValue(c, k) = IF c[k] = 0 THEN DC!Default[k]
                                      ELSE IF c[k] >= DC!Minimum[k] THEN c[k] ELSE DC!Minimum[k]
               /\ DC!Stored(c, k) = IF c[k] = 0 THEN 0 ELSE IF c[k] >= DC!Minimum[k] THEN c[k] ELSE DC!Minimum[k]
    <2>1. c[k] \in Nat
      BY DEF DcConfigs, DC!Keys
    <2>2. CASE c[k] = 0
      <3>1. DC!IntValue(c, k) = DC!Max({DC!Default[k], DC!Minimum[k]})
        BY <2>2 DEF DC!IntValue
      <3>2. QED BY <1>1, <1>3, <2>1, <2>2, <3>1 DEF DC!Stored
    <2>3. CASE c[k] # 0
      <3>1. DC!IntValue(c, k) = DC!Max({c[k], DC!Minimum[k]}) /\ DC!Stored(c, k) = DC!Max({c[k], DC!Minimum[k]})
        BY <2>3 DEF DC!IntValue, DC!Stored
      <3>2. QED BY <1>1, <1>3, <2>1, <2>3, <3>1
    <2>4. QED BY <2>2, <2>3
  <1>5. "loop_wait" \in DC!Timeouts /\ "retry_timeout" \in DC!Timeouts /\ "ttl" \in DC!Timeouts
    BY DEF DC!Timeouts
  <1>6. DC!IntValue(config, "loop_wait") \in Nat /\ DC!IntValue(config, "loop_wait") >= 1
    BY <1>2, <1>4, <1>5
  <1>7. DC!IntValue(config, "retry_timeout") \in Nat /\ DC!IntValue(config, "retry_timeout") >= 3
    BY <1>2, <1>4, <1>5
  <1>8. DC!IntValue(config, "ttl") \in Nat /\ DC!IntValue(config, "ttl") >= 20
    BY <1>2, <1>4, <1>5
  <1>9. \A k \in DC!Timeouts : /\ DC!Stored(config, k) \in Nat
                               /\ config[k] >= DC!Minimum[k] => DC!IntValue(config, k) = config[k]
    BY <1>3, <1>4
  <1>10. ASSUME NEW k \in DC!Timeouts, NEW other \in DcConfigs, other[k] = DC!Stored(config, k)
         PROVE  DC!IntValue(other, k) = DC!IntValue(config, k)
    <2>1. /\ config[k] \in Nat
          /\ DC!IntValue(config, k) = IF config[k] = 0 THEN DC!Default[k]
                                      ELSE IF config[k] >= DC!Minimum[k] THEN config[k] ELSE DC!Minimum[k]
          /\ other[k] = IF config[k] = 0 THEN 0 ELSE IF config[k] >= DC!Minimum[k] THEN config[k] ELSE DC!Minimum[k]
      BY <1>4, <1>10
    <2>2. DC!IntValue(other, k) = IF other[k] = 0 THEN DC!Default[k]
                                  ELSE IF other[k] >= DC!Minimum[k] THEN other[k] ELSE DC!Minimum[k]
      BY <1>4
    <2>3. DC!Minimum[k] \in Nat /\ DC!Minimum[k] > 0
      BY <1>3
    <2>4. QED BY <2>1, <2>2, <2>3
  <1>11. QED BY <1>6, <1>7, <1>8, <1>9, <1>10

(* _validate_and_adjust_timeouts() makes room for two retries, whatever it  *)
(* is given.                                                                *)
LEMMA DcAdjusted ==
  ASSUME NEW config \in DcConfigs
  PROVE  /\ DC!ValidateAndAdjustTimeouts(config) \in DcConfigs
         /\ DcFits(DC!ValidateAndAdjustTimeouts(config))
  <1> DEFINE w == DC!IntValue(config, "loop_wait")
             r == DC!IntValue(config, "retry_timeout")
             t == DC!IntValue(config, "ttl")
             c == [k \in DC!Keys |-> IF k \in DC!Timeouts THEN DC!Stored(config, k) ELSE config[k]]
             v == DC!ValidateAndAdjustTimeouts(config)
  <1>1. w \in Nat /\ w >= 1 /\ r \in Nat /\ r >= 3 /\ t \in Nat /\ t >= 20
    BY DcIntValues
  <1>2. c \in DcConfigs
    BY DcIntValues DEF DcConfigs
  <1>3. c["loop_wait"] = DC!Stored(config, "loop_wait") /\ c["retry_timeout"] = DC!Stored(config, "retry_timeout")
        /\ c["ttl"] = DC!Stored(config, "ttl")
    BY DEF DC!Keys, DC!Timeouts
  <1>4. v = IF 1 + 2 * r > t THEN [c EXCEPT !["loop_wait"] = 1, !["retry_timeout"] = (t - 1) \div 2]
            ELSE IF w + 2 * r > t THEN [c EXCEPT !["loop_wait"] = t - 2 * r] ELSE c
    BY DEF DC!ValidateAndAdjustTimeouts
  <1>5. "loop_wait" \in DC!Timeouts /\ "retry_timeout" \in DC!Timeouts /\ "ttl" \in DC!Timeouts
        /\ "loop_wait" \in DC!Keys /\ "retry_timeout" \in DC!Keys /\ "ttl" \in DC!Keys
        /\ DC!Minimum["loop_wait"] = 1 /\ DC!Minimum["retry_timeout"] = 3
    BY DEF DC!Timeouts, DC!Keys, DC!Minimum
  <1> HIDE DEF w, r, t, c, v
  <1>6. CASE 1 + 2 * r > t
    <2>1. PICK q : q = (t - 1) \div 2
      OBVIOUS
    <2>2. q \in Nat /\ q >= 3 /\ 1 + 2 * q <= t
      BY <1>1, <2>1
    <2>3. v \in DcConfigs /\ v["loop_wait"] = 1 /\ v["retry_timeout"] = q /\ v["ttl"] = c["ttl"]
      BY <1>2, <1>4, <1>5, <1>6, <2>1, <2>2 DEF DcConfigs
    <2>4. DC!IntValue(v, "loop_wait") = 1 /\ DC!IntValue(v, "retry_timeout") = q
      BY <1>5, <2>2, <2>3, DcIntValues
    <2>5. DC!IntValue(v, "ttl") = t
      BY <1>3, <1>5, <2>3, DcIntValues DEF t
    <2>6. QED BY <2>2, <2>3, <2>4, <2>5 DEF DcFits, v
  <1>7. CASE ~(1 + 2 * r > t) /\ w + 2 * r > t
    <2>1. PICK q : q = t - 2 * r
      OBVIOUS
    <2>2. q \in Nat /\ q >= 1 /\ q + 2 * r <= t
      BY <1>1, <1>7, <2>1
    <2>3. v \in DcConfigs /\ v["loop_wait"] = q /\ v["retry_timeout"] = c["retry_timeout"] /\ v["ttl"] = c["ttl"]
      BY <1>2, <1>4, <1>5, <1>7, <2>1, <2>2 DEF DcConfigs
    <2>4. DC!IntValue(v, "loop_wait") = q
      BY <1>5, <2>2, <2>3, DcIntValues
    <2>5. DC!IntValue(v, "ttl") = t /\ DC!IntValue(v, "retry_timeout") = r
      BY <1>3, <1>5, <2>3, DcIntValues DEF t, r
    <2>6. QED BY <2>2, <2>3, <2>4, <2>5 DEF DcFits, v
  <1>8. CASE ~(1 + 2 * r > t) /\ ~(w + 2 * r > t)
    <2>1. v = c
      BY <1>4, <1>8
    <2>2. DC!IntValue(c, "ttl") = t /\ DC!IntValue(c, "retry_timeout") = r /\ DC!IntValue(c, "loop_wait") = w
      BY <1>2, <1>3, <1>5, DcIntValues DEF t, r, w
    <2>3. QED BY <1>1, <1>2, <1>8, <2>1, <2>2 DEF DcFits, v
  <1>9. QED BY <1>6, <1>7, <1>8

(* The configurations requests make, and the one at the beginning.          *)
LEMMA DcConfigFacts ==
  /\ DC!Plain \in DcConfigs /\ DC!Overwrites \subseteq DcConfigs
  /\ \A config \in DcConfigs, req \in DC!Requests : DC!PatchConfig(config, req) \in DcConfigs
  /\ \A config \in DcConfigs : DC!PatchConfig(config, DcPause)["pause"] = 1
  /\ DC!ValidateAndAdjustTimeouts(DC!Plain) = DC!Plain /\ DcFits(DC!Plain)
  /\ \A req \in DC!Requests : req.key # "parameter" /\ (req.key = "pause" => req = DcPause)
  /\ DcPause \in DC!Requests
  <1>1. DC!Plain \in DcConfigs
    BY DEF DC!Plain, DcConfigs
  <1>2. DC!Overwrites \subseteq DcConfigs
    <2>1. [DC!Plain EXCEPT !["loop_wait"] = 28] \in DcConfigs
      BY <1>1 DEF DcConfigs
    <2>2. QED BY <2>1 DEF DC!Overwrites
  <1>3. ASSUME NEW req \in DC!Requests
        PROVE  /\ req.key \in DC!Keys /\ req.val \in Nat /\ req.key # "parameter" /\ (req.key = "pause" => req = DcPause)
    <2>1. \/ req = [key |-> "pause", val |-> 1] \/ req = [key |-> "ttl", val |-> 20] \/ req = [key |-> "ttl", val |-> 1000]
      BY DEF DC!Requests, DC!Bad
    <2>2. "pause" \in DC!Keys /\ "ttl" \in DC!Keys
      BY DEF DC!Keys, DC!Timeouts
    <2>3. QED BY <2>1, <2>2 DEF DcPause
  <1>4. \A config \in DcConfigs, req \in DC!Requests : DC!PatchConfig(config, req) \in DcConfigs
    BY <1>3 DEF DC!PatchConfig, DcConfigs
  <1>5. \A config \in DcConfigs : DC!PatchConfig(config, DcPause)["pause"] = 1
    BY DEF DC!PatchConfig, DcConfigs, DcPause, DC!Keys
  <1>6. DcPause \in DC!Requests
    BY DEF DcPause, DC!Requests
  <1>7. DC!ValidateAndAdjustTimeouts(DC!Plain) = DC!Plain
    <2>1. DC!Plain["loop_wait"] = 0 /\ DC!Plain["retry_timeout"] = 0 /\ DC!Plain["ttl"] = 30
      BY DEF DC!Plain, DC!Keys, DC!Timeouts
    <2>2. DC!IntValue(DC!Plain, "loop_wait") = 10 /\ DC!IntValue(DC!Plain, "retry_timeout") = 10
          /\ DC!IntValue(DC!Plain, "ttl") = 30
      BY <2>1 DEF DC!IntValue, DC!Default, DC!Minimum, DC!Max
    <2>3. DC!Stored(DC!Plain, "loop_wait") = 0 /\ DC!Stored(DC!Plain, "retry_timeout") = 0
          /\ DC!Stored(DC!Plain, "ttl") = 30
      BY <2>1 DEF DC!Stored, DC!Minimum, DC!Max
    <2>4. \A k \in DC!Timeouts : DC!Stored(DC!Plain, k) = DC!Plain[k]
      BY <2>1, <2>3 DEF DC!Timeouts
    <2>5. [k \in DC!Keys |-> IF k \in DC!Timeouts THEN DC!Stored(DC!Plain, k) ELSE DC!Plain[k]] = DC!Plain
      BY <2>4 DEF DC!Plain
    <2>6. QED BY <2>2, <2>5 DEF DC!ValidateAndAdjustTimeouts
  <1>8. QED BY <1>1, <1>2, <1>3, <1>4, <1>5, <1>6, <1>7, DcAdjusted

(* The log of the key only grows.                                           *)
DcExtends(log, more) ==
  more \in Seq(DcConfigs) /\ Len(log) <= Len(more) /\ \A i \in 1..Len(log) : more[i] = log[i]

(* What is known of a node and of a request stays true when it does.        *)
LEMMA DcStillOK ==
  ASSUME NEW log \in Seq(DcConfigs), NEW more, DcExtends(log, more)
  PROVE  /\ \A h \in DcNodes : DcNodeOK(h, log) => DcNodeOK(h, more)
         /\ \A r \in DcClients : DcClientOK(r, log) => DcClientOK(r, more)
  <1>1. Len(log) \in Nat /\ Len(more) \in Nat
    BY DEF DcExtends
  <1>2. ASSUME NEW v \in Nat PROVE /\ v \in 0..Len(log) => v \in 0..Len(more) /\ (v # 0 => more[v] = log[v])
                                   /\ v \in 1..Len(log) => v \in 1..Len(more) /\ more[v] = log[v]
    BY <1>1 DEF DcExtends
  <1>3. ASSUME NEW h \in DcNodes, DcNodeOK(h, log) PROVE DcNodeOK(h, more)
    <2>1. h.seen \in Nat /\ h.view.version \in Nat
      BY DEF DcNodes, DcViews
    <2>2. QED BY <1>2, <1>3, <2>1 DEF DcNodeOK
  <1>4. ASSUME NEW r \in DcClients, DcClientOK(r, log) PROVE DcClientOK(r, more)
    <2>1. r.version \in Nat
      BY DEF DcClients
    <2>2. QED BY <1>2, <1>4, <2>1 DEF DcClientOK
  <1>5. QED BY <1>3, <1>4

(* set_config_value() was successful.                                       *)
LEMMA DcWritten ==
  ASSUME DcInv, NEW value \in DcConfigs, DC!WriteConfig(value)
  PROVE  /\ ck' \in DcKeys /\ DcLast' /\ DcExtends(ck.log, ck'.log)
         /\ ck'.version = Len(ck.log) + 1 /\ Len(ck'.log) = Len(ck.log) + 1 /\ ck'.value = value
         /\ ck'.log[ck'.version] = value /\ ck'.version \notin 0..Len(ck.log) /\ ck'.version \in 1..Len(ck'.log)
  <1>1. ck.log \in Seq(DcConfigs) /\ Len(ck.log) \in Nat
    BY DEF DcInv, DcTypeOK, DcKeys
  <1>2. ck'.value = value /\ ck'.version = Len(ck.log) + 1 /\ ck'.log = Append(ck.log, value)
        /\ ck' = [value |-> value, version |-> Len(ck.log) + 1, log |-> Append(ck.log, value)]
    BY DEF DC!WriteConfig
  <1>3. /\ Append(ck.log, value) \in Seq(DcConfigs) /\ Len(Append(ck.log, value)) = Len(ck.log) + 1
        /\ \A i \in 1..Len(ck.log) : Append(ck.log, value)[i] = ck.log[i]
        /\ Append(ck.log, value)[Len(ck.log) + 1] = value
    BY <1>1
  <1>4. Len(ck.log) + 1 \in Nat
    BY <1>1
  <1>5. ck' \in DcKeys
    BY <1>2, <1>3, <1>4 DEF DcKeys
  <1>6. DcExtends(ck.log, ck'.log)
    BY <1>1, <1>2, <1>3 DEF DcExtends
  <1>7. DcLast'
    BY <1>2, <1>3 DEF DcLast
  <1>8. ck'.version \notin 0..Len(ck.log) /\ ck'.version \in 1..Len(ck'.log)
    BY <1>1, <1>2, <1>3
  <1>9. QED BY <1>2, <1>3, <1>5, <1>6, <1>7, <1>8

(* What the invariant says of the key, a node and a request.                *)
LEMMA DcFacts ==
  ASSUME DcInv
  PROVE  /\ ck \in DcKeys /\ ck.log \in Seq(DcConfigs) /\ Len(ck.log) \in Nat /\ ck.version \in Nat
         /\ ck.value \in DcConfigs /\ DcExtends(ck.log, ck.log)
         /\ ck.version \in 0..Len(ck.log) /\ (ck.version # 0 => ck.value = ck.log[ck.version])
         /\ \A n \in Pair : nd[n] \in DcNodes /\ DcNodeOK(nd[n], ck.log)
         /\ \A c \in DC!Clients : cl[c] \in DcClients /\ DcClientOK(cl[c], ck.log)
  <1>1. ck \in DcKeys /\ ck.log \in Seq(DcConfigs) /\ Len(ck.log) \in Nat /\ ck.version \in Nat /\ ck.value \in DcConfigs
    BY DEF DcInv, DcTypeOK, DcKeys
  <1>2. DcExtends(ck.log, ck.log)
    BY <1>1 DEF DcExtends
  <1>3. ck.version \in 0..Len(ck.log) /\ (ck.version # 0 => ck.value = ck.log[ck.version])
    BY <1>1 DEF DcInv, DcLast
  <1>4. QED BY <1>1, <1>2, <1>3 DEF DcInv, DcTypeOK

(* At most one node changes.                                                *)
LEMMA DcNodeTurns ==
  ASSUME DcInv, DcExtends(ck.log, ck'.log),
         nd' = nd \/ \E n \in Pair, h \in DcNodes : nd' = [nd EXCEPT ![n] = h] /\ DcNodeOK(h, ck'.log)
  PROVE  nd' \in [Pair -> DcNodes] /\ \A m \in Pair : DcNodeOK(nd'[m], ck'.log)
  <1>1. ASSUME NEW m \in Pair, nd'[m] = nd[m] PROVE DcNodeOK(nd'[m], ck'.log)
    BY <1>1, DcFacts, DcStillOK
  <1>2. CASE nd' = nd
    BY <1>1, <1>2 DEF DcInv, DcTypeOK
  <1>3. CASE \E n \in Pair, h \in DcNodes : nd' = [nd EXCEPT ![n] = h] /\ DcNodeOK(h, ck'.log)
    <2>1. PICK n \in Pair, h \in DcNodes : nd' = [nd EXCEPT ![n] = h] /\ DcNodeOK(h, ck'.log)
      BY <1>3
    <2>2. nd \in [Pair -> DcNodes]
      BY DEF DcInv, DcTypeOK
    <2>3. nd'[n] = h /\ \A m \in Pair : m # n => nd'[m] = nd[m]
      BY <2>1, <2>2
    <2>4. nd' \in [Pair -> DcNodes]
      BY <2>1, <2>2
    <2>5. QED BY <1>1, <2>1, <2>3, <2>4
  <1>4. QED BY <1>2, <1>3

(* At most one request changes.                                             *)
LEMMA DcClientTurns ==
  ASSUME DcInv, DcExtends(ck.log, ck'.log),
         cl' = cl \/ \E c \in DC!Clients, r \in DcClients : cl' = [cl EXCEPT ![c] = r] /\ DcClientOK(r, ck'.log)
  PROVE  cl' \in [DC!Clients -> DcClients] /\ \A d \in DC!Clients : DcClientOK(cl'[d], ck'.log)
  <1>1. ASSUME NEW d \in DC!Clients, cl'[d] = cl[d] PROVE DcClientOK(cl'[d], ck'.log)
    BY <1>1, DcFacts, DcStillOK
  <1>2. CASE cl' = cl
    BY <1>1, <1>2 DEF DcInv, DcTypeOK
  <1>3. CASE \E c \in DC!Clients, r \in DcClients : cl' = [cl EXCEPT ![c] = r] /\ DcClientOK(r, ck'.log)
    <2>1. PICK c \in DC!Clients, r \in DcClients : cl' = [cl EXCEPT ![c] = r] /\ DcClientOK(r, ck'.log)
      BY <1>3
    <2>2. cl \in [DC!Clients -> DcClients]
      BY DEF DcInv, DcTypeOK
    <2>3. cl'[c] = r /\ \A d \in DC!Clients : d # c => cl'[d] = cl[d]
      BY <2>1, <2>2
    <2>4. cl' \in [DC!Clients -> DcClients]
      BY <2>1, <2>2
    <2>5. QED BY <1>1, <2>1, <2>3, <2>4
  <1>4. QED BY <1>2, <1>3

(* A step of a node n that leaves the requests alone.                       *)
LEMMA DcNodeStep ==
  ASSUME DcInv, NEW n \in Pair, NEW h \in DcNodes, nd' = [nd EXCEPT ![n] = h], DcNodeOK(h, ck'.log), cl' = cl,
         ck' \in DcKeys, DcLast', DcExtends(ck.log, ck'.log), ck' = ck \/ ck'.version \notin 0..Len(ck.log),
         h.alive => \/ nd[n].alive /\ h.paused = nd[n].paused
                    \/ ck.version # 0 => h.paused = (ck.value["pause"] = 1)
  PROVE  DcInv'
  <1>1. nd' \in [Pair -> DcNodes] /\ \A m \in Pair : DcNodeOK(nd'[m], ck'.log)
    BY DcNodeTurns
  <1>2. cl' \in [DC!Clients -> DcClients] /\ \A d \in DC!Clients : DcClientOK(cl'[d], ck'.log)
    BY DcClientTurns
  <1>3. DcApplied'
    <2>1. nd'[n] = h /\ \A m \in Pair : m # n => nd'[m] = nd[m]
      BY DEF DcInv, DcTypeOK
    <2>2. SUFFICES ASSUME NEW c \in DC!Clients, NEW m \in Pair, cl'[c].version = ck'.version, nd'[m].alive,
                          cl'[c].at = "success" \/ (cl'[c].at = "waiting" /\ m \in cl'[c].ran)
                   PROVE  nd'[m].paused
      BY DEF DcApplied
    <2>3. cl[c].version \in 1..Len(ck.log) /\ ck.log[cl[c].version]["pause"] = 1
      BY <2>2, DcFacts DEF DcClientOK
    <2>4. ck' = ck /\ ck.version # 0 /\ ck.value["pause"] = 1
      BY <2>2, <2>3, DcFacts
    <2>5. nd[m].alive => nd[m].paused
      BY <2>2, <2>4 DEF DcInv, DcApplied
    <2>6. QED BY <2>1, <2>2, <2>4, <2>5
  <1>4. QED BY <1>1, <1>2, <1>3 DEF DcInv, DcTypeOK

(* set_dynamic_configuration() of the value a node looks at.                *)
LEMMA DcSet ==
  ASSUME NEW log \in Seq(DcConfigs), NEW h \in DcNodes, DcNodeOK(h, log), h.view.version # 0,
         NEW r, r = DC!SetDynamicConfiguration(h, h.view)
  PROVE  /\ r \in DcNodes /\ DcNodeOK(r, log) /\ r.view = h.view /\ r.cache = h.cache
         /\ r.alive = h.alive /\ r.paused = h.paused /\ r.restoring = h.restoring
  <1>1. h.view.value \in DcConfigs /\ h.view.version \in Nat /\ h.dyn \in DcConfigs
    BY DEF DcNodes, DcViews
  <1>2. CASE h.view.version = h.seen
    <2>1. r = h
      BY <1>2, Zenon DEF DC!SetDynamicConfiguration
    <2>2. QED BY <2>1
  <1>3. CASE h.view.version # h.seen
    <2>1. PICK d : d = IF DC!Valid(h.view.value) THEN DC!ValidateAndAdjustTimeouts(h.view.value) ELSE h.dyn
      OBVIOUS
    <2>2. r = [h EXCEPT !.seen = h.view.version, !.dyn = d]
      BY <1>3, <2>1 DEF DC!SetDynamicConfiguration
    <2>3. d \in DcConfigs /\ DcFits(d)
      BY <1>1, <2>1, DcAdjusted DEF DcNodeOK
    <2>4. /\ r \in DcNodes /\ r.view = h.view /\ r.cache = h.cache /\ r.alive = h.alive /\ r.paused = h.paused
          /\ r.restoring = h.restoring /\ r.seen = h.view.version /\ r.dyn = d
      BY <1>1, <2>2, <2>3 DEF DcNodes
    <2>5. DcNodeOK(r, log)
      BY <2>1, <2>3, <2>4 DEF DcNodeOK
    <2>6. QED BY <2>4, <2>5
  <1>4. QED BY <1>2, <1>3

(* The cycle of __main__.py.                                                *)
LEMMA DcRunCycle ==
  ASSUME DcInv, NEW n \in Pair, DC!RunCycle(n)
  PROVE  DcInv'
  <1>1. nd[n] \in DcNodes /\ DcNodeOK(nd[n], ck.log) /\ ck.log \in Seq(DcConfigs)
    BY DcFacts
  <1>2. PICK h : h = IF nd[n].view.version = 0 THEN nd[n] ELSE DC!SetDynamicConfiguration(nd[n], nd[n].view)
    OBVIOUS
  <1>3. nd' = [nd EXCEPT ![n] = [h EXCEPT !.cache = h.dyn]] /\ ck' = ck /\ cl' = cl
    BY <1>2 DEF DC!RunCycle
  <1>4. h \in DcNodes /\ DcNodeOK(h, ck.log) /\ h.alive = nd[n].alive /\ h.paused = nd[n].paused
    BY <1>1, <1>2, DcSet
  <1>5. PICK g : g = [h EXCEPT !.cache = h.dyn]
    OBVIOUS
  <1>6. /\ g \in DcNodes /\ g.alive = h.alive /\ g.paused = h.paused /\ g.view = h.view /\ g.seen = h.seen
        /\ g.dyn = h.dyn /\ g.cache = h.dyn
    BY <1>4, <1>5 DEF DcNodes
  <1>7. DcNodeOK(g, ck.log)
    BY <1>4, <1>6 DEF DcNodeOK
  <1>8. ck' \in DcKeys /\ DcLast' /\ DcExtends(ck.log, ck'.log)
    BY <1>3, DcFacts DEF DcInv, DcLast
  <1>9. nd' = [nd EXCEPT ![n] = g] /\ DcNodeOK(g, ck'.log)
    BY <1>3, <1>5, <1>7
  <1>10. QED BY <1>3, <1>4, <1>6, <1>8, <1>9, DcNodeStep

(* A node crashes.                                                          *)
LEMMA DcCrash ==
  ASSUME DcInv, NEW n \in Pair, DC!Crash(n)
  PROVE  DcInv'
  <1>1. nd[n] \in DcNodes /\ DcNodeOK(nd[n], ck.log)
    BY DcFacts
  <1>2. PICK h : h = [nd[n] EXCEPT !.alive = FALSE]
    OBVIOUS
  <1>3. nd' = [nd EXCEPT ![n] = h] /\ ck' = ck /\ cl' = cl
    BY <1>2 DEF DC!Crash, DcInv, DcTypeOK
  <1>4. h \in DcNodes /\ ~h.alive /\ h.view = nd[n].view /\ h.seen = nd[n].seen /\ h.dyn = nd[n].dyn /\ h.cache = nd[n].cache
    BY <1>1, <1>2 DEF DcNodes
  <1>5. DcNodeOK(h, ck'.log)
    BY <1>1, <1>3, <1>4 DEF DcNodeOK
  <1>6. ck' \in DcKeys /\ DcLast' /\ DcExtends(ck.log, ck'.log)
    BY <1>3, DcFacts DEF DcInv, DcLast
  <1>7. QED BY <1>3, <1>4, <1>5, <1>6, DcNodeStep

(* A node starts with what the file has.                                    *)
LEMMA DcStartNode ==
  ASSUME DcInv, NEW n \in Pair, DC!Start(n)
  PROVE  DcInv'
  <1>1. nd[n] \in DcNodes /\ DcNodeOK(nd[n], ck.log) /\ ck.log \in Seq(DcConfigs)
        /\ ck.value \in DcConfigs /\ ck.version \in Nat
    BY DcFacts
  <1>2. PICK view : view = [value |-> ck.value, version |-> ck.version, by |-> None]
    OBVIOUS
  <1>3. PICK h : h = [nd[n] EXCEPT !.alive = TRUE, !.restoring = FALSE, !.seen = 0, !.dyn = nd[n].cache, !.view = view]
    OBVIOUS
  <1>4. PICK g : g = IF ck.version = 0 THEN h ELSE DC!SetDynamicConfiguration(h, view)
    OBVIOUS
  <1>5. PICK paused : paused = ((IF ck.version = 0 THEN g.dyn ELSE ck.value)["pause"] = 1)
    OBVIOUS
  <1>6. nd' = [nd EXCEPT ![n] = [g EXCEPT !.paused = paused]] /\ ck' = ck /\ cl' = cl
    BY <1>2, <1>3, <1>4, <1>5 DEF DC!Start
  <1>7. view \in DcViews /\ view.value = ck.value /\ view.version = ck.version
    BY <1>1, <1>2 DEF DcViews
  <1>8. h \in DcNodes /\ h.view = view /\ h.seen = 0 /\ h.dyn = nd[n].cache /\ h.cache = nd[n].cache
    BY <1>1, <1>3, <1>7 DEF DcNodes
  <1>9. DcNodeOK(h, ck.log)
    <2>1. ck.version \in 0..Len(ck.log) /\ (ck.version # 0 => ck.value = ck.log[ck.version]) /\ 0 \in 0..Len(ck.log)
      BY DcFacts
    <2>2. QED BY <1>1, <1>7, <1>8, <2>1 DEF DcNodeOK
  <1>10. g \in DcNodes /\ DcNodeOK(g, ck.log)
    <2>1. CASE ck.version = 0
      BY <1>4, <1>8, <1>9, <2>1
    <2>2. CASE ck.version # 0
      BY <1>1, <1>4, <1>7, <1>8, <1>9, <2>2, DcSet
    <2>3. QED BY <2>1, <2>2
  <1>11. paused \in BOOLEAN /\ (ck.version # 0 => paused = (ck.value["pause"] = 1))
    BY <1>5
  <1>12. PICK f : f = [g EXCEPT !.paused = paused]
    OBVIOUS
  <1>13. f \in DcNodes /\ f.paused = paused /\ f.view = g.view /\ f.seen = g.seen /\ f.dyn = g.dyn /\ f.cache = g.cache
    BY <1>10, <1>11, <1>12 DEF DcNodes
  <1>14. DcNodeOK(f, ck'.log)
    BY <1>6, <1>10, <1>13 DEF DcNodeOK
  <1>15. ck' \in DcKeys /\ DcLast' /\ DcExtends(ck.log, ck'.log)
    BY <1>6, DcFacts DEF DcInv, DcLast
  <1>16. nd' = [nd EXCEPT ![n] = f] /\ (ck.version # 0 => f.paused = (ck.value["pause"] = 1))
    BY <1>6, <1>11, <1>12, <1>13
  <1>17. QED BY <1>6, <1>13, <1>14, <1>15, <1>16, DcNodeStep

(* The leader writes its configuration to a key that is gone.               *)
LEMMA DcRestore ==
  ASSUME DcInv, NEW n \in Pair, DC!RestoreConfig(n)
  PROVE  DcInv'
  <1>1. nd[n] \in DcNodes /\ DcNodeOK(nd[n], ck.log) /\ nd[n].dyn \in DcConfigs
    BY DcFacts DEF DcNodes
  <1>2. /\ ck' \in DcKeys /\ DcLast' /\ DcExtends(ck.log, ck'.log) /\ ck'.version \notin 0..Len(ck.log)
        /\ ck'.version \in 1..Len(ck'.log) /\ ck'.log[ck'.version] = nd[n].dyn
    BY <1>1, DcWritten DEF DC!RestoreConfig
  <1>3. PICK view : view = [value |-> nd[n].dyn, version |-> ck'.version, by |-> None]
    OBVIOUS
  <1>4. PICK h : h = [nd[n] EXCEPT !.restoring = FALSE, !.view = view]
    OBVIOUS
  <1>5. nd' = [nd EXCEPT ![n] = h] /\ cl' = cl
    BY <1>3, <1>4 DEF DC!RestoreConfig, DcInv, DcTypeOK
  <1>6. view \in DcViews /\ view.value = nd[n].dyn /\ view.version = ck'.version
    BY <1>1, <1>2, <1>3 DEF DcViews, DcKeys
  <1>7. h \in DcNodes /\ h.view = view /\ h.seen = nd[n].seen /\ h.dyn = nd[n].dyn /\ h.cache = nd[n].cache
        /\ h.alive = nd[n].alive /\ h.paused = nd[n].paused
    BY <1>1, <1>4, <1>6 DEF DcNodes
  <1>8. DcNodeOK(h, ck'.log)
    <2>1. DcNodeOK(nd[n], ck'.log)
      BY <1>1, <1>2, DcFacts, DcStillOK
    <2>2. h.view.version \in 0..Len(ck'.log) /\ h.view.value = ck'.log[h.view.version]
      BY <1>2, <1>6, <1>7
    <2>3. QED BY <1>7, <2>1, <2>2 DEF DcNodeOK
  <1>9. QED BY <1>2, <1>5, <1>7, <1>8, DcNodeStep

(* The cycle of the HA loop: it sets the pause flag and is counted by       *)
(* whoever waits.                                                           *)
LEMMA DcHaCycle ==
  ASSUME DcInv, NEW n \in Pair, DC!HaCycle(n)
  PROVE  DcInv'
  <1>1. /\ nd[n] \in DcNodes /\ DcNodeOK(nd[n], ck.log) /\ ck.value \in DcConfigs /\ ck.version \in Nat
        /\ nd[n].paused \in BOOLEAN /\ nd[n].alive
    BY DcFacts DEF DcNodes, DC!HaCycle
  <1>2. PICK paused : paused = IF ck.version = 0 THEN nd[n].paused ELSE ck.value["pause"] = 1
    OBVIOUS
  <1>3. PICK view : view = [value |-> ck.value, version |-> ck.version, by |-> None]
    OBVIOUS
  <1>4. PICK restoring \in BOOLEAN : restoring = (n = First /\ ck.version = 0)
    OBVIOUS
  <1>5. PICK h : h = [nd[n] EXCEPT !.view = view, !.paused = paused, !.restoring = restoring]
    OBVIOUS
  <1>6. nd' = [nd EXCEPT ![n] = h] /\ ck' = ck
    BY <1>2, <1>3, <1>4, <1>5 DEF DC!HaCycle, DcInv, DcTypeOK
  <1>7. view \in DcViews /\ view.value = ck.value /\ view.version = ck.version
    BY <1>1, <1>3 DEF DcViews
  <1>8. paused \in BOOLEAN /\ (ck.version # 0 => paused = (ck.value["pause"] = 1))
    BY <1>1, <1>2
  <1>9. h \in DcNodes /\ h.view = view /\ h.seen = nd[n].seen /\ h.dyn = nd[n].dyn /\ h.cache = nd[n].cache
        /\ h.paused = paused
    BY <1>1, <1>5, <1>7, <1>8 DEF DcNodes
  <1>10. DcNodeOK(h, ck'.log)
    BY <1>1, <1>6, <1>7, <1>9, DcFacts DEF DcNodeOK
  <1>11. ck' \in DcKeys /\ DcLast' /\ DcExtends(ck.log, ck'.log)
    BY <1>6, DcFacts DEF DcInv, DcLast
  <1>12. nd' \in [Pair -> DcNodes] /\ \A m \in Pair : DcNodeOK(nd'[m], ck'.log)
    BY <1>6, <1>9, <1>10, <1>11, DcNodeTurns
  <1>13. PICK wal_moved \in BOOLEAN :
           cl' = [c \in DC!Clients |-> [cl[c] EXCEPT
                   !.ran = IF cl[c].at = "waiting" THEN @ \cup {n} ELSE @,
                   !.touched = IF cl[c].at = "waiting" /\ (wal_moved \/ paused # nd[n].paused) THEN @ \cup {n} ELSE @]]
    BY <1>2 DEF DC!HaCycle
  <1>14. ASSUME NEW c \in DC!Clients
         PROVE  /\ cl'[c] \in DcClients /\ DcClientOK(cl'[c], ck'.log)
                /\ cl'[c].version = cl[c].version /\ cl'[c].at = cl[c].at /\ cl'[c].ran \subseteq cl[c].ran \cup {n}
    <2>1. cl[c] \in DcClients /\ DcClientOK(cl[c], ck.log)
      BY DcFacts
    <2>2. PICK R : R = IF cl[c].at = "waiting" THEN cl[c].ran \cup {n} ELSE cl[c].ran
      OBVIOUS
    <2>3. PICK T : T = IF cl[c].at = "waiting" /\ (wal_moved \/ paused # nd[n].paused)
                       THEN cl[c].touched \cup {n} ELSE cl[c].touched
      OBVIOUS
    <2>4. cl'[c] = [cl[c] EXCEPT !.ran = R, !.touched = T]
      BY <1>13, <2>2, <2>3
    <2>5. R \in SUBSET Pair /\ T \in SUBSET Pair
      BY <2>1, <2>2, <2>3 DEF DcClients
    <2>6. /\ cl'[c] \in DcClients /\ cl'[c].at = cl[c].at /\ cl'[c].kind = cl[c].kind /\ cl'[c].req = cl[c].req
          /\ cl'[c].value = cl[c].value /\ cl'[c].version = cl[c].version /\ cl'[c].ran = R
      BY <2>1, <2>4, <2>5 DEF DcClients
    <2>7. DcClientOK(cl'[c], ck'.log)
      BY <1>6, <2>1, <2>2, <2>6 DEF DcClientOK
    <2>8. QED BY <2>2, <2>6, <2>7
  <1>15. cl' \in [DC!Clients -> DcClients]
    BY <1>13, <1>14
  <1>16. DcApplied'
    <2>1. nd'[n] = h /\ \A m \in Pair : m # n => nd'[m] = nd[m]
      BY <1>6 DEF DcInv, DcTypeOK
    <2>2. SUFFICES ASSUME NEW c \in DC!Clients, NEW m \in Pair, cl'[c].version = ck'.version, nd'[m].alive,
                          cl'[c].at = "success" \/ (cl'[c].at = "waiting" /\ m \in cl'[c].ran)
                   PROVE  nd'[m].paused
      BY DEF DcApplied
    <2>3. CASE m = n
      <3>1. cl[c].version \in 1..Len(ck.log) /\ ck.log[cl[c].version]["pause"] = 1 /\ cl[c].version = ck.version
        BY <1>6, <1>14, <2>2, DcFacts DEF DcClientOK
      <3>2. ck.version # 0 /\ ck.value["pause"] = 1
        BY <3>1, DcFacts
      <3>3. QED BY <1>8, <1>9, <2>1, <2>3, <3>2
    <2>4. CASE m # n
      BY <1>6, <1>14, <2>1, <2>2, <2>4 DEF DcInv, DcApplied
    <2>5. QED BY <2>3, <2>4
  <1>17. QED BY <1>11, <1>12, <1>14, <1>15, <1>16 DEF DcInv, DcTypeOK

(* A step of a request c.                                                   *)
LEMMA DcClientStep ==
  ASSUME DcInv, NEW c \in DC!Clients, NEW r \in DcClients, cl' = [cl EXCEPT ![c] = r], DcClientOK(r, ck'.log),
         ck' \in DcKeys, DcLast', DcExtends(ck.log, ck'.log), ck' = ck \/ ck'.version \notin 0..Len(ck.log),
         nd' = nd \/ \E n \in Pair, h \in DcNodes :
                       /\ nd' = [nd EXCEPT ![n] = h] /\ DcNodeOK(h, ck'.log)
                       /\ h.alive = nd[n].alive /\ h.paused = nd[n].paused,
         r.at = "waiting" => r.ran = {},
         r.at = "success" /\ r.version = ck'.version => \A n \in Pair : nd[n].alive => nd[n].paused
  PROVE  DcInv'
  <1>1. nd' \in [Pair -> DcNodes] /\ \A m \in Pair : DcNodeOK(nd'[m], ck'.log)
    BY DcNodeTurns
  <1>2. cl' \in [DC!Clients -> DcClients] /\ \A d \in DC!Clients : DcClientOK(cl'[d], ck'.log)
    BY DcClientTurns
  <1>3. \A m \in Pair : nd'[m].alive = nd[m].alive /\ nd'[m].paused = nd[m].paused
    BY DEF DcInv, DcTypeOK
  <1>4. cl'[c] = r /\ \A d \in DC!Clients : d # c => cl'[d] = cl[d]
    BY DEF DcInv, DcTypeOK
  <1>5. DcApplied'
    <2>1. SUFFICES ASSUME NEW d \in DC!Clients, NEW m \in Pair, cl'[d].version = ck'.version, nd'[m].alive,
                          cl'[d].at = "success" \/ (cl'[d].at = "waiting" /\ m \in cl'[d].ran)
                   PROVE  nd'[m].paused
      BY DEF DcApplied
    <2>2. CASE d = c
      BY <1>3, <1>4, <2>1, <2>2
    <2>3. CASE d # c
      <3>1. cl'[d] = cl[d]
        BY <1>4, <2>3
      <3>2. cl[d].version \in 1..Len(ck.log)
        BY <2>1, <3>1, DcFacts DEF DcClientOK
      <3>3. ck' = ck
        BY <2>1, <3>1, <3>2, DcFacts
      <3>4. QED BY <1>3, <2>1, <3>1, <3>3 DEF DcInv, DcApplied
    <2>4. QED BY <2>2, <2>3
  <1>6. QED BY <1>1, <1>2, <1>5 DEF DcInv, DcTypeOK

(* A request that has ended.                                                *)
LEMMA DcEnded ==
  ASSUME NEW at \in {"done", "failed"}, NEW log
  PROVE  DC!Ended(at) \in DcClients /\ DcClientOK(DC!Ended(at), log) /\ DC!Ended(at).at = at
  <1>1. DC!Idle \in DcClients
    BY DcConfigFacts DEF DC!Idle, DcClients
  <1>2. DC!Ended(at) \in DcClients /\ DC!Ended(at).at = at /\ DC!Ended(at).ran = {}
    BY <1>1 DEF DC!Ended, DC!Idle, DcClients
  <1>3. QED BY <1>2 DEF DcClientOK

(* The key stays as it is.                                                  *)
LEMMA DcKeyStays ==
  ASSUME DcInv, ck' = ck
  PROVE  ck' \in DcKeys /\ DcLast' /\ DcExtends(ck.log, ck'.log)
  BY DcFacts DEF DcInv, DcLast

(* A handler reads the key.                                                 *)
LEMMA DcRead ==
  ASSUME DcInv, NEW c \in DC!Clients, DC!Read(c)
  PROVE  DcInv'
  <1>1. PICK kind \in {"patch", "put", "edit", "pause"}, n \in {m \in Pair : nd[m].alive} :
          /\ kind # "put" => ck.version # 0
          /\ \E req \in IF kind = "put" THEN DC!Overwrites ELSE DC!Requests :
               /\ kind = "pause" => req.key = "pause" /\ req.val # ck.value["pause"]
               /\ cl' = [cl EXCEPT ![c] = [@ EXCEPT !.at = "read", !.kind = kind, !.node = IF kind = "edit" THEN None ELSE n,
                                                    !.req = req, !.value = ck.value, !.version = ck.version]]
          /\ nd' = IF kind = "edit" THEN nd
                   ELSE [nd EXCEPT ![n].view = [value |-> ck.value, version |-> ck.version, by |-> c]]
    BY DEF DC!Read
  <1>2. PICK req \in IF kind = "put" THEN DC!Overwrites ELSE DC!Requests :
          /\ kind = "pause" => req.key = "pause"
          /\ cl' = [cl EXCEPT ![c] = [cl[c] EXCEPT !.at = "read", !.kind = kind, !.node = IF kind = "edit" THEN None ELSE n,
                                                   !.req = req, !.value = ck.value, !.version = ck.version]]
    BY <1>1
  <1>3. ck' = ck /\ cl[c].at = "idle" /\ n \in Pair
    BY DEF DC!Read
  <1>4. cl[c] \in DcClients /\ DcClientOK(cl[c], ck.log) /\ ck.value \in DcConfigs /\ ck.version \in Nat
        /\ nd[n] \in DcNodes /\ DcNodeOK(nd[n], ck.log)
    BY <1>3, DcFacts
  <1>5. PICK m \in Pair \cup {None} : m = IF kind = "edit" THEN None ELSE n
    BY <1>3
  <1>6. PICK r : r = [cl[c] EXCEPT !.at = "read", !.kind = kind, !.node = m, !.req = req, !.value = ck.value, !.version = ck.version]
    OBVIOUS
  <1>7. cl' = [cl EXCEPT ![c] = r]
    BY <1>2, <1>5, <1>6
  <1>8. /\ r \in DcClients /\ r.at = "read" /\ r.kind = kind /\ r.req = req /\ r.value = ck.value
        /\ r.version = ck.version /\ r.ran = cl[c].ran
    BY <1>4, <1>6 DEF DcClients
  <1>9. DcClientOK(r, ck'.log)
    <2>1. cl[c].ran = {}
      BY <1>3, <1>4 DEF DcClientOK
    <2>2. kind = "pause" => req = DcPause
      BY <1>2, DcConfigFacts
    <2>3. IF kind = "put" THEN req \in DC!Overwrites ELSE req \in DC!Requests /\ ck.version # 0
      BY <1>1, <1>2
    <2>4. ck.version \in 0..Len(ck.log) /\ (ck.version # 0 => ck.value = ck.log[ck.version])
      BY DcFacts
    <2>5. QED BY <1>3, <1>8, <2>1, <2>2, <2>3, <2>4 DEF DcClientOK
  <1>10. nd' = nd \/ \E h \in DcNodes : /\ nd' = [nd EXCEPT ![n] = h] /\ DcNodeOK(h, ck'.log)
                                        /\ h.alive = nd[n].alive /\ h.paused = nd[n].paused
    <2>1. CASE kind = "edit"
      BY <1>1, <2>1
    <2>2. CASE kind # "edit"
      <3>1. PICK view : view = [value |-> ck.value, version |-> ck.version, by |-> c]
        OBVIOUS
      <3>2. view \in DcViews /\ view.value = ck.value /\ view.version = ck.version
        BY <1>4, <3>1 DEF DcViews
      <3>3. PICK h : h = [nd[n] EXCEPT !.view = view]
        OBVIOUS
      <3>4. nd' = [nd EXCEPT ![n] = h]
        BY <1>1, <1>3, <2>2, <3>1, <3>3 DEF DcInv, DcTypeOK
      <3>5. /\ h \in DcNodes /\ h.view = view /\ h.seen = nd[n].seen /\ h.dyn = nd[n].dyn /\ h.cache = nd[n].cache
            /\ h.alive = nd[n].alive /\ h.paused = nd[n].paused
        BY <1>4, <3>2, <3>3 DEF DcNodes
      <3>6. ck.version \in 0..Len(ck.log) /\ (ck.version # 0 => ck.value = ck.log[ck.version])
        BY DcFacts
      <3>7. DcNodeOK(h, ck'.log)
        BY <1>3, <1>4, <3>2, <3>5, <3>6 DEF DcNodeOK
      <3>8. QED BY <3>4, <3>5, <3>7
    <2>3. QED BY <2>1, <2>2
  <1>11. ck' \in DcKeys /\ DcLast' /\ DcExtends(ck.log, ck'.log)
    BY <1>3, DcKeyStays
  <1>12. QED BY <1>3, <1>7, <1>8, <1>9, <1>10, <1>11, DcClientStep

(* The change is made to a copy.                                            *)
LEMMA DcPatch ==
  ASSUME DcInv, NEW c \in DC!Clients, DC!Patch(c)
  PROVE  DcInv'
  <1>1. cl[c] \in DcClients /\ DcClientOK(cl[c], ck.log) /\ cl[c].at = "read" /\ ck' = ck
    BY DcFacts DEF DC!Patch
  <1>2. PICK v : v = IF cl[c].kind = "put" THEN cl[c].req ELSE DC!PatchConfig(cl[c].value, cl[c].req)
    OBVIOUS
  <1>3. PICK r : r = [cl[c] EXCEPT !.at = "patched", !.value = v]
    OBVIOUS
  <1>4. cl' = [cl EXCEPT ![c] = r]
    BY <1>2, <1>3 DEF DC!Patch, DcInv, DcTypeOK
  <1>5. cl[c].value \in DcConfigs /\ cl[c].ran = {}
        /\ (IF cl[c].kind = "put" THEN cl[c].req \in DC!Overwrites ELSE cl[c].req \in DC!Requests)
    BY <1>1 DEF DcClientOK, DcClients
  <1>6. v \in DcConfigs
    BY <1>2, <1>5, DcConfigFacts
  <1>7. /\ r \in DcClients /\ r.at = "patched" /\ r.kind = cl[c].kind /\ r.req = cl[c].req /\ r.value = v
        /\ r.version = cl[c].version /\ r.ran = cl[c].ran
    BY <1>1, <1>3, <1>6 DEF DcClients
  <1>8. DcClientOK(r, ck'.log)
    BY <1>1, <1>2, <1>5, <1>7 DEF DcClientOK
  <1>9. nd' = nd
    <2>1. cl[c].kind = "patch" => cl[c].req.key # "parameter"
      BY <1>5, DcConfigFacts
    <2>2. QED BY <2>1 DEF DC!Patch
  <1>10. ck' \in DcKeys /\ DcLast' /\ DcExtends(ck.log, ck'.log)
    BY <1>1, DcKeyStays
  <1>11. QED BY <1>1, <1>4, <1>7, <1>8, <1>9, <1>10, DcClientStep

(* The answer: patronictl pause goes on to wait for the version.            *)
LEMMA DcAnswered ==
  ASSUME DcInv, NEW c \in DC!Clients, cl[c].at = "patched", NEW version \in Nat, DC!Answered(c, version),
         ck' \in DcKeys, DcLast', DcExtends(ck.log, ck'.log), ck' = ck \/ ck'.version \notin 0..Len(ck.log),
         nd' = nd, version \in 1..Len(ck'.log) \/ cl[c].kind # "pause",
         cl[c].kind = "pause" => ck'.log[version]["pause"] = 1
  PROVE  DcInv'
  <1>1. cl[c] \in DcClients /\ DcClientOK(cl[c], ck.log)
    BY DcFacts
  <1>2. CASE cl[c].kind = "pause"
    <2>1. PICK r : r = [cl[c] EXCEPT !.at = "waiting", !.version = version, !.value = DC!Plain, !.node = None]
      OBVIOUS
    <2>2. cl' = [cl EXCEPT ![c] = r]
      BY <1>2, <2>1 DEF DC!Answered
    <2>3. /\ r \in DcClients /\ r.at = "waiting" /\ r.req = cl[c].req /\ r.version = version /\ r.ran = cl[c].ran
      BY <1>1, <2>1, DcConfigFacts DEF DcClients
    <2>4. cl[c].req = DcPause /\ cl[c].ran = {}
      BY <1>1, <1>2 DEF DcClientOK
    <2>5. DcClientOK(r, ck'.log)
      BY <1>2, <2>3, <2>4 DEF DcClientOK
    <2>6. QED BY <2>2, <2>3, <2>4, <2>5, DcClientStep
  <1>3. CASE cl[c].kind # "pause"
    <2>1. cl' = [cl EXCEPT ![c] = DC!Ended("done")]
      BY <1>3 DEF DC!Answered
    <2>2. QED BY <2>1, DcEnded, DcClientStep
  <1>4. QED BY <1>2, <1>3

(* The value is written if nobody was faster.                               *)
LEMMA DcCommit ==
  ASSUME DcInv, NEW c \in DC!Clients, DC!Commit(c)
  PROVE  DcInv' /\ (cl[c].kind # "put" => ck'.value = DC!PatchConfig(ck.value, cl[c].req))
  <1>1. cl[c] \in DcClients /\ DcClientOK(cl[c], ck.log) /\ cl[c].at = "patched" /\ nd' = nd
        /\ cl[c].value \in DcConfigs
    BY DcFacts DEF DC!Commit, DcClients
  <1>2. /\ ck' \in DcKeys /\ DcLast' /\ DcExtends(ck.log, ck'.log) /\ ck'.version \notin 0..Len(ck.log)
        /\ ck'.version \in 1..Len(ck'.log) /\ ck'.log[ck'.version] = cl[c].value /\ ck'.value = cl[c].value
    BY <1>1, DcWritten DEF DC!Commit
  <1>3. ASSUME cl[c].kind # "put"
        PROVE  /\ cl[c].value = DC!PatchConfig(ck.value, cl[c].req) /\ cl[c].req \in DC!Requests
               /\ cl[c].kind = "pause" => cl[c].req = DcPause
    <2>1. cl[c].version = ck.version
      BY <1>3 DEF DC!Commit
    <2>2. cl[c].version # 0 /\ cl[c].value = DC!PatchConfig(ck.log[cl[c].version], cl[c].req) /\ cl[c].req \in DC!Requests
          /\ (cl[c].kind = "pause" => cl[c].req = DcPause)
      BY <1>1, <1>3 DEF DcClientOK
    <2>3. QED BY <2>1, <2>2, DcFacts
  <1>4. cl[c].kind = "pause" => cl[c].value["pause"] = 1
    BY <1>3, DcFacts, DcConfigFacts
  <1>5. PICK version \in Nat : version = ck'.version
    BY <1>2 DEF DcKeys
  <1>6. DC!Answered(c, version)
    BY <1>5 DEF DC!Commit
  <1>7. DcInv'
    BY <1>1, <1>2, <1>4, <1>5, <1>6, DcAnswered
  <1>8. QED BY <1>2, <1>3, <1>7

(* A request without a change, with a conflict or without an answer.        *)
LEMMA DcOtherAnswers ==
  ASSUME DcInv, NEW c \in DC!Clients, DC!NotChanged(c) \/ DC!Conflict(c) \/ DC!CommitFails(c)
  PROVE  DcInv'
  <1>1. cl[c] \in DcClients /\ DcClientOK(cl[c], ck.log) /\ cl[c].at = "patched" /\ nd' = nd
        /\ cl[c].value \in DcConfigs /\ cl[c].version \in Nat
    BY DcFacts DEF DC!NotChanged, DC!Conflict, DC!CommitFails, DcClients
  <1>2. CASE DC!NotChanged(c)
    <2>1. ck' = ck /\ DC!Answered(c, cl[c].version) /\ cl[c].version # 0 /\ cl[c].value = ck.log[cl[c].version]
      BY <1>2 DEF DC!NotChanged, DC!Changed
    <2>2. ck' \in DcKeys /\ DcLast' /\ DcExtends(ck.log, ck'.log)
      BY <2>1, DcKeyStays
    <2>3. cl[c].version \in 1..Len(ck'.log)
      BY <1>1, <2>1, DcFacts DEF DcClientOK
    <2>4. cl[c].kind = "pause" => ck'.log[cl[c].version]["pause"] = 1
      <3>1. ck.log[cl[c].version] \in DcConfigs
        BY <1>1, <2>1
      <3>2. cl[c].kind = "pause" => cl[c].value = DC!PatchConfig(ck.log[cl[c].version], DcPause)
        BY <1>1 DEF DcClientOK
      <3>3. QED BY <2>1, <3>1, <3>2, DcConfigFacts
    <2>5. QED BY <1>1, <2>1, <2>2, <2>3, <2>4, DcAnswered
  <1>3. CASE DC!Conflict(c) \/ DC!CommitFails(c)
    <2>1. cl' = [cl EXCEPT ![c] = DC!Ended("failed")] /\ (ck' = ck \/ DC!WriteConfig(cl[c].value))
      BY <1>3 DEF DC!Conflict, DC!CommitFails
    <2>2. ck' \in DcKeys /\ DcLast' /\ DcExtends(ck.log, ck'.log) /\ (ck' = ck \/ ck'.version \notin 0..Len(ck.log))
      BY <1>1, <2>1, DcKeyStays, DcWritten
    <2>3. QED BY <1>1, <2>1, <2>2, DcEnded, DcClientStep
  <1>4. QED BY <1>2, <1>3

(* patronictl pause stops waiting.                                          *)
LEMMA DcWaited ==
  ASSUME DcInv, NEW c \in DC!Clients, DC!Applied(c) \/ DC!NotApplied(c)
  PROVE  DcInv'
  <1>1. cl[c] \in DcClients /\ DcClientOK(cl[c], ck.log) /\ cl[c].at = "waiting" /\ nd' = nd /\ ck' = ck
    BY DcFacts DEF DC!Applied, DC!NotApplied
  <1>2. ck' \in DcKeys /\ DcLast' /\ DcExtends(ck.log, ck'.log)
    BY <1>1, DcKeyStays
  <1>3. CASE DC!NotApplied(c)
    <2>1. cl' = [cl EXCEPT ![c] = DC!Ended("done")]
      BY <1>3 DEF DC!NotApplied
    <2>2. QED BY <1>1, <1>2, <2>1, DcEnded, DcClientStep
  <1>4. CASE DC!Applied(c)
    <2>1. PICK r : r = [cl[c] EXCEPT !.at = "success"]
      OBVIOUS
    <2>2. cl' = [cl EXCEPT ![c] = r]
      BY <1>4, <2>1 DEF DC!Applied, DcInv, DcTypeOK
    <2>3. r \in DcClients /\ r.at = "success" /\ r.req = cl[c].req /\ r.version = cl[c].version
      BY <1>1, <2>1 DEF DcClients
    <2>4. DcClientOK(r, ck'.log)
      BY <1>1, <2>3 DEF DcClientOK
    <2>5. ASSUME r.version = ck.version, NEW n \in Pair, nd[n].alive PROVE nd[n].paused
      <3>1. nd[n].paused \in BOOLEAN
        BY DcFacts DEF DcNodes
      <3>2. cl[c].req.val = 1
        BY <1>1 DEF DcClientOK, DcPause
      <3>3. CASE DC!Pending(c) = {}
        BY <3>1, <3>2, <3>3 DEF DC!Pending
      <3>4. CASE n \in cl[c].ran
        BY <1>1, <2>3, <2>5, <3>4 DEF DcInv, DcApplied
      <3>5. QED BY <1>4, <2>5, <3>3, <3>4 DEF DC!Applied
    <2>6. QED BY <1>1, <1>2, <2>2, <2>3, <2>4, <2>5, DcClientStep
  <1>5. QED BY <1>3, <1>4

(* patronictl remove.                                                       *)
LEMMA DcRemove ==
  ASSUME DcInv, DC!Remove
  PROVE  DcInv'
  <1>1. ck' = [ck EXCEPT !.version = 0] /\ nd' = nd /\ cl' = cl
    BY DEF DC!Remove
  <1>2. ck' \in DcKeys /\ ck'.version = 0 /\ ck'.log = ck.log
    BY <1>1, DcFacts DEF DcKeys
  <1>3. DcLast'
    BY <1>2 DEF DcLast
  <1>4. DcApplied'
    <2>1. \A c \in DC!Clients : cl[c].at \in {"waiting", "success"} => cl[c].version # 0
      BY DcFacts DEF DcClientOK
    <2>2. QED BY <1>1, <1>2, <2>1 DEF DcApplied
  <1>5. QED BY <1>1, <1>2, <1>3, <1>4 DEF DcInv, DcTypeOK

(* The beginning.                                                           *)
LEMMA DcStart ==
  ASSUME DC!DcInit
  PROVE  DcInv
  <1>1. /\ ck = [value |-> DC!Plain, version |-> 1, log |-> <<DC!Plain>>]
        /\ nd = [n \in Pair |->
                  [view |-> [value |-> DC!Plain, version |-> 1, by |-> None], seen |-> 1, dyn |-> DC!Plain,
                   cache |-> DC!Plain, paused |-> FALSE, alive |-> TRUE, restoring |-> FALSE]]
        /\ cl = [c \in DC!Clients |-> DC!Idle]
    BY DEF DC!DcInit
  <1>2. <<DC!Plain>> \in Seq(DcConfigs) /\ Len(<<DC!Plain>>) = 1 /\ <<DC!Plain>>[1] = DC!Plain
    BY DcConfigFacts
  <1>3. ck \in DcKeys /\ ck.log = <<DC!Plain>> /\ ck.version = 1 /\ ck.value = DC!Plain
    BY <1>1, <1>2, DcConfigFacts DEF DcKeys
  <1>4. DC!Idle \in DcClients /\ DC!Idle.at = "idle" /\ DC!Idle.ran = {}
    BY DcConfigFacts DEF DC!Idle, DcClients
  <1>5. \A n \in Pair : nd[n] \in DcNodes /\ DcNodeOK(nd[n], ck.log)
    <2>1. SUFFICES ASSUME NEW n \in Pair PROVE nd[n] \in DcNodes /\ DcNodeOK(nd[n], ck.log)
      OBVIOUS
    <2>2. /\ nd[n].view = [value |-> DC!Plain, version |-> 1, by |-> None]
          /\ nd[n].seen = 1 /\ nd[n].dyn = DC!Plain /\ nd[n].cache = DC!Plain
      BY <1>1
    <2>3. [value |-> DC!Plain, version |-> 1, by |-> None] \in DcViews
      BY DcConfigFacts DEF DcViews
    <2>4. nd[n] \in DcNodes
      BY <1>1, <2>3, DcConfigFacts DEF DcNodes
    <2>5. DcNodeOK(nd[n], ck.log)
      BY <1>2, <1>3, <2>2, DcConfigFacts DEF DcNodeOK
    <2>6. QED BY <2>4, <2>5
  <1>6. nd \in [Pair -> DcNodes]
    BY <1>1, <1>5
  <1>7. \A c \in DC!Clients : DcClientOK(cl[c], ck.log)
    BY <1>1, <1>4 DEF DcClientOK
  <1>8. DcLast
    BY <1>2, <1>3 DEF DcLast
  <1>9. DcApplied
    BY <1>1, <1>4 DEF DcApplied
  <1>10. cl \in [DC!Clients -> DcClients]
    BY <1>1, <1>4
  <1>11. QED BY <1>3, <1>5, <1>6, <1>7, <1>8, <1>9, <1>10 DEF DcInv, DcTypeOK

(* Every step preserves the invariant.                                      *)
LEMMA DcStep ==
  ASSUME DcInv, [DC!DcNext]_(DC!dcVars)
  PROVE  DcInv'
  <1>1. CASE UNCHANGED DC!dcVars
    BY <1>1 DEF DC!dcVars, DcInv, DcTypeOK, DcLast, DcApplied
  <1>2. ASSUME NEW n \in Pair, DC!DcNode(n) \/ DC!Crash(n) \/ DC!Start(n) PROVE DcInv'
    BY <1>2, DcHaCycle, DcRestore, DcRunCycle, DcCrash, DcStartNode DEF DC!DcNode
  <1>3. ASSUME NEW c \in DC!Clients, DC!DcClient(c) PROVE DcInv'
    BY <1>3, DcRead, DcPatch, DcCommit, DcOtherAnswers, DcWaited DEF DC!DcClient
  <1>4. QED BY <1>1, <1>2, <1>3, DcRemove DEF DC!DcNext

(* A successful request changes its own setting only.                       *)
LEMMA DcChanges ==
  ASSUME DcInv, DC!DcNext
  PROVE  DC!ChangesOnlyItsSetting
  <1>1. SUFFICES ASSUME NEW c \in DC!Clients, cl[c].at = "patched", cl'[c].at \in {"waiting", "done"},
                        cl[c].kind # "put", ck' # ck
                 PROVE  ck'.value = DC!PatchConfig(ck.value, cl[c].req)
    BY DEF DC!ChangesOnlyItsSetting
  <1>2. cl \in [DC!Clients -> DcClients]
    BY DEF DcInv, DcTypeOK
  <1>3. ASSUME NEW n \in Pair, DC!DcNode(n) \/ DC!Crash(n) \/ DC!Start(n) PROVE FALSE
    <2>1. cl'[c].at = cl[c].at
      <3>1. CASE DC!HaCycle(n)
        <4>1. cl[c] \in DcClients
          BY <1>2
        <4>2. \E R, T : cl'[c] = [cl[c] EXCEPT !.ran = R, !.touched = T]
          BY <3>1 DEF DC!HaCycle
        <4>3. QED BY <4>1, <4>2 DEF DcClients
      <3>2. CASE cl' = cl
        BY <3>2
      <3>3. QED BY <1>3, <3>1, <3>2 DEF DC!DcNode, DC!RestoreConfig, DC!RunCycle, DC!Crash, DC!Start
    <2>2. QED BY <1>1, <2>1
  <1>4. ASSUME NEW d \in DC!Clients, DC!DcClient(d), d # c PROVE FALSE
    <2>1. cl'[c] = cl[c]
      BY <1>2, <1>4 DEF DC!DcClient, DC!Read, DC!Patch, DC!Commit, DC!NotChanged, DC!Conflict, DC!CommitFails,
                        DC!Applied, DC!NotApplied, DC!Answered
    <2>2. QED BY <1>1, <2>1
  <1>5. CASE DC!DcClient(c)
    <2>1. CASE DC!Commit(c)
      BY <1>1, <2>1, DcCommit
    <2>2. CASE DC!CommitFails(c)
      <3>1. cl'[c] = DC!Ended("failed")
        BY <1>2, <2>2 DEF DC!CommitFails
      <3>2. QED BY <1>1, <3>1, DcEnded
    <2>3. QED BY <1>1, <1>5, <2>1, <2>2 DEF DC!DcClient, DC!Read, DC!Patch, DC!NotChanged, DC!Conflict,
                                            DC!Applied, DC!NotApplied
  <1>6. ~DC!Remove
    BY <1>1 DEF DC!Remove
  <1>7. QED BY <1>3, <1>4, <1>5, <1>6 DEF DC!DcNext

(* The invariant in a behaviour of all parts.                               *)
LEMMA DcAlways == Spec => [](part = "config" => DcInv)
  <1> DEFINE Here == part = "config"
  <1>1. Init /\ Here => DcInv
    BY DcStart DEF Init
  <1>2. Here /\ [Next]_vars => Here' /\ [DC!DcNext]_(DC!dcVars)
    BY DEF Next, vars, dcVars, DC!dcVars
  <1>3. ~Here /\ [Next]_vars => ~Here'
    BY DEF Next, vars
  <1>4. DcInv /\ [DC!DcNext]_(DC!dcVars) => DcInv'
    BY DcStep
  <1> HIDE DEF Here
  <1>5. Spec => [](Here => DcInv)
    BY <1>1, <1>2, <1>3, <1>4, PTL DEF Spec
  <1>6. QED BY <1>5, PTL DEF Here

(* Every node runs with the value that the /config key had in the version   *)
(* it has seen, adjusted, and its timeouts leave room for two retries in a  *)
(* ttl: for any number of nodes and requests, whatever they write and       *)
(* whoever crashes, as long as a request does not change a setting inside   *)
(* of a section.                                                            *)
THEOREM NodesRunAsWritten == Spec => []RunsAsWritten
  <1>1. (part = "config" => DcInv) => RunsAsWritten
    <2>1. ASSUME DcInv PROVE DC!RunsAsWritten
      <3>1. DC!AppliesWhatWasWritten
        BY <2>1 DEF DcInv, DcNodeOK, DC!AppliesWhatWasWritten
      <3>2. DC!TimeoutsFit
        BY <2>1 DEF DcInv, DcNodeOK, DcFits, DC!TimeoutsFit
      <3>3. QED BY <3>1, <3>2 DEF DC!RunsAsWritten
    <2>2. QED BY <2>1 DEF RunsAsWritten
  <1>2. QED BY <1>1, DcAlways, PTL

(* When patronictl pause reports success, every living node is paused as    *)
(* long as the /config key is the one that was written: even though it      *)
(* takes a node whose member key did not change for a dead one.             *)
THEOREM PauseIsApplied == Spec => []SuccessIsApplied
  <1>1. (part = "config" => DcInv) => SuccessIsApplied
    <2>1. ASSUME DcInv PROVE DC!SuccessIsApplied
      <3>1. SUFFICES ASSUME NEW c \in DC!Clients, cl[c].at = "success", NEW n \in Pair, nd[n].alive,
                            ck.version = cl[c].version
                     PROVE  nd[n].paused = (cl[c].req.val = 1)
        BY DEF DC!SuccessIsApplied
      <3>2. nd[n].paused /\ nd[n].paused \in BOOLEAN
        BY <2>1, <3>1, DcFacts DEF DcInv, DcApplied, DcNodes
      <3>3. cl[c].req.val = 1
        BY <2>1, <3>1, DcFacts DEF DcClientOK, DcPause
      <3>4. QED BY <3>2, <3>3
    <2>2. QED BY <2>1 DEF SuccessIsApplied
  <1>2. QED BY <1>1, DcAlways, PTL

(* A PATCH, edit-config or pause that is answered with success changes the  *)
(* /config key by its own setting and by nothing else: the version that was *)
(* read is compared when the key is written, so that no change of another   *)
(* writer is taken back.                                                    *)
THEOREM RequestsDoNotInterfere == Spec => ChangesOnlyItsSetting
  <1> DEFINE Here == part = "config"
             Only == Here => DC!ChangesOnlyItsSetting
  <1>1. (Here => DcInv) /\ [Next]_vars => [Only]_vars
    <2>1. ASSUME DcInv, Here, Next PROVE DC!ChangesOnlyItsSetting
      <3>1. DC!DcNext \/ UNCHANGED DC!dcVars
        BY <2>1 DEF Next, DC!dcVars
      <3>2. CASE UNCHANGED DC!dcVars
        BY <3>2 DEF DC!dcVars, DC!ChangesOnlyItsSetting
      <3>3. QED BY <2>1, <3>1, <3>2, DcChanges
    <2>2. QED BY <2>1
  <1>2. QED BY <1>1, DcAlways, PTL DEF Spec, ChangesOnlyItsSetting

-----------------------------------------------------------------------------
(* The replication slots of members.                                        *)

MsDcs == [leader : Nodes \cup {None}, members : SUBSET Nodes, retain : [Nodes -> Nat], away : [Nodes -> Nat],
          covered : SUBSET Nodes, changes : Nat]
MsTypeOK ==
  /\ msdcs \in MsDcs /\ DOMAIN wal = Nodes
  /\ DOMAIN slots = Nodes /\ \A n \in Nodes : DOMAIN slots[n] = Nodes

(* Who is away has neither a member key nor the leader key.                 *)
MsAway == msdcs.covered \cap msdcs.members = {} /\ msdcs.leader \in msdcs.members \cup {None}

(* While a member is away for less than member_slots_ttl, its name stays in *)
(* the /status key, for as long as it may still come back, and every other  *)
(* node has the slot it had when the member left.                           *)
MsKept(m) ==
  /\ m \in status.retain /\ msdcs.retain[m] + msdcs.away[m] >= SlotsTtl
  /\ \A n \in Nodes \ {m} : slots[n][m] # None /\ slots[n][m] <= wal[m]
MsHeld == \A m \in msdcs.covered : msdcs.away[m] < SlotsTtl => MsKept(m)

MsInv == MsTypeOK /\ MsAway /\ MsHeld

MsGiven == SlotsTtl \in Nat /\ None \notin Nodes /\ First \in Nodes

(* The fields of a typed state.                                             *)
LEMMA MsFacts ==
  ASSUME MsTypeOK
  PROVE  /\ msdcs.leader \in Nodes \cup {None} /\ msdcs.members \in SUBSET Nodes /\ msdcs.covered \in SUBSET Nodes
         /\ msdcs.retain \in [Nodes -> Nat] /\ msdcs.away \in [Nodes -> Nat] /\ msdcs.changes \in Nat
  BY DEF MsTypeOK, MsDcs

(* The slot of an absent member whose name is retained is left alone: there *)
(* is nothing to advance it with.                                           *)
LEMMA MsSlotKept ==
  ASSUME MsTypeOK, NEW n \in Nodes, MS!SyncReplicationSlots(n),
         NEW m \in Nodes \ {n}, m \notin msdcs.members, m \in status.retain, slots[n][m] # None
  PROVE  slots'[n][m] = slots[n][m]
  <1>1. m \in MS!GetMembersSlots(n)
    BY DEF MS!GetMembersSlots
  <1>2. MS!SlotLsn(n, m) = None
    BY DEF MS!SlotLsn
  <1>3. MS!EnsurePhysicalSlots(n, m) = slots[n][m]
    BY <1>2 DEF MS!EnsurePhysicalSlots
  <1>4. slots'[n] = [k \in Nodes |-> IF k \in MS!GetMembersSlots(n) THEN MS!EnsurePhysicalSlots(n, k) ELSE None]
    BY DEF MS!SyncReplicationSlots, MsTypeOK
  <1>5. QED BY <1>1, <1>3, <1>4

(* sync_replication_slots() of one node keeps the shape of the slots and    *)
(* those of all other nodes.                                                *)
LEMMA MsSlotsShape ==
  ASSUME MsTypeOK, NEW n \in Nodes, MS!SyncReplicationSlots(n)
  PROVE  /\ DOMAIN slots' = Nodes /\ \A k \in Nodes : DOMAIN slots'[k] = Nodes
         /\ \A k \in Nodes : k # n => slots'[k] = slots[k]
  BY DEF MS!SyncReplicationSlots, MsTypeOK

LEMMA MsStart ==
  ASSUME MsGiven, MS!MsInit
  PROVE  MsInv
  <1>1. MsTypeOK /\ msdcs.covered = {} /\ msdcs.members = Nodes /\ msdcs.leader = First
    BY DEF MsGiven, MS!MsInit, MsTypeOK, MsDcs
  <1>2. QED BY <1>1 DEF MsGiven, MsInv, MsAway, MsHeld

(* A cycle of a node: the slots of absent members stay, on the leader too,  *)
(* which has their names in the list it has just written.                   *)
LEMMA MsCycleKeeps ==
  ASSUME MsGiven, MsInv, NEW n \in Nodes, MS!LeaderCycle(n) \/ MS!ReplicaCycle(n)
  PROVE  MsInv'
  <1>1. MsTypeOK /\ MsAway /\ MsHeld /\ n \in msdcs.members /\ MS!SyncReplicationSlots(n) /\ wal' = wal
    BY DEF MsInv, MS!LeaderCycle, MS!ReplicaCycle, MS!Alive
  <1>2. /\ msdcs' \in MsDcs /\ msdcs'.leader = msdcs.leader /\ msdcs'.members = msdcs.members
        /\ msdcs'.covered = msdcs.covered /\ msdcs'.away = msdcs.away
        /\ \A m \in Nodes \ msdcs.members : msdcs'.retain[m] = msdcs.retain[m]
        /\ \A m \in Nodes \ msdcs.members : m \in status.retain /\ msdcs.retain[m] > 0 => m \in status'.retain
    <2>1. CASE MS!LeaderCycle(n)
      <3>1. MS!BuildRetainSlots \in [Nodes -> Nat]
        BY <1>1, MsFacts DEF MS!BuildRetainSlots, MsGiven
      <3>2. \A m \in Nodes \ msdcs.members : MS!BuildRetainSlots[m] = msdcs.retain[m]
        BY DEF MS!BuildRetainSlots
      <3>3. msdcs' = [msdcs EXCEPT !.retain = MS!BuildRetainSlots]
            /\ status'.retain = {m \in Nodes : msdcs.retain'[m] > 0}
        BY <2>1 DEF MS!LeaderCycle, MS!WriteStatus
      <3> HIDE DEF MS!BuildRetainSlots
      <3>4. /\ msdcs' \in MsDcs /\ msdcs'.leader = msdcs.leader /\ msdcs'.members = msdcs.members
            /\ msdcs'.covered = msdcs.covered /\ msdcs'.away = msdcs.away /\ msdcs'.retain = MS!BuildRetainSlots
        BY <1>1, <3>1, <3>3 DEF MsTypeOK, MsDcs
      <3>5. QED BY <3>2, <3>3, <3>4
    <2>2. CASE MS!ReplicaCycle(n)
      BY <1>1, <2>2 DEF MS!ReplicaCycle, MsTypeOK
    <2>3. QED BY <2>1, <2>2
  <1>3. MsTypeOK'
    BY <1>1, <1>2, MsSlotsShape DEF MsTypeOK
  <1>4. MsHeld'
    <2>1. SUFFICES ASSUME NEW m \in msdcs.covered, msdcs.away[m] < SlotsTtl PROVE MsKept(m)'
      BY <1>2 DEF MsHeld
    <2>2. m \in Nodes /\ m \notin msdcs.members /\ m # n /\ MsKept(m)
          /\ msdcs.retain[m] \in Nat /\ msdcs.away[m] \in Nat
      BY <1>1, <2>1, MsFacts DEF MsAway, MsHeld
    <2>3. msdcs.retain[m] > 0
      BY <2>1, <2>2 DEF MsKept, MsGiven
    <2>4. m \in status'.retain /\ msdcs'.retain[m] + msdcs'.away[m] >= SlotsTtl
      BY <1>2, <2>2, <2>3 DEF MsKept
    <2>5. ASSUME NEW k \in Nodes \ {m} PROVE slots'[k][m] = slots[k][m]
      <3>1. CASE k = n
        BY <1>1, <2>2, <3>1, MsSlotKept DEF MsKept
      <3>2. CASE k # n
        BY <1>1, <3>2, MsSlotsShape
      <3>3. QED BY <3>1, <3>2
    <2>6. QED BY <1>1, <2>2, <2>4, <2>5 DEF MsKept
  <1>5. MsAway'
    BY <1>1, <1>2 DEF MsAway
  <1>6. QED BY <1>3, <1>4, <1>5 DEF MsInv

(* A step that leaves the slots and the /status key alone, and WAL of who   *)
(* is away: what is known of an absent member is kept if its time is.       *)
LEMMA MsDcsStep ==
  ASSUME MsGiven, MsInv, slots' = slots, status' = status, wal' = wal, msdcs' \in MsDcs, MsAway',
         \A m \in msdcs'.covered : msdcs'.away[m] < SlotsTtl => MsKept(m)'
  PROVE  MsInv'
  <1>1. MsTypeOK'
    BY DEF MsInv, MsTypeOK
  <1>2. QED BY <1>1 DEF MsInv, MsHeld


(* A new leader retains the names in the /status key for another ttl.       *)
LEMMA MsAcquire ==
  ASSUME MsGiven, MsInv, NEW n \in Nodes, MS!AcquireLeaderLock(n)
  PROVE  MsInv'
  <1> DEFINE retain == [m \in Nodes |-> IF m \in status.retain THEN SlotsTtl ELSE 0]
  <1>1. /\ MsTypeOK /\ MsAway /\ MsHeld /\ n \in msdcs.members
        /\ msdcs' = [msdcs EXCEPT !.leader = n, !.retain = retain] /\ slots' = slots /\ status' = status /\ wal' = wal
    BY DEF MsInv, MS!AcquireLeaderLock, MS!Alive
  <1>2. retain \in [Nodes -> Nat] /\ \A m \in Nodes : m \in status.retain => retain[m] = SlotsTtl
    BY DEF MsGiven
  <1> HIDE DEF retain
  <1>3. /\ msdcs' \in MsDcs /\ msdcs'.leader = n /\ msdcs'.members = msdcs.members /\ msdcs'.retain = retain
        /\ msdcs'.covered = msdcs.covered /\ msdcs'.away = msdcs.away
    BY <1>1, <1>2 DEF MsTypeOK, MsDcs
  <1>4. ASSUME NEW m \in msdcs'.covered, msdcs'.away[m] < SlotsTtl PROVE MsKept(m)'
    <2>1. m \in Nodes /\ MsKept(m) /\ msdcs.away[m] \in Nat
      BY <1>1, <1>3, <1>4, MsFacts DEF MsHeld
    <2>2. retain[m] + msdcs.away[m] >= SlotsTtl
      BY <1>2, <2>1 DEF MsKept, MsGiven
    <2>3. QED BY <1>1, <1>3, <2>1, <2>2 DEF MsKept
  <1>5. MsAway'
    BY <1>1, <1>3 DEF MsAway
  <1>6. QED BY <1>1, <1>3, <1>4, <1>5, MsDcsStep

(* A member goes away: it is covered if everything was in place.            *)
LEMMA MsGoAway ==
  ASSUME MsGiven, MsInv, NEW g \in Nodes, MS!GoAway(g)
  PROVE  MsInv'
  <1> DEFINE cov == IF MS!Covered(g) THEN msdcs.covered \cup {g} ELSE msdcs.covered \ {g}
             lead == IF msdcs.leader = g THEN None ELSE msdcs.leader
             gone == [msdcs.away EXCEPT ![g] = 0]
  <1>1. /\ MsTypeOK /\ MsAway /\ MsHeld
        /\ msdcs' = [msdcs EXCEPT !.members = msdcs.members \ {g}, !.changes = msdcs.changes + 1, !.away = gone,
                                  !.leader = lead, !.covered = cov]
        /\ slots' = slots /\ status' = status /\ wal' = wal
    BY MsFacts DEF MsInv, MS!GoAway, MsTypeOK, MsDcs
  <1>2. /\ gone \in [Nodes -> Nat] /\ gone[g] = 0 /\ \A m \in Nodes : m # g => gone[m] = msdcs.away[m]
        /\ cov \in SUBSET Nodes /\ lead \in Nodes \cup {None} /\ msdcs.changes + 1 \in Nat
        /\ \A m \in cov : m = g \/ m \in msdcs.covered
        /\ g \in cov => MS!Covered(g)
    BY <1>1, MsFacts
  <1>3. lead \in (msdcs.members \ {g}) \cup {None} /\ cov \cap (msdcs.members \ {g}) = {}
    BY <1>1 DEF MsAway
  <1> HIDE DEF cov, lead, gone
  <1>4. /\ msdcs' \in MsDcs /\ msdcs'.leader = lead /\ msdcs'.members = msdcs.members \ {g}
        /\ msdcs'.retain = msdcs.retain /\ msdcs'.covered = cov /\ msdcs'.away = gone
    BY <1>1, <1>2, MsFacts DEF MsTypeOK, MsDcs
  <1>5. ASSUME NEW m \in msdcs'.covered, msdcs'.away[m] < SlotsTtl PROVE MsKept(m)'
    <2>1. CASE m = g
      <3>1. MS!Covered(g) /\ gone[g] = 0
        BY <1>2, <1>4, <1>5, <2>1
      <3>2. msdcs.retain[g] + gone[g] >= SlotsTtl
        BY <3>1 DEF MS!Covered, MsGiven
      <3>3. QED BY <1>1, <1>4, <2>1, <3>1, <3>2 DEF MsKept, MS!Covered
    <2>2. CASE m # g
      <3>1. m \in Nodes /\ m \in msdcs.covered /\ gone[m] = msdcs.away[m]
        BY <1>2, <1>4, <1>5, <2>2
      <3>2. MsKept(m)
        BY <1>1, <1>4, <1>5, <3>1 DEF MsHeld
      <3>3. QED BY <1>1, <1>4, <3>1, <3>2 DEF MsKept
    <2>3. QED BY <2>1, <2>2
  <1>6. MsAway'
    BY <1>3, <1>4 DEF MsAway
  <1>7. QED BY <1>1, <1>4, <1>5, <1>6, MsDcsStep

(* A member comes back, or the leader key is lost.                          *)
LEMMA MsChange ==
  ASSUME MsGiven, MsInv, (\E m \in Nodes : MS!ComeBack(m)) \/ MS!Failover
  PROVE  MsInv'
  <1>1. /\ MsTypeOK /\ MsAway /\ MsHeld /\ slots' = slots /\ status' = status /\ wal' = wal
    BY DEF MsInv, MS!ComeBack, MS!Failover
  <1>2. /\ msdcs' \in MsDcs /\ msdcs'.retain = msdcs.retain /\ msdcs'.away = msdcs.away
        /\ msdcs'.covered \subseteq msdcs.covered
        /\ msdcs'.covered \cap msdcs'.members = {} /\ msdcs'.leader \in msdcs'.members \cup {None}
    <2>1. ASSUME NEW m \in Nodes, MS!ComeBack(m)
          PROVE  /\ msdcs' \in MsDcs /\ msdcs'.retain = msdcs.retain /\ msdcs'.away = msdcs.away
                 /\ msdcs'.covered = msdcs.covered \ {m} /\ msdcs'.members = msdcs.members \cup {m}
                 /\ msdcs'.leader = msdcs.leader
      BY <1>1, <2>1, MsFacts DEF MS!ComeBack, MsTypeOK, MsDcs
    <2>2. ASSUME MS!Failover
          PROVE  /\ msdcs' \in MsDcs /\ msdcs'.retain = msdcs.retain /\ msdcs'.away = msdcs.away
                 /\ msdcs'.covered = msdcs.covered /\ msdcs'.members = msdcs.members /\ msdcs'.leader = None
      <3>1. msdcs' = [msdcs EXCEPT !.leader = None, !.changes = msdcs.changes + 1] /\ msdcs.changes + 1 \in Nat
        BY <1>1, <2>2, MsFacts DEF MS!Failover
      <3>2. QED BY <1>1, <3>1 DEF MsTypeOK, MsDcs
    <2>3. QED BY <1>1, <2>1, <2>2 DEF MsAway
  <1>3. ASSUME NEW m \in msdcs'.covered, msdcs'.away[m] < SlotsTtl PROVE MsKept(m)'
    BY <1>1, <1>2, <1>3 DEF MsHeld, MsKept
  <1>4. MsAway'
    BY <1>2 DEF MsAway
  <1>5. QED BY <1>1, <1>2, <1>3, <1>4, MsDcsStep

(* Time passes: what a name has left goes down as its absence goes up.      *)
LEMMA MsTick ==
  ASSUME MsGiven, MsInv, MS!Tick
  PROVE  MsInv'
  <1> DEFINE rest == [m \in Nodes |-> IF msdcs.retain[m] = 0 \/ m \in msdcs.members THEN msdcs.retain[m]
                                      ELSE msdcs.retain[m] - 1]
             gone == [m \in Nodes |-> IF m \in msdcs.members \/ msdcs.away[m] = SlotsTtl THEN msdcs.away[m]
                                      ELSE msdcs.away[m] + 1]
  <1>1. /\ MsTypeOK /\ MsAway /\ MsHeld /\ slots' = slots /\ status' = status /\ wal' = wal
        /\ msdcs' = [msdcs EXCEPT !.retain = rest, !.away = gone]
    BY DEF MsInv, MS!Tick, MsTypeOK, MsDcs, MS!Alive
  <1>2. \A m \in Nodes : msdcs.retain[m] \in Nat /\ msdcs.away[m] \in Nat
    BY <1>1, MsFacts
  <1>3. rest \in [Nodes -> Nat] /\ gone \in [Nodes -> Nat]
    BY <1>2
  <1>4. \A m \in Nodes : gone[m] < SlotsTtl /\ m \notin msdcs.members
          => msdcs.away[m] < SlotsTtl /\ (msdcs.retain[m] + msdcs.away[m] >= SlotsTtl => rest[m] + gone[m] >= SlotsTtl)
    BY <1>2 DEF MsGiven
  <1> HIDE DEF rest, gone
  <1>5. /\ msdcs' \in MsDcs /\ msdcs'.leader = msdcs.leader /\ msdcs'.members = msdcs.members
        /\ msdcs'.covered = msdcs.covered /\ msdcs'.retain = rest /\ msdcs'.away = gone
    BY <1>1, <1>3 DEF MsTypeOK, MsDcs
  <1>6. ASSUME NEW m \in msdcs'.covered, msdcs'.away[m] < SlotsTtl PROVE MsKept(m)'
    <2>1. m \in msdcs.covered /\ m \in Nodes /\ m \notin msdcs.members /\ gone[m] < SlotsTtl
      BY <1>1, <1>5, <1>6, MsFacts DEF MsAway
    <2>2. MsKept(m)
      BY <1>1, <1>4, <2>1 DEF MsHeld
    <2>3. QED BY <1>1, <1>4, <1>5, <2>1, <2>2 DEF MsKept
  <1>7. MsAway'
    BY <1>1, <1>5 DEF MsAway
  <1>8. QED BY <1>1, <1>5, <1>6, <1>7, MsDcsStep

(* PostgreSQL writes and streams: only members do.                          *)
LEMMA MsWal ==
  ASSUME MsGiven, MsInv, NEW n \in Nodes, MS!WriteWal(n) \/ MS!Stream(n)
  PROVE  MsInv'
  <1>1. /\ MsTypeOK /\ MsAway /\ MsHeld /\ n \in msdcs.members /\ status' = status /\ msdcs' = msdcs
        /\ wal' = [wal EXCEPT ![n] = wal[n] + 1]
    BY DEF MsInv, MS!WriteWal, MS!Stream, MS!Alive
  <1>2. DOMAIN wal' = Nodes /\ \A m \in Nodes : m # n => wal'[m] = wal[m]
    BY <1>1 DEF MsTypeOK
  <1>3. /\ DOMAIN slots' = Nodes /\ \A k \in Nodes : DOMAIN slots'[k] = Nodes
        /\ \A k, m \in Nodes : m # n => slots'[k][m] = slots[k][m]
    <2>1. CASE MS!WriteWal(n)
      BY <1>1, <2>1 DEF MS!WriteWal, MsTypeOK
    <2>2. CASE MS!Stream(n)
      <3>1. PICK v : slots' = [slots EXCEPT ![msdcs.leader][n] = v]
        BY <2>2 DEF MS!Stream
      <3>2. QED BY <1>1, <3>1 DEF MsTypeOK
    <2>3. QED BY <2>1, <2>2
  <1>4. MsTypeOK'
    BY <1>1, <1>2, <1>3 DEF MsTypeOK
  <1>5. MsHeld'
    <2>1. SUFFICES ASSUME NEW m \in msdcs.covered, msdcs.away[m] < SlotsTtl PROVE MsKept(m)'
      BY <1>1 DEF MsHeld
    <2>2. m \in Nodes /\ m # n /\ MsKept(m)
      BY <1>1, <2>1, MsFacts DEF MsAway, MsHeld
    <2>3. QED BY <1>1, <1>2, <1>3, <2>2 DEF MsKept
  <1>6. MsAway'
    BY <1>1 DEF MsAway
  <1>7. QED BY <1>4, <1>5, <1>6 DEF MsInv

LEMMA MsStep ==
  ASSUME MsGiven, MsInv, [MS!MsNext]_(MS!msVars)
  PROVE  MsInv'
  <1>1. CASE MS!MsNext
    BY <1>1, MsCycleKeeps, MsAcquire, MsWal, MsGoAway, MsChange, MsTick DEF MS!MsNext, MS!MsCycle
  <1>2. CASE UNCHANGED MS!msVars
    <2>1. wal' = wal /\ slots' = slots /\ status' = status /\ msdcs' = msdcs
      BY <1>2 DEF MS!msVars
    <2>2. QED BY <2>1 DEF MsInv, MsTypeOK, MsAway, MsHeld, MsKept
  <1>3. QED BY <1>1, <1>2

(* A member that was away for less than member_slots_ttl, and whose slots   *)
(* were complete when it left, finds on the leader a slot that has kept all *)
(* WAL it needs, whatever failovers there were: for any number of nodes and *)
(* any member_slots_ttl.                                                    *)
THEOREM MemberSlotsRetained ==
  ASSUME SlotsTtl \in Nat, None \notin Nodes, First \in Nodes
  PROVE  Spec => []WalRetained
  <1> DEFINE Here == part = "member slots"
  <1>1. MsGiven
    BY DEF MsGiven
  <1>2. Init /\ Here => MsInv
    BY <1>1, MsStart DEF Init
  <1>3. Here /\ [Next]_vars => Here' /\ [MS!MsNext]_(MS!msVars)
    BY DEF Next, vars, msVars, MS!msVars
  <1>4. ~Here /\ [Next]_vars => ~Here'
    BY DEF Next, vars
  <1>5. MsInv /\ [MS!MsNext]_(MS!msVars) => MsInv'
    BY <1>1, MsStep
  <1>6. (Here => MsInv) => WalRetained
    <2>1. ASSUME MsInv, NEW m \in msdcs.covered, msdcs.leader # None, msdcs.away[m] < SlotsTtl
          PROVE  slots[msdcs.leader][m] # None /\ slots[msdcs.leader][m] <= wal[m]
      <3>1. msdcs.leader \in Nodes \ {m} /\ MsKept(m)
        BY <2>1, MsFacts DEF MsInv, MsAway, MsHeld
      <3>2. QED BY <3>1 DEF MsKept
    <2>2. QED BY <2>1 DEF WalRetained, MS!WalRetained
  <1> HIDE DEF Here
  <1>7. QED BY <1>2, <1>3, <1>4, <1>5, <1>6, PTL DEF Spec

-----------------------------------------------------------------------------
(* The copy of a logical slot on a standby.                                 *)

LsPrim == [pos : Nat, flush : Nat, cx : Nat, phys : Nat \cup {None}, vac : Nat, dcs : Nat]
LsStby == [up : BOOLEAN, has : BOOLEAN, flush : Nat, cx : Nat, replay : Nat, role : {"replica", "primary"}, faults : Nat]
LsData == [flush : Nat, cx : Nat]
LsQueue == [value : Nat \cup {None}, force : BOOLEAN, create : BOOLEAN, data : LsData \cup {None}]
LsAdv == [sched : Nat \cup {None}, lsn : Nat, result : {"none", "done", "failed", "invalid"}, copy : BOOLEAN]

LsTypeOK == prim \in LsPrim /\ stby \in LsStby /\ queue \in LsQueue /\ adv \in LsAdv

(* No position that the copy has, or will get, is ahead of what the         *)
(* subscriber has confirmed: not the one in the /status key, the one that   *)
(* is scheduled, the one the thread holds, or the one that was read.        *)
LsConfirmed ==
  /\ prim.dcs <= prim.flush /\ adv.lsn <= prim.flush
  /\ stby.has => stby.flush <= prim.flush
  /\ adv.sched # None => adv.sched <= prim.flush
  /\ queue.data # None => queue.data.flush <= prim.flush

(* The physical slot holds back vacuum on the primary as soon as it has a   *)
(* catalog_xmin.  A copy that waits has remembered a catalog_xmin that      *)
(* nothing was vacuumed beyond unless the physical slot is; a copy that is  *)
(* ready is held by the physical slot.                                      *)
LsChecked ==
  /\ prim.vac <= prim.cx
  /\ stby.role = "replica" /\ stby.up /\ ~queue.force =>
       /\ queue.value \notin {None, 0} =>
            stby.has /\ prim.phys # None /\ (prim.vac <= queue.value \/ prim.vac <= prim.phys)
       /\ queue.value = None /\ stby.has => prim.phys # None /\ prim.phys <= stby.cx /\ prim.vac <= stby.cx

LsInv == LsTypeOK /\ LsConfirmed /\ LsChecked

(* The fields of a typed state.                                             *)
LEMMA LsFacts ==
  ASSUME LsTypeOK
  PROVE  /\ prim.pos \in Nat /\ prim.flush \in Nat /\ prim.cx \in Nat /\ prim.phys \in Nat \cup {None}
         /\ prim.vac \in Nat /\ prim.dcs \in Nat
         /\ stby.up \in BOOLEAN /\ stby.has \in BOOLEAN /\ stby.flush \in Nat /\ stby.cx \in Nat
         /\ stby.replay \in Nat /\ stby.role \in {"replica", "primary"} /\ stby.faults \in Nat
         /\ queue.value \in Nat \cup {None} /\ queue.force \in BOOLEAN /\ queue.data \in LsData \cup {None}
         /\ adv.sched \in Nat \cup {None} /\ adv.lsn \in Nat /\ adv.copy \in BOOLEAN
  BY DEF LsTypeOK, LsPrim, LsStby, LsQueue, LsAdv

(* The smaller and the larger of two numbers.                               *)
LEMMA LsMinMax ==
  ASSUME NEW a \in Nat, NEW b \in Nat
  PROVE  /\ LS!Min({a, b}) \in Nat /\ LS!Min({a, b}) <= a /\ LS!Min({a, b}) <= b
         /\ LS!Max({a, b}) \in {a, b}
         /\ LS!Max({a, b}) >= a /\ LS!Max({a, b}) >= b
  <1>1. LS!Min({a, b}) = IF a <= b THEN a ELSE b
    BY DEF LS!Min
  <1>2. LS!Max({a, b}) = IF a >= b THEN a ELSE b
    BY DEF LS!Max
  <1>3. QED BY <1>1, <1>2

LEMMA LsStart ==
  ASSUME None \notin Nat, LS!LsInit
  PROVE  LsInv
  <1>1. LsTypeOK
    <2>1. stby \in LsStby
      <3>1. PICK h \in BOOLEAN : stby = [up |-> TRUE, has |-> h, flush |-> 1, cx |-> 1, replay |-> 1,
                                        role |-> "replica", faults |-> 0]
        BY DEF LS!LsInit
      <3>2. QED BY <3>1 DEF LsStby
    <2>2. prim \in LsPrim
      BY DEF LS!LsInit, LsPrim
    <2>3. queue \in LsQueue /\ adv \in LsAdv
      BY DEF LS!LsInit, LsQueue, LsAdv
    <2>4. QED BY <2>1, <2>2, <2>3 DEF LsTypeOK
  <1>2. QED BY <1>1 DEF LS!LsInit, LsInv, LsConfirmed, LsChecked

(* A step of the primary that does not vacuum: positions go up, and the     *)
(* catalog_xmin of the physical slot does too.                              *)
LsOnward ==
  /\ prim' \in LsPrim /\ stby' = stby /\ queue' = queue /\ adv' = adv
  /\ prim'.flush >= prim.flush /\ prim'.cx >= prim.cx /\ prim'.dcs \in {prim.dcs, prim.flush} /\ prim'.vac = prim.vac
  /\ prim'.phys = prim.phys

LEMMA LsOnwardKeeps ==
  ASSUME LsInv, LsOnward
  PROVE  LsInv'
  <1>1. LsTypeOK /\ LsTypeOK'
    BY DEF LsInv, LsTypeOK, LsOnward
  <1>2. prim'.flush \in Nat /\ prim'.cx \in Nat
    BY DEF LsOnward, LsPrim
  <1>3. LsConfirmed'
    BY <1>1, <1>2, LsFacts DEF LsInv, LsConfirmed, LsOnward, LsData
  <1>4. LsChecked'
    BY <1>1, <1>2, LsFacts DEF LsInv, LsChecked, LsOnward
  <1>5. QED BY <1>1, <1>3, <1>4 DEF LsInv

LEMMA LsPrimary ==
  ASSUME LsInv, LS!Write \/ LS!Consume \/ LS!ProcessPermanentSlots
  PROVE  LsInv'
  <1>1. prim \in LsPrim /\ stby' = stby /\ queue' = queue /\ adv' = adv
    BY DEF LsInv, LsTypeOK, LS!Write, LS!Consume, LS!ProcessPermanentSlots
  <1>2. LsOnward
    <2>1. CASE LS!Write
      BY <1>1, <2>1 DEF LS!Write, LsOnward, LsPrim
    <2>2. CASE LS!Consume
      <3>1. PICK x \in prim.cx..prim.flush + 1 : prim' = [prim EXCEPT !.flush = prim.flush + 1, !.cx = x]
        BY <2>2 DEF LS!Consume
      <3>2. prim.cx \in Nat /\ prim.flush \in Nat
        BY <1>1 DEF LsPrim
      <3>3. x \in Nat /\ x >= prim.cx /\ prim.flush + 1 \in Nat /\ prim.flush + 1 >= prim.flush
        BY <3>2
      <3>4. QED BY <1>1, <3>1, <3>3 DEF LsOnward, LsPrim
    <2>3. CASE LS!ProcessPermanentSlots
      BY <1>1, <2>3 DEF LS!ProcessPermanentSlots, LsOnward, LsPrim
    <2>4. QED BY <2>1, <2>2, <2>3
  <1>3. QED BY <1>2, LsOnwardKeeps

(* Vacuum respects the logical slot, and the physical one if it holds       *)
(* anything.                                                                *)
LEMMA LsVacuum ==
  ASSUME LsInv, LS!Vacuum
  PROVE  LsInv'
  <1> DEFINE horizon == LS!Min({prim.cx} \cup ({prim.phys} \ {None}))
  <1>1. /\ prim' = [prim EXCEPT !.vac = horizon] /\ stby' = stby /\ queue' = queue /\ adv' = adv
    BY DEF LS!Vacuum
  <1>2. /\ horizon \in Nat /\ horizon <= prim.cx
        /\ prim.phys # None => horizon <= prim.phys
    <2>1. prim.cx \in Nat /\ prim.phys \in Nat \cup {None}
      BY LsFacts DEF LsInv
    <2>2. CASE prim.phys = None
      <3>1. {prim.cx} \cup ({prim.phys} \ {None}) = {prim.cx, prim.cx}
        BY <2>2
      <3>2. QED BY <2>1, <2>2, <3>1, LsMinMax
    <2>3. CASE prim.phys # None
      <3>1. {prim.cx} \cup ({prim.phys} \ {None}) = {prim.cx, prim.phys}
        BY <2>3
      <3>2. QED BY <2>1, <2>3, <3>1, LsMinMax
    <2>4. QED BY <2>2, <2>3
  <1> HIDE DEF horizon
  <1>3. /\ prim' \in LsPrim /\ prim'.vac = horizon /\ prim'.cx = prim.cx /\ prim'.phys = prim.phys
        /\ prim'.flush = prim.flush /\ prim'.dcs = prim.dcs
    BY <1>1, <1>2 DEF LsInv, LsTypeOK, LsPrim
  <1>4. LsTypeOK'
    BY <1>1, <1>3 DEF LsInv, LsTypeOK
  <1>5. LsConfirmed'
    BY <1>1, <1>3 DEF LsInv, LsConfirmed
  <1>6. LsChecked'
    <2>1. prim.phys \in Nat \cup {None} /\ stby.cx \in Nat
      BY LsFacts DEF LsInv
    <2>2. QED BY <1>1, <1>2, <1>3, <2>1 DEF LsInv, LsChecked
  <1>7. QED BY <1>4, <1>5, <1>6 DEF LsInv

(* The feedback of the standby moves the catalog_xmin of the physical slot  *)
(* forward, to the one of the copy; it is only taken away without a copy,   *)
(* or while the standby is down.                                            *)
LEMMA LsFeedback ==
  ASSUME None \notin Nat, LsInv, LS!HotStandbyFeedback \/ LS!DropPhysicalSlot
  PROVE  LsInv'
  <1>1. PICK v : prim' = [prim EXCEPT !.phys = v] /\ stby' = stby /\ queue' = queue /\ adv' = adv
                 /\ \/ v = None /\ (~stby.has \/ ~stby.up)
                    \/ v = stby.cx /\ (prim.phys # None => prim.phys < v)
    <2>1. CASE LS!HotStandbyFeedback
      <3> DEFINE cx == IF stby.has THEN stby.cx ELSE None
      <3>1. prim' = [prim EXCEPT !.phys = cx] /\ stby' = stby /\ queue' = queue /\ adv' = adv
            /\ (cx = None \/ (prim.phys # None => prim.phys < cx))
        BY <2>1 DEF LS!HotStandbyFeedback
      <3>2. CASE stby.has
        <4>1. cx = stby.cx
          BY <3>2
        <4>2. stby.cx \in Nat
          BY LsFacts DEF LsInv
        <4>3. QED BY <3>1, <4>1, <4>2
      <3>3. CASE ~stby.has
        BY <3>1, <3>3
      <3>4. QED BY <3>2, <3>3
    <2>2. CASE LS!DropPhysicalSlot
      BY <2>2 DEF LS!DropPhysicalSlot
    <2>3. QED BY <2>1, <2>2
  <1>2. v \in Nat \cup {None} /\ prim.phys \in Nat \cup {None} /\ prim.vac \in Nat /\ stby.cx \in Nat
        /\ queue.value \in Nat \cup {None}
    BY <1>1, LsFacts DEF LsInv
  <1>3. /\ prim' \in LsPrim /\ prim'.vac = prim.vac /\ prim'.cx = prim.cx /\ prim'.phys = v
        /\ prim'.flush = prim.flush /\ prim'.dcs = prim.dcs
    BY <1>1, <1>2 DEF LsInv, LsTypeOK, LsPrim
  <1>4. LsTypeOK'
    BY <1>1, <1>3 DEF LsInv, LsTypeOK
  <1>5. LsConfirmed'
    BY <1>1, <1>3 DEF LsInv, LsConfirmed
  <1>6. LsChecked'
    <2>1. CASE v = None
      BY <1>1, <1>2, <1>3, <2>1 DEF LsInv, LsChecked
    <2>2. CASE v = stby.cx /\ (prim.phys # None => prim.phys < v)
      BY <1>1, <1>2, <1>3, <2>2 DEF LsInv, LsChecked
    <2>3. QED BY <1>1, <2>1, <2>2
  <1>7. QED BY <1>4, <1>5, <1>6 DEF LsInv


(* The check of readiness: what is left in the queue afterwards.            *)
LEMMA LsReadiness ==
  ASSUME None \notin Nat, LsInv, stby.role = "replica", stby.up, NEW v, v = LS!CheckLogicalSlotsReadiness
  PROVE  /\ v \in Nat \cup {None}
         /\ v \notin {None, 0} => stby.has /\ prim.phys # None /\ (prim.vac <= v \/ prim.vac <= prim.phys)
         /\ v = None /\ stby.has => prim.phys # None /\ prim.phys <= stby.cx /\ prim.vac <= stby.cx
  <1> DEFINE value == IF ~queue.force THEN queue.value ELSE IF stby.has THEN 0 ELSE None
  <1>1. /\ prim.phys \in Nat \cup {None} /\ prim.vac \in Nat /\ stby.cx \in Nat /\ prim.cx \in Nat
        /\ queue.value \in Nat \cup {None} /\ prim.vac <= prim.cx
    BY LsFacts DEF LsInv, LsChecked
  <1>2. /\ value \in Nat \cup {None}
        /\ value \notin {None, 0} => stby.has /\ prim.phys # None /\ (prim.vac <= value \/ prim.vac <= prim.phys)
        /\ value = None /\ stby.has => prim.phys # None /\ prim.phys <= stby.cx /\ prim.vac <= stby.cx
    BY <1>1 DEF LsInv, LsChecked
  <1>3. v = CASE value = None -> None
              [] value # None /\ prim.phys = None -> value
              [] OTHER -> IF LS!Ready(value) THEN None ELSE LS!Remembered(value)
    BY DEF LS!CheckLogicalSlotsReadiness
  <1> HIDE DEF value
  <1>4. CASE value = None
    <2>1. v = None
      BY <1>3, <1>4
    <2>2. QED BY <1>2, <1>4, <2>1
  <1>5. CASE value # None /\ prim.phys = None
    <2>1. v = value
      BY <1>3, <1>5
    <2>2. QED BY <1>2, <1>5, <2>1
  <1>6. CASE value # None /\ prim.phys # None
    <2>1. v = IF LS!Ready(value) THEN None ELSE LS!Remembered(value)
      BY <1>3, <1>6
    <2>2. LS!Remembered(value) \in Nat /\ (prim.vac <= LS!Remembered(value) \/ prim.vac <= prim.phys)
      BY <1>1, <1>2, <1>6 DEF LS!Remembered
    <2>3. CASE LS!Ready(value)
      <3>1. v = None
        BY <2>1, <2>3
      <3>2. stby.has => LS!Remembered(value) <= prim.phys /\ prim.phys <= stby.cx
        BY <2>3 DEF LS!Ready
      <3>3. prim.phys \in Nat
        BY <1>1, <1>6
      <3>4. QED BY <1>1, <1>6, <2>2, <3>1, <3>2, <3>3
    <2>4. CASE ~LS!Ready(value)
      <3>1. v = LS!Remembered(value) /\ stby.has
        BY <2>1, <2>4 DEF LS!Ready
      <3>2. QED BY <1>6, <2>2, <3>1
    <2>5. QED BY <2>3, <2>4
  <1>7. QED BY <1>4, <1>5, <1>6

LEMMA LsSync ==
  ASSUME None \notin Nat, LsInv, LS!SyncReplicationSlots
  PROVE  LsInv'
  <1>1. stby.role = "replica" /\ stby.up /\ prim' = prim /\ stby' = stby
    BY DEF LS!SyncReplicationSlots, LS!Replica
  <1>2. PICK v : /\ v = LS!CheckLogicalSlotsReadiness
                 /\ queue' = [value |-> v, force |-> FALSE, data |-> None, create |-> ~stby.has \/ adv.copy]
    BY DEF LS!SyncReplicationSlots
  <1>3. /\ v \in Nat \cup {None}
        /\ v \notin {None, 0} => stby.has /\ prim.phys # None /\ (prim.vac <= v \/ prim.vac <= prim.phys)
        /\ v = None /\ stby.has => prim.phys # None /\ prim.phys <= stby.cx /\ prim.vac <= stby.cx
    BY <1>1, <1>2, LsReadiness
  <1>4. PICK s : adv' = [adv EXCEPT !.copy = FALSE, !.sched = s] /\ s \in {adv.sched, LS!AdvanceValue}
    BY DEF LS!SyncReplicationSlots, LS!Schedule
  <1>5. LS!AdvanceValue \in Nat /\ LS!AdvanceValue <= prim.dcs
    BY LsFacts, LsMinMax DEF LsInv, LS!AdvanceValue
  <1>6. s \in Nat \cup {None} /\ (s # None => s <= prim.flush)
    <2>1. prim.dcs <= prim.flush /\ prim.dcs \in Nat /\ prim.flush \in Nat /\ adv.sched \in Nat \cup {None}
      BY LsFacts DEF LsInv, LsConfirmed
    <2>2. adv.sched # None => adv.sched <= prim.flush
      BY DEF LsInv, LsConfirmed
    <2>3. LS!AdvanceValue <= prim.flush
      BY <1>5, <2>1
    <2>4. QED BY <1>4, <1>5, <2>1, <2>2, <2>3
  <1>7. adv' \in LsAdv /\ adv'.sched = s /\ adv'.lsn = adv.lsn
    BY <1>4, <1>6 DEF LsInv, LsTypeOK, LsAdv
  <1>8. queue' \in LsQueue /\ queue'.value = v /\ queue'.data = None
    BY <1>2, <1>3, LsFacts DEF LsInv, LsQueue
  <1>9. LsTypeOK'
    BY <1>1, <1>7, <1>8 DEF LsInv, LsTypeOK
  <1>10. LsConfirmed'
    BY <1>1, <1>6, <1>7, <1>8 DEF LsInv, LsConfirmed
  <1>11. LsChecked'
    BY <1>1, <1>3, <1>8 DEF LsInv, LsChecked
  <1>12. QED BY <1>9, <1>10, <1>11 DEF LsInv

(* A step of the standby or of Patroni after which the copy is checked      *)
(* anew, or need not be, or is as it was.                                   *)
LsElsewhere ==
  /\ prim' = prim /\ stby' \in LsStby /\ queue' \in LsQueue /\ adv' \in LsAdv
  /\ stby'.has => stby'.flush <= prim.flush
  /\ adv'.lsn <= prim.flush /\ (adv'.sched # None => adv'.sched <= prim.flush)
  /\ queue'.data # None => queue'.data.flush <= prim.flush
  /\ \/ stby'.role # "replica" \/ ~stby'.up \/ queue'.force
     \/ /\ stby'.role = stby.role /\ stby'.up = stby.up /\ stby'.has = stby.has /\ stby'.cx >= stby.cx
        /\ queue'.value = queue.value /\ queue'.force = queue.force

LEMMA LsElsewhereKeeps ==
  ASSUME LsInv, LsElsewhere
  PROVE  LsInv'
  <1>1. LsTypeOK'
    BY DEF LsInv, LsTypeOK, LsElsewhere
  <1>2. LsConfirmed'
    BY DEF LsInv, LsConfirmed, LsElsewhere
  <1>3. LsChecked'
    <2>1. stby.cx \in Nat /\ stby'.cx \in Nat /\ prim.vac \in Nat /\ prim.phys \in Nat \cup {None}
      BY LsFacts DEF LsInv, LsElsewhere, LsStby
    <2>2. QED BY <2>1 DEF LsInv, LsChecked, LsElsewhere
  <1>4. QED BY <1>1, <1>2, <1>3 DEF LsInv

(* The positions of a state the invariant holds in.                         *)
LEMMA LsBounds ==
  ASSUME LsInv
  PROVE  /\ prim \in LsPrim /\ stby \in LsStby /\ queue \in LsQueue /\ adv \in LsAdv
         /\ adv.lsn <= prim.flush /\ (stby.has => stby.flush <= prim.flush)
         /\ adv.sched # None => adv.sched <= prim.flush
         /\ queue.data # None => queue.data.flush <= prim.flush
  BY DEF LsInv, LsTypeOK, LsConfirmed

(* The standby replays, stops and starts, and is promoted.                  *)
LEMMA LsStandby ==
  ASSUME LsInv, LS!Replay \/ LS!StopForCopy \/ LS!StopStandby \/ LS!StartStandby \/ LS!OnPromote
  PROVE  LsInv'
  <1>1. CASE LS!Replay
    <2>1. stby.replay + 1 \in Nat /\ stby.cx \in Nat
      BY LsFacts DEF LsInv
    <2>2. /\ stby' = [stby EXCEPT !.replay = stby.replay + 1] /\ prim' = prim /\ queue' = queue /\ adv' = adv
      BY <1>1 DEF LS!Replay
    <2>3. /\ stby' \in LsStby /\ stby'.has = stby.has /\ stby'.flush = stby.flush /\ stby'.cx = stby.cx
          /\ stby'.role = stby.role /\ stby'.up = stby.up
      BY <2>1, <2>2, LsBounds DEF LsStby
    <2>4. LsElsewhere
      BY <2>1, <2>2, <2>3, LsBounds DEF LsElsewhere
    <2>5. QED BY <2>4, LsElsewhereKeeps
  <1>2. CASE LS!StopForCopy
    <2>1. LsElsewhere
      BY <1>2, LsBounds DEF LS!StopForCopy, LsElsewhere, LsStby
    <2>2. QED BY <2>1, LsElsewhereKeeps
  <1>3. CASE LS!StopStandby
    <2>1. stby.faults + 1 \in Nat
      BY LsFacts DEF LsInv
    <2>2. LsElsewhere
      BY <1>3, <2>1, LsBounds DEF LS!StopStandby, LsElsewhere, LsStby
    <2>3. QED BY <2>2, LsElsewhereKeeps
  <1>4. CASE LS!StartStandby
    <2>1. LsElsewhere
      BY <1>4, LsBounds DEF LS!StartStandby, LsElsewhere, LsStby, LsQueue
    <2>2. QED BY <2>1, LsElsewhereKeeps
  <1>5. CASE LS!OnPromote
    <2>1. LsElsewhere
      BY <1>5, LsBounds DEF LS!OnPromote, LS!Clean, LsElsewhere, LsStby, LsAdv
    <2>2. QED BY <2>1, LsElsewhereKeeps
  <1>6. QED BY <1>1, <1>2, <1>3, <1>4, <1>5


(* The copy is read, and takes the place of the slot.                       *)
LEMMA LsCopy ==
  ASSUME LsInv, LS!ReadSlot \/ LS!CopyLogicalSlots
  PROVE  LsInv'
  <1>1. CASE LS!ReadSlot
    <2>1. /\ queue' = [queue EXCEPT !.data = [flush |-> prim.flush, cx |-> prim.cx], !.create = FALSE]
          /\ prim' = prim /\ stby' = stby /\ adv' = adv
      BY <1>1 DEF LS!ReadSlot
    <2>2. /\ queue' \in LsQueue /\ queue'.value = queue.value /\ queue'.force = queue.force
          /\ queue'.data.flush = prim.flush
      BY <2>1, LsBounds DEF LsQueue, LsData, LsPrim
    <2>3. stby.cx \in Nat /\ prim.flush \in Nat
      BY LsFacts DEF LsInv
    <2>4. LsElsewhere
      BY <2>1, <2>2, <2>3, LsBounds DEF LsElsewhere
    <2>5. QED BY <2>4, LsElsewhereKeeps
  <1>2. CASE LS!CopyLogicalSlots
    <2>1. /\ queue.data # None /\ prim' = prim
          /\ adv' = [adv EXCEPT !.sched = None, !.copy = FALSE]
          /\ stby' = [stby EXCEPT !.up = TRUE, !.has = TRUE, !.flush = queue.data.flush, !.cx = queue.data.cx]
          /\ queue' = [queue EXCEPT !.value = 0, !.force = TRUE, !.data = None]
      BY <1>2 DEF LS!CopyLogicalSlots, LS!Clean
    <2>2. queue.data.flush \in Nat /\ queue.data.cx \in Nat /\ queue.data.flush <= prim.flush
      BY <2>1, LsBounds DEF LsQueue, LsData
    <2>3. stby' \in LsStby /\ stby'.flush = queue.data.flush
      BY <2>1, <2>2, LsBounds DEF LsStby
    <2>4. queue' \in LsQueue /\ queue'.force /\ queue'.data = None
      BY <2>1, LsBounds DEF LsQueue
    <2>5. adv' \in LsAdv /\ adv'.lsn = adv.lsn /\ adv'.sched = None
      BY <2>1, LsBounds DEF LsAdv
    <2>6. LsElsewhere
      BY <2>1, <2>2, <2>3, <2>4, <2>5, LsBounds DEF LsElsewhere
    <2>7. QED BY <2>6, LsElsewhereKeeps
  <1>3. QED BY <1>1, <1>2

(* The thread advances the copy to the position it has taken, however late. *)
LEMMA LsThread ==
  ASSUME LsInv, LS!TakePosition \/ LS!AdvanceSlot \/ LS!SyncSlot
  PROVE  LsInv'
  <1>1. CASE LS!TakePosition
    <2>1. /\ adv.sched # None /\ prim' = prim /\ stby' = stby /\ queue' = queue
          /\ adv' = [adv EXCEPT !.lsn = adv.sched, !.result = "none"]
      BY <1>1 DEF LS!TakePosition
    <2>2. adv' \in LsAdv /\ adv'.lsn <= prim.flush /\ adv'.sched = adv.sched
      BY <2>1, LsBounds DEF LsAdv
    <2>3. stby.cx \in Nat
      BY LsFacts DEF LsInv
    <2>4. LsElsewhere
      BY <2>1, <2>2, <2>3, LsBounds DEF LsElsewhere
    <2>5. QED BY <2>4, LsElsewhereKeeps
  <1>2. CASE LS!AdvanceSlot
    <2>1. /\ prim' = prim /\ queue' = queue
          /\ \E r \in {"done", "failed", "invalid"} : adv' = [adv EXCEPT !.result = r]
      BY <1>2 DEF LS!AdvanceSlot
    <2>2. adv' \in LsAdv /\ adv'.lsn = adv.lsn /\ adv'.sched = adv.sched
      BY <2>1, LsBounds DEF LsAdv
    <2>3. /\ stby' \in LsStby /\ stby'.role = stby.role /\ stby'.up = stby.up /\ stby'.has = stby.has
          /\ stby'.cx >= stby.cx /\ (stby'.flush = stby.flush \/ stby'.flush = adv.lsn)
      <3>1. stby.cx \in Nat /\ stby.flush \in Nat /\ adv.lsn \in Nat /\ stby.faults \in Nat
        BY LsFacts DEF LsInv
      <3>2. CASE \E x \in stby.cx..LS!Max({stby.cx, adv.lsn}) :
                   stby' = [stby EXCEPT !.flush = LS!Max({stby.flush, adv.lsn}), !.cx = x]
        <4>1. PICK x \in stby.cx..LS!Max({stby.cx, adv.lsn}) :
                   stby' = [stby EXCEPT !.flush = LS!Max({stby.flush, adv.lsn}), !.cx = x]
          BY <3>2
        <4>2. LS!Max({stby.flush, adv.lsn}) \in {stby.flush, adv.lsn} /\ LS!Max({stby.cx, adv.lsn}) \in Nat
          BY <3>1, LsMinMax
        <4>3. x \in Nat /\ x >= stby.cx
          BY <3>1, <4>2
        <4>4. QED BY <3>1, <4>1, <4>2, <4>3, LsBounds DEF LsStby
      <3>3. CASE stby' = stby
        BY <3>1, <3>3, LsBounds
      <3>4. CASE stby' = [stby EXCEPT !.faults = stby.faults + 1]
        BY <3>1, <3>4, LsBounds DEF LsStby
      <3>5. QED BY <1>2, <3>2, <3>3, <3>4 DEF LS!AdvanceSlot
    <2>4. LsElsewhere
      BY <2>1, <2>2, <2>3, LsBounds DEF LsElsewhere
    <2>5. QED BY <2>4, LsElsewhereKeeps
  <1>3. CASE LS!SyncSlot
    <2>1. PICK s \in {0, None, adv.sched}, c \in BOOLEAN :
            /\ adv' = [lsn |-> 0, result |-> "none", copy |-> c, sched |-> s]
            /\ prim' = prim /\ stby' = stby /\ queue' = queue
      BY <1>3, LsFacts DEF LsInv, LS!SyncSlot
    <2>2. prim.flush \in Nat /\ stby.cx \in Nat /\ adv.sched \in Nat \cup {None}
      BY LsFacts DEF LsInv
    <2>3. adv' \in LsAdv /\ adv'.lsn = 0 /\ adv'.sched = s
      BY <2>1, <2>2 DEF LsAdv
    <2>4. 0 <= prim.flush /\ (s # None => s <= prim.flush)
      BY <2>1, <2>2, LsBounds
    <2>5. LsElsewhere
      BY <2>1, <2>2, <2>3, <2>4, LsBounds DEF LsElsewhere
    <2>6. QED BY <2>5, LsElsewhereKeeps
  <1>4. QED BY <1>1, <1>2, <1>3

(* Patroni is restarted and checks everything anew.                         *)
LEMMA LsRestart ==
  ASSUME LsInv, LS!RestartPatroni
  PROVE  LsInv'
  <1>1. /\ prim' = prim /\ stby' = [stby EXCEPT !.faults = stby.faults + 1] /\ stby.faults + 1 \in Nat
        /\ queue' = [value |-> None, force |-> TRUE, create |-> FALSE, data |-> None]
        /\ adv' = [sched |-> None, lsn |-> 0, result |-> "none", copy |-> FALSE] /\ prim.flush \in Nat
    BY LsFacts DEF LsInv, LS!RestartPatroni
  <1>2. stby' \in LsStby /\ stby'.has = stby.has /\ stby'.flush = stby.flush
    BY <1>1, LsBounds DEF LsStby
  <1>3. LsElsewhere
    BY <1>1, <1>2, LsBounds DEF LsElsewhere, LsQueue, LsAdv
  <1>4. QED BY <1>3, LsElsewhereKeeps

LEMMA LsStep ==
  ASSUME None \notin Nat, LsInv, [LS!LsNext]_(LS!lsVars)
  PROVE  LsInv'
  <1>1. CASE LS!LsNext
    BY <1>1, LsPrimary, LsVacuum, LsFeedback, LsSync, LsStandby, LsCopy, LsThread, LsRestart DEF LS!LsNext
  <1>2. CASE UNCHANGED LS!lsVars
    <2>1. prim' = prim /\ stby' = stby /\ queue' = queue /\ adv' = adv
      BY <1>2 DEF LS!lsVars
    <2>2. QED BY <2>1 DEF LsInv, LsTypeOK, LsConfirmed, LsChecked
  <1>3. QED BY <1>1, <1>2

(* A copied logical slot that on_promote() does not warn about needs no     *)
(* catalog rows that were vacuumed, and no copy is ahead of what the        *)
(* subscriber has confirmed, however late the thread acts, whatever is      *)
(* stopped, restarted or copied again: after any number of steps.           *)
THEOREM LogicalSlotUsable ==
  ASSUME None \notin Nat
  PROVE  Spec => []CopyIsUsable
  <1> DEFINE Here == part = "logical slots"
  <1>1. Init /\ Here => LsInv
    BY LsStart DEF Init
  <1>2. Here /\ [Next]_vars => Here' /\ [LS!LsNext]_(LS!lsVars)
    BY DEF Next, vars, lsVars, LS!lsVars
  <1>3. ~Here /\ [Next]_vars => ~Here'
    BY DEF Next, vars
  <1>4. LsInv /\ [LS!LsNext]_(LS!lsVars) => LsInv'
    BY LsStep
  <1>5. (Here => LsInv) => CopyIsUsable
    BY DEF CopyIsUsable, LS!CopyIsUsable, LS!ReadyIsSafe, LS!NothingSkipped, LS!Replica, LsInv, LsConfirmed, LsChecked
  <1> HIDE DEF Here
  <1>6. QED BY <1>1, <1>2, <1>3, <1>4, <1>5, PTL DEF Spec

-----------------------------------------------------------------------------
(* Citus.                                                                   *)

CtPaused(rows) == {i \in DOMAIN rows : rows[i][2]}
CtState(s) == /\ s = [ok |-> s.ok, rows |-> s.rows, pid |-> s.pid] /\ s.ok \in BOOLEAN
              /\ IsFiniteSet(DOMAIN s.rows)

(* A set of naturals that is not empty has a least element.                 *)
LEMMA LeastNat ==
  ASSUME NEW T \in SUBSET Nat, T # {}
  PROVE  \E m \in T : \A n \in T : m <= n
  <1>1. IsWellFoundedOn(OpToRel(<, Nat), Nat)
    BY NatLessThanWellFounded, Zenon
  <1>2. PICK m \in T : \A n \in T : ~(<<n, m>> \in OpToRel(<, Nat))
    BY <1>1, WFMin, Zenon
  <1>3. \A n \in T : ~(n < m)
    BY <1>2 DEF OpToRel
  <1>4. QED BY <1>3

(* A row that is written, a row that is removed.                            *)
LEMMA CtPut ==
  ASSUME NEW rows, IsFiniteSet(DOMAIN rows), NEW k, NEW row
  PROVE  /\ IsFiniteSet(DOMAIN CT!Put(rows, k, row))
         /\ CtPaused(CT!Put(rows, k, row)) = (CtPaused(rows) \ {k}) \cup {i \in {k} : row[2]}
  <1>1. DOMAIN CT!Put(rows, k, row) = DOMAIN rows \cup {k}
    BY DEF CT!Put
  <1>2. IsFiniteSet(DOMAIN rows \cup {k})
    BY FS_AddElement
  <1>3. \A i \in DOMAIN rows \cup {k} : CT!Put(rows, k, row)[i] = IF i = k THEN row ELSE rows[i]
    BY DEF CT!Put
  <1>4. QED BY <1>1, <1>2, <1>3 DEF CtPaused

LEMMA CtWithout ==
  ASSUME NEW rows, IsFiniteSet(DOMAIN rows), NEW ks
  PROVE  IsFiniteSet(DOMAIN CT!Without(rows, ks)) /\ CtPaused(CT!Without(rows, ks)) \subseteq CtPaused(rows)
  <1>1. DOMAIN CT!Without(rows, ks) = DOMAIN rows \ ks /\ DOMAIN rows \ ks \subseteq DOMAIN rows
    BY DEF CT!Without
  <1>2. IsFiniteSet(DOMAIN CT!Without(rows, ks))
    BY <1>1, FS_Subset
  <1>3. \A i \in DOMAIN rows \ ks : CT!Without(rows, ks)[i] = rows[i]
    BY DEF CT!Without
  <1>4. QED BY <1>1, <1>2, <1>3 DEF CtPaused

(* update_node(): only a demoted node with an id marks a row, and a primary *)
(* or secondary clears the mark of its own row.                             *)
LEMMA CtUpdateNode ==
  ASSUME NEW s, CtState(s), NEW node
  PROVE  LET t == CT!UpdateNode(s, node) IN
         /\ CtState(t) /\ (t.ok => s.ok)
         /\ CtPaused(t.rows) \subseteq CtPaused(s.rows) \cup (IF node.role = "demoted" THEN {node.id} \ {0} ELSE {})
         /\ t.ok /\ node.role \notin {"none", "demoted"} => CtPaused(t.rows) \subseteq CtPaused(s.rows) \ ({node.id} \ {0})
  <1> DEFINE t == CT!UpdateNode(s, node)
             rows == s.rows
             row == <<node.host, node.role = "demoted">>
             used == {i \in DOMAIN rows : rows[i] = row}
             free == CHOOSE i \in 1..CT!Cardinality(DOMAIN rows) + 1 : i \notin DOMAIN rows
  <1>0. IsFiniteSet(DOMAIN rows) /\ s = [ok |-> s.ok, rows |-> s.rows, pid |-> s.pid] /\ s.ok \in BOOLEAN
    BY DEF CtState
  <1>1. CASE ~s.ok
    BY <1>1 DEF CT!UpdateNode
  <1>2. CASE s.ok /\ node.role = "none"
    <2>1. t = [s EXCEPT !.ok = used # {}, !.rows = CT!Without(@, used)]
      BY <1>2 DEF CT!UpdateNode
    <2> HIDE DEF t, used
    <2>2. t = [ok |-> used # {}, rows |-> CT!Without(rows, used), pid |-> s.pid]
      BY <2>1, <1>0
    <2>3. IsFiniteSet(DOMAIN CT!Without(rows, used)) /\ CtPaused(CT!Without(rows, used)) \subseteq CtPaused(rows)
      BY <1>0, CtWithout
    <2>4. t.ok \in BOOLEAN /\ t.rows = CT!Without(rows, used) /\ t.pid = s.pid /\ t.ok = (used # {})
      BY <2>2
    <2>5. CtState(t)
      BY <2>2, <2>3, <2>4 DEF CtState
    <2>6. QED BY <1>2, <2>3, <2>4, <2>5 DEF t
  <1>3. CASE s.ok /\ node.role # "none" /\ node.id # 0
    <2>1. t = [s EXCEPT !.ok = node.id \in DOMAIN rows /\ used \ {node.id} = {}, !.rows = CT!Put(@, node.id, row)]
      BY <1>3 DEF CT!UpdateNode
    <2> DEFINE d == node.role = "demoted"
               fine == node.id \in DOMAIN rows /\ used \ {node.id} = {}
    <2> HIDE DEF t, used
    <2>2. t = [ok |-> fine, rows |-> CT!Put(rows, node.id, <<node.host, d>>), pid |-> s.pid]
      BY <2>1, <1>0
    <2>3. /\ IsFiniteSet(DOMAIN CT!Put(rows, node.id, <<node.host, d>>))
          /\ CtPaused(CT!Put(rows, node.id, <<node.host, d>>))
               = (CtPaused(rows) \ {node.id}) \cup (IF d THEN {node.id} ELSE {})
      <3>1. /\ IsFiniteSet(DOMAIN CT!Put(rows, node.id, row))
            /\ CtPaused(CT!Put(rows, node.id, row)) = (CtPaused(rows) \ {node.id}) \cup {i \in {node.id} : row[2]}
        BY <1>0, CtPut
      <3>2. row[2] = d /\ row = <<node.host, d>>
        OBVIOUS
      <3> HIDE DEF row, d
      <3>3. {i \in {node.id} : row[2]} = IF d THEN {node.id} ELSE {}
        BY <3>2
      <3>4. QED BY <3>1, <3>2, <3>3
    <2>4. t.ok \in BOOLEAN /\ t.rows = CT!Put(rows, node.id, <<node.host, d>>) /\ t.pid = s.pid /\ t.ok = fine
      BY <2>2
    <2>5. CtState(t)
      BY <2>2, <2>3, <2>4 DEF CtState
    <2>6. QED BY <1>3, <2>3, <2>4, <2>5 DEF t
  <1>4. CASE s.ok /\ node.role # "none" /\ ~(node.id # 0)
    <2>1. t = IF node.role = "demoted" \/ used # {} THEN s
              ELSE [s EXCEPT !.rows = CT!Put(@, free, row), !.pid = IF node.role = "primary" THEN free ELSE @]
      BY <1>4 DEF CT!UpdateNode
    <2> HIDE DEF t, used, free
    <2>2. CASE node.role = "demoted" \/ used # {}
      <3>1. t = s
        BY <2>1, <2>2
      <3>2. QED BY <1>4, <3>1 DEF t
    <2>3. CASE ~(node.role = "demoted" \/ used # {})
      <3> DEFINE pid == IF node.role = "primary" THEN free ELSE s.pid
      <3>1. t = [ok |-> s.ok, rows |-> CT!Put(rows, free, row), pid |-> pid] /\ ~row[2]
        BY <2>1, <2>3, <1>0
      <3> HIDE DEF row
      <3>2. /\ IsFiniteSet(DOMAIN CT!Put(rows, free, row))
            /\ CtPaused(CT!Put(rows, free, row)) = (CtPaused(rows) \ {free}) \cup {i \in {free} : row[2]}
        BY <1>0, CtPut
      <3>3. t.ok = s.ok /\ t.rows = CT!Put(rows, free, row) /\ t.pid = pid
        BY <3>1
      <3>4. CtState(t) /\ CtPaused(t.rows) \subseteq CtPaused(rows)
        BY <1>0, <3>1, <3>2, <3>3 DEF CtState
      <3>5. QED BY <1>4, <2>3, <3>3, <3>4 DEF t
    <2>4. QED BY <2>2, <2>3
  <1>5. QED BY <1>0, <1>1, <1>2, <1>3, <1>4

(* UpdateOnce only names its argument.                                      *)
LEMMA CtUpdateOnce ==
  ASSUME NEW s, NEW node
  PROVE  CT!UpdateOnce(s, node) = CT!UpdateNode(s, node)
  <1>1. {CT!UpdateNode(r, node) : r \in {s}} = {CT!UpdateNode(s, node)}
    OBVIOUS
  <1>2. QED BY <1>1 DEF CT!UpdateOnce

(* The states of update_group(), one after each node.                       *)
CtBegin(state) == [ok |-> TRUE, rows |-> state.rows, pid |-> state.pid]
CtAfter(state, nodes, f, n) ==
  f = [i \in 0..n |-> IF i = 0 THEN CtBegin(state) ELSE CT!UpdateOnce(f[i - 1], nodes[i])]

(* These states exist: there is no least n up to which they do not.         *)
LEMMA CtAfterExists ==
  ASSUME NEW state, NEW nodes
  PROVE  \A n \in Nat : \E f : CtAfter(state, nodes, f, n)
  <1> DEFINE Bad == {n \in Nat : ~\E f : CtAfter(state, nodes, f, n)}
  <1>1. SUFFICES ASSUME Bad # {}
                 PROVE  FALSE
    OBVIOUS
  <1>2. PICK n \in Bad : \A m \in Bad : n <= m
    BY <1>1, LeastNat
  <1>3. n \in Nat /\ ~\E f : CtAfter(state, nodes, f, n)
    BY <1>2
  <1>4. n # 0
    <2>1. SUFFICES ASSUME n = 0 PROVE FALSE
      OBVIOUS
    <2> DEFINE f == [i \in 0..0 |-> CtBegin(state)]
    <2>2. f = [i \in 0..0 |-> IF i = 0 THEN CtBegin(state) ELSE CT!UpdateOnce(f[i - 1], nodes[i])]
      OBVIOUS
    <2>3. CtAfter(state, nodes, f, 0)
      BY <2>2 DEF CtAfter
    <2>4. QED BY <1>3, <2>1, <2>3
  <1>5. n - 1 \in Nat /\ n - 1 \notin Bad
    BY <1>2, <1>3, <1>4
  <1>6. PICK f : CtAfter(state, nodes, f, n - 1)
    BY <1>5
  <1> DEFINE last == CT!UpdateOnce(f[n - 1], nodes[n])
             g == [i \in 0..n |-> IF i = n THEN last ELSE f[i]]
  <1>7. \A i \in 0..n - 1 : f[i] = IF i = 0 THEN CtBegin(state) ELSE CT!UpdateOnce(f[i - 1], nodes[i])
    BY <1>6 DEF CtAfter
  <1>8. \A i \in 0..n : g[i] = IF i = 0 THEN CtBegin(state) ELSE CT!UpdateOnce(g[i - 1], nodes[i])
    <2>1. TAKE i \in 0..n
    <2>2. CASE i = n
      <3>1. g[i] = last /\ g[i - 1] = f[n - 1]
        BY <2>2, <1>3, <1>4
      <3>2. QED BY <3>1, <2>2, <1>4
    <2>3. CASE i # n
      <3>1. i \in 0..n - 1 /\ g[i] = f[i]
        BY <2>3, <1>3
      <3>2. i # 0 => g[i - 1] = f[i - 1]
        BY <2>3, <1>3
      <3>3. QED BY <3>1, <3>2, <1>7
    <2>4. QED BY <2>2, <2>3
  <1>9. g = [i \in 0..n |-> g[i]]
    OBVIOUS
  <1> HIDE DEF g
  <1>10. CtAfter(state, nodes, g, n)
    BY <1>8, <1>9 DEF CtAfter
  <1>11. QED BY <1>3, <1>10

(* update_group() goes from one state to the next.                          *)
LEMMA CtUpdateGroup ==
  ASSUME NEW state, NEW nodes, Len(nodes) \in Nat
  PROVE  \E f : /\ CT!UpdateGroup(state, nodes) = f[Len(nodes)] /\ f[0] = CtBegin(state)
                /\ \A i \in 1..Len(nodes) : f[i] = CT!UpdateNode(f[i - 1], nodes[i])
  <1> DEFINE f == CHOOSE f : CtAfter(state, nodes, f, Len(nodes))
  <1>1. CtAfter(state, nodes, f, Len(nodes))
    BY CtAfterExists, Zenon
  <1>2. f = CHOOSE g : g = [i \in 0..Len(nodes) |-> IF i = 0 THEN [ok |-> TRUE, rows |-> state.rows, pid |-> state.pid]
                                                    ELSE CT!UpdateOnce(g[i - 1], nodes[i])]
    BY DEF CtAfter, CtBegin
  <1>3. CT!UpdateGroup(state, nodes) = f[Len(nodes)]
    BY <1>2 DEF CT!UpdateGroup
  <1> HIDE DEF f
  <1>4. \A i \in 0..Len(nodes) : f[i] = IF i = 0 THEN CtBegin(state) ELSE CT!UpdateOnce(f[i - 1], nodes[i])
    BY <1>1 DEF CtAfter
  <1>5. f[0] = CtBegin(state)
    BY <1>4
  <1>6. \A i \in 1..Len(nodes) : f[i] = CT!UpdateNode(f[i - 1], nodes[i])
    BY <1>4, CtUpdateOnce
  <1>7. QED BY <1>3, <1>5, <1>6

(* Rows that are marked in the end: at most those in T, if T has those that *)
(* were marked and those that are marked on the way; none, if node j clears *)
(* T and no later node marks a row.                                         *)
LEMMA CtMarks ==
  ASSUME NEW state, IsFiniteSet(DOMAIN state.rows), NEW nodes, Len(nodes) \in Nat,
         NEW T, CtPaused(state.rows) \subseteq T,
         \A i \in 1..Len(nodes) : nodes[i].role = "demoted" => {nodes[i].id} \ {0} \subseteq T,
         NEW j \in Nat \ {0},
         j <= Len(nodes) => nodes[j].role \notin {"none", "demoted"} /\ T \subseteq {nodes[j].id} \ {0},
         \A i \in 1..Len(nodes) : i > j => nodes[i].role # "demoted"
  PROVE  LET r == CT!UpdateGroup(state, nodes) IN
         /\ CtState(r) /\ CtPaused(r.rows) \subseteq T
         /\ r.ok /\ j <= Len(nodes) => CtPaused(r.rows) = {}
  <1> DEFINE n == Len(nodes)
  <1>1. PICK f : /\ CT!UpdateGroup(state, nodes) = f[n] /\ f[0] = CtBegin(state)
                 /\ \A i \in 1..n : f[i] = CT!UpdateNode(f[i - 1], nodes[i])
    BY CtUpdateGroup
  <1> DEFINE Good(i) == /\ CtState(f[i]) /\ CtPaused(f[i].rows) \subseteq T
                        /\ f[i].ok /\ j <= i => CtPaused(f[i].rows) = {}
             Bad == {i \in 0..n : ~Good(i)}
  <1>2. Good(0)
    <2>1. f[0] = [ok |-> TRUE, rows |-> state.rows, pid |-> state.pid]
      BY <1>1 DEF CtBegin
    <2>2. f[0].ok = TRUE /\ f[0].rows = state.rows /\ f[0].pid = state.pid
      BY <2>1
    <2>3. CtState(f[0])
      BY <2>1, <2>2 DEF CtState
    <2>4. QED BY <2>2, <2>3
  <1>3. ASSUME NEW i \in 1..n, Good(i - 1) PROVE Good(i)
    <2> DEFINE s == f[i - 1]
               t == f[i]
               node == nodes[i]
    <2>1. /\ CtState(s) /\ CtPaused(s.rows) \subseteq T
          /\ s.ok /\ j <= i - 1 => CtPaused(s.rows) = {}
      BY <1>3
    <2>2. t = CT!UpdateNode(s, node)
      BY <1>1
    <2> HIDE DEF s, t, node
    <2>3. /\ CtState(t) /\ (t.ok => s.ok)
          /\ CtPaused(t.rows) \subseteq CtPaused(s.rows) \cup (IF node.role = "demoted" THEN {node.id} \ {0} ELSE {})
          /\ t.ok /\ node.role \notin {"none", "demoted"} => CtPaused(t.rows) \subseteq CtPaused(s.rows) \ ({node.id} \ {0})
      BY <2>1, <2>2, CtUpdateNode
    <2>4. node.role = "demoted" => {node.id} \ {0} \subseteq T /\ i <= j
      BY <1>3 DEF node
    <2>5. i = j => node.role \notin {"none", "demoted"} /\ T \subseteq {node.id} \ {0}
      BY <1>3 DEF node
    <2>6. CtPaused(t.rows) \subseteq T
      BY <2>1, <2>3, <2>4
    <2>7. ASSUME t.ok, j <= i PROVE CtPaused(t.rows) = {}
      <3>1. CASE i = j
        BY <2>1, <2>3, <2>5, <2>7, <3>1
      <3>2. CASE i # j
        <4>1. s.ok /\ j <= i - 1 /\ node.role # "demoted"
          BY <2>3, <2>4, <2>7, <3>2
        <4>2. QED BY <2>1, <2>3, <4>1
      <3>3. QED BY <3>1, <3>2
    <2>8. QED BY <2>3, <2>6, <2>7 DEF t
  <1> HIDE DEF Good
  <1>4. Bad = {}
    <2>1. SUFFICES ASSUME Bad # {} PROVE FALSE
      OBVIOUS
    <2>2. Bad \in SUBSET Nat
      OBVIOUS
    <2>3. PICK i \in Bad : \A m \in Bad : i <= m
      BY <2>1, <2>2, LeastNat
    <2>4. i # 0 /\ i \in 0..n
      BY <1>2, <2>3
    <2>5. i - 1 \in 0..n /\ i - 1 \notin Bad /\ i \in 1..n
      BY <2>3, <2>4
    <2>6. QED BY <1>3, <2>3, <2>5
  <1>5. Good(n)
    BY <1>4
  <1>6. QED BY <1>1, <1>5 DEF Good

-----------------------------------------------------------------------------
(* Sequences of nodes.                                                      *)
CtIsSeq(s) == Len(s) \in Nat /\ s = [i \in 1..Len(s) |-> s[i]]

(* What a sequence is made of, and two of them in a row.                    *)
LEMMA CtSeqOf ==
  ASSUME NEW s, CtIsSeq(s)
  PROVE  s \in Seq({s[i] : i \in 1..Len(s)})
  <1>1. \A i \in 1..Len(s) : s[i] \in {s[k] : k \in 1..Len(s)}
    OBVIOUS
  <1>2. QED BY <1>1 DEF CtIsSeq

LEMMA CtSeqConcat ==
  ASSUME NEW s, CtIsSeq(s), NEW t, CtIsSeq(t)
  PROVE  /\ CtIsSeq(s \o t) /\ Len(s \o t) = Len(s) + Len(t)
         /\ \A i \in 1..Len(s) : (s \o t)[i] = s[i]
         /\ \A i \in 1..Len(s) + Len(t) : i > Len(s) => (s \o t)[i] = t[i - Len(s)]
  <1> DEFINE S == {s[i] : i \in 1..Len(s)} \cup {t[i] : i \in 1..Len(t)}
  <1>1. s \in Seq(S) /\ t \in Seq(S)
    <2>1. Len(s) \in Nat /\ s = [i \in 1..Len(s) |-> s[i]] /\ \A i \in 1..Len(s) : s[i] \in S
      BY DEF CtIsSeq
    <2>2. Len(t) \in Nat /\ t = [i \in 1..Len(t) |-> t[i]] /\ \A i \in 1..Len(t) : t[i] \in S
      BY DEF CtIsSeq
    <2> HIDE DEF S
    <2>3. s \in Seq(S)
      BY <2>1
    <2>4. t \in Seq(S)
      BY <2>2
    <2>5. QED BY <2>3, <2>4
  <1> HIDE DEF S
  <1>2. s \o t \in Seq(S)
    BY <1>1
  <1>3. Len(s \o t) = Len(s) + Len(t) /\ \A i \in 1..Len(s) + Len(t) : (s \o t)[i] = IF i <= Len(s) THEN s[i] ELSE t[i - Len(s)]
    BY <1>1, ConcatProperties
  <1>4. Len(s) \in Nat /\ Len(t) \in Nat
    BY DEF CtIsSeq
  <1>5. s \o t = [i \in 1..Len(s \o t) |-> (s \o t)[i]] /\ Len(s \o t) \in Nat
    <2>1. Len(s \o t) \in Nat /\ s \o t \in [1..Len(s \o t) -> S]
      BY <1>2, LenProperties
    <2>2. QED BY <2>1
  <1>6. QED BY <1>3, <1>4, <1>5 DEF CtIsSeq

(* A function on 1..n is a sequence.                                        *)
LEMMA CtSeqMade ==
  ASSUME NEW n \in Nat, NEW s, DOMAIN s = 1..n, s = [i \in 1..n |-> s[i]]
  PROVE  CtIsSeq(s) /\ Len(s) = n
  <1> DEFINE S == {s[i] : i \in 1..n}
  <1>1. \A i \in 1..n : s[i] \in S
    OBVIOUS
  <1> HIDE DEF S
  <1>2. s \in Seq(S) /\ Len(s) = n
    BY <1>1
  <1>3. QED BY <1>2 DEF CtIsSeq

(* The rest of a sequence.                                                  *)
LEMMA CtSubSeq ==
  ASSUME NEW s, CtIsSeq(s), NEW n \in Nat, n <= Len(s)
  PROVE  /\ CtIsSeq(SubSeq(s, n + 1, Len(s))) /\ Len(SubSeq(s, n + 1, Len(s))) = Len(s) - n
         /\ \A i \in 1..Len(s) - n : SubSeq(s, n + 1, Len(s))[i] = s[i + n]
  <1> DEFINE S == {s[i] : i \in 1..Len(s)}
             t == SubSeq(s, n + 1, Len(s))
  <1>1. s \in Seq(S) /\ Len(s) \in Nat
    BY CtSeqOf DEF CtIsSeq
  <1> HIDE DEF S
  <1>2. t \in Seq(S) /\ Len(t) = Len(s) - n /\ \A i \in 1..Len(s) - n : t[i] = s[n + 1 + i - 1]
    BY <1>1, SubSeqProperties
  <1>3. CtIsSeq(t)
    BY <1>2 DEF CtIsSeq
  <1>4. \A i \in 1..Len(s) - n : n + 1 + i - 1 = i + n
    BY <1>1
  <1>5. QED BY <1>2, <1>3, <1>4

(* The hosts of a finite set, one after the other.                          *)
LEMMA CtSetToSeq ==
  ASSUME NEW S, IsFiniteSet(S)
  PROVE  CtIsSeq(CT!SetToSeq(S)) /\ \A i \in 1..Len(CT!SetToSeq(S)) : CT!SetToSeq(S)[i] \in S
  <1>1. CT!Cardinality(S) = Cardinality(S)
    BY Zenon DEF CT!Cardinality, Cardinality
  <1> DEFINE n == Cardinality(S)
  <1>2. n \in Nat /\ \E f \in Bijection(1..n, S) : TRUE
    BY FS_CardinalityType DEF ExistsBijection
  <1>3. \E f \in [1..n -> S] : CT!IsInjective(f)
    <2>1. PICK f \in Bijection(1..n, S) : TRUE
      BY <1>2
    <2>2. f \in [1..n -> S] /\ \A i, j \in 1..n : f[i] = f[j] => i = j
      BY <2>1 DEF Bijection, Injection, IsInjective
    <2>3. CT!IsInjective(f)
      BY <2>2 DEF CT!IsInjective
    <2>4. QED BY <2>2, <2>3
  <1>4. CT!SetToSeq(S) \in [1..n -> S]
    BY <1>1, <1>3 DEF CT!SetToSeq
  <1> HIDE DEF n
  <1>5. QED BY <1>2, <1>4, CtSeqMade

(* Up to three nodes, as PrimaryRow lists them.                             *)
LEMMA CtTuples ==
  ASSUME NEW a, NEW b, NEW c
  PROVE  /\ CtIsSeq(<<>>) /\ Len(<<>>) = 0
         /\ CtIsSeq(<<a>>) /\ Len(<<a>>) = 1 /\ <<a>>[1] = a
         /\ CtIsSeq(<<a, b>>) /\ Len(<<a, b>>) = 2 /\ <<a, b>>[1] = a /\ <<a, b>>[2] = b
         /\ CtIsSeq(<<a, b, c>>) /\ Len(<<a, b, c>>) = 3
         /\ <<a, b, c>>[1] = a /\ <<a, b, c>>[2] = b /\ <<a, b, c>>[3] = c
  <1>1. CtIsSeq(<<>>) /\ Len(<<>>) = 0
    BY DEF CtIsSeq
  <1>2. CtIsSeq(<<a>>) /\ Len(<<a>>) = 1 /\ <<a>>[1] = a
    BY DEF CtIsSeq
  <1>3. CtIsSeq(<<a, b>>) /\ Len(<<a, b>>) = 2 /\ <<a, b>>[1] = a /\ <<a, b>>[2] = b
    BY DEF CtIsSeq
  <1>4. /\ CtIsSeq(<<a, b, c>>) /\ Len(<<a, b, c>>) = 3
        /\ <<a, b, c>>[1] = a /\ <<a, b, c>>[2] = b /\ <<a, b, c>>[3] = c
    BY DEF CtIsSeq
  <1>5. QED BY <1>1, <1>2, <1>3, <1>4

-----------------------------------------------------------------------------
(* The groups of nodes that transition() compares.                          *)
CtGroup(g) ==
  /\ g = [prim |-> g.prim, role |-> g.role, ids |-> g.ids, event |-> g.event, rest |-> g.rest,
          fresh |-> g.fresh, failover |-> g.failover]
  /\ IsFiniteSet(DOMAIN g.ids)
CtTask(t) ==
  /\ CtGroup(t) /\ t.prim \in DOMAIN t.ids /\ t.prim # None
  /\ t.role = IF t.event = "before_demote" THEN "demoted" ELSE "primary"

(* The row that may be marked: that of the old primary.                     *)
CtMarked(old) == IF old.prim = None THEN {} ELSE {old.ids[old.prim]} \ {0}

(* Only that row is marked, and a new primary that is not demoted clears it.*)
CtOnly(old, ups) == \A i \in 1..Len(ups) : ups[i].role = "demoted" => {ups[i].id} \ {0} \subseteq CtMarked(old)
CtClears(old, ups) ==
  \/ \E j \in 1..Len(ups) : /\ ups[j].role = "primary" /\ CtMarked(old) \subseteq {ups[j].id} \ {0}
                            /\ \A i \in 1..Len(ups) : i > j => ups[i].role # "demoted"
  \/ (old.prim # None => old.role = "primary") /\ \A i \in 1..Len(ups) : ups[i].role # "demoted"
CtUps(old, new, ups) == CtIsSeq(ups) /\ CtOnly(old, ups) /\ (new.role = "primary" => CtClears(old, ups))

(* The new primary inherits the row.                                        *)
CtIds(old, new, ids) ==
  IsFiniteSet(DOMAIN ids) /\ new.prim \in DOMAIN ids /\ (old.prim # None => ids[new.prim] = old.ids[old.prim])

CtRow(old, new, s) ==
  /\ CtUps(old, new, s.ups) /\ CtIds(old, new, s.ids)
  /\ IsFiniteSet(s.gone) /\ IsFiniteSet(s.added) /\ new.prim \notin s.gone /\ new.prim \notin s.added

(* What transition() begins with: the hosts of both topologies.             *)
LEMMA CtSamples ==
  ASSUME NEW old, NEW new, CtGroup(old), CtTask(new)
  PROVE  LET s == CT!Samples(old, new) IN
         /\ s = [ups |-> <<>>, ids |-> new.ids, gone |-> s.gone, added |-> s.added, role |-> old.role,
                 failover |-> old.failover]
         /\ IsFiniteSet(s.gone) /\ IsFiniteSet(s.added) /\ new.prim \notin s.gone /\ new.prim \notin s.added
  <1> DEFINE s == CT!Samples(old, new)
  <1>1. IsFiniteSet(DOMAIN old.ids) /\ IsFiniteSet(DOMAIN new.ids) /\ new.prim \in DOMAIN new.ids
    BY DEF CtGroup, CtTask
  <1>2. s.gone = DOMAIN old.ids \ (DOMAIN new.ids \cup {old.prim}) /\ s.gone \subseteq DOMAIN old.ids
    BY DEF CT!Samples
  <1>3. s.added = DOMAIN new.ids \ (DOMAIN old.ids \cup {new.prim}) /\ s.added \subseteq DOMAIN new.ids
    BY DEF CT!Samples
  <1>4. IsFiniteSet(s.gone)
    BY <1>1, <1>2, FS_Subset
  <1>5. IsFiniteSet(s.added)
    BY <1>1, <1>3, FS_Subset
  <1>6. s = [ups |-> <<>>, ids |-> new.ids, gone |-> s.gone, added |-> s.added, role |-> old.role,
             failover |-> old.failover]
    BY DEF CT!Samples
  <1>7. QED BY <1>1, <1>2, <1>3, <1>4, <1>5, <1>6

(* f is ids with v as the value of k.                                       *)
CtHasPut(f, ids, k, v) ==
  /\ DOMAIN f = DOMAIN ids \cup {k} /\ (IsFiniteSet(DOMAIN ids) => IsFiniteSet(DOMAIN f))
  /\ f[k] = v /\ \A x \in DOMAIN ids : x # k => f[x] = ids[x]

(* Another id in a topology.                                                *)
LEMMA CtPutIds ==
  ASSUME NEW ids, NEW k, NEW v
  PROVE  CtHasPut(CT!Put(ids, k, v), ids, k, v)
  <1>1. DOMAIN CT!Put(ids, k, v) = DOMAIN ids \cup {k}
    BY DEF CT!Put
  <1>2. IsFiniteSet(DOMAIN ids) => IsFiniteSet(DOMAIN ids \cup {k})
    BY FS_AddElement
  <1>3. CT!Put(ids, k, v)[k] = v /\ \A x \in DOMAIN ids : x # k => CT!Put(ids, k, v)[x] = ids[x]
    BY DEF CT!Put
  <1>4. QED BY <1>1, <1>2, <1>3 DEF CtHasPut

(* ids of a group in which the new primary has got the row, and another     *)
(* host another one.                                                        *)
LEMMA CtInherits ==
  ASSUME NEW old, NEW new, CtTask(new)
  PROVE  /\ CtIds(old, new, CT!Put(new.ids, new.prim, old.ids[old.prim]))
         /\ \A h, v : h # new.prim =>
              CtIds(old, new, CT!Put(CT!Put(new.ids, new.prim, old.ids[old.prim]), h, v))
  <1> DEFINE ids == CT!Put(new.ids, new.prim, old.ids[old.prim])
  <1>1. IsFiniteSet(DOMAIN new.ids)
    BY DEF CtTask, CtGroup
  <1>2. IsFiniteSet(DOMAIN ids) /\ new.prim \in DOMAIN ids /\ ids[new.prim] = old.ids[old.prim]
    <2>1. CtHasPut(ids, new.ids, new.prim, old.ids[old.prim])
      BY CtPutIds, Zenon
    <2> HIDE DEF ids
    <2>2. QED BY <1>1, <2>1 DEF CtHasPut
  <1> HIDE DEF ids
  <1>3. ASSUME NEW h, NEW v, h # new.prim PROVE CtIds(old, new, CT!Put(ids, h, v))
    <2>1. CtHasPut(CT!Put(ids, h, v), ids, h, v)
      BY CtPutIds, Zenon
    <2>2. QED BY <1>2, <1>3, <2>1 DEF CtIds, CtHasPut
  <1>4. CtIds(old, new, ids)
    BY <1>2 DEF CtIds
  <1>5. QED BY <1>3, <1>4 DEF ids

LEMMA CtNodes ==
  ASSUME NEW old, NEW new, CtTask(new), old.prim # None, NEW last, NEW x, NEW d,
         last.role = new.role, last.id = old.ids[old.prim], x.role = "secondary",
         d.role = "demoted", d.id = old.ids[old.prim]
  PROVE  /\ CtUps(old, new, <<last>>) /\ CtUps(old, new, <<x, last>>)
         /\ CtUps(old, new, <<d, x, last>>) /\ CtUps(old, new, <<last, x>>)
  <1>1. CtMarked(old) = {old.ids[old.prim]} \ {0}
    BY DEF CtMarked
  <1> DEFINE One == <<last>>
             Two == <<x, last>>
             Three == <<d, x, last>>
             Back == <<last, x>>
  <1>2. CtUps(old, new, One)
    <2>1. CtIsSeq(One) /\ Len(One) = 1 /\ One[1] = last
      BY CtTuples
    <2> HIDE DEF One
    <2>2. 1 \in 1..Len(One) /\ \A i \in 1..Len(One) : i = 1
      BY <2>1
    <2>3. CtOnly(old, One) /\ (new.role = "primary" => CtClears(old, One))
      BY <1>1, <2>1, <2>2 DEF CtOnly, CtClears
    <2>4. QED BY <2>1, <2>3 DEF CtUps
  <1>3. CtUps(old, new, Two)
    <2>1. CtIsSeq(Two) /\ Len(Two) = 2 /\ Two[1] = x /\ Two[2] = last
      BY CtTuples
    <2> HIDE DEF Two
    <2>2. 2 \in 1..Len(Two) /\ \A i \in 1..Len(Two) : i = 1 \/ i = 2
      BY <2>1
    <2>3. CtOnly(old, Two)
      BY <1>1, <2>1, <2>2 DEF CtOnly
    <2>4. new.role = "primary" => CtClears(old, Two)
      BY <1>1, <2>1, <2>2 DEF CtClears
    <2>5. QED BY <2>1, <2>3, <2>4 DEF CtUps
  <1>4. CtUps(old, new, Three)
    <2>1. CtIsSeq(Three) /\ Len(Three) = 3 /\ Three[1] = d /\ Three[2] = x /\ Three[3] = last
      BY CtTuples
    <2> HIDE DEF Three
    <2>2. 3 \in 1..Len(Three) /\ \A i \in 1..Len(Three) : i = 1 \/ i = 2 \/ i = 3
      BY <2>1
    <2>3. CtOnly(old, Three)
      BY <1>1, <2>1, <2>2 DEF CtOnly
    <2>4. new.role = "primary" => CtClears(old, Three)
      BY <1>1, <2>1, <2>2 DEF CtClears
    <2>5. QED BY <2>1, <2>3, <2>4 DEF CtUps
  <1>5. CtUps(old, new, Back)
    <2>1. CtIsSeq(Back) /\ Len(Back) = 2 /\ Back[1] = last /\ Back[2] = x
      BY CtTuples
    <2> HIDE DEF Back
    <2>2. 1 \in 1..Len(Back) /\ \A i \in 1..Len(Back) : i = 1 \/ i = 2
      BY <2>1
    <2>3. CtOnly(old, Back)
      BY <1>1, <2>1, <2>2 DEF CtOnly
    <2>4. new.role = "primary" => CtClears(old, Back)
      BY <1>1, <2>1, <2>2 DEF CtClears
    <2>5. QED BY <2>1, <2>3, <2>4 DEF CtUps
  <1>6. QED BY <1>2, <1>3, <1>4, <1>5

(* The fields of a node.                                                    *)
LEMMA CtNode ==
  ASSUME NEW h, NEW r, NEW i
  PROVE  CT!Node(h, r, i).role = r /\ CT!Node(h, r, i).id = i
  BY DEF CT!Node

(* There was no primary yet.                                                *)
LEMMA CtNoPrimary ==
  ASSUME NEW old, NEW new, CtGroup(old), CtTask(new), old.prim = None
  PROVE  CtRow(old, new, CT!PrimaryRow(old, new))
  <1> DEFINE s == CT!Samples(old, new)
             p == CT!PrimaryRow(old, new)
             one == <<CT!Node(new.prim, new.role, 0)>>
  <1>1. p = [s EXCEPT !.ups = one]
    BY DEF CT!PrimaryRow
  <1>2. /\ s = [ups |-> <<>>, ids |-> new.ids, gone |-> s.gone, added |-> s.added, role |-> old.role,
                failover |-> old.failover]
        /\ IsFiniteSet(s.gone) /\ IsFiniteSet(s.added) /\ new.prim \notin s.gone /\ new.prim \notin s.added
    BY CtSamples
  <1>3. CtIsSeq(one) /\ Len(one) = 1 /\ one[1] = CT!Node(new.prim, new.role, 0)
    BY CtTuples
  <1>4. one[1].role = new.role /\ one[1].id = 0 /\ \A i \in 1..Len(one) : i = 1
    BY <1>3, CtNode
  <1> HIDE DEF one, s, p
  <1>5. p.ups = one /\ p.ids = new.ids /\ p.gone = s.gone /\ p.added = s.added
    BY <1>1, <1>2
  <1>6. CtUps(old, new, one)
    <2>1. CtOnly(old, one)
      BY <1>3, <1>4 DEF CtOnly
    <2>2. new.role = "primary" => CtClears(old, one)
      BY <1>3, <1>4 DEF CtClears
    <2>3. QED BY <1>3, <2>1, <2>2 DEF CtUps
  <1>7. CtIds(old, new, new.ids)
    BY DEF CtIds, CtTask, CtGroup
  <1>8. QED BY <1>2, <1>5, <1>6, <1>7 DEF CtRow, p

(* The primary stays: its row is changed if its role is.                    *)
LEMMA CtSamePrimary ==
  ASSUME NEW old, NEW new, CtGroup(old), CtTask(new), old.prim # None, old.prim = new.prim
  PROVE  CtRow(old, new, CT!PrimaryRow(old, new))
  <1> DEFINE s == CT!Samples(old, new)
             p == CT!PrimaryRow(old, new)
             id == old.ids[old.prim]
             one == <<CT!Node(new.prim, new.role, id)>>
             ups == IF old.role = new.role THEN <<>> ELSE one
             ids == CT!Put(new.ids, new.prim, id)
  <1>1. p = CT!SamePrimary(old, new)
    BY DEF CT!PrimaryRow
  <1>2. p = [s EXCEPT !.ids = CT!Put(@, new.prim, id), !.failover = @ \/ old.role # new.role, !.ups = ups]
    BY <1>1 DEF CT!SamePrimary
  <1>3. /\ s = [ups |-> <<>>, ids |-> new.ids, gone |-> s.gone, added |-> s.added, role |-> old.role,
                failover |-> old.failover]
        /\ IsFiniteSet(s.gone) /\ IsFiniteSet(s.added) /\ new.prim \notin s.gone /\ new.prim \notin s.added
    BY CtSamples
  <1>4. CtUps(old, new, one)
    <2>1. CT!Node(new.prim, new.role, id).role = new.role /\ CT!Node(new.prim, new.role, id).id = old.ids[old.prim]
      BY CtNode
    <2> DEFINE x == [role |-> "secondary", id |-> 0]
               d == [role |-> "demoted", id |-> id]
    <2>2. x.role = "secondary" /\ d.role = "demoted" /\ d.id = old.ids[old.prim]
      OBVIOUS
    <2> HIDE DEF x, d
    <2>3. QED BY <2>1, <2>2, CtNodes
  <1>5. CtIds(old, new, ids)
    BY CtInherits
  <1> HIDE DEF one, s, p, ids
  <1>6. p.ups = ups /\ p.ids = ids /\ p.gone = s.gone /\ p.added = s.added
    BY <1>2, <1>3 DEF ids
  <1>7. CtUps(old, new, ups)
    <2>1. CASE old.role = new.role
      <3>1. CtIsSeq(<<>>) /\ Len(<<>>) = 0 /\ ups = <<>>
        BY <2>1, CtTuples
      <3> HIDE DEF ups
      <3>2. CtOnly(old, ups) /\ (new.role = "primary" => CtClears(old, ups))
        BY <2>1, <3>1 DEF CtOnly, CtClears
      <3>3. QED BY <3>1, <3>2 DEF CtUps
    <2>2. CASE old.role # new.role
      BY <1>4, <2>2
    <2>3. QED BY <2>1, <2>2
  <1> HIDE DEF ups
  <1>8. QED BY <1>3, <1>5, <1>6, <1>7 DEF CtRow, p

(* CHOOSE x \in S : TRUE of a set that is not empty, and what is left.      *)
LEMMA CtOneOf ==
  ASSUME NEW S, S # {}, IsFiniteSet(S)
  PROVE  CT!OneOf(S) \in S /\ \A x : IsFiniteSet(S \ {x})
  BY FS_RemoveElement DEF CT!OneOf

(* Any nodes with these fields will do.                                     *)
LEMMA CtNodeUps ==
  ASSUME NEW old, NEW new, CtTask(new), old.prim # None, NEW h, NEW g, NEW v
  PROVE  LET last == CT!Node(new.prim, new.role, old.ids[old.prim])
             x == CT!Node(h, "secondary", v)
             d == CT!Node(g, "demoted", old.ids[old.prim]) IN
         /\ CtUps(old, new, <<last>>) /\ CtUps(old, new, <<x, last>>)
         /\ CtUps(old, new, <<d, x, last>>) /\ CtUps(old, new, <<last, x>>)
  <1> DEFINE last == CT!Node(new.prim, new.role, old.ids[old.prim])
             x == CT!Node(h, "secondary", v)
             d == CT!Node(g, "demoted", old.ids[old.prim])
  <1>1. /\ last.role = new.role /\ last.id = old.ids[old.prim] /\ x.role = "secondary"
        /\ d.role = "demoted" /\ d.id = old.ids[old.prim]
    BY CtNode
  <1> HIDE DEF last, x, d
  <1>2. /\ CtUps(old, new, <<last>>) /\ CtUps(old, new, <<x, last>>)
        /\ CtUps(old, new, <<d, x, last>>) /\ CtUps(old, new, <<last, x>>)
    BY <1>1, CtNodes
  <1>3. QED BY <1>2 DEF last, x, d

(* The new primary was a secondary.                                         *)
LEMMA CtRegisteredPrimary ==
  ASSUME NEW old, NEW new, CtGroup(old), CtTask(new), old.prim # None, old.prim # new.prim
  PROVE  CtRow(old, new, CT!RegisteredPrimary(old, new))
  <1> DEFINE s == CT!Samples(old, new)
             p == CT!RegisteredPrimary(old, new)
             oid == old.ids[old.prim]
             nid == old.ids[new.prim]
             last == CT!Node(new.prim, new.role, oid)
             ids == CT!Put(new.ids, new.prim, oid)
             a == CT!OneOf(s.added)
             x == CT!Node(old.prim, "secondary", nid)
             d == CT!Node(old.prim, "demoted", oid)
  <1>1. /\ s = [ups |-> <<>>, ids |-> new.ids, gone |-> s.gone, added |-> s.added, role |-> old.role,
                failover |-> old.failover]
        /\ IsFiniteSet(s.gone) /\ IsFiniteSet(s.added) /\ new.prim \notin s.gone /\ new.prim \notin s.added
    BY CtSamples
  <1>2. CASE old.prim \notin DOMAIN new.ids /\ s.added # {}
    <2> DEFINE y == CT!Node(a, "secondary", nid)
    <2>1. p = [s EXCEPT !.ups = <<y, last>>, !.ids = CT!Put(ids, a, nid),
                        !.added = @ \ {a}, !.role = "secondary", !.failover = TRUE]
      BY <1>2 DEF CT!RegisteredPrimary
    <2>2. CtUps(old, new, <<y, last>>)
      BY CtNodeUps, Zenon
    <2>3. a \in s.added /\ IsFiniteSet(s.added \ {a})
      <3> HIDE DEF s
      <3>1. QED BY <1>1, <1>2, CtOneOf
    <2>4. CtIds(old, new, CT!Put(ids, a, nid))
      <3>1. a # new.prim
        BY <1>1, <2>3
      <3> HIDE DEF a
      <3>2. QED BY <3>1, CtInherits
    <2> HIDE DEF y, last, ids, a, s, p
    <2>5. p.ups = <<y, last>> /\ p.ids = CT!Put(ids, a, nid) /\ p.gone = s.gone /\ p.added = s.added \ {a}
      BY <1>1, <2>1
    <2>6. QED BY <1>1, <2>2, <2>3, <2>4, <2>5 DEF CtRow, p
  <1>3. CASE ~(old.prim \notin DOMAIN new.ids /\ s.added # {})
    <2> DEFINE ups == IF old.role = "primary" THEN <<d, x, last>> ELSE <<x, last>>
    <2>1. p = [s EXCEPT !.ups = ups, !.ids = CT!Put(ids, old.prim, nid), !.failover = TRUE,
                        !.role = IF @ = "primary" THEN "demoted" ELSE @]
      BY <1>3 DEF CT!RegisteredPrimary
    <2>2. CtUps(old, new, <<d, x, last>>) /\ CtUps(old, new, <<x, last>>)
      BY CtNodeUps, Zenon
    <2>3. CtIds(old, new, CT!Put(ids, old.prim, nid))
      BY CtInherits
    <2> HIDE DEF d, x, last, ids, s, p
    <2>4. CtUps(old, new, ups)
      BY <2>2
    <2> HIDE DEF ups
    <2>5. p.ups = ups /\ p.ids = CT!Put(ids, old.prim, nid) /\ p.gone = s.gone /\ p.added = s.added
      BY <1>1, <2>1
    <2>6. QED BY <1>1, <2>3, <2>4, <2>5 DEF CtRow, p
  <1>4. QED BY <1>2, <1>3

(* It was never registered.                                                 *)
LEMMA CtUnknownPrimary ==
  ASSUME NEW old, NEW new, CtGroup(old), CtTask(new), old.prim # None, old.prim # new.prim
  PROVE  CtRow(old, new, CT!UnknownPrimary(old, new))
  <1> DEFINE s == CT!Samples(old, new)
             p == CT!UnknownPrimary(old, new)
             oid == old.ids[old.prim]
             last == CT!Node(new.prim, new.role, oid)
             ids == CT!Put(new.ids, new.prim, oid)
             g == CT!OneOf(s.gone)
             x == CT!Node(old.prim, "secondary", old.ids[g])
  <1>1. /\ s = [ups |-> <<>>, ids |-> new.ids, gone |-> s.gone, added |-> s.added, role |-> old.role,
                failover |-> old.failover]
        /\ IsFiniteSet(s.gone) /\ IsFiniteSet(s.added) /\ new.prim \notin s.gone /\ new.prim \notin s.added
    BY CtSamples
  <1>2. \/ s.gone # {} /\ p = [s EXCEPT !.ups = <<last, x>>, !.gone = @ \ {g},
                                        !.ids = CT!Put(ids, old.prim, old.ids[g]), !.failover = TRUE]
        \/ p = [s EXCEPT !.ups = <<last>>, !.ids = ids, !.failover = TRUE]
    BY Zenon DEF CT!UnknownPrimary
  <1>3. CtUps(old, new, <<last, x>>) /\ CtUps(old, new, <<last>>)
    BY CtNodeUps, Zenon
  <1>4. s.gone # {} => IsFiniteSet(s.gone \ {g})
    <2> HIDE DEF s
    <2>1. QED BY <1>1, CtOneOf
  <1>5. CtIds(old, new, ids) /\ CtIds(old, new, CT!Put(ids, old.prim, old.ids[g]))
    <2> HIDE DEF g
    <2>1. QED BY CtInherits
  <1> HIDE DEF last, x, ids, g, s, p
  <1>6. CASE s.gone # {} /\ p = [s EXCEPT !.ups = <<last, x>>, !.gone = @ \ {g},
                                          !.ids = CT!Put(ids, old.prim, old.ids[g]), !.failover = TRUE]
    <2>1. /\ p.ups = <<last, x>> /\ p.ids = CT!Put(ids, old.prim, old.ids[g]) /\ p.gone = s.gone \ {g}
          /\ p.added = s.added
      BY <1>1, <1>6
    <2>2. QED BY <1>1, <1>3, <1>4, <1>5, <1>6, <2>1 DEF CtRow, p
  <1>7. CASE p = [s EXCEPT !.ups = <<last>>, !.ids = ids, !.failover = TRUE]
    <2>1. p.ups = <<last>> /\ p.ids = ids /\ p.gone = s.gone /\ p.added = s.added
      BY <1>1, <1>7
    <2>2. QED BY <1>1, <1>3, <1>5, <2>1 DEF CtRow, p
  <1>8. QED BY <1>2, <1>6, <1>7

(* Every case of PrimaryRow.                                                *)
LEMMA CtPrimaryRow ==
  ASSUME NEW old, NEW new, CtGroup(old), CtTask(new)
  PROVE  CtRow(old, new, CT!PrimaryRow(old, new))
  <1>1. CASE old.prim = None
    BY <1>1, CtNoPrimary
  <1>2. CASE old.prim # None /\ old.prim = new.prim
    BY <1>2, CtSamePrimary
  <1>3. CASE old.prim # None /\ old.prim # new.prim
    <2>1. CT!PrimaryRow(old, new) = CT!RegisteredPrimary(old, new) \/ CT!PrimaryRow(old, new) = CT!UnknownPrimary(old, new)
      BY <1>3 DEF CT!PrimaryRow
    <2>2. QED BY <1>3, <2>1, CtRegisteredPrimary, CtUnknownPrimary
  <1>4. QED BY <1>1, <1>2, <1>3

(* Nodes that are not demoted may follow.                                   *)
LEMMA CtFollow ==
  ASSUME NEW old, NEW new, NEW s, CtUps(old, new, s), NEW t, CtIsSeq(t), \A i \in 1..Len(t) : t[i].role # "demoted"
  PROVE  CtUps(old, new, s \o t)
  <1> DEFINE u == s \o t
  <1>1. /\ CtIsSeq(u) /\ Len(u) = Len(s) + Len(t) /\ \A i \in 1..Len(s) : u[i] = s[i]
        /\ \A i \in 1..Len(s) + Len(t) : i > Len(s) => u[i] = t[i - Len(s)]
    BY CtSeqConcat DEF CtUps
  <1> HIDE DEF u
  <1>2. Len(s) \in Nat /\ Len(t) \in Nat
    BY DEF CtUps, CtIsSeq
  <1>3. \A i \in 1..Len(u) : i > Len(s) => u[i].role # "demoted"
    <2>1. TAKE i \in 1..Len(u)
    <2>2. i > Len(s) => i - Len(s) \in 1..Len(t)
      BY <1>1, <1>2
    <2>3. QED BY <1>1, <2>2
  <1>4. \A i \in 1..Len(u) : i \in 1..Len(s) \/ i > Len(s)
    BY <1>1, <1>2
  <1>5. CtOnly(old, u)
    BY <1>1, <1>3, <1>4 DEF CtOnly, CtUps
  <1>6. ASSUME CtClears(old, s) PROVE CtClears(old, u)
    <2>1. CASE \E j \in 1..Len(s) : /\ s[j].role = "primary" /\ CtMarked(old) \subseteq {s[j].id} \ {0}
                                    /\ \A i \in 1..Len(s) : i > j => s[i].role # "demoted"
      <3>1. PICK j \in 1..Len(s) : /\ s[j].role = "primary" /\ CtMarked(old) \subseteq {s[j].id} \ {0}
                                   /\ \A i \in 1..Len(s) : i > j => s[i].role # "demoted"
        BY <2>1
      <3>2. j \in 1..Len(u) /\ u[j] = s[j]
        BY <1>1, <1>2
      <3>3. \A i \in 1..Len(u) : i > j => u[i].role # "demoted"
        BY <1>1, <1>3, <1>4, <3>1
      <3>4. QED BY <3>1, <3>2, <3>3 DEF CtClears
    <2>2. CASE (old.prim # None => old.role = "primary") /\ \A i \in 1..Len(s) : s[i].role # "demoted"
      BY <1>1, <1>3, <1>4, <2>2 DEF CtClears
    <2>3. QED BY <1>6, <2>1, <2>2 DEF CtClears
  <1>7. CtUps(old, new, u)
    BY <1>1, <1>5, <1>6 DEF CtUps
  <1>8. QED BY <1>7 DEF u

(* transition() as a whole.                                                 *)
LEMMA CtTransition ==
  ASSUME NEW old, NEW new, CtGroup(old), CtTask(new)
  PROVE  CtUps(old, new, CT!Standbys(old, new).ups) /\ CtIds(old, new, CT!Standbys(old, new).ids)
  <1> DEFINE s == CT!PrimaryRow(old, new)
             known == [h \in DOMAIN s.ids |-> IF h # new.prim /\ s.ids[h] = 0 /\ h \in DOMAIN old.ids \ {old.prim}
                                              THEN old.ids[h] ELSE s.ids[h]]
             gone == CT!SetToSeq(s.gone)
             added == CT!SetToSeq(s.added)
             n == IF Len(gone) < Len(added) THEN Len(gone) ELSE Len(added)
             paired == [h \in DOMAIN known |-> IF \E i \in 1..n : added[i] = h
                                               THEN old.ids[gone[CHOOSE i \in 1..n : added[i] = h]] ELSE known[h]]
             goneLeft == SubSeq(gone, n + 1, Len(gone))
             addedLeft == SubSeq(added, n + 1, Len(added))
             reused == [i \in 1..n |-> CT!Node(added[i], "secondary", old.ids[gone[i]])]
             removed == [i \in DOMAIN goneLeft |-> CT!Node(goneLeft[i], "none", 0)]
             fresh == [i \in DOMAIN addedLeft |-> CT!Node(addedLeft[i], "secondary", 0)]
             kept == [h \in (DOMAIN paired \cup CT!Range(goneLeft)) \ CT!Range(addedLeft) |->
                        IF h \in CT!Range(goneLeft) THEN old.ids[h] ELSE paired[h]]
             r == CT!Standbys(old, new)
  <1>1. r = IF s.failover
            THEN [ups |-> s.ups \o reused, role |-> s.role, failover |-> TRUE, ids |-> kept]
            ELSE [ups |-> s.ups \o reused \o removed \o fresh, ids |-> paired, role |-> s.role, failover |-> FALSE]
    BY Zenon DEF CT!Standbys
  <1>2. CtRow(old, new, s)
    BY CtPrimaryRow
  <1> HIDE DEF s
  <1>3. /\ CtIsSeq(gone) /\ \A i \in 1..Len(gone) : gone[i] \in s.gone
        /\ CtIsSeq(added) /\ \A i \in 1..Len(added) : added[i] \in s.added
    BY <1>2, CtSetToSeq DEF CtRow
  <1> HIDE DEF gone, added
  <1>4. n \in Nat /\ n <= Len(gone) /\ n <= Len(added) /\ Len(gone) \in Nat /\ Len(added) \in Nat
    BY <1>3 DEF CtIsSeq
  <1> HIDE DEF n
  <1>5. /\ CtIsSeq(goneLeft) /\ \A i \in 1..Len(goneLeft) : goneLeft[i] \in s.gone
        /\ CtIsSeq(addedLeft) /\ \A i \in 1..Len(addedLeft) : addedLeft[i] \in s.added
    <2>1. /\ CtIsSeq(goneLeft) /\ Len(goneLeft) = Len(gone) - n
          /\ \A i \in 1..Len(gone) - n : goneLeft[i] = gone[i + n]
      BY <1>3, <1>4, CtSubSeq
    <2>2. /\ CtIsSeq(addedLeft) /\ Len(addedLeft) = Len(added) - n
          /\ \A i \in 1..Len(added) - n : addedLeft[i] = added[i + n]
      BY <1>3, <1>4, CtSubSeq
    <2> HIDE DEF goneLeft, addedLeft
    <2>3. (\A i \in 1..Len(gone) - n : i + n \in 1..Len(gone)) /\ (\A i \in 1..Len(added) - n : i + n \in 1..Len(added))
      BY <1>4
    <2>4. QED BY <1>3, <2>1, <2>2, <2>3
  <1> HIDE DEF goneLeft, addedLeft
  <1>6. DOMAIN goneLeft = 1..Len(goneLeft) /\ DOMAIN addedLeft = 1..Len(addedLeft)
    BY <1>5 DEF CtIsSeq
  <1>7. CtIsSeq(reused) /\ \A i \in 1..Len(reused) : reused[i].role # "demoted"
    <2>1. DOMAIN reused = 1..n /\ reused = [i \in 1..n |-> reused[i]] /\ \A i \in 1..n : reused[i].role = "secondary"
      BY CtNode
    <2> HIDE DEF reused
    <2>2. CtIsSeq(reused) /\ Len(reused) = n
      BY <1>4, <2>1, CtSeqMade
    <2>3. QED BY <2>1, <2>2
  <1>8. CtIsSeq(removed) /\ \A i \in 1..Len(removed) : removed[i].role # "demoted"
    <2> DEFINE k == Len(goneLeft)
    <2>1. k \in Nat /\ DOMAIN removed = 1..k /\ removed = [i \in 1..k |-> removed[i]]
      BY <1>5, <1>6 DEF CtIsSeq
    <2>2. \A i \in 1..k : removed[i].role = "none"
      BY <1>6, CtNode
    <2> HIDE DEF removed, k
    <2>3. CtIsSeq(removed) /\ Len(removed) = k
      BY <2>1, CtSeqMade
    <2>4. QED BY <2>2, <2>3
  <1>9. CtIsSeq(fresh) /\ \A i \in 1..Len(fresh) : fresh[i].role # "demoted"
    <2> DEFINE k == Len(addedLeft)
    <2>1. k \in Nat /\ DOMAIN fresh = 1..k /\ fresh = [i \in 1..k |-> fresh[i]]
      BY <1>5, <1>6 DEF CtIsSeq
    <2>2. \A i \in 1..k : fresh[i].role = "secondary"
      BY <1>6, CtNode
    <2> HIDE DEF fresh, k
    <2>3. CtIsSeq(fresh) /\ Len(fresh) = k
      BY <2>1, CtSeqMade
    <2>4. QED BY <2>2, <2>3
  <1>10. /\ IsFiniteSet(DOMAIN s.ids) /\ new.prim \in DOMAIN s.ids
         /\ old.prim # None => s.ids[new.prim] = old.ids[old.prim]
         /\ new.prim \notin s.gone /\ new.prim \notin s.added /\ IsFiniteSet(s.gone)
    BY <1>2 DEF CtRow, CtIds
  <1>11. DOMAIN paired = DOMAIN s.ids /\ paired[new.prim] = s.ids[new.prim]
    <2>1. DOMAIN known = DOMAIN s.ids /\ known[new.prim] = s.ids[new.prim]
      BY <1>10
    <2> HIDE DEF known
    <2>2. ~\E i \in 1..n : added[i] = new.prim
      BY <1>3, <1>4, <1>10
    <2>3. QED BY <1>10, <2>1, <2>2
  <1>12. CtIds(old, new, paired)
    <2> HIDE DEF paired
    <2>1. QED BY <1>10, <1>11 DEF CtIds
  <1>13. CtIds(old, new, kept)
    <2>1. CT!Range(goneLeft) \subseteq s.gone /\ CT!Range(addedLeft) \subseteq s.added
      BY <1>5, <1>6 DEF CT!Range
    <2> HIDE DEF paired
    <2>2. new.prim \in DOMAIN kept /\ kept[new.prim] = paired[new.prim]
      BY <1>10, <1>11, <2>1
    <2>3. DOMAIN kept \subseteq DOMAIN s.ids \cup s.gone
      BY <1>11, <2>1
    <2> HIDE DEF kept
    <2>4. IsFiniteSet(DOMAIN s.ids \cup s.gone)
      BY <1>10, FS_Union
    <2>5. IsFiniteSet(DOMAIN kept)
      BY <2>3, <2>4, FS_Subset
    <2>6. QED BY <1>10, <1>11, <2>2, <2>5 DEF CtIds
  <1> HIDE DEF reused, removed, fresh, kept, paired, r
  <1>14. CtUps(old, new, s.ups \o reused)
    BY <1>2, <1>7, CtFollow DEF CtRow
  <1>15. CtUps(old, new, s.ups \o reused \o removed)
    BY <1>8, <1>14, CtFollow
  <1>16. CtUps(old, new, s.ups \o reused \o removed \o fresh)
    BY <1>9, <1>15, CtFollow
  <1>17. CASE s.failover
    <2>1. r.ups = s.ups \o reused /\ r.ids = kept
      BY <1>1, <1>17
    <2>2. QED BY <1>13, <1>14, <2>1 DEF r
  <1>18. CASE ~s.failover
    <2>1. r.ups = s.ups \o reused \o removed \o fresh /\ r.ids = paired
      BY <1>1, <1>18
    <2>2. QED BY <1>12, <1>16, <2>1 DEF r
  <1>19. QED BY <1>17, <1>18

(* Where a task leaves the rows: only the row of the old primary may be     *)
(* marked, and none is once there is a primary.                             *)
LEMMA CtResult ==
  ASSUME NEW old, NEW new, CtGroup(old), CtTask(new), NEW start, IsFiniteSet(DOMAIN start.rows),
         CtPaused(start.rows) \subseteq CtMarked(old), old.role = "primary" => CtPaused(start.rows) = {}
  PROVE  LET r == CT!UpdateGroup(start, CT!Standbys(old, new).ups) IN
         /\ CtState(r) /\ CtPaused(r.rows) \subseteq CtMarked(old)
         /\ r.ok /\ new.role = "primary" => CtPaused(r.rows) = {}
  <1> DEFINE ups == CT!Standbys(old, new).ups
             r == CT!UpdateGroup(start, ups)
             n == Len(ups)
  <1>1. CtIsSeq(ups) /\ CtOnly(old, ups) /\ (new.role = "primary" => CtClears(old, ups))
    BY CtTransition DEF CtUps
  <1> HIDE DEF ups
  <1>2. n \in Nat /\ \A i \in 1..n : ups[i].role = "demoted" => {ups[i].id} \ {0} \subseteq CtMarked(old)
    BY <1>1 DEF CtIsSeq, CtOnly
  <1>3. CtState(r) /\ CtPaused(r.rows) \subseteq CtMarked(old)
    <2>1. n + 1 \in Nat \ {0} /\ ~(n + 1 <= n) /\ \A i \in 1..n : ~(i > n + 1)
      BY <1>2
    <2>2. QED BY <1>2, <2>1, CtMarks
  <1>4. ASSUME r.ok, new.role = "primary" PROVE CtPaused(r.rows) = {}
    <2>1. CASE \E j \in 1..Len(ups) : /\ ups[j].role = "primary" /\ CtMarked(old) \subseteq {ups[j].id} \ {0}
                                      /\ \A i \in 1..Len(ups) : i > j => ups[i].role # "demoted"
      <3>1. PICK j \in 1..n : /\ ups[j].role = "primary" /\ CtMarked(old) \subseteq {ups[j].id} \ {0}
                              /\ \A i \in 1..n : i > j => ups[i].role # "demoted"
        BY <2>1
      <3>2. j \in Nat \ {0} /\ j <= n /\ ups[j].role \notin {"none", "demoted"}
        BY <1>2, <3>1
      <3>3. QED BY <1>2, <1>4, <3>1, <3>2, CtMarks
    <2>2. CASE (old.prim # None => old.role = "primary") /\ \A i \in 1..Len(ups) : ups[i].role # "demoted"
      <3>1. CtPaused(start.rows) = {}
        BY <2>2 DEF CtMarked
      <3>2. /\ n + 1 \in Nat \ {0} /\ ~(n + 1 <= n) /\ CtPaused(start.rows) \subseteq {}
            /\ \A i \in 1..n : ups[i].role = "demoted" => {ups[i].id} \ {0} \subseteq {}
            /\ \A i \in 1..n : i > n + 1 => ups[i].role # "demoted"
        BY <1>2, <2>2, <3>1
      <3>3. CtPaused(r.rows) \subseteq {}
        BY <1>2, <3>2, CtMarks
      <3>4. QED BY <3>3
    <2>3. QED BY <1>1, <1>4, <2>1, <2>2 DEF CtClears
  <1>5. QED BY <1>3, <1>4 DEF ups

-----------------------------------------------------------------------------
CtGiven == First \in Nodes /\ None \notin Nodes /\ IsFiniteSet(Nodes) /\ "prim" \notin DOMAIN None

(* The fields of the variables.                                             *)
CtShape ==
  /\ table = [now |-> table.now, txn |-> table.txn]
  /\ mpp = [cache |-> mpp.cache, task |-> mpp.task, inflight |-> mpp.inflight, reload |-> mpp.reload,
            proc |-> mpp.proc]
  /\ group = [leader |-> group.leader, standbys |-> group.standbys, changes |-> group.changes,
              events |-> group.events, faults |-> group.faults, waiting |-> group.waiting, stuck |-> group.stuck]
CtDcs == group.leader \in Nodes /\ group.standbys \subseteq Nodes
CtProc(p) == p = [task |-> p.task, over |-> p.over, cut |-> p.cut] /\ CtTask(p.task)
CtTasks ==
  /\ CtGroup(mpp.cache) /\ (mpp.task # None => CtTask(mpp.task)) /\ (mpp.inflight # None => CtTask(mpp.inflight))
  /\ mpp.proc # None => CtProc(mpp.proc)

(* Nothing is marked in the table.  In the transaction it is at most the    *)
(* row that the group in flight calls its primary's, and only while that    *)
(* one is demoted.                                                          *)
CtNow == IsFiniteSet(DOMAIN table.now.rows) /\ CtPaused(table.now.rows) = {}
CtTxn ==
  table.txn # None => /\ mpp.inflight # None /\ IsFiniteSet(DOMAIN table.txn.rows)
                      /\ CtPaused(table.txn.rows) \subseteq CtMarked(mpp.inflight)
                      /\ mpp.inflight.role = "primary" => CtPaused(table.txn.rows) = {}
CtInv == CtShape /\ CtDcs /\ CtTasks /\ CtNow /\ CtTxn

(* What Group makes is a topology.                                          *)
LEMMA CtMade ==
  ASSUME NEW p, NEW r, NEW ids, IsFiniteSet(DOMAIN ids), NEW e, NEW rest
  PROVE  LET g == CT!Group(p, r, ids, e, rest) IN CtGroup(g) /\ g.prim = p /\ g.role = r /\ g.ids = ids /\ g.event = e
  <1> DEFINE g == CT!Group(p, r, ids, e, rest)
  <1>1. g = [prim |-> p, role |-> r, ids |-> ids, event |-> e, rest |-> rest, fresh |-> FALSE, failover |-> FALSE]
    BY DEF CT!Group
  <1> HIDE DEF g
  <1>2. QED BY <1>1 DEF CtGroup, g

LEMMA CtNoGroup == CtGroup(CT!NoGroup)
  <1>1. IsFiniteSet(DOMAIN CT!NoIds)
    <2>1. DOMAIN CT!NoIds = {}
      BY DEF CT!NoIds
    <2>2. QED BY <2>1, FS_EmptySet
  <1>2. QED BY <1>1, CtMade DEF CT!NoGroup

(* The table and the thread at the beginning.                               *)
LEMMA CtStart ==
  ASSUME CtGiven, CT!CtInit
  PROVE  CtInv
  <1>1. /\ table = [now |-> CT!Rows(CT!NoIds, 0), txn |-> None]
        /\ mpp = [cache |-> CT!NoGroup, task |-> None, inflight |-> None, reload |-> TRUE, proc |-> None]
    BY DEF CT!CtInit
  <1>2. PICK s \in SUBSET (Nodes \ {First}) :
          group = [leader |-> First, standbys |-> s, changes |-> 0, events |-> 0, faults |-> 0,
                   waiting |-> {}, stuck |-> FALSE]
    BY DEF CT!CtInit
  <1>3. CtShape
    BY <1>1, <1>2 DEF CtShape
  <1>4. CtDcs
    BY <1>2 DEF CtDcs, CtGiven
  <1>5. CtTasks
    <2>1. mpp.cache = CT!NoGroup /\ mpp.task = None /\ mpp.inflight = None /\ mpp.proc = None
      BY <1>1
    <2>2. QED BY <2>1, CtNoGroup DEF CtTasks
  <1>6. CtNow
    <2>1. table.now.rows = CT!NoIds /\ DOMAIN CT!NoIds = {}
      BY <1>1 DEF CT!Rows, CT!NoIds
    <2>2. QED BY <2>1, FS_EmptySet DEF CtNow, CtPaused
  <1>7. CtTxn
    BY <1>1 DEF CtTxn
  <1>8. QED BY <1>3, <1>4, <1>5, <1>6, <1>7 DEF CtInv

(* add_task(): a task for the group as it is.                               *)
LEMMA CtNewTask ==
  ASSUME CtGiven, CtDcs, NEW event, NEW rest
  PROVE  CtTask(CT!NewTask(event, rest))
  <1> DEFINE t == CT!NewTask(event, rest)
             ids == [h \in group.standbys \cup {group.leader} |-> 0]
             role == IF event = "before_demote" THEN "demoted" ELSE "primary"
  <1>1. t = CT!Group(group.leader, role, ids, event, rest)
    BY DEF CT!NewTask
  <1>2. group.standbys \cup {group.leader} \subseteq Nodes
    BY DEF CtDcs
  <1>3. IsFiniteSet(DOMAIN ids) /\ group.leader \in DOMAIN ids
    <2>1. IsFiniteSet(group.standbys \cup {group.leader})
      BY <1>2, FS_Subset DEF CtGiven
    <2>2. QED BY <2>1
  <1> HIDE DEF t, ids, role
  <1>4. CtGroup(t) /\ t.prim = group.leader /\ t.role = role /\ t.ids = ids /\ t.event = event
    BY <1>1, <1>3, CtMade
  <1>5. CtTask(t)
    BY <1>3, <1>4 DEF CtTask, CtGiven, CtDcs, role
  <1>6. QED BY <1>5 DEF t

(* What the actions do to the fields.                                       *)
CtMpp(cache, task, inflight, reload, proc) ==
  mpp' = [cache |-> cache, task |-> task, inflight |-> inflight, reload |-> reload, proc |-> proc]
CtSameDcs ==
  /\ group' = [leader |-> group'.leader, standbys |-> group'.standbys, changes |-> group'.changes,
               events |-> group'.events, faults |-> group'.faults, waiting |-> group'.waiting, stuck |-> group'.stuck]
  /\ group'.leader = group.leader /\ group'.standbys = group.standbys

(* Counters do not matter.                                                  *)
LEMMA CtCounters ==
  ASSUME CtShape, NEW w, NEW b, NEW e, NEW f,
         group' = [group EXCEPT !.waiting = w, !.stuck = b, !.events = e, !.faults = f]
  PROVE  CtSameDcs
  <1>1. group' = [leader |-> group.leader, standbys |-> group.standbys, changes |-> group.changes, events |-> e,
                  faults |-> f, waiting |-> w, stuck |-> b]
    BY DEF CtShape
  <1>2. QED BY <1>1 DEF CtSameDcs

(* The task the thread works on, when it is overtaken or cut off.           *)
LEMMA CtProcOver ==
  ASSUME NEW p, CtProc(p)
  PROVE  CtProc([p EXCEPT !.over = TRUE])
  <1> DEFINE r == [p EXCEPT !.over = TRUE]
  <1>1. p = [task |-> p.task, over |-> p.over, cut |-> p.cut]
    BY DEF CtProc
  <1>2. r = [task |-> p.task, over |-> TRUE, cut |-> p.cut]
    <2>1. p \in [task : {p.task}, over : {p.over}, cut : {p.cut}]
      BY <1>1
    <2>2. r \in [task : {p.task}, over : {TRUE}, cut : {p.cut}]
      BY <2>1
    <2> HIDE DEF r
    <2>3. QED BY <2>2
  <1> HIDE DEF r
  <1>3. r.task = p.task /\ r.over = TRUE /\ r.cut = p.cut
    BY <1>2
  <1>4. CtProc(r)
    BY <1>2, <1>3 DEF CtProc
  <1>5. QED BY <1>4 DEF r

LEMMA CtProcCut ==
  ASSUME NEW p, CtProc(p)
  PROVE  CtProc([p EXCEPT !.over = TRUE, !.cut = TRUE])
  <1> DEFINE r == [p EXCEPT !.over = TRUE, !.cut = TRUE]
  <1>1. p = [task |-> p.task, over |-> p.over, cut |-> p.cut]
    BY DEF CtProc
  <1>2. r = [task |-> p.task, over |-> TRUE, cut |-> TRUE]
    <2>1. p \in [task : {p.task}, over : {p.over}, cut : {p.cut}]
      BY <1>1
    <2>2. r \in [task : {p.task}, over : {TRUE}, cut : {TRUE}]
      BY <2>1
    <2> HIDE DEF r
    <2>3. QED BY <2>2
  <1> HIDE DEF r
  <1>3. r.task = p.task /\ r.over = TRUE /\ r.cut = TRUE
    BY <1>2
  <1>4. CtProc(r)
    BY <1>2, <1>3 DEF CtProc
  <1>5. QED BY <1>4 DEF r

(* The inductive step, once the new values are known.                       *)
LEMMA CtStepTo ==
  ASSUME CtInv, CtSameDcs \/ (group' = group), table' = [now |-> table'.now, txn |-> table'.txn],
         NEW cache, NEW task, NEW inflight, NEW reload, NEW proc, CtMpp(cache, task, inflight, reload, proc),
         CtGroup(cache), task # None => CtTask(task), inflight # None => CtTask(inflight),
         proc # None => CtProc(proc), CtNow',
         table'.txn # None => /\ inflight # None /\ IsFiniteSet(DOMAIN table'.txn.rows)
                              /\ CtPaused(table'.txn.rows) \subseteq CtMarked(inflight)
                              /\ inflight.role = "primary" => CtPaused(table'.txn.rows) = {}
  PROVE  CtInv'
  <1>1. /\ mpp'.cache = cache /\ mpp'.task = task /\ mpp'.inflight = inflight /\ mpp'.reload = reload
        /\ mpp'.proc = proc
    BY DEF CtMpp
  <1>2. CtDcs'
    BY DEF CtInv, CtDcs, CtSameDcs
  <1>3. CtTasks'
    BY <1>1 DEF CtTasks
  <1>4. CtTxn'
    BY <1>1 DEF CtTxn
  <1>5. group' = [leader |-> group'.leader, standbys |-> group'.standbys, changes |-> group'.changes,
                  events |-> group'.events, faults |-> group'.faults, waiting |-> group'.waiting, stuck |-> group'.stuck]
    BY Zenon DEF CtInv, CtShape, CtSameDcs
  <1>6. mpp' = [cache |-> mpp'.cache, task |-> mpp'.task, inflight |-> mpp'.inflight, reload |-> mpp'.reload,
                proc |-> mpp'.proc]
    BY <1>1, Zenon DEF CtMpp
  <1>7. CtShape'
    BY <1>5, <1>6, Zenon DEF CtShape
  <1>8. QED BY <1>2, <1>3, <1>4, <1>7 DEF CtInv

(* Facts of the present state.                                              *)
LEMMA CtFacts ==
  ASSUME CtInv
  PROVE  /\ CtGroup(mpp.cache) /\ (mpp.task # None => CtTask(mpp.task)) /\ (mpp.inflight # None => CtTask(mpp.inflight))
         /\ mpp.proc # None => CtProc(mpp.proc)
         /\ table.txn # None => /\ mpp.inflight # None /\ IsFiniteSet(DOMAIN table.txn.rows)
                                /\ CtPaused(table.txn.rows) \subseteq CtMarked(mpp.inflight)
                                /\ mpp.inflight.role = "primary" => CtPaused(table.txn.rows) = {}
         /\ table = [now |-> table.now, txn |-> table.txn]
  <1>1. CtTasks /\ CtTxn /\ CtShape
    BY DEF CtInv
  <1>2. QED BY <1>1 DEF CtTasks, CtTxn, CtShape

(* add_task() and the requests that wait leave the transaction alone.       *)
LEMMA CtAddTask ==
  ASSUME CtInv, NEW t, CtTask(t), CT!AddTask(t), UNCHANGED table, CtSameDcs
  PROVE  CtInv'
  <1> DEFINE proc == IF mpp.proc = None THEN None ELSE [mpp.proc EXCEPT !.over = TRUE]
  <1>1. CtMpp(mpp.cache, t, mpp.inflight, mpp.reload, proc)
    <2>1. mpp' = [mpp EXCEPT !.task = t, !.proc = proc]
      BY DEF CT!AddTask
    <2> HIDE DEF proc
    <2>2. QED BY <2>1 DEF CtInv, CtShape, CtMpp
  <1>2. proc # None => CtProc(proc)
    <2>1. mpp.proc # None => CtProc(mpp.proc)
      BY CtFacts
    <2>2. CtProc(mpp.proc) => CtProc([mpp.proc EXCEPT !.over = TRUE])
      BY CtProcOver
    <2>3. QED BY <2>1, <2>2
  <1> HIDE DEF proc
  <1>3. CtNow'
    BY DEF CtInv, CtNow
  <1>4. QED BY <1>1, <1>2, <1>3, CtFacts, CtStepTo

LEMMA CtOverride ==
  ASSUME CtShape, NEW w, NEW e, NEW f
  PROVE  /\ group' = CT!Override(w) => CtSameDcs
         /\ group' = [CT!Override(w) EXCEPT !.events = e] => CtSameDcs
         /\ group' = [CT!Override(w) EXCEPT !.faults = f] => CtSameDcs
         /\ group' = CT!Woken => CtSameDcs
         /\ group' = [CT!Woken EXCEPT !.faults = f] => CtSameDcs
         /\ group' = [group EXCEPT !.waiting = w] => CtSameDcs
  <1> DEFINE x == IF w THEN group.waiting \cup {"task"} ELSE group.waiting \ {"task"}
             y == group.stuck \/ "task" \in group.waiting
             z == group.waiting \ {"proc"}
  <1>1. CT!Override(w) = [leader |-> group.leader, standbys |-> group.standbys, changes |-> group.changes,
                          events |-> group.events, faults |-> group.faults, waiting |-> x, stuck |-> y]
    <2>1. CT!Override(w) = [group EXCEPT !.waiting = x, !.stuck = y]
      BY DEF CT!Override
    <2> HIDE DEF x, y
    <2>2. QED BY <2>1 DEF CtShape
  <1>2. CT!Woken = [leader |-> group.leader, standbys |-> group.standbys, changes |-> group.changes,
                    events |-> group.events, faults |-> group.faults, waiting |-> z, stuck |-> group.stuck]
    <2>1. CT!Woken = [group EXCEPT !.waiting = z]
      BY DEF CT!Woken
    <2> HIDE DEF z
    <2>2. QED BY <2>1 DEF CtShape
  <1> HIDE DEF x, y, z
  <1>3. group' = CT!Override(w) => CtSameDcs
    BY <1>1 DEF CtSameDcs
  <1>4. group' = [CT!Override(w) EXCEPT !.events = e] => CtSameDcs
    BY <1>1 DEF CtSameDcs
  <1>5. group' = [CT!Override(w) EXCEPT !.faults = f] => CtSameDcs
    BY <1>1 DEF CtSameDcs
  <1>6. group' = CT!Woken => CtSameDcs
    BY <1>2 DEF CtSameDcs
  <1>7. group' = [CT!Woken EXCEPT !.faults = f] => CtSameDcs
    BY <1>2 DEF CtSameDcs
  <1>8. group' = [group EXCEPT !.waiting = w] => CtSameDcs
    BY DEF CtShape, CtSameDcs
  <1>9. QED BY <1>3, <1>4, <1>5, <1>6, <1>7, <1>8

(* One lemma for each action.                                               *)
LEMMA CtSyncMetaData ==
  ASSUME CtGiven, CtInv, CT!SyncMetaData
  PROVE  CtInv'
  <1> DEFINE t == CT!NewTask("after_promote", FALSE)
  <1>1. CtTask(t)
    <2>1. CtDcs
      BY DEF CtInv
    <2>2. QED BY <2>1, CtNewTask, Zenon
  <1>2. CT!AddTask(t) /\ UNCHANGED table /\ group' = CT!Override(FALSE)
    BY Zenon DEF CT!SyncMetaData
  <1> HIDE DEF t
  <1>3. CtSameDcs
    BY <1>2, CtOverride DEF CtInv
  <1>4. QED BY <1>1, <1>2, <1>3, CtAddTask

LEMMA CtHandleEvent ==
  ASSUME CtGiven, CtInv, NEW event, CT!HandleEvent(event)
  PROVE  CtInv'
  <1> DEFINE t == CT!NewTask(event, TRUE)
             w == event = "before_demote"
             e == group.events + 1
  <1>1. CtTask(t)
    <2>1. CtDcs
      BY DEF CtInv
    <2>2. QED BY <2>1, CtNewTask, Zenon
  <1>2. CT!AddTask(t) /\ UNCHANGED table /\ group' = [CT!Override(w) EXCEPT !.events = @ + 1]
    BY DEF CT!HandleEvent
  <1> HIDE DEF t
  <1>3. CtSameDcs
    <2>1. CtShape
      BY DEF CtInv
    <2>2. \A c : group' = [CT!Override(w) EXCEPT !.events = c] => CtSameDcs
      BY <2>1, CtOverride
    <2> HIDE DEF w
    <2>3. QED BY <1>2, <2>2
  <1>4. QED BY <1>1, <1>2, <1>3, CtAddTask

(* The hosts of finitely many rows.                                         *)
LEMMA CtHosts ==
  ASSUME NEW rows, IsFiniteSet(DOMAIN rows)
  PROVE  IsFiniteSet({rows[i][1] : i \in DOMAIN rows})
  <1> DEFINE hosts == {rows[i][1] : i \in DOMAIN rows}
             f == [i \in DOMAIN rows |-> rows[i][1]]
  <1>1. f \in [DOMAIN rows -> hosts] /\ \A h \in hosts : \E i \in DOMAIN rows : f[i] = h
    OBVIOUS
  <1> HIDE DEF f, hosts
  <1>2. f \in Surjection(DOMAIN rows, hosts)
    BY <1>1 DEF Surjection
  <1>3. QED BY <1>2, FS_Surjection DEF hosts

LEMMA CtLoad ==
  ASSUME CtInv, CT!LoadPgDistGroup
  PROVE  CtInv'
  <1> DEFINE rows == table.now.rows
             hosts == {rows[i][1] : i \in DOMAIN rows}
             ids == [h \in hosts |-> CHOOSE i \in DOMAIN rows : rows[i][1] = h]
             made == CT!Group(rows[table.now.pid][1], "primary", ids, "after_promote", FALSE)
             none == CT!Group(None, "none", ids, "after_promote", FALSE)
             cache == IF table.now.pid \in DOMAIN rows THEN made ELSE none
  <1>1. mpp' = [mpp EXCEPT !.reload = FALSE, !.cache = cache] /\ table' = table /\ group' = group
    BY DEF CT!LoadPgDistGroup
  <1>2. IsFiniteSet(DOMAIN ids)
    <2>1. IsFiniteSet(hosts) /\ DOMAIN ids = hosts
      BY CtHosts DEF CtInv, CtNow
    <2>2. QED BY <2>1
  <1> HIDE DEF ids, rows
  <1>3. CtGroup(made) /\ CtGroup(none)
    BY <1>2, CtMade
  <1>4. CtGroup(cache)
    BY <1>3
  <1> HIDE DEF made, none, cache
  <1>5. CtMpp(cache, mpp.task, mpp.inflight, FALSE, mpp.proc)
    BY <1>1 DEF CtInv, CtShape, CtMpp
  <1>6. CtNow'
    BY <1>1 DEF CtInv, CtNow
  <1>7. QED BY <1>1, <1>4, <1>5, <1>6, CtFacts, CtStepTo

LEMMA CtPick ==
  ASSUME CtInv, CT!PickTask
  PROVE  CtInv'
  <1>1. mpp.task # None /\ mpp.proc = None /\ table' = table
    BY DEF CT!PickTask
  <1>2. CtNow'
    BY <1>1 DEF CtInv, CtNow
  <1>3. CASE mpp' = [mpp EXCEPT !.task = None] /\ group' = CT!Override(FALSE)
    <2>1. CtMpp(mpp.cache, None, mpp.inflight, mpp.reload, mpp.proc)
      BY <1>3 DEF CtInv, CtShape, CtMpp
    <2>2. CtSameDcs
      BY <1>3, CtOverride DEF CtInv
    <2>3. QED BY <1>1, <1>2, <2>1, <2>2, CtFacts, CtStepTo
  <1>4. CASE /\ mpp' = [mpp EXCEPT !.proc = [task |-> mpp.task, over |-> FALSE, cut |-> FALSE]]
             /\ group' = [group EXCEPT !.waiting = IF "task" \in @ THEN {"proc"} ELSE @]
    <2> DEFINE p == [task |-> mpp.task, over |-> FALSE, cut |-> FALSE]
               w == IF "task" \in group.waiting THEN {"proc"} ELSE group.waiting
    <2>1. group' = [group EXCEPT !.waiting = w]
      BY <1>4
    <2>2. CtProc(p)
      BY <1>1, CtFacts DEF CtProc
    <2> HIDE DEF p, w
    <2>3. CtMpp(mpp.cache, mpp.task, mpp.inflight, mpp.reload, p)
      BY <1>4 DEF CtInv, CtShape, CtMpp, p
    <2>4. CtSameDcs
      BY <2>1, CtOverride DEF CtInv
    <2>5. QED BY <1>1, <1>2, <2>2, <2>3, <2>4, CtFacts, CtStepTo
  <1>5. QED BY <1>3, <1>4 DEF CT!PickTask

LEMMA CtRollback ==
  ASSUME CtInv, CT!Rollback
  PROVE  CtInv'
  <1>1. table' = [table EXCEPT !.txn = None] /\ mpp' = [mpp EXCEPT !.inflight = None] /\ group' = group
    BY DEF CT!Rollback
  <1>2. table' = [now |-> table.now, txn |-> None]
    BY <1>1 DEF CtInv, CtShape
  <1>3. table'.now = table.now /\ table'.txn = None
    BY <1>2
  <1>4. CtNow'
    BY <1>3 DEF CtInv, CtNow
  <1>5. CtMpp(mpp.cache, mpp.task, None, mpp.reload, mpp.proc)
    BY <1>1 DEF CtInv, CtShape, CtMpp
  <1>6. QED BY <1>1, <1>2, <1>3, <1>4, <1>5, CtFacts, CtStepTo

(* Another value of fresh, ids or failover.                                 *)
LEMMA CtFresh ==
  ASSUME NEW t, CtTask(t), NEW fresh
  PROVE  LET u == [t EXCEPT !.fresh = fresh] IN CtTask(u) /\ CtMarked(u) = CtMarked(t) /\ u.role = t.role
  <1> DEFINE u == [t EXCEPT !.fresh = fresh]
  <1>1. t = [prim |-> t.prim, role |-> t.role, ids |-> t.ids, event |-> t.event, rest |-> t.rest,
             fresh |-> t.fresh, failover |-> t.failover]
    BY DEF CtTask, CtGroup
  <1>2. t \in [prim : {t.prim}, role : {t.role}, ids : {t.ids}, event : {t.event}, rest : {t.rest},
               fresh : {t.fresh}, failover : {t.failover}]
    BY <1>1
  <1>3. u \in [prim : {t.prim}, role : {t.role}, ids : {t.ids}, event : {t.event}, rest : {t.rest},
               fresh : {fresh}, failover : {t.failover}]
    BY <1>2
  <1> HIDE DEF u
  <1>4. u = [prim |-> t.prim, role |-> t.role, ids |-> t.ids, event |-> t.event, rest |-> t.rest,
             fresh |-> fresh, failover |-> t.failover]
    BY <1>3
  <1>5. /\ u.prim = t.prim /\ u.role = t.role /\ u.ids = t.ids /\ u.event = t.event /\ u.rest = t.rest
        /\ u.fresh = fresh /\ u.failover = t.failover
    BY <1>4
  <1>6. CtTask(u)
    BY <1>4, <1>5 DEF CtTask, CtGroup
  <1>7. QED BY <1>5, <1>6 DEF CtMarked, u

(* A group is not None.                                                     *)
LEMMA CtIsSome ==
  ASSUME CtGiven, NEW g, CtGroup(g)
  PROVE  g # None
  <1>1. DOMAIN g = {"prim", "role", "ids", "event", "rest", "fresh", "failover"}
    BY DEF CtGroup
  <1>2. QED BY <1>1 DEF CtGiven

LEMMA CtDeadline ==
  ASSUME CtGiven, CtInv, CT!Deadline
  PROVE  CtInv'
  <1> DEFINE u == [mpp.inflight EXCEPT !.fresh = FALSE]
  <1>1. mpp' = [mpp EXCEPT !.inflight = u] /\ table' = table /\ group' = group /\ mpp.inflight # None
    BY DEF CT!Deadline
  <1>2. CtTask(u) /\ CtMarked(u) = CtMarked(mpp.inflight) /\ u.role = mpp.inflight.role
    BY <1>1, CtFacts, CtFresh
  <1> HIDE DEF u
  <1>3. CtMpp(mpp.cache, mpp.task, u, mpp.reload, mpp.proc)
    BY <1>1 DEF CtInv, CtShape, CtMpp
  <1>4. CtNow'
    BY <1>1 DEF CtInv, CtNow
  <1>5. u # None
    BY <1>2, CtIsSome DEF CtTask
  <1>6. QED BY <1>1, <1>2, <1>3, <1>4, <1>5, CtFacts, CtStepTo

LEMMA CtOnDemote ==
  ASSUME CtInv, CT!OnDemote
  PROVE  CtInv'
  <1> DEFINE p == IF mpp.proc = None THEN None ELSE [mpp.proc EXCEPT !.over = TRUE, !.cut = TRUE]
  <1>1. /\ table' = [table EXCEPT !.txn = None] /\ CtMpp(CT!NoGroup, None, None, TRUE, p)
        /\ group' = [CT!Override(FALSE) EXCEPT !.faults = @ + 1]
    BY DEF CT!OnDemote, CtMpp
  <1>2. table' = [now |-> table.now, txn |-> None]
    BY <1>1 DEF CtInv, CtShape
  <1>3. table'.now = table.now /\ table'.txn = None
    BY <1>2
  <1>4. CtNow'
    BY <1>3 DEF CtInv, CtNow
  <1>5. p # None => CtProc(p)
    <2>1. CtProc(mpp.proc) => CtProc([mpp.proc EXCEPT !.over = TRUE, !.cut = TRUE])
      BY CtProcCut, Zenon
    <2>2. QED BY <2>1, CtFacts
  <1> HIDE DEF p
  <1>6. CtSameDcs
    <2>1. CtShape
      BY DEF CtInv
    <2>2. \A c : group' = [CT!Override(FALSE) EXCEPT !.faults = c] => CtSameDcs
      BY <2>1, CtOverride
    <2>3. QED BY <1>1, <2>2
  <1>7. QED BY <1>1, <1>2, <1>3, <1>4, <1>5, <1>6, CtNoGroup, CtStepTo

LEMMA CtChange ==
  ASSUME CtInv, CT!ChangeGroup
  PROVE  CtInv'
  <1>1. table' = table /\ mpp' = mpp
    BY Zenon DEF CT!ChangeGroup
  <1> DEFINE c == group.changes + 1
  <1>2. PICK h \in Nodes, s \in SUBSET Nodes :
          \/ group' = [group EXCEPT !.leader = h, !.standbys = s, !.changes = @ + 1]
          \/ h = group.leader /\ group' = [group EXCEPT !.standbys = s, !.changes = @ + 1]
    <2>1. \/ \E h \in Nodes \ {group.leader}, s \in SUBSET Nodes :
               group' = [group EXCEPT !.leader = h, !.standbys = s, !.changes = @ + 1]
          \/ \E s \in SUBSET (Nodes \ {group.leader}) : group' = [group EXCEPT !.standbys = s, !.changes = @ + 1]
      BY Zenon DEF CT!ChangeGroup
    <2>2. group.leader \in Nodes /\ SUBSET (Nodes \ {group.leader}) \subseteq SUBSET Nodes
      BY DEF CtInv, CtDcs
    <2>3. QED BY <2>1, <2>2, Zenon
  <1>3. group' = [leader |-> h, standbys |-> s, changes |-> group.changes + 1, events |-> group.events,
                  faults |-> group.faults, waiting |-> group.waiting, stuck |-> group.stuck]
    <2>1. group = [leader |-> group.leader, standbys |-> group.standbys, changes |-> group.changes,
                   events |-> group.events, faults |-> group.faults, waiting |-> group.waiting, stuck |-> group.stuck]
      BY DEF CtInv, CtShape
    <2>2. CASE group' = [group EXCEPT !.leader = h, !.standbys = s, !.changes = @ + 1]
      BY <2>1, <2>2
    <2>3. CASE h = group.leader /\ group' = [group EXCEPT !.standbys = s, !.changes = @ + 1]
      BY <2>1, <2>3
    <2>4. QED BY <1>2, <2>2, <2>3
  <1>4. CtDcs'
    BY <1>3 DEF CtDcs
  <1>5. CtShape'
    BY <1>1, <1>3 DEF CtInv, CtShape
  <1>6. CtTasks' /\ CtNow' /\ CtTxn'
    BY <1>1 DEF CtInv, CtTasks, CtNow, CtTxn
  <1>7. QED BY <1>4, <1>5, <1>6 DEF CtInv

(* citus_add_node() returns ids for hosts that have none.                   *)
LEMMA CtWithIds ==
  ASSUME NEW ids, NEW rows, NEW h, h \in DOMAIN ids
  PROVE  /\ DOMAIN CT!WithIds(ids, rows) = DOMAIN ids
         /\ ids[h] # 0 => CT!WithIds(ids, rows)[h] = ids[h]
  BY DEF CT!WithIds

(* The task with the ids that it has got.                                   *)
LEMMA CtDone ==
  ASSUME NEW old, NEW t, CtTask(t), NEW ids, CtIds(old, t, ids), NEW rows, NEW failover
  PROVE  LET d == [t EXCEPT !.ids = CT!WithIds(ids, rows), !.failover = failover] IN
         CtTask(d) /\ d.role = t.role /\ (old.prim # None => CtMarked(old) \subseteq CtMarked(d))
  <1> DEFINE d == [t EXCEPT !.ids = CT!WithIds(ids, rows), !.failover = failover]
             got == CT!WithIds(ids, rows)
  <1>1. t = [prim |-> t.prim, role |-> t.role, ids |-> t.ids, event |-> t.event, rest |-> t.rest,
             fresh |-> t.fresh, failover |-> t.failover]
    BY DEF CtTask, CtGroup
  <1>2. t \in [prim : {t.prim}, role : {t.role}, ids : {t.ids}, event : {t.event}, rest : {t.rest},
               fresh : {t.fresh}, failover : {t.failover}]
    BY <1>1
  <1>3. d \in [prim : {t.prim}, role : {t.role}, ids : {got}, event : {t.event}, rest : {t.rest},
               fresh : {t.fresh}, failover : {failover}]
    <2> HIDE DEF got
    <2>1. QED BY <1>2 DEF got
  <1>4. /\ IsFiniteSet(DOMAIN ids) /\ t.prim \in DOMAIN ids /\ DOMAIN got = DOMAIN ids
        /\ old.prim # None => ids[t.prim] = old.ids[old.prim]
        /\ ids[t.prim] # 0 => got[t.prim] = ids[t.prim]
    BY CtWithIds DEF CtIds
  <1> HIDE DEF d, got
  <1>5. d = [prim |-> t.prim, role |-> t.role, ids |-> got, event |-> t.event, rest |-> t.rest,
             fresh |-> t.fresh, failover |-> failover]
    BY <1>3
  <1>6. /\ d.prim = t.prim /\ d.role = t.role /\ d.ids = got /\ d.event = t.event /\ d.rest = t.rest
        /\ d.fresh = t.fresh /\ d.failover = failover
    BY <1>5
  <1>7. CtTask(d)
    <2>1. CtGroup(d)
      BY <1>4, <1>5, <1>6 DEF CtGroup
    <2>2. QED BY <1>4, <1>6, <2>1 DEF CtTask
  <1>8. old.prim # None => CtMarked(old) \subseteq CtMarked(d)
    <2>1. d.prim # None
      BY <1>7 DEF CtTask
    <2>2. QED BY <1>4, <1>6, <2>1 DEF CtMarked
  <1>9. QED BY <1>6, <1>7, <1>8 DEF d

(* The cache with another role, or without failover.                        *)
LEMMA CtRole ==
  ASSUME NEW g, CtGroup(g), NEW r
  PROVE  CtGroup([g EXCEPT !.role = r])
  <1> DEFINE u == [g EXCEPT !.role = r]
  <1>1. g \in [prim : {g.prim}, role : {g.role}, ids : {g.ids}, event : {g.event}, rest : {g.rest},
               fresh : {g.fresh}, failover : {g.failover}]
    BY DEF CtGroup
  <1>2. u \in [prim : {g.prim}, role : {r}, ids : {g.ids}, event : {g.event}, rest : {g.rest},
               fresh : {g.fresh}, failover : {g.failover}]
    BY <1>1
  <1> HIDE DEF u
  <1>3. u = [prim |-> g.prim, role |-> r, ids |-> g.ids, event |-> g.event, rest |-> g.rest,
             fresh |-> g.fresh, failover |-> g.failover]
    BY <1>2
  <1>4. /\ u.prim = g.prim /\ u.role = r /\ u.ids = g.ids /\ u.event = g.event /\ u.rest = g.rest
        /\ u.fresh = g.fresh /\ u.failover = g.failover
    BY <1>3
  <1>5. CtGroup(u)
    BY <1>3, <1>4 DEF CtGroup
  <1>6. QED BY <1>5 DEF u

LEMMA CtClean ==
  ASSUME NEW t, CtTask(t)
  PROVE  CtGroup([t EXCEPT !.failover = FALSE])
  <1> DEFINE u == [t EXCEPT !.failover = FALSE]
  <1>1. t \in [prim : {t.prim}, role : {t.role}, ids : {t.ids}, event : {t.event}, rest : {t.rest},
               fresh : {t.fresh}, failover : {t.failover}]
    BY DEF CtTask, CtGroup
  <1>2. u \in [prim : {t.prim}, role : {t.role}, ids : {t.ids}, event : {t.event}, rest : {t.rest},
               fresh : {t.fresh}, failover : {FALSE}]
    BY <1>1
  <1>3. IsFiniteSet(DOMAIN t.ids)
    BY DEF CtTask, CtGroup
  <1> HIDE DEF u
  <1>4. u = [prim |-> t.prim, role |-> t.role, ids |-> t.ids, event |-> t.event, rest |-> t.rest,
             fresh |-> t.fresh, failover |-> FALSE]
    BY <1>2
  <1>5. /\ u.prim = t.prim /\ u.role = t.role /\ u.ids = t.ids /\ u.event = t.event /\ u.rest = t.rest
        /\ u.fresh = t.fresh /\ u.failover = FALSE
    BY <1>4
  <1>6. CtGroup(u)
    BY <1>3, <1>4, <1>5 DEF CtGroup
  <1>7. QED BY <1>6 DEF u

(* The transaction is gone, what was written stays or not.                  *)
LEMMA CtFailed ==
  ASSUME CtInv, mpp.proc # None, NEW now, IsFiniteSet(DOMAIN now.rows), CtPaused(now.rows) = {}, CT!Failed(now), CtSameDcs
  PROVE  CtInv'
  <1> DEFINE task == IF mpp.proc.over THEN mpp.task ELSE None
  <1>1. table' = [now |-> now, txn |-> None]
    BY DEF CT!Failed
  <1>2. mpp' = [mpp EXCEPT !.inflight = None, !.reload = TRUE, !.proc = None, !.task = task]
    <2>1. mpp' = [mpp EXCEPT !.inflight = None, !.reload = TRUE, !.proc = None, !.task = IF mpp.proc.over THEN @ ELSE None]
      BY Zenon DEF CT!Failed
    <2>2. QED BY <2>1 DEF CtInv, CtShape
  <1>3. task # None => CtTask(task)
    BY CtFacts
  <1> HIDE DEF task
  <1>4. CtMpp(mpp.cache, task, None, TRUE, None)
    BY <1>2 DEF CtInv, CtShape, CtMpp
  <1>5. table'.now = now /\ table'.txn = None
    BY <1>1
  <1>6. CtNow'
    BY <1>5 DEF CtNow
  <1>7. QED BY <1>1, <1>3, <1>4, <1>5, <1>6, CtFacts, CtStepTo

(* process_task(): committed, open, refused or lost.                        *)
LEMMA CtProcess ==
  ASSUME CtGiven, CtInv, CT!ProcessTask
  PROVE  CtInv'
  <1> DEFINE task == mpp.proc.task
             old == IF mpp.inflight # None THEN mpp.inflight ELSE mpp.cache
             rest == IF mpp.proc.over THEN mpp.task ELSE None
             start == IF table.txn # None THEN table.txn ELSE table.now
             moved == CT!Standbys(old, task)
             result == CT!UpdateGroup(start, moved.ups)
             Done(m, r) == [task EXCEPT !.ids = CT!WithIds(m.ids, r.rows), !.failover = m.failover]
             Cache(m) == IF mpp.inflight = None /\ mpp.cache.prim # None
                         THEN [mpp.cache EXCEPT !.role = m.role] ELSE mpp.cache
  <1>1. mpp.proc # None
    BY Zenon DEF CT!ProcessTask
  <1>2. CT!Committed(moved, result) \/ CT!Opened(moved, result) \/ CT!Refused(result) \/ CT!Lost(result)
    BY Zenon DEF CT!ProcessTask
  <1>3. /\ CT!Rest = rest /\ (CT!Fine(result) => result.ok)
        /\ (CT!Final(result) <=> CT!Fine(result) /\ task.event = "after_promote")
        /\ CT!Done(moved, result) = Done(moved, result)
    BY Zenon DEF CT!Rest, CT!Fine, CT!Final, CT!Done
  <1>4. CtGroup(old) /\ CtTask(task) /\ (rest # None => CtTask(rest))
    BY <1>1, CtFacts DEF CtTask, CtProc
  <1>5. /\ IsFiniteSet(DOMAIN start.rows) /\ CtPaused(start.rows) \subseteq CtMarked(old)
        /\ old.role = "primary" => CtPaused(start.rows) = {}
    BY CtFacts DEF CtInv, CtNow
  <1> HIDE DEF task, old, rest, start
  <1>6. CtIds(old, task, moved.ids)
    BY <1>4, CtTransition
  <1>7. /\ IsFiniteSet(DOMAIN result.rows) /\ CtPaused(result.rows) \subseteq CtMarked(old)
        /\ result.ok /\ task.role = "primary" => CtPaused(result.rows) = {}
    BY <1>4, <1>5, CtResult DEF CtState
  <1> HIDE DEF moved, result
  <1> DEFINE after == CT!Rows(result.rows, result.pid)
             done == Done(moved, result)
  <1>8. after.rows = result.rows
    BY DEF CT!Rows
  <1>9. CtTask(done) /\ done.role = task.role /\ (old.prim # None => CtMarked(old) \subseteq CtMarked(done))
    BY <1>4, <1>6, CtDone, Zenon
  <1>10. task.event = "after_promote" => task.role = "primary"
    BY <1>4 DEF CtTask
  <1> HIDE DEF after, done
  <1>11. CtShape /\ CtNow /\ table = [now |-> table.now, txn |-> table.txn]
    BY DEF CtInv, CtShape
  <1>12. CASE CT!Committed(moved, result)
    <2>1. /\ result.ok /\ task.event = "after_promote" /\ group' = CT!Woken /\ table' = [now |-> after, txn |-> None]
          /\ mpp' = [mpp EXCEPT !.cache = [done EXCEPT !.failover = FALSE], !.inflight = None,
                                !.task = rest, !.proc = None]
      BY <1>3, <1>12, Zenon DEF CT!Committed, after, done
    <2> DEFINE cache == [done EXCEPT !.failover = FALSE]
    <2>2. CtGroup(cache)
      BY <1>9, CtClean
    <2> HIDE DEF cache
    <2>3. CtMpp(cache, rest, None, mpp.reload, None)
      BY <1>11, <2>1 DEF CtShape, CtMpp, cache
    <2>4. table'.now = after /\ table'.txn = None
      BY <2>1
    <2>5. CtNow'
      BY <1>7, <1>8, <1>10, <2>1, <2>4 DEF CtNow
    <2>6. CtSameDcs
      BY <1>11, <2>1, CtOverride
    <2>7. QED BY <1>4, <2>1, <2>2, <2>3, <2>4, <2>5, <2>6, CtStepTo
  <1>13. CASE CT!Opened(moved, result)
    <2> DEFINE inflight == [done EXCEPT !.fresh = TRUE]
               cache == Cache(moved)
    <2>1. group' = CT!Woken /\ table' = [table EXCEPT !.txn = after]
          /\ mpp' = [mpp EXCEPT !.cache = cache, !.inflight = inflight, !.task = rest, !.proc = None] /\ result.ok
      BY <1>3, <1>13, Zenon DEF CT!Opened, after, done
    <2>2. CtTask(inflight) /\ CtMarked(inflight) = CtMarked(done) /\ inflight.role = task.role
      BY <1>9, CtFresh
    <2>3. CtGroup(cache)
      BY CtFacts, CtRole
    <2> HIDE DEF cache, inflight
    <2>4. CtMpp(cache, rest, inflight, mpp.reload, None)
      BY <1>11, <2>1 DEF CtShape, CtMpp
    <2>5. table' = [now |-> table.now, txn |-> after]
      BY <1>11, <2>1
    <2>6. table'.now = table.now /\ table'.txn = after
      BY <2>5
    <2>7. CtNow'
      BY <1>11, <2>6 DEF CtNow
    <2>8. CtSameDcs
      BY <1>11, <2>1, CtOverride
    <2>9. inflight # None
      BY <2>2, CtIsSome DEF CtTask
    <2>10. CtPaused(after.rows) \subseteq CtMarked(inflight)
      BY <1>7, <1>8, <1>9, <2>2 DEF CtMarked
    <2>11. inflight.role = "primary" => CtPaused(after.rows) = {}
      BY <1>7, <1>8, <2>1, <2>2
    <2>12. QED BY <1>4, <1>7, <1>8, <2>2, <2>3, <2>4, <2>5, <2>6, <2>7, <2>8, <2>9, <2>10, <2>11, CtStepTo
  <1>14. CASE CT!Refused(result)
    <2>1. group' = CT!Woken /\ CT!Failed(table.now)
      BY <1>14 DEF CT!Refused
    <2>2. CtSameDcs
      BY <1>11, <2>1, CtOverride
    <2>3. QED BY <1>1, <1>11, <2>1, <2>2, CtFailed DEF CtNow
  <1>15. CASE CT!Lost(result)
    <2>1. PICK late \in BOOLEAN : CT!Failed(IF late /\ CT!Final(result) THEN after ELSE table.now)
      BY <1>15, Zenon DEF CT!Lost, after
    <2> DEFINE now == IF late /\ CT!Final(result) THEN after ELSE table.now
    <2>2. CT!Failed(now)
      BY <2>1
    <2>3. CtSameDcs
      <3>1. \A f : group' = [CT!Woken EXCEPT !.faults = f] => CtSameDcs
        BY <1>11, CtOverride
      <3>2. QED BY <1>15, <3>1, Zenon DEF CT!Lost
    <2>4. IsFiniteSet(DOMAIN now.rows) /\ CtPaused(now.rows) = {}
      BY <1>3, <1>7, <1>8, <1>10, <1>11 DEF CtNow
    <2> HIDE DEF now
    <2>5. QED BY <1>1, <2>2, <2>3, <2>4, CtFailed
  <1>16. QED BY <1>2, <1>12, <1>13, <1>14, <1>15

(* Every step of the part.                                                  *)
LEMMA CtStep ==
  ASSUME CtGiven, CtInv, [CT!CtNext]_(CT!ctVars)
  PROVE  CtInv'
  <1>1. CASE CT!CtNext
    <2>1. \/ CT!SyncMetaData \/ CT!LoadPgDistGroup \/ CT!PickTask \/ CT!ProcessTask \/ CT!Rollback \/ CT!Deadline
          \/ CT!OnDemote \/ CT!ChangeGroup \/ \E event \in {"before_demote", "before_promote", "after_promote"} : CT!HandleEvent(event)
      BY <1>1, Zenon DEF CT!CtNext, CT!CitusThread
    <2>2. QED BY <2>1, CtSyncMetaData, CtLoad, CtPick, CtProcess, CtRollback, CtDeadline, CtOnDemote, CtChange,
                 CtHandleEvent
  <1>2. CASE UNCHANGED CT!ctVars
    <2>1. table' = table /\ mpp' = mpp /\ group' = group
      BY <1>2 DEF CT!ctVars
    <2>2. QED BY <2>1 DEF CtInv, CtShape, CtDcs, CtTasks, CtNow, CtTxn
  <1>3. QED BY <1>1, <1>2

(* However a switchover of a group of workers ends, with its commit, a      *)
(* rollback at the deadline, a failed query, a lost connection, another     *)
(* failover or tasks that overtake each other, no row of pg_dist_node that  *)
(* clients see stays marked as demoted: any number of nodes.                *)
THEOREM CitusNeverPaused ==
  ASSUME First \in Nodes, None \notin Nodes, IsFiniteSet(Nodes), "prim" \notin DOMAIN None
  PROVE  Spec => []NeverPausedForGood
  <1> DEFINE Here == part = "citus"
  <1>1. CtGiven
    BY DEF CtGiven
  <1>2. Init /\ Here => CtInv
    BY <1>1, CtStart DEF Init
  <1>3. Here /\ [Next]_vars => Here' /\ [CT!CtNext]_(CT!ctVars)
    BY DEF Next, vars, ctVars, CT!ctVars
  <1>4. ~Here /\ [Next]_vars => ~Here'
    BY DEF Next, vars
  <1>5. CtInv /\ [CT!CtNext]_(CT!ctVars) => CtInv'
    BY <1>1, CtStep
  <1>6. (Here => CtInv) => NeverPausedForGood
    BY DEF NeverPausedForGood, CT!NeverPausedForGood, CtInv, CtNow, CtPaused
  <1> HIDE DEF Here
  <1>7. QED BY <1>2, <1>3, <1>4, <1>5, <1>6, PTL DEF Spec

=============================================================================
