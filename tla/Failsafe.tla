------------------------------ MODULE Failsafe ------------------------------
(* The failsafe mode: a leader that cannot reach the DCS goes on as long as *)
(* every member of the /failsafe key accepts, and a member that accepted    *)
(* takes it for the leader for ttl.  Time passes in ticks; a node ends its  *)
(* cycle and its race within Cycle ticks (a late one is the watchdog's      *)
(* business), and whether two nodes reach each other does not change during *)
(* a race.                                                                  *)
EXTENDS Naturals, FiniteSets

CONSTANTS
  Nodes, None,
  First,   \* the leader at the beginning
  Ttl, Cycle,  \* Cycle < Ttl
  MaxTick, \* bound: time
  MaxFaults \* bound: pairs that do not reach each other, changes of who
           \* reaches the DCS, and crashes

VARIABLES
  net,   \* cut: pairs that do not reach each other; dcs: nodes that reach the
         \* DCS; time; faults so far
  fkey,  \* holder and left: of the leader key; failsafe: the /failsafe key;
         \* members: the member keys
  fnode  \* role; known: _last_failsafe; left: time left of _last_update, name:
         \* the leader that called; step and since: of the cycle; asked, refused

fsVars == <<net, fkey, fnode>>

NewNode ==
  [role |-> "replica", known |-> {}, left |-> 0, name |-> "", step |-> "idle", since |-> 0,
   asked |-> {}, refused |-> FALSE]

FsInit ==
  /\ net = [cut |-> {}, dcs |-> Nodes, time |-> 0, faults |-> 0]
  /\ \E members \in {ms \in SUBSET Nodes : First \in ms}, failsafe \in {{}, Nodes} :
       /\ fkey = [holder |-> First, left |-> Ttl, failsafe |-> failsafe \cap members, members |-> members]
       /\ fnode = [n \in Nodes |-> [NewNode EXCEPT !.known = failsafe \cap members,
                                                   !.role = IF n = First THEN "primary" ELSE @]]

Reaches(m, n) == {m, n} \notin net.cut /\ fnode[m].role # "dead" /\ fnode[n].role # "dead"
OnDcs(n) == n \in net.dcs

-----------------------------------------------------------------------------
(* A leader with the DCS: it renews its key, or takes it again if it has    *)
(* expired.  update_leader() writes the /failsafe key.                      *)
FailsafeConfig(n) == fkey.members \cup {n}

(* Mutant of UpdateLock: an expired key is not taken again.                 *)
UpdateOwnKey(n) ==
  /\ fnode[n].role = "primary" /\ fnode[n].step = "idle" /\ OnDcs(n)
  /\ IF fkey.holder = n
     THEN /\ fkey' = [fkey EXCEPT !.left = Ttl, !.failsafe = FailsafeConfig(n), !.members = @ \cup {n}]
          /\ fnode' = [fnode EXCEPT ![n].known = FailsafeConfig(n), ![n].left = 0, ![n].name = "", ![n].since = 0]
     ELSE /\ fnode' = [fnode EXCEPT ![n].role = "replica", ![n].known = fkey.failsafe]
          /\ UNCHANGED fkey
  /\ UNCHANGED net

UpdateLock(n) ==
  /\ fnode[n].role = "primary" /\ fnode[n].step = "idle" /\ OnDcs(n)
  /\ IF fkey.holder \in {n, None}
     THEN /\ fkey' = [fkey EXCEPT !.holder = n, !.left = Ttl, !.failsafe = FailsafeConfig(n), !.members = @ \cup {n}]
          /\ fnode' = [fnode EXCEPT ![n].known = FailsafeConfig(n), ![n].left = 0, ![n].name = "", ![n].since = 0]
     ELSE /\ fnode' = [fnode EXCEPT ![n].role = "replica", ![n].known = fkey.failsafe]
          /\ UNCHANGED fkey
  /\ UNCHANGED net

(* Without the DCS: _handle_dcs_error() calls check_failsafe_topology(),    *)
(* which asks all members at once.                                          *)
HandleDcsError(n) ==
  /\ fnode[n].role = "primary" /\ fnode[n].step = "idle" /\ ~OnDcs(n)
  /\ fnode' = [fnode EXCEPT ![n].step = "asking", ![n].asked = {n}, ![n].refused = n \notin fnode[n].known]
  /\ UNCHANGED <<net, fkey>>

(* Mutant of UpdateFailsafe: the time of the call is not taken.             *)
UpdateWithoutTime(n, m) ==
  [fnode EXCEPT ![n].asked = @ \cup {m}, ![m].name = n]

(* update_failsafe() of a member that does not run as a primary.            *)
UpdateFailsafe(n, m) ==
  [fnode EXCEPT ![n].asked = @ \cup {m}, ![m].left = Ttl, ![m].name = n]

CallFailsafeMember(n, m) ==
  /\ fnode[n].step = "asking" /\ m \in fnode[n].known \ fnode[n].asked
  /\ fnode' = IF Reaches(n, m) /\ fnode[m].role # "primary" THEN UpdateFailsafe(n, m)
              ELSE [fnode EXCEPT ![n].asked = @ \cup {m}, ![n].refused = TRUE]
  /\ UNCHANGED <<net, fkey>>

(* set_is_active() leaves the name empty: the leader's own cluster stays    *)
(* unlocked when its key has expired.                                       *)
CheckFailsafeTopology(n) ==
  /\ fnode[n].step = "asking" /\ fnode[n].known \subseteq fnode[n].asked
  /\ fnode' = [fnode EXCEPT ![n] =
       IF fnode[n].refused THEN [NewNode EXCEPT !.known = fnode[n].known]
       ELSE [NewNode EXCEPT !.role = "primary", !.known = fnode[n].known, !.left = Ttl]]
  /\ UNCHANGED <<net, fkey>>

-----------------------------------------------------------------------------
(* A replica loads the cluster; without a leader key the one that called    *)
(* last is put in its place.                                                *)
Unlocked(n) == fkey.holder = None /\ (fnode[n].left = 0 \/ fnode[n].name = "")

MayRace(n) == fkey.failsafe = {} \/ n \in fkey.failsafe

LoadCluster(n) ==
  /\ fnode[n].role = "replica" /\ fnode[n].step = "idle" /\ OnDcs(n)
  /\ fnode' = [fnode EXCEPT ![n].known = fkey.failsafe, ![n].since = 0,
                            ![n].step = IF Unlocked(n) /\ MayRace(n) THEN "race" ELSE "idle"]
  /\ fkey' = [fkey EXCEPT !.members = @ \cup {n}] /\ UNCHANGED net

(* is_healthiest_node(): a primary that answers ends the race.              *)
IsHealthiestNode(n) ==
  \A m \in (fkey.members \cup fnode[n].known) \ {n} : Reaches(n, m) => fnode[m].role # "primary"

Race(n) ==
  /\ fnode[n].step = "race"
  /\ fnode' = [fnode EXCEPT ![n].step = IF IsHealthiestNode(n) THEN "healthiest" ELSE "idle"]
  /\ UNCHANGED <<net, fkey>>

AcquireLock(n) ==
  /\ fnode[n].step = "healthiest"
  /\ IF OnDcs(n) /\ fkey.holder = None
     THEN /\ fkey' = [fkey EXCEPT !.holder = n, !.left = Ttl]
          /\ fnode' = [fnode EXCEPT ![n].step = "promote", ![n].since = 0]
     ELSE fnode' = [fnode EXCEPT ![n].step = "idle"] /\ UNCHANGED fkey
  /\ UNCHANGED net

(* enforce_primary_role() resets the failsafe state.                        *)
Promote(n) ==
  /\ fnode[n].step = "promote"
  /\ fnode' = [fnode EXCEPT ![n].step = "idle", ![n].role = "primary", ![n].left = 0, ![n].name = ""]
  /\ UNCHANGED <<net, fkey>>

-----------------------------------------------------------------------------
LinkBreaks ==
  /\ net.faults < MaxFaults /\ \A n \in Nodes : fnode[n].step \notin {"race", "healthiest", "promote"}
  /\ \E p \in {q \in SUBSET Nodes : Cardinality(q) = 2} \ net.cut :
       net' = [net EXCEPT !.cut = @ \cup {p}, !.faults = @ + 1]
  /\ UNCHANGED <<fkey, fnode>>

DcsChanges == \E dcs \in {{}, Nodes} \cup {Nodes \ {n} : n \in Nodes} :
  /\ dcs # net.dcs /\ net.faults < MaxFaults
  /\ net' = [net EXCEPT !.dcs = dcs, !.faults = @ + 1] /\ UNCHANGED <<fkey, fnode>>

Crash ==
  /\ fnode[First].role = "primary" /\ net.faults < MaxFaults
  /\ fnode' = [fnode EXCEPT ![First] = [NewNode EXCEPT !.role = "dead", !.step = "dead"]]
  /\ net' = [net EXCEPT !.faults = @ + 1] /\ UNCHANGED fkey

(* The calls end within a tick: their timeout is two seconds.               *)
InTime(n) ==
  \/ fnode[n].role = "dead" \/ (fnode[n].role = "replica" /\ fnode[n].step = "idle")
  \/ fnode[n].since < Cycle /\ fnode[n].step # "asking"

Tick ==
  /\ net.time < MaxTick /\ \A n \in Nodes : InTime(n)
  /\ net' = [net EXCEPT !.time = @ + 1]
  /\ fkey' = IF fkey.left > 1 THEN [fkey EXCEPT !.left = @ - 1] ELSE [fkey EXCEPT !.left = 0, !.holder = None]
  /\ fnode' = [n \in Nodes |->
       [fnode[n] EXCEPT !.left = IF @ = 0 THEN 0 ELSE @ - 1,
                        !.since = IF fnode[n].role # "primary" /\ fnode[n].step = "idle" THEN 0
                                  ELSE IF @ = Cycle THEN Cycle ELSE @ + 1]]

FsNext ==
  \/ \E n \in Nodes :
       \/ UpdateLock(n) \/ HandleDcsError(n) \/ CheckFailsafeTopology(n)
       \/ LoadCluster(n) \/ Race(n) \/ AcquireLock(n) \/ Promote(n)
       \/ \E m \in Nodes : CallFailsafeMember(n, m)
  \/ LinkBreaks \/ DcsChanges \/ Crash \/ Tick

FsSpec == FsInit /\ [][FsNext]_fsVars

-----------------------------------------------------------------------------
(* A leader that goes on without its key and a node that takes the key do   *)
(* not run as primaries at the same time.                                   *)
OnePrimary == \A m, n \in Nodes : fnode[m].role = "primary" /\ fnode[n].role = "primary" => m = n

(* failsafe_mode: no outage of the DCS, however long and for whom, demotes  *)
(* a leader that is in the /failsafe key and reaches all the others.        *)
LeaderSurvives ==
  \A n \in Nodes :
    (/\ fnode[n].role = "primary" /\ n \in fnode[n].known
     /\ net.cut = {} /\ \A m \in Nodes : fnode[m].role # "dead")
    => fnode'[n].role # "replica"
=============================================================================
