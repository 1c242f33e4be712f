---------------------------- MODULE MCLeaderLease ----------------------------
(* LeaderLease for TLC: interchangeable nodes, and the fairness under which *)
(* a node without a watchdog stops when it is deposed.                      *)
EXTENDS LeaderLease, TLC

Symmetry == Permutations(Nodes)

(* The HA loop, its background tasks and PostgreSQL keep running, and a     *)
(* supervisor starts Patroni again, which does not crash for ever.  Nothing *)
(* is assumed of time or of the answers of the DCS.                         *)
FairSpec ==
  /\ Spec
  /\ <>[][\A n \in Nodes : ~Crash(n)]_vars
  /\ \A n \in Nodes : WF_vars(Loop(n)) /\ WF_vars(Task(n)) /\ WF_vars(Start(n))

(* A primary that does not hold the leader key stops accepting commits,     *)
(* unless it gets the key back: every way through _run_cycle() that finds   *)
(* the key lost, or the DCS out of reach, ends in demote().                 *)
DeposedStops ==
  \A n \in Nodes : Accepts(n) /\ owner # n ~> ~Accepts(n) \/ owner = n
=============================================================================
