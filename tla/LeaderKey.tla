------------------------------ MODULE LeaderKey ------------------------------
(* What the HA loop relies on, whichever DCS keeps the leader key: the key  *)
(* passes from one node to another only by being free in between, and it is *)
(* not freed under a node that was told less than a TTL ago that it holds   *)
(* it (AbstractDCS.attempt_to_acquire_leader() and update_leader()).        *)
CONSTANTS Nodes, None

VARIABLES
  owner,  \* the node named by the leader key, or None
  sure    \* the nodes whose last answer still vouches for the key

keyVars == <<owner, sure>>

KeyInit == owner = None /\ sure = {}

(* A free key is created by n, which may or may not learn of it.            *)
Acquire(n) == owner = None /\ owner' = n /\ sure' \subseteq {n}

(* The holder is told that it holds the key.                                *)
Confirm(n) == owner = n /\ owner' = n /\ sure' = {n}

(* An answer grows too old, or the holder is about to let go.               *)
Doubt == UNCHANGED owner /\ sure' \subseteq sure

(* The key expires or is deleted.                                           *)
Free == owner' = None /\ sure' = {}

KeyNext == (\E n \in Nodes : Acquire(n) \/ Confirm(n)) \/ Doubt \/ Free

KeySpec == KeyInit /\ [][KeyNext]_keyVars
=============================================================================
