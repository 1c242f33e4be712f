----------------------------- MODULE EtcdClient -----------------------------
(* The client both versions of etcd share: it keeps a list of the cluster's *)
(* members, goes through it when requests fail and rebuilds it from the     *)
(* configuration when nobody answers.                                       *)
EXTENDS Naturals, Sequences, FiniteSets, SequencesExt

CONSTANTS
  Machines,  \* addresses etcd members may have
  Hosts,     \* those the configuration names
  MaxTerm    \* bound: elections of etcd

VARIABLES
  server,  \* members of the cluster, up: those that answer, term: the raft
           \* term each answers with
  client,  \* cache: _machines_cache, base: _base_uri, update:
           \* _update_machines_cache, term: _raft_term, failures of requests
           \* with a retry since somebody became reachable
  net      \* unused: a call is a step

Set(seq) == {seq[i] : i \in DOMAIN seq}

(* A machine answers and its term is not behind the one known already       *)
(* (_check_cluster_raft_term()).                                            *)
Answers(c, m) == m \in server.members \cap server.up /\ server.term[m] >= c.term

Learn(c, m) == [c EXCEPT !.term = server.term[m]]

(* Init follows a first successful _load_machines_cache().                  *)
Init ==
  /\ server = [members |-> Machines, up |-> Machines, term |-> [m \in Machines |-> 1]]
  /\ \E order \in SetToSeqs(Machines) :
       client = [cache |-> order, base |-> order[1], update |-> FALSE, term |-> 1, failures |-> 0]
  /\ net = {}

(* machines_cache: the machine in use first.  Nobody is twice in the list.  *)
MachinesCache(c) ==
  IF c.base \in Set(c.cache) THEN <<c.base>> \o RemoveFirst(c.cache, c.base) ELSE c.cache

(* A new list; the machine in use stays in use if it is still there.        *)
Relist(c, order) ==
  [c EXCEPT !.cache = order, !.base = IF @ \in Set(order) THEN @ ELSE order[1]]

(* _refresh_machines_cache() over some of the known machines: the clients   *)
(* it may end as; none when nobody answers.                                 *)
Refreshed(c, known) ==
  {Relist(Learn(c, m), order) : m \in {m \in known : Answers(c, m)}, order \in SetToSeqs(server.members)}

(* Mutant of LoadMachinesCache: only the machines known so far are asked.   *)
LoadFromCache(c) ==
  LET found == Refreshed(c, Set(c.cache)) IN
  IF found = {} THEN {[c EXCEPT !.update = TRUE]}
  ELSE {[f EXCEPT !.update = FALSE] : f \in found}

(* _load_machines_cache(): from the configuration and the last known ones.  *)
LoadMachinesCache(c) ==
  LET found == Refreshed(c, Hosts \cup Set(c.cache)) IN
  IF found = {} THEN {[c EXCEPT !.update = TRUE]}
  ELSE {[f EXCEPT !.update = FALSE] : f \in found}

Done(c) == [client |-> c, ok |-> TRUE]
Failed(c) == [client |-> c, ok |-> FALSE]

(* _do_http_request() of a call with a retry: the first machine of the list *)
(* that answers; after a failure it becomes the base and the list is        *)
(* refreshed.                                                               *)
TryAll(c, machines) ==
  LET answering == SelectInSeq(machines, LAMBDA m : Answers(c, m)) IN
  IF answering = 0 THEN {Failed(c)}
  ELSE LET m == machines[answering]
           n == Learn(c, m) IN
       IF answering = 1 THEN {Done(n)}
       ELSE LET found == Refreshed([n EXCEPT !.base = m], Set(n.cache)) IN
            {Done(f) : f \in found} \cup (IF found = {} THEN {Done([n EXCEPT !.base = m])} ELSE {})

(* api_execute(): when the whole list has failed it is loaded again and as  *)
(* many machines are tried as the remaining time allows; with no time left  *)
(* the next call begins with loading the list.                              *)
Execute(c) ==
  UNION {IF first.ok THEN {first}
         ELSE UNION {UNION {LET again == IF nodes = 0 THEN {Failed(d)}
                                         ELSE TryAll(d, SubSeq(MachinesCache(d), 1, nodes))
                            IN  {IF r.ok THEN r ELSE Failed([r.client EXCEPT !.update = TRUE]) : r \in again}
                            : nodes \in 0..Len(d.cache)}
                     : d \in LoadMachinesCache(first.client)}
         : first \in TryAll(c, MachinesCache(c))}

ApiExecute(c) ==
  IF c.update
  THEN UNION {IF d.update THEN {Failed(d)} ELSE Execute(d) : d \in LoadMachinesCache(c)}
  ELSE Execute(c)

Reachable(c) == \E m \in Hosts \cup Set(c.cache) : Answers(c, m)

Call ==
  /\ \E r \in ApiExecute(client) :
       client' = [r.client EXCEPT !.failures = IF r.ok \/ ~Reachable(client) THEN 0
                                               ELSE IF @ < 3 THEN @ + 1 ELSE @]
  /\ UNCHANGED <<server, net>>

(* A call without a retry goes to the base only, and moves on to the next   *)
(* machine when it fails.                                                   *)
CallOnce ==
  /\ ~client.update
  /\ LET list == MachinesCache(client) IN
       IF Answers(client, list[1]) THEN client' = Learn(client, list[1])
       ELSE client' = [client EXCEPT !.base = IF Len(list) > 1 THEN list[2] ELSE @]
  /\ UNCHANGED <<server, net>>

(* The list is refreshed when it has not been for machines_cache_ttl.       *)
RefreshOnTtl ==
  /\ ~client.update
  /\ client' \in Refreshed(client, Set(client.cache))
  /\ UNCHANGED <<server, net>>

-----------------------------------------------------------------------------
Disturb(s) == server' = s /\ client' = [client EXCEPT !.failures = 0] /\ UNCHANGED net

Goes == \E m \in server.up : Disturb([server EXCEPT !.up = @ \ {m}])

(* A machine that comes back takes part in the current term.                *)
Latest == CHOOSE t \in 1..MaxTerm : \E m \in Machines : server.term[m] = t /\ \A k \in Machines : server.term[k] <= t

Comes == \E m \in Machines \ server.up : Disturb([server EXCEPT !.up = @ \cup {m}])

CatchesUp == \E m \in server.up : server.term[m] < Latest /\ Disturb([server EXCEPT !.term[m] = Latest])

Elects ==
  /\ Latest < MaxTerm
  /\ \E m \in server.up \cap server.members : Disturb([server EXCEPT !.term[m] = Latest + 1])

Replaces ==
  \E m \in Machines :
    IF m \in server.members
    THEN Cardinality(server.members) > 1 /\ Disturb([server EXCEPT !.members = @ \ {m}])
    ELSE Disturb([server EXCEPT !.members = @ \cup {m}])

Next == Call \/ CallOnce \/ RefreshOnTtl \/ Goes \/ Comes \/ CatchesUp \/ Elects \/ Replaces

-----------------------------------------------------------------------------
(* A request with a retry does not fail twice in a row while a machine the  *)
(* configuration or the list names answers: the first failure makes the     *)
(* next call look for the cluster's present members.                        *)
ServedAgain == client.failures <= 1
=============================================================================
