-------------------------------- MODULE Etcd --------------------------------
(* Etcd v2: keys with a TTL of their own and compare-and-swap writes.  A    *)
(* request may be lost, its answer may be lost, and a request nobody waits  *)
(* for any more may still be applied later.                                 *)
EXTENDS Naturals, FiniteSets

CONSTANTS Nodes, None,
  TTL,      \* ttl, in ticks
  MaxSync,  \* bound: writes of /sync
  MaxLate   \* bound: abandoned requests that may still be applied

Unknown == "unknown"

VARIABLES
  server,  \* leader, its ttl, old: what a lagging member answers, sync: the
           \* index of /sync, writer: who wrote each version of it
  client,  \* per node: op in progress, view of the leader key, age of the
           \* call, sure: ticks the last answer is good for, version of /sync
           \* it loaded, acked: the versions it was told it had written
  net      \* abandoned requests

vars == <<server, client, net>>

Idle(c) == c.op = "idle"

Init ==
  /\ server = [leader |-> None, ttl |-> 0, old |-> None, sync |-> 0,
               writer |-> [v \in 1..MaxSync |-> None]]
  /\ client = [n \in Nodes |-> [op |-> "idle", view |-> Unknown, age |-> 0, sure |-> 0,
                                version |-> 0, acked |-> {}]]
  /\ net = {}

-----------------------------------------------------------------------------
(* What the cluster does with a request: [server, ok].                      *)
SetLeader(s, n, ttl) ==
  [s EXCEPT !.leader = n, !.ttl = ttl, !.old = IF s.leader = n THEN s.old ELSE s.leader]

Ok(s) == [server |-> s, ok |-> TRUE]
Fails == [server |-> server, ok |-> FALSE]

(* Mutant of DoAcquire: the key is written without prevExist=False.         *)
AcquireUnconditionally(n) == Ok(SetLeader(server, n, TTL))

(* _do_attempt_to_acquire_leader(): prevExist=False.                        *)
DoAcquire(n) == IF server.leader = None THEN Ok(SetLeader(server, n, TTL)) ELSE Fails

(* _do_update_leader(): prevValue=name.                                     *)
DoUpdate(n) == IF server.leader = n THEN Ok(SetLeader(server, n, TTL)) ELSE Fails

(* _delete_leader(): prevValue=name.                                        *)
DoDelete(n) == IF server.leader = n THEN Ok(SetLeader(server, None, 0)) ELSE Fails

(* Mutant of DoSync: /sync is written without prevIndex.                    *)
SyncUnconditionally(n, version) ==
  Ok([server EXCEPT !.sync = version + 1, !.writer[version + 1] = n])

(* set_sync_state_value(): prevIndex=version.                               *)
DoSync(n, version) ==
  IF server.sync = version
  THEN Ok([server EXCEPT !.sync = version + 1, !.writer[version + 1] = n]) ELSE Fails

Apply(r) ==
  CASE r.op = "acquire" -> DoAcquire(r.node)
    [] r.op = "update"  -> DoUpdate(r.node)
    [] r.op = "release" -> DoDelete(r.node)
    [] r.op = "sync"    -> DoSync(r.node, r.version)

Request(n) == [node |-> n, op |-> client[n].op, version |-> client[n].version]

-----------------------------------------------------------------------------
(* _load_cluster(): reads are not linearizable outside of patronictl.       *)
Load(n) ==
  /\ Idle(client[n])
  /\ \E leader \in {server.leader, server.old} :
       client' = [client EXCEPT ![n].view = leader, ![n].version = server.sync]
  /\ UNCHANGED <<server, net>>

(* A cycle of the HA loop calls one of the operations.  It does not delete  *)
(* the key before it has given up being the primary.                        *)
Call(n, op) ==
  /\ Idle(client[n])
  /\ CASE op = "acquire" -> client[n].view = None
       [] op = "sync"    -> client[n].view = n /\ client[n].version < MaxSync
       [] OTHER          -> client[n].view = n
  /\ client' = [client EXCEPT ![n].op = op, ![n].age = 0,
                              ![n].sure = IF op = "release" THEN 0 ELSE @]
  /\ UNCHANGED <<server, net>>

Finish(c) == [c EXCEPT !.op = "idle", !.view = Unknown]

Answered(n, ok) ==
  LET c == client[n] IN
  CASE c.op \in {"acquire", "update"} /\ ok -> [Finish(c) EXCEPT !.sure = TTL - c.age]
    (* EtcdKeyNotFound: the key has expired and is acquired again.          *)
    [] c.op = "update" /\ ~ok /\ server.leader = None -> [c EXCEPT !.op = "acquire", !.sure = 0]
    [] c.op = "update" /\ ~ok /\ server.leader # None -> [Finish(c) EXCEPT !.sure = 0]
    [] c.op = "sync" /\ ok -> [Finish(c) EXCEPT !.acked = @ \cup {c.version + 1}]
    [] OTHER -> Finish(c)

(* The request is applied and answered.                                     *)
Serve(n) ==
  /\ ~Idle(client[n])
  /\ LET result == Apply(Request(n)) IN
       server' = result.server /\ client' = [client EXCEPT ![n] = Answered(n, result.ok)]
  /\ UNCHANGED net

(* No answer: retry() sends the request again or gives up.  The deletion of *)
(* the key is not retried.                                                  *)
NoAnswer(n) ==
  \/ client[n].op # "release" /\ UNCHANGED client
  \/ client' = [client EXCEPT ![n] = Finish(client[n])]

LoseAnswer(n) ==
  /\ ~Idle(client[n])
  /\ server' = Apply(Request(n)).server /\ NoAnswer(n)
  /\ UNCHANGED net

(* The request goes missing: it is lost, or applied at any time later.  A   *)
(* late deletion would reach the cluster before the next request of a node. *)
LoseRequest(n) ==
  /\ ~Idle(client[n]) /\ NoAnswer(n)
  /\ \/ UNCHANGED net
     \/ client[n].op # "release" /\ Cardinality(net) < MaxLate /\ net' = net \cup {Request(n)}
  /\ UNCHANGED server

ApplyLate ==
  \E r \in net :
    server' = Apply(r).server /\ net' = net \ {r} /\ UNCHANGED client

Less(t) == IF t = 0 THEN 0 ELSE t - 1

(* A call that lasts as long as the TTL has exceeded retry_timeout.         *)
Tick ==
  /\ \A n \in Nodes : Idle(client[n]) \/ client[n].age < TTL
  /\ server' = IF server.leader # None /\ server.ttl = 1 THEN SetLeader(server, None, 0)
               ELSE [server EXCEPT !.ttl = Less(server.ttl)]
  /\ client' = [n \in Nodes |-> [client[n] EXCEPT
                 !.sure = Less(client[n].sure),
                 !.age = IF Idle(client[n]) THEN 0 ELSE client[n].age + 1]]
  /\ UNCHANGED net

Next ==
  \/ \E n \in Nodes : Load(n) \/ Serve(n) \/ LoseAnswer(n) \/ LoseRequest(n)
  \/ \E n \in Nodes, op \in {"acquire", "update", "release", "sync"} : Call(n, op)
  \/ ApplyLate \/ Tick

Spec == Init /\ [][Next]_vars

-----------------------------------------------------------------------------
Owner == server.leader
Sure == {n \in Nodes : client[n].sure > 0}

Contract == INSTANCE LeaderKey WITH owner <- Owner, sure <- Sure

(* The key passes from node to node only by being free in between, and is   *)
(* not freed under a node whose last answer still vouches for it.           *)
KeyImplemented == Contract!KeySpec

(* A write of /sync that was acknowledged is the version that follows the   *)
(* one its writer had read: no update is lost under another one.            *)
SyncSerialized == \A n \in Nodes : \A v \in client[n].acked : server.writer[v] = n
=============================================================================
