-------------------------------- MODULE Etcd3 --------------------------------
(* Etcd v3: the leader key is attached to a lease of its owner, and the HA  *)
(* loop reads the cluster from a cache that a watch keeps up to date.       *)
EXTENDS Naturals, Sequences

CONSTANTS Nodes, None,
  TTL,        \* ttl, in ticks
  LoopWait,   \* loop_wait, in ticks
  MaxLease,   \* bound: leases a node is granted
  MaxRev,     \* bound: revisions of the leader key
  StaleCache  \* the cache may be read while the watch lags behind

Unknown == [owner |-> "unknown", lease |-> None, rev |-> 0]
Leases == Nodes \X (1..MaxLease)
NoKey == [owner |-> None, lease |-> None, rev |-> 0]

VARIABLES
  server,  \* hist: every version of the leader key, left: ticks the leases
           \* have left
  client,  \* per node: op, the lease it uses, fresh: ticks until the lease is
           \* refreshed again, cache of the key, pos: revision the watch has
           \* reached, view, granted: leases so far, age of the call, sure
  net      \* unused: a request not answered is applied or lost at once

vars == <<server, client, net>>

Rev(s) == Len(s.hist)
At(s, rev) == IF rev = 0 THEN NoKey ELSE s.hist[rev]
Key(s) == At(s, Rev(s))

Idle(c) == c.op = "idle"

Init ==
  /\ server = [hist |-> << >>, left |-> [l \in Leases |-> 0]]
  /\ client = [n \in Nodes |-> [op |-> "idle", lease |-> None, fresh |-> 0, cache |-> NoKey, pos |-> 0,
                                view |-> Unknown, granted |-> 0, age |-> 0, sure |-> 0]]
  /\ net = {}

Put(s, owner, lease) ==
  [s EXCEPT !.hist = Append(@, [owner |-> owner, lease |-> lease, rev |-> Rev(s) + 1])]

-----------------------------------------------------------------------------
(* KVCache: a value is only replaced by a newer one.                        *)
CacheSet(c, key) == IF c.cache.rev < key.rev THEN [c EXCEPT !.cache = key] ELSE c

(* A deleted key leaves nothing behind to compare revisions with.           *)
CacheDelete(c, rev) == IF c.cache.rev < rev THEN [c EXCEPT !.cache = NoKey] ELSE c

CacheEvent(c, key) == IF key.owner = None THEN CacheDelete(c, key.rev) ELSE CacheSet(c, key)

(* _process_event(): the watch delivers the revisions in order.             *)
Deliver(n) ==
  /\ client[n].pos < Rev(server)
  /\ client' = [client EXCEPT ![n] =
       [CacheEvent(@, At(server, @.pos + 1)) EXCEPT !.pos = client[n].pos + 1]]
  /\ UNCHANGED <<server, net>>

(* _build_cache() after kill_stream() or a broken stream: a serializable    *)
(* read, from a member that may lag behind.                                 *)
BuildCache(n) ==
  /\ \E rev \in (IF StaleCache THEN 0..Rev(server) ELSE {Rev(server)}) :
       client' = [client EXCEPT ![n].pos = rev,
                                ![n].cache = IF At(server, rev).owner = None THEN NoKey ELSE At(server, rev)]
  /\ UNCHANGED <<server, net>>

(* get_cluster(): what the cache says.                                      *)
Load(n) ==
  /\ Idle(client[n]) /\ (StaleCache \/ client[n].pos = Rev(server))
  /\ client' = [client EXCEPT ![n].view = client[n].cache]
  /\ UNCHANGED <<server, net>>

-----------------------------------------------------------------------------
(* A cycle calls one operation.  The node has stopped being the primary     *)
(* before it deletes the key.                                               *)
Call(n, op) ==
  /\ Idle(client[n]) /\ client[n].view # Unknown
  /\ CASE op = "acquire" -> client[n].view.owner = None
       [] op = "touch"   -> TRUE
       [] OTHER          -> client[n].view.owner = n
  /\ client' = [client EXCEPT ![n].op = op, ![n].age = 0,
                              ![n].sure = IF op = "release" THEN 0 ELSE @]
  /\ UNCHANGED <<server, net>>

Finish(c) == [c EXCEPT !.op = "idle", !.view = Unknown]

Alive(s, lease) == lease # None /\ s.left[lease] > 0

LeaseGrant(n, s, c) ==
  LET id == <<n, c.granted + 1>> IN
  IF c.granted = MaxLease THEN {}
  ELSE {[s |-> [s EXCEPT !.left[id] = TTL],
         c |-> [c EXCEPT !.lease = id, !.granted = @ + 1, !.fresh = LoopWait]]}

(* _do_refresh_lease(): keep the lease alive, or have a new one granted.    *)
(* Only update_leader() insists within loop_wait of the last refresh.       *)
DoRefreshLease(n, s, c) ==
  IF c.op # "update" /\ c.fresh > 0 /\ c.lease # None THEN {[s |-> s, c |-> c]}
  ELSE IF Alive(s, c.lease) THEN {[s |-> [s EXCEPT !.left[c.lease] = TTL], c |-> [c EXCEPT !.fresh = LoopWait]]}
  ELSE LeaseGrant(n, s, c)

(* The first request of touch_member(), attempt_to_acquire_leader() and     *)
(* update_leader(); the answer may be late, but the lease counts from here. *)
RefreshLease(n) ==
  /\ client[n].op \in {"touch", "acquire", "update"}
  /\ \E r \in DoRefreshLease(n, server, client[n]) :
       /\ server' = r.s
       /\ client' = [client EXCEPT ![n] =
            CASE r.c.op = "touch" -> Finish(r.c)
              [] r.c.op = "acquire" -> [r.c EXCEPT !.op = "create"]
              [] OTHER -> IF r.c.view.lease = r.c.lease
                          THEN [Finish(r.c) EXCEPT !.sure = TTL - r.c.age]
                          ELSE [r.c EXCEPT !.op = "reattach"]]
  /\ UNCHANGED net

Answered(n, c, ok, good) == IF ok THEN [Finish(c) EXCEPT !.sure = good] ELSE [Finish(c) EXCEPT !.sure = 0]

(* Mutant of CreateKey: the key is put without create_revision.             *)
PutKey(n) ==
  /\ client[n].op = "create" /\ Rev(server) < MaxRev
  /\ LET c == client[n] IN
     IF ~Alive(server, c.lease)
     THEN UNCHANGED server /\ client' = [client EXCEPT ![n].lease = None, ![n].op = "acquire"]
     ELSE /\ server' = Put(server, n, c.lease)
          /\ client' = [client EXCEPT ![n] =
               Answered(n, CacheSet(c, Key(server')), TRUE, TTL - LoopWait - c.age)]
  /\ UNCHANGED net

(* _do_attempt_to_acquire_leader(): create_revision=0, and once more with a *)
(* new lease when the old one is not found.                                 *)
CreateKey(n) ==
  /\ client[n].op = "create" /\ Rev(server) < MaxRev
  /\ LET c == client[n] IN
     IF ~Alive(server, c.lease)
     THEN UNCHANGED server /\ client' = [client EXCEPT ![n].lease = None, ![n].op = "acquire"]
     ELSE IF Key(server).owner = None
     THEN /\ server' = Put(server, n, c.lease)
          /\ client' = [client EXCEPT ![n] =
               Answered(n, CacheSet(c, Key(server')), TRUE, TTL - LoopWait - c.age)]
     ELSE UNCHANGED server /\ client' = [client EXCEPT ![n] = Answered(n, c, FALSE, 0)]
  /\ UNCHANGED net

(* _update_leader() with another lease than the one the key was seen with:  *)
(* one transaction that re-attaches the node's own key or creates it.       *)
Reattach(n) ==
  /\ client[n].op = "reattach" /\ Rev(server) < MaxRev
  /\ LET c == client[n] IN
     IF Alive(server, c.lease) /\ Key(server).owner \in {n, None}
     THEN /\ server' = Put(server, n, c.lease)
          /\ client' = [client EXCEPT ![n] =
               Answered(n, CacheSet(c, Key(server')), TRUE, TTL - c.age)]
     ELSE UNCHANGED server /\ client' = [client EXCEPT ![n] = Answered(n, c, FALSE, 0)]
  /\ UNCHANGED net

(* _delete_leader(): one transaction that compares the value.               *)
DeleteKey(n) ==
  /\ client[n].op = "release" /\ Rev(server) < MaxRev
  /\ IF Key(server).owner = n
     THEN /\ server' = Put(server, None, None)
          /\ client' = [client EXCEPT ![n] = Finish(CacheDelete(@, Rev(server')))]
     ELSE UNCHANGED server /\ client' = [client EXCEPT ![n] = Finish(@)]
  /\ UNCHANGED net

(* No answer in retry_timeout: the request was applied or not.              *)
GiveUp(n) ==
  /\ ~Idle(client[n]) /\ client' = [client EXCEPT ![n] = Finish(@)]
  /\ LET c == client[n] IN
     \/ UNCHANGED server
     \/ /\ Rev(server) < MaxRev
        /\ \/ /\ c.op = "create" /\ Alive(server, c.lease) /\ Key(server).owner = None
              /\ server' = Put(server, n, c.lease)
           \/ /\ c.op = "reattach" /\ Alive(server, c.lease) /\ Key(server).owner \in {n, None}
              /\ server' = Put(server, n, c.lease)
           \/ c.op = "release" /\ Key(server).owner = n /\ server' = Put(server, None, None)
  /\ UNCHANGED net

(* set_ttl() with a new ttl and a restart of Patroni forget the lease, which*)
(* lives on with the keys attached to it.                                   *)
ForgetLease(n) ==
  /\ Idle(client[n]) /\ client[n].lease # None /\ client[n].granted < MaxLease
  /\ client' = [client EXCEPT ![n].lease = None]
  /\ UNCHANGED <<server, net>>

(* watch() ends a cycle: the next one refreshes the lease.                  *)
Watch(n) ==
  /\ Idle(client[n]) /\ client[n].fresh > 0
  /\ client' = [client EXCEPT ![n].fresh = 0, ![n].view = Unknown]
  /\ UNCHANGED <<server, net>>

Less(t) == IF t = 0 THEN 0 ELSE t - 1

(* A key goes with its lease.                                               *)
Tick ==
  /\ \A n \in Nodes : Idle(client[n]) \/ client[n].age < TTL - LoopWait
  /\ LET left == [l \in Leases |-> Less(server.left[l])]
         gone == Key(server).owner # None /\ left[Key(server).lease] = 0 IN
       /\ gone => Rev(server) < MaxRev
       /\ server' = [(IF gone THEN Put(server, None, None) ELSE server) EXCEPT !.left = left]
  /\ client' = [n \in Nodes |-> [client[n] EXCEPT
                 !.sure = Less(client[n].sure), !.fresh = Less(client[n].fresh),
                 !.age = IF Idle(client[n]) THEN 0 ELSE client[n].age + 1]]
  /\ UNCHANGED net

Next ==
  \/ \E n \in Nodes : \/ Deliver(n) \/ BuildCache(n) \/ Load(n) \/ RefreshLease(n) \/ CreateKey(n)
                      \/ Reattach(n) \/ DeleteKey(n) \/ GiveUp(n) \/ ForgetLease(n) \/ Watch(n)
  \/ \E n \in Nodes, op \in {"touch", "acquire", "update", "release"} : Call(n, op)
  \/ Tick

Spec == Init /\ [][Next]_vars

-----------------------------------------------------------------------------
Owner == Key(server).owner
Sure == {n \in Nodes : client[n].sure > 0}

Contract == INSTANCE LeaderKey WITH owner <- Owner, sure <- Sure

(* The key passes from node to node only by being free in between, and is   *)
(* not freed under a node whose last answer still vouches for it.           *)
KeyImplemented == Contract!KeySpec
=============================================================================
