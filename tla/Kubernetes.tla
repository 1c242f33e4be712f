----------------------------- MODULE Kubernetes -----------------------------
(* Kubernetes: the leader is an annotation of an Endpoints or ConfigMap     *)
(* object, which nothing ever expires.  Every node works on a cached copy   *)
(* that a watch keeps up to date, takes the record for expired once it has  *)
(* not seen it change for a ttl, and writes with the resource_version it    *)
(* based the decision on.                                                   *)
EXTENDS Naturals, FiniteSets

CONSTANTS Nodes, None,
  TTL,       \* ttl, in ticks
  MaxRev,    \* bound: resource_version of the leader object
  MaxFlight  \* bound: requests in flight nobody waits for

(* The leader object: stamp stands for renewTime, which is that of the call *)
(* that wrote it.  Version 0: it does not exist.                            *)
NoKind == [owner |-> None, stamp |-> 0, rev |-> 0]
Unknown == "unknown"
NoCall == [op |-> "idle", rev |-> 0, stamp |-> 0, age |-> 0]

VARIABLES
  server,  \* kind: the leader object; past: its versions; stamp: of the last
           \* call; left: ticks since the leader renewed it are less than TTL
  client,  \* per node: call; what get_cluster() remembers
           \* (view, rev, seen, wait: ticks until the record seen is taken for
           \* expired); sure
  net      \* PATCH requests in flight

vars == <<server, client, net>>

Idle(n) == client[n].call.op = "idle"
Record(kind) == [owner |-> kind.owner, stamp |-> kind.stamp]

Init ==
  /\ server = [kind |-> NoKind, past |-> {NoKind}, stamp |-> 0, left |-> 0]
  /\ client = [n \in Nodes |-> [call |-> NoCall, view |-> Unknown,
                                rev |-> 0, seen |-> Record(NoKind), wait |-> 0, sure |-> 0]]
  /\ net = {}

-----------------------------------------------------------------------------
(* ObjectCache: the watch lags behind by any number of events, and a list   *)
(* that was read early but arrives late puts an older version back, even of *)
(* what this node wrote.  So the cached version may be any so far.          *)
Cached == server.past

(* _cluster_from_nodes(): the time of a change is when this node sees it.   *)
Loaded(c, kind) ==
  LET wait == IF Record(kind) # c.seen THEN TTL ELSE c.wait IN
  [c EXCEPT !.rev = kind.rev, !.seen = Record(kind), !.wait = wait,
            !.view = IF wait = 0 THEN None ELSE kind.owner]

LoadCluster(n) ==
  /\ Idle(n)
  /\ \E kind \in Cached : client' = [client EXCEPT ![n] = Loaded(client[n], kind)]
  /\ UNCHANGED <<server, net>>

-----------------------------------------------------------------------------
(* attempt_to_acquire_leader(): a version newer than the one loaded is used *)
(* if it says the same of the leader.                                       *)
AcquireRev(c, kind) == IF c.rev # 0 /\ Record(kind) = c.seen THEN kind.rev ELSE c.rev

Start(n, op, rev) ==
  /\ server' = [server EXCEPT !.stamp = @ + 1]
  /\ client' = [client EXCEPT ![n].call = [op |-> op, rev |-> rev, stamp |-> server.stamp + 1, age |-> 0],
                              ![n].sure = IF op = "release" THEN 0 ELSE @]
  /\ UNCHANGED net

(* update_leader() and delete_leader() look at the cache, not at what was   *)
(* loaded.  write_leader_optime() is a PATCH without a version.             *)
Call(n) ==
  LET c == client[n] IN
  /\ Idle(n) /\ c.view # Unknown /\ server.stamp < MaxRev
  /\ \E kind \in Cached :
       \/ c.view = None /\ Start(n, "acquire", AcquireRev(c, kind))
       \/ c.view = n /\ (kind.owner = n \/ kind.rev = 0) /\ Start(n, "update", kind.rev)
       \/ c.view = n /\ kind.owner = n /\ Start(n, "release", kind.rev)
       \/ c.view = n /\ Start(n, "optime", 0)

Finish(c, good) == [c EXCEPT !.call = NoCall, !.view = Unknown, !.rev = 0, !.sure = good]

Request(n) == [node |-> n, op |-> client[n].call.op, rev |-> client[n].call.rev,
               stamp |-> client[n].call.stamp]

(* Mutant of Accepts: the resource_version is not part of the request.      *)
AcceptsAny(req) == TRUE

(* _patch_or_create(): PATCH with a resource_version, or POST of an object  *)
(* that must not exist; otherwise 409.                                      *)
Accepts(req) == IF req.op = "optime" THEN server.kind.rev # 0 ELSE req.rev = server.kind.rev

Written(req) ==
  LET kind == [owner |-> CASE req.op = "release" -> None [] req.op = "optime" -> server.kind.owner
                           [] OTHER -> req.node,
               stamp |-> IF req.op \in {"release", "optime"} THEN server.kind.stamp ELSE req.stamp,
               rev   |-> server.kind.rev + 1] IN
  IF Accepts(req) /\ server.kind.rev < MaxRev
  THEN [server EXCEPT !.kind = kind, !.past = @ \cup {kind},
                      !.left = CASE req.op = "release" -> 0 [] req.op = "optime" -> @ [] OTHER -> TTL]
  ELSE server

(* The request is answered: the object, or 409 and another look at it.      *)
Answer(n) ==
  LET c == client[n] IN
  /\ ~Idle(n) /\ c.call.op \notin {"reacquire", "reread"} /\ server.kind.rev < MaxRev
  /\ server' = Written(Request(n))
  /\ client' = [client EXCEPT ![n] =
       IF Accepts(Request(n))
       THEN Finish(c, IF c.call.op \in {"acquire", "update", "repatch"} THEN TTL - c.call.age ELSE c.sure)
       ELSE CASE c.call.op = "acquire" /\ c.call.rev = 0 -> Finish(c, 0)
              [] c.call.op = "acquire" /\ c.call.rev # 0 -> [c EXCEPT !.call.op = "reacquire"]
              [] c.call.op = "update"  -> [c EXCEPT !.call.op = "reread"]
              [] c.call.op = "repatch" -> Finish(c, 0)
              [] OTHER -> Finish(c, c.sure)]
  /\ UNCHANGED net

(* read_namespaced_kind() after the 409.  An earlier attempt of this call   *)
(* may be what changed the object; an update is tried once more otherwise,  *)
(* if the object still names this node.                                     *)
Reread(n) ==
  LET c == client[n]
      mine == server.kind.owner = n /\ server.kind.stamp = c.call.stamp IN
  /\ \/ /\ c.call.op = "reacquire"
        /\ client' = [client EXCEPT ![n] = Finish(c, IF mine /\ server.kind.rev # c.call.rev
                                                     THEN TTL - c.call.age ELSE 0)]
     \/ /\ c.call.op = "reread"
        /\ client' = [client EXCEPT ![n] =
             IF server.kind.owner # n \/ server.kind.rev = c.call.rev THEN Finish(c, 0)
             ELSE IF mine THEN Finish(c, TTL - c.call.age)
             ELSE [c EXCEPT !.call.op = "repatch", !.call.rev = server.kind.rev]]
  /\ UNCHANGED <<server, net>>

(* No answer: the request is repeated until the deadline or given up, and   *)
(* may have been, or still be, carried out.  Only acquire and update repeat. *)
Unanswered(n) ==
  LET c == client[n] IN
  /\ c.call.op \in {"acquire", "update", "repatch", "release", "optime"}
  /\ \/ c.call.op \notin {"release", "optime"} /\ UNCHANGED client
     \/ client' = [client EXCEPT ![n] = Finish(c, c.sure)]
  /\ \/ server' = Written(Request(n)) /\ UNCHANGED net
     \/ /\ Cardinality(net) < MaxFlight
        /\ net' = net \cup {Request(n)} /\ UNCHANGED server

Late ==
  \E req \in net : server' = Written(req) /\ net' = net \ {req} /\ UNCHANGED client

Less(t) == IF t = 0 THEN 0 ELSE t - 1
Later(c) == [c EXCEPT !.sure = Less(c.sure), !.wait = Less(c.wait),
                      !.call.age = IF c.call.op = "idle" THEN 0 ELSE c.call.age + 1]

Tick ==
  /\ \A n \in Nodes : client[n].call.age < TTL
  /\ server' = [server EXCEPT !.left = Less(@)]
  /\ client' = [n \in Nodes |-> Later(client[n])]
  /\ UNCHANGED net

Next ==
  \/ \E n \in Nodes : \/ LoadCluster(n) \/ Call(n)
                      \/ Answer(n) \/ Reread(n) \/ Unanswered(n)
  \/ Late \/ Tick

Spec == Init /\ [][Next]_vars

-----------------------------------------------------------------------------
(* The key is held while its record may not be taken for expired by anyone. *)
Owner == IF server.left > 0 THEN server.kind.owner ELSE None
Sure == {n \in Nodes : client[n].sure > 0}

Contract == INSTANCE LeaderKey WITH owner <- Owner, sure <- Sure

(* The key passes from node to node only by being free in between, and is   *)
(* not freed under a node whose last answer still vouches for it.           *)
KeyImplemented == Contract!KeySpec
=============================================================================
