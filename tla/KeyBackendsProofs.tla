------------------------- MODULE KeyBackendsProofs -------------------------
(* The DCS implementations whose leader key carries its own expiry (Etcd    *)
(* v2, Raft, Kubernetes) implement LeaderKey: for any set of nodes, any     *)
(* ttl, any number of calls and any number of requests in flight.           *)
(*                                                                          *)
(* Every proof has the same plan.  The inductive invariant of a backend     *)
(* bounds the time a node counts on its last answer by the time the key     *)
(* has left, and says so of everything that may still write the key: calls  *)
(* in progress, retries and requests in flight.  Then at most the owner is  *)
(* sure, and what is left to show of a step is that the key is not taken    *)
(* from its owner directly.                                                 *)
EXTENDS MCBackends, Integers, TLAPS

Owners == Nodes \cup {None}

-----------------------------------------------------------------------------
(* Etcd v2.                                                                 *)

EtcdServers == [leader : Owners, ttl : Nat, old : Owners, sync : Nat, writer : [1..MaxSync -> Owners]]
EtcdClients == [op : {"idle", "acquire", "update", "release", "sync"},
                view : Owners \cup {E2!Unknown}, age : 0..TTL, sure : 0..TTL,
                version : Nat, acked : SUBSET Nat]
EtcdRequests == [node : Nodes, op : {"acquire", "update", "release", "sync"}, version : Nat]

EtcdTypeOK ==
  /\ server \in EtcdServers
  /\ client \in [Nodes -> EtcdClients]
  /\ net \in SUBSET EtcdRequests

(* A node that is sure owns the key for at least as long; it is not sure    *)
(* while it deletes the key, and nobody deletes it late.                    *)
EtcdHeld ==
  /\ \A n \in Nodes : client[n].sure > 0 => server.leader = n /\ client[n].sure <= server.ttl
  /\ \A n \in Nodes : client[n].op = "release" => client[n].sure = 0
  /\ \A r \in net : r.op # "release"

(* What a node was told it wrote to /sync is still there.                   *)
EtcdWritten ==
  /\ \A n \in Nodes : client[n].op = "sync" => client[n].version < MaxSync
  /\ \A r \in net : r.op = "sync" => r.version < MaxSync
  /\ \A n \in Nodes : \A v \in client[n].acked :
       v \in 1..MaxSync /\ v <= server.sync /\ server.writer[v] = n

EtcdInv == EtcdTypeOK /\ EtcdHeld /\ EtcdWritten

(* What a request does to the cluster.                                      *)
EtcdEffect(r, s, ok) ==
  /\ s \in EtcdServers /\ ok \in BOOLEAN
  /\ \/ s.leader = server.leader /\ s.ttl = server.ttl /\ (ok => r.op = "sync")
     \/ /\ ok /\ r.op \in {"acquire", "update"} /\ server.leader \in {None, r.node}
        /\ s.leader = r.node /\ s.ttl = TTL
     \/ ok /\ r.op = "release" /\ server.leader = r.node /\ s.leader = None
  /\ s.sync >= server.sync
  /\ \A v \in 1..MaxSync : v <= server.sync => s.writer[v] = server.writer[v]
  /\ ok /\ r.op = "sync" => /\ r.version + 1 \in 1..MaxSync /\ s.sync = r.version + 1
                            /\ s.writer[r.version + 1] = r.node

(* What a request that reaches etcd may change.                             *)
LEMMA EtcdApply ==
  ASSUME TTL \in Nat, MaxSync \in Nat, server \in EtcdServers,
         NEW r \in EtcdRequests, r.op = "sync" => r.version < MaxSync
  PROVE  EtcdEffect(r, E2!Apply(r).server, E2!Apply(r).ok)
  <1>0. /\ server.leader \in Owners /\ server.sync \in Nat /\ server.ttl \in Nat
        /\ r.node \in Nodes /\ r.version \in Nat
    BY DEF EtcdServers, EtcdRequests
  <1>1. EtcdEffect(r, server, FALSE)
    BY <1>0 DEF EtcdEffect
  <1>2. ASSUME NEW n \in Owners, NEW t \in Nat, NEW s, s = E2!SetLeader(server, n, t)
        PROVE  s \in EtcdServers /\ s.leader = n /\ s.ttl = t /\ s.sync = server.sync /\ s.writer = server.writer
    BY <1>0, <1>2 DEF E2!SetLeader, EtcdServers, Owners
  <1>3. CASE r.op = "acquire"
    <2>1. /\ server.leader = None => E2!Apply(r).server = E2!SetLeader(server, r.node, TTL) /\ E2!Apply(r).ok = TRUE
          /\ server.leader = None \/ (E2!Apply(r).server = server /\ E2!Apply(r).ok = FALSE)
      BY <1>3 DEF E2!Apply, E2!DoAcquire, E2!Ok, E2!Fails
    <2>2. server.leader = None => EtcdEffect(r, E2!SetLeader(server, r.node, TTL), TRUE)
      BY <1>0, <1>2, <1>3 DEF EtcdEffect, Owners
    <2>3. QED BY <1>1, <2>1, <2>2
  <1>4. CASE r.op = "update"
    <2>1. /\ server.leader = r.node => E2!Apply(r).server = E2!SetLeader(server, r.node, TTL) /\ E2!Apply(r).ok = TRUE
          /\ server.leader = r.node \/ (E2!Apply(r).server = server /\ E2!Apply(r).ok = FALSE)
      BY <1>4 DEF E2!Apply, E2!DoUpdate, E2!Ok, E2!Fails
    <2>2. server.leader = r.node => EtcdEffect(r, E2!SetLeader(server, r.node, TTL), TRUE)
      BY <1>0, <1>2, <1>4 DEF EtcdEffect, Owners
    <2>3. QED BY <1>1, <2>1, <2>2
  <1>5. CASE r.op = "release"
    <2>1. /\ server.leader = r.node => E2!Apply(r).server = E2!SetLeader(server, None, 0) /\ E2!Apply(r).ok = TRUE
          /\ server.leader = r.node \/ (E2!Apply(r).server = server /\ E2!Apply(r).ok = FALSE)
      BY <1>5 DEF E2!Apply, E2!DoDelete, E2!Ok, E2!Fails
    <2>2. server.leader = r.node => EtcdEffect(r, E2!SetLeader(server, None, 0), TRUE)
      BY <1>0, <1>2, <1>5 DEF EtcdEffect, Owners
    <2>3. QED BY <1>1, <2>1, <2>2
  <1>6. CASE r.op = "sync"
    <2> DEFINE s == [server EXCEPT !.sync = r.version + 1, !.writer[r.version + 1] = r.node]
    <2>1. /\ server.sync = r.version => E2!Apply(r).server = s /\ E2!Apply(r).ok = TRUE
          /\ server.sync = r.version \/ (E2!Apply(r).server = server /\ E2!Apply(r).ok = FALSE)
      BY <1>6 DEF E2!Apply, E2!DoSync, E2!Ok, E2!Fails
    <2>2. server.sync = r.version => EtcdEffect(r, s, TRUE)
      <3>1. r.version + 1 \in 1..MaxSync
        BY <1>0, <1>6
      <3>0. server.writer \in [1..MaxSync -> Owners] /\ r.node \in Owners
        BY DEF EtcdServers, EtcdRequests, Owners
      <3>2. /\ s \in EtcdServers /\ s.leader = server.leader /\ s.ttl = server.ttl /\ s.sync = r.version + 1
            /\ s.writer = [server.writer EXCEPT ![r.version + 1] = r.node]
        <4> DEFINE W == [server.writer EXCEPT ![r.version + 1] = r.node]
        <4>1. W \in [1..MaxSync -> Owners]
          BY <3>0, <3>1
        <4>2. s = [server EXCEPT !.sync = r.version + 1, !.writer = W]
          BY DEF EtcdServers
        <4> DEFINE k == r.version + 1
        <4>3. k \in Nat /\ s = [server EXCEPT !.sync = k, !.writer = W]
          BY <1>0, <4>2
        <4> HIDE DEF W, k, s
        <4>4. /\ s \in EtcdServers /\ s.leader = server.leader /\ s.ttl = server.ttl
              /\ s.sync = k /\ s.writer = W
          BY <4>1, <4>3 DEF EtcdServers
        <4>5. QED BY <4>4 DEF W, k
      <3> HIDE DEF s
      <3>3. /\ s.writer[r.version + 1] = r.node
            /\ \A v \in 1..MaxSync : v <= r.version => s.writer[v] = server.writer[v]
        BY <1>0, <3>0, <3>1, <3>2
      <3>4. QED BY <1>0, <1>6, <3>1, <3>2, <3>3 DEF EtcdEffect
    <2>3. QED BY <1>1, <2>1, <2>2
  <1>7. QED BY <1>3, <1>4, <1>5, <1>6 DEF EtcdRequests

(* The key is not taken from its owner directly.                            *)
EtcdOwnerStep == server'.leader \in {server.leader, None} \/ server.leader = None

(* A request of the node n is applied, and n is told so if it waits.  This  *)
(* is what the three ways a request may take have in common.                *)
LEMMA EtcdEffectHeld ==
  ASSUME TTL \in Nat, None \notin Nodes, EtcdInv, NEW r \in EtcdRequests, NEW ok, EtcdEffect(r, server', ok),
         r.op = "release" => client[r.node].sure = 0
  PROVE  /\ EtcdOwnerStep /\ server' \in EtcdServers
         /\ \A m \in Nodes : client[m].sure > 0 => server'.leader = m /\ client[m].sure <= server'.ttl
         /\ \A m \in Nodes : \A v \in client[m].acked :
              v \in 1..MaxSync /\ v <= server'.sync /\ server'.writer[v] = m
  <1>1. /\ server' \in EtcdServers /\ server'.sync \in Nat /\ server.sync \in Nat /\ server.ttl \in Nat
        /\ server'.ttl \in Nat /\ r.node \in Nodes
    BY DEF EtcdEffect, EtcdInv, EtcdTypeOK, EtcdServers, EtcdRequests
  <1>2. \A m \in Nodes : client[m].sure \in 0..TTL /\ client[m].acked \in SUBSET Nat
    BY DEF EtcdInv, EtcdTypeOK, EtcdClients
  <1>3. EtcdOwnerStep
    BY DEF EtcdEffect, EtcdOwnerStep
  <1>4. ASSUME NEW m \in Nodes, client[m].sure > 0
        PROVE  server'.leader = m /\ client[m].sure <= server'.ttl
    <2>1. server.leader = m /\ client[m].sure <= server.ttl
      BY <1>4 DEF EtcdInv, EtcdHeld
    <2>2. m \in Nodes /\ client[m].sure <= TTL
      BY <1>2
    <2>3. ~(r.op = "release" /\ server.leader = r.node)
      BY <1>2, <1>4, <2>1
    <2>4. QED BY <1>1, <2>1, <2>2, <2>3 DEF EtcdEffect
  <1>5. ASSUME NEW m \in Nodes, NEW v \in client[m].acked
        PROVE  v \in 1..MaxSync /\ v <= server'.sync /\ server'.writer[v] = m
    <2>1. v \in 1..MaxSync /\ v <= server.sync /\ server.writer[v] = m
      BY DEF EtcdInv, EtcdWritten
    <2>2. server'.sync >= server.sync /\ server'.writer[v] = server.writer[v]
      BY <2>1 DEF EtcdEffect
    <2>3. QED BY <1>1, <2>1, <2>2
  <1>6. QED BY <1>1, <1>3, <1>4, <1>5

(* One node's record changes: what the invariant asks of the new one.       *)
EtcdFits(n, d) ==
  /\ d \in EtcdClients
  /\ d.sure > 0 => server'.leader = n /\ d.sure <= server'.ttl
  /\ d.op = "release" => d.sure = 0
  /\ d.op = "sync" => d.version < MaxSync
  /\ \A v \in d.acked : v \in 1..MaxSync /\ v <= server'.sync /\ server'.writer[v] = n

(* A step of one node: what the others were told has to stay true, and the  *)
(* node's own answer has to fit.                                            *)
LEMMA EtcdClientStep ==
  ASSUME EtcdInv, NEW n \in Nodes, NEW d, EtcdFits(n, d),
         client' = [client EXCEPT ![n] = d], server' \in EtcdServers,
         net' \in SUBSET EtcdRequests,
         \A r \in net' : r.op # "release" /\ (r.op = "sync" => r.version < MaxSync),
         \A m \in Nodes : client[m].sure > 0 => server'.leader = m /\ client[m].sure <= server'.ttl,
         \A m \in Nodes : \A v \in client[m].acked :
           v \in 1..MaxSync /\ v <= server'.sync /\ server'.writer[v] = m
  PROVE  EtcdInv'
  <1>1. client \in [Nodes -> EtcdClients]
    BY DEF EtcdInv, EtcdTypeOK
  <1>2. client' \in [Nodes -> EtcdClients] /\ client'[n] = d
    BY <1>1 DEF EtcdFits
  <1>3. \A m \in Nodes : m # n => client'[m] = client[m]
    BY <1>1
  <1>4. EtcdTypeOK'
    BY <1>2 DEF EtcdTypeOK
  <1>5. ASSUME NEW m \in Nodes
        PROVE  /\ client'[m].sure > 0 => server'.leader = m /\ client'[m].sure <= server'.ttl
               /\ client'[m].op = "release" => client'[m].sure = 0
               /\ client'[m].op = "sync" => client'[m].version < MaxSync
               /\ \A v \in client'[m].acked : v \in 1..MaxSync /\ v <= server'.sync /\ server'.writer[v] = m
    <2>1. CASE m = n
      BY <1>2, <2>1 DEF EtcdFits
    <2>2. CASE m # n
      BY <1>3, <2>2 DEF EtcdInv, EtcdHeld, EtcdWritten
    <2>3. QED BY <2>1, <2>2
  <1>6. EtcdHeld'
    BY <1>5 DEF EtcdHeld
  <1>7. EtcdWritten'
    BY <1>5 DEF EtcdWritten
  <1>8. QED BY <1>4, <1>6, <1>7 DEF EtcdInv

(* The state of a node that leaves the cluster alone.                       *)
LEMMA EtcdQuiet ==
  ASSUME EtcdInv, UNCHANGED server
  PROVE  /\ EtcdOwnerStep /\ server' \in EtcdServers
         /\ \A m \in Nodes : client[m].sure > 0 => server'.leader = m /\ client[m].sure <= server'.ttl
         /\ \A m \in Nodes : \A v \in client[m].acked :
              v \in 1..MaxSync /\ v <= server'.sync /\ server'.writer[v] = m
  BY DEF EtcdInv, EtcdTypeOK, EtcdHeld, EtcdWritten, EtcdOwnerStep

(* A request is served, with its answer or without.                         *)
LEMMA EtcdServe ==
  ASSUME TTL \in Nat, MaxSync \in Nat, None \notin Nodes, EtcdInv,
         NEW n \in Nodes, E2!Serve(n) \/ E2!LoseAnswer(n)
  PROVE  EtcdInv' /\ EtcdOwnerStep
  <1> DEFINE c == client[n]
             r == E2!Request(n)
             ok == E2!Apply(r).ok
  <1>1. /\ c \in EtcdClients /\ c.op # "idle" /\ server \in EtcdServers
        /\ net \in SUBSET EtcdRequests /\ net' = net
        /\ server' = E2!Apply(r).server
    BY DEF E2!Serve, E2!LoseAnswer, E2!Idle, EtcdInv, EtcdTypeOK
  <1>2. r \in EtcdRequests /\ r.node = n /\ r.op = c.op /\ r.version = c.version
    BY <1>1 DEF E2!Request, EtcdClients, EtcdRequests
  <1>3. /\ r.op = "sync" => r.version < MaxSync
        /\ r.op = "release" => c.sure = 0
    BY <1>2 DEF EtcdInv, EtcdHeld, EtcdWritten
  <1>4. EtcdEffect(r, server', ok)
    BY <1>1, <1>2, <1>3, EtcdApply
  <1> HIDE DEF r, ok
  <1>5. /\ EtcdOwnerStep /\ server' \in EtcdServers
        /\ \A m \in Nodes : client[m].sure > 0 => server'.leader = m /\ client[m].sure <= server'.ttl
        /\ \A m \in Nodes : \A v \in client[m].acked :
             v \in 1..MaxSync /\ v <= server'.sync /\ server'.writer[v] = m
    BY <1>2, <1>3, <1>4, EtcdEffectHeld
  <1>6. \A q \in net' : q.op # "release" /\ (q.op = "sync" => q.version < MaxSync)
    BY <1>1 DEF EtcdInv, EtcdHeld, EtcdWritten
  <1>12. /\ c.sure > 0 => server'.leader = n /\ c.sure <= server'.ttl
         /\ \A v \in c.acked : v \in 1..MaxSync /\ v <= server'.sync /\ server'.writer[v] = n
    BY <1>5
  <1>13. 0 \in 0..TTL
    OBVIOUS
  <1>7. EtcdFits(n, [c EXCEPT !.op = "idle", !.view = E2!Unknown])
    BY <1>1, <1>5 DEF EtcdFits, EtcdClients
  <1>8. CASE client' = [client EXCEPT ![n] = E2!Finish(c)]
    BY <1>1, <1>5, <1>6, <1>7, <1>8, EtcdClientStep DEF E2!Finish
  <1>9. CASE client' = client
    <2>1. client' = [client EXCEPT ![n] = c]
      BY <1>9 DEF EtcdInv, EtcdTypeOK
    <2>2. EtcdFits(n, c)
      BY <1>1, <1>5 DEF EtcdFits, EtcdInv, EtcdHeld, EtcdWritten
    <2>3. QED BY <1>1, <1>5, <1>6, <2>1, <2>2, EtcdClientStep
  <1>10. CASE E2!Serve(n)
    <2> DEFINE d == E2!Answered(n, ok)
    <2>1. client' = [client EXCEPT ![n] = d]
      BY <1>10 DEF E2!Serve, r, ok
    <2>2. EtcdFits(n, d)
      <3>1. CASE c.op \in {"acquire", "update"} /\ ok
        <4>1. d = [c EXCEPT !.op = "idle", !.view = E2!Unknown, !.sure = TTL - c.age]
          BY <3>1 DEF E2!Answered, E2!Finish
        <4>2. TTL - c.age \in 0..TTL
          BY <1>1 DEF EtcdClients
        <4>3. server'.leader = n /\ server'.ttl = TTL
          BY <1>2, <1>4, <3>1 DEF EtcdEffect
        <4> HIDE DEF c, d
        <4>4. d \in EtcdClients /\ d.op = "idle" /\ d.sure = TTL - c.age /\ d.acked = c.acked
          BY <1>1, <4>1, <4>2 DEF EtcdClients
        <4>5. QED BY <1>12, <4>2, <4>3, <4>4 DEF EtcdFits
      <3>2. CASE c.op = "update" /\ ~ok /\ server.leader = None
        <4>1. d = [c EXCEPT !.op = "acquire", !.sure = 0]
          BY <3>2 DEF E2!Answered
        <4> HIDE DEF c, d
        <4>2. d \in EtcdClients /\ d.op = "acquire" /\ d.sure = 0 /\ d.acked = c.acked
          BY <1>1, <1>13, <4>1 DEF EtcdClients
        <4>3. QED BY <1>12, <4>2 DEF EtcdFits
      <3>3. CASE c.op = "update" /\ ~ok /\ server.leader # None
        <4>1. d = [c EXCEPT !.op = "idle", !.view = E2!Unknown, !.sure = 0]
          BY <3>3 DEF E2!Answered, E2!Finish
        <4> HIDE DEF c, d
        <4>2. d \in EtcdClients /\ d.op = "idle" /\ d.sure = 0 /\ d.acked = c.acked
          BY <1>1, <1>13, <4>1 DEF EtcdClients
        <4>3. QED BY <1>12, <4>2 DEF EtcdFits
      <3>4. CASE c.op = "sync" /\ ok
        <4>1. d = [c EXCEPT !.op = "idle", !.view = E2!Unknown, !.acked = @ \cup {c.version + 1}]
          BY <3>4 DEF E2!Answered, E2!Finish
        <4>2. /\ c.version + 1 \in 1..MaxSync /\ server'.sync = c.version + 1
              /\ server'.writer[c.version + 1] = n /\ c.version + 1 <= server'.sync
          BY <1>1, <1>2, <1>4, <3>4 DEF EtcdEffect, EtcdServers
        <4>3. c.acked \cup {c.version + 1} \in SUBSET Nat
          BY <1>1, <4>2 DEF EtcdClients
        <4> DEFINE written == c.acked \cup {c.version + 1}
        <4>4. d = [c EXCEPT !.op = "idle", !.view = E2!Unknown, !.acked = written]
          BY <1>1, <4>1 DEF EtcdClients
        <4> HIDE DEF c, d, written
        <4>5. d \in EtcdClients /\ d.op = "idle" /\ d.sure = c.sure /\ d.acked = written
          BY <1>1, <4>3, <4>4 DEF EtcdClients, written
        <4>6. QED BY <1>12, <4>2, <4>5 DEF EtcdFits, written
      <3>5. CASE ~(c.op \in {"acquire", "update"} /\ ok) /\ c.op # "update" /\ ~(c.op = "sync" /\ ok)
        <4>1. d = [c EXCEPT !.op = "idle", !.view = E2!Unknown]
          BY <3>5 DEF E2!Answered, E2!Finish
        <4>2. QED BY <1>7, <4>1
      <3>6. QED BY <3>1, <3>2, <3>3, <3>4, <3>5
    <2> HIDE DEF d
    <2>3. QED BY <1>1, <1>5, <1>6, <2>1, <2>2, EtcdClientStep
  <1>11. QED BY <1>5, <1>8, <1>9, <1>10 DEF E2!LoseAnswer, E2!NoAnswer

(* Loading the cluster, starting a call and losing a request leave etcd     *)
(* alone.                                                                   *)
LEMMA EtcdClientOnly ==
  ASSUME TTL \in Nat, MaxSync \in Nat, None \notin Nodes, EtcdInv, NEW n \in Nodes,
         \/ E2!Load(n) \/ E2!LoseRequest(n)
         \/ \E op \in {"acquire", "update", "release", "sync"} : E2!Call(n, op)
  PROVE  EtcdInv' /\ EtcdOwnerStep
  <1> DEFINE c == client[n]
  <1>1. /\ c \in EtcdClients /\ server \in EtcdServers /\ client \in [Nodes -> EtcdClients]
        /\ net \in SUBSET EtcdRequests /\ UNCHANGED server
    BY DEF E2!Load, E2!LoseRequest, E2!Call, EtcdInv, EtcdTypeOK
  <1>2. /\ EtcdOwnerStep /\ server' \in EtcdServers
        /\ \A m \in Nodes : client[m].sure > 0 => server'.leader = m /\ client[m].sure <= server'.ttl
        /\ \A m \in Nodes : \A v \in client[m].acked :
             v \in 1..MaxSync /\ v <= server'.sync /\ server'.writer[v] = m
    BY <1>1, EtcdQuiet
  <1>3. /\ c.sure > 0 => server'.leader = n /\ c.sure <= server'.ttl
        /\ \A v \in c.acked : v \in 1..MaxSync /\ v <= server'.sync /\ server'.writer[v] = n
        /\ c.op = "release" => c.sure = 0
        /\ c.op = "sync" => c.version < MaxSync
    BY <1>2 DEF EtcdInv, EtcdHeld, EtcdWritten
  <1>4. \A q \in net : q.op # "release" /\ (q.op = "sync" => q.version < MaxSync)
    BY DEF EtcdInv, EtcdHeld, EtcdWritten
  <1>5. CASE E2!Load(n)
    <2>1. PICK leader \in {server.leader, server.old} :
            client' = [client EXCEPT ![n].view = leader, ![n].version = server.sync]
      BY <1>5 DEF E2!Load
    <2> DEFINE d == [c EXCEPT !.view = leader, !.version = server.sync]
    <2>2. client' = [client EXCEPT ![n] = d] /\ net' = net /\ c.op = "idle"
      BY <1>1, <1>5, <2>1 DEF E2!Load, E2!Idle
    <2>3. leader \in Owners /\ server.sync \in Nat
      BY <1>1 DEF EtcdServers
    <2>4. d \in EtcdClients /\ d.op = "idle" /\ d.sure = c.sure /\ d.acked = c.acked
      BY <1>1, <2>2, <2>3 DEF EtcdClients
    <2>5. EtcdFits(n, d)
      BY <1>3, <2>4 DEF EtcdFits
    <2> HIDE DEF c, d
    <2>6. QED BY <1>1, <1>2, <1>4, <2>2, <2>5, EtcdClientStep
  <1>6. ASSUME NEW op \in {"acquire", "update", "release", "sync"}, E2!Call(n, op)
        PROVE  EtcdInv'
    <2> DEFINE good == IF op = "release" THEN 0 ELSE c.sure
               d == [c EXCEPT !.op = op, !.age = 0, !.sure = good]
    <2>1. client' = [client EXCEPT ![n] = d] /\ net' = net
      BY <1>1, <1>6 DEF E2!Call
    <2>2. op = "sync" => c.version < MaxSync
      BY <1>6 DEF E2!Call
    <2>3. good \in 0..TTL /\ 0 \in 0..TTL /\ (good > 0 => good = c.sure) /\ (op = "release" => good = 0)
      BY <1>1 DEF EtcdClients
    <2> HIDE DEF good
    <2>4. /\ d \in EtcdClients /\ d.op = op /\ d.sure = good /\ d.acked = c.acked
          /\ d.version = c.version
      BY <1>1, <2>3 DEF EtcdClients
    <2>5. EtcdFits(n, d)
      BY <1>3, <2>2, <2>3, <2>4 DEF EtcdFits
    <2> HIDE DEF c, d
    <2>6. QED BY <1>1, <1>2, <1>4, <2>1, <2>5, EtcdClientStep
  <1>7. CASE E2!LoseRequest(n)
    <2>1. \A q \in net' : q \in EtcdRequests /\ q.op # "release" /\ (q.op = "sync" => q.version < MaxSync)
      <3>1. /\ c.op # "idle" => E2!Request(n) \in EtcdRequests
            /\ E2!Request(n).op = c.op /\ E2!Request(n).version = c.version
        BY <1>1 DEF E2!Request, EtcdClients, EtcdRequests
      <3>2. c.op # "idle" /\ (net' = net \/ (c.op # "release" /\ net' = net \cup {E2!Request(n)}))
        BY <1>7 DEF E2!LoseRequest, E2!Idle
      <3>3. QED BY <1>1, <1>3, <1>4, <3>1, <3>2
    <2>2. client' = [client EXCEPT ![n] = c] \/ client' = [client EXCEPT ![n] = E2!Finish(c)]
      BY <1>1, <1>7 DEF E2!LoseRequest, E2!NoAnswer
    <2>3. EtcdFits(n, c)
      BY <1>1, <1>3 DEF EtcdFits
    <2> DEFINE d == E2!Finish(c)
    <2>4. d \in EtcdClients /\ d.op = "idle" /\ d.sure = c.sure /\ d.acked = c.acked
      BY <1>1 DEF E2!Finish, EtcdClients
    <2>5. EtcdFits(n, d)
      BY <1>3, <2>4 DEF EtcdFits
    <2>6. net' \in SUBSET EtcdRequests
      BY <2>1
    <2> HIDE DEF c, d
    <2>7. CASE client' = [client EXCEPT ![n] = c]
      BY <1>2, <2>1, <2>3, <2>6, <2>7, EtcdClientStep
    <2>8. CASE client' = [client EXCEPT ![n] = d]
      BY <1>2, <2>1, <2>5, <2>6, <2>8, EtcdClientStep
    <2>9. QED BY <2>2, <2>7, <2>8 DEF d
  <1>8. QED BY <1>2, <1>5, <1>6, <1>7

(* A request whose client has given up is applied.                          *)
LEMMA EtcdApplyLate ==
  ASSUME TTL \in Nat, MaxSync \in Nat, None \notin Nodes, EtcdInv, E2!ApplyLate
  PROVE  EtcdInv' /\ EtcdOwnerStep
  <1>1. PICK r \in net : server' = E2!Apply(r).server /\ net' = net \ {r} /\ UNCHANGED client
    BY DEF E2!ApplyLate
  <1>2. /\ r \in EtcdRequests /\ r.op # "release" /\ (r.op = "sync" => r.version < MaxSync)
        /\ server \in EtcdServers
    BY DEF EtcdInv, EtcdTypeOK, EtcdHeld, EtcdWritten
  <1>3. EtcdEffect(r, server', E2!Apply(r).ok)
    BY <1>1, <1>2, EtcdApply
  <1> DEFINE ok == E2!Apply(r).ok
  <1>4. EtcdEffect(r, server', ok)
    BY <1>3
  <1> HIDE DEF ok
  <1>5. /\ EtcdOwnerStep /\ server' \in EtcdServers
        /\ \A m \in Nodes : client[m].sure > 0 => server'.leader = m /\ client[m].sure <= server'.ttl
        /\ \A m \in Nodes : \A v \in client[m].acked :
             v \in 1..MaxSync /\ v <= server'.sync /\ server'.writer[v] = m
    BY <1>2, <1>4, EtcdEffectHeld
  <1>6. EtcdTypeOK'
    BY <1>1, <1>5 DEF EtcdInv, EtcdTypeOK
  <1>7. EtcdHeld'
    BY <1>1, <1>5 DEF EtcdInv, EtcdHeld
  <1>8. EtcdWritten'
    BY <1>1, <1>5 DEF EtcdInv, EtcdWritten
  <1>9. QED BY <1>5, <1>6, <1>7, <1>8 DEF EtcdInv

(* The key expires no sooner than the last answer that vouches for it.      *)
LEMMA EtcdTick ==
  ASSUME TTL \in Nat, MaxSync \in Nat, None \notin Nodes, EtcdInv, E2!Tick
  PROVE  EtcdInv' /\ EtcdOwnerStep
  <1>1. /\ server \in EtcdServers /\ client \in [Nodes -> EtcdClients] /\ net' = net
        /\ server.ttl \in Nat
    BY DEF EtcdInv, EtcdTypeOK, EtcdServers, E2!Tick
  <1>2. /\ server' \in EtcdServers /\ server'.sync = server.sync /\ server'.writer = server.writer
        /\ \/ server.leader # None /\ server.ttl = 1 /\ server'.leader = None
           \/ server'.leader = server.leader /\ server'.ttl = (IF server.ttl = 0 THEN 0 ELSE server.ttl - 1)
    <2>1. CASE server.leader # None /\ server.ttl = 1
      <3>1. server' = [server EXCEPT !.leader = None, !.ttl = 0,
                                     !.old = IF server.leader = None THEN server.old ELSE server.leader]
        BY <2>1 DEF E2!Tick, E2!SetLeader
      <3>2. QED BY <1>1, <2>1, <3>1 DEF EtcdServers, Owners
    <2>2. CASE ~(server.leader # None /\ server.ttl = 1)
      <3>1. server' = [server EXCEPT !.ttl = E2!Less(server.ttl)]
        BY <2>2 DEF E2!Tick
      <3>2. E2!Less(server.ttl) \in Nat /\ E2!Less(server.ttl) = IF server.ttl = 0 THEN 0 ELSE server.ttl - 1
        BY <1>1 DEF E2!Less
      <3>3. QED BY <1>1, <3>1, <3>2 DEF EtcdServers
    <2>3. QED BY <2>1, <2>2
  <1>3. ASSUME NEW n \in Nodes
        PROVE  /\ client'[n] \in EtcdClients
               /\ client'[n].sure = (IF client[n].sure = 0 THEN 0 ELSE client[n].sure - 1)
               /\ client'[n].op = client[n].op /\ client'[n].version = client[n].version
               /\ client'[n].acked = client[n].acked
    <2> DEFINE c == client[n]
               age == IF E2!Idle(c) THEN 0 ELSE c.age + 1
               sure == E2!Less(c.sure)
    <2>1. client'[n] = [c EXCEPT !.sure = sure, !.age = age]
      BY DEF E2!Tick
    <2>2. c \in EtcdClients /\ c.age \in 0..TTL /\ c.sure \in 0..TTL
      BY <1>1 DEF EtcdClients
    <2>3. E2!Idle(c) \/ c.age < TTL
      BY DEF E2!Tick
    <2>4. age \in 0..TTL /\ sure \in 0..TTL /\ sure = IF c.sure = 0 THEN 0 ELSE c.sure - 1
      BY <2>2, <2>3 DEF E2!Less
    <2> HIDE DEF age, sure
    <2>5. QED BY <2>1, <2>2, <2>4 DEF EtcdClients
  <1>4. EtcdTypeOK'
    <2>1. client' \in [Nodes -> EtcdClients]
      <3>1. client' = [n \in Nodes |-> client'[n]]
        BY DEF E2!Tick
      <3>2. QED BY <1>3, <3>1
    <2>2. QED BY <1>1, <1>2, <2>1 DEF EtcdTypeOK, EtcdInv
  <1>5. EtcdHeld'
    <2>1. ASSUME NEW n \in Nodes, client'[n].sure > 0
          PROVE  server'.leader = n /\ client'[n].sure <= server'.ttl
      <3>1. client[n].sure \in 0..TTL /\ client[n].sure > 1 /\ client'[n].sure = client[n].sure - 1
        BY <1>1, <1>3, <2>1 DEF EtcdClients
      <3>2. server.leader = n /\ client[n].sure <= server.ttl
        BY <3>1 DEF EtcdInv, EtcdHeld
      <3>3. QED BY <1>1, <1>2, <3>1, <3>2 DEF EtcdServers
    <2>2. \A n \in Nodes : client'[n].op = "release" => client'[n].sure = 0
      BY <1>3 DEF EtcdInv, EtcdHeld
    <2>3. QED BY <1>1, <2>1, <2>2 DEF EtcdInv, EtcdHeld
  <1>6. EtcdWritten'
    BY <1>1, <1>2, <1>3 DEF EtcdInv, EtcdWritten
  <1>7. QED BY <1>2, <1>4, <1>5, <1>6 DEF EtcdInv, EtcdOwnerStep

(* Etcd starts in its invariant and with a free key.                        *)
LEMMA EtcdStart ==
  ASSUME TTL \in Nat, MaxSync \in Nat, E2!Init
  PROVE  EtcdInv /\ E2!Contract!KeyInit
  <1>1. 0 \in 0..TTL
    OBVIOUS
  <1>2. EtcdTypeOK
    BY <1>1 DEF E2!Init, EtcdTypeOK, EtcdServers, EtcdClients, Owners
  <1>3. EtcdHeld /\ EtcdWritten
    BY DEF E2!Init, EtcdHeld, EtcdWritten
  <1>4. E2!Contract!KeyInit
    BY DEF E2!Init, E2!Contract!KeyInit, E2!Owner, E2!Sure
  <1>5. QED BY <1>2, <1>3, <1>4 DEF EtcdInv

(* Every step of etcd keeps the invariant and is a step of LeaderKey.       *)
LEMMA EtcdStep ==
  ASSUME TTL \in Nat, MaxSync \in Nat, None \notin Nodes, EtcdInv, [E2!Next]_(E2!vars)
  PROVE  EtcdInv' /\ [E2!Contract!KeyNext]_(E2!Contract!keyVars)
  <1>1. CASE UNCHANGED E2!vars
    BY <1>1 DEF E2!vars, E2!Contract!keyVars, E2!Owner, E2!Sure,
                EtcdInv, EtcdTypeOK, EtcdHeld, EtcdWritten
  <1>2. CASE E2!Next
    <2>1. EtcdInv' /\ EtcdOwnerStep
      BY <1>2, EtcdServe, EtcdClientOnly, EtcdApplyLate, EtcdTick DEF E2!Next
    <2>2. server'.leader \in Owners /\ E2!Sure' \subseteq {server'.leader} /\ E2!Sure' \subseteq Nodes
      BY <2>1 DEF EtcdInv, EtcdTypeOK, EtcdHeld, EtcdServers, E2!Sure
    <2>3. server.leader \in Owners /\ E2!Sure \subseteq {server.leader}
      BY DEF EtcdInv, EtcdTypeOK, EtcdHeld, EtcdServers, E2!Sure
    <2>4. E2!Contract!KeyNext
      <3>1. CASE server'.leader = None
        BY <2>2, <3>1 DEF E2!Contract!KeyNext, E2!Contract!Free, E2!Owner
      <3>2. CASE server'.leader \in Nodes /\ server.leader = None
        BY <2>2, <3>2 DEF E2!Contract!KeyNext, E2!Contract!Acquire, E2!Owner
      <3>3. CASE server'.leader \in Nodes /\ server.leader = server'.leader /\ E2!Sure' = {}
        BY <3>3 DEF E2!Contract!KeyNext, E2!Contract!Doubt, E2!Owner
      <3>4. CASE server'.leader \in Nodes /\ server.leader = server'.leader /\ E2!Sure' # {}
        BY <2>2, <3>4 DEF E2!Contract!KeyNext, E2!Contract!Confirm, E2!Owner
      <3>5. QED BY <2>1, <2>2, <3>1, <3>2, <3>3, <3>4 DEF EtcdOwnerStep, Owners
    <2>5. QED BY <2>1, <2>4
  <1>3. QED BY <1>1, <1>2

(* attempt_to_acquire_leader(), update_leader() and delete_leader() of Etcd *)
(* implement LeaderKey, with lost, repeated and late requests: with any     *)
(* number of nodes and of late requests, and any ttl.                       *)
THEOREM EtcdKey ==
  ASSUME TTL \in Nat, MaxSync \in Nat, None \notin Nodes
  PROVE  E2!Spec => E2!KeyImplemented
  <1>1. E2!Init => EtcdInv /\ E2!Contract!KeyInit
    BY EtcdStart
  <1>2. EtcdInv /\ [E2!Next]_(E2!vars) => EtcdInv' /\ [E2!Contract!KeyNext]_(E2!Contract!keyVars)
    BY EtcdStep
  <1>3. QED BY <1>1, <1>2, PTL DEF E2!Spec, E2!KeyImplemented, E2!Contract!KeySpec

(* A write of /sync that its writer was told succeeded is not lost under    *)
(* another one (set_sync_state_value(version=...)).                         *)
THEOREM EtcdSync ==
  ASSUME TTL \in Nat, MaxSync \in Nat, None \notin Nodes
  PROVE  E2!Spec => []E2!SyncSerialized
  <1>1. E2!Init => EtcdInv
    BY EtcdStart
  <1>2. EtcdInv /\ [E2!Next]_(E2!vars) => EtcdInv'
    BY EtcdStep
  <1>3. EtcdInv => E2!SyncSerialized
    BY DEF EtcdInv, EtcdWritten, E2!SyncSerialized
  <1>4. QED BY <1>1, <1>2, <1>3, PTL DEF E2!Spec

-----------------------------------------------------------------------------
(* Raft, with the clocks of the nodes in step (Skew = 0).                   *)

RaftKeys == [owner : Owners, stamp : Nat, left : 0..TTL]
RaftServers == [key : RaftKeys, old : Owners, stamp : Nat]
RaftClients == [op : {"idle", "acquire", "update", "release"}, stamp : Nat, age : 0..TTL,
                view : Owners \cup {RA!Unknown}, sure : 0..TTL]
RaftCommands == [op : {"acquire", "update", "release", "expire"}, node : Nodes, stamp : Nat, left : 0..TTL]

RaftTypeOK ==
  /\ server \in RaftServers
  /\ client \in [Nodes -> RaftClients]
  /\ net \in SUBSET RaftCommands

(* A node is sure for no longer than the key it owns has left, nor than the *)
(* one that a command of its own may store.                                 *)
RaftHeld ==
  /\ \A n \in Nodes : client[n].sure > 0 => server.key.owner = n /\ client[n].sure <= server.key.left
  /\ \A n \in Nodes : client[n].op = "release" => client[n].sure = 0
  /\ \A n \in Nodes : client[n].op # "idle" => client[n].sure <= TTL - client[n].age
  /\ \A cmd \in net : /\ cmd.op # "release"
                      /\ cmd.op # "expire" => client[cmd.node].sure <= cmd.left
                      /\ cmd.op = "expire" => cmd.left = 0
  /\ server.key.owner = None => server.key = RA!NoKey

(* Wherever the value of one call is found, stored, in flight or about to   *)
(* be sent again, it has the same time left: what a command to expire it    *)
(* has seen expired is never stored again with time left.                   *)
RaftTickets ==
  {[stamp |-> key.stamp, left |-> key.left] : key \in {server.key} \ {RA!NoKey}}
    \cup {[stamp |-> cmd.stamp, left |-> cmd.left] : cmd \in net}
    \cup {[stamp |-> client[n].stamp, left |-> TTL - client[n].age] : n \in {m \in Nodes : client[m].op # "idle"}}

RaftCoherent ==
  /\ \A a, b \in RaftTickets : a.stamp = b.stamp => a.left = b.left
  /\ \A a \in RaftTickets : a.stamp <= server.stamp

RaftInv == RaftTypeOK /\ RaftHeld /\ RaftCoherent

RaftOwnerStep == server'.key.owner \in {server.key.owner, None} \/ server.key.owner = None

Ticket(stamp, left) == [stamp |-> stamp, left |-> left]

CoherentUpTo(tickets, stamp) ==
  /\ \A a, b \in tickets : a.stamp = b.stamp => a.left = b.left
  /\ \A a \in tickets : a.stamp <= stamp

(* Where a ticket may be found.                                             *)
LEMMA RaftTicketPlaces ==
  /\ server.key # RA!NoKey => Ticket(server.key.stamp, server.key.left) \in RaftTickets
  /\ \A cmd \in net : Ticket(cmd.stamp, cmd.left) \in RaftTickets
  /\ \A n \in Nodes : client[n].op # "idle" => Ticket(client[n].stamp, TTL - client[n].age) \in RaftTickets
  /\ \A a \in RaftTickets :
       \/ server.key # RA!NoKey /\ a = Ticket(server.key.stamp, server.key.left)
       \/ \E cmd \in net : a = Ticket(cmd.stamp, cmd.left)
       \/ \E n \in Nodes : client[n].op # "idle" /\ a = Ticket(client[n].stamp, TTL - client[n].age)
  BY DEF RaftTickets, Ticket

(* What a command does to the replicated state.                             *)
RaftEffect(cmd, s) ==
  /\ s \in RaftServers /\ s.stamp = server.stamp
  /\ \/ s = server
     \/ cmd.op = "release" /\ server.key.owner = cmd.node /\ s.key = RA!NoKey
     \/ /\ cmd.op \in {"acquire", "update"} /\ server.key.owner \in {None, cmd.node}
        /\ s.key = [owner |-> cmd.node, stamp |-> cmd.stamp, left |-> cmd.left]

(* What a command of the log may change.                                    *)
LEMMA RaftApply ==
  ASSUME TTL \in Nat, server \in RaftServers, NEW cmd \in RaftCommands, cmd.op # "expire"
  PROVE  /\ RaftEffect(cmd, RA!Applied(cmd))
         /\ RA!Holds(cmd, server.key) /\ cmd.op # "release" =>
              /\ RA!Applied(cmd).key = [owner |-> cmd.node, stamp |-> cmd.stamp, left |-> cmd.left]
              /\ server.key.owner \in {None, cmd.node}
  <1> DEFINE new == IF cmd.op = "release" THEN RA!NoKey
                    ELSE [owner |-> cmd.node, stamp |-> cmd.stamp, left |-> cmd.left]
             old == IF server.key.owner = new.owner THEN server.old ELSE server.key.owner
  <1>1. new \in RaftKeys
    BY DEF RaftCommands, RaftKeys, RA!NoKey, Owners
  <1>2. server.key \in RaftKeys /\ old \in Owners
    BY DEF RaftServers, RaftKeys
  <1>3. RA!Applied(cmd) = IF ~RA!Holds(cmd, server.key) THEN server
                          ELSE [server EXCEPT !.key = new, !.old = old]
    BY DEF RA!Applied, RA!Store
  <1>4. RA!Holds(cmd, server.key) => /\ cmd.op = "acquire" => server.key.owner = None
                                     /\ cmd.op # "acquire" => server.key.owner = cmd.node
    BY DEF RA!Holds
  <1>5. CASE ~RA!Holds(cmd, server.key)
    BY <1>3, <1>5 DEF RaftEffect, RaftServers
  <1>6. CASE RA!Holds(cmd, server.key)
    <2> DEFINE s == RA!Applied(cmd)
    <2>1. s = [server EXCEPT !.key = new, !.old = old]
      BY <1>3, <1>6
    <2>2. /\ cmd.op = "release" => new = RA!NoKey
          /\ cmd.op # "release" => new = [owner |-> cmd.node, stamp |-> cmd.stamp, left |-> cmd.left]
      OBVIOUS
    <2> HIDE DEF s, new, old
    <2>3. s \in RaftServers /\ s.stamp = server.stamp /\ s.key = new
      BY <1>1, <1>2, <2>1 DEF RaftServers
    <2>4. RaftEffect(cmd, s)
      BY <1>4, <1>6, <2>2, <2>3 DEF RaftEffect, RaftCommands
    <2>5. QED BY <1>4, <1>6, <2>2, <2>3, <2>4 DEF s
  <1>7. QED BY <1>5, <1>6

(* A command that may still be sent or arrive leaves its sender as sure as  *)
(* it was.                                                                  *)
RaftKept ==
  /\ RaftOwnerStep /\ server' \in RaftServers
  /\ \A m \in Nodes : client[m].sure > 0 => server'.key.owner = m /\ client[m].sure <= server'.key.left
  /\ server'.key.owner = None => server'.key = RA!NoKey
  /\ server'.key # RA!NoKey => Ticket(server'.key.stamp, server'.key.left) \in RaftTickets

(* A command that is applied leaves what the nodes count on.                *)
LEMMA RaftWrite ==
  ASSUME TTL \in Nat, None \notin Nodes, RaftInv, NEW cmd \in RaftCommands, RaftEffect(cmd, server'),
         Ticket(cmd.stamp, cmd.left) \in RaftTickets, client[cmd.node].sure <= cmd.left,
         cmd.op = "release" => client[cmd.node].sure = 0
  PROVE  RaftKept
  <1>1. /\ server \in RaftServers /\ server' \in RaftServers /\ cmd.node \in Nodes /\ cmd.left \in 0..TTL
        /\ \A m \in Nodes : client[m].sure \in 0..TTL
    BY DEF RaftInv, RaftTypeOK, RaftEffect, RaftCommands, RaftClients
  <1>2. \A m \in Nodes : client[m].sure > 0 => server.key.owner = m /\ client[m].sure <= server.key.left
    BY DEF RaftInv, RaftHeld
  <1>3. CASE server' = server
    BY <1>1, <1>2, <1>3, RaftTicketPlaces DEF RaftKept, RaftOwnerStep, RaftInv, RaftHeld
  <1>4. CASE cmd.op = "release" /\ server.key.owner = cmd.node /\ server'.key = RA!NoKey
    <2>1. \A m \in Nodes : client[m].sure = 0
      BY <1>1, <1>2, <1>4
    <2>2. server'.key.owner = None
      BY <1>4 DEF RA!NoKey
    <2>3. QED BY <1>1, <1>4, <2>1, <2>2 DEF RaftKept, RaftOwnerStep
  <1>5. CASE /\ cmd.op \in {"acquire", "update"} /\ server.key.owner \in {None, cmd.node}
             /\ server'.key = [owner |-> cmd.node, stamp |-> cmd.stamp, left |-> cmd.left]
    <2>1. server'.key.owner = cmd.node /\ server'.key.stamp = cmd.stamp /\ server'.key.left = cmd.left
      BY <1>5
    <2>2. RaftOwnerStep
      BY <1>5, <2>1 DEF RaftOwnerStep
    <2>3. \A m \in Nodes : client[m].sure > 0 => server'.key.owner = m /\ client[m].sure <= server'.key.left
      BY <1>1, <1>2, <1>5, <2>1
    <2>4. QED BY <1>1, <2>1, <2>2, <2>3 DEF RaftKept
  <1>6. QED BY <1>3, <1>4, <1>5 DEF RaftEffect

(* One node's record changes: what the invariant asks of the new one, of    *)
(* the commands in flight and of the tickets, which are among T.            *)
RaftFits(n, d, T) ==
  /\ d \in RaftClients /\ client' = [client EXCEPT ![n] = d]
  /\ d.sure > 0 => server'.key.owner = n /\ d.sure <= server'.key.left
  /\ d.op = "release" => d.sure = 0
  /\ d.op # "idle" => d.sure <= TTL - d.age /\ Ticket(d.stamp, TTL - d.age) \in T
  /\ net' \in SUBSET RaftCommands
  /\ \A cmd \in net' : /\ cmd.op # "release" /\ Ticket(cmd.stamp, cmd.left) \in T
                       /\ cmd.op # "expire" /\ cmd.node = n => d.sure <= cmd.left
                       /\ cmd.op # "expire" /\ cmd.node # n => client[cmd.node].sure <= cmd.left
                       /\ cmd.op = "expire" => cmd.left = 0
  /\ RaftTickets \subseteq T /\ CoherentUpTo(T, server'.stamp)

(* A step of one node that fits keeps the invariant.                        *)
LEMMA RaftClientStep ==
  ASSUME TTL \in Nat, None \notin Nodes, RaftInv, RaftKept, NEW n \in Nodes, NEW d, NEW T, RaftFits(n, d, T)
  PROVE  RaftInv'
  <1>1. client \in [Nodes -> RaftClients]
    BY DEF RaftInv, RaftTypeOK
  <1>2. client' \in [Nodes -> RaftClients] /\ client'[n] = d /\ \A m \in Nodes : m # n => client'[m] = client[m]
    BY <1>1 DEF RaftFits
  <1>3. RaftTypeOK'
    BY <1>2 DEF RaftTypeOK, RaftFits, RaftKept
  <1>4. ASSUME NEW m \in Nodes
        PROVE  /\ client'[m].sure > 0 => server'.key.owner = m /\ client'[m].sure <= server'.key.left
               /\ client'[m].op = "release" => client'[m].sure = 0
               /\ client'[m].op # "idle" => client'[m].sure <= TTL - client'[m].age
    <2>1. CASE m = n
      BY <1>2, <2>1 DEF RaftFits
    <2>2. CASE m # n
      BY <1>2, <2>2 DEF RaftInv, RaftHeld, RaftKept
    <2>3. QED BY <2>1, <2>2
  <1>5. ASSUME NEW cmd \in net', cmd.op # "expire"
        PROVE  client'[cmd.node].sure <= cmd.left
    <2>1. cmd.node \in Nodes
      BY DEF RaftCommands, RaftFits
    <2>2. CASE cmd.node = n
      BY <1>2, <1>5, <2>2 DEF RaftFits
    <2>3. CASE cmd.node # n
      BY <1>2, <1>5, <2>1, <2>3 DEF RaftFits
    <2>4. QED BY <2>2, <2>3
  <1>6. RaftHeld'
    BY <1>4, <1>5 DEF RaftHeld, RaftFits, RaftKept
  <1>7. RaftTickets' \subseteq T
    <2>1. ASSUME NEW a \in RaftTickets'
          PROVE  a \in T
      <3>1. \/ server'.key # RA!NoKey /\ a = Ticket(server'.key.stamp, server'.key.left)
            \/ \E cmd \in net' : a = Ticket(cmd.stamp, cmd.left)
            \/ \E m \in Nodes : client'[m].op # "idle" /\ a = Ticket(client'[m].stamp, TTL - client'[m].age)
        BY DEF RaftTickets, Ticket
      <3>2. ASSUME NEW m \in Nodes, client'[m].op # "idle"
            PROVE  Ticket(client'[m].stamp, TTL - client'[m].age) \in T
        <4>1. CASE m = n
          BY <1>2, <3>2, <4>1 DEF RaftFits
        <4>2. CASE m # n
          BY <1>2, <3>2, <4>2, RaftTicketPlaces DEF RaftFits
        <4>3. QED BY <4>1, <4>2
      <3>3. QED BY <3>1, <3>2 DEF RaftFits, RaftKept
    <2>2. QED BY <2>1
  <1>8. RaftCoherent'
    BY <1>7 DEF RaftCoherent, CoherentUpTo, RaftFits
  <1>9. QED BY <1>3, <1>6, <1>8 DEF RaftInv

(* What every step may use of the present state.                            *)
LEMMA RaftFacts ==
  ASSUME TTL \in Nat, RaftInv
  PROVE  /\ server \in RaftServers /\ client \in [Nodes -> RaftClients] /\ net \in SUBSET RaftCommands
         /\ CoherentUpTo(RaftTickets, server.stamp)
         /\ \A n \in Nodes : client[n] \in RaftClients /\ client[n].sure \in 0..TTL /\ client[n].age \in 0..TTL
         /\ \A n \in Nodes : client[n].op # "idle" => Ticket(client[n].stamp, TTL - client[n].age) \in RaftTickets
         /\ \A cmd \in net : /\ cmd \in RaftCommands /\ cmd.op # "release"
                             /\ cmd.op # "expire" => client[cmd.node].sure <= cmd.left
                             /\ cmd.op = "expire" => cmd.left = 0
                             /\ Ticket(cmd.stamp, cmd.left) \in RaftTickets
  <1>1. /\ server \in RaftServers /\ client \in [Nodes -> RaftClients] /\ net \in SUBSET RaftCommands
        /\ CoherentUpTo(RaftTickets, server.stamp)
    BY DEF RaftInv, RaftTypeOK, RaftCoherent, CoherentUpTo
  <1>2. \A n \in Nodes : client[n] \in RaftClients /\ client[n].sure \in 0..TTL /\ client[n].age \in 0..TTL
    BY <1>1 DEF RaftClients
  <1>3. \A cmd \in net : /\ cmd \in RaftCommands /\ cmd.op # "release"
                         /\ cmd.op # "expire" => client[cmd.node].sure <= cmd.left
                         /\ cmd.op = "expire" => cmd.left = 0
    BY <1>1 DEF RaftInv, RaftHeld
  <1>4. QED BY <1>1, <1>2, <1>3, RaftTicketPlaces

(* A step that leaves the key alone leaves what the nodes count on.         *)
LEMMA RaftQuiet ==
  ASSUME TTL \in Nat, RaftInv, server'.key = server.key, server' \in RaftServers
  PROVE  RaftKept
  BY RaftTicketPlaces DEF RaftKept, RaftOwnerStep, RaftInv, RaftHeld

(* The command of a call in progress.                                       *)
LEMMA RaftCommand ==
  ASSUME TTL \in Nat, RaftInv, NEW n \in Nodes, client[n].op # "idle",
         NEW cmd, cmd = RA!Command(n)
  PROVE  /\ cmd \in RaftCommands /\ cmd.op = client[n].op /\ cmd.op # "expire" /\ cmd.node = n
         /\ cmd.left = TTL - client[n].age /\ cmd.stamp = client[n].stamp
         /\ Ticket(cmd.stamp, cmd.left) \in RaftTickets /\ client[n].sure <= cmd.left
         /\ cmd.op = "release" => client[n].sure = 0
  <1>1. client[n] \in RaftClients /\ client[n].age \in 0..TTL
    BY RaftFacts
  <1>2. TTL - client[n].age \in 0..TTL
    BY <1>1
  <1>3. /\ cmd \in RaftCommands /\ cmd.op = client[n].op /\ cmd.op # "expire" /\ cmd.node = n
        /\ cmd.left = TTL - client[n].age /\ cmd.stamp = client[n].stamp
    BY <1>1, <1>2 DEF RA!Command, RaftCommands, RaftClients
  <1>4. QED BY <1>3, RaftFacts DEF RaftInv, RaftHeld

(* Loading the cluster and starting a call.                                 *)
LEMMA RaftLoadCall ==
  ASSUME TTL \in Nat, None \notin Nodes, RaftInv, NEW n \in Nodes,
         RA!Load(n) \/ \E op \in {"acquire", "update", "release"} : RA!Call(n, op)
  PROVE  RaftInv' /\ RaftOwnerStep
  <1> DEFINE c == client[n]
  <1>0. /\ c \in RaftClients /\ c.sure \in 0..TTL /\ client \in [Nodes -> RaftClients] /\ c.op = "idle"
        /\ net' = net /\ server.stamp \in Nat
    BY RaftFacts DEF RA!Load, RA!Call, RA!Idle, RaftServers
  <1>1. CASE RA!Load(n)
    <2>1. PICK seen \in {server.key.owner, server.old} : client' = [client EXCEPT ![n].view = seen]
      BY <1>1 DEF RA!Load
    <2> DEFINE d == [c EXCEPT !.view = seen]
    <2>2. seen \in Owners
      BY RaftFacts DEF RaftServers, RaftKeys
    <2>3. client' = [client EXCEPT ![n] = d] /\ server' = server
      BY <1>0, <1>1, <2>1 DEF RA!Load
    <2>4. d \in RaftClients /\ d.op = "idle" /\ d.sure = c.sure
      BY <1>0, <2>2 DEF RaftClients
    <2>5. RaftKept
      BY <2>3, RaftFacts, RaftQuiet
    <2>6. RaftFits(n, d, RaftTickets)
      BY <1>0, <2>3, <2>4, <2>5, RaftFacts DEF RaftKept, RaftFits
    <2> HIDE DEF d
    <2>7. RaftInv'
      BY <2>5, <2>6, RaftClientStep
    <2>8. QED BY <2>5, <2>7 DEF RaftKept
  <1>2. ASSUME NEW op \in {"acquire", "update", "release"}, RA!Call(n, op)
        PROVE  RaftInv' /\ RaftOwnerStep
    <2> DEFINE good == IF op = "release" THEN 0 ELSE c.sure
               stamp == server.stamp + 1
               d == [c EXCEPT !.op = op, !.stamp = stamp, !.age = 0, !.sure = good]
               T == RaftTickets \cup {Ticket(stamp, TTL)}
    <2>1. client' = [client EXCEPT ![n] = d] /\ server' = [server EXCEPT !.stamp = stamp]
      <3>1. client' = [client EXCEPT ![n] = [client[n] EXCEPT
              !.op = op, !.stamp = server.stamp + 1, !.age = 0,
              !.sure = IF op = "release" THEN 0 ELSE client[n].sure]]
        BY <1>2, RaftFacts DEF RA!Call, RaftClients
      <3>2. server' = [server EXCEPT !.stamp = server.stamp + 1]
        BY <1>2 DEF RA!Call
      <3>3. QED BY <3>1, <3>2
    <2>2. /\ good \in 0..TTL /\ 0 \in 0..TTL /\ stamp \in Nat /\ stamp > server.stamp
          /\ good > 0 => good = c.sure
          /\ op = "release" => good = 0
      BY <1>0
    <2> HIDE DEF good, stamp
    <2>3. server' \in RaftServers /\ server'.key = server.key /\ server'.stamp = stamp
      BY <2>1, <2>2, RaftFacts DEF RaftServers
    <2>4. d \in RaftClients /\ d.op = op /\ d.sure = good /\ d.age = 0 /\ d.stamp = stamp
      BY <1>0, <2>2 DEF RaftClients
    <2>5. RaftKept
      BY <2>3, RaftQuiet
    <2>6. CoherentUpTo(T, stamp)
      <3>1. \A a \in RaftTickets : a.stamp < stamp
        <4>1. \A a \in RaftTickets : a.stamp \in Nat /\ a.stamp <= server.stamp
          <5>1. \A a \in RaftTickets : a.stamp <= server.stamp
            BY RaftFacts DEF CoherentUpTo
          <5>2. \A a \in RaftTickets : a.stamp \in Nat
            BY RaftTicketPlaces, RaftFacts DEF Ticket, RaftServers, RaftKeys, RaftClients, RaftCommands
          <5>3. QED BY <5>1, <5>2
        <4>2. QED BY <1>0, <2>2, <4>1
      <3>2. Ticket(stamp, TTL).stamp = stamp /\ Ticket(stamp, TTL).left = TTL
        BY DEF Ticket
      <3>3. \A a, b \in RaftTickets : a.stamp = b.stamp => a.left = b.left
        BY RaftFacts DEF CoherentUpTo
      <3>4. \A a \in RaftTickets : a.stamp \in Nat
        BY RaftTicketPlaces, RaftFacts DEF Ticket, RaftServers, RaftKeys, RaftClients, RaftCommands
      <3>5. QED BY <2>2, <3>1, <3>2, <3>3, <3>4 DEF CoherentUpTo
    <2>7. Ticket(d.stamp, TTL - d.age) \in T
      BY <2>4
    <2>8. /\ d.sure > 0 => server'.key.owner = n /\ d.sure <= server'.key.left
          /\ d.sure <= TTL - d.age
      BY <2>2, <2>4, <2>5 DEF RaftKept
    <2>9. \A cmd \in net : client[cmd.node].sure <= cmd.left /\ cmd.node = n => d.sure <= cmd.left
      BY <2>2, <2>4, RaftFacts DEF RaftCommands
    <2>10. RaftFits(n, d, T)
      BY <1>0, <2>1, <2>2, <2>3, <2>4, <2>6, <2>7, <2>8, <2>9, RaftFacts DEF RaftFits
    <2> HIDE DEF d, T
    <2>12. RaftInv'
      BY <2>5, <2>10, RaftClientStep
    <2>13. QED BY <2>5, <2>12 DEF RaftKept
  <1>3. QED BY <1>1, <1>2

(* A command is committed and answered.                                     *)
LEMMA RaftCommit ==
  ASSUME TTL \in Nat, None \notin Nodes, RaftInv, NEW n \in Nodes, RA!Commit(n)
  PROVE  RaftInv' /\ RaftOwnerStep
  <1> DEFINE c == client[n]
             cmd == RA!Command(n)
             ok == RA!Holds(cmd, server.key)
             d == IF c.op = "release" THEN RA!Finish(c)
                  ELSE IF ok THEN RA!Told(c, TTL - c.age)
                  ELSE IF c.op = "update" /\ server.key = RA!NoKey
                  THEN [RA!Told(c, 0) EXCEPT !.view = None]
                  ELSE RA!Told(c, 0)
  <1>1. /\ c.op # "idle" /\ server' = RA!Applied(cmd) /\ client' = [client EXCEPT ![n] = d]
        /\ net' = net \ RA!Overtaken(n)
    BY DEF RA!Commit, RA!Idle
  <1>2. /\ cmd \in RaftCommands /\ cmd.op = c.op /\ cmd.op # "expire" /\ cmd.node = n
        /\ cmd.left = TTL - c.age /\ cmd.stamp = c.stamp
        /\ Ticket(cmd.stamp, cmd.left) \in RaftTickets /\ c.sure <= cmd.left
        /\ cmd.op = "release" => c.sure = 0
    BY <1>1, RaftCommand
  <1> HIDE DEF cmd
  <1>3. /\ RaftEffect(cmd, server')
        /\ ok /\ cmd.op # "release" =>
             server'.key = [owner |-> cmd.node, stamp |-> cmd.stamp, left |-> cmd.left]
    BY <1>1, <1>2, RaftFacts, RaftApply
  <1>4. RaftKept
    BY <1>2, <1>3, RaftWrite
  <1> HIDE DEF ok
  <1>5. c \in RaftClients /\ c.sure \in 0..TTL /\ c.age \in 0..TTL /\ TTL - c.age \in 0..TTL /\ 0 \in 0..TTL
    BY RaftFacts
  <1>6. /\ d \in RaftClients /\ d.op = "idle"
        /\ c.op # "release" /\ ok => d.sure = TTL - c.age
        /\ ~(c.op # "release" /\ ok) => d.sure = 0 \/ (c.op = "release" /\ d.sure = c.sure)
    <2>1. /\ RA!Finish(c) \in RaftClients /\ RA!Finish(c).op = "idle" /\ RA!Finish(c).sure = c.sure
      BY <1>5 DEF RA!Finish, RaftClients
    <2>2. ASSUME NEW good \in 0..TTL
          PROVE  /\ RA!Told(c, good) \in RaftClients /\ RA!Told(c, good).op = "idle"
                 /\ RA!Told(c, good).sure = good
      BY <2>1 DEF RA!Told, RaftClients
    <2>3. LET e == [RA!Told(c, 0) EXCEPT !.view = None] IN
          e \in RaftClients /\ e.op = "idle" /\ e.sure = 0
      BY <1>5, <2>2 DEF RaftClients, Owners
    <2>4. QED BY <1>5, <2>1, <2>2, <2>3
  <1> HIDE DEF d
  <1>7. d.sure > 0 => server'.key.owner = n /\ d.sure <= server'.key.left
    <2>1. CASE c.op # "release" /\ ok
      <3>1. server'.key.owner = n /\ server'.key.left = TTL - c.age
        BY <1>2, <1>3, <2>1
      <3>2. QED BY <1>5, <1>6, <2>1, <3>1
    <2>2. CASE ~(c.op # "release" /\ ok)
      BY <1>2, <1>6, <2>2
    <2>3. QED BY <2>1, <2>2
  <1>8. \A e \in net' : e \in net /\ (e.op = "expire" \/ e.node # n)
    BY <1>1 DEF RA!Overtaken
  <1>9. server'.stamp = server.stamp
    BY <1>3 DEF RaftEffect
  <1>10. RaftFits(n, d, RaftTickets)
    BY <1>1, <1>6, <1>7, <1>8, <1>9, RaftFacts DEF RaftFits
  <1>11. RaftInv'
    BY <1>4, <1>10, RaftClientStep
  <1>12. QED BY <1>4, <1>11 DEF RaftKept

(* A command is given up by its caller, committed or not.                   *)
LEMMA RaftUnanswered ==
  ASSUME TTL \in Nat, None \notin Nodes, RaftInv, NEW n \in Nodes, RA!Unanswered(n)
  PROVE  RaftInv' /\ RaftOwnerStep
  <1> DEFINE c == client[n]
             cmd == RA!Command(n)
  <1>1. /\ c.op # "idle" /\ (client' = client \/ client' = [client EXCEPT ![n] = RA!Finish(c)])
        /\ \/ server' = server /\ net' = net
           \/ server' = RA!Applied(cmd) /\ net' = net \ RA!Overtaken(n)
           \/ c.op # "release" /\ net' = net \cup {cmd} /\ server' = server
    BY DEF RA!Unanswered, RA!Idle
  <1>2. /\ cmd \in RaftCommands /\ cmd.op = c.op /\ cmd.op # "expire" /\ cmd.node = n
        /\ cmd.left = TTL - c.age /\ cmd.stamp = c.stamp
        /\ Ticket(cmd.stamp, cmd.left) \in RaftTickets /\ c.sure <= cmd.left
        /\ cmd.op = "release" => c.sure = 0
    BY <1>1, RaftCommand
  <1> HIDE DEF cmd
  <1>3. RaftKept /\ server'.stamp = server.stamp
    <2>1. CASE server' = server
      BY <2>1, RaftFacts, RaftQuiet
    <2>2. CASE server' = RA!Applied(cmd)
      <3>1. RaftEffect(cmd, server')
        BY <1>2, <2>2, RaftFacts, RaftApply
      <3>2. QED BY <1>2, <3>1, RaftWrite DEF RaftEffect
    <2>3. QED BY <1>1, <2>1, <2>2
  <1>4. \A e \in net' : e \in net \/ (e = cmd /\ c.op # "release")
    BY <1>1
  <1>5. c \in RaftClients /\ c.sure \in 0..TTL /\ c.age \in 0..TTL
    BY RaftFacts
  <1>6. \E d \in {c, RA!Finish(c)} : client' = [client EXCEPT ![n] = d]
    BY <1>1, RaftFacts
  <1>7. PICK d \in {c, RA!Finish(c)} : client' = [client EXCEPT ![n] = d]
    BY <1>6
  <1>8. d \in RaftClients /\ d.sure = c.sure /\ (d = c \/ d.op = "idle")
    <2>1. 0 \in 0..TTL
      OBVIOUS
    <2>2. RA!Finish(c) \in RaftClients /\ RA!Finish(c).op = "idle" /\ RA!Finish(c).sure = c.sure
      BY <1>5, <2>1 DEF RA!Finish, RaftClients
    <2>3. QED BY <1>5, <2>2
  <1>9. /\ d.sure > 0 => server'.key.owner = n /\ d.sure <= server'.key.left
        /\ d.op = "release" => d.sure = 0
        /\ d.op # "idle" => d.sure <= TTL - d.age /\ Ticket(d.stamp, TTL - d.age) \in RaftTickets
    BY <1>2, <1>3, <1>8, RaftFacts DEF RaftKept
  <1>10. /\ net' \in SUBSET RaftCommands
         /\ \A e \in net' : /\ e.op # "release" /\ Ticket(e.stamp, e.left) \in RaftTickets
                            /\ e.op # "expire" /\ e.node = n => d.sure <= e.left
                            /\ e.op # "expire" /\ e.node # n => client[e.node].sure <= e.left
                            /\ e.op = "expire" => e.left = 0
    BY <1>2, <1>4, <1>8, RaftFacts
  <1>11. CoherentUpTo(RaftTickets, server'.stamp)
    BY <1>3, RaftFacts
  <1>12. RaftFits(n, d, RaftTickets)
    BY <1>7, <1>8, <1>9, <1>10, <1>11 DEF RaftFits
  <1>13. RaftInv'
    BY <1>3, <1>12, RaftClientStep
  <1>14. QED BY <1>3, <1>13 DEF RaftKept

(* Steps of the cluster that no node takes part in.                         *)
LEMMA RaftClusterStep ==
  ASSUME TTL \in Nat, None \notin Nodes, RaftInv, RaftKept, client' = client, server'.stamp = server.stamp,
         net' \in SUBSET RaftCommands,
         \A e \in net' : /\ e.op # "release" /\ Ticket(e.stamp, e.left) \in RaftTickets
                         /\ e.op # "expire" => client[e.node].sure <= e.left
                         /\ e.op = "expire" => e.left = 0
  PROVE  RaftInv' /\ RaftOwnerStep
  <1>1. RaftTypeOK'
    BY RaftFacts DEF RaftTypeOK, RaftKept
  <1>2. RaftHeld'
    BY DEF RaftKept, RaftInv, RaftHeld
  <1>3. RaftTickets' \subseteq RaftTickets
    <2>1. ASSUME NEW a \in RaftTickets'
          PROVE  a \in RaftTickets
      <3>1. \/ server'.key # RA!NoKey /\ a = Ticket(server'.key.stamp, server'.key.left)
            \/ \E cmd \in net' : a = Ticket(cmd.stamp, cmd.left)
            \/ \E m \in Nodes : client'[m].op # "idle" /\ a = Ticket(client'[m].stamp, TTL - client'[m].age)
        BY DEF RaftTickets, Ticket
      <3>2. QED BY <3>1, RaftTicketPlaces DEF RaftKept
    <2>2. QED BY <2>1
  <1>4. RaftCoherent'
    BY <1>3, RaftFacts DEF RaftCoherent, CoherentUpTo
  <1>5. QED BY <1>1, <1>2, <1>4 DEF RaftInv, RaftKept

(* A command is committed after its caller has given up.                    *)
LEMMA RaftCommitLate ==
  ASSUME TTL \in Nat, None \notin Nodes, RaftInv, RA!CommitLate
  PROVE  RaftInv' /\ RaftOwnerStep
  <1>1. PICK cmd \in net : /\ cmd.op # "expire" /\ server' = RA!Applied(cmd) /\ net' = net \ {cmd}
                           /\ client' = client
    BY DEF RA!CommitLate
  <1>2. /\ cmd \in RaftCommands /\ cmd.op # "release" /\ client[cmd.node].sure <= cmd.left
        /\ Ticket(cmd.stamp, cmd.left) \in RaftTickets
    BY <1>1, RaftFacts
  <1>3. RaftEffect(cmd, server')
    BY <1>1, <1>2, RaftFacts, RaftApply
  <1>4. RaftKept /\ server'.stamp = server.stamp
    BY <1>2, <1>3, RaftWrite DEF RaftEffect
  <1>5. /\ net' \in SUBSET RaftCommands
        /\ \A e \in net' : /\ e.op # "release" /\ Ticket(e.stamp, e.left) \in RaftTickets
                           /\ e.op # "expire" => client[e.node].sure <= e.left
                           /\ e.op = "expire" => e.left = 0
    BY <1>1, RaftFacts
  <1>6. QED BY <1>1, <1>4, <1>5, RaftClusterStep

(* A value is found expired: it has no time left, so neither has any other  *)
(* occurrence of it.                                                        *)
LEMMA RaftExpireKeys ==
  ASSUME TTL \in Nat, None \notin Nodes, Skew = 0, RaftInv, RA!ExpireKeys
  PROVE  RaftInv' /\ RaftOwnerStep
  <1> DEFINE cmd == [op |-> "expire", node |-> server.key.owner, stamp |-> server.key.stamp, left |-> 0]
  <1>1. /\ server.key # RA!NoKey /\ server.key.left <= 0 /\ net' = net \cup {cmd}
        /\ server' = server /\ client' = client
    BY DEF RA!ExpireKeys
  <1>2. server.key \in RaftKeys /\ server.key.owner # None /\ server.key.left = 0
    <2>1. server.key \in RaftKeys /\ server.key.left \in Nat
      BY RaftFacts DEF RaftServers, RaftKeys
    <2>2. QED BY <1>1, <2>1 DEF RaftInv, RaftHeld
  <1>3. /\ cmd \in RaftCommands /\ Ticket(cmd.stamp, cmd.left) \in RaftTickets /\ cmd.op = "expire" /\ cmd.left = 0
    <2>1. Ticket(server.key.stamp, 0) \in RaftTickets
      BY <1>1, <1>2, RaftTicketPlaces
    <2>2. QED BY <1>2, <2>1 DEF RaftCommands, RaftKeys, Owners
  <1> HIDE DEF cmd
  <1>4. RaftKept
    BY <1>1, RaftFacts, RaftQuiet
  <1>5. /\ net' \in SUBSET RaftCommands
        /\ \A e \in net' : /\ e.op # "release" /\ Ticket(e.stamp, e.left) \in RaftTickets
                           /\ e.op # "expire" => client[e.node].sure <= e.left
                           /\ e.op = "expire" => e.left = 0
    BY <1>1, <1>3, RaftFacts
  <1>6. QED BY <1>1, <1>4, <1>5, RaftClusterStep

(* The leader of the log removes a key that has expired.                    *)
LEMMA RaftExpire ==
  ASSUME TTL \in Nat, None \notin Nodes, RaftInv, RA!Expire
  PROVE  RaftInv' /\ RaftOwnerStep
  <1>1. PICK cmd \in net :
          /\ cmd.op = "expire" /\ net' = net \ {cmd} /\ client' = client
          /\ server' = IF server.key.stamp = cmd.stamp THEN RA!Store(server, RA!NoKey) ELSE server
    BY DEF RA!Expire
  <1>2. /\ net' \in SUBSET RaftCommands
        /\ \A e \in net' : /\ e.op # "release" /\ Ticket(e.stamp, e.left) \in RaftTickets
                           /\ e.op # "expire" => client[e.node].sure <= e.left
                           /\ e.op = "expire" => e.left = 0
    BY <1>1, RaftFacts
  <1>3. CASE server.key.stamp = cmd.stamp
    <2> DEFINE old == IF server.key.owner = RA!NoKey.owner THEN server.old ELSE server.key.owner
    <2>1. server' = [server EXCEPT !.key = RA!NoKey, !.old = old]
      BY <1>1, <1>3 DEF RA!Store
    <2>2. RA!NoKey \in RaftKeys /\ old \in Owners /\ RA!NoKey.owner = None
      BY RaftFacts DEF RaftServers, RaftKeys, RA!NoKey, Owners
    <2> HIDE DEF old
    <2>3. server' \in RaftServers /\ server'.key = RA!NoKey /\ server'.stamp = server.stamp
      BY <2>1, <2>2, RaftFacts DEF RaftServers
    <2>4. \A m \in Nodes : ~(client[m].sure > 0)
      <3>1. CASE server.key = RA!NoKey
        BY <2>2, <3>1 DEF RaftInv, RaftHeld
      <3>2. CASE server.key # RA!NoKey
        <4>1. /\ Ticket(server.key.stamp, server.key.left) \in RaftTickets
              /\ Ticket(cmd.stamp, cmd.left) \in RaftTickets /\ cmd.left = 0
          BY <1>1, <3>2, RaftFacts, RaftTicketPlaces
        <4>2. server.key.left = 0
          BY <1>3, <4>1, RaftFacts DEF CoherentUpTo, Ticket
        <4>3. \A m \in Nodes : client[m].sure \in 0..TTL /\ (client[m].sure > 0 => client[m].sure <= 0)
          BY <4>2, RaftFacts DEF RaftInv, RaftHeld
        <4>4. QED BY <4>3
      <3>3. QED BY <3>1, <3>2
    <2>5. RaftKept
      BY <2>2, <2>3, <2>4 DEF RaftKept, RaftOwnerStep
    <2>6. QED BY <1>1, <1>2, <2>3, <2>5, RaftClusterStep
  <1>4. CASE server.key.stamp # cmd.stamp
    <2>1. server' = server
      BY <1>1, <1>4
    <2>2. RaftKept
      BY <2>1, RaftFacts, RaftQuiet
    <2>3. QED BY <1>1, <1>2, <2>1, <2>2, RaftClusterStep
  <1>5. QED BY <1>3, <1>4

(* Time passes alike for the key, the commands, the calls and the answers.  *)
LEMMA RaftTick ==
  ASSUME TTL \in Nat, None \notin Nodes, RaftInv, RA!Tick
  PROVE  RaftInv' /\ RaftOwnerStep
  <1> DEFINE less(x) == IF x = 0 THEN 0 ELSE x - 1
  <1>1. server.key \in RaftKeys /\ server.key.left \in 0..TTL /\ server.stamp \in Nat
    BY RaftFacts DEF RaftServers, RaftKeys
  <1>2. \A x \in 0..TTL : RA!Less(x) = less(x) /\ less(x) \in 0..TTL
    BY DEF RA!Less
  <1>3. /\ server' \in RaftServers /\ server'.stamp = server.stamp
        /\ server'.key.owner = server.key.owner /\ server'.key.stamp = server.key.stamp
        /\ server'.key.left = less(server.key.left)
    <2> DEFINE left == RA!Less(server.key.left)
               key == [server.key EXCEPT !.left = left]
    <2>1. server' = [server EXCEPT !.key = key]
      BY <1>1, RaftFacts DEF RA!Tick, RaftServers
    <2>2. left \in 0..TTL /\ left = less(server.key.left)
      BY <1>1, <1>2
    <2> HIDE DEF left
    <2>3. /\ key \in RaftKeys /\ key.owner = server.key.owner /\ key.stamp = server.key.stamp
          /\ key.left = left
      BY <1>1, <2>2 DEF RaftKeys
    <2> HIDE DEF key
    <2>4. server' \in RaftServers /\ server'.stamp = server.stamp /\ server'.key = key
      BY <2>1, <2>3, RaftFacts DEF RaftServers
    <2>5. QED BY <2>2, <2>3, <2>4
  <1>4. server'.key # RA!NoKey => server.key # RA!NoKey
    <2>1. CASE server.key = RA!NoKey
      <3>1. server'.key \in RaftKeys /\ server'.key.owner = None /\ server'.key.stamp = 0 /\ server'.key.left = 0
        BY <1>3, <2>1 DEF RA!NoKey, RaftServers
      <3>2. QED BY <3>1 DEF RaftKeys, RA!NoKey
    <2>2. QED BY <2>1
  <1>5. server'.key.owner = None => server'.key = RA!NoKey
    <2>1. CASE server.key.owner = None
      <3>1. server.key = RA!NoKey
        BY <2>1 DEF RaftInv, RaftHeld
      <3>2. server'.key \in RaftKeys /\ server'.key.owner = None /\ server'.key.stamp = 0 /\ server'.key.left = 0
        BY <1>3, <3>1 DEF RA!NoKey, RaftServers
      <3>3. QED BY <3>2 DEF RaftKeys, RA!NoKey
    <2>2. QED BY <1>3, <2>1
  <1>6. ASSUME NEW n \in Nodes
        PROVE  /\ client'[n] \in RaftClients /\ client'[n].sure = less(client[n].sure)
               /\ client'[n].op = client[n].op /\ client'[n].stamp = client[n].stamp
               /\ client[n].op # "idle" => client'[n].age = client[n].age + 1 /\ client[n].age < TTL
    <2> DEFINE c == client[n]
               age == IF c.op = "idle" THEN 0 ELSE c.age + 1
               sure == RA!Less(c.sure)
    <2>1. client'[n] = [c EXCEPT !.sure = sure, !.age = age] /\ (c.op = "idle" \/ c.age < TTL)
      BY DEF RA!Tick, RA!Idle
    <2>2. c \in RaftClients /\ c.age \in 0..TTL /\ c.sure \in 0..TTL
      BY RaftFacts
    <2>3. /\ age \in 0..TTL /\ sure \in 0..TTL /\ sure = less(c.sure)
          /\ c.op # "idle" => age = c.age + 1
      BY <1>2, <2>1, <2>2
    <2> HIDE DEF age, sure
    <2>4. QED BY <2>1, <2>2, <2>3 DEF RaftClients
  <1>7. ASSUME NEW cmd \in net'
        PROVE  \E e \in net : /\ cmd.op = e.op /\ cmd.node = e.node /\ cmd.stamp = e.stamp
                              /\ cmd.left = less(e.left) /\ cmd \in RaftCommands
    <2>1. PICK e \in net : cmd = [e EXCEPT !.left = RA!Less(e.left)]
      BY DEF RA!Tick
    <2>2. e \in RaftCommands /\ e.left \in 0..TTL
      BY RaftFacts DEF RaftCommands
    <2>3. RA!Less(e.left) \in 0..TTL /\ RA!Less(e.left) = less(e.left)
      BY <1>2, <2>2
    <2>4. cmd \in RaftCommands /\ cmd.op = e.op /\ cmd.node = e.node /\ cmd.stamp = e.stamp /\ cmd.left = RA!Less(e.left)
      BY <2>1, <2>2, <2>3 DEF RaftCommands
    <2>5. QED BY <2>3, <2>4
  <1>8. RaftTypeOK'
    <2>1. client' = [n \in Nodes |-> client'[n]]
      BY DEF RA!Tick
    <2>2. client' \in [Nodes -> RaftClients]
      BY <1>6, <2>1
    <2>3. QED BY <1>3, <1>7, <2>2 DEF RaftTypeOK
  <1>9. RaftHeld'
    <2>1. ASSUME NEW n \in Nodes
          PROVE  /\ client'[n].sure > 0 => server'.key.owner = n /\ client'[n].sure <= server'.key.left
                 /\ client'[n].op = "release" => client'[n].sure = 0
                 /\ client'[n].op # "idle" => client'[n].sure <= TTL - client'[n].age
      <3>1. client[n].sure \in 0..TTL /\ client[n].age \in 0..TTL
        BY RaftFacts
      <3>2. /\ client[n].sure > 0 => server.key.owner = n /\ client[n].sure <= server.key.left
            /\ client[n].op = "release" => client[n].sure = 0
            /\ client[n].op # "idle" => client[n].sure <= TTL - client[n].age
        BY DEF RaftInv, RaftHeld
      <3>3. QED BY <1>1, <1>3, <1>6, <3>1, <3>2
    <2>2. ASSUME NEW cmd \in net'
          PROVE  /\ cmd.op # "release"
                 /\ cmd.op # "expire" => client'[cmd.node].sure <= cmd.left
                 /\ cmd.op = "expire" => cmd.left = 0
      <3>1. PICK e \in net : /\ cmd.op = e.op /\ cmd.node = e.node /\ cmd.left = less(e.left)
        BY <1>7
      <3>2. /\ e.node \in Nodes /\ e.left \in 0..TTL /\ e.op # "release"
            /\ e.op # "expire" => client[e.node].sure <= e.left
            /\ e.op = "expire" => e.left = 0
        BY RaftFacts DEF RaftCommands
      <3>3. client[e.node].sure \in 0..TTL /\ client'[e.node].sure = less(client[e.node].sure)
        BY <1>6, <3>2, RaftFacts
      <3>4. QED BY <3>1, <3>2, <3>3
    <2>3. QED BY <1>5, <2>1, <2>2 DEF RaftHeld
  <1>10. \A a \in RaftTickets' : \E b \in RaftTickets : a.stamp = b.stamp /\ a.left = less(b.left)
    <2>1. ASSUME NEW a \in RaftTickets'
          PROVE  \E b \in RaftTickets : a.stamp = b.stamp /\ a.left = less(b.left)
      <3>1. \/ server'.key # RA!NoKey /\ a = Ticket(server'.key.stamp, server'.key.left)
            \/ \E cmd \in net' : a = Ticket(cmd.stamp, cmd.left)
            \/ \E m \in Nodes : client'[m].op # "idle" /\ a = Ticket(client'[m].stamp, TTL - client'[m].age)
        BY DEF RaftTickets, Ticket
      <3>2. CASE server'.key # RA!NoKey /\ a = Ticket(server'.key.stamp, server'.key.left)
        <4>1. Ticket(server.key.stamp, server.key.left) \in RaftTickets
          BY <1>4, <3>2, RaftTicketPlaces
        <4>2. QED BY <1>3, <3>2, <4>1 DEF Ticket
      <3>3. CASE \E cmd \in net' : a = Ticket(cmd.stamp, cmd.left)
        <4>1. PICK e \in net : a.stamp = e.stamp /\ a.left = less(e.left)
          BY <1>7, <3>3 DEF Ticket
        <4>2. Ticket(e.stamp, e.left) \in RaftTickets
          BY RaftTicketPlaces
        <4>3. QED BY <4>1, <4>2 DEF Ticket
      <3>4. CASE \E m \in Nodes : client'[m].op # "idle" /\ a = Ticket(client'[m].stamp, TTL - client'[m].age)
        <4>1. PICK m \in Nodes : client'[m].op # "idle" /\ a = Ticket(client'[m].stamp, TTL - client'[m].age)
          BY <3>4
        <4>2. /\ client[m].op # "idle" /\ client[m].age \in 0..TTL /\ client[m].age < TTL
              /\ client'[m].age = client[m].age + 1 /\ client'[m].stamp = client[m].stamp
          BY <1>6, <4>1, RaftFacts
        <4>3. Ticket(client[m].stamp, TTL - client[m].age) \in RaftTickets
          BY <4>2, RaftTicketPlaces
        <4>4. TTL - client'[m].age = less(TTL - client[m].age)
          BY <4>2
        <4>5. QED BY <4>1, <4>2, <4>3, <4>4 DEF Ticket
      <3>5. QED BY <3>1, <3>2, <3>3, <3>4
    <2>2. QED BY <2>1
  <1>11. RaftCoherent'
    BY <1>3, <1>10, RaftFacts DEF RaftCoherent, CoherentUpTo
  <1>12. QED BY <1>3, <1>8, <1>9, <1>11 DEF RaftInv, RaftOwnerStep

(* Raft starts in its invariant and with a free key.                        *)
LEMMA RaftStart ==
  ASSUME TTL \in Nat, RA!Init
  PROVE  RaftInv /\ RA!Contract!KeyInit
  <1>1. 0 \in 0..TTL
    OBVIOUS
  <1>2. RaftTypeOK
    BY <1>1 DEF RA!Init, RaftTypeOK, RaftServers, RaftKeys, RaftClients, Owners, RA!NoKey
  <1>3. RaftHeld
    BY DEF RA!Init, RaftHeld, RA!NoKey
  <1>4. RaftTickets = {}
    BY DEF RA!Init, RaftTickets
  <1>5. RaftCoherent
    BY <1>4 DEF RaftCoherent
  <1>6. RA!Contract!KeyInit
    BY DEF RA!Init, RA!Contract!KeyInit, RA!Owner, RA!Sure, RA!NoKey
  <1>7. QED BY <1>2, <1>3, <1>5, <1>6 DEF RaftInv

(* Every step of Raft keeps the invariant and is a step of LeaderKey.       *)
LEMMA RaftStep ==
  ASSUME TTL \in Nat, None \notin Nodes, Skew = 0, RaftInv, [RA!Next]_(RA!vars)
  PROVE  RaftInv' /\ [RA!Contract!KeyNext]_(RA!Contract!keyVars)
  <1>1. CASE UNCHANGED RA!vars
    BY <1>1 DEF RA!vars, RA!Contract!keyVars, RA!Owner, RA!Sure,
                RaftInv, RaftTypeOK, RaftHeld, RaftCoherent, RaftTickets
  <1>2. CASE RA!Next
    <2>1. RaftInv' /\ RaftOwnerStep
      BY <1>2, RaftLoadCall, RaftCommit, RaftUnanswered, RaftCommitLate, RaftExpireKeys, RaftExpire, RaftTick
         DEF RA!Next
    <2>2. server'.key.owner \in Owners /\ RA!Sure' \subseteq {server'.key.owner} /\ RA!Sure' \subseteq Nodes
      BY <2>1 DEF RaftInv, RaftTypeOK, RaftHeld, RaftServers, RaftKeys, RA!Sure
    <2>3. RA!Contract!KeyNext
      <3>1. CASE server'.key.owner = None
        BY <2>2, <3>1 DEF RA!Contract!KeyNext, RA!Contract!Free, RA!Owner
      <3>2. CASE server'.key.owner \in Nodes /\ server.key.owner = None
        BY <2>2, <3>2 DEF RA!Contract!KeyNext, RA!Contract!Acquire, RA!Owner
      <3>3. CASE server'.key.owner \in Nodes /\ server.key.owner = server'.key.owner /\ RA!Sure' = {}
        BY <3>3 DEF RA!Contract!KeyNext, RA!Contract!Doubt, RA!Owner
      <3>4. CASE server'.key.owner \in Nodes /\ server.key.owner = server'.key.owner /\ RA!Sure' # {}
        BY <2>2, <3>4 DEF RA!Contract!KeyNext, RA!Contract!Confirm, RA!Owner
      <3>5. QED BY <2>1, <2>2, <3>1, <3>2, <3>3, <3>4 DEF RaftOwnerStep, Owners
    <2>4. QED BY <2>1, <2>3
  <1>3. QED BY <1>1, <1>2

(* The KVStoreTTL of Raft implements LeaderKey, with repeated and late      *)
(* commands and expirations decided on one replica and applied later, if no *)
(* clock is ahead of the writer's.                                          *)
THEOREM RaftKey ==
  ASSUME TTL \in Nat, None \notin Nodes, Skew = 0
  PROVE  RA!Spec => RA!KeyImplemented
  <1>1. RA!Init => RaftInv /\ RA!Contract!KeyInit
    BY RaftStart
  <1>2. RaftInv /\ [RA!Next]_(RA!vars) => RaftInv' /\ [RA!Contract!KeyNext]_(RA!Contract!keyVars)
    BY RaftStep
  <1>3. QED BY <1>1, <1>2, PTL DEF RA!Spec, RA!KeyImplemented, RA!Contract!KeySpec

-----------------------------------------------------------------------------
(* Kubernetes.  A step writes the object, changes the record of a node or   *)
(* changes what is in flight; the invariant takes the three as parameters,  *)
(* so that each of these can be looked at alone.                            *)

KubeRecords == [owner : Owners, stamp : Nat]
KubeKinds == [owner : Owners, stamp : Nat, rev : Nat]
KubeServers == [kind : KubeKinds, past : SUBSET KubeKinds, stamp : Nat, left : 0..TTL]
Sending == {"acquire", "update", "repatch", "release", "optime"}
KubeCalls == [op : Sending \cup {"idle", "reacquire", "reread"}, rev : Nat, stamp : Nat, age : 0..TTL]
KubeClients == [call : KubeCalls, view : Owners \cup {KU!Unknown}, rev : Nat, seen : KubeRecords,
                wait : 0..TTL, sure : 0..TTL]
KubeRequests == [node : Nodes, op : Sending, rev : Nat, stamp : Nat]

(* The versions of the object so far: one per resource_version.             *)
KubeVersions(s) ==
  /\ s.kind \in s.past
  /\ \A k \in s.past : /\ k.rev <= s.kind.rev /\ k.stamp <= s.stamp
                       /\ k.rev = s.kind.rev => k = s.kind
                       /\ k.rev = 0 => k.owner = None

(* The node n has put the stamp of a call on the object.                    *)
Published(s, n, stamp) == \E k \in s.past : k.owner = n /\ k.stamp = stamp

KubeRenews(op) == op \in {"acquire", "update", "repatch"}

(* A request of a node that is sure for that long.  If it would still be    *)
(* accepted, it was sent upon the present version of the object, and that   *)
(* version allows what it does.                                             *)
KubeRequestOK(s, sure, req) ==
  /\ req.rev <= s.kind.rev /\ req.stamp <= s.stamp
  /\ req.rev = s.kind.rev =>
       /\ req.op = "acquire" => s.kind.owner = None \/ s.left = 0
       /\ req.op \in {"update", "repatch"} => s.kind.owner \in {req.node, None}
       /\ req.op = "release" => s.kind.owner = req.node /\ sure = 0 /\ s.kind.stamp < req.stamp
       /\ KubeRenews(req.op) => ~Published(s, req.node, req.stamp)

(* The call of a node: if its stamp is on the object then it was put there  *)
(* no earlier than the call began; once it was published no older request   *)
(* of the node can put another one in its place.                            *)
KubeCallOK(s, flight, n, call) ==
  /\ call.stamp <= s.stamp
  /\ s.kind.owner = n /\ s.kind.stamp = call.stamp => s.left >= TTL - call.age
  /\ Published(s, n, call.stamp) =>
       /\ s.kind.owner = n => s.kind.stamp = call.stamp
       /\ \A req \in flight : req.node = n /\ KubeRenews(req.op) => req.rev # s.kind.rev
  /\ call.op # "release" =>
       \A req \in flight : req.node = n /\ req.op = "release" => req.stamp < call.stamp

KubeRequest(n, call) == [node |-> n, op |-> call.op, rev |-> call.rev, stamp |-> call.stamp]

(* A node is sure only while the object names it and others must wait; who  *)
(* has seen the present record waits at least as long.  What a node has     *)
(* loaded is a version that existed, and it takes the key for free if that  *)
(* version says so or if it has waited long enough.                         *)
KubeNodeOK(s, flight, n, c) ==
  /\ c.sure > 0 => s.kind.owner = n /\ c.sure <= s.left
  /\ c.seen = KU!Record(s.kind) => c.wait >= s.left
  /\ \E k \in s.past : KU!Record(k) = c.seen
  /\ c.view # KU!Unknown => /\ \E k \in s.past : k.rev = c.rev /\ KU!Record(k) = c.seen
                            /\ c.view = None => c.seen.owner = None \/ c.wait = 0
  /\ c.call.op \in Sending => KubeRequestOK(s, c.sure, KubeRequest(n, c.call))
  /\ c.call.op # "idle" => KubeCallOK(s, flight, n, c.call)

KubeOK(s, cl, flight) ==
  /\ s \in KubeServers /\ cl \in [Nodes -> KubeClients] /\ flight \in SUBSET KubeRequests
  /\ KubeVersions(s)
  /\ \A n \in Nodes : KubeNodeOK(s, flight, n, cl[n])
  /\ \A req \in flight : KubeRequestOK(s, cl[req.node].sure, req)

KubeInv == KubeOK(server, client, net)

(* Who holds the key, as KU!Owner says of the present state.                *)
KubeOwner(s) == IF s.left > 0 THEN s.kind.owner ELSE None
KubeOwnerStep(s, t) == KubeOwner(t) \in {KubeOwner(s), None} \/ KubeOwner(s) = None

(* What an accepted request makes of the object.                            *)
KubeEffect(req, s, t) ==
  /\ t \in KubeServers /\ t.stamp = s.stamp /\ t.past = s.past \cup {t.kind} /\ t.kind.rev = s.kind.rev + 1
  /\ KubeRenews(req.op) => /\ req.rev = s.kind.rev /\ t.left = TTL
                           /\ t.kind.owner = req.node /\ t.kind.stamp = req.stamp
  /\ req.op = "release" => /\ req.rev = s.kind.rev /\ t.left = 0
                           /\ t.kind.owner = None /\ t.kind.stamp = s.kind.stamp
  /\ req.op = "optime" => /\ t.left = s.left /\ s.kind.rev # 0
                          /\ t.kind.owner = s.kind.owner /\ t.kind.stamp = s.kind.stamp

(* What a write the API server accepts changes.                             *)
LEMMA KubeWritten ==
  ASSUME TTL \in Nat, server \in KubeServers, NEW req \in KubeRequests
  PROVE  /\ KU!Written(req) = server \/ (KU!Accepts(req) /\ KubeEffect(req, server, KU!Written(req)))
         /\ KU!Accepts(req) /\ server.kind.rev < MaxRev => KubeEffect(req, server, KU!Written(req))
  <1> DEFINE owner == CASE req.op = "release" -> None [] req.op = "optime" -> server.kind.owner
                        [] OTHER -> req.node
             stamp == IF req.op \in {"release", "optime"} THEN server.kind.stamp ELSE req.stamp
             kind == [owner |-> owner, stamp |-> stamp, rev |-> server.kind.rev + 1]
             left == CASE req.op = "release" -> 0 [] req.op = "optime" -> server.left [] OTHER -> TTL
             past == server.past \cup {kind}
  <1>1. KU!Written(req) = IF KU!Accepts(req) /\ server.kind.rev < MaxRev
                          THEN [server EXCEPT !.kind = kind, !.past = past, !.left = left] ELSE server
    BY DEF KU!Written
  <1>2. /\ server.kind \in KubeKinds /\ server.kind.owner \in Owners /\ server.kind.stamp \in Nat
        /\ server.kind.rev \in Nat /\ server.left \in 0..TTL /\ server.past \in SUBSET KubeKinds
    BY DEF KubeServers, KubeKinds
  <1>3. req.op \in Sending /\ req.node \in Nodes /\ req.stamp \in Nat
    BY DEF KubeRequests
  <1>4. /\ KubeRenews(req.op) => owner = req.node /\ stamp = req.stamp /\ left = TTL
        /\ req.op = "release" => owner = None /\ stamp = server.kind.stamp /\ left = 0
        /\ req.op = "optime" => owner = server.kind.owner /\ stamp = server.kind.stamp /\ left = server.left
    BY <1>3 DEF KubeRenews, Sending
  <1>5. KubeRenews(req.op) \/ req.op = "release" \/ req.op = "optime"
    BY <1>3 DEF KubeRenews, Sending
  <1>6. owner \in Owners /\ stamp \in Nat /\ left \in 0..TTL
    BY <1>2, <1>3, <1>4, <1>5 DEF Owners
  <1> HIDE DEF owner, stamp, left
  <1>7. kind \in KubeKinds /\ kind.owner = owner /\ kind.stamp = stamp /\ kind.rev = server.kind.rev + 1
    BY <1>2, <1>6 DEF KubeKinds
  <1> HIDE DEF kind
  <1>8. CASE KU!Accepts(req) /\ server.kind.rev < MaxRev
    <2> DEFINE t == KU!Written(req)
    <2>1. t = [server EXCEPT !.kind = kind, !.past = past, !.left = left]
      BY <1>1, <1>8
    <2>2. past \in SUBSET KubeKinds
      BY <1>2, <1>7
    <2> HIDE DEF t, past
    <2>3. t \in KubeServers /\ t.kind = kind /\ t.past = past /\ t.left = left /\ t.stamp = server.stamp
      BY <1>6, <1>7, <2>1, <2>2 DEF KubeServers
    <2>4. /\ req.op = "optime" => server.kind.rev # 0
          /\ req.op # "optime" => req.rev = server.kind.rev
      BY <1>8 DEF KU!Accepts
    <2>5. KubeEffect(req, server, t)
      BY <1>4, <1>7, <2>3, <2>4 DEF KubeEffect, KubeRenews, past
    <2>6. QED BY <1>8, <2>5 DEF t
  <1>9. QED BY <1>1, <1>8

(* What KubeOK says of the parts, in a form the provers can use.            *)
LEMMA KubeFacts ==
  ASSUME TTL \in Nat, NEW s, NEW cl, NEW flight, KubeOK(s, cl, flight)
  PROVE  /\ s.kind \in KubeKinds /\ s.kind.owner \in Owners /\ s.kind.stamp \in Nat /\ s.kind.rev \in Nat
         /\ s.past \in SUBSET KubeKinds /\ s.stamp \in Nat /\ s.left \in 0..TTL
         /\ \A k \in s.past : k.owner \in Owners /\ k.stamp \in Nat /\ k.rev \in Nat
         /\ \A n \in Nodes : /\ cl[n] \in KubeClients /\ cl[n].call \in KubeCalls
                             /\ cl[n].sure \in 0..TTL /\ cl[n].wait \in 0..TTL /\ cl[n].rev \in Nat
                             /\ cl[n].call.age \in 0..TTL /\ cl[n].call.rev \in Nat /\ cl[n].call.stamp \in Nat
         /\ \A req \in flight : /\ req \in KubeRequests /\ req.node \in Nodes /\ req.op \in Sending
                                /\ req.rev \in Nat /\ req.stamp \in Nat
  <1>1. s \in KubeServers /\ cl \in [Nodes -> KubeClients] /\ flight \in SUBSET KubeRequests
    BY DEF KubeOK
  <1>2. s.kind \in KubeKinds /\ s.past \in SUBSET KubeKinds /\ s.stamp \in Nat /\ s.left \in 0..TTL
    BY <1>1 DEF KubeServers
  <1>3. s.kind.owner \in Owners /\ s.kind.stamp \in Nat /\ s.kind.rev \in Nat
    BY <1>2 DEF KubeKinds
  <1>4. \A k \in s.past : k.owner \in Owners /\ k.stamp \in Nat /\ k.rev \in Nat
    BY <1>2 DEF KubeKinds
  <1>5. ASSUME NEW n \in Nodes
        PROVE  /\ cl[n] \in KubeClients /\ cl[n].call \in KubeCalls
               /\ cl[n].sure \in 0..TTL /\ cl[n].wait \in 0..TTL /\ cl[n].rev \in Nat
               /\ cl[n].call.age \in 0..TTL /\ cl[n].call.rev \in Nat /\ cl[n].call.stamp \in Nat
    <2>1. cl[n] \in KubeClients
      BY <1>1
    <2>2. cl[n].call \in KubeCalls /\ cl[n].sure \in 0..TTL /\ cl[n].wait \in 0..TTL /\ cl[n].rev \in Nat
      BY <2>1 DEF KubeClients
    <2>3. cl[n].call.age \in 0..TTL /\ cl[n].call.rev \in Nat /\ cl[n].call.stamp \in Nat
      BY <2>2 DEF KubeCalls
    <2>4. QED BY <2>1, <2>2, <2>3
  <1>6. \A req \in flight : /\ req \in KubeRequests /\ req.node \in Nodes /\ req.op \in Sending
                            /\ req.rev \in Nat /\ req.stamp \in Nat
    BY <1>1 DEF KubeRequests
  <1>7. QED BY <1>2, <1>3, <1>4, <1>5, <1>6

(* A request that may still arrive: in flight, or what a node is sending.   *)
KubePending(req, cl, flight) ==
  \/ req \in flight
  \/ req.node \in Nodes /\ cl[req.node].call.op \in Sending /\ req = KubeRequest(req.node, cl[req.node].call)

(* A request under way is one of the invariant's.                           *)
LEMMA KubePendingOK ==
  ASSUME TTL \in Nat, NEW s, NEW cl, NEW flight, KubeOK(s, cl, flight), NEW req, KubePending(req, cl, flight)
  PROVE  req \in KubeRequests /\ req.node \in Nodes /\ req.op \in Sending /\ req.rev \in Nat /\ req.stamp \in Nat
         /\ KubeRequestOK(s, cl[req.node].sure, req)
  <1>1. CASE req \in flight
    BY <1>1, KubeFacts DEF KubeOK
  <1>2. CASE req \notin flight
    <2> DEFINE n == req.node
               call == cl[n].call
    <2>1. n \in Nodes /\ call.op \in Sending /\ req = KubeRequest(n, call)
      BY <1>2 DEF KubePending
    <2>2. KubeNodeOK(s, flight, n, cl[n]) /\ call.rev \in Nat /\ call.stamp \in Nat
      BY <2>1, KubeFacts DEF KubeOK
    <2>3. KubeRequestOK(s, cl[n].sure, req)
      BY <2>1, <2>2 DEF KubeNodeOK
    <2> HIDE DEF n, call
    <2>4. req \in KubeRequests /\ req.op = call.op /\ req.rev = call.rev /\ req.stamp = call.stamp
      BY <2>1, <2>2 DEF KubeRequest, KubeRequests
    <2>5. QED BY <2>1, <2>2, <2>3, <2>4 DEF n
  <1>3. QED BY <1>1, <1>2

(* A pending request is carried out.  From then on none of those that were  *)
(* pending can be accepted, unless they do not ask for a version.           *)
LEMMA KubeWrite ==
  ASSUME TTL \in Nat, None \notin Nodes, NEW s, NEW t, NEW cl, NEW flight, KubeOK(s, cl, flight),
         NEW req, KubePending(req, cl, flight), KubeEffect(req, s, t)
  PROVE  /\ KubeOK(t, cl, flight) /\ KubeOwnerStep(s, t)
         /\ \A r \in flight : r.rev < t.kind.rev
  <1> DEFINE sure == cl[req.node].sure
  <1>1. /\ req.node \in Nodes /\ req.op \in Sending /\ req.rev \in Nat /\ req.stamp \in Nat
        /\ KubeRequestOK(s, sure, req)
    BY KubePendingOK
  <1>2. /\ s.kind.owner \in Owners /\ s.kind.stamp \in Nat /\ s.kind.rev \in Nat /\ s.stamp \in Nat
        /\ s.left \in 0..TTL /\ KubeVersions(s)
        /\ \A k \in s.past : k.owner \in Owners /\ k.stamp \in Nat /\ k.rev \in Nat
    BY KubeFacts DEF KubeOK
  <1>3. /\ t \in KubeServers /\ t.stamp = s.stamp /\ t.past = s.past \cup {t.kind} /\ t.kind.rev = s.kind.rev + 1
        /\ KubeRenews(req.op) => /\ req.rev = s.kind.rev /\ t.left = TTL
                                 /\ t.kind.owner = req.node /\ t.kind.stamp = req.stamp
        /\ req.op = "release" => /\ req.rev = s.kind.rev /\ t.left = 0
                                 /\ t.kind.owner = None /\ t.kind.stamp = s.kind.stamp
        /\ req.op = "optime" => /\ t.left = s.left /\ s.kind.rev # 0
                                /\ t.kind.owner = s.kind.owner /\ t.kind.stamp = s.kind.stamp
    BY DEF KubeEffect
  <1>4. req.op \in {"acquire", "update", "repatch"} \/ req.op = "release" \/ req.op = "optime"
    BY <1>1 DEF Sending
  <1>5. /\ req.op = "acquire" => s.kind.owner = None \/ s.left = 0
        /\ req.op \in {"update", "repatch"} => s.kind.owner \in {req.node, None}
        /\ req.op = "release" => s.kind.owner = req.node /\ sure = 0
        /\ KubeRenews(req.op) => ~Published(s, req.node, req.stamp)
        /\ req.stamp <= s.stamp
    BY <1>1, <1>3 DEF KubeRequestOK, KubeRenews
  <1>6. /\ KubeRenews(req.op) <=> req.op \in {"acquire", "update", "repatch"}
        /\ t.left \in 0..TTL /\ t.kind.rev \in Nat
    BY <1>2, <1>3 DEF KubeRenews, KubeServers
  <1>7. KubeVersions(t)
    <2>1. t.kind.stamp <= s.stamp
      BY <1>2, <1>3, <1>4, <1>5, <1>6 DEF KubeVersions
    <2>2. ASSUME NEW k \in t.past
          PROVE  /\ k.rev <= t.kind.rev /\ k.stamp <= t.stamp
                 /\ k.rev = t.kind.rev => k = t.kind
                 /\ k.rev = 0 => k.owner = None
      <3>1. CASE k = t.kind
        BY <1>2, <1>3, <1>6, <2>1, <3>1
      <3>2. CASE k \in s.past
        BY <1>2, <1>3, <3>2 DEF KubeVersions
      <3>3. QED BY <1>3, <3>1, <3>2
    <2>3. QED BY <1>3, <2>2 DEF KubeVersions
  <1>8. ASSUME NEW r, KubePending(r, cl, flight)
        PROVE  r.rev < t.kind.rev /\ KubeRequestOK(t, cl[r.node].sure, r)
    <2>1. KubeRequestOK(s, cl[r.node].sure, r) /\ r.rev \in Nat
      BY <1>8, KubePendingOK
    <2>2. r.rev <= s.kind.rev /\ r.stamp <= s.stamp
      BY <2>1 DEF KubeRequestOK
    <2>3. r.rev < t.kind.rev
      BY <1>2, <1>3, <2>1, <2>2
    <2>4. QED BY <1>2, <1>3, <2>1, <2>2, <2>3 DEF KubeRequestOK
  <1>9. ASSUME NEW n \in Nodes
        PROVE  KubeNodeOK(t, flight, n, cl[n])
    <2> DEFINE c == cl[n]
    <2>1. KubeNodeOK(s, flight, n, c)
      BY DEF KubeOK
    <2>2. /\ c.sure \in 0..TTL /\ c.wait \in 0..TTL /\ c.call.age \in 0..TTL /\ c.call.stamp \in Nat
      BY KubeFacts
    <2>3. c.sure > 0 => t.kind.owner = n /\ c.sure <= t.left
      <3>1. c.sure > 0 => s.kind.owner = n /\ c.sure <= s.left
        BY <2>1 DEF KubeNodeOK
      <3>2. n # None
        OBVIOUS
      <3>3. QED BY <1>2, <1>3, <1>4, <1>5, <1>6, <2>2, <3>1, <3>2
    <2>4. c.seen = KU!Record(t.kind) => c.wait >= t.left
      <3>1. CASE KubeRenews(req.op)
        <4>1. PICK k \in s.past : KU!Record(k) = c.seen
          BY <2>1 DEF KubeNodeOK
        <4>2. ~(k.owner = req.node /\ k.stamp = req.stamp)
          BY <1>5, <3>1 DEF Published
        <4>3. KU!Record(k) # KU!Record(t.kind)
          BY <1>3, <3>1, <4>2 DEF KU!Record
        <4>4. QED BY <4>1, <4>3
      <3>2. CASE req.op = "release"
        BY <1>3, <2>2, <3>2
      <3>3. CASE req.op = "optime"
        <4>1. KU!Record(t.kind) = KU!Record(s.kind) /\ t.left = s.left
          BY <1>3, <3>3 DEF KU!Record
        <4>2. QED BY <2>1, <4>1 DEF KubeNodeOK
      <3>4. QED BY <1>4, <1>6, <3>1, <3>2, <3>3
    <2>5. /\ \E k \in t.past : KU!Record(k) = c.seen
          /\ c.view # KU!Unknown => /\ \E k \in t.past : k.rev = c.rev /\ KU!Record(k) = c.seen
                                    /\ c.view = None => c.seen.owner = None \/ c.wait = 0
      BY <1>3, <2>1 DEF KubeNodeOK
    <2>6. c.call.op \in Sending => KubeRequestOK(t, c.sure, KubeRequest(n, c.call))
      <3> DEFINE r == KubeRequest(n, c.call)
      <3>1. r.node = n
        BY DEF KubeRequest
      <3>2. c.call.op \in Sending => KubePending(r, cl, flight)
        BY <3>1 DEF KubePending
      <3> HIDE DEF r
      <3>3. c.call.op \in Sending => KubeRequestOK(t, cl[r.node].sure, r)
        BY <1>8, <3>2
      <3>4. QED BY <3>1, <3>3 DEF r
    <2>7. ASSUME c.call.op # "idle"
          PROVE  KubeCallOK(t, flight, n, c.call)
      <3>1. KubeCallOK(s, flight, n, c.call)
        BY <2>1, <2>7 DEF KubeNodeOK
      <3>2. t.kind.owner = n /\ t.kind.stamp = c.call.stamp => t.left >= TTL - c.call.age
        <4>1. s.kind.owner = n /\ s.kind.stamp = c.call.stamp => s.left >= TTL - c.call.age
          BY <3>1 DEF KubeCallOK
        <4>2. QED BY <1>3, <1>4, <1>6, <2>2, <4>1
      <3>3. ASSUME Published(t, n, c.call.stamp), t.kind.owner = n, t.kind.stamp # c.call.stamp
            PROVE  FALSE
        <4>1. Published(s, n, c.call.stamp)
          BY <1>3, <3>3 DEF Published
        <4>2. req.op # "release"
          BY <1>3, <3>3
        <4>3. req.op # "optime"
          BY <1>3, <3>1, <3>3, <4>1 DEF KubeCallOK
        <4>4. KubeRenews(req.op) /\ req.node = n /\ req.stamp # c.call.stamp /\ req.rev = s.kind.rev
          BY <1>3, <1>4, <1>6, <3>3, <4>2, <4>3
        <4>5. req \in flight
          BY <4>4 DEF KubePending, KubeRequest
        <4>6. QED BY <3>1, <4>1, <4>4, <4>5 DEF KubeCallOK
      <3>4. \A r \in flight : r.rev # t.kind.rev
        BY <1>6, <1>8, KubeFacts DEF KubePending
      <3>5. QED BY <1>3, <3>1, <3>2, <3>3, <3>4 DEF KubeCallOK
    <2>8. QED BY <2>3, <2>4, <2>5, <2>6, <2>7 DEF KubeNodeOK
  <1>10. \A r \in flight : r.rev < t.kind.rev /\ KubeRequestOK(t, cl[r.node].sure, r)
    BY <1>8 DEF KubePending
  <1>11. KubeOK(t, cl, flight)
    BY <1>3, <1>7, <1>9, <1>10 DEF KubeOK
  <1>12. KubeOwnerStep(s, t)
    BY <1>2, <1>3, <1>4, <1>5, <1>6 DEF KubeOwnerStep, KubeOwner
  <1>13. QED BY <1>10, <1>11, <1>12

(* One node's record changes: what the invariant asks of the new one.       *)
KubeFits(s, flight, n, d) ==
  /\ d \in KubeClients /\ KubeNodeOK(s, flight, n, d)
  /\ \A r \in flight : r.node = n /\ r.op = "release" /\ r.rev = s.kind.rev => d.sure = 0

(* A step of one node that fits keeps the invariant.                        *)
LEMMA KubeClientStep ==
  ASSUME NEW s, NEW cl, NEW flight, KubeOK(s, cl, flight), NEW n \in Nodes, NEW d, KubeFits(s, flight, n, d)
  PROVE  KubeOK(s, [cl EXCEPT ![n] = d], flight)
  <1> DEFINE new == [cl EXCEPT ![n] = d]
  <1>1. cl \in [Nodes -> KubeClients]
    BY DEF KubeOK
  <1>2. new \in [Nodes -> KubeClients] /\ new[n] = d /\ \A m \in Nodes : m # n => new[m] = cl[m]
    BY <1>1 DEF KubeFits
  <1> HIDE DEF new
  <1>3. \A m \in Nodes : KubeNodeOK(s, flight, m, new[m])
    BY <1>2 DEF KubeOK, KubeFits
  <1>4. ASSUME NEW r \in flight
        PROVE  KubeRequestOK(s, new[r.node].sure, r)
    <2>1. r.node \in Nodes /\ KubeRequestOK(s, cl[r.node].sure, r)
      BY DEF KubeOK, KubeRequests
    <2>2. CASE r.node # n
      BY <1>2, <2>1, <2>2
    <2>3. CASE r.node = n
      BY <1>2, <2>1, <2>3 DEF KubeRequestOK, KubeFits
    <2>4. QED BY <2>2, <2>3
  <1>5. KubeOK(s, new, flight)
    BY <1>2, <1>3, <1>4 DEF KubeOK
  <1>6. QED BY <1>5 DEF new

(* A call is over, with this much to count on.                              *)
LEMMA KubeFinish ==
  ASSUME TTL \in Nat, NEW s, NEW cl, NEW flight, KubeOK(s, cl, flight), NEW n \in Nodes,
         NEW good \in 0..TTL, good > 0 => s.kind.owner = n /\ good <= s.left,
         \A r \in flight : r.node = n /\ r.op = "release" /\ r.rev = s.kind.rev => good = 0
  PROVE  KubeOK(s, [cl EXCEPT ![n] = KU!Finish(cl[n], good)], flight)
  <1> DEFINE c == cl[n]
             d == KU!Finish(c, good)
  <1>1. c \in KubeClients /\ KubeNodeOK(s, flight, n, c) /\ 0 \in 0..TTL
    BY DEF KubeOK
  <1>2. KU!NoCall \in KubeCalls /\ KU!NoCall.op = "idle"
    BY <1>1 DEF KU!NoCall, KubeCalls
  <1>3. d = [c EXCEPT !.call = KU!NoCall, !.view = KU!Unknown, !.rev = 0, !.sure = good]
    BY DEF KU!Finish
  <1> HIDE DEF c, d
  <1>4. /\ d \in KubeClients /\ d.call = KU!NoCall /\ d.view = KU!Unknown /\ d.sure = good
        /\ d.seen = c.seen /\ d.wait = c.wait
    BY <1>1, <1>2, <1>3 DEF KubeClients
  <1>5. d.call.op \notin Sending
    BY <1>2, <1>4 DEF Sending
  <1>6. KubeFits(s, flight, n, d)
    BY <1>1, <1>2, <1>4, <1>5 DEF KubeFits, KubeNodeOK
  <1>7. QED BY <1>6, KubeClientStep DEF c, d

(* Nothing is learned: the node counts on what it did.                      *)
LEMMA KubeFinishSame ==
  ASSUME TTL \in Nat, NEW s, NEW cl, NEW flight, KubeOK(s, cl, flight), NEW n \in Nodes
  PROVE  /\ KubeOK(s, [cl EXCEPT ![n] = KU!Finish(cl[n], cl[n].sure)], flight)
         /\ KubeOK(s, [cl EXCEPT ![n] = KU!Finish(cl[n], 0)], flight)
  <1> DEFINE good == cl[n].sure
  <1>1. good \in 0..TTL /\ 0 \in 0..TTL
    BY KubeFacts
  <1>2. KubeNodeOK(s, flight, n, cl[n]) /\ \A r \in flight : KubeRequestOK(s, cl[r.node].sure, r)
    BY DEF KubeOK
  <1>3. /\ good > 0 => s.kind.owner = n /\ good <= s.left
        /\ \A r \in flight : r.node = n /\ r.op = "release" /\ r.rev = s.kind.rev => good = 0
    BY <1>2 DEF KubeNodeOK, KubeRequestOK
  <1> HIDE DEF good
  <1>4. KubeOK(s, [cl EXCEPT ![n] = KU!Finish(cl[n], good)], flight)
    BY <1>1, <1>3, KubeFinish
  <1>5. KubeOK(s, [cl EXCEPT ![n] = KU!Finish(cl[n], 0)], flight)
    BY <1>1, KubeFinish
  <1>6. QED BY <1>4, <1>5 DEF good

(* Nobody waits any longer for what a node was sending.                     *)
LEMMA KubeSent ==
  ASSUME TTL \in Nat, NEW s, NEW cl, NEW flight, KubeOK(s, cl, flight), NEW n \in Nodes,
         cl[n].call.op \in Sending
  PROVE  KubeOK(s, cl, flight \cup {KubeRequest(n, cl[n].call)})
  <1> DEFINE req == KubeRequest(n, cl[n].call)
             more == flight \cup {req}
  <1>1. req.node = n /\ req.op = cl[n].call.op /\ req.stamp = cl[n].call.stamp
    BY DEF KubeRequest
  <1>2. KubePending(req, cl, flight)
    BY <1>1 DEF KubePending
  <1>3. req \in KubeRequests /\ KubeRequestOK(s, cl[n].sure, req)
    BY <1>1, <1>2, KubePendingOK
  <1> HIDE DEF req
  <1>4. ASSUME NEW m \in Nodes
        PROVE  KubeNodeOK(s, more, m, cl[m])
    <2>1. KubeNodeOK(s, flight, m, cl[m])
      BY DEF KubeOK
    <2>2. ASSUME cl[m].call.op # "idle"
          PROVE  KubeCallOK(s, more, m, cl[m].call)
      <3>1. KubeCallOK(s, flight, m, cl[m].call)
        BY <2>1, <2>2 DEF KubeNodeOK
      <3>2. CASE m # n
        BY <1>1, <3>1, <3>2 DEF KubeCallOK
      <3>3. CASE m = n
        <4>1. Published(s, n, cl[n].call.stamp) /\ KubeRenews(req.op) => req.rev # s.kind.rev
          BY <1>1, <1>3 DEF KubeRequestOK
        <4>2. cl[n].call.op # "release" => req.op # "release"
          BY <1>1
        <4>3. QED BY <3>1, <3>3, <4>1, <4>2 DEF KubeCallOK
      <3>4. QED BY <3>2, <3>3
    <2>3. QED BY <2>1, <2>2 DEF KubeNodeOK
  <1>5. more \in SUBSET KubeRequests /\ \A r \in more : KubeRequestOK(s, cl[r.node].sure, r)
    BY <1>1, <1>3 DEF KubeOK
  <1> HIDE DEF more
  <1>6. KubeOK(s, cl, more)
    BY <1>4, <1>5 DEF KubeOK
  <1>7. QED BY <1>6 DEF more, req

(* A request has arrived.                                                   *)
LEMMA KubeArrived ==
  ASSUME NEW s, NEW cl, NEW flight, KubeOK(s, cl, flight), NEW less \in SUBSET flight
  PROVE  KubeOK(s, cl, less)
  <1>1. ASSUME NEW m \in Nodes
        PROVE  KubeNodeOK(s, less, m, cl[m])
    <2>1. KubeNodeOK(s, flight, m, cl[m])
      BY DEF KubeOK
    <2>2. KubeCallOK(s, flight, m, cl[m].call) => KubeCallOK(s, less, m, cl[m].call)
      BY DEF KubeCallOK
    <2>3. QED BY <2>1, <2>2 DEF KubeNodeOK
  <1>2. QED BY <1>1 DEF KubeOK

(* Another stamp is given out.                                              *)
LEMMA KubeStamp ==
  ASSUME TTL \in Nat, NEW s, NEW cl, NEW flight, KubeOK(s, cl, flight)
  PROVE  LET t == [s EXCEPT !.stamp = @ + 1]
         IN  /\ KubeOK(t, cl, flight) /\ KubeOwner(t) = KubeOwner(s) /\ t.kind = s.kind /\ t.past = s.past
             /\ t.left = s.left /\ t.stamp = s.stamp + 1
  <1> DEFINE t == [s EXCEPT !.stamp = @ + 1]
  <1>1. s \in KubeServers /\ s.stamp \in Nat
    BY KubeFacts DEF KubeOK
  <1>2. /\ t \in KubeServers /\ t.kind = s.kind /\ t.past = s.past
        /\ t.left = s.left /\ t.stamp = s.stamp + 1
    BY <1>1 DEF KubeServers
  <1> HIDE DEF t
  <1>3. KubeVersions(t)
    <2>1. KubeVersions(s)
      BY DEF KubeOK
    <2>2. QED BY <1>1, <1>2, <2>1, KubeFacts DEF KubeVersions
  <1>4. ASSUME NEW sure, NEW r, r.stamp \in Nat, KubeRequestOK(s, sure, r)
        PROVE  KubeRequestOK(t, sure, r)
    BY <1>1, <1>2, <1>4 DEF KubeRequestOK, Published
  <1>5. ASSUME NEW m \in Nodes
        PROVE  KubeNodeOK(t, flight, m, cl[m])
    <2>1. KubeNodeOK(s, flight, m, cl[m]) /\ cl[m].call.stamp \in Nat
      BY KubeFacts DEF KubeOK
    <2>2. KubeCallOK(s, flight, m, cl[m].call) => KubeCallOK(t, flight, m, cl[m].call)
      BY <1>1, <1>2, <2>1 DEF KubeCallOK, Published
    <2> DEFINE r == KubeRequest(m, cl[m].call)
    <2>3. r.stamp \in Nat
      BY <2>1 DEF KubeRequest
    <2> HIDE DEF r
    <2>4. KubeRequestOK(s, cl[m].sure, r) => KubeRequestOK(t, cl[m].sure, r)
      BY <1>4, <2>3
    <2>5. QED BY <1>2, <2>1, <2>2, <2>4 DEF KubeNodeOK, r
  <1>6. \A r \in flight : KubeRequestOK(t, cl[r.node].sure, r)
    BY <1>4, KubeFacts DEF KubeOK
  <1>7. KubeOK(t, cl, flight)
    BY <1>2, <1>3, <1>5, <1>6 DEF KubeOK
  <1>8. QED BY <1>2, <1>7 DEF KubeOwner, t

-----------------------------------------------------------------------------
(* The steps of Kubernetes.                                                 *)

KubeGoal == KubeInv' /\ KubeOwnerStep(server, server')

(* _load_cluster() reads the objects from the cache.                        *)
LEMMA KubeLoadCluster ==
  ASSUME TTL \in Nat, KubeInv, NEW n \in Nodes, KU!LoadCluster(n)
  PROVE  KubeGoal
  <1> DEFINE c == client[n]
  <1>1. /\ c.call.op = "idle" /\ UNCHANGED <<server, net>> /\ KubeOK(server, client, net)
        /\ c \in KubeClients /\ KubeNodeOK(server, net, n, c)
    BY DEF KU!LoadCluster, KU!Idle, KubeInv, KubeOK
  <1>2. PICK k \in server.past : client' = [client EXCEPT ![n] = KU!Loaded(c, k)]
    BY DEF KU!LoadCluster, KU!Cached
  <1> DEFINE wait == IF KU!Record(k) # c.seen THEN TTL ELSE c.wait
             view == IF wait = 0 THEN None ELSE k.owner
             d == [c EXCEPT !.rev = k.rev, !.seen = KU!Record(k), !.wait = wait, !.view = view]
  <1>3. client' = [client EXCEPT ![n] = d]
    BY <1>2 DEF KU!Loaded
  <1>4. k.owner \in Owners /\ k.stamp \in Nat /\ k.rev \in Nat /\ c.wait \in 0..TTL /\ server.left \in 0..TTL
    BY <1>1, KubeFacts
  <1>5. /\ KU!Record(k) \in KubeRecords /\ KU!Record(k).owner = k.owner
        /\ wait \in 0..TTL /\ view \in Owners /\ (view = None => k.owner = None \/ wait = 0)
    BY <1>4 DEF KU!Record, KubeRecords, Owners
  <1>6. KU!Record(k) = KU!Record(server.kind) => wait >= server.left
    BY <1>1, <1>4 DEF KubeNodeOK
  <1> HIDE DEF wait, view, c
  <1>7. /\ d \in KubeClients /\ d.rev = k.rev /\ d.seen = KU!Record(k) /\ d.wait = wait /\ d.view = view
        /\ d.call = c.call /\ d.sure = c.sure
    BY <1>1, <1>4, <1>5 DEF KubeClients
  <1> HIDE DEF d
  <1>8. KubeNodeOK(server, net, n, d)
    BY <1>1, <1>5, <1>6, <1>7 DEF KubeNodeOK
  <1>9. \A r \in net : r.node = n /\ r.op = "release" /\ r.rev = server.kind.rev => d.sure = 0
    BY <1>1, <1>7 DEF KubeOK, KubeRequestOK, c
  <1>10. KubeOK(server, client', net)
    BY <1>1, <1>3, <1>7, <1>8, <1>9, KubeClientStep DEF KubeFits
  <1>11. QED BY <1>1, <1>10 DEF KubeGoal, KubeInv, KubeOwnerStep

(* What a new call asks for, before it gets its stamp.                      *)
KubeAsks(n, op, rev) ==
  /\ op \in {"acquire", "update", "release", "optime"} /\ rev \in Nat /\ rev <= server.kind.rev
  /\ rev = server.kind.rev =>
       /\ op = "acquire" => server.kind.owner = None \/ server.left = 0
       /\ op = "update" => server.kind.owner \in {n, None}
       /\ op = "release" => server.kind.owner = n

(* A call of attempt_to_acquire_leader(), update_leader() or                *)
(* delete_leader() starts.                                                  *)
LEMMA KubeStartCall ==
  ASSUME TTL \in Nat, KubeInv, NEW n \in Nodes, NEW op, NEW rev, KubeAsks(n, op, rev), KU!Start(n, op, rev)
  PROVE  KubeGoal
  <1> DEFINE c == client[n]
             t == [server EXCEPT !.stamp = @ + 1]
             call == [op |-> op, rev |-> rev, stamp |-> server.stamp + 1, age |-> 0]
             sure == IF op = "release" THEN 0 ELSE c.sure
             d == [c EXCEPT !.call = call, !.sure = sure]
  <1>1. server' = t /\ net' = net /\ KubeOK(server, client, net)
    BY DEF KU!Start, KubeInv
  <1>2. client' = [client EXCEPT ![n] = d]
    <2>1. client \in [Nodes -> KubeClients]
      BY <1>1 DEF KubeOK
    <2>2. client' = [client EXCEPT ![n].call = call, ![n].sure = IF op = "release" THEN 0 ELSE @]
      BY DEF KU!Start
    <2>3. QED BY <2>1, <2>2 DEF KubeClients
  <1>3. /\ KubeOK(t, client, net) /\ KubeOwner(t) = KubeOwner(server)
        /\ t.kind = server.kind /\ t.past = server.past /\ t.left = server.left /\ t.stamp = server.stamp + 1
    BY <1>1, KubeStamp
  <1> HIDE DEF t
  <1>4. /\ server.stamp \in Nat /\ server.kind.rev \in Nat /\ server.kind.stamp \in Nat
        /\ c \in KubeClients /\ c.sure \in 0..TTL /\ 0 \in 0..TTL
        /\ KubeNodeOK(t, net, n, c) /\ \A r \in net : r.stamp \in Nat /\ r.stamp <= server.stamp
    <2>1. \A r \in net : r.stamp \in Nat
      BY <1>1, KubeFacts
    <2>2. \A r \in net : r.stamp <= server.stamp
      BY <1>1 DEF KubeOK, KubeRequestOK
    <2>3. KubeNodeOK(t, net, n, c)
      BY <1>3 DEF KubeOK
    <2>4. QED BY <1>1, <2>1, <2>2, <2>3, KubeFacts
  <1>5. /\ call \in KubeCalls /\ call.op = op /\ call.rev = rev /\ call.stamp = server.stamp + 1 /\ call.age = 0
        /\ op \in Sending /\ op # "idle" /\ sure \in 0..TTL /\ op # "repatch"
    BY <1>4 DEF KubeAsks, KubeCalls, Sending
  <1> HIDE DEF c, call, sure
  <1>6. /\ d \in KubeClients /\ d.call = call /\ d.sure = sure /\ d.view = c.view
        /\ d.rev = c.rev /\ d.seen = c.seen /\ d.wait = c.wait
    BY <1>4, <1>5 DEF KubeClients
  <1> HIDE DEF d
  <1>7. ~Published(t, n, call.stamp) /\ t.kind.stamp < call.stamp /\ call.stamp = t.stamp
    <2>1. \A k \in t.past : k.stamp \in Nat /\ k.stamp <= server.stamp
      BY <1>1, <1>3, KubeFacts DEF KubeOK, KubeVersions
    <2>2. t.kind.stamp <= server.stamp
      BY <1>1, <1>3 DEF KubeOK, KubeVersions
    <2>3. \A k \in t.past : k.stamp # call.stamp
      BY <1>4, <1>5, <2>1
    <2>4. QED BY <1>3, <1>4, <1>5, <2>2, <2>3 DEF Published
  <1>8. sure = 0 \/ sure = c.sure
    BY DEF sure
  <1>9. KubeRequestOK(t, sure, KubeRequest(n, call))
    <2> DEFINE r == KubeRequest(n, call)
    <2>1. r.node = n /\ r.op = op /\ r.rev = rev /\ r.stamp = call.stamp
      BY <1>5 DEF KubeRequest
    <2>2. op = "release" => sure = 0
      BY DEF sure
    <2> HIDE DEF r
    <2>3. call.stamp <= t.stamp
      BY <1>4, <1>5, <1>7
    <2>4. QED BY <1>3, <1>5, <1>7, <2>1, <2>2, <2>3 DEF KubeRequestOK, KubeAsks, r
  <1>10. KubeCallOK(t, net, n, call)
    <2>1. \A r \in net : r.stamp < call.stamp
      BY <1>4, <1>5
    <2>2. call.stamp <= t.stamp
      BY <1>4, <1>5, <1>7
    <2>3. t.kind.stamp # call.stamp
      BY <1>3, <1>4, <1>5, <1>7
    <2>4. QED BY <1>7, <2>1, <2>2, <2>3 DEF KubeCallOK
  <1>11. KubeNodeOK(t, net, n, d)
    BY <1>4, <1>6, <1>8, <1>9, <1>10 DEF KubeNodeOK
  <1>12. \A r \in net : r.node = n /\ r.op = "release" /\ r.rev = t.kind.rev => d.sure = 0
    BY <1>3, <1>6, <1>8 DEF KubeOK, KubeRequestOK, c
  <1>13. KubeOK(t, [client EXCEPT ![n] = d], net)
    BY <1>3, <1>6, <1>11, <1>12, KubeClientStep DEF KubeFits
  <1>14. QED BY <1>1, <1>2, <1>3, <1>13 DEF KubeGoal, KubeInv, KubeOwnerStep

(* What the node has loaded, or a newer version that says the same, if it   *)
(* is the present one: then the record has run out for the others too.      *)
LEMMA KubeCall ==
  ASSUME TTL \in Nat, KubeInv, NEW n \in Nodes, KU!Call(n)
  PROVE  KubeGoal
  <1> DEFINE c == client[n]
  <1>1. KubeOK(server, client, net) /\ KubeNodeOK(server, net, n, c) /\ c.view # KU!Unknown
    BY DEF KubeInv, KubeOK, KU!Call
  <1>2. PICK k \in server.past :
          \/ c.view = None /\ KU!Start(n, "acquire", KU!AcquireRev(c, k))
          \/ c.view = n /\ (k.owner = n \/ k.rev = 0) /\ KU!Start(n, "update", k.rev)
          \/ c.view = n /\ k.owner = n /\ KU!Start(n, "release", k.rev)
          \/ c.view = n /\ KU!Start(n, "optime", 0)
    BY DEF KU!Call, KU!Cached
  <1>3. /\ server.kind.rev \in Nat /\ server.left \in 0..TTL /\ c.wait \in 0..TTL
        /\ k.rev \in Nat /\ k.rev <= server.kind.rev /\ (k.rev = server.kind.rev => k = server.kind)
        /\ k.rev = 0 => k.owner = None
    BY <1>1, KubeFacts DEF KubeOK, KubeVersions
  <1>4. CASE c.view = None /\ KU!Start(n, "acquire", KU!AcquireRev(c, k))
    <2> DEFINE rev == KU!AcquireRev(c, k)
    <2>1. PICK v \in server.past : v.rev = c.rev /\ KU!Record(v) = c.seen
      BY <1>1 DEF KubeNodeOK
    <2>2. PICK w \in server.past : w.rev = rev /\ KU!Record(w) = c.seen
      BY <2>1 DEF KU!AcquireRev
    <2>3. w.rev \in Nat /\ w.rev <= server.kind.rev /\ (w.rev = server.kind.rev => w = server.kind)
      BY <1>1, KubeFacts DEF KubeOK, KubeVersions
    <2>4. c.seen.owner = None \/ c.wait = 0
      BY <1>1, <1>4 DEF KubeNodeOK
    <2>5. c.seen = KU!Record(server.kind) => server.kind.owner = None \/ server.left = 0
      <3>1. c.seen = KU!Record(server.kind) => c.wait >= server.left
        BY <1>1 DEF KubeNodeOK
      <3>2. c.seen = KU!Record(server.kind) => c.seen.owner = server.kind.owner
        BY DEF KU!Record
      <3>3. QED BY <1>3, <2>4, <3>1, <3>2
    <2> HIDE DEF rev
    <2>6. KubeAsks(n, "acquire", rev)
      BY <2>2, <2>3, <2>5 DEF KubeAsks
    <2>7. QED BY <1>4, <2>6, KubeStartCall DEF rev
  <1>5. CASE c.view = n /\ (k.owner = n \/ k.rev = 0) /\ KU!Start(n, "update", k.rev)
    <2>1. KubeAsks(n, "update", k.rev)
      BY <1>3, <1>5 DEF KubeAsks
    <2>2. QED BY <1>5, <2>1, KubeStartCall
  <1>6. CASE c.view = n /\ k.owner = n /\ KU!Start(n, "release", k.rev)
    <2>1. KubeAsks(n, "release", k.rev)
      BY <1>3, <1>6 DEF KubeAsks
    <2>2. QED BY <1>6, <2>1, KubeStartCall
  <1>7. CASE c.view = n /\ KU!Start(n, "optime", 0)
    <2>1. KubeAsks(n, "optime", 0)
      BY <1>3 DEF KubeAsks
    <2>2. QED BY <1>7, <2>1, KubeStartCall
  <1>8. QED BY <1>2, <1>4, <1>5, <1>6, <1>7

(* The request a call sends is under way.                                   *)
LEMMA KubeRequestIs ==
  ASSUME NEW n \in Nodes
  PROVE  /\ KU!Request(n) = KubeRequest(n, client[n].call)
         /\ KU!Request(n).node = n /\ KU!Request(n).op = client[n].call.op
         /\ KU!Request(n).rev = client[n].call.rev /\ KU!Request(n).stamp = client[n].call.stamp
         /\ client[n].call.op \in Sending => KubePending(KU!Request(n), client, net)
  BY DEF KU!Request, KubeRequest, KubePending

(* A pending request reaches the object, and may or may not be accepted.    *)
LEMMA KubeReaches ==
  ASSUME TTL \in Nat, None \notin Nodes, KubeInv, NEW req, KubePending(req, client, net)
  PROVE  KubeOK(KU!Written(req), client, net) /\ KubeOwnerStep(server, KU!Written(req))
  <1>1. KubeOK(server, client, net) /\ server \in KubeServers
    BY DEF KubeInv, KubeOK
  <1>2. req \in KubeRequests
    BY <1>1, KubePendingOK
  <1>3. KU!Written(req) = server \/ KubeEffect(req, server, KU!Written(req))
    BY <1>1, <1>2, KubeWritten
  <1>4. CASE KU!Written(req) = server
    BY <1>1, <1>4 DEF KubeOwnerStep
  <1>5. CASE KubeEffect(req, server, KU!Written(req))
    BY <1>1, <1>5, KubeWrite
  <1>6. QED BY <1>3, <1>4, <1>5

(* A request whose client has given up is accepted.                         *)
LEMMA KubeLate ==
  ASSUME TTL \in Nat, None \notin Nodes, KubeInv, KU!Late
  PROVE  KubeGoal
  <1>1. PICK req \in net : server' = KU!Written(req) /\ net' = net \ {req} /\ UNCHANGED client
    BY DEF KU!Late
  <1>2. KubePending(req, client, net)
    BY DEF KubePending
  <1>3. KubeOK(server', client, net) /\ KubeOwnerStep(server, server')
    BY <1>1, <1>2, KubeReaches
  <1>4. net' \in SUBSET net
    BY <1>1
  <1>5. KubeOK(server', client, net')
    BY <1>3, <1>4, KubeArrived
  <1>6. QED BY <1>1, <1>3, <1>5 DEF KubeGoal, KubeInv

(* A request times out, accepted or not.                                    *)
LEMMA KubeUnanswered ==
  ASSUME TTL \in Nat, None \notin Nodes, KubeInv, NEW n \in Nodes, KU!Unanswered(n)
  PROVE  KubeGoal
  <1>1. /\ client[n].call.op \in Sending
        /\ \/ client' = client
           \/ client' = [client EXCEPT ![n] = KU!Finish(client[n], client[n].sure)]
        /\ \/ server' = KU!Written(KU!Request(n)) /\ net' = net
           \/ net' = net \cup {KU!Request(n)} /\ server' = server
    BY DEF KU!Unanswered, Sending
  <1>2. KubeOK(server', client, net') /\ KubeOwnerStep(server, server')
    <2>1. CASE server' = KU!Written(KU!Request(n)) /\ net' = net
      <3> DEFINE req == KU!Request(n)
      <3>1. KubePending(req, client, net)
        BY <1>1, KubeRequestIs
      <3> HIDE DEF req
      <3>2. KubeOK(KU!Written(req), client, net) /\ KubeOwnerStep(server, KU!Written(req))
        BY <3>1, KubeReaches
      <3>3. QED BY <2>1, <3>2 DEF req
    <2>2. CASE net' = net \cup {KU!Request(n)} /\ server' = server
      <3>1. KubeOK(server, client, net \cup {KubeRequest(n, client[n].call)})
        BY <1>1, KubeSent DEF KubeInv
      <3>2. QED BY <2>2, <3>1, KubeRequestIs DEF KubeOwnerStep
    <2>3. QED BY <1>1, <2>1, <2>2
  <1>3. KubeOK(server', client', net')
    <2> DEFINE s == server'
               flight == net'
    <2>1. KubeOK(s, client, flight)
      BY <1>2
    <2> HIDE DEF s, flight
    <2>2. KubeOK(s, [client EXCEPT ![n] = KU!Finish(client[n], client[n].sure)], flight)
      BY <2>1, KubeFinishSame
    <2>3. QED BY <1>1, <2>1, <2>2 DEF s, flight
  <1>4. QED BY <1>2, <1>3 DEF KubeGoal, KubeInv

(* The call goes on otherwise; its stamp, and what the node knows, stay.    *)
KubeGoing(c, op, rev) == [c EXCEPT !.call.op = op, !.call.rev = rev]

(* A call goes on with its next request.                                    *)
LEMMA KubeGoesOn ==
  ASSUME TTL \in Nat, KubeInv, NEW n \in Nodes, client[n].call.op \notin {"idle", "release"},
         NEW op, op \in {"reacquire", "reread", "repatch"}, NEW rev \in Nat,
         op = "repatch" => /\ rev = server.kind.rev /\ server.kind.owner = n
                           /\ server.kind.stamp # client[n].call.stamp
  PROVE  KubeOK(server, [client EXCEPT ![n] = KubeGoing(client[n], op, rev)], net)
  <1> DEFINE c == client[n]
             call == [c.call EXCEPT !.op = op, !.rev = rev]
             d == [c EXCEPT !.call = call]
  <1>1. /\ KubeOK(server, client, net) /\ c \in KubeClients /\ c.call \in KubeCalls
        /\ KubeNodeOK(server, net, n, c) /\ server.kind.rev \in Nat
    BY KubeFacts DEF KubeInv, KubeOK
  <1>2. d = KubeGoing(c, op, rev)
    BY <1>1 DEF KubeClients, KubeGoing
  <1>3. /\ call \in KubeCalls /\ call.op = op /\ call.rev = rev
        /\ call.stamp = c.call.stamp /\ call.age = c.call.age
    BY <1>1 DEF KubeCalls, Sending
  <1> HIDE DEF call
  <1>4. /\ d \in KubeClients /\ d.call = call /\ d.sure = c.sure /\ d.view = c.view
        /\ d.rev = c.rev /\ d.seen = c.seen /\ d.wait = c.wait
    BY <1>1, <1>3 DEF KubeClients
  <1>5. KubeCallOK(server, net, n, c.call) /\ c.call.op # "release"
    BY <1>1 DEF KubeNodeOK
  <1> HIDE DEF d
  <1>6. KubeCallOK(server, net, n, call)
    BY <1>3, <1>5 DEF KubeCallOK
  <1>7. op \in Sending => KubeRequestOK(server, c.sure, KubeRequest(n, call))
    <2> DEFINE r == KubeRequest(n, call)
    <2>1. r.node = n /\ r.op = op /\ r.rev = rev /\ r.stamp = c.call.stamp
      BY <1>3 DEF KubeRequest
    <2>2. op \in Sending => op = "repatch"
      BY DEF Sending
    <2> HIDE DEF r
    <2>3. op = "repatch" => ~Published(server, n, c.call.stamp) /\ c.call.stamp <= server.stamp
      BY <1>5 DEF KubeCallOK
    <2>4. QED BY <1>1, <2>1, <2>2, <2>3 DEF KubeRequestOK, r
  <1>8. KubeNodeOK(server, net, n, d)
    BY <1>1, <1>3, <1>4, <1>6, <1>7 DEF KubeNodeOK
  <1>9. \A r \in net : r.node = n /\ r.op = "release" /\ r.rev = server.kind.rev => d.sure = 0
    BY <1>1, <1>4 DEF KubeOK, KubeRequestOK
  <1>10. KubeOK(server, [client EXCEPT ![n] = d], net)
    BY <1>1, <1>4, <1>8, <1>9, KubeClientStep DEF KubeFits
  <1>11. QED BY <1>2, <1>10

(* A request is answered.                                                   *)
LEMMA KubeAnswer ==
  ASSUME TTL \in Nat, None \notin Nodes, KubeInv, NEW n \in Nodes, KU!Answer(n)
  PROVE  KubeGoal
  <1> DEFINE c == client[n]
             req == KU!Request(n)
             t == KU!Written(req)
  <1>1. /\ server' = t /\ net' = net /\ server.kind.rev < MaxRev /\ KubeOK(server, client, net)
        /\ c.call \in KubeCalls /\ c.call.op \notin {"idle", "reacquire", "reread"}
    BY KubeFacts DEF KU!Answer, KU!Idle, KubeInv
  <1>2. c.call.op \in Sending /\ c.call.rev \in Nat /\ c.call.age \in 0..TTL
    BY <1>1 DEF KubeCalls
  <1>3. KubePending(req, client, net) /\ req \in KubeRequests
    <2>1. KubePending(req, client, net)
      BY <1>2, KubeRequestIs
    <2> HIDE DEF req
    <2>2. QED BY <1>1, <2>1, KubePendingOK
  <1>4. KubeOK(t, client, net) /\ KubeOwnerStep(server, t)
    <2> HIDE DEF req
    <2>1. QED BY <1>3, KubeReaches
  <1>5. CASE KU!Accepts(req)
    <2> DEFINE good == IF c.call.op \in {"acquire", "update", "repatch"} THEN TTL - c.call.age ELSE c.sure
    <2>1. client' = [client EXCEPT ![n] = KU!Finish(c, good)]
      BY <1>5 DEF KU!Answer
    <2>2. KubeEffect(req, server, t) /\ server \in KubeServers
      <3> HIDE DEF req
      <3>1. server \in KubeServers
        BY DEF KubeInv, KubeOK
      <3>2. QED BY <1>1, <1>3, <1>5, <3>1, KubeWritten
    <2>3. \A r \in net : r.rev < t.kind.rev
      <3> HIDE DEF req, t
      <3>1. QED BY <1>1, <1>3, <2>2, KubeWrite
    <2>4. CASE c.call.op \in {"acquire", "update", "repatch"}
      <3>1. good = TTL - c.call.age
        BY <2>4
      <3>2. req.node = n /\ KubeRenews(req.op)
        BY <2>4, KubeRequestIs DEF KubeRenews
      <3>3. t.kind.owner = n /\ t.left = TTL
        BY <2>2, <3>2 DEF KubeEffect
      <3>4. t.kind.rev \in Nat /\ \A r \in net : r.rev \in Nat
        <4> HIDE DEF req, t
        <4>1. QED BY <1>4, KubeFacts
      <3> HIDE DEF t, good, req
      <3>5. good \in 0..TTL /\ good <= t.left
        BY <1>2, <3>1, <3>3
      <3>6. \A r \in net : r.rev # t.kind.rev
        BY <2>3, <3>4
      <3>7. KubeOK(t, [client EXCEPT ![n] = KU!Finish(client[n], good)], net)
        BY <1>4, <3>3, <3>5, <3>6, KubeFinish
      <3>8. QED BY <1>1, <1>4, <2>1, <3>7 DEF KubeGoal, KubeInv
    <2>5. CASE c.call.op \notin {"acquire", "update", "repatch"}
      <3>1. good = c.sure
        BY <2>5
      <3> HIDE DEF t
      <3>2. KubeOK(t, [client EXCEPT ![n] = KU!Finish(c, c.sure)], net)
        BY <1>4, KubeFinishSame
      <3>3. QED BY <1>1, <1>4, <2>1, <3>1, <3>2 DEF KubeGoal, KubeInv
    <2>6. QED BY <2>4, <2>5
  <1>6. CASE ~KU!Accepts(req)
    <2>1. t = server
      BY <1>6 DEF KU!Written
    <2>2. /\ KubeOK(server, [client EXCEPT ![n] = KU!Finish(c, c.sure)], net)
          /\ KubeOK(server, [client EXCEPT ![n] = KU!Finish(c, 0)], net)
      BY <1>1, KubeFinishSame
    <2> DEFINE d(op) == [c EXCEPT !.call.op = op]
    <2>3. \/ client' = [client EXCEPT ![n] = KU!Finish(c, 0)]
          \/ c.call.op = "acquire" /\ client' = [client EXCEPT ![n] = d("reacquire")]
          \/ c.call.op = "update" /\ client' = [client EXCEPT ![n] = d("reread")]
          \/ client' = [client EXCEPT ![n] = KU!Finish(c, c.sure)]
      <3>1. client' = [client EXCEPT ![n] =
              CASE c.call.op = "acquire" /\ c.call.rev = 0 -> KU!Finish(c, 0)
                [] c.call.op = "acquire" /\ c.call.rev # 0 -> d("reacquire")
                [] c.call.op = "update"  -> d("reread")
                [] c.call.op = "repatch" -> KU!Finish(c, 0)
                [] OTHER -> KU!Finish(c, c.sure)]
        BY <1>6 DEF KU!Answer
      <3> HIDE DEF d
      <3>2. CASE c.call.op = "acquire"
        BY <3>1, <3>2
      <3>3. CASE c.call.op = "update"
        BY <3>1, <3>3
      <3>4. CASE c.call.op = "repatch"
        BY <3>1, <3>4
      <3>5. CASE c.call.op \notin {"acquire", "update", "repatch"}
        BY <3>1, <3>5
      <3>6. QED BY <3>2, <3>3, <3>4, <3>5
    <2>4. ASSUME NEW op \in {"reacquire", "reread"}, c.call.op \in {"acquire", "update"}
          PROVE  KubeOK(server, [client EXCEPT ![n] = d(op)], net)
      <3>1. c \in KubeClients
        BY DEF KubeInv, KubeOK
      <3>2. d(op) = KubeGoing(c, op, c.call.rev)
        <4> DEFINE old == c.call
        <4>1. [old EXCEPT !.op = op] = [old EXCEPT !.op = op, !.rev = old.rev]
          BY <1>1 DEF KubeCalls
        <4>2. d(op) = [c EXCEPT !.call = [old EXCEPT !.op = op]]
          BY <3>1 DEF KubeClients
        <4>3. KubeGoing(c, op, c.call.rev) = [c EXCEPT !.call = [old EXCEPT !.op = op, !.rev = old.rev]]
          BY <3>1 DEF KubeClients, KubeGoing
        <4>4. QED BY <4>1, <4>2, <4>3
      <3>3. op # "repatch" /\ op \in {"reacquire", "reread", "repatch"} /\ c.call.op \notin {"idle", "release"}
        BY <2>4
      <3>4. KubeOK(server, [client EXCEPT ![n] = KubeGoing(c, op, c.call.rev)], net)
        BY <1>2, <3>3, KubeGoesOn
      <3>5. QED BY <3>2, <3>4
    <2>5. KubeOK(server, client', net)
      <3> HIDE DEF d
      <3>1. QED BY <2>2, <2>3, <2>4
    <2>6. QED BY <1>1, <2>1, <2>5 DEF KubeGoal, KubeInv, KubeOwnerStep
  <1>7. QED BY <1>5, <1>6

(* After a conflict or a lost answer the leader object is read anew.        *)
LEMMA KubeReread ==
  ASSUME TTL \in Nat, None \notin Nodes, KubeInv, NEW n \in Nodes, KU!Reread(n)
  PROVE  KubeGoal
  <1> DEFINE c == client[n]
             mine == server.kind.owner = n /\ server.kind.stamp = c.call.stamp
             good == TTL - c.call.age
             again == KubeGoing(c, "repatch", server.kind.rev)
  <1>1. /\ server' = server /\ net' = net /\ KubeOK(server, client, net)
        /\ c.call.op \in {"reacquire", "reread"}
        /\ \/ client' = [client EXCEPT ![n] = KU!Finish(c, 0)]
           \/ mine /\ client' = [client EXCEPT ![n] = KU!Finish(c, good)]
           \/ server.kind.owner = n /\ ~mine /\ client' = [client EXCEPT ![n] = again]
    BY DEF KU!Reread, KubeInv, KubeGoing
  <1>2. /\ c.call.age \in 0..TTL /\ c.call.stamp \in Nat /\ server.kind.rev \in Nat /\ server.kind.stamp \in Nat
        /\ server.left \in 0..TTL /\ \A r \in net : r.stamp \in Nat
    BY <1>1, KubeFacts
  <1>3. KubeCallOK(server, net, n, c.call)
    BY <1>1 DEF KubeOK, KubeNodeOK
  <1>4. CASE client' = [client EXCEPT ![n] = KU!Finish(c, 0)]
    BY <1>1, <1>4, KubeFinishSame DEF KubeGoal, KubeInv, KubeOwnerStep
  <1>5. CASE mine /\ client' = [client EXCEPT ![n] = KU!Finish(c, good)]
    <2>1. good \in 0..TTL /\ server.kind.owner = n /\ good <= server.left
      BY <1>2, <1>3, <1>5 DEF KubeCallOK
    <2>2. \A r \in net : r.node = n /\ r.op = "release" /\ r.rev = server.kind.rev => good = 0
      <3>1. ASSUME NEW r \in net, r.node = n, r.op = "release", r.rev = server.kind.rev
            PROVE  FALSE
        <4>1. server.kind.stamp < r.stamp
          BY <1>1, <3>1 DEF KubeOK, KubeRequestOK
        <4>2. r.stamp < c.call.stamp
          BY <1>1, <1>3, <3>1 DEF KubeCallOK
        <4>3. server.kind.stamp = c.call.stamp
          BY <1>5
        <4>4. QED BY <1>2, <4>1, <4>2, <4>3
      <3>2. QED BY <3>1
    <2> HIDE DEF good
    <2>3. KubeOK(server, [client EXCEPT ![n] = KU!Finish(c, good)], net)
      BY <1>1, <2>1, <2>2, KubeFinish
    <2>4. QED BY <1>1, <1>5, <2>3 DEF KubeGoal, KubeInv, KubeOwnerStep
  <1>6. CASE server.kind.owner = n /\ ~mine /\ client' = [client EXCEPT ![n] = again]
    <2>1. c.call.op \notin {"idle", "release"} /\ server.kind.stamp # c.call.stamp
      BY <1>1, <1>6
    <2>2. KubeOK(server, [client EXCEPT ![n] = again], net)
      BY <1>2, <1>6, <2>1, KubeGoesOn
    <2>3. QED BY <1>1, <1>6, <2>2 DEF KubeGoal, KubeInv, KubeOwnerStep
  <1>7. QED BY <1>1, <1>4, <1>5, <1>6

(* The key expires no sooner than the last answer that vouches for it.      *)
LEMMA KubeTick ==
  ASSUME TTL \in Nat, KubeInv, KU!Tick
  PROVE  KubeGoal
  <1> DEFINE Down(k) == IF k = 0 THEN 0 ELSE k - 1
             aged(n) == IF client[n].call.op = "idle" THEN 0 ELSE client[n].call.age + 1
             t == server'
  <1>1. KubeOK(server, client, net) /\ net' = net /\ \A n \in Nodes : client[n].call.age < TTL
    BY DEF KU!Tick, KubeInv
  <1>2. /\ server.left \in 0..TTL /\ server.kind.rev \in Nat
        /\ \A n \in Nodes : /\ client[n] \in KubeClients /\ client[n].call \in KubeCalls
                            /\ client[n].sure \in 0..TTL /\ client[n].wait \in 0..TTL
                            /\ client[n].call.age \in 0..TTL
    BY <1>1, KubeFacts
  <1>3. \A k \in 0..TTL : Down(k) \in 0..TTL /\ Down(k) <= k /\ (k > 0 => Down(k) = k - 1) /\ (k = 0 => Down(k) = 0)
    OBVIOUS
  <1>4. /\ t \in KubeServers /\ t.kind = server.kind /\ t.past = server.past /\ t.stamp = server.stamp
        /\ t.left = Down(server.left)
    <2>1. t = [server EXCEPT !.left = Down(server.left)]
      BY DEF KU!Tick, KU!Less
    <2>2. server \in KubeServers /\ Down(server.left) \in 0..TTL
      BY <1>1, <1>2, <1>3 DEF KubeOK
    <2> HIDE DEF Down, t
    <2>3. QED BY <2>1, <2>2 DEF KubeServers
  <1>5. \A n \in Nodes : aged(n) \in 0..TTL
    BY <1>1, <1>2
  <1>6. ASSUME NEW n \in Nodes
        PROVE  /\ client'[n] \in KubeClients /\ client'[n].call \in KubeCalls
               /\ client'[n].sure = Down(client[n].sure) /\ client'[n].wait = Down(client[n].wait)
               /\ client'[n].view = client[n].view /\ client'[n].rev = client[n].rev
               /\ client'[n].seen = client[n].seen /\ client'[n].call.op = client[n].call.op
               /\ client'[n].call.rev = client[n].call.rev /\ client'[n].call.stamp = client[n].call.stamp
               /\ client'[n].call.age = aged(n)
    <2> DEFINE c == client[n]
               call == [c.call EXCEPT !.age = aged(n)]
               d == client'[n]
    <2>1. d = KU!Later(c)
      BY DEF KU!Tick
    <2>2. c \in KubeClients /\ c.call \in KubeCalls
      BY <1>2
    <2>3. d = [c EXCEPT !.sure = Down(c.sure), !.wait = Down(c.wait), !.call = call]
      BY <2>1, <2>2 DEF KubeClients, KU!Later, KU!Less
    <2>4. Down(c.sure) \in 0..TTL /\ Down(c.wait) \in 0..TTL /\ aged(n) \in 0..TTL
      BY <1>2, <1>3, <1>5
    <2> HIDE DEF aged, Down, d, c
    <2>5. /\ call \in KubeCalls /\ call.op = c.call.op /\ call.rev = c.call.rev
          /\ call.stamp = c.call.stamp /\ call.age = aged(n)
      BY <2>2, <2>4 DEF KubeCalls
    <2> HIDE DEF call
    <2>6. /\ d \in KubeClients /\ d.call = call /\ d.sure = Down(c.sure) /\ d.wait = Down(c.wait)
          /\ d.view = c.view /\ d.rev = c.rev /\ d.seen = c.seen
      BY <2>2, <2>3, <2>4, <2>5 DEF KubeClients
    <2>7. QED BY <2>5, <2>6 DEF c, d
  <1>7. client' \in [Nodes -> KubeClients]
    <2>1. client' = [n \in Nodes |-> client'[n]]
      BY DEF KU!Tick
    <2>2. QED BY <1>6, <2>1
  <1> HIDE DEF Down, aged, t
  <1>8. ASSUME NEW n \in Nodes, NEW r, r.node = n, KubeRequestOK(server, client[n].sure, r)
        PROVE  KubeRequestOK(t, client'[n].sure, r)
    <2>1. client[n].sure = 0 => client'[n].sure = 0
      BY <1>2, <1>3, <1>6
    <2>2. server.left = 0 => t.left = 0
      BY <1>2, <1>3, <1>4
    <2>3. QED BY <1>4, <1>8, <2>1, <2>2 DEF KubeRequestOK, Published
  <1>9. ASSUME NEW n \in Nodes
        PROVE  KubeNodeOK(t, net, n, client'[n])
    <2> DEFINE c == client[n]
               d == client'[n]
    <2>1. KubeNodeOK(server, net, n, c)
      BY <1>1 DEF KubeOK
    <2>2. d.sure > 0 => t.kind.owner = n /\ d.sure <= t.left
      <3>1. c.sure > 0 => server.kind.owner = n /\ c.sure <= server.left
        BY <2>1 DEF KubeNodeOK
      <3>2. QED BY <1>2, <1>3, <1>4, <1>6, <3>1
    <2>3. d.seen = KU!Record(t.kind) => d.wait >= t.left
      <3>1. c.seen = KU!Record(server.kind) => c.wait >= server.left
        BY <2>1 DEF KubeNodeOK
      <3>2. QED BY <1>2, <1>3, <1>4, <1>6, <3>1
    <2>4. /\ \E k \in t.past : KU!Record(k) = d.seen
          /\ d.view # KU!Unknown => /\ \E k \in t.past : k.rev = d.rev /\ KU!Record(k) = d.seen
                                    /\ d.view = None => d.seen.owner = None \/ d.wait = 0
      <3>1. c.wait = 0 => d.wait = 0
        BY <1>2, <1>3, <1>6
      <3>2. QED BY <1>4, <1>6, <2>1, <3>1 DEF KubeNodeOK
    <2>5. d.call.op \in Sending => KubeRequestOK(t, d.sure, KubeRequest(n, d.call))
      <3> DEFINE r == KubeRequest(n, d.call)
      <3>1. r = KubeRequest(n, c.call) /\ r.node = n
        BY <1>6 DEF KubeRequest
      <3>2. c.call.op \in Sending => KubeRequestOK(server, c.sure, r)
        BY <2>1, <3>1 DEF KubeNodeOK
      <3> HIDE DEF r
      <3>3. QED BY <1>6, <1>8, <3>1, <3>2 DEF r
    <2>6. ASSUME d.call.op # "idle"
          PROVE  KubeCallOK(t, net, n, d.call)
      <3>1. c.call.op # "idle" /\ KubeCallOK(server, net, n, c.call)
        BY <1>6, <2>1, <2>6 DEF KubeNodeOK
      <3>2. d.call.age = c.call.age + 1
        BY <1>6, <3>1 DEF aged
      <3>3. server.left >= TTL - c.call.age => t.left >= TTL - d.call.age
        BY <1>1, <1>2, <1>3, <1>4, <3>2
      <3> HIDE DEF c, d
      <3>4. c.call.stamp = d.call.stamp /\ c.call.op = d.call.op
        BY <1>6 DEF c, d
      <3>5. QED BY <1>4, <3>1, <3>3, <3>4 DEF KubeCallOK, Published
    <2>7. QED BY <2>2, <2>3, <2>4, <2>5, <2>6 DEF KubeNodeOK
  <1>10. \A r \in net : KubeRequestOK(t, client'[r.node].sure, r)
    <2>1. \A r \in net : r.node \in Nodes
      BY <1>1, KubeFacts
    <2>2. QED BY <1>1, <1>8, <2>1 DEF KubeOK
  <1>11. KubeVersions(t)
    BY <1>1, <1>4 DEF KubeOK, KubeVersions
  <1>12. KubeOK(t, client', net)
    BY <1>1, <1>4, <1>7, <1>9, <1>10, <1>11 DEF KubeOK
  <1>13. KubeOwnerStep(server, t)
    BY <1>2, <1>3, <1>4 DEF KubeOwnerStep, KubeOwner
  <1>14. QED BY <1>1, <1>12, <1>13 DEF KubeGoal, KubeInv, t

(* Kubernetes starts in its invariant and with a free key.                  *)
LEMMA KubeStart ==
  ASSUME TTL \in Nat, KU!Init
  PROVE  KubeInv /\ KU!Contract!KeyInit
  <1>1. 0 \in 0..TTL
    OBVIOUS
  <1> DEFINE s == [kind |-> KU!NoKind, past |-> {KU!NoKind}, stamp |-> 0, left |-> 0]
             c == [call |-> KU!NoCall, view |-> KU!Unknown, rev |-> 0, seen |-> KU!Record(KU!NoKind),
                   wait |-> 0, sure |-> 0]
  <1>2. server = s /\ client = [n \in Nodes |-> c] /\ net = {}
    BY DEF KU!Init
  <1>3. /\ KU!NoKind \in KubeKinds /\ KU!NoKind.owner = None /\ KU!NoKind.rev = 0 /\ KU!NoKind.stamp = 0
        /\ KU!Record(KU!NoKind) \in KubeRecords /\ KU!NoCall \in KubeCalls /\ KU!NoCall.op = "idle"
    BY <1>1 DEF KU!NoKind, KubeKinds, Owners, KU!Record, KubeRecords, KU!NoCall, KubeCalls
  <1>4. s \in KubeServers /\ c \in KubeClients
    BY <1>1, <1>3 DEF KubeServers, KubeClients
  <1>5. KubeVersions(s)
    BY <1>3 DEF KubeVersions
  <1>6. \A n \in Nodes : KubeNodeOK(s, {}, n, c)
    BY <1>3 DEF KubeNodeOK, Sending
  <1> HIDE DEF s, c
  <1>7. KubeInv
    BY <1>2, <1>4, <1>5, <1>6 DEF KubeInv, KubeOK
  <1>8. KU!Contract!KeyInit
    BY <1>2 DEF KU!Contract!KeyInit, KU!Owner, KU!Sure, s, c
  <1>9. QED BY <1>7, <1>8

(* Every step of Kubernetes keeps the invariant and is a step of LeaderKey. *)
LEMMA KubeStep ==
  ASSUME TTL \in Nat, None \notin Nodes, KubeInv, [KU!Next]_(KU!vars)
  PROVE  KubeInv' /\ [KU!Contract!KeyNext]_(KU!Contract!keyVars)
  <1>1. CASE UNCHANGED KU!vars
    BY <1>1 DEF KU!vars, KU!Contract!keyVars, KU!Owner, KU!Sure, KubeInv
  <1>2. CASE KU!Next
    <2>1. KubeGoal
      BY <1>2, KubeLoadCluster, KubeCall, KubeAnswer, KubeReread, KubeUnanswered, KubeLate, KubeTick DEF KU!Next
    <2> DEFINE old == KU!Owner
               new == KU!Owner'
    <2>2. new = KubeOwner(server') /\ old = KubeOwner(server)
      BY DEF KU!Owner, KubeOwner
    <2>3. new \in {old, None} \/ old = None
      BY <2>1, <2>2 DEF KubeGoal, KubeOwnerStep
    <2>4. new \in Owners /\ KU!Sure' \subseteq {new} /\ KU!Sure' \subseteq Nodes
      <3>1. KubeOK(server', client', net')
        BY <2>1 DEF KubeGoal, KubeInv
      <3>2. /\ server'.kind.owner \in Owners /\ server'.left \in 0..TTL
            /\ \A n \in Nodes : client'[n].sure \in 0..TTL
        <4> DEFINE s == server'
                   cl == client'
                   flight == net'
        <4>1. KubeOK(s, cl, flight)
          BY <3>1
        <4> HIDE DEF s, cl, flight
        <4>2. s.kind.owner \in Owners /\ s.left \in 0..TTL /\ \A n \in Nodes : cl[n].sure \in 0..TTL
          BY <4>1, KubeFacts
        <4>3. QED BY <4>2 DEF s, cl
      <3>3. \A n \in Nodes : client'[n].sure > 0 => server'.kind.owner = n /\ client'[n].sure <= server'.left
        BY <3>1 DEF KubeOK, KubeNodeOK
      <3>4. QED BY <3>2, <3>3 DEF KU!Sure, KU!Owner, Owners
    <2> HIDE DEF old, new
    <2>5. KU!Contract!KeyNext
      <3>1. CASE new = None
        BY <2>4, <3>1 DEF KU!Contract!KeyNext, KU!Contract!Free, new
      <3>2. CASE new \in Nodes /\ old = None
        BY <2>4, <3>2 DEF KU!Contract!KeyNext, KU!Contract!Acquire, old, new
      <3>3. CASE new \in Nodes /\ old = new /\ KU!Sure' = {}
        BY <3>3 DEF KU!Contract!KeyNext, KU!Contract!Doubt, old, new
      <3>4. CASE new \in Nodes /\ old = new /\ KU!Sure' # {}
        BY <2>4, <3>4 DEF KU!Contract!KeyNext, KU!Contract!Confirm, old, new
      <3>5. QED BY <2>3, <2>4, <3>1, <3>2, <3>3, <3>4 DEF Owners
    <2>6. QED BY <2>1, <2>5 DEF KubeGoal
  <1>3. QED BY <1>1, <1>2

(* The annotation of a Kubernetes object implements LeaderKey, though       *)
(* nothing ever expires it and every node decides upon a cached version     *)
(* that may be any of the past: with repeated, late and refused requests,   *)
(* and with the second look after a 409.                                    *)
THEOREM KubernetesKey ==
  ASSUME TTL \in Nat, None \notin Nodes
  PROVE  KU!Spec => KU!KeyImplemented
  <1>1. KU!Init => KubeInv /\ KU!Contract!KeyInit
    BY KubeStart
  <1>2. KubeInv /\ [KU!Next]_(KU!vars) => KubeInv' /\ [KU!Contract!KeyNext]_(KU!Contract!keyVars)
    BY KubeStep
  <1>3. QED BY <1>1, <1>2, PTL DEF KU!Spec, KU!KeyImplemented, KU!Contract!KeySpec
=============================================================================
