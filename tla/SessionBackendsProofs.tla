----------------------- MODULE SessionBackendsProofs -----------------------
(* The DCS implementations whose leader key lives as long as a session or a *)
(* lease of its owner (Consul, Etcd v3, ZooKeeper) implement LeaderKey, and *)
(* so do all backends together.  At the end, the client of etcd: a call     *)
(* that follows a failed one succeeds.                                      *)
(*                                                                          *)
(* The key has no expiry of its own here.  The inductive invariants bound   *)
(* the time a node counts on its last answer by the time the session that   *)
(* holds the key has left, which may be an earlier session of that node.    *)
(* They also follow what a call in progress has seen of the key: as long as *)
(* the session it saw the key with is its own and alive, the key is still   *)
(* held by that session.                                                    *)
EXTENDS KeyBackendsProofs, FiniteSetTheorems, SequenceTheorems, WellFoundedInduction

-----------------------------------------------------------------------------
(* Consul, with an update that only counts when the key was locked anew     *)
(* (TrustRelock = FALSE).                                                   *)

CoOps == {"idle", "touch", "acquire", "update", "release", "lock", "unlock", "relock"}
CoKeys == [owner : Nodes \cup {None, "unknown"}, session : CO!Sessions \cup {None}, index : Nat]
CoServers == [key : CoKeys, index : Nat, left : [CO!Sessions -> 0..TTL]]
CoClients == [op : CoOps, session : CO!Sessions \cup {None}, created : 0..MaxSession, fresh : Nat,
              view : CoKeys, age : Nat, sure : Nat]

(* The key is held by a live session of its owner.                          *)
CoServer(s) ==
  /\ s \in CoServers
  /\ s.key.owner # "unknown"
  /\ s.key.owner = None => s.key = CO!NoKey
  /\ s.key.owner # None =>
       /\ s.key.session \in CO!Sessions /\ s.key.session[1] = s.key.owner
       /\ s.left[s.key.session] > 0 /\ s.key.index <= s.index

CoTyped(n, c) ==
  /\ c \in CoClients
  /\ c.session # None => c.session[1] = n /\ c.session[2] <= c.created
  /\ c.age + LoopWait <= TTL

(* A session that need not be refreshed yet has almost a ttl left, and the  *)
(* session of a key is one its owner has created.                           *)
CoFresh(s, n, c) ==
  /\ c.fresh > 0 /\ c.session # None => s.left[c.session] + LoopWait >= TTL + c.fresh
  /\ s.key.owner = n => s.key.session[2] <= c.created

(* A node that is sure owns the key for at least as long.                   *)
CoSure(s, n, c) == c.sure > 0 => s.key.owner = n /\ c.sure <= s.left[s.key.session]

(* What a node has seen of its own key.                                     *)
CoView(s, n, c) ==
  c.view.owner = n =>
    /\ c.view.session \in CO!Sessions /\ c.view.session[1] = n /\ c.view.session[2] <= c.created
    /\ c.view.index <= s.index
    /\ s.key.owner # None /\ s.key.index = c.view.index => s.key = c.view
    /\ c.view.session = c.session /\ s.left[c.session] > 0 => s.key.owner = n /\ s.key.session = c.session

(* How far a call has come.                                                 *)
CoOp(s, n, c) ==
  /\ c.op \in {"unlock", "relock", "release"} => c.sure = 0
  /\ c.op \in {"update", "unlock", "relock", "release"} => c.view.owner = n
  /\ c.op \in {"unlock", "relock"} =>
       c.view.session # c.session /\ c.session # None /\ s.left[c.session] + c.age >= TTL
  /\ c.op = "lock" => c.session # None /\ s.left[c.session] + c.age + LoopWait >= TTL

CoClient(s, n, c) == CoTyped(n, c) /\ CoFresh(s, n, c) /\ CoSure(s, n, c) /\ CoView(s, n, c) /\ CoOp(s, n, c)

CoInv == CoServer(server) /\ client \in [Nodes -> CoClients] /\ \A n \in Nodes : CoClient(server, n, client[n])

CoAssume ==
  /\ TTL \in Nat \ {0} /\ LoopWait \in Nat /\ LoopWait <= TTL /\ MaxSession \in Nat
  /\ None \notin Nodes /\ None \notin CO!Sessions /\ "unknown" \notin Nodes /\ None # "unknown"
  /\ TrustRelock = FALSE

(* A step of the node n changes its own sessions, and the key only from     *)
(* free to its own and back.                                                *)
CoChange(n, s, t) ==
  /\ t.index >= s.index
  /\ \/ t.key = s.key
     \/ /\ s.key.owner \in {None, n}
        /\ t.key.owner = None \/ (t.key.owner = n /\ t.key.index > s.index)
  /\ \A x \in CO!Sessions : x[1] # n => t.left[x] = s.left[x]

CoOwnerStep == server'.key.owner \in {server.key.owner, None} \/ server.key.owner = None

(* The others notice nothing that matters to them.                          *)
LEMMA CoOthers ==
  ASSUME CoAssume, NEW n \in Nodes, NEW m \in Nodes, m # n, NEW s, NEW t, NEW c,
         CoServer(s), CoServer(t), CoChange(n, s, t), CoClient(s, m, c)
  PROVE  CoClient(t, m, c)
  <1>1. /\ s.index \in Nat /\ t.index \in Nat /\ c.view.index \in Nat /\ s.key.index \in Nat /\ t.key.index \in Nat
        /\ c.session \in CO!Sessions \cup {None} /\ m # None
    BY DEF CoServer, CoServers, CoKeys, CoClient, CoTyped, CoClients, CoAssume
  <1>2. c.session # None => c.session \in CO!Sessions /\ t.left[c.session] = s.left[c.session]
    BY <1>1 DEF CoClient, CoTyped, CoChange
  <1>3. s.key.owner = m => t.key = s.key /\ t.left[s.key.session] = s.left[s.key.session]
    BY <1>1 DEF CoChange, CoServer
  <1>4. CoTyped(m, c)
    BY DEF CoClient
  <1>5. CoFresh(t, m, c)
    BY <1>1, <1>2 DEF CoClient, CoFresh, CoChange
  <1>6. CoSure(t, m, c)
    BY <1>3 DEF CoClient, CoSure
  <1>7. CoView(t, m, c)
    <2> SUFFICES ASSUME c.view.owner = m PROVE CoView(t, m, c)
      BY DEF CoView
    <2>1. /\ c.view.session \in CO!Sessions /\ c.view.session[1] = m /\ c.view.session[2] <= c.created
          /\ c.view.index <= s.index /\ s.index <= t.index
      BY <1>1 DEF CoClient, CoView, CoChange
    <2>2. c.view.index <= t.index
      BY <1>1, <2>1
    <2>3. t.key.owner # None /\ t.key.index = c.view.index => t.key = c.view
      <3>1. CASE t.key = s.key
        BY <3>1 DEF CoClient, CoView
      <3>2. CASE t.key.index > s.index
        BY <1>1, <2>1, <3>2
      <3>3. QED BY <3>1, <3>2 DEF CoChange
    <2>4. c.view.session = c.session /\ t.left[c.session] > 0 => t.key.owner = m /\ t.key.session = c.session
      BY <1>1, <1>2, <1>3, <2>1 DEF CoClient, CoView, CoAssume
    <2>5. QED BY <2>1, <2>2, <2>3, <2>4 DEF CoView
  <1>8. CoOp(t, m, c)
    BY <1>2 DEF CoClient, CoOp
  <1>9. QED BY <1>4, <1>5, <1>6, <1>7, <1>8 DEF CoClient

(* What a step of the node n has to show.                                   *)
LEMMA CoStepOf ==
  ASSUME CoAssume, CoInv, NEW n \in Nodes, NEW d, client' = [client EXCEPT ![n] = d],
         CoServer(server'), CoClient(server', n, d), CoChange(n, server, server')
  PROVE  CoInv' /\ CoOwnerStep
  <1>1. d \in CoClients /\ client \in [Nodes -> CoClients]
    BY DEF CoInv, CoClient, CoTyped
  <1>2. client' \in [Nodes -> CoClients] /\ client'[n] = d /\ \A m \in Nodes : m # n => client'[m] = client[m]
    BY <1>1
  <1>3. ASSUME NEW m \in Nodes PROVE CoClient(server', m, client'[m])
    <2>1. CASE m = n
      BY <1>2, <2>1
    <2>2. CASE m # n
      <3>1. CoServer(server) /\ CoClient(server, m, client[m])
        BY DEF CoInv
      <3>2. QED BY <1>2, <2>2, <3>1, CoOthers
    <2>3. QED BY <2>1, <2>2
  <1>4. CoInv'
    BY <1>2, <1>3 DEF CoInv
  <1>5. CoOwnerStep
    BY DEF CoChange, CoOwnerStep
  <1>6. QED BY <1>4, <1>5

(* A step that leaves Consul alone.                                         *)
LEMMA CoQuiet ==
  ASSUME CoAssume, CoInv, NEW n \in Nodes, NEW d, client' = [client EXCEPT ![n] = d], server' = server,
         CoClient(server, n, d)
  PROVE  CoInv' /\ CoOwnerStep
  <1>1. CoServer(server) /\ CoChange(n, server, server) /\ server.index \in Nat
    BY DEF CoInv, CoServer, CoServers, CoChange
  <1>2. CoServer(server') /\ CoClient(server', n, d) /\ CoChange(n, server, server')
    BY <1>1
  <1>3. QED BY <1>2, CoStepOf

(* The end of a call: the node forgets what it had seen.                    *)
LEMMA CoEnd ==
  ASSUME CoAssume, NEW s, NEW n \in Nodes, NEW c, CoTyped(n, c), CoFresh(s, n, c), NEW good \in Nat,
         good > 0 => s.key.owner = n /\ good <= s.left[s.key.session]
  PROVE  CoClient(s, n, CO!Told(c, good))
  <1> DEFINE d == CO!Told(c, good)
  <1>1. d = [c EXCEPT !.op = "idle", !.view = CO!Unknown, !.sure = good]
    BY DEF CO!Told, CO!Finish, CoTyped, CoClients
  <1>2. CO!Unknown \in CoKeys /\ CO!Unknown.owner = "unknown"
    BY DEF CO!Unknown, CO!NoKey, CoKeys
  <1> HIDE DEF d
  <1>3. c \in CoClients
    BY DEF CoTyped
  <1>4. /\ d \in CoClients /\ d.op = "idle" /\ d.view.owner = "unknown" /\ d.sure = good /\ d.session = c.session
        /\ d.created = c.created /\ d.age = c.age /\ d.fresh = c.fresh
    BY <1>1, <1>2, <1>3 DEF CoClients, CoOps
  <1>5. CoTyped(n, d) /\ CoFresh(s, n, d) /\ CoSure(s, n, d)
    BY <1>4 DEF CoTyped, CoFresh, CoSure
  <1>6. CoView(s, n, d) /\ CoOp(s, n, d)
    BY <1>4 DEF CoView, CoOp, CoAssume
  <1>7. QED BY <1>5, <1>6 DEF CoClient, d

(* A call ends and forgets what it loaded.                                  *)
LEMMA CoFinish ==
  ASSUME CoAssume, NEW s, NEW n \in Nodes, NEW c, CoTyped(n, c), CoFresh(s, n, c), CoSure(s, n, c)
  PROVE  CoClient(s, n, CO!Finish(c))
  <1>1. c.sure \in Nat /\ CO!Finish(c) = CO!Told(c, c.sure)
    BY DEF CoTyped, CoClients, CO!Finish, CO!Told
  <1>2. QED BY <1>1, CoEnd DEF CoSure

(* kv.put(acquire=session) by a live session of the node n.                 *)
LEMMA CoLock ==
  ASSUME CoAssume, NEW n \in Nodes, NEW s, CoServer(s), NEW x \in CO!Sessions, x[1] = n,
         CO!Valid(s, x), CO!Lockable(s, x)
  PROVE  /\ CoServer(CO!Lock(s, n, x)) /\ CoChange(n, s, CO!Lock(s, n, x))
         /\ CO!Lock(s, n, x).key.owner = n /\ CO!Lock(s, n, x).key.session = x
         /\ CO!Lock(s, n, x).left = s.left
         /\ s.key.owner = n => s.key.session = x
  <1> DEFINE k == [owner |-> n, session |-> x, index |-> s.index + 1]
             i == s.index + 1
             t == CO!Lock(s, n, x)
  <1>1. s \in CoServers /\ s.index \in Nat
    BY DEF CoServer, CoServers
  <1>2. k \in CoKeys /\ k.owner = n /\ k.session = x /\ k.index = i /\ i \in Nat /\ i > s.index /\ i >= s.index
    BY <1>1 DEF CoKeys
  <1>3. t = [s EXCEPT !.key = k, !.index = i]
    BY <1>1 DEF CO!Lock, CoServers
  <1> HIDE DEF k, i, t
  <1>4. t \in CoServers /\ t.key = k /\ t.index = i /\ t.left = s.left
    BY <1>1, <1>2, <1>3 DEF CoServers
  <1>5. s.left[x] > 0 /\ n # "unknown" /\ n # None
    BY DEF CO!Valid, CoAssume
  <1>6. CoServer(t)
    BY <1>2, <1>4, <1>5 DEF CoServer
  <1>7. s.key.owner # None => s.key.owner = n /\ s.key.session = x
    BY DEF CoServer, CO!Lockable, CoAssume
  <1>8. CoChange(n, s, t)
    BY <1>2, <1>4, <1>7 DEF CoChange
  <1>9. QED BY <1>2, <1>4, <1>5, <1>6, <1>7, <1>8 DEF t

(* A conditional delete of the key that n has seen as its own.              *)
LEMMA CoDelete ==
  ASSUME CoAssume, NEW n \in Nodes, NEW s, CoServer(s), s.key.owner = n
  PROVE  /\ CoServer(CO!Delete(s)) /\ CoChange(n, s, CO!Delete(s))
         /\ CO!Delete(s).left = s.left /\ CO!Delete(s).key.owner = None
         /\ CO!Delete(s).index = s.index + 1
  <1> DEFINE i == s.index + 1
             t == CO!Delete(s)
  <1>1. s \in CoServers /\ s.index \in Nat
    BY DEF CoServer, CoServers
  <1>2. CO!NoKey \in CoKeys /\ CO!NoKey.owner = None /\ i \in Nat /\ i >= s.index
    BY <1>1 DEF CoKeys, CO!NoKey
  <1>3. t = [s EXCEPT !.key = CO!NoKey, !.index = i]
    BY <1>1 DEF CO!Delete, CoServers
  <1> HIDE DEF i, t
  <1>4. t \in CoServers /\ t.key = CO!NoKey /\ t.index = i /\ t.left = s.left
    BY <1>1, <1>2, <1>3 DEF CoServers
  <1>5. CoServer(t)
    BY <1>2, <1>4 DEF CoServer, CoAssume
  <1>6. CoChange(n, s, t)
    BY <1>2, <1>4 DEF CoChange
  <1>7. QED BY <1>2, <1>4, <1>5, <1>6 DEF t, i

(* A session of the node n gets a full ttl.                                 *)
CoRenewed(n, s, x, t) ==
  /\ CoServer(t) /\ CoChange(n, s, t) /\ t.key = s.key /\ t.index = s.index
  /\ t.left[x] = TTL
  /\ \A y \in CO!Sessions : t.left[y] \in Nat /\ s.left[y] \in Nat /\ t.left[y] >= s.left[y]

(* Renewing or creating a session of the node changes nothing else.         *)
LEMMA CoRenew ==
  ASSUME CoAssume, NEW n \in Nodes, NEW s, CoServer(s), NEW x \in CO!Sessions, x[1] = n
  PROVE  CoRenewed(n, s, x, [s EXCEPT !.left[x] = TTL])
  <1> DEFINE L == [s.left EXCEPT ![x] = TTL]
             t == [s EXCEPT !.left[x] = TTL]
  <1>1. s \in CoServers /\ s.index \in Nat /\ s.left \in [CO!Sessions -> 0..TTL] /\ TTL \in 0..TTL /\ TTL > 0
    BY DEF CoServer, CoServers, CoAssume
  <1>2. L \in [CO!Sessions -> 0..TTL] /\ L[x] = TTL /\ \A y \in CO!Sessions : y # x => L[y] = s.left[y]
    BY <1>1
  <1>3. t = [s EXCEPT !.left = L]
    BY <1>1 DEF CoServers
  <1> HIDE DEF L, t
  <1>4. t \in CoServers /\ t.key = s.key /\ t.index = s.index /\ t.left = L
    BY <1>1, <1>2, <1>3 DEF CoServers
  <1>5. \A y \in CO!Sessions : L[y] \in Nat /\ s.left[y] \in Nat /\ L[y] >= s.left[y]
    <2> TAKE y \in CO!Sessions
    <2>1. s.left[y] \in 0..TTL /\ L[y] \in 0..TTL /\ TTL \in Nat
      BY <1>1, <1>2 DEF CoAssume
    <2>2. L[y] = TTL \/ L[y] = s.left[y]
      BY <1>2
    <2>3. QED BY <2>1, <2>2
  <1>6. CoServer(t)
    <2>1. s.key.owner # None => s.key.session \in CO!Sessions /\ L[s.key.session] > 0
      BY <1>5 DEF CoServer
    <2>2. QED BY <1>4, <2>1 DEF CoServer
  <1>7. CoChange(n, s, t)
    BY <1>1, <1>2, <1>4 DEF CoChange
  <1>8. CoRenewed(n, s, x, t)
    BY <1>2, <1>4, <1>5, <1>6, <1>7 DEF CoRenewed
  <1>9. QED BY <1>8 DEF t

(* Steps that only concern the node itself.                                 *)
LEMMA CoLoadCall ==
  ASSUME CoAssume, CoInv, NEW n \in Nodes,
         \/ CO!Load(n) \/ CO!ForgetSession(n) \/ CO!Watch(n)
         \/ \E op \in {"touch", "acquire", "update", "release"} : CO!Call(n, op)
  PROVE  CoInv' /\ CoOwnerStep
  <1> DEFINE c == client[n]
  <1>1. c \in CoClients /\ CoClient(server, n, c) /\ server' = server /\ client \in [Nodes -> CoClients]
        /\ CoServer(server) /\ c.op = "idle"
    BY DEF CoInv, CO!Load, CO!ForgetSession, CO!Watch, CO!Call, CO!Idle
  <1>2. CoTyped(n, c) /\ CoFresh(server, n, c) /\ CoSure(server, n, c) /\ CoView(server, n, c)
    BY <1>1 DEF CoClient
  <1>3. /\ server.key \in CoKeys /\ server.index \in Nat /\ server.key.index \in Nat
        /\ n # None /\ n # "unknown"
    BY <1>1 DEF CoServer, CoServers, CoKeys, CoAssume
  <1>4. CASE CO!Load(n)
    <2> DEFINE d == [c EXCEPT !.view = server.key]
    <2>1. client' = [client EXCEPT ![n] = d]
      BY <1>1, <1>4 DEF CO!Load
    <2>2. /\ d \in CoClients /\ d.view = server.key /\ d.op = c.op /\ d.session = c.session /\ d.created = c.created
          /\ d.fresh = c.fresh /\ d.age = c.age /\ d.sure = c.sure
      BY <1>1, <1>3 DEF CoClients
    <2> HIDE DEF c, d
    <2>3. CoTyped(n, d) /\ CoFresh(server, n, d) /\ CoSure(server, n, d) /\ CoOp(server, n, d)
      BY <1>1, <1>2, <2>2 DEF CoTyped, CoFresh, CoSure, CoOp
    <2>4. CoView(server, n, d)
      BY <1>1, <1>2, <1>3, <2>2 DEF CoView, CoServer, CoFresh
    <2>5. CoClient(server, n, d)
      BY <2>3, <2>4 DEF CoClient
    <2>6. QED BY <1>1, <2>1, <2>5, CoQuiet
  <1>5. CASE CO!ForgetSession(n)
    <2> DEFINE d == [c EXCEPT !.session = None]
    <2>1. client' = [client EXCEPT ![n] = d]
      BY <1>1, <1>5 DEF CO!ForgetSession
    <2>2. /\ d \in CoClients /\ d.view = c.view /\ d.op = c.op /\ d.session = None /\ d.created = c.created
          /\ d.fresh = c.fresh /\ d.age = c.age /\ d.sure = c.sure
      BY <1>1 DEF CoClients
    <2> HIDE DEF c, d
    <2>3. CoTyped(n, d) /\ CoFresh(server, n, d) /\ CoSure(server, n, d) /\ CoOp(server, n, d)
      BY <1>1, <1>2, <2>2 DEF CoTyped, CoFresh, CoSure, CoOp
    <2>4. CoView(server, n, d)
      BY <1>2, <2>2 DEF CoView, CoAssume
    <2>5. CoClient(server, n, d)
      BY <2>3, <2>4 DEF CoClient
    <2>6. QED BY <1>1, <2>1, <2>5, CoQuiet
  <1>6. CASE CO!Watch(n)
    <2> DEFINE d == [c EXCEPT !.fresh = 0, !.view = CO!Unknown]
    <2>1. client' = [client EXCEPT ![n] = d]
      BY <1>1, <1>6 DEF CO!Watch
    <2>2. CO!Unknown \in CoKeys /\ CO!Unknown.owner = "unknown"
      BY DEF CO!Unknown, CO!NoKey, CoKeys
    <2>3. /\ d \in CoClients /\ d.view.owner = "unknown" /\ d.op = c.op /\ d.session = c.session /\ d.created = c.created
          /\ d.fresh = 0 /\ d.age = c.age /\ d.sure = c.sure
      BY <1>1, <2>2 DEF CoClients
    <2> HIDE DEF c, d
    <2>4. CoTyped(n, d) /\ CoFresh(server, n, d) /\ CoSure(server, n, d) /\ CoOp(server, n, d)
      BY <1>1, <1>2, <2>3 DEF CoTyped, CoFresh, CoSure, CoOp
    <2>5. CoView(server, n, d)
      BY <1>3, <2>3 DEF CoView
    <2>6. CoClient(server, n, d)
      BY <2>4, <2>5 DEF CoClient
    <2>7. QED BY <1>1, <2>1, <2>6, CoQuiet
  <1>7. ASSUME NEW op \in {"touch", "acquire", "update", "release"}, CO!Call(n, op)
        PROVE  CoInv' /\ CoOwnerStep
    <2> DEFINE good == IF op = "release" THEN 0 ELSE c.sure
               d == [c EXCEPT !.op = op, !.age = 0, !.sure = good]
    <2>1. client' = [client EXCEPT ![n] = d]
      BY <1>1, <1>7 DEF CO!Call
    <2>2. op \in {"update", "release"} => c.view.owner = n
      BY <1>7 DEF CO!Call
    <2>3. good \in Nat /\ (good > 0 => good = c.sure) /\ (op = "release" => good = 0)
      BY <1>1 DEF CoClients
    <2> HIDE DEF good
    <2>4. /\ d \in CoClients /\ d.view = c.view /\ d.op = op /\ d.session = c.session /\ d.created = c.created
          /\ d.fresh = c.fresh /\ d.age = 0 /\ d.sure = good
      BY <1>1, <2>3 DEF CoClients, CoOps
    <2> HIDE DEF c, d
    <2>5. CoTyped(n, d)
      BY <1>2, <2>4 DEF CoTyped, CoAssume
    <2>6. CoFresh(server, n, d) /\ CoSure(server, n, d) /\ CoView(server, n, d) /\ CoOp(server, n, d)
      BY <1>2, <2>2, <2>3, <2>4 DEF CoFresh, CoSure, CoView, CoOp
    <2>7. CoClient(server, n, d)
      BY <2>5, <2>6 DEF CoClient
    <2>8. QED BY <1>1, <2>1, <2>7, CoQuiet
  <1>8. QED BY <1>4, <1>5, <1>6, <1>7

(* What follows a refresh of the session, by the call it belongs to.        *)
CoNext(d) ==
  CASE d.op = "touch" -> CO!Finish(d)
    [] d.op = "acquire" -> [d EXCEPT !.op = "lock"]
    [] OTHER -> IF d.view.session = d.session THEN CO!Told(d, TTL - d.age)
                ELSE [d EXCEPT !.op = "unlock", !.sure = 0]

(* A call with a live session goes on to its request.                       *)
LEMMA CoGoesOn ==
  ASSUME CoAssume, NEW n \in Nodes, NEW t, CoServer(t), NEW d, CoTyped(n, d), CoFresh(t, n, d), CoSure(t, n, d),
         CoView(t, n, d), d.op \in {"touch", "acquire", "update"}, d.session # None,
         d.op = "acquire" => t.left[d.session] + d.age + LoopWait >= TTL,
         d.op = "update" => d.view.owner = n /\ t.left[d.session] = TTL
  PROVE  CoClient(t, n, CoNext(d))
  <1>1. /\ d \in CoClients /\ d.age \in Nat /\ d.session \in CO!Sessions /\ TTL \in Nat /\ TTL > 0
        /\ LoopWait \in Nat /\ d.age + LoopWait <= TTL
    BY DEF CoTyped, CoClients, CoAssume
  <1>2. CASE d.op = "touch"
    BY <1>2, CoFinish DEF CoNext
  <1>3. CASE d.op = "acquire"
    <2> DEFINE e == [d EXCEPT !.op = "lock"]
    <2>1. CoNext(d) = e
      BY <1>3 DEF CoNext
    <2>2. /\ e \in CoClients /\ e.view = d.view /\ e.op = "lock" /\ e.session = d.session /\ e.created = d.created
          /\ e.fresh = d.fresh /\ e.age = d.age /\ e.sure = d.sure
      BY <1>1 DEF CoClients, CoOps
    <2> HIDE DEF e
    <2>3. CoTyped(n, e) /\ CoFresh(t, n, e) /\ CoSure(t, n, e) /\ CoView(t, n, e)
      BY <2>2 DEF CoTyped, CoFresh, CoSure, CoView
    <2>4. CoOp(t, n, e)
      BY <1>3, <2>2 DEF CoOp
    <2>5. QED BY <2>1, <2>3, <2>4 DEF CoClient
  <1>4. CASE d.op = "update" /\ d.view.session = d.session
    <2>1. CoNext(d) = CO!Told(d, TTL - d.age)
      BY <1>4 DEF CoNext
    <2>2. TTL - d.age \in Nat /\ TTL - d.age <= TTL
      BY <1>1
    <2>3. t.key.owner = n /\ t.left[t.key.session] = TTL
      BY <1>1, <1>4 DEF CoView
    <2>4. QED BY <2>1, <2>2, <2>3, CoEnd
  <1>5. CASE d.op = "update" /\ d.view.session # d.session
    <2> DEFINE e == [d EXCEPT !.op = "unlock", !.sure = 0]
    <2>1. CoNext(d) = e
      BY <1>5 DEF CoNext
    <2>2. /\ e \in CoClients /\ e.view = d.view /\ e.op = "unlock" /\ e.session = d.session /\ e.created = d.created
          /\ e.fresh = d.fresh /\ e.age = d.age /\ e.sure = 0
      BY <1>1 DEF CoClients, CoOps
    <2> HIDE DEF e
    <2>3. CoTyped(n, e) /\ CoFresh(t, n, e) /\ CoSure(t, n, e) /\ CoView(t, n, e)
      BY <2>2 DEF CoTyped, CoFresh, CoSure, CoView
    <2>4. TTL + d.age >= TTL
      BY <1>1
    <2>5. CoOp(t, n, e)
      BY <1>5, <2>2, <2>4 DEF CoOp
    <2>6. QED BY <2>1, <2>3, <2>5 DEF CoClient
  <1>6. QED BY <1>2, <1>3, <1>4, <1>5

(* refresh_session() keeps the session, or replaces one that is gone.       *)
LEMMA CoRefresh ==
  ASSUME CoAssume, CoInv, NEW n \in Nodes, CO!RefreshSession(n)
  PROVE  CoInv' /\ CoOwnerStep
  <1> DEFINE c == client[n]
             recent == c.op # "update" /\ c.session # None /\ c.fresh > 0
             id == <<n, c.created + 1>>
  <1>1. /\ c \in CoClients /\ CoClient(server, n, c) /\ CoServer(server)
        /\ c.op \in {"touch", "acquire", "update"}
    BY DEF CoInv, CO!RefreshSession
  <1>2. CoTyped(n, c) /\ CoFresh(server, n, c) /\ CoSure(server, n, c) /\ CoView(server, n, c)
    BY <1>1 DEF CoClient
  <1>3. /\ c.age \in Nat /\ c.fresh \in Nat /\ c.sure \in Nat /\ c.created \in 0..MaxSession /\ TTL \in Nat
        /\ LoopWait \in Nat /\ MaxSession \in Nat /\ (c.op = "update" => c.view.owner = n)
    BY <1>1 DEF CoClients, CoAssume, CoClient, CoOp
  <1>4. CASE recent /\ server' = server /\ client' = [client EXCEPT ![n] = CoNext(c)]
    <2>1. c.session \in CO!Sessions /\ server.left[c.session] + LoopWait >= TTL + c.fresh
      BY <1>1, <1>2, <1>4 DEF CoFresh, CoClients
    <2>2. server.left[c.session] \in Nat
      BY <1>1, <2>1 DEF CoServer, CoServers, CoAssume
    <2>3. server.left[c.session] + c.age + LoopWait >= TTL
      BY <1>3, <2>1, <2>2
    <2> HIDE DEF c
    <2>4. CoClient(server, n, CoNext(c))
      BY <1>1, <1>2, <1>4, <2>3, CoGoesOn
    <2>5. QED BY <1>4, <2>4, CoQuiet
  <1>5. CASE /\ CO!Valid(server, c.session) /\ server' = [server EXCEPT !.left[c.session] = TTL]
             /\ client' = [client EXCEPT ![n] = CoNext([c EXCEPT !.fresh = LoopWait])]
    <2> DEFINE d == [c EXCEPT !.fresh = LoopWait]
               x == c.session
    <2>1. x \in CO!Sessions /\ x[1] = n /\ server.left[x] > 0
      BY <1>1, <1>2, <1>5 DEF CO!Valid, CoClients, CoTyped
    <2>2. /\ d \in CoClients /\ d.view = c.view /\ d.op = c.op /\ d.session = x /\ d.created = c.created
          /\ d.fresh = LoopWait /\ d.age = c.age /\ d.sure = c.sure
      BY <1>1, <1>3 DEF CoClients
    <2>3. server' = [server EXCEPT !.left[x] = TTL] /\ client' = [client EXCEPT ![n] = CoNext(d)]
      BY <1>5
    <2> HIDE DEF d
    <2>4. /\ CoServer(server') /\ CoChange(n, server, server') /\ server'.key = server.key /\ server'.index = server.index
          /\ server'.left[x] = TTL
          /\ \A y \in CO!Sessions : server'.left[y] \in Nat /\ server.left[y] \in Nat /\ server'.left[y] >= server.left[y]
      BY <1>1, <2>1, <2>3, CoRenew DEF CoRenewed
    <2> HIDE DEF x
    <2>5. CoTyped(n, d) /\ CoFresh(server', n, d)
      BY <1>2, <1>3, <2>1, <2>2, <2>4 DEF CoTyped, CoFresh, x
    <2>6. CoSure(server', n, d)
      <3>1. server.key.owner = n => server.key.session \in CO!Sessions
        BY <1>1 DEF CoServer, CoAssume
      <3>2. QED BY <1>2, <1>3, <2>2, <2>4, <3>1 DEF CoSure
    <2>7. CoView(server', n, d)
      BY <1>2, <2>1, <2>2, <2>4 DEF CoView, x
    <2>8. TTL + d.age + LoopWait >= TTL
      BY <1>3, <2>2
    <2>9. CoClient(server', n, CoNext(d))
      BY <1>1, <1>3, <2>1, <2>2, <2>4, <2>5, <2>6, <2>7, <2>8, CoGoesOn DEF CoAssume
    <2>10. QED BY <2>3, <2>4, <2>9, CoStepOf
  <1>6. CASE /\ c.created < MaxSession /\ server' = [server EXCEPT !.left[id] = TTL]
             /\ client' = [client EXCEPT ![n] = CoNext([c EXCEPT !.session = id, !.created = @ + 1, !.fresh = LoopWait])]
    <2> DEFINE k == c.created + 1
               x == <<n, k>>
               d == [c EXCEPT !.session = x, !.created = k, !.fresh = LoopWait]
    <2>1. k \in 0..MaxSession /\ k \in 1..MaxSession /\ k > c.created
      BY <1>3, <1>6
    <2>2. x \in CO!Sessions /\ x[1] = n /\ x[2] = k
      BY <2>1 DEF CO!Sessions
    <2>3. server' = [server EXCEPT !.left[x] = TTL] /\ client' = [client EXCEPT ![n] = CoNext(d)]
      BY <1>1, <1>6 DEF CoClients
    <2> HIDE DEF x, k
    <2>4. /\ d \in CoClients /\ d.view = c.view /\ d.op = c.op /\ d.session = x /\ d.created = k
          /\ d.fresh = LoopWait /\ d.age = c.age /\ d.sure = c.sure
      BY <1>1, <1>3, <2>1, <2>2 DEF CoClients
    <2> HIDE DEF d
    <2>5. /\ CoServer(server') /\ CoChange(n, server, server') /\ server'.key = server.key /\ server'.index = server.index
          /\ server'.left[x] = TTL
          /\ \A y \in CO!Sessions : server'.left[y] \in Nat /\ server.left[y] \in Nat /\ server'.left[y] >= server.left[y]
      BY <1>1, <2>2, <2>3, CoRenew DEF CoRenewed
    <2>6. CoTyped(n, d)
      BY <1>2, <2>1, <2>2, <2>4 DEF CoTyped
    <2>13. server.key.owner = n => server.key.session \in CO!Sessions /\ server.key.session[2] \in Nat
      BY <1>1 DEF CoServer, CoAssume, CO!Sessions
    <2>7. CoFresh(server', n, d)
      BY <1>2, <1>3, <2>1, <2>4, <2>5, <2>13 DEF CoFresh
    <2>8. CoSure(server', n, d)
      BY <1>2, <1>3, <2>4, <2>5, <2>13 DEF CoSure
    <2>9. CoView(server', n, d)
      <3>1. c.view.session \in CO!Sessions => c.view.session[2] \in Nat
        BY DEF CO!Sessions
      <3>2. c.view.owner = n => c.view.session[2] <= c.created /\ c.view.session[2] <= k /\ c.view.session # x
        BY <1>2, <1>3, <2>1, <2>2, <3>1 DEF CoView
      <3>3. QED BY <1>2, <2>4, <2>5, <3>2 DEF CoView
    <2>10. TTL + d.age + LoopWait >= TTL
      BY <1>3, <2>4
    <2>11. CoClient(server', n, CoNext(d))
      BY <1>1, <1>3, <2>2, <2>4, <2>5, <2>6, <2>7, <2>8, <2>9, <2>10, CoGoesOn DEF CoAssume
    <2>12. QED BY <2>3, <2>5, <2>11, CoStepOf
  <1>7. QED BY <1>4, <1>5, <1>6 DEF CO!RefreshSession, CoNext

(* Requests that lock or delete the key, answered or not.                   *)
LEMMA CoAcquire ==
  ASSUME CoAssume, CoInv, NEW n \in Nodes, CO!AcquireKey(n)
  PROVE  CoInv' /\ CoOwnerStep
  <1> DEFINE c == client[n]
             x == c.session
  <1>1. c \in CoClients /\ CoClient(server, n, c) /\ CoServer(server) /\ c.op = "lock" /\ client \in [Nodes -> CoClients]
    BY DEF CoInv, CO!AcquireKey
  <1>2. CoTyped(n, c) /\ CoFresh(server, n, c) /\ CoView(server, n, c) /\ CoOp(server, n, c)
    BY <1>1 DEF CoClient
  <1>3. /\ x \in CO!Sessions /\ x[1] = n /\ x[2] <= c.created /\ server.left[x] + c.age + LoopWait >= TTL
        /\ server.left[x] \in Nat /\ c.age \in Nat /\ LoopWait \in Nat /\ TTL \in Nat /\ c.age + LoopWait <= TTL
    BY <1>1, <1>2 DEF CoTyped, CoOp, CoClients, CoServer, CoServers, CoAssume
  <1>4. CASE ~CO!Valid(server, x) /\ server' = server /\ client' = [client EXCEPT ![n].session = None, ![n].op = "acquire"]
    <2> DEFINE d == [c EXCEPT !.session = None, !.op = "acquire"]
    <2>1. client' = [client EXCEPT ![n] = d]
      BY <1>1, <1>4
    <2>2. /\ d \in CoClients /\ d.view = c.view /\ d.op = "acquire" /\ d.session = None /\ d.created = c.created
          /\ d.fresh = c.fresh /\ d.age = c.age /\ d.sure = c.sure
      BY <1>1 DEF CoClients, CoOps
    <2> HIDE DEF c, d
    <2>3. CoTyped(n, d) /\ CoFresh(server, n, d) /\ CoSure(server, n, d) /\ CoOp(server, n, d)
      BY <1>1, <1>2, <2>2 DEF CoTyped, CoFresh, CoSure, CoOp, CoClient
    <2>4. CoView(server, n, d)
      BY <1>2, <2>2 DEF CoView, CoAssume
    <2>5. CoClient(server, n, d)
      BY <2>3, <2>4 DEF CoClient
    <2>6. QED BY <1>4, <2>1, <2>5, CoQuiet
  <1>5. CASE /\ CO!Valid(server, x) /\ CO!Lockable(server, x) /\ server' = CO!Lock(server, n, x)
             /\ client' = [client EXCEPT ![n] = CO!Told(c, TTL - LoopWait - c.age)]
    <2> DEFINE good == TTL - LoopWait - c.age
    <2>1. good \in Nat /\ good <= server.left[x]
      BY <1>3
    <2> HIDE DEF good
    <2>2. /\ CoServer(server') /\ CoChange(n, server, server') /\ server'.key.owner = n /\ server'.key.session = x
          /\ server'.left = server.left
      BY <1>1, <1>3, <1>5, CoLock
    <2>3. CoFresh(server', n, c)
      BY <1>2, <1>3, <2>2 DEF CoFresh
    <2> HIDE DEF c
    <2>4. CoClient(server', n, CO!Told(c, good))
      BY <1>2, <2>1, <2>2, <2>3, CoEnd
    <2>5. client' = [client EXCEPT ![n] = CO!Told(c, good)]
      BY <1>5 DEF good
    <2>6. QED BY <2>2, <2>4, <2>5, CoStepOf
  <1>6. CASE server' = server /\ client' = [client EXCEPT ![n] = CO!Told(c, 0)]
    <2> HIDE DEF c
    <2>0. 0 \in Nat /\ ~(0 > 0)
      OBVIOUS
    <2>1. CoClient(server, n, CO!Told(c, 0))
      BY <1>2, <2>0, CoEnd
    <2>2. QED BY <1>6, <2>1, CoQuiet
  <1>7. QED BY <1>4, <1>5, <1>6 DEF CO!AcquireKey

(* The version that was loaded is still there: it is the node's own key.    *)
LEMMA CoOwnVersion ==
  ASSUME CoAssume, NEW n \in Nodes, NEW s, NEW c, CoClient(s, n, c), c.view.owner = n,
         s.key.owner # None, s.key.index = c.view.index
  PROVE  s.key.owner = n
  BY DEF CoClient, CoView

(* _update_leader() lets go of a key held by an older session of the node.  *)
LEMMA CoUnlock ==
  ASSUME CoAssume, CoInv, NEW n \in Nodes, CO!UnlockKey(n)
  PROVE  CoInv' /\ CoOwnerStep
  <1> DEFINE c == client[n]
             d == [c EXCEPT !.op = "relock"]
  <1>1. c \in CoClients /\ CoClient(server, n, c) /\ CoServer(server) /\ c.op = "unlock" /\ client \in [Nodes -> CoClients]
    BY DEF CoInv, CO!UnlockKey
  <1>2. CoTyped(n, c) /\ CoFresh(server, n, c) /\ CoSure(server, n, c) /\ CoView(server, n, c) /\ CoOp(server, n, c)
    BY <1>1 DEF CoClient
  <1>3. client' = [client EXCEPT ![n] = d]
    BY <1>1 DEF CO!UnlockKey
  <1>4. /\ d \in CoClients /\ d.view = c.view /\ d.op = "relock" /\ d.session = c.session /\ d.created = c.created
        /\ d.fresh = c.fresh /\ d.age = c.age /\ d.sure = c.sure
    BY <1>1 DEF CoClients, CoOps
  <1>5. /\ c.view.owner = n /\ c.sure = 0 /\ c.view.session # c.session /\ c.session # None
        /\ server.left[c.session] + c.age >= TTL /\ server.index \in Nat /\ c.view.index \in Nat
    BY <1>1, <1>2 DEF CoOp, CoServer, CoServers, CoClients, CoKeys
  <1> HIDE DEF c, d
  <1>6. CASE server' = server
    <2>1. CoTyped(n, d) /\ CoFresh(server, n, d) /\ CoSure(server, n, d) /\ CoView(server, n, d)
      BY <1>2, <1>4 DEF CoTyped, CoFresh, CoSure, CoView
    <2>2. CoOp(server, n, d)
      BY <1>4, <1>5 DEF CoOp
    <2>3. CoClient(server, n, d)
      BY <2>1, <2>2 DEF CoClient
    <2>4. QED BY <1>3, <1>6, <2>3, CoQuiet
  <1>7. CASE server.key.owner # None /\ server.key.index = c.view.index /\ server' = CO!Delete(server)
    <2>1. server.key.owner = n
      BY <1>1, <1>5, <1>7, CoOwnVersion
    <2>2. /\ CoServer(server') /\ CoChange(n, server, server') /\ server'.left = server.left /\ server'.key.owner = None
          /\ server'.index = server.index + 1
      BY <1>1, <1>7, <2>1, CoDelete
    <2>6. None # n
      BY DEF CoAssume
    <2>3. CoTyped(n, d) /\ CoFresh(server', n, d) /\ CoSure(server', n, d) /\ CoOp(server', n, d)
      BY <1>2, <1>4, <1>5, <2>2, <2>6 DEF CoTyped, CoFresh, CoSure, CoOp
    <2>4. CoView(server', n, d)
      <3>1. c.view.index <= server.index + 1
        BY <1>2, <1>5 DEF CoView
      <3>2. QED BY <1>2, <1>4, <1>5, <2>2, <3>1 DEF CoView
    <2>5. QED BY <1>3, <2>2, <2>3, <2>4, CoStepOf DEF CoClient
  <1>8. QED BY <1>6, <1>7 DEF CO!UnlockKey, c

(* _update_leader() takes the key with the new session.                     *)
LEMMA CoRelock ==
  ASSUME CoAssume, CoInv, NEW n \in Nodes, CO!RelockKey(n)
  PROVE  CoInv' /\ CoOwnerStep
  <1> DEFINE c == client[n]
             x == c.session
             locks == CO!Valid(server, x) /\ CO!Lockable(server, x)
  <1>1. c \in CoClients /\ CoClient(server, n, c) /\ CoServer(server) /\ c.op = "relock" /\ client \in [Nodes -> CoClients]
    BY DEF CoInv, CO!RelockKey
  <1>2. CoTyped(n, c) /\ CoFresh(server, n, c) /\ CoView(server, n, c) /\ CoOp(server, n, c)
    BY <1>1 DEF CoClient
  <1>3. /\ x \in CO!Sessions /\ x[1] = n /\ x[2] <= c.created /\ server.left[x] + c.age >= TTL
        /\ server.left[x] \in Nat /\ c.age \in Nat /\ LoopWait \in Nat /\ TTL \in Nat /\ c.age + LoopWait <= TTL
    BY <1>1, <1>2 DEF CoTyped, CoOp, CoClients, CoServer, CoServers, CoAssume
  <1>4. CASE locks
    <2> DEFINE good == TTL - c.age
    <2>1. good \in Nat /\ good <= server.left[x]
      BY <1>3
    <2>5. server' = CO!Lock(server, n, x) /\ client' = [client EXCEPT ![n] = CO!Told(c, good)]
      BY <1>4 DEF CO!RelockKey
    <2> HIDE DEF good
    <2>2. /\ CoServer(server') /\ CoChange(n, server, server') /\ server'.key.owner = n /\ server'.key.session = x
          /\ server'.left = server.left
      BY <1>1, <1>3, <1>4, <2>5, CoLock
    <2>3. CoFresh(server', n, c)
      BY <1>2, <1>3, <2>2 DEF CoFresh
    <2> HIDE DEF c
    <2>4. CoClient(server', n, CO!Told(c, good))
      BY <1>2, <2>1, <2>2, <2>3, CoEnd
    <2>6. QED BY <2>2, <2>4, <2>5, CoStepOf
  <1>5. CASE ~locks
    <2> HIDE DEF c
    <2>0. 0 \in Nat /\ ~(0 > 0)
      OBVIOUS
    <2>1. CoClient(server, n, CO!Told(c, 0))
      BY <1>2, <2>0, CoEnd
    <2>2. server' = server /\ client' = [client EXCEPT ![n] = CO!Told(c, 0)]
      BY <1>5 DEF CO!RelockKey, CoAssume, c
    <2>3. QED BY <2>1, <2>2, CoQuiet
  <1>6. QED BY <1>4, <1>5

(* _delete_leader(), and a call that fails.                                 *)
LEMMA CoEndOfCall ==
  ASSUME CoAssume, CoInv, NEW n \in Nodes, CO!DeleteKey(n) \/ CO!GiveUp(n)
  PROVE  CoInv' /\ CoOwnerStep
  <1> DEFINE c == client[n]
             x == c.session
  <1>1. c \in CoClients /\ CoClient(server, n, c) /\ CoServer(server) /\ client \in [Nodes -> CoClients]
        /\ client' = [client EXCEPT ![n] = CO!Finish(c)]
    BY DEF CoInv, CO!DeleteKey, CO!GiveUp
  <1>2. CoTyped(n, c) /\ CoFresh(server, n, c) /\ CoSure(server, n, c) /\ CoView(server, n, c) /\ CoOp(server, n, c)
    BY <1>1 DEF CoClient
  <1>3. CASE server' = server
    <2>1. CoClient(server, n, CO!Finish(c))
      BY <1>2, CoFinish
    <2>2. QED BY <1>1, <1>3, <2>1, CoQuiet
  <1>4. CASE /\ c.op \in {"lock", "relock"} /\ CO!Valid(server, x) /\ CO!Lockable(server, x)
             /\ server' = CO!Lock(server, n, x)
    <2>1. x \in CO!Sessions /\ x[1] = n /\ x[2] <= c.created
      BY <1>1, <1>2, <1>4 DEF CoTyped, CoOp, CoClients
    <2>2. /\ CoServer(server') /\ CoChange(n, server, server') /\ server'.key.owner = n /\ server'.key.session = x
          /\ server'.left = server.left /\ (server.key.owner = n => server.key.session = x)
      BY <1>1, <1>4, <2>1, CoLock
    <2>3. CoFresh(server', n, c) /\ CoSure(server', n, c)
      BY <1>2, <2>1, <2>2 DEF CoFresh, CoSure
    <2> HIDE DEF c
    <2>4. CoClient(server', n, CO!Finish(c))
      BY <1>2, <2>3, CoFinish
    <2>5. QED BY <1>1, <2>2, <2>4, CoStepOf
  <1>5. CASE /\ c.op = "release" /\ server.key.owner # None /\ server.key.index = c.view.index
             /\ server' = CO!Delete(server)
    <2>1. c.view.owner = n /\ c.sure = 0 /\ None # n
      BY <1>2, <1>5 DEF CoOp, CoAssume
    <2>2. server.key.owner = n
      BY <1>1, <1>5, <2>1, CoOwnVersion
    <2>3. /\ CoServer(server') /\ CoChange(n, server, server') /\ server'.left = server.left /\ server'.key.owner = None
      BY <1>1, <1>5, <2>2, CoDelete
    <2>4. CoFresh(server', n, c) /\ CoSure(server', n, c)
      BY <1>2, <2>1, <2>3 DEF CoFresh, CoSure
    <2> HIDE DEF c
    <2>5. CoClient(server', n, CO!Finish(c))
      BY <1>2, <2>4, CoFinish
    <2>6. QED BY <1>1, <2>3, <2>5, CoStepOf
  <1>6. QED BY <1>3, <1>4, <1>5 DEF CO!DeleteKey, CO!GiveUp

(* The key goes with its session, and no sooner than the last answer that   *)
(* vouches for it.                                                          *)
LEMMA CoTick ==
  ASSUME CoAssume, CoInv, CO!Tick
  PROVE  CoInv' /\ CoOwnerStep
  <1> DEFINE L == [x \in CO!Sessions |-> CO!Less(server.left[x])]
             gone == server.key.owner # None /\ L[server.key.session] = 0
             s == IF gone THEN CO!Delete(server) ELSE server
  <1>0. CoServer(server) /\ server \in CoServers /\ client \in [Nodes -> CoClients]
    BY DEF CoInv, CoServer
  <1>1. /\ server' = [s EXCEPT !.left = L]
        /\ client' = [n \in Nodes |-> [client[n] EXCEPT
                 !.sure = CO!Less(client[n].sure), !.fresh = CO!Less(client[n].fresh),
                 !.age = IF CO!Idle(client[n]) THEN 0 ELSE client[n].age + 1]]
        /\ \A n \in Nodes : CO!Idle(client[n]) \/ client[n].age < TTL - LoopWait
    BY DEF CO!Tick
  <1>2. \A x \in CO!Sessions :
          /\ server.left[x] \in Nat /\ L[x] \in 0..TTL /\ L[x] \in Nat
          /\ L[x] + 1 >= server.left[x] /\ (server.left[x] > 0 => L[x] = server.left[x] - 1)
          /\ (L[x] > 0 => server.left[x] > 0)
    <2> TAKE x \in CO!Sessions
    <2>1. server.left[x] \in 0..TTL /\ TTL \in Nat /\ L[x] = CO!Less(server.left[x])
      BY <1>0 DEF CoServers, CoAssume
    <2> HIDE DEF L
    <2>2. QED BY <2>1 DEF CO!Less
  <1>3. L \in [CO!Sessions -> 0..TTL]
    BY <1>2
  <1>4. /\ s \in CoServers /\ s.index \in Nat /\ server.index \in Nat /\ s.index >= server.index
        /\ ~gone => s.key = server.key /\ s.index = server.index
        /\ gone => s.key = CO!NoKey
    <2>1. server.index \in Nat /\ server.index + 1 \in Nat /\ CO!NoKey \in CoKeys
      BY <1>0 DEF CoServers, CoKeys, CO!NoKey
    <2>2. CASE gone
      <3> DEFINE i == server.index + 1
      <3>1. s = [server EXCEPT !.key = CO!NoKey, !.index = i]
        BY <1>0, <2>2 DEF CO!Delete, CoServers
      <3>2. i \in Nat /\ i >= server.index
        BY <2>1
      <3> HIDE DEF i, s, gone
      <3>3. s \in CoServers /\ s.key = CO!NoKey /\ s.index = i
        BY <1>0, <2>1, <3>1, <3>2 DEF CoServers
      <3>4. QED BY <2>1, <2>2, <3>2, <3>3
    <2>3. CASE ~gone
      <3>1. s = server
        BY <2>3
      <3> HIDE DEF s, gone
      <3>2. QED BY <1>0, <2>1, <2>3, <3>1
    <2>4. QED BY <2>2, <2>3
  <1> HIDE DEF L, s
  <1>5. server' \in CoServers /\ server'.key = s.key /\ server'.index = s.index /\ server'.left = L
    BY <1>1, <1>3, <1>4 DEF CoServers
  <1>6. CoServer(server')
    <2>1. CASE gone
      BY <1>4, <1>5, <2>1 DEF CoServer, CO!NoKey, CoAssume
    <2>2. CASE ~gone
      <3>1. server.key.owner # None => server.key.session \in CO!Sessions /\ L[server.key.session] > 0
        BY <1>0, <1>2, <2>2 DEF CoServer
      <3>2. QED BY <1>0, <1>4, <1>5, <2>2, <3>1 DEF CoServer
    <2>3. QED BY <2>1, <2>2
  <1>7. CoOwnerStep
    BY <1>4, <1>5 DEF CoOwnerStep, CO!NoKey
  <1>8. ASSUME NEW n \in Nodes PROVE client'[n] \in CoClients /\ CoClient(server', n, client'[n])
    <2> DEFINE c == client[n]
               d == client'[n]
               age == IF CO!Idle(c) THEN 0 ELSE c.age + 1
               sure == CO!Less(c.sure)
               fresh == CO!Less(c.fresh)
    <2>1. /\ c \in CoClients /\ c.sure \in Nat /\ c.fresh \in Nat /\ c.age \in Nat /\ c.created \in Nat
          /\ c.session \in CO!Sessions \cup {None} /\ c.view \in CoKeys /\ c.view.index \in Nat
      <3>1. c \in CoClients /\ MaxSession \in Nat
        BY <1>0 DEF CoAssume
      <3>2. c.created \in 0..MaxSession /\ c.view \in CoKeys
        BY <3>1 DEF CoClients
      <3>3. c.created \in Nat /\ c.view.index \in Nat
        BY <3>1, <3>2 DEF CoKeys
      <3>4. QED BY <3>1, <3>2, <3>3 DEF CoClients
    <2>2. CoTyped(n, c) /\ CoFresh(server, n, c) /\ CoSure(server, n, c) /\ CoView(server, n, c) /\ CoOp(server, n, c)
      BY DEF CoInv, CoClient
    <2>3. d = [c EXCEPT !.sure = sure, !.fresh = fresh, !.age = age]
      BY <1>1
    <2>4. /\ age \in Nat /\ sure \in Nat /\ fresh \in Nat
          /\ (sure > 0 => c.sure > 1 /\ sure = c.sure - 1) /\ (fresh > 0 => c.fresh > 1 /\ fresh = c.fresh - 1)
          /\ (c.op # "idle" => age = c.age + 1)
      BY <2>1 DEF CO!Less, CO!Idle
    <2>5. age + LoopWait <= TTL
      <3>1. TTL \in Nat /\ LoopWait \in Nat /\ LoopWait <= TTL
        BY DEF CoAssume
      <3>2. CASE CO!Idle(c)
        BY <3>1, <3>2
      <3>3. CASE ~CO!Idle(c)
        <4>1. c.age < TTL - LoopWait
          BY <1>1, <3>3
        <4>2. QED BY <2>1, <3>1, <3>3, <4>1
      <3>4. QED BY <3>2, <3>3
    <2> HIDE DEF age, sure, fresh, c, d
    <2>6. /\ d \in CoClients /\ d.view = c.view /\ d.op = c.op /\ d.session = c.session /\ d.created = c.created
          /\ d.fresh = fresh /\ d.age = age /\ d.sure = sure
      BY <2>1, <2>3, <2>4 DEF CoClients
    <2>7. CoTyped(n, d)
      BY <2>2, <2>5, <2>6 DEF CoTyped
    <2>8. gone => server.key.session \in CO!Sessions /\ server.left[server.key.session] <= 1
      <3>1. server.key.owner # None => server.key.session \in CO!Sessions
        BY <1>0 DEF CoServer
      <3>2. QED BY <1>2, <3>1
    <2>9. CoFresh(server', n, d)
      <3>1. d.fresh > 0 /\ d.session # None => L[d.session] + LoopWait >= TTL + d.fresh
        <4> SUFFICES ASSUME d.fresh > 0, d.session # None PROVE L[d.session] + LoopWait >= TTL + d.fresh
          OBVIOUS
        <4> DEFINE a == server.left[c.session]
                   b == L[c.session]
        <4>1. a + LoopWait >= TTL + c.fresh /\ fresh = c.fresh - 1 /\ c.fresh > 1
          BY <2>1, <2>2, <2>4, <2>6 DEF CoFresh
        <4>2. c.session \in CO!Sessions
          BY <2>1, <2>6
        <4>3. a \in Nat /\ b \in Nat /\ b + 1 >= a
          BY <1>2, <4>2
        <4>4. TTL \in Nat /\ LoopWait \in Nat
          BY DEF CoAssume
        <4> HIDE DEF a, b
        <4>5. b + LoopWait >= TTL + fresh
          BY <2>1, <2>4, <4>1, <4>3, <4>4
        <4>6. QED BY <2>6, <4>5 DEF b
      <3>2. server'.key.owner = n => server'.key.session[2] <= d.created
        BY <1>4, <1>5, <2>2, <2>6 DEF CoFresh, CO!NoKey, CoAssume
      <3>3. QED BY <1>5, <3>1, <3>2 DEF CoFresh
    <2>10. CoSure(server', n, d)
      <3> SUFFICES ASSUME d.sure > 0 PROVE server'.key.owner = n /\ d.sure <= server'.left[server'.key.session]
        BY DEF CoSure
      <3>1. c.sure > 1 /\ sure = c.sure - 1 /\ server.key.owner = n /\ c.sure <= server.left[server.key.session]
        BY <2>1, <2>2, <2>4, <2>6 DEF CoSure
      <3>2. server.key.session \in CO!Sessions
        BY <1>0, <3>1 DEF CoServer, CoAssume
      <3>3. server.left[server.key.session] \in Nat /\ L[server.key.session] \in Nat
            /\ L[server.key.session] + 1 >= server.left[server.key.session]
        BY <1>2, <3>2
      <3>4. ~gone /\ sure <= L[server.key.session]
        BY <2>1, <2>4, <3>1, <3>3
      <3>5. QED BY <1>4, <1>5, <2>6, <3>1, <3>4
    <2>11. CoView(server', n, d)
      <3> SUFFICES ASSUME c.view.owner = n PROVE CoView(server', n, d)
        BY <2>6 DEF CoView
      <3>1. /\ c.view.session \in CO!Sessions /\ c.view.session[1] = n /\ c.view.session[2] <= c.created
            /\ c.view.index <= server.index
        BY <2>2 DEF CoView
      <3>2. c.view.index <= server'.index
        BY <1>4, <1>5, <2>1, <3>1
      <3>3. server'.key.owner # None /\ server'.key.index = c.view.index => server'.key = c.view
        BY <1>4, <1>5, <2>2 DEF CoView, CO!NoKey
      <3>4. c.view.session = c.session /\ L[c.session] > 0 => server'.key.owner = n /\ server'.key.session = c.session
        <4> SUFFICES ASSUME c.view.session = c.session, L[c.session] > 0
                     PROVE  server'.key.owner = n /\ server'.key.session = c.session
          OBVIOUS
        <4>1. server.left[c.session] > 0
          BY <1>2, <3>1
        <4>2. server.key.owner = n /\ server.key.session = c.session
          BY <2>2, <4>1 DEF CoView
        <4>3. ~gone
          BY <4>2
        <4>4. QED BY <1>4, <1>5, <4>2, <4>3
      <3>5. QED BY <1>5, <2>6, <3>1, <3>2, <3>3, <3>4 DEF CoView
    <2>12. CoOp(server', n, d)
      <3>1. /\ c.op \in {"unlock", "relock", "release"} => sure = 0
            /\ c.op \in {"update", "unlock", "relock", "release"} => c.view.owner = n
        BY <2>1, <2>2 DEF CoOp, sure, CO!Less
      <3>2. ASSUME c.session # None, c.op # "idle", NEW k \in Nat, server.left[c.session] + c.age + k >= TTL
            PROVE  L[c.session] + age + k >= TTL
        <4>1. c.session \in CO!Sessions
          BY <2>1, <3>2
        <4>2. L[c.session] \in Nat /\ server.left[c.session] \in Nat /\ L[c.session] + 1 >= server.left[c.session]
          BY <1>2, <4>1
        <4>3. TTL \in Nat /\ age = c.age + 1
          BY <2>4, <3>2 DEF CoAssume
        <4>4. QED BY <2>1, <3>2, <4>2, <4>3
      <3>3. c.op \in {"unlock", "relock"} =>
              c.view.session # c.session /\ c.session # None /\ L[c.session] + age >= TTL
        <4> SUFFICES ASSUME c.op \in {"unlock", "relock"}
                     PROVE  c.view.session # c.session /\ c.session # None /\ L[c.session] + age >= TTL
          OBVIOUS
        <4>1. c.view.session # c.session /\ c.session # None /\ server.left[c.session] + c.age >= TTL /\ c.op # "idle"
          BY <2>2 DEF CoOp
        <4>2. c.session \in CO!Sessions
          BY <2>1, <4>1
        <4>3. server.left[c.session] \in Nat /\ L[c.session] \in Nat
          BY <1>2, <4>2
        <4>4. server.left[c.session] + c.age + 0 >= TTL
          BY <2>1, <4>1, <4>3
        <4>5. L[c.session] + age + 0 >= TTL
          BY <3>2, <4>1, <4>4
        <4>6. QED BY <2>4, <4>1, <4>3, <4>5
      <3>4. c.op = "lock" => c.session # None /\ L[c.session] + age + LoopWait >= TTL
        BY <2>2, <3>2 DEF CoOp, CoAssume
      <3>5. QED BY <1>5, <2>6, <3>1, <3>3, <3>4 DEF CoOp
    <2>13. QED BY <2>6, <2>7, <2>9, <2>10, <2>11, <2>12 DEF CoClient, d
  <1>9. client' \in [Nodes -> CoClients]
    BY <1>1, <1>8
  <1>10. QED BY <1>6, <1>7, <1>8, <1>9 DEF CoInv

(* Consul starts in its invariant and with a free key.                      *)
LEMMA CoStart ==
  ASSUME CoAssume, CO!Init
  PROVE  CoInv /\ CO!Contract!KeyInit
  <1>1. CO!NoKey \in CoKeys /\ CO!Unknown \in CoKeys /\ CO!Unknown.owner = "unknown" /\ CO!NoKey.owner = None
        /\ 0 \in 0..TTL /\ 0 \in 0..MaxSession /\ 0 \in Nat
    BY DEF CO!NoKey, CO!Unknown, CoKeys, CoAssume
  <1>2. server = [key |-> CO!NoKey, index |-> 0, left |-> [x \in CO!Sessions |-> 0]]
    BY DEF CO!Init
  <1>3. server \in CoServers /\ server.key = CO!NoKey
    BY <1>1, <1>2 DEF CoServers
  <1>4. CoServer(server)
    BY <1>1, <1>3 DEF CoServer, CoAssume
  <1>5. ASSUME NEW n \in Nodes
        PROVE  /\ client[n] \in CoClients /\ client[n].session = None /\ client[n].sure = 0 /\ client[n].age = 0
               /\ client[n].fresh = 0 /\ client[n].op = "idle" /\ client[n].view.owner = "unknown"
    <2>1. client[n] = [op |-> "idle", session |-> None, created |-> 0, fresh |-> 0,
                       view |-> CO!Unknown, age |-> 0, sure |-> 0]
      BY DEF CO!Init
    <2>2. QED BY <1>1, <2>1 DEF CoClients, CoOps
  <1>6. ASSUME NEW n \in Nodes PROVE CoClient(server, n, client[n])
    <2>1. n # "unknown" /\ n # None /\ 0 + LoopWait <= TTL
      BY DEF CoAssume
    <2>2. QED BY <1>1, <1>3, <1>5, <2>1 DEF CoClient, CoTyped, CoFresh, CoSure, CoView, CoOp
  <1>7. client \in [Nodes -> CoClients]
    BY <1>5 DEF CO!Init
  <1>8. CO!Contract!KeyInit
    BY <1>1, <1>3, <1>5 DEF CO!Contract!KeyInit, CO!Owner, CO!Sure
  <1>9. QED BY <1>4, <1>6, <1>7, <1>8 DEF CoInv

(* Every step of Consul keeps the invariant and is a step of LeaderKey.     *)
LEMMA CoStep ==
  ASSUME CoAssume, CoInv, [CO!Next]_(CO!vars)
  PROVE  CoInv' /\ [CO!Contract!KeyNext]_(CO!Contract!keyVars)
  <1>1. CASE UNCHANGED CO!vars
    <2>1. server' = server /\ client' = client
      BY <1>1 DEF CO!vars
    <2>2. QED BY <2>1 DEF CO!Contract!keyVars, CO!Owner, CO!Sure, CoInv
  <1>2. CASE CO!Next
    <2>1. CoInv' /\ CoOwnerStep
      BY <1>2, CoLoadCall, CoRefresh, CoAcquire, CoUnlock, CoRelock, CoEndOfCall, CoTick DEF CO!Next
    <2>2. server'.key.owner \in Owners /\ CO!Sure' \subseteq {server'.key.owner} /\ CO!Sure' \subseteq Nodes
      BY <2>1 DEF CoInv, CoServer, CoServers, CoKeys, CoClient, CoSure, CO!Sure, Owners
    <2>3. CO!Contract!KeyNext
      <3>1. CASE server'.key.owner = None
        BY <2>2, <3>1 DEF CO!Contract!KeyNext, CO!Contract!Free, CO!Owner, CoAssume
      <3>2. CASE server'.key.owner \in Nodes /\ server.key.owner = None
        BY <2>2, <3>2 DEF CO!Contract!KeyNext, CO!Contract!Acquire, CO!Owner
      <3>3. CASE server'.key.owner \in Nodes /\ server.key.owner = server'.key.owner /\ CO!Sure' = {}
        BY <3>3 DEF CO!Contract!KeyNext, CO!Contract!Doubt, CO!Owner
      <3>4. CASE server'.key.owner \in Nodes /\ server.key.owner = server'.key.owner /\ CO!Sure' # {}
        BY <2>2, <3>4 DEF CO!Contract!KeyNext, CO!Contract!Confirm, CO!Owner
      <3>5. QED BY <2>1, <2>2, <3>1, <3>2, <3>3, <3>4 DEF CoOwnerStep, Owners
    <2>4. QED BY <2>1, <2>3
  <1>3. QED BY <1>1, <1>2

(* attempt_to_acquire_leader(), update_leader() and delete_leader() of      *)
(* Consul implement LeaderKey, with sessions that are replaced or forgotten *)
(* and requests whose answer is lost, if an update whose own requests       *)
(* failed does not count (TrustRelock).                                     *)
THEOREM ConsulKey ==
  ASSUME CoAssume
  PROVE  CO!Spec => CO!KeyImplemented
  <1>1. CO!Init => CoInv /\ CO!Contract!KeyInit
    BY CoStart
  <1>2. CoInv /\ [CO!Next]_(CO!vars) => CoInv' /\ [CO!Contract!KeyNext]_(CO!Contract!keyVars)
    BY CoStep
  <1>3. QED BY <1>1, <1>2, PTL DEF CO!Spec, CO!KeyImplemented, CO!Contract!KeySpec

-----------------------------------------------------------------------------
(* Etcd v3, with a cache that is read when the watch has caught up          *)
(* (StaleCache = FALSE).                                                    *)

E3Ops == {"idle", "touch", "acquire", "update", "release", "create", "reattach"}
E3Keys == [owner : Nodes \cup {None, "unknown"}, lease : E3!Leases \cup {None}, rev : Nat]
E3Servers == [hist : Seq(E3Keys), left : [E3!Leases -> 0..TTL]]
E3Clients == [op : E3Ops, lease : E3!Leases \cup {None}, fresh : Nat, cache : E3Keys, pos : Nat,
              view : E3Keys, granted : 0..MaxLease, age : Nat, sure : Nat]

(* Revisions are numbered, and the key is attached to a live lease of its   *)
(* owner.                                                                   *)
E3Server(s) ==
  /\ s \in E3Servers /\ E3!Rev(s) \in Nat
  /\ \A i \in 1..E3!Rev(s) : E3!At(s, i) \in E3Keys /\ E3!At(s, i).rev = i /\ E3!At(s, i).owner # "unknown"
  /\ E3!Key(s) \in E3Keys /\ E3!Key(s).owner # "unknown" /\ E3!Key(s).rev = E3!Rev(s)
  /\ E3!Key(s).owner # None =>
       /\ E3!Key(s).lease \in E3!Leases /\ E3!Key(s).lease[1] = E3!Key(s).owner
       /\ s.left[E3!Key(s).lease] > 0

E3Typed(n, c) ==
  /\ c \in E3Clients
  /\ c.lease # None => c.lease[1] = n /\ c.lease[2] <= c.granted
  /\ c.age + LoopWait <= TTL

(* A lease that need not be refreshed yet has almost a ttl left, and the    *)
(* lease of a key is one that was granted to its owner.                     *)
E3Fresh(s, n, c) ==
  /\ c.fresh > 0 /\ c.lease # None => s.left[c.lease] + LoopWait >= TTL + c.fresh
  /\ E3!Key(s).owner = n => E3!Key(s).lease[2] <= c.granted

(* The cache holds a revision of the key, and the present one when the      *)
(* watch has caught up: a deletion leaves nothing to compare with, but then *)
(* the watch is behind.                                                     *)
E3Cache(s, c) ==
  /\ c.pos <= E3!Rev(s)
  /\ \/ c.cache = E3!NoKey
     \/ c.cache.rev \in 1..E3!Rev(s) /\ c.cache = E3!At(s, c.cache.rev) /\ c.cache.owner # None
  /\ c.pos = E3!Rev(s) => c.cache = IF E3!Key(s).owner = None THEN E3!NoKey ELSE E3!Key(s)

(* A node that is sure owns the key for at least as long.                   *)
E3Sure(s, n, c) == c.sure > 0 => E3!Key(s).owner = n /\ c.sure <= s.left[E3!Key(s).lease]

(* What a node has seen of its own key.                                     *)
E3View(s, n, c) ==
  c.view.owner = n =>
    /\ c.view.lease \in E3!Leases /\ c.view.lease[1] = n /\ c.view.lease[2] <= c.granted
    /\ c.view.lease = c.lease /\ s.left[c.lease] > 0 => E3!Key(s).owner = n /\ E3!Key(s).lease = c.lease

(* How far a call has come.                                                 *)
E3Op(s, n, c) ==
  /\ c.op = "release" => c.sure = 0
  /\ c.op \in {"update", "reattach", "release"} => c.view.owner = n
  /\ c.op = "reattach" => c.lease # None /\ s.left[c.lease] + c.age >= TTL /\ c.sure <= s.left[c.lease]
  /\ c.op = "create" => c.lease # None /\ s.left[c.lease] + c.age + LoopWait >= TTL

E3Client(s, n, c) ==
  /\ E3Typed(n, c) /\ E3Fresh(s, n, c) /\ E3Cache(s, c) /\ E3Sure(s, n, c)
  /\ E3View(s, n, c) /\ E3Op(s, n, c)

E3Inv == E3Server(server) /\ client \in [Nodes -> E3Clients] /\ \A n \in Nodes : E3Client(server, n, client[n])

E3Assume ==
  /\ TTL \in Nat \ {0} /\ LoopWait \in Nat /\ LoopWait <= TTL /\ MaxLease \in Nat
  /\ None \notin Nodes /\ None \notin E3!Leases /\ "unknown" \notin Nodes /\ None # "unknown"
  /\ StaleCache = FALSE

(* A step of the node n changes its own leases, and the key only from free  *)
(* to its own and back.                                                     *)
E3Change(n, s, t) ==
  /\ \/ E3!Rev(t) = E3!Rev(s) /\ E3!Key(t) = E3!Key(s)
     \/ E3!Rev(t) > E3!Rev(s) /\ E3!Key(s).owner \in {None, n} /\ E3!Key(t).owner \in {None, n}
  /\ \A i \in 1..E3!Rev(s) : E3!At(t, i) = E3!At(s, i)
  /\ \A x \in E3!Leases : x[1] # n => t.left[x] = s.left[x]

E3OwnerStep == E3!Key(server').owner \in {E3!Key(server).owner, None} \/ E3!Key(server).owner = None

(* A cache stays what it is when revisions are added.                       *)
LEMMA E3CacheKept ==
  ASSUME E3Assume, NEW n \in Nodes, NEW s, NEW t, NEW c, c \in E3Clients,
         E3Server(s), E3Server(t), E3Change(n, s, t), E3Cache(s, c)
  PROVE  E3Cache(t, c)
  <1>1. E3!Rev(s) \in Nat /\ E3!Rev(t) \in Nat /\ c.pos \in Nat /\ E3!Rev(t) >= E3!Rev(s) /\ c.cache.rev \in Nat
    BY DEF E3Server, E3Clients, E3Change, E3Keys
  <1>2. c.pos <= E3!Rev(t) /\ (c.pos = E3!Rev(t) => c.pos = E3!Rev(s) /\ E3!Key(t) = E3!Key(s))
    BY <1>1 DEF E3Cache, E3Change
  <1>3. \/ c.cache = E3!NoKey
        \/ c.cache.rev \in 1..E3!Rev(t) /\ c.cache = E3!At(t, c.cache.rev) /\ c.cache.owner # None
    <2>1. CASE c.cache.rev \in 1..E3!Rev(s) /\ c.cache = E3!At(s, c.cache.rev) /\ c.cache.owner # None
      <3>1. E3!At(t, c.cache.rev) = E3!At(s, c.cache.rev)
        BY <2>1 DEF E3Change
      <3>2. c.cache.rev \in 1..E3!Rev(t)
        BY <1>1, <2>1
      <3>3. QED BY <2>1, <3>1, <3>2
    <2>2. QED BY <2>1 DEF E3Cache
  <1>4. QED BY <1>2, <1>3 DEF E3Cache

(* The others notice nothing that matters to them.                          *)
LEMMA E3Others ==
  ASSUME E3Assume, NEW n \in Nodes, NEW m \in Nodes, m # n, NEW s, NEW t, NEW c,
         E3Server(s), E3Server(t), E3Change(n, s, t), E3Client(s, m, c)
  PROVE  E3Client(t, m, c)
  <1>1. c \in E3Clients /\ c.lease \in E3!Leases \cup {None} /\ m # None
    BY DEF E3Client, E3Typed, E3Clients, E3Assume
  <1>2. c.lease # None => c.lease \in E3!Leases /\ t.left[c.lease] = s.left[c.lease]
    BY <1>1 DEF E3Client, E3Typed, E3Change
  <1>3. /\ E3!Key(s).owner = m => E3!Key(t) = E3!Key(s) /\ t.left[E3!Key(s).lease] = s.left[E3!Key(s).lease]
        /\ E3!Key(t).owner = m => E3!Key(t) = E3!Key(s)
    BY <1>1 DEF E3Change, E3Server
  <1>4. E3Typed(m, c)
    BY DEF E3Client
  <1>5. E3Fresh(t, m, c)
    BY <1>2, <1>3 DEF E3Client, E3Fresh
  <1>6. E3Cache(t, c)
    BY <1>1, E3CacheKept DEF E3Client
  <1>7. E3Sure(t, m, c)
    BY <1>3 DEF E3Client, E3Sure
  <1>8. E3View(t, m, c)
    BY <1>2, <1>3 DEF E3Client, E3View, E3Assume
  <1>9. E3Op(t, m, c)
    BY <1>2 DEF E3Client, E3Op
  <1>10. QED BY <1>4, <1>5, <1>6, <1>7, <1>8, <1>9 DEF E3Client

(* What a step of the node n has to show.                                   *)
LEMMA E3StepOf ==
  ASSUME E3Assume, E3Inv, NEW n \in Nodes, NEW d, client' = [client EXCEPT ![n] = d],
         E3Server(server'), E3Client(server', n, d), E3Change(n, server, server')
  PROVE  E3Inv' /\ E3OwnerStep
  <1>1. d \in E3Clients /\ client \in [Nodes -> E3Clients]
    BY DEF E3Inv, E3Client, E3Typed
  <1>2. client' \in [Nodes -> E3Clients] /\ client'[n] = d /\ \A m \in Nodes : m # n => client'[m] = client[m]
    BY <1>1
  <1>3. ASSUME NEW m \in Nodes PROVE E3Client(server', m, client'[m])
    <2>1. CASE m = n
      BY <1>2, <2>1
    <2>2. CASE m # n
      <3>1. E3Server(server) /\ E3Client(server, m, client[m])
        BY DEF E3Inv
      <3>2. QED BY <1>2, <2>2, <3>1, E3Others
    <2>3. QED BY <2>1, <2>2
  <1>4. E3Inv'
    BY <1>2, <1>3 DEF E3Inv
  <1>5. E3OwnerStep
    BY DEF E3Change, E3OwnerStep
  <1>6. QED BY <1>4, <1>5

(* A step that leaves the cluster alone.                                    *)
LEMMA E3Quiet ==
  ASSUME E3Assume, E3Inv, NEW n \in Nodes, NEW d, client' = [client EXCEPT ![n] = d], server' = server,
         E3Client(server, n, d)
  PROVE  E3Inv' /\ E3OwnerStep
  <1>1. E3Server(server) /\ E3Change(n, server, server)
    BY DEF E3Inv, E3Change
  <1>2. E3Server(server') /\ E3Client(server', n, d) /\ E3Change(n, server, server')
    BY <1>1
  <1>3. QED BY <1>2, E3StepOf

(* The end of a call: the node forgets what it had seen.                    *)
LEMMA E3End ==
  ASSUME E3Assume, NEW s, NEW n \in Nodes, NEW c, E3Typed(n, c), E3Fresh(s, n, c), E3Cache(s, c), NEW good \in Nat,
         good > 0 => E3!Key(s).owner = n /\ good <= s.left[E3!Key(s).lease]
  PROVE  E3Client(s, n, [E3!Finish(c) EXCEPT !.sure = good])
  <1> DEFINE d == [E3!Finish(c) EXCEPT !.sure = good]
  <1>1. d = [c EXCEPT !.op = "idle", !.view = E3!Unknown, !.sure = good]
    BY DEF E3!Finish, E3Typed, E3Clients
  <1>2. E3!Unknown \in E3Keys /\ E3!Unknown.owner = "unknown"
    BY DEF E3!Unknown, E3Keys
  <1> HIDE DEF d
  <1>3. c \in E3Clients
    BY DEF E3Typed
  <1>4. /\ d \in E3Clients /\ d.op = "idle" /\ d.view.owner = "unknown" /\ d.sure = good /\ d.lease = c.lease
        /\ d.granted = c.granted /\ d.age = c.age /\ d.fresh = c.fresh /\ d.cache = c.cache /\ d.pos = c.pos
    BY <1>1, <1>2, <1>3 DEF E3Clients, E3Ops
  <1>5. E3Typed(n, d) /\ E3Fresh(s, n, d) /\ E3Sure(s, n, d) /\ E3Cache(s, d)
    BY <1>4 DEF E3Typed, E3Fresh, E3Sure, E3Cache
  <1>6. E3View(s, n, d) /\ E3Op(s, n, d)
    BY <1>4 DEF E3View, E3Op, E3Assume
  <1>7. QED BY <1>5, <1>6 DEF E3Client, d

(* A call ends and forgets what it loaded.                                  *)
LEMMA E3Finish ==
  ASSUME E3Assume, NEW s, NEW n \in Nodes, NEW c, E3Typed(n, c), E3Fresh(s, n, c), E3Cache(s, c), E3Sure(s, n, c)
  PROVE  E3Client(s, n, E3!Finish(c))
  <1>1. c.sure \in Nat /\ E3!Finish(c) = [E3!Finish(c) EXCEPT !.sure = c.sure]
    BY DEF E3Typed, E3Clients, E3!Finish
  <1>2. QED BY <1>1, E3End DEF E3Sure

(* A transaction that writes a revision of the key.                         *)
E3Written(n, s, o, x, t) ==
  /\ E3Server(t) /\ E3Change(n, s, t) /\ E3!Rev(t) = E3!Rev(s) + 1 /\ t.left = s.left
  /\ E3!Key(t).owner = o /\ E3!Key(t).lease = x /\ E3!Key(t).rev = E3!Rev(s) + 1
  /\ E3!Key(t) = E3!At(t, E3!Rev(s) + 1)

(* Writing or deleting the key adds one version of it.                      *)
LEMMA E3Put ==
  ASSUME E3Assume, NEW n \in Nodes, NEW s, E3Server(s), E3!Key(s).owner \in {None, n}, NEW o, NEW x,
         \/ o = None /\ x = None
         \/ o = n /\ x \in E3!Leases /\ x[1] = n /\ s.left[x] > 0
  PROVE  E3Written(n, s, o, x, E3!Put(s, o, x))
  <1> DEFINE r == E3!Rev(s)
             k == [owner |-> o, lease |-> x, rev |-> r + 1]
             H == Append(s.hist, k)
             t == E3!Put(s, o, x)
  <1>1. s \in E3Servers /\ r \in Nat /\ s.hist \in Seq(E3Keys) /\ r = Len(s.hist)
    BY DEF E3Server, E3Servers, E3!Rev
  <1>2. k \in E3Keys /\ k.owner = o /\ k.lease = x /\ k.rev = r + 1
    BY <1>1 DEF E3Keys
  <1> HIDE DEF k
  <1>3. /\ H \in Seq(E3Keys) /\ Len(H) = r + 1 /\ H[r + 1] = k
        /\ \A i \in 1..r : H[i] = s.hist[i]
    BY <1>1, <1>2
  <1>4. t = [s EXCEPT !.hist = H]
    BY <1>1 DEF E3!Put, E3Servers, k
  <1> HIDE DEF H, t
  <1>5. t \in E3Servers /\ t.hist = H /\ t.left = s.left
    BY <1>1, <1>3, <1>4 DEF E3Servers
  <1>6. E3!Rev(t) = r + 1 /\ r + 1 # 0 /\ r + 1 \in Nat /\ r + 1 > r
    BY <1>1, <1>3, <1>5 DEF E3!Rev
  <1>7. E3!Key(t) = k /\ E3!At(t, r + 1) = k
    BY <1>3, <1>5, <1>6 DEF E3!Key, E3!At
  <1>8. \A i \in 1..r : E3!At(t, i) = E3!At(s, i)
    <2> TAKE i \in 1..r
    <2>1. i # 0
      BY <1>1
    <2>2. QED BY <1>3, <1>5, <2>1 DEF E3!At
  <1>9. o # "unknown"
    BY DEF E3Assume
  <1>10. \A i \in 1..(r + 1) : E3!At(t, i) \in E3Keys /\ E3!At(t, i).rev = i /\ E3!At(t, i).owner # "unknown"
    <2> TAKE i \in 1..(r + 1)
    <2>1. CASE i = r + 1
      BY <1>2, <1>7, <1>9, <2>1
    <2>2. CASE i \in 1..r
      BY <1>8, <2>2 DEF E3Server
    <2>3. QED BY <1>1, <2>1, <2>2
  <1>11. E3Server(t)
    BY <1>2, <1>5, <1>6, <1>7, <1>9, <1>10 DEF E3Server, E3Assume
  <1>12. E3Change(n, s, t)
    BY <1>2, <1>5, <1>6, <1>7, <1>8 DEF E3Change
  <1>13. QED BY <1>2, <1>5, <1>6, <1>7, <1>11, <1>12 DEF E3Written, t

(* A lease of the node n gets a full ttl.                                   *)
E3Renewed(n, s, x, t) ==
  /\ E3Server(t) /\ E3Change(n, s, t) /\ E3!Key(t) = E3!Key(s) /\ E3!Rev(t) = E3!Rev(s)
  /\ t.left[x] = TTL
  /\ \A y \in E3!Leases : t.left[y] \in Nat /\ s.left[y] \in Nat /\ t.left[y] >= s.left[y] /\ s.left[y] <= TTL

(* Renewing or creating a lease of the node changes nothing else.           *)
LEMMA E3Renew ==
  ASSUME E3Assume, NEW n \in Nodes, NEW s, E3Server(s), NEW x \in E3!Leases, x[1] = n
  PROVE  E3Renewed(n, s, x, [s EXCEPT !.left[x] = TTL])
  <1> DEFINE L == [s.left EXCEPT ![x] = TTL]
             t == [s EXCEPT !.left[x] = TTL]
  <1>1. s \in E3Servers /\ s.left \in [E3!Leases -> 0..TTL] /\ TTL \in 0..TTL /\ TTL > 0
    BY DEF E3Server, E3Servers, E3Assume
  <1>2. L \in [E3!Leases -> 0..TTL] /\ L[x] = TTL /\ \A y \in E3!Leases : y # x => L[y] = s.left[y]
    BY <1>1
  <1>3. t = [s EXCEPT !.left = L]
    BY <1>1 DEF E3Servers
  <1> HIDE DEF L, t
  <1>4. t \in E3Servers /\ t.hist = s.hist /\ t.left = L
    BY <1>1, <1>2, <1>3 DEF E3Servers
  <1>5. \A y \in E3!Leases : L[y] \in Nat /\ s.left[y] \in Nat /\ L[y] >= s.left[y] /\ s.left[y] <= TTL
    <2> TAKE y \in E3!Leases
    <2>1. s.left[y] \in 0..TTL /\ L[y] \in 0..TTL /\ TTL \in Nat
      BY <1>1, <1>2 DEF E3Assume
    <2>2. L[y] = TTL \/ L[y] = s.left[y]
      BY <1>2
    <2>3. QED BY <2>1, <2>2
  <1>6. E3!Rev(t) = E3!Rev(s) /\ E3!Key(t) = E3!Key(s) /\ \A i : E3!At(t, i) = E3!At(s, i)
    BY <1>4 DEF E3!Rev, E3!Key, E3!At
  <1>7. E3Server(t)
    <2>1. E3!Key(s).owner # None => E3!Key(s).lease \in E3!Leases /\ L[E3!Key(s).lease] > 0
      BY <1>5 DEF E3Server
    <2>2. QED BY <1>4, <1>6, <2>1 DEF E3Server
  <1>8. E3Change(n, s, t)
    BY <1>2, <1>4, <1>6 DEF E3Change
  <1>9. E3Renewed(n, s, x, t)
    BY <1>2, <1>4, <1>5, <1>6, <1>7, <1>8 DEF E3Renewed
  <1>10. QED BY <1>9 DEF t

(* The watch and the cache.                                                 *)
LEMMA E3Watching ==
  ASSUME E3Assume, E3Inv, NEW n \in Nodes, E3!Deliver(n) \/ E3!BuildCache(n)
  PROVE  E3Inv' /\ E3OwnerStep
  <1> DEFINE c == client[n]
  <1>1. /\ c \in E3Clients /\ E3Client(server, n, c) /\ server' = server /\ client \in [Nodes -> E3Clients]
        /\ E3Server(server)
    BY DEF E3Inv, E3!Deliver, E3!BuildCache
  <1>2. /\ E3!NoKey \in E3Keys /\ E3!NoKey.owner = None /\ E3!NoKey.rev = 0 /\ E3!NoKey = E3!At(server, 0)
        /\ E3!Key(server) = E3!At(server, E3!Rev(server))
    BY DEF E3!NoKey, E3Keys, E3!At, E3!Key
  <1>3. /\ E3!Rev(server) \in Nat /\ c.pos \in Nat /\ c.cache.rev \in Nat /\ E3!Key(server) \in E3Keys
        /\ E3!Key(server).rev = E3!Rev(server)
        /\ \A i \in 1..E3!Rev(server) : E3!At(server, i) \in E3Keys /\ E3!At(server, i).rev = i
    BY <1>1 DEF E3Server, E3Clients, E3Keys
  <1>4. ASSUME NEW k \in E3Keys, NEW p \in Nat, E3Cache(server, [c EXCEPT !.cache = k, !.pos = p]),
               client' = [client EXCEPT ![n] = [c EXCEPT !.cache = k, !.pos = p]]
        PROVE  E3Inv' /\ E3OwnerStep
    <2> DEFINE d == [c EXCEPT !.cache = k, !.pos = p]
    <2>1. /\ d \in E3Clients /\ d.op = c.op /\ d.lease = c.lease /\ d.fresh = c.fresh /\ d.view = c.view
          /\ d.granted = c.granted /\ d.age = c.age /\ d.sure = c.sure
      BY <1>1 DEF E3Clients
    <2>2. E3Cache(server, d) /\ client' = [client EXCEPT ![n] = d]
      BY <1>4
    <2> HIDE DEF c, d
    <2>3. E3Typed(n, d) /\ E3Fresh(server, n, d) /\ E3Sure(server, n, d)
      BY <1>1, <2>1 DEF E3Client, E3Typed, E3Fresh, E3Sure
    <2>4. E3View(server, n, d) /\ E3Op(server, n, d)
      BY <1>1, <2>1 DEF E3Client, E3View, E3Op
    <2>5. E3Client(server, n, d)
      BY <2>2, <2>3, <2>4 DEF E3Client
    <2>6. QED BY <1>1, <2>2, <2>5, E3Quiet
  <1>5. CASE E3!Deliver(n)
    <2> DEFINE p == c.pos + 1
               k == E3!At(server, p)
               e == E3!CacheEvent(c, k)
               new == IF c.cache.rev < k.rev THEN (IF k.owner = None THEN E3!NoKey ELSE k) ELSE c.cache
               d == [c EXCEPT !.cache = new, !.pos = p]
    <2>1. c.pos < E3!Rev(server) /\ client' = [client EXCEPT ![n] = [e EXCEPT !.pos = p]]
      BY <1>1, <1>5 DEF E3!Deliver
    <2>2. /\ p \in 1..E3!Rev(server) /\ p \in Nat /\ k \in E3Keys /\ k.rev = p
          /\ c.pos # E3!Rev(server) /\ p <= E3!Rev(server)
      BY <1>3, <2>1
    <2>3. e = [c EXCEPT !.cache = new]
      <3>1. k.owner = None => e = IF c.cache.rev < k.rev THEN [c EXCEPT !.cache = E3!NoKey] ELSE c
        BY DEF E3!CacheEvent, E3!CacheDelete
      <3>2. k.owner # None => e = IF c.cache.rev < k.rev THEN [c EXCEPT !.cache = k] ELSE c
        BY DEF E3!CacheEvent, E3!CacheSet
      <3>3. c = [c EXCEPT !.cache = c.cache]
        BY <1>1 DEF E3Clients
      <3> HIDE DEF e, k, c
      <3>4. QED BY <3>1, <3>2, <3>3
    <2>4. [e EXCEPT !.pos = p] = d
      BY <1>1, <2>3 DEF E3Clients
    <2> HIDE DEF e, k, p
    <2>5. c.cache \in E3Keys
      BY <1>1 DEF E3Clients
    <2>6. new \in E3Keys
      BY <1>2, <2>2, <2>5
    <2>7. E3Cache(server, d)
      <3>1. d.cache = new /\ d.pos = p
        BY <1>1 DEF E3Clients
      <3>2. \/ c.cache = E3!NoKey
            \/ c.cache.rev \in 1..E3!Rev(server) /\ c.cache = E3!At(server, c.cache.rev) /\ c.cache.owner # None
        BY <1>1 DEF E3Client, E3Cache
      <3>3. \/ new = E3!NoKey
            \/ new.rev \in 1..E3!Rev(server) /\ new = E3!At(server, new.rev) /\ new.owner # None
        BY <2>2, <3>2 DEF k
      <3>4. p = E3!Rev(server) => new = IF E3!Key(server).owner = None THEN E3!NoKey ELSE E3!Key(server)
        <4> SUFFICES ASSUME p = E3!Rev(server)
                     PROVE  new = IF E3!Key(server).owner = None THEN E3!NoKey ELSE E3!Key(server)
          OBVIOUS
        <4>1. k = E3!Key(server)
          BY <1>2 DEF k
        <4>2. CASE c.cache.rev < k.rev
          BY <4>1, <4>2
        <4>3. CASE ~(c.cache.rev < k.rev)
          <5>1. c.cache.rev = p /\ c.cache = k /\ c.cache.owner # None
            BY <1>2, <1>3, <2>2, <3>2, <4>3 DEF k
          <5>2. QED BY <4>1, <4>3, <5>1
        <4>4. QED BY <4>2, <4>3
      <3> HIDE DEF new, d
      <3>5. QED BY <2>2, <3>1, <3>3, <3>4 DEF E3Cache
    <2> HIDE DEF new, c
    <2>8. QED BY <1>4, <2>1, <2>2, <2>4, <2>6, <2>7
  <1>6. CASE E3!BuildCache(n)
    <2> DEFINE r == E3!Rev(server)
               k == IF E3!At(server, r).owner = None THEN E3!NoKey ELSE E3!At(server, r)
               d == [c EXCEPT !.cache = k, !.pos = r]
    <2>1. client' = [client EXCEPT ![n] = d]
      BY <1>1, <1>6 DEF E3!BuildCache, E3Assume, E3Clients
    <2>2. k \in E3Keys /\ r \in Nat /\ r <= r
      BY <1>2, <1>3
    <2>3. E3Cache(server, d)
      <3>1. d.cache = k /\ d.pos = r
        BY <1>1 DEF E3Clients
      <3>2. k = E3!NoKey \/ (k.rev \in 1..r /\ k = E3!At(server, k.rev) /\ k.owner # None)
        <4>1. CASE E3!Key(server).owner = None
          BY <1>2, <4>1
        <4>2. CASE E3!Key(server).owner # None
          <5>1. k = E3!Key(server) /\ k.rev = r /\ r # 0
            BY <1>2, <1>3, <4>2
          <5>2. QED BY <1>2, <1>3, <4>2, <5>1
        <4>3. QED BY <4>1, <4>2
      <3>3. k = IF E3!Key(server).owner = None THEN E3!NoKey ELSE E3!Key(server)
        BY <1>2
      <3> HIDE DEF d, k
      <3>4. QED BY <2>2, <3>1, <3>2, <3>3 DEF E3Cache, r
    <2> HIDE DEF k, r, c
    <2>4. QED BY <1>4, <2>1, <2>2, <2>3
  <1>7. QED BY <1>5, <1>6

(* Steps that only concern the node itself.                                 *)
LEMMA E3LoadCall ==
  ASSUME E3Assume, E3Inv, NEW n \in Nodes,
         \/ E3!Load(n) \/ E3!ForgetLease(n) \/ E3!Watch(n)
         \/ \E op \in {"touch", "acquire", "update", "release"} : E3!Call(n, op)
  PROVE  E3Inv' /\ E3OwnerStep
  <1> DEFINE c == client[n]
  <1>1. /\ c \in E3Clients /\ E3Client(server, n, c) /\ server' = server /\ client \in [Nodes -> E3Clients]
        /\ E3Server(server) /\ c.op = "idle"
    BY DEF E3Inv, E3!Load, E3!ForgetLease, E3!Watch, E3!Call, E3!Idle
  <1>2. /\ E3Typed(n, c) /\ E3Fresh(server, n, c) /\ E3Sure(server, n, c) /\ E3View(server, n, c)
        /\ E3Cache(server, c)
    BY <1>1 DEF E3Client
  <1>3. n # None /\ n # "unknown"
    BY DEF E3Assume
  <1>4. CASE E3!Load(n)
    <2> DEFINE d == [c EXCEPT !.view = c.cache]
    <2>1. client' = [client EXCEPT ![n] = d]
      BY <1>1, <1>4 DEF E3!Load
    <2>2. /\ d \in E3Clients /\ d.view = c.cache /\ d.op = c.op /\ d.lease = c.lease /\ d.granted = c.granted
          /\ d.fresh = c.fresh /\ d.age = c.age /\ d.sure = c.sure /\ d.cache = c.cache /\ d.pos = c.pos
      BY <1>1 DEF E3Clients
    <2>3. c.cache = IF E3!Key(server).owner = None THEN E3!NoKey ELSE E3!Key(server)
      BY <1>2, <1>4 DEF E3!Load, E3Assume, E3Cache
    <2> HIDE DEF c, d
    <2>4. E3Typed(n, d) /\ E3Fresh(server, n, d) /\ E3Sure(server, n, d) /\ E3Op(server, n, d) /\ E3Cache(server, d)
      BY <1>1, <1>2, <2>2 DEF E3Typed, E3Fresh, E3Sure, E3Op, E3Cache
    <2>5. E3View(server, n, d)
      <3>1. c.cache.owner = n => c.cache = E3!Key(server) /\ E3!Key(server).owner # None
        BY <1>3, <2>3 DEF E3!NoKey
      <3>2. QED BY <1>1, <1>2, <2>2, <3>1 DEF E3View, E3Server, E3Fresh
    <2>6. E3Client(server, n, d)
      BY <2>4, <2>5 DEF E3Client
    <2>7. QED BY <1>1, <2>1, <2>6, E3Quiet
  <1>5. CASE E3!ForgetLease(n)
    <2> DEFINE d == [c EXCEPT !.lease = None]
    <2>1. client' = [client EXCEPT ![n] = d]
      BY <1>1, <1>5 DEF E3!ForgetLease
    <2>2. /\ d \in E3Clients /\ d.view = c.view /\ d.op = c.op /\ d.lease = None /\ d.granted = c.granted
          /\ d.fresh = c.fresh /\ d.age = c.age /\ d.sure = c.sure /\ d.cache = c.cache /\ d.pos = c.pos
      BY <1>1 DEF E3Clients
    <2> HIDE DEF c, d
    <2>3. E3Typed(n, d) /\ E3Fresh(server, n, d) /\ E3Sure(server, n, d) /\ E3Op(server, n, d) /\ E3Cache(server, d)
      BY <1>1, <1>2, <2>2 DEF E3Typed, E3Fresh, E3Sure, E3Op, E3Cache
    <2>4. E3View(server, n, d)
      BY <1>2, <2>2 DEF E3View, E3Assume
    <2>5. E3Client(server, n, d)
      BY <2>3, <2>4 DEF E3Client
    <2>6. QED BY <1>1, <2>1, <2>5, E3Quiet
  <1>6. CASE E3!Watch(n)
    <2> DEFINE d == [c EXCEPT !.fresh = 0, !.view = E3!Unknown]
    <2>1. client' = [client EXCEPT ![n] = d]
      BY <1>1, <1>6 DEF E3!Watch
    <2>2. E3!Unknown \in E3Keys /\ E3!Unknown.owner = "unknown"
      BY DEF E3!Unknown, E3Keys
    <2>3. /\ d \in E3Clients /\ d.view.owner = "unknown" /\ d.op = c.op /\ d.lease = c.lease /\ d.granted = c.granted
          /\ d.fresh = 0 /\ d.age = c.age /\ d.sure = c.sure /\ d.cache = c.cache /\ d.pos = c.pos
      BY <1>1, <2>2 DEF E3Clients
    <2> HIDE DEF c, d
    <2>4. E3Typed(n, d) /\ E3Fresh(server, n, d) /\ E3Sure(server, n, d) /\ E3Op(server, n, d) /\ E3Cache(server, d)
      BY <1>1, <1>2, <2>3 DEF E3Typed, E3Fresh, E3Sure, E3Op, E3Cache
    <2>5. E3View(server, n, d)
      BY <1>3, <2>3 DEF E3View
    <2>6. E3Client(server, n, d)
      BY <2>4, <2>5 DEF E3Client
    <2>7. QED BY <1>1, <2>1, <2>6, E3Quiet
  <1>7. ASSUME NEW op \in {"touch", "acquire", "update", "release"}, E3!Call(n, op)
        PROVE  E3Inv' /\ E3OwnerStep
    <2> DEFINE good == IF op = "release" THEN 0 ELSE c.sure
               d == [c EXCEPT !.op = op, !.age = 0, !.sure = good]
    <2>1. client' = [client EXCEPT ![n] = d]
      BY <1>1, <1>7 DEF E3!Call
    <2>2. op \in {"update", "release"} => c.view.owner = n
      BY <1>7 DEF E3!Call
    <2>3. good \in Nat /\ (good > 0 => good = c.sure) /\ (op = "release" => good = 0)
      BY <1>1 DEF E3Clients
    <2> HIDE DEF good
    <2>4. /\ d \in E3Clients /\ d.view = c.view /\ d.op = op /\ d.lease = c.lease /\ d.granted = c.granted
          /\ d.fresh = c.fresh /\ d.age = 0 /\ d.sure = good /\ d.cache = c.cache /\ d.pos = c.pos
      BY <1>1, <2>3 DEF E3Clients, E3Ops
    <2> HIDE DEF c, d
    <2>5. E3Typed(n, d)
      BY <1>2, <2>4 DEF E3Typed, E3Assume
    <2>6. /\ E3Fresh(server, n, d) /\ E3Sure(server, n, d) /\ E3View(server, n, d) /\ E3Op(server, n, d)
          /\ E3Cache(server, d)
      BY <1>2, <2>2, <2>3, <2>4 DEF E3Fresh, E3Sure, E3View, E3Op, E3Cache
    <2>7. E3Client(server, n, d)
      BY <2>5, <2>6 DEF E3Client
    <2>8. QED BY <1>1, <2>1, <2>7, E3Quiet
  <1>8. QED BY <1>4, <1>5, <1>6, <1>7

(* What follows a refresh of the lease, by the call it belongs to.          *)
E3Next(d) ==
  CASE d.op = "touch" -> E3!Finish(d)
    [] d.op = "acquire" -> [d EXCEPT !.op = "create"]
    [] OTHER -> IF d.view.lease = d.lease THEN [E3!Finish(d) EXCEPT !.sure = TTL - d.age]
                ELSE [d EXCEPT !.op = "reattach"]

(* A call with a live lease goes on to its request.                         *)
LEMMA E3GoesOn ==
  ASSUME E3Assume, NEW n \in Nodes, NEW t, E3Server(t), NEW d, E3Typed(n, d), E3Fresh(t, n, d), E3Sure(t, n, d),
         E3View(t, n, d), E3Cache(t, d), d.op \in {"touch", "acquire", "update"}, d.lease # None,
         d.op = "acquire" => t.left[d.lease] + d.age + LoopWait >= TTL,
         d.op = "update" => d.view.owner = n /\ t.left[d.lease] = TTL /\ d.sure <= TTL
  PROVE  E3Client(t, n, E3Next(d))
  <1>1. /\ d \in E3Clients /\ d.age \in Nat /\ d.lease \in E3!Leases /\ TTL \in Nat /\ TTL > 0
        /\ LoopWait \in Nat /\ d.age + LoopWait <= TTL
    BY DEF E3Typed, E3Clients, E3Assume
  <1>2. CASE d.op = "touch"
    BY <1>2, E3Finish DEF E3Next
  <1>3. CASE d.op = "acquire"
    <2> DEFINE e == [d EXCEPT !.op = "create"]
    <2>1. E3Next(d) = e
      BY <1>3 DEF E3Next
    <2>2. /\ e \in E3Clients /\ e.view = d.view /\ e.op = "create" /\ e.lease = d.lease /\ e.granted = d.granted
          /\ e.fresh = d.fresh /\ e.age = d.age /\ e.sure = d.sure /\ e.cache = d.cache /\ e.pos = d.pos
      BY <1>1 DEF E3Clients, E3Ops
    <2> HIDE DEF e
    <2>3. E3Typed(n, e) /\ E3Fresh(t, n, e) /\ E3Sure(t, n, e) /\ E3View(t, n, e) /\ E3Cache(t, e)
      BY <2>2 DEF E3Typed, E3Fresh, E3Sure, E3View, E3Cache
    <2>4. E3Op(t, n, e)
      BY <1>3, <2>2 DEF E3Op
    <2>5. QED BY <2>1, <2>3, <2>4 DEF E3Client
  <1>4. CASE d.op = "update" /\ d.view.lease = d.lease
    <2> DEFINE good == TTL - d.age
    <2>1. E3Next(d) = [E3!Finish(d) EXCEPT !.sure = good]
      BY <1>4 DEF E3Next
    <2>2. good \in Nat /\ good <= TTL
      BY <1>1
    <2> HIDE DEF good
    <2>3. E3!Key(t).owner = n /\ t.left[E3!Key(t).lease] = TTL
      BY <1>1, <1>4 DEF E3View
    <2>4. QED BY <2>1, <2>2, <2>3, E3End
  <1>5. CASE d.op = "update" /\ d.view.lease # d.lease
    <2> DEFINE e == [d EXCEPT !.op = "reattach"]
    <2>1. E3Next(d) = e
      BY <1>5 DEF E3Next
    <2>2. /\ e \in E3Clients /\ e.view = d.view /\ e.op = "reattach" /\ e.lease = d.lease /\ e.granted = d.granted
          /\ e.fresh = d.fresh /\ e.age = d.age /\ e.sure = d.sure /\ e.cache = d.cache /\ e.pos = d.pos
      BY <1>1 DEF E3Clients, E3Ops
    <2> HIDE DEF e
    <2>3. E3Typed(n, e) /\ E3Fresh(t, n, e) /\ E3Sure(t, n, e) /\ E3View(t, n, e) /\ E3Cache(t, e)
      BY <2>2 DEF E3Typed, E3Fresh, E3Sure, E3View, E3Cache
    <2>4. TTL + d.age >= TTL
      BY <1>1
    <2>5. E3Op(t, n, e)
      BY <1>5, <2>2, <2>4 DEF E3Op
    <2>6. QED BY <2>1, <2>3, <2>5 DEF E3Client
  <1>6. QED BY <1>2, <1>3, <1>4, <1>5

(* refresh_lease() and create_lease() keep the lease, or replace one that   *)
(* is gone.                                                                 *)
LEMMA E3Refresh ==
  ASSUME E3Assume, E3Inv, NEW n \in Nodes, E3!RefreshLease(n)
  PROVE  E3Inv' /\ E3OwnerStep
  <1> DEFINE c == client[n]
             recent == c.op # "update" /\ c.fresh > 0 /\ c.lease # None
             id == <<n, c.granted + 1>>
             granted == [c EXCEPT !.lease = id, !.granted = @ + 1, !.fresh = LoopWait]
  <1>1. /\ c \in E3Clients /\ E3Client(server, n, c) /\ E3Server(server)
        /\ c.op \in {"touch", "acquire", "update"}
    BY DEF E3Inv, E3!RefreshLease
  <1>2. /\ E3Typed(n, c) /\ E3Fresh(server, n, c) /\ E3Sure(server, n, c) /\ E3View(server, n, c)
        /\ E3Cache(server, c)
    BY <1>1 DEF E3Client
  <1>3. /\ c.age \in Nat /\ c.fresh \in Nat /\ c.sure \in Nat /\ c.granted \in 0..MaxLease /\ TTL \in Nat
        /\ LoopWait \in Nat /\ MaxLease \in Nat /\ (c.op = "update" => c.view.owner = n)
    BY <1>1 DEF E3Clients, E3Assume, E3Client, E3Op
  <1>10. E3!Key(server).owner = n => E3!Key(server).lease \in E3!Leases /\ E3!Key(server).lease[2] \in Nat
    BY <1>1 DEF E3Server, E3Assume, E3!Leases
  <1>11. c.sure <= TTL
    <2>1. CASE c.sure > 0
      <3>1. c.sure <= server.left[E3!Key(server).lease] /\ E3!Key(server).lease \in E3!Leases
        BY <1>2, <1>10, <2>1 DEF E3Sure
      <3>2. server.left[E3!Key(server).lease] \in 0..TTL
        BY <1>1, <3>1 DEF E3Server, E3Servers
      <3>3. QED BY <1>3, <3>1, <3>2
    <2>2. QED BY <1>3, <2>1
  <1>4. PICK r : /\ r \in E3!DoRefreshLease(n, server, c)
                 /\ server' = r.s /\ client' = [client EXCEPT ![n] = E3Next(r.c)]
    BY DEF E3!RefreshLease, E3Next
  <1>5. \/ recent /\ r = [s |-> server, c |-> c]
        \/ /\ E3!Alive(server, c.lease)
           /\ r = [s |-> [server EXCEPT !.left[c.lease] = TTL], c |-> [c EXCEPT !.fresh = LoopWait]]
        \/ c.granted # MaxLease /\ r = [s |-> [server EXCEPT !.left[id] = TTL], c |-> granted]
    BY <1>4 DEF E3!DoRefreshLease, E3!LeaseGrant
  <1>6. CASE recent /\ r = [s |-> server, c |-> c]
    <2>6. server' = server /\ client' = [client EXCEPT ![n] = E3Next(c)]
      BY <1>4, <1>6
    <2>1. c.lease \in E3!Leases /\ server.left[c.lease] + LoopWait >= TTL + c.fresh
      BY <1>1, <1>2, <1>6 DEF E3Fresh, E3Clients
    <2>2. server.left[c.lease] \in Nat
      BY <1>1, <2>1 DEF E3Server, E3Servers, E3Assume
    <2>3. server.left[c.lease] + c.age + LoopWait >= TTL
      BY <1>3, <2>1, <2>2
    <2> HIDE DEF c
    <2>4. E3Client(server, n, E3Next(c))
      BY <1>1, <1>2, <1>6, <2>3, E3GoesOn
    <2>5. QED BY <2>4, <2>6, E3Quiet
  <1>7. CASE /\ E3!Alive(server, c.lease)
             /\ r = [s |-> [server EXCEPT !.left[c.lease] = TTL], c |-> [c EXCEPT !.fresh = LoopWait]]
    <2> DEFINE d == [c EXCEPT !.fresh = LoopWait]
               x == c.lease
    <2>1. x \in E3!Leases /\ x[1] = n /\ server.left[x] > 0
      BY <1>1, <1>2, <1>7 DEF E3!Alive, E3Clients, E3Typed
    <2>2. /\ d \in E3Clients /\ d.view = c.view /\ d.op = c.op /\ d.lease = x /\ d.granted = c.granted
          /\ d.fresh = LoopWait /\ d.age = c.age /\ d.sure = c.sure /\ d.cache = c.cache /\ d.pos = c.pos
      BY <1>1, <1>3 DEF E3Clients
    <2>3. server' = [server EXCEPT !.left[x] = TTL] /\ client' = [client EXCEPT ![n] = E3Next(d)]
      BY <1>4, <1>7
    <2> HIDE DEF d
    <2>4. E3Renewed(n, server, x, server')
      BY <1>1, <2>1, <2>3, E3Renew
    <2> HIDE DEF x
    <2>5. E3Typed(n, d) /\ E3Fresh(server', n, d)
      BY <1>2, <1>3, <2>1, <2>2, <2>4 DEF E3Typed, E3Fresh, E3Renewed, x
    <2>6. E3Sure(server', n, d)
      BY <1>2, <1>3, <1>10, <2>2, <2>4 DEF E3Sure, E3Renewed
    <2>7. E3View(server', n, d)
      BY <1>2, <2>1, <2>2, <2>4 DEF E3View, E3Renewed, x
    <2>11. E3Cache(server', d)
      <3>1. E3Cache(server', c)
        BY <1>1, <1>2, <2>4, E3CacheKept DEF E3Renewed
      <3>2. QED BY <2>2, <3>1 DEF E3Cache
    <2>8. TTL + d.age + LoopWait >= TTL
      BY <1>3, <2>2
    <2>12. E3Server(server') /\ E3Change(n, server, server') /\ server'.left[d.lease] = TTL
      BY <2>2, <2>4 DEF E3Renewed
    <2>9. E3Client(server', n, E3Next(d))
      BY <1>1, <1>3, <1>11, <2>1, <2>2, <2>5, <2>6, <2>7, <2>8, <2>11, <2>12, E3GoesOn DEF E3Assume
    <2>10. QED BY <2>3, <2>12, <2>9, E3StepOf
  <1>8. CASE c.granted # MaxLease /\ r = [s |-> [server EXCEPT !.left[id] = TTL], c |-> granted]
    <2> DEFINE k == c.granted + 1
               x == <<n, k>>
               d == [c EXCEPT !.lease = x, !.granted = k, !.fresh = LoopWait]
    <2>1. k \in 0..MaxLease /\ k \in 1..MaxLease /\ k > c.granted
      BY <1>3, <1>8
    <2>2. x \in E3!Leases /\ x[1] = n /\ x[2] = k
      BY <2>1 DEF E3!Leases
    <2>3. server' = [server EXCEPT !.left[x] = TTL] /\ client' = [client EXCEPT ![n] = E3Next(d)]
      BY <1>1, <1>4, <1>8 DEF E3Clients
    <2> HIDE DEF x, k
    <2>4. /\ d \in E3Clients /\ d.view = c.view /\ d.op = c.op /\ d.lease = x /\ d.granted = k
          /\ d.fresh = LoopWait /\ d.age = c.age /\ d.sure = c.sure /\ d.cache = c.cache /\ d.pos = c.pos
      BY <1>1, <1>3, <2>1, <2>2 DEF E3Clients
    <2> HIDE DEF d
    <2>5. E3Renewed(n, server, x, server')
      BY <1>1, <2>2, <2>3, E3Renew
    <2>6. E3Typed(n, d)
      BY <1>2, <2>1, <2>2, <2>4 DEF E3Typed
    <2>7. E3Fresh(server', n, d)
      BY <1>2, <1>3, <1>10, <2>1, <2>4, <2>5 DEF E3Fresh, E3Renewed
    <2>8. E3Sure(server', n, d)
      BY <1>2, <1>3, <1>10, <2>4, <2>5 DEF E3Sure, E3Renewed
    <2>9. E3View(server', n, d)
      <3>1. c.view.lease \in E3!Leases => c.view.lease[2] \in Nat
        BY DEF E3!Leases
      <3>2. c.view.owner = n => c.view.lease[2] <= c.granted /\ c.view.lease[2] <= k /\ c.view.lease # x
        BY <1>2, <1>3, <2>1, <2>2, <3>1 DEF E3View
      <3>3. QED BY <1>2, <2>4, <2>5, <3>2 DEF E3View
    <2>13. E3Cache(server', d)
      <3>1. E3Cache(server', c)
        BY <1>1, <1>2, <2>5, E3CacheKept DEF E3Renewed
      <3>2. QED BY <2>4, <3>1 DEF E3Cache
    <2>10. TTL + d.age + LoopWait >= TTL
      BY <1>3, <2>4
    <2>14. E3Server(server') /\ E3Change(n, server, server') /\ server'.left[d.lease] = TTL
      BY <2>4, <2>5 DEF E3Renewed
    <2>11. E3Client(server', n, E3Next(d))
      BY <1>1, <1>3, <1>11, <2>2, <2>4, <2>6, <2>7, <2>8, <2>9, <2>10, <2>13, <2>14, E3GoesOn DEF E3Assume
    <2>12. QED BY <2>3, <2>14, <2>11, E3StepOf
  <1>9. QED BY <1>5, <1>6, <1>7, <1>8

(* The writer puts what it wrote into its cache, ahead of the watch.        *)
LEMMA E3OwnWrite ==
  ASSUME E3Assume, NEW n \in Nodes, NEW s, NEW t, NEW c, E3Server(s), NEW x \in E3!Leases, E3Written(n, s, n, x, t),
         E3Typed(n, c), E3Fresh(s, n, c), E3Cache(s, c), x[2] <= c.granted
  PROVE  LET d == E3!CacheSet(c, E3!Key(t)) IN
         E3Typed(n, d) /\ E3Fresh(t, n, d) /\ E3Cache(t, d) /\ d.age = c.age
  <1> DEFINE k == E3!Key(t)
             d == [c EXCEPT !.cache = k]
  <1>1. /\ c \in E3Clients /\ k \in E3Keys /\ k.rev = E3!Rev(s) + 1 /\ k.owner = n /\ k.lease = x /\ n # None
        /\ E3!Rev(s) \in Nat /\ E3!Rev(t) = E3!Rev(s) + 1 /\ k = E3!At(t, k.rev) /\ t.left = s.left
    BY DEF E3Typed, E3Written, E3Server, E3Assume
  <1>2. c.cache.rev < k.rev /\ c.pos <= E3!Rev(s) /\ c.pos \in Nat
    BY <1>1 DEF E3Cache, E3Clients, E3!NoKey
  <1>3. E3!CacheSet(c, k) = d
    BY <1>2 DEF E3!CacheSet
  <1> HIDE DEF k
  <1>4. /\ d \in E3Clients /\ d.view = c.view /\ d.op = c.op /\ d.lease = c.lease /\ d.granted = c.granted
        /\ d.fresh = c.fresh /\ d.age = c.age /\ d.sure = c.sure /\ d.cache = k /\ d.pos = c.pos
    BY <1>1 DEF E3Clients
  <1> HIDE DEF d
  <1>5. E3Typed(n, d)
    BY <1>4 DEF E3Typed
  <1>6. E3Fresh(t, n, d)
    BY <1>1, <1>4 DEF E3Fresh, k
  <1>7. E3Cache(t, d)
    <2>1. d.pos <= E3!Rev(t) /\ d.pos # E3!Rev(t) /\ k.rev \in 1..E3!Rev(t)
      BY <1>1, <1>2, <1>4
    <2>2. QED BY <1>1, <1>4, <2>1 DEF E3Cache
  <1>8. QED BY <1>3, <1>4, <1>5, <1>6, <1>7 DEF k

(* Transactions that write the key, answered or not.                        *)
LEMMA E3Writes ==
  ASSUME E3Assume, E3Inv, NEW n \in Nodes, E3!CreateKey(n) \/ E3!Reattach(n)
  PROVE  E3Inv' /\ E3OwnerStep
  <1> DEFINE c == client[n]
             x == c.lease
             good == IF c.op = "create" THEN TTL - LoopWait - c.age ELSE TTL - c.age
  <1>1. /\ c \in E3Clients /\ E3Client(server, n, c) /\ E3Server(server) /\ c.op \in {"create", "reattach"}
        /\ client \in [Nodes -> E3Clients]
    BY DEF E3Inv, E3!CreateKey, E3!Reattach
  <1>2. /\ E3Typed(n, c) /\ E3Fresh(server, n, c) /\ E3View(server, n, c) /\ E3Op(server, n, c)
        /\ E3Cache(server, c)
    BY <1>1 DEF E3Client
  <1>3. x \in E3!Leases /\ x[1] = n /\ x[2] <= c.granted
    BY <1>1, <1>2 DEF E3Typed, E3Op, E3Clients
  <1>4. good \in Nat /\ good <= server.left[x]
    <2>1. /\ server.left[x] \in Nat /\ c.age \in Nat /\ LoopWait \in Nat /\ TTL \in Nat /\ c.age + LoopWait <= TTL
      BY <1>1, <1>2, <1>3 DEF E3Typed, E3Clients, E3Server, E3Servers, E3Assume
    <2>2. CASE c.op = "create"
      <3>1. server.left[x] + c.age + LoopWait >= TTL /\ good = TTL - LoopWait - c.age
        BY <1>2, <2>2 DEF E3Op
      <3> HIDE DEF good, x
      <3>2. QED BY <2>1, <3>1
    <2>3. CASE c.op = "reattach"
      <3>1. server.left[x] + c.age >= TTL /\ good = TTL - c.age
        BY <1>2, <2>3 DEF E3Op
      <3> HIDE DEF good, x
      <3>2. QED BY <2>1, <3>1
    <2>4. QED BY <1>1, <2>2, <2>3
  <1>5. CASE /\ E3!Alive(server, x) /\ E3!Key(server).owner \in {n, None} /\ server' = E3!Put(server, n, x)
             /\ client' = [client EXCEPT ![n] = E3!Answered(n, E3!CacheSet(c, E3!Key(server')), TRUE, good)]
    <2> DEFINE e == E3!CacheSet(c, E3!Key(server'))
               d == [E3!Finish(e) EXCEPT !.sure = good]
    <2>1. client' = [client EXCEPT ![n] = d]
      BY <1>5 DEF E3!Answered
    <2>2. E3Written(n, server, n, x, server')
      BY <1>1, <1>3, <1>5, E3Put DEF E3!Alive
    <2> HIDE DEF c, x, good
    <2>3. E3Typed(n, e) /\ E3Fresh(server', n, e) /\ E3Cache(server', e)
      BY <1>1, <1>2, <1>3, <2>2, E3OwnWrite
    <2> HIDE DEF e
    <2>4. E3!Key(server').owner = n /\ good <= server'.left[E3!Key(server').lease]
      BY <1>4, <2>2 DEF E3Written
    <2>5. E3Client(server', n, d)
      BY <1>4, <2>3, <2>4, E3End
    <2> HIDE DEF d
    <2>6. QED BY <2>1, <2>2, <2>5, E3StepOf DEF E3Written
  <1>6. CASE server' = server /\ client' = [client EXCEPT ![n] = E3!Answered(n, c, FALSE, 0)]
    <2> DEFINE d == [E3!Finish(c) EXCEPT !.sure = 0]
    <2>1. client' = [client EXCEPT ![n] = d]
      BY <1>6 DEF E3!Answered
    <2> HIDE DEF c
    <2>2. 0 \in Nat /\ ~(0 > 0)
      OBVIOUS
    <2>3. E3Client(server, n, d)
      BY <1>2, <2>2, E3End
    <2> HIDE DEF d
    <2>4. QED BY <1>6, <2>1, <2>3, E3Quiet
  <1>7. CASE /\ c.op = "create" /\ server' = server
             /\ client' = [client EXCEPT ![n].lease = None, ![n].op = "acquire"]
    <2> DEFINE d == [c EXCEPT !.lease = None, !.op = "acquire"]
    <2>1. client' = [client EXCEPT ![n] = d]
      BY <1>1, <1>7
    <2>2. /\ d \in E3Clients /\ d.view = c.view /\ d.op = "acquire" /\ d.lease = None /\ d.granted = c.granted
          /\ d.fresh = c.fresh /\ d.age = c.age /\ d.sure = c.sure /\ d.cache = c.cache /\ d.pos = c.pos
      BY <1>1 DEF E3Clients, E3Ops
    <2> HIDE DEF c, d
    <2>3. E3Typed(n, d) /\ E3Fresh(server, n, d) /\ E3Sure(server, n, d) /\ E3Op(server, n, d) /\ E3Cache(server, d)
      BY <1>1, <1>2, <2>2 DEF E3Typed, E3Fresh, E3Sure, E3Op, E3Cache, E3Client
    <2>4. E3View(server, n, d)
      BY <1>2, <2>2 DEF E3View, E3Assume
    <2>5. E3Client(server, n, d)
      BY <2>3, <2>4 DEF E3Client
    <2>6. QED BY <1>7, <2>1, <2>5, E3Quiet
  <1>8. CASE E3!CreateKey(n)
    <2>1. c.op = "create" /\ good = TTL - LoopWait - c.age
      BY <1>8 DEF E3!CreateKey
    <2> HIDE DEF good
    <2>2. QED BY <1>5, <1>6, <1>7, <1>8, <2>1 DEF E3!CreateKey
  <1>9. CASE E3!Reattach(n)
    <2>1. c.op = "reattach" /\ good = TTL - c.age
      BY <1>9 DEF E3!Reattach
    <2> HIDE DEF good
    <2>2. QED BY <1>5, <1>6, <1>9, <2>1 DEF E3!Reattach
  <1>10. QED BY <1>8, <1>9

(* _delete_leader(), and a call that fails.                                 *)
LEMMA E3EndOfCall ==
  ASSUME E3Assume, E3Inv, NEW n \in Nodes, E3!DeleteKey(n) \/ E3!GiveUp(n)
  PROVE  E3Inv' /\ E3OwnerStep
  <1> DEFINE c == client[n]
             x == c.lease
  <1>1. c \in E3Clients /\ E3Client(server, n, c) /\ E3Server(server) /\ client \in [Nodes -> E3Clients]
    BY DEF E3Inv
  <1>2. /\ E3Typed(n, c) /\ E3Fresh(server, n, c) /\ E3Sure(server, n, c) /\ E3View(server, n, c)
        /\ E3Op(server, n, c) /\ E3Cache(server, c)
    BY <1>1 DEF E3Client
  <1>3. CASE server' = server /\ client' = [client EXCEPT ![n] = E3!Finish(c)]
    <2>1. E3Client(server, n, E3!Finish(c))
      BY <1>2, E3Finish
    <2>2. QED BY <1>3, <2>1, E3Quiet
  <1>4. CASE /\ c.op \in {"create", "reattach"} /\ E3!Alive(server, x)
             /\ E3!Key(server).owner = None \/ (c.op = "reattach" /\ E3!Key(server).owner = n)
             /\ server' = E3!Put(server, n, x) /\ client' = [client EXCEPT ![n] = E3!Finish(c)]
    <2>1. x \in E3!Leases /\ x[1] = n /\ x[2] <= c.granted
      BY <1>1, <1>2, <1>4 DEF E3Typed, E3Op, E3Clients
    <2>2. E3Written(n, server, n, x, server')
      BY <1>1, <1>4, <2>1, E3Put DEF E3!Alive
    <2>3. E3Fresh(server', n, c)
      BY <1>2, <2>1, <2>2 DEF E3Fresh, E3Written
    <2>4. E3Sure(server', n, c)
      BY <1>2, <1>4, <2>2 DEF E3Sure, E3Written, E3Op, E3Assume
    <2>5. E3Cache(server', c)
      BY <1>1, <1>2, <2>2, E3CacheKept DEF E3Written
    <2> HIDE DEF c
    <2>6. E3Client(server', n, E3!Finish(c))
      BY <1>2, <2>3, <2>4, <2>5, E3Finish
    <2>7. QED BY <1>4, <2>2, <2>6, E3StepOf DEF E3Written
  <1>5. CASE /\ c.op = "release" /\ E3!Key(server).owner = n /\ server' = E3!Put(server, None, None)
             /\ \/ client' = [client EXCEPT ![n] = E3!Finish(c)]
                \/ client' = [client EXCEPT ![n] = E3!Finish(E3!CacheDelete(c, E3!Rev(server')))]
    <2>1. E3Written(n, server, None, None, server')
      BY <1>1, <1>5, E3Put
    <2>2. c.sure = 0 /\ None # n
      BY <1>2, <1>5 DEF E3Op, E3Assume
    <2>3. E3Fresh(server', n, c) /\ E3Sure(server', n, c)
      BY <1>2, <2>1, <2>2 DEF E3Fresh, E3Sure, E3Written
    <2>4. E3Cache(server', c)
      BY <1>1, <1>2, <2>1, E3CacheKept DEF E3Written
    <2>5. CASE client' = [client EXCEPT ![n] = E3!Finish(c)]
      <3> HIDE DEF c
      <3>1. E3Client(server', n, E3!Finish(c))
        BY <1>2, <2>3, <2>4, E3Finish
      <3>2. QED BY <2>1, <2>5, <3>1, E3StepOf DEF E3Written
    <2>6. CASE client' = [client EXCEPT ![n] = E3!Finish(E3!CacheDelete(c, E3!Rev(server')))]
      <3> DEFINE d == [c EXCEPT !.cache = E3!NoKey]
      <3>1. c.cache.rev < E3!Rev(server') /\ c.pos # E3!Rev(server')
        <4>1. /\ E3!Rev(server) \in Nat /\ E3!Rev(server') = E3!Rev(server) + 1 /\ c.pos \in Nat /\ c.cache.rev \in Nat
              /\ E3!NoKey.rev = 0
          BY <1>1, <2>1 DEF E3Server, E3Written, E3Clients, E3Keys, E3!NoKey
        <4>2. QED BY <1>2, <4>1 DEF E3Cache
      <3>2. E3!CacheDelete(c, E3!Rev(server')) = d
        BY <3>1 DEF E3!CacheDelete
      <3>3. E3!NoKey \in E3Keys
        BY DEF E3!NoKey, E3Keys
      <3>4. /\ d \in E3Clients /\ d.lease = c.lease /\ d.granted = c.granted
            /\ d.fresh = c.fresh /\ d.age = c.age /\ d.sure = c.sure /\ d.cache = E3!NoKey /\ d.pos = c.pos
        BY <1>1, <3>3 DEF E3Clients
      <3> HIDE DEF c, d
      <3>5. E3Typed(n, d) /\ E3Fresh(server', n, d) /\ E3Sure(server', n, d)
        BY <1>2, <2>3, <3>4 DEF E3Typed, E3Fresh, E3Sure
      <3>6. E3Cache(server', d)
        BY <2>4, <3>1, <3>4 DEF E3Cache
      <3>7. E3Client(server', n, E3!Finish(d))
        BY <3>5, <3>6, E3Finish
      <3>8. client' = [client EXCEPT ![n] = E3!Finish(d)]
        BY <2>6, <3>2
      <3>9. QED BY <2>1, <3>7, <3>8, E3StepOf DEF E3Written
    <2>7. QED BY <1>5, <2>5, <2>6
  <1>6. CASE E3!DeleteKey(n)
    BY <1>3, <1>5, <1>6 DEF E3!DeleteKey
  <1>7. CASE E3!GiveUp(n)
    BY <1>3, <1>4, <1>5, <1>7 DEF E3!GiveUp
  <1>8. QED BY <1>6, <1>7

(* The key goes with its lease, and no sooner than the last answer that     *)
(* vouches for it.                                                          *)
LEMMA E3Tick ==
  ASSUME E3Assume, E3Inv, E3!Tick
  PROVE  E3Inv' /\ E3OwnerStep
  <1> DEFINE L == [x \in E3!Leases |-> E3!Less(server.left[x])]
             gone == E3!Key(server).owner # None /\ L[E3!Key(server).lease] = 0
             s == IF gone THEN E3!Put(server, None, None) ELSE server
  <1>0. E3Server(server) /\ server \in E3Servers /\ client \in [Nodes -> E3Clients]
    BY DEF E3Inv, E3Server
  <1>1. /\ server' = [s EXCEPT !.left = L]
        /\ client' = [n \in Nodes |-> [client[n] EXCEPT
                 !.sure = E3!Less(client[n].sure), !.fresh = E3!Less(client[n].fresh),
                 !.age = IF E3!Idle(client[n]) THEN 0 ELSE client[n].age + 1]]
        /\ \A n \in Nodes : E3!Idle(client[n]) \/ client[n].age < TTL - LoopWait
    BY DEF E3!Tick
  <1>2. \A x \in E3!Leases :
          /\ server.left[x] \in Nat /\ L[x] \in 0..TTL /\ L[x] \in Nat
          /\ L[x] + 1 >= server.left[x] /\ (server.left[x] > 0 => L[x] = server.left[x] - 1)
          /\ (L[x] > 0 => server.left[x] > 0)
    <2> TAKE x \in E3!Leases
    <2>1. server.left[x] \in 0..TTL /\ TTL \in Nat /\ L[x] = E3!Less(server.left[x])
      BY <1>0 DEF E3Servers, E3Assume
    <2> HIDE DEF L
    <2>2. QED BY <2>1 DEF E3!Less
  <1>3. L \in [E3!Leases -> 0..TTL]
    BY <1>2
  <1> HIDE DEF L
  <1>4. PICK t : /\ t = s /\ E3Server(t)
                 /\ ~gone => t = server
                 /\ gone => /\ E3!Key(t).owner = None /\ E3!Rev(t) = E3!Rev(server) + 1
                            /\ \A i \in 1..E3!Rev(server) : E3!At(t, i) = E3!At(server, i)
    <2>1. CASE ~gone
      BY <1>0, <2>1
    <2>2. CASE gone
      <3>1. PICK n \in Nodes : E3!Key(server).owner = n
        BY <1>0, <2>2 DEF E3Server, E3Keys
      <3>2. E3Written(n, server, None, None, s)
        BY <1>0, <2>2, <3>1, E3Put
      <3>3. E3Server(s) /\ E3!Key(s).owner = None /\ E3!Rev(s) = E3!Rev(server) + 1
            /\ \A i \in 1..E3!Rev(server) : E3!At(s, i) = E3!At(server, i)
        BY <3>2 DEF E3Written, E3Change
      <3> HIDE DEF s, gone
      <3>4. QED BY <2>2, <3>3
    <2>3. QED BY <2>1, <2>2
  <1> HIDE DEF s
  <1>5. server' \in E3Servers /\ server'.hist = t.hist /\ server'.left = L
    BY <1>1, <1>3, <1>4 DEF E3Servers, E3Server
  <1>6. E3!Rev(server') = E3!Rev(t) /\ E3!Key(server') = E3!Key(t) /\ \A i : E3!At(server', i) = E3!At(t, i)
    BY <1>5 DEF E3!Rev, E3!Key, E3!At
  <1>7. E3!Rev(server) \in Nat /\ E3!Rev(server') \in Nat /\ E3!Rev(server') >= E3!Rev(server)
    BY <1>0, <1>4, <1>6 DEF E3Server
  <1>8. E3Server(server')
    <2>1. E3!Key(server').owner # None =>
            E3!Key(server').lease \in E3!Leases /\ E3!Key(server').lease[1] = E3!Key(server').owner
            /\ L[E3!Key(server').lease] > 0
      BY <1>0, <1>2, <1>4, <1>6 DEF E3Server
    <2>2. QED BY <1>4, <1>5, <1>6, <2>1 DEF E3Server
  <1>9. E3OwnerStep
    BY <1>4, <1>6 DEF E3OwnerStep
  <1>10. ASSUME NEW n \in Nodes PROVE client'[n] \in E3Clients /\ E3Client(server', n, client'[n])
    <2> DEFINE c == client[n]
               d == client'[n]
               age == IF E3!Idle(c) THEN 0 ELSE c.age + 1
               sure == E3!Less(c.sure)
               fresh == E3!Less(c.fresh)
    <2>1. /\ c \in E3Clients /\ c.sure \in Nat /\ c.fresh \in Nat /\ c.age \in Nat
          /\ c.lease \in E3!Leases \cup {None} /\ c.pos \in Nat /\ c.cache.rev \in Nat
      <3>1. c \in E3Clients
        BY <1>0
      <3>2. QED BY <3>1 DEF E3Clients, E3Keys
    <2>2. /\ E3Typed(n, c) /\ E3Fresh(server, n, c) /\ E3Sure(server, n, c) /\ E3View(server, n, c)
          /\ E3Op(server, n, c) /\ E3Cache(server, c)
      BY DEF E3Inv, E3Client
    <2>3. d = [c EXCEPT !.sure = sure, !.fresh = fresh, !.age = age]
      BY <1>1
    <2>4. /\ age \in Nat /\ sure \in Nat /\ fresh \in Nat
          /\ (sure > 0 => c.sure > 1 /\ sure = c.sure - 1) /\ (fresh > 0 => c.fresh > 1 /\ fresh = c.fresh - 1)
          /\ (c.op # "idle" => age = c.age + 1)
      BY <2>1 DEF E3!Less, E3!Idle
    <2>5. age + LoopWait <= TTL
      <3>1. TTL \in Nat /\ LoopWait \in Nat /\ LoopWait <= TTL
        BY DEF E3Assume
      <3>2. CASE E3!Idle(c)
        BY <3>1, <3>2
      <3>3. CASE ~E3!Idle(c)
        <4>1. c.age < TTL - LoopWait
          BY <1>1, <3>3
        <4>2. QED BY <2>1, <3>1, <3>3, <4>1
      <3>4. QED BY <3>2, <3>3
    <2> HIDE DEF age, sure, fresh, c, d
    <2>6. /\ d \in E3Clients /\ d.view = c.view /\ d.op = c.op /\ d.lease = c.lease /\ d.granted = c.granted
          /\ d.fresh = fresh /\ d.age = age /\ d.sure = sure /\ d.cache = c.cache /\ d.pos = c.pos
      BY <2>1, <2>3, <2>4 DEF E3Clients
    <2>7. E3Typed(n, d)
      BY <2>2, <2>5, <2>6 DEF E3Typed
    <2>8. n # None
      BY DEF E3Assume
    <2>9. E3Fresh(server', n, d)
      <3>1. d.fresh > 0 /\ d.lease # None => L[d.lease] + LoopWait >= TTL + d.fresh
        <4> SUFFICES ASSUME d.fresh > 0, d.lease # None PROVE L[d.lease] + LoopWait >= TTL + d.fresh
          OBVIOUS
        <4> DEFINE a == server.left[c.lease]
                   b == L[c.lease]
        <4>1. a + LoopWait >= TTL + c.fresh /\ fresh = c.fresh - 1 /\ c.fresh > 1
          BY <2>1, <2>2, <2>4, <2>6 DEF E3Fresh
        <4>2. c.lease \in E3!Leases
          BY <2>1, <2>6
        <4>3. a \in Nat /\ b \in Nat /\ b + 1 >= a
          BY <1>2, <4>2
        <4>4. TTL \in Nat /\ LoopWait \in Nat
          BY DEF E3Assume
        <4> HIDE DEF a, b
        <4>5. b + LoopWait >= TTL + fresh
          BY <2>1, <2>4, <4>1, <4>3, <4>4
        <4>6. QED BY <2>6, <4>5 DEF b
      <3>2. E3!Key(server').owner = n => E3!Key(server').lease[2] <= d.granted
        BY <1>4, <1>6, <2>2, <2>6, <2>8 DEF E3Fresh
      <3>3. QED BY <1>5, <3>1, <3>2 DEF E3Fresh
    <2>10. E3Sure(server', n, d)
      <3> SUFFICES ASSUME d.sure > 0 PROVE E3!Key(server').owner = n /\ d.sure <= server'.left[E3!Key(server').lease]
        BY DEF E3Sure
      <3> DEFINE x == E3!Key(server).lease
      <3>1. c.sure > 1 /\ sure = c.sure - 1 /\ E3!Key(server).owner = n /\ c.sure <= server.left[x]
        BY <2>1, <2>2, <2>4, <2>6 DEF E3Sure
      <3>2. x \in E3!Leases
        BY <1>0, <2>8, <3>1 DEF E3Server
      <3>3. server.left[x] \in Nat /\ L[x] \in Nat /\ L[x] + 1 >= server.left[x]
        BY <1>2, <3>2
      <3>4. ~gone /\ sure <= L[x]
        BY <2>1, <2>4, <3>1, <3>3
      <3>5. QED BY <1>4, <1>5, <1>6, <2>6, <3>1, <3>4
    <2>11. E3View(server', n, d)
      <3> SUFFICES ASSUME c.view.owner = n PROVE E3View(server', n, d)
        BY <2>6 DEF E3View
      <3>1. c.view.lease \in E3!Leases /\ c.view.lease[1] = n /\ c.view.lease[2] <= c.granted
        BY <2>2 DEF E3View
      <3>2. c.view.lease = c.lease /\ L[c.lease] > 0 => E3!Key(server').owner = n /\ E3!Key(server').lease = c.lease
        <4> SUFFICES ASSUME c.view.lease = c.lease, L[c.lease] > 0
                     PROVE  E3!Key(server').owner = n /\ E3!Key(server').lease = c.lease
          OBVIOUS
        <4>1. server.left[c.lease] > 0
          BY <1>2, <3>1
        <4>2. E3!Key(server).owner = n /\ E3!Key(server).lease = c.lease
          BY <2>2, <4>1 DEF E3View
        <4>3. ~gone
          BY <4>2
        <4>4. QED BY <1>4, <1>6, <4>2, <4>3
      <3>3. QED BY <1>5, <2>6, <3>1, <3>2 DEF E3View
    <2>12. E3Op(server', n, d)
      <3>1. /\ c.op = "release" => sure = 0
            /\ c.op \in {"update", "reattach", "release"} => c.view.owner = n
        BY <2>1, <2>2 DEF E3Op, sure, E3!Less
      <3>2. ASSUME c.lease # None, c.op # "idle", NEW k \in Nat, server.left[c.lease] + c.age + k >= TTL
            PROVE  L[c.lease] + age + k >= TTL
        <4>1. c.lease \in E3!Leases
          BY <2>1, <3>2
        <4>2. L[c.lease] \in Nat /\ server.left[c.lease] \in Nat /\ L[c.lease] + 1 >= server.left[c.lease]
          BY <1>2, <4>1
        <4>3. TTL \in Nat /\ age = c.age + 1
          BY <2>4, <3>2 DEF E3Assume
        <4>4. QED BY <2>1, <3>2, <4>2, <4>3
      <3>3. c.op = "reattach" => c.lease # None /\ L[c.lease] + age >= TTL /\ sure <= L[c.lease]
        <4> SUFFICES ASSUME c.op = "reattach"
                     PROVE  c.lease # None /\ L[c.lease] + age >= TTL /\ sure <= L[c.lease]
          OBVIOUS
        <4>1. /\ c.lease # None /\ server.left[c.lease] + c.age >= TTL /\ c.op # "idle"
              /\ c.sure <= server.left[c.lease]
          BY <2>2 DEF E3Op
        <4>2. c.lease \in E3!Leases
          BY <2>1, <4>1
        <4>3. /\ server.left[c.lease] \in Nat /\ L[c.lease] \in Nat /\ L[c.lease] + 1 >= server.left[c.lease]
          BY <1>2, <4>2
        <4>4. server.left[c.lease] + c.age + 0 >= TTL
          BY <2>1, <4>1, <4>3
        <4>5. L[c.lease] + age + 0 >= TTL
          BY <3>2, <4>1, <4>4
        <4>6. sure <= L[c.lease]
          BY <2>1, <2>4, <4>1, <4>3
        <4>7. QED BY <2>4, <4>1, <4>3, <4>5, <4>6
      <3>4. c.op = "create" => c.lease # None /\ L[c.lease] + age + LoopWait >= TTL
        BY <2>2, <3>2 DEF E3Op, E3Assume
      <3>5. QED BY <1>5, <2>6, <3>1, <3>3, <3>4 DEF E3Op
    <2>13. E3Cache(server', d)
      <3>1. CASE gone
        <4>1. E3!Rev(server') = E3!Rev(server) + 1 /\ \A i \in 1..E3!Rev(server) : E3!At(server', i) = E3!At(server, i)
          BY <1>4, <1>6, <3>1
        <4>2. c.pos <= E3!Rev(server') /\ c.pos # E3!Rev(server')
          BY <1>7, <2>1, <2>2, <4>1 DEF E3Cache
        <4>3. \/ c.cache = E3!NoKey
              \/ c.cache.rev \in 1..E3!Rev(server) /\ c.cache = E3!At(server, c.cache.rev) /\ c.cache.owner # None
          BY <2>2 DEF E3Cache
        <4>4. \/ c.cache = E3!NoKey
              \/ c.cache.rev \in 1..E3!Rev(server') /\ c.cache = E3!At(server', c.cache.rev) /\ c.cache.owner # None
          BY <1>7, <4>1, <4>3
        <4>5. QED BY <2>6, <4>2, <4>4 DEF E3Cache
      <3>2. CASE ~gone
        BY <1>4, <1>6, <2>2, <2>6, <3>2 DEF E3Cache
      <3>3. QED BY <3>1, <3>2
    <2>14. QED BY <2>6, <2>7, <2>9, <2>10, <2>11, <2>12, <2>13 DEF E3Client, d
  <1>11. client' \in [Nodes -> E3Clients]
    BY <1>1, <1>10
  <1>12. QED BY <1>8, <1>9, <1>10, <1>11 DEF E3Inv

(* Etcd v3 starts in its invariant and with a free key.                     *)
LEMMA E3Start ==
  ASSUME E3Assume, E3!Init
  PROVE  E3Inv /\ E3!Contract!KeyInit
  <1>1. /\ E3!NoKey \in E3Keys /\ E3!Unknown \in E3Keys /\ E3!Unknown.owner = "unknown" /\ E3!NoKey.owner = None
        /\ E3!NoKey.rev = 0 /\ 0 \in 0..TTL /\ 0 \in 0..MaxLease /\ 0 \in Nat
    BY DEF E3!NoKey, E3!Unknown, E3Keys, E3Assume
  <1>2. server = [hist |-> << >>, left |-> [l \in E3!Leases |-> 0]]
    BY DEF E3!Init
  <1>3. server \in E3Servers /\ server.hist = << >>
    <2>1. << >> \in Seq(E3Keys) /\ [l \in E3!Leases |-> 0] \in [E3!Leases -> 0..TTL]
      BY <1>1
    <2>2. QED BY <1>2, <2>1 DEF E3Servers
  <1>4. E3!Rev(server) = 0 /\ E3!Key(server) = E3!NoKey
    BY <1>3 DEF E3!Rev, E3!Key, E3!At
  <1>5. E3Server(server)
    BY <1>1, <1>3, <1>4 DEF E3Server, E3Assume
  <1>6. ASSUME NEW n \in Nodes
        PROVE  /\ client[n] \in E3Clients /\ client[n].lease = None /\ client[n].sure = 0 /\ client[n].age = 0
               /\ client[n].fresh = 0 /\ client[n].op = "idle" /\ client[n].view.owner = "unknown"
               /\ client[n].pos = 0 /\ client[n].cache = E3!NoKey
    <2>1. client[n] = [op |-> "idle", lease |-> None, fresh |-> 0, cache |-> E3!NoKey, pos |-> 0,
                       view |-> E3!Unknown, granted |-> 0, age |-> 0, sure |-> 0]
      BY DEF E3!Init
    <2>2. QED BY <1>1, <2>1 DEF E3Clients, E3Ops
  <1>7. ASSUME NEW n \in Nodes PROVE E3Client(server, n, client[n])
    <2>1. n # "unknown" /\ n # None /\ 0 + LoopWait <= TTL
      BY DEF E3Assume
    <2>2. E3Typed(n, client[n]) /\ E3Fresh(server, n, client[n]) /\ E3Sure(server, n, client[n])
      BY <1>1, <1>4, <1>6, <2>1 DEF E3Typed, E3Fresh, E3Sure
    <2>3. E3View(server, n, client[n]) /\ E3Op(server, n, client[n]) /\ E3Cache(server, client[n])
      BY <1>1, <1>4, <1>6, <2>1 DEF E3View, E3Op, E3Cache
    <2>4. QED BY <2>2, <2>3 DEF E3Client
  <1>8. client \in [Nodes -> E3Clients]
    BY <1>6 DEF E3!Init
  <1>9. E3!Contract!KeyInit
    BY <1>1, <1>4, <1>6 DEF E3!Contract!KeyInit, E3!Owner, E3!Sure
  <1>10. QED BY <1>5, <1>7, <1>8, <1>9 DEF E3Inv

(* Every step of Etcd v3 keeps the invariant and is a step of LeaderKey.    *)
LEMMA E3Step ==
  ASSUME E3Assume, E3Inv, [E3!Next]_(E3!vars)
  PROVE  E3Inv' /\ [E3!Contract!KeyNext]_(E3!Contract!keyVars)
  <1>1. CASE UNCHANGED E3!vars
    <2>1. server' = server /\ client' = client
      BY <1>1 DEF E3!vars
    <2>2. QED BY <2>1 DEF E3!Contract!keyVars, E3!Owner, E3!Sure, E3Inv
  <1>2. CASE E3!Next
    <2>1. E3Inv' /\ E3OwnerStep
      BY <1>2, E3Watching, E3LoadCall, E3Refresh, E3Writes, E3EndOfCall, E3Tick DEF E3!Next
    <2>2. E3!Owner' = E3!Key(server').owner /\ E3!Owner = E3!Key(server).owner
      BY DEF E3!Owner, E3!Key, E3!At, E3!Rev
    <2>3. E3!Owner' \in Owners /\ E3!Sure' \subseteq {E3!Owner'} /\ E3!Sure' \subseteq Nodes
      BY <2>1, <2>2 DEF E3Inv, E3Server, E3Keys, E3Client, E3Sure, E3!Sure, Owners
    <2>4. E3!Owner' \in {E3!Owner, None} \/ E3!Owner = None
      BY <2>1, <2>2 DEF E3OwnerStep
    <2>5. E3!Contract!KeyNext
      <3>1. CASE E3!Owner' = None
        BY <2>3, <3>1 DEF E3!Contract!KeyNext, E3!Contract!Free, E3Assume
      <3>2. CASE E3!Owner' \in Nodes /\ E3!Owner = None
        BY <2>3, <3>2 DEF E3!Contract!KeyNext, E3!Contract!Acquire
      <3>3. CASE E3!Owner' \in Nodes /\ E3!Owner = E3!Owner' /\ E3!Sure' = {}
        BY <3>3 DEF E3!Contract!KeyNext, E3!Contract!Doubt
      <3>4. CASE E3!Owner' \in Nodes /\ E3!Owner = E3!Owner' /\ E3!Sure' # {}
        BY <2>3, <3>4 DEF E3!Contract!KeyNext, E3!Contract!Confirm
      <3>5. QED BY <2>3, <2>4, <3>1, <3>2, <3>3, <3>4 DEF Owners
    <2>6. QED BY <2>1, <2>5
  <1>3. QED BY <1>1, <1>2

(* attempt_to_acquire_leader(), update_leader() and delete_leader() of Etcd *)
(* v3 implement LeaderKey, with leases that are replaced or forgotten, a    *)
(* cache that runs ahead of its watch and requests whose answer is lost, if *)
(* the cluster is loaded when the watch has caught up (StaleCache).         *)
THEOREM Etcd3Key ==
  ASSUME E3Assume
  PROVE  E3!Spec => E3!KeyImplemented
  <1>1. E3!Init => E3Inv /\ E3!Contract!KeyInit
    BY E3Start
  <1>2. E3Inv /\ [E3!Next]_(E3!vars) => E3Inv' /\ [E3!Contract!KeyNext]_(E3!Contract!keyVars)
    BY E3Step
  <1>3. QED BY <1>1, <1>2, PTL DEF E3!Spec, E3!KeyImplemented, E3!Contract!KeySpec

-----------------------------------------------------------------------------
(* ZooKeeper, with a key that does not change hands between its load and    *)
(* its recreation (StaleRecreate = FALSE) and a /sync that was written      *)
(* before (FirstVersion > 0).                                               *)

ZkKeys == [owner : Nodes \cup {None, "unknown"}, session : ZK!Sessions \cup {None}]
ZkVersions == (FirstVersion + 1)..(FirstVersion + MaxVersions)
ZkServers == [key : ZkKeys, left : [ZK!Sessions -> 0..TTL], sync : Nat, writer : [ZkVersions -> Owners]]
ZkClients == [op : {"idle", "delete", "recreate"}, session : ZK!Sessions, opened : 1..MaxSession,
              connected : BOOLEAN, view : ZkKeys, age : 0..TTL, sure : Nat, leads : BOOLEAN,
              version : Nat, acked : SUBSET Nat]

(* The key is an ephemeral node of a live session of its owner.             *)
ZkKey(k, left) ==
  \/ k = ZK!NoKey
  \/ k.owner \in Nodes /\ k.session \in ZK!Sessions /\ k.session[1] = k.owner /\ left[k.session] > 0

ZkServer(s) == s \in ZkServers /\ ZkKey(s.key, s.left) /\ s.sync >= FirstVersion

ZkTyped(n, c) == c \in ZkClients /\ c.session[1] = n /\ c.session[2] <= c.opened

(* A node that is sure owns the key for at least as long.                   *)
ZkHeld(s, n, c) ==
  /\ s.key.owner = n => s.key.session[2] <= c.opened
  /\ c.sure > 0 => s.key.owner = n /\ c.sure <= s.left[s.key.session]

(* A node that has loaded its own key and kept the session still owns it,   *)
(* and the session has as much left as the load is recent.                  *)
ZkView(s, n, c) ==
  c.view.owner = n =>
    /\ c.view.session \in ZK!Sessions /\ c.view.session[1] = n /\ c.view.session[2] <= c.opened
    /\ c.view.session = c.session =>
         s.left[c.session] + c.age >= TTL /\ (s.left[c.session] > 0 => s.key = c.view)

(* A key is recreated by another session than the one it was loaded with.   *)
ZkOp(n, c) == c.op # "idle" => c.sure = 0 /\ c.view.owner = n /\ c.view.session # c.session

(* What a node was told it wrote to /sync is still there.                   *)
ZkSync(s, n, c) ==
  /\ c.version >= FirstVersion
  /\ \A v \in c.acked : v \in ZkVersions /\ v <= s.sync /\ s.writer[v] = n

ZkClient(s, n, c) == ZkTyped(n, c) /\ ZkHeld(s, n, c) /\ ZkView(s, n, c) /\ ZkOp(n, c) /\ ZkSync(s, n, c)

ZkInv == ZkServer(server) /\ client \in [Nodes -> ZkClients] /\ \A n \in Nodes : ZkClient(server, n, client[n])

ZkAssume ==
  /\ TTL \in Nat \ {0} /\ MaxSession \in Nat \ {0} /\ MaxVersions \in Nat /\ FirstVersion \in Nat \ {0}
  /\ None \notin Nodes /\ None \notin ZK!Sessions /\ "unknown" \notin Nodes /\ None # "unknown"
  /\ StaleRecreate = FALSE

(* A step of the node n changes its own sessions, the key only from free to *)
(* its own and back, and adds versions of /sync.                            *)
ZkChange(n, s, t) ==
  /\ t.key = s.key \/ (s.key.owner \in {None, n} /\ t.key.owner \in {None, n})
  /\ \A x \in ZK!Sessions : x[1] # n => t.left[x] = s.left[x]
  /\ t.sync >= s.sync
  /\ \A v \in ZkVersions : v <= s.sync => t.writer[v] = s.writer[v]

ZkOwnerStep == server'.key.owner \in {server.key.owner, None} \/ server.key.owner = None

(* What was written to /sync stays.                                         *)
LEMMA ZkSyncKept ==
  ASSUME ZkAssume, NEW n \in Nodes, NEW m \in Nodes, NEW s, NEW t, NEW c,
         s.sync \in Nat, t.sync \in Nat, ZkChange(n, s, t), ZkSync(s, m, c)
  PROVE  ZkSync(t, m, c)
  <1>1. ASSUME NEW v \in c.acked
        PROVE  v \in ZkVersions /\ v <= t.sync /\ t.writer[v] = m
    <2>1. v \in ZkVersions /\ v <= s.sync /\ s.writer[v] = m
      BY DEF ZkSync
    <2>2. v \in Int /\ t.sync >= s.sync /\ t.writer[v] = s.writer[v]
      BY <2>1 DEF ZkChange, ZkVersions, ZkAssume
    <2>3. QED BY <2>1, <2>2
  <1>2. QED BY <1>1 DEF ZkSync

(* The others notice nothing that matters to them.                          *)
LEMMA ZkOthers ==
  ASSUME ZkAssume, NEW n \in Nodes, NEW m \in Nodes, m # n, NEW s, NEW t, NEW c,
         ZkServer(s), ZkServer(t), ZkChange(n, s, t), ZkClient(s, m, c)
  PROVE  ZkClient(t, m, c)
  <1>1. c \in ZkClients /\ c.session \in ZK!Sessions /\ m # None /\ s.sync \in Nat /\ t.sync \in Nat
    BY DEF ZkClient, ZkTyped, ZkClients, ZkAssume, ZkServer, ZkServers
  <1>2. t.left[c.session] = s.left[c.session]
    BY <1>1 DEF ZkClient, ZkTyped, ZkChange
  <1>3. /\ s.key.owner = m => t.key = s.key /\ t.left[s.key.session] = s.left[s.key.session]
        /\ t.key.owner = m => t.key = s.key
    BY <1>1 DEF ZkChange, ZkServer, ZkKey, ZK!NoKey
  <1>4. ZkTyped(m, c) /\ ZkOp(m, c)
    BY DEF ZkClient
  <1>5. ZkHeld(t, m, c)
    BY <1>3 DEF ZkClient, ZkHeld
  <1>6. ZkView(t, m, c)
    BY <1>2, <1>3 DEF ZkClient, ZkView
  <1>7. ZkSync(t, m, c)
    BY <1>1, ZkSyncKept DEF ZkClient
  <1>8. QED BY <1>4, <1>5, <1>6, <1>7 DEF ZkClient

(* What a step of the node n has to show.                                   *)
LEMMA ZkStepOf ==
  ASSUME ZkAssume, ZkInv, NEW n \in Nodes, NEW d, client' = [client EXCEPT ![n] = d],
         ZkServer(server'), ZkClient(server', n, d), ZkChange(n, server, server')
  PROVE  ZkInv' /\ ZkOwnerStep
  <1>1. d \in ZkClients /\ client \in [Nodes -> ZkClients]
    BY DEF ZkInv, ZkClient, ZkTyped
  <1>2. client' \in [Nodes -> ZkClients] /\ client'[n] = d /\ \A m \in Nodes : m # n => client'[m] = client[m]
    BY <1>1
  <1>3. ASSUME NEW m \in Nodes PROVE ZkClient(server', m, client'[m])
    <2>1. CASE m = n
      BY <1>2, <2>1
    <2>2. CASE m # n
      <3>1. ZkServer(server) /\ ZkClient(server, m, client[m])
        BY DEF ZkInv
      <3>2. QED BY <1>2, <2>2, <3>1, ZkOthers
    <2>3. QED BY <2>1, <2>2
  <1>4. ZkInv'
    BY <1>2, <1>3 DEF ZkInv
  <1>5. ZkOwnerStep
    BY DEF ZkChange, ZkOwnerStep
  <1>6. QED BY <1>4, <1>5

(* A step that leaves ZooKeeper alone.                                      *)
LEMMA ZkUnchanged ==
  ASSUME ZkAssume, NEW n \in Nodes, NEW s, ZkServer(s)
  PROVE  ZkChange(n, s, s)
  BY DEF ZkChange, ZkServer, ZkServers

(* A node that has forgotten what it loaded.                                *)
LEMMA ZkEnd ==
  ASSUME ZkAssume, NEW s, NEW n \in Nodes, NEW d, ZkTyped(n, d), d.op = "idle", d.view = ZK!Unknown,
         ZkHeld(s, n, d), ZkSync(s, n, d)
  PROVE  ZkClient(s, n, d)
  <1>1. ZkView(s, n, d)
    BY DEF ZkView, ZK!Unknown, ZkAssume
  <1>2. QED BY <1>1 DEF ZkClient, ZkOp

(* A session of the node n gets a full ttl.                                 *)
ZkRenewed(n, s, x, t) ==
  /\ ZkServer(t) /\ ZkChange(n, s, t) /\ t.key = s.key /\ t.sync = s.sync /\ t.writer = s.writer
  /\ t.left[x] = TTL /\ \A y \in ZK!Sessions : y # x => t.left[y] = s.left[y]
  /\ \A y \in ZK!Sessions : t.left[y] \in Nat /\ s.left[y] \in Nat /\ t.left[y] >= s.left[y]

(* A heartbeat or a new session of the node changes nothing else.           *)
LEMMA ZkRenew ==
  ASSUME ZkAssume, NEW n \in Nodes, NEW s, ZkServer(s), NEW x \in ZK!Sessions, x[1] = n
  PROVE  ZkRenewed(n, s, x, [s EXCEPT !.left[x] = TTL])
  <1> DEFINE L == [s.left EXCEPT ![x] = TTL]
             t == [s EXCEPT !.left[x] = TTL]
  <1>1. s \in ZkServers /\ s.left \in [ZK!Sessions -> 0..TTL] /\ TTL \in 0..TTL /\ TTL > 0 /\ s.sync \in Nat
    BY DEF ZkServer, ZkServers, ZkAssume
  <1>2. L \in [ZK!Sessions -> 0..TTL] /\ L[x] = TTL /\ \A y \in ZK!Sessions : y # x => L[y] = s.left[y]
    BY <1>1
  <1>3. t = [s EXCEPT !.left = L]
    BY <1>1 DEF ZkServers
  <1> HIDE DEF L, t
  <1>4. t \in ZkServers /\ t.key = s.key /\ t.sync = s.sync /\ t.writer = s.writer /\ t.left = L
    BY <1>1, <1>2, <1>3 DEF ZkServers
  <1>5. \A y \in ZK!Sessions : L[y] \in Nat /\ s.left[y] \in Nat /\ L[y] >= s.left[y]
    <2> TAKE y \in ZK!Sessions
    <2>1. s.left[y] \in 0..TTL /\ L[y] \in 0..TTL /\ TTL \in Nat
      BY <1>1, <1>2 DEF ZkAssume
    <2>2. L[y] = TTL \/ L[y] = s.left[y]
      BY <1>2
    <2>3. QED BY <2>1, <2>2
  <1>6. ZkServer(t)
    <2>1. ZkKey(s.key, L)
      BY <1>5 DEF ZkServer, ZkKey
    <2>2. QED BY <1>4, <2>1 DEF ZkServer
  <1>7. ZkChange(n, s, t)
    BY <1>1, <1>2, <1>4 DEF ZkChange
  <1>8. ZkRenewed(n, s, x, t)
    BY <1>2, <1>4, <1>5, <1>6, <1>7 DEF ZkRenewed
  <1>9. QED BY <1>8 DEF t

(* The key is created or deleted by the node n.                             *)
ZkMoved(n, s, k, t) ==
  /\ ZkServer(t) /\ ZkChange(n, s, t) /\ t.key = k /\ t.left = s.left /\ t.sync = s.sync /\ t.writer = s.writer

(* Creating or deleting the key leaves the sessions and /sync alone.        *)
LEMMA ZkMove ==
  ASSUME ZkAssume, NEW n \in Nodes, NEW s, ZkServer(s), s.key.owner \in {None, n}, NEW k,
         \/ k = ZK!NoKey
         \/ \E x \in ZK!Sessions : k = [owner |-> n, session |-> x] /\ x[1] = n /\ s.left[x] > 0
  PROVE  ZkMoved(n, s, k, [s EXCEPT !.key = k])
  <1> DEFINE t == [s EXCEPT !.key = k]
  <1>1. s \in ZkServers /\ s.sync \in Nat
    BY DEF ZkServer, ZkServers
  <1>2. k \in ZkKeys /\ ZkKey(k, s.left) /\ k.owner \in {None, n}
    BY DEF ZkKeys, ZkKey, ZK!NoKey
  <1>3. t \in ZkServers /\ t.key = k /\ t.left = s.left /\ t.sync = s.sync /\ t.writer = s.writer
    BY <1>1, <1>2 DEF ZkServers
  <1> HIDE DEF t
  <1>4. ZkServer(t)
    BY <1>2, <1>3 DEF ZkServer
  <1>5. ZkChange(n, s, t)
    BY <1>1, <1>2, <1>3 DEF ZkChange
  <1>6. ZkMoved(n, s, k, t)
    BY <1>3, <1>4, <1>5 DEF ZkMoved
  <1>7. QED BY <1>6 DEF t

(* Two changes by the node n, if only one of them is to the key.            *)
LEMMA ZkTwice ==
  ASSUME ZkAssume, NEW n \in Nodes, NEW s, NEW t, NEW u, ZkServer(s), ZkServer(t), ZkServer(u),
         ZkChange(n, s, t), ZkChange(n, t, u), t.key = s.key \/ u.key = t.key
  PROVE  ZkChange(n, s, u)
  <1>1. s.sync \in Nat /\ t.sync \in Nat /\ u.sync \in Nat /\ t.sync >= s.sync /\ u.sync >= t.sync
    BY DEF ZkServer, ZkServers, ZkChange
  <1>2. u.sync >= s.sync /\ \A v \in ZkVersions : v <= s.sync => v <= t.sync
    BY <1>1 DEF ZkVersions, ZkAssume
  <1>3. QED BY <1>2 DEF ZkChange

(* What is known of the node that takes a step.                             *)
ZkActor(n, c) ==
  /\ c \in ZkClients /\ ZkClient(server, n, c) /\ ZkServer(server) /\ n # None /\ n # "unknown"
  /\ c.session \in ZK!Sessions /\ c.session[1] = n /\ c.sure \in Nat /\ c.age \in Nat /\ c.age <= TTL /\ c.opened \in Nat
  /\ TTL \in Nat /\ TTL > 0 /\ ZK!Unknown \in ZkKeys
  /\ server.key.owner = n => server.key.session \in ZK!Sessions /\ server.key.session[2] \in Nat

(* What a node that takes a step can count on.                              *)
LEMMA ZkActs ==
  ASSUME ZkAssume, ZkInv, NEW n \in Nodes
  PROVE  ZkActor(n, client[n]) /\ client \in [Nodes -> ZkClients]
  <1> DEFINE c == client[n]
  <1>1. c \in ZkClients /\ ZkClient(server, n, c) /\ ZkServer(server) /\ client \in [Nodes -> ZkClients]
    BY DEF ZkInv
  <1>2. n # None /\ n # "unknown" /\ TTL \in Nat /\ TTL > 0 /\ ZK!Unknown \in ZkKeys /\ MaxSession \in Nat
    BY DEF ZkAssume, ZK!Unknown, ZkKeys
  <1>3. /\ c.session \in ZK!Sessions /\ c.session[1] = n /\ c.sure \in Nat /\ c.age \in 0..TTL
        /\ c.opened \in 1..MaxSession
    BY <1>1 DEF ZkClients, ZkClient, ZkTyped
  <1>4. server.key.owner = n => server.key.session \in ZK!Sessions /\ server.key.session[2] \in Nat
    BY <1>1, <1>2 DEF ZkServer, ZkKey, ZK!NoKey, ZK!Sessions
  <1> HIDE DEF c
  <1>5. c.age \in Nat /\ c.age <= TTL /\ c.opened \in Nat
    BY <1>2, <1>3
  <1>6. ZkActor(n, c)
    BY <1>1, <1>2, <1>3, <1>4, <1>5 DEF ZkActor
  <1>7. QED BY <1>1, <1>6 DEF c

(* The session of the node is renewed, and it still believes what it did.   *)
LEMMA ZkStays ==
  ASSUME ZkAssume, NEW n \in Nodes, NEW c, ZkActor(n, c), NEW t, NEW x \in ZK!Sessions, ZkRenewed(n, server, x, t),
         x = c.session => server.left[x] > 0
  PROVE  ZkHeld(t, n, c) /\ ZkSync(t, n, c) /\ ZkView(t, n, c)
  <1>1. ZkHeld(server, n, c) /\ ZkSync(server, n, c) /\ ZkView(server, n, c)
    BY DEF ZkActor, ZkClient
  <1>2. /\ t.key = server.key /\ t.sync = server.sync /\ t.writer = server.writer
        /\ \A y \in ZK!Sessions : t.left[y] \in Nat /\ server.left[y] \in Nat /\ t.left[y] >= server.left[y]
    BY DEF ZkRenewed
  <1>3. ZkHeld(t, n, c)
    BY <1>1, <1>2 DEF ZkHeld, ZkActor
  <1>4. ZkSync(t, n, c)
    BY <1>1, <1>2 DEF ZkSync
  <1>5. ZkView(t, n, c)
    <2>1. t.left[c.session] > 0 => server.left[c.session] > 0
      <3>1. CASE x = c.session
        BY <3>1
      <3>2. CASE x # c.session
        <4>1. c.session \in ZK!Sessions /\ t.left[c.session] = server.left[c.session]
          BY <3>2 DEF ZkActor, ZkRenewed
        <4>2. QED BY <4>1
      <3>3. QED BY <3>1, <3>2
    <2>2. server.left[c.session] + c.age >= TTL => t.left[c.session] + c.age >= TTL
      BY <1>2 DEF ZkActor
    <2>3. QED BY <1>1, <1>2, <2>1, <2>2 DEF ZkView
  <1>6. QED BY <1>3, <1>4, <1>5

(* Reading and pinging.                                                     *)
LEMMA ZkLoad ==
  ASSUME ZkAssume, ZkInv, NEW n \in Nodes, ZK!Load(n) \/ ZK!Ping(n)
  PROVE  ZkInv' /\ ZkOwnerStep
  <1> DEFINE c == client[n]
             x == c.session
  <1>1. ZkActor(n, c) /\ client \in [Nodes -> ZkClients]
    BY ZkActs
  <1>2. server' = [server EXCEPT !.left[x] = TTL] /\ server.left[x] > 0 /\ x \in ZK!Sessions /\ x[1] = n
    BY <1>1 DEF ZK!Load, ZK!Ping, ZK!Served, ZK!Alive, ZK!Beat, ZkActor
  <1>3. ZkRenewed(n, server, x, server')
    BY <1>1, <1>2, ZkRenew DEF ZkActor
  <1>4. ZkServer(server') /\ ZkChange(n, server, server')
    BY <1>3 DEF ZkRenewed
  <1>5. ZkHeld(server', n, c) /\ ZkSync(server', n, c) /\ ZkView(server', n, c)
    BY <1>1, <1>2, <1>3, ZkStays
  <1>6. CASE ZK!Ping(n)
    <2>1. client' = [client EXCEPT ![n] = c]
      BY <1>1, <1>6 DEF ZK!Ping
    <2>2. ZkClient(server', n, c)
      BY <1>1, <1>5 DEF ZkClient, ZkActor
    <2>3. QED BY <1>4, <2>1, <2>2, ZkStepOf
  <1>7. CASE ZK!Load(n)
    <2> DEFINE d == [c EXCEPT !.view = server.key, !.age = 0, !.leads = FALSE, !.version = server.sync]
    <2>1. client' = [client EXCEPT ![n] = d] /\ c.op = "idle"
      BY <1>1, <1>7 DEF ZK!Load, ZK!Idle
    <2>2. server.key \in ZkKeys /\ server.sync \in Nat /\ server.sync >= FirstVersion /\ 0 \in 0..TTL
      BY <1>1 DEF ZkActor, ZkServer, ZkServers
    <2>3. /\ d \in ZkClients /\ d.op = "idle" /\ d.session = x /\ d.opened = c.opened /\ d.view = server.key
          /\ d.age = 0 /\ d.sure = c.sure /\ d.version = server.sync /\ d.acked = c.acked
      BY <1>1, <2>1, <2>2 DEF ZkClients, ZkActor
    <2> HIDE DEF c, d, x
    <2>4. ZkTyped(n, d)
      BY <1>1, <2>3 DEF ZkActor, ZkClient, ZkTyped, x
    <2>5. ZkHeld(server', n, d) /\ ZkSync(server', n, d)
      BY <1>5, <2>2, <2>3 DEF ZkHeld, ZkSync
    <2>6. ZkView(server', n, d)
      <3>1. server'.key = server.key /\ server'.left[x] = TTL /\ TTL + 0 >= TTL
        BY <1>1, <1>3 DEF ZkRenewed, ZkActor
      <3>2. server.key.owner = n => server.key.session \in ZK!Sessions /\ server.key.session[1] = n
                                    /\ server.key.session[2] <= c.opened
        BY <1>1 DEF ZkActor, ZkServer, ZkKey, ZK!NoKey, ZkClient, ZkHeld
      <3>3. QED BY <2>3, <3>1, <3>2 DEF ZkView
    <2>7. ZkClient(server', n, d)
      BY <2>3, <2>4, <2>5, <2>6 DEF ZkClient, ZkOp
    <2>8. QED BY <1>4, <2>1, <2>7, ZkStepOf
  <1>8. QED BY <1>6, <1>7

(* A record that has forgotten what it loaded, with an answer or without.   *)
ZkDone(n, c, d) ==
  /\ d \in ZkClients /\ d.op = "idle" /\ d.view = ZK!Unknown /\ d.session[1] = n /\ d.session[2] <= d.opened
  /\ d.opened >= c.opened /\ d.version = c.version /\ d.acked = c.acked

(* The ways a call ends.                                                    *)
LEMMA ZkAnswers ==
  ASSUME ZkAssume, NEW n \in Nodes, NEW c, ZkActor(n, c), NEW good \in Nat
  PROVE  /\ ZkDone(n, c, ZK!Told(c, good)) /\ ZK!Told(c, good).sure = good /\ ZK!Told(c, good).session = c.session
         /\ ZkDone(n, c, ZK!Refused(c)) /\ ZK!Refused(c).sure = 0 /\ ZK!Refused(c).session = c.session
         /\ ZkDone(n, c, ZK!Finish(c)) /\ ZK!Finish(c).sure = c.sure /\ ZK!Finish(c).session = c.session
         /\ ZK!Finish(c).connected = c.connected /\ ZK!Refused(c).opened = c.opened
  <1>1. c \in ZkClients /\ ZK!Unknown \in ZkKeys /\ 0 \in 0..TTL /\ 0 \in Nat /\ c.opened >= c.opened
    BY DEF ZkActor
  <1>2. c.session[1] = n /\ c.session[2] <= c.opened
    BY DEF ZkActor, ZkClient, ZkTyped
  <1>3. PICK d : d = ZK!Finish(c)
    OBVIOUS
  <1>4. d = [c EXCEPT !.op = "idle", !.view = ZK!Unknown, !.age = 0]
    BY <1>3 DEF ZK!Finish
  <1>5. /\ d \in ZkClients /\ d.op = "idle" /\ d.view = ZK!Unknown /\ d.session = c.session /\ d.opened = c.opened
        /\ d.version = c.version /\ d.acked = c.acked /\ d.sure = c.sure /\ d.connected = c.connected
    BY <1>1, <1>4 DEF ZkClients
  <1>6. PICK e : e = ZK!Told(c, good)
    OBVIOUS
  <1>7. e = [d EXCEPT !.sure = good, !.leads = TRUE]
    BY <1>3, <1>6 DEF ZK!Told
  <1>8. /\ e \in ZkClients /\ e.op = "idle" /\ e.view = ZK!Unknown /\ e.session = c.session /\ e.opened = c.opened
        /\ e.version = c.version /\ e.acked = c.acked /\ e.sure = good
    BY <1>5, <1>7 DEF ZkClients
  <1>9. PICK f : f = ZK!Refused(c)
    OBVIOUS
  <1>10. f = [d EXCEPT !.sure = 0, !.leads = FALSE]
    BY <1>3, <1>9 DEF ZK!Refused
  <1>11. /\ f \in ZkClients /\ f.op = "idle" /\ f.view = ZK!Unknown /\ f.session = c.session /\ f.opened = c.opened
         /\ f.version = c.version /\ f.acked = c.acked /\ f.sure = 0
    BY <1>1, <1>5, <1>10 DEF ZkClients
  <1>12. ZkDone(n, c, d) /\ ZkDone(n, c, e) /\ ZkDone(n, c, f)
    BY <1>1, <1>2, <1>5, <1>8, <1>11 DEF ZkDone
  <1>13. QED BY <1>3, <1>5, <1>6, <1>8, <1>9, <1>11, <1>12

(* The end of a call.                                                       *)
LEMMA ZkDoneOK ==
  ASSUME ZkAssume, NEW n \in Nodes, NEW c, ZkActor(n, c), NEW d, ZkDone(n, c, d), NEW t, ZkServer(t),
         ZkChange(n, server, t),
         t.key.owner = n => t.key.session[2] <= d.opened,
         d.sure > 0 => t.key.owner = n /\ d.sure <= t.left[t.key.session]
  PROVE  ZkClient(t, n, d)
  <1>1. ZkTyped(n, d) /\ d.op = "idle" /\ d.view = ZK!Unknown
    BY DEF ZkDone, ZkTyped
  <1>2. ZkHeld(t, n, d)
    BY DEF ZkHeld
  <1>3. ZkSync(t, n, d)
    <2>1. ZkSync(server, n, c) /\ server.sync \in Nat /\ t.sync \in Nat
      BY DEF ZkActor, ZkClient, ZkServer, ZkServers
    <2>2. ZkSync(t, n, c)
      BY <2>1, ZkSyncKept
    <2>3. QED BY <2>2 DEF ZkSync, ZkDone
  <1>4. QED BY <1>1, <1>2, <1>3, ZkEnd

(* attempt_to_acquire_leader(), and the second half of an update.           *)
LEMMA ZkCreate ==
  ASSUME ZkAssume, ZkInv, NEW n \in Nodes, ZK!CreateKey(n)
  PROVE  ZkInv' /\ ZkOwnerStep
  <1> DEFINE c == client[n]
             x == c.session
             k == [owner |-> n, session |-> x]
             b == ZK!Beat(server, n)
  <1>1. ZkActor(n, c) /\ client \in [Nodes -> ZkClients]
    BY ZkActs
  <1>2. b = [server EXCEPT !.left[x] = TTL] /\ server.left[x] > 0 /\ x \in ZK!Sessions /\ x[1] = n
    BY <1>1 DEF ZK!CreateKey, ZK!Served, ZK!Alive, ZK!Beat, ZkActor
  <1>3. ZkRenewed(n, server, x, b)
    BY <1>1, <1>2, ZkRenew DEF ZkActor
  <1>4. /\ ZkServer(server) /\ ZkServer(b) /\ ZkChange(n, server, b) /\ b.key = server.key /\ b.left[x] = TTL
        /\ TTL \in Nat /\ TTL > 0 /\ x[2] <= c.opened
    BY <1>1, <1>3 DEF ZkRenewed, ZkActor, ZkClient, ZkTyped
  <1>5. CASE server.key = ZK!NoKey
    <2>1. server' = [b EXCEPT !.key = k] /\ client' = [client EXCEPT ![n] = ZK!Told(c, TTL)]
      BY <1>5 DEF ZK!CreateKey
    <2>2. b.key.owner = None
      BY <1>4, <1>5 DEF ZK!NoKey
    <2> HIDE DEF b
    <2>3. ZkMoved(n, b, k, server')
      BY <1>2, <1>4, <2>1, <2>2, ZkMove
    <2>4. /\ ZkServer(server') /\ ZkChange(n, b, server') /\ server'.key.owner = n /\ server'.key.session = x
          /\ server'.left[x] = TTL
      BY <1>4, <2>3 DEF ZkMoved
    <2>5. ZkChange(n, server, server')
      BY <1>4, <2>4, ZkTwice
    <2> HIDE DEF c, x
    <2> DEFINE d == ZK!Told(c, TTL)
    <2>6. ZkDone(n, c, d) /\ d.sure = TTL /\ d.opened >= c.opened /\ d.session = x /\ d.session[2] <= d.opened
      BY <1>1, <1>4, ZkAnswers DEF ZkDone, x
    <2> HIDE DEF d
    <2>7. ZkClient(server', n, d)
      BY <1>1, <1>4, <2>4, <2>5, <2>6, ZkDoneOK
    <2>8. QED BY <2>1, <2>4, <2>5, <2>7, ZkStepOf DEF d
  <1>6. CASE server.key # ZK!NoKey
    <2>1. server' = b /\ client' = [client EXCEPT ![n] = ZK!Refused(c)]
      BY <1>6 DEF ZK!CreateKey
    <2> DEFINE d == ZK!Refused(c)
    <2> HIDE DEF c, x, b
    <2>2. ZkDone(n, c, d) /\ d.sure = 0 /\ d.opened = c.opened
      BY <1>1, <1>4, ZkAnswers
    <2>3. server.key.owner = n => server.key.session[2] <= c.opened
      BY <1>1 DEF ZkActor, ZkClient, ZkHeld
    <2>4. ~(0 > 0)
      OBVIOUS
    <2> HIDE DEF d
    <2>5. ZkClient(server', n, d)
      BY <1>1, <1>4, <2>1, <2>2, <2>3, <2>4, ZkDoneOK
    <2>6. QED BY <1>4, <2>1, <2>5, ZkStepOf DEF d
  <1>7. QED BY <1>5, <1>6

(* _update_leader() confirms a key of the session, or starts to recreate    *)
(* one of an older session.                                                 *)
LEMMA ZkUpdate ==
  ASSUME ZkAssume, ZkInv, NEW n \in Nodes, ZK!UpdateLeader(n)
  PROVE  ZkInv' /\ ZkOwnerStep
  <1> DEFINE c == client[n]
             x == c.session
  <1>1. ZkActor(n, c) /\ client \in [Nodes -> ZkClients] /\ server' = server /\ c.view.owner = n /\ c.op = "idle"
    BY ZkActs DEF ZK!UpdateLeader, ZK!Idle
  <1>2. ZkServer(server) /\ ZkChange(n, server, server)
    BY <1>1, ZkUnchanged DEF ZkActor
  <1>3. ZkHeld(server, n, c) /\ ZkView(server, n, c) /\ ZkSync(server, n, c) /\ ZkTyped(n, c)
    BY <1>1 DEF ZkActor, ZkClient
  <1>4. CASE c.view.session = x
    <2> DEFINE good == TTL - c.age
               d == ZK!Told(c, good)
    <2>1. client' = [client EXCEPT ![n] = d]
      BY <1>4 DEF ZK!UpdateLeader
    <2>2. good \in Nat
      BY <1>1 DEF ZkActor
    <2>3. good > 0 => server.key.owner = n /\ good <= server.left[server.key.session]
      <3>1. server.left[x] \in Nat /\ c.age \in Nat /\ TTL \in Nat
        BY <1>1 DEF ZkActor, ZkServer, ZkServers, ZkAssume
      <3>2. server.left[x] + c.age >= TTL /\ (server.left[x] > 0 => server.key = c.view)
        BY <1>1, <1>3, <1>4 DEF ZkView
      <3> HIDE DEF x
      <3>3. good <= server.left[x] /\ (good > 0 => server.left[x] > 0)
        BY <3>1, <3>2
      <3>4. QED BY <1>1, <1>4, <3>2, <3>3
    <2> HIDE DEF c, good
    <2>4. ZkDone(n, c, d) /\ d.sure = good /\ d.opened >= c.opened /\ d.opened \in Nat
      <3>1. ZkDone(n, c, d) /\ d.sure = good
        BY <1>1, <2>2, ZkAnswers
      <3>2. d.opened \in 1..MaxSession
        BY <3>1 DEF ZkDone, ZkClients
      <3>3. QED BY <3>1, <3>2 DEF ZkDone, ZkAssume
    <2> HIDE DEF d
    <2>5. server.key.owner = n => server.key.session[2] <= d.opened
      BY <1>1, <1>3, <2>4 DEF ZkHeld, ZkActor
    <2>6. ZkClient(server, n, d)
      BY <1>1, <1>2, <2>3, <2>4, <2>5, ZkDoneOK
    <2>7. QED BY <1>1, <1>2, <2>1, <2>6, ZkStepOf
  <1>5. CASE c.view.session # x
    <2> DEFINE d == [c EXCEPT !.op = "delete", !.sure = 0]
    <2>1. client' = [client EXCEPT ![n] = d]
      BY <1>5 DEF ZK!UpdateLeader
    <2>2. /\ d \in ZkClients /\ d.op = "delete" /\ d.session = x /\ d.opened = c.opened /\ d.view = c.view
          /\ d.age = c.age /\ d.sure = 0 /\ d.version = c.version /\ d.acked = c.acked
      BY <1>1 DEF ZkClients, ZkActor
    <2> HIDE DEF d, c
    <2>3. ZkHeld(server, n, d) /\ ZkView(server, n, d) /\ ZkSync(server, n, d) /\ ZkTyped(n, d) /\ ZkOp(n, d)
      BY <1>1, <1>3, <1>5, <2>2 DEF ZkHeld, ZkView, ZkSync, ZkTyped, ZkOp
    <2>4. QED BY <1>1, <1>2, <2>1, <2>3, ZkStepOf DEF ZkClient
  <1>6. QED BY <1>4, <1>5

(* _update_leader() deletes the key of an older session of the node.        *)
LEMMA ZkDelete ==
  ASSUME ZkAssume, ZkInv, NEW n \in Nodes, ZK!DeleteKey(n)
  PROVE  ZkInv' /\ ZkOwnerStep
  <1> DEFINE c == client[n]
             x == c.session
             b == ZK!Beat(server, n)
             d == [c EXCEPT !.op = "recreate"]
  <1>1. /\ ZkActor(n, c) /\ client \in [Nodes -> ZkClients] /\ c.op = "delete"
        /\ server' = [b EXCEPT !.key = ZK!NoKey] /\ client' = [client EXCEPT ![n] = d]
        /\ server.key \in {c.view, ZK!NoKey}
    BY ZkActs DEF ZK!DeleteKey, ZkAssume
  <1>2. b = [server EXCEPT !.left[x] = TTL] /\ server.left[x] > 0 /\ x \in ZK!Sessions /\ x[1] = n
    BY <1>1 DEF ZK!DeleteKey, ZK!Served, ZK!Alive, ZK!Beat, ZkActor
  <1>3. ZkRenewed(n, server, x, b)
    BY <1>1, <1>2, ZkRenew DEF ZkActor
  <1>4. ZkServer(server) /\ ZkServer(b) /\ ZkChange(n, server, b) /\ b.key = server.key
    BY <1>1, <1>3 DEF ZkRenewed, ZkActor
  <1>5. ZkView(server, n, c) /\ ZkSync(server, n, c) /\ ZkTyped(n, c) /\ ZkOp(n, c)
    BY <1>1 DEF ZkActor, ZkClient
  <1>6. c.view.owner = n /\ c.sure = 0 /\ c.view.session # x /\ n # None
    BY <1>1, <1>5 DEF ZkOp, ZkActor
  <1>7. b.key.owner \in {None, n}
    BY <1>1, <1>4, <1>6 DEF ZK!NoKey
  <1>8. /\ d \in ZkClients /\ d.op = "recreate" /\ d.session = x /\ d.opened = c.opened /\ d.view = c.view
        /\ d.age = c.age /\ d.sure = c.sure /\ d.version = c.version /\ d.acked = c.acked
    BY <1>1 DEF ZkClients, ZkActor
  <1> HIDE DEF b, c, d, x
  <1>9. ZkMoved(n, b, ZK!NoKey, server')
    BY <1>1, <1>4, <1>7, ZkMove
  <1>10. ZkServer(server') /\ ZkChange(n, b, server') /\ server'.key.owner = None
    BY <1>9 DEF ZkMoved, ZK!NoKey
  <1>11. ZkChange(n, server, server')
    BY <1>4, <1>10, ZkTwice
  <1>12. ZkSync(server', n, c)
    BY <1>4, <1>5, <1>10, <1>11, ZkSyncKept DEF ZkServer, ZkServers
  <1>13. ZkHeld(server', n, d) /\ ZkView(server', n, d) /\ ZkSync(server', n, d) /\ ZkTyped(n, d) /\ ZkOp(n, d)
    BY <1>5, <1>6, <1>8, <1>10, <1>12 DEF ZkHeld, ZkView, ZkSync, ZkTyped, ZkOp, x
  <1>14. QED BY <1>1, <1>10, <1>11, <1>13, ZkStepOf DEF ZkClient

(* A session that ends takes its key along.                                 *)
LEMMA ZkEndSession ==
  ASSUME ZkAssume, NEW n \in Nodes, NEW s, ZkServer(s), NEW x \in ZK!Sessions, x[1] = n
  PROVE  ZkServer(ZK!End(s, x)) /\ ZkChange(n, s, ZK!End(s, x)) /\ ZK!End(s, x).key \in {s.key, ZK!NoKey}
  <1> DEFINE L == [s.left EXCEPT ![x] = 0]
             k == IF s.key.session = x THEN ZK!NoKey ELSE s.key
             t == ZK!End(s, x)
  <1>1. s \in ZkServers /\ s.left \in [ZK!Sessions -> 0..TTL] /\ 0 \in 0..TTL /\ s.sync \in Nat /\ s.key \in ZkKeys
        /\ ZK!NoKey \in ZkKeys
    BY DEF ZkServer, ZkServers, ZkAssume, ZK!NoKey, ZkKeys
  <1>2. L \in [ZK!Sessions -> 0..TTL] /\ \A y \in ZK!Sessions : y # x => L[y] = s.left[y]
    BY <1>1
  <1>3. t = [s EXCEPT !.left = L, !.key = k]
    BY <1>1 DEF ZK!End, ZkServers
  <1>4. k \in ZkKeys /\ k \in {s.key, ZK!NoKey}
    BY <1>1
  <1>5. ZkKey(k, L)
    BY <1>2 DEF ZkServer, ZkKey
  <1>6. k = s.key \/ (s.key.owner \in {None, n} /\ k.owner \in {None, n})
    BY DEF ZkServer, ZkKey, ZK!NoKey
  <1> HIDE DEF L, k, t
  <1>7. t \in ZkServers /\ t.key = k /\ t.left = L /\ t.sync = s.sync /\ t.writer = s.writer
    BY <1>1, <1>2, <1>3, <1>4 DEF ZkServers
  <1>8. ZkServer(t)
    BY <1>5, <1>7 DEF ZkServer
  <1>9. ZkChange(n, s, t)
    BY <1>1, <1>2, <1>6, <1>7 DEF ZkChange
  <1>10. QED BY <1>4, <1>7, <1>8, <1>9 DEF t

(* A node with a new session that has forgotten what it was told.           *)
LEMMA ZkNewSession ==
  ASSUME ZkAssume, NEW n \in Nodes, NEW c, ZkActor(n, c), c.opened < MaxSession
  PROVE  LET id == <<n, c.opened + 1>> IN
         /\ id \in ZK!Sessions /\ id[1] = n /\ c.opened + 1 \in 1..MaxSession
         /\ id[2] = c.opened + 1 /\ c.opened + 1 >= c.opened /\ c.opened + 1 \in Nat
  <1>1. c.opened + 1 \in 1..MaxSession /\ c.opened + 1 >= c.opened /\ c.opened + 1 \in Nat
    BY DEF ZkActor, ZkAssume
  <1>2. QED BY <1>1 DEF ZK!Sessions

(* restart() closes the session and opens another one; a crash leaves it to *)
(* expire.                                                                  *)
LEMMA ZkRestart ==
  ASSUME ZkAssume, ZkInv, NEW n \in Nodes, ZK!Restart(n) \/ ZK!Crash(n)
  PROVE  ZkInv' /\ ZkOwnerStep
  <1> DEFINE c == client[n]
             x == c.session
             k == c.opened + 1
             id == <<n, k>>
             r == ZK!Refused(c)
             b == IF ZK!Restart(n) THEN ZK!End(server, x) ELSE server
  <1>1. ZkActor(n, c) /\ client \in [Nodes -> ZkClients] /\ c.opened < MaxSession
    BY ZkActs DEF ZK!Restart, ZK!Crash
  <1>2. /\ id \in ZK!Sessions /\ id[1] = n /\ k \in 1..MaxSession /\ id[2] = k /\ k >= c.opened
        /\ k \in Nat
    BY <1>1, ZkNewSession
  <1>3. ZkServer(server) /\ x \in ZK!Sessions /\ x[1] = n /\ c.opened \in Nat
    BY <1>1 DEF ZkActor
  <1>4. ZkServer(b) /\ ZkChange(n, server, b) /\ b.key \in {server.key, ZK!NoKey}
    BY <1>3, ZkEndSession, ZkUnchanged
  <1>5. server' = [b EXCEPT !.left[id] = TTL]
    BY DEF ZK!Restart, ZK!Crash
  <1>6. ZkDone(n, c, r) /\ r.sure = 0 /\ r.opened = c.opened /\ r \in ZkClients
    <2> HIDE DEF c
    <2>1. ZkDone(n, c, r) /\ r.sure = 0 /\ r.opened = c.opened
      BY <1>1, ZkAnswers
    <2>2. QED BY <2>1 DEF ZkDone
  <1>7. PICK e : /\ e = client'[n] /\ client' = [client EXCEPT ![n] = e]
                 /\ ZkDone(n, c, e) /\ e.sure = 0 /\ e.opened = k
    <2>1. \/ client' = [client EXCEPT ![n] = [r EXCEPT !.session = id, !.opened = @ + 1]]
          \/ client' = [client EXCEPT ![n] = [r EXCEPT !.session = id, !.opened = @ + 1, !.connected = TRUE]]
      <3>1. CASE ZK!Restart(n)
        BY <1>1, <3>1 DEF ZK!Restart
      <3>2. CASE ZK!Crash(n)
        BY <1>1, <3>2 DEF ZK!Crash
      <3>3. QED BY <3>1, <3>2
    <2>2. r.opened + 1 = k
      BY <1>6
    <2> HIDE DEF r, k, id
    <2>3. PICK e : /\ client' = [client EXCEPT ![n] = e]
                   /\ \/ e = [r EXCEPT !.session = id, !.opened = k]
                      \/ e = [r EXCEPT !.session = id, !.opened = k, !.connected = TRUE]
      BY <1>6, <2>1, <2>2 DEF ZkClients
    <2>4. /\ e \in ZkClients /\ e.op = r.op /\ e.view = r.view /\ e.session = id /\ e.opened = k /\ e.sure = r.sure
          /\ e.version = r.version /\ e.acked = r.acked
      <3>1. r \in ZkClients /\ id \in ZK!Sessions /\ k \in 1..MaxSession
        BY <1>2, <1>6
      <3>2. CASE e = [r EXCEPT !.session = id, !.opened = k]
        BY <3>1, <3>2 DEF ZkClients
      <3>3. CASE e = [r EXCEPT !.session = id, !.opened = k, !.connected = TRUE]
        BY <3>1, <3>3 DEF ZkClients
      <3>4. QED BY <2>3, <3>2, <3>3
    <2>5. e = client'[n]
      BY <1>1, <2>3
    <2>6. k <= k
      BY <1>2
    <2>7. ZkDone(n, c, e) /\ e.sure = 0
      BY <1>2, <1>6, <2>4, <2>6 DEF ZkDone
    <2>8. QED BY <2>3, <2>4, <2>5, <2>7
  <1> HIDE DEF b, id, k, r
  <1>8. ZkRenewed(n, b, id, server')
    BY <1>2, <1>4, <1>5, ZkRenew
  <1>9. ZkServer(server') /\ ZkChange(n, b, server') /\ server'.key = b.key
    BY <1>8 DEF ZkRenewed
  <1>10. ZkChange(n, server, server')
    BY <1>3, <1>4, <1>9, ZkTwice
  <1>11. server'.key.owner = n => server'.key.session[2] <= e.opened
    <2>1. server'.key.owner = n => server'.key = server.key
      BY <1>1, <1>4, <1>9 DEF ZkActor, ZK!NoKey
    <2>2. server.key.owner = n => server.key.session[2] <= c.opened /\ server.key.session[2] \in Nat
      BY <1>1 DEF ZkActor, ZkClient, ZkHeld
    <2>3. QED BY <1>2, <1>3, <1>7, <2>1, <2>2
  <1>12. ~(0 > 0)
    OBVIOUS
  <1>13. ZkClient(server', n, e)
    BY <1>1, <1>7, <1>9, <1>10, <1>11, <1>12, ZkDoneOK
  <1>14. QED BY <1>7, <1>9, <1>10, <1>13, ZkStepOf

(* set_sync_state_value().                                                  *)
LEMMA ZkSetSync ==
  ASSUME ZkAssume, ZkInv, NEW n \in Nodes, ZK!SetSync(n)
  PROVE  ZkInv' /\ ZkOwnerStep
  <1> DEFINE c == client[n]
             x == c.session
             b == ZK!Beat(server, n)
             f == ZK!Finish(c)
             v == server.sync + 1
  <1>1. ZkActor(n, c) /\ client \in [Nodes -> ZkClients] /\ server.sync < FirstVersion + MaxVersions
    BY ZkActs DEF ZK!SetSync
  <1>2. b = [server EXCEPT !.left[x] = TTL] /\ server.left[x] > 0 /\ x \in ZK!Sessions /\ x[1] = n
    BY <1>1 DEF ZK!SetSync, ZK!Served, ZK!Alive, ZK!Beat, ZkActor
  <1>3. ZkRenewed(n, server, x, b)
    BY <1>1, <1>2, ZkRenew DEF ZkActor
  <1>4. /\ ZkServer(server) /\ ZkServer(b) /\ ZkChange(n, server, b) /\ b.key = server.key /\ b.sync = server.sync
        /\ b.writer = server.writer
    BY <1>1, <1>3 DEF ZkRenewed, ZkActor
  <1>5. ZkHeld(b, n, c) /\ ZkSync(b, n, c)
    BY <1>1, <1>2, <1>3, ZkStays
  <1>6. ZkDone(n, c, f) /\ f.sure = c.sure /\ f \in ZkClients /\ f.opened \in Nat
    <2> HIDE DEF c
    <2>1. ZkDone(n, c, f) /\ f.sure = c.sure
      BY <1>1, ZkAnswers
    <2>2. f.opened \in 1..MaxSession /\ MaxSession \in Nat
      BY <2>1 DEF ZkDone, ZkClients, ZkAssume
    <2>3. QED BY <2>1, <2>2 DEF ZkDone
  <1>7. b.key.owner = n => b.key.session[2] <= f.opened
    BY <1>1, <1>4, <1>5, <1>6 DEF ZkHeld, ZkDone, ZkActor
  <1>8. f.sure > 0 => b.key.owner = n /\ f.sure <= b.left[b.key.session]
    BY <1>5, <1>6 DEF ZkHeld
  <1>9. CASE server' = b /\ client' = [client EXCEPT ![n] = f]
    <2> HIDE DEF b, c, f
    <2>1. ZkClient(b, n, f)
      BY <1>1, <1>4, <1>6, <1>7, <1>8, ZkDoneOK
    <2>2. QED BY <1>4, <1>9, <2>1, ZkStepOf
  <1>10. CASE /\ c.version \in {server.sync, 0}
              /\ server' = [b EXCEPT !.sync = @ + 1, !.writer[server.sync + 1] = n]
              /\ client' = [client EXCEPT ![n] = [f EXCEPT !.acked = @ \cup {c.version + 1}, !.version = server.sync + 1]]
    <2> DEFINE W == [b.writer EXCEPT ![v] = n]
               A == f.acked \cup {v}
               d == [f EXCEPT !.acked = A, !.version = v]
    <2>1. c.version = server.sync /\ server.sync \in Nat /\ server.sync >= FirstVersion
      <3>1. c.version >= FirstVersion /\ FirstVersion \in Nat \ {0} /\ c.version \in Nat
        BY <1>1, <1>5 DEF ZkSync, ZkAssume, ZkClients, ZkActor
      <3>2. c.version # 0
        BY <3>1
      <3>3. QED BY <1>4, <1>10, <3>2 DEF ZkServer, ZkServers
    <2>2. v \in Nat /\ v \in ZkVersions /\ v > server.sync /\ v >= server.sync /\ v >= FirstVersion /\ v <= v
      BY <1>1, <2>1 DEF ZkVersions, ZkAssume
    <2>3. b \in ZkServers /\ b.writer \in [ZkVersions -> Owners] /\ n \in Owners
      BY <1>4 DEF ZkServer, ZkServers, Owners
    <2> HIDE DEF v
    <2>4. W \in [ZkVersions -> Owners] /\ W[v] = n /\ \A w \in ZkVersions : w # v => W[w] = b.writer[w]
      BY <2>2, <2>3
    <2>5. server' = [b EXCEPT !.sync = v, !.writer = W]
      BY <1>4, <1>10, <2>3 DEF ZkServers, v
    <2> HIDE DEF W, b
    <2>6. /\ server' \in ZkServers /\ server'.key = b.key /\ server'.left = b.left /\ server'.sync = v
          /\ server'.writer = W
      BY <2>2, <2>3, <2>4, <2>5 DEF ZkServers
    <2>7. ZkServer(server')
      BY <1>4, <2>2, <2>6 DEF ZkServer
    <2>8. \A w \in ZkVersions : w <= server.sync => w # v
      BY <2>1, <2>2 DEF ZkVersions, ZkAssume
    <2>9. ZkChange(n, b, server')
      BY <1>4, <2>2, <2>4, <2>6, <2>8 DEF ZkChange
    <2>10. ZkChange(n, server, server')
      BY <1>4, <2>7, <2>9, ZkTwice
    <2>11. client' = [client EXCEPT ![n] = d]
      BY <1>6, <1>10, <2>1 DEF ZkClients, v
    <2> HIDE DEF f, c
    <2>12. A \in SUBSET Nat
      BY <1>6, <2>2 DEF ZkClients
    <2> HIDE DEF A
    <2>13. /\ d \in ZkClients /\ d.op = f.op /\ d.view = f.view /\ d.session = f.session /\ d.opened = f.opened
           /\ d.sure = f.sure /\ d.version = v /\ d.acked = A
      BY <1>6, <2>2, <2>12 DEF ZkClients
    <2> HIDE DEF d
    <2>14. ZkTyped(n, d) /\ d.op = "idle" /\ d.view = ZK!Unknown
      BY <1>6, <2>13 DEF ZkTyped, ZkDone
    <2>15. ZkHeld(server', n, d)
      BY <1>7, <1>8, <2>6, <2>13 DEF ZkHeld
    <2>16. ZkSync(server', n, d)
      <3>1. ZkSync(server', n, c)
        BY <1>4, <1>5, <2>1, <2>2, <2>6, <2>9, ZkSyncKept
      <3>2. \A w \in A : w \in ZkVersions /\ w <= server'.sync /\ server'.writer[w] = n
        BY <1>6, <2>2, <2>4, <2>6, <3>1 DEF ZkSync, ZkDone, A
      <3>3. QED BY <2>2, <2>13, <3>2 DEF ZkSync
    <2>17. ZkClient(server', n, d)
      BY <2>14, <2>15, <2>16, ZkEnd
    <2>18. QED BY <2>7, <2>10, <2>11, <2>17, ZkStepOf
  <1>11. QED BY <1>9, <1>10 DEF ZK!SetSync

(* A connection is lost, with a request that may have been applied.         *)
LEMMA ZkDisconnect ==
  ASSUME ZkAssume, ZkInv, NEW n \in Nodes, ZK!Disconnect(n)
  PROVE  ZkInv' /\ ZkOwnerStep
  <1> DEFINE c == client[n]
             x == c.session
             k == [owner |-> n, session |-> x]
             f == ZK!Finish(c)
             d == [f EXCEPT !.connected = FALSE]
  <1>1. ZkActor(n, c) /\ client \in [Nodes -> ZkClients] /\ client' = [client EXCEPT ![n] = d]
    BY ZkActs DEF ZK!Disconnect
  <1>2. ZkDone(n, c, d) /\ d.sure = c.sure /\ d.opened \in Nat /\ d.opened >= c.opened
    <2> HIDE DEF c
    <2>1. ZkDone(n, c, f) /\ f.sure = c.sure
      BY <1>1, ZkAnswers
    <2> HIDE DEF f
    <2>2. /\ d \in ZkClients /\ d.op = f.op /\ d.view = f.view /\ d.session = f.session /\ d.opened = f.opened
          /\ d.sure = f.sure /\ d.version = f.version /\ d.acked = f.acked
      BY <2>1 DEF ZkDone, ZkClients
    <2>3. ZkDone(n, c, d)
      BY <2>1, <2>2 DEF ZkDone
    <2>4. d.opened \in 1..MaxSession /\ MaxSession \in Nat
      BY <2>2 DEF ZkClients, ZkAssume
    <2>5. QED BY <2>1, <2>2, <2>3, <2>4 DEF ZkDone
  <1>3. ZkHeld(server, n, c) /\ ZkServer(server)
    BY <1>1 DEF ZkActor, ZkClient
  <1> HIDE DEF d
  <1>4. CASE server' = server
    <2>1. ZkChange(n, server, server)
      BY <1>3, ZkUnchanged
    <2>2. server.key.owner = n => server.key.session[2] <= d.opened
      BY <1>1, <1>2, <1>3 DEF ZkHeld, ZkActor
    <2>3. d.sure > 0 => server.key.owner = n /\ d.sure <= server.left[server.key.session]
      BY <1>2, <1>3 DEF ZkHeld
    <2> HIDE DEF c
    <2>4. ZkClient(server, n, d)
      BY <1>1, <1>2, <1>3, <2>1, <2>2, <2>3, ZkDoneOK
    <2>5. QED BY <1>1, <1>3, <1>4, <2>1, <2>4, ZkStepOf
  <1>5. CASE /\ ZK!Served(n) /\ server.key = ZK!NoKey /\ server' = [server EXCEPT !.key = k]
    <2>1. x \in ZK!Sessions /\ x[1] = n /\ server.left[x] > 0 /\ x[2] <= c.opened /\ x[2] \in Nat
      BY <1>1, <1>5 DEF ZkActor, ZK!Served, ZK!Alive, ZkClient, ZkTyped, ZK!Sessions
    <2>2. server.key.owner = None /\ n # None
      BY <1>1, <1>5 DEF ZK!NoKey, ZkActor
    <2>3. ZkMoved(n, server, k, server')
      BY <1>3, <1>5, <2>1, <2>2, ZkMove
    <2>4. ZkServer(server') /\ ZkChange(n, server, server') /\ server'.key.owner = n /\ server'.key.session = x
      BY <2>3 DEF ZkMoved
    <2>5. x[2] <= d.opened
      BY <1>1, <1>2, <2>1 DEF ZkActor
    <2>6. ~(d.sure > 0)
      BY <1>2, <1>3, <2>2 DEF ZkHeld
    <2> HIDE DEF c, x
    <2>7. ZkClient(server', n, d)
      BY <1>1, <1>2, <2>4, <2>5, <2>6, ZkDoneOK
    <2>8. QED BY <1>1, <2>4, <2>7, ZkStepOf
  <1>6. QED BY <1>4, <1>5 DEF ZK!Disconnect

(* kazoo reconnects, with the same session or a new one.                    *)
LEMMA ZkReconnect ==
  ASSUME ZkAssume, ZkInv, NEW n \in Nodes, ZK!Reconnect(n)
  PROVE  ZkInv' /\ ZkOwnerStep
  <1> DEFINE c == client[n]
             x == c.session
             k == c.opened + 1
             id == <<n, k>>
  <1>1. ZkActor(n, c) /\ client \in [Nodes -> ZkClients]
    BY ZkActs
  <1>2. ZkServer(server) /\ x \in ZK!Sessions /\ x[1] = n /\ c.opened \in Nat /\ c \in ZkClients
    BY <1>1 DEF ZkActor
  <1>3. ZkTyped(n, c) /\ ZkOp(n, c) /\ ZkView(server, n, c) /\ ZkHeld(server, n, c)
    BY <1>1 DEF ZkActor, ZkClient
  <1>4. CASE ZK!Alive(server, x)
    <2> DEFINE d == [c EXCEPT !.connected = TRUE]
    <2>1. server' = [server EXCEPT !.left[x] = TTL] /\ server.left[x] > 0 /\ client' = [client EXCEPT ![n] = d]
      BY <1>1, <1>4 DEF ZK!Reconnect, ZK!Beat, ZK!Alive
    <2>2. ZkRenewed(n, server, x, server')
      BY <1>2, <2>1, ZkRenew
    <2>3. ZkHeld(server', n, c) /\ ZkSync(server', n, c) /\ ZkView(server', n, c)
      BY <1>1, <1>2, <2>1, <2>2, ZkStays
    <2>4. /\ d \in ZkClients /\ d.op = c.op /\ d.view = c.view /\ d.session = c.session /\ d.opened = c.opened
          /\ d.sure = c.sure /\ d.version = c.version /\ d.acked = c.acked /\ d.age = c.age
      BY <1>2 DEF ZkClients
    <2> HIDE DEF c, d
    <2>5. ZkTyped(n, d) /\ ZkOp(n, d) /\ ZkView(server', n, d) /\ ZkHeld(server', n, d) /\ ZkSync(server', n, d)
      BY <1>3, <2>3, <2>4 DEF ZkTyped, ZkOp, ZkView, ZkHeld, ZkSync
    <2>6. QED BY <2>1, <2>2, <2>5, ZkStepOf DEF ZkClient, ZkRenewed
  <1>5. CASE ~ZK!Alive(server, x)
    <2>1. /\ c.opened < MaxSession /\ server' = [server EXCEPT !.left[id] = TTL]
          /\ client' = [client EXCEPT ![n] = [c EXCEPT !.connected = TRUE, !.session = id, !.opened = @ + 1]]
      BY <1>1, <1>5 DEF ZK!Reconnect
    <2>2. /\ id \in ZK!Sessions /\ id[1] = n /\ k \in 1..MaxSession /\ id[2] = k /\ k >= c.opened /\ k \in Nat
      BY <1>1, <2>1, ZkNewSession
    <2>9. k > c.opened /\ k <= k
      BY <1>2
    <2> DEFINE d == [c EXCEPT !.connected = TRUE, !.session = id, !.opened = k]
    <2>3. client' = [client EXCEPT ![n] = d]
      BY <1>2, <2>1 DEF ZkClients
    <2> HIDE DEF k, id
    <2>4. /\ d \in ZkClients /\ d.op = c.op /\ d.view = c.view /\ d.session = id /\ d.opened = k
          /\ d.sure = c.sure /\ d.version = c.version /\ d.acked = c.acked /\ d.age = c.age
      BY <1>2, <2>2 DEF ZkClients
    <2>5. ZkRenewed(n, server, id, server')
      BY <1>2, <2>1, <2>2, ZkRenew
    <2>10. c.session[2] <= c.opened /\ c.session[2] \in Nat
      BY <1>2, <1>3 DEF ZkTyped, ZK!Sessions
    <2>6. id # x
      BY <1>2, <2>2, <2>9, <2>10
    <2>7. ZkHeld(server', n, c) /\ ZkSync(server', n, c)
      BY <1>1, <2>2, <2>5, <2>6, ZkStays
    <2>11. c.view.owner = n => /\ c.view.session \in ZK!Sessions /\ c.view.session[1] = n /\ c.view.session[2] <= k
                               /\ c.view.session # id
      <3>1. c.view.session \in ZK!Sessions => c.view.session[2] \in Nat
        BY DEF ZK!Sessions
      <3>2. QED BY <1>2, <1>3, <2>2, <2>9, <3>1 DEF ZkView
    <2>12. server'.key.owner = n => server'.key.session[2] <= k
      BY <1>1, <1>2, <2>2, <2>5, <2>7 DEF ZkHeld, ZkRenewed, ZkActor
    <2> HIDE DEF c, d
    <2>13. ZkTyped(n, d) /\ ZkOp(n, d)
      BY <1>3, <2>2, <2>4, <2>9, <2>11 DEF ZkTyped, ZkOp
    <2>14. ZkView(server', n, d) /\ ZkHeld(server', n, d) /\ ZkSync(server', n, d)
      BY <2>4, <2>7, <2>11, <2>12 DEF ZkView, ZkHeld, ZkSync
    <2>8. QED BY <2>3, <2>5, <2>13, <2>14, ZkStepOf DEF ZkClient, ZkRenewed
  <1>6. QED BY <1>4, <1>5


(* The key goes with its session, and no sooner than the last answer that   *)
(* vouches for it.                                                          *)
LEMMA ZkTick ==
  ASSUME ZkAssume, ZkInv, ZK!Tick
  PROVE  ZkInv' /\ ZkOwnerStep
  <1> DEFINE L == [x \in ZK!Sessions |-> ZK!Less(server.left[x])]
             gone == server.key # ZK!NoKey /\ L[server.key.session] = 0
             k == IF gone THEN ZK!NoKey ELSE server.key
  <1>0. ZkServer(server) /\ server \in ZkServers /\ client \in [Nodes -> ZkClients]
    BY DEF ZkInv, ZkServer
  <1>1. server' = [server EXCEPT !.left = L, !.key = k]
    BY Zenon DEF ZK!Tick
  <1>11. client' = [n \in Nodes |-> [client[n] EXCEPT
                      !.sure = ZK!Less(client[n].sure),
                      !.age = IF client[n].view = ZK!Unknown THEN 0 ELSE client[n].age + 1]]
    BY Zenon DEF ZK!Tick
  <1>12. \A n \in Nodes : client[n].view = ZK!Unknown \/ client[n].age < TTL
    BY Zenon DEF ZK!Tick
  <1>2. \A x \in ZK!Sessions :
          /\ server.left[x] \in Nat /\ L[x] \in 0..TTL /\ L[x] \in Nat
          /\ L[x] + 1 >= server.left[x] /\ (L[x] > 0 => server.left[x] > 0)
    <2> TAKE x \in ZK!Sessions
    <2>1. server.left[x] \in 0..TTL /\ TTL \in Nat /\ L[x] = ZK!Less(server.left[x])
      BY <1>0 DEF ZkServers, ZkAssume
    <2> HIDE DEF L
    <2>2. QED BY <2>1 DEF ZK!Less
  <1>3. L \in [ZK!Sessions -> 0..TTL]
    BY <1>2
  <1>4. k \in ZkKeys /\ (gone => k = ZK!NoKey) /\ (~gone => k = server.key)
    BY <1>0 DEF ZkServers, ZkKeys, ZK!NoKey
  <1> HIDE DEF L, k
  <1>5. /\ server' \in ZkServers /\ server'.key = k /\ server'.left = L /\ server'.sync = server.sync
        /\ server'.writer = server.writer
    BY <1>0, <1>1, <1>3, <1>4 DEF ZkServers
  <1>6. ZkServer(server')
    <2>1. CASE gone
      BY <1>0, <1>4, <1>5, <2>1 DEF ZkServer, ZkKey
    <2>2. CASE ~gone
      <3>1. server.key # ZK!NoKey => server.key.session \in ZK!Sessions /\ L[server.key.session] > 0
        BY <1>0, <1>2, <2>2 DEF ZkServer, ZkKey
      <3>2. ZkKey(server.key, L)
        BY <1>0, <3>1 DEF ZkServer, ZkKey
      <3>3. QED BY <1>0, <1>4, <1>5, <2>2, <3>2 DEF ZkServer
    <2>3. QED BY <2>1, <2>2
  <1>7. ZkOwnerStep
    BY <1>4, <1>5 DEF ZkOwnerStep, ZK!NoKey
  <1>8. ASSUME NEW n \in Nodes PROVE client'[n] \in ZkClients /\ ZkClient(server', n, client'[n])
    <2> DEFINE c == client[n]
               d == client'[n]
               age == IF c.view = ZK!Unknown THEN 0 ELSE c.age + 1
               sure == ZK!Less(c.sure)
    <2>1. c \in ZkClients /\ c.sure \in Nat /\ c.age \in Nat /\ c.session \in ZK!Sessions
      <3>1. c \in ZkClients /\ TTL \in Nat
        BY <1>0 DEF ZkAssume
      <3>2. c.age \in 0..TTL
        BY <3>1 DEF ZkClients
      <3>3. QED BY <3>1, <3>2 DEF ZkClients
    <2>2. ZkTyped(n, c) /\ ZkHeld(server, n, c) /\ ZkView(server, n, c) /\ ZkOp(n, c) /\ ZkSync(server, n, c)
      BY DEF ZkInv, ZkClient
    <2>3. d = [c EXCEPT !.sure = sure, !.age = age]
      BY <1>11, Zenon
    <2>4. /\ sure \in Nat /\ (sure > 0 => c.sure > 1 /\ sure = c.sure - 1) /\ (c.sure = 0 => sure = 0)
      BY <2>1 DEF ZK!Less
    <2>5. age \in 0..TTL /\ (c.view.owner = n => age = c.age + 1)
      <3>1. TTL \in Nat /\ n # "unknown"
        BY DEF ZkAssume
      <3>2. c.view.owner = n => c.view # ZK!Unknown
        BY <3>1 DEF ZK!Unknown
      <3>3. c.view # ZK!Unknown => c.age < TTL
        BY <1>12, Zenon
      <3> HIDE DEF c
      <3>4. QED BY <2>1, <3>1, <3>2, <3>3
    <2> HIDE DEF age, sure, c, d
    <2>6. /\ d \in ZkClients /\ d.op = c.op /\ d.view = c.view /\ d.session = c.session /\ d.opened = c.opened
          /\ d.sure = sure /\ d.version = c.version /\ d.acked = c.acked /\ d.age = age
      BY <2>1, <2>3, <2>4, <2>5 DEF ZkClients
    <2>7. ZkTyped(n, d) /\ ZkOp(n, d) /\ ZkSync(server', n, d)
      BY <1>5, <2>2, <2>4, <2>6 DEF ZkTyped, ZkOp, ZkSync
    <2>8. ZkHeld(server', n, d)
      <3>1. server'.key.owner = n => server'.key.session[2] <= d.opened
        BY <1>4, <1>5, <2>2, <2>6 DEF ZkHeld, ZK!NoKey, ZkAssume
      <3>2. ASSUME d.sure > 0 PROVE server'.key.owner = n /\ d.sure <= server'.left[server'.key.session]
        <4>1. c.sure > 1 /\ sure = c.sure - 1 /\ server.key.owner = n /\ c.sure <= server.left[server.key.session]
          BY <2>1, <2>2, <2>4, <2>6, <3>2 DEF ZkHeld
        <4>2. server.key.session \in ZK!Sessions
          BY <1>0, <4>1 DEF ZkServer, ZkKey, ZkAssume, ZK!NoKey
        <4>3. server.left[server.key.session] \in Nat /\ L[server.key.session] \in Nat
              /\ L[server.key.session] + 1 >= server.left[server.key.session]
          BY <1>2, <4>2
        <4>4. L[server.key.session] # 0 /\ sure <= L[server.key.session]
          BY <2>1, <2>4, <4>1, <4>3
        <4>5. QED BY <1>4, <1>5, <2>6, <4>1, <4>4
      <3>3. QED BY <3>1, <3>2 DEF ZkHeld
    <2>9. ZkView(server', n, d)
      <3> SUFFICES ASSUME c.view.owner = n PROVE ZkView(server', n, d)
        BY <2>6 DEF ZkView
      <3>1. c.view.session \in ZK!Sessions /\ c.view.session[1] = n /\ c.view.session[2] <= c.opened
        BY <2>2 DEF ZkView
      <3>2. ASSUME c.view.session = c.session
            PROVE  L[c.session] + age >= TTL /\ (L[c.session] > 0 => k = c.view)
        <4>1. server.left[c.session] + c.age >= TTL /\ (server.left[c.session] > 0 => server.key = c.view)
          BY <2>2, <3>2 DEF ZkView
        <4>2. /\ server.left[c.session] \in Nat /\ L[c.session] \in Nat /\ L[c.session] + 1 >= server.left[c.session]
              /\ L[c.session] > 0 => server.left[c.session] > 0
          BY <1>2, <2>1
        <4>3. TTL \in Nat /\ age = c.age + 1
          BY <2>5 DEF ZkAssume
        <4>4. L[c.session] + age >= TTL
          BY <2>1, <4>1, <4>2, <4>3
        <4>5. ASSUME L[c.session] > 0 PROVE k = c.view
          <5>1. server.key = c.view /\ server.key.session = c.session
            BY <3>2, <4>1, <4>2, <4>5
          <5>2. ~gone
            BY <4>2, <4>5, <5>1
          <5>3. QED BY <1>4, <5>1, <5>2
        <4>6. QED BY <4>4, <4>5
      <3>3. QED BY <1>5, <2>6, <3>1, <3>2 DEF ZkView
    <2>10. QED BY <2>6, <2>7, <2>8, <2>9 DEF ZkClient, d
  <1>9. client' \in [Nodes -> ZkClients]
    BY <1>8, <1>11, Zenon
  <1>10. QED BY <1>6, <1>7, <1>8, <1>9 DEF ZkInv

(* ZooKeeper starts in its invariant and with a free key.                   *)
LEMMA ZkStart ==
  ASSUME ZkAssume, ZK!Init
  PROVE  ZkInv /\ ZK!Contract!KeyInit
  <1> DEFINE L == [x \in ZK!Sessions |-> IF x[2] = 1 THEN TTL ELSE 0]
             W == [v \in ZkVersions |-> None]
  <1>1. /\ ZK!NoKey \in ZkKeys /\ ZK!Unknown \in ZkKeys /\ ZK!Unknown.owner = "unknown" /\ ZK!NoKey.owner = None
        /\ FirstVersion \in Nat /\ FirstVersion >= FirstVersion /\ 1 \in 1..MaxSession /\ 0 \in 0..TTL /\ 0 \in Nat
        /\ TTL \in 0..TTL /\ 1 <= 1 /\ ~(0 > 0) /\ {} \in SUBSET Nat
    BY DEF ZK!NoKey, ZK!Unknown, ZkKeys, ZkAssume
  <1>2. L \in [ZK!Sessions -> 0..TTL] /\ W \in [ZkVersions -> Owners]
    BY <1>1 DEF Owners
  <1>3. server = [key |-> ZK!NoKey, left |-> L, sync |-> FirstVersion, writer |-> W]
    BY DEF ZK!Init, ZkVersions
  <1> HIDE DEF L, W
  <1>4. server \in ZkServers /\ server.key = ZK!NoKey /\ server.sync = FirstVersion
    BY <1>1, <1>2, <1>3 DEF ZkServers
  <1>5. ZkServer(server)
    BY <1>1, <1>4 DEF ZkServer, ZkKey
  <1>6. ASSUME NEW n \in Nodes
        PROVE  /\ client[n] \in ZkClients /\ client[n].session = <<n, 1>> /\ client[n].opened = 1
               /\ client[n].sure = 0 /\ client[n].op = "idle" /\ client[n].view.owner = "unknown"
               /\ client[n].version = FirstVersion /\ client[n].acked = {}
    <2>1. client[n] = [op |-> "idle", session |-> <<n, 1>>, opened |-> 1, connected |-> TRUE,
                       view |-> ZK!Unknown, age |-> 0, sure |-> 0, leads |-> FALSE,
                       version |-> FirstVersion, acked |-> {}]
      BY DEF ZK!Init
    <2>2. <<n, 1>> \in ZK!Sessions
      BY <1>1 DEF ZK!Sessions
    <2>3. QED BY <1>1, <2>1, <2>2 DEF ZkClients
  <1>7. ASSUME NEW n \in Nodes PROVE ZkClient(server, n, client[n])
    <2>1. n # "unknown" /\ n # None
      BY DEF ZkAssume
    <2>2. QED BY <1>1, <1>4, <1>6, <2>1 DEF ZkClient, ZkTyped, ZkHeld, ZkView, ZkOp, ZkSync
  <1>8. client \in [Nodes -> ZkClients]
    BY <1>6 DEF ZK!Init
  <1>9. ZK!Contract!KeyInit
    BY <1>1, <1>4, <1>6 DEF ZK!Contract!KeyInit, ZK!Owner, ZK!Sure
  <1>10. QED BY <1>5, <1>7, <1>8, <1>9 DEF ZkInv

(* Every step of ZooKeeper keeps the invariant and is a step of LeaderKey.  *)
LEMMA ZkStep ==
  ASSUME ZkAssume, ZkInv, [ZK!Next]_(ZK!vars)
  PROVE  ZkInv' /\ [ZK!Contract!KeyNext]_(ZK!Contract!keyVars)
  <1>1. CASE UNCHANGED ZK!vars
    <2>1. server' = server /\ client' = client
      BY <1>1 DEF ZK!vars
    <2>2. QED BY <2>1 DEF ZK!Contract!keyVars, ZK!Owner, ZK!Sure, ZkInv
  <1>2. CASE ZK!Next
    <2>1. ZkInv' /\ ZkOwnerStep
      BY <1>2, ZkLoad, ZkCreate, ZkUpdate, ZkDelete, ZkRestart, ZkSetSync, ZkDisconnect, ZkReconnect, ZkTick DEF ZK!Next
    <2>2. server'.key.owner \in Owners /\ ZK!Sure' \subseteq {server'.key.owner} /\ ZK!Sure' \subseteq Nodes
      BY <2>1 DEF ZkInv, ZkServer, ZkKey, ZK!NoKey, ZkClient, ZkHeld, ZK!Sure, Owners
    <2>3. ZK!Contract!KeyNext
      <3>1. CASE server'.key.owner = None
        BY <2>2, <3>1 DEF ZK!Contract!KeyNext, ZK!Contract!Free, ZK!Owner, ZkAssume
      <3>2. CASE server'.key.owner \in Nodes /\ server.key.owner = None
        BY <2>2, <3>2 DEF ZK!Contract!KeyNext, ZK!Contract!Acquire, ZK!Owner
      <3>3. CASE server'.key.owner \in Nodes /\ server.key.owner = server'.key.owner /\ ZK!Sure' = {}
        BY <3>3 DEF ZK!Contract!KeyNext, ZK!Contract!Doubt, ZK!Owner
      <3>4. CASE server'.key.owner \in Nodes /\ server.key.owner = server'.key.owner /\ ZK!Sure' # {}
        BY <2>2, <3>4 DEF ZK!Contract!KeyNext, ZK!Contract!Confirm, ZK!Owner
      <3>5. QED BY <2>1, <2>2, <3>1, <3>2, <3>3, <3>4 DEF ZkOwnerStep, Owners
    <2>4. QED BY <2>1, <2>3
  <1>3. QED BY <1>1, <1>2

(* attempt_to_acquire_leader(), update_leader() and delete_leader() of      *)
(* ZooKeeper implement LeaderKey, with sessions that expire, are replaced   *)
(* or outlive their process and requests whose answer is lost, if the key   *)
(* does not change hands between its load and its recreation.               *)
THEOREM ZooKeeperKey ==
  ASSUME ZkAssume
  PROVE  ZK!Spec => ZK!KeyImplemented
  <1>1. ZK!Init => ZkInv /\ ZK!Contract!KeyInit
    BY ZkStart
  <1>2. ZkInv /\ [ZK!Next]_(ZK!vars) => ZkInv' /\ [ZK!Contract!KeyNext]_(ZK!Contract!keyVars)
    BY ZkStep
  <1>3. QED BY <1>1, <1>2, PTL DEF ZK!Spec, ZK!KeyImplemented, ZK!Contract!KeySpec

(* What a node was told it wrote with set_sync_state_value() is the version *)
(* after the one it had read, if /sync was not created just before.         *)
LEMMA ZkSerialized ==
  ASSUME ZkInv
  PROVE  ZK!SyncSerialized
  BY DEF ZkInv, ZkClient, ZkSync, ZK!SyncSerialized

(* The compare-and-swap of /sync in ZooKeeper: a version a node was told it *)
(* wrote stays its own.                                                     *)
THEOREM ZooKeeperSync ==
  ASSUME ZkAssume
  PROVE  ZK!Spec => []ZK!SyncSerialized
  <1>1. ZK!Init => ZkInv
    BY ZkStart
  <1>2. ZkInv /\ [ZK!Next]_(ZK!vars) => ZkInv'
    BY ZkStep
  <1>3. ZkInv => ZK!SyncSerialized
    BY ZkSerialized
  <1>4. QED BY <1>1, <1>2, <1>3, PTL DEF ZK!Spec


-----------------------------------------------------------------------------
(* All implementations together, as MCBackends puts them.                   *)

BackendsAssume == CoAssume /\ E3Assume /\ ZkAssume /\ MaxSync \in Nat /\ Skew = 0

BackendsInv ==
  /\ backend \in {"etcd", "client", "etcd3", "consul", "zookeeper", "raft", "kubernetes"}
  /\ backend = "etcd" => EtcdInv
  /\ backend = "etcd3" => E3Inv
  /\ backend = "consul" => CoInv
  /\ backend = "zookeeper" => ZkInv
  /\ backend = "raft" => RaftInv
  /\ backend = "kubernetes" => KubeInv

(* A step of LeaderKey from the owner o and the sure nodes s to p and t.    *)
KeyStep(o, s, p, t) ==
  \/ \E n \in Nodes : o = None /\ p = n /\ t \subseteq {n}
  \/ \E n \in Nodes : o = n /\ p = n /\ t = {n}
  \/ p = o /\ t \subseteq s
  \/ p = None /\ t = {}

(* Whose key and answers the mapping of MCBackends shows.                   *)
LEMMA ShownKey ==
  /\ backend = "etcd" => Owner = E2!Owner /\ Sure = E2!Sure
  /\ backend = "client" => Owner = None /\ Sure = {}
  /\ backend = "etcd3" => Owner = E3!Owner /\ Sure = E3!Sure
  /\ backend = "consul" => Owner = CO!Owner /\ Sure = CO!Sure
  /\ backend = "zookeeper" => Owner = ZK!Owner /\ Sure = ZK!Sure
  /\ backend = "raft" => Owner = RA!Owner /\ Sure = RA!Sure
  /\ backend = "kubernetes" => Owner = KU!Owner /\ Sure = KU!Sure
  BY DEF Owner, Sure

(* The same after a step.                                                   *)
LEMMA ShownKeyNext ==
  /\ backend' = "etcd" => Owner' = E2!Owner' /\ Sure' = E2!Sure'
  /\ backend' = "client" => Owner' = None /\ Sure' = {}
  /\ backend' = "etcd3" => Owner' = E3!Owner' /\ Sure' = E3!Sure'
  /\ backend' = "consul" => Owner' = CO!Owner' /\ Sure' = CO!Sure'
  /\ backend' = "zookeeper" => Owner' = ZK!Owner' /\ Sure' = ZK!Sure'
  /\ backend' = "raft" => Owner' = RA!Owner' /\ Sure' = RA!Sure'
  /\ backend' = "kubernetes" => Owner' = KU!Owner' /\ Sure' = KU!Sure'
  BY DEF Owner, Sure

(* Whatever backend a behaviour is about starts in its invariant and with   *)
(* a free key.                                                              *)
LEMMA BackendsStart ==
  ASSUME BackendsAssume, Init
  PROVE  BackendsInv /\ Key!KeyInit
  <1>1. TTL \in Nat /\ MaxSync \in Nat /\ CoAssume /\ E3Assume /\ ZkAssume
    BY DEF BackendsAssume, CoAssume
  <1>2. CASE backend = "etcd" /\ E2!Init
    BY <1>1, <1>2, EtcdStart, ShownKey DEF BackendsInv, Key!KeyInit, E2!Contract!KeyInit
  <1>3. CASE backend = "client" /\ EC!Init
    BY <1>3, ShownKey DEF BackendsInv, Key!KeyInit
  <1>4. CASE backend = "etcd3" /\ E3!Init
    BY <1>1, <1>4, E3Start, ShownKey DEF BackendsInv, Key!KeyInit, E3!Contract!KeyInit
  <1>5. CASE backend = "consul" /\ CO!Init
    BY <1>1, <1>5, CoStart, ShownKey DEF BackendsInv, Key!KeyInit, CO!Contract!KeyInit
  <1>6. CASE backend = "zookeeper" /\ ZK!Init
    BY <1>1, <1>6, ZkStart, ShownKey DEF BackendsInv, Key!KeyInit, ZK!Contract!KeyInit
  <1>7. CASE backend = "raft" /\ RA!Init
    BY <1>1, <1>7, RaftStart, ShownKey DEF BackendsInv, Key!KeyInit, RA!Contract!KeyInit
  <1>8. CASE backend = "kubernetes" /\ KU!Init
    BY <1>1, <1>8, KubeStart, ShownKey DEF BackendsInv, Key!KeyInit, KU!Contract!KeyInit
  <1>9. QED BY <1>2, <1>3, <1>4, <1>5, <1>6, <1>7, <1>8 DEF Init

(* A step of the shown key is a step of LeaderKey.                          *)
LEMMA ShownStep ==
  ASSUME KeyStep(Owner, Sure, Owner', Sure')
  PROVE  [Key!KeyNext]_(Key!keyVars)
  BY DEF KeyStep, Key!KeyNext, Key!Acquire, Key!Confirm, Key!Doubt, Key!Free

(* Every step keeps the invariant of the backend it is about and is a step  *)
(* of LeaderKey.                                                            *)
LEMMA BackendsStep ==
  ASSUME BackendsAssume, BackendsInv, [Next]_vars
  PROVE  BackendsInv' /\ [Key!KeyNext]_(Key!keyVars)
  <1>1. /\ TTL \in Nat /\ MaxSync \in Nat /\ None \notin Nodes /\ Skew = 0 /\ CoAssume /\ E3Assume /\ ZkAssume
    BY DEF BackendsAssume, CoAssume
  <1>2. backend' = backend
    BY DEF Next, vars
  <1>3. CASE backend = "etcd"
    <2>1. EtcdInv /\ [E2!Next]_(E2!vars)
      BY <1>3 DEF BackendsInv, Next, vars, E2!vars
    <2>2. EtcdInv' /\ [E2!Contract!KeyNext]_(E2!Contract!keyVars)
      BY <1>1, <2>1, EtcdStep
    <2>3. KeyStep(E2!Owner, E2!Sure, E2!Owner', E2!Sure')
      BY <2>2 DEF KeyStep, E2!Contract!KeyNext, E2!Contract!keyVars, E2!Contract!Acquire, E2!Contract!Confirm,
                  E2!Contract!Doubt, E2!Contract!Free
    <2>4. KeyStep(Owner, Sure, Owner', Sure')
      BY <1>2, <1>3, <2>3, ShownKey, ShownKeyNext
    <2>5. QED BY <1>2, <1>3, <2>2, <2>4, ShownStep DEF BackendsInv
  <1>4. CASE backend = "client"
    <2>1. KeyStep(Owner, Sure, Owner', Sure')
      BY <1>2, <1>4, ShownKey, ShownKeyNext DEF KeyStep
    <2>2. QED BY <1>2, <1>4, <2>1, ShownStep DEF BackendsInv
  <1>5. CASE backend = "etcd3"
    <2>1. E3Inv /\ [E3!Next]_(E3!vars)
      BY <1>5 DEF BackendsInv, Next, vars, E3!vars
    <2>2. E3Inv' /\ [E3!Contract!KeyNext]_(E3!Contract!keyVars)
      BY <1>1, <2>1, E3Step
    <2>3. KeyStep(E3!Owner, E3!Sure, E3!Owner', E3!Sure')
      BY <2>2 DEF KeyStep, E3!Contract!KeyNext, E3!Contract!keyVars, E3!Contract!Acquire, E3!Contract!Confirm,
                  E3!Contract!Doubt, E3!Contract!Free
    <2>4. KeyStep(Owner, Sure, Owner', Sure')
      BY <1>2, <1>5, <2>3, ShownKey, ShownKeyNext
    <2>5. QED BY <1>2, <1>5, <2>2, <2>4, ShownStep DEF BackendsInv
  <1>6. CASE backend = "consul"
    <2>1. CoInv /\ [CO!Next]_(CO!vars)
      BY <1>6 DEF BackendsInv, Next, vars, CO!vars
    <2>2. CoInv' /\ [CO!Contract!KeyNext]_(CO!Contract!keyVars)
      BY <1>1, <2>1, CoStep
    <2>3. KeyStep(CO!Owner, CO!Sure, CO!Owner', CO!Sure')
      BY <2>2 DEF KeyStep, CO!Contract!KeyNext, CO!Contract!keyVars, CO!Contract!Acquire, CO!Contract!Confirm,
                  CO!Contract!Doubt, CO!Contract!Free
    <2>4. KeyStep(Owner, Sure, Owner', Sure')
      BY <1>2, <1>6, <2>3, ShownKey, ShownKeyNext
    <2>5. QED BY <1>2, <1>6, <2>2, <2>4, ShownStep DEF BackendsInv
  <1>7. CASE backend = "zookeeper"
    <2>1. ZkInv /\ [ZK!Next]_(ZK!vars)
      BY <1>7 DEF BackendsInv, Next, vars, ZK!vars
    <2>2. ZkInv' /\ [ZK!Contract!KeyNext]_(ZK!Contract!keyVars)
      BY <1>1, <2>1, ZkStep
    <2>3. KeyStep(ZK!Owner, ZK!Sure, ZK!Owner', ZK!Sure')
      BY <2>2 DEF KeyStep, ZK!Contract!KeyNext, ZK!Contract!keyVars, ZK!Contract!Acquire, ZK!Contract!Confirm,
                  ZK!Contract!Doubt, ZK!Contract!Free
    <2>4. KeyStep(Owner, Sure, Owner', Sure')
      BY <1>2, <1>7, <2>3, ShownKey, ShownKeyNext
    <2>5. QED BY <1>2, <1>7, <2>2, <2>4, ShownStep DEF BackendsInv
  <1>8. CASE backend = "raft"
    <2>1. RaftInv /\ [RA!Next]_(RA!vars)
      BY <1>8 DEF BackendsInv, Next, vars, RA!vars
    <2>2. RaftInv' /\ [RA!Contract!KeyNext]_(RA!Contract!keyVars)
      BY <1>1, <2>1, RaftStep
    <2>3. KeyStep(RA!Owner, RA!Sure, RA!Owner', RA!Sure')
      BY <2>2 DEF KeyStep, RA!Contract!KeyNext, RA!Contract!keyVars, RA!Contract!Acquire, RA!Contract!Confirm,
                  RA!Contract!Doubt, RA!Contract!Free
    <2>4. KeyStep(Owner, Sure, Owner', Sure')
      BY <1>2, <1>8, <2>3, ShownKey, ShownKeyNext
    <2>5. QED BY <1>2, <1>8, <2>2, <2>4, ShownStep DEF BackendsInv
  <1>9. CASE backend = "kubernetes"
    <2>1. KubeInv /\ [KU!Next]_(KU!vars)
      BY <1>9 DEF BackendsInv, Next, vars, KU!vars
    <2>2. KubeInv' /\ [KU!Contract!KeyNext]_(KU!Contract!keyVars)
      BY <1>1, <2>1, KubeStep
    <2>3. KeyStep(KU!Owner, KU!Sure, KU!Owner', KU!Sure')
      BY <2>2 DEF KeyStep, KU!Contract!KeyNext, KU!Contract!keyVars, KU!Contract!Acquire, KU!Contract!Confirm,
                  KU!Contract!Doubt, KU!Contract!Free
    <2>4. KeyStep(Owner, Sure, Owner', Sure')
      BY <1>2, <1>9, <2>3, ShownKey, ShownKeyNext
    <2>5. QED BY <1>2, <1>9, <2>2, <2>4, ShownStep DEF BackendsInv
  <1>10. QED BY <1>3, <1>4, <1>5, <1>6, <1>7, <1>8, <1>9 DEF BackendsInv

(* Whichever DCS is configured, attempt_to_acquire_leader(),                *)
(* update_leader() and delete_leader() implement LeaderKey, for any nodes,  *)
(* ttl and bounds: the key never passes from one node to another without    *)
(* being free, and is never freed while its holder counts on an answer.     *)
THEOREM BackendsKey ==
  ASSUME BackendsAssume
  PROVE  Spec => KeyImplemented
  <1>1. Init => BackendsInv /\ Key!KeyInit
    BY BackendsStart
  <1>2. BackendsInv /\ [Next]_vars => BackendsInv' /\ [Key!KeyNext]_(Key!keyVars)
    BY BackendsStep
  <1>3. QED BY <1>1, <1>2, PTL DEF Spec, KeyImplemented, Key!KeySpec

(* Etcd and ZooKeeper: a write of /sync that its writer was told succeeded  *)
(* followed the version the writer had read.                                *)
THEOREM BackendsSync ==
  ASSUME BackendsAssume
  PROVE  Spec => []SyncSerialized
  <1>1. Init => BackendsInv
    BY BackendsStart
  <1>2. BackendsInv /\ [Next]_vars => BackendsInv'
    BY BackendsStep
  <1>3. BackendsInv => SyncSerialized
    <2>1. EtcdInv => E2!SyncSerialized
      BY DEF EtcdInv, EtcdWritten, E2!SyncSerialized
    <2>2. ZkInv => ZK!SyncSerialized
      BY ZkSerialized
    <2>3. QED BY <2>1, <2>2 DEF BackendsInv, SyncSerialized
  <1>4. QED BY <1>1, <1>2, <1>3, PTL DEF Spec
-----------------------------------------------------------------------------
(* The client of etcd. *)

(* A set of numbers has a least one.                                        *)
LEMMA LeastNat ==
  ASSUME NEW T \in SUBSET Nat, T # {}
  PROVE  \E m \in T : \A n \in T : m <= n
  <1>1. IsWellFoundedOn(OpToRel(<, Nat), Nat)
    BY NatLessThanWellFounded, Zenon
  <1>2. PICK m \in T : \A n \in T : ~(<<n, m>> \in OpToRel(<, Nat))
    BY <1>1, WFMin, Zenon
  <1>3. \A n \in T : ~(n < m)
    BY <1>2 DEF OpToRel
  <1>4. QED BY <1>3

EcAssume == IsFiniteSet(Machines) /\ Machines # {} /\ MaxTerm \in Nat \ {0}

(* The fields of the client.                                                *)
EcFields(c) ==
  c = [cache |-> c.cache, base |-> c.base, update |-> c.update, term |-> c.term, failures |-> c.failures]

EcServerOK ==
  /\ server = [members |-> server.members, up |-> server.up, term |-> server.term]
  /\ server.members \in SUBSET Machines /\ server.members # {} /\ server.up \in SUBSET Machines
  /\ server.term \in [Machines -> 1..MaxTerm]

(* The inductive invariant: after a failure that counts the next call       *)
(* begins with loading the list.                                            *)
EcInv ==
  /\ EcServerOK /\ EcFields(client) /\ client.update \in BOOLEAN
  /\ client.failures \in {0, 1} /\ (client.failures = 1 => client.update)

(* What a refreshed list is: the members of the cluster, from one that      *)
(* answers and will answer again.                                           *)
EcFound(d) ==
  /\ d.cache \in EC!SetToSeqs(server.members) /\ d.base \in EC!Set(d.cache)
  /\ \E m \in server.members : EC!Answers(d, m)

LEMMA RefreshedList ==
  ASSUME EcAssume, EcServerOK, NEW c, EcFields(c), NEW known, NEW f \in EC!Refreshed(c, known)
  PROVE  /\ EcFields(f) /\ f.failures = c.failures /\ f.update = c.update
         /\ EcFound(f)
  <1>1. PICK m \in known, order \in EC!SetToSeqs(server.members) :
          EC!Answers(c, m) /\ f = EC!Relist(EC!Learn(c, m), order)
    BY DEF EC!Refreshed
  <1>2. m \in server.members /\ m \in server.up /\ server.term[m] \in Nat
    BY <1>1 DEF EC!Answers, EcServerOK
  <1>3. f = [cache |-> order, base |-> IF c.base \in EC!Set(order) THEN c.base ELSE order[1],
             update |-> c.update, term |-> server.term[m], failures |-> c.failures]
    BY <1>1 DEF EC!Relist, EC!Learn, EcFields
  <1>4. order[1] \in EC!Set(order)
    <2>1. IsFiniteSet(server.members)
      BY FS_Subset DEF EcAssume, EcServerOK
    <2>2. Cardinality(server.members) \in Nat /\ Cardinality(server.members) # 0
      BY <2>1, FS_CardinalityType, FS_EmptySet DEF EcServerOK
    <2>3. EC!Cardinality(server.members) = Cardinality(server.members)
      BY Zenon DEF EC!Cardinality, Cardinality
    <2>4. 1 \in DOMAIN order
      BY <2>2, <2>3 DEF EC!SetToSeqs
    <2>5. QED BY <2>4 DEF EC!Set
  <1>5. EC!Answers(f, m)
    BY <1>2, <1>3 DEF EC!Answers
  <1>6. f.cache = order /\ f.base \in EC!Set(order)
    BY <1>3, <1>4
  <1>7. EcFound(f)
    BY <1>2, <1>5, <1>6 DEF EcFound
  <1>8. EcFields(f) /\ f.failures = c.failures /\ f.update = c.update
    BY <1>3 DEF EcFields
  <1>9. QED BY <1>7, <1>8

(* _load_machines_cache(): when one of the known machines answers the list  *)
(* is a new one, otherwise it has to be loaded again.                       *)
LEMMA LoadedList ==
  ASSUME EcAssume, EcServerOK, NEW c, EcFields(c), c.update \in BOOLEAN, NEW d \in EC!LoadMachinesCache(c)
  PROVE  /\ EcFields(d) /\ d.failures = c.failures
         /\ \/ d.update = FALSE /\ EcFound(d)
            \/ d.update = TRUE /\ ~EC!Reachable(c)
  <1> DEFINE found == EC!Refreshed(c, Hosts \cup EC!Set(c.cache))
  <1>1. CASE found = {}
    <2>1. d = [c EXCEPT !.update = TRUE]
      BY <1>1 DEF EC!LoadMachinesCache
    <2>2. d = [cache |-> c.cache, base |-> c.base, update |-> TRUE, term |-> c.term, failures |-> c.failures]
      BY <2>1 DEF EcFields
    <2>3. ~EC!Reachable(c)
      <3>1. EC!SetToSeqs(server.members) # {}
        <4>1. IsFiniteSet(server.members)
          BY FS_Subset DEF EcAssume, EcServerOK
        <4>2. PICK g : g \in Bijection(1..Cardinality(server.members), server.members)
          BY <4>1, FS_CardinalityType DEF ExistsBijection
        <4>3. g \in [1..Cardinality(server.members) -> server.members]
              /\ \A i, j \in 1..Cardinality(server.members) : i # j => g[i] # g[j]
          BY <4>2 DEF Bijection, Injection, IsInjective
        <4>4. EC!Cardinality(server.members) = Cardinality(server.members)
          BY Zenon DEF EC!Cardinality, Cardinality
        <4>5. g \in EC!SetToSeqs(server.members)
          BY <4>3, <4>4 DEF EC!SetToSeqs
        <4>6. QED BY <4>5
      <3>2. QED BY <1>1, <3>1 DEF EC!Refreshed, EC!Reachable
    <2>4. QED BY <2>2, <2>3 DEF EcFields
  <1>2. CASE found # {}
    <2>1. PICK f \in found : d = [f EXCEPT !.update = FALSE]
      BY <1>2 DEF EC!LoadMachinesCache
    <2>2. EcFields(f) /\ f.failures = c.failures /\ EcFound(f)
      BY RefreshedList
    <2>3. d = [cache |-> f.cache, base |-> f.base, update |-> FALSE, term |-> f.term, failures |-> f.failures]
      BY <2>1, <2>2 DEF EcFields
    <2>4. EcFound(d)
      BY <2>2, <2>3 DEF EcFound, EC!Answers
    <2>5. QED BY <2>2, <2>3, <2>4 DEF EcFields
  <1>3. QED BY <1>1, <1>2

(* Moving an element of a sequence to the front loses none.                 *)
MoveFirst(s, j) == <<s[j]>> \o (SubSeq(s, 1, j - 1) \o SubSeq(s, j + 1, Len(s)))
HasAllOf(l, s) == Len(l) = Len(s) /\ \A i \in 1..Len(s) : \E k \in 1..Len(s) : l[k] = s[i]

LEMMA MovedFirst ==
  ASSUME NEW S, NEW s \in Seq(S), NEW j \in 1..Len(s)
  PROVE  HasAllOf(MoveFirst(s, j), s)
  <1> DEFINE n == Len(s)
             l == MoveFirst(s, j)
  <1>0. n \in Int /\ j \in Int /\ 1 <= j /\ j <= n /\ \A i \in 1..n : s[i] \in S
    OBVIOUS
  <1> HIDE DEF n, l
  <1>1. PICK a : a = SubSeq(s, 1, j - 1)
    OBVIOUS
  <1>2. PICK b : b = SubSeq(s, j + 1, n)
    OBVIOUS
  <1>3. a \in Seq(S) /\ Len(a) = j - 1 /\ \A i \in 1..j - 1 : a[i] = s[i]
    <2>1. \A i \in 1..j - 1 : s[i] \in S
      BY <1>0
    <2>2. /\ SubSeq(s, 1, j - 1) \in Seq(S)
          /\ Len(SubSeq(s, 1, j - 1)) = IF 1 <= j - 1 THEN (j - 1) - 1 + 1 ELSE 0
          /\ \A i \in 1..(j - 1) - 1 + 1 : SubSeq(s, 1, j - 1)[i] = s[1 + i - 1]
      BY <1>0, <2>1, SubSeqProperties
    <2>3. a \in Seq(S) /\ Len(a) = (IF 1 <= j - 1 THEN (j - 1) - 1 + 1 ELSE 0)
          /\ \A i \in 1..(j - 1) - 1 + 1 : a[i] = s[1 + i - 1]
      BY <1>1, <2>2
    <2>4. \A i \in 1..j - 1 : 1 + i - 1 = i /\ i \in 1..(j - 1) - 1 + 1
      BY <1>0
    <2>5. QED BY <1>0, <2>3, <2>4
  <1>4. b \in Seq(S) /\ Len(b) = n - j /\ \A i \in 1..n - j : b[i] = s[i + j]
    <2>1. \A i \in j + 1..n : s[i] \in S
      BY <1>0
    <2>2. /\ SubSeq(s, j + 1, n) \in Seq(S)
          /\ Len(SubSeq(s, j + 1, n)) = IF j + 1 <= n THEN n - (j + 1) + 1 ELSE 0
          /\ \A i \in 1..n - (j + 1) + 1 : SubSeq(s, j + 1, n)[i] = s[(j + 1) + i - 1]
      BY <1>0, <2>1, SubSeqProperties
    <2>3. b \in Seq(S) /\ Len(b) = (IF j + 1 <= n THEN n - (j + 1) + 1 ELSE 0)
          /\ \A i \in 1..n - (j + 1) + 1 : b[i] = s[(j + 1) + i - 1]
      BY <1>2, <2>2
    <2>4. \A i \in 1..n - j : (j + 1) + i - 1 = i + j /\ i \in 1..n - (j + 1) + 1
      BY <1>0
    <2>5. QED BY <1>0, <2>3, <2>4
  <1>5. PICK r : r = a \o b
    OBVIOUS
  <1>6. r \in Seq(S) /\ Len(r) = n - 1 /\ \A i \in 1..n - 1 : r[i] = IF i <= j - 1 THEN s[i] ELSE s[i + 1]
    <2>1. r \in Seq(S) /\ Len(r) = Len(a) + Len(b)
          /\ \A i \in 1..Len(a) + Len(b) : r[i] = IF i <= Len(a) THEN a[i] ELSE b[i - Len(a)]
      BY <1>3, <1>4, <1>5, ConcatProperties
    <2>2. Len(a) + Len(b) = n - 1
      BY <1>0, <1>3, <1>4
    <2>3. ASSUME NEW i \in 1..n - 1
          PROVE  r[i] = IF i <= j - 1 THEN s[i] ELSE s[i + 1]
      <3>1. r[i] = IF i <= j - 1 THEN a[i] ELSE b[i - (j - 1)]
        BY <1>3, <2>1, <2>2
      <3>2. CASE i <= j - 1
        BY <1>0, <1>3, <3>1, <3>2
      <3>3. CASE ~(i <= j - 1)
        <4>1. i - (j - 1) \in 1..n - j /\ (i - (j - 1)) + j = i + 1
          BY <1>0, <3>3
        <4>2. QED BY <1>4, <3>1, <3>3, <4>1
      <3>4. QED BY <3>2, <3>3
    <2>4. QED BY <2>1, <2>2, <2>3
  <1>7. l = <<s[j]>> \o r /\ s[j] \in S
    BY <1>1, <1>2, <1>5, <1>0 DEF MoveFirst, n, l
  <1>8. Len(l) = n /\ l[1] = s[j] /\ \A i \in 2..n : l[i] = r[i - 1]
    <2>1. PICK h : h = <<s[j]>>
      OBVIOUS
    <2>2. h \in Seq(S) /\ Len(h) = 1 /\ h[1] = s[j]
      BY <1>7, <2>1
    <2>3. l = h \o r
      BY <1>7, <2>1
    <2>4. Len(l) = Len(h) + Len(r)
          /\ \A i \in 1..Len(h) + Len(r) : l[i] = IF i <= Len(h) THEN h[i] ELSE r[i - Len(h)]
      <3>1. h \in Seq(S) /\ r \in Seq(S)
        BY <1>6, <2>2
      <3>2. /\ Len(h \o r) = Len(h) + Len(r)
            /\ \A i \in 1..Len(h) + Len(r) : (h \o r)[i] = IF i <= Len(h) THEN h[i] ELSE r[i - Len(h)]
        BY <3>1, ConcatProperties, Zenon
      <3>3. QED BY <2>3, <3>2, Zenon
    <2>5. Len(h) + Len(r) = n
      BY <1>0, <1>6, <2>2
    <2>6. Len(l) = n /\ \A i \in 1..n : l[i] = IF i <= 1 THEN h[i] ELSE r[i - 1]
      BY <2>2, <2>4, <2>3, <2>5
    <2>7. l[1] = s[j]
      <3>1. 1 \in 1..n /\ 1 <= 1
        BY <1>0
      <3>2. QED BY <2>2, <2>6, <3>1, Zenon
    <2>8. ASSUME NEW i \in 2..n
          PROVE  l[i] = r[i - 1]
      <3>1. i \in 1..n /\ ~(i <= 1)
        BY <1>0
      <3>2. QED BY <2>6, <3>1, Zenon
    <2>9. QED BY <2>6, <2>7, <2>8
  <1>9. ASSUME NEW i \in 1..n
        PROVE  \E k \in 1..n : l[k] = s[i]
    <2>1. CASE i = j
      BY <1>8, <2>1
    <2>2. CASE i < j
      <3>1. i + 1 \in 2..n /\ i \in 1..n - 1 /\ i <= j - 1 /\ (i + 1) - 1 = i
        BY <1>0, <2>2
      <3>2. l[i + 1] = s[i]
        BY <1>6, <1>8, <3>1
      <3>3. QED BY <3>1, <3>2
    <2>3. CASE i > j
      <3>1. i \in 2..n /\ i - 1 \in 1..n - 1 /\ ~(i - 1 <= j - 1) /\ (i - 1) + 1 = i
        BY <1>0, <2>3
      <3>2. l[i] = s[i]
        BY <1>6, <1>8, <3>1
      <3>3. QED BY <3>1, <3>2
    <2>4. i = j \/ i < j \/ i > j
      BY <1>0
    <2>5. QED BY <2>1, <2>2, <2>3, <2>4, Zenon
  <1>10. QED BY <1>8, <1>9, Zenon DEF HasAllOf, n, l

(* A list holds the same machines whichever comes first.                    *)
LEMMA WholeList ==
  ASSUME EcAssume, EcServerOK, NEW d, EcFound(d)
  PROVE  /\ Len(EC!MachinesCache(d)) \in Nat
         /\ \A m \in server.members : \E i \in 1..Len(EC!MachinesCache(d)) : EC!MachinesCache(d)[i] = m
  <1> DEFINE s == d.cache
             n == Cardinality(server.members)
  <1>1. IsFiniteSet(server.members) /\ n \in Nat /\ EC!Cardinality(server.members) = n
    <2>1. IsFiniteSet(server.members)
      BY FS_Subset DEF EcAssume, EcServerOK
    <2>2. EC!Cardinality(server.members) = Cardinality(server.members)
      BY Zenon DEF EC!Cardinality, Cardinality
    <2>3. QED BY <2>1, <2>2, FS_CardinalityType
  <1>2. s \in [1..n -> server.members] /\ \A i, j \in 1..n : i # j => s[i] # s[j]
    BY <1>1 DEF EcFound, EC!SetToSeqs
  <1>3. \A m \in server.members : \E i \in 1..n : s[i] = m
    <2>1. s \in Injection(1..n, server.members)
      BY <1>2 DEF Injection, IsInjective
    <2>2. Cardinality(1..n) = n
      BY <1>1, FS_Interval
    <2>3. s \in Surjection(1..n, server.members)
      BY <1>1, <2>1, <2>2, FS_Injection
    <2>4. QED BY <2>3 DEF Surjection
  <1>4. s \in Seq(server.members) /\ Len(s) = n /\ DOMAIN s = 1..n
    BY <1>1, <1>2
  <1> DEFINE I == {i \in 1..Len(s) : s[i] = d.base}
  <1>5. I # {} /\ I \in SUBSET Nat
    BY <1>4 DEF EcFound, EC!Set
  <1>6. PICK k \in I : \A i \in I : k <= i
    BY <1>5, LeastNat
  <1>7. EC!Min(I) \in I
    BY <1>6 DEF EC!Min
  <1>8. PICK j \in 1..n : s[j] = d.base /\ EC!MachinesCache(d) = <<d.base>> \o (SubSeq(s, 1, j - 1) \o SubSeq(s, j + 1, n))
    <2>1. d.base \in EC!Set(s) /\ \E i \in 1..Len(s) : s[i] = d.base
      BY <1>4 DEF EcFound, EC!Set
    <2>2. EC!SelectInSeq(s, LAMBDA v : v = d.base) = EC!Min(I)
      BY <1>5 DEF EC!SelectInSeq
    <2>3. EC!RemoveFirst(s, d.base) = SubSeq(s, 1, EC!Min(I) - 1) \o SubSeq(s, EC!Min(I) + 1, Len(s))
      BY <2>1, <1>5, Zenon DEF EC!RemoveFirst, EC!RemoveAt, EC!SelectInSeq
    <2>4. EC!MachinesCache(d) = <<d.base>> \o EC!RemoveFirst(s, d.base)
      BY <2>1 DEF EC!MachinesCache
    <2>5. EC!Min(I) \in 1..n /\ s[EC!Min(I)] = d.base
      BY <1>4, <1>7
    <2>6. QED BY <1>4, <2>3, <2>4, <2>5
  <1>9. /\ Len(EC!MachinesCache(d)) = n
        /\ \A i \in 1..n : \E k1 \in 1..n : EC!MachinesCache(d)[k1] = s[i]
    <2> HIDE DEF s, n
    <2>1. n = Len(s) /\ s \in Seq(server.members) /\ j \in 1..Len(s)
      BY <1>1, <1>4
    <2>2. EC!MachinesCache(d) = MoveFirst(s, j)
      BY <1>8, <2>1, Zenon DEF MoveFirst
    <2>3. HasAllOf(MoveFirst(s, j), s)
      BY <2>1, MovedFirst
    <2>4. QED BY <2>1, <2>2, <2>3, Zenon DEF HasAllOf
  <1>10. QED BY <1>1, <1>3, <1>9

(* _do_http_request(): some machine of the list answers, so the call        *)
(* succeeds.                                                                *)
LEMMA SomebodyAnswers ==
  ASSUME NEW c, NEW machines, Len(machines) \in Nat,
         NEW i \in 1..Len(machines), EC!Answers(c, machines[i])
  PROVE  \A r \in EC!TryAll(c, machines) : r.ok
  <1> DEFINE I == {j \in 1..Len(machines) : EC!Answers(c, machines[j])}
             first == EC!Min(I)
  <1>1. I # {} /\ I \in SUBSET Nat
    OBVIOUS
  <1>2. PICK k \in I : \A j \in I : k <= j
    BY <1>1, LeastNat
  <1>3. first \in I
    BY <1>2 DEF EC!Min
  <1>4. first # 0
    BY <1>3
  <1> HIDE DEF first
  <1>5. \A r \in EC!TryAll(c, machines) : \E d : r = EC!Done(d)
    <2> SUFFICES ASSUME NEW r \in EC!TryAll(c, machines)
                 PROVE  \E d : r = EC!Done(d)
      OBVIOUS
    <2> DEFINE n == EC!Learn(c, machines[first])
               found == EC!Refreshed([n EXCEPT !.base = machines[first]], EC!Set(n.cache))
    <2>1. EC!TryAll(c, machines) =
            IF first = 1 THEN {EC!Done(n)}
            ELSE {EC!Done(f) : f \in found}
                   \cup (IF found = {} THEN {EC!Done([n EXCEPT !.base = machines[first]])} ELSE {})
      BY <1>1, <1>4, Zenon DEF EC!TryAll, EC!SelectInSeq, first
    <2> HIDE DEF n, found
    <2>2. r \in {EC!Done(n)} \/ r \in {EC!Done(f) : f \in found}
          \/ r \in {EC!Done([n EXCEPT !.base = machines[first]])}
      BY <2>1
    <2>3. QED BY <2>2
  <1>6. QED BY <1>5 DEF EC!Done

(* Whatever a call tries, the client keeps its fields and the count of its  *)
(* failures.                                                                *)
LEMMA TryAllKeeps ==
  ASSUME EcAssume, EcServerOK, NEW c, EcFields(c), NEW machines, NEW r \in EC!TryAll(c, machines)
  PROVE  /\ EcFields(r.client) /\ r.client.failures = c.failures /\ r.client.update = c.update
         /\ r = [client |-> r.client, ok |-> r.ok] /\ r.ok \in BOOLEAN
  <1> DEFINE a == EC!SelectInSeq(machines, LAMBDA m : EC!Answers(c, m))
             n == EC!Learn(c, machines[a])
             b == [n EXCEPT !.base = machines[a]]
             found == EC!Refreshed(b, EC!Set(n.cache))
  <1>1. r \in {EC!Failed(c)} \/ r \in {EC!Done(n)} \/ r \in {EC!Done(b)} \/ \E f \in found : r = EC!Done(f)
    <2>1. EC!TryAll(c, machines) =
            IF a = 0 THEN {EC!Failed(c)}
            ELSE IF a = 1 THEN {EC!Done(n)}
            ELSE {EC!Done(f) : f \in found} \cup (IF found = {} THEN {EC!Done(b)} ELSE {})
      BY Zenon DEF EC!TryAll
    <2> HIDE DEF a, n, b, found
    <2>2. QED BY <2>1
  <1> HIDE DEF a
  <1>2. EcFields(n) /\ n.failures = c.failures /\ n.update = c.update
    BY DEF EC!Learn, EcFields
  <1> HIDE DEF n
  <1>3. EcFields(b) /\ b.failures = c.failures /\ b.update = c.update
    BY <1>2 DEF EcFields
  <1> HIDE DEF b
  <1>4. \A f \in found : EcFields(f) /\ f.failures = c.failures /\ f.update = c.update
    BY <1>3, RefreshedList
  <1> HIDE DEF found
  <1>5. PICK d : /\ r = EC!Failed(d) \/ r = EC!Done(d)
                 /\ EcFields(d) /\ d.failures = c.failures /\ d.update = c.update
    BY <1>1, <1>2, <1>3, <1>4, Zenon
  <1>6. PICK o \in BOOLEAN : r = [client |-> d, ok |-> o]
    BY <1>5 DEF EC!Failed, EC!Done
  <1>7. r.client = d /\ r.ok \in BOOLEAN /\ r = [client |-> r.client, ok |-> r.ok]
    BY <1>6
  <1>8. QED BY <1>5, <1>7, Zenon

(* api_execute(): a call that fails leaves the list to be loaded.           *)
LEMMA ExecuteKeeps ==
  ASSUME EcAssume, EcServerOK, NEW c, EcFields(c), c.update \in BOOLEAN, NEW r \in EC!Execute(c)
  PROVE  /\ EcFields(r.client) /\ r.client.failures = c.failures /\ r.client.update \in BOOLEAN
         /\ r.ok \in BOOLEAN /\ (~r.ok => r.client.update)
  <1> DEFINE Again(d, nodes) == IF nodes = 0 THEN {EC!Failed(d)}
                                ELSE EC!TryAll(d, SubSeq(EC!MachinesCache(d), 1, nodes))
             Settle(q) == IF q.ok THEN q ELSE EC!Failed([q.client EXCEPT !.update = TRUE])
  <1>1. PICK first \in EC!TryAll(c, EC!MachinesCache(c)) :
          \/ first.ok /\ r = first
          \/ \E d \in EC!LoadMachinesCache(first.client) : \E nodes \in 0..Len(d.cache) :
               \E q \in Again(d, nodes) : r = Settle(q)
    <2> DEFINE More(f) == UNION {UNION {{Settle(q) : q \in Again(d, nodes)} : nodes \in 0..Len(d.cache)}
                                 : d \in EC!LoadMachinesCache(f.client)}
    <2>1. r \in UNION {IF f.ok THEN {f} ELSE More(f) : f \in EC!TryAll(c, EC!MachinesCache(c))}
      BY Zenon DEF EC!Execute
    <2>2. PICK f \in EC!TryAll(c, EC!MachinesCache(c)) : (f.ok /\ r = f) \/ r \in More(f)
      <3> HIDE DEF More
      <3>1. QED BY <2>1
    <2>3. CASE f.ok /\ r = f
      BY <2>3
    <2>4. CASE r \in More(f)
      <3> HIDE DEF Settle, Again
      <3>1. PICK d \in EC!LoadMachinesCache(f.client) :
              r \in UNION {{Settle(q) : q \in Again(d, nodes)} : nodes \in 0..Len(d.cache)}
        BY <2>4
      <3>2. QED BY <3>1
    <2>5. QED BY <2>2, <2>3, <2>4
  <1>2. EcFields(first.client) /\ first.client.failures = c.failures /\ first.client.update = c.update
        /\ first.ok \in BOOLEAN
    BY TryAllKeeps
  <1>3. CASE first.ok /\ r = first
    BY <1>2, <1>3
  <1>4. ASSUME NEW d \in EC!LoadMachinesCache(first.client), NEW nodes \in 0..Len(d.cache),
               NEW q \in Again(d, nodes), r = Settle(q)
        PROVE  /\ EcFields(r.client) /\ r.client.failures = c.failures /\ r.client.update \in BOOLEAN
               /\ r.ok \in BOOLEAN /\ (~r.ok => r.client.update)
    <2>1. EcFields(d) /\ d.failures = c.failures /\ d.update \in BOOLEAN
      BY <1>2, <1>4, LoadedList
    <2>2. EcFields(q.client) /\ q.client.failures = c.failures /\ q.client.update \in BOOLEAN /\ q.ok \in BOOLEAN
      <3>1. CASE nodes = 0
        <4>1. q = [client |-> d, ok |-> FALSE]
          BY <1>4, <3>1 DEF EC!Failed
        <4>2. q.client = d /\ q.ok \in BOOLEAN
          BY <4>1
        <4>3. QED BY <2>1, <4>2, Zenon
      <3>2. CASE nodes # 0
        BY <1>4, <2>1, <3>2, TryAllKeeps
      <3>3. QED BY <3>1, <3>2
    <2>3. CASE q.ok
      BY <1>4, <2>2, <2>3
    <2>4. CASE ~q.ok
      <3>1. r = EC!Failed([q.client EXCEPT !.update = TRUE])
        BY <1>4, <2>4
      <3>2. r.client = [cache |-> q.client.cache, base |-> q.client.base, update |-> TRUE, term |-> q.client.term,
                        failures |-> q.client.failures] /\ r.ok = FALSE
        BY <2>2, <3>1 DEF EC!Failed, EcFields
      <3>3. PICK e : e = r.client
        OBVIOUS
      <3>4. e.update = TRUE /\ e.failures = q.client.failures /\ EcFields(e)
        BY <3>2, <3>3 DEF EcFields
      <3>5. QED BY <2>2, <3>2, <3>3, <3>4
    <2>5. QED BY <2>2, <2>3, <2>4
  <1>5. QED BY <1>1, <1>3, <1>4

(* A call with a list that was just loaded succeeds.                        *)
LEMMA FoundServes ==
  ASSUME EcAssume, EcServerOK, NEW d, EcFields(d), EcFound(d), NEW r \in EC!Execute(d)
  PROVE  r.ok
  <1> DEFINE l == EC!MachinesCache(d)
  <1>1. PICK m \in server.members : EC!Answers(d, m)
    BY DEF EcFound
  <1>2. Len(l) \in Nat /\ \E i \in 1..Len(l) : l[i] = m
    BY WholeList
  <1>3. PICK i \in 1..Len(l) : EC!Answers(d, l[i])
    BY <1>1, <1>2
  <1> HIDE DEF l
  <1>4. \A first \in EC!TryAll(d, l) : first.ok
    BY <1>2, <1>3, SomebodyAnswers
  <1>5. r \in EC!TryAll(d, l)
    <2> DEFINE Again(e, nodes) == IF nodes = 0 THEN {EC!Failed(e)}
                                  ELSE EC!TryAll(e, SubSeq(EC!MachinesCache(e), 1, nodes))
               Settle(q) == IF q.ok THEN q ELSE EC!Failed([q.client EXCEPT !.update = TRUE])
               More(f) == UNION {UNION {{Settle(q) : q \in Again(e, nodes)} : nodes \in 0..Len(e.cache)}
                                 : e \in EC!LoadMachinesCache(f.client)}
    <2>1. r \in UNION {IF f.ok THEN {f} ELSE More(f) : f \in EC!TryAll(d, l)}
      BY Zenon DEF EC!Execute, l
    <2> HIDE DEF More
    <2>2. QED BY <1>4, <2>1
  <1>6. QED BY <1>4, <1>5

(* A call: when a machine it knows answers, at most the first one fails.    *)
LEMMA CallKeeps ==
  ASSUME EcAssume, EcInv, EC!Call
  PROVE  EcInv'
  <1>1. EcServerOK /\ EcFields(client) /\ client.update \in BOOLEAN /\ server' = server
    BY DEF EcInv, EC!Call
  <1>2. PICK r \in EC!ApiExecute(client) :
          client' = [r.client EXCEPT !.failures = IF r.ok \/ ~EC!Reachable(client) THEN 0 ELSE IF @ < 3 THEN @ + 1 ELSE @]
    BY DEF EC!Call
  <1>3. /\ EcFields(r.client) /\ r.client.failures = client.failures /\ r.client.update \in BOOLEAN
        /\ r.ok \in BOOLEAN /\ (~r.ok => r.client.update)
        /\ client.update /\ EC!Reachable(client) => r.ok
    <2>1. CASE ~client.update
      <3>1. r \in EC!Execute(client)
        BY <2>1 DEF EC!ApiExecute
      <3>2. QED BY <1>1, <2>1, <3>1, ExecuteKeeps
    <2>2. CASE client.update
      <3>1. PICK d \in EC!LoadMachinesCache(client) :
              IF d.update THEN r \in {EC!Failed(d)} ELSE r \in EC!Execute(d)
        BY <2>2 DEF EC!ApiExecute
      <3>2. /\ EcFields(d) /\ d.failures = client.failures
            /\ \/ d.update = FALSE /\ EcFound(d)
               \/ d.update = TRUE /\ ~EC!Reachable(client)
        BY <1>1, LoadedList
      <3>3. CASE d.update = FALSE
        <4>1. r \in EC!Execute(d) /\ EcFound(d)
          BY <3>1, <3>2, <3>3
        <4>2. r.ok
          BY <1>1, <3>2, <4>1, FoundServes
        <4>3. QED BY <1>1, <3>2, <3>3, <4>1, <4>2, ExecuteKeeps
      <3>4. CASE d.update = TRUE
        <4>1. r = [client |-> d, ok |-> FALSE]
          BY <3>1, <3>4 DEF EC!Failed
        <4>2. r.client = d /\ r.ok = FALSE /\ ~EC!Reachable(client)
          BY <3>2, <3>4, <4>1
        <4>3. QED BY <3>2, <3>4, <4>2
      <3>5. QED BY <3>2, <3>3, <3>4
    <2>3. QED BY <1>1, <2>1, <2>2
  <1>4. PICK n : n = IF r.ok \/ ~EC!Reachable(client) THEN 0 ELSE IF r.client.failures < 3 THEN r.client.failures + 1
                     ELSE r.client.failures
    OBVIOUS
  <1>5. client' = [cache |-> r.client.cache, base |-> r.client.base, update |-> r.client.update,
                   term |-> r.client.term, failures |-> n]
    BY <1>2, <1>3, <1>4 DEF EcFields
  <1>6. client'.failures = n /\ client'.update = r.client.update /\ EcFields(client')
    BY <1>5 DEF EcFields
  <1>7. n \in {0, 1} /\ (n = 1 => r.client.update)
    <2>1. client.failures \in {0, 1} /\ (client.failures = 1 => client.update)
      BY DEF EcInv
    <2>2. CASE r.ok \/ ~EC!Reachable(client)
      BY <1>4, <2>2
    <2>3. CASE ~r.ok /\ EC!Reachable(client)
      <3>1. ~client.update /\ client.failures = 0 /\ r.client.failures = 0 /\ r.client.update
        BY <1>1, <1>3, <2>1, <2>3
      <3>2. QED BY <1>4, <2>3, <3>1
    <2>4. QED BY <1>3, <2>2, <2>3
  <1>8. EcServerOK'
    BY <1>1 DEF EcServerOK
  <1>9. QED BY <1>3, <1>6, <1>7, <1>8 DEF EcInv

(* The other calls and refreshes leave the count alone.                     *)
LEMMA OtherCallsKeep ==
  ASSUME EcAssume, EcInv, EC!CallOnce \/ EC!RefreshOnTtl
  PROVE  EcInv'
  <1>1. EcServerOK /\ EcFields(client) /\ client.update \in BOOLEAN /\ server' = server
    BY DEF EcInv, EC!CallOnce, EC!RefreshOnTtl
  <1>2. EcFields(client') /\ client'.failures = client.failures /\ client'.update = client.update
    <2>1. CASE EC!CallOnce
      <3>1. PICK l : l = EC!MachinesCache(client)
        OBVIOUS
      <3>2. client' = EC!Learn(client, l[1]) \/ \E b : client' = [client EXCEPT !.base = b]
        BY <2>1, <3>1 DEF EC!CallOnce
      <3>3. CASE client' = EC!Learn(client, l[1])
        BY <1>1, <3>3 DEF EC!Learn, EcFields
      <3>4. CASE \E b : client' = [client EXCEPT !.base = b]
        BY <1>1, <3>4 DEF EcFields
      <3>5. QED BY <3>2, <3>3, <3>4
    <2>2. CASE EC!RefreshOnTtl
      <3>1. client' \in EC!Refreshed(client, EC!Set(client.cache))
        BY <2>2 DEF EC!RefreshOnTtl
      <3>2. QED BY <1>1, <3>1, RefreshedList
    <2>3. QED BY <2>1, <2>2
  <1>3. EcServerOK'
    BY <1>1 DEF EcServerOK
  <1>4. QED BY <1>2, <1>3 DEF EcInv

(* The latest term there is.                                                *)
LEMMA LatestTerm ==
  ASSUME EcAssume, EcServerOK
  PROVE  EC!Latest \in 1..MaxTerm
  <1> DEFINE T == {t \in 1..MaxTerm : \A k \in Machines : server.term[k] <= t}
  <1>1. MaxTerm \in T /\ T \in SUBSET Nat
    BY DEF EcAssume, EcServerOK
  <1>2. PICK t \in T : \A u \in T : t <= u
    BY <1>1, LeastNat
  <1>3. \E m \in Machines : server.term[m] = t
    <2>1. SUFFICES ASSUME \A m \in Machines : server.term[m] # t PROVE FALSE
      OBVIOUS
    <2>2. \A m \in Machines : server.term[m] \in 1..MaxTerm /\ server.term[m] <= t - 1
      BY <1>2, <2>1 DEF EcServerOK
    <2>3. t - 1 \in T
      BY <1>2, <2>2 DEF EcAssume
    <2>4. QED BY <1>2, <2>3
  <1>4. QED BY <1>2, <1>3 DEF EC!Latest

(* What happens to the servers makes the client count from the beginning.   *)
LEMMA DisturbKeeps ==
  ASSUME EcAssume, EcInv, EC!Goes \/ EC!Comes \/ EC!CatchesUp \/ EC!Elects \/ EC!Replaces
  PROVE  EcInv'
  <1>1. EcServerOK /\ EcFields(client) /\ client.update \in BOOLEAN
    BY DEF EcInv
  <1>2. client' = [client EXCEPT !.failures = 0]
    BY DEF EC!Goes, EC!Comes, EC!CatchesUp, EC!Elects, EC!Replaces, EC!Disturb
  <1>3. client' = [cache |-> client.cache, base |-> client.base, update |-> client.update, term |-> client.term,
                   failures |-> 0]
    BY <1>1, <1>2 DEF EcFields
  <1>4. EcFields(client') /\ client'.update \in BOOLEAN /\ client'.failures = 0
    BY <1>1, <1>3 DEF EcFields
  <1>5. EC!Latest \in 1..MaxTerm /\ MaxTerm \in Nat
    BY <1>1, LatestTerm DEF EcAssume
  <1>6. EcServerOK'
    <2>1. CASE EC!Goes
      BY <1>1, <2>1 DEF EC!Goes, EC!Disturb, EcServerOK
    <2>2. CASE EC!Comes
      BY <1>1, <2>2 DEF EC!Comes, EC!Disturb, EcServerOK
    <2>3. CASE EC!CatchesUp
      <3>1. PICK m \in server.up : server' = [server EXCEPT !.term[m] = EC!Latest]
        BY <2>3 DEF EC!CatchesUp, EC!Disturb
      <3>2. server' = [members |-> server.members, up |-> server.up, term |-> [server.term EXCEPT ![m] = EC!Latest]]
        BY <1>1, <3>1 DEF EcServerOK
      <3>3. QED BY <1>1, <1>5, <3>2 DEF EcServerOK
    <2>4. CASE EC!Elects
      <3>1. PICK m \in server.up : server' = [server EXCEPT !.term[m] = EC!Latest + 1] /\ EC!Latest < MaxTerm
        BY <2>4 DEF EC!Elects, EC!Disturb
      <3>2. server' = [members |-> server.members, up |-> server.up,
                       term |-> [server.term EXCEPT ![m] = EC!Latest + 1]]
        BY <1>1, <3>1 DEF EcServerOK
      <3>3. EC!Latest + 1 \in 1..MaxTerm
        BY <1>5, <3>1
      <3>4. QED BY <1>1, <3>2, <3>3 DEF EcServerOK
    <2>5. CASE EC!Replaces
      <3>1. PICK m \in Machines :
              IF m \in server.members THEN EC!Cardinality(server.members) > 1 /\ server' = [server EXCEPT !.members = @ \ {m}]
              ELSE server' = [server EXCEPT !.members = @ \cup {m}]
        BY <2>5 DEF EC!Replaces, EC!Disturb
      <3>2. CASE m \in server.members
        <4>1. Cardinality(server.members) > 1
          <5>1. EC!Cardinality(server.members) = Cardinality(server.members)
            BY Zenon DEF EC!Cardinality, Cardinality
          <5>2. QED BY <3>1, <3>2, <5>1
        <4>2. server.members \ {m} # {}
          <5>1. server.members # {m}
            <6>1. Cardinality({m}) = 1
              BY FS_Singleton
            <6>2. QED BY <4>1, <6>1
          <5>2. QED BY <3>2, <5>1
        <4>3. QED BY <1>1, <3>1, <3>2, <4>2 DEF EcServerOK
      <3>3. CASE m \notin server.members
        BY <1>1, <3>1, <3>3 DEF EcServerOK
      <3>4. QED BY <3>2, <3>3
    <2>6. QED BY <2>1, <2>2, <2>3, <2>4, <2>5
  <1>7. QED BY <1>4, <1>6 DEF EcInv

(* The list of the first state is whole.                                    *)
LEMMA EcStart ==
  ASSUME EcAssume, EC!Init
  PROVE  EcInv
  <1>1. EcServerOK
    BY DEF EC!Init, EcServerOK, EcAssume
  <1>2. EcFields(client) /\ client.update = FALSE /\ client.failures = 0
    BY DEF EC!Init, EcFields
  <1>3. client.update \in BOOLEAN
    BY <1>2, Zenon
  <1>4. client.failures \in {0, 1} /\ client.failures # 1
    BY <1>2
  <1>5. QED BY <1>1, <1>2, <1>3, <1>4 DEF EcInv

(* ServedAgain: a call with a retry does not fail twice in a row while a    *)
(* machine that the configuration or the list names answers, whatever       *)
(* happened to the members of etcd and in whichever order the list is gone  *)
(* through: the list that the second call loads holds a machine that        *)
(* answers with the term it was loaded with.                                *)
THEOREM ClientServed ==
  ASSUME EcAssume
  PROVE  Spec => []ServedAgain
  <1> DEFINE Inv == backend = "client" => EcInv
  <1>1. Init => Inv
    BY EcStart DEF Init
  <1>2. Inv /\ [Next]_vars => Inv'
    <2> SUFFICES ASSUME Inv, [Next]_vars, backend' = "client" PROVE EcInv'
      OBVIOUS
    <2>1. backend = "client"
      BY DEF Next, vars
    <2>2. EcInv /\ (EC!Next \/ UNCHANGED <<server, client>>)
      BY <2>1 DEF Next, vars
    <2>3. CASE EC!Next
      BY <2>2, <2>3, CallKeeps, OtherCallsKeep, DisturbKeeps DEF EC!Next
    <2>4. CASE UNCHANGED <<server, client>>
      BY <2>2, <2>4 DEF EcInv, EcServerOK, EcFields
    <2>5. QED BY <2>2, <2>3, <2>4
  <1>3. Inv => ServedAgain
    BY DEF EcInv, ServedAgain, EC!ServedAgain
  <1>4. QED BY <1>1, <1>2, <1>3, PTL DEF Spec
=============================================================================
