------------------------------- MODULE Consul -------------------------------
(* Consul: the leader key is locked by a session of its owner and deleted   *)
(* with it (behavior=delete).  session.create() passes half of the ttl and  *)
(* Consul invalidates the session after twice that time.                    *)
EXTENDS Naturals

CONSTANTS Nodes, None,
  TTL,          \* ttl, in ticks
  LoopWait,     \* loop_wait, in ticks
  MaxSession,   \* bound: sessions a node creates
  MaxIndex,     \* bound: versions of the leader key
  TrustRelock   \* an update whose answers were not looked at counts as one

NoKey == [owner |-> None, session |-> None, index |-> 0]
Unknown == [NoKey EXCEPT !.owner = "unknown"]
Sessions == Nodes \X (1..MaxSession)

VARIABLES
  server,  \* key: the leader key, index: ModifyIndex of the last change,
           \* left: ticks the sessions have left
  client,  \* per node: op, session, created: sessions so far, fresh: ticks
           \* until it is refreshed again, view, age of the call, sure
  net      \* unused

vars == <<server, client, net>>

Idle(c) == c.op = "idle"
Valid(s, session) == session # None /\ s.left[session] > 0

Init ==
  /\ server = [key |-> NoKey, index |-> 0, left |-> [x \in Sessions |-> 0]]
  /\ client = [n \in Nodes |-> [op |-> "idle", session |-> None, created |-> 0, fresh |-> 0,
                                view |-> Unknown, age |-> 0, sure |-> 0]]
  /\ net = {}

(* kv.put(acquire=session): the key is not locked, or by this session.      *)
Lockable(s, session) == s.key.session \in {None, session}
Lock(s, n, session) ==
  [s EXCEPT !.key = [owner |-> n, session |-> session, index |-> s.index + 1], !.index = @ + 1]
Delete(s) == [s EXCEPT !.key = NoKey, !.index = @ + 1]

-----------------------------------------------------------------------------
(* _load_cluster(): the configured consistency gives the present state.     *)
Load(n) ==
  /\ Idle(client[n])
  /\ client' = [client EXCEPT ![n].view = server.key]
  /\ UNCHANGED <<server, net>>

Call(n, op) ==
  /\ Idle(client[n]) /\ client[n].view # Unknown
  /\ CASE op = "acquire" -> client[n].view.owner = None
       [] op = "touch"   -> TRUE
       [] OTHER          -> client[n].view.owner = n
  /\ client' = [client EXCEPT ![n].op = op, ![n].age = 0,
                              ![n].sure = IF op = "release" THEN 0 ELSE @]
  /\ UNCHANGED <<server, net>>

Finish(c) == [c EXCEPT !.op = "idle", !.view = Unknown]
Told(c, good) == [Finish(c) EXCEPT !.sure = good]

(* _do_refresh_session(): renew the session or create one; only             *)
(* update_leader() insists within loop_wait of the last time.               *)
RefreshSession(n) ==
  LET c == client[n]
      id == <<n, c.created + 1>>
      recent == c.op # "update" /\ c.session # None /\ c.fresh > 0
      next(d) == CASE d.op = "touch" -> Finish(d)
                   [] d.op = "acquire" -> [d EXCEPT !.op = "lock"]
                   [] OTHER -> IF d.view.session = d.session THEN Told(d, TTL - d.age)
                               ELSE [d EXCEPT !.op = "unlock", !.sure = 0]
  IN
  /\ c.op \in {"touch", "acquire", "update"}
  /\ \/ recent /\ UNCHANGED server /\ client' = [client EXCEPT ![n] = next(c)]
     \/ /\ ~recent /\ Valid(server, c.session)
        /\ server' = [server EXCEPT !.left[c.session] = TTL]
        /\ client' = [client EXCEPT ![n] = next([c EXCEPT !.fresh = LoopWait])]
     \/ /\ ~recent /\ ~Valid(server, c.session) /\ c.created < MaxSession
        /\ server' = [server EXCEPT !.left[id] = TTL]
        /\ client' = [client EXCEPT ![n] =
             next([c EXCEPT !.session = id, !.created = @ + 1, !.fresh = LoopWait])]
  /\ UNCHANGED net

(* _do_attempt_to_acquire_leader(), again with a new session when this one  *)
(* is invalid.                                                              *)
AcquireKey(n) ==
  LET c == client[n] IN
  /\ c.op = "lock" /\ server.index < MaxIndex
  /\ IF ~Valid(server, c.session)
     THEN UNCHANGED server /\ client' = [client EXCEPT ![n].session = None, ![n].op = "acquire"]
     ELSE IF Lockable(server, c.session)
     THEN /\ server' = Lock(server, n, c.session)
          /\ client' = [client EXCEPT ![n] = Told(c, TTL - LoopWait - c.age)]
     ELSE UNCHANGED server /\ client' = [client EXCEPT ![n] = Told(c, 0)]
  /\ UNCHANGED net

(* Mutant of UnlockKey: the version of the key is not compared.             *)
UnlockAnyKey(n) ==
  /\ client[n].op = "unlock" /\ server.index < MaxIndex
  /\ server' = IF server.key.owner # None THEN Delete(server) ELSE server
  /\ client' = [client EXCEPT ![n].op = "relock"]
  /\ UNCHANGED net

(* _update_leader() with another session than the key's: the key is deleted *)
(* if it is the version that was loaded ...                                 *)
UnlockKey(n) ==
  LET c == client[n] IN
  /\ c.op = "unlock" /\ server.index < MaxIndex
  /\ server' = IF server.key.owner # None /\ server.key.index = c.view.index THEN Delete(server) ELSE server
  /\ client' = [client EXCEPT ![n].op = "relock"]
  /\ UNCHANGED net

(* ... and locked anew.  Neither answer is looked at: the update succeeds.  *)
RelockKey(n) ==
  LET c == client[n]
      locks == Valid(server, c.session) /\ Lockable(server, c.session) IN
  /\ c.op = "relock" /\ server.index < MaxIndex
  /\ server' = IF locks THEN Lock(server, n, c.session) ELSE server
  /\ client' = [client EXCEPT ![n] =
       Told(c, IF locks \/ (TrustRelock /\ Valid(server, c.session)) THEN TTL - c.age ELSE 0)]
  /\ UNCHANGED net

(* _delete_leader(): cas=version.                                           *)
DeleteKey(n) ==
  /\ client[n].op = "release" /\ server.index < MaxIndex
  /\ server' = IF server.key.owner # None /\ server.key.index = client[n].view.index
               THEN Delete(server) ELSE server
  /\ client' = [client EXCEPT ![n] = Finish(@)]
  /\ UNCHANGED net

(* No answer in retry_timeout; the request was applied or not.              *)
GiveUp(n) ==
  LET c == client[n] IN
  /\ ~Idle(c) /\ client' = [client EXCEPT ![n] = Finish(c)]
  /\ \/ UNCHANGED server
     \/ /\ c.op \in {"lock", "relock"} /\ server.index < MaxIndex
        /\ Valid(server, c.session) /\ Lockable(server, c.session)
        /\ server' = Lock(server, n, c.session)
     \/ /\ c.op = "release" /\ server.index < MaxIndex
        /\ server.key.owner # None /\ server.key.index = c.view.index
        /\ server' = Delete(server)
  /\ UNCHANGED net

(* set_ttl() with a new ttl and a restart forget the session.               *)
ForgetSession(n) ==
  /\ Idle(client[n]) /\ client[n].session # None /\ client[n].created < MaxSession
  /\ client' = [client EXCEPT ![n].session = None]
  /\ UNCHANGED <<server, net>>

(* watch() makes the next cycle refresh the session.                        *)
Watch(n) ==
  /\ Idle(client[n]) /\ client[n].fresh > 0
  /\ client' = [client EXCEPT ![n].fresh = 0, ![n].view = Unknown]
  /\ UNCHANGED <<server, net>>

Less(t) == IF t = 0 THEN 0 ELSE t - 1

Tick ==
  /\ \A n \in Nodes : Idle(client[n]) \/ client[n].age < TTL - LoopWait
  /\ LET left == [x \in Sessions |-> Less(server.left[x])]
         gone == server.key.owner # None /\ left[server.key.session] = 0 IN
       /\ gone => server.index < MaxIndex
       /\ server' = [(IF gone THEN Delete(server) ELSE server) EXCEPT !.left = left]
  /\ client' = [n \in Nodes |-> [client[n] EXCEPT
                 !.sure = Less(client[n].sure), !.fresh = Less(client[n].fresh),
                 !.age = IF Idle(client[n]) THEN 0 ELSE client[n].age + 1]]
  /\ UNCHANGED net

Next ==
  \/ \E n \in Nodes : \/ Load(n) \/ RefreshSession(n) \/ AcquireKey(n) \/ UnlockKey(n) \/ RelockKey(n)
                      \/ DeleteKey(n) \/ GiveUp(n) \/ ForgetSession(n) \/ Watch(n)
  \/ \E n \in Nodes, op \in {"touch", "acquire", "update", "release"} : Call(n, op)
  \/ Tick

Spec == Init /\ [][Next]_vars

-----------------------------------------------------------------------------
Owner == server.key.owner
Sure == {n \in Nodes : client[n].sure > 0}

Contract == INSTANCE LeaderKey WITH owner <- Owner, sure <- Sure

(* The key passes from node to node only by being free in between, and is   *)
(* not freed under a node whose last answer still vouches for it.           *)
KeyImplemented == Contract!KeySpec
=============================================================================
