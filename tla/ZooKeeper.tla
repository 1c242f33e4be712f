----------------------------- MODULE ZooKeeper -----------------------------
(* ZooKeeper: the leader key is an ephemeral node of its owner's session,   *)
(* which the client keeps alive in the background.  A lost connection       *)
(* leaves the session to expire; reconnecting too late opens a new one.     *)
EXTENDS Naturals

CONSTANTS Nodes, None,
  TTL,           \* ttl, in ticks
  MaxSession,    \* bound: sessions a node opens
  MaxSync,       \* bound: versions of /sync after the first
  FirstVersion,  \* version /sync begins with: 0 when it was just created
  StaleRecreate  \* the key may change between its load and its recreation

NoKey == [owner |-> None, session |-> None]
Unknown == [owner |-> "unknown", session |-> None]
Sessions == Nodes \X (1..MaxSession)

VARIABLES
  server,  \* key, left: ticks the sessions have left, sync: version of /sync,
           \* writer: who wrote each version
  client,  \* per node: op, session (client_id), opened: sessions so far,
           \* connected, view, age of the view, sure, leads: told so since it
           \* last loaded the cluster, version of /sync loaded,
           \* acked: versions it was told it had written
  net      \* unused

vars == <<server, client, net>>

Idle(c) == c.op = "idle"
Alive(s, session) == session # None /\ s.left[session] > 0

(* Every node has opened its first session.                                 *)
Init ==
  /\ server = [key |-> NoKey, left |-> [x \in Sessions |-> IF x[2] = 1 THEN TTL ELSE 0],
               sync |-> FirstVersion, writer |-> [v \in (FirstVersion + 1)..(FirstVersion + MaxSync) |-> None]]
  /\ client = [n \in Nodes |-> [op |-> "idle", session |-> <<n, 1>>, opened |-> 1, connected |-> TRUE,
                                view |-> Unknown, age |-> 0, sure |-> 0, leads |-> FALSE,
                                version |-> FirstVersion, acked |-> {}]]
  /\ net = {}

Finish(c) == [c EXCEPT !.op = "idle", !.view = Unknown, !.age = 0]
Told(c, good) == [Finish(c) EXCEPT !.sure = good, !.leads = TRUE]
Refused(c) == [Finish(c) EXCEPT !.sure = 0, !.leads = FALSE]

(* A request is served in a live session only, and counts as a heartbeat.   *)
Served(n) == client[n].connected /\ Alive(server, client[n].session)
Beat(s, n) == [s EXCEPT !.left[client[n].session] = TTL]

(* Whatever a session owned goes when it ends.                              *)
End(s, session) ==
  [s EXCEPT !.left[session] = 0, !.key = IF s.key.session = session THEN NoKey ELSE @]

-----------------------------------------------------------------------------
(* _load_cluster().                                                         *)
Load(n) ==
  /\ Idle(client[n]) /\ Served(n)
  /\ server' = Beat(server, n)
  /\ client' = [client EXCEPT ![n].view = server.key, ![n].age = 0, ![n].leads = FALSE,
                              ![n].version = server.sync]
  /\ UNCHANGED net

(* attempt_to_acquire_leader(): create(ephemeral=True); also the second     *)
(* half of an update with another session.                                  *)
CreateKey(n) ==
  LET c == client[n] IN
  /\ Served(n)
  /\ \/ Idle(c) /\ c.view = NoKey
     \/ c.op = "recreate"
  /\ IF server.key = NoKey
     THEN /\ server' = [Beat(server, n) EXCEPT !.key = [owner |-> n, session |-> c.session]]
          /\ client' = [client EXCEPT ![n] = Told(c, TTL)]
     ELSE server' = Beat(server, n) /\ client' = [client EXCEPT ![n] = Refused(c)]
  /\ UNCHANGED net

(* Mutant of UpdateLeader: the session of the key is not looked at.         *)
UpdateAnySession(n) ==
  LET c == client[n] IN
  /\ Idle(c) /\ c.view.owner = n
  /\ client' = [client EXCEPT ![n] = Told(c, TTL - c.age)]
  /\ UNCHANGED <<server, net>>

(* _update_leader(): nothing to do while the key belongs to the session;    *)
(* the answer is as good as the load of this cycle.                         *)
UpdateLeader(n) ==
  LET c == client[n] IN
  /\ Idle(c) /\ c.view.owner = n
  /\ client' = [client EXCEPT ![n] = IF c.view.session = c.session THEN Told(c, TTL - c.age)
                                     ELSE [c EXCEPT !.op = "delete", !.sure = 0]]
  /\ UNCHANGED <<server, net>>

(* Otherwise the key is deleted, whoever owns it by now, and created anew.  *)
DeleteKey(n) ==
  /\ client[n].op = "delete" /\ Served(n)
  /\ StaleRecreate \/ server.key \in {client[n].view, NoKey}
  /\ server' = [Beat(server, n) EXCEPT !.key = NoKey]
  /\ client' = [client EXCEPT ![n].op = "recreate"]
  /\ UNCHANGED net

(* _delete_leader(), and set_ttl() with a new ttl: restart() closes the     *)
(* session and opens another one.                                           *)
Restart(n) ==
  /\ Idle(client[n]) /\ Served(n) /\ client[n].opened < MaxSession
  /\ LET id == <<n, client[n].opened + 1>> IN
       /\ server' = [End(server, client[n].session) EXCEPT !.left[id] = TTL]
       /\ client' = [client EXCEPT ![n] = [Refused(client[n]) EXCEPT !.session = id, !.opened = @ + 1]]
  /\ UNCHANGED net

(* Patroni dies and starts again with a new session; the old one, and what  *)
(* it owns, lives until it expires.                                         *)
Crash(n) ==
  /\ client[n].opened < MaxSession
  /\ LET id == <<n, client[n].opened + 1>> IN
       /\ server' = [server EXCEPT !.left[id] = TTL]
       /\ client' = [client EXCEPT ![n] = [Refused(client[n]) EXCEPT !.session = id, !.opened = @ + 1, !.connected = TRUE]]
  /\ UNCHANGED net

(* Mutant of SetSync: the version is never compared.                        *)
SetSyncAlways(n) ==
  LET c == client[n] IN
  /\ Idle(c) /\ Served(n) /\ c.leads /\ server.sync < FirstVersion + MaxSync
  /\ server' = [Beat(server, n) EXCEPT !.sync = @ + 1, !.writer[server.sync + 1] = n]
  /\ client' = [client EXCEPT ![n] = [Finish(c) EXCEPT !.acked = @ \cup {c.version + 1}, !.version = server.sync + 1]]
  /\ UNCHANGED net

(* _set_or_create(version=version or -1) by a node that acquired or updated *)
(* the key in this cycle: set() compares the version unless it is -1.       *)
SetSync(n) ==
  LET c == client[n] IN
  /\ Idle(c) /\ Served(n) /\ c.leads /\ server.sync < FirstVersion + MaxSync
  /\ IF c.version \in {server.sync, 0}
     THEN /\ server' = [Beat(server, n) EXCEPT !.sync = @ + 1, !.writer[server.sync + 1] = n]
          /\ client' = [client EXCEPT ![n] = [Finish(c) EXCEPT !.acked = @ \cup {c.version + 1}, !.version = server.sync + 1]]
     ELSE server' = Beat(server, n) /\ client' = [client EXCEPT ![n] = Finish(c)]
  /\ UNCHANGED net

(* The call fails with the connection: ZooKeeperError.  A request whose     *)
(* answer is lost may have been applied.                                    *)
Disconnect(n) ==
  LET c == client[n] IN
  /\ c.connected
  /\ client' = [client EXCEPT ![n] = [Finish(c) EXCEPT !.connected = FALSE]]
  /\ \/ UNCHANGED server
     \/ /\ Served(n) /\ server.key = NoKey /\ (c.op = "recreate" \/ (Idle(c) /\ c.view = NoKey))
        /\ server' = [server EXCEPT !.key = [owner |-> n, session |-> c.session]]
  /\ UNCHANGED net

(* kazoo reconnects, with a new session if the old one is gone, even in the *)
(* middle of a cycle.                                                       *)
Reconnect(n) ==
  LET c == client[n]
      id == <<n, c.opened + 1>> IN
  /\ ~c.connected \/ ~Alive(server, c.session)
  /\ IF Alive(server, c.session)
     THEN server' = Beat(server, n) /\ client' = [client EXCEPT ![n].connected = TRUE]
     ELSE /\ c.opened < MaxSession
          /\ server' = [server EXCEPT !.left[id] = TTL]
          /\ client' = [client EXCEPT ![n].connected = TRUE, ![n].session = id, ![n].opened = @ + 1]
  /\ UNCHANGED net

(* Pings keep the sessions of connected nodes alive, unless the node or the *)
(* network is too slow.                                                     *)
Ping(n) ==
  /\ Served(n) /\ server.left[client[n].session] < TTL
  /\ server' = Beat(server, n) /\ UNCHANGED <<client, net>>

Less(t) == IF t = 0 THEN 0 ELSE t - 1

Tick ==
  /\ \A n \in Nodes : client[n].view = Unknown \/ client[n].age < TTL
  /\ LET left == [x \in Sessions |-> Less(server.left[x])] IN
       server' = [server EXCEPT !.left = left,
                    !.key = IF @ # NoKey /\ left[@.session] = 0 THEN NoKey ELSE @]
  /\ client' = [n \in Nodes |-> [client[n] EXCEPT
                 !.sure = Less(client[n].sure),
                 !.age = IF client[n].view = Unknown THEN 0 ELSE client[n].age + 1]]
  /\ UNCHANGED net

Next ==
  \/ \E n \in Nodes : \/ Load(n) \/ CreateKey(n) \/ UpdateLeader(n) \/ DeleteKey(n) \/ Restart(n) \/ Crash(n)
                      \/ SetSync(n) \/ Disconnect(n) \/ Reconnect(n) \/ Ping(n)
  \/ Tick

Spec == Init /\ [][Next]_vars

-----------------------------------------------------------------------------
Owner == server.key.owner
Sure == {n \in Nodes : client[n].sure > 0}

Contract == INSTANCE LeaderKey WITH owner <- Owner, sure <- Sure

(* The key passes from node to node only by being free in between, and is   *)
(* not freed under a node whose last answer still vouches for it.           *)
KeyImplemented == Contract!KeySpec

(* A conditional write of /sync that succeeded is the version that follows  *)
(* the one its writer had read.                                             *)
SyncSerialized == \A n \in Nodes : \A v \in client[n].acked : server.writer[v] = n
=============================================================================
