-------------------------------- MODULE Raft --------------------------------
(* Raft: a key-value store replicated among the Patroni nodes themselves.   *)
(* The writer stamps a value with the time it expires, by its own clock and *)
(* from the beginning of the call; the raft leader, by its clock, appends a *)
(* command that removes the value it found expired.                         *)
EXTENDS Naturals, Integers, FiniteSets

CONSTANTS Nodes, None,
  TTL,       \* ttl, in ticks
  Skew,      \* ticks the clock of the raft leader may be ahead
  MaxStamp,  \* bound: calls that write the leader key
  MaxFlight  \* bound: commands in flight nobody waits for

NoKey == [owner |-> None, stamp |-> 0, left |-> 0]
Unknown == "unknown"

VARIABLES
  server,  \* key: the leader key in the replicated state, with left = expire -
           \* now; old: the owner a replica that lags behind still sees; stamp:
           \* of the last call ("updated")
  client,  \* per node: op, stamp and age of the call, view, sure
  net      \* commands in flight: abandoned _set()s and _expire()s

vars == <<server, client, net>>

Idle(c) == c.op = "idle"

Init ==
  /\ server = [key |-> NoKey, old |-> None, stamp |-> 0]
  /\ client = [n \in Nodes |-> [op |-> "idle", stamp |-> 0, age |-> 0, view |-> Unknown, sure |-> 0]]
  /\ net = {}

Store(s, key) == [s EXCEPT !.key = key, !.old = IF s.key.owner = key.owner THEN @ ELSE s.key.owner]

-----------------------------------------------------------------------------
(* Load, and the checks before a command is sent, read the local replica.   *)
Load(n) ==
  /\ Idle(client[n])
  /\ \E seen \in {server.key.owner, server.old} : client' = [client EXCEPT ![n].view = seen]
  /\ UNCHANGED <<server, net>>

Call(n, op) ==
  /\ Idle(client[n]) /\ server.stamp < MaxStamp
  /\ client[n].view = IF op = "acquire" THEN None ELSE n
  /\ server' = [server EXCEPT !.stamp = @ + 1]
  /\ client' = [client EXCEPT ![n].op = op, ![n].stamp = server.stamp + 1, ![n].age = 0,
                              ![n].sure = IF op = "release" THEN 0 ELSE @]
  /\ UNCHANGED net

Command(n) == [op |-> client[n].op, node |-> n, stamp |-> client[n].stamp, left |-> TTL - client[n].age]

(* __check_requirements(): prevExist=False, or prevValue=name.              *)
Holds(cmd, key) == IF cmd.op = "acquire" THEN key.owner = None ELSE key.owner = cmd.node

(* _set() and _delete(), as every replica applies them.                     *)
Applied(cmd) ==
  IF ~Holds(cmd, server.key) THEN server
  ELSE Store(server, IF cmd.op = "release" THEN NoKey
                     ELSE [owner |-> cmd.node, stamp |-> cmd.stamp, left |-> cmd.left])

(* The commands of one node arrive in the order it sent them: an older one  *)
(* that was not committed before a newer one is lost.                       *)
Overtaken(n) == {cmd \in net : cmd.op # "expire" /\ cmd.node = n}

Finish(c) == [c EXCEPT !.op = "idle", !.view = Unknown, !.age = 0, !.stamp = 0]
Told(c, good) == [Finish(c) EXCEPT !.sure = good]

(* A rejected update of a key that is gone is followed by an attempt to     *)
(* acquire it.                                                              *)
Commit(n) ==
  LET c == client[n]
      ok == Holds(Command(n), server.key) IN
  /\ ~Idle(c) /\ server' = Applied(Command(n))
  /\ client' = [client EXCEPT ![n] =
       IF c.op = "release" THEN Finish(c)
       ELSE IF ok THEN Told(c, TTL - c.age)
       ELSE IF c.op = "update" /\ server.key = NoKey THEN [Told(c, 0) EXCEPT !.view = None]
       ELSE Told(c, 0)]
  /\ net' = net \ Overtaken(n)

(* retry(): the command is sent again until retry_timeout; what was sent    *)
(* before may still be committed.                                           *)
Unanswered(n) ==
  LET c == client[n] IN
  /\ ~Idle(c)
  /\ \/ UNCHANGED client
     \/ client' = [client EXCEPT ![n] = Finish(c)]
  /\ \/ UNCHANGED <<server, net>>
     \/ server' = Applied(Command(n)) /\ net' = net \ Overtaken(n)
     \/ /\ c.op # "release" /\ Cardinality(net) < MaxFlight
        /\ net' = net \cup {Command(n)} /\ UNCHANGED server

CommitLate ==
  \E cmd \in net : /\ cmd.op # "expire"
                   /\ server' = Applied(cmd) /\ net' = net \ {cmd} /\ UNCHANGED client

(* __expire_keys() of the raft leader.                                      *)
ExpireKeys ==
  /\ server.key # NoKey /\ server.key.left <= Skew
  /\ Cardinality(net) < MaxFlight + 1
  /\ net' = net \cup {[op |-> "expire", node |-> server.key.owner,
                       stamp |-> server.key.stamp, left |-> 0]}
  /\ UNCHANGED <<server, client>>

(* Mutant of Expire: the value is not compared with the one that expired.   *)
ExpireAnyValue ==
  \E cmd \in net :
    /\ cmd.op = "expire" /\ net' = net \ {cmd}
    /\ server' = Store(server, NoKey) /\ UNCHANGED client

(* _expire(): removes the value only if it is still the one that expired.   *)
Expire ==
  \E cmd \in net :
    /\ cmd.op = "expire" /\ net' = net \ {cmd}
    /\ server' = IF server.key.stamp = cmd.stamp THEN Store(server, NoKey) ELSE server
    /\ UNCHANGED client

Less(t) == IF t = 0 THEN 0 ELSE t - 1

Tick ==
  /\ \A n \in Nodes : Idle(client[n]) \/ client[n].age < TTL
  /\ server' = [server EXCEPT !.key.left = Less(@)]
  /\ client' = [n \in Nodes |-> [client[n] EXCEPT
                 !.sure = Less(@), !.age = IF Idle(client[n]) THEN 0 ELSE @ + 1]]
  /\ net' = {[cmd EXCEPT !.left = Less(@)] : cmd \in net}

Next ==
  \/ \E n \in Nodes : Load(n) \/ Commit(n) \/ Unanswered(n)
  \/ \E n \in Nodes, op \in {"acquire", "update", "release"} : Call(n, op)
  \/ CommitLate \/ ExpireKeys \/ Expire \/ Tick

Spec == Init /\ [][Next]_vars

-----------------------------------------------------------------------------
Owner == server.key.owner
Sure == {n \in Nodes : client[n].sure > 0}

Contract == INSTANCE LeaderKey WITH owner <- Owner, sure <- Sure

(* The key passes from node to node only by being free in between, and is   *)
(* not freed under a node whose last answer still vouches for it.           *)
KeyImplemented == Contract!KeySpec
=============================================================================
