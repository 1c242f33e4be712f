--------------------------- MODULE QuorumResolver ---------------------------
(***************************************************************************)
(* The QuorumStateResolver of patroni/quorum.py: a pure function from the  *)
(* state of the /sync key, of synchronous_standby_names and of the         *)
(* replication connections to the list of changes that takes the system to *)
(* the desired replication state.                                          *)
(*                                                                         *)
(* Node names are numbers, because the code breaks ties by sorted name.    *)
(*                                                                         *)
(* The Python generator mutates the resolver and yields transitions; here  *)
(* each of its methods is an operator from a resolver state q to the state *)
(* it leaves.  q.out collects what the caller gets to see.  q.halt says    *)
(* how the generator ended early: "return", a QuorumError, or a failed     *)
(* assertion.  A halted state is passed through unchanged, as an exception *)
(* would be.                                                               *)
(***************************************************************************)
EXTENDS Integers, FiniteSets, Sequences, SequencesExt

Halts == {"no", "return", "error", "assert"}

Transition(type, leader, num, names) ==
  [type |-> type, leader |-> leader, num |-> num, names |-> names]

(* The constructor: numsync is never larger than the set it counts in. *)
Resolver(leader, quorum, voters, numsync, sync, confirmed, active, wanted, me) ==
  [leader |-> leader, quorum |-> quorum, voters |-> voters,
   numsync |-> Min({numsync, Cardinality(sync)}), sync |-> sync,
   confirmed |-> confirmed, active |-> active, wanted |-> wanted, me |-> me,
   out |-> <<>>, halt |-> "no"]

(* check_invariants(): every set of nodes that can acknowledge a commit    *)
(* meets every set of nodes that can elect a leader, and while the two     *)
(* places are changed one after another one set contains the other.        *)
CheckInvariants(q) ==
  LET voters == q.voters \cup {q.leader}
      sync   == q.sync \cup {q.me}
  IN /\ q.voters # {} => Cardinality(voters \cup sync) <= q.quorum + q.numsync + 1
     /\ voters \subseteq sync \/ sync \subseteq voters

Halt(q, how) == [q EXCEPT !.halt = how]

Assert_(q, cond) == IF q.halt = "no" /\ ~cond THEN Halt(q, "assert") ELSE q

(* __iter__(): of consecutive transitions of one type only the last is     *)
(* taken, and the caller starts again at the first "restart".              *)
Emit(out, t) ==
  IF out = <<>> THEN <<t>>
  ELSE IF out[Len(out)].type = "restart" THEN out
  ELSE IF out[Len(out)].type = t.type THEN [out EXCEPT ![Len(out)] = t]
  ELSE Append(out, t)

(* Emit t from the new state q, or raise when q breaks the invariants. *)
Yield(q, t) ==
  IF CheckInvariants(q) THEN [q EXCEPT !.out = Emit(@, t)] ELSE Halt(q, "error")

(* The tail of quorum_update(): no change is silent while there are voters *)
(* and otherwise yields a hint to re-read the state before the key itself. *)
StoreQuorum(q, leader, quorum, voters) ==
  LET same == <<leader, quorum, voters>> = <<q.leader, q.quorum, q.voters>>
      hint == Transition("restart", q.leader, q.quorum, q.voters)
      new  == [q EXCEPT !.leader = leader, !.quorum = quorum, !.voters = voters,
                        !.out = IF same THEN Emit(@, hint) ELSE @]
  IN IF same /\ q.voters # {}
     THEN q
     ELSE Yield(new, Transition("quorum", leader, quorum, voters))

BadQuorum(quorum, voters) ==
  quorum < 0 \/ (quorum > 0 /\ quorum >= Cardinality(voters))

(* quorum_update() without a change of leader. *)
QuorumUpdate(q, quorum, voters, adjust) ==
  IF q.halt # "no" THEN q
  ELSE IF BadQuorum(quorum, voters) THEN Halt(q, "error")
  ELSE IF q.confirmed = 0 /\ q.voters = {} THEN StoreQuorum(q, q.leader, 0, {})
  ELSE StoreQuorum(q, q.leader,
                   quorum + (IF adjust THEN Max({q.numsync - q.confirmed, 0}) ELSE 0),
                   voters)

(* quorum_update() with a new leader: nothing is adjusted. *)
LeaderUpdate(q, quorum, voters, leader) ==
  IF q.halt # "no" THEN q
  ELSE IF BadQuorum(quorum, voters) THEN Halt(q, "error")
  ELSE StoreQuorum(q, leader, quorum, voters)

SyncUpdate(q, numsync, sync) ==
  IF q.halt # "no" THEN q
  ELSE IF numsync < 0 \/ numsync > Cardinality(sync) THEN Halt(q, "error")
  ELSE Yield([q EXCEPT !.numsync = numsync, !.sync = sync],
             Transition("sync", q.leader, numsync, sync))

(* sorted(S)[:k] and sorted(S, reverse=True)[:k], as sets. *)
First(S, k) == {n \in S : Cardinality({m \in S : m < n}) < k}
Last_(S, k) == {n \in S : Cardinality({m \in S : m > n}) < k}

-----------------------------------------------------------------------------
(* Case 1: an interrupted change left voters a strict superset of sync. *)
SyncIsSubset(q) ==
  LET gone == q.voters \ (q.sync \cup q.active)
      q1 == IF gone = {} THEN q
            ELSE QuorumUpdate(q, Cardinality(q.voters) - Cardinality(gone) - q.numsync,
                              q.voters \ gone, q.sync \subseteq q.active)
      new == (q1.voters \cap q1.active) \ q1.sync
  IN IF new = {} THEN q1 ELSE SyncUpdate(q1, q1.numsync, q1.sync \cup new)

(* Mutant of SyncIsSuperset: dead nodes stay listed. *)
SupersetKeepsDead(q) ==
  LET new == (q.sync \ q.voters) \cap q.active
  IN IF new = {} THEN q
     ELSE QuorumUpdate(q, Cardinality(q.voters \cup new) - q.numsync,
                       q.voters \cup new, TRUE)

(* Case 2: an interrupted change left sync a strict superset of voters. *)
SyncIsSuperset(q) ==
  LET gone == q.sync \ q.active
      left == q.sync \ gone
      q1 == IF gone # {} /\ left # {} /\ (q.voters = {} \/ left \cap q.voters # {})
            THEN SyncUpdate(q, Min({q.numsync, Cardinality(left)}), left)
            ELSE q
      new == (q1.sync \ q1.voters) \cap q1.active
      q2 == IF new = {} THEN q1
            ELSE QuorumUpdate(q1, Cardinality(q1.voters \cup new) - q1.numsync,
                              q1.voters \cup new, TRUE)
      dead == q2.sync \ q2.voters
  IN IF dead = {} THEN q2
     ELSE SyncUpdate(q2, Min({q2.numsync, Cardinality(q2.sync) - Cardinality(dead)}),
                     q2.sync \ dead)

(* Cases 3 and 4: the replication factor was being changed. *)
ReplicationFactorInFlight(q) ==
  LET nodes  == Cardinality(q.voters \cup q.sync)
      margin == q.quorum + Min({q.numsync, q.confirmed}) - nodes
  IN IF margin > 0
     THEN IF q.numsync > q.wanted
          THEN SyncUpdate(q, Max({q.wanted, Cardinality(q.voters) - q.quorum}), q.sync)
          ELSE QuorumUpdate(q, Cardinality(q.sync) - q.numsync, q.voters, TRUE)
     ELSE IF /\ q.numsync = q.wanted
             /\ q.quorum + q.numsync - nodes > 0
             /\ q.numsync > q.confirmed
          THEN QuorumUpdate(q, Cardinality(q.sync) - q.numsync, q.voters, TRUE)
          ELSE q

HandleNonSteadyCases(q) ==
  LET q1 == CASE q.sync \subseteq q.voters /\ q.sync # q.voters -> SyncIsSubset(q)
              [] q.voters \subseteq q.sync /\ q.sync # q.voters -> SyncIsSuperset(q)
              [] OTHER -> q
  IN ReplicationFactorInFlight(Assert_(q1, q1.voters = q1.sync))

(* Nodes are removed from sync before voters, unless none would be left. *)
RemoveAllNodes(q) == SyncUpdate(QuorumUpdate(q, 0, {}, FALSE), 0, {})

ReduceQuorumFirst(q, gone) ==
  LET remove  == Last_(gone, q.quorum)
      sync    == q.sync \ remove
      numsync == Min({IF q.wanted > q.numsync THEN q.wanted ELSE q.numsync,
                      Cardinality(sync)})
      q1      == SyncUpdate(q, numsync, sync)
      voters  == q1.voters \ remove
  IN QuorumUpdate(q1, Cardinality(voters) - q1.numsync, voters, gone \cap q1.sync = {})

ReduceSync(q, gone) ==
  LET numsync  == q.numsync - Cardinality(gone)
      sync     == q.sync \ gone
      voters   == q.voters \ gone
      decrease == numsync - Min({q.wanted, Cardinality(sync)})
      quorum   == IF decrease = 0 THEN 0 ELSE Min({decrease, Cardinality(voters) - 1})
  IN SyncUpdate(QuorumUpdate(Assert_(q, q.quorum = 0), quorum, voters, FALSE),
                numsync, sync)

RemoveGoneNodes(q) ==
  LET gone == q.sync \ q.active
      q1   == IF q.quorum = 0 THEN q ELSE ReduceQuorumFirst(q, gone)
      rest == IF q.quorum = 0 THEN gone ELSE gone \cap q1.sync
  IN CASE gone = {} -> q
       [] gone # {} /\ gone = q.sync -> RemoveAllNodes(q)
       [] gone # {} /\ gone # q.sync -> IF rest = {} THEN q1 ELSE ReduceSync(q1, rest)

(* How much new nodes raise numsync, which starts at 0 with an empty list. *)
RaiseBy(q, wanted, add) ==
  IF q.sync = {} THEN wanted - q.numsync ELSE Cardinality(add)

(* New nodes first fill the replication factor, the others join voters first. *)
AddNewNodes(q) ==
  LET new    == q.active \ q.sync
      wanted == Min({q.wanted, Cardinality(q.sync \cup new)})
      add    == IF q.sync = {} THEN new ELSE First(new, wanted - q.numsync)
      q1     == IF wanted > q.numsync
                THEN QuorumUpdate(SyncUpdate(q, q.numsync + RaiseBy(q, wanted, add),
                                             q.sync \cup add),
                                  Cardinality(q.voters \cup add) - wanted,
                                  q.voters \cup add, TRUE)
                ELSE q
      rest   == new \ q1.sync
      voters == q1.voters \cup rest
      q2     == QuorumUpdate(q1, Cardinality(voters) - wanted, voters, wanted > q1.confirmed)
  IN IF new = {} \/ rest = {}
     THEN IF new = {} THEN q ELSE q1
     ELSE SyncUpdate(q2, wanted, q2.sync \cup rest)

(* Mutant of HandleReplicationFactorChange: never lowers the factor. *)
OnlyRaiseFactor(q) ==
  LET increase == Min({q.wanted, Cardinality(q.sync)}) - q.numsync
      up == SyncUpdate(q, q.numsync + increase, q.sync)
  IN IF increase > 0
     THEN QuorumUpdate(up, Cardinality(up.voters) - up.numsync, up.voters, TRUE)
     ELSE q

HandleReplicationFactorChange(q) ==
  LET increase == Min({q.wanted, Cardinality(q.sync)}) - q.numsync
      up == SyncUpdate(q, q.numsync + increase, q.sync)
      down == IF q.quorum - increase < Cardinality(q.voters)
              THEN QuorumUpdate(q, Cardinality(q.voters) - q.numsync - increase, q.voters,
                                q.wanted > q.confirmed)
              ELSE q
  IN CASE increase > 0 ->
            QuorumUpdate(up, Cardinality(up.voters) - up.numsync, up.voters, TRUE)
       [] increase < 0 -> SyncUpdate(down, down.numsync + increase, down.sync)
       [] increase = 0 -> q

-----------------------------------------------------------------------------
(* The failover branch: the old leader joins the voters of the new one. *)
TakeOver(q) ==
  LET voters == (q.voters \ {q.me}) \cup {q.leader}
      q1 == IF q.sync # {} THEN q
            ELSE SyncUpdate(q, Cardinality(voters) - q.quorum, voters)
      q2 == LeaderUpdate(q1, q1.quorum, voters, q1.me)
  IN IF q2.halt = "no" /\ q2.sync \cap q2.active = {} THEN Halt(q2, "return") ELSE q2

(* A QuorumError up to here is answered by resetting the key from sync. *)
RecoverFromError(q) ==
  IF q.halt = "error"
  THEN QuorumUpdate(Halt(q, "no"), Cardinality(q.sync) - q.numsync, q.sync, TRUE)
  ELSE q

(* After a restart or failover nothing is confirmed: derive it from quorum. *)
AssumeConfirmed(q) ==
  IF q.halt = "no" /\ q.confirmed = 0 /\ q.sync \cap q.active # {}
  THEN [q EXCEPT !.confirmed = Min({Cardinality(q.sync \cap q.active),
                                    Cardinality(q.voters) - q.quorum})]
  ELSE q

GenerateTransitions(q) ==
  LET q1 == IF q.me # q.leader THEN TakeOver(q)
            ELSE IF CheckInvariants(q) THEN q ELSE Halt(q, "error")
      q2 == RecoverFromError(q1)
      q3 == AssumeConfirmed(Assert_(q2, q2.leader = q2.me))
  IN IF q3.halt # "no" THEN q3
     ELSE HandleReplicationFactorChange(AddNewNodes(RemoveGoneNodes(
            HandleNonSteadyCases(q3))))

Raised(q) == q.halt \in {"error", "assert"}

(* What a caller iterating over the resolver sees. *)
Transitions(q) ==
  LET r == GenerateTransitions(q) IN IF Raised(r) THEN <<>> ELSE r.out
=============================================================================
