-------------------------- MODULE QuorumCommitProofs --------------------------
(* The two places quorum commit keeps in agreement, the /sync key and       *)
(* synchronous_standby_names, overlap in every reachable state: for any     *)
(* number of members and whatever is interrupted, restarted or failed over. *)
(* In strict mode, a list that commits wait for is never emptied.           *)
EXTENDS QuorumCommit, QuorumResolverProofs

(* Where a cycle starts: what the resolver is constructed from.             *)
Places ==
  [me |-> primary,
   key |-> [leader |-> sync.leader, num |-> sync.quorum, names |-> sync.voters],
   list |-> [num |-> Min({ssn.num, Cardinality(ssn.names)}), names |-> ssn.names]]

(* What the overlap depends on: nobody is listed twice, and no list that    *)
(* names somebody is without effect.                                        *)
PlacesOK ==
  /\ primary \in Nodes /\ active \subseteq Nodes \ {primary}
  /\ sync.leader \in 0..N /\ sync.quorum \in Nat /\ sync.voters \subseteq Nodes \ {sync.leader}
  /\ ssn.num \in Nat /\ ssn.names \subseteq Nodes \ {primary}
  /\ ssn.names # {} => ssn.num >= 1
  /\ wanted \in Nat \ {0} /\ minSync \in {0, 1}

(* The inductive invariant: what the running cycle has yet to apply is      *)
(* sound from where the places are now.                                     *)
OverlapInv ==
  /\ PlacesOK
  /\ QuorumsOverlap
  /\ todo \in Seq(TransitionType(Nodes, primary)) /\ Sound(Places, todo)

(* The nodes of the cluster are finitely many numbers.                      *)
LEMMA NodesFinite ==
  /\ IsFiniteSet(Nodes) /\ Nodes \subseteq Int
  /\ \A S \in SUBSET Nodes : /\ IsFiniteSet(S) /\ Cardinality(S) \in Nat
                             /\ S # {} => Cardinality(S) >= 1
  <1>1. IsFiniteSet(Nodes) /\ Nodes \subseteq Int
    BY NodesAssumption, FS_Interval DEF Nodes
  <1>2. ASSUME NEW S \in SUBSET Nodes
        PROVE  IsFiniteSet(S) /\ Cardinality(S) \in Nat /\ (S # {} => Cardinality(S) >= 1)
    <2>1. IsFiniteSet(S)
      BY <1>1, FS_Subset
    <2>2. Cardinality(S) \in Nat /\ (Cardinality(S) = 0 <=> S = {})
      BY <2>1, FS_CardinalityType, FS_EmptySet
    <2>3. QED BY <2>1, <2>2
  <1>3. QED BY <1>1, <1>2

(* The invariant is about the places as the resolver sees them.             *)
LEMMA OverlapIsOverlaps ==
  QuorumsOverlap <=> Overlaps(primary, Places.key, Places.list)
  <1>1. Members(sync) \cup ssn.names \cup {primary}
          = (sync.voters \cup {sync.leader}) \cup (ssn.names \cup {primary})
    BY DEF Members
  <1>2. /\ Places.key.leader = sync.leader /\ Places.key.num = sync.quorum
        /\ Places.key.names = sync.voters /\ Places.list.names = ssn.names
        /\ Places.list.num = Min({ssn.num, Cardinality(ssn.names)})
    BY DEF Places
  <1>3. QED BY <1>1, <1>2 DEF QuorumsOverlap, Overlaps

(* An empty synchronous_standby_names waits for nobody.                     *)
LEMMA NoneListed ==
  Min({0, Cardinality({})}) = 0
  <1>1. Cardinality({}) = 0
    BY FS_EmptySet
  <1>2. QED BY <1>1, MinOfTwo

(* The list counts what PostgreSQL waits for.                               *)
LEMMA ListNum ==
  ASSUME PlacesOK
  PROVE  /\ Places.list.num \in Nat
         /\ Places.list.num = 0 <=> ssn.names = {}
  <1> DEFINE n == Cardinality(ssn.names)
  <1>1. n \in Nat /\ (ssn.names # {} => n >= 1) /\ (ssn.names = {} => n = 0)
    BY NodesFinite, FS_EmptySet DEF PlacesOK
  <1>2. Places.list.num = Min({ssn.num, n})
    BY DEF Places
  <1>3. ssn.num \in Nat /\ (ssn.names # {} => ssn.num >= 1)
    BY DEF PlacesOK
  <1> HIDE DEF n
  <1>4. Places.list.num = IF ssn.num <= n THEN ssn.num ELSE n
    BY <1>1, <1>2, <1>3, MinOfTwo
  <1>5. QED BY <1>1, <1>3, <1>4

(* What the three places say is a state the resolver may start from.        *)
LEMMA PlacesStart ==
  ASSUME PlacesOK, sync.leader # 0
  PROVE  IsStart(Nodes, Places)
  <1>1. Places.list.num \in Nat /\ (Places.list.num = 0 <=> ssn.names = {})
    BY ListNum
  <1>2. /\ Places.me = primary /\ Places.key.leader = sync.leader
        /\ Places.key.num = sync.quorum /\ Places.key.names = sync.voters
        /\ Places.list.names = ssn.names
    BY DEF Places
  <1>3. sync.leader \in Nodes
    BY DEF PlacesOK, Nodes
  <1>4. QED BY <1>1, <1>2, <1>3, NodesFinite DEF IsStart, PlacesOK

(* A list of S with at least |S| - quorum standbys overlaps with a key of   *)
(* that quorum whose members are in S or the primary.                       *)
LEMMA SatisfiesKey ==
  ASSUME NEW S \in SUBSET Nodes, NEW c \in Nodes, c \notin S, NEW quorum \in Nat,
         NEW least \in {0, 1}, NEW num, num = Max({Cardinality(S) - quorum, least})
  PROVE  /\ num \in Nat
         /\ Cardinality(S \cup {c}) <= quorum + Min({num, Cardinality(S)}) + 1
         /\ num = 0 => Cardinality(S \cup {c}) <= quorum + 0 + 1
  <1> DEFINE n == Cardinality(S)
             d == n - quorum
  <1>1. n \in Nat /\ Cardinality(S \cup {c}) = n + 1
    BY NodesFinite, FS_AddElement
  <1>2. d \in Int /\ d = n - quorum /\ least \in Int
    BY <1>1
  <1>3. num = Max({d, least})
    OBVIOUS
  <1> HIDE DEF n, d
  <1>4. num = IF d >= least THEN d ELSE least
    BY <1>2, <1>3, MaxOfTwo
  <1>5. num \in Nat /\ num >= d
    BY <1>2, <1>4
  <1>6. Min({num, n}) = IF num <= n THEN num ELSE n
    <2>1. num \in Int /\ n \in Int
      BY <1>1, <1>5
    <2>2. QED BY <2>1, MinOfTwo
  <1>7. /\ n + 1 <= quorum + Min({num, n}) + 1
        /\ num = 0 => n + 1 <= quorum + 0 + 1
    BY <1>1, <1>2, <1>5, <1>6
  <1>8. QED BY <1>1, <1>5, <1>7 DEF n

-------------------------------------------------------------------------------
(* Steps that leave both places alone, and at most drop the rest of a cycle. *)
LEMMA QuietStep ==
  ASSUME OverlapInv, UNCHANGED <<sync, ssn, primary, minSync>>,
         todo' = todo \/ todo' = <<>>,
         active' \subseteq Nodes \ {primary}, wanted' \in Nat \ {0}
  PROVE  OverlapInv'
  <1>1. PlacesOK'
    BY DEF OverlapInv, PlacesOK
  <1>2. QuorumsOverlap'
    BY DEF OverlapInv, QuorumsOverlap, Members
  <1>3. Places' = Places
    BY DEF Places
  <1>4. todo' \in Seq(TransitionType(Nodes, primary'))
    BY EmptySeq DEF OverlapInv
  <1>5. Sound(Places', todo')
    BY <1>3, NothingEmitted DEF OverlapInv
  <1>6. QED BY <1>1, <1>2, <1>4, <1>5 DEF OverlapInv

(* Turning synchronous mode on writes an empty /sync: nothing is promised   *)
(* yet.                                                                     *)
LEMMA EnableSyncStep ==
  ASSUME OverlapInv, EnableSync
  PROVE  OverlapInv'
  <1>1. PlacesOK'
    BY DEF OverlapInv, PlacesOK, EnableSync, Nodes
  <1>2. QuorumsOverlap'
    BY DEF EnableSync, QuorumsOverlap
  <1>3. todo' = <<>> /\ primary' = primary
    BY DEF EnableSync
  <1>4. QED BY <1>1, <1>2, <1>3, EmptySeq, NothingEmitted DEF OverlapInv

(* The list that keeps satisfying the key while there are too few standbys. *)
LEMMA StrictCycleStep ==
  ASSUME OverlapInv, StrictCycle
  PROVE  OverlapInv'
  <1> DEFINE num == Max({minSync, Cardinality(sync.voters) - sync.quorum})
  <1>1. /\ sync.leader = primary /\ sync' = sync /\ primary' = primary /\ active' = active
        /\ wanted' = wanted /\ minSync' = minSync /\ todo' = <<>>
        /\ ssn' = Accepted(ssn, [num |-> num, names |-> sync.voters])
    BY DEF StrictCycle, StrictMode, SetSsn
  <1>2. /\ sync.voters \in SUBSET Nodes /\ primary \in Nodes /\ primary \notin sync.voters
        /\ sync.quorum \in Nat /\ minSync \in {0, 1}
    BY <1>1 DEF OverlapInv, PlacesOK
  <1>3. num = Max({Cardinality(sync.voters) - sync.quorum, minSync})
    <2>1. {minSync, Cardinality(sync.voters) - sync.quorum}
            = {Cardinality(sync.voters) - sync.quorum, minSync}
      OBVIOUS
    <2>2. QED BY <2>1
  <1> HIDE DEF num
  <1>4. /\ num \in Nat
        /\ Cardinality(sync.voters \cup {primary})
             <= sync.quorum + Min({num, Cardinality(sync.voters)}) + 1
    BY <1>2, <1>3, SatisfiesKey
  <1>5. CASE ssn' = ssn
    <2>1. active' \subseteq Nodes \ {primary} /\ wanted' \in Nat \ {0}
      BY <1>1 DEF OverlapInv, PlacesOK
    <2>2. QED BY <1>1, <1>5, <2>1, QuietStep
  <1>6. CASE ssn' # ssn
    <2>1. ssn' = [num |-> num, names |-> sync.voters] /\ (sync.voters # {} => num # 0)
      BY <1>1, <1>6 DEF Accepted
    <2>2. PlacesOK'
      BY <1>1, <1>2, <1>4, <2>1 DEF OverlapInv, PlacesOK
    <2>3. Members(sync) \cup sync.voters \cup {primary} = sync.voters \cup {primary}
      BY <1>1 DEF Members
    <2>4. QuorumsOverlap'
      <3>1. (Members(sync) \cup ssn.names \cup {primary})' = sync.voters \cup {primary}
        BY <1>1, <2>1, <2>3 DEF Members
      <3>2. /\ ssn.num' = num /\ ssn.names' = sync.voters /\ sync.quorum' = sync.quorum
        BY <1>1, <2>1
      <3>3. QED BY <1>4, <3>1, <3>2 DEF QuorumsOverlap
    <2>5. QED BY <1>1, <2>2, <2>4, EmptySeq, NothingEmitted DEF OverlapInv
  <1>7. QED BY <1>5, <1>6

(* The list a new primary starts with.                                      *)
LEMMA FailoverStep ==
  ASSUME OverlapInv, NEW c \in Nodes, Failover(c)
  PROVE  OverlapInv'
  <1> DEFINE S == Members(sync) \ {c}
             numsync == Cardinality(Members(sync)) - sync.quorum
                          - (IF c \in Members(sync) THEN 1 ELSE 0)
             num == Max({numsync, minSync})
  <1>1. /\ sync.leader # 0 /\ sync' = sync /\ primary' = c /\ active' = {}
        /\ wanted' = wanted /\ minSync' = minSync /\ todo' = <<>>
        /\ ssn' = Accepted(EmptySsn, [num |-> num, names |-> S])
    BY DEF Failover, PrepromoteSsn
  <1>2. /\ Members(sync) \in SUBSET Nodes /\ S \in SUBSET Nodes /\ c \notin S
        /\ sync.quorum \in Nat /\ minSync \in {0, 1}
    BY <1>1 DEF OverlapInv, PlacesOK, Members, Nodes
  <1>3. num = Max({Cardinality(S) - sync.quorum, minSync})
    <2>1. IsFiniteSet(Members(sync)) /\ Cardinality(Members(sync)) \in Nat
      BY <1>2, NodesFinite
    <2>2. Cardinality(S) = Cardinality(Members(sync)) - (IF c \in Members(sync) THEN 1 ELSE 0)
      <3>1. CASE c \in Members(sync)
        BY <2>1, <3>1, FS_RemoveElement
      <3>2. CASE c \notin Members(sync)
        <4>1. S = Members(sync)
          BY <3>2
        <4>2. Cardinality(S) = Cardinality(Members(sync))
          BY <4>1
        <4> DEFINE n == Cardinality(S)
                   m == Cardinality(Members(sync))
        <4>3. n = m /\ m \in Nat
          BY <2>1, <4>2
        <4> HIDE DEF n, m
        <4>4. n = m - 0
          BY <4>3
        <4>5. QED BY <3>2, <4>4 DEF n, m
      <3>3. QED BY <3>1, <3>2
    <2>3. numsync = Cardinality(S) - sync.quorum
      BY <1>2, <2>1, <2>2
    <2>4. QED BY <2>3
  <1>4. Members(sync) \cup {c} = S \cup {c}
    OBVIOUS
  <1> HIDE DEF S, num
  <1>5. /\ num \in Nat
        /\ Cardinality(S \cup {c}) <= sync.quorum + Min({num, Cardinality(S)}) + 1
        /\ num = 0 => Cardinality(S \cup {c}) <= sync.quorum + 0 + 1
    BY <1>2, <1>3, SatisfiesKey
  <1>6. \/ ssn' = EmptySsn /\ num = 0
        \/ ssn' = [num |-> num, names |-> S] /\ (S # {} => num # 0)
    BY <1>1 DEF Accepted
  <1>7. PlacesOK'
    BY <1>1, <1>2, <1>5, <1>6 DEF OverlapInv, PlacesOK, EmptySsn
  <1>8. QuorumsOverlap'
    <2>1. sync.quorum' = sync.quorum
      BY <1>1
    <2>2. CASE ssn' = EmptySsn /\ num = 0
      <3>1. (Members(sync) \cup ssn.names \cup {primary})' = S \cup {c}
        BY <1>1, <1>4, <2>2 DEF Members, EmptySsn
      <3>2. Min({ssn.num, Cardinality(ssn.names)})' = 0
        <4>1. ssn.num' = 0 /\ ssn.names' = {}
          BY <2>2 DEF EmptySsn
        <4>2. QED BY <4>1, NoneListed
      <3>3. QED BY <1>5, <2>1, <2>2, <3>1, <3>2 DEF QuorumsOverlap
    <2>3. CASE ssn' = [num |-> num, names |-> S]
      <3>1. (Members(sync) \cup ssn.names \cup {primary})' = S \cup {c}
        BY <1>1, <1>4, <2>3 DEF Members
      <3>2. ssn.num' = num /\ ssn.names' = S
        BY <2>3
      <3>3. QED BY <1>5, <2>1, <3>1, <3>2 DEF QuorumsOverlap
    <2>4. QED BY <1>6, <2>2, <2>3
  <1>9. QED BY <1>1, <1>7, <1>8, EmptySeq, NothingEmitted DEF OverlapInv

(* What the resolver is constructed from is what it may be constructed      *)
(* from.                                                                    *)
LEMMA CycleInput ==
  ASSUME OverlapInv, sync.leader # 0
  PROVE  /\ IsInput(Nodes, Places, ResolverInput)
         /\ ResolverInput.active = active /\ ResolverInput.confirmed \in Nat
  <1> DEFINE q == ResolverInput
             confirmed == Cardinality(Refreshed.ready \cap active)
  <1>1. /\ Places.me = primary /\ Places.key.leader = sync.leader
        /\ Places.key.num = sync.quorum /\ Places.key.names = sync.voters
        /\ Places.list.names = ssn.names
        /\ Places.list.num = Min({ssn.num, Cardinality(ssn.names)})
    BY DEF Places
  <1>2. q = [leader |-> sync.leader, quorum |-> sync.quorum, voters |-> sync.voters,
             numsync |-> Places.list.num, sync |-> ssn.names,
             confirmed |-> confirmed, active |-> active, wanted |-> wanted, me |-> primary,
             out |-> <<>>, halt |-> "no"]
    BY <1>1 DEF ResolverInput, Resolver
  <1>3. confirmed \in Nat /\ (active = {} => confirmed = 0)
    <2>1. active \in SUBSET Nodes
      BY DEF OverlapInv, PlacesOK
    <2>2. Refreshed.ready \cap active \in SUBSET Nodes
      BY <2>1
    <2>3. confirmed \in Nat
      BY <2>2, NodesFinite
    <2>4. active = {} => Refreshed.ready \cap active = {}
      OBVIOUS
    <2>5. QED BY <2>3, <2>4, FS_EmptySet
  <1> HIDE DEF q, confirmed
  <1>4. Places.list.num \in Nat
    BY ListNum DEF OverlapInv
  <1>5. /\ sync.leader \in Nodes /\ sync.quorum \in Nat /\ sync.voters \in SUBSET Nodes
        /\ ssn.names \in SUBSET (Nodes \ {primary}) /\ active \in SUBSET (Nodes \ {primary})
        /\ wanted \in Nat \ {0}
    BY DEF OverlapInv, PlacesOK, Nodes
  <1>6. <<>> \in Seq(TransitionType(Nodes, primary))
    BY EmptySeq
  <1>7. q \in ResolverType(Nodes, primary)
    BY <1>2, <1>3, <1>4, <1>5, <1>6 DEF ResolverType, Halts
  <1>8. IsInput(Nodes, Places, q) /\ q.active = active /\ q.confirmed \in Nat
    BY <1>1, <1>2, <1>3, <1>7 DEF IsInput
  <1>9. QED BY <1>8 DEF q

(* A new cycle: the resolver is asked from the places as they are, and with *)
(* nobody left the list is emptied behind its back.                         *)
LEMMA CycleStep ==
  ASSUME OverlapInv, Cycle
  PROVE  OverlapInv'
  <1> DEFINE q == ResolverInput
  <1>1. /\ sync.leader # 0 /\ sync' = sync /\ primary' = primary /\ active' = active
        /\ wanted' = wanted /\ minSync' = minSync /\ todo' = Transitions(q)
        /\ IF NobodyLeft THEN ssn' = Accepted(ssn, [num |-> 0, names |-> {}]) ELSE ssn' = ssn
    BY DEF Cycle, SetSsn
  <1>2. IsStart(Nodes, Places)
    BY <1>1, PlacesStart DEF OverlapInv
  <1>3. /\ Places.me = primary /\ Places.key.leader = sync.leader
        /\ Places.key.num = sync.quorum /\ Places.key.names = sync.voters
        /\ Places.list.names = ssn.names
        /\ Places.list.num = Min({ssn.num, Cardinality(ssn.names)})
    BY DEF Places
  <1>4. IsInput(Nodes, Places, q) /\ q.active = active
    BY <1>1, CycleInput
  <1> HIDE DEF q
  <1>5. /\ todo' \in Seq(TransitionType(Nodes, primary))
        /\ Sound(Places, todo')
        /\ active = {} /\ sync.voters = {} /\ sync.leader = primary => NoVoters(todo')
    <2>1. CASE Raised(GenerateTransitions(q))
      <3>1. todo' = <<>>
        BY <1>1, <2>1 DEF Transitions
      <3>2. QED BY <3>1, EmptySeq, NothingEmitted
    <2>2. CASE ~Raised(GenerateTransitions(q))
      BY <1>1, <1>2, <1>3, <1>4, <2>2, ResolverSound
    <2>3. QED BY <2>1, <2>2
  <1>6. CASE ssn' = ssn
    <2>1. PlacesOK' /\ Places' = Places
      BY <1>1, <1>6 DEF OverlapInv, PlacesOK, Places
    <2>2. QuorumsOverlap'
      BY <1>1, <1>6 DEF OverlapInv, QuorumsOverlap, Members
    <2>3. QED BY <1>1, <1>5, <2>1, <2>2 DEF OverlapInv
  <1>7. CASE ssn' # ssn
    <2>1. /\ active = {} /\ sync.voters = {} /\ sync.leader = primary
          /\ ssn' = [num |-> 0, names |-> {}]
      BY <1>1, <1>7 DEF NobodyLeft, Accepted
    <2>2. PlacesOK'
      BY <1>1, <2>1 DEF OverlapInv, PlacesOK
    <2>3. QuorumsOverlap'
      BY <1>1, <2>1 DEF QuorumsOverlap
    <2>4. /\ Places'.me = Places.me /\ Places'.key = Places.key /\ Places.key.names = {}
      BY <1>1, <2>1 DEF Places
    <2>5. Places'.list.num = 0
      <3>1. Places'.list.num = Min({0, Cardinality({})})
        BY <2>1 DEF Places
      <3>2. QED BY <3>1, NoneListed
    <2>6. NoVoters(todo')
      BY <1>5, <2>1
    <2>7. Sound(Places', todo')
      BY <1>5, <2>4, <2>5, <2>6, NoVotersSound
    <2>8. QED BY <1>1, <1>5, <2>2, <2>3, <2>7 DEF OverlapInv
  <1>8. QED BY <1>6, <1>7

(* The next transition of a sound sequence, and what is left after it.      *)
LEMMA FirstTransition ==
  ASSUME OverlapInv, todo # <<>>
  PROVE  /\ Head(todo) = todo[1] /\ todo[1] \in TransitionType(Nodes, primary)
         /\ SoundAt(Places, todo, 1)
         /\ Tail(todo) \in Seq(TransitionType(Nodes, primary))
         /\ Places.list.num = 0 => Places.list.names = {}
  <1>1. todo \in Seq(TransitionType(Nodes, primary)) /\ Sound(Places, todo)
    BY DEF OverlapInv
  <1>2. Len(todo) \in Nat /\ 1 \in 1..Len(todo)
    BY <1>1, EmptySeq, LenProperties
  <1>3. todo[1] \in TransitionType(Nodes, primary)
    BY <1>1, <1>2, ElementOfSeq
  <1>4. Head(todo) = todo[1] /\ Tail(todo) \in Seq(TransitionType(Nodes, primary))
    BY <1>1, HeadTailProperties
  <1>5. Places.list.names = ssn.names
    BY DEF Places
  <1>6. SoundAt(Places, todo, 1)
    BY <1>1, <1>2 DEF Sound
  <1>7. QED BY <1>3, <1>4, <1>5, <1>6, ListNum DEF OverlapInv

(* The key is written.                                                      *)
LEMMA ApplyQuorumStep ==
  ASSUME OverlapInv, ApplyQuorum
  PROVE  OverlapInv'
  <1> DEFINE t == todo[1]
  <1>1. /\ todo # <<>> /\ Head(todo).type = "quorum" /\ todo' = Tail(todo)
        /\ sync' = [leader |-> Head(todo).leader, quorum |-> Head(todo).num,
                    voters |-> Head(todo).names]
        /\ ssn' = ssn /\ primary' = primary /\ active' = active /\ wanted' = wanted
        /\ minSync' = minSync
    BY DEF ApplyQuorum
  <1>2. /\ Head(todo) = t /\ t \in TransitionType(Nodes, primary)
        /\ SoundAt(Places, todo, 1)
        /\ Tail(todo) \in Seq(TransitionType(Nodes, primary))
        /\ Places.list.num = 0 => Places.list.names = {}
    BY <1>1, FirstTransition
  <1>3. t.type = "quorum" /\ t.leader = primary /\ Overlaps(primary, t, Places.list)
    <2>1. Places.me = primary
      BY DEF Places
    <2>2. QED BY <1>1, <1>2, <2>1 DEF SoundAt
  <1>4. sync'.leader = t.leader /\ sync'.quorum = t.num /\ sync'.voters = t.names
    BY <1>1, <1>2
  <1>5. t.num \in Nat /\ t.names \subseteq Nodes \ {primary} /\ primary \in 0..N
    BY <1>2 DEF TransitionType, OverlapInv, PlacesOK, Nodes
  <1> HIDE DEF t
  <1>6. PlacesOK'
    BY <1>1, <1>3, <1>4, <1>5 DEF OverlapInv, PlacesOK
  <1>7. /\ Places'.me = Places.me /\ Places'.list = Places.list
        /\ Places'.key.leader = t.leader /\ Places'.key.num = t.num /\ Places'.key.names = t.names
        /\ Places.me = primary
    BY <1>1, <1>4 DEF Places
  <1>8. QuorumsOverlap'
    <2>1. Overlaps(primary', Places'.key, Places'.list)
      BY <1>1, <1>3, <1>7 DEF Overlaps
    <2>2. (QuorumsOverlap <=> Overlaps(primary, Places.key, Places.list))'
      BY OverlapIsOverlaps, PTL
    <2>3. QED BY <2>1, <2>2
  <1>9. Carried(Places, t, Places')
    BY <1>3, <1>7 DEF Carried
  <1>10. Sound(Places', Tail(todo))
    BY <1>1, <1>2, <1>5, <1>7, <1>9, TailSound, NodesFinite DEF OverlapInv, PlacesOK, t
  <1>11. QED BY <1>1, <1>2, <1>6, <1>8, <1>10 DEF OverlapInv

(* The list is written, or refused by PostgreSQL.                           *)
LEMMA ApplySyncStep ==
  ASSUME OverlapInv, ApplySync
  PROVE  OverlapInv'
  <1> DEFINE t == todo[1]
  <1>1. /\ todo # <<>> /\ Head(todo).type = "sync" /\ todo' = Tail(todo)
        /\ ssn' = Accepted(ssn, [num |-> Head(todo).num, names |-> Head(todo).names])
        /\ sync' = sync /\ primary' = primary /\ active' = active /\ wanted' = wanted
        /\ minSync' = minSync
    BY DEF ApplySync, SetSsn
  <1>2. /\ Head(todo) = t /\ t \in TransitionType(Nodes, primary)
        /\ SoundAt(Places, todo, 1)
        /\ Tail(todo) \in Seq(TransitionType(Nodes, primary))
        /\ Places.list.num = 0 => Places.list.names = {}
    BY <1>1, FirstTransition
  <1>3. t.type = "sync" /\ Overlaps(primary, Places.key, t)
    <2>1. Places.me = primary
      BY DEF Places
    <2>2. QED BY <1>1, <1>2, <2>1 DEF SoundAt
  <1>4. t.num \in Nat /\ t.names \subseteq Nodes \ {primary}
    BY <1>2 DEF TransitionType
  <1>5. \/ ssn' = ssn /\ t.num = 0 /\ t.names # {}
        \/ ssn' = [num |-> t.num, names |-> t.names] /\ (t.names # {} => t.num # 0)
    BY <1>1, <1>2 DEF Accepted
  <1> HIDE DEF t
  <1>6. PlacesOK'
    BY <1>1, <1>4, <1>5 DEF OverlapInv, PlacesOK
  <1>7. Places'.me = Places.me /\ Places'.key = Places.key /\ Places.me = primary
    BY <1>1 DEF Places
  <1>8. CASE ssn' = ssn /\ t.num = 0 /\ t.names # {}
    <2>1. Places' = Places
      BY <1>1, <1>8 DEF Places
    <2>2. Carried(Places, t, Places')
      BY <1>3, <1>8, <2>1 DEF Carried
    <2>3. Sound(Places', Tail(todo))
      BY <1>1, <1>2, <1>7, <2>2, TailSound, NodesFinite DEF OverlapInv, PlacesOK, t
    <2>4. QuorumsOverlap'
      BY <1>1, <1>8 DEF OverlapInv, QuorumsOverlap, Members
    <2>5. QED BY <1>1, <1>2, <1>6, <2>3, <2>4 DEF OverlapInv
  <1>9. CASE ssn' = [num |-> t.num, names |-> t.names]
    <2>1. Places'.list.names = t.names /\ Places'.list.num = Min({t.num, Cardinality(t.names)})
      BY <1>9 DEF Places
    <2>2. t.num <= Cardinality(t.names)
      BY <1>1, <1>2 DEF SoundAt, t
    <2>3. Places'.list.num = t.num
      <3> DEFINE n == Cardinality(t.names)
      <3>1. n \in Int /\ t.num \in Int /\ t.num <= n /\ Places'.list.num = Min({t.num, n})
        BY <1>4, <2>1, <2>2, NodesFinite
      <3> HIDE DEF n
      <3>2. QED BY <3>1, MinOfTwo
    <2>4. Carried(Places, t, Places')
      BY <1>3, <1>7, <2>1, <2>3 DEF Carried
    <2>5. Sound(Places', Tail(todo))
      BY <1>1, <1>2, <1>7, <2>4, TailSound, NodesFinite DEF OverlapInv, PlacesOK, t
    <2>6. QuorumsOverlap'
      <3>1. Overlaps(primary', Places'.key, Places'.list)
        BY <1>1, <1>3, <1>7, <2>1, <2>3 DEF Overlaps
      <3>2. (QuorumsOverlap <=> Overlaps(primary, Places.key, Places.list))'
        BY OverlapIsOverlaps, PTL
      <3>3. QED BY <3>1, <3>2
    <2>7. QED BY <1>1, <1>2, <1>6, <2>5, <2>6 DEF OverlapInv
  <1>10. QED BY <1>5, <1>8, <1>9

-------------------------------------------------------------------------------
(* Before the first leader there is nothing to overlap.                     *)
LEMMA OverlapInit ==
  Init => OverlapInv
  <1> SUFFICES ASSUME Init PROVE OverlapInv
    OBVIOUS
  <1>1. wanted \in Nat \ {0} /\ minSync \in {0, 1}
    BY ConfigAssumption DEF Init
  <1>2. primary \in Nodes /\ 0 \in 0..N
    BY NodesAssumption DEF Init, Nodes
  <1>3. PlacesOK
    BY <1>1, <1>2 DEF Init, PlacesOK, EmptySsn
  <1>4. QuorumsOverlap
    BY DEF Init, QuorumsOverlap
  <1>5. todo = <<>>
    BY DEF Init
  <1>6. QED BY <1>3, <1>4, <1>5, EmptySeq, NothingEmitted DEF OverlapInv

(* Every step of the cluster keeps the overlap and the soundness of the     *)
(* transitions still to come.                                               *)
LEMMA OverlapNext ==
  OverlapInv /\ [Next]_vars => OverlapInv'
  <1> SUFFICES ASSUME OverlapInv, [Next]_vars PROVE OverlapInv'
    OBVIOUS
  <1>1. active \subseteq Nodes \ {primary} /\ wanted \in Nat \ {0}
    BY DEF OverlapInv, PlacesOK
  <1>2. CASE EnableSync
    BY <1>2, EnableSyncStep
  <1>3. CASE StrictCycle
    BY <1>3, StrictCycleStep
  <1>4. CASE Cycle
    BY <1>4, CycleStep
  <1>5. CASE ApplyQuorum
    BY <1>5, ApplyQuorumStep
  <1>6. CASE ApplySync
    BY <1>6, ApplySyncStep
  <1>7. CASE ApplyRestart \/ Interrupt
    BY <1>1, <1>7, QuietStep DEF ApplyRestart, Interrupt
  <1>8. ASSUME NEW n \in Nodes, Failover(n) PROVE OverlapInv'
    BY <1>8, FailoverStep
  <1>9. ASSUME NEW n \in Nodes, Join(n) PROVE OverlapInv'
    <2>1. active' \subseteq Nodes \ {primary}
      BY <1>1, <1>9 DEF Join
    <2>2. QED BY <1>1, <1>9, <2>1, QuietStep DEF Join
  <1>10. ASSUME NEW n \in Nodes, Leave(n) PROVE OverlapInv'
    <2>1. active' \subseteq Nodes \ {primary}
      BY <1>1, <1>10 DEF Leave
    <2>2. QED BY <1>1, <1>10, <2>1, QuietStep DEF Leave
  <1>11. ASSUME NEW n \in Nodes, PatroniRestart(n) PROVE OverlapInv'
    <2>1. todo' = todo \/ todo' = <<>>
      BY <1>11 DEF PatroniRestart
    <2>2. QED BY <1>1, <1>11, <2>1, QuietStep DEF PatroniRestart
  <1>12. ASSUME NEW k \in NodeCounts, Resize(k) PROVE OverlapInv'
    <2>1. wanted' \in Nat \ {0}
      BY <1>12, ConfigAssumption DEF Resize
    <2>2. QED BY <1>1, <1>12, <2>1, QuietStep DEF Resize
  <1>13. CASE Database
    <2>1. UNCHANGED <<sync, ssn, primary, minSync, todo, active, wanted>>
      BY <1>13 DEF Database, Write, Replicate, Acknowledge
    <2>2. QED BY <1>1, <2>1, QuietStep
  <1>14. CASE UNCHANGED vars
    <2>1. UNCHANGED <<sync, ssn, primary, minSync, todo, active, wanted>>
      BY <1>14 DEF vars
    <2>2. QED BY <1>1, <2>1, QuietStep
  <1>15. QED
    BY <1>2, <1>3, <1>4, <1>5, <1>6, <1>7, <1>8, <1>9, <1>10, <1>11, <1>12, <1>13, <1>14
    DEF Next, System, Environment

(* check_invariants() holds of the places themselves between any two writes *)
(* of _process_quorum_replication(), for every number of nodes: what can    *)
(* acknowledge a commit meets what can elect a leader.                      *)
THEOREM PlacesOverlap == Spec => []QuorumsOverlap
  <1>1. OverlapInv => QuorumsOverlap
    BY DEF OverlapInv
  <1>2. QED BY <1>1, OverlapInit, OverlapNext, PTL DEF Spec

-------------------------------------------------------------------------------
(* Strict mode. *)

(* In the /sync key of another leader, which a failover leaves behind, the  *)
(* new primary has all other members on its list, and writes the key first. *)
Inherited ==
  sync.leader \notin {0, primary} =>
    /\ ssn.names = Members(sync) \ {primary} /\ ssn.num >= 1
    /\ todo # <<>> => todo[1].type = "quorum"

(* The inductive invariant: nothing that the running cycle has yet to apply *)
(* empties the list, and a key without voters has quorum 0.                 *)
StrictInv ==
  minSync > 0 =>
    /\ sync.voters = {} => sync.quorum = 0
    /\ NamesSomebody(todo) /\ PlainKeys(todo)
    /\ Inherited

(* Nothing to do.                                                           *)
LEMMA NothingToDo ==
  NamesSomebody(<<>>) /\ PlainKeys(<<>>)
  BY DEF NamesSomebody, PlainKeys

(* The rest of what is to do is no worse.                                   *)
LEMMA RestToDo ==
  ASSUME NEW T, NEW out \in Seq(T), out # <<>>, NamesSomebody(out), PlainKeys(out)
  PROVE  NamesSomebody(Tail(out)) /\ PlainKeys(Tail(out))
  <1>1. /\ Len(out) \in Nat /\ Len(Tail(out)) = Len(out) - 1
        /\ \A i \in 1..Len(Tail(out)) : Tail(out)[i] = out[i + 1]
    BY HeadTailProperties, LenProperties
  <1>2. \A i \in 1..Len(Tail(out)) : i + 1 \in 1..Len(out)
    BY <1>1
  <1>3. QED BY <1>1, <1>2 DEF NamesSomebody, PlainKeys

(* Steps that leave both places alone, and at most drop the rest of a cycle. *)
LEMMA QuietStrict ==
  ASSUME StrictInv, UNCHANGED <<sync, ssn, primary, minSync>>, todo' = todo \/ todo' = <<>>
  PROVE  StrictInv' /\ (minSync > 0 /\ ssn.num > 0 => ssn'.num > 0)
  <1>1. CASE todo' = todo
    BY <1>1 DEF StrictInv, Inherited, Members, NamesSomebody, PlainKeys
  <1>2. CASE todo' = <<>>
    BY <1>2, NothingToDo DEF StrictInv, Inherited, Members
  <1>3. QED BY <1>1, <1>2

(* The list that keeps satisfying the key requires min_synchronous_nodes at *)
(* least; only the owner of the key gets there.                             *)
LEMMA StrictCycleStrict ==
  ASSUME OverlapInv, StrictInv, StrictCycle
  PROVE  StrictInv' /\ (minSync > 0 /\ ssn.num > 0 => ssn'.num > 0)
  <1> DEFINE num == Max({minSync, Cardinality(sync.voters) - sync.quorum})
  <1>1. /\ sync.leader = primary /\ sync' = sync /\ primary' = primary
        /\ minSync' = minSync /\ todo' = todo
        /\ ssn' = Accepted(ssn, [num |-> num, names |-> sync.voters])
    BY DEF StrictCycle, StrictMode, SetSsn
  <1>2. num \in Int /\ num >= minSync /\ minSync \in {0, 1}
    <2> DEFINE d == Cardinality(sync.voters) - sync.quorum
    <2>1. sync.voters \in SUBSET Nodes /\ sync.quorum \in Nat /\ minSync \in {0, 1}
      BY DEF OverlapInv, PlacesOK
    <2>2. d \in Int /\ minSync \in Int /\ num = Max({minSync, d})
      BY <2>1, NodesFinite
    <2> HIDE DEF d, num
    <2>3. QED BY <2>1, <2>2, MaxOfTwo
  <1> HIDE DEF num
  <1>3. minSync > 0 => ssn'.num = num
    BY <1>1, <1>2 DEF Accepted
  <1>4. StrictInv'
    BY <1>1 DEF StrictInv, Inherited, NamesSomebody, PlainKeys
  <1>5. QED BY <1>2, <1>3, <1>4

(* So does the list a new primary starts with.                              *)
LEMMA FailoverStrict ==
  ASSUME OverlapInv, StrictInv, NEW c \in Nodes, Failover(c)
  PROVE  StrictInv' /\ (minSync > 0 /\ ssn.num > 0 => ssn'.num > 0)
  <1> DEFINE numsync == Cardinality(Members(sync)) - sync.quorum
                          - (IF c \in Members(sync) THEN 1 ELSE 0)
             num == Max({numsync, minSync})
             S == Members(sync) \ {c}
  <1>1. /\ sync' = sync /\ primary' = c /\ minSync' = minSync /\ todo' = <<>>
        /\ ssn' = Accepted(EmptySsn, [num |-> num, names |-> S])
        /\ sync.leader # 0
    BY DEF Failover, PrepromoteSsn
  <1>2. num \in Int /\ num >= minSync /\ minSync \in {0, 1}
    <2>1. Members(sync) \in SUBSET Nodes /\ sync.quorum \in Nat /\ minSync \in {0, 1}
      BY <1>1 DEF OverlapInv, PlacesOK, Members, Nodes
    <2>2. Cardinality(Members(sync)) \in Nat
      BY <2>1, NodesFinite
    <2>3. numsync \in Int /\ minSync \in Int
      BY <2>1, <2>2
    <2> HIDE DEF numsync
    <2>4. QED BY <2>1, <2>3, MaxOfTwo
  <1> HIDE DEF num
  <1>3. minSync > 0 => ssn'.num = num /\ ssn'.names = S
    BY <1>1, <1>2 DEF Accepted
  <1>4. minSync > 0 => ssn'.num >= 1
    BY <1>2, <1>3
  <1>5. StrictInv'
    <2>1. Members(sync)' = Members(sync)
      BY <1>1 DEF Members
    <2>2. QED BY <1>1, <1>3, <1>4, <2>1, NothingToDo DEF StrictInv, Inherited
  <1>6. QED BY <1>2, <1>3, <1>5

(* A new cycle: with standbys there, or from the key of another leader, the *)
(* resolver asks for no empty list.                                         *)
LEMMA CycleStrict ==
  ASSUME OverlapInv, StrictInv, Cycle
  PROVE  StrictInv' /\ (minSync > 0 /\ ssn.num > 0 => ssn'.num > 0)
  <1> DEFINE q == ResolverInput
  <1>1. /\ sync.leader # 0 /\ sync' = sync /\ primary' = primary /\ minSync' = minSync
        /\ todo' = Transitions(q) /\ ~StrictMode /\ (minSync # 0 => ssn' = ssn)
    BY DEF Cycle, NobodyLeft
  <1>2. CASE ~(minSync > 0)
    BY <1>1, <1>2 DEF StrictInv
  <1>3. CASE minSync > 0
    <2>1. /\ minSync = 1 /\ ssn' = ssn
      BY <1>1, <1>3 DEF OverlapInv, PlacesOK
    <2>2. /\ Places.me = primary /\ Places.key.leader = sync.leader
          /\ Places.key.num = sync.quorum /\ Places.key.names = sync.voters
          /\ Places.list.names = ssn.names
          /\ Places.list.num = Min({ssn.num, Cardinality(ssn.names)})
      BY DEF Places
    <2>3. IsStart(Nodes, Places) /\ IsInput(Nodes, Places, q) /\ q.active = active /\ q.confirmed \in Nat
      BY <1>1, PlacesStart, CycleInput DEF OverlapInv
    <2> HIDE DEF q
    <2>4. Served(Places, q)
      <3>1. Places.list.num <= Cardinality(Places.list.names)
        <4> DEFINE n == Cardinality(ssn.names)
        <4>1. n \in Int /\ ssn.num \in Int
          BY NodesFinite DEF OverlapInv, PlacesOK
        <4>2. Places.list.num = Min({ssn.num, n}) /\ Cardinality(Places.list.names) = n
          BY <2>2
        <4> HIDE DEF n
        <4>3. QED BY <4>1, <4>2, MinOfTwo
      <3>2. sync.leader = primary => active # {}
        <4>1. sync.leader = primary => ~(Cardinality(active) < 1)
          BY <1>1, <2>1 DEF StrictMode
        <4>2. QED BY <4>1, FS_EmptySet
      <3>3. ASSUME sync.leader # primary
            PROVE  /\ ssn.names = (sync.voters \cup {sync.leader}) \ {primary}
                   /\ Places.list.num >= 1
        <4>1. ssn.names = Members(sync) \ {primary}
          BY <1>1, <1>3, <3>3 DEF StrictInv, Inherited
        <4>2. ssn.names # {}
          BY <3>3, <4>1 DEF Members
        <4>3. Places.list.num \in Nat /\ Places.list.num # 0
          BY <4>2, ListNum DEF OverlapInv
        <4>4. QED BY <4>1, <4>3 DEF Members
      <3>4. Overlaps(primary, Places.key, Places.list)
        BY OverlapIsOverlaps DEF OverlapInv
      <3>5. QED BY <1>3, <2>2, <2>3, <3>1, <3>2, <3>3, <3>4 DEF Served, StrictInv
    <2>5. /\ NamesSomebody(todo') /\ PlainKeys(todo')
          /\ sync.leader # primary /\ todo' # <<>> => todo'[1].type = "quorum"
      <3>1. CASE Raised(GenerateTransitions(q))
        <4>1. todo' = <<>>
          BY <1>1, <3>1 DEF Transitions
        <4>2. QED BY <4>1, NothingToDo
      <3>2. CASE ~Raised(GenerateTransitions(q))
        BY <1>1, <2>2, <2>3, <2>4, <3>2, ResolverKeepsWaiting DEF KeyFirst
      <3>3. QED BY <3>1, <3>2
    <2>6. Members(sync)' = Members(sync)
      BY <1>1 DEF Members
    <2>7. StrictInv'
      BY <1>1, <1>3, <2>1, <2>5, <2>6 DEF StrictInv, Inherited
    <2>8. QED BY <2>1, <2>7
  <1>4. QED BY <1>2, <1>3

(* The key is written, for the primary itself.                              *)
LEMMA ApplyQuorumStrict ==
  ASSUME OverlapInv, StrictInv, ApplyQuorum
  PROVE  StrictInv' /\ (minSync > 0 /\ ssn.num > 0 => ssn'.num > 0)
  <1>1. /\ todo # <<>> /\ Head(todo).type = "quorum" /\ todo' = Tail(todo)
        /\ sync' = [leader |-> Head(todo).leader, quorum |-> Head(todo).num,
                    voters |-> Head(todo).names]
        /\ ssn' = ssn /\ primary' = primary /\ minSync' = minSync
    BY DEF ApplyQuorum
  <1>2. Head(todo) = todo[1] /\ SoundAt(Places, todo, 1) /\ Places.me = primary
    BY <1>1, FirstTransition DEF Places
  <1>3. todo \in Seq(TransitionType(Nodes, primary)) /\ 1 \in 1..Len(todo)
    BY <1>1, EmptySeq, LenProperties DEF OverlapInv
  <1>4. sync'.leader = primary
    BY <1>1, <1>2 DEF SoundAt
  <1>5. ASSUME minSync > 0
        PROVE  NamesSomebody(todo') /\ PlainKeys(todo') /\ (sync'.voters = {} => sync'.quorum = 0)
    <2>1. NamesSomebody(todo) /\ PlainKeys(todo)
      BY <1>5 DEF StrictInv
    <2>2. NamesSomebody(todo') /\ PlainKeys(todo')
      BY <1>1, <1>3, <2>1, RestToDo
    <2>3. todo[1].names = {} => todo[1].num = 0
      BY <1>1, <1>2, <1>3, <2>1 DEF PlainKeys
    <2>4. QED BY <1>1, <1>2, <2>2, <2>3
  <1>6. QED BY <1>1, <1>4, <1>5 DEF StrictInv, Inherited

(* The list is written: it names somebody, so that a number of 0 is refused *)
(* by PostgreSQL.                                                           *)
LEMMA ApplySyncStrict ==
  ASSUME OverlapInv, StrictInv, ApplySync
  PROVE  StrictInv' /\ (minSync > 0 /\ ssn.num > 0 => ssn'.num > 0)
  <1>1. /\ todo # <<>> /\ Head(todo).type = "sync" /\ todo' = Tail(todo)
        /\ ssn' = Accepted(ssn, [num |-> Head(todo).num, names |-> Head(todo).names])
        /\ sync' = sync /\ primary' = primary /\ minSync' = minSync
    BY DEF ApplySync, SetSsn
  <1>2. Head(todo) = todo[1] /\ todo[1] \in TransitionType(Nodes, primary)
    BY <1>1, FirstTransition
  <1>3. todo \in Seq(TransitionType(Nodes, primary)) /\ 1 \in 1..Len(todo)
    BY <1>1, EmptySeq, LenProperties DEF OverlapInv
  <1>4. CASE ~(minSync > 0)
    BY <1>1, <1>4 DEF StrictInv
  <1>5. CASE minSync > 0
    <2>1. NamesSomebody(todo) /\ PlainKeys(todo) /\ Inherited
      BY <1>5 DEF StrictInv
    <2>2. NamesSomebody(todo') /\ PlainKeys(todo')
      BY <1>1, <1>3, <2>1, RestToDo
    <2>3. sync.leader \in {0, primary}
      BY <1>1, <1>2, <2>1 DEF Inherited
    <2>4. StrictInv'
      BY <1>1, <1>5, <2>2, <2>3 DEF StrictInv, Inherited
    <2>5. todo[1].names # {} /\ todo[1].num \in Nat
      BY <1>1, <1>2, <1>3, <2>1 DEF NamesSomebody, TransitionType
    <2>6. ssn.num > 0 => ssn'.num > 0
      BY <1>1, <1>2, <2>5 DEF Accepted
    <2>7. QED BY <2>4, <2>6
  <1>6. QED BY <1>4, <1>5

(* Every step of the cluster.                                               *)
LEMMA StrictNext ==
  ASSUME OverlapInv, StrictInv, [Next]_vars
  PROVE  StrictInv' /\ (minSync > 0 /\ ssn.num > 0 => ssn'.num > 0)
  <1>1. CASE EnableSync
    <2>1. /\ sync' = [leader |-> primary, quorum |-> 0, voters |-> {}] /\ todo' = todo
          /\ ssn' = ssn /\ primary' = primary /\ minSync' = minSync
      BY <1>1 DEF EnableSync
    <2>2. QED BY <2>1 DEF StrictInv, Inherited, NamesSomebody, PlainKeys
  <1>2. CASE StrictCycle
    BY <1>2, StrictCycleStrict
  <1>3. CASE Cycle
    BY <1>3, CycleStrict
  <1>4. CASE ApplyQuorum
    BY <1>4, ApplyQuorumStrict
  <1>5. CASE ApplySync
    BY <1>5, ApplySyncStrict
  <1>6. ASSUME NEW n \in Nodes, Failover(n) PROVE StrictInv' /\ (minSync > 0 /\ ssn.num > 0 => ssn'.num > 0)
    BY <1>6, FailoverStrict
  <1>7. CASE \/ ApplyRestart \/ Interrupt \/ Database \/ UNCHANGED vars
             \/ \E n \in Nodes : Join(n) \/ Leave(n) \/ PatroniRestart(n)
             \/ \E k \in NodeCounts : Resize(k)
    <2>1. UNCHANGED <<sync, ssn, primary, minSync>> /\ (todo' = todo \/ todo' = <<>>)
      BY <1>7
      DEF ApplyRestart, Interrupt, Database, Write, Replicate, Acknowledge, vars, Join, Leave, PatroniRestart, Resize
    <2>2. QED BY <2>1, QuietStrict
  <1>8. QED
    BY <1>1, <1>2, <1>3, <1>4, <1>5, <1>6, <1>7 DEF Next, System, Environment

(* With synchronous_mode_strict commits that wait for a standby never stop  *)
(* to: whatever nodes come and go, whatever cycle is interrupted and        *)
(* whoever is promoted, no write of synchronous_standby_names turns it off. *)
THEOREM StrictKeepsWaiting == Spec => StrictNeverRelaxes
  <1>1. Init => StrictInv
    BY NothingToDo DEF Init, StrictInv, Inherited
  <1>2. OverlapInv /\ StrictInv /\ [Next]_vars =>
          StrictInv' /\ [minSync > 0 /\ ssn.num > 0 => ssn'.num > 0]_vars
    BY StrictNext
  <1>3. QED BY <1>1, <1>2, OverlapInit, OverlapNext, PTL DEF Spec, StrictNeverRelaxes
===============================================================================
