------------------------- MODULE QuorumResolverProofs -------------------------
(* What check_invariants() is worth: the inequality between numbers that    *)
(* quorum.py checks before every transition makes quorums of standbys meet  *)
(* quorums of voters, for clusters of any size.  What the transitions that  *)
(* the resolver yields keep: the overlap, and in strict mode a list that    *)
(* names somebody.                                                          *)
EXTENDS QuorumResolver, FiniteSetTheorems, SequenceTheorems, TLAPS

(* The sets of nodes that hold a commit when PostgreSQL acknowledges it:    *)
(* the primary and numsync of the names in synchronous_standby_names.       *)
AckSets(q) ==
  {acks \in SUBSET (q.sync \cup {q.me}) :
     q.me \in acks /\ Cardinality(acks \ {q.me}) >= q.numsync}

(* The sets of nodes that can elect a leader: quorum votes, and the         *)
(* candidate, among the members of the /sync key.                           *)
ElectionSets(q) ==
  {nodes \in SUBSET (q.voters \cup {q.leader}) : Cardinality(nodes) >= q.quorum + 1}

IsResolver(q) ==
  /\ IsFiniteSet(q.voters) /\ IsFiniteSet(q.sync)
  /\ q.quorum \in Nat /\ q.numsync \in Nat

(* In every state that check_invariants() lets pass, whoever can be elected *)
(* has asked, or is, a node that holds every acknowledged commit.           *)
THEOREM AcknowledgedMeetsElected ==
  ASSUME NEW q, IsResolver(q), CheckInvariants(q), q.voters # {},
         NEW acks \in AckSets(q), NEW nodes \in ElectionSets(q)
  PROVE  acks \cap nodes # {}
  <1> DEFINE All == (q.voters \cup {q.leader}) \cup (q.sync \cup {q.me})
  <1>1. IsFiniteSet(All)
    <2>1. IsFiniteSet(q.voters \cup {q.leader}) /\ IsFiniteSet(q.sync \cup {q.me})
      BY FS_AddElement DEF IsResolver
    <2>2. QED BY <2>1, FS_Union
  <1>2. acks \subseteq All /\ nodes \subseteq All
    BY DEF AckSets, ElectionSets
  <1>3. IsFiniteSet(acks) /\ IsFiniteSet(nodes)
    BY <1>1, <1>2, FS_Subset
  <1>4. Cardinality(acks) >= q.numsync + 1
    <2>1. Cardinality(acks \ {q.me}) = Cardinality(acks) - 1
      BY <1>3, FS_RemoveElement DEF AckSets
    <2>2. Cardinality(acks) \in Nat
      BY <1>3, FS_CardinalityType
    <2>3. QED BY <2>1, <2>2 DEF AckSets, IsResolver
  <1>5. Cardinality(nodes) >= q.quorum + 1
    BY DEF ElectionSets
  <1>6. Cardinality(All) <= q.quorum + q.numsync + 1
    BY DEF CheckInvariants
  <1>7. Cardinality(acks) + Cardinality(nodes) > Cardinality(All)
    <2>1. /\ Cardinality(acks) \in Nat /\ Cardinality(nodes) \in Nat
          /\ Cardinality(All) \in Nat
      BY <1>1, <1>3, FS_CardinalityType
    <2>2. QED BY <1>4, <1>5, <1>6, <2>1 DEF IsResolver
  <1>8. QED
    BY <1>1, <1>2, <1>7, FS_MajoritiesIntersect

-----------------------------------------------------------------------------
(* What the caller sees of the resolver.  s is where a cycle starts: the    *)
(* node, the key and the list.  U is the set of all names.                  *)

(* Min and Max of two numbers.                                              *)
LEMMA MinOfTwo ==
  ASSUME NEW a \in Int, NEW b \in Int
  PROVE  Min({a, b}) = IF a <= b THEN a ELSE b
  BY DEF Min

(* The larger of two numbers.                                               *)
LEMMA MaxOfTwo ==
  ASSUME NEW a \in Int, NEW b \in Int
  PROVE  Max({a, b}) = IF a >= b THEN a ELSE b
  BY DEF Max

TransitionType(U, me) ==
  [type : {"quorum", "sync", "restart"}, leader : U, num : Nat, names : SUBSET (U \ {me})]

(* U is a finite set of numbers; the node is not on its own list, and the   *)
(* leader in the key not among its voters.                                  *)
IsStart(U, s) ==
  /\ IsFiniteSet(U) /\ U \subseteq Int /\ s.me \in U
  /\ s.key.leader \in U /\ s.key.num \in Nat /\ s.key.names \subseteq U \ {s.key.leader}
  /\ s.list.num \in Nat /\ s.list.names \subseteq U \ {s.me}
  /\ s.list.names = {} => s.list.num = 0

Overlaps(me, key, list) ==
  key.names # {} =>
    Cardinality((key.names \cup {key.leader}) \cup (list.names \cup {me}))
      <= key.num + list.num + 1

(* The two places when everything in out has been carried out.              *)
Restarted(out) == out # <<>> /\ out[Len(out)].type = "restart"
KeyAfter(s, out) ==
  IF Len(out) > 0 /\ out[Len(out)].type = "quorum" THEN out[Len(out)]
  ELSE IF Len(out) > 1 THEN out[Len(out) - 1] ELSE s.key
ListAfter(s, out) ==
  IF Len(out) > 0 /\ out[Len(out)].type = "sync" THEN out[Len(out)]
  ELSE IF Len(out) > 1 THEN out[Len(out) - 1] ELSE s.list

(* No list so far makes a commit wait.                                      *)
AllZero(s, out, i) ==
  s.list.num = 0 /\ \A j \in 1..i : out[j].type = "sync" => out[j].num = 0

(* Carried out one by one, the transitions never break the overlap.  They   *)
(* alternate, the key is only written for the node itself, and a list that  *)
(* PostgreSQL would refuse is only asked for while no commit waits.         *)
SoundAt(s, out, i) ==
  /\ out[i].type = "quorum" =>
       /\ out[i].leader = s.me
       /\ Overlaps(s.me, out[i], IF i = 1 THEN s.list ELSE out[i - 1])
  /\ out[i].type = "sync" =>
       /\ out[i].num <= Cardinality(out[i].names)
       /\ Overlaps(s.me, IF i = 1 THEN s.key ELSE out[i - 1], out[i])
  /\ i > 1 => out[i].type # out[i - 1].type /\ out[i - 1].type # "restart"
  /\ out[i].type = "sync" /\ out[i].num = 0 /\ out[i].names # {} => AllZero(s, out, i)

Sound(s, out) == \A i \in 1..Len(out) : SoundAt(s, out, i)

(* __iter__(): what one more transition makes of the list.                  *)
LEMMA EmitType ==
  ASSUME NEW T, NEW out \in Seq(T), NEW t \in T
  PROVE  /\ Emit(out, t) \in Seq(T) /\ Emit(out, t) # <<>>
         /\ Len(out) \in Nat /\ (out = <<>> <=> Len(out) = 0)
         /\ Restarted(out) => Emit(out, t) = out
  <1>1. Len(out) \in Nat /\ (out = <<>> <=> Len(out) = 0)
    BY EmptySeq, LenProperties
  <1>2. CASE out = <<>>
    BY <1>1, <1>2 DEF Emit, Restarted
  <1>3. CASE out # <<>> /\ out[Len(out)].type = "restart"
    BY <1>1, <1>3 DEF Emit, Restarted
  <1>4. CASE out # <<>> /\ ~Restarted(out) /\ out[Len(out)].type = t.type
    <2>1. Emit(out, t) = [out EXCEPT ![Len(out)] = t]
      BY <1>4 DEF Emit, Restarted
    <2>2. Len(out) \in 1..Len(out)
      BY <1>1, <1>4
    <2>3. QED BY <1>1, <1>4, <2>1, <2>2, ExceptSeq
  <1>5. CASE out # <<>> /\ ~Restarted(out) /\ out[Len(out)].type # t.type
    <2>1. Emit(out, t) = Append(out, t)
      BY <1>5 DEF Emit, Restarted
    <2>2. QED BY <1>1, <1>5, <2>1
  <1>6. QED BY <1>2, <1>3, <1>4, <1>5 DEF Restarted

(* A transition of the kind emitted last takes its place.                   *)
LEMMA EmitSame ==
  ASSUME NEW T, NEW out \in Seq(T), NEW t \in T,
         out # <<>>, ~Restarted(out), out[Len(out)].type = t.type
  PROVE  /\ Len(Emit(out, t)) = Len(out) /\ Emit(out, t)[Len(out)] = t
         /\ \A i \in 1..(Len(out) - 1) : Emit(out, t)[i] = out[i]
  <1>1. Emit(out, t) = [out EXCEPT ![Len(out)] = t]
    BY DEF Emit, Restarted
  <1>2. Len(out) \in Nat /\ Len(out) \in 1..Len(out)
    BY EmptySeq, LenProperties
  <1>3. QED BY <1>1, <1>2, ExceptSeq

(* A transition of another kind is appended.                                *)
LEMMA EmitOther ==
  ASSUME NEW T, NEW out \in Seq(T), NEW t \in T,
         out = <<>> \/ (~Restarted(out) /\ out[Len(out)].type # t.type)
  PROVE  /\ Len(Emit(out, t)) = Len(out) + 1 /\ Emit(out, t)[Len(out) + 1] = t
         /\ \A i \in 1..Len(out) : Emit(out, t)[i] = out[i]
  <1>1. CASE out = <<>>
    BY <1>1 DEF Emit
  <1>2. CASE out # <<>>
    <2>1. Emit(out, t) = Append(out, t)
      BY <1>2 DEF Emit, Restarted
    <2>2. QED BY <2>1
  <1>3. QED BY <1>1, <1>2

(* A list asked for with num = 0 is sound: no list before it makes a commit *)
(* wait, or nothing follows any more.                                       *)
Zero(s, out) == Restarted(out) \/ AllZero(s, out, Len(out))

(* A positive number is one or more than one.                               *)
LEMMA OneOrMore == \A k \in Nat : k > 0 => k = 1 \/ k > 1
  OBVIOUS

(* SoundAt() looks at nothing behind its place.                             *)
LEMMA SoundAtPrefix ==
  ASSUME NEW s, NEW out, NEW new, NEW i \in Nat, i >= 1,
         \A j \in 1..i : new[j] = out[j], SoundAt(s, out, i)
  PROVE  SoundAt(s, new, i)
  <1>1. i \in 1..i /\ (i > 1 => i - 1 \in 1..i)
    OBVIOUS
  <1>2. AllZero(s, out, i) => AllZero(s, new, i)
    BY DEF AllZero
  <1>3. new[i] = out[i] /\ (i > 1 => new[i - 1] = out[i - 1])
    BY <1>1
  <1>4. QED BY <1>1, <1>2, <1>3 DEF SoundAt

AllTransitions(T) == \A x \in T : x.type \in {"quorum", "sync", "restart"}

(* KeyAfter() and ListAfter() by the last transition.                       *)
LEMMA PlacesAfter ==
  ASSUME NEW s, NEW out, Len(out) \in Nat
  PROVE  /\ Len(out) = 0 => KeyAfter(s, out) = s.key /\ ListAfter(s, out) = s.list
         /\ Len(out) > 0 /\ out[Len(out)].type = "quorum" => KeyAfter(s, out) = out[Len(out)]
         /\ Len(out) = 1 /\ out[Len(out)].type = "quorum" => ListAfter(s, out) = s.list
         /\ Len(out) > 1 /\ out[Len(out)].type = "quorum" => ListAfter(s, out) = out[Len(out) - 1]
         /\ Len(out) > 0 /\ out[Len(out)].type = "sync" => ListAfter(s, out) = out[Len(out)]
         /\ Len(out) = 1 /\ out[Len(out)].type = "sync" => KeyAfter(s, out) = s.key
         /\ Len(out) > 1 /\ out[Len(out)].type = "sync" => KeyAfter(s, out) = out[Len(out) - 1]
  <1>1. Len(out) = 0 => KeyAfter(s, out) = s.key /\ ListAfter(s, out) = s.list
    BY DEF KeyAfter, ListAfter
  <1>2. ASSUME Len(out) > 0, out[Len(out)].type = "quorum"
        PROVE  KeyAfter(s, out) = out[Len(out)]
    BY <1>2 DEF KeyAfter
  <1>3. ASSUME Len(out) = 1, out[Len(out)].type = "quorum"
        PROVE  ListAfter(s, out) = s.list
    BY <1>3 DEF ListAfter
  <1>4. ASSUME Len(out) > 1, out[Len(out)].type = "quorum"
        PROVE  ListAfter(s, out) = out[Len(out) - 1]
    BY <1>4 DEF ListAfter
  <1>5. ASSUME Len(out) > 0, out[Len(out)].type = "sync"
        PROVE  ListAfter(s, out) = out[Len(out)]
    BY <1>5 DEF ListAfter
  <1>6. ASSUME Len(out) = 1, out[Len(out)].type = "sync"
        PROVE  KeyAfter(s, out) = s.key
    BY <1>6 DEF KeyAfter
  <1>7. ASSUME Len(out) > 1, out[Len(out)].type = "sync"
        PROVE  KeyAfter(s, out) = out[Len(out) - 1]
    BY <1>7 DEF KeyAfter
  <1>8. QED BY <1>1, <1>2, <1>3, <1>4, <1>5, <1>6, <1>7, Zenon

(* Emitting a change of the key that overlaps with the list as it will be.  *)
LEMMA EmitQuorum ==
  ASSUME NEW T, AllTransitions(T), NEW s, NEW out \in Seq(T), Sound(s, out),
         NEW t \in T, t.type = "quorum", t.leader = s.me,
         Restarted(out) \/ Overlaps(s.me, t, ListAfter(s, out))
  PROVE  /\ Emit(out, t) \in Seq(T)
         /\ Sound(s, Emit(out, t))
         /\ Zero(s, out) => Zero(s, Emit(out, t))
         /\ \/ Restarted(out) /\ Emit(out, t) = out
            \/ /\ ~Restarted(Emit(out, t)) /\ KeyAfter(s, Emit(out, t)) = t
               /\ ListAfter(s, Emit(out, t)) = ListAfter(s, out)
  <1> DEFINE new == Emit(out, t)
             n == Len(out)
  <1>1. /\ new \in Seq(T) /\ new # <<>> /\ n \in Nat /\ (out = <<>> <=> n = 0)
        /\ Restarted(out) => new = out
    BY EmitType
  <1>2. \A i \in 1..n : out[i].type \in {"quorum", "sync", "restart"}
    BY ElementOfSeq DEF AllTransitions
  <1>3. CASE Restarted(out)
    BY <1>1, <1>3 DEF Zero
  <1>4. CASE n > 0 /\ ~Restarted(out) /\ out[n].type = "quorum"
    <2>0. out # <<>> /\ out[Len(out)].type = t.type
      BY <1>1, <1>4
    <2>1. Len(new) = n /\ new[n] = t /\ \A i \in 1..(n - 1) : new[i] = out[i]
      BY <1>4, <2>0, EmitSame
    <2>2. /\ n = 1 \/ n > 1
          /\ n = 1 => ListAfter(s, out) = s.list
          /\ n > 1 => ListAfter(s, out) = out[n - 1]
      <3>0. n \in Nat /\ n > 0
        BY <1>1, <1>4, Zenon
      <3>1. n = 1 \/ n > 1
        BY <3>0, OneOrMore, Zenon
      <3>2. QED BY <1>1, <1>4, <3>1, PlacesAfter, Zenon
    <2>3. SoundAt(s, out, n)
      BY <1>1, <1>4 DEF Sound
    <2>4. n > 1 => new[n - 1] = out[n - 1]
      BY <1>1, <2>1
    <2>5. SoundAt(s, new, n)
      BY <1>1, <1>4, <2>1, <2>2, <2>3, <2>4 DEF SoundAt
    <2>6. \A i \in 1..(n - 1) : SoundAt(s, new, i)
      <3>1. TAKE i \in 1..(n - 1)
      <3>2. i \in Nat /\ i >= 1 /\ SoundAt(s, out, i) /\ \A j \in 1..i : new[j] = out[j]
        BY <1>1, <2>1 DEF Sound
      <3>3. QED BY <3>2, SoundAtPrefix
    <2>7. Sound(s, new)
      BY <1>1, <2>1, <2>5, <2>6 DEF Sound
    <2>8. /\ ~Restarted(new) /\ KeyAfter(s, new) = t
          /\ ListAfter(s, new) = ListAfter(s, out)
      BY <1>1, <1>4, <2>1, <2>2, <2>4 DEF Restarted, KeyAfter, ListAfter
    <2>9. Zero(s, out) => Zero(s, new)
      BY <1>1, <1>4, <2>1 DEF Zero, AllZero
    <2>10. QED BY <1>1, <2>7, <2>8, <2>9
  <1>5. CASE n = 0 \/ (~Restarted(out) /\ out[n].type # "quorum")
    <2>0. out = <<>> \/ (~Restarted(out) /\ out[Len(out)].type # t.type)
      BY <1>1, <1>5
    <2>1. Len(new) = n + 1 /\ new[n + 1] = t /\ \A i \in 1..n : new[i] = out[i]
      BY <2>0, EmitOther
    <2>2. n > 0 => n \in 1..n /\ out[n].type = "sync"
      BY <1>1, <1>2, <1>5 DEF Restarted
    <2>3. ListAfter(s, out) = IF n = 0 THEN s.list ELSE out[n]
      BY <1>1, <2>2, PlacesAfter
    <2>4. n > 0 => new[n] = out[n]
      BY <2>1, <2>2
    <2>5. ~Restarted(out)
      BY <1>1, <1>5 DEF Restarted
    <2>6. SoundAt(s, new, n + 1)
      BY <1>1, <2>1, <2>2, <2>3, <2>4, <2>5 DEF SoundAt
    <2>7. \A i \in 1..n : SoundAt(s, new, i)
      <3>1. TAKE i \in 1..n
      <3>2. i \in Nat /\ i >= 1 /\ SoundAt(s, out, i) /\ \A j \in 1..i : new[j] = out[j]
        BY <1>1, <2>1 DEF Sound
      <3>3. QED BY <3>2, SoundAtPrefix
    <2>8. Sound(s, new)
      BY <1>1, <2>1, <2>6, <2>7 DEF Sound
    <2>9. /\ ~Restarted(new) /\ KeyAfter(s, new) = t
          /\ ListAfter(s, new) = ListAfter(s, out)
      BY <1>1, <2>1, <2>3, <2>4 DEF Restarted, KeyAfter, ListAfter
    <2>10. Zero(s, out) => Zero(s, new)
      BY <1>1, <2>1, <2>5 DEF Zero, AllZero
    <2>11. QED BY <1>1, <2>8, <2>9, <2>10
  <1>6. QED BY <1>1, <1>3, <1>4, <1>5

(* Emitting a change of the list that overlaps with the key as it will be.  *)
LEMMA EmitSync ==
  ASSUME NEW T, AllTransitions(T), NEW s, NEW out \in Seq(T), Sound(s, out),
         NEW t \in T, t.type = "sync",
         Restarted(out) \/ Overlaps(s.me, KeyAfter(s, out), t),
         t.num <= Cardinality(t.names), t.num = 0 /\ t.names # {} => Zero(s, out)
  PROVE  /\ Emit(out, t) \in Seq(T)
         /\ Sound(s, Emit(out, t))
         /\ Zero(s, out) /\ t.num = 0 => Zero(s, Emit(out, t))
         /\ \/ Restarted(out) /\ Emit(out, t) = out
            \/ /\ ~Restarted(Emit(out, t)) /\ ListAfter(s, Emit(out, t)) = t
               /\ KeyAfter(s, Emit(out, t)) = KeyAfter(s, out)
  <1> DEFINE new == Emit(out, t)
             n == Len(out)
  <1>1. /\ new \in Seq(T) /\ new # <<>> /\ n \in Nat /\ (out = <<>> <=> n = 0)
        /\ Restarted(out) => new = out
    BY EmitType
  <1>2. \A i \in 1..n : out[i].type \in {"quorum", "sync", "restart"}
    BY ElementOfSeq DEF AllTransitions
  <1>3. CASE Restarted(out)
    BY <1>1, <1>3 DEF Zero
  <1>4. CASE n > 0 /\ ~Restarted(out) /\ out[n].type = "sync"
    <2>0. out # <<>> /\ out[Len(out)].type = t.type
      BY <1>1, <1>4
    <2>1. Len(new) = n /\ new[n] = t /\ \A i \in 1..(n - 1) : new[i] = out[i]
      BY <1>4, <2>0, EmitSame
    <2>2. /\ n = 1 \/ n > 1
          /\ n = 1 => KeyAfter(s, out) = s.key
          /\ n > 1 => KeyAfter(s, out) = out[n - 1]
      <3>0. n \in Nat /\ n > 0
        BY <1>1, <1>4, Zenon
      <3>1. n = 1 \/ n > 1
        BY <3>0, OneOrMore, Zenon
      <3>2. QED BY <1>1, <1>4, <3>1, PlacesAfter, Zenon
    <2>3. SoundAt(s, out, n)
      BY <1>1, <1>4 DEF Sound
    <2>4. n > 1 => new[n - 1] = out[n - 1]
      BY <1>1, <2>1
    <2>12. Zero(s, out) /\ t.num = 0 => AllZero(s, new, n)
      BY <1>1, <1>4, <2>1 DEF Zero, AllZero
    <2>5. SoundAt(s, new, n)
      <3>1. Overlaps(s.me, IF n = 1 THEN s.key ELSE new[n - 1], new[n])
        BY <1>4, <2>1, <2>2, <2>4
      <3>2. n > 1 => t.type # new[n - 1].type /\ new[n - 1].type # "restart"
        BY <1>4, <2>3, <2>4 DEF SoundAt
      <3>3. t.num = 0 /\ t.names # {} => AllZero(s, new, n)
        BY <2>12
      <3>4. QED BY <2>1, <3>1, <3>2, <3>3 DEF SoundAt
    <2>6. \A i \in 1..(n - 1) : SoundAt(s, new, i)
      <3>1. TAKE i \in 1..(n - 1)
      <3>2. i \in Nat /\ i >= 1 /\ SoundAt(s, out, i) /\ \A j \in 1..i : new[j] = out[j]
        BY <1>1, <2>1 DEF Sound
      <3>3. QED BY <3>2, SoundAtPrefix
    <2>7. Sound(s, new)
      BY <1>1, <2>1, <2>5, <2>6 DEF Sound
    <2>8. /\ ~Restarted(new) /\ ListAfter(s, new) = t
          /\ KeyAfter(s, new) = KeyAfter(s, out)
      BY <1>1, <1>4, <2>1, <2>2, <2>4 DEF Restarted, KeyAfter, ListAfter
    <2>9. Zero(s, out) /\ t.num = 0 => Zero(s, new)
      BY <1>1, <1>4, <2>1 DEF Zero, AllZero
    <2>10. QED BY <1>1, <2>7, <2>8, <2>9
  <1>5. CASE n = 0 \/ (~Restarted(out) /\ out[n].type # "sync")
    <2>0. out = <<>> \/ (~Restarted(out) /\ out[Len(out)].type # t.type)
      BY <1>1, <1>5
    <2>1. Len(new) = n + 1 /\ new[n + 1] = t /\ \A i \in 1..n : new[i] = out[i]
      BY <2>0, EmitOther
    <2>2. n > 0 => n \in 1..n /\ out[n].type = "quorum"
      BY <1>1, <1>2, <1>5 DEF Restarted
    <2>3. KeyAfter(s, out) = IF n = 0 THEN s.key ELSE out[n]
      BY <1>1, <2>2, PlacesAfter
    <2>4. n > 0 => new[n] = out[n]
      BY <2>1, <2>2
    <2>5. ~Restarted(out)
      BY <1>1, <1>5 DEF Restarted
    <2>12. Zero(s, out) /\ t.num = 0 => AllZero(s, new, n + 1)
      BY <1>1, <2>1, <2>5 DEF Zero, AllZero
    <2>6. SoundAt(s, new, n + 1)
      <3>1. Overlaps(s.me, IF n = 0 THEN s.key ELSE new[n], new[n + 1])
        BY <2>1, <2>3, <2>4, <2>5
      <3>2. n > 0 => t.type # new[n].type /\ new[n].type # "restart"
        BY <2>2, <2>4
      <3>3. t.num = 0 /\ t.names # {} => AllZero(s, new, n + 1)
        BY <2>12
      <3>4. n + 1 > 1 <=> n > 0
        BY <1>1
      <3>5. n + 1 = 1 <=> n = 0
        BY <1>1
      <3>6. QED BY <1>1, <2>1, <3>1, <3>2, <3>3, <3>4, <3>5 DEF SoundAt
    <2>7. \A i \in 1..n : SoundAt(s, new, i)
      <3>1. TAKE i \in 1..n
      <3>2. i \in Nat /\ i >= 1 /\ SoundAt(s, out, i) /\ \A j \in 1..i : new[j] = out[j]
        BY <1>1, <2>1 DEF Sound
      <3>3. QED BY <3>2, SoundAtPrefix
    <2>8. Sound(s, new)
      BY <1>1, <2>1, <2>6, <2>7 DEF Sound
    <2>9. /\ ~Restarted(new) /\ ListAfter(s, new) = t
          /\ KeyAfter(s, new) = KeyAfter(s, out)
      BY <1>1, <2>1, <2>3, <2>4 DEF Restarted, KeyAfter, ListAfter
    <2>10. Zero(s, out) /\ t.num = 0 => Zero(s, new)
      BY <1>1, <2>1, <2>5 DEF Zero, AllZero
    <2>11. QED BY <1>1, <2>8, <2>9, <2>10
  <1>6. QED BY <1>1, <1>3, <1>4, <1>5

(* Emitting the hint to start again.                                        *)
LEMMA EmitRestart ==
  ASSUME NEW T, AllTransitions(T), NEW s, NEW out \in Seq(T), Sound(s, out),
         NEW t \in T, t.type = "restart"
  PROVE  /\ Emit(out, t) \in Seq(T) /\ Sound(s, Emit(out, t)) /\ Restarted(Emit(out, t))
  <1> DEFINE new == Emit(out, t)
             n == Len(out)
  <1>1. /\ new \in Seq(T) /\ new # <<>> /\ n \in Nat /\ (out = <<>> <=> n = 0)
        /\ Restarted(out) => new = out
    BY EmitType
  <1>2. CASE Restarted(out)
    BY <1>1, <1>2
  <1>3. CASE ~Restarted(out)
    <2>1. out = <<>> \/ (~Restarted(out) /\ out[Len(out)].type # t.type)
      BY <1>3 DEF Restarted
    <2>2. Len(new) = n + 1 /\ new[n + 1] = t /\ \A i \in 1..n : new[i] = out[i]
      BY <2>1, EmitOther
    <2>3. n > 0 => new[n] = out[n] /\ out[n].type # "restart"
      BY <1>1, <1>3, <2>2 DEF Restarted
    <2>4. SoundAt(s, new, n + 1)
      BY <1>1, <2>2, <2>3 DEF SoundAt
    <2>5. \A i \in 1..n : SoundAt(s, new, i)
      <3>1. TAKE i \in 1..n
      <3>2. i \in Nat /\ i >= 1 /\ SoundAt(s, out, i) /\ \A j \in 1..i : new[j] = out[j]
        BY <1>1, <2>2 DEF Sound
      <3>3. QED BY <3>2, SoundAtPrefix
    <2>6. Sound(s, new)
      BY <1>1, <2>2, <2>4, <2>5 DEF Sound
    <2>7. Restarted(new)
      BY <1>1, <2>2 DEF Restarted
    <2>8. QED BY <1>1, <2>6, <2>7
  <1>4. QED BY <1>2, <1>3

(* No transition puts a voter into the key.                                 *)
NoVoters(out) == \A i \in 1..Len(out) : out[i].type = "quorum" => out[i].names = {}

(* Emitting a transition that names no voter keeps the sequence free of     *)
(* voters.                                                                  *)
LEMMA EmitNoVoters ==
  ASSUME NEW T, NEW out \in Seq(T), NEW t \in T, NoVoters(out),
         t.type = "quorum" => t.names = {}
  PROVE  NoVoters(Emit(out, t))
  <1> DEFINE new == Emit(out, t)
             n == Len(out)
  <1>1. n \in Nat /\ (out = <<>> <=> n = 0) /\ (Restarted(out) => new = out)
    BY EmitType
  <1>2. CASE Restarted(out)
    BY <1>1, <1>2
  <1>3. CASE n > 0 /\ ~Restarted(out) /\ out[n].type = t.type
    <2>1. out # <<>> /\ out[Len(out)].type = t.type
      BY <1>1, <1>3
    <2>2. Len(new) = n /\ new[n] = t /\ \A i \in 1..(n - 1) : new[i] = out[i]
      BY <1>3, <2>1, EmitSame
    <2>3. QED BY <1>1, <2>2 DEF NoVoters
  <1>4. CASE n = 0 \/ (~Restarted(out) /\ out[n].type # t.type)
    <2>1. out = <<>> \/ (~Restarted(out) /\ out[Len(out)].type # t.type)
      BY <1>1, <1>4
    <2>2. Len(new) = n + 1 /\ new[n + 1] = t /\ \A i \in 1..n : new[i] = out[i]
      BY <2>1, EmitOther
    <2>3. QED BY <1>1, <2>2 DEF NoVoters
  <1>5. QED BY <1>1, <1>2, <1>3, <1>4

-----------------------------------------------------------------------------
(* The resolver while it works for the node s.me from the places s.         *)

ResolverType(U, me) ==
  [leader : U, quorum : Nat, voters : SUBSET U, numsync : Nat, sync : SUBSET (U \ {me}),
   confirmed : Int, active : SUBSET (U \ {me}), wanted : Nat \ {0}, me : {me},
   out : Seq(TransitionType(U, me)), halt : Halts]

TracksKey(s, q) ==
  LET key == KeyAfter(s, q.out)
  IN q.leader = key.leader /\ q.quorum = key.num /\ q.voters = key.names
TracksList(s, q) ==
  LET list == ListAfter(s, q.out) IN q.numsync = list.num /\ q.sync = list.names

(* What holds of a resolver that has not raised: its fields are the places  *)
(* as they will be, and what it has emitted is sound.                       *)
Tracked(s, q) ==
  /\ Sound(s, q.out)
  /\ Restarted(q.out) \/ (TracksKey(s, q) /\ TracksList(s, q))

(* With nobody active and no voters, none is ever added.                    *)
Idle(s, q) ==
  q.active = {} /\ s.key.names = {} /\ s.key.leader = s.me =>
    q.confirmed = 0 /\ q.voters = {} /\ NoVoters(q.out)

Good(U, s, q) ==
  /\ q \in ResolverType(U, s.me)
  /\ q.leader = s.me /\ s.me \notin q.voters
  /\ q.halt \in {"no", "return"} => Tracked(s, q)
  /\ q.halt = "no" => CheckInvariants(q)
  /\ q.halt = "no" /\ q.numsync = 0 /\ q.sync # {} => Zero(s, q.out)
  /\ Idle(s, q)

(* What no method changes.                                                  *)
SameTask(q, r) ==
  /\ r.me = q.me /\ r.leader = q.leader /\ r.active = q.active
  /\ r.wanted = q.wanted /\ r.confirmed = q.confirmed

(* The transitions over the nodes U are records of the fields transitions   *)
(* have.                                                                    *)
LEMMA TransitionsTyped ==
  ASSUME NEW U, NEW me
  PROVE  AllTransitions(TransitionType(U, me))
  BY DEF AllTransitions, TransitionType

(* check_invariants() says that the key overlaps with the list.             *)
LEMMA CheckedOverlap ==
  ASSUME NEW q, CheckInvariants(q), NEW key, NEW list,
         key.leader = q.leader, key.num = q.quorum, key.names = q.voters,
         list.num = q.numsync, list.names = q.sync
  PROVE  Overlaps(q.me, key, list)
  BY DEF CheckInvariants, Overlaps

(* Yielding the key of a resolver whose list is where it will be.           *)
LEMMA YieldQuorum ==
  ASSUME NEW U, NEW s, IsStart(U, s), NEW q \in ResolverType(U, s.me),
         q.leader = s.me, s.me \notin q.voters, q.halt = "no",
         Sound(s, q.out), Restarted(q.out) \/ TracksList(s, q),
         NEW r, r = Yield(q, Transition("quorum", q.leader, q.quorum, q.voters))
  PROVE  /\ r \in ResolverType(U, s.me) /\ SameTask(q, r) /\ r.halt \in {"no", "error"}
         /\ r.voters = q.voters /\ r.quorum = q.quorum
         /\ r.sync = q.sync /\ r.numsync = q.numsync
         /\ r.halt = "no" => Tracked(s, r) /\ CheckInvariants(r)
         /\ r.halt = "no" /\ Zero(s, q.out) => Zero(s, r.out)
         /\ NoVoters(q.out) /\ q.voters = {} => NoVoters(r.out)
         /\ r.halt = "error" => r = [q EXCEPT !.halt = "error"] /\ ~CheckInvariants(q)
  <1> DEFINE T == TransitionType(U, s.me)
             t == Transition("quorum", q.leader, q.quorum, q.voters)
  <1>1. q.out \in Seq(T) /\ AllTransitions(T) /\ q.me = s.me
    BY TransitionsTyped DEF ResolverType
  <1>2. t \in T /\ t.type = "quorum" /\ t.leader = s.me
    BY DEF Transition, TransitionType, ResolverType
  <1>3. CASE ~CheckInvariants(q)
    <2>1. r = [q EXCEPT !.halt = "error"]
      BY <1>3 DEF Yield, Halt
    <2>2. QED BY <1>3, <2>1 DEF ResolverType, SameTask, Halts
  <1>4. CASE CheckInvariants(q)
    <2> DEFINE new == Emit(q.out, t)
    <2>1. r = [q EXCEPT !.out = new]
      BY <1>4 DEF Yield
    <2>2. Restarted(q.out) \/ Overlaps(s.me, t, ListAfter(s, q.out))
      <3>1. CASE ~Restarted(q.out)
        <4>1. /\ t.leader = q.leader /\ t.num = q.quorum /\ t.names = q.voters
          BY DEF Transition
        <4>2. QED BY <1>1, <1>4, <3>1, <4>1, CheckedOverlap DEF TracksList
      <3>2. QED BY <3>1
    <2>3. /\ new \in Seq(T) /\ Sound(s, new) /\ (Zero(s, q.out) => Zero(s, new))
          /\ \/ Restarted(q.out) /\ new = q.out
             \/ /\ ~Restarted(new) /\ KeyAfter(s, new) = t
                /\ ListAfter(s, new) = ListAfter(s, q.out)
      BY <1>1, <1>2, <2>2, EmitQuorum
    <2>4. NoVoters(q.out) /\ q.voters = {} => NoVoters(new)
      BY <1>1, <1>2, EmitNoVoters DEF Transition
    <2> HIDE DEF new
    <2>5. /\ r \in ResolverType(U, s.me) /\ SameTask(q, r) /\ r.halt = "no" /\ r.out = new
          /\ r.voters = q.voters /\ r.quorum = q.quorum /\ r.sync = q.sync
          /\ r.numsync = q.numsync
      BY <2>1, <2>3 DEF ResolverType, SameTask
    <2>6. CheckInvariants(r)
      BY <1>4, <2>5 DEF CheckInvariants, SameTask
    <2>7. Tracked(s, r)
      <3>1. CASE Restarted(q.out) /\ new = q.out
        BY <2>3, <2>5, <3>1 DEF Tracked
      <3>2. CASE ~Restarted(new) /\ KeyAfter(s, new) = t /\ ListAfter(s, new) = ListAfter(s, q.out)
                 /\ ~Restarted(q.out)
        <4>1. TracksKey(s, r)
          BY <2>5, <3>2 DEF TracksKey, Transition, SameTask
        <4>2. TracksList(s, r)
          BY <2>5, <3>2 DEF TracksList
        <4>3. QED BY <2>3, <2>5, <4>1, <4>2 DEF Tracked
      <3>3. CASE Restarted(q.out) /\ ~Restarted(new)
        BY <1>1, <1>2, <3>3, EmitType DEF new
      <3>4. QED BY <2>3, <3>1, <3>2, <3>3
    <2>8. QED BY <2>3, <2>4, <2>5, <2>6, <2>7
  <1>5. QED BY <1>3, <1>4

(* Yielding the list of a resolver whose key is where it will be.           *)
LEMMA YieldSync ==
  ASSUME NEW U, NEW s, IsStart(U, s), NEW q \in ResolverType(U, s.me), q.halt = "no",
         Sound(s, q.out), Restarted(q.out) \/ TracksKey(s, q),
         q.numsync <= Cardinality(q.sync), q.numsync = 0 /\ q.sync # {} => Zero(s, q.out),
         NEW r, r = Yield(q, Transition("sync", q.leader, q.numsync, q.sync))
  PROVE  /\ r \in ResolverType(U, s.me) /\ SameTask(q, r) /\ r.halt \in {"no", "error"}
         /\ r.voters = q.voters /\ r.quorum = q.quorum
         /\ r.sync = q.sync /\ r.numsync = q.numsync
         /\ r.halt = "no" <=> CheckInvariants(q)
         /\ r.halt = "no" => Tracked(s, r) /\ CheckInvariants(r)
         /\ r.halt = "no" /\ q.numsync = 0 /\ Zero(s, q.out) => Zero(s, r.out)
         /\ NoVoters(q.out) => NoVoters(r.out)
  <1> DEFINE T == TransitionType(U, s.me)
             t == Transition("sync", q.leader, q.numsync, q.sync)
  <1>1. q.out \in Seq(T) /\ AllTransitions(T) /\ q.me = s.me
    BY TransitionsTyped DEF ResolverType
  <1>2. t \in T /\ t.type = "sync" /\ t.num = q.numsync /\ t.names = q.sync
    BY DEF Transition, TransitionType, ResolverType
  <1>3. CASE ~CheckInvariants(q)
    <2>1. r = [q EXCEPT !.halt = "error"]
      BY <1>3 DEF Yield, Halt
    <2>2. QED BY <1>3, <2>1 DEF ResolverType, SameTask, Halts
  <1>4. CASE CheckInvariants(q)
    <2> DEFINE new == Emit(q.out, t)
    <2>1. r = [q EXCEPT !.out = new]
      BY <1>4 DEF Yield
    <2>2. Restarted(q.out) \/ Overlaps(s.me, KeyAfter(s, q.out), t)
      <3>1. CASE ~Restarted(q.out)
        BY <1>1, <1>2, <1>4, <3>1, CheckedOverlap DEF TracksKey
      <3>2. QED BY <3>1
    <2>3. /\ new \in Seq(T) /\ Sound(s, new) /\ (Zero(s, q.out) /\ t.num = 0 => Zero(s, new))
          /\ \/ Restarted(q.out) /\ new = q.out
             \/ /\ ~Restarted(new) /\ ListAfter(s, new) = t
                /\ KeyAfter(s, new) = KeyAfter(s, q.out)
      BY <1>1, <1>2, <2>2, EmitSync
    <2>4. NoVoters(q.out) => NoVoters(new)
      BY <1>1, <1>2, EmitNoVoters
    <2> HIDE DEF new
    <2>5. /\ r \in ResolverType(U, s.me) /\ SameTask(q, r) /\ r.halt = "no" /\ r.out = new
          /\ r.voters = q.voters /\ r.quorum = q.quorum /\ r.sync = q.sync
          /\ r.numsync = q.numsync
      BY <2>1, <2>3 DEF ResolverType, SameTask
    <2>6. CheckInvariants(r)
      BY <1>4, <2>5 DEF CheckInvariants, SameTask
    <2>7. Tracked(s, r)
      <3>1. CASE Restarted(q.out) /\ new = q.out
        BY <2>3, <2>5, <3>1 DEF Tracked
      <3>2. CASE ~Restarted(new) /\ ListAfter(s, new) = t /\ KeyAfter(s, new) = KeyAfter(s, q.out)
                 /\ ~Restarted(q.out)
        <4>1. TracksList(s, r)
          BY <1>2, <2>5, <3>2 DEF TracksList
        <4>2. TracksKey(s, r)
          BY <2>5, <3>2 DEF TracksKey, SameTask
        <4>3. QED BY <2>3, <2>5, <4>1, <4>2 DEF Tracked
      <3>3. CASE Restarted(q.out) /\ ~Restarted(new)
        BY <1>1, <1>2, <3>3, EmitType DEF new
      <3>4. QED BY <2>3, <3>1, <3>2, <3>3
    <2>8. QED BY <1>2, <1>4, <2>3, <2>4, <2>5, <2>6, <2>7
  <1>5. QED BY <1>3, <1>4

(* What storing k and V turns q into.                                       *)
Stored(U, s, q, k, V, r) ==
  /\ r \in ResolverType(U, s.me) /\ SameTask(q, r) /\ r.halt \in {"no", "error"}
  /\ r.voters = V /\ r.quorum = k /\ r.sync = q.sync /\ r.numsync = q.numsync
  /\ r.halt = "no" => Tracked(s, r) /\ CheckInvariants(r)
  /\ r.halt = "no" /\ Zero(s, q.out) => Zero(s, r.out)
  /\ NoVoters(q.out) /\ V = {} => NoVoters(r.out)

(* Storing a key with the same leader.  Without a change nothing is checked *)
(* again, so that what follows must hold already.                           *)
LEMMA StoreSound ==
  ASSUME NEW U, NEW s, IsStart(U, s), NEW q \in ResolverType(U, s.me),
         q.leader = s.me, s.me \notin q.voters, q.halt = "no",
         Sound(s, q.out), Restarted(q.out) \/ TracksList(s, q),
         NEW k \in Nat, NEW V \in SUBSET (U \ {s.me}),
         k = q.quorum /\ V = q.voters /\ V # {} => Tracked(s, q) /\ CheckInvariants(q),
         NEW r, r = StoreQuorum(q, q.leader, k, V)
  PROVE  Stored(U, s, q, k, V, r)
  <1> DEFINE T == TransitionType(U, s.me)
             hint == Transition("restart", q.leader, q.quorum, q.voters)
             key == Transition("quorum", q.leader, k, V)
  <1>1. q.out \in Seq(T) /\ AllTransitions(T)
    BY TransitionsTyped DEF ResolverType
  <1>2. CASE k = q.quorum /\ V = q.voters /\ V # {}
    <2>1. r = q
      BY <1>2 DEF StoreQuorum
    <2>2. QED BY <1>2, <2>1 DEF SameTask, Stored
  <1>3. CASE k = q.quorum /\ V = q.voters /\ V = {}
    <2> DEFINE out == Emit(q.out, hint)
               new == [q EXCEPT !.out = out]
    <2>1. r = Yield(new, key)
      <3>1. r = Yield([q EXCEPT !.leader = q.leader, !.quorum = k, !.voters = V,
                                !.out = Emit(@, hint)], key)
        BY <1>3 DEF StoreQuorum
      <3>2. [q EXCEPT !.leader = q.leader, !.quorum = k, !.voters = V,
                      !.out = Emit(@, hint)] = new
        BY <1>3 DEF ResolverType
      <3>3. QED BY <3>1, <3>2
    <2>2. hint \in T /\ hint.type = "restart"
      BY DEF Transition, TransitionType, ResolverType
    <2>3. out \in Seq(T) /\ Sound(s, out) /\ Restarted(out)
      BY <1>1, <2>2, EmitRestart
    <2>4. NoVoters(q.out) => NoVoters(out)
      BY <1>1, <2>2, EmitNoVoters
    <2> HIDE DEF out
    <2>5. /\ new \in ResolverType(U, s.me) /\ SameTask(q, new) /\ new.halt = "no"
          /\ new.out = out /\ new.voters = V /\ new.quorum = k
          /\ new.sync = q.sync /\ new.numsync = q.numsync
      BY <1>3, <2>3 DEF ResolverType, SameTask
    <2> HIDE DEF new
    <2>6. new.leader = s.me /\ s.me \notin new.voters
      BY <1>3, <2>5 DEF SameTask
    <2>7. r = Yield(new, Transition("quorum", new.leader, new.quorum, new.voters))
      BY <2>1, <2>5 DEF SameTask
    <2>8. /\ r \in ResolverType(U, s.me) /\ SameTask(new, r) /\ r.halt \in {"no", "error"}
          /\ r.voters = new.voters /\ r.quorum = new.quorum
          /\ r.sync = new.sync /\ r.numsync = new.numsync
          /\ r.halt = "no" => Tracked(s, r) /\ CheckInvariants(r)
          /\ r.halt = "no" /\ Zero(s, new.out) => Zero(s, r.out)
          /\ NoVoters(new.out) /\ new.voters = {} => NoVoters(r.out)
      BY <2>3, <2>5, <2>6, <2>7, YieldQuorum
    <2>9. SameTask(q, r)
      BY <2>5, <2>8 DEF SameTask
    <2>10. Zero(s, new.out)
      BY <2>3, <2>5 DEF Zero
    <2>11. QED BY <2>4, <2>5, <2>8, <2>9, <2>10 DEF Stored
  <1>4. CASE ~(k = q.quorum /\ V = q.voters)
    <2> DEFINE new == [q EXCEPT !.quorum = k, !.voters = V]
    <2>1. r = Yield(new, key)
      <3>1. r = Yield([q EXCEPT !.leader = q.leader, !.quorum = k, !.voters = V,
                                !.out = @], key)
        BY <1>4 DEF StoreQuorum
      <3>2. [q EXCEPT !.leader = q.leader, !.quorum = k, !.voters = V, !.out = @] = new
        BY DEF ResolverType
      <3>3. QED BY <3>1, <3>2
    <2>2. /\ new \in ResolverType(U, s.me) /\ SameTask(q, new) /\ new.halt = "no"
          /\ new.out = q.out /\ new.voters = V /\ new.quorum = k
          /\ new.sync = q.sync /\ new.numsync = q.numsync
      BY DEF ResolverType, SameTask
    <2> HIDE DEF new
    <2>3. new.leader = s.me /\ s.me \notin new.voters
      BY <2>2 DEF SameTask
    <2>4. r = Yield(new, Transition("quorum", new.leader, new.quorum, new.voters))
      BY <2>1, <2>2 DEF SameTask
    <2>5. Restarted(new.out) \/ TracksList(s, new)
      BY <2>2 DEF TracksList
    <2>6. /\ r \in ResolverType(U, s.me) /\ SameTask(new, r) /\ r.halt \in {"no", "error"}
          /\ r.voters = new.voters /\ r.quorum = new.quorum
          /\ r.sync = new.sync /\ r.numsync = new.numsync
          /\ r.halt = "no" => Tracked(s, r) /\ CheckInvariants(r)
          /\ r.halt = "no" /\ Zero(s, new.out) => Zero(s, r.out)
          /\ NoVoters(new.out) /\ new.voters = {} => NoVoters(r.out)
      BY <2>2, <2>3, <2>4, <2>5, YieldQuorum
    <2>7. SameTask(q, r)
      BY <2>2, <2>6 DEF SameTask
    <2>8. QED BY <2>2, <2>6, <2>7 DEF Stored
  <1>5. QED BY <1>2, <1>3, <1>4

(* quorum_update() preserves Good().                                        *)
LEMMA QuorumUpdateGood ==
  ASSUME NEW U, NEW s, IsStart(U, s), NEW q, Good(U, s, q),
         NEW k \in Int, NEW V \in SUBSET (U \ {s.me}), NEW adjust \in BOOLEAN,
         NEW r, r = QuorumUpdate(q, k, V, adjust)
  PROVE  /\ Good(U, s, r) /\ SameTask(q, r) /\ r.sync = q.sync /\ r.numsync = q.numsync
         /\ q.halt # "no" => r = q
         /\ r.halt = "no" => q.halt = "no"
         /\ r.halt = "no" => r.voters = V \/ (q.voters = {} /\ r.voters = {})
         /\ r.halt = "no" /\ Zero(s, q.out) => Zero(s, r.out)
  <1>1. CASE q.halt # "no"
    <2>1. r = q
      BY <1>1 DEF QuorumUpdate
    <2>2. QED BY <1>1, <2>1 DEF SameTask
  <1>2. CASE q.halt = "no" /\ BadQuorum(k, V)
    <2>1. r = [q EXCEPT !.halt = "error"]
      BY <1>2 DEF QuorumUpdate, Halt
    <2>2. /\ r \in ResolverType(U, s.me) /\ SameTask(q, r) /\ r.halt = "error"
          /\ r.voters = q.voters /\ r.out = q.out /\ r.sync = q.sync /\ r.numsync = q.numsync
      BY <2>1 DEF Good, ResolverType, SameTask, Halts
    <2>3. Idle(s, r)
      BY <2>2 DEF Good, Idle, SameTask
    <2>4. Good(U, s, r)
      BY <2>2, <2>3 DEF Good, SameTask
    <2>5. QED BY <1>2, <2>2, <2>4
  <1>3. CASE q.halt = "no" /\ ~BadQuorum(k, V)
    <2> DEFINE empty == q.confirmed = 0 /\ q.voters = {}
               quorum == IF empty THEN 0
                         ELSE k + (IF adjust THEN Max({q.numsync - q.confirmed, 0}) ELSE 0)
               voters == IF empty THEN {} ELSE V
    <2>1. q \in ResolverType(U, s.me) /\ q.confirmed \in Int /\ q.numsync \in Nat
      BY DEF Good, ResolverType
    <2>2. quorum \in Nat
      <3>1. k \in Nat
        BY <1>3 DEF BadQuorum
      <3>2. Max({q.numsync - q.confirmed, 0}) \in Nat
        BY <2>1, MaxOfTwo
      <3>3. QED BY <3>1, <3>2
    <2>3. voters \in SUBSET (U \ {s.me})
      OBVIOUS
    <2>4. r = StoreQuorum(q, q.leader, quorum, voters)
      BY <1>3 DEF QuorumUpdate
    <2> HIDE DEF quorum, voters
    <2>5. /\ q.leader = s.me /\ s.me \notin q.voters /\ Tracked(s, q) /\ CheckInvariants(q)
          /\ Sound(s, q.out) /\ (Restarted(q.out) \/ TracksList(s, q))
      BY <1>3 DEF Good, Tracked
    <2>13. q.halt = "no"
      BY <1>3
    <2>14. quorum = q.quorum /\ voters = q.voters /\ voters # {} => Tracked(s, q) /\ CheckInvariants(q)
      BY <2>5
    <2>15. Stored(U, s, q, quorum, voters, r)
      BY <2>1, <2>2, <2>3, <2>4, <2>5, <2>13, <2>14, StoreSound
    <2>6. /\ r \in ResolverType(U, s.me) /\ SameTask(q, r) /\ r.halt \in {"no", "error"}
          /\ r.voters = voters /\ r.quorum = quorum /\ r.sync = q.sync /\ r.numsync = q.numsync
          /\ r.halt = "no" => Tracked(s, r) /\ CheckInvariants(r)
          /\ r.halt = "no" /\ Zero(s, q.out) => Zero(s, r.out)
          /\ NoVoters(q.out) /\ voters = {} => NoVoters(r.out)
      BY <2>15 DEF Stored
    <2>7. Idle(s, r)
      <3>1. q.confirmed = 0 /\ q.voters = {} => voters = {}
        BY DEF voters
      <3>2. QED BY <2>6, <3>1 DEF Good, Idle, SameTask
    <2>8. r.leader = s.me /\ s.me \notin r.voters
      BY <2>3, <2>5, <2>6 DEF SameTask
    <2>9. r.halt = "no" /\ r.numsync = 0 /\ r.sync # {} => Zero(s, r.out)
      BY <1>3, <2>6 DEF Good
    <2>10. Good(U, s, r)
      BY <2>6, <2>7, <2>8, <2>9 DEF Good
    <2>11. voters = V \/ (q.voters = {} /\ voters = {})
      BY DEF voters
    <2>12. QED BY <1>3, <2>6, <2>10, <2>11
  <1>4. QED BY <1>1, <1>2, <1>3

(* The update of synchronous_standby_names preserves Good(), unless it asks *)
(* for a list that PostgreSQL refuses where another one is in force.        *)
LEMMA SyncUpdateGood ==
  ASSUME NEW U, NEW s, IsStart(U, s), NEW q, Good(U, s, q),
         NEW k \in Int, NEW S \in SUBSET (U \ {s.me}),
         q.halt = "no" /\ k = 0 /\ S # {} => Zero(s, q.out),
         NEW r, r = SyncUpdate(q, k, S)
  PROVE  /\ Good(U, s, r) /\ SameTask(q, r) /\ r.voters = q.voters /\ r.quorum = q.quorum
         /\ q.halt # "no" => r = q
         /\ r.halt = "no" => q.halt = "no" /\ r.sync = S /\ r.numsync = k
         /\ r.halt = "no" /\ k = 0 /\ Zero(s, q.out) => Zero(s, r.out)
  <1>1. CASE q.halt # "no"
    <2>1. r = q
      BY <1>1 DEF SyncUpdate
    <2>2. QED BY <1>1, <2>1 DEF SameTask
  <1>2. CASE q.halt = "no" /\ (k < 0 \/ k > Cardinality(S))
    <2>1. r = [q EXCEPT !.halt = "error"]
      BY <1>2 DEF SyncUpdate, Halt
    <2>2. /\ r \in ResolverType(U, s.me) /\ SameTask(q, r) /\ r.halt = "error"
          /\ r.voters = q.voters /\ r.quorum = q.quorum /\ r.out = q.out
      BY <2>1 DEF Good, ResolverType, SameTask, Halts
    <2>3. Idle(s, r)
      BY <2>2 DEF Good, Idle, SameTask
    <2>4. Good(U, s, r)
      BY <2>2, <2>3 DEF Good, SameTask
    <2>5. QED BY <1>2, <2>2, <2>4
  <1>3. CASE q.halt = "no" /\ ~(k < 0 \/ k > Cardinality(S))
    <2> DEFINE new == [q EXCEPT !.numsync = k, !.sync = S]
    <2>1. q \in ResolverType(U, s.me) /\ k \in Nat
      BY <1>3 DEF Good
    <2>2. r = Yield(new, Transition("sync", q.leader, k, S))
      BY <1>3 DEF SyncUpdate
    <2>3. /\ new \in ResolverType(U, s.me) /\ SameTask(q, new) /\ new.halt = "no"
          /\ new.out = q.out /\ new.voters = q.voters /\ new.quorum = q.quorum
          /\ new.sync = S /\ new.numsync = k
      BY <1>3, <2>1 DEF ResolverType, SameTask
    <2> HIDE DEF new
    <2>4. r = Yield(new, Transition("sync", new.leader, new.numsync, new.sync))
      BY <2>2, <2>3 DEF SameTask
    <2>5. Sound(s, new.out) /\ (Restarted(new.out) \/ TracksKey(s, new))
      BY <1>3, <2>3 DEF Good, Tracked, TracksKey, SameTask
    <2>6. new.numsync = 0 /\ new.sync # {} => Zero(s, new.out)
      BY <1>3, <2>3
    <2>7. /\ r \in ResolverType(U, s.me) /\ SameTask(new, r) /\ r.halt \in {"no", "error"}
          /\ r.voters = new.voters /\ r.quorum = new.quorum
          /\ r.sync = new.sync /\ r.numsync = new.numsync
          /\ r.halt = "no" => Tracked(s, r) /\ CheckInvariants(r)
          /\ r.halt = "no" /\ new.numsync = 0 /\ Zero(s, new.out) => Zero(s, r.out)
          /\ NoVoters(new.out) => NoVoters(r.out)
      <3>1. new.numsync <= Cardinality(new.sync)
        <4>1. Cardinality(S) \in Nat
          BY FS_Subset, FS_CardinalityType DEF IsStart
        <4>2. QED BY <1>3, <2>1, <2>3, <4>1
      <3>2. QED BY <2>3, <2>4, <2>5, <2>6, <3>1, YieldSync
    <2>8. SameTask(q, r)
      BY <2>3, <2>7 DEF SameTask
    <2>9. Idle(s, r)
      BY <2>3, <2>7, <2>8 DEF Good, Idle, SameTask
    <2>10. r.leader = s.me /\ s.me \notin r.voters
      BY <2>3, <2>7, <2>8 DEF Good, SameTask
    <2>11. r.halt = "no" /\ r.numsync = 0 /\ r.sync # {} => Zero(s, r.out)
      BY <2>6, <2>7
    <2>12. Good(U, s, r)
      BY <2>7, <2>9, <2>10, <2>11 DEF Good
    <2>13. QED BY <1>3, <2>3, <2>7, <2>8, <2>12
  <1>4. QED BY <1>1, <1>2, <1>3

-----------------------------------------------------------------------------
(* Every method preserves Good(). *)

(* Every set of nodes is finite.                                            *)
LEMMA FiniteNodes ==
  ASSUME NEW U, NEW s, IsStart(U, s), NEW S \in SUBSET U
  PROVE  /\ IsFiniteSet(S) /\ Cardinality(S) \in Nat
         /\ S # {} => Cardinality(S) >= 1
  <1>1. IsFiniteSet(S)
    BY FS_Subset DEF IsStart
  <1>2. Cardinality(S) \in Nat /\ (Cardinality(S) = 0 <=> S = {})
    BY <1>1, FS_CardinalityType, FS_EmptySet
  <1>3. QED BY <1>1, <1>2

(* The fields of a resolver in a good state have their types.               *)
LEMMA GoodFields ==
  ASSUME NEW U, NEW s, IsStart(U, s), NEW q, Good(U, s, q)
  PROVE  /\ q.voters \in SUBSET (U \ {s.me}) /\ q.sync \in SUBSET (U \ {s.me})
         /\ q.active \in SUBSET (U \ {s.me})
         /\ q.quorum \in Nat /\ q.numsync \in Nat /\ q.confirmed \in Int
         /\ q.wanted \in Nat /\ q.wanted >= 1 /\ q.me = s.me /\ q.leader = s.me
  BY DEF Good, ResolverType

(* A list that names somebody is only unlimited while none makes a commit   *)
(* wait.                                                                    *)
ZeroOnlyFirst(s, q) == q.halt = "no" /\ q.numsync = 0 => Zero(s, q.out)

(* __handle_non_steady_cases(), sync is a subset of voters: the resolver    *)
(* stays good.                                                              *)
LEMMA SyncIsSubsetGood ==
  ASSUME NEW U, NEW s, IsStart(U, s), NEW q, Good(U, s, q), ZeroOnlyFirst(s, q),
         NEW r, r = SyncIsSubset(q)
  PROVE  Good(U, s, r) /\ SameTask(q, r)
  <1> DEFINE gone == q.voters \ (q.sync \cup q.active)
             k == Cardinality(q.voters) - Cardinality(gone) - q.numsync
             q1 == IF gone = {} THEN q
                   ELSE QuorumUpdate(q, k, q.voters \ gone, q.sync \subseteq q.active)
             new == (q1.voters \cap q1.active) \ q1.sync
  <1>1. r = IF new = {} THEN q1 ELSE SyncUpdate(q1, q1.numsync, q1.sync \cup new)
    BY DEF SyncIsSubset
  <1>2. k \in Int /\ q.voters \ gone \in SUBSET (U \ {s.me})
    <2>1. Cardinality(q.voters) \in Nat /\ Cardinality(gone) \in Nat
      BY GoodFields, FiniteNodes
    <2>2. QED BY <2>1, GoodFields
  <1>3. Good(U, s, q1) /\ SameTask(q, q1) /\ ZeroOnlyFirst(s, q1)
    <2>1. CASE gone = {}
      BY <2>1 DEF SameTask
    <2>2. CASE gone # {}
      <3> HIDE DEF gone, k
      <3> DEFINE adjust == q.sync \subseteq q.active
      <3>1. q1 = QuorumUpdate(q, k, q.voters \ gone, adjust)
        BY <2>2
      <3>2. adjust \in BOOLEAN
        OBVIOUS
      <3> HIDE DEF q1, adjust
      <3>3. /\ Good(U, s, q1) /\ SameTask(q, q1) /\ q1.numsync = q.numsync
            /\ q1.halt = "no" => q.halt = "no"
            /\ q1.halt = "no" /\ Zero(s, q.out) => Zero(s, q1.out)
        BY <1>2, <3>1, <3>2, QuorumUpdateGood
      <3>4. QED BY <3>3 DEF ZeroOnlyFirst
    <2>3. QED BY <2>1, <2>2
  <1> HIDE DEF q1
  <1>4. CASE new = {}
    BY <1>1, <1>3, <1>4
  <1>5. CASE new # {}
    <2>1. r = SyncUpdate(q1, q1.numsync, q1.sync \cup new)
      BY <1>1, <1>5
    <2>2. q1.numsync \in Int /\ q1.sync \cup new \in SUBSET (U \ {s.me})
      BY <1>3, GoodFields
    <2>3. q1.halt = "no" /\ q1.numsync = 0 => Zero(s, q1.out)
      BY <1>3 DEF ZeroOnlyFirst
    <2> HIDE DEF new
    <2>4. Good(U, s, r) /\ SameTask(q1, r)
      BY <1>3, <2>1, <2>2, <2>3, SyncUpdateGood
    <2>5. QED BY <1>3, <2>4 DEF SameTask
  <1>6. QED BY <1>4, <1>5

(* __handle_non_steady_cases(), sync is a superset of voters: the resolver  *)
(* stays good.                                                              *)
LEMMA SyncIsSupersetGood ==
  ASSUME NEW U, NEW s, IsStart(U, s), NEW q, Good(U, s, q), ZeroOnlyFirst(s, q),
         NEW r, r = SyncIsSuperset(q)
  PROVE  Good(U, s, r) /\ SameTask(q, r)
  <1> DEFINE gone == q.sync \ q.active
             left == q.sync \ gone
             shrink == gone # {} /\ left # {} /\ (q.voters = {} \/ left \cap q.voters # {})
             k1 == Min({q.numsync, Cardinality(left)})
             q1 == IF shrink THEN SyncUpdate(q, k1, left) ELSE q
             new == (q1.sync \ q1.voters) \cap q1.active
             k2 == Cardinality(q1.voters \cup new) - q1.numsync
             q2 == IF new = {} THEN q1 ELSE QuorumUpdate(q1, k2, q1.voters \cup new, TRUE)
             dead == q2.sync \ q2.voters
             k3 == Min({q2.numsync, Cardinality(q2.sync) - Cardinality(dead)})
  <1>1. r = IF dead = {} THEN q2 ELSE SyncUpdate(q2, k3, q2.sync \ dead)
    BY DEF SyncIsSuperset
  <1>2. Good(U, s, q1) /\ SameTask(q, q1) /\ ZeroOnlyFirst(s, q1)
    <2>1. CASE ~shrink
      BY <2>1 DEF SameTask
    <2>2. CASE shrink
      <3>1. q1 = SyncUpdate(q, k1, left) /\ left # {}
        BY <2>2
      <3>2. left \in SUBSET (U \ {s.me}) /\ left \in SUBSET U /\ q.numsync \in Nat
        BY GoodFields
      <3>3. Cardinality(left) \in Nat /\ Cardinality(left) >= 1
        BY <3>1, <3>2, FiniteNodes
      <3>4. k1 \in Nat /\ (k1 = 0 => q.numsync = 0)
        <4> DEFINE n == Cardinality(left)
        <4>1. n \in Nat /\ n >= 1 /\ k1 = Min({q.numsync, n})
          BY <3>3
        <4> HIDE DEF n, k1
        <4>2. k1 = IF q.numsync <= n THEN q.numsync ELSE n
          BY <3>2, <4>1, MinOfTwo
        <4>3. QED BY <3>2, <4>1, <4>2
      <3> HIDE DEF left, k1, q1
      <3>5. q.halt = "no" /\ k1 = 0 => Zero(s, q.out)
        BY <3>4 DEF ZeroOnlyFirst
      <3>6. /\ Good(U, s, q1) /\ SameTask(q, q1)
            /\ q1.halt = "no" => q.halt = "no" /\ q1.numsync = k1
            /\ q1.halt = "no" /\ k1 = 0 /\ Zero(s, q.out) => Zero(s, q1.out)
        BY <3>1, <3>2, <3>4, <3>5, SyncUpdateGood
      <3>7. QED BY <3>5, <3>6 DEF ZeroOnlyFirst
    <2>3. QED BY <2>1, <2>2
  <1> HIDE DEF q1
  <1>3. Good(U, s, q2) /\ SameTask(q1, q2) /\ ZeroOnlyFirst(s, q2)
    <2>1. CASE new = {}
      BY <1>2, <2>1 DEF SameTask
    <2>2. CASE new # {}
      <3> DEFINE adjust == TRUE
      <3>1. adjust \in BOOLEAN /\ q2 = QuorumUpdate(q1, k2, q1.voters \cup new, adjust)
        BY <2>2
      <3>2. /\ q1.voters \cup new \in SUBSET (U \ {s.me}) /\ q1.numsync \in Nat
            /\ q1.voters \cup new \in SUBSET U
        BY <1>2, GoodFields
      <3>3. Cardinality(q1.voters \cup new) \in Nat
        BY <3>2, FiniteNodes
      <3>4. k2 \in Int
        BY <3>2, <3>3
      <3> HIDE DEF new, k2, q2, adjust
      <3>5. /\ Good(U, s, q2) /\ SameTask(q1, q2) /\ q2.numsync = q1.numsync
            /\ q2.halt = "no" => q1.halt = "no"
            /\ q2.halt = "no" /\ Zero(s, q1.out) => Zero(s, q2.out)
        BY <1>2, <3>1, <3>2, <3>4, QuorumUpdateGood
      <3>6. QED BY <1>2, <3>5 DEF ZeroOnlyFirst
    <2>3. QED BY <2>1, <2>2
  <1> HIDE DEF q2
  <1>4. SameTask(q, q2)
    BY <1>2, <1>3 DEF SameTask
  <1>5. CASE dead = {}
    BY <1>1, <1>3, <1>4, <1>5
  <1>6. CASE dead # {}
    <2> DEFINE rest == q2.sync \ dead
    <2>1. r = SyncUpdate(q2, k3, rest)
      BY <1>1, <1>6
    <2>2. /\ q2.sync \in SUBSET U /\ dead \in SUBSET U /\ rest \in SUBSET (U \ {s.me})
          /\ rest \in SUBSET U /\ q2.numsync \in Nat
      BY <1>3, GoodFields
    <2>3. /\ IsFiniteSet(q2.sync) /\ Cardinality(q2.sync) \in Nat /\ Cardinality(dead) \in Nat
          /\ Cardinality(rest) \in Nat /\ (rest # {} => Cardinality(rest) >= 1)
      BY <2>2, FiniteNodes
    <2>4. Cardinality(rest) = Cardinality(q2.sync) - Cardinality(dead)
      <3>1. Cardinality(rest) = Cardinality(q2.sync) - Cardinality(q2.sync \cap dead)
        BY <2>3, FS_Difference
      <3>2. q2.sync \cap dead = dead
        OBVIOUS
      <3>3. QED BY <3>1, <3>2
    <2>5. k3 \in Int /\ (k3 = 0 /\ rest # {} => q2.numsync = 0)
      <3> DEFINE n == Cardinality(q2.sync) - Cardinality(dead)
      <3>1. n \in Int /\ k3 = Min({q2.numsync, n}) /\ (rest # {} => n >= 1)
        BY <2>3, <2>4
      <3> HIDE DEF n, k3
      <3>2. k3 = IF q2.numsync <= n THEN q2.numsync ELSE n
        BY <2>2, <3>1, MinOfTwo
      <3>3. QED BY <2>2, <3>1, <3>2
    <2> HIDE DEF rest, k3
    <2>6. q2.halt = "no" /\ k3 = 0 /\ rest # {} => Zero(s, q2.out)
      BY <1>3, <2>5 DEF ZeroOnlyFirst
    <2>7. Good(U, s, r) /\ SameTask(q2, r)
      BY <1>3, <2>1, <2>2, <2>5, <2>6, SyncUpdateGood
    <2>8. QED BY <1>4, <2>7 DEF SameTask
  <1>7. QED BY <1>5, <1>6

(* __handle_non_steady_cases(), a replication factor change in flight: the  *)
(* resolver stays good.                                                     *)
LEMMA ReplicationFactorInFlightGood ==
  ASSUME NEW U, NEW s, IsStart(U, s), NEW q, Good(U, s, q),
         NEW r, r = ReplicationFactorInFlight(q)
  PROVE  /\ Good(U, s, r) /\ SameTask(q, r)
         /\ r.halt = "no" /\ q.voters = q.sync => r.voters = r.sync
         /\ r.halt = "no" => q.halt = "no"
  <1> DEFINE k1 == Max({q.wanted, Cardinality(q.voters) - q.quorum})
             k2 == Cardinality(q.sync) - q.numsync
  <1>1. \/ r = q \/ r = SyncUpdate(q, k1, q.sync)
        \/ r = QuorumUpdate(q, k2, q.voters, TRUE)
    BY DEF ReplicationFactorInFlight
  <1>2. /\ q.voters \in SUBSET (U \ {s.me}) /\ q.sync \in SUBSET (U \ {s.me})
        /\ q.quorum \in Nat /\ q.numsync \in Nat /\ q.wanted \in Nat /\ q.wanted >= 1
    BY GoodFields
  <1>3. Cardinality(q.voters) \in Nat /\ Cardinality(q.sync) \in Nat
    BY <1>2, FiniteNodes
  <1>4. k1 \in Int /\ k1 # 0 /\ k2 \in Int
    BY <1>2, <1>3, MaxOfTwo
  <1> HIDE DEF k1, k2
  <1>5. CASE r = q
    BY <1>5 DEF SameTask
  <1>6. CASE r = SyncUpdate(q, k1, q.sync)
    <2>1. /\ Good(U, s, r) /\ SameTask(q, r) /\ r.voters = q.voters
          /\ r.halt = "no" => q.halt = "no" /\ r.sync = q.sync
      BY <1>2, <1>4, <1>6, SyncUpdateGood
    <2>2. QED BY <2>1
  <1>7. CASE r = QuorumUpdate(q, k2, q.voters, TRUE)
    <2> DEFINE adjust == TRUE
               V == q.voters
    <2>0. adjust \in BOOLEAN /\ V \in SUBSET (U \ {s.me}) /\ r = QuorumUpdate(q, k2, V, adjust)
      BY <1>2, <1>7
    <2> HIDE DEF adjust, V
    <2>1. Good(U, s, r) /\ SameTask(q, r)
      BY <1>4, <2>0, QuorumUpdateGood
    <2>2. r.sync = q.sync /\ (r.halt = "no" => q.halt = "no")
      BY <1>4, <2>0, QuorumUpdateGood
    <2>3. r.halt = "no" => r.voters = V \/ (q.voters = {} /\ r.voters = {})
      BY <1>4, <2>0, QuorumUpdateGood, Z3
    <2>4. QED BY <2>1, <2>2, <2>3 DEF V
  <1>8. QED BY <1>1, <1>5, <1>6, <1>7

(* A failed assertion ends the generator and leaves the rest alone.         *)
LEMMA AssertGood ==
  ASSUME NEW U, NEW s, NEW q, Good(U, s, q), NEW c \in BOOLEAN, NEW r, r = Assert_(q, c)
  PROVE  /\ Good(U, s, r) /\ SameTask(q, r)
         /\ r.voters = q.voters /\ r.sync = q.sync
         /\ r.numsync = q.numsync /\ r.quorum = q.quorum
         /\ r.halt = "no" => r = q /\ c
  <1>1. CASE q.halt = "no" /\ ~c
    <2>1. r = [q EXCEPT !.halt = "assert"]
      BY <1>1 DEF Assert_, Halt
    <2>2. /\ r \in ResolverType(U, s.me) /\ SameTask(q, r) /\ r.halt = "assert" /\ r.out = q.out
          /\ r.voters = q.voters /\ r.sync = q.sync /\ r.numsync = q.numsync
          /\ r.quorum = q.quorum
      BY <2>1 DEF Good, ResolverType, SameTask, Halts
    <2>3. Good(U, s, r)
      BY <2>2 DEF Good, Idle, SameTask
    <2>4. QED BY <2>2, <2>3
  <1>2. CASE ~(q.halt = "no" /\ ~c)
    <2>1. r = q
      BY <1>2 DEF Assert_
    <2>2. QED BY <1>2, <2>1 DEF SameTask
  <1>3. QED BY <1>1, <1>2

(* __handle_non_steady_cases() keeps the resolver good and leaves voters    *)
(* and sync equal unless it has returned.                                   *)
LEMMA HandleNonSteadyCasesGood ==
  ASSUME NEW U, NEW s, IsStart(U, s), NEW q, Good(U, s, q), ZeroOnlyFirst(s, q),
         NEW r, r = HandleNonSteadyCases(q)
  PROVE  /\ Good(U, s, r) /\ SameTask(q, r)
         /\ r.halt = "no" => r.voters = r.sync
  <1> DEFINE q1 == CASE q.sync \subseteq q.voters /\ q.sync # q.voters -> SyncIsSubset(q)
                     [] q.voters \subseteq q.sync /\ q.sync # q.voters -> SyncIsSuperset(q)
                     [] OTHER -> q
             steady == q1.voters = q1.sync
             q2 == Assert_(q1, steady)
  <1>1. r = ReplicationFactorInFlight(q2)
    BY DEF HandleNonSteadyCases
  <1>2. Good(U, s, q1) /\ SameTask(q, q1)
    <2>1. CASE q.sync \subseteq q.voters /\ q.sync # q.voters
      <3>1. q1 = SyncIsSubset(q)
        BY <2>1
      <3>2. QED BY <3>1, SyncIsSubsetGood
    <2>2. CASE q.voters \subseteq q.sync /\ q.sync # q.voters
      <3>1. q1 = SyncIsSuperset(q)
        BY <2>2
      <3>2. QED BY <3>1, SyncIsSupersetGood
    <2>3. CASE /\ ~(q.sync \subseteq q.voters /\ q.sync # q.voters)
               /\ ~(q.voters \subseteq q.sync /\ q.sync # q.voters)
      <3>1. q1 = q
        BY <2>3
      <3>2. QED BY <3>1 DEF SameTask
    <2>4. QED BY <2>1, <2>2, <2>3
  <1> HIDE DEF q1
  <1>3. steady \in BOOLEAN /\ q2 = Assert_(q1, steady)
    OBVIOUS
  <1> HIDE DEF q2, steady
  <1>4. Good(U, s, q2) /\ SameTask(q1, q2) /\ (q2.halt = "no" => q2 = q1 /\ steady)
    BY <1>2, <1>3, AssertGood
  <1>5. /\ Good(U, s, r) /\ SameTask(q2, r)
        /\ r.halt = "no" /\ q2.voters = q2.sync => r.voters = r.sync
        /\ r.halt = "no" => q2.halt = "no"
    BY <1>1, <1>4, ReplicationFactorInFlightGood
  <1>6. SameTask(q, r)
    BY <1>2, <1>4, <1>5 DEF SameTask
  <1>7. r.halt = "no" => r.voters = r.sync
    BY <1>4, <1>5 DEF steady
  <1>8. QED BY <1>5, <1>6, <1>7

(* __remove_gone_nodes() with nobody left to wait for keeps the resolver    *)
(* good.                                                                    *)
LEMMA RemoveAllNodesGood ==
  ASSUME NEW U, NEW s, IsStart(U, s), NEW q, Good(U, s, q), NEW r, r = RemoveAllNodes(q)
  PROVE  Good(U, s, r) /\ SameTask(q, r)
  <1> DEFINE adjust == FALSE
             q1 == QuorumUpdate(q, 0, {}, adjust)
  <1>1. /\ r = SyncUpdate(q1, 0, {}) /\ adjust \in BOOLEAN /\ {} \in SUBSET (U \ {s.me})
        /\ q1 = QuorumUpdate(q, 0, {}, adjust) /\ 0 \in Int
    BY DEF RemoveAllNodes
  <1> HIDE DEF adjust, q1
  <1>2. Good(U, s, q1) /\ SameTask(q, q1)
    BY <1>1, QuorumUpdateGood
  <1>3. Good(U, s, r) /\ SameTask(q1, r)
    BY <1>1, <1>2, SyncUpdateGood
  <1>4. QED BY <1>2, <1>3 DEF SameTask

(* __remove_gone_nodes(), the quorum that shrinks before nodes are removed, *)
(* keeps the resolver good.                                                 *)
LEMMA ReduceQuorumFirstGood ==
  ASSUME NEW U, NEW s, IsStart(U, s), NEW q, Good(U, s, q), NEW gone,
         NEW r, r = ReduceQuorumFirst(q, gone)
  PROVE  /\ Good(U, s, r) /\ SameTask(q, r)
         /\ r.halt = "no" /\ q.voters = q.sync /\ q.sync # {} => r.voters = r.sync
  <1> DEFINE remove == Last_(gone, q.quorum)
             sync   == q.sync \ remove
             most   == IF q.wanted > q.numsync THEN q.wanted ELSE q.numsync
             k      == Min({most, Cardinality(sync)})
             q1     == SyncUpdate(q, k, sync)
             voters == q1.voters \ remove
             k2     == Cardinality(voters) - q1.numsync
             adjust == gone \cap q1.sync = {}
  <1>1. r = QuorumUpdate(q1, k2, voters, adjust)
    BY DEF ReduceQuorumFirst
  <1>2. /\ q.sync \in SUBSET (U \ {s.me}) /\ q.wanted \in Nat /\ q.wanted >= 1
        /\ q.numsync \in Nat
    BY GoodFields
  <1>3. /\ sync \in SUBSET (U \ {s.me}) /\ Cardinality(sync) \in Nat
        /\ sync # {} => Cardinality(sync) >= 1
    <2>1. sync \in SUBSET (U \ {s.me}) /\ sync \in SUBSET U
      BY <1>2
    <2>2. QED BY <2>1, FiniteNodes
  <1>4. k \in Int /\ (k = 0 => sync = {})
    <2> DEFINE n == Cardinality(sync)
    <2>1. n \in Nat /\ (sync # {} => n >= 1) /\ k = Min({most, n})
      BY <1>3
    <2>2. most \in Nat /\ most >= 1
      BY <1>2
    <2> HIDE DEF n, k, most, sync
    <2>3. k = IF most <= n THEN most ELSE n
      BY <2>1, <2>2, MinOfTwo
    <2>4. QED BY <2>1, <2>2, <2>3
  <1>5. q1 = SyncUpdate(q, k, sync)
    OBVIOUS
  <1> HIDE DEF q1, k
  <1>6. /\ Good(U, s, q1) /\ SameTask(q, q1) /\ q1.voters = q.voters
        /\ q1.halt = "no" => q1.sync = sync
    <2> HIDE DEF sync
    <2>1. QED BY <1>3, <1>4, <1>5, SyncUpdateGood
  <1>7. voters \in SUBSET (U \ {s.me}) /\ k2 \in Int /\ adjust \in BOOLEAN
    <2>1. q1.numsync \in Nat /\ voters \in SUBSET (U \ {s.me}) /\ voters \in SUBSET U
      BY <1>6, GoodFields
    <2>2. Cardinality(voters) \in Nat
      BY <2>1, FiniteNodes
    <2>3. QED BY <2>1, <2>2
  <1>8. /\ Good(U, s, r) /\ SameTask(q1, r) /\ r.sync = q1.sync
        /\ r.halt = "no" => q1.halt = "no"
        /\ r.halt = "no" => r.voters = voters \/ (q1.voters = {} /\ r.voters = {})
    <2> HIDE DEF voters, k2, adjust, sync
    <2>1. Good(U, s, q1)
      BY <1>6
    <2>2. QED BY <1>1, <1>7, <2>1, QuorumUpdateGood
  <1>9. SameTask(q, r)
    BY <1>6, <1>8 DEF SameTask
  <1>10. QED BY <1>6, <1>8, <1>9

(* Here check_invariants() is what keeps numsync from becoming 0: with      *)
(* quorum = 0 every listed standby is needed.                               *)
LEMMA ReduceSyncGood ==
  ASSUME NEW U, NEW s, IsStart(U, s), NEW q, Good(U, s, q),
         NEW gone \in SUBSET q.sync, q.halt = "no" => q.voters = q.sync,
         NEW r, r = ReduceSync(q, gone)
  PROVE  Good(U, s, r) /\ SameTask(q, r)
  <1> DEFINE k        == q.numsync - Cardinality(gone)
             sync     == q.sync \ gone
             voters   == q.voters \ gone
             decrease == k - Min({q.wanted, Cardinality(sync)})
             quorum   == IF decrease = 0 THEN 0 ELSE Min({decrease, Cardinality(voters) - 1})
             none     == q.quorum = 0
             adjust   == FALSE
             q1       == Assert_(q, none)
             q2       == QuorumUpdate(q1, quorum, voters, adjust)
  <1>1. r = SyncUpdate(q2, k, sync)
    BY DEF ReduceSync
  <1>2. /\ q.sync \in SUBSET (U \ {s.me}) /\ q.wanted \in Nat /\ q.numsync \in Nat
        /\ q.voters \in SUBSET (U \ {s.me}) /\ q.me = s.me /\ q.leader = s.me
    BY GoodFields
  <1>3. /\ sync \in SUBSET U /\ voters \in SUBSET U /\ gone \in SUBSET U /\ q.sync \in SUBSET U
        /\ sync \in SUBSET (U \ {s.me}) /\ voters \in SUBSET (U \ {s.me})
    BY <1>2
  <1>4. /\ Cardinality(sync) \in Nat /\ Cardinality(voters) \in Nat
        /\ Cardinality(gone) \in Nat /\ Cardinality(q.sync) \in Nat
        /\ sync # {} => Cardinality(sync) >= 1
        /\ IsFiniteSet(q.sync)
    BY <1>3, FiniteNodes
  <1>5. k \in Int /\ quorum \in Int
    <2>1. k \in Int /\ Cardinality(voters) - 1 \in Int
      BY <1>2, <1>4
    <2>2. Min({q.wanted, Cardinality(sync)}) \in Int
      <3> DEFINE n == Cardinality(sync)
      <3>1. n \in Int /\ q.wanted \in Int
        BY <1>2, <1>4
      <3> HIDE DEF n
      <3>2. Min({q.wanted, n}) \in Int
        BY <3>1, MinOfTwo
      <3>3. QED BY <3>2 DEF n
    <2>3. decrease \in Int
      BY <2>1, <2>2
    <2> HIDE DEF decrease
    <2>4. Min({decrease, Cardinality(voters) - 1}) \in Int
      BY <2>1, <2>3, MinOfTwo
    <2>5. QED BY <2>1, <2>4
  <1>6. q1 = Assert_(q, none) /\ none \in BOOLEAN
    OBVIOUS
  <1>7. q2 = QuorumUpdate(q1, quorum, voters, adjust) /\ adjust \in BOOLEAN
    OBVIOUS
  <1> HIDE DEF q1, q2, quorum, none, adjust
  <1>8. Good(U, s, q1) /\ SameTask(q, q1) /\ (q1.halt = "no" => q1 = q /\ none)
    BY <1>6, AssertGood
  <1>9. Good(U, s, q2) /\ SameTask(q1, q2) /\ (q2.halt = "no" => q1.halt = "no")
    <2>1. Good(U, s, q1) /\ voters \in SUBSET (U \ {s.me}) /\ quorum \in Int
      BY <1>3, <1>5, <1>8
    <2> HIDE DEF voters
    <2>2. QED BY <1>7, <2>1, QuorumUpdateGood
  <1>10. q2.halt = "no" /\ sync # {} => k # 0
    <2> SUFFICES ASSUME q2.halt = "no", sync # {} PROVE k # 0
      OBVIOUS
    <2>1. q.halt = "no" /\ q.quorum = 0 /\ q.voters = q.sync /\ CheckInvariants(q)
      BY <1>8, <1>9 DEF none, Good
    <2>2. Cardinality((q.sync \cup {s.me}) \cup (q.sync \cup {s.me})) <= 0 + q.numsync + 1
      BY <1>2, <2>1 DEF CheckInvariants
    <2>3. (q.sync \cup {s.me}) \cup (q.sync \cup {s.me}) = q.sync \cup {s.me}
      OBVIOUS
    <2>4. Cardinality(q.sync \cup {s.me}) = Cardinality(q.sync) + 1
      BY <1>2, <1>4, FS_AddElement
    <2>5. Cardinality(sync) = Cardinality(q.sync) - Cardinality(gone)
      <3>1. Cardinality(sync) = Cardinality(q.sync) - Cardinality(q.sync \cap gone)
        BY <1>4, FS_Difference
      <3>2. q.sync \cap gone = gone
        OBVIOUS
      <3>3. QED BY <3>1, <3>2
    <2> DEFINE a == Cardinality(sync)
               b == Cardinality(q.sync)
               c == Cardinality(gone)
    <2>6. /\ a \in Nat /\ b \in Nat /\ c \in Nat /\ a >= 1 /\ a = b - c
          /\ b + 1 <= 0 + q.numsync + 1 /\ k = q.numsync - c
      BY <1>4, <2>2, <2>3, <2>4, <2>5
    <2> HIDE DEF a, b, c, k
    <2>7. QED BY <1>2, <2>6
  <1> HIDE DEF sync, k
  <1>11. Good(U, s, r) /\ SameTask(q2, r)
    BY <1>1, <1>3, <1>5, <1>9, <1>10, SyncUpdateGood
  <1>12. QED BY <1>8, <1>9, <1>11 DEF SameTask

(* __remove_gone_nodes() keeps the resolver good.                           *)
LEMMA RemoveGoneNodesGood ==
  ASSUME NEW U, NEW s, IsStart(U, s), NEW q, Good(U, s, q),
         q.halt = "no" => q.voters = q.sync, NEW r, r = RemoveGoneNodes(q)
  PROVE  Good(U, s, r) /\ SameTask(q, r)
  <1> DEFINE gone == q.sync \ q.active
             q1   == IF q.quorum = 0 THEN q ELSE ReduceQuorumFirst(q, gone)
             rest == IF q.quorum = 0 THEN gone ELSE gone \cap q1.sync
  <1>1. CASE gone = {}
    <2>1. r = q
      BY <1>1 DEF RemoveGoneNodes
    <2>2. QED BY <2>1 DEF SameTask
  <1>2. CASE gone # {} /\ gone = q.sync
    <2>1. r = RemoveAllNodes(q)
      BY <1>2 DEF RemoveGoneNodes
    <2>2. QED BY <2>1, RemoveAllNodesGood
  <1>3. CASE gone # {} /\ gone # q.sync
    <2>1. r = IF rest = {} THEN q1 ELSE ReduceSync(q1, rest)
      BY <1>3 DEF RemoveGoneNodes
    <2>2. /\ Good(U, s, q1) /\ SameTask(q, q1)
          /\ q1.halt = "no" => q1.voters = q1.sync
      <3>1. CASE q.quorum = 0
        BY <3>1 DEF SameTask
      <3>2. CASE q.quorum # 0
        <4>1. q1 = ReduceQuorumFirst(q, gone) /\ q.sync # {}
          BY <1>3, <3>2
        <4> HIDE DEF q1, gone
        <4>2. /\ Good(U, s, q1) /\ SameTask(q, q1)
              /\ q1.halt = "no" /\ q.voters = q.sync /\ q.sync # {} => q1.voters = q1.sync
          BY <4>1, ReduceQuorumFirstGood
        <4>3. q1.halt = "no" => q.halt = "no"
          <5>1. CASE q.halt # "no"
            <6>1. \A numsync, sync : SyncUpdate(q, numsync, sync) = q
              BY <5>1, Zenon DEF SyncUpdate
            <6>2. q1 = q
              <7> DEFINE remove  == Last_(gone, q.quorum)
                         numsync == Min({IF q.wanted > q.numsync THEN q.wanted ELSE q.numsync,
                                         Cardinality(q.sync \ remove)})
                         qs      == SyncUpdate(q, numsync, q.sync \ remove)
                         voters  == qs.voters \ remove
              <7>1. q1 = QuorumUpdate(qs, Cardinality(voters) - qs.numsync, voters, gone \cap qs.sync = {})
                BY <4>1, Zenon DEF ReduceQuorumFirst
              <7>2. qs = q
                BY <6>1, Zenon
              <7> HIDE DEF qs, voters
              <7>3. q1 = QuorumUpdate(q, Cardinality(voters) - qs.numsync, voters, gone \cap qs.sync = {})
                BY <7>1, <7>2
              <7>4. QED BY <5>1, <7>3, Zenon DEF QuorumUpdate
            <6>3. QED BY <5>1, <6>2
          <5>2. QED BY <5>1
        <4>4. QED BY <4>1, <4>2, <4>3
      <3>3. QED BY <3>1, <3>2
    <2>3. rest \in SUBSET q1.sync
      OBVIOUS
    <2> HIDE DEF q1, rest
    <2>4. CASE rest = {}
      BY <2>1, <2>2, <2>4
    <2>5. CASE rest # {}
      <3>1. r = ReduceSync(q1, rest)
        BY <2>1, <2>5
      <3>2. Good(U, s, r) /\ SameTask(q1, r)
        BY <2>2, <2>3, <3>1, ReduceSyncGood
      <3>3. QED BY <2>2, <3>2 DEF SameTask
    <2>6. QED BY <2>4, <2>5
  <1>4. QED BY <1>1, <1>2, <1>3

(* __add_new_nodes() keeps the resolver good.                               *)
LEMMA AddNewNodesGood ==
  ASSUME NEW U, NEW s, IsStart(U, s), NEW q, Good(U, s, q), NEW r, r = AddNewNodes(q)
  PROVE  Good(U, s, r) /\ SameTask(q, r)
  <1> DEFINE new    == q.active \ q.sync
             all    == Cardinality(q.sync \cup new)
             wanted == Min({q.wanted, all})
             add    == IF q.sync = {} THEN new ELSE First(new, wanted - q.numsync)
             sync   == q.sync \cup add
             k1     == q.numsync + RaiseBy(q, wanted, add)
             q0     == SyncUpdate(q, k1, sync)
             more   == q.voters \cup add
             k2     == Cardinality(more) - wanted
             adjust == TRUE
             q1     == IF wanted > q.numsync THEN QuorumUpdate(q0, k2, more, adjust) ELSE q
             rest   == new \ q1.sync
             voters == q1.voters \cup rest
             k3     == Cardinality(voters) - wanted
             below  == wanted > q1.confirmed
             q2     == QuorumUpdate(q1, k3, voters, below)
             last   == q2.sync \cup rest
  <1>1. r = IF new = {} \/ rest = {} THEN IF new = {} THEN q ELSE q1
            ELSE SyncUpdate(q2, wanted, last)
    BY DEF AddNewNodes
  <1>2. /\ q.sync \in SUBSET (U \ {s.me}) /\ q.active \in SUBSET (U \ {s.me})
        /\ q.voters \in SUBSET (U \ {s.me})
        /\ q.wanted \in Nat /\ q.wanted >= 1 /\ q.numsync \in Nat
    BY GoodFields
  <1>3. CASE new = {}
    <2>1. r = q
      BY <1>1, <1>3
    <2>2. QED BY <2>1 DEF SameTask
  <1>4. CASE new # {}
    <2>1. new \in SUBSET (U \ {s.me}) /\ add \in SUBSET new
      BY <1>2 DEF First
    <2>2. wanted \in Nat /\ wanted >= 1
      <3>1. q.sync \cup new \in SUBSET U /\ q.sync \cup new # {}
        BY <1>2, <1>4
      <3>2. all \in Nat /\ all >= 1
        BY <3>1, FiniteNodes
      <3> HIDE DEF all, new
      <3>3. wanted = IF q.wanted <= all THEN q.wanted ELSE all
        BY <1>2, <3>2, MinOfTwo
      <3> HIDE DEF wanted
      <3>4. QED BY <1>2, <3>2, <3>3
    <2> HIDE DEF wanted
    <2>3. Good(U, s, q1) /\ SameTask(q, q1)
      <3>1. CASE ~(wanted > q.numsync)
        BY <3>1 DEF SameTask
      <3>2. CASE wanted > q.numsync
        <4>1. q1 = QuorumUpdate(q0, k2, more, adjust) /\ q0 = SyncUpdate(q, k1, sync)
          BY <3>2
        <4>2. /\ sync \in SUBSET (U \ {s.me}) /\ add \in SUBSET U
              /\ more \in SUBSET (U \ {s.me}) /\ more \in SUBSET U /\ adjust \in BOOLEAN
          BY <1>2, <2>1
        <4>3. Cardinality(add) \in Nat /\ Cardinality(more) \in Nat
          <5> HIDE DEF add, more
          <5>1. QED BY <4>2, FiniteNodes
        <4> HIDE DEF q0, more, adjust, q1, new
        <4>4. k1 \in Int /\ (k1 = 0 => q.numsync = 0 /\ q.sync # {})
          <5>1. CASE q.sync = {}
            <6>1. k1 = q.numsync + (wanted - q.numsync)
              BY <5>1 DEF RaiseBy
            <6> HIDE DEF k1
            <6>2. QED BY <1>2, <2>2, <6>1
          <5>2. CASE q.sync # {}
            <6> HIDE DEF add
            <6>1. k1 = q.numsync + Cardinality(add)
              BY <5>2 DEF RaiseBy
            <6> HIDE DEF k1
            <6>2. QED BY <1>2, <4>3, <5>2, <6>1
          <5>3. QED BY <5>1, <5>2
        <4>5. k2 \in Int
          BY <2>2, <4>3
        <4> HIDE DEF k1, k2, sync
        <4>6. q.halt = "no" /\ k1 = 0 /\ sync # {} => Zero(s, q.out)
          BY <4>4 DEF Good
        <4>7. Good(U, s, q0) /\ SameTask(q, q0)
          BY <4>1, <4>2, <4>4, <4>6, SyncUpdateGood
        <4>8. Good(U, s, q1) /\ SameTask(q0, q1)
          BY <4>1, <4>2, <4>5, <4>7, QuorumUpdateGood
        <4>9. QED BY <4>7, <4>8 DEF SameTask
      <3>3. QED BY <3>1, <3>2
    <2> HIDE DEF q1, new
    <2>4. CASE rest = {}
      BY <1>1, <1>4, <2>3, <2>4
    <2>5. CASE rest # {}
      <3>1. r = SyncUpdate(q2, wanted, last) /\ q2 = QuorumUpdate(q1, k3, voters, below)
        BY <1>1, <1>4, <2>5
      <3>2. /\ rest \in SUBSET (U \ {s.me}) /\ voters \in SUBSET (U \ {s.me})
            /\ voters \in SUBSET U /\ below \in BOOLEAN
        BY <2>1, <2>3, GoodFields
      <3>3. k3 \in Int
        <4>1. Cardinality(voters) \in Nat
          BY <3>2, FiniteNodes
        <4>2. QED BY <2>2, <4>1
      <3> HIDE DEF q2, k3, voters, below, rest
      <3>4. Good(U, s, q2) /\ SameTask(q1, q2)
        BY <2>3, <3>1, <3>2, <3>3, QuorumUpdateGood
      <3>5. last \in SUBSET (U \ {s.me}) /\ wanted \in Int /\ wanted # 0
        BY <2>2, <3>2, <3>4, GoodFields
      <3> HIDE DEF last
      <3>6. Good(U, s, r) /\ SameTask(q2, r)
        BY <3>1, <3>4, <3>5, SyncUpdateGood
      <3>7. QED BY <2>3, <3>4, <3>6 DEF SameTask
    <2>6. QED BY <2>4, <2>5
  <1>5. QED BY <1>3, <1>4

(* __handle_replication_factor_change() keeps the resolver good.            *)
LEMMA HandleReplicationFactorChangeGood ==
  ASSUME NEW U, NEW s, IsStart(U, s), NEW q, Good(U, s, q),
         NEW r, r = HandleReplicationFactorChange(q)
  PROVE  Good(U, s, r) /\ SameTask(q, r)
  <1> DEFINE most     == Min({q.wanted, Cardinality(q.sync)})
             increase == most - q.numsync
             k1       == q.numsync + increase
             up       == SyncUpdate(q, k1, q.sync)
             k2       == Cardinality(up.voters) - up.numsync
             yes      == TRUE
             k3       == Cardinality(q.voters) - q.numsync - increase
             below    == q.wanted > q.confirmed
             down     == IF q.quorum - increase < Cardinality(q.voters)
                         THEN QuorumUpdate(q, k3, q.voters, below) ELSE q
             k4       == down.numsync + increase
             raised   == QuorumUpdate(up, k2, up.voters, yes)
             lowered  == SyncUpdate(down, k4, down.sync)
  <1>1. r = CASE increase > 0 -> raised [] increase < 0 -> lowered [] increase = 0 -> q
    BY DEF HandleReplicationFactorChange
  <1>2. /\ q.sync \in SUBSET (U \ {s.me}) /\ q.voters \in SUBSET (U \ {s.me})
        /\ q.sync \in SUBSET U /\ q.voters \in SUBSET U
        /\ q.wanted \in Nat /\ q.wanted >= 1 /\ q.numsync \in Nat
    BY GoodFields
  <1>3. /\ Cardinality(q.voters) \in Nat /\ Cardinality(q.sync) \in Nat
        /\ q.sync # {} => Cardinality(q.sync) >= 1
    BY <1>2, FiniteNodes
  <1>4. most \in Nat /\ (most = 0 => q.sync = {})
    <2> DEFINE n == Cardinality(q.sync)
    <2>1. n \in Nat /\ (q.sync # {} => n >= 1) /\ most = Min({q.wanted, n})
      BY <1>3
    <2> HIDE DEF n, most
    <2>2. most = IF q.wanted <= n THEN q.wanted ELSE n
      BY <1>2, <2>1, MinOfTwo
    <2>3. QED BY <1>2, <2>1, <2>2
  <1> HIDE DEF most
  <1>5. increase \in Int /\ k1 = most /\ k3 \in Int
    BY <1>2, <1>3, <1>4
  <1>6. CASE increase > 0
    <2>1. r = QuorumUpdate(up, k2, up.voters, yes) /\ yes \in BOOLEAN
      <3> HIDE DEF raised, lowered, increase
      <3>1. r = raised
        BY <1>1, <1>5, <1>6
      <3>2. QED BY <3>1 DEF raised
    <2>2. k1 \in Int /\ k1 # 0
      BY <1>2, <1>4, <1>5, <1>6
    <2>3. up = SyncUpdate(q, k1, q.sync)
      OBVIOUS
    <2> HIDE DEF up, k1
    <2>4. Good(U, s, up) /\ SameTask(q, up)
      BY <1>2, <2>2, <2>3, SyncUpdateGood
    <2>5. up.voters \in SUBSET (U \ {s.me}) /\ up.voters \in SUBSET U /\ up.numsync \in Nat
      BY <2>4, GoodFields
    <2>6. Cardinality(up.voters) \in Nat
      BY <2>5, FiniteNodes
    <2>7. k2 \in Int
      BY <2>5, <2>6
    <2> HIDE DEF k2, yes
    <2>8. Good(U, s, r) /\ SameTask(up, r)
      BY <2>1, <2>4, <2>5, <2>7, QuorumUpdateGood
    <2>9. QED BY <2>4, <2>8 DEF SameTask
  <1>7. CASE increase < 0
    <2>1. r = SyncUpdate(down, k4, down.sync)
      <3> HIDE DEF raised, lowered, increase
      <3>1. r = lowered
        BY <1>1, <1>5, <1>7
      <3>2. QED BY <3>1 DEF lowered
    <2>2. Good(U, s, down) /\ SameTask(q, down) /\ down.sync = q.sync /\ down.numsync = q.numsync
      <3>1. CASE q.quorum - increase < Cardinality(q.voters)
        <4>1. down = QuorumUpdate(q, k3, q.voters, below) /\ below \in BOOLEAN
          BY <3>1
        <4>2. k3 \in Int
          BY <1>5
        <4> HIDE DEF down, k3, below
        <4>3. QED BY <1>2, <4>1, <4>2, QuorumUpdateGood
      <3>2. CASE ~(q.quorum - increase < Cardinality(q.voters))
        <4>1. down = q
          BY <3>2
        <4>2. QED BY <4>1 DEF SameTask
      <3>3. QED BY <3>1, <3>2
    <2> HIDE DEF down
    <2>3. k4 \in Int /\ (k4 = 0 => down.sync = {})
      BY <1>2, <1>4, <2>2
    <2> HIDE DEF k4
    <2>4. down.sync \in SUBSET (U \ {s.me})
      BY <1>2, <2>2
    <2>5. Good(U, s, r) /\ SameTask(down, r)
      BY <2>1, <2>2, <2>3, <2>4, SyncUpdateGood
    <2>6. QED BY <2>2, <2>5 DEF SameTask
  <1>8. CASE increase = 0
    <2>1. r = q
      <3> HIDE DEF raised, lowered, increase
      <3>1. QED BY <1>1, <1>5, <1>8
    <2>2. QED BY <2>1 DEF SameTask
  <1>9. QED
    <2> HIDE DEF increase
    <2>1. increase > 0 \/ increase < 0 \/ increase = 0
      BY <1>5
    <2>2. QED BY <1>6, <1>7, <1>8, <2>1

-----------------------------------------------------------------------------
(* The generator from its start. *)

(* q is constructed from the places s.                                      *)
IsInput(U, s, q) ==
  /\ q \in ResolverType(U, s.me) /\ q.out = <<>> /\ q.halt = "no"
  /\ q.leader = s.key.leader /\ q.quorum = s.key.num /\ q.voters = s.key.names
  /\ q.numsync = s.list.num /\ q.sync = s.list.names
  /\ q.active = {} => q.confirmed = 0

(* A resolver that has emitted nothing has changed nothing.                 *)
LEMMA NothingEmitted ==
  ASSUME NEW s
  PROVE  /\ Sound(s, <<>>) /\ NoVoters(<<>>) /\ KeyAfter(s, <<>>) = s.key
         /\ ListAfter(s, <<>>) = s.list /\ (s.list.num = 0 => Zero(s, <<>>))
  BY DEF Sound, NoVoters, KeyAfter, ListAfter, Zero, AllZero

(* With the right leader in the key, a QuorumError is answered by a key     *)
(* that overlaps with the list, whatever the key was before.                *)
LEMMA RecoverGood ==
  ASSUME NEW U, NEW s, IsStart(U, s), NEW q \in ResolverType(U, s.me),
         q.leader = s.me, s.me \notin q.voters, q.halt = "error", ~CheckInvariants(q),
         Sound(s, q.out), Restarted(q.out) \/ TracksList(s, q),
         q.numsync = 0 => Zero(s, q.out), Idle(s, q),
         NEW r, r = RecoverFromError(q)
  PROVE  Good(U, s, r) /\ ZeroOnlyFirst(s, r) /\ SameTask(q, r)
  <1> DEFINE p      == [q EXCEPT !.halt = "no"]
             k      == Cardinality(q.sync) - q.numsync
             empty  == q.confirmed = 0 /\ q.voters = {}
             more   == Max({q.numsync - q.confirmed, 0})
             quorum == IF empty THEN 0 ELSE k + more
             voters == IF empty THEN {} ELSE q.sync
  <1>1. /\ p \in ResolverType(U, s.me) /\ SameTask(q, p) /\ p.halt = "no" /\ p.out = q.out
        /\ p.voters = q.voters /\ p.quorum = q.quorum /\ p.sync = q.sync
        /\ p.numsync = q.numsync /\ p.confirmed = q.confirmed
    BY DEF ResolverType, Halts, SameTask
  <1>2. r = QuorumUpdate(p, k, q.sync, TRUE)
    BY DEF RecoverFromError, Halt
  <1> HIDE DEF p
  <1>3. CASE BadQuorum(k, q.sync)
    <2>1. r = [p EXCEPT !.halt = "error"]
      BY <1>1, <1>2, <1>3 DEF QuorumUpdate, Halt
    <2>2. /\ r \in ResolverType(U, s.me) /\ SameTask(q, r) /\ r.halt = "error"
          /\ r.voters = q.voters /\ r.out = q.out
      BY <1>1, <2>1 DEF ResolverType, SameTask, Halts
    <2>3. Idle(s, r)
      BY <2>2 DEF Idle, SameTask
    <2>4. QED BY <2>2, <2>3 DEF Good, SameTask, ZeroOnlyFirst
  <1>4. CASE ~BadQuorum(k, q.sync)
    <2>1. /\ q.sync \in SUBSET (U \ {s.me}) /\ q.sync \in SUBSET U /\ q.me = s.me
          /\ q.numsync \in Nat /\ q.confirmed \in Int /\ q.quorum \in Nat
      BY DEF ResolverType
    <2>2. Cardinality(q.sync) \in Nat /\ IsFiniteSet(q.sync)
      BY <2>1, FiniteNodes
    <2>3. more \in Nat
      BY <2>1, MaxOfTwo
    <2> HIDE DEF more
    <2>4. quorum \in Nat /\ voters \in SUBSET (U \ {s.me})
      BY <1>4, <2>1, <2>2, <2>3 DEF BadQuorum
    <2>5. r = StoreQuorum(p, p.leader, quorum, voters)
      BY <1>1, <1>2, <1>4 DEF QuorumUpdate, more
    <2>6. ~(quorum = p.quorum /\ voters = p.voters /\ voters # {})
      <3> SUFFICES ASSUME quorum = q.quorum, voters = q.voters, voters # {} PROVE FALSE
        BY <1>1
      <3>1. q.voters = q.sync /\ q.quorum = k + more
        OBVIOUS
      <3>2. (q.voters \cup {q.leader}) \cup (q.sync \cup {q.me}) = q.sync \cup {s.me}
        BY <2>1, <3>1
      <3>3. Cardinality(q.sync \cup {s.me}) = Cardinality(q.sync) + 1
        BY <2>1, <2>2, FS_AddElement
      <3> DEFINE n == Cardinality(q.sync)
      <3>4. n \in Nat /\ q.quorum = n - q.numsync + more
        BY <2>2, <3>1
      <3> HIDE DEF n, quorum
      <3>5. n + 1 <= q.quorum + q.numsync + 1
        BY <2>1, <2>3, <3>4
      <3>6. CheckInvariants(q)
        BY <2>1, <3>1, <3>2, <3>3, <3>5 DEF CheckInvariants, n
      <3>7. QED BY <3>6
    <2> HIDE DEF quorum, voters
    <2>7. /\ p.leader = s.me /\ s.me \notin p.voters /\ Sound(s, p.out)
          /\ Restarted(p.out) \/ TracksList(s, p)
      BY <1>1 DEF SameTask, TracksList
    <2>15. Stored(U, s, p, quorum, voters, r)
      BY <1>1, <2>4, <2>5, <2>6, <2>7, StoreSound
    <2>8. /\ r \in ResolverType(U, s.me) /\ SameTask(p, r) /\ r.halt \in {"no", "error"}
          /\ r.voters = voters /\ r.quorum = quorum /\ r.sync = p.sync /\ r.numsync = p.numsync
          /\ r.halt = "no" => Tracked(s, r) /\ CheckInvariants(r)
          /\ r.halt = "no" /\ Zero(s, p.out) => Zero(s, r.out)
          /\ NoVoters(p.out) /\ voters = {} => NoVoters(r.out)
      BY <2>15 DEF Stored
    <2>9. SameTask(q, r)
      BY <1>1, <2>8 DEF SameTask
    <2>10. Idle(s, r)
      <3>1. q.confirmed = 0 /\ q.voters = {} => voters = {}
        BY DEF voters
      <3>2. QED BY <1>1, <2>8, <2>9, <3>1 DEF Idle, SameTask
    <2>11. ZeroOnlyFirst(s, r)
      BY <1>1, <2>8 DEF ZeroOnlyFirst
    <2>12. r.leader = s.me /\ s.me \notin r.voters
      BY <2>4, <2>8, <2>9 DEF SameTask
    <2>13. Good(U, s, r)
      BY <2>8, <2>10, <2>11, <2>12 DEF Good, ZeroOnlyFirst
    <2>14. QED BY <2>9, <2>11, <2>13
  <1>5. QED BY <1>3, <1>4

(* With another leader in the key it ends in a failed assertion.            *)
LEMMA RecoverKeepsLeader ==
  ASSUME NEW U, NEW s, NEW q \in ResolverType(U, s.me), q.halt = "error",
         NEW r, r = RecoverFromError(q)
  PROVE  /\ r.leader = q.leader /\ r.me = q.me /\ r.halt \in {"no", "error"}
         /\ [r EXCEPT !.halt = "assert"].halt = "assert"
  <1> DEFINE p == [q EXCEPT !.halt = "no"]
             k == Cardinality(q.sync) - q.numsync
  <1>1. r = QuorumUpdate(p, k, q.sync, TRUE)
    BY DEF RecoverFromError, Halt
  <1>2. p \in ResolverType(U, s.me) /\ p.leader = q.leader /\ p.me = q.me /\ p.halt = "no"
    BY DEF ResolverType, Halts
  <1> HIDE DEF p
  <1>3. \/ r = [p EXCEPT !.halt = "error"]
        \/ \E n, V : r = StoreQuorum(p, p.leader, n, V)
    BY <1>1, <1>2, Zenon DEF QuorumUpdate, Halt
  <1>4. ASSUME NEW n, NEW V, r = StoreQuorum(p, p.leader, n, V)
        PROVE  /\ r.leader = q.leader /\ r.me = q.me /\ r.halt \in {"no", "error"}
               /\ [r EXCEPT !.halt = "assert"].halt = "assert"
    <2> DEFINE same == <<p.leader, n, V>> = <<p.leader, p.quorum, p.voters>>
               hint == Transition("restart", p.leader, p.quorum, p.voters)
               out  == IF same THEN Emit(p.out, hint) ELSE p.out
               new  == [p EXCEPT !.leader = p.leader, !.quorum = n, !.voters = V, !.out = out]
               t    == Transition("quorum", p.leader, n, V)
    <2>1. r = p \/ r = Yield(new, t)
      BY <1>4 DEF StoreQuorum
    <2> HIDE DEF out, t
    <2>2. new.leader = p.leader /\ new.me = p.me /\ new.halt = "no"
      BY <1>2 DEF ResolverType
    <2>3. \A x : /\ [new EXCEPT !.out = x].leader = p.leader /\ [new EXCEPT !.out = x].me = p.me
                 /\ [new EXCEPT !.out = x].halt = "no"
                 /\ [new EXCEPT !.halt = "error"].leader = p.leader
                 /\ [new EXCEPT !.halt = "error"].me = p.me
                 /\ [new EXCEPT !.halt = "error"].halt = "error"
                 /\ [[new EXCEPT !.out = x] EXCEPT !.halt = "assert"].halt = "assert"
                 /\ [[new EXCEPT !.halt = "error"] EXCEPT !.halt = "assert"].halt = "assert"
      BY <1>2 DEF ResolverType
    <2> HIDE DEF new
    <2> DEFINE x == Emit(new.out, t)
    <2>4. Yield(new, t) = [new EXCEPT !.out = x] \/ Yield(new, t) = [new EXCEPT !.halt = "error"]
      BY DEF Yield, Halt
    <2> HIDE DEF x
    <2>5. /\ Yield(new, t).leader = p.leader /\ Yield(new, t).me = p.me
          /\ Yield(new, t).halt \in {"no", "error"}
          /\ [Yield(new, t) EXCEPT !.halt = "assert"].halt = "assert"
      <3>1. CASE Yield(new, t) = [new EXCEPT !.out = x]
        BY <2>3, <3>1
      <3>2. CASE Yield(new, t) = [new EXCEPT !.halt = "error"]
        BY <2>3, <3>2
      <3>3. QED BY <2>4, <3>1, <3>2
    <2>6. [p EXCEPT !.halt = "assert"].halt = "assert"
      BY <1>2 DEF ResolverType
    <2>7. QED BY <1>2, <2>1, <2>5, <2>6
  <1>5. [p EXCEPT !.halt = "error"].leader = p.leader /\ [p EXCEPT !.halt = "error"].me = p.me
        /\ [p EXCEPT !.halt = "error"].halt = "error"
        /\ [[p EXCEPT !.halt = "error"] EXCEPT !.halt = "assert"].halt = "assert"
    BY <1>2 DEF ResolverType
  <1>6. QED BY <1>2, <1>3, <1>4, <1>5

(* What the branches at the head of the generator leave: a good resolver,   *)
(* one that recovers, or one with another leader in the key.                *)
Recoverable(U, s, q) ==
  /\ q \in ResolverType(U, s.me)
  /\ q.halt = "error" /\ q.leader = s.me /\ s.me \notin q.voters /\ ~CheckInvariants(q)
  /\ Sound(s, q.out) /\ (Restarted(q.out) \/ TracksList(s, q))
  /\ q.numsync = 0 => Zero(s, q.out)
  /\ Idle(s, q)

Foreign(U, s, q) ==
  q \in ResolverType(U, s.me) /\ q.halt = "error" /\ q.leader # s.me

(* A leader that finds its own /sync: the resolver goes on from it or       *)
(* starts over.                                                             *)
LEMMA OwnKeyOutcome ==
  ASSUME NEW U, NEW s, IsStart(U, s), NEW q, IsInput(U, s, q), q.leader = s.me,
         NEW r, r = IF CheckInvariants(q) THEN q ELSE Halt(q, "error")
  PROVE  /\ \/ Good(U, s, r) /\ ZeroOnlyFirst(s, r) /\ r.halt \in {"no", "return"}
            \/ Recoverable(U, s, r)
         /\ r.active = q.active
  <1>1. /\ q \in ResolverType(U, s.me) /\ q.halt = "no" /\ s.me \notin q.voters
        /\ TracksKey(s, q) /\ TracksList(s, q) /\ Sound(s, q.out)
        /\ q.numsync = 0 => Zero(s, q.out)
    BY NothingEmitted DEF IsInput, IsStart, TracksKey, TracksList
  <1>2. Idle(s, q)
    BY NothingEmitted DEF IsInput, Idle
  <1>3. CASE CheckInvariants(q)
    BY <1>1, <1>2, <1>3 DEF Good, Tracked, ZeroOnlyFirst
  <1>4. CASE ~CheckInvariants(q)
    <2>1. r = [q EXCEPT !.halt = "error"]
      BY <1>4 DEF Halt
    <2>2. /\ r \in ResolverType(U, s.me) /\ SameTask(q, r) /\ r.halt = "error" /\ r.out = q.out
          /\ r.voters = q.voters /\ r.quorum = q.quorum /\ r.sync = q.sync
          /\ r.numsync = q.numsync
      BY <1>1, <2>1 DEF ResolverType, SameTask, Halts
    <2>3. ~CheckInvariants(r)
      BY <1>4, <2>2 DEF CheckInvariants, SameTask
    <2>4. Idle(s, r) /\ TracksList(s, r)
      BY <1>1, <1>2, <2>2 DEF Idle, TracksList, SameTask
    <2>5. QED BY <1>1, <2>2, <2>3, <2>4 DEF Recoverable, SameTask
  <1>5. QED BY <1>3, <1>4

(* A leader that finds /sync of another one: the resolver takes it over,    *)
(* starts over or stops.                                                    *)
LEMMA TakeOverOutcome ==
  ASSUME NEW U, NEW s, IsStart(U, s), NEW q, IsInput(U, s, q), q.leader # s.me,
         NEW r, r = TakeOver(q)
  PROVE  \/ Good(U, s, r) /\ ZeroOnlyFirst(s, r) /\ r.halt \in {"no", "return"}
         \/ Recoverable(U, s, r)
         \/ Foreign(U, s, r)
  <1> DEFINE voters == (q.voters \ {q.me}) \cup {q.leader}
             k      == Cardinality(voters) - q.quorum
             q1     == IF q.sync # {} THEN q ELSE SyncUpdate(q, k, voters)
             q2     == LeaderUpdate(q1, q1.quorum, voters, q1.me)
  <1>1. /\ r = IF q2.halt = "no" /\ q2.sync \cap q2.active = {} THEN Halt(q2, "return") ELSE q2
        /\ q2 = LeaderUpdate(q1, q1.quorum, voters, q1.me)
    BY DEF TakeOver
  <1>2. /\ q \in ResolverType(U, s.me) /\ q.halt = "no" /\ q.me = s.me /\ q.leader # s.me
        /\ TracksKey(s, q) /\ TracksList(s, q) /\ Sound(s, q.out)
        /\ q.numsync = 0 => Zero(s, q.out)
        /\ q.sync = {} => q.numsync = 0
    BY NothingEmitted DEF IsInput, IsStart, TracksKey, TracksList, ResolverType
  <1>3. voters \in SUBSET (U \ {s.me}) /\ voters \in SUBSET U /\ q.quorum \in Nat
    BY <1>2 DEF ResolverType
  <1>4. Cardinality(voters) \in Nat
    BY <1>3, FiniteNodes
  <1>5. \/ Foreign(U, s, q1)
        \/ /\ q1 \in ResolverType(U, s.me) /\ SameTask(q, q1) /\ q1.halt = "no"
           /\ q1.quorum = q.quorum
           /\ Sound(s, q1.out) /\ (Restarted(q1.out) \/ TracksList(s, q1))
           /\ q1.numsync = 0 => Zero(s, q1.out)
    <2>1. CASE q.sync # {}
      <3>1. q1 = q
        BY <2>1
      <3>2. SameTask(q, q)
        BY DEF SameTask
      <3>3. QED BY <1>2, <3>1, <3>2
    <2>2. CASE q.sync = {} /\ (k < 0 \/ k > Cardinality(voters))
      <3>1. q1 = [q EXCEPT !.halt = "error"]
        BY <1>2, <2>2 DEF SyncUpdate, Halt
      <3>2. q1 \in ResolverType(U, s.me) /\ q1.halt = "error" /\ q1.leader = q.leader
        BY <1>2, <3>1 DEF ResolverType, Halts
      <3>3. QED BY <1>2, <3>2 DEF Foreign
    <2>3. CASE q.sync = {} /\ ~(k < 0 \/ k > Cardinality(voters))
      <3> DEFINE p == [q EXCEPT !.numsync = k, !.sync = voters]
      <3>1. q1 = Yield(p, Transition("sync", q.leader, k, voters))
        BY <1>2, <2>3 DEF SyncUpdate
      <3>2. k \in Nat
        BY <1>3, <1>4, <2>3
      <3> HIDE DEF k, q1, voters
      <3>3. /\ p \in ResolverType(U, s.me) /\ SameTask(q, p) /\ p.halt = "no" /\ p.out = q.out
            /\ p.voters = q.voters /\ p.quorum = q.quorum /\ p.sync = voters /\ p.numsync = k
        BY <1>2, <1>3, <3>2 DEF ResolverType, SameTask
      <3> HIDE DEF p
      <3>4. q1 = Yield(p, Transition("sync", p.leader, p.numsync, p.sync))
        BY <3>1, <3>3 DEF SameTask
      <3>5. /\ Sound(s, p.out) /\ Zero(s, p.out)
            /\ Restarted(p.out) \/ TracksKey(s, p)
        BY <1>2, <2>3, <3>3 DEF TracksKey, SameTask
      <3>6. /\ q1 \in ResolverType(U, s.me) /\ SameTask(p, q1) /\ q1.halt \in {"no", "error"}
            /\ q1.quorum = p.quorum /\ q1.numsync = p.numsync
            /\ q1.halt = "no" => Tracked(s, q1)
            /\ q1.halt = "no" /\ p.numsync = 0 /\ Zero(s, p.out) => Zero(s, q1.out)
        <4>1. p.numsync <= Cardinality(p.sync)
          BY <1>4, <2>3, <3>2, <3>3 DEF k
        <4>2. QED BY <3>3, <3>4, <3>5, <4>1, YieldSync
      <3>7. SameTask(q, q1)
        BY <3>3, <3>6 DEF SameTask
      <3>8. CASE q1.halt = "no"
        BY <3>3, <3>5, <3>6, <3>7, <3>8 DEF Tracked
      <3>9. CASE q1.halt = "error"
        BY <1>2, <3>6, <3>7, <3>9 DEF Foreign, SameTask
      <3>10. QED BY <3>6, <3>8, <3>9
    <2>4. QED BY <2>1, <2>2, <2>3
  <1> HIDE DEF q1, k
  <1>6. CASE Foreign(U, s, q1)
    <2>1. q2 = q1
      BY <1>6 DEF LeaderUpdate, Foreign
    <2>2. r = q1
      BY <1>1, <1>6, <2>1 DEF Foreign
    <2>3. QED BY <1>6, <2>2
  <1>7. CASE /\ q1 \in ResolverType(U, s.me) /\ SameTask(q, q1) /\ q1.halt = "no"
             /\ q1.quorum = q.quorum
             /\ Sound(s, q1.out) /\ (Restarted(q1.out) \/ TracksList(s, q1))
             /\ q1.numsync = 0 => Zero(s, q1.out)
    <2>1. q1.me = s.me /\ q1.leader = s.key.leader /\ q1.leader # s.me
      BY <1>2, <1>7 DEF SameTask, IsInput
    <2>2. CASE BadQuorum(q1.quorum, voters)
      <3>1. q2 = [q1 EXCEPT !.halt = "error"]
        BY <1>1, <1>7, <2>2 DEF LeaderUpdate, Halt
      <3>2. q2 \in ResolverType(U, s.me) /\ q2.halt = "error" /\ q2.leader = q1.leader
        BY <1>7, <3>1 DEF ResolverType, Halts
      <3> HIDE DEF q2
      <3>3. QED BY <1>1, <2>1, <3>2 DEF Foreign
    <2>3. CASE ~BadQuorum(q1.quorum, voters)
      <3> DEFINE p == [q1 EXCEPT !.leader = s.me, !.voters = voters]
      <3>1. q2 = StoreQuorum(q1, s.me, q1.quorum, voters)
        BY <1>1, <1>7, <2>1, <2>3 DEF LeaderUpdate
      <3> HIDE DEF q2, voters
      <3>2. q2 = Yield(p, Transition("quorum", s.me, q1.quorum, voters))
        <4>1. q2 = Yield([q1 EXCEPT !.leader = s.me, !.quorum = q1.quorum, !.voters = voters,
                                    !.out = @], Transition("quorum", s.me, q1.quorum, voters))
          BY <2>1, <3>1 DEF StoreQuorum
        <4>2. [q1 EXCEPT !.leader = s.me, !.quorum = q1.quorum, !.voters = voters, !.out = @] = p
          BY <1>7 DEF ResolverType
        <4>3. QED BY <4>1, <4>2
      <3>3. /\ p \in ResolverType(U, s.me) /\ p.halt = "no" /\ p.leader = s.me
            /\ p.out = q1.out /\ p.voters = voters /\ p.quorum = q1.quorum
            /\ p.sync = q1.sync /\ p.numsync = q1.numsync
        BY <1>3, <1>7 DEF ResolverType, IsStart
      <3> HIDE DEF p
      <3>4. q2 = Yield(p, Transition("quorum", p.leader, p.quorum, p.voters))
        BY <3>2, <3>3
      <3>5. /\ s.me \notin p.voters /\ Sound(s, p.out)
            /\ Restarted(p.out) \/ TracksList(s, p)
        BY <1>3, <1>7, <3>3 DEF TracksList
      <3>6. /\ q2 \in ResolverType(U, s.me) /\ SameTask(p, q2) /\ q2.halt \in {"no", "error"}
            /\ q2.voters = p.voters /\ q2.sync = p.sync /\ q2.numsync = p.numsync
            /\ q2.halt = "no" => Tracked(s, q2) /\ CheckInvariants(q2)
            /\ q2.halt = "no" /\ Zero(s, p.out) => Zero(s, q2.out)
            /\ q2.halt = "error" => q2 = [p EXCEPT !.halt = "error"] /\ ~CheckInvariants(p)
        BY <3>3, <3>4, <3>5, YieldQuorum
      <3>7. q2.leader = s.me /\ s.me \notin q2.voters
        BY <3>3, <3>5, <3>6 DEF SameTask
      <3>8. CASE q2.halt = "error"
        <4>1. /\ q2.out = p.out /\ q2.quorum = p.quorum
          BY <3>3, <3>6, <3>8 DEF ResolverType
        <4>2. ~CheckInvariants(q2) /\ (Restarted(q2.out) \/ TracksList(s, q2))
          BY <3>5, <3>6, <3>8, <4>1 DEF CheckInvariants, SameTask, TracksList
        <4>3. Idle(s, q2)
          BY <2>1 DEF Idle
        <4>4. q2.numsync = 0 => Zero(s, q2.out)
          BY <1>7, <3>3, <3>6, <4>1
        <4>5. Recoverable(U, s, q2)
          BY <3>5, <3>6, <3>7, <3>8, <4>1, <4>2, <4>3, <4>4 DEF Recoverable
        <4>6. r = q2
          BY <1>1, <3>8
        <4>7. QED BY <4>5, <4>6
      <3>9. CASE q2.halt = "no"
        <4>1. q2.numsync = 0 => Zero(s, q2.out)
          BY <1>7, <3>3, <3>6, <3>9
        <4>2. r = q2 \/ r = [q2 EXCEPT !.halt = "return"]
          BY <1>1 DEF Halt
        <4>3. /\ r \in ResolverType(U, s.me) /\ SameTask(q2, r) /\ r.halt \in {"no", "return"}
              /\ r.out = q2.out /\ r.voters = q2.voters /\ r.quorum = q2.quorum
              /\ r.sync = q2.sync /\ r.numsync = q2.numsync
          <5>1. CASE r = q2
            BY <3>6, <3>9, <5>1 DEF SameTask
          <5>2. CASE r = [q2 EXCEPT !.halt = "return"]
            BY <3>6, <5>2 DEF ResolverType, SameTask, Halts
          <5>3. QED BY <4>2, <5>1, <5>2
        <4>4. Tracked(s, r) /\ CheckInvariants(r)
          BY <3>6, <3>9, <4>3 DEF Tracked, TracksKey, TracksList, CheckInvariants, SameTask
        <4>5. Idle(s, r)
          BY <2>1 DEF Idle
        <4>6. ZeroOnlyFirst(s, r)
          BY <4>1, <4>3 DEF ZeroOnlyFirst
        <4>7. QED BY <3>7, <4>3, <4>4, <4>5, <4>6 DEF Good, SameTask, ZeroOnlyFirst
      <3>10. QED BY <3>6, <3>8, <3>9
    <2>4. QED BY <2>2, <2>3
  <1>8. QED BY <1>5, <1>6, <1>7

(* Taking the confirmed nodes for the ones in sync keeps the resolver good. *)
LEMMA AssumeConfirmedGood ==
  ASSUME NEW U, NEW s, IsStart(U, s), NEW q, Good(U, s, q), ZeroOnlyFirst(s, q),
         NEW r, r = AssumeConfirmed(q)
  PROVE  Good(U, s, r) /\ ZeroOnlyFirst(s, r) /\ r.active = q.active
  <1> DEFINE c == Min({Cardinality(q.sync \cap q.active), Cardinality(q.voters) - q.quorum})
             some == q.halt = "no" /\ q.confirmed = 0 /\ q.sync \cap q.active # {}
  <1>1. CASE ~some
    <2>1. r = q
      BY <1>1 DEF AssumeConfirmed
    <2>2. QED BY <2>1
  <1>2. CASE some
    <2>1. r = [q EXCEPT !.confirmed = c]
      BY <1>2 DEF AssumeConfirmed
    <2>2. c \in Int
      <3>1. /\ q.sync \cap q.active \in SUBSET U /\ q.voters \in SUBSET U /\ q.quorum \in Nat
        BY GoodFields
      <3> DEFINE a == Cardinality(q.sync \cap q.active)
                 b == Cardinality(q.voters) - q.quorum
      <3>2. Cardinality(q.sync \cap q.active) \in Nat /\ Cardinality(q.voters) \in Nat
        BY <3>1, FiniteNodes
      <3>3. a \in Int /\ b \in Int /\ c = Min({a, b})
        BY <3>1, <3>2
      <3> HIDE DEF a, b, c
      <3>4. QED BY <3>3, MinOfTwo
    <2> HIDE DEF c
    <2>3. /\ r \in ResolverType(U, s.me) /\ r.halt = q.halt /\ r.out = q.out
          /\ r.voters = q.voters /\ r.quorum = q.quorum /\ r.sync = q.sync
          /\ r.numsync = q.numsync /\ r.me = q.me /\ r.leader = q.leader /\ r.active = q.active
      BY <2>1, <2>2 DEF Good, ResolverType
    <2>4. q.active # {}
      BY <1>2
    <2>5. Idle(s, r)
      BY <2>3, <2>4 DEF Idle
    <2>6. ZeroOnlyFirst(s, r)
      BY <2>3 DEF ZeroOnlyFirst
    <2>7. q.halt = "no" => CheckInvariants(r) /\ Tracked(s, r)
      BY <2>3 DEF Good, CheckInvariants, Tracked, TracksKey, TracksList
    <2>8. q.halt = "return" => Tracked(s, r)
      BY <2>3 DEF Good, Tracked, TracksKey, TracksList
    <2>9. QED BY <2>3, <2>5, <2>6, <2>7, <2>8 DEF Good, ZeroOnlyFirst
  <1>3. QED BY <1>1, <1>2

(* What QuorumStateResolver promises the loop that carries its transitions  *)
(* out: from places that overlap, and unless it raises, every one of them   *)
(* leaves the places overlapping, each written only for the node itself and *)
(* whatever of them is left undone.                                         *)
THEOREM ResolverSound ==
  ASSUME NEW U, NEW s, IsStart(U, s), NEW q, IsInput(U, s, q),
         ~Raised(GenerateTransitions(q))
  PROVE  /\ Transitions(q) \in Seq(TransitionType(U, s.me))
         /\ Sound(s, Transitions(q))
         /\ q.active = {} /\ s.key.names = {} /\ s.key.leader = s.me => NoVoters(Transitions(q))
  <1> DEFINE q1 == IF q.me # q.leader THEN TakeOver(q)
                   ELSE IF CheckInvariants(q) THEN q ELSE Halt(q, "error")
             q2 == RecoverFromError(q1)
             mine == q2.leader = q2.me
             qa == Assert_(q2, mine)
             q3 == AssumeConfirmed(qa)
             q4 == HandleNonSteadyCases(q3)
             q5 == RemoveGoneNodes(q4)
             q6 == AddNewNodes(q5)
             q7 == HandleReplicationFactorChange(q6)
             r  == GenerateTransitions(q)
  <1>1. r = IF q3.halt # "no" THEN q3 ELSE q7
    BY DEF GenerateTransitions
  <1>2. q.me = s.me
    BY DEF IsInput, ResolverType
  <1>3. /\ \/ Good(U, s, q1) /\ ZeroOnlyFirst(s, q1) /\ q1.halt \in {"no", "return"}
           \/ Recoverable(U, s, q1)
           \/ Foreign(U, s, q1)
        /\ q.leader = s.me => q1.active = q.active
    <2>1. CASE q.leader = s.me
      <3>1. q1 = IF CheckInvariants(q) THEN q ELSE Halt(q, "error")
        BY <1>2, <2>1
      <3> HIDE DEF q1
      <3>2. QED BY <2>1, <3>1, OwnKeyOutcome
    <2>2. CASE q.leader # s.me
      <3>1. q1 = TakeOver(q)
        BY <1>2, <2>2
      <3> HIDE DEF q1
      <3>2. QED BY <2>2, <3>1, TakeOverOutcome
    <2>3. QED BY <2>1, <2>2
  <1>4. /\ q2 = RecoverFromError(q1) /\ mine \in BOOLEAN /\ qa = Assert_(q2, mine)
        /\ q3 = AssumeConfirmed(qa)
    OBVIOUS
  <1> HIDE DEF q1
  <1>5. CASE Foreign(U, s, q1)
    <2>1. q1.halt = "error" /\ q1.leader # s.me /\ q1.me = s.me /\ q1 \in ResolverType(U, s.me)
      BY <1>5 DEF Foreign, ResolverType
    <2> HIDE DEF q2
    <2>2. /\ q2.leader # q2.me /\ q2.halt \in {"no", "error"}
          /\ [q2 EXCEPT !.halt = "assert"].halt = "assert"
      BY <1>4, <2>1, RecoverKeepsLeader
    <2>3. qa.halt \in {"error", "assert"}
      <3>1. CASE q2.halt = "error"
        BY <3>1 DEF Assert_
      <3>2. CASE q2.halt = "no"
        <4>1. qa = [q2 EXCEPT !.halt = "assert"]
          BY <2>2, <3>2 DEF Assert_, Halt
        <4>2. QED BY <2>2, <4>1
      <3>3. QED BY <2>2, <3>1, <3>2
    <2> HIDE DEF qa
    <2>4. q3 = qa
      BY <2>3 DEF AssumeConfirmed
    <2> HIDE DEF q3
    <2>5. r = q3
      BY <1>1, <2>3, <2>4
    <2>6. QED BY <2>3, <2>4, <2>5 DEF Raised
  <1>6. CASE ~Foreign(U, s, q1)
    <2> HIDE DEF q2, mine, qa, q3
    <2>1. /\ Good(U, s, q2) /\ ZeroOnlyFirst(s, q2)
          /\ q.leader = s.me => q2.active = q.active
      <3>1. CASE Good(U, s, q1) /\ ZeroOnlyFirst(s, q1) /\ q1.halt \in {"no", "return"}
        <4>1. q2 = q1
          BY <1>4, <3>1 DEF RecoverFromError
        <4>2. QED BY <1>3, <3>1, <4>1
      <3>2. CASE Recoverable(U, s, q1)
        <4>1. Good(U, s, q2) /\ ZeroOnlyFirst(s, q2) /\ SameTask(q1, q2)
          BY <1>4, <3>2, RecoverGood DEF Recoverable
        <4>2. QED BY <1>3, <4>1 DEF SameTask
      <3>3. QED BY <1>3, <1>6, <3>1, <3>2
    <2>2. Good(U, s, qa) /\ SameTask(q2, qa) /\ (qa.halt = "no" => qa = q2)
      BY <1>4, <2>1, AssertGood
    <2>3. ZeroOnlyFirst(s, qa)
      BY <2>1, <2>2 DEF ZeroOnlyFirst
    <2>4. Good(U, s, q3) /\ ZeroOnlyFirst(s, q3) /\ q3.active = qa.active
      BY <1>4, <2>2, <2>3, AssumeConfirmedGood
    <2>5. Good(U, s, r) /\ r.active = q3.active
      <3>1. CASE q3.halt # "no"
        <4>1. r = q3
          BY <1>1, <3>1
        <4> HIDE DEF r
        <4>2. QED BY <2>4, <4>1
      <3>2. CASE q3.halt = "no"
        <4>1. /\ q4 = HandleNonSteadyCases(q3) /\ q5 = RemoveGoneNodes(q4)
              /\ q6 = AddNewNodes(q5) /\ r = HandleReplicationFactorChange(q6)
          BY <1>1, <3>2
        <4> HIDE DEF q4, q5, q6, r
        <4>2. Good(U, s, q4) /\ SameTask(q3, q4) /\ (q4.halt = "no" => q4.voters = q4.sync)
          BY <2>4, <4>1, HandleNonSteadyCasesGood
        <4>3. Good(U, s, q5) /\ SameTask(q4, q5)
          BY <4>1, <4>2, RemoveGoneNodesGood
        <4>4. Good(U, s, q6) /\ SameTask(q5, q6)
          BY <4>1, <4>3, AddNewNodesGood
        <4>5. Good(U, s, r) /\ SameTask(q6, r)
          BY <4>1, <4>4, HandleReplicationFactorChangeGood
        <4>6. QED BY <4>2, <4>3, <4>4, <4>5 DEF SameTask
      <3>3. QED BY <3>1, <3>2
    <2> HIDE DEF r
    <2>6. r.halt \in {"no", "return"} /\ r \in ResolverType(U, s.me)
      BY <2>5 DEF Good, ResolverType, Halts, Raised, r
    <2>7. Transitions(q) = r.out
      BY DEF Transitions, r
    <2>8. r.out \in Seq(TransitionType(U, s.me)) /\ Sound(s, r.out)
      BY <2>5, <2>6 DEF Good, Tracked, ResolverType
    <2>9. ASSUME q.active = {}, s.key.names = {}, s.key.leader = s.me
          PROVE  NoVoters(r.out)
      <3>1. q.leader = s.me
        BY <2>9 DEF IsInput
      <3>2. r.active = {}
        BY <2>1, <2>2, <2>4, <2>5, <2>9, <3>1 DEF SameTask
      <3>3. QED BY <2>5, <2>9, <3>2 DEF Good, Idle
    <2>10. QED BY <2>7, <2>8, <2>9
  <1>7. QED BY <1>5, <1>6

-----------------------------------------------------------------------------
(* Carrying the transitions out. *)

(* The places after the first transition; a list PostgreSQL refuses leaves  *)
(* the one in force.                                                        *)
Carried(s, t, s2) ==
  /\ s2.me = s.me
  /\ \/ /\ t.type = "quorum" /\ s2.list = s.list
        /\ s2.key.leader = t.leader /\ s2.key.num = t.num /\ s2.key.names = t.names
     \/ /\ t.type = "sync" /\ s2.key = s.key
        /\ \/ s2.list.num = t.num /\ s2.list.names = t.names
           \/ t.num = 0 /\ t.names # {} /\ s2.list = s.list

(* Once the first transition is carried out, the others are sound from the  *)
(* state it leads to.                                                       *)
LEMMA TailSound ==
  ASSUME NEW U, IsFiniteSet(U), NEW me, me \in U,
         NEW out \in Seq(TransitionType(U, me)), out # <<>>,
         NEW s, NEW s2, s.me = me, Sound(s, out), Carried(s, out[1], s2),
         s.list.num = 0 => s.list.names = {}
  PROVE  Sound(s2, Tail(out))
  <1> DEFINE n == Len(out)
             rest == Tail(out)
  <1>1. n \in Nat /\ n >= 1 /\ Len(rest) = n - 1
    BY LenProperties, EmptySeq, HeadTailProperties
  <1>2. \A i \in 1..(n - 1) : rest[i] = out[i + 1]
    BY HeadTailProperties
  <1>3. \A i \in 1..n : out[i] \in TransitionType(U, me) /\ SoundAt(s, out, i)
    BY ElementOfSeq DEF Sound
  <1> HIDE DEF n, rest
  <1>4. SUFFICES ASSUME NEW i \in 1..(n - 1) PROVE SoundAt(s2, rest, i)
    BY <1>1 DEF Sound, rest
  <1>5. /\ i \in Nat /\ i >= 1 /\ i + 1 > 1 /\ (i + 1) - 1 = i /\ i + 1 \in 1..n /\ 1 \in 1..n
        /\ rest[i] = out[i + 1]
    BY <1>1, <1>2
  <1>6. SoundAt(s, out, i + 1)
    BY <1>3, <1>5
  <1>7. s.list.num = 0 /\ out[1].type = "sync" /\ out[1].num = 0 => s2.list.num = 0
    BY DEF Carried
  <1>8. s.list.num = 0 /\ out[1].type = "quorum" => s2.list.num = 0
    BY DEF Carried
  <1>9. AllZero(s, out, i + 1) => AllZero(s2, rest, i)
    <2> SUFFICES ASSUME AllZero(s, out, i + 1) PROVE AllZero(s2, rest, i)
      OBVIOUS
    <2>1. s.list.num = 0 /\ \A j \in 1..(i + 1) : out[j].type = "sync" => out[j].num = 0
      BY DEF AllZero
    <2>2. s2.list.num = 0
      <3>1. 1 \in 1..(i + 1)
        BY <1>5
      <3>2. QED BY <1>7, <1>8, <2>1, <3>1 DEF Carried
    <2>3. \A j \in 1..i : rest[j].type = "sync" => rest[j].num = 0
      <3>1. TAKE j \in 1..i
      <3>2. j \in 1..(n - 1) /\ j + 1 \in 1..(i + 1)
        BY <1>1, <1>5
      <3>3. QED BY <1>2, <2>1, <3>2
    <2>4. QED BY <2>2, <2>3 DEF AllZero
  <1>10. CASE i = 1
    <2>1. out[1] \in TransitionType(U, me) /\ out[2] \in TransitionType(U, me)
      BY <1>3, <1>5, <1>10
    <2>2. out[2].type # out[1].type /\ out[1].type # "restart"
      BY <1>5, <1>6, <1>10 DEF SoundAt
    <2>3. out[2].type = "quorum" => out[2].leader = s.me /\ Overlaps(me, out[2], out[1])
      BY <1>5, <1>6, <1>10 DEF SoundAt
    <2>4. out[2].type = "sync" => /\ out[2].num <= Cardinality(out[2].names)
                                  /\ Overlaps(me, out[1], out[2])
      BY <1>5, <1>6, <1>10 DEF SoundAt
    <2>5. ASSUME out[2].type = "quorum" PROVE Overlaps(me, out[2], s2.list)
      <3>1. out[1].type = "sync"
        BY <2>1, <2>2, <2>5 DEF TransitionType
      <3>2. CASE s2.list.num = out[1].num /\ s2.list.names = out[1].names
        BY <2>3, <2>5, <3>2 DEF Overlaps
      <3>3. CASE out[1].num = 0 /\ out[1].names # {} /\ s2.list = s.list
        <4>1. s2.list.num = 0 /\ s2.list.names = {}
          <5>1. SoundAt(s, out, 1)
            BY <1>3, <1>5
          <5>2. QED BY <3>1, <3>3, <5>1 DEF SoundAt, AllZero
        <4> DEFINE big   == (out[2].names \cup {out[2].leader}) \cup (out[1].names \cup {me})
                   small == (out[2].names \cup {out[2].leader}) \cup (s2.list.names \cup {me})
        <4>2. big \in SUBSET U /\ small \in SUBSET big
          BY <2>1, <4>1 DEF TransitionType
        <4>3. IsFiniteSet(big) /\ Cardinality(big) \in Nat /\ Cardinality(small) \in Nat
              /\ Cardinality(small) <= Cardinality(big)
          BY <4>2, FS_Subset, FS_CardinalityType
        <4>4. out[2].names # {} => Cardinality(big) <= out[2].num + 0 + 1
          BY <2>3, <2>5, <3>3 DEF Overlaps
        <4>5. out[2].num \in Nat
          BY <2>1 DEF TransitionType
        <4> HIDE DEF big
        <4>6. out[2].names # {} => Cardinality(small) <= out[2].num + 0 + 1
          BY <4>3, <4>4, <4>5
        <4>7. QED BY <4>1, <4>6 DEF Overlaps
      <3>4. QED BY <3>1, <3>2, <3>3 DEF Carried
    <2>6. ASSUME out[2].type = "sync" PROVE Overlaps(me, s2.key, out[2])
      <3>1. out[1].type = "quorum"
        BY <2>1, <2>2, <2>6 DEF TransitionType
      <3>2. QED BY <2>4, <2>6, <3>1 DEF Carried, Overlaps
    <2>7. rest[1] = out[2] /\ s2.me = me
      BY <1>5, <1>10 DEF Carried
    <2>8. out[2].type = "sync" /\ out[2].num = 0 /\ out[2].names # {} => AllZero(s2, rest, 1)
      BY <1>5, <1>6, <1>9, <1>10 DEF SoundAt
    <2>9. QED BY <1>10, <2>3, <2>4, <2>5, <2>6, <2>7, <2>8 DEF SoundAt
  <1>11. CASE i # 1
    <2>1. i > 1 /\ i + 1 # 1 /\ i - 1 \in 1..(n - 1) /\ (i - 1) + 1 = i
      BY <1>1, <1>5, <1>11
    <2>2. rest[i - 1] = out[i] /\ s2.me = s.me
      BY <1>2, <2>1 DEF Carried
    <2>3. QED BY <1>5, <1>6, <1>9, <2>1, <2>2 DEF SoundAt
  <1>12. QED BY <1>10, <1>11

(* While there are no voters the list may be emptied under the transitions. *)
LEMMA NoVotersSound ==
  ASSUME NEW me, NEW U, NEW out \in Seq(TransitionType(U, me)), NEW s, NEW s2,
         Sound(s, out), NoVoters(out), s.key.names = {},
         s2.me = s.me, s2.key = s.key, s2.list.num = 0
  PROVE  Sound(s2, out)
  <1>1. SUFFICES ASSUME NEW i \in 1..Len(out) PROVE SoundAt(s2, out, i)
    BY DEF Sound
  <1>2. SoundAt(s, out, i) /\ Len(out) \in Nat
    BY LenProperties DEF Sound
  <1>3. AllZero(s, out, i) => AllZero(s2, out, i)
    BY DEF AllZero
  <1>4. out[i].type = "quorum" => out[i].names = {}
    BY DEF NoVoters
  <1>5. i > 1 /\ out[i].type = "sync" => out[i - 1].names = {}
    <2> SUFFICES ASSUME i > 1, out[i].type = "sync" PROVE out[i - 1].names = {}
      OBVIOUS
    <2>1. i - 1 \in 1..Len(out)
      BY <1>2
    <2>2. out[i - 1] \in TransitionType(U, me)
      BY <2>1, ElementOfSeq
    <2>3. out[i - 1].type = "quorum"
      BY <1>2, <2>2 DEF SoundAt, TransitionType
    <2>4. QED BY <2>1, <2>3 DEF NoVoters
  <1>6. i = 1 \/ i > 1
    BY <1>2
  <1>7. QED
    <2>1. out[i].type = "quorum" => Overlaps(s2.me, out[i], IF i = 1 THEN s2.list ELSE out[i - 1])
      BY <1>4 DEF Overlaps
    <2>2. out[i].type = "sync" => Overlaps(s2.me, IF i = 1 THEN s2.key ELSE out[i - 1], out[i])
      BY <1>5, <1>6 DEF Overlaps
    <2>3. QED BY <1>2, <1>3, <2>1, <2>2 DEF SoundAt

-----------------------------------------------------------------------------
(* Commits that wait for a standby go on waiting. *)

(* Every list that is asked for names somebody.                             *)
NamesSomebody(out) == \A i \in 1..Len(out) : out[i].type = "sync" => out[i].names # {}

(* An empty list is at most the last transition: another one takes its      *)
(* place.                                                                   *)
EmptyOnlyLast(out) ==
  \A i \in 1..Len(out) : out[i].type = "sync" /\ out[i].names = {} => i = Len(out)

(* A key without voters has quorum 0.                                       *)
PlainKeys(out) ==
  \A i \in 1..Len(out) : out[i].type = "quorum" /\ out[i].names = {} => out[i].num = 0

(* Whoever finds the key of another leader first makes it its own.          *)
KeyFirst(s, out) == s.key.leader # s.me => out # <<>> /\ out[1].type = "quorum"

(* What the resolver has emitted after one more transition.                 *)
Emitted(T, out, t, new) ==
  /\ new \in Seq(T) /\ Len(new) \in Nat /\ new # <<>>
  /\ \A i \in 1..Len(new) : new[i] = t \/ (i \in 1..Len(out) /\ new[i] = out[i])
  /\ out # <<>> => new[1].type = out[1].type
  /\ out = <<>> => new = <<t>>
  /\ \/ new = out /\ Restarted(out)
     \/ /\ new[Len(new)] = t
        /\ \A i \in 1..(Len(new) - 1) :
             i \in 1..Len(out) /\ new[i] = out[i] /\ (i = Len(out) => out[i].type # t.type)

(* __iter__() emits no more than that.                                      *)
LEMMA EmitEach ==
  ASSUME NEW T, NEW out \in Seq(T), NEW t \in T, NEW new, new = Emit(out, t)
  PROVE  Emitted(T, out, t, new)
  <1> DEFINE n == Len(out)
  <1>1. /\ n \in Nat /\ (out = <<>> <=> n = 0) /\ (Restarted(out) => new = out)
        /\ new \in Seq(T) /\ new # <<>>
    BY EmitType
  <1>2. Len(new) \in Nat
    BY <1>1, LenProperties
  <1>3. out = <<>> => new = <<t>>
    BY DEF Emit
  <1>4. CASE Restarted(out)
    <2>1. new = out /\ out # <<>>
      BY <1>1, <1>4 DEF Restarted
    <2>2. QED BY <1>1, <1>2, <1>4, <2>1 DEF Emitted
  <1>5. CASE n > 0 /\ ~Restarted(out) /\ out[n].type = t.type
    <2>1. out # <<>> /\ out[Len(out)].type = t.type
      BY <1>1, <1>5
    <2>2. Len(new) = n /\ new[n] = t /\ \A i \in 1..(n - 1) : new[i] = out[i]
      BY <1>5, <2>1, EmitSame
    <2>3. new[1].type = out[1].type
      <3>1. CASE n = 1
        BY <1>5, <2>2, <3>1
      <3>2. CASE n # 1
        <4>1. 1 \in 1..(n - 1)
          <5> HIDE DEF n
          <5>1. QED BY <1>1, <1>5, <3>2
        <4>2. QED BY <2>2, <4>1
      <3>3. QED BY <3>1, <3>2
    <2>4. \A i \in 1..Len(new) : new[i] = t \/ (i \in 1..n /\ new[i] = out[i])
      BY <1>1, <2>2
    <2>5. \A i \in 1..(Len(new) - 1) : i \in 1..n /\ new[i] = out[i] /\ i # n
      BY <1>1, <2>2
    <2>6. QED BY <1>1, <1>2, <2>1, <2>2, <2>3, <2>4, <2>5 DEF Emitted
  <1>6. CASE n = 0 \/ (~Restarted(out) /\ out[n].type # t.type)
    <2>1. out = <<>> \/ (~Restarted(out) /\ out[Len(out)].type # t.type)
      BY <1>1, <1>6
    <2>2. Len(new) = n + 1 /\ new[n + 1] = t /\ \A i \in 1..n : new[i] = out[i]
      BY <2>1, EmitOther
    <2>3. out # <<>> => new[1] = out[1]
      <3>1. out # <<>> => 1 \in 1..n
        BY <1>1
      <3>2. QED BY <2>2, <3>1
    <2>4. \A i \in 1..Len(new) : new[i] = t \/ (i \in 1..n /\ new[i] = out[i])
      BY <1>1, <2>2
    <2>5. \A i \in 1..(Len(new) - 1) : i \in 1..n /\ new[i] = out[i] /\ (i = n => out[i].type # t.type)
      BY <1>1, <1>6, <2>2
    <2>6. new[Len(new)] = t
      BY <2>2
    <2>7. QED BY <1>1, <1>2, <1>3, <2>3, <2>4, <2>5, <2>6 DEF Emitted
  <1>7. QED BY <1>1, <1>4, <1>5, <1>6

(* What such a transition makes of the three.                               *)
LEMMA EmitWaits ==
  ASSUME NEW T, NEW out \in Seq(T), NEW t \in T, NEW s, PlainKeys(out),
         t.type = "quorum" /\ t.names = {} => t.num = 0, NEW new, new = Emit(out, t)
  PROVE  /\ new \in Seq(T) /\ PlainKeys(new) /\ (KeyFirst(s, out) => KeyFirst(s, new))
         /\ NamesSomebody(out) /\ (t.type = "sync" => t.names # {}) => NamesSomebody(new)
         /\ NamesSomebody(out) /\ t.type = "sync" => EmptyOnlyLast(new)
         /\ EmptyOnlyLast(out) /\ t.type = "sync" /\ t.names # {} => NamesSomebody(new)
  <1>0. Emitted(T, out, t, new)
    BY EmitEach
  <1>1. /\ new \in Seq(T) /\ Len(new) \in Nat /\ new # <<>>
        /\ \A i \in 1..Len(new) : new[i] = t \/ (i \in 1..Len(out) /\ new[i] = out[i])
        /\ out # <<>> => new[1].type = out[1].type
        /\ \/ new = out /\ Restarted(out)
           \/ /\ new[Len(new)] = t
              /\ \A i \in 1..(Len(new) - 1) :
                   i \in 1..Len(out) /\ new[i] = out[i] /\ (i = Len(out) => out[i].type # t.type)
    BY <1>0, Zenon DEF Emitted
  <1>2. PlainKeys(new)
    BY <1>1 DEF PlainKeys
  <1>3. KeyFirst(s, out) => KeyFirst(s, new)
    BY <1>1 DEF KeyFirst
  <1>4. NamesSomebody(out) /\ (t.type = "sync" => t.names # {}) => NamesSomebody(new)
    BY <1>1 DEF NamesSomebody
  <1>5. ASSUME NamesSomebody(out), t.type = "sync" PROVE EmptyOnlyLast(new)
    <2>1. \A i \in 1..Len(new) : i \in 1..(Len(new) - 1) \/ i = Len(new)
      BY <1>1
    <2>2. CASE new = out
      BY <1>5, <2>2 DEF NamesSomebody, EmptyOnlyLast
    <2>3. CASE \A i \in 1..(Len(new) - 1) : i \in 1..Len(out) /\ new[i] = out[i]
      BY <1>5, <2>1, <2>3 DEF NamesSomebody, EmptyOnlyLast
    <2>4. QED BY <1>1, <2>2, <2>3
  <1>6. ASSUME EmptyOnlyLast(out), t.type = "sync", t.names # {} PROVE NamesSomebody(new)
    <2>1. \A i \in 1..Len(new) : i \in 1..(Len(new) - 1) \/ i = Len(new)
      BY <1>1
    <2>2. CASE new = out /\ Restarted(out)
      <3>1. out[Len(out)].type # "sync"
        BY <2>2 DEF Restarted
      <3>2. QED BY <1>6, <2>2, <3>1 DEF EmptyOnlyLast, NamesSomebody
    <2>3. CASE /\ new[Len(new)] = t
               /\ \A i \in 1..(Len(new) - 1) :
                    i \in 1..Len(out) /\ new[i] = out[i] /\ (i = Len(out) => out[i].type # t.type)
      BY <1>6, <2>1, <2>3 DEF EmptyOnlyLast, NamesSomebody
    <2>4. QED BY <1>1, <2>2, <2>3
  <1>7. QED BY <1>1, <1>2, <1>3, <1>4, <1>5, <1>6

(* The resolver while somebody is waited for, ...                           *)
Waits(U, s, q) ==
  /\ q \in ResolverType(U, s.me) /\ q.halt # "return"
  /\ q.halt = "no" =>
       /\ NamesSomebody(q.out) /\ PlainKeys(q.out) /\ KeyFirst(s, q.out)
       /\ q.voters = {} => q.quorum = 0
       /\ q.numsync <= Cardinality(q.sync)

(* ... and between the removal of everybody that was listed and the         *)
(* addition of those that are there.                                        *)
Emptied(U, s, q) ==
  /\ q \in ResolverType(U, s.me) /\ q.halt = "no"
  /\ EmptyOnlyLast(q.out) /\ PlainKeys(q.out) /\ KeyFirst(s, q.out)
  /\ q.voters = {} /\ q.sync = {} /\ q.quorum = 0 /\ q.numsync = 0

(* Storing a key: an empty one has quorum 0.                                *)
LEMMA StoreWaits ==
  ASSUME NEW U, NEW s, NEW q, Waits(U, s, q), q.halt = "no",
         NEW k \in Nat, NEW V \in SUBSET (U \ {s.me}), V = {} => k = 0,
         NEW r, r = StoreQuorum(q, q.leader, k, V)
  PROVE  /\ Waits(U, s, r) /\ SameTask(q, r) /\ r.sync = q.sync /\ r.numsync = q.numsync
         /\ r.voters = V
  <1> DEFINE T == TransitionType(U, s.me)
             hint == Transition("restart", q.leader, q.quorum, q.voters)
             key == Transition("quorum", q.leader, k, V)
             same == k = q.quorum /\ V = q.voters
             out == IF same THEN Emit(q.out, hint) ELSE q.out
             new == [q EXCEPT !.leader = q.leader, !.quorum = k, !.voters = V, !.out = out]
  <1>1. /\ q \in ResolverType(U, s.me) /\ q.out \in Seq(T)
        /\ NamesSomebody(q.out) /\ PlainKeys(q.out) /\ KeyFirst(s, q.out)
        /\ q.numsync <= Cardinality(q.sync)
    BY DEF Waits, ResolverType
  <1>2. CASE same /\ q.voters # {}
    <2>1. r = q
      BY <1>2 DEF StoreQuorum
    <2>2. QED BY <1>2, <2>1 DEF SameTask
  <1>3. CASE ~(same /\ q.voters # {})
    <2>1. r = Yield(new, key)
      BY <1>3 DEF StoreQuorum
    <2>2. hint.type = "restart" /\ key.type = "quorum" /\ key.names = V /\ key.num = k
      BY DEF Transition
    <2>3. out \in Seq(T) /\ NamesSomebody(out) /\ PlainKeys(out) /\ KeyFirst(s, out)
      <3>1. CASE ~same
        BY <1>1, <3>1
      <3>2. CASE same
        <4>1. hint \in T
          BY <1>3, <3>2 DEF Transition, TransitionType, ResolverType, Waits
        <4>2. out = Emit(q.out, hint)
          BY <3>2
        <4> HIDE DEF out, hint, T
        <4>3. QED BY <1>1, <2>2, <4>1, <4>2, EmitWaits
      <3>3. QED BY <3>1, <3>2
    <2> HIDE DEF out
    <2>4. /\ new.halt = "no" /\ new.out = out /\ new.voters = V /\ new.quorum = k
          /\ new.sync = q.sync /\ new.numsync = q.numsync /\ SameTask(q, new)
      BY <1>1 DEF ResolverType, SameTask
    <2>5. key \in T
      BY <1>1 DEF Transition, TransitionType, ResolverType
    <2>6. new \in ResolverType(U, s.me)
      BY <1>1, <2>3 DEF ResolverType
    <2> HIDE DEF new, key
    <2>7. CASE ~CheckInvariants(new)
      <3>1. r = [new EXCEPT !.halt = "error"]
        BY <2>1, <2>7 DEF Yield, Halt
      <3>2. /\ r \in ResolverType(U, s.me) /\ r.halt = "error" /\ r.voters = new.voters /\ r.sync = new.sync
            /\ r.numsync = new.numsync /\ SameTask(new, r)
        BY <2>6, <3>1 DEF ResolverType, SameTask, Halts
      <3>3. QED BY <2>4, <3>2 DEF Waits, SameTask
    <2>8. CASE CheckInvariants(new)
      <3> DEFINE last == Emit(out, key)
      <3>1. r = [new EXCEPT !.out = last]
        BY <2>1, <2>4, <2>8 DEF Yield
      <3>2. /\ last \in Seq(T) /\ NamesSomebody(last) /\ PlainKeys(last) /\ KeyFirst(s, last)
        <4>1. last = Emit(out, key)
          OBVIOUS
        <4> HIDE DEF last, T
        <4>2. QED BY <2>2, <2>3, <2>5, <4>1, EmitWaits
      <3> HIDE DEF last
      <3>3. /\ r \in ResolverType(U, s.me) /\ r.halt = new.halt /\ r.voters = new.voters /\ r.sync = new.sync
            /\ r.numsync = new.numsync /\ r.quorum = new.quorum /\ r.out = last /\ SameTask(new, r)
        BY <2>6, <3>1, <3>2 DEF ResolverType, SameTask
      <3>4. QED BY <1>1, <2>4, <3>2, <3>3 DEF Waits, SameTask
    <2>9. QED BY <2>7, <2>8
  <1>4. QED BY <1>2, <1>3

(* A quorum for no voters is not adjusted.                                  *)
NotAdjusted(q, k, V, adjust) ==
  q.halt = "no" /\ V = {} /\ adjust => k < 0 \/ (q.numsync = 0 /\ q.confirmed >= 0)

(* What quorum_update() is called with, and what it leaves.                 *)
KeyAsked(U, s, q, k, V, adjust) ==
  /\ Waits(U, s, q) /\ k \in Int /\ V \in SUBSET (U \ {s.me}) /\ adjust \in BOOLEAN
  /\ NotAdjusted(q, k, V, adjust)
KeyStored(U, s, q, V, r) ==
  /\ Waits(U, s, r) /\ SameTask(q, r) /\ r.sync = q.sync /\ r.numsync = q.numsync
  /\ r.halt = "no" => q.halt = "no" /\ (r.voters = V \/ (q.voters = {} /\ r.voters = {}))

(* quorum_update().                                                         *)
LEMMA QuorumUpdateWaits ==
  ASSUME NEW U, NEW s, NEW q, NEW k, NEW V, NEW adjust, KeyAsked(U, s, q, k, V, adjust),
         NEW r, r = QuorumUpdate(q, k, V, adjust)
  PROVE  KeyStored(U, s, q, V, r)
  <1> SUFFICES ASSUME Waits(U, s, q), k \in Int, V \in SUBSET (U \ {s.me}), adjust \in BOOLEAN,
                      NotAdjusted(q, k, V, adjust)
               PROVE  /\ Waits(U, s, r) /\ SameTask(q, r) /\ r.sync = q.sync /\ r.numsync = q.numsync
                      /\ r.halt = "no" => q.halt = "no" /\ (r.voters = V \/ (q.voters = {} /\ r.voters = {}))
    BY DEF KeyAsked, KeyStored
  <1>1. q \in ResolverType(U, s.me) /\ q.confirmed \in Int /\ q.numsync \in Nat
    BY DEF Waits, ResolverType
  <1>2. CASE q.halt # "no"
    <2>1. r = q
      BY <1>2 DEF QuorumUpdate
    <2>2. QED BY <1>2, <2>1 DEF SameTask
  <1>3. CASE q.halt = "no" /\ BadQuorum(k, V)
    <2>1. r = [q EXCEPT !.halt = "error"]
      BY <1>3 DEF QuorumUpdate, Halt
    <2>2. /\ r \in ResolverType(U, s.me) /\ SameTask(q, r) /\ r.halt = "error"
          /\ r.sync = q.sync /\ r.numsync = q.numsync
      BY <1>1, <2>1 DEF ResolverType, SameTask, Halts
    <2>3. QED BY <2>2 DEF Waits
  <1>4. CASE q.halt = "no" /\ ~BadQuorum(k, V)
    <2> DEFINE empty == q.confirmed = 0 /\ q.voters = {}
               more == IF adjust THEN Max({q.numsync - q.confirmed, 0}) ELSE 0
               quorum == IF empty THEN 0 ELSE k + more
               voters == IF empty THEN {} ELSE V
    <2>1. k \in Nat /\ (V = {} => k = 0)
      <3>1. Cardinality({}) = 0
        BY FS_EmptySet
      <3>2. QED BY <1>4, <3>1 DEF BadQuorum
    <2>2. more \in Nat /\ (V = {} => more = 0)
      <3> DEFINE d == q.numsync - q.confirmed
      <3>1. d \in Int /\ Max({d, 0}) = IF d >= 0 THEN d ELSE 0
        BY <1>1, MaxOfTwo
      <3>2. V = {} /\ adjust => d <= 0
        BY <1>1, <1>4, <2>1 DEF NotAdjusted
      <3>3. more = IF adjust THEN Max({d, 0}) ELSE 0
        OBVIOUS
      <3> HIDE DEF d, more
      <3>4. QED BY <3>1, <3>2, <3>3
    <2>3. r = StoreQuorum(q, q.leader, quorum, voters)
      BY <1>4 DEF QuorumUpdate
    <2> HIDE DEF more
    <2>4. quorum \in Nat /\ voters \in SUBSET (U \ {s.me}) /\ (voters = {} => quorum = 0)
      BY <2>1, <2>2
    <2>5. voters = V \/ (q.voters = {} /\ voters = {})
      OBVIOUS
    <2> HIDE DEF quorum, voters
    <2>6. /\ Waits(U, s, r) /\ SameTask(q, r) /\ r.sync = q.sync /\ r.numsync = q.numsync
          /\ r.voters = voters
      BY <1>4, <2>3, <2>4, StoreWaits
    <2>7. QED BY <1>4, <2>5, <2>6
  <1>5. QED BY <1>2, <1>3, <1>4

(* sync_update().                                                           *)
LEMMA SyncUpdateWaits ==
  ASSUME NEW U, NEW s, IsStart(U, s), NEW q \in ResolverType(U, s.me), NEW k \in Int, NEW S \in SUBSET (U \ {s.me}),
         NEW r, r = SyncUpdate(q, k, S)
  PROVE  /\ SameTask(q, r) /\ r.voters = q.voters /\ r.quorum = q.quorum
         /\ r.halt = "no" => q.halt = "no" /\ r.sync = S /\ r.numsync = k
         /\ Waits(U, s, q) /\ (q.halt = "no" => S # {}) => Waits(U, s, r)
         /\ Waits(U, s, q) /\ S = {} /\ (q.halt = "no" => q.voters = {}) => Waits(U, s, r) \/ Emptied(U, s, r)
         /\ Emptied(U, s, q) /\ S # {} => Waits(U, s, r)
  <1>1. CASE q.halt # "no"
    <2>1. r = q
      BY <1>1 DEF SyncUpdate
    <2>2. QED BY <1>1, <2>1 DEF SameTask, Emptied
  <1>2. ASSUME r.halt = "error", r \in ResolverType(U, s.me) PROVE Waits(U, s, r)
    BY <1>2 DEF Waits
  <1>3. CASE q.halt = "no" /\ (k < 0 \/ k > Cardinality(S))
    <2>1. r = [q EXCEPT !.halt = "error"]
      BY <1>3 DEF SyncUpdate, Halt
    <2>2. /\ r \in ResolverType(U, s.me) /\ SameTask(q, r) /\ r.halt = "error"
          /\ r.voters = q.voters /\ r.quorum = q.quorum
      BY <2>1 DEF ResolverType, SameTask, Halts
    <2>3. QED BY <1>2, <2>2
  <1>4. CASE q.halt = "no" /\ ~(k < 0 \/ k > Cardinality(S))
    <2> DEFINE T == TransitionType(U, s.me)
               new == [q EXCEPT !.numsync = k, !.sync = S]
               t == Transition("sync", q.leader, k, S)
    <2>1. k \in Nat /\ r = Yield(new, t)
      BY <1>4 DEF SyncUpdate
    <2>2. /\ new \in ResolverType(U, s.me) /\ SameTask(q, new) /\ new.halt = "no"
          /\ new.out = q.out /\ new.voters = q.voters /\ new.quorum = q.quorum
          /\ new.sync = S /\ new.numsync = k /\ q.out \in Seq(T)
      BY <1>4, <2>1 DEF ResolverType, SameTask
    <2>3. t \in T /\ t.type = "sync" /\ t.names = S
      BY <2>1 DEF Transition, TransitionType, ResolverType
    <2> HIDE DEF new, t
    <2>4. CASE ~CheckInvariants(new)
      <3>1. r = [new EXCEPT !.halt = "error"]
        BY <2>1, <2>4 DEF Yield, Halt
      <3>2. /\ r \in ResolverType(U, s.me) /\ SameTask(new, r) /\ r.halt = "error"
            /\ r.voters = new.voters /\ r.quorum = new.quorum
        BY <2>2, <3>1 DEF ResolverType, SameTask, Halts
      <3>3. QED BY <1>2, <2>2, <3>2 DEF SameTask
    <2>5. CASE CheckInvariants(new)
      <3> DEFINE out == Emit(q.out, t)
      <3>1. r = [new EXCEPT !.out = out] /\ out = Emit(q.out, t)
        BY <2>1, <2>2, <2>5 DEF Yield
      <3>2. out \in Seq(T)
        BY <2>2, <2>3, EmitType
      <3> HIDE DEF out, T
      <3>3. /\ r \in ResolverType(U, s.me) /\ SameTask(new, r) /\ r.halt = "no" /\ r.out = out
            /\ r.voters = new.voters /\ r.quorum = new.quorum /\ r.sync = S /\ r.numsync = k
        BY <2>2, <3>1, <3>2 DEF ResolverType, SameTask, T
      <3>4. PlainKeys(q.out) =>
              /\ PlainKeys(out) /\ (KeyFirst(s, q.out) => KeyFirst(s, out))
              /\ NamesSomebody(q.out) /\ S # {} => NamesSomebody(out)
              /\ NamesSomebody(q.out) => EmptyOnlyLast(out)
              /\ EmptyOnlyLast(q.out) /\ S # {} => NamesSomebody(out)
        <4> SUFFICES ASSUME PlainKeys(q.out)
                     PROVE  /\ PlainKeys(out) /\ (KeyFirst(s, q.out) => KeyFirst(s, out))
                            /\ NamesSomebody(q.out) /\ S # {} => NamesSomebody(out)
                            /\ NamesSomebody(q.out) => EmptyOnlyLast(out)
                            /\ EmptyOnlyLast(q.out) /\ S # {} => NamesSomebody(out)
          OBVIOUS
        <4>1. t.type = "quorum" /\ t.names = {} => t.num = 0
          BY <2>3
        <4>2. /\ PlainKeys(out) /\ (KeyFirst(s, q.out) => KeyFirst(s, out))
              /\ NamesSomebody(q.out) /\ (t.type = "sync" => t.names # {}) => NamesSomebody(out)
              /\ NamesSomebody(q.out) /\ t.type = "sync" => EmptyOnlyLast(out)
              /\ EmptyOnlyLast(q.out) /\ t.type = "sync" /\ t.names # {} => NamesSomebody(out)
          <5>1. out = Emit(q.out, t) /\ q.out \in Seq(T) /\ t \in T
            BY <2>2, <2>3, <3>1
          <5>2. QED BY <4>1, <5>1, EmitWaits
        <4>3. QED BY <2>3, <4>2
      <3>5. S = {} => k = 0
        <4>1. Cardinality({}) = 0
          BY FS_EmptySet
        <4>2. QED BY <1>4, <2>1, <4>1
      <3>7. k <= Cardinality(S)
        <4>1. Cardinality(S) \in Nat
          BY FiniteNodes
        <4>2. QED BY <1>4, <2>1, <4>1
      <3>6. Waits(U, s, q) /\ S # {} => Waits(U, s, r)
        BY <1>4, <2>2, <3>3, <3>4, <3>7 DEF Waits
      <3>8. Waits(U, s, q) /\ S = {} /\ q.voters = {} => Emptied(U, s, r)
        BY <1>4, <2>2, <3>3, <3>4, <3>5 DEF Waits, Emptied
      <3>9. Emptied(U, s, q) /\ S # {} => Waits(U, s, r)
        BY <1>4, <2>2, <3>3, <3>4, <3>7 DEF Waits, Emptied
      <3>10. QED BY <1>4, <2>2, <3>3, <3>6, <3>8, <3>9 DEF SameTask
    <2>6. QED BY <2>4, <2>5
  <1>5. QED BY <1>1, <1>3, <1>4

(* The fields of such a resolver.                                           *)
LEMMA WaitsFields ==
  ASSUME NEW U, NEW s, IsStart(U, s), NEW q \in ResolverType(U, s.me)
  PROVE  /\ q.sync \in SUBSET (U \ {s.me}) /\ q.active \in SUBSET (U \ {s.me}) /\ q.voters \in SUBSET U
         /\ q.quorum \in Nat /\ q.numsync \in Nat /\ q.confirmed \in Int /\ q.wanted \in Nat /\ q.wanted >= 1
         /\ \A S \in SUBSET U : IsFiniteSet(S) /\ Cardinality(S) \in Nat /\ (S = {} <=> Cardinality(S) = 0)
  <1>1. \A S \in SUBSET U : IsFiniteSet(S) /\ Cardinality(S) \in Nat /\ (S = {} <=> Cardinality(S) = 0)
    BY FS_Subset, FS_CardinalityType, FS_EmptySet DEF IsStart
  <1>2. QED BY <1>1 DEF ResolverType

(* Nobody is both a voter and the node itself.                              *)
Apart(s, q) == s.me \notin q.voters

(* __handle_non_steady_cases(), sync is a subset of voters.                 *)
LEMMA SyncIsSubsetWaits ==
  ASSUME NEW U, NEW s, IsStart(U, s), NEW q, Waits(U, s, q), Apart(s, q), q.halt = "no",
         q.sync \subseteq q.voters, q.sync = {} => q.confirmed >= 0,
         NEW r, r = SyncIsSubset(q)
  PROVE  Waits(U, s, r) /\ SameTask(q, r) /\ (r.halt = "no" => Apart(s, r))
  <1> DEFINE gone == q.voters \ (q.sync \cup q.active)
             k == Cardinality(q.voters) - Cardinality(gone) - q.numsync
             adjust == q.sync \subseteq q.active
             V == q.voters \ gone
             q1 == IF gone = {} THEN q ELSE QuorumUpdate(q, k, V, adjust)
             new == (q1.voters \cap q1.active) \ q1.sync
  <1>1. r = IF new = {} THEN q1 ELSE SyncUpdate(q1, q1.numsync, q1.sync \cup new)
    BY DEF SyncIsSubset
  <1>2. q \in ResolverType(U, s.me) /\ q.numsync <= Cardinality(q.sync)
    BY DEF Waits
  <1>3. /\ k \in Int /\ V \in SUBSET (U \ {s.me}) /\ adjust \in BOOLEAN
        /\ V = {} => q.sync = {}
    <2>1. Cardinality(q.voters) \in Nat /\ Cardinality(gone) \in Nat /\ q.numsync \in Nat /\ q.voters \in SUBSET U
      BY <1>2, WaitsFields
    <2>2. QED BY <2>1 DEF Apart
  <1>4. V = {} => q.numsync = 0 /\ q.confirmed >= 0
    <2>1. q.numsync \in Nat /\ (q.sync = {} => Cardinality(q.sync) = 0)
      BY <1>2, WaitsFields
    <2>2. QED BY <1>2, <1>3, <2>1
  <1>5. Waits(U, s, q1) /\ SameTask(q, q1) /\ (q1.halt = "no" => Apart(s, q1))
    <2>1. CASE gone = {}
      BY <2>1 DEF SameTask
    <2>2. CASE gone # {}
      <3>1. q1 = QuorumUpdate(q, k, V, adjust)
        BY <2>2
      <3> HIDE DEF k, V, adjust, q1
      <3>2. /\ Waits(U, s, q1) /\ SameTask(q, q1)
            /\ q1.halt = "no" => q1.voters = V \/ (q.voters = {} /\ q1.voters = {})
        <4>1. KeyAsked(U, s, q, k, V, adjust)
          BY <1>3, <1>4 DEF KeyAsked, NotAdjusted
        <4>2. KeyStored(U, s, q, V, q1)
          BY <3>1, <4>1, QuorumUpdateWaits
        <4>3. QED BY <4>2 DEF KeyStored
      <3>3. QED BY <1>3, <3>2 DEF Apart
    <2>3. QED BY <2>1, <2>2
  <1> HIDE DEF q1
  <1>6. CASE new = {}
    BY <1>1, <1>5, <1>6
  <1>7. CASE new # {}
    <2> DEFINE S == q1.sync \cup new
               n == q1.numsync
    <2>1. r = SyncUpdate(q1, n, S) /\ S # {}
      BY <1>1, <1>7
    <2>2. q1 \in ResolverType(U, s.me)
      BY <1>5 DEF Waits
    <2>3. n \in Int /\ S \in SUBSET (U \ {s.me})
      BY <2>2, WaitsFields
    <2> HIDE DEF S, n
    <2>4. Waits(U, s, r) /\ SameTask(q1, r) /\ r.voters = q1.voters /\ (r.halt = "no" => q1.halt = "no")
      BY <1>5, <2>1, <2>2, <2>3, SyncUpdateWaits
    <2>5. QED BY <1>5, <2>4 DEF SameTask, Apart
  <1>8. QED BY <1>6, <1>7

(* __handle_non_steady_cases(), sync is a superset of voters.               *)
LEMMA SyncIsSupersetWaits ==
  ASSUME NEW U, NEW s, IsStart(U, s), NEW q, Waits(U, s, q), Apart(s, q), q.halt = "no",
         q.voters \subseteq q.sync, NEW r, r = SyncIsSuperset(q)
  PROVE  (Waits(U, s, r) \/ Emptied(U, s, r)) /\ SameTask(q, r) /\ (r.halt = "no" => Apart(s, r))
  <1> DEFINE gone == q.sync \ q.active
             left == q.sync \ gone
             shrink == gone # {} /\ left # {} /\ (q.voters = {} \/ left \cap q.voters # {})
             k1 == Min({q.numsync, Cardinality(left)})
             q1 == IF shrink THEN SyncUpdate(q, k1, left) ELSE q
             new == (q1.sync \ q1.voters) \cap q1.active
             V == q1.voters \cup new
             k2 == Cardinality(V) - q1.numsync
             yes == TRUE
             q2 == IF new = {} THEN q1 ELSE QuorumUpdate(q1, k2, V, yes)
             dead == q2.sync \ q2.voters
             k3 == Min({q2.numsync, Cardinality(q2.sync) - Cardinality(dead)})
             S == q2.sync \ dead
  <1>1. r = IF dead = {} THEN q2 ELSE SyncUpdate(q2, k3, S)
    BY DEF SyncIsSuperset
  <1>2. q \in ResolverType(U, s.me)
    BY DEF Waits
  <1>3. /\ Waits(U, s, q1) /\ SameTask(q, q1) /\ q1.voters = q.voters
        /\ q1.halt = "no" => q1.sync \cap q1.voters # {} \/ q1.voters = {}
    <2>1. CASE ~shrink
      BY <2>1 DEF SameTask
    <2>2. CASE shrink
      <3>1. q1 = SyncUpdate(q, k1, left) /\ left # {} /\ (q.voters = {} \/ left \cap q.voters # {})
        BY <2>2
      <3>2. left \in SUBSET (U \ {s.me}) /\ left \in SUBSET U /\ q.numsync \in Int
        BY <1>2, WaitsFields
      <3>3. Cardinality(left) \in Int
        BY <1>2, <3>2, WaitsFields
      <3>4. k1 \in Int
        <4> DEFINE n == Cardinality(left)
        <4>1. n \in Int /\ k1 = Min({q.numsync, n})
          BY <3>3
        <4> HIDE DEF n, k1
        <4>2. QED BY <3>2, <4>1, MinOfTwo
      <3> HIDE DEF left, k1, q1
      <3>5. /\ Waits(U, s, q1) /\ SameTask(q, q1) /\ q1.voters = q.voters
            /\ q1.halt = "no" => q1.sync = left
        BY <1>2, <3>1, <3>2, <3>4, SyncUpdateWaits
      <3>6. QED BY <3>1, <3>5
    <2>3. QED BY <2>1, <2>2
  <1> HIDE DEF q1
  <1>4. q1 \in ResolverType(U, s.me)
    BY <1>3 DEF Waits
  <1>5. /\ Waits(U, s, q2) /\ SameTask(q1, q2) /\ (q2.halt = "no" => Apart(s, q2))
        /\ q2.halt = "no" => q2.sync \cap q2.voters # {} \/ q2.voters = {}
    <2>1. CASE new = {}
      BY <1>3, <2>1 DEF SameTask, Apart
    <2>2. CASE new # {}
      <3>1. /\ q2 = QuorumUpdate(q1, k2, V, yes) /\ yes \in BOOLEAN /\ V # {} /\ new \subseteq V
            /\ new \subseteq q1.sync
        BY <2>2
      <3>2. V \in SUBSET U /\ V \in SUBSET (U \ {s.me}) /\ q1.numsync \in Int
        BY <1>2, <1>3, <1>4, WaitsFields DEF Apart
      <3>3. Cardinality(V) \in Int
        BY <1>4, <3>2, WaitsFields
      <3>4. k2 \in Int
        BY <3>2, <3>3
      <3> HIDE DEF V, k2, yes, q2, new
      <3>5. /\ Waits(U, s, q2) /\ SameTask(q1, q2) /\ q2.sync = q1.sync
            /\ q2.halt = "no" => q2.voters = V \/ (q1.voters = {} /\ q2.voters = {})
        <4>1. KeyAsked(U, s, q1, k2, V, yes)
          BY <1>3, <3>1, <3>2, <3>4 DEF KeyAsked, NotAdjusted
        <4>2. KeyStored(U, s, q1, V, q2)
          BY <3>1, <4>1, QuorumUpdateWaits
        <4>3. QED BY <4>2 DEF KeyStored
      <3>6. QED BY <2>2, <3>1, <3>2, <3>5 DEF Apart
    <2>3. QED BY <2>1, <2>2
  <1> HIDE DEF q2
  <1>6. SameTask(q, q2) /\ q2 \in ResolverType(U, s.me)
    BY <1>3, <1>5 DEF SameTask, Waits
  <1>7. CASE dead = {}
    BY <1>1, <1>5, <1>6, <1>7
  <1>8. CASE dead # {}
    <2>1. r = SyncUpdate(q2, k3, S)
      BY <1>1, <1>8
    <2>2. S \in SUBSET (U \ {s.me}) /\ q2.numsync \in Int /\ q2.sync \in SUBSET U /\ dead \in SUBSET U
      BY <1>6, WaitsFields
    <2>3. Cardinality(q2.sync) \in Nat /\ Cardinality(dead) \in Nat
      BY <1>6, <2>2, WaitsFields
    <2>4. k3 \in Int
      <3> DEFINE n == Cardinality(q2.sync) - Cardinality(dead)
      <3>1. n \in Int /\ k3 = Min({q2.numsync, n})
        BY <2>3
      <3> HIDE DEF n, k3
      <3>2. QED BY <2>2, <3>1, MinOfTwo
    <2>5. S = {} /\ q2.halt = "no" => q2.voters = {}
      BY <1>5
    <2> HIDE DEF S, k3, dead
    <2>6. /\ SameTask(q2, r) /\ r.voters = q2.voters /\ (r.halt = "no" => q2.halt = "no")
          /\ (q2.halt = "no" => S # {}) => Waits(U, s, r)
          /\ S = {} /\ (q2.halt = "no" => q2.voters = {}) => Waits(U, s, r) \/ Emptied(U, s, r)
      BY <1>5, <1>6, <2>1, <2>2, <2>4, SyncUpdateWaits
    <2>7. Waits(U, s, r) \/ Emptied(U, s, r)
      BY <2>5, <2>6
    <2>8. QED BY <1>5, <1>6, <2>6, <2>7 DEF SameTask, Apart
  <1>9. QED BY <1>7, <1>8

(* __handle_non_steady_cases(), the replication factor.                     *)
LEMMA ReplicationFactorInFlightWaits ==
  ASSUME NEW U, NEW s, IsStart(U, s), NEW q, Waits(U, s, q) \/ Emptied(U, s, q),
         q.halt = "no" => q.voters = q.sync /\ Apart(s, q),
         NEW r, r = ReplicationFactorInFlight(q)
  PROVE  /\ (Waits(U, s, r) \/ Emptied(U, s, r)) /\ SameTask(q, r)
         /\ r.halt = "no" => r.voters = r.sync
  <1> DEFINE k1 == Max({q.wanted, Cardinality(q.voters) - q.quorum})
             k2 == Cardinality(q.sync) - q.numsync
             yes == TRUE
             nodes == Cardinality(q.voters \cup q.sync)
             low == Min({q.numsync, q.confirmed})
             margin == q.quorum + low - nodes
  <1>1. /\ q \in ResolverType(U, s.me)
        /\ q.halt = "no" /\ q.voters = {} => q.quorum = 0 /\ q.numsync = 0
    <2>1. q \in ResolverType(U, s.me)
      BY DEF Waits, Emptied
    <2>2. q.sync \in SUBSET U /\ q.numsync \in Nat /\ (q.sync = {} => Cardinality(q.sync) = 0)
      BY <2>1, WaitsFields
    <2>3. QED BY <2>1, <2>2 DEF Waits, Emptied
  <1>2. /\ q.voters \in SUBSET U /\ q.sync \in SUBSET (U \ {s.me}) /\ q.quorum \in Nat /\ q.numsync \in Nat
        /\ q.wanted \in Nat /\ q.wanted >= 1 /\ q.confirmed \in Int
        /\ Cardinality(q.voters) \in Nat /\ Cardinality(q.sync) \in Nat /\ (q.sync = {} => Cardinality(q.sync) = 0)
    BY <1>1, WaitsFields
  <1>3. CASE q.halt # "no"
    <2>1. r = q
      BY <1>3, Zenon DEF ReplicationFactorInFlight, SyncUpdate, QuorumUpdate
    <2>2. QED BY <1>3, <2>1 DEF SameTask
  <1>4. CASE q.halt = "no" /\ q.voters = {}
    <2>1. nodes = 0 /\ q.numsync = 0 /\ q.quorum = 0
      <3>1. q.voters \cup q.sync = {}
        BY <1>4
      <3>2. QED BY <1>1, <1>4, <3>1, FS_EmptySet
    <2>2. low <= 0 /\ low \in Int
      <3>1. low = IF q.numsync <= q.confirmed THEN q.numsync ELSE q.confirmed
        BY <1>2, MinOfTwo
      <3> HIDE DEF low
      <3>2. QED BY <1>2, <2>1, <3>1
    <2> HIDE DEF nodes, low
    <2>3. ~(margin > 0) /\ q.numsync # q.wanted
      BY <1>2, <2>1, <2>2
    <2>4. r = q
      BY <2>3 DEF ReplicationFactorInFlight, nodes, low
    <2>5. QED BY <1>4, <2>4 DEF SameTask
  <1>5. CASE q.halt = "no" /\ q.voters # {}
    <2>1. Waits(U, s, q) /\ q.voters = q.sync /\ q.sync # {} /\ Apart(s, q)
      BY <1>5 DEF Emptied
    <2>2. \/ r = q \/ r = SyncUpdate(q, k1, q.sync)
          \/ r = QuorumUpdate(q, k2, q.voters, yes)
      BY DEF ReplicationFactorInFlight
    <2>3. k1 \in Int /\ k2 \in Int /\ yes \in BOOLEAN
      BY <1>2, MaxOfTwo
    <2> HIDE DEF k1, k2, yes
    <2>4. CASE r = q
      BY <2>1, <2>4 DEF SameTask
    <2>5. CASE r = SyncUpdate(q, k1, q.sync)
      <3>1. Waits(U, s, r) /\ SameTask(q, r) /\ r.voters = q.voters /\ (r.halt = "no" => r.sync = q.sync)
        BY <1>1, <1>2, <2>1, <2>3, <2>5, SyncUpdateWaits
      <3>2. QED BY <2>1, <3>1
    <2>6. CASE r = QuorumUpdate(q, k2, q.voters, yes)
      <3> DEFINE V == q.voters
      <3>1. KeyAsked(U, s, q, k2, V, yes) /\ r = QuorumUpdate(q, k2, V, yes)
        BY <1>2, <2>1, <2>3, <2>6 DEF KeyAsked, NotAdjusted
      <3> HIDE DEF V
      <3>2. /\ Waits(U, s, r) /\ SameTask(q, r) /\ r.sync = q.sync
            /\ r.halt = "no" => r.voters = V \/ (q.voters = {} /\ r.voters = {})
        BY <3>1, QuorumUpdateWaits DEF KeyStored
      <3>3. QED BY <2>1, <3>2 DEF V
    <2>7. QED BY <2>2, <2>4, <2>5, <2>6
  <1>6. QED BY <1>3, <1>4, <1>5

(* A failed assertion.                                                      *)
LEMMA AssertWaits ==
  ASSUME NEW U, NEW s, NEW q, Waits(U, s, q) \/ Emptied(U, s, q), NEW c \in BOOLEAN, NEW r, r = Assert_(q, c)
  PROVE  /\ Waits(U, s, r) \/ Emptied(U, s, r)
         /\ Waits(U, s, q) => Waits(U, s, r)
         /\ SameTask(q, r) /\ (r.halt = "no" => r = q /\ c)
  <1>1. CASE q.halt = "no" /\ ~c
    <2>1. r = [q EXCEPT !.halt = "assert"] /\ q \in ResolverType(U, s.me)
      BY <1>1 DEF Assert_, Halt, Waits, Emptied
    <2>2. r \in ResolverType(U, s.me) /\ SameTask(q, r) /\ r.halt = "assert"
      BY <2>1 DEF ResolverType, SameTask, Halts
    <2>3. QED BY <2>2 DEF Waits
  <1>2. CASE ~(q.halt = "no" /\ ~c)
    <2>1. r = q
      BY <1>2 DEF Assert_
    <2>2. QED BY <1>2, <2>1 DEF SameTask
  <1>3. QED BY <1>1, <1>2

(* __handle_non_steady_cases().                                             *)
LEMMA HandleNonSteadyCasesWaits ==
  ASSUME NEW U, NEW s, IsStart(U, s), NEW q, Waits(U, s, q), Apart(s, q), q.halt = "no",
         q.sync = {} => q.confirmed >= 0, NEW r, r = HandleNonSteadyCases(q)
  PROVE  /\ (Waits(U, s, r) \/ Emptied(U, s, r)) /\ SameTask(q, r)
         /\ r.halt = "no" => r.voters = r.sync
  <1> DEFINE q1 == CASE q.sync \subseteq q.voters /\ q.sync # q.voters -> SyncIsSubset(q)
                     [] q.voters \subseteq q.sync /\ q.sync # q.voters -> SyncIsSuperset(q)
                     [] OTHER -> q
             steady == q1.voters = q1.sync
             q2 == Assert_(q1, steady)
  <1>1. r = ReplicationFactorInFlight(q2)
    BY DEF HandleNonSteadyCases
  <1>2. (Waits(U, s, q1) \/ Emptied(U, s, q1)) /\ SameTask(q, q1) /\ (q1.halt = "no" => Apart(s, q1))
    <2>1. CASE q.sync \subseteq q.voters /\ q.sync # q.voters
      <3>1. q1 = SyncIsSubset(q)
        BY <2>1
      <3> HIDE DEF q1
      <3>2. QED BY <2>1, <3>1, SyncIsSubsetWaits
    <2>2. CASE q.voters \subseteq q.sync /\ q.sync # q.voters
      <3>1. q1 = SyncIsSuperset(q)
        BY <2>2
      <3> HIDE DEF q1
      <3>2. QED BY <2>2, <3>1, SyncIsSupersetWaits
    <2>3. CASE /\ ~(q.sync \subseteq q.voters /\ q.sync # q.voters)
               /\ ~(q.voters \subseteq q.sync /\ q.sync # q.voters)
      <3>1. q1 = q
        BY <2>3
      <3> HIDE DEF q1
      <3>2. QED BY <3>1 DEF SameTask
    <2>4. QED BY <2>1, <2>2, <2>3
  <1> HIDE DEF q1
  <1>3. steady \in BOOLEAN /\ q2 = Assert_(q1, steady)
    OBVIOUS
  <1> HIDE DEF q2, steady
  <1>4. (Waits(U, s, q2) \/ Emptied(U, s, q2)) /\ SameTask(q1, q2) /\ (q2.halt = "no" => q2 = q1 /\ steady)
    BY <1>2, <1>3, AssertWaits
  <1>5. q2.halt = "no" => q2.voters = q2.sync /\ Apart(s, q2)
    BY <1>2, <1>4 DEF steady
  <1>6. /\ (Waits(U, s, r) \/ Emptied(U, s, r)) /\ SameTask(q2, r)
        /\ r.halt = "no" => r.voters = r.sync
    BY <1>1, <1>4, <1>5, ReplicationFactorInFlightWaits
  <1>7. QED BY <1>2, <1>4, <1>6 DEF SameTask

(* __remove_gone_nodes() with nobody left.                                  *)
LEMMA RemoveAllNodesWaits ==
  ASSUME NEW U, NEW s, IsStart(U, s), NEW q, Waits(U, s, q), NEW r, r = RemoveAllNodes(q)
  PROVE  /\ (Waits(U, s, r) \/ Emptied(U, s, r)) /\ SameTask(q, r)
         /\ r.halt = "no" => r.voters = r.sync
  <1> DEFINE adjust == FALSE
             k == 0
             V == {}
             q1 == QuorumUpdate(q, k, V, adjust)
  <1>1. /\ r = SyncUpdate(q1, k, V) /\ q1 = QuorumUpdate(q, k, V, adjust)
        /\ k \in Int /\ V \in SUBSET (U \ {s.me}) /\ V = {}
    BY DEF RemoveAllNodes
  <1>2. KeyAsked(U, s, q, k, V, adjust)
    BY DEF KeyAsked, NotAdjusted
  <1> HIDE DEF adjust, k, V, q1
  <1>3. KeyStored(U, s, q, V, q1)
    BY <1>1, <1>2, QuorumUpdateWaits
  <1>4. /\ Waits(U, s, q1) /\ SameTask(q, q1) /\ (q1.halt = "no" => q1.voters = {})
        /\ q1 \in ResolverType(U, s.me)
    BY <1>1, <1>3 DEF KeyStored, Waits
  <1>5. /\ SameTask(q1, r) /\ r.voters = q1.voters
        /\ r.halt = "no" => q1.halt = "no" /\ r.sync = V
        /\ Waits(U, s, r) \/ Emptied(U, s, r)
    BY <1>1, <1>4, SyncUpdateWaits
  <1>6. QED BY <1>1, <1>4, <1>5 DEF SameTask

(* __remove_gone_nodes() with a quorum: somebody stays listed.              *)
LEMMA ReduceQuorumFirstWaits ==
  ASSUME NEW U, NEW s, IsStart(U, s), NEW q, Waits(U, s, q), q.halt = "no" => q.voters = q.sync,
         NEW gone, gone \subseteq q.sync, gone # q.sync, NEW r, r = ReduceQuorumFirst(q, gone)
  PROVE  /\ Waits(U, s, r) /\ SameTask(q, r)
         /\ r.halt = "no" => r.voters = r.sync /\ q.sync \ gone \subseteq r.sync
  <1> DEFINE remove == Last_(gone, q.quorum)
             S      == q.sync \ remove
             most   == IF q.wanted > q.numsync THEN q.wanted ELSE q.numsync
             k      == Min({most, Cardinality(S)})
             q1     == SyncUpdate(q, k, S)
             V      == q1.voters \ remove
             k2     == Cardinality(V) - q1.numsync
             adjust == gone \cap q1.sync = {}
  <1>1. r = QuorumUpdate(q1, k2, V, adjust)
    BY DEF ReduceQuorumFirst
  <1>2. /\ q \in ResolverType(U, s.me) /\ q.sync \in SUBSET (U \ {s.me})
        /\ q.wanted \in Nat /\ q.numsync \in Nat
    <2>1. q \in ResolverType(U, s.me)
      BY DEF Waits
    <2>2. QED BY <2>1, WaitsFields
  <1>3. /\ S \in SUBSET (U \ {s.me}) /\ S \in SUBSET U /\ q.sync \ gone \subseteq S /\ S # {}
        /\ remove \subseteq gone /\ s.me \notin S
    BY <1>2 DEF Last_
  <1>4. k \in Int
    <2> DEFINE n == Cardinality(S)
    <2>1. n \in Nat
      <3> HIDE DEF S
      <3>1. QED BY <1>3, FiniteNodes
    <2>2. most \in Nat /\ k = Min({most, n})
      BY <1>2
    <2> HIDE DEF n, k, most, S
    <2>3. QED BY <2>1, <2>2, MinOfTwo
  <1>5. q1 = SyncUpdate(q, k, S)
    OBVIOUS
  <1> HIDE DEF q1, k
  <1>6. /\ Waits(U, s, q1) /\ SameTask(q, q1) /\ q1.voters = q.voters
        /\ q1.halt = "no" => q.halt = "no" /\ q1.sync = S
    <2> HIDE DEF S
    <2>1. QED BY <1>2, <1>3, <1>4, <1>5, SyncUpdateWaits
  <1>7. q1 \in ResolverType(U, s.me) /\ (q1.halt = "no" => V = S)
    BY <1>6 DEF Waits
  <1>8. CASE q1.halt # "no"
    <2>1. r = q1
      BY <1>1, <1>8 DEF QuorumUpdate
    <2>2. QED BY <1>6, <1>8, <2>1
  <1>9. CASE q1.halt = "no"
    <2>1. V \in SUBSET (U \ {s.me}) /\ V \in SUBSET U /\ V # {} /\ V = S /\ q1.voters # {}
      BY <1>3, <1>7, <1>9
    <2>2. k2 \in Int
      <3> DEFINE n == Cardinality(V)
      <3>1. n \in Nat
        <4> HIDE DEF V
        <4>1. QED BY <2>1, FiniteNodes
      <3>2. q1.numsync \in Nat
        BY <1>7, WaitsFields
      <3> HIDE DEF n, V
      <3>3. QED BY <3>1, <3>2 DEF n
    <2>3. adjust \in BOOLEAN
      OBVIOUS
    <2> HIDE DEF V, k2, adjust, S
    <2>4. KeyAsked(U, s, q1, k2, V, adjust)
      BY <1>6, <2>1, <2>2, <2>3 DEF KeyAsked, NotAdjusted
    <2>5. KeyStored(U, s, q1, V, r)
      BY <1>1, <2>4, QuorumUpdateWaits
    <2>6. Waits(U, s, r) /\ SameTask(q1, r) /\ r.sync = q1.sync /\ (r.halt = "no" => r.voters = V)
      BY <2>1, <2>5 DEF KeyStored
    <2>7. QED BY <1>3, <1>6, <1>9, <2>1, <2>6 DEF SameTask
  <1>10. QED BY <1>8, <1>9

(* __remove_gone_nodes() without: somebody stays listed.                    *)
LEMMA ReduceSyncWaits ==
  ASSUME NEW U, NEW s, IsStart(U, s), NEW q, Waits(U, s, q), NEW gone \in SUBSET q.sync,
         q.halt = "no" => q.voters = q.sync /\ gone # q.sync,
         NEW r, r = ReduceSync(q, gone)
  PROVE  /\ Waits(U, s, r) /\ SameTask(q, r)
         /\ r.halt = "no" => r.voters = r.sync
  <1> DEFINE k        == q.numsync - Cardinality(gone)
             S        == q.sync \ gone
             V        == q.voters \ gone
             least    == Min({q.wanted, Cardinality(S)})
             decrease == k - least
             quorum   == IF decrease = 0 THEN 0 ELSE Min({decrease, Cardinality(V) - 1})
             none     == q.quorum = 0
             adjust   == FALSE
             q1       == Assert_(q, none)
             q2       == QuorumUpdate(q1, quorum, V, adjust)
  <1>1. r = SyncUpdate(q2, k, S)
    BY DEF ReduceSync
  <1>2. /\ q \in ResolverType(U, s.me) /\ q.sync \in SUBSET (U \ {s.me}) /\ q.voters \in SUBSET U
        /\ q.wanted \in Nat /\ q.numsync \in Nat
    <2>1. q \in ResolverType(U, s.me)
      BY DEF Waits
    <2>2. QED BY <2>1, WaitsFields
  <1>3. /\ S \in SUBSET U /\ V \in SUBSET U /\ gone \in SUBSET U /\ S \in SUBSET (U \ {s.me})
        /\ q.halt = "no" => V \in SUBSET (U \ {s.me}) /\ S # {} /\ V = S /\ q.voters # {}
    BY <1>2
  <1>4. Cardinality(S) \in Nat /\ Cardinality(V) \in Nat /\ Cardinality(gone) \in Nat
    BY <1>3, FiniteNodes
  <1>5. k \in Int /\ quorum \in Int
    <2>1. k \in Int /\ Cardinality(V) - 1 \in Int
      BY <1>2, <1>4
    <2>2. least \in Int
      <3> DEFINE n == Cardinality(S)
      <3>1. n \in Int /\ q.wanted \in Int /\ least = Min({q.wanted, n})
        BY <1>2, <1>4
      <3> HIDE DEF n, least
      <3>2. QED BY <3>1, MinOfTwo
    <2> HIDE DEF least
    <2>3. decrease \in Int
      BY <2>1, <2>2
    <2> HIDE DEF decrease
    <2>4. Min({decrease, Cardinality(V) - 1}) \in Int
      BY <2>1, <2>3, MinOfTwo
    <2>5. QED BY <2>1, <2>4
  <1>6. q1 = Assert_(q, none) /\ none \in BOOLEAN
    OBVIOUS
  <1>7. q2 = QuorumUpdate(q1, quorum, V, adjust) /\ adjust = FALSE
    OBVIOUS
  <1> HIDE DEF q1, q2, quorum, none, adjust, S, V, k
  <1>8. Waits(U, s, q1) /\ SameTask(q, q1) /\ (q1.halt = "no" => q1 = q)
    BY <1>6, AssertWaits
  <1>9. /\ Waits(U, s, q2) /\ SameTask(q1, q2)
        /\ q2.halt = "no" => q.halt = "no" /\ q2.voters = V
    <2>1. CASE q1.halt # "no"
      <3>1. q2 = q1
        BY <1>7, <2>1 DEF QuorumUpdate
      <3>2. QED BY <1>8, <2>1, <3>1 DEF SameTask
    <2>2. CASE q1.halt = "no"
      <3>1. KeyAsked(U, s, q1, quorum, V, adjust)
        BY <1>3, <1>5, <1>7, <1>8, <2>2 DEF KeyAsked, NotAdjusted
      <3>2. KeyStored(U, s, q1, V, q2)
        BY <1>7, <3>1, QuorumUpdateWaits
      <3>3. QED BY <1>3, <1>8, <2>2, <3>2 DEF KeyStored
    <2>3. QED BY <2>1, <2>2
  <1>10. q2 \in ResolverType(U, s.me)
    BY <1>9 DEF Waits
  <1>11. /\ Waits(U, s, r) /\ SameTask(q2, r) /\ r.voters = q2.voters
         /\ r.halt = "no" => q2.halt = "no" /\ r.sync = S
    <2>1. q2.halt = "no" => S # {}
      BY <1>3, <1>9
    <2>2. QED BY <1>1, <1>3, <1>5, <1>9, <1>10, <2>1, SyncUpdateWaits
  <1>12. QED BY <1>3, <1>8, <1>9, <1>11 DEF SameTask

(* __remove_gone_nodes().                                                   *)
LEMMA RemoveGoneNodesWaits ==
  ASSUME NEW U, NEW s, IsStart(U, s), NEW q, Waits(U, s, q) \/ Emptied(U, s, q),
         q.halt = "no" => q.voters = q.sync, NEW r, r = RemoveGoneNodes(q)
  PROVE  /\ (Waits(U, s, r) \/ Emptied(U, s, r)) /\ SameTask(q, r)
         /\ r.halt = "no" => r.voters = r.sync
  <1> DEFINE gone == q.sync \ q.active
             q1   == IF q.quorum = 0 THEN q ELSE ReduceQuorumFirst(q, gone)
             rest == IF q.quorum = 0 THEN gone ELSE gone \cap q1.sync
  <1>1. CASE gone = {}
    <2>1. r = q
      BY <1>1 DEF RemoveGoneNodes
    <2>2. QED BY <2>1 DEF SameTask
  <1>2. gone # {} => Waits(U, s, q)
    BY DEF Emptied
  <1>3. CASE gone # {} /\ gone = q.sync
    <2>1. r = RemoveAllNodes(q)
      BY <1>3 DEF RemoveGoneNodes
    <2>2. QED BY <1>2, <1>3, <2>1, RemoveAllNodesWaits
  <1>4. CASE gone # {} /\ gone # q.sync
    <2>1. r = IF rest = {} THEN q1 ELSE ReduceSync(q1, rest)
      BY <1>4 DEF RemoveGoneNodes
    <2>2. gone \subseteq q.sync /\ gone # q.sync /\ Waits(U, s, q)
      BY <1>2, <1>4
    <2>3. /\ Waits(U, s, q1) /\ SameTask(q, q1)
          /\ q1.halt = "no" => q1.voters = q1.sync /\ q.sync \ gone \subseteq q1.sync
      <3>1. CASE q.quorum = 0
        <4>1. q1 = q
          BY <3>1
        <4> HIDE DEF q1
        <4>2. QED BY <2>2, <4>1 DEF SameTask
      <3>2. CASE q.quorum # 0
        <4>1. q1 = ReduceQuorumFirst(q, gone)
          BY <3>2
        <4> HIDE DEF q1, gone
        <4>2. QED BY <2>2, <4>1, ReduceQuorumFirstWaits
      <3>3. QED BY <3>1, <3>2
    <2>4. rest \in SUBSET q1.sync /\ rest \subseteq gone
      OBVIOUS
    <2>5. q1.halt = "no" => rest # q1.sync
      <3> HIDE DEF q1, rest
      <3>1. QED BY <2>2, <2>3, <2>4
    <2> HIDE DEF q1, rest, gone
    <2>6. CASE rest = {}
      BY <2>1, <2>3, <2>6
    <2>7. CASE rest # {}
      <3>1. r = ReduceSync(q1, rest)
        BY <2>1, <2>7
      <3>2. Waits(U, s, r) /\ SameTask(q1, r) /\ (r.halt = "no" => r.voters = r.sync)
        BY <2>3, <2>4, <2>5, <3>1, ReduceSyncWaits
      <3>3. QED BY <2>3, <3>2 DEF SameTask
    <2>8. QED BY <2>6, <2>7
  <1>5. QED BY <1>1, <1>3, <1>4

(* An exception is passed through.                                          *)
LEMMA HaltedStays ==
  ASSUME NEW q, q.halt # "no"
  PROVE  /\ \A k, S : SyncUpdate(q, k, S) = q
         /\ \A k, V, adjust : QuorumUpdate(q, k, V, adjust) = q
  BY Zenon DEF SyncUpdate, QuorumUpdate

(* __add_new_nodes(): with somebody there, somebody is listed.              *)
LEMMA AddNewNodesWaits ==
  ASSUME NEW U, NEW s, IsStart(U, s), NEW q, Waits(U, s, q) \/ Emptied(U, s, q),
         q.halt = "no" => q.voters = q.sync, q.active # {}, NEW r, r = AddNewNodes(q)
  PROVE  Waits(U, s, r) /\ SameTask(q, r) /\ (r.halt = "no" => Apart(s, r))
  <1> DEFINE new    == q.active \ q.sync
             all    == Cardinality(q.sync \cup new)
             wanted == Min({q.wanted, all})
             add    == IF q.sync = {} THEN new ELSE First(new, wanted - q.numsync)
             S      == q.sync \cup add
             k1     == q.numsync + RaiseBy(q, wanted, add)
             q0     == SyncUpdate(q, k1, S)
             more   == q.voters \cup add
             k2     == Cardinality(more) - wanted
             adjust == TRUE
             q1     == IF wanted > q.numsync THEN QuorumUpdate(q0, k2, more, adjust) ELSE q
             rest   == new \ q1.sync
             V      == q1.voters \cup rest
             k3     == Cardinality(V) - wanted
             below  == wanted > q1.confirmed
             q2     == QuorumUpdate(q1, k3, V, below)
             last   == q2.sync \cup rest
  <1>1. r = IF new = {} \/ rest = {} THEN IF new = {} THEN q ELSE q1
            ELSE SyncUpdate(q2, wanted, last)
    BY DEF AddNewNodes
  <1>2. q \in ResolverType(U, s.me)
    BY DEF Waits, Emptied
  <1>3. /\ q.sync \in SUBSET (U \ {s.me}) /\ q.active \in SUBSET (U \ {s.me})
        /\ q.wanted \in Nat /\ q.wanted >= 1 /\ q.numsync \in Nat
    BY <1>2, WaitsFields
  <1>4. CASE q.halt # "no"
    <2>1. Waits(U, s, q)
      BY <1>4 DEF Emptied
    <2>2. r = q
      <3> HIDE DEF new, wanted, S, k1, more, k2, adjust, V, k3, below, last
      <3>1. q0 = q
        BY <1>4, HaltedStays
      <3> HIDE DEF q0
      <3>2. q1 = q
        <4>1. QuorumUpdate(q, k2, more, adjust) = q
          BY <1>4, HaltedStays
        <4>2. QED BY <3>1, <4>1
      <3> HIDE DEF q1
      <3>3. q2 = q
        <4>1. QuorumUpdate(q, k3, V, below) = q
          BY <1>4, HaltedStays
        <4>2. QED BY <3>2, <4>1
      <3> HIDE DEF q2
      <3>4. SyncUpdate(q, wanted, last) = q
        BY <1>4, HaltedStays
      <3>5. QED BY <1>1, <3>2, <3>3, <3>4
    <2>3. QED BY <1>4, <2>1, <2>2 DEF SameTask
  <1>5. CASE q.halt = "no" /\ new = {}
    <2>1. r = q
      BY <1>1, <1>5
    <2>2. Waits(U, s, q) /\ Apart(s, q)
      BY <1>3, <1>5 DEF Emptied, Apart
    <2>3. QED BY <2>1, <2>2 DEF SameTask
  <1>6. CASE q.halt = "no" /\ new # {}
    <2>1. /\ new \in SUBSET (U \ {s.me}) /\ add \in SUBSET new /\ S # {}
          /\ S \in SUBSET (U \ {s.me}) /\ add \in SUBSET U
          /\ more \in SUBSET (U \ {s.me}) /\ more \in SUBSET U /\ more # {} /\ adjust \in BOOLEAN
      BY <1>3, <1>6 DEF First
    <2>2. wanted \in Nat /\ wanted >= 1
      <3>1. q.sync \cup new \in SUBSET U /\ q.sync \cup new # {}
        BY <1>3, <1>6
      <3>2. all \in Nat /\ all >= 1
        BY <3>1, FiniteNodes
      <3> HIDE DEF all, new
      <3>3. wanted = IF q.wanted <= all THEN q.wanted ELSE all
        BY <1>3, <3>2, MinOfTwo
      <3> HIDE DEF wanted
      <3>4. QED BY <1>3, <3>2, <3>3
    <2> HIDE DEF wanted
    <2>3. Waits(U, s, q1) /\ SameTask(q, q1) /\ (q1.halt = "no" => Apart(s, q1))
      <3>1. CASE ~(wanted > q.numsync)
        <4>1. q1 = q
          BY <3>1
        <4>2. Waits(U, s, q) /\ Apart(s, q)
          BY <1>3, <1>6, <2>2, <3>1 DEF Emptied, Apart
        <4> HIDE DEF q1
        <4>3. QED BY <4>1, <4>2 DEF SameTask
      <3>2. CASE wanted > q.numsync
        <4>1. q1 = QuorumUpdate(q0, k2, more, adjust) /\ q0 = SyncUpdate(q, k1, S)
          BY <3>2
        <4>2. Cardinality(add) \in Nat /\ Cardinality(more) \in Nat
          <5> HIDE DEF add, more
          <5>1. QED BY <2>1, FiniteNodes
        <4>3. k1 \in Int /\ k2 \in Int
          <5>1. k1 \in Int
            <6>1. CASE q.sync = {}
              <7>1. k1 = q.numsync + (wanted - q.numsync)
                BY <6>1 DEF RaiseBy
              <7> HIDE DEF k1
              <7>2. QED BY <1>3, <2>2, <7>1
            <6>2. CASE q.sync # {}
              <7> HIDE DEF add
              <7>1. k1 = q.numsync + Cardinality(add)
                BY <6>2 DEF RaiseBy
              <7> HIDE DEF k1
              <7>2. QED BY <1>3, <4>2, <7>1
            <6>3. QED BY <6>1, <6>2
          <5>2. k2 \in Int
            BY <2>2, <4>2
          <5>3. QED BY <5>1, <5>2
        <4> HIDE DEF q0, more, adjust, q1, new, k1, k2, S
        <4>4. Waits(U, s, q0) /\ SameTask(q, q0)
          BY <1>2, <2>1, <4>1, <4>3, SyncUpdateWaits
        <4>5. KeyAsked(U, s, q0, k2, more, adjust)
          BY <2>1, <4>3, <4>4 DEF KeyAsked, NotAdjusted
        <4>6. KeyStored(U, s, q0, more, q1)
          BY <4>1, <4>5, QuorumUpdateWaits
        <4>7. Waits(U, s, q1) /\ SameTask(q0, q1) /\ (q1.halt = "no" => q1.voters \in {more, {}})
          BY <4>6 DEF KeyStored
        <4>8. QED BY <2>1, <4>4, <4>7 DEF SameTask, Apart
      <3>3. QED BY <3>1, <3>2
    <2> HIDE DEF q1, new
    <2>4. CASE rest = {}
      BY <1>1, <1>6, <2>3, <2>4
    <2>5. CASE rest # {}
      <3>1. r = SyncUpdate(q2, wanted, last) /\ q2 = QuorumUpdate(q1, k3, V, below)
        BY <1>1, <1>6, <2>5
      <3>2. q1 \in ResolverType(U, s.me)
        BY <2>3 DEF Waits
      <3>3. q1.voters \in SUBSET U
        BY <3>2, WaitsFields
      <3>4. CASE q1.halt # "no"
        <4>1. q2 = q1
          <5> HIDE DEF V, k3, below
          <5>1. QED BY <3>1, <3>4, HaltedStays
        <4> HIDE DEF last, q2
        <4>2. r = q1
          <5>1. SyncUpdate(q1, wanted, last) = q1
            BY <3>4, HaltedStays
          <5>2. QED BY <3>1, <4>1, <5>1
        <4>3. QED BY <2>3, <4>2
      <3>5. CASE q1.halt = "no"
        <4>1. /\ rest \in SUBSET (U \ {s.me}) /\ V \in SUBSET (U \ {s.me})
              /\ V \in SUBSET U /\ V # {} /\ below \in BOOLEAN
          BY <2>1, <2>3, <2>5, <3>3, <3>5 DEF Apart
        <4>2. k3 \in Int
          <5>1. Cardinality(V) \in Nat
            BY <4>1, FiniteNodes
          <5>2. QED BY <2>2, <5>1
        <4> HIDE DEF q2, k3, V, below, rest
        <4>3. KeyAsked(U, s, q1, k3, V, below)
          BY <2>3, <4>1, <4>2 DEF KeyAsked, NotAdjusted
        <4>4. KeyStored(U, s, q1, V, q2)
          BY <3>1, <4>3, QuorumUpdateWaits
        <4>5. /\ Waits(U, s, q2) /\ SameTask(q1, q2) /\ (q2.halt = "no" => q2.voters \in {V, {}})
              /\ q2 \in ResolverType(U, s.me)
          BY <4>4 DEF KeyStored, Waits
        <4>6. q2.sync \in SUBSET (U \ {s.me})
          BY <4>5, WaitsFields
        <4>7. last \in SUBSET (U \ {s.me}) /\ last # {} /\ wanted \in Int
          BY <2>2, <2>5, <4>1, <4>6
        <4> HIDE DEF last
        <4>8. /\ Waits(U, s, r) /\ SameTask(q2, r) /\ r.voters = q2.voters
              /\ r.halt = "no" => q2.halt = "no"
          BY <3>1, <4>5, <4>7, SyncUpdateWaits
        <4>9. QED BY <2>3, <4>1, <4>5, <4>8 DEF SameTask, Apart
      <3>6. QED BY <3>4, <3>5
    <2>6. QED BY <2>4, <2>5
  <1>7. QED BY <1>4, <1>5, <1>6

(* __handle_replication_factor_change().                                    *)
LEMMA HandleReplicationFactorChangeWaits ==
  ASSUME NEW U, NEW s, IsStart(U, s), NEW q, Waits(U, s, q), q.halt = "no" => Apart(s, q),
         NEW r, r = HandleReplicationFactorChange(q)
  PROVE  Waits(U, s, r)
  <1> DEFINE most     == Min({q.wanted, Cardinality(q.sync)})
             increase == most - q.numsync
             k1       == q.numsync + increase
             up       == SyncUpdate(q, k1, q.sync)
             k2       == Cardinality(up.voters) - up.numsync
             yes      == TRUE
             k3       == Cardinality(q.voters) - q.numsync - increase
             below    == q.wanted > q.confirmed
             down     == IF q.quorum - increase < Cardinality(q.voters)
                         THEN QuorumUpdate(q, k3, q.voters, below) ELSE q
             k4       == down.numsync + increase
             raised   == QuorumUpdate(up, k2, up.voters, yes)
             lowered  == SyncUpdate(down, k4, down.sync)
  <1>1. r = CASE increase > 0 -> raised [] increase < 0 -> lowered [] increase = 0 -> q
    BY DEF HandleReplicationFactorChange
  <1>2. q \in ResolverType(U, s.me)
    BY DEF Waits
  <1>3. /\ q.sync \in SUBSET (U \ {s.me}) /\ q.sync \in SUBSET U /\ q.voters \in SUBSET U
        /\ q.wanted \in Nat /\ q.wanted >= 1 /\ q.numsync \in Nat
        /\ Cardinality(q.voters) \in Nat /\ Cardinality(q.sync) \in Nat
        /\ q.sync = {} <=> Cardinality(q.sync) = 0
        /\ q.voters = {} => Cardinality(q.voters) = 0
    BY <1>2, WaitsFields
  <1>4. most \in Nat /\ (most = 0 <=> q.sync = {}) /\ most <= Cardinality(q.sync)
    <2> DEFINE n == Cardinality(q.sync)
    <2>1. n \in Nat /\ (q.sync = {} <=> n = 0) /\ most = Min({q.wanted, n})
      BY <1>3
    <2> HIDE DEF n, most
    <2>2. most = IF q.wanted <= n THEN q.wanted ELSE n
      BY <1>3, <2>1, MinOfTwo
    <2>3. QED BY <1>3, <2>1, <2>2 DEF n
  <1> HIDE DEF most
  <1>5. increase \in Int /\ k1 = most /\ k3 \in Int /\ k3 = Cardinality(q.voters) - most
    BY <1>3, <1>4
  <1>6. CASE increase > 0
    <2>1. r = QuorumUpdate(up, k2, up.voters, yes) /\ yes \in BOOLEAN
      <3> HIDE DEF raised, lowered, increase
      <3>1. r = raised
        BY <1>1, <1>5, <1>6
      <3>2. QED BY <3>1 DEF raised
    <2>2. k1 \in Int /\ k1 > 0 /\ q.sync # {}
      BY <1>3, <1>4, <1>5, <1>6
    <2>3. up = SyncUpdate(q, k1, q.sync)
      OBVIOUS
    <2> HIDE DEF up, k1
    <2>4. /\ Waits(U, s, up) /\ up.voters = q.voters
          /\ up.halt = "no" => q.halt = "no" /\ up.numsync = k1
      BY <1>2, <1>3, <2>2, <2>3, SyncUpdateWaits
    <2>5. CASE up.halt # "no"
      <3> HIDE DEF k2, yes
      <3>1. r = up
        BY <2>1, <2>5, HaltedStays
      <3>2. QED BY <2>4, <3>1
    <2>6. CASE up.halt = "no"
      <3> DEFINE V == up.voters
      <3>1. V \in SUBSET (U \ {s.me})
        BY <1>3, <2>4, <2>6 DEF Apart
      <3>2. k2 \in Int /\ (V = {} => k2 < 0)
        BY <1>3, <2>2, <2>4, <2>6
      <3>3. r = QuorumUpdate(up, k2, V, yes)
        BY <2>1
      <3> HIDE DEF k2, yes, V
      <3>4. KeyAsked(U, s, up, k2, V, yes)
        BY <2>1, <2>4, <3>1, <3>2 DEF KeyAsked, NotAdjusted
      <3>5. KeyStored(U, s, up, V, r)
        BY <3>3, <3>4, QuorumUpdateWaits
      <3>6. QED BY <3>5 DEF KeyStored
    <2>7. QED BY <2>5, <2>6
  <1>7. CASE increase < 0
    <2>1. r = SyncUpdate(down, k4, down.sync)
      <3> HIDE DEF raised, lowered, increase
      <3>1. r = lowered
        BY <1>1, <1>5, <1>7
      <3>2. QED BY <3>1 DEF lowered
    <2>2. q.halt = "no" => q.sync # {} /\ most > 0
      <3>1. q.halt = "no" => q.numsync <= Cardinality(q.sync)
        BY DEF Waits
      <3>2. QED BY <1>3, <1>4, <1>7, <3>1
    <2>3. /\ Waits(U, s, down) /\ down.sync = q.sync /\ down.numsync = q.numsync
          /\ down.halt = "no" => q.halt = "no"
      <3>1. CASE ~(q.quorum - increase < Cardinality(q.voters))
        <4>1. down = q
          BY <3>1
        <4>2. QED BY <4>1
      <3>2. CASE q.quorum - increase < Cardinality(q.voters)
        <4> DEFINE V == q.voters
        <4>1. down = QuorumUpdate(q, k3, V, below) /\ below \in BOOLEAN
          BY <3>2
        <4>2. k3 \in Int /\ (q.halt = "no" /\ V = {} => k3 < 0)
          BY <1>3, <1>4, <1>5, <2>2
        <4>3. q.halt = "no" => V \in SUBSET (U \ {s.me})
          BY <1>3 DEF Apart
        <4> HIDE DEF down, k3, below, V
        <4>4. CASE q.halt # "no"
          <5>1. down = q
            BY <4>1, <4>4, HaltedStays
          <5>2. QED BY <4>4, <5>1
        <4>5. CASE q.halt = "no"
          <5>1. KeyAsked(U, s, q, k3, V, below)
            BY <4>1, <4>2, <4>3, <4>5 DEF KeyAsked, NotAdjusted
          <5>2. KeyStored(U, s, q, V, down)
            BY <4>1, <5>1, QuorumUpdateWaits
          <5>3. QED BY <5>2 DEF KeyStored
        <4>6. QED BY <4>4, <4>5
      <3>3. QED BY <3>1, <3>2
    <2> HIDE DEF down
    <2>4. k4 \in Int /\ down \in ResolverType(U, s.me) /\ (down.halt = "no" => down.sync # {})
      BY <1>3, <1>4, <2>2, <2>3 DEF Waits
    <2> HIDE DEF k4
    <2>5. down.sync \in SUBSET (U \ {s.me})
      BY <1>3, <2>3
    <2>6. QED BY <2>1, <2>3, <2>4, <2>5, SyncUpdateWaits
  <1>8. CASE increase = 0
    <2>1. r = q
      <3> HIDE DEF raised, lowered, increase
      <3>1. QED BY <1>1, <1>5, <1>8
    <2>2. QED BY <2>1
  <1>9. QED
    <2> HIDE DEF increase
    <2>1. increase > 0 \/ increase < 0 \/ increase = 0
      BY <1>5
    <2>2. QED BY <1>6, <1>7, <1>8, <2>1

(* The generator behind its first branches, with somebody there.            *)
LEMMA GeneratorWaits ==
  ASSUME NEW U, NEW s, IsStart(U, s), NEW q, Waits(U, s, q), q.halt = "no" => Apart(s, q),
         q.active # {}, q.sync = {} => q.confirmed >= 0,
         NEW mine \in BOOLEAN, NEW q3, q3 = AssumeConfirmed(Assert_(q, mine)),
         NEW r, r = IF q3.halt # "no" THEN q3
                    ELSE HandleReplicationFactorChange(AddNewNodes(RemoveGoneNodes(HandleNonSteadyCases(q3))))
  PROVE  Waits(U, s, r)
  <1> DEFINE qa == Assert_(q, mine)
             c == Min({Cardinality(qa.sync \cap qa.active), Cardinality(qa.voters) - qa.quorum})
             some == qa.halt = "no" /\ qa.confirmed = 0 /\ qa.sync \cap qa.active # {}
             q4 == HandleNonSteadyCases(q3)
             q5 == RemoveGoneNodes(q4)
             q6 == AddNewNodes(q5)
  <1>1. qa = Assert_(q, mine) /\ q3 = AssumeConfirmed(qa)
    OBVIOUS
  <1> HIDE DEF qa
  <1>2. Waits(U, s, qa) /\ (qa.halt = "no" => qa = q)
    BY <1>1, AssertWaits
  <1>3. /\ Waits(U, s, q3) /\ (q3.halt = "no" => Apart(s, q3) /\ q3.active # {})
        /\ q3.halt = "no" /\ q3.sync = {} => q3.confirmed >= 0
    <2>1. CASE ~some
      <3>1. q3 = qa
        BY <1>1, <2>1 DEF AssumeConfirmed
      <3>2. QED BY <1>2, <3>1
    <2>2. CASE some
      <3>1. q3 = [qa EXCEPT !.confirmed = c]
        BY <1>1, <2>2 DEF AssumeConfirmed
      <3>2. qa \in ResolverType(U, s.me)
        BY <1>2 DEF Waits
      <3>3. c \in Int
        <4>1. /\ qa.sync \cap qa.active \in SUBSET U /\ qa.voters \in SUBSET U /\ qa.quorum \in Nat
          BY <3>2, WaitsFields
        <4> DEFINE a == Cardinality(qa.sync \cap qa.active)
                   b == Cardinality(qa.voters) - qa.quorum
        <4>2. Cardinality(qa.sync \cap qa.active) \in Nat /\ Cardinality(qa.voters) \in Nat
          BY <4>1, FiniteNodes
        <4>3. a \in Int /\ b \in Int /\ c = Min({a, b})
          BY <4>1, <4>2
        <4> HIDE DEF a, b, c
        <4>4. QED BY <4>3, MinOfTwo
      <3> HIDE DEF c
      <3>4. /\ q3 \in ResolverType(U, s.me) /\ q3.halt = qa.halt /\ q3.out = qa.out
            /\ q3.voters = qa.voters /\ q3.quorum = qa.quorum /\ q3.sync = qa.sync
            /\ q3.numsync = qa.numsync /\ q3.active = qa.active
        BY <3>1, <3>2, <3>3 DEF ResolverType
      <3>5. Waits(U, s, q3)
        BY <1>2, <3>4 DEF Waits
      <3>6. QED BY <1>2, <2>2, <3>4, <3>5 DEF Apart
    <2>3. QED BY <2>1, <2>2
  <1>4. CASE q3.halt # "no"
    BY <1>3, <1>4
  <1>5. CASE q3.halt = "no"
    <2>1. /\ q4 = HandleNonSteadyCases(q3) /\ q5 = RemoveGoneNodes(q4)
          /\ q6 = AddNewNodes(q5) /\ r = HandleReplicationFactorChange(q6)
      BY <1>5
    <2> HIDE DEF q4, q5, q6
    <2>2. /\ (Waits(U, s, q4) \/ Emptied(U, s, q4)) /\ SameTask(q3, q4)
          /\ q4.halt = "no" => q4.voters = q4.sync
      BY <1>3, <1>5, <2>1, HandleNonSteadyCasesWaits
    <2>3. /\ (Waits(U, s, q5) \/ Emptied(U, s, q5)) /\ SameTask(q4, q5)
          /\ q5.halt = "no" => q5.voters = q5.sync
      BY <2>1, <2>2, RemoveGoneNodesWaits
    <2>4. q5.active # {}
      BY <1>3, <1>5, <2>2, <2>3 DEF SameTask
    <2>5. Waits(U, s, q6) /\ (q6.halt = "no" => Apart(s, q6))
      BY <2>1, <2>3, <2>4, AddNewNodesWaits
    <2>6. QED BY <2>1, <2>5, HandleReplicationFactorChangeWaits
  <1>6. QED BY <1>4, <1>5

(* The places in strict mode: a key without voters has quorum 0, there are  *)
(* standbys when the key is the node's own, and the list a new primary      *)
(* starts with names all others that the key does.                          *)
Served(s, q) ==
  /\ q.confirmed \in Nat /\ s.list.num <= Cardinality(s.list.names)
  /\ s.key.names = {} => s.key.num = 0
  /\ s.key.leader = s.me => q.active # {}
  /\ s.key.leader # s.me =>
       /\ s.list.names = (s.key.names \cup {s.key.leader}) \ {s.me} /\ s.list.num >= 1
       /\ Overlaps(s.me, s.key, s.list)

(* The resolver starts from its own key, or resets it.                      *)
LEMMA OwnKeyWaits ==
  ASSUME NEW U, NEW s, IsStart(U, s), NEW q, IsInput(U, s, q), Served(s, q), q.leader = s.me,
         NEW q1, q1 = IF CheckInvariants(q) THEN q ELSE Halt(q, "error"),
         NEW r, r = RecoverFromError(q1)
  PROVE  /\ Waits(U, s, r) /\ (r.halt = "no" => Apart(s, r)) /\ r.active # {}
         /\ r.sync = {} => r.confirmed >= 0
  <1>1. /\ q \in ResolverType(U, s.me) /\ q.out = <<>> /\ q.halt = "no" /\ s.me \notin q.voters
        /\ q.voters = {} => q.quorum = 0
        /\ q.numsync <= Cardinality(q.sync) /\ q.active # {} /\ q.confirmed \in Nat
        /\ s.key.leader = s.me
    BY DEF IsInput, IsStart, Served
  <1>2. Waits(U, s, q) /\ Apart(s, q)
    <2>1. NamesSomebody(q.out) /\ PlainKeys(q.out) /\ KeyFirst(s, q.out)
      <3>1. Len(q.out) = 0
        BY <1>1
      <3>2. QED BY <1>1, <3>1 DEF NamesSomebody, PlainKeys, KeyFirst
    <2>2. QED BY <1>1, <2>1 DEF Waits, Apart
  <1>3. CASE CheckInvariants(q)
    <2>1. r = q
      BY <1>1, <1>3 DEF RecoverFromError
    <2>2. QED BY <1>1, <1>2, <2>1
  <1>4. CASE ~CheckInvariants(q)
    <2> DEFINE k == Cardinality(q.sync) - q.numsync
               V == q.sync
               yes == TRUE
    <2>1. r = QuorumUpdate(q, k, V, yes)
      <3>1. q1 = [q EXCEPT !.halt = "error"]
        BY <1>4 DEF Halt
      <3>2. q1.halt = "error" /\ q1.sync = q.sync /\ q1.numsync = q.numsync /\ [q1 EXCEPT !.halt = "no"] = q
        BY <1>1, <3>1 DEF ResolverType
      <3>3. r = QuorumUpdate([q1 EXCEPT !.halt = "no"], Cardinality(q1.sync) - q1.numsync, q1.sync, TRUE)
        BY <3>2 DEF RecoverFromError, Halt
      <3>4. QED BY <3>2, <3>3
    <2>2. /\ V \in SUBSET (U \ {s.me}) /\ k \in Int /\ yes \in BOOLEAN
          /\ V = {} => q.numsync = 0
      <3>1. /\ q.sync \in SUBSET (U \ {s.me}) /\ q.sync \in SUBSET U /\ q.numsync \in Nat
            /\ Cardinality(q.sync) \in Nat /\ (q.sync = {} => Cardinality(q.sync) = 0)
        BY <1>1, WaitsFields
      <3>2. QED BY <1>1, <3>1
    <2> HIDE DEF k, V, yes
    <2>3. KeyAsked(U, s, q, k, V, yes)
      BY <1>1, <1>2, <2>2 DEF KeyAsked, NotAdjusted
    <2>4. KeyStored(U, s, q, V, r)
      BY <2>1, <2>3, QuorumUpdateWaits
    <2>5. QED BY <1>1, <2>2, <2>4 DEF KeyStored, SameTask, Apart
  <1>5. QED BY <1>3, <1>4

(* The resolver takes the key of another leader over: its first transition  *)
(* is that key, since the list already satisfies it.                        *)
LEMMA TakeOverWaits ==
  ASSUME NEW U, NEW s, IsStart(U, s), NEW q, IsInput(U, s, q), Served(s, q), q.leader # s.me,
         NEW r, r = TakeOver(q)
  PROVE  \/ Foreign(U, s, r)
         \/ r.halt = "return" /\ NamesSomebody(r.out) /\ PlainKeys(r.out) /\ KeyFirst(s, r.out)
         \/ Waits(U, s, r) /\ r.halt = "no" /\ Apart(s, r) /\ r.active # {} /\ r.sync # {}
  <1> DEFINE V  == (q.voters \ {q.me}) \cup {q.leader}
             q2 == LeaderUpdate(q, q.quorum, V, q.me)
             t  == Transition("quorum", s.me, q.quorum, V)
             p  == [q EXCEPT !.leader = s.me, !.voters = V]
             new == [q EXCEPT !.leader = s.me, !.quorum = q.quorum, !.voters = V, !.out = q.out]
  <1>1. /\ q \in ResolverType(U, s.me) /\ q.out = <<>> /\ q.halt = "no" /\ q.me = s.me
        /\ q.leader = s.key.leader /\ q.voters = s.key.names /\ q.quorum = s.key.num
        /\ q.sync = s.list.names /\ q.numsync = s.list.num
    BY DEF IsInput, ResolverType
  <1>2. /\ q.sync = V /\ V # {} /\ V \in SUBSET (U \ {s.me}) /\ V \in SUBSET U
        /\ q.quorum \in Nat /\ q.numsync \in Nat /\ q.numsync >= 1 /\ q.numsync <= Cardinality(q.sync)
    <2>1. q.sync = V
      BY <1>1 DEF Served
    <2>2. q.sync \in SUBSET (U \ {s.me}) /\ q.quorum \in Nat /\ q.numsync \in Nat
      BY <1>1, WaitsFields
    <2>3. QED BY <1>1, <2>1, <2>2 DEF Served
  <1>3. /\ r = IF q2.halt = "no" /\ q2.sync \cap q2.active = {} THEN Halt(q2, "return") ELSE q2
        /\ q2 = LeaderUpdate(q, q.quorum, V, s.me)
    BY <1>1, <1>2 DEF TakeOver
  <1>4. CASE BadQuorum(q.quorum, V)
    <2>1. q2 = [q EXCEPT !.halt = "error"]
      BY <1>1, <1>3, <1>4 DEF LeaderUpdate, Halt
    <2>2. q2 \in ResolverType(U, s.me) /\ q2.halt = "error" /\ q2.leader = q.leader
      BY <1>1, <2>1 DEF ResolverType, Halts
    <2> HIDE DEF q2
    <2>3. QED BY <1>3, <2>2 DEF Foreign
  <1>5. CASE ~BadQuorum(q.quorum, V)
    <2>1. q2 = Yield(new, t)
      <3>1. q2 = StoreQuorum(q, s.me, q.quorum, V)
        BY <1>1, <1>3, <1>5 DEF LeaderUpdate
      <3>2. QED BY <3>1 DEF StoreQuorum
    <2>2. new = p
      BY <1>1 DEF ResolverType
    <2>3. /\ p \in ResolverType(U, s.me) /\ p.leader = s.me /\ p.voters = V /\ p.quorum = q.quorum
          /\ p.sync = V /\ p.numsync = q.numsync /\ p.halt = "no" /\ p.out = <<>> /\ p.me = s.me
          /\ p.active = q.active
      BY <1>1, <1>2 DEF ResolverType, IsStart
    <2>4. t \in TransitionType(U, s.me) /\ t.type = "quorum" /\ t.names = V
      BY <1>2 DEF Transition, TransitionType, IsStart
    <2> HIDE DEF p, t, q2, new
    <2>5. CheckInvariants(p)
      <3>1. (V \cup {s.me}) \cup (V \cup {s.me}) = V \cup {s.me}
        OBVIOUS
      <3>2. Cardinality(V \cup {s.me}) <= q.quorum + q.numsync + 1
        <4>1. CASE q.voters # {}
          <5>1. Cardinality((s.key.names \cup {s.key.leader}) \cup (s.list.names \cup {s.me}))
                  <= s.key.num + s.list.num + 1
            BY <1>1, <4>1 DEF Served, Overlaps
          <5>2. (s.key.names \cup {s.key.leader}) \cup (s.list.names \cup {s.me}) = V \cup {s.me}
            BY <1>1, <1>2
          <5>3. QED BY <1>1, <5>1, <5>2
        <4>2. CASE q.voters = {}
          <5>1. V \cup {s.me} = {q.leader, s.me} /\ q.quorum = 0
            BY <1>1, <4>2 DEF Served
          <5>2. Cardinality({q.leader, s.me}) = 2
            <6>1. IsFiniteSet({q.leader}) /\ Cardinality({q.leader}) = 1 /\ s.me \notin {q.leader}
              BY FS_Singleton
            <6>2. Cardinality({q.leader} \cup {s.me}) = 1 + 1
              BY <6>1, FS_AddElement
            <6>3. {q.leader} \cup {s.me} = {q.leader, s.me}
              OBVIOUS
            <6>4. QED BY <6>2, <6>3
          <5>3. QED BY <1>2, <5>1, <5>2
        <4>3. QED BY <4>1, <4>2
      <3>3. QED BY <2>3, <3>1, <3>2 DEF CheckInvariants
    <2>6. q2 = [p EXCEPT !.out = <<t>>]
      BY <2>1, <2>2, <2>3, <2>5 DEF Yield, Emit
    <2>7. /\ q2 \in ResolverType(U, s.me) /\ q2.leader = s.me /\ q2.voters = V /\ q2.quorum = q.quorum
          /\ q2.sync = V /\ q2.numsync = q.numsync /\ q2.halt = "no" /\ q2.out = <<t>>
          /\ q2.active = q.active
      <3>1. <<t>> \in Seq(TransitionType(U, s.me))
        BY <2>4
      <3>2. QED BY <2>3, <2>6, <3>1 DEF ResolverType
    <2>8. NamesSomebody(q2.out) /\ PlainKeys(q2.out) /\ KeyFirst(s, q2.out)
      <3>1. Len(<<t>>) = 1 /\ <<t>>[1] = t /\ <<t>> # <<>>
        OBVIOUS
      <3>2. QED BY <1>2, <2>4, <2>7, <3>1 DEF NamesSomebody, PlainKeys, KeyFirst
    <2>9. Waits(U, s, q2) /\ Apart(s, q2)
      BY <1>2, <2>7, <2>8 DEF Waits, Apart
    <2>10. CASE q2.sync \cap q2.active = {}
      <3>1. r = [q2 EXCEPT !.halt = "return"]
        BY <1>3, <2>7, <2>10 DEF Halt
      <3>2. r.halt = "return" /\ r.out = q2.out
        BY <2>7, <3>1 DEF ResolverType
      <3>3. QED BY <2>8, <3>2
    <2>11. CASE q2.sync \cap q2.active # {}
      <3>1. r = q2 /\ q2.active # {} /\ q2.sync # {}
        BY <1>3, <2>11
      <3>2. QED BY <2>7, <2>9, <3>1
    <2>12. QED BY <2>10, <2>11
  <1>6. QED BY <1>4, <1>5

(* In strict mode, whatever state of the key and the list the resolver      *)
(* starts from, it never asks for an empty list, stores no key without      *)
(* voters and with a quorum, and makes the key of another leader its own    *)
(* before anything else.                                                    *)
THEOREM ResolverKeepsWaiting ==
  ASSUME NEW U, NEW s, IsStart(U, s), NEW q, IsInput(U, s, q), Served(s, q),
         ~Raised(GenerateTransitions(q))
  PROVE  /\ NamesSomebody(Transitions(q)) /\ PlainKeys(Transitions(q))
         /\ KeyFirst(s, Transitions(q))
  <1> DEFINE q1 == IF q.me # q.leader THEN TakeOver(q)
                   ELSE IF CheckInvariants(q) THEN q ELSE Halt(q, "error")
             q2 == RecoverFromError(q1)
             mine == q2.leader = q2.me
             qa == Assert_(q2, mine)
             q3 == AssumeConfirmed(qa)
             r  == GenerateTransitions(q)
  <1>1. r = IF q3.halt # "no" THEN q3
            ELSE HandleReplicationFactorChange(AddNewNodes(RemoveGoneNodes(HandleNonSteadyCases(q3))))
    BY DEF GenerateTransitions
  <1>2. q.me = s.me
    BY DEF IsInput, ResolverType
  <1>3. Transitions(q) = r.out /\ ~Raised(r)
    BY DEF Transitions
  <1>4. /\ q2 = RecoverFromError(q1) /\ mine \in BOOLEAN /\ qa = Assert_(q2, mine)
        /\ q3 = AssumeConfirmed(qa)
    OBVIOUS
  <1>5. ASSUME Waits(U, s, r)
        PROVE  NamesSomebody(r.out) /\ PlainKeys(r.out) /\ KeyFirst(s, r.out)
    <2> HIDE DEF r
    <2>1. r.halt = "no"
      BY <1>3, <1>5 DEF Waits, ResolverType, Halts, Raised
    <2>2. QED BY <1>5, <2>1 DEF Waits
  <1>6. CASE q.leader = s.me
    <2>1. q1 = IF CheckInvariants(q) THEN q ELSE Halt(q, "error")
      BY <1>2, <1>6
    <2> HIDE DEF q1, q2, mine
    <2>2. /\ Waits(U, s, q2) /\ (q2.halt = "no" => Apart(s, q2)) /\ q2.active # {}
          /\ q2.sync = {} => q2.confirmed >= 0
      BY <1>4, <1>6, <2>1, OwnKeyWaits
    <2> HIDE DEF r, q3
    <2>3. Waits(U, s, r)
      BY <1>1, <1>4, <2>2, GeneratorWaits
    <2>4. QED BY <1>3, <1>5, <2>3
  <1>7. CASE q.leader # s.me
    <2>1. q1 = TakeOver(q)
      BY <1>2, <1>7
    <2> HIDE DEF q1
    <2>2. \/ Foreign(U, s, q1)
          \/ q1.halt = "return" /\ NamesSomebody(q1.out) /\ PlainKeys(q1.out) /\ KeyFirst(s, q1.out)
          \/ Waits(U, s, q1) /\ q1.halt = "no" /\ Apart(s, q1) /\ q1.active # {} /\ q1.sync # {}
      BY <1>7, <2>1, TakeOverWaits
    <2>3. CASE Foreign(U, s, q1)
      <3>1. q1.halt = "error" /\ q1.leader # s.me /\ q1.me = s.me /\ q1 \in ResolverType(U, s.me)
        BY <2>3 DEF Foreign, ResolverType
      <3> HIDE DEF q2
      <3>2. /\ q2.leader # q2.me /\ q2.halt \in {"no", "error"}
            /\ [q2 EXCEPT !.halt = "assert"].halt = "assert"
        BY <1>4, <3>1, RecoverKeepsLeader
      <3>3. qa.halt \in {"error", "assert"}
        <4>1. CASE q2.halt = "error"
          BY <4>1 DEF Assert_
        <4>2. CASE q2.halt = "no"
          <5>1. qa = [q2 EXCEPT !.halt = "assert"]
            BY <3>2, <4>2 DEF Assert_, Halt
          <5>2. QED BY <3>2, <5>1
        <4>3. QED BY <3>2, <4>1, <4>2
      <3> HIDE DEF qa
      <3>4. q3 = qa
        BY <3>3 DEF AssumeConfirmed
      <3> HIDE DEF q3, r
      <3>5. r = q3
        BY <1>1, <3>3, <3>4
      <3>6. QED BY <1>3, <3>3, <3>4, <3>5 DEF Raised
    <2>4. CASE q1.halt = "return" /\ NamesSomebody(q1.out) /\ PlainKeys(q1.out) /\ KeyFirst(s, q1.out)
      <3>1. q2 = q1
        BY <2>4 DEF RecoverFromError
      <3> HIDE DEF q2, mine
      <3>2. qa = q1
        BY <2>4, <3>1 DEF Assert_
      <3> HIDE DEF qa
      <3>3. q3 = q1
        BY <2>4, <3>2 DEF AssumeConfirmed
      <3> HIDE DEF q3, r
      <3>4. r = q1
        BY <1>1, <2>4, <3>3
      <3>5. QED BY <1>3, <2>4, <3>4
    <2>5. CASE Waits(U, s, q1) /\ q1.halt = "no" /\ Apart(s, q1) /\ q1.active # {} /\ q1.sync # {}
      <3>1. q2 = q1
        BY <2>5 DEF RecoverFromError
      <3> HIDE DEF q2, mine, r, q3
      <3>2. Waits(U, s, r)
        BY <1>1, <1>4, <2>5, <3>1, GeneratorWaits
      <3>3. QED BY <1>3, <1>5, <3>2
    <2>6. QED BY <2>2, <2>3, <2>4, <2>5
  <1>8. QED BY <1>6, <1>7
===============================================================================
