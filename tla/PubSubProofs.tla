---------------------------- MODULE PubSubProofs ----------------------------
(* The cascade of deleteTopic, and the queues: for any number of topics and
   subscriptions, queue limits, batches, pulls and sets of ack ids.         *)
EXTENDS PubSub, SequenceTheorems, FiniteSetTheorems, TLAPS

(* What the referential integrity of subscriptions rests on.                *)
CascadeInv == /\ topics \in SUBSET Topic
              /\ subscriptions \in [Sub -> Topic \cup {NoTopic}]
              /\ SubscriptionsHaveTopics

(* A subscription that exists belongs to a topic that exists, through any
   sequence of creations and deletions of both.                             *)
THEOREM CascadeCorrect == Spec => []SubscriptionsHaveTopics
<1>1. Init => CascadeInv
  BY DEF Init, CascadeInv, SubscriptionsHaveTopics, exists
<1>2. CascadeInv /\ [Next]_vars => CascadeInv'
  <2> SUFFICES ASSUME CascadeInv, [Next]_vars PROVE CascadeInv'
    OBVIOUS
  <2> USE PubSubAssumption DEF CascadeInv, SubscriptionsHaveTopics, exists
  <2>1. ASSUME NEW t \in Topic, createTopic(t) PROVE CascadeInv'
    BY <2>1 DEF createTopic
  <2>2. ASSUME NEW t \in Topic, deleteTopic(t) PROVE CascadeInv'
    <3>1. topics' = topics \ {t}
      BY <2>2 DEF deleteTopic
    <3>2. subscriptions' = [s \in Sub |-> IF subscriptions[s] = t THEN NoTopic
                                                                  ELSE subscriptions[s]]
      BY <2>2 DEF deleteTopic, Drop, Subscribers
    <3>3. QED BY <3>1, <3>2
  <2>3. ASSUME NEW t \in Topic, NEW n \in Batches, publish(t, n) PROVE CascadeInv'
    BY <2>3 DEF publish
  <2>4. ASSUME NEW s \in Sub, NEW t \in Topic, createSubscription(s, t) PROVE CascadeInv'
    BY <2>4 DEF createSubscription
  <2>5. ASSUME NEW s \in Sub, deleteSubscription(s) PROVE CascadeInv'
    BY <2>5 DEF deleteSubscription, Drop
  <2>6. ASSUME NEW s \in Sub, NEW m \in PullRequests, pull(s, m) PROVE CascadeInv'
    BY <2>6 DEF pull
  <2>7. ASSUME NEW s \in Sub, NEW A \in AckRequests, acknowledge(s, A) PROVE CascadeInv'
    BY <2>7 DEF acknowledge
  <2>8. CASE UNCHANGED vars
    BY <2>8 DEF vars
  <2>9. QED BY <2>1, <2>2, <2>3, <2>4, <2>5, <2>6, <2>7, <2>8 DEF Next
<1>3. CascadeInv => SubscriptionsHaveTopics
  BY DEF CascadeInv
<1>4. QED BY <1>1, <1>2, <1>3, PTL DEF Spec
-----------------------------------------------------------------------------
\* The library's fact on intervals, in the form used here.
LEMMA FirstNumbers ==
  ASSUME NEW n \in Nat
  PROVE  IsFiniteSet(1 .. n) /\ Cardinality(1 .. n) = n
<1>1. 1 \in Int /\ n \in Int /\ (1 > n => n = 0) /\ n - 1 + 1 = n
  OBVIOUS
<1>2. QED BY <1>1, FS_Interval

\* The rank of an element of a set K of positions is how many elements of K are
\* not above it: ranks run from 1 and grow with the position.
LEMMA RankStep ==
  ASSUME NEW n \in Nat, NEW K \in SUBSET (1 .. n)
  PROVE  /\ IsFiniteSet(K)
         /\ \A i \in K : Cardinality({k \in K : k <= i}) \in 1 .. Cardinality(K)
         /\ \A i, j \in K : i < j => Cardinality({k \in K : k <= i}) < Cardinality({k \in K : k <= j})
<1>1. IsFiniteSet(K) /\ Cardinality(K) \in Nat
  <2>1. IsFiniteSet(1 .. n)
    BY FS_Interval
  <2>2. QED BY <2>1, FS_Subset, FS_CardinalityType
<1>2. \A i \in K : /\ IsFiniteSet({k \in K : k <= i})
                   /\ Cardinality({k \in K : k <= i}) \in Nat
                   /\ Cardinality({k \in K : k <= i}) <= Cardinality(K)
                   /\ Cardinality({k \in K : k <= i}) # 0
  <2> SUFFICES ASSUME NEW i \in K
               PROVE  /\ IsFiniteSet({k \in K : k <= i})
                   /\ Cardinality({k \in K : k <= i}) \in Nat
                   /\ Cardinality({k \in K : k <= i}) <= Cardinality(K)
                   /\ Cardinality({k \in K : k <= i}) # 0
    OBVIOUS
  <2>1. {k \in K : k <= i} \in SUBSET K /\ i \in {k \in K : k <= i}
    OBVIOUS
  <2>2. IsFiniteSet({k \in K : k <= i}) /\ Cardinality({k \in K : k <= i}) <= Cardinality(K)
    BY <1>1, <2>1, FS_Subset
  <2>3. QED BY <2>1, <2>2, FS_CardinalityType, FS_EmptySet
<1>3. ASSUME NEW i \in K, NEW j \in K, i < j
      PROVE  Cardinality({k \in K : k <= i}) < Cardinality({k \in K : k <= j})
  <2> i \in Int /\ j \in Int /\ \A k \in K : k \in Int
    OBVIOUS
  <2>1. /\ {k \in K : k <= i} \in SUBSET {k \in K : k <= j}
        /\ j \in {k \in K : k <= j} /\ j \notin {k \in K : k <= i}
    <3>1. \A k \in K : k <= i => k <= j
      BY <1>3
    <3>2. j <= j /\ ~(j <= i)
      BY <1>3
    <3>3. QED BY <3>1, <3>2, Zenon
  <2>2. /\ Cardinality({k \in K : k <= i}) <= Cardinality({k \in K : k <= j})
        /\ Cardinality({k \in K : k <= i}) # Cardinality({k \in K : k <= j})
    BY <1>2, <2>1, FS_Subset
  <2>3. QED BY <1>2, <2>2
<1>4. QED BY <1>1, <1>2, <1>3

\* Every rank is taken: ranks are an injection of K into a set of its size.
LEMMA RankOnto ==
  ASSUME NEW n \in Nat, NEW K \in SUBSET (1 .. n), NEW r \in 1 .. Cardinality(K)
  PROVE  \E i \in K : Cardinality({k \in K : k <= i}) = r
<1> DEFINE f == [i \in K |-> Cardinality({k \in K : k <= i})]
           N == Cardinality(K)
<1>1. IsFiniteSet(K) /\ N \in Nat
  BY RankStep, FS_CardinalityType
<1>2. f \in [K -> 1 .. N]
  BY RankStep
<1>3. ASSUME NEW i \in K, NEW j \in K, f[i] = f[j] PROVE i = j
  <2>1. i \in Nat /\ j \in Nat
    OBVIOUS
  <2>2. f[i] \in Nat /\ f[j] \in Nat
    BY <1>1, <1>2
  <2>3. i < j => f[i] < f[j]
    BY RankStep
  <2>4. j < i => f[j] < f[i]
    BY RankStep
  <2> HIDE DEF f
  <2>5. QED BY <1>3, <2>1, <2>2, <2>3, <2>4
<1>4. f \in Injection(K, 1 .. N)
  <2> HIDE DEF f
  <2> QED BY <1>2, <1>3 DEF Injection, IsInjective
<1>5. IsFiniteSet(1 .. N) /\ Cardinality(1 .. N) = N
  BY <1>1, FS_Interval
<1>6. f \in Surjection(K, 1 .. N)
  <2> HIDE DEF f
  <2> QED BY <1>1, <1>4, <1>5, FS_Injection
<1>7. PICK i \in K : f[i] = r
  <2> HIDE DEF f
  <2> QED BY <1>6 DEF Surjection
<1>8. QED BY <1>7

\* f picks the n elements of q that are not in gone, in their order.
Picks(f, n, q, gone) ==
  /\ f \in [1 .. n -> 1 .. Len(q)]
  /\ \A i, j \in 1 .. n : i < j => f[i] < f[j]
  /\ \A i \in 1 .. Len(q) : q[i] \notin gone <=> \E j \in 1 .. n : f[j] = i

\* The ids of q grow strictly: no repetition, publication order.
Ascending(q) == \A i, j \in 1 .. Len(q) : i < j => q[i] < q[j]

\* Without is a selection: the CHOOSE in it always finds what it looks for.
LEMMA WithoutSelects ==
  ASSUME NEW q, Len(q) \in Nat, NEW gone
  PROVE  \E n \in 0 .. Len(q) : \E f :
           Picks(f, n, q, gone) /\ Without(q, gone) = [i \in 1 .. n |-> q[f[i]]]
<1> DEFINE K == {i \in 1 .. Len(q) : q[i] \notin gone}
           N == Cardinality(K)
           Rank(i) == Cardinality({k \in K : k <= i})
           f == [n \in 1 .. N |-> CHOOSE i \in K : Rank(i) = n]
<1>1. Len(q) \in Nat /\ K \in SUBSET (1 .. Len(q))
  OBVIOUS
<1>2. IsFiniteSet(K) /\ N \in Nat /\ N <= Len(q)
  <2>1. IsFiniteSet(1 .. Len(q)) /\ Cardinality(1 .. Len(q)) = Len(q)
    BY <1>1, FirstNumbers
  <2> HIDE DEF K
  <2>2. QED BY <1>1, <2>1, FS_Subset, FS_CardinalityType
<1>3. Without(q, gone) = [n \in 1 .. N |-> q[f[n]]]
  BY DEF Without
<1>4. \A n \in 1 .. N : f[n] \in K /\ Rank(f[n]) = n
  <2> HIDE DEF K
  <2> SUFFICES ASSUME NEW n \in 1 .. N PROVE f[n] \in K /\ Rank(f[n]) = n
    OBVIOUS
  <2>1. \E i \in K : Rank(i) = n
    BY <1>1, RankOnto
  <2> HIDE DEF Rank
  <2>2. QED BY <2>1
<1>5. \A i \in K : Rank(i) \in 1 .. N
  <2> HIDE DEF K
  <2> QED BY <1>1, RankStep
<1>6. \A i, j \in K : i < j => Rank(i) < Rank(j)
  <2> HIDE DEF K
  <2> QED BY <1>1, RankStep
<1>7. f \in [1 .. N -> 1 .. Len(q)]
  <2>1. \A n \in 1 .. N : f[n] \in 1 .. Len(q)
    BY <1>4
  <2> HIDE DEF K, N, Rank
  <2>2. QED BY <2>1
<1> HIDE DEF f, Rank
<1>8. ASSUME NEW i \in K, NEW j \in K, Rank(i) = Rank(j) PROVE i = j
  <2> HIDE DEF K, N
  <2>1. i \in Int /\ j \in Int /\ Rank(i) \in Int /\ Rank(j) \in Int
    BY <1>1, <1>5
  <2>2. QED BY <1>6, <1>8, <2>1
<1>9. ASSUME NEW m \in 1 .. N, NEW n \in 1 .. N, m < n PROVE f[m] < f[n]
  <2>1. f[m] \in K /\ f[n] \in K /\ Rank(f[m]) = m /\ Rank(f[n]) = n
    BY <1>4
  <2>2. f[m] \in Int /\ f[n] \in Int /\ m \in Int /\ n \in Int
    BY <2>1
  <2>3. ~(f[n] < f[m])
    BY <1>6, <1>9, <2>1, <2>2
  <2>4. f[m] # f[n]
    BY <1>9, <2>1, <2>2
  <2>5. QED BY <2>2, <2>3, <2>4
<1>10. ASSUME NEW i \in 1 .. Len(q) PROVE q[i] \notin gone <=> \E n \in 1 .. N : f[n] = i
  <2>1. ASSUME q[i] \notin gone PROVE \E n \in 1 .. N : f[n] = i
    <3>1. i \in K
      BY <2>1
    <3>2. Rank(i) \in 1 .. N /\ f[Rank(i)] \in K /\ Rank(f[Rank(i)]) = Rank(i)
      BY <1>4, <1>5, <3>1
    <3> HIDE DEF K, N
    <3>3. f[Rank(i)] = i
      BY <1>8, <3>1, <3>2
    <3>4. QED BY <3>2, <3>3
  <2>2. ASSUME NEW n \in 1 .. N, f[n] = i PROVE q[i] \notin gone
    BY <1>4, <2>2
  <2>3. QED BY <2>1, <2>2
<1> HIDE DEF K, N
<1>11. N \in 0 .. Len(q)
  BY <1>1, <1>2
<1>12. Picks(f, N, q, gone)
  BY <1>7, <1>9, <1>10 DEF Picks
<1>13. QED BY <1>3, <1>11, <1>12

\* The type, the length and the elements of what acknowledge leaves.
LEMMA WithoutProperties ==
  ASSUME NEW S, NEW q \in Seq(S), NEW gone
  PROVE  /\ Without(q, gone) \in Seq(S)
         /\ Len(Without(q, gone)) <= Len(q)
         /\ Elements(Without(q, gone)) = Elements(q) \ gone
<1>0. Len(q) \in Nat
  BY LenProperties
<1>1. PICK n \in 0 .. Len(q) : \E f : Picks(f, n, q, gone) /\ Without(q, gone) = [i \in 1 .. n |-> q[f[i]]]
  BY <1>0, WithoutSelects
<1>2. PICK f : Picks(f, n, q, gone) /\ Without(q, gone) = [i \in 1 .. n |-> q[f[i]]]
  BY <1>1
<1>3. Len(q) \in Nat /\ n \in Nat /\ n <= Len(q) /\ \A i \in 1 .. Len(q) : q[i] \in S
  BY LenProperties
<1>4. \A i \in 1 .. n : f[i] \in 1 .. Len(q) /\ q[f[i]] \in S
  BY <1>2, <1>3 DEF Picks
<1>5. Without(q, gone) \in Seq(S) /\ Len(Without(q, gone)) = n
  <2>1. Without(q, gone) \in [1 .. n -> S]
    BY <1>2, <1>4
  <2>2. QED BY <1>3, <2>1
<1>6. \A i \in 1 .. n : Without(q, gone)[i] = q[f[i]]
  BY <1>2
<1>7. ASSUME NEW x \in Elements(Without(q, gone)) PROVE x \in Elements(q) \ gone
  <2>1. PICK i \in 1 .. n : x = Without(q, gone)[i]
    BY <1>5, <1>7 DEF Elements
  <2>2. x = q[f[i]] /\ f[i] \in 1 .. Len(q)
    BY <1>4, <1>6, <2>1
  <2>3. q[f[i]] \notin gone
    BY <1>2, <2>2 DEF Picks
  <2>4. QED BY <2>2, <2>3 DEF Elements
<1>8. ASSUME NEW x \in Elements(q) \ gone PROVE x \in Elements(Without(q, gone))
  <2>1. PICK i \in 1 .. Len(q) : x = q[i]
    BY <1>8 DEF Elements
  <2>2. PICK j \in 1 .. n : f[j] = i
    BY <1>2, <1>8, <2>1 DEF Picks
  <2>3. QED BY <1>5, <1>6, <2>1, <2>2 DEF Elements
<1>9. QED BY <1>3, <1>5, <1>7, <1>8

\* What acknowledge leaves stays in order.
LEMMA WithoutAscending ==
  ASSUME NEW q \in Seq(Nat), NEW gone, Ascending(q)
  PROVE  Ascending(Without(q, gone))
<1>0. Len(q) \in Nat
  BY LenProperties
<1>1. PICK n \in 0 .. Len(q) : \E f : Picks(f, n, q, gone) /\ Without(q, gone) = [i \in 1 .. n |-> q[f[i]]]
  BY ONLY <1>0, WithoutSelects
<1>2. PICK f : Picks(f, n, q, gone) /\ Without(q, gone) = [i \in 1 .. n |-> q[f[i]]]
  BY <1>1
<1>3. n \in Nat
  BY LenProperties
<1>4. Len(Without(q, gone)) = n /\ \A i \in 1 .. n : Without(q, gone)[i] = q[f[i]]
  BY <1>2, <1>3
<1>5. QED BY <1>2, <1>4 DEF Ascending, Picks

\* The elements of a concatenation.
LEMMA ElementsConcat ==
  ASSUME NEW S, NEW p \in Seq(S), NEW q \in Seq(S)
  PROVE  Elements(p \o q) = Elements(p) \cup Elements(q)
<1>1. Len(p) \in Nat /\ Len(q) \in Nat
  BY LenProperties
<1>2. /\ Len(p \o q) = Len(p) + Len(q)
      /\ \A i \in 1 .. Len(p) + Len(q) : (p \o q)[i] = IF i <= Len(p) THEN p[i] ELSE q[i - Len(p)]
  BY ConcatProperties
<1>3. ASSUME NEW x \in Elements(p \o q) PROVE x \in Elements(p) \cup Elements(q)
  <2>1. PICK i \in 1 .. Len(p) + Len(q) : x = IF i <= Len(p) THEN p[i] ELSE q[i - Len(p)]
    BY <1>2, <1>3 DEF Elements
  <2>2. CASE i <= Len(p)
    BY <1>1, <2>1, <2>2 DEF Elements
  <2>3. CASE i > Len(p)
    <3>1. i - Len(p) \in 1 .. Len(q)
      BY <1>1, <2>3
    <3>2. x = q[i - Len(p)]
      BY <1>1, <2>1, <2>3
    <3>3. QED BY <3>1, <3>2 DEF Elements
  <2>4. QED BY <1>1, <2>2, <2>3
<1>4. ASSUME NEW i \in 1 .. Len(p) PROVE p[i] \in Elements(p \o q)
  <2>1. i \in 1 .. Len(p) + Len(q) /\ (p \o q)[i] = p[i]
    BY <1>1, <1>2
  <2>2. QED BY <1>2, <2>1 DEF Elements
<1>5. ASSUME NEW i \in 1 .. Len(q) PROVE q[i] \in Elements(p \o q)
  <2>1. Len(p) + i \in 1 .. Len(p) + Len(q) /\ ~(Len(p) + i <= Len(p)) /\ (Len(p) + i) - Len(p) = i
    BY <1>1
  <2>2. (p \o q)[Len(p) + i] = q[i]
    BY <1>2, <2>1
  <2>3. QED BY <1>2, <2>1, <2>2 DEF Elements
<1>6. QED BY <1>3, <1>4, <1>5 DEF Elements

\* A concatenation is ascending when its parts are and the first lies below the
\* second.
LEMMA AscendingConcat ==
  ASSUME NEW p \in Seq(Nat), NEW q \in Seq(Nat)
  PROVE  Ascending(p \o q) <=> /\ Ascending(p)
                               /\ Ascending(q)
                               /\ \A x \in Elements(p), y \in Elements(q) : x < y
<1>1. Len(p) \in Nat /\ Len(q) \in Nat
  BY LenProperties
<1>2. /\ Len(p \o q) = Len(p) + Len(q)
      /\ \A i \in 1 .. Len(p) + Len(q) : (p \o q)[i] = IF i <= Len(p) THEN p[i] ELSE q[i - Len(p)]
  BY ConcatProperties
<1>3. \A i \in 1 .. Len(p) : i \in 1 .. Len(p) + Len(q) /\ (p \o q)[i] = p[i]
  BY <1>1, <1>2
<1>4. \A i \in 1 .. Len(q) : Len(p) + i \in 1 .. Len(p) + Len(q) /\ (p \o q)[Len(p) + i] = q[i]
  <2> SUFFICES ASSUME NEW i \in 1 .. Len(q)
               PROVE  Len(p) + i \in 1 .. Len(p) + Len(q) /\ (p \o q)[Len(p) + i] = q[i]
    OBVIOUS
  <2>1. Len(p) + i \in 1 .. Len(p) + Len(q) /\ ~(Len(p) + i <= Len(p)) /\ (Len(p) + i) - Len(p) = i
    BY <1>1
  <2>2. QED BY <1>2, <2>1
<1>5. ASSUME Ascending(p \o q)
      PROVE  /\ Ascending(p)
             /\ Ascending(q)
             /\ \A x \in Elements(p), y \in Elements(q) : x < y
  <2>1. \A i, j \in 1 .. Len(p) + Len(q) : i < j => (p \o q)[i] < (p \o q)[j]
    BY <1>2, <1>5 DEF Ascending
  <2>2. Ascending(p)
    BY <1>3, <2>1 DEF Ascending
  <2>3. ASSUME NEW i \in 1 .. Len(q), NEW j \in 1 .. Len(q), i < j PROVE q[i] < q[j]
    <3>1. Len(p) + i < Len(p) + j
      BY <1>1, <2>3
    <3>2. QED BY <1>4, <2>1, <3>1
  <2>4. ASSUME NEW i \in 1 .. Len(p), NEW j \in 1 .. Len(q) PROVE p[i] < q[j]
    <3>1. i < Len(p) + j
      BY <1>1
    <3>2. QED BY <1>3, <1>4, <2>1, <3>1
  <2>5. QED BY <2>2, <2>3, <2>4 DEF Ascending, Elements
<1>6. ASSUME Ascending(p), Ascending(q), \A x \in Elements(p), y \in Elements(q) : x < y
      PROVE  Ascending(p \o q)
  <2>1. ASSUME NEW i \in 1 .. Len(p) + Len(q), NEW j \in 1 .. Len(p) + Len(q), i < j
        PROVE  (p \o q)[i] < (p \o q)[j]
    <3>1. CASE j <= Len(p)
      <4>1. i \in 1 .. Len(p) /\ j \in 1 .. Len(p)
        BY <1>1, <2>1, <3>1
      <4>2. QED BY <1>3, <1>6, <2>1, <4>1 DEF Ascending
    <3>2. CASE i <= Len(p) /\ j > Len(p)
      <4>1. i \in 1 .. Len(p) /\ j - Len(p) \in 1 .. Len(q) /\ Len(p) + (j - Len(p)) = j
        BY <1>1, <2>1, <3>2
      <4>2. (p \o q)[i] = p[i] /\ (p \o q)[j] = q[j - Len(p)]
        BY <1>3, <1>4, <4>1
      <4>3. p[i] \in Elements(p) /\ q[j - Len(p)] \in Elements(q)
        BY <4>1 DEF Elements
      <4>4. QED BY <1>6, <4>2, <4>3
    <3>3. CASE i > Len(p)
      <4>1. /\ i - Len(p) \in 1 .. Len(q) /\ Len(p) + (i - Len(p)) = i
            /\ j - Len(p) \in 1 .. Len(q) /\ Len(p) + (j - Len(p)) = j
            /\ i - Len(p) < j - Len(p)
        BY <1>1, <2>1, <3>3
      <4>2. (p \o q)[i] = q[i - Len(p)] /\ (p \o q)[j] = q[j - Len(p)]
        BY <1>4, <4>1
      <4>3. QED BY <1>6, <4>1, <4>2 DEF Ascending
    <3>4. QED BY <1>1, <2>1, <3>1, <3>2, <3>3
  <2>2. QED BY <1>2, <2>1 DEF Ascending
<1>7. QED BY <1>5, <1>6

\* What is said of one subscription: sub is its topic, m its queue, d what was
\* delivered, a what was acknowledged, o what was published to it.
Good(id, sub, m, d, a, o) ==
  /\ m \in Seq(1 .. id) /\ d \in Seq(1 .. id)
  /\ a \in SUBSET (1 .. id) /\ o \in SUBSET (1 .. id)
  /\ sub = NoTopic => m = <<>> /\ d = <<>> /\ a = {} /\ o = {}
  /\ Ascending(d \o m)
  /\ o = Elements(d) \cup Elements(m) \cup a
  /\ Len(m) <= MaxMessages

\* A name that was never used, or whose subscription was deleted.
LEMMA EmptyIsGood ==
  ASSUME NEW id \in Nat, NEW sub
  PROVE  Good(id, sub, <<>>, <<>>, {}, {})
<1>1. <<>> \in Seq(1 .. id) /\ Len(<<>>) = 0 /\ <<>> \o <<>> = <<>>
  BY EmptySeq, ConcatEmptySeq
<1>2. Elements(<<>>) = {}
  BY <1>1 DEF Elements
<1>3. Ascending(<<>>)
  BY <1>1 DEF Ascending
<1>4. QED BY PubSubAssumption, <1>1, <1>2, <1>3 DEF Good

\* Ids given for another topic change nothing for this subscription.
LEMMA GoodGrows ==
  ASSUME NEW id \in Nat, NEW n \in Nat, NEW sub, NEW m, NEW d, NEW a, NEW o, Good(id, sub, m, d, a, o)
  PROVE  Good(id + n, sub, m, d, a, o)
<1>1. 1 .. id \subseteq 1 .. id + n
  OBVIOUS
<1>2. m \in Seq(1 .. id + n) /\ d \in Seq(1 .. id + n)
  BY <1>1, SeqMonotonic DEF Good
<1>3. QED BY <1>1, <1>2 DEF Good

\* publish appends ids above all that were given, and no more than there is room
\* for; what it owes is exactly what it appends.
LEMMA PublishGood ==
  ASSUME NEW id \in Nat, NEW n \in Nat \ {0}, NEW sub, NEW m, NEW d, NEW a, NEW o,
         sub # NoTopic, Good(id, sub, m, d, a, o)
  PROVE  Good(id + n, sub, m \o [i \in 1 .. Room(m, n) |-> id + i], d, a,
              o \cup {id + i : i \in {j \in 1 .. n : Len(m) + j <= MaxMessages}})
<1> DEFINE new == [i \in 1 .. Room(m, n) |-> id + i]
           ids == {id + i : i \in {j \in 1 .. n : Len(m) + j <= MaxMessages}}
<1>1. m \in Seq(1 .. id) /\ d \in Seq(1 .. id) /\ Len(m) \in Nat /\ Len(m) <= MaxMessages /\ MaxMessages \in Nat
  BY PubSubAssumption, LenProperties DEF Good
<1>2. Room(m, n) \in Nat /\ \A i \in 1 .. n : i <= Room(m, n) <=> Len(m) + i <= MaxMessages
  BY <1>1 DEF Room, Smaller
<1>3. Room(m, n) <= n /\ Len(m) + Room(m, n) <= MaxMessages
  BY <1>1 DEF Room, Smaller
<1>4. new \in Seq(1 .. id + n) /\ Len(new) = Room(m, n) /\ \A i \in 1 .. Room(m, n) : new[i] = id + i
  <2>1. new \in [1 .. Room(m, n) -> 1 .. id + n]
    BY <1>2, <1>3
  <2>2. QED BY <1>2, <2>1
<1>5. Elements(new) = ids
  <2>1. Elements(new) = {id + i : i \in 1 .. Room(m, n)}
    BY <1>4 DEF Elements
  <2>2. 1 .. Room(m, n) = {j \in 1 .. n : Len(m) + j <= MaxMessages}
    BY <1>2, <1>3
  <2>3. QED BY <2>1, <2>2
<1>6. Ascending(new)
  BY <1>2, <1>4 DEF Ascending
<1>7. 1 .. id \subseteq 1 .. id + n /\ ids \subseteq 1 .. id + n /\ \A x \in ids : x > id
  <2>1. \A i \in 1 .. n : id + i \in 1 .. id + n /\ id + i > id
    OBVIOUS
  <2>2. QED BY <2>1
<1>8. m \in Seq(1 .. id + n) /\ d \in Seq(1 .. id + n)
  BY <1>1, <1>7, SeqMonotonic
<1> HIDE DEF new, ids
<1>9. /\ m \o new \in Seq(1 .. id + n)
      /\ Len(m \o new) = Len(m) + Len(new)
      /\ Elements(m \o new) = Elements(m) \cup ids
  BY <1>4, <1>5, <1>8, ConcatProperties, ElementsConcat
<1>10. Ascending(d \o (m \o new))
  <2>1. /\ m \in Seq(Nat) /\ d \in Seq(Nat) /\ new \in Seq(Nat) /\ d \o m \in Seq(Nat)
        /\ m \o new \in Seq(Nat)
    <3>1. 1 .. id + n \subseteq Nat
      OBVIOUS
    <3>2. m \in Seq(Nat) /\ d \in Seq(Nat) /\ new \in Seq(Nat)
      BY <1>4, <1>8, <3>1, SeqMonotonic
    <3>3. QED BY <3>2, ConcatProperties
  <2>2. Ascending(d) /\ Ascending(m) /\ \A x \in Elements(d), y \in Elements(m) : x < y
    BY <2>1, AscendingConcat DEF Good
  <2>3. Elements(d) \subseteq 1 .. id /\ Elements(m) \subseteq 1 .. id
    BY <1>1, ElementOfSeq DEF Elements
  <2>4. \A x \in 1 .. id, y \in ids : x < y
    BY <1>7
  <2>5. Ascending(m \o new)
    BY <1>5, <1>6, <2>1, <2>2, <2>3, <2>4, AscendingConcat
  <2>6. \A x \in Elements(d), y \in Elements(m \o new) : x < y
    BY <1>9, <2>2, <2>3, <2>4
  <2>7. QED BY <2>1, <2>2, <2>5, <2>6, AscendingConcat
<1>11. Good(id + n, sub, m \o new, d, a, o \cup ids)
  BY <1>1, <1>3, <1>4, <1>7, <1>8, <1>9, <1>10 DEF Good
<1>12. QED BY <1>11 DEF new, ids

\* pull moves a prefix of the queue to what was delivered.
LEMMA PullGood ==
  ASSUME NEW id \in Nat, NEW sub, NEW m, NEW d, NEW a, NEW o, sub # NoTopic,
         Good(id, sub, m, d, a, o), NEW k \in 0 .. Len(m)
  PROVE  Good(id, sub, SubSeq(m, k + 1, Len(m)), d \o SubSeq(m, 1, k), a, o)
<1> DEFINE head == SubSeq(m, 1, k)
           tail == SubSeq(m, k + 1, Len(m))
<1>1. m \in Seq(1 .. id) /\ d \in Seq(1 .. id) /\ Len(m) \in Nat /\ Len(m) <= MaxMessages /\ MaxMessages \in Nat
  BY PubSubAssumption, LenProperties DEF Good
<1>2. \A i \in 1 .. Len(m) : m[i] \in 1 .. id
  BY <1>1, ElementOfSeq
<1>3. head \in Seq(1 .. id) /\ Len(head) = k /\ \A i \in 1 .. k : head[i] = m[i]
  <2>1. 1 \in Int /\ k \in Int /\ \A i \in 1 .. k : m[i] \in 1 .. id
    BY <1>1, <1>2
  <2>2. /\ head \in Seq(1 .. id)
        /\ Len(head) = IF 1 <= k THEN k - 1 + 1 ELSE 0
        /\ \A i \in 1 .. k - 1 + 1 : head[i] = m[1 + i - 1]
    BY <2>1, SubSeqProperties
  <2> HIDE DEF head
  <2>3. QED BY <1>1, <2>1, <2>2
<1>4. tail \in Seq(1 .. id) /\ Len(tail) = Len(m) - k /\ \A i \in 1 .. Len(m) - k : tail[i] = m[k + i]
  <2>1. k + 1 \in Int /\ Len(m) \in Int /\ \A i \in k + 1 .. Len(m) : m[i] \in 1 .. id
    BY <1>1, <1>2
  <2>2. /\ tail \in Seq(1 .. id)
        /\ Len(tail) = IF k + 1 <= Len(m) THEN Len(m) - (k + 1) + 1 ELSE 0
        /\ \A i \in 1 .. Len(m) - (k + 1) + 1 : tail[i] = m[(k + 1) + i - 1]
    BY <2>1, SubSeqProperties
  <2> HIDE DEF tail
  <2>3. QED BY <1>1, <2>1, <2>2
<1> HIDE DEF head, tail
<1>5. m = head \o tail
  <2>1. /\ head \o tail \in Seq(1 .. id)
        /\ Len(head \o tail) = k + (Len(m) - k)
        /\ \A i \in 1 .. k + (Len(m) - k) : (head \o tail)[i] = IF i <= k THEN head[i] ELSE tail[i - k]
    BY <1>3, <1>4, ConcatProperties
  <2>2. Len(head \o tail) = Len(m)
    BY <1>1, <2>1
  <2>3. ASSUME NEW i \in 1 .. Len(m) PROVE m[i] = (head \o tail)[i]
    <3>1. CASE i <= k
      BY <1>1, <1>3, <2>1, <3>1
    <3>2. CASE i > k
      <4>1. i - k \in 1 .. Len(m) - k /\ k + (i - k) = i
        BY <1>1, <3>2
      <4>2. (head \o tail)[i] = tail[i - k]
        BY <1>1, <2>1, <3>2
      <4>3. QED BY <1>4, <4>1, <4>2
    <3>3. i <= k \/ i > k
      BY <1>1
    <3>4. QED BY <3>1, <3>2, <3>3, Zenon
  <2>4. QED BY <1>1, <2>1, <2>2, <2>3, SeqEqual
<1>6. Elements(m) = Elements(head) \cup Elements(tail)
  BY <1>3, <1>4, <1>5, ElementsConcat
<1>7. d \o head \in Seq(1 .. id) /\ Elements(d \o head) = Elements(d) \cup Elements(head)
  BY <1>1, <1>3, ConcatProperties, ElementsConcat
<1>8. (d \o head) \o tail = d \o m
  <2> DEFINE S == 1 .. id
  <2>1. d \in Seq(S) /\ head \in Seq(S) /\ tail \in Seq(S)
    BY <1>1, <1>3, <1>4
  <2> HIDE DEF S
  <2>2. (d \o head) \o tail = d \o (head \o tail)
    BY ONLY <2>1, ConcatAssociative
  <2>3. QED BY <1>5, <2>2, Zenon
<1>9. Good(id, sub, tail, d \o head, a, o)
  BY <1>1, <1>4, <1>6, <1>7, <1>8 DEF Good
<1>10. QED BY <1>9 DEF head, tail

\* acknowledge moves elements of the queue to what was acknowledged.
LEMMA AcknowledgeGood ==
  ASSUME NEW id \in Nat, NEW sub, NEW m, NEW d, NEW a, NEW o, sub # NoTopic,
         Good(id, sub, m, d, a, o), NEW gone, gone \subseteq Elements(m)
  PROVE  Good(id, sub, Without(m, gone), d, a \cup gone, o)
<1>1. m \in Seq(1 .. id) /\ d \in Seq(1 .. id) /\ Len(m) \in Nat /\ Len(m) <= MaxMessages /\ MaxMessages \in Nat
  BY PubSubAssumption, LenProperties DEF Good
<1>2. m \in Seq(Nat) /\ d \in Seq(Nat)
  <2>1. 1 .. id \subseteq Nat
    OBVIOUS
  <2>2. QED BY <1>1, <2>1, SeqMonotonic
<1>3. /\ Without(m, gone) \in Seq(1 .. id) /\ Without(m, gone) \in Seq(Nat)
      /\ Len(Without(m, gone)) <= Len(m)
      /\ Elements(Without(m, gone)) = Elements(m) \ gone
  BY <1>1, <1>2, WithoutProperties
<1>4. Elements(m) \subseteq 1 .. id
  BY <1>1, ElementOfSeq DEF Elements
<1>5. Ascending(d) /\ Ascending(m) /\ \A x \in Elements(d), y \in Elements(m) : x < y
  BY <1>2, AscendingConcat DEF Good
<1>6. Ascending(Without(m, gone))
  BY <1>2, <1>5, WithoutAscending
<1>7. Ascending(d \o Without(m, gone))
  BY <1>2, <1>3, <1>5, <1>6, AscendingConcat
<1>8. Len(Without(m, gone)) \in Nat
  BY <1>3, LenProperties
<1>9. o = Elements(d) \cup Elements(Without(m, gone)) \cup (a \cup gone)
  BY <1>3 DEF Good
<1>10. Len(Without(m, gone)) <= MaxMessages
  BY <1>1, <1>3, <1>8
<1>11. a \cup gone \in SUBSET (1 .. id)
  BY <1>4 DEF Good
<1>12. QED BY <1>1, <1>3, <1>7, <1>9, <1>10, <1>11 DEF Good


\* The inductive invariant: every subscription is Good, and the ids run on.
QueueInv == /\ topics \in SUBSET Topic
            /\ subscriptions \in [Sub -> Topic \cup {NoTopic}]
            /\ messageIDSeq \in Nat
            /\ messages \in [Sub -> Seq(Nat)] /\ delivered \in [Sub -> Seq(Nat)]
            /\ acked \in [Sub -> SUBSET Nat] /\ owed \in [Sub -> SUBSET Nat]
            /\ \A s \in Sub : Good(messageIDSeq, subscriptions[s], messages[s], delivered[s],
                                   acked[s], owed[s])

\* The types of the queues follow from what Good says of each of them.
LEMMA GoodTypes ==
  ASSUME NEW id \in Nat, NEW sub, NEW m, NEW d, NEW a, NEW o, Good(id, sub, m, d, a, o)
  PROVE  m \in Seq(Nat) /\ d \in Seq(Nat) /\ a \in SUBSET Nat /\ o \in SUBSET Nat
<1>1. 1 .. id \subseteq Nat
  OBVIOUS
<1>2. QED BY <1>1, SeqMonotonic DEF Good

\* No subscription exists at first.
LEMMA QueueInvInit == Init => QueueInv
<1> SUFFICES ASSUME Init PROVE QueueInv
  OBVIOUS
<1>1. <<>> \in Seq(Nat)
  BY EmptySeq
<1>2. Good(0, NoTopic, <<>>, <<>>, {}, {})
  BY EmptyIsGood
<1>3. QED BY <1>1, <1>2 DEF Init, QueueInv

\* Deleting subscriptions leaves them as if they had never been.
LEMMA DropKeeps ==
  ASSUME QueueInv, NEW S, Drop(S), UNCHANGED messageIDSeq, topics' \in SUBSET Topic
  PROVE  QueueInv'
<1>1. subscriptions' = [s \in Sub |-> IF s \in S THEN NoTopic ELSE subscriptions[s]]
  BY DEF Drop
<1>2. /\ messages' = [s \in Sub |-> IF s \in S THEN <<>> ELSE messages[s]]
      /\ delivered' = [s \in Sub |-> IF s \in S THEN <<>> ELSE delivered[s]]
      /\ acked' = [s \in Sub |-> IF s \in S THEN {} ELSE acked[s]]
      /\ owed' = [s \in Sub |-> IF s \in S THEN {} ELSE owed[s]]
  BY DEF Drop
<1>3. /\ subscriptions' \in [Sub -> Topic \cup {NoTopic}]
      /\ messages' \in [Sub -> Seq(Nat)] /\ delivered' \in [Sub -> Seq(Nat)]
      /\ acked' \in [Sub -> SUBSET Nat] /\ owed' \in [Sub -> SUBSET Nat]
  <2>1. <<>> \in Seq(Nat)
    BY EmptySeq
  <2>2. QED BY <1>1, <1>2, <2>1 DEF QueueInv
<1>4. ASSUME NEW s \in Sub
      PROVE  Good(messageIDSeq', subscriptions'[s], messages'[s], delivered'[s], acked'[s], owed'[s])
  <2>1. CASE s \in S
    <3>1. Good(messageIDSeq, NoTopic, <<>>, <<>>, {}, {})
      BY EmptyIsGood DEF QueueInv
    <3>2. QED BY <1>1, <1>2, <2>1, <3>1
  <2>2. CASE s \notin S
    <3>1. Good(messageIDSeq, subscriptions[s], messages[s], delivered[s], acked[s], owed[s])
      BY DEF QueueInv
    <3>2. QED BY <1>1, <1>2, <2>2, <3>1
  <2>3. QED BY <2>1, <2>2
<1>5. QED BY <1>3, <1>4 DEF QueueInv

\* A step that changes the queue of one subscription that exists.
LEMMA OneQueueKeeps ==
  ASSUME QueueInv, NEW s \in Sub, NEW m, NEW d, NEW a,
         Good(messageIDSeq, subscriptions[s], m, d, a, owed[s]),
         messages' = [messages EXCEPT ![s] = m],
         delivered' = [delivered EXCEPT ![s] = d],
         acked' = [acked EXCEPT ![s] = a],
         UNCHANGED <<topics, subscriptions, messageIDSeq, owed>>
  PROVE  QueueInv'
<1>1. m \in Seq(Nat) /\ d \in Seq(Nat) /\ a \in SUBSET Nat
  BY GoodTypes DEF QueueInv
<1>2. /\ messages' \in [Sub -> Seq(Nat)] /\ delivered' \in [Sub -> Seq(Nat)]
      /\ acked' \in [Sub -> SUBSET Nat] /\ owed' \in [Sub -> SUBSET Nat]
  BY <1>1 DEF QueueInv
<1>3. ASSUME NEW r \in Sub
      PROVE  Good(messageIDSeq', subscriptions'[r], messages'[r], delivered'[r], acked'[r], owed'[r])
  <2>1. CASE r = s
    <3>1. messages'[r] = m /\ delivered'[r] = d /\ acked'[r] = a
      BY <2>1 DEF QueueInv
    <3>2. QED BY <2>1, <3>1
  <2>2. CASE r # s
    <3>1. messages'[r] = messages[r] /\ delivered'[r] = delivered[r] /\ acked'[r] = acked[r]
      BY <2>2 DEF QueueInv
    <3>2. Good(messageIDSeq, subscriptions[r], messages[r], delivered[r], acked[r], owed[r])
      BY DEF QueueInv
    <3>3. QED BY <3>1, <3>2
  <2>3. QED BY <2>1, <2>2
<1>4. QED BY <1>2, <1>3 DEF QueueInv

\* The fan-out of publish, subscription by subscription.
LEMMA PublishKeeps ==
  ASSUME QueueInv, NEW t \in Topic, NEW n \in Batches, publish(t, n)
  PROVE  QueueInv'
<1> DEFINE new(s) == messages[s] \o [i \in 1 .. Room(messages[s], n) |-> messageIDSeq + i]
           ids(s) == owed[s] \cup {messageIDSeq + i : i \in {j \in 1 .. n : Len(messages[s]) + j <= MaxMessages}}
<1>1. n \in Nat \ {0} /\ messageIDSeq \in Nat /\ messageIDSeq' = messageIDSeq + n /\ messageIDSeq' \in Nat
  BY PubSubAssumption DEF publish, nextMessageID, QueueInv
<1>2. /\ messages' = [s \in Sub |-> IF subscriptions[s] = t THEN new(s) ELSE messages[s]]
      /\ owed' = [s \in Sub |-> IF subscriptions[s] = t THEN ids(s) ELSE owed[s]]
  BY DEF publish, Subscribers
<1>3. UNCHANGED <<topics, subscriptions, delivered, acked>>
  BY DEF publish
<1>4. ASSUME NEW s \in Sub
      PROVE  Good(messageIDSeq + n, subscriptions[s], messages'[s], delivered[s], acked[s], owed'[s])
  <2>1. Good(messageIDSeq, subscriptions[s], messages[s], delivered[s], acked[s], owed[s])
    BY DEF QueueInv
  <2>2. CASE subscriptions[s] = t
    <3>1. subscriptions[s] # NoTopic
      BY <2>2, PubSubAssumption
    <3>2. Good(messageIDSeq + n, subscriptions[s], new(s), delivered[s], acked[s], ids(s))
      BY <1>1, <2>1, <3>1, PublishGood
    <3> HIDE DEF new, ids
    <3>3. QED BY <1>2, <2>2, <3>2
  <2>3. CASE subscriptions[s] # t
    <3>1. Good(messageIDSeq + n, subscriptions[s], messages[s], delivered[s], acked[s], owed[s])
      BY <1>1, <2>1, GoodGrows
    <3> HIDE DEF new, ids
    <3>2. QED BY <1>2, <2>3, <3>1
  <2>4. QED BY <2>2, <2>3
<1>5. \A s \in Sub : messages'[s] \in Seq(Nat) /\ owed'[s] \in SUBSET Nat
  <2>1. messageIDSeq + n \in Nat
    BY <1>1
  <2>2. QED BY <1>4, <2>1, GoodTypes
<1> HIDE DEF new, ids
<1>6. messages' \in [Sub -> Seq(Nat)] /\ owed' \in [Sub -> SUBSET Nat]
  BY <1>2, <1>5
<1>7. QED BY <1>1, <1>3, <1>4, <1>6 DEF QueueInv

\* Every handler keeps the invariant.
LEMMA QueueInvStep == QueueInv /\ [Next]_vars => QueueInv'
<1> SUFFICES ASSUME QueueInv, [Next]_vars PROVE QueueInv'
  OBVIOUS
<1>1. ASSUME NEW t \in Topic, createTopic(t) PROVE QueueInv'
  BY <1>1 DEF createTopic, history, QueueInv
<1>2. ASSUME NEW t \in Topic, deleteTopic(t) PROVE QueueInv'
  <2>1. Drop(Subscribers(t)) /\ UNCHANGED messageIDSeq /\ topics' \in SUBSET Topic
    BY <1>2 DEF deleteTopic, QueueInv
  <2>2. QED BY <2>1, DropKeeps
<1>3. ASSUME NEW t \in Topic, NEW n \in Batches, publish(t, n) PROVE QueueInv'
  BY <1>3, PublishKeeps
<1>4. ASSUME NEW s \in Sub, NEW t \in Topic, createSubscription(s, t) PROVE QueueInv'
  <2>1. messages[s] = <<>> /\ delivered[s] = <<>> /\ acked[s] = {} /\ owed[s] = {}
    BY <1>4 DEF createSubscription, exists, QueueInv, Good
  <2>2. messages' = messages
    BY <1>4, <2>1 DEF createSubscription, QueueInv
  <2>3. subscriptions' = [subscriptions EXCEPT ![s] = t] /\ UNCHANGED <<topics, messageIDSeq, delivered, acked, owed>>
    BY <1>4 DEF createSubscription, history
  <2>4. ASSUME NEW r \in Sub
        PROVE  Good(messageIDSeq, subscriptions'[r], messages[r], delivered[r], acked[r], owed[r])
    <3>1. CASE r = s
      <4>1. Good(messageIDSeq, subscriptions'[r], <<>>, <<>>, {}, {})
        BY EmptyIsGood DEF QueueInv
      <4>2. QED BY <2>1, <3>1, <4>1
    <3>2. CASE r # s
      BY <2>3, <3>2 DEF QueueInv
    <3>3. QED BY <3>1, <3>2
  <2>5. subscriptions' \in [Sub -> Topic \cup {NoTopic}]
    BY <2>3 DEF QueueInv
  <2>6. QED BY <2>2, <2>3, <2>4, <2>5 DEF QueueInv
<1>5. ASSUME NEW s \in Sub, deleteSubscription(s) PROVE QueueInv'
  <2>1. Drop({s}) /\ UNCHANGED messageIDSeq /\ topics' \in SUBSET Topic
    BY <1>5 DEF deleteSubscription, QueueInv
  <2>2. QED BY <2>1, DropKeeps
<1>6. ASSUME NEW s \in Sub, NEW m \in PullRequests, pull(s, m) PROVE QueueInv'
  <2> DEFINE k == Smaller(Wanted(m), Len(messages[s]))
  <2>1. subscriptions[s] # NoTopic /\ Wanted(m) \in Nat
    BY <1>6, PubSubAssumption DEF pull, exists
  <2>2. messages[s] \in Seq(Nat) /\ Good(messageIDSeq, subscriptions[s], messages[s], delivered[s], acked[s], owed[s])
    BY DEF QueueInv
  <2>3. k \in 0 .. Len(messages[s])
    <3>1. Len(messages[s]) \in Nat
      BY <2>2, LenProperties
    <3>2. QED BY <2>1, <3>1 DEF Smaller
  <2>4. /\ messages' = [messages EXCEPT ![s] = SubSeq(messages[s], k + 1, Len(messages[s]))]
        /\ delivered' = [delivered EXCEPT ![s] = delivered[s] \o SubSeq(messages[s], 1, k)]
        /\ UNCHANGED <<topics, subscriptions, messageIDSeq, acked, owed>>
    BY <1>6 DEF pull
  <2> HIDE DEF k
  <2>5. Good(messageIDSeq, subscriptions[s], SubSeq(messages[s], k + 1, Len(messages[s])),
             delivered[s] \o SubSeq(messages[s], 1, k), acked[s], owed[s])
    BY <2>1, <2>2, <2>3, PullGood DEF QueueInv
  <2>6. acked' = [acked EXCEPT ![s] = acked[s]]
    BY <2>4 DEF QueueInv
  <2>7. QED BY <2>4, <2>5, <2>6, OneQueueKeeps
<1>7. ASSUME NEW s \in Sub, NEW A \in AckRequests, acknowledge(s, A) PROVE QueueInv'
  <2> DEFINE gone == {id \in Elements(messages[s]) : <<id, s>> \in A}
  <2>1. subscriptions[s] # NoTopic /\ gone \subseteq Elements(messages[s])
    BY <1>7 DEF acknowledge, exists
  <2>2. /\ messages' = [messages EXCEPT ![s] = Without(messages[s], gone)]
        /\ acked' = [acked EXCEPT ![s] = acked[s] \cup gone]
        /\ UNCHANGED <<topics, subscriptions, messageIDSeq, delivered, owed>>
    BY <1>7 DEF acknowledge
  <2> HIDE DEF gone
  <2>3. Good(messageIDSeq, subscriptions[s], Without(messages[s], gone), delivered[s], acked[s] \cup gone, owed[s])
    BY <2>1, AcknowledgeGood DEF QueueInv
  <2>4. delivered' = [delivered EXCEPT ![s] = delivered[s]]
    BY <2>2 DEF QueueInv
  <2>5. QED BY <2>2, <2>3, <2>4, OneQueueKeeps
<1>8. CASE UNCHANGED vars
  BY <1>8 DEF vars, QueueInv
<1>9. QED BY <1>1, <1>2, <1>3, <1>4, <1>5, <1>6, <1>7, <1>8 DEF Next

\* The invariant holds throughout.
LEMMA QueueInvHolds == Spec => []QueueInv
  BY QueueInvInit, QueueInvStep, PTL DEF Spec

(* The types of the queues and of their histories: in particular no queue and
   no answer holds an id that was not given yet.                            *)
THEOREM TypesCorrect == Spec => []TypeOK
<1>1. QueueInv => TypeOK
  BY DEF QueueInv, Good, TypeOK
<1>2. QED BY <1>1, QueueInvHolds, PTL

(* A subscription receives each message at most once and in the order of
   publication, for queues, batches, pulls and acknowledgements of any size. *)
THEOREM DeliveryCorrect == Spec => []DeliveredOnceInOrder
<1>1. QueueInv => DeliveredOnceInOrder
  BY DEF QueueInv, Good, Ascending, DeliveredOnceInOrder
<1>2. QED BY <1>1, QueueInvHolds, PTL

(* What was published while there was room is delivered, queued or
   acknowledged, and nothing else is.                                       *)
THEOREM NothingLostCorrect == Spec => []NothingLost
<1>1. QueueInv => NothingLost
  BY DEF QueueInv, Good, NothingLost
<1>2. QED BY <1>1, QueueInvHolds, PTL

(* No queue grows beyond maxMessagesPerSubscription, whatever the batches.   *)
THEOREM QueueBoundedCorrect == Spec => []QueueBounded
<1>1. QueueInv => QueueBounded
  BY DEF QueueInv, Good, QueueBounded
<1>2. QED BY <1>1, QueueInvHolds, PTL
=============================================================================
