------------------------------- MODULE PubSub -------------------------------
(***************************************************************************)
(* internal/service/pubsub: topics, subscriptions and their queues, kept   *)
(* in memory.  Every handler holds backend.mu from its look at the topic or *)
(* the subscription to its end, so a request is one action.  Requests that  *)
(* fail validation change nothing and are left out, except for the bounds   *)
(* of pull.  A message is its id.                                           *)
(***************************************************************************)
EXTENDS Integers, Sequences, FiniteSets

CONSTANTS Topic, Sub,
          NoTopic,       \* "no such subscription"
          MaxMessages,   \* maxMessagesPerSubscription
          DefaultPull,   \* defaultPullMessages
          MaxPull,       \* maxPullMessages
          Batches,       \* numbers of messages in a publish request
          PullRequests,  \* values of maxMessages in a pull request
          AckRequests,   \* sets of ack ids <<message id, subscription>>
          MaxId          \* bound of the model: ids the sequence runs up to

ASSUME PubSubAssumption ==
  /\ NoTopic \notin Topic
  /\ MaxMessages \in Nat \ {0} /\ MaxId \in Nat
  /\ MaxPull \in Nat \ {0} /\ DefaultPull \in 1 .. MaxPull
  /\ Batches \subseteq Nat \ {0} /\ PullRequests \subseteq Int
  /\ AckRequests \subseteq SUBSET (Nat \X Sub)

VARIABLES topics,         \* topics that exist
          subscriptions,  \* subscription -> its topic
          messages,       \* subscription -> queue of message ids
          messageIDSeq,   \* last id given
          delivered,      \* what pull has answered, since the subscription exists
          acked,          \* what acknowledge has taken out of the queue
          owed            \* what was published to it while its queue had room

vars    == <<topics, subscriptions, messages, messageIDSeq, delivered, acked, owed>>
history == <<delivered, acked, owed>>

TypeOK == /\ topics \in SUBSET Topic
          /\ subscriptions \in [Sub -> Topic \cup {NoTopic}]
          /\ messages \in [Sub -> Seq(1 .. messageIDSeq)]
          /\ messageIDSeq \in Nat
          /\ delivered \in [Sub -> Seq(1 .. messageIDSeq)]
          /\ acked \in [Sub -> SUBSET (1 .. messageIDSeq)]
          /\ owed \in [Sub -> SUBSET (1 .. messageIDSeq)]

Init == /\ topics = {}
        /\ subscriptions = [s \in Sub |-> NoTopic]
        /\ messages = [s \in Sub |-> <<>>]
        /\ messageIDSeq = 0
        /\ delivered = [s \in Sub |-> <<>>]
        /\ acked = [s \in Sub |-> {}]
        /\ owed = [s \in Sub |-> {}]
-----------------------------------------------------------------------------
exists(s)      == subscriptions[s] # NoTopic
Subscribers(t) == {s \in Sub : subscriptions[s] = t}
Elements(q)    == {q[i] : i \in 1 .. Len(q)}
Smaller(m, n)  == IF m <= n THEN m ELSE n

createTopic(t) == /\ t \notin topics
                  /\ topics' = topics \cup {t}
                  /\ UNCHANGED <<subscriptions, messages, messageIDSeq, history>>

\* The subscriptions S are deleted, with what is in their queues.
Drop_KeepsMessages(S) ==
  /\ subscriptions' = [s \in Sub |-> IF s \in S THEN NoTopic ELSE subscriptions[s]]
  /\ delivered' = [s \in Sub |-> IF s \in S THEN <<>> ELSE delivered[s]]
  /\ acked' = [s \in Sub |-> IF s \in S THEN {} ELSE acked[s]]
  /\ owed' = [s \in Sub |-> IF s \in S THEN {} ELSE owed[s]]
  /\ UNCHANGED messages
Drop(S) ==
  /\ subscriptions' = [s \in Sub |-> IF s \in S THEN NoTopic ELSE subscriptions[s]]
  /\ messages' = [s \in Sub |-> IF s \in S THEN <<>> ELSE messages[s]]
  /\ delivered' = [s \in Sub |-> IF s \in S THEN <<>> ELSE delivered[s]]
  /\ acked' = [s \in Sub |-> IF s \in S THEN {} ELSE acked[s]]
  /\ owed' = [s \in Sub |-> IF s \in S THEN {} ELSE owed[s]]

deleteTopic_NoCascade(t) ==
  /\ t \in topics
  /\ topics' = topics \ {t}
  /\ UNCHANGED <<subscriptions, messages, messageIDSeq, history>>
deleteTopic(t) == /\ t \in topics
                  /\ topics' = topics \ {t}
                  /\ Drop(Subscribers(t))
                  /\ UNCHANGED messageIDSeq

createSubscription(s, t) ==
  /\ t \in topics
  /\ ~exists(s)
  /\ subscriptions' = [subscriptions EXCEPT ![s] = t]
  /\ messages' = [messages EXCEPT ![s] = <<>>]
  /\ UNCHANGED <<topics, messageIDSeq, history>>

deleteSubscription(s) == /\ exists(s)
                         /\ Drop({s})
                         /\ UNCHANGED <<topics, messageIDSeq>>

\* How many of n new messages the queue q takes: the others are dropped.
Room_OffByOne(q, n) == Smaller(n, MaxMessages + 1 - Len(q))
Room(q, n)          == Smaller(n, MaxMessages - Len(q))

\* One id per message.
nextMessageID_PerRequest(n) == messageIDSeq' = messageIDSeq + 1
nextMessageID(n)            == messageIDSeq' = messageIDSeq + n

\* The ids of a batch are consecutive.  They are given before the fan-out looks
\* at the queues, so a message that no queue takes uses one up.
publish(t, n) ==
  /\ t \in topics
  /\ messageIDSeq + n <= MaxId
  /\ nextMessageID(n)
  /\ messages' =
       [s \in Sub |-> IF s \in Subscribers(t)
                      THEN messages[s] \o [i \in 1 .. Room(messages[s], n) |-> messageIDSeq + i]
                      ELSE messages[s]]
  /\ owed' =
       [s \in Sub |-> IF s \in Subscribers(t)
                      THEN owed[s] \cup {messageIDSeq + i :
                                           i \in {j \in 1 .. n : Len(messages[s]) + j <= MaxMessages}}
                      ELSE owed[s]]
  /\ UNCHANGED <<topics, subscriptions, delivered, acked>>

\* maxMessages, when it is in order, and what pull answers at most.
Wanted(m) == IF m = 0 THEN DefaultPull ELSE m

pull_KeepsMessages(s, m) ==
  LET limit == Smaller(Wanted(m), Len(messages[s])) IN
  /\ exists(s)
  /\ Wanted(m) \in 1 .. MaxPull
  /\ delivered' = [delivered EXCEPT ![s] = @ \o SubSeq(messages[s], 1, limit)]
  /\ UNCHANGED <<topics, subscriptions, messages, messageIDSeq, acked, owed>>
\* The messages answered are taken off the queue: there is no redelivery.
pull(s, m) ==
  LET limit == Smaller(Wanted(m), Len(messages[s])) IN
  /\ exists(s)
  /\ Wanted(m) \in 1 .. MaxPull
  /\ delivered' = [delivered EXCEPT ![s] = @ \o SubSeq(messages[s], 1, limit)]
  /\ messages' = [messages EXCEPT ![s] = SubSeq(@, limit + 1, Len(@))]
  /\ UNCHANGED <<topics, subscriptions, messageIDSeq, acked, owed>>

\* What is left of q when the messages in gone are taken out: the others, in
\* the order they had.
Without(q, gone) ==
  LET kept   == {i \in 1 .. Len(q) : q[i] \notin gone}
      nth(n) == CHOOSE i \in kept : Cardinality({k \in kept : k <= i}) = n
  IN [n \in 1 .. Cardinality(kept) |-> q[nth(n)]]

\* Ack ids that name no message of the queue are ignored.
acknowledge(s, ackIDs) ==
  LET gone == {id \in Elements(messages[s]) : <<id, s>> \in ackIDs} IN
  /\ exists(s)
  /\ messages' = [messages EXCEPT ![s] = Without(@, gone)]
  /\ acked' = [acked EXCEPT ![s] = @ \cup gone]
  /\ UNCHANGED <<topics, subscriptions, messageIDSeq, delivered, owed>>

Next == \/ \E t \in Topic : \/ createTopic(t) \/ deleteTopic(t)
                            \/ \E n \in Batches : publish(t, n)
        \/ \E s \in Sub : \/ \E t \in Topic : createSubscription(s, t)
                          \/ deleteSubscription(s)
                          \/ \E m \in PullRequests : pull(s, m)
                          \/ \E A \in AckRequests : acknowledge(s, A)

Spec == Init /\ [][Next]_vars
-----------------------------------------------------------------------------
(* The cascade of deleteTopic: a subscription never outlives its topic, not
   even when a topic of the same name is created again.                     *)
SubscriptionsHaveTopics == \A s \in Sub : exists(s) => subscriptions[s] \in topics

(* A subscription receives each message at most once, in the order in which
   the messages were published, through any sequence of publish, pull and
   acknowledge.                                                             *)
DeliveredOnceInOrder ==
  \A s \in Sub : LET all == delivered[s] \o messages[s] IN
    \A i, j \in 1 .. Len(all) : i < j => all[i] < all[j]

(* Nothing is lost and nothing is made up: what was published to the topic of
   a subscription while there was room is delivered, queued or acknowledged,
   and nothing else is; a new subscription sees nothing of an old one that
   had its name.                                                            *)
NothingLost ==
  \A s \in Sub : owed[s] = Elements(delivered[s]) \cup Elements(messages[s]) \cup acked[s]

(* No queue grows beyond maxMessagesPerSubscription.                        *)
QueueBounded == \A s \in Sub : Len(messages[s]) <= MaxMessages
=============================================================================
