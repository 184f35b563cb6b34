---------------------------- MODULE QueueProofs -----------------------------
(***************************************************************************)
(* What the past of a subscription decides: order and snapshots.           *)
(*                                                                         *)
(* Ordered delivery.  A new delivery points to only one predecessor, the   *)
(* most recent unexpired one of its topic, and the pull's query looks at   *)
(* that one alone; that everything before it is settled too needs an       *)
(* invariant, QueueInv: whatever was handed out or released left nothing   *)
(* outstanding before it, and what is published earlier expires earlier.   *)
(* QueueKept says what that takes: no seek, no subscription switched to    *)
(* ordered delivery or to a shorter message TTL while it has deliveries,   *)
(* and no dead letters into an ordered subscription, where several carry   *)
(* the same instant.                                                       *)
(*                                                                         *)
(* Snapshots.  CreateSnapshot reduces what a subscription looked like to   *)
(* an instant and a list of messages.  SnapInv says that a delivery falls  *)
(* under these exactly if it was acknowledged then, which needs that the   *)
(* subscription's deliveries come straight from publishes (KeptApart).     *)
(***************************************************************************)
EXTENDS DeliveryProofs

\* Nobody has to wait for e.
Settled(e) == ~Open(e) \/ Expired(e)

\* e comes before d in the queue of their subscription.
Earlier(e, d) ==
    /\ SubOf(e) = SubOf(d) /\ TopicOf(e) = TopicOf(d)
    /\ deliveries[e].publishedAt < deliveries[d].publishedAt

\* Everything before d is settled.
InFront(d) == \A e \in DOMAIN deliveries : Earlier(e, d) => Settled(e)

\* The predecessor of d is the last one before d that may be outstanding.
WaitsForLast(d) ==
    LET p == deliveries[d].notBefore IN
    /\ p # None => TopicOf(p) = TopicOf(d)
    /\ \A e \in DOMAIN deliveries : Earlier(e, d) =>
          \/ Settled(e)
          \/ p # None /\ deliveries[e].publishedAt <= deliveries[p].publishedAt

\* The deliveries of a subscription are published one after the other and
\* expire in that order.
ExpiresInOrder(d) ==
    /\ deliveries[d].publishedAt < now
    /\ deliveries[d].expiresAt <= After(subs[SubOf(d)].messageTTL)
    /\ \A e \in DeliveriesOf(SubOf(d)) :
          /\ deliveries[e].publishedAt = deliveries[d].publishedAt => e = d
          /\ deliveries[e].publishedAt <= deliveries[d].publishedAt =>
                deliveries[e].expiresAt <= deliveries[d].expiresAt

InOrderedSub(d) == LiveSub(SubOf(d)) /\ subs[SubOf(d)].ordered

\* The queue of every ordered subscription is worked off from the front.
Queued ==
    \A d \in DOMAIN deliveries : InOrderedSub(d) =>
       /\ WaitsForLast(d) /\ ExpiresInOrder(d)
       /\ Handed(d) => InFront(d)

\* Ids of messages are drawn in order.
MessagesFresh == \A m \in DOMAIN messages : m <= nextId

QueueInv == OrderInv /\ CompletedWasHanded /\ MessagesFresh /\ Queued

\* What nobody does: seek, switch a subscription with deliveries to ordered
\* delivery or to a shorter TTL, or dead-letter into an ordered subscription.
QueueKept ==
    /\ OrderKept
    /\ \A s \in SubIds : subs[s].st \in InTable =>
          subs'[s].messageTTL >= subs[s].messageTTL
    /\ \A d \in DOMAIN deliveries' \ DOMAIN deliveries :
          Publish \/ ~subs'[SubOf(d)].ordered

LEMMA RowTypes ==
    ASSUME TypeOK, NEW d \in DOMAIN deliveries
    PROVE  /\ deliveries[d].publishedAt \in Nat /\ deliveries[d].expiresAt \in Nat
           /\ deliveries[d].attempts \in Nat /\ now \in Nat
           /\ SubOf(d) \in SubIds /\ d \in DeliveryIds
           /\ deliveries[d].notBefore \in DeliveryIds \cup {None}
           /\ subs[SubOf(d)].messageTTL \in Nat
<1>1. deliveries[d] \in DeliveryRow /\ d \in DeliveryIds /\ SubOf(d) \in SubIds
  BY DEF TypeOK, DeliveryIds, SubOf
<1>2. subs[SubOf(d)] \in SubRow
  BY <1>1 DEF TypeOK
<1> QED BY <1>1, <1>2, ConstantsAssumption
        DEF TypeOK, DeliveryRow, SubRow, Time, Never

\* What is not blocked has nothing outstanding before it: if its predecessor
\* was completed it was handed out in its turn, and if it expired, everything
\* before it did.
LEMMA Released ==
    ASSUME QueueInv, NEW d \in DOMAIN deliveries, InOrderedSub(d),
           \/ deliveries[d].notBefore = None
           \/ Settled(deliveries[d].notBefore)
    PROVE  InFront(d)
<1> USE DEF QueueInv, OrderInv
<1> SUFFICES ASSUME NEW e \in DOMAIN deliveries, Earlier(e, d), ~Settled(e)
             PROVE  FALSE
  BY DEF InFront
<1> DEFINE p == deliveries[d].notBefore
<1>1. /\ p # None /\ deliveries[e].publishedAt <= deliveries[p].publishedAt
      /\ TopicOf(p) = TopicOf(d)
  BY DEF Queued, WaitsForLast
<1>2. p \in DOMAIN deliveries /\ SubOf(p) = SubOf(d)
  BY <1>1 DEF ReferencesResolve, ChainInv
<1>3. Settled(p)
  BY <1>1
<1> HIDE DEF p
<1>4. SubOf(e) = SubOf(p) /\ TopicOf(e) = TopicOf(p)
  BY <1>1, <1>2 DEF Earlier
<1>5. InOrderedSub(p) /\ e \in DeliveriesOf(SubOf(p))
  BY <1>2, <1>4 DEF InOrderedSub, DeliveriesOf
<1>6. /\ deliveries[e].publishedAt = deliveries[p].publishedAt => e = p
      /\ deliveries[e].expiresAt <= deliveries[p].expiresAt
  BY <1>1, <1>2, <1>5 DEF Queued, ExpiresInOrder
<1>7. CASE Expired(p)
  BY <1>2, <1>6, <1>7, RowTypes DEF Expired, Settled
<1>8. CASE ~Open(p)
  <2>1. InFront(p)
    BY <1>2, <1>5, <1>8 DEF Queued, CompletedWasHanded
  <2>2. Earlier(e, p)
    BY <1>1, <1>2, <1>3, <1>4, <1>6, RowTypes DEF Earlier
  <2> QED BY <2>1, <2>2 DEF InFront
<1> QED BY <1>3, <1>7, <1>8 DEF Settled

\* No transaction changes the message of a delivery.
LEMMA TopicsStay ==
    ASSUME OrderInv, MessagesFresh, Next, NEW m \in Nat, HasDeliveries(m)
    PROVE  messages'[m] = messages[m]
<1> USE DEF OrderInv
<1>1. m \in DOMAIN messages
  BY DEF HasDeliveries, ReferencesResolve
<1>2. ASSUME NEW t \in TopicIds, NEW k \in Keys, NEW a \in Attrs,
             PublishMessage(t, k, a)
      PROVE  messages'[m] = messages[m]
  <2>1. m # nextId + 1
    BY <1>1 DEF MessagesFresh, TypeOK
  <2> QED BY <1>1, <1>2, <2>1 DEF PublishMessage
<1>3. CASE PruneCompletedMessages
  BY <1>1, <1>3 DEF PruneCompletedMessages, PruneSets, MessagePrunable
<1>4. CASE ~Publish /\ ~PruneCompletedMessages
  <2>1. UNCHANGED messages
    BY <1>4, Zenon DEF Next, Tick, Receive, GetSubscriptionMessages, Respond,
       AckDeliveries, NackDeliveries, DelayDeliveries, DeadLetterDeliveries,
       Create, CreateTopic, CreateSubscription, Delete, DeleteTopic,
       DeleteSubscription, Expire, RefreshSubscription,
       DeleteExpiredSubscriptions, Reconfigure, UpdateSubscription,
       SetDeliveryDelay, Snapshots, CreateSnapshot, DeleteSnapshot, Seek,
       SeekSubscriptionToTime, SeekSubscriptionToSnapshot, Prune,
       PruneDeliveries, PruneCompletedDeliveries, PruneExpiredDeliveries,
       PruneDeletedSubscriptionDeliveries, PruneRows,
       PruneDeletedSubscriptions, PruneDeletedTopics
  <2> QED BY <2>1
<1> QED BY <1>2, <1>3, <1>4 DEF Publish

-----------------------------------------------------------------------------
LEMMA MessagesFreshStep ==
    ASSUME OrderInv, OrderInv', MessagesFresh, Next, nextId' >= nextId
    PROVE  MessagesFresh'
<1> USE DEF OrderInv
<1>1. \A m \in DOMAIN messages : m \in Nat /\ m <= nextId'
  BY DEF MessagesFresh, TypeOK
<1>2. ASSUME NEW t \in TopicIds, NEW k \in Keys, NEW a \in Attrs,
             PublishMessage(t, k, a)
      PROVE  MessagesFresh'
  <2>1. DOMAIN messages' = DOMAIN messages \cup {nextId + 1} /\ nextId' = nextId + 1
    BY <1>2 DEF PublishMessage
  <2>2. nextId + 1 <= nextId'
    BY <2>1 DEF TypeOK
  <2> QED BY <1>1, <2>1, <2>2 DEF MessagesFresh
<1>3. CASE ~Publish
  <2>1. DOMAIN messages' \subseteq DOMAIN messages
    <3>1. CASE PruneCompletedMessages
      BY <3>1 DEF PruneCompletedMessages
    <3>2. CASE ~PruneCompletedMessages
      BY <1>3, <3>2, Zenon DEF Next, Tick, Receive, GetSubscriptionMessages,
         Respond, AckDeliveries, NackDeliveries, DelayDeliveries,
         DeadLetterDeliveries, Create, CreateTopic, CreateSubscription, Delete,
         DeleteTopic, DeleteSubscription, Expire, RefreshSubscription,
         DeleteExpiredSubscriptions, Reconfigure, UpdateSubscription,
         SetDeliveryDelay, Snapshots, CreateSnapshot, DeleteSnapshot, Seek,
         SeekSubscriptionToTime, SeekSubscriptionToSnapshot, Prune,
         PruneDeliveries, PruneCompletedDeliveries, PruneExpiredDeliveries,
         PruneDeletedSubscriptionDeliveries, PruneRows,
         PruneDeletedSubscriptions, PruneDeletedTopics
    <3> QED BY <3>1, <3>2
  <2> QED BY <1>1, <2>1 DEF MessagesFresh
<1> QED BY <1>2, <1>3 DEF Publish

\* Waiting longer, from later on, ends later.
LEMMA SaturatedSum ==
    ASSUME NEW a \in Nat, NEW b \in Nat, NEW m \in Nat, NEW n \in Nat,
           NEW k \in Nat, a <= b, m <= n
    PROVE  (IF a + m < k THEN a + m ELSE k) <= (IF b + n < k THEN b + n ELSE k)
<1>1. a + m <= b + n
  OBVIOUS
<1>2. CASE b + n < k
  BY <1>1, <1>2
<1>3. CASE ~(b + n < k)
  BY <1>3
<1> QED BY <1>2, <1>3

LEMMA AfterGrows ==
    ASSUME TypeOK, TypeOK', now' >= now, NEW m \in Nat, NEW n \in Nat, m <= n
    PROVE  /\ After(m) \in Nat /\ After(n)' \in Nat
           /\ After(m) <= After(n)'
<1>1. now \in Nat /\ now' \in Nat /\ now <= now' /\ Never \in Nat
  BY ConstantsAssumption DEF TypeOK, Never
<1> DEFINE sum(x, y) == IF x + y < Never THEN x + y ELSE Never
<1>2. After(m) = sum(now, m)
  BY DEF After
<1>3. After(n)' = sum(now', n)
  BY DEF After, Never
<1>4. ASSUME NEW x \in Nat, NEW y \in Nat
      PROVE  sum(x, y) \in Nat
  BY <1>1
<1>5. ASSUME NEW a \in Nat, NEW b \in Nat, a <= b
      PROVE  sum(a, m) <= sum(b, n)
  BY <1>1, <1>5, SaturatedSum
<1> HIDE DEF sum
<1> QED BY <1>1, <1>2, <1>3, <1>4, <1>5

\* The rows that a step keeps or completes.
OldRow(d) == KeepsRow(d) \/ CompletesRow(d)

LEMMA OldRowFacts ==
    ASSUME NEW d, OldRow(d)
    PROVE  /\ d \in DOMAIN deliveries /\ d \in DOMAIN deliveries'
           /\ deliveries'[d].msg = deliveries[d].msg
           /\ deliveries'[d].publishedAt = deliveries[d].publishedAt
           /\ deliveries'[d].expiresAt = deliveries[d].expiresAt
           /\ deliveries'[d].notBefore = deliveries[d].notBefore
BY DEF OldRow, KeepsRow, CompletesRow, KeptAs, CompletedAs, SameOrigin

LEMMA EarlierStays ==
    ASSUME OrderInv, MessagesFresh, Next, NEW d, NEW e, OldRow(d), OldRow(e)
    PROVE  Earlier(e, d)' = Earlier(e, d) /\ TopicOf(d)' = TopicOf(d)
<1>1. ASSUME NEW c, OldRow(c)
      PROVE  TopicOf(c)' = TopicOf(c)
  <2>1. c \in DOMAIN deliveries /\ deliveries[c].msg \in Nat
    BY <1>1, OldRowFacts DEF OrderInv, TypeOK, DeliveryRow
  <2>2. messages'[deliveries[c].msg] = messages[deliveries[c].msg]
    BY <2>1, TopicsStay DEF HasDeliveries
  <2> QED BY <1>1, <2>2, OldRowFacts DEF TopicOf
<1> QED BY <1>1, OldRowFacts DEF Earlier, SubOf

LEMMA SettledStays ==
    ASSUME OrderInv, OrderInv', Onward, NEW e, OldRow(e), Settled(e)
    PROVE  Settled(e)'
<1> USE DEF OrderInv
<1>1. CASE ~Open(e)
  BY <1>1 DEF OldRow, KeepsRow, CompletesRow, KeptAs, CompletedAs, Open, Settled
<1>2. CASE Expired(e)
  <2>1. now \in Nat /\ now' \in Nat /\ deliveries[e].expiresAt \in Nat
    BY OldRowFacts, RowTypes DEF TypeOK
  <2> QED BY <1>2, <2>1, OldRowFacts DEF Expired, Onward, Settled
<1> QED BY <1>1, <1>2 DEF Settled

\* An old row stays in its place: what is new is published later, and it is
\* handed out only when it is not blocked.
LEMMA OldQueued ==
    ASSUME QueueInv, OrderInv', Next, Works, Onward, QueueKept,
           NEW d, OldRow(d), InOrderedSub(d)'
    PROVE  /\ WaitsForLast(d)' /\ ExpiresInOrder(d)'
           /\ Handed(d)' => InFront(d)'
<1> USE DEF QueueInv, OrderInv
<1>1. d \in DOMAIN deliveries /\ d \in DOMAIN deliveries'
  BY OldRowFacts
<1>2. SubOf(d) \in SubIds /\ subs[SubOf(d)].st \in InTable
  BY <1>1, RowTypes DEF ReferencesResolve
<1>3. InOrderedSub(d)
  BY <1>2 DEF InOrderedSub, LiveSub, Onward, QueueKept, OrderKept
<1>4. WaitsForLast(d) /\ ExpiresInOrder(d) /\ (Handed(d) => InFront(d))
  BY <1>1, <1>3 DEF Queued
<1>5. ASSUME NEW e \in DOMAIN deliveries', ~OldRow(e)
      PROVE  /\ deliveries'[e].publishedAt = now
             /\ ~Earlier(e, d)'
             /\ ~(deliveries'[e].publishedAt <= deliveries'[d].publishedAt)
  <2>1. e \in DeliveryIds
    BY DEF TypeOK
  <2>2. deliveries'[e].publishedAt = now
    BY <1>5, <2>1 DEF Works, OldRow, CreatesRow, NoRow
  <2>3. deliveries'[d].publishedAt < now /\ deliveries'[d].publishedAt \in Nat
    BY <1>1, <1>4, OldRowFacts, RowTypes DEF ExpiresInOrder
  <2>4. now \in Nat
    BY DEF TypeOK
  <2> QED BY <2>2, <2>3, <2>4 DEF Earlier
<1>6. WaitsForLast(d)'
  <2> SUFFICES ASSUME NEW p, p = deliveries[d].notBefore
               PROVE  WaitsForLast(d)'
    OBVIOUS
  <2>1. deliveries'[d].notBefore = p
    BY OldRowFacts
  <2>2. ASSUME p # None
        PROVE  /\ OldRow(p) /\ TopicOf(p)' = TopicOf(d)'
               /\ deliveries'[p].publishedAt = deliveries[p].publishedAt
    <3>1. p \in DOMAIN deliveries /\ p \in DeliveryIds /\ TopicOf(p) = TopicOf(d)
      BY <1>1, <1>4, <2>2 DEF ReferencesResolve, TypeOK, WaitsForLast
    <3>2. OldRow(p)
      BY <3>1 DEF Works, OldRow, CreatesRow, NoRow
    <3> QED BY <3>1, <3>2, EarlierStays, OldRowFacts
  <2>3. ASSUME NEW e \in DOMAIN deliveries', Earlier(e, d)'
        PROVE  \/ Settled(e)'
               \/ p # None /\ deliveries'[e].publishedAt <= deliveries'[p].publishedAt
    <3>1. OldRow(e)
      BY <1>5, <2>3
    <3>2. Earlier(e, d) /\ e \in DOMAIN deliveries
      BY <2>3, <3>1, EarlierStays, OldRowFacts
    <3>3. CASE Settled(e)
      BY <3>1, <3>3, SettledStays
    <3>4. CASE p # None /\ deliveries[e].publishedAt <= deliveries[p].publishedAt
      BY <2>2, <3>1, <3>4, OldRowFacts
    <3> QED BY <1>4, <3>2, <3>3, <3>4 DEF WaitsForLast
  <2> QED BY <2>1, <2>2, <2>3 DEF WaitsForLast
<1>7. ExpiresInOrder(d)'
  <2>1. /\ deliveries'[d].publishedAt < now'
        /\ deliveries'[d].expiresAt <= After(subs[SubOf(d)].messageTTL)'
    <3>1. /\ deliveries[d].publishedAt < now
          /\ deliveries[d].expiresAt <= After(subs[SubOf(d)].messageTTL)
      BY <1>4 DEF ExpiresInOrder
    <3>2. /\ subs[SubOf(d)].messageTTL \in Nat /\ subs'[SubOf(d)].messageTTL \in Nat
          /\ subs[SubOf(d)].messageTTL <= subs'[SubOf(d)].messageTTL
      <4>1. subs[SubOf(d)] \in SubRow /\ subs'[SubOf(d)] \in SubRow
        BY <1>2 DEF TypeOK
      <4>2. /\ subs[SubOf(d)].messageTTL \in Nat
            /\ subs'[SubOf(d)].messageTTL \in Nat
        BY <4>1 DEF SubRow
      <4> QED BY <1>2, <4>2 DEF QueueKept
    <3>3. now' >= now /\ now' \in Nat /\ now \in Nat
      BY DEF Onward, TypeOK
    <3> SUFFICES ASSUME NEW m \in Nat, NEW n \in Nat, m <= n,
                        m = subs[SubOf(d)].messageTTL,
                        n = subs'[SubOf(d)].messageTTL
                 PROVE  /\ deliveries'[d].publishedAt < now'
                        /\ deliveries'[d].expiresAt <= After(n)'
      BY <3>2 DEF After, SubOf
    <3>4. /\ After(m) \in Nat /\ After(n)' \in Nat /\ After(m) <= After(n)'
      BY <3>3, AfterGrows
    <3> QED BY <1>1, <3>1, <3>3, <3>4, OldRowFacts, RowTypes
  <2>2. ASSUME NEW e \in DeliveriesOf(SubOf(d))'
        PROVE  /\ deliveries'[e].publishedAt = deliveries'[d].publishedAt => e = d
               /\ deliveries'[e].publishedAt <= deliveries'[d].publishedAt =>
                     deliveries'[e].expiresAt <= deliveries'[d].expiresAt
    <3>1. e \in DOMAIN deliveries' /\ SubOf(e) = SubOf(d)
      BY DEF DeliveriesOf, SubOf
    <3>2. CASE ~OldRow(e)
      <4>1. deliveries'[e].publishedAt \in Nat /\ deliveries'[d].publishedAt \in Nat
        BY <1>1, <3>1 DEF TypeOK, DeliveryRow, Time, Never
      <4> QED BY <1>5, <3>1, <3>2, <4>1
    <3>3. CASE OldRow(e)
      BY <1>1, <1>4, <3>1, <3>3, OldRowFacts DEF ExpiresInOrder, DeliveriesOf
    <3> QED BY <3>2, <3>3
  <2> QED BY <2>1, <2>2 DEF ExpiresInOrder
<1>8. ASSUME Handed(d)'
      PROVE  InFront(d)'
  <2>1. InFront(d)
    <3>1. CASE Handed(d)
      BY <1>4, <3>1
    <3>2. CASE ~Handed(d)
      <4>1. deliveries'[d].attempts # deliveries[d].attempts
        BY <1>8, <3>2 DEF Handed
      <4>2. Deliverable(d)
        BY <4>1 DEF OldRow, KeepsRow, CompletesRow, KeptAs, CompletedAs
      <4>3. \/ deliveries[d].notBefore = None
            \/ Settled(deliveries[d].notBefore)
        BY <1>3, <4>2 DEF Deliverable, Blocked, InOrderedSub, Settled
      <4> QED BY <1>1, <1>3, <4>3, Released
    <3> QED BY <3>1, <3>2
  <2> SUFFICES ASSUME NEW e \in DOMAIN deliveries', Earlier(e, d)'
               PROVE  Settled(e)'
    BY DEF InFront
  <2>2. OldRow(e)
    BY <1>5
  <2>3. Earlier(e, d) /\ e \in DOMAIN deliveries
    BY <2>2, EarlierStays, OldRowFacts
  <2> QED BY <2>1, <2>2, <2>3, SettledStays DEF InFront
<1> QED BY <1>6, <1>7, <1>8

\* A publish creates one delivery per subscription, with the message's id.
LEMMA NewRow ==
    ASSUME QueueInv, OrderInv', NEW t \in TopicIds, NEW k \in Keys,
           NEW a \in Attrs, PublishMessage(t, k, a), NoKey \notin Keys,
           NEW d \in DOMAIN deliveries' \ DOMAIN deliveries
    PROVE  /\ d \in DeliveryIds /\ TopicOf(d)' = t
           /\ deliveries'[d].publishedAt = now /\ deliveries'[d].attempts = 0
           /\ deliveries'[d].expiresAt = After(subs[SubOf(d)].messageTTL)
           /\ \A e \in DOMAIN deliveries :
                 e \in DOMAIN deliveries' /\ deliveries'[e] = deliveries[e]
           /\ \A e \in DOMAIN deliveries' \ DOMAIN deliveries :
                 SubOf(e) = SubOf(d) => e = d
           /\ subs[SubOf(d)].ordered =>
                LET p == deliveries'[d].notBefore
                    open == {e \in DeliveriesOf(SubOf(d)) :
                               ~Expired(e) /\ TopicOf(e) = t}
                IN IF open = {} THEN p = None
                   ELSE p \in open /\ \A e \in open :
                           deliveries[e].publishedAt <= deliveries[p].publishedAt
<1> USE DEF QueueInv, OrderInv
<1> DEFINE id == nextId + 1
           m == [topic |-> t, key |-> k, attrs |-> a, publishedAt |-> now]
           src == [i \in {1} |-> id]
           to == [i \in {1} |-> Subscribers(t, m)]
<1>1. PICK nb \in NotBefores(messages', src, to) :
         deliveries' = [e \in DOMAIN deliveries \cup NewIds(to) |->
                          IF e \in NewIds(to)
                          THEN NewDelivery(src[e[1] - nextId], e[2], nb[e])
                          ELSE deliveries[e]]
  BY DEF PublishMessage, Fanout
<1>2. /\ messages'[id] = m /\ subs' = subs /\ now \in Nat /\ nextId \in Nat
      /\ \A i \in DOMAIN messages : i # id /\ messages'[i] = messages[i]
  <2>1. \A i \in DOMAIN messages : i \in Nat /\ i <= nextId
    BY DEF MessagesFresh, TypeOK
  <2>2. nextId \in Nat /\ now \in Nat
    BY DEF TypeOK
  <2>3. \A i \in DOMAIN messages : i # id
    BY <2>1, <2>2
  <2> QED BY <2>2, <2>3 DEF PublishMessage
<1>3. ASSUME NEW e \in NewIds(to)
      PROVE  /\ e[1] = id /\ e = <<id, e[2]>> /\ SubOf(e) = e[2]
             /\ src[e[1] - nextId] = id /\ e \notin DOMAIN deliveries
  <2>1. e[1] - nextId = 1 /\ e[1] \in Nat /\ e = <<e[1], e[2]>>
    BY NewIdsType DEF NewIds
  <2>2. e[1] = id
    BY <1>2, <2>1
  <2>3. ~(e[1] <= nextId)
    BY <1>2, <2>2
  <2> QED BY <2>1, <2>2, <2>3 DEF SubOf, ChainInv
<1>4. d \in NewIds(to)
  BY <1>1
<1> HIDE DEF id
<1>5. deliveries'[d] = NewDelivery(id, SubOf(d), nb[d])
  BY <1>1, <1>3, <1>4
<1>6. d \in DeliveryIds /\ TopicOf(d)' = t
  BY <1>2, <1>5 DEF TypeOK, TopicOf, NewDelivery
<1>7. \A e \in DOMAIN deliveries :
         e \in DOMAIN deliveries' /\ deliveries'[e] = deliveries[e]
  BY <1>1, <1>3
<1>8. \A e \in DOMAIN deliveries' \ DOMAIN deliveries :
         SubOf(e) = SubOf(d) => e = d
  BY <1>1, <1>3, <1>4
<1>9. ASSUME subs[SubOf(d)].ordered,
             NEW open, open = {e \in DeliveriesOf(SubOf(d)) :
                                 ~Expired(e) /\ TopicOf(e) = t}
      PROVE  IF open = {} THEN nb[d] = None
             ELSE nb[d] \in open /\ \A e \in open :
                     deliveries[e].publishedAt <= deliveries[nb[d]].publishedAt
  <2>1. Chained(d[2], messages'[src[d[1] - nextId]])
    BY <1>2, <1>3, <1>4, <1>9 DEF Chained
  <2>2. Preceding(messages', src, to, d) = open
    <3>1. \A e \in DeliveriesOf(SubOf(d)) :
             messages'[deliveries[e].msg].topic = TopicOf(e)
      BY <1>2 DEF ReferencesResolve, TopicOf, DeliveriesOf
    <3>2. messages'[src[d[1] - nextId]].topic = t
      BY <1>2, <1>3, <1>4
    <3>3. \A e \in NewIds(to) : ~(e[1] < d[1])
      BY <1>2, <1>3, <1>4 DEF id
    <3>4. SubOf(d) = d[2]
      BY <1>3, <1>4
    <3> HIDE DEF src, to
    <3> QED BY <1>9, <3>1, <3>2, <3>3, <3>4 DEF Preceding
  <2>3. CASE open = {}
    BY <1>4, <2>2, <2>3 DEF NotBefores
  <2>4. CASE open # {}
    <3>1. nb[d] \in MostRecent(open)
      BY <1>4, <2>1, <2>2, <2>4 DEF NotBefores
    <3> QED BY <1>9, <2>4, <3>1 DEF MostRecent, PublishedAt, DeliveriesOf
  <2> QED BY <2>3, <2>4
<1>10. deliveries'[d].notBefore = nb[d] /\ deliveries'[d].publishedAt = now
       /\ deliveries'[d].attempts = 0
       /\ deliveries'[d].expiresAt = After(subs[SubOf(d)].messageTTL)
  BY <1>5 DEF NewDelivery
<1> QED BY <1>6, <1>7, <1>8, <1>9, <1>10

\* A new delivery queues behind whatever is outstanding, and expires last.
LEMMA NewQueued ==
    ASSUME QueueInv, OrderInv', Next, NEW t \in TopicIds, NEW k \in Keys,
           NEW a \in Attrs, PublishMessage(t, k, a), NoKey \notin Keys,
           NEW d \in DOMAIN deliveries' \ DOMAIN deliveries, InOrderedSub(d)'
    PROVE  /\ WaitsForLast(d)' /\ ExpiresInOrder(d)'
           /\ Handed(d)' => InFront(d)'
<1> USE DEF QueueInv, OrderInv
<1>1. /\ subs' = subs /\ now' = now + 1 /\ now \in Nat
      /\ subs[SubOf(d)].ordered /\ LiveSub(SubOf(d))
  BY DEF PublishMessage, TypeOK, InOrderedSub, LiveSub
<1>2. /\ d \in DeliveryIds /\ TopicOf(d)' = t
      /\ deliveries'[d].publishedAt = now /\ deliveries'[d].attempts = 0
      /\ deliveries'[d].expiresAt = After(subs[SubOf(d)].messageTTL)
      /\ \A e \in DOMAIN deliveries :
            e \in DOMAIN deliveries' /\ deliveries'[e] = deliveries[e]
      /\ \A e \in DOMAIN deliveries' \ DOMAIN deliveries :
            SubOf(e) = SubOf(d) => e = d
  BY NewRow
<1>3. ASSUME NEW e \in DOMAIN deliveries
      PROVE  /\ TopicOf(e)' = TopicOf(e)
             /\ Settled(e) => Settled(e)'
             /\ deliveries'[e].publishedAt = deliveries[e].publishedAt
             /\ deliveries'[e].expiresAt = deliveries[e].expiresAt
  <2>1. messages'[deliveries[e].msg] = messages[deliveries[e].msg]
    BY TopicsStay DEF HasDeliveries, TypeOK, DeliveryRow
  <2>2. deliveries[e].expiresAt \in Nat
    BY RowTypes
  <2> QED BY <1>1, <1>2, <2>1, <2>2 DEF TopicOf, Settled, Open, Expired
<1>4. WaitsForLast(d)'
  <2> SUFFICES ASSUME NEW p, p = deliveries'[d].notBefore,
                      NEW open, open = {e \in DeliveriesOf(SubOf(d)) :
                                          ~Expired(e) /\ TopicOf(e) = t}
               PROVE  WaitsForLast(d)'
    OBVIOUS
  <2>1. IF open = {} THEN p = None
        ELSE p \in open /\ \A e \in open :
                deliveries[e].publishedAt <= deliveries[p].publishedAt
    BY <1>1, NewRow
  <2>2. p # None => TopicOf(p)' = TopicOf(d)' /\ p \in DOMAIN deliveries
    BY <1>2, <1>3, <2>1 DEF DeliveriesOf
  <2>3. ASSUME NEW e \in DOMAIN deliveries', Earlier(e, d)', ~Settled(e)'
        PROVE  /\ p # None
               /\ deliveries'[e].publishedAt <= deliveries'[p].publishedAt
    <3>1. e \in DOMAIN deliveries /\ SubOf(e) = SubOf(d) /\ TopicOf(e)' = t
      <4>1. deliveries'[e].publishedAt < now /\ SubOf(e) = SubOf(d)
        BY <1>2, <2>3 DEF Earlier, SubOf
      <4>2. e # d
        BY <1>1, <1>2, <4>1
      <4> QED BY <1>2, <2>3, <4>1, <4>2 DEF Earlier
    <3>2. e \in open
      BY <1>3, <2>3, <3>1 DEF DeliveriesOf, Settled
    <3>3. p \in open /\ deliveries[e].publishedAt <= deliveries[p].publishedAt
      BY <2>1, <3>2
    <3>4. p # None
      BY <3>3, RowTypes, NoneAssumption DEF DeliveriesOf, DeliveryIds
    <3> QED BY <1>3, <2>2, <3>1, <3>3, <3>4
  <2> QED BY <2>2, <2>3 DEF WaitsForLast
<1>5. ExpiresInOrder(d)'
  <2>1. subs[SubOf(d)].messageTTL \in Nat
    <3>1. subs[SubOf(d)] \in SubRow
      BY <1>2 DEF TypeOK, DeliveryIds, SubOf
    <3> QED BY <3>1 DEF SubRow
  <2>2. deliveries'[d].expiresAt <= After(subs[SubOf(d)].messageTTL)'
    <3> SUFFICES ASSUME NEW n \in Nat, n = subs[SubOf(d)].messageTTL
                 PROVE  After(n) <= After(n)'
      BY <1>1, <1>2, <2>1 DEF After, SubOf
    <3> QED BY <1>1, AfterGrows
  <2>3. ASSUME NEW e \in DeliveriesOf(SubOf(d))', e # d
        PROVE  /\ deliveries'[e].publishedAt # deliveries'[d].publishedAt
               /\ deliveries'[e].expiresAt <= deliveries'[d].expiresAt
    <3>1. e \in DOMAIN deliveries /\ SubOf(e) = SubOf(d)
      BY <1>2, <2>3 DEF DeliveriesOf, SubOf
    <3>2. InOrderedSub(e)
      BY <1>1, <3>1 DEF InOrderedSub
    <3>3. /\ deliveries[e].publishedAt < now
          /\ deliveries[e].expiresAt <= After(subs[SubOf(d)].messageTTL)
      BY <3>1, <3>2 DEF Queued, ExpiresInOrder
    <3> QED BY <1>1, <1>2, <1>3, <3>1, <3>3, RowTypes
  <2>4. /\ deliveries'[d].publishedAt < now'
        /\ deliveries'[d].expiresAt <= deliveries'[d].expiresAt
    <3>1. deliveries'[d].expiresAt \in Nat
      BY DEF TypeOK, DeliveryRow, Time, Never
    <3> QED BY <1>1, <1>2, <3>1
  <2> QED BY <2>2, <2>3, <2>4 DEF ExpiresInOrder
<1> QED BY <1>2, <1>4, <1>5 DEF Handed

\* A prune run drops no delivery of a live subscription that is outstanding,
\* so clearing the references to what it dropped releases nothing too early.
LEMMA PruneQueued ==
    ASSUME QueueInv, OrderInv', PruneDeliveries,
           NEW d \in DOMAIN deliveries', InOrderedSub(d)'
    PROVE  /\ WaitsForLast(d)' /\ ExpiresInOrder(d)'
           /\ Handed(d)' => InFront(d)'
<1> USE DEF QueueInv, OrderInv
<1>1. UNCHANGED <<now, subs, messages>>
  BY PruneDrops
<1>2. PICK S : /\ \A e \in S : Droppable(e)
               /\ DOMAIN deliveries' = DOMAIN deliveries \ S
               /\ \A e \in DOMAIN deliveries' : deliveries'[e] =
                    [deliveries[e] EXCEPT !.notBefore =
                       IF @ \in S THEN None ELSE @]
  BY PruneDrops
<1>3. ASSUME NEW e \in DOMAIN deliveries'
      PROVE  /\ e \in DOMAIN deliveries
             /\ deliveries'[e].msg = deliveries[e].msg
             /\ deliveries'[e].publishedAt = deliveries[e].publishedAt
             /\ deliveries'[e].expiresAt = deliveries[e].expiresAt
             /\ deliveries'[e].completedAt = deliveries[e].completedAt
             /\ deliveries'[e].attempts = deliveries[e].attempts
             /\ deliveries'[e].notBefore =
                  IF deliveries[e].notBefore \in S THEN None
                  ELSE deliveries[e].notBefore
  BY <1>2 DEF TypeOK, DeliveryRow
<1>4. d \in DOMAIN deliveries /\ InOrderedSub(d)
  BY <1>1, <1>3 DEF InOrderedSub, LiveSub
<1>5. WaitsForLast(d) /\ ExpiresInOrder(d) /\ (Handed(d) => InFront(d))
  BY <1>4 DEF Queued
<1>6. ASSUME NEW e \in DOMAIN deliveries'
      PROVE  /\ Settled(e)' = Settled(e) /\ TopicOf(e)' = TopicOf(e)
             /\ Earlier(e, d)' = Earlier(e, d)
  BY <1>1, <1>3 DEF Settled, Open, Expired, TopicOf, Earlier, SubOf
<1>7. WaitsForLast(d)'
  <2> SUFFICES ASSUME NEW p, p = deliveries[d].notBefore
               PROVE  WaitsForLast(d)'
    OBVIOUS
  <2>1. CASE p \in S
    <3>1. p \in DOMAIN deliveries /\ SubOf(p) = SubOf(d)
      BY <1>2, <1>4, <2>1, RowTypes, NoneAssumption
         DEF Droppable, ReferencesResolve, ChainInv, DeliveryIds
    <3>2. Settled(p)
      <4>1. deliveries[p].expiresAt \in Nat /\ now \in Nat
        BY <3>1, RowTypes
      <4> QED BY <1>2, <1>4, <2>1, <3>1, <4>1
              DEF Droppable, PastExpiry, Settled, Expired, InOrderedSub
    <3>3. InFront(d)
      BY <1>4, <3>2, Released
    <3> QED BY <1>3, <1>6, <2>1, <3>3 DEF WaitsForLast, InFront
  <2>2. CASE p \notin S
    <3>1. deliveries'[d].notBefore = p
      BY <1>3, <2>2
    <3>2. p # None => p \in DOMAIN deliveries'
      BY <1>2, <1>4, <2>2 DEF ReferencesResolve
    <3> QED BY <1>3, <1>5, <1>6, <3>1, <3>2 DEF WaitsForLast
  <2> QED BY <2>1, <2>2
<1>8. ExpiresInOrder(d)'
  BY <1>1, <1>3, <1>5 DEF ExpiresInOrder, DeliveriesOf, After, SubOf
<1> QED BY <1>3, <1>5, <1>6, <1>7, <1>8 DEF Handed, InFront

-----------------------------------------------------------------------------
\* Every step but the pruning of deliveries keeps the queues.
LEMMA WorkQueued ==
    ASSUME NoKey \notin Keys, QueueInv, OrderInv', Next, ~PruneDeliveries,
           QueueKept
    PROVE  Queued'
<1> SUFFICES ASSUME NEW d \in DOMAIN deliveries', InOrderedSub(d)'
             PROVE  /\ WaitsForLast(d)' /\ ExpiresInOrder(d)'
                    /\ Handed(d)' => InFront(d)'
  BY DEF Queued
<1>1. Works /\ Onward
  BY NextWorks DEF QueueInv, OrderInv, QueueKept, OrderKept
<1>2. CASE OldRow(d)
  BY <1>1, <1>2, OldQueued
<1>3. CASE ~OldRow(d)
  <2>1. d \in DOMAIN deliveries' \ DOMAIN deliveries /\ SubOf(d) \in SubIds
    <3>1. d \in DeliveryIds /\ SubOf(d) \in SubIds
      BY DEF OrderInv, TypeOK, DeliveryIds, SubOf
    <3> QED BY <1>1, <1>3, <3>1 DEF Works, OldRow, CreatesRow, NoRow
  <2>2. CASE Publish
    BY <2>1, <2>2, NewQueued DEF Publish
  <2>3. CASE ~Publish
    <3>1. subs'[SubOf(d)].ordered
      BY DEF InOrderedSub, SubOf
    <3> QED BY <2>1, <2>3, <3>1 DEF QueueKept
  <2> QED BY <2>2, <2>3
<1> QED BY <1>2, <1>3

LEMMA QueueStep ==
    ASSUME NoKey \notin Keys, QueueInv, [Next]_vars, [QueueKept]_vars
    PROVE  QueueInv'
<1>1. OrderInv /\ OrderInv'
  BY OrderInvStep DEF QueueInv
<1>2. CASE UNCHANGED vars
  <2>1. UNCHANGED <<now, subs, messages, deliveries, nextId>>
    BY <1>2 DEF vars
  <2>2. MessagesFresh' /\ CompletedWasHanded'
    BY <2>1 DEF QueueInv, MessagesFresh, CompletedWasHanded, Open, Handed
  <2>3. Queued'
    BY <2>1 DEF QueueInv, Queued, InOrderedSub, LiveSub, WaitsForLast,
       ExpiresInOrder, InFront, Earlier, Settled, Handed, Open, Expired,
       TopicOf, SubOf, DeliveriesOf, After
  <2> QED BY <1>1, <2>2, <2>3 DEF QueueInv
<1>3. CASE Next /\ QueueKept
  <2>1. ~Seek
    BY <1>3 DEF QueueKept, OrderKept
  <2>2. CompletedWasHanded'
    BY <1>1, <1>3, <2>1, CompletedStep DEF QueueInv
  <2>3. CASE PruneDeliveries
    <3>1. UNCHANGED nextId
      BY <1>1, <2>3, PruneDrops DEF OrderInv
    <3>2. nextId' >= nextId
      BY <1>1, <3>1 DEF OrderInv, TypeOK
    <3>3. MessagesFresh'
      BY <1>1, <1>3, <3>2, MessagesFreshStep DEF QueueInv
    <3>4. Queued'
      BY <1>1, <2>3, PruneQueued DEF Queued
    <3> QED BY <1>1, <2>2, <3>3, <3>4 DEF QueueInv
  <2>4. CASE ~PruneDeliveries
    <3>1. Onward
      BY <1>1, <1>3, <2>1, <2>4, NextWorks DEF OrderInv
    <3>2. MessagesFresh'
      BY <1>1, <1>3, <3>1, MessagesFreshStep DEF QueueInv, Onward
    <3>3. Queued'
      BY <1>1, <1>3, <2>4, WorkQueued
    <3> QED BY <1>1, <2>2, <3>2, <3>3 DEF QueueInv
  <2> QED BY <2>3, <2>4
<1> QED BY <1>2, <1>3

\* Only a pull hands out, and what it hands out is not blocked.
LEMMA HandedInFront ==
    ASSUME QueueInv, QueueInv', Next, QueueKept, NEW d \in DOMAIN deliveries,
           HandedNow(d), subs[SubOf(d)].ordered
    PROVE  InOrder(d)
<1> USE DEF QueueInv, OrderInv
<1>1. deliveries[d].attempts \in Nat /\ d \in DeliveryIds
  BY RowTypes
<1>2. deliveries'[d].attempts # deliveries[d].attempts
  BY <1>1 DEF HandedNow
<1>3. ~PruneDeliveries
  <2> SUFFICES ASSUME PruneDeliveries PROVE FALSE
    OBVIOUS
  <2>1. PICK S : \A e \in DOMAIN deliveries' : deliveries'[e] =
                   [deliveries[e] EXCEPT !.notBefore =
                      IF @ \in S THEN None ELSE @]
    BY PruneDrops
  <2> QED BY <1>2, <2>1 DEF HandedNow, TypeOK, DeliveryRow
<1>4. Works
  BY <1>3, NextWorks DEF QueueKept, OrderKept
<1>5. Deliverable(d) /\ LiveSub(SubOf(d))
  BY <1>1, <1>2, <1>4 DEF Works, KeepsRow, KeptAs, CompletesRow, CompletedAs,
     CreatesRow, NoRow
<1>6. InFront(d)
  BY <1>5, Released DEF InOrderedSub, Deliverable, Blocked, Settled
<1> QED BY <1>6 DEF InFront, InOrder, Earlier, Settled, DeliveriesOf

\* Ordered delivery: a delivery of an ordered subscription is handed out only
\* when every earlier one of its topic is completed or expired, although each
\* points to one predecessor only and prune services cut these references.
\* It takes that every message has an ordering key (a keyless one overtakes
\* the queue and releases what is behind it) and what QueueKept says.
THEOREM OrderRespectedAlways ==
    ASSUME NoKey \notin Keys
    PROVE  Spec /\ [][QueueKept]_vars => OrderRespected
<1>1. Init => QueueInv
  BY InitOrderInv DEF Init, QueueInv, CompletedWasHanded, MessagesFresh, Queued
<1>2. QueueInv /\ [Next]_vars /\ [QueueKept]_vars => QueueInv'
  BY QueueStep
<1>3. QueueInv /\ QueueInv' /\ [Next]_vars /\ [QueueKept]_vars =>
         [\A d \in DOMAIN deliveries :
             HandedNow(d) /\ subs[SubOf(d)].ordered /\ KeyOf(d) # NoKey
                => InOrder(d)]_vars
  BY HandedInFront
<1> QED BY <1>1, <1>2, <1>3, PTL DEF Spec, OrderRespected

-----------------------------------------------------------------------------
(* Snapshots *)

\* No update changes the topic of a subscription.
LEMMA TopicFixed ==
    ASSUME TypeOK, Next, NEW s \in SubIds, subs[s].st \in InTable, LiveSub(s)'
    PROVE  subs'[s].topic = subs[s].topic
<1>0. subs[s] \in SubRow /\ subs \in [SubIds -> SubRow]
  BY DEF TypeOK
<1>1. CASE Receive \/ Expire
  <2>1. CASE \E o \in SubIds : RefreshExpiry(o)
    BY <2>1, RefreshExpiryType
  <2>2. CASE DeleteExpiredSubscriptions
    BY <1>0, <2>2 DEF DeleteExpiredSubscriptions, MarkDeleted, SubRow
  <2> QED BY <1>1, <2>1, <2>2
          DEF Receive, GetSubscriptionMessages, Expire, RefreshSubscription
<1>2. ASSUME NEW o \in SubIds, CreateSubscription(o)
      PROVE  subs'[s] = subs[s]
  BY <1>0, <1>2 DEF CreateSubscription, InTable
<1>3. ASSUME NEW o \in SubIds, NEW r, NEW paths, UpdateSubscription(o, r, paths)
      PROVE  subs'[s].topic = subs[s].topic
  <2>1. PICK dlt : subs' = [subs EXCEPT ![o] = Updated(subs[o], r, paths, dlt)]
    BY <1>3 DEF UpdateSubscription
  <2>2. Updated(subs[s], r, paths, dlt).topic = subs[s].topic
    BY <1>0 DEF Updated, SubRow
  <2> QED BY <1>0, <2>1, <2>2
<1>4. ASSUME NEW o \in SubIds, NEW n, SetDeliveryDelay(o, n)
      PROVE  subs'[s].topic = subs[s].topic
  BY <1>0, <1>4 DEF SetDeliveryDelay, SubRow
<1>5. ASSUME NEW o \in SubIds, DeleteSubscription(o)
      PROVE  subs'[s].topic = subs[s].topic
  BY <1>0, <1>5 DEF DeleteSubscription, MarkDeleted, SubRow
<1>6. CASE PruneDeletedSubscriptions
  BY <1>6 DEF PruneDeletedSubscriptions, LiveSub, NoSub
<1>7. CASE PruneDeletedTopics
  BY <1>0, <1>7 DEF PruneDeletedTopics, SubRow
<1>8. CASE \/ Tick \/ Publish \/ Respond \/ DeadLetterDeliveries \/ Snapshots
           \/ Seek \/ PruneDeliveries \/ PruneCompletedMessages
           \/ \E t \in TopicIds : CreateTopic(t) \/ DeleteTopic(t)
  <2>1. UNCHANGED subs
    BY <1>8, Zenon DEF Tick, Publish, PublishMessage, Respond, AckDeliveries,
       NackDeliveries, DelayDeliveries, DeadLetterDeliveries, Snapshots,
       CreateSnapshot, DeleteSnapshot, Seek, SeekSubscriptionToTime,
       SeekSubscriptionToSnapshot, PruneDeliveries, PruneCompletedDeliveries,
       PruneExpiredDeliveries, PruneDeletedSubscriptionDeliveries,
       PruneCompletedMessages, CreateTopic, DeleteTopic
  <2> QED BY <2>1
<1> QED BY <1>1, <1>2, <1>3, <1>4, <1>5, <1>6, <1>7, <1>8
        DEF Next, Create, Delete, Reconfigure, Prune, PruneRows

\* A publish delivers to the subscriptions of its topic.
LEMMA PublishedToOwnTopic ==
    ASSUME OrderInv, NEW t \in TopicIds, NEW k \in Keys, NEW a \in Attrs,
           PublishMessage(t, k, a),
           NEW d \in DOMAIN deliveries' \ DOMAIN deliveries
    PROVE  subs'[SubOf(d)].topic = t
<1> USE DEF OrderInv
<1> DEFINE m == [topic |-> t, key |-> k, attrs |-> a, publishedAt |-> now]
           to == [i \in {1} |-> Subscribers(t, m)]
<1>1. d \in NewIds(to)
  BY DEF PublishMessage, Fanout
<1>2. d[2] \in Subscribers(t, m)
  BY <1>1, NewIdsType
<1> QED BY <1>2 DEF Subscribers, SubOf, PublishMessage

\* T holds every subscription that dead letters may reach, and no snapshot is made
\* of one of these.
KeptApart(T) ==
    /\ \A d \in DOMAIN deliveries' \ DOMAIN deliveries : SubOf(d) \in T \/ Publish
    /\ \A n \in SnapNames, s \in T : ~CreateSnapshot(n, s)

\* d came straight from a publish to the topic of its subscription.
Straight(d) ==
    LET m == messages[deliveries[d].msg] IN
    /\ deliveries[d].msg = d[1]
    /\ deliveries[d].publishedAt = m.publishedAt /\ m.publishedAt < now
    /\ LiveSub(SubOf(d)) => m.topic = subs[SubOf(d)].topic

StraightInv(T) ==
    \A d \in DOMAIN deliveries : SubOf(d) \notin T => Straight(d)

\* What a seek to the snapshot n takes for acknowledged.
AckedIn(n, d) ==
    \/ deliveries[d].publishedAt < snapshots[n].ackedBefore
    \/ deliveries[d].msg \in snapshots[n].acked

\* The snapshot's time and its list agree with what the subscription looked like,
\* and nothing that comes later falls under them.
Faithful(n, T) ==
    LET v == snapView[n] IN
    /\ v.sub \notin T
    /\ snapshots[n].ackedBefore <= now
    /\ \A m \in snapshots[n].acked : m <= nextId
    /\ \A d \in v.open \cup v.done : d[1] <= nextId
    /\ \A d \in DeliveriesOf(v.sub) :
          /\ d \in v.open => ~AckedIn(n, d)
          /\ d \in v.done => AckedIn(n, d)
          /\ deliveries[d].msg \notin v.msgs => ~AckedIn(n, d)

FaithfulInv(T) ==
    \A n \in SnapNames :
       snapshots[n] # None => snapView[n] \in ViewRow /\ Faithful(n, T)

SnapInv(T) == OrderInv /\ MessagesFresh /\ StraightInv(T) /\ FaithfulInv(T)

\* What no step does to a row that it does not create: change its message or the
\* time it was published at.
SameMessage ==
    \A d \in DOMAIN deliveries' : d \in DOMAIN deliveries =>
       /\ deliveries'[d].msg = deliveries[d].msg
       /\ deliveries'[d].publishedAt = deliveries[d].publishedAt

LEMMA SoughtMessage ==
    ASSUME TypeOK, NEW s, NEW ack, NEW reopen, Sought(s, ack, reopen)
    PROVE  SameMessage /\ DOMAIN deliveries' = DOMAIN deliveries
<1>1. DOMAIN deliveries' = DOMAIN deliveries
  BY DEF Sought
<1>2. ASSUME NEW d \in DOMAIN deliveries
      PROVE  /\ deliveries'[d].msg = deliveries[d].msg
             /\ deliveries'[d].publishedAt = deliveries[d].publishedAt
  <2>1. deliveries[d] \in DeliveryRow
    BY DEF TypeOK
  <2>2. \/ deliveries'[d] = Complete(d) \/ deliveries'[d] = deliveries[d]
        \/ deliveries'[d] = [deliveries[d] EXCEPT
                               !.completedAt = None, !.attemptAt = now,
                               !.expiresAt = After(subs[s].messageTTL)]
    BY DEF Sought
  <2> QED BY <2>1, <2>2 DEF Complete, DeliveryRow
<1> QED BY <1>1, <1>2 DEF SameMessage

LEMMA MessageStep ==
    ASSUME OrderInv, TypeOK', Next
    PROVE  /\ SameMessage /\ Onward
           /\ \A d \in DOMAIN deliveries' \ DOMAIN deliveries :
                 d[1] > nextId /\ deliveries'[d].publishedAt = now
<1> USE DEF OrderInv
<1>1. CASE Seek
  <2>1. SameMessage /\ DOMAIN deliveries' = DOMAIN deliveries
    BY <1>1, SoughtMessage
       DEF Seek, SeekSubscriptionToTime, SeekSubscriptionToSnapshot
  <2>2. UNCHANGED <<now, subs, nextId>>
    BY <1>1 DEF Seek, SeekSubscriptionToTime, SeekSubscriptionToSnapshot
  <2>3. Onward
    BY <2>2 DEF Onward, TypeOK
  <2> QED BY <2>1, <2>3
<1>2. CASE PruneDeliveries
  <2>1. UNCHANGED <<now, subs, nextId>>
    BY <1>2, PruneDrops
  <2>2. PICK S : /\ DOMAIN deliveries' = DOMAIN deliveries \ S
                 /\ \A d \in DOMAIN deliveries' : deliveries'[d] =
                      [deliveries[d] EXCEPT !.notBefore =
                         IF @ \in S THEN None ELSE @]
    BY <1>2, PruneDrops
  <2>3. SameMessage
    BY <2>2 DEF SameMessage, TypeOK, DeliveryRow
  <2>4. Onward
    BY <2>1 DEF Onward, TypeOK
  <2> QED BY <2>2, <2>3, <2>4
<1>3. CASE ~Seek /\ ~PruneDeliveries
  <2>1. Works /\ Onward
    BY <1>3, NextWorks
  <2>2. \A d \in DOMAIN deliveries' : d \in DeliveryIds
    BY DEF TypeOK
  <2>3. SameMessage
    BY <2>1, <2>2 DEF Works, SameMessage, KeepsRow, CompletesRow, CreatesRow,
       NoRow, KeptAs, CompletedAs, SameOrigin
  <2> QED BY <2>1, <2>2, <2>3 DEF Works, KeepsRow, CompletesRow, CreatesRow, NoRow
<1> QED BY <1>1, <1>2, <1>3

\* What a publish creates carries the id and the time of the message.
LEMMA PublishedStraight ==
    ASSUME OrderInv, OrderInv', MessagesFresh, NEW t \in TopicIds, NEW k \in Keys,
           NEW a \in Attrs, PublishMessage(t, k, a),
           NEW d \in DOMAIN deliveries' \ DOMAIN deliveries
    PROVE  Straight(d)' /\ d[1] = nextId + 1
<1> USE DEF OrderInv
<1> DEFINE id == nextId + 1
           m == [topic |-> t, key |-> k, attrs |-> a, publishedAt |-> now]
           src == [i \in {1} |-> id]
           to == [i \in {1} |-> Subscribers(t, m)]
<1>1. PICK nb : deliveries' = [e \in DOMAIN deliveries \cup NewIds(to) |->
                                 IF e \in NewIds(to)
                                 THEN NewDelivery(src[e[1] - nextId], e[2], nb[e])
                                 ELSE deliveries[e]]
  BY DEF PublishMessage, Fanout
<1>2. d \in NewIds(to)
  BY <1>1
<1>3. d[1] - nextId = 1 /\ d[1] = id
  <2>1. d[1] - nextId = 1 /\ d[1] \in Nat /\ nextId \in Nat
    BY <1>2, NewIdsType DEF NewIds, TypeOK
  <2> QED BY <2>1
<1>4. deliveries'[d] = NewDelivery(id, d[2], nb[d])
  BY <1>1, <1>2, <1>3
<1>5. deliveries'[d].msg = d[1] /\ deliveries'[d].publishedAt = now
  BY <1>3, <1>4 DEF NewDelivery
<1>6. messages'[d[1]] = m
  BY <1>3 DEF PublishMessage
<1>7. now < now'
  BY DEF PublishMessage, TypeOK
<1>8. subs'[SubOf(d)].topic = t
  BY PublishedToOwnTopic
<1> QED BY <1>3, <1>5, <1>6, <1>7, <1>8 DEF Straight

LEMMA StraightStep ==
    ASSUME NEW T, SnapInv(T), OrderInv', Next, KeptApart(T)
    PROVE  StraightInv(T)'
<1> USE DEF SnapInv, OrderInv
<1> SUFFICES ASSUME NEW d \in DOMAIN deliveries', SubOf(d) \notin T
             PROVE  Straight(d)'
  BY DEF StraightInv, SubOf
<1>1. CASE d \notin DOMAIN deliveries
  <2>1. PICK t \in TopicIds, k \in Keys, a \in Attrs : PublishMessage(t, k, a)
    BY <1>1 DEF KeptApart, Publish
  <2> QED BY <1>1, <2>1, PublishedStraight
<1>2. CASE d \in DOMAIN deliveries
  <2>1. /\ deliveries'[d].msg = deliveries[d].msg
        /\ deliveries'[d].publishedAt = deliveries[d].publishedAt /\ Onward
    BY <1>2, MessageStep DEF SameMessage
  <2>2. deliveries[d].msg \in Nat /\ HasDeliveries(deliveries[d].msg)
    BY <1>2 DEF TypeOK, DeliveryRow, HasDeliveries
  <2>3. messages'[deliveries[d].msg] = messages[deliveries[d].msg]
    BY <2>2, TopicsStay
  <2>4. Straight(d) /\ SubOf(d) \in SubIds /\ subs[SubOf(d)].st \in InTable
    BY <1>2 DEF StraightInv, TypeOK, DeliveryIds, SubOf, ReferencesResolve
  <2>5. LiveSub(SubOf(d))' => LiveSub(SubOf(d)) /\ subs'[SubOf(d)].topic = subs[SubOf(d)].topic
    BY <2>1, <2>4, TopicFixed DEF Onward, LiveSub
  <2>6. messages[deliveries[d].msg].publishedAt < now'
    <3>1. /\ now \in Nat /\ now' \in Nat /\ now' >= now
          /\ messages[deliveries[d].msg].publishedAt \in Nat
      BY <1>2, <2>1, <2>4, RowTypes DEF Straight, TypeOK, Onward
    <3> QED BY <2>4, <3>1 DEF Straight
  <2> QED BY <2>1, <2>3, <2>4, <2>5, <2>6 DEF Straight
<1> QED BY <1>1, <1>2

\* A snapshot that stays as it is stays faithful.
LEMMA KeptFaithful ==
    ASSUME NEW T, SnapInv(T), OrderInv', Next, KeptApart(T), NEW n \in SnapNames,
           snapshots[n] # None, snapshots'[n] = snapshots[n],
           snapView'[n] = snapView[n]
    PROVE  Faithful(n, T)'
<1> USE DEF SnapInv, OrderInv
<1> DEFINE v == snapView[n]
           snap == snapshots[n]
<1>1. Faithful(n, T) /\ v \in ViewRow /\ snap \in SnapshotRow
  BY DEF FaithfulInv, TypeOK
<1>2. /\ now \in Nat /\ now' \in Nat /\ nextId \in Nat /\ nextId' \in Nat
      /\ now' >= now /\ nextId' >= nextId /\ snap.ackedBefore \in Nat
      /\ \A m \in snap.acked : m \in Nat
      /\ \A d \in v.open \cup v.done : d[1] \in Nat
  BY <1>1, MessageStep
     DEF Onward, TypeOK, SnapshotRow, Time, Never, ViewRow, DeliveryIds
<1>3. /\ snap.ackedBefore <= now'
      /\ \A m \in snap.acked : m <= nextId'
      /\ \A d \in v.open \cup v.done : d[1] <= nextId'
  BY <1>1, <1>2 DEF Faithful
<1>4. ASSUME NEW d \in DOMAIN deliveries', SubOf(d) = v.sub
      PROVE  /\ d \in v.open => ~AckedIn(n, d)'
             /\ d \in v.done => AckedIn(n, d)'
             /\ deliveries'[d].msg \notin v.msgs => ~AckedIn(n, d)'
  <2>1. CASE d \in DOMAIN deliveries
    <3>1. AckedIn(n, d)' = AckedIn(n, d) /\ deliveries'[d].msg = deliveries[d].msg
      BY <2>1, MessageStep DEF SameMessage, AckedIn
    <3>2. d \in DeliveriesOf(v.sub)
      BY <1>4, <2>1 DEF DeliveriesOf
    <3> QED BY <1>1, <3>1, <3>2 DEF Faithful
  <2>2. CASE d \notin DOMAIN deliveries
    <3>1. PICK t \in TopicIds, k \in Keys, a \in Attrs : PublishMessage(t, k, a)
      BY <1>1, <1>4, <2>2 DEF KeptApart, Faithful, Publish
    <3>2. d[1] = nextId + 1 /\ deliveries'[d].msg = d[1]
      BY <2>2, <3>1, PublishedStraight DEF Straight
    <3>3. deliveries'[d].publishedAt = now
      BY <2>2, MessageStep
    <3>4. d \notin v.open \cup v.done
      BY <1>1, <1>2, <3>2 DEF Faithful
    <3>5. ~(deliveries'[d].publishedAt < snap.ackedBefore)
      BY <1>1, <1>2, <3>3 DEF Faithful
    <3>6. deliveries'[d].msg \notin snap.acked
      BY <1>1, <1>2, <3>2 DEF Faithful
    <3> QED BY <3>4, <3>5, <3>6 DEF AckedIn
  <2> QED BY <2>1, <2>2
<1>5. v.sub \notin T
  BY <1>1 DEF Faithful
<1> QED BY <1>3, <1>4, <1>5 DEF Faithful, DeliveriesOf, SubOf

\* So is a new one.  The oldest unacknowledged delivery divides the acknowledged
\* ones into those before it and those that the list names, by message; no open
\* delivery is of a listed message because a message is delivered once.
LEMMA NewFaithful ==
    ASSUME NEW T, SnapInv(T), NEW n \in SnapNames, NEW s \in SubIds \ T,
           CreateSnapshot(n, s)
    PROVE  snapView'[n] \in ViewRow /\ Faithful(n, T)'
<1> USE DEF SnapInv, OrderInv
<1> DEFINE view == [sub |-> s, open |-> Unacked(s), msgs |-> DOMAIN messages,
                    done |-> {d \in DeliveriesOf(s) : ~Open(d)}]
           row(t, acked) == [topic |-> subs[s].topic, ackedBefore |-> t,
                             acked |-> acked]
<1>1. /\ snapView'[n] = view /\ LiveSub(s)
      /\ UNCHANGED <<now, nextId, messages, deliveries>>
  BY DEF CreateSnapshot, TypeOK
<1>2. \A d \in DeliveriesOf(s) :
         /\ d \in DOMAIN deliveries /\ SubOf(d) = s /\ Straight(d)
         /\ d[1] \in Nat /\ d[1] <= nextId /\ deliveries[d].msg \in DOMAIN messages
         /\ deliveries[d].publishedAt \in Nat
  <2>1. \A d \in DeliveriesOf(s) : d \in DOMAIN deliveries /\ SubOf(d) = s
    BY DEF DeliveriesOf
  <2>2. \A d \in DeliveriesOf(s) : Straight(d)
    BY <2>1 DEF StraightInv
  <2>3. \A d \in DeliveriesOf(s) :
           d[1] \in Nat /\ deliveries[d].publishedAt \in Nat
    BY <2>1, RowTypes DEF DeliveryIds
  <2> QED BY <2>1, <2>2, <2>3 DEF ChainInv, ReferencesResolve
<1>3. \A d \in DeliveriesOf(s) :
         /\ deliveries[d].msg = d[1] /\ deliveries[d].publishedAt < now
         /\ messages[d[1]].publishedAt = deliveries[d].publishedAt
         /\ messages[d[1]].topic = subs[s].topic
  BY <1>1, <1>2 DEF Straight
<1>4. \A d, e \in DeliveriesOf(s) : d[1] = e[1] => d = e
  BY <1>2 DEF TypeOK, DeliveryIds, SubOf
<1>5. Unacked(s) \subseteq DeliveriesOf(s) /\ \A d \in Unacked(s) : Open(d)
  BY DEF Unacked
<1>6. now \in Nat /\ nextId \in Nat /\ \A m \in DOMAIN messages : m \in Nat /\ m <= nextId
  BY DEF TypeOK, MessagesFresh
<1>7. ASSUME NEW t \in Nat, NEW acked \in SUBSET DOMAIN messages, t <= now,
             snapshots'[n] = row(t, acked),
             \A d \in Unacked(s) : ~(deliveries[d].publishedAt < t) /\ d[1] \notin acked,
             \A d \in DeliveriesOf(s) : ~Open(d) =>
                deliveries[d].publishedAt < t \/ d[1] \in acked
      PROVE  Faithful(n, T)'
  <2>1. /\ snapshots'[n].ackedBefore = t /\ snapshots'[n].acked = acked
        /\ snapView'[n].sub = s /\ snapView'[n].open = Unacked(s)
        /\ snapView'[n].msgs = DOMAIN messages
        /\ snapView'[n].done = {d \in DeliveriesOf(s) : ~Open(d)}
    BY <1>1, <1>7
  <2>2. DeliveriesOf(snapView[n].sub)' = DeliveriesOf(s)
    BY <1>1, <2>1 DEF DeliveriesOf, SubOf
  <2>3. \A d \in DeliveriesOf(s) : AckedIn(n, d)' <=>
           deliveries[d].publishedAt < t \/ d[1] \in acked
    BY <1>1, <1>3, <2>1 DEF AckedIn
  <2>4. \A d \in DeliveriesOf(s) : deliveries'[d].msg \in DOMAIN messages
    BY <1>1, <1>2
  <2>5. \A m \in acked : m <= nextId'
    BY <1>1, <1>6
  <2>6. \A d \in Unacked(s) \cup {e \in DeliveriesOf(s) : ~Open(e)} : d[1] <= nextId'
    BY <1>1, <1>2, <1>5
  <2>7. t <= now'
    BY <1>1, <1>7
  <2>8. ASSUME NEW d \in DeliveriesOf(s)
        PROVE  /\ d \in Unacked(s) => ~AckedIn(n, d)'
               /\ ~Open(d) => AckedIn(n, d)'
    BY <1>7, <2>3
  <2>9. /\ snapView'[n].sub \notin T /\ snapshots'[n].ackedBefore <= now'
        /\ \A m \in snapshots'[n].acked : m <= nextId'
        /\ \A d \in snapView'[n].open \cup snapView'[n].done : d[1] <= nextId'
    BY <2>1, <2>5, <2>6, <2>7
  <2>10. \A d \in DeliveriesOf(snapView[n].sub)' :
            /\ d \in snapView'[n].open => ~AckedIn(n, d)'
            /\ d \in snapView'[n].done => AckedIn(n, d)'
            /\ deliveries'[d].msg \notin snapView'[n].msgs => ~AckedIn(n, d)'
    BY <2>1, <2>2, <2>4, <2>8
  <2> QED BY <2>9, <2>10 DEF Faithful
<1>8. ASSUME Unacked(s) = {}, snapshots'[n] = row(now, {})
      PROVE  Faithful(n, T)'
  BY <1>3, <1>6, <1>7, <1>8
<1>9. ASSUME NEW o \in OldestUnacked(s),
             snapshots'[n] = row(deliveries[o].publishedAt,
                                 AckedSince(s, deliveries[o].publishedAt))
      PROVE  Faithful(n, T)'
  <2> DEFINE t == deliveries[o].publishedAt
             acked == AckedSince(s, t)
  <2>1. o \in DeliveriesOf(s) /\ \A d \in Unacked(s) : t <= deliveries[d].publishedAt
    BY <1>5 DEF OldestUnacked
  <2>2. t \in Nat /\ t <= now /\ acked \in SUBSET DOMAIN messages
    BY <1>2, <1>3, <1>6, <2>1 DEF AckedSince
  <2>3. ASSUME NEW d \in Unacked(s)
        PROVE  ~(deliveries[d].publishedAt < t) /\ d[1] \notin acked
    <3>1. d \in DeliveriesOf(s) /\ Open(d) /\ t <= deliveries[d].publishedAt
      BY <1>5, <2>1
    <3>2. ~(deliveries[d].publishedAt < t)
      BY <1>2, <2>2, <3>1
    <3>3. ASSUME NEW e \in DeliveriesOf(s), deliveries[e].msg = d[1] PROVE Open(e)
      BY <1>3, <1>4, <3>1, <3>3
    <3> QED BY <3>2, <3>3 DEF AckedSince
  <2>4. ASSUME NEW d \in DeliveriesOf(s), ~Open(d), ~(deliveries[d].publishedAt < t)
        PROVE  d[1] \in acked
    <3>1. d[1] \in DOMAIN messages /\ deliveries[d].msg = d[1]
      BY <1>2, <1>3
    <3>2. messages[d[1]].publishedAt >= t /\ messages[d[1]].topic = subs[s].topic
      BY <1>2, <1>3, <2>2, <2>4
    <3> QED BY <2>4, <3>1, <3>2 DEF AckedSince
  <2>5. snapshots'[n] = row(t, acked)
    BY <1>9
  <2> HIDE DEF t, acked
  <2> QED BY <1>7, <2>2, <2>3, <2>4, <2>5
<1>10. \/ Unacked(s) = {} /\ snapshots'[n] = row(now, {})
       \/ \E o \in OldestUnacked(s) :
             snapshots'[n] = row(deliveries[o].publishedAt,
                                 AckedSince(s, deliveries[o].publishedAt))
  BY DEF CreateSnapshot, TypeOK
<1>11. Faithful(n, T)'
  BY <1>8, <1>9, <1>10
<1>12. view \in ViewRow
  BY <1>5 DEF ViewRow, TypeOK, DeliveriesOf
<1> QED BY <1>1, <1>11, <1>12

LEMMA SnapInvStep ==
    ASSUME NEW T, SnapInv(T), [Next]_vars, [KeptApart(T)]_vars
    PROVE  SnapInv(T)'
<1> USE DEF SnapInv
<1>1. OrderInv'
  BY OrderInvStep
<1>2. CASE UNCHANGED vars
  BY <1>1, <1>2 DEF vars, MessagesFresh, StraightInv, Straight, SubOf, LiveSub,
     FaithfulInv, Faithful, AckedIn, DeliveriesOf
<1>3. CASE Next /\ KeptApart(T)
  <2>1. MessagesFresh'
    BY <1>1, <1>3, MessageStep, MessagesFreshStep DEF Onward, OrderInv
  <2>2. StraightInv(T)'
    BY <1>1, <1>3, StraightStep
  <2>3. ASSUME NEW n \in SnapNames, snapshots'[n] # None
        PROVE  snapView'[n] \in ViewRow /\ Faithful(n, T)'
    <3>1. CASE \E s \in SubIds : CreateSnapshot(n, s)
      BY <1>3, <3>1, NewFaithful DEF KeptApart
    <3>2. CASE ~ \E s \in SubIds : CreateSnapshot(n, s)
      <4>1. snapshots'[n] = snapshots[n] /\ snapView'[n] = snapView[n]
        <5>1. CASE Snapshots
          BY <2>3, <3>2, <5>1 DEF Snapshots, CreateSnapshot, DeleteSnapshot,
             OrderInv, TypeOK
        <5>2. CASE \E t \in TopicIds : DeleteTopic(t)
          BY <2>3, <5>2 DEF DeleteTopic
        <5>3. CASE ~Snapshots /\ ~ \E t \in TopicIds : DeleteTopic(t)
          <6>1. UNCHANGED <<snapshots, snapView>>
            BY <1>3, <5>3, Zenon DEF Next, Tick, Publish, PublishMessage, Receive,
               GetSubscriptionMessages, Respond, AckDeliveries, NackDeliveries,
               DelayDeliveries, DeadLetterDeliveries, Create, CreateTopic,
               CreateSubscription, Delete, DeleteSubscription, Expire,
               RefreshSubscription, DeleteExpiredSubscriptions, Reconfigure,
               UpdateSubscription, SetDeliveryDelay, Seek, SeekSubscriptionToTime,
               SeekSubscriptionToSnapshot, Prune, PruneDeliveries,
               PruneCompletedDeliveries, PruneExpiredDeliveries,
               PruneDeletedSubscriptionDeliveries, PruneRows,
               PruneCompletedMessages, PruneDeletedSubscriptions,
               PruneDeletedTopics
          <6> QED BY <6>1
        <5> QED BY <5>1, <5>2, <5>3
      <4>2. snapView[n] \in ViewRow /\ snapshots[n] # None
        BY <2>3, <4>1 DEF FaithfulInv
      <4> QED BY <1>1, <1>3, <4>1, <4>2, KeptFaithful
    <3> QED BY <3>1, <3>2
  <2> QED BY <1>1, <2>1, <2>2, <2>3 DEF FaithfulInv
<1> QED BY <1>2, <1>3

\* A seek to a faithful snapshot restores it.
LEMMA SeekRestores ==
    ASSUME NEW T, SnapInv(T), NEW s \in SubIds, NEW n \in SnapNames,
           SeekSubscriptionToSnapshot(s, n), snapView[n].sub = s,
           NEW d \in DeliveriesOf(s), Retained(d)
    PROVE  /\ d \in snapView[n].open => deliveries'[d].completedAt = None
           /\ d \in snapView[n].done => deliveries'[d].completedAt # None
           /\ deliveries[d].msg \notin snapView[n].msgs
                 => deliveries'[d].completedAt = None
<1> USE DEF SnapInv, OrderInv
<1>1. /\ d \in snapView[n].open => ~AckedIn(n, d)
      /\ d \in snapView[n].done => AckedIn(n, d)
      /\ deliveries[d].msg \notin snapView[n].msgs => ~AckedIn(n, d)
  BY DEF SeekSubscriptionToSnapshot, FaithfulInv, Faithful
<1>2. deliveries[d] \in DeliveryRow /\ d \in DOMAIN deliveries
  BY DEF TypeOK, DeliveriesOf
<1> DEFINE ack == {e \in DeliveriesOf(s) : Retained(e) /\ Open(e) /\ AckedIn(n, e)}
           reopen == {e \in DeliveriesOf(s) : ~AckedIn(n, e) /\ ~Open(e)}
<1>3. Sought(s, ack, reopen)
  <2>1. /\ ack = {e \in DeliveriesOf(s) : Retained(e) /\ Open(e)
                    /\ (\/ deliveries[e].publishedAt < snapshots[n].ackedBefore
                        \/ deliveries[e].msg \in snapshots[n].acked)}
        /\ reopen = {e \in DeliveriesOf(s) :
                       /\ ~(deliveries[e].publishedAt < snapshots[n].ackedBefore)
                       /\ deliveries[e].msg \notin snapshots[n].acked
                       /\ ~Open(e)}
    BY DEF AckedIn
  <2> HIDE DEF ack, reopen
  <2> QED BY <2>1 DEF SeekSubscriptionToSnapshot
<1>4. CASE AckedIn(n, d) /\ Open(d)
  <2>1. now # None
    BY NoneAssumption DEF TypeOK
  <2>2. d \in ack
    BY <1>4
  <2>3. deliveries'[d] = Complete(d)
    BY <1>2, <1>3, <2>2 DEF Sought
  <2> QED BY <1>1, <1>2, <1>4, <2>1, <2>3 DEF Complete, DeliveryRow
<1>5. CASE ~AckedIn(n, d) /\ ~Open(d)
  <2>1. deliveries'[d] = [deliveries[d] EXCEPT
                            !.completedAt = None, !.attemptAt = now,
                            !.expiresAt = After(subs[s].messageTTL)]
    BY <1>2, <1>3, <1>5 DEF Sought
  <2>2. deliveries'[d].completedAt = None
    BY <1>2, <2>1 DEF DeliveryRow
  <2> QED BY <1>1, <1>5, <2>2
<1>6. CASE AckedIn(n, d) <=> ~Open(d)
  <2>1. deliveries'[d] = deliveries[d]
    BY <1>2, <1>3, <1>6 DEF Sought
  <2> QED BY <1>1, <1>6, <2>1 DEF Open
<1> QED BY <1>4, <1>5, <1>6

\* CreateSnapshot keeps one instant and a list of messages, and the seek compares
\* each delivery with these: together they restore a subscription to what it was,
\* whatever was published, pulled, acknowledged, expired, pruned or sought in
\* between, unless dead letters reach the subscription.
THEOREM SnapshotsRestore ==
    ASSUME NEW T
    PROVE  Spec /\ [][KeptApart(T)]_vars => SeekRestoresSnapshot
<1>1. Init => SnapInv(T)
  BY InitOrderInv DEF Init, SnapInv, MessagesFresh, StraightInv, FaithfulInv
<1>2. SnapInv(T) /\ [Next]_vars /\ [KeptApart(T)]_vars => SnapInv(T)'
  BY SnapInvStep
<1>3. SnapInv(T) =>
        [\A s \in SubIds, n \in SnapNames :
            SeekSubscriptionToSnapshot(s, n) /\ snapView[n].sub = s =>
               \A d \in DeliveriesOf(s) : Retained(d) =>
                  /\ d \in snapView[n].open => deliveries'[d].completedAt = None
                  /\ d \in snapView[n].done => deliveries'[d].completedAt # None
                  /\ deliveries[d].msg \notin snapView[n].msgs
                        => deliveries'[d].completedAt = None]_vars
  BY SeekRestores
<1> QED BY <1>1, <1>2, <1>3, PTL DEF Spec, SeekRestoresSnapshot
=============================================================================
