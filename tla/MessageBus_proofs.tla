------------------------- MODULE MessageBus_proofs --------------------------
(***************************************************************************)
(* The type invariant and the referential integrity of the message bus,    *)
(* for every number of topics, subscriptions, messages and snapshots and   *)
(* every bound.  Neither invariant is inductive alone: a fan-out types its *)
(* new rows from the subscriptions it finds, and those have a topic only   *)
(* because references resolve.  Together they are, and the proof of        *)
(* TypeAndReferencesStep has one lemma per transaction of src/actions.     *)
(***************************************************************************)
EXTENDS MessageBus, TLAPS

USE ConstantsAssumption

\* Adding a duration to the clock gives an instant: saturation keeps
\* expiresAt and attemptAt in range.
LEMMA TimeType ==
  ASSUME TypeOK, NEW n \in Nat
  PROVE  After(n) \in Time /\ now \in Time /\ now \in Nat
BY DEF TypeOK, After, Time, Never

\* The empty database is well typed and refers to nothing.
LEMMA InitOK == Init => TypeOK /\ ReferencesResolve
<1> SUFFICES ASSUME Init PROVE TypeOK /\ ReferencesResolve
  OBVIOUS
<1>1. NoTopic \in TopicRow /\ NoSub \in SubRow
  BY NextDelayAssumption
     DEF NoTopic, TopicRow, NoSub, SubRow, RowStates, Time, Never
<1>2. TypeOK
  BY <1>1 DEF Init, TypeOK
<1>3. ReferencesResolve
  BY DEF Init, ReferencesResolve, NoTopic, NoSub, InTable
<1> QED BY <1>2, <1>3

\* The passing of time changes no row.
LEMMA TickOK ==
  ASSUME TypeOK, ReferencesResolve, Tick
  PROVE  TypeOK' /\ ReferencesResolve'
<1>1. TypeOK'
  BY DEF TypeOK, Tick
<1>2. ReferencesResolve'
  BY DEF ReferencesResolve, Tick
<1> QED BY <1>1, <1>2

\* The step that inserts a topic (actions/create-topic.go) keeps every row well typed
\* and every reference resolved.
LEMMA CreateTopicOK ==
  ASSUME TypeOK, ReferencesResolve, NEW t \in TopicIds, CreateTopic(t)
  PROVE  TypeOK' /\ ReferencesResolve'
<1>1. [st |-> "live", deletedAt |-> 0] \in TopicRow
  BY DEF TopicRow, RowStates, Time, Never
<1>2. TypeOK'
  BY <1>1 DEF TypeOK, CreateTopic
<1>3. \A u \in TopicIds : topics[u].st \in InTable => topics'[u].st \in InTable
  BY DEF TypeOK, CreateTopic, InTable
<1>4. ReferencesResolve'
  BY <1>3 DEF ReferencesResolve, CreateTopic, TypeOK, MessageRow, SubRow, SnapshotRow
<1> QED BY <1>2, <1>4

\* A new subscription (actions/create-subscription.go) refers to a live
\* topic and to a live dead letter topic or none.
LEMMA CreateSubscriptionOK ==
  ASSUME TypeOK, ReferencesResolve, NEW s \in SubIds, CreateSubscription(s)
  PROVE  TypeOK' /\ ReferencesResolve'
<1> DEFINE r == SubRequest[s]
<1> USE RequestAssumption, NoneAssumption
<1>0. r \in RequestType /\ r \in SubRequests
  OBVIOUS
<1>1. PICK t \in LiveTopicNamed(r.topic), dlt \in DeadLetterTopicFor(r) :
          subs' = [subs EXCEPT ![s] =
                     [st |-> "live", deletedAt |-> 0,
                      expiresAt |-> After(r.ttl), topic |-> t, ttl |-> r.ttl,
                      messageTTL |-> r.messageTTL, ordered |-> r.ordered,
                      retry |-> r.retry, filter |-> r.filter, dlTopic |-> dlt,
                      max |-> r.max, delay |-> 0]]
  BY DEF CreateSubscription
<1>2. t \in TopicIds /\ topics[t].st = "live"
  BY DEF LiveTopicNamed, LiveTopic
<1>3. dlt = None \/ (dlt \in TopicIds /\ topics[dlt].st = "live")
  BY DEF DeadLetterTopicFor, LiveTopicNamed, LiveTopic
<1>4. After(r.ttl) \in Time
  BY <1>0, TimeType DEF RequestType
<1>5. subs'[s] \in SubRow
  BY <1>0, <1>1, <1>2, <1>3, <1>4 DEF RequestType, TypeOK, SubRow, RowStates, Time, Never
<1>6. TypeOK'
  BY <1>5, <1>1 DEF TypeOK, CreateSubscription
<1>7. ReferencesResolve'
  BY <1>1, <1>2, <1>3 DEF ReferencesResolve, CreateSubscription, TypeOK, InTable, DeliveryIds, SubOf
<1> QED BY <1>6, <1>7

-----------------------------------------------------------------------------
\* What every fan-out does to the table: the rows N are new, open and
\* unattempted, belong to live subscriptions and refer to existing rows; the
\* others keep their message, predecessor and expiry.
FannedOut(N) ==
    /\ N \subseteq DeliveryIds
    /\ DOMAIN deliveries' = DOMAIN deliveries \cup N
    /\ deliveries' \in [DOMAIN deliveries' -> DeliveryRow]
    /\ \A d \in N :
          /\ LiveSub(SubOf(d))
          /\ deliveries'[d].msg \in DOMAIN messages'
          /\ deliveries'[d].notBefore \in DOMAIN deliveries' \cup {None}
          /\ deliveries'[d].completedAt = None
          /\ deliveries'[d].attempts = 0
          /\ deliveries'[d].publishedAt = now
          /\ deliveries'[d].expiresAt = After(subs[SubOf(d)].messageTTL)
          /\ deliveries'[d].attemptAt = After(subs[SubOf(d)].delay)
    /\ \A d \in DOMAIN deliveries \ N :
          /\ deliveries'[d].msg = deliveries[d].msg
          /\ deliveries'[d].notBefore = deliveries[d].notBefore
          /\ deliveries'[d].expiresAt = deliveries[d].expiresAt

\* The ids a fan-out draws are fresh: all above the generator.
LEMMA NewIdsType ==
  ASSUME TypeOK, NEW to, NEW d \in NewIds(to)
  PROVE  /\ d \in DeliveryIds /\ d[2] \in SubIds
         /\ d[1] \in Nat /\ d[1] > nextId /\ d[1] <= nextId + MaxBatch
         /\ d[1] - nextId \in DOMAIN to /\ d[2] \in to[d[1] - nextId]
         /\ d = <<d[1], d[2]>>
BY DEF NewIds, TypeOK, DeliveryIds

\* deliverToSubscription builds a well-typed row.
LEMMA NewDeliveryType ==
  ASSUME TypeOK, NEW m \in Nat, NEW s \in SubIds, NEW nb \in DeliveryIds \cup {None}
  PROVE  NewDelivery(m, s, nb) \in DeliveryRow
<1>1. subs[s].messageTTL \in Nat /\ subs[s].delay \in Nat
  BY DEF TypeOK, SubRow
<1>2. now \in Time /\ After(subs[s].messageTTL) \in Time /\ After(subs[s].delay) \in Time
  BY <1>1, TimeType
<1> QED BY <1>2 DEF NewDelivery, DeliveryRow

\* A fan-out that rewrites the existing rows without touching their message,
\* predecessor or expiry has the effect FannedOut (delivery-utils.go,
\* deliverToSubscription).
LEMMA FanoutStep ==
  ASSUME TypeOK,
         NEW msgs, NEW src, NEW to, NEW rows,
         Fanout(msgs, src, to, rows),
         rows \in [DOMAIN deliveries -> DeliveryRow],
         \A d \in DOMAIN deliveries :
            /\ rows[d].msg = deliveries[d].msg
            /\ rows[d].notBefore = deliveries[d].notBefore
            /\ rows[d].expiresAt = deliveries[d].expiresAt,
         \A i \in DOMAIN to : \A s \in to[i] :
            LiveSub(s) /\ src[i] \in Nat /\ src[i] \in DOMAIN messages'
  PROVE  FannedOut(NewIds(to))
<1> DEFINE N == NewIds(to)
<1>1. PICK nb \in NotBefores(msgs, src, to) :
         deliveries' = [d \in DOMAIN deliveries \cup N |->
                          IF d \in N
                          THEN NewDelivery(src[d[1] - nextId], d[2], nb[d])
                          ELSE rows[d]]
  BY DEF Fanout
<1>2. nb \in [N -> DOMAIN deliveries \cup N \cup {None}]
  BY DEF NotBefores
<1>3. N \subseteq DeliveryIds
  BY NewIdsType
<1>4. ASSUME NEW d \in N
      PROVE  /\ LiveSub(d[2]) /\ src[d[1] - nextId] \in Nat /\ src[d[1] - nextId] \in DOMAIN messages'
             /\ NewDelivery(src[d[1] - nextId], d[2], nb[d]) \in DeliveryRow
  <2>1. LiveSub(d[2]) /\ src[d[1] - nextId] \in Nat /\ src[d[1] - nextId] \in DOMAIN messages'
    BY NewIdsType
  <2>2. nb[d] \in DeliveryIds \cup {None} /\ d[2] \in SubIds
    BY <1>2, <1>3, NewIdsType DEF TypeOK
  <2> QED BY <2>1, <2>2, NewDeliveryType
<1>5. DOMAIN deliveries' = DOMAIN deliveries \cup N
  BY <1>1
<1>6. deliveries' \in [DOMAIN deliveries' -> DeliveryRow]
  BY <1>1, <1>4
<1>7. ASSUME NEW d \in N
      PROVE /\ LiveSub(SubOf(d))
          /\ deliveries'[d].msg \in DOMAIN messages'
          /\ deliveries'[d].notBefore \in DOMAIN deliveries' \cup {None}
          /\ deliveries'[d].completedAt = None
          /\ deliveries'[d].attempts = 0
          /\ deliveries'[d].publishedAt = now
          /\ deliveries'[d].expiresAt = After(subs[SubOf(d)].messageTTL)
          /\ deliveries'[d].attemptAt = After(subs[SubOf(d)].delay)
  <2>1. deliveries'[d] = NewDelivery(src[d[1] - nextId], d[2], nb[d])
    BY <1>1
  <2>2. nb[d] \in DOMAIN deliveries' \cup {None}
    BY <1>2, <1>5
  <2>3. /\ deliveries'[d].msg = src[d[1] - nextId]
        /\ deliveries'[d].notBefore = nb[d]
        /\ deliveries'[d].completedAt = None
        /\ deliveries'[d].attempts = 0
        /\ deliveries'[d].publishedAt = now
        /\ deliveries'[d].expiresAt = After(subs[d[2]].messageTTL)
        /\ deliveries'[d].attemptAt = After(subs[d[2]].delay)
    BY <2>1 DEF NewDelivery
  <2>4. LiveSub(d[2]) /\ src[d[1] - nextId] \in DOMAIN messages'
    BY <1>4
  <2> QED BY <2>2, <2>3, <2>4 DEF SubOf
<1>8. ASSUME NEW d \in DOMAIN deliveries \ N
      PROVE deliveries'[d] = rows[d]
  BY <1>1
<1> QED BY <1>3, <1>5, <1>6, <1>7, <1>8 DEF FannedOut

\* A transaction that dead-letters its exhausted deliveries and rewrites the
\* others (delivery-utils.go, deadLetterDelivery) has the effect FannedOut.
LEMMA ProcessStep ==
  ASSUME TypeOK, ReferencesResolve,
         NEW q, NEW upd, NEW handed,
         Range(q) \subseteq DOMAIN deliveries,
         Process(q, upd, handed), messages' = messages,
         \A d \in Range(q) : ~Exhausted(d) =>
            /\ upd[d] \in DeliveryRow
            /\ upd[d].msg = deliveries[d].msg
            /\ upd[d].notBefore = deliveries[d].notBefore
            /\ upd[d].expiresAt = deliveries[d].expiresAt
  PROVE  FannedOut(NewIds(DeadLettersTo(q)))
<1> DEFINE rows == Processed(q, upd)
<1>1. ASSUME NEW d \in DOMAIN deliveries
      PROVE  /\ rows[d] \in DeliveryRow
             /\ rows[d].msg = deliveries[d].msg
             /\ rows[d].notBefore = deliveries[d].notBefore
             /\ rows[d].expiresAt = deliveries[d].expiresAt
  <2>1. deliveries[d] \in DeliveryRow /\ now \in Time
    BY TimeType DEF TypeOK
  <2>2. /\ Complete(d) \in DeliveryRow
        /\ Complete(d).msg = deliveries[d].msg
        /\ Complete(d).notBefore = deliveries[d].notBefore
        /\ Complete(d).expiresAt = deliveries[d].expiresAt
    BY <2>1 DEF Complete, DeliveryRow
  <2>3. rows[d] = IF d \notin Range(q) THEN deliveries[d]
                  ELSE IF Exhausted(d) THEN Complete(d) ELSE upd[d]
    BY DEF Processed
  <2> QED BY <2>1, <2>2, <2>3
<1>2. rows \in [DOMAIN deliveries -> DeliveryRow]
  BY <1>1 DEF Processed
<1>3. ASSUME NEW i \in DOMAIN DeadLettersTo(q), NEW s \in DeadLettersTo(q)[i]
      PROVE  LiveSub(s) /\ SourcesOf(q)[i] \in Nat /\ SourcesOf(q)[i] \in DOMAIN messages'
  <2>1. i \in DOMAIN q /\ q[i] \in DOMAIN deliveries /\ SourcesOf(q)[i] = deliveries[q[i]].msg
    BY DEF DeadLettersTo, Range, SourcesOf
  <2>2. s \in DeadLetterSubs(q[i])
    BY <2>1 DEF DeadLettersTo
  <2>3. LiveSub(s)
    BY <2>2 DEF DeadLetterSubs, Subscribers
  <2>4. deliveries[q[i]].msg \in DOMAIN messages
    BY <2>1 DEF ReferencesResolve
  <2> QED BY <2>1, <2>3, <2>4 DEF TypeOK
<1>4. Fanout(messages, SourcesOf(q), DeadLettersTo(q), rows)
  BY DEF Process
<1> HIDE DEF rows
<1> QED BY <1>1, <1>2, <1>3, <1>4, FanoutStep

-----------------------------------------------------------------------------
\* Rewriting subscriptions without creating, pruning or re-pointing one
\* keeps references resolved.
LEMMA SubsStep ==
  ASSUME TypeOK, ReferencesResolve,
         UNCHANGED <<topics, messages, deliveries, snapshots>>,
         \A s \in SubIds : /\ subs'[s].st \in InTable <=> subs[s].st \in InTable
                           /\ subs'[s].topic = subs[s].topic
                           /\ subs'[s].dlTopic = subs[s].dlTopic
  PROVE  ReferencesResolve'
BY DEF ReferencesResolve, TypeOK, DeliveryIds, SubOf

\* A fan-out keeps references resolved, whatever messages it adds.
LEMMA FannedOutStep ==
  ASSUME TypeOK, ReferencesResolve, NEW N, FannedOut(N),
         UNCHANGED <<topics, snapshots>>,
         \A s \in SubIds : /\ subs'[s].st \in InTable <=> subs[s].st \in InTable
                           /\ subs'[s].topic = subs[s].topic
                           /\ subs'[s].dlTopic = subs[s].dlTopic,
         DOMAIN messages \subseteq DOMAIN messages',
         \A m \in DOMAIN messages' : topics[messages'[m].topic].st \in InTable
  PROVE  ReferencesResolve'
<1>1. ASSUME NEW d \in DOMAIN deliveries'
      PROVE  /\ deliveries'[d].msg \in DOMAIN messages'
             /\ subs'[SubOf(d)].st \in InTable
             /\ deliveries'[d].notBefore \in DOMAIN deliveries' \cup {None}
  <2>1. CASE d \in N
    <3>1. SubOf(d) \in SubIds
      BY <2>1 DEF FannedOut, DeliveryIds, SubOf
    <3> QED BY <2>1, <3>1 DEF FannedOut, LiveSub, InTable
  <2>2. CASE d \notin N
    <3>1. d \in DOMAIN deliveries /\ SubOf(d) \in SubIds
      BY <2>2 DEF FannedOut, TypeOK, DeliveryIds, SubOf
    <3> QED BY <2>2, <3>1 DEF FannedOut, ReferencesResolve
  <2> QED BY <2>1, <2>2
<1>2. ASSUME NEW s \in SubIds, subs'[s].st \in InTable
      PROVE  /\ subs'[s].topic # None /\ topics'[subs'[s].topic].st \in InTable
             /\ subs'[s].dlTopic # None => topics'[subs'[s].dlTopic].st \in InTable
  BY <1>2 DEF ReferencesResolve
<1> QED BY <1>1, <1>2 DEF ReferencesResolve

\* The bookkeeping of promises is well typed.
LEMMA PromiseType ==
  ASSUME TypeOK, NEW to, NEW handed, Promise(to, handed)
  PROVE  /\ DOMAIN promised' \subseteq DeliveryIds
         /\ promised' \in [DOMAIN promised' -> PromiseRow]
<1>1. ASSUME NEW d \in NewIds(to)
      PROVE  [from |-> After(subs[d[2]].delay),
              until |-> After(subs[d[2]].messageTTL)] \in PromiseRow
  <2>1. d[2] \in SubIds
    BY NewIdsType
  <2>2. subs[d[2]].delay \in Nat /\ subs[d[2]].messageTTL \in Nat
    BY <2>1 DEF TypeOK, SubRow
  <2> QED BY <2>2, TimeType DEF PromiseRow
<1>2. NewIds(to) \subseteq DeliveryIds
  BY NewIdsType
<1> QED BY <1>1, <1>2 DEF Promise, TypeOK

\* Soft-deleting a topic and dropping its snapshots (actions/delete-topic.go)
\* leaves its row in the table, so references to it still resolve.
LEMMA DeleteTopicOK ==
  ASSUME TypeOK, ReferencesResolve, NEW t \in TopicIds, DeleteTopic(t)
  PROVE  TypeOK' /\ ReferencesResolve'
<1>1. [st |-> "deleted", deletedAt |-> now] \in TopicRow
  BY TimeType DEF TopicRow, RowStates
<1>2. TypeOK'
  BY <1>1 DEF TypeOK, DeleteTopic
<1>3. \A u \in TopicIds : topics[u].st \in InTable => topics'[u].st \in InTable
  BY DEF TypeOK, DeleteTopic, InTable
<1>4. ReferencesResolve'
  BY <1>3 DEF ReferencesResolve, DeleteTopic, TypeOK, MessageRow, SubRow, SnapshotRow
<1> QED BY <1>2, <1>4

\* UpdateSubscription (services/grpc-subscriber.go) keeps the row well typed
\* and may only re-point it to a live dead letter topic.
LEMMA UpdateSubscriptionOK ==
  ASSUME TypeOK, ReferencesResolve, NEW s \in SubIds, NEW r \in SubRequests,
         NEW paths, UpdateSubscription(s, r, paths)
  PROVE  TypeOK' /\ ReferencesResolve'
<1>1. PICK dlt \in (IF "deadLetter" \in paths THEN DeadLetterTopicFor(r)
                                              ELSE {subs[s].dlTopic}) :
         subs' = [subs EXCEPT ![s] = Updated(subs[s], r, paths, dlt)]
  BY DEF UpdateSubscription
<1>2. r \in RequestType
  BY RequestAssumption
<1>3. subs[s] \in SubRow /\ subs[s].st = "live"
  BY DEF TypeOK, UpdateSubscription, LiveSub
<1>4. /\ dlt \in TopicIds \cup {None}
      /\ dlt # None => topics[dlt].st \in InTable
  <2>1. CASE "deadLetter" \in paths
    BY <2>1 DEF DeadLetterTopicFor, LiveTopicNamed, LiveTopic, InTable
  <2>2. CASE "deadLetter" \notin paths
    BY <2>2, <1>3 DEF SubRow, InTable, ReferencesResolve
  <2> QED BY <2>1, <2>2
<1>5. After(r.ttl) \in Time
  BY <1>2, TimeType DEF RequestType
<1>6. subs'[s] \in SubRow
  <2>1. /\ r.ttl \in Nat /\ r.messageTTL \in Nat /\ r.max \in Nat
        /\ r.ordered \in BOOLEAN /\ r.filter \in SUBSET Attrs
        /\ r.retry \in DOMAIN NextDelay
    BY <1>2 DEF RequestType
  <2> DEFINE v1 == IF "ttl" \in paths THEN r.ttl ELSE subs[s].ttl
             v2 == IF "ttl" \in paths THEN After(r.ttl) ELSE subs[s].expiresAt
             v3 == IF "messageTTL" \in paths THEN r.messageTTL
                                             ELSE subs[s].messageTTL
             v4 == IF "ordered" \in paths THEN r.ordered ELSE subs[s].ordered
             v5 == IF "filter" \in paths THEN r.filter ELSE subs[s].filter
             v6 == IF "deadLetter" \in paths THEN r.max ELSE subs[s].max
             v7 == IF "retry" \in paths THEN r.retry ELSE subs[s].retry
  <2>2. v1 \in Nat /\ v2 \in Time /\ v3 \in Nat
    BY <2>1, <1>3, <1>5 DEF SubRow
  <2>3. v4 \in BOOLEAN
    BY <2>1, <1>3 DEF SubRow
  <2>4. v5 \in SUBSET Attrs /\ v6 \in Nat /\ v7 \in DOMAIN NextDelay
    BY <2>1, <1>3 DEF SubRow
  <2>5. Updated(subs[s], r, paths, dlt) =
          [subs[s] EXCEPT !.ttl = v1, !.expiresAt = v2, !.messageTTL = v3,
             !.ordered = v4, !.retry = v7, !.filter = v5, !.dlTopic = dlt,
             !.max = v6]
    BY Zenon DEF Updated
  <2> HIDE DEF v1, v2, v3, v4, v5, v6, v7
  <2>6. Updated(subs[s], r, paths, dlt) \in SubRow
    BY <2>2, <2>3, <2>4, <2>5, <1>3, <1>4 DEF SubRow
  <2> QED BY <2>6, <1>1 DEF TypeOK
<1>7. TypeOK'
  BY <1>1, <1>6 DEF TypeOK, UpdateSubscription
<1>8. /\ subs'[s].st = "live" /\ subs'[s].topic = subs[s].topic
      /\ subs'[s].dlTopic = dlt
      /\ \A o \in SubIds : o # s => subs'[o] = subs[o]
  BY <1>1, <1>3 DEF TypeOK, SubRow, Updated
<1>9. ReferencesResolve'
  BY <1>3, <1>4, <1>8 DEF ReferencesResolve, UpdateSubscription, TypeOK,
     DeliveryIds, SubOf, InTable
<1> QED BY <1>7, <1>9

\* The step that injects a delay (controllers/delay-injector.go) keeps every row well typed
\* and every reference resolved.
LEMMA SetDeliveryDelayOK ==
  ASSUME TypeOK, ReferencesResolve, NEW s \in SubIds, NEW n \in Delays,
         SetDeliveryDelay(s, n)
  PROVE  TypeOK' /\ ReferencesResolve'
<1>1. TypeOK'
  BY DEF TypeOK, SetDeliveryDelay, SubRow
<1>2. ReferencesResolve'
  BY SubsStep DEF TypeOK, SetDeliveryDelay, SubRow
<1> QED BY <1>1, <1>2

\* Soft deletion of subscriptions, by request or by expiry, keeps their rows
\* in the table.
LEMMA MarkDeletedOK ==
  ASSUME TypeOK, ReferencesResolve, NEW S, \A s \in S : LiveSub(s),
         MarkDeleted(S),
         UNCHANGED <<now, topics, messages, deliveries, snapshots, nextId,
                     promised, snapView>>
  PROVE  TypeOK' /\ ReferencesResolve'
<1>1. ASSUME NEW s \in SubIds
      PROVE  /\ subs'[s] \in SubRow
             /\ subs'[s].st \in InTable <=> subs[s].st \in InTable
             /\ subs'[s].topic = subs[s].topic
             /\ subs'[s].dlTopic = subs[s].dlTopic
  <2>1. subs[s] \in SubRow /\ now \in Time
    BY TimeType DEF TypeOK
  <2> QED BY <2>1 DEF MarkDeleted, SubRow, RowStates, InTable, LiveSub
<1>2. TypeOK'
  BY <1>1 DEF TypeOK, MarkDeleted
<1>3. ReferencesResolve'
  BY <1>1, SubsStep
<1> QED BY <1>2, <1>3

\* Refreshing the expiry of a subscription changes nothing else of it.
LEMMA RefreshExpiryType ==
  ASSUME TypeOK, NEW s \in SubIds, RefreshExpiry(s)
  PROVE  /\ subs' \in [SubIds -> SubRow]
         /\ \A o \in SubIds : /\ subs'[o].st = subs[o].st
                              /\ subs'[o].topic = subs[o].topic
                              /\ subs'[o].dlTopic = subs[o].dlTopic
<1>1. subs[s] \in SubRow /\ After(subs[s].ttl) \in Time
  BY TimeType DEF TypeOK, SubRow
<1> QED BY <1>1 DEF RefreshExpiry, TypeOK, SubRow

\* The refresh on entry of GetSubscriptionMessages is harmless.
LEMMA RefreshSubscriptionOK ==
  ASSUME TypeOK, ReferencesResolve, NEW s \in SubIds, RefreshSubscription(s)
  PROVE  TypeOK' /\ ReferencesResolve'
<1>1. RefreshExpiry(s)
  BY DEF RefreshSubscription
<1>2. TypeOK'
  BY <1>1, RefreshExpiryType DEF RefreshSubscription, TypeOK
<1>3. ReferencesResolve'
  BY <1>1, RefreshExpiryType, SubsStep DEF RefreshSubscription
<1> QED BY <1>2, <1>3

-----------------------------------------------------------------------------
\* PublishMessage has the effect FannedOut and promises exactly its new rows.
LEMMA PublishFansOut ==
  ASSUME TypeOK, ReferencesResolve, NEW t \in TopicIds, NEW k \in Keys,
         NEW a \in Attrs, PublishMessage(t, k, a)
  PROVE  \E to : FannedOut(NewIds(to)) /\ Promise(to, {})
<1> DEFINE id == nextId + 1
           m == [topic |-> t, key |-> k, attrs |-> a, publishedAt |-> now]
           src == [i \in {1} |-> id]
           to == [i \in {1} |-> Subscribers(t, m)]
<1>1. Fanout(messages', src, to, deliveries) /\ Promise(to, {})
  BY DEF PublishMessage
<1>2. deliveries \in [DOMAIN deliveries -> DeliveryRow]
  BY DEF TypeOK
<1>3. ASSUME NEW i \in DOMAIN to, NEW s \in to[i]
      PROVE  LiveSub(s) /\ src[i] \in Nat /\ src[i] \in DOMAIN messages'
  BY DEF Subscribers, TypeOK, PublishMessage
<1> HIDE DEF src, to
<1>4. FannedOut(NewIds(to))
  BY <1>1, <1>2, <1>3, FanoutStep
<1> QED BY <1>1, <1>4

\* The step that publishes a message (actions/publish-message.go) keeps every row well typed
\* and every reference resolved.
LEMMA PublishMessageOK ==
  ASSUME TypeOK, ReferencesResolve, NEW t \in TopicIds, NEW k \in Keys,
         NEW a \in Attrs, PublishMessage(t, k, a)
  PROVE  TypeOK' /\ ReferencesResolve'
<1> DEFINE m == [topic |-> t, key |-> k, attrs |-> a, publishedAt |-> now]
<1>1. PICK to : FannedOut(NewIds(to)) /\ Promise(to, {})
  BY PublishFansOut
<1>2. m \in MessageRow /\ topics[t].st = "live"
  BY TimeType DEF MessageRow, PublishMessage, LiveTopic
<1>3. messages' = [i \in DOMAIN messages \cup {nextId + 1} |->
                     IF i = nextId + 1 THEN m ELSE messages[i]]
  BY DEF PublishMessage
<1>4. /\ DOMAIN messages' \subseteq Nat
      /\ messages' \in [DOMAIN messages' -> MessageRow]
  BY <1>2, <1>3 DEF TypeOK
<1>5. now' \in 0 .. MaxNow /\ nextId' \in Nat
  BY DEF PublishMessage, TypeOK
<1>6. UNCHANGED <<topics, subs, snapshots, snapView>>
  BY DEF PublishMessage
<1>7. TypeOK'
  BY <1>1, <1>4, <1>5, <1>6, PromiseType DEF FannedOut, TypeOK
<1>8. \A i \in DOMAIN messages' : topics[messages'[i].topic].st \in InTable
  <2> SUFFICES ASSUME NEW i \in DOMAIN messages'
               PROVE  topics[messages'[i].topic].st \in InTable
    OBVIOUS
  <2>1. CASE i = nextId + 1
    BY <2>1, <1>2, <1>3 DEF InTable
  <2>2. CASE i # nextId + 1
    BY <2>2, <1>3 DEF ReferencesResolve
  <2> QED BY <2>1, <2>2
<1>9. DOMAIN messages \subseteq DOMAIN messages'
  BY <1>3
<1>10. ReferencesResolve'
  BY <1>1, <1>6, <1>8, <1>9, FannedOutStep
<1> QED BY <1>7, <1>10

\* A batch names only deliveries of the set it is drawn from.
LEMMA BatchRange ==
  ASSUME NEW E, NEW q \in Batches(E)
  PROVE  Range(q) \subseteq E
BY DEF Batches, Range

\* The step that processes a batch of deliveries keeps every row well typed
\* and every reference resolved.
LEMMA ProcessOK ==
  ASSUME TypeOK, ReferencesResolve,
         NEW q, NEW upd, NEW handed, Process(q, upd, handed),
         FannedOut(NewIds(DeadLettersTo(q))),
         UNCHANGED <<now, topics, messages, snapshots, snapView>>,
         subs' \in [SubIds -> SubRow],
         \A s \in SubIds : /\ subs'[s].st = subs[s].st
                           /\ subs'[s].topic = subs[s].topic
                           /\ subs'[s].dlTopic = subs[s].dlTopic
  PROVE  TypeOK' /\ ReferencesResolve'
<1>1. Promise(DeadLettersTo(q), handed) /\ nextId' \in Nat
  BY DEF Process, TypeOK
<1>2. TypeOK'
  BY <1>1, PromiseType DEF FannedOut, TypeOK
<1>3. ReferencesResolve'
  BY FannedOutStep DEF ReferencesResolve
<1> QED BY <1>2, <1>3

\* A backoff is a duration, whatever the retry policy.
LEMMA BackoffType ==
  ASSUME TypeOK, NEW d \in DOMAIN deliveries, NEW n \in 0 .. MaxAttempts
  PROVE  BackoffFor(d, n) \in Nat
<1>1. SubOf(d) \in SubIds
  BY DEF TypeOK, DeliveryIds, SubOf
<1>2. subs[SubOf(d)].retry \in DOMAIN NextDelay
  BY <1>1 DEF TypeOK, SubRow
<1> QED BY <1>2, NextDelayAssumption DEF BackoffFor

\* Completing, backing off and attempting give well-typed rows; an attempt
\* needs room below the bound on attempts.
LEMMA RewrittenRows ==
  ASSUME TypeOK, NEW d \in DOMAIN deliveries
  PROVE  /\ Complete(d) \in DeliveryRow
         /\ Backoff(d) \in DeliveryRow
         /\ deliveries[d].attempts < MaxAttempts => Attempt(d) \in DeliveryRow
<1>1. deliveries[d] \in DeliveryRow /\ now \in Time
  BY TimeType DEF TypeOK
<1>2. deliveries[d].attempts \in 0 .. MaxAttempts
  BY <1>1 DEF DeliveryRow
<1>3. After(BackoffFor(d, deliveries[d].attempts)) \in Time
  BY <1>2, BackoffType, TimeType
<1>4. Complete(d) \in DeliveryRow
  BY <1>1 DEF Complete, DeliveryRow
<1>5. Backoff(d) \in DeliveryRow
  BY <1>1, <1>3 DEF Backoff, DeliveryRow
<1>6. ASSUME deliveries[d].attempts < MaxAttempts
      PROVE  Attempt(d) \in DeliveryRow
  <2>1. deliveries[d].attempts + 1 \in 0 .. MaxAttempts
    BY <1>2, <1>6
  <2>2. After(BackoffFor(d, deliveries[d].attempts + 1)) \in Time
    BY <2>1, BackoffType, TimeType
  <2> QED BY <1>1, <2>1, <2>2 DEF Attempt, DeliveryRow
<1> QED BY <1>4, <1>5, <1>6

\* GetSubscriptionMessages has the effect FannedOut: applyResults attempts
\* what is not exhausted and dead-letters the rest.
LEMMA PullFansOut ==
  ASSUME TypeOK, ReferencesResolve, NEW s \in SubIds,
         GetSubscriptionMessages(s)
  PROVE  \E q \in Batches({d \in DeliveriesOf(s) : Deliverable(d)}) :
            LET out == {d \in Range(q) : ~Exhausted(d)} IN
            /\ Process(q, [d \in out |-> Attempt(d)], out)
            /\ FannedOut(NewIds(DeadLettersTo(q)))
<1> DEFINE out(q) == {d \in Range(q) : ~Exhausted(d)}
           upd(q) == [d \in out(q) |-> Attempt(d)]
<1>1. PICK q \in Batches({d \in DeliveriesOf(s) : Deliverable(d)}) :
         /\ \A d \in out(q) : deliveries[d].attempts < MaxAttempts
         /\ Process(q, upd(q), out(q))
  BY DEF GetSubscriptionMessages
<1>2. Range(q) \subseteq DOMAIN deliveries
  BY BatchRange DEF DeliveriesOf
<1>3. ASSUME NEW d \in Range(q), ~Exhausted(d)
      PROVE  /\ upd(q)[d] \in DeliveryRow
             /\ upd(q)[d].msg = deliveries[d].msg
             /\ upd(q)[d].notBefore = deliveries[d].notBefore
             /\ upd(q)[d].expiresAt = deliveries[d].expiresAt
  <2>1. upd(q)[d] = Attempt(d) /\ deliveries[d].attempts < MaxAttempts
    BY <1>1, <1>3
  <2>2. Attempt(d) \in DeliveryRow /\ deliveries[d] \in DeliveryRow
    BY <2>1, <1>2, RewrittenRows DEF TypeOK
  <2> QED BY <2>1, <2>2 DEF Attempt, DeliveryRow
<1>4. messages' = messages
  BY DEF GetSubscriptionMessages
<1> HIDE DEF upd, out
<1>5. FannedOut(NewIds(DeadLettersTo(q)))
  BY <1>1, <1>2, <1>3, <1>4, ProcessStep
<1> QED BY <1>1, <1>5 DEF upd, out

\* The step that hands out messages (get-subscription-messages.go) keeps every row well typed
\* and every reference resolved.
LEMMA GetSubscriptionMessagesOK ==
  ASSUME TypeOK, ReferencesResolve, NEW s \in SubIds,
         GetSubscriptionMessages(s)
  PROVE  TypeOK' /\ ReferencesResolve'
<1>1. PICK q, upd, out : /\ Process(q, upd, out)
                         /\ FannedOut(NewIds(DeadLettersTo(q)))
  BY PullFansOut
<1>2. RefreshExpiry(s) /\ UNCHANGED <<now, topics, messages, snapshots, snapView>>
  BY DEF GetSubscriptionMessages
<1> QED BY <1>1, <1>2, RefreshExpiryType, ProcessOK

\* NackDeliveries has the effect FannedOut.
LEMMA NackFansOut ==
  ASSUME TypeOK, ReferencesResolve, NackDeliveries
  PROVE  \E q \in Batches({d \in KnownOpen : ~Expired(d)}) :
            /\ Process(q, [d \in Range(q) |-> Backoff(d)], {})
            /\ FannedOut(NewIds(DeadLettersTo(q)))
<1> DEFINE upd(q) == [d \in Range(q) |-> Backoff(d)]
<1>1. PICK q \in Batches({d \in KnownOpen : ~Expired(d)}) :
         Process(q, upd(q), {})
  BY DEF NackDeliveries
<1>2. Range(q) \subseteq DOMAIN deliveries
  BY BatchRange DEF KnownOpen
<1>3. ASSUME NEW d \in Range(q), ~Exhausted(d)
      PROVE  /\ upd(q)[d] \in DeliveryRow
             /\ upd(q)[d].msg = deliveries[d].msg
             /\ upd(q)[d].notBefore = deliveries[d].notBefore
             /\ upd(q)[d].expiresAt = deliveries[d].expiresAt
  <2>1. Backoff(d) \in DeliveryRow /\ deliveries[d] \in DeliveryRow
    BY <1>2, RewrittenRows DEF TypeOK
  <2> QED BY <2>1 DEF Backoff, DeliveryRow
<1>4. messages' = messages
  BY DEF NackDeliveries
<1> HIDE DEF upd
<1>5. FannedOut(NewIds(DeadLettersTo(q)))
  BY <1>1, <1>2, <1>3, <1>4, ProcessStep
<1> QED BY <1>1, <1>5 DEF upd

\* The step that nacks deliveries (actions/nack-deliveries.go) keeps every row well typed
\* and every reference resolved.
LEMMA NackDeliveriesOK ==
  ASSUME TypeOK, ReferencesResolve, NackDeliveries
  PROVE  TypeOK' /\ ReferencesResolve'
<1>1. PICK q, upd : /\ Process(q, upd, {})
                    /\ FannedOut(NewIds(DeadLettersTo(q)))
  BY NackFansOut
<1>2. UNCHANGED <<now, topics, subs, messages, snapshots, snapView>>
  BY DEF NackDeliveries
<1> QED BY <1>1, <1>2, ProcessOK DEF TypeOK

\* The background dead-letter run has the effect FannedOut.
LEMMA DeadLetterFansOut ==
  ASSUME TypeOK, ReferencesResolve, DeadLetterDeliveries
  PROVE  \E q \in Batches({d \in DOMAIN deliveries : DeadLetterDue(d)}) :
            /\ Process(q, deliveries, {})
            /\ FannedOut(NewIds(DeadLettersTo(q)))
<1>1. PICK q \in Batches({d \in DOMAIN deliveries : DeadLetterDue(d)}) :
         Process(q, deliveries, {})
  BY DEF DeadLetterDeliveries
<1>2. Range(q) \subseteq DOMAIN deliveries
  BY BatchRange
<1>3. \A d \in Range(q) : deliveries[d] \in DeliveryRow
  BY <1>2 DEF TypeOK
<1>4. messages' = messages
  BY DEF DeadLetterDeliveries
<1>5. FannedOut(NewIds(DeadLettersTo(q)))
  BY <1>1, <1>2, <1>3, <1>4, ProcessStep
<1> QED BY <1>1, <1>5

\* The step that dead-letters (actions/dead-letter-deliveries.go) keeps every row well typed
\* and every reference resolved.
LEMMA DeadLetterDeliveriesOK ==
  ASSUME TypeOK, ReferencesResolve, DeadLetterDeliveries
  PROVE  TypeOK' /\ ReferencesResolve'
<1>1. PICK q, upd : /\ Process(q, upd, {})
                    /\ FannedOut(NewIds(DeadLettersTo(q)))
  BY DeadLetterFansOut
<1>2. UNCHANGED <<now, topics, subs, messages, snapshots, snapView>>
  BY DEF DeadLetterDeliveries
<1> QED BY <1>1, <1>2, ProcessOK DEF TypeOK

-----------------------------------------------------------------------------
\* A step that only rewrites deliveries, keeping message and predecessor,
\* and drops promises is harmless.
LEMMA RewriteOK ==
  ASSUME TypeOK, ReferencesResolve,
         UNCHANGED <<now, topics, subs, messages, snapshots, nextId, snapView>>,
         DOMAIN deliveries' = DOMAIN deliveries,
         deliveries' \in [DOMAIN deliveries -> DeliveryRow],
         \A d \in DOMAIN deliveries :
            /\ deliveries'[d].msg = deliveries[d].msg
            /\ deliveries'[d].notBefore = deliveries[d].notBefore,
         DOMAIN promised' \subseteq DOMAIN promised,
         promised' \in [DOMAIN promised' -> PromiseRow]
  PROVE  TypeOK' /\ ReferencesResolve'
<1>1. TypeOK'
  BY DEF TypeOK
<1>2. ReferencesResolve'
  BY DEF ReferencesResolve
<1> QED BY <1>1, <1>2

\* The step that acknowledges (actions/ack-deliveries.go) keeps every row well typed
\* and every reference resolved.
LEMMA AckDeliveriesOK ==
  ASSUME TypeOK, ReferencesResolve, AckDeliveries
  PROVE  TypeOK' /\ ReferencesResolve'
<1>1. PICK q \in Batches(KnownOpen) :
         deliveries' = [d \in DOMAIN deliveries |->
                          IF d \in Range(q) THEN Complete(d) ELSE deliveries[d]]
  BY DEF AckDeliveries
<1>2. ASSUME NEW d \in DOMAIN deliveries
      PROVE  /\ deliveries'[d] \in DeliveryRow
             /\ deliveries'[d].msg = deliveries[d].msg
             /\ deliveries'[d].notBefore = deliveries[d].notBefore
  <2>1. deliveries[d] \in DeliveryRow /\ Complete(d) \in DeliveryRow
    BY RewrittenRows DEF TypeOK
  <2> QED BY <1>1, <2>1 DEF Complete, DeliveryRow
<1>3. promised' = promised
  BY DEF AckDeliveries
<1> QED BY <1>1, <1>2, <1>3, RewriteOK DEF AckDeliveries, TypeOK

\* The step that moves deadlines (actions/delay-deliveries.go) keeps every row well typed
\* and every reference resolved.
LEMMA DelayDeliveriesOK ==
  ASSUME TypeOK, ReferencesResolve, NEW n \in Delays, DelayDeliveries(n)
  PROVE  TypeOK' /\ ReferencesResolve'
<1>1. PICK q : deliveries' = [d \in DOMAIN deliveries |->
                  IF d \in Range(q)
                  THEN [deliveries[d] EXCEPT !.attemptAt = After(n)]
                  ELSE deliveries[d]]
  BY DEF DelayDeliveries
<1>2. ASSUME NEW d \in DOMAIN deliveries
      PROVE  /\ deliveries'[d] \in DeliveryRow
             /\ deliveries'[d].msg = deliveries[d].msg
             /\ deliveries'[d].notBefore = deliveries[d].notBefore
  <2>1. deliveries[d] \in DeliveryRow /\ After(n) \in Time
    BY TimeType DEF TypeOK
  <2> QED BY <1>1, <2>1 DEF DeliveryRow
<1>3. promised' = promised
  BY DEF DelayDeliveries
<1> QED BY <1>1, <1>2, <1>3, RewriteOK DEF DelayDeliveries, TypeOK

\* Acknowledging one set of deliveries and reopening another is harmless.
LEMMA SoughtOK ==
  ASSUME TypeOK, ReferencesResolve, NEW s \in SubIds, NEW ack, NEW reopen,
         Sought(s, ack, reopen),
         UNCHANGED <<now, topics, subs, messages, snapshots, nextId, snapView>>
  PROVE  TypeOK' /\ ReferencesResolve'
<1>1. subs[s].messageTTL \in Nat
  BY DEF TypeOK, SubRow
<1>2. After(subs[s].messageTTL) \in Time /\ now \in Time
  BY <1>1, TimeType
<1>3. ASSUME NEW d \in DOMAIN deliveries
      PROVE  /\ deliveries'[d] \in DeliveryRow
             /\ deliveries'[d].msg = deliveries[d].msg
             /\ deliveries'[d].notBefore = deliveries[d].notBefore
  <2>1. deliveries[d] \in DeliveryRow /\ Complete(d) \in DeliveryRow
    BY RewrittenRows DEF TypeOK
  <2> QED BY <1>2, <2>1 DEF Sought, Complete, DeliveryRow
<1>4. /\ DOMAIN deliveries' = DOMAIN deliveries
      /\ deliveries' \in [DOMAIN deliveries -> DeliveryRow]
  BY <1>3 DEF Sought
<1>5. /\ DOMAIN promised' \subseteq DOMAIN promised
      /\ promised' \in [DOMAIN promised' -> PromiseRow]
  <2>1. ASSUME NEW d \in DOMAIN promised, NEW u \in Time
        PROVE  [promised[d] EXCEPT !.until = u] \in PromiseRow
    BY DEF TypeOK, PromiseRow
  <2>2. \A d \in DOMAIN promised : promised[d].until \in Time
    BY DEF TypeOK, PromiseRow
  <2>3. 0 \in Time
    BY DEF Time, Never
  <2> QED BY <1>2, <2>1, <2>2, <2>3 DEF Sought
<1> QED BY <1>3, <1>4, <1>5, RewriteOK

\* The step that seeks, to a time or to a snapshot, keeps every row well typed
\* and every reference resolved.
LEMMA SeekOK ==
  ASSUME TypeOK, ReferencesResolve, Seek
  PROVE  TypeOK' /\ ReferencesResolve'
<1>1. PICK s \in SubIds : \E ack, reopen : Sought(s, ack, reopen)
  BY DEF Seek, SeekSubscriptionToTime, SeekSubscriptionToSnapshot
<1>2. UNCHANGED <<now, topics, subs, messages, snapshots, nextId, snapView>>
  BY DEF Seek, SeekSubscriptionToTime, SeekSubscriptionToSnapshot
<1> QED BY <1>1, <1>2, SoughtOK

\* A snapshot (actions/create-snapshot.go) refers to its subscription's
\* topic, which is still in the table though perhaps soft-deleted.
LEMMA CreateSnapshotOK ==
  ASSUME TypeOK, ReferencesResolve, NEW n \in SnapNames, NEW s \in SubIds,
         CreateSnapshot(n, s)
  PROVE  TypeOK' /\ ReferencesResolve'
<1>1. /\ subs[s].topic \in TopicIds /\ topics[subs[s].topic].st \in InTable
      /\ now \in Time
  BY TimeType DEF CreateSnapshot, TypeOK, ReferencesResolve, LiveSub, InTable, SubRow
<1>2. PICK t \in Time, acked \in SUBSET Nat :
         snapshots' = [snapshots EXCEPT ![n] =
            [topic |-> subs[s].topic, ackedBefore |-> t, acked |-> acked]]
  <2>1. CASE snapshots' = [snapshots EXCEPT ![n] =
               [topic |-> subs[s].topic, ackedBefore |-> now, acked |-> {}]]
    BY <1>1, <2>1
  <2>2. CASE \E d \in OldestUnacked(s) :
               snapshots' = [snapshots EXCEPT ![n] =
                 [topic |-> subs[s].topic,
                  ackedBefore |-> deliveries[d].publishedAt,
                  acked |-> AckedSince(s, deliveries[d].publishedAt)]]
    <3>1. PICK d \in OldestUnacked(s) :
               snapshots' = [snapshots EXCEPT ![n] =
                 [topic |-> subs[s].topic,
                  ackedBefore |-> deliveries[d].publishedAt,
                  acked |-> AckedSince(s, deliveries[d].publishedAt)]]
      BY <2>2
    <3>2. deliveries[d].publishedAt \in Time
      BY DEF OldestUnacked, Unacked, DeliveriesOf, TypeOK, DeliveryRow
    <3>3. AckedSince(s, deliveries[d].publishedAt) \in SUBSET Nat
      BY DEF AckedSince, TypeOK
    <3> QED BY <3>1, <3>2, <3>3
  <2> QED BY <2>1, <2>2 DEF CreateSnapshot
<1>3. [topic |-> subs[s].topic, ackedBefore |-> t, acked |-> acked] \in SnapshotRow
  BY <1>1 DEF SnapshotRow
<1>4. [sub |-> s, open |-> Unacked(s), msgs |-> DOMAIN messages,
          done |-> {d \in DeliveriesOf(s) : ~Open(d)}] \in ViewRow
  <2>1. /\ Unacked(s) \in SUBSET DeliveryIds /\ DOMAIN messages \in SUBSET Nat
        /\ {d \in DeliveriesOf(s) : ~Open(d)} \in SUBSET DeliveryIds
    BY DEF Unacked, DeliveriesOf, TypeOK
  <2> QED BY <2>1 DEF ViewRow
<1>5. snapView' \in [SnapNames -> ViewRow \cup {None}]
  BY <1>4 DEF CreateSnapshot, TypeOK
<1>6. snapshots' \in [SnapNames -> SnapshotRow \cup {None}]
  BY <1>2, <1>3 DEF TypeOK
<1>7. TypeOK'
  BY <1>5, <1>6 DEF CreateSnapshot, TypeOK
<1>8. \A o \in SnapNames :
         snapshots'[o] # None => topics[snapshots'[o].topic].st \in InTable
  BY <1>1, <1>2 DEF TypeOK, ReferencesResolve
<1>9. ReferencesResolve'
  BY <1>8 DEF CreateSnapshot, ReferencesResolve
<1> QED BY <1>7, <1>9

\* The step that deletes a snapshot (grpc-snapshots.go) keeps every row well typed
\* and every reference resolved.
LEMMA DeleteSnapshotOK ==
  ASSUME TypeOK, ReferencesResolve, NEW n \in SnapNames, DeleteSnapshot(n)
  PROVE  TypeOK' /\ ReferencesResolve'
<1>1. TypeOK'
  BY DEF DeleteSnapshot, TypeOK
<1>2. ReferencesResolve'
  BY DEF DeleteSnapshot, TypeOK, ReferencesResolve
<1> QED BY <1>1, <1>2

-----------------------------------------------------------------------------
\* Deleting deliveries clears the references to them (ON DELETE SET NULL),
\* so none dangles.
LEMMA DropDeliveriesOK ==
  ASSUME TypeOK, ReferencesResolve, NEW S, DropDeliveries(S),
         UNCHANGED <<now, topics, subs, messages, snapshots, nextId, promised,
                     snapView>>
  PROVE  TypeOK' /\ ReferencesResolve'
<1>1. ASSUME NEW d \in DOMAIN deliveries'
      PROVE  /\ d \in DOMAIN deliveries
             /\ deliveries'[d] \in DeliveryRow
             /\ deliveries'[d].msg = deliveries[d].msg
             /\ deliveries'[d].notBefore \in DOMAIN deliveries' \cup {None}
  <2>1. /\ d \in DOMAIN deliveries /\ DOMAIN deliveries' = DOMAIN deliveries \ S
        /\ deliveries'[d] = [deliveries[d] EXCEPT !.notBefore =
              IF deliveries[d].notBefore \in S THEN None
                                               ELSE deliveries[d].notBefore]
    BY DEF DropDeliveries
  <2>2. deliveries[d] \in DeliveryRow
    BY <2>1 DEF TypeOK
  <2>3. deliveries[d].notBefore \in DOMAIN deliveries \cup {None}
    BY <2>1 DEF ReferencesResolve
  <2>4. deliveries'[d] \in DeliveryRow /\ deliveries'[d].msg = deliveries[d].msg
    BY <2>1, <2>2 DEF DeliveryRow
  <2>5. deliveries'[d].notBefore = IF deliveries[d].notBefore \in S THEN None
                                               ELSE deliveries[d].notBefore
    BY <2>1, <2>2 DEF DeliveryRow
  <2> QED BY <2>1, <2>3, <2>4, <2>5
<1>2. deliveries' \in [DOMAIN deliveries' -> DeliveryRow]
  BY <1>1 DEF DropDeliveries
<1>3. TypeOK'
  BY <1>1, <1>2 DEF TypeOK
<1>4. ReferencesResolve'
  BY <1>1 DEF ReferencesResolve
<1> QED BY <1>3, <1>4

\* The step that prunes deliveries, by any of the three services, keeps every row well typed
\* and every reference resolved.
LEMMA PruneDeliveriesOK ==
  ASSUME TypeOK, ReferencesResolve, PruneDeliveries
  PROVE  TypeOK' /\ ReferencesResolve'
<1>1. PICK S : DropDeliveries(S)
  BY DEF PruneDeliveries, PruneCompletedDeliveries, PruneExpiredDeliveries,
         PruneDeletedSubscriptionDeliveries
<1>2. UNCHANGED <<now, topics, subs, messages, snapshots, nextId, promised,
                  snapView>>
  BY DEF PruneDeliveries, PruneCompletedDeliveries, PruneExpiredDeliveries,
         PruneDeletedSubscriptionDeliveries
<1> QED BY <1>1, <1>2, DropDeliveriesOK

\* Only messages without deliveries are pruned, so no delivery loses its
\* message (actions/prune-completed-messages.go).
LEMMA PruneCompletedMessagesOK ==
  ASSUME TypeOK, ReferencesResolve, PruneCompletedMessages
  PROVE  TypeOK' /\ ReferencesResolve'
<1>1. PICK S \in PruneSets({m \in DOMAIN messages : MessagePrunable(m)}) :
         messages' = [m \in DOMAIN messages \ S |-> messages[m]]
  BY DEF PruneCompletedMessages
<1>2. \A m \in S : ~HasDeliveries(m)
  BY DEF PruneSets, MessagePrunable
<1>3. TypeOK'
  BY <1>1 DEF PruneCompletedMessages, TypeOK
<1>4. \A d \in DOMAIN deliveries : deliveries[d].msg \in DOMAIN messages'
  BY <1>1, <1>2 DEF HasDeliveries, ReferencesResolve
<1>5. \A m \in DOMAIN messages' : topics[messages'[m].topic].st \in InTable
  BY <1>1 DEF ReferencesResolve
<1>6. ReferencesResolve'
  BY <1>4, <1>5 DEF PruneCompletedMessages, ReferencesResolve
<1> QED BY <1>3, <1>6

\* Only subscriptions without deliveries are pruned
\* (actions/prune-deleted-subscriptions.go).
LEMMA PruneDeletedSubscriptionsOK ==
  ASSUME TypeOK, ReferencesResolve, PruneDeletedSubscriptions
  PROVE  TypeOK' /\ ReferencesResolve'
<1>1. PICK S \in PruneSets({s \in SubIds : SubPrunable(s)}) :
          subs' = [s \in SubIds |->
                     IF s \in S THEN [NoSub EXCEPT !.st = "pruned"]
                                ELSE subs[s]]
  BY DEF PruneDeletedSubscriptions
<1>2. \A s \in S : DeliveriesOf(s) = {}
  BY DEF PruneSets, SubPrunable
<1>3. /\ [NoSub EXCEPT !.st = "pruned"] \in SubRow
      /\ [NoSub EXCEPT !.st = "pruned"].st \notin InTable
  <2>1. NoSub \in SubRow
    BY NextDelayAssumption DEF NoSub, SubRow, RowStates, Time, Never
  <2> QED BY <2>1 DEF SubRow, RowStates, InTable
<1>4. TypeOK'
  BY <1>1, <1>3 DEF PruneDeletedSubscriptions, TypeOK
<1>5. \A d \in DOMAIN deliveries : subs'[SubOf(d)] = subs[SubOf(d)]
  BY <1>1, <1>2 DEF DeliveriesOf, SubOf, TypeOK, DeliveryIds
<1>6. \A s \in SubIds : subs'[s].st \in InTable => subs'[s] = subs[s]
  BY <1>1, <1>3
<1>7. ReferencesResolve'
  BY <1>5, <1>6 DEF PruneDeletedSubscriptions, ReferencesResolve
<1> QED BY <1>4, <1>7

\* A topic is pruned only if no foreign key restricts it, and subscriptions
\* that dead-lettered to it lose the reference (prune-deleted-topics.go).
LEMMA PruneDeletedTopicsOK ==
  ASSUME TypeOK, ReferencesResolve, PruneDeletedTopics
  PROVE  TypeOK' /\ ReferencesResolve'
<1>1. PICK S \in PruneSets({t \in TopicIds : TopicPrunable(t)}) :
          /\ \A t \in S : ~TopicReferenced(t)
          /\ topics' = [t \in TopicIds |->
                          IF t \in S THEN [NoTopic EXCEPT !.st = "pruned"]
                                     ELSE topics[t]]
          /\ subs' = [s \in SubIds |->
                        [subs[s] EXCEPT !.dlTopic =
                                           IF @ \in S THEN None ELSE @]]
  BY DEF PruneDeletedTopics
<1>2. [NoTopic EXCEPT !.st = "pruned"] \in TopicRow
  BY DEF NoTopic, TopicRow, RowStates, Time, Never
<1>3. ASSUME NEW s \in SubIds
      PROVE  /\ subs'[s] \in SubRow /\ subs'[s].st = subs[s].st
             /\ subs'[s].topic = subs[s].topic
             /\ subs'[s].dlTopic = IF subs[s].dlTopic \in S
                                   THEN None ELSE subs[s].dlTopic
  <2>1. subs[s] \in SubRow
    BY DEF TypeOK
  <2> QED BY <1>1, <2>1 DEF SubRow
<1>4. TypeOK'
  BY <1>1, <1>2, <1>3 DEF PruneDeletedTopics, TypeOK
<1>5. \A t \in TopicIds : t \notin S => topics'[t] = topics[t]
  BY <1>1
<1>6. ASSUME NEW m \in DOMAIN messages
      PROVE  topics'[messages[m].topic].st \in InTable
  <2>1. messages[m].topic \in TopicIds /\ messages[m].topic \notin S
    BY <1>1 DEF TopicReferenced, TypeOK, MessageRow
  <2> QED BY <2>1, <1>5 DEF ReferencesResolve
<1>7. ASSUME NEW s \in SubIds, subs[s].st \in InTable
      PROVE  /\ subs[s].topic # None /\ topics'[subs[s].topic].st \in InTable
             /\ subs'[s].dlTopic # None => topics'[subs'[s].dlTopic].st \in InTable
  <2>1. subs[s].topic \in TopicIds /\ subs[s].topic \notin S
    BY <1>1, <1>7 DEF TopicReferenced, HasSubscriptions, TypeOK, SubRow, ReferencesResolve
  <2>2. subs[s].dlTopic \in TopicIds \cup {None}
    BY DEF TypeOK, SubRow
  <2> QED BY <2>1, <2>2, <1>3, <1>5, <1>7 DEF ReferencesResolve
<1>8. ASSUME NEW n \in SnapNames, snapshots[n] # None
      PROVE  topics'[snapshots[n].topic].st \in InTable
  <2>1. snapshots[n].topic \in TopicIds /\ snapshots[n].topic \notin S
    BY <1>1, <1>8 DEF TopicReferenced, TypeOK, SnapshotRow
  <2> QED BY <2>1, <1>5, <1>8 DEF ReferencesResolve
<1>9. \A d \in DOMAIN deliveries : subs'[SubOf(d)].st = subs[SubOf(d)].st
  BY <1>3 DEF TypeOK, DeliveryIds, SubOf
<1>10. ReferencesResolve'
  BY <1>3, <1>6, <1>7, <1>8, <1>9 DEF PruneDeletedTopics, ReferencesResolve
<1> QED BY <1>4, <1>10

-----------------------------------------------------------------------------
\* Every step keeps both invariants.
LEMMA TypeAndReferencesStep ==
  ASSUME TypeOK, ReferencesResolve, [Next]_vars
  PROVE  TypeOK' /\ ReferencesResolve'
<1>1. CASE Tick
  BY <1>1, TickOK
<1>2. CASE Publish
  BY <1>2, PublishMessageOK DEF Publish
<1>3. CASE Receive
  BY <1>3, GetSubscriptionMessagesOK DEF Receive
<1>4. CASE Respond
  BY <1>4, AckDeliveriesOK, NackDeliveriesOK, DelayDeliveriesOK DEF Respond
<1>5. CASE DeadLetterDeliveries
  BY <1>5, DeadLetterDeliveriesOK
<1>6. CASE Create
  BY <1>6, CreateTopicOK, CreateSubscriptionOK DEF Create
<1>7. CASE Delete
  <2>1. ASSUME NEW s \in SubIds, DeleteSubscription(s)
        PROVE  TypeOK' /\ ReferencesResolve'
    BY <2>1, MarkDeletedOK DEF DeleteSubscription
  <2> QED BY <1>7, <2>1, DeleteTopicOK DEF Delete
<1>8. CASE Expire
  <2>1. CASE DeleteExpiredSubscriptions
    <3>1. PICK S \in PruneSets({s \in SubIds : SubExpired(s)}) : MarkDeleted(S)
      BY <2>1 DEF DeleteExpiredSubscriptions
    <3>2. \A s \in S : LiveSub(s)
      BY DEF PruneSets, SubExpired
    <3> QED BY <2>1, <3>1, <3>2, MarkDeletedOK DEF DeleteExpiredSubscriptions
  <2> QED BY <1>8, <2>1, RefreshSubscriptionOK DEF Expire
<1>9. CASE Reconfigure
  BY <1>9, UpdateSubscriptionOK, SetDeliveryDelayOK DEF Reconfigure
<1>10. CASE Snapshots
  BY <1>10, CreateSnapshotOK, DeleteSnapshotOK DEF Snapshots
<1>11. CASE Seek
  BY <1>11, SeekOK
<1>12. CASE Prune
  BY <1>12, PruneDeliveriesOK, PruneCompletedMessagesOK,
     PruneDeletedSubscriptionsOK, PruneDeletedTopicsOK DEF Prune, PruneRows
<1>13. CASE UNCHANGED vars
  BY <1>13 DEF vars, TypeOK, ReferencesResolve
<1> QED BY <1>1, <1>2, <1>3, <1>4, <1>5, <1>6, <1>7, <1>8, <1>9, <1>10, <1>11,
           <1>12, <1>13 DEF Next

\* In every reachable state of the bus every row has the type of its schema.
THEOREM TypeCorrect == Spec => []TypeOK
<1>1. TypeOK /\ ReferencesResolve /\ [Next]_vars => (TypeOK /\ ReferencesResolve)'
  BY TypeAndReferencesStep
<1> QED BY <1>1, InitOK, PTL DEF Spec

\* In every reachable state no row refers to one that was pruned, although
\* six services prune the tables independently.
THEOREM ReferencesAlwaysResolve == Spec => []ReferencesResolve
<1>1. TypeOK /\ ReferencesResolve /\ [Next]_vars => (TypeOK /\ ReferencesResolve)'
  BY TypeAndReferencesStep
<1> QED BY <1>1, InitOK, PTL DEF Spec
=============================================================================
