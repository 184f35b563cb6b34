----------------------------- MODULE MessageBus -----------------------------
(***************************************************************************)
(* The message bus of mmmbbb: the five tables of src/ent/schema and the    *)
(* transactions of src/actions that read and write them.  One action is    *)
(* one committed transaction; a transaction that returns an error rolls    *)
(* back, changes nothing and is therefore no action at all, so every early *)
(* return of the code is a conjunct of a guard here.                       *)
(*                                                                         *)
(* Rows keep the columns that some transaction reads.  A message's payload *)
(* is gone, its attributes are a class of Attrs, and a filter is the set   *)
(* of classes it matches.  Time is a natural number of ticks.              *)
(***************************************************************************)
EXTENDS Integers, FiniteSets, Functions

CONSTANTS
    TopicIds,     \* uuids of the topics that may be created
    TopicName,    \* [TopicIds -> names]: the name each is created with
    SubIds,       \* uuids of the subscriptions that may be created
    SubRequest,   \* [SubIds -> SubRequests]: what their creators ask for
    SubRequests,  \* the contents of create and update requests
    Masks,        \* the update masks of update requests
    SnapNames,    \* names of snapshots
    Keys,         \* ordering keys of the published messages; may hold NoKey
    NoKey,        \* the absent or empty ordering key
    Attrs,        \* classes of message attributes
    None,         \* SQL NULL
    NextDelay,    \* [retry policies -> [Nat -> Nat]]: the backoff of each after
                  \* n attempts, in ticks; the policy None is the default
    Delays,       \* ack deadlines a client asks for
    MinAge,       \* age at which the prune services delete a row
    MaxDelete,    \* rows one run of a prune service deletes
    MaxBatch,     \* bound: deliveries in one request
    MaxAttempts,  \* bound: attempts of one delivery
    MaxId,        \* bound: ids drawn from the uuid generator
    MaxNow        \* bound: the last instant of a behaviour

Names == Range(TopicName)
Paths == {"ttl", "messageTTL", "ordered", "retry", "filter", "deadLetter"}

\* A create request: both or neither of dead letter topic and attempt limit.
RequestType ==
    [name : STRING, topic : Names, ttl : Nat \ {0}, messageTTL : Nat \ {0},
     ordered : BOOLEAN, retry : DOMAIN NextDelay, filter : SUBSET Attrs,
     dlTopic : Names \cup {None}, max : Nat]

ASSUME ConstantsAssumption ==
    /\ MinAge \in Nat /\ MaxDelete \in Nat \ {0} /\ MaxBatch \in Nat \ {0}
    /\ MaxAttempts \in Nat /\ MaxId \in Nat /\ MaxNow \in Nat
    /\ Delays \subseteq Nat

ASSUME NextDelayAssumption ==
    /\ None \in DOMAIN NextDelay
    /\ \A p \in DOMAIN NextDelay, n \in 0 .. MaxAttempts :
          NextDelay[p][n] \in Nat

ASSUME RequestAssumption ==
    /\ TopicName \in [TopicIds -> Names]
    /\ SubRequests \subseteq RequestType
    /\ SubRequest \in [SubIds -> SubRequests]
    /\ Masks \subseteq (SUBSET Paths) \ {{}}
    /\ \A r \in SubRequests : r.dlTopic = None <=> r.max = 0

ASSUME NoneAssumption ==
    /\ None \notin Nat /\ None \notin Names /\ None \notin TopicIds
    /\ None \notin Nat \X SubIds

VARIABLES
    now,          \* the clock
    topics,       \* table topics
    subs,         \* table subscriptions
    messages,     \* table messages, by id
    deliveries,   \* table deliveries, by id
    snapshots,    \* table snapshots, by name
    nextId,       \* the uuid generator: ids above it are fresh
    \* Observation only; no action reads these two.
    promised,     \* deliveries not handed out yet |-> what was promised
    snapView      \* what each snapshot's subscription looked like

vars == <<now, topics, subs, messages, deliveries, snapshots, nextId,
          promised, snapView>>

-----------------------------------------------------------------------------
(* The rows *)

\* Instants past the last one cannot be told apart by any comparison with now.
Never == MaxNow + 1
Time == 0 .. Never
After(n) == IF now + n < Never THEN now + n ELSE Never

\* "absent" before the row is created, "pruned" once it is hard deleted.
RowStates == {"absent", "live", "deleted", "pruned"}
InTable == {"live", "deleted"}

DeliveryIds == Nat \X SubIds
SubOf(d) == d[2]

TopicRow == [st : RowStates, deletedAt : Time]
SubRow ==
    [st : RowStates, deletedAt : Time, expiresAt : Time,
     topic : TopicIds \cup {None}, ttl : Nat, messageTTL : Nat,
     ordered : BOOLEAN, retry : DOMAIN NextDelay, filter : SUBSET Attrs,
     dlTopic : TopicIds \cup {None}, max : Nat, delay : Nat]
MessageRow ==
    [topic : TopicIds, key : Keys, attrs : Attrs,
     publishedAt : Time]
DeliveryRow ==
    [msg : Nat, publishedAt : Time, expiresAt : Time, attemptAt : Time,
     attempts : 0 .. MaxAttempts, completedAt : Time \cup {None},
     notBefore : DeliveryIds \cup {None}]
SnapshotRow ==
    [topic : TopicIds, ackedBefore : Time, acked : SUBSET Nat]
ViewRow ==
    [sub : SubIds, open : SUBSET DeliveryIds, done : SUBSET DeliveryIds,
     msgs : SUBSET Nat]

\* From when a new delivery may be attempted and until when it is kept.
PromiseRow == [from : Time, until : Time]

NoTopic == [st |-> "absent", deletedAt |-> 0]
NoSub ==
    [st |-> "absent", deletedAt |-> 0, expiresAt |-> 0, topic |-> None,
     ttl |-> 0, messageTTL |-> 0, ordered |-> FALSE, retry |-> None,
     filter |-> {}, dlTopic |-> None, max |-> 0, delay |-> 0]

TypeOK ==
    /\ now \in 0 .. MaxNow
    /\ nextId \in Nat
    /\ topics \in [TopicIds -> TopicRow]
    /\ subs \in [SubIds -> SubRow]
    /\ DOMAIN messages \subseteq Nat
    /\ messages \in [DOMAIN messages -> MessageRow]
    /\ DOMAIN deliveries \subseteq DeliveryIds
    /\ deliveries \in [DOMAIN deliveries -> DeliveryRow]
    /\ snapshots \in [SnapNames -> SnapshotRow \cup {None}]
    /\ DOMAIN promised \subseteq DeliveryIds
    /\ promised \in [DOMAIN promised -> PromiseRow]
    /\ snapView \in [SnapNames -> ViewRow \cup {None}]

Init ==
    /\ now = 0
    /\ nextId = 0
    /\ topics = [t \in TopicIds |-> NoTopic]
    /\ subs = [s \in SubIds |-> NoSub]
    /\ messages = [m \in {} |-> None]
    /\ deliveries = [d \in {} |-> None]
    /\ snapshots = [n \in SnapNames |-> None]
    /\ promised = [d \in {} |-> None]
    /\ snapView = [n \in SnapNames |-> None]

LiveTopic(t) == topics[t].st = "live"
LiveSub(s) == subs[s].st = "live"
LiveTopicNamed(n) == {t \in TopicIds : LiveTopic(t) /\ TopicName[t] = n}

Open(d) == deliveries[d].completedAt = None
Expired(d) == deliveries[d].expiresAt <= now
Handed(d) == deliveries[d].attempts > 0
TopicOf(d) == messages[deliveries[d].msg].topic
KeyOf(d) == messages[deliveries[d].msg].key
DeliveriesOf(s) == {d \in DOMAIN deliveries : SubOf(d) = s}

\* The deliveries one request names, in the order the code visits them.
Batches(E) ==
    UNION {{q \in [1 .. n -> E] : IsInjective(q)} : n \in 1 .. MaxBatch}

\* A prune query returns MaxDelete rows, or all of them if there are fewer.
PruneSets(E) ==
    {S \in SUBSET E : /\ S # {}
                      /\ \/ Cardinality(S) = MaxDelete
                         \/ S = E /\ Cardinality(S) < MaxDelete}

-----------------------------------------------------------------------------
(* Topics and subscriptions *)

CreateTopic(t) ==
    /\ topics[t].st = "absent"
    /\ LiveTopicNamed(TopicName[t]) = {}
    /\ topics' = [topics EXCEPT ![t] = [st |-> "live", deletedAt |-> 0]]
    /\ UNCHANGED <<now, subs, messages, deliveries, snapshots, nextId,
                   promised, snapView>>

\* The soft delete of the topic and the hard delete of its snapshots.
DeleteTopic(t) ==
    /\ LiveTopic(t)
    /\ topics' = [topics EXCEPT ![t] = [st |-> "deleted", deletedAt |-> now]]
    /\ LET dropped(n) == snapshots[n] # None /\ snapshots[n].topic = t
       IN  /\ snapshots' = [n \in SnapNames |->
                               IF dropped(n) THEN None ELSE snapshots[n]]
           /\ snapView' = [n \in SnapNames |->
                               IF dropped(n) THEN None ELSE snapView[n]]
    /\ UNCHANGED <<now, subs, messages, deliveries, nextId, promised>>

\* dlt is the dead letter topic the request names, None if it names none.
DeadLetterTopicFor(r) ==
    IF r.dlTopic = None THEN {None} ELSE LiveTopicNamed(r.dlTopic)

CreateSubscription(s) ==
    LET r == SubRequest[s] IN
    /\ subs[s].st = "absent"
    /\ ~ \E o \in SubIds : LiveSub(o) /\ SubRequest[o].name = r.name
    /\ \E t \in LiveTopicNamed(r.topic), dlt \in DeadLetterTopicFor(r) :
          subs' = [subs EXCEPT ![s] =
                     [st |-> "live", deletedAt |-> 0,
                      expiresAt |-> After(r.ttl), topic |-> t, ttl |-> r.ttl,
                      messageTTL |-> r.messageTTL, ordered |-> r.ordered,
                      retry |-> r.retry, filter |-> r.filter, dlTopic |-> dlt,
                      max |-> r.max, delay |-> 0]]
    /\ UNCHANGED <<now, topics, messages, deliveries, snapshots, nextId,
                   promised, snapView>>

\* The row after the fields in the update mask, paths, took the values in r.
Updated(row, r, paths, dlt) ==
    [row EXCEPT
       !.ttl        = IF "ttl" \in paths THEN r.ttl ELSE @,
       !.expiresAt  = IF "ttl" \in paths THEN After(r.ttl) ELSE @,
       !.messageTTL = IF "messageTTL" \in paths THEN r.messageTTL ELSE @,
       !.ordered    = IF "ordered" \in paths THEN r.ordered ELSE @,
       !.retry      = IF "retry" \in paths THEN r.retry ELSE @,
       !.filter     = IF "filter" \in paths THEN r.filter ELSE @,
       !.dlTopic    = dlt,
       !.max        = IF "deadLetter" \in paths THEN r.max ELSE @]

UpdateSubscription(s, r, paths) ==
    /\ LiveSub(s)
    /\ \E dlt \in (IF "deadLetter" \in paths THEN DeadLetterTopicFor(r)
                                             ELSE {subs[s].dlTopic}) :
          subs' = [subs EXCEPT ![s] = Updated(subs[s], r, paths, dlt)]
    /\ UNCHANGED <<now, topics, messages, deliveries, snapshots, nextId,
                   promised, snapView>>

\* The delay injector's PUT (n > 0) and DELETE (n = 0).
SetDeliveryDelay(s, n) ==
    /\ LiveSub(s)
    /\ subs' = [subs EXCEPT ![s].delay = n]
    /\ UNCHANGED <<now, topics, messages, deliveries, snapshots, nextId,
                   promised, snapView>>

MarkDeleted(S) ==
    subs' = [s \in SubIds |->
               IF s \in S
               THEN [subs[s] EXCEPT !.st = "deleted", !.deletedAt = now]
               ELSE subs[s]]

DeleteSubscription(s) ==
    /\ LiveSub(s)
    /\ MarkDeleted({s})
    /\ UNCHANGED <<now, topics, messages, deliveries, snapshots, nextId,
                   promised, snapView>>

SubExpired(s) == LiveSub(s) /\ subs[s].expiresAt < now

DeleteExpiredSubscriptions ==
    /\ \E S \in PruneSets({s \in SubIds : SubExpired(s)}) : MarkDeleted(S)
    /\ UNCHANGED <<now, topics, messages, deliveries, snapshots, nextId,
                   promised, snapView>>

-----------------------------------------------------------------------------
(* Fan-out: publishing and dead-lettering *)

\* Live subscriptions of topic t whose filter matches message row m.
Subscribers(t, m) ==
    {s \in SubIds : LiveSub(s) /\ subs[s].topic = t /\ m.attrs \in subs[s].filter}

\* Delivering message src[i] to the subscriptions to[i], for i = 1, 2, ...,
\* creates these rows: the i-th message's deliveries have ids <<nextId + i, s>>.
NewIds(to) ==
    {d \in ((nextId + 1) .. (nextId + MaxBatch)) \X SubIds :
        d[1] - nextId \in DOMAIN to /\ d[2] \in to[d[1] - nextId]}

\* The unexpired deliveries that deliverToSubscription finds for the same
\* subscription and topic when it creates d (msgs is the messages table).
Preceding(msgs, src, to, d) ==
    LET m == msgs[src[d[1] - nextId]] IN
    {e \in DeliveriesOf(d[2]) :
        ~Expired(e) /\ msgs[deliveries[e].msg].topic = m.topic}
      \cup
    {e \in NewIds(to) : e[2] = d[2] /\ e[1] < d[1]
                        /\ msgs[src[e[1] - nextId]].topic = m.topic}

PublishedAt(d) ==
    IF d \in DOMAIN deliveries THEN deliveries[d].publishedAt ELSE now

\* Mutant: ORDER BY published_at ASC.
MostRecent_Oldest(D) ==
    {d \in D : \A e \in D : PublishedAt(d) <= PublishedAt(e)}

\* The rows ORDER BY published_at DESC may put first.
MostRecent(D) == {d \in D : \A e \in D : PublishedAt(e) <= PublishedAt(d)}

\* Whether a new delivery waits for a predecessor.
Chained(s, m) == subs[s].ordered /\ m.key # NoKey

NotBefores(msgs, src, to) ==
    {nb \in [NewIds(to) -> DOMAIN deliveries \cup NewIds(to) \cup {None}] :
        \A d \in NewIds(to) :
           LET prec == Preceding(msgs, src, to, d) IN
           IF Chained(d[2], msgs[src[d[1] - nextId]]) /\ prec # {}
           THEN nb[d] \in MostRecent(prec)
           ELSE nb[d] = None}

\* Mutant: the subscription's delivery delay is forgotten.
NewDelivery_NoDelay(m, s, nb) ==
    [msg |-> m, publishedAt |-> now, expiresAt |-> After(subs[s].messageTTL),
     attemptAt |-> now, attempts |-> 0, completedAt |-> None,
     notBefore |-> nb]

NewDelivery(m, s, nb) ==
    [msg |-> m, publishedAt |-> now, expiresAt |-> After(subs[s].messageTTL),
     attemptAt |-> After(subs[s].delay), attempts |-> 0, completedAt |-> None,
     notBefore |-> nb]

\* The table after the fan-out, the existing rows having become rows.
Fanout(msgs, src, to, rows) ==
    \E nb \in NotBefores(msgs, src, to) :
       deliveries' = [d \in DOMAIN rows \cup NewIds(to) |->
                        IF d \in NewIds(to)
                        THEN NewDelivery(src[d[1] - nextId], d[2], nb[d])
                        ELSE rows[d]]

\* The new deliveries are promised; those handed out need no promise any more.
Promise(to, handed) ==
    promised' = [d \in (DOMAIN promised \ handed) \cup NewIds(to) |->
                   IF d \in NewIds(to)
                   THEN [from |-> After(subs[d[2]].delay),
                         until |-> After(subs[d[2]].messageTTL)]
                   ELSE promised[d]]

\* Time moves on with every publish, so no two messages of the bus carry the
\* same publishedAt.
PublishMessage(t, k, a) ==
    LET id == nextId + 1
        m == [topic |-> t, key |-> k, attrs |-> a, publishedAt |-> now]
        to == [i \in {1} |-> Subscribers(t, m)]
    IN
    /\ LiveTopic(t)
    /\ id <= MaxId /\ now < MaxNow
    /\ messages' = [i \in DOMAIN messages \cup {id} |->
                      IF i = id THEN m ELSE messages[i]]
    /\ Fanout(messages', [i \in {1} |-> id], to, deliveries)
    /\ Promise(to, {})
    /\ nextId' = id
    /\ now' = now + 1
    /\ UNCHANGED <<topics, subs, snapshots, snapView>>

HasFullDeadLetterConfig(s) == subs[s].dlTopic # None /\ subs[s].max > 0

\* Mutants: off by one in either direction.
Exhausted_TooEarly(d) ==
    /\ HasFullDeadLetterConfig(SubOf(d))
    /\ deliveries[d].attempts + 1 >= subs[SubOf(d)].max
Exhausted_TooLate(d) ==
    /\ HasFullDeadLetterConfig(SubOf(d))
    /\ deliveries[d].attempts > subs[SubOf(d)].max

Exhausted(d) ==
    /\ HasFullDeadLetterConfig(SubOf(d))
    /\ deliveries[d].attempts >= subs[SubOf(d)].max

\* Where deadLetterDelivery sends d: nowhere if the topic was deleted.
DeadLetterSubs(d) ==
    LET t == subs[SubOf(d)].dlTopic IN
    IF LiveTopic(t) THEN Subscribers(t, messages[deliveries[d].msg]) ELSE {}

Complete(d) == [deliveries[d] EXCEPT !.completedAt = now]

\* What one transaction does to the deliveries q[1], q[2], ... it selected:
\* the exhausted ones are dead-lettered and completed, and the others, the
\* ones in the set handed to a client too, become the rows upd.
SourcesOf(q) == [i \in DOMAIN q |-> deliveries[q[i]].msg]
DeadLettersTo(q) ==
    [i \in DOMAIN q |-> IF Exhausted(q[i]) THEN DeadLetterSubs(q[i]) ELSE {}]
Processed(q, upd) ==
    [d \in DOMAIN deliveries |->
       IF d \notin Range(q) THEN deliveries[d]
       ELSE IF Exhausted(d) THEN Complete(d) ELSE upd[d]]

Process(q, upd, handed) ==
    LET to == DeadLettersTo(q) IN
    /\ Fanout(messages, SourcesOf(q), to, Processed(q, upd))
    /\ Promise(to, handed)
    /\ nextId' = IF NewIds(to) = {} THEN nextId ELSE nextId + MaxBatch
    /\ nextId' <= MaxId

-----------------------------------------------------------------------------
(* Delivery: pull, acknowledge, nack, modify deadline, dead letter *)

\* Mutant: an expired predecessor still blocks.
Blocked_ByExpired(d) ==
    LET p == deliveries[d].notBefore IN
    subs[SubOf(d)].ordered /\ p # None /\ Open(p)

\* buildDeliveryQuery's join on the predecessor.
Blocked(d) ==
    LET p == deliveries[d].notBefore IN
    subs[SubOf(d)].ordered /\ p # None /\ Open(p) /\ ~Expired(p)

\* Mutant: the join on the predecessor is left out.
Deliverable_Unordered(d) ==
    Open(d) /\ ~Expired(d) /\ deliveries[d].attemptAt <= now

Deliverable(d) ==
    /\ Open(d) /\ ~Expired(d)
    /\ deliveries[d].attemptAt <= now
    /\ ~Blocked(d)

\* NextDelayFor: the retry policy is the one the subscription has now.
BackoffFor(d, n) == NextDelay[subs[SubOf(d)].retry][n]

\* Mutant: the counter goes the wrong way.
Attempt_Down(d) ==
    [deliveries[d] EXCEPT !.attempts = @ - 1,
                          !.attemptAt = After(BackoffFor(d, 1))]

Attempt(d) ==
    [deliveries[d] EXCEPT !.attempts = @ + 1,
                          !.attemptAt =
                             After(BackoffFor(d, deliveries[d].attempts + 1))]

RefreshExpiry(s) == subs' = [subs EXCEPT ![s].expiresAt = After(subs[s].ttl)]

\* GetSubscriptionMessages on entry, and when it gives up with no message.
RefreshSubscription(s) ==
    /\ LiveSub(s)
    /\ RefreshExpiry(s)
    /\ UNCHANGED <<now, topics, messages, deliveries, snapshots, nextId,
                   promised, snapView>>

\* GetSubscriptionMessages when it finds some.  Any part of the due
\* deliveries may be taken: the rest is over the client's count or byte
\* budget or locked by another transaction (SKIP LOCKED).
GetSubscriptionMessages(s) ==
    /\ LiveSub(s)
    /\ \E q \in Batches({d \in DeliveriesOf(s) : Deliverable(d)}) :
          LET out == {d \in Range(q) : ~Exhausted(d)} IN
          /\ \A d \in out : deliveries[d].attempts < MaxAttempts
          /\ Process(q, [d \in out |-> Attempt(d)], out)
    /\ RefreshExpiry(s)
    /\ UNCHANGED <<now, topics, messages, snapshots, snapView>>

\* Clients know the ids of the deliveries that were handed to them, however
\* long ago; the requests check neither the subscription nor the deadline.
KnownOpen == {d \in DOMAIN deliveries : Handed(d) /\ Open(d)}

\* Mutant: the update is not restricted to the requested ids.
AckDeliveries_All ==
    /\ KnownOpen # {}
    /\ deliveries' = [d \in DOMAIN deliveries |->
                        IF Open(d) THEN Complete(d) ELSE deliveries[d]]
    /\ UNCHANGED <<now, topics, subs, messages, snapshots, nextId, promised,
                   snapView>>

AckDeliveries ==
    /\ \E q \in Batches(KnownOpen) :
          deliveries' = [d \in DOMAIN deliveries |->
                           IF d \in Range(q) THEN Complete(d)
                                             ELSE deliveries[d]]
    /\ UNCHANGED <<now, topics, subs, messages, snapshots, nextId, promised,
                   snapView>>

Backoff(d) ==
    [deliveries[d] EXCEPT !.attemptAt =
                             After(BackoffFor(d, deliveries[d].attempts))]

NackDeliveries ==
    /\ \E q \in Batches({d \in KnownOpen : ~Expired(d)}) :
          Process(q, [d \in Range(q) |-> Backoff(d)], {})
    /\ UNCHANGED <<now, topics, subs, messages, snapshots, snapView>>

\* A zero delay is a nack; a positive one only moves the deadline later.
DelayDeliveries(n) ==
    /\ \E q \in Batches({d \in KnownOpen :
                           n = 0 \/ deliveries[d].attemptAt < After(n)}) :
          deliveries' = [d \in DOMAIN deliveries |->
                           IF d \in Range(q)
                           THEN [deliveries[d] EXCEPT !.attemptAt = After(n)]
                           ELSE deliveries[d]]
    /\ UNCHANGED <<now, topics, subs, messages, snapshots, nextId, promised,
                   snapView>>

\* The background dead-letter service's query; it ignores ordering.
DeadLetterDue(d) ==
    /\ LiveSub(SubOf(d)) /\ Exhausted(d)
    /\ Open(d) /\ ~Expired(d)
    /\ deliveries[d].attemptAt <= now

DeadLetterDeliveries ==
    /\ LET due == {d \in DOMAIN deliveries : DeadLetterDue(d)} IN
       \E q \in Batches(due) :
          /\ Range(q) = due \/ DOMAIN q = 1 .. MaxBatch
          /\ Process(q, deliveries, {})
    /\ UNCHANGED <<now, topics, subs, messages, snapshots, snapView>>

-----------------------------------------------------------------------------
(* Snapshots and seeking *)

Retained(d) == deliveries[d].expiresAt >= now

\* The table after a seek on s acknowledges the set ack and reopens reopen.
\* What nobody received is promised no more, or promised anew.
Sought(s, ack, reopen) ==
    /\ deliveries' = [d \in DOMAIN deliveries |->
          IF d \in ack THEN Complete(d)
          ELSE IF d \in reopen
               THEN [deliveries[d] EXCEPT
                       !.completedAt = None, !.attemptAt = now,
                       !.expiresAt = After(subs[s].messageTTL)]
               ELSE deliveries[d]]
    /\ promised' = [d \in DOMAIN promised |->
          [promised[d] EXCEPT
             !.until = IF d \in ack THEN 0
                       ELSE IF d \in reopen THEN After(subs[s].messageTTL)
                       ELSE @]]

SeekSubscriptionToTime(s, time) ==
    LET mine == {d \in DeliveriesOf(s) : Retained(d)} IN
    /\ LiveSub(s)
    /\ Sought(s,
         {d \in mine : deliveries[d].publishedAt <= time /\ Open(d)},
         {d \in mine : deliveries[d].publishedAt > time /\ ~Open(d)})
    /\ UNCHANGED <<now, topics, subs, messages, snapshots, nextId, snapView>>

Unacked(s) == {d \in DeliveriesOf(s) : Open(d) /\ ~Expired(d)}

\* Mutant: the newest one instead.
OldestUnacked_Newest(s) ==
    {d \in Unacked(s) : \A e \in Unacked(s) :
        deliveries[d].publishedAt >= deliveries[e].publishedAt}

OldestUnacked(s) ==
    {d \in Unacked(s) : \A e \in Unacked(s) :
        deliveries[d].publishedAt <= deliveries[e].publishedAt}

\* The messages of the topic since the instant t that have a completed
\* delivery in s (the condition on the joined subscription id drops the
\* messages without a delivery).
AckedSince(s, t) ==
    {m \in DOMAIN messages :
        /\ messages[m].topic = subs[s].topic
        /\ messages[m].publishedAt >= t
        /\ \E d \in DeliveriesOf(s) : deliveries[d].msg = m /\ ~Open(d)}

CreateSnapshot(n, s) ==
    /\ snapshots[n] = None
    /\ LiveSub(s)
    /\ \/ /\ Unacked(s) = {}
          /\ snapshots' = [snapshots EXCEPT ![n] =
               [topic |-> subs[s].topic, ackedBefore |-> now, acked |-> {}]]
       \/ \E d \in OldestUnacked(s) :
             LET t == deliveries[d].publishedAt IN
             snapshots' = [snapshots EXCEPT ![n] =
               [topic |-> subs[s].topic, ackedBefore |-> t,
                acked |-> AckedSince(s, t)]]
    /\ snapView' = [snapView EXCEPT ![n] =
         [sub |-> s, open |-> Unacked(s), msgs |-> DOMAIN messages,
          done |-> {d \in DeliveriesOf(s) : ~Open(d)}]]
    /\ UNCHANGED <<now, topics, subs, messages, deliveries, nextId, promised>>

DeleteSnapshot(n) ==
    /\ snapshots[n] # None
    /\ snapshots' = [snapshots EXCEPT ![n] = None]
    /\ snapView' = [snapView EXCEPT ![n] = None]
    /\ UNCHANGED <<now, topics, subs, messages, deliveries, nextId, promised>>

\* The reopening does not look at the delivery's expiry.
SeekSubscriptionToSnapshot(s, n) ==
    LET snap == snapshots[n]
        mine == DeliveriesOf(s)
        early(d) == deliveries[d].publishedAt < snap.ackedBefore
        listed(d) == deliveries[d].msg \in snap.acked
    IN
    /\ LiveSub(s) /\ snapshots[n] # None
    /\ Sought(s,
         {d \in mine : Retained(d) /\ Open(d) /\ (early(d) \/ listed(d))},
         {d \in mine : ~early(d) /\ ~listed(d) /\ ~Open(d)})
    /\ UNCHANGED <<now, topics, subs, messages, snapshots, nextId, snapView>>

-----------------------------------------------------------------------------
(* The prune services *)

Old(at) == at <= now - MinAge

\* Deleting deliveries clears the references to them (ON DELETE SET NULL).
DropDeliveries(S) ==
    deliveries' = [d \in DOMAIN deliveries \ S |->
       [deliveries[d] EXCEPT !.notBefore = IF @ \in S THEN None ELSE @]]

\* Mutant: ages by publication, completed or not.
CompletedLongAgo_Published(d) == Old(deliveries[d].publishedAt)

CompletedLongAgo(d) == ~Open(d) /\ Old(deliveries[d].completedAt)

PruneCompletedDeliveries ==
    /\ \E S \in PruneSets({d \in DOMAIN deliveries : CompletedLongAgo(d)}) :
          DropDeliveries(S)
    /\ UNCHANGED <<now, topics, subs, messages, snapshots, nextId, promised,
                   snapView>>

\* Mutant: compares the wrong column.
PastExpiry_Published(d) == deliveries[d].publishedAt < now

PastExpiry(d) == deliveries[d].expiresAt < now

PruneExpiredDeliveries ==
    /\ \E S \in PruneSets({d \in DOMAIN deliveries : PastExpiry(d)}) :
          DropDeliveries(S)
    /\ UNCHANGED <<now, topics, subs, messages, snapshots, nextId, promised,
                   snapView>>

DeletedLongAgo(row) == row.st = "deleted" /\ Old(row.deletedAt)

PruneDeletedSubscriptionDeliveries ==
    /\ \E S \in PruneSets({d \in DOMAIN deliveries :
                             DeletedLongAgo(subs[SubOf(d)])}) :
          DropDeliveries(S)
    /\ UNCHANGED <<now, topics, subs, messages, snapshots, nextId, promised,
                   snapView>>

HasDeliveries(m) == \E d \in DOMAIN deliveries : deliveries[d].msg = m

\* Mutant: a message's remaining deliveries are not looked at.
MessagePrunable_ByAge(m) == Old(messages[m].publishedAt)

MessagePrunable(m) == Old(messages[m].publishedAt) /\ ~HasDeliveries(m)

PruneCompletedMessages ==
    /\ \E S \in PruneSets({m \in DOMAIN messages : MessagePrunable(m)}) :
          messages' = [m \in DOMAIN messages \ S |-> messages[m]]
    /\ UNCHANGED <<now, topics, subs, deliveries, snapshots, nextId, promised,
                   snapView>>

SubPrunable(s) == DeletedLongAgo(subs[s]) /\ DeliveriesOf(s) = {}

PruneDeletedSubscriptions ==
    /\ \E S \in PruneSets({s \in SubIds : SubPrunable(s)}) :
          subs' = [s \in SubIds |->
                     IF s \in S THEN [NoSub EXCEPT !.st = "pruned"]
                                ELSE subs[s]]
    /\ UNCHANGED <<now, topics, messages, deliveries, snapshots, nextId,
                   promised, snapView>>

HasSubscriptions(t) ==
    \E s \in SubIds : subs[s].st \in InTable /\ subs[s].topic = t

\* Mutant: topics that still have subscriptions are selected too.
TopicPrunable_ByAge(t) == DeletedLongAgo(topics[t])

TopicPrunable(t) == DeletedLongAgo(topics[t]) /\ ~HasSubscriptions(t)

\* Rows whose foreign key makes the database refuse the delete of topic t.
TopicReferenced(t) ==
    \/ HasSubscriptions(t)
    \/ \E m \in DOMAIN messages : messages[m].topic = t
    \/ \E n \in SnapNames : snapshots[n] # None /\ snapshots[n].topic = t

\* One DELETE for the whole set: a single referenced topic aborts it all.
PruneDeletedTopics ==
    /\ \E S \in PruneSets({t \in TopicIds : TopicPrunable(t)}) :
          /\ \A t \in S : ~TopicReferenced(t)
          /\ topics' = [t \in TopicIds |->
                          IF t \in S THEN [NoTopic EXCEPT !.st = "pruned"]
                                     ELSE topics[t]]
          /\ subs' = [s \in SubIds |->
                        [subs[s] EXCEPT !.dlTopic =
                                           IF @ \in S THEN None ELSE @]]
    /\ UNCHANGED <<now, messages, deliveries, snapshots, nextId, promised,
                   snapView>>

-----------------------------------------------------------------------------
Tick ==
    /\ now < MaxNow
    /\ now' = now + 1
    /\ UNCHANGED <<topics, subs, messages, deliveries, snapshots, nextId,
                   promised, snapView>>

Publish == \E t \in TopicIds, k \in Keys, a \in Attrs :
              PublishMessage(t, k, a)

Receive == \E s \in SubIds : GetSubscriptionMessages(s)

Respond == AckDeliveries \/ NackDeliveries \/ \E n \in Delays : DelayDeliveries(n)

Create == \/ \E t \in TopicIds : CreateTopic(t)
          \/ \E s \in SubIds : CreateSubscription(s)

Delete == \/ \E t \in TopicIds : DeleteTopic(t)
          \/ \E s \in SubIds : DeleteSubscription(s)

Expire == \/ \E s \in SubIds : RefreshSubscription(s)
          \/ DeleteExpiredSubscriptions

Reconfigure ==
    \E s \in SubIds :
       \/ \E r \in SubRequests, paths \in Masks :
             UpdateSubscription(s, r, paths)
       \/ \E n \in Delays : SetDeliveryDelay(s, n)

Snapshots == \/ \E n \in SnapNames, s \in SubIds : CreateSnapshot(n, s)
             \/ \E n \in SnapNames : DeleteSnapshot(n)

Seek == \E s \in SubIds :
           \/ \E time \in 0 .. MaxNow : SeekSubscriptionToTime(s, time)
           \/ \E n \in SnapNames : SeekSubscriptionToSnapshot(s, n)

PruneDeliveries == \/ PruneCompletedDeliveries
                   \/ PruneExpiredDeliveries
                   \/ PruneDeletedSubscriptionDeliveries

PruneRows == \/ PruneCompletedMessages
             \/ PruneDeletedSubscriptions
             \/ PruneDeletedTopics

Prune == PruneDeliveries \/ PruneRows

Next == \/ Tick \/ Publish \/ Receive \/ Respond \/ DeadLetterDeliveries
        \/ Create \/ Delete \/ Expire \/ Reconfigure
        \/ Snapshots \/ Seek \/ Prune

Spec == Init /\ [][Next]_vars

\* The clock runs, and each prune service runs again and again on its ticker
\* (services/prune-common.go), whatever happened to its earlier runs.
PruneFairness ==
    /\ WF_vars(Tick)
    /\ WF_vars(PruneCompletedDeliveries)
    /\ WF_vars(PruneExpiredDeliveries)
    /\ WF_vars(PruneDeletedSubscriptionDeliveries)
    /\ WF_vars(PruneCompletedMessages)
    /\ WF_vars(PruneDeletedSubscriptions)
    /\ WF_vars(PruneDeletedTopics)

-----------------------------------------------------------------------------
(* Properties *)

\* No row refers to a row that is gone, although the prune services delete
\* from the five tables independently, in any order, and dead-lettering
\* lets a delivery outlive every subscription of its message's topic.
ReferencesResolve ==
    /\ \A d \in DOMAIN deliveries :
          /\ deliveries[d].msg \in DOMAIN messages
          /\ subs[SubOf(d)].st \in InTable
          /\ deliveries[d].notBefore \in DOMAIN deliveries \cup {None}
    /\ \A m \in DOMAIN messages : topics[messages[m].topic].st \in InTable
    /\ \A s \in SubIds : subs[s].st \in InTable =>
          /\ subs[s].topic # None /\ topics[subs[s].topic].st \in InTable
          /\ subs[s].dlTopic # None => topics[subs[s].dlTopic].st \in InTable
    /\ \A n \in SnapNames :
          snapshots[n] # None => topics[snapshots[n].topic].st \in InTable

\* At least once: from the moment a publish (or a dead-lettering) creates a
\* delivery until it is handed to a client, acknowledged by a seek or past
\* its message TTL, a live subscription still has it, open, with its message:
\* no prune service, nack or dead-letter run may take it away.  The same holds
\* again of a delivery nobody received that a later seek reopens.
PromiseKept ==
    \A d \in DOMAIN promised :
       LiveSub(SubOf(d)) /\ promised[d].until > now =>
          /\ d \in DOMAIN deliveries
          /\ Open(d) /\ ~Handed(d)
          /\ deliveries[d].msg \in DOMAIN messages

\* The step hands d to a client.
HandedNow(d) ==
    d \in DOMAIN deliveries' /\ deliveries'[d].attempts > deliveries[d].attempts

\* Without seeks, the first attempt of a delivery never comes before the
\* delivery delay its subscription had when it was created, whatever is pulled,
\* nacked, dead-lettered or reconfigured in between.  A seek is the exception:
\* it makes due at once what it reopens, also a delivery that another seek
\* completed before its delay was over and before anyone received it.
DelayHonoured ==
    [][\A d \in DOMAIN deliveries : ~Handed(d) /\ HandedNow(d) =>
          d \in DOMAIN promised /\ now >= promised[d].from]_vars

\* Without seeks, nothing is completed that no client ever received:
\* acknowledging needs an id, dead-lettering a spent attempt.
CompletedWasHanded ==
    \A d \in DOMAIN deliveries : ~Open(d) => Handed(d)

\* Every earlier delivery of the same topic and ordering key is completed or
\* expired.
InOrder(d) ==
    \A e \in DeliveriesOf(SubOf(d)) :
       /\ TopicOf(e) = TopicOf(d) /\ KeyOf(e) = KeyOf(d)
       /\ deliveries[e].publishedAt < deliveries[d].publishedAt
       => ~Open(e) \/ Expired(e)

\* In an ordered subscription a delivery is handed out only when every
\* earlier one of the same topic and ordering key is completed or expired.
OrderRespected ==
    [][\A d \in DOMAIN deliveries :
          HandedNow(d) /\ subs[SubOf(d)].ordered /\ KeyOf(d) # NoKey
             => InOrder(d)]_vars

\* Ordering never wedges a subscription: if it has outstanding deliveries, at
\* least one of them waits for nobody, however notBefore references were
\* made, cleared by pruning or pointed at deliveries that a seek reopened.
OrderingNeverWedges ==
    \A s \in SubIds :
       Unacked(s) # {} => \E d \in Unacked(s) : ~Blocked(d)

\* What the dead-letter service selects is never waiting for a predecessor,
\* which its query does not check.
DeadLetterNeverBlocked ==
    \A d \in DOMAIN deliveries : DeadLetterDue(d) => ~Blocked(d)

\* A subscription with a dead letter policy is never handed a message more
\* often than the policy allows, whichever of the three paths (pull, nack,
\* background service) meets the exhausted delivery.
AttemptsWithinLimit ==
    \A d \in DOMAIN deliveries :
       HasFullDeadLetterConfig(SubOf(d)) =>
          deliveries[d].attempts <= subs[SubOf(d)].max

\* Seeking a subscription to a snapshot of itself gives every retained
\* delivery the state it had when the snapshot was made, and leaves what was
\* published since unacknowledged.
SeekRestoresSnapshot ==
    [][\A s \in SubIds, n \in SnapNames :
          SeekSubscriptionToSnapshot(s, n) /\ snapView[n].sub = s =>
             \A d \in DeliveriesOf(s) : Retained(d) =>
                /\ d \in snapView[n].open => deliveries'[d].completedAt = None
                /\ d \in snapView[n].done => deliveries'[d].completedAt # None
                /\ deliveries[d].msg \notin snapView[n].msgs
                      => deliveries'[d].completedAt = None]_vars

\* What the rows say of a delivery, in the terms of AtLeastOnce.
StateOf(d) ==
    IF d \notin DOMAIN deliveries
    THEN IF d[1] <= nextId THEN "gone" ELSE "none"
    ELSE IF ~Open(d) THEN "done"
    ELSE IF Expired(d) \/ ~LiveSub(SubOf(d)) THEN "lapsed"
    ELSE IF Handed(d) THEN "handed" ELSE "queued"

Ids == (1 .. MaxId) \X SubIds

Promises == INSTANCE AtLeastOnce WITH
                Items <- Ids, state <- [d \in Ids |-> StateOf(d)]

\* Only a prune service forgets, and only a seek seeks.
PromiseMoves ==
    \/ Promises!Work
    \/ PruneDeliveries /\ Promises!Forget
    \/ Seek /\ Promises!Seek

\* The tables implement the promise of AtLeastOnce: whatever pulls, answers,
\* dead-letterings, expiries, deletions, seeks and prune services do in
\* between, a delivery takes no step but the ones listed there, and takes the
\* steps that take an acknowledgement back, or make one nobody gave, only in a
\* seek.
DeliversAtLeastOnce == Promises!StateSpec /\ [][PromiseMoves]_vars

\* A soft-deleted topic is pruned once no row depends on it any more.
Unneeded(t) ==
    /\ topics[t].st = "deleted" /\ topics[t].deletedAt + MinAge <= MaxNow
    /\ ~TopicReferenced(t)

UnneededTopicPruned ==
    \A t \in TopicIds : Unneeded(t) ~> topics[t].st = "pruned"

=============================================================================
