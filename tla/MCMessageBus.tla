---------------------------- MODULE MCMessageBus ----------------------------
(***************************************************************************)
(* Small instances of the message bus.  Each scenario keeps the operations *)
(* that its question is about; a configuration picks a scenario and the    *)
(* sets and bounds that go with it.                                        *)
(***************************************************************************)
EXTENDS MessageBus

CONSTANTS t1, t2, s1, s2

\* The default backoff only.
MCNextDelay == [p \in {None} |-> [n \in Nat |-> 1]]

Request(n, t, ord, dl, limit) ==
    [name |-> n, topic |-> t, ttl |-> 20, messageTTL |-> 3, ordered |-> ord,
     retry |-> None, filter |-> Attrs, dlTopic |-> dl, max |-> limit]

\* Two topics: "main", and "dead" for dead letters.
TwoNames == [t \in TopicIds |-> IF t = t1 THEN "main" ELSE "dead"]
\* Two incarnations of one topic.
OneName == [t \in TopicIds |-> "main"]

Plain == Request("sub1", "main", FALSE, None, 0)
\* Kept long enough for three publishes and a pull to happen before expiry.
Ordered == [Request("sub1", "main", TRUE, None, 0) EXCEPT !.messageTTL = 4]
\* Kept long enough for two publishes, a pull and its backoff.
DeadLettering ==
    [Request("sub1", "main", TRUE, "dead", 1) EXCEPT !.messageTTL = 4]
OnDead == Request("sub2", "dead", FALSE, None, 0)
\* Expires when it is not polled, and keeps its messages for longer.
Fading == [Plain EXCEPT !.ttl = 1, !.messageTTL = 4]

PlainSub == [s \in SubIds |-> Plain]
OrderedSub == [s \in SubIds |-> Ordered]
DeadLetterSub == [s \in SubIds |-> IF s = s1 THEN DeadLettering ELSE OnDead]
FadingSub == [s \in SubIds |-> Fading]

OnlyPlain == {Plain}
OnlyOrdered == {Ordered}
DeadLetterRequests == {DeadLettering, OnDead}
OnlyFading == {Fading}

-----------------------------------------------------------------------------
\* Publishing, pulling and responding on one ordered subscription.
OrderNext ==
    Tick \/ Publish \/ Receive \/ Respond \/ Create \/ PruneDeliveries
OrderSpec == Init /\ [][OrderNext]_vars

\* The same with deliveries that run out of attempts.
DeliveryNext ==
    \/ Tick \/ Publish \/ Receive \/ Respond \/ DeadLetterDeliveries
    \/ PruneDeliveries
    \/ Create \/ \E t \in TopicIds : DeleteTopic(t)
DeliverySpec == Init /\ [][DeliveryNext]_vars

\* Everything that creates, expires, deletes and prunes rows.
LifecycleNext ==
    \/ Tick \/ Publish \/ Receive \/ AckDeliveries
    \/ Create \/ Delete \/ Expire \/ Prune
LifecycleSpec == Init /\ [][LifecycleNext]_vars /\ PruneFairness

\* The end of topics: their owners delete them, the services prune them.
TopicsAndSnapshotsNext ==
    Tick \/ Publish \/ Create \/ Delete \/ Prune \/ Snapshots
TopicsAndSnapshotsSpec ==
    Init /\ [][TopicsAndSnapshotsNext]_vars /\ PruneFairness
=============================================================================
