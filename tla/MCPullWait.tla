----------------------------- MODULE MCPullWait -----------------------------
(***************************************************************************)
(* Small instances of the pull loop.                                       *)
(***************************************************************************)
EXTENDS MCMessageBus, PullWait

\* A backoff that outlasts the retention of what it backs off.
LongBackoff == [p \in {None} |-> [n \in Nat |-> 2]]

BriefDeadLettering == [DeadLettering EXCEPT !.messageTTL = 2]
BriefSub == [s \in SubIds |-> IF s = s1 THEN BriefDeadLettering ELSE OnDead]
\* The same without ordering and without a dead letter policy.
BriefLoosened ==
    [BriefDeadLettering EXCEPT !.ordered = FALSE, !.dlTopic = None, !.max = 0]
BriefRequests == {BriefDeadLettering, BriefLoosened, OnDead}

\* An ordered subscription that expires when it is not polled.
FadingOrdered == [Fading EXCEPT !.ordered = TRUE]
FadingOrderedSub == [s \in SubIds |-> FadingOrdered]
\* Backoffs of its own, longer than the default.
SlowBackoff == [p \in {None, "slow"} |-> [n \in Nat |-> IF p = None THEN 1 ELSE 2]]
FadingOrderedRequests == {FadingOrdered, [FadingOrdered EXCEPT !.retry = "slow"]}

\* Pulls, responses, dead letters, pruning and reconfiguration, with a delay
\* that is injected on the dead letter subscription before the first publish.
ResponsesNext ==
    \/ WaitDeliveries
    \/ \E n \in Delays : DOMAIN messages = {} /\ WaitDelayInjected(s2, n)
ResponsesSpec == WaitInit /\ [][ResponsesNext]_waitVars

\* Seeks, retry policies and expiring subscriptions of a topic that stays.
SeeksNext ==
    \/ WaitTime \/ PullLoop \/ WaitPublish \/ WaitReceive \/ WaitAck
    \/ WaitSeek \/ WaitExpire \/ WaitSnapshots
    \/ WaitPruneExpired \/ WaitPruneCompleted \/ WaitPruneRows
    \/ \E s \in SubIds : WaitModify(s)
    \/ \E t \in TopicIds : CreateTopic(t) /\ NotifyNobody
SeeksSpec == WaitInit /\ [][SeeksNext]_waitVars
=============================================================================
