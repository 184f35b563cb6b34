------------------------------ MODULE PullWait ------------------------------
(***************************************************************************)
(* The pull loop of GetSubscriptionMessages on top of the message bus: a   *)
(* pull that finds nothing sleeps until its timer, computed from the rows  *)
(* it saw, or until some transaction notifies its subscription when it     *)
(* commits.  Which transactions notify which subscriptions is spread over  *)
(* src/actions; this module puts it next to what they change.              *)
(*                                                                         *)
(* One sleeping pull per subscription is enough: sleepers do not affect    *)
(* each other.  Notifications are delivered at once here; module Wakeups   *)
(* is about their way through hooks, queues and connections.               *)
(***************************************************************************)
EXTENDS MessageBus

VARIABLE sleeping   \* until when the pull of a subscription sleeps, or None

waitVars == <<now, topics, subs, messages, deliveries, snapshots, nextId,
              promised, snapView, sleeping>>

WaitTypeOK == TypeOK /\ sleeping \in [SubIds -> Time \cup {None}]

WaitInit == Init /\ sleeping = [s \in SubIds |-> None]

-----------------------------------------------------------------------------
(* The timer *)

\* The deliveries that ORDER BY attempt_at may put first among those that
\* buildDeliveryQuery selects, due or not.
SoonestAttempts(s) ==
    LET E == {d \in Unacked(s) : ~Blocked(d)}
    IN  {d \in E : \A e \in E :
            deliveries[d].attemptAt <= deliveries[e].attemptAt}

\* Until when the pull sleeps; without a row, for as long as it may.  Both
\* queries order by attempt_at.
NextAttempt(s) ==
    IF SoonestAttempts(s) = {}
    THEN {Never}
    ELSE {IF deliveries[e].expiresAt < deliveries[d].attemptAt
          THEN deliveries[e].expiresAt ELSE deliveries[d].attemptAt :
             d \in SoonestAttempts(s), e \in SoonestAttempts(s)}

\* The query found nothing.
Sleep(s) ==
    /\ LiveSub(s) /\ sleeping[s] = None
    /\ \A d \in DeliveriesOf(s) : ~Deliverable(d)
    /\ \E t \in NextAttempt(s) : sleeping' = [sleeping EXCEPT ![s] = t]
    /\ UNCHANGED vars

\* The timer fires, and the loop queries again.
TimerFires(s) ==
    /\ sleeping[s] # None /\ sleeping[s] <= now
    /\ sleeping' = [sleeping EXCEPT ![s] = None]
    /\ UNCHANGED vars

\* The maximal wait is over: the call returns empty-handed.
GiveUp(s) ==
    /\ sleeping[s] # None
    /\ RefreshSubscription(s)
    /\ sleeping' = [sleeping EXCEPT ![s] = None]

-----------------------------------------------------------------------------
(* Who is notified by a committing transaction *)

Notify(S) == sleeping' = [s \in SubIds |-> IF s \in S THEN None ELSE sleeping[s]]
NotifyNobody == UNCHANGED sleeping

\* Mutant: dead letters are taken for the business of those who lost them.
NotifyCreated_ByPublish ==
    {SubOf(d) : d \in {e \in DOMAIN deliveries' \ DOMAIN deliveries :
                         messages'[deliveries'[e].msg].topic = subs[SubOf(e)].topic}}

\* deliverToSubscription: the subscriptions that got a delivery.
NotifyCreated ==
    {SubOf(d) : d \in DOMAIN deliveries' \ DOMAIN deliveries}

\* AckDeliveries and deadLetterDelivery: those of the completed deliveries.
NotifyCompleted ==
    {SubOf(d) : d \in {e \in DOMAIN deliveries :
                         Open(e) /\ deliveries'[e].completedAt # None}}

\* Mutant: only acknowledging is announced.
NotifySought_Acked == NotifyCompleted

\* The seeks: the subscription, if it acknowledged or reopened anything.
NotifySought ==
    {SubOf(d) : d \in {e \in DOMAIN deliveries :
                         deliveries'[e].completedAt # deliveries[e].completedAt}}

\* DelayDeliveries: only a zero delay is announced.
NotifyDelayed(n) ==
    IF n = 0 THEN {SubOf(d) : d \in {e \in DOMAIN deliveries :
                                       deliveries'[e] # deliveries[e]}}
             ELSE {}

\* PruneExpiredDeliveries: the ordered ones among those that lost a row.
NotifyExpired ==
    {s \in SubIds : /\ subs[s].ordered
                    /\ DeliveriesOf(s) \ DOMAIN deliveries' # {}}

-----------------------------------------------------------------------------
(* Every transaction of the bus with what it announces *)

WaitPublish == Publish /\ Notify(NotifyCreated)
WaitReceive == Receive /\ Notify(NotifyCreated \cup NotifyCompleted)
WaitAck == AckDeliveries /\ Notify(NotifyCompleted)
WaitDelay(n) == DelayDeliveries(n) /\ Notify(NotifyDelayed(n))
WaitDeadLetter ==
    DeadLetterDeliveries /\ Notify(NotifyCreated \cup NotifyCompleted)

\* Nothing is announced for a delivery that is only put back.
WaitNack == NackDeliveries /\ Notify(NotifyCreated \cup NotifyCompleted)

WaitSeek == Seek /\ Notify(NotifySought)

\* NotifyModifySubscription.
WaitModify(s) ==
    /\ \/ CreateSubscription(s)
       \/ \E r \in SubRequests, paths \in Masks : UpdateSubscription(s, r, paths)
       \/ DeleteSubscription(s)
    /\ Notify({s})
WaitExpire ==
    /\ DeleteExpiredSubscriptions
    /\ Notify({s \in SubIds : LiveSub(s) /\ subs'[s].st # "live"})

WaitPruneExpired == PruneExpiredDeliveries /\ Notify(NotifyExpired)

\* The rest notifies nobody.
WaitTime == Tick /\ NotifyNobody
WaitTopic(t) == (CreateTopic(t) \/ DeleteTopic(t)) /\ NotifyNobody
WaitDelayInjected(s, n) == SetDeliveryDelay(s, n) /\ NotifyNobody
WaitPruneCompleted == PruneCompletedDeliveries /\ NotifyNobody
WaitSnapshots == Snapshots /\ NotifyNobody
WaitPruneRows ==
    (PruneDeletedSubscriptionDeliveries \/ PruneRows) /\ NotifyNobody

PullLoop == \E s \in SubIds : Sleep(s) \/ TimerFires(s) \/ GiveUp(s)

\* Time, deliveries and what clients and services do to them.
WaitDeliveries ==
    \/ WaitTime \/ PullLoop \/ WaitPublish \/ WaitReceive \/ WaitAck
    \/ \E n \in Delays : WaitDelay(n)
    \/ WaitNack \/ WaitDeadLetter \/ WaitPruneExpired \/ WaitPruneCompleted
    \/ \E s \in SubIds : WaitModify(s)
    \/ \E t \in TopicIds : WaitTopic(t)

WaitNext ==
    \/ WaitDeliveries \/ WaitSeek \/ WaitExpire \/ WaitSnapshots
    \/ \E s \in SubIds, n \in Delays : WaitDelayInjected(s, n)
    \/ WaitPruneRows

WaitSpec == WaitInit /\ [][WaitNext]_waitVars

-----------------------------------------------------------------------------
(* Properties *)

\* When d becomes deliverable if nobody does anything but wait: when its
\* attempt is due and its predecessor, if it has to wait for one, is expired.
DueAt(d) ==
    LET own == deliveries[d].attemptAt
        p == deliveries[d].notBefore
    IN  IF Blocked(d) /\ deliveries[p].expiresAt > own
        THEN deliveries[p].expiresAt ELSE own

\* A sleeping pull does not oversleep: it wakes up no later than a delivery
\* of its subscription becomes deliverable, whether that was foreseeable when
\* it fell asleep (backoffs, expiring predecessors) or was brought about by a
\* transaction committed since, which must then have notified it.
NeverOversleeps ==
    \A s \in SubIds : LiveSub(s) /\ sleeping[s] # None /\ sleeping[s] > now =>
       \A d \in Unacked(s) :
          DueAt(d) < deliveries[d].expiresAt => sleeping[s] <= DueAt(d)
=============================================================================
