----------------------------- MODULE WaitProofs -----------------------------
(***************************************************************************)
(* No pull oversleeps.  While a transaction leaves a sleeper alone, the    *)
(* moment at which something becomes deliverable to it does not come       *)
(* nearer (Quiet): what would bring it nearer, a new delivery, the end of  *)
(* a predecessor or a zero delay, is announced.  When a pull falls asleep  *)
(* its timer covers that moment: nextAttempt looks at the expiry of one    *)
(* delivery only, but in a queue that is worked off from the front         *)
(* (QueueInv) nothing before the others expires later.                     *)
(***************************************************************************)
EXTENDS PullWait, QueueProofs

-----------------------------------------------------------------------------
(* The bus below the pull loop *)

\* Each transaction with its announcements is the transaction.
LEMMA WaitStepsBus == ASSUME [WaitNext]_waitVars PROVE [Next]_vars
<1>1. CASE UNCHANGED waitVars
  BY <1>1 DEF waitVars, vars
<1>2. CASE PullLoop
  BY <1>2, Zenon DEF PullLoop, Sleep, TimerFires, GiveUp, Next, Expire
<1>3. CASE WaitTime \/ WaitPublish \/ WaitReceive \/ WaitDeadLetter \/ WaitSeek
  BY <1>3 DEF WaitTime, WaitPublish, WaitReceive, WaitDeadLetter, WaitSeek, Next
<1>4. CASE WaitAck \/ WaitNack \/ \E n \in Delays : WaitDelay(n)
  BY <1>4 DEF WaitAck, WaitNack, WaitDelay, Next, Respond
<1>5. CASE \/ \E s \in SubIds : WaitModify(s)
           \/ \E s \in SubIds, n \in Delays : WaitDelayInjected(s, n)
  BY <1>5 DEF WaitModify, WaitDelayInjected, Next, Create, Delete, Reconfigure
<1>6. CASE WaitExpire \/ WaitSnapshots \/ \E t \in TopicIds : WaitTopic(t)
  BY <1>6 DEF WaitExpire, WaitSnapshots, WaitTopic, Next, Expire, Create, Delete
<1>7. CASE WaitPruneExpired \/ WaitPruneCompleted \/ WaitPruneRows
  BY <1>7 DEF WaitPruneExpired, WaitPruneCompleted, WaitPruneRows, Next, Prune,
     PruneDeliveries
<1> QED BY <1>1, <1>2, <1>3, <1>4, <1>5, <1>6, <1>7 DEF WaitNext, WaitDeliveries

LEMMA WaitImpliesBus == WaitSpec => Spec
<1>1. WaitInit => Init
  BY DEF WaitInit
<1> QED BY <1>1, WaitStepsBus, PTL DEF WaitSpec, Spec

\* The pull loop itself, and what everyone else does to the sleepers.
LEMMA SleepersStep ==
    ASSUME WaitNext
    PROVE  \/ \E s \in SubIds :
                 /\ Sleep(s) \/ TimerFires(s) \/ GiveUp(s)
                 /\ \E t \in NextAttempt(s) \cup {None} :
                       sleeping' = [sleeping EXCEPT ![s] = t]
           \/ \E S : Notify(S)
           \/ UNCHANGED sleeping
BY Zenon DEF WaitNext, WaitDeliveries, PullLoop, Sleep, TimerFires, GiveUp,
   WaitTime, WaitPublish, WaitReceive, WaitAck, WaitDelay, WaitNack,
   WaitDeadLetter, WaitPruneExpired, WaitPruneCompleted, WaitModify, WaitTopic,
   WaitSeek, WaitExpire, WaitSnapshots, WaitDelayInjected, WaitPruneRows,
   NotifyNobody

SleepingType == sleeping \in [SubIds -> Time \cup {None}]

LEMMA TimerType ==
    ASSUME TypeOK, NEW s \in SubIds, NEW t \in NextAttempt(s)
    PROVE  t \in Time
<1>1. Never \in Time
  BY ConstantsAssumption DEF Time, Never
<1>2. \A d \in SoonestAttempts(s) :
         deliveries[d].attemptAt \in Time /\ deliveries[d].expiresAt \in Time
  BY DEF SoonestAttempts, Unacked, DeliveriesOf, TypeOK, DeliveryRow
<1> QED BY <1>1, <1>2 DEF NextAttempt

LEMMA SleepingTypeStep ==
    ASSUME TypeOK, SleepingType, [WaitNext]_waitVars
    PROVE  SleepingType'
<1>1. CASE UNCHANGED sleeping
  BY <1>1 DEF SleepingType, Time, Never
<1>2. ASSUME NEW S, Notify(S) PROVE SleepingType'
  BY <1>2 DEF SleepingType, Notify, Time, Never
<1>3. ASSUME NEW s \in SubIds, NEW t \in NextAttempt(s) \cup {None},
             sleeping' = [sleeping EXCEPT ![s] = t]
      PROVE  SleepingType'
  BY <1>3, TimerType DEF SleepingType, Time, Never
<1> QED BY <1>1, <1>2, <1>3, SleepersStep DEF waitVars

\* The pull loop keeps the types of the tables, and every timer it sets is an
\* instant of the clock or lies beyond all of them.
THEOREM WaitTypeCorrect == WaitSpec => []WaitTypeOK
<1>1. WaitInit => SleepingType
  BY DEF WaitInit, SleepingType
<1>2. TypeOK /\ SleepingType /\ [WaitNext]_waitVars => SleepingType'
  BY SleepingTypeStep
<1>3. TypeOK /\ SleepingType => WaitTypeOK
  BY DEF SleepingType, WaitTypeOK
<1> QED BY <1>1, <1>2, <1>3, WaitImpliesBus, TypeCorrect, PTL DEF WaitSpec

-----------------------------------------------------------------------------
(* Falling asleep *)

\* An ordered subscription has deliveries of its own topic only.
OwnTopic ==
    \A d \in DOMAIN deliveries :
       InOrderedSub(d) => TopicOf(d) = subs[SubOf(d)].topic

LEMMA UnackedFacts ==
    ASSUME TypeOK, NEW s \in SubIds, NEW d \in Unacked(s)
    PROVE  /\ d \in DOMAIN deliveries /\ SubOf(d) = s
           /\ Open(d) /\ ~Expired(d) /\ d \in DeliveryIds
           /\ deliveries[d].attemptAt \in Nat
           /\ deliveries[d].expiresAt \in Nat
           /\ deliveries[d].publishedAt \in Nat
BY ConstantsAssumption
   DEF TypeOK, Unacked, DeliveriesOf, DeliveryRow, Time, Never

\* Among what is outstanding, something is attempted first.
LEMMA SomeSoonest ==
    ASSUME OrderInv, NEW s \in SubIds, Unacked(s) # {}
    PROVE  SoonestAttempts(s) # {}
<1> USE DEF OrderInv
<1> DEFINE E == {d \in Unacked(s) : ~Blocked(d)}
           T == {deliveries[d].attemptAt : d \in E}
<1>1. PICK d \in E : TRUE
  BY ChainInvNeverWedges DEF OrderingNeverWedges
<1>2. \A e \in E : deliveries[e].attemptAt \in Nat
  BY UnackedFacts
<1>3. T \in SUBSET Nat /\ T # {}
  BY <1>1, <1>2
<1>4. PICK n \in T : \A k \in T : n <= k
  <2> HIDE DEF T
  <2> QED BY <1>3, LeastNatural
<1>5. PICK e \in E : n = deliveries[e].attemptAt
  OBVIOUS
<1>6. e \in SoonestAttempts(s)
  BY <1>4, <1>5 DEF SoonestAttempts
<1> QED BY <1>6

\* Nothing blocked is released before the deliveries in front expire.
LEMMA FrontExpiresFirst ==
    ASSUME QueueInv, OwnTopic, NEW s \in SubIds, LiveSub(s), subs[s].ordered,
           NEW e \in Unacked(s), ~Blocked(e), NEW p \in Unacked(s)
    PROVE  deliveries[e].expiresAt <= deliveries[p].expiresAt
<1> USE DEF QueueInv, OrderInv
<1>1. /\ e \in DOMAIN deliveries /\ SubOf(e) = s
      /\ p \in DOMAIN deliveries /\ SubOf(p) = s /\ ~Settled(p)
      /\ deliveries[e].publishedAt \in Nat
      /\ deliveries[p].publishedAt \in Nat
  BY UnackedFacts DEF Settled
<1>2. InOrderedSub(e) /\ InOrderedSub(p)
  BY <1>1 DEF InOrderedSub
<1>3. InFront(e)
  BY <1>1, <1>2, Released DEF Blocked, Settled, InOrderedSub
<1>4. TopicOf(p) = TopicOf(e)
  BY <1>1, <1>2 DEF OwnTopic
<1>5. ~(deliveries[p].publishedAt < deliveries[e].publishedAt)
  BY <1>1, <1>3, <1>4 DEF InFront, Earlier
<1>6. e \in DeliveriesOf(SubOf(p)) /\ ExpiresInOrder(p)
  BY <1>1, <1>2 DEF DeliveriesOf, Queued
<1> QED BY <1>1, <1>5, <1>6 DEF ExpiresInOrder

\* The later of two instants.
LEMMA Later ==
    ASSUME NEW a \in Nat, NEW b \in Nat
    PROVE  LET m == IF b > a THEN b ELSE a
           IN  m \in Nat /\ a <= m /\ b <= m
OBVIOUS

LEMMA DueAtFacts ==
    ASSUME OrderInv, NEW s \in SubIds, NEW d \in Unacked(s)
    PROVE  /\ DueAt(d) \in Nat /\ deliveries[d].attemptAt <= DueAt(d)
           /\ ~Blocked(d) => DueAt(d) = deliveries[d].attemptAt
           /\ Blocked(d) =>
                LET p == deliveries[d].notBefore IN
                /\ p \in Unacked(s) /\ deliveries[p].expiresAt <= DueAt(d)
                /\ \/ DueAt(d) = deliveries[d].attemptAt
                   \/ DueAt(d) = deliveries[p].expiresAt
<1> USE DEF OrderInv
<1>1. deliveries[d].attemptAt \in Nat /\ d \in DOMAIN deliveries /\ SubOf(d) = s
  BY UnackedFacts
<1>2. CASE ~Blocked(d)
  BY <1>1, <1>2 DEF DueAt
<1>3. CASE Blocked(d)
  <2> DEFINE p == deliveries[d].notBefore
  <2>1. p \in Unacked(s)
    BY <1>1, <1>3
       DEF Blocked, ReferencesResolve, ChainInv, Unacked, DeliveriesOf
  <2>2. deliveries[p].expiresAt \in Nat
    BY <2>1, UnackedFacts
  <2> QED BY <1>1, <1>3, <2>1, <2>2, Later DEF DueAt
<1> QED BY <1>2, <1>3

\* The timer covers whatever becomes deliverable by itself.
LEMMA SleepsLongEnough ==
    ASSUME QueueInv, OwnTopic, NEW s \in SubIds, LiveSub(s),
           NEW t \in NextAttempt(s), NEW d \in Unacked(s)
    PROVE  t <= DueAt(d)
<1> USE DEF QueueInv, OrderInv
<1>1. PICK a \in SoonestAttempts(s), e \in SoonestAttempts(s) :
         t = IF deliveries[e].expiresAt < deliveries[a].attemptAt
             THEN deliveries[e].expiresAt ELSE deliveries[a].attemptAt
  BY SomeSoonest DEF NextAttempt
<1>2. /\ a \in Unacked(s) /\ e \in Unacked(s) /\ ~Blocked(e)
      /\ \A c \in Unacked(s) :
            ~Blocked(c) => deliveries[a].attemptAt <= deliveries[c].attemptAt
  BY <1>1 DEF SoonestAttempts
<1>3. deliveries[a].attemptAt \in Nat /\ deliveries[e].expiresAt \in Nat
  BY <1>2, UnackedFacts
<1>4. t \in Nat /\ t <= deliveries[a].attemptAt /\ t <= deliveries[e].expiresAt
  BY <1>1, <1>3
<1>5. DueAt(d) \in Nat
  BY DueAtFacts
<1>6. CASE ~Blocked(d)
  <2>1. deliveries[a].attemptAt <= DueAt(d)
    BY <1>2, <1>6, DueAtFacts
  <2> QED BY <1>3, <1>4, <1>5, <2>1
<1>7. CASE Blocked(d)
  <2> DEFINE p == deliveries[d].notBefore
  <2>1. p \in Unacked(s) /\ deliveries[p].expiresAt <= DueAt(d)
    BY <1>7, DueAtFacts
  <2>2. subs[s].ordered
    BY <1>7, UnackedFacts DEF Blocked
  <2>3. deliveries[e].expiresAt <= deliveries[p].expiresAt
    BY <1>2, <2>1, <2>2, FrontExpiresFirst
  <2>4. deliveries[p].expiresAt \in Nat
    BY <2>1, UnackedFacts
  <2> HIDE DEF p
  <2> QED BY <1>3, <1>4, <1>5, <2>1, <2>3, <2>4
<1> QED BY <1>6, <1>7

-----------------------------------------------------------------------------
(* Sleeping on *)

\* The step leaves the sleeper of s alone, and neither d nor what it waits for
\* comes nearer.
Quiet(s, d) ==
    LET p == deliveries[d].notBefore IN
    /\ sleeping'[s] = sleeping[s] /\ LiveSub(s) /\ now <= now'
    /\ d \in DOMAIN deliveries /\ Open(d)
    /\ deliveries'[d].expiresAt = deliveries[d].expiresAt
    /\ deliveries[d].attemptAt <= deliveries'[d].attemptAt
    /\ Blocked(d) =>
         /\ subs'[s].ordered /\ deliveries'[d].notBefore = p
         /\ deliveries'[p].completedAt = None
         /\ deliveries'[p].expiresAt = deliveries[p].expiresAt

LEMMA QuietSleep ==
    ASSUME OrderInv, OrderInv', SleepingType, NeverOversleeps, NEW s \in SubIds,
           sleeping'[s] # None, sleeping'[s] > now',
           NEW d, d \in Unacked(s)', Quiet(s, d),
           DueAt(d)' < deliveries'[d].expiresAt
    PROVE  sleeping'[s] <= DueAt(d)'
<1> USE DEF OrderInv
<1> DEFINE t == sleeping[s]
           due == DueAt(d)
           exp == deliveries[d].expiresAt
           own == deliveries[d].attemptAt
           p == deliveries[d].notBefore
<1>0. SubOf(d) = s /\ now \in Nat /\ now' \in Nat /\ now <= now'
  BY DEF Unacked, DeliveriesOf, SubOf, TypeOK, Quiet
<1>1. t \in Nat /\ t > now' /\ t > now /\ sleeping'[s] = t /\ t # None
  <2>1. t \in Nat /\ sleeping'[s] = t
    BY ConstantsAssumption DEF SleepingType, Quiet, Time, Never
  <2> QED BY <1>0, <2>1
<1>2. /\ d \in DOMAIN deliveries' /\ deliveries'[d].completedAt = None
      /\ exp > now' /\ exp \in Nat
      /\ deliveries'[d].attemptAt \in Nat /\ own <= deliveries'[d].attemptAt
  <2>1. d \in DOMAIN deliveries' /\ deliveries'[d].completedAt = None
        /\ ~(deliveries'[d].expiresAt <= now') /\ deliveries'[d].expiresAt = exp
    BY DEF Unacked, DeliveriesOf, Open, Expired, Quiet
  <2>2. deliveries'[d] \in DeliveryRow
    BY <2>1 DEF TypeOK
  <2>3. exp \in Nat /\ deliveries'[d].attemptAt \in Nat
    BY <2>1, <2>2, ConstantsAssumption DEF DeliveryRow, Time, Never
  <2> QED BY <1>0, <2>1, <2>3 DEF Quiet
<1>3. d \in Unacked(s) /\ ~Expired(d)
  BY <1>0, <1>2 DEF Unacked, DeliveriesOf, Expired, Quiet
<1>4. due < exp => t <= due
  BY <1>1, <1>3 DEF NeverOversleeps, Quiet
<1>5. due \in Nat /\ own \in Nat
  BY <1>3, DueAtFacts, UnackedFacts
<1>6. ASSUME due <= now' PROVE FALSE
  BY <1>0, <1>1, <1>2, <1>4, <1>5, <1>6
<1>7. /\ DueAt(d)' \in Nat /\ deliveries'[d].attemptAt <= DueAt(d)'
  <2>1. CASE Blocked(d)'
    <3>1. /\ deliveries'[d].notBefore # None
          /\ deliveries'[d].notBefore \in DOMAIN deliveries'
      BY <1>2, <2>1 DEF Blocked, ReferencesResolve
    <3>2. deliveries'[deliveries'[d].notBefore].expiresAt \in Nat
      BY <3>1, ConstantsAssumption DEF TypeOK, DeliveryRow, Time, Never
    <3> QED BY <1>2, <2>1, <3>2, Later DEF DueAt
  <2>2. CASE ~Blocked(d)'
    BY <1>2, <2>2 DEF DueAt
  <2> QED BY <2>1, <2>2
<1>8. CASE due = own
  <2>1. due <= DueAt(d)'
    BY <1>2, <1>5, <1>7, <1>8
  <2> QED BY <1>1, <1>2, <1>4, <1>5, <1>7, <2>1 DEF Quiet
<1>9. CASE due # own
  <2>1. Blocked(d) /\ p \in Unacked(s) /\ due = deliveries[p].expiresAt
    BY <1>3, <1>9, DueAtFacts
  <2>2. /\ p # None /\ subs'[s].ordered /\ deliveries'[d].notBefore = p
        /\ deliveries'[p].completedAt = None /\ deliveries'[p].expiresAt = due
    BY <2>1 DEF Quiet, Blocked
  <2> HIDE DEF p
  <2>3. ~(due <= now')
    BY <1>6
  <2>4. Blocked(d)'
    BY <1>0, <2>2, <2>3 DEF Blocked, Open, Expired, SubOf
  <2>5. due <= DueAt(d)'
    BY <1>2, <1>5, <2>2, <2>4, Later DEF DueAt
  <2> QED BY <1>1, <1>2, <1>4, <1>5, <1>7, <2>5 DEF Quiet
<1> QED BY <1>8, <1>9

\* The same for all deliveries of s.
LeftAlone(s) == \A d \in Unacked(s)' : Quiet(s, d)

\* A transaction that creates, completes and advances nothing of s.
LEMMA WorksQuietly ==
    ASSUME OrderInv, OrderInv', Works, Onward, NEW s \in SubIds, LiveSub(s)',
           sleeping'[s] = sleeping[s], subs'[s].ordered = subs[s].ordered,
           \A d \in DOMAIN deliveries' : SubOf(d) = s => d \in DOMAIN deliveries,
           \A d \in DeliveriesOf(s) :
              /\ Open(d) => deliveries'[d].completedAt = None
              /\ deliveries[d].attemptAt <= deliveries'[d].attemptAt
    PROVE  LeftAlone(s)
<1> USE DEF OrderInv
<1> SUFFICES ASSUME NEW d, d \in Unacked(s)'
             PROVE  Quiet(s, d)
  BY DEF LeftAlone
<1>1. /\ d \in DOMAIN deliveries' /\ SubOf(d) = s
      /\ deliveries'[d].completedAt = None
  BY DEF Unacked, DeliveriesOf, Open, SubOf
<1>2. d \in DOMAIN deliveries /\ d \in DeliveryIds /\ d \in DeliveriesOf(s)
  BY <1>1 DEF TypeOK, DeliveriesOf
<1>3. KeepsRow(d)
  BY <1>1, <1>2 DEF Works, CompletesRow, CompletedAs, CreatesRow, NoRow
<1>4. LiveSub(s) /\ now <= now'
  BY <1>1, <1>2 DEF ReferencesResolve, Onward, LiveSub, TypeOK
<1>5. ASSUME NEW p, p = deliveries[d].notBefore, Blocked(d)
      PROVE  /\ subs'[s].ordered /\ deliveries'[p].completedAt = None
             /\ deliveries'[p].expiresAt = deliveries[p].expiresAt
  <2>1. p \in DOMAIN deliveries /\ SubOf(p) = s /\ Open(p) /\ subs[s].ordered
    BY <1>1, <1>2, <1>5 DEF Blocked, ReferencesResolve, ChainInv
  <2>2. deliveries'[p].completedAt = None /\ p \in DeliveryIds
    BY <2>1 DEF DeliveriesOf, TypeOK
  <2>3. OldRow(p)
    BY <2>1, <2>2 DEF Works, OldRow, CreatesRow, NoRow
  <2> QED BY <2>1, <2>2, <2>3, OldRowFacts
<1> QED BY <1>1, <1>2, <1>3, <1>4, <1>5
        DEF Quiet, KeepsRow, KeptAs, SameOrigin, Open

LEMMA NotNotified ==
    ASSUME NEW S, Notify(S), NEW s \in SubIds, sleeping'[s] # None
    PROVE  s \notin S /\ sleeping'[s] = sleeping[s]
BY DEF Notify

\* A transaction that announces what it created and what it completed.
LEMMA AnnouncedQuietly ==
    ASSUME OrderInv, OrderInv', Works, Onward, NEW s \in SubIds, LiveSub(s)',
           sleeping'[s] # None, Notify(NotifyCreated \cup NotifyCompleted),
           subs'[s].ordered = subs[s].ordered,
           \A d \in DeliveriesOf(s) :
              deliveries[d].attemptAt <= deliveries'[d].attemptAt
    PROVE  LeftAlone(s)
<1>1. /\ s \notin NotifyCreated /\ s \notin NotifyCompleted
      /\ sleeping'[s] = sleeping[s]
  BY NotNotified
<1>2. \A d \in DOMAIN deliveries' : SubOf(d) = s => d \in DOMAIN deliveries
  BY <1>1 DEF NotifyCreated
<1>3. \A d \in DeliveriesOf(s) : Open(d) => deliveries'[d].completedAt = None
  BY <1>1 DEF NotifyCompleted, DeliveriesOf
<1> QED BY <1>1, <1>2, <1>3, WorksQuietly

LEMMA NewIdsNew ==
    ASSUME OrderInv, NEW to, NEW d \in DOMAIN deliveries
    PROVE  d \notin NewIds(to)
<1> USE DEF OrderInv
<1> SUFFICES ASSUME d \in NewIds(to) PROVE FALSE
  OBVIOUS
<1>1. d[1] \in Nat /\ d[1] > nextId /\ nextId \in Nat
  BY NewIdsType DEF TypeOK
<1>2. d[1] <= nextId
  BY DEF ChainInv
<1> QED BY <1>1, <1>2

LEMMA RowTimes ==
    ASSUME TypeOK, NEW d \in DOMAIN deliveries
    PROVE  /\ deliveries[d] \in DeliveryRow /\ deliveries[d].attemptAt \in Nat
           /\ now \in Nat
BY ConstantsAssumption DEF TypeOK, DeliveryRow, Time, Never

LEMMA AfterNow ==
    ASSUME TypeOK, NEW n \in Nat
    PROVE  After(n) \in Nat /\ now <= After(n)
<1>1. now \in Nat /\ Never \in Nat /\ now < Never
  BY ConstantsAssumption DEF TypeOK, Never
<1> QED BY <1>1 DEF After

LEMMA PublishQuietly ==
    ASSUME OrderInv, OrderInv', WaitPublish, NEW s \in SubIds, LiveSub(s)',
           sleeping'[s] # None
    PROVE  LeftAlone(s)
<1> USE DEF OrderInv
<1>1. PICK t \in TopicIds, k \in Keys, a \in Attrs : PublishMessage(t, k, a)
  BY DEF WaitPublish, Publish
<1>2. Works /\ Onward
  BY <1>1, PublishWorks
<1>3. ASSUME NEW d \in DOMAIN deliveries
      PROVE  deliveries'[d] = deliveries[d]
  <2>1. PICK msgs, src, to : Fanout(msgs, src, to, deliveries)
    BY <1>1 DEF PublishMessage
  <2> QED BY <2>1, NewIdsNew DEF Fanout
<1>4. s \notin NotifyCreated /\ sleeping'[s] = sleeping[s]
  BY NotNotified DEF WaitPublish
<1>5. \A d \in DOMAIN deliveries' : SubOf(d) = s => d \in DOMAIN deliveries
  BY <1>4 DEF NotifyCreated
<1>6. \A d \in DeliveriesOf(s) :
         /\ Open(d) => deliveries'[d].completedAt = None
         /\ deliveries[d].attemptAt <= deliveries'[d].attemptAt
  BY <1>3, RowTimes DEF DeliveriesOf, Open
<1>7. subs'[s].ordered = subs[s].ordered
  BY <1>1 DEF PublishMessage
<1> QED BY <1>2, <1>4, <1>5, <1>6, <1>7, WorksQuietly

\* A delivery that is attempted was due, and is backed off.
LEMMA ReceiveQuietly ==
    ASSUME OrderInv, OrderInv', WaitReceive, NEW s \in SubIds, LiveSub(s)',
           sleeping'[s] # None
    PROVE  LeftAlone(s)
<1> USE DEF OrderInv
<1> DEFINE out(q) == {d \in Range(q) : ~Exhausted(d)}
           upd(q) == [d \in out(q) |-> Attempt(d)]
<1>1. PICK o \in SubIds : GetSubscriptionMessages(o)
  BY DEF WaitReceive, Receive
<1>2. PICK q \in Batches({d \in DeliveriesOf(o) : Deliverable(d)}) :
         Process(q, upd(q), out(q))
  BY <1>1, PullFansOut
<1>3. Works /\ Onward
  BY <1>1, PullWorks
<1>4. subs'[s].ordered = subs[s].ordered
  BY <1>1 DEF GetSubscriptionMessages, RefreshExpiry, TypeOK, SubRow
<1>5. ASSUME NEW d \in DOMAIN deliveries
      PROVE  deliveries[d].attemptAt <= deliveries'[d].attemptAt
  <2>1. deliveries'[d] = IF d \notin Range(q) THEN deliveries[d]
                         ELSE IF Exhausted(d) THEN Complete(d) ELSE upd(q)[d]
    BY <1>2, NewIdsNew, ProcessedRows
  <2>2. CASE d \in Range(q) /\ ~Exhausted(d)
    <3>1. Deliverable(d) /\ deliveries'[d] = Attempt(d)
      BY <1>2, <2>1, <2>2, BatchRange
    <3>2. deliveries'[d].attemptAt = After(BackoffFor(d, deliveries[d].attempts + 1))
      BY <3>1, RowTimes DEF Attempt, DeliveryRow
    <3>3. BackoffFor(d, deliveries[d].attempts + 1) \in Nat
      <4>1. d \in DOMAIN deliveries'
        BY <1>3, RowTypes DEF Works, KeepsRow, CompletesRow, CreatesRow, NoRow
      <4>2. deliveries'[d].attempts \in 0 .. MaxAttempts
        BY <4>1 DEF TypeOK, DeliveryRow
      <4>3. deliveries'[d].attempts = deliveries[d].attempts + 1
        BY <3>1, RowTimes DEF Attempt, DeliveryRow
      <4> QED BY <4>2, <4>3, BackoffType
    <3> QED BY <3>1, <3>2, <3>3, AfterNow, RowTimes DEF Deliverable
  <2>3. CASE ~(d \in Range(q) /\ ~Exhausted(d))
    BY <2>1, <2>3, RowTimes DEF Complete, DeliveryRow
  <2> QED BY <2>2, <2>3
<1> QED BY <1>3, <1>4, <1>5, AnnouncedQuietly DEF WaitReceive, DeliveriesOf

\* What the dead letter service does not complete it does not touch.
LEMMA DeadLetterQuietly ==
    ASSUME OrderInv, OrderInv', WaitDeadLetter, NEW s \in SubIds, LiveSub(s)',
           sleeping'[s] # None
    PROVE  LeftAlone(s)
<1> USE DEF OrderInv
<1>1. PICK q : Process(q, deliveries, {})
  BY DeadLetterFansOut DEF WaitDeadLetter
<1>2. Works /\ Onward
  BY DeadLetterWorks DEF WaitDeadLetter
<1>3. subs'[s].ordered = subs[s].ordered
  BY DEF WaitDeadLetter, DeadLetterDeliveries
<1>4. ASSUME NEW d \in DOMAIN deliveries
      PROVE  deliveries[d].attemptAt <= deliveries'[d].attemptAt
  <2>1. deliveries'[d] \in {deliveries[d], Complete(d)}
    BY <1>1, NewIdsNew, ProcessedRows
  <2> QED BY <2>1, RowTimes DEF Complete, DeliveryRow
<1> QED BY <1>2, <1>3, <1>4, AnnouncedQuietly DEF WaitDeadLetter, DeliveriesOf

LEMMA AckQuietly ==
    ASSUME OrderInv, OrderInv', WaitAck, NEW s \in SubIds, LiveSub(s)',
           sleeping'[s] # None
    PROVE  LeftAlone(s)
<1> USE DEF OrderInv
<1>1. PICK q : deliveries' = [d \in DOMAIN deliveries |->
                  IF d \in Range(q) THEN Complete(d) ELSE deliveries[d]]
  BY DEF WaitAck, AckDeliveries
<1>2. Works /\ Onward
  BY AckWorks DEF WaitAck
<1>3. subs'[s].ordered = subs[s].ordered
  BY DEF WaitAck, AckDeliveries
<1>4. s \notin NotifyCompleted /\ sleeping'[s] = sleeping[s]
  BY NotNotified DEF WaitAck
<1>5. \A d \in DeliveriesOf(s) :
         /\ Open(d) => deliveries'[d].completedAt = None
         /\ deliveries[d].attemptAt <= deliveries'[d].attemptAt
  <2> SUFFICES ASSUME NEW d \in DOMAIN deliveries, SubOf(d) = s
               PROVE  /\ Open(d) => deliveries'[d].completedAt = None
                      /\ deliveries[d].attemptAt <= deliveries'[d].attemptAt
    BY DEF DeliveriesOf
  <2>1. deliveries'[d].attemptAt = deliveries[d].attemptAt
    BY <1>1, RowTimes DEF Complete, DeliveryRow
  <2> QED BY <1>4, <2>1, RowTimes DEF NotifyCompleted
<1>6. DOMAIN deliveries' = DOMAIN deliveries
  BY <1>1
<1> QED BY <1>2, <1>3, <1>4, <1>5, <1>6, WorksQuietly

\* A zero delay is announced, and another one only postpones.
LEMMA DelayQuietly ==
    ASSUME OrderInv, OrderInv', NEW n \in Delays, WaitDelay(n),
           NEW s \in SubIds, LiveSub(s)', sleeping'[s] # None
    PROVE  LeftAlone(s)
<1> USE DEF OrderInv
<1>1. PICK q \in Batches({d \in KnownOpen :
                            n = 0 \/ deliveries[d].attemptAt < After(n)}) :
         deliveries' = [d \in DOMAIN deliveries |->
                          IF d \in Range(q)
                          THEN [deliveries[d] EXCEPT !.attemptAt = After(n)]
                          ELSE deliveries[d]]
  BY DEF WaitDelay, DelayDeliveries
<1>2. Works /\ Onward
  BY DelayWorks DEF WaitDelay
<1>3. subs'[s].ordered = subs[s].ordered
  BY DEF WaitDelay, DelayDeliveries
<1>4. s \notin NotifyDelayed(n) /\ sleeping'[s] = sleeping[s]
  BY NotNotified DEF WaitDelay
<1>5. \A d \in DeliveriesOf(s) :
         /\ Open(d) => deliveries'[d].completedAt = None
         /\ deliveries[d].attemptAt <= deliveries'[d].attemptAt
  <2> SUFFICES ASSUME NEW d \in DOMAIN deliveries, SubOf(d) = s
               PROVE  /\ Open(d) => deliveries'[d].completedAt = None
                      /\ deliveries[d].attemptAt <= deliveries'[d].attemptAt
    BY DEF DeliveriesOf
  <2>1. deliveries'[d].completedAt = deliveries[d].completedAt
    BY <1>1, RowTimes DEF DeliveryRow
  <2>2. CASE deliveries'[d] = deliveries[d]
    BY <2>1, <2>2, RowTimes DEF Open
  <2>3. CASE deliveries'[d] # deliveries[d]
    <3>1. n # 0
      BY <1>4, <2>3 DEF NotifyDelayed
    <3>2. /\ deliveries[d].attemptAt < After(n)
          /\ deliveries'[d].attemptAt = After(n)
      BY <1>1, <2>3, <3>1, BatchRange, RowTimes DEF DeliveryRow
    <3>3. After(n) \in Nat
      BY AfterNow, ConstantsAssumption
    <3> QED BY <2>1, <3>2, <3>3, RowTimes DEF Open
  <2> QED BY <2>2, <2>3
<1>6. DOMAIN deliveries' = DOMAIN deliveries
  BY <1>1
<1> QED BY <1>2, <1>3, <1>4, <1>5, <1>6, WorksQuietly

\* A nack, which announces nothing, does not bring an attempt forward: it does
\* not take back a deadline that was extended beyond the backoff, or that was
\* set under a longer retry policy.
NacksPutBack ==
    NackDeliveries =>
       \A d \in DOMAIN deliveries :
          deliveries[d].attemptAt <= deliveries'[d].attemptAt

LEMMA NackQuietly ==
    ASSUME OrderInv, OrderInv', WaitNack, NacksPutBack, NEW s \in SubIds,
           LiveSub(s)', sleeping'[s] # None
    PROVE  LeftAlone(s)
<1> USE DEF OrderInv
<1>1. Works /\ Onward
  BY NackWorks DEF WaitNack
<1>2. subs'[s].ordered = subs[s].ordered
  BY DEF WaitNack, NackDeliveries
<1> QED BY <1>1, <1>2, AnnouncedQuietly
        DEF WaitNack, NacksPutBack, DeliveriesOf

\* What touches no delivery announces a change of the subscription.
LEMMA UntouchedQuietly ==
    ASSUME OrderInv, OrderInv', NEW s \in SubIds, LiveSub(s)',
           \/ Tick \/ Create \/ Delete \/ Expire \/ Reconfigure \/ Snapshots
           \/ PruneRows,
           sleeping'[s] = sleeping[s], subs'[s].ordered = subs[s].ordered
    PROVE  LeftAlone(s)
<1> USE DEF OrderInv
<1>1. UNCHANGED deliveries
  BY OtherSteps
<1>2. Works /\ Onward
  BY OtherWorks
<1>3. \A d \in DeliveriesOf(s) :
         /\ Open(d) => deliveries'[d].completedAt = None
         /\ deliveries[d].attemptAt <= deliveries'[d].attemptAt
  BY <1>1, RowTimes DEF DeliveriesOf, Open
<1> QED BY <1>1, <1>2, <1>3, WorksQuietly

LEMMA OtherQuietly ==
    ASSUME OrderInv, OrderInv', NEW s \in SubIds, LiveSub(s)',
           sleeping'[s] # None,
           \/ WaitTime \/ WaitExpire \/ WaitSnapshots
           \/ \E o \in SubIds : WaitModify(o)
           \/ \E o \in SubIds, n \in Delays : WaitDelayInjected(o, n)
           \/ \E t \in TopicIds : WaitTopic(t)
           \/ PruneRows /\ NotifyNobody
    PROVE  LeftAlone(s)
<1> USE DEF OrderInv
<1>0. subs[s] \in SubRow
  BY DEF TypeOK
<1>1. CASE WaitTime
  BY <1>1, UntouchedQuietly DEF WaitTime, Tick, NotifyNobody
<1>2. CASE WaitSnapshots
  BY <1>2, UntouchedQuietly
     DEF WaitSnapshots, Snapshots, CreateSnapshot, DeleteSnapshot, NotifyNobody
<1>3. CASE \E t \in TopicIds : WaitTopic(t)
  <2>1. UNCHANGED <<subs, sleeping>> /\ (Create \/ Delete)
    BY <1>3 DEF WaitTopic, CreateTopic, DeleteTopic, NotifyNobody, Create, Delete
  <2> QED BY <2>1, UntouchedQuietly
<1>4. CASE WaitExpire
  <2>1. sleeping'[s] = sleeping[s]
    BY <1>4, NotNotified DEF WaitExpire
  <2>2. subs'[s].ordered = subs[s].ordered
    BY <1>0, <1>4 DEF WaitExpire, DeleteExpiredSubscriptions, MarkDeleted, SubRow
  <2> QED BY <1>4, <2>1, <2>2, UntouchedQuietly DEF WaitExpire, Expire
<1>5. ASSUME NEW o \in SubIds, WaitModify(o)
      PROVE  LeftAlone(s)
  <2>1. s # o /\ sleeping'[s] = sleeping[s]
    BY <1>5, NotNotified DEF WaitModify
  <2>2. subs'[s] = subs[s]
    BY <1>5, <2>1 DEF WaitModify, CreateSubscription, UpdateSubscription,
       DeleteSubscription, MarkDeleted, TypeOK
  <2>3. Create \/ Delete \/ Reconfigure
    BY <1>5 DEF WaitModify, Create, Delete, Reconfigure
  <2> QED BY <2>1, <2>2, <2>3, UntouchedQuietly
<1>6. ASSUME NEW o \in SubIds, NEW n \in Delays, WaitDelayInjected(o, n)
      PROVE  LeftAlone(s)
  <2>1. subs'[s].ordered = subs[s].ordered
    BY <1>0, <1>6 DEF WaitDelayInjected, SetDeliveryDelay, TypeOK, SubRow
  <2> QED BY <1>6, <2>1, UntouchedQuietly
          DEF WaitDelayInjected, NotifyNobody, Reconfigure
<1>7. CASE PruneRows /\ NotifyNobody
  <2>1. subs'[s].ordered = subs[s].ordered
    <3>1. CASE PruneCompletedMessages
      BY <3>1 DEF PruneCompletedMessages
    <3>2. CASE PruneDeletedSubscriptions
      BY <3>2 DEF PruneDeletedSubscriptions, LiveSub, NoSub
    <3>3. CASE PruneDeletedTopics
      BY <1>0, <3>3 DEF PruneDeletedTopics, SubRow
    <3> QED BY <1>7, <3>1, <3>2, <3>3 DEF PruneRows
  <2> QED BY <1>7, <2>1, UntouchedQuietly DEF NotifyNobody
<1> QED BY <1>1, <1>2, <1>3, <1>4, <1>5, <1>6, <1>7

\* Pruning takes no predecessor that still blocks, announced or not.
LEMMA PruneQuietly ==
    ASSUME OrderInv, OrderInv', PruneDeliveries, NEW s \in SubIds, LiveSub(s)',
           sleeping'[s] = sleeping[s]
    PROVE  LeftAlone(s)
<1> USE DEF OrderInv
<1> SUFFICES ASSUME NEW d, d \in Unacked(s)'
             PROVE  Quiet(s, d)
  BY DEF LeftAlone
<1>1. UNCHANGED <<now, subs>>
  BY PruneDrops
<1>2. PICK S : /\ \A e \in S : Droppable(e)
               /\ DOMAIN deliveries' = DOMAIN deliveries \ S
               /\ \A e \in DOMAIN deliveries' : deliveries'[e] =
                    [deliveries[e] EXCEPT !.notBefore =
                       IF @ \in S THEN None ELSE @]
  BY PruneDrops
<1>3. ASSUME NEW e \in DOMAIN deliveries'
      PROVE  /\ e \in DOMAIN deliveries
             /\ deliveries'[e].expiresAt = deliveries[e].expiresAt
             /\ deliveries'[e].attemptAt = deliveries[e].attemptAt
             /\ deliveries'[e].completedAt = deliveries[e].completedAt
             /\ deliveries'[e].notBefore =
                  IF deliveries[e].notBefore \in S THEN None
                  ELSE deliveries[e].notBefore
  BY <1>2 DEF TypeOK, DeliveryRow
<1>4. /\ d \in DOMAIN deliveries' /\ SubOf(d) = s
      /\ deliveries'[d].completedAt = None
  BY DEF Unacked, DeliveriesOf, Open, SubOf
<1>5. d \in DOMAIN deliveries /\ Open(d) /\ LiveSub(s)
  BY <1>1, <1>3, <1>4 DEF Open, LiveSub
<1>6. ASSUME NEW p, p = deliveries[d].notBefore, Blocked(d)
      PROVE  p \in DOMAIN deliveries' /\ p \notin S /\ Open(p)
  <2>1. /\ p \in DOMAIN deliveries /\ SubOf(p) = s /\ Open(p)
        /\ ~(deliveries[p].expiresAt <= now)
    BY <1>4, <1>5, <1>6 DEF Blocked, Expired, ReferencesResolve, ChainInv
  <2>2. deliveries[p].expiresAt \in Nat /\ now \in Nat
    BY <2>1, RowTypes
  <2>3. ~Droppable(p)
    BY <1>5, <2>1, <2>2 DEF Droppable, PastExpiry
  <2> QED BY <1>2, <2>1, <2>3
<1>7. /\ now <= now' /\ deliveries[d].attemptAt <= deliveries'[d].attemptAt
      /\ deliveries'[d].expiresAt = deliveries[d].expiresAt
  BY <1>1, <1>3, <1>4, <1>5, RowTimes DEF TypeOK
<1>8. Blocked(d) => subs'[s].ordered
  BY <1>1, <1>4 DEF Blocked
<1> QED BY <1>3, <1>4, <1>5, <1>6, <1>7, <1>8 DEF Quiet, Open

\* Whoever is asleep after a step has just fallen asleep or was left alone.
LEMMA AsleepOrLeftAlone ==
    ASSUME OrderInv, OrderInv', SleepingType, WaitNext, ~Seek, NacksPutBack,
           NEW s \in SubIds, LiveSub(s)', sleeping'[s] # None
    PROVE  Sleep(s) \/ LeftAlone(s)
<1> USE DEF OrderInv
<1>1. ASSUME NEW o \in SubIds, Sleep(o) \/ TimerFires(o), ~Sleep(s)
      PROVE  LeftAlone(s)
  <2>1. UNCHANGED vars /\ sleeping'[s] = sleeping[s]
    <3>1. CASE Sleep(o)
      <4>1. o # s
        BY <1>1, <3>1
      <4> QED BY <3>1, <4>1 DEF Sleep, SleepingType
    <3>2. CASE TimerFires(o)
      BY <3>2 DEF TimerFires, SleepingType
    <3> QED BY <1>1, <3>1, <3>2
  <2>2. Works /\ Onward
    BY <2>1 DEF vars, Works, KeepsRow, KeptAs, SameOrigin, NoRow, Onward, TypeOK
  <2>3. \A d \in DeliveriesOf(s) :
           /\ Open(d) => deliveries'[d].completedAt = None
           /\ deliveries[d].attemptAt <= deliveries'[d].attemptAt
    BY <2>1, RowTimes DEF vars, DeliveriesOf, Open
  <2> QED BY <2>1, <2>2, <2>3, WorksQuietly DEF vars
<1>2. ASSUME NEW o \in SubIds, GiveUp(o)
      PROVE  LeftAlone(s)
  <2>1. sleeping'[s] = sleeping[s] /\ RefreshSubscription(o)
    BY <1>2 DEF GiveUp
  <2>2. subs'[s].ordered = subs[s].ordered
    BY <2>1 DEF RefreshSubscription, RefreshExpiry, TypeOK, SubRow
  <2> QED BY <2>1, <2>2, UntouchedQuietly DEF Expire
<1>3. CASE \/ WaitPublish \/ WaitReceive \/ WaitDeadLetter \/ WaitAck \/ WaitNack
           \/ \E n \in Delays : WaitDelay(n)
  BY <1>3, PublishQuietly, ReceiveQuietly, DeadLetterQuietly, AckQuietly,
     NackQuietly, DelayQuietly
<1>4. CASE \/ WaitPruneExpired \/ WaitPruneCompleted
           \/ PruneDeletedSubscriptionDeliveries /\ NotifyNobody
  <2>1. PruneDeliveries /\ sleeping'[s] = sleeping[s]
    BY <1>4, NotNotified DEF WaitPruneExpired, WaitPruneCompleted, NotifyNobody,
       PruneDeliveries
  <2> QED BY <2>1, PruneQuietly
<1>5. CASE \/ WaitTime \/ WaitExpire \/ WaitSnapshots
           \/ \E o \in SubIds : WaitModify(o)
           \/ \E o \in SubIds, n \in Delays : WaitDelayInjected(o, n)
           \/ \E t \in TopicIds : WaitTopic(t)
           \/ PruneRows /\ NotifyNobody
  BY <1>5, OtherQuietly
<1>6. ~WaitSeek
  BY DEF WaitSeek
<1>7. CASE PullLoop
  BY <1>1, <1>2, <1>7 DEF PullLoop
<1>8. CASE WaitPruneRows
  BY <1>4, <1>5, <1>8 DEF WaitPruneRows
<1> QED BY <1>3, <1>4, <1>5, <1>6, <1>7, <1>8 DEF WaitNext, WaitDeliveries

-----------------------------------------------------------------------------
(* The topic of an ordered subscription *)

LEMMA OwnTopicStep ==
    ASSUME NoKey \notin Keys, QueueInv, OrderInv', OwnTopic, [Next]_vars,
           [QueueKept]_vars
    PROVE  OwnTopic'
<1> USE DEF QueueInv, OrderInv
<1>1. CASE UNCHANGED vars
  BY <1>1 DEF vars, OwnTopic, InOrderedSub, LiveSub, TopicOf, SubOf
<1>2. CASE Next /\ QueueKept
  <2> SUFFICES ASSUME NEW d \in DOMAIN deliveries', InOrderedSub(d)'
               PROVE  TopicOf(d)' = subs'[SubOf(d)].topic
    BY DEF OwnTopic, SubOf
  <2>0. /\ d \in DeliveryIds /\ SubOf(d) \in SubIds
        /\ LiveSub(SubOf(d))' /\ subs'[SubOf(d)].ordered
    BY DEF TypeOK, DeliveryIds, SubOf, InOrderedSub
  <2>1. ASSUME d \in DOMAIN deliveries, LiveSub(SubOf(d)),
               TopicOf(d)' = TopicOf(d)
        PROVE  TopicOf(d)' = subs'[SubOf(d)].topic
    <3>1. subs[SubOf(d)].st \in InTable
      BY <2>1 DEF ReferencesResolve
    <3>2. InOrderedSub(d)
      BY <1>2, <2>0, <2>1, <3>1 DEF InOrderedSub, QueueKept, OrderKept
    <3> QED BY <1>2, <2>0, <2>1, <3>1, <3>2, TopicFixed DEF OwnTopic
  <2>2. CASE PruneDeliveries
    <3>1. UNCHANGED <<subs, messages>>
      BY <2>2, PruneDrops
    <3>2. PICK S : /\ DOMAIN deliveries' = DOMAIN deliveries \ S
                   /\ \A e \in DOMAIN deliveries' : deliveries'[e] =
                        [deliveries[e] EXCEPT !.notBefore =
                           IF @ \in S THEN None ELSE @]
      BY <2>2, PruneDrops
    <3>3. d \in DOMAIN deliveries /\ deliveries'[d].msg = deliveries[d].msg
      BY <3>2 DEF TypeOK, DeliveryRow
    <3> QED BY <2>0, <2>1, <3>1, <3>3 DEF TopicOf, LiveSub
  <2>3. CASE ~PruneDeliveries
    <3>1. Works /\ Onward
      BY <1>2, <2>3, NextWorks DEF QueueKept, OrderKept
    <3>2. CASE OldRow(d)
      <4>1. d \in DOMAIN deliveries /\ TopicOf(d)' = TopicOf(d)
        BY <1>2, <3>2, OldRowFacts, EarlierStays
      <4>2. LiveSub(SubOf(d))
        BY <2>0, <3>1, <4>1 DEF Onward, LiveSub, ReferencesResolve
      <4> QED BY <2>1, <4>1, <4>2
    <3>3. CASE ~OldRow(d)
      <4>1. d \in DOMAIN deliveries' \ DOMAIN deliveries
        BY <2>0, <3>1, <3>3 DEF Works, OldRow, CreatesRow, NoRow
      <4>2. PICK t \in TopicIds, k \in Keys, a \in Attrs : PublishMessage(t, k, a)
        BY <1>2, <2>0, <4>1 DEF QueueKept, Publish
      <4> QED BY <4>1, <4>2, NewRow, PublishedToOwnTopic
    <3> QED BY <3>2, <3>3
  <2> QED BY <2>2, <2>3
<1> QED BY <1>1, <1>2

-----------------------------------------------------------------------------
(* The theorem *)

\* Nobody but the pull itself sets its timer.
LEMMA StillAsleep ==
    ASSUME SleepingType, WaitNext, NEW s \in SubIds, sleeping'[s] # None, ~Sleep(s)
    PROVE  sleeping'[s] = sleeping[s]
<1>1. ASSUME NEW S, Notify(S) PROVE sleeping'[s] = sleeping[s]
  BY <1>1, NotNotified
<1>2. ASSUME NEW o \in SubIds, Sleep(o) \/ TimerFires(o) \/ GiveUp(o)
      PROVE  sleeping'[s] = sleeping[s]
  <2>1. CASE o = s
    BY <1>2, <2>1 DEF TimerFires, GiveUp, SleepingType
  <2>2. CASE o # s
    BY <1>2, <2>2 DEF Sleep, TimerFires, GiveUp, SleepingType
  <2> QED BY <2>1, <2>2
<1> QED BY <1>1, <1>2, SleepersStep

LEMMA OversleepsStep ==
    ASSUME NoKey \notin Keys, QueueInv, OrderInv', SleepingType, OwnTopic,
           NeverOversleeps, [WaitNext]_waitVars, [QueueKept /\ NacksPutBack]_vars
    PROVE  NeverOversleeps'
<1> USE DEF QueueInv, OrderInv
<1>0. CASE UNCHANGED waitVars
  BY <1>0 DEF waitVars, NeverOversleeps, LiveSub, Unacked, DeliveriesOf, SubOf,
     Open, Expired, DueAt, Blocked
<1> SUFFICES ASSUME WaitNext, NEW s \in SubIds, LiveSub(s)',
                    sleeping'[s] # None, sleeping'[s] > now',
                    NEW d, d \in Unacked(s)',
                    DueAt(d)' < deliveries'[d].expiresAt
             PROVE  sleeping'[s] <= DueAt(d)'
  BY <1>0 DEF NeverOversleeps
<1>1. CASE Sleep(s)
  <2>1. PICK t \in NextAttempt(s) : sleeping' = [sleeping EXCEPT ![s] = t]
    BY <1>1 DEF Sleep
  <2>2. sleeping'[s] = t
    BY <2>1 DEF SleepingType
  <2>3. UNCHANGED vars /\ LiveSub(s)
    BY <1>1 DEF Sleep
  <2>4. d \in Unacked(s) /\ DueAt(d)' = DueAt(d)
    BY <2>3 DEF vars, Unacked, DeliveriesOf, SubOf, Open, Expired, DueAt, Blocked
  <2> QED BY <2>2, <2>3, <2>4, SleepsLongEnough
<1>2. CASE UNCHANGED vars /\ ~Sleep(s)
  <2>1. sleeping'[s] = sleeping[s]
    BY <1>2, StillAsleep
  <2>2. /\ LiveSub(s) /\ now' = now /\ deliveries' = deliveries
        /\ d \in Unacked(s) /\ DueAt(d)' = DueAt(d)
    BY <1>2 DEF vars, LiveSub, Unacked, DeliveriesOf, SubOf, Open, Expired, DueAt,
       Blocked
  <2> QED BY <2>1, <2>2 DEF NeverOversleeps
<1>3. CASE QueueKept /\ NacksPutBack /\ ~Sleep(s)
  <2>1. LeftAlone(s)
    BY <1>3, AsleepOrLeftAlone DEF QueueKept, OrderKept
  <2> QED BY <2>1, QuietSleep DEF LeftAlone
<1> QED BY <1>1, <1>2, <1>3

TimerInv == QueueInv /\ OwnTopic /\ SleepingType /\ NeverOversleeps

\* A pull of GetSubscriptionMessages that waits for messages wakes up in time:
\* its timer (nextAttempt) goes off no later than anything it could hand out
\* becomes deliverable, or a transaction that brings such a moment nearer has
\* announced it.  This holds for any number of subscriptions and deliveries as
\* long as ordered queues are worked off from the front, every message has an
\* ordering key, and a nack does not take back an extended deadline.
THEOREM NeverOversleepsAlways ==
    ASSUME NoKey \notin Keys
    PROVE  WaitSpec /\ [][QueueKept /\ NacksPutBack]_vars => []NeverOversleeps
<1>1. WaitInit => TimerInv
  <2> SUFFICES ASSUME WaitInit PROVE TimerInv
    OBVIOUS
  <2>1. Init
    BY DEF WaitInit
  <2>2. QueueInv
    BY <2>1, InitOrderInv
       DEF Init, QueueInv, CompletedWasHanded, MessagesFresh, Queued
  <2>3. OwnTopic
    BY <2>1 DEF Init, OwnTopic
  <2>4. SleepingType /\ NeverOversleeps
    BY DEF WaitInit, SleepingType, NeverOversleeps
  <2> QED BY <2>2, <2>3, <2>4 DEF TimerInv
<1>2. TimerInv /\ [WaitNext]_waitVars /\ [QueueKept /\ NacksPutBack]_vars => TimerInv'
  <2> SUFFICES ASSUME TimerInv, [WaitNext]_waitVars, [QueueKept /\ NacksPutBack]_vars
               PROVE  TimerInv'
    OBVIOUS
  <2> USE DEF TimerInv
  <2>1. [Next]_vars /\ [QueueKept]_vars
    BY WaitStepsBus
  <2>2. QueueInv'
    BY <2>1, QueueStep
  <2>3. OrderInv' /\ OrderInv /\ TypeOK
    BY <2>2 DEF QueueInv, OrderInv
  <2>4. OwnTopic'
    BY <2>1, <2>3, OwnTopicStep
  <2>5. SleepingType'
    BY <2>3, SleepingTypeStep
  <2>6. NeverOversleeps'
    BY <2>3, OversleepsStep
  <2> QED BY <2>2, <2>4, <2>5, <2>6
<1>3. TimerInv => NeverOversleeps
  BY DEF TimerInv
<1> QED BY <1>1, <1>2, <1>3, PTL DEF WaitSpec
=============================================================================
