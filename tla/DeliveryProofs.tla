--------------------------- MODULE DeliveryProofs ---------------------------
(***************************************************************************)
(* The life of a delivery.  At-least-once: what PublishMessage (or a       *)
(* dead-lettering) created stays until it is handed out.  The              *)
(* strengthening, PromiseInv, says that a promised delivery still carries  *)
(* the deadline it was promised with and was never attempted.  Its first   *)
(* attempt is not before its delay unless a seek reopened it unseen        *)
(* (DelayInv: until then its attempt time is the one it was created with). *)
(*                                                                         *)
(* Ordering never wedges a subscription.  The strengthening, ChainInv,     *)
(* says that not_before always points to an earlier delivery of the same   *)
(* subscription, so following it ends; the least outstanding delivery,     *)
(* which exists because ids are natural numbers, is blocked by nobody.     *)
(*                                                                         *)
(* And the tables implement AtLeastOnce, with what that says of attempts.  *)
(* Each transaction is shown to treat every delivery in one of a few ways  *)
(* (keep, complete, create, drop, seek), and each of these ways to be a    *)
(* move of AtLeastOnce.  A row that was pruned never comes back because    *)
(* ids are drawn above nextId (ChainInv), and a seek reopens only what is  *)
(* not past its retention at once because every live subscription keeps    *)
(* its messages for some time (RetentionInv).                              *)
(***************************************************************************)
EXTENDS MessageBus_proofs, WellFoundedInduction

\* A promised delivery of a live subscription is there, open, until its
\* deadline, and while it is there it is unattempted.
PromiseInv ==
    \A d \in DOMAIN promised :
       /\ subs[SubOf(d)].st # "absent"
       /\ LiveSub(SubOf(d)) =>
             /\ promised[d].until > now => d \in DOMAIN deliveries
             /\ d \in DOMAIN deliveries =>
                   /\ ~Handed(d)
                   /\ promised[d].until > now =>
                         Open(d) /\ deliveries[d].expiresAt = promised[d].until

\* A subscription never comes back: pruned or deleted ids are not live again.
SubsAge ==
    \A s \in SubIds : subs[s].st # "absent" =>
       /\ subs'[s].st # "absent"
       /\ subs'[s].st = "live" => subs[s].st = "live"

\* The step promises d, with a row that keeps the promise.
NewPromise(d) ==
    /\ d \in DOMAIN deliveries' /\ subs'[SubOf(d)].st = "live"
    /\ deliveries'[d].completedAt = None /\ deliveries'[d].attempts = 0
    /\ deliveries'[d].expiresAt = promised'[d].until

\* The step withdraws the promise of d, and does not attempt it.
WithdrawnPromise(d) ==
    /\ d \in DOMAIN promised /\ promised'[d].until = 0
    /\ d \in DOMAIN deliveries' => /\ d \in DOMAIN deliveries
                                   /\ deliveries'[d].attempts = deliveries[d].attempts

\* The step leaves the row of a promised d alone, or removes it when overdue.
OldPromise(d) ==
    /\ d \in DOMAIN promised /\ promised'[d] = promised[d]
    /\ LiveSub(SubOf(d)) =>
          IF d \in DOMAIN deliveries'
          THEN /\ d \in DOMAIN deliveries
               /\ deliveries'[d].completedAt = deliveries[d].completedAt
               /\ deliveries'[d].attempts = deliveries[d].attempts
               /\ deliveries'[d].expiresAt = deliveries[d].expiresAt
          ELSE d \in DOMAIN deliveries => promised[d].until <= now

\* PromiseInv survives a step all of whose promises are new, old or withdrawn.
LEMMA PromiseStep ==
  ASSUME TypeOK, TypeOK', PromiseInv, SubsAge, now' >= now,
         \A d \in DOMAIN promised' :
            NewPromise(d) \/ OldPromise(d) \/ WithdrawnPromise(d)
  PROVE  PromiseInv'
<1> SUFFICES ASSUME NEW d \in DOMAIN promised'
             PROVE  /\ subs'[SubOf(d)].st # "absent"
                    /\ subs'[SubOf(d)].st = "live" =>
                         /\ promised'[d].until > now' => d \in DOMAIN deliveries'
                         /\ d \in DOMAIN deliveries' =>
                              /\ ~(deliveries'[d].attempts > 0)
                              /\ promised'[d].until > now' =>
                                   /\ deliveries'[d].completedAt = None
                                   /\ deliveries'[d].expiresAt = promised'[d].until
  BY DEF PromiseInv, LiveSub, Open, Handed
<1>1. CASE NewPromise(d)
  BY <1>1 DEF NewPromise
<1>2. ASSUME d \in DOMAIN promised
      PROVE  /\ subs[SubOf(d)].st # "absent" /\ subs'[SubOf(d)].st # "absent"
             /\ subs'[SubOf(d)].st = "live" => LiveSub(SubOf(d))
  <2>1. SubOf(d) \in SubIds
    BY <1>2 DEF TypeOK, DeliveryIds, SubOf
  <2> QED BY <1>2, <2>1 DEF PromiseInv, SubsAge, LiveSub
<1>3. CASE OldPromise(d)
  <2>1. d \in DOMAIN promised /\ promised'[d] = promised[d]
    BY <1>3 DEF OldPromise
  <2>2. /\ subs[SubOf(d)].st # "absent" /\ subs'[SubOf(d)].st # "absent"
        /\ subs'[SubOf(d)].st = "live" => LiveSub(SubOf(d))
    BY <1>2, <2>1
  <2>3. promised[d].until \in Nat /\ now \in Nat /\ now' \in Nat
    BY <2>1 DEF TypeOK, PromiseRow, Time, Never
  <2>4. ASSUME subs'[SubOf(d)].st = "live", d \in DOMAIN deliveries'
        PROVE  /\ ~(deliveries'[d].attempts > 0)
               /\ promised'[d].until > now' =>
                    /\ deliveries'[d].completedAt = None
                    /\ deliveries'[d].expiresAt = promised'[d].until
    BY <2>1, <2>2, <2>3, <2>4, <1>3 DEF OldPromise, PromiseInv, Open, Handed
  <2>5. ASSUME subs'[SubOf(d)].st = "live", promised'[d].until > now'
        PROVE  d \in DOMAIN deliveries'
    BY <2>1, <2>2, <2>3, <2>5, <1>3 DEF OldPromise, PromiseInv
  <2> QED BY <2>2, <2>4, <2>5
<1>4. CASE WithdrawnPromise(d)
  <2>1. d \in DOMAIN promised /\ promised'[d].until = 0
    BY <1>4 DEF WithdrawnPromise
  <2>2. ~(promised'[d].until > now')
    BY <2>1 DEF TypeOK
  <2>3. ASSUME LiveSub(SubOf(d)), d \in DOMAIN deliveries'
        PROVE  ~(deliveries'[d].attempts > 0)
    BY <1>4, <2>1, <2>3 DEF WithdrawnPromise, PromiseInv, Handed
  <2> QED BY <1>2, <2>1, <2>2, <2>3
<1> QED BY <1>1, <1>3, <1>4

\* Steps that leave the deliveries alone.
LEMMA DeliveriesUnchanged ==
  ASSUME TypeOK, TypeOK', PromiseInv, SubsAge, now' >= now,
         UNCHANGED <<deliveries, promised>>
  PROVE  PromiseInv'
<1>1. \A d \in DOMAIN promised' : OldPromise(d)
  BY DEF OldPromise
<1> QED BY <1>1, PromiseStep

\* PromiseInv survives a fan-out that leaves alone the promised deliveries
\* it does not hand out.
LEMMA FannedOutPromises ==
  ASSUME TypeOK, TypeOK', PromiseInv, now' >= now, SubsAge,
         \A s \in SubIds : subs'[s].st = subs[s].st,
         NEW to, NEW handed, FannedOut(NewIds(to)), Promise(to, handed),
         \A d \in DOMAIN promised \ (handed \cup NewIds(to)) :
            LiveSub(SubOf(d)) /\ d \in DOMAIN deliveries =>
               deliveries'[d] = deliveries[d]
  PROVE  PromiseInv'
<1> DEFINE N == NewIds(to)
<1>1. ASSUME NEW d \in N
      PROVE  NewPromise(d)
  <2>1. promised'[d].until = After(subs[d[2]].messageTTL)
    BY DEF Promise
  <2>2. SubOf(d) \in SubIds /\ SubOf(d) = d[2]
    BY NewIdsType DEF SubOf
  <2> QED BY <2>1, <2>2 DEF NewPromise, FannedOut, LiveSub
<1>2. ASSUME NEW d \in DOMAIN promised', d \notin N
      PROVE  OldPromise(d)
  <2>1. d \in DOMAIN promised \ handed /\ promised'[d] = promised[d]
    BY <1>2 DEF Promise
  <2> QED BY <1>2, <2>1 DEF OldPromise, FannedOut
<1> QED BY <1>1, <1>2, PromiseStep

-----------------------------------------------------------------------------
\* What deadLetterDelivery and the rewriting leave of an existing row.
LEMMA ProcessedRows ==
  ASSUME NEW q, NEW upd, NEW handed, Process(q, upd, handed),
         NEW d \in DOMAIN deliveries, d \notin NewIds(DeadLettersTo(q))
  PROVE  deliveries'[d] = IF d \notin Range(q) THEN deliveries[d]
                          ELSE IF Exhausted(d) THEN Complete(d) ELSE upd[d]
<1>1. PICK nb : deliveries' =
         [e \in DOMAIN Processed(q, upd) \cup NewIds(DeadLettersTo(q)) |->
            IF e \in NewIds(DeadLettersTo(q))
            THEN NewDelivery(SourcesOf(q)[e[1] - nextId], e[2], nb[e])
            ELSE Processed(q, upd)[e]]
  BY DEF Process, Fanout
<1> QED BY <1>1 DEF Processed

\* A delivery nobody received has no attempts, so no limit is reached:
\* HasFullDeadLetterConfig asks for a positive one.
LEMMA PromisedNotExhausted ==
  ASSUME TypeOK, PromiseInv, NEW d \in DOMAIN promised \cap DOMAIN deliveries,
         LiveSub(SubOf(d))
  PROVE  ~Handed(d) /\ ~Exhausted(d)
<1>1. ~Handed(d) /\ deliveries[d].attempts \in Nat
  BY DEF PromiseInv, TypeOK, DeliveryRow
<1>2. SubOf(d) \in SubIds /\ subs[SubOf(d)].max \in Nat
  BY DEF TypeOK, SubRow, DeliveryIds, SubOf
<1> QED BY <1>1, <1>2 DEF Exhausted, HasFullDeadLetterConfig, Handed

\* PublishMessage keeps the promises made so far and makes its own.
LEMMA PublishPromise ==
  ASSUME TypeOK, TypeOK', ReferencesResolve, PromiseInv, NEW t \in TopicIds,
         NEW k \in Keys, NEW a \in Attrs, PublishMessage(t, k, a)
  PROVE  PromiseInv'
<1> DEFINE m == [topic |-> t, key |-> k, attrs |-> a, publishedAt |-> now]
           src == [i \in {1} |-> nextId + 1]
           to == [i \in {1} |-> Subscribers(t, m)]
<1>1. Fanout(messages', src, to, deliveries) /\ Promise(to, {})
  BY DEF PublishMessage
<1>2. deliveries \in [DOMAIN deliveries -> DeliveryRow]
  BY DEF TypeOK
<1>3. ASSUME NEW i \in DOMAIN to, NEW s \in to[i]
      PROVE  LiveSub(s) /\ src[i] \in Nat /\ src[i] \in DOMAIN messages'
  BY DEF Subscribers, TypeOK, PublishMessage
<1>4. now' >= now /\ subs' = subs /\ SubsAge
  BY DEF PublishMessage, TypeOK, SubsAge
<1> HIDE DEF src, to
<1>5. FannedOut(NewIds(to))
  BY <1>1, <1>2, <1>3, FanoutStep
<1>6. \A d \in DOMAIN deliveries \ NewIds(to) : deliveries'[d] = deliveries[d]
  BY <1>1 DEF Fanout
<1> QED BY <1>1, <1>4, <1>5, <1>6, FannedOutPromises

\* A batch keeps the promises if it hands out every promised delivery it
\* rewrites.
LEMMA ProcessPromise ==
  ASSUME TypeOK, TypeOK', PromiseInv, UNCHANGED now,
         \A s \in SubIds : subs'[s].st = subs[s].st,
         NEW q, NEW upd, NEW handed, Process(q, upd, handed),
         FannedOut(NewIds(DeadLettersTo(q))),
         \A d \in DOMAIN promised \cap DOMAIN deliveries \cap Range(q) :
            LiveSub(SubOf(d)) /\ ~Exhausted(d) /\ ~Handed(d) => d \in handed
  PROVE  PromiseInv'
<1> DEFINE N == NewIds(DeadLettersTo(q))
<1>1. ASSUME NEW d \in DOMAIN promised \ (handed \cup N),
             LiveSub(SubOf(d)), d \in DOMAIN deliveries
      PROVE  deliveries'[d] = deliveries[d]
  <2>1. ~Handed(d) /\ ~Exhausted(d)
    BY <1>1, PromisedNotExhausted
  <2>2. d \notin Range(q)
    BY <1>1, <2>1
  <2> QED BY <1>1, <2>2, ProcessedRows
<1>2. Promise(DeadLettersTo(q), handed)
  BY DEF Process
<1>3. SubsAge /\ now' >= now
  BY DEF SubsAge, TypeOK
<1> QED BY <1>1, <1>2, <1>3, FannedOutPromises

\* GetSubscriptionMessages hands out what it rewrites; the exhausted ones were
\* promised to nobody.
LEMMA PullPromise ==
  ASSUME TypeOK, TypeOK', ReferencesResolve, PromiseInv, NEW s \in SubIds,
         GetSubscriptionMessages(s)
  PROVE  PromiseInv'
<1> DEFINE out(q) == {d \in Range(q) : ~Exhausted(d)}
           upd(q) == [d \in out(q) |-> Attempt(d)]
<1>1. PICK q \in Batches({d \in DeliveriesOf(s) : Deliverable(d)}) :
         /\ Process(q, upd(q), out(q))
         /\ FannedOut(NewIds(DeadLettersTo(q)))
  BY PullFansOut
<1>2. /\ \A d \in DOMAIN promised \cap DOMAIN deliveries \cap Range(q) :
            LiveSub(SubOf(d)) /\ ~Exhausted(d) /\ ~Handed(d) => d \in out(q)
      /\ UNCHANGED now /\ RefreshExpiry(s) /\ LiveSub(s)
  BY DEF GetSubscriptionMessages
<1>3. \A o \in SubIds : subs'[o].st = subs[o].st
  BY <1>2, RefreshExpiryType
<1> HIDE DEF out, upd
<1> QED BY <1>1, <1>2, <1>3, ProcessPromise

\* A nack names deliveries handed out before.
LEMMA NackPromise ==
  ASSUME TypeOK, TypeOK', ReferencesResolve, PromiseInv, NackDeliveries
  PROVE  PromiseInv'
<1> DEFINE upd(q) == [d \in Range(q) |-> Backoff(d)]
<1>1. PICK q \in Batches({d \in KnownOpen : ~Expired(d)}) :
         Process(q, upd(q), {}) /\ FannedOut(NewIds(DeadLettersTo(q)))
  BY NackFansOut
<1>2. \A d \in Range(q) : Handed(d)
  BY BatchRange DEF KnownOpen
<1>3. UNCHANGED <<now, subs>>
  BY DEF NackDeliveries
<1> HIDE DEF upd
<1> QED BY <1>1, <1>2, <1>3, ProcessPromise

\* The background run selects deliveries with attempts spent.
LEMMA DeadLetterPromise ==
  ASSUME TypeOK, TypeOK', ReferencesResolve, PromiseInv, DeadLetterDeliveries
  PROVE  PromiseInv'
<1>1. PICK q \in Batches({d \in DOMAIN deliveries : DeadLetterDue(d)}) :
         Process(q, deliveries, {}) /\ FannedOut(NewIds(DeadLettersTo(q)))
  BY DeadLetterFansOut
<1>2. \A d \in Range(q) : Exhausted(d)
  BY BatchRange DEF DeadLetterDue
<1>3. UNCHANGED <<now, subs>>
  BY DEF DeadLetterDeliveries
<1> QED BY <1>1, <1>2, <1>3, ProcessPromise

\* A step that rewrites only deliveries handed out before keeps promises.
LEMMA HandedOnly ==
  ASSUME TypeOK, TypeOK', PromiseInv, UNCHANGED <<now, subs, promised>>,
         DOMAIN deliveries' = DOMAIN deliveries,
         \A d \in DOMAIN deliveries : ~Handed(d) => deliveries'[d] = deliveries[d]
  PROVE  PromiseInv'
<1>1. \A d \in DOMAIN promised' : OldPromise(d)
  BY DEF OldPromise, PromiseInv
<1>2. SubsAge /\ now' >= now
  BY DEF SubsAge, TypeOK
<1> QED BY <1>1, <1>2, PromiseStep

\* An ack names deliveries handed out before.
LEMMA AckPromise ==
  ASSUME TypeOK, TypeOK', PromiseInv, AckDeliveries
  PROVE  PromiseInv'
<1>1. PICK q \in Batches(KnownOpen) :
         deliveries' = [d \in DOMAIN deliveries |->
                          IF d \in Range(q) THEN Complete(d) ELSE deliveries[d]]
  BY DEF AckDeliveries
<1>2. \A d \in Range(q) : Handed(d)
  BY BatchRange DEF KnownOpen
<1> QED BY <1>1, <1>2, HandedOnly DEF AckDeliveries

\* A deadline change names deliveries handed out before.
LEMMA DelayPromise ==
  ASSUME TypeOK, TypeOK', PromiseInv, NEW n \in Delays, DelayDeliveries(n)
  PROVE  PromiseInv'
<1> DEFINE E == {d \in KnownOpen : n = 0 \/ deliveries[d].attemptAt < After(n)}
<1>1. PICK q \in Batches(E) :
         deliveries' = [d \in DOMAIN deliveries |->
                          IF d \in Range(q)
                          THEN [deliveries[d] EXCEPT !.attemptAt = After(n)]
                          ELSE deliveries[d]]
  BY DEF DelayDeliveries
<1>2. \A d \in Range(q) : Handed(d)
  BY BatchRange DEF KnownOpen
<1> QED BY <1>1, <1>2, HandedOnly DEF DelayDeliveries

\* A seek withdraws the promises of what it acknowledges and promises anew
\* what it reopens, if nobody received it.
LEMMA SoughtPromise ==
  ASSUME TypeOK, TypeOK', PromiseInv, NEW s \in SubIds, NEW ack, NEW reopen,
         Sought(s, ack, reopen), UNCHANGED <<now, subs>>,
         LiveSub(s), ack \subseteq DeliveriesOf(s),
         \A d \in reopen : d \in DeliveriesOf(s) /\ ~Open(d)
  PROVE  PromiseInv'
<1>1. DOMAIN deliveries' = DOMAIN deliveries /\ DOMAIN promised' = DOMAIN promised
  BY DEF Sought
<1>2. ASSUME NEW d \in DOMAIN promised
      PROVE  NewPromise(d) \/ OldPromise(d) \/ WithdrawnPromise(d)
  <2>0. promised[d] \in PromiseRow /\ d \in DeliveryIds
    BY DEF TypeOK
  <2>1. CASE d \in ack
    <3>1. promised'[d] = [promised[d] EXCEPT !.until = 0]
      BY <2>1 DEF Sought
    <3>2. promised'[d].until = 0
      BY <2>0, <3>1 DEF PromiseRow
    <3>3. d \in DOMAIN deliveries /\ deliveries'[d] = Complete(d)
      BY <2>1 DEF Sought, DeliveriesOf
    <3>4. deliveries'[d].attempts = deliveries[d].attempts
      BY <3>3 DEF Complete, TypeOK, DeliveryRow
    <3> QED BY <3>2, <3>3, <3>4 DEF WithdrawnPromise
  <2>2. CASE d \in reopen /\ d \notin ack
    <3>1. promised'[d] = [promised[d] EXCEPT !.until = After(subs[s].messageTTL)]
      BY <2>2 DEF Sought
    <3>2. promised'[d].until = After(subs[s].messageTTL)
      BY <2>0, <3>1 DEF PromiseRow
    <3>3. /\ d \in DOMAIN deliveries /\ SubOf(d) = s
          /\ deliveries'[d] = [deliveries[d] EXCEPT
                                 !.completedAt = None, !.attemptAt = now,
                                 !.expiresAt = After(subs[s].messageTTL)]
      BY <2>2 DEF Sought, DeliveriesOf
    <3>4. deliveries[d] \in DeliveryRow /\ deliveries[d].attempts \in Nat
      BY <3>3 DEF TypeOK, DeliveryRow
    <3>5. /\ deliveries'[d].completedAt = None
          /\ deliveries'[d].attempts = deliveries[d].attempts
          /\ deliveries'[d].expiresAt = After(subs[s].messageTTL)
      BY <3>3, <3>4 DEF DeliveryRow
    <3>6. deliveries[d].attempts = 0
      BY <3>3, <3>4 DEF PromiseInv, Handed
    <3> QED BY <1>1, <3>2, <3>3, <3>5, <3>6 DEF NewPromise, LiveSub
  <2>3. CASE d \notin ack /\ d \notin reopen
    <3>1. promised'[d] = [promised[d] EXCEPT !.until = @]
      BY <2>3 DEF Sought
    <3>2. promised'[d] = promised[d]
      BY <2>0, <3>1 DEF PromiseRow
    <3>3. d \in DOMAIN deliveries => deliveries'[d] = deliveries[d]
      BY <2>3 DEF Sought
    <3> QED BY <1>1, <3>2, <3>3 DEF OldPromise
  <2> QED BY <2>1, <2>2, <2>3
<1>3. SubsAge /\ now' >= now
  BY DEF SubsAge, TypeOK
<1> QED BY <1>1, <1>2, <1>3, PromiseStep

\* Both seeks are of that form.
LEMMA SeekPromise ==
  ASSUME TypeOK, TypeOK', PromiseInv, Seek
  PROVE  PromiseInv'
<1>1. PICK s \in SubIds :
         \/ \E time \in 0 .. MaxNow : SeekSubscriptionToTime(s, time)
         \/ \E n \in SnapNames : SeekSubscriptionToSnapshot(s, n)
  BY DEF Seek
<1>2. ASSUME NEW time \in 0 .. MaxNow, SeekSubscriptionToTime(s, time)
      PROVE  PromiseInv'
  <2> DEFINE mine == {d \in DeliveriesOf(s) : Retained(d)}
             ack == {d \in mine : deliveries[d].publishedAt <= time /\ Open(d)}
             reopen == {d \in mine : deliveries[d].publishedAt > time /\ ~Open(d)}
  <2>1. /\ Sought(s, ack, reopen) /\ LiveSub(s) /\ UNCHANGED <<now, subs>>
    BY <1>2 DEF SeekSubscriptionToTime
  <2>2. /\ ack \subseteq DeliveriesOf(s)
        /\ \A d \in reopen : d \in DeliveriesOf(s) /\ ~Open(d)
    OBVIOUS
  <2> HIDE DEF ack, reopen
  <2> QED BY <2>1, <2>2, SoughtPromise
<1>3. ASSUME NEW n \in SnapNames, SeekSubscriptionToSnapshot(s, n)
      PROVE  PromiseInv'
  <2> DEFINE mine == DeliveriesOf(s)
             early(d) == deliveries[d].publishedAt < snapshots[n].ackedBefore
             listed(d) == deliveries[d].msg \in snapshots[n].acked
             ack == {d \in mine : Retained(d) /\ Open(d)
                                  /\ (early(d) \/ listed(d))}
             reopen == {d \in mine : ~early(d) /\ ~listed(d) /\ ~Open(d)}
  <2>1. /\ Sought(s, ack, reopen) /\ LiveSub(s) /\ UNCHANGED <<now, subs>>
    BY <1>3 DEF SeekSubscriptionToSnapshot
  <2>2. /\ ack \subseteq DeliveriesOf(s)
        /\ \A d \in reopen : d \in DeliveriesOf(s) /\ ~Open(d)
    OBVIOUS
  <2> HIDE DEF ack, reopen
  <2> QED BY <2>1, <2>2, SoughtPromise
<1> QED BY <1>1, <1>2, <1>3

\* Deleting deliveries that are completed, past their expiry or of a dead
\* subscription breaks no promise.
LEMMA DropPromise ==
  ASSUME TypeOK, TypeOK', PromiseInv, NEW S, DropDeliveries(S),
         UNCHANGED <<now, subs, promised>>,
         \A d \in S : d \in DOMAIN deliveries /\
            (~Open(d) \/ PastExpiry(d) \/ ~LiveSub(SubOf(d)))
  PROVE  PromiseInv'
<1>1. ASSUME NEW d \in DOMAIN deliveries \ S
      PROVE  /\ deliveries'[d].completedAt = deliveries[d].completedAt
             /\ deliveries'[d].attempts = deliveries[d].attempts
             /\ deliveries'[d].expiresAt = deliveries[d].expiresAt
  <2>1. deliveries[d] \in DeliveryRow
    BY DEF TypeOK
  <2> QED BY <2>1 DEF DropDeliveries, DeliveryRow
<1>2. DOMAIN deliveries' = DOMAIN deliveries \ S
  BY DEF DropDeliveries
<1>3. ASSUME NEW d \in DOMAIN promised'
      PROVE  OldPromise(d)
  <2>1. ASSUME LiveSub(SubOf(d)), d \in DOMAIN deliveries, d \in S
        PROVE  promised[d].until <= now
    <3>1. promised[d].until > now =>
             Open(d) /\ deliveries[d].expiresAt = promised[d].until
      BY <2>1 DEF PromiseInv
    <3>2. ~Open(d) \/ deliveries[d].expiresAt < now
      BY <2>1 DEF PastExpiry
    <3>3. promised[d].until \in Nat /\ now \in Nat
      BY DEF TypeOK, PromiseRow, Time, Never
    <3> QED BY <3>1, <3>2, <3>3
  <2> QED BY <1>1, <1>2, <2>1 DEF OldPromise
<1>4. SubsAge /\ now' >= now
  BY DEF SubsAge, TypeOK
<1> QED BY <1>3, <1>4, PromiseStep

\* The three services that prune deliveries delete only such rows.
LEMMA PruneDeliveriesPromise ==
  ASSUME TypeOK, TypeOK', PromiseInv, PruneDeliveries
  PROVE  PromiseInv'
<1>1. UNCHANGED <<now, subs, promised>>
  BY DEF PruneDeliveries, PruneCompletedDeliveries, PruneExpiredDeliveries,
         PruneDeletedSubscriptionDeliveries
<1>2. CASE PruneCompletedDeliveries
  <2>1. PICK S \in PruneSets({d \in DOMAIN deliveries : CompletedLongAgo(d)}) :
           DropDeliveries(S)
    BY <1>2 DEF PruneCompletedDeliveries
  <2>2. \A d \in S : d \in DOMAIN deliveries /\ ~Open(d)
    BY DEF PruneSets, CompletedLongAgo
  <2> QED BY <1>1, <2>1, <2>2, DropPromise
<1>3. CASE PruneExpiredDeliveries
  <2>1. PICK S \in PruneSets({d \in DOMAIN deliveries : PastExpiry(d)}) :
           DropDeliveries(S)
    BY <1>3 DEF PruneExpiredDeliveries
  <2>2. \A d \in S : d \in DOMAIN deliveries /\ PastExpiry(d)
    BY DEF PruneSets
  <2> QED BY <1>1, <2>1, <2>2, DropPromise
<1>4. CASE PruneDeletedSubscriptionDeliveries
  <2>1. PICK S \in PruneSets({d \in DOMAIN deliveries :
                                DeletedLongAgo(subs[SubOf(d)])}) :
           DropDeliveries(S)
    BY <1>4 DEF PruneDeletedSubscriptionDeliveries
  <2>2. \A d \in S : d \in DOMAIN deliveries /\ ~LiveSub(SubOf(d))
    BY DEF PruneSets, DeletedLongAgo, LiveSub
  <2> QED BY <1>1, <2>1, <2>2, DropPromise
<1> QED BY <1>2, <1>3, <1>4 DEF PruneDeliveries

\* The steps that change subscriptions, topics, messages, snapshots or the
\* clock, and no delivery.
LEMMA OtherSteps ==
  ASSUME TypeOK, TypeOK',
         \/ Tick \/ Create \/ Delete \/ Expire \/ Reconfigure \/ Snapshots
         \/ PruneRows
  PROVE  UNCHANGED <<deliveries, promised>> /\ now' >= now /\ SubsAge
<1>1. UNCHANGED <<deliveries, promised>>
  BY DEF Tick, Create, CreateTopic, CreateSubscription, Delete, DeleteTopic,
     DeleteSubscription, Expire, RefreshSubscription,
     DeleteExpiredSubscriptions, Reconfigure, UpdateSubscription,
     SetDeliveryDelay, Snapshots, CreateSnapshot, DeleteSnapshot, PruneRows,
     PruneCompletedMessages, PruneDeletedSubscriptions, PruneDeletedTopics
<1>2. now' >= now
  <2>1. CASE Tick
    BY <2>1 DEF Tick, TypeOK
  <2>2. ASSUME ~Tick
        PROVE  now' = now
    BY <2>2, Zenon DEF Create, CreateTopic, CreateSubscription, Delete,
       DeleteTopic, DeleteSubscription, Expire, RefreshSubscription,
       DeleteExpiredSubscriptions, Reconfigure, UpdateSubscription,
       SetDeliveryDelay, Snapshots, CreateSnapshot, DeleteSnapshot, PruneRows,
       PruneCompletedMessages, PruneDeletedSubscriptions, PruneDeletedTopics
  <2> QED BY <2>1, <2>2 DEF TypeOK
<1>3. SubsAge
  <2>1. ASSUME UNCHANGED subs
        PROVE  SubsAge
    BY <2>1 DEF SubsAge
  <2>2. CASE Tick \/ Snapshots \/ PruneCompletedMessages
    BY <2>1, <2>2 DEF Tick, Snapshots, CreateSnapshot, DeleteSnapshot,
       PruneCompletedMessages
  <2>3. CASE Create
    <3>1. ASSUME NEW s \in SubIds, CreateSubscription(s)
          PROVE  SubsAge
      BY <3>1 DEF CreateSubscription, SubsAge, TypeOK
    <3> QED BY <2>1, <2>3, <3>1 DEF Create, CreateTopic
  <2>4. ASSUME NEW S, MarkDeleted(S)
        PROVE  SubsAge
    <3>1. \A s \in SubIds : subs[s] \in SubRow
      BY DEF TypeOK
    <3> QED BY <2>4, <3>1 DEF MarkDeleted, SubsAge, SubRow
  <2>5. CASE Delete
    BY <2>1, <2>4, <2>5 DEF Delete, DeleteTopic, DeleteSubscription
  <2>6. CASE Expire
    <3>1. ASSUME NEW s \in SubIds, RefreshSubscription(s)
          PROVE  SubsAge
      BY <3>1, RefreshExpiryType DEF RefreshSubscription, SubsAge
    <3> QED BY <2>4, <2>6, <3>1 DEF Expire, DeleteExpiredSubscriptions
  <2>7. CASE Reconfigure
    <3>1. PICK s \in SubIds :
             \/ \E r \in SubRequests, paths \in Masks :
                   UpdateSubscription(s, r, paths)
             \/ \E n \in Delays : SetDeliveryDelay(s, n)
      BY <2>7 DEF Reconfigure
    <3>2. subs[s] \in SubRow
      BY DEF TypeOK
    <3>3. \A o \in SubIds : subs'[o].st = subs[o].st
      <4>1. ASSUME NEW n \in Delays, SetDeliveryDelay(s, n)
            PROVE  \A o \in SubIds : subs'[o].st = subs[o].st
        BY <3>2, <4>1 DEF SetDeliveryDelay, SubRow, TypeOK
      <4>2. ASSUME NEW r \in SubRequests, NEW paths \in Masks,
                   UpdateSubscription(s, r, paths)
            PROVE  \A o \in SubIds : subs'[o].st = subs[o].st
        <5>1. PICK dlt : subs' = [subs EXCEPT ![s] = Updated(subs[s], r, paths, dlt)]
          BY <4>2 DEF UpdateSubscription
        <5>2. Updated(subs[s], r, paths, dlt).st = subs[s].st
          BY <3>2 DEF Updated, SubRow
        <5> QED BY <5>1, <5>2 DEF TypeOK
      <4> QED BY <3>1, <4>1, <4>2
    <3> QED BY <3>3 DEF SubsAge
  <2>8. CASE PruneDeletedSubscriptions
    BY <2>8 DEF PruneDeletedSubscriptions, SubsAge, NoSub
  <2>9. CASE PruneDeletedTopics
    <3>1. \A s \in SubIds : subs[s] \in SubRow
      BY DEF TypeOK
    <3> QED BY <2>9, <3>1 DEF PruneDeletedTopics, SubsAge, SubRow
  <2> QED BY <2>2, <2>3, <2>5, <2>6, <2>7, <2>8, <2>9 DEF PruneRows
<1> QED BY <1>1, <1>2, <1>3

\* So they keep promises.
LEMMA OtherPromise ==
  ASSUME TypeOK, TypeOK', PromiseInv,
         \/ Tick \/ Create \/ Delete \/ Expire \/ Reconfigure \/ Snapshots
         \/ PruneRows
  PROVE  PromiseInv'
BY OtherSteps, DeliveriesUnchanged

-----------------------------------------------------------------------------
\* The inductive invariant.
Inv == TypeOK /\ ReferencesResolve /\ PromiseInv

\* Nothing is promised in the empty database.
LEMMA InitInv == Init => Inv
<1> SUFFICES ASSUME Init PROVE PromiseInv
  BY InitOK DEF Inv
<1> QED BY DEF Init, PromiseInv

\* Every step keeps the invariant.
LEMMA InvStep ==
  ASSUME Inv, [Next]_vars
  PROVE  Inv'
<1>1. TypeOK' /\ ReferencesResolve'
  BY TypeAndReferencesStep DEF Inv
<1> SUFFICES PromiseInv'
  BY <1>1 DEF Inv
<1> USE DEF Inv
<1>2. CASE Publish
  BY <1>1, <1>2, PublishPromise DEF Publish
<1>3. CASE Receive
  BY <1>1, <1>3, PullPromise DEF Receive
<1>4. CASE Respond
  BY <1>1, <1>4, AckPromise, NackPromise, DelayPromise DEF Respond
<1>5. CASE DeadLetterDeliveries
  BY <1>1, <1>5, DeadLetterPromise
<1>6. CASE Seek
  BY <1>1, <1>6, SeekPromise
<1>7. CASE PruneDeliveries
  BY <1>1, <1>7, PruneDeliveriesPromise
<1>8. CASE Tick \/ Create \/ Delete \/ Expire \/ Reconfigure \/ Snapshots \/ PruneRows
  BY <1>1, <1>8, OtherPromise
<1>9. CASE UNCHANGED vars
  BY <1>9 DEF vars, PromiseInv, LiveSub, Open, Handed
<1> QED BY <1>2, <1>3, <1>4, <1>5, <1>6, <1>7, <1>8, <1>9 DEF Next, Prune

\* The invariant is strong enough.
LEMMA InvImpliesPromiseKept == Inv => PromiseKept
BY DEF Inv, PromiseInv, PromiseKept, ReferencesResolve

\* In every behaviour, what a publish or a dead-lettering created stays
\* deliverable until it is handed out, sought away or past its TTL.
THEOREM PromiseAlwaysKept == Spec => []PromiseKept
<1>1. Inv /\ [Next]_vars => Inv'
  BY InvStep
<1> QED BY <1>1, InitInv, InvImpliesPromiseKept, PTL DEF Spec

-----------------------------------------------------------------------------
(* Ordering never wedges a subscription *)

\* A nonempty set of natural numbers has a least element.
LEMMA LeastNatural ==
  ASSUME NEW T \in SUBSET Nat, T # {}
  PROVE  \E n \in T : \A k \in T : n <= k
<1> DEFINE R == OpToRel(<, Nat)
<1>1. IsWellFoundedOn(R, Nat)
  BY NatLessThanWellFounded
<1>2. \A i, j \in Nat : i < j => <<i, j>> \in R
  BY DEF OpToRel
<1> HIDE DEF R
<1>3. PICK n \in T : \A k \in T : ~(<<k, n>> \in R)
  BY <1>1, WFMin
<1>4. \A k \in T : ~(k < n)
  BY <1>2, <1>3, Zenon
<1>5. \A k \in T : n <= k
  BY <1>4
<1> QED BY <1>5

\* not_before points to an earlier delivery of the same subscription.
ChainInv ==
    \A d \in DOMAIN deliveries :
       /\ d[1] <= nextId
       /\ deliveries[d].notBefore # None =>
             /\ SubOf(deliveries[d].notBefore) = SubOf(d)
             /\ deliveries[d].notBefore[1] < d[1]

\* So the earliest outstanding delivery of a subscription is not blocked: its
\* predecessor, were it outstanding, would be earlier still.
LEMMA ChainInvNeverWedges ==
  ASSUME TypeOK, ReferencesResolve, ChainInv
  PROVE  OrderingNeverWedges
<1> SUFFICES ASSUME NEW s \in SubIds, Unacked(s) # {}
             PROVE  \E d \in Unacked(s) : ~Blocked(d)
  BY DEF OrderingNeverWedges
<1> DEFINE T == {d[1] : d \in Unacked(s)}
<1>1. \A d \in Unacked(s) : /\ d \in DOMAIN deliveries /\ SubOf(d) = s
                            /\ Open(d) /\ ~Expired(d)
                            /\ d[1] \in Nat
  BY DEF Unacked, DeliveriesOf, TypeOK, DeliveryIds
<1>2. T \in SUBSET Nat /\ T # {}
  BY <1>1
<1>3. PICK n \in T : \A k \in T : n <= k
  <2> HIDE DEF T
  <2> QED BY <1>2, LeastNatural
<1>4. PICK d \in Unacked(s) : n = d[1]
  OBVIOUS
<1>5. ASSUME Blocked(d)
      PROVE  FALSE
  <2> DEFINE p == deliveries[d].notBefore
  <2>1. p # None /\ Open(p) /\ ~Expired(p)
    BY <1>5 DEF Blocked
  <2>2. p \in DOMAIN deliveries /\ SubOf(p) = s /\ p[1] < d[1]
    BY <1>1, <2>1 DEF ReferencesResolve, ChainInv
  <2>3. p \in Unacked(s)
    BY <2>1, <2>2 DEF Unacked, DeliveriesOf
  <2>4. p[1] \in T /\ p[1] \in Nat /\ d[1] \in Nat
    BY <2>3, <1>1
  <2>5. d[1] <= p[1]
    BY <1>3, <1>4, <2>4
  <2> HIDE DEF p
  <2> QED BY <2>2, <2>4, <2>5
<1> QED BY <1>5

\* ChainInv survives a step that creates no delivery and only clears
\* references.
LEMMA ChainFrame ==
  ASSUME TypeOK, TypeOK', ChainInv, nextId' >= nextId,
         \A d \in DOMAIN deliveries' :
            /\ d \in DOMAIN deliveries
            /\ deliveries'[d].notBefore \in {deliveries[d].notBefore, None}
  PROVE  ChainInv'
<1> SUFFICES ASSUME NEW d \in DOMAIN deliveries'
             PROVE  /\ d[1] <= nextId'
                    /\ deliveries'[d].notBefore # None =>
                         /\ SubOf(deliveries'[d].notBefore) = SubOf(d)
                         /\ deliveries'[d].notBefore[1] < d[1]
  BY DEF ChainInv
<1>1. d[1] \in Nat /\ nextId \in Nat /\ nextId' \in Nat
  BY DEF TypeOK, DeliveryIds
<1> QED BY <1>1 DEF ChainInv

\* A new delivery waits for an older one of its subscription, or a new one
\* created before it.
LEMMA NewChained ==
  ASSUME TypeOK, ChainInv, NEW msgs, NEW src, NEW to,
         NEW nb \in NotBefores(msgs, src, to), NEW d \in NewIds(to),
         nb[d] # None
  PROVE  SubOf(nb[d]) = SubOf(d) /\ nb[d][1] < d[1]
<1>1. nb[d] \in MostRecent(Preceding(msgs, src, to, d))
  BY DEF NotBefores
<1>2. nb[d] \in Preceding(msgs, src, to, d)
  BY <1>1 DEF MostRecent
<1>3. d[1] \in Nat /\ d[1] > nextId /\ nextId \in Nat
  BY NewIdsType DEF TypeOK
<1>4. CASE nb[d] \in DeliveriesOf(d[2])
  <2>1. nb[d] \in DOMAIN deliveries /\ SubOf(nb[d]) = d[2]
    BY <1>4 DEF DeliveriesOf
  <2>2. nb[d][1] <= nextId /\ nb[d][1] \in Nat
    BY <2>1 DEF ChainInv, TypeOK, DeliveryIds
  <2> QED BY <1>3, <2>1, <2>2 DEF SubOf
<1>5. CASE nb[d] \in NewIds(to) /\ nb[d][2] = d[2] /\ nb[d][1] < d[1]
  BY <1>5 DEF SubOf
<1> QED BY <1>2, <1>4, <1>5 DEF Preceding

\* ChainInv survives a fan-out (delivery-utils.go, deliverToSubscription).
LEMMA ChainFanout ==
  ASSUME TypeOK, TypeOK', ChainInv, nextId' >= nextId,
         NEW msgs, NEW src, NEW to, NEW rows,
         Fanout(msgs, src, to, rows), DOMAIN rows = DOMAIN deliveries,
         \A d \in DOMAIN deliveries : rows[d].notBefore = deliveries[d].notBefore,
         \A d \in NewIds(to) : d[1] <= nextId'
  PROVE  ChainInv'
<1>1. PICK nb \in NotBefores(msgs, src, to) :
         deliveries' = [d \in DOMAIN deliveries \cup NewIds(to) |->
                          IF d \in NewIds(to)
                          THEN NewDelivery(src[d[1] - nextId], d[2], nb[d])
                          ELSE rows[d]]
  BY DEF Fanout
<1> SUFFICES ASSUME NEW d \in DOMAIN deliveries'
             PROVE  /\ d[1] <= nextId'
                    /\ deliveries'[d].notBefore # None =>
                         /\ SubOf(deliveries'[d].notBefore) = SubOf(d)
                         /\ deliveries'[d].notBefore[1] < d[1]
  BY DEF ChainInv
<1>2. CASE d \in NewIds(to)
  <2>1. deliveries'[d].notBefore = nb[d]
    BY <1>1, <1>2 DEF NewDelivery
  <2> QED BY <1>2, <2>1, NewChained
<1>3. CASE d \notin NewIds(to)
  <2>1. d \in DOMAIN deliveries /\ deliveries'[d].notBefore = deliveries[d].notBefore
    BY <1>1, <1>3
  <2>2. d[1] \in Nat /\ nextId \in Nat /\ nextId' \in Nat
    BY DEF TypeOK, DeliveryIds
  <2> QED BY <2>1, <2>2 DEF ChainInv
<1> QED BY <1>2, <1>3

\* ChainInv survives PublishMessage.
LEMMA PublishChain ==
  ASSUME TypeOK, TypeOK', ChainInv, NEW t \in TopicIds, NEW k \in Keys,
         NEW a \in Attrs, PublishMessage(t, k, a)
  PROVE  ChainInv'
<1> DEFINE m == [topic |-> t, key |-> k, attrs |-> a, publishedAt |-> now]
           src == [i \in {1} |-> nextId + 1]
           to == [i \in {1} |-> Subscribers(t, m)]
<1>1. Fanout(messages', src, to, deliveries) /\ nextId' = nextId + 1
  BY DEF PublishMessage
<1>2. ASSUME NEW d \in NewIds(to)
      PROVE  d[1] <= nextId'
  <2>1. d[1] - nextId \in {1} /\ d[1] \in Nat /\ nextId \in Nat
    BY NewIdsType DEF TypeOK
  <2> QED BY <1>1, <2>1
<1>3. nextId' >= nextId
  BY <1>1 DEF TypeOK
<1> HIDE DEF src, to
<1> QED BY <1>1, <1>2, <1>3, ChainFanout

\* ChainInv survives a batch with its dead-lettering.
LEMMA ProcessChain ==
  ASSUME TypeOK, TypeOK', ChainInv, NEW q, NEW upd, NEW handed,
         Process(q, upd, handed),
         \A d \in Range(q) \cap DOMAIN deliveries :
            ~Exhausted(d) => upd[d].notBefore = deliveries[d].notBefore
  PROVE  ChainInv'
<1> DEFINE N == NewIds(DeadLettersTo(q))
<1>1. /\ Fanout(messages, SourcesOf(q), DeadLettersTo(q), Processed(q, upd))
      /\ nextId' = IF N = {} THEN nextId ELSE nextId + MaxBatch
  BY DEF Process
<1>2. nextId \in Nat /\ nextId' >= nextId
  <2>1. nextId' = nextId \/ nextId' = nextId + MaxBatch
    BY <1>1, Zenon
  <2> QED BY <2>1, ConstantsAssumption DEF TypeOK
<1>3. ASSUME NEW d \in N
      PROVE  d[1] <= nextId'
  <2>1. d[1] <= nextId + MaxBatch
    BY NewIdsType
  <2>2. nextId' = nextId + MaxBatch
    BY <1>1, Zenon
  <2> QED BY <2>1, <2>2
<1>4. ASSUME NEW d \in DOMAIN deliveries
      PROVE  Processed(q, upd)[d].notBefore = deliveries[d].notBefore
  <2>1. Complete(d).notBefore = deliveries[d].notBefore
    BY DEF Complete, TypeOK, DeliveryRow
  <2> QED BY <2>1 DEF Processed
<1>5. DOMAIN Processed(q, upd) = DOMAIN deliveries
  BY DEF Processed
<1> QED BY <1>1, <1>2, <1>3, <1>4, <1>5, ChainFanout

\* ChainInv survives GetSubscriptionMessages.
LEMMA PullChain ==
  ASSUME TypeOK, TypeOK', ChainInv, NEW s \in SubIds, GetSubscriptionMessages(s)
  PROVE  ChainInv'
<1> DEFINE out(q) == {d \in Range(q) : ~Exhausted(d)}
           upd(q) == [d \in out(q) |-> Attempt(d)]
<1>1. PICK q : Process(q, upd(q), out(q))
  BY DEF GetSubscriptionMessages
<1>2. ASSUME NEW d \in Range(q) \cap DOMAIN deliveries, ~Exhausted(d)
      PROVE  upd(q)[d].notBefore = deliveries[d].notBefore
  <2>1. deliveries[d] \in DeliveryRow
    BY DEF TypeOK
  <2> QED BY <1>2, <2>1 DEF Attempt, DeliveryRow
<1> HIDE DEF upd, out
<1> QED BY <1>1, <1>2, ProcessChain

\* ChainInv survives NackDeliveries.
LEMMA NackChain ==
  ASSUME TypeOK, TypeOK', ChainInv, NackDeliveries
  PROVE  ChainInv'
<1> DEFINE upd(q) == [d \in Range(q) |-> Backoff(d)]
<1>1. PICK q : Process(q, upd(q), {})
  BY DEF NackDeliveries
<1>2. ASSUME NEW d \in Range(q) \cap DOMAIN deliveries
      PROVE  upd(q)[d].notBefore = deliveries[d].notBefore
  <2>1. deliveries[d] \in DeliveryRow
    BY DEF TypeOK
  <2> QED BY <2>1 DEF Backoff, DeliveryRow
<1> HIDE DEF upd
<1> QED BY <1>1, <1>2, ProcessChain

\* ChainInv survives the background dead-letter run.
LEMMA DeadLetterChain ==
  ASSUME TypeOK, TypeOK', ChainInv, DeadLetterDeliveries
  PROVE  ChainInv'
<1>1. PICK q : Process(q, deliveries, {})
  BY DEF DeadLetterDeliveries
<1> QED BY <1>1, ProcessChain

\* Acks, deadline changes and seeks rewrite no reference.
LEMMA RespondSeekChain ==
  ASSUME TypeOK, TypeOK', ChainInv,
         AckDeliveries \/ (\E n \in Delays : DelayDeliveries(n)) \/ Seek
  PROVE  ChainInv'
<1>1. \A d \in DOMAIN deliveries : deliveries[d] \in DeliveryRow
  BY DEF TypeOK
<1>2. nextId' >= nextId
  <2>1. nextId' = nextId
    BY Zenon DEF AckDeliveries, DelayDeliveries, Seek, SeekSubscriptionToTime,
       SeekSubscriptionToSnapshot
  <2> QED BY <2>1 DEF TypeOK
<1>3. CASE AckDeliveries
  <2>1. \A d \in DOMAIN deliveries' :
           /\ d \in DOMAIN deliveries
           /\ deliveries'[d].notBefore = deliveries[d].notBefore
    BY <1>1, <1>3 DEF AckDeliveries, Complete, DeliveryRow
  <2> QED BY <1>2, <2>1, ChainFrame
<1>4. CASE \E n \in Delays : DelayDeliveries(n)
  <2>1. PICK n, q : deliveries' = [d \in DOMAIN deliveries |->
                  IF d \in Range(q)
                  THEN [deliveries[d] EXCEPT !.attemptAt = After(n)]
                  ELSE deliveries[d]]
    BY <1>4 DEF DelayDeliveries
  <2>2. \A d \in DOMAIN deliveries' :
           /\ d \in DOMAIN deliveries
           /\ deliveries'[d].notBefore = deliveries[d].notBefore
    BY <1>1, <2>1 DEF DeliveryRow
  <2> QED BY <1>2, <2>2, ChainFrame
<1>5. CASE Seek
  <2>1. PICK s, ack, reopen : Sought(s, ack, reopen)
    BY <1>5 DEF Seek, SeekSubscriptionToTime, SeekSubscriptionToSnapshot
  <2>2. \A d \in DOMAIN deliveries' :
           /\ d \in DOMAIN deliveries
           /\ deliveries'[d].notBefore = deliveries[d].notBefore
    BY <1>1, <2>1 DEF Sought, Complete, DeliveryRow
  <2> QED BY <1>2, <2>2, ChainFrame
<1> QED BY <1>3, <1>4, <1>5

\* Pruning deliveries only clears references.
LEMMA PruneChain ==
  ASSUME TypeOK, TypeOK', ChainInv, PruneDeliveries
  PROVE  ChainInv'
<1>1. PICK S : DropDeliveries(S)
  BY DEF PruneDeliveries, PruneCompletedDeliveries, PruneExpiredDeliveries,
         PruneDeletedSubscriptionDeliveries
<1>2. nextId' >= nextId
  BY DEF PruneDeliveries, PruneCompletedDeliveries, PruneExpiredDeliveries,
         PruneDeletedSubscriptionDeliveries, TypeOK
<1>3. \A d \in DOMAIN deliveries : deliveries[d] \in DeliveryRow
  BY DEF TypeOK
<1>4. \A d \in DOMAIN deliveries' :
         /\ d \in DOMAIN deliveries
         /\ deliveries'[d].notBefore \in {deliveries[d].notBefore, None}
  BY <1>1, <1>3 DEF DropDeliveries, DeliveryRow
<1> QED BY <1>2, <1>4, ChainFrame

\* The remaining steps leave the deliveries alone.
LEMMA OtherChain ==
  ASSUME TypeOK, TypeOK', ChainInv,
         \/ Tick \/ Create \/ Delete \/ Expire \/ Reconfigure \/ Snapshots
         \/ PruneRows \/ UNCHANGED vars
  PROVE  ChainInv'
<1>1. UNCHANGED <<deliveries, nextId>>
  BY Zenon DEF Tick, Create, CreateTopic, CreateSubscription, Delete,
     DeleteTopic, DeleteSubscription, Expire, RefreshSubscription,
     DeleteExpiredSubscriptions, Reconfigure, UpdateSubscription,
     SetDeliveryDelay, Snapshots, CreateSnapshot, DeleteSnapshot, PruneRows,
     PruneCompletedMessages, PruneDeletedSubscriptions, PruneDeletedTopics, vars
<1> QED BY <1>1 DEF ChainInv

-----------------------------------------------------------------------------
\* The inductive invariant.
OrderInv == TypeOK /\ ReferencesResolve /\ ChainInv

\* There is no delivery in the empty database.
LEMMA InitOrderInv == Init => OrderInv
<1> SUFFICES ASSUME Init PROVE ChainInv
  BY InitOK DEF OrderInv
<1> QED BY DEF Init, ChainInv

\* Every step keeps the invariant.
LEMMA OrderInvStep ==
  ASSUME OrderInv, [Next]_vars
  PROVE  OrderInv'
<1>1. TypeOK' /\ ReferencesResolve'
  BY TypeAndReferencesStep DEF OrderInv
<1>2. ChainInv'
  <2> USE DEF OrderInv
  <2>1. CASE Publish
    BY <1>1, <2>1, PublishChain DEF Publish
  <2>2. CASE Receive
    BY <1>1, <2>2, PullChain DEF Receive
  <2>3. CASE Respond
    BY <1>1, <2>3, RespondSeekChain, NackChain DEF Respond
  <2>4. CASE DeadLetterDeliveries
    BY <1>1, <2>4, DeadLetterChain
  <2>5. CASE Seek
    BY <1>1, <2>5, RespondSeekChain
  <2>6. CASE PruneDeliveries
    BY <1>1, <2>6, PruneChain
  <2>7. CASE \/ Tick \/ Create \/ Delete \/ Expire \/ Reconfigure \/ Snapshots
             \/ PruneRows \/ UNCHANGED vars
    BY <1>1, <2>7, OtherChain
  <2> QED BY <2>1, <2>2, <2>3, <2>4, <2>5, <2>6, <2>7 DEF Next, Prune
<1> QED BY <1>1, <1>2 DEF OrderInv

\* In every behaviour, a subscription with outstanding deliveries has one
\* that ordering does not block, however references were pruned or reopened.
THEOREM OrderingNeverWedgesAlways == Spec => []OrderingNeverWedges
<1>1. OrderInv /\ [Next]_vars => OrderInv'
  BY OrderInvStep
<1>2. OrderInv => OrderingNeverWedges
  BY ChainInvNeverWedges DEF OrderInv
<1> QED BY <1>1, <1>2, InitOrderInv, PTL DEF Spec

-----------------------------------------------------------------------------
(* The tables implement AtLeastOnce *)

\* A live subscription keeps its messages for a positive time, as create and
\* update requests are validated.
RetentionInv == \A s \in SubIds : LiveSub(s) => subs[s].messageTTL > 0

LifeInv == OrderInv /\ RetentionInv

\* No step revives a subscription that has deliveries, or turns back time
\* or the id generator.
Onward ==
    /\ \A s \in SubIds : subs[s].st \in InTable /\ subs'[s].st = "live"
                            => subs[s].st = "live"
    /\ now' >= now /\ nextId' >= nextId

\* What a transaction may do to one delivery, other than in a seek.
SameOrigin(d, row) ==
    /\ row.msg = deliveries[d].msg
    /\ row.publishedAt = deliveries[d].publishedAt
    /\ row.expiresAt = deliveries[d].expiresAt
    /\ row.notBefore = deliveries[d].notBefore

\* Left open or completed as it was, and at most attempted once more; only the
\* deadline of what was handed out moves.
KeptAs(d, row) ==
    /\ SameOrigin(d, row)
    /\ row.completedAt = deliveries[d].completedAt
    /\ \/ /\ row.attempts = deliveries[d].attempts
          /\ ~Handed(d) => row.attemptAt = deliveries[d].attemptAt
       \/ /\ row.attempts = deliveries[d].attempts + 1
          /\ Deliverable(d) /\ ~Exhausted(d) /\ LiveSub(SubOf(d))

\* Acknowledged or dead-lettered.
CompletedAs(d, row) ==
    /\ SameOrigin(d, row)
    /\ Handed(d) /\ row.completedAt # None
    /\ row.attempts = deliveries[d].attempts

KeepsRow(d) ==
    /\ d \in DOMAIN deliveries /\ d \in DOMAIN deliveries'
    /\ KeptAs(d, deliveries'[d])
CompletesRow(d) ==
    /\ d \in DOMAIN deliveries /\ d \in DOMAIN deliveries'
    /\ CompletedAs(d, deliveries'[d])
CreatesRow(d) ==
    /\ d[1] > nextId /\ d \notin DOMAIN deliveries /\ d \in DOMAIN deliveries'
    /\ deliveries'[d].completedAt = None /\ deliveries'[d].attempts = 0
    /\ deliveries'[d].publishedAt = now
NoRow(d) == d \notin DOMAIN deliveries /\ d \notin DOMAIN deliveries'

\* What every transaction does to each row, seeks and prune services excepted.
Works == \A d \in DeliveryIds :
            KeepsRow(d) \/ CompletesRow(d) \/ CreatesRow(d) \/ NoRow(d)

\* The moves of AtLeastOnce this amounts to.
WorkMoves == Promises!Accepting \cup Promises!Handing \cup Promises!Acking
                \cup Promises!Lapsing

\* The step moves every delivery by one of the moves.
Moves(moves) ==
    \A d \in Ids : StateOf(d)' = StateOf(d)
                   \/ <<StateOf(d), StateOf(d)'>> \in moves

LEMMA IdsType ==
    ASSUME NEW d \in Ids
    PROVE  d \in DeliveryIds /\ d[1] \in Nat /\ SubOf(d) \in SubIds
BY DEF Ids, DeliveryIds, SubOf

\* Such a step is a step of AtLeastOnce, if the transaction may make it.
LEMMA MovesRefine ==
    ASSUME \/ Moves(WorkMoves)
           \/ PruneDeliveries /\ Moves(Promises!Forgetting)
           \/ Seek /\ Moves(Promises!Seeking)
    PROVE  Promises!StateNext /\ PromiseMoves
<1>1. \A d \in Ids : StateOf(d)' \in Promises!States
  BY DEF StateOf, Promises!States
<1>2. /\ Moves(WorkMoves) => Promises!Work
      /\ Moves(Promises!Forgetting) => Promises!Forget
      /\ Moves(Promises!Seeking) => Promises!Seek
  BY DEF Moves, WorkMoves, Promises!Work, Promises!Forget, Promises!Seek,
     Promises!Step
<1>3. [d \in Ids |-> StateOf(d)]' \in [Ids -> Promises!States]
  BY <1>1
<1>4. PromiseMoves
  BY <1>2, Zenon DEF PromiseMoves
<1> QED BY <1>2, <1>3, <1>4 DEF Promises!StateNext

\* A row that is kept may be handed out or lapse.
LEMMA KeptMoves ==
    ASSUME TypeOK, TypeOK', ReferencesResolve, Onward, NEW d \in Ids,
           KeepsRow(d)
    PROVE  \/ StateOf(d)' = StateOf(d)
           \/ <<StateOf(d), StateOf(d)'>> \in WorkMoves
<1>1. SubOf(d) \in SubIds /\ subs[SubOf(d)].st \in InTable
  BY IdsType DEF KeepsRow, ReferencesResolve
<1>2. /\ now \in Nat /\ now' \in Nat /\ now' >= now
      /\ deliveries[d].expiresAt \in Nat
      /\ deliveries[d].attempts \in Nat /\ deliveries'[d].attempts \in Nat
  BY DEF KeepsRow, Onward, TypeOK, DeliveryRow, Time, Never
<1> USE DEF KeepsRow, KeptAs, SameOrigin
<1>3. LiveSub(SubOf(d))' => LiveSub(SubOf(d))
  BY <1>1 DEF Onward, LiveSub
<1>4. Expired(d) => Expired(d)'
  BY <1>2 DEF Expired
<1>5. Handed(d) => Handed(d)'
  BY <1>2 DEF Handed
<1>6. Open(d)' = Open(d) /\ d \in DOMAIN deliveries /\ d \in DOMAIN deliveries'
  BY DEF Open
<1> QED BY <1>3, <1>4, <1>5, <1>6
        DEF StateOf, WorkMoves, Promises!Handing, Promises!Lapsing

LEMMA WorksMoves ==
    ASSUME TypeOK, TypeOK', ReferencesResolve, Onward, Works
    PROVE  Moves(WorkMoves)
<1> SUFFICES ASSUME NEW d \in Ids
             PROVE  \/ StateOf(d)' = StateOf(d)
                    \/ <<StateOf(d), StateOf(d)'>> \in WorkMoves
  BY DEF Moves
<1>0. d[1] \in Nat /\ nextId \in Nat /\ nextId' \in Nat /\ nextId' >= nextId
  BY IdsType DEF TypeOK, Onward
<1>1. CASE KeepsRow(d)
  BY <1>1, KeptMoves
<1>2. CASE CompletesRow(d)
  <2>1. StateOf(d)' = "done" /\ StateOf(d) \in {"done", "lapsed", "handed"}
    BY <1>2 DEF CompletesRow, CompletedAs, StateOf, Open
  <2> QED BY <2>1 DEF WorkMoves, Promises!Acking
<1>3. CASE CreatesRow(d)
  <2>1. StateOf(d) = "none"
    BY <1>0, <1>3 DEF CreatesRow, StateOf
  <2>2. StateOf(d)' \in {"lapsed", "queued"}
    BY <1>3 DEF CreatesRow, StateOf, Open, Handed
  <2> QED BY <2>1, <2>2 DEF WorkMoves, Promises!Accepting
<1>4. CASE NoRow(d)
  BY <1>0, <1>4 DEF NoRow, StateOf, WorkMoves, Promises!Accepting
<1> QED BY <1>1, <1>2, <1>3, <1>4, IdsType DEF Works

-----------------------------------------------------------------------------
\* What a fan-out creates is new; the rest is as the rows of the batch say.
LEMMA FanoutWorks ==
    ASSUME TypeOK, TypeOK', ChainInv, NEW to, FannedOut(NewIds(to)),
           \A d \in DOMAIN deliveries \ NewIds(to) :
              KeepsRow(d) \/ CompletesRow(d)
    PROVE  Works
<1> SUFFICES ASSUME NEW d \in DeliveryIds
             PROVE  KeepsRow(d) \/ CompletesRow(d) \/ CreatesRow(d) \/ NoRow(d)
  BY DEF Works
<1>1. CASE d \in NewIds(to)
  <2>1. d[1] > nextId /\ d[1] \in Nat /\ nextId \in Nat
    BY <1>1, NewIdsType DEF TypeOK
  <2>2. d \notin DOMAIN deliveries
    BY <2>1 DEF ChainInv
  <2> QED BY <1>1, <2>1, <2>2 DEF FannedOut, CreatesRow
<1>2. CASE d \notin NewIds(to)
  BY <1>2 DEF FannedOut, NoRow
<1> QED BY <1>1, <1>2

\* An exhausted delivery was handed out: its limit is positive.
LEMMA ExhaustedHanded ==
    ASSUME TypeOK, NEW d \in DOMAIN deliveries, Exhausted(d)
    PROVE  Handed(d)
<1>1. deliveries[d].attempts \in Nat /\ SubOf(d) \in SubIds
  BY DEF TypeOK, DeliveryRow, DeliveryIds, SubOf
<1>2. subs[SubOf(d)].max \in Nat
  BY <1>1 DEF TypeOK, SubRow
<1> QED BY <1>1, <1>2 DEF Exhausted, HasFullDeadLetterConfig, Handed

\* Completing a delivery that was handed out.
LEMMA CompleteRow ==
    ASSUME TypeOK, NEW d \in DOMAIN deliveries, Handed(d)
    PROVE  CompletedAs(d, Complete(d))
<1>1. deliveries[d] \in DeliveryRow /\ now # None
  BY NoneAssumption DEF TypeOK
<1> QED BY <1>1 DEF Complete, CompletedAs, SameOrigin, DeliveryRow

\* PublishMessage creates rows.
LEMMA PublishWorks ==
    ASSUME OrderInv, TypeOK', NEW t \in TopicIds, NEW k \in Keys,
           NEW a \in Attrs, PublishMessage(t, k, a)
    PROVE  Works /\ Onward
<1> USE DEF OrderInv
<1> DEFINE m == [topic |-> t, key |-> k, attrs |-> a, publishedAt |-> now]
           src == [i \in {1} |-> nextId + 1]
           to == [i \in {1} |-> Subscribers(t, m)]
<1>1. Fanout(messages', src, to, deliveries)
  BY DEF PublishMessage
<1>2. deliveries \in [DOMAIN deliveries -> DeliveryRow]
  BY DEF TypeOK
<1>3. ASSUME NEW i \in DOMAIN to, NEW s \in to[i]
      PROVE  LiveSub(s) /\ src[i] \in Nat /\ src[i] \in DOMAIN messages'
  BY DEF Subscribers, TypeOK, PublishMessage
<1>4. Onward
  BY DEF PublishMessage, TypeOK, Onward
<1> HIDE DEF src, to
<1>5. FannedOut(NewIds(to))
  BY <1>1, <1>2, <1>3, FanoutStep
<1>6. \A d \in DOMAIN deliveries \ NewIds(to) : deliveries'[d] = deliveries[d]
  BY <1>1 DEF Fanout
<1>7. \A d \in DOMAIN deliveries \ NewIds(to) : KeepsRow(d)
  BY <1>5, <1>6 DEF KeepsRow, KeptAs, SameOrigin, FannedOut
<1> QED BY <1>4, <1>5, <1>7, FanoutWorks

\* A batch completes what is exhausted and keeps the rest.
LEMMA ProcessWorks ==
    ASSUME OrderInv, TypeOK', NEW q, NEW upd, NEW handed,
           Process(q, upd, handed), FannedOut(NewIds(DeadLettersTo(q))),
           UNCHANGED now, \A s \in SubIds : subs'[s].st = subs[s].st,
           \A d \in Range(q) \cap DOMAIN deliveries :
              ~Exhausted(d) => KeptAs(d, upd[d])
    PROVE  Works /\ Onward
<1> USE DEF OrderInv
<1> DEFINE N == NewIds(DeadLettersTo(q))
<1>1. nextId' >= nextId
  <2>1. nextId' = nextId \/ nextId' = nextId + MaxBatch
    BY Zenon DEF Process
  <2> QED BY <2>1, ConstantsAssumption DEF TypeOK
<1>2. Onward
  BY <1>1 DEF Onward, TypeOK
<1>3. ASSUME NEW d \in DOMAIN deliveries \ N
      PROVE  KeepsRow(d) \/ CompletesRow(d)
  <2>0. d \in DOMAIN deliveries'
    BY DEF FannedOut
  <2>1. deliveries[d] \in DeliveryRow
    BY DEF TypeOK
  <2>2. CASE d \notin Range(q)
    <3>1. deliveries'[d] = deliveries[d]
      BY <2>2, ProcessedRows
    <3> QED BY <2>0, <3>1 DEF KeepsRow, KeptAs, SameOrigin
  <2>3. CASE d \in Range(q) /\ Exhausted(d)
    <3>1. deliveries'[d] = Complete(d)
      BY <2>3, ProcessedRows
    <3> QED BY <2>0, <2>1, <2>3, <3>1, ExhaustedHanded, CompleteRow
            DEF CompletesRow
  <2>4. CASE d \in Range(q) /\ ~Exhausted(d)
    <3>1. deliveries'[d] = upd[d]
      BY <2>4, ProcessedRows
    <3> QED BY <2>0, <2>4, <3>1 DEF KeepsRow
  <2> QED BY <2>2, <2>3, <2>4
<1> HIDE DEF N
<1>4. Works
  BY <1>3, FanoutWorks DEF N
<1> QED BY <1>2, <1>4

LEMMA PullWorks ==
    ASSUME OrderInv, TypeOK', NEW s \in SubIds, GetSubscriptionMessages(s)
    PROVE  Works /\ Onward
<1> USE DEF OrderInv
<1> DEFINE out(q) == {d \in Range(q) : ~Exhausted(d)}
           upd(q) == [d \in out(q) |-> Attempt(d)]
<1>1. PICK q \in Batches({d \in DeliveriesOf(s) : Deliverable(d)}) :
         /\ Process(q, upd(q), out(q))
         /\ FannedOut(NewIds(DeadLettersTo(q)))
  BY PullFansOut
<1>2. UNCHANGED now /\ \A o \in SubIds : subs'[o].st = subs[o].st
  BY RefreshExpiryType DEF GetSubscriptionMessages
<1>3. ASSUME NEW d \in Range(q) \cap DOMAIN deliveries, ~Exhausted(d)
      PROVE  KeptAs(d, upd(q)[d])
  <2>1. deliveries[d] \in DeliveryRow
    BY DEF TypeOK
  <2>2. upd(q)[d] = Attempt(d)
    BY <1>3
  <2>3. SameOrigin(d, Attempt(d))
    BY <2>1 DEF Attempt, SameOrigin, DeliveryRow
  <2>4. /\ Attempt(d).completedAt = deliveries[d].completedAt
        /\ Attempt(d).attempts = deliveries[d].attempts + 1
    BY <2>1 DEF Attempt, DeliveryRow
  <2>5. Deliverable(d) /\ LiveSub(SubOf(d))
    BY <1>1, BatchRange DEF DeliveriesOf, GetSubscriptionMessages
  <2> QED BY <1>3, <2>2, <2>3, <2>4, <2>5 DEF KeptAs
<1> HIDE DEF upd, out
<1> QED BY <1>1, <1>2, <1>3, ProcessWorks

LEMMA NackWorks ==
    ASSUME OrderInv, TypeOK', NackDeliveries
    PROVE  Works /\ Onward
<1> USE DEF OrderInv
<1> DEFINE upd(q) == [d \in Range(q) |-> Backoff(d)]
<1>1. PICK q \in Batches({d \in KnownOpen : ~Expired(d)}) :
         Process(q, upd(q), {}) /\ FannedOut(NewIds(DeadLettersTo(q)))
  BY NackFansOut
<1>2. UNCHANGED <<now, subs>>
  BY DEF NackDeliveries
<1>3. ASSUME NEW d \in Range(q) \cap DOMAIN deliveries
      PROVE  KeptAs(d, upd(q)[d])
  <2>1. deliveries[d] \in DeliveryRow
    BY DEF TypeOK
  <2>2. Handed(d)
    BY BatchRange DEF KnownOpen
  <2> QED BY <2>1, <2>2 DEF Backoff, DeliveryRow, KeptAs, SameOrigin
<1> HIDE DEF upd
<1> QED BY <1>1, <1>2, <1>3, ProcessWorks

LEMMA DeadLetterWorks ==
    ASSUME OrderInv, TypeOK', DeadLetterDeliveries
    PROVE  Works /\ Onward
<1> USE DEF OrderInv
<1>1. PICK q \in Batches({d \in DOMAIN deliveries : DeadLetterDue(d)}) :
         Process(q, deliveries, {}) /\ FannedOut(NewIds(DeadLettersTo(q)))
  BY DeadLetterFansOut
<1>2. UNCHANGED <<now, subs>>
  BY DEF DeadLetterDeliveries
<1>3. \A d \in Range(q) : Exhausted(d)
  BY BatchRange DEF DeadLetterDue
<1> QED BY <1>1, <1>2, <1>3, ProcessWorks

\* Acks complete what was handed out; a new deadline keeps the row.
LEMMA AckWorks ==
    ASSUME OrderInv, TypeOK', AckDeliveries
    PROVE  Works /\ Onward
<1> USE DEF OrderInv
<1>1. PICK q \in Batches(KnownOpen) :
         deliveries' = [d \in DOMAIN deliveries |->
                          IF d \in Range(q) THEN Complete(d) ELSE deliveries[d]]
  BY DEF AckDeliveries
<1>2. \A d \in Range(q) : Handed(d)
  BY BatchRange DEF KnownOpen
<1>3. Onward
  BY DEF AckDeliveries, Onward, TypeOK
<1>4. ASSUME NEW d \in DOMAIN deliveries
      PROVE  KeepsRow(d) \/ CompletesRow(d)
  <2>1. d \in Range(q) => CompletesRow(d)
    BY <1>1, <1>2, CompleteRow DEF CompletesRow
  <2>2. d \notin Range(q) => KeepsRow(d)
    BY <1>1 DEF KeepsRow, KeptAs, SameOrigin
  <2> QED BY <2>1, <2>2
<1>5. DOMAIN deliveries' = DOMAIN deliveries
  BY <1>1
<1> QED BY <1>3, <1>4, <1>5 DEF Works, NoRow

LEMMA DelayWorks ==
    ASSUME OrderInv, TypeOK', NEW n \in Delays, DelayDeliveries(n)
    PROVE  Works /\ Onward
<1> USE DEF OrderInv
<1> DEFINE E == {d \in KnownOpen : n = 0 \/ deliveries[d].attemptAt < After(n)}
<1>1. PICK q \in Batches(E) :
         deliveries' = [d \in DOMAIN deliveries |->
                          IF d \in Range(q)
                          THEN [deliveries[d] EXCEPT !.attemptAt = After(n)]
                          ELSE deliveries[d]]
  BY DEF DelayDeliveries
<1>2. Onward
  BY DEF DelayDeliveries, Onward, TypeOK
<1>3. ASSUME NEW d \in DOMAIN deliveries
      PROVE  KeepsRow(d)
  <2>1. deliveries[d] \in DeliveryRow
    BY DEF TypeOK
  <2>2. d \in Range(q) => Handed(d)
    BY BatchRange DEF KnownOpen
  <2> QED BY <1>1, <2>1, <2>2 DEF KeepsRow, KeptAs, SameOrigin, DeliveryRow
<1>4. DOMAIN deliveries' = DOMAIN deliveries
  BY <1>1
<1> QED BY <1>2, <1>3, <1>4 DEF Works, NoRow

\* The steps that touch no delivery let time pass, or subscriptions end.
LEMMA OtherWorks ==
    ASSUME OrderInv, TypeOK',
           \/ Tick \/ Create \/ Delete \/ Expire \/ Reconfigure \/ Snapshots
           \/ PruneRows
    PROVE  Works /\ Onward
<1> USE DEF OrderInv
<1>1. UNCHANGED deliveries /\ now' >= now /\ SubsAge
  BY OtherSteps
<1>2. nextId' >= nextId
  <2>1. nextId' = nextId
    BY Zenon DEF Tick, Create, CreateTopic, CreateSubscription, Delete,
       DeleteTopic, DeleteSubscription, Expire, RefreshSubscription,
       DeleteExpiredSubscriptions, Reconfigure, UpdateSubscription,
       SetDeliveryDelay, Snapshots, CreateSnapshot, DeleteSnapshot, PruneRows,
       PruneCompletedMessages, PruneDeletedSubscriptions, PruneDeletedTopics
  <2> QED BY <2>1 DEF TypeOK
<1>3. Onward
  BY <1>1, <1>2 DEF SubsAge, Onward, InTable
<1>4. Works
  BY <1>1 DEF Works, KeepsRow, KeptAs, SameOrigin, NoRow
<1> QED BY <1>3, <1>4

\* Every step but a seek or the pruning of deliveries.
LEMMA NextWorks ==
    ASSUME OrderInv, TypeOK', Next, ~Seek, ~PruneDeliveries
    PROVE  Works /\ Onward
<1>1. CASE Publish
  BY <1>1, PublishWorks DEF Publish
<1>2. CASE Receive
  BY <1>2, PullWorks DEF Receive
<1>3. CASE Respond
  BY <1>3, AckWorks, NackWorks, DelayWorks DEF Respond
<1>4. CASE DeadLetterDeliveries
  BY <1>4, DeadLetterWorks
<1>5. CASE \/ Tick \/ Create \/ Delete \/ Expire \/ Reconfigure \/ Snapshots
           \/ PruneRows
  BY <1>5, OtherWorks
<1> QED BY <1>1, <1>2, <1>3, <1>4, <1>5 DEF Next, Prune

-----------------------------------------------------------------------------
\* What the services that prune deliveries drop is completed, past its expiry
\* or of a subscription that was deleted.
Droppable(d) == d \in DOMAIN deliveries /\
    (~Open(d) \/ PastExpiry(d) \/ ~LiveSub(SubOf(d)))

\* A row that survives the pruning differs in its reference at most.
LEMMA PruneDrops ==
    ASSUME TypeOK, PruneDeliveries
    PROVE  /\ UNCHANGED <<now, topics, subs, messages, nextId>>
           /\ \E S : /\ \A d \in S : Droppable(d)
                     /\ DOMAIN deliveries' = DOMAIN deliveries \ S
                     /\ \A d \in DOMAIN deliveries' : deliveries'[d] =
                          [deliveries[d] EXCEPT !.notBefore =
                             IF @ \in S THEN None ELSE @]
<1>1. UNCHANGED <<now, topics, subs, messages, nextId>>
  BY DEF PruneDeliveries, PruneCompletedDeliveries, PruneExpiredDeliveries,
         PruneDeletedSubscriptionDeliveries
<1>2. PICK S : DropDeliveries(S) /\ \A d \in S : Droppable(d)
  <2>1. CASE PruneCompletedDeliveries
    BY <2>1 DEF PruneCompletedDeliveries, PruneSets, CompletedLongAgo, Droppable
  <2>2. CASE PruneExpiredDeliveries
    BY <2>2 DEF PruneExpiredDeliveries, PruneSets, Droppable
  <2>3. CASE PruneDeletedSubscriptionDeliveries
    BY <2>3 DEF PruneDeletedSubscriptionDeliveries, PruneSets, DeletedLongAgo,
       LiveSub, Droppable
  <2> QED BY <2>1, <2>2, <2>3 DEF PruneDeliveries
<1> QED BY <1>1, <1>2 DEF DropDeliveries

\* Pruning forgets what is done or lapsed, and touches nothing else.
LEMMA PruneMoves ==
    ASSUME OrderInv, TypeOK', PruneDeliveries
    PROVE  Moves(Promises!Forgetting)
<1> USE DEF OrderInv
<1>1. UNCHANGED <<now, subs, nextId>>
  BY PruneDrops
<1>2. PICK S : /\ \A d \in S : Droppable(d)
               /\ DOMAIN deliveries' = DOMAIN deliveries \ S
               /\ \A d \in DOMAIN deliveries' : deliveries'[d] =
                    [deliveries[d] EXCEPT !.notBefore =
                       IF @ \in S THEN None ELSE @]
  BY PruneDrops
<1> SUFFICES ASSUME NEW d \in Ids
             PROVE  \/ StateOf(d)' = StateOf(d)
                    \/ <<StateOf(d), StateOf(d)'>> \in Promises!Forgetting
  BY DEF Moves
<1>3. CASE d \notin DOMAIN deliveries
  <2>1. d \notin DOMAIN deliveries'
    BY <1>2, <1>3
  <2> QED BY <1>1, <1>3, <2>1 DEF StateOf
<1>4. CASE d \in DOMAIN deliveries'
  <2>1. d \in DOMAIN deliveries /\ deliveries[d] \in DeliveryRow
    BY <1>2, <1>4 DEF TypeOK
  <2>2. /\ deliveries'[d].completedAt = deliveries[d].completedAt
        /\ deliveries'[d].attempts = deliveries[d].attempts
        /\ deliveries'[d].expiresAt = deliveries[d].expiresAt
    BY <1>2, <1>4, <2>1 DEF DeliveryRow
  <2> QED BY <1>1, <1>4, <2>1, <2>2
          DEF StateOf, Open, Expired, LiveSub, Handed
<1>5. CASE d \in DOMAIN deliveries \ DOMAIN deliveries'
  <2>1. StateOf(d)' = "gone"
    BY <1>1, <1>5 DEF StateOf, ChainInv
  <2>2. ~Open(d) \/ Expired(d) \/ ~LiveSub(SubOf(d))
    <3>1. now \in Nat /\ deliveries[d].expiresAt \in Nat
      BY <1>5 DEF TypeOK, DeliveryRow, Time, Never
    <3> QED BY <1>2, <1>5, <3>1 DEF Droppable, PastExpiry, Expired
  <2>3. StateOf(d) \in {"done", "lapsed"}
    BY <1>5, <2>2 DEF StateOf
  <2> QED BY <2>1, <2>3 DEF Promises!Forgetting
<1> QED BY <1>3, <1>4, <1>5

\* A positive duration ends after now, saturated or not.
LEMMA LaterThanNow ==
    ASSUME TypeOK, NEW n \in Nat, n > 0
    PROVE  ~(After(n) <= now)
<1>1. now \in Nat /\ now <= MaxNow /\ MaxNow \in Nat
  BY ConstantsAssumption DEF TypeOK
<1>2. CASE now + n < MaxNow + 1
  BY <1>1, <1>2 DEF After, Never
<1>3. CASE ~(now + n < MaxNow + 1)
  <2>1. After(n) = MaxNow + 1
    BY <1>3 DEF After, Never
  <2> QED BY <1>1, <2>1
<1> QED BY <1>2, <1>3

\* A seek acknowledges what is open, and what it reopens is not expired.
LEMMA SoughtMoves ==
    ASSUME LifeInv, TypeOK', NEW s \in SubIds, NEW ack, NEW reopen,
           Sought(s, ack, reopen), UNCHANGED <<now, subs, nextId>>,
           LiveSub(s), ack \subseteq DeliveriesOf(s),
           \A d \in ack : Open(d),
           \A d \in reopen : d \in DeliveriesOf(s) /\ ~Open(d)
    PROVE  Moves(Promises!Seeking)
<1> USE DEF LifeInv, OrderInv
<1>1. /\ subs[s].messageTTL \in Nat /\ subs[s].messageTTL > 0
      /\ now \in Nat
  BY DEF RetentionInv, TypeOK, SubRow
<1>2. ~(After(subs[s].messageTTL) <= now)
  BY <1>1, LaterThanNow
<1>3. now # None
  BY <1>1, NoneAssumption
<1> SUFFICES ASSUME NEW d \in Ids
             PROVE  \/ StateOf(d)' = StateOf(d)
                    \/ <<StateOf(d), StateOf(d)'>> \in Promises!Seeking
  BY DEF Moves
<1>4. DOMAIN deliveries' = DOMAIN deliveries
  BY DEF Sought
<1>5. CASE d \notin DOMAIN deliveries
  BY <1>4, <1>5 DEF StateOf
<1>6. CASE d \in ack
  <2>1. d \in DOMAIN deliveries /\ deliveries'[d] = Complete(d) /\ Open(d)
    BY <1>6 DEF Sought, DeliveriesOf
  <2>2. deliveries'[d].completedAt # None
    BY <1>3, <2>1 DEF Complete, TypeOK, DeliveryRow
  <2>3. StateOf(d)' = "done" /\ StateOf(d) \in {"lapsed", "handed", "queued"}
    BY <1>4, <2>1, <2>2 DEF StateOf, Open
  <2> QED BY <2>3 DEF Promises!Seeking
<1>7. CASE d \in reopen /\ d \notin ack
  <2>1. /\ d \in DOMAIN deliveries /\ SubOf(d) = s /\ ~Open(d)
        /\ deliveries'[d] = [deliveries[d] EXCEPT
                               !.completedAt = None, !.attemptAt = now,
                               !.expiresAt = After(subs[s].messageTTL)]
    BY <1>7 DEF Sought, DeliveriesOf
  <2>2. /\ deliveries'[d].completedAt = None
        /\ deliveries'[d].expiresAt = After(subs[s].messageTTL)
    BY <2>1 DEF TypeOK, DeliveryRow
  <2>3. StateOf(d)' \in {"handed", "queued"} /\ StateOf(d) = "done"
    BY <1>2, <1>4, <2>1, <2>2 DEF StateOf, Open, Expired, LiveSub
  <2> QED BY <2>3 DEF Promises!Seeking
<1>8. CASE d \in DOMAIN deliveries /\ d \notin ack /\ d \notin reopen
  <2>1. deliveries'[d] = deliveries[d]
    BY <1>8 DEF Sought
  <2> QED BY <1>4, <1>8, <2>1 DEF StateOf, Open, Expired, LiveSub, Handed
<1> QED BY <1>5, <1>6, <1>7, <1>8

\* Both seeks are of that form.
LEMMA SeekMoves ==
    ASSUME LifeInv, TypeOK', Seek
    PROVE  Moves(Promises!Seeking)
<1>1. PICK s \in SubIds :
         \/ \E time \in 0 .. MaxNow : SeekSubscriptionToTime(s, time)
         \/ \E n \in SnapNames : SeekSubscriptionToSnapshot(s, n)
  BY DEF Seek
<1>2. ASSUME NEW time \in 0 .. MaxNow, SeekSubscriptionToTime(s, time)
      PROVE  Moves(Promises!Seeking)
  <2> DEFINE mine == {d \in DeliveriesOf(s) : Retained(d)}
             ack == {d \in mine : deliveries[d].publishedAt <= time /\ Open(d)}
             reopen == {d \in mine : deliveries[d].publishedAt > time /\ ~Open(d)}
  <2>1. Sought(s, ack, reopen) /\ LiveSub(s) /\ UNCHANGED <<now, subs, nextId>>
    BY <1>2 DEF SeekSubscriptionToTime
  <2>2. /\ ack \subseteq DeliveriesOf(s) /\ \A d \in ack : Open(d)
        /\ \A d \in reopen : d \in DeliveriesOf(s) /\ ~Open(d)
    OBVIOUS
  <2> HIDE DEF ack, reopen
  <2> QED BY <2>1, <2>2, SoughtMoves
<1>3. ASSUME NEW n \in SnapNames, SeekSubscriptionToSnapshot(s, n)
      PROVE  Moves(Promises!Seeking)
  <2> DEFINE mine == DeliveriesOf(s)
             early(d) == deliveries[d].publishedAt < snapshots[n].ackedBefore
             listed(d) == deliveries[d].msg \in snapshots[n].acked
             ack == {d \in mine : Retained(d) /\ Open(d)
                                  /\ (early(d) \/ listed(d))}
             reopen == {d \in mine : ~early(d) /\ ~listed(d) /\ ~Open(d)}
  <2>1. Sought(s, ack, reopen) /\ LiveSub(s) /\ UNCHANGED <<now, subs, nextId>>
    BY <1>3 DEF SeekSubscriptionToSnapshot
  <2>2. /\ ack \subseteq DeliveriesOf(s) /\ \A d \in ack : Open(d)
        /\ \A d \in reopen : d \in DeliveriesOf(s) /\ ~Open(d)
    OBVIOUS
  <2> HIDE DEF ack, reopen
  <2> QED BY <2>1, <2>2, SoughtMoves
<1> QED BY <1>1, <1>2, <1>3

-----------------------------------------------------------------------------
\* RetentionInv survives a step that changes no message TTL and makes no
\* subscription live.
LEMMA RetentionFrame ==
    ASSUME RetentionInv,
           \A s \in SubIds : subs'[s].st = "live" =>
              LiveSub(s) /\ subs'[s].messageTTL = subs[s].messageTTL
    PROVE  RetentionInv'
BY DEF RetentionInv, LiveSub

LEMMA CreateSubscriptionRetention ==
    ASSUME TypeOK, RetentionInv, NEW s \in SubIds, CreateSubscription(s)
    PROVE  RetentionInv'
<1> DEFINE r == SubRequest[s]
<1>1. PICK t, dlt : subs' = [subs EXCEPT ![s] =
                     [st |-> "live", deletedAt |-> 0,
                      expiresAt |-> After(r.ttl), topic |-> t, ttl |-> r.ttl,
                      messageTTL |-> r.messageTTL, ordered |-> r.ordered,
                      retry |-> r.retry, filter |-> r.filter, dlTopic |-> dlt,
                      max |-> r.max, delay |-> 0]]
  BY DEF CreateSubscription
<1>2. r.messageTTL \in Nat /\ r.messageTTL > 0
  BY RequestAssumption DEF RequestType
<1>3. \A o \in SubIds : subs'[o].messageTTL =
         IF o = s THEN r.messageTTL ELSE subs[o].messageTTL
  BY <1>1 DEF TypeOK
<1>4. \A o \in SubIds \ {s} : subs'[o] = subs[o]
  BY <1>1 DEF TypeOK
<1> QED BY <1>2, <1>3, <1>4 DEF RetentionInv, LiveSub

LEMMA UpdateSubscriptionRetention ==
    ASSUME TypeOK, RetentionInv, NEW s \in SubIds, NEW r \in SubRequests,
           NEW paths \in Masks, UpdateSubscription(s, r, paths)
    PROVE  RetentionInv'
<1>1. PICK dlt : subs' = [subs EXCEPT ![s] = Updated(subs[s], r, paths, dlt)]
  BY DEF UpdateSubscription
<1>2. r.messageTTL \in Nat /\ r.messageTTL > 0
  BY RequestAssumption DEF RequestType
<1>3. subs[s] \in SubRow /\ LiveSub(s)
  BY DEF TypeOK, UpdateSubscription
<1>4. subs'[s].messageTTL \in {r.messageTTL, subs[s].messageTTL}
  <2>1. Updated(subs[s], r, paths, dlt).messageTTL
            = IF "messageTTL" \in paths THEN r.messageTTL
                                        ELSE subs[s].messageTTL
    BY <1>3 DEF Updated, SubRow
  <2> QED BY <1>1, <2>1 DEF TypeOK
<1>5. \A o \in SubIds \ {s} : subs'[o] = subs[o]
  BY <1>1 DEF TypeOK
<1> QED BY <1>2, <1>3, <1>4, <1>5 DEF RetentionInv, LiveSub

LEMMA RetentionStep ==
    ASSUME TypeOK, RetentionInv, [Next]_vars
    PROVE  RetentionInv'
<1>0. \A s \in SubIds : subs[s] \in SubRow
  BY DEF TypeOK
<1>1. ASSUME UNCHANGED subs
      PROVE  RetentionInv'
  BY <1>1 DEF RetentionInv, LiveSub
<1>2. CASE \/ Tick \/ Publish \/ Respond \/ DeadLetterDeliveries \/ Snapshots
           \/ Seek \/ PruneDeliveries \/ PruneCompletedMessages
           \/ UNCHANGED vars
  <2>1. UNCHANGED subs
    BY <1>2, Zenon DEF Tick, Publish, PublishMessage, Respond, AckDeliveries,
       NackDeliveries, DelayDeliveries, DeadLetterDeliveries, Snapshots,
       CreateSnapshot, DeleteSnapshot, Seek, SeekSubscriptionToTime,
       SeekSubscriptionToSnapshot, PruneDeliveries, PruneCompletedDeliveries,
       PruneExpiredDeliveries, PruneDeletedSubscriptionDeliveries,
       PruneCompletedMessages, vars
  <2> QED BY <1>1, <2>1
<1>3. ASSUME NEW s \in SubIds, RefreshExpiry(s)
      PROVE  RetentionInv'
  BY <1>0, <1>3, RetentionFrame DEF RefreshExpiry, SubRow, TypeOK, LiveSub
<1>4. ASSUME NEW S, MarkDeleted(S)
      PROVE  RetentionInv'
  BY <1>0, <1>4, RetentionFrame DEF MarkDeleted, SubRow, LiveSub
<1>5. CASE Receive \/ Expire
  BY <1>3, <1>4, <1>5 DEF Receive, GetSubscriptionMessages, Expire,
     RefreshSubscription, DeleteExpiredSubscriptions
<1>6. CASE Create
  BY <1>1, <1>6, CreateSubscriptionRetention DEF Create, CreateTopic
<1>7. CASE Delete
  BY <1>1, <1>4, <1>7 DEF Delete, DeleteTopic, DeleteSubscription
<1>8. ASSUME NEW s \in SubIds, NEW n \in Delays, SetDeliveryDelay(s, n)
      PROVE  RetentionInv'
  BY <1>0, <1>8, RetentionFrame DEF SetDeliveryDelay, SubRow, TypeOK, LiveSub
<1>9. CASE Reconfigure
  BY <1>8, <1>9, UpdateSubscriptionRetention DEF Reconfigure
<1>10. CASE PruneDeletedSubscriptions
  BY <1>10, RetentionFrame DEF PruneDeletedSubscriptions, NoSub, LiveSub
<1>11. CASE PruneDeletedTopics
  BY <1>0, <1>11, RetentionFrame DEF PruneDeletedTopics, SubRow, LiveSub
<1> QED BY <1>2, <1>5, <1>6, <1>7, <1>9, <1>10, <1>11
        DEF Next, Prune, PruneRows

LEMMA LifeInvInit == Init => LifeInv
BY InitOrderInv DEF LifeInv, RetentionInv, Init, LiveSub, NoSub

LEMMA LifeInvStep == ASSUME LifeInv, [Next]_vars PROVE LifeInv'
BY OrderInvStep, RetentionStep DEF LifeInv, OrderInv

-----------------------------------------------------------------------------
LEMMA PromisesInit == Init => Promises!StateInit
<1> SUFFICES ASSUME Init PROVE Promises!StateInit
  OBVIOUS
<1>1. \A d \in Ids : StateOf(d) = "none"
  <2> SUFFICES ASSUME NEW d \in Ids PROVE StateOf(d) = "none"
    OBVIOUS
  <2>1. d[1] \in 1 .. MaxId
    BY DEF Ids
  <2>2. ~(d[1] <= nextId) /\ d \notin DOMAIN deliveries
    BY <2>1, ConstantsAssumption DEF Init
  <2> QED BY <2>2 DEF StateOf
<1> QED BY <1>1 DEF Promises!StateInit

LEMMA PromisesNext ==
    ASSUME LifeInv, LifeInv', [Next]_vars
    PROVE  /\ [Promises!StateNext]_[d \in Ids |-> StateOf(d)]
           /\ [PromiseMoves]_vars
<1> USE DEF LifeInv, OrderInv
<1>1. CASE UNCHANGED vars
  BY <1>1 DEF vars, StateOf, Open, Expired, LiveSub, Handed
<1>2. CASE Seek
  BY <1>2, SeekMoves, MovesRefine
<1>3. CASE PruneDeliveries
  BY <1>3, PruneMoves, MovesRefine
<1>4. CASE Next /\ ~Seek /\ ~PruneDeliveries
  BY <1>4, NextWorks, WorksMoves, MovesRefine
<1> QED BY <1>1, <1>2, <1>3, <1>4

\* The tables and transactions of the bus implement AtLeastOnce, whatever the
\* topics, subscriptions, policies and bounds: no interleaving of pulls,
\* answers, dead-letterings, expiries, seeks and prune services moves a
\* delivery in a way the promise to clients does not have.
THEOREM ImplementsAtLeastOnce == Spec => DeliversAtLeastOnce
<1>1. LifeInv /\ [Next]_vars => LifeInv'
  BY LifeInvStep
<1>2. LifeInv /\ LifeInv' /\ [Next]_vars
         => /\ [Promises!StateNext]_[d \in Ids |-> StateOf(d)]
            /\ [PromiseMoves]_vars
  BY PromisesNext
<1> QED BY <1>1, <1>2, LifeInvInit, PromisesInit, PTL
        DEF Spec, DeliversAtLeastOnce, Promises!StateSpec

-----------------------------------------------------------------------------
\* Without seeks a row is completed only after it was handed out.
LEMMA CompletedStep ==
    ASSUME OrderInv, OrderInv', CompletedWasHanded, Next, ~Seek
    PROVE  CompletedWasHanded'
<1> USE DEF OrderInv
<1> SUFFICES ASSUME NEW d \in DOMAIN deliveries',
                    deliveries'[d].completedAt # None
             PROVE  deliveries'[d].attempts > 0
  BY DEF CompletedWasHanded, Open, Handed
<1>0. deliveries'[d].attempts \in Nat /\ d \in DeliveryIds
  BY DEF TypeOK, DeliveryRow
<1>1. CASE PruneDeliveries
  <2>1. PICK S : /\ DOMAIN deliveries' = DOMAIN deliveries \ S
                 /\ \A e \in DOMAIN deliveries' : deliveries'[e] =
                      [deliveries[e] EXCEPT !.notBefore =
                         IF @ \in S THEN None ELSE @]
    BY <1>1, PruneDrops
  <2>2. d \in DOMAIN deliveries /\ deliveries[d] \in DeliveryRow
    BY <2>1 DEF TypeOK
  <2>3. /\ deliveries'[d].completedAt = deliveries[d].completedAt
        /\ deliveries'[d].attempts = deliveries[d].attempts
    BY <2>1, <2>2 DEF DeliveryRow
  <2> QED BY <2>2, <2>3 DEF CompletedWasHanded, Open, Handed
<1>2. CASE ~PruneDeliveries
  <2>1. KeepsRow(d) \/ CompletesRow(d)
    BY <1>0, <1>2, NextWorks DEF Works, CreatesRow, NoRow
  <2>2. d \in DOMAIN deliveries /\ deliveries[d].attempts \in Nat
    BY <2>1 DEF KeepsRow, CompletesRow, TypeOK, DeliveryRow
  <2>3. CASE KeepsRow(d)
    <3>1. deliveries[d].attempts > 0
      BY <2>2, <2>3 DEF KeepsRow, KeptAs, CompletedWasHanded, Open, Handed
    <3> QED BY <2>2, <2>3, <3>1 DEF KeepsRow, KeptAs
  <2>4. CASE CompletesRow(d)
    BY <2>4 DEF CompletesRow, CompletedAs, Handed
  <2> QED BY <2>1, <2>3, <2>4
<1> QED BY <1>1, <1>2

\* Nothing is acknowledged that no client received, unless by a seek: an ack
\* or a dead-lettering, however late or repeated, finds an attempt recorded.
THEOREM CompletedWasHandedAlways ==
    Spec /\ [][~Seek]_vars => []CompletedWasHanded
<1>1. OrderInv /\ [Next]_vars => OrderInv'
  BY OrderInvStep
<1>2. Init => CompletedWasHanded
  BY DEF Init, CompletedWasHanded
<1>3. OrderInv /\ OrderInv' /\ CompletedWasHanded /\ [Next]_vars
         /\ [~Seek]_vars => CompletedWasHanded'
  <2>1. ASSUME CompletedWasHanded, UNCHANGED vars
        PROVE  CompletedWasHanded'
    BY <2>1 DEF vars, CompletedWasHanded, Open, Handed
  <2> QED BY <2>1, CompletedStep
<1> QED BY <1>1, <1>2, <1>3, InitOrderInv, PTL DEF Spec

-----------------------------------------------------------------------------
(* The delivery delay *)

\* What nobody received is still promised, and while it is open its attempt
\* time is the one it was created with.
DelayInv ==
    \A d \in DOMAIN deliveries : ~Handed(d) =>
       /\ d \in DOMAIN promised
       /\ Open(d) => deliveries[d].attemptAt = promised[d].from

\* The step reopens nothing that nobody received: no seek takes back what
\* another seek acknowledged unseen.
UnseenStayDone ==
    \A d \in DOMAIN deliveries :
       ~Open(d) /\ ~Handed(d) /\ d \in DOMAIN deliveries'
          => deliveries'[d].completedAt # None

\* The body of DelayHonoured.
NotTooEarly ==
    \A d \in DOMAIN deliveries : ~Handed(d) /\ HandedNow(d) =>
       d \in DOMAIN promised /\ now >= promised[d].from

\* A new row is promised its attempt time, and an old one keeps the promise it
\* had unless it was handed out.
PromiseCarried(d) ==
    IF d \in DOMAIN deliveries
    THEN d \in DOMAIN promised /\ deliveries'[d].attempts = 0 =>
            d \in DOMAIN promised' /\ promised'[d].from = promised[d].from
    ELSE d \in DOMAIN promised' /\ promised'[d].from = deliveries'[d].attemptAt

Carried == \A d \in DOMAIN deliveries' : PromiseCarried(d)

LEMMA FanoutCarries ==
    ASSUME TypeOK, ChainInv, NEW to, NEW handed, FannedOut(NewIds(to)),
           Promise(to, handed),
           \A d \in (handed \cap DOMAIN deliveries) \ NewIds(to) :
              deliveries'[d].attempts # 0
    PROVE  Carried
<1> SUFFICES ASSUME NEW d \in DOMAIN deliveries'
             PROVE  PromiseCarried(d)
  BY DEF Carried
<1>1. CASE d \in NewIds(to)
  <2>1. d[1] > nextId /\ d[1] \in Nat /\ nextId \in Nat /\ SubOf(d) = d[2]
    BY <1>1, NewIdsType DEF TypeOK, SubOf
  <2>2. d \notin DOMAIN deliveries
    BY <2>1 DEF ChainInv
  <2>3. promised'[d].from = After(subs[d[2]].delay) /\ d \in DOMAIN promised'
    BY <1>1 DEF Promise
  <2>4. deliveries'[d].attemptAt = After(subs[d[2]].delay)
    BY <1>1, <2>1 DEF FannedOut
  <2> QED BY <2>2, <2>3, <2>4 DEF PromiseCarried
<1>2. CASE d \notin NewIds(to)
  <2>1. d \in DOMAIN deliveries
    BY <1>2 DEF FannedOut
  <2>2. ASSUME d \in DOMAIN promised, d \notin handed
        PROVE  d \in DOMAIN promised' /\ promised'[d] = promised[d]
    BY <1>2, <2>2 DEF Promise
  <2> QED BY <1>2, <2>1, <2>2 DEF PromiseCarried
<1> QED BY <1>1, <1>2

LEMMA PublishCarries ==
    ASSUME OrderInv, TypeOK', NEW t \in TopicIds, NEW k \in Keys, NEW a \in Attrs,
           PublishMessage(t, k, a)
    PROVE  Carried
<1> USE DEF OrderInv
<1> DEFINE m == [topic |-> t, key |-> k, attrs |-> a, publishedAt |-> now]
           src == [i \in {1} |-> nextId + 1]
           to == [i \in {1} |-> Subscribers(t, m)]
<1>1. Fanout(messages', src, to, deliveries) /\ Promise(to, {})
  BY DEF PublishMessage
<1>2. deliveries \in [DOMAIN deliveries -> DeliveryRow]
  BY DEF TypeOK
<1>3. ASSUME NEW i \in DOMAIN to, NEW s \in to[i]
      PROVE  LiveSub(s) /\ src[i] \in Nat /\ src[i] \in DOMAIN messages'
  BY DEF Subscribers, TypeOK, PublishMessage
<1> HIDE DEF src, to
<1>4. FannedOut(NewIds(to))
  BY <1>1, <1>2, <1>3, FanoutStep
<1> QED BY <1>1, <1>4, FanoutCarries

\* A pull hands out what it takes out of the promises.
LEMMA PullCarries ==
    ASSUME OrderInv, TypeOK', NEW s \in SubIds, GetSubscriptionMessages(s)
    PROVE  Carried
<1> USE DEF OrderInv
<1> DEFINE out(q) == {d \in Range(q) : ~Exhausted(d)}
           upd(q) == [d \in out(q) |-> Attempt(d)]
<1>1. PICK q \in Batches({d \in DeliveriesOf(s) : Deliverable(d)}) :
         /\ Process(q, upd(q), out(q))
         /\ FannedOut(NewIds(DeadLettersTo(q)))
  BY PullFansOut
<1>2. ASSUME NEW d \in (out(q) \cap DOMAIN deliveries) \ NewIds(DeadLettersTo(q))
      PROVE  deliveries'[d].attempts # 0
  <2>1. deliveries'[d] = Attempt(d)
    BY <1>1, ProcessedRows
  <2> QED BY <2>1 DEF Attempt, TypeOK, DeliveryRow
<1>3. Promise(DeadLettersTo(q), out(q))
  BY <1>1 DEF Process
<1> HIDE DEF upd, out
<1> QED BY <1>1, <1>2, <1>3, FanoutCarries

\* A nack and a background dead-lettering hand out nothing.
LEMMA DeadLetterCarries ==
    ASSUME OrderInv, TypeOK', NackDeliveries \/ DeadLetterDeliveries
    PROVE  Carried
<1> USE DEF OrderInv
<1>1. PICK q, upd : Process(q, upd, {}) /\ FannedOut(NewIds(DeadLettersTo(q)))
  BY NackFansOut, DeadLetterFansOut
<1>2. Promise(DeadLettersTo(q), {})
  BY <1>1 DEF Process
<1> QED BY <1>1, <1>2, FanoutCarries

\* A seek changes until when a promise holds, not from when.
LEMMA SeekCarries ==
    ASSUME TypeOK, Seek
    PROVE  Carried
<1>1. PICK s, ack, reopen : Sought(s, ack, reopen)
  BY DEF Seek, SeekSubscriptionToTime, SeekSubscriptionToSnapshot
<1>2. DOMAIN deliveries' = DOMAIN deliveries /\ DOMAIN promised' = DOMAIN promised
  BY <1>1 DEF Sought
<1>3. ASSUME NEW d \in DOMAIN promised
      PROVE  promised'[d].from = promised[d].from
  <2>1. PICK u : promised'[d] = [promised[d] EXCEPT !.until = u]
    BY <1>1 DEF Sought
  <2>2. promised[d] \in PromiseRow
    BY DEF TypeOK
  <2> QED BY <2>1, <2>2 DEF PromiseRow
<1> QED BY <1>2, <1>3 DEF Carried, PromiseCarried

LEMMA NextCarries ==
    ASSUME OrderInv, TypeOK', Next
    PROVE  Carried
<1> USE DEF OrderInv
<1>1. CASE Publish
  BY <1>1, PublishCarries DEF Publish
<1>2. CASE Receive
  BY <1>2, PullCarries DEF Receive
<1>3. CASE NackDeliveries \/ DeadLetterDeliveries
  BY <1>3, DeadLetterCarries
<1>4. CASE Seek
  BY <1>4, SeekCarries
<1>5. ASSUME UNCHANGED promised, DOMAIN deliveries' \subseteq DOMAIN deliveries
      PROVE  Carried
  BY <1>5 DEF Carried, PromiseCarried
<1>6. CASE AckDeliveries \/ \E n \in Delays : DelayDeliveries(n)
  <2>1. UNCHANGED promised /\ DOMAIN deliveries' = DOMAIN deliveries
    BY <1>6 DEF AckDeliveries, DelayDeliveries
  <2> QED BY <1>5, <2>1
<1>7. CASE PruneDeliveries
  <2>1. UNCHANGED promised
    BY <1>7 DEF PruneDeliveries, PruneCompletedDeliveries,
       PruneExpiredDeliveries, PruneDeletedSubscriptionDeliveries
  <2>2. PICK S : DOMAIN deliveries' = DOMAIN deliveries \ S
    BY <1>7, PruneDrops
  <2> QED BY <1>5, <2>1, <2>2
<1>8. CASE \/ Tick \/ Create \/ Delete \/ Expire \/ Reconfigure \/ Snapshots
           \/ PruneRows
  BY <1>5, <1>8, OtherSteps
<1> QED BY <1>1, <1>2, <1>3, <1>4, <1>6, <1>7, <1>8 DEF Next, Prune, Respond

\* Both seeks reopen only what is completed.
LEMMA SeekReopens ==
    ASSUME Seek
    PROVE  \E s, ack, reopen : Sought(s, ack, reopen) /\ \A d \in reopen : ~Open(d)
<1>1. PICK s \in SubIds :
         \/ \E time \in 0 .. MaxNow : SeekSubscriptionToTime(s, time)
         \/ \E n \in SnapNames : SeekSubscriptionToSnapshot(s, n)
  BY DEF Seek
<1>2. ASSUME NEW time, SeekSubscriptionToTime(s, time)
      PROVE  \E ack, reopen : Sought(s, ack, reopen) /\ \A d \in reopen : ~Open(d)
  <2> DEFINE mine == {d \in DeliveriesOf(s) : Retained(d)}
             ack == {d \in mine : deliveries[d].publishedAt <= time /\ Open(d)}
             reopen == {d \in mine : deliveries[d].publishedAt > time /\ ~Open(d)}
  <2>1. Sought(s, ack, reopen)
    BY <1>2 DEF SeekSubscriptionToTime
  <2>2. \A d \in reopen : ~Open(d)
    OBVIOUS
  <2> HIDE DEF ack, reopen
  <2> QED BY <2>1, <2>2
<1>3. ASSUME NEW n, SeekSubscriptionToSnapshot(s, n)
      PROVE  \E ack, reopen : Sought(s, ack, reopen) /\ \A d \in reopen : ~Open(d)
  <2> DEFINE mine == DeliveriesOf(s)
             early(d) == deliveries[d].publishedAt < snapshots[n].ackedBefore
             listed(d) == deliveries[d].msg \in snapshots[n].acked
             ack == {d \in mine : Retained(d) /\ Open(d)
                                  /\ (early(d) \/ listed(d))}
             reopen == {d \in mine : ~early(d) /\ ~listed(d) /\ ~Open(d)}
  <2>1. Sought(s, ack, reopen)
    BY <1>3 DEF SeekSubscriptionToSnapshot
  <2>2. \A d \in reopen : ~Open(d)
    OBVIOUS
  <2> HIDE DEF ack, reopen
  <2> QED BY <2>1, <2>2
<1> QED BY <1>1, <1>2, <1>3

\* What a step does to a delivery nobody received, unless it is the one that
\* hands it out: a seek excepted, its attempt time stays.
LEMMA UnseenKept ==
    ASSUME OrderInv, OrderInv', Next, UnseenStayDone,
           NEW d \in DOMAIN deliveries \cap DOMAIN deliveries'
    PROVE  /\ deliveries'[d].attempts = 0 =>
                /\ ~Handed(d)
                /\ deliveries'[d].completedAt = None =>
                     Open(d) /\ deliveries'[d].attemptAt = deliveries[d].attemptAt
           /\ ~Handed(d) /\ HandedNow(d) =>
                Open(d) /\ deliveries[d].attemptAt <= now
<1> USE DEF OrderInv
<1>0. /\ deliveries[d] \in DeliveryRow /\ d \in DeliveryIds
      /\ deliveries[d].attempts \in Nat /\ deliveries'[d].attempts \in Nat
  BY DEF TypeOK, DeliveryRow
<1>1. CASE PruneDeliveries
  <2>1. PICK S : deliveries'[d] = [deliveries[d] EXCEPT !.notBefore =
                                     IF @ \in S THEN None ELSE @]
    BY <1>1, PruneDrops
  <2>2. /\ deliveries'[d].completedAt = deliveries[d].completedAt
        /\ deliveries'[d].attempts = deliveries[d].attempts
        /\ deliveries'[d].attemptAt = deliveries[d].attemptAt
    BY <1>0, <2>1 DEF DeliveryRow
  <2> QED BY <1>0, <2>2 DEF Handed, Open, HandedNow
<1>2. CASE Seek
  <2>1. PICK s, ack, reopen : /\ Sought(s, ack, reopen)
                              /\ \A e \in reopen : ~Open(e)
    BY <1>2, SeekReopens
  <2>2. deliveries'[d].attempts = deliveries[d].attempts
    BY <1>0, <2>1 DEF Sought, Complete, DeliveryRow
  <2>3. ASSUME deliveries'[d].completedAt = None, ~Handed(d)
        PROVE  Open(d) /\ deliveries'[d].attemptAt = deliveries[d].attemptAt
    <3>1. Open(d)
      BY <2>3 DEF UnseenStayDone
    <3>2. d \notin ack
      <4>1. now # None
        BY NoneAssumption DEF TypeOK
      <4>2. d \in ack => deliveries'[d] = Complete(d)
        BY <2>1 DEF Sought
      <4> QED BY <1>0, <2>3, <4>1, <4>2 DEF Complete, DeliveryRow
    <3>3. deliveries'[d] = deliveries[d]
      BY <2>1, <3>1, <3>2 DEF Sought
    <3> QED BY <3>1, <3>3
  <2> QED BY <1>0, <2>2, <2>3 DEF Handed, HandedNow
<1>3. CASE ~PruneDeliveries /\ ~Seek
  <2>1. KeepsRow(d) \/ CompletesRow(d)
    BY <1>0, <1>3, NextWorks DEF Works, CreatesRow, NoRow
  <2>2. CASE KeepsRow(d)
    BY <1>0, <2>2 DEF KeepsRow, KeptAs, Handed, Open, HandedNow, Deliverable
  <2>3. CASE CompletesRow(d)
    BY <1>0, <2>3 DEF CompletesRow, CompletedAs, Handed, HandedNow
  <2> QED BY <2>1, <2>2, <2>3
<1> QED BY <1>1, <1>2, <1>3

LEMMA DelayStep ==
    ASSUME OrderInv, OrderInv', DelayInv, Next, UnseenStayDone
    PROVE  DelayInv' /\ NotTooEarly
<1> USE DEF OrderInv
<1>1. ASSUME NEW d \in DOMAIN deliveries', ~(deliveries'[d].attempts > 0)
      PROVE  /\ d \in DOMAIN promised'
             /\ deliveries'[d].completedAt = None =>
                  deliveries'[d].attemptAt = promised'[d].from
  <2>0. deliveries'[d].attempts = 0
    BY <1>1 DEF TypeOK, DeliveryRow
  <2>1. PromiseCarried(d)
    BY NextCarries DEF Carried
  <2>2. CASE d \notin DOMAIN deliveries
    BY <2>1, <2>2 DEF PromiseCarried
  <2>3. CASE d \in DOMAIN deliveries
    <3>1. /\ ~Handed(d)
          /\ deliveries'[d].completedAt = None =>
               Open(d) /\ deliveries'[d].attemptAt = deliveries[d].attemptAt
      BY <2>0, <2>3, UnseenKept
    <3> QED BY <2>0, <2>1, <2>3, <3>1 DEF DelayInv, PromiseCarried
  <2> QED BY <2>2, <2>3
<1>2. DelayInv'
  BY <1>1 DEF DelayInv, Handed, Open
<1>3. ASSUME NEW d \in DOMAIN deliveries, ~Handed(d), HandedNow(d)
      PROVE  d \in DOMAIN promised /\ now >= promised[d].from
  <2>1. Open(d) /\ deliveries[d].attemptAt <= now
    BY <1>3, UnseenKept DEF HandedNow
  <2>2. d \in DOMAIN promised /\ deliveries[d].attemptAt = promised[d].from
    BY <1>3, <2>1 DEF DelayInv
  <2>3. promised[d].from \in Nat /\ now \in Nat
    BY <2>2 DEF TypeOK, PromiseRow, Time, Never
  <2> QED BY <2>1, <2>2, <2>3
<1> QED BY <1>2, <1>3 DEF NotTooEarly

\* If no seek reopens a delivery that nobody received, the first attempt of
\* every delivery comes no earlier than the delay its subscription had when it
\* was created, whatever is nacked, extended, dead-lettered, reconfigured,
\* sought or pruned in between.
THEOREM DelayAlwaysHonoured ==
    Spec /\ [][UnseenStayDone]_vars => DelayHonoured
<1>1. OrderInv /\ [Next]_vars => OrderInv'
  BY OrderInvStep
<1>2. Init => DelayInv
  BY DEF Init, DelayInv
<1>3. OrderInv /\ OrderInv' /\ DelayInv /\ [Next]_vars /\ [UnseenStayDone]_vars
         => DelayInv' /\ [NotTooEarly]_vars
  <2>1. ASSUME DelayInv, UNCHANGED vars
        PROVE  DelayInv'
    BY <2>1 DEF vars, DelayInv, Open, Handed
  <2> QED BY <2>1, DelayStep
<1>4. [NotTooEarly]_vars =>
         [\A d \in DOMAIN deliveries : ~Handed(d) /\ HandedNow(d) =>
             d \in DOMAIN promised /\ now >= promised[d].from]_vars
  BY DEF NotTooEarly
<1> QED BY <1>1, <1>2, <1>3, <1>4, InitOrderInv, PTL DEF Spec, DelayHonoured

-----------------------------------------------------------------------------
\* No update gives an existing subscription a dead letter policy or a lower
\* limit of attempts.
LimitKept ==
    \A s \in SubIds :
       subs[s].st \in InTable /\ HasFullDeadLetterConfig(s)' =>
          HasFullDeadLetterConfig(s) /\ subs[s].max <= subs'[s].max

LEMMA LimitStep ==
    ASSUME OrderInv, OrderInv', AttemptsWithinLimit, Next, LimitKept
    PROVE  AttemptsWithinLimit'
<1> USE DEF OrderInv
<1> SUFFICES ASSUME NEW d \in DOMAIN deliveries',
                    HasFullDeadLetterConfig(SubOf(d))'
             PROVE  deliveries'[d].attempts <= subs'[SubOf(d)].max
  BY DEF AttemptsWithinLimit
<1>0. /\ deliveries'[d].attempts \in Nat /\ d \in DeliveryIds
      /\ SubOf(d) \in SubIds
  BY DEF TypeOK, DeliveryRow, DeliveryIds, SubOf
<1>1. subs[SubOf(d)].max \in Nat /\ subs'[SubOf(d)].max \in Nat
  BY <1>0 DEF TypeOK, SubRow
<1>2. ASSUME d \in DOMAIN deliveries
      PROVE  /\ deliveries[d].attempts <= subs[SubOf(d)].max
             /\ subs[SubOf(d)].max <= subs'[SubOf(d)].max
             /\ HasFullDeadLetterConfig(SubOf(d))
             /\ deliveries[d].attempts \in Nat /\ deliveries[d] \in DeliveryRow
  BY <1>0, <1>2 DEF LimitKept, ReferencesResolve, AttemptsWithinLimit, TypeOK,
     DeliveryRow
<1>3. ASSUME d \in DOMAIN deliveries,
             deliveries'[d].attempts = deliveries[d].attempts
      PROVE  deliveries'[d].attempts <= subs'[SubOf(d)].max
  BY <1>1, <1>2, <1>3
<1>4. CASE PruneDeliveries
  <2>1. PICK S : /\ DOMAIN deliveries' = DOMAIN deliveries \ S
                 /\ \A e \in DOMAIN deliveries' : deliveries'[e] =
                      [deliveries[e] EXCEPT !.notBefore =
                         IF @ \in S THEN None ELSE @]
    BY <1>4, PruneDrops
  <2>2. d \in DOMAIN deliveries /\ deliveries'[d].attempts = deliveries[d].attempts
    BY <1>2, <2>1 DEF DeliveryRow
  <2> QED BY <1>3, <2>2
<1>5. CASE Seek
  <2>1. PICK s, ack, reopen : Sought(s, ack, reopen)
    BY <1>5 DEF Seek, SeekSubscriptionToTime, SeekSubscriptionToSnapshot
  <2>2. d \in DOMAIN deliveries
    BY <2>1 DEF Sought
  <2>3. deliveries'[d].attempts = deliveries[d].attempts
    BY <1>2, <2>1, <2>2 DEF Sought, Complete, DeliveryRow
  <2> QED BY <1>3, <2>2, <2>3
<1>6. CASE ~Seek /\ ~PruneDeliveries
  <2>1. KeepsRow(d) \/ CompletesRow(d) \/ CreatesRow(d)
    BY <1>0, <1>6, NextWorks DEF Works, NoRow
  <2>2. CASE CreatesRow(d)
    BY <1>1, <2>2 DEF CreatesRow
  <2>3. CASE CompletesRow(d)
    BY <1>3, <2>3 DEF CompletesRow, CompletedAs
  <2>4. CASE KeepsRow(d) /\ deliveries'[d].attempts # deliveries[d].attempts
    <3>1. /\ d \in DOMAIN deliveries /\ ~Exhausted(d)
          /\ deliveries'[d].attempts = deliveries[d].attempts + 1
      BY <2>4 DEF KeepsRow, KeptAs
    <3>2. deliveries[d].attempts < subs[SubOf(d)].max
      BY <1>1, <1>2, <3>1 DEF Exhausted
    <3> QED BY <1>1, <1>2, <3>1, <3>2
  <2> QED BY <1>3, <2>1, <2>2, <2>3, <2>4 DEF KeepsRow
<1> QED BY <1>4, <1>5, <1>6

\* As long as nobody tightens a dead letter policy, no subscription is handed
\* a message more often than its policy allows, seeks included: all three
\* paths dead-letter at the limit instead of attempting once more.
THEOREM AttemptsStayWithinLimit ==
    Spec /\ [][LimitKept]_vars => []AttemptsWithinLimit
<1>1. OrderInv /\ [Next]_vars => OrderInv'
  BY OrderInvStep
<1>2. Init => AttemptsWithinLimit
  BY DEF Init, AttemptsWithinLimit
<1>3. OrderInv /\ OrderInv' /\ AttemptsWithinLimit /\ [Next]_vars
         /\ [LimitKept]_vars => AttemptsWithinLimit'
  <2>1. ASSUME AttemptsWithinLimit, UNCHANGED vars
        PROVE  AttemptsWithinLimit'
    BY <2>1 DEF vars, AttemptsWithinLimit, HasFullDeadLetterConfig
  <2> QED BY <2>1, LimitStep
<1> QED BY <1>1, <1>2, <1>3, InitOrderInv, PTL DEF Spec

-----------------------------------------------------------------------------
\* What was handed out once has no outstanding predecessor.
HandedNotBlocked ==
    \A d \in DOMAIN deliveries : Handed(d) => ~Blocked(d)

\* No seek, and no update makes an existing subscription ordered.
OrderKept ==
    /\ ~Seek
    /\ \A s \in SubIds :
          subs[s].st \in InTable /\ subs'[s].ordered => subs[s].ordered

\* A kept or completed row is blocked after a step only if it was before.
LEMMA BlockedBefore ==
    ASSUME OrderInv, OrderInv', Works, Onward, OrderKept,
           NEW d \in DOMAIN deliveries, d \in DOMAIN deliveries',
           SameOrigin(d, deliveries'[d]), Blocked(d)'
    PROVE  Blocked(d)
<1> USE DEF OrderInv
<1> DEFINE p == deliveries[d].notBefore
<1>1. SubOf(d) \in SubIds /\ subs[SubOf(d)].st \in InTable
  BY DEF TypeOK, DeliveryIds, SubOf, ReferencesResolve
<1>2. subs[SubOf(d)].ordered
  BY <1>1 DEF Blocked, OrderKept
<1>3. /\ p # None /\ deliveries'[p].completedAt = None
      /\ ~(deliveries'[p].expiresAt <= now')
  BY DEF Blocked, SameOrigin, Open, Expired
<1>4. p \in DOMAIN deliveries /\ p \in DeliveryIds
  BY <1>3 DEF ReferencesResolve, TypeOK
<1> HIDE DEF p
<1>5. KeepsRow(p)
  BY <1>3, <1>4 DEF Works, CompletesRow, CompletedAs, CreatesRow, NoRow
<1>6. Open(p) /\ deliveries'[p].expiresAt = deliveries[p].expiresAt
  BY <1>3, <1>5 DEF KeepsRow, KeptAs, SameOrigin, Open
<1>7. ~Expired(p)
  <2>1. now \in Nat /\ now' \in Nat /\ now' >= now /\ deliveries[p].expiresAt \in Nat
    BY <1>4 DEF TypeOK, DeliveryRow, Time, Never, Onward
  <2> QED BY <1>3, <1>6, <2>1 DEF Expired
<1> QED BY <1>2, <1>3, <1>6, <1>7 DEF Blocked, p

LEMMA HandedNotBlockedStep ==
    ASSUME OrderInv, OrderInv', HandedNotBlocked, Next, OrderKept
    PROVE  HandedNotBlocked'
<1> USE DEF OrderInv
<1> SUFFICES ASSUME NEW d \in DOMAIN deliveries', Handed(d)', Blocked(d)'
             PROVE  FALSE
  BY DEF HandedNotBlocked
<1>0. d \in DeliveryIds /\ deliveries'[d].attempts > 0
  BY DEF TypeOK, Handed
<1>1. CASE PruneDeliveries
  <2>1. UNCHANGED <<now, subs>>
    BY <1>1, PruneDrops
  <2>2. PICK S : /\ DOMAIN deliveries' = DOMAIN deliveries \ S
                 /\ \A e \in DOMAIN deliveries' : deliveries'[e] =
                      [deliveries[e] EXCEPT !.notBefore =
                         IF @ \in S THEN None ELSE @]
    BY <1>1, PruneDrops
  <2> DEFINE p == deliveries[d].notBefore
  <2>3. \A e \in DOMAIN deliveries' :
           /\ e \in DOMAIN deliveries
           /\ deliveries'[e].completedAt = deliveries[e].completedAt
           /\ deliveries'[e].expiresAt = deliveries[e].expiresAt
           /\ deliveries'[e].attempts = deliveries[e].attempts
           /\ deliveries'[e].notBefore = IF deliveries[e].notBefore \in S
                                         THEN None ELSE deliveries[e].notBefore
    BY <2>2 DEF TypeOK, DeliveryRow
  <2>4. /\ deliveries'[d].notBefore = p /\ p # None
        /\ p \in DOMAIN deliveries'
    BY <2>3 DEF Blocked, ReferencesResolve
  <2>5. Open(p) /\ ~Expired(p) /\ subs[SubOf(d)].ordered
    BY <2>1, <2>3, <2>4 DEF Blocked, Open, Expired
  <2> QED BY <2>3, <2>4, <2>5 DEF HandedNotBlocked, Handed, Blocked
<1>2. CASE ~PruneDeliveries
  <2>1. Works /\ Onward
    BY <1>2, NextWorks DEF OrderKept
  <2>2. KeepsRow(d) \/ CompletesRow(d)
    BY <1>0, <2>1 DEF Works, CreatesRow, NoRow
  <2>3. Blocked(d) /\ d \in DOMAIN deliveries
    BY <2>1, <2>2, BlockedBefore
       DEF KeepsRow, CompletesRow, KeptAs, CompletedAs
  <2>4. ~Handed(d)
    BY <2>3 DEF HandedNotBlocked
  <2>5. deliveries[d].attempts \in Nat
    BY <2>3 DEF TypeOK, DeliveryRow
  <2>6. deliveries'[d].attempts # deliveries[d].attempts
    BY <1>0, <2>4, <2>5 DEF Handed
  <2>7. Deliverable(d)
    BY <2>2, <2>6 DEF KeepsRow, CompletesRow, KeptAs, CompletedAs
  <2> QED BY <2>3, <2>7 DEF Deliverable
<1> QED BY <1>1, <1>2

\* What is exhausted was handed out.
LEMMA HandedNotBlockedSuffices ==
    ASSUME TypeOK, HandedNotBlocked
    PROVE  DeadLetterNeverBlocked
BY ExhaustedHanded DEF DeadLetterNeverBlocked, DeadLetterDue, HandedNotBlocked

\* The background dead-letter service may leave out the join on the
\* predecessor that the pull's query has: without seeks, and while no
\* subscription is switched to ordered delivery, what it selects waits for
\* nobody.
THEOREM DeadLetterNeverBlockedAlways ==
    Spec /\ [][OrderKept]_vars => []DeadLetterNeverBlocked
<1>1. OrderInv /\ [Next]_vars => OrderInv'
  BY OrderInvStep
<1>2. Init => HandedNotBlocked
  BY DEF Init, HandedNotBlocked
<1>3. OrderInv /\ OrderInv' /\ HandedNotBlocked /\ [Next]_vars
         /\ [OrderKept]_vars => HandedNotBlocked'
  <2>1. ASSUME HandedNotBlocked, UNCHANGED vars
        PROVE  HandedNotBlocked'
    BY <2>1 DEF vars, HandedNotBlocked, Handed, Blocked, Open, Expired
  <2> QED BY <2>1, HandedNotBlockedStep
<1>4. OrderInv /\ HandedNotBlocked => DeadLetterNeverBlocked
  BY HandedNotBlockedSuffices DEF OrderInv
<1> QED BY <1>1, <1>2, <1>3, <1>4, InitOrderInv, PTL DEF Spec
=============================================================================
