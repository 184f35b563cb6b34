---------------------------- MODULE WakeupProofs ----------------------------
(***************************************************************************)
(* The registry of waiting channels and the notifier, for any number of    *)
(* processes, subscriptions, pulls and writers.  RegistryOK ties the wait  *)
(* sets to the pulls: a channel is in the set of its own process and       *)
(* subscription, and there exactly until it is closed or cancelled.        *)
(* HooksOK says that whoever holds the mutex inside a hook still has a     *)
(* call to finish.                                                         *)
(***************************************************************************)
EXTENDS Wakeups, FiniteSetTheorems, SequenceTheorems, TLAPS

\* WakeTypeOK, in the parts that belong to the registry, hooks and notifier.
RegistryType ==
    /\ pc \in [Pullers -> {"idle", "registered", "asleep", "leaving"}]
    /\ DOMAIN pubWaiters = Procs
    /\ \A p \in Procs : pubWaiters[p] \in [DOMAIN pubWaiters[p] -> SUBSET Pullers]
                        /\ DOMAIN pubWaiters[p] \subseteq Subs
    /\ closed \subseteq Pullers

\* Whoever is in a wait set belongs there, and its channel is open.
WaitersListed ==
    \A p \in Procs : \A s \in DOMAIN pubWaiters[p] :
       \A w \in pubWaiters[p][s] :
          ProcOf[w] = p /\ PullsFrom[w] = s /\ pc[w] # "idle" /\ w \notin closed

\* A channel that is open and not cancelled is in its wait set.
Listed(w) == /\ PullsFrom[w] \in DOMAIN pubWaiters[ProcOf[w]]
             /\ w \in pubWaiters[ProcOf[w]][PullsFrom[w]]
ListedUntilClosed ==
    \A w \in Pullers : pc[w] # "idle" /\ w \notin closed => Listed(w)

RegistryOK == RegistryType /\ WaitersListed /\ ListedUntilClosed

HooksType ==
    /\ calls \in [Writers -> Seq(Seq(Subs))]
    /\ nmu \in [Procs -> Writers \cup {Nobody}]
    /\ pubNotifies \in [Procs -> Seq(Subs)]
    /\ \A p \in Procs : Len(pubNotifies[p]) <= Cap

\* No call is for nothing, and who holds the mutex has one to finish.
HookHeld ==
    /\ \A r \in Writers : \A i \in DOMAIN calls[r] : calls[r][i] # <<>>
    /\ \A p \in Procs : nmu[p] # Nobody =>
          ProcOf[nmu[p]] = p /\ calls[nmu[p]] # <<>>

HooksOK == HooksType /\ HookHeld

NotifierType ==
    /\ due \subseteq Subs
    /\ hooked \subseteq Procs /\ stopping \subseteq Procs
    /\ pn \in [Procs -> SUBSET Subs]
    /\ sender \in [Procs ->
         {"blocked", "draining", "connecting", "sending", "ended"}]
    /\ listener \in [Procs ->
         {"down", "listening", "up", "deaf", "stuck", "ended"}]
    /\ incoming \in [Procs -> SUBSET Subs] /\ waking \in [Procs -> SUBSET Subs]
    /\ commits \in [CommitKinds -> Nat] /\ faults \in [Faults -> Nat]

WakeInv == RegistryOK /\ HooksOK /\ NotifierType

-----------------------------------------------------------------------------
(* The registry *)

\* Closing wait sets leaves the others as they are.
LEMMA CloseAllOK ==
    ASSUME RegistryOK, NEW p \in Procs,
           NEW S \in SUBSET DOMAIN pubWaiters[p], CloseAll(p, S), UNCHANGED pc
    PROVE  RegistryOK'
<1> USE DEF RegistryOK
<1>1. /\ DOMAIN pubWaiters' = Procs
      /\ \A q \in Procs \ {p} : pubWaiters'[q] = pubWaiters[q]
      /\ pubWaiters'[p] = [s \in DOMAIN pubWaiters[p] \ S |-> pubWaiters[p][s]]
  BY DEF RegistryType, CloseAll, Restrict
<1>2. ASSUME NEW q \in Procs, NEW s \in DOMAIN pubWaiters'[q]
      PROVE  /\ s \in DOMAIN pubWaiters[q] /\ pubWaiters'[q][s] = pubWaiters[q][s]
             /\ q = p => s \notin S
  <2>1. CASE q = p
    BY <1>1, <2>1
  <2>2. CASE q # p
    BY <1>1, <2>2
  <2> QED BY <2>1, <2>2
<1>3. closed' = closed \cup UNION {pubWaiters[p][s] : s \in S}
  BY DEF CloseAll
<1>4. RegistryType'
  <2>1. \A q \in Procs : /\ DOMAIN pubWaiters'[q] \subseteq Subs
                         /\ pubWaiters'[q] \in
                               [DOMAIN pubWaiters'[q] -> SUBSET Pullers]
    <3> SUFFICES ASSUME NEW q \in Procs
                 PROVE  /\ DOMAIN pubWaiters'[q] \subseteq Subs
                        /\ pubWaiters'[q] \in
                              [DOMAIN pubWaiters'[q] -> SUBSET Pullers]
      OBVIOUS
    <3>1. CASE q = p
      BY <1>1, <3>1 DEF RegistryType
    <3>2. CASE q # p
      BY <1>1, <3>2 DEF RegistryType
    <3> QED BY <3>1, <3>2
  <2>2. closed' \subseteq Pullers
    BY <1>3 DEF RegistryType
  <2> QED BY <1>1, <2>1, <2>2 DEF RegistryType
<1>5. WaitersListed'
  <2> SUFFICES ASSUME NEW q \in Procs, NEW s \in DOMAIN pubWaiters'[q],
                      NEW w \in pubWaiters'[q][s]
               PROVE  /\ ProcOf[w] = q /\ PullsFrom[w] = s /\ pc'[w] # "idle"
                      /\ w \notin closed'
    BY DEF WaitersListed
  <2>1. /\ s \in DOMAIN pubWaiters[q] /\ w \in pubWaiters[q][s]
        /\ q = p => s \notin S
    BY <1>2
  <2>2. ProcOf[w] = q /\ PullsFrom[w] = s /\ pc[w] # "idle" /\ w \notin closed
    BY <2>1 DEF WaitersListed
  <2>3. ASSUME NEW t \in S, w \in pubWaiters[p][t]
        PROVE  FALSE
    <3>1. ProcOf[w] = p /\ PullsFrom[w] = t
      BY <2>3 DEF WaitersListed
    <3> QED BY <2>1, <2>2, <3>1
  <2> QED BY <1>3, <2>2, <2>3
<1>6. ListedUntilClosed'
  <2> SUFFICES ASSUME NEW w \in Pullers, pc[w] # "idle", w \notin closed'
               PROVE  Listed(w)'
    BY DEF ListedUntilClosed
  <2>1. Listed(w) /\ ProcOf[w] \in Procs
    BY <1>3, WakeupsAssumption DEF ListedUntilClosed
  <2>2. CASE ProcOf[w] = p
    <3>1. PullsFrom[w] \notin S
      BY <1>3, <2>1, <2>2 DEF Listed
    <3> QED BY <1>1, <2>1, <2>2, <3>1 DEF Listed
  <2>3. CASE ProcOf[w] # p
    BY <1>1, <2>1, <2>3 DEF Listed
  <2> QED BY <2>2, <2>3
<1> QED BY <1>4, <1>5, <1>6

\* A call reaches wait sets of its process.
LEMMA ReachedListed ==
    ASSUME NEW p, NEW ids, \A i \in DOMAIN ids : i \in Nat /\ i >= 1
    PROVE  Reached(p, ids) \subseteq DOMAIN pubWaiters[p]
BY DEF Reached

LEMMA RegisterOK ==
    ASSUME RegistryOK, NEW w \in Pullers, Register(w)
    PROVE  RegistryOK'
<1> USE DEF RegistryOK
<1> DEFINE p == ProcOf[w]
           s == PullsFrom[w]
           old == IF s \in DOMAIN pubWaiters[p] THEN pubWaiters[p][s] ELSE {}
<1>0. p \in Procs /\ s \in Subs
  BY WakeupsAssumption
<1>1. /\ DOMAIN pubWaiters' = Procs
      /\ \A q \in Procs \ {p} : pubWaiters'[q] = pubWaiters[q]
      /\ pubWaiters'[p] = [t \in DOMAIN pubWaiters[p] \cup {s} |->
                             IF t = s THEN old \cup {w} ELSE pubWaiters[p][t]]
      /\ pc[w] = "idle" /\ pc' = [pc EXCEPT ![w] = "registered"]
      /\ closed' = closed \ {w}
  BY <1>0 DEF RegistryType, Register
<1>2. old \subseteq Pullers
  BY <1>0 DEF RegistryType
<1>3. \A b \in Pullers : pc'[b] = IF b = w THEN "registered" ELSE pc[b]
  BY <1>1 DEF RegistryType
<1>4. ASSUME NEW q \in Procs, NEW t \in DOMAIN pubWaiters'[q],
             NEW b \in pubWaiters'[q][t], b # w
      PROVE  t \in DOMAIN pubWaiters[q] /\ b \in pubWaiters[q][t]
  <2>1. CASE q # p
    BY <1>1, <2>1
  <2>2. CASE q = p /\ t # s
    BY <1>1, <2>2
  <2>3. CASE q = p /\ t = s
    <3>1. b \in old
      BY <1>1, <1>4, <2>3
    <3> QED BY <2>3, <3>1
  <2> QED BY <2>1, <2>2, <2>3
<1>5. ASSUME NEW q \in Procs, NEW t \in DOMAIN pubWaiters'[q],
             w \in pubWaiters'[q][t]
      PROVE  q = p /\ t = s
  <2>1. ~(t \in DOMAIN pubWaiters[q] /\ w \in pubWaiters[q][t])
    BY <1>1 DEF WaitersListed
  <2>2. CASE q # p
    BY <1>1, <1>5, <2>1, <2>2
  <2>3. CASE q = p /\ t # s
    BY <1>1, <1>5, <2>1, <2>3
  <2> QED BY <2>2, <2>3
<1>6. RegistryType'
  <2>1. ASSUME NEW q \in Procs
        PROVE  /\ DOMAIN pubWaiters'[q] \subseteq Subs
               /\ pubWaiters'[q] \in [DOMAIN pubWaiters'[q] -> SUBSET Pullers]
    <3>1. CASE q = p
      <4> HIDE DEF old
      <4> QED BY <1>0, <1>1, <1>2, <3>1 DEF RegistryType
    <3>2. CASE q # p
      BY <1>1, <3>2 DEF RegistryType
    <3> QED BY <3>1, <3>2
  <2>2. pc' \in [Pullers -> {"idle", "registered", "asleep", "leaving"}]
    BY <1>1 DEF RegistryType
  <2> QED BY <1>1, <2>1, <2>2 DEF RegistryType
<1>7. WaitersListed'
  <2> SUFFICES ASSUME NEW q \in Procs, NEW t \in DOMAIN pubWaiters'[q],
                      NEW b \in pubWaiters'[q][t]
               PROVE  /\ ProcOf[b] = q /\ PullsFrom[b] = t /\ pc'[b] # "idle"
                      /\ b \notin closed'
    BY DEF WaitersListed
  <2>1. CASE b = w
    BY <1>1, <1>3, <1>5, <2>1
  <2>2. CASE b # w
    <3>1. t \in DOMAIN pubWaiters[q] /\ b \in pubWaiters[q][t]
      BY <1>4, <2>2
    <3>2. ProcOf[b] = q /\ PullsFrom[b] = t /\ pc[b] # "idle" /\ b \notin closed
      BY <3>1 DEF WaitersListed
    <3>3. b \in Pullers
      BY <3>1 DEF RegistryType
    <3> QED BY <1>1, <1>3, <2>2, <3>2, <3>3
  <2> QED BY <2>1, <2>2
<1>8. ListedUntilClosed'
  <2> SUFFICES ASSUME NEW b \in Pullers, pc'[b] # "idle", b \notin closed'
               PROVE  Listed(b)'
    BY DEF ListedUntilClosed
  <2>1. CASE b = w
    BY <1>0, <1>1, <2>1 DEF Listed
  <2>2. CASE b # w
    <3>1. Listed(b) /\ ProcOf[b] \in Procs
      BY <1>1, <1>3, <2>2, WakeupsAssumption DEF ListedUntilClosed
    <3>2. CASE ProcOf[b] # p
      BY <1>1, <3>1, <3>2 DEF Listed
    <3>3. CASE ProcOf[b] = p
      BY <1>1, <3>1, <3>3 DEF Listed
    <3> QED BY <3>2, <3>3
  <2> QED BY <2>1, <2>2
<1> QED BY <1>6, <1>7, <1>8

LEMMA CancelOK ==
    ASSUME RegistryOK, NEW w \in Pullers, Cancel(w)
    PROVE  RegistryOK'
<1> USE DEF RegistryOK
<1> DEFINE p == ProcOf[w]
           s == PullsFrom[w]
<1>0. p \in Procs /\ s \in Subs
  BY WakeupsAssumption
<1>1. /\ DOMAIN pubWaiters' = Procs
      /\ \A q \in Procs \ {p} : pubWaiters'[q] = pubWaiters[q]
      /\ pubWaiters'[p] = [t \in DOMAIN pubWaiters[p] |->
            IF t = s THEN pubWaiters[p][t] \ {w} ELSE pubWaiters[p][t]]
      /\ pc' = [pc EXCEPT ![w] = "idle"] /\ closed' = closed
  BY <1>0 DEF RegistryType, Cancel
<1>2. \A b \in Pullers : pc'[b] = IF b = w THEN "idle" ELSE pc[b]
  BY <1>1 DEF RegistryType
<1>3. ASSUME NEW q \in Procs, NEW t \in DOMAIN pubWaiters'[q],
             NEW b \in pubWaiters'[q][t]
      PROVE  t \in DOMAIN pubWaiters[q] /\ b \in pubWaiters[q][t] /\ b # w
  <2>1. t \in DOMAIN pubWaiters[q] /\ b \in pubWaiters[q][t]
    <3>1. CASE q # p
      BY <1>1, <3>1
    <3>2. CASE q = p
      BY <1>1, <3>2
    <3> QED BY <3>1, <3>2
  <2>2. ASSUME b = w
        PROVE  FALSE
    <3>1. q = p /\ t = s
      BY <2>1, <2>2 DEF WaitersListed
    <3> QED BY <1>1, <2>2, <3>1
  <2> QED BY <2>1, <2>2
<1>4. RegistryType'
  <2>1. ASSUME NEW q \in Procs
        PROVE  /\ DOMAIN pubWaiters'[q] \subseteq Subs
               /\ pubWaiters'[q] \in [DOMAIN pubWaiters'[q] -> SUBSET Pullers]
    <3>1. CASE q = p
      BY <1>1, <3>1 DEF RegistryType
    <3>2. CASE q # p
      BY <1>1, <3>2 DEF RegistryType
    <3> QED BY <3>1, <3>2
  <2>2. pc' \in [Pullers -> {"idle", "registered", "asleep", "leaving"}]
    BY <1>1 DEF RegistryType
  <2> QED BY <1>1, <2>1, <2>2 DEF RegistryType
<1>5. WaitersListed'
  <2> SUFFICES ASSUME NEW q \in Procs, NEW t \in DOMAIN pubWaiters'[q],
                      NEW b \in pubWaiters'[q][t]
               PROVE  /\ ProcOf[b] = q /\ PullsFrom[b] = t /\ pc'[b] # "idle"
                      /\ b \notin closed'
    BY DEF WaitersListed
  <2>1. t \in DOMAIN pubWaiters[q] /\ b \in pubWaiters[q][t] /\ b # w
    BY <1>3
  <2>2. b \in Pullers
    BY <2>1 DEF RegistryType
  <2> QED BY <1>1, <1>2, <2>1, <2>2 DEF WaitersListed
<1>6. ListedUntilClosed'
  <2> SUFFICES ASSUME NEW b \in Pullers, pc'[b] # "idle", b \notin closed'
               PROVE  Listed(b)'
    BY DEF ListedUntilClosed
  <2>1. b # w /\ Listed(b) /\ ProcOf[b] \in Procs
    BY <1>1, <1>2, WakeupsAssumption DEF ListedUntilClosed
  <2>2. CASE ProcOf[b] # p
    BY <1>1, <2>1, <2>2 DEF Listed
  <2>3. CASE ProcOf[b] = p
    BY <1>1, <2>1, <2>3 DEF Listed
  <2> QED BY <2>2, <2>3
<1> QED BY <1>4, <1>5, <1>6

\* A pull that goes on between registering and cancelling.
LEMMA GoOnOK ==
    ASSUME RegistryOK, NEW w \in Pullers, pc[w] # "idle",
           UNCHANGED registryVars,
           \E there \in {"asleep", "leaving"} : pc' = [pc EXCEPT ![w] = there]
    PROVE  RegistryOK'
<1> USE DEF RegistryOK
<1>1. UNCHANGED <<pubWaiters, closed>>
  BY DEF registryVars
<1>2. pc' \in [Pullers -> {"idle", "registered", "asleep", "leaving"}]
  BY DEF RegistryType
<1>3. \A b \in Pullers : pc'[b] = "idle" <=> pc[b] = "idle"
  BY DEF RegistryType
<1>4. RegistryType'
  BY <1>1, <1>2 DEF RegistryType
<1>5. WaitersListed'
  BY <1>1, <1>3 DEF RegistryType, WaitersListed
<1>6. ListedUntilClosed'
  BY <1>1, <1>3 DEF ListedUntilClosed, Listed
<1> QED BY <1>4, <1>5, <1>6

LEMMA RegistryStep ==
    ASSUME RegistryOK, HooksOK, [WakeNext]_wakeVars
    PROVE  RegistryOK'
<1>1. ASSUME UNCHANGED <<pc, pubWaiters, closed>>
      PROVE  RegistryOK'
  BY <1>1 DEF RegistryOK, RegistryType, WaitersListed, ListedUntilClosed, Listed
<1>2. ASSUME NEW w \in Pullers, Pull(w) \/ GiveUp(w)
      PROVE  RegistryOK'
  <2>1. CASE Register(w) \/ Cancel(w)
    BY <2>1, RegisterOK, CancelOK
  <2>2. CASE Query(w) \/ Awaken(w) \/ GiveUp(w)
    BY <2>2, GoOnOK DEF Query, Awaken, GiveUp
  <2> QED BY <1>2, <2>1, <2>2 DEF Pull
<1>3. ASSUME NEW r \in Writers, CallInternal(r)
      PROVE  RegistryOK'
  <2>1. ProcOf[r] \in Procs
    BY WakeupsAssumption
  <2>2. Reached(ProcOf[r], Head(calls[r])) \subseteq DOMAIN pubWaiters[ProcOf[r]]
    <3>1. Head(calls[r]) \in Seq(Subs)
      BY <1>3 DEF CallInternal, HooksOK, HooksType
    <3> QED BY <3>1, ReachedListed
  <2> QED BY <1>3, <2>1, <2>2, CloseAllOK DEF CallInternal, WakeInternal
<1>4. ASSUME NEW p \in Procs, WakeAll(p) \/ Wake(p)
      PROVE  RegistryOK'
  <2>1. CASE WakeAll(p)
    BY <2>1, CloseAllOK DEF WakeAll, WakeAllInternal
  <2>2. CASE Wake(p)
    <3>1. PICK s \in waking[p] : CloseAll(p, Reached(p, <<s>>)) /\ UNCHANGED pc
      BY <2>2 DEF Wake, WakeInternal
    <3>2. Reached(p, <<s>>) \subseteq DOMAIN pubWaiters[p]
      BY ReachedListed
    <3> QED BY <3>1, <3>2, CloseAllOK
  <2> QED BY <1>4, <2>1, <2>2
<1>5. ASSUME NEW r \in Writers,
             CommitPublish(r) \/ CommitZeroDelay(r) \/ LockForHook(r) \/ Hook(r)
      PROVE  RegistryOK'
  <2>1. UNCHANGED <<pc, pubWaiters, closed>>
    BY <1>5, Zenon DEF CommitPublish, CommitZeroDelay, Commit, LockForHook,
       Hook, registryVars
  <2> QED BY <1>1, <2>1
<1>6. ASSUME NEW p \in Procs,
             \/ SendLoop(p) \/ ConnectFails(p) \/ SendFails(p)
             \/ Listen(p) \/ Receive(p) \/ Drop(p) \/ TimesOut(p)
             \/ Stop(p) \/ SenderEnds(p) \/ ListenerEnds(p) \/ Cleanup(p)
      PROVE  RegistryOK'
  <2>1. UNCHANGED <<pc, pubWaiters, closed>>
    BY <1>6, Zenon DEF SendLoop, Take, Drained, Connect, Send, Sent,
       ConnectFails, SendFails, Listen, Receive, Drop, TimesOut, Stop,
       SenderEnds, ListenerEnds, Cleanup, registryVars
  <2> QED BY <1>1, <2>1
<1>7. CASE UNCHANGED wakeVars
  BY <1>1, <1>7 DEF wakeVars
<1> QED BY <1>2, <1>3, <1>4, <1>5, <1>6, <1>7 DEF WakeNext, Write, ListenLoop

-----------------------------------------------------------------------------
(* Hooks and notifier *)

\* The calls of a transaction that makes something due.
LEMMA OrdersType ==
    ASSUME NEW S \in (SUBSET Subs) \ {{}}, NEW q \in Orders(S)
    PROVE  /\ q \in Seq(Subs) /\ q # <<>>
           /\ Range(q) = S /\ DOMAIN q = 1 .. Len(q)
<1>1. IsFiniteSet(S) /\ Cardinality(S) \in Nat /\ Cardinality(S) # 0
  <2>1. IsFiniteSet(S)
    BY WakeupsAssumption, FS_Subset
  <2>2. Cardinality(S) \in Nat
    BY <2>1, FS_CardinalityType
  <2> QED BY <2>1, <2>2, FS_EmptySet
<1>2. q \in [1 .. Cardinality(S) -> S] /\ Range(q) = S
  BY DEF Orders
<1>3. q \in Seq(S) /\ Len(q) = Cardinality(S)
  BY <1>1, <1>2
<1>4. q \in Seq(Subs)
  BY <1>3
<1>5. q # <<>>
  BY <1>1, <1>3
<1> QED BY <1>2, <1>3, <1>4, <1>5

LEMMA CommitOK ==
    ASSUME HooksOK, NEW r \in Writers, NEW kind, NEW S, NEW cs,
           Commit(r, kind, S, cs), cs \in Seq(Seq(Subs)),
           \A i \in DOMAIN cs : cs[i] # <<>>
    PROVE  HooksOK'
<1> USE DEF HooksOK
<1>1. /\ calls' = [calls EXCEPT ![r] = cs] /\ calls[r] = <<>>
      /\ UNCHANGED <<nmu, pubNotifies>>
  BY DEF Commit, sendVars
<1>2. HooksType'
  BY <1>1 DEF HooksType
<1>3. \A p \in Procs : nmu[p] # r
  BY <1>1, WakeupsAssumption DEF HookHeld
<1>4. HookHeld'
  BY <1>1, <1>3 DEF HookHeld, HooksType
<1> QED BY <1>2, <1>4

LEMMA LongTail ==
    ASSUME NEW q \in Seq(Subs), q # <<>>, Len(q) # 1
    PROVE  Tail(q) # <<>>
<1>1. Len(q) \in Nat /\ Len(q) # 0
  OBVIOUS
<1>2. Len(Tail(q)) = Len(q) - 1
  BY <1>1
<1>3. Len(Tail(q)) # 0
  BY <1>1, <1>2
<1>4. Tail(q) \in Seq(Subs)
  OBVIOUS
<1> QED BY <1>3, <1>4, EmptySeq

LEMMA HookOK ==
    ASSUME HooksOK, NEW r \in Writers, Hook(r)
    PROVE  HooksOK'
<1> USE DEF HooksOK
<1> DEFINE p == ProcOf[r]
           ids == Head(calls[r])
           rest == IF Len(ids) = 1 THEN Tail(calls[r])
                   ELSE <<Tail(ids)>> \o Tail(calls[r])
<1>1. p \in Procs /\ nmu[p] = r /\ r # Nobody
  BY WakeupsAssumption DEF Hook
<1>2. calls[r] \in Seq(Seq(Subs)) /\ calls[r] # <<>>
  BY <1>1 DEF HooksType, HookHeld
<1>3. ids \in Seq(Subs) /\ ids # <<>>
  <2>1. ids = calls[r][1] /\ 1 \in DOMAIN calls[r] /\ ids \in Seq(Subs)
    BY <1>2
  <2> QED BY <2>1 DEF HookHeld
<1>4. /\ pubNotifies' = [pubNotifies EXCEPT ![p] = Append(@, Head(ids))]
      /\ Len(pubNotifies[p]) < Cap
      /\ calls' = [calls EXCEPT ![r] = rest]
      /\ nmu' = [nmu EXCEPT ![p] = IF Len(ids) = 1 THEN Nobody ELSE r]
  BY DEF Hook
<1>5. Head(ids) \in Subs /\ Tail(ids) \in Seq(Subs)
  BY <1>3
<1>6. /\ rest \in Seq(Seq(Subs)) /\ \A i \in DOMAIN rest : rest[i] # <<>>
      /\ Len(ids) # 1 => rest # <<>>
  <2>1. /\ Tail(calls[r]) \in Seq(Seq(Subs))
        /\ \A i \in DOMAIN Tail(calls[r]) : Tail(calls[r])[i] # <<>>
    BY <1>2 DEF HookHeld
  <2>2. CASE Len(ids) = 1
    BY <2>1, <2>2
  <2>3. CASE Len(ids) # 1
    <3>1. Tail(ids) # <<>>
      BY <1>3, <2>3, LongTail
    <3>2. rest = <<Tail(ids)>> \o Tail(calls[r])
      BY <2>3
    <3> HIDE DEF rest, ids
    <3> QED BY <1>5, <2>1, <2>3, <3>1, <3>2
  <2> QED BY <2>2, <2>3
<1> HIDE DEF rest, ids
<1>7. calls' \in [Writers -> Seq(Seq(Subs))] /\ nmu' \in [Procs -> Writers \cup {Nobody}]
  BY <1>4, <1>6 DEF HooksType
<1>8. /\ pubNotifies' \in [Procs -> Seq(Subs)]
      /\ \A q \in Procs : Len(pubNotifies'[q]) <= Cap
  BY <1>1, <1>4, <1>5, WakeupsAssumption DEF HooksType
<1>9. \A b \in Writers : calls'[b] = IF b = r THEN rest ELSE calls[b]
  BY <1>4 DEF HooksType
<1>10. \A q \in Procs : nmu'[q] = IF q = p THEN (IF Len(ids) = 1 THEN Nobody ELSE r)
                                 ELSE nmu[q]
  BY <1>4 DEF HooksType
<1>11. HookHeld'
  <2>1. \A b \in Writers : \A i \in DOMAIN calls'[b] : calls'[b][i] # <<>>
    BY <1>6, <1>9 DEF HookHeld
  <2>2. ASSUME NEW q \in Procs, nmu'[q] # Nobody
        PROVE  ProcOf[nmu'[q]] = q /\ calls'[nmu'[q]] # <<>>
    <3>1. CASE q = p
      BY <1>1, <1>6, <1>9, <1>10, <2>2, <3>1
    <3>2. CASE q # p
      <4>1. nmu'[q] = nmu[q] /\ ProcOf[nmu[q]] = q /\ calls[nmu[q]] # <<>>
        BY <1>10, <2>2, <3>2 DEF HookHeld
      <4>2. nmu[q] # r /\ nmu[q] \in Writers
        BY <2>2, <3>2, <4>1 DEF HooksType
      <4> QED BY <1>9, <4>1, <4>2
    <3> QED BY <3>1, <3>2
  <2> QED BY <2>1, <2>2 DEF HookHeld
<1> QED BY <1>7, <1>8, <1>11 DEF HooksType

LEMMA HooksStep ==
    ASSUME HooksOK, [WakeNext]_wakeVars
    PROVE  HooksOK'
<1> USE DEF HooksOK
<1>1. ASSUME UNCHANGED <<calls, nmu, pubNotifies>>
      PROVE  HooksOK'
  BY <1>1 DEF HooksType, HookHeld
<1>2. ASSUME NEW r \in Writers, CommitPublish(r) \/ CommitZeroDelay(r)
      PROVE  HooksOK'
  <2>0. PICK S \in (SUBSET Subs) \ {{}} : \E q \in Orders(S) :
           \/ Commit(r, "publish", S, [i \in DOMAIN q |-> <<q[i]>>])
           \/ Commit(r, "zero delay", S, <<q>>)
    BY <1>2 DEF CommitPublish, CommitZeroDelay
  <2>1. PICK q \in Orders(S) :
           \/ Commit(r, "publish", S, [i \in DOMAIN q |-> <<q[i]>>])
           \/ Commit(r, "zero delay", S, <<q>>)
    BY <2>0
  <2>2. /\ q \in Seq(Subs) /\ q # <<>> /\ DOMAIN q = 1 .. Len(q)
    BY OrdersType
  <2> DEFINE each == [i \in DOMAIN q |-> <<q[i]>>]
  <2>3. each \in Seq(Seq(Subs)) /\ \A i \in DOMAIN each : each[i] # <<>>
    BY <2>2
  <2>4. <<q>> \in Seq(Seq(Subs)) /\ \A i \in DOMAIN <<q>> : <<q>>[i] # <<>>
    BY <2>2
  <2> HIDE DEF each
  <2> QED BY <2>1, <2>3, <2>4, CommitOK DEF each
<1>3. ASSUME NEW r \in Writers, LockForHook(r)
      PROVE  HooksOK'
  <2>1. /\ calls[r] # <<>> /\ nmu' = [nmu EXCEPT ![ProcOf[r]] = r]
        /\ UNCHANGED <<calls, pubNotifies>>
    BY <1>3 DEF LockForHook, sendVars
  <2> QED BY <2>1 DEF HooksType, HookHeld
<1>4. ASSUME NEW r \in Writers, CallInternal(r)
      PROVE  HooksOK'
  <2>1. /\ calls[r] # <<>> /\ calls' = [calls EXCEPT ![r] = Tail(calls[r])]
        /\ UNCHANGED <<nmu, pubNotifies>> /\ nmu[ProcOf[r]] = Nobody
    BY <1>4 DEF CallInternal, sendVars, NmuFree
  <2>2. /\ Tail(calls[r]) \in Seq(Seq(Subs))
        /\ \A i \in DOMAIN Tail(calls[r]) : Tail(calls[r])[i] # <<>>
    BY <2>1 DEF HooksType, HookHeld
  <2>3. HooksType'
    BY <2>1, <2>2 DEF HooksType
  <2>4. \A p \in Procs : nmu[p] = Nobody \/ (nmu[p] # r /\ nmu[p] \in Writers)
    BY <2>1 DEF HookHeld, HooksType
  <2>5. HookHeld'
    BY <2>1, <2>2, <2>4 DEF HookHeld, HooksType
  <2> QED BY <2>3, <2>5
<1>5. ASSUME NEW p \in Procs, Take(p)
      PROVE  HooksOK'
  <2>1. /\ pubNotifies[p] # <<>> /\ UNCHANGED <<calls, nmu>>
        /\ pubNotifies' = [pubNotifies EXCEPT ![p] = Tail(@)]
    BY <1>5 DEF Take, hookVars
  <2>2. /\ Tail(pubNotifies[p]) \in Seq(Subs)
        /\ Len(Tail(pubNotifies[p])) <= Cap
    BY <2>1, WakeupsAssumption DEF HooksType
  <2> QED BY <2>1, <2>2 DEF HooksType, HookHeld
<1>6. ASSUME \/ \E w \in Pullers : Pull(w) \/ GiveUp(w)
             \/ \E p \in Procs :
                   \/ Drained(p) \/ Connect(p) \/ Send(p) \/ Sent(p)
                   \/ ConnectFails(p) \/ SendFails(p)
                   \/ ListenLoop(p) \/ Drop(p) \/ TimesOut(p)
                   \/ Stop(p) \/ SenderEnds(p) \/ ListenerEnds(p) \/ Cleanup(p)
             \/ UNCHANGED wakeVars
      PROVE  HooksOK'
  <2>1. UNCHANGED <<calls, nmu, pubNotifies>>
    BY <1>6, Zenon DEF Pull, GiveUp, Register, Query, Awaken, Cancel, Drained,
       Connect, Send, Sent, ConnectFails, SendFails, ListenLoop, Listen,
       WakeAll, Receive, Wake, Drop, TimesOut, Stop, SenderEnds, ListenerEnds,
       Cleanup, hookVars, sendVars, wakeVars
  <2> QED BY <1>1, <2>1
<1> QED BY <1>2, <1>3, <1>4, <1>5, <1>6, HookOK
        DEF WakeNext, Write, SendLoop

\* The other variables keep their types.
LEMMA NotifierStep ==
    ASSUME HooksOK, NotifierType, [WakeNext]_wakeVars
    PROVE  NotifierType'
<1> USE DEF NotifierType
<1>1. ASSUME NEW w \in Pullers, Pull(w) \/ GiveUp(w)
      PROVE  NotifierType'
  BY <1>1 DEF Pull, GiveUp, Register, Query, Awaken, Cancel, hookVars,
     sendVars, listenVars, counters
<1>2. ASSUME NEW r \in Writers, CommitPublish(r) \/ CommitZeroDelay(r)
      PROVE  NotifierType'
  <2>1. PICK S \in (SUBSET Subs) \ {{}}, kind \in CommitKinds :
           \E cs : Commit(r, kind, S, cs)
    BY <1>2 DEF CommitPublish, CommitZeroDelay, CommitKinds
  <2> QED BY <2>1 DEF Commit, sendVars, listenVars
<1>3. ASSUME NEW r \in Writers, Write(r)
      PROVE  NotifierType'
  BY <1>3 DEF Write, LockForHook, Hook, CallInternal, sendVars, listenVars,
     counters
<1>4. ASSUME NEW f \in Faults, Fault(f)
      PROVE  faults' \in [Faults -> Nat]
  BY <1>4 DEF Fault
<1>5. ASSUME NEW p \in Procs, SendLoop(p) \/ ConnectFails(p) \/ SendFails(p)
      PROVE  NotifierType'
  <2>1. CASE Take(p)
    <3>1. Head(pubNotifies[p]) \in Subs
      BY <2>1 DEF Take, HooksOK, HooksType
    <3> QED BY <2>1, <3>1 DEF Take, hookVars, listenVars, counters
  <2>2. CASE Drained(p) \/ Connect(p) \/ Sent(p)
    BY <2>2 DEF Drained, Connect, Sent, hookVars, listenVars, counters
  <2>3. CASE Send(p)
    BY <2>3 DEF Send, hookVars, counters
  <2>4. CASE ConnectFails(p) \/ SendFails(p)
    <3>1. faults' \in [Faults -> Nat]
      BY <1>4, <2>4 DEF ConnectFails, SendFails, Faults
    <3> QED BY <2>4, <3>1 DEF ConnectFails, SendFails, hookVars, listenVars
  <2> QED BY <1>5, <2>1, <2>2, <2>3, <2>4 DEF SendLoop
<1>6. ASSUME NEW p \in Procs, ListenLoop(p) \/ Drop(p) \/ TimesOut(p)
      PROVE  NotifierType'
  <2>1. CASE Listen(p) \/ WakeAll(p)
    BY <2>1 DEF Listen, WakeAll, hookVars, sendVars, counters
  <2>2. CASE Receive(p)
    <3>1. PICK s \in incoming[p] :
             /\ incoming' = [incoming EXCEPT ![p] = @ \ {s}]
             /\ waking' = [waking EXCEPT ![p] = @ \cup {s}]
      BY <2>2 DEF Receive
    <3>2. s \in Subs
      OBVIOUS
    <3> QED BY <2>2, <3>1, <3>2 DEF Receive, hookVars, sendVars, counters
  <2>4. CASE Wake(p)
    BY <2>4 DEF Wake, hookVars, sendVars, counters
  <2>3. CASE Drop(p) \/ TimesOut(p)
    <3>1. faults' \in [Faults -> Nat]
      BY <1>4, <2>3 DEF Drop, TimesOut, Faults
    <3> QED BY <2>3, <3>1 DEF Drop, TimesOut, hookVars, sendVars
  <2> QED BY <1>6, <2>1, <2>2, <2>3, <2>4 DEF ListenLoop
<1>7. ASSUME NEW p \in Procs,
             Stop(p) \/ SenderEnds(p) \/ ListenerEnds(p) \/ Cleanup(p)
      PROVE  NotifierType'
  BY <1>7 DEF Stop, SenderEnds, ListenerEnds, Cleanup, hookVars, sendVars,
     listenVars, counters
<1>8. CASE UNCHANGED wakeVars
  BY <1>8 DEF wakeVars
<1> QED BY <1>1, <1>2, <1>3, <1>5, <1>6, <1>7, <1>8 DEF WakeNext

LEMMA WakeInvInit == WakeInit => WakeInv
<1> SUFFICES ASSUME WakeInit PROVE WakeInv
  OBVIOUS
<1>1. RegistryOK
  BY DEF WakeInit, RegistryOK, RegistryType, WaitersListed, ListedUntilClosed
<1>2. HooksOK
  BY WakeupsAssumption DEF WakeInit, HooksOK, HooksType, HookHeld
<1>3. NotifierType
  BY DEF WakeInit, NotifierType
<1> QED BY <1>1, <1>2, <1>3 DEF WakeInv

LEMMA WakeInvStep ==
    ASSUME WakeInv, [WakeNext]_wakeVars
    PROVE  WakeInv'
BY RegistryStep, HooksStep, NotifierStep DEF WakeInv

LEMMA WakeInvAlways == WakeSpec => []WakeInv
BY WakeInvInit, WakeInvStep, PTL DEF WakeSpec

\* The variables keep their types whatever processes fail or stop; above all,
\* the bounded channel between the publish hook and the send loop is never
\* over its capacity, and the mutex is never held by a writer that has left
\* WakePublishListeners.
THEOREM WakeTypeCorrect == WakeSpec => []WakeTypeOK
<1>1. WakeInv => WakeTypeOK
  <2> SUFFICES ASSUME WakeInv PROVE WakeTypeOK
    OBVIOUS
  <2>1. RegistryType /\ HooksType /\ NotifierType /\ HookHeld
    BY DEF WakeInv, RegistryOK, HooksOK
  <2> QED BY ONLY <2>1, Zenon DEF RegistryType, HooksType, NotifierType,
             HookHeld, WakeTypeOK
<1> QED BY <1>1, WakeInvAlways, PTL

\* No channel is closed twice, which would panic: registering, cancelling,
\* waking one subscription and waking everyone may cross each other in any
\* order, in any number of processes.
THEOREM NeverClosedTwice == WakeSpec => []NoDoubleClose
<1>1. WakeInv => NoDoubleClose
  BY DEF WakeInv, RegistryOK, WaitersListed, NoDoubleClose, Range
<1> QED BY <1>1, WakeInvAlways, PTL

-----------------------------------------------------------------------------
(* No wakeup is lost *)

\* Deployments whose notifications arrive unless a listening connection drops:
\* pg_notify does not fail, no connection times out without an error, nobody
\* shuts down; and SQLite serves one process, whose calls name one
\* subscription each.
Reliable ==
    /\ MaxFaults["send"] = 0 /\ MaxFaults["timeout"] = 0 /\ Stoppable = {}
    /\ "sqlite" \in Databases =>
          Commits["zero delay"] = 0 /\ \A p, q \in Procs : p = q

\* Calls for one subscription each.
Singles(q) == \A i \in DOMAIN q : Len(q[i]) = 1

\* Everyone hooks, and no connection is deaf or stuck.
OnPostgres ==
    /\ hooked = Procs
    /\ \A p \in Procs : listener[p] \in {"down", "listening", "up"}

\* Nobody hooks, and each call wakes one subscription.
OnSqlite ==
    /\ hooked = {} /\ \A p, q \in Procs : p = q
    /\ Commits["zero delay"] = 0
    /\ \A p \in Procs : sender[p] = "ended"
    /\ \A r \in Writers : Singles(calls[r])
Deployed == stopping = {} /\ (OnPostgres \/ OnSqlite)

LEMMA NoFault ==
    ASSUME Reliable, NotifierType, NEW f \in {"send", "timeout"}
    PROVE  ~Fault(f)
<1>1. faults[f] \in Nat /\ MaxFaults[f] = 0
  BY DEF Reliable, NotifierType, Faults
<1> QED BY <1>1 DEF Fault

LEMMA NoCommit ==
    ASSUME NotifierType, NEW k \in CommitKinds, Commits[k] = 0
    PROVE  ~(commits[k] < Commits[k])
<1>1. commits[k] \in Nat
  BY DEF NotifierType
<1> QED BY <1>1

LEMMA DeployedInit ==
    ASSUME Reliable, WakeInit
    PROVE  Deployed
<1>1. PICK db \in Databases :
         LET Start(state) == [p \in Procs |->
                IF db = "postgres" THEN state ELSE "ended"]
         IN  /\ hooked = {p \in Procs : db = "postgres"}
             /\ sender = Start("blocked") /\ listener = Start("down")
  BY DEF WakeInit
<1>2. CASE db = "postgres"
  BY <1>1, <1>2 DEF WakeInit, Deployed, OnPostgres
<1>3. CASE db = "sqlite"
  <2>1. hooked = {} /\ \A p \in Procs : sender[p] = "ended"
    BY <1>1, <1>3
  <2>2. \A r \in Writers : Singles(calls[r])
    BY DEF WakeInit, Singles
  <2>3. Commits["zero delay"] = 0 /\ \A p, q \in Procs : p = q
    BY <1>3 DEF Reliable
  <2> QED BY <2>1, <2>2, <2>3 DEF WakeInit, Deployed, OnSqlite
<1> QED BY <1>2, <1>3, WakeupsAssumption

LEMMA PostgresStep ==
    ASSUME Reliable, WakeInv, stopping = {}, OnPostgres, [WakeNext]_wakeVars
    PROVE  OnPostgres' /\ stopping' = {}
<1> USE DEF OnPostgres
<1>0. \A p \in Procs : ~Stop(p) /\ ~SenderEnds(p) /\ ~ListenerEnds(p) /\ ~Cleanup(p)
  BY DEF Reliable, Stop, SenderEnds, ListenerEnds, Cleanup
<1>1. UNCHANGED <<hooked, stopping>>
  BY <1>0, Zenon DEF WakeNext, Pull, GiveUp, Register, Query, Awaken, Cancel,
     CommitPublish, CommitZeroDelay, Commit, Write, LockForHook, Hook,
     CallInternal, SendLoop, Take, Drained, Connect, Send, Sent, ConnectFails,
     SendFails, ListenLoop, Listen, WakeAll, Receive, Wake, Drop, TimesOut,
     hookVars, wakeVars
<1>2. ASSUME NEW p \in Procs, Listen(p) \/ WakeAll(p) \/ Drop(p)
      PROVE  \A q \in Procs : listener'[q] \in {"down", "listening", "up"}
  BY <1>2 DEF Listen, WakeAll, Drop, WakeInv, NotifierType
<1>3. \A p \in Procs : ~TimesOut(p)
  BY NoFault DEF TimesOut, WakeInv
<1>4. CASE \A p \in Procs : ~(Listen(p) \/ WakeAll(p) \/ Drop(p))
  <2>1. UNCHANGED listener
    BY <1>0, <1>3, <1>4, Zenon DEF WakeNext, Pull, GiveUp, Register, Query,
       Awaken, Cancel, CommitPublish, CommitZeroDelay, Commit, Write,
       LockForHook, Hook, CallInternal, SendLoop, Take, Drained, Connect, Send,
       Sent, ConnectFails, SendFails, ListenLoop, Receive, Wake, listenVars,
       wakeVars
  <2> QED BY <1>1, <2>1
<1> QED BY <1>1, <1>2, <1>4

LEMMA SinglesTail ==
    ASSUME NEW q \in Seq(Seq(Subs)), q # <<>>, Singles(q)
    PROVE  /\ Len(Head(q)) = 1 /\ Tail(q) \in Seq(Seq(Subs))
           /\ Singles(Tail(q))
<1>1. Len(q) \in Nat /\ Len(q) # 0 /\ DOMAIN q = 1 .. Len(q)
  BY EmptySeq
<1>2. Head(q) = q[1] /\ 1 \in DOMAIN q
  BY <1>1
<1>3. /\ Tail(q) \in Seq(Seq(Subs)) /\ DOMAIN Tail(q) = 1 .. Len(q) - 1
      /\ \A i \in 1 .. Len(q) - 1 : Tail(q)[i] = q[i + 1]
  BY <1>1
<1>4. ASSUME NEW i \in 1 .. Len(q) - 1
      PROVE  i + 1 \in DOMAIN q
  BY <1>1
<1>5. ASSUME NEW i \in DOMAIN Tail(q)
      PROVE  Len(Tail(q)[i]) = 1
  BY <1>3, <1>4 DEF Singles
<1> QED BY <1>2, <1>3, <1>5 DEF Singles

LEMMA SinglesEach ==
    ASSUME NEW q \in Seq(Subs)
    PROVE  /\ [i \in DOMAIN q |-> <<q[i]>>] \in Seq(Seq(Subs))
           /\ Singles([i \in DOMAIN q |-> <<q[i]>>])
<1> DEFINE each == [i \in DOMAIN q |-> <<q[i]>>]
<1>1. Len(q) \in Nat /\ DOMAIN q = 1 .. Len(q)
  OBVIOUS
<1>2. \A i \in DOMAIN q : <<q[i]>> \in Seq(Subs) /\ Len(<<q[i]>>) = 1
  OBVIOUS
<1>3. each \in [1 .. Len(q) -> Seq(Subs)]
  BY <1>1, <1>2
<1>4. each \in Seq(Seq(Subs))
  <2> HIDE DEF each
  <2> QED BY <1>1, <1>3
<1>5. \A i \in DOMAIN each : each[i] = <<q[i]>>
  OBVIOUS
<1>6. DOMAIN each = DOMAIN q
  OBVIOUS
<1> HIDE DEF each
<1>7. Singles(each)
  BY <1>2, <1>5, <1>6 DEF Singles
<1> QED BY <1>4, <1>7 DEF each

LEMMA SqliteStep ==
    ASSUME Reliable, WakeInv, stopping = {}, OnSqlite, [WakeNext]_wakeVars
    PROVE  OnSqlite' /\ stopping' = {}
<1>0. /\ \A p \in Procs : /\ ~Stop(p) /\ ~SenderEnds(p) /\ ~ListenerEnds(p)
                          /\ ~Cleanup(p) /\ ~SendLoop(p) /\ ~ConnectFails(p)
                          /\ ~SendFails(p)
      /\ \A r \in Writers : ~CommitZeroDelay(r)
  <2>1. ~(commits["zero delay"] < Commits["zero delay"])
    <3>1. "zero delay" \in CommitKinds
      BY DEF CommitKinds
    <3>2. Commits["zero delay"] = 0
      BY DEF OnSqlite
    <3> QED BY <3>1, <3>2, NoCommit, Zenon DEF WakeInv
  <2>2. \A p \in Procs : sender[p] = "ended"
    BY DEF OnSqlite
  <2> QED BY <2>1, <2>2 DEF Reliable, Stop, SenderEnds, ListenerEnds, Cleanup,
          SendLoop, Take, Drained, Connect, Send, Sent, ConnectFails, SendFails,
          CommitZeroDelay, Commit
<1>1. UNCHANGED <<hooked, stopping, sender>>
  BY <1>0, Zenon DEF WakeNext, Pull, GiveUp, Register, Query, Awaken, Cancel,
     CommitPublish, Commit, Write, LockForHook, Hook, CallInternal, ListenLoop,
     Listen, WakeAll, Receive, Wake, Drop, TimesOut, hookVars, sendVars,
     wakeVars
<1>2. ASSUME NEW r \in Writers, NEW q \in Seq(Seq(Subs)), Singles(q),
             calls' = [calls EXCEPT ![r] = q]
      PROVE  \A b \in Writers : Singles(calls'[b])
  <2>1. \A b \in Writers : calls'[b] = IF b = r THEN q ELSE calls[b]
    BY <1>2 DEF WakeInv, HooksOK, HooksType
  <2> QED BY <1>2, <2>1 DEF OnSqlite
<1>3. ASSUME NEW r \in Writers, CommitPublish(r)
      PROVE  \A b \in Writers : Singles(calls'[b])
  <2>1. PICK S \in (SUBSET Subs) \ {{}} : \E q \in Orders(S) :
           calls' = [calls EXCEPT ![r] = [i \in DOMAIN q |-> <<q[i]>>]]
    BY <1>3 DEF CommitPublish, Commit
  <2>2. PICK q \in Orders(S) :
           calls' = [calls EXCEPT ![r] = [i \in DOMAIN q |-> <<q[i]>>]]
    BY <2>1
  <2>3. q \in Seq(Subs) /\ DOMAIN q = 1 .. Len(q)
    BY OrdersType
  <2> QED BY <1>2, <2>2, <2>3, SinglesEach
<1>4. ASSUME NEW r \in Writers, Hook(r) \/ CallInternal(r)
      PROVE  \A b \in Writers : Singles(calls'[b])
  <2>1. calls[r] \in Seq(Seq(Subs)) /\ calls[r] # <<>> /\ Singles(calls[r])
    <3>1. ProcOf[r] \in Procs /\ r # Nobody
      BY WakeupsAssumption
    <3>2. calls[r] # <<>>
      BY <1>4, <3>1 DEF Hook, CallInternal, WakeInv, HooksOK, HookHeld
    <3> QED BY <3>2 DEF WakeInv, HooksOK, HooksType, OnSqlite
  <2>2. Len(Head(calls[r])) = 1
    BY <2>1, SinglesTail
  <2>3. calls' = [calls EXCEPT ![r] = Tail(calls[r])]
    BY <1>4, <2>2 DEF Hook, CallInternal
  <2>4. Tail(calls[r]) \in Seq(Seq(Subs)) /\ Singles(Tail(calls[r]))
    BY <2>1, SinglesTail
  <2> QED BY <1>2, <2>3, <2>4
<1>5. ASSUME \A r \in Writers :
                ~(CommitPublish(r) \/ Hook(r) \/ CallInternal(r))
      PROVE  \A b \in Writers : Singles(calls'[b])
  <2>1. UNCHANGED calls
    BY <1>0, <1>5, Zenon DEF WakeNext, Pull, GiveUp, Register, Query, Awaken,
       Cancel, Write, LockForHook, ListenLoop, Listen, WakeAll, Receive, Wake,
       Drop, TimesOut, hookVars, wakeVars
  <2> QED BY <2>1 DEF OnSqlite
<1>6. \A b \in Writers : Singles(calls'[b])
  BY <1>3, <1>4, <1>5
<1> QED BY <1>1, <1>6 DEF OnSqlite

\* The calls q name s.
Names(q, s) == \E i \in DOMAIN q : s \in Range(q[i])

\* Taking the head of a sequence loses nothing but the head.
LEMMA RangeTail ==
    ASSUME NEW T, NEW q \in Seq(T), q # <<>>, NEW s \in Range(q)
    PROVE  s = Head(q) \/ s \in Range(Tail(q))
<1>1. Len(q) \in Nat /\ Len(q) # 0 /\ DOMAIN q = 1 .. Len(q)
  BY EmptySeq
<1>2. PICK i \in 1 .. Len(q) : s = q[i]
  BY <1>1 DEF Range
<1>3. CASE i = 1
  BY <1>1, <1>2, <1>3
<1>4. CASE i # 1
  <2>1. i - 1 \in 1 .. Len(q) - 1
    BY <1>1, <1>4
  <2>2. i - 1 \in DOMAIN Tail(q) /\ Tail(q)[i - 1] = q[i]
    BY <1>1, <2>1
  <2> QED BY <1>2, <2>2 DEF Range
<1> QED BY <1>3, <1>4

LEMMA NamesTail ==
    ASSUME NEW q \in Seq(Seq(Subs)), q # <<>>, NEW s, Names(q, s)
    PROVE  s \in Range(Head(q)) \/ Names(Tail(q), s)
<1>1. Len(q) \in Nat /\ Len(q) # 0 /\ DOMAIN q = 1 .. Len(q)
  BY EmptySeq
<1>2. PICK i \in 1 .. Len(q) : s \in Range(q[i])
  BY <1>1 DEF Names
<1>3. CASE i = 1
  BY <1>1, <1>2, <1>3
<1>4. CASE i # 1
  <2>1. i - 1 \in 1 .. Len(q) - 1
    BY <1>1, <1>4
  <2>2. i - 1 \in DOMAIN Tail(q) /\ Tail(q)[i - 1] = q[i]
    BY <1>1, <2>1
  <2> QED BY <1>2, <2>2 DEF Names
<1> QED BY <1>3, <1>4

\* What is left of the calls q after the hook ran for the first subscription.
LEMMA NamesHook ==
    ASSUME NEW q \in Seq(Seq(Subs)), q # <<>>, Head(q) # <<>>,
           NEW s, Names(q, s), s # Head(Head(q))
    PROVE  Names(IF Len(Head(q)) = 1 THEN Tail(q)
                                     ELSE <<Tail(Head(q))>> \o Tail(q), s)
<1>1. Head(q) \in Seq(Subs) /\ Tail(q) \in Seq(Seq(Subs))
  OBVIOUS
<1>2. s \in Range(Tail(Head(q))) \/ Names(Tail(q), s)
  <2>1. CASE s \in Range(Head(q))
    BY <1>1, <2>1, RangeTail
  <2> QED BY <2>1, NamesTail
<1>3. CASE Len(Head(q)) = 1
  <2>1. DOMAIN Tail(Head(q)) = {}
    <3>1. /\ Tail(Head(q)) \in Seq(Subs)
          /\ Len(Tail(Head(q))) = Len(Head(q)) - 1
      BY <1>1
    <3>2. ASSUME NEW z \in Seq(Subs), Len(z) = 1 - 1
          PROVE  DOMAIN z = {}
      BY <3>2
    <3> QED BY <1>3, <3>1, <3>2
  <2>2. Range(Tail(Head(q))) = {}
    BY <2>1 DEF Range
  <2> QED BY <1>2, <1>3, <2>2
<1>4. CASE Len(Head(q)) # 1
  <2> DEFINE rest == <<Tail(Head(q))>> \o Tail(q)
  <2>1. Tail(Head(q)) \in Seq(Subs)
    BY <1>1
  <2>2. /\ Len(Tail(q)) \in Nat /\ DOMAIN Tail(q) = 1 .. Len(Tail(q))
        /\ DOMAIN rest = 1 .. 1 + Len(Tail(q)) /\ rest[1] = Tail(Head(q))
        /\ \A i \in 1 .. Len(Tail(q)) : rest[i + 1] = Tail(q)[i]
    BY <1>1, <2>1
  <2>3. Names(rest, s)
    <3> HIDE DEF rest
    <3>1. CASE s \in Range(Tail(Head(q)))
      <4>1. 1 \in DOMAIN rest
        BY <2>2
      <4> QED BY <2>2, <3>1, <4>1 DEF Names
    <3>2. CASE Names(Tail(q), s)
      <4>1. PICK i \in 1 .. Len(Tail(q)) : s \in Range(Tail(q)[i])
        BY <2>2, <3>2 DEF Names
      <4>2. i + 1 \in DOMAIN rest
        BY <2>2
      <4> QED BY <2>2, <4>1, <4>2 DEF Names
    <3> QED BY <1>2, <3>1, <3>2
  <2> QED BY <1>4, <2>3
<1> QED BY <1>3, <1>4

LEMMA RangeAppend ==
    ASSUME NEW T, NEW q \in Seq(T), NEW x \in T
    PROVE  Range(Append(q, x)) = Range(q) \cup {x}
<1>1. /\ Len(q) \in Nat /\ DOMAIN q = 1 .. Len(q)
      /\ DOMAIN Append(q, x) = 1 .. Len(q) + 1
      /\ Append(q, x)[Len(q) + 1] = x
      /\ \A i \in 1 .. Len(q) : Append(q, x)[i] = q[i]
  OBVIOUS
<1>2. \A i \in 1 .. Len(q) + 1 : i \in 1 .. Len(q) \/ i = Len(q) + 1
  BY <1>1
<1>3. \A i \in 1 .. Len(q) : i \in 1 .. Len(q) + 1
  BY <1>1
<1>4. Len(q) + 1 \in 1 .. Len(q) + 1
  BY <1>1
<1>5. Range(Append(q, x)) \subseteq Range(q) \cup {x}
  BY <1>1, <1>2 DEF Range
<1>6. x \in Range(Append(q, x))
  BY <1>1, <1>4 DEF Range
<1>7. Range(q) \subseteq Range(Append(q, x))
  BY <1>1, <1>3 DEF Range
<1> QED BY <1>5, <1>6, <1>7


\* Where a notification for s that has yet to reach process p may be: in the
\* calls of a writer, on its way to the connections, or in p.
Called(s, p) == \E r \in Writers : /\ ProcOf[r] \in hooked \cup {p}
                                   /\ Names(calls[r], s)
Notified(s) == \E q \in Procs : s \in pn[q] \cup Range(pubNotifies[q])
Arrived(s, p) == s \in incoming[p] \cup waking[p]
WakesAll(p) == listener[p] \in {"down", "listening"}

LEMMA Whereabouts ==
    ASSUME NEW s, NEW p
    PROVE  /\ OnItsWay(s, p) <=> \/ Called(s, p) \/ Notified(s)
                                 \/ Arrived(s, p) \/ WakesAll(p)
           /\ OnItsWay(s, p)' <=> \/ Called(s, p)' \/ Notified(s)'
                                  \/ Arrived(s, p)' \/ WakesAll(p)'
BY DEF OnItsWay, Called, Notified, Arrived, WakesAll, Names

LEMMA HookedStays ==
    ASSUME Reliable, WakeInv, Deployed, [WakeNext]_wakeVars
    PROVE  hooked' = hooked
<1>1. CASE OnPostgres
  <2>1. OnPostgres'
    BY <1>1, PostgresStep DEF Deployed
  <2> QED BY <1>1, <2>1 DEF OnPostgres
<1>2. CASE OnSqlite
  <2>1. OnSqlite'
    BY <1>2, SqliteStep DEF Deployed
  <2> QED BY <1>2, <2>1 DEF OnSqlite
<1> QED BY <1>1, <1>2 DEF Deployed

\* A writer whose calls change does not drop one that names s.
LEMMA CalledStays ==
    ASSUME WakeInv, hooked' = hooked, NEW r \in Writers, NEW q,
           calls' = [calls EXCEPT ![r] = q],
           NEW s, NEW p, Called(s, p), Names(calls[r], s) => Names(q, s)
    PROVE  Called(s, p)'
<1>1. \A b \in Writers : calls'[b] = IF b = r THEN q ELSE calls[b]
  BY DEF WakeInv, HooksOK, HooksType
<1>2. PICK b \in Writers : ProcOf[b] \in hooked \cup {p} /\ Names(calls[b], s)
  BY DEF Called
<1>3. Names(calls'[b], s)
  BY <1>1, <1>2
<1> QED BY <1>2, <1>3 DEF Called

LEMMA CommitOnItsWay ==
    ASSUME WakeInv, hooked' = hooked, NEW r \in Writers, NEW kind, NEW S,
           NEW cs, Commit(r, kind, S, cs), NEW s, NEW p, OnItsWay(s, p)
    PROVE  OnItsWay(s, p)'
<1>1. /\ calls[r] = <<>> /\ calls' = [calls EXCEPT ![r] = cs]
      /\ UNCHANGED <<pn, pubNotifies, incoming, waking, listener>>
  BY DEF Commit, sendVars, listenVars
<1>2. ~Names(calls[r], s)
  BY <1>1 DEF Names
<1>3. Called(s, p) => Called(s, p)'
  BY <1>1, <1>2, CalledStays
<1>4. /\ Notified(s) => Notified(s)'
      /\ Arrived(s, p) => Arrived(s, p)'
      /\ WakesAll(p) => WakesAll(p)'
  BY <1>1 DEF Notified, Arrived, WakesAll
<1> QED BY <1>3, <1>4, Whereabouts

LEMMA HookOnItsWay ==
    ASSUME WakeInv, hooked' = hooked, NEW r \in Writers, Hook(r),
           NEW s, NEW p, OnItsWay(s, p)
    PROVE  OnItsWay(s, p)'
<1> DEFINE q == calls[r]
           b == ProcOf[r]
           rest == IF Len(Head(q)) = 1 THEN Tail(q)
                                       ELSE <<Tail(Head(q))>> \o Tail(q)
<1>1. b \in Procs /\ r # Nobody
  BY WakeupsAssumption
<1>2. q \in Seq(Seq(Subs)) /\ q # <<>> /\ Head(q) # <<>>
  <2>1. q \in Seq(Seq(Subs)) /\ q # <<>>
    BY <1>1 DEF Hook, WakeInv, HooksOK, HooksType, HookHeld
  <2>2. 1 \in DOMAIN q /\ Head(q) = q[1]
    BY <2>1, EmptySeq
  <2> QED BY <2>1, <2>2 DEF WakeInv, HooksOK, HookHeld
<1>3. /\ calls' = [calls EXCEPT ![r] = rest]
      /\ pubNotifies' = [pubNotifies EXCEPT ![b] = Append(@, Head(Head(q)))]
      /\ UNCHANGED <<pn, incoming, waking, listener>>
  BY DEF Hook, listenVars
<1>4. /\ pubNotifies \in [Procs -> Seq(Subs)] /\ Head(Head(q)) \in Subs
  BY <1>2 DEF WakeInv, HooksOK, HooksType
<1>5. \A c \in Procs : pubNotifies'[c] =
         IF c = b THEN Append(pubNotifies[b], Head(Head(q))) ELSE pubNotifies[c]
  BY <1>3, <1>4
<1>6. Range(pubNotifies'[b]) = Range(pubNotifies[b]) \cup {Head(Head(q))}
  BY <1>1, <1>4, <1>5, RangeAppend
<1>7. ASSUME Called(s, p) PROVE Called(s, p)' \/ Notified(s)'
  <2>1. CASE s = Head(Head(q))
    BY <1>1, <1>6, <2>1 DEF Notified
  <2>2. CASE s # Head(Head(q))
    <3>1. Names(q, s) => Names(rest, s)
      BY <1>2, <2>2, NamesHook
    <3> HIDE DEF rest
    <3> QED BY <1>3, <1>7, <3>1, CalledStays
  <2> QED BY <2>1, <2>2
<1>8. ASSUME Notified(s) PROVE Notified(s)'
  <2>1. PICK c \in Procs : s \in pn[c] \cup Range(pubNotifies[c])
    BY <1>8 DEF Notified
  <2>2. s \in pn'[c] \cup Range(pubNotifies'[c])
    BY <1>3, <1>5, <1>6, <2>1
  <2> QED BY <2>2 DEF Notified
<1>9. /\ Arrived(s, p) => Arrived(s, p)'
      /\ WakesAll(p) => WakesAll(p)'
  BY <1>3 DEF Arrived, WakesAll
<1> QED BY <1>7, <1>8, <1>9, Whereabouts


\* Without hooks every call names one subscription, and closes the channels in
\* its wait set.
LEMMA CallInternalOnItsWay ==
    ASSUME WakeInv, Deployed, hooked' = hooked, NEW r \in Writers,
           CallInternal(r), NEW w \in Pullers, pc[w] = "asleep",
           w \notin closed', NEW s, NEW p, s = PullsFrom[w], p = ProcOf[w],
           OnItsWay(s, p)
    PROVE  OnItsWay(s, p)'
<1> DEFINE q == calls[r]
<1>1. p \in Procs /\ ProcOf[r] \in Procs
  BY WakeupsAssumption
<1>2. OnSqlite
  BY <1>1 DEF CallInternal, Deployed, OnPostgres
<1>3. ProcOf[r] = p
  BY <1>1, <1>2 DEF OnSqlite
<1>4. q \in Seq(Seq(Subs)) /\ q # <<>> /\ Singles(q)
  BY <1>2 DEF CallInternal, WakeInv, HooksOK, HooksType, OnSqlite
<1>5. Head(q) \in Seq(Subs) /\ Len(Head(q)) = 1
  BY <1>4, SinglesTail
<1>6. /\ calls' = [calls EXCEPT ![r] = Tail(q)]
      /\ closed' = closed \cup UNION {pubWaiters[p][t] : t \in Reached(p, Head(q))}
      /\ UNCHANGED <<pn, pubNotifies, incoming, waking, listener>>
  BY <1>3 DEF CallInternal, WakeInternal, CloseAll, sendVars, listenVars
<1>7. s \notin Range(Head(q))
  <2>1. s \in DOMAIN pubWaiters[p] /\ w \in pubWaiters[p][s]
    BY <1>6 DEF WakeInv, RegistryOK, ListedUntilClosed, Listed
  <2>2. s \notin Reached(p, Head(q))
    BY <1>6, <2>1
  <2>3. DOMAIN Head(q) = 1 .. 1
    BY <1>5
  <2>4. \A k \in 1 .. 1 : k = 1
    OBVIOUS
  <2>5. 1 \in 1 .. 1
    OBVIOUS
  <2>6. ASSUME s \in Range(Head(q)) PROVE FALSE
    <3>1. s = Head(q)[1]
      BY <2>3, <2>4, <2>6 DEF Range
    <3>2. s \in Reached(p, Head(q))
      BY <2>1, <2>3, <2>4, <2>5, <3>1 DEF Reached
    <3> QED BY <2>2, <3>2
  <2> QED BY <2>6
<1>8. Names(q, s) => Names(Tail(q), s)
  BY <1>4, <1>7, NamesTail
<1>9. Called(s, p) => Called(s, p)'
  <2> HIDE DEF q
  <2> QED BY <1>6, <1>8, CalledStays DEF q
<1>10. /\ Notified(s) => Notified(s)'
       /\ Arrived(s, p) => Arrived(s, p)'
       /\ WakesAll(p) => WakesAll(p)'
  BY <1>6 DEF Notified, Arrived, WakesAll
<1> QED BY <1>9, <1>10, Whereabouts

LEMMA TakeOnItsWay ==
    ASSUME WakeInv, hooked' = hooked, NEW b \in Procs, Take(b),
           NEW s, NEW p, OnItsWay(s, p)
    PROVE  OnItsWay(s, p)'
<1> DEFINE q == pubNotifies[b]
<1>1. /\ q # <<>> /\ pn' = [pn EXCEPT ![b] = @ \cup {Head(q)}]
      /\ pubNotifies' = [pubNotifies EXCEPT ![b] = Tail(q)]
      /\ UNCHANGED <<calls, incoming, waking, listener>>
  BY DEF Take, hookVars, listenVars
<1>2. /\ q \in Seq(Subs)
      /\ \A c \in Procs : /\ pn'[c] = IF c = b THEN pn[b] \cup {Head(q)} ELSE pn[c]
                          /\ pubNotifies'[c] = IF c = b THEN Tail(q)
                                                        ELSE pubNotifies[c]
  BY <1>1 DEF WakeInv, HooksOK, HooksType, NotifierType
<1>3. ASSUME Notified(s) PROVE Notified(s)'
  <2>1. PICK c \in Procs : s \in pn[c] \cup Range(pubNotifies[c])
    BY <1>3 DEF Notified
  <2>2. CASE c = b /\ s \in Range(q)
    <3>1. s = Head(q) \/ s \in Range(Tail(q))
      BY <1>1, <1>2, <2>2, RangeTail
    <3>2. s \in pn'[b] \cup Range(pubNotifies'[b])
      BY <1>2, <3>1
    <3> QED BY <3>2 DEF Notified
  <2>3. CASE c # b \/ s \in pn[c]
    <3>1. s \in pn'[c] \cup Range(pubNotifies'[c])
      BY <1>2, <2>1, <2>3
    <3> QED BY <3>1 DEF Notified
  <2> QED BY <2>1, <2>2, <2>3
<1>4. /\ Called(s, p) => Called(s, p)'
      /\ Arrived(s, p) => Arrived(s, p)'
      /\ WakesAll(p) => WakesAll(p)'
  BY <1>1 DEF Called, Arrived, WakesAll
<1> QED BY <1>3, <1>4, Whereabouts

\* pg_notify reaches the connection of p, or p has yet to wake everyone.
LEMMA SendOnItsWay ==
    ASSUME WakeInv, Deployed, hooked' = hooked, NEW b \in Procs, Send(b),
           NEW s, NEW p \in Procs, OnItsWay(s, p)
    PROVE  OnItsWay(s, p)'
<1>1. PICK t \in pn[b] :
         /\ pn' = [pn EXCEPT ![b] = @ \ {t}]
         /\ incoming' = [c \in Procs |->
               IF listener[c] \in {"listening", "up"}
               THEN incoming[c] \cup {t} ELSE incoming[c]]
  BY DEF Send
<1>2. UNCHANGED <<calls, pubNotifies, listener, waking>>
  BY DEF Send, hookVars
<1>3. listener[p] \in {"down", "listening", "up"}
  BY DEF Send, Deployed, OnPostgres, OnSqlite
<1>4. ASSUME Notified(s) PROVE Notified(s)' \/ Arrived(s, p)' \/ WakesAll(p)'
  <2>1. PICK c \in Procs : s \in pn[c] \cup Range(pubNotifies[c])
    BY <1>4 DEF Notified
  <2>2. CASE s = t
    BY <1>1, <1>2, <1>3, <2>2 DEF Arrived, WakesAll
  <2>3. CASE s # t
    <3>1. s \in pn'[c] \cup Range(pubNotifies'[c])
      BY <1>1, <1>2, <2>1, <2>3 DEF WakeInv, NotifierType
    <3> QED BY <3>1 DEF Notified
  <2> QED BY <2>2, <2>3
<1>5. Arrived(s, p) => Arrived(s, p)'
  BY <1>1, <1>2 DEF Arrived
<1>6. /\ Called(s, p) => Called(s, p)'
      /\ WakesAll(p) => WakesAll(p)'
  BY <1>2 DEF Called, WakesAll
<1> QED BY <1>4, <1>5, <1>6, Whereabouts


\* The listening connection: what arrives is handed over; whoever wakes the
\* subscription, or everyone, closes the channel of a pull that sleeps on it;
\* and a connection that is lost is followed by a call that wakes everyone.
LEMMA ListenOnItsWay ==
    ASSUME WakeInv, hooked' = hooked, NEW b \in Procs,
           ListenLoop(b) \/ Drop(b), NEW w \in Pullers, pc[w] = "asleep",
           w \notin closed', NEW s, NEW p, s = PullsFrom[w], p = ProcOf[w],
           OnItsWay(s, p)
    PROVE  OnItsWay(s, p)'
<1>0. p \in Procs
  BY WakeupsAssumption
<1>1. UNCHANGED <<calls, pn, pubNotifies>>
  BY Zenon DEF ListenLoop, Listen, WakeAll, Receive, Wake, Drop, hookVars,
     sendVars
<1>2. /\ Called(s, p) => Called(s, p)'
      /\ Notified(s) => Notified(s)'
  BY <1>1 DEF Called, Notified
<1>3. ASSUME NEW S, CloseAll(b, S)
      PROVE  /\ b = p => s \notin S
             /\ s \in DOMAIN pubWaiters[p]
  <2>1. closed' = closed \cup UNION {pubWaiters[b][t] : t \in S}
    BY <1>3 DEF CloseAll
  <2>2. s \in DOMAIN pubWaiters[p] /\ w \in pubWaiters[p][s]
    BY <2>1 DEF WakeInv, RegistryOK, ListedUntilClosed, Listed
  <2> QED BY <2>1, <2>2
<1>4. CASE Listen(b) \/ Drop(b)
  <2>1. waking' = waking
    BY <1>4 DEF Listen, Drop
  <2>2. /\ b # p => incoming'[p] = incoming[p] /\ listener'[p] = listener[p]
        /\ b = p => WakesAll(p)'
    BY <1>0, <1>4 DEF Listen, Drop, WakesAll, WakeInv, NotifierType
  <2> QED BY <1>2, <2>1, <2>2, Whereabouts DEF Arrived, WakesAll
<1>5. CASE WakeAll(b)
  <2>1. CloseAll(b, DOMAIN pubWaiters[b])
    BY <1>5 DEF WakeAll, WakeAllInternal
  <2>2. b # p
    BY <1>3, <2>1
  <2>3. /\ UNCHANGED <<incoming, waking>> /\ listener'[p] = listener[p]
    BY <1>0, <1>5, <2>2 DEF WakeAll, WakeInv, NotifierType
  <2> QED BY <1>2, <2>3, Whereabouts DEF Arrived, WakesAll
<1>6. CASE Receive(b)
  <2>1. PICK t \in incoming[b] :
           /\ incoming' = [incoming EXCEPT ![b] = @ \ {t}]
           /\ waking' = [waking EXCEPT ![b] = @ \cup {t}]
    BY <1>6 DEF Receive
  <2>2. UNCHANGED listener
    BY <1>6 DEF Receive
  <2>3. Arrived(s, p) => Arrived(s, p)'
    BY <1>0, <2>1 DEF Arrived, WakeInv, NotifierType
  <2> QED BY <1>2, <2>2, <2>3, Whereabouts DEF WakesAll
<1>7. CASE Wake(b)
  <2>1. PICK t \in waking[b] : /\ waking' = [waking EXCEPT ![b] = @ \ {t}]
                               /\ CloseAll(b, Reached(b, <<t>>))
    BY <1>7 DEF Wake, WakeInternal
  <2>2. UNCHANGED <<incoming, listener>>
    BY <1>7 DEF Wake
  <2>3. ASSUME b = p, s = t PROVE FALSE
    <3>1. s \in DOMAIN pubWaiters[b] /\ s \notin Reached(b, <<s>>)
      BY <1>3, <2>1, <2>3
    <3>2. /\ DOMAIN <<s>> = 1 .. 1 /\ <<s>>[1] = s /\ 1 \in 1 .. 1
          /\ \A k \in 1 .. 1 : k = 1
      OBVIOUS
    <3>3. s \in Reached(b, <<s>>)
      BY <3>1, <3>2 DEF Reached
    <3> QED BY <3>1, <3>3
  <2>4. s \in waking[p] => s \in waking'[p]
    BY <1>0, <2>1, <2>3 DEF WakeInv, NotifierType
  <2> QED BY <1>2, <2>2, <2>4, Whereabouts DEF Arrived, WakesAll
<1> QED BY <1>4, <1>5, <1>6, <1>7 DEF ListenLoop

\* A notification stays on its way until it reaches the pull.
LEMMA StillOnItsWay ==
    ASSUME Reliable, WakeInv, Deployed, [WakeNext]_wakeVars,
           NEW w \in Pullers, pc[w] = "asleep", w \notin closed',
           NEW s, NEW p, s = PullsFrom[w], p = ProcOf[w], OnItsWay(s, p)
    PROVE  OnItsWay(s, p)'
<1>0. hooked' = hooked /\ p \in Procs
  BY HookedStays, WakeupsAssumption
<1>1. ASSUME NEW r \in Writers, CommitPublish(r) \/ CommitZeroDelay(r)
      PROVE  OnItsWay(s, p)'
  <2>1. PICK kind, S : \E cs : Commit(r, kind, S, cs)
    BY <1>1 DEF CommitPublish, CommitZeroDelay
  <2> QED BY <1>0, <2>1, CommitOnItsWay
<1>2. ASSUME NEW r \in Writers, Hook(r) \/ CallInternal(r)
      PROVE  OnItsWay(s, p)'
  BY <1>0, <1>2, HookOnItsWay, CallInternalOnItsWay
<1>3. ASSUME NEW b \in Procs, Take(b) \/ Send(b)
      PROVE  OnItsWay(s, p)'
  BY <1>0, <1>3, TakeOnItsWay, SendOnItsWay
<1>4. ASSUME NEW b \in Procs, ListenLoop(b) \/ Drop(b)
      PROVE  OnItsWay(s, p)'
  BY <1>0, <1>4, ListenOnItsWay
<1>5. \A b \in Procs : /\ ~Stop(b) /\ ~SenderEnds(b) /\ ~ListenerEnds(b)
                       /\ ~Cleanup(b) /\ ~TimesOut(b) /\ ~SendFails(b)
  <2>1. ~Fault("send") /\ ~Fault("timeout")
    BY NoFault DEF WakeInv
  <2> QED BY <2>1 DEF Reliable, Deployed, Stop, SenderEnds, ListenerEnds,
          Cleanup, TimesOut, SendFails
<1>6. ASSUME \/ \E v \in Pullers : Pull(v) \/ GiveUp(v)
             \/ \E r \in Writers : LockForHook(r)
             \/ \E b \in Procs : \/ Drained(b) \/ Connect(b) \/ Sent(b)
                                 \/ ConnectFails(b)
             \/ UNCHANGED wakeVars
      PROVE  OnItsWay(s, p)'
  <2>1. UNCHANGED <<calls, pn, pubNotifies, incoming, waking, listener>>
    BY <1>6, Zenon DEF Pull, GiveUp, Register, Query, Awaken, Cancel,
       LockForHook, Drained, Connect, Sent, ConnectFails, hookVars, sendVars,
       listenVars, wakeVars
  <2> QED BY <1>0, <2>1, Whereabouts DEF Called, Notified, Arrived, WakesAll
<1> QED BY <1>1, <1>2, <1>3, <1>4, <1>5, <1>6 DEF WakeNext, Write, SendLoop


\* A transaction that makes s due has calls to make that name s.
LEMMA CommitNames ==
    ASSUME WakeInv, NEW r \in Writers, CommitPublish(r) \/ CommitZeroDelay(r),
           NEW s, s \in due', s \notin due
    PROVE  Names(calls'[r], s)
<1>1. ASSUME NEW cs, NEW kind, NEW S, Commit(r, kind, S, cs)
      PROVE  s \in S /\ calls'[r] = cs
  BY <1>1 DEF Commit, WakeInv, HooksOK, HooksType
<1>2. ASSUME NEW S \in (SUBSET Subs) \ {{}}, NEW q \in Orders(S), s \in S
      PROVE  /\ Names([i \in DOMAIN q |-> <<q[i]>>], s)
             /\ Names(<<q>>, s)
  <2>1. s \in Range(q)
    BY <1>2, OrdersType
  <2>2. PICK i \in DOMAIN q : q[i] = s
    BY <2>1 DEF Range
  <2>3. s \in Range(<<s>>)
    <3>1. 1 \in DOMAIN <<s>> /\ <<s>>[1] = s
      OBVIOUS
    <3> QED BY <3>1 DEF Range
  <2>4. Names([j \in DOMAIN q |-> <<q[j]>>], s)
    BY <2>2, <2>3 DEF Names
  <2>5. 1 \in DOMAIN <<q>> /\ <<q>>[1] = q
    OBVIOUS
  <2> QED BY <2>1, <2>4, <2>5 DEF Names
<1>3. CASE CommitPublish(r)
  <2>1. PICK S \in (SUBSET Subs) \ {{}} : \E q \in Orders(S) :
           Commit(r, "publish", S, [i \in DOMAIN q |-> <<q[i]>>])
    BY <1>3 DEF CommitPublish
  <2>2. PICK q \in Orders(S) :
           Commit(r, "publish", S, [i \in DOMAIN q |-> <<q[i]>>])
    BY <2>1
  <2> QED BY <1>1, <1>2, <2>2
<1>4. CASE CommitZeroDelay(r)
  <2>1. PICK S \in (SUBSET Subs) \ {{}} : \E q \in Orders(S) :
           Commit(r, "zero delay", S, <<q>>)
    BY <1>4, Zenon DEF CommitZeroDelay
  <2>2. PICK q \in Orders(S) : Commit(r, "zero delay", S, <<q>>)
    BY <2>1, Zenon
  <2>3. s \in S /\ calls'[r] = <<q>>
    BY <1>1, <2>2, Zenon
  <2> QED BY <1>2, <2>3
<1> QED BY <1>3, <1>4

\* Only a transaction makes something due, and only a query that finds nothing
\* puts a pull to sleep.
LEMMA BecomesDue ==
    ASSUME WakeInv, [WakeNext]_wakeVars, NEW w \in Pullers, NEW s,
           s = PullsFrom[w], pc'[w] = "asleep", s \in due'
    PROVE  /\ pc[w] = "asleep"
           /\ s \in due \/ \E r \in Writers : CommitPublish(r) \/ CommitZeroDelay(r)
<1>1. ASSUME NEW v \in Pullers, Pull(v) \/ GiveUp(v)
      PROVE  pc[w] = "asleep" /\ s \in due
  <2>1. due' \subseteq due
    BY <1>1 DEF Pull, GiveUp, Register, Query, Awaken, Cancel
  <2>2. ASSUME pc[w] # "asleep" PROVE FALSE
    <3>1. pc'[w] # pc[w]
      BY <2>2
    <3>2. v = w
      BY <1>1, <3>1 DEF Pull, GiveUp, Register, Query, Awaken, Cancel, WakeInv,
         RegistryOK, RegistryType
    <3>3. s \notin due
      BY <1>1, <3>2 DEF Pull, GiveUp, Register, Query, Awaken, Cancel, WakeInv,
         RegistryOK, RegistryType
    <3> QED BY <2>1, <3>3
  <2> QED BY <2>1, <2>2
<1>2. ASSUME NEW r \in Writers, CommitPublish(r) \/ CommitZeroDelay(r)
      PROVE  pc[w] = "asleep"
  BY <1>2 DEF CommitPublish, CommitZeroDelay, Commit
<1>3. ASSUME \/ \E r \in Writers : Write(r)
             \/ \E p \in Procs :
                   \/ SendLoop(p) \/ ConnectFails(p) \/ SendFails(p)
                   \/ ListenLoop(p) \/ Drop(p) \/ TimesOut(p)
                   \/ Stop(p) \/ SenderEnds(p) \/ ListenerEnds(p) \/ Cleanup(p)
             \/ UNCHANGED wakeVars
      PROVE  UNCHANGED <<pc, due>>
  BY <1>3, Zenon DEF Write, LockForHook, Hook, CallInternal, SendLoop, Take,
     Drained, Connect, Send, Sent, ConnectFails, SendFails, ListenLoop, Listen,
     WakeAll, Receive, Wake, Drop, TimesOut, Stop, SenderEnds, ListenerEnds,
     Cleanup, wakeVars
<1> QED BY <1>1, <1>2, <1>3 DEF WakeNext

\* Closed channels stay closed while their pulls sleep.
LEMMA StaysClosed ==
    ASSUME [WakeNext]_wakeVars, NEW w \in Pullers, pc[w] = "asleep", w \in closed
    PROVE  w \in closed'
<1>1. ASSUME NEW v \in Pullers, Register(v)
      PROVE  w \in closed'
  BY <1>1 DEF Register
<1>2. ASSUME NEW p, NEW S, CloseAll(p, S)
      PROVE  w \in closed'
  BY <1>2 DEF CloseAll
<1>3. ASSUME NEW r \in Writers, CallInternal(r)
      PROVE  w \in closed'
  BY <1>2, <1>3 DEF CallInternal, WakeInternal
<1>4. ASSUME NEW p \in Procs, WakeAll(p) \/ Wake(p)
      PROVE  w \in closed'
  BY <1>2, <1>4 DEF WakeAll, WakeAllInternal, Wake, WakeInternal
<1>5. ASSUME \/ \E v \in Pullers : \/ Query(v) \/ Awaken(v) \/ Cancel(v)
                                   \/ GiveUp(v)
             \/ \E r \in Writers : \/ CommitPublish(r) \/ CommitZeroDelay(r)
                                   \/ LockForHook(r) \/ Hook(r)
             \/ \E p \in Procs :
                   \/ SendLoop(p) \/ ConnectFails(p) \/ SendFails(p)
                   \/ Listen(p) \/ Receive(p) \/ Drop(p) \/ TimesOut(p)
                   \/ Stop(p) \/ SenderEnds(p) \/ ListenerEnds(p) \/ Cleanup(p)
             \/ UNCHANGED wakeVars
      PROVE  UNCHANGED closed
  BY <1>5, Zenon DEF Query, Awaken, Cancel, GiveUp, CommitPublish,
     CommitZeroDelay, Commit, LockForHook, Hook, SendLoop, Take, Drained,
     Connect, Send, Sent, ConnectFails, SendFails, Listen, Receive, Drop,
     TimesOut, Stop, SenderEnds, ListenerEnds, Cleanup, registryVars, wakeVars
<1> QED BY <1>1, <1>3, <1>4, <1>5 DEF WakeNext, Pull, Write, ListenLoop

LEMMA NoLostWakeupStep ==
    ASSUME Reliable, WakeInv, Deployed, NoLostWakeup, [WakeNext]_wakeVars
    PROVE  NoLostWakeup'
<1> SUFFICES ASSUME NEW w \in Pullers, pc'[w] = "asleep",
                    PullsFrom[w] \in due', w \notin closed',
                    NEW s, NEW p, s = PullsFrom[w], p = ProcOf[w]
             PROVE  OnItsWay(s, p)'
  BY DEF NoLostWakeup
<1>1. pc[w] = "asleep" /\ w \notin closed /\ p \in Procs
  BY BecomesDue, StaysClosed, WakeupsAssumption
<1>2. CASE s \in due
  <2>1. OnItsWay(s, p)
    BY <1>1, <1>2 DEF NoLostWakeup
  <2> QED BY <1>1, <2>1, StillOnItsWay
<1>3. CASE s \notin due
  <2>1. PICK r \in Writers : CommitPublish(r) \/ CommitZeroDelay(r)
    BY <1>3, BecomesDue
  <2>2. Names(calls'[r], s)
    BY <1>3, <2>1, CommitNames
  <2>3. ProcOf[r] \in Procs
    BY WakeupsAssumption
  <2>4. ProcOf[r] \in hooked \cup {p}
    BY <1>1, <2>3 DEF Deployed, OnPostgres, OnSqlite
  <2>5. Called(s, p)'
    BY <2>2, <2>4, HookedStays DEF Called
  <2> QED BY <2>5, Whereabouts
<1> QED BY <1>2, <1>3

LEMMA DeployedStep ==
    ASSUME Reliable, WakeInv, Deployed, [WakeNext]_wakeVars
    PROVE  Deployed'
BY PostgresStep, SqliteStep DEF Deployed

\* No wakeup is lost, however commits, hooks, send loops, dropped connections
\* and reconnections of any number of processes interleave with the pulls that
\* register, query and sleep: while there is something for a sleeping pull,
\* somebody has yet to wake it.
THEOREM NoWakeupLost ==
    ASSUME Reliable
    PROVE  WakeSpec => []NoLostWakeup
<1>1. WakeInit => Deployed /\ NoLostWakeup
  BY DeployedInit DEF WakeInit, NoLostWakeup
<1>2. WakeInv /\ Deployed /\ NoLostWakeup /\ [WakeNext]_wakeVars
         => Deployed' /\ NoLostWakeup'
  BY DeployedStep, NoLostWakeupStep
<1> QED BY <1>1, <1>2, WakeInvAlways, PTL DEF WakeSpec
=============================================================================
