------------------------------ MODULE Wakeups -------------------------------
(***************************************************************************)
(* How the commit of a transaction reaches the pulls that sleep on its     *)
(* subscriptions: the registry of waiting channels in src/actions/notify.go *)
(* and, on PostgreSQL, the notifier service in src/services/notifier.go,   *)
(* which forwards notifications to every process of the deployment.        *)
(*                                                                         *)
(* Several processes share a database.  Each has the mutex nmu, its map    *)
(* pubWaiters of wait sets, and a notifier with a bounded channel, a loop  *)
(* that sends what is in it and a connection that listens.  A pull has at  *)
(* most one channel at a time, so wait sets hold the pulls themselves.     *)
(* Without PostgreSQL no notifier starts and no hook is registered.        *)
(*                                                                         *)
(* Of the three kinds of listeners that notify.go serves this is the one   *)
(* for publishes; modified topics and subscriptions have queues of their   *)
(* own and take the same way.                                              *)
(***************************************************************************)
EXTENDS Integers, Sequences, FiniteSets, Functions

CONSTANTS
    Procs,      \* processes
    Subs,       \* subscriptions
    Pullers,    \* goroutines in GetSubscriptionMessages
    PullsFrom,  \* [Pullers -> Subs]
    Writers,    \* goroutines that commit transactions
    ProcOf,     \* [Pullers \cup Writers -> Procs]
    Nobody,     \* nmu is free
    Databases,  \* the databases a deployment may use
    Cap,        \* capacity of pubNotifies, and of one batch; 100 in the code
    Stoppable,  \* processes that may be shut down
    Commits,    \* bound: transactions of each kind
    MaxFaults   \* bound: faults of each kind

CommitKinds == {"publish", "zero delay"}

Faults == {"drop", "send", "timeout"}

ASSUME WakeupsAssumption ==
    /\ PullsFrom \in [Pullers -> Subs]
    /\ ProcOf \in [Pullers \cup Writers -> Procs]
    /\ Nobody \notin Writers
    /\ IsFiniteSet(Subs)
    /\ Databases \subseteq {"postgres", "sqlite"}
    /\ Cap \in Nat \ {0}
    /\ Stoppable \subseteq Procs
    /\ Commits \in [CommitKinds -> Nat]
    /\ MaxFaults \in [Faults -> Nat]

VARIABLES
    due,         \* subscriptions with deliverable deliveries, in the database
    pc,          \* where each pull is
    pubWaiters,  \* per process: subscription |-> wait set
    closed,      \* pulls whose channel is closed
    calls,       \* per writer: the calls of WakePublishListeners it has to make
    nmu,         \* per process: the writer that holds it inside a hook
    hooked,      \* processes whose publish hook is registered
    stopping,    \* processes whose context is cancelled
    pubNotifies, \* per process: the channel from the hook to the send loop
    pn,          \* per process: what the send loop has to send
    sender,      \* where the send loop of each process is
    listener,    \* the state of the listening connection of each process
    incoming,    \* per process: notifications sent to that connection
    waking,      \* per process: subscriptions its goroutines are about to wake
    commits,     \* number of commits so far, by kind
    faults       \* number of faults so far, by kind

registryVars == <<pubWaiters, closed>>
hookVars == <<calls, nmu, hooked, stopping>>
sendVars == <<pubNotifies, pn, sender>>
listenVars == <<listener, incoming, waking>>
counters == <<commits, faults>>

wakeVars == <<due, pc, pubWaiters, closed, calls, nmu, hooked, stopping,
              pubNotifies, pn, sender, listener, incoming, waking, commits,
              faults>>

\* The state has the types declared above, the channel its capacity, and nmu
\* is held by nobody but a writer of that process inside a call.
WakeTypeOK ==
    /\ due \subseteq Subs
    /\ pc \in [Pullers -> {"idle", "registered", "asleep", "leaving"}]
    /\ DOMAIN pubWaiters = Procs
    /\ \A p \in Procs : pubWaiters[p] \in [DOMAIN pubWaiters[p] -> SUBSET Pullers]
                        /\ DOMAIN pubWaiters[p] \subseteq Subs
    /\ closed \subseteq Pullers
    /\ calls \in [Writers -> Seq(Seq(Subs))]
    /\ nmu \in [Procs -> Writers \cup {Nobody}]
    /\ \A p \in Procs : nmu[p] # Nobody =>
          ProcOf[nmu[p]] = p /\ calls[nmu[p]] # <<>>
    /\ hooked \subseteq Procs /\ stopping \subseteq Procs
    /\ pubNotifies \in [Procs -> Seq(Subs)]
    /\ \A p \in Procs : Len(pubNotifies[p]) <= Cap
    /\ pn \in [Procs -> SUBSET Subs]
    /\ sender \in [Procs ->
         {"blocked", "draining", "connecting", "sending", "ended"}]
    /\ listener \in [Procs ->
         {"down", "listening", "up", "deaf", "stuck", "ended"}]
    /\ incoming \in [Procs -> SUBSET Subs] /\ waking \in [Procs -> SUBSET Subs]
    /\ commits \in [CommitKinds -> Nat] /\ faults \in [Faults -> Nat]

\* The notifier of a process starts on PostgreSQL only; its hooks are registered
\* before any of its loops runs.
WakeInit ==
    /\ due = {} /\ pc = [w \in Pullers |-> "idle"]
    /\ pubWaiters = [p \in Procs |-> [s \in {} |-> {}]] /\ closed = {}
    /\ calls = [r \in Writers |-> <<>>] /\ nmu = [p \in Procs |-> Nobody]
    /\ \E db \in Databases :
          LET Start(state) == [p \in Procs |->
                 IF db = "postgres" THEN state ELSE "ended"]
          IN  /\ hooked = {p \in Procs : db = "postgres"}
              /\ sender = Start("blocked") /\ listener = Start("down")
    /\ stopping = {}
    /\ pubNotifies = [p \in Procs |-> <<>>] /\ pn = [p \in Procs |-> {}]
    /\ incoming = [p \in Procs |-> {}] /\ waking = [p \in Procs |-> {}]
    /\ commits = [k \in CommitKinds |-> 0] /\ faults = [f \in Faults |-> 0]

NmuFree(p) == nmu[p] = Nobody

\* A fault of kind f, which the bounds still allow.
Fault(f) ==
    /\ faults[f] < MaxFaults[f]
    /\ faults' = [faults EXCEPT ![f] = @ + 1]

-----------------------------------------------------------------------------
(* The registry *)

\* The wait sets that WakePublishListeners empties when it is given ids: it
\* returns at the first id that has none.
Reached(p, ids) ==
    {ids[i] : i \in {j \in DOMAIN ids :
                       \A k \in 1 .. j : ids[k] \in DOMAIN pubWaiters[p]}}

\* Close the channels in the wait sets of S, and delete the sets.
CloseAll(p, S) ==
    /\ closed' = closed \cup UNION {pubWaiters[p][s] : s \in S}
    /\ pubWaiters' = [pubWaiters EXCEPT ![p] = Restrict(@, DOMAIN @ \ S)]

WakeInternal(p, ids) == CloseAll(p, Reached(p, ids))

\* Mutant: the wait sets are left in the map.
WakeAllInternal_Kept(p) ==
    /\ closed' = closed \cup UNION Range(pubWaiters[p])
    /\ UNCHANGED pubWaiters

WakeAllInternal(p) == CloseAll(p, DOMAIN pubWaiters[p])

-----------------------------------------------------------------------------
(* Pulls: register, query, sleep, cancel *)

\* PublishAwaiter: a fresh channel.
Register(w) ==
    LET p == ProcOf[w]
        s == PullsFrom[w]
        old == IF s \in DOMAIN pubWaiters[p] THEN pubWaiters[p][s] ELSE {}
    IN
    /\ pc[w] = "idle" /\ NmuFree(p)
    /\ pc' = [pc EXCEPT ![w] = "registered"]
    /\ pubWaiters' = [pubWaiters EXCEPT ![p] =
         [t \in DOMAIN @ \cup {s} |-> IF t = s THEN old \cup {w} ELSE @[t]]]
    /\ closed' = closed \ {w}
    /\ UNCHANGED <<due, hookVars, sendVars, listenVars, counters>>

\* The query; what it finds it takes, all or part of it.
Query(w) ==
    LET s == PullsFrom[w] IN
    /\ pc[w] = "registered"
    /\ \/ /\ s \in due
          /\ due' \in {due, due \ {s}}
          /\ pc' = [pc EXCEPT ![w] = "leaving"]
       \/ /\ s \notin due
          /\ pc' = [pc EXCEPT ![w] = "asleep"]
          /\ UNCHANGED due
    /\ UNCHANGED <<registryVars, hookVars, sendVars, listenVars, counters>>

\* The channel was closed: query again.
Awaken(w) ==
    /\ pc[w] = "asleep" /\ w \in closed
    /\ pc' = [pc EXCEPT ![w] = "leaving"]
    /\ UNCHANGED <<due, registryVars, hookVars, sendVars, listenVars, counters>>

\* The maximal wait is over, or the client went away.
GiveUp(w) ==
    /\ pc[w] = "asleep"
    /\ pc' = [pc EXCEPT ![w] = "leaving"]
    /\ UNCHANGED <<due, registryVars, hookVars, sendVars, listenVars, counters>>

\* CancelPublishAwaiter, before the next query or on return; the set stays.
Cancel(w) ==
    LET p == ProcOf[w]
        s == PullsFrom[w]
    IN
    /\ pc[w] = "leaving" /\ NmuFree(p)
    /\ pc' = [pc EXCEPT ![w] = "idle"]
    /\ pubWaiters' = [pubWaiters EXCEPT ![p] =
         [t \in DOMAIN @ |-> IF t = s THEN @[t] \ {w} ELSE @[t]]]
    /\ UNCHANGED <<due, closed, hookVars, sendVars, listenVars, counters>>

Pull(w) == Register(w) \/ Query(w) \/ Awaken(w) \/ Cancel(w)

-----------------------------------------------------------------------------
(* Writers: commit, then WakePublishListeners *)

\* The subscriptions of S in some order.
Orders(S) == {q \in [1 .. Cardinality(S) -> S] : Range(q) = S}

\* Writer r commits a transaction that makes S due, and has to make the calls.
Commit(r, kind, S, cs) ==
    /\ calls[r] = <<>> /\ commits[kind] < Commits[kind]
    /\ due' = due \cup S
    /\ calls' = [calls EXCEPT ![r] = cs]
    /\ commits' = [commits EXCEPT ![kind] = @ + 1]
    /\ UNCHANGED <<pc, registryVars, nmu, hooked, stopping, sendVars, listenVars,
                   faults>>

\* Fan-out, acks, dead-lettering and expiry make a call for each subscription.
CommitPublish(r) ==
    \E S \in (SUBSET Subs) \ {{}} : \E q \in Orders(S) :
       Commit(r, "publish", S, [i \in DOMAIN q |-> <<q[i]>>])

\* A delay of zero makes one call for all.
CommitZeroDelay(r) ==
    \E S \in (SUBSET Subs) \ {{}} : \E q \in Orders(S) :
       Commit(r, "zero delay", S, <<q>>)

\* A call with hooks: they run under nmu, once for each subscription.
LockForHook(r) ==
    LET p == ProcOf[r] IN
    /\ calls[r] # <<>> /\ p \in hooked /\ NmuFree(p)
    /\ nmu' = [nmu EXCEPT ![p] = r]
    /\ UNCHANGED <<due, pc, registryVars, calls, hooked, stopping, sendVars,
                   listenVars, counters>>

\* Mutant: the early return after the hooks leaves the mutex locked.
Hook_KeepsLock(r) ==
    LET p == ProcOf[r]
        ids == Head(calls[r])
        last == Len(ids) = 1
    IN
    /\ nmu[p] = r /\ Len(pubNotifies[p]) < Cap
    /\ pubNotifies' = [pubNotifies EXCEPT ![p] = Append(@, Head(ids))]
    /\ calls' = [calls EXCEPT ![r] = IF last THEN Tail(@)
                                             ELSE <<Tail(ids)>> \o Tail(@)]
    /\ UNCHANGED <<due, pc, registryVars, nmu, hooked, stopping, pn, sender,
                   listenVars, counters>>

\* The hook blocks until there is room in the channel.
Hook(r) ==
    LET p == ProcOf[r]
        ids == Head(calls[r])
        last == Len(ids) = 1
    IN
    /\ nmu[p] = r /\ Len(pubNotifies[p]) < Cap
    /\ pubNotifies' = [pubNotifies EXCEPT ![p] = Append(@, Head(ids))]
    /\ calls' = [calls EXCEPT ![r] = IF last THEN Tail(@)
                                             ELSE <<Tail(ids)>> \o Tail(@)]
    /\ nmu' = [nmu EXCEPT ![p] = IF last THEN Nobody ELSE r]
    /\ UNCHANGED <<due, pc, registryVars, hooked, stopping, pn, sender,
                   listenVars, counters>>

\* A call without hooks.
CallInternal(r) ==
    LET p == ProcOf[r] IN
    /\ calls[r] # <<>> /\ p \notin hooked /\ NmuFree(p)
    /\ WakeInternal(p, Head(calls[r]))
    /\ calls' = [calls EXCEPT ![r] = Tail(@)]
    /\ UNCHANGED <<due, pc, nmu, hooked, stopping, sendVars, listenVars, counters>>

Write(r) == LockForHook(r) \/ Hook(r) \/ CallInternal(r)

-----------------------------------------------------------------------------
(* The queue processor loop of the notifier *)

\* A receive, the one the loop blocks in or one of those that follow until
\* the channel is empty or the batch is full.
Take(p) ==
    LET batch == pn[p] \cup {Head(pubNotifies[p])} IN
    /\ sender[p] \in {"blocked", "draining"} /\ pubNotifies[p] # <<>>
    /\ pn' = [pn EXCEPT ![p] = batch]
    /\ pubNotifies' = [pubNotifies EXCEPT ![p] = Tail(@)]
    /\ sender' = [sender EXCEPT ![p] =
         IF @ = "draining" /\ Cardinality(batch) >= Cap
         THEN "connecting" ELSE "draining"]
    /\ UNCHANGED <<due, pc, registryVars, hookVars, listenVars, counters>>

Drained(p) ==
    /\ sender[p] = "draining" /\ pubNotifies[p] = <<>>
    /\ sender' = [sender EXCEPT ![p] = "connecting"]
    /\ UNCHANGED <<due, pc, registryVars, hookVars, pubNotifies, pn, listenVars,
                   counters>>

Connect(p) ==
    /\ sender[p] = "connecting" /\ p \notin stopping
    /\ sender' = [sender EXCEPT ![p] = "sending"]
    /\ UNCHANGED <<due, pc, registryVars, hookVars, pubNotifies, pn, listenVars,
                   counters>>

\* No connection, because of a fault or of the cancelled context: the batch
\* is kept, and the loop blocks in its receive again.
ConnectFails(p) ==
    /\ sender[p] = "connecting"
    /\ IF p \in stopping THEN UNCHANGED faults ELSE Fault("send")
    /\ sender' = [sender EXCEPT ![p] = "blocked"]
    /\ UNCHANGED <<due, pc, registryVars, hookVars, pubNotifies, pn, listenVars,
                   commits>>

\* pg_notify reaches the connections that listen, of all processes.
Send(p) ==
    /\ sender[p] = "sending" /\ p \notin stopping
    /\ \E s \in pn[p] :
          /\ pn' = [pn EXCEPT ![p] = @ \ {s}]
          /\ incoming' = [q \in Procs |->
               IF listener[q] \in {"listening", "up"}
               THEN incoming[q] \cup {s} ELSE incoming[q]]
    /\ UNCHANGED <<due, pc, registryVars, hookVars, pubNotifies, sender, listener,
                   waking, counters>>

\* It fails: the notification is lost.
SendFails(p) ==
    /\ sender[p] = "sending"
    /\ IF p \in stopping THEN UNCHANGED faults ELSE Fault("send")
    /\ \E s \in pn[p] : pn' = [pn EXCEPT ![p] = @ \ {s}]
    /\ UNCHANGED <<due, pc, registryVars, hookVars, pubNotifies, sender,
                   listenVars, commits>>

Sent(p) ==
    /\ sender[p] = "sending" /\ pn[p] = {}
    /\ sender' = [sender EXCEPT ![p] = "blocked"]
    /\ UNCHANGED <<due, pc, registryVars, hookVars, pubNotifies, pn, listenVars,
                   counters>>

SendLoop(p) == Take(p) \/ Drained(p) \/ Connect(p) \/ Send(p) \/ Sent(p)

-----------------------------------------------------------------------------
(* The listening connection: runOnce and its retry loop *)

Listen(p) ==
    /\ listener[p] = "down" /\ p \notin stopping
    /\ listener' = [listener EXCEPT ![p] = "listening"]
    /\ UNCHANGED <<due, pc, registryVars, hookVars, sendVars, incoming, waking,
                   counters>>

\* Mutant: a connection that listens again wakes nobody.
WakeAll_Skipped(p) ==
    /\ listener[p] = "listening" /\ NmuFree(p)
    /\ listener' = [listener EXCEPT ![p] = "up"]
    /\ UNCHANGED <<due, pc, registryVars, hookVars, sendVars, incoming, waking,
                   counters>>

\* Everyone is woken, as notifications may have been missed.
WakeAll(p) ==
    /\ listener[p] = "listening" /\ NmuFree(p)
    /\ listener' = [listener EXCEPT ![p] = "up"]
    /\ WakeAllInternal(p)
    /\ UNCHANGED <<due, pc, hookVars, sendVars, incoming, waking, counters>>

\* A notification is handed to a goroutine ...
Receive(p) ==
    /\ listener[p] = "up"
    /\ \E s \in incoming[p] :
          /\ incoming' = [incoming EXCEPT ![p] = @ \ {s}]
          /\ waking' = [waking EXCEPT ![p] = @ \cup {s}]
    /\ UNCHANGED <<due, pc, registryVars, hookVars, sendVars, listener, counters>>

\* ... which calls WakePublishListeners, for internal listeners only.
Wake(p) ==
    /\ NmuFree(p)
    /\ \E s \in waking[p] :
          /\ waking' = [waking EXCEPT ![p] = @ \ {s}]
          /\ WakeInternal(p, <<s>>)
    /\ UNCHANGED <<due, pc, hookVars, sendVars, listener, incoming, counters>>

\* The connection fails; runOnce returns an error and is called again.
Drop(p) ==
    /\ listener[p] \in {"listening", "up"} /\ Fault("drop")
    /\ listener' = [listener EXCEPT ![p] = "down"]
    /\ incoming' = [incoming EXCEPT ![p] = {}]
    /\ UNCHANGED <<due, pc, registryVars, hookVars, sendVars, waking, commits>>

\* It fails with a timeout of the network: the goroutine that receives returns
\* nil, which does not cancel egCtx, and runOnce waits for nothing.
TimesOut(p) ==
    /\ listener[p] = "up" /\ Fault("timeout")
    /\ listener' = [listener EXCEPT ![p] = "deaf"]
    /\ incoming' = [incoming EXCEPT ![p] = {}]
    /\ UNCHANGED <<due, pc, registryVars, hookVars, sendVars, waking, commits>>

ListenLoop(p) == Listen(p) \/ WakeAll(p) \/ Receive(p) \/ Wake(p)

-----------------------------------------------------------------------------
(* Shutdown *)

Stop(p) ==
    /\ p \in Stoppable \ stopping
    /\ stopping' = stopping \cup {p}
    /\ UNCHANGED <<due, pc, registryVars, calls, nmu, hooked, sendVars,
                   listenVars, counters>>

SenderEnds(p) ==
    /\ p \in stopping /\ sender[p] \in {"blocked", "draining"}
    /\ sender' = [sender EXCEPT ![p] = "ended"]
    /\ UNCHANGED <<due, pc, registryVars, hookVars, pubNotifies, pn, listenVars,
                   counters>>

\* WakeAllInternal does not look at the context, and neither does the goroutine
\* that hands over what it receives through a channel of capacity 1: with a
\* second notification it is stuck once nobody reads from that channel.
ListenerEnds(p) ==
    /\ p \in stopping
    /\ \/ /\ listener[p] \in {"down", "up", "deaf"}
          /\ listener' = [listener EXCEPT ![p] = "ended"]
       \/ /\ listener[p] = "up" /\ Cardinality(incoming[p]) > 1
          /\ listener' = [listener EXCEPT ![p] = "stuck"]
    /\ incoming' = [incoming EXCEPT ![p] = {}]
    /\ UNCHANGED <<due, pc, registryVars, hookVars, sendVars, waking, counters>>

\* Cleanup: once both loops have ended, RemovePublishHook.
Cleanup(p) ==
    /\ p \in stopping /\ sender[p] = "ended" /\ listener[p] = "ended"
    /\ p \in hooked /\ NmuFree(p)
    /\ hooked' = hooked \ {p}
    /\ UNCHANGED <<due, pc, registryVars, calls, nmu, stopping, sendVars,
                   listenVars, counters>>

\* The end of the loops, and what fails once the context is cancelled.
ShutDown(p) ==
    \/ SenderEnds(p) \/ ListenerEnds(p) \/ Cleanup(p)
    \/ p \in stopping /\ (ConnectFails(p) \/ SendFails(p))

-----------------------------------------------------------------------------

WakeNext ==
    \/ \E w \in Pullers : Pull(w) \/ GiveUp(w)
    \/ \E r \in Writers : CommitPublish(r) \/ CommitZeroDelay(r) \/ Write(r)
    \/ \E p \in Procs :
          \/ SendLoop(p) \/ ConnectFails(p) \/ SendFails(p)
          \/ ListenLoop(p) \/ Drop(p) \/ TimesOut(p)
          \/ Stop(p) \/ SenderEnds(p) \/ ListenerEnds(p) \/ Cleanup(p)

WakeSpec == WakeInit /\ [][WakeNext]_wakeVars

\* Goroutines run, mutexes and channels are granted, and connections that do
\* not fail make progress; pulls need not give up, nor clients commit.
Progress ==
    /\ \A w \in Pullers : WF_wakeVars(Pull(w))
    /\ \A r \in Writers : WF_wakeVars(Write(r))
    /\ \A p \in Procs :
          WF_wakeVars(SendLoop(p)) /\ WF_wakeVars(Listen(p) \/ WakeAll(p))
          /\ WF_wakeVars(Receive(p)) /\ WF_wakeVars(Wake(p))
          /\ WF_wakeVars(ShutDown(p))

FairWakeSpec == WakeSpec /\ Progress

-----------------------------------------------------------------------------
(* Properties *)

\* A channel that is still registered is not closed: closing it again, which
\* WakePublishListeners or WakeAllInternal would do, panics the process.
NoDoubleClose ==
    \A p \in Procs : (UNION Range(pubWaiters[p])) \cap closed = {}

\* Whoever has a notification for s that has yet to reach process p.
OnItsWay(s, p) ==
    \/ \E r \in Writers : /\ ProcOf[r] \in hooked \cup {p}
                          /\ \E i \in DOMAIN calls[r] : s \in Range(calls[r][i])
    \/ \E q \in Procs : s \in pn[q] \cup Range(pubNotifies[q])
    \/ s \in incoming[p] \cup waking[p]
    \/ listener[p] \in {"down", "listening"}

\* No wakeup is lost: while there is something for a sleeping pull, its
\* channel is closed, or a notification is on its way to its process, or the
\* process is about to wake everyone.  It is what registering the awaiter
\* before the query, sending after the commit, and waking everyone after
\* LISTEN are for.
NoLostWakeup ==
    \A w \in Pullers :
       pc[w] = "asleep" /\ PullsFrom[w] \in due =>
          w \in closed \/ OnItsWay(PullsFrom[w], ProcOf[w])

\* A pull does not sleep while there is something for it: it wakes up, or
\* another pull takes what there was, in whichever process either runs.
SleeperWakes ==
    \A w \in Pullers :
       pc[w] = "asleep" /\ PullsFrom[w] \in due
         ~> pc[w] # "asleep" \/ PullsFrom[w] \notin due
=============================================================================
