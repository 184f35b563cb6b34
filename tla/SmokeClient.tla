---------------------------- MODULE SmokeClient -----------------------------
(***************************************************************************)
(* The smoke program, src/internal/ts-compat/src/smoke.ts, composed with   *)
(* the message bus: its requests are the bus's transactions.  A step of    *)
(* the program runs from one await to the next.  Requests, messages and    *)
(* acknowledgements take at most Latency ticks; a timer that is due runs   *)
(* before time passes, earlier deadlines first, as in Node's event loop.   *)
(***************************************************************************)
EXTENDS MessageBus

CONSTANTS
    SmokeTopic,   \* the uuid of the program's topic
    SmokeSub,     \* the uuid of its subscription
    MsgTimeout,   \* ticks in 1100 ms
    MaxSleep,     \* ticks in 1000 ms
    Grace,        \* ticks in the 100 ms before gotError is looked at
    Latency,      \* assumed: a leg on the network
    ErrorLatency  \* assumed: the end of a stream whose subscription is gone

ASSUME SmokeAssumption ==
    /\ SmokeTopic \in TopicIds /\ SmokeSub \in SubIds
    /\ \A n \in {MsgTimeout, MaxSleep, Grace, Latency, ErrorLatency} : n \in Nat

\* The client library asks for no filter, and the retention it gets is longer
\* than the tick in which a message is published.
ASSUME SmokeSubAssumption ==
    SubRequest[SmokeSub].filter = Attrs /\ SubRequest[SmokeSub].messageTTL > 1

\* The times of the program, 1100 ms, 1000 ms, 1.5 s and 100 ms, against the
\* latencies: a handler sleeps for less than the timer runs, and so do two legs
\* and the tick of the publish; two legs and a handler take less than the
\* backoff, the default one or the configured one; an open stream ends within the grace.
ASSUME SmokeTimesAssumption ==
    /\ MaxSleep < MsgTimeout /\ 2 * Latency + 1 < MsgTimeout
    /\ \A p \in DOMAIN NextDelay : 2 * Latency + MaxSleep < NextDelay[p][1]
    /\ ErrorLatency < Grace

VARIABLES
    main,         \* the request or promise that main() awaits
    since,        \* when it began to
    answered,     \* the server has handled the request
    msgTimeout,   \* deadline of the timer of that name
    msgsP,        \* whether that promise is resolved
    gotError,
    listening,    \* the subscription's stream is open
    wire,         \* messages sent by the server, not received yet
    handlers,     \* "message" handlers asleep
    acks          \* acknowledgements sent by the client

smokeVars == <<main, since, answered, msgTimeout, msgsP, gotError, listening,
               wire, handlers, acks>>
allVars == <<vars, smokeVars>>

SetupRequests == {"list", "create", "createAgain", "getTopic", "setTopic",
                  "getSub", "setSub"}
MainRequests == SetupRequests \cup {"publish", "deleteSub", "deleteTopic"}
Mains == MainRequests \cup {"msgsP", "sleep", "done", "rejected"}

Sendings == [d : DeliveryIds, at : Time]

SmokeTypeOK ==
    /\ TypeOK
    /\ main \in Mains /\ since \in Time /\ answered \in BOOLEAN
    /\ msgTimeout \in Time \cup {None}
    /\ msgsP \in BOOLEAN /\ gotError \in BOOLEAN /\ listening \in BOOLEAN
    /\ wire \subseteq Sendings /\ handlers \subseteq Sendings
    /\ acks \subseteq Sendings

SmokeInit ==
    /\ Init
    /\ main = "list" /\ since = 0 /\ answered = FALSE
    /\ msgTimeout = None /\ msgsP = FALSE
    /\ gotError = FALSE /\ listening = FALSE
    /\ wire = {} /\ handlers = {} /\ acks = {}

-----------------------------------------------------------------------------
(* Requests *)

\* get with autoCreate.
EnsureTopic ==
    IF LiveTopic(SmokeTopic) THEN UNCHANGED vars ELSE CreateTopic(SmokeTopic)
EnsureSub ==
    IF LiveSub(SmokeSub) THEN UNCHANGED vars ELSE CreateSubscription(SmokeSub)

\* What the server does for the request; labels are not modelled.
Transaction ==
    \/ main \in {"list", "setTopic"} /\ UNCHANGED vars
    \/ main = "create" /\ CreateTopic(SmokeTopic)
    \/ main = "getTopic" /\ EnsureTopic
    \/ main = "getSub" /\ EnsureSub
    \/ /\ main = "setSub"
       /\ \E r \in SubRequests : /\ r.ordered
                                 /\ UpdateSubscription(SmokeSub, r,
                                                       {"ordered", "retry"})
    \/ main = "publish" /\ Publish
    \/ main = "deleteSub" /\ DeleteSubscription(SmokeSub)
    \/ main = "deleteTopic" /\ DeleteTopic(SmokeTopic)

Serve ==
    /\ main \in MainRequests /\ ~answered
    /\ Transaction
    /\ answered' = TRUE
    /\ UNCHANGED <<main, since, msgTimeout, msgsP, gotError, listening, wire,
                   handlers, acks>>

Goto(m) == main' = m /\ since' = now /\ answered' = FALSE

\* A set-up request is answered.  The second createTopic never is: it is
\* refused because the topic exists.
NextRequest ==
    [m \in SetupRequests \ {"createAgain", "setSub"} |->
        CASE m = "list" -> "create"
          [] m = "create" -> "createAgain"
          [] m = "getTopic" -> "setTopic"
          [] m = "setTopic" -> "getSub"
          [] m = "getSub" -> "setSub"]

Proceed ==
    /\ main \in DOMAIN NextRequest /\ answered
    /\ Goto(NextRequest[main])
    /\ UNCHANGED <<vars, msgTimeout, msgsP, gotError, listening, wire,
                   handlers, acks>>

\* setMetadata is answered: the timer is armed, the handlers are attached,
\* which opens the stream, and the publish is sent.
Start ==
    /\ main = "setSub" /\ answered
    /\ Goto("publish")
    /\ msgTimeout' = After(MsgTimeout)
    /\ listening' = TRUE
    /\ UNCHANGED <<vars, msgsP, gotError, wire, handlers, acks>>

Published ==
    /\ main = "publish" /\ answered
    /\ Goto("msgsP")
    /\ UNCHANGED <<vars, msgTimeout, msgsP, gotError, listening, wire,
                   handlers, acks>>

\* A request fails, before or after the server handled it.  Only the try
\* around the two createTopic swallows the error.
Reject ==
    /\ main \in MainRequests
    /\ Goto(IF main \in {"create", "createAgain"} THEN "getTopic"
                                                  ELSE "rejected")
    /\ UNCHANGED <<vars, msgTimeout, msgsP, gotError, listening, wire,
                   handlers, acks>>

-----------------------------------------------------------------------------
(* Receiving *)

Sent(d) == [d |-> d, at |-> now]

\* The server's stream pulls and sends.
Stream ==
    /\ listening
    /\ GetSubscriptionMessages(SmokeSub)
    /\ wire' = wire \cup {Sent(d) : d \in {e \in DOMAIN deliveries : HandedNow(e)}}
    /\ UNCHANGED <<main, since, answered, msgTimeout, msgsP, gotError,
                   listening, handlers, acks>>

\* Mutant: up to two seconds.
SleepTimes_Long == 0 .. 2 * MaxSleep

SleepTimes == 0 .. MaxSleep

Refresh == msgTimeout' = After(MsgTimeout)

\* Mutant: the timer is refreshed when the handler ends, not when it begins.
OnMessage_NoRefresh(w) ==
    /\ listening /\ w \in wire /\ wire' = wire \ {w}
    /\ \E n \in SleepTimes :
          handlers' = handlers \cup {[d |-> w.d, at |-> After(n)]}
    /\ UNCHANGED <<vars, main, since, answered, msgTimeout, msgsP, gotError,
                   listening, acks>>

\* The "message" handler until its sleep.
OnMessage(w) ==
    /\ listening /\ w \in wire /\ wire' = wire \ {w}
    /\ Refresh
    /\ \E n \in SleepTimes :
          handlers' = handlers \cup {[d |-> w.d, at |-> After(n)]}
    /\ UNCHANGED <<vars, main, since, answered, msgsP, gotError, listening,
                   acks>>

\* Mutant: the timer is refreshed only when a message arrives.
AckMessage_NoRefresh(h) ==
    /\ h \in handlers /\ h.at <= now
    /\ handlers' = handlers \ {h}
    /\ acks' = acks \cup {Sent(h.d)}
    /\ UNCHANGED <<vars, main, since, answered, msgTimeout, msgsP, gotError,
                   listening, wire>>

\* The rest of the handler.
AckMessage(h) ==
    /\ h \in handlers /\ h.at <= now
    /\ handlers' = handlers \ {h}
    /\ acks' = acks \cup {Sent(h.d)}
    /\ Refresh
    /\ UNCHANGED <<vars, main, since, answered, msgsP, gotError, listening,
                   wire>>

Acknowledge(a) ==
    /\ a \in acks /\ acks' = acks \ {a}
    /\ \/ a.d \in KnownOpen /\ AckDeliveries
          /\ deliveries'[a.d].completedAt # None
       \/ a.d \notin KnownOpen /\ UNCHANGED vars
    /\ UNCHANGED <<main, since, answered, msgTimeout, msgsP, gotError,
                   listening, wire, handlers>>

\* The timer runs once no sleeping handler has an earlier deadline.
TimerDue ==
    /\ msgTimeout # None /\ msgTimeout <= now
    /\ \A h \in handlers : h.at >= msgTimeout
Fire ==
    /\ TimerDue
    /\ msgTimeout' = None
    /\ msgsP' = TRUE
    /\ UNCHANGED <<vars, main, since, answered, gotError, listening, wire,
                   handlers, acks>>

\* The stream of a deleted subscription ends: the "error" handler.
OnError ==
    /\ listening /\ subs[SmokeSub].st = "deleted"
    /\ gotError' = TRUE
    /\ listening' = FALSE /\ wire' = {}
    /\ UNCHANGED <<vars, main, since, answered, msgTimeout, msgsP, handlers,
                   acks>>

-----------------------------------------------------------------------------
(* The end *)

\* Mutant: the delete goes through s, which closes the stream first.
StopWaiting_ThroughS ==
    /\ main = "msgsP" /\ msgsP
    /\ Goto("deleteSub")
    /\ listening' = FALSE /\ wire' = {}
    /\ UNCHANGED <<vars, msgTimeout, msgsP, gotError, handlers, acks>>

\* The delete goes through a Subscription object of its own, not through s.
StopWaiting ==
    /\ main = "msgsP" /\ msgsP
    /\ Goto("deleteSub")
    /\ UNCHANGED <<vars, msgTimeout, msgsP, gotError, listening, wire,
                   handlers, acks>>

SubDeleted ==
    /\ main = "deleteSub" /\ answered
    /\ Goto("sleep")
    /\ UNCHANGED <<vars, msgTimeout, msgsP, gotError, listening, wire,
                   handlers, acks>>

SleepOver ==
    /\ main = "sleep" /\ since + Grace <= now
    /\ Goto("deleteTopic")
    /\ UNCHANGED <<vars, msgTimeout, msgsP, gotError, listening, wire,
                   handlers, acks>>

\* The topic is gone; s and p are closed.
Close ==
    /\ main = "deleteTopic" /\ answered
    /\ Goto("done")
    /\ listening' = FALSE /\ wire' = {}
    /\ UNCHANGED <<vars, msgTimeout, msgsP, gotError, handlers, acks>>

-----------------------------------------------------------------------------
(* Time *)

\* Nothing is timed before the timer is armed.  Due timers run, a stream pulls
\* what is due, and nothing travels for longer than it is assumed to.
Late(at) == at + Latency <= now
Urgent ==
    \/ main \in SetupRequests \cup {"done"}
    \/ main \in MainRequests /\ Late(since)
    \/ main = "msgsP" /\ msgsP
    \/ TimerDue \/ \E h \in handlers : h.at <= now
    \/ \E w \in wire \cup acks : Late(w.at)
    \/ listening /\ \E d \in DOMAIN deliveries : Deliverable(d)
    \/ listening /\ subs[SmokeSub].st = "deleted"
          /\ subs[SmokeSub].deletedAt + ErrorLatency <= now
    \/ main = "sleep" /\ since + Grace <= now

SmokeTick == ~Urgent /\ Tick /\ UNCHANGED smokeVars

SmokeNext ==
    \/ Serve \/ Proceed \/ Start \/ Published \/ Reject
    \/ Stream \/ Fire \/ OnError
    \/ \E w \in wire : OnMessage(w)
    \/ \E h \in handlers : AckMessage(h)
    \/ \E a \in acks : Acknowledge(a)
    \/ StopWaiting \/ SubDeleted \/ SleepOver \/ Close
    \/ SmokeTick

SmokeSpec == SmokeInit /\ [][SmokeNext]_allVars

-----------------------------------------------------------------------------
(* Properties *)

\* The wait for messages never ends while a handler is in its sleep: a handler
\* that began gets to acknowledge its message before the program goes on to
\* delete the subscription.
HandlersFinish == [][msgsP' /\ ~msgsP => handlers = {}]_allVars

\* When the program has deleted its subscription, the server knows that the
\* message was acknowledged: the timer outlasts the delivery, the handler and
\* the way of the acknowledgement, one after the other.
AckedBeforeDeleted ==
    main \in {"sleep", "deleteTopic", "done"} =>
       /\ DeliveriesOf(SmokeSub) # {}
       /\ \A d \in DeliveriesOf(SmokeSub) : ~Open(d)

\* A prompt client gets the message once: its slowest handler and both ways on
\* the network fit into the backoff that the program configured.
ReceivedOnce ==
    \A d \in DOMAIN deliveries : deliveries[d].attempts <= 1

\* "got expected error?" is printed with true: the open stream hears of the
\* deletion within the 100 ms the program waits.
ExpectedError == main \in {"deleteTopic", "done"} => gotError
=============================================================================
