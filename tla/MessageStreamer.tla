--------------------------- MODULE MessageStreamer --------------------------
(***************************************************************************)
(* A stream of one subscription, MessageStreamer.Go in                     *)
(* src/actions/message-streamer.go: the goroutines that close, read, send, *)
(* refresh and extend, the two connections they work for (a gRPC stream    *)
(* and an HTTP push endpoint), and the client behind the connection.       *)
(*                                                                         *)
(* A step ends where a goroutine gives up the lock, waits, or commits a    *)
(* transaction.  Of the database a delivery's row is left: due, leased     *)
(* until its next attempt, or done.  The byte budget, kept by the same     *)
(* statements as the message budget, is left out.                          *)
(***************************************************************************)
EXTENDS Integers, FiniteSets, FiniteSetsExt

CONSTANTS
    D,            \* deliveries
    Load,         \* kind of connection |-> the deliveries its stream may get
    Window,       \* kind of connection |-> flow control its client asks for
    MaxPull,      \* messages the sender takes at a time, 100
    MaxWindow,    \* the push connection's limit, 1000
    NackPenalty,  \* what a nack takes from its window, 10
    QueueCap,     \* capacity of its queues, 10
    MaxUpsets     \* bound: nacks and seeks in a behaviour

ASSUME StreamAssumption ==
    /\ DOMAIN Load \subseteq {"grpc", "standalone", "push"}
    /\ IsFiniteSet(D) /\ \A k \in DOMAIN Load : Load[k] \subseteq D
    /\ Window \in [DOMAIN Load \ {"push"} -> Nat \ {0}]
    /\ \A n \in {MaxPull, MaxWindow, NackPenalty, QueueCap} : n \in Nat \ {0}
    /\ MaxUpsets \in Nat

VARIABLES
    kind,         \* the connection of this behaviour
    db,           \* [D -> {"none", "due", "leased", "done"}]
    canceled,     \* the context is done
    closed,       \* the closer has closed the connection and is done
    fc,           \* FlowControl.MaxMessages
    pending,      \* keys of the map
    wakeSend,     \* whether the channel holds its one token
    sender, room, batch,       \* its state, curFc and the pulled deliveries
    reader, ackIds, nackIds,   \* its state and the request it works on
    refresher, gone,           \* its state and what it found completed
    delayer, delaying,         \* the auto-delayer's, and what it will extend
    notified,     \* goroutines whose publish awaiter has been closed
    opened,       \* the gRPC client's first request has been read
    window,       \* httpPushStreamConn.maxMessages
    held,         \* deliveries the client works on; push: open requests
    fastAck, slowAck, nackQueue,   \* answers on their way to the reader
    upsets        \* nacks and seeks so far

dbVars == <<db, notified>>
senderVars == <<sender, room, batch>>
readerVars == <<reader, ackIds, nackIds, opened, window>>
refreshVars == <<refresher, gone, delayer, delaying>>
clientVars == <<held, fastAck, slowAck, nackQueue>>
boundVars == <<kind, upsets>>
streamVars == <<dbVars, canceled, closed, fc, pending, wakeSend, senderVars,
                readerVars, refreshVars, clientVars, boundVars>>

StreamTypeOK ==
    /\ kind \in DOMAIN Load
    /\ db \in [D -> {"none", "due", "leased", "done"}]
    /\ canceled \in BOOLEAN /\ closed \in BOOLEAN /\ wakeSend \in BOOLEAN
    /\ opened \in BOOLEAN
    /\ fc \in Nat \ {0} /\ window \in 1 .. MaxWindow
    /\ sender \in {"loop", "wait", "pull", "add", "done"}
    /\ reader \in {"receive", "txn", "delete", "done"}
    /\ refresher \in {"wait", "remove", "done"}
    /\ delayer \in {"wait", "extend", "done"}
    /\ room \in Int
    /\ notified \subseteq {"sender", "refresher"}
    /\ \A S \in {pending, batch, ackIds, nackIds, gone, delaying, held,
                 fastAck, slowAck, nackQueue} : S \subseteq D
    /\ upsets \in 0 .. MaxUpsets

\* The most conservative flow control until the client asks for another.
StreamInit ==
    /\ kind \in DOMAIN Load
    /\ db = [d \in D |-> "none"] /\ notified = {}
    /\ canceled = FALSE /\ closed = FALSE
    /\ fc = 1 /\ pending = {} /\ wakeSend = FALSE
    /\ sender = "loop" /\ room = 0 /\ batch = {}
    /\ reader = "receive" /\ ackIds = {} /\ nackIds = {}
    /\ opened = FALSE /\ window = 1
    /\ refresher = "wait" /\ gone = {}
    /\ delayer = (IF kind = "push" THEN "wait" ELSE "done") /\ delaying = {}
    /\ held = {} /\ fastAck = {} /\ slowAck = {} /\ nackQueue = {}
    /\ upsets = 0

Open(d) == db[d] \in {"due", "leased"}
DbSet(S, st) == db' = [d \in D |-> IF d \in S THEN st ELSE db[d]]
OpenOf(S) == {d \in S : Open(d)}

\* Closing an awaiter is seen by every goroutine that registered one.
Notify == notified' = {"sender", "refresher"}
NotifyIf(cond) == IF cond THEN Notify ELSE UNCHANGED notified

-----------------------------------------------------------------------------
(* The sender *)

\* Mutant: the deliveries that are still pending are not subtracted.
Room_Full == fc

Room == fc - Cardinality(pending)

Compute ==
    /\ sender = "loop" /\ ~canceled
    /\ room' = IF Room > 0 THEN Room ELSE 0
    /\ sender' = IF Room > 0 THEN "pull" ELSE "wait"
    /\ UNCHANGED <<dbVars, canceled, closed, fc, pending, wakeSend, batch,
                   readerVars, refreshVars, clientVars, boundVars>>

\* The wait for room looks at the token and the awaiter, not at the context.
Wake ==
    /\ sender = "wait"
    /\ \/ wakeSend /\ wakeSend' = FALSE /\ UNCHANGED notified
       \/ /\ "sender" \in notified /\ notified' = notified \ {"sender"}
          /\ UNCHANGED wakeSend
    /\ sender' = "loop"
    /\ UNCHANGED <<db, canceled, closed, fc, pending, room, batch, readerVars,
                   refreshVars, clientVars, boundVars>>

\* GetSubscriptionMessages, which waits by itself until something is due.
Pull ==
    LET due == {d \in D : db[d] = "due"}
        limit == Min({room, MaxPull})
    IN
    /\ sender = "pull"
    /\ \E S \in SUBSET due :
          /\ S # {} /\ Cardinality(S) <= limit
          /\ Cardinality(S) = limit \/ S = due
          /\ batch' = S
          /\ DbSet(S, "leased")
    /\ sender' = "add" /\ room' = 0
    /\ UNCHANGED <<notified, canceled, closed, fc, pending, wakeSend,
                   readerVars, refreshVars, clientVars, boundVars>>

\* Its maximal wait is over and nothing is due: the room is computed anew.
PullEmpty ==
    /\ sender = "pull" /\ \A d \in D : db[d] # "due"
    /\ sender' = "loop" /\ room' = 0
    /\ UNCHANGED <<dbVars, canceled, closed, fc, pending, wakeSend, batch,
                   readerVars, refreshVars, clientVars, boundVars>>

\* pending is filled under the lock, then the connection sends.
AddAndSend ==
    /\ sender = "add"
    /\ pending' = pending \cup batch
    /\ held' = IF closed THEN held ELSE held \cup batch
    /\ batch' = {}
    /\ sender' = "loop"
    /\ UNCHANGED <<dbVars, canceled, closed, fc, wakeSend, room, readerVars,
                   refreshVars, fastAck, slowAck, nackQueue,
                   boundVars>>

\* The context is looked at, or ends a transaction or a send with an error.
SenderEnds ==
    /\ canceled /\ sender \in {"loop", "pull", "add"}
    /\ sender' = "done" /\ room' = 0 /\ batch' = {}
    /\ UNCHANGED <<dbVars, canceled, closed, fc, pending, wakeSend, readerVars,
                   refreshVars, clientVars, boundVars>>

Sender == Compute \/ Wake \/ Pull \/ PullEmpty \/ AddAndSend \/ SenderEnds

-----------------------------------------------------------------------------
(* The reader and the two connections *)

SetFc(n) == fc' = n /\ wakeSend' = TRUE

\* adaptIn: flow control comes with the first request only.
ReceiveFirst ==
    /\ reader = "receive" /\ kind # "push" /\ ~opened
    /\ opened' = TRUE
    /\ SetFc(Window[kind])
    /\ UNCHANGED <<dbVars, canceled, closed, pending, senderVars, reader,
                   ackIds, nackIds, window, refreshVars, clientVars,
                   boundVars>>

\* Acknowledgements that came in on the stream.
ReceiveGrpc ==
    /\ reader = "receive" /\ kind # "push" /\ opened
    /\ fastAck # {}
    /\ ackIds' = fastAck /\ fastAck' = {} /\ nackIds' = {}
    /\ reader' = "txn"
    /\ UNCHANGED <<dbVars, canceled, closed, fc, pending, wakeSend, senderVars,
                   opened, window, refreshVars, held, slowAck,
                   nackQueue, boundVars>>

\* Mutant: the window is not kept at one.
Shrunk_Unclamped(n) == window - n

Shrunk(n) == Max({1, window - n})
Grown(n) == Min({MaxWindow, window + n})

\* httpPushStreamConn.Receive with its window: flow control is passed on when
\* the window is not at the limit it moves towards.
ReceivePush ==
    /\ reader = "receive" /\ kind = "push"
    /\ \/ /\ fastAck # {} /\ fastAck' = {} /\ ackIds' = fastAck /\ nackIds' = {}
          /\ IF window < MaxWindow
             THEN window' = Grown(Cardinality(fastAck)) /\ SetFc(window')
             ELSE UNCHANGED <<window, fc, wakeSend>>
          /\ UNCHANGED <<slowAck, nackQueue>>
       \/ /\ slowAck # {} /\ slowAck' = {} /\ ackIds' = slowAck /\ nackIds' = {}
          /\ IF window > 1
             THEN window' = Shrunk(Cardinality(slowAck)) /\ SetFc(window')
             ELSE UNCHANGED <<window, fc, wakeSend>>
          /\ UNCHANGED <<fastAck, nackQueue>>
       \/ /\ nackQueue # {} /\ nackQueue' = {} /\ nackIds' = nackQueue
          /\ ackIds' = {}
          /\ IF window > 1
             THEN /\ window' = Shrunk(NackPenalty * Cardinality(nackQueue))
                  /\ SetFc(window')
             ELSE UNCHANGED <<window, fc, wakeSend>>
          /\ UNCHANGED <<fastAck, slowAck>>
    /\ reader' = "txn"
    /\ UNCHANGED <<dbVars, canceled, closed, pending, senderVars, opened,
                   refreshVars, held, boundVars>>

\* doAcksNacks: a nack starts the backoff, or sends the delivery to the dead
\* letter topic if it has no attempts left; whatever completes something wakes
\* the awaiters.
DoAcksNacks ==
    /\ reader = "txn"
    /\ \E dead \in SUBSET OpenOf(nackIds) :
          /\ db' = [d \in D |-> IF d \in OpenOf(ackIds) \cup dead THEN "done"
                                ELSE IF d \in OpenOf(nackIds) THEN "leased"
                                ELSE db[d]]
          /\ NotifyIf(OpenOf(ackIds) \cup dead # {})
    /\ reader' = "delete"
    /\ UNCHANGED <<canceled, closed, fc, pending, wakeSend, senderVars, ackIds,
                   nackIds, opened, window, refreshVars, clientVars,
                   boundVars>>

\* Mutant: nobody is woken.
DeleteAnswered_NoWake ==
    /\ reader = "delete"
    /\ pending' = pending \ (ackIds \cup nackIds)
    /\ ackIds' = {} /\ nackIds' = {}
    /\ reader' = "receive"
    /\ UNCHANGED <<dbVars, canceled, closed, fc, wakeSend, senderVars, opened,
                   window, refreshVars, clientVars, boundVars>>

DeleteAnswered ==
    /\ reader = "delete"
    /\ pending' = pending \ (ackIds \cup nackIds)
    /\ wakeSend' = TRUE
    /\ ackIds' = {} /\ nackIds' = {}
    /\ reader' = "receive"
    /\ UNCHANGED <<dbVars, canceled, closed, fc, senderVars, opened, window,
                   refreshVars, clientVars, boundVars>>

\* A deadline is extended on the stream; pending is left as it is.  A deadline
\* of zero does what it does in a request of its own (AnswerStandalone).
DoDelay(d) ==
    /\ reader = "receive" /\ kind = "grpc" /\ opened
    /\ d \in held /\ db[d] = "due"
    /\ DbSet({d}, "leased")
    /\ UNCHANGED <<notified, canceled, closed, fc, pending, wakeSend,
                   senderVars, readerVars, refreshVars, clientVars,
                   boundVars>>

\* Receive of the gRPC connection ends when the closer has closed it.
ReaderEnds ==
    /\ canceled
    /\ \/ reader = "txn"
       \/ reader = "receive" /\ (kind = "push" \/ closed)
    /\ reader' = "done" /\ ackIds' = {} /\ nackIds' = {}
    /\ UNCHANGED <<dbVars, canceled, closed, fc, pending, wakeSend, senderVars,
                   opened, window, refreshVars,
                   clientVars, boundVars>>

Reader == ReceiveFirst \/ ReceiveGrpc \/ ReceivePush \/ DoAcksNacks
          \/ DeleteAnswered \/ ReaderEnds

-----------------------------------------------------------------------------
(* The refresher, the auto-delayer and the closer *)

\* Mutant: deliveries whose deadline has passed are taken for answered.
Completed_OrDue(S) == {d \in S : db[d] # "leased"}

\* What the query of the rows of S does not return.
Completed(S) == S \ OpenOf(S)

\* The snapshot of pending and the query of its rows.
QueryPending ==
    /\ refresher = "wait" /\ "refresher" \in notified /\ ~canceled
    /\ notified' = notified \ {"refresher"}
    /\ gone' = Completed(pending)
    /\ refresher' = IF gone' = {} THEN "wait" ELSE "remove"
    /\ UNCHANGED <<db, canceled, closed, fc, pending, wakeSend, senderVars,
                   readerVars, delayer, delaying, clientVars, boundVars>>

\* Under the lock again: what was found completed is dropped, even if it was
\* reopened, pulled and added once more since.
RemoveCompleted ==
    /\ refresher = "remove"
    /\ pending' = pending \ gone
    /\ gone' = {}
    /\ wakeSend' = TRUE
    /\ refresher' = "wait"
    /\ UNCHANGED <<dbVars, canceled, closed, fc, senderVars, readerVars,
                   delayer, delaying, clientVars, boundVars>>

RefresherEnds ==
    /\ canceled /\ refresher = "wait"
    /\ refresher' = "done"
    /\ UNCHANGED <<dbVars, canceled, closed, fc, pending, wakeSend, senderVars,
                   readerVars, gone, delayer, delaying, clientVars, boundVars>>

Refresher == QueryPending \/ RemoveCompleted \/ RefresherEnds

\* The auto-delayer, which gRPC streams do without (AutomaticNack), picks what
\* may come due before its next tick ...
PickDelays ==
    /\ delayer = "wait" /\ ~canceled
    /\ delaying' \in (SUBSET pending) \ {{}}
    /\ delayer' = "extend"
    /\ UNCHANGED <<dbVars, canceled, closed, fc, pending, wakeSend, senderVars,
                   readerVars, refresher, gone, clientVars, boundVars>>

\* ... and extends it, answered or not in the meantime.
AutoDelay ==
    /\ delayer = "extend"
    /\ db' = [d \in D |-> IF d \in OpenOf(delaying) THEN "leased" ELSE db[d]]
    /\ delaying' = {}
    /\ delayer' = "wait"
    /\ UNCHANGED <<notified, canceled, closed, fc, pending, wakeSend,
                   senderVars, readerVars, refresher, gone, clientVars,
                   boundVars>>

DelayerEnds ==
    /\ canceled /\ delayer \in {"wait", "extend"}
    /\ delayer' = "done" /\ delaying' = {}
    /\ UNCHANGED <<dbVars, canceled, closed, fc, pending, wakeSend, senderVars,
                   readerVars, refresher, gone, clientVars, boundVars>>

Delayer == AutoDelay \/ DelayerEnds

\* Mutant: the connection is closed and nobody is woken.
Close_NoWake ==
    /\ canceled /\ ~closed
    /\ kind = "push" => held = {}
    /\ closed' = TRUE
    /\ UNCHANGED <<dbVars, canceled, fc, pending, wakeSend, senderVars,
                   readerVars, refreshVars, clientVars, boundVars>>

\* A push connection waits for its requests to end before it is closed.
Close ==
    /\ canceled /\ ~closed
    /\ kind = "push" => held = {}
    /\ closed' = TRUE
    /\ wakeSend' = TRUE
    /\ UNCHANGED <<dbVars, canceled, fc, pending, senderVars, readerVars,
                   refreshVars, clientVars, boundVars>>

-----------------------------------------------------------------------------
(* Clients *)

\* A gRPC client acknowledges on the stream.
AnswerGrpc(d) ==
    /\ kind = "grpc" /\ d \in held
    /\ held' = held \ {d}
    /\ fastAck' = fastAck \cup {d}
    /\ UNCHANGED <<dbVars, canceled, closed, fc, pending, wakeSend, senderVars,
                   readerVars, refreshVars, slowAck, nackQueue,
                   boundVars>>

\* The goroutine of a push request waits for room in the queue its answer
\* belongs to.
HasRoom(queue) == Cardinality(queue) < QueueCap
AnswerPush(d) ==
    /\ kind = "push" /\ d \in held /\ ~canceled
    /\ \/ /\ HasRoom(fastAck) /\ fastAck' = fastAck \cup {d}
          /\ UNCHANGED <<slowAck, nackQueue, upsets>>
       \/ /\ HasRoom(slowAck) /\ slowAck' = slowAck \cup {d}
          /\ UNCHANGED <<fastAck, nackQueue, upsets>>
       \/ /\ HasRoom(nackQueue) /\ nackQueue' = nackQueue \cup {d}
          /\ upsets < MaxUpsets /\ upsets' = upsets + 1
          /\ UNCHANGED <<fastAck, slowAck>>
    /\ held' = held \ {d}
    /\ UNCHANGED <<dbVars, canceled, closed, fc, pending, wakeSend, senderVars,
                   readerVars, refreshVars, kind>>

\* With the context its HTTP request is canceled too.
AbandonPush(d) ==
    /\ kind = "push" /\ d \in held /\ canceled
    /\ held' = held \ {d}
    /\ UNCHANGED <<dbVars, canceled, closed, fc, pending, wakeSend, senderVars,
                   readerVars, refreshVars, fastAck, slowAck,
                   nackQueue, boundVars>>

\* The NodeJS client answers with requests of their own: Acknowledge, and
\* ModifyAckDeadline with a deadline of zero for a nack.
AnswerStandalone(d) ==
    /\ kind = "standalone" /\ d \in held
    /\ held' = held \ {d}
    /\ \/ /\ DbSet(OpenOf({d}), "done")
          /\ UNCHANGED upsets
       \/ /\ upsets < MaxUpsets /\ upsets' = upsets + 1
          /\ DbSet(OpenOf({d}), "due")
    /\ NotifyIf(Open(d))
    /\ UNCHANGED <<canceled, closed, fc, pending, wakeSend, senderVars,
                   readerVars, refreshVars, fastAck, slowAck,
                   nackQueue, kind>>

AnswerOf(d) == AnswerGrpc(d) \/ AnswerPush(d) \/ AnswerStandalone(d)

-----------------------------------------------------------------------------
(* The rest of the world *)

PublishOne(d) ==
    /\ ~canceled /\ d \in Load[kind] /\ db[d] = "none"
    /\ DbSet({d}, "due")
    /\ Notify
    /\ UNCHANGED <<canceled, closed, fc, pending, wakeSend, senderVars,
                   readerVars, refreshVars, clientVars, boundVars>>

\* The next attempt of d comes due.
Lapse(d) ==
    /\ ~canceled /\ db[d] = "leased"
    /\ DbSet({d}, "due")
    /\ UNCHANGED <<notified, canceled, closed, fc, pending, wakeSend,
                   senderVars, readerVars, refreshVars, clientVars,
                   boundVars>>

\* An operator seeks: d is acknowledged or reopened behind the stream's back.
SeekOne(d) ==
    /\ upsets < MaxUpsets /\ upsets' = upsets + 1
    /\ ~canceled /\ db[d] # "none"
    /\ DbSet({d}, IF Open(d) THEN "done" ELSE "due")
    /\ Notify
    /\ UNCHANGED <<canceled, closed, fc, pending, wakeSend, senderVars,
                   readerVars, refreshVars, clientVars, kind>>

\* The client hangs up, the subscription is deleted, a transaction fails.
Cancel ==
    /\ ~canceled /\ canceled' = TRUE
    /\ UNCHANGED <<dbVars, closed, fc, pending, wakeSend, senderVars,
                   readerVars, refreshVars, clientVars, boundVars>>

StreamNext ==
    \/ Sender \/ Reader \/ Refresher \/ Close
    \/ Cancel
    \/ PickDelays \/ Delayer
    \/ \E d \in D : \/ DoDelay(d) \/ AnswerOf(d) \/ AbandonPush(d)
                    \/ PublishOne(d) \/ Lapse(d) \/ SeekOne(d)

\* Goroutines are scheduled, a client answers what it got, time passes.
StreamFairness ==
    /\ WF_streamVars(Sender) /\ WF_streamVars(Reader)
    /\ WF_streamVars(Refresher) /\ WF_streamVars(Delayer)
    /\ WF_streamVars(Close)
    /\ \A d \in D : /\ WF_streamVars(AnswerOf(d))
                    /\ WF_streamVars(AbandonPush(d))
                    /\ WF_streamVars(Lapse(d))

StreamSpec == StreamInit /\ [][StreamNext]_streamVars /\ StreamFairness

-----------------------------------------------------------------------------
(* Properties *)

Largest == IF kind = "push" THEN MaxWindow ELSE Window[kind]

\* The stream never counts more deliveries as outstanding than the largest
\* flow control it was given, although windows shrink and acknowledgements,
\* the refresher and redeliveries change pending while the sender pulls.
WithinWindow ==
    Cardinality(pending \cup batch) <= Largest

\* What a client works on is accounted for: unless it was nacked or sought
\* meanwhile, an open delivery that the client holds is in pending, whatever
\* redeliveries, answers and refreshes crossed each other, so the client is
\* not sent more than it asked for.
HeldIsPending == upsets = 0 => OpenOf(held) \subseteq pending

Unsent(d) == Open(d) /\ d \notin held \cup fastAck \cup slowAck \cup nackQueue

\* An outstanding delivery is sent, or sent again, as long as the stream
\* lasts: no lost wake-up, shrunken window or redelivery of what is pending
\* already keeps the sender waiting for ever.
EverythingIsSent ==
    \A d \in D : Unsent(d) ~> (d \in held \/ ~Open(d) \/ canceled)

\* Once its context is done the stream ends, whatever its goroutines were
\* waiting for.
StreamEnds ==
    canceled ~>
       closed /\ {sender, reader, refresher, delayer} = {"done"}
=============================================================================
