---------------------------- MODULE StressClient ----------------------------
(***************************************************************************)
(* The stress program, src/internal/ts-compat/src/stress.ts, against a     *)
(* subscription that delivers at least once and a server whose fault       *)
(* injector may strike its publishes.  A step of the program runs from one *)
(* await to the next; requests, responses, messages and acknowledgements   *)
(* travel on their own, and the connection may lose the last two.          *)
(***************************************************************************)
EXTENDS FaultSet

CONSTANTS
    NumMessages,  \* numMessages
    MaxReceived   \* bound: numReceived stops there

ASSUME StressAssumption ==
    /\ NumMessages \in Nat \ {0} /\ Calls = 1 .. NumMessages
    /\ MaxReceived \in Nat /\ MaxReceived > NumMessages

VARIABLES
    main,         \* where main() stands
    took,         \* main() came past the await without an exception
    pub,          \* message |-> its publish closure
    numSent,
    numReceived,
    doneP,        \* the promise of the same name
    listening,    \* the client has a streaming pull open
    wire,         \* messages on their way to the client
    acks,         \* acknowledgements on their way to the server
    topic, sub,   \* the server's rows
    deleting,     \* "topic" and "sub" |-> the request that deletes it
    state         \* message |-> what the subscription knows of it

Service == INSTANCE AtLeastOnce WITH Items <- Calls

programVars == <<main, took, pub, numSent, numReceived, doneP, listening,
                 deleting>>
serverVars == <<topic, sub, state>>
netVars == <<wire, acks>>
stressVars == <<programVars, serverVars, netVars, faultVars>>

Rows == {"absent", "live", "deleted"}
Requests == {"none", "sent", "ok", "failed"}

StressTypeOK ==
    /\ FaultTypeOK
    /\ main \in {"getTopic", "getSub", "setMetadata", "await", "cleanup",
                 "done", "rejected"}
    /\ took \in BOOLEAN /\ listening \in BOOLEAN
    /\ pub \in [Calls -> {"none", "called", "stored", "sent", "rejected"}]
    /\ numSent \in 0 .. NumMessages /\ numReceived \in 0 .. MaxReceived
    /\ doneP \in {"pending", "resolved", "rejected"}
    /\ wire \subseteq Calls /\ acks \subseteq Calls
    /\ topic \in Rows /\ sub \in Rows
    /\ deleting \in [{"topic", "sub"} -> Requests]
    /\ state \in [Calls -> Service!States]

StressInit ==
    /\ FaultInit
    /\ main = "getTopic" /\ took = FALSE
    /\ pub = [m \in Calls |-> "none"]
    /\ numSent = 0 /\ numReceived = 0 /\ doneP = "pending"
    /\ listening = FALSE /\ wire = {} /\ acks = {}
    /\ topic = "absent" /\ sub = "absent"
    /\ deleting = [r \in {"topic", "sub"} |-> "none"]
    /\ Service!StateInit

-----------------------------------------------------------------------------
(* Setting up: each request is answered, or rejects main() *)

\* The topic and the subscription are created if they do not exist.
GetTopic ==
    /\ main = "getTopic" /\ main' = "getSub"
    /\ topic' = "live"
    /\ UNCHANGED <<took, pub, numSent, numReceived, doneP, listening,
                   deleting, sub, state, netVars, faultVars>>

GetSub ==
    /\ main = "getSub" /\ main' = "setMetadata"
    /\ sub' = "live"
    /\ UNCHANGED <<took, pub, numSent, numReceived, doneP, listening,
                   deleting, topic, state, netVars, faultVars>>

\* From the answer to setMetadata on: the handlers are attached, which opens
\* the stream, and every publish closure is started.
Start ==
    /\ main = "setMetadata" /\ main' = "await"
    /\ listening' = TRUE
    /\ pub' = [m \in Calls |-> "called"]
    /\ UNCHANGED <<took, numSent, numReceived, doneP, deleting, serverVars,
                   netVars, faultVars>>

SetupFails ==
    /\ main \in {"getTopic", "getSub", "setMetadata"}
    /\ main' = "rejected"
    /\ UNCHANGED <<took, pub, numSent, numReceived, doneP, listening,
                   deleting, serverVars, netVars, faultVars>>

-----------------------------------------------------------------------------
(* Publishing *)

\* The request reaches the interceptor of the server, the first time or when
\* the client library repeats it because a fault struck it.
Request(m) ==
    /\ pub[m] = "called"
    /\ BeginCheck(m)
    /\ UNCHANGED <<programVars, serverVars, netVars>>

\* The handler behind the interceptor: only a live topic accepts a message,
\* and only a live subscription gets a delivery.
Handle(m) ==
    /\ pub[m] = "called" /\ check[m] = "passed"
    /\ \/ topic = "live" /\ sub = "live" /\ Service!AcceptOne(m)
       \/ ~(topic = "live" /\ sub = "live") /\ UNCHANGED state
    /\ pub' = [pub EXCEPT ![m] = IF topic = "live" THEN "stored" ELSE "rejected"]
    /\ UNCHANGED <<main, took, numSent, numReceived, doneP, listening,
                   deleting, topic, sub, netVars, faultVars>>

\* The fault is one the client library does not repeat.
Struck(m) ==
    /\ pub[m] = "called" /\ check[m] = "struck"
    /\ pub' = [pub EXCEPT ![m] = "rejected"]
    /\ UNCHANGED <<main, took, numSent, numReceived, doneP, listening,
                   deleting, serverVars, netVars, faultVars>>

\* Mutant: every response is counted, a repeated one too.
Sent_Repeated(m) ==
    /\ pub[m] = "stored"
    /\ numSent' = numSent + 1
    /\ UNCHANGED <<main, took, pub, numReceived, doneP, listening, deleting,
                   serverVars, netVars, faultVars>>

\* publishJSON resolves.
Sent(m) ==
    /\ pub[m] = "stored"
    /\ pub' = [pub EXCEPT ![m] = "sent"]
    /\ numSent' = numSent + 1
    /\ UNCHANGED <<main, took, numReceived, doneP, listening, deleting,
                   serverVars, netVars, faultVars>>

-----------------------------------------------------------------------------
(* Receiving *)

\* The server's stream hands m out, for the first time or again.
Hand(m) ==
    /\ sub = "live" /\ listening
    /\ m \notin wire /\ wire' = wire \cup {m}
    /\ Service!HandOne(m)
    /\ UNCHANGED <<programVars, topic, sub, acks, faultVars>>

\* The connection broke and the client library opened another.
LoseMessage(m) ==
    /\ m \in wire /\ wire' = wire \ {m}
    /\ UNCHANGED <<programVars, serverVars, acks, faultVars>>

LoseAck(m) ==
    /\ m \in acks /\ acks' = acks \ {m}
    /\ UNCHANGED <<programVars, serverVars, wire, faultVars>>

AllCounted(n) == n >= NumMessages

\* The "message" handler.
OnMessage(m) ==
    /\ listening /\ m \in wire
    /\ wire' = wire \ {m}
    /\ numReceived' = IF numReceived < MaxReceived THEN numReceived + 1
                                                   ELSE numReceived
    /\ acks' = acks \cup {m}
    /\ doneP' = IF doneP = "pending" /\ AllCounted(numReceived')
                THEN "resolved" ELSE doneP
    /\ UNCHANGED <<main, took, pub, numSent, listening, deleting, serverVars,
                   faultVars>>

Acknowledge(m) ==
    /\ m \in acks /\ acks' = acks \ {m}
    /\ \/ Service!AckOne(m)
       \/ state[m] # "handed" /\ UNCHANGED state
    /\ UNCHANGED <<programVars, topic, sub, wire, faultVars>>

\* Mutant: the error is only logged.
OnError_Logged ==
    /\ listening /\ listening' = FALSE
    /\ UNCHANGED <<main, took, pub, numSent, numReceived, doneP, deleting,
                   serverVars, netVars, faultVars>>

\* The "error" handler; the client library has closed the stream.
OnError ==
    /\ listening /\ listening' = FALSE
    /\ doneP' = IF doneP = "pending" THEN "rejected" ELSE doneP
    /\ UNCHANGED <<main, took, pub, numSent, numReceived, deleting, serverVars,
                   netVars, faultVars>>

-----------------------------------------------------------------------------
(* The end *)

\* Mutant: the publishes are not waited for.
Fulfilled_DoneOnly == doneP = "resolved"

Fulfilled == (\A m \in Calls : pub[m] = "sent") /\ doneP = "resolved"

\* Promise.all rejects as soon as one of its promises does.
Failed == (\E m \in Calls : pub[m] = "rejected") \/ doneP = "rejected"

\* The await ends and finally sends both deletes; deleting the subscription
\* through s also closes its stream.
Settle ==
    /\ main = "await" /\ main' = "cleanup"
    /\ Failed \/ Fulfilled
    /\ took' = Fulfilled
    /\ listening' = FALSE
    /\ deleting' = [r \in {"topic", "sub"} |-> "sent"]
    /\ UNCHANGED <<pub, numSent, numReceived, doneP, serverVars, netVars,
                   faultVars>>

DeleteSub ==
    /\ deleting["sub"] = "sent"
    /\ \/ /\ sub = "live" /\ sub' = "deleted"
          /\ deleting' = [deleting EXCEPT !["sub"] = "ok"]
       \/ /\ UNCHANGED sub
          /\ deleting' = [deleting EXCEPT !["sub"] = "failed"]
    /\ UNCHANGED <<main, took, pub, numSent, numReceived, doneP, listening,
                   topic, state, netVars, faultVars>>

DeleteTopic ==
    /\ deleting["topic"] = "sent"
    /\ \/ /\ topic = "live" /\ topic' = "deleted"
          /\ deleting' = [deleting EXCEPT !["topic"] = "ok"]
       \/ /\ UNCHANGED topic
          /\ deleting' = [deleting EXCEPT !["topic"] = "failed"]
    /\ UNCHANGED <<main, took, pub, numSent, numReceived, doneP, listening,
                   sub, state, netVars, faultVars>>

\* The other delete may still be under way when one of them has failed.
Finish ==
    /\ main = "cleanup"
    /\ \/ /\ \A r \in DOMAIN deleting : deleting[r] = "ok"
          /\ main' = "done"
       \/ /\ \E r \in DOMAIN deleting : deleting[r] = "failed"
          /\ main' = "rejected"
    /\ UNCHANGED <<took, pub, numSent, numReceived, doneP, listening, deleting,
                   serverVars, netVars, faultVars>>

-----------------------------------------------------------------------------
Injector == UNCHANGED <<programVars, serverVars, netVars>>

Setup == GetTopic \/ GetSub \/ Start \/ SetupFails
Checks(m) == CheckStep(m) /\ Injector
Prunes(m) == PruneFaults(m) /\ Injector
Publishing(m) == Request(m) \/ Handle(m) \/ Struck(m) \/ Sent(m)
Receiving(m) == Hand(m) \/ OnMessage(m) \/ Acknowledge(m)
Losing(m) == LoseMessage(m) \/ LoseAck(m)
Ending == Settle \/ DeleteSub \/ DeleteTopic \/ Finish

StressNext ==
    \/ Setup \/ OnError \/ Ending
    \/ \E d \in Faults : Add(d) /\ Injector
    \/ \E m \in Calls : \/ Checks(m) \/ Prunes(m)
                        \/ Publishing(m) \/ Receiving(m) \/ Losing(m)

\* The event loop runs whatever is ready, the server answers every request and
\* its goroutines are scheduled.  The connection may lose any message, but not
\* the same one for ever.
StressFairness ==
    /\ WF_stressVars(Setup) /\ WF_stressVars(Ending)
    /\ \A m \in Calls :
          /\ WF_stressVars(Checks(m)) /\ WF_stressVars(Prunes(m))
          /\ WF_stressVars(Publishing(m))
          /\ WF_stressVars(Hand(m)) /\ SF_stressVars(OnMessage(m))

StressSpec == StressInit /\ [][StressNext]_stressVars /\ StressFairness

-----------------------------------------------------------------------------
(* Properties *)

\* The program always ends: at-least-once delivery brings every count to
\* NumMessages however often messages and acks are lost, and an error of the
\* stream or of a publish is noticed by the one await that both lead to.
StressEnds == <>(main \in {"done", "rejected"})

\* The throughput is reported only when every publish was acknowledged by the
\* server and as many messages were received, in whatever order the publish
\* responses, the deliveries and the errors arrived.
ReportIsComplete ==
    took => /\ numSent = NumMessages /\ numReceived >= NumMessages
            /\ \A m \in Calls : state[m] # "none"
=============================================================================
