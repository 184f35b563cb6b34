---------------------------- MODULE SmokeProofs -----------------------------
(***************************************************************************)
(* The smoke program, for all times and latencies that SmokeClient assumes *)
(* and not only for those of its instance.  The invariant follows the one  *)
(* message: as long as its delivery is open it waits for the stream or is  *)
(* on the wire, in a handler or in an acknowledgement (Waiting, Carried),  *)
(* and wherever it is, the timer msgTimeout and the backoff outlast the    *)
(* rest of its way.  Urgent keeps it from staying anywhere for too long.   *)
(***************************************************************************)
EXTENDS SmokeClient, MessageBus_proofs

\* The instant t comes before the deadline x, which may lie beyond the bound.
Before(t, x) == x # None /\ (t < x \/ x = Never)

\* The program has not published yet, or it is doing so.
Unpublished == main \in SetupRequests \/ (main = "publish" /\ ~answered)
Publishing == main = "publish" /\ answered
Ending == {"deleteSub", "sleep", "deleteTopic", "done"}

\* Nothing but the program's own topic and subscription is ever created.
OwnRows ==
    /\ \A t \in TopicIds : topics[t].st # "absent" => t = SmokeTopic
    /\ \A s \in SubIds : subs[s].st # "absent" =>
          /\ s = SmokeSub /\ subs[s].topic = SmokeTopic
          /\ subs[s].filter = Attrs /\ subs[s].delay = 0
          /\ subs[s].messageTTL > 1

\* How far the subscription is when main() is at some await.
SubStage ==
    /\ main \in {"setSub", "publish", "msgsP"} => LiveSub(SmokeSub)
    /\ main = "getSub" /\ answered => LiveSub(SmokeSub)
    /\ main = "deleteSub" /\ ~answered => LiveSub(SmokeSub)
    /\ main = "deleteSub" /\ answered => subs[SmokeSub].st = "deleted"
    /\ main \in Ending \ {"deleteSub"} => subs[SmokeSub].st = "deleted"
    /\ subs[SmokeSub].st = "deleted" \/ main \in Ending => msgsP

\* The same for the message.
MessageStage ==
    /\ Unpublished => /\ DOMAIN deliveries = {} /\ ~msgsP
                      /\ wire = {} /\ handlers = {} /\ acks = {}
    /\ Publishing \/ main \in {"msgsP"} \cup Ending => DOMAIN deliveries # {}
    /\ msgsP => \A d \in DOMAIN deliveries : ~Open(d)

\* The stream is open until the error, which comes within ErrorLatency.
StreamStage ==
    /\ main \in {"publish", "msgsP", "deleteSub", "sleep", "deleteTopic"} =>
          listening \/ gotError
    /\ gotError => subs[SmokeSub].st = "deleted"
    /\ subs[SmokeSub].st = "deleted" =>
          /\ subs[SmokeSub].deletedAt <= now
          /\ listening => now <= subs[SmokeSub].deletedAt + ErrorLatency
    /\ main = "sleep" => subs[SmokeSub].deletedAt <= since
    /\ main \in {"deleteTopic", "done"} => gotError

\* Nobody is late.
OnTime ==
    /\ since <= now
    /\ main \in SetupRequests => msgTimeout = None
    /\ main = "publish" /\ ~answered =>
          now <= since + Latency /\ Before(since + 2 * Latency + 1, msgTimeout)
    /\ msgTimeout # None => msgTimeout <= After(MsgTimeout)
    /\ \A w \in wire \cup acks : now <= w.at + Latency
    /\ \A h \in handlers : now <= h.at /\ Before(h.at, msgTimeout)

\* The stream will pull d before time passes.
Waiting(d) ==
    /\ listening /\ LiveSub(SmokeSub)
    /\ deliveries[d].attempts = 0 /\ deliveries[d].notBefore = None
    /\ deliveries[d].attemptAt <= now /\ deliveries[d].expiresAt > now
    /\ Before(now + Latency, msgTimeout)

\* d is on its way to the client or back.
Carried(d) ==
    /\ deliveries[d].attempts = 1
    /\ \/ \E w \in wire :
             /\ w.d = d /\ Before(w.at + Latency, msgTimeout)
             /\ Before(w.at + 2 * Latency + MaxSleep, deliveries[d].attemptAt)
       \/ \E h \in handlers :
             h.d = d /\ Before(h.at + Latency, deliveries[d].attemptAt)
       \/ \E a \in acks :
             /\ a.d = d /\ Before(a.at + Latency, msgTimeout)
             /\ Before(a.at + Latency, deliveries[d].attemptAt)

InFlight ==
    \A d \in DOMAIN deliveries :
       /\ SubOf(d) = SmokeSub /\ deliveries[d].attempts <= 1
       /\ Open(d) => Waiting(d) \/ Carried(d)

SmokeInv ==
    /\ SmokeTypeOK /\ ReferencesResolve
    /\ OwnRows /\ SubStage /\ MessageStage /\ StreamStage /\ OnTime /\ InFlight

-----------------------------------------------------------------------------
(* Times *)

LEMMA Constants ==
    /\ MsgTimeout \in Nat /\ MaxSleep \in Nat /\ Grace \in Nat
    /\ Latency \in Nat /\ ErrorLatency \in Nat /\ Never \in Nat /\ MaxNow \in Nat
    /\ SmokeTopic \in TopicIds /\ SmokeSub \in SubIds
    /\ None \notin Nat
BY SmokeAssumption, ConstantsAssumption, NoneAssumption DEF Never

LEMMA Times ==
    ASSUME SmokeTypeOK
    PROVE  /\ now \in Nat /\ now < Never /\ since \in Nat
           /\ msgTimeout \in Nat \cup {None}
           /\ \A w \in wire \cup handlers \cup acks : w.at \in Nat
           /\ \A d \in DOMAIN deliveries :
                 /\ deliveries[d].attemptAt \in Nat
                 /\ deliveries[d].expiresAt \in Nat
                 /\ deliveries[d].attempts \in Nat
<1>1. now \in Nat /\ now < Never
  BY Constants DEF SmokeTypeOK, TypeOK, Never
<1>2. Time \subseteq Nat
  BY Constants DEF Time
<1>3. \A d \in DOMAIN deliveries : deliveries[d] \in DeliveryRow
  BY DEF SmokeTypeOK, TypeOK
<1>4. \A d \in DOMAIN deliveries : /\ deliveries[d].attemptAt \in Time
                                   /\ deliveries[d].expiresAt \in Time
                                   /\ deliveries[d].attempts \in Nat
  BY <1>3, ConstantsAssumption DEF DeliveryRow
<1>5. \A w \in wire \cup handlers \cup acks : w.at \in Time
  BY DEF SmokeTypeOK, Sendings
<1>6. since \in Time /\ msgTimeout \in Time \cup {None}
  BY DEF SmokeTypeOK
<1>7. since \in Nat /\ msgTimeout \in Nat \cup {None}
  BY <1>2, <1>6
<1>8. \A w \in wire \cup handlers \cup acks : w.at \in Nat
  BY <1>2, <1>5
<1>9. \A d \in DOMAIN deliveries : /\ deliveries[d].attemptAt \in Nat
                                   /\ deliveries[d].expiresAt \in Nat
  BY <1>2, <1>4
<1> QED BY <1>1, <1>4, <1>7, <1>8, <1>9

\* A deadline n ticks ahead is that far away, or beyond the bound.
LEMMA AfterFacts ==
    ASSUME now \in Nat, now < Never, NEW n \in Nat
    PROVE  /\ After(n) \in Nat /\ After(n) \in Time
           /\ now <= After(n) /\ After(n) <= now + n /\ After(n) <= Never
           /\ \A t \in Nat : t < now + n => Before(t, After(n))
BY Constants DEF After, Before, Time

\* A refreshed timer is no nearer than it was.
LEMMA RefreshLater ==
    ASSUME SmokeTypeOK, OnTime, NEW t \in Nat, Before(t, msgTimeout), Refresh
    PROVE  Before(t, msgTimeout)'
<1>1. msgTimeout' = After(MsgTimeout) /\ After(MsgTimeout) \in Nat
      /\ After(MsgTimeout) <= Never
  BY Times, Constants, AfterFacts DEF Refresh
<1>2. msgTimeout \in Nat /\ msgTimeout <= After(MsgTimeout)
  BY Times DEF Before, OnTime
<1> QED BY <1>1, <1>2, Constants DEF Before

\* Neither the timer nor a handler nor a message is overdue.
LEMMA BeforeNow ==
    ASSUME SmokeTypeOK, NEW x, x \in Nat \cup {None}, NEW t \in Nat, Before(t, x),
           now <= t
    PROVE  x \in Nat /\ ~(x <= now)
BY Times, Constants DEF Before

-----------------------------------------------------------------------------
(* Steps of the client: the database does not change *)

LEMMA ClientTypes ==
    ASSUME SmokeInv, UNCHANGED vars
    PROVE  TypeOK' /\ ReferencesResolve' /\ OwnRows'
<1> USE DEF SmokeInv, SmokeTypeOK
<1>1. TypeOK'
  BY DEF vars, TypeOK
<1>2. ReferencesResolve'
  BY DEF vars, ReferencesResolve, SubOf
<1>3. OwnRows'
  BY DEF vars, OwnRows
<1> QED BY <1>1, <1>2, <1>3

\* What is under way stays so if nothing is taken from it.
LEMMA InFlightKept ==
    ASSUME SmokeInv, UNCHANGED vars,
           wire \subseteq wire', handlers \subseteq handlers', acks \subseteq acks',
           (\E d \in DOMAIN deliveries : Open(d)) => UNCHANGED <<listening, msgTimeout>>
    PROVE  InFlight'
<1> USE DEF SmokeInv
<1> SUFFICES ASSUME NEW d \in DOMAIN deliveries
             PROVE  /\ SubOf(d) = SmokeSub /\ deliveries[d].attempts <= 1
                    /\ Open(d) => Waiting(d)' \/ Carried(d)'
  BY DEF InFlight, vars, SubOf, Open
<1>1. SubOf(d) = SmokeSub /\ deliveries[d].attempts <= 1
  BY DEF InFlight
<1>2. ASSUME Open(d), Waiting(d) PROVE Waiting(d)'
  BY <1>2 DEF vars, Waiting, LiveSub, Before
<1>3. ASSUME Open(d), Carried(d) PROVE Carried(d)'
  BY <1>3, Zenon DEF vars, Carried, Before
<1> QED BY <1>1, <1>2, <1>3 DEF InFlight

\* main() goes on to its next await.
LEMMA GotoOK ==
    ASSUME SmokeInv, Proceed \/ Published \/ Reject \/ StopWaiting \/ SubDeleted
                     \/ SleepOver
    PROVE  SmokeInv'
<1> USE DEF SmokeInv
<1>1. /\ UNCHANGED <<vars, msgTimeout, msgsP, gotError, listening, wire, handlers,
                     acks>>
      /\ since' = now /\ answered' = FALSE
  BY DEF Proceed, Published, Reject, StopWaiting, SubDeleted, SleepOver, Goto
<1>2. \/ main \in SetupRequests /\ main' \in SetupRequests /\ main' # "setSub"
      \/ main = "getSub" /\ answered /\ main' = "setSub"
      \/ main = "publish" /\ answered /\ main' = "msgsP"
      \/ main \in MainRequests /\ main' = "rejected"
      \/ main = "msgsP" /\ msgsP /\ main' = "deleteSub"
      \/ main = "deleteSub" /\ answered /\ main' = "sleep"
      \/ main = "sleep" /\ since + Grace <= now /\ main' = "deleteTopic"
  BY DEF Proceed, Published, Reject, StopWaiting, SubDeleted, SleepOver, Goto,
     NextRequest, SetupRequests
<1>3. main' \in Mains /\ main' # "publish" /\ main' # "done"
  BY <1>2 DEF Mains, MainRequests, SetupRequests
<1>4. TypeOK' /\ ReferencesResolve' /\ OwnRows'
  BY <1>1, ClientTypes
<1>5. SmokeTypeOK'
  BY <1>1, <1>3, <1>4, TimeType DEF SmokeTypeOK, Time, Never, Sendings
<1>6. InFlight'
  BY <1>1, InFlightKept
<1>7. SubStage'
  BY <1>1, <1>2 DEF SubStage, LiveSub, vars, Ending, SetupRequests, MainRequests
<1>8. MessageStage'
  BY <1>1, <1>2 DEF MessageStage, Unpublished, Publishing, Open, vars, Ending,
     SetupRequests, MainRequests
<1>9. StreamStage'
  <2>1. main = "sleep" /\ since + Grace <= now => gotError
    <3> SUFFICES ASSUME main = "sleep", since + Grace <= now, listening
                 PROVE  FALSE
      BY DEF StreamStage
    <3>1. subs[SmokeSub].st = "deleted"
      BY DEF SubStage, Ending
    <3>2. subs[SmokeSub].deletedAt \in Nat
      BY Constants DEF SmokeTypeOK, TypeOK, SubRow, Time
    <3> QED BY <3>1, <3>2, Times, Constants, SmokeTimesAssumption
            DEF StreamStage
  <2> QED BY <1>1, <1>2, <2>1
          DEF StreamStage, vars, SetupRequests, MainRequests, SubStage, Ending
<1>10. OnTime'
  BY <1>1, <1>2, <1>3, Times DEF OnTime, vars, After, Before, Never, SetupRequests
<1> QED BY <1>4, <1>5, <1>6, <1>7, <1>8, <1>9, <1>10

\* setMetadata is answered: the timer starts and the stream opens.
LEMMA StartOK ==
    ASSUME SmokeInv, Start
    PROVE  SmokeInv'
<1> USE DEF SmokeInv
<1>1. /\ main = "setSub" /\ main' = "publish" /\ since' = now /\ answered' = FALSE
      /\ msgTimeout' = After(MsgTimeout) /\ listening' = TRUE
      /\ UNCHANGED <<vars, msgsP, gotError, wire, handlers, acks>>
  BY DEF Start, Goto
<1>2. /\ DOMAIN deliveries = {} /\ ~msgsP /\ LiveSub(SmokeSub)
      /\ wire = {} /\ handlers = {} /\ acks = {}
  BY <1>1 DEF MessageStage, Unpublished, SubStage, SetupRequests
<1>3. TypeOK' /\ ReferencesResolve' /\ OwnRows'
  BY <1>1, ClientTypes
<1>4. /\ After(MsgTimeout) \in Time /\ After(MsgTimeout)' = After(MsgTimeout)
      /\ After(MsgTimeout) \in Nat
      /\ Before(now + 2 * Latency + 1, After(MsgTimeout))
  BY <1>1, Times, Constants, AfterFacts, SmokeTimesAssumption
     DEF vars, After, Never
<1>5. SmokeTypeOK'
  BY <1>1, <1>3, <1>4, TimeType DEF SmokeTypeOK, Time, Never, Sendings, Mains,
     MainRequests
<1>6. InFlight'
  BY <1>1, <1>2 DEF InFlight, vars
<1>7. SubStage' /\ MessageStage'
  BY <1>1, <1>2 DEF SubStage, LiveSub, vars, Ending, MessageStage, Unpublished,
     Publishing
<1>8. StreamStage'
  BY <1>1, <1>2 DEF StreamStage, LiveSub, vars
<1>9. OnTime'
  BY <1>1, <1>2, <1>4, Times, Constants DEF OnTime, vars, Before, Never,
     SetupRequests
<1> QED BY <1>3, <1>5, <1>6, <1>7, <1>8, <1>9

\* The timer does not go off while anything is under way.
LEMMA FireQuiet ==
    ASSUME SmokeInv, TimerDue
    PROVE  /\ handlers = {} /\ ~Unpublished
           /\ \A d \in DOMAIN deliveries : ~Open(d)
<1> USE DEF SmokeInv
<1>1. msgTimeout \in Nat /\ msgTimeout <= now
  BY Times DEF TimerDue
<1>2. \A t \in Nat : now <= t => ~Before(t, msgTimeout)
  BY <1>1, BeforeNow
<1>3. ASSUME NEW h \in handlers PROVE FALSE
  <2>1. h.at \in Nat /\ now <= h.at /\ Before(h.at, msgTimeout)
    BY <1>3, Times DEF OnTime
  <2> QED BY <1>2, <2>1
<1>4. ASSUME NEW d \in DOMAIN deliveries, Open(d) PROVE FALSE
  <2>1. ~Waiting(d)
    <3>1. now + Latency \in Nat /\ now <= now + Latency
      BY Times, Constants
    <3> QED BY <1>2, <3>1 DEF Waiting
  <2>2. ~Carried(d)
    <3>1. \A w \in wire \cup acks : w.at + Latency \in Nat /\ now <= w.at + Latency
      BY Times, Constants DEF OnTime
    <3> QED BY <1>2, <1>3, <3>1 DEF Carried
  <2> QED BY <1>4, <2>1, <2>2 DEF InFlight
<1>5. ASSUME main = "publish", ~answered PROVE FALSE
  <2>1. /\ since + 2 * Latency + 1 \in Nat /\ now <= since + Latency
        /\ now <= since + 2 * Latency + 1
        /\ Before(since + 2 * Latency + 1, msgTimeout)
    BY <1>5, Times, Constants DEF OnTime
  <2> QED BY <1>2, <2>1
<1> QED BY <1>1, <1>3, <1>4, <1>5, Constants DEF Unpublished, OnTime

LEMMA FireOK ==
    ASSUME SmokeInv, Fire
    PROVE  SmokeInv'
<1> USE DEF SmokeInv
<1>1. /\ msgTimeout' = None /\ msgsP' = TRUE
      /\ UNCHANGED <<vars, main, since, answered, gotError, listening, wire,
                     handlers, acks>>
  BY DEF Fire
<1>2. /\ handlers = {} /\ ~Unpublished
      /\ \A d \in DOMAIN deliveries : ~Open(d)
  BY FireQuiet DEF Fire
<1>3. TypeOK' /\ ReferencesResolve' /\ OwnRows'
  BY <1>1, ClientTypes
<1>4. SmokeTypeOK'
  BY <1>1, <1>3 DEF SmokeTypeOK, Time, Never, Sendings
<1>5. InFlight'
  BY <1>1, <1>2 DEF InFlight, vars, Open, SubOf
<1>6. SubStage' /\ MessageStage'
  BY <1>1, <1>2 DEF SubStage, LiveSub, vars, MessageStage, Unpublished,
     Publishing, Open
<1>7. StreamStage'
  BY <1>1 DEF StreamStage, vars
<1>8. OnTime'
  BY <1>1, <1>2 DEF OnTime, vars, Unpublished
<1> QED BY <1>3, <1>4, <1>5, <1>6, <1>7, <1>8

\* The stream ends, by an error or because s is closed.
LEMMA StreamEndsOK ==
    ASSUME SmokeInv, OnError \/ Close
    PROVE  SmokeInv'
<1> USE DEF SmokeInv
<1>1. /\ listening' = FALSE /\ wire' = {}
      /\ UNCHANGED <<vars, msgTimeout, msgsP, handlers, acks>>
  BY DEF OnError, Close
<1>2. /\ subs[SmokeSub].st = "deleted" /\ msgsP
      /\ \A d \in DOMAIN deliveries : ~Open(d)
  BY DEF OnError, Close, SubStage, MessageStage, Ending
<1>3. /\ main \in Mains => main' \in Mains
      /\ since' \in {since, now} /\ answered' \in {answered, FALSE}
      /\ gotError' \in BOOLEAN
  BY DEF OnError, Close, Goto, Mains, SmokeTypeOK
<1>4. TypeOK' /\ ReferencesResolve' /\ OwnRows'
  BY <1>1, ClientTypes
<1>5. SmokeTypeOK'
  BY <1>1, <1>3, <1>4, TimeType DEF SmokeTypeOK, Time, Never, Sendings
<1>6. InFlight'
  BY <1>1, <1>2 DEF InFlight, vars, Open, SubOf
<1>7. SubStage' /\ MessageStage'
  BY <1>1, <1>2 DEF OnError, Close, Goto, SubStage, LiveSub, vars, MessageStage,
     Unpublished, Publishing, Open, Ending, SetupRequests
<1>8. StreamStage'
  BY <1>1, <1>2 DEF OnError, Close, Goto, StreamStage, vars
<1>9. OnTime'
  BY <1>1, <1>2, Times
     DEF OnError, Close, Goto, OnTime, vars, After, Before, Never, SetupRequests
<1> QED BY <1>4, <1>5, <1>6, <1>7, <1>8, <1>9

\* A message reaches its handler, which refreshes the timer and falls asleep.
LEMMA OnMessageOK ==
    ASSUME SmokeInv, NEW w \in wire, OnMessage(w)
    PROVE  SmokeInv'
<1> USE DEF SmokeInv
<1>1. PICK n \in SleepTimes :
         handlers' = handlers \cup {[d |-> w.d, at |-> After(n)]}
  BY DEF OnMessage
<1> DEFINE h == [d |-> w.d, at |-> After(n)]
<1>2. /\ wire' = wire \ {w} /\ Refresh
      /\ UNCHANGED <<vars, main, since, answered, msgsP, gotError, listening, acks>>
  BY DEF OnMessage
<1>3. n \in Nat /\ n <= MaxSleep
  BY Constants DEF SleepTimes
<1>4. /\ h.at \in Nat /\ h.at \in Time /\ now <= h.at /\ h.at <= now + MaxSleep
      /\ h.d = w.d
  BY <1>3, Times, Constants, AfterFacts
<1>5. /\ msgTimeout' = After(MsgTimeout) /\ After(MsgTimeout) \in Nat
      /\ After(MsgTimeout) \in Time /\ After(MsgTimeout)' = After(MsgTimeout)
      /\ Before(h.at, After(MsgTimeout))
  BY <1>2, <1>4, Times, Constants, AfterFacts, SmokeTimesAssumption
     DEF Refresh, vars, After, Never
<1> HIDE DEF h
<1>6. ~Unpublished
  BY DEF MessageStage
<1>7. TypeOK' /\ ReferencesResolve' /\ OwnRows'
  BY <1>2, ClientTypes
<1>8. SmokeTypeOK'
  <2>1. h \in Sendings
    BY <1>4 DEF SmokeTypeOK, Sendings, h
  <2> QED BY <1>1, <1>2, <1>5, <1>7, <2>1
          DEF SmokeTypeOK, Time, Never, Sendings, h
<1>9. SubStage' /\ MessageStage'
  BY <1>2, <1>6 DEF SubStage, LiveSub, vars, MessageStage, Unpublished,
     Publishing, Open
<1>10. StreamStage'
  BY <1>2 DEF StreamStage, vars
<1>11. OnTime'
  <2>1. \A g \in handlers : Before(g.at, msgTimeout)'
    BY <1>2, Times, RefreshLater DEF OnTime
  <2>2. Before(h.at, msgTimeout')
    BY <1>5
  <2>3. \A g \in handlers' : now <= g.at /\ Before(g.at, msgTimeout)'
    BY <1>1, <1>4, <2>1, <2>2 DEF OnTime, Before, Never, h
  <2> QED BY <1>2, <1>5, <1>6, <2>3 DEF OnTime, vars, Unpublished
<1>12. ASSUME NEW d \in DOMAIN deliveries, Open(d)
       PROVE  Waiting(d)' \/ Carried(d)'
  <2>1. ASSUME Waiting(d) PROVE Waiting(d)'
    BY <1>2, <2>1, Times, Constants, RefreshLater DEF Waiting, vars, LiveSub
  <2>2. ASSUME deliveries[d].attempts = 1, NEW v \in wire, v.d = d,
               Before(v.at + Latency, msgTimeout),
               Before(v.at + 2 * Latency + MaxSleep, deliveries[d].attemptAt)
        PROVE  Carried(d)'
    <3>1. CASE v = w
      <4>1. h.d = d /\ h \in handlers'
        BY <1>1, <1>4, <2>2, <3>1 DEF h
      <4>2. h.at + Latency <= w.at + 2 * Latency + MaxSleep /\ w.at \in Nat
        BY <1>4, Times, Constants DEF OnTime
      <4>3. Before(h.at + Latency, deliveries[d].attemptAt)
        BY <1>4, <2>2, <3>1, <4>2, Times, Constants DEF Before
      <4> QED BY <1>2, <2>2, <4>1, <4>3 DEF Carried, vars, Before, Never
    <3>2. CASE v # w
      <4>1. Before(v.at + Latency, msgTimeout)' /\ v \in wire'
        BY <1>2, <2>2, <3>2, Times, Constants, RefreshLater
      <4> QED BY <1>2, <2>2, <4>1 DEF Carried, vars, Before, Never
    <3> QED BY <3>1, <3>2
  <2>3. ASSUME deliveries[d].attempts = 1, NEW g \in handlers, g.d = d,
               Before(g.at + Latency, deliveries[d].attemptAt)
        PROVE  Carried(d)'
    BY <1>1, <1>2, <2>3 DEF Carried, vars, Before, Never
  <2>4. ASSUME deliveries[d].attempts = 1, NEW a \in acks, a.d = d,
               Before(a.at + Latency, msgTimeout),
               Before(a.at + Latency, deliveries[d].attemptAt)
        PROVE  Carried(d)'
    <3>1. Before(a.at + Latency, msgTimeout)'
      BY <1>2, <2>4, Times, Constants, RefreshLater
    <3> QED BY <1>2, <2>4, <3>1 DEF Carried, vars, Before, Never
  <2> QED BY <1>12, <2>1, <2>2, <2>3, <2>4 DEF InFlight, Carried
<1>13. InFlight'
  BY <1>2, <1>12 DEF InFlight, vars, Open, SubOf
<1> QED BY <1>7, <1>8, <1>9, <1>10, <1>11, <1>13

\* A handler wakes up, sends its acknowledgement and refreshes the timer.
LEMMA AckMessageOK ==
    ASSUME SmokeInv, NEW h \in handlers, AckMessage(h)
    PROVE  SmokeInv'
<1> USE DEF SmokeInv
<1> DEFINE a == Sent(h.d)
<1>1. /\ handlers' = handlers \ {h} /\ acks' = acks \cup {a} /\ Refresh
      /\ UNCHANGED <<vars, main, since, answered, msgsP, gotError, listening, wire>>
  BY DEF AckMessage
<1>2. h.at = now
  BY Times DEF AckMessage, OnTime
<1>3. a.at = now /\ a.d = h.d
  BY DEF Sent
<1>4. /\ msgTimeout' = After(MsgTimeout) /\ After(MsgTimeout) \in Nat
      /\ After(MsgTimeout) \in Time /\ After(MsgTimeout)' = After(MsgTimeout)
      /\ Before(a.at + Latency, After(MsgTimeout))
  BY <1>1, <1>3, Times, Constants, AfterFacts, SmokeTimesAssumption
     DEF Refresh, vars, After, Never
<1>5. a \in Sendings
  BY TimeType DEF SmokeTypeOK, Sendings, Sent
<1> HIDE DEF a
<1>6. ~Unpublished
  BY DEF MessageStage
<1>7. TypeOK' /\ ReferencesResolve' /\ OwnRows'
  BY <1>1, ClientTypes
<1>8. SmokeTypeOK'
  BY <1>1, <1>4, <1>5, <1>7 DEF SmokeTypeOK, Time, Never, Sendings
<1>9. SubStage' /\ MessageStage'
  BY <1>1, <1>6 DEF SubStage, LiveSub, vars, MessageStage, Unpublished,
     Publishing, Open
<1>10. StreamStage'
  BY <1>1 DEF StreamStage, vars
<1>11. OnTime'
  <2>1. \A g \in handlers : Before(g.at, msgTimeout)'
    BY <1>1, Times, RefreshLater DEF OnTime
  <2>2. \A v \in wire \cup acks' : now <= v.at + Latency
    BY <1>1, <1>3, Times, Constants DEF OnTime
  <2> QED BY <1>1, <1>4, <1>6, <2>1, <2>2
          DEF OnTime, vars, Unpublished, Before, Never
<1>12. ASSUME NEW d \in DOMAIN deliveries, Open(d)
       PROVE  Waiting(d)' \/ Carried(d)'
  <2>1. ASSUME Waiting(d) PROVE Waiting(d)'
    BY <1>1, <2>1, Times, Constants, RefreshLater DEF Waiting, vars, LiveSub
  <2>2. ASSUME deliveries[d].attempts = 1, NEW v \in wire, v.d = d,
               Before(v.at + Latency, msgTimeout),
               Before(v.at + 2 * Latency + MaxSleep, deliveries[d].attemptAt)
        PROVE  Carried(d)'
    <3>1. Before(v.at + Latency, msgTimeout)'
      BY <1>1, <2>2, Times, Constants, RefreshLater
    <3> QED BY <1>1, <2>2, <3>1 DEF Carried, vars, Before, Never
  <2>3. ASSUME deliveries[d].attempts = 1, NEW g \in handlers, g.d = d,
               Before(g.at + Latency, deliveries[d].attemptAt)
        PROVE  Carried(d)'
    <3>1. CASE g = h
      BY <1>1, <1>2, <1>3, <1>4, <2>3, <3>1 DEF Carried, vars, Before, Never
    <3>2. CASE g # h
      BY <1>1, <2>3, <3>2 DEF Carried, vars, Before, Never
    <3> QED BY <3>1, <3>2
  <2>4. ASSUME deliveries[d].attempts = 1, NEW b \in acks, b.d = d,
               Before(b.at + Latency, msgTimeout),
               Before(b.at + Latency, deliveries[d].attemptAt)
        PROVE  Carried(d)'
    <3>1. Before(b.at + Latency, msgTimeout)'
      BY <1>1, <2>4, Times, Constants, RefreshLater
    <3> QED BY <1>1, <2>4, <3>1 DEF Carried, vars, Before, Never
  <2> QED BY <1>12, <2>1, <2>2, <2>3, <2>4 DEF InFlight, Carried
<1>13. InFlight'
  BY <1>1, <1>12 DEF InFlight, vars, Open, SubOf
<1> QED BY <1>7, <1>8, <1>9, <1>10, <1>11, <1>13

-----------------------------------------------------------------------------
(* Steps of the server *)

\* An acknowledgement arrives: its delivery is completed, whoever else is.
LEMMA AcknowledgeOK ==
    ASSUME SmokeInv, NEW a \in acks, Acknowledge(a)
    PROVE  SmokeInv'
<1> USE DEF SmokeInv
<1>1. /\ acks' = acks \ {a}
      /\ UNCHANGED <<main, since, answered, msgTimeout, msgsP, gotError, listening,
                     wire, handlers>>
      /\ UNCHANGED <<now, topics, subs, messages>>
  BY DEF Acknowledge, AckDeliveries, vars
<1>2. TypeOK' /\ ReferencesResolve'
  BY AckDeliveriesOK, ClientTypes DEF Acknowledge, SmokeTypeOK
<1>3. /\ DOMAIN deliveries' = DOMAIN deliveries
      /\ \A d \in DOMAIN deliveries :
            \/ deliveries'[d] = deliveries[d]
            \/ /\ deliveries'[d].completedAt # None
               /\ deliveries'[d].attempts = deliveries[d].attempts
  <2>1. CASE AckDeliveries
    <3>1. now # None
      BY Times, Constants
    <3>2. \A d \in DOMAIN deliveries : /\ Complete(d).completedAt = now
                                       /\ Complete(d).attempts = deliveries[d].attempts
      BY DEF SmokeTypeOK, TypeOK, DeliveryRow, Complete
    <3> QED BY <2>1, <3>1, <3>2 DEF AckDeliveries
  <2>2. CASE UNCHANGED vars
    BY <2>2 DEF vars
  <2> QED BY <2>1, <2>2 DEF Acknowledge
<1>4. ASSUME NEW d \in DOMAIN deliveries, Open(d)'
      PROVE  deliveries'[d] = deliveries[d] /\ Open(d)
  BY <1>3, <1>4 DEF Open
<1>5. OwnRows'
  BY <1>1 DEF OwnRows
<1>6. SmokeTypeOK'
  BY <1>1, <1>2 DEF SmokeTypeOK, Time, Never, Sendings
<1>7. ~Unpublished
  BY DEF MessageStage
<1>8. SubStage' /\ StreamStage'
  BY <1>1 DEF SubStage, LiveSub, StreamStage
<1>9. MessageStage'
  BY <1>1, <1>3, <1>4, <1>7 DEF MessageStage, Unpublished, Publishing
<1>10. OnTime'
  BY <1>1 DEF OnTime, After, Before, Never
<1>11. ASSUME NEW d \in DOMAIN deliveries, Open(d)'
       PROVE  Waiting(d)' \/ Carried(d)'
  <2>1. ASSUME Waiting(d) PROVE Waiting(d)'
    BY <1>1, <1>4, <1>11, <2>1 DEF Waiting, LiveSub, Before, Never
  <2>2. ASSUME Carried(d), a.d # d PROVE Carried(d)'
    BY <1>1, <1>4, <1>11, <2>2 DEF Carried, Before, Never
  <2>3. ASSUME Carried(d) PROVE a.d # d
    <3>1. d \in KnownOpen
      BY <1>4, <1>11, <2>3 DEF KnownOpen, Carried, Handed
    <3> QED BY <1>11, <3>1 DEF Acknowledge, Open
  <2> QED BY <1>4, <1>11, <2>1, <2>2, <2>3 DEF InFlight
<1>12. InFlight'
  BY <1>3, <1>11 DEF InFlight, SubOf
<1> QED BY <1>2, <1>5, <1>6, <1>8, <1>9, <1>10, <1>12

\* What is under way is not due: it is answered before its backoff is over.
LEMMA DueIsWaiting ==
    ASSUME SmokeInv, NEW d \in DOMAIN deliveries, Open(d),
           deliveries[d].attemptAt <= now
    PROVE  Waiting(d)
<1> USE DEF SmokeInv
<1>1. \A t \in Nat : now <= t => ~Before(t, deliveries[d].attemptAt)
  BY Times, BeforeNow
<1>2. \A w \in wire : /\ w.at + 2 * Latency + MaxSleep \in Nat
                      /\ now <= w.at + 2 * Latency + MaxSleep
  BY Times, Constants DEF OnTime
<1>3. \A h \in handlers : h.at + Latency \in Nat /\ now <= h.at + Latency
  BY Times, Constants DEF OnTime
<1>4. \A a \in acks : a.at + Latency \in Nat /\ now <= a.at + Latency
  BY Times, Constants DEF OnTime
<1>5. ~Carried(d)
  BY <1>1, <1>2, <1>3, <1>4 DEF Carried
<1> QED BY <1>5 DEF InFlight

\* A pull takes deliveries that waited, for the first time.
LEMMA StreamTakes ==
    ASSUME SmokeInv, GetSubscriptionMessages(SmokeSub)
    PROVE  \E T \in SUBSET DOMAIN deliveries :
              /\ \A d \in T : /\ Open(d) /\ Waiting(d)
                              /\ deliveries[d].attempts < MaxAttempts
              /\ deliveries' = [d \in DOMAIN deliveries |->
                                  IF d \in T THEN Attempt(d) ELSE deliveries[d]]
<1> USE DEF SmokeInv
<1>1. PICK q \in Batches({d \in DeliveriesOf(SmokeSub) : Deliverable(d)}) :
         LET out == {d \in Range(q) : ~Exhausted(d)} IN
         /\ \A d \in out : deliveries[d].attempts < MaxAttempts
         /\ Process(q, [d \in out |-> Attempt(d)], out)
  BY DEF GetSubscriptionMessages
<1>2. Range(q) \subseteq {d \in DeliveriesOf(SmokeSub) : Deliverable(d)}
  BY BatchRange
<1>3. ASSUME NEW d \in Range(q)
      PROVE  d \in DOMAIN deliveries /\ Open(d) /\ Waiting(d) /\ ~Exhausted(d)
  <2>1. d \in DOMAIN deliveries /\ Open(d) /\ deliveries[d].attemptAt <= now
    BY <1>2, <1>3 DEF DeliveriesOf, Deliverable
  <2>2. Waiting(d)
    BY <2>1, DueIsWaiting
  <2>3. SubOf(d) \in SubIds /\ subs[SubOf(d)].max \in Nat
    BY <2>1 DEF SmokeTypeOK, TypeOK, DeliveryIds, SubOf, SubRow
  <2> QED BY <2>1, <2>2, <2>3 DEF Waiting, Exhausted, HasFullDeadLetterConfig
<1> DEFINE upd == [d \in Range(q) |-> Attempt(d)]
<1>4. /\ \A d \in Range(q) : deliveries[d].attempts < MaxAttempts
      /\ Fanout(messages, SourcesOf(q), DeadLettersTo(q), Processed(q, upd))
  <2>1. {d \in Range(q) : ~Exhausted(d)} = Range(q)
    BY <1>3
  <2> QED BY <1>1, <2>1 DEF Process
<1>5. NewIds(DeadLettersTo(q)) = {}
  <2>1. \A i \in DOMAIN q : q[i] \in Range(q)
    BY DEF Range
  <2>2. \A i \in DOMAIN DeadLettersTo(q) : DeadLettersTo(q)[i] = {}
    BY <1>3, <2>1 DEF DeadLettersTo
  <2> HIDE DEF upd
  <2> QED BY <2>2 DEF NewIds
<1>6. deliveries' = [d \in DOMAIN deliveries |->
                       IF d \in Range(q) THEN Attempt(d) ELSE deliveries[d]]
  <2>1. \A d \in DOMAIN Processed(q, upd) :
           Processed(q, upd)[d] = IF d \in Range(q) THEN Attempt(d)
                                                    ELSE deliveries[d]
    BY <1>3 DEF Processed
  <2>2. DOMAIN Processed(q, upd) = DOMAIN deliveries
    BY DEF Processed
  <2> HIDE DEF upd
  <2>3. deliveries' = [d \in DOMAIN Processed(q, upd) |-> Processed(q, upd)[d]]
    BY <1>4, <1>5 DEF Fanout
  <2> QED BY <2>1, <2>2, <2>3
<1> QED BY <1>3, <1>4, <1>6

\* The stream pulls: what waited is now on the wire.
LEMMA StreamOK ==
    ASSUME SmokeInv, Stream
    PROVE  SmokeInv'
<1> USE DEF SmokeInv
<1>1. /\ wire' = wire \cup {Sent(d) : d \in {e \in DOMAIN deliveries : HandedNow(e)}}
      /\ UNCHANGED <<main, since, answered, msgTimeout, msgsP, gotError, listening,
                     handlers, acks>>
      /\ UNCHANGED <<now, topics, messages>> /\ RefreshExpiry(SmokeSub)
      /\ GetSubscriptionMessages(SmokeSub) /\ LiveSub(SmokeSub)
  BY DEF Stream, GetSubscriptionMessages
<1>2. PICK T \in SUBSET DOMAIN deliveries :
         /\ \A d \in T : /\ Open(d) /\ Waiting(d)
                         /\ deliveries[d].attempts < MaxAttempts
         /\ deliveries' = [d \in DOMAIN deliveries |->
                             IF d \in T THEN Attempt(d) ELSE deliveries[d]]
  BY <1>1, StreamTakes
<1>3. TypeOK' /\ ReferencesResolve'
  BY <1>1, Constants, GetSubscriptionMessagesOK DEF SmokeTypeOK
<1>4. \A s \in SubIds :
         /\ subs'[s].st = subs[s].st /\ subs'[s].topic = subs[s].topic
         /\ subs'[s].filter = subs[s].filter /\ subs'[s].delay = subs[s].delay
         /\ subs'[s].messageTTL = subs[s].messageTTL
         /\ subs'[s].deletedAt = subs[s].deletedAt
  BY <1>1, Constants DEF RefreshExpiry, SmokeTypeOK, TypeOK, SubRow
<1>5. OwnRows'
  BY <1>1, <1>4 DEF OwnRows
<1>6. ASSUME NEW d \in T
      PROVE  /\ deliveries'[d].attempts = 1
             /\ Before(now + 2 * Latency + MaxSleep, deliveries'[d].attemptAt)
             /\ deliveries'[d].completedAt = deliveries[d].completedAt
             /\ Sent(d) \in wire'
  <2>1. deliveries[d] \in DeliveryRow /\ deliveries[d].attempts = 0 /\ d \in DeliveryIds
    BY <1>2, <1>6 DEF SmokeTypeOK, TypeOK, Waiting
  <2>2. 1 \in 0 .. MaxAttempts /\ BackoffFor(d, 1) \in Nat
    BY <1>2, <1>6, <2>1, BackoffType, ConstantsAssumption DEF SmokeTypeOK
  <2>3. deliveries'[d] = Attempt(d)
    BY <1>2, <1>6
  <2>4. /\ Attempt(d).attempts = 1 /\ Attempt(d).attemptAt = After(BackoffFor(d, 1))
        /\ Attempt(d).completedAt = deliveries[d].completedAt
    BY <2>1 DEF Attempt, DeliveryRow
  <2>5. Before(now + 2 * Latency + MaxSleep, After(BackoffFor(d, 1)))
    <3>1. SubOf(d) \in SubIds
      BY <2>1 DEF DeliveryIds, SubOf
    <3>2. subs[SubOf(d)].retry \in DOMAIN NextDelay
      BY <3>1 DEF SmokeTypeOK, TypeOK, SubRow
    <3>3. 2 * Latency + MaxSleep < BackoffFor(d, 1)
      BY <3>2, SmokeTimesAssumption DEF BackoffFor
    <3> QED BY <2>2, <3>3, Times, Constants, AfterFacts
  <2>6. HandedNow(d)
    BY <1>2, <1>6, <2>1, <2>3, <2>4 DEF HandedNow
  <2> QED BY <1>1, <1>6, <2>3, <2>4, <2>5, <2>6
<1>7. \A d \in DOMAIN deliveries : d \notin T => deliveries'[d] = deliveries[d]
  BY <1>2
<1>8. DOMAIN deliveries' = DOMAIN deliveries
  BY <1>2
<1>9. \A d \in DOMAIN deliveries : Open(d)' <=> Open(d)
  BY <1>6, <1>7 DEF Open
<1>10. DOMAIN deliveries # {}
  <2>1. CASE T = {}
    <3>1. PICK q \in Batches({d \in DeliveriesOf(SmokeSub) : Deliverable(d)}) : TRUE
      BY <1>1 DEF GetSubscriptionMessages
    <3>2. PICK n \in 1 .. MaxBatch :
             q \in [1 .. n -> {d \in DeliveriesOf(SmokeSub) : Deliverable(d)}]
      BY <3>1 DEF Batches
    <3>3. q[1] \in DeliveriesOf(SmokeSub)
      BY <3>2, ConstantsAssumption
    <3> QED BY <3>3 DEF DeliveriesOf
  <2>2. CASE T # {}
    BY <1>2, <2>2
  <2> QED BY <2>1, <2>2
<1>11. ~Unpublished
  BY <1>10 DEF MessageStage
<1>12. SmokeTypeOK'
  <2>1. \A d \in DOMAIN deliveries : Sent(d) \in Sendings
    BY TimeType DEF SmokeTypeOK, TypeOK, Sendings, Sent
  <2> QED BY <1>1, <1>3, <2>1 DEF SmokeTypeOK, Time, Never, Sendings
<1>13. SubStage' /\ StreamStage'
  BY <1>1, <1>4, Constants DEF SubStage, LiveSub, StreamStage
<1>14. MessageStage'
  BY <1>1, <1>8, <1>9, <1>11 DEF MessageStage, Unpublished, Publishing
<1>15. OnTime'
  <2>1. \A d : Sent(d).at = now
    BY DEF Sent
  <2>2. \A w \in wire' \cup acks : now <= w.at + Latency
    BY <1>1, <2>1, Times, Constants DEF OnTime
  <2> QED BY <1>1, <2>2 DEF OnTime, After, Before, Never
<1>16. ASSUME NEW d \in DOMAIN deliveries, Open(d)
       PROVE  Waiting(d)' \/ Carried(d)'
  <2>1. CASE d \in T
    <3>1. Sent(d).d = d /\ Sent(d).at = now
      BY DEF Sent
    <3>2. Before(now + Latency, msgTimeout)
      BY <1>2, <2>1 DEF Waiting
    <3> QED BY <1>1, <1>6, <2>1, <3>1, <3>2 DEF Carried, Before, Never
  <2>2. CASE d \notin T
    <3>1. ASSUME Waiting(d) PROVE Waiting(d)'
      BY <1>1, <1>4, <1>7, <2>2, <3>1, Constants DEF Waiting, LiveSub, Before, Never
    <3>2. ASSUME Carried(d) PROVE Carried(d)'
      BY <1>1, <1>7, <2>2, <3>2 DEF Carried, Before, Never
    <3> QED BY <1>16, <3>1, <3>2 DEF InFlight
  <2> QED BY <2>1, <2>2
<1>17. InFlight'
  BY <1>6, <1>7, <1>8, <1>9, <1>16 DEF InFlight, SubOf
<1> QED BY <1>3, <1>5, <1>12, <1>13, <1>14, <1>15, <1>17

-----------------------------------------------------------------------------
\* Time passes only when nothing is due, so nothing waits for the stream then.
LEMMA SmokeTickOK ==
    ASSUME SmokeInv, SmokeTick
    PROVE  SmokeInv'
<1> USE DEF SmokeInv
<1>1. /\ ~Urgent /\ now' = now + 1
      /\ UNCHANGED <<topics, subs, messages, deliveries>> /\ UNCHANGED smokeVars
  BY DEF SmokeTick, Tick
<1>2. TypeOK' /\ ReferencesResolve'
  BY TickOK DEF SmokeTick, SmokeTypeOK
<1>3. OwnRows' /\ SubStage' /\ MessageStage'
  BY <1>1 DEF OwnRows, SubStage, LiveSub, MessageStage, Unpublished, Publishing,
     Open, smokeVars
<1>4. SmokeTypeOK'
  BY <1>1, <1>2 DEF SmokeTypeOK, Time, Never, Sendings, smokeVars
<1>5. StreamStage'
  <2>1. subs[SmokeSub].deletedAt \in Nat
    BY Constants DEF SmokeTypeOK, TypeOK, SubRow, Time
  <2>2. listening /\ subs[SmokeSub].st = "deleted"
           => now + 1 <= subs[SmokeSub].deletedAt + ErrorLatency
    BY <1>1, <2>1, Times, Constants DEF Urgent
  <2> QED BY <1>1, <2>1, <2>2, Times DEF StreamStage, smokeVars
<1>6. OnTime'
  <2>1. main = "publish" => now + 1 <= since + Latency
    BY <1>1, Times, Constants DEF Urgent, Late, MainRequests
  <2>2. \A w \in wire \cup acks : now + 1 <= w.at + Latency
    BY <1>1, Times, Constants DEF Urgent, Late
  <2>3. \A h \in handlers : now + 1 <= h.at
    BY <1>1, Times DEF Urgent
  <2>4. After(MsgTimeout) <= After(MsgTimeout)' /\ After(MsgTimeout) \in Nat
        /\ After(MsgTimeout)' \in Nat
    BY <1>1, Times, Constants DEF After, Never
  <2> QED BY <1>1, <2>1, <2>2, <2>3, <2>4, Times
          DEF OnTime, smokeVars, Before, Never
<1>7. ASSUME NEW d \in DOMAIN deliveries, Open(d)
      PROVE  Carried(d)'
  <2>1. ~Waiting(d)
    <3> SUFFICES ASSUME Waiting(d) PROVE FALSE
      OBVIOUS
    <3>1. Deliverable(d)
      BY <1>7, Times DEF Waiting, Deliverable, Expired, Blocked
    <3> QED BY <1>1, <3>1 DEF Urgent, Waiting
  <2>2. Carried(d)
    BY <1>7, <2>1 DEF InFlight
  <2> QED BY <1>1, <2>2 DEF Carried, smokeVars, Before, Never
<1>8. InFlight'
  BY <1>1, <1>7 DEF InFlight, SubOf, Open
<1> QED BY <1>2, <1>3, <1>4, <1>5, <1>6, <1>8

-----------------------------------------------------------------------------
(* The requests *)

\* Requests other than the publish and the delete of the subscription.
LEMMA QuietTransaction ==
    ASSUME SmokeInv, Transaction, main \notin {"publish", "deleteSub"}
    PROVE  /\ TypeOK' /\ ReferencesResolve' /\ OwnRows'
           /\ UNCHANGED <<now, deliveries>>
           /\ LiveSub(SmokeSub) \/ main = "getSub" => LiveSub(SmokeSub)'
           /\ subs[SmokeSub].st = "deleted" => subs'[SmokeSub] = subs[SmokeSub]
           /\ subs'[SmokeSub].st = "deleted" => subs[SmokeSub].st = "deleted"
<1> USE Constants DEF SmokeInv, SmokeTypeOK
<1>1. CASE UNCHANGED vars /\ (main = "getSub" => LiveSub(SmokeSub))
  BY <1>1, ClientTypes DEF vars, LiveSub
<1>2. CASE CreateTopic(SmokeTopic) /\ main # "getSub"
  <2>1. UNCHANGED <<now, deliveries, subs>>
    BY <1>2 DEF CreateTopic
  <2>2. OwnRows'
    BY <1>2, <2>1 DEF CreateTopic, OwnRows, TypeOK
  <2> QED BY <1>2, <2>1, <2>2, CreateTopicOK DEF LiveSub
<1>3. CASE DeleteTopic(SmokeTopic) /\ main # "getSub"
  <2>1. UNCHANGED <<now, deliveries, subs>>
    BY <1>3 DEF DeleteTopic
  <2>2. OwnRows'
    BY <1>3, <2>1 DEF DeleteTopic, OwnRows, TypeOK
  <2> QED BY <1>3, <2>1, <2>2, DeleteTopicOK DEF LiveSub
<1>4. CASE CreateSubscription(SmokeSub)
  <2> DEFINE r == SubRequest[SmokeSub]
  <2>1. PICK t \in LiveTopicNamed(r.topic), dlt \in DeadLetterTopicFor(r) :
           subs' = [subs EXCEPT ![SmokeSub] =
                     [st |-> "live", deletedAt |-> 0,
                      expiresAt |-> After(r.ttl), topic |-> t, ttl |-> r.ttl,
                      messageTTL |-> r.messageTTL, ordered |-> r.ordered,
                      retry |-> r.retry, filter |-> r.filter, dlTopic |-> dlt,
                      max |-> r.max, delay |-> 0]]
    BY <1>4 DEF CreateSubscription
  <2>2. t = SmokeTopic
    BY DEF LiveTopicNamed, LiveTopic, OwnRows
  <2>3. UNCHANGED <<now, topics, deliveries>> /\ subs[SmokeSub].st = "absent"
    BY <1>4 DEF CreateSubscription
  <2>4. /\ subs'[SmokeSub].st = "live" /\ subs'[SmokeSub].topic = t
        /\ subs'[SmokeSub].filter = r.filter /\ subs'[SmokeSub].delay = 0
        /\ subs'[SmokeSub].messageTTL = r.messageTTL
        /\ \A s \in SubIds : s # SmokeSub => subs'[s] = subs[s]
    BY <2>1 DEF TypeOK
  <2>5. OwnRows'
    BY <2>2, <2>3, <2>4, SmokeSubAssumption DEF OwnRows
  <2> QED BY <1>4, <2>3, <2>4, <2>5, CreateSubscriptionOK DEF LiveSub
<1>5. ASSUME NEW r \in SubRequests,
             UpdateSubscription(SmokeSub, r, {"ordered", "retry"})
      PROVE  /\ TypeOK' /\ ReferencesResolve' /\ OwnRows'
             /\ UNCHANGED <<now, deliveries>>
             /\ LiveSub(SmokeSub) /\ LiveSub(SmokeSub)'
  <2>1. PICK dlt : subs' = [subs EXCEPT ![SmokeSub] =
                              Updated(subs[SmokeSub], r, {"ordered", "retry"}, dlt)]
    BY <1>5 DEF UpdateSubscription
  <2>2. UNCHANGED <<now, topics, deliveries>> /\ LiveSub(SmokeSub)
    BY <1>5 DEF UpdateSubscription
  <2>3. subs[SmokeSub] \in SubRow
    BY DEF TypeOK
  <2>4. /\ subs'[SmokeSub].st = subs[SmokeSub].st
        /\ subs'[SmokeSub].topic = subs[SmokeSub].topic
        /\ subs'[SmokeSub].filter = subs[SmokeSub].filter
        /\ subs'[SmokeSub].delay = subs[SmokeSub].delay
        /\ subs'[SmokeSub].messageTTL = subs[SmokeSub].messageTTL
        /\ \A s \in SubIds : s # SmokeSub => subs'[s] = subs[s]
    BY <2>1, <2>3 DEF TypeOK, SubRow, Updated
  <2>5. OwnRows'
    BY <2>2, <2>4 DEF OwnRows
  <2> QED BY <1>5, <2>2, <2>4, <2>5, UpdateSubscriptionOK DEF LiveSub
<1> QED BY <1>1, <1>2, <1>3, <1>4, <1>5 DEF Transaction, EnsureTopic, EnsureSub,
        LiveSub

\* The publish finds the program's subscription and nothing before it.
LEMMA PublishReaches ==
    ASSUME SmokeInv, main = "publish", ~answered, Publish
    PROVE  /\ now' = now + 1 /\ UNCHANGED <<topics, subs>>
           /\ DOMAIN deliveries' # {}
           /\ \A d \in DOMAIN deliveries' :
                 /\ SubOf(d) = SmokeSub
                 /\ deliveries'[d].attempts = 0 /\ deliveries'[d].notBefore = None
                 /\ deliveries'[d].attemptAt <= now'
                 /\ deliveries'[d].expiresAt > now'
<1> USE Constants DEF SmokeInv
<1>1. PICK t \in TopicIds, k \in Keys, a \in Attrs : PublishMessage(t, k, a)
  BY DEF Publish
<1> DEFINE m == [topic |-> t, key |-> k, attrs |-> a, publishedAt |-> now]
           to == [i \in {1} |-> Subscribers(t, m)]
           src == [i \in {1} |-> nextId + 1]
<1>2. /\ now' = now + 1 /\ UNCHANGED <<topics, subs>> /\ LiveTopic(t)
      /\ now < MaxNow /\ Fanout(messages', src, to, deliveries)
  BY <1>1 DEF PublishMessage
<1>3. DOMAIN deliveries = {} /\ LiveSub(SmokeSub)
  BY DEF MessageStage, Unpublished, SubStage
<1>4. t = SmokeTopic
  BY <1>2 DEF LiveTopic, OwnRows
<1>5. Subscribers(t, m) = {SmokeSub}
  BY <1>3, <1>4 DEF Subscribers, OwnRows, LiveSub
<1>6. nextId \in Nat
  BY DEF SmokeTypeOK, TypeOK
<1>7. NewIds(to) = {<<nextId + 1, SmokeSub>>}
  <2>1. to = [i \in {1} |-> {SmokeSub}]
    BY <1>5
  <2>2. MaxBatch \in Nat \ {0}
    BY ConstantsAssumption
  <2> HIDE DEF to
  <2>3. ASSUME NEW d \in NewIds(to) PROVE d = <<nextId + 1, SmokeSub>>
    <3>1. /\ d[1] \in Nat /\ d[1] - nextId \in DOMAIN to /\ d = <<d[1], d[2]>>
          /\ d[2] \in to[d[1] - nextId]
      BY <2>3, NewIdsType DEF SmokeTypeOK
    <3>2. d[1] = nextId + 1
      BY <1>6, <2>1, <3>1
    <3>3. d[2] = SmokeSub
      BY <2>1, <3>1
    <3> QED BY <3>1, <3>2, <3>3
  <2>4. <<nextId + 1, SmokeSub>> \in NewIds(to)
    BY <1>6, <2>1, <2>2 DEF NewIds
  <2> QED BY <2>3, <2>4
<1>8. PICK nb \in NotBefores(messages', src, to) :
         deliveries' = [d \in DOMAIN deliveries \cup NewIds(to) |->
                          IF d \in NewIds(to)
                          THEN NewDelivery(src[d[1] - nextId], d[2], nb[d])
                          ELSE deliveries[d]]
  BY <1>2 DEF Fanout
<1> DEFINE n == <<nextId + 1, SmokeSub>>
<1> HIDE DEF to, src
<1>9. Preceding(messages', src, to, n) = {}
  BY <1>3, <1>6, <1>7 DEF Preceding, DeliveriesOf
<1>10. nb[n] = None
  BY <1>7, <1>9 DEF NotBefores
<1>11. DOMAIN deliveries' = {n} /\ SubOf(n) = SmokeSub
  BY <1>3, <1>7, <1>8 DEF SubOf
<1>12. \E mm : deliveries'[n] = NewDelivery(mm, SmokeSub, None)
  BY <1>7, <1>8, <1>10
<1>13. subs[SmokeSub].delay = 0 /\ subs[SmokeSub].messageTTL > 1
       /\ subs[SmokeSub].messageTTL \in Nat
  BY <1>3 DEF OwnRows, LiveSub, SmokeTypeOK, TypeOK, SubRow
<1>14. After(0) = now /\ After(subs[SmokeSub].messageTTL) > now + 1
  BY <1>2, <1>13, Times DEF After, Never
<1>15. /\ deliveries'[n].attempts = 0 /\ deliveries'[n].notBefore = None
       /\ deliveries'[n].attemptAt <= now' /\ deliveries'[n].expiresAt > now'
  BY <1>2, <1>12, <1>13, <1>14, Times DEF NewDelivery
<1> QED BY <1>2, <1>11, <1>15

\* The server handles the publish: the message waits for the stream, and the
\* timer leaves it the time for both ways.
LEMMA ServePublishOK ==
    ASSUME SmokeInv, Serve, main = "publish"
    PROVE  SmokeInv'
<1> USE DEF SmokeInv
<1>1. /\ ~answered /\ answered' = TRUE /\ Publish
      /\ UNCHANGED <<main, since, msgTimeout, msgsP, gotError, listening, wire,
                     handlers, acks>>
  BY DEF Serve, Transaction
<1>2. /\ now' = now + 1 /\ UNCHANGED <<topics, subs>>
      /\ DOMAIN deliveries' # {}
      /\ \A d \in DOMAIN deliveries' :
            /\ SubOf(d) = SmokeSub
            /\ deliveries'[d].attempts = 0 /\ deliveries'[d].notBefore = None
            /\ deliveries'[d].attemptAt <= now' /\ deliveries'[d].expiresAt > now'
  BY <1>1, PublishReaches
<1>3. TypeOK' /\ ReferencesResolve'
  BY <1>1, PublishMessageOK DEF Publish, SmokeTypeOK
<1>4. SmokeTypeOK' /\ OwnRows'
  BY <1>1, <1>2, <1>3 DEF SmokeTypeOK, Time, Never, Sendings, OwnRows
<1>5. /\ LiveSub(SmokeSub) /\ ~msgsP /\ listening /\ ~gotError
      /\ wire = {} /\ handlers = {} /\ acks = {}
  BY <1>1 DEF SubStage, MessageStage, Unpublished, StreamStage, LiveSub
<1>6. SubStage' /\ MessageStage' /\ StreamStage'
  BY <1>1, <1>2, <1>5 DEF SubStage, LiveSub, MessageStage, Unpublished, Publishing,
     StreamStage, Ending, SetupRequests
<1>7. OnTime'
  <2>1. After(MsgTimeout) <= After(MsgTimeout)' /\ After(MsgTimeout) \in Nat
        /\ After(MsgTimeout)' \in Nat
    BY <1>2, Times, Constants DEF After, Never
  <2> QED BY <1>1, <1>2, <1>5, <2>1, Times DEF OnTime, SetupRequests
<1>8. ASSUME NEW d \in DOMAIN deliveries' PROVE Waiting(d)'
  <2>1. Before(since + 2 * Latency + 1, msgTimeout) /\ now <= since + Latency
    BY <1>1 DEF OnTime
  <2>2. Before(now' + Latency, msgTimeout)
    BY <1>2, <2>1, Times, Constants DEF Before
  <2> QED BY <1>1, <1>2, <1>5, <1>8, <2>2 DEF Waiting, LiveSub, Before, Never
<1>9. InFlight'
  BY <1>2, <1>8 DEF InFlight, SubOf
<1> QED BY <1>3, <1>4, <1>6, <1>7, <1>9

LEMMA ServeOK ==
    ASSUME SmokeInv, Serve
    PROVE  SmokeInv'
<1> USE DEF SmokeInv
<1>1. /\ ~answered /\ answered' = TRUE /\ Transaction
      /\ UNCHANGED <<main, since, msgTimeout, msgsP, gotError, listening, wire,
                     handlers, acks>>
  BY DEF Serve
<1>2. CASE main = "publish"
  BY <1>2, ServePublishOK
<1>3. CASE main = "deleteSub"
  <2>1. DeleteSubscription(SmokeSub)
    BY <1>1, <1>3 DEF Transaction
  <2>2. /\ UNCHANGED <<now, topics, deliveries>> /\ LiveSub(SmokeSub)
        /\ MarkDeleted({SmokeSub})
    BY <2>1 DEF DeleteSubscription
  <2>3. TypeOK' /\ ReferencesResolve'
    BY <2>1, Constants, MarkDeletedOK DEF DeleteSubscription, SmokeTypeOK
  <2>4. /\ subs'[SmokeSub].st = "deleted" /\ subs'[SmokeSub].deletedAt = now
        /\ subs'[SmokeSub].topic = subs[SmokeSub].topic
        /\ subs'[SmokeSub].filter = subs[SmokeSub].filter
        /\ subs'[SmokeSub].delay = subs[SmokeSub].delay
        /\ subs'[SmokeSub].messageTTL = subs[SmokeSub].messageTTL
        /\ \A s \in SubIds : s # SmokeSub => subs'[s] = subs[s]
    BY <2>2, Constants DEF MarkDeleted, SmokeTypeOK, TypeOK, SubRow
  <2>5. msgsP /\ \A d \in DOMAIN deliveries : ~Open(d)
    BY <1>3 DEF SubStage, Ending, MessageStage
  <2>6. SmokeTypeOK' /\ OwnRows'
    <3>1. OwnRows'
      BY <2>2, <2>4 DEF OwnRows, LiveSub
    <3> QED BY <1>1, <2>3, <3>1 DEF SmokeTypeOK, Time, Never, Sendings
  <2>7. SubStage' /\ MessageStage'
    BY <1>1, <1>3, <2>2, <2>4, <2>5 DEF SubStage, MessageStage, Ending,
       Unpublished, Publishing, Open, SetupRequests
  <2>8. StreamStage'
    BY <1>1, <1>3, <2>2, <2>4, Times, Constants DEF StreamStage, LiveSub
  <2>9. OnTime'
    BY <1>1, <1>3, <2>2 DEF OnTime, After, Before, Never, SetupRequests
  <2>10. InFlight'
    BY <2>2, <2>5 DEF InFlight, Open, SubOf
  <2> QED BY <2>3, <2>6, <2>7, <2>8, <2>9, <2>10
<1>4. CASE main \notin {"publish", "deleteSub"}
  <2>1. /\ TypeOK' /\ ReferencesResolve' /\ OwnRows'
        /\ UNCHANGED <<now, deliveries>>
        /\ LiveSub(SmokeSub) \/ main = "getSub" => LiveSub(SmokeSub)'
        /\ subs[SmokeSub].st = "deleted" => subs'[SmokeSub] = subs[SmokeSub]
        /\ subs'[SmokeSub].st = "deleted" => subs[SmokeSub].st = "deleted"
    BY <1>1, <1>4, QuietTransaction
  <2>2. SmokeTypeOK'
    BY <1>1, <2>1 DEF SmokeTypeOK, Time, Never, Sendings
  <2>3. SubStage'
    BY <1>1, <1>4, <2>1 DEF SubStage, LiveSub, Ending
  <2>4. MessageStage'
    BY <1>1, <1>4, <2>1 DEF MessageStage, Unpublished, Publishing, Open
  <2>5. StreamStage'
    BY <1>1, <1>4, <2>1 DEF StreamStage, SubStage, Ending, Serve
  <2>6. OnTime'
    BY <1>1, <1>4, <2>1 DEF OnTime, After, Before, Never
  <2>7. InFlight'
    <3>1. ASSUME NEW d \in DOMAIN deliveries, Open(d)
          PROVE  Waiting(d)' \/ Carried(d)'
      <4>1. ASSUME Waiting(d) PROVE Waiting(d)'
        BY <1>1, <2>1, <4>1 DEF Waiting, Before, Never
      <4>2. ASSUME Carried(d) PROVE Carried(d)'
        BY <1>1, <2>1, <4>2 DEF Carried, Before, Never
      <4> QED BY <3>1, <4>1, <4>2 DEF InFlight
    <3> QED BY <2>1, <3>1 DEF InFlight, Open, SubOf
  <2> QED BY <2>1, <2>2, <2>3, <2>4, <2>5, <2>6, <2>7
<1> QED BY <1>2, <1>3, <1>4

-----------------------------------------------------------------------------
(* The theorems *)

LEMMA SmokeInvInit == ASSUME SmokeInit PROVE SmokeInv
<1> USE Constants
<1>1. /\ Init /\ main = "list" /\ since = 0 /\ answered = FALSE
      /\ msgTimeout = None /\ msgsP = FALSE
      /\ gotError = FALSE /\ listening = FALSE
      /\ wire = {} /\ handlers = {} /\ acks = {}
  BY DEF SmokeInit
<1>2. TypeOK /\ ReferencesResolve
  BY <1>1, InitOK
<1>3. /\ now = 0 /\ DOMAIN deliveries = {} /\ \A t \in TopicIds : topics[t] = NoTopic
      /\ \A s \in SubIds : subs[s] = NoSub
  BY <1>1 DEF Init
<1>4. SmokeTypeOK
  <2>1. 0 \in Time
    BY DEF Time
  <2>2. "list" \in Mains
    BY DEF Mains, MainRequests, SetupRequests
  <2>3. main \in Mains /\ since \in Time /\ msgTimeout \in Time \cup {None}
    BY <1>1, <2>1, <2>2
  <2>4. wire \subseteq Sendings /\ handlers \subseteq Sendings /\ acks \subseteq Sendings
    BY <1>1
  <2>5. /\ answered \in BOOLEAN /\ msgsP \in BOOLEAN
        /\ gotError \in BOOLEAN /\ listening \in BOOLEAN
    BY <1>1
  <2> QED BY <1>2, <2>3, <2>4, <2>5 DEF SmokeTypeOK
<1>5. OwnRows /\ SubStage /\ StreamStage
  BY <1>1, <1>3 DEF OwnRows, SubStage, StreamStage, NoTopic, NoSub, Ending
<1>6. MessageStage /\ OnTime /\ InFlight
  BY <1>1, <1>3 DEF MessageStage, OnTime, InFlight, Unpublished, Publishing, Ending
<1> QED BY <1>2, <1>4, <1>5, <1>6 DEF SmokeInv

LEMMA SmokeInvStep ==
    ASSUME SmokeInv, [SmokeNext]_allVars
    PROVE  SmokeInv'
<1>1. CASE UNCHANGED allVars
  <2>1. UNCHANGED vars /\ UNCHANGED smokeVars
    BY <1>1 DEF allVars
  <2>2. TypeOK' /\ ReferencesResolve' /\ OwnRows'
    BY <2>1, ClientTypes
  <2>3. InFlight'
    BY <2>1, InFlightKept DEF smokeVars
  <2>4. SmokeTypeOK'
    BY <2>1, <2>2 DEF SmokeInv, SmokeTypeOK, Time, Never, Sendings, smokeVars
  <2>5. SubStage' /\ MessageStage' /\ StreamStage' /\ OnTime'
    BY <2>1 DEF SmokeInv, SubStage, MessageStage, StreamStage, OnTime, smokeVars,
       vars, LiveSub, Unpublished, Publishing, Open, After, Before, Never
  <2> QED BY <2>2, <2>3, <2>4, <2>5 DEF SmokeInv
<1>2. CASE SmokeNext
  BY <1>2, ServeOK, GotoOK, StartOK, StreamOK, FireOK, StreamEndsOK, OnMessageOK,
     AckMessageOK, AcknowledgeOK, SmokeTickOK DEF SmokeNext
<1> QED BY <1>1, <1>2

\* The stages of main(), its timer and the one message keep step with each other
\* from the first request of smoke.ts to its last.
THEOREM SmokeInvariant == SmokeSpec => []SmokeInv
<1>1. SmokeInit => SmokeInv
  BY SmokeInvInit
<1>2. SmokeInv /\ [SmokeNext]_allVars => SmokeInv'
  BY SmokeInvStep
<1> QED BY <1>1, <1>2, PTL DEF SmokeSpec

\* The rows of the server and the state of smoke.ts have their types; in
\* particular no deadline of the program leaves the range of times.
THEOREM SmokeTypeCorrect == SmokeSpec => []SmokeTypeOK
<1>1. SmokeInv => SmokeTypeOK
  BY DEF SmokeInv
<1> QED BY <1>1, SmokeInvariant, PTL

\* smoke.ts deletes its subscription only after the server has the
\* acknowledgement of the message: msgTimeout, refreshed when a handler begins and
\* when it ends, outlasts each leg of the message's way.
THEOREM AckedBeforeDeletedAlways == SmokeSpec => []AckedBeforeDeleted
<1>1. ASSUME SmokeInv, main \in {"sleep", "deleteTopic", "done"}
      PROVE  /\ DeliveriesOf(SmokeSub) # {}
             /\ \A d \in DeliveriesOf(SmokeSub) : ~Open(d)
  <2>1. msgsP
    BY <1>1 DEF SmokeInv, SubStage, Ending
  <2>2. DOMAIN deliveries # {} /\ \A d \in DOMAIN deliveries : ~Open(d)
    BY <1>1, <2>1 DEF SmokeInv, MessageStage, Ending
  <2>3. DeliveriesOf(SmokeSub) = DOMAIN deliveries
    BY <1>1 DEF SmokeInv, InFlight, DeliveriesOf
  <2> QED BY <2>2, <2>3
<1>2. SmokeInv => AckedBeforeDeleted
  BY <1>1 DEF AckedBeforeDeleted
<1> QED BY <1>2, SmokeInvariant, PTL

\* The backoff of 1.5 s that smoke.ts configures is longer than a message's way
\* there, its handler of up to a second and its way back: it is delivered once.
THEOREM ReceivedOnceAlways == SmokeSpec => []ReceivedOnce
<1>1. SmokeInv => ReceivedOnce
  BY DEF SmokeInv, InFlight, ReceivedOnce
<1> QED BY <1>1, SmokeInvariant, PTL

\* The error that smoke.ts expects on its stream has come when it looks at
\* gotError, 100 ms after the subscription was deleted.
THEOREM ExpectedErrorAlways == SmokeSpec => []ExpectedError
<1>1. SmokeInv => ExpectedError
  BY DEF SmokeInv, StreamStage, ExpectedError
<1> QED BY <1>1, SmokeInvariant, PTL

\* The timer that resolves msgsP never runs while a "message" handler of smoke.ts
\* is in its sleep, since the handler refreshed it to run later.
THEOREM HandlersAlwaysFinish == SmokeSpec => HandlersFinish
<1>1. ASSUME SmokeInv, [SmokeNext]_allVars, msgsP', ~msgsP
      PROVE  handlers = {}
  <2>1. Fire
    BY <1>1 DEF SmokeNext, Serve, Proceed, Start, Published, Reject, Stream,
       OnError, OnMessage, AckMessage, Acknowledge, StopWaiting, SubDeleted,
       SleepOver, Close, SmokeTick, allVars, smokeVars
  <2> QED BY <1>1, <2>1, FireQuiet DEF Fire
<1>2. SmokeInv /\ [SmokeNext]_allVars => [msgsP' /\ ~msgsP => handlers = {}]_allVars
  BY <1>1
<1> QED BY <1>2, SmokeInvariant, PTL DEF SmokeSpec, HandlersFinish

=============================================================================
