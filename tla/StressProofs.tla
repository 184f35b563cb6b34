---------------------------- MODULE StressProofs ----------------------------
(***************************************************************************)
(* The fault injector and the stress program that runs against it.         *)
(*                                                                         *)
(* The fault injector implements AtMostCount for any set of faults and     *)
(* calls.  FaultInv says what the code relies on between the scan of the   *)
(* list and the decrement: what a call found does match it, and the list   *)
(* still holds every description with strikes left, so an empty scan       *)
(* means that no strike is left for the call.                              *)
(*                                                                         *)
(* The stress program reports nothing it did not see.  ReportInv counts    *)
(* the publishes that were answered, and says what the rows are while the  *)
(* program waits.                                                          *)
(***************************************************************************)
EXTENDS StressClient, FiniteSetTheorems, TLAPS

\* What the scan of a call found is one of the faults meant for it.
FoundMatches ==
    \A c \in Calls : check[c] = "decrement" => /\ found[c] \in Matching[c]
                                               /\ found[c] \in added

\* Pruning has not taken a description that still has strikes.
ListComplete == \A d \in added : count[d] > 0 => d \in faults

FaultInv == FaultTypeOK /\ FoundMatches /\ ListComplete

LEMMA FaultInvInit == FaultInit => FaultInv
BY DEF FaultInit, FaultInv, FaultTypeOK, FoundMatches, ListComplete,
       CheckStates

LEMMA AddOK ==
    ASSUME FaultInv, NEW d \in Faults, Add(d) PROVE FaultInv'
<1>1. Count[d] \in Int
  BY FaultsAssumption
<1>2. FaultTypeOK'
  BY <1>1 DEF FaultInv, FaultTypeOK, Add
<1>3. FoundMatches' /\ ListComplete'
  BY DEF FaultInv, FaultTypeOK, FoundMatches, ListComplete, Add
<1> QED BY <1>2, <1>3 DEF FaultInv

LEMMA BeginCheckOK ==
    ASSUME FaultInv, NEW c \in Calls, BeginCheck(c) PROVE FaultInv'
BY DEF FaultInv, FaultTypeOK, FoundMatches, ListComplete, BeginCheck,
       CheckStates

LEMMA MatchOK ==
    ASSUME FaultInv, NEW c \in Calls, Match(c) PROVE FaultInv'
<1> USE DEF FaultInv, FaultTypeOK, FoundMatches, ListComplete, CheckStates
<1>1. CASE Candidates(c) = {} /\ check' = [check EXCEPT ![c] = "passed"]
                              /\ UNCHANGED found
  BY <1>1 DEF Match
<1>2. ASSUME NEW d \in Candidates(c),
             found' = [found EXCEPT ![c] = d],
             check' = [check EXCEPT ![c] = "decrement"]
      PROVE  FaultInv'
  <2>1. d \in Faults /\ d \in Matching[c] /\ d \in added
    BY FaultsAssumption DEF Candidates
  <2> QED BY <1>2, <2>1 DEF Match
<1> QED BY <1>1, <1>2 DEF Match

LEMMA DecrementOK ==
    ASSUME FaultInv, NEW c \in Calls, Decrement(c) PROVE FaultInv'
<1> USE DEF FaultInv
<1>1. found[c] \in Faults /\ count[found[c]] \in Int
  BY DEF FaultTypeOK, FoundMatches, Decrement
<1>2. FaultTypeOK'
  BY <1>1 DEF FaultTypeOK, CheckStates, Decrement
<1>3. FoundMatches'
  BY DEF FaultTypeOK, FoundMatches, Decrement
<1>4. ListComplete'
  BY <1>1 DEF FaultTypeOK, ListComplete, Decrement
<1> QED BY <1>2, <1>3, <1>4

LEMMA PruneFaultsOK ==
    ASSUME FaultInv, NEW c \in Calls, PruneFaults(c) PROVE FaultInv'
BY DEF FaultInv, FaultTypeOK, FoundMatches, ListComplete, PruneFaults

LEMMA FaultInvNext ==
    ASSUME FaultInv, [FaultNext]_faultVars PROVE FaultInv'
<1>1. CASE UNCHANGED faultVars
  BY <1>1 DEF FaultInv, FaultTypeOK, FoundMatches, ListComplete, faultVars
<1> QED BY <1>1, AddOK, BeginCheckOK, MatchOK, DecrementOK, PruneFaultsOK
        DEF FaultNext, CheckStep

LEMMA FaultInvAlways == FaultSpec => []FaultInv
BY FaultInvInit, FaultInvNext, PTL DEF FaultSpec

\* The variables of the fault injector keep their types, and the pruned list
\* never holds a description that was not added.
THEOREM FaultTypeCorrect == FaultSpec => []FaultTypeOK
<1>1. FaultInv => FaultTypeOK
  BY DEF FaultInv
<1> QED BY <1>1, FaultInvAlways, PTL

-----------------------------------------------------------------------------

LEMMA PromiseInit == FaultInit => Promise!AbstractInit
BY DEF FaultInit, Promise!AbstractInit, Left, Verdict

LEMMA AddRefines ==
    ASSUME FaultInv, NEW d \in Faults, Add(d) PROVE Promise!Configure(d)
<1>1. Count[d] \in Nat \ {0}
  BY FaultsAssumption
<1>2. [e \in Faults |-> Left(e)]'
          = [[e \in Faults |-> Left(e)] EXCEPT ![d] = Count[d]]
  <2>1. \A e \in Faults : Left(e)' = IF e = d THEN Count[d] ELSE Left(e)
    BY <1>1 DEF FaultInv, FaultTypeOK, Add, Left
  <2> QED BY <2>1
<1>3. UNCHANGED [c \in Calls |-> Verdict(c)]
  BY DEF Add, Verdict
<1> QED BY <1>2, <1>3 DEF Add, Promise!Configure

LEMMA BeginCheckRefines ==
    ASSUME FaultInv, NEW c \in Calls, BeginCheck(c)
    PROVE  Promise!Again(c) \/ UNCHANGED Promise!abstractVars
<1>1. UNCHANGED <<[e \in Faults |-> Left(e)], added>>
  BY DEF BeginCheck, Left
<1>2. CASE check[c] = "idle"
  <2>1. UNCHANGED [b \in Calls |-> Verdict(b)]
    BY <1>2 DEF FaultInv, FaultTypeOK, BeginCheck, Verdict
  <2> QED BY <1>1, <2>1 DEF Promise!abstractVars
<1>3. CASE check[c] = "struck"
  <2>1. [b \in Calls |-> Verdict(b)]'
            = [[b \in Calls |-> Verdict(b)] EXCEPT ![c] = "open"]
    BY <1>3 DEF FaultInv, FaultTypeOK, BeginCheck, Verdict
  <2>2. [b \in Calls |-> Verdict(b)][c] # "open"
    BY <1>3 DEF Verdict
  <2> QED BY <1>1, <2>1, <2>2 DEF Promise!Again
<1> QED BY <1>2, <1>3 DEF BeginCheck

LEMMA MatchRefines ==
    ASSUME FaultInv, NEW c \in Calls, Match(c)
    PROVE  Promise!Pass(c) \/ UNCHANGED Promise!abstractVars
<1>1. UNCHANGED <<[e \in Faults |-> Left(e)], added>>
  BY DEF Match, Left
<1>2. CASE Candidates(c) = {} /\ check' = [check EXCEPT ![c] = "passed"]
  <2>1. [b \in Calls |-> Verdict(b)]'
            = [[b \in Calls |-> Verdict(b)] EXCEPT ![c] = "passed"]
    BY <1>2 DEF FaultInv, FaultTypeOK, Verdict
  <2>2. [b \in Calls |-> Verdict(b)][c] = "open"
    BY DEF Match, Verdict
  <2>3. ASSUME NEW d \in Matching[c]
        PROVE  [e \in Faults |-> Left(e)][d] = 0
    <3>1. d \in Faults
      BY FaultsAssumption
    <3>2. ~(d \in added /\ count[d] > 0)
      BY <1>2 DEF FaultInv, ListComplete, Candidates
    <3> QED BY <3>1, <3>2 DEF Left
  <2> QED BY <1>1, <2>1, <2>2, <2>3 DEF Promise!Pass
<1>3. CASE check' = [check EXCEPT ![c] = "decrement"]
  <2>1. UNCHANGED [b \in Calls |-> Verdict(b)]
    BY <1>3 DEF FaultInv, FaultTypeOK, Match, Verdict
  <2> QED BY <1>1, <2>1 DEF Promise!abstractVars
<1> QED BY <1>2, <1>3 DEF Match

LEMMA DecrementRefines ==
    ASSUME FaultInv, NEW c \in Calls, Decrement(c)
    PROVE  \/ \E d \in Faults : Promise!Strike(c, d)
           \/ UNCHANGED Promise!abstractVars
<1> DEFINE d == found[c]
<1>0. /\ check' = [check EXCEPT ![c] = IF count[d] - 1 < 0 THEN "match"
                                                         ELSE "struck"]
      /\ count' = [count EXCEPT ![d] = count[d] - 1]
      /\ check[c] = "decrement" /\ UNCHANGED added
  BY Zenon DEF Decrement
<1> HIDE DEF d
<1>1. d \in Faults /\ d \in added /\ d \in Matching[c] /\ count[d] \in Int
  BY <1>0 DEF FaultInv, FaultTypeOK, FoundMatches, d
<1>2. CASE count[d] <= 0
  <2>1. check' = [check EXCEPT ![c] = "match"]
    <3>1. (count[d] - 1 < 0)
      BY <1>1, <1>2
    <3> QED BY <1>0, <3>1, Zenon
  <2>2. UNCHANGED [b \in Calls |-> Verdict(b)]
    BY <1>0, <2>1 DEF FaultInv, FaultTypeOK, Verdict
  <2>3. \A e \in Faults : Left(e)' = Left(e)
    BY <1>0, <1>1, <1>2 DEF FaultInv, FaultTypeOK, Left
  <2> QED BY <1>0, <2>2, <2>3 DEF Promise!abstractVars
<1>3. CASE count[d] > 0
  <2>1. check' = [check EXCEPT ![c] = "struck"]
    <3>1. ~(count[d] - 1 < 0)
      BY <1>1, <1>3
    <3> QED BY <1>0, <3>1, Zenon
  <2>2. /\ [b \in Calls |-> Verdict(b)]'
              = [[b \in Calls |-> Verdict(b)] EXCEPT ![c] = "struck"]
        /\ [b \in Calls |-> Verdict(b)][c] = "open"
    BY <1>0, <2>1 DEF FaultInv, FaultTypeOK, Verdict
  <2>3. \A e \in Faults : Left(e)' = IF e = d THEN Left(d) - 1 ELSE Left(e)
    BY <1>0, <1>1, <1>3 DEF FaultInv, FaultTypeOK, Left
  <2>4. /\ [e \in Faults |-> Left(e)]'
              = [[e \in Faults |-> Left(e)] EXCEPT ![d] = @ - 1]
        /\ [e \in Faults |-> Left(e)][d] > 0
    BY <1>1, <1>3, <2>3 DEF Left
  <2>5. Promise!Strike(c, d)
    BY <1>0, <1>1, <2>2, <2>4 DEF Promise!Strike
  <2> QED BY <1>1, <2>5
<1> QED BY <1>1, <1>2, <1>3

LEMMA PruneFaultsRefines ==
    ASSUME NEW c \in Calls, PruneFaults(c)
    PROVE  UNCHANGED Promise!abstractVars
BY DEF PruneFaults, Promise!abstractVars, Left, Verdict

LEMMA PromiseNext ==
    ASSUME FaultInv, [FaultNext]_faultVars
    PROVE  [Promise!AbstractNext]_Promise!abstractVars
<1>1. CASE UNCHANGED faultVars
  BY <1>1 DEF faultVars, Promise!abstractVars, Left, Verdict
<1>2. ASSUME NEW d \in Faults, Add(d) PROVE Promise!AbstractNext
  BY <1>2, AddRefines DEF Promise!AbstractNext
<1>3. ASSUME NEW c \in Calls, BeginCheck(c) \/ CheckStep(c) \/ PruneFaults(c)
      PROVE  [Promise!AbstractNext]_Promise!abstractVars
  BY <1>3, BeginCheckRefines, MatchRefines, DecrementRefines,
     PruneFaultsRefines DEF CheckStep, Promise!AbstractNext
<1> QED BY <1>1, <1>2, <1>3 DEF FaultNext

\* A fault strikes as often as it was configured to and no call slips through
\* while a fault that matches it is left, for any number of faults, of
\* concurrent calls and of strikes: Check's separate scan, decrement and
\* prune implement the one-step decision of AtMostCount.
THEOREM StrikesAsConfiguredAlways == FaultSpec => StrikesAsConfigured
BY PromiseInit, PromiseNext, FaultInvAlways, PTL
   DEF FaultSpec, StrikesAsConfigured, Promise!AbstractSpec

-----------------------------------------------------------------------------
(* The stress program *)

LEMMA StressImpliesFault == StressSpec => FaultSpec
<1>1. StressInit => FaultInit
  BY DEF StressInit
<1>2. [StressNext]_stressVars => [FaultNext]_faultVars
  <2> SUFFICES ASSUME [StressNext]_stressVars PROVE [FaultNext]_faultVars
    OBVIOUS
  <2>1. ASSUME NEW m \in Calls, Publishing(m) \/ Receiving(m) \/ Losing(m)
        PROVE  [FaultNext]_faultVars
    <3>1. CASE Request(m)
      BY <3>1 DEF Request, FaultNext
    <3>2. CASE \/ Handle(m) \/ Struck(m) \/ Sent(m) \/ Receiving(m) \/ Losing(m)
      BY <3>2 DEF Handle, Struck, Sent, Receiving, Hand, OnMessage, Acknowledge,
         Losing, LoseMessage, LoseAck
    <3> QED BY <2>1, <3>1, <3>2 DEF Publishing
  <2>2. CASE Setup \/ OnError \/ Ending
    BY <2>2 DEF Setup, GetTopic, GetSub, Start, SetupFails, OnError, Ending,
       Settle, DeleteSub, DeleteTopic, Finish
  <2>3. CASE \/ \E d \in Faults : Add(d) /\ Injector
             \/ \E m \in Calls : Checks(m) \/ Prunes(m)
    BY <2>3 DEF Checks, Prunes, FaultNext
  <2>4. CASE UNCHANGED stressVars
    BY <2>4 DEF stressVars
  <2> QED BY <2>1, <2>2, <2>3, <2>4 DEF StressNext
<1> QED BY <1>1, <1>2, PTL DEF StressSpec, FaultSpec

\* The fault injector keeps its promise to the publishes of the stress program,
\* which its client library repeats as long as it likes.
THEOREM StressStrikesAsConfigured == StressSpec => StrikesAsConfigured
BY StressImpliesFault, StrikesAsConfiguredAlways, PTL

\* Who was answered, and who has an answer counted.
Answered == {m \in Calls : pub[m] = "sent"}

\* StressTypeOK, in the parts that the program and the server change.
ProgramType ==
    /\ main \in {"getTopic", "getSub", "setMetadata", "await", "cleanup",
                 "done", "rejected"}
    /\ took \in BOOLEAN /\ listening \in BOOLEAN
    /\ pub \in [Calls -> {"none", "called", "stored", "sent", "rejected"}]
    /\ numReceived \in 0 .. MaxReceived
    /\ doneP \in {"pending", "resolved", "rejected"}
    /\ deleting \in [{"topic", "sub"} -> Requests]
ServerType ==
    /\ wire \subseteq Calls /\ acks \subseteq Calls
    /\ topic \in Rows /\ sub \in Rows
    /\ state \in [Calls -> Service!States]

\* Before main() settles nothing is deleted, and until it has started nothing
\* is published.
BeforeSettling ==
    /\ main \in {"getTopic", "getSub", "setMetadata", "await"} =>
          took = FALSE /\ \A r \in {"topic", "sub"} : deleting[r] = "none"
    /\ main \in {"getSub", "setMetadata", "await"} => topic = "live"
    /\ main \in {"setMetadata", "await"} => sub = "live"
    /\ main \in {"getTopic", "getSub", "setMetadata"} =>
          \A m \in Calls : pub[m] = "none"

\* The counters count what they say.
Counted ==
    /\ numSent = Cardinality(Answered)
    /\ doneP = "resolved" => numReceived >= NumMessages

\* While main() waits, what the server stored it also queued.
Accepted ==
    main = "await" =>
       \A m \in Calls : pub[m] \in {"stored", "sent"} => state[m] # "none"

\* The time is taken when all is sent and enough received.
TookAll ==
    took => /\ \A m \in Calls : pub[m] = "sent" /\ state[m] # "none"
            /\ numReceived >= NumMessages

ReportInv == /\ ProgramType /\ ServerType
             /\ BeforeSettling /\ Counted /\ Accepted /\ TookAll

LEMMA AnsweredBound ==
    /\ IsFiniteSet(Answered) /\ Cardinality(Answered) \in 0 .. NumMessages
    /\ Answered = Calls => Cardinality(Answered) = NumMessages
<1>1. IsFiniteSet(Calls) /\ Cardinality(Calls) = NumMessages
  <2>1. NumMessages \in Nat /\ NumMessages >= 1 /\ Calls = 1 .. NumMessages
    BY StressAssumption
  <2>2. /\ IsFiniteSet(1 .. NumMessages)
        /\ Cardinality(1 .. NumMessages) =
              IF 1 > NumMessages THEN 0 ELSE NumMessages - 1 + 1
    BY <2>1, FS_Interval
  <2> QED BY <2>1, <2>2
<1>2. Answered \subseteq Calls
  BY DEF Answered
<1>3. /\ IsFiniteSet(Answered) /\ Cardinality(Answered) \in Nat
      /\ Cardinality(Answered) <= Cardinality(Calls)
  BY <1>1, <1>2, FS_Subset, FS_CardinalityType
<1>4. NumMessages \in Nat
  BY StressAssumption
<1> QED BY <1>1, <1>3, <1>4

LEMMA SetupReport ==
    ASSUME ReportInv, Setup
    PROVE  ReportInv'
<1> USE DEF ReportInv
<1>1. UNCHANGED <<took, numSent, numReceived, doneP, deleting, state, netVars>>
  BY Zenon DEF Setup, GetTopic, GetSub, Start, SetupFails, serverVars
<1>2. ProgramType' /\ ServerType'
  BY <1>1 DEF Setup, GetTopic, GetSub, Start, SetupFails, ProgramType,
     ServerType, Rows, serverVars, netVars
<1>3. took = FALSE /\ \A m \in Calls : pub[m] = "none"
  BY DEF Setup, GetTopic, GetSub, Start, SetupFails, BeforeSettling
<1>4. BeforeSettling'
  BY <1>1, <1>3 DEF Setup, GetTopic, GetSub, Start, SetupFails,
     BeforeSettling, serverVars
<1>5. \A m \in Calls : pub'[m] \in {"none", "called"}
  BY <1>3 DEF Setup, GetTopic, GetSub, Start, SetupFails
<1>6. Answered' = {} /\ Answered = {}
  BY <1>3, <1>5 DEF Answered
<1>7. Counted'
  BY <1>1, <1>6 DEF Counted
<1>8. Accepted' /\ TookAll'
  BY <1>1, <1>3, <1>5 DEF Accepted, TookAll
<1> QED BY <1>2, <1>4, <1>7, <1>8

LEMMA PublishingReport ==
    ASSUME ReportInv, NEW m \in Calls, Publishing(m)
    PROVE  ReportInv'
<1> USE DEF ReportInv
<1>1. UNCHANGED <<main, took, numReceived, doneP, listening, deleting, topic,
                  sub, netVars>>
  BY Zenon DEF Publishing, Request, Handle, Struck, Sent, programVars, serverVars
<1>2. CASE Request(m)
  <2>1. UNCHANGED <<programVars, serverVars, netVars>>
    BY <1>2 DEF Request
  <2>2. UNCHANGED Answered
    BY <2>1 DEF Answered, programVars
  <2> QED BY <2>1, <2>2 DEF ProgramType, ServerType, BeforeSettling, Counted,
          Accepted, TookAll, programVars, serverVars, netVars
<1>3. CASE Handle(m) \/ Struck(m)
  <2>1. /\ pub[m] = "called" /\ numSent' = numSent
        /\ pub' = [pub EXCEPT ![m] = pub'[m]]
        /\ pub'[m] \in {"stored", "rejected"}
    BY <1>3 DEF Handle, Struck, ProgramType
  <2>2. \A b \in Calls : b # m => pub'[b] = pub[b]
    BY <2>1 DEF ProgramType
  <2>3. Answered' = Answered
    BY <2>1, <2>2 DEF Answered
  <2>4. /\ state' \in [Calls -> Service!States]
        /\ \A b \in Calls : state[b] # "none" => state'[b] # "none"
        /\ main = "await" /\ pub'[m] = "stored" => state'[m] # "none"
    <3>1. CASE Handle(m)
      <4>1. \/ topic = "live" /\ sub = "live" /\ Service!AcceptOne(m)
            \/ ~(topic = "live" /\ sub = "live") /\ UNCHANGED state
        BY <3>1 DEF Handle
      <4> QED BY <4>1 DEF Service!AcceptOne, Service!Move, Service!States,
              ServerType, BeforeSettling
    <3>2. CASE Struck(m)
      <4>1. UNCHANGED state /\ pub' = [pub EXCEPT ![m] = "rejected"]
        BY <3>2 DEF Struck, serverVars
      <4> QED BY <4>1 DEF ServerType, ProgramType
    <3> QED BY <1>3, <3>1, <3>2
  <2>5. took = FALSE
    BY <2>1 DEF TookAll, ProgramType
  <2>6. pub' \in [Calls -> {"none", "called", "stored", "sent", "rejected"}]
    BY <2>1 DEF ProgramType
  <2>7. ProgramType' /\ ServerType'
    BY <1>1, <2>4, <2>6 DEF ProgramType, ServerType, netVars
  <2>8. BeforeSettling'
    BY <1>1, <2>1 DEF BeforeSettling
  <2>9. Counted' /\ TookAll'
    BY <1>1, <2>1, <2>3, <2>5 DEF Counted, TookAll
  <2>10. Accepted'
    BY <1>1, <2>1, <2>2, <2>4 DEF Accepted
  <2> QED BY <2>7, <2>8, <2>9, <2>10
<1>4. CASE Sent(m)
  <2>1. /\ pub[m] = "stored" /\ numSent' = numSent + 1
        /\ pub' = [pub EXCEPT ![m] = "sent"] /\ UNCHANGED state
    BY <1>4 DEF Sent, serverVars
  <2>2. \A b \in Calls : pub'[b] = IF b = m THEN "sent" ELSE pub[b]
    BY <2>1 DEF ProgramType
  <2>3. Answered' = Answered \cup {m} /\ m \notin Answered
    BY <2>1, <2>2 DEF Answered
  <2>4. Cardinality(Answered') = Cardinality(Answered) + 1
    BY <2>3, AnsweredBound, FS_AddElement
  <2>5. took = FALSE
    BY <2>1 DEF TookAll, ProgramType
  <2>6. ProgramType' /\ ServerType'
    BY <1>1, <2>1 DEF ProgramType, ServerType, netVars
  <2>7. BeforeSettling'
    BY <1>1, <2>1 DEF BeforeSettling
  <2>8. Counted' /\ TookAll'
    BY <1>1, <2>1, <2>4, <2>5 DEF Counted, TookAll
  <2>9. Accepted'
    BY <1>1, <2>1, <2>2 DEF Accepted
  <2> QED BY <2>6, <2>7, <2>8, <2>9
<1> QED BY <1>2, <1>3, <1>4 DEF Publishing

LEMMA ReceivingReport ==
    ASSUME ReportInv, NEW m \in Calls, Receiving(m) \/ Losing(m)
    PROVE  ReportInv'
<1> USE DEF ReportInv
<1>1. UNCHANGED <<main, took, pub, numSent, listening, deleting, topic, sub>>
  BY Zenon DEF Receiving, Hand, OnMessage, Acknowledge, Losing, LoseMessage,
     LoseAck, programVars, serverVars
<1>2. wire' \subseteq Calls /\ acks' \subseteq Calls
  BY DEF Receiving, Hand, OnMessage, Acknowledge, Losing, LoseMessage, LoseAck,
     ServerType
<1>3. /\ state' \in [Calls -> Service!States]
      /\ \A b \in Calls : state[b] # "none" => state'[b] # "none"
  BY DEF Receiving, Hand, OnMessage, Acknowledge, Losing, LoseMessage, LoseAck,
     ServerType, serverVars, Service!HandOne, Service!AckOne, Service!Move,
     Service!States
<1>4. /\ numReceived' \in 0 .. MaxReceived /\ numReceived' >= numReceived
      /\ doneP' \in {"pending", "resolved", "rejected"}
      /\ doneP' = "resolved" => doneP = "resolved" \/ numReceived' >= NumMessages
  <2>1. CASE OnMessage(m)
    <3>1. numReceived' = IF numReceived < MaxReceived THEN numReceived + 1
                                                     ELSE numReceived
      BY <2>1 DEF OnMessage
    <3>2. numReceived' \in 0 .. MaxReceived /\ numReceived' >= numReceived
      BY <3>1, StressAssumption DEF ProgramType
    <3>3. /\ doneP' \in {"resolved", doneP}
          /\ doneP' # doneP => numReceived' >= NumMessages
      BY <2>1 DEF OnMessage, AllCounted
    <3> QED BY <3>2, <3>3 DEF ProgramType
  <2>2. CASE Hand(m) \/ Acknowledge(m) \/ Losing(m)
    <3>1. UNCHANGED <<numReceived, doneP>>
      BY <2>2, Zenon DEF Hand, Acknowledge, Losing, LoseMessage, LoseAck,
         programVars
    <3> QED BY <3>1, StressAssumption DEF ProgramType
  <2> QED BY <2>1, <2>2 DEF Receiving
<1>5. NumMessages \in Nat /\ numReceived \in Nat /\ numReceived' \in Nat
  BY <1>4, StressAssumption DEF ProgramType
<1>6. numReceived >= NumMessages => numReceived' >= NumMessages
  BY <1>4, <1>5
<1>7. ProgramType' /\ ServerType' /\ BeforeSettling'
  BY <1>1, <1>2, <1>3, <1>4 DEF ProgramType, ServerType, BeforeSettling
<1>8. Counted'
  BY <1>1, <1>4, <1>6 DEF Counted, Answered
<1>9. Accepted' /\ TookAll'
  BY <1>1, <1>3, <1>6 DEF Accepted, TookAll
<1> QED BY <1>7, <1>8, <1>9

LEMMA EndingReport ==
    ASSUME ReportInv, Ending \/ OnError
    PROVE  ReportInv'
<1> USE DEF ReportInv
<1>1. UNCHANGED <<pub, numSent, numReceived, state, netVars>>
  BY Zenon DEF Ending, Settle, DeleteSub, DeleteTopic, Finish, OnError, serverVars
<1>2. Answered' = Answered
  BY <1>1 DEF Answered
<1>3. CASE Settle
  <2>1. /\ main = "await" /\ main' = "cleanup" /\ took' = Fulfilled
        /\ listening' = FALSE /\ UNCHANGED <<doneP, topic, sub>>
        /\ deleting' = [r \in {"topic", "sub"} |-> "sent"]
    BY <1>3 DEF Settle, serverVars
  <2>2. took' \in BOOLEAN /\ listening' \in BOOLEAN
    BY <2>1 DEF Fulfilled
  <2>3. deleting' \in [{"topic", "sub"} -> Requests]
    BY <2>1 DEF Requests
  <2>4. ProgramType' /\ ServerType'
    BY <1>1, <2>1, <2>2, <2>3 DEF ProgramType, ServerType, netVars
  <2>5. BeforeSettling' /\ Counted' /\ Accepted'
    BY <1>1, <1>2, <2>1 DEF BeforeSettling, Counted, Accepted
  <2>6. ASSUME took'
        PROVE  /\ \A m \in Calls : pub[m] = "sent" /\ state[m] # "none"
               /\ numReceived >= NumMessages
    <3>1. Fulfilled
      BY <2>1, <2>6
    <3> QED BY <2>1, <3>1 DEF Fulfilled, Accepted, Counted
  <2>7. TookAll'
    BY <1>1, <2>6 DEF TookAll
  <2> QED BY <2>4, <2>5, <2>7
<1>4. CASE DeleteSub \/ DeleteTopic
  <2>1. /\ UNCHANGED <<main, took, doneP, listening>>
        /\ main \notin {"getTopic", "getSub", "setMetadata", "await"}
    BY <1>4 DEF DeleteSub, DeleteTopic, BeforeSettling
  <2>2. /\ deleting' \in [{"topic", "sub"} -> Requests]
        /\ topic' \in Rows /\ sub' \in Rows
    BY <1>4 DEF DeleteSub, DeleteTopic, ProgramType, ServerType, Requests, Rows
  <2>3. ProgramType' /\ ServerType'
    BY <1>1, <2>1, <2>2 DEF ProgramType, ServerType, netVars
  <2> QED BY <1>1, <1>2, <2>1, <2>3 DEF BeforeSettling, Counted, Accepted, TookAll
<1>5. CASE Finish
  <2>1. /\ UNCHANGED <<took, doneP, listening, deleting, topic, sub>>
        /\ main' \in {"done", "rejected"}
    BY <1>5 DEF Finish, serverVars
  <2>2. ProgramType' /\ ServerType'
    BY <1>1, <2>1 DEF ProgramType, ServerType, netVars
  <2> QED BY <1>1, <1>2, <2>1, <2>2 DEF BeforeSettling, Counted, Accepted, TookAll
<1>6. CASE OnError
  <2>1. /\ UNCHANGED <<main, took, deleting, topic, sub>> /\ listening' = FALSE
        /\ doneP' = IF doneP = "pending" THEN "rejected" ELSE doneP
    BY <1>6 DEF OnError, serverVars
  <2>2. ProgramType' /\ ServerType'
    BY <1>1, <2>1 DEF ProgramType, ServerType, netVars
  <2> QED BY <1>1, <1>2, <2>1, <2>2 DEF BeforeSettling, Counted, Accepted, TookAll
<1> QED BY <1>3, <1>4, <1>5, <1>6 DEF Ending

LEMMA ReportStep ==
    ASSUME ReportInv, [StressNext]_stressVars
    PROVE  ReportInv'
<1>1. CASE \/ \E d \in Faults : Add(d) /\ Injector
           \/ \E m \in Calls : Checks(m) \/ Prunes(m)
           \/ UNCHANGED stressVars
  <2>1. UNCHANGED <<programVars, serverVars, netVars>>
    BY <1>1, Zenon DEF Injector, Checks, Prunes, stressVars
  <2>2. UNCHANGED Answered
    BY <2>1 DEF Answered, programVars
  <2> QED BY <2>1, <2>2 DEF ReportInv, ProgramType, ServerType, BeforeSettling,
          Counted, Accepted, TookAll, programVars, serverVars, netVars
<1> QED BY <1>1, SetupReport, PublishingReport, ReceivingReport, EndingReport
        DEF StressNext

LEMMA ReportInit == StressInit => ReportInv
<1> SUFFICES ASSUME StressInit PROVE ReportInv
  OBVIOUS
<1>1. /\ main = "getTopic" /\ took = FALSE /\ numSent = 0 /\ numReceived = 0
      /\ doneP = "pending" /\ listening = FALSE /\ wire = {} /\ acks = {}
      /\ topic = "absent" /\ sub = "absent"
      /\ pub = [m \in Calls |-> "none"]
      /\ deleting = [r \in {"topic", "sub"} |-> "none"]
      /\ state = [m \in Calls |-> "none"]
  BY DEF StressInit, Service!StateInit
<1>2. 0 \in 0 .. MaxReceived
  BY StressAssumption
<1>3. ProgramType
  BY <1>1, <1>2 DEF ProgramType, Requests
<1>4. ServerType
  BY <1>1 DEF ServerType, Rows, Service!States
<1>5. Answered = {}
  BY <1>1 DEF Answered
<1>6. BeforeSettling /\ Counted /\ Accepted /\ TookAll
  BY <1>1, <1>5, FS_EmptySet DEF BeforeSettling, Counted, Accepted, TookAll
<1> QED BY <1>3, <1>4, <1>6 DEF ReportInv

LEMMA ReportAlways == StressSpec => []ReportInv
BY ReportInit, ReportStep, PTL DEF StressSpec

\* The variables of the program, of the server and of the injector keep their
\* types; above all, no response is counted twice in numSent.
THEOREM StressTypeCorrect == StressSpec => []StressTypeOK
<1>1. FaultTypeOK /\ ReportInv => StressTypeOK
  BY AnsweredBound DEF ReportInv, ProgramType, ServerType, Counted, StressTypeOK
<1> QED BY <1>1, ReportAlways, StressImpliesFault, FaultTypeCorrect, PTL

\* The throughput is reported only when the server has acknowledged and queued
\* every publish and as many messages were received, for any number of
\* messages, whatever is lost, repeated or struck by a fault.
THEOREM ReportAlwaysComplete == StressSpec => []ReportIsComplete
<1>1. ReportInv => ReportIsComplete
  <2> SUFFICES ASSUME ReportInv, took PROVE
               /\ numSent = NumMessages /\ numReceived >= NumMessages
               /\ \A m \in Calls : state[m] # "none"
    BY DEF ReportIsComplete
  <2>1. Answered = Calls
    BY DEF ReportInv, TookAll, Answered
  <2> QED BY <2>1, AnsweredBound DEF ReportInv, TookAll, Counted
<1> QED BY <1>1, ReportAlways, PTL
=============================================================================
