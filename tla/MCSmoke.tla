------------------------------ MODULE MCSmoke -------------------------------
(***************************************************************************)
(* The smoke program with ticks of 50 ms.                                  *)
(***************************************************************************)
EXTENDS SmokeClient

SmokeName == [t \in TopicIds |-> "smoke"]
Created ==
    [name |-> "smoke", topic |-> "smoke", ttl |-> 1000, messageTTL |-> 1000,
     ordered |-> FALSE, retry |-> None, filter |-> Attrs, dlTopic |-> None,
     max |-> 0]
SmokeRequest == [s \in SubIds |-> Created]
\* What setMetadata asks for.
SmokeRequests ==
    {Created, [Created EXCEPT !.ordered = TRUE, !.retry = "short"]}

\* The default is 10 s, the program's own policy 1.5 s, a tenth more with each
\* attempt.  The fuzz is left out: it only adds.
SmokeBackoff ==
    [p \in {None, "short"} |->
       [n \in Nat |-> IF p = None THEN 200 + 20 * n ELSE 30 + 3 * n]]
=============================================================================
