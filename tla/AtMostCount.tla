---------------------------- MODULE AtMostCount -----------------------------
(***************************************************************************)
(* What a set of injected faults promises its callers, as the comment on   *)
(* Description in src/faults/description.go states it: every configured    *)
(* fault strikes at most Count calls, a call is struck by at most one      *)
(* fault, and a call is let through only when no fault it matches is left. *)
(* A call decides in one step here; FaultSet shows that the lock-free code *)
(* does no worse.                                                          *)
(***************************************************************************)
EXTENDS Naturals

CONSTANTS
    Faults,       \* fault descriptions
    Calls,        \* calls that ask the set
    Count,        \* [Faults -> Nat]: the Count each is configured with
    Matching      \* [Calls -> SUBSET Faults]: by operation and parameters

VARIABLES
    remaining,    \* fault |-> strikes it has left; 0 before it is added
    configured,   \* the faults added so far
    verdict       \* call |-> "open", "passed" or "struck"

abstractVars == <<remaining, configured, verdict>>

AbstractInit ==
    /\ remaining = [d \in Faults |-> 0]
    /\ configured = {}
    /\ verdict = [c \in Calls |-> "open"]

Configure(d) ==
    /\ d \notin configured
    /\ configured' = configured \cup {d}
    /\ remaining' = [remaining EXCEPT ![d] = Count[d]]
    /\ UNCHANGED verdict

Strike(c, d) ==
    /\ verdict[c] = "open"
    /\ d \in Matching[c] /\ remaining[d] > 0
    /\ remaining' = [remaining EXCEPT ![d] = @ - 1]
    /\ verdict' = [verdict EXCEPT ![c] = "struck"]
    /\ UNCHANGED configured

Pass(c) ==
    /\ verdict[c] = "open"
    /\ \A d \in Matching[c] : remaining[d] = 0
    /\ verdict' = [verdict EXCEPT ![c] = "passed"]
    /\ UNCHANGED <<remaining, configured>>

\* The caller asks anew: a client repeats a request that failed.
Again(c) ==
    /\ verdict[c] # "open"
    /\ verdict' = [verdict EXCEPT ![c] = "open"]
    /\ UNCHANGED <<remaining, configured>>

AbstractNext ==
    \/ \E d \in Faults : Configure(d)
    \/ \E c \in Calls : Pass(c) \/ Again(c) \/ \E d \in Faults : Strike(c, d)

AbstractSpec == AbstractInit /\ [][AbstractNext]_abstractVars
=============================================================================
