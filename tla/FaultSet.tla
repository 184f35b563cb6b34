------------------------------ MODULE FaultSet ------------------------------
(***************************************************************************)
(* The fault injector, src/faults: calls look for a fault under the read   *)
(* lock, decrement its counter without any lock, and try again when other  *)
(* calls were faster; spent faults are removed by a goroutine of its own.  *)
(* Counters only go down, so a scan of the list is one step: a description *)
(* that was found spent is still spent when the scan ends.                 *)
(***************************************************************************)
EXTENDS Integers, FiniteSets

CONSTANTS Faults, Calls, Count, Matching

ASSUME FaultsAssumption ==
    /\ Count \in [Faults -> Nat \ {0}]
    /\ Matching \in [Calls -> SUBSET Faults]

VARIABLES
    faults,       \* the descriptions in Set.faults
    added,        \* every description ever added
    count,        \* Description.Count of those, decremented atomically
    check,        \* call |-> where its Check stands
    found,        \* call |-> the description match returned to it
    wantPrune,    \* call |-> the local variable prune of its Check
    prunes        \* calls whose prune goroutine has yet to run

faultVars == <<faults, added, count, check, found, wantPrune, prunes>>

CheckStates == {"idle", "match", "decrement", "passed", "struck"}

FaultTypeOK ==
    /\ added \subseteq Faults /\ faults \subseteq added
    /\ count \in [Faults -> Int]
    /\ check \in [Calls -> CheckStates]
    /\ found \in [Calls -> Faults \cup {"none"}]
    /\ wantPrune \in [Calls -> BOOLEAN]
    /\ prunes \subseteq Calls

FaultInit ==
    /\ faults = {} /\ added = {}
    /\ count = [d \in Faults |-> 0]
    /\ check = [c \in Calls |-> "idle"]
    /\ found = [c \in Calls |-> "none"]
    /\ wantPrune = [c \in Calls |-> FALSE]
    /\ prunes = {}

Add(d) ==
    /\ d \notin added
    /\ added' = added \cup {d}
    /\ faults' = faults \cup {d}
    /\ count' = [count EXCEPT ![d] = Count[d]]
    /\ UNCHANGED <<check, found, wantPrune, prunes>>

\* A request reaches the interceptor, or the client repeats it.
BeginCheck(c) ==
    /\ check[c] \in {"idle", "struck"}
    /\ check' = [check EXCEPT ![c] = "match"]
    /\ wantPrune' = [wantPrune EXCEPT ![c] = FALSE]
    /\ UNCHANGED <<faults, added, count, found, prunes>>

Candidates(c) == {d \in faults \cap Matching[c] : count[d] > 0}

\* Check returns early when nothing matches, whatever wantPrune says.
Match(c) ==
    /\ check[c] = "match"
    /\ \/ /\ Candidates(c) = {}
          /\ check' = [check EXCEPT ![c] = "passed"]
          /\ UNCHANGED found
       \/ \E d \in Candidates(c) :
             /\ found' = [found EXCEPT ![c] = d]
             /\ check' = [check EXCEPT ![c] = "decrement"]
    /\ UNCHANGED <<faults, added, count, wantPrune, prunes>>

\* Mutant: no second look at the counter after the decrement.
Decrement_NoRetry(c) ==
    LET d == found[c]
        spent == wantPrune[c] \/ count[d] - 1 <= 0
    IN
    /\ check[c] = "decrement"
    /\ count' = [count EXCEPT ![d] = @ - 1]
    /\ check' = [check EXCEPT ![c] = "struck"]
    /\ wantPrune' = [wantPrune EXCEPT ![c] = spent]
    /\ prunes' = IF spent THEN prunes \cup {c} ELSE prunes
    /\ UNCHANGED <<faults, added, found>>

\* Mutant: only the call that lost a race asks for a prune.
Decrement_PruneLate(c) ==
    LET d == found[c]
        lost == count[d] - 1 < 0
        spent == wantPrune[c] \/ lost
    IN
    /\ check[c] = "decrement"
    /\ count' = [count EXCEPT ![d] = @ - 1]
    /\ check' = [check EXCEPT ![c] = IF lost THEN "match" ELSE "struck"]
    /\ wantPrune' = [wantPrune EXCEPT ![c] = spent]
    /\ prunes' = IF spent /\ ~lost THEN prunes \cup {c} ELSE prunes
    /\ UNCHANGED <<faults, added, found>>

\* The atomic decrement, the retry if another call took the last strike, and
\* otherwise the fault with the start of the prune goroutine.
Decrement(c) ==
    LET d == found[c]
        lost == count[d] - 1 < 0
        spent == wantPrune[c] \/ count[d] - 1 <= 0
    IN
    /\ check[c] = "decrement"
    /\ count' = [count EXCEPT ![d] = @ - 1]
    /\ check' = [check EXCEPT ![c] = IF lost THEN "match" ELSE "struck"]
    /\ wantPrune' = [wantPrune EXCEPT ![c] = spent]
    /\ prunes' = IF spent /\ ~lost THEN prunes \cup {c} ELSE prunes
    /\ UNCHANGED <<faults, added, found>>

\* One of the goroutines removes every spent description.
PruneFaults(c) ==
    /\ c \in prunes
    /\ prunes' = prunes \ {c}
    /\ faults' = {d \in faults : count[d] > 0}
    /\ UNCHANGED <<added, count, check, found, wantPrune>>

CheckStep(c) == Match(c) \/ Decrement(c)

FaultNext ==
    \/ \E d \in Faults : Add(d)
    \/ \E c \in Calls : BeginCheck(c) \/ CheckStep(c) \/ PruneFaults(c)

FaultSpec == FaultInit /\ [][FaultNext]_faultVars

-----------------------------------------------------------------------------
(* Properties *)

Left(d) == IF d \in added /\ count[d] > 0 THEN count[d] ELSE 0
Verdict(c) ==
    IF check[c] \in {"passed", "struck"} THEN check[c] ELSE "open"

Promise == INSTANCE AtMostCount WITH
    remaining <- [d \in Faults |-> Left(d)],
    configured <- added,
    verdict <- [c \in Calls |-> Verdict(c)]

\* The lock-free Check implements the promise: a fault strikes exactly as
\* often as it was configured to, and no call slips through while a fault
\* that matches it is left, although calls read a counter, decrement it and
\* prune the list in separate steps.
StrikesAsConfigured == Promise!AbstractSpec

\* A spent fault leaves the set, although a call that lost the race for the
\* last strike may return without pruning.
SpentIsPruned ==
    \A d \in Faults : (d \in added /\ count[d] <= 0) ~> d \notin faults
=============================================================================
