------------------------------ MODULE MCStress ------------------------------
(***************************************************************************)
(* Publishes that race for the only strike of an injected fault.           *)
(***************************************************************************)
EXTENDS StressClient

MCCalls == 1 .. NumMessages
MCCount == [d \in Faults |-> 1]
MCMatching == [c \in Calls |-> Faults]
=============================================================================
