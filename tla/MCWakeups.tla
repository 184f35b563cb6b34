----------------------------- MODULE MCWakeups ------------------------------
(***************************************************************************)
(* Instances of Wakeups: who pulls what, and in which process.             *)
(***************************************************************************)
EXTENDS Wakeups, TLC

CONSTANTS p1, p2, s1, s2, w1, w2, r1

\* Two pulls of one subscription, and a writer, in one process; the pulls are
\* interchangeable.
OneSub == (w1 :> s1) @@ (w2 :> s1)
TogetherProcs == (w1 :> p1) @@ (w2 :> p1) @@ (r1 :> p1)
PullSymmetry == Permutations({w1, w2})

\* The second pull runs in the other process.
ApartProcs == (w1 :> p1) @@ (w2 :> p2) @@ (r1 :> p1)

Some(publishes, zeroDelays) ==
    ("publish" :> publishes) @@ ("zero delay" :> zeroDelays)
Fails(drops, sends, timeouts) ==
    ("drop" :> drops) @@ ("send" :> sends) @@ ("timeout" :> timeouts)

TwoPublishes == Some(2, 0)
OneOfEach == Some(1, 1)

OneDrop == Fails(1, 0, 0)
AllFaults == Fails(1, 1, 1)
=============================================================================
