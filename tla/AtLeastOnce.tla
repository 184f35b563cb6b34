---------------------------- MODULE AtLeastOnce -----------------------------
(***************************************************************************)
(* What a subscription promises its clients about each delivery, without   *)
(* time, rows or transactions.  Once accepted, a delivery is outstanding   *)
(* until it is acknowledged or its retention ends, and may meanwhile be    *)
(* handed out any number of times.  An outstanding delivery is never       *)
(* thrown away, one whose retention ended is never handed out again, and   *)
(* one that is gone never comes back.  Only a seek acknowledges what       *)
(* nobody received, and only a seek takes an acknowledgement back.         *)
(***************************************************************************)
CONSTANT Items    \* deliveries

VARIABLE state    \* [Items -> States]

\* "lapsed": past the retention of the message, or of the subscription.
States == {"none", "queued", "handed", "done", "lapsed", "gone"}

StateInit == state = [i \in Items |-> "none"]

\* Some items are never used.
Accepting == {<<"none", "queued">>, <<"none", "lapsed">>, <<"none", "gone">>}
\* Handing out again changes nothing.
Handing == {<<"queued", "handed">>}
\* A late acknowledgement still counts.
Acking == {<<"handed", "done">>, <<"lapsed", "done">>}
Lapsing == {<<"queued", "lapsed">>, <<"handed", "lapsed">>}
Forgetting == {<<"done", "gone">>, <<"lapsed", "gone">>}
Seeking == {<<"queued", "done">>, <<"handed", "done">>, <<"lapsed", "done">>,
            <<"done", "queued">>, <<"done", "handed">>}

\* One transaction moves many deliveries, each by one of the moves.
Step(moves) ==
    \A i \in Items :
       state'[i] = state[i] \/ <<state[i], state'[i]>> \in moves

\* Time passes while a message is accepted, and a dead-lettering
\* acknowledges, accepts and hands out in one transaction.
Work == Step(Accepting \cup Handing \cup Acking \cup Lapsing)
Forget == Step(Forgetting)
Seek == Step(Seeking)

StateNext == state' \in [Items -> States] /\ (Work \/ Forget \/ Seek)

StateSpec == StateInit /\ [][StateNext]_state

\* One delivery at a time, for the clients that are composed with this module.
Move(i, s) == state' = [state EXCEPT ![i] = s]
AcceptOne(i) == state[i] = "none" /\ Move(i, "queued")
HandOne(i) == state[i] \in {"queued", "handed"} /\ Move(i, "handed")
AckOne(i) == state[i] = "handed" /\ Move(i, "done")
=============================================================================
