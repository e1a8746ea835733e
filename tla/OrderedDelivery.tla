--------------------------- MODULE OrderedDelivery --------------------------
(***************************************************************************)
(* What the queues between the threads promise to an EventReceiver: the    *)
(* events of one source are handled in the order in which they were        *)
(* dispatched, each once, and none is lost.                                *)
(***************************************************************************)
EXTENDS Naturals

CONSTANT Sources

VARIABLES sent, recv    \* per source: events dispatched, events handled

Init ==
    /\ sent = [s \in Sources |-> 0]
    /\ recv = [s \in Sources |-> 0]

Send(s) ==
    /\ sent' = [sent EXCEPT ![s] = @ + 1]
    /\ UNCHANGED recv

\* The next event of s, and no other, is handled.
Deliver(s) ==
    /\ recv[s] < sent[s]
    /\ recv' = [recv EXCEPT ![s] = @ + 1]
    /\ UNCHANGED sent

Next == \E s \in Sources : Send(s) \/ Deliver(s)

Spec == Init /\ [][Next]_<<sent, recv>>

\* Nothing stays in the queues for ever.
FairSpec == Spec /\ \A s \in Sources : WF_<<sent, recv>>(Deliver(s))
=============================================================================
