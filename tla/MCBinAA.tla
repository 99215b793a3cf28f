------------------------------ MODULE MCBinAA ------------------------------
(***************************************************************************)
(* Instances of BinAA for TLC: inputs, and a scheduler that bounds the     *)
(* interleavings of four nodes.                                            *)
(***************************************************************************)
EXTENDS BinAA, TLC

CONSTANTS n1, n2, n3, n4,
          Prompt    \* the nodes whose messages are never delayed when all join alike

\* The two inputs of the agreement on index sets are far apart: a node that
\* joins with the high value weighs the checkpoints "hi" around it and no other,
\* one that joins low those in "lo"; nobody weighs "zero".
JoinHigh(S) ==
    [p \in Node |-> [c \in Checkpoints |->
        IF c = (IF p \in S THEN "hi" ELSE "lo") THEN MaxInput ELSE 0]]

AllHigh == {JoinHigh(Node)}
TwoLow  == {JoinHigh(Node \ {n1, n2})}
AllHighOrTwoLow == AllHigh \union TwoLow

Rank == (n1 :> 1) @@ (n2 :> 2) @@ (n3 :> 3) @@ (n4 :> 4)
First(S) == CHOOSE p \in S : \A q \in S : Rank[p] <= Rank[q]

Senders(p) == {q \in Node : link[q][p] # <<>>}

\* A node that has everything it can still be sent next in front of it: what the
\* others do cannot change what it can do, so it may as well go first.
Settled(p) ==
    Busy(p) /\ \/ node[p].round \in {-1, Rounds + 1}
               \/ Senders(p) = Node \ {p}

\* A prompt node does what it can at once, in a fixed order.
PromptStep(p) ==
    \/ Join(p)
    \/ ForwardResult(p)
    \/ /\ node[p].out = 0 /\ Senders(p) # {}
       /\ Deliver(First(Senders(p)), p)

\* When they do not all join alike, n2 is the only one to be delayed.
PromptNow == IF Alike THEN Prompt ELSE Node \ {n2}

\* The scheduler: prompt nodes, then a settled node, then any node.
ScheduledStep ==
    LET busy    == {p \in PromptNow : Busy(p)}
        settled == {p \in Node : Settled(p)}
    IN  \/ busy # {} /\ PromptStep(First(busy))
        \/ busy = {} /\ settled # {} /\ Step(First(settled))
        \/ busy = {} /\ settled = {} /\ \E p \in Node : Step(p)

\* Every behaviour of PromptSpec is one of Spec.
PromptSpec == Init /\ [][ScheduledStep \/ (Alike /\ Crash(n4))]_vars
PromptFairSpec == PromptSpec /\ Fairness
=============================================================================
