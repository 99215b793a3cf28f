------------------------------ MODULE MCDelphi ------------------------------
(***************************************************************************)
(* Instances of Delphi for TLC, with a scheduler like that of MCBinAA.     *)
(***************************************************************************)
EXTENDS Delphi, TLC

CONSTANTS n1, n2, n3, n4,
          Joiners,           \* the possible sets of nodes that join high
          Prompt             \* the nodes whose messages are never delayed when the
                             \* nodes do not join half high and half low

Joined == {[p \in Node |-> IF p \in S THEN HighVal ELSE LowVal] : S \in Joiners}

Rank == (n1 :> 1) @@ (n2 :> 2) @@ (n3 :> 3) @@ (n4 :> 4)
First(S) == CHOOSE p \in S : \A q \in S : Rank[p] <= Rank[q]

Senders(p) == {q \in Node : link[q][p] # <<>>}

Busy(p) ==
    Live(p) /\ \/ node[p].round = -1 \/ node[p].out # <<>>
               \/ node[p].round >= 0 /\ Senders(p) # {}

PromptStep(p) ==
    \/ Join(p)
    \/ ForwardResult(p)
    \/ /\ node[p].out = <<>> /\ Senders(p) # {}
       /\ Deliver(First(Senders(p)), p)

\* A node that has everything it can still be sent next in front of it.
Settled(p) ==
    Busy(p) /\ \/ node[p].round \in {-1, Rounds + 1}
               \/ Senders(p) = Node \ {p}

\* Prompt nodes do what they can, in a fixed order, then a settled node, then any.
PromptFirst ==
    LET busy    == {p \in Prompt : Busy(p)}
        settled == {p \in Node : Settled(p)}
    IN  \/ busy # {} /\ PromptStep(First(busy))
        \/ busy = {} /\ settled # {} /\ Step(First(settled))
        \/ busy = {} /\ settled = {} /\ \E p \in Node : Step(p)

\* How much a node still has to do, most of all to join and to hand its result over.
Load(p) ==
    LET Of(q) == IF q \in Senders(p) THEN Len(link[q][p]) ELSE 0
    IN  IF node[p].round = -1 \/ node[p].out # <<>> THEN 2 ^ 10
        ELSE Of(n1) + Of(n2) + Of(n3) + Of(n4)

\* The node with the most to do hears a longest link, n4 any of those that are: all
\* nodes keep step.
InStep ==
    LET busy    == {p \in Node : Busy(p)}
        next    == First({p \in busy : \A q \in busy : Load(q) <= Load(p)})
        Len1(q) == Len(link[q][next])
        longest == {q \in Senders(next) : \A s \in Senders(next) : Len1(s) <= Len1(q)}
    IN  /\ busy # {}
        /\ \/ Join(next)
           \/ ForwardResult(next)
           \/ /\ node[next].out = <<>>
              /\ \E q \in longest : (next = n4 \/ q = First(longest)) /\ Deliver(q, next)

\* With two camps every checkpoint is contested, in whatever order messages come.
TwoCamps == 2 * Cardinality({p \in Node : node[p].value = HighVal}) = NumNodes

ScheduledStep == IF TwoCamps THEN InStep ELSE PromptFirst

\* Every behaviour of PromptSpec is one of Spec.
PromptSpec == Init /\ [][ScheduledStep]_vars
=============================================================================
