---------------------------- MODULE CommonSubset ----------------------------
(***************************************************************************)
(* What the agreement on a common subset promises the key generation: all  *)
(* nodes are handed one set, of n - f or more of the transcripts that were *)
(* offered.  AACS implements it, and LADKG relies on it and no more.       *)
(***************************************************************************)
CONSTANTS
    Node,
    Quorums    \* the sets of n - f nodes or more

VARIABLES
    offered,   \* nodes that have handed over their transcript
    output     \* output[p]: the set p was handed, {} before

vars == <<offered, output>>

Init ==
    /\ offered = {}
    /\ output = [p \in Node |-> {}]

Offer(p) ==
    /\ offered' = offered \union {p}
    /\ UNCHANGED output

Deliver(p, set) ==
    /\ output[p] = {}
    /\ set \in Quorums /\ set \subseteq offered
    /\ \A q \in Node : output[q] \in {{}, set}
    /\ output' = [output EXCEPT ![p] = set]
    /\ UNCHANGED offered

Next == \E p \in Node : Offer(p) \/ \E set \in Quorums : Deliver(p, set)

Spec == Init /\ [][Next]_vars
=============================================================================
