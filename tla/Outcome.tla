------------------------------ MODULE Outcome ------------------------------
(***************************************************************************)
(* What one instance of Delphi promises the agreement on a common subset:  *)
(* it ends at a node only when n - f nodes have joined it, the node among  *)
(* them, and on a side that some node joined it with.  Delphi implements   *)
(* it, and AACS relies on it and, where it says so, on SameSide.           *)
(***************************************************************************)
CONSTANTS
    Node,
    Quorums,     \* the sets of n - f nodes or more
    SameSide     \* do all nodes see one instance end on the same side?

VARIABLES
    joined,    \* joined[p]: the side p joined with, "no" before
    ended      \* ended[p]: the side it ended on at p, "no" before

vars == <<joined, ended>>

Init ==
    /\ joined = [p \in Node |-> "no"]
    /\ ended = [p \in Node |-> "no"]

Join(p, side) ==
    /\ joined[p] = "no"
    /\ joined' = [joined EXCEPT ![p] = side]
    /\ UNCHANGED ended

End(p, side) ==
    /\ joined[p] # "no" /\ ended[p] = "no"
    /\ {q \in Node : joined[q] # "no"} \in Quorums
    /\ \E q \in Node : joined[q] = side
    /\ SameSide => \A q \in Node : ended[q] \in {"no", side}
    /\ ended' = [ended EXCEPT ![p] = side]
    /\ UNCHANGED joined

Next == \E p \in Node, side \in {"low", "high"} : Join(p, side) \/ End(p, side)

Spec == Init /\ [][Next]_vars
=============================================================================
