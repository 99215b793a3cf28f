--------------------------- MODULE KeyGeneration ---------------------------
(***************************************************************************)
(* What the key generation promises: nodes deal, every secret key sums the *)
(* same f + 1 dealers, and a public key is the one of n - f secret keys.   *)
(* A key is the set of dealers summed into it.  LADKG implements it.       *)
(***************************************************************************)
CONSTANTS
    Node,
    Keys,       \* the sets of f + 1 nodes
    Quorums     \* the sets of n - f nodes or more

VARIABLES
    dealt,     \* nodes whose sharing can be summed
    secret,    \* secret[p]: the key p has a share of, {} before
    public     \* public[p]: the public key p has rebuilt, {} before

vars == <<dealt, secret, public>>

Init ==
    /\ dealt = {}
    /\ secret = [p \in Node |-> {}]
    /\ public = [p \in Node |-> {}]

\* p's sharing is complete: it has a transcript.
Deal(p) ==
    /\ dealt' = dealt \union {p}
    /\ UNCHANGED <<secret, public>>

\* p has its share of the key, the same as everybody.
FormSecret(p) ==
    /\ secret[p] = {}
    /\ \E key \in Keys :
          /\ key \subseteq dealt
          /\ \A q \in Node : secret[q] \in {{}, key}
          /\ secret' = [secret EXCEPT ![p] = key]
    /\ UNCHANGED <<dealt, public>>

\* p has the public key of shares that n - f nodes have.
FormPublic(p) ==
    /\ public[p] = {}
    /\ \E key \in Keys :
          /\ {q \in Node : secret[q] = key} \in Quorums
          /\ public' = [public EXCEPT ![p] = key]
    /\ UNCHANGED <<dealt, secret>>

Next == \E p \in Node : Deal(p) \/ FormSecret(p) \/ FormPublic(p)

Spec == Init /\ [][Next]_vars
=============================================================================
