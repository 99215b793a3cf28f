------------------------------- MODULE AACS --------------------------------
(***************************************************************************)
(* The agreement on a common set of transcripts (consensus/aacs,           *)
(* context.rs), at every node.  Transcripts are named by the node that     *)
(* made them.  A leader proposes the first n - f transcripts it holds; a   *)
(* node joins a leader's Delphi instance with the high value once it holds *)
(* all of them, and with the low value once another instance was decided   *)
(* high; the output is the union of the index sets decided high.           *)
(*                                                                         *)
(* Delphi is taken here by what it promises (DelphiMay).  A node is        *)
(* single-threaded: a handler is one step.  Links are reliable; a node     *)
(* that crashes loses any part of what it had still to send.  Messages of  *)
(* one link are not kept in order, which only adds behaviours.             *)
(***************************************************************************)
EXTENDS Integers, FiniteSets

CONSTANTS
    Node,         \* the nodes
    NumFaults,    \* num_faults
    Kappa,        \* kappa, the number of leaders
    MaxCrashes,   \* how many nodes may stop
    SameSide      \* do the results of one Delphi instance fall on the same side
                  \* of (high_val + low_val) / 2 at all nodes?

ASSUME AACSAssumption ==
    /\ IsFiniteSet(Node)
    /\ NumFaults \in Nat /\ Kappa \in Nat /\ MaxCrashes \in Nat
    /\ NumFaults < Cardinality(Node)
    /\ Kappa \in 1 .. Cardinality(Node)
    /\ SameSide \in BOOLEAN

VARIABLES
    leaders,               \* select_set of the common coin: the same everywhere
    shared,                \* nodes whose own transcript came from the VSS
    trans_buffer,          \* trans_buffer[p]: whose transcripts p holds
    indices_broadcasted,   \* leaders that have proposed
    indices_buffer,        \* indices_buffer[p][l]: l's index set, {} if absent
    delphi_joined,         \* delphi_joined[p][l]: "no", or the value joined with
    delphi_terminated,     \* delphi_terminated[p]: instances with a result
    indices_decided,       \* indices_decided[p]: instances decided high
    final_set,             \* final_set[p], {} while undecided
    result,                \* result[p]: what res_send carried, {} before
    transMsgs,             \* RBCTrans in flight, as <<from, to>>
    indexMsgs,             \* RBCIndexSet in flight
    crashed                \* nodes that stopped

vars == <<leaders, shared, trans_buffer, indices_broadcasted, indices_buffer,
          delphi_joined, delphi_terminated, indices_decided, final_set, result,
          transMsgs, indexMsgs, crashed>>

delphiVars == <<delphi_terminated, indices_decided>>

Quorum == Cardinality(Node) - NumFaults

IndexMsg(l, q, set) == [from |-> l, to |-> q, indices |-> set]

\* select_set shuffles the nodes with the coin as seed and takes the first kappa.
SelectSet(kappa) == {S \in SUBSET Node : Cardinality(S) = kappa}

Init ==
    /\ leaders \in SelectSet(Kappa)
    /\ shared = {}
    /\ trans_buffer = [p \in Node |-> {}]
    /\ indices_broadcasted = {}
    /\ indices_buffer = [p \in Node |-> [l \in Node |-> {}]]
    /\ delphi_joined = [p \in Node |-> [l \in Node |-> "no"]]
    /\ delphi_terminated = [p \in Node |-> {}]
    /\ indices_decided = [p \in Node |-> {}]
    /\ final_set = [p \in Node |-> {}]
    /\ result = [p \in Node |-> {}]
    /\ transMsgs = {}
    /\ indexMsgs = {}
    /\ crashed = {}

-----------------------------------------------------------------------------
(* What the handlers share.                                                *)

\* What p sends to everyone, itself too.
Broadcast(p) == {p} \X Node

\* An index set is worth the high value once it is there in full: until then the
\* node does not join.
JoinValueEager(set, buf) == IF set # {} THEN "high" ELSE "no"
JoinValueHasty(set, buf) ==
    IF set = {} THEN "no" ELSE IF set \subseteq buf THEN "high" ELSE "low"
JoinValue(set, buf) == IF set # {} /\ set \subseteq buf THEN "high" ELSE "no"

\* A leader proposes the first n - f transcripts, once.
MayProposeSoon(p, buf) ==
    p \in leaders \ indices_broadcasted /\ Cardinality(buf) = NumFaults
MayPropose(p, buf) ==
    p \in leaders \ indices_broadcasted /\ Cardinality(buf) = Quorum

\* check_final_set: can the result go out?
CompleteUnheld(set, buf) == set # {}
Complete(set, buf) == set # {} /\ set \subseteq buf

\* check_final_set, run with final set `set` and transcripts `buf`: the result
\* goes out once, when every transcript of a non-empty final set is there.
CheckFinalSet(p, set, buf) ==
    result' = IF result[p] = {} /\ Complete(set, buf)
              THEN [result EXCEPT ![p] = set] ELSE result

\* Are the instances `term` all there are?
AllEndedEarly(term) == Cardinality(term) >= Kappa - 1
AllEnded(term) == Cardinality(term) >= Kappa

\* check_termination_condition, run with instances `term` terminated, `dec` of
\* them decided high, and index sets `idx`: the final set is their union.
CheckTermination(p, term, dec, idx) ==
    IF AllEnded(term) /\ \A l \in dec : idx[l] # {}
    THEN LET set == UNION {idx[l] : l \in dec}
         IN  /\ final_set' = [final_set EXCEPT ![p] = set]
             /\ CheckFinalSet(p, set, trans_buffer[p])
    ELSE UNCHANGED <<final_set, result>>

-----------------------------------------------------------------------------
(* The handlers of the run loop.                                           *)

\* trans_recv: the VSS hands over the node's own transcript, broadcast to all.
ShareTranscript(p) ==
    /\ p \notin shared \union crashed
    /\ shared' = shared \union {p}
    /\ transMsgs' = transMsgs \union Broadcast(p)
    /\ UNCHANGED <<leaders, trans_buffer, indices_broadcasted, indices_buffer,
                   delphi_joined, delphiVars, final_set, result, indexMsgs, crashed>>

\* RBCTrans: a leader that holds exactly n - f transcripts proposes them; every
\* buffered index set that is now complete is joined with the high value.
ReceiveTranscript(q, p) ==
    /\ p \notin crashed /\ <<q, p>> \in transMsgs
    /\ transMsgs' = transMsgs \ {<<q, p>>}
    /\ LET buf == trans_buffer[p] \union {q}
       IN  /\ trans_buffer' = [trans_buffer EXCEPT ![p] = buf]
           /\ IF MayPropose(p, buf)
              THEN /\ indices_broadcasted' = indices_broadcasted \union {p}
                   /\ indexMsgs' = indexMsgs \union {IndexMsg(p, r, buf) : r \in Node}
              ELSE UNCHANGED <<indices_broadcasted, indexMsgs>>
           /\ delphi_joined' = [delphi_joined EXCEPT ![p] = [l \in Node |->
                 IF @[l] = "no" THEN JoinValue(indices_buffer[p][l], buf) ELSE @[l]]]
           /\ CheckFinalSet(p, final_set[p], buf)
    /\ UNCHANGED <<leaders, shared, indices_buffer, delphiVars, final_set, crashed>>

\* RBCIndexSet from somebody who is no leader, of the wrong size, or of an
\* instance this node has joined already is dropped.
Dropped(m) ==
    \/ m.from \notin leaders
    \/ Cardinality(m.indices) # Quorum
    \/ delphi_joined[m.to][m.from] # "no"

ReceiveIndexSet(m) ==
    LET p == m.to
        l == m.from
        idx == [indices_buffer[p] EXCEPT ![l] = m.indices]
    IN  /\ p \notin crashed /\ m \in indexMsgs
        /\ indexMsgs' = indexMsgs \ {m}
        /\ IF Dropped(m)
           THEN UNCHANGED <<indices_buffer, delphi_joined, final_set, result>>
           ELSE /\ indices_buffer' = [indices_buffer EXCEPT ![p] = idx]
                /\ delphi_joined' = [delphi_joined EXCEPT ![p][l] =
                                         JoinValue(m.indices, trans_buffer[p])]
                /\ CheckTermination(p, delphi_terminated[p], indices_decided[p], idx)
        /\ UNCHANGED <<leaders, shared, trans_buffer, indices_broadcasted,
                       delphiVars, transMsgs, crashed>>

\* What Delphi promises of instance l at p: a result on the `high` side (or the
\* low one) only after n - f nodes joined, p among them, and only if somebody
\* joined with that value; and, if SameSide, on the side seen elsewhere.
DelphiMay(l, p, high) ==
    /\ delphi_joined[p][l] # "no" /\ l \notin delphi_terminated[p]
    /\ Cardinality({q \in Node : delphi_joined[q][l] # "no"}) >= Quorum
    /\ \E q \in Node : delphi_joined[q][l] = IF high THEN "high" ELSE "low"
    /\ SameSide => \A q \in Node : l \in delphi_terminated[q] =>
                                      (l \in indices_decided[q] <=> high)

\* handle_delphi_result: a high decision makes the node join every instance it
\* has not joined with the low value.
HandleDelphiResult(l, p, high) ==
    /\ p \notin crashed /\ DelphiMay(l, p, high)
    /\ LET term == delphi_terminated[p] \union {l}
           dec  == IF high THEN indices_decided[p] \union {l} ELSE indices_decided[p]
       IN  /\ delphi_terminated' = [delphi_terminated EXCEPT ![p] = term]
           /\ indices_decided' = [indices_decided EXCEPT ![p] = dec]
           /\ delphi_joined' =
                 IF high THEN [delphi_joined EXCEPT ![p] = [k \in Node |->
                                 IF k \in leaders /\ @[k] = "no" THEN "low" ELSE @[k]]]
                         ELSE delphi_joined
           /\ CheckTermination(p, term, dec, indices_buffer[p])
    /\ UNCHANGED <<leaders, shared, trans_buffer, indices_broadcasted,
                   indices_buffer, transMsgs, indexMsgs, crashed>>

\* A node stops; any part of what it still had to send is lost.
Crash(p) ==
    /\ p \notin crashed /\ Cardinality(crashed) < MaxCrashes
    /\ crashed' = crashed \union {p}
    /\ \E lost \in SUBSET {m \in transMsgs : m[1] = p} : transMsgs' = transMsgs \ lost
    /\ \E lost \in SUBSET {m \in indexMsgs : m.from = p} : indexMsgs' = indexMsgs \ lost
    /\ UNCHANGED <<leaders, shared, trans_buffer, indices_broadcasted, indices_buffer,
                   delphi_joined, delphiVars, final_set, result>>

Step(p) ==
    \/ ShareTranscript(p)
    \/ \E q \in Node : ReceiveTranscript(q, p)
    \/ \E m \in {k \in indexMsgs : k.to = p} : ReceiveIndexSet(m)
    \/ \E l \in Node, high \in BOOLEAN : HandleDelphiResult(l, p, high)

Next == \E p \in Node : Step(p) \/ Crash(p)

Spec == Init /\ [][Next]_vars

\* Every node gets its transcript from the VSS, links deliver, Delphi instances
\* that n - f nodes joined end, and tokio polls a loop that has something to do.
\* Each of these happens once, so fairness of a node's steps as a whole is enough.
FairSpec == Spec /\ \A p \in Node : WF_vars(Step(p))
-----------------------------------------------------------------------------
(* Properties.                                                             *)

\* Type invariant; an index set in flight names n - f transcripts.
TypeOK ==
    /\ leaders \subseteq Node /\ shared \subseteq Node
    /\ trans_buffer \in [Node -> SUBSET Node]
    /\ indices_broadcasted \subseteq Node
    /\ indices_buffer \in [Node -> [Node -> SUBSET Node]]
    /\ delphi_joined \in [Node -> [Node -> {"no", "high", "low"}]]
    /\ delphi_terminated \in [Node -> SUBSET Node]
    /\ indices_decided \in [Node -> SUBSET Node]
    /\ final_set \in [Node -> SUBSET Node]
    /\ result \in [Node -> SUBSET Node]
    /\ transMsgs \subseteq Node \X Node
    /\ indexMsgs \subseteq [from : Node, to : Node,
                             indices : {S \in SUBSET Node : Cardinality(S) = Quorum}]
    /\ crashed \subseteq Node

\* Agreement of the common subset: any two nodes that hand transcripts to the key
\* generation hand over the same ones.  It rests on the kappa-th termination, on
\* leaders proposing once and on index sets outliving their message.
Agreement ==
    \A p \in Node, q \in Node :
        (result[p] # {} /\ result[q] # {}) => result[p] = result[q]

\* A node that has seen all instances end has one decided high to build its output
\* from: low values enter an instance only after a high decision elsewhere, so not
\* all instances can fall low (check_termination_condition, check_final_set).
SomethingDecided ==
    \A p \in Node : Cardinality(delphi_terminated[p]) >= Kappa => indices_decided[p] # {}

\* An output has at least n - f transcripts, so f + 1 of them are there to be used
\* by handle_acs_result of the key generation, and the node holds each of them.
ResultLargeEnough ==
    \A p \in Node : result[p] # {} =>
        Cardinality(result[p]) >= Quorum /\ result[p] \subseteq trans_buffer[p]

\* A set is decided high only if some node held every transcript of it when it
\* joined: each decided index set is held in full by somebody.
DecidedIsHeld ==
    \A p \in Node : \A l \in indices_decided[p] :
        \E q \in Node : /\ indices_buffer[q][l] # {}
                        /\ indices_buffer[q][l] \subseteq trans_buffer[q]

\* AACS implements CommonSubset: nothing a node hands over was not offered by its
\* owner, is less than n - f, or differs from what another node hands over; and it stands,
\* whatever index sets, transcripts and results of Delphi still arrive.
Promised == INSTANCE CommonSubset WITH
    Quorums <- {S \in SUBSET Node : Cardinality(S) >= Quorum},
    offered <- shared, output <- result
IsCommonSubset == Promised!Spec

\* What AACS takes of instance l, all that DelphiMay lets happen to it, is what Outcome
\* promises, and Delphi implements that.
Instance(l) == INSTANCE Outcome WITH
    Quorums <- {S \in SUBSET Node : Cardinality(S) >= Quorum},
    joined  <- [p \in Node |-> delphi_joined[p][l]],
    ended   <- [p \in Node |-> IF l \notin delphi_terminated[p] THEN "no"
                               ELSE IF l \in indices_decided[p] THEN "high" ELSE "low"]
TakesOutcome == \A l \in Node : Instance(l)!Spec

\* "All Delphi instances terminated, final set decided." (context.rs:258): every
\* node that stays up hands its output over.
EveryoneOutputs == <>(\A p \in Node : p \in crashed \/ result[p] # {})
=============================================================================
