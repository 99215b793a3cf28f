------------------------------- MODULE Delphi -------------------------------
(***************************************************************************)
(* The Delphi task of one instance at every node, as BinAA, with the       *)
(* levels and the messages the code has: intervals that split as their     *)
(* checkpoints part, messages coalesced over levels, and a result          *)
(* aggregated from what the last round ended with.                         *)
(*                                                                         *)
(* A node is a record: `value` (the value it joined with), `round`,        *)
(* `levels`, `out` and `blocked` (as in BinAA) and `sent`.  As in BinAA, a *)
(* handler is one step, and a node's own ECHO1 completes nothing.  Nodes   *)
(* do not stop: nothing here is about progress, and a node that stopped is *)
(* one that takes no further step.                                         *)
(***************************************************************************)
EXTENDS Level

CONSTANTS
    LowVal, HighVal,    \* what AACS joins an instance with
    Inputs              \* set of possible inputs, each from nodes to these

ASSUME DelphiAssumption ==
    /\ LowVal \in Nat /\ HighVal \in Nat /\ LowVal < HighVal
    /\ Inputs \subseteq [Node -> {LowVal, HighVal}]
    \* What a value weighs lies within the range of a point.
    /\ \A v \in {LowVal, HighVal}, l \in Levels :
          MinPoint < AroundFrom(v, l) /\ AroundTo(v, l) < MaxPoint

VARIABLES
    node,      \* the state of each node's task
    link,      \* link[p][q]: messages on their way from p to q, oldest first
    output     \* the results that reached res_sender, as <<node, value>>

vars == <<node, link, output>>

\* What is said of the levels is coalesced and sent, if anything is said.
Message(kind, r, echos) == [kind |-> kind, round |-> r, echos |-> Coalesce(echos)]

Broadcast(nd, kind, r, echos) == [nd EXCEPT !.sent = Append(@, Message(kind, r, echos))]

BroadcastAny(nd, kind, r, echos) ==
    IF DOMAIN echos = {} THEN nd ELSE Broadcast(nd, kind, r, echos)

\* What a node makes of the levels that a message speaks about once it is expanded.
Answers(nd, res) ==
    LET NonEmpty(kind) == [l \in {k \in DOMAIN res : res[k][kind] # <<>>} |-> res[l][kind]]
    IN  [nd    |-> [nd EXCEPT !.levels = [l \in Levels |->
                       IF l \in DOMAIN res THEN res[l].ints ELSE @[l]]],
         echo1 |-> NonEmpty("echo1"),
         echo2 |-> NonEmpty("echo2")]

HearLevels(nd, heard, r, sender) ==
    Answers(nd, [l \in DOMAIN heard |-> LevelEcho(nd.levels[l], heard[l], r, sender)])

AddEchoes(nd, m, sender) == HearLevels(nd, Expanded(m.echos), m.round, sender)

HearLevels2(nd, heard, r, sender) ==
    [nd EXCEPT !.levels = [l \in Levels |->
        IF l \in DOMAIN heard THEN LevelEcho2(@[l], heard[l], r, sender) ELSE @[l]]]

AddEchoes2(nd, m, sender) == HearLevels2(nd, Expanded(m.echos), m.round, sender)

TerminatedRound(nd, r) == \A l \in Levels : LevelTerminated(nd.levels[l], r)

\* What the node amplifies goes out.
Amplified(res, r) == BroadcastAny(res.nd, "ECHO1", r, res.echo1)

\* The result waits in consensus_tx, which holds one.
SendResult(nd) ==
    IF nd.out = <<>> THEN [nd EXCEPT !.out = <<Aggregate(nd.levels, nd.value)>>]
                     ELSE [nd EXCEPT !.blocked = TRUE]

\* Round r begins at all levels: the node sends what it begins with and hears it.
Begin(nd, p, r, begun) ==
    LET own == Message("ECHO1", r, [l \in Levels |-> begun[l].echo])
        new == [nd EXCEPT !.round = r, !.levels = [l \in Levels |-> begun[l].ints],
                          !.sent  = Append(@, own)]
    IN  Amplified(AddEchoes(new, own, p), r)

StartBaa(nd, p, r) ==
    IF r > Rounds
    THEN SendResult([nd EXCEPT !.round = r])
    ELSE Begin(nd, p, r, [l \in Levels |-> LevelStart(nd.levels[l], r, p, nd.value)])

Passed(nd, m) == nd.round > m.round

GoOn(nd, p, r) == IF TerminatedRound(nd, r) THEN StartBaa(nd, p, r + 1) ELSE nd

ProcessBaaEcho2(nd, p, m, sender) ==
    IF Passed(nd, m) THEN nd ELSE GoOn(AddEchoes2(nd, m, sender), p, m.round)

\* The node sends what it heard enough of, hears its own ECHO2, and goes on if the round
\* was over before that.
Answer(res, p, r) ==
    LET amplified == Amplified(res, r)
        voted     == IF DOMAIN res.echo2 = {} THEN amplified
                     ELSE ProcessBaaEcho2(Broadcast(amplified, "ECHO2", r, res.echo2),
                                          p, Message("ECHO2", r, res.echo2), p)
    IN  IF TerminatedRound(res.nd, r) THEN StartBaa(voted, p, r + 1) ELSE voted

ProcessBaaEcho(nd, p, m, sender) ==
    IF Passed(nd, m) THEN nd ELSE Answer(AddEchoes(nd, m, sender), p, m.round)
-----------------------------------------------------------------------------
(* The system.                                                             *)

Idle(v) ==
    [value |-> v, round |-> -1, levels |-> [l \in Levels |-> NewLevel(v, l)],
     out |-> <<>>, blocked |-> FALSE, sent |-> <<>>]

Init ==
    /\ \E input \in Inputs : node = [p \in Node |-> Idle(input[p])]
    /\ link = [p \in Node |-> [q \in Node |-> <<>>]]
    /\ output = {}

Live(p) == ~node[p].blocked

\* p's task takes the step to nd and its broadcasts go out; `lk` are the links
\* once the handled message is gone.
Run(p, nd, lk) ==
    /\ node' = [node EXCEPT ![p] = [nd EXCEPT !.sent = <<>>]]
    /\ link' = [lk EXCEPT ![p] =
                  [q \in Node |-> IF q = p THEN <<>> ELSE @[q] \o nd.sent]]

Join(p) ==
    /\ Live(p) /\ node[p].round = -1
    /\ Run(p, StartBaa(node[p], p, 0), link)
    /\ UNCHANGED output

Deliver(q, p) ==
    /\ Live(p) /\ node[p].round >= 0 /\ link[q][p] # <<>>
    /\ LET m == Head(link[q][p])
       IN  Run(p, IF m.kind = "ECHO1" THEN ProcessBaaEcho(node[p], p, m, q)
                                      ELSE ProcessBaaEcho2(node[p], p, m, q),
               [link EXCEPT ![q][p] = Tail(@)])
    /\ UNCHANGED output

ForwardResult(p) ==
    /\ Live(p) /\ node[p].out # <<>>
    /\ node' = [node EXCEPT ![p].out = <<>>]
    /\ output' = output \union {<<p, node[p].out[1]>>}
    /\ UNCHANGED link

Step(p) == Join(p) \/ ForwardResult(p) \/ \E q \in Node : Deliver(q, p)

Next == \E p \in Node : Step(p)

Spec == Init /\ [][Next]_vars
-----------------------------------------------------------------------------
(* Every checkpoint runs the binary agreement BinAA specifies.             *)

\* The points that tell the intervals of a level apart: each may begin or end one.
Bounds(l) ==
    UNION {{AroundFrom(input[p], l), AroundTo(input[p], l)} : p \in Node, input \in Inputs}

Checkpoints == UNION {{l} \X ({MinPoint} \union Bounds(l)) : l \in Levels}

Weighed(v, c) ==
    IF AroundFrom(v, c[1]) <= c[2] /\ c[2] < AroundTo(v, c[1]) THEN MaxInput ELSE 0

CheckpointMessage(m) ==
    LET heard == Expanded(m.echos)
    IN  [kind |-> m.kind, round |-> m.round,
         vals |-> [c \in {d \in Checkpoints : /\ d[1] \in DOMAIN heard
                                              /\ \E i \in DOMAIN heard[d[1]] :
                                                    Covers(heard[d[1]][i], d[2])}
                   |-> At(heard[c[1]], c[2]).val]]

CheckpointNode(nd) ==
    [input |-> [c \in Checkpoints |-> Weighed(nd.value, c)],
     round |-> nd.round,
     rs    |-> [c \in Checkpoints |-> At(nd.levels[c[1]], c[2]).state],
     out   |-> Len(nd.out), blocked |-> nd.blocked, sent |-> <<>>]

PerCheckpoint == INSTANCE BinAA WITH
    Inputs <- {[p \in Node |-> [c \in Checkpoints |-> Weighed(input[p], c)]] : input \in Inputs},
    node   <- [p \in Node |-> CheckpointNode(node[p])],
    link   <- [p \in Node |-> [q \in Node |->
                 [i \in DOMAIN link[p][q] |-> CheckpointMessage(link[p][q][i])]]],
    output <- {o[1] : o \in output},
    crashed <- {}, MaxCrashes <- 0
-----------------------------------------------------------------------------
(* Properties.                                                             *)

\* Type invariant: the intervals of a level are in order and cover everything.
TypeOK ==
    /\ \A p \in Node : \A l \in Levels :
          LET ints == node[p].levels[l]
          IN  /\ ints[1].start = MinPoint /\ Last(ints).end = MaxPoint
              /\ \A i \in 1 .. Len(ints) - 1 :
                    ints[i].start < ints[i].end /\ ints[i].end = ints[i + 1].start
    /\ \A p \in Node : node[p].round \in -1 .. Rounds + 1 /\ Len(node[p].out) <= 1
    /\ {o[1] : o \in output} \subseteq Node

\* "an interval can represent multiple checkpoints if they have identical state"
\* (interval.rs:10), "This coalescing and expanding saves network bandwidth"
\* (baainit.rs:140): splitting, compressing and coalescing change nothing, every
\* checkpoint is agreed on as BinAA does.
RunsPerCheckpoint == PerCheckpoint!Spec

\* "If any checkpoint receives more than t+1 ECHO1s on a value, this node amplifies that
\* ECHO1" (baainit.rs:46), and no other: what at most f nodes begin a round with, nobody
\* ends it with, unless a third value is heard of.
LoneValueLoses == PerCheckpoint!LoneValueLoses

\* "This function contains the aggregation logic" (baainit.rs:197), with midpoints and
\* lengths that wrap and weights that may vanish: a result lies between what nodes joined
\* with, give or take a checkpoint.
OutputsInRange ==
    \A o \in output :
        /\ \E p \in Node : node[p].value - Rho <= o[2]
        /\ \E p \in Node : o[2] <= node[p].value + Rho

\* The side of a value, as handle_delphi_result of AACS tells it.
Side(v) == IF v > Quotient(HighVal + LowVal, 2) THEN "high" ELSE "low"

\* An instance does for AACS what Outcome promises: whatever was split, coalesced,
\* amplified and aggregated, a node has a result only when n - f nodes have joined, itself
\* among them, and on the side of a value that one of them joined with.
Promised == INSTANCE Outcome WITH
    Quorums  <- {S \in SUBSET Node : Cardinality(S) + NumFaults >= NumNodes},
    SameSide <- FALSE,
    joined   <- [p \in Node |-> IF node[p].round = -1 THEN "no" ELSE Side(node[p].value)],
    ended    <- [p \in Node |->
                   IF \E o \in output : o[1] = p
                   THEN Side((CHOOSE o \in output : o[1] = p)[2]) ELSE "no"]

KeepsPromise == Promised!Spec
=============================================================================
