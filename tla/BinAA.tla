------------------------------- MODULE BinAA -------------------------------
(***************************************************************************)
(* The Delphi task of one instance at every node (consensus/delphi,        *)
(* baainit.rs and context.rs): binary approximate agreement on each        *)
(* checkpoint, all checkpoints moving from round to round together.        *)
(*                                                                         *)
(* A node is one record: `input` (what it weighs each checkpoint with),    *)
(* `round` (self.round), `rs` (the RoundStateBin of each checkpoint and    *)
(* round), `out` (how many results consensus_tx holds), `blocked` (the     *)
(* task waits in a send that nobody else can drain) and `sent`, what it    *)
(* broadcasts in the current step.  A task handles one message at a time,  *)
(* so each handler is one step.                                            *)
(*                                                                         *)
(* Links are TcpReliableSender: reliable and first-in first-out between    *)
(* two nodes, unordered across nodes.  broadcast skips the sender itself.  *)
(***************************************************************************)
EXTENDS RoundStateBin

CONSTANTS
    Node,          \* the nodes
    NumFaults,     \* config.num_faults
    Checkpoints,   \* checkpoints of the levels, one per class that shares its state
    Rounds,        \* total_rounds_bin: rounds 0 .. Rounds are run
    Inputs,        \* set of possible inputs, each [Node -> [Checkpoints -> {0, MaxInput}]]
    MaxCrashes     \* how many nodes may stop

NumNodes      == Cardinality(Node)
MinThreshold  == NumFaults + 1
HighThresholdAll == NumNodes
HighThreshold == NumNodes - NumFaults
MaxInput      == 2 ^ (Rounds + 1)

\* HighThreshold >= 2: a node's own ECHO1 alone never completes a round.  The generated
\* configurations have more than 2f nodes (Node::validate).
ASSUME BinAAAssumption ==
    /\ IsFiniteSet(Node) /\ NumFaults \in Nat
    /\ HighThreshold >= 2 /\ NumNodes > 2 * NumFaults
    /\ Rounds \in Nat /\ MaxCrashes \in Nat
    /\ Inputs \subseteq [Node -> [Checkpoints -> {0, MaxInput}]]

\* Arithmetic, for the provers, which know nothing of powers.
ASSUME PowersOfTwo ==
    \A k \in 0 .. Rounds : 2 ^ k \in Nat \ {0} /\ 2 ^ (k + 1) = 2 * 2 ^ k

VARIABLES
    node,      \* the state of each node's task
    link,      \* link[p][q]: messages on their way from p to q, oldest first
    output,    \* the nodes whose result reached res_sender
    crashed    \* the nodes that stopped

vars == <<node, link, output, crashed>>

Msg(kind, r, vals) == [kind |-> kind, round |-> r, vals |-> vals]

Broadcast(nd, kind, r, vals) ==
    [nd EXCEPT !.sent = Append(@, Msg(kind, r, vals))]

-----------------------------------------------------------------------------
(* The parts of the handlers, as functions of a node record.               *)

\* What a checkpoint makes of an ECHO1 or an ECHO2 of round r.
CpEcho(nd, c, r, v, sender) ==
    HearEcho(nd.rs[c][r], v, sender, MinThreshold, HighThreshold)

CpEcho2(nd, c, r, v, sender) == HearEcho2(nd.rs[c][r], v, sender, HighThreshold)

\* Level::add_echo(2) over the checkpoints the message speaks about.
AddEchoes(nd, m, sender) ==
    LET res == [c \in DOMAIN m.vals |-> CpEcho(nd, c, m.round, m.vals[c], sender)]
        Said(f) == [c \in {d \in DOMAIN res : f[d] # NoVal} |-> f[c]]
    IN  [nd    |-> [nd EXCEPT !.rs = [c \in Checkpoints |->
                       IF c \in DOMAIN res THEN [@[c] EXCEPT ![m.round] = res[c].rs]
                                           ELSE @[c]]],
         echo1 |-> Said([c \in DOMAIN res |-> res[c].echo1]),
         echo2 |-> Said([c \in DOMAIN res |-> res[c].echo2])]

AddEchoes2(nd, m, sender) ==
    [nd EXCEPT !.rs = [c \in Checkpoints |->
        IF c \in DOMAIN m.vals
        THEN [@[c] EXCEPT ![m.round] = CpEcho2(nd, c, m.round, m.vals[c], sender)]
        ELSE @[c]]]

TerminatedRound(nd, r) == \A c \in Checkpoints : Terminated(nd.rs[c][r])

\* consensus_tx.send: the channel holds one result and only this task reads it.
SendResultUnbounded(nd) == [nd EXCEPT !.out = @ + 1]
SendResult(nd) ==
    IF nd.out = 0 THEN [nd EXCEPT !.out = 1] ELSE [nd EXCEPT !.blocked = TRUE]

AmplifyEcho(nd, r, echo1) ==
    IF echo1 = <<>> THEN nd ELSE Broadcast(nd, "ECHO1", r, echo1)

\* What start_round begins round r with: the input in round 0 (the value the node
\* weighs the checkpoint with), then what the round before ended with.
StartVal(nd, c, r) == IF r = 0 THEN nd.input[c] ELSE nd.rs[c][r - 1].term

\* start_baa: begin round r, or hand the result over after the last round.
\* start_round inserts a new RoundStateBin whatever the map holds for the round
\* already.  The node then hears its own ECHO1, which may be amplified but cannot
\* complete anything (HighThreshold >= 2).
StartBaa(nd, p, r) ==
    IF r > Rounds
    THEN SendResult([nd EXCEPT !.round = r])
    ELSE LET vals == [c \in Checkpoints |-> StartVal(nd, c, r)]
             new  == [nd EXCEPT !.round = r,
                                !.rs = [c \in Checkpoints |->
                                   [@[c] EXCEPT ![r] = NewWithEcho(vals[c], p)]]]
             own  == AddEchoes(Broadcast(new, "ECHO1", r, vals),
                               Msg("ECHO1", r, vals), p)
         IN  AmplifyEcho(own.nd, r, own.echo1)

\* A message of a round the node has left is ignored; one of a round it has not
\* reached is counted.
PassedByTwo(nd, m) == nd.round > m.round + 1
Passed(nd, m) == nd.round > m.round

ProcessBaaEcho2(nd, p, m, sender) ==
    IF Passed(nd, m) THEN nd
    ELSE LET new == AddEchoes2(nd, m, sender)
         IN  IF TerminatedRound(new, m.round) THEN StartBaa(new, p, m.round + 1) ELSE new

\* `terminated` is computed before the node hears its own ECHO2, and acted upon
\* after it, even if that ECHO2 has already started the next round.
ProcessBaaEcho(nd, p, m, sender) ==
    IF Passed(nd, m) THEN nd
    ELSE LET res        == AddEchoes(nd, m, sender)
             terminated == TerminatedRound(res.nd, m.round)
             amplified  == AmplifyEcho(res.nd, m.round, res.echo1)
             voted      == IF res.echo2 = <<>> THEN amplified
                           ELSE ProcessBaaEcho2(
                                  Broadcast(amplified, "ECHO2", m.round, res.echo2),
                                  p, Msg("ECHO2", m.round, res.echo2), p)
         IN  IF terminated THEN StartBaa(voted, p, m.round + 1) ELSE voted
-----------------------------------------------------------------------------
(* The system.                                                             *)

Idle(input) ==
    [input |-> input, round |-> -1,
     rs |-> [c \in Checkpoints |-> [k \in 0 .. Rounds |-> NoState]],
     out |-> 0, blocked |-> FALSE, sent |-> <<>>]

Init ==
    /\ \E input \in Inputs : node = [p \in Node |-> Idle(input[p])]
    /\ link = [p \in Node |-> [q \in Node |-> <<>>]]
    /\ output = {}
    /\ crashed = {}

Live(p) == p \notin crashed /\ ~node[p].blocked

\* p's task takes the step to nd and its broadcasts go out; `lk` are the links
\* once the handled message is gone.
Run(p, nd, lk) ==
    /\ node' = [node EXCEPT ![p] = [nd EXCEPT !.sent = <<>>]]
    /\ link' = [lk EXCEPT ![p] =
                  [q \in Node |-> IF q = p THEN <<>> ELSE @[q] \o nd.sent]]

\* The instance is joined with a value: run() calls start_baa(0).
Join(p) ==
    /\ Live(p) /\ node[p].round = -1
    /\ Run(p, StartBaa(node[p], p, 0), link)
    /\ UNCHANGED <<output, crashed>>

\* process_msg on the next message of the link from q.
Deliver(q, p) ==
    /\ Live(p) /\ node[p].round >= 0 /\ link[q][p] # <<>>
    /\ LET m == Head(link[q][p])
       IN  Run(p, IF m.kind = "ECHO1" THEN ProcessBaaEcho(node[p], p, m, q)
                                      ELSE ProcessBaaEcho2(node[p], p, m, q),
               [link EXCEPT ![q][p] = Tail(@)])
    /\ UNCHANGED <<output, crashed>>

\* The select loop moves the result from consensus_rx to res_sender.
ForwardResult(p) ==
    /\ Live(p) /\ node[p].out = 1
    /\ node' = [node EXCEPT ![p].out = 0]
    /\ output' = output \union {p}
    /\ UNCHANGED <<link, crashed>>

\* A node stops, and what its links have not carried yet is cut at any point.
Crash(p) ==
    /\ p \notin crashed /\ Cardinality(crashed) < MaxCrashes
    /\ crashed' = crashed \union {p}
    /\ \E kept \in [Node -> UNION {0 .. Len(link[p][q]) : q \in Node}] :
          /\ \A q \in Node : kept[q] <= Len(link[p][q])
          /\ link' = [link EXCEPT ![p] = [q \in Node |-> SubSeq(@[q], 1, kept[q])]]
    /\ UNCHANGED <<node, output>>

Step(p) == Join(p) \/ ForwardResult(p) \/ \E q \in Node : Deliver(q, p)

Next == \E p \in Node : Step(p) \/ Crash(p)

Spec == Init /\ [][Next]_vars

Busy(p) ==
    Live(p) /\ \/ node[p].round = -1 \/ node[p].out = 1
               \/ \E q \in Node : link[q][p] # <<>> /\ node[p].round >= 0

Moved(p) ==
    \/ node'[p] # node[p]
    \/ \E q \in Node : Len(link'[q][p]) < Len(link[q][p])

\* tokio polls a task that can run, and the network delivers: weak fairness of
\* ForwardResult(p), the one step that waits for no message, and of Step(p).  The
\* latter has its two parts written out, Busy(p) for ENABLED Step(p) and Moved(p) for
\* a step of p, as TLC evaluates them far more cheaply.  Each step uses up a message
\* or a stage of the task, so a task that keeps moving handles every link in the end:
\* fairness of the task as a whole is enough.
Fairness ==
    \A p \in Node : /\ WF_vars(ForwardResult(p))
                    /\ []<>~Busy(p) \/ []<><<Moved(p)>>_vars

FairSpec == Spec /\ Fairness
-----------------------------------------------------------------------------
(* Properties.                                                             *)

AnyVal == 0 .. MaxInput

\* Type invariant: the shape of every task and of every message in flight.
TypeOK ==
    /\ \A p \in Node :
          /\ node[p].round \in -1 .. Rounds + 1
          /\ \A c \in Checkpoints, r \in 0 .. Rounds :
                LET rs == node[p].rs[c][r]
                IN  /\ DOMAIN rs = {"slots", "echo1vals", "term"}
                    /\ Len(rs.slots) <= 2
                    /\ rs.echo1vals \subseteq AnyVal
                    /\ rs.term \in AnyVal \union {NoVal}
                    /\ \A i \in DOMAIN rs.slots :
                          /\ rs.slots[i].val \in AnyVal
                          /\ rs.slots[i].echo1 \union rs.slots[i].echo2 \subseteq Node
          /\ node[p].out \in 0 .. 1 /\ node[p].blocked \in BOOLEAN
          /\ node[p].sent = <<>>
          /\ \A q \in Node : \A i \in DOMAIN link[p][q] :
                /\ link[p][q][i].kind \in {"ECHO1", "ECHO2"}
                /\ link[p][q][i].round \in 0 .. Rounds
                /\ DOMAIN link[p][q][i].vals \subseteq Checkpoints
    /\ output \subseteq Node /\ crashed \subseteq Node

\* p began round r: it counted its own ECHO1, which nobody else can send it.  A node may
\* pass a round over: n - f ECHO2s of the next one, counted ahead of time, take it on.
Began(p, c, r) ==
    LET slots == node[p].rs[c][r].slots
    IN  slots # <<>> /\ p \in slots[1].echo1

\* The values round r was begun with on checkpoint c, and those it ended with.
StartVals(r, c) == {StartVal(node[p], c, r) : p \in {q \in Node : Began(q, c, r)}}
EndVals(r, c)   == {node[p].rs[c][r].term : p \in Node} \ {NoVal}

\* A round never leaves the range of the values it was begun with (validity of
\* approximate agreement), whoever is ahead or behind, and the next one begins with what
\* it ended with.
RoundValidity ==
    \A r \in 0 .. Rounds, c \in Checkpoints :
        /\ \A v \in EndVals(r, c) :
              \E lo \in StartVals(r, c), hi \in StartVals(r, c) : lo <= v /\ v <= hi
        /\ r < Rounds => StartVals(r + 1, c) \subseteq EndVals(r, c)

\* The values m voted (sent ECHO2) for, as far as anybody knows: it remembers its votes
\* of round 0; those of a later round it forgets when it begins the round.
Votes(m, r, c) ==
    node[m].rs[c][r].echo1vals \union
        IF r = 0 THEN {}
        ELSE {v \in AnyVal : \E p \in Node : \E i \in DOMAIN node[p].rs[c][r].slots :
                /\ node[p].rs[c][r].slots[i].val = v
                /\ m \in node[p].rs[c][r].slots[i].echo2}

\* Two nodes end a round with the two different values it was begun with only if the
\* ECHO2 quorums that decided them share n - 2f nodes that voted for both values: never
\* two disjoint camps.
OppositesShareVoters ==
    \A r \in 0 .. Rounds, c \in Checkpoints :
        \A v \in EndVals(r, c), w \in EndVals(r, c) :
            (v # w /\ StartVals(r, c) = {v, w}) =>
                Cardinality({m \in Node : {v, w} \subseteq Votes(m, r, c)})
                    >= NumNodes - 2 * NumFaults

\* What a node has left a round with is settled and rounds only go forward, though a
\* handler acts on `terminated` after its own ECHO2 has moved it on, and late ECHO2s may
\* overwrite a termination value.
PassedIsFinal ==
    [][\A p \in Node :
          /\ node'[p].round >= node[p].round
          /\ \A c \in Checkpoints, r \in 0 .. Rounds :
                r < node[p].round => node'[p].rs[c][r] = node[p].rs[c][r]]_vars

\* A value that at most f nodes weigh a checkpoint with loses it: every round of every
\* node ends with the other value, however late or early those f nodes are heard.
LoneInputLoses ==
    \A c \in Checkpoints, v \in {0, MaxInput} :
        Cardinality({p \in Node : node[p].input[c] = v}) <= NumFaults =>
            \A r \in 0 .. Rounds : EndVals(r, c) \subseteq {MaxInput - v}

\* "If any checkpoint receives more than t+1 ECHO1s on a value, this node amplifies that
\* ECHO1" (baainit.rs:46), and no other: what at most f nodes begin a round with, nobody
\* ends it with.
Beginners(v, r, c)  == {p \in Node : Began(p, c, r) /\ StartVal(node[p], c, r) = v}
LosesRound(v, r, c) == Cardinality(Beginners(v, r, c)) <= NumFaults => v \notin EndVals(r, c)

\* It is so of a round that no third value is heard of in, round 0 for one.
LoneValueLoses ==
    \A r \in 0 .. Rounds, c \in Checkpoints :
        Cardinality(StartVals(r, c)) <= 2 => \A v \in StartVals(r, c) : LosesRound(v, r, c)

\* It is said of every round.  Where a round ends with both values and their midpoint, the
\* next one counts the third value for the second.
LoneStartLoses ==
    \A r \in 0 .. Rounds, c \in Checkpoints, v \in {0, MaxInput} : LosesRound(v, r, c)

\* Nobody leaves round 0 before n - f nodes have joined.
EndsQuorate ==
    \A p \in Node : (Checkpoints # {} /\ node[p].round > 0) =>
        Cardinality({q \in Node : node[q].round >= 0}) >= HighThreshold

\* "If maximum number of rounds are run, terminate protocol by sending a Completed
\* message" (baainit.rs:113): a live node that has run all rounds hands its
\* result over.
CompletedDelivers ==
    \A p \in Node : (node[p].round > Rounds) ~> (p \in output \/ p \in crashed)

\* "Robust and Scalable ... for Asynchronous Networks" (README.md:1): every node that
\* stays up finishes the instance, whatever the order of messages and whoever of at
\* most f nodes stops.
EveryoneOutputs == <>(\A p \in Node : p \in output \/ p \in crashed)

\* It does so in one round, if all joined with the same.
Alike == \A p \in Node, q \in Node : node[p].input = node[q].input

AlikeOutput == Alike => EveryoneOutputs
=============================================================================
