------------------------------- MODULE Level -------------------------------
(***************************************************************************)
(* The levels of one Delphi instance at one node (consensus/delphi:        *)
(* level.rs, interval.rs, and coalesce, expand and aggregate of            *)
(* baainit.rs), as pure operations.                                        *)
(*                                                                         *)
(* Level l has a checkpoint every Sep(l) points.  Checkpoints with equal   *)
(* state share an Interval [start, end, state]; the intervals of a level   *)
(* are kept as the sequence the BTreeMap is walked in, and cover the whole *)
(* range of a machine integer.  An echo of a level is a sequence of        *)
(* [start, end, val]: one value for all checkpoints from start to end.     *)
(***************************************************************************)
EXTENDS RoundStateBin, SequencesExt

CONSTANTS
    Node,          \* the nodes
    NumFaults,     \* config.num_faults
    Rho,           \* separation of the checkpoints of level 0
    Exponent,      \* what the separation grows by from level to level
    TotalLevels,   \* total_levels
    Rounds,        \* total_rounds_bin
    Epsilon,       \* epsilon
    Width          \* bits of a Point and of a Val (64 in the code)

NumNodes      == Cardinality(Node)
MinThreshold  == NumFaults + 1
HighThresholdLow == NumNodes - NumFaults - 1
HighThreshold == NumNodes - NumFaults
MaxInput      == Exponent ^ (Rounds + 1)
Levels        == 0 .. TotalLevels - 1

MinPoint == -(2 ^ (Width - 1))
MaxPoint == 2 ^ (Width - 1) - 1

ASSUME LevelAssumption ==
    /\ IsFiniteSet(Node) /\ NumFaults \in Nat /\ HighThreshold >= 2
    /\ Rho \in Nat \ {0} /\ Exponent \in Nat \ {0} /\ Epsilon \in Nat \ {0}
    /\ TotalLevels \in Nat \ {0} /\ Rounds \in Nat /\ Width \in Nat \ {0}

\* Arithmetic, for the provers, which know nothing of powers.
ASSUME LevelPowers ==
    /\ 2 ^ (Width - 1) \in Nat \ {0} /\ MaxInput \in Nat \ {0}
    /\ 2 ^ Width = 2 * 2 ^ (Width - 1)
    /\ \A k \in 0 .. Rounds : 2 ^ k \in Nat \ {0} /\ 2 ^ (k + 1) = 2 * 2 ^ k
    /\ \A l \in Levels : /\ Exponent ^ l \in Nat \ {0}
                         /\ Exponent ^ (l + 1) = Exponent * Exponent ^ l

\* Division truncates towards zero.
Quotient(x, y) == IF x >= 0 THEN x \div y ELSE -((-x) \div y)

Sep(l) == Rho * Exponent ^ l

\* What level l weighs for a value: the checkpoints between the two.
AroundFrom(v, l) == (Quotient(v, Sep(l)) - 1) * Sep(l)
AroundTo(v, l)   == (Quotient(v, Sep(l)) + 2) * Sep(l)

Said(s, e, v) == [start |-> s, end |-> e, val |-> v]

Interval(s, e) ==
    [start |-> s, end |-> e, state |-> [r \in 0 .. Rounds |-> NoState]]

\* Level::new.
NewLevel(v, l) ==
    << Interval(MinPoint, AroundFrom(v, l)),
       Interval(AroundFrom(v, l), AroundTo(v, l)),
       Interval(AroundTo(v, l), MaxPoint) >>

LevelTerminated(ints, r) == \A i \in DOMAIN ints : Terminated(ints[i].state[r])

\* The intervals that x lies strictly within: one, or none.
Within(ints, x) == {i \in DOMAIN ints : ints[i].start < x /\ x < ints[i].end}

\* The interval that x lies strictly within gives way to its two parts.
SplitLosing(ints, x) ==
    [i \in DOMAIN ints |->
        IF i \in Within(ints, x) THEN [ints[i] EXCEPT !.start = x] ELSE ints[i]]
SplitAt(ints, x, i) ==
    [InsertAt(ints, i, [ints[i] EXCEPT !.end = x])
        EXCEPT ![i + 1] = [ints[i] EXCEPT !.start = x]]

\* Interval::split, where there is something to split.
Split(ints, x) ==
    IF Within(ints, x) = {} THEN ints ELSE SplitAt(ints, x, CHOOSE i \in Within(ints, x) : TRUE)

\* compress: a value for the checkpoints right behind those of the last entry extends it.
PushOverGaps(echo, said) ==
    IF echo # <<>> /\ Last(echo).val = said.val
    THEN [echo EXCEPT ![Len(echo)].end = said.end]
    ELSE Append(echo, said)
Push(echo, said) ==
    IF echo # <<>> /\ Last(echo).val = said.val /\ Last(echo).end = said.start
    THEN [echo EXCEPT ![Len(echo)].end = said.end]
    ELSE Append(echo, said)

PushAny(echo, said) == IF said.val = NoVal THEN echo ELSE Push(echo, said)

\* Whoever says something is pushed, and what is pushed is compressed at once.
Compress(saids) ==
    LET echo[k \in 0 .. Len(saids)] == IF k = 0 THEN <<>> ELSE PushAny(echo[k - 1], saids[k])
    IN  echo[Len(saids)]

\* The intervals once they are split where said begins and ends.
SplitFor(ints, said) == Split(Split(ints, said.start), said.end)

\* The interval that begins where said does because of the split (Fresh) is told in the
\* first loop, and like all that said speaks about (Told) in the second.
Fresh(cut, ints, said) ==
    {i \in DOMAIN cut : /\ cut[i].start = said.start
                        /\ \A k \in DOMAIN ints : ints[k].start # said.start}

Told(cut, said) ==
    {i \in DOMAIN cut : said.start <= cut[i].start /\ cut[i].end <= said.end}

\* What an interval makes of an ECHO1: its new state, and what it says.
Heard(int, r, res) ==
    [int |-> [int EXCEPT !.state[r] = res.rs], echo1 |-> res.echo1, echo2 |-> res.echo2]

Hearing(ints, who, r, v, sender) ==
    [i \in DOMAIN ints |->
        IF i \in who
        THEN Heard(ints[i], r, HearEcho(ints[i].state[r], v, sender,
                                        MinThreshold, HighThreshold))
        ELSE [int |-> ints[i], echo1 |-> NoVal, echo2 |-> NoVal]]

Intervals(res) == [i \in DOMAIN res |-> res[i].int]

SaidBy(res, kind) ==
    [i \in DOMAIN res |-> Said(res[i].int.start, res[i].int.end, res[i][kind])]

\* Both loops are over: acc goes on with the intervals and what they said.
Noted(acc, first, second) ==
    [ints  |-> Intervals(second),
     echo1 |-> Compress(acc.echo1 \o SaidBy(first \o second, "echo1")),
     echo2 |-> Compress(acc.echo2 \o SaidBy(first \o second, "echo2"))]

SecondLoop(acc, said, r, sender, first) ==
    Noted(acc, first,
          Hearing(Intervals(first), Told(Intervals(first), said), r, said.val, sender))

BothLoops(acc, said, r, sender, cut) ==
    SecondLoop(acc, said, r, sender,
               Hearing(cut, Fresh(cut, acc.ints, said), r, said.val, sender))

Tell(acc, said, r, sender) == BothLoops(acc, said, r, sender, SplitFor(acc.ints, said))

\* Level::add_echo: the intervals, and what to send ECHO1 and ECHO2 for.
LevelEcho(ints, echo, r, sender) ==
    LET acc[k \in 0 .. Len(echo)] ==
            IF k = 0 THEN [ints |-> ints, echo1 |-> <<>>, echo2 |-> <<>>]
            ELSE Tell(acc[k - 1], echo[k], r, sender)
    IN  acc[Len(echo)]

\* Level::add_echo2.
Hearing2(ints, who, r, v, sender) ==
    [i \in DOMAIN ints |->
        IF i \in who
        THEN [ints[i] EXCEPT !.state[r] = HearEcho2(@, v, sender, HighThreshold)]
        ELSE ints[i]]

BothLoops2(ints, said, r, sender, cut) ==
    Hearing2(Hearing2(cut, Fresh(cut, ints, said), r, said.val, sender),
             Told(cut, said), r, said.val, sender)

Tell2(ints, said, r, sender) == BothLoops2(ints, said, r, sender, SplitFor(ints, said))

LevelEcho2(ints, echo, r, sender) ==
    LET acc[k \in 0 .. Len(echo)] ==
            IF k = 0 THEN ints ELSE Tell2(acc[k - 1], echo[k], r, sender)
    IN  acc[Len(echo)]

\* Level::start_round: round 0 begins with the weight of the node's value, a later one
\* with what the round before ended with, in a new RoundStateBin.
LevelStart(ints, r, p, v) ==
    LET Val(int) == IF r > 0 THEN int.state[r - 1].term
                    ELSE IF int.start <= v /\ v <= int.end THEN MaxInput ELSE 0
    IN  [ints |-> [i \in DOMAIN ints |->
                     [ints[i] EXCEPT !.state[r] = NewWithEcho(Val(ints[i]), p)]],
         echo |-> Compress([i \in DOMAIN ints |->
                     Said(ints[i].start, ints[i].end, Val(ints[i]))])]
-----------------------------------------------------------------------------
(* What is said of all levels, as a function from levels to echoes.        *)

\* A level that speaks of everything in three parts, the middle weighed fully.
ThreeParts(echo) ==
    /\ Len(echo) = 3
    /\ echo[1].start = MinPoint /\ echo[3].end = MaxPoint
    /\ echo[2].val = MaxInput

\* coalesce: from the first such level on, one point stands for what is said.
Coalesce(echos) ==
    LET from == Min({l \in DOMAIN echos : ThreeParts(echos[l])} \union {TotalLevels + 1})
        mid  == echos[from][2]
    IN  [vals  |-> [l \in {k \in DOMAIN echos : k < from} |-> echos[l]],
         from  |-> from,
         point |-> IF from > TotalLevels THEN MinPoint ELSE Quotient(mid.start + mid.end, 2)]

\* expand, and what was not coalesced: what the receiver takes the message to say.
Expanded(msg) ==
    LET Around(l) ==
          << Said(MinPoint, AroundFrom(msg.point, l), 0),
             Said(AroundFrom(msg.point, l), AroundTo(msg.point, l), MaxInput),
             Said(AroundTo(msg.point, l), MaxPoint, 0) >>
    IN  [l \in DOMAIN msg.vals \union {k \in Levels : k >= msg.from} |->
            IF l < msg.from THEN msg.vals[l] ELSE Around(l)]
-----------------------------------------------------------------------------
(* aggregate: the result of the instance, in Width-bit arithmetic up to    *)
(* the products, which the code computes with 128 bits.                    *)

Wrapped(x) == ((x - MinPoint) % (2 ^ Width)) + MinPoint

Sum(seq) ==
    LET sum[k \in 0 .. Len(seq)] == IF k = 0 THEN 0 ELSE sum[k - 1] + seq[k]
    IN  sum[Len(seq)]

Term(int) == int.state[Rounds].term

Mass(int, l) == Term(int) * Quotient(Wrapped(int.end - int.start), Sep(l))
Mid(int)     == Quotient(Wrapped(int.start + int.end), 2)
Peak(ints)   == Max({Term(ints[i]) : i \in DOMAIN ints} \union {0})

\* The weight and the value of a level; a level without weight counts for epsilon.
LevelMeanByPeak(ints, l, v, total) ==
    IF total = 0
    THEN [weight |-> Epsilon, value |-> Quotient(v, Epsilon)]
    ELSE [weight |-> Peak(ints),
          value  |-> Quotient(Sum([i \in DOMAIN ints |-> Mid(ints[i]) * Mass(ints[i], l)]),
                              Peak(ints))]
LevelMean(ints, l, v, total) ==
    IF total = 0
    THEN [weight |-> Epsilon, value |-> Quotient(v, Epsilon)]
    ELSE [weight |-> Peak(ints),
          value  |-> Quotient(Sum([i \in DOMAIN ints |-> Mid(ints[i]) * Mass(ints[i], l)]),
                              total)]

LevelResult(ints, l, v) ==
    LevelMean(ints, l, v, Sum([i \in DOMAIN ints |-> Mass(ints[i], l)]))

Distance(x, y) == IF x < y THEN y - x ELSE x - y

\* A level weighs as much as it differs from the one below.
Weight(res, l) ==
    IF l = 0 THEN res[0].weight
    ELSE res[l].weight * Distance(res[l].weight, res[l - 1].weight)

Mean(res) ==
    Quotient(Sum([i \in 1 .. TotalLevels |-> res[i - 1].value * Weight(res, i - 1)]),
             Sum([i \in 1 .. TotalLevels |-> Weight(res, i - 1)]))

Aggregate(levels, v) == Mean([l \in Levels |-> LevelResult(levels[l], l, v)])

\* The entry of a sequence of intervals, or of an echo, that speaks of point x.
Covers(e, x) == e.start <= x /\ x < e.end
At(seq, x) == seq[CHOOSE i \in DOMAIN seq : Covers(seq[i], x)]
=============================================================================
