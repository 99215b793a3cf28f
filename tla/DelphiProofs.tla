---------------------------- MODULE DelphiProofs ----------------------------
(***************************************************************************)
(* Theorems about the nodes of Delphi, for every set of nodes and levels.  *)
(* First the type invariant.                                               *)
(*                                                                         *)
(* Then what holds whatever the levels weigh: only nodes that have joined  *)
(* are counted, n - f of them before a node goes on, and a result is       *)
(* handed over once (HInv and NextHeld).                                   *)
(*                                                                         *)
(* As long as the values joined with are parted, as one value always is,   *)
(* places that the same of them weigh share a state at every node and are  *)
(* spoken of alike, so that each handler does to a checkpoint what the     *)
(* handler of BinAA does (UInv and NextSound), and Delphi implements BinAA *)
(* at every checkpoint.                                                    *)
(*                                                                         *)
(* HInv, and what aggregate makes of levels where all joined with one      *)
(* value, make Delphi implement Outcome, whatever the two values share.    *)
(***************************************************************************)
EXTENDS Delphi, LevelProofs
-----------------------------------------------------------------------------
(* New levels, and what messages carry.                                    *)

LEMMA SepIs == \A l \in Levels : Sep(l) \in Nat \ {0}
<1> SUFFICES ASSUME NEW l \in Levels PROVE Sep(l) \in Nat \ {0}
    OBVIOUS
<1> DEFINE e == Exponent ^ l
<1>1. e \in Nat \ {0} /\ Rho \in Nat \ {0}
    BY LevelPowers, LevelAssumption
<1>2. Sep(l) = Rho * e
    BY DEF Sep
<1> HIDE DEF e
<1>3. Rho * e \in Nat /\ Rho * e # 0
    BY <1>1
<1> QED
    BY <1>2, <1>3

LEMMA QuotientIs ==
    ASSUME NEW x \in Int, NEW s \in Nat \ {0}
    PROVE  Quotient(x, s) \in Int
<1>1. x \div s \in Int /\ (-x) \div s \in Int
    OBVIOUS
<1>2. (-((-x) \div s)) \in Int
    BY <1>1
<1> QED
    BY <1>1, <1>2 DEF Quotient

LEMMA QuotientBelow ==
    ASSUME NEW x \in Nat, NEW s \in Nat \ {0}, NEW k, k = Quotient(x, s)
    PROVE  k \in Int /\ k * s <= x /\ x < k * s + s
<1>1. k = x \div s
    BY DEF Quotient
<1>2. x = s * (x \div s) + (x % s) /\ (x % s) \in 0 .. s - 1 /\ x \div s \in Int
    OBVIOUS
<1> HIDE DEF Quotient
<1>3. k \in Int /\ x = s * k + (x % s)
    BY <1>1, <1>2
<1>4. s * k = k * s
    BY <1>3
<1>5. k * s \in Int
    BY <1>3
<1> QED
    BY <1>2, <1>3, <1>4, <1>5

LEMMA AroundIs ==
    ASSUME NEW v \in Int, NEW l \in Levels
    PROVE  /\ AroundFrom(v, l) \in Int /\ AroundTo(v, l) \in Int
           /\ AroundFrom(v, l) < AroundTo(v, l)
           /\ v >= 0 => AroundFrom(v, l) < v /\ v < AroundTo(v, l)
<1> DEFINE s == Sep(l)
           k == Quotient(v, s)
<1>1. s \in Nat \ {0} /\ k \in Int
    BY SepIs, QuotientIs
<1>2. AroundFrom(v, l) = (k - 1) * s /\ AroundTo(v, l) = (k + 2) * s
    BY DEF AroundFrom, AroundTo
<1>3. v >= 0 => k * s <= v /\ v < k * s + s
    BY <1>1, QuotientBelow
<1> HIDE DEF s, k
<1>4. (k - 1) * s = k * s - s /\ (k + 2) * s = k * s + s + s /\ k * s \in Int
    BY <1>1
<1> HIDE <1>3
<1>5. k * s - s \in Int /\ k * s + s + s \in Int /\ k * s - s < k * s + s + s
    BY <1>1, <1>4
<1>6. ASSUME v >= 0 PROVE k * s - s < v /\ v < k * s + s + s
    BY <1>1, <1>3, <1>4, <1>6
<1> QED
    BY <1>2, <1>4, <1>5, <1>6

LEMMA TwoInts ==
    ASSUME NEW a \in AnInterval, NEW b \in AnInterval, NEW c \in AnInterval, NEW new,
           new = <<a, b, c>>,
           a.start = MinPoint, a.start < a.end, a.end = b.start, b.start < b.end,
           b.end = c.start, c.start < c.end, c.end = MaxPoint
    PROVE  Tiled(new) /\ DOMAIN new = 1 .. 3
<1>1. /\ new \in Seq(AnInterval) /\ Len(new) = 3 /\ DOMAIN new = 1 .. 3
      /\ new[1] = a /\ new[2] = b /\ new[3] = c
    OBVIOUS
<1>2. \A i : (i \in 1 .. 3 => i \in {1, 2, 3}) /\ (i \in 1 .. 3 - 1 => i \in {1, 2})
    OBVIOUS
<1>3. \A i \in 1 .. 3 : new[i].start < new[i].end
  <2> SUFFICES ASSUME NEW i \in 1 .. 3 PROVE new[i].start < new[i].end
      OBVIOUS
  <2>1. i = 1 \/ i = 2 \/ i = 3
      BY <1>2
  <2> QED
      BY <1>1, <2>1
<1>4. \A i \in 1 .. 3 - 1 : new[i].end = new[i + 1].start
  <2> SUFFICES ASSUME NEW i \in 1 .. 3 - 1 PROVE new[i].end = new[i + 1].start
      OBVIOUS
  <2>1. (i = 1 /\ i + 1 = 2) \/ (i = 2 /\ i + 1 = 3)
      BY <1>2
  <2> QED
      BY <1>1, <2>1
<1>5. new[1].start = MinPoint /\ new[3].end = MaxPoint
    BY <1>1
<1> QED
    BY <1>1, <1>3, <1>4, <1>5 DEF Tiled

LEMMA IntervalIs ==
    ASSUME NEW s \in Int, NEW e \in Int
    PROVE  /\ Interval(s, e) \in AnInterval /\ Interval(s, e).start = s /\ Interval(s, e).end = e
           /\ Interval(s, e).state = [r \in 0 .. Rounds |-> NoState]
BY NothingIs DEF Interval, AnInterval

LEMMA NewLevelIs ==
    ASSUME NEW v \in {LowVal, HighVal}, NEW l \in Levels
    PROVE  Tiled(NewLevel(v, l))
<1> DEFINE f == AroundFrom(v, l)
           t == AroundTo(v, l)
<1>1. v \in Int
    BY DelphiAssumption
<1>2. f \in Int /\ t \in Int /\ f < t
    BY <1>1, AroundIs
<1>3. MinPoint < f /\ t < MaxPoint
    BY DelphiAssumption
<1>4. NewLevel(v, l) = <<Interval(MinPoint, f), Interval(f, t), Interval(t, MaxPoint)>>
    BY DEF NewLevel
<1> HIDE DEF f, t
<1> DEFINE a == Interval(MinPoint, f)
           b == Interval(f, t)
           c == Interval(t, MaxPoint)
<1>5. /\ a \in AnInterval /\ a.start = MinPoint /\ a.end = f
      /\ b \in AnInterval /\ b.start = f /\ b.end = t
      /\ c \in AnInterval /\ c.start = t /\ c.end = MaxPoint
    BY <1>2, EndsAre, IntervalIs
<1>6. NewLevel(v, l) = <<a, b, c>>
    BY <1>4
<1> HIDE DEF a, b, c
<1>7. a.start < a.end /\ b.start < b.end /\ c.start < c.end
    BY <1>2, <1>3, <1>5
<1> QED
    BY <1>5, <1>6, <1>7, TwoInts

\* Level::start_round after Level::new: round 0 begins, at a point, with what the node's value
\* weighs there.  No interval but the middle one holds the value, not even at its end.
THEOREM FirstPerPoint ==
    ASSUME NEW v \in {LowVal, HighVal}, NEW l \in Levels, NEW p \in Node, NEW y \in Point
    PROVE  LET begun == LevelStart(NewLevel(v, l), 0, p, v)
               own   == Weighed(v, <<l, y>>)
           IN  /\ StateAt(begun.ints, y)
                     = [StateAt(NewLevel(v, l), y) EXCEPT ![0] = NewWithEcho(own, p)]
               /\ \A w \in Int \ {NoVal} : Speaks(begun.echo, y, w) <=> w = own
<1> DEFINE f == AroundFrom(v, l)
           t == AroundTo(v, l)
           ints == NewLevel(v, l)
           a == Interval(MinPoint, f)
           b == Interval(f, t)
           c == Interval(t, MaxPoint)
<1>1. v \in Int /\ v >= 0 /\ 0 \in 0 .. Rounds
    BY DelphiAssumption, LevelAssumption
<1>2. f \in Int /\ t \in Int /\ f < v /\ v < t
    BY <1>1, AroundIs
<1>3. Weighed(v, <<l, y>>) = IF f <= y /\ y < t THEN MaxInput ELSE 0
    BY DEF Weighed
<1>4. Tiled(ints)
    BY NewLevelIs
<1>5. ints = <<a, b, c>>
    BY DEF NewLevel
<1> HIDE DEF f, t, ints
<1>6. /\ a.start = MinPoint /\ a.end = f /\ b.start = f /\ b.end = t
      /\ c.start = t /\ c.end = MaxPoint /\ y \in Int /\ MinPoint \in Int /\ MaxPoint \in Int
    BY <1>2, EndsAre, IntervalIs DEF Point
<1> HIDE DEF a, b, c
<1>7. StartOf(At(ints, y), 0, v) = Weighed(v, <<l, y>>)
  <2>1. PICK i \in DOMAIN ints : Covers(ints[i], y)
      BY <1>4, CoveredOnce
  <2>2. At(ints, y) = ints[i]
      BY <1>4, <2>1, AtIs
  <2>3. StartOf(ints[i], 0, v) = IF ints[i].start <= v /\ v <= ints[i].end THEN MaxInput ELSE 0
      BY DEF StartOf
  <2>4. ints[i].start <= y /\ y < ints[i].end
      BY <2>1 DEF Covers
  <2>5. ints[i] = a \/ ints[i] = b \/ ints[i] = c
      BY <1>5, <2>1
  <2>6. CASE ints[i] = a
      BY <1>1, <1>2, <1>3, <1>6, <2>2, <2>3, <2>4, <2>6
  <2>7. CASE ints[i] = b
      BY <1>1, <1>2, <1>3, <1>6, <2>2, <2>3, <2>4, <2>7
  <2>8. CASE ints[i] = c
      BY <1>1, <1>2, <1>3, <1>6, <2>2, <2>3, <2>4, <2>8
  <2> QED
      BY <2>5, <2>6, <2>7, <2>8
<1> QED
    BY <1>1, <1>4, <1>7, StartAt DEF ints

\* What is said of some of the levels.
Sayings == UNION {[D -> Seq(Said3)] : D \in SUBSET Levels}

LEMMA SayingIs ==
    ASSUME NEW D \in SUBSET Levels, NEW f \in [D -> Seq(Said3)]
    PROVE  f \in Sayings
BY DEF Sayings

LEMMA SayingsAre ==
    ASSUME NEW f \in Sayings
    PROVE  /\ DOMAIN f \in SUBSET Levels /\ f \in [DOMAIN f -> Seq(Said3)]
           /\ \A l \in DOMAIN f : f[l] \in Seq(Said3)
BY DEF Sayings

Coalesced == [vals : Sayings, from : Int, point : Int]

LEMMA LevelsAre ==
    /\ Levels \subseteq Nat /\ TotalLevels \in Nat \ {0}
    /\ \A l \in Levels : l < TotalLevels
BY LevelAssumption DEF Levels

LEMMA CoalesceIs ==
    ASSUME NEW echos \in Sayings
    PROVE  Coalesce(echos) \in Coalesced
<1> DEFINE S == {l \in DOMAIN echos : ThreeParts(echos[l])} \union {TotalLevels + 1}
           from == Min(S)
           mid == echos[from][2]
           point == IF from > TotalLevels THEN MinPoint ELSE Quotient(mid.start + mid.end, 2)
           D == {k \in DOMAIN echos : k < from}
           vals == [l \in D |-> echos[l]]
<1>1. DOMAIN echos \in SUBSET Levels /\ \A l \in DOMAIN echos : echos[l] \in Seq(Said3)
    BY SayingsAre
<1>2. S \subseteq Nat /\ TotalLevels + 1 \in S
    BY <1>1, LevelsAre
<1>3. Coalesce(echos) = [vals |-> vals, from |-> from, point |-> point]
    BY DEF Coalesce
<1>4. from \in S
  <2> HIDE DEF S
  <2>1. \E x \in S : \A y \in S : x <= y
      BY <1>2, LeastNatural
  <2> QED
      BY <2>1 DEF Min
<1> HIDE DEF from
<1>5. from \in Nat
    BY <1>2, <1>4
<1>6. vals \in Sayings
  <2>1. D \in SUBSET Levels /\ vals \in [D -> Seq(Said3)]
      BY <1>1
  <2> HIDE DEF D, vals
  <2> QED
      BY <2>1, SayingIs
<1>7. point \in Int
  <2>1. CASE from > TotalLevels
      BY <2>1, EndsAre
  <2>2. CASE ~(from > TotalLevels)
    <3>1. from # TotalLevels + 1
        BY <2>2, <1>5, LevelsAre
    <3>2. from \in DOMAIN echos /\ ThreeParts(echos[from])
        BY <1>4, <3>1
    <3>3. echos[from] \in Seq(Said3) /\ Len(echos[from]) = 3
        BY <1>1, <3>2 DEF ThreeParts
    <3>4. mid \in Said3
        BY <3>3
    <3> HIDE DEF mid
    <3>5. mid.start + mid.end \in Int
        BY <3>4 DEF Said3
    <3>6. Quotient(mid.start + mid.end, 2) \in Int
        BY <3>5, QuotientIs
    <3> QED
        BY <2>2, <3>6
  <2> QED
      BY <2>1, <2>2
<1> HIDE DEF vals, point
<1> QED
    BY <1>3, <1>5, <1>6, <1>7 DEF Coalesced

LEMMA ExpandedIs ==
    ASSUME NEW msg \in Coalesced
    PROVE  Expanded(msg) \in Sayings
<1> DEFINE D == DOMAIN msg.vals \union {k \in Levels : k >= msg.from}
           Around(l) == << Said(MinPoint, AroundFrom(msg.point, l), 0),
                           Said(AroundFrom(msg.point, l), AroundTo(msg.point, l), MaxInput),
                           Said(AroundTo(msg.point, l), MaxPoint, 0) >>
           f == [l \in D |-> IF l < msg.from THEN msg.vals[l] ELSE Around(l)]
<1>1. msg.vals \in Sayings /\ msg.from \in Int /\ msg.point \in Int
    BY DEF Coalesced
<1>2. /\ DOMAIN msg.vals \in SUBSET Levels
      /\ \A l \in DOMAIN msg.vals : msg.vals[l] \in Seq(Said3)
    BY <1>1, SayingsAre
<1>3. Expanded(msg) = f
    BY DEF Expanded
<1>4. D \in SUBSET Levels
    BY <1>2
<1>5. ASSUME NEW l \in D PROVE (IF l < msg.from THEN msg.vals[l] ELSE Around(l)) \in Seq(Said3)
  <2>1. CASE l < msg.from
    <3>1. l \in DOMAIN msg.vals
      <4>1. l \in DOMAIN msg.vals \/ (l \in Levels /\ l >= msg.from)
          BY <1>5
      <4>3. l \in Levels
          BY <1>4
      <4>2. l \in Int
        <5>1. Levels \subseteq Nat
            BY LevelsAre
        <5> QED
            BY <4>3, <5>1
      <4> QED
          BY <1>1, <2>1, <4>1, <4>2
    <3> QED
        BY <1>2, <2>1, <3>1
  <2>2. CASE ~(l < msg.from)
    <3>1. l \in Levels
        BY <1>4
    <3>2. /\ AroundFrom(msg.point, l) \in Int /\ AroundTo(msg.point, l) \in Int
          /\ MinPoint \in Int /\ MaxPoint \in Int /\ MaxInput \in Int
        BY <1>1, <3>1, AroundIs, EndsAre, LevelPowers
    <3>3. /\ Said(MinPoint, AroundFrom(msg.point, l), 0) \in Said3
          /\ Said(AroundFrom(msg.point, l), AroundTo(msg.point, l), MaxInput) \in Said3
          /\ Said(AroundTo(msg.point, l), MaxPoint, 0) \in Said3
        BY <3>2 DEF Said, Said3
    <3>4. Around(l) \in Seq(Said3)
        BY <3>3
    <3> QED
        BY <2>2, <3>4
  <2> QED
      BY <2>1, <2>2
<1>6. f \in [D -> Seq(Said3)]
    BY <1>5
<1> HIDE DEF f, D
<1> QED
    BY <1>3, <1>4, <1>6, SayingIs

-----------------------------------------------------------------------------
(* The nodes, their handlers and the type invariant.                       *)

Messages == [kind : {"ECHO1", "ECHO2"}, round : 0 .. Rounds, echos : Coalesced]

ANode(value, round, levels, out, blocked, sent) ==
    [value |-> value, round |-> round, levels |-> levels, out |-> out, blocked |-> blocked,
     sent |-> sent]

\* A node's record is well-formed.
NodeOK(nd) ==
    /\ nd = ANode(nd.value, nd.round, nd.levels, nd.out, nd.blocked, nd.sent)
    /\ nd.value \in {LowVal, HighVal} /\ nd.round \in -1 .. Rounds + 1
    /\ nd.levels \in [Levels -> Tilings] /\ (nd.out = <<>> \/ Len(nd.out) = 1)
    /\ nd.blocked \in BOOLEAN /\ nd.sent \in Seq(Messages)

LEMMA ANodeIs ==
    ASSUME NEW value \in {LowVal, HighVal}, NEW round \in -1 .. Rounds + 1,
           NEW levels \in [Levels -> Tilings], NEW out, out = <<>> \/ Len(out) = 1,
           NEW blocked \in BOOLEAN, NEW sent \in Seq(Messages), NEW nd,
           nd = ANode(value, round, levels, out, blocked, sent)
    PROVE  NodeOK(nd)
<1>1. /\ nd.value = value /\ nd.round = round /\ nd.levels = levels /\ nd.out = out
      /\ nd.blocked = blocked /\ nd.sent = sent
    BY DEF ANode
<1> QED
    BY <1>1 DEF NodeOK

LEMMA NodeIs ==
    ASSUME NEW nd, NodeOK(nd)
    PROVE  /\ nd.value \in {LowVal, HighVal} /\ nd.value \in Int
           /\ nd.round \in -1 .. Rounds + 1 /\ nd.round \in Int
           /\ nd.levels \in [Levels -> Tilings] /\ (nd.out = <<>> \/ Len(nd.out) = 1)
           /\ nd.blocked \in BOOLEAN /\ nd.sent \in Seq(Messages)
           /\ \A l \in Levels : Tiled(nd.levels[l])
<1>1. /\ nd.value \in {LowVal, HighVal} /\ nd.round \in -1 .. Rounds + 1
      /\ nd.levels \in [Levels -> Tilings] /\ (nd.out = <<>> \/ Len(nd.out) = 1)
      /\ nd.blocked \in BOOLEAN /\ nd.sent \in Seq(Messages)
    BY DEF NodeOK
<1>2. \A l \in Levels : Tiled(nd.levels[l])
    BY <1>1, TilingIs
<1>3. nd.value \in Int
    BY <1>1, DelphiAssumption
<1>4. nd.round \in Int
    BY <1>1, LevelAssumption
<1> QED
    BY <1>1, <1>2, <1>3, <1>4

\* A node's record, field by field
LEMMA FieldsStay ==
    ASSUME NEW nd, NodeOK(nd), NEW x
    PROVE  /\ LET new == [nd EXCEPT !.levels = x]
              IN  /\ new.value = nd.value /\ new.round = nd.round /\ new.levels = x
                  /\ new.out = nd.out /\ new.blocked = nd.blocked /\ new.sent = nd.sent
           /\ LET new == [nd EXCEPT !.sent = x]
              IN  /\ new.value = nd.value /\ new.round = nd.round /\ new.levels = nd.levels
                  /\ new.out = nd.out /\ new.blocked = nd.blocked /\ new.sent = x
           /\ LET new == [nd EXCEPT !.round = x]
              IN  /\ new.value = nd.value /\ new.round = x /\ new.levels = nd.levels
                  /\ new.out = nd.out /\ new.blocked = nd.blocked /\ new.sent = nd.sent
           /\ LET new == [nd EXCEPT !.out = x]
              IN  /\ new.value = nd.value /\ new.round = nd.round /\ new.levels = nd.levels
                  /\ new.out = x /\ new.blocked = nd.blocked /\ new.sent = nd.sent
           /\ LET new == [nd EXCEPT !.blocked = x]
              IN  /\ new.value = nd.value /\ new.round = nd.round /\ new.levels = nd.levels
                  /\ new.out = nd.out /\ new.blocked = x /\ new.sent = nd.sent
BY DEF NodeOK, ANode

LEMMA NewLevelsIs ==
    ASSUME NEW nd, NodeOK(nd), NEW new \in [Levels -> Tilings]
    PROVE  NodeOK([nd EXCEPT !.levels = new])
<1>1. /\ nd.value \in {LowVal, HighVal} /\ nd.round \in -1 .. Rounds + 1
      /\ (nd.out = <<>> \/ Len(nd.out) = 1)
      /\ nd.blocked \in BOOLEAN /\ nd.sent \in Seq(Messages)
    BY NodeIs
<1>2. [nd EXCEPT !.levels = new]
        = ANode(nd.value, nd.round, new, nd.out, nd.blocked, nd.sent)
    BY DEF NodeOK, ANode
<1> QED
    BY <1>1, <1>2, ANodeIs

LEMMA MessageIs ==
    ASSUME NEW kind \in {"ECHO1", "ECHO2"}, NEW r \in 0 .. Rounds, NEW echos \in Sayings
    PROVE  Message(kind, r, echos) \in Messages
<1>1. Coalesce(echos) \in Coalesced
    BY CoalesceIs
<1> QED
    BY <1>1 DEF Message, Messages

LEMMA NewSentIs ==
    ASSUME NEW nd, NodeOK(nd), NEW new \in Seq(Messages)
    PROVE  NodeOK([nd EXCEPT !.sent = new])
<1>1. /\ nd.value \in {LowVal, HighVal} /\ nd.round \in -1 .. Rounds + 1
      /\ (nd.out = <<>> \/ Len(nd.out) = 1) /\ nd.levels \in [Levels -> Tilings]
      /\ nd.blocked \in BOOLEAN
    BY NodeIs
<1>2. [nd EXCEPT !.sent = new]
        = ANode(nd.value, nd.round, nd.levels, nd.out, nd.blocked, new)
    BY DEF NodeOK, ANode
<1> QED
    BY <1>1, <1>2, ANodeIs

LEMMA BroadcastIs ==
    ASSUME NEW nd, NodeOK(nd), NEW m \in Messages
    PROVE  NodeOK([nd EXCEPT !.sent = Append(@, m)])
<1> DEFINE new == Append(nd.sent, m)
<1>1. new \in Seq(Messages)
    BY NodeIs
<1>2. [nd EXCEPT !.sent = Append(@, m)] = [nd EXCEPT !.sent = new]
    OBVIOUS
<1> HIDE DEF new
<1>3. NodeOK([nd EXCEPT !.sent = new])
    BY <1>1, NewSentIs
<1> QED
    BY <1>2, <1>3

LEMMA BroadcastAnyIs ==
    ASSUME NEW nd, NodeOK(nd), NEW kind \in {"ECHO1", "ECHO2"}, NEW r \in 0 .. Rounds,
           NEW echos \in Sayings
    PROVE  NodeOK(Broadcast(nd, kind, r, echos)) /\ NodeOK(BroadcastAny(nd, kind, r, echos))
<1> DEFINE m == Message(kind, r, echos)
<1>1. m \in Messages
    BY MessageIs
<1>2. Broadcast(nd, kind, r, echos) = [nd EXCEPT !.sent = Append(@, m)]
    BY DEF Broadcast
<1> HIDE DEF m
<1>3. NodeOK(Broadcast(nd, kind, r, echos))
    BY <1>1, <1>2, BroadcastIs
<1> QED
    BY <1>3 DEF BroadcastAny

LEMMA SendResultIs ==
    ASSUME NEW nd, NodeOK(nd)
    PROVE  NodeOK(SendResult(nd))
<1>1. /\ nd.value \in {LowVal, HighVal} /\ nd.round \in -1 .. Rounds + 1
      /\ (nd.out = <<>> \/ Len(nd.out) = 1) /\ nd.levels \in [Levels -> Tilings]
      /\ nd.blocked \in BOOLEAN /\ nd.sent \in Seq(Messages)
    BY NodeIs
<1> DEFINE result == Aggregate(nd.levels, nd.value)
<1>2. CASE nd.out = <<>>
  <2>1. SendResult(nd) = [nd EXCEPT !.out = <<result>>]
      BY <1>2 DEF SendResult
  <2> HIDE DEF result
  <2>2. SendResult(nd) = ANode(nd.value, nd.round, nd.levels, <<result>>, nd.blocked, nd.sent)
      BY <2>1 DEF NodeOK, ANode
  <2>3. Len(<<result>>) = 1
      OBVIOUS
  <2> QED
      BY <1>1, <2>2, <2>3, ANodeIs
<1>3. CASE nd.out # <<>>
  <2>1. SendResult(nd) = [nd EXCEPT !.blocked = TRUE]
      BY <1>3 DEF SendResult
  <2>2. SendResult(nd) = ANode(nd.value, nd.round, nd.levels, nd.out, TRUE, nd.sent)
      BY <2>1 DEF NodeOK, ANode
  <2> QED
      BY <1>1, <2>2, ANodeIs
<1> QED
    BY <1>2, <1>3

\* What a node makes of what it heard, and what it has to say.
AnswersOK(res) == NodeOK(res.nd) /\ res.echo1 \in Sayings /\ res.echo2 \in Sayings

LEMMA HearLevelsIs ==
    ASSUME NEW nd, NodeOK(nd), NEW heard \in Sayings, NEW r \in 0 .. Rounds, NEW q \in Node
    PROVE  AnswersOK(HearLevels(nd, heard, r, q))
<1> DEFINE D == DOMAIN heard
           res == [l \in D |-> LevelEcho(nd.levels[l], heard[l], r, q)]
           new == [l \in Levels |-> IF l \in D THEN res[l].ints ELSE nd.levels[l]]
           e1 == [l \in {k \in D : res[k].echo1 # <<>>} |-> res[l].echo1]
           e2 == [l \in {k \in D : res[k].echo2 # <<>>} |-> res[l].echo2]
<1>1. D \in SUBSET Levels /\ \A l \in D : heard[l] \in Seq(Said3)
    BY SayingsAre
<1>2. nd.levels \in [Levels -> Tilings] /\ \A l \in Levels : Tiled(nd.levels[l])
    BY NodeIs
<1> HIDE DEF D
<1>3. ASSUME NEW l \in D PROVE res[l] \in Acc
  <2>1. res[l] = LevelEcho(nd.levels[l], heard[l], r, q)
      OBVIOUS
  <2>2. Tiled(nd.levels[l]) /\ heard[l] \in Seq(Said3)
      BY <1>1, <1>2
  <2> QED
      BY <2>1, <2>2, LevelEchoIs
<1>4. DOMAIN res = D
    OBVIOUS
<1>5. HearLevels(nd, heard, r, q) = Answers(nd, res)
    BY DEF HearLevels, D
<1> HIDE DEF res
<1>6. Answers(nd, res) = [nd |-> [nd EXCEPT !.levels = new], echo1 |-> e1, echo2 |-> e2]
    BY <1>4 DEF Answers, NodeOK, ANode
<1>7. \A l \in D : /\ res[l].ints \in Tilings
                   /\ res[l].echo1 \in Seq(Said3) /\ res[l].echo2 \in Seq(Said3)
  <2>1. \A s \in Seq(Proper) : s \in Seq(Said3)
      BY DEF Proper
  <2>2. \A l \in D : /\ Tiled(res[l].ints)
                     /\ res[l].echo1 \in Seq(Proper) /\ res[l].echo2 \in Seq(Proper)
      BY <1>3 DEF Acc
  <2> QED
      BY <2>1, <2>2, TilingIs
<1>8. new \in [Levels -> Tilings]
    BY <1>2, <1>7
<1>9. e1 \in Sayings /\ e2 \in Sayings
  <2> DEFINE D1 == {k \in D : res[k].echo1 # <<>>}
             D2 == {k \in D : res[k].echo2 # <<>>}
  <2>1. D1 \in SUBSET Levels /\ D2 \in SUBSET Levels
      BY <1>1
  <2>2. e1 \in [D1 -> Seq(Said3)] /\ e2 \in [D2 -> Seq(Said3)]
      BY <1>7
  <2> HIDE DEF D1, D2, e1, e2
  <2> QED
      BY <2>1, <2>2, SayingIs
<1> HIDE DEF new, e1, e2
<1>10. NodeOK([nd EXCEPT !.levels = new])
    BY <1>8, NewLevelsIs
<1> DEFINE nnd == [nd EXCEPT !.levels = new]
<1>11. HearLevels(nd, heard, r, q) = [nd |-> nnd, echo1 |-> e1, echo2 |-> e2] /\ NodeOK(nnd)
    BY <1>5, <1>6, <1>10
<1> HIDE DEF nnd
<1> QED
    BY <1>9, <1>11 DEF AnswersOK

LEMMA HearLevels2Is ==
    ASSUME NEW nd, NodeOK(nd), NEW heard \in Sayings, NEW r \in 0 .. Rounds, NEW q \in Node
    PROVE  NodeOK(HearLevels2(nd, heard, r, q))
<1> DEFINE D == DOMAIN heard
           new == [l \in Levels |-> IF l \in D THEN LevelEcho2(nd.levels[l], heard[l], r, q)
                                    ELSE nd.levels[l]]
<1>1. D \in SUBSET Levels /\ \A l \in D : heard[l] \in Seq(Said3)
    BY SayingsAre
<1>2. nd.levels \in [Levels -> Tilings] /\ \A l \in Levels : Tiled(nd.levels[l])
    BY NodeIs
<1>3. HearLevels2(nd, heard, r, q) = [nd EXCEPT !.levels = new]
    BY DEF HearLevels2, NodeOK, ANode
<1> HIDE DEF D
<1>4. \A l \in Levels : l \in D => LevelEcho2(nd.levels[l], heard[l], r, q) \in Tilings
    BY <1>1, <1>2, LevelEcho2Is, TilingIs
<1>5. new \in [Levels -> Tilings]
    BY <1>2, <1>4
<1> HIDE DEF new
<1> QED
    BY <1>3, <1>5, NewLevelsIs

LEMMA AddEchoesIs ==
    ASSUME NEW nd, NodeOK(nd), NEW m \in Messages, NEW q \in Node
    PROVE  AnswersOK(AddEchoes(nd, m, q)) /\ NodeOK(AddEchoes2(nd, m, q))
<1>1. m.echos \in Coalesced /\ m.round \in 0 .. Rounds
    BY DEF Messages
<1>2. Expanded(m.echos) \in Sayings
    BY <1>1, ExpandedIs
<1> QED
    BY <1>1, <1>2, HearLevelsIs, HearLevels2Is DEF AddEchoes, AddEchoes2

LEMMA BegunNode ==
    ASSUME NEW nd, NodeOK(nd), NEW r, NEW levels, NEW sent, NEW new,
           new = [nd EXCEPT !.round = r, !.levels = levels, !.sent = sent]
    PROVE  new = ANode(nd.value, r, levels, nd.out, nd.blocked, sent)
<1> DEFINE y == ANode(nd.value, r, nd.levels, nd.out, nd.blocked, nd.sent)
           z == ANode(nd.value, r, levels, nd.out, nd.blocked, nd.sent)
<1>1. [nd EXCEPT !.round = r] = y
    BY DEF ANode, NodeOK
<1>2. [y EXCEPT !.levels = levels] = z
    BY DEF ANode
<1>3. [z EXCEPT !.sent = sent] = ANode(nd.value, r, levels, nd.out, nd.blocked, sent)
    BY DEF ANode
<1> HIDE DEF y, z
<1>4. [nd EXCEPT !.round = r, !.levels = levels, !.sent = sent]
        = [[[nd EXCEPT !.round = r] EXCEPT !.levels = levels] EXCEPT !.sent = sent]
    OBVIOUS
<1> QED
    BY <1>1, <1>2, <1>3, <1>4

LEMMA BeginIs ==
    ASSUME NEW nd, NodeOK(nd), NEW p \in Node, NEW r \in 0 .. Rounds, NEW begun,
           \A l \in Levels : Tiled(begun[l].ints) /\ begun[l].echo \in Seq(Proper)
    PROVE  NodeOK(Begin(nd, p, r, begun))
<1> DEFINE echos == [l \in Levels |-> begun[l].echo]
           own == Message("ECHO1", r, echos)
           levels == [l \in Levels |-> begun[l].ints]
           sent == Append(nd.sent, own)
           new == [nd EXCEPT !.round = r, !.levels = levels, !.sent = sent]
           res == AddEchoes(new, own, p)
<1>1. /\ nd.value \in {LowVal, HighVal} /\ (nd.out = <<>> \/ Len(nd.out) = 1)
      /\ nd.blocked \in BOOLEAN /\ nd.sent \in Seq(Messages)
    BY NodeIs
<1>2. echos \in Sayings
  <2>1. \A s \in Seq(Proper) : s \in Seq(Said3)
      BY DEF Proper
  <2>2. echos \in [Levels -> Seq(Said3)]
      BY <2>1
  <2> HIDE DEF echos
  <2> QED
      BY <2>2, SayingIs
<1>3. Begin(nd, p, r, begun) = Amplified(res, r)
    BY DEF Begin
<1> HIDE DEF echos
<1>4. own \in Messages
    BY <1>2, MessageIs
<1> HIDE DEF own
<1>5. sent \in Seq(Messages) /\ r \in -1 .. Rounds + 1
    BY <1>1, <1>4, LevelAssumption
<1>6. levels \in [Levels -> Tilings]
    BY TilingIs
<1> HIDE DEF sent, levels
<1>7. new = ANode(nd.value, r, levels, nd.out, nd.blocked, sent)
    BY BegunNode
<1> HIDE DEF new
<1>8. NodeOK(new)
    BY <1>1, <1>5, <1>6, <1>7, ANodeIs
<1>9. AnswersOK(res)
    BY <1>4, <1>8, AddEchoesIs
<1> HIDE DEF res
<1>10. NodeOK(Amplified(res, r))
    BY <1>9, BroadcastAnyIs DEF Amplified, AnswersOK
<1> QED
    BY <1>3, <1>10

LEMMA StartBaaIs ==
    ASSUME NEW nd, NodeOK(nd), NEW p \in Node, NEW r \in 0 .. Rounds + 1
    PROVE  NodeOK(StartBaa(nd, p, r))
<1>1. CASE r > Rounds
  <2> DEFINE new == [nd EXCEPT !.round = r]
  <2>1. /\ nd.value \in {LowVal, HighVal} /\ (nd.out = <<>> \/ Len(nd.out) = 1)
        /\ nd.levels \in [Levels -> Tilings]
        /\ nd.blocked \in BOOLEAN /\ nd.sent \in Seq(Messages)
      BY NodeIs
  <2>2. new = ANode(nd.value, r, nd.levels, nd.out, nd.blocked, nd.sent)
      BY DEF NodeOK, ANode
  <2>3. StartBaa(nd, p, r) = SendResult(new)
      BY <1>1 DEF StartBaa
  <2>4. r \in -1 .. Rounds + 1
      BY LevelAssumption
  <2> HIDE DEF new
  <2>5. NodeOK(new)
      BY <2>1, <2>2, <2>4, ANodeIs
  <2> QED
      BY <2>3, <2>5, SendResultIs
<1>2. CASE ~(r > Rounds)
  <2> DEFINE begun == [l \in Levels |-> LevelStart(nd.levels[l], r, p, nd.value)]
  <2>1. r \in 0 .. Rounds
      BY <1>2, LevelAssumption
  <2>2. \A l \in Levels : begun[l] = LevelStart(nd.levels[l], r, p, nd.value)
      OBVIOUS
  <2>3. StartBaa(nd, p, r) = Begin(nd, p, r, begun)
      BY <1>2 DEF StartBaa
  <2> HIDE DEF begun
  <2>4. \A l \in Levels : Tiled(begun[l].ints) /\ begun[l].echo \in Seq(Proper)
    <3> TAKE l \in Levels
    <3>1. Tiled(nd.levels[l]) /\ nd.value \in Int
        BY NodeIs
    <3> DEFINE b == LevelStart(nd.levels[l], r, p, nd.value)
    <3>2. Tiled(b.ints) /\ b.echo \in Seq(Proper)
        BY <2>1, <3>1, LevelStartTyped
    <3> QED
        BY <2>2, <3>2
  <2> QED
      BY <2>1, <2>3, <2>4, BeginIs
<1> QED
    BY <1>1, <1>2

LEMMA Process2Is ==
    ASSUME NEW nd, NodeOK(nd), NEW p \in Node, NEW m \in Messages, NEW q \in Node
    PROVE  NodeOK(ProcessBaaEcho2(nd, p, m, q))
<1> DEFINE new == AddEchoes2(nd, m, q)
<1>1. m.round + 1 \in 0 .. Rounds + 1
    BY LevelAssumption DEF Messages
<1>2. NodeOK(new)
    BY AddEchoesIs
<1>3. ProcessBaaEcho2(nd, p, m, q) = IF Passed(nd, m) THEN nd ELSE GoOn(new, p, m.round)
    BY DEF ProcessBaaEcho2
<1> HIDE DEF new
<1>4. NodeOK(StartBaa(new, p, m.round + 1))
    BY <1>1, <1>2, StartBaaIs
<1>5. NodeOK(GoOn(new, p, m.round))
    BY <1>2, <1>4 DEF GoOn
<1> QED
    BY <1>3, <1>5

LEMMA ProcessIs ==
    ASSUME NEW nd, NodeOK(nd), NEW p \in Node, NEW m \in Messages, NEW q \in Node
    PROVE  NodeOK(ProcessBaaEcho(nd, p, m, q))
<1> DEFINE r == m.round
<1>1. r \in 0 .. Rounds /\ r + 1 \in 0 .. Rounds + 1
    BY LevelAssumption DEF Messages
<1> DEFINE res == AddEchoes(nd, m, q)
           amplified == Amplified(res, r)
           own == Message("ECHO2", r, res.echo2)
           voted == IF DOMAIN res.echo2 = {} THEN amplified
                    ELSE ProcessBaaEcho2(Broadcast(amplified, "ECHO2", r, res.echo2), p, own, p)
<1>4. AnswersOK(res)
    BY AddEchoesIs
<1>5. ProcessBaaEcho(nd, p, m, q)
        = IF Passed(nd, m) THEN nd
          ELSE IF TerminatedRound(res.nd, r) THEN StartBaa(voted, p, r + 1) ELSE voted
    BY DEF ProcessBaaEcho, Answer
<1> HIDE DEF res, r
<1>6. NodeOK(amplified)
    BY <1>1, <1>4, BroadcastAnyIs DEF Amplified, AnswersOK
<1>7. own \in Messages
    BY <1>1, <1>4, MessageIs DEF AnswersOK
<1> HIDE DEF amplified
<1>8. NodeOK(Broadcast(amplified, "ECHO2", r, res.echo2))
    BY <1>1, <1>4, <1>6, BroadcastAnyIs DEF AnswersOK
<1> HIDE DEF own
<1>9. NodeOK(voted)
  <2> DEFINE spoken == Broadcast(amplified, "ECHO2", r, res.echo2)
  <2>1. NodeOK(spoken)
      BY <1>8
  <2> HIDE DEF spoken
  <2>2. NodeOK(ProcessBaaEcho2(spoken, p, own, p))
      BY <1>7, <2>1, Process2Is
  <2> QED
      BY <1>6, <2>2 DEF spoken
<1> HIDE DEF voted
<1>10. NodeOK(StartBaa(voted, p, r + 1))
    BY <1>1, <1>9, StartBaaIs
<1> QED
    BY <1>5, <1>9, <1>10

LinksOK(lk) == lk \in [Node -> [Node -> Seq(Messages)]]

\* The inductive invariant: nodes are well-formed, and so is what they said to each other.
IInv ==
    /\ node = [p \in Node |-> node[p]] /\ \A p \in Node : NodeOK(node[p])
    /\ LinksOK(link)
    /\ {o[1] : o \in output} \subseteq Node

LEMMA InitTyped == Init => IInv
<1> SUFFICES ASSUME Init PROVE IInv
    OBVIOUS
<1>1. PICK input \in Inputs : node = [p \in Node |-> Idle(input[p])]
    BY DEF Init
<1>2. ASSUME NEW p \in Node PROVE NodeOK(node[p])
  <2> DEFINE v == input[p]
             levels == [l \in Levels |-> NewLevel(v, l)]
  <2>1. v \in {LowVal, HighVal}
      BY DelphiAssumption
  <2>2. node[p] = ANode(v, -1, levels, <<>>, FALSE, <<>>)
      BY <1>1 DEF Idle, ANode
  <2> HIDE DEF v
  <2>3. levels \in [Levels -> Tilings]
      BY <2>1, NewLevelIs, TilingIs
  <2>4. <<>> \in Seq(Messages) /\ -1 \in -1 .. Rounds + 1 /\ FALSE \in BOOLEAN
      BY LevelAssumption
  <2> HIDE DEF levels
  <2> QED
      BY <2>1, <2>2, <2>3, <2>4, ANodeIs
<1>3. LinksOK(link) /\ {o[1] : o \in output} \subseteq Node
    BY DEF Init, LinksOK
<1>4. node = [p \in Node |-> node[p]]
    BY <1>1
<1> QED
    BY <1>2, <1>3, <1>4 DEF IInv

LEMMA RunTyped ==
    ASSUME IInv, NEW p \in Node, NEW nd, NodeOK(nd), NEW lk, LinksOK(lk), Run(p, nd, lk),
           output' = output
    PROVE  IInv'
<1> DEFINE new == [nd EXCEPT !.sent = <<>>]
           out == [q \in Node |-> IF q = p THEN <<>> ELSE lk[p][q] \o nd.sent]
<1>1. NodeOK(new)
  <2>1. <<>> \in Seq(Messages)
      OBVIOUS
  <2> QED
      BY <2>1, NewSentIs
<1>2. node' = [node EXCEPT ![p] = new]
    BY DEF Run
<1> HIDE DEF new
<1>3. node' = [q \in Node |-> node'[q]] /\ \A q \in Node : NodeOK(node'[q])
  <2>1. \A q \in Node : node'[q] = IF q = p THEN new ELSE node[q]
      BY <1>2 DEF IInv
  <2> QED
      BY <1>1, <1>2, <2>1 DEF IInv
<1>4. link' = [lk EXCEPT ![p] = out]
    BY DEF Run, LinksOK
<1>5. nd.sent \in Seq(Messages)
    BY NodeIs
<1>6. out \in [Node -> Seq(Messages)]
    BY <1>5 DEF LinksOK
<1> HIDE DEF out
<1>7. LinksOK(link')
    BY <1>4, <1>6 DEF LinksOK
<1> QED
    BY <1>3, <1>7 DEF IInv

LEMMA NextTyped == IInv /\ [Next]_vars => IInv'
<1> SUFFICES ASSUME IInv, [Next]_vars PROVE IInv'
    OBVIOUS
<1>1. ASSUME NEW p \in Node, Join(p) PROVE IInv'
  <2>1. NodeOK(node[p]) /\ LinksOK(link)
      BY DEF IInv
  <2>2. 0 \in 0 .. Rounds + 1
      BY LevelAssumption
  <2> DEFINE nd == StartBaa(node[p], p, 0)
  <2>3. NodeOK(nd)
      BY <2>1, <2>2, StartBaaIs
  <2>4. Run(p, nd, link) /\ output' = output
      BY <1>1 DEF Join
  <2> HIDE DEF nd
  <2> QED
      BY <2>1, <2>3, <2>4, RunTyped
<1>2. ASSUME NEW p \in Node, NEW q \in Node, Deliver(q, p) PROVE IInv'
  <2> DEFINE m == Head(link[q][p])
             nd == IF m.kind = "ECHO1" THEN ProcessBaaEcho(node[p], p, m, q)
                   ELSE ProcessBaaEcho2(node[p], p, m, q)
             lk == [link EXCEPT ![q][p] = Tail(@)]
  <2>1. NodeOK(node[p]) /\ LinksOK(link)
      BY DEF IInv
  <2>2. link[q][p] \in Seq(Messages) /\ link[q][p] # <<>>
      BY <1>2, <2>1 DEF Deliver, LinksOK
  <2>3. m \in Messages /\ Tail(link[q][p]) \in Seq(Messages)
      BY <2>2
  <2>4. Run(p, nd, lk) /\ output' = output
      BY <1>2 DEF Deliver
  <2>5. LinksOK(lk)
      BY <2>1, <2>3 DEF LinksOK
  <2> HIDE DEF m, lk
  <2>6. NodeOK(ProcessBaaEcho(node[p], p, m, q)) /\ NodeOK(ProcessBaaEcho2(node[p], p, m, q))
      BY <2>1, <2>3, ProcessIs, Process2Is
  <2>7. NodeOK(nd)
      BY <2>6
  <2> HIDE DEF nd
  <2> QED
      BY <2>4, <2>5, <2>7, RunTyped
<1>3. ASSUME NEW p \in Node, ForwardResult(p) PROVE IInv'
  <2> DEFINE nd == node[p]
             new == [nd EXCEPT !.out = <<>>]
  <2>1. NodeOK(nd)
      BY DEF IInv
  <2>2. node' = [node EXCEPT ![p] = new]
      BY <1>3 DEF ForwardResult
  <2> HIDE DEF nd
  <2>3. /\ nd.value \in {LowVal, HighVal} /\ nd.round \in -1 .. Rounds + 1
        /\ nd.levels \in [Levels -> Tilings]
        /\ nd.blocked \in BOOLEAN /\ nd.sent \in Seq(Messages)
      BY <2>1, NodeIs
  <2>4. new = ANode(nd.value, nd.round, nd.levels, <<>>, nd.blocked, nd.sent)
      BY <2>1 DEF NodeOK, ANode
  <2> HIDE DEF new
  <2>5. NodeOK(new)
      BY <2>3, <2>4, ANodeIs
  <2>6. node' = [q \in Node |-> node'[q]] /\ \A q \in Node : NodeOK(node'[q])
    <3>1. \A q \in Node : node'[q] = IF q = p THEN new ELSE node[q]
        BY <2>2 DEF IInv
    <3> QED
        BY <2>2, <2>5, <3>1 DEF IInv
  <2>7. LinksOK(link')
      BY <1>3 DEF ForwardResult, IInv
  <2>8. {o[1] : o \in output'} \subseteq Node
    <3>1. \A o \in output' : o \in output \/ o[1] = p
        BY <1>3 DEF ForwardResult
    <3> QED
        BY <3>1 DEF IInv
  <2> QED
      BY <2>6, <2>7, <2>8 DEF IInv
<1>4. ASSUME UNCHANGED vars PROVE IInv'
    BY <1>4 DEF vars, IInv
<1> QED
    BY <1>1, <1>2, <1>3, <1>4 DEF Next, Step

LEMMA TypedOK == IInv => TypeOK
<1> SUFFICES ASSUME IInv PROVE TypeOK
    OBVIOUS
<1>1. ASSUME NEW p \in Node, NEW l \in Levels
      PROVE  LET ints == node[p].levels[l]
             IN  /\ ints[1].start = MinPoint /\ Last(ints).end = MaxPoint
                 /\ \A i \in 1 .. Len(ints) - 1 :
                       ints[i].start < ints[i].end /\ ints[i].end = ints[i + 1].start
  <2> DEFINE ints == node[p].levels[l]
  <2>1. Tiled(ints)
      BY NodeIs DEF IInv
  <2> HIDE DEF ints
  <2>2. /\ ints[1].start = MinPoint /\ ints[Len(ints)].end = MaxPoint /\ Len(ints) \in Nat
        /\ \A i \in 1 .. Len(ints) : ints[i].start < ints[i].end
        /\ \A i \in 1 .. Len(ints) - 1 : ints[i].end = ints[i + 1].start
      BY <2>1, TilesAre
  <2>3. \A i \in 1 .. Len(ints) - 1 : i \in 1 .. Len(ints)
      BY <2>2
  <2> QED
      BY <2>2, <2>3 DEF Last, ints
<1>2. ASSUME NEW p \in Node PROVE node[p].round \in -1 .. Rounds + 1 /\ Len(node[p].out) <= 1
  <2>1. NodeOK(node[p])
      BY DEF IInv
  <2> DEFINE out == node[p].out
  <2>2. node[p].round \in -1 .. Rounds + 1 /\ (out = <<>> \/ Len(out) = 1)
      BY <2>1, NodeIs
  <2> HIDE DEF out
  <2>3. Len(out) <= 1
    <3>1. CASE out = <<>>
      <4>1. Len(out) = 0
          BY <3>1
      <4> QED
          BY <4>1
    <3>2. CASE Len(out) = 1
        BY <3>2
    <3> QED
        BY <2>2, <3>1, <3>2
  <2> QED
      BY <2>2, <2>3 DEF out
<1>3. {o[1] : o \in output} \subseteq Node
    BY DEF IInv
<1> QED
    BY <1>1, <1>2, <1>3 DEF TypeOK

\* Whatever is split, said, coalesced and expanded, the intervals of every level stay in
\* order, without a gap, from one end of the range to the other, for every set of nodes and
\* levels and every separation that keeps what the two values weigh within the range.
THEOREM TypeCorrect == Spec => []TypeOK
<1>1. Spec => []IInv
    BY InitTyped, NextTyped, PTL DEF Spec
<1> QED
    BY <1>1, TypedOK, PTL
-----------------------------------------------------------------------------
(* Who is counted, and when a node goes on, whatever the levels weigh.     *)

\* A node whose rounds count only nodes of Q, a quorum once it has left round 0.
Held(Q, nd) ==
    /\ NodeOK(nd) /\ \A l \in Levels : BackedLevel(Q, nd.levels[l])
    /\ nd.round > 0 => Quorate(Q)
    /\ nd.out # <<>> => nd.round = Rounds + 1

\* A node keeps its value, and rounds only go forward.
Onward(nd, new) == new.value = nd.value /\ new.round >= nd.round

Rests(nd, new) == new.value = nd.value /\ new.round = nd.round

LEMMA HeldMore ==
    ASSUME NEW Q \in SUBSET Node, NEW S \in SUBSET Q, NEW nd, Held(S, nd)
    PROVE  Held(Q, nd)
<1>1. /\ Quorate(S) => Quorate(Q)
      /\ \A rs : Backed(S, rs) => Backed(Q, rs)
    BY MoreBack
<1>2. \A ints : BackedLevel(S, ints) => BackedLevel(Q, ints)
    BY <1>1 DEF BackedLevel, BackedRounds
<1> QED
    BY <1>1, <1>2 DEF Held

\* A node that speaks is what it was.
LEMMA HeldSpeaks ==
    ASSUME NEW Q, NEW nd, Held(Q, nd), NEW kind \in {"ECHO1", "ECHO2"}, NEW r \in 0 .. Rounds,
           NEW echos \in Sayings, NEW new,
           new = Broadcast(nd, kind, r, echos) \/ new = BroadcastAny(nd, kind, r, echos)
    PROVE  Held(Q, new) /\ Rests(nd, new)
<1>1. NodeOK(nd)
    BY DEF Held
<1>2. NodeOK(new)
  <2> DEFINE a == Broadcast(nd, kind, r, echos)
             b == BroadcastAny(nd, kind, r, echos)
  <2>1. NodeOK(a) /\ NodeOK(b)
      BY <1>1, BroadcastAnyIs
  <2>2. new = a \/ new = b
      OBVIOUS
  <2> HIDE DEF a, b
  <2> QED
      BY <2>1, <2>2
<1> DEFINE s == Append(nd.sent, Message(kind, r, echos))
<1>3. new = nd \/ new = [nd EXCEPT !.sent = s]
    BY DEF Broadcast, BroadcastAny
<1> HIDE DEF s
<1>4. new.value = nd.value /\ new.round = nd.round /\ new.levels = nd.levels /\ new.out = nd.out
  <2>1. CASE new = [nd EXCEPT !.sent = s]
      BY <1>1, <2>1, FieldsStay
  <2> QED
      BY <1>3, <2>1
<1> QED
    BY <1>2, <1>4 DEF Held, Rests

\* New levels whose rounds count only nodes of Q
LEMMA HeldLevels ==
    ASSUME NEW Q, NEW nd, Held(Q, nd), NEW levels, NEW new, new = [nd EXCEPT !.levels = levels],
           NodeOK(new), \A l \in Levels : BackedLevel(Q, levels[l])
    PROVE  Held(Q, new) /\ Rests(nd, new)
<1>1. /\ new.value = nd.value /\ new.round = nd.round /\ new.levels = levels
      /\ new.out = nd.out
    BY FieldsStay DEF Held
<1> QED
    BY <1>1 DEF Held, Rests

LEMMA HeldHears ==
    ASSUME NEW Q \in SUBSET Node, NEW nd, Held(Q, nd), NEW m \in Messages, NEW q \in Q, NEW out,
           out = AddEchoes(nd, m, q)
    PROVE  Held(Q, out.nd) /\ Rests(nd, out.nd) /\ AnswersOK(out)
<1> DEFINE heard == Expanded(m.echos)
           r == m.round
           D == DOMAIN heard
           res == [l \in D |-> LevelEcho(nd.levels[l], heard[l], r, q)]
           new == [l \in Levels |-> IF l \in D THEN res[l].ints ELSE nd.levels[l]]
<1>1. q \in Node /\ NodeOK(nd) /\ m.echos \in Coalesced /\ r \in 0 .. Rounds
    BY DEF Held, Messages
<1>2. AnswersOK(out)
    BY <1>1, AddEchoesIs
<1>3. D \in SUBSET Levels /\ \A l \in D : heard[l] \in Seq(Said3)
    BY <1>1, ExpandedIs, SayingsAre
<1>4. \A l \in Levels : Tiled(nd.levels[l]) /\ BackedLevel(Q, nd.levels[l])
    BY <1>1, NodeIs DEF Held
<1>5. out = Answers(nd, res)
    BY DEF AddEchoes, HearLevels
<1>6. DOMAIN res = D
    OBVIOUS
<1>7. \A l \in D : res[l] = LevelEcho(nd.levels[l], heard[l], r, q)
    OBVIOUS
<1> HIDE DEF r, heard, D, res
<1>8. out.nd = [nd EXCEPT !.levels = new]
    BY <1>1, <1>5, <1>6 DEF Answers, NodeOK, ANode
<1>9. \A l \in D : BackedLevel(Q, res[l].ints)
    BY <1>1, <1>3, <1>4, <1>7, EchoBacked
<1>10. \A l \in Levels : BackedLevel(Q, new[l])
    BY <1>4, <1>9
<1>11. NodeOK(out.nd)
    BY <1>2 DEF AnswersOK
<1> HIDE DEF new
<1> DEFINE nnd == out.nd
<1>12. nnd = [nd EXCEPT !.levels = new] /\ NodeOK(nnd)
    BY <1>8, <1>11
<1> HIDE DEF nnd
<1>13. Held(Q, nnd) /\ Rests(nd, nnd)
    BY <1>10, <1>12, HeldLevels
<1> QED
    BY <1>2, <1>13 DEF nnd

LEMMA HeldHears2 ==
    ASSUME NEW Q \in SUBSET Node, NEW nd, Held(Q, nd), NEW m \in Messages, NEW q \in Q, NEW new,
           new = AddEchoes2(nd, m, q)
    PROVE  Held(Q, new) /\ Rests(nd, new)
<1> DEFINE heard == Expanded(m.echos)
           r == m.round
           D == DOMAIN heard
           levels == [l \in Levels |-> IF l \in D THEN LevelEcho2(nd.levels[l], heard[l], r, q)
                                       ELSE nd.levels[l]]
<1>1. q \in Node /\ NodeOK(nd) /\ m.echos \in Coalesced /\ r \in 0 .. Rounds
    BY DEF Held, Messages
<1>2. NodeOK(new)
    BY <1>1, AddEchoesIs
<1>3. D \in SUBSET Levels /\ \A l \in D : heard[l] \in Seq(Said3)
    BY <1>1, ExpandedIs, SayingsAre
<1>4. \A l \in Levels : Tiled(nd.levels[l]) /\ BackedLevel(Q, nd.levels[l])
    BY <1>1, NodeIs DEF Held
<1>5. new = [nd EXCEPT !.levels = levels]
    BY <1>1 DEF AddEchoes2, HearLevels2, NodeOK, ANode
<1> HIDE DEF r, heard, D
<1>6. \A l \in Levels : l \in D => BackedLevel(Q, LevelEcho2(nd.levels[l], heard[l], r, q))
    BY <1>1, <1>3, <1>4, Echo2Backed
<1>7. \A l \in Levels : BackedLevel(Q, levels[l])
    BY <1>4, <1>6
<1> HIDE DEF levels
<1> QED
    BY <1>2, <1>5, <1>7, HeldLevels

LEMMA HeldBegins ==
    ASSUME NEW Q \in SUBSET Node, NEW nd, Held(Q, nd), NEW p \in Q, NEW r \in 0 .. Rounds,
           nd.round <= r, r > 0 => Quorate(Q), NEW begun,
           \A l \in Levels : /\ Tiled(begun[l].ints) /\ begun[l].echo \in Seq(Proper)
                             /\ BackedLevel(Q, begun[l].ints),
           NEW out, out = Begin(nd, p, r, begun)
    PROVE  Held(Q, out) /\ out.value = nd.value /\ out.round = r
<1> DEFINE echos == [l \in Levels |-> begun[l].echo]
           own == Message("ECHO1", r, echos)
           levels == [l \in Levels |-> begun[l].ints]
           sent == Append(nd.sent, own)
           new == [nd EXCEPT !.round = r, !.levels = levels, !.sent = sent]
           res == AddEchoes(new, own, p)
<1>1. /\ NodeOK(nd) /\ nd.value \in {LowVal, HighVal} /\ (nd.out = <<>> \/ Len(nd.out) = 1)
      /\ nd.blocked \in BOOLEAN /\ nd.sent \in Seq(Messages) /\ nd.round \in Int
    BY NodeIs DEF Held
<1>2. echos \in Sayings
  <2>1. \A s \in Seq(Proper) : s \in Seq(Said3)
      BY DEF Proper
  <2>2. echos \in [Levels -> Seq(Said3)]
      BY <2>1
  <2> HIDE DEF echos
  <2> QED
      BY <2>2, SayingIs
<1>3. out = BroadcastAny(res.nd, "ECHO1", r, res.echo1)
    BY DEF Begin, Amplified
<1> HIDE DEF echos
<1>4. own \in Messages
    BY <1>2, MessageIs
<1> HIDE DEF own
<1>5. sent \in Seq(Messages) /\ r \in -1 .. Rounds + 1 /\ r \in Int
    BY <1>1, <1>4, LevelAssumption
<1>6. levels \in [Levels -> Tilings] /\ \A l \in Levels : BackedLevel(Q, levels[l])
    BY TilingIs
<1> HIDE DEF sent, levels
<1>7. new = ANode(nd.value, r, levels, nd.out, nd.blocked, sent)
    BY <1>1, BegunNode
<1> HIDE DEF new
<1>8. NodeOK(new)
    BY <1>1, <1>5, <1>6, <1>7, ANodeIs
<1>9. nd.out = <<>>
  <2>1. Rounds \in Nat /\ nd.round # Rounds + 1
      BY <1>1, <1>5, LevelAssumption
  <2> QED
      BY <2>1 DEF Held
<1>10. new.value = nd.value /\ new.round = r /\ new.levels = levels /\ new.out = nd.out
    BY <1>7 DEF ANode
<1>11. Held(Q, new)
    BY <1>6, <1>8, <1>9, <1>10 DEF Held
<1>12. Held(Q, res.nd) /\ Rests(new, res.nd) /\ AnswersOK(res)
    BY <1>4, <1>11, HeldHears
<1> HIDE DEF res
<1>13. Held(Q, out) /\ Rests(res.nd, out)
    BY <1>3, <1>12, HeldSpeaks DEF AnswersOK
<1> QED
    BY <1>10, <1>12, <1>13 DEF Rests

LEMMA HeldStarts ==
    ASSUME NEW Q \in SUBSET Node, NEW nd, Held(Q, nd), NEW p \in Q, NEW r \in 0 .. Rounds + 1,
           nd.round <= r, r > 0 => Quorate(Q), NEW out, out = StartBaa(nd, p, r)
    PROVE  Held(Q, out) /\ out.value = nd.value /\ out.round = r
<1>1. p \in Node /\ NodeOK(nd)
    BY DEF Held
<1>2. NodeOK(out)
    BY <1>1, StartBaaIs
<1>3. CASE r > Rounds
  <2> DEFINE new == [nd EXCEPT !.round = r]
             result == <<Aggregate(new.levels, new.value)>>
  <2>1. r = Rounds + 1 /\ r > 0
      BY <1>3, LevelAssumption
  <2>2. out = SendResult(new)
      BY <1>3 DEF StartBaa
  <2>3. new.value = nd.value /\ new.round = r /\ new.levels = nd.levels
      BY <1>1, FieldsStay
  <2>4. NodeOK(new)
    <3>1. /\ nd.value \in {LowVal, HighVal} /\ (nd.out = <<>> \/ Len(nd.out) = 1)
          /\ nd.levels \in [Levels -> Tilings]
          /\ nd.blocked \in BOOLEAN /\ nd.sent \in Seq(Messages)
        BY <1>1, NodeIs
    <3>2. new = ANode(nd.value, r, nd.levels, nd.out, nd.blocked, nd.sent)
        BY <1>1 DEF NodeOK, ANode
    <3>3. r \in -1 .. Rounds + 1
        BY LevelAssumption
    <3> HIDE DEF new
    <3> QED
        BY <3>1, <3>2, <3>3, ANodeIs
  <2> DEFINE yes == TRUE
  <2>5. out = [new EXCEPT !.out = result] \/ out = [new EXCEPT !.blocked = yes]
      BY <2>2 DEF SendResult
  <2> HIDE DEF new, result, yes
  <2>6. out.value = nd.value /\ out.round = r /\ out.levels = nd.levels
    <3>1. CASE out = [new EXCEPT !.out = result]
        BY <2>3, <2>4, <3>1, FieldsStay
    <3>2. CASE out = [new EXCEPT !.blocked = yes]
        BY <2>3, <2>4, <3>2, FieldsStay
    <3> QED
        BY <2>5, <3>1, <3>2
  <2> QED
      BY <1>2, <2>1, <2>6 DEF Held
<1>4. CASE ~(r > Rounds)
  <2> DEFINE begun == [l \in Levels |-> LevelStart(nd.levels[l], r, p, nd.value)]
  <2>1. r \in 0 .. Rounds
      BY <1>4, LevelAssumption
  <2>2. \A l \in Levels : begun[l] = LevelStart(nd.levels[l], r, p, nd.value)
      OBVIOUS
  <2>3. out = Begin(nd, p, r, begun)
      BY <1>4 DEF StartBaa
  <2> HIDE DEF begun
  <2>4. \A l \in Levels : /\ Tiled(begun[l].ints) /\ begun[l].echo \in Seq(Proper)
                          /\ BackedLevel(Q, begun[l].ints)
    <3> TAKE l \in Levels
    <3>1. Tiled(nd.levels[l]) /\ nd.value \in Int /\ BackedLevel(Q, nd.levels[l])
        BY <1>1, NodeIs DEF Held
    <3> DEFINE b == LevelStart(nd.levels[l], r, p, nd.value)
    <3>2. Tiled(b.ints) /\ b.echo \in Seq(Proper)
        BY <1>1, <2>1, <3>1, LevelStartTyped
    <3>3. BackedLevel(Q, b.ints)
        BY <2>1, <3>1, StartBacked
    <3> QED
        BY <2>2, <3>2, <3>3
  <2> QED
      BY <2>1, <2>3, <2>4, HeldBegins
<1> QED
    BY <1>3, <1>4

\* A round is over only for who counted a quorum.
LEMMA OverIsQuorate ==
    ASSUME NEW Q, NEW nd, Held(Q, nd), NEW r \in 0 .. Rounds, TerminatedRound(nd, r)
    PROVE  Quorate(Q)
<1>1. 0 \in Levels
    BY LevelAssumption DEF Levels
<1> DEFINE ints == nd.levels[0]
<1>2. Tiled(ints) /\ BackedLevel(Q, ints) /\ LevelTerminated(ints, r)
    BY <1>1, NodeIs DEF Held, TerminatedRound
<1> HIDE DEF ints
<1>3. 1 \in DOMAIN ints
    BY <1>2, TilesAre
<1>4. Terminated(ints[1].state[r]) /\ Backed(Q, ints[1].state[r])
    BY <1>2, <1>3 DEF LevelTerminated, BackedLevel, BackedRounds
<1> QED
    BY <1>4 DEF Backed

LEMMA HeldEcho2 ==
    ASSUME NEW Q \in SUBSET Node, NEW nd, Held(Q, nd), NEW p \in Q, NEW m \in Messages, NEW q \in Q,
           NEW out, out = ProcessBaaEcho2(nd, p, m, q)
    PROVE  Held(Q, out) /\ Onward(nd, out) /\ (out.round = nd.round \/ out.round = m.round + 1)
<1> DEFINE new == AddEchoes2(nd, m, q)
           r == m.round
           s == r + 1
<1>1. r \in 0 .. Rounds /\ s \in 0 .. Rounds + 1 /\ r \in Int /\ s = r + 1 /\ nd.round \in Int
    BY LevelAssumption, NodeIs DEF Messages, Held
<1>2. CASE Passed(nd, m)
  <2>1. out = nd
      BY <1>2 DEF ProcessBaaEcho2
  <2> QED
      BY <1>1, <2>1 DEF Onward
<1>3. CASE ~Passed(nd, m)
  <2>1. out = IF TerminatedRound(new, r) THEN StartBaa(new, p, s) ELSE new
      BY <1>3 DEF ProcessBaaEcho2, GoOn
  <2>2. nd.round <= r
      BY <1>1, <1>3 DEF Passed
  <2>3. Held(Q, new) /\ Rests(nd, new)
      BY HeldHears2
  <2> HIDE DEF new, r, s
  <2>4. CASE ~TerminatedRound(new, r)
      BY <1>1, <2>1, <2>3, <2>4 DEF Rests, Onward
  <2>5. CASE TerminatedRound(new, r)
    <3>1. Quorate(Q)
        BY <1>1, <2>3, <2>5, OverIsQuorate
    <3>2. new.round <= s
        BY <1>1, <2>2, <2>3 DEF Rests
    <3>3. out = StartBaa(new, p, s)
        BY <2>1, <2>5
    <3>4. Held(Q, out) /\ out.value = new.value /\ out.round = s
        BY <1>1, <2>3, <3>1, <3>2, <3>3, HeldStarts
    <3> QED
        BY <1>1, <2>3, <3>2, <3>4 DEF Rests, Onward, s, r
  <2> QED
      BY <2>4, <2>5
<1> QED
    BY <1>2, <1>3

LEMMA HeldEcho ==
    ASSUME NEW Q \in SUBSET Node, NEW nd, Held(Q, nd), NEW p \in Q, NEW m \in Messages, NEW q \in Q,
           NEW out, out = ProcessBaaEcho(nd, p, m, q)
    PROVE  Held(Q, out) /\ Onward(nd, out)
<1> DEFINE r == m.round
           s == r + 1
           res == AddEchoes(nd, m, q)
           amplified == Amplified(res, r)
           own == Message("ECHO2", r, res.echo2)
           spoken == Broadcast(amplified, "ECHO2", r, res.echo2)
           voted == IF DOMAIN res.echo2 = {} THEN amplified ELSE ProcessBaaEcho2(spoken, p, own, p)
<1>1. r \in 0 .. Rounds /\ s \in 0 .. Rounds + 1 /\ r \in Int /\ s = r + 1 /\ nd.round \in Int
    BY LevelAssumption, NodeIs DEF Messages, Held
<1>2. CASE Passed(nd, m)
  <2>1. out = nd
      BY <1>2 DEF ProcessBaaEcho
  <2> QED
      BY <1>1, <2>1 DEF Onward
<1>3. CASE ~Passed(nd, m)
  <2>1. out = IF TerminatedRound(res.nd, r) THEN StartBaa(voted, p, s) ELSE voted
      BY <1>3 DEF ProcessBaaEcho, Answer
  <2>2. nd.round <= r
      BY <1>1, <1>3 DEF Passed
  <2>3. Held(Q, res.nd) /\ Rests(nd, res.nd) /\ AnswersOK(res)
      BY HeldHears
  <2>4. own.round = r
      BY DEF Message
  <2> HIDE DEF r, s, res
  <2>5. own \in Messages
      BY <1>1, <2>3, MessageIs DEF AnswersOK
  <2>6. Held(Q, amplified) /\ Rests(res.nd, amplified)
      BY <1>1, <2>3, HeldSpeaks DEF Amplified, AnswersOK
  <2> HIDE DEF own, amplified
  <2>7. Held(Q, spoken) /\ Rests(amplified, spoken)
      BY <1>1, <2>3, <2>6, HeldSpeaks DEF AnswersOK
  <2> HIDE DEF spoken
  <2> DEFINE x == ProcessBaaEcho2(spoken, p, own, p)
  <2>8. Held(Q, x) /\ Onward(spoken, x) /\ (x.round = spoken.round \/ x.round = own.round + 1)
      BY <2>5, <2>7, HeldEcho2
  <2> HIDE DEF x
  <2>9. voted = amplified \/ voted = x
      BY DEF x
  <2> HIDE DEF voted
  <2>10. /\ Held(Q, voted) /\ voted.value = nd.value
         /\ voted.round = nd.round \/ (voted.round = s /\ voted.round >= nd.round)
      BY <1>1, <2>3, <2>4, <2>6, <2>7, <2>8, <2>9 DEF Rests, Onward
  <2>11. CASE ~TerminatedRound(res.nd, r)
      BY <1>1, <2>1, <2>10, <2>11 DEF Onward
  <2>12. CASE TerminatedRound(res.nd, r)
    <3>1. Quorate(Q)
        BY <1>1, <2>3, <2>12, OverIsQuorate
    <3>2. voted.round <= s
        BY <1>1, <2>2, <2>10
    <3>3. out = StartBaa(voted, p, s)
        BY <2>1, <2>12
    <3>4. Held(Q, out) /\ out.value = voted.value /\ out.round = s
        BY <1>1, <2>10, <3>1, <3>2, <3>3, HeldStarts
    <3> QED
        BY <1>1, <2>2, <2>10, <3>4 DEF Onward
  <2> QED
      BY <2>11, <2>12
<1> QED
    BY <1>2, <1>3

\* Who has joined.
Arrived == {q \in Node : node[q].round >= 0}

\* Nobody leaves round 0 before n - f nodes have joined, and a result is handed over once.
QuorateInv == \A p \in Node : node[p].round > 0 => Cardinality(Arrived) >= HighThreshold

HandedOver(p) == \E o \in output : o[1] = p

OnceInv ==
    \A p \in Node :
        /\ node[p].out # <<>> => node[p].round = Rounds + 1
        /\ HandedOver(p) => node[p].out = <<>>

\* The inductive invariant: only who has joined is counted or speaks, and who handed its
\* result over hears no more.
HInv ==
    /\ IInv
    /\ \A p \in Node : Held(Arrived, node[p])
    /\ \A p \in Node, q \in Node : link[q][p] # <<>> => q \in Arrived
    /\ \A p \in Node : HandedOver(p) => node[p].round = Rounds + 1 /\ node[p].out = <<>>

LEMMA HInvMeans == HInv => QuorateInv /\ OnceInv
BY DEF HInv, Held, Quorate, QuorateInv, OnceInv

LEMMA NewlyBacked ==
    ASSUME NEW Q, NEW v \in {LowVal, HighVal}, NEW l \in Levels
    PROVE  BackedLevel(Q, NewLevel(v, l))
<1> DEFINE a == Interval(MinPoint, AroundFrom(v, l))
           b == Interval(AroundFrom(v, l), AroundTo(v, l))
           c == Interval(AroundTo(v, l), MaxPoint)
<1>1. Backed(Q, NoState)
  <2>1. NoState.slots = <<>> /\ NoState.term = NoVal
      BY DEF NoState
  <2>2. \A i \in DOMAIN <<>> : FALSE
      OBVIOUS
  <2> QED
      BY <2>1, <2>2 DEF Backed, Terminated
<1>2. \A s, e : BackedRounds(Q, Interval(s, e).state)
    BY <1>1 DEF BackedRounds, Interval
<1>3. NewLevel(v, l) = <<a, b, c>>
    BY DEF NewLevel
<1>4. BackedRounds(Q, a.state) /\ BackedRounds(Q, b.state) /\ BackedRounds(Q, c.state)
    BY <1>2
<1> HIDE DEF a, b, c
<1>5. \A i \in DOMAIN <<a, b, c>> : <<a, b, c>>[i] \in {a, b, c}
    OBVIOUS
<1> QED
    BY <1>3, <1>4, <1>5 DEF BackedLevel

LEMMA InitHeld == Init => HInv
<1> SUFFICES ASSUME Init PROVE HInv
    OBVIOUS
<1>1. PICK input \in Inputs : node = [p \in Node |-> Idle(input[p])]
    BY DEF Init
<1>2. IInv
    BY InitTyped
<1>3. ASSUME NEW p \in Node PROVE Held(Arrived, node[p])
  <2>1. input[p] \in {LowVal, HighVal}
      BY DelphiAssumption
  <2>2. /\ node[p].levels = [l \in Levels |-> NewLevel(input[p], l)]
        /\ node[p].round = -1 /\ node[p].out = <<>>
      BY <1>1 DEF Idle
  <2>3. \A l \in Levels : BackedLevel(Arrived, node[p].levels[l])
      BY <2>1, <2>2, NewlyBacked
  <2>4. ~(node[p].round > 0)
      BY <2>2
  <2> QED
      BY <1>2, <2>2, <2>3, <2>4 DEF Held, IInv
<1>4. \A p \in Node, q \in Node : link[q][p] = <<>>
    BY DEF Init
<1>5. \A p \in Node : ~HandedOver(p)
    BY DEF Init, HandedOver
<1> QED
    BY <1>2, <1>3, <1>4, <1>5 DEF HInv

\* A node that takes a step has joined and keeps the value it joined with.
StepsAlone(p) ==
    /\ node'[p].value = node[p].value /\ node'[p].round >= 0
    /\ \A q \in Node : q # p => node'[q] = node[q]

LEMMA RunHeld ==
    ASSUME HInv, NEW p \in Node, NEW nd, NEW Q, Q = Arrived \union {p}, Held(Q, nd),
           Onward(node[p], nd), nd.round >= 0, HandedOver(p) => nd = node[p],
           NEW lk, LinksOK(lk), \A a \in Node, b \in Node : lk[a][b] # <<>> => a \in Q,
           Run(p, nd, lk), output' = output
    PROVE  HInv' /\ StepsAlone(p)
<1> DEFINE none == <<>>
           new == [nd EXCEPT !.sent = none]
<1>1. NodeOK(nd) /\ IInv /\ Q \in SUBSET Node
    BY DEF Held, HInv, Arrived
<1>2. IInv'
    BY <1>1, RunTyped
<1>3. node' = [node EXCEPT ![p] = new]
    BY DEF Run
<1> HIDE DEF none
<1>4. /\ new.value = nd.value /\ new.round = nd.round /\ new.levels = nd.levels
      /\ new.out = nd.out
    BY <1>1, FieldsStay
<1> HIDE DEF new
<1>5. \A q \in Node : node'[q] = IF q = p THEN new ELSE node[q]
    BY <1>1, <1>3 DEF IInv
<1>6. StepsAlone(p)
    BY <1>4, <1>5 DEF StepsAlone, Onward
<1>7. Arrived' = Q
    BY <1>4, <1>5 DEF Arrived
<1>8. ASSUME NEW q \in Node PROVE Held(Q, node'[q])
  <2>1. NodeOK(node'[q])
      BY <1>2 DEF IInv
  <2>2. CASE q = p
      BY <1>4, <1>5, <2>1, <2>2 DEF Held
  <2>3. CASE q # p
    <3>1. Held(Arrived, node[q]) /\ Arrived \in SUBSET Q
        BY DEF HInv
    <3>2. Held(Q, node[q])
        BY <1>1, <3>1, HeldMore
    <3> QED
        BY <1>5, <2>3, <3>2
  <2> QED
      BY <2>2, <2>3
<1>9. \A a \in Node, b \in Node : link'[a][b] # <<>> => a \in Q
  <2> SUFFICES ASSUME NEW a \in Node, NEW b \in Node, link'[a][b] # <<>>, a # p PROVE a \in Q
      OBVIOUS
  <2>1. link'[a] = lk[a]
      BY DEF Run, LinksOK
  <2> QED
      BY <2>1
<1>10. ASSUME NEW q \in Node, HandedOver(q)'
       PROVE  node'[q].round = Rounds + 1 /\ node'[q].out = <<>>
  <2>1. HandedOver(q)
      BY <1>10 DEF HandedOver
  <2>2. node[q].round = Rounds + 1 /\ node[q].out = <<>>
      BY <2>1 DEF HInv
  <2> QED
      BY <1>4, <1>5, <2>1, <2>2
<1>11. /\ \A q \in Node : Held(Arrived, node[q])'
       /\ \A a \in Node, b \in Node : link'[a][b] # <<>> => a \in Arrived'
       /\ \A q \in Node : HandedOver(q)' => node'[q].round = Rounds + 1 /\ node'[q].out = <<>>
  <2>1. \A q \in Node : Held(Arrived, node[q])' <=> Held(Arrived', node'[q])
      BY DEF Held, NodeOK, BackedLevel, BackedRounds, Backed, Quorate
  <2> QED
      BY <1>7, <1>8, <1>9, <1>10, <2>1
<1> QED
    BY <1>2, <1>6, <1>11 DEF HInv

LEMMA JoinHeld ==
    ASSUME HInv, NEW p \in Node, Join(p)
    PROVE  HInv' /\ StepsAlone(p)
<1> DEFINE nd == node[p]
           r == 0
           out == StartBaa(nd, p, r)
           Q == Arrived \union {p}
<1>1. /\ Held(Arrived, nd) /\ nd.round = -1 /\ LinksOK(link)
      /\ Run(p, out, link) /\ output' = output
    BY DEF HInv, IInv, Join
<1>2. /\ Q \in SUBSET Node /\ Arrived \in SUBSET Q /\ p \in Q
    BY DEF Arrived
<1>3. r \in 0 .. Rounds + 1 /\ nd.round <= r /\ r >= 0 /\ r >= nd.round /\ ~(r > 0)
    BY <1>1, LevelAssumption
<1>4. ~HandedOver(p)
  <2>1. nd.round # Rounds + 1
      BY <1>1, LevelAssumption
  <2> QED
      BY <2>1 DEF HInv
<1>5. \A a \in Node, b \in Node : link[a][b] # <<>> => a \in Q
    BY DEF HInv
<1>6. out = StartBaa(nd, p, r) /\ Q = Arrived \union {p}
    OBVIOUS
<1> HIDE DEF r, out, Q
<1>7. Held(Q, nd)
    BY <1>1, <1>2, HeldMore
<1>8. Held(Q, out) /\ out.value = nd.value /\ out.round = r
    BY <1>2, <1>3, <1>6, <1>7, HeldStarts
<1>9. Onward(nd, out) /\ out.round >= 0
    BY <1>3, <1>8 DEF Onward
<1> QED
    BY <1>1, <1>4, <1>5, <1>6, <1>8, <1>9, RunHeld

LEMMA DeliverHeld ==
    ASSUME HInv, NEW p \in Node, NEW q \in Node, Deliver(q, p)
    PROVE  HInv' /\ StepsAlone(p)
<1> DEFINE m == Head(link[q][p])
           nd == node[p]
           out == IF m.kind = "ECHO1" THEN ProcessBaaEcho(nd, p, m, q)
                  ELSE ProcessBaaEcho2(nd, p, m, q)
           lk == [link EXCEPT ![q][p] = Tail(@)]
           Q == Arrived
<1>1. /\ Held(Q, nd) /\ nd.round >= 0 /\ LinksOK(link) /\ link[q][p] # <<>>
      /\ Run(p, out, lk) /\ output' = output
    BY DEF HInv, IInv, Deliver
<1>2. Q \in SUBSET Node /\ p \in Q /\ q \in Q /\ Q = Arrived \union {p}
    BY <1>1 DEF HInv, Arrived
<1>3. link[q][p] \in Seq(Messages)
    BY <1>1 DEF LinksOK
<1>4. m \in Messages /\ Tail(link[q][p]) \in Seq(Messages)
    BY <1>1, <1>3
<1>5. LinksOK(lk)
    BY <1>1, <1>4 DEF LinksOK
<1>6. \A a \in Node, b \in Node : lk[a][b] # <<>> => a \in Q
  <2>1. \A a \in Node, b \in Node : lk[a][b] = IF a = q /\ b = p THEN Tail(link[q][p]) ELSE link[a][b]
      BY <1>1 DEF LinksOK
  <2> QED
      BY <1>2, <2>1 DEF HInv
<1>7. nd.round \in Int /\ m.round \in Int /\ m.round <= Rounds /\ Rounds \in Nat
  <2> HIDE DEF m, nd
  <2>1. nd.round \in Int
      BY <1>1, NodeIs DEF Held
  <2>2. m.round \in 0 .. Rounds
      BY <1>4 DEF Messages
  <2> QED
      BY <2>1, <2>2, LevelAssumption
<1>8. HandedOver(p) => out = nd
  <2> SUFFICES ASSUME HandedOver(p) PROVE out = nd
      OBVIOUS
  <2>1. nd.round = Rounds + 1
      BY DEF HInv
  <2>2. Passed(nd, m)
      BY <1>7, <2>1 DEF Passed
  <2> QED
      BY <2>2 DEF ProcessBaaEcho, ProcessBaaEcho2
<1>9. out = ProcessBaaEcho(nd, p, m, q) \/ out = ProcessBaaEcho2(nd, p, m, q)
    OBVIOUS
<1> HIDE DEF out, lk, m, Q
<1>10. Held(Q, out) /\ Onward(nd, out)
  <2> HIDE DEF nd
  <2>1. CASE out = ProcessBaaEcho(nd, p, m, q)
      BY <1>1, <1>2, <1>4, <2>1, HeldEcho
  <2>2. CASE out = ProcessBaaEcho2(nd, p, m, q)
      BY <1>1, <1>2, <1>4, <2>2, HeldEcho2
  <2> QED
      BY <1>9, <2>1, <2>2
<1>11. out.round >= 0
  <2>1. out.round \in Int
      BY <1>10, NodeIs DEF Held
  <2> QED
      BY <1>1, <1>7, <1>10, <2>1 DEF Onward
<1> QED
    BY <1>1, <1>2, <1>5, <1>6, <1>8, <1>10, <1>11, RunHeld

LEMMA ForwardHeld ==
    ASSUME HInv, NEW p \in Node, ForwardResult(p)
    PROVE  HInv'
<1> DEFINE nd == node[p]
           none == <<>>
           new == [nd EXCEPT !.out = none]
<1>1. /\ NodeOK(nd) /\ nd.out # <<>> /\ link' = link /\ output' = output \union {<<p, nd.out[1]>>}
      /\ node' = [node EXCEPT ![p] = new]
    BY DEF HInv, IInv, ForwardResult
<1>2. IInv'
    BY NextTyped DEF HInv, Next, Step
<1> HIDE DEF none
<1>3. new.round = nd.round /\ new.levels = nd.levels /\ new.out = none
    BY <1>1, FieldsStay
<1>4. nd.round = Rounds + 1
    BY <1>1 DEF HInv, Held
<1> HIDE DEF new
<1>5. \A q \in Node : node'[q] = IF q = p THEN new ELSE node[q]
    BY <1>1 DEF HInv, IInv
<1>6. Arrived' = Arrived
    BY <1>3, <1>5 DEF Arrived
<1>7. \A q \in Node : Held(Arrived, node'[q])
  <2> SUFFICES ASSUME NEW q \in Node PROVE Held(Arrived, node'[q])
      OBVIOUS
  <2>1. NodeOK(node'[q]) /\ Held(Arrived, node[q])
      BY <1>2 DEF IInv, HInv
  <2>2. CASE q = p
      BY <1>3, <1>5, <2>1, <2>2 DEF Held, none
  <2> QED
      BY <1>5, <2>1, <2>2
<1>8. ASSUME NEW q \in Node, HandedOver(q)'
      PROVE  node'[q].round = Rounds + 1 /\ node'[q].out = <<>>
  <2>1. CASE q = p
      BY <1>3, <1>4, <1>5, <2>1 DEF none
  <2>2. CASE q # p
    <3>1. HandedOver(q)
      <4>1. \A o \in output' : o \in output \/ o[1] = p
          BY <1>1
      <4> QED
          BY <1>8, <2>2, <4>1 DEF HandedOver
    <3> QED
        BY <1>5, <2>2, <3>1 DEF HInv
  <2> QED
      BY <2>1, <2>2
<1>9. \A q \in Node : Held(Arrived, node[q])' <=> Held(Arrived', node'[q])
    BY DEF Held, NodeOK, BackedLevel, BackedRounds, Backed, Quorate
<1>10. \A a \in Node, b \in Node : link'[b][a] # <<>> => b \in Arrived'
    BY <1>1, <1>6 DEF HInv
<1> QED
    BY <1>2, <1>6, <1>7, <1>8, <1>9, <1>10 DEF HInv

LEMMA NextHeld == HInv /\ [Next]_vars => HInv'
<1> SUFFICES ASSUME HInv, [Next]_vars PROVE HInv'
    OBVIOUS
<1>1. ASSUME UNCHANGED vars PROVE HInv'
  <2>1. node' = node /\ link' = link /\ output' = output
      BY <1>1 DEF vars
  <2>2. IInv'
      BY NextTyped DEF HInv
  <2>3. Arrived' = Arrived /\ \A p \in Node : HandedOver(p)' <=> HandedOver(p)
      BY <2>1 DEF Arrived, HandedOver
  <2>4. \A p \in Node : Held(Arrived, node[p])' <=> Held(Arrived', node'[p])
      BY DEF Held, NodeOK, BackedLevel, BackedRounds, Backed, Quorate
  <2> QED
      BY <2>1, <2>2, <2>3, <2>4 DEF HInv
<1> QED
    BY <1>1, JoinHeld, DeliverHeld, ForwardHeld DEF Next, Step

LEMMA HeldAlways == Spec => []HInv
BY InitHeld, NextHeld, PTL DEF Spec
-----------------------------------------------------------------------------
(* What the two values weigh, at all levels.                               *)

\* No level weighs two values of V at checkpoints that overlap or touch.
Parted(V) ==
    \A v \in V, w \in V, l \in Levels :
        v # w => AroundTo(v, l) < AroundFrom(w, l) \/ AroundTo(w, l) < AroundFrom(v, l)

\* One value is parted from itself, whatever the levels are.
LEMMA OneIsParted == \A v : Parted({v})
BY DEF Parted

\* Nodes have joined with the values in V.
Camps == SUBSET {LowVal, HighVal}

\* A place is a point at a level.
Place == Levels \X Point

Weighs(v, c) == AroundFrom(v, c[1]) <= c[2] /\ c[2] < AroundTo(v, c[1])

\* The values that weigh a place: all that tells places apart
Kind(V, c) == {v \in V : Weighs(v, c)}

\* Where intervals begin and end at level l
Edges(V, l) ==
    {MinPoint, MaxPoint} \union {AroundFrom(v, l) : v \in V} \union {AroundTo(v, l) : v \in V}

LEMMA PlaceIs ==
    /\ \A c \in Place : c[1] \in Levels /\ c[2] \in Point /\ c = <<c[1], c[2]>>
    /\ \A l \in Levels, y \in Point : <<l, y>> \in Place /\ <<l, y>>[1] = l /\ <<l, y>>[2] = y
BY DEF Place

LEMMA CellIs ==
    ASSUME NEW v \in {LowVal, HighVal}, NEW l \in Levels
    PROVE  /\ v \in Nat /\ AroundFrom(v, l) \in Int /\ AroundTo(v, l) \in Int
           /\ MinPoint < AroundFrom(v, l) /\ AroundFrom(v, l) < AroundTo(v, l)
           /\ AroundTo(v, l) < MaxPoint
           /\ AroundFrom(v, l) \in Point /\ AroundTo(v, l) \in Point
<1>1. v \in Nat /\ v \in Int
    BY DelphiAssumption
<1>2. AroundFrom(v, l) \in Int /\ AroundTo(v, l) \in Int /\ AroundFrom(v, l) < AroundTo(v, l)
    BY <1>1, AroundIs
<1>3. MinPoint < AroundFrom(v, l) /\ AroundTo(v, l) < MaxPoint
    BY DelphiAssumption
<1> QED
    BY <1>1, <1>2, <1>3, EndsAre DEF Point

LEMMA CellsApart ==
    ASSUME NEW V, Parted(V), NEW v \in V, NEW w \in V, v # w, NEW l \in Levels
    PROVE  AroundTo(v, l) < AroundFrom(w, l) \/ AroundTo(w, l) < AroundFrom(v, l)
BY DEF Parted

\* At most one value weighs a place.
LEMMA KindIs ==
    ASSUME NEW V \in Camps, Parted(V), NEW c \in Place
    PROVE  /\ \A v \in V : v \in Kind(V, c) => Kind(V, c) = {v}
           /\ \A v \in V : v \in Kind(V, c) <=> Weighs(v, c)
           /\ Kind(V, c) \subseteq V
<1>1. ASSUME NEW v \in V, NEW w \in V, Weighs(v, c), Weighs(w, c), v # w PROVE FALSE
  <2>1. c[1] \in Levels /\ c[2] \in Int /\ v \in {LowVal, HighVal} /\ w \in {LowVal, HighVal}
      BY PlaceIs DEF Camps, Point
  <2>2. /\ AroundFrom(v, c[1]) \in Int /\ AroundTo(v, c[1]) \in Int
        /\ AroundFrom(w, c[1]) \in Int /\ AroundTo(w, c[1]) \in Int
      BY <2>1, CellIs
  <2>3. AroundTo(v, c[1]) < AroundFrom(w, c[1]) \/ AroundTo(w, c[1]) < AroundFrom(v, c[1])
      BY <1>1, <2>1, CellsApart
  <2> QED
      BY <1>1, <2>1, <2>2, <2>3 DEF Weighs
<1> QED
    BY <1>1 DEF Kind

\* Where a value weighs, and where it does not any more
LEMMA KindsOf ==
    ASSUME NEW V \in Camps, Parted(V), NEW l \in Levels, NEW v \in V
    PROVE  /\ <<l, AroundFrom(v, l)>> \in Place /\ Kind(V, <<l, AroundFrom(v, l)>>) = {v}
           /\ <<l, AroundTo(v, l)>> \in Place /\ Kind(V, <<l, AroundTo(v, l)>>) = {}
<1>1. \A w \in V : w \in {LowVal, HighVal}
    BY DEF Camps
<1>2. \A w \in V : /\ AroundFrom(w, l) \in Int /\ AroundTo(w, l) \in Int
                   /\ MinPoint < AroundFrom(w, l) /\ AroundFrom(w, l) < AroundTo(w, l)
                   /\ AroundTo(w, l) < MaxPoint
                   /\ AroundFrom(w, l) \in Point /\ AroundTo(w, l) \in Point
    BY <1>1, CellIs
<1>4. \A y \in Point : <<l, y>> \in Place /\ <<l, y>>[1] = l /\ <<l, y>>[2] = y
    BY PlaceIs
<1>5. Weighs(v, <<l, AroundFrom(v, l)>>) /\ ~Weighs(v, <<l, AroundTo(v, l)>>)
    BY <1>2, <1>4 DEF Weighs
<1>6. ASSUME NEW w \in V, w # v PROVE ~Weighs(w, <<l, AroundTo(v, l)>>)
  <2>1. AroundTo(v, l) < AroundFrom(w, l) \/ AroundTo(w, l) < AroundFrom(v, l)
      BY <1>1, <1>6, CellsApart
  <2> QED
      BY <1>2, <1>4, <2>1 DEF Weighs
<1>7. Kind(V, <<l, AroundTo(v, l)>>) = {}
    BY <1>5, <1>6 DEF Kind
<1>8. v \in Kind(V, <<l, AroundFrom(v, l)>>)
    BY <1>5 DEF Kind
<1> QED
    BY <1>2, <1>4, <1>7, <1>8, KindIs

\* At both ends of a level nothing is weighed.
LEMMA NothingOutside ==
    ASSUME NEW V \in Camps, Parted(V), NEW l \in Levels
    PROVE  /\ <<l, MinPoint>> \in Place /\ Kind(V, <<l, MinPoint>>) = {}
           /\ <<l, MaxPoint - 1>> \in Place /\ Kind(V, <<l, MaxPoint - 1>>) = {}
<1>1. \A v \in V : v \in {LowVal, HighVal}
    BY DEF Camps
<1>2. \A v \in V : /\ AroundFrom(v, l) \in Int /\ AroundTo(v, l) \in Int
                   /\ MinPoint < AroundFrom(v, l) /\ AroundFrom(v, l) < AroundTo(v, l)
                   /\ AroundTo(v, l) < MaxPoint
    BY <1>1, CellIs
<1>3. MinPoint \in Point /\ MaxPoint - 1 \in Point /\ MinPoint \in Int /\ MaxPoint \in Int
    BY EndsAre DEF Point
<1>4. \A y \in Point : <<l, y>> \in Place /\ <<l, y>>[1] = l /\ <<l, y>>[2] = y
    BY PlaceIs
<1>5. Kind(V, <<l, MinPoint>>) = {}
  <2>1. ASSUME NEW v \in V PROVE ~Weighs(v, <<l, MinPoint>>)
      BY <1>2, <1>3, <1>4 DEF Weighs
  <2> QED
      BY <2>1 DEF Kind
<1>6. Kind(V, <<l, MaxPoint - 1>>) = {}
  <2>1. ASSUME NEW v \in V PROVE ~Weighs(v, <<l, MaxPoint - 1>>)
      BY <1>2, <1>3, <1>4 DEF Weighs
  <2> QED
      BY <2>1 DEF Kind
<1> QED
    BY <1>3, <1>4, <1>5, <1>6

\* The same, for the provers, which do not find an instance of an equation between sets.
Solely(V, c, v) == Kind(V, c) = {v}
Unweighed(V, c) == Kind(V, c) = {}

LEMMA CellWeighed ==
    ASSUME NEW V \in Camps, Parted(V), NEW l \in Levels, NEW v \in V
    PROVE  /\ <<l, AroundFrom(v, l)>> \in Place /\ Solely(V, <<l, AroundFrom(v, l)>>, v)
           /\ <<l, AroundTo(v, l)>> \in Place /\ Unweighed(V, <<l, AroundTo(v, l)>>)
<1>1. /\ <<l, AroundFrom(v, l)>> \in Place /\ Kind(V, <<l, AroundFrom(v, l)>>) = {v}
      /\ <<l, AroundTo(v, l)>> \in Place /\ Kind(V, <<l, AroundTo(v, l)>>) = {}
    BY KindsOf
<1> QED
    BY <1>1 DEF Solely, Unweighed

\* Every kind there is is met at every level, at one of the checkpoints.
LEMMA KindEverywhere ==
    ASSUME NEW V \in Camps, Parted(V), NEW c \in Place, NEW l \in Levels
    PROVE  \E y \in Point : /\ y = MinPoint \/ \E v \in V : y = AroundFrom(v, l)
                            /\ Kind(V, <<l, y>>) = Kind(V, c)
<1>1. CASE Kind(V, c) = {}
  <2>1. MinPoint \in Point
      BY EndsAre DEF Point
  <2>2. Kind(V, <<l, MinPoint>>) = {}
      BY NothingOutside
  <2> QED
      BY <1>1, <2>1, <2>2
<1>2. CASE Kind(V, c) # {}
  <2>1. PICK v \in V : v \in Kind(V, c)
      BY <1>2, KindIs
  <2>2. Kind(V, c) = {v}
      BY <2>1, KindIs
  <2>3. Kind(V, <<l, AroundFrom(v, l)>>) = {v}
    <3>1. Solely(V, <<l, AroundFrom(v, l)>>, v)
        BY CellWeighed
    <3> QED
        BY <3>1 DEF Solely
  <2>4. AroundFrom(v, l) \in Point
      BY CellIs DEF Camps
  <2> QED
      BY <2>2, <2>3, <2>4
<1> QED
    BY <1>1, <1>2

\* A place between two edges is one of these.
LEMMA EdgesAre ==
    ASSUME NEW V \in Camps, NEW l \in Levels
    PROVE  /\ Edges(V, l) \subseteq Int
           /\ \A x \in Edges(V, l) : MinPoint <= x /\ x <= MaxPoint
           /\ MinPoint \in Edges(V, l) /\ MaxPoint \in Edges(V, l)
           /\ \A v \in V : AroundFrom(v, l) \in Edges(V, l) /\ AroundTo(v, l) \in Edges(V, l)
<1>1. \A v \in V : /\ AroundFrom(v, l) \in Int /\ AroundTo(v, l) \in Int
                   /\ MinPoint < AroundFrom(v, l) /\ AroundFrom(v, l) < AroundTo(v, l)
                   /\ AroundTo(v, l) < MaxPoint
    BY CellIs DEF Camps
<1> QED
    BY <1>1, EndsAre DEF Edges

\* No edge lies within what a value weighs.
LEMMA EdgesWithin ==
    ASSUME NEW V \in Camps, Parted(V), NEW l \in Levels, NEW v \in V, NEW x \in Edges(V, l)
    PROVE  /\ AroundFrom(v, l) <= x /\ x < AroundTo(v, l) => x = AroundFrom(v, l)
           /\ AroundFrom(v, l) < x /\ x <= AroundTo(v, l) => x = AroundTo(v, l)
<1>1. \A w \in V : /\ AroundFrom(w, l) \in Int /\ AroundTo(w, l) \in Int
                   /\ MinPoint < AroundFrom(w, l) /\ AroundFrom(w, l) < AroundTo(w, l)
                   /\ AroundTo(w, l) < MaxPoint
    BY CellIs DEF Camps
<1>2. \A w \in V : v # w => AroundTo(v, l) < AroundFrom(w, l) \/ AroundTo(w, l) < AroundFrom(v, l)
    BY CellsApart DEF Camps
<1>3. x = MinPoint \/ x = MaxPoint \/ \E w \in V : x = AroundFrom(w, l) \/ x = AroundTo(w, l)
    BY DEF Edges
<1>4. ASSUME NEW w \in V, x = AroundFrom(w, l) \/ x = AroundTo(w, l)
      PROVE  /\ AroundFrom(v, l) <= x /\ x < AroundTo(v, l) => x = AroundFrom(v, l)
             /\ AroundFrom(v, l) < x /\ x <= AroundTo(v, l) => x = AroundTo(v, l)
  <2>1. CASE v = w
      BY <1>1, <1>4, <2>1
  <2>2. CASE v # w
      BY <1>1, <1>2, <1>4, <2>2
  <2> QED
      BY <2>1, <2>2
<1> QED
    BY <1>1, <1>3, <1>4, EndsAre
-----------------------------------------------------------------------------
(* coalesce and expand.                                                    *)

\* What is said of a place
Utters(echos, c, v) == c[1] \in DOMAIN echos /\ Speaks(echos[c[1]], c[2], v)

\* What is said begins and ends at edges.
EdgedSays(V, echos) ==
    echos \in Sayings /\ \A l \in DOMAIN echos : echos[l] \in Seq(Voiced(Edges(V, l)))

\* What may be said of a place: only zero where nothing is weighed, only MaxInput where
\* every value weighs.
Values(V, c) ==
    IF Kind(V, c) = {} THEN {0} ELSE IF Kind(V, c) = V THEN {MaxInput} ELSE Nat

\* One value is said of a place, one that may be, and the same everywhere for one kind.
Even(V, echos) ==
    /\ \A c \in Place : \A v, w : Utters(echos, c, v) /\ Utters(echos, c, w) => v = w
    /\ \A c \in Place : \A v : Utters(echos, c, v) => v \in Values(V, c)
    /\ \A c \in Place, d \in Place : Kind(V, c) = Kind(V, d) =>
          \A v : Utters(echos, c, v) => Utters(echos, d, v)

EchosOK(V, echos) == EdgedSays(V, echos) /\ Even(V, echos)

LEMMA EvenValues ==
    ASSUME NEW V, NEW echos, Even(V, echos)
    PROVE  \A c \in Place : \A v : Utters(echos, c, v) => v \in Nat /\ (Kind(V, c) = {} => v = 0)
BY LevelPowers DEF Even, Values

LEMMA VoicedIs ==
    ASSUME NEW V \in Camps, NEW l \in Levels, NEW e \in Voiced(Edges(V, l))
    PROVE  /\ e \in Said3 /\ e.start \in Int /\ e.end \in Int /\ e.val \in Int /\ e.start < e.end
           /\ e.start \in Edges(V, l) /\ e.end \in Edges(V, l)
           /\ MinPoint <= e.start /\ e.end <= MaxPoint
           /\ e.start \in Point
<1>1. e \in Said3 /\ e.start < e.end /\ e.start \in Edges(V, l) /\ e.end \in Edges(V, l)
    BY DEF Voiced, In, Proper
<1>2. e.start \in Int /\ e.end \in Int /\ e.val \in Int
    BY <1>1 DEF Said3
<1> QED
    BY <1>1, <1>2, EdgesAre, EndsAre DEF Point

LEMMA EntrySpeaks ==
    ASSUME NEW V \in Camps, NEW echos, EdgedSays(V, echos), NEW l \in DOMAIN echos,
           NEW i \in DOMAIN echos[l], NEW y \in Point, Covers(echos[l][i], y)
    PROVE  Utters(echos, <<l, y>>, echos[l][i].val)
BY DEF Utters, Speaks

\* A level that speaks of everything in three parts says how one value weighs, and so does
\* what is said of the other levels.
LEMMA ThreePartsAre ==
    ASSUME NEW V \in Camps, Parted(V), NEW echos, EchosOK(V, echos),
           NEW l \in DOMAIN echos, ThreeParts(echos[l])
    PROVE  \E v \in V :
              /\ echos[l][2].start = AroundFrom(v, l) /\ echos[l][2].end = AroundTo(v, l)
              /\ \A c \in Place : \A x :
                    Utters(echos, c, x) <=> x = IF v \in Kind(V, c) THEN MaxInput ELSE 0
<1> DEFINE e1 == echos[l][1]
           e2 == echos[l][2]
           e3 == echos[l][3]
<1>1. l \in Levels /\ EdgedSays(V, echos) /\ Even(V, echos)
    BY SayingsAre DEF EchosOK, EdgedSays
<1>2. /\ echos[l] \in Seq(Voiced(Edges(V, l))) /\ Len(echos[l]) = 3
      /\ DOMAIN echos[l] = 1 .. 3
    BY <1>1 DEF EdgedSays, ThreeParts
<1>3. e1 \in Voiced(Edges(V, l)) /\ e2 \in Voiced(Edges(V, l)) /\ e3 \in Voiced(Edges(V, l))
    BY <1>2
<1>4. e1.start = MinPoint /\ e3.end = MaxPoint /\ e2.val = MaxInput
    BY DEF ThreeParts
<1>5. /\ MaxInput \in Nat /\ MaxInput # 0 /\ MinPoint \in Int /\ MaxPoint \in Int
      /\ MinPoint \in Point /\ MaxPoint - 1 \in Point
    BY LevelPowers, EndsAre DEF Point
<1>6. /\ \A y \in Point : Covers(e1, y) => Utters(echos, <<l, y>>, e1.val)
      /\ \A y \in Point : Covers(e2, y) => Utters(echos, <<l, y>>, e2.val)
      /\ \A y \in Point : Covers(e3, y) => Utters(echos, <<l, y>>, e3.val)
  <2>1. 1 \in DOMAIN echos[l] /\ 2 \in DOMAIN echos[l] /\ 3 \in DOMAIN echos[l]
      BY <1>2
  <2>2. \A i \in DOMAIN echos[l], y \in Point :
           Covers(echos[l][i], y) => Utters(echos, <<l, y>>, echos[l][i].val)
      BY <1>1, EntrySpeaks
  <2> QED
      BY <2>1, <2>2
<1>7. ASSUME NEW y \in Point, NEW x, Utters(echos, <<l, y>>, x)
      PROVE  \/ Covers(e1, y) /\ x = e1.val
             \/ Covers(e2, y) /\ x = e2.val
             \/ Covers(e3, y) /\ x = e3.val
  <2>1. <<l, y>>[1] = l /\ <<l, y>>[2] = y
      BY <1>1, PlaceIs
  <2>2. PICK i \in DOMAIN echos[l] : Covers(echos[l][i], y) /\ echos[l][i].val = x
      BY <1>7, <2>1 DEF Utters, Speaks
  <2>3. i = 1 \/ i = 2 \/ i = 3
      BY <1>2, <2>2
  <2>4. CASE i = 1
      BY <2>2, <2>4
  <2>5. CASE i = 2
      BY <2>2, <2>5
  <2>6. CASE i = 3
      BY <2>2, <2>6
  <2> QED
      BY <2>3, <2>4, <2>5, <2>6
<1> HIDE DEF e1, e2, e3
<1>8. /\ \A c \in Place : \A v, w : Utters(echos, c, v) /\ Utters(echos, c, w) => v = w
      /\ \A c \in Place : \A v : Utters(echos, c, v) => v \in Nat /\ (Kind(V, c) = {} => v = 0)
      /\ \A c \in Place, d \in Place : Kind(V, c) = Kind(V, d) =>
            \A v : Utters(echos, c, v) => Utters(echos, d, v)
    BY <1>1, EvenValues DEF Even
<1>9. /\ e1.start \in Int /\ e1.end \in Int /\ e1.start < e1.end /\ e1.end <= MaxPoint
      /\ e2.start \in Int /\ e2.end \in Int /\ e2.start < e2.end /\ e2.end <= MaxPoint
      /\ e3.start \in Int /\ e3.end \in Int /\ e3.start < e3.end /\ MinPoint <= e3.start
      /\ e2.start \in Point /\ e2.start \in Edges(V, l) /\ e2.end \in Edges(V, l)
    BY <1>1, <1>3, VoicedIs
<1>10. /\ \A y \in Point : <<l, y>> \in Place /\ <<l, y>>[1] = l /\ <<l, y>>[2] = y
       /\ \A y \in Point : y \in Int
    BY <1>1, PlaceIs DEF Point
<1>11. PICK v \in V : v \in Kind(V, <<l, e2.start>>)
  <2>3. Covers(e2, e2.start)
      BY <1>9 DEF Covers
  <2>1. Utters(echos, <<l, e2.start>>, MaxInput)
      BY <1>4, <1>6, <1>9, <2>3
  <2>2. Kind(V, <<l, e2.start>>) # {}
      BY <1>5, <1>8, <1>9, <1>10, <2>1
  <2> QED
      BY <2>2 DEF Kind
<1> DEFINE f == AroundFrom(v, l)
           t == AroundTo(v, l)
<1>12. /\ f \in Point /\ t \in Point /\ f \in Int /\ t \in Int
       /\ MinPoint < f /\ f < t /\ t < MaxPoint
       /\ <<l, f>> \in Place /\ Kind(V, <<l, f>>) = {v}
       /\ <<l, t>> \in Place /\ Kind(V, <<l, t>>) = {}
  <2>1. /\ f \in Point /\ t \in Point /\ f \in Int /\ t \in Int
        /\ MinPoint < f /\ f < t /\ t < MaxPoint
      BY <1>1, CellIs DEF Camps
  <2>2. /\ <<l, f>> \in Place /\ Solely(V, <<l, f>>, v)
        /\ <<l, t>> \in Place /\ Unweighed(V, <<l, t>>)
      BY <1>1, CellWeighed
  <2>3. Kind(V, <<l, f>>) = {v}
      BY <2>2 DEF Solely
  <2>4. Kind(V, <<l, t>>) = {}
      BY <2>2 DEF Unweighed
  <2> QED
      BY <2>1, <2>2, <2>3, <2>4
<1>13. e2.start = f
  <2>1. Weighs(v, <<l, e2.start>>)
      BY <1>11 DEF Kind
  <2>2. f <= e2.start /\ e2.start < t
      BY <1>9, <1>10, <2>1 DEF Weighs
  <2> QED
      BY <1>1, <1>9, <2>2, EdgesWithin
<1>14. e2.end = t
  <2>1. ~(t < e2.end)
    <3>1. SUFFICES ASSUME t < e2.end PROVE FALSE
        OBVIOUS
    <3>2. Covers(e2, t)
        BY <1>12, <1>13, <3>1 DEF Covers
    <3>3. Utters(echos, <<l, t>>, MaxInput)
        BY <1>4, <1>6, <1>12, <3>2
    <3> QED
        BY <1>5, <1>8, <1>12, <3>3
  <2>2. f < e2.end /\ e2.end <= t
      BY <1>9, <1>12, <1>13, <2>1
  <2> QED
      BY <1>1, <1>9, <2>2, EdgesWithin
<1>15. e1.val = 0 /\ Utters(echos, <<l, MinPoint>>, 0)
  <2>1. Covers(e1, MinPoint)
      BY <1>4, <1>9 DEF Covers
  <2>2. Utters(echos, <<l, MinPoint>>, e1.val)
      BY <1>5, <1>6, <2>1
  <2>3. Kind(V, <<l, MinPoint>>) = {} /\ <<l, MinPoint>> \in Place
      BY <1>1, NothingOutside
  <2> QED
      BY <1>8, <2>2, <2>3
<1>16. e3.val = 0
  <2>1. Covers(e3, MaxPoint - 1)
      BY <1>4, <1>5, <1>9 DEF Covers
  <2>2. Utters(echos, <<l, MaxPoint - 1>>, e3.val)
      BY <1>5, <1>6, <2>1
  <2>3. Kind(V, <<l, MaxPoint - 1>>) = {} /\ <<l, MaxPoint - 1>> \in Place
      BY <1>1, NothingOutside
  <2> QED
      BY <1>8, <2>2, <2>3
<1>17. Utters(echos, <<l, f>>, MaxInput)
    BY <1>4, <1>6, <1>9, <1>12, <1>13 DEF Covers
<1>18. ~Covers(e1, f) /\ ~Covers(e3, f)
    BY <1>5, <1>6, <1>8, <1>12, <1>15, <1>16, <1>17
<1> HIDE DEF f, t
<1>19. ASSUME NEW w \in V, w # v PROVE Utters(echos, <<l, AroundFrom(w, l)>>, 0)
  <2> DEFINE g == AroundFrom(w, l)
             u == AroundTo(w, l)
  <2>1. /\ g \in Point /\ u \in Point /\ g \in Int /\ u \in Int
        /\ MinPoint < g /\ g < u /\ u < MaxPoint
        /\ <<l, g>> \in Place /\ Kind(V, <<l, g>>) = {w}
        /\ <<l, u>> \in Place /\ Kind(V, <<l, u>>) = {}
    <3>1. w \in {LowVal, HighVal}
        BY DEF Camps
    <3>2. /\ g \in Point /\ u \in Point /\ g \in Int /\ u \in Int
          /\ MinPoint < g /\ g < u /\ u < MaxPoint
        BY <1>1, <3>1, CellIs
    <3>3. l \in Levels
        BY <1>1
    <3>4. /\ <<l, g>> \in Place /\ Kind(V, <<l, g>>) = {w}
          /\ <<l, u>> \in Place /\ Kind(V, <<l, u>>) = {}
        BY <3>3, KindsOf
    <3> QED
        BY <3>2, <3>4
  <2>2. t < g \/ u < f
      BY <1>1, <1>19, CellsApart DEF Camps, t, f
  <2> HIDE DEF g, u
  <2>3. \A y \in Point : Kind(V, <<l, y>>) = {} =>
           Covers(e1, y) \/ Covers(e2, y) \/ Covers(e3, y)
    <3>1. ASSUME NEW y \in Point, Kind(V, <<l, y>>) = {} PROVE Utters(echos, <<l, y>>, 0)
      <4>1. Kind(V, <<l, MinPoint>>) = {} /\ <<l, MinPoint>> \in Place /\ <<l, y>> \in Place
          BY <1>1, <1>10, NothingOutside
      <4> QED
          BY <1>8, <1>15, <3>1, <4>1
    <3> QED
        BY <1>7, <3>1
  <2>4. CASE t < g
    <3>1. Covers(e1, t) \/ Covers(e2, t) \/ Covers(e3, t)
        BY <1>12, <2>3
    <3>2. ~Covers(e2, t) /\ ~Covers(e1, t)
        BY <1>4, <1>9, <1>12, <1>14, <1>18 DEF Covers
    <3>3. Covers(e3, g)
        BY <1>4, <1>9, <1>12, <2>1, <2>4, <3>1, <3>2 DEF Covers
    <3> QED
        BY <1>6, <1>16, <2>1, <3>3 DEF g
  <2>5. CASE u < f
    <3>1. Covers(e1, u) \/ Covers(e2, u) \/ Covers(e3, u)
        BY <2>1, <2>3
    <3>2. ~Covers(e2, u) /\ ~Covers(e3, u)
        BY <1>4, <1>9, <1>12, <1>13, <1>18, <2>1, <2>5 DEF Covers
    <3>3. Covers(e1, g)
        BY <1>4, <1>9, <1>12, <2>1, <2>5, <3>1, <3>2 DEF Covers
    <3> QED
        BY <1>6, <1>15, <2>1, <3>3 DEF g
  <2> QED
      BY <2>2, <2>4, <2>5
<1>20. ASSUME NEW c \in Place
       PROVE  Utters(echos, c, IF v \in Kind(V, c) THEN MaxInput ELSE 0)
  <2>1. CASE v \in Kind(V, c)
    <3>1. Kind(V, c) = {v}
        BY <2>1, KindIs
    <3>2. Utters(echos, c, MaxInput)
        BY <1>8, <1>12, <1>17, <3>1
    <3> QED
        BY <2>1, <3>2
  <2>2. CASE Kind(V, c) = {}
    <3>1. Kind(V, <<l, MinPoint>>) = {} /\ <<l, MinPoint>> \in Place
        BY <1>1, NothingOutside
    <3> QED
        BY <1>8, <1>15, <2>2, <3>1
  <2>3. ASSUME NEW w \in Kind(V, c), v \notin Kind(V, c) PROVE Utters(echos, c, 0)
    <3>1. w \in V /\ w # v
        BY <2>3 DEF Kind
    <3>2. Kind(V, c) = {w}
        BY <2>3, <3>1, KindIs
    <3>3. Kind(V, <<l, AroundFrom(w, l)>>) = {w} /\ <<l, AroundFrom(w, l)>> \in Place
      <4>1. <<l, AroundFrom(w, l)>> \in Place /\ Solely(V, <<l, AroundFrom(w, l)>>, w)
          BY <1>1, <3>1, CellWeighed
      <4> QED
          BY <4>1 DEF Solely
    <3> QED
        BY <1>8, <1>19, <3>1, <3>2, <3>3
  <2> QED
      BY <2>1, <2>2, <2>3
<1>21. ASSUME NEW c \in Place, NEW x
       PROVE  Utters(echos, c, x) <=> x = IF v \in Kind(V, c) THEN MaxInput ELSE 0
    BY <1>8, <1>20
<1> QED
    BY <1>13, <1>14, <1>21 DEF e2, f, t
-----------------------------------------------------------------------------
(* The point that stands for what is said is weighed as the value is.      *)

LEMMA Cancel ==
    ASSUME NEW a \in Int, NEW b \in Int, NEW s \in Nat \ {0}
    PROVE  (a * s < b * s => a < b) /\ (a <= b => a * s <= b * s)
<1>1. ASSUME a <= b PROVE a * s <= b * s
  <2> DEFINE d == b - a
  <2>1. d \in Nat /\ b = a + d
      BY <1>1
  <2> HIDE DEF d
  <2>2. (a + d) * s = a * s + d * s
      BY <2>1
  <2>3. d * s \in Nat /\ a * s \in Int
      BY <2>1
  <2>4. b * s = a * s + d * s
      BY <2>1, <2>2
  <2> QED
      BY <2>3, <2>4
<1>2. ASSUME b <= a PROVE b * s <= a * s
  <2> DEFINE d == a - b
  <2>1. d \in Nat /\ a = b + d
      BY <1>2
  <2> HIDE DEF d
  <2>2. (b + d) * s = b * s + d * s
      BY <2>1
  <2>3. d * s \in Nat /\ b * s \in Int
      BY <2>1
  <2>4. a * s = b * s + d * s
      BY <2>1, <2>2
  <2> QED
      BY <2>3, <2>4
<1>3. a * s \in Int /\ b * s \in Int
    OBVIOUS
<1>4. a < b \/ b <= a
    OBVIOUS
<1> QED
    BY <1>1, <1>2, <1>3, <1>4

LEMMA QuotientOnce ==
    ASSUME NEW x \in Nat, NEW s \in Nat \ {0}, NEW k \in Int, k * s <= x, x < k * s + s
    PROVE  Quotient(x, s) = k
<1> DEFINE j == Quotient(x, s)
<1>1. j \in Int /\ j * s <= x /\ x < j * s + s
    BY QuotientBelow
<1> HIDE DEF j
<1>2. j * s \in Int /\ k * s \in Int
    BY <1>1
<1>3. (j + 1) * s = j * s + s /\ (k + 1) * s = k * s + s
    BY <1>1
<1>4. k * s < (j + 1) * s /\ j * s < (k + 1) * s
    BY <1>1, <1>2, <1>3
<1>5. j + 1 \in Int /\ k + 1 \in Int
    BY <1>1
<1>6. k < j + 1
    BY <1>4, <1>5, Cancel
<1>7. j < k + 1
    BY <1>1, <1>4, <1>5, Cancel
<1> QED
    BY <1>1, <1>6, <1>7 DEF j

\* x lies in the k-th stretch of width s; S is a multiple of s.
LiesAt(x, k, s) == k * s <= x /\ x < k * s + s
Wider(S, s) == \E m \in Nat \ {0} : S = s * m

\* Whatever lies where x does, between two checkpoints, does so for wider ones.
LEMMA SameQuotient ==
    ASSUME NEW v \in Nat, NEW x \in Nat, NEW s \in Nat \ {0}, NEW S, Wider(S, s),
           NEW k, k = Quotient(v, s), LiesAt(x, k, s)
    PROVE  Quotient(x, S) = Quotient(v, S)
<1>0. PICK m \in Nat \ {0} : S = s * m
    BY DEF Wider
<1> DEFINE K == Quotient(v, S)
<1>1. S \in Nat \ {0}
  <2>1. s * m \in Nat /\ s * m # 0
      OBVIOUS
  <2> QED
      BY <1>0, <2>1
<1>2. K \in Int /\ K * S <= v /\ v < K * S + S /\ k \in Int /\ k * s <= v /\ v < k * s + s
    BY <1>1, QuotientBelow
<1>3. K * S = (K * m) * s /\ (K + 1) * S = ((K + 1) * m) * s /\ (K + 1) * S = K * S + S
  <2>1. K \in Int
      BY <1>2
  <2> HIDE DEF K
  <2> QED
      BY <1>0, <2>1
<1> HIDE DEF K
<1> DEFINE a == K * m
           b == (K + 1) * m
<1>4. a \in Int /\ b \in Int /\ k + 1 \in Int
    BY <1>2
<1>5. K * S = a * s /\ K * S + S = b * s /\ (k + 1) * s = k * s + s
    BY <1>2, <1>3
<1> HIDE DEF a, b
<1>6. a * s \in Int /\ b * s \in Int /\ k * s \in Int /\ (k + 1) * s \in Int
    BY <1>2, <1>4
<1>7. a * s < (k + 1) * s /\ k * s < b * s
    BY <1>2, <1>5, <1>6
<1>8. a < k + 1
    BY <1>4, <1>7, Cancel
<1>9. k < b
    BY <1>2, <1>4, <1>7, Cancel
<1>10. a <= k /\ k + 1 <= b
    BY <1>2, <1>4, <1>8, <1>9
<1>11. a * s <= k * s
    BY <1>2, <1>4, <1>10, Cancel
<1>12. (k + 1) * s <= b * s
    BY <1>4, <1>10, Cancel
<1>13. K * S <= x /\ x < K * S + S
  <2>1. k * s <= x /\ x < k * s + s
      BY DEF LiesAt
  <2> QED
      BY <1>5, <1>6, <1>11, <1>12, <2>1
<1>14. Quotient(x, S) = K
    BY <1>1, <1>2, <1>13, QuotientOnce
<1> QED
    BY <1>14 DEF K

LEMMA HalfWay ==
    ASSUME NEW k \in Nat, NEW s \in Nat \ {0}, NEW x, x = Quotient((k - 1) * s + (k + 2) * s, 2)
    PROVE  x \in Nat /\ k * s <= x /\ x < k * s + s
<1> DEFINE a == k * s
<1>1. a \in Nat
    OBVIOUS
<1>2. (k - 1) * s + (k + 2) * s = a + a + s
    OBVIOUS
<1> HIDE DEF a
<1>3. a + a + s \in Nat /\ 2 \in Nat \ {0}
    BY <1>1
<1> DEFINE b == a + a + s
<1>4. b \in Nat /\ x = Quotient(b, 2)
    BY <1>2, <1>3
<1>5. x \in Int /\ x * 2 <= b /\ b < x * 2 + 2
    BY <1>3, <1>4, QuotientBelow
<1>6. x \in Int /\ x * 2 <= a + a + s /\ a + a + s < x * 2 + 2
    BY <1>5
<1> HIDE DEF b
<1>7. a <= x /\ x < a + s
    BY <1>1, <1>6
<1> QED
    BY <1>1, <1>6, <1>7 DEF a

LEMMA SepMultiple ==
    ASSUME NEW k \in Levels, NEW l \in Levels, k <= l
    PROVE  \E m \in Nat \ {0} : Sep(l) = Sep(k) * m
<1> DEFINE T == {n \in 0 .. l - k : \E m \in Nat \ {0} : Exponent ^ (k + n) = Exponent ^ k * m}
<1>1. /\ k \in Nat /\ l \in Nat /\ l - k \in Nat
      /\ \A n \in 0 .. l - k : k + n \in Levels
    BY LevelAssumption DEF Levels
<1>2. /\ Exponent \in Nat \ {0} /\ Rho \in Nat \ {0}
      /\ \A i \in Levels : /\ Exponent ^ i \in Nat \ {0}
                           /\ Exponent ^ (i + 1) = Exponent * Exponent ^ i
    BY LevelAssumption, LevelPowers
<1>3. 0 \in T
  <2>1. k + 0 = k /\ 0 \in 0 .. l - k
      BY <1>1
  <2> DEFINE e == Exponent ^ k
  <2>2. e \in Nat
      BY <1>2
  <2> HIDE DEF e
  <2>3. e = e * 1
      BY <2>2
  <2>4. Exponent ^ (k + 0) = Exponent ^ k * 1
      BY <2>1, <2>3 DEF e
  <2> QED
      BY <2>1, <2>4
<1>4. ASSUME NEW n \in 0 .. (l - k) - 1, n \in T PROVE n + 1 \in T
  <2>1. n \in 0 .. l - k /\ n + 1 \in 0 .. l - k /\ k + (n + 1) = (k + n) + 1 /\ k + n \in Levels
      BY <1>1
  <2>2. PICK m \in Nat \ {0} : Exponent ^ (k + n) = Exponent ^ k * m
      BY <1>4
  <2> DEFINE e == Exponent ^ k
             g == Exponent ^ (k + n)
             j == Exponent * m
  <2>3. e \in Nat /\ g = e * m
      BY <1>2, <2>2
  <2>4. Exponent ^ (k + (n + 1)) = Exponent * g
      BY <1>2, <2>1
  <2> HIDE DEF e, g
  <2>5. Exponent * (e * m) = e * (Exponent * m)
      BY <1>2, <2>3
  <2>6. j \in Nat \ {0}
    <3>1. Exponent * m \in Nat /\ Exponent * m # 0
        BY <1>2
    <3> QED
        BY <3>1
  <2>7. Exponent ^ (k + (n + 1)) = e * j
      BY <2>3, <2>4, <2>5
  <2> HIDE DEF j
  <2> QED
      BY <2>1, <2>6, <2>7 DEF e
<1> HIDE DEF T
<1>5. l - k \in T
  <2>1. \A n \in 0 .. l - k : n \in T
      BY <1>1, <1>3, <1>4, UpTo
  <2> QED
      BY <1>1, <2>1
<1>6. k + (l - k) = l
    BY <1>1
<1>7. PICK m \in Nat \ {0} : Exponent ^ l = Exponent ^ k * m
    BY <1>5, <1>6 DEF T
<1> DEFINE e == Exponent ^ k
<1>8. Sep(l) = Rho * (e * m) /\ Sep(k) = Rho * e /\ e \in Nat
    BY <1>2, <1>7 DEF Sep
<1> HIDE DEF e
<1>9. Rho * (e * m) = (Rho * e) * m
    BY <1>2, <1>8
<1> QED
    BY <1>8, <1>9

\* What coalesce makes of a level that says what v weighs, expand takes for v at the levels
\* from there on.
LEMMA PointStands ==
    ASSUME NEW v \in Nat, NEW k \in Levels, NEW l \in Levels, k <= l, NEW x,
           x = Quotient(AroundFrom(v, k) + AroundTo(v, k), 2)
    PROVE  x \in Nat /\ AroundFrom(x, l) = AroundFrom(v, l) /\ AroundTo(x, l) = AroundTo(v, l)
<1> DEFINE s == Sep(k)
           i == Quotient(v, s)
<1>1. s \in Nat \ {0}
    BY SepIs
<1>2. i \in Int /\ i * s <= v /\ v < i * s + s
    BY <1>1, QuotientBelow
<1>3. x = Quotient((i - 1) * s + (i + 2) * s, 2)
    BY DEF AroundFrom, AroundTo
<1>4. Wider(Sep(l), s)
    BY SepMultiple DEF Wider
<1> HIDE DEF s
<1>9. i = Quotient(v, s)
    OBVIOUS
<1> HIDE DEF i
<1>5. i \in Nat
  <2>1. (-1) \in Int /\ (i + 1) \in Int /\ i * s \in Int
      BY <1>1, <1>2
  <2>2. 0 * s < (i + 1) * s
    <3>2. i \in Int /\ s \in Int
        BY <1>1, <1>2
    <3>1. (i + 1) * s = i * s + s /\ 0 * s = 0
        BY <3>2
    <3> QED
        BY <1>1, <1>2, <2>1, <3>1
  <2>3. 0 < i + 1
      BY <1>1, <2>1, <2>2, Cancel
  <2> QED
      BY <1>2, <2>3
<1>6. x \in Nat /\ i * s <= x /\ x < i * s + s
    BY <1>1, <1>3, <1>5, HalfWay
<1>7. s \in Nat \ {0} /\ i = Quotient(v, s) /\ LiesAt(x, i, s)
    BY <1>1, <1>6, <1>9 DEF LiesAt
<1>8. Quotient(x, Sep(l)) = Quotient(v, Sep(l))
    BY <1>4, <1>6, <1>7, SameQuotient
<1> QED
    BY <1>6, <1>8 DEF AroundFrom, AroundTo

\* What is said of places is all that Even depends on.
SameSaid(a, b) == \A c \in Place : \A x : Utters(a, c, x) <=> Utters(b, c, x)

LEMMA EvenTransfers ==
    ASSUME NEW V, NEW a, NEW b, Even(V, a), SameSaid(a, b)
    PROVE  Even(V, b)
<1>1. \A c \in Place : \A v, w : Utters(b, c, v) /\ Utters(b, c, w) => v = w
    BY DEF Even, SameSaid
<1>2. \A c \in Place : \A v : Utters(b, c, v) => v \in Values(V, c)
    BY DEF Even, SameSaid
<1>3. \A c \in Place, d \in Place : Kind(V, c) = Kind(V, d) =>
         \A v : Utters(b, c, v) => Utters(b, d, v)
    BY DEF Even, SameSaid
<1> QED
    BY <1>1, <1>2, <1>3 DEF Even

LEMMA CoalescedAs ==
    ASSUME NEW echos \in Sayings, NEW msg, msg = Coalesce(echos)
    PROVE  /\ msg.from \in Nat
           /\ msg.vals = [l \in {k \in DOMAIN echos : k < msg.from} |-> echos[l]]
           /\ msg.from # TotalLevels + 1 =>
                 /\ msg.from \in DOMAIN echos /\ ThreeParts(echos[msg.from])
                 /\ msg.point = Quotient(echos[msg.from][2].start + echos[msg.from][2].end, 2)
<1> DEFINE S == {l \in DOMAIN echos : ThreeParts(echos[l])} \union {TotalLevels + 1}
           from == Min(S)
           mid == echos[from][2]
           point == IF from > TotalLevels THEN MinPoint ELSE Quotient(mid.start + mid.end, 2)
           vals == [l \in {k \in DOMAIN echos : k < from} |-> echos[l]]
<1>1. DOMAIN echos \in SUBSET Levels
    BY SayingsAre
<1>2. S \subseteq Nat /\ TotalLevels + 1 \in S
  <2>1. DOMAIN echos \subseteq Nat
      BY <1>1, LevelsAre
  <2>2. TotalLevels + 1 \in Nat
      BY LevelsAre
  <2> QED
      BY <2>1, <2>2
<1>3. Coalesce(echos) = [vals |-> vals, from |-> from, point |-> point]
    BY DEF Coalesce
<1>4. from \in S
  <2> HIDE DEF S
  <2>1. \E x \in S : \A y \in S : x <= y
      BY <1>2, LeastNatural
  <2> QED
      BY <2>1 DEF Min
<1>5. from # TotalLevels + 1 => from \in DOMAIN echos /\ ThreeParts(echos[from])
    BY <1>4
<1> HIDE DEF from
<1>6. from \in Nat
    BY <1>2, <1>4
<1>7. from # TotalLevels + 1 => ~(from > TotalLevels)
  <2>1. ASSUME from # TotalLevels + 1 PROVE from < TotalLevels
      BY <1>1, <1>5, <2>1, LevelsAre
  <2> QED
      BY <1>6, <2>1, LevelsAre
<1>8. msg.from = from /\ msg.vals = vals /\ msg.point = point
    BY <1>3, msg = Coalesce(echos)
<1> QED
    BY <1>5, <1>6, <1>7, <1>8

\* One level of what expand makes of a message
AroundAt(x, l) ==
    << Said(MinPoint, AroundFrom(x, l), 0), Said(AroundFrom(x, l), AroundTo(x, l), MaxInput),
       Said(AroundTo(x, l), MaxPoint, 0) >>

LEMMA ExpandedAs ==
    ASSUME NEW msg, NEW new, new = Expanded(msg)
    PROVE  /\ DOMAIN new = DOMAIN msg.vals \union {k \in Levels : k >= msg.from}
           /\ \A l \in DOMAIN new : new[l] = IF l < msg.from THEN msg.vals[l] ELSE AroundAt(msg.point, l)
BY DEF Expanded, AroundAt

LEMMA AroundSpeaks ==
    ASSUME NEW V \in Camps, NEW v \in V, NEW l \in Levels, NEW echo, echo = AroundAt(v, l)
    PROVE  /\ echo \in Seq(Voiced(Edges(V, l)))
           /\ \A y \in Point : \A x : Speaks(echo, y, x)
                 <=> x = IF v \in Kind(V, <<l, y>>) THEN MaxInput ELSE 0
<1> DEFINE f == AroundFrom(v, l)
           t == AroundTo(v, l)
           e1 == Said(MinPoint, f, 0)
           e2 == Said(f, t, MaxInput)
           e3 == Said(t, MaxPoint, 0)
<1>1. /\ f \in Int /\ t \in Int /\ MinPoint < f /\ f < t /\ t < MaxPoint
      /\ MinPoint \in Int /\ MaxPoint \in Int /\ MaxInput \in Nat
      /\ MinPoint \in Edges(V, l) /\ MaxPoint \in Edges(V, l) /\ f \in Edges(V, l) /\ t \in Edges(V, l)
    BY CellIs, EdgesAre, EndsAre, LevelPowers DEF Camps
<1>2. echo = <<e1, e2, e3>>
    BY DEF AroundAt
<1>3. ASSUME NEW y \in Point PROVE v \in Kind(V, <<l, y>>) <=> f <= y /\ y < t
    BY PlaceIs DEF Kind, Weighs
<1> HIDE DEF f, t
<1>4. /\ e1.start = MinPoint /\ e1.end = f /\ e1.val = 0 /\ e1 \in Said3
      /\ e2.start = f /\ e2.end = t /\ e2.val = MaxInput /\ e2 \in Said3
      /\ e3.start = t /\ e3.end = MaxPoint /\ e3.val = 0 /\ e3 \in Said3
    BY <1>1 DEF Said, Said3
<1> HIDE DEF e1, e2, e3
<1>5. e1 \in Voiced(Edges(V, l)) /\ e2 \in Voiced(Edges(V, l)) /\ e3 \in Voiced(Edges(V, l))
    BY <1>1, <1>4 DEF Voiced, In, Proper, NoVal
<1>6. DOMAIN echo = {1, 2, 3} /\ echo[1] = e1 /\ echo[2] = e2 /\ echo[3] = e3
    BY <1>2
<1>7. ASSUME NEW y \in Point, NEW x
      PROVE  Speaks(echo, y, x) <=> x = IF v \in Kind(V, <<l, y>>) THEN MaxInput ELSE 0
  <2>1. Speaks(echo, y, x) <=> \/ Covers(e1, y) /\ e1.val = x
                               \/ Covers(e2, y) /\ e2.val = x
                               \/ Covers(e3, y) /\ e3.val = x
      BY <1>6 DEF Speaks
  <2>2. y \in Int /\ MinPoint <= y /\ y < MaxPoint
      BY DEF Point
  <2>3. /\ Covers(e1, y) <=> y < f
        /\ Covers(e2, y) <=> f <= y /\ y < t
        /\ Covers(e3, y) <=> t <= y
      BY <1>1, <1>4, <2>2 DEF Covers
  <2>4. CASE y < f
      BY <1>1, <1>3, <1>4, <2>1, <2>2, <2>3, <2>4
  <2>5. CASE f <= y /\ y < t
      BY <1>1, <1>3, <1>4, <2>1, <2>2, <2>3, <2>5
  <2>6. CASE t <= y
      BY <1>1, <1>3, <1>4, <2>1, <2>2, <2>3, <2>6
  <2> QED
      BY <1>1, <2>2, <2>4, <2>5, <2>6
<1> QED
    BY <1>2, <1>5, <1>7

\* "This coalescing and expanding saves network bandwidth" (baainit.rs:140), and loses nothing:
\* the receiver takes the message to say of every place what the sender said of it.
\* InitBinAA::coalesce and expand: of a message that says one thing of the checkpoints that
\* the same values weigh, they make one that says the same of every checkpoint.  From the
\* first level that weighs one value on, the middle of its interval stands for all the levels
\* that follow.  That is so of a single value at whatever levels, and of two as long as they
\* are parted; with values that overlap at a level MCDelphi_gaps.cfg has a loss.
THEOREM CoalesceKeeps ==
    ASSUME NEW V \in Camps, Parted(V), NEW echos, EchosOK(V, echos),
           NEW new, new = Expanded(Coalesce(echos))
    PROVE  EchosOK(V, new) /\ SameSaid(echos, new)
<1> DEFINE msg == Coalesce(echos)
           from == msg.from
<1>1. echos \in Sayings /\ EdgedSays(V, echos) /\ Even(V, echos) /\ DOMAIN echos \in SUBSET Levels
    BY SayingsAre DEF EchosOK, EdgedSays
<1>2. /\ from \in Nat
      /\ msg.vals = [l \in {k \in DOMAIN echos : k < from} |-> echos[l]]
      /\ from # TotalLevels + 1 =>
                 /\ from \in DOMAIN echos /\ ThreeParts(echos[from])
                 /\ msg.point = Quotient(echos[from][2].start + echos[from][2].end, 2)
    BY <1>1, CoalescedAs
<1>3. new \in Sayings
    BY <1>1, CoalesceIs, ExpandedIs
<1>4. /\ DOMAIN new = DOMAIN msg.vals \union {k \in Levels : k >= from}
      /\ \A l \in DOMAIN new : new[l] = IF l < from THEN msg.vals[l] ELSE AroundAt(msg.point, l)
    BY ExpandedAs
<1> HIDE DEF msg, from
<1>5. \A l \in Levels : l \in Int /\ l < TotalLevels
    BY LevelsAre
<1>6. \A l \in Levels : l < from => (l \in DOMAIN new <=> l \in DOMAIN echos)
    BY <1>1, <1>2, <1>4, <1>5
<1>7. \A l \in DOMAIN new : l < from => new[l] = echos[l]
    BY <1>2, <1>3, <1>4, <1>6, SayingsAre
<1>8. \A l \in Levels : ~(l < from) => l \in DOMAIN new /\ new[l] = AroundAt(msg.point, l)
    BY <1>2, <1>4, <1>5
<1>9. CASE from = TotalLevels + 1
  <2>1. \A l \in Levels : l < from
      BY <1>2, <1>5, <1>9, LevelsAre
  <2>2. DOMAIN new = DOMAIN echos /\ \A l \in DOMAIN echos : new[l] = echos[l]
      BY <1>1, <1>3, <1>6, <1>7, <2>1, SayingsAre
  <2>3. SameSaid(echos, new)
      BY <2>2 DEF SameSaid, Utters
  <2>4. EdgedSays(V, new)
      BY <1>1, <1>3, <2>2 DEF EdgedSays
  <2> QED
      BY <1>1, <2>3, <2>4, EvenTransfers DEF EchosOK
<1>10. CASE from # TotalLevels + 1
  <2>1. from \in DOMAIN echos /\ from \in Levels /\ ThreeParts(echos[from])
      BY <1>1, <1>2, <1>10
  <2>2. PICK v \in V :
              /\ echos[from][2].start = AroundFrom(v, from) /\ echos[from][2].end = AroundTo(v, from)
              /\ \A c \in Place : \A x :
                    Utters(echos, c, x) <=> x = IF v \in Kind(V, c) THEN MaxInput ELSE 0
      BY <2>1, ThreePartsAre
  <2>3. v \in Nat
      BY <2>1, CellIs DEF Camps
  <2>4. msg.point = Quotient(AroundFrom(v, from) + AroundTo(v, from), 2)
      BY <1>2, <1>10, <2>2
  <2>5. ASSUME NEW l \in Levels, ~(l < from)
        PROVE  l \in DOMAIN new /\ new[l] = AroundAt(v, l)
    <3>1. from <= l
        BY <1>2, <1>5, <2>5
    <3> DEFINE x == msg.point
    <3>2. x = Quotient(AroundFrom(v, from) + AroundTo(v, from), 2)
        BY <2>4
    <3> HIDE DEF x
    <3>3. AroundFrom(x, l) = AroundFrom(v, l) /\ AroundTo(x, l) = AroundTo(v, l)
        BY <2>1, <2>3, <3>1, <3>2, PointStands
    <3>4. AroundAt(x, l) = AroundAt(v, l)
        BY <3>3 DEF AroundAt
    <3> QED
        BY <1>8, <2>5, <3>4 DEF x
  <2>6. \A l \in DOMAIN new : new[l] \in Seq(Voiced(Edges(V, l)))
    <3> SUFFICES ASSUME NEW l \in DOMAIN new PROVE new[l] \in Seq(Voiced(Edges(V, l)))
        OBVIOUS
    <3>1. l \in Levels
        BY <1>3, SayingsAre
    <3>2. CASE l < from
      <4>1. l \in DOMAIN echos /\ new[l] = echos[l]
          BY <1>6, <1>7, <3>1, <3>2
      <4> QED
          BY <1>1, <4>1 DEF EdgedSays
    <3>3. CASE ~(l < from)
        BY <2>5, <3>1, <3>3, AroundSpeaks
    <3> QED
        BY <3>2, <3>3
  <2>7. ASSUME NEW c \in Place, NEW x PROVE Utters(echos, c, x) <=> Utters(new, c, x)
    <3> DEFINE l == c[1]
               y == c[2]
    <3>1. l \in Levels /\ y \in Point /\ c = <<l, y>>
        BY PlaceIs
    <3>2. CASE l < from
      <4>1. l \in DOMAIN new <=> l \in DOMAIN echos
          BY <1>6, <3>1, <3>2
      <4>2. l \in DOMAIN new => new[l] = echos[l]
          BY <1>7, <3>2
      <4> QED
          BY <4>1, <4>2 DEF Utters
    <3>3. CASE ~(l < from)
      <4>1. l \in DOMAIN new /\ new[l] = AroundAt(v, l)
          BY <2>5, <3>1, <3>3
      <4>2. Utters(new, c, x) <=> Speaks(AroundAt(v, l), y, x)
          BY <4>1 DEF Utters
      <4> HIDE DEF l, y
      <4>3. Speaks(AroundAt(v, l), y, x) <=> x = IF v \in Kind(V, <<l, y>>) THEN MaxInput ELSE 0
          BY <3>1, AroundSpeaks
      <4> QED
          BY <2>2, <3>1, <4>2, <4>3
    <3> QED
        BY <3>2, <3>3
  <2>8. SameSaid(echos, new)
      BY <2>7 DEF SameSaid
  <2>9. EdgedSays(V, new)
      BY <1>3, <2>6 DEF EdgedSays
  <2> QED
      BY <1>1, <2>8, <2>9, EvenTransfers DEF EchosOK
<1> QED
    BY <1>9, <1>10
-----------------------------------------------------------------------------
(* BinAA's round states are Delphi's.                                      *)

LEMMA SameCardinality ==
    ASSUME NEW S
    PROVE  PerCheckpoint!Cardinality(S) = Cardinality(S)
BY Zenon DEF PerCheckpoint!Cardinality, Cardinality

LEMMA SameThresholds ==
    /\ PerCheckpoint!MinThreshold = MinThreshold
    /\ PerCheckpoint!HighThreshold = HighThreshold
BY SameCardinality DEF PerCheckpoint!MinThreshold, MinThreshold, PerCheckpoint!HighThreshold,
                       HighThreshold, PerCheckpoint!NumNodes, NumNodes

LEMMA SameBegun ==
    ASSUME NEW v, NEW p
    PROVE  /\ PerCheckpoint!NoVal = NoVal /\ PerCheckpoint!NoState = NoState
           /\ PerCheckpoint!NewWithEcho(v, p) = NewWithEcho(v, p)
           /\ PerCheckpoint!NewWithEcho2(v, p) = NewWithEcho2(v, p)
BY DEF PerCheckpoint!NoVal, NoVal, PerCheckpoint!NoState, NoState, PerCheckpoint!NewWithEcho,
       NewWithEcho, PerCheckpoint!NewWithEcho2, NewWithEcho2, PerCheckpoint!NewSlot, NewSlot

\* In the three cases of add_echo, and in those of a vote
LEMMA SameAddEcho ==
    ASSUME NEW rs \in RoundState, NEW v \in Int, NEW q \in Node, NEW lo, NEW hi
    PROVE  PerCheckpoint!AddEcho(rs, v, q, lo, hi) = AddEcho(rs, v, q, lo, hi)
<1> DEFINE i == SlotOf(rs, v)
           n == Len(rs.slots)
           s == [rs.slots[i] EXCEPT !.echo1 = @ \union {q}]
           E == rs.echo1vals \union {v}
           votes == Cardinality(s.echo1)
           a == AddEcho(rs, v, q, lo, hi)
           b == PerCheckpoint!AddEcho(rs, v, q, lo, hi)
<1>1. /\ PerCheckpoint!SlotOf(rs, v) = i /\ PerCheckpoint!NoVal = NoVal
      /\ PerCheckpoint!Terminated(rs) = Terminated(rs)
      /\ PerCheckpoint!Midpoint(E) = Midpoint(E)
      /\ PerCheckpoint!NewSlot(v, {q}, {}) = NewSlot(v, {q}, {})
      /\ PerCheckpoint!Cardinality(s.echo1) = votes /\ PerCheckpoint!Cardinality(E) = Cardinality(E)
    BY SameCardinality
       DEF PerCheckpoint!SlotOf, SlotOf, PerCheckpoint!NoVal, NoVal, PerCheckpoint!Terminated,
           Terminated, PerCheckpoint!Midpoint, Midpoint, PerCheckpoint!NewSlot, NewSlot
<1>2. i \in Int /\ n \in Int /\ rs \in Fields
    BY RoundStateIs DEF SlotOf
<1>3. CASE Terminated(rs)
  <2>1. a = [rs |-> rs, echo1 |-> NoVal, echo2 |-> NoVal]
      BY <1>3 DEF AddEcho
  <2>2. b = [rs |-> rs, echo1 |-> NoVal, echo2 |-> NoVal]
      BY <1>1, <1>3 DEF PerCheckpoint!AddEcho
  <2> QED
      BY <2>1, <2>2
<1>4. CASE ~Terminated(rs) /\ i > n
  <2> DEFINE new == [rs EXCEPT !.slots = Append(@, NewSlot(v, {q}, {}))]
  <2>1. ~(i <= n)
      BY <1>2, <1>4
  <2>2. a = [rs |-> new, echo1 |-> NoVal, echo2 |-> NoVal]
      BY <1>2, <1>4, <2>1 DEF AddEcho, Fields
  <2>3. b = [rs |-> new, echo1 |-> NoVal, echo2 |-> NoVal]
      BY <1>1, <1>2, <1>4, <2>1 DEF PerCheckpoint!AddEcho, Fields
  <2> QED
      BY <2>2, <2>3
<1>5. CASE ~Terminated(rs) /\ ~(i > n)
  <2>0. i <= n
      BY <1>2, <1>5
  <2>1. CASE votes >= lo /\ ~s.sent1
    <3> DEFINE x == [rs |-> [rs EXCEPT !.slots[i] = [s EXCEPT !.sent1 = TRUE]],
                     echo1 |-> v, echo2 |-> NoVal]
    <3>1. a = x
        BY <1>5, <2>0, <2>1 DEF AddEcho
    <3>2. b = x
        BY <1>1, <1>5, <2>0, <2>1 DEF PerCheckpoint!AddEcho
    <3> QED
        BY <3>1, <3>2
  <2>2. CASE ~(votes >= lo /\ ~s.sent1) /\ votes >= hi /\ ~s.sent2
    <3> DEFINE x == [rs |-> [slots |-> [rs.slots EXCEPT ![i] = [s EXCEPT !.sent2 = TRUE]],
                             echo1vals |-> E,
                             term |-> IF Cardinality(E) = 2 THEN Midpoint(E) ELSE rs.term],
                     echo1 |-> NoVal, echo2 |-> v]
    <3>1. a = x
        BY <1>5, <2>0, <2>2 DEF AddEcho
    <3>2. b = x
        BY <1>1, <1>5, <2>0, <2>2 DEF PerCheckpoint!AddEcho
    <3> QED
        BY <3>1, <3>2
  <2>3. CASE ~(votes >= lo /\ ~s.sent1) /\ ~(votes >= hi /\ ~s.sent2)
    <3> DEFINE x == [rs |-> [rs EXCEPT !.slots[i] = s], echo1 |-> NoVal, echo2 |-> NoVal]
    <3>1. a = x
        BY <1>5, <2>0, <2>3 DEF AddEcho
    <3>2. b = x
        BY <1>1, <1>5, <2>0, <2>3 DEF PerCheckpoint!AddEcho
    <3> QED
        BY <3>1, <3>2
  <2> QED
      BY <2>1, <2>2, <2>3
<1> QED
    BY <1>3, <1>4, <1>5

LEMMA SameAddEcho2 ==
    ASSUME NEW rs \in RoundState, NEW v \in Int, NEW q \in Node, NEW hi
    PROVE  PerCheckpoint!AddEcho2(rs, v, q, hi) = AddEcho2(rs, v, q, hi)
<1> DEFINE i == SlotOf(rs, v)
           n == Len(rs.slots)
           s == [rs.slots[i] EXCEPT !.echo2 = @ \union {q}]
           a == AddEcho2(rs, v, q, hi)
           b == PerCheckpoint!AddEcho2(rs, v, q, hi)
<1>1. /\ PerCheckpoint!SlotOf(rs, v) = i
      /\ PerCheckpoint!NewSlot(v, {}, {q}) = NewSlot(v, {}, {q})
      /\ PerCheckpoint!Cardinality(s.echo2) = Cardinality(s.echo2)
    BY SameCardinality DEF PerCheckpoint!SlotOf, SlotOf, PerCheckpoint!NewSlot, NewSlot
<1>2. rs \in Fields
    BY RoundStateIs
<1>3. CASE i > n
  <2> DEFINE x == [rs EXCEPT !.slots = Append(@, NewSlot(v, {}, {q}))]
  <2>1. a = x
      BY <1>2, <1>3 DEF AddEcho2, Fields
  <2>2. b = x
      BY <1>1, <1>2, <1>3 DEF PerCheckpoint!AddEcho2, Fields
  <2> QED
      BY <2>1, <2>2
<1>4. CASE ~(i > n)
  <2> DEFINE y(t) == [rs EXCEPT !.slots[i] = s, !.term = t]
  <2>1. CASE Cardinality(s.echo2) >= hi
    <3>1. a = y(s.val)
        BY <1>2, <1>4, <2>1 DEF AddEcho2, Fields
    <3>2. b = y(s.val)
        BY <1>1, <1>2, <1>4, <2>1 DEF PerCheckpoint!AddEcho2, Fields
    <3> QED
        BY <3>1, <3>2
  <2>2. CASE ~(Cardinality(s.echo2) >= hi)
    <3>1. a = y(rs.term)
        BY <1>2, <1>4, <2>2 DEF AddEcho2, Fields
    <3>2. b = y(rs.term)
        BY <1>1, <1>2, <1>4, <2>2 DEF PerCheckpoint!AddEcho2, Fields
    <3> QED
        BY <3>1, <3>2
  <2> QED
      BY <2>1, <2>2
<1> QED
    BY <1>3, <1>4

\* What a checkpoint makes of an ECHO1 and of an ECHO2, in BinAA and here
LEMMA SameHearing ==
    ASSUME NEW rs \in RoundState, NEW v \in Int, NEW q \in Node
    PROVE  /\ PerCheckpoint!HearEcho(rs, v, q, PerCheckpoint!MinThreshold, PerCheckpoint!HighThreshold)
                = HearEcho(rs, v, q, MinThreshold, HighThreshold)
           /\ PerCheckpoint!HearEcho2(rs, v, q, PerCheckpoint!HighThreshold)
                = HearEcho2(rs, v, q, HighThreshold)
<1>1. PerCheckpoint!HearEcho(rs, v, q, MinThreshold, HighThreshold)
        = HearEcho(rs, v, q, MinThreshold, HighThreshold)
    BY SameAddEcho, SameBegun DEF PerCheckpoint!HearEcho, HearEcho
<1>2. PerCheckpoint!HearEcho2(rs, v, q, HighThreshold) = HearEcho2(rs, v, q, HighThreshold)
    BY SameAddEcho2, SameBegun DEF PerCheckpoint!HearEcho2, HearEcho2
<1> QED
    BY <1>1, <1>2, SameThresholds
-----------------------------------------------------------------------------
(* The values of a round state.                                            *)

\* What a round is heard, voted and ended with is in N: the naturals, or one of them.
Holds(rs, N) ==
    /\ \A i \in DOMAIN rs.slots : rs.slots[i].val \in N
    /\ rs.echo1vals \subseteq N
    /\ rs.term \in N \union {NoVal}

Closed(N) == N = Nat \/ \E k \in Nat : N = {k}

LEMMA MidpointHeld ==
    ASSUME NEW N, Closed(N), NEW E \in SUBSET N, IsFiniteSet(E), Cardinality(E) = 2
    PROVE  Midpoint(E) \in N
<1>1. E # {}
    BY FS_EmptySet
<1>2. PICK a \in E : TRUE
    BY <1>1
<1>3. IsFiniteSet(E \ {a}) /\ Cardinality(E \ {a}) = 1
    BY <1>2, FS_RemoveElement
<1>4. PICK b : E \ {a} = {b}
    BY <1>3, FS_Singleton
<1>5. E = {a, b} /\ a # b /\ b \in E
    BY <1>2, <1>4
<1>6. N = Nat /\ a \in Nat /\ b \in Nat
    BY <1>5 DEF Closed
<1>7. /\ \E x \in E : \A y \in E : x <= y
      /\ \E x \in E : \A y \in E : x >= y
    BY <1>5, <1>6
<1> DEFINE lo == CHOOSE x \in E : \A y \in E : x <= y
           hi == CHOOSE x \in E : \A y \in E : x >= y
<1>8. lo \in Nat /\ hi \in Nat
    BY <1>6, <1>7
<1>9. Midpoint(E) = (lo + hi) \div 2
    BY DEF Midpoint
<1> HIDE DEF lo, hi
<1> QED
    BY <1>6, <1>8, <1>9

LEMMA NothingHeld == \A N : Holds(NoState, N)
BY DEF Holds, NoState

LEMMA BegunHeld ==
    ASSUME NEW N, NEW v \in N, NEW p
    PROVE  Holds(NewWithEcho(v, p), N) /\ Holds(NewWithEcho2(v, p), N)
BY DEF Holds, NewWithEcho, NewWithEcho2, NewSlot

\* A slot more, or one changed that keeps its value, and votes and an end in N
LEMMA WiderHeld ==
    ASSUME NEW rs \in RoundState, Len(rs.slots) = 1, NEW N, Holds(rs, N), NEW s \in Slot,
           s.val \in N, NEW new, new = WithSlot(rs, s), CalmSlot(s)
    PROVE  Holds(new, N) /\ new.term = rs.term
BY SecondSlot DEF Holds

LEMMA ChangedHeld ==
    ASSUME NEW rs \in RoundState, NEW N, Holds(rs, N), NEW i \in DOMAIN rs.slots,
           NEW s \in Slot, s.val = rs.slots[i].val,
           NEW new, new.slots = [rs.slots EXCEPT ![i] = s], new.echo1vals \subseteq N,
           new.term \in N \union {NoVal}
    PROVE  Holds(new, N)
<1>1. rs.slots \in Seq(Slot)
    BY RoundStateIs
<1>2. DOMAIN new.slots = DOMAIN rs.slots /\ new.slots[i] = s
      /\ \A j \in DOMAIN rs.slots : j # i => new.slots[j] = rs.slots[j]
    BY <1>1, SlotReplaced
<1> QED
    BY <1>2 DEF Holds

LEMMA EchoHeld ==
    ASSUME NEW N, Closed(N), NEW rs \in RoundState, Holds(rs, N), NEW v \in N, NEW q \in Node,
           NEW out, out = HearEcho(rs, v, q, MinThreshold, HighThreshold)
    PROVE  Holds(out.rs, N) /\ (Terminated(rs) => Terminated(out.rs))
<1> DEFINE i == SlotOf(rs, v)
           n == Len(rs.slots)
           s == [rs.slots[i] EXCEPT !.echo1 = @ \union {q}]
           E == rs.echo1vals \union {v}
<1>0. v \in Int
    BY DEF Closed
<1>1. CASE rs = NoState
  <2>1. out.rs = NewWithEcho(v, q)
      BY <1>1 DEF HearEcho
  <2>2. ~Terminated(rs)
      BY <1>1 DEF Terminated, NoState
  <2> QED
      BY <2>1, <2>2, BegunHeld
<1>2. CASE rs # NoState /\ Terminated(rs)
  <2>1. out.rs = rs
      BY <1>2 DEF HearEcho, AddEcho
  <2> QED
      BY <1>2, <2>1
<1>3. CASE rs # NoState /\ ~Terminated(rs)
  <2>1. out = AddEcho(rs, v, q, MinThreshold, HighThreshold)
      BY <1>3 DEF HearEcho
  <2>3. /\ rs \in Fields /\ rs.slots \in Seq(Slot) /\ IsFiniteSet(rs.echo1vals)
        /\ \A j \in DOMAIN rs.slots : rs.slots[j] \in Slot
        /\ n = 1 \/ n = 2
        /\ DOMAIN rs.slots = 1 .. n
      BY <1>3, RoundStateIs
  <2>4. CASE i > n
    <3> DEFINE first == NewSlot(v, {q}, {})
    <3>0. ~(i <= n)
        BY <2>3, <2>4 DEF SlotOf
    <3>1. n = 1 /\ i = 2
        BY <2>3, <2>4 DEF SlotOf
    <3>2. out.rs = WithSlot(rs, first)
        BY <1>3, <2>1, <2>3, <2>4, <3>0 DEF AddEcho, Fields, WithSlot
    <3>3. first \in Slot /\ first.val = v /\ first.echo1 = {q}
        BY <1>0 DEF NewSlot, Slot
    <3> HIDE DEF first
    <3>4. CalmSlot(first)
        BY <3>3, FewVotes, ThresholdsAre DEF CalmSlot
    <3>5. Holds(out.rs, N)
        BY <3>1, <3>2, <3>3, <3>4, WiderHeld
    <3> QED
        BY <1>3, <3>5
  <2>6. CASE i \in DOMAIN rs.slots
    <3>1. s \in Slot /\ s.val = rs.slots[i].val
        BY <2>3, <2>6 DEF Slot
    <3>2. i <= n /\ ~(i > n)
        BY <2>3, <2>6
    <3>3. CASE Cardinality(s.echo1) >= MinThreshold /\ ~s.sent1
      <4> DEFINE t == [s EXCEPT !.sent1 = TRUE]
      <4>1. t \in Slot /\ t.val = s.val
          BY <3>1 DEF Slot
      <4>2. out.rs = [rs EXCEPT !.slots[i] = t]
          BY <1>3, <2>1, <3>2, <3>3 DEF AddEcho
      <4> HIDE DEF t
      <4>3. /\ out.rs.slots = [rs.slots EXCEPT ![i] = t]
            /\ out.rs.echo1vals = rs.echo1vals /\ out.rs.term = rs.term
          BY <2>3, <4>2 DEF Fields
      <4>4. rs.echo1vals \subseteq N /\ rs.term \in N \union {NoVal}
          BY DEF Holds
      <4>5. Holds(out.rs, N)
          BY <2>6, <3>1, <4>1, <4>3, <4>4, ChangedHeld
      <4> QED
          BY <1>3, <4>5
    <3>4. CASE ~(Cardinality(s.echo1) >= MinThreshold /\ ~s.sent1)
               /\ Cardinality(s.echo1) >= HighThreshold /\ ~s.sent2
      <4> DEFINE t == [s EXCEPT !.sent2 = TRUE]
                 u == IF Cardinality(E) = 2 THEN Midpoint(E) ELSE rs.term
      <4>1. t \in Slot /\ t.val = s.val
          BY <3>1 DEF Slot
      <4>2. out.rs = [slots |-> [rs.slots EXCEPT ![i] = t], echo1vals |-> E, term |-> u]
          BY <1>3, <2>1, <3>2, <3>4 DEF AddEcho
      <4>3. E \in SUBSET N /\ IsFiniteSet(E)
          BY <2>3, FS_AddElement DEF Holds
      <4>4. u \in N \union {NoVal}
          BY <4>3, MidpointHeld DEF Holds
      <4> HIDE DEF t, u, E
      <4>5. Holds(out.rs, N)
        <5>1. /\ out.rs.slots = [rs.slots EXCEPT ![i] = t]
              /\ out.rs.echo1vals = E /\ out.rs.term = u
            BY <4>2
        <5> QED
            BY <2>6, <3>1, <4>1, <4>3, <4>4, <5>1, ChangedHeld
      <4> QED
          BY <1>3, <4>5
    <3>5. CASE /\ ~(Cardinality(s.echo1) >= MinThreshold /\ ~s.sent1)
               /\ ~(Cardinality(s.echo1) >= HighThreshold /\ ~s.sent2)
      <4>1. out.rs = [rs EXCEPT !.slots[i] = s]
          BY <1>3, <2>1, <3>2, <3>5 DEF AddEcho
      <4> HIDE DEF s
      <4>3. /\ out.rs.slots = [rs.slots EXCEPT ![i] = s]
            /\ out.rs.echo1vals = rs.echo1vals /\ out.rs.term = rs.term
          BY <2>3, <4>1 DEF Fields
      <4>4. rs.echo1vals \subseteq N /\ rs.term \in N \union {NoVal}
          BY DEF Holds
      <4>5. Holds(out.rs, N)
          BY <2>6, <3>1, <4>3, <4>4, ChangedHeld
      <4> QED
          BY <1>3, <4>5
    <3> QED
        BY <3>3, <3>4, <3>5
  <2>7. i = 1 \/ i = 2
      BY DEF SlotOf
  <2> QED
    <3> HIDE DEF i, n
    <3> QED
        BY <2>3, <2>4, <2>6, <2>7
<1> QED
    BY <1>1, <1>2, <1>3

LEMMA Echo2Held ==
    ASSUME NEW N, Closed(N), NEW rs \in RoundState, Holds(rs, N), NEW v \in N, NEW q \in Node,
           NEW new, new = HearEcho2(rs, v, q, HighThreshold)
    PROVE  Holds(new, N) /\ (Terminated(rs) => Terminated(new))
<1> DEFINE i == SlotOf(rs, v)
           n == Len(rs.slots)
           s == [rs.slots[i] EXCEPT !.echo2 = @ \union {q}]
<1>0. v \in Int /\ \A x \in N : x # NoVal
    BY DEF Closed, NoVal
<1>1. CASE rs = NoState
  <2>1. new = NewWithEcho2(v, q)
      BY <1>1 DEF HearEcho2
  <2>2. ~Terminated(rs)
      BY <1>1 DEF Terminated, NoState
  <2> QED
      BY <2>1, <2>2, BegunHeld
<1>2. CASE rs # NoState
  <2>1. new = AddEcho2(rs, v, q, HighThreshold)
      BY <1>2 DEF HearEcho2
  <2>2. /\ rs \in Fields /\ rs.slots \in Seq(Slot)
        /\ \A j \in DOMAIN rs.slots : rs.slots[j] \in Slot
        /\ n = 1 \/ n = 2
        /\ DOMAIN rs.slots = 1 .. n
      BY <1>2, RoundStateIs
  <2>3. CASE i > n
    <3> DEFINE first == NewSlot(v, {}, {q})
    <3>1. new = WithSlot(rs, first)
        BY <2>1, <2>2, <2>3 DEF AddEcho2, Fields, WithSlot
    <3>2. n = 1
      <4>1. i = 1 \/ i = 2
          BY DEF SlotOf
      <4> HIDE DEF i, n
      <4> QED
          BY <2>2, <2>3, <4>1
    <3>3. first \in Slot /\ first.val = v /\ first.echo1 = {}
        BY <1>0 DEF NewSlot, Slot
    <3> HIDE DEF first
    <3>4. CalmSlot(first)
      <4>1. Cardinality({}) = 0
          BY FewVotes
      <4> QED
          BY <3>3, <4>1, ThresholdsAre DEF CalmSlot
    <3>5. Holds(new, N) /\ new.term = rs.term
        BY <3>1, <3>2, <3>3, <3>4, WiderHeld
    <3> QED
        BY <3>5 DEF Terminated
  <2>4. CASE i \in DOMAIN rs.slots
    <3> DEFINE u == IF Cardinality(s.echo2) >= HighThreshold THEN s.val ELSE rs.term
    <3>1. ~(i > n)
        BY <2>2, <2>4
    <3>2. s \in Slot /\ s.val = rs.slots[i].val
        BY <2>2, <2>4 DEF Slot
    <3>3. new = [rs EXCEPT !.slots[i] = s, !.term = u]
        BY <2>1, <3>1 DEF AddEcho2
    <3>4. u \in N \union {NoVal} /\ (rs.term # NoVal => u # NoVal)
        BY <1>0, <2>4, <3>2 DEF Holds
    <3> HIDE DEF s, u
    <3>5. /\ new.slots = [rs.slots EXCEPT ![i] = s] /\ new.echo1vals = rs.echo1vals /\ new.term = u
        BY <2>2, <3>3 DEF Fields
    <3>6. rs.echo1vals \subseteq N
        BY DEF Holds
    <3>7. Holds(new, N)
        BY <2>4, <3>2, <3>4, <3>5, <3>6, ChangedHeld
    <3> QED
        BY <3>4, <3>5, <3>7 DEF Terminated
  <2>5. i = 1 \/ i = 2
      BY DEF SlotOf
  <2> QED
    <3> HIDE DEF i, n
    <3> QED
        BY <2>2, <2>3, <2>4, <2>5
<1> QED
    BY <1>1, <1>2
-----------------------------------------------------------------------------
(* What is said of a place, and what its state makes of it.                *)

Tells(echos, c) == \E v \in Nat : Utters(echos, c, v)
Word(echos, c)  == CHOOSE v \in Nat : Utters(echos, c, v)

LEMMA ValuesAre ==
    ASSUME NEW V, NEW c
    PROVE  Closed(Values(V, c)) /\ Values(V, c) \subseteq Nat
BY LevelPowers DEF Values, Closed

LEMMA WordIs ==
    ASSUME NEW V, NEW echos, Even(V, echos), NEW c \in Place
    PROVE  /\ \A v : Utters(echos, c, v) <=> Tells(echos, c) /\ v = Word(echos, c)
           /\ Tells(echos, c) => Word(echos, c) \in Values(V, c)
<1>1. \A v, w : Utters(echos, c, v) /\ Utters(echos, c, w) => v = w
    BY DEF Even
<1>2. \A v : Utters(echos, c, v) => v \in Nat /\ v \in Values(V, c)
    BY ValuesAre DEF Even
<1>3. Tells(echos, c) => Word(echos, c) \in Nat /\ Utters(echos, c, Word(echos, c))
    BY DEF Tells, Word
<1>4. \A v : Utters(echos, c, v) => Tells(echos, c)
    BY <1>2 DEF Tells
<1> QED
    BY <1>1, <1>2, <1>3, <1>4

LEMMA WordEverywhere ==
    ASSUME NEW V, NEW echos, Even(V, echos), NEW c \in Place, NEW d \in Place,
           Kind(V, c) = Kind(V, d)
    PROVE  /\ Tells(echos, c) <=> Tells(echos, d)
           /\ Tells(echos, c) => Word(echos, c) = Word(echos, d)
<1>1. \A v : Utters(echos, c, v) <=> Utters(echos, d, v)
    BY DEF Even
<1> QED
    BY <1>1, WordIs

LEMMA SameWord ==
    ASSUME NEW V, NEW a, NEW b, Even(V, a), Even(V, b), SameSaid(a, b), NEW c \in Place
    PROVE  /\ Tells(a, c) <=> Tells(b, c)
           /\ Tells(a, c) => Word(a, c) = Word(b, c)
<1>1. \A v : Utters(a, c, v) <=> Utters(b, c, v)
    BY DEF SameSaid
<1> QED
    BY <1>1, WordIs

\* The state of a place
RsAt(levels, c) == StateAt(levels[c[1]], c[2])

LEMMA RsIs ==
    ASSUME NEW levels \in [Levels -> Tilings], NEW c \in Place
    PROVE  RsAt(levels, c) \in [0 .. Rounds -> RoundState]
<1>1. Tiled(levels[c[1]]) /\ c[2] \in Point
    BY PlaceIs, TilingIs
<1> QED
    BY <1>1, StateIs DEF RsAt

\* Places of one kind share a state, in which only what may be said of them occurs, and
\* intervals begin and end at edges.
Uniform(V, levels) ==
    /\ levels \in [Levels -> Tilings]
    /\ \A l \in Levels : Edged(levels[l], Edges(V, l))
    /\ \A c \in Place, d \in Place : Kind(V, c) = Kind(V, d) => RsAt(levels, c) = RsAt(levels, d)
    /\ \A c \in Place, r \in 0 .. Rounds : Holds(RsAt(levels, c)[r], Values(V, c))

\* What a node makes of what it hears, level by level
HeardBy(nd, heard, r, q, new, e1, e2) ==
    LET res(l) == LevelEcho(nd.levels[l], heard[l], r, q)
    IN  /\ new \in [Levels -> Tilings]
        /\ \A l \in Levels : new[l] = IF l \in DOMAIN heard THEN res(l).ints ELSE nd.levels[l]
        /\ DOMAIN e1 = {l \in DOMAIN heard : res(l).echo1 # <<>>}
        /\ DOMAIN e2 = {l \in DOMAIN heard : res(l).echo2 # <<>>}
        /\ \A l \in DOMAIN e1 : e1[l] = res(l).echo1
        /\ \A l \in DOMAIN e2 : e2[l] = res(l).echo2

LEMMA HearLevelsAre ==
    ASSUME NEW nd, NodeOK(nd), NEW heard \in Sayings, NEW r \in 0 .. Rounds, NEW q \in Node,
           NEW out, out = HearLevels(nd, heard, r, q)
    PROVE  /\ NodeOK(out.nd) /\ out.echo1 \in Sayings /\ out.echo2 \in Sayings
           /\ out.nd = [nd EXCEPT !.levels = out.nd.levels]
           /\ HeardBy(nd, heard, r, q, out.nd.levels, out.echo1, out.echo2)
<1> DEFINE D == DOMAIN heard
           res == [l \in D |-> LevelEcho(nd.levels[l], heard[l], r, q)]
           new == [l \in Levels |-> IF l \in D THEN res[l].ints ELSE nd.levels[l]]
           e1 == [l \in {k \in D : res[k].echo1 # <<>>} |-> res[l].echo1]
           e2 == [l \in {k \in D : res[k].echo2 # <<>>} |-> res[l].echo2]
<1>1. HearLevels(nd, heard, r, q) = Answers(nd, res)
    BY DEF HearLevels
<1>2. DOMAIN res = D /\ \A l \in D : res[l] = LevelEcho(nd.levels[l], heard[l], r, q)
    OBVIOUS
<1>3. AnswersOK(out)
    BY HearLevelsIs
<1> HIDE DEF res, D
<1>4. Answers(nd, res) = [nd |-> [nd EXCEPT !.levels = new], echo1 |-> e1, echo2 |-> e2]
    BY <1>2 DEF Answers, NodeOK, ANode
<1>5. /\ DOMAIN e1 = {k \in D : res[k].echo1 # <<>>}
      /\ DOMAIN e2 = {k \in D : res[k].echo2 # <<>>}
      /\ \A l \in DOMAIN e1 : e1[l] = res[l].echo1
      /\ \A l \in DOMAIN e2 : e2[l] = res[l].echo2
      /\ \A l \in Levels : new[l] = IF l \in D THEN res[l].ints ELSE nd.levels[l]
    OBVIOUS
<1> HIDE DEF e1, e2, new
<1>6. out.nd = [nd EXCEPT !.levels = new] /\ out.echo1 = e1 /\ out.echo2 = e2
    BY <1>1, <1>4
<1>7. out.nd.levels = new
    BY <1>6 DEF NodeOK, ANode
<1>8. NodeOK(out.nd) /\ out.echo1 \in Sayings /\ out.echo2 \in Sayings
    BY <1>3 DEF AnswersOK
<1>9. new \in [Levels -> Tilings]
    BY <1>7, <1>8, NodeIs
<1>10. HeardBy(nd, heard, r, q, new, e1, e2)
    BY <1>2, <1>5, <1>9 DEF HeardBy, D
<1> QED
    BY <1>6, <1>7, <1>8, <1>10

\* At a place
PlaceHears(st, echos, r, q, c, rs, e1, e2) ==
    LET h == HearEcho(st[r], Word(echos, c), q, MinThreshold, HighThreshold)
    IN  IF Tells(echos, c)
        THEN /\ rs = [st EXCEPT ![r] = h.rs]
             /\ \A w : Utters(e1, c, w) <=> w # NoVal /\ h.echo1 = w
             /\ \A w : Utters(e2, c, w) <=> w # NoVal /\ h.echo2 = w
        ELSE /\ rs = st
             /\ \A w : ~Utters(e1, c, w) /\ ~Utters(e2, c, w)

LEMMA VoicesAre ==
    ASSUME NEW V \in Camps, NEW l \in Levels, NEW echo \in Seq(Voiced(Edges(V, l)))
    PROVE  /\ echo \in Seq(Proper) /\ echo \in Seq(In(Edges(V, l))) /\ echo \in Seq(Said3)
           /\ DOMAIN echo = 1 .. Len(echo) /\ Len(echo) \in Nat
           /\ \A y, w : Speaks(echo, y, w) => w \in Int \ {NoVal} /\ echo # <<>>
<1>1. /\ Voiced(Edges(V, l)) \subseteq In(Edges(V, l))
      /\ In(Edges(V, l)) \subseteq Proper /\ In(Edges(V, l)) \subseteq Said3
    BY VoicedMerges, MergesIn
<1>2. \A e \in Voiced(Edges(V, l)) : e.val \in Int \ {NoVal}
    BY VoicedIs DEF Voiced
<1>3. DOMAIN echo = 1 .. Len(echo) /\ Len(echo) \in Nat
    OBVIOUS
<1>4. \A i \in DOMAIN echo : echo[i] \in Voiced(Edges(V, l))
    BY <1>3
<1>5. DOMAIN <<>> = {}
    OBVIOUS
<1>6. echo \in Seq(Proper) /\ echo \in Seq(In(Edges(V, l))) /\ echo \in Seq(Said3)
    BY <1>1
<1> QED
    BY <1>2, <1>3, <1>4, <1>5, <1>6 DEF Speaks

LEMMA PlaceHeard ==
    ASSUME Apart, NEW V \in Camps, NEW nd, Uniform(V, nd.levels),
           NEW heard, EchosOK(V, heard), NEW r \in 0 .. Rounds, NEW q \in Node,
           NEW new, NEW e1, NEW e2, HeardBy(nd, heard, r, q, new, e1, e2), NEW c \in Place
    PROVE  PlaceHears(RsAt(nd.levels, c), heard, r, q, c, RsAt(new, c), e1, e2)
<1> DEFINE l == c[1]
           y == c[2]
           echo == heard[l]
           out == LevelEcho(nd.levels[l], echo, r, q)
           st == RsAt(nd.levels, c)
           v == IF Tells(heard, c) THEN Word(heard, c) ELSE 0
           h == HearEcho(st[r], v, q, MinThreshold, HighThreshold)
<1>1. l \in Levels /\ y \in Point /\ Tiled(nd.levels[l]) /\ Edged(nd.levels[l], Edges(V, l))
    BY PlaceIs, TilingIs DEF Uniform
<1>2. EdgedSays(V, heard) /\ Even(V, heard)
    BY DEF EchosOK
<1>3. /\ \A w : Utters(heard, c, w) <=> Tells(heard, c) /\ w = Word(heard, c)
      /\ v \in Nat
    BY <1>2, WordIs, ValuesAre
<1>4. /\ \A w : Utters(e1, c, w) <=> l \in DOMAIN e1 /\ Speaks(e1[l], y, w)
      /\ \A w : Utters(e2, c, w) <=> l \in DOMAIN e2 /\ Speaks(e2[l], y, w)
      /\ \A w : Utters(heard, c, w) <=> l \in DOMAIN heard /\ Speaks(echo, y, w)
    BY DEF Utters
<1>5. CASE l \notin DOMAIN heard
  <2>1. ~Tells(heard, c)
      BY <1>4, <1>5 DEF Tells
  <2>2. new[l] = nd.levels[l] /\ l \notin DOMAIN e1 /\ l \notin DOMAIN e2
      BY <1>1, <1>5 DEF HeardBy
  <2>3. RsAt(new, c) = st
      BY <2>2 DEF RsAt
  <2> QED
      BY <1>4, <2>1, <2>2, <2>3 DEF PlaceHears
<1>6. CASE l \in DOMAIN heard
  <2>1. echo \in Seq(Voiced(Edges(V, l)))
      BY <1>2, <1>6 DEF EdgedSays
  <2>2. /\ echo \in Seq(Proper) /\ echo \in Seq(In(Edges(V, l))) /\ DOMAIN echo = 1 .. Len(echo)
      BY <1>1, <2>1, VoicesAre
  <2>3. out \in EdgedAcc(Edges(V, l))
      BY <1>1, <2>2, EchoEdged
  <2>4. /\ out.echo1 \in Seq(Voiced(Edges(V, l))) /\ out.echo2 \in Seq(Voiced(Edges(V, l)))
      BY <2>3 DEF EdgedAcc
  <2>5. /\ \A w : Speaks(out.echo1, y, w) => w \in Int \ {NoVal} /\ out.echo1 # <<>>
        /\ \A w : Speaks(out.echo2, y, w) => w \in Int \ {NoVal} /\ out.echo2 # <<>>
      BY <1>1, <2>4, VoicesAre
  <2>6. /\ new[l] = out.ints
        /\ l \in DOMAIN e1 <=> out.echo1 # <<>>
        /\ l \in DOMAIN e2 <=> out.echo2 # <<>>
        /\ l \in DOMAIN e1 => e1[l] = out.echo1
        /\ l \in DOMAIN e2 => e2[l] = out.echo2
      BY <1>1, <1>6 DEF HeardBy
  <2>7. /\ \A w : Utters(e1, c, w) <=> Speaks(out.echo1, y, w)
        /\ \A w : Utters(e2, c, w) <=> Speaks(out.echo2, y, w)
      BY <1>4, <2>5, <2>6
  <2>8. SaysOnly(echo, y, v) /\ (SpeaksOf(echo, y) <=> Tells(heard, c))
    <3>1. \A n \in 1 .. Len(echo) : Covers(echo[n], y) => Utters(heard, c, echo[n].val)
        BY <1>4, <1>6, <2>2 DEF Speaks
    <3>2. Tells(heard, c) => SpeaksOf(echo, y)
        BY <1>4, <2>2 DEF Tells, Speaks, SpeaksOf
    <3> QED
        BY <1>3, <3>1, <3>2 DEF SaysOnly, SpeaksOf
  <2>9. st = StateAt(nd.levels[l], y) /\ RsAt(new, c) = StateAt(out.ints, y)
      BY <2>6 DEF RsAt
  <2>10. st[r] \in RoundState
      BY RsIs DEF Uniform
  <2> HIDE DEF out, st, v, h, echo, l, y
  <2>11. IF SpeaksOf(echo, y)
         THEN /\ StateAt(out.ints, y) = [st EXCEPT ![r] = h.rs]
              /\ \A w \in Int \ {NoVal} : /\ Speaks(out.echo1, y, w) <=> h.echo1 = w
                                          /\ Speaks(out.echo2, y, w) <=> h.echo2 = w
         ELSE /\ StateAt(out.ints, y) = st
              /\ \A w \in Int \ {NoVal} : ~Speaks(out.echo1, y, w) /\ ~Speaks(out.echo2, y, w)
      BY <1>1, <1>3, <2>2, <2>8, <2>9, HearsOnce DEF out, h
  <2>12. h.echo1 \in {v, NoVal} /\ h.echo2 \in {v, NoVal} /\ v \in Int
      BY <1>3, <2>10, HearEchoIs DEF h
  <2>13. CASE ~Tells(heard, c)
    <3>1. \A w : ~Utters(e1, c, w) /\ ~Utters(e2, c, w)
        BY <2>5, <2>7, <2>8, <2>11, <2>13
    <3> QED
        BY <2>8, <2>9, <2>11, <2>13, <3>1 DEF PlaceHears, st
  <2>14. CASE Tells(heard, c)
    <3>1. h = HearEcho(st[r], Word(heard, c), q, MinThreshold, HighThreshold)
        BY <2>14 DEF h, v
    <3>2. RsAt(new, c) = [st EXCEPT ![r] = h.rs]
        BY <2>8, <2>9, <2>11, <2>14
    <3>3. \A w : Utters(e1, c, w) <=> w # NoVal /\ h.echo1 = w
        BY <2>5, <2>7, <2>8, <2>11, <2>12, <2>14
    <3>4. \A w : Utters(e2, c, w) <=> w # NoVal /\ h.echo2 = w
        BY <2>5, <2>7, <2>8, <2>11, <2>12, <2>14
    <3> QED
        BY <2>14, <3>1, <3>2, <3>3, <3>4 DEF PlaceHears, st
  <2> QED
      BY <2>13, <2>14
<1> QED
    BY <1>5, <1>6
-----------------------------------------------------------------------------
(* Hearing keeps places of one kind alike.                                 *)

\* Whatever level is spoken of, something is said of it.
Full(echos) == \A l \in DOMAIN echos : echos[l] # <<>>

\* What was over stays over.
StaysOver(old, new, r) ==
    \A c \in Place : Terminated(RsAt(old, c)[r]) => Terminated(RsAt(new, c)[r])

AllHear(nd, heard, r, q, out) ==
    \A c \in Place :
        PlaceHears(RsAt(nd.levels, c), heard, r, q, c, RsAt(out.nd.levels, c), out.echo1, out.echo2)

LEMMA PlaceHeardIs ==
    ASSUME NEW V \in Camps, NEW levels, Uniform(V, levels), NEW heard, Even(V, heard),
           NEW r \in 0 .. Rounds, NEW q \in Node, NEW c \in Place, NEW rs, NEW e1, NEW e2,
           PlaceHears(RsAt(levels, c), heard, r, q, c, rs, e1, e2)
    PROVE  /\ \A k \in 0 .. Rounds :
                 /\ Holds(rs[k], Values(V, c))
                 /\ Terminated(RsAt(levels, c)[k]) => Terminated(rs[k])
           /\ \A w : Utters(e1, c, w) \/ Utters(e2, c, w) => w \in Values(V, c)
<1> DEFINE st == RsAt(levels, c)
           N == Values(V, c)
           v == Word(heard, c)
           h == HearEcho(st[r], v, q, MinThreshold, HighThreshold)
<1>1. st \in [0 .. Rounds -> RoundState] /\ \A k \in 0 .. Rounds : Holds(st[k], N)
    BY RsIs DEF Uniform
<1>2. Closed(N) /\ N \subseteq Nat
    BY ValuesAre
<1>3. CASE ~Tells(heard, c)
  <2>1. rs = st /\ \A w : ~Utters(e1, c, w) /\ ~Utters(e2, c, w)
      BY <1>3 DEF PlaceHears
  <2> QED
      BY <1>1, <2>1
<1>4. CASE Tells(heard, c)
  <2>1. /\ rs = [st EXCEPT ![r] = h.rs]
        /\ \A w : Utters(e1, c, w) <=> w # NoVal /\ h.echo1 = w
        /\ \A w : Utters(e2, c, w) <=> w # NoVal /\ h.echo2 = w
      BY <1>4 DEF PlaceHears
  <2>2. v \in N
      BY <1>4, WordIs
  <2>3. st[r] \in RoundState /\ Holds(st[r], N) /\ v \in Int
      BY <1>1, <1>2, <2>2
  <2> HIDE DEF st, N, v
  <2>4. h.echo1 \in {v, NoVal} /\ h.echo2 \in {v, NoVal}
      BY <2>3, HearEchoIs
  <2>5. Holds(h.rs, N) /\ (Terminated(st[r]) => Terminated(h.rs))
      BY <1>2, <2>2, <2>3, EchoHeld
  <2> HIDE DEF h
  <2>6. \A k \in 0 .. Rounds : /\ Holds(rs[k], N)
                               /\ Terminated(st[k]) => Terminated(rs[k])
    <3>1. \A k \in 0 .. Rounds : rs[k] = IF k = r THEN h.rs ELSE st[k]
        BY <1>1, <2>1
    <3> QED
        BY <1>1, <2>5, <3>1
  <2>7. \A w : Utters(e1, c, w) \/ Utters(e2, c, w) => w \in N
      BY <2>1, <2>2, <2>4
  <2> QED
      BY <2>6, <2>7 DEF st, N
<1> QED
    BY <1>3, <1>4

\* The same for places of one kind
LEMMA PlacesHearAlike ==
    ASSUME NEW V \in Camps, NEW st, NEW heard, Even(V, heard), NEW r, NEW q,
           NEW c \in Place, NEW d \in Place, Kind(V, c) = Kind(V, d),
           NEW rs1, NEW rs2, NEW e1, NEW e2,
           PlaceHears(st, heard, r, q, c, rs1, e1, e2),
           PlaceHears(st, heard, r, q, d, rs2, e1, e2)
    PROVE  /\ rs1 = rs2
           /\ \A w : Utters(e1, c, w) <=> Utters(e1, d, w)
           /\ \A w : Utters(e2, c, w) <=> Utters(e2, d, w)
<1>1. /\ Tells(heard, c) <=> Tells(heard, d)
      /\ Tells(heard, c) => Word(heard, c) = Word(heard, d)
    BY WordEverywhere
<1>2. CASE ~Tells(heard, c)
    BY <1>1, <1>2 DEF PlaceHears
<1>3. CASE Tells(heard, c)
    BY <1>1, <1>3 DEF PlaceHears
<1> QED
    BY <1>2, <1>3

LEMMA HeardEdged ==
    ASSUME NEW V \in Camps, NEW nd, Uniform(V, nd.levels), NEW heard, EdgedSays(V, heard),
           NEW r \in 0 .. Rounds, NEW q \in Node,
           NEW new, NEW e1, NEW e2, HeardBy(nd, heard, r, q, new, e1, e2),
           e1 \in Sayings, e2 \in Sayings
    PROVE  /\ \A l \in Levels : Edged(new[l], Edges(V, l))
           /\ EdgedSays(V, e1) /\ EdgedSays(V, e2) /\ Full(e1) /\ Full(e2)
<1> DEFINE res(l) == LevelEcho(nd.levels[l], heard[l], r, q)
<1>1. ASSUME NEW l \in DOMAIN heard
      PROVE  res(l) \in EdgedAcc(Edges(V, l)) /\ l \in Levels
  <2>1. l \in Levels /\ heard[l] \in Seq(Voiced(Edges(V, l)))
      BY SayingsAre DEF EdgedSays
  <2>2. Tiled(nd.levels[l]) /\ Edged(nd.levels[l], Edges(V, l))
      BY <2>1, TilingIs DEF Uniform
  <2>3. heard[l] \in Seq(In(Edges(V, l)))
      BY <2>1, VoicesAre
  <2> QED
      BY <2>1, <2>2, <2>3, EchoEdged
<1>2. ASSUME NEW l \in DOMAIN heard
      PROVE  /\ Edged(res(l).ints, Edges(V, l))
             /\ res(l).echo1 \in Seq(Voiced(Edges(V, l)))
             /\ res(l).echo2 \in Seq(Voiced(Edges(V, l)))
    BY <1>1 DEF EdgedAcc
<1>3. /\ \A l \in Levels : new[l] = IF l \in DOMAIN heard THEN res(l).ints ELSE nd.levels[l]
      /\ \A l \in DOMAIN e1 : l \in DOMAIN heard /\ e1[l] = res(l).echo1 /\ res(l).echo1 # <<>>
      /\ \A l \in DOMAIN e2 : l \in DOMAIN heard /\ e2[l] = res(l).echo2 /\ res(l).echo2 # <<>>
    BY DEF HeardBy
<1> HIDE DEF res
<1>4. \A l \in Levels : Edged(nd.levels[l], Edges(V, l))
    BY DEF Uniform
<1>5. \A l \in Levels : Edged(new[l], Edges(V, l))
    BY <1>2, <1>3, <1>4
<1>6. Full(e1) /\ Full(e2)
    BY <1>3 DEF Full
<1>7. EdgedSays(V, e1) /\ EdgedSays(V, e2)
    BY <1>2, <1>3 DEF EdgedSays
<1> QED
    BY <1>5, <1>6, <1>7

LEMMA UniformHears ==
    ASSUME Apart, NEW V \in Camps, NEW nd, NodeOK(nd), Uniform(V, nd.levels),
           NEW heard, EchosOK(V, heard), NEW r \in 0 .. Rounds, NEW q \in Node,
           NEW out, out = HearLevels(nd, heard, r, q)
    PROVE  /\ NodeOK(out.nd) /\ out.nd = [nd EXCEPT !.levels = out.nd.levels]
           /\ Uniform(V, out.nd.levels)
           /\ EchosOK(V, out.echo1) /\ EchosOK(V, out.echo2)
           /\ Full(out.echo1) /\ Full(out.echo2)
           /\ AllHear(nd, heard, r, q, out)
           /\ \A k \in 0 .. Rounds : StaysOver(nd.levels, out.nd.levels, k)
<1> DEFINE new == out.nd.levels
           e1 == out.echo1
           e2 == out.echo2
<1>1. heard \in Sayings /\ EdgedSays(V, heard) /\ Even(V, heard)
    BY DEF EchosOK, EdgedSays
<1>2. /\ NodeOK(out.nd) /\ e1 \in Sayings /\ e2 \in Sayings
      /\ out.nd = [nd EXCEPT !.levels = new]
      /\ HeardBy(nd, heard, r, q, new, e1, e2)
    BY <1>1, HearLevelsAre
<1>3. /\ \A l \in Levels : Edged(new[l], Edges(V, l))
      /\ EdgedSays(V, e1) /\ EdgedSays(V, e2) /\ Full(e1) /\ Full(e2)
    BY <1>1, <1>2, HeardEdged
<1>4. \A c \in Place : PlaceHears(RsAt(nd.levels, c), heard, r, q, c, RsAt(new, c), e1, e2)
    BY <1>2, PlaceHeard
<1>5. new \in [Levels -> Tilings]
    BY <1>2, NodeIs
<1> HIDE DEF new, e1, e2
<1>6. ASSUME NEW c \in Place
      PROVE  /\ \A k \in 0 .. Rounds :
                   /\ Holds(RsAt(new, c)[k], Values(V, c))
                   /\ Terminated(RsAt(nd.levels, c)[k]) => Terminated(RsAt(new, c)[k])
             /\ \A w : Utters(e1, c, w) \/ Utters(e2, c, w) => w \in Values(V, c)
    BY <1>1, <1>4, PlaceHeardIs
<1>7. ASSUME NEW c \in Place, NEW d \in Place, Kind(V, c) = Kind(V, d)
      PROVE  /\ RsAt(new, c) = RsAt(new, d)
             /\ \A w : Utters(e1, c, w) <=> Utters(e1, d, w)
             /\ \A w : Utters(e2, c, w) <=> Utters(e2, d, w)
  <2> DEFINE st == RsAt(nd.levels, c)
  <2>1. st = RsAt(nd.levels, d)
      BY <1>7 DEF Uniform
  <2>2. /\ PlaceHears(st, heard, r, q, c, RsAt(new, c), e1, e2)
        /\ PlaceHears(st, heard, r, q, d, RsAt(new, d), e1, e2)
      BY <1>4, <2>1
  <2> HIDE DEF st
  <2> QED
      BY <1>1, <1>7, <2>2, PlacesHearAlike
<1>8. Uniform(V, new)
    BY <1>3, <1>5, <1>6, <1>7 DEF Uniform
<1>9. ASSUME NEW c \in Place
      PROVE  /\ \A v, w : Utters(e1, c, v) /\ Utters(e1, c, w) => v = w
             /\ \A v, w : Utters(e2, c, v) /\ Utters(e2, c, w) => v = w
  <2>1. PlaceHears(RsAt(nd.levels, c), heard, r, q, c, RsAt(new, c), e1, e2)
      BY <1>4
  <2> QED
      BY <2>1 DEF PlaceHears
<1>10. ASSUME NEW c \in Place, NEW w, Utters(e1, c, w) \/ Utters(e2, c, w)
       PROVE  w \in Values(V, c)
    BY <1>6, <1>10
<1>11. Even(V, e1) /\ Even(V, e2)
    BY <1>7, <1>9, <1>10 DEF Even
<1>12. AllHear(nd, heard, r, q, out) /\ \A k \in 0 .. Rounds : StaysOver(nd.levels, new, k)
    BY <1>4, <1>6 DEF AllHear, StaysOver, new, e1, e2
<1> QED
    BY <1>2, <1>3, <1>8, <1>11, <1>12 DEF EchosOK, new, e1, e2
-----------------------------------------------------------------------------
(* The same for an ECHO2.                                                  *)

PlaceHears2(st, echos, r, q, c, rs) ==
    rs = IF Tells(echos, c)
         THEN [st EXCEPT ![r] = HearEcho2(st[r], Word(echos, c), q, HighThreshold)]
         ELSE st

AllHear2(nd, heard, r, q, out) ==
    \A c \in Place : PlaceHears2(RsAt(nd.levels, c), heard, r, q, c, RsAt(out.levels, c))

LEMMA HearLevels2Are ==
    ASSUME NEW nd, NodeOK(nd), NEW heard \in Sayings, NEW r \in 0 .. Rounds, NEW q \in Node,
           NEW out, out = HearLevels2(nd, heard, r, q)
    PROVE  /\ NodeOK(out) /\ out = [nd EXCEPT !.levels = out.levels]
           /\ out.levels \in [Levels -> Tilings]
           /\ \A l \in Levels :
                 out.levels[l] = IF l \in DOMAIN heard THEN LevelEcho2(nd.levels[l], heard[l], r, q)
                                 ELSE nd.levels[l]
<1> DEFINE D == DOMAIN heard
           new == [l \in Levels |-> IF l \in D THEN LevelEcho2(nd.levels[l], heard[l], r, q)
                                    ELSE nd.levels[l]]
<1>1. out = [nd EXCEPT !.levels = new]
    BY DEF HearLevels2, NodeOK, ANode
<1>2. \A l \in Levels : new[l] = IF l \in D THEN LevelEcho2(nd.levels[l], heard[l], r, q)
                                 ELSE nd.levels[l]
    OBVIOUS
<1> HIDE DEF new
<1>3. out.levels = new
    BY <1>1 DEF NodeOK, ANode
<1>4. NodeOK(out)
    BY HearLevels2Is
<1>5. out.levels \in [Levels -> Tilings]
    BY <1>4, NodeIs
<1> QED
    BY <1>1, <1>2, <1>3, <1>4, <1>5

LEMMA PlaceHeard2 ==
    ASSUME NEW V \in Camps, NEW nd, Uniform(V, nd.levels), NEW heard, EchosOK(V, heard),
           NEW r \in 0 .. Rounds, NEW q \in Node, NEW new,
           \A l \in Levels : new[l] = IF l \in DOMAIN heard
                                      THEN LevelEcho2(nd.levels[l], heard[l], r, q)
                                      ELSE nd.levels[l],
           NEW c \in Place
    PROVE  PlaceHears2(RsAt(nd.levels, c), heard, r, q, c, RsAt(new, c))
<1> DEFINE l == c[1]
           y == c[2]
           echo == heard[l]
           out == LevelEcho2(nd.levels[l], echo, r, q)
           st == RsAt(nd.levels, c)
           v == IF Tells(heard, c) THEN Word(heard, c) ELSE 0
           h == HearEcho2(st[r], v, q, HighThreshold)
<1>1. l \in Levels /\ y \in Point /\ Tiled(nd.levels[l])
    BY PlaceIs, TilingIs DEF Uniform
<1>2. EdgedSays(V, heard) /\ Even(V, heard)
    BY DEF EchosOK
<1>3. /\ \A w : Utters(heard, c, w) <=> Tells(heard, c) /\ w = Word(heard, c)
      /\ v \in Nat
    BY <1>2, WordIs, ValuesAre
<1>4. \A w : Utters(heard, c, w) <=> l \in DOMAIN heard /\ Speaks(echo, y, w)
    BY DEF Utters
<1>5. CASE l \notin DOMAIN heard
  <2>1. ~Tells(heard, c)
      BY <1>4, <1>5 DEF Tells
  <2>2. RsAt(new, c) = st
      BY <1>1, <1>5 DEF RsAt
  <2> QED
      BY <2>1, <2>2 DEF PlaceHears2
<1>6. CASE l \in DOMAIN heard
  <2>1. echo \in Seq(Voiced(Edges(V, l)))
      BY <1>2, <1>6 DEF EdgedSays
  <2>2. echo \in Seq(Proper) /\ DOMAIN echo = 1 .. Len(echo)
      BY <1>1, <2>1, VoicesAre
  <2>6. new[l] = out
      BY <1>1, <1>6
  <2>8. SaysOnly(echo, y, v) /\ (SpeaksOf(echo, y) <=> Tells(heard, c))
    <3>1. \A n \in 1 .. Len(echo) : Covers(echo[n], y) => Utters(heard, c, echo[n].val)
        BY <1>4, <1>6, <2>2 DEF Speaks
    <3>2. Tells(heard, c) => SpeaksOf(echo, y)
        BY <1>4, <2>2 DEF Tells, Speaks, SpeaksOf
    <3> QED
        BY <1>3, <3>1, <3>2 DEF SaysOnly, SpeaksOf
  <2>9. st = StateAt(nd.levels[l], y) /\ RsAt(new, c) = StateAt(out, y)
      BY <2>6 DEF RsAt
  <2> HIDE DEF out, st, v, h, echo, l, y
  <2>11. StateAt(out, y) = IF SpeaksOf(echo, y) THEN [st EXCEPT ![r] = h] ELSE st
      BY <1>1, <1>3, <2>2, <2>8, <2>9, HearsOnce2 DEF out, h
  <2>12. Tells(heard, c) => v = Word(heard, c)
      BY DEF v
  <2> QED
      BY <2>8, <2>9, <2>11, <2>12 DEF PlaceHears2, st, h
<1> QED
    BY <1>5, <1>6

LEMMA PlaceHeard2Is ==
    ASSUME NEW V \in Camps, NEW levels, Uniform(V, levels), NEW heard, Even(V, heard),
           NEW r \in 0 .. Rounds, NEW q \in Node, NEW c \in Place, NEW rs,
           PlaceHears2(RsAt(levels, c), heard, r, q, c, rs)
    PROVE  \A k \in 0 .. Rounds :
              /\ Holds(rs[k], Values(V, c))
              /\ Terminated(RsAt(levels, c)[k]) => Terminated(rs[k])
<1> DEFINE st == RsAt(levels, c)
           N == Values(V, c)
           v == Word(heard, c)
           h == HearEcho2(st[r], v, q, HighThreshold)
<1>1. st \in [0 .. Rounds -> RoundState] /\ \A k \in 0 .. Rounds : Holds(st[k], N)
    BY RsIs DEF Uniform
<1>2. Closed(N) /\ N \subseteq Nat
    BY ValuesAre
<1>3. CASE ~Tells(heard, c)
    BY <1>1, <1>3 DEF PlaceHears2
<1>4. CASE Tells(heard, c)
  <2>1. rs = [st EXCEPT ![r] = h]
      BY <1>4 DEF PlaceHears2
  <2>2. v \in N
      BY <1>4, WordIs
  <2>3. st[r] \in RoundState /\ Holds(st[r], N)
      BY <1>1
  <2> HIDE DEF st, N, v
  <2>5. Holds(h, N) /\ (Terminated(st[r]) => Terminated(h))
      BY <1>2, <2>2, <2>3, Echo2Held
  <2> HIDE DEF h
  <2>6. \A k \in 0 .. Rounds : rs[k] = IF k = r THEN h ELSE st[k]
      BY <1>1, <2>1
  <2> QED
      BY <1>1, <2>5, <2>6 DEF st, N
<1> QED
    BY <1>3, <1>4

LEMMA UniformHears2 ==
    ASSUME NEW V \in Camps, NEW nd, NodeOK(nd), Uniform(V, nd.levels),
           NEW heard, EchosOK(V, heard), NEW r \in 0 .. Rounds, NEW q \in Node,
           NEW out, out = HearLevels2(nd, heard, r, q)
    PROVE  /\ NodeOK(out) /\ out = [nd EXCEPT !.levels = out.levels]
           /\ Uniform(V, out.levels)
           /\ AllHear2(nd, heard, r, q, out)
           /\ \A k \in 0 .. Rounds : StaysOver(nd.levels, out.levels, k)
<1> DEFINE new == out.levels
<1>1. heard \in Sayings /\ EdgedSays(V, heard) /\ Even(V, heard)
    BY DEF EchosOK, EdgedSays
<1>2. /\ NodeOK(out) /\ out = [nd EXCEPT !.levels = new] /\ new \in [Levels -> Tilings]
      /\ \A l \in Levels : new[l] = IF l \in DOMAIN heard
                                    THEN LevelEcho2(nd.levels[l], heard[l], r, q)
                                    ELSE nd.levels[l]
    BY <1>1, HearLevels2Are
<1> HIDE DEF new
<1>3. ASSUME NEW l \in Levels PROVE Edged(new[l], Edges(V, l))
  <2>1. Tiled(nd.levels[l]) /\ Edged(nd.levels[l], Edges(V, l))
      BY TilingIs DEF Uniform
  <2>2. CASE l \in DOMAIN heard
    <3>1. heard[l] \in Seq(In(Edges(V, l)))
        BY <1>1, <2>2, VoicesAre DEF EdgedSays
    <3>2. Edged(LevelEcho2(nd.levels[l], heard[l], r, q), Edges(V, l))
        BY <2>1, <3>1, Echo2Edged
    <3> QED
        BY <1>2, <2>2, <3>2
  <2>3. CASE l \notin DOMAIN heard
      BY <1>2, <2>1, <2>3
  <2> QED
      BY <2>2, <2>3
<1>4. \A c \in Place : PlaceHears2(RsAt(nd.levels, c), heard, r, q, c, RsAt(new, c))
    BY <1>2, PlaceHeard2
<1>6. ASSUME NEW c \in Place
      PROVE  \A k \in 0 .. Rounds :
                /\ Holds(RsAt(new, c)[k], Values(V, c))
                /\ Terminated(RsAt(nd.levels, c)[k]) => Terminated(RsAt(new, c)[k])
    BY <1>1, <1>4, PlaceHeard2Is
<1>7. ASSUME NEW c \in Place, NEW d \in Place, Kind(V, c) = Kind(V, d)
      PROVE  RsAt(new, c) = RsAt(new, d)
  <2>1. RsAt(nd.levels, c) = RsAt(nd.levels, d)
      BY <1>7 DEF Uniform
  <2>2. /\ Tells(heard, c) <=> Tells(heard, d)
        /\ Tells(heard, c) => Word(heard, c) = Word(heard, d)
      BY <1>1, <1>7, WordEverywhere
  <2> QED
      BY <1>4, <2>1, <2>2 DEF PlaceHears2
<1>8. Uniform(V, new)
    BY <1>2, <1>3, <1>6, <1>7 DEF Uniform
<1>9. AllHear2(nd, heard, r, q, out) /\ \A k \in 0 .. Rounds : StaysOver(nd.levels, new, k)
    BY <1>4, <1>6 DEF AllHear2, StaysOver, new
<1> QED
    BY <1>2, <1>8, <1>9 DEF new
-----------------------------------------------------------------------------
(* A round begins.                                                         *)

\* What a node begins round r with at a place
StartAtPlace(levels, r, v, c) ==
    IF r = 0 THEN Weighed(v, c) ELSE RsAt(levels, c)[r - 1].term

PlaceBegins(st, w, r, p, c, rs, echos) ==
    /\ rs = [st EXCEPT ![r] = NewWithEcho(w, p)]
    /\ \A x : Utters(echos, c, x) <=> x = w

\* The node has begun nothing yet, or the round before is over.
MayBegin(levels, r, v) ==
    IF r = 0 THEN levels = [l \in Levels |-> NewLevel(v, l)]
    ELSE \A c \in Place : Terminated(RsAt(levels, c)[r - 1])

LEMMA StartHeld ==
    ASSUME NEW V \in Camps, Parted(V), NEW levels, Uniform(V, levels), NEW r \in 0 .. Rounds,
           NEW v \in V, MayBegin(levels, r, v), NEW c \in Place
    PROVE  /\ StartAtPlace(levels, r, v, c) \in Values(V, c)
           /\ \A d \in Place : Kind(V, c) = Kind(V, d) =>
                 StartAtPlace(levels, r, v, c) = StartAtPlace(levels, r, v, d)
<1>1. CASE r = 0
  <2>1. \A d \in Place : Weighed(v, d) = IF v \in Kind(V, d) THEN MaxInput ELSE 0
    <3>1. \A d \in Place : v \in Kind(V, d) <=> Weighs(v, d)
        BY KindIs
    <3> QED
        BY <3>1 DEF Weighed, Weighs
  <2>2. MaxInput \in Nat
      BY LevelPowers
  <2>3. Kind(V, c) = V => v \in Kind(V, c)
      OBVIOUS
  <2> QED
      BY <1>1, <2>1, <2>2, <2>3 DEF StartAtPlace, Values
<1>2. CASE r # 0
  <2>1. r - 1 \in 0 .. Rounds
      BY <1>2, LevelAssumption
  <2>2. Terminated(RsAt(levels, c)[r - 1]) /\ Holds(RsAt(levels, c)[r - 1], Values(V, c))
      BY <1>2, <2>1 DEF MayBegin, Uniform
  <2>3. RsAt(levels, c)[r - 1].term \in Values(V, c)
      BY <2>2 DEF Terminated, Holds
  <2>4. \A d \in Place : Kind(V, c) = Kind(V, d) => RsAt(levels, c) = RsAt(levels, d)
      BY DEF Uniform
  <2> QED
      BY <1>2, <2>3, <2>4 DEF StartAtPlace
<1> QED
    BY <1>1, <1>2

LEMMA PlaceStarts ==
    ASSUME NEW V \in Camps, Parted(V), NEW levels, Uniform(V, levels), NEW r \in 0 .. Rounds,
           NEW p \in Node, NEW v \in V, MayBegin(levels, r, v), NEW new, NEW echos,
           DOMAIN echos = Levels,
           \A l \in Levels : /\ new[l] = LevelStart(levels[l], r, p, v).ints
                             /\ echos[l] = LevelStart(levels[l], r, p, v).echo,
           NEW c \in Place
    PROVE  PlaceBegins(RsAt(levels, c), StartAtPlace(levels, r, v, c), r, p, c, RsAt(new, c), echos)
<1> DEFINE l == c[1]
           y == c[2]
           ints == levels[l]
           begun == LevelStart(ints, r, p, v)
           w == StartAtPlace(levels, r, v, c)
<1>1. l \in Levels /\ y \in Point /\ Tiled(ints) /\ c = <<l, y>> /\ v \in {LowVal, HighVal}
      /\ Edged(ints, Edges(V, l)) /\ v \in Int
    BY PlaceIs, TilingIs, CellIs DEF Uniform, Camps
<1>2. RsAt(levels, c) = StateAt(ints, y) /\ RsAt(new, c) = StateAt(begun.ints, y)
    BY <1>1 DEF RsAt
<1>3. \A x : Utters(echos, c, x) <=> Speaks(begun.echo, y, x)
    BY <1>1 DEF Utters
<1>4. \A x : Speaks(begun.echo, y, x) => x \in Int \ {NoVal}
    BY <1>1, StartEdged, VoicesAre
<1>5. w \in Int \ {NoVal}
    BY StartHeld, ValuesAre DEF NoVal
<1>6. /\ StateAt(begun.ints, y) = [StateAt(ints, y) EXCEPT ![r] = NewWithEcho(w, p)]
      /\ \A x \in Int \ {NoVal} : Speaks(begun.echo, y, x) <=> x = w
  <2>1. CASE r = 0
    <3>1. ints = NewLevel(v, l) /\ w = Weighed(v, <<l, y>>)
        BY <1>1, <2>1 DEF MayBegin, StartAtPlace
    <3> HIDE DEF ints, l, y, w
    <3> QED
        BY <1>1, <2>1, <3>1, FirstPerPoint
  <2>2. CASE r # 0
    <3>1. w = StateAt(ints, y)[r - 1].term
        BY <1>2, <2>2 DEF StartAtPlace
    <3>2. r \in 1 .. Rounds
        BY <2>2, LevelAssumption
    <3> HIDE DEF ints, l, y, w
    <3> QED
        BY <1>1, <3>1, <3>2, StartPerPoint
  <2> QED
      BY <2>1, <2>2
<1> HIDE DEF begun, w
<1>7. \A x : Utters(echos, c, x) <=> x = w
    BY <1>3, <1>4, <1>5, <1>6
<1> QED
    BY <1>2, <1>6, <1>7 DEF PlaceBegins, w

LEMMA UniformStarts ==
    ASSUME NEW V \in Camps, Parted(V), NEW levels, Uniform(V, levels), NEW r \in 0 .. Rounds,
           NEW p \in Node, NEW v \in V, MayBegin(levels, r, v), NEW new, NEW echos,
           new = [l \in Levels |-> LevelStart(levels[l], r, p, v).ints],
           echos = [l \in Levels |-> LevelStart(levels[l], r, p, v).echo]
    PROVE  /\ Uniform(V, new) /\ EchosOK(V, echos)
           /\ \A c \in Place :
                 PlaceBegins(RsAt(levels, c), StartAtPlace(levels, r, v, c), r, p, c,
                             RsAt(new, c), echos)
<1> DEFINE w(c) == StartAtPlace(levels, r, v, c)
<1>0. /\ v \in Int
      /\ \A l \in Levels : Tiled(levels[l]) /\ Edged(levels[l], Edges(V, l))
  <2>1. v \in Int
      BY DelphiAssumption DEF Camps
  <2>2. /\ levels \in [Levels -> Tilings]
        /\ \A l \in Levels : Edged(levels[l], Edges(V, l))
      BY DEF Uniform
  <2>3. ASSUME NEW l \in Levels
        PROVE  Tiled(levels[l])
      BY <2>2, TilingIs
  <2> QED
      BY <2>1, <2>2, <2>3
<1>1. ASSUME NEW l \in Levels
      PROVE  /\ new[l] \in Tilings /\ Edged(new[l], Edges(V, l))
             /\ echos[l] \in Seq(Voiced(Edges(V, l))) /\ echos[l] \in Seq(Said3)
    BY <1>0, StartEdged, LevelStartTyped, TilingIs, VoicesAre
<1>2. new \in [Levels -> Tilings] /\ echos \in [Levels -> Seq(Said3)] /\ DOMAIN echos = Levels
    BY <1>1
<1>3. EdgedSays(V, echos)
    BY <1>1, <1>2, SayingIs DEF EdgedSays
<1>4. \A c \in Place : PlaceBegins(RsAt(levels, c), w(c), r, p, c, RsAt(new, c), echos)
    BY PlaceStarts
<1>5. \A c \in Place : w(c) \in Values(V, c)
    BY StartHeld
<1>6. \A c \in Place, d \in Place : Kind(V, c) = Kind(V, d) => w(c) = w(d)
    BY StartHeld
<1> HIDE DEF w
<1>7. Even(V, echos)
  <2>1. \A c \in Place : \A x : Utters(echos, c, x) <=> x = w(c)
      BY <1>4 DEF PlaceBegins
  <2> QED
      BY <1>5, <1>6, <2>1 DEF Even
<1>8. ASSUME NEW c \in Place, NEW d \in Place, Kind(V, c) = Kind(V, d)
      PROVE  RsAt(new, c) = RsAt(new, d)
  <2>1. RsAt(levels, c) = RsAt(levels, d) /\ w(c) = w(d)
      BY <1>6, <1>8 DEF Uniform
  <2> QED
      BY <1>4, <2>1 DEF PlaceBegins
<1>9. ASSUME NEW c \in Place, NEW k \in 0 .. Rounds
      PROVE  Holds(RsAt(new, c)[k], Values(V, c))
  <2>1. /\ RsAt(levels, c) \in [0 .. Rounds -> RoundState]
        /\ Holds(RsAt(levels, c)[k], Values(V, c))
      BY RsIs DEF Uniform
  <2>2. RsAt(new, c)[k] = IF k = r THEN NewWithEcho(w(c), p) ELSE RsAt(levels, c)[k]
      BY <1>4, <2>1 DEF PlaceBegins
  <2>3. Holds(NewWithEcho(w(c), p), Values(V, c))
      BY <1>5, BegunHeld
  <2> QED
      BY <2>1, <2>2, <2>3
<1>10. Uniform(V, new)
    BY <1>1, <1>2, <1>8, <1>9 DEF Uniform
<1> QED
    BY <1>3, <1>4, <1>7, <1>10 DEF EchosOK, w

\* Nothing has been heard of anywhere.
LEMMA UniformAtFirst ==
    ASSUME NEW V \in Camps, NEW v \in V, NEW levels, levels = [l \in Levels |-> NewLevel(v, l)]
    PROVE  /\ Uniform(V, levels) /\ MayBegin(levels, 0, v)
           /\ \A c \in Place : RsAt(levels, c) = [r \in 0 .. Rounds |-> NoState]
<1> DEFINE nothing == [r \in 0 .. Rounds |-> NoState]
<1>1. v \in {LowVal, HighVal}
    BY DEF Camps
<1>2. levels \in [Levels -> Tilings]
    BY <1>1, NewLevelIs, TilingIs
<1>3. ASSUME NEW l \in Levels
      PROVE  /\ Edged(levels[l], Edges(V, l))
             /\ \A y \in Point : StateAt(levels[l], y) = nothing
  <2> DEFINE f == AroundFrom(v, l)
             t == AroundTo(v, l)
             a == Interval(MinPoint, f)
             b == Interval(f, t)
             c == Interval(t, MaxPoint)
             ints == levels[l]
  <2>1. ints = <<a, b, c>>
      BY DEF NewLevel
  <2>2. /\ f \in Int /\ t \in Int /\ MinPoint \in Int /\ MaxPoint \in Int
        /\ MinPoint \in Edges(V, l) /\ MaxPoint \in Edges(V, l) /\ f \in Edges(V, l) /\ t \in Edges(V, l)
      BY <1>1, CellIs, EdgesAre, EndsAre
  <2> HIDE DEF f, t
  <2>3. /\ a.start = MinPoint /\ a.end = f /\ a.state = nothing
        /\ b.start = f /\ b.end = t /\ b.state = nothing
        /\ c.start = t /\ c.end = MaxPoint /\ c.state = nothing
      BY <2>2, IntervalIs
  <2> HIDE DEF a, b, c
  <2>4. /\ Len(ints) = 3 /\ DOMAIN ints = {1, 2, 3}
        /\ ints[1] = a /\ ints[2] = b /\ ints[3] = c
      BY <2>1
  <2>5. Tiled(ints)
      BY <1>2, TilingIs
  <2> HIDE DEF ints
  <2>6. \A i \in DOMAIN ints : ints[i].state = nothing
      BY <2>3, <2>4
  <2>7. \A y \in Point : StateAt(ints, y) = nothing
    <3> TAKE y \in Point
    <3>1. PICK i \in DOMAIN ints : Covers(ints[i], y)
        BY <2>5, CoveredOnce
    <3> QED
        BY <2>5, <2>6, <3>1, AtIs
  <2>8. \A i \in 1 .. Len(ints) : i \in {1, 2, 3}
      BY <2>4
  <2>9. Edged(ints, Edges(V, l))
      BY <2>2, <2>3, <2>4, <2>8 DEF Edged
  <2> QED
      BY <2>7, <2>9 DEF ints
<1>4. \A c \in Place : RsAt(levels, c) = nothing
    BY <1>3, PlaceIs DEF RsAt
<1>5. \A c \in Place, r \in 0 .. Rounds : Holds(RsAt(levels, c)[r], Values(V, c))
  <2>1. \A r \in 0 .. Rounds : nothing[r] = NoState
      OBVIOUS
  <2> QED
      BY <1>4, <2>1, NothingHeld
<1>6. Uniform(V, levels)
    BY <1>2, <1>3, <1>4, <1>5 DEF Uniform
<1>7. MayBegin(levels, 0, v)
    BY DEF MayBegin
<1> QED
    BY <1>4, <1>6, <1>7
-----------------------------------------------------------------------------
(* What checkpoints are told.                                              *)

\* The values that nodes may join with
Chosen == {input[p] : p \in Node, input \in Inputs}

\* What is said of the checkpoints, as BinAA has it
Voices(echos) == [c \in {d \in Checkpoints : Tells(echos, d)} |-> Word(echos, c)]

LEMMA ChosenAre == Chosen \subseteq {LowVal, HighVal} /\ SUBSET Chosen \subseteq Camps
BY DelphiAssumption DEF Chosen, Camps

LEMMA CheckpointsAre ==
    /\ Checkpoints \subseteq Place
    /\ \A l \in Levels : <<l, MinPoint>> \in Checkpoints
    /\ \A l \in Levels, v \in Chosen : <<l, AroundFrom(v, l)>> \in Checkpoints
<1> DEFINE starts(l) == {MinPoint} \union Bounds(l)
<1>1. \A c : c \in Checkpoints <=> \E l \in Levels : c \in {l} \X starts(l)
    BY DEF Checkpoints
<1>2. ASSUME NEW l \in Levels
      PROVE  starts(l) \subseteq Point /\ MinPoint \in starts(l)
             /\ \A v \in Chosen : AroundFrom(v, l) \in starts(l)
  <2>1. MinPoint \in Point
      BY EndsAre DEF Point
  <2>2. \A p \in Node, input \in Inputs : input[p] \in {LowVal, HighVal}
      BY DelphiAssumption
  <2>3. \A p \in Node, input \in Inputs :
           AroundFrom(input[p], l) \in Point /\ AroundTo(input[p], l) \in Point
      BY <2>2, CellIs
  <2>4. \A x \in Bounds(l) : \E p \in Node, input \in Inputs :
           x = AroundFrom(input[p], l) \/ x = AroundTo(input[p], l)
      BY DEF Bounds
  <2>5. ASSUME NEW p \in Node, NEW input \in Inputs PROVE AroundFrom(input[p], l) \in Bounds(l)
    <3> DEFINE S == {AroundFrom(input[p], l), AroundTo(input[p], l)}
    <3>1. S \in {{AroundFrom(i[q], l), AroundTo(i[q], l)} : q \in Node, i \in Inputs}
        OBVIOUS
    <3>2. AroundFrom(input[p], l) \in S
        OBVIOUS
    <3> HIDE DEF S
    <3> QED
        BY <3>1, <3>2 DEF Bounds
  <2>6. \A v \in Chosen : AroundFrom(v, l) \in Bounds(l)
      BY <2>5 DEF Chosen
  <2>7. Bounds(l) \subseteq Point
      BY <2>3, <2>4
  <2>8. starts(l) = {MinPoint} \union Bounds(l)
      OBVIOUS
  <2> HIDE DEF starts
  <2>9. starts(l) \subseteq Point
      BY <2>1, <2>7, <2>8
  <2>10. MinPoint \in starts(l)
      BY <2>8
  <2>11. \A v \in Chosen : AroundFrom(v, l) \in starts(l)
      BY <2>6, <2>8
  <2> QED
      BY <2>9, <2>10, <2>11
<1>3. \A l \in Levels : \A y \in starts(l) : <<l, y>> \in {l} \X starts(l)
    OBVIOUS
<1> HIDE DEF starts
<1>4. Checkpoints \subseteq Place
    BY <1>1, <1>2 DEF Place
<1> QED
    BY <1>1, <1>2, <1>3, <1>4

\* Every kind there is is met at a checkpoint of every level.
LEMMA KindAtCheckpoint ==
    ASSUME NEW V \in SUBSET Chosen, Parted(V), NEW c \in Place, NEW l \in Levels
    PROVE  \E d \in Checkpoints : d[1] = l /\ Kind(V, d) = Kind(V, c)
<1>1. V \in Camps
    BY ChosenAre
<1>2. PICK y \in Point : /\ y = MinPoint \/ \E v \in V : y = AroundFrom(v, l)
                         /\ Kind(V, <<l, y>>) = Kind(V, c)
    BY <1>1, KindEverywhere
<1>3. <<l, y>> \in Checkpoints
    BY <1>2, CheckpointsAre
<1> QED
    BY <1>2, <1>3

LEMMA VoicesIs ==
    ASSUME NEW echos
    PROVE  /\ DOMAIN Voices(echos) = {d \in Checkpoints : Tells(echos, d)}
           /\ \A c \in DOMAIN Voices(echos) : Voices(echos)[c] = Word(echos, c)
BY DEF Voices

LEMMA SameVoices ==
    ASSUME NEW V, NEW a, NEW b, Even(V, a), Even(V, b), SameSaid(a, b)
    PROVE  Voices(a) = Voices(b)
<1>1. \A c \in Checkpoints : (Tells(a, c) <=> Tells(b, c)) /\ (Tells(a, c) => Word(a, c) = Word(b, c))
    BY SameWord, CheckpointsAre
<1> DEFINE D == {d \in Checkpoints : Tells(a, d)}
<1>2. D = {d \in Checkpoints : Tells(b, d)}
    BY <1>1
<1>3. \A c \in D : Word(a, c) = Word(b, c)
    BY <1>1
<1>4. Voices(a) = [c \in D |-> Word(a, c)]
    BY DEF Voices
<1>5. Voices(b) = [c \in D |-> Word(b, c)]
    BY <1>2 DEF Voices
<1> HIDE DEF D
<1> QED
    BY <1>3, <1>4, <1>5

\* Something is said of a checkpoint if anything is said.
LEMMA NoVoices ==
    ASSUME NEW V \in SUBSET Chosen, Parted(V), NEW echos, EchosOK(V, echos), Full(echos)
    PROVE  Voices(echos) = <<>> <=> DOMAIN echos = {}
<1> DEFINE D == {d \in Checkpoints : Tells(echos, d)}
<1>1. V \in Camps /\ EdgedSays(V, echos) /\ Even(V, echos) /\ DOMAIN echos \in SUBSET Levels
    BY ChosenAre, SayingsAre DEF EchosOK, EdgedSays
<1>2. ASSUME DOMAIN echos = {} PROVE D = {}
    BY <1>2 DEF Tells, Utters
<1>3. ASSUME NEW l \in DOMAIN echos PROVE D # {}
  <2>1. l \in Levels /\ echos[l] \in Seq(Voiced(Edges(V, l))) /\ echos[l] # <<>>
      BY <1>1, <1>3 DEF EdgedSays, Full
  <2> DEFINE e == echos[l][1]
  <2>2. e \in Voiced(Edges(V, l)) /\ 1 \in DOMAIN echos[l]
      BY <2>1
  <2>3. e.start \in Point /\ Covers(e, e.start)
      BY <1>1, <2>1, <2>2, VoicedIs DEF Covers
  <2>4. Utters(echos, <<l, e.start>>, e.val)
      BY <1>1, <2>2, <2>3, EntrySpeaks
  <2>5. <<l, e.start>> \in Place
      BY <2>1, <2>3, PlaceIs
  <2>6. PICK d \in Checkpoints : Kind(V, d) = Kind(V, <<l, e.start>>)
      BY <2>1, <2>5, KindAtCheckpoint
  <2> HIDE DEF e
  <2>7. d \in Place
      BY CheckpointsAre
  <2>8. Utters(echos, d, e.val) /\ e.val \in Nat
      BY <1>1, <2>4, <2>5, <2>6, <2>7, EvenValues DEF Even
  <2> QED
      BY <2>8 DEF Tells
<1>4. Voices(echos) = [c \in D |-> Word(echos, c)]
    BY DEF Voices
<1> HIDE DEF D
<1>5. Voices(echos) = <<>> <=> D = {}
    BY <1>4
<1> QED
    BY <1>2, <1>3, <1>5

\* A message as BinAA has it, and a sequence of them
LEMMA MessageMeans ==
    ASSUME NEW V \in SUBSET Chosen, NEW m, EchosOK(V, Expanded(m.echos))
    PROVE  CheckpointMessage(m) = PerCheckpoint!Msg(m.kind, m.round, Voices(Expanded(m.echos)))
<1> DEFINE heard == Expanded(m.echos)
           D == {d \in Checkpoints : /\ d[1] \in DOMAIN heard
                                     /\ \E i \in DOMAIN heard[d[1]] : Covers(heard[d[1]][i], d[2])}
<1>1. CheckpointMessage(m)
        = [kind |-> m.kind, round |-> m.round, vals |-> [c \in D |-> At(heard[c[1]], c[2]).val]]
    BY DEF CheckpointMessage
<1>2. Even(V, heard)
    BY DEF EchosOK
<1> HIDE DEF heard
<1>3. ASSUME NEW c \in D PROVE Tells(heard, c) /\ At(heard[c[1]], c[2]).val = Word(heard, c)
  <2> DEFINE echo == heard[c[1]]
             i == CHOOSE k \in DOMAIN echo : Covers(echo[k], c[2])
  <2>1. i \in DOMAIN echo /\ Covers(echo[i], c[2])
      BY <1>3
  <2>2. At(echo, c[2]) = echo[i]
      BY DEF At
  <2> HIDE DEF i
  <2>3. Utters(heard, c, echo[i].val)
      BY <2>1 DEF Utters, Speaks
  <2>4. c \in Place
      BY CheckpointsAre
  <2> QED
      BY <1>2, <2>2, <2>3, <2>4, WordIs
<1>4. ASSUME NEW c \in Checkpoints, Tells(heard, c) PROVE c \in D
    BY <1>4 DEF Tells, Utters, Speaks
<1>5. D = {d \in Checkpoints : Tells(heard, d)}
    BY <1>3, <1>4
<1> HIDE DEF D
<1>6. [c \in D |-> At(heard[c[1]], c[2]).val] = Voices(heard)
    BY <1>3, <1>5 DEF Voices
<1> QED
    BY <1>1, <1>6 DEF PerCheckpoint!Msg, heard

LEMMA CoalescedMeans ==
    ASSUME NEW V \in SUBSET Chosen, Parted(V), NEW echos, EchosOK(V, echos), NEW kind, NEW r,
           NEW m, m = Message(kind, r, echos)
    PROVE  /\ EchosOK(V, Expanded(m.echos)) /\ Voices(Expanded(m.echos)) = Voices(echos)
           /\ CheckpointMessage(m) = PerCheckpoint!Msg(kind, r, Voices(echos))
<1>1. V \in Camps
    BY ChosenAre
<1>2. m.kind = kind /\ m.round = r /\ m.echos = Coalesce(echos)
    BY DEF Message
<1>3. EchosOK(V, Expanded(m.echos)) /\ SameSaid(echos, Expanded(m.echos))
    BY <1>1, <1>2, CoalesceKeeps
<1>4. Voices(Expanded(m.echos)) = Voices(echos)
    BY <1>3, SameVoices DEF EchosOK
<1> QED
    BY <1>2, <1>3, <1>4, MessageMeans
-----------------------------------------------------------------------------
(* A node as BinAA has it.                                                 *)

Meant(s) == [i \in DOMAIN s |-> CheckpointMessage(s[i])]

BNode(input, round, rs, out, blocked, sent) ==
    [input |-> input, round |-> round, rs |-> rs, out |-> out, blocked |-> blocked, sent |-> sent]

InputOf(v)  == [c \in Checkpoints |-> Weighed(v, c)]
RsOf(levels) == [c \in Checkpoints |-> RsAt(levels, c)]

\* CheckpointNode, in the middle of a step
Abs(nd) ==
    BNode(InputOf(nd.value), nd.round, RsOf(nd.levels), Len(nd.out), nd.blocked, Meant(nd.sent))

LEMMA MeantIs ==
    ASSUME NEW T, NEW s \in Seq(T)
    PROVE  /\ DOMAIN Meant(s) = 1 .. Len(s) /\ Len(Meant(s)) = Len(s) /\ Len(s) \in Nat
           /\ Meant(s) \in Seq({CheckpointMessage(m) : m \in T})
           /\ \A i \in 1 .. Len(s) : Meant(s)[i] = CheckpointMessage(s[i])
<1>1. DOMAIN s = 1 .. Len(s) /\ Len(s) \in Nat /\ \A i \in 1 .. Len(s) : s[i] \in T
    OBVIOUS
<1>2. Meant(s) = [i \in 1 .. Len(s) |-> CheckpointMessage(s[i])]
    BY <1>1 DEF Meant
<1>3. Meant(s) \in [1 .. Len(s) -> {CheckpointMessage(m) : m \in T}]
    BY <1>1, <1>2
<1>4. Meant(s) \in Seq({CheckpointMessage(m) : m \in T})
    BY <1>1, <1>3
<1>5. Len(Meant(s)) = Len(s)
    BY <1>1, <1>2
<1> QED
    BY <1>1, <1>2, <1>4, <1>5

LEMMA MeantNothing == Meant(<<>>) = <<>>
BY DEF Meant

LEMMA MeantAppend ==
    ASSUME NEW T, NEW s \in Seq(T), NEW m \in T
    PROVE  Meant(Append(s, m)) = Append(Meant(s), CheckpointMessage(m))
<1> DEFINE a == Meant(Append(s, m))
           b == Append(Meant(s), CheckpointMessage(m))
           T2 == {CheckpointMessage(x) : x \in T}
           N == Len(s) + 1
<1>1. Append(s, m) \in Seq(T) /\ Len(Append(s, m)) = N /\ N \in Nat
    OBVIOUS
<1>2. a \in Seq(T2) /\ Len(a) = N /\ \A i \in 1 .. N : a[i] = CheckpointMessage(Append(s, m)[i])
    BY <1>1, MeantIs
<1>3. Meant(s) \in Seq(T2) /\ Len(Meant(s)) = Len(s)
      /\ \A i \in 1 .. Len(s) : Meant(s)[i] = CheckpointMessage(s[i])
    BY MeantIs
<1>4. CheckpointMessage(m) \in T2
    OBVIOUS
<1>5. b \in Seq(T2) /\ Len(b) = N /\ b[N] = CheckpointMessage(m)
      /\ \A i \in 1 .. Len(s) : b[i] = Meant(s)[i]
    BY <1>3, <1>4
<1>6. Append(s, m)[N] = m /\ \A i \in 1 .. Len(s) : Append(s, m)[i] = s[i]
    OBVIOUS
<1>7. \A i \in 1 .. N : i = N \/ i \in 1 .. Len(s)
    OBVIOUS
<1> HIDE DEF a, b, T2, N
<1>8. \A i \in 1 .. N : a[i] = b[i]
    BY <1>2, <1>3, <1>5, <1>6, <1>7
<1>9. a = b
    BY <1>1, <1>2, <1>5, <1>8
<1> QED
    BY <1>9 DEF a, b

LEMMA MeantConcat ==
    ASSUME NEW T, NEW s \in Seq(T), NEW t \in Seq(T)
    PROVE  Meant(s \o t) = Meant(s) \o Meant(t)
<1> DEFINE a == Meant(s \o t)
           b == Meant(s) \o Meant(t)
           T2 == {CheckpointMessage(x) : x \in T}
           N == Len(s) + Len(t)
<1>1. s \o t \in Seq(T) /\ Len(s \o t) = N /\ N \in Nat /\ Len(s) \in Nat /\ Len(t) \in Nat
    OBVIOUS
<1>2. a \in Seq(T2) /\ Len(a) = N /\ \A i \in 1 .. N : a[i] = CheckpointMessage((s \o t)[i])
    BY <1>1, MeantIs
<1>3. Meant(s) \in Seq(T2) /\ Len(Meant(s)) = Len(s)
      /\ \A i \in 1 .. Len(s) : Meant(s)[i] = CheckpointMessage(s[i])
    BY MeantIs
<1>4. Meant(t) \in Seq(T2) /\ Len(Meant(t)) = Len(t)
      /\ \A i \in 1 .. Len(t) : Meant(t)[i] = CheckpointMessage(t[i])
    BY MeantIs
<1>5. b \in Seq(T2) /\ Len(b) = N
      /\ \A i \in 1 .. N : b[i] = IF i <= Len(s) THEN Meant(s)[i] ELSE Meant(t)[i - Len(s)]
  <2> DEFINE x == Meant(s)
             y == Meant(t)
  <2>1. x \in Seq(T2) /\ y \in Seq(T2) /\ Len(x) = Len(s) /\ Len(y) = Len(t)
      BY <1>3, <1>4
  <2> HIDE DEF x, y, T2
  <2>2. x \o y \in Seq(T2) /\ Len(x \o y) = Len(x) + Len(y)
        /\ \A i \in 1 .. Len(x) + Len(y) : (x \o y)[i] = IF i <= Len(x) THEN x[i] ELSE y[i - Len(x)]
      BY <2>1
  <2>3. b = x \o y
      BY DEF x, y
  <2> HIDE DEF b
  <2>4. b \in Seq(T2) /\ Len(b) = N
        /\ \A i \in 1 .. N : b[i] = IF i <= Len(s) THEN x[i] ELSE y[i - Len(s)]
      BY <2>1, <2>2, <2>3
  <2> QED
      BY <2>4 DEF x, y
<1>6. \A i \in 1 .. N : (s \o t)[i] = IF i <= Len(s) THEN s[i] ELSE t[i - Len(s)]
    OBVIOUS
<1>7. ASSUME NEW i \in 1 .. N PROVE a[i] = b[i]
  <2>1. CASE i <= Len(s)
    <3>1. i \in 1 .. Len(s)
        BY <1>1, <2>1
    <3> HIDE DEF a, b, N
    <3> QED
        BY <1>2, <1>3, <1>5, <1>6, <2>1, <3>1
  <2>2. CASE ~(i <= Len(s))
    <3>1. i - Len(s) \in 1 .. Len(t)
        BY <1>1, <2>2
    <3> HIDE DEF a, b, N
    <3> QED
        BY <1>2, <1>4, <1>5, <1>6, <2>2, <3>1
  <2> QED
      BY <2>1, <2>2
<1> HIDE DEF a, b, T2, N
<1>8. a = b
    BY <1>1, <1>2, <1>5, <1>7
<1> QED
    BY <1>8 DEF a, b

LEMMA MeantTail ==
    ASSUME NEW T, NEW s \in Seq(T), s # <<>>
    PROVE  /\ Meant(s) # <<>> /\ Head(Meant(s)) = CheckpointMessage(Head(s))
           /\ Meant(Tail(s)) = Tail(Meant(s))
<1> DEFINE a == Meant(Tail(s))
           b == Tail(Meant(s))
           T2 == {CheckpointMessage(x) : x \in T}
           N == Len(s) - 1
<1>1. Tail(s) \in Seq(T) /\ Len(Tail(s)) = N /\ N \in Nat /\ Len(s) \in Nat /\ Len(s) > 0
  <2>1. Len(s) \in Nat /\ Len(s) # 0
      OBVIOUS
  <2>2. Tail(s) \in Seq(T) /\ Len(Tail(s)) = Len(s) - 1
      BY HeadTailProperties
  <2> QED
      BY <2>1, <2>2
<1>2. a \in Seq(T2) /\ Len(a) = N /\ \A i \in 1 .. N : a[i] = CheckpointMessage(Tail(s)[i])
    BY <1>1, MeantIs, Zenon
<1>3. Meant(s) \in Seq(T2) /\ Len(Meant(s)) = Len(s)
      /\ \A i \in 1 .. Len(s) : Meant(s)[i] = CheckpointMessage(s[i])
    BY MeantIs
<1>4. Meant(s) # <<>>
    BY <1>1, <1>3
<1>5. Head(Meant(s)) = CheckpointMessage(Head(s))
  <2>1. Head(Meant(s)) = Meant(s)[1] /\ Head(s) = s[1] /\ 1 \in 1 .. Len(s)
      BY <1>1, <1>3, <1>4
  <2> QED
      BY <1>3, <2>1
<1>6. b \in Seq(T2) /\ Len(b) = N /\ \A i \in 1 .. N : b[i] = Meant(s)[i + 1]
    BY <1>1, <1>3, <1>4
<1>7. \A i \in 1 .. N : Tail(s)[i] = s[i + 1] /\ i + 1 \in 1 .. Len(s)
    BY <1>1
<1> HIDE DEF a, b, T2, N
<1>8. \A i \in 1 .. N : a[i] = b[i]
    BY <1>2, <1>3, <1>6, <1>7
<1>9. a = b
    BY <1>1, <1>2, <1>6, <1>8
<1> QED
    BY <1>4, <1>5, <1>9 DEF a, b

LEMMA BNodeIs ==
    ASSUME NEW i, NEW r, NEW rs, NEW o, NEW b, NEW s
    PROVE  LET nd == BNode(i, r, rs, o, b, s)
           IN  /\ nd.input = i /\ nd.round = r /\ nd.rs = rs /\ nd.out = o /\ nd.blocked = b
               /\ nd.sent = s
               /\ \A x : [nd EXCEPT !.round = x] = BNode(i, x, rs, o, b, s)
               /\ \A x : [nd EXCEPT !.rs = x] = BNode(i, r, x, o, b, s)
               /\ \A x : [nd EXCEPT !.out = x] = BNode(i, r, rs, x, b, s)
               /\ \A x : [nd EXCEPT !.blocked = x] = BNode(i, r, rs, o, x, s)
               /\ \A x : [nd EXCEPT !.sent = x] = BNode(i, r, rs, o, b, x)
BY DEF BNode

LEMMA AbsIs ==
    ASSUME NEW nd
    PROVE  /\ Abs(nd).input = InputOf(nd.value) /\ Abs(nd).round = nd.round
           /\ Abs(nd).rs = RsOf(nd.levels) /\ Abs(nd).out = Len(nd.out)
           /\ Abs(nd).blocked = nd.blocked /\ Abs(nd).sent = Meant(nd.sent)
BY BNodeIs DEF Abs

LEMMA CheckpointNodeIs ==
    ASSUME NEW nd
    PROVE  /\ CheckpointNode(nd) = BNode(InputOf(nd.value), nd.round, RsOf(nd.levels), Len(nd.out),
                                         nd.blocked, <<>>)
           /\ nd.sent = <<>> => CheckpointNode(nd) = Abs(nd)
<1>1. CheckpointNode(nd) = BNode(InputOf(nd.value), nd.round, RsOf(nd.levels), Len(nd.out),
                                 nd.blocked, <<>>)
    BY DEF CheckpointNode, BNode, InputOf, RsOf, RsAt, StateAt
<1> QED
    BY <1>1, MeantNothing DEF Abs

\* Changing a node's record changes BinAA's.
LEMMA AbsOfANode ==
    ASSUME NEW v, NEW r, NEW levels, NEW o, NEW b, NEW s
    PROVE  Abs(ANode(v, r, levels, o, b, s))
             = BNode(InputOf(v), r, RsOf(levels), Len(o), b, Meant(s))
BY DEF Abs, ANode

LEMMA NodeChanges ==
    ASSUME NEW nd, NodeOK(nd), NEW x
    PROVE  /\ [nd EXCEPT !.levels = x] = ANode(nd.value, nd.round, x, nd.out, nd.blocked, nd.sent)
           /\ [nd EXCEPT !.round = x] = ANode(nd.value, x, nd.levels, nd.out, nd.blocked, nd.sent)
           /\ [nd EXCEPT !.out = x] = ANode(nd.value, nd.round, nd.levels, x, nd.blocked, nd.sent)
           /\ [nd EXCEPT !.blocked = x] = ANode(nd.value, nd.round, nd.levels, nd.out, x, nd.sent)
           /\ [nd EXCEPT !.sent = x] = ANode(nd.value, nd.round, nd.levels, nd.out, nd.blocked, x)
BY DEF NodeOK, ANode

LEMMA AbsChanges ==
    ASSUME NEW nd, NodeOK(nd), NEW x
    PROVE  /\ Abs([nd EXCEPT !.levels = x]) = [Abs(nd) EXCEPT !.rs = RsOf(x)]
           /\ Abs([nd EXCEPT !.round = x]) = [Abs(nd) EXCEPT !.round = x]
           /\ Abs([nd EXCEPT !.out = x]) = [Abs(nd) EXCEPT !.out = Len(x)]
           /\ Abs([nd EXCEPT !.blocked = x]) = [Abs(nd) EXCEPT !.blocked = x]
           /\ Abs([nd EXCEPT !.sent = x]) = [Abs(nd) EXCEPT !.sent = Meant(x)]
<1> DEFINE i == InputOf(nd.value)
           rs == RsOf(nd.levels)
           o == Len(nd.out)
           s == Meant(nd.sent)
<1>1. Abs(nd) = BNode(i, nd.round, rs, o, nd.blocked, s)
    BY DEF Abs
<1>2. Abs([nd EXCEPT !.levels = x]) = BNode(i, nd.round, RsOf(x), o, nd.blocked, s)
  <2>1. [nd EXCEPT !.levels = x] = ANode(nd.value, nd.round, x, nd.out, nd.blocked, nd.sent)
      BY NodeChanges
  <2> QED
      BY <2>1, AbsOfANode
<1>3. Abs([nd EXCEPT !.round = x]) = BNode(i, x, rs, o, nd.blocked, s)
  <2>1. [nd EXCEPT !.round = x] = ANode(nd.value, x, nd.levels, nd.out, nd.blocked, nd.sent)
      BY NodeChanges
  <2> QED
      BY <2>1, AbsOfANode
<1>4. Abs([nd EXCEPT !.out = x]) = BNode(i, nd.round, rs, Len(x), nd.blocked, s)
  <2>1. [nd EXCEPT !.out = x] = ANode(nd.value, nd.round, nd.levels, x, nd.blocked, nd.sent)
      BY NodeChanges
  <2> QED
      BY <2>1, AbsOfANode
<1>5. Abs([nd EXCEPT !.blocked = x]) = BNode(i, nd.round, rs, o, x, s)
  <2>1. [nd EXCEPT !.blocked = x] = ANode(nd.value, nd.round, nd.levels, nd.out, x, nd.sent)
      BY NodeChanges
  <2> QED
      BY <2>1, AbsOfANode
<1>6. Abs([nd EXCEPT !.sent = x]) = BNode(i, nd.round, rs, o, nd.blocked, Meant(x))
  <2>1. [nd EXCEPT !.sent = x] = ANode(nd.value, nd.round, nd.levels, nd.out, nd.blocked, x)
      BY NodeChanges
  <2> QED
      BY <2>1, AbsOfANode
<1> HIDE DEF i, rs, o, s
<1> QED
    BY <1>1, <1>2, <1>3, <1>4, <1>5, <1>6, BNodeIs
-----------------------------------------------------------------------------
(* Hearing, as BinAA has it.                                               *)

LEMMA RsOfIs ==
    ASSUME NEW levels \in [Levels -> Tilings]
    PROVE  /\ RsOf(levels) \in [Checkpoints -> [0 .. Rounds -> RoundState]]
           /\ \A c \in Checkpoints : RsOf(levels)[c] = RsAt(levels, c)
BY RsIs, CheckpointsAre DEF RsOf

\* Handlers depend on a node's record, a message's round and what it says.
LEMMA AbsHears ==
    ASSUME NEW V \in SUBSET Chosen, Parted(V), NEW nd, NodeOK(nd), Uniform(V, nd.levels),
           NEW heard, EchosOK(V, heard), NEW r \in 0 .. Rounds, NEW q \in Node,
           NEW out, NodeOK(out.nd), out.nd = [nd EXCEPT !.levels = out.nd.levels],
           EchosOK(V, out.echo1), EchosOK(V, out.echo2), AllHear(nd, heard, r, q, out),
           NEW m, m.round = r, m.vals = Voices(heard), NEW res, res = PerCheckpoint!AddEchoes(Abs(nd), m, q)
    PROVE  /\ res.nd = Abs(out.nd) /\ res.echo1 = Voices(out.echo1)
           /\ res.echo2 = Voices(out.echo2)
<1> DEFINE a == Abs(nd)
           D == {d \in Checkpoints : Tells(heard, d)}
           h(c) == HearEcho(RsAt(nd.levels, c)[r], Word(heard, c), q, MinThreshold, HighThreshold)
           cp == [c \in D |-> h(c)]
           f1 == [c \in D |-> h(c).echo1]
           f2 == [c \in D |-> h(c).echo2]
           rs == [c \in Checkpoints |-> IF c \in D THEN [a.rs[c] EXCEPT ![r] = h(c).rs] ELSE a.rs[c]]
           e1 == [c \in {d \in D : f1[d] # NoVal} |-> f1[c]]
           e2 == [c \in {d \in D : f2[d] # NoVal} |-> f2[c]]
<1>1. /\ V \in Camps /\ nd.levels \in [Levels -> Tilings] /\ out.nd.levels \in [Levels -> Tilings]
      /\ Even(V, heard) /\ Even(V, out.echo1) /\ Even(V, out.echo2)
    BY ChosenAre, NodeIs DEF EchosOK
<1>2. /\ a.rs = RsOf(nd.levels) /\ \A c \in Checkpoints : a.rs[c] = RsAt(nd.levels, c)
      /\ \A c \in Checkpoints : RsAt(nd.levels, c) \in [0 .. Rounds -> RoundState]
    BY <1>1, AbsIs, RsOfIs
<1>3. DOMAIN m.vals = D /\ \A c \in D : m.vals[c] = Word(heard, c)
    BY VoicesIs
<1>4. \A c \in D : Tells(heard, c) /\ c \in Place /\ c \in Checkpoints /\ Word(heard, c) \in Nat
    BY <1>1, CheckpointsAre, WordIs, ValuesAre
<1>5. ASSUME NEW c \in D PROVE PerCheckpoint!CpEcho(a, c, r, m.vals[c], q) = h(c)
  <2> DEFINE st == RsAt(nd.levels, c)[r]
             v == Word(heard, c)
  <2>1. c \in Checkpoints /\ v \in Nat
      BY <1>4
  <2>2. a.rs[c][r] = st /\ st \in RoundState /\ m.vals[c] = v
      BY <1>2, <1>3, <2>1
  <2>3. v \in Int
      BY <2>1
  <2> HIDE DEF st, v, a
  <2>4. PerCheckpoint!CpEcho(a, c, r, m.vals[c], q)
          = PerCheckpoint!HearEcho(st, v, q, PerCheckpoint!MinThreshold, PerCheckpoint!HighThreshold)
      BY <2>2 DEF PerCheckpoint!CpEcho
  <2>5. PerCheckpoint!CpEcho(a, c, r, m.vals[c], q) = HearEcho(st, v, q, MinThreshold, HighThreshold)
      BY <2>2, <2>3, <2>4, SameHearing
  <2> QED
      BY <2>5 DEF st, v
<1>6. \A c \in D : h(c).echo1 \in Nat \union {NoVal} /\ h(c).echo2 \in Nat \union {NoVal}
  <2> SUFFICES ASSUME NEW c \in D
               PROVE  h(c).echo1 \in Nat \union {NoVal} /\ h(c).echo2 \in Nat \union {NoVal}
      OBVIOUS
  <2> DEFINE st == RsAt(nd.levels, c)[r]
             v == Word(heard, c)
             x == HearEcho(st, v, q, MinThreshold, HighThreshold)
  <2>0. c \in Checkpoints /\ v \in Nat
      BY <1>4
  <2>3. st \in RoundState
      BY <1>2, <2>0
  <2>4. v \in Int
      BY <2>0
  <2> HIDE DEF st, v
  <2>2. x.echo1 \in {v, NoVal} /\ x.echo2 \in {v, NoVal}
      BY <2>3, <2>4, HearEchoIs
  <2> QED
      BY <2>0, <2>2 DEF st, v
<1>7. \A c \in Place : PlaceHears(RsAt(nd.levels, c), heard, r, q, c, RsAt(out.nd.levels, c),
                                  out.echo1, out.echo2)
    BY DEF AllHear
<1>8. \A c \in D : /\ RsAt(out.nd.levels, c) = [RsAt(nd.levels, c) EXCEPT ![r] = h(c).rs]
                   /\ \A w : Utters(out.echo1, c, w) <=> w # NoVal /\ h(c).echo1 = w
                   /\ \A w : Utters(out.echo2, c, w) <=> w # NoVal /\ h(c).echo2 = w
    BY <1>4, <1>7 DEF PlaceHears
<1>9. \A c \in Checkpoints : c \notin D =>
         /\ RsAt(out.nd.levels, c) = RsAt(nd.levels, c)
         /\ \A w : ~Utters(out.echo1, c, w) /\ ~Utters(out.echo2, c, w)
    BY <1>7, CheckpointsAre DEF PlaceHears
<1>10. res = [nd |-> [a EXCEPT !.rs = rs], echo1 |-> e1, echo2 |-> e2]
  <2> DEFINE g == [c \in DOMAIN m.vals |-> PerCheckpoint!CpEcho(a, c, m.round, m.vals[c], q)]
  <2>1. g = cp
      BY <1>3, <1>5
  <2>2. DOMAIN cp = D /\ \A c \in D : cp[c] = h(c)
      OBVIOUS
  <2> HIDE DEF g, cp, h
  <2>3. /\ [c \in DOMAIN g |-> g[c].echo1] = f1 /\ [c \in DOMAIN g |-> g[c].echo2] = f2
        /\ DOMAIN g = D
      BY <2>1, <2>2
  <2>4. [c \in Checkpoints |-> IF c \in DOMAIN g THEN [a.rs[c] EXCEPT ![m.round] = g[c].rs]
                               ELSE a.rs[c]] = rs
      BY <2>1, <2>2
  <2>5. PerCheckpoint!NoVal = NoVal
      BY DEF PerCheckpoint!NoVal, NoVal
  <2> DEFINE S(f) == [c \in {d \in DOMAIN g : f[d] # PerCheckpoint!NoVal} |-> f[c]]
             R == [c \in Checkpoints |-> IF c \in DOMAIN g THEN [a.rs[c] EXCEPT ![m.round] = g[c].rs]
                                         ELSE a.rs[c]]
             g1 == [c \in DOMAIN g |-> g[c].echo1]
             g2 == [c \in DOMAIN g |-> g[c].echo2]
  <2>6. res = [nd |-> [a EXCEPT !.rs = R], echo1 |-> S(g1), echo2 |-> S(g2)]
      BY DEF PerCheckpoint!AddEchoes, g, Abs, BNode
  <2>7. g1 = f1 /\ g2 = f2 /\ DOMAIN g = D /\ R = rs
      BY <2>3, <2>4
  <2> HIDE DEF R, f1, f2, g1, g2, rs
  <2>8. S(g1) = e1 /\ S(g2) = e2
      BY <2>5, <2>7
  <2> HIDE DEF S, e1, e2
  <2> QED
      BY <2>6, <2>7, <2>8
<1> HIDE DEF h, a
<1>11. rs = RsOf(out.nd.levels)
  <2>1. \A c \in Checkpoints : rs[c] = RsAt(out.nd.levels, c)
      BY <1>2, <1>8, <1>9
  <2> QED
      BY <2>1 DEF RsOf
<1>12. [a EXCEPT !.rs = rs] = Abs(out.nd)
  <2> DEFINE x == out.nd.levels
  <2>1. Abs([nd EXCEPT !.levels = x]) = [Abs(nd) EXCEPT !.rs = RsOf(x)]
      BY AbsChanges
  <2> QED
      BY <1>11, <2>1 DEF a
<1>13. e1 = Voices(out.echo1)
  <2> DEFINE E == {d \in D : f1[d] # NoVal}
             G == {d \in Checkpoints : Tells(out.echo1, d)}
  <2>1. \A d \in Checkpoints : d \in G => d \in D /\ f1[d] # NoVal
      BY <1>8, <1>9 DEF Tells
  <2>2. \A d \in E : d \in G /\ Word(out.echo1, d) = f1[d]
    <3> SUFFICES ASSUME NEW d \in E PROVE d \in G /\ Word(out.echo1, d) = f1[d]
        OBVIOUS
    <3>1. h(d).echo1 \in Nat /\ f1[d] = h(d).echo1 /\ d \in Place /\ d \in Checkpoints
        BY <1>4, <1>6
    <3>2. Utters(out.echo1, d, h(d).echo1)
        BY <1>8, <3>1 DEF NoVal
    <3>3. Tells(out.echo1, d)
        BY <3>1, <3>2 DEF Tells
    <3> QED
        BY <1>1, <3>1, <3>2, <3>3, WordIs
  <2>3. E = G
      BY <1>4, <2>1, <2>2
  <2> HIDE DEF E, f1
  <2>4. [c \in E |-> f1[c]] = [c \in E |-> Word(out.echo1, c)]
      BY <2>2
  <2> QED
      BY <2>3, <2>4 DEF Voices, E
<1>14. e2 = Voices(out.echo2)
  <2> DEFINE E == {d \in D : f2[d] # NoVal}
             G == {d \in Checkpoints : Tells(out.echo2, d)}
  <2>1. \A d \in Checkpoints : d \in G => d \in D /\ f2[d] # NoVal
      BY <1>8, <1>9 DEF Tells
  <2>2. \A d \in E : d \in G /\ Word(out.echo2, d) = f2[d]
    <3> SUFFICES ASSUME NEW d \in E PROVE d \in G /\ Word(out.echo2, d) = f2[d]
        OBVIOUS
    <3>1. h(d).echo2 \in Nat /\ f2[d] = h(d).echo2 /\ d \in Place /\ d \in Checkpoints
        BY <1>4, <1>6
    <3>2. Utters(out.echo2, d, h(d).echo2)
        BY <1>8, <3>1 DEF NoVal
    <3>3. Tells(out.echo2, d)
        BY <3>1, <3>2 DEF Tells
    <3> QED
        BY <1>1, <3>1, <3>2, <3>3, WordIs
  <2>3. E = G
      BY <1>4, <2>1, <2>2
  <2> HIDE DEF E, f2
  <2>4. [c \in E |-> f2[c]] = [c \in E |-> Word(out.echo2, c)]
      BY <2>2
  <2> QED
      BY <2>3, <2>4 DEF Voices, E
<1> HIDE DEF rs, e1, e2
<1> QED
    BY <1>10, <1>12, <1>13, <1>14

LEMMA AbsHears2 ==
    ASSUME NEW V \in SUBSET Chosen, NEW nd, NodeOK(nd), Uniform(V, nd.levels),
           NEW heard, EchosOK(V, heard), NEW r \in 0 .. Rounds, NEW q \in Node,
           NEW out, NodeOK(out), out = [nd EXCEPT !.levels = out.levels],
           AllHear2(nd, heard, r, q, out),
           NEW m, m.round = r, m.vals = Voices(heard)
    PROVE  PerCheckpoint!AddEchoes2(Abs(nd), m, q) = Abs(out)
<1> DEFINE a == Abs(nd)
           D == {d \in Checkpoints : Tells(heard, d)}
           h(c) == HearEcho2(RsAt(nd.levels, c)[r], Word(heard, c), q, HighThreshold)
           rs == [c \in Checkpoints |-> IF c \in D THEN [a.rs[c] EXCEPT ![r] = h(c)] ELSE a.rs[c]]
<1>1. nd.levels \in [Levels -> Tilings] /\ Even(V, heard)
    BY NodeIs DEF EchosOK
<1>2. /\ a.rs = RsOf(nd.levels) /\ \A c \in Checkpoints : a.rs[c] = RsAt(nd.levels, c)
      /\ \A c \in Checkpoints : RsAt(nd.levels, c) \in [0 .. Rounds -> RoundState]
    BY <1>1, AbsIs, RsOfIs
<1>3. DOMAIN m.vals = D /\ \A c \in D : m.vals[c] = Word(heard, c)
    BY VoicesIs
<1>4. \A c \in D : Tells(heard, c) /\ c \in Place /\ c \in Checkpoints /\ Word(heard, c) \in Nat
    BY <1>1, CheckpointsAre, WordIs, ValuesAre
<1>5. ASSUME NEW c \in D PROVE PerCheckpoint!CpEcho2(a, c, r, m.vals[c], q) = h(c)
  <2> DEFINE st == RsAt(nd.levels, c)[r]
             v == Word(heard, c)
  <2>1. c \in Checkpoints /\ v \in Nat
      BY <1>4
  <2>2. a.rs[c][r] = st /\ st \in RoundState /\ m.vals[c] = v
      BY <1>2, <1>3, <2>1
  <2>3. v \in Int
      BY <2>1
  <2> HIDE DEF st, v, a
  <2>4. PerCheckpoint!CpEcho2(a, c, r, m.vals[c], q)
          = PerCheckpoint!HearEcho2(st, v, q, PerCheckpoint!HighThreshold)
      BY <2>2 DEF PerCheckpoint!CpEcho2
  <2>5. PerCheckpoint!CpEcho2(a, c, r, m.vals[c], q) = HearEcho2(st, v, q, HighThreshold)
      BY <2>2, <2>3, <2>4, SameHearing
  <2> QED
      BY <2>5 DEF st, v
<1>7. \A c \in Checkpoints :
         RsAt(out.levels, c) = IF c \in D THEN [RsAt(nd.levels, c) EXCEPT ![r] = h(c)]
                               ELSE RsAt(nd.levels, c)
    BY CheckpointsAre DEF AllHear2, PlaceHears2
<1> HIDE DEF h
<1>10. PerCheckpoint!AddEchoes2(a, m, q) = [a EXCEPT !.rs = rs]
  <2> DEFINE R == [c \in Checkpoints |->
                     IF c \in DOMAIN m.vals
                     THEN [a.rs[c] EXCEPT ![m.round] = PerCheckpoint!CpEcho2(a, c, m.round, m.vals[c], q)]
                     ELSE a.rs[c]]
  <2>1. R = rs
      BY <1>3, <1>5
  <2>2. PerCheckpoint!AddEchoes2(a, m, q) = [a EXCEPT !.rs = R]
      BY DEF PerCheckpoint!AddEchoes2, Abs, BNode
  <2> QED
      BY <2>1, <2>2
<1> HIDE DEF a
<1>11. rs = RsOf(out.levels)
  <2>1. \A c \in Checkpoints : rs[c] = RsAt(out.levels, c)
      BY <1>2, <1>7
  <2> QED
      BY <2>1 DEF RsOf
<1> HIDE DEF rs
<1> DEFINE x == out.levels
<1>12. Abs([nd EXCEPT !.levels = x]) = [Abs(nd) EXCEPT !.rs = RsOf(x)]
    BY AbsChanges
<1> QED
    BY <1>10, <1>11, <1>12 DEF a

\* A round is over everywhere when it is over at the checkpoints.
LEMMA RoundOver ==
    ASSUME NEW V \in SUBSET Chosen, Parted(V), NEW nd, NodeOK(nd), Uniform(V, nd.levels),
           NEW r \in 0 .. Rounds
    PROVE  /\ TerminatedRound(nd, r) <=> \A c \in Place : Terminated(RsAt(nd.levels, c)[r])
           /\ TerminatedRound(nd, r) <=> PerCheckpoint!TerminatedRound(Abs(nd), r)
<1>1. /\ V \in Camps /\ nd.levels \in [Levels -> Tilings]
      /\ \A l \in Levels : Tiled(nd.levels[l])
    BY ChosenAre, NodeIs
<1>2. PerCheckpoint!TerminatedRound(Abs(nd), r)
        <=> \A c \in Checkpoints : Terminated(RsAt(nd.levels, c)[r])
  <2>1. Abs(nd).rs = RsOf(nd.levels) /\ \A c \in Checkpoints : RsOf(nd.levels)[c] = RsAt(nd.levels, c)
      BY <1>1, AbsIs, RsOfIs
  <2> QED
      BY <2>1 DEF PerCheckpoint!TerminatedRound, PerCheckpoint!Terminated, PerCheckpoint!NoVal,
                  Terminated, NoVal
<1>3. ASSUME TerminatedRound(nd, r), NEW c \in Place PROVE Terminated(RsAt(nd.levels, c)[r])
  <2>1. c[1] \in Levels /\ c[2] \in Point
      BY PlaceIs
  <2>2. PICK i \in DOMAIN nd.levels[c[1]] : Covers(nd.levels[c[1]][i], c[2])
      BY <1>1, <2>1, CoveredOnce
  <2>3. RsAt(nd.levels, c) = nd.levels[c[1]][i].state
      BY <1>1, <2>1, <2>2, AtIs DEF RsAt
  <2> QED
      BY <1>3, <2>1, <2>2, <2>3 DEF TerminatedRound, LevelTerminated
<1>4. ASSUME \A c \in Checkpoints : Terminated(RsAt(nd.levels, c)[r]), NEW c \in Place
      PROVE  Terminated(RsAt(nd.levels, c)[r])
  <2>1. PICK d \in Checkpoints : Kind(V, d) = Kind(V, c)
      BY PlaceIs, KindAtCheckpoint
  <2>2. RsAt(nd.levels, d) = RsAt(nd.levels, c)
      BY <2>1, CheckpointsAre DEF Uniform
  <2> QED
      BY <1>4, <2>2
<1>5. ASSUME \A c \in Place : Terminated(RsAt(nd.levels, c)[r]) PROVE TerminatedRound(nd, r)
  <2>1. ASSUME NEW l \in Levels, NEW i \in DOMAIN nd.levels[l]
        PROVE  Terminated(nd.levels[l][i].state[r])
    <3> DEFINE ints == nd.levels[l]
               y == ints[i].start
    <3>1. Tiled(ints) /\ i \in DOMAIN ints
        BY <1>1, <2>1
    <3> HIDE DEF ints
    <3>2. y \in Point /\ Covers(ints[i], y)
        BY <3>1, StartIs
    <3>3. At(ints, y) = ints[i]
        BY <3>1, <3>2, AtIs
    <3>4. <<l, y>> \in Place /\ <<l, y>>[1] = l /\ <<l, y>>[2] = y
        BY <2>1, <3>2, PlaceIs
    <3>5. RsAt(nd.levels, <<l, y>>) = ints[i].state
        BY <3>3, <3>4 DEF RsAt, StateAt, ints
    <3> QED
        BY <1>5, <3>4, <3>5 DEF ints
  <2> QED
      BY <2>1 DEF TerminatedRound, LevelTerminated
<1> QED
    BY <1>2, <1>3, <1>4, <1>5, CheckpointsAre
-----------------------------------------------------------------------------
(* The handlers, as BinAA has them.                                        *)

SentOK(V, s) == \A i \in DOMAIN s : EchosOK(V, Expanded(s[i].echos))

\* A result is aggregated from levels whose last round is over.
Judged(V, x) ==
    \E levels \in [Levels -> Tilings], v \in V :
        /\ Uniform(V, levels) /\ \A c \in Place : Terminated(RsAt(levels, c)[Rounds])
        /\ x = Aggregate(levels, v)

OutOK(V, o) == \A i \in DOMAIN o : Judged(V, o[i])

\* A node that agrees on places of one kind alike, and has said so.
Good(V, nd) ==
    /\ NodeOK(nd) /\ nd.value \in V /\ Uniform(V, nd.levels)
    /\ SentOK(V, nd.sent) /\ OutOK(V, nd.out)

LEMMA SentMore ==
    ASSUME NEW V, NEW T, NEW s \in Seq(T), SentOK(V, s), NEW m \in T, EchosOK(V, Expanded(m.echos))
    PROVE  SentOK(V, Append(s, m))
<1>1. \A i \in DOMAIN Append(s, m) : Append(s, m)[i] = m \/ (i \in DOMAIN s /\ Append(s, m)[i] = s[i])
    OBVIOUS
<1> QED
    BY <1>1 DEF SentOK

LEMMA BroadcastMeans ==
    ASSUME NEW V \in SUBSET Chosen, Parted(V), NEW nd, Good(V, nd), NEW kind \in {"ECHO1", "ECHO2"},
           NEW r \in 0 .. Rounds, NEW echos, EchosOK(V, echos), NEW new,
           new = Broadcast(nd, kind, r, echos)
    PROVE  /\ Good(V, new) /\ new.levels = nd.levels /\ new.round = nd.round /\ new.value = nd.value
           /\ Abs(new) = PerCheckpoint!Broadcast(Abs(nd), kind, r, Voices(echos))
<1> DEFINE m == Message(kind, r, echos)
           s == Append(nd.sent, m)
<1>1. NodeOK(nd) /\ nd.value \in V /\ Uniform(V, nd.levels) /\ SentOK(V, nd.sent) /\ OutOK(V, nd.out)
      /\ nd.sent \in Seq(Messages) /\ echos \in Sayings
    BY NodeIs DEF Good, EchosOK, EdgedSays
<1>2. /\ m \in Messages /\ EchosOK(V, Expanded(m.echos))
      /\ CheckpointMessage(m) = PerCheckpoint!Msg(kind, r, Voices(echos))
    BY <1>1, CoalescedMeans, MessageIs
<1>3. new = [nd EXCEPT !.sent = s] /\ NodeOK(new)
    BY <1>1, BroadcastAnyIs DEF Broadcast
<1> HIDE DEF m
<1>4. Meant(s) = Append(Meant(nd.sent), CheckpointMessage(m)) /\ SentOK(V, s)
    BY <1>1, <1>2, MeantAppend, SentMore
<1> HIDE DEF s
<1>5. new.value = nd.value /\ new.levels = nd.levels /\ new.round = nd.round /\ new.sent = s
      /\ new.out = nd.out
    BY <1>1, <1>3, FieldsStay
<1>6. Abs(new) = [Abs(nd) EXCEPT !.sent = Append(Abs(nd).sent, CheckpointMessage(m))]
  <2>1. Abs([nd EXCEPT !.sent = s]) = [Abs(nd) EXCEPT !.sent = Meant(s)]
      BY <1>1, AbsChanges
  <2> QED
      BY <1>3, <1>4, <2>1, AbsIs
<1>7. Abs(new) = PerCheckpoint!Broadcast(Abs(nd), kind, r, Voices(echos))
    BY <1>2, <1>6 DEF PerCheckpoint!Broadcast
<1> QED
    BY <1>1, <1>3, <1>4, <1>5, <1>7 DEF Good

LEMMA AmplifiedMeans ==
    ASSUME NEW V \in SUBSET Chosen, Parted(V), NEW res, Good(V, res.nd), NEW r \in 0 .. Rounds,
           EchosOK(V, res.echo1), Full(res.echo1), NEW new, new = Amplified(res, r)
    PROVE  /\ Good(V, new) /\ new.levels = res.nd.levels /\ new.round = res.nd.round
           /\ new.value = res.nd.value
           /\ Abs(new) = PerCheckpoint!AmplifyEcho(Abs(res.nd), r, Voices(res.echo1))
<1>1. Voices(res.echo1) = <<>> <=> DOMAIN res.echo1 = {}
    BY NoVoices
<1>2. CASE DOMAIN res.echo1 = {}
  <2>1. new = res.nd
      BY <1>2 DEF Amplified, BroadcastAny
  <2> QED
      BY <1>1, <1>2, <2>1 DEF PerCheckpoint!AmplifyEcho
<1>3. CASE DOMAIN res.echo1 # {}
  <2>1. new = Broadcast(res.nd, "ECHO1", r, res.echo1)
      BY <1>3 DEF Amplified, BroadcastAny
  <2>2. /\ Good(V, new) /\ new.levels = res.nd.levels /\ new.round = res.nd.round
           /\ new.value = res.nd.value
        /\ Abs(new) = PerCheckpoint!Broadcast(Abs(res.nd), "ECHO1", r, Voices(res.echo1))
      BY <2>1, BroadcastMeans
  <2> QED
      BY <1>1, <1>3, <2>2 DEF PerCheckpoint!AmplifyEcho
<1> QED
    BY <1>2, <1>3

\* What a node makes of what it hears.
HeardWell(V, nd, out) ==
    /\ Good(V, out.nd) /\ out.nd.round = nd.round /\ out.nd.value = nd.value
    /\ EchosOK(V, out.echo1) /\ EchosOK(V, out.echo2) /\ Full(out.echo1) /\ Full(out.echo2)
    /\ \A k \in 0 .. Rounds : StaysOver(nd.levels, out.nd.levels, k)

LEMMA HearsMeans ==
    ASSUME Apart, NEW V \in SUBSET Chosen, Parted(V), NEW nd, Good(V, nd), NEW q \in Node,
           NEW m \in Messages, EchosOK(V, Expanded(m.echos)), NEW out, out = AddEchoes(nd, m, q),
           NEW a, a.round = m.round, a.vals = Voices(Expanded(m.echos)),
           NEW res, res = PerCheckpoint!AddEchoes(Abs(nd), a, q)
    PROVE  /\ HeardWell(V, nd, out)
           /\ res.nd = Abs(out.nd) /\ res.echo1 = Voices(out.echo1)
           /\ res.echo2 = Voices(out.echo2)
<1> DEFINE heard == Expanded(m.echos)
           r == m.round
<1>1. /\ NodeOK(nd) /\ nd.value \in V /\ Uniform(V, nd.levels) /\ SentOK(V, nd.sent) /\ OutOK(V, nd.out)
      /\ V \in Camps /\ r \in 0 .. Rounds
    BY ChosenAre DEF Good, Messages
<1>2. out = HearLevels(nd, heard, r, q)
    BY DEF AddEchoes
<1> HIDE DEF heard, r
<1>3. EchosOK(V, heard)
    BY DEF heard
<1>4. /\ NodeOK(out.nd) /\ out.nd = [nd EXCEPT !.levels = out.nd.levels]
      /\ Uniform(V, out.nd.levels)
      /\ EchosOK(V, out.echo1) /\ EchosOK(V, out.echo2)
      /\ Full(out.echo1) /\ Full(out.echo2)
      /\ AllHear(nd, heard, r, q, out)
      /\ \A k \in 0 .. Rounds : StaysOver(nd.levels, out.nd.levels, k)
    BY <1>1, <1>2, <1>3, UniformHears
<1>5. a.round = r /\ a.vals = Voices(heard)
    BY DEF r, heard
<1>6. res.nd = Abs(out.nd) /\ res.echo1 = Voices(out.echo1) /\ res.echo2 = Voices(out.echo2)
    BY <1>1, <1>3, <1>4, <1>5, AbsHears
<1> DEFINE x == out.nd.levels
<1>7. out.nd = [nd EXCEPT !.levels = x]
    BY <1>4
<1> HIDE DEF x
<1>8. out.nd.value = nd.value /\ out.nd.round = nd.round /\ out.nd.sent = nd.sent
      /\ out.nd.out = nd.out
    BY <1>1, <1>7, FieldsStay
<1>9. HeardWell(V, nd, out)
    BY <1>1, <1>4, <1>8 DEF HeardWell, Good
<1> QED
    BY <1>6, <1>9

LEMMA Hears2Means ==
    ASSUME NEW V \in SUBSET Chosen, NEW nd, Good(V, nd), NEW q \in Node,
           NEW m \in Messages, EchosOK(V, Expanded(m.echos)), NEW out, out = AddEchoes2(nd, m, q),
           NEW a, a.round = m.round, a.vals = Voices(Expanded(m.echos))
    PROVE  /\ Good(V, out) /\ out.round = nd.round /\ out.value = nd.value
           /\ \A k \in 0 .. Rounds : StaysOver(nd.levels, out.levels, k)
           /\ Abs(out) = PerCheckpoint!AddEchoes2(Abs(nd), a, q)
<1> DEFINE heard == Expanded(m.echos)
           r == m.round
<1>1. /\ NodeOK(nd) /\ nd.value \in V /\ Uniform(V, nd.levels) /\ SentOK(V, nd.sent) /\ OutOK(V, nd.out)
      /\ V \in Camps /\ r \in 0 .. Rounds
    BY ChosenAre DEF Good, Messages
<1>2. out = HearLevels2(nd, heard, r, q)
    BY DEF AddEchoes2
<1> HIDE DEF heard, r
<1>3. EchosOK(V, heard)
    BY DEF heard
<1>4. /\ NodeOK(out) /\ out = [nd EXCEPT !.levels = out.levels]
      /\ Uniform(V, out.levels) /\ AllHear2(nd, heard, r, q, out)
      /\ \A k \in 0 .. Rounds : StaysOver(nd.levels, out.levels, k)
    BY <1>1, <1>2, <1>3, UniformHears2
<1>5. a.round = r /\ a.vals = Voices(heard)
    BY DEF r, heard
<1>6. Abs(out) = PerCheckpoint!AddEchoes2(Abs(nd), a, q)
    BY <1>1, <1>3, <1>4, <1>5, AbsHears2
<1> DEFINE x == out.levels
<1>7. out = [nd EXCEPT !.levels = x]
    BY <1>4
<1> HIDE DEF x
<1>8. out.value = nd.value /\ out.round = nd.round /\ out.sent = nd.sent
      /\ out.out = nd.out
    BY <1>1, <1>7, FieldsStay
<1> QED
    BY <1>1, <1>4, <1>6, <1>8 DEF Good
-----------------------------------------------------------------------------
(* A round begins, or the result is sent.                                  *)

LEMMA BegunMeans ==
    ASSUME NEW V \in SUBSET Chosen, Parted(V), NEW nd, Good(V, nd), NEW r \in 0 .. Rounds,
           NEW p \in Node, NEW echos,
           \A c \in Place : \A x : Utters(echos, c, x) <=> x = StartAtPlace(nd.levels, r, nd.value, c),
           MayBegin(nd.levels, r, nd.value), Even(V, echos)
    PROVE  Voices(echos) = [c \in Checkpoints |-> PerCheckpoint!StartVal(Abs(nd), c, r)]
<1> DEFINE w(c) == StartAtPlace(nd.levels, r, nd.value, c)
<1>1. V \in Camps /\ Uniform(V, nd.levels) /\ nd.value \in V /\ nd.levels \in [Levels -> Tilings]
    BY ChosenAre DEF Good, Uniform
<1>2. \A c \in Checkpoints : c \in Place
    BY CheckpointsAre
<1>3. ASSUME NEW c \in Checkpoints
      PROVE  Tells(echos, c) /\ Word(echos, c) = w(c)
             /\ w(c) = PerCheckpoint!StartVal(Abs(nd), c, r)
  <2>1. w(c) \in Nat
      BY <1>1, <1>2, StartHeld, ValuesAre
  <2>2. Tells(echos, c)
      BY <1>2, <2>1 DEF Tells
  <2>3. Word(echos, c) = w(c)
      BY <1>2, <2>2, WordIs
  <2>4. Abs(nd).input[c] = Weighed(nd.value, c)
    <3>1. Abs(nd).input = InputOf(nd.value)
        BY AbsIs
    <3> QED
        BY <3>1 DEF InputOf
  <2>6. Abs(nd).rs[c] = RsAt(nd.levels, c)
    <3>1. RsOf(nd.levels)[c] = RsAt(nd.levels, c)
        BY <1>1, RsOfIs
    <3> QED
        BY <3>1, AbsIs
  <2>5. w(c) = PerCheckpoint!StartVal(Abs(nd), c, r)
      BY <2>4, <2>6 DEF PerCheckpoint!StartVal, StartAtPlace
  <2> QED
      BY <2>2, <2>3, <2>5
<1> HIDE DEF w
<1> QED
    BY <1>3 DEF Voices

LEMMA BeginMeans ==
    ASSUME Apart, NEW V \in SUBSET Chosen, Parted(V), NEW nd, Good(V, nd), NEW p \in Node,
           NEW r \in 0 .. Rounds, MayBegin(nd.levels, r, nd.value), NEW out, out = StartBaa(nd, p, r)
    PROVE  /\ Good(V, out) /\ out.round = r /\ out.value = nd.value
           /\ \A k \in 0 .. Rounds : k # r => StaysOver(nd.levels, out.levels, k)
           /\ Abs(out) = PerCheckpoint!StartBaa(Abs(nd), p, r)
<1> DEFINE begun == [l \in Levels |-> LevelStart(nd.levels[l], r, p, nd.value)]
           echos == [l \in Levels |-> begun[l].echo]
           levels == [l \in Levels |-> begun[l].ints]
           own == Message("ECHO1", r, echos)
           sent == Append(nd.sent, own)
           new == [nd EXCEPT !.round = r, !.levels = levels, !.sent = sent]
           res == AddEchoes(new, own, p)
           w(c) == StartAtPlace(nd.levels, r, nd.value, c)
<1>1. /\ V \in Camps /\ NodeOK(nd) /\ nd.value \in V /\ Uniform(V, nd.levels) /\ SentOK(V, nd.sent)
      /\ nd.sent \in Seq(Messages) /\ nd.levels \in [Levels -> Tilings] /\ ~(r > Rounds)
    BY ChosenAre, NodeIs, LevelAssumption DEF Good
<1>2. out = Amplified(res, r)
    BY <1>1 DEF StartBaa, Begin
<1>3. /\ levels = [l \in Levels |-> LevelStart(nd.levels[l], r, p, nd.value).ints]
      /\ echos = [l \in Levels |-> LevelStart(nd.levels[l], r, p, nd.value).echo]
    OBVIOUS
<1> HIDE DEF begun, echos, levels
<1> DEFINE u == nd.value
           old == nd.levels
<1>4. /\ Uniform(V, levels) /\ EchosOK(V, echos)
      /\ \A c \in Place : PlaceBegins(RsAt(old, c), StartAtPlace(old, r, u, c), r, p, c,
                                      RsAt(levels, c), echos)
  <2>1. Uniform(V, old) /\ u \in V /\ MayBegin(old, r, u)
      BY <1>1
  <2>2. /\ levels = [l \in Levels |-> LevelStart(old[l], r, p, u).ints]
        /\ echos = [l \in Levels |-> LevelStart(old[l], r, p, u).echo]
      BY <1>3
  <2> HIDE DEF old, u
  <2> QED
      BY <1>1, <2>1, <2>2, UniformStarts
<1>5. /\ own \in Messages /\ EchosOK(V, Expanded(own.echos))
      /\ Voices(Expanded(own.echos)) = Voices(echos)
      /\ CheckpointMessage(own) = PerCheckpoint!Msg("ECHO1", r, Voices(echos))
      /\ own.round = r
  <2>1. echos \in Sayings
      BY <1>4 DEF EchosOK, EdgedSays
  <2>2. own.round = r
      BY DEF Message
  <2> QED
      BY <1>4, <2>1, <2>2, CoalescedMeans, MessageIs
<1> DEFINE vals == [c \in Checkpoints |-> PerCheckpoint!StartVal(Abs(nd), c, r)]
<1>6. Voices(echos) = vals
  <2>1. \A c \in Place : \A x : Utters(echos, c, x) <=> x = StartAtPlace(nd.levels, r, nd.value, c)
      BY <1>4 DEF PlaceBegins
  <2> QED
      BY <1>1, <1>4, <2>1, BegunMeans DEF EchosOK
<1> HIDE DEF own
<1>7. Meant(sent) = Append(Meant(nd.sent), CheckpointMessage(own)) /\ SentOK(V, sent)
      /\ sent \in Seq(Messages)
    BY <1>1, <1>5, MeantAppend, SentMore
<1> HIDE DEF sent
<1>8. new = ANode(nd.value, r, levels, nd.out, nd.blocked, sent)
    BY <1>1, BegunNode
<1>9. Good(V, new) /\ new.levels = levels /\ new.round = r /\ new.value = nd.value
  <2>1. /\ nd.value \in {LowVal, HighVal} /\ (nd.out = <<>> \/ Len(nd.out) = 1)
        /\ nd.blocked \in BOOLEAN
      BY <1>1, NodeIs
  <2>2. r \in -1 .. Rounds + 1 /\ levels \in [Levels -> Tilings]
      BY <1>4, LevelAssumption DEF Uniform
  <2> DEFINE v == nd.value
             o == nd.out
             b == nd.blocked
  <2>3. new = ANode(v, r, levels, o, b, sent)
      BY <1>8
  <2> HIDE DEF new, v, o, b
  <2>4. NodeOK(new)
      BY <1>7, <2>1, <2>2, <2>3, ANodeIs DEF v, o, b
  <2>5. new.value = v /\ new.levels = levels /\ new.sent = sent /\ new.round = r /\ new.out = o
      BY <2>3 DEF ANode
  <2> QED
      BY <1>1, <1>4, <1>7, <2>4, <2>5 DEF Good, v, o
<1> DEFINE rs == [c \in Checkpoints |-> [Abs(nd).rs[c] EXCEPT ![r] = NewWithEcho(vals[c], p)]]
<1>10. RsOf(levels) = rs
  <2>1. /\ Abs(nd).rs = RsOf(nd.levels)
        /\ \A c \in Checkpoints : RsOf(nd.levels)[c] = RsAt(nd.levels, c)
      BY <1>1, AbsIs, RsOfIs
  <2>2. ASSUME NEW c \in Checkpoints
        PROVE  RsAt(levels, c) = [Abs(nd).rs[c] EXCEPT ![r] = NewWithEcho(vals[c], p)]
    <3>1. c \in Place
        BY CheckpointsAre
    <3>2. RsAt(levels, c) = [RsAt(old, c) EXCEPT ![r] = NewWithEcho(w(c), p)]
          /\ \A x : Utters(echos, c, x) <=> x = w(c)
        BY <1>4, <3>1 DEF PlaceBegins
    <3>3. Tells(echos, c) /\ Word(echos, c) = vals[c]
      <4>1. DOMAIN vals = Checkpoints
          OBVIOUS
      <4> HIDE DEF vals
      <4> QED
          BY <1>6, <4>1, VoicesIs
    <3>4. vals[c] = w(c)
      <4>1. Even(V, echos)
          BY <1>4 DEF EchosOK
      <4> HIDE DEF vals, w
      <4> QED
          BY <3>1, <3>2, <3>3, <4>1, WordIs
    <3> HIDE DEF vals, w
    <3> QED
        BY <2>1, <3>2, <3>4
  <2> HIDE DEF vals
  <2> QED
      BY <2>2 DEF RsOf
<1> DEFINE anew == [Abs(nd) EXCEPT !.round = r, !.rs = rs]
           amsg == PerCheckpoint!Msg("ECHO1", r, vals)
           spoken == PerCheckpoint!Broadcast(anew, "ECHO1", r, vals)
           ares == PerCheckpoint!AddEchoes(spoken, amsg, p)
<1>11. PerCheckpoint!StartBaa(Abs(nd), p, r) = PerCheckpoint!AmplifyEcho(ares.nd, r, ares.echo1)
  <2>1. \A c \in Checkpoints : PerCheckpoint!NewWithEcho(vals[c], p) = NewWithEcho(vals[c], p)
      BY SameBegun
  <2> DEFINE rs2 == [c \in Checkpoints |->
                       [Abs(nd).rs[c] EXCEPT ![r] = PerCheckpoint!NewWithEcho(vals[c], p)]]
  <2>2. rs2 = rs
      BY <2>1
  <2> DEFINE ares2 == PerCheckpoint!AddEchoes(
                PerCheckpoint!Broadcast([Abs(nd) EXCEPT !.round = r, !.rs = rs2], "ECHO1", r, vals),
                amsg, p)
  <2>3. PerCheckpoint!StartBaa(Abs(nd), p, r) = PerCheckpoint!AmplifyEcho(ares2.nd, r, ares2.echo1)
      BY <1>1 DEF PerCheckpoint!StartBaa, Abs, BNode
  <2>4. ares2 = ares
      BY <2>2
  <2> QED
      BY <2>3, <2>4
<1>12. spoken = Abs(new)
  <2> HIDE DEF vals, rs, new
  <2>1. spoken = [[[Abs(nd) EXCEPT !.round = r] EXCEPT !.rs = rs] EXCEPT !.sent = Append(@, amsg)]
      BY DEF PerCheckpoint!Broadcast
  <2> DEFINE i == InputOf(nd.value)
             o == Len(nd.out)
             b == nd.blocked
             s == Meant(nd.sent)
  <2>2. Abs(nd) = BNode(i, nd.round, RsOf(nd.levels), o, b, s)
      BY DEF Abs
  <2>3. Abs(new) = BNode(i, r, RsOf(levels), o, b, Meant(sent))
      BY <1>8, AbsOfANode
  <2>4. Meant(sent) = Append(s, amsg)
      BY <1>5, <1>6, <1>7
  <2> HIDE DEF i, o, b, s, amsg, spoken
  <2>5. [Abs(nd) EXCEPT !.round = r] = BNode(i, r, RsOf(nd.levels), o, b, s)
      BY <2>2, BNodeIs
  <2>6. [BNode(i, r, RsOf(nd.levels), o, b, s) EXCEPT !.rs = rs] = BNode(i, r, rs, o, b, s)
      BY BNodeIs
  <2>7. [BNode(i, r, rs, o, b, s) EXCEPT !.sent = Append(@, amsg)]
          = BNode(i, r, rs, o, b, Append(s, amsg))
    <3> DEFINE t == Append(s, amsg)
    <3>1. BNode(i, r, rs, o, b, s).sent = s
        BY BNodeIs
    <3> HIDE DEF t, rs
    <3>2. [BNode(i, r, rs, o, b, s) EXCEPT !.sent = t] = BNode(i, r, rs, o, b, t)
        BY DEF BNode
    <3>3. [BNode(i, r, rs, o, b, s) EXCEPT !.sent = Append(BNode(i, r, rs, o, b, s).sent, amsg)]
            = BNode(i, r, rs, o, b, Append(s, amsg))
        BY <3>1, <3>2 DEF t
    <3> QED
        BY <3>3
  <2> QED
      BY <1>10, <2>1, <2>3, <2>4, <2>5, <2>6, <2>7
<1>13. amsg.round = own.round /\ amsg.vals = Voices(Expanded(own.echos))
    BY <1>5, <1>6 DEF PerCheckpoint!Msg
<1> HIDE DEF new, amsg, spoken, vals
<1>14. ares = PerCheckpoint!AddEchoes(Abs(new), amsg, p)
    BY <1>12
<1>20. res = AddEchoes(new, own, p)
    OBVIOUS
<1> HIDE DEF ares, res
<1>15. /\ HeardWell(V, new, res)
       /\ ares.nd = Abs(res.nd) /\ ares.echo1 = Voices(res.echo1)
    BY <1>5, <1>9, <1>13, <1>14, <1>20, HearsMeans
<1>16. /\ Good(V, out) /\ out.levels = res.nd.levels /\ out.round = res.nd.round
       /\ out.value = res.nd.value
       /\ Abs(out) = PerCheckpoint!AmplifyEcho(Abs(res.nd), r, Voices(res.echo1))
    BY <1>2, <1>15, AmplifiedMeans DEF HeardWell
<1>17. Abs(out) = PerCheckpoint!StartBaa(Abs(nd), p, r)
    BY <1>11, <1>15, <1>16
<1>18. ASSUME NEW k \in 0 .. Rounds, k # r PROVE StaysOver(nd.levels, out.levels, k)
  <2>1. StaysOver(levels, out.levels, k)
      BY <1>9, <1>15, <1>16 DEF HeardWell
  <2>2. \A c \in Place : RsAt(levels, c)[k] = RsAt(nd.levels, c)[k]
    <3> SUFFICES ASSUME NEW c \in Place PROVE RsAt(levels, c)[k] = RsAt(nd.levels, c)[k]
        OBVIOUS
    <3>1. RsAt(levels, c) = [RsAt(nd.levels, c) EXCEPT ![r] = NewWithEcho(w(c), p)]
        BY <1>4 DEF PlaceBegins
    <3>2. RsAt(nd.levels, c) \in [0 .. Rounds -> RoundState]
        BY <1>1, RsIs
    <3> HIDE DEF w
    <3> QED
        BY <1>18, <3>1, <3>2
  <2> QED
      BY <2>1, <2>2 DEF StaysOver
<1>19. out.round = r /\ out.value = nd.value
    BY <1>9, <1>15, <1>16 DEF HeardWell
<1> QED
    BY <1>16, <1>17, <1>18, <1>19

LEMMA EndMeans ==
    ASSUME NEW V \in SUBSET Chosen, NEW nd, Good(V, nd), NEW p \in Node,
           NEW r, r = Rounds + 1, MayBegin(nd.levels, r, nd.value), NEW out, out = StartBaa(nd, p, r)
    PROVE  /\ Good(V, out) /\ out.round = r /\ out.levels = nd.levels /\ out.value = nd.value
           /\ Abs(out) = PerCheckpoint!StartBaa(Abs(nd), p, r)
<1> DEFINE new == [nd EXCEPT !.round = r]
           result == Aggregate(new.levels, new.value)
           o == <<result>>
<1>1. /\ NodeOK(nd) /\ nd.value \in V /\ Uniform(V, nd.levels)
      /\ SentOK(V, nd.sent) /\ OutOK(V, nd.out) /\ r > Rounds
      /\ r \in 0 .. Rounds + 1
    BY LevelAssumption DEF Good
<1>2. out = SendResult(new) /\ NodeOK(out)
    BY <1>1, StartBaaIs DEF StartBaa
<1>3. /\ new.value = nd.value /\ new.levels = nd.levels /\ new.sent = nd.sent /\ new.round = r
      /\ new.out = nd.out /\ Abs(new) = [Abs(nd) EXCEPT !.round = r]
  <2>1. Abs(new) = [Abs(nd) EXCEPT !.round = r]
      BY <1>1, AbsChanges
  <2> QED
      BY <1>1, <2>1, FieldsStay
<1>4. NodeOK(new)
  <2> DEFINE v == nd.value
             ls == nd.levels
             q == nd.out
             b == nd.blocked
             s == nd.sent
  <2>1. new = ANode(v, r, ls, q, b, s)
      BY <1>1, NodeChanges
  <2>2. /\ v \in {LowVal, HighVal} /\ ls \in [Levels -> Tilings] /\ (q = <<>> \/ Len(q) = 1)
        /\ b \in BOOLEAN /\ s \in Seq(Messages)
      BY <1>1, NodeIs
  <2>3. r \in -1 .. Rounds + 1
      BY <1>1, LevelAssumption
  <2> HIDE DEF new, v, ls, q, b, s
  <2> QED
      BY <2>1, <2>2, <2>3, ANodeIs
<1>5. PerCheckpoint!StartBaa(Abs(nd), p, r) = PerCheckpoint!SendResult(Abs(new))
    BY <1>1, <1>3 DEF PerCheckpoint!StartBaa
<1>8. Judged(V, result)
  <2> DEFINE levels == nd.levels
             v == nd.value
  <2>1. r - 1 = Rounds /\ r # 0
      BY LevelAssumption
  <2>2. \A c \in Place : Terminated(RsAt(levels, c)[Rounds])
      BY <2>1 DEF MayBegin
  <2>3. result = Aggregate(levels, v)
      BY <1>3
  <2>4. levels \in [Levels -> Tilings] /\ v \in V /\ Uniform(V, levels)
      BY <1>1, NodeIs
  <2> HIDE DEF levels, v, result
  <2> QED
      BY <2>2, <2>3, <2>4 DEF Judged
<1> HIDE DEF new, result
<1>6. CASE nd.out = <<>>
  <2>1. out = [new EXCEPT !.out = o]
      BY <1>2, <1>3, <1>6 DEF SendResult, result
  <2>2. Len(o) = 1 /\ Len(nd.out) = 0
      BY <1>6
  <2> HIDE DEF o
  <2>3. Abs(out) = [Abs(new) EXCEPT !.out = Len(o)]
    <3>1. Abs([new EXCEPT !.out = o]) = [Abs(new) EXCEPT !.out = Len(o)]
        BY <1>4, AbsChanges
    <3> QED
        BY <2>1, <3>1
  <2>4. Abs(new).out = 0
      BY <1>3, <2>2, AbsIs
  <2>5. PerCheckpoint!SendResult(Abs(new)) = [Abs(new) EXCEPT !.out = 1]
      BY <2>4 DEF PerCheckpoint!SendResult
  <2>6. /\ out.value = nd.value /\ out.levels = nd.levels /\ out.sent = nd.sent /\ out.round = r
        /\ out.out = o
    <3> DEFINE after == [new EXCEPT !.out = o]
    <3>1. /\ after.value = new.value /\ after.round = new.round /\ after.levels = new.levels
          /\ after.sent = new.sent /\ after.out = o
        BY <1>4, FieldsStay
    <3> HIDE DEF after
    <3>2. out = after
        BY <2>1 DEF after
    <3> QED
        BY <1>3, <3>1, <3>2
  <2> QED
    <3>1. OutOK(V, o)
        BY <1>8 DEF OutOK, o
    <3> QED
        BY <1>1, <1>2, <1>5, <2>2, <2>3, <2>5, <2>6, <3>1 DEF Good
<1>7. CASE nd.out # <<>>
  <2>1. out = [new EXCEPT !.blocked = TRUE]
      BY <1>2, <1>3, <1>7 DEF SendResult
  <2>2. Len(nd.out) = 1
      BY <1>1, <1>7, NodeIs
  <2>3. Abs(out) = [Abs(new) EXCEPT !.blocked = TRUE]
    <3>1. Abs([new EXCEPT !.blocked = TRUE]) = [Abs(new) EXCEPT !.blocked = TRUE]
        BY <1>4, AbsChanges
    <3> QED
        BY <2>1, <3>1
  <2>4. Abs(new).out = 1
      BY <1>3, <2>2, AbsIs
  <2>5. PerCheckpoint!SendResult(Abs(new)) = [Abs(new) EXCEPT !.blocked = TRUE]
      BY <2>4 DEF PerCheckpoint!SendResult
  <2>6. /\ out.value = nd.value /\ out.levels = nd.levels /\ out.sent = nd.sent /\ out.round = r
        /\ out.out = nd.out
    <3> DEFINE after == [new EXCEPT !.blocked = TRUE]
    <3>1. /\ after.value = new.value /\ after.round = new.round /\ after.levels = new.levels
          /\ after.sent = new.sent /\ after.out = new.out
        BY <1>4, FieldsStay
    <3> HIDE DEF after
    <3>2. out = after
        BY <2>1 DEF after
    <3> QED
        BY <1>3, <3>1, <3>2
  <2> QED
      BY <1>1, <1>2, <1>5, <2>3, <2>5, <2>6 DEF Good
<1> QED
    BY <1>6, <1>7

LEMMA StartMeans ==
    ASSUME Apart, NEW V \in SUBSET Chosen, Parted(V), NEW nd, Good(V, nd), NEW p \in Node,
           NEW r \in 0 .. Rounds + 1, MayBegin(nd.levels, r, nd.value),
           NEW out, out = StartBaa(nd, p, r)
    PROVE  /\ Good(V, out) /\ out.round = r /\ out.value = nd.value
           /\ \A k \in 0 .. Rounds : k # r => StaysOver(nd.levels, out.levels, k)
           /\ Abs(out) = PerCheckpoint!StartBaa(Abs(nd), p, r)
<1>1. CASE r \in 0 .. Rounds
  <2>1. Good(V, out) /\ out.round = r /\ out.value = nd.value
      BY <1>1, BeginMeans
  <2>2. \A k \in 0 .. Rounds : k # r => StaysOver(nd.levels, out.levels, k)
      BY <1>1, BeginMeans
  <2>3. Abs(out) = PerCheckpoint!StartBaa(Abs(nd), p, r)
      BY <1>1, BeginMeans
  <2> QED
      BY <2>1, <2>2, <2>3
<1>2. CASE r = Rounds + 1
  <2>1. out.levels = nd.levels
      BY <1>2, EndMeans
  <2>2. \A k : StaysOver(nd.levels, out.levels, k)
      BY <2>1 DEF StaysOver
  <2>3. /\ Good(V, out) /\ out.round = r /\ out.value = nd.value
        /\ Abs(out) = PerCheckpoint!StartBaa(Abs(nd), p, r)
      BY <1>2, EndMeans
  <2> QED
      BY <2>2, <2>3
<1>3. r \in 0 .. Rounds \/ r = Rounds + 1
    BY LevelAssumption
<1> QED
    BY <1>1, <1>2, <1>3

\* The round after one that is over may begin.
LEMMA NextMayBegin ==
    ASSUME NEW V \in SUBSET Chosen, Parted(V), NEW nd, Good(V, nd), NEW r \in 0 .. Rounds,
           TerminatedRound(nd, r), NEW levels, StaysOver(nd.levels, levels, r), NEW v
    PROVE  MayBegin(levels, r + 1, v)
<1>1. \A c \in Place : Terminated(RsAt(nd.levels, c)[r])
    BY RoundOver DEF Good
<1>2. \A c \in Place : Terminated(RsAt(levels, c)[r])
    BY <1>1 DEF StaysOver
<1>3. r + 1 # 0 /\ (r + 1) - 1 = r
    BY LevelAssumption
<1> QED
    BY <1>2, <1>3 DEF MayBegin

LEMMA Echo2Means ==
    ASSUME Apart, NEW V \in SUBSET Chosen, Parted(V), NEW nd, Good(V, nd), NEW p \in Node,
           NEW q \in Node, NEW m \in Messages, EchosOK(V, Expanded(m.echos)),
           NEW out, out = ProcessBaaEcho2(nd, p, m, q),
           NEW a, a.round = m.round, a.vals = Voices(Expanded(m.echos))
    PROVE  /\ Good(V, out) /\ StaysOver(nd.levels, out.levels, m.round)
           /\ Onward(nd, out)
           /\ Abs(out) = PerCheckpoint!ProcessBaaEcho2(Abs(nd), p, a, q)
<1> DEFINE r == m.round
           new == AddEchoes2(nd, m, q)
           anew == PerCheckpoint!AddEchoes2(Abs(nd), a, q)
<1>1. NodeOK(nd) /\ r \in 0 .. Rounds /\ r + 1 \in 0 .. Rounds + 1 /\ nd.round \in Int
    BY LevelAssumption, NodeIs DEF Good, Messages
<1>2. PerCheckpoint!Passed(Abs(nd), a) <=> Passed(nd, m)
    BY AbsIs DEF PerCheckpoint!Passed, Passed
<1>3. CASE Passed(nd, m)
  <2>1. out = nd /\ PerCheckpoint!ProcessBaaEcho2(Abs(nd), p, a, q) = Abs(nd)
      BY <1>2, <1>3 DEF ProcessBaaEcho2, PerCheckpoint!ProcessBaaEcho2
  <2> QED
      BY <1>1, <2>1 DEF StaysOver, Onward
<1>4. CASE ~Passed(nd, m)
  <2>1. out = IF TerminatedRound(new, r) THEN StartBaa(new, p, r + 1) ELSE new
      BY <1>4 DEF ProcessBaaEcho2, GoOn
  <2>2. PerCheckpoint!ProcessBaaEcho2(Abs(nd), p, a, q)
          = IF PerCheckpoint!TerminatedRound(anew, r) THEN PerCheckpoint!StartBaa(anew, p, r + 1) ELSE anew
      BY <1>2, <1>4 DEF PerCheckpoint!ProcessBaaEcho2
  <2>3. nd.round <= r
      BY <1>1, <1>4 DEF Passed
  <2> HIDE DEF r
  <2>4. /\ Good(V, new) /\ new.round = nd.round /\ new.value = nd.value
        /\ \A k \in 0 .. Rounds : StaysOver(nd.levels, new.levels, k)
        /\ Abs(new) = anew
    <3>1. new = AddEchoes2(nd, m, q) /\ anew = PerCheckpoint!AddEchoes2(Abs(nd), a, q)
        OBVIOUS
    <3> HIDE DEF new, anew
    <3> QED
        BY <3>1, Hears2Means
  <2> HIDE DEF new, anew
  <2>5. TerminatedRound(new, r) <=> PerCheckpoint!TerminatedRound(anew, r)
    <3>1. TerminatedRound(new, r) <=> PerCheckpoint!TerminatedRound(Abs(new), r)
        BY <1>1, <2>4, RoundOver DEF Good
    <3> QED
        BY <2>4, <3>1
  <2>6. CASE ~TerminatedRound(new, r)
      BY <1>1, <2>1, <2>2, <2>4, <2>5, <2>6 DEF r, Onward
  <2>7. CASE TerminatedRound(new, r)
    <3>1. StaysOver(new.levels, new.levels, r)
        BY DEF StaysOver
    <3>2. MayBegin(new.levels, r + 1, new.value)
        BY <1>1, <2>4, <2>7, <3>1, NextMayBegin
    <3>3. out = StartBaa(new, p, r + 1)
        BY <2>1, <2>7
    <3> DEFINE s == r + 1
    <3>4. s \in 0 .. Rounds + 1 /\ s # r /\ MayBegin(new.levels, s, new.value) /\ out = StartBaa(new, p, s)
        BY <1>1, <3>2, <3>3
    <3>5. s >= nd.round
        BY <1>1, <2>3
    <3> HIDE DEF s
    <3>6. /\ Good(V, out) /\ out.round = s /\ out.value = new.value
          /\ \A k \in 0 .. Rounds : k # s => StaysOver(new.levels, out.levels, k)
          /\ Abs(out) = PerCheckpoint!StartBaa(Abs(new), p, s)
        BY <2>4, <3>4, StartMeans
    <3>7. StaysOver(nd.levels, out.levels, r)
        BY <1>1, <2>4, <3>4, <3>6 DEF StaysOver
    <3> QED
        BY <2>2, <2>4, <2>5, <2>7, <3>5, <3>6, <3>7 DEF s, r, Onward
  <2> QED
      BY <2>6, <2>7
<1> QED
    BY <1>3, <1>4

LEMMA Echo2Abs ==
    ASSUME Apart, NEW V \in SUBSET Chosen, Parted(V), NEW nd, Good(V, nd), NEW p \in Node,
           NEW q \in Node, NEW m \in Messages, EchosOK(V, Expanded(m.echos)),
           NEW out, out = ProcessBaaEcho2(nd, p, m, q),
           NEW a, a.round = m.round, a.vals = Voices(Expanded(m.echos)),
           NEW after, after = PerCheckpoint!ProcessBaaEcho2(Abs(nd), p, a, q)
    PROVE  Abs(out) = after
BY Echo2Means

LEMMA VoteMeans ==
    ASSUME NEW V \in SUBSET Chosen, Parted(V), NEW nd, Good(V, nd), NEW r \in 0 .. Rounds,
           NEW echos, EchosOK(V, echos), NEW new, new = Broadcast(nd, "ECHO2", r, echos)
    PROVE  /\ Good(V, new) /\ new.levels = nd.levels /\ new.round = nd.round /\ new.value = nd.value
           /\ Abs(new) = PerCheckpoint!Broadcast(Abs(nd), "ECHO2", r, Voices(echos))
<1>1. "ECHO2" \in {"ECHO1", "ECHO2"}
    OBVIOUS
<1> QED
    BY <1>1, BroadcastMeans

LEMMA Echo1Means ==
    ASSUME Apart, NEW V \in SUBSET Chosen, Parted(V), NEW nd, Good(V, nd), NEW p \in Node,
           NEW q \in Node, NEW m \in Messages, EchosOK(V, Expanded(m.echos)),
           NEW out, out = ProcessBaaEcho(nd, p, m, q),
           NEW a, a.round = m.round, a.vals = Voices(Expanded(m.echos))
    PROVE  /\ Good(V, out) /\ Onward(nd, out)
           /\ Abs(out) = PerCheckpoint!ProcessBaaEcho(Abs(nd), p, a, q)
<1> DEFINE r == m.round
           res == AddEchoes(nd, m, q)
           ares == PerCheckpoint!AddEchoes(Abs(nd), a, q)
           amplified == Amplified(res, r)
           aamplified == PerCheckpoint!AmplifyEcho(ares.nd, r, ares.echo1)
           spoken == Broadcast(amplified, "ECHO2", r, res.echo2)
           aspoken == PerCheckpoint!Broadcast(aamplified, "ECHO2", r, ares.echo2)
           own == Message("ECHO2", r, res.echo2)
           aown == PerCheckpoint!Msg("ECHO2", r, ares.echo2)
           voted == IF DOMAIN res.echo2 = {} THEN amplified ELSE ProcessBaaEcho2(spoken, p, own, p)
           avoted == IF ares.echo2 = <<>> THEN aamplified
                     ELSE PerCheckpoint!ProcessBaaEcho2(aspoken, p, aown, p)
<1>1. NodeOK(nd) /\ r \in 0 .. Rounds /\ r + 1 \in 0 .. Rounds + 1 /\ nd.round \in Int
    BY LevelAssumption, NodeIs DEF Good, Messages
<1>2. PerCheckpoint!Passed(Abs(nd), a) <=> Passed(nd, m)
    BY AbsIs DEF PerCheckpoint!Passed, Passed
<1>3. CASE Passed(nd, m)
  <2>1. out = nd /\ PerCheckpoint!ProcessBaaEcho(Abs(nd), p, a, q) = Abs(nd)
      BY <1>2, <1>3 DEF ProcessBaaEcho, PerCheckpoint!ProcessBaaEcho
  <2> QED
      BY <1>1, <2>1 DEF Onward
<1>4. CASE ~Passed(nd, m)
  <2>1. out = IF TerminatedRound(res.nd, r) THEN StartBaa(voted, p, r + 1) ELSE voted
      BY <1>4 DEF ProcessBaaEcho, Answer
  <2>2. PerCheckpoint!ProcessBaaEcho(Abs(nd), p, a, q)
          = IF PerCheckpoint!TerminatedRound(ares.nd, r) THEN PerCheckpoint!StartBaa(avoted, p, r + 1)
            ELSE avoted
      BY <1>2, <1>4 DEF PerCheckpoint!ProcessBaaEcho
  <2>3. nd.round <= r
      BY <1>1, <1>4 DEF Passed
  <2> HIDE DEF res, ares, r
  <2>4. /\ HeardWell(V, nd, res)
        /\ ares.nd = Abs(res.nd) /\ ares.echo1 = Voices(res.echo1)
        /\ ares.echo2 = Voices(res.echo2)
      BY HearsMeans DEF res, ares
  <2>5. /\ Good(V, res.nd) /\ res.nd.round = nd.round /\ res.nd.value = nd.value
        /\ EchosOK(V, res.echo1) /\ EchosOK(V, res.echo2) /\ Full(res.echo1) /\ Full(res.echo2)
        /\ res.echo2 \in Sayings
      BY <2>4 DEF HeardWell, EchosOK, EdgedSays
  <2>6. /\ Good(V, amplified) /\ amplified.levels = res.nd.levels /\ amplified.round = nd.round
        /\ amplified.value = nd.value
        /\ Abs(amplified) = aamplified
    <3> HIDE DEF amplified
    <3>1. /\ Good(V, amplified) /\ amplified.levels = res.nd.levels /\ amplified.round = res.nd.round
          /\ amplified.value = res.nd.value
          /\ Abs(amplified) = PerCheckpoint!AmplifyEcho(Abs(res.nd), r, Voices(res.echo1))
        BY <1>1, <2>5, AmplifiedMeans DEF amplified
    <3> QED
        BY <2>4, <2>5, <3>1
  <2> HIDE DEF amplified, aamplified
  <2>7. /\ Good(V, voted) /\ StaysOver(res.nd.levels, voted.levels, r) /\ Abs(voted) = avoted
        /\ Onward(nd, voted)
    <3>1. ares.echo2 = <<>> <=> DOMAIN res.echo2 = {}
        BY <2>4, <2>5, NoVoices
    <3>2. CASE DOMAIN res.echo2 = {}
      <4>1. voted = amplified /\ avoted = aamplified
          BY <3>1, <3>2
      <4> HIDE DEF voted, avoted
      <4> QED
          BY <1>1, <2>6, <4>1 DEF StaysOver, Onward
    <3>3. CASE DOMAIN res.echo2 # {}
      <4>1. voted = ProcessBaaEcho2(spoken, p, own, p)
            /\ avoted = PerCheckpoint!ProcessBaaEcho2(aspoken, p, aown, p)
          BY <3>1, <3>3
      <4> HIDE DEF voted, avoted, spoken
      <4>2. /\ Good(V, spoken) /\ spoken.levels = amplified.levels /\ spoken.round = amplified.round
            /\ spoken.value = amplified.value
            /\ Abs(spoken) = PerCheckpoint!Broadcast(Abs(amplified), "ECHO2", r, Voices(res.echo2))
        <5>1. Good(V, amplified) /\ EchosOK(V, res.echo2) /\ "ECHO2" \in {"ECHO1", "ECHO2"}
              /\ spoken = Broadcast(amplified, "ECHO2", r, res.echo2)
            BY <2>5, <2>6 DEF spoken
        <5>2. /\ Good(V, spoken) /\ spoken.levels = amplified.levels /\ spoken.round = amplified.round
              /\ spoken.value = amplified.value
            BY <1>1, <5>1, VoteMeans
        <5>3. Abs(spoken) = PerCheckpoint!Broadcast(Abs(amplified), "ECHO2", r, Voices(res.echo2))
            BY <1>1, <5>1, VoteMeans
        <5> QED
            BY <5>2, <5>3
      <4>3. Abs(spoken) = aspoken
          BY <2>4, <2>6, <4>2
      <4>4. /\ own \in Messages /\ EchosOK(V, Expanded(own.echos)) /\ own.round = r
            /\ Voices(Expanded(own.echos)) = Voices(res.echo2)
        <5>1. own.round = r
            BY DEF Message
        <5> HIDE DEF own
        <5> QED
            BY <1>1, <2>5, <5>1, MessageIs, CoalescedMeans DEF own
      <4>5. aown.round = own.round /\ aown.vals = Voices(Expanded(own.echos))
          BY <2>4, <4>4 DEF PerCheckpoint!Msg
      <4> HIDE DEF own, aown, aspoken
      <4>6. /\ Good(V, voted) /\ StaysOver(spoken.levels, voted.levels, own.round)
            /\ Onward(spoken, voted)
            /\ Abs(voted) = PerCheckpoint!ProcessBaaEcho2(Abs(spoken), p, aown, p)
        <5>1. /\ p \in Node /\ own \in Messages /\ EchosOK(V, Expanded(own.echos))
              /\ aown.round = own.round /\ aown.vals = Voices(Expanded(own.echos))
              /\ Good(V, spoken) /\ voted = ProcessBaaEcho2(spoken, p, own, p)
            BY <4>1, <4>2, <4>4, <4>5
        <5>2. Good(V, voted)
            BY <5>1, Echo2Means
        <5>3. StaysOver(spoken.levels, voted.levels, own.round)
            BY <5>1, Echo2Means
        <5>4. Onward(spoken, voted)
            BY <5>1, Echo2Means
        <5>5. Abs(voted) = PerCheckpoint!ProcessBaaEcho2(Abs(spoken), p, aown, p)
          <6> DEFINE after == PerCheckpoint!ProcessBaaEcho2(Abs(spoken), p, aown, p)
          <6>1. after = PerCheckpoint!ProcessBaaEcho2(Abs(spoken), p, aown, p)
              OBVIOUS
          <6> HIDE DEF after
          <6>2. Abs(voted) = after
              BY <5>1, <6>1, Echo2Abs
          <6> QED
              BY <6>1, <6>2
        <5> QED
            BY <5>2, <5>3, <5>4, <5>5
      <4> QED
          BY <2>6, <4>1, <4>2, <4>3, <4>4, <4>6 DEF Onward
    <3> QED
        BY <3>2, <3>3
  <2> HIDE DEF voted, avoted
  <2>8. TerminatedRound(res.nd, r) <=> PerCheckpoint!TerminatedRound(ares.nd, r)
      BY <1>1, <2>4, <2>5, RoundOver DEF Good
  <2>9. CASE ~TerminatedRound(res.nd, r)
      BY <2>1, <2>2, <2>7, <2>8, <2>9
  <2>10. CASE TerminatedRound(res.nd, r)
    <3> DEFINE s == r + 1
    <3>1. MayBegin(voted.levels, s, voted.value)
        BY <1>1, <2>5, <2>7, <2>10, NextMayBegin
    <3>2. s \in 0 .. Rounds + 1 /\ out = StartBaa(voted, p, s)
        BY <1>1, <2>1, <2>10
    <3>3. s >= nd.round
        BY <1>1, <2>3
    <3>4. PerCheckpoint!ProcessBaaEcho(Abs(nd), p, a, q) = PerCheckpoint!StartBaa(Abs(voted), p, s)
        BY <2>2, <2>7, <2>8, <2>10
    <3> HIDE DEF s
    <3>5. /\ Good(V, out) /\ out.round = s /\ out.value = voted.value
          /\ Abs(out) = PerCheckpoint!StartBaa(Abs(voted), p, s)
        BY <2>7, <3>1, <3>2, StartMeans
    <3> QED
        BY <2>7, <3>3, <3>4, <3>5 DEF Onward
  <2> QED
      BY <2>9, <2>10
<1> QED
    BY <1>3, <1>4

LEMMA Echo1Abs ==
    ASSUME Apart, NEW V \in SUBSET Chosen, Parted(V), NEW nd, Good(V, nd), NEW p \in Node,
           NEW q \in Node, NEW m \in Messages, EchosOK(V, Expanded(m.echos)),
           NEW out, out = ProcessBaaEcho(nd, p, m, q),
           NEW a, a.round = m.round, a.vals = Voices(Expanded(m.echos)),
           NEW after, after = PerCheckpoint!ProcessBaaEcho(Abs(nd), p, a, q)
    PROVE  Abs(out) = after
BY Echo1Means
-----------------------------------------------------------------------------
(* The system, as the values that nodes have joined with account for it.   *)

JoinedWith == {node[p].value : p \in {q \in Node : node[q].round >= 0}}

\* A node that has not joined
Waits(nd) ==
    nd.out = <<>> /\ nd.levels = [l \in Levels |-> NewLevel(nd.value, l)]

\* Between steps a node has sent what it said.
Steady(nd) == nd.sent = <<>> /\ nd.value \in Chosen /\ (nd.round = -1 => Waits(nd))

\* The values in V account for all that is kept, said and resulted.
Sound(V) ==
    /\ \A p \in Node : IF node[p].round = -1 THEN Waits(node[p]) ELSE Good(V, node[p])
    /\ \A p \in Node, q \in Node : SentOK(V, link[p][q])
    /\ \A o \in output : Judged(V, o[2])

\* The inductive invariant: whatever was split, said and coalesced, what is kept and said is
\* the same at all places that the same of the values joined with weigh, as long as those
\* values are parted.
UInv ==
    /\ IInv
    /\ \A p \in Node : Steady(node[p])
    /\ \A V \in SUBSET Chosen : Parted(V) /\ JoinedWith \subseteq V => Sound(V)

LEMMA NodesAre ==
    ASSUME UInv, NEW p \in Node
    PROVE  /\ NodeOK(node[p]) /\ node[p].sent = <<>> /\ node[p].value \in Chosen /\ LinksOK(link)
           /\ node[p].round = -1 => Waits(node[p])
<1>1. NodeOK(node[p]) /\ LinksOK(link)
    BY DEF UInv, IInv
<1>2. Steady(node[p])
    BY DEF UInv
<1> QED
    BY <1>1, <1>2 DEF Steady

LEMMA SentConcat ==
    ASSUME NEW V, NEW T, NEW s \in Seq(T), NEW t \in Seq(T), SentOK(V, s), SentOK(V, t)
    PROVE  SentOK(V, s \o t)
<1>1. ASSUME NEW i \in DOMAIN (s \o t)
      PROVE  \/ i \in DOMAIN s /\ (s \o t)[i] = s[i]
             \/ \E k \in DOMAIN t : (s \o t)[i] = t[k]
  <2>1. i \in 1 .. Len(s) + Len(t) /\ Len(s) \in Nat /\ Len(t) \in Nat
        /\ DOMAIN s = 1 .. Len(s) /\ DOMAIN t = 1 .. Len(t)
      OBVIOUS
  <2>2. CASE i <= Len(s)
      BY <2>1, <2>2
  <2>3. CASE ~(i <= Len(s))
    <3>1. i - Len(s) \in DOMAIN t /\ (s \o t)[i] = t[i - Len(s)]
        BY <2>1, <2>3
    <3> QED
        BY <3>1
  <2> QED
      BY <2>2, <2>3
<1> QED
    BY <1>1 DEF SentOK

LEMMA SentTail ==
    ASSUME NEW V, NEW T, NEW s \in Seq(T), s # <<>>, SentOK(V, s)
    PROVE  SentOK(V, Tail(s)) /\ EchosOK(V, Expanded(Head(s).echos))
<1>1. \A i \in DOMAIN Tail(s) : i + 1 \in DOMAIN s /\ Tail(s)[i] = s[i + 1]
    OBVIOUS
<1>2. 1 \in DOMAIN s /\ Head(s) = s[1]
    OBVIOUS
<1> QED
    BY <1>1, <1>2 DEF SentOK

\* A node that has not joined is like any other.
LEMMA WaitingIsGood ==
    ASSUME NEW V \in SUBSET Chosen, NEW nd, NodeOK(nd), Waits(nd), nd.sent = <<>>, nd.value \in V
    PROVE  Good(V, nd) /\ MayBegin(nd.levels, 0, nd.value)
<1>1. V \in Camps
    BY ChosenAre
<1> DEFINE v == nd.value
           levels == nd.levels
<1>2. v \in V /\ levels = [l \in Levels |-> NewLevel(v, l)]
    BY DEF Waits
<1> HIDE DEF v, levels
<1>3. Uniform(V, levels) /\ MayBegin(levels, 0, v)
    BY <1>1, <1>2, UniformAtFirst
<1>4. SentOK(V, <<>>) /\ OutOK(V, <<>>)
    BY DEF SentOK, OutOK
<1> QED
    BY <1>3, <1>4 DEF v, levels, Good, Waits

\* A node as it is after a step
LEMMA Silenced ==
    ASSUME NEW nd, NodeOK(nd), NEW new, new = [nd EXCEPT !.sent = <<>>]
    PROVE  /\ NodeOK(new) /\ new.value = nd.value /\ new.round = nd.round /\ new.levels = nd.levels
           /\ new.out = nd.out /\ new.blocked = nd.blocked /\ new.sent = <<>>
           /\ \A V : Good(V, nd) => Good(V, new)
<1> DEFINE s == <<>>
<1>1. s \in Seq(Messages)
    OBVIOUS
<1>2. \A V : SentOK(V, s)
    BY DEF SentOK
<1>3. new = [nd EXCEPT !.sent = s]
    OBVIOUS
<1> HIDE DEF s
<1>4. NodeOK(new)
    BY <1>1, <1>3, NewSentIs
<1>5. /\ new.value = nd.value /\ new.round = nd.round /\ new.levels = nd.levels
      /\ new.out = nd.out /\ new.blocked = nd.blocked /\ new.sent = s
  <2>1. new = ANode(nd.value, nd.round, nd.levels, nd.out, nd.blocked, s)
      BY <1>3, NodeChanges
  <2> QED
      BY <2>1 DEF ANode
<1>6. \A V : Good(V, nd) => Good(V, new)
    BY <1>2, <1>4, <1>5 DEF Good
<1>7. new.sent = <<>>
    BY <1>5 DEF s
<1> QED
    BY <1>4, <1>5, <1>6, <1>7

\* The values joined with, and p's, account for what p has become and for the links.
Accounted(nd, lk) ==
    \A V \in SUBSET Chosen : (Parted(V) /\ JoinedWith \subseteq V /\ nd.value \in V) =>
        Good(V, nd) /\ \A a \in Node, b \in Node : SentOK(V, lk[a][b])

LEMMA RunSound ==
    ASSUME UInv, NEW p \in Node, NEW nd, NodeOK(nd), nd.value = node[p].value, nd.round >= 0,
           NEW lk, LinksOK(lk), Run(p, nd, lk), output' = output,
           Accounted(nd, lk)
    PROVE  UInv'
<1> DEFINE new == [nd EXCEPT !.sent = <<>>]
<1>1. IInv'
    BY RunTyped DEF UInv
<1>2. /\ new.value = nd.value /\ new.round = nd.round /\ new.sent = <<>>
      /\ \A V : Good(V, nd) => Good(V, new)
  <2> HIDE DEF new
  <2>1. new = [nd EXCEPT !.sent = <<>>]
      BY DEF new
  <2> QED
      BY <2>1, Silenced
<1>3. \A q \in Node : node'[q] = IF q = p THEN new ELSE node[q]
    BY DEF Run, UInv, IInv
<1>4. nd.round \in Int /\ nd.round # -1 /\ \A q \in Node : node[q].round \in Int
    BY NodeIs DEF UInv, IInv
<1> HIDE DEF new
<1>5. \A q \in Node : Steady(node'[q])
  <2>1. \A q \in Node : Steady(node[q])
      BY DEF UInv
  <2> QED
      BY <1>2, <1>3, <1>4, <2>1 DEF Steady
<1>7. \A V : Parted(V)' <=> Parted(V)
    BY DEF Parted
<1>6. ASSUME NEW V \in SUBSET Chosen, Parted(V), JoinedWith' \subseteq V PROVE Sound(V)'
  <2>1. nd.value \in V
    <3>1. node'[p].value \in JoinedWith'
        BY <1>2, <1>3, <1>4 DEF JoinedWith
    <3> QED
        BY <1>2, <1>3, <1>6, <3>1
  <2>2. JoinedWith \subseteq V
    <3> SUFFICES ASSUME NEW q \in Node, node[q].round >= 0 PROVE node[q].value \in V
        BY DEF JoinedWith
    <3>1. CASE q = p
        BY <2>1, <3>1
    <3>2. CASE q # p
      <4>1. node'[q].value \in JoinedWith'
          BY <1>3, <3>2 DEF JoinedWith
      <4> QED
          BY <1>3, <1>6, <3>2, <4>1
    <3> QED
        BY <3>1, <3>2
  <2>3. Sound(V)
      BY <1>6, <2>2 DEF UInv
  <2>4. Good(V, nd) /\ \A a \in Node, b \in Node : SentOK(V, lk[a][b])
      BY <1>6, <2>1, <2>2 DEF Accounted
  <2>5. \A q \in Node : IF node'[q].round = -1 THEN Waits(node'[q]) ELSE Good(V, node'[q])
      BY <1>2, <1>3, <1>4, <2>3, <2>4 DEF Sound
  <2>6. ASSUME NEW a \in Node, NEW b \in Node PROVE SentOK(V, link'[a][b])
    <3>1. CASE a # p
        BY <2>4, <3>1 DEF Run, LinksOK
    <3>2. CASE a = p /\ b = p
      <4>1. link'[a][b] = <<>>
          BY <3>2 DEF Run, LinksOK
      <4> QED
          BY <4>1 DEF SentOK
    <3>3. CASE a = p /\ b # p
      <4>1. link'[a][b] = lk[p][b] \o nd.sent
          BY <3>3 DEF Run, LinksOK
      <4>2. lk[p][b] \in Seq(Messages) /\ nd.sent \in Seq(Messages)
          BY NodeIs DEF LinksOK
      <4>3. SentOK(V, lk[p][b]) /\ SentOK(V, nd.sent)
          BY <2>4 DEF Good
      <4> QED
          BY <4>1, <4>2, <4>3, SentConcat
    <3> QED
        BY <3>1, <3>2, <3>3
  <2>7. \A o \in output' : Judged(V, o[2])
      BY <2>3 DEF Sound
  <2> QED
      BY <2>5, <2>6, <2>7 DEF Sound
<1> QED
    BY <1>1, <1>5, <1>6, <1>7 DEF UInv
-----------------------------------------------------------------------------
(* The steps, as BinAA has them.                                           *)

AllNodes == [p \in Node |-> CheckpointNode(node[p])]
AllMeant(lk) == [a \in Node |-> [b \in Node |-> Meant(lk[a][b])]]

\* BinAA's Run
RunsAs(p, a, lks) ==
    /\ AllNodes' = [AllNodes EXCEPT ![p] = [a EXCEPT !.sent = <<>>]]
    /\ AllMeant(link)' = [lks EXCEPT ![p] = [q \in Node |-> IF q = p THEN <<>> ELSE @[q] \o a.sent]]

LEMMA AllNodesAre ==
    ASSUME UInv
    PROVE  \A p \in Node : AllNodes[p] = Abs(node[p]) /\ NodeOK(node[p])
<1> SUFFICES ASSUME NEW p \in Node PROVE AllNodes[p] = Abs(node[p]) /\ NodeOK(node[p])
    OBVIOUS
<1>1. NodeOK(node[p]) /\ node[p].sent = <<>>
    BY NodesAre
<1> QED
    BY <1>1, CheckpointNodeIs DEF AllNodes

LEMMA RunMeans ==
    ASSUME UInv, NEW p \in Node, NEW nd, NodeOK(nd), NEW lk, LinksOK(lk), Run(p, nd, lk)
    PROVE  RunsAs(p, Abs(nd), AllMeant(lk))
<1> DEFINE new == [nd EXCEPT !.sent = <<>>]
<1>1. new = [nd EXCEPT !.sent = <<>>]
    OBVIOUS
<1>2. node' = [node EXCEPT ![p] = new]
    BY DEF Run
<1> HIDE DEF new
<1>3. /\ NodeOK(new) /\ new.value = nd.value /\ new.round = nd.round /\ new.levels = nd.levels
      /\ new.out = nd.out /\ new.blocked = nd.blocked /\ new.sent = <<>>
    BY <1>1, Silenced
<1>4. CheckpointNode(new) = [Abs(nd) EXCEPT !.sent = <<>>]
  <2> DEFINE i == InputOf(nd.value)
             rs == RsOf(nd.levels)
             o == Len(nd.out)
             s == Meant(nd.sent)
  <2>1. Abs(nd) = BNode(i, nd.round, rs, o, nd.blocked, s)
      BY DEF Abs
  <2>2. CheckpointNode(new) = BNode(i, nd.round, rs, o, nd.blocked, <<>>)
      BY <1>3, CheckpointNodeIs
  <2> HIDE DEF i, rs, o, s
  <2>3. [BNode(i, nd.round, rs, o, nd.blocked, s) EXCEPT !.sent = <<>>]
          = BNode(i, nd.round, rs, o, nd.blocked, <<>>)
      BY DEF BNode
  <2> QED
      BY <2>1, <2>2, <2>3
<1>5. AllNodes' = [AllNodes EXCEPT ![p] = [Abs(nd) EXCEPT !.sent = <<>>]]
  <2>1. \A q \in Node : node'[q] = IF q = p THEN new ELSE node[q]
      BY <1>2 DEF UInv, IInv
  <2>2. \A q \in Node :
           CheckpointNode(node'[q]) = IF q = p THEN CheckpointNode(new) ELSE CheckpointNode(node[q])
      BY <2>1
  <2> DEFINE a == [Abs(nd) EXCEPT !.sent = <<>>]
  <2>3. CheckpointNode(new) = a
      BY <1>4
  <2> HIDE DEF a
  <2>4. AllNodes' = [q \in Node |-> CheckpointNode(node'[q])]
      BY DEF AllNodes
  <2>5. [AllNodes EXCEPT ![p] = a] = [q \in Node |-> IF q = p THEN a ELSE CheckpointNode(node[q])]
      BY DEF AllNodes
  <2>6. [q \in Node |-> CheckpointNode(node'[q])]
          = [q \in Node |-> IF q = p THEN a ELSE CheckpointNode(node[q])]
      BY <2>2, <2>3
  <2> QED
      BY <2>4, <2>5, <2>6 DEF a
<1> DEFINE t == Meant(nd.sent)
           ms == AllMeant(lk)
           out == [q \in Node |-> IF q = p THEN <<>> ELSE ms[p][q] \o t]
<1>6. \A q \in Node : Meant(link'[p][q]) = out[q]
  <2> SUFFICES ASSUME NEW q \in Node PROVE Meant(link'[p][q]) = out[q]
      OBVIOUS
  <2>1. CASE q = p
    <3>1. link'[p][q] = <<>>
        BY <2>1 DEF Run, LinksOK
    <3> QED
        BY <2>1, <3>1, MeantNothing
  <2>2. CASE q # p
    <3>1. link'[p][q] = lk[p][q] \o nd.sent
        BY <2>2 DEF Run, LinksOK
    <3>2. lk[p][q] \in Seq(Messages) /\ nd.sent \in Seq(Messages)
        BY NodeIs DEF LinksOK
    <3>3. Meant(lk[p][q] \o nd.sent) = Meant(lk[p][q]) \o Meant(nd.sent)
        BY <3>2, MeantConcat
    <3>4. ms[p][q] = Meant(lk[p][q])
        BY DEF AllMeant
    <3> QED
        BY <2>2, <3>1, <3>3, <3>4
  <2> QED
      BY <2>1, <2>2
<1>7. \A a \in Node : a # p => link'[a] = lk[a]
    BY DEF Run, LinksOK
<1>8. AllMeant(link') = [ms EXCEPT ![p] = out]
  <2>1. AllMeant(link') = [a \in Node |-> [b \in Node |-> Meant(link'[a][b])]]
      BY DEF AllMeant
  <2>2. ms = [a \in Node |-> [b \in Node |-> Meant(lk[a][b])]]
      BY DEF AllMeant
  <2>3. [b \in Node |-> Meant(link'[p][b])] = out
      BY <1>6
  <2> HIDE DEF out, ms
  <2> DEFINE MeantNow(a) == [b \in Node |-> Meant(link'[a][b])]
             MeantThen(a) == IF a = p THEN out ELSE [b \in Node |-> Meant(lk[a][b])]
  <2>4. [ms EXCEPT ![p] = out] = [a \in Node |-> MeantThen(a)]
      BY <2>2
  <2>5. ASSUME NEW a \in Node PROVE MeantNow(a) = MeantThen(a)
    <3>1. CASE a = p
        BY <2>3, <3>1
    <3>2. CASE a # p
      <4>1. link'[a] = lk[a]
          BY <1>7, <3>2
      <4> QED
          BY <3>2, <4>1
    <3> QED
        BY <3>1, <3>2
  <2>6. AllMeant(link') = [a \in Node |-> MeantNow(a)]
      BY <2>1
  <2> HIDE DEF MeantNow, MeantThen
  <2> QED
      BY <2>4, <2>5, <2>6
<1>9. AllMeant(link)' = [ms EXCEPT ![p] = [q \in Node |-> IF q = p THEN <<>> ELSE @[q] \o Abs(nd).sent]]
  <2>1. Abs(nd).sent = t
      BY AbsIs
  <2>2. AllMeant(link)' = AllMeant(link')
      BY DEF AllMeant
  <2> HIDE DEF t, ms
  <2> QED
      BY <1>8, <2>1, <2>2
<1> QED
    BY <1>5, <1>9 DEF RunsAs
-----------------------------------------------------------------------------
(* Every step, as BinAA has it, and the inductive invariant.               *)

LEMMA JoinedWithIs ==
    ASSUME UInv
    PROVE  /\ JoinedWith \in SUBSET Chosen
           /\ Parted(JoinedWith) => Sound(JoinedWith)
           /\ \A p \in Node : node[p].round >= 0 => node[p].value \in JoinedWith
<1>1. JoinedWith \in SUBSET Chosen
  <2>1. \A p \in Node : node[p].value \in Chosen
      BY NodesAre
  <2> QED
      BY <2>1 DEF JoinedWith
<1>2. Parted(JoinedWith) => Sound(JoinedWith)
    BY <1>1 DEF UInv
<1> QED
    BY <1>1, <1>2 DEF JoinedWith

LEMMA InitSound == Init => UInv
<1> SUFFICES ASSUME Init PROVE UInv
    OBVIOUS
<1>1. PICK input \in Inputs : node = [p \in Node |-> Idle(input[p])]
    BY DEF Init
<1>2. IInv
    BY InitTyped
<1>3. \A p \in Node : /\ node[p].sent = <<>> /\ node[p].value = input[p] /\ node[p].round = -1
                      /\ node[p].out = <<>>
                      /\ node[p].levels = [l \in Levels |-> NewLevel(node[p].value, l)]
    BY <1>1 DEF Idle
<1>4. \A p \in Node : node[p].sent = <<>> /\ node[p].value \in Chosen
  <2>1. \A p \in Node : input[p] \in Chosen
      BY DEF Chosen
  <2> QED
      BY <1>3, <2>1
<1>6. \A p \in Node : Waits(node[p])
    BY <1>3 DEF Waits
<1>5. ASSUME NEW V \in SUBSET Chosen PROVE Sound(V)
  <2>1. \A p \in Node, q \in Node : link[p][q] = <<>>
      BY DEF Init
  <2>2. \A p \in Node, q \in Node : SentOK(V, link[p][q])
      BY <2>1 DEF SentOK
  <2>3. output = {}
      BY DEF Init
  <2> QED
      BY <1>3, <2>2, <2>3 DEF Sound, Waits
<1> QED
    BY <1>2, <1>4, <1>5, <1>6 DEF UInv, Steady

LEMMA JoinSound ==
    ASSUME Apart, UInv, NEW p \in Node, Join(p)
    PROVE  UInv' /\ PerCheckpoint!Join(p)
<1> DEFINE nd == node[p]
           out == StartBaa(nd, p, 0)
<1>1. /\ NodeOK(nd) /\ nd.sent = <<>> /\ nd.value \in Chosen /\ nd.round = -1 /\ LinksOK(link)
      /\ Run(p, out, link) /\ output' = output /\ ~nd.blocked
    BY NodesAre DEF Join, Live
<1>2. Waits(nd)
    BY <1>1, NodesAre
<1>3. 0 \in 0 .. Rounds + 1 /\ out = StartBaa(nd, p, 0)
    BY LevelAssumption
<1>4. NodeOK(out)
    BY <1>1, <1>3, StartBaaIs
<1>5. AllNodes[p] = Abs(nd)
    BY AllNodesAre
<1> HIDE DEF nd, out
<1>6. ASSUME NEW V \in SUBSET Chosen, Parted(V), nd.value \in V
      PROVE  /\ Good(V, out) /\ out.round = 0 /\ out.value = nd.value
             /\ Abs(out) = PerCheckpoint!StartBaa(Abs(nd), p, 0)
  <2>1. Good(V, nd) /\ MayBegin(nd.levels, 0, nd.value)
      BY <1>1, <1>2, <1>6, WaitingIsGood
  <2> QED
      BY <1>3, <1>6, <2>1, StartMeans
<1>7. /\ out.round = 0 /\ out.value = nd.value
      /\ Abs(out) = PerCheckpoint!StartBaa(Abs(nd), p, 0)
  <2> DEFINE V == {nd.value}
  <2>1. V \in SUBSET Chosen /\ Parted(V) /\ nd.value \in V
      BY <1>1, OneIsParted
  <2> HIDE DEF V
  <2> QED
      BY <1>6, <2>1
<1>8. Accounted(out, link)
  <2> SUFFICES ASSUME NEW V \in SUBSET Chosen, Parted(V), JoinedWith \subseteq V, out.value \in V
               PROVE  Good(V, out) /\ \A a \in Node, b \in Node : SentOK(V, link[a][b])
      BY DEF Accounted
  <2>1. Good(V, out)
      BY <1>6, <1>7
  <2> QED
      BY <2>1 DEF UInv, Sound
<1>9. UInv'
  <2>1. out.value = node[p].value /\ out.round >= 0
      BY <1>7 DEF nd
  <2> QED
      BY <1>1, <1>4, <1>8, <2>1, RunSound
<1>10. RunsAs(p, PerCheckpoint!StartBaa(AllNodes[p], p, 0), AllMeant(link))
  <2>1. RunsAs(p, Abs(out), AllMeant(link))
      BY <1>1, <1>4, RunMeans
  <2>2. Abs(out) = PerCheckpoint!StartBaa(AllNodes[p], p, 0)
      BY <1>5, <1>7
  <2> QED
      BY <2>1, <2>2 DEF RunsAs
<1>11. PerCheckpoint!Join(p)
  <2>1. ~AllNodes[p].blocked /\ AllNodes[p].round = -1
      BY <1>1, <1>5, AbsIs
  <2>2. {o[1] : o \in output}' = {o[1] : o \in output}
      BY <1>1
  <2> QED
      BY <1>10, <2>1, <2>2
      DEF PerCheckpoint!Join, PerCheckpoint!Live, PerCheckpoint!Run, RunsAs, AllNodes, AllMeant, Meant
<1> QED
    BY <1>9, <1>11

LEMMA DeliverSound ==
    ASSUME Apart, UInv, NEW p \in Node, NEW q \in Node, Deliver(q, p), StepsAlone(p)
    PROVE  UInv' /\ (Parted(JoinedWith) => PerCheckpoint!Deliver(q, p))
<1> DEFINE m == Head(link[q][p])
           nd == node[p]
           out == IF m.kind = "ECHO1" THEN ProcessBaaEcho(nd, p, m, q)
                  ELSE ProcessBaaEcho2(nd, p, m, q)
           lk == [link EXCEPT ![q][p] = Tail(@)]
           a == CheckpointMessage(m)
           aout == IF a.kind = "ECHO1" THEN PerCheckpoint!ProcessBaaEcho(AllNodes[p], p, a, q)
                   ELSE PerCheckpoint!ProcessBaaEcho2(AllNodes[p], p, a, q)
<1>1. /\ NodeOK(nd) /\ nd.sent = <<>> /\ nd.value \in Chosen /\ LinksOK(link)
      /\ nd.round >= 0 /\ ~nd.blocked /\ nd.round \in Int
      /\ Run(p, out, lk) /\ output' = output
  <2>1. NodeOK(nd) /\ nd.sent = <<>> /\ nd.value \in Chosen /\ LinksOK(link)
      BY NodesAre
  <2>2. Run(p, out, lk) /\ output' = output /\ nd.round >= 0 /\ ~nd.blocked
      BY DEF Deliver, Live
  <2> QED
      BY <2>1, <2>2, NodeIs
<1>2. link[q][p] \in Seq(Messages) /\ link[q][p] # <<>>
    BY <1>1 DEF Deliver, LinksOK
<1>3. m \in Messages /\ Tail(link[q][p]) \in Seq(Messages)
    BY <1>2
<1>4. LinksOK(lk)
    BY <1>1, <1>3 DEF LinksOK
<1>5. \A b \in Node, c \in Node : lk[b][c] = IF b = q /\ c = p THEN Tail(link[q][p]) ELSE link[b][c]
    BY <1>1 DEF LinksOK
<1>6. AllNodes[p] = Abs(nd)
    BY AllNodesAre
<1>7. Meant(link[q][p]) # <<>> /\ Head(Meant(link[q][p])) = a
      /\ Meant(Tail(link[q][p])) = Tail(Meant(link[q][p]))
    BY <1>2, MeantTail
<1>8. AllMeant(lk) = [AllMeant(link) EXCEPT ![q][p] = Tail(@)]
  <2>1. AllMeant(lk) = [b \in Node |-> [c \in Node |-> Meant(lk[b][c])]]
        /\ AllMeant(link) = [b \in Node |-> [c \in Node |-> Meant(link[b][c])]]
      BY DEF AllMeant
  <2> DEFINE t == Meant(Tail(link[q][p]))
  <2>2. \A b \in Node, c \in Node :
           Meant(lk[b][c]) = IF b = q /\ c = p THEN t ELSE Meant(link[b][c])
      BY <1>5
  <2>3. t = Tail(AllMeant(link)[q][p])
      BY <1>7, <2>1
  <2> HIDE DEF t, lk
  <2> DEFINE f(b, c) == Meant(link[b][c])
             g(b, c) == Meant(lk[b][c])
             L == AllMeant(link)
  <2>4. /\ L = [b \in Node |-> [c \in Node |-> f(b, c)]]
        /\ AllMeant(lk) = [b \in Node |-> [c \in Node |-> g(b, c)]]
      BY <2>1
  <2>5. \A b \in Node, c \in Node : g(b, c) = IF b = q /\ c = p THEN t ELSE f(b, c)
      BY <2>2
  <2>6. t = Tail(L[q][p])
      BY <2>3
  <2> HIDE DEF f, g, L
  <2>7. [L EXCEPT ![q][p] = t] = [b \in Node |-> [c \in Node |-> IF b = q /\ c = p THEN t ELSE f(b, c)]]
    <3> DEFINE row == [c \in Node |-> IF c = p THEN t ELSE f(q, c)]
    <3>1. [L[q] EXCEPT ![p] = t] = row
        BY <2>4
    <3>2. [L EXCEPT ![q][p] = t] = [L EXCEPT ![q] = [L[q] EXCEPT ![p] = t]]
        BY <2>4
    <3> HIDE DEF row
    <3>3. [L EXCEPT ![q] = row] = [b \in Node |-> IF b = q THEN row ELSE [c \in Node |-> f(b, c)]]
        BY <2>4
    <3>4. \A b \in Node : (IF b = q THEN row ELSE [c \in Node |-> f(b, c)])
                             = [c \in Node |-> IF b = q /\ c = p THEN t ELSE f(b, c)]
        BY DEF row
    <3> QED
        BY <3>1, <3>2, <3>3, <3>4
  <2>8. AllMeant(lk) = [L EXCEPT ![q][p] = t]
      BY <2>4, <2>5, <2>7
  <2>9. [L EXCEPT ![q][p] = t] = [L EXCEPT ![q][p] = Tail(@)]
      BY <2>6
  <2> QED
      BY <2>8, <2>9 DEF L
<1>9. a.kind = m.kind /\ a.round = m.round
    BY DEF CheckpointMessage
<1> HIDE DEF m, lk, a
<1>10. NodeOK(out)
    BY <1>1, <1>3, ProcessIs, Process2Is
<1>11. ASSUME NEW V \in SUBSET Chosen, Parted(V), JoinedWith \subseteq V
       PROVE  Good(V, nd) /\ EchosOK(V, Expanded(m.echos)) /\ SentOK(V, Tail(link[q][p]))
              /\ a.vals = Voices(Expanded(m.echos))
  <2>1. Sound(V)
      BY <1>11 DEF UInv
  <2>2. Good(V, nd)
      BY <1>1, <2>1 DEF Sound
  <2>3. SentOK(V, link[q][p])
      BY <2>1 DEF Sound
  <2> DEFINE s == link[q][p]
  <2>6. s \in Seq(Messages) /\ s # <<>> /\ SentOK(V, s) /\ m = Head(s)
      BY <1>2, <2>3 DEF m
  <2> HIDE DEF s
  <2>7. SentOK(V, Tail(s)) /\ EchosOK(V, Expanded(Head(s).echos))
      BY <2>6, SentTail
  <2>4. EchosOK(V, Expanded(m.echos)) /\ SentOK(V, Tail(link[q][p]))
      BY <2>6, <2>7 DEF s
  <2>5. a.vals = Voices(Expanded(m.echos))
    <3>1. a = PerCheckpoint!Msg(m.kind, m.round, Voices(Expanded(m.echos)))
        BY <2>4, MessageMeans DEF a
    <3> QED
        BY <3>1 DEF PerCheckpoint!Msg
  <2> QED
      BY <2>2, <2>4, <2>5
<1> HIDE DEF nd
<1>12. ASSUME NEW V \in SUBSET Chosen, Parted(V), JoinedWith \subseteq V
       PROVE  Good(V, out) /\ Abs(out) = aout
  <2>1. Good(V, nd) /\ EchosOK(V, Expanded(m.echos)) /\ a.vals = Voices(Expanded(m.echos))
      BY <1>11, <1>12
  <2>2. CASE m.kind = "ECHO1"
    <3>1. out = ProcessBaaEcho(nd, p, m, q) /\ aout = PerCheckpoint!ProcessBaaEcho(Abs(nd), p, a, q)
        BY <1>6, <1>9, <2>2
    <3> HIDE DEF out, aout
    <3>2. Good(V, out)
        BY <1>3, <1>9, <1>12, <2>1, <3>1, Echo1Means
    <3>3. Abs(out) = aout
        BY <1>3, <1>9, <1>12, <2>1, <3>1, Echo1Abs
    <3> QED
        BY <3>2, <3>3
  <2>3. CASE m.kind # "ECHO1"
    <3>1. out = ProcessBaaEcho2(nd, p, m, q) /\ aout = PerCheckpoint!ProcessBaaEcho2(Abs(nd), p, a, q)
        BY <1>6, <1>9, <2>3
    <3> HIDE DEF out, aout
    <3>2. Good(V, out)
        BY <1>3, <1>9, <1>12, <2>1, <3>1, Echo2Means
    <3>3. Abs(out) = aout
        BY <1>3, <1>9, <1>12, <2>1, <3>1, Echo2Abs
    <3> QED
        BY <3>2, <3>3
  <2> QED
      BY <2>2, <2>3
<1>13. Parted(JoinedWith) => Abs(out) = aout
  <2> HIDE DEF out, aout
  <2>1. JoinedWith \in SUBSET Chosen
      BY JoinedWithIs
  <2> QED
      BY <1>12, <2>1
<1>14. Accounted(out, lk)
  <2> HIDE DEF out, aout
  <2> SUFFICES ASSUME NEW V \in SUBSET Chosen, Parted(V), JoinedWith \subseteq V, out.value \in V
               PROVE  Good(V, out) /\ \A b \in Node, c \in Node : SentOK(V, lk[b][c])
      BY DEF Accounted
  <2>1. Good(V, out)
      BY <1>12
  <2>2. Sound(V)
      BY DEF UInv
  <2>3. \A b \in Node, c \in Node : SentOK(V, lk[b][c])
      BY <1>5, <1>11, <2>2 DEF Sound
  <2> QED
      BY <2>1, <2>3
<1>15. UInv'
  <2> HIDE DEF out, aout
  <2>1. out.value = node[p].value /\ out.round >= 0
    <3> DEFINE none == <<>>
               new == [out EXCEPT !.sent = none]
    <3>1. node' = [node EXCEPT ![p] = new]
        BY <1>1 DEF Run
    <3> HIDE DEF none
    <3>2. new.value = out.value /\ new.round = out.round
        BY <1>10, FieldsStay
    <3> HIDE DEF new
    <3>3. node'[p] = new
        BY <3>1 DEF UInv, IInv
    <3> QED
        BY <3>2, <3>3 DEF StepsAlone
  <2> QED
      BY <1>1, <1>4, <1>10, <1>14, <2>1, RunSound
<1>16. ASSUME Parted(JoinedWith) PROVE RunsAs(p, aout, AllMeant(lk))
  <2> HIDE DEF out, aout
  <2>0. NodeOK(out) /\ LinksOK(lk) /\ Run(p, out, lk)
      BY <1>1, <1>4, <1>10
  <2>1. RunsAs(p, Abs(out), AllMeant(lk))
      BY <2>0, RunMeans
  <2> QED
      BY <1>13, <1>16, <2>1 DEF RunsAs
<1>17. ASSUME Parted(JoinedWith) PROVE PerCheckpoint!Deliver(q, p)
  <2>1. ~AllNodes[p].blocked /\ AllNodes[p].round >= 0
      BY <1>1, <1>6, AbsIs
  <2>2. {o[1] : o \in output}' = {o[1] : o \in output}
      BY <1>1
  <2>3. a = Head(AllMeant(link)[q][p]) /\ AllMeant(link)[q][p] # <<>>
      BY <1>7 DEF AllMeant
  <2>4. RunsAs(p, aout, [AllMeant(link) EXCEPT ![q][p] = Tail(@)])
      BY <1>8, <1>16, <1>17 DEF RunsAs
  <2>5. LET mm == Head(AllMeant(link)[q][p])
        IN  RunsAs(p, IF mm.kind = "ECHO1" THEN PerCheckpoint!ProcessBaaEcho(AllNodes[p], p, mm, q)
                    ELSE PerCheckpoint!ProcessBaaEcho2(AllNodes[p], p, mm, q),
                 [AllMeant(link) EXCEPT ![q][p] = Tail(@)])
      BY <2>3, <2>4 DEF RunsAs
  <2> QED
      BY <2>1, <2>2, <2>3, <2>5
      DEF PerCheckpoint!Deliver, PerCheckpoint!Live, PerCheckpoint!Run, RunsAs, AllNodes, AllMeant, Meant
<1> QED
    BY <1>15, <1>17

LEMMA ForwardSound ==
    ASSUME UInv, NEW p \in Node, ForwardResult(p)
    PROVE  UInv' /\ PerCheckpoint!ForwardResult(p)
<1> DEFINE nd == node[p]
           o == <<>>
           new == [nd EXCEPT !.out = o]
           result == nd.out[1]
<1>1. /\ NodeOK(nd) /\ nd.sent = <<>> /\ nd.value \in Chosen /\ nd.out # <<>> /\ ~nd.blocked
      /\ link' = link /\ output' = output \union {<<p, result>>}
      /\ node' = [node EXCEPT ![p] = new]
    BY NodesAre DEF ForwardResult, Live
<1>2. IInv'
    BY NextTyped DEF UInv, Next, Step
<1>3. \A q \in Node : node'[q] = IF q = p THEN new ELSE node[q]
    BY <1>1 DEF UInv, IInv
<1>4. AllNodes[p] = Abs(nd)
    BY AllNodesAre
<1>5. Len(nd.out) = 1
    BY <1>1, NodeIs
<1> HIDE DEF nd
<1>6. /\ new.value = nd.value /\ new.round = nd.round /\ new.levels = nd.levels
      /\ new.out = <<>> /\ new.blocked = nd.blocked /\ new.sent = nd.sent
  <2> HIDE DEF o
  <2>1. new = ANode(nd.value, nd.round, nd.levels, o, nd.blocked, nd.sent)
      BY <1>1, NodeChanges
  <2>2. /\ new.value = nd.value /\ new.round = nd.round /\ new.levels = nd.levels
        /\ new.out = o /\ new.blocked = nd.blocked /\ new.sent = nd.sent
      BY <2>1 DEF ANode
  <2> QED
      BY <2>2 DEF o
<1>7. AllNodes' = [AllNodes EXCEPT ![p].out = 0]
  <2> DEFINE a == Abs(new)
  <2>1. a = [Abs(nd) EXCEPT !.out = Len(o)]
      BY <1>1, AbsChanges
  <2>2. Len(o) = 0
      OBVIOUS
  <2>3. CheckpointNode(new) = a
      BY <1>1, <1>6, CheckpointNodeIs
  <2> HIDE DEF a, new
  <2>4. \A q \in Node : CheckpointNode(node'[q]) = IF q = p THEN a ELSE CheckpointNode(node[q])
      BY <1>3, <2>3
  <2>5. AllNodes' = [q \in Node |-> CheckpointNode(node'[q])]
        /\ AllNodes = [q \in Node |-> CheckpointNode(node[q])]
      BY DEF AllNodes
  <2>6. AllNodes' = [AllNodes EXCEPT ![p] = a]
      BY <2>4, <2>5
  <2>7. a = [AllNodes[p] EXCEPT !.out = 0]
      BY <1>4, <2>1, <2>2
  <2> QED
      BY <2>5, <2>6, <2>7
<1> HIDE DEF new
<1>12. nd.round # -1
    BY <1>1, NodesAre DEF Waits, nd
<1>8. \A q \in Node : Steady(node'[q])
  <2>1. \A q \in Node : Steady(node[q])
      BY DEF UInv
  <2> QED
      BY <1>1, <1>3, <1>6, <1>12, <2>1 DEF Steady
<1>13. \A V : Parted(V)' <=> Parted(V)
    BY DEF Parted
<1>9. ASSUME NEW V \in SUBSET Chosen, Parted(V), JoinedWith' \subseteq V PROVE Sound(V)'
  <2>1. \A q \in Node : node'[q].value = node[q].value /\ node'[q].round = node[q].round
      BY <1>3, <1>6 DEF nd
  <2>2. JoinedWith' = JoinedWith
      BY <2>1 DEF JoinedWith
  <2>3. Sound(V)
      BY <1>9, <2>2 DEF UInv
  <2>4. Good(V, nd)
      BY <1>12, <2>3 DEF Sound, nd
  <2>5. Good(V, new)
    <3>1. NodeOK(new)
        BY <1>2, <1>3 DEF IInv
    <3>2. OutOK(V, <<>>)
        BY DEF OutOK
    <3> QED
        BY <1>6, <2>4, <3>1, <3>2 DEF Good
  <2>6. \A q \in Node : IF node'[q].round = -1 THEN Waits(node'[q]) ELSE Good(V, node'[q])
      BY <1>3, <1>6, <1>12, <2>3, <2>5 DEF Sound
  <2>7. Judged(V, result)
      BY <1>5, <2>4 DEF Good, OutOK, nd
  <2>8. \A x \in output' : x \in output \/ x[2] = result
      BY <1>1
  <2>9. \A x \in output' : Judged(V, x[2])
      BY <2>3, <2>7, <2>8 DEF Sound
  <2>10. \A a \in Node, b \in Node : SentOK(V, link'[a][b])
      BY <1>1, <2>3 DEF Sound
  <2> QED
      BY <2>6, <2>9, <2>10 DEF Sound
<1>10. UInv'
    BY <1>2, <1>8, <1>9, <1>13 DEF UInv
<1>11. PerCheckpoint!ForwardResult(p)
  <2>1. ~AllNodes[p].blocked /\ AllNodes[p].out = 1
      BY <1>1, <1>4, <1>5, AbsIs DEF nd
  <2>2. {x[1] : x \in output}' = {x[1] : x \in output} \union {p}
    <3>1. \A x \in output' : x \in output \/ x = <<p, result>>
        BY <1>1
    <3>2. <<p, result>> \in output' /\ output \subseteq output' /\ <<p, result>>[1] = p
        BY <1>1
    <3> HIDE DEF result
    <3>3. {x[1] : x \in output'} \subseteq {x[1] : x \in output} \union {p}
        BY <3>1
    <3>4. p \in {x[1] : x \in output'}
        BY <3>2
    <3>5. {x[1] : x \in output} \subseteq {x[1] : x \in output'}
        BY <3>2
    <3> QED
        BY <3>3, <3>4, <3>5
  <2> QED
      BY <1>1, <1>7, <2>1, <2>2
      DEF PerCheckpoint!ForwardResult, PerCheckpoint!Live, AllNodes, AllMeant, Meant
<1> QED
    BY <1>10, <1>11

LEMMA InitMeans == Init => PerCheckpoint!Init
<1> SUFFICES ASSUME Init PROVE PerCheckpoint!Init
    OBVIOUS
<1>1. PICK input \in Inputs : node = [p \in Node |-> Idle(input[p])]
    BY DEF Init
<1> DEFINE weighed == [p \in Node |-> [c \in Checkpoints |-> Weighed(input[p], c)]]
<1>2. ASSUME NEW p \in Node PROVE AllNodes[p] = PerCheckpoint!Idle(weighed[p])
  <2> DEFINE v == input[p]
             levels == [l \in Levels |-> NewLevel(v, l)]
             nd == node[p]
             rs == [c \in Checkpoints |-> [k \in 0 .. Rounds |-> NoState]]
  <2>1. nd = ANode(v, -1, levels, <<>>, FALSE, <<>>)
      BY <1>1 DEF Idle, ANode
  <2>2. v \in {LowVal, HighVal}
      BY DelphiAssumption
  <2>3. \A c \in Place : RsAt(levels, c) = [k \in 0 .. Rounds |-> NoState]
    <3>1. {v} \in Camps /\ v \in {v} /\ levels = [l \in Levels |-> NewLevel(v, l)]
        BY <2>2 DEF Camps
    <3> HIDE DEF levels, v
    <3> QED
        BY <3>1, UniformAtFirst
  <2>4. RsOf(levels) = rs
      BY <2>3, CheckpointsAre DEF RsOf
  <2> HIDE DEF nd, levels, rs
  <2>5. CheckpointNode(nd) = BNode(InputOf(v), -1, RsOf(levels), 0, FALSE, <<>>)
    <3>1. nd.value = v /\ nd.round = -1 /\ nd.levels = levels /\ nd.out = <<>> /\ nd.blocked = FALSE
        BY <2>1 DEF ANode
    <3>2. Len(<<>>) = 0
        OBVIOUS
    <3> HIDE DEF v
    <3> QED
        BY <3>1, <3>2, CheckpointNodeIs
  <2>6. AllNodes[p] = CheckpointNode(nd)
      BY DEF AllNodes, nd
  <2>7. weighed[p] = InputOf(v)
      BY DEF InputOf
  <2> HIDE DEF weighed, v
  <2>8. PerCheckpoint!Idle(weighed[p]) = BNode(InputOf(v), -1, rs, 0, FALSE, <<>>)
    <3> DEFINE ars == [c \in Checkpoints |-> [k \in 0 .. Rounds |-> PerCheckpoint!NoState]]
    <3>1. PerCheckpoint!NoState = NoState
        BY SameBegun
    <3>2. ars = rs
        BY <3>1 DEF rs
    <3>3. PerCheckpoint!Idle(weighed[p]) = BNode(weighed[p], -1, ars, 0, FALSE, <<>>)
        BY DEF PerCheckpoint!Idle, BNode
    <3> HIDE DEF ars
    <3> QED
        BY <2>7, <3>2, <3>3
  <2> QED
      BY <2>4, <2>5, <2>6, <2>8
<1>3. AllNodes = [p \in Node |-> PerCheckpoint!Idle(weighed[p])]
  <2>1. AllNodes = [p \in Node |-> AllNodes[p]]
      BY DEF AllNodes
  <2> HIDE DEF weighed
  <2> QED
      BY <1>2, <2>1
<1>4. AllMeant(link) = [p \in Node |-> [q \in Node |-> <<>>]]
  <2>1. \A p \in Node, q \in Node : Meant(link[p][q]) = <<>>
      BY MeantNothing DEF Init
  <2> QED
      BY <2>1 DEF AllMeant
<1>5. {o[1] : o \in output} = {}
    BY DEF Init
<1>6. weighed \in {[p \in Node |-> [c \in Checkpoints |-> Weighed(i[p], c)]] : i \in Inputs}
    OBVIOUS
<1> QED
    BY <1>3, <1>4, <1>5, <1>6 DEF PerCheckpoint!Init, AllNodes, AllMeant, Meant

LEMMA NextSound ==
    ASSUME Apart, HInv, UInv, [Next]_vars
    PROVE  UInv' /\ (Parted(JoinedWith) => [PerCheckpoint!Next]_(PerCheckpoint!vars))
<1>1. ASSUME NEW p \in Node, Join(p) PROVE UInv' /\ PerCheckpoint!Next
  <2>1. UInv' /\ PerCheckpoint!Join(p)
      BY <1>1, JoinSound
  <2> QED
      BY <2>1 DEF PerCheckpoint!Next, PerCheckpoint!Step
<1>2. ASSUME NEW p \in Node, NEW q \in Node, Deliver(q, p)
      PROVE  UInv' /\ (Parted(JoinedWith) => PerCheckpoint!Next)
  <2>1. StepsAlone(p)
      BY <1>2, DeliverHeld
  <2>2. UInv' /\ (Parted(JoinedWith) => PerCheckpoint!Deliver(q, p))
      BY <1>2, <2>1, DeliverSound
  <2> QED
      BY <2>2 DEF PerCheckpoint!Next, PerCheckpoint!Step
<1>3. ASSUME NEW p \in Node, ForwardResult(p) PROVE UInv' /\ PerCheckpoint!Next
  <2>1. UInv' /\ PerCheckpoint!ForwardResult(p)
      BY <1>3, ForwardSound
  <2> QED
      BY <2>1 DEF PerCheckpoint!Next, PerCheckpoint!Step
<1>4. ASSUME UNCHANGED vars PROVE UInv' /\ UNCHANGED PerCheckpoint!vars
  <2>1. node' = node /\ link' = link /\ output' = output
      BY <1>4 DEF vars
  <2>2. UInv'
    <3>1. IInv'
        BY <2>1 DEF UInv, IInv
    <3>2. JoinedWith' = JoinedWith
        BY <2>1 DEF JoinedWith
    <3>3. \A V : (Sound(V)' <=> Sound(V)) /\ (Parted(V)' <=> Parted(V))
        BY <2>1 DEF Sound, Parted
    <3> QED
        BY <2>1, <3>1, <3>2, <3>3 DEF UInv
  <2>3. UNCHANGED PerCheckpoint!vars
      BY <2>1 DEF PerCheckpoint!vars
  <2> QED
      BY <2>2, <2>3
<1> QED
    BY <1>1, <1>2, <1>3, <1>4 DEF Next, Step

LEMMA UInvHolds == ASSUME Apart PROVE Spec => [](HInv /\ UInv)
<1>1. HInv /\ UInv /\ [Next]_vars => UInv'
    BY NextSound
<1> QED
    BY InitSound, HeldAlways, <1>1, PTL DEF Spec

\* Every checkpoint runs the BinAA that its nodes weigh it for, whatever is split, compressed,
\* coalesced and expanded: read checkpoint by checkpoint, every step of Delphi is a step of
\* BinAA or changes nothing, for every set of nodes and levels, as long as the values that
\* nodes join with are parted: one value, or two that no level weighs at checkpoints that
\* touch.
THEOREM RunsPerCheckpointHolds ==
    ASSUME Apart
    PROVE  Spec /\ []Parted(JoinedWith) => RunsPerCheckpoint
<1>1. Spec => [](HInv /\ UInv)
    BY UInvHolds
<1>2. HInv /\ UInv /\ [Next]_vars /\ Parted(JoinedWith) => [PerCheckpoint!Next]_(PerCheckpoint!vars)
    BY NextSound
<1>3. Init => PerCheckpoint!Init
    BY InitMeans
<1> QED
    BY <1>1, <1>2, <1>3, PTL DEF Spec, RunsPerCheckpoint, PerCheckpoint!Spec
-----------------------------------------------------------------------------
(* What levels make of one value is aggregated to its checkpoint.          *)

\* A sum with one summand is that.
LEMMA SumOne ==
    ASSUME NEW s, NEW N \in Nat, Len(s) = N, NEW j \in 1 .. N, s[j] \in Int,
           \A i \in 1 .. N : i # j => s[i] = 0
    PROVE  Sum(s) = s[j]
<1> DEFINE step == [n \in Nat |-> [t \in Int |-> IF n \in 1 .. N THEN t + s[n] ELSE t]]
           Is(f) == f = [n \in 0 .. N |-> IF n = 0 THEN 0 ELSE f[n - 1] + s[n]]
           run == CHOOSE f : Is(f)
<1>1. \A n \in 1 .. N : s[n] \in Int
    OBVIOUS
<1>2. Sum(s) = run[N]
    BY DEF Sum
<1>4. step \in [Nat -> [Int -> Int]]
  <2>1. \A n \in Nat, t \in Int : (IF n \in 1 .. N THEN t + s[n] ELSE t) \in Int
      BY <1>1
  <2> QED
      BY <2>1
<1> DEFINE Z == Int
           z == 0
<1>3. z \in Z /\ step \in [Nat -> [Z -> Z]]
    BY <1>4
<1> HIDE DEF step, Z, z
<1>5. PICK g : Runs(g, N, Z, z, step)
    BY <1>3, SomeRun
<1>6. g \in [0 .. N -> Int] /\ g = [n \in 0 .. N |-> IF n = 0 THEN 0 ELSE step[n][g[n - 1]]]
    BY <1>5 DEF Runs, Z, z
<1>7. ASSUME NEW n \in 0 .. N PROVE g[n] = IF n = 0 THEN 0 ELSE g[n - 1] + s[n]
  <2>1. CASE n # 0
    <3>1. n \in 1 .. N /\ n \in Nat /\ n - 1 \in 0 .. N
        BY <2>1
    <3>2. g[n - 1] \in Int
        BY <1>6, <3>1
    <3>3. step[n][g[n - 1]] = g[n - 1] + s[n]
        BY <3>1, <3>2 DEF step
    <3> QED
        BY <1>6, <2>1, <3>3
  <2> QED
      BY <1>6, <2>1
<1>8. Is(g)
    BY <1>6, <1>7
<1>9. Is(run)
    BY <1>8
<1> HIDE DEF run
<1>10. \A n \in 0 .. N : run[n] = IF n = 0 THEN 0 ELSE run[n - 1] + s[n]
    BY <1>9
<1> DEFINE T == {n \in 0 .. N : run[n] = IF n < j THEN 0 ELSE s[j]}
<1>11. 0 \in T
  <2>1. 0 \in 0 .. N /\ 0 < j
      OBVIOUS
  <2>2. run[0] = 0
      BY <1>10, <2>1
  <2> QED
      BY <2>1, <2>2
<1>12. ASSUME NEW n \in 0 .. N - 1, n \in T PROVE n + 1 \in T
  <2>1. n + 1 \in 1 .. N /\ n + 1 \in 0 .. N /\ n + 1 # 0 /\ (n + 1) - 1 = n
      OBVIOUS
  <2>2. run[n + 1] = run[n] + s[n + 1]
      BY <1>10, <2>1
  <2>3. run[n] = IF n < j THEN 0 ELSE s[j]
      BY <1>12
  <2>4. CASE n + 1 = j
      BY <2>1, <2>2, <2>3, <2>4
  <2>5. CASE n + 1 # j
    <3>1. s[n + 1] = 0
        BY <2>1, <2>5
    <3> QED
        BY <2>1, <2>2, <2>3, <2>5, <3>1
  <2> QED
      BY <2>4, <2>5
<1> HIDE DEF T
<1>13. \A n \in 0 .. N : n \in T
    BY <1>11, <1>12, UpTo
<1>14. N \in T
    BY <1>13
<1>15. run[N] = s[j]
    BY <1>14 DEF T
<1> QED
    BY <1>2, <1>15

LEMMA WidthIs ==
    2 ^ Width \in Nat \ {0} /\ 2 ^ Width = MaxPoint - MinPoint + 1
<1> DEFINE h == 2 ^ (Width - 1)
<1>1. h \in Nat \ {0} /\ 2 ^ Width = 2 * h /\ MinPoint = -h /\ MaxPoint = h - 1
    BY LevelPowers DEF MinPoint, MaxPoint
<1> HIDE DEF h
<1> QED
    BY <1>1

\* What fits a machine integer does not wrap.
LEMMA WrappedIs ==
    ASSUME NEW x \in Int
    PROVE  Wrapped(x) \in Int /\ (MinPoint <= x /\ x <= MaxPoint => Wrapped(x) = x)
<1> DEFINE m == 2 ^ Width
           y == x - MinPoint
<1>1. m \in Nat \ {0} /\ m = MaxPoint - MinPoint + 1 /\ MinPoint \in Int /\ MaxPoint \in Int
    BY WidthIs, EndsAre
<1>2. y \in Int /\ Wrapped(x) = (y % m) + MinPoint
    BY <1>1 DEF Wrapped
<1>5. y = x - MinPoint
    OBVIOUS
<1> HIDE DEF m, y
<1>3. (y % m) \in Int
    BY <1>1, <1>2
<1>4. ASSUME MinPoint <= x, x <= MaxPoint PROVE (y % m) = y
  <2>1. y \in 0 .. m - 1
      BY <1>1, <1>4, <1>5
  <2> QED
      BY <1>1, <2>1
<1> QED
    BY <1>1, <1>2, <1>3, <1>4, <1>5

\* Interval k of a level is what v weighs, and no other weighs anything.
Peaks(ints, k, v, l) ==
    /\ ints[k].start = AroundFrom(v, l) /\ ints[k].end = AroundTo(v, l) /\ Term(ints[k]) = MaxInput
    /\ \A i \in DOMAIN ints : i # k => Term(ints[i]) = 0

\* Where all joined with one value, the last round ends with what it weighs.
LEMMA EndsAsWeighed ==
    ASSUME NEW v \in {LowVal, HighVal}, NEW levels, Uniform({v}, levels),
           \A c \in Place : Terminated(RsAt(levels, c)[Rounds]), NEW c \in Place
    PROVE  RsAt(levels, c)[Rounds].term = IF Weighs(v, c) THEN MaxInput ELSE 0
<1> DEFINE t == RsAt(levels, c)[Rounds].term
<1>1. t # NoVal
    BY DEF Terminated
<1>2. Rounds \in 0 .. Rounds
    BY LevelAssumption
<1>3. t \in Values({v}, c) \union {NoVal}
    BY <1>2 DEF Uniform, Holds
<1>4. CASE Weighs(v, c)
  <2>1. Kind({v}, c) = {v}
      BY <1>4 DEF Kind
  <2>2. {v} # {}
      OBVIOUS
  <2>3. Values({v}, c) = {MaxInput}
      BY <2>1, <2>2 DEF Values
  <2> QED
      BY <1>1, <1>3, <1>4, <2>3
<1>5. CASE ~Weighs(v, c)
  <2>1. Kind({v}, c) = {}
      BY <1>5 DEF Kind
  <2>2. Values({v}, c) = {0}
      BY <2>1 DEF Values
  <2> QED
      BY <1>1, <1>3, <1>5, <2>2
<1> QED
    BY <1>4, <1>5

LEMMA OneCell ==
    ASSUME NEW v \in {LowVal, HighVal}, NEW levels, Uniform({v}, levels),
           \A c \in Place : Terminated(RsAt(levels, c)[Rounds]), NEW l \in Levels
    PROVE  \E k \in DOMAIN levels[l] : Peaks(levels[l], k, v, l)
<1> DEFINE V == {v}
           ints == levels[l]
           from == AroundFrom(v, l)
           to == AroundTo(v, l)
<1>1. V \in Camps /\ v \in V /\ Parted(V)
    BY OneIsParted DEF Camps
<1>2. Tiled(ints) /\ Edged(ints, Edges(V, l))
    BY TilingIs DEF Uniform
<1>3. /\ from \in Int /\ to \in Int /\ from < to /\ from \in Point /\ to \in Point
      /\ MinPoint < from /\ to < MaxPoint
    BY CellIs
<1>4. \A y \in Point : /\ StateAt(ints, y)[Rounds].term = IF from <= y /\ y < to THEN MaxInput ELSE 0
                       /\ y \in Int
  <2> SUFFICES ASSUME NEW y \in Point
               PROVE  StateAt(ints, y)[Rounds].term = IF from <= y /\ y < to THEN MaxInput ELSE 0
      BY DEF Point
  <2> DEFINE c == <<l, y>>
  <2>1. c \in Place /\ c[1] = l /\ c[2] = y
      BY PlaceIs
  <2> HIDE DEF c
  <2>2. RsAt(levels, c)[Rounds].term = IF Weighs(v, c) THEN MaxInput ELSE 0
      BY <2>1, EndsAsWeighed
  <2> QED
      BY <2>1, <2>2 DEF RsAt, Weighs
<1>5. \A x \in Edges(V, l) : /\ from <= x /\ x < to => x = from
                             /\ from < x /\ x <= to => x = to
                             /\ x \in Int
    BY <1>1, EdgesWithin, EdgesAre
<1>6. MaxInput # 0
    BY LevelPowers
<1> HIDE DEF V, ints, from, to
<1>7. /\ DOMAIN ints = 1 .. Len(ints)
      /\ \A i \in DOMAIN ints : /\ ints[i].start \in Int /\ ints[i].end \in Int
                                /\ ints[i].start < ints[i].end
                                /\ ints[i].start \in Edges(V, l) /\ ints[i].end \in Edges(V, l)
                                /\ ints[i].start \in Point /\ Covers(ints[i], ints[i].start)
    BY <1>2, TilesAre, StartIs DEF Edged
<1>8. \A i \in DOMAIN ints, y \in Point : Covers(ints[i], y) =>
         Term(ints[i]) = IF from <= y /\ y < to THEN MaxInput ELSE 0
    BY <1>2, <1>4, AtIs DEF Term
<1>9. PICK k \in DOMAIN ints : Covers(ints[k], from)
    BY <1>2, <1>3, CoveredOnce
<1>10. Term(ints[k]) = MaxInput
    BY <1>3, <1>8, <1>9
<1>11. ints[k].start = from
  <2>1. from <= ints[k].start /\ ints[k].start < to
      BY <1>6, <1>7, <1>8, <1>10
  <2> QED
      BY <1>5, <1>7, <2>1
<1>12. ints[k].end = to
  <2>1. ~(to < ints[k].end)
    <3> SUFFICES ASSUME to < ints[k].end PROVE FALSE
        OBVIOUS
    <3>1. Covers(ints[k], to)
        BY <1>3, <1>11 DEF Covers
    <3>2. Term(ints[k]) = 0
        BY <1>3, <1>8, <3>1
    <3> QED
        BY <1>6, <1>10, <3>2
  <2>2. from < ints[k].end /\ ints[k].end <= to
      BY <1>3, <1>7, <1>11, <2>1
  <2> QED
      BY <1>5, <1>7, <2>2
<1>13. ASSUME NEW i \in DOMAIN ints, i # k PROVE Term(ints[i]) = 0
  <2> DEFINE y == ints[i].start
  <2>1. y \in Point /\ Covers(ints[i], y)
      BY <1>7
  <2> HIDE DEF y
  <2>2. ~Covers(ints[k], y)
      BY <1>2, <1>13, <2>1, CoveredOnce
  <2>3. ~(from <= y /\ y < to)
      BY <1>11, <1>12, <2>2 DEF Covers
  <2> QED
      BY <1>8, <2>1, <2>3
<1>14. Peaks(ints, k, v, l)
    BY <1>10, <1>11, <1>12, <1>13 DEF Peaks, from, to
<1> QED
    BY <1>14 DEF ints

\* The checkpoints of a value, and the point between them, fit a machine integer.
Fits ==
    \A v \in {LowVal, HighVal} :
        /\ AroundFrom(v, 0) + AroundTo(v, 0) <= MaxPoint
        /\ \A l \in Levels : AroundTo(v, l) - AroundFrom(v, l) <= MaxPoint

LEMMA QuotientExact ==
    ASSUME NEW m \in Int, NEW n \in Nat \ {0}, NEW x, x = m * n
    PROVE  Quotient(x, n) = m
<1>1. x \in Int /\ m * n \in Int /\ (-m) * n = -(m * n) /\ (m >= 0 => m * n >= 0)
      /\ (m < 0 => m * n < 0)
  <2>1. ASSUME m >= 0 PROVE m * n >= 0
      BY <2>1
  <2>2. ASSUME m < 0 PROVE m * n < 0
    <3>1. 0 * n = 0 /\ m \in Int /\ m + 1 \in Int /\ m + 1 <= 0
        BY <2>2
    <3>2. (m + 1) * n <= 0 * n
        BY <3>1, Cancel
    <3>3. (m + 1) * n = m * n + n /\ m * n \in Int
        BY <3>1
    <3> QED
        BY <3>1, <3>2, <3>3
  <2> QED
      BY <2>1, <2>2
<1>2. CASE m >= 0
  <2>1. m \in Int /\ x \in Nat /\ m * n <= x /\ x < m * n + n
      BY <1>1, <1>2
  <2> QED
      BY <2>1, QuotientOnce
<1>3. CASE ~(m >= 0)
  <2> DEFINE j == -m
             y == -x
  <2>1. j \in Int /\ y \in Nat /\ j * n = y /\ ~(x >= 0) /\ m = -j
      BY <1>1, <1>3
  <2>5. Quotient(x, n) = -(y \div n)
      BY <2>1 DEF Quotient
  <2> HIDE DEF j, y
  <2>2. j * n <= y /\ y < j * n + n
      BY <2>1
  <2>3. Quotient(y, n) = j
      BY <2>1, <2>2, QuotientOnce
  <2>4. y >= 0
      BY <2>1
  <2>6. Quotient(y, n) = y \div n
      BY <2>4 DEF Quotient
  <2> QED
      BY <2>1, <2>3, <2>5, <2>6
<1> QED
    BY <1>2, <1>3

\* Three checkpoints' worth
LEMMA LengthIs ==
    ASSUME Fits, NEW v \in {LowVal, HighVal}, NEW l \in Levels
    PROVE  Quotient(Wrapped(AroundTo(v, l) - AroundFrom(v, l)), Sep(l)) = 3
<1> DEFINE s == Sep(l)
           k == Quotient(v, s)
           d == AroundTo(v, l) - AroundFrom(v, l)
<1>1. s \in Nat \ {0} /\ k \in Int
    BY SepIs, QuotientIs, DelphiAssumption
<1>2. AroundFrom(v, l) = (k - 1) * s /\ AroundTo(v, l) = (k + 2) * s
    BY DEF AroundFrom, AroundTo
<1> HIDE DEF s, k
<1>3. (k + 2) * s = (k - 1) * s + 3 * s /\ (k - 1) * s \in Int /\ 3 * s \in Nat
    BY <1>1
<1>4. d = 3 * s
    BY <1>2, <1>3
<1>5. d <= MaxPoint
    BY DEF Fits
<1> HIDE DEF d
<1>6. d \in Int /\ MinPoint <= d
  <2>1. MinPoint <= 0
    <3>1. 2 ^ (Width - 1) \in Nat
        BY LevelPowers
    <3> QED
        BY <3>1 DEF MinPoint
  <2>2. MinPoint \in Int
      BY EndsAre
  <2> QED
      BY <1>3, <1>4, <2>1, <2>2
<1>7. Wrapped(d) = d
    BY <1>5, <1>6, WrappedIs
<1>8. Quotient(d, s) = 3
    BY <1>1, <1>4, QuotientExact
<1> QED
    BY <1>7, <1>8 DEF d, s

\* A level where one value weighs counts in full, for the point between its checkpoints.
LEMMA CellResult ==
    ASSUME Fits, NEW v \in {LowVal, HighVal}, NEW l \in Levels, NEW ints, Tiled(ints),
           NEW k \in DOMAIN ints, Peaks(ints, k, v, l), NEW w
    PROVE  /\ LevelResult(ints, l, w).weight = MaxInput
           /\ LevelResult(ints, l, w).value
                = Quotient(Wrapped(AroundFrom(v, l) + AroundTo(v, l)), 2)
           /\ LevelResult(ints, l, w).value \in Int
<1> DEFINE n == Len(ints)
           M == [i \in DOMAIN ints |-> Mass(ints[i], l)]
           P == [i \in DOMAIN ints |-> Mid(ints[i]) * Mass(ints[i], l)]
           T == {Term(ints[i]) : i \in DOMAIN ints} \union {0}
           mid == Quotient(Wrapped(AroundFrom(v, l) + AroundTo(v, l)), 2)
<1>1. n \in Nat /\ DOMAIN ints = 1 .. n /\ k \in 1 .. n
      /\ \A i \in 1 .. n : ints[i].start \in Int /\ ints[i].end \in Int
    BY TilesAre
<1>2. MaxInput \in Nat \ {0}
    BY LevelPowers
<1>3. Sep(l) \in Nat \ {0} /\ 2 \in Nat \ {0}
    BY SepIs
<1>4. ASSUME NEW i \in 1 .. n
      PROVE  Mid(ints[i]) \in Int /\ Quotient(Wrapped(ints[i].end - ints[i].start), Sep(l)) \in Int
  <2>1. ints[i].end - ints[i].start \in Int /\ ints[i].start + ints[i].end \in Int
      BY <1>1
  <2>2. Wrapped(ints[i].end - ints[i].start) \in Int /\ Wrapped(ints[i].start + ints[i].end) \in Int
      BY <2>1, WrappedIs
  <2> QED
      BY <1>3, <2>2, QuotientIs DEF Mid
<1>5. Mid(ints[k]) = mid /\ mid \in Int
    BY <1>1, <1>4 DEF Peaks, Mid
<1>6. Mass(ints[k], l) = MaxInput * 3
  <2>1. Quotient(Wrapped(ints[k].end - ints[k].start), Sep(l)) = 3
      BY LengthIs DEF Peaks
  <2> QED
      BY <2>1 DEF Peaks, Mass
<1>7. ASSUME NEW i \in 1 .. n, i # k PROVE Mass(ints[i], l) = 0 /\ Mid(ints[i]) * Mass(ints[i], l) = 0
  <2>1. Term(ints[i]) = 0
      BY <1>1, <1>7 DEF Peaks
  <2> DEFINE q == Quotient(Wrapped(ints[i].end - ints[i].start), Sep(l))
             m == Mid(ints[i])
  <2>2. q \in Int /\ m \in Int /\ Mass(ints[i], l) = 0 * q
      BY <1>4, <2>1 DEF Mass
  <2> HIDE DEF q, m
  <2>3. 0 * q = 0 /\ m * 0 = 0
      BY <2>2
  <2> QED
      BY <2>2, <2>3 DEF m
<1>8. Len(M) = n /\ Len(P) = n
    BY <1>1
<1>9. \A i \in 1 .. n : M[i] = Mass(ints[i], l) /\ P[i] = Mid(ints[i]) * Mass(ints[i], l)
    BY <1>1
<1>10. T = {0, MaxInput}
  <2>1. \A i \in DOMAIN ints : Term(ints[i]) = IF i = k THEN MaxInput ELSE 0
      BY DEF Peaks
  <2> QED
      BY <2>1
<1>11. Peak(ints) = MaxInput
  <2>1. Peak(ints) = Max({0, MaxInput})
      BY <1>10 DEF Peak
  <2>2. \A x \in {0, MaxInput} : (\A y \in {0, MaxInput} : x >= y) <=> x = MaxInput
      BY <1>2
  <2>3. Max({0, MaxInput}) = MaxInput
      BY <2>2 DEF Max
  <2> QED
      BY <2>1, <2>3
<1>12. LevelResult(ints, l, w) = LevelMean(ints, l, w, Sum(M))
    BY DEF LevelResult
<1>13. LevelMean(ints, l, w, Sum(M)) = IF Sum(M) = 0
         THEN [weight |-> Epsilon, value |-> Quotient(w, Epsilon)]
         ELSE [weight |-> Peak(ints), value |-> Quotient(Sum(P), Sum(M))]
    BY DEF LevelMean
<1> HIDE DEF M, P, T, n
<1> DEFINE t == MaxInput * 3
<1>14. t \in Nat \ {0} /\ t \in Int /\ mid * t \in Int
    BY <1>2, <1>5
<1>15. M[k] = t /\ P[k] = mid * t /\ (\A i \in 1 .. n : i # k => M[i] = 0 /\ P[i] = 0)
    BY <1>1, <1>5, <1>6, <1>7, <1>9
<1> HIDE DEF t, mid
<1>16. Sum(M) = t
  <2>1. Len(M) = n /\ n \in Nat /\ k \in 1 .. n /\ M[k] \in Int /\ \A i \in 1 .. n : i # k => M[i] = 0
      BY <1>1, <1>8, <1>14, <1>15
  <2>2. Sum(M) = M[k]
      BY <2>1, SumOne
  <2> QED
      BY <1>15, <2>2
<1>17. Sum(P) = mid * t
  <2>1. Len(P) = n /\ n \in Nat /\ k \in 1 .. n /\ P[k] \in Int /\ \A i \in 1 .. n : i # k => P[i] = 0
      BY <1>1, <1>8, <1>14, <1>15
  <2>2. Sum(P) = P[k]
      BY <2>1, SumOne
  <2> QED
      BY <1>15, <2>2
<1>18. Quotient(Sum(P), t) = mid
    BY <1>5, <1>14, <1>17, QuotientExact
<1>19. LevelResult(ints, l, w) = [weight |-> MaxInput, value |-> mid]
    BY <1>11, <1>12, <1>13, <1>14, <1>16, <1>18
<1> QED
    BY <1>5, <1>19 DEF mid

\* Levels that all count in full give the value of the lowest.
LEMMA MeanOfFull ==
    ASSUME NEW res, \A l \in Levels : res[l].weight = MaxInput /\ res[l].value \in Int
    PROVE  Mean(res) = res[0].value
<1> DEFINE N == TotalLevels
           P == [i \in 1 .. N |-> res[i - 1].value * Weight(res, i - 1)]
           W == [i \in 1 .. N |-> Weight(res, i - 1)]
           x == res[0].value
<1>1. N \in Nat \ {0} /\ 1 \in 1 .. N /\ MaxInput \in Nat \ {0} /\ 0 \in Levels
    BY LevelAssumption, LevelPowers DEF Levels
<1>2. x \in Int
    BY <1>1
<1>3. Weight(res, 0) = MaxInput
    BY <1>1 DEF Weight
<1>4. ASSUME NEW i \in 1 .. N, i # 1 PROVE W[i] = 0 /\ P[i] = 0
  <2>1. i - 1 \in Levels /\ i - 1 - 1 \in Levels /\ i - 1 # 0
      BY <1>4, LevelAssumption DEF Levels
  <2>2. Distance(MaxInput, MaxInput) = 0
      BY <1>1 DEF Distance
  <2>3. Weight(res, i - 1) = MaxInput * 0
      BY <2>1, <2>2 DEF Weight
  <2>4. MaxInput * 0 = 0 /\ \A y \in Int : y * 0 = 0
      BY <1>1
  <2> QED
      BY <2>1, <2>3, <2>4
<1>5. W[1] = MaxInput /\ P[1] = x * MaxInput
    BY <1>1, <1>3
<1>6. Len(W) = N /\ Len(P) = N
    BY <1>1
<1>7. Mean(res) = Quotient(Sum(P), Sum(W))
    BY DEF Mean
<1> HIDE DEF N, P, W, x
<1>8. x * MaxInput \in Int /\ MaxInput \in Int
    BY <1>1, <1>2
<1>9. Sum(W) = MaxInput
    BY <1>1, <1>4, <1>5, <1>6, <1>8, SumOne
<1>10. Sum(P) = x * MaxInput
    BY <1>1, <1>4, <1>5, <1>6, <1>8, SumOne
<1>11. Quotient(Sum(P), MaxInput) = x
    BY <1>1, <1>2, <1>10, QuotientExact
<1> QED
    BY <1>7, <1>9, <1>11 DEF x

\* Nodes that joined with the same value end with the point between its checkpoints.
LEMMA AloneIs ==
    ASSUME Fits, NEW v \in {LowVal, HighVal}, NEW x, Judged({v}, x)
    PROVE  x = Quotient(AroundFrom(v, 0) + AroundTo(v, 0), 2)
<1>1. PICK levels \in [Levels -> Tilings], w \in {v} :
         /\ Uniform({v}, levels) /\ \A c \in Place : Terminated(RsAt(levels, c)[Rounds])
         /\ x = Aggregate(levels, w)
    BY DEF Judged
<1> DEFINE res == [l \in Levels |-> LevelResult(levels[l], l, w)]
<1>2. ASSUME NEW l \in Levels
      PROVE  /\ res[l].weight = MaxInput /\ res[l].value \in Int
             /\ res[l].value = Quotient(Wrapped(AroundFrom(v, l) + AroundTo(v, l)), 2)
  <2>1. PICK k \in DOMAIN levels[l] : Peaks(levels[l], k, v, l)
      BY <1>1, OneCell
  <2>2. Tiled(levels[l])
      BY TilingIs
  <2>3. res[l] = LevelResult(levels[l], l, w)
      OBVIOUS
  <2> HIDE DEF res
  <2> QED
      BY <2>1, <2>2, <2>3, CellResult
<1>3. x = Mean(res)
    BY <1>1 DEF Aggregate
<1> HIDE DEF res
<1>4. Mean(res) = res[0].value
    BY <1>2, MeanOfFull
<1>5. 0 \in Levels
    BY LevelAssumption DEF Levels
<1> DEFINE y == AroundFrom(v, 0) + AroundTo(v, 0)
<1>6. y \in Int /\ MinPoint <= y /\ y <= MaxPoint
  <2>1. /\ v \in Nat /\ AroundFrom(v, 0) \in Int /\ AroundTo(v, 0) \in Int
        /\ MinPoint < AroundFrom(v, 0)
      BY <1>5, CellIs
  <2>2. AroundTo(v, 0) > v
      BY <1>5, <2>1, AroundIs
  <2>3. y <= MaxPoint
      BY DEF Fits
  <2> QED
      BY <2>1, <2>2, <2>3, EndsAre
<1> HIDE DEF y
<1>7. Wrapped(y) = y
    BY <1>6, WrappedIs
<1> QED
    BY <1>2, <1>3, <1>4, <1>5, <1>7 DEF y

\* The two values lie a checkpoint of level 0 apart, as they do where there is a level at
\* all: their distance is tri, levels are counted from tri / rho (context.rs:168).
Spread == LowVal + Sep(0) <= HighVal

\* The point between the checkpoints of a value is on the side of the value.
LEMMA SideStays ==
    ASSUME Spread, NEW v \in {LowVal, HighVal}, NEW x,
           x = Quotient(AroundFrom(v, 0) + AroundTo(v, 0), 2)
    PROVE  Side(x) = Side(v)
<1> DEFINE s == Sep(0)
           k == Quotient(v, s)
           c == k * s
           y == AroundFrom(v, 0) + AroundTo(v, 0)
           w == HighVal + LowVal
           m == Quotient(w, 2)
<1>1. 0 \in Levels /\ v \in Nat /\ LowVal \in Nat /\ HighVal \in Nat /\ w \in Nat
      /\ 2 \in Nat \ {0}
    BY LevelAssumption, DelphiAssumption DEF Levels
<1>2. s \in Nat \ {0}
    BY <1>1, SepIs
<1>3. k \in Int /\ c <= v /\ v < c + s
    BY <1>1, <1>2, QuotientBelow
<1>4. k >= 0
  <2>1. k = v \div s
      BY <1>1 DEF Quotient
  <2> HIDE DEF s, k
  <2> QED
      BY <1>1, <1>2, <2>1
<1>5. AroundFrom(v, 0) = (k - 1) * s /\ AroundTo(v, 0) = (k + 2) * s
    BY DEF AroundFrom, AroundTo
<1>6. c \in Nat /\ (k - 1) * s = c - s /\ (k + 2) * s = c + s + s
  <2> HIDE DEF s, k
  <2> QED
      BY <1>2, <1>3, <1>4
<1> HIDE DEF c, k
<1>7. y = c + c + s /\ y \in Nat
    BY <1>2, <1>5, <1>6
<1>8. LowVal + s <= HighVal
    BY DEF Spread
<1>9. x = Quotient(y, 2) /\ m = Quotient(w, 2) /\ w = HighVal + LowVal
    OBVIOUS
<1>10. Side(x) = (IF x > m THEN "high" ELSE "low") /\ Side(v) = (IF v > m THEN "high" ELSE "low")
    BY DEF Side
<1> HIDE DEF s, y, w, m
<1>11. x \in Int /\ x * 2 <= y /\ y < x * 2 + 2
    BY <1>1, <1>7, <1>9, QuotientBelow
<1>12. m \in Int /\ m * 2 <= w /\ w < m * 2 + 2
    BY <1>1, <1>9, QuotientBelow
<1>13. CASE v = LowVal
  <2>1. ~(x > m) /\ ~(v > m)
      BY <1>1, <1>2, <1>3, <1>6, <1>7, <1>8, <1>9, <1>11, <1>12, <1>13
  <2> QED
      BY <1>10, <2>1
<1>14. CASE v = HighVal
  <2>1. x > m /\ v > m
      BY <1>1, <1>2, <1>3, <1>6, <1>7, <1>8, <1>9, <1>11, <1>12, <1>14
  <2> QED
      BY <1>10, <2>1
<1> QED
    BY <1>13, <1>14
-----------------------------------------------------------------------------
(* What Delphi promises AACS.                                              *)

\* A node has one result.
OneEach == \A o \in output, u \in output : o[1] = u[1] => o = u

LEMMA OneMoreResult ==
    ASSUME UInv, OnceInv, OneEach, NEW p \in Node, ForwardResult(p)
    PROVE  /\ OneEach' /\ ~HandedOver(p)
           /\ \A q \in Node : node'[q].value = node[q].value /\ node'[q].round = node[q].round
<1>1. /\ node[p].out # <<>> /\ output' = output \union {<<p, node[p].out[1]>>}
      /\ node' = [node EXCEPT ![p].out = <<>>]
    BY DEF ForwardResult
<1>2. ~HandedOver(p)
    BY <1>1 DEF OnceInv
<1>3. \A o \in output' : o \in output \/ o = <<p, node[p].out[1]>>
    BY <1>1
<1>4. OneEach'
    BY <1>2, <1>3 DEF OneEach, HandedOver
<1> DEFINE new == [node[p] EXCEPT !.out = <<>>]
<1>5. node' = [node EXCEPT ![p] = new]
    BY <1>1
<1>6. new.value = node[p].value /\ new.round = node[p].round
    BY FieldsStay DEF UInv, IInv
<1> HIDE DEF new
<1>7. \A q \in Node : node'[q] = IF q = p THEN new ELSE node[q]
    BY <1>5 DEF UInv, IInv
<1> QED
    BY <1>2, <1>4, <1>6, <1>7

LEMMA OneEachStays ==
    ASSUME UInv, OnceInv, OneEach, [Next]_vars
    PROVE  OneEach'
<1>1. ASSUME NEW p \in Node, ForwardResult(p) PROVE OneEach'
    BY <1>1, OneMoreResult
<1>2. ASSUME output' = output PROVE OneEach'
    BY <1>2 DEF OneEach
<1> QED
    BY <1>1, <1>2 DEF Next, Step, Join, Deliver, vars

\* What AACS sees of the instance: the sides nodes joined with, and those it ended on.
JoinedSide(nd) == IF nd.round = -1 THEN "no" ELSE Side(nd.value)
ResultOf(p)    == (CHOOSE o \in output : o[1] = p)[2]
EndedSide(p)   == IF HandedOver(p) THEN Side(ResultOf(p)) ELSE "no"

Sides == [p \in Node |-> JoinedSide(node[p])]
Ends  == [p \in Node |-> EndedSide(p)]

LEMMA SideIs == \A v : Side(v) \in {"low", "high"} /\ Side(v) # "no"
BY DEF Side

LEMMA PromisedAre ==
    /\ Promised!Init <=> Sides = [p \in Node |-> "no"] /\ Ends = [p \in Node |-> "no"]
    /\ (UNCHANGED Promised!vars) <=> UNCHANGED <<Sides, Ends>>
BY DEF Promised!Init, Promised!vars, Sides, Ends, JoinedSide, EndedSide, HandedOver, ResultOf

PromisedJoin(p, side) ==
    Sides[p] = "no" /\ Sides' = [Sides EXCEPT ![p] = side] /\ Ends' = Ends

PromisedEnd(p, side) ==
    /\ Sides[p] # "no" /\ Ends[p] = "no"
    /\ Cardinality({q \in Node : Sides[q] # "no"}) + NumFaults >= NumNodes
    /\ \E q \in Node : Sides[q] = side
    /\ Ends' = [Ends EXCEPT ![p] = side] /\ Sides' = Sides

LEMMA PromisedSteps ==
    \A p \in Node, side \in {"low", "high"} :
        PromisedJoin(p, side) \/ PromisedEnd(p, side) => Promised!Next
<1> SUFFICES ASSUME NEW p \in Node, NEW side \in {"low", "high"},
                    PromisedJoin(p, side) \/ PromisedEnd(p, side)
             PROVE  Promised!Next
    OBVIOUS
<1>1. ASSUME PromisedJoin(p, side) PROVE Promised!Join(p, side)
    BY <1>1 DEF PromisedJoin, Promised!Join, Sides, Ends, JoinedSide, EndedSide, HandedOver, ResultOf
<1>2. ASSUME PromisedEnd(p, side) PROVE Promised!End(p, side)
  <2> DEFINE S == {q \in Node : Sides[q] # "no"}
             Q == {T \in SUBSET Node : Cardinality(T) + NumFaults >= NumNodes}
  <2>1. S \in Q
      BY <1>2 DEF PromisedEnd
  <2>2. S = {q \in Node : [n \in Node |-> IF node[n].round = -1 THEN "no" ELSE Side(node[n].value)][q] # "no"}
      BY DEF Sides, JoinedSide
  <2> HIDE DEF S, Q
  <2> QED
      BY <1>2, <2>1, <2>2
      DEF PromisedEnd, Promised!End, Sides, Ends, JoinedSide, EndedSide, HandedOver, ResultOf, Q
<1> QED
    BY <1>1, <1>2 DEF Promised!Next

\* The results so far stay.
LEMMA EndsStay == output' = output => Ends' = Ends
BY DEF Ends, EndedSide, HandedOver, ResultOf

LEMMA InitPromised == Init => Promised!Init
<1> SUFFICES ASSUME Init PROVE Promised!Init
    OBVIOUS
<1>1. \A p \in Node : node[p].round = -1
    BY DEF Init, Idle
<1>2. output = {}
    BY DEF Init
<1>3. \A p \in Node : JoinedSide(node[p]) = "no" /\ EndedSide(p) = "no"
    BY <1>1, <1>2 DEF JoinedSide, EndedSide, HandedOver
<1> QED
    BY <1>3, PromisedAre DEF Sides, Ends

LEMMA JoinPromised ==
    ASSUME UInv, NEW p \in Node, Join(p), StepsAlone(p)
    PROVE  Promised!Next
<1>1. node[p].round = -1 /\ output' = output
    BY DEF Join
<1>2. node'[p].round >= 0 /\ node'[p].value = node[p].value
      /\ \A q \in Node : q # p => node'[q] = node[q]
    BY DEF StepsAlone
<1>3. JoinedSide(node[p]) = "no" /\ JoinedSide(node'[p]) = Side(node[p].value)
    BY <1>1, <1>2 DEF JoinedSide
<1>4. Sides' = [q \in Node |-> JoinedSide(node'[q])] /\ Sides = [q \in Node |-> JoinedSide(node[q])]
    BY DEF Sides
<1> DEFINE side == Side(node[p].value)
<1>5. side \in {"low", "high"}
    BY SideIs
<1>6. JoinedSide(node'[p]) = side
    BY <1>3
<1> HIDE DEF side
<1>7. Sides' = [Sides EXCEPT ![p] = side]
    BY <1>2, <1>4, <1>6
<1>8. Sides[p] = "no"
    BY <1>3, <1>4
<1>9. Ends' = Ends
    BY <1>1, EndsStay
<1> QED
    BY <1>5, <1>7, <1>8, <1>9, PromisedSteps DEF PromisedJoin

LEMMA DeliverPromised ==
    ASSUME UInv, NEW p \in Node, NEW q \in Node, Deliver(q, p), StepsAlone(p)
    PROVE  UNCHANGED Promised!vars
<1>1. node[p].round >= 0 /\ output' = output
    BY DEF Deliver
<1>2. node'[p].round >= 0 /\ node'[p].value = node[p].value
      /\ \A a \in Node : a # p => node'[a] = node[a]
    BY DEF StepsAlone
<1>3. \A a \in Node : JoinedSide(node'[a]) = JoinedSide(node[a])
    BY <1>1, <1>2 DEF JoinedSide
<1>4. Sides' = Sides
    BY <1>3 DEF Sides
<1>5. Ends' = Ends
    BY <1>1, EndsStay
<1> QED
    BY <1>4, <1>5, PromisedAre

\* A result is on the side of a value that was joined with.
LEMMA SideJoined ==
    ASSUME Spread, Fits, UInv, NEW p \in Node, node[p].round > 0, node[p].out # <<>>,
           NEW x, x = node[p].out[1]
    PROVE  \E q \in Node : Sides[q] = Side(x)
<1>1. JoinedWith \subseteq Chosen
    BY JoinedWithIs
<1>2. NodeOK(node[p]) /\ node[p].round # -1 /\ node[p].value \in JoinedWith
  <2>1. NodeOK(node[p])
      BY NodesAre
  <2>2. node[p].round \in Int
      BY <2>1, NodeIs
  <2> QED
      BY <2>1, <2>2, JoinedWithIs
<1>5. ASSUME NEW v \in JoinedWith PROVE \E q \in Node : Sides[q] = Side(v)
  <2>1. PICK q \in Node : node[q].round >= 0 /\ node[q].value = v
      BY DEF JoinedWith
  <2>2. node[q].round # -1
      BY <2>1
  <2> QED
      BY <2>1, <2>2 DEF Sides, JoinedSide
<1>6. Chosen \subseteq {LowVal, HighVal}
    BY ChosenAre
<1>7. CASE \E v \in {LowVal, HighVal} : JoinedWith = {v}
  <2>1. PICK v \in {LowVal, HighVal} : JoinedWith = {v}
      BY <1>7
  <2>2. x = Quotient(AroundFrom(v, 0) + AroundTo(v, 0), 2)
    <3>1. Sound(JoinedWith)
        BY <2>1, OneIsParted, JoinedWithIs
    <3>2. Good({v}, node[p])
        BY <1>2, <2>1, <3>1 DEF Sound
    <3>3. Len(node[p].out) = 1
        BY <1>2, NodeIs
    <3>4. 1 \in DOMAIN node[p].out
        BY <3>2, <3>3 DEF Good, OutOK
    <3>5. Judged({v}, x)
        BY <3>2, <3>4 DEF Good, OutOK
    <3> QED
        BY <3>5, AloneIs
  <2>3. Side(x) = Side(v)
      BY <2>2, SideStays
  <2> QED
      BY <1>5, <2>1, <2>3
<1>8. CASE LowVal \in JoinedWith /\ HighVal \in JoinedWith
  <2> DEFINE m == Quotient(HighVal + LowVal, 2)
  <2>1. Side(LowVal) = "low" /\ Side(HighVal) = "high"
    <3>1. LowVal \in Nat /\ HighVal \in Nat /\ LowVal < HighVal
        BY DelphiAssumption
    <3>2. HighVal + LowVal \in Nat /\ 2 \in Nat \ {0}
        BY <3>1
    <3>3. m \in Int /\ m * 2 <= HighVal + LowVal /\ HighVal + LowVal < m * 2 + 2
        BY <3>2, QuotientBelow
    <3>4. Side(LowVal) = (IF LowVal > m THEN "high" ELSE "low")
          /\ Side(HighVal) = (IF HighVal > m THEN "high" ELSE "low")
        BY DEF Side
    <3> HIDE DEF m
    <3>5. ~(LowVal > m) /\ HighVal > m
        BY <3>1, <3>3
    <3> QED
        BY <3>4, <3>5
  <2>2. Side(x) = Side(LowVal) \/ Side(x) = Side(HighVal)
      BY <2>1, SideIs
  <2> QED
      BY <1>5, <1>8, <2>2
<1> QED
    BY <1>1, <1>2, <1>6, <1>7, <1>8

LEMMA ForwardPromised ==
    ASSUME Spread, Fits, UInv, QuorateInv, OnceInv, OneEach, NEW p \in Node, ForwardResult(p)
    PROVE  Promised!Next
<1> DEFINE x == node[p].out[1]
           side == Side(x)
<1>1. /\ node[p].out # <<>> /\ output' = output \union {<<p, x>>}
    BY DEF ForwardResult
<1>2. /\ OneEach' /\ ~HandedOver(p)
      /\ \A q \in Node : node'[q].value = node[q].value /\ node'[q].round = node[q].round
    BY OneMoreResult
<1>3. node[p].round = Rounds + 1 /\ node[p].round > 0 /\ node[p].round # -1
    BY <1>1, LevelAssumption DEF OnceInv
<1>4. \E q \in Node : Sides[q] = side
    BY <1>1, <1>3, SideJoined
<1>5. Cardinality({q \in Node : Sides[q] # "no"}) + NumFaults >= NumNodes
  <2>1. Cardinality({q \in Node : node[q].round >= 0}) >= HighThreshold
      BY <1>3 DEF QuorateInv, Arrived
  <2>2. \A q \in Node : Sides[q] # "no" <=> node[q].round >= 0
    <3> SUFFICES ASSUME NEW q \in Node PROVE Sides[q] # "no" <=> node[q].round >= 0
        OBVIOUS
    <3>1. node[q].round \in -1 .. Rounds + 1 /\ node[q].round \in Int
        BY NodeIs DEF UInv, IInv
    <3>2. node[q].round >= 0 <=> node[q].round # -1
        BY <3>1
    <3> QED
        BY <3>2, SideIs DEF Sides, JoinedSide
  <2> DEFINE c == Cardinality({q \in Node : Sides[q] # "no"})
  <2>3. {q \in Node : Sides[q] # "no"} = {q \in Node : node[q].round >= 0}
      BY <2>2
  <2>4. c >= HighThreshold /\ c \in Nat
    <3>1. IsFiniteSet({q \in Node : Sides[q] # "no"})
        BY LevelAssumption, FS_Subset
    <3> QED
        BY <2>1, <2>3, <3>1, FS_CardinalityType
  <2>5. NumNodes \in Nat /\ NumFaults \in Nat
      BY LevelAssumption, FS_CardinalityType DEF NumNodes
  <2> HIDE DEF c
  <2>6. c + NumFaults >= NumNodes
      BY <2>4, <2>5 DEF HighThreshold
  <2> QED
      BY <2>6 DEF c
<1>6. Sides' = Sides
  <2>1. \A q \in Node : JoinedSide(node'[q]) = JoinedSide(node[q])
      BY <1>2 DEF JoinedSide
  <2> QED
      BY <2>1 DEF Sides
<1> HIDE DEF x, side
<1>7. HandedOver(p)' /\ ResultOf(p)' = x
  <2>1. <<p, x>> \in output' /\ <<p, x>>[1] = p /\ <<p, x>>[2] = x
      BY <1>1
  <2> DEFINE o == CHOOSE u \in output' : u[1] = p
  <2>2. o \in output' /\ o[1] = p
      BY <2>1
  <2>3. o = <<p, x>>
      BY <1>2, <2>1, <2>2 DEF OneEach
  <2> QED
      BY <2>1, <2>3 DEF HandedOver, ResultOf
<1>8. ASSUME NEW q \in Node, q # p
      PROVE  (HandedOver(q)' <=> HandedOver(q)) /\ (HandedOver(q) => ResultOf(q)' = ResultOf(q))
  <2>1. \A u \in output' : u[1] = q => u \in output
      BY <1>1, <1>8
  <2>2. output \subseteq output'
      BY <1>1
  <2>3. HandedOver(q)' <=> HandedOver(q)
      BY <2>1, <2>2 DEF HandedOver
  <2>4. ASSUME HandedOver(q) PROVE ResultOf(q)' = ResultOf(q)
    <3> DEFINE o == CHOOSE u \in output : u[1] = q
               w == CHOOSE u \in output' : u[1] = q
    <3>1. o \in output /\ o[1] = q
        BY <2>4 DEF HandedOver
    <3>2. w \in output' /\ w[1] = q
        BY <2>2, <3>1
    <3>3. o = w
        BY <1>2, <2>2, <3>1, <3>2 DEF OneEach
    <3> QED
        BY <3>3 DEF ResultOf
  <2> QED
      BY <2>3, <2>4
<1>9. Ends' = [Ends EXCEPT ![p] = side]
  <2>1. EndedSide(p)' = side
      BY <1>7 DEF EndedSide, side
  <2>2. ASSUME NEW q \in Node, q # p PROVE EndedSide(q)' = EndedSide(q)
      BY <1>8, <2>2 DEF EndedSide
  <2>3. Ends' = [q \in Node |-> EndedSide(q)'] /\ Ends = [q \in Node |-> EndedSide(q)]
      BY DEF Ends
  <2> QED
      BY <2>1, <2>2, <2>3
<1>10. Ends[p] = "no" /\ Sides[p] # "no"
    BY <1>2, <1>3, SideIs DEF Ends, EndedSide, Sides, JoinedSide
<1>11. side \in {"low", "high"}
    BY SideIs DEF side
<1> QED
    BY <1>4, <1>5, <1>6, <1>9, <1>10, <1>11, PromisedSteps DEF PromisedEnd

LEMMA NextPromised ==
    ASSUME Spread, Fits, HInv, UInv, OneEach, [Next]_vars
    PROVE  [Promised!Next]_(Promised!vars)
<1>1. ASSUME NEW p \in Node, Join(p) PROVE Promised!Next
  <2>1. StepsAlone(p)
      BY <1>1, JoinHeld
  <2> QED
      BY <1>1, <2>1, JoinPromised
<1>2. ASSUME NEW p \in Node, NEW q \in Node, Deliver(q, p) PROVE UNCHANGED Promised!vars
  <2>1. StepsAlone(p)
      BY <1>2, DeliverHeld
  <2> QED
      BY <1>2, <2>1, DeliverPromised
<1>3. ASSUME NEW p \in Node, ForwardResult(p) PROVE Promised!Next
    BY <1>3, HInvMeans, ForwardPromised
<1>4. ASSUME UNCHANGED vars PROVE UNCHANGED Promised!vars
  <2>1. Ends' = Ends
      BY <1>4, EndsStay DEF vars
  <2>2. Sides' = Sides
      BY <1>4 DEF vars, Sides
  <2> QED
      BY <2>1, <2>2, PromisedAre
<1> QED
    BY <1>1, <1>2, <1>3, <1>4 DEF Next, Step

\* Delphi does for AACS what Outcome promises: a node has a result only when n - f nodes have
\* joined, itself among them, and on the side of a value that one of them joined with,
\* whatever checkpoints the two values weigh and share.  Who counts and when a node goes on
\* is the same whatever is said (HInv); where both values were joined with either side will
\* do, and where one was the levels are of one mind (UInv).
THEOREM KeepsPromiseHolds ==
    ASSUME Apart, Fits, Spread
    PROVE  Spec => KeepsPromise
<1>1. Spec => [](HInv /\ UInv)
    BY UInvHolds
<1>2. Init => OneEach
    BY DEF Init, OneEach
<1>3. HInv /\ UInv /\ OneEach /\ [Next]_vars => OneEach'
    BY HInvMeans, OneEachStays
<1>4. HInv /\ UInv /\ OneEach /\ [Next]_vars => [Promised!Next]_(Promised!vars)
    BY NextPromised
<1>5. Init => Promised!Init
    BY InitPromised
<1> QED
    BY <1>1, <1>2, <1>3, <1>4, <1>5, PTL DEF Spec, KeepsPromise, Promised!Spec

\* Nobody leaves round 0 before n - f nodes have joined, and nobody hands over a second
\* result: only senders that have joined are counted, whatever intervals they speak of, and a
\* node that handed its result over is past every message.
THEOREM QuorateAndOnce == Spec => [](QuorateInv /\ OnceInv)
BY HeldAlways, HInvMeans, PTL

\* Nodes that all joined with one value agree on the point between its checkpoints, less than
\* the width of one away.
OneValueStays ==
    \A v \in Chosen : JoinedWith \subseteq {v} =>
        \A o \in output : /\ o[2] = Quotient(AroundFrom(v, 0) + AroundTo(v, 0), 2)
                          /\ v - Sep(0) < o[2] /\ o[2] < v + Sep(0)

LEMMA CloseBy ==
    ASSUME NEW v \in {LowVal, HighVal}, NEW x, x = Quotient(AroundFrom(v, 0) + AroundTo(v, 0), 2)
    PROVE  v - Sep(0) < x /\ x < v + Sep(0)
<1> DEFINE s == Sep(0)
           i == Quotient(v, s)
           j == Quotient(x, s)
<1>1. 0 \in Levels /\ v \in Nat
    BY LevelAssumption, DelphiAssumption DEF Levels
<1>2. s \in Nat \ {0}
    BY <1>1, SepIs
<1>3. x \in Nat /\ AroundFrom(x, 0) = AroundFrom(v, 0)
    BY <1>1, PointStands
<1>4. /\ i \in Int /\ i * s <= v /\ v < i * s + s
      /\ j \in Int /\ j * s <= x /\ x < j * s + s
    BY <1>1, <1>2, <1>3, QuotientBelow
<1>5. (j - 1) * s = (i - 1) * s
    BY <1>3 DEF AroundFrom
<1> HIDE DEF s, i, j
<1>6. (j - 1) * s = j * s - s /\ (i - 1) * s = i * s - s /\ j * s \in Int /\ i * s \in Int
    BY <1>2, <1>4
<1>7. v - s < x /\ x < v + s
    BY <1>1, <1>2, <1>3, <1>4, <1>5, <1>6
<1> QED
    BY <1>7 DEF s

\* What Delphi::aggregate makes of the levels when all joined with one value: the same at
\* every node, whatever the order of messages, and about that value (OutputsInRange then).
THEOREM OneValueAgreed ==
    ASSUME Apart, Fits
    PROVE  Spec => []OneValueStays
<1>1. ASSUME UInv PROVE OneValueStays
  <2> SUFFICES ASSUME NEW v \in Chosen, JoinedWith \subseteq {v}, NEW o \in output
               PROVE  /\ o[2] = Quotient(AroundFrom(v, 0) + AroundTo(v, 0), 2)
                      /\ v - Sep(0) < o[2] /\ o[2] < v + Sep(0)
      BY DEF OneValueStays
  <2>1. {v} \in SUBSET Chosen /\ v \in {LowVal, HighVal}
      BY ChosenAre
  <2>2. Sound({v})
      BY <1>1, <2>1, OneIsParted DEF UInv
  <2>3. Judged({v}, o[2])
      BY <2>2 DEF Sound
  <2> DEFINE x == o[2]
  <2>4. x = Quotient(AroundFrom(v, 0) + AroundTo(v, 0), 2)
      BY <2>1, <2>3, AloneIs
  <2> HIDE DEF x
  <2>5. v - Sep(0) < x /\ x < v + Sep(0)
      BY <2>1, <2>4, CloseBy
  <2> QED
      BY <2>4, <2>5 DEF x
<1> QED
    BY <1>1, UInvHolds, PTL
=============================================================================
