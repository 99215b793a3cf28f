---------------------------- MODULE LevelProofs -----------------------------
(***************************************************************************)
(* One level of Delphi may be read point by point, for every number of     *)
(* nodes, levels and rounds and whatever intervals it has.                 *)
(*                                                                         *)
(* Its intervals cover every point once. Splitting, compressing and        *)
(* hearing twice are invisible at a point: it begins a round with what     *)
(* the round before ended with there, hears each entry of an ECHO1 or      *)
(* ECHO2 that covers it, and what is said of it is what it answers.        *)
(***************************************************************************)
EXTENDS Level, FirstFew, SequenceTheorems
-----------------------------------------------------------------------------
(* Intervals, points and the state of a point.                             *)

\* A round of an interval.  A slot amplifies as soon as f + 1 nodes are counted in it.
Slot == [val : Int, echo1 : SUBSET Node, echo2 : SUBSET Node, sent1 : BOOLEAN, sent2 : BOOLEAN]

Calm(rs) ==
    NumFaults > 0 =>
        \A i \in DOMAIN rs.slots : rs.slots[i].sent1 \/ Cardinality(rs.slots[i].echo1) < MinThreshold

Fields == [slots : Seq(Slot), echo1vals : SUBSET Int, term : Int]

RoundState ==
    {rs \in Fields : /\ Len(rs.slots) <= 2 /\ IsFiniteSet(rs.echo1vals)
                     /\ rs # NoState => rs.slots # <<>>
                     /\ Calm(rs)}

AnInterval == [start : Int, end : Int, state : [0 .. Rounds -> RoundState]]

\* The intervals of a level follow each other from one end of the range to the other.
Tiled(ints) ==
    /\ ints \in Seq(AnInterval) /\ Len(ints) >= 1
    /\ \A i \in 1 .. Len(ints) : ints[i].start < ints[i].end
    /\ \A i \in 1 .. Len(ints) - 1 : ints[i].end = ints[i + 1].start
    /\ ints[1].start = MinPoint /\ ints[Len(ints)].end = MaxPoint

\* A point and the intervals it may lie in
Point == {y \in Int : MinPoint <= y /\ y < MaxPoint}

StateAt(ints, y) == At(ints, y).state

LEMMA EndsAre == MinPoint \in Int /\ MaxPoint \in Int /\ MinPoint < MaxPoint
<1>1. ASSUME NEW h \in Nat \ {0} PROVE -h \in Int /\ h - 1 \in Int /\ -h < h - 1
    OBVIOUS
<1>2. 2 ^ (Width - 1) \in Nat \ {0}
    BY LevelPowers
<1> QED
    BY <1>1, <1>2 DEF MinPoint, MaxPoint

LEMMA TilesAre ==
    ASSUME NEW ints, Tiled(ints)
    PROVE  /\ Len(ints) \in Nat \ {0} /\ DOMAIN ints = 1 .. Len(ints)
           /\ 1 \in DOMAIN ints /\ Len(ints) \in DOMAIN ints
           /\ ints \in Seq(AnInterval)
           /\ \A i \in 1 .. Len(ints) :
                 /\ ints[i] \in AnInterval /\ ints[i].start \in Int /\ ints[i].end \in Int
                 /\ ints[i].start < ints[i].end
           /\ \A i \in 1 .. Len(ints) - 1 : ints[i].end = ints[i + 1].start
           /\ ints[1].start = MinPoint /\ ints[Len(ints)].end = MaxPoint
<1>1. ints \in Seq(AnInterval) /\ Len(ints) >= 1
    BY DEF Tiled
<1>2. /\ Len(ints) \in Nat /\ DOMAIN ints = 1 .. Len(ints)
      /\ \A i \in 1 .. Len(ints) : ints[i] \in AnInterval
    BY <1>1
<1>3. \A t \in AnInterval : t.start \in Int /\ t.end \in Int
    BY DEF AnInterval
<1> QED
    BY <1>1, <1>2, <1>3 DEF Tiled

\* An interval begins where those before it are over.
LEMMA Ascending ==
    ASSUME NEW ints, Tiled(ints), NEW i \in DOMAIN ints, NEW j \in DOMAIN ints, i < j
    PROVE  ints[i].end <= ints[j].start
<1> DEFINE n == Len(ints)
           T == {k \in Nat : i + 1 + k <= n => ints[i].end <= ints[i + 1 + k].start}
<1>1. n \in Nat /\ DOMAIN ints = 1 .. n /\ i \in 1 .. n /\ j \in 1 .. n
    BY TilesAre
<1>2. \A k \in 1 .. n : ints[k].start \in Int /\ ints[k].end \in Int /\ ints[k].start < ints[k].end
    BY TilesAre
<1>3. \A k \in 1 .. n - 1 : ints[k].end = ints[k + 1].start
    BY TilesAre
<1> HIDE DEF n
<1>4. 0 \in T
    BY <1>1, <1>2, <1>3
<1>5. ASSUME NEW k \in Nat, k \in T PROVE k + 1 \in T
  <2> SUFFICES ASSUME i + 1 + (k + 1) <= n PROVE ints[i].end <= ints[i + 1 + (k + 1)].start
      OBVIOUS
  <2> DEFINE m == i + 1 + k
  <2>1. m \in 1 .. n - 1 /\ m + 1 = i + 1 + (k + 1) /\ m \in 1 .. n /\ m + 1 \in 1 .. n
      BY <1>1
  <2>2. ints[i].end <= ints[m].start
      BY <1>5, <2>1
  <2> HIDE DEF m
  <2>3. ints[m].end = ints[m + 1].start /\ ints[m].start < ints[m].end
      BY <1>2, <1>3, <2>1
  <2>4. ints[i].end <= ints[m + 1].start
      BY <1>1, <1>2, <2>1, <2>2, <2>3
  <2> QED
      BY <2>1, <2>4
<1> HIDE DEF T
<1>6. \A k \in Nat : k \in T
    BY <1>4, <1>5, Induct
<1>7. j - (i + 1) \in Nat /\ i + 1 + (j - (i + 1)) = j /\ j <= n
    BY <1>1
<1>8. j - (i + 1) \in T
    BY <1>6, <1>7
<1> QED
    BY <1>7, <1>8 DEF T

\* Every point lies in an interval, and in one only.
LEMMA CoveredOnce ==
    ASSUME NEW ints, Tiled(ints), NEW y \in Point
    PROVE  /\ \E i \in DOMAIN ints : Covers(ints[i], y)
           /\ \A i \in DOMAIN ints, j \in DOMAIN ints :
                 Covers(ints[i], y) /\ Covers(ints[j], y) => i = j
<1> DEFINE n == Len(ints)
           T == {k \in Nat : k + 1 <= n /\ y < ints[k + 1].end}
<1>1. n \in Nat /\ n >= 1 /\ DOMAIN ints = 1 .. n /\ y \in Int /\ MinPoint <= y /\ y < MaxPoint
    BY TilesAre DEF Point
<1>2. \A k \in 1 .. n : ints[k].start \in Int /\ ints[k].end \in Int /\ ints[k].start < ints[k].end
    BY TilesAre
<1>3. /\ \A k \in 1 .. n - 1 : ints[k].end = ints[k + 1].start
      /\ ints[1].start = MinPoint /\ ints[n].end = MaxPoint
    BY TilesAre
<1> HIDE DEF n
<1>4. \E i \in DOMAIN ints : Covers(ints[i], y)
  <2>1. n - 1 \in T /\ T \subseteq Nat
      BY <1>1, <1>3
  <2> HIDE DEF T
  <2>2. PICK k \in T : \A m \in T : k <= m
      BY <2>1, LeastNatural
  <2>3. k \in Nat /\ k + 1 \in 1 .. n /\ y < ints[k + 1].end
      BY <2>2 DEF T
  <2>4. ints[k + 1].start <= y
    <3>1. CASE k = 0
        BY <1>1, <1>3, <3>1
    <3>2. CASE k # 0
      <4>1. k - 1 \in Nat /\ k - 1 \notin T /\ k \in 1 .. n - 1 /\ k \in 1 .. n
          BY <1>1, <2>2, <2>3, <3>2
      <4>2. ~(y < ints[k].end)
          BY <4>1 DEF T
      <4> QED
          BY <1>1, <1>2, <1>3, <2>3, <4>1, <4>2
    <3> QED
        BY <3>1, <3>2
  <2> QED
      BY <1>1, <2>3, <2>4 DEF Covers
<1>5. ASSUME NEW i \in DOMAIN ints, NEW j \in DOMAIN ints, Covers(ints[i], y), Covers(ints[j], y), i < j
      PROVE  FALSE
  <2>1. ints[i].end <= ints[j].start
      BY <1>5, Ascending
  <2>2. i \in 1 .. n /\ j \in 1 .. n
      BY <1>1
  <2> QED
      BY <1>1, <1>2, <1>5, <2>1, <2>2 DEF Covers
<1>6. ASSUME NEW i \in DOMAIN ints, NEW j \in DOMAIN ints, Covers(ints[i], y), Covers(ints[j], y)
      PROVE  i = j
  <2>1. i \in Int /\ j \in Int
      BY <1>1
  <2> QED
      BY <1>5, <1>6, <2>1
<1> QED
    BY <1>4, <1>6

\* The interval a point lies in
LEMMA AtIs ==
    ASSUME NEW ints, Tiled(ints), NEW y \in Point, NEW i \in DOMAIN ints, Covers(ints[i], y)
    PROVE  At(ints, y) = ints[i] /\ StateAt(ints, y) = ints[i].state
<1>1. (CHOOSE j \in DOMAIN ints : Covers(ints[j], y)) = i
    BY CoveredOnce
<1> QED
    BY <1>1 DEF At, StateAt

LEMMA StateIs ==
    ASSUME NEW ints, Tiled(ints), NEW y \in Point
    PROVE  StateAt(ints, y) \in [0 .. Rounds -> RoundState]
<1>1. PICK i \in DOMAIN ints : Covers(ints[i], y)
    BY CoveredOnce
<1>2. ints[i] \in AnInterval
    BY TilesAre
<1> QED
    BY <1>1, <1>2, AtIs DEF AnInterval

\* An interval begins at a point, which it covers.
LEMMA StartIs ==
    ASSUME NEW ints, Tiled(ints), NEW i \in DOMAIN ints
    PROVE  ints[i].start \in Point /\ Covers(ints[i], ints[i].start)
<1> DEFINE n == Len(ints)
<1>1. n \in Nat /\ DOMAIN ints = 1 .. n /\ i \in 1 .. n /\ 1 \in 1 .. n /\ n \in 1 .. n
    BY TilesAre
<1>2. \A k \in 1 .. n : ints[k].start \in Int /\ ints[k].end \in Int /\ ints[k].start < ints[k].end
    BY TilesAre
<1>3. ints[1].start = MinPoint /\ ints[n].end = MaxPoint
    BY TilesAre
<1> HIDE DEF n
<1>4. MinPoint <= ints[i].start
  <2>1. CASE i = 1
      BY <1>1, <1>2, <1>3, <2>1
  <2>2. CASE i # 1
    <3>1. 1 < i
        BY <1>1, <2>2
    <3>2. ints[1].end <= ints[i].start
        BY <1>1, <3>1, Ascending
    <3> QED
        BY <1>1, <1>2, <1>3, <3>2
  <2> QED
      BY <2>1, <2>2
<1>5. ints[i].start < MaxPoint
  <2>1. CASE i = n
      BY <1>1, <1>2, <1>3, <2>1
  <2>2. CASE i # n
    <3>1. i < n
        BY <1>1, <2>2
    <3>2. ints[i].end <= ints[n].start
        BY <1>1, <3>1, Ascending
    <3> QED
        BY <1>1, <1>2, <1>3, <3>2
  <2> QED
      BY <2>1, <2>2
<1> QED
    BY <1>1, <1>2, <1>4, <1>5 DEF Point, Covers

-----------------------------------------------------------------------------
(* What a round of an interval makes of an ECHO1.                          *)

LEMMA ThresholdsAre ==
    /\ MinThreshold \in Nat \ {0} /\ HighThreshold \in Nat \ {0} /\ NumFaults \in Nat
    /\ MinThreshold = NumFaults + 1
<1>1. Cardinality(Node) \in Nat
    BY LevelAssumption, FS_CardinalityType
<1> QED
    BY <1>1, LevelAssumption DEF MinThreshold, HighThreshold, NumNodes

LEMMA RoundStateIs ==
    ASSUME NEW rs \in RoundState
    PROVE  /\ rs \in Fields /\ rs.slots \in Seq(Slot) /\ rs.echo1vals \in SUBSET Int
           /\ rs.term \in Int /\ IsFiniteSet(rs.echo1vals) /\ Calm(rs)
           /\ DOMAIN rs.slots = 1 .. Len(rs.slots) /\ Len(rs.slots) \in Nat
           /\ \A i \in DOMAIN rs.slots : rs.slots[i] \in Slot
           /\ rs # NoState => /\ Len(rs.slots) \in {1, 2} /\ 1 \in DOMAIN rs.slots
                              /\ rs.slots # <<>>
<1>1. rs \in Fields /\ Len(rs.slots) <= 2 /\ IsFiniteSet(rs.echo1vals) /\ Calm(rs)
    BY DEF RoundState
<1>2. rs # NoState => rs.slots # <<>>
    BY DEF RoundState
<1>3. rs.slots \in Seq(Slot) /\ rs.echo1vals \in SUBSET Int /\ rs.term \in Int
    BY <1>1 DEF Fields
<1>4. /\ DOMAIN rs.slots = 1 .. Len(rs.slots) /\ Len(rs.slots) \in Nat
      /\ \A i \in DOMAIN rs.slots : rs.slots[i] \in Slot
    BY <1>3
<1>5. rs.slots # <<>> => Len(rs.slots) # 0
    BY <1>3
<1> DEFINE n == Len(rs.slots)
<1>6. n \in Nat /\ n <= 2 /\ (n # 0 => n \in {1, 2} /\ 1 \in 1 .. n)
  <2>1. n \in Nat /\ n <= 2
      BY <1>1, <1>4
  <2> HIDE DEF n
  <2> QED
      BY <2>1
<1> QED
    BY <1>1, <1>2, <1>3, <1>4, <1>5, <1>6

\* How few votes do not amplify
LEMMA FewVotes ==
    ASSUME NEW q \in Node
    PROVE  /\ Cardinality({}) = 0 /\ Cardinality({q}) = 1
           /\ \A E \in SUBSET Node : IsFiniteSet(E) /\ Cardinality(E) \in Nat
           /\ \A E \in SUBSET Node : Cardinality(E \union {q}) <= Cardinality(E) + 1
<1>1. \A E \in SUBSET Node : IsFiniteSet(E) /\ Cardinality(E) \in Nat
    BY LevelAssumption, FS_Subset, FS_CardinalityType
<1>2. \A E \in SUBSET Node : Cardinality(E \union {q}) <= Cardinality(E) + 1
  <2> TAKE E \in SUBSET Node
  <2>1. IsFiniteSet(E) /\ Cardinality(E) \in Nat
      BY <1>1
  <2>2. CASE q \in E
    <3>1. E \union {q} = E
        BY <2>2
    <3>2. Cardinality(E \union {q}) = Cardinality(E)
        BY <3>1
    <3> QED
        BY <2>1, <3>2
  <2>3. CASE q \notin E
    <3>1. Cardinality(E \union {q}) = Cardinality(E) + 1
        BY <2>1, <2>3, FS_AddElement
    <3> QED
        BY <2>1, <3>1
  <2> QED
      BY <2>2, <2>3
<1> QED
    BY <1>1, <1>2, FS_EmptySet, FS_Singleton

\* The midpoint of votes is a number.
LEMMA MidpointIs ==
    ASSUME NEW E \in SUBSET Int, IsFiniteSet(E), Cardinality(E) = 2
    PROVE  Midpoint(E) \in Int
<1>1. E # {}
    BY FS_EmptySet
<1>2. PICK a \in E : TRUE
    BY <1>1
<1>3. IsFiniteSet(E \ {a}) /\ Cardinality(E \ {a}) = 1
    BY <1>2, FS_RemoveElement
<1>4. PICK b : E \ {a} = {b}
    BY <1>3, FS_Singleton
<1>5. E = {a, b} /\ a # b /\ b \in E /\ a \in Int /\ b \in Int
    BY <1>2, <1>4
<1>6. /\ \E x \in E : \A y \in E : x <= y
      /\ \E x \in E : \A y \in E : x >= y
    BY <1>5
<1> DEFINE lo == CHOOSE x \in E : \A y \in E : x <= y
           hi == CHOOSE x \in E : \A y \in E : x >= y
<1>7. lo \in Int /\ hi \in Int
    BY <1>6
<1>8. Midpoint(E) = (lo + hi) \div 2
    BY DEF Midpoint
<1> HIDE DEF lo, hi
<1> QED
    BY <1>7, <1>8

LEMMA SlotReplaced ==
    ASSUME NEW slots \in Seq(Slot), NEW i \in DOMAIN slots, NEW s \in Slot
    PROVE  /\ [slots EXCEPT ![i] = s] \in Seq(Slot)
           /\ Len([slots EXCEPT ![i] = s]) = Len(slots)
           /\ DOMAIN [slots EXCEPT ![i] = s] = DOMAIN slots
           /\ [slots EXCEPT ![i] = s][i] = s
           /\ \A j \in DOMAIN slots : j # i => [slots EXCEPT ![i] = s][j] = slots[j]
           /\ s = slots[i] => [slots EXCEPT ![i] = s] = slots
<1>1. DOMAIN slots = 1 .. Len(slots)
    BY LenProperties
<1>2. /\ [slots EXCEPT ![i] = s] \in Seq(Slot)
      /\ Len([slots EXCEPT ![i] = s]) = Len(slots)
      /\ [slots EXCEPT ![i] = s][i] = s
      /\ \A j \in DOMAIN slots : j # i => [slots EXCEPT ![i] = s][j] = slots[j]
    BY <1>1, ExceptSeq
<1>3. slots = [j \in DOMAIN slots |-> slots[j]]
    BY <1>1
<1>4. s = slots[i] => [slots EXCEPT ![i] = s] = slots
    BY <1>3
<1> QED
    BY <1>2, <1>4

\* One more slot, and another one
LEMMA SlotAppended ==
    ASSUME NEW slots \in Seq(Slot), Len(slots) = 1, NEW s \in Slot
    PROVE  /\ Append(slots, s) \in Seq(Slot) /\ Len(Append(slots, s)) = 2
           /\ DOMAIN Append(slots, s) = {1, 2} /\ Append(slots, s) # <<>>
           /\ Append(slots, s)[1] = slots[1] /\ Append(slots, s)[2] = s
<1>1. /\ Append(slots, s) \in Seq(Slot) /\ Len(Append(slots, s)) = Len(slots) + 1
      /\ \A k \in 1 .. Len(slots) : Append(slots, s)[k] = slots[k]
      /\ Append(slots, s)[Len(slots) + 1] = s
    BY AppendProperties
<1>2. /\ Append(slots, s) \in Seq(Slot) /\ Len(Append(slots, s)) = 2
      /\ Append(slots, s)[1] = slots[1] /\ Append(slots, s)[2] = s
    BY <1>1
<1>3. DOMAIN Append(slots, s) = 1 .. 2 /\ 1 .. 2 = {1, 2}
    BY <1>2, LenProperties
<1> QED
    BY <1>2, <1>3

\* A round state that has heard q's ECHO1 and done what it asks for
Heeded(rs, v, q) ==
    \/ Terminated(rs)
    \/ /\ SlotOf(rs, v) \in DOMAIN rs.slots
       /\ q \in rs.slots[SlotOf(rs, v)].echo1
       /\ Cardinality(rs.slots[SlotOf(rs, v)].echo1) >= MinThreshold
             => rs.slots[SlotOf(rs, v)].sent1
       /\ Cardinality(rs.slots[SlotOf(rs, v)].echo1) >= HighThreshold
             => rs.slots[SlotOf(rs, v)].sent2

LEMMA HeededIsQuiet ==
    ASSUME NEW rs \in RoundState, rs # NoState, NEW v \in Int, NEW q \in Node, Heeded(rs, v, q)
    PROVE  HearEcho(rs, v, q, MinThreshold, HighThreshold)
             = [rs |-> rs, echo1 |-> NoVal, echo2 |-> NoVal]
<1>1. HearEcho(rs, v, q, MinThreshold, HighThreshold)
        = AddEcho(rs, v, q, MinThreshold, HighThreshold)
    BY DEF HearEcho
<1>2. CASE Terminated(rs)
    BY <1>1, <1>2 DEF AddEcho
<1>3. CASE ~Terminated(rs)
  <2> DEFINE i == SlotOf(rs, v)
             s == [rs.slots[i] EXCEPT !.echo1 = @ \union {q}]
  <2>1. /\ i \in DOMAIN rs.slots /\ q \in rs.slots[i].echo1
        /\ Cardinality(rs.slots[i].echo1) >= MinThreshold => rs.slots[i].sent1
        /\ Cardinality(rs.slots[i].echo1) >= HighThreshold => rs.slots[i].sent2
      BY <1>3 DEF Heeded
  <2>2. rs.slots[i] \in Slot /\ i <= Len(rs.slots) /\ ~(i > Len(rs.slots))
      BY <2>1, RoundStateIs
  <2>3. rs.slots[i].echo1 \union {q} = rs.slots[i].echo1
      BY <2>1
  <2>4. s = rs.slots[i]
      BY <2>2, <2>3 DEF Slot
  <2>5. [rs EXCEPT !.slots[i] = s] = rs
    <3>1. [rs.slots EXCEPT ![i] = s] = rs.slots
      <4>1. rs.slots \in Seq(Slot) /\ i \in DOMAIN rs.slots /\ s \in Slot /\ s = rs.slots[i]
          BY <2>1, <2>2, <2>4, RoundStateIs
      <4> HIDE DEF s, i
      <4> QED
          BY <4>1, SlotReplaced
    <3>2. rs \in Fields
        BY RoundStateIs
    <3>3. \A x \in Fields : \A t : t = x.slots => [x EXCEPT !.slots = t] = x
        BY DEF Fields
    <3>4. [rs EXCEPT !.slots[i] = s] = [rs EXCEPT !.slots = [rs.slots EXCEPT ![i] = s]]
        BY <3>2 DEF Fields
    <3> QED
        BY <3>1, <3>2, <3>3, <3>4
  <2>6. /\ ~(Cardinality(s.echo1) >= MinThreshold /\ ~s.sent1)
        /\ ~(Cardinality(s.echo1) >= HighThreshold /\ ~s.sent2)
      BY <2>1, <2>4
  <2> QED
      BY <1>1, <1>3, <2>2, <2>5, <2>6 DEF AddEcho
<1> QED
    BY <1>2, <1>3

\* Who amplifies has not heard a quorum with the same message.
Apart == NumFaults > 0 /\ MinThreshold < HighThreshold

Quiet(rs) == [rs |-> rs, echo1 |-> NoVal, echo2 |-> NoVal]

CalmSlot(s) == NumFaults > 0 => s.sent1 \/ Cardinality(s.echo1) < MinThreshold

\* Ways to make a round state: from one slot, from two, and by changing a slot.
LEMMA FirstSlot ==
    ASSUME NEW s \in Slot, CalmSlot(s), NEW rs,
           rs = [slots |-> <<s>>, echo1vals |-> {}, term |-> NoVal]
    PROVE  rs \in RoundState /\ rs # NoState /\ rs.slots[1] = s /\ DOMAIN rs.slots = {1}
<1>1. <<s>> \in Seq(Slot) /\ Len(<<s>>) = 1 /\ DOMAIN <<s>> = {1} /\ <<s>>[1] = s /\ <<s>> # <<>>
    OBVIOUS
<1>2. /\ rs.slots = <<s>> /\ rs.echo1vals = {} /\ rs.term = NoVal
    OBVIOUS
<1>3. rs \in Fields
    BY <1>1 DEF Fields, NoVal
<1>4. rs # NoState
    BY <1>1, <1>2 DEF NoState
<1>5. Calm(rs)
    BY <1>1, <1>2 DEF Calm, CalmSlot
<1>6. IsFiniteSet(rs.echo1vals) /\ Len(rs.slots) <= 2 /\ rs.slots # <<>>
    BY <1>1, <1>2, FS_EmptySet
<1> QED
    BY <1>1, <1>2, <1>3, <1>4, <1>5, <1>6 DEF RoundState

WithSlot(rs, s) == [rs EXCEPT !.slots = Append(rs.slots, s)]

LEMMA SecondSlot ==
    ASSUME NEW rs \in RoundState, Len(rs.slots) = 1, NEW s \in Slot, CalmSlot(s),
           NEW new, new = WithSlot(rs, s)
    PROVE  /\ new \in RoundState /\ new # NoState /\ DOMAIN new.slots = {1, 2}
           /\ new.slots[1] = rs.slots[1] /\ new.slots[2] = s
           /\ new.term = rs.term /\ new.echo1vals = rs.echo1vals
<1>3. new = [rs EXCEPT !.slots = Append(rs.slots, s)]
    BY DEF WithSlot
<1> DEFINE a == Append(rs.slots, s)
<1>1. rs \in Fields /\ rs.slots \in Seq(Slot) /\ IsFiniteSet(rs.echo1vals) /\ Calm(rs)
      /\ DOMAIN rs.slots = 1 .. 1
    BY RoundStateIs
<1>2. a \in Seq(Slot) /\ Len(a) = 2 /\ DOMAIN a = {1, 2} /\ a # <<>> /\ a[1] = rs.slots[1] /\ a[2] = s
    BY <1>1, SlotAppended
<1>9. new = [rs EXCEPT !.slots = a]
    BY <1>3
<1> HIDE DEF a
<1>4. new \in Fields /\ new.slots = a /\ new.term = rs.term /\ new.echo1vals = rs.echo1vals
    BY <1>1, <1>2, <1>9 DEF Fields
<1>5. Calm(new)
    BY <1>1, <1>2, <1>4 DEF Calm, CalmSlot
<1>6. new # NoState
    BY <1>2, <1>4 DEF NoState
<1>7. Len(new.slots) <= 2 /\ IsFiniteSet(new.echo1vals) /\ new.slots # <<>>
  <2>1. Len(new.slots) = 2
      BY <1>2, <1>4
  <2>2. IsFiniteSet(new.echo1vals)
      BY <1>1, <1>4
  <2>3. new.slots # <<>>
      BY <1>2, <1>4
  <2> QED
      BY <2>1, <2>2, <2>3
<1>8. new \in RoundState
    BY <1>4, <1>5, <1>7 DEF RoundState
<1> QED
    BY <1>2, <1>4, <1>6, <1>8

LEMMA ChangedSlot ==
    ASSUME NEW rs \in RoundState, rs # NoState, NEW i \in DOMAIN rs.slots,
           NEW s \in Slot, CalmSlot(s), s.val = rs.slots[i].val,
           NEW new \in Fields, IsFiniteSet(new.echo1vals),
           new.slots = [rs.slots EXCEPT ![i] = s], NEW v, i = SlotOf(rs, v)
    PROVE  /\ new \in RoundState /\ new # NoState
           /\ DOMAIN new.slots = DOMAIN rs.slots /\ new.slots[i] = s
           /\ SlotOf(new, v) = i
<1>1. /\ rs.slots \in Seq(Slot) /\ Calm(rs) /\ Len(rs.slots) \in {1, 2} /\ 1 \in DOMAIN rs.slots
    BY RoundStateIs
<1>2. /\ Len(new.slots) = Len(rs.slots) /\ DOMAIN new.slots = DOMAIN rs.slots
      /\ new.slots[i] = s
      /\ \A j \in DOMAIN rs.slots : j # i => new.slots[j] = rs.slots[j]
    BY <1>1, SlotReplaced
<1>3. Calm(new)
    BY <1>1, <1>2 DEF Calm, CalmSlot
<1>4. new.slots # <<>> /\ Len(new.slots) <= 2
    BY <1>1, <1>2
<1>5. new # NoState
    BY <1>4 DEF NoState
<1>6. new.slots[1].val = rs.slots[1].val
    BY <1>1, <1>2
<1> QED
    BY <1>2, <1>3, <1>4, <1>5, <1>6 DEF RoundState, SlotOf

LEMMA HearEchoIs ==
    ASSUME NEW rs \in RoundState, NEW v \in Int, NEW q \in Node, NEW out,
           out = HearEcho(rs, v, q, MinThreshold, HighThreshold)
    PROVE  /\ out.rs \in RoundState /\ out.rs # NoState
           /\ out.echo1 \in {v, NoVal} /\ out.echo2 \in {v, NoVal}
           /\ Apart => Heeded(out.rs, v, q)
<1> DEFINE i == SlotOf(rs, v)
           n == Len(rs.slots)
           s == [rs.slots[i] EXCEPT !.echo1 = @ \union {q}]
           E == rs.echo1vals \union {v}
           first == NewSlot(v, {q}, {})
<1>0. /\ first \in Slot /\ first.val = v /\ first.echo1 = {q} /\ CalmSlot(first)
      /\ Apart => ~(Cardinality(first.echo1) >= MinThreshold)
      /\ Apart => ~(Cardinality(first.echo1) >= HighThreshold)
    BY FewVotes, ThresholdsAre DEF NewSlot, Slot, CalmSlot, Apart
<1>1. CASE rs = NoState
  <2>1. /\ out.echo1 = NoVal /\ out.echo2 = NoVal
        /\ out.rs = [slots |-> <<first>>, echo1vals |-> {}, term |-> NoVal]
      BY <1>1 DEF HearEcho, NewWithEcho
  <2> HIDE DEF first
  <2>2. /\ out.rs \in RoundState /\ out.rs # NoState /\ out.rs.slots[1] = first
        /\ DOMAIN out.rs.slots = {1}
      BY <1>0, <2>1, FirstSlot
  <2>3. SlotOf(out.rs, v) = 1
      BY <1>0, <2>2 DEF SlotOf
  <2>4. Apart => Heeded(out.rs, v, q)
      BY <1>0, <2>2, <2>3 DEF Heeded
  <2> QED
      BY <2>1, <2>2, <2>4
<1>2. CASE rs # NoState /\ Terminated(rs)
  <2>1. out.rs = rs /\ out.echo1 = NoVal /\ out.echo2 = NoVal
      BY <1>2 DEF HearEcho, AddEcho
  <2> QED
      BY <1>2, <2>1 DEF Heeded
<1>3. CASE rs # NoState /\ ~Terminated(rs)
  <2>1. out = AddEcho(rs, v, q, MinThreshold, HighThreshold)
      BY <1>3 DEF HearEcho
  <2>2. rs.term = NoVal
      BY <1>3 DEF Terminated
  <2>3. /\ rs \in Fields /\ rs.slots \in Seq(Slot) /\ Calm(rs) /\ IsFiniteSet(rs.echo1vals)
        /\ \A j \in DOMAIN rs.slots : rs.slots[j] \in Slot
        /\ n = 1 \/ n = 2
        /\ DOMAIN rs.slots = 1 .. n
      BY <1>3, RoundStateIs
  <2>4. CASE i > n
    <3>0. ~(i <= n)
        BY <2>3, <2>4 DEF SlotOf
    <3>1. n = 1 /\ i = 2
        BY <2>3, <2>4 DEF SlotOf
    <3>2. /\ out.rs = WithSlot(rs, first)
          /\ out.echo1 = NoVal /\ out.echo2 = NoVal
        BY <1>3, <2>1, <2>3, <2>4, <3>0 DEF AddEcho, Fields, WithSlot
    <3>3. v # rs.slots[1].val
        BY <3>1 DEF SlotOf
    <3> HIDE DEF first
    <3>4. /\ out.rs \in RoundState /\ out.rs # NoState /\ DOMAIN out.rs.slots = {1, 2}
          /\ out.rs.slots[1] = rs.slots[1] /\ out.rs.slots[2] = first
      <4>1. Len(rs.slots) = 1
          BY <3>1
      <4>2. first \in Slot /\ CalmSlot(first)
          BY <1>0
      <4> QED
          BY <3>2, <4>1, <4>2, SecondSlot
    <3>5. SlotOf(out.rs, v) = 2
        BY <3>3, <3>4 DEF SlotOf
    <3>6. Apart => Heeded(out.rs, v, q)
        BY <1>0, <3>4, <3>5 DEF Heeded
    <3> QED
        BY <3>2, <3>4, <3>6
  <2>6. CASE i \in DOMAIN rs.slots
    <3>1. /\ s \in Slot /\ s.val = rs.slots[i].val
          /\ s.echo1 = rs.slots[i].echo1 \union {q}
          /\ s.sent1 = rs.slots[i].sent1 /\ s.sent2 = rs.slots[i].sent2
        BY <2>3, <2>6 DEF Slot
    <3>2. i <= n /\ ~(i > n)
        BY <2>3, <2>6
    <3>6. Apart /\ ~s.sent1 => Cardinality(s.echo1) < HighThreshold
      <4>1. SUFFICES ASSUME Apart, ~s.sent1 PROVE Cardinality(s.echo1) < HighThreshold
          OBVIOUS
      <4>2. Cardinality(rs.slots[i].echo1) < MinThreshold
          BY <2>3, <2>6, <3>1, <4>1 DEF Calm, Apart
      <4>3. rs.slots[i].echo1 \in SUBSET Node
          BY <2>3, <2>6 DEF Slot
      <4>4. /\ Cardinality(rs.slots[i].echo1) \in Nat
            /\ s.echo1 \in SUBSET Node
            /\ Cardinality(s.echo1) <= Cardinality(rs.slots[i].echo1) + 1
        <5>1. s.echo1 \in SUBSET Node
            BY <3>1, <4>3
        <5>2. Cardinality(rs.slots[i].echo1 \union {q}) <= Cardinality(rs.slots[i].echo1) + 1
            BY <4>3, FewVotes
        <5> QED
            BY <3>1, <4>3, <5>1, <5>2, FewVotes
      <4>5. Cardinality(s.echo1) \in Nat
          BY <4>4, FewVotes
      <4> HIDE DEF s, i
      <4> QED
          BY <4>1, <4>2, <4>4, <4>5, ThresholdsAre DEF Apart
    <3>3. CASE Cardinality(s.echo1) >= MinThreshold /\ ~s.sent1
      <4> DEFINE t == [s EXCEPT !.sent1 = TRUE]
      <4>1. t \in Slot /\ t.val = s.val /\ t.echo1 = s.echo1 /\ t.sent1 = TRUE
          BY <3>1 DEF Slot
      <4>2. /\ out.rs = [rs EXCEPT !.slots[i] = t]
            /\ out.echo1 = v /\ out.echo2 = NoVal
          BY <1>3, <2>1, <3>2, <3>3 DEF AddEcho
      <4>3. CalmSlot(t) /\ t.val = rs.slots[i].val
          BY <3>1, <4>1 DEF CalmSlot
      <4> HIDE DEF t
      <4>4. [rs.slots EXCEPT ![i] = t] \in Seq(Slot)
          BY <2>3, <2>6, <4>1, SlotReplaced
      <4>5. /\ out.rs.slots = [rs.slots EXCEPT ![i] = t] /\ out.rs \in Fields
            /\ out.rs.echo1vals = rs.echo1vals
          BY <2>3, <4>2, <4>4 DEF Fields
      <4>6. /\ out.rs \in RoundState /\ out.rs # NoState
            /\ DOMAIN out.rs.slots = DOMAIN rs.slots /\ out.rs.slots[i] = t
            /\ SlotOf(out.rs, v) = i
        <5>1. IsFiniteSet(out.rs.echo1vals)
            BY <2>3, <4>5
        <5> QED
            BY <1>3, <2>6, <4>1, <4>3, <4>5, <5>1, ChangedSlot
      <4>7. Apart => Heeded(out.rs, v, q)
        <5>1. q \in t.echo1 /\ (Apart => Cardinality(t.echo1) < HighThreshold)
            BY <3>1, <3>3, <3>6, <4>1
        <5>2. Cardinality(t.echo1) \in Nat
            BY <4>1, FewVotes DEF Slot
        <5>3. Apart => ~(Cardinality(t.echo1) >= HighThreshold)
            BY <5>1, <5>2, ThresholdsAre
        <5> QED
            BY <2>6, <4>1, <4>6, <5>1, <5>3 DEF Heeded
      <4> QED
          BY <4>2, <4>6, <4>7
    <3>4. CASE ~(Cardinality(s.echo1) >= MinThreshold /\ ~s.sent1)
               /\ Cardinality(s.echo1) >= HighThreshold /\ ~s.sent2
      <4> DEFINE t == [s EXCEPT !.sent2 = TRUE]
                 u == IF Cardinality(E) = 2 THEN Midpoint(E) ELSE rs.term
      <4>1. t \in Slot /\ t.val = s.val /\ t.echo1 = s.echo1 /\ t.sent1 = s.sent1 /\ t.sent2 = TRUE
          BY <3>1 DEF Slot
      <4>2. /\ out.rs = [slots |-> [rs.slots EXCEPT ![i] = t], echo1vals |-> E, term |-> u]
            /\ out.echo1 = NoVal /\ out.echo2 = v
          BY <1>3, <2>1, <3>2, <3>4 DEF AddEcho
      <4>3. E \in SUBSET Int /\ IsFiniteSet(E)
          BY <2>3, FS_AddElement DEF Fields
      <4>4. u \in Int
          BY <2>3, <4>3, MidpointIs DEF Fields
      <4>5. CalmSlot(t) /\ t.val = rs.slots[i].val
        <5>1. Cardinality(s.echo1) \in Nat
            BY <3>1, FewVotes DEF Slot
        <5> QED
            BY <3>1, <3>4, <4>1, <5>1, ThresholdsAre DEF CalmSlot
      <4> HIDE DEF t, u, E
      <4>6. out.rs.slots = [rs.slots EXCEPT ![i] = t] /\ out.rs.echo1vals = E
          BY <4>2
      <4>7. [rs.slots EXCEPT ![i] = t] \in Seq(Slot)
          BY <2>3, <2>6, <4>1, SlotReplaced
      <4>8. out.rs \in Fields /\ IsFiniteSet(out.rs.echo1vals)
          BY <4>2, <4>3, <4>4, <4>7 DEF Fields
      <4>9. /\ out.rs \in RoundState /\ out.rs # NoState
            /\ DOMAIN out.rs.slots = DOMAIN rs.slots /\ out.rs.slots[i] = t
            /\ SlotOf(out.rs, v) = i
          BY <1>3, <2>6, <4>1, <4>5, <4>6, <4>8, ChangedSlot
      <4>10. Apart => Heeded(out.rs, v, q)
        <5>1. q \in t.echo1 /\ (Apart => t.sent1)
          <6>1. Cardinality(s.echo1) \in Nat
              BY <3>1, FewVotes DEF Slot
          <6> QED
              BY <3>1, <3>4, <3>6, <4>1, <6>1, ThresholdsAre
        <5> QED
            BY <2>6, <4>1, <4>9, <5>1 DEF Heeded
      <4> QED
          BY <4>2, <4>9, <4>10
    <3>5. CASE /\ ~(Cardinality(s.echo1) >= MinThreshold /\ ~s.sent1)
               /\ ~(Cardinality(s.echo1) >= HighThreshold /\ ~s.sent2)
      <4>1. /\ out.rs = [rs EXCEPT !.slots[i] = s]
            /\ out.echo1 = NoVal /\ out.echo2 = NoVal
          BY <1>3, <2>1, <3>2, <3>5 DEF AddEcho
      <4>2. CalmSlot(s) /\ q \in s.echo1
        <5>1. Cardinality(s.echo1) \in Nat
            BY <3>1, FewVotes DEF Slot
        <5> QED
            BY <3>1, <3>5, <5>1, ThresholdsAre DEF CalmSlot
      <4> HIDE DEF s
      <4>3. [rs.slots EXCEPT ![i] = s] \in Seq(Slot)
          BY <2>3, <2>6, <3>1, SlotReplaced
      <4>4. /\ out.rs.slots = [rs.slots EXCEPT ![i] = s] /\ out.rs \in Fields
            /\ out.rs.echo1vals = rs.echo1vals
          BY <2>3, <4>1, <4>3 DEF Fields
      <4>5. /\ out.rs \in RoundState /\ out.rs # NoState
            /\ DOMAIN out.rs.slots = DOMAIN rs.slots /\ out.rs.slots[i] = s
            /\ SlotOf(out.rs, v) = i
        <5>1. IsFiniteSet(out.rs.echo1vals)
            BY <2>3, <4>4
        <5> QED
            BY <1>3, <2>6, <3>1, <4>2, <4>4, <5>1, ChangedSlot
      <4>6. Heeded(out.rs, v, q)
          BY <2>6, <3>5, <4>2, <4>5 DEF Heeded
      <4> QED
          BY <4>1, <4>5, <4>6
    <3> QED
        BY <3>3, <3>4, <3>5
  <2>7. i > n \/ i \in DOMAIN rs.slots
      BY <2>3 DEF SlotOf
  <2> QED
      BY <2>4, <2>6, <2>7
<1> QED
    BY <1>1, <1>2, <1>3

-----------------------------------------------------------------------------
(* What it makes of an ECHO2.                                              *)

\* A round state that has heard q's ECHO2 and ends with its value if a quorum has sent it.
Heeded2(rs, v, q) ==
    /\ SlotOf(rs, v) \in DOMAIN rs.slots
    /\ q \in rs.slots[SlotOf(rs, v)].echo2
    /\ Cardinality(rs.slots[SlotOf(rs, v)].echo2) >= HighThreshold
          => rs.term = rs.slots[SlotOf(rs, v)].val

LEMMA HeededIsQuiet2 ==
    ASSUME NEW rs \in RoundState, rs # NoState, NEW v \in Int, NEW q \in Node, Heeded2(rs, v, q)
    PROVE  HearEcho2(rs, v, q, HighThreshold) = rs
<1>1. HearEcho2(rs, v, q, HighThreshold) = AddEcho2(rs, v, q, HighThreshold)
    BY DEF HearEcho2
<1> DEFINE i == SlotOf(rs, v)
           s == [rs.slots[i] EXCEPT !.echo2 = @ \union {q}]
           u == IF Cardinality(s.echo2) >= HighThreshold THEN s.val ELSE rs.term
<1>2. /\ i \in DOMAIN rs.slots /\ q \in rs.slots[i].echo2
      /\ Cardinality(rs.slots[i].echo2) >= HighThreshold => rs.term = rs.slots[i].val
    BY DEF Heeded2
<1>3. rs.slots[i] \in Slot /\ ~(i > Len(rs.slots))
    BY <1>2, RoundStateIs
<1>4. rs.slots[i].echo2 \union {q} = rs.slots[i].echo2
    BY <1>2
<1>5. s = rs.slots[i]
    BY <1>3, <1>4 DEF Slot
<1>6. u = rs.term
    BY <1>2, <1>5
<1>7. AddEcho2(rs, v, q, HighThreshold) = [rs EXCEPT !.slots[i] = s, !.term = u]
    BY <1>3 DEF AddEcho2
<1>8. [rs EXCEPT !.slots[i] = s, !.term = u] = rs
  <2>1. [rs.slots EXCEPT ![i] = s] = rs.slots
    <3>1. rs.slots \in Seq(Slot) /\ i \in DOMAIN rs.slots /\ s \in Slot /\ s = rs.slots[i]
        BY <1>2, <1>3, <1>5, RoundStateIs
    <3> HIDE DEF s, i
    <3> QED
        BY <3>1, SlotReplaced
  <2>2. rs \in Fields
      BY RoundStateIs
  <2> HIDE DEF s, i, u
  <2>3. [rs EXCEPT !.slots[i] = s, !.term = u]
          = [rs EXCEPT !.slots = [rs.slots EXCEPT ![i] = s], !.term = u]
      BY <2>2 DEF Fields
  <2>4. \A x \in Fields : \A t, w : t = x.slots /\ w = x.term => [x EXCEPT !.slots = t, !.term = w] = x
      BY DEF Fields
  <2> QED
      BY <1>6, <2>1, <2>2, <2>3, <2>4
<1> QED
    BY <1>1, <1>7, <1>8

LEMMA HearEcho2Is ==
    ASSUME NEW rs \in RoundState, NEW v \in Int, NEW q \in Node, NEW new,
           new = HearEcho2(rs, v, q, HighThreshold)
    PROVE  new \in RoundState /\ new # NoState /\ Heeded2(new, v, q)
<1> DEFINE i == SlotOf(rs, v)
           n == Len(rs.slots)
           s == [rs.slots[i] EXCEPT !.echo2 = @ \union {q}]
           first == NewSlot(v, {}, {q})
<1>0. /\ first \in Slot /\ first.val = v /\ first.echo2 = {q}
      /\ ~(Cardinality(first.echo2) >= HighThreshold)
  <2>1. Cardinality({q}) = 1 /\ ~(1 >= HighThreshold)
      BY FewVotes, ThresholdsAre, LevelAssumption
  <2> QED
      BY <2>1 DEF NewSlot, Slot
<1>1. CalmSlot(first)
  <2>1. first.echo1 = {} /\ Cardinality({}) = 0
      BY FewVotes DEF NewSlot
  <2> QED
      BY <2>1, ThresholdsAre DEF CalmSlot
<1>2. CASE rs = NoState
  <2>1. new = [slots |-> <<first>>, echo1vals |-> {}, term |-> NoVal]
      BY <1>2 DEF HearEcho2, NewWithEcho2
  <2> HIDE DEF first
  <2>2. new \in RoundState /\ new # NoState /\ new.slots[1] = first /\ DOMAIN new.slots = {1}
      BY <1>0, <1>1, <2>1, FirstSlot
  <2>3. SlotOf(new, v) = 1
      BY <1>0, <2>2 DEF SlotOf
  <2> QED
      BY <1>0, <2>2, <2>3 DEF Heeded2
<1>3. CASE rs # NoState
  <2>1. new = AddEcho2(rs, v, q, HighThreshold)
      BY <1>3 DEF HearEcho2
  <2>2. /\ rs \in Fields /\ rs.slots \in Seq(Slot) /\ Calm(rs) /\ IsFiniteSet(rs.echo1vals)
        /\ \A j \in DOMAIN rs.slots : rs.slots[j] \in Slot
        /\ n = 1 \/ n = 2
        /\ DOMAIN rs.slots = 1 .. n
      BY <1>3, RoundStateIs
  <2>3. CASE i > n
    <3>1. new = WithSlot(rs, first)
        BY <2>1, <2>2, <2>3 DEF AddEcho2, Fields, WithSlot
    <3>2. n = 1 /\ i = 2
      <4>1. i = 1 \/ i = 2
          BY DEF SlotOf
      <4> HIDE DEF i, n
      <4> QED
          BY <2>2, <2>3, <4>1
    <3>3. v # rs.slots[1].val
        BY <3>2 DEF SlotOf
    <3> HIDE DEF first
    <3>4. /\ new \in RoundState /\ new # NoState /\ DOMAIN new.slots = {1, 2}
          /\ new.slots[1] = rs.slots[1] /\ new.slots[2] = first
      <4>1. Len(rs.slots) = 1
          BY <3>2
      <4> QED
          BY <1>0, <1>1, <3>1, <4>1, SecondSlot
    <3>5. SlotOf(new, v) = 2
        BY <3>3, <3>4 DEF SlotOf
    <3> QED
        BY <1>0, <3>4, <3>5 DEF Heeded2
  <2>4. CASE i \in DOMAIN rs.slots
    <3> DEFINE u == IF Cardinality(s.echo2) >= HighThreshold THEN s.val ELSE rs.term
    <3>1. ~(i > n)
        BY <2>2, <2>4
    <3>2. /\ s \in Slot /\ s.val = rs.slots[i].val /\ s.echo1 = rs.slots[i].echo1
          /\ s.sent1 = rs.slots[i].sent1 /\ q \in s.echo2 /\ s.val \in Int
        BY <2>2, <2>4 DEF Slot
    <3>3. new = [rs EXCEPT !.slots[i] = s, !.term = u]
        BY <2>1, <3>1 DEF AddEcho2
    <3>4. u \in Int /\ (Cardinality(s.echo2) >= HighThreshold => u = s.val)
        BY <2>2, <3>2 DEF Fields
    <3>5. CalmSlot(s)
        BY <2>2, <2>4, <3>2 DEF Calm, CalmSlot
    <3> HIDE DEF s, u
    <3>6. [rs.slots EXCEPT ![i] = s] \in Seq(Slot)
        BY <2>2, <2>4, <3>2, SlotReplaced
    <3>7. /\ new.slots = [rs.slots EXCEPT ![i] = s] /\ new.term = u
          /\ new.echo1vals = rs.echo1vals /\ new \in Fields
        BY <2>2, <3>3, <3>4, <3>6 DEF Fields
    <3>8. /\ new \in RoundState /\ new # NoState
          /\ DOMAIN new.slots = DOMAIN rs.slots /\ new.slots[i] = s
          /\ SlotOf(new, v) = i
      <4>1. IsFiniteSet(new.echo1vals)
          BY <2>2, <3>7
      <4> QED
          BY <1>3, <2>4, <3>2, <3>5, <3>7, <4>1, ChangedSlot
    <3> QED
        BY <2>4, <3>2, <3>4, <3>7, <3>8 DEF Heeded2
  <2>5. i > n \/ i \in DOMAIN rs.slots
      BY <2>2 DEF SlotOf
  <2> QED
      BY <2>3, <2>4, <2>5
<1> QED
    BY <1>2, <1>3

-----------------------------------------------------------------------------
(* Splitting changes nothing at any point.                                 *)

LEMMA InsertIs ==
    ASSUME NEW S, NEW seq \in Seq(S), NEW i \in 1 .. Len(seq), NEW e \in S, NEW new,
           new = InsertAt(seq, i, e)
    PROVE  /\ new \in Seq(S) /\ Len(new) = Len(seq) + 1
           /\ \A k \in 1 .. i - 1 : new[k] = seq[k]
           /\ new[i] = e
           /\ \A k \in i + 1 .. Len(seq) + 1 : new[k] = seq[k - 1]
<1> DEFINE n == Len(seq)
           a == SubSeq(seq, 1, i - 1)
           b == SubSeq(seq, i, n)
<1>1. n \in Nat /\ i \in 1 .. n
    BY LenProperties
<1>2. /\ a \in Seq(S) /\ Len(a) = i - 1 /\ \A k \in 1 .. i - 1 : a[k] = seq[k]
  <2>1. a \in Seq(S) /\ Len(a) = i - 1
      BY <1>1
  <2>2. \A k \in 1 .. i - 1 : a[k] = seq[k]
      BY <1>1
  <2> QED
      BY <2>1, <2>2
<1>3. /\ b \in Seq(S) /\ Len(b) = n - i + 1 /\ \A k \in 1 .. n - i + 1 : b[k] = seq[i + k - 1]
  <2>1. b \in Seq(S) /\ Len(b) = n - i + 1
      BY <1>1
  <2>2. \A k \in 1 .. n - i + 1 : b[k] = seq[i + k - 1]
      BY <1>1
  <2> QED
      BY <2>1, <2>2
<1>4. new = (a \o <<e>>) \o b
    BY DEF InsertAt
<1> HIDE DEF n, a, b
<1> DEFINE c == a \o <<e>>
<1>5. /\ c \in Seq(S) /\ Len(c) = i
      /\ \A k \in 1 .. i - 1 : c[k] = a[k]
      /\ c[i] = e
    BY <1>1, <1>2
<1>6. new = c \o b
    BY <1>4
<1> HIDE DEF c
<1>7. new \in Seq(S) /\ Len(new) = n + 1
  <2>1. c \in Seq(S) /\ b \in Seq(S)
      BY <1>3, <1>5
  <2>2. c \o b \in Seq(S) /\ Len(c \o b) = Len(c) + Len(b)
      BY <2>1, ConcatProperties
  <2>3. i + (n - i + 1) = n + 1
      BY <1>1
  <2> QED
      BY <1>3, <1>5, <1>6, <2>2, <2>3
<1>8. \A k \in 1 .. i : new[k] = c[k]
    BY <1>1, <1>3, <1>5, <1>6
<1>9. \A k \in i + 1 .. n + 1 : new[k] = b[k - i]
    BY <1>1, <1>3, <1>5, <1>6
<1>10. \A k \in i + 1 .. n + 1 : b[k - i] = seq[k - 1]
  <2> TAKE k \in i + 1 .. n + 1
  <2>1. k - i \in 1 .. n - i + 1 /\ i + (k - i) - 1 = k - 1
      BY <1>1
  <2> QED
      BY <1>3, <2>1
<1> QED
    BY <1>1, <1>2, <1>5, <1>7, <1>8, <1>9, <1>10 DEF n

\* The two parts that an interval is split into
LEMMA PartsAre ==
    ASSUME NEW int \in AnInterval, NEW x \in Int
    PROVE  /\ [int EXCEPT !.end = x] \in AnInterval /\ [int EXCEPT !.start = x] \in AnInterval
           /\ [int EXCEPT !.end = x].start = int.start /\ [int EXCEPT !.end = x].end = x
           /\ [int EXCEPT !.start = x].start = x /\ [int EXCEPT !.start = x].end = int.end
           /\ [int EXCEPT !.end = x].state = int.state
           /\ [int EXCEPT !.start = x].state = int.state
    BY DEF AnInterval

LEMMA SplitAtIs ==
    ASSUME NEW ints, Tiled(ints), NEW x \in Int, NEW i \in Within(ints, x), NEW new,
           new = SplitAt(ints, x, i)
    PROVE  /\ i \in 1 .. Len(ints) /\ ints[i].start < x /\ x < ints[i].end
           /\ new \in Seq(AnInterval) /\ Len(new) = Len(ints) + 1
           /\ \A k \in 1 .. i - 1 : new[k] = ints[k]
           /\ new[i].start = ints[i].start /\ new[i].end = x /\ new[i].state = ints[i].state
           /\ new[i + 1].start = x /\ new[i + 1].end = ints[i].end
           /\ new[i + 1].state = ints[i].state
           /\ \A k \in i + 2 .. Len(ints) + 1 : new[k] = ints[k - 1]
<1> DEFINE n == Len(ints)
           front == [ints[i] EXCEPT !.end = x]
           back == [ints[i] EXCEPT !.start = x]
           m == InsertAt(ints, i, front)
<1>1. /\ n \in Nat \ {0} /\ i \in 1 .. n /\ ints[i].start < x /\ x < ints[i].end
      /\ ints \in Seq(AnInterval) /\ ints[i] \in AnInterval
    BY TilesAre DEF Within
<1>2. /\ front \in AnInterval /\ back \in AnInterval
      /\ front.start = ints[i].start /\ front.end = x /\ front.state = ints[i].state
      /\ back.start = x /\ back.end = ints[i].end /\ back.state = ints[i].state
  <2>1. ints[i] \in AnInterval
      BY <1>1
  <2> QED
      BY <2>1, PartsAre
<1>3. new = [m EXCEPT ![i + 1] = back]
    BY DEF SplitAt
<1> HIDE DEF front, n
<1>4. /\ m \in Seq(AnInterval) /\ Len(m) = n + 1
      /\ \A k \in 1 .. i - 1 : m[k] = ints[k]
      /\ m[i] = front
      /\ \A k \in i + 1 .. n + 1 : m[k] = ints[k - 1]
  <2>1. m = InsertAt(ints, i, front) /\ i \in 1 .. Len(ints) /\ front \in AnInterval
        /\ ints \in Seq(AnInterval)
      BY <1>1, <1>2 DEF n
  <2> HIDE DEF m
  <2>2. /\ m \in Seq(AnInterval) /\ Len(m) = Len(ints) + 1
        /\ \A k \in 1 .. i - 1 : m[k] = ints[k]
        /\ m[i] = front
        /\ \A k \in i + 1 .. Len(ints) + 1 : m[k] = ints[k - 1]
      BY <2>1, InsertIs
  <2> QED
      BY <2>2 DEF n
<1> HIDE DEF m, back
<1>5. i + 1 \in 1 .. n + 1 /\ i + 1 \in i + 1 .. n + 1 /\ i + 1 - 1 = i /\ DOMAIN m = 1 .. n + 1
    BY <1>1, <1>4
<1>9. /\ new \in Seq(AnInterval) /\ Len(new) = n + 1 /\ new[i + 1] = back
      /\ \A k \in 1 .. n + 1 : k # i + 1 => new[k] = m[k]
    BY <1>2, <1>4, <1>5, <1>3, ExceptSeq
<1>10. /\ \A k \in 1 .. i - 1 : new[k] = ints[k]
       /\ new[i] = front
       /\ \A k \in i + 2 .. n + 1 : new[k] = ints[k - 1]
  <2>1. \A k \in 1 .. i - 1 : k \in 1 .. n + 1 /\ k # i + 1
      BY <1>1
  <2>2. i \in 1 .. n + 1 /\ i # i + 1
      BY <1>1
  <2>3. \A k \in i + 2 .. n + 1 : k \in 1 .. n + 1 /\ k # i + 1 /\ k \in i + 1 .. n + 1
      BY <1>1
  <2> QED
      BY <1>4, <1>9, <2>1, <2>2, <2>3
<1> QED
    BY <1>1, <1>2, <1>9, <1>10 DEF n

\* What is split is the same at every point, and nothing wider.
SameAt(new, ints) == \A y \in Point : StateAt(new, y) = StateAt(ints, y)

Narrower(new, ints) ==
    \A k \in DOMAIN new : \E j \in DOMAIN ints :
        ints[j].start <= new[k].start /\ new[k].end <= ints[j].end

LEMMA SplitAtKeeps ==
    ASSUME NEW ints, Tiled(ints), NEW x \in Int, NEW i \in Within(ints, x), NEW new,
           new = SplitAt(ints, x, i)
    PROVE  Tiled(new) /\ SameAt(new, ints) /\ Narrower(new, ints) /\ Within(new, x) = {}
<1> DEFINE n == Len(ints)
<1>1. /\ n \in Nat \ {0} /\ DOMAIN ints = 1 .. n
      /\ \A k \in 1 .. n : /\ ints[k] \in AnInterval /\ ints[k].start \in Int
                           /\ ints[k].end \in Int /\ ints[k].start < ints[k].end
      /\ \A k \in 1 .. n - 1 : ints[k].end = ints[k + 1].start
      /\ ints[1].start = MinPoint /\ ints[n].end = MaxPoint
    BY TilesAre
<1>2. /\ i \in 1 .. n /\ ints[i].start < x /\ x < ints[i].end
      /\ new \in Seq(AnInterval) /\ Len(new) = n + 1
      /\ \A k \in 1 .. i - 1 : new[k] = ints[k]
      /\ \A k \in i + 2 .. n + 1 : new[k] = ints[k - 1]
    BY SplitAtIs
<1>3. /\ new[i].start = ints[i].start /\ new[i].end = x /\ new[i].state = ints[i].state
      /\ new[i + 1].start = x /\ new[i + 1].end = ints[i].end /\ new[i + 1].state = ints[i].state
    BY SplitAtIs
<1>4. DOMAIN new = 1 .. n + 1
    BY <1>2, LenProperties
<1> HIDE DEF n
<1>5. \A k \in 1 .. n + 1 : k \in 1 .. i - 1 \/ k = i \/ k = i + 1 \/ k \in i + 2 .. n + 1
    BY <1>1, <1>2
<1>6. /\ \A k \in 1 .. i - 1 : k \in 1 .. n /\ k + 1 \in 1 .. n /\ k \in 1 .. n - 1
      /\ \A k \in i + 2 .. n + 1 : k - 1 \in 1 .. n /\ k - 1 > i
    BY <1>1, <1>2
<1>7. \A k \in 1 .. n + 1 : new[k].start < new[k].end /\ new[k].start \in Int /\ new[k].end \in Int
  <2> TAKE k \in 1 .. n + 1
  <2>1. CASE k \in 1 .. i - 1
      BY <1>1, <1>2, <1>6, <2>1
  <2>2. CASE k = i \/ k = i + 1
      BY <1>1, <1>2, <1>3, <2>2
  <2>3. CASE k \in i + 2 .. n + 1
      BY <1>1, <1>2, <1>6, <2>3
  <2> QED
      BY <1>5, <2>1, <2>2, <2>3
<1>8. \A k \in 1 .. n : new[k].end = new[k + 1].start
  <2> TAKE k \in 1 .. n
  <2>1. CASE k \in 1 .. i - 1
    <3>1. new[k].end = ints[k].end /\ ints[k].end = ints[k + 1].start
        BY <1>1, <1>2, <1>6, <2>1
    <3>2. new[k + 1].start = ints[k + 1].start
      <4>1. k + 1 \in 1 .. i - 1 \/ k + 1 = i
          BY <1>1, <1>2, <2>1
      <4> QED
          BY <1>2, <1>3, <4>1
    <3> QED
        BY <3>1, <3>2
  <2>2. CASE k = i
      BY <1>3, <2>2
  <2>3. CASE k = i + 1
    <3>1. i + 2 \in i + 2 .. n + 1 /\ (i + 2) - 1 = i + 1 /\ i \in 1 .. n - 1 /\ k + 1 = i + 2
        BY <1>1, <1>2, <2>3
    <3>2. new[i + 2] = ints[(i + 2) - 1]
        BY <1>2, <3>1
    <3>3. new[k + 1] = ints[i + 1]
        BY <3>1, <3>2
    <3> QED
        BY <1>1, <1>3, <2>3, <3>1, <3>3
  <2>4. CASE k \in i + 2 .. n + 1
    <3>0. n \in Int /\ i \in Int /\ k \in Int /\ 1 <= i /\ i + 2 <= k /\ k <= n
        BY <1>1, <1>2, <2>4
    <3>1. /\ k + 1 \in i + 2 .. n + 1 /\ (k + 1) - 1 = k /\ k - 1 \in 1 .. n - 1 /\ (k - 1) + 1 = k
        BY <3>0
    <3>4. new[k + 1] = ints[(k + 1) - 1] /\ new[k] = ints[k - 1]
        BY <1>2, <2>4, <3>1
    <3>2. new[k + 1] = ints[k] /\ new[k] = ints[k - 1]
        BY <3>1, <3>4
    <3>3. ints[k - 1].end = ints[(k - 1) + 1].start
        BY <1>1, <3>1
    <3> QED
        BY <3>1, <3>2, <3>3
  <2>5. k \in 1 .. n + 1
      BY <1>1
  <2> QED
      BY <1>5, <2>1, <2>2, <2>3, <2>4, <2>5
<1>9. new[1].start = MinPoint
  <2>1. CASE i = 1
      BY <1>1, <1>3, <2>1
  <2>2. CASE i # 1
    <3>1. 1 \in 1 .. i - 1
        BY <1>1, <1>2, <2>2
    <3> QED
        BY <1>1, <1>2, <3>1
  <2> QED
      BY <2>1, <2>2
<1>10. new[n + 1].end = MaxPoint
  <2>1. CASE i = n
      BY <1>1, <1>3, <2>1
  <2>2. CASE i # n
    <3>1. n + 1 \in i + 2 .. n + 1 /\ (n + 1) - 1 = n
        BY <1>1, <1>2, <2>2
    <3>3. new[n + 1] = ints[(n + 1) - 1]
        BY <1>2, <3>1
    <3>2. new[n + 1] = ints[n]
        BY <3>1, <3>3
    <3> QED
        BY <1>1, <3>2
  <2> QED
      BY <2>1, <2>2
<1>11. Tiled(new)
  <2>1. Len(new) >= 1 /\ Len(new) = n + 1 /\ Len(new) - 1 = n
      BY <1>1, <1>2
  <2> QED
      BY <1>2, <1>7, <1>8, <1>9, <1>10, <2>1 DEF Tiled
<1>12. Narrower(new, ints)
  <2> SUFFICES ASSUME NEW k \in 1 .. n + 1
               PROVE  \E j \in 1 .. n : ints[j].start <= new[k].start /\ new[k].end <= ints[j].end
      BY <1>1, <1>4 DEF Narrower
  <2>1. CASE k \in 1 .. i - 1
    <3>1. k \in 1 .. n
        BY <1>1, <1>2, <2>1
    <3>2. new[k] = ints[k]
        BY <1>2, <2>1
    <3>3. ints[k].start \in Int /\ ints[k].end \in Int
        BY <1>1, <3>1
    <3>4. ints[k].start <= new[k].start /\ new[k].end <= ints[k].end
        BY <3>2, <3>3
    <3> QED
        BY <3>1, <3>4
  <2>2. CASE k = i \/ k = i + 1
    <3>1. i \in 1 .. n /\ ints[i].start \in Int /\ ints[i].end \in Int
        BY <1>1, <1>2
    <3>2. ints[i].start <= new[k].start /\ new[k].end <= ints[i].end
      <4>1. CASE k = i
          BY <1>2, <1>3, <3>1, <4>1
      <4>2. CASE k = i + 1
          BY <1>2, <1>3, <3>1, <4>2
      <4> QED
          BY <2>2, <4>1, <4>2
    <3> QED
        BY <3>1, <3>2
  <2>3. CASE k \in i + 2 .. n + 1
    <3>1. k - 1 \in 1 .. n
        BY <1>1, <1>2, <2>3
    <3>2. new[k] = ints[k - 1]
        BY <1>2, <2>3
    <3>3. ints[k - 1].start \in Int /\ ints[k - 1].end \in Int
        BY <1>1, <3>1
    <3>4. ints[k - 1].start <= new[k].start /\ new[k].end <= ints[k - 1].end
        BY <3>2, <3>3
    <3> QED
        BY <3>1, <3>4
  <2> QED
      BY <1>5, <2>1, <2>2, <2>3
<1>13. Within(new, x) = {}
  <2> SUFFICES ASSUME NEW k \in 1 .. n + 1, new[k].start < x, x < new[k].end PROVE FALSE
      BY <1>4 DEF Within
  <2>1. CASE k \in 1 .. i - 1
    <3>1. k \in 1 .. n /\ k < i
        BY <1>2, <1>6, <2>1
    <3>2. ints[k].end <= ints[i].start
        BY <1>1, <1>2, <3>1, Ascending
    <3>3. new[k] = ints[k]
        BY <1>2, <2>1
    <3> QED
        BY <1>1, <1>2, <3>1, <3>2, <3>3
  <2>2. CASE k = i \/ k = i + 1
      BY <1>1, <1>3, <2>2
  <2>3. CASE k \in i + 2 .. n + 1
    <3>1. k - 1 \in 1 .. n /\ i < k - 1
        BY <1>1, <1>2, <1>6, <2>3
    <3>2. ints[i].end <= ints[k - 1].start
        BY <1>1, <1>2, <3>1, Ascending
    <3>3. new[k] = ints[k - 1]
        BY <1>2, <2>3
    <3> QED
        BY <1>1, <1>2, <3>1, <3>2, <3>3
  <2> QED
      BY <1>5, <2>1, <2>2, <2>3
<1>14. SameAt(new, ints)
  <2> SUFFICES ASSUME NEW y \in Point PROVE StateAt(new, y) = StateAt(ints, y)
      BY DEF SameAt
  <2>1. PICK k \in DOMAIN ints : Covers(ints[k], y)
      BY CoveredOnce
  <2>2. k \in 1 .. n /\ ints[k].start <= y /\ y < ints[k].end /\ y \in Int
      BY <1>1, <2>1 DEF Covers, Point
  <2>3. StateAt(ints, y) = ints[k].state
      BY <2>1, AtIs
  <2>4. \E j \in DOMAIN new : Covers(new[j], y) /\ new[j].state = ints[k].state
    <3>1. CASE k < i
      <4>1. k \in 1 .. i - 1 /\ k \in 1 .. n + 1
          BY <1>1, <1>2, <2>2, <3>1
      <4> QED
          BY <1>2, <1>4, <2>1, <4>1
    <3>2. CASE k = i /\ y < x
      <4>1. i \in 1 .. n + 1
          BY <1>1, <1>2
      <4> QED
          BY <1>3, <1>4, <2>2, <3>2, <4>1 DEF Covers
    <3>3. CASE k = i /\ ~(y < x)
      <4>1. i + 1 \in 1 .. n + 1 /\ x <= y
          BY <1>1, <1>2, <2>2, <3>3
      <4> QED
          BY <1>3, <1>4, <2>2, <3>3, <4>1 DEF Covers
    <3>4. CASE k > i
      <4>1. k + 1 \in i + 2 .. n + 1 /\ k + 1 \in 1 .. n + 1 /\ (k + 1) - 1 = k
          BY <1>1, <1>2, <2>2, <3>4
      <4>3. new[k + 1] = ints[(k + 1) - 1]
          BY <1>2, <4>1
      <4>2. new[k + 1] = ints[k]
          BY <4>1, <4>3
      <4> QED
          BY <1>4, <2>1, <4>1, <4>2
    <3> QED
        BY <1>2, <2>2, <3>1, <3>2, <3>3, <3>4
  <2>5. PICK j \in DOMAIN new : Covers(new[j], y) /\ new[j].state = ints[k].state
      BY <2>4
  <2>6. StateAt(new, y) = new[j].state
      BY <1>11, <2>5, AtIs
  <2> QED
      BY <2>3, <2>5, <2>6
<1> QED
    BY <1>11, <1>12, <1>13, <1>14

LEMMA SplitKeeps ==
    ASSUME NEW ints, Tiled(ints), NEW x \in Int, NEW new, new = Split(ints, x)
    PROVE  Tiled(new) /\ SameAt(new, ints) /\ Narrower(new, ints) /\ Within(new, x) = {}
<1>1. CASE Within(ints, x) = {}
  <2>1. new = ints
      BY <1>1 DEF Split
  <2>2. Narrower(ints, ints)
    <3>1. \A k \in DOMAIN ints : ints[k].start \in Int /\ ints[k].end \in Int
        BY TilesAre
    <3> QED
        BY <3>1 DEF Narrower
  <2> QED
      BY <1>1, <2>1, <2>2 DEF SameAt
<1>2. CASE Within(ints, x) # {}
  <2> DEFINE i == CHOOSE j \in Within(ints, x) : TRUE
  <2>1. i \in Within(ints, x)
      BY <1>2
  <2>2. new = SplitAt(ints, x, i)
      BY <1>2 DEF Split
  <2> HIDE DEF i
  <2> QED
      BY <2>1, <2>2, SplitAtKeeps
<1> QED
    BY <1>1, <1>2

LEMMA NarrowerStay ==
    ASSUME NEW ints, Tiled(ints), NEW new, Tiled(new), Narrower(new, ints), NEW x \in Int,
           Within(ints, x) = {}
    PROVE  Within(new, x) = {}
<1> SUFFICES ASSUME NEW k \in DOMAIN new, new[k].start < x, x < new[k].end PROVE FALSE
    BY DEF Within
<1>1. PICK j \in DOMAIN ints : ints[j].start <= new[k].start /\ new[k].end <= ints[j].end
    BY DEF Narrower
<1>2. /\ ints[j].start \in Int /\ ints[j].end \in Int
      /\ new[k].start \in Int /\ new[k].end \in Int
    BY TilesAre
<1>3. ints[j].start < x /\ x < ints[j].end
    BY <1>1, <1>2
<1> QED
    BY <1>3 DEF Within

\* Split where said begins and ends, an interval lies in said or has no point of it.
Said3 == [start : Int, end : Int, val : Int]

LEMMA SplitForKeeps ==
    ASSUME NEW ints, Tiled(ints), NEW said \in Said3, NEW cut, cut = SplitFor(ints, said)
    PROVE  /\ Tiled(cut) /\ SameAt(cut, ints)
           /\ Within(cut, said.start) = {} /\ Within(cut, said.end) = {}
<1> DEFINE half == Split(ints, said.start)
<1>1. said.start \in Int /\ said.end \in Int
    BY DEF Said3
<1>2. cut = Split(half, said.end)
    BY DEF SplitFor
<1>3. Tiled(half) /\ SameAt(half, ints) /\ Within(half, said.start) = {}
    BY <1>1, SplitKeeps
<1> HIDE DEF half
<1>4. Tiled(cut) /\ SameAt(cut, half) /\ Narrower(cut, half) /\ Within(cut, said.end) = {}
    BY <1>1, <1>2, <1>3, SplitKeeps
<1>5. Within(cut, said.start) = {}
    BY <1>1, <1>3, <1>4, NarrowerStay
<1> QED
    BY <1>3, <1>4, <1>5 DEF SameAt

-----------------------------------------------------------------------------
(* An ECHO1, said of an interval.                                          *)

Heeding(int, r, v, q) == HearEcho(int.state[r], v, q, MinThreshold, HighThreshold)

\* What intervals make of an ECHO1, and what they say.
Result == [int : AnInterval, echo1 : Int, echo2 : Int]

Results(res, ints) ==
    /\ res \in Seq(Result) /\ Len(res) = Len(ints)
    /\ \A i \in 1 .. Len(ints) :
          res[i].int.start = ints[i].start /\ res[i].int.end = ints[i].end

LEMMA SameTiles ==
    ASSUME NEW ints, Tiled(ints), NEW new \in Seq(AnInterval), Len(new) = Len(ints),
           \A i \in 1 .. Len(ints) : new[i].start = ints[i].start /\ new[i].end = ints[i].end
    PROVE  Tiled(new)
<1> DEFINE n == Len(ints)
<1>1. /\ n \in Nat \ {0}
      /\ \A i \in 1 .. n : ints[i].start < ints[i].end
      /\ \A i \in 1 .. n - 1 : ints[i].end = ints[i + 1].start
      /\ ints[1].start = MinPoint /\ ints[n].end = MaxPoint
    BY TilesAre
<1>2. /\ \A i \in 1 .. n : new[i].start = ints[i].start /\ new[i].end = ints[i].end
      /\ new \in Seq(AnInterval) /\ Len(new) = n
    OBVIOUS
<1> HIDE DEF n
<1>3. /\ \A i \in 1 .. n - 1 : i \in 1 .. n /\ i + 1 \in 1 .. n
      /\ 1 \in 1 .. n /\ n \in 1 .. n /\ n >= 1
    BY <1>1
<1> QED
    BY <1>1, <1>2, <1>3 DEF Tiled

AllHeard(res, ints, who, r, v, q) ==
    \A i \in 1 .. Len(ints) :
        IF i \in who
        THEN /\ res[i].int.state = [ints[i].state EXCEPT ![r] = Heeding(ints[i], r, v, q).rs]
             /\ res[i].echo1 = Heeding(ints[i], r, v, q).echo1
             /\ res[i].echo2 = Heeding(ints[i], r, v, q).echo2
        ELSE res[i].int.state = ints[i].state /\ res[i].echo1 = NoVal /\ res[i].echo2 = NoVal

LEMMA HearingIs ==
    ASSUME NEW ints, Tiled(ints), NEW who, NEW r \in 0 .. Rounds, NEW v \in Int,
           NEW q \in Node, NEW res, res = Hearing(ints, who, r, v, q)
    PROVE  Results(res, ints) /\ AllHeard(res, ints, who, r, v, q)
<1> DEFINE n == Len(ints)
<1>1. n \in Nat /\ DOMAIN ints = 1 .. n
    BY TilesAre
<1>2. res = [i \in 1 .. n |->
                IF i \in who THEN Heard(ints[i], r, Heeding(ints[i], r, v, q))
                ELSE [int |-> ints[i], echo1 |-> NoVal, echo2 |-> NoVal]]
    BY <1>1 DEF Hearing, Heeding
<1>3. ASSUME NEW i \in 1 .. n
      PROVE  /\ res[i] \in Result
             /\ res[i].int.start = ints[i].start /\ res[i].int.end = ints[i].end
             /\ IF i \in who
                THEN /\ res[i].int.state = [ints[i].state EXCEPT ![r] = Heeding(ints[i], r, v, q).rs]
                     /\ res[i].echo1 = Heeding(ints[i], r, v, q).echo1
                     /\ res[i].echo2 = Heeding(ints[i], r, v, q).echo2
                ELSE res[i].int.state = ints[i].state /\ res[i].echo1 = NoVal /\ res[i].echo2 = NoVal
  <2>1. ints[i] \in AnInterval
      BY TilesAre
  <2>2. CASE i \in who
    <3> DEFINE h == Heeding(ints[i], r, v, q)
               new == [ints[i] EXCEPT !.state[r] = h.rs]
    <3>1. ints[i].state[r] \in RoundState
        BY <2>1 DEF AnInterval
    <3>2. h.rs \in RoundState /\ h.echo1 \in Int /\ h.echo2 \in Int
        BY <3>1, HearEchoIs DEF Heeding, NoVal
    <3>3. res[i] = [int |-> new, echo1 |-> h.echo1, echo2 |-> h.echo2]
        BY <1>2, <2>2 DEF Heard
    <3> HIDE DEF h
    <3>4. /\ new \in AnInterval /\ new.start = ints[i].start /\ new.end = ints[i].end
          /\ new.state = [ints[i].state EXCEPT ![r] = h.rs]
        BY <2>1, <3>2 DEF AnInterval
    <3> HIDE DEF new
    <3> QED
        BY <2>2, <3>2, <3>3, <3>4 DEF Result, h
  <2>3. CASE i \notin who
    <3>1. res[i] = [int |-> ints[i], echo1 |-> NoVal, echo2 |-> NoVal]
        BY <1>2, <2>3
    <3> QED
        BY <2>1, <2>3, <3>1 DEF Result, NoVal
  <2> QED
      BY <2>2, <2>3
<1>4. res \in Seq(Result) /\ Len(res) = n
  <2>1. res \in [1 .. n -> Result]
      BY <1>2, <1>3
  <2> QED
      BY <1>1, <2>1
<1> QED
    BY <1>3, <1>4 DEF Results, AllHeard

LEMMA IntervalsAre ==
    ASSUME NEW ints, Tiled(ints), NEW res, Results(res, ints)
    PROVE  /\ Tiled(Intervals(res)) /\ Len(Intervals(res)) = Len(ints)
           /\ \A i \in 1 .. Len(ints) : /\ Intervals(res)[i] = res[i].int
                                        /\ Intervals(res)[i].start = ints[i].start
                                        /\ Intervals(res)[i].end = ints[i].end
<1> DEFINE n == Len(ints)
<1>1. n \in Nat /\ res \in Seq(Result) /\ Len(res) = n
    BY TilesAre DEF Results
<1>2. DOMAIN res = 1 .. n /\ \A i \in 1 .. n : res[i] \in Result
    BY <1>1
<1>3. Intervals(res) = [i \in 1 .. n |-> res[i].int]
    BY <1>2 DEF Intervals
<1>4. Intervals(res) \in [1 .. n -> AnInterval]
    BY <1>2, <1>3 DEF Result
<1>5. Intervals(res) \in Seq(AnInterval) /\ Len(Intervals(res)) = n
    BY <1>1, <1>4
<1>6. \A i \in 1 .. n : /\ Intervals(res)[i] = res[i].int
                        /\ Intervals(res)[i].start = ints[i].start
                        /\ Intervals(res)[i].end = ints[i].end
    BY <1>3 DEF Results
<1>7. Tiled(Intervals(res))
    BY <1>5, <1>6, SameTiles
<1> QED
    BY <1>5, <1>6, <1>7

LEMMA ToldIs ==
    ASSUME NEW cut, Tiled(cut), NEW said \in Said3, said.start < said.end,
           Within(cut, said.start) = {}, Within(cut, said.end) = {}, NEW ints,
           NEW y \in Point, NEW i \in DOMAIN cut, Covers(cut[i], y)
    PROVE  /\ i \in Told(cut, said) <=> Covers(said, y)
           /\ i \in Fresh(cut, ints, said) => Covers(said, y)
<1>1. /\ cut[i].start \in Int /\ cut[i].end \in Int /\ cut[i].start < cut[i].end
      /\ said.start \in Int /\ said.end \in Int /\ y \in Int
    BY TilesAre DEF Said3, Point
<1>2. cut[i].start <= y /\ y < cut[i].end
    BY DEF Covers
<1>3. /\ ~(cut[i].start < said.start /\ said.start < cut[i].end)
      /\ ~(cut[i].start < said.end /\ said.end < cut[i].end)
    BY DEF Within
<1>4. i \in Told(cut, said) <=> said.start <= cut[i].start /\ cut[i].end <= said.end
    BY DEF Told
<1>5. i \in Fresh(cut, ints, said) => cut[i].start = said.start
    BY DEF Fresh
<1>6. Covers(said, y) <=> said.start <= y /\ y < said.end
    BY DEF Covers
<1> QED
    BY <1>1, <1>2, <1>3, <1>4, <1>5, <1>6

\* The two loops, by name.
LoopsAre(acc, said, r, q, cut, first, second) ==
    /\ cut = SplitFor(acc.ints, said)
    /\ first = Hearing(cut, Fresh(cut, acc.ints, said), r, said.val, q)
    /\ second = Hearing(Intervals(first), Told(Intervals(first), said), r, said.val, q)

LEMMA TellIs ==
    ASSUME NEW acc, Tiled(acc.ints), NEW said \in Said3, NEW r \in 0 .. Rounds, NEW q \in Node,
           NEW cut, NEW first, NEW second, LoopsAre(acc, said, r, q, cut, first, second)
    PROVE  /\ Tell(acc, said, r, q) = Noted(acc, first, second)
           /\ Tiled(cut) /\ SameAt(cut, acc.ints)
           /\ Within(cut, said.start) = {} /\ Within(cut, said.end) = {}
           /\ Results(first, cut) /\ Tiled(Intervals(first)) /\ Len(Intervals(first)) = Len(cut)
           /\ Results(second, cut) /\ Tiled(Intervals(second)) /\ Len(Intervals(second)) = Len(cut)
           /\ \A i \in 1 .. Len(cut) :
                 /\ Intervals(first)[i] = first[i].int /\ Intervals(second)[i] = second[i].int
                 /\ Intervals(second)[i].start = cut[i].start
                 /\ Intervals(second)[i].end = cut[i].end
           /\ Told(Intervals(first), said) = Told(cut, said)
<1> DEFINE mid == Intervals(first)
<1>1. said.val \in Int
    BY DEF Said3
<1>2. /\ cut = SplitFor(acc.ints, said)
      /\ first = Hearing(cut, Fresh(cut, acc.ints, said), r, said.val, q)
      /\ second = Hearing(mid, Told(mid, said), r, said.val, q)
    BY DEF LoopsAre
<1>3. Tell(acc, said, r, q) = Noted(acc, first, second)
    BY <1>2 DEF Tell, BothLoops, SecondLoop
<1>4. /\ Tiled(cut) /\ SameAt(cut, acc.ints)
      /\ Within(cut, said.start) = {} /\ Within(cut, said.end) = {}
    BY <1>2, SplitForKeeps
<1>5. Results(first, cut)
    BY <1>1, <1>2, <1>4, HearingIs
<1>6. /\ Tiled(mid) /\ Len(mid) = Len(cut)
      /\ \A i \in 1 .. Len(cut) : /\ mid[i] = first[i].int /\ mid[i].start = cut[i].start
                                  /\ mid[i].end = cut[i].end
  <2>1. /\ Tiled(Intervals(first)) /\ Len(Intervals(first)) = Len(cut)
        /\ \A i \in 1 .. Len(cut) : /\ Intervals(first)[i] = first[i].int
                                    /\ Intervals(first)[i].start = cut[i].start
                                    /\ Intervals(first)[i].end = cut[i].end
      BY <1>4, <1>5, IntervalsAre
  <2> QED
      BY <2>1
<1> HIDE DEF mid
<1>7. Results(second, mid)
    BY <1>1, <1>2, <1>6, HearingIs
<1>8. /\ Tiled(Intervals(second)) /\ Len(Intervals(second)) = Len(cut)
      /\ \A i \in 1 .. Len(cut) : /\ Intervals(second)[i] = second[i].int
                                  /\ Intervals(second)[i].start = cut[i].start
                                  /\ Intervals(second)[i].end = cut[i].end
  <2>1. /\ Tiled(Intervals(second)) /\ Len(Intervals(second)) = Len(mid)
        /\ \A i \in 1 .. Len(mid) : /\ Intervals(second)[i] = second[i].int
                                    /\ Intervals(second)[i].start = mid[i].start
                                    /\ Intervals(second)[i].end = mid[i].end
      BY <1>6, <1>7, IntervalsAre
  <2> QED
      BY <1>6, <2>1
<1>9. Results(second, cut)
    BY <1>6, <1>7 DEF Results
<1>10. Told(mid, said) = Told(cut, said)
  <2>1. DOMAIN mid = 1 .. Len(cut) /\ DOMAIN cut = 1 .. Len(cut)
      BY <1>4, <1>6, TilesAre
  <2> QED
      BY <1>6, <2>1 DEF Told
<1> QED
    BY <1>3, <1>4, <1>5, <1>6, <1>8, <1>9, <1>10 DEF mid

\* What an ECHO1 makes of a point.
StateAfter(state, said, r, q) ==
    [state EXCEPT ![r] = HearEcho(state[r], said.val, q, MinThreshold, HighThreshold).rs]

\* What the two loops say of a point: what hearing the message makes its interval say
SpokenBy(f, s, h, covered) ==
    IF covered
    THEN /\ f.echo1 \in {h.echo1, NoVal} /\ s.echo1 \in {h.echo1, NoVal}
         /\ h.echo1 \in {f.echo1, s.echo1}
         /\ f.echo2 \in {h.echo2, NoVal} /\ s.echo2 \in {h.echo2, NoVal}
         /\ h.echo2 \in {f.echo2, s.echo2}
    ELSE f.echo1 = NoVal /\ s.echo1 = NoVal /\ f.echo2 = NoVal /\ s.echo2 = NoVal

LEMMA TellAt ==
    ASSUME Apart, NEW acc, Tiled(acc.ints), NEW said \in Said3, said.start < said.end,
           NEW r \in 0 .. Rounds, NEW q \in Node,
           NEW cut, NEW first, NEW second, LoopsAre(acc, said, r, q, cut, first, second),
           NEW y \in Point, NEW i \in 1 .. Len(cut), Covers(cut[i], y)
    PROVE  /\ second[i].int.state = IF Covers(said, y)
                                    THEN [cut[i].state EXCEPT ![r] = Heeding(cut[i], r, said.val, q).rs]
                                    ELSE cut[i].state
           /\ SpokenBy(first[i], second[i], Heeding(cut[i], r, said.val, q), Covers(said, y))
<1> DEFINE mid == Intervals(first)
           fresh == Fresh(cut, acc.ints, said)
           told == Told(cut, said)
           h == Heeding(cut[i], r, said.val, q)
           v == said.val
<1>1. /\ Tiled(cut) /\ Within(cut, said.start) = {} /\ Within(cut, said.end) = {}
      /\ Tiled(mid) /\ Len(mid) = Len(cut) /\ mid[i] = first[i].int
      /\ Told(mid, said) = told
  <2>1. Tiled(cut) /\ Tiled(Intervals(first)) /\ Len(Intervals(first)) = Len(cut)
      BY TellIs
  <2>4. Within(cut, said.start) = {}
      BY TellIs
  <2>5. Within(cut, said.end) = {}
      BY TellIs
  <2>2. \A j \in 1 .. Len(cut) : Intervals(first)[j] = first[j].int
      BY TellIs
  <2>3. Told(Intervals(first), said) = Told(cut, said)
      BY TellIs
  <2> QED
      BY <2>1, <2>2, <2>3, <2>4, <2>5
<1>2. /\ first = Hearing(cut, fresh, r, v, q)
      /\ second = Hearing(mid, told, r, v, q)
    BY <1>1 DEF LoopsAre
<1>3. v \in Int /\ i \in DOMAIN cut /\ cut[i] \in AnInterval /\ i \in 1 .. Len(mid)
  <2>1. DOMAIN cut = 1 .. Len(cut) /\ cut[i] \in AnInterval
      BY <1>1, TilesAre
  <2> QED
      BY <1>1, <2>1 DEF Said3
<1>4. (i \in told <=> Covers(said, y)) /\ (i \in fresh => Covers(said, y))
    BY <1>1, <1>3, ToldIs
<1> HIDE DEF fresh, told, mid
<1>5. IF i \in fresh
      THEN first[i].int.state = [cut[i].state EXCEPT ![r] = h.rs]
           /\ first[i].echo1 = h.echo1 /\ first[i].echo2 = h.echo2
      ELSE first[i].int.state = cut[i].state /\ first[i].echo1 = NoVal /\ first[i].echo2 = NoVal
  <2>1. AllHeard(first, cut, fresh, r, v, q)
    <3> HIDE DEF v
    <3> QED
        BY <1>1, <1>2, <1>3, HearingIs
  <2> QED
      BY <2>1 DEF AllHeard
<1>6. IF i \in told
      THEN /\ second[i].int.state = [mid[i].state EXCEPT ![r] = Heeding(mid[i], r, v, q).rs]
           /\ second[i].echo1 = Heeding(mid[i], r, v, q).echo1
           /\ second[i].echo2 = Heeding(mid[i], r, v, q).echo2
      ELSE second[i].int.state = mid[i].state /\ second[i].echo1 = NoVal /\ second[i].echo2 = NoVal
  <2>1. AllHeard(second, mid, told, r, v, q)
    <3> HIDE DEF v
    <3> QED
        BY <1>1, <1>2, <1>3, HearingIs
  <2> QED
      BY <1>3, <2>1 DEF AllHeard
<1>7. cut[i].state[r] \in RoundState /\ cut[i].state \in [0 .. Rounds -> RoundState]
    BY <1>3 DEF AnInterval
<1>8. CASE i \in fresh
  <2>1. h.rs \in RoundState /\ h.rs # NoState /\ Heeded(h.rs, v, q)
      BY <1>3, <1>7, HearEchoIs DEF Heeding
  <2>2. HearEcho(h.rs, v, q, MinThreshold, HighThreshold) = Quiet(h.rs)
      BY <1>3, <2>1, HeededIsQuiet DEF Quiet
  <2> HIDE DEF h
  <2>3. mid[i].state = [cut[i].state EXCEPT ![r] = h.rs]
      BY <1>1, <1>5, <1>8
  <2>4. mid[i].state[r] = h.rs
      BY <1>7, <2>3
  <2>5. Heeding(mid[i], r, v, q) = Quiet(h.rs)
      BY <2>2, <2>4 DEF Heeding
  <2>6. /\ second[i].int.state = [mid[i].state EXCEPT ![r] = h.rs]
        /\ second[i].echo1 = NoVal /\ second[i].echo2 = NoVal
      BY <1>4, <1>6, <1>8, <2>5 DEF Quiet
  <2>7. second[i].int.state = [cut[i].state EXCEPT ![r] = h.rs]
      BY <1>7, <2>3, <2>6
  <2>8. Covers(said, y)
      BY <1>4, <1>8
  <2> QED
      BY <1>5, <1>8, <2>6, <2>7, <2>8 DEF h, SpokenBy
<1>9. CASE i \notin fresh
  <2>1. mid[i].state = cut[i].state /\ first[i].echo1 = NoVal /\ first[i].echo2 = NoVal
      BY <1>1, <1>5, <1>9
  <2>2. Heeding(mid[i], r, v, q) = h
      BY <2>1 DEF Heeding
  <2> HIDE DEF h
  <2> QED
      BY <1>4, <1>6, <2>1, <2>2 DEF h, SpokenBy
<1> QED
    BY <1>8, <1>9

LEMMA TellPerPoint ==
    ASSUME Apart, NEW acc, Tiled(acc.ints), NEW said \in Said3, said.start < said.end,
           NEW r \in 0 .. Rounds, NEW q \in Node, NEW y \in Point
    PROVE  StateAt(Tell(acc, said, r, q).ints, y)
             = IF Covers(said, y) THEN StateAfter(StateAt(acc.ints, y), said, r, q)
               ELSE StateAt(acc.ints, y)
<1> DEFINE cut == SplitFor(acc.ints, said)
           first == Hearing(cut, Fresh(cut, acc.ints, said), r, said.val, q)
           second == Hearing(Intervals(first), Told(Intervals(first), said), r, said.val, q)
<1>1. LoopsAre(acc, said, r, q, cut, first, second)
    BY DEF LoopsAre
<1> HIDE DEF cut, first, second
<1>2. /\ Tell(acc, said, r, q) = Noted(acc, first, second)
      /\ Tiled(cut) /\ SameAt(cut, acc.ints)
      /\ Tiled(Intervals(second)) /\ Len(Intervals(second)) = Len(cut)
      /\ \A i \in 1 .. Len(cut) :
            /\ Intervals(second)[i] = second[i].int
            /\ Intervals(second)[i].start = cut[i].start
            /\ Intervals(second)[i].end = cut[i].end
    BY <1>1, TellIs
<1>3. Tell(acc, said, r, q).ints = Intervals(second)
    BY <1>2 DEF Noted
<1>4. PICK i \in DOMAIN cut : Covers(cut[i], y)
    BY <1>2, CoveredOnce
<1>5. i \in 1 .. Len(cut) /\ i \in DOMAIN Intervals(second)
    BY <1>2, <1>4, TilesAre
<1>6. Covers(Intervals(second)[i], y)
    BY <1>2, <1>4, <1>5 DEF Covers
<1>7. StateAt(Intervals(second), y) = second[i].int.state
    BY <1>2, <1>5, <1>6, AtIs
<1>8. cut[i].state = StateAt(acc.ints, y)
    BY <1>2, <1>4, AtIs DEF SameAt
<1>9. second[i].int.state = IF Covers(said, y)
                            THEN [cut[i].state EXCEPT ![r] = Heeding(cut[i], r, said.val, q).rs]
                            ELSE cut[i].state
    BY <1>1, <1>4, <1>5, TellAt
<1> QED
    BY <1>3, <1>7, <1>8, <1>9 DEF StateAfter, Heeding

-----------------------------------------------------------------------------
(* Compressing changes nothing that is said of a point.                    *)

\* What is pushed onto an echo, and what a compressed echo is made of
Proper == {s \in Said3 : s.start < s.end}

Merges(S) == /\ S \subseteq Said3
             /\ \A a \in S, b \in S : a.end = b.start => [a EXCEPT !.end = b.end] \in S

LEMMA Mergeable == Merges(Said3) /\ Merges(Proper)
<1>1. ASSUME NEW a \in Said3, NEW b \in Said3
      PROVE  /\ [a EXCEPT !.end = b.end] \in Said3
             /\ [a EXCEPT !.end = b.end].start = a.start /\ [a EXCEPT !.end = b.end].end = b.end
             /\ a.start \in Int /\ a.end \in Int /\ b.start \in Int /\ b.end \in Int
    BY DEF Said3
<1>2. ASSUME NEW a \in Proper, NEW b \in Proper, a.end = b.start
      PROVE  [a EXCEPT !.end = b.end] \in Proper
  <2>1. a \in Said3 /\ b \in Said3 /\ a.start < a.end /\ b.start < b.end
      BY DEF Proper
  <2> DEFINE c == [a EXCEPT !.end = b.end]
  <2>2. c \in Said3 /\ c.start = a.start /\ c.end = b.end
      BY <1>1, <2>1
  <2>4. a.start \in Int /\ a.end \in Int /\ b.start \in Int /\ b.end \in Int
      BY <2>1 DEF Said3
  <2>5. a.start < b.end
      BY <1>2, <2>1, <2>4
  <2> HIDE DEF c
  <2>3. c.start < c.end
      BY <2>2, <2>5
  <2>6. c \in Proper
      BY <2>2, <2>3 DEF Proper
  <2> QED
      BY <2>6 DEF c
<1>3. Proper \subseteq Said3
    BY DEF Proper
<1> QED
    BY <1>1, <1>2, <1>3 DEF Merges

\* Of what point which value is said
Speaks(echo, y, v) == \E i \in DOMAIN echo : Covers(echo[i], y) /\ echo[i].val = v

LEMMA PushIs ==
    ASSUME NEW S, Merges(S), NEW echo \in Seq(S), NEW said \in S
    PROVE  PushAny(echo, said) \in Seq(S)
<1>1. CASE said.val = NoVal
    BY <1>1 DEF PushAny
<1>2. CASE said.val # NoVal /\ echo # <<>> /\ Last(echo).val = said.val /\ Last(echo).end = said.start
  <2> DEFINE n == Len(echo)
             t == [echo[n] EXCEPT !.end = said.end]
  <2>1. n \in Nat \ {0} /\ n \in 1 .. n /\ DOMAIN echo = 1 .. n /\ echo[n] \in S /\ Last(echo) = echo[n]
    <3>1. n \in Nat /\ n # 0
        BY <1>2
    <3>2. Last(echo) = echo[n]
        BY DEF Last
    <3> QED
        BY <3>1, <3>2
  <2>2. t \in S
      BY <1>2, <2>1 DEF Merges
  <2>3. PushAny(echo, said) = [echo EXCEPT ![n].end = said.end]
      BY <1>2 DEF PushAny, Push
  <2>4. PushAny(echo, said) = [echo EXCEPT ![n] = t]
      BY <2>1, <2>3
  <2> HIDE DEF t
  <2> QED
      BY <2>1, <2>2, <2>4, ExceptSeq
<1>3. CASE /\ said.val # NoVal
           /\ ~(echo # <<>> /\ Last(echo).val = said.val /\ Last(echo).end = said.start)
  <2>1. PushAny(echo, said) = Append(echo, said)
      BY <1>3 DEF PushAny, Push
  <2> QED
      BY <2>1, AppendProperties
<1> QED
    BY <1>1, <1>2, <1>3

LEMMA PushSpeaks ==
    ASSUME NEW echo \in Seq(Proper), NEW said \in Proper, NEW y \in Int, NEW v, v # NoVal
    PROVE  Speaks(PushAny(echo, said), y, v)
             <=> Speaks(echo, y, v) \/ (Covers(said, y) /\ said.val = v)
<1> DEFINE n == Len(echo)
           new == PushAny(echo, said)
<1>0. /\ n \in Nat /\ DOMAIN echo = 1 .. n
      /\ \A i \in 1 .. n : echo[i] \in Proper
    OBVIOUS
<1>1. CASE said.val = NoVal
  <2>1. new = echo
      BY <1>1 DEF PushAny
  <2> QED
      BY <1>1, <2>1
<1>2. CASE said.val # NoVal /\ echo # <<>> /\ Last(echo).val = said.val /\ Last(echo).end = said.start
  <2> DEFINE t == [echo[n] EXCEPT !.end = said.end]
  <2>1. n \in 1 .. n /\ echo[n] \in Proper /\ Last(echo) = echo[n]
    <3>1. n # 0
        BY <1>2
    <3>2. Last(echo) = echo[n]
        BY DEF Last
    <3> QED
        BY <1>0, <3>1, <3>2
  <2>2. t.start = echo[n].start /\ t.end = said.end /\ t.val = echo[n].val
      BY <2>1 DEF Proper, Said3
  <2>3. new = [echo EXCEPT ![n].end = said.end]
      BY <1>2 DEF PushAny, Push
  <2>4. new = [echo EXCEPT ![n] = t]
      BY <2>1, <2>3
  <2> HIDE DEF t, new, n
  <2>5. DOMAIN new = 1 .. n /\ new[n] = t /\ \A i \in 1 .. n : i # n => new[i] = echo[i]
      BY <1>0, <2>1, <2>4
  <2>6. echo[n].val = said.val /\ echo[n].end = said.start
      BY <1>2, <2>1
  <2>7. /\ echo[n].start \in Int /\ said.start \in Int /\ said.end \in Int
        /\ echo[n].start < echo[n].end /\ said.start < said.end
      BY <2>1, <2>6 DEF Proper, Said3
  <2>8. Covers(t, y) <=> Covers(echo[n], y) \/ Covers(said, y)
    <3>1. Covers(t, y) <=> echo[n].start <= y /\ y < said.end
        BY <2>2 DEF Covers
    <3>2. Covers(echo[n], y) <=> echo[n].start <= y /\ y < said.start
        BY <2>6 DEF Covers
    <3>3. Covers(said, y) <=> said.start <= y /\ y < said.end
        BY DEF Covers
    <3>4. echo[n].start < said.start
        BY <2>6, <2>7
    <3> QED
        BY <2>7, <3>1, <3>2, <3>3, <3>4
  <2>9. Speaks(new, y, v) <=> (Covers(t, y) /\ t.val = v)
                               \/ \E i \in 1 .. n : i # n /\ Covers(echo[i], y) /\ echo[i].val = v
      BY <2>1, <2>5 DEF Speaks
  <2>10. Speaks(echo, y, v) <=> (Covers(echo[n], y) /\ echo[n].val = v)
                                \/ \E i \in 1 .. n : i # n /\ Covers(echo[i], y) /\ echo[i].val = v
      BY <1>0, <2>1 DEF Speaks
  <2> QED
      BY <2>2, <2>6, <2>8, <2>9, <2>10 DEF new
<1>3. CASE /\ said.val # NoVal
           /\ ~(echo # <<>> /\ Last(echo).val = said.val /\ Last(echo).end = said.start)
  <2>1. new = Append(echo, said)
      BY <1>3 DEF PushAny, Push
  <2>2. /\ Len(Append(echo, said)) = n + 1 /\ Append(echo, said) \in Seq(Proper)
        /\ \A i \in 1 .. n : Append(echo, said)[i] = echo[i]
        /\ Append(echo, said)[n + 1] = said
      BY AppendProperties
  <2> HIDE DEF new
  <2>3. /\ DOMAIN new = 1 .. n + 1 /\ new[n + 1] = said
        /\ \A i \in 1 .. n : new[i] = echo[i]
      BY <2>1, <2>2, LenProperties
  <2>4. \A i : i \in 1 .. n + 1 <=> i \in 1 .. n \/ i = n + 1
      BY <1>0
  <2> HIDE DEF n
  <2> QED
      BY <1>0, <2>3, <2>4 DEF Speaks, new
<1> QED
    BY <1>1, <1>2, <1>3

CompressRun(run, S, saids) ==
    /\ run \in [0 .. Len(saids) -> Seq(S)] /\ run[0] = <<>>
    /\ \A n \in 1 .. Len(saids) : run[n] = PushAny(run[n - 1], saids[n])

LEMMA CompressRuns ==
    ASSUME NEW S, Merges(S), NEW saids \in Seq(S)
    PROVE  \E run : CompressRun(run, S, saids) /\ Compress(saids) = run[Len(saids)]
<1> DEFINE N == Len(saids)
           Z == Seq(S)
           step == [n \in Nat |-> [t \in Z |-> IF n \in 1 .. N THEN PushAny(t, saids[n]) ELSE t]]
           Is(f) == f = [n \in 0 .. N |-> IF n = 0 THEN <<>> ELSE PushAny(f[n - 1], saids[n])]
           run == CHOOSE f : Is(f)
<1>1. N \in Nat /\ (\A n \in 1 .. N : saids[n] \in S) /\ <<>> \in Z
    OBVIOUS
<1>2. Compress(saids) = run[N]
    BY DEF Compress
<1> HIDE DEF N
<1>3. \A t \in Z, n \in 1 .. N : PushAny(t, saids[n]) \in Z
    BY <1>1, PushIs
<1> HIDE DEF Z
<1>4. step \in [Nat -> [Z -> Z]]
  <2>1. \A n \in Nat, t \in Z : (IF n \in 1 .. N THEN PushAny(t, saids[n]) ELSE t) \in Z
      BY <1>3
  <2> QED
      BY <2>1
<1>5. PICK g : Runs(g, N, Z, <<>>, step)
    BY <1>1, <1>4, SomeRun
<1>6. g \in [0 .. N -> Z] /\ \A n \in 0 .. N : g[n] = IF n = 0 THEN <<>> ELSE step[n][g[n - 1]]
    BY <1>5 DEF Runs
<1>7. ASSUME NEW n \in 0 .. N PROVE g[n] = IF n = 0 THEN <<>> ELSE PushAny(g[n - 1], saids[n])
  <2>1. CASE n # 0
    <3>1. n \in 1 .. N /\ n \in Nat /\ n - 1 \in 0 .. N
        BY <1>1, <2>1
    <3>2. g[n - 1] \in Z
        BY <1>6, <3>1
    <3>3. step[n][g[n - 1]] = PushAny(g[n - 1], saids[n])
        BY <3>1, <3>2
    <3> QED
        BY <1>6, <2>1, <3>3
  <2> QED
      BY <1>6, <2>1
<1> HIDE DEF step
<1>8. Is(g)
    BY <1>6, <1>7
<1>9. Is(run)
    BY <1>8
<1> HIDE DEF run
<1>10. \A n \in 0 .. N : run[n] = IF n = 0 THEN <<>> ELSE PushAny(run[n - 1], saids[n])
    BY <1>9
<1> DEFINE T == {n \in 0 .. N : run[n] \in Z}
<1>11. 0 \in T
  <2>1. 0 \in 0 .. N
      BY <1>1
  <2>2. run[0] = <<>>
      BY <1>10, <2>1
  <2> QED
      BY <1>1, <2>1, <2>2
<1>12. ASSUME NEW n \in 0 .. N - 1, n \in T PROVE n + 1 \in T
  <2>1. n + 1 \in 1 .. N /\ n + 1 \in 0 .. N /\ n + 1 # 0 /\ (n + 1) - 1 = n
      BY <1>1
  <2>2. run[n + 1] = PushAny(run[n], saids[n + 1])
      BY <1>10, <2>1
  <2> QED
      BY <1>3, <1>12, <2>1, <2>2
<1> HIDE DEF T
<1>13. \A n \in 0 .. N : n \in T
    BY <1>1, <1>11, <1>12, UpTo
<1>14. \A n \in 0 .. N : run[n] \in Z
    BY <1>13 DEF T
<1>15. run \in [0 .. N -> Z]
    BY <1>9, <1>14
<1>16. ASSUME NEW n \in 1 .. N PROVE run[n] = PushAny(run[n - 1], saids[n])
  <2>1. n \in 0 .. N /\ n # 0
      BY <1>1
  <2> QED
      BY <1>10, <2>1
<1>17. run[0] = <<>>
  <2>1. 0 \in 0 .. N
      BY <1>1
  <2> QED
      BY <1>10, <2>1
<1>18. CompressRun(run, S, saids)
    BY <1>15, <1>16, <1>17 DEF CompressRun, N, Z
<1> QED
    BY <1>2, <1>18 DEF N

LEMMA CompressIs ==
    ASSUME NEW S, Merges(S), NEW saids \in Seq(S)
    PROVE  Compress(saids) \in Seq(S)
<1>1. PICK run : CompressRun(run, S, saids) /\ Compress(saids) = run[Len(saids)]
    BY CompressRuns
<1>2. Len(saids) \in 0 .. Len(saids)
    OBVIOUS
<1> QED
    BY <1>1, <1>2 DEF CompressRun

\* Compressing changes nothing of what is said of a point.
LEMMA CompressSpeaks ==
    ASSUME NEW saids \in Seq(Proper), NEW y \in Int, NEW v, v # NoVal
    PROVE  Speaks(Compress(saids), y, v) <=> Speaks(saids, y, v)
<1> DEFINE N == Len(saids)
<1>1. PICK run : CompressRun(run, Proper, saids) /\ Compress(saids) = run[N]
    BY CompressRuns, Mergeable
<1>2. /\ N \in Nat /\ DOMAIN saids = 1 .. N
      /\ \A n \in 1 .. N : saids[n] \in Proper
    OBVIOUS
<1>3. /\ run \in [0 .. N -> Seq(Proper)] /\ run[0] = <<>>
      /\ \A n \in 1 .. N : run[n] = PushAny(run[n - 1], saids[n])
    BY <1>1 DEF CompressRun
<1> HIDE DEF N
<1> DEFINE Hit(i) == Covers(saids[i], y) /\ saids[i].val = v
           T == {n \in 0 .. N : Speaks(run[n], y, v) <=> \E i \in 1 .. n : Hit(i)}
<1>4. 0 \in T
  <2>1. 0 \in 0 .. N /\ ~Speaks(run[0], y, v)
      BY <1>2, <1>3 DEF Speaks
  <2>2. ~\E i \in 1 .. 0 : Hit(i)
      OBVIOUS
  <2> QED
      BY <2>1, <2>2
<1>5. ASSUME NEW n \in 0 .. N - 1, n \in T PROVE n + 1 \in T
  <2>1. n + 1 \in 1 .. N /\ n + 1 \in 0 .. N /\ (n + 1) - 1 = n /\ n \in 0 .. N
      BY <1>2
  <2>2. run[n + 1] = PushAny(run[n], saids[n + 1])
      BY <1>3, <2>1
  <2>6. run[n] \in Seq(Proper) /\ saids[n + 1] \in Proper
      BY <1>2, <1>3, <2>1
  <2>3. Speaks(run[n + 1], y, v) <=> Speaks(run[n], y, v) \/ Hit(n + 1)
      BY <2>2, <2>6, PushSpeaks
  <2>4. \A i : i \in 1 .. n + 1 <=> i \in 1 .. n \/ i = n + 1
      BY <2>1
  <2> HIDE DEF Hit
  <2>5. Speaks(run[n], y, v) <=> \E i \in 1 .. n : Hit(i)
      BY <1>5
  <2> QED
      BY <2>1, <2>3, <2>4, <2>5
<1> HIDE DEF T
<1>6. N \in T
  <2>1. \A n \in 0 .. N : n \in T
      BY <1>2, <1>4, <1>5, UpTo
  <2> QED
      BY <1>2, <2>1
<1> QED
    BY <1>1, <1>2, <1>6 DEF T, Speaks

\* What is said by both loops: each interval's word, with its ends.
SaidAre(saids, first, second, cut) ==
    /\ saids \in Seq(Proper)
    /\ DOMAIN saids = 1 .. Len(cut) + Len(cut)
    /\ \A i \in 1 .. Len(cut) :
          /\ saids[i].start = cut[i].start /\ saids[i].end = cut[i].end
          /\ saids[Len(cut) + i].start = cut[i].start /\ saids[Len(cut) + i].end = cut[i].end

LEMMA SaidByIs ==
    ASSUME NEW cut, Tiled(cut), NEW first, Results(first, cut), NEW second, Results(second, cut)
    PROVE  /\ SaidAre(SaidBy(first \o second, "echo1"), first, second, cut)
           /\ SaidAre(SaidBy(first \o second, "echo2"), first, second, cut)
           /\ \A i \in 1 .. Len(cut) :
                 /\ SaidBy(first \o second, "echo1")[i].val = first[i].echo1
                 /\ SaidBy(first \o second, "echo1")[Len(cut) + i].val = second[i].echo1
                 /\ SaidBy(first \o second, "echo2")[i].val = first[i].echo2
                 /\ SaidBy(first \o second, "echo2")[Len(cut) + i].val = second[i].echo2
<1> DEFINE n == Len(cut)
           all == first \o second
           e1 == SaidBy(all, "echo1")
           e2 == SaidBy(all, "echo2")
<1>1. /\ n \in Nat
      /\ \A i \in 1 .. n : /\ cut[i].start \in Int /\ cut[i].end \in Int
                           /\ cut[i].start < cut[i].end
    BY TilesAre
<1>2. /\ first \in Seq(Result) /\ Len(first) = n /\ second \in Seq(Result) /\ Len(second) = n
      /\ \A i \in 1 .. n : /\ first[i].int.start = cut[i].start /\ first[i].int.end = cut[i].end
                           /\ second[i].int.start = cut[i].start /\ second[i].int.end = cut[i].end
    BY DEF Results
<1> HIDE DEF n
<1>3. /\ all \in Seq(Result) /\ Len(all) = n + n
      /\ \A i \in 1 .. n : all[i] = first[i] /\ all[n + i] = second[i]
  <2>1. /\ all \in Seq(Result) /\ Len(all) = n + n
        /\ \A i \in 1 .. n + n : all[i] = IF i <= n THEN first[i] ELSE second[i - n]
    <3>1. first \in Seq(Result) /\ second \in Seq(Result)
        BY <1>2
    <3>2. /\ first \o second \in Seq(Result) /\ Len(first \o second) = Len(first) + Len(second)
          /\ \A i \in 1 .. Len(first) + Len(second) :
                (first \o second)[i] = IF i <= Len(first) THEN first[i] ELSE second[i - Len(first)]
        BY <3>1, ConcatProperties
    <3> QED
        BY <1>2, <3>2
  <2>2. \A i \in 1 .. n : /\ i \in 1 .. n + n /\ i <= n /\ n + i \in 1 .. n + n
                          /\ ~(n + i <= n) /\ (n + i) - n = i
      BY <1>1
  <2> HIDE DEF all
  <2> QED
      BY <2>1, <2>2
<1> HIDE DEF all
<1>4. DOMAIN all = 1 .. n + n /\ n + n \in Nat /\ \A k \in 1 .. n + n : all[k] \in Result
    BY <1>1, <1>3
<1>5. /\ e1 = [k \in 1 .. n + n |-> Said(all[k].int.start, all[k].int.end, all[k].echo1)]
      /\ e2 = [k \in 1 .. n + n |-> Said(all[k].int.start, all[k].int.end, all[k].echo2)]
    BY <1>4 DEF SaidBy
<1> HIDE DEF e1, e2
<1>6. \A k \in 1 .. n + n : /\ all[k].int.start \in Int /\ all[k].int.end \in Int
                            /\ all[k].int.start < all[k].int.end
                            /\ all[k].echo1 \in Int /\ all[k].echo2 \in Int
  <2> TAKE k \in 1 .. n + n
  <2>1. all[k].echo1 \in Int /\ all[k].echo2 \in Int
      BY <1>4 DEF Result
  <2>2. k \in 1 .. n \/ (k - n \in 1 .. n /\ k = n + (k - n))
      BY <1>1
  <2>3. PICK i \in 1 .. n : k = i \/ k = n + i
      BY <2>2
  <2>4. all[k].int.start = cut[i].start /\ all[k].int.end = cut[i].end
      BY <1>2, <1>3, <2>3
  <2> QED
      BY <1>1, <2>1, <2>4
<1>7. \A k \in 1 .. n + n : e1[k] \in Proper /\ e2[k] \in Proper
    BY <1>5, <1>6 DEF Proper, Said3, Said
<1>8. e1 \in Seq(Proper) /\ e2 \in Seq(Proper) /\ DOMAIN e1 = 1 .. n + n /\ DOMAIN e2 = 1 .. n + n
  <2>1. e1 \in [1 .. n + n -> Proper] /\ e2 \in [1 .. n + n -> Proper]
      BY <1>5, <1>7
  <2> QED
      BY <1>4, <2>1
<1>9. \A k \in 1 .. n + n :
         /\ e1[k].start = all[k].int.start /\ e1[k].end = all[k].int.end /\ e1[k].val = all[k].echo1
         /\ e2[k].start = all[k].int.start /\ e2[k].end = all[k].int.end /\ e2[k].val = all[k].echo2
    BY <1>5 DEF Said
<1>10. \A i \in 1 .. n : i \in 1 .. n + n /\ n + i \in 1 .. n + n
    BY <1>1
<1>11. \A i \in 1 .. n :
          /\ e1[i].start = cut[i].start /\ e1[i].end = cut[i].end /\ e1[i].val = first[i].echo1
          /\ e2[i].start = cut[i].start /\ e2[i].end = cut[i].end /\ e2[i].val = first[i].echo2
  <2> TAKE i \in 1 .. n
  <2>1. all[i] = first[i] /\ i \in 1 .. n + n
      BY <1>3, <1>10
  <2>2. first[i].int.start = cut[i].start /\ first[i].int.end = cut[i].end
      BY <1>2
  <2>3. /\ e1[i].start = all[i].int.start /\ e1[i].end = all[i].int.end
        /\ e1[i].val = all[i].echo1
        /\ e2[i].start = all[i].int.start /\ e2[i].end = all[i].int.end
        /\ e2[i].val = all[i].echo2
      BY <1>9, <2>1
  <2> QED
      BY <2>1, <2>2, <2>3
<1>12. \A i \in 1 .. n :
          /\ e1[n + i].start = cut[i].start /\ e1[n + i].end = cut[i].end
          /\ e1[n + i].val = second[i].echo1
          /\ e2[n + i].start = cut[i].start /\ e2[n + i].end = cut[i].end
          /\ e2[n + i].val = second[i].echo2
  <2> TAKE i \in 1 .. n
  <2>1. all[n + i] = second[i] /\ n + i \in 1 .. n + n
      BY <1>3, <1>10
  <2>2. second[i].int.start = cut[i].start /\ second[i].int.end = cut[i].end
      BY <1>2
  <2>3. /\ e1[n + i].start = all[n + i].int.start /\ e1[n + i].end = all[n + i].int.end
        /\ e1[n + i].val = all[n + i].echo1
        /\ e2[n + i].start = all[n + i].int.start /\ e2[n + i].end = all[n + i].int.end
        /\ e2[n + i].val = all[n + i].echo2
      BY <1>9, <2>1
  <2> QED
      BY <2>1, <2>2, <2>3
<1>13. SaidAre(e1, first, second, cut) /\ SaidAre(e2, first, second, cut)
    BY <1>8, <1>11, <1>12 DEF SaidAre, n
<1>14. \A i \in 1 .. n : /\ e1[i].val = first[i].echo1 /\ e1[n + i].val = second[i].echo1
                         /\ e2[i].val = first[i].echo2 /\ e2[n + i].val = second[i].echo2
    BY <1>11, <1>12
<1> QED
    BY <1>13, <1>14 DEF n, e1, e2, all

\* What is said before and what is said now is pushed onto one echo.
LEMMA ConcatSpeaks ==
    ASSUME NEW e \in Seq(Proper), NEW f \in Seq(Proper), NEW y, NEW v
    PROVE  e \o f \in Seq(Proper) /\ (Speaks(e \o f, y, v) <=> Speaks(e, y, v) \/ Speaks(f, y, v))
<1> DEFINE n == Len(e)
           m == Len(f)
           g == e \o f
<1>1. /\ n \in Nat /\ m \in Nat /\ DOMAIN e = 1 .. n /\ DOMAIN f = 1 .. m
    OBVIOUS
<1>2. /\ g \in Seq(Proper) /\ Len(g) = n + m
      /\ \A i \in 1 .. n + m : g[i] = IF i <= n THEN e[i] ELSE f[i - n]
    BY ConcatProperties
<1> HIDE DEF g
<1>3. DOMAIN g = 1 .. n + m
    BY <1>2
<1> HIDE DEF n, m
<1>4. /\ \A i \in 1 .. n : i \in 1 .. n + m /\ g[i] = e[i]
      /\ \A i \in 1 .. m : n + i \in 1 .. n + m /\ g[n + i] = f[i]
  <2>1. /\ \A i \in 1 .. n : i \in 1 .. n + m /\ i <= n
        /\ \A i \in 1 .. m : n + i \in 1 .. n + m /\ ~(n + i <= n) /\ (n + i) - n = i
      BY <1>1
  <2> QED
      BY <1>2, <2>1
<1>5. \A i \in 1 .. n + m : i \in 1 .. n \/ (i - n \in 1 .. m /\ i = n + (i - n))
    BY <1>1
<1>6. ASSUME Speaks(g, y, v) PROVE Speaks(e, y, v) \/ Speaks(f, y, v)
  <2>1. PICK i \in 1 .. n + m : Covers(g[i], y) /\ g[i].val = v
      BY <1>3, <1>6 DEF Speaks
  <2>2. CASE i \in 1 .. n
      BY <1>1, <1>4, <2>1, <2>2 DEF Speaks
  <2>3. CASE i - n \in 1 .. m /\ i = n + (i - n)
    <3>1. g[i] = f[i - n]
        BY <1>4, <2>3
    <3> QED
        BY <1>1, <2>1, <2>3, <3>1 DEF Speaks
  <2> QED
      BY <1>5, <2>2, <2>3
<1>7. ASSUME Speaks(e, y, v) \/ Speaks(f, y, v) PROVE Speaks(g, y, v)
    BY <1>1, <1>3, <1>4, <1>7 DEF Speaks
<1> QED
    BY <1>2, <1>6, <1>7 DEF g

-----------------------------------------------------------------------------
(* An ECHO1, said of a sequence of intervals.                              *)

\* A level that is halfway through an echo.
Acc == {a \in [ints : Seq(AnInterval), echo1 : Seq(Proper), echo2 : Seq(Proper)] : Tiled(a.ints)}

LEMMA TellTyped ==
    ASSUME NEW acc \in Acc, NEW said \in Said3, NEW r \in 0 .. Rounds, NEW q \in Node
    PROVE  Tell(acc, said, r, q) \in Acc
<1> DEFINE cut == SplitFor(acc.ints, said)
           first == Hearing(cut, Fresh(cut, acc.ints, said), r, said.val, q)
           second == Hearing(Intervals(first), Told(Intervals(first), said), r, said.val, q)
<1>1. Tiled(acc.ints) /\ acc.echo1 \in Seq(Proper) /\ acc.echo2 \in Seq(Proper)
    BY DEF Acc
<1>2. LoopsAre(acc, said, r, q, cut, first, second)
    BY DEF LoopsAre
<1> HIDE DEF cut, first, second
<1>3. /\ Tell(acc, said, r, q) = Noted(acc, first, second)
      /\ Tiled(cut) /\ Results(first, cut) /\ Results(second, cut) /\ Tiled(Intervals(second))
    BY <1>1, <1>2, TellIs
<1> DEFINE e1 == SaidBy(first \o second, "echo1")
           e2 == SaidBy(first \o second, "echo2")
<1>4. e1 \in Seq(Proper) /\ e2 \in Seq(Proper)
    BY <1>3, SaidByIs DEF SaidAre
<1>5. Tell(acc, said, r, q) = [ints |-> Intervals(second), echo1 |-> Compress(acc.echo1 \o e1),
                               echo2 |-> Compress(acc.echo2 \o e2)]
    BY <1>3 DEF Noted
<1> HIDE DEF e1, e2
<1>6. acc.echo1 \o e1 \in Seq(Proper) /\ acc.echo2 \o e2 \in Seq(Proper)
    BY <1>1, <1>4, ConcatSpeaks
<1>7. Compress(acc.echo1 \o e1) \in Seq(Proper) /\ Compress(acc.echo2 \o e2) \in Seq(Proper)
    BY <1>6, CompressIs, Mergeable
<1>8. Intervals(second) \in Seq(AnInterval)
    BY <1>3, TilesAre
<1> QED
    BY <1>3, <1>5, <1>7, <1>8 DEF Acc

LEMMA SaidSpeaks ==
    ASSUME NEW cut, Tiled(cut), NEW first, NEW second, NEW e, SaidAre(e, first, second, cut),
           NEW y \in Point, NEW i \in 1 .. Len(cut), Covers(cut[i], y), NEW v
    PROVE  Speaks(e, y, v) <=> e[i].val = v \/ e[Len(cut) + i].val = v
<1> DEFINE n == Len(cut)
<1>1. n \in Nat /\ DOMAIN cut = 1 .. n
    BY TilesAre
<1>2. /\ DOMAIN e = 1 .. n + n
      /\ \A k \in 1 .. n : /\ Covers(e[k], y) <=> Covers(cut[k], y)
                           /\ Covers(e[n + k], y) <=> Covers(cut[k], y)
    BY DEF SaidAre, Covers
<1>3. \A k \in 1 .. n : Covers(cut[k], y) => k = i
    BY <1>1, CoveredOnce
<1> HIDE DEF n
<1>4. \A k \in 1 .. n + n : k \in 1 .. n \/ (k - n \in 1 .. n /\ k = n + (k - n))
    BY <1>1
<1>5. i \in 1 .. n + n /\ n + i \in 1 .. n + n /\ i \in 1 .. n
    BY <1>1 DEF n
<1>6. ASSUME Speaks(e, y, v) PROVE e[i].val = v \/ e[n + i].val = v
  <2>1. PICK k \in 1 .. n + n : Covers(e[k], y) /\ e[k].val = v
      BY <1>2, <1>6 DEF Speaks
  <2>2. CASE k \in 1 .. n
      BY <1>2, <1>3, <2>1, <2>2
  <2>3. CASE k - n \in 1 .. n /\ k = n + (k - n)
    <3>1. Covers(cut[k - n], y)
        BY <1>2, <2>1, <2>3
    <3>2. k - n = i
        BY <1>3, <2>3, <3>1
    <3>3. k = n + i
        BY <2>3, <3>2
    <3> QED
        BY <2>1, <3>3
  <2> QED
      BY <1>4, <2>2, <2>3
<1>7. ASSUME e[i].val = v \/ e[n + i].val = v PROVE Speaks(e, y, v)
  <2>1. Covers(e[i], y) /\ Covers(e[n + i], y)
      BY <1>2, <1>5
  <2> QED
      BY <1>2, <1>5, <1>7, <2>1 DEF Speaks
<1> QED
    BY <1>6, <1>7 DEF n

\* What an ECHO1 makes a node say of a point
Answered(state, said, r, q) == HearEcho(state[r], said.val, q, MinThreshold, HighThreshold)

LEMMA SpokenIs ==
    ASSUME NEW f, NEW s, NEW h, NEW covered \in BOOLEAN, SpokenBy(f, s, h, covered),
           NEW v, v # NoVal
    PROVE  /\ (f.echo1 = v \/ s.echo1 = v) <=> covered /\ h.echo1 = v
           /\ (f.echo2 = v \/ s.echo2 = v) <=> covered /\ h.echo2 = v
<1>1. CASE covered
    BY <1>1 DEF SpokenBy
<1>2. CASE ~covered
    BY <1>2 DEF SpokenBy
<1> QED
    BY <1>1, <1>2

LEMMA TellSpeaks ==
    ASSUME Apart, NEW acc \in Acc, NEW said \in Proper,
           NEW r \in 0 .. Rounds, NEW q \in Node, NEW y \in Point, NEW v, v # NoVal
    PROVE  /\ Speaks(Tell(acc, said, r, q).echo1, y, v) <=>
                 \/ Speaks(acc.echo1, y, v)
                 \/ Covers(said, y) /\ Answered(StateAt(acc.ints, y), said, r, q).echo1 = v
           /\ Speaks(Tell(acc, said, r, q).echo2, y, v) <=>
                 \/ Speaks(acc.echo2, y, v)
                 \/ Covers(said, y) /\ Answered(StateAt(acc.ints, y), said, r, q).echo2 = v
<1> DEFINE cut == SplitFor(acc.ints, said)
           first == Hearing(cut, Fresh(cut, acc.ints, said), r, said.val, q)
           second == Hearing(Intervals(first), Told(Intervals(first), said), r, said.val, q)
           e1 == SaidBy(first \o second, "echo1")
           e2 == SaidBy(first \o second, "echo2")
<1>1. /\ Tiled(acc.ints) /\ acc.echo1 \in Seq(Proper) /\ acc.echo2 \in Seq(Proper)
      /\ said \in Said3 /\ said.start < said.end /\ y \in Int
    BY DEF Acc, Proper, Point
<1>2. LoopsAre(acc, said, r, q, cut, first, second)
    BY DEF LoopsAre
<1> HIDE DEF cut, first, second
<1>3. /\ Tell(acc, said, r, q) = Noted(acc, first, second)
      /\ Tiled(cut) /\ SameAt(cut, acc.ints) /\ Results(first, cut) /\ Results(second, cut)
    BY <1>1, <1>2, TellIs
<1>4. PICK i \in DOMAIN cut : Covers(cut[i], y)
    BY <1>3, CoveredOnce
<1>5. i \in 1 .. Len(cut)
    BY <1>3, <1>4, TilesAre
<1>6. /\ SaidAre(e1, first, second, cut) /\ SaidAre(e2, first, second, cut)
      /\ e1[i].val = first[i].echo1 /\ e1[Len(cut) + i].val = second[i].echo1
      /\ e2[i].val = first[i].echo2 /\ e2[Len(cut) + i].val = second[i].echo2
    BY <1>3, <1>5, SaidByIs
<1>7. Tell(acc, said, r, q).echo1 = Compress(acc.echo1 \o e1)
      /\ Tell(acc, said, r, q).echo2 = Compress(acc.echo2 \o e2)
    BY <1>3 DEF Noted
<1> HIDE DEF e1, e2
<1>8. e1 \in Seq(Proper) /\ e2 \in Seq(Proper)
    BY <1>6 DEF SaidAre
<1>9. /\ Speaks(Tell(acc, said, r, q).echo1, y, v) <=> Speaks(acc.echo1, y, v) \/ Speaks(e1, y, v)
      /\ Speaks(Tell(acc, said, r, q).echo2, y, v) <=> Speaks(acc.echo2, y, v) \/ Speaks(e2, y, v)
  <2>1. /\ acc.echo1 \o e1 \in Seq(Proper) /\ acc.echo2 \o e2 \in Seq(Proper)
        /\ Speaks(acc.echo1 \o e1, y, v) <=> Speaks(acc.echo1, y, v) \/ Speaks(e1, y, v)
        /\ Speaks(acc.echo2 \o e2, y, v) <=> Speaks(acc.echo2, y, v) \/ Speaks(e2, y, v)
      BY <1>1, <1>8, ConcatSpeaks
  <2>2. Speaks(Compress(acc.echo1 \o e1), y, v) <=> Speaks(acc.echo1 \o e1, y, v)
      BY <1>1, <2>1, CompressSpeaks
  <2>3. Speaks(Compress(acc.echo2 \o e2), y, v) <=> Speaks(acc.echo2 \o e2, y, v)
      BY <1>1, <2>1, CompressSpeaks
  <2> QED
      BY <1>7, <2>1, <2>2, <2>3
<1>10. /\ Speaks(e1, y, v) <=> first[i].echo1 = v \/ second[i].echo1 = v
       /\ Speaks(e2, y, v) <=> first[i].echo2 = v \/ second[i].echo2 = v
  <2>1. Speaks(e1, y, v) <=> e1[i].val = v \/ e1[Len(cut) + i].val = v
      BY <1>3, <1>4, <1>5, <1>6, SaidSpeaks
  <2>2. Speaks(e2, y, v) <=> e2[i].val = v \/ e2[Len(cut) + i].val = v
      BY <1>3, <1>4, <1>5, <1>6, SaidSpeaks
  <2> QED
      BY <1>6, <2>1, <2>2
<1> DEFINE h == Heeding(cut[i], r, said.val, q)
<1>11. SpokenBy(first[i], second[i], h, Covers(said, y))
    BY <1>1, <1>2, <1>4, <1>5, TellAt
<1>12. h = Answered(StateAt(acc.ints, y), said, r, q)
  <2>1. StateAt(acc.ints, y) = cut[i].state
      BY <1>3, <1>4, AtIs DEF SameAt
  <2> QED
      BY <2>1 DEF Heeding, Answered
<1> HIDE DEF h
<1>13. /\ (first[i].echo1 = v \/ second[i].echo1 = v) <=> Covers(said, y) /\ h.echo1 = v
       /\ (first[i].echo2 = v \/ second[i].echo2 = v) <=> Covers(said, y) /\ h.echo2 = v
  <2>1. Covers(said, y) \in BOOLEAN
      BY DEF Covers
  <2> QED
      BY <1>11, <2>1, SpokenIs
<1> QED
    BY <1>9, <1>10, <1>12, <1>13

\* The intervals and what they said, entry by entry of an echo.
EchoRun(run, ints, echo, r, q) ==
    /\ run \in [0 .. Len(echo) -> Acc] /\ run[0] = [ints |-> ints, echo1 |-> <<>>, echo2 |-> <<>>]
    /\ \A n \in 1 .. Len(echo) : run[n] = Tell(run[n - 1], echo[n], r, q)

LEMMA EchoRuns ==
    ASSUME NEW ints, Tiled(ints), NEW echo \in Seq(Said3), NEW r \in 0 .. Rounds, NEW q \in Node
    PROVE  \E run : /\ EchoRun(run, ints, echo, r, q)
                    /\ LevelEcho(ints, echo, r, q) = run[Len(echo)]
<1> DEFINE N == Len(echo)
           Z == Acc
           z == [ints |-> ints, echo1 |-> <<>>, echo2 |-> <<>>]
           step == [n \in Nat |-> [t \in Z |-> IF n \in 1 .. N THEN Tell(t, echo[n], r, q) ELSE t]]
           Is(f) == f = [n \in 0 .. N |-> IF n = 0 THEN z ELSE Tell(f[n - 1], echo[n], r, q)]
           run == CHOOSE f : Is(f)
<1>1. N \in Nat /\ (\A n \in 1 .. N : echo[n] \in Said3) /\ z \in Z
  <2>1. ints \in Seq(AnInterval) /\ <<>> \in Seq(Proper)
      BY TilesAre
  <2> QED
      BY <2>1 DEF Acc
<1>2. LevelEcho(ints, echo, r, q) = run[N]
    BY DEF LevelEcho
<1> HIDE DEF N
<1>3. \A t \in Z, n \in 1 .. N : Tell(t, echo[n], r, q) \in Z
    BY <1>1, TellTyped
<1> HIDE DEF Z
<1>4. step \in [Nat -> [Z -> Z]]
  <2>1. \A n \in Nat, t \in Z : (IF n \in 1 .. N THEN Tell(t, echo[n], r, q) ELSE t) \in Z
      BY <1>3
  <2> QED
      BY <2>1
<1> HIDE DEF z
<1>5. PICK g : Runs(g, N, Z, z, step)
    BY <1>1, <1>4, SomeRun
<1>6. g \in [0 .. N -> Z] /\ \A n \in 0 .. N : g[n] = IF n = 0 THEN z ELSE step[n][g[n - 1]]
    BY <1>5 DEF Runs
<1>7. ASSUME NEW n \in 0 .. N PROVE g[n] = IF n = 0 THEN z ELSE Tell(g[n - 1], echo[n], r, q)
  <2>1. CASE n # 0
    <3>1. n \in 1 .. N /\ n \in Nat /\ n - 1 \in 0 .. N
        BY <1>1, <2>1
    <3>2. g[n - 1] \in Z
        BY <1>6, <3>1
    <3>3. step[n][g[n - 1]] = Tell(g[n - 1], echo[n], r, q)
        BY <3>1, <3>2
    <3> QED
        BY <1>6, <2>1, <3>3
  <2> QED
      BY <1>6, <2>1
<1> HIDE DEF step
<1>8. Is(g)
    BY <1>6, <1>7
<1>9. Is(run)
    BY <1>8
<1> HIDE DEF run
<1>10. \A n \in 0 .. N : run[n] = IF n = 0 THEN z ELSE Tell(run[n - 1], echo[n], r, q)
    BY <1>9
<1> DEFINE T == {n \in 0 .. N : run[n] \in Z}
<1>17. run[0] = z
  <2>1. 0 \in 0 .. N
      BY <1>1
  <2> QED
      BY <1>10, <2>1
<1>11. 0 \in T
    BY <1>1, <1>17
<1>12. ASSUME NEW n \in 0 .. N - 1, n \in T PROVE n + 1 \in T
  <2>1. n + 1 \in 1 .. N /\ n + 1 \in 0 .. N /\ n + 1 # 0 /\ (n + 1) - 1 = n
      BY <1>1
  <2>2. run[n + 1] = Tell(run[n], echo[n + 1], r, q)
      BY <1>10, <2>1
  <2> QED
      BY <1>3, <1>12, <2>1, <2>2
<1> HIDE DEF T
<1>13. \A n \in 0 .. N : n \in T
    BY <1>1, <1>11, <1>12, UpTo
<1>14. \A n \in 0 .. N : run[n] \in Z
    BY <1>13 DEF T
<1>15. run \in [0 .. N -> Z]
    BY <1>9, <1>14
<1>16. ASSUME NEW n \in 1 .. N PROVE run[n] = Tell(run[n - 1], echo[n], r, q)
  <2>1. n \in 0 .. N /\ n # 0
      BY <1>1
  <2> QED
      BY <1>10, <2>1
<1>18. EchoRun(run, ints, echo, r, q)
    BY <1>15, <1>16, <1>17 DEF EchoRun, N, Z, z
<1> QED
    BY <1>2, <1>18 DEF N

\* However the intervals split, they stay in order and cover every point.
LEMMA LevelEchoIs ==
    ASSUME NEW ints, Tiled(ints), NEW echo \in Seq(Said3), NEW r \in 0 .. Rounds, NEW q \in Node
    PROVE  LevelEcho(ints, echo, r, q) \in Acc
<1>1. PICK run : /\ EchoRun(run, ints, echo, r, q)
                 /\ LevelEcho(ints, echo, r, q) = run[Len(echo)]
    BY EchoRuns
<1>2. Len(echo) \in 0 .. Len(echo)
    OBVIOUS
<1> QED
    BY <1>1, <1>2 DEF EchoRun

\* A point as a checkpoint of its own: it hears, in turn, the entries that speak of it, and
\* answers as HearEcho does.
HeardAlone(run, state, echo, r, q, y) ==
    /\ run[0] = state
    /\ \A n \in 1 .. Len(echo) :
          run[n] = IF Covers(echo[n], y) THEN StateAfter(run[n - 1], echo[n], r, q) ELSE run[n - 1]

SaysAlone1(run, echo, r, q, y, v) ==
    \E n \in 1 .. Len(echo) : Covers(echo[n], y) /\ Answered(run[n - 1], echo[n], r, q).echo1 = v

SaysAlone2(run, echo, r, q, y, v) ==
    \E n \in 1 .. Len(echo) : Covers(echo[n], y) /\ Answered(run[n - 1], echo[n], r, q).echo2 = v

\* "an interval can represent multiple checkpoints if they have identical state"
\* (interval.rs:10): however Level::add_echo splits the intervals and compresses what they
\* say, every point hears the entries that cover it, in their order and each as if once, and
\* what is said of it is what it answers.
THEOREM EchoPerPoint ==
    ASSUME Apart, NEW ints, Tiled(ints), NEW echo \in Seq(Proper),
           NEW r \in 0 .. Rounds, NEW q \in Node, NEW y \in Point
    PROVE  LET out == LevelEcho(ints, echo, r, q)
           IN  \E run :
                 /\ HeardAlone(run, StateAt(ints, y), echo, r, q, y)
                 /\ StateAt(out.ints, y) = run[Len(echo)]
                 /\ \A v \in Int \ {NoVal} :
                       /\ Speaks(out.echo1, y, v) <=> SaysAlone1(run, echo, r, q, y, v)
                       /\ Speaks(out.echo2, y, v) <=> SaysAlone2(run, echo, r, q, y, v)
<1> DEFINE N == Len(echo)
           out == LevelEcho(ints, echo, r, q)
<1>1. echo \in Seq(Said3)
    BY DEF Proper
<1>2. PICK acc : EchoRun(acc, ints, echo, r, q) /\ out = acc[N]
    BY <1>1, EchoRuns
<1>3. /\ acc \in [0 .. N -> Acc] /\ acc[0] = [ints |-> ints, echo1 |-> <<>>, echo2 |-> <<>>]
      /\ \A n \in 1 .. N : acc[n] = Tell(acc[n - 1], echo[n], r, q)
    BY <1>2 DEF EchoRun
<1>4. N \in Nat /\ \A n \in 1 .. N : echo[n] \in Proper
    OBVIOUS
<1> HIDE DEF N, out
<1> DEFINE run == [n \in 0 .. N |-> StateAt(acc[n].ints, y)]
           Hit1(n, v) == Covers(echo[n], y) /\ Answered(run[n - 1], echo[n], r, q).echo1 = v
           Hit2(n, v) == Covers(echo[n], y) /\ Answered(run[n - 1], echo[n], r, q).echo2 = v
<1>5. ASSUME NEW n \in 1 .. N
      PROVE  run[n] = IF Covers(echo[n], y) THEN StateAfter(run[n - 1], echo[n], r, q)
                      ELSE run[n - 1]
  <2>1. n - 1 \in 0 .. N /\ n \in 0 .. N /\ acc[n - 1] \in Acc /\ echo[n] \in Proper
      BY <1>3, <1>4
  <2>2. Tiled(acc[n - 1].ints) /\ echo[n] \in Said3 /\ echo[n].start < echo[n].end
      BY <2>1 DEF Acc, Proper
  <2>3. acc[n] = Tell(acc[n - 1], echo[n], r, q)
      BY <1>3
  <2>4. StateAt(acc[n].ints, y)
          = IF Covers(echo[n], y) THEN StateAfter(StateAt(acc[n - 1].ints, y), echo[n], r, q)
            ELSE StateAt(acc[n - 1].ints, y)
      BY <2>2, <2>3, TellPerPoint
  <2> QED
      BY <2>1, <2>4
<1>6. run[0] = StateAt(ints, y)
    BY <1>3, <1>4
<1>7. HeardAlone(run, StateAt(ints, y), echo, r, q, y)
    BY <1>5, <1>6 DEF HeardAlone, N
<1>8. StateAt(out.ints, y) = run[N]
    BY <1>2, <1>4
<1>9. ASSUME NEW v \in Int \ {NoVal}
      PROVE  /\ Speaks(out.echo1, y, v) <=> \E n \in 1 .. N : Hit1(n, v)
             /\ Speaks(out.echo2, y, v) <=> \E n \in 1 .. N : Hit2(n, v)
  <2> DEFINE T == {n \in 0 .. N : /\ Speaks(acc[n].echo1, y, v) <=> \E i \in 1 .. n : Hit1(i, v)
                                  /\ Speaks(acc[n].echo2, y, v) <=> \E i \in 1 .. n : Hit2(i, v)}
  <2>1. 0 \in T
    <3>1. acc[0].echo1 = <<>> /\ acc[0].echo2 = <<>> /\ 0 \in 0 .. N
        BY <1>3, <1>4
    <3>2. ~Speaks(acc[0].echo1, y, v) /\ ~Speaks(acc[0].echo2, y, v)
        BY <3>1 DEF Speaks
    <3>3. \A i \in 1 .. 0 : FALSE
        OBVIOUS
    <3> QED
        BY <3>1, <3>2, <3>3
  <2>2. ASSUME NEW n \in 0 .. N - 1, n \in T PROVE n + 1 \in T
    <3>1. /\ n + 1 \in 1 .. N /\ n + 1 \in 0 .. N /\ (n + 1) - 1 = n /\ n \in 0 .. N
        BY <1>4
    <3>2. acc[n] \in Acc /\ echo[n + 1] \in Proper /\ acc[n + 1] = Tell(acc[n], echo[n + 1], r, q)
        BY <1>3, <1>4, <3>1
    <3>3. run[n] = StateAt(acc[n].ints, y)
        BY <3>1
    <3>8. v # NoVal
        OBVIOUS
    <3>4. /\ Speaks(acc[n + 1].echo1, y, v) <=>
               \/ Speaks(acc[n].echo1, y, v)
               \/ /\ Covers(echo[n + 1], y)
                  /\ Answered(StateAt(acc[n].ints, y), echo[n + 1], r, q).echo1 = v
          /\ Speaks(acc[n + 1].echo2, y, v) <=>
               \/ Speaks(acc[n].echo2, y, v)
               \/ /\ Covers(echo[n + 1], y)
                  /\ Answered(StateAt(acc[n].ints, y), echo[n + 1], r, q).echo2 = v
      <4> DEFINE a == acc[n]
                 e == echo[n + 1]
      <4>1. a \in Acc /\ e \in Proper /\ acc[n + 1] = Tell(a, e, r, q)
          BY <3>2
      <4> HIDE DEF a, e
      <4>2. Speaks(Tell(a, e, r, q).echo1, y, v) <=>
               \/ Speaks(a.echo1, y, v)
               \/ Covers(e, y) /\ Answered(StateAt(a.ints, y), e, r, q).echo1 = v
          BY <3>8, <4>1, TellSpeaks
      <4>3. Speaks(Tell(a, e, r, q).echo2, y, v) <=>
               \/ Speaks(a.echo2, y, v)
               \/ Covers(e, y) /\ Answered(StateAt(a.ints, y), e, r, q).echo2 = v
          BY <3>8, <4>1, TellSpeaks
      <4> QED
          BY <4>1, <4>2, <4>3 DEF a, e
    <3> HIDE DEF run
    <3>5. /\ Speaks(acc[n + 1].echo1, y, v) <=> Speaks(acc[n].echo1, y, v) \/ Hit1(n + 1, v)
          /\ Speaks(acc[n + 1].echo2, y, v) <=> Speaks(acc[n].echo2, y, v) \/ Hit2(n + 1, v)
        BY <3>1, <3>3, <3>4
    <3>6. \A i : i \in 1 .. n + 1 <=> i \in 1 .. n \/ i = n + 1
        BY <3>1
    <3> HIDE DEF Hit1, Hit2
    <3>7. /\ Speaks(acc[n].echo1, y, v) <=> \E i \in 1 .. n : Hit1(i, v)
          /\ Speaks(acc[n].echo2, y, v) <=> \E i \in 1 .. n : Hit2(i, v)
        BY <2>2
    <3> QED
        BY <3>1, <3>5, <3>6, <3>7
  <2> HIDE DEF T
  <2>3. N \in T
    <3>1. \A n \in 0 .. N : n \in T
        BY <1>4, <2>1, <2>2, UpTo
    <3> QED
        BY <1>4, <3>1
  <2> HIDE DEF Hit1, Hit2
  <2> QED
      BY <1>2, <2>3 DEF T
<1> HIDE DEF run
<1>10. ASSUME NEW v \in Int \ {NoVal}
       PROVE  /\ Speaks(out.echo1, y, v) <=> SaysAlone1(run, echo, r, q, y, v)
              /\ Speaks(out.echo2, y, v) <=> SaysAlone2(run, echo, r, q, y, v)
  <2>1. /\ SaysAlone1(run, echo, r, q, y, v) <=> \E n \in 1 .. N : Hit1(n, v)
        /\ SaysAlone2(run, echo, r, q, y, v) <=> \E n \in 1 .. N : Hit2(n, v)
      BY DEF SaysAlone1, SaysAlone2, N
  <2> HIDE DEF Hit1, Hit2
  <2> QED
      BY <1>9, <2>1
<1> QED
    BY <1>7, <1>8, <1>10 DEF out, N

-----------------------------------------------------------------------------
(* An ECHO2, said of a sequence of intervals.                              *)

Heeding2(int, r, v, q) == HearEcho2(int.state[r], v, q, HighThreshold)

SameEnds(new, ints) ==
    /\ Len(new) = Len(ints)
    /\ \A i \in 1 .. Len(ints) : new[i].start = ints[i].start /\ new[i].end = ints[i].end

AllHeard2(new, ints, who, r, v, q) ==
    \A i \in 1 .. Len(ints) :
        new[i].state = IF i \in who THEN [ints[i].state EXCEPT ![r] = Heeding2(ints[i], r, v, q)]
                       ELSE ints[i].state

LEMMA Hearing2Is ==
    ASSUME NEW ints, Tiled(ints), NEW who, NEW r \in 0 .. Rounds, NEW v \in Int,
           NEW q \in Node, NEW new, new = Hearing2(ints, who, r, v, q)
    PROVE  Tiled(new) /\ SameEnds(new, ints) /\ AllHeard2(new, ints, who, r, v, q)
<1> DEFINE n == Len(ints)
<1>1. n \in Nat /\ DOMAIN ints = 1 .. n
    BY TilesAre
<1>2. new = [i \in 1 .. n |->
                IF i \in who THEN [ints[i] EXCEPT !.state[r] = HearEcho2(@, v, q, HighThreshold)]
                ELSE ints[i]]
    BY <1>1 DEF Hearing2
<1>3. ASSUME NEW i \in 1 .. n
      PROVE  /\ new[i] \in AnInterval
             /\ new[i].start = ints[i].start /\ new[i].end = ints[i].end
             /\ new[i].state = IF i \in who
                               THEN [ints[i].state EXCEPT ![r] = Heeding2(ints[i], r, v, q)]
                               ELSE ints[i].state
  <2>1. ints[i] \in AnInterval
      BY TilesAre
  <2>2. CASE i \in who
    <3> DEFINE h == Heeding2(ints[i], r, v, q)
               nint == [ints[i] EXCEPT !.state[r] = h]
    <3>1. ints[i].state[r] \in RoundState
        BY <2>1 DEF AnInterval
    <3>2. h \in RoundState
        BY <3>1, HearEcho2Is DEF Heeding2
    <3>3. new[i] = nint
        BY <1>2, <2>1, <2>2 DEF Heeding2, AnInterval
    <3> HIDE DEF h
    <3>4. /\ nint \in AnInterval /\ nint.start = ints[i].start /\ nint.end = ints[i].end
          /\ nint.state = [ints[i].state EXCEPT ![r] = h]
        BY <2>1, <3>2 DEF AnInterval
    <3> HIDE DEF nint
    <3> QED
        BY <2>2, <3>3, <3>4 DEF h
  <2>3. CASE i \notin who
      BY <1>2, <2>1, <2>3
  <2> QED
      BY <2>2, <2>3
<1>4. new \in Seq(AnInterval) /\ Len(new) = n
  <2>1. new \in [1 .. n -> AnInterval]
      BY <1>2, <1>3
  <2> QED
      BY <1>1, <2>1
<1>5. Tiled(new)
    BY <1>3, <1>4, SameTiles
<1> QED
    BY <1>3, <1>4, <1>5 DEF SameEnds, AllHeard2

LoopsAre2(ints, said, r, q, cut, mid) ==
    /\ cut = SplitFor(ints, said)
    /\ mid = Hearing2(cut, Fresh(cut, ints, said), r, said.val, q)

LEMMA Tell2Is ==
    ASSUME NEW ints, Tiled(ints), NEW said \in Said3, NEW r \in 0 .. Rounds, NEW q \in Node,
           NEW cut, NEW mid, LoopsAre2(ints, said, r, q, cut, mid), NEW new,
           new = Tell2(ints, said, r, q)
    PROVE  /\ Tiled(cut) /\ SameAt(cut, ints)
           /\ Within(cut, said.start) = {} /\ Within(cut, said.end) = {}
           /\ Tiled(mid) /\ SameEnds(mid, cut)
           /\ AllHeard2(mid, cut, Fresh(cut, ints, said), r, said.val, q)
           /\ Tiled(new) /\ SameEnds(new, cut)
           /\ AllHeard2(new, mid, Told(cut, said), r, said.val, q)
<1>1. said.val \in Int
    BY DEF Said3
<1>2. /\ cut = SplitFor(ints, said)
      /\ mid = Hearing2(cut, Fresh(cut, ints, said), r, said.val, q)
      /\ new = Hearing2(mid, Told(cut, said), r, said.val, q)
    BY DEF LoopsAre2, Tell2, BothLoops2
<1>3. /\ Tiled(cut) /\ SameAt(cut, ints)
      /\ Within(cut, said.start) = {} /\ Within(cut, said.end) = {}
    BY <1>2, SplitForKeeps
<1>4. /\ Tiled(mid) /\ SameEnds(mid, cut)
      /\ AllHeard2(mid, cut, Fresh(cut, ints, said), r, said.val, q)
    BY <1>1, <1>2, <1>3, Hearing2Is
<1>5. /\ Tiled(new) /\ SameEnds(new, mid)
      /\ AllHeard2(new, mid, Told(cut, said), r, said.val, q)
    BY <1>1, <1>2, <1>4, Hearing2Is
<1>6. SameEnds(new, cut)
    BY <1>4, <1>5 DEF SameEnds
<1> QED
    BY <1>3, <1>4, <1>5, <1>6

\* What an ECHO2 makes of a point.
StateAfter2(state, said, r, q) ==
    [state EXCEPT ![r] = HearEcho2(state[r], said.val, q, HighThreshold)]

LEMMA Tell2PerPoint ==
    ASSUME NEW ints, Tiled(ints), NEW said \in Said3, said.start < said.end,
           NEW r \in 0 .. Rounds, NEW q \in Node, NEW y \in Point
    PROVE  StateAt(Tell2(ints, said, r, q), y)
             = IF Covers(said, y) THEN StateAfter2(StateAt(ints, y), said, r, q)
               ELSE StateAt(ints, y)
<1> DEFINE cut == SplitFor(ints, said)
           fresh == Fresh(cut, ints, said)
           told == Told(cut, said)
           mid == Hearing2(cut, fresh, r, said.val, q)
           new == Tell2(ints, said, r, q)
           v == said.val
<1>1. LoopsAre2(ints, said, r, q, cut, mid)
    BY DEF LoopsAre2
<1> HIDE DEF cut, mid, new, told, fresh
<1>2. /\ Tiled(cut) /\ SameAt(cut, ints)
      /\ Within(cut, said.start) = {} /\ Within(cut, said.end) = {}
      /\ Tiled(mid) /\ SameEnds(mid, cut) /\ AllHeard2(mid, cut, fresh, r, said.val, q)
      /\ Tiled(new) /\ SameEnds(new, cut) /\ AllHeard2(new, mid, told, r, said.val, q)
    BY <1>1, Tell2Is DEF new, fresh, told
<1>3. PICK i \in DOMAIN cut : Covers(cut[i], y)
    BY <1>2, CoveredOnce
<1>4. i \in 1 .. Len(cut) /\ i \in DOMAIN new /\ i \in 1 .. Len(mid) /\ cut[i] \in AnInterval
    BY <1>2, <1>3, TilesAre DEF SameEnds
<1>5. Covers(new[i], y)
    BY <1>2, <1>3, <1>4 DEF Covers, SameEnds
<1>6. StateAt(new, y) = new[i].state
    BY <1>2, <1>4, <1>5, AtIs
<1>7. cut[i].state = StateAt(ints, y)
    BY <1>2, <1>3, AtIs DEF SameAt
<1>8. (i \in told <=> Covers(said, y)) /\ (i \in fresh => Covers(said, y))
    BY <1>2, <1>3, ToldIs DEF told, fresh
<1>9. /\ mid[i].state = IF i \in fresh THEN [cut[i].state EXCEPT ![r] = Heeding2(cut[i], r, v, q)]
                        ELSE cut[i].state
      /\ new[i].state = IF i \in told THEN [mid[i].state EXCEPT ![r] = Heeding2(mid[i], r, v, q)]
                        ELSE mid[i].state
    BY <1>2, <1>4 DEF AllHeard2
<1> DEFINE h == Heeding2(cut[i], r, v, q)
<1>10. cut[i].state[r] \in RoundState /\ cut[i].state \in [0 .. Rounds -> RoundState] /\ v \in Int
    BY <1>4 DEF AnInterval, Said3
<1>11. new[i].state = IF Covers(said, y) THEN [cut[i].state EXCEPT ![r] = h] ELSE cut[i].state
  <2>1. CASE i \in fresh
    <3>1. h \in RoundState /\ h # NoState /\ Heeded2(h, v, q)
        BY <1>10, HearEcho2Is DEF Heeding2
    <3>2. HearEcho2(h, v, q, HighThreshold) = h
        BY <1>10, <3>1, HeededIsQuiet2
    <3> HIDE DEF h
    <3>3. mid[i].state = [cut[i].state EXCEPT ![r] = h]
        BY <1>9, <2>1 DEF h
    <3>4. mid[i].state[r] = h
        BY <1>10, <3>3
    <3>5. Heeding2(mid[i], r, v, q) = h
        BY <3>2, <3>4 DEF Heeding2
    <3>6. new[i].state = [mid[i].state EXCEPT ![r] = h]
        BY <1>8, <1>9, <2>1, <3>5
    <3>7. new[i].state = [cut[i].state EXCEPT ![r] = h]
        BY <1>10, <3>3, <3>6
    <3> QED
        BY <1>8, <2>1, <3>7
  <2>2. CASE i \notin fresh
    <3>1. mid[i].state = cut[i].state
        BY <1>9, <2>2
    <3>2. Heeding2(mid[i], r, v, q) = h
        BY <3>1 DEF Heeding2
    <3> HIDE DEF h
    <3> QED
        BY <1>8, <1>9, <3>1, <3>2
  <2> QED
      BY <2>1, <2>2
<1> QED
    BY <1>6, <1>7, <1>11 DEF StateAfter2, Heeding2, new

LEMMA Tell2Typed ==
    ASSUME NEW ints, Tiled(ints), NEW said \in Said3, NEW r \in 0 .. Rounds, NEW q \in Node
    PROVE  Tiled(Tell2(ints, said, r, q))
<1> DEFINE cut == SplitFor(ints, said)
           mid == Hearing2(cut, Fresh(cut, ints, said), r, said.val, q)
<1>1. LoopsAre2(ints, said, r, q, cut, mid)
    BY DEF LoopsAre2
<1> HIDE DEF cut, mid
<1> QED
    BY <1>1, Tell2Is

Tilings == {ints \in Seq(AnInterval) : Tiled(ints)}

LEMMA TilingIs == \A ints : ints \in Tilings <=> Tiled(ints)
BY DEF Tilings, Tiled

\* The intervals, entry by entry of an echo.
EchoRun2(run, ints, echo, r, q) ==
    /\ run \in [0 .. Len(echo) -> Tilings] /\ run[0] = ints
    /\ \A n \in 1 .. Len(echo) : run[n] = Tell2(run[n - 1], echo[n], r, q)

LEMMA EchoRuns2 ==
    ASSUME NEW ints, Tiled(ints), NEW echo \in Seq(Said3), NEW r \in 0 .. Rounds, NEW q \in Node
    PROVE  \E run : /\ EchoRun2(run, ints, echo, r, q)
                    /\ LevelEcho2(ints, echo, r, q) = run[Len(echo)]
<1> DEFINE N == Len(echo)
           Z == Tilings
           step == [n \in Nat |-> [t \in Z |-> IF n \in 1 .. N THEN Tell2(t, echo[n], r, q) ELSE t]]
           Is(f) == f = [n \in 0 .. N |-> IF n = 0 THEN ints ELSE Tell2(f[n - 1], echo[n], r, q)]
           run == CHOOSE f : Is(f)
<1>1. N \in Nat /\ (\A n \in 1 .. N : echo[n] \in Said3) /\ ints \in Z
    BY TilingIs
<1>2. LevelEcho2(ints, echo, r, q) = run[N]
    BY DEF LevelEcho2
<1> HIDE DEF N
<1>3. \A t \in Z, n \in 1 .. N : Tell2(t, echo[n], r, q) \in Z
    BY <1>1, Tell2Typed, TilingIs
<1> HIDE DEF Z
<1>4. step \in [Nat -> [Z -> Z]]
  <2>1. \A n \in Nat, t \in Z : (IF n \in 1 .. N THEN Tell2(t, echo[n], r, q) ELSE t) \in Z
      BY <1>3
  <2> QED
      BY <2>1
<1>5. PICK g : Runs(g, N, Z, ints, step)
    BY <1>1, <1>4, SomeRun
<1>6. g \in [0 .. N -> Z] /\ \A n \in 0 .. N : g[n] = IF n = 0 THEN ints ELSE step[n][g[n - 1]]
    BY <1>5 DEF Runs
<1>7. ASSUME NEW n \in 0 .. N PROVE g[n] = IF n = 0 THEN ints ELSE Tell2(g[n - 1], echo[n], r, q)
  <2>1. CASE n # 0
    <3>1. n \in 1 .. N /\ n \in Nat /\ n - 1 \in 0 .. N
        BY <1>1, <2>1
    <3>2. g[n - 1] \in Z
        BY <1>6, <3>1
    <3>3. step[n][g[n - 1]] = Tell2(g[n - 1], echo[n], r, q)
        BY <3>1, <3>2
    <3> QED
        BY <1>6, <2>1, <3>3
  <2> QED
      BY <1>6, <2>1
<1> HIDE DEF step
<1>8. Is(g)
    BY <1>6, <1>7
<1>9. Is(run)
    BY <1>8
<1> HIDE DEF run
<1>10. \A n \in 0 .. N : run[n] = IF n = 0 THEN ints ELSE Tell2(run[n - 1], echo[n], r, q)
    BY <1>9
<1> DEFINE T == {n \in 0 .. N : run[n] \in Z}
<1>17. run[0] = ints
  <2>1. 0 \in 0 .. N
      BY <1>1
  <2> QED
      BY <1>10, <2>1
<1>11. 0 \in T
    BY <1>1, <1>17
<1>12. ASSUME NEW n \in 0 .. N - 1, n \in T PROVE n + 1 \in T
  <2>1. n + 1 \in 1 .. N /\ n + 1 \in 0 .. N /\ n + 1 # 0 /\ (n + 1) - 1 = n
      BY <1>1
  <2>2. run[n + 1] = Tell2(run[n], echo[n + 1], r, q)
      BY <1>10, <2>1
  <2> QED
      BY <1>3, <1>12, <2>1, <2>2
<1> HIDE DEF T
<1>13. \A n \in 0 .. N : n \in T
    BY <1>1, <1>11, <1>12, UpTo
<1>14. \A n \in 0 .. N : run[n] \in Z
    BY <1>13 DEF T
<1>15. run \in [0 .. N -> Z]
    BY <1>9, <1>14
<1>16. ASSUME NEW n \in 1 .. N PROVE run[n] = Tell2(run[n - 1], echo[n], r, q)
  <2>1. n \in 0 .. N /\ n # 0
      BY <1>1
  <2> QED
      BY <1>10, <2>1
<1>18. EchoRun2(run, ints, echo, r, q)
    BY <1>15, <1>16, <1>17 DEF EchoRun2, N, Z
<1> QED
    BY <1>2, <1>18 DEF N

LEMMA LevelEcho2Is ==
    ASSUME NEW ints, Tiled(ints), NEW echo \in Seq(Said3), NEW r \in 0 .. Rounds, NEW q \in Node
    PROVE  Tiled(LevelEcho2(ints, echo, r, q))
<1>1. PICK run : /\ EchoRun2(run, ints, echo, r, q)
                 /\ LevelEcho2(ints, echo, r, q) = run[Len(echo)]
    BY EchoRuns2
<1>2. Len(echo) \in 0 .. Len(echo)
    OBVIOUS
<1> QED
    BY <1>1, <1>2, TilingIs DEF EchoRun2

HeardAlone2(run, state, echo, r, q, y) ==
    /\ run[0] = state
    /\ \A n \in 1 .. Len(echo) :
          run[n] = IF Covers(echo[n], y) THEN StateAfter2(run[n - 1], echo[n], r, q) ELSE run[n - 1]

\* Level::add_echo2 likewise: every point hears the ECHO2s that cover it, each as if once.
THEOREM Echo2PerPoint ==
    ASSUME NEW ints, Tiled(ints), NEW echo \in Seq(Proper),
           NEW r \in 0 .. Rounds, NEW q \in Node, NEW y \in Point
    PROVE  \E run : /\ HeardAlone2(run, StateAt(ints, y), echo, r, q, y)
                    /\ StateAt(LevelEcho2(ints, echo, r, q), y) = run[Len(echo)]
<1> DEFINE N == Len(echo)
           out == LevelEcho2(ints, echo, r, q)
<1>1. echo \in Seq(Said3)
    BY DEF Proper
<1>2. PICK acc : EchoRun2(acc, ints, echo, r, q) /\ out = acc[N]
    BY <1>1, EchoRuns2
<1>3. /\ acc \in [0 .. N -> Tilings] /\ acc[0] = ints
      /\ \A n \in 1 .. N : acc[n] = Tell2(acc[n - 1], echo[n], r, q)
    BY <1>2 DEF EchoRun2
<1>4. N \in Nat /\ \A n \in 1 .. N : echo[n] \in Proper
    OBVIOUS
<1> HIDE DEF N, out
<1> DEFINE run == [n \in 0 .. N |-> StateAt(acc[n], y)]
<1>5. ASSUME NEW n \in 1 .. N
      PROVE  run[n] = IF Covers(echo[n], y) THEN StateAfter2(run[n - 1], echo[n], r, q)
                      ELSE run[n - 1]
  <2>1. n - 1 \in 0 .. N /\ n \in 0 .. N /\ acc[n - 1] \in Tilings /\ echo[n] \in Proper
      BY <1>3, <1>4
  <2>2. Tiled(acc[n - 1]) /\ echo[n] \in Said3 /\ echo[n].start < echo[n].end
      BY <2>1, TilingIs DEF Proper
  <2>3. acc[n] = Tell2(acc[n - 1], echo[n], r, q)
      BY <1>3
  <2>4. StateAt(acc[n], y)
          = IF Covers(echo[n], y) THEN StateAfter2(StateAt(acc[n - 1], y), echo[n], r, q)
            ELSE StateAt(acc[n - 1], y)
      BY <2>2, <2>3, Tell2PerPoint
  <2> QED
      BY <2>1, <2>4
<1>6. run[0] = StateAt(ints, y)
    BY <1>3, <1>4
<1>7. HeardAlone2(run, StateAt(ints, y), echo, r, q, y)
    BY <1>5, <1>6 DEF HeardAlone2, N
<1>8. StateAt(out, y) = run[N]
    BY <1>2, <1>4
<1> HIDE DEF run
<1> QED
    BY <1>7, <1>8 DEF out, N

-----------------------------------------------------------------------------
(* The start of a round.                                                   *)

LEMMA NothingIs == NoState \in RoundState
<1>1. NoState.slots = <<>> /\ NoState.echo1vals = {} /\ NoState \in Fields
    BY DEF NoState, Fields, NoVal
<1>2. IsFiniteSet({}) /\ Len(<<>>) = 0
    BY FS_EmptySet
<1>3. Calm(NoState)
    BY <1>1 DEF Calm
<1>4. Len(NoState.slots) <= 2 /\ IsFiniteSet(NoState.echo1vals)
    BY <1>1, <1>2
<1> QED
    BY <1>1, <1>3, <1>4 DEF RoundState

LEMMA BegunIs ==
    ASSUME NEW v \in Int, NEW p \in Node
    PROVE  NewWithEcho(v, p) \in RoundState
<1> DEFINE out == HearEcho(NoState, v, p, MinThreshold, HighThreshold)
<1>1. out.rs = NewWithEcho(v, p)
    BY DEF HearEcho
<1> HIDE DEF out
<1>2. out.rs \in RoundState
    BY NothingIs, HearEchoIs DEF out
<1> QED
    BY <1>1, <1>2

\* What an interval begins a round with.
StartOf(int, r, v) ==
    IF r > 0 THEN int.state[r - 1].term
    ELSE IF int.start <= v /\ v <= int.end THEN MaxInput ELSE 0

Begun(new, ints, r, p, v) ==
    \A i \in 1 .. Len(ints) :
        new[i].state = [ints[i].state EXCEPT ![r] = NewWithEcho(StartOf(ints[i], r, v), p)]

Opening(saids, ints, r, v) ==
    /\ saids \in Seq(Proper) /\ Len(saids) = Len(ints)
    /\ \A i \in 1 .. Len(ints) :
          /\ saids[i].start = ints[i].start /\ saids[i].end = ints[i].end
          /\ saids[i].val = StartOf(ints[i], r, v)

LEMMA LevelStartIs ==
    ASSUME NEW ints, Tiled(ints), NEW r \in 0 .. Rounds, NEW p \in Node, NEW v \in Int
    PROVE  \E saids :
              /\ Tiled(LevelStart(ints, r, p, v).ints)
              /\ SameEnds(LevelStart(ints, r, p, v).ints, ints)
              /\ Begun(LevelStart(ints, r, p, v).ints, ints, r, p, v)
              /\ LevelStart(ints, r, p, v).echo = Compress(saids)
              /\ Opening(saids, ints, r, v)
<1> DEFINE n == Len(ints)
           new == [i \in DOMAIN ints |->
                      [ints[i] EXCEPT !.state[r] = NewWithEcho(StartOf(ints[i], r, v), p)]]
           saids == [i \in DOMAIN ints |->
                        Said(ints[i].start, ints[i].end, StartOf(ints[i], r, v))]
<1>1. n \in Nat /\ DOMAIN ints = 1 .. n
    BY TilesAre
<1>2. LevelStart(ints, r, p, v) = [ints |-> new, echo |-> Compress(saids)]
    BY DEF LevelStart, StartOf
<1>3. LevelStart(ints, r, p, v).ints = new /\ LevelStart(ints, r, p, v).echo = Compress(saids)
    BY <1>2
<1>4. new = [i \in 1 .. n |->
                [ints[i] EXCEPT !.state[r] = NewWithEcho(StartOf(ints[i], r, v), p)]]
      /\ saids = [i \in 1 .. n |-> Said(ints[i].start, ints[i].end, StartOf(ints[i], r, v))]
    BY <1>1
<1> HIDE DEF new, saids, n
<1>5. ASSUME NEW i \in 1 .. n
      PROVE  /\ new[i] \in AnInterval
             /\ new[i].start = ints[i].start /\ new[i].end = ints[i].end
             /\ new[i].state = [ints[i].state EXCEPT ![r] = NewWithEcho(StartOf(ints[i], r, v), p)]
             /\ saids[i] \in Proper
             /\ saids[i].start = ints[i].start /\ saids[i].end = ints[i].end
             /\ saids[i].val = StartOf(ints[i], r, v)
  <2>1. ints[i] \in AnInterval /\ ints[i].start < ints[i].end
      BY TilesAre DEF n
  <2>2. StartOf(ints[i], r, v) \in Int
    <3>1. CASE r > 0
      <4>1. r - 1 \in 0 .. Rounds
          BY <3>1, LevelAssumption
      <4>2. ints[i].state[r - 1] \in RoundState
          BY <2>1, <4>1 DEF AnInterval
      <4>3. ints[i].state[r - 1].term \in Int
          BY <4>2, RoundStateIs
      <4> QED
          BY <3>1, <4>3 DEF StartOf
    <3>2. CASE ~(r > 0)
        BY <3>2, LevelPowers DEF StartOf
    <3> QED
        BY <3>1, <3>2
  <2> DEFINE h == NewWithEcho(StartOf(ints[i], r, v), p)
             nint == [ints[i] EXCEPT !.state[r] = h]
  <2>3. h \in RoundState
      BY <2>2, BegunIs
  <2>4. new[i] = nint
      BY <1>4
  <2> HIDE DEF h
  <2>5. /\ nint \in AnInterval /\ nint.start = ints[i].start /\ nint.end = ints[i].end
        /\ nint.state = [ints[i].state EXCEPT ![r] = h]
      BY <2>1, <2>3 DEF AnInterval
  <2> HIDE DEF nint
  <2>6. saids[i] = [start |-> ints[i].start, end |-> ints[i].end, val |-> StartOf(ints[i], r, v)]
      BY <1>4 DEF Said
  <2>7. ints[i].start \in Int /\ ints[i].end \in Int
      BY <2>1 DEF AnInterval
  <2>8. saids[i] \in Proper
      BY <2>1, <2>2, <2>6, <2>7 DEF Proper, Said3
  <2> QED
      BY <2>4, <2>5, <2>6, <2>8 DEF h
<1>6. new \in Seq(AnInterval) /\ Len(new) = n /\ saids \in Seq(Proper) /\ Len(saids) = n
  <2>1. new \in [1 .. n -> AnInterval] /\ saids \in [1 .. n -> Proper]
      BY <1>4, <1>5
  <2> QED
      BY <1>1, <2>1
<1>7. Tiled(new)
    BY <1>5, <1>6, SameTiles DEF n
<1>8. SameEnds(new, ints) /\ Begun(new, ints, r, p, v) /\ Opening(saids, ints, r, v)
    BY <1>5, <1>6 DEF SameEnds, Begun, Opening, n
<1> QED
    BY <1>3, <1>7, <1>8

LEMMA LevelStartTyped ==
    ASSUME NEW ints, Tiled(ints), NEW r \in 0 .. Rounds, NEW p \in Node, NEW v \in Int
    PROVE  /\ Tiled(LevelStart(ints, r, p, v).ints)
           /\ LevelStart(ints, r, p, v).echo \in Seq(Proper)
<1>1. PICK saids : /\ Tiled(LevelStart(ints, r, p, v).ints)
                   /\ LevelStart(ints, r, p, v).echo = Compress(saids)
                   /\ Opening(saids, ints, r, v)
    BY LevelStartIs
<1>2. saids \in Seq(Proper)
    BY <1>1 DEF Opening
<1> QED
    BY <1>1, <1>2, CompressIs, Mergeable

LEMMA StartAt ==
    ASSUME NEW ints, Tiled(ints), NEW r \in 0 .. Rounds, NEW p \in Node, NEW v \in Int,
           NEW y \in Point
    PROVE  LET begun == LevelStart(ints, r, p, v)
               own   == StartOf(At(ints, y), r, v)
           IN  /\ StateAt(begun.ints, y) = [StateAt(ints, y) EXCEPT ![r] = NewWithEcho(own, p)]
               /\ \A w \in Int \ {NoVal} : Speaks(begun.echo, y, w) <=> w = own
<1> DEFINE new == LevelStart(ints, r, p, v).ints
           echo == LevelStart(ints, r, p, v).echo
           own == StartOf(At(ints, y), r, v)
<1>2. PICK saids : /\ Tiled(new) /\ SameEnds(new, ints) /\ Begun(new, ints, r, p, v)
                   /\ echo = Compress(saids) /\ Opening(saids, ints, r, v)
    BY LevelStartIs
<1> HIDE DEF new, echo
<1>3. PICK i \in DOMAIN ints : Covers(ints[i], y)
    BY CoveredOnce
<1>4. /\ DOMAIN ints = 1 .. Len(ints) /\ i \in 1 .. Len(ints) /\ i \in DOMAIN new
      /\ DOMAIN saids = 1 .. Len(ints)
  <2>1. DOMAIN ints = 1 .. Len(ints) /\ DOMAIN new = 1 .. Len(new)
      BY <1>2, TilesAre
  <2>2. Len(new) = Len(ints)
      BY <1>2 DEF SameEnds
  <2>3. saids \in Seq(Proper) /\ Len(saids) = Len(ints)
      BY <1>2 DEF Opening
  <2> QED
      BY <1>3, <2>1, <2>2, <2>3
<1>5. StateAt(ints, y) = ints[i].state
    BY <1>3, AtIs
<1>6. StateAt(new, y) = new[i].state
  <2>1. Covers(new[i], y)
      BY <1>2, <1>3, <1>4 DEF SameEnds, Covers
  <2> QED
      BY <1>2, <1>4, <2>1, AtIs
<1>7. StartOf(ints[i], r, v) = own
    BY <1>3, AtIs
<1>8. new[i].state = [ints[i].state EXCEPT ![r] = NewWithEcho(own, p)]
    BY <1>2, <1>4, <1>7 DEF Begun
<1> HIDE DEF own
<1>9. ASSUME NEW w \in Int \ {NoVal} PROVE Speaks(echo, y, w) <=> w = own
  <2>1. Speaks(echo, y, w) <=> Speaks(saids, y, w)
    <3>1. saids \in Seq(Proper) /\ y \in Int /\ w # NoVal
        BY <1>2 DEF Opening, Point
    <3> QED
        BY <1>2, <3>1, CompressSpeaks
  <2>2. \A k \in 1 .. Len(ints) : Covers(saids[k], y) <=> k = i
    <3>1. \A k \in 1 .. Len(ints) : Covers(saids[k], y) <=> Covers(ints[k], y)
        BY <1>2 DEF Opening, Covers
    <3>2. \A k \in 1 .. Len(ints) : Covers(ints[k], y) <=> k = i
        BY <1>3, <1>4, CoveredOnce
    <3> QED
        BY <3>1, <3>2
  <2>3. saids[i].val = own
      BY <1>2, <1>4, <1>7 DEF Opening
  <2> QED
      BY <1>4, <2>1, <2>2, <2>3 DEF Speaks
<1> QED
    BY <1>5, <1>6, <1>8, <1>9 DEF new, echo, own

\* Level::start_round: a later round begins, at a point, with what the round before ended
\* with there, and says that of it.
THEOREM StartPerPoint ==
    ASSUME NEW ints, Tiled(ints), NEW r \in 1 .. Rounds, NEW p \in Node, NEW v \in Int,
           NEW y \in Point
    PROVE  LET begun == LevelStart(ints, r, p, v)
               own   == StateAt(ints, y)[r - 1].term
           IN  /\ StateAt(begun.ints, y) = [StateAt(ints, y) EXCEPT ![r] = NewWithEcho(own, p)]
               /\ \A w \in Int \ {NoVal} : Speaks(begun.echo, y, w) <=> w = own
<1>1. r \in 0 .. Rounds /\ r > 0
    OBVIOUS
<1>2. StartOf(At(ints, y), r, v) = StateAt(ints, y)[r - 1].term
    BY <1>1 DEF StartOf, StateAt
<1> QED
    BY <1>1, <1>2, StartAt

-----------------------------------------------------------------------------
(* Where intervals and what is said of them begin and end.                 *)

In(B) == {s \in Proper : s.start \in B /\ s.end \in B}

Edged(ints, B) == \A i \in 1 .. Len(ints) : ints[i].start \in B /\ ints[i].end \in B

LEMMA MergesIn == \A B : Merges(In(B)) /\ In(B) \subseteq Proper /\ In(B) \subseteq Said3
<1> TAKE B
<1>1. Merges(Proper) /\ In(B) \subseteq Proper /\ Proper \subseteq Said3
    BY Mergeable DEF In, Proper
<1>2. ASSUME NEW a \in In(B), NEW b \in In(B), a.end = b.start
      PROVE  [a EXCEPT !.end = b.end] \in In(B)
  <2>1. [a EXCEPT !.end = b.end] \in Proper
      BY <1>1, <1>2 DEF Merges
  <2>2. a \in Said3 /\ b \in Said3
      BY <1>1
  <2>3. [a EXCEPT !.end = b.end].start = a.start /\ [a EXCEPT !.end = b.end].end = b.end
      BY <2>2 DEF Said3
  <2> QED
      BY <2>1, <2>3 DEF In
<1> QED
    BY <1>1, <1>2 DEF Merges

\* What is said, rather than left unsaid, between points of B.
Voiced(B) == {s \in In(B) : s.val # NoVal}

LEMMA VoicedMerges == \A B : Merges(Voiced(B)) /\ Voiced(B) \subseteq In(B)
<1> TAKE B
<1>1. Merges(In(B)) /\ In(B) \subseteq Said3
    BY MergesIn
<1>2. ASSUME NEW a \in Voiced(B), NEW b \in Voiced(B), a.end = b.start
      PROVE  [a EXCEPT !.end = b.end] \in Voiced(B)
  <2>1. a \in In(B) /\ b \in In(B) /\ a \in Said3 /\ a.val # NoVal
      BY <1>1 DEF Voiced
  <2>2. [a EXCEPT !.end = b.end] \in In(B)
      BY <1>1, <1>2, <2>1 DEF Merges
  <2>3. [a EXCEPT !.end = b.end].val = a.val
      BY <2>1 DEF Said3
  <2> QED
      BY <2>1, <2>2, <2>3 DEF Voiced
<1>3. Voiced(B) \subseteq Said3 /\ Voiced(B) \subseteq In(B)
    BY <1>1 DEF Voiced
<1> QED
    BY <1>2, <1>3 DEF Merges

LEMMA CompressVoices ==
    ASSUME NEW B, NEW saids \in Seq(In(B))
    PROVE  Compress(saids) \in Seq(Voiced(B))
<1> DEFINE N == Len(saids)
<1>1. PICK run : CompressRun(run, In(B), saids) /\ Compress(saids) = run[N]
    BY MergesIn, CompressRuns
<1>2. N \in Nat /\ \A n \in 1 .. N : saids[n] \in In(B)
    OBVIOUS
<1>3. run[0] = <<>> /\ \A n \in 1 .. N : run[n] = PushAny(run[n - 1], saids[n])
    BY <1>1 DEF CompressRun
<1> HIDE DEF N
<1> DEFINE T == {n \in 0 .. N : run[n] \in Seq(Voiced(B))}
<1>4. 0 \in T
  <2>1. <<>> \in Seq(Voiced(B)) /\ 0 \in 0 .. N
      BY <1>2
  <2> QED
      BY <1>3, <2>1
<1>5. ASSUME NEW n \in 0 .. N - 1, n \in T PROVE n + 1 \in T
  <2>1. n + 1 \in 1 .. N /\ n + 1 \in 0 .. N /\ (n + 1) - 1 = n
      BY <1>2
  <2>2. run[n + 1] = PushAny(run[(n + 1) - 1], saids[n + 1])
      BY <1>3, <2>1
  <2> DEFINE echo == run[n]
             said == saids[n + 1]
  <2>3. run[n + 1] = PushAny(echo, said) /\ said \in In(B) /\ echo \in Seq(Voiced(B))
      BY <1>2, <1>5, <2>1, <2>2
  <2> HIDE DEF echo, said
  <2>4. PushAny(echo, said) \in Seq(Voiced(B))
    <3>1. CASE said.val = NoVal
        BY <2>3, <3>1 DEF PushAny
    <3>2. CASE said.val # NoVal
      <4>1. said \in Voiced(B)
          BY <2>3, <3>2 DEF Voiced
      <4> QED
          BY <2>3, <4>1, PushIs, VoicedMerges
    <3> QED
        BY <3>1, <3>2
  <2> QED
      BY <2>1, <2>3, <2>4
<1> HIDE DEF T
<1>6. N \in T
  <2>1. \A n \in 0 .. N : n \in T
      BY <1>2, <1>4, <1>5, UpTo
  <2> QED
      BY <1>2, <2>1
<1> QED
    BY <1>1, <1>6 DEF T

LEMMA SplitEdged ==
    ASSUME NEW B, NEW ints, Tiled(ints), Edged(ints, B), NEW x \in Int, x \in B, NEW new,
           new = Split(ints, x)
    PROVE  Edged(new, B)
<1>1. CASE Within(ints, x) = {}
    BY <1>1 DEF Split
<1>2. CASE Within(ints, x) # {}
  <2>1. PICK i \in Within(ints, x) : new = SplitAt(ints, x, i)
      BY <1>2 DEF Split
  <2>2. /\ i \in 1 .. Len(ints) /\ Len(new) = Len(ints) + 1
        /\ \A k \in 1 .. i - 1 : new[k] = ints[k]
        /\ new[i].start = ints[i].start /\ new[i].end = x
        /\ new[i + 1].start = x /\ new[i + 1].end = ints[i].end
        /\ \A k \in i + 2 .. Len(ints) + 1 : new[k] = ints[k - 1]
      BY <2>1, SplitAtIs
  <2> DEFINE n == Len(ints)
  <2>3. n \in Nat
      BY TilesAre
  <2> HIDE DEF n
  <2>4. ASSUME NEW k \in 1 .. n + 1 PROVE new[k].start \in B /\ new[k].end \in B
    <3>1. CASE k \in 1 .. i - 1
      <4>1. k \in 1 .. n
          BY <2>2, <2>3, <3>1 DEF n
      <4> QED
          BY <2>2, <3>1, <4>1 DEF Edged, n
    <3>2. CASE k = i
        BY <2>2, <3>2 DEF Edged
    <3>3. CASE k = i + 1
        BY <2>2, <3>3 DEF Edged
    <3>4. CASE k \in i + 2 .. n + 1
      <4>1. k - 1 \in 1 .. n
          BY <2>2, <2>3, <3>4 DEF n
      <4> QED
          BY <2>2, <3>4, <4>1 DEF Edged, n
    <3>5. k \in 1 .. i - 1 \/ k = i \/ k = i + 1 \/ k \in i + 2 .. n + 1
        BY <2>2, <2>3 DEF n
    <3> QED
        BY <3>1, <3>2, <3>3, <3>4, <3>5
  <2> QED
      BY <2>2, <2>4 DEF Edged, n
<1> QED
    BY <1>1, <1>2

LEMMA SplitForEdged ==
    ASSUME NEW B, NEW ints, Tiled(ints), Edged(ints, B), NEW said \in In(B), NEW cut,
           cut = SplitFor(ints, said)
    PROVE  Edged(cut, B)
<1> DEFINE one == Split(ints, said.start)
<1>1. said.start \in Int /\ said.end \in Int /\ said.start \in B /\ said.end \in B
    BY DEF In, Proper, Said3
<1>2. cut = Split(one, said.end)
    BY DEF SplitFor
<1> HIDE DEF one
<1>3. Tiled(one) /\ Edged(one, B)
    BY <1>1, SplitKeeps, SplitEdged DEF one
<1> QED
    BY <1>1, <1>2, <1>3, SplitEdged

\* Intervals, and what they said, between points of B.
EdgedAcc(B) ==
    {a \in [ints : Seq(AnInterval), echo1 : Seq(Voiced(B)), echo2 : Seq(Voiced(B))] :
        Tiled(a.ints) /\ Edged(a.ints, B)}

LEMMA SaidsIn ==
    ASSUME NEW B, NEW cut, Tiled(cut), Edged(cut, B), NEW first, NEW second,
           NEW saids, SaidAre(saids, first, second, cut)
    PROVE  saids \in Seq(In(B))
<1> DEFINE n == Len(cut)
<1>1. n \in Nat
    BY TilesAre
<1>2. /\ saids \in Seq(Proper) /\ DOMAIN saids = 1 .. n + n
      /\ \A i \in 1 .. n : /\ saids[i].start = cut[i].start /\ saids[i].end = cut[i].end
                           /\ saids[n + i].start = cut[i].start /\ saids[n + i].end = cut[i].end
      /\ \A i \in 1 .. n : cut[i].start \in B /\ cut[i].end \in B
    BY DEF SaidAre, Edged
<1> HIDE DEF n
<1>3. ASSUME NEW k \in 1 .. n + n PROVE saids[k] \in In(B)
  <2>0. k \in DOMAIN saids /\ saids \in Seq(Proper)
      BY <1>2
  <2>1. saids[k] \in Proper
    <3> HIDE <1>2
    <3> QED
        BY <2>0
  <2>2. CASE k \in 1 .. n
      BY <1>2, <2>1, <2>2 DEF In
  <2>3. CASE k - n \in 1 .. n
    <3> DEFINE j == k - n
    <3>3. k \in Int /\ n \in Int
        BY <1>1
    <3>4. k = n + j
        BY <3>3
    <3>1. k = n + j /\ j \in 1 .. n
        BY <2>3, <3>4
    <3> HIDE DEF j
    <3>2. saids[n + j].start \in B /\ saids[n + j].end \in B
        BY <1>2, <3>1
    <3>5. saids[k].start \in B /\ saids[k].end \in B
        BY <3>1, <3>2
    <3> QED
        BY <2>1, <3>5 DEF In
  <2>4. k \in 1 .. n \/ k - n \in 1 .. n
      BY <1>1
  <2> QED
      BY <2>2, <2>3, <2>4
<1>4. saids \in Seq(Proper) /\ n + n \in Nat
    BY <1>1, <1>2
<1>5. Len(saids) = n + n
    BY <1>2, <1>4
<1>6. \A k \in 1 .. Len(saids) : saids[k] \in In(B)
    BY <1>3, <1>5
<1> QED
    BY <1>4, <1>6

LEMMA TellEdged ==
    ASSUME NEW B, NEW acc \in EdgedAcc(B), NEW said \in In(B), NEW r \in 0 .. Rounds, NEW q \in Node
    PROVE  Tell(acc, said, r, q) \in EdgedAcc(B)
<1> DEFINE cut == SplitFor(acc.ints, said)
           first == Hearing(cut, Fresh(cut, acc.ints, said), r, said.val, q)
           second == Hearing(Intervals(first), Told(Intervals(first), said), r, said.val, q)
           e1 == SaidBy(first \o second, "echo1")
           e2 == SaidBy(first \o second, "echo2")
<1>1. /\ Tiled(acc.ints) /\ Edged(acc.ints, B) /\ acc.echo1 \in Seq(Voiced(B)) /\ acc.echo2 \in Seq(Voiced(B))
      /\ said \in Said3
    BY MergesIn DEF EdgedAcc
<1>2. LoopsAre(acc, said, r, q, cut, first, second) /\ Edged(cut, B)
    BY <1>1, SplitForEdged DEF LoopsAre
<1> HIDE DEF cut, first, second
<1>3. /\ Tell(acc, said, r, q) = Noted(acc, first, second)
      /\ Tiled(cut) /\ Results(first, cut) /\ Results(second, cut)
      /\ Tiled(Intervals(second)) /\ Len(Intervals(second)) = Len(cut)
      /\ \A i \in 1 .. Len(cut) : /\ Intervals(second)[i].start = cut[i].start
                                  /\ Intervals(second)[i].end = cut[i].end
    BY <1>1, <1>2, TellIs
<1>4. SaidAre(e1, first, second, cut) /\ SaidAre(e2, first, second, cut)
    BY <1>3, SaidByIs
<1>5. Tell(acc, said, r, q) = [ints |-> Intervals(second), echo1 |-> Compress(acc.echo1 \o e1),
                               echo2 |-> Compress(acc.echo2 \o e2)]
    BY <1>3 DEF Noted
<1> HIDE DEF e1, e2
<1>6. e1 \in Seq(In(B)) /\ e2 \in Seq(In(B))
    BY <1>2, <1>3, <1>4, SaidsIn
<1>10. acc.echo1 \in Seq(In(B)) /\ acc.echo2 \in Seq(In(B))
    BY <1>1, VoicedMerges
<1>7. acc.echo1 \o e1 \in Seq(In(B)) /\ acc.echo2 \o e2 \in Seq(In(B))
    BY <1>6, <1>10
<1>8. Compress(acc.echo1 \o e1) \in Seq(Voiced(B)) /\ Compress(acc.echo2 \o e2) \in Seq(Voiced(B))
    BY <1>7, CompressVoices
<1>9. Intervals(second) \in Seq(AnInterval) /\ Edged(Intervals(second), B)
    BY <1>2, <1>3, TilesAre DEF Edged
<1> QED
    BY <1>3, <1>5, <1>8, <1>9 DEF EdgedAcc

LEMMA EchoEdged ==
    ASSUME NEW B, NEW ints, Tiled(ints), Edged(ints, B), NEW echo \in Seq(In(B)),
           NEW r \in 0 .. Rounds, NEW q \in Node
    PROVE  LevelEcho(ints, echo, r, q) \in EdgedAcc(B)
<1> DEFINE N == Len(echo)
<1>1. echo \in Seq(Said3)
    BY MergesIn
<1>2. PICK run : EchoRun(run, ints, echo, r, q) /\ LevelEcho(ints, echo, r, q) = run[N]
    BY <1>1, EchoRuns
<1>3. N \in Nat /\ (\A n \in 1 .. N : echo[n] \in In(B))
    OBVIOUS
<1>4. /\ run[0] = [ints |-> ints, echo1 |-> <<>>, echo2 |-> <<>>]
      /\ \A n \in 1 .. N : run[n] = Tell(run[n - 1], echo[n], r, q)
    BY <1>2 DEF EchoRun
<1> HIDE DEF N
<1> DEFINE T == {n \in 0 .. N : run[n] \in EdgedAcc(B)}
<1>5. 0 \in T
  <2>1. ints \in Seq(AnInterval) /\ <<>> \in Seq(Voiced(B))
      BY TilesAre
  <2>2. [ints |-> ints, echo1 |-> <<>>, echo2 |-> <<>>] \in EdgedAcc(B)
      BY <2>1 DEF EdgedAcc
  <2>3. 0 \in 0 .. N
      BY <1>3
  <2> QED
      BY <1>4, <2>2, <2>3
<1>6. ASSUME NEW n \in 0 .. N - 1, n \in T PROVE n + 1 \in T
  <2>1. n + 1 \in 1 .. N /\ n + 1 \in 0 .. N /\ (n + 1) - 1 = n
      BY <1>3
  <2>2. run[n + 1] = Tell(run[n], echo[n + 1], r, q)
      BY <1>4, <2>1
  <2> QED
      BY <1>3, <1>6, <2>1, <2>2, TellEdged
<1> HIDE DEF T
<1>7. N \in T
  <2>1. \A n \in 0 .. N : n \in T
      BY <1>3, <1>5, <1>6, UpTo
  <2> QED
      BY <1>3, <2>1
<1> QED
    BY <1>2, <1>7 DEF T

LEMMA Tell2Edged ==
    ASSUME NEW B, NEW ints, Tiled(ints), Edged(ints, B), NEW said \in In(B),
           NEW r \in 0 .. Rounds, NEW q \in Node
    PROVE  Edged(Tell2(ints, said, r, q), B)
<1> DEFINE cut == SplitFor(ints, said)
           mid == Hearing2(cut, Fresh(cut, ints, said), r, said.val, q)
<1>1. said \in Said3 /\ LoopsAre2(ints, said, r, q, cut, mid) /\ Edged(cut, B)
    BY MergesIn, SplitForEdged DEF LoopsAre2
<1> HIDE DEF cut, mid
<1>2. SameEnds(Tell2(ints, said, r, q), cut)
    BY <1>1, Tell2Is
<1> QED
    BY <1>1, <1>2 DEF SameEnds, Edged

LEMMA Echo2Edged ==
    ASSUME NEW B, NEW ints, Tiled(ints), Edged(ints, B), NEW echo \in Seq(In(B)),
           NEW r \in 0 .. Rounds, NEW q \in Node
    PROVE  Edged(LevelEcho2(ints, echo, r, q), B)
<1> DEFINE N == Len(echo)
<1>1. echo \in Seq(Said3)
    BY MergesIn
<1>2. PICK run : EchoRun2(run, ints, echo, r, q) /\ LevelEcho2(ints, echo, r, q) = run[N]
    BY <1>1, EchoRuns2
<1>3. N \in Nat /\ (\A n \in 1 .. N : echo[n] \in In(B))
    OBVIOUS
<1>4. /\ run[0] = ints /\ \A n \in 0 .. N : Tiled(run[n])
      /\ \A n \in 1 .. N : run[n] = Tell2(run[n - 1], echo[n], r, q)
    BY <1>2, TilingIs DEF EchoRun2
<1> HIDE DEF N
<1> DEFINE T == {n \in 0 .. N : Edged(run[n], B)}
<1>5. 0 \in T
    BY <1>3, <1>4
<1>6. ASSUME NEW n \in 0 .. N - 1, n \in T PROVE n + 1 \in T
  <2>1. n + 1 \in 1 .. N /\ n + 1 \in 0 .. N /\ (n + 1) - 1 = n
      BY <1>3
  <2>4. run[n + 1] = Tell2(run[(n + 1) - 1], echo[n + 1], r, q)
      BY <1>4, <2>1
  <2>2. run[n + 1] = Tell2(run[n], echo[n + 1], r, q) /\ Tiled(run[n])
      BY <1>3, <1>4, <2>1, <2>4
  <2>3. Edged(run[n + 1], B)
      BY <1>3, <1>6, <2>1, <2>2, Tell2Edged
  <2> QED
      BY <2>1, <2>3
<1> HIDE DEF T
<1>7. N \in T
  <2>1. \A n \in 0 .. N : n \in T
      BY <1>3, <1>5, <1>6, UpTo
  <2> QED
      BY <1>3, <2>1
<1> QED
    BY <1>2, <1>7 DEF T

LEMMA StartEdged ==
    ASSUME NEW B, NEW ints, Tiled(ints), Edged(ints, B), NEW r \in 0 .. Rounds, NEW p \in Node,
           NEW v \in Int
    PROVE  /\ Edged(LevelStart(ints, r, p, v).ints, B)
           /\ LevelStart(ints, r, p, v).echo \in Seq(Voiced(B))
<1>1. PICK saids : /\ SameEnds(LevelStart(ints, r, p, v).ints, ints)
                   /\ LevelStart(ints, r, p, v).echo = Compress(saids)
                   /\ Opening(saids, ints, r, v)
    BY LevelStartIs
<1>2. /\ saids \in Seq(Proper) /\ Len(saids) = Len(ints)
      /\ \A i \in 1 .. Len(ints) : saids[i].start \in B /\ saids[i].end \in B
    BY <1>1 DEF Opening, Edged
<1>3. \A i \in 1 .. Len(saids) : saids[i] \in In(B)
    BY <1>2 DEF In
<1>4. saids \in Seq(In(B))
    BY <1>2, <1>3
<1> QED
    BY <1>1, <1>4, CompressVoices DEF SameEnds, Edged
-----------------------------------------------------------------------------
(* A point that hears one value, from however many entries, hears it once. *)

\* All that an echo says of a point is v.
SaysOnly(echo, y, v) == \A n \in 1 .. Len(echo) : Covers(echo[n], y) => echo[n].val = v

\* An echo speaks of a point.
SpeaksOf(echo, y) == \E n \in 1 .. Len(echo) : Covers(echo[n], y)

LEMMA HearsOnce ==
    ASSUME Apart, NEW ints, Tiled(ints), NEW echo \in Seq(Proper),
           NEW r \in 0 .. Rounds, NEW q \in Node, NEW y \in Point,
           NEW v \in Nat, SaysOnly(echo, y, v), NEW out, out = LevelEcho(ints, echo, r, q),
           NEW st, st = StateAt(ints, y), NEW h, h = HearEcho(st[r], v, q, MinThreshold, HighThreshold)
    PROVE  IF SpeaksOf(echo, y)
           THEN /\ StateAt(out.ints, y) = [st EXCEPT ![r] = h.rs]
                /\ \A w \in Int \ {NoVal} : /\ Speaks(out.echo1, y, w) <=> h.echo1 = w
                                            /\ Speaks(out.echo2, y, w) <=> h.echo2 = w
           ELSE /\ StateAt(out.ints, y) = st
                /\ \A w \in Int \ {NoVal} : ~Speaks(out.echo1, y, w) /\ ~Speaks(out.echo2, y, w)
<1> DEFINE N == Len(echo)
           new == [st EXCEPT ![r] = h.rs]
           hit(n) == Covers(echo[n], y)
<1>1. PICK run : /\ HeardAlone(run, st, echo, r, q, y)
                 /\ StateAt(out.ints, y) = run[N]
                 /\ \A w \in Int \ {NoVal} :
                       /\ Speaks(out.echo1, y, w) <=> SaysAlone1(run, echo, r, q, y, w)
                       /\ Speaks(out.echo2, y, w) <=> SaysAlone2(run, echo, r, q, y, w)
    BY EchoPerPoint
<1>2. N \in Nat /\ st \in [0 .. Rounds -> RoundState] /\ v \in Int
    BY StateIs
<1>3. /\ run[0] = st
      /\ \A n \in 1 .. N : run[n] = IF hit(n) THEN StateAfter(run[n - 1], echo[n], r, q) ELSE run[n - 1]
    BY <1>1 DEF HeardAlone
<1>4. \A n \in 1 .. N : hit(n) => echo[n].val = v
    BY DEF SaysOnly
<1>5. st[r] \in RoundState /\ h.rs \in RoundState /\ h.rs # NoState /\ Heeded(h.rs, v, q)
    BY <1>2, HearEchoIs
<1>6. HearEcho(h.rs, v, q, MinThreshold, HighThreshold) = Quiet(h.rs)
    BY <1>2, <1>5, HeededIsQuiet DEF Quiet
<1>7. new[r] = h.rs /\ [new EXCEPT ![r] = h.rs] = new
    BY <1>2
<1> HIDE DEF N, new
<1>8. ASSUME NEW n \in 1 .. N, hit(n)
      PROVE  /\ run[n - 1] = st => /\ StateAfter(run[n - 1], echo[n], r, q) = new
                                   /\ Answered(run[n - 1], echo[n], r, q) = h
             /\ run[n - 1] = new => /\ StateAfter(run[n - 1], echo[n], r, q) = new
                                    /\ Answered(run[n - 1], echo[n], r, q) = Quiet(h.rs)
  <2>1. echo[n].val = v
      BY <1>4, <1>8
  <2>2. ASSUME run[n - 1] = st
        PROVE  /\ StateAfter(run[n - 1], echo[n], r, q) = new
               /\ Answered(run[n - 1], echo[n], r, q) = h
      BY <2>1, <2>2 DEF StateAfter, Answered, new
  <2>3. ASSUME run[n - 1] = new
        PROVE  /\ StateAfter(run[n - 1], echo[n], r, q) = new
               /\ Answered(run[n - 1], echo[n], r, q) = Quiet(h.rs)
    <3>1. HearEcho(run[n - 1][r], echo[n].val, q, MinThreshold, HighThreshold) = Quiet(h.rs)
        BY <1>6, <1>7, <2>1, <2>3
    <3>2. Quiet(h.rs).rs = h.rs
        BY DEF Quiet
    <3> QED
        BY <1>7, <2>3, <3>1, <3>2 DEF StateAfter, Answered
  <2> QED
      BY <2>2, <2>3
<1> HIDE DEF hit
<1> DEFINE T == {n \in 0 .. N : /\ run[n] = IF \E i \in 1 .. n : hit(i) THEN new ELSE st}
<1>9. 0 \in T
  <2>1. ~ \E i \in 1 .. 0 : hit(i)
      OBVIOUS
  <2> QED
      BY <1>2, <1>3, <2>1
<1>10. ASSUME NEW n \in 0 .. N - 1, n \in T PROVE n + 1 \in T
  <2>1. /\ n + 1 \in 1 .. N /\ n + 1 \in 0 .. N /\ (n + 1) - 1 = n
        /\ \A i : i \in 1 .. n + 1 <=> i \in 1 .. n \/ i = n + 1
      BY <1>2
  <2>2. run[n + 1] = IF hit(n + 1) THEN StateAfter(run[n], echo[n + 1], r, q) ELSE run[n]
      BY <1>3, <2>1
  <2>3. run[n] = new \/ run[n] = st
      BY <1>10
  <2>4. hit(n + 1) => run[n + 1] = new
      BY <1>8, <2>1, <2>2, <2>3
  <2>5. ~hit(n + 1) => run[n + 1] = run[n] /\ ((\E i \in 1 .. n + 1 : hit(i)) <=> \E i \in 1 .. n : hit(i))
      BY <2>1, <2>2
  <2>6. run[n] = IF \E i \in 1 .. n : hit(i) THEN new ELSE st
      BY <1>10
  <2>7. run[n + 1] = IF \E i \in 1 .. n + 1 : hit(i) THEN new ELSE st
    <3>1. CASE hit(n + 1)
        BY <2>1, <2>4, <3>1
    <3>2. CASE ~hit(n + 1)
        BY <2>5, <2>6, <3>2
    <3> QED
        BY <3>1, <3>2
  <2> QED
      BY <2>1, <2>7
<1> HIDE DEF T
<1>11. \A n \in 0 .. N : n \in T
    BY <1>2, <1>9, <1>10, UpTo
<1>12. \A n \in 0 .. N : run[n] = IF \E i \in 1 .. n : hit(i) THEN new ELSE st
    BY <1>11 DEF T
<1>13. SpeaksOf(echo, y) <=> \E i \in 1 .. N : hit(i)
    BY DEF SpeaksOf, hit, N
<1>14. run[N] = IF \E i \in 1 .. N : hit(i) THEN new ELSE st
    BY <1>2, <1>12
<1>15. CASE ~SpeaksOf(echo, y)
  <2>1. \A w : ~SaysAlone1(run, echo, r, q, y, w) /\ ~SaysAlone2(run, echo, r, q, y, w)
      BY <1>13, <1>15 DEF SaysAlone1, SaysAlone2, N, hit
  <2> QED
      BY <1>1, <1>13, <1>14, <1>15, <2>1 DEF N
<1>16. CASE SpeaksOf(echo, y)
  <2> DEFINE hits == {i \in 1 .. N : hit(i)}
  <2>1. PICK i \in hits : \A j \in hits : i <= j
    <3>1. hits \subseteq Nat /\ hits # {}
        BY <1>13, <1>16
    <3> HIDE DEF hits
    <3> QED
        BY <3>1, LeastNatural
  <2>2. /\ i \in 1 .. N /\ hit(i) /\ i - 1 \in 0 .. N /\ ~ \E j \in 1 .. i - 1 : hit(j)
        /\ i \in Int
      BY <1>2, <2>1
  <2>3. Answered(run[i - 1], echo[i], r, q) = h
    <3>1. run[i - 1] = st
        BY <1>12, <2>2
    <3> QED
        BY <1>8, <2>2, <3>1
  <2>4. ASSUME NEW n \in 1 .. N, hit(n), n # i PROVE Answered(run[n - 1], echo[n], r, q) = Quiet(h.rs)
    <3>1. n \in hits /\ i <= n
        BY <2>1, <2>4
    <3>2. i \in 1 .. n - 1 /\ n - 1 \in 0 .. N
        BY <1>2, <2>2, <2>4, <3>1
    <3>3. run[n - 1] = new
        BY <1>12, <2>2, <3>2
    <3> QED
        BY <1>8, <2>4, <3>3
  <2>5. Quiet(h.rs).echo1 = NoVal /\ Quiet(h.rs).echo2 = NoVal
      BY DEF Quiet
  <2>6. ASSUME NEW w \in Int \ {NoVal}
        PROVE  /\ SaysAlone1(run, echo, r, q, y, w) <=> h.echo1 = w
               /\ SaysAlone2(run, echo, r, q, y, w) <=> h.echo2 = w
    <3>1. /\ SaysAlone1(run, echo, r, q, y, w)
                <=> \E n \in 1 .. N : hit(n) /\ Answered(run[n - 1], echo[n], r, q).echo1 = w
          /\ SaysAlone2(run, echo, r, q, y, w)
                <=> \E n \in 1 .. N : hit(n) /\ Answered(run[n - 1], echo[n], r, q).echo2 = w
        BY DEF SaysAlone1, SaysAlone2, N, hit
    <3>2. w # NoVal
        OBVIOUS
    <3> QED
        BY <2>2, <2>3, <2>4, <2>5, <3>1, <3>2
  <2>7. run[N] = new
      BY <1>13, <1>14, <1>16
  <2> QED
      BY <1>1, <1>16, <2>6, <2>7 DEF N, new
<1> QED
    BY <1>15, <1>16

LEMMA HearsOnce2 ==
    ASSUME NEW ints, Tiled(ints), NEW echo \in Seq(Proper),
           NEW r \in 0 .. Rounds, NEW q \in Node, NEW y \in Point,
           NEW v \in Nat, SaysOnly(echo, y, v), NEW out, out = LevelEcho2(ints, echo, r, q),
           NEW st, st = StateAt(ints, y), NEW h, h = HearEcho2(st[r], v, q, HighThreshold)
    PROVE  StateAt(out, y) = IF SpeaksOf(echo, y) THEN [st EXCEPT ![r] = h] ELSE st
<1> DEFINE N == Len(echo)
           new == [st EXCEPT ![r] = h]
           hit(n) == Covers(echo[n], y)
<1>1. PICK run : HeardAlone2(run, st, echo, r, q, y) /\ StateAt(out, y) = run[N]
    BY Echo2PerPoint
<1>2. N \in Nat /\ st \in [0 .. Rounds -> RoundState] /\ v \in Int
    BY StateIs
<1>3. /\ run[0] = st
      /\ \A n \in 1 .. N : run[n] = IF hit(n) THEN StateAfter2(run[n - 1], echo[n], r, q) ELSE run[n - 1]
    BY <1>1 DEF HeardAlone2
<1>4. \A n \in 1 .. N : hit(n) => echo[n].val = v
    BY DEF SaysOnly
<1>5. st[r] \in RoundState /\ h \in RoundState /\ h # NoState /\ Heeded2(h, v, q)
    BY <1>2, HearEcho2Is
<1>6. HearEcho2(h, v, q, HighThreshold) = h
    BY <1>2, <1>5, HeededIsQuiet2
<1>7. new[r] = h /\ [new EXCEPT ![r] = h] = new
    BY <1>2
<1> HIDE DEF N, new
<1>8. ASSUME NEW n \in 1 .. N, hit(n), run[n - 1] = st \/ run[n - 1] = new
      PROVE  StateAfter2(run[n - 1], echo[n], r, q) = new
  <2>1. echo[n].val = v
      BY <1>4, <1>8
  <2>2. CASE run[n - 1] = st
      BY <2>1, <2>2 DEF StateAfter2, new
  <2>3. CASE run[n - 1] = new
    <3>1. HearEcho2(run[n - 1][r], echo[n].val, q, HighThreshold) = h
        BY <1>6, <1>7, <2>1, <2>3
    <3> QED
        BY <1>7, <2>3, <3>1 DEF StateAfter2
  <2> QED
      BY <1>8, <2>2, <2>3
<1> HIDE DEF hit
<1> DEFINE T == {n \in 0 .. N : run[n] = IF \E i \in 1 .. n : hit(i) THEN new ELSE st}
<1>9. 0 \in T
  <2>1. ~ \E i \in 1 .. 0 : hit(i)
      OBVIOUS
  <2> QED
      BY <1>2, <1>3, <2>1
<1>10. ASSUME NEW n \in 0 .. N - 1, n \in T PROVE n + 1 \in T
  <2>1. /\ n + 1 \in 1 .. N /\ n + 1 \in 0 .. N /\ (n + 1) - 1 = n
        /\ \A i : i \in 1 .. n + 1 <=> i \in 1 .. n \/ i = n + 1
      BY <1>2
  <2>2. run[n + 1] = IF hit(n + 1) THEN StateAfter2(run[n], echo[n + 1], r, q) ELSE run[n]
      BY <1>3, <2>1
  <2>3. run[n] = new \/ run[n] = st
      BY <1>10
  <2>4. hit(n + 1) => run[n + 1] = new
      BY <1>8, <2>1, <2>2, <2>3
  <2>5. ~hit(n + 1) => run[n + 1] = run[n] /\ ((\E i \in 1 .. n + 1 : hit(i)) <=> \E i \in 1 .. n : hit(i))
      BY <2>1, <2>2
  <2>6. run[n] = IF \E i \in 1 .. n : hit(i) THEN new ELSE st
      BY <1>10
  <2>7. run[n + 1] = IF \E i \in 1 .. n + 1 : hit(i) THEN new ELSE st
    <3>1. CASE hit(n + 1)
        BY <2>1, <2>4, <3>1
    <3>2. CASE ~hit(n + 1)
        BY <2>5, <2>6, <3>2
    <3> QED
        BY <3>1, <3>2
  <2> QED
      BY <2>1, <2>7
<1> HIDE DEF T
<1>11. \A n \in 0 .. N : n \in T
    BY <1>2, <1>9, <1>10, UpTo
<1>12. run[N] = IF \E i \in 1 .. N : hit(i) THEN new ELSE st
    BY <1>2, <1>11 DEF T
<1>13. SpeaksOf(echo, y) <=> \E i \in 1 .. N : hit(i)
    BY DEF SpeaksOf, hit, N
<1> QED
    BY <1>1, <1>12, <1>13 DEF N, new
-----------------------------------------------------------------------------
(* Who is counted, whatever is said: messages whose entries are no proper   *)
(* intervals included.                                                      *)

Quorate(Q) == Cardinality(Q) >= HighThreshold

\* Only nodes of Q are counted, and a round is not over before they are a quorum.
Backed(Q, rs) ==
    /\ \A i \in DOMAIN rs.slots : rs.slots[i].echo1 \subseteq Q /\ rs.slots[i].echo2 \subseteq Q
    /\ Terminated(rs) => Quorate(Q)

LEMMA MoreBack ==
    ASSUME NEW Q \in SUBSET Node, NEW S \in SUBSET Q
    PROVE  /\ Quorate(S) => Quorate(Q)
           /\ \A rs : Backed(S, rs) => Backed(Q, rs)
<1>1. IsFiniteSet(Q) /\ IsFiniteSet(S) /\ Cardinality(S) <= Cardinality(Q)
    BY LevelAssumption, FS_Subset
<1>2. Cardinality(S) \in Nat /\ Cardinality(Q) \in Nat
    BY <1>1, FS_CardinalityType
<1>3. Quorate(S) => Quorate(Q)
    BY <1>1, <1>2, ThresholdsAre DEF Quorate
<1> QED
    BY <1>3 DEF Backed

\* A quorum of votes of nodes of Q is one of Q.
LEMMA VotesBack ==
    ASSUME NEW Q \in SUBSET Node, NEW S, S \subseteq Q, Cardinality(S) >= HighThreshold
    PROVE  Quorate(Q)
BY MoreBack DEF Quorate

\* A round with one slot more, and one with a slot changed
LEMMA BackedMore ==
    ASSUME NEW Q, NEW rs \in RoundState, Backed(Q, rs), NEW s \in Slot,
           s.echo1 \subseteq Q, s.echo2 \subseteq Q, NEW new, new.term = rs.term,
           Len(rs.slots) = 1, new.slots = Append(rs.slots, s)
    PROVE  Backed(Q, new)
<1>1. rs.slots \in Seq(Slot)
    BY RoundStateIs
<1>2. /\ DOMAIN new.slots = {1, 2} /\ new.slots[1] = rs.slots[1] /\ new.slots[2] = s
    BY <1>1, SlotAppended
<1>3. 1 \in DOMAIN rs.slots
    BY <1>1
<1> QED
    BY <1>2, <1>3 DEF Backed, Terminated

LEMMA BackedChanged ==
    ASSUME NEW Q, NEW rs \in RoundState, Backed(Q, rs), NEW s \in Slot, NEW i \in DOMAIN rs.slots,
           s.echo1 \subseteq Q, s.echo2 \subseteq Q, NEW new,
           new.term # rs.term => Quorate(Q), new.slots = [rs.slots EXCEPT ![i] = s]
    PROVE  Backed(Q, new)
<1>1. rs.slots \in Seq(Slot)
    BY RoundStateIs
<1>2. /\ DOMAIN new.slots = DOMAIN rs.slots /\ new.slots[i] = s
      /\ \A j \in DOMAIN rs.slots : j # i => new.slots[j] = rs.slots[j]
    BY <1>1, SlotReplaced
<1> QED
    BY <1>2 DEF Backed, Terminated

\* What a round is after an ECHO1: one slot more, or one in which the sender is counted.
LEMMA HearEchoBacked ==
    ASSUME NEW rs \in RoundState, NEW v \in Int, NEW Q \in SUBSET Node, NEW q \in Q, Backed(Q, rs)
    PROVE  Backed(Q, HearEcho(rs, v, q, MinThreshold, HighThreshold).rs)
<1> DEFINE out == HearEcho(rs, v, q, MinThreshold, HighThreshold)
           i == SlotOf(rs, v)
           n == Len(rs.slots)
           s == [rs.slots[i] EXCEPT !.echo1 = @ \union {q}]
           E == rs.echo1vals \union {v}
           first == NewSlot(v, {q}, {})
<1>0. /\ first \in Slot /\ first.echo1 = {q} /\ first.echo2 = {}
    BY DEF NewSlot, Slot
<1>1. CASE rs = NoState
  <2>1. out.rs = [slots |-> <<first>>, echo1vals |-> {}, term |-> NoVal]
      BY <1>1 DEF HearEcho, NewWithEcho
  <2> HIDE DEF first, out
  <2>2. DOMAIN out.rs.slots = {1} /\ out.rs.slots[1] = first /\ out.rs.term = NoVal
      BY <2>1
  <2> QED
      BY <1>0, <2>2 DEF Backed, Terminated, out
<1>2. CASE rs # NoState /\ Terminated(rs)
  <2>1. out.rs = rs
      BY <1>2 DEF HearEcho, AddEcho
  <2> QED
      BY <2>1
<1>3. CASE rs # NoState /\ ~Terminated(rs)
  <2>1. out = AddEcho(rs, v, q, MinThreshold, HighThreshold)
      BY <1>3 DEF HearEcho
  <2>2. rs.term = NoVal
      BY <1>3 DEF Terminated
  <2>3. /\ rs \in Fields /\ rs.slots \in Seq(Slot)
        /\ \A j \in DOMAIN rs.slots : rs.slots[j] \in Slot
        /\ n = 1 \/ n = 2
        /\ DOMAIN rs.slots = 1 .. n
      BY <1>3, RoundStateIs
  <2>4. CASE i > n
    <3>0. ~(i <= n)
        BY <2>3, <2>4 DEF SlotOf
    <3>1. n = 1
        BY <2>3, <2>4 DEF SlotOf
    <3>2. out.rs = WithSlot(rs, first)
        BY <1>3, <2>1, <2>3, <2>4, <3>0 DEF AddEcho, Fields, WithSlot
    <3> HIDE DEF first, out
    <3>3. out.rs.slots = Append(rs.slots, first) /\ out.rs.term = rs.term
        BY <2>3, <3>2 DEF WithSlot, Fields
    <3>4. Backed(Q, out.rs)
        BY <1>0, <3>1, <3>3, BackedMore
    <3> QED
        BY <3>4 DEF out
  <2>5. CASE i \in DOMAIN rs.slots
    <3>1. /\ s \in Slot /\ s.echo1 = rs.slots[i].echo1 \union {q} /\ s.echo2 = rs.slots[i].echo2
          /\ s.echo1 \subseteq Q /\ s.echo2 \subseteq Q
        BY <2>3, <2>5 DEF Slot, Backed
    <3>2. i <= n /\ ~(i > n)
        BY <2>3, <2>5
    <3>3. CASE Cardinality(s.echo1) >= MinThreshold /\ ~s.sent1
      <4> DEFINE t == [s EXCEPT !.sent1 = TRUE]
      <4>1. t \in Slot /\ t.echo1 = s.echo1 /\ t.echo2 = s.echo2
          BY <3>1 DEF Slot
      <4>2. out.rs = [rs EXCEPT !.slots[i] = t]
          BY <1>3, <2>1, <3>2, <3>3 DEF AddEcho
      <4> HIDE DEF t, s, out
      <4>3. out.rs.slots = [rs.slots EXCEPT ![i] = t] /\ out.rs.term = rs.term
          BY <2>3, <4>2 DEF Fields
      <4>4. t.echo1 \subseteq Q /\ t.echo2 \subseteq Q
          BY <3>1, <4>1
      <4>5. Backed(Q, out.rs)
          BY <2>5, <4>1, <4>3, <4>4, BackedChanged
      <4> QED
          BY <4>5 DEF out
    <3>4. CASE ~(Cardinality(s.echo1) >= MinThreshold /\ ~s.sent1)
               /\ Cardinality(s.echo1) >= HighThreshold /\ ~s.sent2
      <4> DEFINE t == [s EXCEPT !.sent2 = TRUE]
                 u == IF Cardinality(E) = 2 THEN Midpoint(E) ELSE rs.term
      <4>1. t \in Slot /\ t.echo1 = s.echo1 /\ t.echo2 = s.echo2
          BY <3>1 DEF Slot
      <4>2. out.rs = [slots |-> [rs.slots EXCEPT ![i] = t], echo1vals |-> E, term |-> u]
          BY <1>3, <2>1, <3>2, <3>4 DEF AddEcho
      <4>3. Quorate(Q)
          BY <3>1, <3>4, VotesBack
      <4> HIDE DEF t, s, u, E, out
      <4>4. out.rs.slots = [rs.slots EXCEPT ![i] = t]
          BY <4>2
      <4>5. t.echo1 \subseteq Q /\ t.echo2 \subseteq Q
          BY <3>1, <4>1
      <4>6. Backed(Q, out.rs)
          BY <2>5, <4>1, <4>3, <4>4, <4>5, BackedChanged
      <4> QED
          BY <4>6 DEF out
    <3>5. CASE /\ ~(Cardinality(s.echo1) >= MinThreshold /\ ~s.sent1)
               /\ ~(Cardinality(s.echo1) >= HighThreshold /\ ~s.sent2)
      <4>1. out.rs = [rs EXCEPT !.slots[i] = s]
          BY <1>3, <2>1, <3>2, <3>5 DEF AddEcho
      <4> HIDE DEF s, out
      <4>2. out.rs.slots = [rs.slots EXCEPT ![i] = s] /\ out.rs.term = rs.term
          BY <2>3, <4>1 DEF Fields
      <4>3. Backed(Q, out.rs)
          BY <2>5, <3>1, <4>2, BackedChanged
      <4> QED
          BY <4>3 DEF out
    <3> QED
        BY <3>3, <3>4, <3>5
  <2>6. i > n \/ i \in DOMAIN rs.slots
      BY <2>3 DEF SlotOf
  <2> QED
      BY <2>4, <2>5, <2>6
<1> QED
    BY <1>1, <1>2, <1>3

LEMMA HearEcho2Backed ==
    ASSUME NEW rs \in RoundState, NEW v \in Int, NEW Q \in SUBSET Node, NEW q \in Q, Backed(Q, rs)
    PROVE  Backed(Q, HearEcho2(rs, v, q, HighThreshold))
<1> DEFINE new == HearEcho2(rs, v, q, HighThreshold)
           i == SlotOf(rs, v)
           n == Len(rs.slots)
           s == [rs.slots[i] EXCEPT !.echo2 = @ \union {q}]
           first == NewSlot(v, {}, {q})
<1>0. /\ first \in Slot /\ first.echo1 = {} /\ first.echo2 = {q}
    BY DEF NewSlot, Slot
<1>1. CASE rs = NoState
  <2>1. new = [slots |-> <<first>>, echo1vals |-> {}, term |-> NoVal]
      BY <1>1 DEF HearEcho2, NewWithEcho2
  <2> HIDE DEF first, new
  <2>2. DOMAIN new.slots = {1} /\ new.slots[1] = first /\ new.term = NoVal
      BY <2>1
  <2> QED
      BY <1>0, <2>2 DEF Backed, Terminated, new
<1>2. CASE rs # NoState
  <2>1. new = AddEcho2(rs, v, q, HighThreshold)
      BY <1>2 DEF HearEcho2
  <2>2. /\ rs \in Fields /\ rs.slots \in Seq(Slot)
        /\ \A j \in DOMAIN rs.slots : rs.slots[j] \in Slot
        /\ n = 1 \/ n = 2
        /\ DOMAIN rs.slots = 1 .. n
      BY <1>2, RoundStateIs
  <2>3. CASE i > n
    <3>1. new = WithSlot(rs, first)
        BY <2>1, <2>2, <2>3 DEF AddEcho2, Fields, WithSlot
    <3>2. n = 1
        BY <2>2, <2>3 DEF SlotOf
    <3> HIDE DEF first, new
    <3>3. new.slots = Append(rs.slots, first) /\ new.term = rs.term
        BY <2>2, <3>1 DEF WithSlot, Fields
    <3>4. Backed(Q, new)
        BY <1>0, <3>2, <3>3, BackedMore
    <3> QED
        BY <3>4 DEF new
  <2>4. CASE i \in DOMAIN rs.slots
    <3> DEFINE u == IF Cardinality(s.echo2) >= HighThreshold THEN s.val ELSE rs.term
    <3>1. /\ s \in Slot /\ s.echo1 = rs.slots[i].echo1 /\ s.echo2 = rs.slots[i].echo2 \union {q}
          /\ s.echo1 \subseteq Q /\ s.echo2 \subseteq Q
        BY <2>2, <2>4 DEF Slot, Backed
    <3>2. ~(i > n)
        BY <2>2, <2>4
    <3>3. new = [rs EXCEPT !.slots[i] = s, !.term = u]
        BY <2>1, <3>2 DEF AddEcho2
    <3>4. u # rs.term => Quorate(Q)
        BY <3>1, VotesBack
    <3> HIDE DEF s, u, new
    <3>5. new.slots = [rs.slots EXCEPT ![i] = s] /\ new.term = u
        BY <2>2, <3>3 DEF Fields
    <3>6. Backed(Q, new)
        BY <2>4, <3>1, <3>4, <3>5, BackedChanged
    <3> QED
        BY <3>6 DEF new
  <2>5. i > n \/ i \in DOMAIN rs.slots
      BY <2>2 DEF SlotOf
  <2> QED
      BY <2>3, <2>4, <2>5
<1> QED
    BY <1>1, <1>2

\* All rounds of all intervals
BackedRounds(Q, state) == \A k \in 0 .. Rounds : Backed(Q, state[k])
BackedLevel(Q, ints) == \A i \in DOMAIN ints : BackedRounds(Q, ints[i].state)

\* A round after another is backed if it is.
LEMMA RoundsBacked ==
    ASSUME NEW Q, NEW state \in [0 .. Rounds -> RoundState], BackedRounds(Q, state),
           NEW r \in 0 .. Rounds, NEW rs, Backed(Q, rs)
    PROVE  BackedRounds(Q, [state EXCEPT ![r] = rs])
<1>1. \A k \in 0 .. Rounds : [state EXCEPT ![r] = rs][k] = IF k = r THEN rs ELSE state[k]
    OBVIOUS
<1> QED
    BY <1>1 DEF BackedRounds

\* The parts of intervals are what these are.
LEMMA PartsBacked ==
    ASSUME NEW ints, Tiled(ints), NEW cut, Tiled(cut), SameAt(cut, ints), NEW Q, BackedLevel(Q, ints)
    PROVE  BackedLevel(Q, cut)
<1> SUFFICES ASSUME NEW i \in DOMAIN cut PROVE BackedRounds(Q, cut[i].state)
    BY DEF BackedLevel
<1> DEFINE y == cut[i].start
<1>1. y \in Point /\ Covers(cut[i], y)
    BY StartIs
<1> HIDE DEF y
<1>2. StateAt(cut, y) = cut[i].state
    BY <1>1, AtIs
<1>3. PICK j \in DOMAIN ints : Covers(ints[j], y)
    BY <1>1, CoveredOnce
<1>4. StateAt(ints, y) = ints[j].state
    BY <1>1, <1>3, AtIs
<1> QED
    BY <1>1, <1>2, <1>4 DEF SameAt, BackedLevel

LEMMA HearingBacked ==
    ASSUME NEW ints, Tiled(ints), NEW who, NEW r \in 0 .. Rounds, NEW v \in Int,
           NEW Q \in SUBSET Node, NEW q \in Q, BackedLevel(Q, ints),
           NEW res, res = Hearing(ints, who, r, v, q)
    PROVE  Tiled(Intervals(res)) /\ BackedLevel(Q, Intervals(res))
<1>1. q \in Node
    OBVIOUS
<1>2. Results(res, ints) /\ AllHeard(res, ints, who, r, v, q)
    BY <1>1, HearingIs
<1> DEFINE new == Intervals(res)
<1>3. /\ Tiled(new) /\ Len(new) = Len(ints)
      /\ \A i \in 1 .. Len(ints) : new[i] = res[i].int
    BY <1>2, IntervalsAre
<1> HIDE DEF new
<1>4. DOMAIN new = 1 .. Len(ints) /\ DOMAIN ints = 1 .. Len(ints)
    BY <1>3, TilesAre
<1>5. ASSUME NEW i \in 1 .. Len(ints) PROVE BackedRounds(Q, new[i].state)
  <2>1. ints[i] \in AnInterval /\ BackedRounds(Q, ints[i].state)
      BY <1>4, TilesAre DEF BackedLevel
  <2>2. ints[i].state \in [0 .. Rounds -> RoundState]
      BY <2>1 DEF AnInterval
  <2>3. Backed(Q, Heeding(ints[i], r, v, q).rs)
    <3>1. ints[i].state[r] \in RoundState /\ Backed(Q, ints[i].state[r])
        BY <2>1, <2>2 DEF BackedRounds
    <3> QED
        BY <3>1, HearEchoBacked DEF Heeding
  <2>4. new[i].state = [ints[i].state EXCEPT ![r] = Heeding(ints[i], r, v, q).rs]
        \/ new[i].state = ints[i].state
      BY <1>2, <1>3 DEF AllHeard
  <2>5. BackedRounds(Q, [ints[i].state EXCEPT ![r] = Heeding(ints[i], r, v, q).rs])
      BY <2>1, <2>2, <2>3, RoundsBacked
  <2> QED
      BY <2>1, <2>4, <2>5
<1>6. BackedLevel(Q, new)
    BY <1>4, <1>5 DEF BackedLevel
<1> QED
    BY <1>3, <1>6 DEF new

LEMMA TellBacked ==
    ASSUME NEW acc, Tiled(acc.ints), NEW said \in Said3, NEW r \in 0 .. Rounds,
           NEW Q \in SUBSET Node, NEW q \in Q, BackedLevel(Q, acc.ints)
    PROVE  BackedLevel(Q, Tell(acc, said, r, q).ints)
<1> DEFINE cut == SplitFor(acc.ints, said)
           first == Hearing(cut, Fresh(cut, acc.ints, said), r, said.val, q)
           mid == Intervals(first)
           second == Hearing(mid, Told(mid, said), r, said.val, q)
<1>1. said.val \in Int
    BY DEF Said3
<1>2. Tell(acc, said, r, q).ints = Intervals(second)
    BY DEF Tell, BothLoops, SecondLoop, Noted
<1>3. Tiled(cut) /\ SameAt(cut, acc.ints)
    BY SplitForKeeps
<1> HIDE DEF cut
<1>4. BackedLevel(Q, cut)
    BY <1>3, PartsBacked
<1>5. Tiled(mid) /\ BackedLevel(Q, mid)
  <2> DEFINE who == Fresh(cut, acc.ints, said)
  <2>1. first = Hearing(cut, who, r, said.val, q)
      OBVIOUS
  <2> HIDE DEF who, first
  <2> QED
      BY <1>1, <1>3, <1>4, <2>1, HearingBacked
<1> HIDE DEF mid
<1>6. BackedLevel(Q, Intervals(second))
    BY <1>1, <1>5, HearingBacked
<1> QED
    BY <1>2, <1>6

\* Level::add_echo counts its sender and nobody else, whatever it is sent.
LEMMA EchoBacked ==
    ASSUME NEW ints, Tiled(ints), NEW echo \in Seq(Said3), NEW r \in 0 .. Rounds,
           NEW Q \in SUBSET Node, NEW q \in Q, BackedLevel(Q, ints)
    PROVE  BackedLevel(Q, LevelEcho(ints, echo, r, q).ints)
<1> DEFINE N == Len(echo)
<1>1. q \in Node /\ N \in Nat /\ \A n \in 1 .. N : echo[n] \in Said3
    OBVIOUS
<1>2. PICK run : EchoRun(run, ints, echo, r, q) /\ LevelEcho(ints, echo, r, q) = run[N]
    BY <1>1, EchoRuns
<1>3. /\ \A n \in 0 .. N : run[n] \in Acc
      /\ run[0].ints = ints
      /\ \A n \in 1 .. N : run[n] = Tell(run[n - 1], echo[n], r, q)
    BY <1>2 DEF EchoRun
<1> HIDE DEF N
<1> DEFINE T == {n \in 0 .. N : BackedLevel(Q, run[n].ints)}
<1>4. 0 \in T
    BY <1>1, <1>3
<1>5. ASSUME NEW n \in 0 .. N - 1, n \in T PROVE n + 1 \in T
  <2>1. n + 1 \in 1 .. N /\ n + 1 \in 0 .. N /\ (n + 1) - 1 = n /\ n \in 0 .. N
      BY <1>1
  <2>2. run[n + 1] = Tell(run[n], echo[n + 1], r, q) /\ echo[n + 1] \in Said3
      BY <1>1, <1>3, <2>1
  <2>3. Tiled(run[n].ints) /\ BackedLevel(Q, run[n].ints)
      BY <1>3, <1>5, <2>1 DEF Acc
  <2>4. BackedLevel(Q, run[n + 1].ints)
      BY <2>2, <2>3, TellBacked
  <2> QED
      BY <2>1, <2>4
<1> HIDE DEF T
<1>6. \A n \in 0 .. N : n \in T
    BY <1>1, <1>4, <1>5, UpTo
<1>7. N \in T
    BY <1>1, <1>6
<1> QED
    BY <1>2, <1>7 DEF T

LEMMA Hearing2Backed ==
    ASSUME NEW ints, Tiled(ints), NEW who, NEW r \in 0 .. Rounds, NEW v \in Int,
           NEW Q \in SUBSET Node, NEW q \in Q, BackedLevel(Q, ints),
           NEW new, new = Hearing2(ints, who, r, v, q)
    PROVE  Tiled(new) /\ BackedLevel(Q, new)
<1>1. q \in Node
    OBVIOUS
<1>2. Tiled(new) /\ SameEnds(new, ints) /\ AllHeard2(new, ints, who, r, v, q)
    BY <1>1, Hearing2Is
<1>4. DOMAIN new = 1 .. Len(ints) /\ DOMAIN ints = 1 .. Len(ints)
    BY <1>2, TilesAre DEF SameEnds
<1>5. ASSUME NEW i \in 1 .. Len(ints) PROVE BackedRounds(Q, new[i].state)
  <2>1. ints[i] \in AnInterval /\ BackedRounds(Q, ints[i].state)
      BY <1>4, TilesAre DEF BackedLevel
  <2>2. ints[i].state \in [0 .. Rounds -> RoundState]
      BY <2>1 DEF AnInterval
  <2>3. Backed(Q, Heeding2(ints[i], r, v, q))
    <3>1. ints[i].state[r] \in RoundState /\ Backed(Q, ints[i].state[r])
        BY <2>1, <2>2 DEF BackedRounds
    <3> QED
        BY <3>1, HearEcho2Backed DEF Heeding2
  <2>4. new[i].state = [ints[i].state EXCEPT ![r] = Heeding2(ints[i], r, v, q)]
        \/ new[i].state = ints[i].state
      BY <1>2 DEF AllHeard2
  <2>5. BackedRounds(Q, [ints[i].state EXCEPT ![r] = Heeding2(ints[i], r, v, q)])
      BY <2>1, <2>2, <2>3, RoundsBacked
  <2> QED
      BY <2>1, <2>4, <2>5
<1> QED
    BY <1>2, <1>4, <1>5 DEF BackedLevel

LEMMA Tell2Backed ==
    ASSUME NEW ints, Tiled(ints), NEW said \in Said3, NEW r \in 0 .. Rounds,
           NEW Q \in SUBSET Node, NEW q \in Q, BackedLevel(Q, ints)
    PROVE  BackedLevel(Q, Tell2(ints, said, r, q))
<1> DEFINE cut == SplitFor(ints, said)
           who == Fresh(cut, ints, said)
           mid == Hearing2(cut, who, r, said.val, q)
<1>1. said.val \in Int
    BY DEF Said3
<1>2. Tell2(ints, said, r, q) = Hearing2(mid, Told(cut, said), r, said.val, q)
    BY DEF Tell2, BothLoops2
<1>3. Tiled(cut) /\ SameAt(cut, ints)
    BY SplitForKeeps
<1> HIDE DEF cut, who
<1>4. BackedLevel(Q, cut)
    BY <1>3, PartsBacked
<1>5. Tiled(mid) /\ BackedLevel(Q, mid)
    BY <1>1, <1>3, <1>4, Hearing2Backed
<1> HIDE DEF mid
<1> QED
    BY <1>1, <1>2, <1>5, Hearing2Backed

\* Level::add_echo2 likewise.
LEMMA Echo2Backed ==
    ASSUME NEW ints, Tiled(ints), NEW echo \in Seq(Said3), NEW r \in 0 .. Rounds,
           NEW Q \in SUBSET Node, NEW q \in Q, BackedLevel(Q, ints)
    PROVE  BackedLevel(Q, LevelEcho2(ints, echo, r, q))
<1> DEFINE N == Len(echo)
<1>1. q \in Node /\ N \in Nat /\ \A n \in 1 .. N : echo[n] \in Said3
    OBVIOUS
<1>2. PICK run : EchoRun2(run, ints, echo, r, q) /\ LevelEcho2(ints, echo, r, q) = run[N]
    BY <1>1, EchoRuns2
<1>3. /\ \A n \in 0 .. N : run[n] \in Tilings
      /\ run[0] = ints
      /\ \A n \in 1 .. N : run[n] = Tell2(run[n - 1], echo[n], r, q)
    BY <1>2 DEF EchoRun2
<1> HIDE DEF N
<1> DEFINE T == {n \in 0 .. N : BackedLevel(Q, run[n])}
<1>4. 0 \in T
    BY <1>1, <1>3
<1>5. ASSUME NEW n \in 0 .. N - 1, n \in T PROVE n + 1 \in T
  <2>1. n + 1 \in 1 .. N /\ n + 1 \in 0 .. N /\ (n + 1) - 1 = n /\ n \in 0 .. N
      BY <1>1
  <2>2. run[n + 1] = Tell2(run[n], echo[n + 1], r, q) /\ echo[n + 1] \in Said3
      BY <1>1, <1>3, <2>1
  <2>3. Tiled(run[n]) /\ BackedLevel(Q, run[n])
      BY <1>3, <1>5, <2>1, TilingIs
  <2>4. BackedLevel(Q, run[n + 1])
      BY <2>2, <2>3, Tell2Backed
  <2> QED
      BY <2>1, <2>4
<1> HIDE DEF T
<1>6. \A n \in 0 .. N : n \in T
    BY <1>1, <1>4, <1>5, UpTo
<1>7. N \in T
    BY <1>1, <1>6
<1> QED
    BY <1>2, <1>7 DEF T

\* Level::start_round counts the node that begins.
LEMMA StartBacked ==
    ASSUME NEW ints, Tiled(ints), NEW r \in 0 .. Rounds, NEW v \in Int,
           NEW Q \in SUBSET Node, NEW p \in Q, BackedLevel(Q, ints)
    PROVE  BackedLevel(Q, LevelStart(ints, r, p, v).ints)
<1> DEFINE new == LevelStart(ints, r, p, v).ints
<1>1. p \in Node
    OBVIOUS
<1>2. Tiled(new) /\ SameEnds(new, ints) /\ Begun(new, ints, r, p, v)
    BY <1>1, LevelStartIs
<1> HIDE DEF new
<1>3. DOMAIN new = 1 .. Len(ints) /\ DOMAIN ints = 1 .. Len(ints)
    BY <1>2, TilesAre DEF SameEnds
<1>4. ASSUME NEW i \in 1 .. Len(ints) PROVE BackedRounds(Q, new[i].state)
  <2> DEFINE x == StartOf(ints[i], r, v)
             s == NewSlot(x, {p}, {})
             rs == NewWithEcho(x, p)
  <2>1. ints[i] \in AnInterval /\ BackedRounds(Q, ints[i].state)
      BY <1>3, TilesAre DEF BackedLevel
  <2>2. ints[i].state \in [0 .. Rounds -> RoundState]
      BY <2>1 DEF AnInterval
  <2>3. new[i].state = [ints[i].state EXCEPT ![r] = rs]
      BY <1>2 DEF Begun
  <2>4. s.echo1 = {p} /\ s.echo2 = {} /\ rs = [slots |-> <<s>>, echo1vals |-> {}, term |-> NoVal]
      BY DEF NewSlot, NewWithEcho
  <2> HIDE DEF s, rs
  <2>5. Backed(Q, rs)
    <3>1. DOMAIN rs.slots = {1} /\ rs.slots[1] = s /\ rs.term = NoVal
        BY <2>4
    <3> QED
        BY <2>4, <3>1 DEF Backed, Terminated
  <2> QED
      BY <2>1, <2>2, <2>3, <2>5, RoundsBacked
<1> QED
    BY <1>3, <1>4 DEF BackedLevel, new
=============================================================================
